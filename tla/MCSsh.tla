------------------------------- MODULE MCSsh --------------------------------
EXTENDS SSHClient

(* d1 dials a name; d2 dials the address behind it, or the same name. *)
MCTarget == [d \in Dial |-> IF d = "d2" THEN [host |-> "addr", remote |-> "addr"]
                            ELSE [host |-> "name", remote |-> "addr"]]

(* An empty file, or one with the name already pinned. *)
MCStart ==
    LET pinned == <<Line({"name"}, "k1")>>
    IN  [policy : {"tofu"}, lines : {<<>>, pinned}] \cup
        {[policy |-> "strict", lines |-> pinned], [policy |-> "any", lines |-> <<>>]}
=============================================================================
