----------------------------- MODULE ServerLogs -----------------------------
(***************************************************************************)
(* The server with the logger of the logger package: Logged is Record of   *)
(* Redaction.                                                              *)
(***************************************************************************)
EXTENDS Server, Redaction

(* What a request brings that may be logged, and what the server adds: IDs and flags. *)
Brought(in) == {in.attr, Attr("body", in.body.tree), Attr("body", in.resp.tree), Attr("query", Query)}
OwnTexts == {"none", "good", "true"} \cup Request

(* Texts are names: one that a rule is for is the name of nothing else. *)
ASSUME LogAssumption ==
    /\ MaxDepth \in Nat /\ MaxLogValues \in Nat \ {0} /\ Deepest \in Nat
    /\ \A key \in DOMAIN Masked : Masked[key].first \in Int /\ Masked[key].last \in Int
    /\ \A sent \in Loads : \A i \in DOMAIN sent : \A a, b \in Brought(sent[i]) :
        Loggable(a) /\ Sensitive(a) \cap (OwnTexts \cup Public(b)) = {}

(***************************************************************************)
(* No line, of a request, of its handler or of an outbound call, shows a   *)
(* value under a ruled key: at any depth, in groups, maps and slices,      *)
(* behind LogValuers that fail, past maxDepth, and with any mask.          *)
(***************************************************************************)
NoRuledValueLogged ==
    LET shown(attrs) == UNION {Readable(a) : a \in ToSet(attrs)}
        ruled(in) == UNION {Sensitive(a) : a \in Brought(in)}
    IN  \A i \in Request : req[i].way # "idle" =>
            ruled(req[i].in) \cap
                (shown(req[i].line.attrs) \cup shown(req[i].noted) \cup shown(req[i].call.line)) = {}
=============================================================================
