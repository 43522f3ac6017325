------------------------------ MODULE LogValue ------------------------------
(***************************************************************************)
(* What is handed to slog: an attr is a key with a value, and a value is a *)
(* tree.  kind is "leaf" (a string or number), "group" (slog attrs),       *)
(* "struct", "map", "slice", "ptr" (an interface too), "nil" or "valuer";  *)
(* "fixed" and "masked" are what redaction writes, and "raw" is a body     *)
(* that is no JSON.  A valuer with no kid panics.  A leaf's text is a name *)
(* for its contents and len its length in runes; what holds others is      *)
(* printed by printing them.                                               *)
(***************************************************************************)
EXTENDS Integers, SequencesExt

Value(kind, text, len, kids) == [kind |-> kind, text |-> text, len |-> len, kids |-> kids, shown |-> {}]
Leaf(text, len) == Value("leaf", text, len, <<>>)
Node(kind, kids) ==
    Value(kind, IF kids = <<>> THEN "" ELSE kids[1].val.text, FoldLeft(LAMBDA n, a : n + a.val.len, 0, kids), kids)
Attr(key, val) == [key |-> key, val |-> val]
=============================================================================
