----------------------------- MODULE Redaction ------------------------------
(***************************************************************************)
(* logger/redact.go, mask.go and ctxattrs.go: what a log record looks like *)
(* when it reaches the sink.  reflect and fmt.Sprint are external.         *)
(***************************************************************************)
EXTENDS Integers, Sequences, FiniteSets, SequencesExt, LogValue

CONSTANTS
    Redacted,      \* keys to replace
    Masked,        \* keys to mask: how many leading and trailing runes to show
    MaxDepth,      \* maxDepth
    MaxLogValues,  \* maxLogValues
    IntMax,        \* the largest int
    Deepest        \* how far down a value is unfolded; some hold themselves

Fixed(text) == Value("fixed", text, 0, <<>>)
Unloggable == Fixed("unloggable")

(* strings.ToLower on the keys in use. *)
Lower(key) == IF key = "Password" THEN "password" ELSE IF key = "Card" THEN "card" ELSE key

(* wrapRedact: a key in both sets is redacted.  Elements of slices and pointers have no key. *)
IsRedacted(key) == key \in Redacted
Ruled(key) == key # "" /\ Lower(key) \in Redacted \cup DOMAIN Masked

(* maskString on runes: the positions left readable. *)
NonNeg(n) == IF n < 0 THEN 0 ELSE n
Wrap(n) == ((n + IntMax + 1) % (2 * IntMax + 2)) - IntMax - 1
NoMiddleWrapped(n, first, last) == n <= Wrap(first + last)
NoMiddle(n, first, last) == first >= n \/ last >= n - first
maskString(n, m) ==
    LET first == NonNeg(m.first)
        last  == NonNeg(m.last)
    IN  IF NoMiddle(n, first, last) THEN {}
        ELSE {k \in 1..n : k <= first \/ k > n - last}

(* What a rule writes for a value, printed with fmt.Sprint if it is masked. *)
Apply(key, v) ==
    IF IsRedacted(Lower(key)) THEN Fixed("replacement")
    ELSE [Value("masked", v.text, v.len, <<>>) EXCEPT !.shown = maskString(v.len, Masked[Lower(key)])]

(* The attrs at and below one, all of them or those that no ruled one holds. *)
Kids(attrs, all) == UNION {ToSet(a.val.kids) : a \in {b \in attrs : all \/ ~Ruled(b.key)}}
Reached(a, all) ==
    LET level[n \in 0..Deepest] == IF n = 0 THEN {a} ELSE Kids(level[n - 1], all)
    IN  UNION {level[n] : n \in 0..Deepest}
Within(a) == Reached(a, TRUE)
Open(a) == Reached(a, FALSE)

(* resolve follows a chain of LogValuers, and gives up on a panic or a long one. *)
LogValue(v) == IF v.kind # "valuer" THEN v ELSE IF v.kids = <<>> THEN Unloggable ELSE v.kids[1].val
resolve(v) ==
    LET after[n \in 0..MaxLogValues] == IF n = 0 THEN v ELSE LogValue(after[n - 1])
        last == after[MaxLogValues - 1]
    IN  IF last.kind = "valuer" THEN Unloggable ELSE last

Nested == {"struct", "map", "slice", "ptr"}

(***************************************************************************)
(* sanitize, on everything a KindAny value below the attr a holds, n       *)
(* levels above maxDepth; under is what it makes of the level below.  The  *)
(* fields plan leaves out (unexported, or json:"-") are not in the tree.   *)
(***************************************************************************)
Held(a) == {b.val : b \in Within(a)}
SanitizeLevel(a, under) ==
    [v \in Held(a) |->
        IF v.kind \notin Nested THEN v
        ELSE [v EXCEPT !.kids = [k \in DOMAIN v.kids |->
                LET b == v.kids[k] IN
                Attr(b.key, IF Ruled(b.key) THEN Apply(b.key, b.val) ELSE under[b.val])]]]
sanitize(a) ==
    LET to[n \in 0..MaxDepth] ==
            IF n = 0 THEN [v \in Held(a) |-> Unloggable] ELSE SanitizeLevel(a, to[n - 1])
    IN  to

(* process, on the attrs below a; an attr no rule changes is passed on as it was. *)
ProcessLevel(a, n, under) ==
    [b \in Within(a) |->
        LET v == resolve(b.val) IN
        CASE Ruled(b.key) -> IF v = Unloggable /\ ~IsRedacted(Lower(b.key)) THEN v ELSE Apply(b.key, v)
          [] ~Ruled(b.key) /\ v = Unloggable -> v
          [] ~Ruled(b.key) /\ v.kind = "group" ->
                [v EXCEPT !.kids = [k \in DOMAIN v.kids |-> Attr(v.kids[k].key, under[v.kids[k]])]]
          [] OTHER -> sanitize(a)[n][v]]
processed(a) ==
    LET to[n \in 0..MaxDepth] ==
            IF n = 0 THEN [b \in Within(a) |-> Unloggable] ELSE ProcessLevel(a, n, to[n - 1])
    IN  to
process(a) == Attr(a.key, processed(a)[MaxDepth][a])

(* redactHandler.Handle, and WithAttrs for attrs bound with With. *)
Handle(attrs) == [k \in DOMAIN attrs |-> process(attrs[k])]

(* ctxHandler.Handle: extracted attrs whose key the record has are dropped. *)
Keys(attrs) == {attrs[k].key : k \in DOMAIN attrs}
Enrich(attrs, extracted) ==
    LET add(rec, a) == IF a.key \in Keys(attrs) THEN rec ELSE Append(rec, a)
        with[k \in 0..Len(extracted)] == IF k = 0 THEN attrs ELSE add(with[k - 1], extracted[k])
    IN  with[Len(extracted)]

(* Wrap: enrichment above redaction. *)
Record(attrs, extracted) == Handle(Enrich(attrs, extracted))

-----------------------------------------------------------------------------
(* What can be read in full at or below an attr; of that what a rule is for, and what none is for. *)
InFull(v) == v.len > 0 /\ (v.kind = "leaf" \/ (v.kind = "masked" /\ v.shown = 1..v.len))
Readable(a) == {b.val.text : b \in {c \in Within(a) : InFull(c.val)}}
Sensitive(a) == UNION {Readable(b) : b \in {c \in Within(a) : Ruled(c.key)}}
Public(a) == {b.val.text : b \in {c \in Open(a) : InFull(c.val) /\ ~Ruled(c.key)}}

(* What a program can log: a Go value holds Go values only, never the groups and LogValuers of slog. *)
Scalar == {"leaf", "nil", "raw"}
Loggable(a) ==
    /\ \A b \in Open(a) : Ruled(b.key) \/ ToSet(b.val.kids) \subseteq Open(a)
    /\ \A b \in Within(a) :
        LET v == b.val IN
        /\ ToSet(v.kids) \subseteq Within(a)
        /\ v = Value(v.kind, v.text, v.len, v.kids) /\ v.len \in Nat /\ v.kids \in Seq(ToSet(v.kids))
        /\ v.kind \in Scalar \cup Nested \cup {"group", "valuer"}
        /\ v.kind \in Scalar => v.kids = <<>>
        /\ v.kind = "valuer" => \A kid \in ToSet(v.kids) : kid.key = ""
        /\ v.kind \in Nested => \A kid \in ToSet(v.kids) : kid.val.kind \in Scalar \cup Nested
=============================================================================
