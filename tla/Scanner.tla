------------------------------ MODULE Scanner -------------------------------
(***************************************************************************)
(* cli/migrationx/scanner.go: a migration script split into statements.    *)
(*                                                                         *)
(* A script is a sequence of characters: "x" stands for SQL text, "nl" for *)
(* the end of a line, "sq", "dq" and "bt" for the three quotes, "escape"   *)
(* for a backslash, and "begin", "end", "notx" and "bogus" for a whole     *)
(* line that is that annotation ("bogus" is an unknown or a malformed      *)
(* one); inside a quote or a block comment such a line is text.  The last  *)
(* line gets a newline too.  A statement is the set of the places in the   *)
(* script of its characters.                                               *)
(***************************************************************************)
EXTENDS Integers, Sequences

Quotes == {"sq", "dq", "bt"}
Blank == {" ", "nl"}
Annotation == {"begin", "end", "notx", "bogus"}
Chars == Quotes \cup Blank \cup Annotation \cup {"x", ";", "-", "#", "/", "*", "escape"}

Size(src) == Len(src) + 1
At(src, i) == IF i \in DOMAIN src THEN src[i] ELSE "nl"

TrimBlanks(src, stmt) ==
    LET solid == {k \in stmt : At(src, k) \notin Blank}
    IN  {k \in stmt : \E a, b \in solid : a <= k /\ k <= b}

LineComment(c, next, esc) == (c = "-" /\ next = "-") \/ (c = "#" /\ esc)
BlockComment(c, next) == c = "/" /\ next = "*"
BlockEnds(c, next) == c = "*" /\ next = "/"
Escapes(quote, c, next, esc) == esc /\ c = "escape" /\ quote # "bt" /\ next # "nl"

-----------------------------------------------------------------------------
(***************************************************************************)
(* isExecutable: something beyond comments and blanks.  at is the next     *)
(* character to look at.                                                   *)
(***************************************************************************)
Unseen == [at |-> 1, in |-> "code", found |-> FALSE]

look(src, stmt, esc, st, i) ==
    LET c == At(src, i)
        next == IF i + 1 \in stmt THEN At(src, i + 1) ELSE "nl"
        to(n, in) == [at |-> i + n, in |-> in, found |-> FALSE]
    IN  IF i \notin stmt \/ st.at > i \/ st.found THEN st
        ELSE CASE st.in = "block" -> IF BlockEnds(c, next) THEN to(2, "code") ELSE to(1, "block")
               [] st.in = "line" -> to(1, IF c = "nl" THEN "code" ELSE "line")
               [] st.in = "code" ->
                    IF LineComment(c, next, esc) THEN to(1, "line")
                    ELSE IF BlockComment(c, next) THEN to(2, "block")
                    ELSE [at |-> i + 1, in |-> "code", found |-> c \notin Blank]

isExecutable(src, stmt, esc) ==
    LET after[i \in 0..Size(src)] ==
            IF i = 0 THEN Unseen ELSE look(src, stmt, esc, after[i - 1], i)
    IN  after[Size(src)].found

flush(src, st, esc) ==
    LET stmt == TrimBlanks(src, st.buf)
    IN  [st EXCEPT !.buf = {}, !.out = IF isExecutable(src, stmt, esc) THEN Append(@, stmt) ELSE @]

(***************************************************************************)
(* scanLine, a character of the line at a time: st.at is the next to be    *)
(* read, and a character consumed with one before it is passed over.       *)
(***************************************************************************)
SplitsAlways(region) == TRUE
SplitsOutside(region) == ~region

EndOfLine(src, i) ==
    CHOOSE k \in i..Size(src) : At(src, k) = "nl" /\ \A j \in i..(k - 1) : At(src, j) # "nl"

scanLine(src, esc, st, i) ==
    LET c == At(src, i)
        next == At(src, i + 1)
        take(n, mode) == [st EXCEPT !.buf = @ \cup i..(i + n - 1), !.at = i + n, !.mode = mode]
    IN  CASE st.mode \in Quotes ->
                IF Escapes(st.mode, c, next, esc) THEN take(2, st.mode)
                ELSE take(1, IF c = st.mode THEN "normal" ELSE st.mode)
          [] st.mode = "block" -> IF BlockEnds(c, next) THEN take(2, "normal") ELSE take(1, "block")
          [] st.mode = "normal" ->
                IF LineComment(c, next, esc) THEN take(EndOfLine(src, i) - i, "normal")
                ELSE IF BlockComment(c, next) THEN take(2, "block")
                ELSE IF c \in Quotes THEN take(1, c)
                ELSE IF c = ";" /\ SplitsOutside(st.region) THEN [flush(src, st, esc) EXCEPT !.at = i + 1]
                ELSE take(1, "normal")

(* An annotation line, met outside quotes and comments. *)
annotate(src, esc, st, i) ==
    LET a == At(src, i)
        past == [st EXCEPT !.at = i + 1]
    IN  IF a = "notx" THEN [past EXCEPT !.noTx = TRUE]
        ELSE IF a = "begin" /\ ~st.region THEN [flush(src, past, esc) EXCEPT !.region = TRUE]
        ELSE IF a = "end" /\ st.region THEN [flush(src, past, esc) EXCEPT !.region = FALSE]
        ELSE [past EXCEPT !.err = TRUE]

Unread == [mode |-> "normal", buf |-> {}, out |-> <<>>, at |-> 1, region |-> FALSE, noTx |-> FALSE, err |-> FALSE]

read(src, esc, st, i) ==
    IF st.err \/ st.at > i THEN st
    ELSE IF st.mode = "normal" /\ At(src, i) \in Annotation THEN annotate(src, esc, st, i)
    ELSE scanLine(src, esc, st, i)

Failed == [ok |-> FALSE, statements |-> <<>>, noTx |-> FALSE]

parseScript(src, esc) ==
    LET after[i \in 0..Size(src)] == IF i = 0 THEN Unread ELSE read(src, esc, after[i - 1], i)
        end == after[Size(src)]
    IN  IF end.err \/ end.region \/ end.mode # "normal" THEN Failed
        ELSE [ok |-> TRUE, statements |-> flush(src, end, esc).out, noTx |-> end.noTx]

-----------------------------------------------------------------------------
(***************************************************************************)
(* The reference: the lexical mode after each character, an automaton      *)
(* without lines, buffers or lookbehind, and from the modes the places     *)
(* where the script is cut.                                                *)
(***************************************************************************)
Lex(mode, c, next, esc) ==
    CASE mode = "code" ->
            IF LineComment(c, next, esc) THEN "line"
            ELSE IF BlockComment(c, next) THEN "open"
            ELSE IF c \in Quotes THEN c
            ELSE "code"
      [] mode = "line" -> IF c = "nl" THEN "code" ELSE "line"
      [] mode = "open" -> "block"
      [] mode = "block" -> IF BlockEnds(c, next) THEN "close" ELSE "block"
      [] mode = "close" -> "code"
      [] mode = "escapeSq" -> "sq"
      [] mode = "escapeDq" -> "dq"
      [] mode \in Quotes ->
            IF c = mode THEN "code"
            ELSE IF Escapes(mode, c, next, esc) THEN (IF mode = "sq" THEN "escapeSq" ELSE "escapeDq")
            ELSE mode

RefModes(src, esc) ==
    LET mode[k \in 0..Size(src)] ==
            IF k = 0 THEN "code" ELSE Lex(mode[k - 1], At(src, k), At(src, k + 1), esc)
    IN  mode

Coded(mode, k) == mode[k - 1] = "code"
Marks(src, mode) == {k \in DOMAIN src : src[k] \in {"begin", "end"} /\ Coded(mode, k)}
InRegion(src, marks, k) ==
    \E a \in marks : a < k /\ src[a] = "begin" /\ \A b \in marks : b > a => b >= k
Dropped(src, mode, k) == At(src, k) = "notx" /\ Coded(mode, k)

(* A line that may not be where it is. *)
Misplaced(src, mode, marks, k) ==
    /\ Coded(mode, k)
    /\ \/ At(src, k) = "bogus"
       \/ At(src, k) = "begin" /\ InRegion(src, marks, k)
       \/ At(src, k) = "end" /\ ~InRegion(src, marks, k)

Cuts(src, mode, marks) ==
    marks \cup {Size(src) + 1}
      \cup {k \in DOMAIN src : src[k] = ";" /\ Coded(mode, k) /\ ~InRegion(src, marks, k)}
Piece(src, mode, cuts, k) ==
    {j \in 1..(k - 1) : ~Dropped(src, mode, j) /\ \A c \in cuts : ~(j <= c /\ c < k)}
Solid(src, mode, k) == Coded(mode, k) /\ mode[k] \notin {"line", "open"} /\ At(src, k) \notin Blank

Cut(src, mode, cuts, found, k) ==
    LET piece == Piece(src, mode, cuts, k)
    IN  IF k \in cuts /\ \E j \in piece : Solid(src, mode, j) THEN Append(found, TrimBlanks(src, piece)) ELSE found

RefSplit(src, mode, cuts) ==
    LET found[k \in 0..(Size(src) + 1)] ==
            IF k = 0 THEN <<>> ELSE Cut(src, mode, cuts, found[k - 1], k)
    IN  found[Size(src) + 1]

RefAccepts(src, esc) ==
    LET mode == RefModes(src, esc)
        marks == Marks(src, mode)
    IN  /\ \A k \in DOMAIN src : ~Misplaced(src, mode, marks, k)
        /\ ~InRegion(src, marks, Size(src) + 1)
        /\ mode[Size(src)] = "code"

RefScript(src, esc) ==
    LET mode == RefModes(src, esc)
    IN  IF RefAccepts(src, esc)
        THEN [ok |-> TRUE, statements |-> RefSplit(src, mode, Cuts(src, mode, Marks(src, mode))),
              noTx |-> \E k \in DOMAIN src : Dropped(src, mode, k)]
        ELSE Failed
=============================================================================
