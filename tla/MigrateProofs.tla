--------------------------- MODULE MigrateProofs ----------------------------
(***************************************************************************)
(* Theorems about the command line, its layers and the migrate command,    *)
(* for every tree of flags that mounts it, every command line, environment *)
(* and file, under LeavesRun where the command line is read; and about its *)
(* scanner, its loader and create, for every script, every set of files    *)
(* and every directory.                                                    *)
(***************************************************************************)
EXTENDS Migrate, FiniteSetTheorems, FunctionTheorems, SequenceTheorems, WellFoundedInduction, TLAPS

(* Induction up to a number, for a property that is given as a set. *)
LEMMA UpTo ==
    ASSUME NEW n \in Nat, NEW Good, 0 \in Good,
           \A k \in 1..n : k - 1 \in Good => k \in Good
    PROVE  0..n \subseteq Good
  <1> DEFINE Bad == {k \in 0..n : k \notin Good}
             Less == OpToRel(<, Nat)
  <1>1. SUFFICES ASSUME Bad # {} PROVE FALSE
    OBVIOUS
  <1>2. Bad \in SUBSET Nat
    OBVIOUS
  <1>3. \A x, y \in Nat : x < y => <<x, y>> \in Less
    BY DEF OpToRel
  <1> HIDE DEF Bad
  <1>4. \E m \in Bad : \A x \in Bad : ~(<<x, m>> \in Less)
    BY <1>1, <1>2, NatLessThanWellFounded, WFMin, Zenon
  <1> HIDE DEF Less
  <1>5. PICK m \in Bad : \A x \in Bad : ~(<<x, m>> \in Less)
    BY <1>4
  <1>6. \A x \in Bad : ~(x < m)
    BY <1>2, <1>3, <1>5, Zenon
  <1>7. m \in 1..n /\ m \notin Good
    BY DEF Bad
  <1>8. m - 1 \in Bad
    BY <1>7 DEF Bad
  <1>9. QED
    BY <1>6, <1>7, <1>8

-----------------------------------------------------------------------------
(***************************************************************************)
(* A command line read a unit at a time.                                   *)
(***************************************************************************)
Unfolds(units, n, g) == g = [k \in 0..n |-> IF k = 0 THEN NothingRead ELSE ReadUnit(g[k - 1], units[k])]
LineAt(units) == CHOOSE g : Unfolds(units, Len(units), g)

(* Reading is a recursion that has a solution: after every unit it is one step further. *)
LEMMA ReadingUnfolds ==
    ASSUME NEW units, Len(units) \in Nat
    PROVE  /\ ReadLine(units) = LineAt(units)[Len(units)]
           /\ LineAt(units)[0] = NothingRead
           /\ \A k \in 1..Len(units) : LineAt(units)[k] = ReadUnit(LineAt(units)[k - 1], units[k])
  <1> DEFINE n == Len(units)
             Good == {m \in 0..n : \E g : Unfolds(units, m, g)}
  <1>1. 0 \in Good
    <2> DEFINE g == [k \in 0..0 |-> NothingRead]
    <2>1. Unfolds(units, 0, g)
      BY DEF Unfolds
    <2>2. QED
      BY <2>1
  <1>2. ASSUME NEW m \in 1..n, m - 1 \in Good PROVE m \in Good
    <2>1. PICK g : Unfolds(units, m - 1, g)
      BY <1>2
    <2> DEFINE h == [k \in 0..m |-> IF k = m THEN ReadUnit(g[m - 1], units[m]) ELSE g[k]]
    <2>2. \A k \in 0..(m - 1) : g[k] = IF k = 0 THEN NothingRead ELSE ReadUnit(g[k - 1], units[k])
      BY <2>1 DEF Unfolds
    <2>3. \A k \in 0..m : h[k] = IF k = 0 THEN NothingRead ELSE ReadUnit(h[k - 1], units[k])
      <3> SUFFICES ASSUME NEW k \in 0..m
                   PROVE  h[k] = IF k = 0 THEN NothingRead ELSE ReadUnit(h[k - 1], units[k])
        OBVIOUS
      <3>1. CASE k = m
        <4>1. h[k] = ReadUnit(g[m - 1], units[m]) /\ h[m - 1] = g[m - 1] /\ m # 0
          BY <3>1
        <4>2. QED
          BY <3>1, <4>1
      <3>2. CASE k # m
        <4>1. h[k] = g[k] /\ k \in 0..(m - 1) /\ (k # 0 => h[k - 1] = g[k - 1])
          BY <3>2
        <4> HIDE DEF h
        <4>2. QED
          BY <2>2, <4>1
      <3>3. QED
        BY <3>1, <3>2
    <2>4. h = [k \in 0..m |-> h[k]]
      OBVIOUS
    <2> HIDE DEF h
    <2>5. Unfolds(units, m, h)
      BY <2>3, <2>4 DEF Unfolds
    <2>6. QED
      BY <2>5
  <1>3. n \in Good
    <2> HIDE DEF Good
    <2>1. 0..n \subseteq Good
      BY <1>1, <1>2, UpTo
    <2>2. QED
      BY <2>1
  <1>4. Unfolds(units, n, LineAt(units))
    BY <1>3 DEF LineAt
  <1>5. ReadLine(units) = LineAt(units)[n]
    BY DEF ReadLine, LineAt, Unfolds
  <1>6. QED
    BY <1>4, <1>5 DEF Unfolds

-----------------------------------------------------------------------------
(***************************************************************************)
(* The words of a command line, and those its first units make up.         *)
(***************************************************************************)
WordSeq == Seq(STRING)

(* Concatenation of sequences of words. *)
Then(a, b) == a \o b

LEMMA CatType == \A a, b \in WordSeq : Then(a, b) \in WordSeq
  BY ConcatProperties, Zenon DEF WordSeq, Then

LEMMA CatEmpty ==
    /\ <<>> \in WordSeq
    /\ \A a \in WordSeq : Then(a, <<>>) = a /\ Then(<<>>, a) = a
  <1>1. <<>> \in WordSeq
    BY EmptySeq DEF WordSeq
  <1>2. ASSUME NEW a \in WordSeq PROVE Then(a, <<>>) = a /\ Then(<<>>, a) = a
    BY ConcatEmptySeq, Zenon DEF WordSeq, Then
  <1>3. QED
    BY <1>1, <1>2, Zenon

LEMMA CatAssociates == \A a, b, c \in WordSeq : Then(Then(a, b), c) = Then(a, Then(b, c))
  <1> DEFINE S == STRING
  <1> SUFFICES ASSUME NEW a \in WordSeq, NEW b \in WordSeq, NEW c \in WordSeq
               PROVE  Then(Then(a, b), c) = Then(a, Then(b, c))
    OBVIOUS
  <1>1. a \in Seq(S) /\ b \in Seq(S) /\ c \in Seq(S)
    BY DEF WordSeq
  <1> HIDE DEF S
  <1>2. (a \o b) \o c = a \o (b \o c)
    BY <1>1, ConcatAssociative
  <1>3. QED
    BY <1>2, Zenon DEF Then

LEMMA CatCancels == \A a, b, c \in WordSeq : Then(a, b) = Then(a, c) => b = c
  BY ConcatSimplifications, Zenon DEF WordSeq, Then

LEMMA CatAddsNothing == \A a, b \in WordSeq : a = Then(a, b) => b = <<>>
  BY ConcatSimplifications, Zenon DEF WordSeq, Then

(* What is at the front of words put together, and what is left without it. *)
LEMMA FrontOf ==
    ASSUME NEW S, NEW p \in Seq(S), NEW w \in Seq(S), p # <<>>
    PROVE  /\ p \o w # <<>> /\ (p \o w)[1] = p[1]
           /\ Len(p) > 1 => (p \o w)[2] = p[2] /\ Len(p \o w) > 1
           /\ SubSeq(p \o w, Len(p) + 1, Len(p \o w)) = w
           /\ Len(p) = 1 => Tail(p \o w) = w
  <1> DEFINE q == p \o w
  <1>1. /\ q \in Seq(S) /\ Len(q) = Len(p) + Len(w) /\ Len(p) \in Nat \ {0} /\ Len(w) \in Nat
        /\ \A i \in 1..(Len(p) + Len(w)) : q[i] = IF i <= Len(p) THEN p[i] ELSE w[i - Len(p)]
    BY ConcatProperties, LenProperties, EmptySeq
  <1> HIDE DEF q
  <1>2. q # <<>> /\ q[1] = p[1] /\ (Len(p) > 1 => q[2] = p[2] /\ Len(q) > 1)
    BY <1>1
  <1>3. SubSeq(q, Len(p) + 1, Len(q)) = w
    <2> DEFINE t == SubSeq(q, Len(p) + 1, Len(q))
    <2>1. \A i \in (Len(p) + 1)..Len(q) : q[i] \in S
      BY <1>1
    <2>2. t \in Seq(S) /\ Len(t) = Len(w) /\ \A i \in 1..Len(w) : t[i] = q[Len(p) + i]
      BY <1>1, <2>1, SubSeqProperties
    <2> HIDE DEF t
    <2>3. \A i \in 1..Len(w) : t[i] = w[i]
      <3> SUFFICES ASSUME NEW i \in 1..Len(w) PROVE t[i] = w[i]
        OBVIOUS
      <3>1. Len(p) + i \in 1..(Len(p) + Len(w)) /\ ~(Len(p) + i <= Len(p)) /\ Len(p) + i - Len(p) = i
        BY <1>1
      <3>2. q[Len(p) + i] = w[Len(p) + i - Len(p)]
        BY <1>1, <3>1
      <3>3. t[i] = q[Len(p) + i]
        BY <2>2
      <3>4. QED
        BY <3>1, <3>2, <3>3
    <2>4. t = w
      BY <2>2, <2>3, SeqEqual
    <2>5. QED
      BY <2>4 DEF t
  <1>4. ASSUME Len(p) = 1 PROVE Tail(q) = w
    <2>1. Tail(q) = SubSeq(q, 2, Len(q))
      BY <1>1, <1>2, TailIsSubSeq
    <2>2. QED
      BY <1>3, <1>4, <2>1
  <1>5. QED
    BY <1>2, <1>3, <1>4 DEF q

LEMMA FrontWords ==
    \A p, w \in WordSeq : p # <<>> =>
        /\ Then(p, w) # <<>> /\ Then(p, w)[1] = p[1]
        /\ Len(p) > 1 => Then(p, w)[2] = p[2] /\ Len(Then(p, w)) > 1
        /\ SubSeq(Then(p, w), Len(p) + 1, Len(Then(p, w))) = w
        /\ Len(p) = 1 => Tail(Then(p, w)) = w
  BY FrontOf, Zenon DEF WordSeq, Then

Pieces(units) == [k \in DOMAIN units |-> units[k].words]
Joins(seqs, n, g) == g = [i \in 1..n |-> IF i = 1 THEN seqs[i] ELSE Then(g[i - 1], seqs[i])]
Joined(units) == CHOOSE g : Joins(Pieces(units), Len(units), g)
WordsAt(units) == [k \in 0..Len(units) |-> IF k = 0 THEN <<>> ELSE Joined(units)[k]]

Spoken(units) == /\ units \in Seq(Range(units))
                 /\ \A k \in 1..Len(units) : units[k].words \in WordSeq

(* Joining is a recursion that has a solution. *)
LEMMA JoinExists ==
    ASSUME NEW seqs, NEW n \in Nat
    PROVE  \E g : Joins(seqs, n, g)
  <1> DEFINE Good == {m \in 0..n : \E g : Joins(seqs, m, g)}
  <1>1. 0 \in Good
    <2> DEFINE g == [i \in 1..0 |-> <<>>]
    <2>1. Joins(seqs, 0, g)
      BY DEF Joins
    <2>2. QED
      BY <2>1
  <1>2. ASSUME NEW m \in 1..n, m - 1 \in Good PROVE m \in Good
    <2>1. PICK g : Joins(seqs, m - 1, g)
      BY <1>2
    <2> DEFINE h == [i \in 1..m |-> IF i = m THEN IF m = 1 THEN seqs[m] ELSE Then(g[m - 1], seqs[m]) ELSE g[i]]
    <2>2. \A i \in 1..(m - 1) : g[i] = IF i = 1 THEN seqs[i] ELSE Then(g[i - 1], seqs[i])
      BY <2>1 DEF Joins
    <2>3. \A i \in 1..m : h[i] = IF i = 1 THEN seqs[i] ELSE Then(h[i - 1], seqs[i])
      <3> SUFFICES ASSUME NEW i \in 1..m
                   PROVE  h[i] = IF i = 1 THEN seqs[i] ELSE Then(h[i - 1], seqs[i])
        OBVIOUS
      <3>1. CASE i = m
        <4>1. h[i] = (IF m = 1 THEN seqs[m] ELSE Then(g[m - 1], seqs[m])) /\ (m # 1 => h[m - 1] = g[m - 1])
          BY <3>1
        <4> HIDE DEF h
        <4>2. QED
          BY <3>1, <4>1
      <3>2. CASE i # m
        <4>1. h[i] = g[i] /\ i \in 1..(m - 1) /\ (i # 1 => h[i - 1] = g[i - 1])
          BY <3>2
        <4> HIDE DEF h
        <4>2. QED
          BY <2>2, <4>1
      <3>3. QED
        BY <3>1, <3>2
    <2>4. h = [i \in 1..m |-> h[i]]
      OBVIOUS
    <2> HIDE DEF h
    <2>5. Joins(seqs, m, h)
      BY <2>3, <2>4 DEF Joins
    <2>6. QED
      BY <2>5
  <1>3. QED
    <2> HIDE DEF Good
    <2>1. 0..n \subseteq Good
      BY <1>1, <1>2, UpTo
    <2>2. n \in Good
      BY <2>1
    <2>3. QED
      BY <2>2 DEF Good

(* Each unit adds its words to those before it. *)
LEMMA WordsAdd ==
    ASSUME NEW units, Spoken(units)
    PROVE  /\ Words(units) = WordsAt(units)[Len(units)]
           /\ WordsAt(units)[0] = <<>>
           /\ \A k \in 1..Len(units) : WordsAt(units)[k] = Then(WordsAt(units)[k - 1], units[k].words)
           /\ \A k \in 0..Len(units) : WordsAt(units)[k] \in WordSeq
  <1> DEFINE n == Len(units)
             W == WordsAt(units)
             seqs == Pieces(units)
             g == Joined(units)
  <1>1. n \in Nat /\ DOMAIN units = 1..n
    BY LenProperties DEF Spoken
  <1>2. DOMAIN seqs = 1..n /\ Len(seqs) = n /\ \A k \in 1..n : seqs[k] = units[k].words
    BY <1>1 DEF Pieces
  <1> HIDE DEF seqs
  <1>3. Joins(seqs, n, g)
    BY <1>1, JoinExists DEF Joined, seqs
  <1>4. \A i \in 1..n : g[i] = IF i = 1 THEN seqs[i] ELSE Then(g[i - 1], seqs[i])
    BY <1>3 DEF Joins
  <1>5. W[0] = <<>> /\ \A k \in 1..n : W[k] = g[k]
    BY <1>1 DEF WordsAt
  <1>6. Words(units) = W[n]
    <2>1. CASE n = 0
      <3>1. seqs = <<>>
        BY <1>1, <2>1 DEF seqs, Pieces
      <3>2. Words(units) = seqs
        BY <1>2, <2>1 DEF Words, FlattenSeq, seqs, Pieces
      <3>3. QED
        BY <1>5, <2>1, <3>1, <3>2
    <2>2. CASE n # 0
      <3>1. Words(units) = g[n]
        BY <1>2, <2>2 DEF Words, FlattenSeq, seqs, Pieces, Joined, Joins, Then
      <3>2. QED
        BY <1>1, <1>5, <2>2, <3>1
    <2>3. QED
      BY <2>1, <2>2
  <1> HIDE DEF W, g
  <1>7. ASSUME NEW k \in 1..n PROVE W[k] = Then(W[k - 1], units[k].words)
    <2>1. units[k].words \in WordSeq
      BY DEF Spoken
    <2>2. CASE k = 1
      BY <1>2, <1>4, <1>5, <2>1, <2>2, CatEmpty
    <2>3. CASE k # 1
      <3>1. k - 1 \in 1..n
        BY <1>1, <2>3
      <3>2. QED
        BY <1>2, <1>4, <1>5, <2>3, <3>1
    <2>4. QED
      BY <2>2, <2>3
  <1>8. 0..n \subseteq {k \in 0..n : W[k] \in WordSeq}
    <2> DEFINE Good == {k \in 0..n : W[k] \in WordSeq}
    <2>1. 0 \in Good
      BY <1>1, <1>5, CatEmpty
    <2>2. ASSUME NEW k \in 1..n, k - 1 \in Good PROVE k \in Good
      <3>1. units[k].words \in WordSeq /\ W[k - 1] \in WordSeq
        BY <2>2 DEF Spoken
      <3>2. QED
        BY <1>1, <1>7, <3>1, CatType
    <2> HIDE DEF Good
    <2>3. 0..n \subseteq Good
      BY <1>1, <2>1, <2>2, UpTo
    <2>4. QED
      BY <2>3 DEF Good
  <1>9. QED
    BY <1>5, <1>6, <1>7, <1>8 DEF W

(* What later units add comes after what the earlier ones said. *)
LEMMA WordsFollow ==
    ASSUME NEW units, Spoken(units), NEW k \in 0..Len(units)
    PROVE  \A j \in k..Len(units) : \E t \in WordSeq : WordsAt(units)[j] = Then(WordsAt(units)[k], t)
  <1> DEFINE n == Len(units)
             W == WordsAt(units)
             Good == {j \in 0..n : j >= k => \E t \in WordSeq : W[j] = Then(W[k], t)}
  <1> HIDE DEF W
  <1>1. n \in Nat
    BY LenProperties DEF Spoken
  <1>2. W[k] \in WordSeq /\ W[k] = Then(W[k], <<>>) /\ <<>> \in WordSeq
    <2>1. W[k] \in WordSeq
      BY WordsAdd DEF W
    <2>2. QED
      BY <2>1, CatEmpty
  <1>3. 0 \in Good
    BY <1>1, <1>2
  <1>4. ASSUME NEW j \in 1..n, j - 1 \in Good PROVE j \in Good
    <2>1. CASE j <= k
      BY <1>2, <2>1
    <2>2. CASE j > k
      <3>1. PICK t \in WordSeq : W[j - 1] = Then(W[k], t)
        BY <1>4, <2>2
      <3>2. units[j].words \in WordSeq /\ W[j] = Then(W[j - 1], units[j].words)
        BY WordsAdd DEF W, Spoken
      <3>3. W[j] = Then(W[k], Then(t, units[j].words)) /\ Then(t, units[j].words) \in WordSeq
        <4>1. Then(Then(W[k], t), units[j].words) = Then(W[k], Then(t, units[j].words))
          BY <1>2, <3>2, CatAssociates, Zenon
        <4>2. Then(t, units[j].words) \in WordSeq
          BY <3>2, CatType, Zenon
        <4>3. QED
          BY <3>1, <3>2, <4>1, <4>2
      <3>4. QED
        BY <1>1, <3>3
    <2>3. QED
      BY <1>1, <2>1, <2>2
  <1>5. 0..n \subseteq Good
    <2> HIDE DEF Good
    <2>1. QED
      BY <1>1, <1>3, <1>4, UpTo
  <1>6. QED
    BY <1>1, <1>5 DEF W

(* So the words left when k units are read start with those of the next. *)
LEMMA NextWords ==
    ASSUME NEW units, Spoken(units), NEW k \in 1..Len(units), NEW rest \in WordSeq,
           Words(units) = Then(WordsAt(units)[k - 1], rest)
    PROVE  \E t \in WordSeq : rest = Then(units[k].words, t) /\ Words(units) = Then(WordsAt(units)[k], t)
  <1> DEFINE n == Len(units)
             W == WordsAt(units)
             w == units[k].words
  <1>1. n \in Nat
    BY LenProperties DEF Spoken
  <1>2. /\ Words(units) = W[n] /\ W[k] = Then(W[k - 1], w)
        /\ W[k] \in WordSeq /\ W[k - 1] \in WordSeq /\ w \in WordSeq
    BY <1>1, WordsAdd DEF Spoken
  <1>3. PICK t \in WordSeq : W[n] = Then(W[k], t)
    BY <1>1, WordsFollow
  <1> HIDE DEF W, w
  <1>4. W[n] = Then(W[k - 1], Then(w, t)) /\ Then(w, t) \in WordSeq
    <2>1. Then(Then(W[k - 1], w), t) = Then(W[k - 1], Then(w, t))
      BY <1>2, CatAssociates, Zenon
    <2>2. Then(w, t) \in WordSeq
      BY <1>2, CatType, Zenon
    <2>3. QED
      BY <1>2, <1>3, <2>1, <2>2
  <1>5. rest = Then(w, t)
    BY <1>2, <1>4, CatCancels DEF W
  <1>6. QED
    BY <1>2, <1>3, <1>5 DEF W, w

(* And when all are read, none is left. *)
LEMMA NoMoreWords ==
    ASSUME NEW units, Spoken(units), NEW rest \in WordSeq,
           Words(units) = Then(WordsAt(units)[Len(units)], rest)
    PROVE  rest = <<>>
  <1>1. Words(units) = WordsAt(units)[Len(units)] /\ Words(units) \in WordSeq
    BY WordsAdd, LenProperties DEF Spoken
  <1>2. QED
    BY <1>1, CatAddsNothing

-----------------------------------------------------------------------------
(***************************************************************************)
(* Types.  What a flag may hold and what a layer may set depends on how    *)
(* far the dispatch has come.                                              *)
(***************************************************************************)
Shape ==
    /\ d = [path |-> d.path, rest |-> d.rest, last |-> d.last, vals |-> d.vals, explicit |-> d.explicit,
            fromEnv |-> d.fromEnv, fromConfig |-> d.fromConfig, config |-> d.config, version |-> d.version]
    /\ d.rest \in WordSeq
    /\ d.vals = [f \in Flags |-> d.vals[f]]

TInv ==
    /\ TypeOK /\ Shape
    /\ IsWorld(world) /\ world.now \in Versions /\ \A e \in world.dir : WellNamed(e)
    /\ pc \in {"dotenv", "parse", "chosen", "env"} => d.fromEnv = {} /\ d.fromConfig = {}
    /\ pc \in {"config", "apply"} => d.fromConfig = {}
    /\ pc \in {"create", "half"} => validName(d.rest[1])

(* What is visible on a path is declared, and stays visible below it. *)
LEMMA VisibleIsDeclared == \A p \in Tree : visible(p) \subseteq Flags
  <1> SUFFICES ASSUME NEW p \in Tree, NEW f \in visible(p) PROVE f \in Flags
    OBVIOUS
  <1>1. PICK k \in 0..Len(p) : f \in Declares[SubSeq(p, 1, k)]
    BY DEF visible
  <1>2. SubSeq(p, 1, k) \in Tree
    BY TreeAssumption
  <1>3. QED
    BY <1>1, <1>2, TreeAssumption

LEMMA AppendIs ==
    ASSUME NEW S, NEW p \in Seq(S), NEW w \in S
    PROVE  /\ Append(p, w) \in Seq(S) /\ Len(Append(p, w)) = Len(p) + 1
           /\ \A i \in 1..Len(p) : Append(p, w)[i] = p[i]
  OBVIOUS

LEMMA VisibleBelow == \A p \in Tree, w \in STRING : visible(p) \subseteq visible(Append(p, w))
  <1> SUFFICES ASSUME NEW p \in Tree, NEW w \in STRING, NEW f \in visible(p) PROVE f \in visible(Append(p, w))
    OBVIOUS
  <1> DEFINE S == STRING
             q == Append(p, w)
  <1>1. PICK k \in 0..Len(p) : f \in Declares[SubSeq(p, 1, k)]
    BY DEF visible
  <1>2. p \in Seq(S) /\ w \in S
    BY TreeAssumption
  <1> HIDE DEF S
  <1>3. /\ q \in Seq(S) /\ Len(q) = Len(p) + 1 /\ Len(p) \in Nat
        /\ \A i \in 1..Len(p) : q[i] = p[i]
    <2>1. /\ q \in Seq(S) /\ Len(q) = Len(p) + 1
          /\ \A i \in 1..Len(p) : q[i] = p[i]
      BY <1>2, AppendIs, Zenon
    <2>2. Len(p) \in Nat
      BY <1>2, LenProperties, Zenon
    <2>3. QED
      BY <2>1, <2>2
  <1> HIDE DEF q
  <1>4. SubSeq(q, 1, k) = SubSeq(p, 1, k)
    <2>1. \A i \in 1..k : p[i] \in S /\ q[i] \in S /\ q[i] = p[i]
      BY <1>2, <1>3, ElementOfSeq
    <2>2. /\ SubSeq(p, 1, k) \in Seq(S) /\ SubSeq(q, 1, k) \in Seq(S)
          /\ Len(SubSeq(p, 1, k)) = k /\ Len(SubSeq(q, 1, k)) = k
          /\ \A i \in 1..k : SubSeq(p, 1, k)[i] = p[i] /\ SubSeq(q, 1, k)[i] = q[i]
      BY <1>3, <2>1, SubSeqProperties
    <2>3. QED
      BY <2>1, <2>2, SeqEqual
  <1>5. k \in 0..Len(q)
    BY <1>3
  <1>6. QED
    BY <1>1, <1>4, <1>5 DEF visible, q

(* The flags of the migrate command. *)
LEMMA MigrateFlags ==
    /\ <<"migrate", "up">> \in Tree /\ {"one", "to"} \subseteq visible(<<"migrate", "up">>)
    /\ <<"migrate", "down">> \in Tree /\ {"all", "to"} \subseteq visible(<<"migrate", "down">>)
    /\ {"one", "all", "to"} \subseteq Flags
    /\ \A v : Accepts("to", v) => v \in DOMAIN IntOf /\ IntOf[v] \in Int
  <1> DEFINE up == <<"migrate", "up">>
             down == <<"migrate", "down">>
             create == <<"migrate", "create">>
  <1>1. /\ up \in Tree /\ Declares[up] = {"one", "to", "allow-out-of-order"}
        /\ down \in Tree /\ Declares[down] = {"all", "to"}
    <2>1. up \in MigrateRuns /\ down \in MigrateRuns
      BY DEF MigrateRuns
    <2>2. up # create /\ down # create /\ up # down
      OBVIOUS
    <2> HIDE DEF up, down, create
    <2>3. /\ up \in DOMAIN MigrateTree /\ MigrateTree[up] = {"one", "to", "allow-out-of-order"}
          /\ down \in DOMAIN MigrateTree /\ MigrateTree[down] = {"all", "to"}
      BY <2>1, <2>2 DEF MigrateTree, up, down, create
    <2>4. Migrating = DOMAIN MigrateTree /\ \A p \in Migrating : Declares[p] = MigrateTree[p] /\ p \in Tree
      BY MigrateAssumption, Zenon DEF Migrating
    <2>5. QED
      BY <2>3, <2>4, Zenon
  <1> HIDE DEF up, down
  <1>2. \A p \in Tree : Declares[p] \subseteq visible(p) /\ Declares[p] \subseteq Flags
    <2> SUFFICES ASSUME NEW p \in Tree PROVE Declares[p] \subseteq visible(p) /\ Declares[p] \subseteq Flags
      OBVIOUS
    <2>1. p \in Seq(STRING)
      BY TreeAssumption
    <2>2. SubSeq(p, 1, Len(p)) = p
      BY <2>1, SubSeqFull, Zenon
    <2>3. Len(p) \in Nat
      BY <2>1, LenProperties, Zenon
    <2>4. Len(p) \in 0..Len(p)
      BY <2>3
    <2>5. Declares[p] \subseteq visible(p)
      BY <2>2, <2>4 DEF visible
    <2>6. QED
      BY <2>5, TreeAssumption
  <1>3. Declares[up] \subseteq visible(up) /\ Declares[down] \subseteq visible(down)
    BY <1>1, <1>2
  <1>4. {"one", "all", "to"} \subseteq Flags
    BY <1>1, <1>2
  <1>5. \A v : Accepts("to", v) => v \in DOMAIN IntOf /\ IntOf[v] \in Int
    BY MigrateAssumption DEF Accepts
  <1>6. QED
    BY <1>1, <1>3, <1>4, <1>5 DEF up, down

(* Units that say what they are have words. *)
LEMMA WorldSpeaks == \A w : IsWorld(w) => Spoken(w.units) /\ Words(w.units) \in WordSeq
  <1> SUFFICES ASSUME NEW w, IsWorld(w) PROVE Spoken(w.units) /\ Words(w.units) \in WordSeq
    OBVIOUS
  <1>1. w.units \in Seq(Range(w.units)) /\ DOMAIN w.units = 1..Len(w.units) /\ Len(w.units) \in Nat
    BY LenProperties, Zenon DEF IsWorld
  <1>2. \A k \in 1..Len(w.units) : w.units[k].words \in WordSeq
    BY <1>1, Zenon DEF IsWorld, SaysWhatItIs, WordSeq
  <1>3. Spoken(w.units)
    BY <1>1, <1>2 DEF Spoken
  <1>4. QED
    BY <1>1, <1>3, WordsAdd

(* The part of the types that speaks of the dispatch. *)
Dispatched ==
    /\ Shape
    /\ d.path \in Tree /\ d.explicit \subseteq visible(d.path)
    /\ d.fromEnv \subseteq visible(d.path) \ d.explicit
    /\ d.fromConfig \subseteq visible(d.path) \ (d.explicit \cup d.fromEnv)
    /\ \A f \in Flags : Accepts(f, d.vals[f])

LEMMA TailWords == \A s \in WordSeq, n \in Nat : SubSeq(s, n + 1, Len(s)) \in WordSeq
  <1> DEFINE S == STRING
  <1> SUFFICES ASSUME NEW s \in Seq(S), NEW n \in Nat PROVE SubSeq(s, n + 1, Len(s)) \in Seq(S)
    BY DEF WordSeq
  <1> HIDE DEF S
  <1>1. Len(s) \in Nat /\ \A i \in (n + 1)..Len(s) : s[i] \in S
    BY LenProperties, ElementOfSeq
  <1>2. QED
    BY <1>1, SubSeqProperties

LEMMA TailOfWords == \A s \in WordSeq : s # <<>> => Tail(s) \in WordSeq /\ s[1] \in STRING /\ Len(s) \in Nat \ {0}
  <1> DEFINE S == STRING
  <1> SUFFICES ASSUME NEW s \in Seq(S), s # <<>> PROVE Tail(s) \in Seq(S) /\ s[1] \in S /\ Len(s) \in Nat \ {0}
    BY DEF WordSeq
  <1> HIDE DEF S
  <1>1. QED
    BY HeadTailProperties, LenProperties, ElementOfSeq, EmptySeq

LEMMA ParseSetType ==
    ASSUME TInv, pc = "parse", NEW f \in visible(d.path), NEW v, NEW n \in Nat, ParseSet(f, v, n)
    PROVE  Dispatched' /\ pc' \in {"parse", "done"} /\ exit' \in -1..2
           /\ (pc' = "parse" => d'.fromEnv = {} /\ d'.fromConfig = {})
  <1>1. Shape /\ exit \in -1..2 /\ d.fromEnv = {} /\ d.fromConfig = {} /\ f \in Flags /\ Dispatched
    BY VisibleIsDeclared DEF TInv, TypeOK, CliTypeOK, Dispatched
  <1>2. CASE ~Accepts(f, v)
    <2>1. UNCHANGED d /\ pc' = "done" /\ exit' = 2
      BY <1>2 DEF ParseSet, Exit
    <2>2. QED
      BY <1>1, <2>1 DEF Dispatched, Shape
  <1>3. CASE Accepts(f, v)
    <2>1. /\ d' = [d EXCEPT !.vals[f] = v, !.explicit = @ \cup {f}, !.last = d.rest[n],
                            !.rest = SubSeq(@, n + 1, Len(@))]
          /\ pc' = "parse" /\ exit' = exit
      BY <1>3 DEF ParseSet, Go
    <2>2. SubSeq(d.rest, n + 1, Len(d.rest)) \in WordSeq
      BY <1>1, TailWords DEF Shape
    <2>3. /\ d'.path = d.path /\ d'.rest = SubSeq(d.rest, n + 1, Len(d.rest)) /\ d'.explicit = d.explicit \cup {f}
          /\ d'.fromEnv = {} /\ d'.fromConfig = {} /\ d'.vals = [d.vals EXCEPT ![f] = v]
          /\ d' = [path |-> d'.path, rest |-> d'.rest, last |-> d'.last, vals |-> d'.vals, explicit |-> d'.explicit,
                   fromEnv |-> d'.fromEnv, fromConfig |-> d'.fromConfig, config |-> d'.config, version |-> d'.version]
      BY <1>1, <2>1 DEF Shape
    <2>4. d'.vals = [g \in Flags |-> IF g = f THEN v ELSE d.vals[g]]
      BY <1>1, <2>3 DEF Shape
    <2>5. QED
      BY <1>1, <1>3, <2>1, <2>2, <2>3, <2>4, ZenonT(30) DEF Dispatched, Shape
  <1>4. QED
    BY <1>2, <1>3

(* What a step of the dispatch does to the types. *)
Typed(p, stage) ==
    /\ Dispatched' /\ pc' \in {p, "done"} /\ exit' \in -1..2
    /\ pc' \in {"dotenv", "parse", "chosen", "env"} => d'.fromEnv = {} /\ d'.fromConfig = {}
    /\ pc' \in {"config", "apply"} => d'.fromConfig = {}
    /\ pc' = "done" \/ stage

LEMMA StaysTyped ==
    ASSUME TInv, UNCHANGED d, exit' \in -1..2,
           pc' \in {"config", "apply"} => d.fromConfig = {},
           pc' \in {"dotenv", "parse", "chosen", "env"} => d.fromEnv = {} /\ d.fromConfig = {}
    PROVE  Typed(pc', TRUE)
  BY DEF TInv, TypeOK, CliTypeOK, Dispatched, Shape, Typed

LEMMA ParseFlagType ==
    ASSUME TInv, ParseFlag
    PROVE  Typed("parse", TRUE)
  <1> DEFINE w == Syntax[d.rest[1]]
             f == w.flag
  <1>1. /\ Shape /\ exit \in -1..2 /\ d.fromEnv = {} /\ d.fromConfig = {} /\ Dispatched /\ pc = "parse"
        /\ d.rest # <<>> /\ d.rest \in WordSeq
    BY DEF TInv, TypeOK, CliTypeOK, Dispatched, ParseFlag, AtFlag, Shape
  <1>2. ASSUME NEW v, NEW n \in Nat, f \in visible(d.path), ParseSet(f, v, n) PROVE Typed("parse", TRUE)
    <2> HIDE DEF f
    <2>1. QED
      BY <1>1, <1>2, ParseSetType DEF Typed
  <1>3. ASSUME UNCHANGED d, NEW code \in 0..2, NEW words, Exit(code, words) PROVE Typed("parse", TRUE)
    BY <1>1, <1>3 DEF Exit, Typed, Dispatched, Shape
  <1>4. CASE f \in visible(d.path) /\ Kind[f] = "bool" /\ ParseSet(f, IF w.value = None THEN "true" ELSE w.value, 1)
    BY <1>2, <1>4
  <1>5. CASE f \in visible(d.path) /\ Kind[f] # "bool" /\ w.value # None /\ ParseSet(f, w.value, 1)
    BY <1>2, <1>5
  <1>6. CASE /\ f \in visible(d.path) /\ Kind[f] # "bool" /\ w.value = None
             /\ IF Len(d.rest) > 1 THEN ParseSet(f, d.rest[2], 2) ELSE UNCHANGED d /\ Exit(2, {})
    <2>1. CASE ParseSet(f, d.rest[2], 2)
      BY <1>2, <1>6, <2>1
    <2>2. CASE UNCHANGED d /\ Exit(2, {})
      <3>1. 2 \in 0..2
        OBVIOUS
      <3>2. QED
        BY <1>3, <2>2, <3>1, Zenon
    <2>3. QED
      BY <1>6, <2>1, <2>2
  <1>7. ASSUME NEW shown, d' = [d EXCEPT !.version = shown, !.last = d.rest[1], !.rest = Tail(@)], Go("parse")
        PROVE  Typed("parse", TRUE)
    <2>1. Tail(d.rest) \in WordSeq
      BY <1>1, TailOfWords
    <2>2. /\ d'.path = d.path /\ d'.rest = Tail(d.rest) /\ d'.explicit = d.explicit
          /\ d'.fromEnv = d.fromEnv /\ d'.fromConfig = d.fromConfig /\ d'.vals = d.vals
          /\ d' = [path |-> d'.path, rest |-> d'.rest, last |-> d'.last, vals |-> d'.vals, explicit |-> d'.explicit,
                   fromEnv |-> d'.fromEnv, fromConfig |-> d'.fromConfig, config |-> d'.config, version |-> d'.version]
      BY <1>1, <1>7 DEF Shape
    <2>3. pc' = "parse" /\ exit' = exit
      BY <1>7 DEF Go
    <2>4. Dispatched'
      BY <1>1, <2>1, <2>2 DEF Dispatched, Shape
    <2>5. QED
      BY <1>1, <2>2, <2>3, <2>4 DEF Typed
  <1>8. ASSUME NEW words, Exit(2, words) \/ Exit(IF f = "help" THEN 0 ELSE 2, words), UNCHANGED d
        PROVE  Typed("parse", TRUE)
    <2>1. 2 \in 0..2 /\ (IF f = "help" THEN 0 ELSE 2) \in 0..2
      OBVIOUS
    <2>2. QED
      BY <1>3, <1>8, <2>1, Zenon
  <1>9. QED
    BY <1>4, <1>5, <1>6, <1>7, <1>8, Zenon DEF ParseFlag

LEMMA DispatchType ==
    ASSUME TInv, Dispatch
    PROVE  Typed("parse", TRUE) \/ Typed("chosen", TRUE)
  <1> DEFINE ends == d.rest # <<>> /\ d.rest[1] = "--"
             rest == IF ends THEN Tail(d.rest) ELSE d.rest
             word == rest[1]
             stays == rest = <<>> \/ Terminated(IF ends THEN "--" ELSE d.last)
  <1>1. /\ Shape /\ exit \in -1..2 /\ d.fromEnv = {} /\ d.fromConfig = {} /\ Dispatched /\ pc = "parse"
        /\ d.rest \in WordSeq
    BY DEF TInv, TypeOK, CliTypeOK, Dispatched, Dispatch, Shape
  <1>2. rest \in WordSeq
    BY <1>1, TailOfWords
  <1>3. ASSUME UNCHANGED d, NEW code \in 0..2, NEW words, Exit(code, words) PROVE Typed("parse", TRUE)
    BY <1>1, <1>3 DEF Exit, Typed, Dispatched, Shape
  <1>4. ASSUME d' = [d EXCEPT !.rest = rest], Go("chosen") PROVE Typed("chosen", TRUE)
    <2> HIDE DEF rest
    <2>1. /\ d'.path = d.path /\ d'.rest = rest /\ d'.explicit = d.explicit
          /\ d'.fromEnv = d.fromEnv /\ d'.fromConfig = d.fromConfig /\ d'.vals = d.vals
          /\ d' = [path |-> d'.path, rest |-> d'.rest, last |-> d'.last, vals |-> d'.vals, explicit |-> d'.explicit,
                   fromEnv |-> d'.fromEnv, fromConfig |-> d'.fromConfig, config |-> d'.config, version |-> d'.version]
      BY <1>1, <1>4 DEF Shape
    <2>2. pc' = "chosen" /\ exit' = exit
      BY <1>4 DEF Go
    <2>3. Dispatched'
      BY <1>1, <1>2, <2>1 DEF Dispatched, Shape
    <2>4. QED
      BY <1>1, <2>1, <2>2, <2>3 DEF Typed
  <1>5. ASSUME rest # <<>>, findCommand(d.path, word), Go("parse"),
               d' = [d EXCEPT !.path = Append(@, word), !.rest = Tail(rest), !.last = None]
        PROVE  Typed("parse", TRUE)
    <2> HIDE DEF rest, word
    <2>1. Tail(rest) \in WordSeq /\ word \in STRING
      BY <1>2, <1>5, TailOfWords DEF word
    <2>2. /\ d'.path = Append(d.path, word) /\ d'.rest = Tail(rest) /\ d'.explicit = d.explicit
          /\ d'.fromEnv = d.fromEnv /\ d'.fromConfig = d.fromConfig /\ d'.vals = d.vals
          /\ d' = [path |-> d'.path, rest |-> d'.rest, last |-> d'.last, vals |-> d'.vals, explicit |-> d'.explicit,
                   fromEnv |-> d'.fromEnv, fromConfig |-> d'.fromConfig, config |-> d'.config, version |-> d'.version]
      BY <1>1, <1>5 DEF Shape
    <2>3. pc' = "parse" /\ exit' = exit
      BY <1>5 DEF Go
    <2>4. d'.path \in Tree /\ visible(d.path) \subseteq visible(d'.path)
      <3>1. Append(d.path, word) \in Tree
        BY <1>5 DEF findCommand
      <3>2. visible(d.path) \subseteq visible(Append(d.path, word))
        BY <1>1, <2>1, VisibleBelow DEF Dispatched
      <3>3. QED
        BY <2>2, <3>1, <3>2
    <2>5. Dispatched'
      BY <1>1, <2>1, <2>2, <2>4 DEF Dispatched, Shape
    <2>6. QED
      BY <1>1, <2>2, <2>3, <2>5 DEF Typed
  <1>6. \/ d' = [d EXCEPT !.rest = rest] /\ Go("chosen")
        \/ /\ rest # <<>> /\ findCommand(d.path, word) /\ Go("parse")
           /\ d' = [d EXCEPT !.path = Append(@, word), !.rest = Tail(rest), !.last = None]
        \/ \E code \in 0..2 : Exit(code, {}) /\ UNCHANGED d
    <2> HIDE DEF rest, ends, word, stays
    <2>1. ~stays => rest # <<>>
      BY DEF stays
    <2>2. \/ d.version /\ Exit(0, {}) /\ UNCHANGED d
          \/ ~d.version /\ stays /\ d' = [d EXCEPT !.rest = rest] /\ Go("chosen")
          \/ /\ ~d.version /\ ~stays /\ findCommand(d.path, word)
             /\ d' = [d EXCEPT !.path = Append(@, word), !.rest = Tail(rest), !.last = None] /\ Go("parse")
          \/ Exit(IF Tail(rest) \in Tree THEN 0 ELSE 2, {}) /\ UNCHANGED d
          \/ Exit(0, {}) /\ UNCHANGED d
          \/ d' = [d EXCEPT !.rest = rest] /\ Go("chosen")
      BY Zenon DEF Dispatch, rest, ends, word, stays
    <2>3. 0 \in 0..2 /\ 2 \in 0..2 /\ (IF Tail(rest) \in Tree THEN 0 ELSE 2) \in 0..2
      OBVIOUS
    <2>4. QED
      BY <2>1, <2>2, <2>3, Zenon
  <1> HIDE DEF rest, word
  <1>7. QED
    BY <1>3, <1>4, <1>5, <1>6

(* What the environment gives a flag is one of its values; what it says of a refusal is no secret. *)
LEMMA EnvGives ==
    ASSUME NEW f
    PROVE  /\ setFromEnv(f).set => setFromEnv(f).ok /\ Accepts(f, setFromEnv(f).value)
           /\ \A w \in setFromEnv(f).said : w[1] = f /\ f \notin SecretFlags
  <1> DEFINE plain == envName(f) \in DOMAIN env
             indirect == envFile(f) \in DOMAIN env
             file == world.files[env[envFile(f)]].text
             value == env[envName(f)]
             give(v) == IF Accepts(f, v) THEN [ok |-> TRUE, set |-> TRUE, value |-> v, said |-> {}]
                        ELSE [ok |-> FALSE, set |-> FALSE, value |-> None, said |-> setValueError(f, v)]
             fails == [ok |-> FALSE, set |-> FALSE, value |-> None, said |-> {}]
             Fine(r) == (r.set => r.ok /\ Accepts(f, r.value)) /\ \A w \in r.said : w[1] = f /\ f \notin SecretFlags
  <1>1. \A v : \A w \in setValueError(f, v) : w[1] = f /\ f \notin SecretFlags
    BY DEF setValueError
  <1>2. \A v : Fine(give(v))
    BY <1>1
  <1>3. Fine(fails) /\ Fine([ok |-> TRUE, set |-> FALSE, value |-> None, said |-> {}])
    OBVIOUS
  <1>4. setFromEnv(f) \in {fails, [ok |-> TRUE, set |-> FALSE, value |-> None, said |-> {}], give(file), give(value)}
    BY DEF setFromEnv
  <1>5. Fine(setFromEnv(f))
    <2> HIDE DEF Fine, fails, give
    <2>1. QED
      BY <1>2, <1>3, <1>4
  <1>6. QED
    BY <1>5

LEMMA ResolveEnvType ==
    ASSUME TInv, ResolveEnv
    PROVE  Typed("config", TRUE)
  <1> DEFINE left == visible(d.path) \ d.explicit
             got == [f \in left |-> setFromEnv(f)]
             set == {f \in left : got[f].set}
             new == [f \in set |-> got[f].value]
  <1>1. /\ Shape /\ exit \in -1..2 /\ d.fromEnv = {} /\ d.fromConfig = {} /\ Dispatched /\ pc = "env"
        /\ visible(d.path) \subseteq Flags
    BY VisibleIsDeclared DEF TInv, TypeOK, CliTypeOK, Dispatched, ResolveEnv, Shape
  <1>2. CASE \E f \in left : ~got[f].ok /\ Exit(2, got[f].said) /\ UNCHANGED d
    BY <1>1, <1>2 DEF Exit, Typed, Dispatched, Shape
  <1>3. CASE d' = [d EXCEPT !.vals = Over(new, @), !.fromEnv = set] /\ Go("config")
    <2>1. set \subseteq left /\ DOMAIN new = set /\ \A f \in set : Accepts(f, new[f])
      BY EnvGives
    <2> HIDE DEF set, new, left
    <2>2. /\ d'.path = d.path /\ d'.rest = d.rest /\ d'.explicit = d.explicit
          /\ d'.fromEnv = set /\ d'.fromConfig = {} /\ d'.vals = Over(new, d.vals)
          /\ d' = [path |-> d'.path, rest |-> d'.rest, last |-> d'.last, vals |-> d'.vals, explicit |-> d'.explicit,
                   fromEnv |-> d'.fromEnv, fromConfig |-> d'.fromConfig, config |-> d'.config, version |-> d'.version]
      BY <1>1, <1>3 DEF Shape
    <2>3. pc' = "config" /\ exit' = exit
      BY <1>3 DEF Go
    <2>4. set \subseteq Flags /\ left = visible(d.path) \ d.explicit
      BY <1>1, <2>1 DEF left
    <2>5. d'.vals = [f \in Flags |-> IF f \in set THEN new[f] ELSE d.vals[f]]
      <3>1. d.vals = [f \in Flags |-> d.vals[f]] /\ DOMAIN d.vals = Flags
        BY <1>1 DEF Shape
      <3>2. DOMAIN new \cup DOMAIN d.vals = Flags
        BY <2>1, <2>4, <3>1
      <3>3. QED
        BY <2>1, <2>2, <3>2 DEF Over
    <2>6. Dispatched'
      BY <1>1, <2>1, <2>2, <2>4, <2>5 DEF Dispatched, Shape
    <2>7. QED
      BY <1>1, <2>2, <2>3, <2>6 DEF Typed
  <1>4. QED
    BY <1>2, <1>3 DEF ResolveEnv

LEMMA LoadConfigType ==
    ASSUME TInv, LoadConfig
    PROVE  Typed("apply", TRUE)
  <1>1. /\ Shape /\ exit \in -1..2 /\ d.fromConfig = {} /\ Dispatched /\ pc = "config"
    BY Zenon DEF TInv, TypeOK, CliTypeOK, Dispatched, LoadConfig, Shape
  <1>2. \/ \E words : Exit(2, words) /\ UNCHANGED d
        \/ \E v : d' = [d EXCEPT !.config = v] /\ Go("apply")
    BY Zenon DEF LoadConfig
  <1>3. ASSUME NEW words, Exit(2, words), UNCHANGED d PROVE Typed("apply", TRUE)
    BY <1>1, <1>3 DEF Exit, Typed, Dispatched, Shape
  <1>4. ASSUME NEW v, d' = [d EXCEPT !.config = v], Go("apply") PROVE Typed("apply", TRUE)
    <2>1. /\ d'.path = d.path /\ d'.rest = d.rest /\ d'.explicit = d.explicit
          /\ d'.fromEnv = d.fromEnv /\ d'.fromConfig = {} /\ d'.vals = d.vals
          /\ d' = [path |-> d'.path, rest |-> d'.rest, last |-> d'.last, vals |-> d'.vals, explicit |-> d'.explicit,
                   fromEnv |-> d'.fromEnv, fromConfig |-> d'.fromConfig, config |-> d'.config, version |-> d'.version]
      BY <1>1, <1>4 DEF Shape
    <2>2. pc' = "apply" /\ exit' = exit
      BY <1>4 DEF Go
    <2>3. Dispatched'
      BY <1>1, <2>1 DEF Dispatched, Shape
    <2>4. QED
      BY <1>1, <2>1, <2>2, <2>3 DEF Typed
  <1>5. QED
    BY <1>2, <1>3, <1>4

LEMMA ApplyConfigType ==
    ASSUME TInv, ApplyConfig
    PROVE  Typed("required", TRUE)
  <1> DEFINE left == (visible(d.path) \ OverConfig) \cap DOMAIN d.config
             new == [f \in left |-> d.config[f]]
  <1>1. /\ Shape /\ exit \in -1..2 /\ Dispatched /\ pc = "apply" /\ d.fromConfig = {}
        /\ visible(d.path) \subseteq Flags
    BY VisibleIsDeclared DEF TInv, TypeOK, CliTypeOK, Dispatched, ApplyConfig, Shape
  <1>2. CASE \E f \in left : Exit(2, setValueError(f, d.config[f])) /\ UNCHANGED d
    BY <1>1, <1>2 DEF Exit, Typed, Dispatched, Shape
  <1>3. CASE /\ \A f \in left : Accepts(f, d.config[f])
             /\ d' = [d EXCEPT !.vals = Over(new, @), !.fromConfig = left] /\ Go("required")
    <2>1. DOMAIN new = left /\ \A f \in left : Accepts(f, new[f])
      BY <1>3
    <2>2. left \subseteq visible(d.path) \ (d.explicit \cup d.fromEnv)
      BY DEF OverConfig
    <2> HIDE DEF new, left
    <2>3. /\ d'.path = d.path /\ d'.rest = d.rest /\ d'.explicit = d.explicit
          /\ d'.fromEnv = d.fromEnv /\ d'.fromConfig = left /\ d'.vals = Over(new, d.vals)
          /\ d' = [path |-> d'.path, rest |-> d'.rest, last |-> d'.last, vals |-> d'.vals, explicit |-> d'.explicit,
                   fromEnv |-> d'.fromEnv, fromConfig |-> d'.fromConfig, config |-> d'.config, version |-> d'.version]
      BY <1>1, <1>3 DEF Shape
    <2>4. pc' = "required" /\ exit' = exit
      BY <1>3 DEF Go
    <2>5. d'.vals = [f \in Flags |-> IF f \in left THEN new[f] ELSE d.vals[f]]
      <3>1. d.vals = [f \in Flags |-> d.vals[f]] /\ DOMAIN d.vals = Flags
        BY <1>1 DEF Shape
      <3>2. DOMAIN new \cup DOMAIN d.vals = Flags
        BY <1>1, <2>1, <2>2, <3>1
      <3>3. QED
        BY <2>1, <2>3, <3>2 DEF Over
    <2>6. Dispatched'
      BY <1>1, <2>1, <2>2, <2>3, <2>5 DEF Dispatched, Shape
    <2>7. QED
      BY <1>1, <2>3, <2>4, <2>6 DEF Typed
  <1>4. QED
    BY <1>2, <1>3 DEF ApplyConfig

(* A step that leaves the migrate command alone keeps the types if it keeps those of the dispatch. *)
LEMMA ResolvesType ==
    ASSUME TInv, UNCHANGED mvars, world' = world, NEW p, Typed(p, TRUE),
           p \in {"dotenv", "parse", "chosen", "env", "config", "apply", "required", "run"}
    PROVE  TInv'
  <1>1. CliTypeOK'
    BY DEF Typed, CliTypeOK, Dispatched, Started
  <1>2. TypeOK'
    BY <1>1 DEF TInv, TypeOK, mvars
  <1>3. QED
    BY <1>2 DEF TInv, Typed, Dispatched

(* A step that leaves the dispatch alone keeps its types. *)
LEMMA SameDispatch ==
    ASSUME TInv, UNCHANGED <<world, d>>, exit' \in -1..2,
           pc \notin {"dotenv", "parse", "chosen", "env", "config", "apply"},
           pc' \in {"run", "migrate", "create", "half", "ran", "crashed", "done", "required"}
    PROVE  CliTypeOK' /\ Shape' /\ d'.path \in Tree
  BY DEF TInv, TypeOK, CliTypeOK, Shape, Started

(* What create makes, whole or torn: files of one name, its own. *)
Mine(form) == {Minted(form)} \cup {Half(form, n) : n \in 0..Len(Header)}

LEMMA MineIs ==
    ASSUME NEW form, NEW e \in Mine(form)
    PROVE  /\ e.form = form /\ e.version = world.now /\ e.name = d.rest[1] /\ ~e.dir
           /\ FileName(e) = FileName(Minted(form))
  BY DEF Mine, Minted, Half, Entry, FileName

LEMMA Tears ==
    ASSUME NEW form
    PROVE  /\ \A D \in Torn(form) : \E e \in Mine(form) : D = dir \cup {e}
           /\ Minted(form) \in Mine(form) /\ Written(form) = dir \cup {Minted(form)}
  BY DEF Torn, Mine, Written

LEMMA MineIsWellNamed ==
    ASSUME validName(d.rest[1]), world.now \in Versions, NEW form \in {"up", "down"}, NEW e \in Mine(form)
    PROVE  WellNamed(e)
  BY MineIs DEF WellNamed

LEMMA OpenType == TInv /\ Open => TInv'
  <1> SUFFICES ASSUME TInv, Open PROVE TInv'
    OBVIOUS
  <1> DEFINE merged == Merge(world.sources)
             loaded == loadMigrations(merged.entries, world.mysql)
  <1>1. /\ pc = "run" /\ UNCHANGED <<world, d, op, dir, residue>>
        /\ \/ opened' = [is |-> "loaded", migrations |-> loaded.migrations] /\ Go("migrate")
           \/ opened' = [is |-> "refused", migrations |-> Refused.migrations] /\ Exit(1, {})
           \/ UNCHANGED opened /\ Exit(1, {})
    BY Zenon DEF Open
  <1> HIDE DEF merged, loaded
  <1>2. exit' \in -1..2 /\ pc' \in {"migrate", "done"} /\ opened'.is \in {None, "loaded", "refused"}
    BY <1>1 DEF Go, Exit, TInv, TypeOK, CliTypeOK
  <1>3. CliTypeOK' /\ Shape'
    BY <1>1, <1>2, SameDispatch
  <1>4. QED
    BY <1>1, <1>2, <1>3 DEF TInv, TypeOK

LEMMA MigratesType == TInv /\ Migrates => TInv'
  <1> SUFFICES ASSUME TInv, Migrates PROVE TInv'
    OBVIOUS
  <1> DEFINE to == IntOf[d.vals["to"]]
  <1>1. to \in Int
    <2>1. "to" \in Flags /\ \A f \in Flags : Accepts(f, d.vals[f])
      BY MigrateFlags DEF TInv, TypeOK, CliTypeOK
    <2>2. Accepts("to", d.vals["to"])
      BY <2>1
    <2>3. QED
      BY <2>2, MigrateFlags
  <1>2. /\ pc = "migrate" /\ UNCHANGED <<world, d, opened, dir, residue>>
        /\ \/ UNCHANGED op /\ Exit(1, {})
           \/ \E m \in {"UpByOne", "Up", "DownTo", "Down", "Status"} : op' = Call(m, 0) /\ Go("ran")
           \/ Targets(to) /\ op' \in {Call("UpTo", to), Call("DownTo", to)} /\ Go("ran")
    BY DEF Migrates
  <1> HIDE DEF to
  <1>3. op'.method \in {None, "Up", "UpByOne", "UpTo", "Down", "DownTo", "Status"} /\ op'.to \in Nat
    BY <1>1, <1>2 DEF Call, Targets, TInv, TypeOK
  <1>4. exit' \in -1..2 /\ pc' \in {"ran", "done"}
    BY <1>2 DEF Go, Exit, TInv, TypeOK, CliTypeOK
  <1>5. CliTypeOK' /\ Shape'
    BY <1>2, <1>4, SameDispatch
  <1>6. QED
    BY <1>2, <1>3, <1>4, <1>5 DEF TInv, TypeOK

LEMMA CreateType == TInv /\ (CreateStarts \/ CreateFirst \/ CreateSecond) => TInv'
  <1> SUFFICES ASSUME TInv, CreateStarts \/ CreateFirst \/ CreateSecond PROVE TInv'
    OBVIOUS
  <1> DEFINE name == d.rest[1]
  <1>1. CASE CreateStarts
    <2>1. /\ pc = "run" /\ UNCHANGED <<world, d, mvars>>
          /\ Exit(1, {}) \/ (validName(name) /\ Go("create"))
      BY <1>1 DEF CreateStarts
    <2>2. exit' \in -1..2 /\ pc' \in {"create", "done"} /\ (pc' = "create" => validName(name))
      BY <2>1 DEF Go, Exit, TInv, TypeOK, CliTypeOK
    <2>3. CliTypeOK' /\ Shape'
      BY <2>1, <2>2, SameDispatch
    <2>4. QED
      BY <2>1, <2>2, <2>3 DEF TInv, TypeOK, mvars
  <1>2. ASSUME CreateFirst \/ CreateSecond PROVE TInv'
    <2>1. /\ pc \in {"create", "half"} /\ UNCHANGED <<world, d, opened, op>>
          /\ WriteOrder[1] = "up" /\ WriteOrder[2] = "down"
      BY <1>2 DEF CreateFirst, CreateSecond, WriteOrder, UpFirst
    <2>2. validName(name) /\ world.now \in Versions /\ \A e \in dir : WellNamed(e)
      BY <2>1 DEF TInv, TypeOK
    <2>3. \A form \in {"up", "down"} : \A e \in Mine(form) : WellNamed(e)
      BY <2>2, MineIsWellNamed
    <2>4. \E form \in {"up", "down"} : \E D \in {dir, Written(form)} \cup Torn(form) : dir' \subseteq D
      BY <1>2, <2>1 DEF CreateFirst, CreateSecond, WithoutFirst
    <2>5. \A e \in dir' : WellNamed(e)
      BY <2>2, <2>3, <2>4, Tears
    <2>6. residue' \subseteq {"up", "down"}
      BY <1>2, <2>1 DEF CreateFirst, CreateSecond, TInv, TypeOK
    <2>7. exit' \in -1..2 /\ pc' \in {"half", "done"}
      BY <1>2 DEF CreateFirst, CreateSecond, Go, Exit, TInv, TypeOK, CliTypeOK
    <2>8. CliTypeOK' /\ Shape'
      BY <2>1, <2>7, SameDispatch
    <2>9. QED
      BY <2>1, <2>2, <2>5, <2>6, <2>7, <2>8 DEF TInv, TypeOK
  <1>3. QED
    BY <1>1, <1>2

(* Every step keeps the types. *)
LEMMA TypeStep == TInv /\ [Next]_allvars => TInv'
  <1> SUFFICES ASSUME TInv, [Next]_allvars PROVE TInv'
    OBVIOUS
  <1>e. exit \in -1..2 /\ world' = world
    <2>1. exit \in -1..2
      BY DEF TInv, TypeOK, CliTypeOK
    <2>2. world' = world
      BY Zenon DEF Next, Resolves, LoadDotEnv, Execute, ParseFlag, Dispatch, Chosen, ResolveEnv, LoadConfig, ApplyConfig,
             CheckRequired, ServiceRuns, Open, Migrates, Returns, CreateStarts, CreateFirst, CreateSecond, Crash, Terminated2,
             allvars, vars
    <2>3. QED
      BY <2>1, <2>2
  <1>1. ASSUME LoadDotEnv \/ Execute \/ Chosen \/ CheckRequired, UNCHANGED mvars PROVE TInv'
    <2>1. /\ UNCHANGED d /\ exit' \in -1..2
          /\ pc' = "done" \/ <<pc, pc'>> \in {<<"dotenv", "dotenv">>, <<"dotenv", "parse">>, <<"chosen", "env">>,
                                              <<"required", "run">>}
      BY <1>1, <1>e DEF LoadDotEnv, Execute, Chosen, CheckRequired, Go, Exit
    <2>2. CASE pc' = "done"
      BY <1>1, <1>e, <2>1, <2>2 DEF TInv, TypeOK, CliTypeOK, Shape, mvars, Started
    <2>3. CASE pc' # "done"
      <3>1. /\ pc' \in {"config", "apply"} => d.fromConfig = {}
            /\ pc' \in {"dotenv", "parse", "chosen", "env"} => d.fromEnv = {} /\ d.fromConfig = {}
        BY <2>1, <2>3 DEF TInv
      <3>2. Typed(pc', TRUE)
        BY <2>1, <3>1, StaysTyped
      <3>3. pc' \in {"dotenv", "parse", "chosen", "env", "config", "apply", "required", "run"}
        BY <2>1, <2>3
      <3>4. QED
        BY <1>1, <1>e, <3>2, <3>3, ResolvesType
    <2>4. QED
      BY <2>2, <2>3
  <1>2. CASE Resolves
    <2>1. UNCHANGED mvars
      BY <1>2 DEF Resolves
    <2>2. CASE ParseFlag
      BY <1>e, <2>1, <2>2, ParseFlagType, ResolvesType
    <2>3. CASE Dispatch
      BY <1>e, <2>1, <2>3, DispatchType, ResolvesType
    <2>4. CASE ResolveEnv
      BY <1>e, <2>1, <2>4, ResolveEnvType, ResolvesType
    <2>5. CASE LoadConfig
      BY <1>e, <2>1, <2>5, LoadConfigType, ResolvesType
    <2>6. CASE ApplyConfig
      BY <1>e, <2>1, <2>6, ApplyConfigType, ResolvesType
    <2>7. QED
      BY <1>1, <1>2, <2>1, <2>2, <2>3, <2>4, <2>5, <2>6 DEF Resolves
  <1>3. CASE ServiceRuns \/ Returns
    <2>1. /\ UNCHANGED <<d, mvars>> /\ exit' \in -1..2 /\ pc \in {"run", "ran"} /\ pc' \in {"ran", "done"}
      BY <1>3, <1>e DEF ServiceRuns, Returns, Go, Exit
    <2>2. CliTypeOK' /\ Shape'
      BY <1>e, <2>1, SameDispatch
    <2>3. QED
      BY <1>e, <2>1, <2>2 DEF TInv, TypeOK, mvars
  <1>5. CASE Crash
    <2>1. /\ UNCHANGED <<d, opened, op, residue, exit>> /\ pc \in {"create", "half"} /\ pc' = "crashed"
          /\ \E form \in {"up", "down"} : dir' \in {dir} \cup Torn(form)
      BY <1>5 DEF Crash, WriteOrder, UpFirst
    <2>2. CliTypeOK' /\ Shape'
      BY <1>e, <2>1, SameDispatch
    <2>3. validName(d.rest[1]) /\ world.now \in Versions /\ \A e \in dir : WellNamed(e)
      BY <2>1 DEF TInv, TypeOK
    <2>4. \A e \in dir' : WellNamed(e)
      BY <2>1, <2>3, MineIsWellNamed, Tears
    <2>5. QED
      BY <1>e, <2>1, <2>2, <2>4 DEF TInv, TypeOK
  <1>4. CASE UNCHANGED allvars
    BY <1>4 DEF TInv, TypeOK, CliTypeOK, Started, Shape, allvars, vars, mvars
  <1>6. QED
    BY <1>2, <1>3, <1>4, <1>5, OpenType, MigratesType, CreateType DEF Next, Terminated2

LEMMA TypeInit == MInit => TInv
  <1> SUFFICES ASSUME MInit PROVE TInv
    OBVIOUS
  <1>1. IsWorld(world) /\ world.now \in Versions /\ \A e \in world.dir : WellNamed(e)
    BY WorldAssumption, MigrateAssumption DEF MInit, Init
  <1>2. Words(world.units) \in WordSeq
    BY <1>1, WorldSpeaks
  <1>3. /\ d = [path |-> <<>>, rest |-> Words(world.units), last |-> None, vals |-> Default,
                explicit |-> {}, fromEnv |-> {}, fromConfig |-> {}, config |-> <<>>, version |-> FALSE]
        /\ pc = "dotenv" /\ exit = -1
    BY DEF MInit, Init
  <1>4. Default = [f \in Flags |-> Default[f]]
    BY DefaultAssumption
  <1>5. Shape
    BY <1>2, <1>3, <1>4 DEF Shape
  <1>6. CliTypeOK
    <2>1. pc \in {"dotenv", "parse", "chosen", "env", "config", "apply", "required", "done"} /\ exit \in -1..2
      BY <1>3
    <2>2. d.path \in Tree
      BY <1>3, TreeAssumption
    <2>3. d.explicit \subseteq visible(d.path) /\ d.fromEnv \subseteq visible(d.path) \ d.explicit
          /\ d.fromConfig \subseteq visible(d.path) \ (d.explicit \cup d.fromEnv)
      BY <1>3
    <2>4. \A f \in Flags : Accepts(f, d.vals[f])
      BY <1>3, DefaultAssumption
    <2>5. QED
      BY <2>1, <2>2, <2>3, <2>4 DEF CliTypeOK
  <1>7. TypeOK
    BY <1>1, <1>6 DEF TypeOK, MInit, NoCall, Call
  <1>8. QED
    BY <1>1, <1>3, <1>5, <1>7 DEF TInv

LEMMA TInvHolds == Spec => []TInv
  BY TypeInit, TypeStep, PTL DEF Spec

(* The dispatch keeps its types for every tree that mounts the migrate command and every world: what  *)
(* is set was visible, each layer sets what the ones before it left, every flag holds what it accepts. *)
THEOREM TypeCorrect == Spec => []TypeOK
  <1>1. TInv => TypeOK
    BY DEF TInv
  <1>2. QED
    BY <1>1, TInvHolds, PTL

-----------------------------------------------------------------------------
(***************************************************************************)
(* What the process says, and what create leaves.                          *)
(***************************************************************************)

(* No secret is in an error: the values of secret flags never leave the program (dispatch.go:165,     *)
(* cli.go:175), provided the flag for the config file is none of them: its value, the path, is in     *)
(* every error about the file (config.go:58, 67, 73).                                                 *)
THEOREM SecretsStayUnsaid ==
    ASSUME ConfigFlag \notin SecretFlags
    PROVE  Spec => []SecretsUnsaid
  <1>1. MInit => SecretsUnsaid
    BY DEF MInit, Init, SecretsUnsaid
  <1>2. SecretsUnsaid /\ [Next]_allvars => SecretsUnsaid'
    <2> SUFFICES ASSUME SecretsUnsaid, [Next]_allvars PROVE SecretsUnsaid'
      OBVIOUS
    <2>1. ASSUME NEW code, Exit(code, {}) PROVE SecretsUnsaid'
      BY <2>1 DEF Exit, SecretsUnsaid
    <2>2. ASSUME NEW next, Go(next) PROVE SecretsUnsaid'
      BY <2>2 DEF Go, SecretsUnsaid
    <2>3. CASE ParseFlag
      <3>1. ASSUME NEW f \in visible(d.path), NEW v, NEW n, ParseSet(f, v, n) PROVE SecretsUnsaid'
        <4>1. Exit(2, sanitizeParseError(f, v)) => SecretsUnsaid'
          BY DEF Exit, sanitizeParseError, secrets, SecretsUnsaid
        <4>2. QED
          BY <2>2, <3>1, <4>1 DEF ParseSet
      <3>2. ASSUME NEW f, NEW v, AutoVersion(f), Exit(2, {<<f, v>>}) PROVE SecretsUnsaid'
        BY <3>2, TreeAssumption DEF Exit, AutoVersion, SecretsUnsaid
      <3>3. QED
        BY <2>1, <2>2, <2>3, <3>1, <3>2 DEF ParseFlag
    <2>4. CASE Dispatch
      BY <2>1, <2>2, <2>4, Zenon DEF Dispatch
    <2>5. CASE ResolveEnv
      <3>1. ASSUME NEW f, Exit(2, setFromEnv(f).said) PROVE SecretsUnsaid'
        BY <3>1, EnvGives DEF Exit, SecretsUnsaid
      <3>2. \/ Go("config")
            \/ \E f : Exit(2, setFromEnv(f).said)
        BY <2>5 DEF ResolveEnv
      <3>3. QED
        BY <2>2, <3>1, <3>2
    <2>6. CASE LoadConfig
      <3>1. ASSUME NEW v, Exit(2, {<<ConfigFlag, v>>}) PROVE SecretsUnsaid'
        BY <3>1 DEF Exit, SecretsUnsaid
      <3>2. QED
        BY <2>2, <2>6, <3>1, Zenon DEF LoadConfig
    <2>7. CASE ApplyConfig
      <3>1. ASSUME NEW f, NEW v, Exit(2, setValueError(f, v)) PROVE SecretsUnsaid'
        BY <3>1 DEF Exit, setValueError, SecretsUnsaid
      <3>2. QED
        BY <2>2, <2>7, <3>1, Zenon DEF ApplyConfig
    <2>8. CASE LoadDotEnv \/ Execute \/ Chosen \/ CheckRequired
      BY <2>1, <2>2, <2>8, Zenon DEF LoadDotEnv, Execute, Chosen, CheckRequired
    <2>9. CASE ServiceRuns \/ Open \/ Migrates \/ Returns
      BY <2>1, <2>2, <2>9, Zenon DEF ServiceRuns, Open, Migrates, Returns
    <2>10. CASE CreateStarts \/ CreateFirst \/ CreateSecond \/ Crash
      <3>1. CASE Crash
        BY <3>1 DEF Crash, SecretsUnsaid
      <3>2. QED
        BY <2>1, <2>2, <2>10, <3>1, Zenon DEF CreateStarts, CreateFirst, CreateSecond
    <2>11. CASE UNCHANGED allvars
      BY <2>11 DEF allvars, vars, SecretsUnsaid
    <2>12. QED
      BY <2>3, <2>4, <2>5, <2>6, <2>7, <2>8, <2>9, <2>10, <2>11 DEF Next, Resolves, Terminated2
  <1>3. QED
    BY <1>1, <1>2, PTL DEF Spec

(* What create finds: until it starts, the directory as it was; then no file of either name, and the  *)
(* first one is its own.                                                                              *)
Vacant == \A e \in world.dir, form \in {"up", "down"} : FileName(e) # FileName(Minted(form))

CreateInv ==
    /\ pc \notin {"half", "done", "crashed"} => dir = world.dir
    /\ pc \in {"create", "half"} => Vacant
    /\ pc = "half" => dir = world.dir \cup {Minted("up")}
    /\ CreateIsAllOrNothing

LEMMA CreateSecondLeaves ==
    ASSUME CreateInv, CreateSecond
    PROVE  CreateInv'
  <1> DEFINE first == Minted("up")
             mine == Mine("down")
  <1>1. /\ dir = world.dir \cup {first} /\ Vacant /\ UNCHANGED <<world, d>>
        /\ WriteOrder[1] = "up" /\ WriteOrder[2] = "down"
    BY DEF CreateSecond, CreateInv, WriteOrder, UpFirst
  <1>2. first.form = "up" /\ \A e \in mine : e.form = "down" /\ FileName(e) # FileName(first)
    BY MineIs DEF Minted, Entry, FileName
  <1>3. first \notin world.dir /\ \A e \in mine : e \notin world.dir
    BY <1>1, MineIs DEF Vacant
  <1>4. \A e \in world.dir : FileName(e) # FileName(first)
    BY <1>1 DEF Vacant
  <1>5. CASE dir' = Written("down") /\ Exit(0, {})
    <2>1. PICK second \in mine : dir' = world.dir \cup {first, second}
      BY <1>1, <1>5, Tears
    <2>2. pc' = "done" /\ exit' = 0
      BY <1>5 DEF Exit
    <2> HIDE DEF first, mine
    <2>3. dir' \ world.dir = {first, second}
      BY <1>3, <2>1
    <2>4. {e.form : e \in {first, second}} = {"up", "down"}
      BY <1>2, <2>1
    <2>5. CreateIsAllOrNothing'
      BY <1>1, <2>1, <2>2, <2>3, <2>4 DEF CreateIsAllOrNothing
    <2>6. QED
      BY <2>2, <2>5 DEF CreateInv
  <1>6. ASSUME NEW removed \in BOOLEAN, NEW after \in {dir} \cup Torn("down"), Exit(1, {}),
               dir' = IF removed THEN WithoutFirst(after) ELSE after,
               residue' = {f \in {"up", "down"} : (f = "up" /\ ~removed) \/ (f = "down" /\ after # dir)}
        PROVE  CreateInv'
    <2>1. pc' = "done" /\ exit' = 1
      BY <1>6 DEF Exit
    <2>2. \A entries : WithoutFirst(entries) = {e \in entries : FileName(e) # FileName(first)}
      BY <1>1 DEF WithoutFirst
    <2>3. after = dir \/ \E torn \in mine : after = dir \cup {torn}
      BY <1>6, Tears
    <2> HIDE DEF first, mine
    <2>4. ASSUME NEW torn \in mine, after = dir \cup {torn} PROVE CreateInv'
      <3>1. torn # first /\ torn \notin dir /\ after # dir
        BY <1>1, <1>2, <1>3, <2>4
      <3>2. CASE removed
        <4>1. dir' = world.dir \cup {torn}
          BY <1>1, <1>2, <1>4, <1>6, <2>2, <2>4, <3>2
        <4>2. dir' \ world.dir = {torn} /\ residue' = {"down"} /\ {e.form : e \in {torn}} = {"down"}
          BY <1>2, <1>3, <1>6, <3>1, <3>2, <4>1
        <4>3. QED
          BY <1>1, <2>1, <4>1, <4>2 DEF CreateInv, CreateIsAllOrNothing
      <3>3. CASE ~removed
        <4>1. dir' = world.dir \cup {first, torn}
          BY <1>1, <1>6, <2>4, <3>3
        <4>2. dir' \ world.dir = {first, torn} /\ residue' = {"up", "down"} /\ {e.form : e \in {first, torn}} = {"up", "down"}
          BY <1>2, <1>3, <1>6, <3>1, <3>3, <4>1
        <4>3. QED
          BY <1>1, <2>1, <4>1, <4>2 DEF CreateInv, CreateIsAllOrNothing
      <3>4. QED
        BY <3>2, <3>3
    <2>5. CASE removed /\ after = dir
      <3>1. dir' = world.dir
        BY <1>1, <1>4, <1>6, <2>2, <2>5
      <3>2. QED
        BY <1>1, <2>1, <3>1 DEF CreateInv, CreateIsAllOrNothing
    <2>6. CASE ~removed /\ after = dir
      <3>1. dir' = world.dir \cup {first}
        BY <1>1, <1>6, <2>6
      <3>2. dir' \ world.dir = {first} /\ residue' = {"up"} /\ {e.form : e \in {first}} = {"up"}
        BY <1>2, <1>3, <1>6, <2>6, <3>1
      <3>3. QED
        BY <1>1, <2>1, <3>1, <3>2 DEF CreateInv, CreateIsAllOrNothing
    <2>7. QED
      BY <2>3, <2>4, <2>5, <2>6
  <1>7. QED
    BY <1>1, <1>5, <1>6 DEF CreateSecond

(* Until a command runs, no file is touched. *)
LEMMA ResolvesIs ==
    ASSUME Resolves
    PROVE  /\ UNCHANGED <<world, mvars>> /\ pc \in {"dotenv", "parse", "chosen", "env", "config", "apply", "required"}
           /\ pc' \notin {"create", "half", "migrate"}
  <1>1. UNCHANGED mvars
    BY DEF Resolves
  <1>2. UNCHANGED world /\ pc \in {"dotenv", "parse", "chosen", "env", "config", "apply", "required"}
    <2>1. CASE LoadDotEnv \/ Execute \/ Chosen \/ CheckRequired
      BY <2>1, Zenon DEF LoadDotEnv, Execute, Chosen, CheckRequired
    <2>2. CASE ParseFlag \/ Dispatch
      BY <2>2, Zenon DEF ParseFlag, Dispatch
    <2>3. CASE ResolveEnv \/ LoadConfig \/ ApplyConfig
      BY <2>3, Zenon DEF ResolveEnv, LoadConfig, ApplyConfig
    <2>4. QED
      BY <2>1, <2>2, <2>3 DEF Resolves
  <1>3. pc' \notin {"create", "half", "migrate"}
    <2>1. ASSUME NEW code, NEW words, Exit(code, words) PROVE pc' = "done"
      BY <2>1 DEF Exit
    <2>2. \E next \in {"dotenv", "parse", "chosen", "env", "config", "apply", "required", "run", "done"} : pc' = next
      <3>1. CASE LoadDotEnv \/ Execute \/ Chosen \/ CheckRequired
        BY <3>1 DEF LoadDotEnv, Execute, Chosen, CheckRequired, Go, Exit
      <3>2. CASE ParseFlag
        BY <3>2 DEF ParseFlag, ParseSet, Go, Exit
      <3>3. CASE Dispatch
        BY <3>3 DEF Dispatch, Go, Exit
      <3>4. CASE ResolveEnv
        BY <3>4 DEF ResolveEnv, Go, Exit
      <3>5. CASE LoadConfig
        BY <3>5, Zenon DEF LoadConfig, Go, Exit
      <3>6. CASE ApplyConfig
        BY <3>6 DEF ApplyConfig, Go, Exit
      <3>7. QED
        BY <3>1, <3>2, <3>3, <3>4, <3>5, <3>6 DEF Resolves
    <2>3. QED
      BY <2>2
  <1>4. QED
    BY <1>1, <1>2, <1>3

LEMMA CreateStep == CreateInv /\ [Next]_allvars => CreateInv'
  <1> SUFFICES ASSUME CreateInv, [Next]_allvars PROVE CreateInv'
    OBVIOUS
  <1>1. CASE UNCHANGED <<world, dir>> /\ pc \notin {"create", "half", "done", "crashed"}
             /\ pc' \notin {"create", "half"}
    BY <1>1 DEF CreateInv, CreateIsAllOrNothing
  <1>2. CASE Resolves
    BY <1>1, <1>2, ResolvesIs DEF mvars
  <1>3. CASE ServiceRuns \/ Open \/ Migrates \/ Returns
    <2>1. UNCHANGED <<world, dir>> /\ pc \in {"run", "migrate", "ran"}
      BY <1>3 DEF ServiceRuns, Open, Migrates, Returns, mvars
    <2>2. pc' \in {"migrate", "ran", "done"}
      BY <1>3, Zenon DEF ServiceRuns, Open, Migrates, Returns, Go, Exit
    <2>3. QED
      BY <1>1, <2>1, <2>2
  <1>4. CASE CreateStarts
    <2>1. /\ pc = "run" /\ UNCHANGED <<world, d, dir>>
          /\ Exit(1, {}) \/ (~Exists("up") /\ ~Exists("down") /\ Go("create"))
      BY <1>4 DEF CreateStarts, mvars
    <2>2. CASE Exit(1, {})
      BY <1>1, <2>1, <2>2 DEF Exit
    <2>3. CASE ~Exists("up") /\ ~Exists("down") /\ Go("create")
      <3>1. Vacant'
        BY <2>1, <2>3 DEF CreateInv, Vacant, Exists, Minted
      <3>2. pc' = "create"
        BY <2>3 DEF Go
      <3>3. QED
        BY <2>1, <3>1, <3>2 DEF CreateInv, CreateIsAllOrNothing
    <2>4. QED
      BY <2>1, <2>2, <2>3
  <1>5. CASE CreateFirst
    <2>1. /\ dir = world.dir /\ Vacant /\ UNCHANGED <<world, d>> /\ WriteOrder[1] = "up"
      BY <1>5 DEF CreateFirst, CreateInv, WriteOrder, UpFirst
    <2>2. Vacant'
      BY <2>1 DEF Vacant, Minted
    <2>3. CASE dir' = Written("up") /\ Go("half")
      BY <2>1, <2>2, <2>3 DEF CreateInv, CreateIsAllOrNothing, Written, Go, Minted
    <2>4. CASE UNCHANGED dir /\ Exit(1, {})
      BY <2>1, <2>4 DEF CreateInv, CreateIsAllOrNothing, Exit
    <2>5. CASE dir' \in Torn("up") /\ residue' = {"up"} /\ Exit(1, {})
      <3>1. PICK torn \in Mine("up") : dir' = world.dir \cup {torn}
        BY <2>1, <2>5, Tears
      <3>2. torn.form = "up" /\ torn \notin world.dir
        BY <2>1, MineIs DEF Vacant
      <3>3. dir' \ world.dir = {torn} /\ {e.form : e \in {torn}} = {"up"}
        BY <3>1, <3>2
      <3>4. pc' = "done" /\ exit' = 1
        BY <2>5 DEF Exit
      <3>5. QED
        BY <2>1, <2>5, <3>1, <3>3, <3>4 DEF CreateInv, CreateIsAllOrNothing
    <2>6. QED
      BY <1>5, <2>1, <2>3, <2>4, <2>5 DEF CreateFirst
  <1>6. CASE Crash
    <2>1. pc' = "crashed" /\ UNCHANGED world /\ \E form : dir' \in {dir} \cup Torn(form)
      BY <1>6 DEF Crash
    <2>2. dir \subseteq dir'
      BY <2>1, Tears
    <2>3. QED
      BY <2>1, <2>2 DEF CreateInv, CreateIsAllOrNothing
  <1>7. CASE UNCHANGED allvars
    BY <1>7 DEF CreateInv, CreateIsAllOrNothing, Vacant, Minted, allvars, vars, mvars
  <1>8. QED
    BY <1>2, <1>3, <1>4, <1>5, <1>6, <1>7, CreateSecondLeaves DEF Next, Terminated2

(* Create leaves both files or neither, but for what a broken write left, and every file that was     *)
(* there, for every name, second and directory (create.go:17).                                        *)
THEOREM CreateLeavesPairs == Spec => []CreateIsAllOrNothing
  <1>1. MInit => CreateInv
    BY DEF MInit, Init, CreateInv, CreateIsAllOrNothing
  <1>2. CreateInv => CreateIsAllOrNothing
    BY DEF CreateInv
  <1>3. QED
    BY <1>1, <1>2, CreateStep, PTL DEF Spec

-----------------------------------------------------------------------------
(***************************************************************************)
(* The command line is read as it was written: after some of its units,    *)
(* the dispatch has their path and their flags, and their words are gone.  *)
(***************************************************************************)
NextIs(units, k, rest, t) ==
    /\ units[k].words \in WordSeq /\ t \in WordSeq
    /\ rest[1] = units[k].words[1] /\ Words(units) = Then(WordsAt(units)[k], t)
    /\ Len(units[k].words) = 2 => Len(rest) > 1 /\ rest[2] = units[k].words[2]
    /\ SubSeq(rest, Len(units[k].words) + 1, Len(rest)) = t
    /\ Len(units[k].words) = 1 => Tail(rest) = t
    /\ rest = Then(units[k].words, t)

LEMMA UnitsHaveWords ==
    ASSUME NEW u, NEW last, SaysWhatItIs(u, last)
    PROVE  u.words \in WordSeq /\ u.words # <<>> /\ Len(u.words) \in {1, 2}
  <1>1. u.words \in Seq(STRING)
    BY DEF SaysWhatItIs
  <1>2. Len(u.words) \in {1, 2}
    <2>1. Len(<<"--">>) = 1
      OBVIOUS
    <2>2. QED
      BY <2>1 DEF SaysWhatItIs, SaysSet, SaysWord
  <1>3. u.words # <<>>
    <2>1. Len(<<>>) = 0
      OBVIOUS
    <2>2. QED
      BY <1>2, <2>1
  <1>4. QED
    BY <1>1, <1>2, <1>3 DEF WordSeq

LEMMA NextUnit ==
    ASSUME NEW w, IsWorld(w), NEW k \in 0..Len(w.units), NEW rest \in WordSeq, rest # <<>>,
           Words(w.units) = Then(WordsAt(w.units)[k], rest)
    PROVE  /\ k + 1 \in 1..Len(w.units) /\ SaysWhatItIs(w.units[k + 1], k + 1 = Len(w.units))
           /\ LineAt(w.units)[k + 1] = ReadUnit(LineAt(w.units)[k], w.units[k + 1])
           /\ \E t : NextIs(w.units, k + 1, rest, t) /\ (k + 1 = Len(w.units) => t = <<>>)
  <1> DEFINE U == w.units
             j == k + 1
  <1>1. Spoken(U) /\ Len(U) \in Nat /\ DOMAIN U = 1..Len(U)
    <2>1. Spoken(U)
      BY WorldSpeaks
    <2>2. QED
      BY <2>1, LenProperties DEF Spoken
  <1>2. j \in 1..Len(U)
    <2>1. k # Len(U)
      BY <1>1, NoMoreWords
    <2>2. QED
      BY <1>1, <2>1
  <1>3. SaysWhatItIs(U[j], j = Len(U))
    BY <1>1, <1>2, Zenon DEF IsWorld
  <1>4. U[j].words \in WordSeq /\ U[j].words # <<>>
    BY <1>3, UnitsHaveWords
  <1>5. LineAt(U)[j] = ReadUnit(LineAt(U)[k], U[j])
    <2>1. j - 1 = k
      OBVIOUS
    <2>2. QED
      BY <1>1, <1>2, <2>1, ReadingUnfolds
  <1>6. PICK t \in WordSeq : rest = Then(U[j].words, t) /\ Words(U) = Then(WordsAt(U)[j], t)
    <2>1. Words(U) = Then(WordsAt(U)[j - 1], rest)
      OBVIOUS
    <2> HIDE DEF j
    <2>2. QED
      BY <1>1, <1>2, <2>1, NextWords
  <1>7. j = Len(U) => t = <<>>
    BY <1>1, <1>6, NoMoreWords
  <1> HIDE DEF U, j
  <1>8. /\ rest[1] = U[j].words[1]
        /\ Len(U[j].words) > 1 => rest[2] = U[j].words[2] /\ Len(rest) > 1
        /\ SubSeq(rest, Len(U[j].words) + 1, Len(rest)) = t
        /\ Len(U[j].words) = 1 => Tail(rest) = t
    BY <1>4, <1>6, FrontWords, Zenon
  <1>9. NextIs(U, j, rest, t)
    <2>1. Len(U[j].words) = 2 => Len(U[j].words) > 1
      OBVIOUS
    <2>2. QED
      BY <1>4, <1>6, <1>8, <2>1, Zenon DEF NextIs
  <1>10. QED
    BY <1>2, <1>3, <1>5, <1>7, <1>9 DEF U, j

(* Once the flags are over, the units that are left are operands, whatever they look like. *)
LEMMA AfterClosed ==
    ASSUME NEW w, IsWorld(w), NEW m \in 0..Len(w.units), NEW p, NEW s, NEW a \in WordSeq, NEW o \in WordSeq,
           LineAt(w.units)[m] = [path |-> p, set |-> s, operands |-> o, open |-> FALSE],
           WordsAt(w.units)[m] = Then(a, o),
           NEW r \in WordSeq, Words(w.units) = Then(a, r)
    PROVE  ReadLine(w.units) = [path |-> p, set |-> s, operands |-> r, open |-> FALSE]
  <1> DEFINE U == w.units
             n == Len(U)
             L == LineAt(U)
             W == WordsAt(U)
             closed(q) == [path |-> p, set |-> s, operands |-> q, open |-> FALSE]
             Beyond(j) == \E q \in WordSeq : L[j] = closed(q) /\ W[j] = Then(a, q)
             Good == {j \in 0..n : j >= m => Beyond(j)}
  <1>1. Spoken(U) /\ n \in Nat
    <2>1. Spoken(U)
      BY WorldSpeaks
    <2>2. QED
      BY <2>1, LenProperties DEF Spoken
  <1>2. \A j \in 1..n : /\ L[j] = ReadUnit(L[j - 1], U[j])
                        /\ W[j] = Then(W[j - 1], U[j].words) /\ U[j].words \in WordSeq
    BY <1>1, ReadingUnfolds, WordsAdd DEF Spoken
  <1>3. ReadLine(U) = L[n] /\ Words(U) = W[n]
    BY <1>1, ReadingUnfolds, WordsAdd
  <1> HIDE DEF L, W, U, n
  <1>4. L[m] = [path |-> p, set |-> s, operands |-> o, open |-> FALSE] /\ W[m] = Then(a, o) /\ m \in 0..n
    BY DEF L, W, U, n
  <1>c. \A q, x : x.words \in WordSeq => ReadUnit(closed(q), x) = closed(Then(q, x.words))
    BY DEF ReadUnit, Then
  <1>m. Beyond(m)
    BY <1>4
  <1>5. 0 \in Good
    <2> HIDE DEF Beyond
    <2>1. 0 >= m => m = 0
      BY <1>1, <1>4
    <2>2. QED
      BY <1>1, <1>m, <2>1
  <1>6. ASSUME NEW j \in 1..n, j - 1 \in Good PROVE j \in Good
    <2>1. ASSUME Beyond(j - 1) PROVE Beyond(j)
      <3>1. PICK q \in WordSeq : L[j - 1] = closed(q) /\ W[j - 1] = Then(a, q)
        BY <2>1
      <3>2. U[j].words \in WordSeq /\ Then(q, U[j].words) \in WordSeq
        BY <1>2, CatType, Zenon
      <3>3. L[j] = closed(Then(q, U[j].words))
        <4> HIDE DEF closed
        <4>1. QED
          BY <1>2, <1>c, <3>1, <3>2, Zenon
      <3>4. W[j] = Then(a, Then(q, U[j].words))
        <4>1. Then(Then(a, q), U[j].words) = Then(a, Then(q, U[j].words))
          <5>1. PICK x : x = U[j].words
            OBVIOUS
          <5>2. x \in WordSeq
            BY <3>2, <5>1
          <5>3. Then(Then(a, q), x) = Then(a, Then(q, x))
            BY <5>2, CatAssociates
          <5>4. QED
            BY <5>1, <5>3
        <4>2. W[j] = Then(W[j - 1], U[j].words)
          BY <1>2, Zenon
        <4>3. QED
          BY <3>1, <4>1, <4>2, Zenon
      <3>5. QED
        BY <3>2, <3>3, <3>4, Zenon
    <2> HIDE DEF Beyond
    <2>2. CASE j >= m
      <3>1. j - 1 >= m \/ j = m
        BY <1>1, <1>4, <2>2
      <3>2. Beyond(j)
        BY <1>6, <1>m, <2>1, <3>1
      <3>3. QED
        BY <1>1, <3>2
    <2>3. QED
      BY <1>1, <2>2
  <1>7. 0..n \subseteq Good
    <2> HIDE DEF Good
    <2>1. QED
      BY <1>1, <1>5, <1>6, UpTo
  <1>8. PICK q \in WordSeq : L[n] = [path |-> p, set |-> s, operands |-> q, open |-> FALSE] /\ W[n] = Then(a, q)
    <2> HIDE DEF Beyond
    <2>1. Beyond(n)
      BY <1>1, <1>4, <1>7
    <2>2. QED
      BY <2>1 DEF Beyond
  <1>9. q = r
    <2>1. Then(a, q) = Then(a, r)
      BY <1>3, <1>8 DEF U
    <2>2. QED
      BY <2>1, CatCancels, Zenon
  <1>10. QED
    BY <1>3, <1>8, <1>9 DEF U

(* The flags hold what is set, the others their defaults. *)
Holds(set) ==
    /\ d.explicit = DOMAIN set
    /\ \A f \in Flags : d.vals[f] = IF f \in DOMAIN set THEN set[f] ELSE Default[f]

Reading(path, set) == [path |-> path, set |-> set, operands |-> <<>>, open |-> TRUE]
ReadTo(k, set) ==
    /\ LineAt(world.units)[k] = Reading(d.path, set)
    /\ Words(world.units) = Then(WordsAt(world.units)[k], d.rest)
    /\ Holds(set)

LineRead ==
    /\ d.path = RefLine.path
    /\ d.rest = RefLine.operands
    /\ Holds(RefLine.set)

(* Where no command hangs below one that runs, the words after a flag's value "--" are operands       *)
(* whether or not it is taken for the terminator.                                                     *)
LineInv ==
    /\ pc = "dotenv" => /\ d.path = <<>> /\ d.rest = Words(world.units)
                        /\ d.explicit = {} /\ d.vals = Default
    /\ pc = "parse" /\ ~d.version => \E k \in 0..Len(world.units) : \E set : ReadTo(k, set)
    /\ pc = "chosen" /\ d.path \in Runs => LineRead

(* A flag that is set holds its value in place of what it held. *)
LEMMA SetHolds ==
    ASSUME Shape, NEW f \in Flags, NEW v, NEW m, NEW set, Holds(set), ParseSet(f, v, m), pc' = "parse"
    PROVE  /\ d'.path = d.path /\ d'.rest = SubSeq(d.rest, m + 1, Len(d.rest))
           /\ Holds(Over(Just(f, v), set))' /\ d'.version = d.version
  <1> DEFINE new == Over(Just(f, v), set)
  <1>1. d' = [d EXCEPT !.vals[f] = v, !.explicit = @ \cup {f}, !.last = d.rest[m],
                       !.rest = SubSeq(@, m + 1, Len(@))]
    BY DEF ParseSet, Exit
  <1>2. /\ d'.path = d.path /\ d'.rest = SubSeq(d.rest, m + 1, Len(d.rest))
        /\ d'.explicit = d.explicit \cup {f} /\ d'.vals = [d.vals EXCEPT ![f] = v] /\ d'.version = d.version
    BY <1>1 DEF Shape
  <1>3. \A g \in Flags : d'.vals[g] = IF g = f THEN v ELSE d.vals[g]
    BY <1>2 DEF Shape
  <1>4. DOMAIN new = {f} \cup DOMAIN set /\ \A g \in DOMAIN new : new[g] = IF g = f THEN v ELSE set[g]
    BY DEF Over, Just
  <1> HIDE DEF new
  <1>5. d'.explicit = DOMAIN new
    BY <1>2, <1>4 DEF Holds
  <1>6. ASSUME NEW g \in Flags PROVE d'.vals[g] = IF g \in DOMAIN new THEN new[g] ELSE Default[g]
    BY <1>3, <1>4 DEF Holds
  <1>7. Holds(new)'
    BY <1>5, <1>6 DEF Holds
  <1>8. QED
    BY <1>2, <1>7 DEF new

(* What Parse reads as a flag is the next unit, and the unit sets that flag. *)
LEMMA ParseReads ==
    ASSUME TInv, LineInv, ParseFlag
    PROVE  LineInv'
  <1> DEFINE U == world.units
             w == Syntax[d.rest[1]]
             f == w.flag
  <1>1. /\ pc = "parse" /\ d.rest # <<>> /\ d.rest[1] \in DOMAIN Syntax /\ d.rest \in WordSeq /\ Shape
        /\ IsWorld(world) /\ visible(d.path) \subseteq Flags /\ world' = world
    BY VisibleIsDeclared DEF TInv, TypeOK, CliTypeOK, ParseFlag, AtFlag, Shape
  <1>2. pc' \in {"parse", "done"}
    BY ParseFlagType DEF Typed
  <1>3. SUFFICES ASSUME pc' = "parse", ~d'.version
                 PROVE  \E k \in 0..Len(U) : \E set : ReadTo(k, set)'
    BY <1>1, <1>2 DEF LineInv
  <1>4. /\ f \in visible(d.path)
        /\ \/ Kind[f] = "bool" /\ ParseSet(f, IF w.value = None THEN "true" ELSE w.value, 1)
           \/ Kind[f] # "bool" /\ w.value # None /\ ParseSet(f, w.value, 1)
           \/ Kind[f] # "bool" /\ w.value = None /\ Len(d.rest) > 1 /\ ParseSet(f, d.rest[2], 2)
    <2>1. \A code, words : ~Exit(code, words)
      BY <1>3 DEF Exit
    <2>2. ~(AutoVersion(f) /\ d' = [d EXCEPT !.version = w.value # "false", !.last = d.rest[1], !.rest = Tail(@)])
      <3>1. AutoVersion(f) => w.value # "false"
        BY <1>1, TreeAssumption DEF AutoVersion
      <3>2. d' = [d EXCEPT !.version = w.value # "false", !.last = d.rest[1], !.rest = Tail(@)]
              => d'.version = (w.value # "false")
        BY <1>1 DEF Shape
      <3>3. QED
        BY <1>3, <3>1, <3>2
    <2>3. QED
      BY <2>1, <2>2, Zenon DEF ParseFlag
  <1>5. ~d.version
    <2>1. PICK v, m : ParseSet(f, v, m)
      BY <1>4
    <2>2. d'.version = d.version
      <3>1. d' = [d EXCEPT !.vals[f] = v, !.explicit = @ \cup {f}, !.last = d.rest[m],
                           !.rest = SubSeq(@, m + 1, Len(@))]
        BY <1>3, <2>1 DEF ParseSet, Exit
      <3>2. QED
        BY <1>1, <3>1 DEF Shape
    <2>3. QED
      BY <1>3, <2>2
  <1>6. PICK k, set : k \in 0..Len(U) /\ ReadTo(k, set)
    BY <1>1, <1>5 DEF LineInv
  <1> DEFINE u == U[k + 1]
  <1>7. /\ k + 1 \in 1..Len(U) /\ SaysWhatItIs(u, k + 1 = Len(U))
        /\ LineAt(U)[k + 1] = ReadUnit(LineAt(U)[k], u)
        /\ \E t : NextIs(U, k + 1, d.rest, t) /\ (k + 1 = Len(U) => t = <<>>)
    BY <1>1, <1>6, NextUnit DEF ReadTo
  <1>8. PICK t : NextIs(U, k + 1, d.rest, t) /\ (k + 1 = Len(U) => t = <<>>)
    BY <1>7
  <1>9. u.words[1] = d.rest[1]
    BY <1>8 DEF NextIs
  <1>10. u.is = "set" /\ SaysSet(u)
    <2>1. u.words # <<"--">>
      <3>1. <<"--">>[1] = "--"
        OBVIOUS
      <3>2. QED
        BY <1>1, <1>9, <3>1, WorldAssumption
    <2>2. ~SaysWord(u, k + 1 = Len(U))
      <3>1. SUFFICES ASSUME SaysWord(u, k + 1 = Len(U)) PROVE FALSE
        OBVIOUS
      <3>2. Len(u.words) = 1 /\ k + 1 = Len(U) /\ LacksValue(d.rest[1])
        BY <1>1, <1>4, <1>9, <3>1 DEF SaysWord
      <3>3. t = <<>> /\ d.rest = Then(u.words, t) /\ u.words \in WordSeq
        BY <1>8, <3>2 DEF NextIs
      <3>4. Len(d.rest) = 1
        BY <3>2, <3>3, CatEmpty
      <3>5. Len(d.rest) > 1
        BY <1>4, <3>2 DEF LacksValue
      <3>6. QED
        BY <3>4, <3>5
    <2>3. QED
      BY <1>7, <2>1, <2>2 DEF SaysWhatItIs
  <1>11. u.flag = f /\ ParseSet(f, u.value, Len(u.words)) /\ Len(u.words) \in Nat
    <2>1. u.flag = f
      BY <1>9, <1>10 DEF SaysSet
    <2>2. \/ Len(u.words) = 1 /\ w.value # None /\ u.value = w.value
          \/ Len(u.words) = 1 /\ w.value = None /\ Kind[f] = "bool" /\ u.value = "true"
          \/ Len(u.words) = 2 /\ w.value = None /\ Kind[f] # "bool" /\ u.value = u.words[2]
      BY <1>9, <1>10, <2>1 DEF SaysSet
    <2>3. Len(u.words) = 2 => d.rest[2] = u.words[2]
      BY <1>8 DEF NextIs
    <2>4. ParseSet(f, u.value, Len(u.words))
      <3> HIDE DEF u, f, w
      <3>1. QED
        BY <1>4, <2>2, <2>3
    <2>5. 1 \in Nat /\ 2 \in Nat
      OBVIOUS
    <2>6. QED
      BY <2>1, <2>2, <2>4, <2>5
  <1>12. PICK g, v, m : g \in Flags /\ m \in Nat /\ g = f /\ v = u.value /\ m = Len(u.words)
    <2>1. f \in Flags
      BY <1>1, <1>4
    <2> HIDE DEF u, f, w
    <2>2. QED
      BY <1>11, <2>1, Zenon
  <1> DEFINE new == Over(Just(g, v), set)
  <1>13. /\ d'.path = d.path /\ d'.rest = SubSeq(d.rest, m + 1, Len(d.rest))
         /\ Holds(new)'
    <2>1. Holds(set) /\ ParseSet(g, v, m)
      BY <1>6, <1>11, <1>12 DEF ReadTo
    <2>2. QED
      BY <1>1, <1>3, <1>12, <2>1, SetHolds
  <1>14. d'.rest = t /\ Words(U) = Then(WordsAt(U)[k + 1], t)
    BY <1>8, <1>12, <1>13, Zenon DEF NextIs
  <1>15. LineAt(U)[k + 1] = Reading(d.path, new)
    <2>1. LineAt(U)[k] = Reading(d.path, set)
      BY <1>6 DEF ReadTo
    <2>2. ReadUnit(Reading(d.path, set), u) = Reading(d.path, new)
      <3>1. u.is = "set" /\ u.flag = g /\ u.value = v
        BY <1>10, <1>11, <1>12
      <3> HIDE DEF u
      <3>2. QED
        BY <3>1 DEF ReadUnit, Reading
    <2>3. QED
      BY <1>7, <2>1, <2>2
  <1>16. ReadTo(k + 1, new)'
    <2> HIDE DEF new, u
    <2>1. LineAt(U')[k + 1] = Reading(d'.path, new)
      BY <1>1, <1>13, <1>15
    <2>2. Words(U') = Then(WordsAt(U')[k + 1], d'.rest)
      BY <1>1, <1>14
    <2>3. QED
      BY <1>13, <2>1, <2>2 DEF ReadTo
  <1>17. k + 1 \in 0..Len(U)
    BY <1>7
  <1>18. QED
    BY <1>16, <1>17

LEMMA RunsAreLeaves ==
    ASSUME LeavesRun
    PROVE  \A p \in Runs, w \in STRING : ~findCommand(p, w)
  <1> DEFINE S == STRING
  <1> SUFFICES ASSUME NEW p \in Runs, NEW w \in S, Append(p, w) \in Tree PROVE FALSE
    BY DEF findCommand
  <1>1. p \in Seq(S)
    BY TreeAssumption
  <1> HIDE DEF S
  <1>2. Append(p, w) # <<>> /\ Front(Append(p, w)) = p
    BY <1>1 DEF Front
  <1>3. QED
    BY <1>2 DEF LeavesRun

LEMMA NoneLeft ==
    ASSUME NEW w, IsWorld(w), NEW k \in 0..Len(w.units), Words(w.units) = Then(WordsAt(w.units)[k], <<>>)
    PROVE  k = Len(w.units)
  <1> DEFINE U == w.units
  <1>1. Spoken(U) /\ Len(U) \in Nat /\ DOMAIN U = 1..Len(U)
    <2>1. Spoken(U)
      BY WorldSpeaks
    <2>2. QED
      BY <2>1, LenProperties DEF Spoken
  <1>2. SUFFICES ASSUME k # Len(U) PROVE FALSE
    OBVIOUS
  <1>3. PICK j \in 1..Len(U) : j - 1 = k
    <2>1. k + 1 \in 1..Len(U) /\ k + 1 - 1 = k
      BY <1>1, <1>2
    <2>2. QED
      BY <2>1
  <1>4. SaysWhatItIs(U[j], j = Len(U))
    BY <1>1, Zenon DEF IsWorld
  <1>5. U[j].words \in WordSeq /\ U[j].words # <<>>
    BY <1>4, UnitsHaveWords
  <1>6. PICK t \in WordSeq : <<>> = Then(U[j].words, t)
    <2>1. <<>> \in WordSeq /\ Words(U) = Then(WordsAt(U)[j - 1], <<>>)
      BY <1>3, CatEmpty
    <2>2. QED
      BY <1>1, <2>1, NextWords
  <1>7. QED
    BY <1>5, <1>6, FrontWords, Zenon

LEMMA ChosenIsRead ==
    ASSUME Shape, world' = world, NEW set, Holds(set), NEW r, NEW o, d' = [d EXCEPT !.rest = r],
           ReadLine(world.units) = [path |-> d.path, set |-> set, operands |-> r, open |-> o]
    PROVE  LineRead'
  <1>1. d'.path = d.path /\ d'.rest = r /\ d'.explicit = d.explicit /\ d'.vals = d.vals
    BY DEF Shape
  <1>2. RefLine = [path |-> d.path, set |-> set, operands |-> r, open |-> o]
    BY DEF RefLine
  <1>3. RefLine' = RefLine
    BY DEF RefLine
  <1>4. RefLine'.path = d.path /\ RefLine'.operands = r /\ RefLine'.set = set
    BY <1>2, <1>3
  <1>5. Holds(set)'
    BY <1>1 DEF Holds
  <1>6. QED
    BY <1>1, <1>4, <1>5 DEF LineRead, Holds

(* The word after the flags is the next unit: a command, an operand or the terminator. *)
LEMMA DispatchReads ==
    ASSUME LeavesRun, TInv, LineInv, Dispatch
    PROVE  LineInv'
  <1> DEFINE U == world.units
             ends == d.rest # <<>> /\ d.rest[1] = "--"
             rest == IF ends THEN Tail(d.rest) ELSE d.rest
             stays == rest = <<>> \/ Terminated(IF ends THEN "--" ELSE d.last)
             word == rest[1]
  <1>1. /\ pc = "parse" /\ d.rest \in WordSeq /\ Shape /\ IsWorld(world) /\ world' = world
        /\ d.rest = <<>> \/ d.rest[1] \notin DOMAIN Syntax
    BY DEF TInv, Dispatch, AtFlag, Shape
  <1>2. \/ pc' = "done"
        \/ ~d.version /\ d' = [d EXCEPT !.rest = rest] /\ Go("chosen") /\ (stays \/ ~findCommand(d.path, word))
        \/ /\ ~d.version /\ ~stays /\ findCommand(d.path, word) /\ Go("parse")
           /\ d' = [d EXCEPT !.path = Append(@, word), !.rest = Tail(rest), !.last = None]
    <2> HIDE DEF rest, ends, word, stays
    <2>1. \A code : Exit(code, {}) => pc' = "done"
      BY DEF Exit
    <2>2. QED
      BY <2>1, Zenon DEF Dispatch, rest, ends, word, stays
  <1>3. CASE pc' = "done"
    BY <1>3 DEF LineInv
  <1>4. ASSUME ~d.version PROVE \E k, set : k \in 0..Len(U) /\ ReadTo(k, set)
    BY <1>1, <1>4 DEF LineInv
  <1>5. CASE /\ ~d.version /\ d' = [d EXCEPT !.rest = rest] /\ Go("chosen")
             /\ stays \/ ~findCommand(d.path, word)
    <2>1. PICK k, set : k \in 0..Len(U) /\ ReadTo(k, set)
      BY <1>4, <1>5
    <2>2. /\ LineAt(U)[k] = Reading(d.path, set) /\ Words(U) = Then(WordsAt(U)[k], d.rest) /\ Holds(set)
      BY <2>1 DEF ReadTo
    <2>3. pc' = "chosen" /\ d'.path = d.path
      BY <1>1, <1>5 DEF Go, Shape
    <2>4. SUFFICES ASSUME d.path \in Runs
                   PROVE  \E o : ReadLine(U) = [path |-> d.path, set |-> set, operands |-> rest, open |-> o]
      <3>1. SUFFICES ASSUME d.path \in Runs PROVE LineRead'
        BY <2>3 DEF LineInv
      <3>2. PICK o, r : r = rest /\ ReadLine(U) = [path |-> d.path, set |-> set, operands |-> r, open |-> o]
        BY <2>4, <3>1
      <3> HIDE DEF rest
      <3>3. d' = [d EXCEPT !.rest = r]
        BY <1>5, <3>2
      <3>4. QED
        BY <1>1, <2>2, <3>2, <3>3, ChosenIsRead
    <2>5. Spoken(U) /\ Len(U) \in Nat
      <3>1. Spoken(U)
        BY <1>1, WorldSpeaks
      <3>2. QED
        BY <3>1, LenProperties DEF Spoken
    <2>6. CASE d.rest = <<>>
      <3>1. k = Len(U)
        BY <1>1, <2>1, <2>2, <2>6, NoneLeft
      <3>2. ReadLine(U) = LineAt(U)[k]
        BY <2>5, <3>1, ReadingUnfolds
      <3>3. rest = <<>>
        BY <2>6
      <3>4. QED
        BY <2>2, <3>2, <3>3 DEF Reading
    <2>7. CASE d.rest # <<>>
      <3> DEFINE u == U[k + 1]
      <3>1. /\ k + 1 \in 1..Len(U) /\ SaysWhatItIs(u, k + 1 = Len(U))
            /\ LineAt(U)[k + 1] = ReadUnit(LineAt(U)[k], u)
            /\ \E t : NextIs(U, k + 1, d.rest, t) /\ (k + 1 = Len(U) => t = <<>>)
        BY <1>1, <2>1, <2>2, <2>7, NextUnit
      <3>2. PICK t : NextIs(U, k + 1, d.rest, t)
        BY <3>1
      <3>3. /\ u.words[1] = d.rest[1] /\ u.words \in WordSeq /\ t \in WordSeq
            /\ Words(U) = Then(WordsAt(U)[k + 1], t)
            /\ Len(u.words) = 1 => Tail(d.rest) = t
        BY <3>2 DEF NextIs
      <3>4. ~SaysSet(u)
        BY <1>1, <2>7, <3>3 DEF SaysSet
      <3>5. /\ WordsAt(U)[k + 1] \in WordSeq /\ WordsAt(U)[k] \in WordSeq
            /\ WordsAt(U)[k + 1] = Then(WordsAt(U)[k], u.words)
        <4>1. k + 1 - 1 = k /\ k + 1 \in 0..Len(U)
          BY <2>1, <2>5, <3>1
        <4>2. QED
          BY <2>1, <2>5, <3>1, <4>1, WordsAdd
      <3>6. k + 1 \in 0..Len(U)
        BY <2>1, <2>5, <3>1
      <3>7. CASE d.rest[1] = "--"
        <4>1. u.is = "end" /\ u.words = <<"--">>
          BY <3>1, <3>3, <3>4, <3>7 DEF SaysWhatItIs, SaysWord
        <4>2. LineAt(U)[k + 1] = [path |-> d.path, set |-> set, operands |-> <<>>, open |-> FALSE]
          <5>1. ReadUnit(Reading(d.path, set), u) = [path |-> d.path, set |-> set, operands |-> <<>>, open |-> FALSE]
            <6> HIDE DEF u
            <6>1. QED
              BY <4>1 DEF ReadUnit, Reading
          <5>2. QED
            BY <2>2, <3>1, <5>1
        <4>3. Len(u.words) = 1
          BY <4>1
        <4>4. rest = t
          BY <2>7, <3>3, <3>7, <4>3
        <4>5. <<>> \in WordSeq /\ WordsAt(U)[k + 1] = Then(WordsAt(U)[k + 1], <<>>)
          BY <3>5, CatEmpty, Zenon
        <4>6. ReadLine(U) = [path |-> d.path, set |-> set, operands |-> t, open |-> FALSE]
          BY <1>1, <3>3, <3>5, <3>6, <4>2, <4>5, AfterClosed
        <4>7. QED
          BY <4>4, <4>6
      <3>8. CASE d.rest[1] # "--"
        <4>1. u.is = "word" /\ Len(u.words) = 1
          <5>1. <<"--">>[1] = "--"
            OBVIOUS
          <5>2. QED
            BY <3>1, <3>3, <3>4, <3>8, <5>1 DEF SaysWhatItIs, SaysWord
        <4>2. rest = d.rest /\ d.rest[1] \in STRING
          BY <1>1, <2>7, <3>8, TailOfWords
        <4>3. ~findCommand(d.path, u.words[1])
          BY <2>4, <3>3, <4>2, RunsAreLeaves
        <4>4. LineAt(U)[k + 1] = [path |-> d.path, set |-> set, operands |-> u.words, open |-> FALSE]
          <5>1. Then(<<>>, u.words) = u.words
            BY <3>3, CatEmpty, Zenon
          <5>2. ReadUnit(Reading(d.path, set), u)
                = [path |-> d.path, set |-> set, operands |-> Then(<<>>, u.words), open |-> FALSE]
            <6> HIDE DEF u
            <6>1. QED
              BY <4>1, <4>3 DEF ReadUnit, Reading, Then
          <5>3. QED
            BY <2>2, <3>1, <5>1, <5>2
        <4>5. ReadLine(U) = [path |-> d.path, set |-> set, operands |-> d.rest, open |-> FALSE]
          <5>1. PICK a, o, r, m : a = WordsAt(U)[k] /\ o = u.words /\ r = d.rest /\ m = k + 1
            OBVIOUS
          <5> HIDE DEF u
          <5>2. /\ LineAt(U)[m] = [path |-> d.path, set |-> set, operands |-> o, open |-> FALSE]
                /\ WordsAt(U)[m] = Then(a, o) /\ Words(U) = Then(a, r) /\ m \in 0..Len(U)
                /\ a \in WordSeq /\ o \in WordSeq /\ r \in WordSeq
            BY <1>1, <2>2, <3>3, <3>5, <3>6, <4>4, <5>1
          <5>3. ReadLine(U) = [path |-> d.path, set |-> set, operands |-> r, open |-> FALSE]
            BY <1>1, <5>2, AfterClosed
          <5>4. QED
            BY <5>1, <5>3
        <4>6. QED
          BY <4>2, <4>5
      <3>9. QED
        BY <3>7, <3>8
    <2>8. QED
      BY <2>6, <2>7
  <1>6. CASE /\ ~d.version /\ ~stays /\ findCommand(d.path, word) /\ Go("parse")
             /\ d' = [d EXCEPT !.path = Append(@, word), !.rest = Tail(rest), !.last = None]
    <2>1. PICK k, set : k \in 0..Len(U) /\ ReadTo(k, set)
      BY <1>4, <1>6
    <2>2. /\ LineAt(U)[k] = Reading(d.path, set) /\ Words(U) = Then(WordsAt(U)[k], d.rest) /\ Holds(set)
      BY <2>1 DEF ReadTo
    <2>3. ~ends /\ rest = d.rest /\ d.rest # <<>> /\ d.rest[1] # "--"
      BY <1>6 DEF Terminated
    <2> DEFINE u == U[k + 1]
    <2>4. /\ k + 1 \in 1..Len(U) /\ SaysWhatItIs(u, k + 1 = Len(U))
          /\ LineAt(U)[k + 1] = ReadUnit(LineAt(U)[k], u)
          /\ \E t : NextIs(U, k + 1, d.rest, t) /\ (k + 1 = Len(U) => t = <<>>)
      BY <1>1, <2>1, <2>2, <2>3, NextUnit
    <2>5. PICK t : NextIs(U, k + 1, d.rest, t)
      BY <2>4
    <2>6. /\ u.words[1] = d.rest[1] /\ u.words \in WordSeq
          /\ Words(U) = Then(WordsAt(U)[k + 1], t)
          /\ Len(u.words) = 1 => Tail(d.rest) = t
      BY <2>5 DEF NextIs
    <2>7. u.is = "word" /\ Len(u.words) = 1
      <3>1. <<"--">>[1] = "--"
        OBVIOUS
      <3>2. ~SaysSet(u)
        BY <1>1, <2>3, <2>6 DEF SaysSet
      <3>3. QED
        BY <2>3, <2>4, <2>6, <3>1, <3>2 DEF SaysWhatItIs, SaysWord
    <2>8. findCommand(d.path, d.rest[1])
      BY <1>6, <2>3
    <2> HIDE DEF rest, word, ends, stays
    <2>9. d' = [d EXCEPT !.path = Append(@, d.rest[1]), !.rest = t, !.last = None]
      <3>1. word = d.rest[1] /\ Tail(rest) = t
        BY <2>3, <2>6, <2>7 DEF word
      <3>2. QED
        BY <1>6, <3>1
    <2>10. /\ d'.path = Append(d.path, d.rest[1]) /\ d'.rest = t /\ d'.explicit = d.explicit /\ d'.vals = d.vals
      BY <1>1, <2>9 DEF Shape
    <2>11. Holds(set)'
      BY <2>2, <2>10 DEF Holds
    <2>12. LineAt(U)[k + 1] = Reading(d'.path, set)
      <3>1. ReadUnit(Reading(d.path, set), u) = Reading(Append(d.path, d.rest[1]), set)
        <4> HIDE DEF u
        <4>1. QED
          BY <2>6, <2>7, <2>8 DEF ReadUnit, Reading
      <3>2. QED
        BY <2>2, <2>4, <2>10, <3>1
    <2>13. ReadTo(k + 1, set)'
      <3> HIDE DEF u
      <3>1. LineAt(U')[k + 1] = Reading(d'.path, set)
        BY <1>1, <2>12
      <3>2. Words(U') = Then(WordsAt(U')[k + 1], d'.rest)
        BY <1>1, <2>6, <2>10
      <3>3. QED
        BY <2>11, <3>1, <3>2 DEF ReadTo
    <2>14. k + 1 \in 0..Len(U) /\ pc' = "parse"
      BY <1>6, <2>4 DEF Go
    <2>15. QED
      BY <1>1, <2>13, <2>14 DEF LineInv
  <1>7. QED
    BY <1>2, <1>3, <1>5, <1>6

-----------------------------------------------------------------------------
(***************************************************************************)
(* The environment is the process's own, over the dotenv file's, of which  *)
(* the first line for a key counts.                                        *)
(***************************************************************************)
KeysTo(n) == {world.dotenv[k].key : k \in {k \in 1..n : world.dotenv[k].is = "pair"}}
EnvIs(n) ==
    /\ DOMAIN env = DOMAIN world.env \cup KeysTo(n)
    /\ \A x \in DOMAIN env : env[x] = RefEnv[x]
    /\ \A k \in 1..n : world.dotenv[k].is # "bad"

EnvInv ==
    /\ pc = "dotenv" => line \in 1..(Len(world.dotenv) + 1) /\ EnvIs(line - 1)
    /\ pc \notin {"dotenv", "done"} => EnvIs(Len(world.dotenv))

LEMMA MinIs == ASSUME NEW S \in SUBSET Nat, NEW m \in S, \A x \in S : m <= x PROVE Min(S) = m
  <1>1. \E x \in S : \A y \in S : x <= y
    OBVIOUS
  <1>2. Min(S) \in S /\ \A y \in S : Min(S) <= y
    BY <1>1 DEF Min
  <1>3. PICK x : x = Min(S)
    OBVIOUS
  <1>4. x \in Nat /\ m \in Nat /\ x <= m /\ m <= x
    BY <1>2, <1>3
  <1>5. QED
    BY <1>3, <1>4

LEMMA DotEnvLines == TInv => Len(world.dotenv) \in Nat /\ DOMAIN world.dotenv = 1..Len(world.dotenv)
  BY LenProperties, Zenon DEF TInv, IsWorld

(* What the process had wins, then the first line of the dotenv file that names the key. *)
LEMMA RefEnvIs ==
    ASSUME TInv
    PROVE  /\ DOMAIN RefEnv = DOMAIN world.env \cup KeysTo(Len(world.dotenv))
           /\ \A x \in DOMAIN world.env : RefEnv[x] = world.env[x]
           /\ \A k \in 1..Len(world.dotenv) :
                /\ world.dotenv[k].is = "pair" /\ world.dotenv[k].key \notin DOMAIN world.env
                /\ \A j \in 1..(k - 1) : world.dotenv[j].is = "pair" => world.dotenv[j].key # world.dotenv[k].key
                => RefEnv[world.dotenv[k].key] = world.dotenv[k].value
  <1> DEFINE lines == world.dotenv
             n == Len(lines)
             pairs == {k \in DOMAIN lines : lines[k].is = "pair"}
             first(key) == Min({k \in pairs : lines[k].key = key})
             under == [key \in {lines[k].key : k \in pairs} |-> lines[first(key)].value]
  <1>1. n \in Nat /\ DOMAIN lines = 1..n
    BY DotEnvLines
  <1>2. {lines[k].key : k \in pairs} = KeysTo(n)
    BY <1>1 DEF KeysTo
  <1>3. RefEnv = Over(world.env, under)
    BY DEF RefEnv, UnderEnv
  <1>4. DOMAIN under = KeysTo(n) /\ \A x \in KeysTo(n) : under[x] = lines[first(x)].value
    BY <1>2
  <1>5. \A x \in KeysTo(n) : x \notin DOMAIN world.env => RefEnv[x] = lines[first(x)].value
    <2> HIDE DEF under, first
    <2>1. QED
      BY <1>3, <1>4 DEF Over
  <1>6. ASSUME NEW k \in 1..n, lines[k].is = "pair", lines[k].key \notin DOMAIN world.env,
               \A j \in 1..(k - 1) : lines[j].is = "pair" => lines[j].key # lines[k].key
        PROVE  RefEnv[lines[k].key] = lines[k].value
    <2> DEFINE S == {j \in pairs : lines[j].key = lines[k].key}
    <2>1. S \in SUBSET Nat /\ k \in S
      BY <1>1, <1>6
    <2>2. \A x \in S : k <= x
      <3> SUFFICES ASSUME NEW x \in S, ~(k <= x) PROVE FALSE
        OBVIOUS
      <3>1. x \in 1..(k - 1)
        BY <1>1
      <3>2. QED
        BY <1>6, <3>1
    <2>3. first(lines[k].key) = k
      <3>1. Min(S) = k
        <4> HIDE DEF S
        <4>1. QED
          BY <2>1, <2>2, MinIs
      <3>2. QED
        BY <3>1
    <2>4. lines[k].key \in KeysTo(n)
      BY <1>6 DEF KeysTo
    <2> HIDE DEF first
    <2>5. QED
      BY <1>5, <1>6, <2>3, <2>4
  <1>7. DOMAIN RefEnv = DOMAIN world.env \cup KeysTo(n) /\ \A x \in DOMAIN world.env : RefEnv[x] = world.env[x]
    <2> HIDE DEF under
    <2>1. QED
      BY <1>3, <1>4 DEF Over
  <1>8. QED
    BY <1>6, <1>7

LEMMA DotEnvStep ==
    ASSUME TInv, EnvInv, LoadDotEnv
    PROVE  EnvInv'
  <1> DEFINE n == Len(world.dotenv)
             l == world.dotenv[line]
  <1>1. /\ pc = "dotenv" /\ line \in 1..n /\ n \in Nat /\ EnvIs(line - 1)
        /\ world' = world /\ line' = line + 1
    <2>1. pc = "dotenv" /\ line <= n /\ world' = world /\ line' = line + 1
      BY DEF LoadDotEnv
    <2>2. QED
      BY <2>1, DotEnvLines DEF EnvInv
  <1>2. RefEnv' = RefEnv
    BY <1>1 DEF RefEnv
  <1>3. line' - 1 = line /\ line' \in 1..(n + 1)
    BY <1>1
  <1>4. KeysTo(line) = KeysTo(line - 1) \cup (IF l.is = "pair" THEN {l.key} ELSE {})
    <2>1. 1..line = 1..(line - 1) \cup {line}
      BY <1>1
    <2>2. QED
      BY <2>1 DEF KeysTo
  <1>5. CASE pc' = "done"
    BY <1>5 DEF EnvInv
  <1>6. ASSUME pc' = "dotenv", l.is # "bad", DOMAIN env' = DOMAIN world.env \cup KeysTo(line),
               \A x \in DOMAIN env' : env'[x] = RefEnv[x]
        PROVE  EnvInv'
    <2>1. \A k \in 1..line : world.dotenv[k].is # "bad"
      <3> SUFFICES ASSUME NEW k \in 1..line PROVE world.dotenv[k].is # "bad"
        OBVIOUS
      <3>1. k = line \/ k \in 1..(line - 1)
        BY <1>1
      <3>2. QED
        BY <1>1, <1>6, <3>1 DEF EnvIs
    <2>2. KeysTo(line)' = KeysTo(line') /\ KeysTo(line') = {world.dotenv[k].key : k \in {k \in 1..line' : world.dotenv[k].is = "pair"}}
      BY <1>1 DEF KeysTo
    <2>3. EnvIs(line - 1)'
      BY <1>1, <1>2, <1>3, <1>6, <2>1 DEF EnvIs, KeysTo
    <2>4. QED
      BY <1>1, <1>3, <1>6, <2>3 DEF EnvInv
  <1>7. CASE l.is = "blank" /\ UNCHANGED env /\ Go("dotenv")
    BY <1>1, <1>4, <1>6, <1>7 DEF Go, EnvIs
  <1>8. CASE l.is = "pair" /\ KeepsEnv(l.key) /\ UNCHANGED env /\ Go("dotenv")
    BY <1>1, <1>4, <1>6, <1>8 DEF Go, EnvIs, KeepsEnv
  <1>9. CASE l.is = "pair" /\ ~KeepsEnv(l.key) /\ env' = Over(Just(l.key, l.value), env) /\ Go("dotenv")
    <2>1. DOMAIN env' = DOMAIN env \cup {l.key} /\ \A x \in DOMAIN env' : env'[x] = IF x = l.key THEN l.value ELSE env[x]
      BY <1>9 DEF Over, Just
    <2>2. l.key \notin DOMAIN world.env /\ l.key \notin KeysTo(line - 1)
      BY <1>1, <1>9 DEF EnvIs, KeepsEnv
    <2>3. RefEnv[l.key] = l.value
      <3>1. \A j \in 1..(line - 1) : world.dotenv[j].is = "pair" => world.dotenv[j].key # l.key
        BY <2>2 DEF KeysTo
      <3>2. QED
        BY <1>1, <1>9, <2>2, <3>1, RefEnvIs
    <2>4. DOMAIN env' = DOMAIN world.env \cup KeysTo(line)
      BY <1>1, <1>4, <1>9, <2>1 DEF EnvIs
    <2>5. \A x \in DOMAIN env' : env'[x] = RefEnv[x]
      BY <1>1, <2>1, <2>3 DEF EnvIs
    <2>6. pc' = "dotenv" /\ l.is # "bad"
      BY <1>9 DEF Go
    <2>7. QED
      BY <1>6, <2>4, <2>5, <2>6
  <1>10. QED
    BY <1>5, <1>7, <1>8, <1>9 DEF LoadDotEnv, Exit

LEMMA EnvStep ==
    ASSUME TInv, EnvInv, Execute \/ (pc # "dotenv" /\ UNCHANGED <<world, env, line>> /\ pc' # "dotenv"),
           pc = "done" => pc' = "done"
    PROVE  EnvInv'
  <1> DEFINE n == Len(world.dotenv)
  <1>1. UNCHANGED <<world, env>> /\ RefEnv' = RefEnv
    BY DEF Execute, RefEnv
  <1>2. pc # "done" => EnvIs(n)
    <2>1. CASE Execute
      <3>1. line - 1 = n
        BY <2>1, DotEnvLines DEF Execute, EnvInv
      <3>2. pc = "dotenv"
        BY <2>1 DEF Execute
      <3>3. QED
        BY <3>1, <3>2 DEF EnvInv
    <2>2. QED
      BY <2>1 DEF EnvInv
  <1>3. EnvIs(n) => EnvIs(n)'
    BY <1>1 DEF EnvIs, KeysTo
  <1>4. pc' # "dotenv"
    BY DEF Execute, Go
  <1>5. QED
    BY <1>2, <1>3, <1>4 DEF EnvInv

-----------------------------------------------------------------------------
(***************************************************************************)
(* The layers: what each flag holds once the environment, and once the     *)
(* config file, is applied.                                                *)
(***************************************************************************)
Both(f) == {envName(f), envFile(f)} \subseteq DOMAIN RefEnv

LineKept ==
    /\ d.path \in Runs /\ d.path = RefLine.path
    /\ d.rest = RefLine.operands /\ d.explicit = DOMAIN RefLine.set

EnvLayer ==
    \A f \in visible(d.path) :
        /\ d.vals[f] = RefValue(f, <<>>)
        /\ f \in d.explicit \cup d.fromEnv <=> RefLayer(f, <<>>) # "default"
        /\ f \in DOMAIN RefLine.set \/ ~Both(f)

ConfigRead ==
    /\ DOMAIN d.config = DOMAIN RefConfig
    /\ \A f \in DOMAIN RefConfig : d.config[f] = RefConfig[f].text
    /\ ConfigFlag \notin DOMAIN RefConfig
    /\ RefLayer(ConfigFlag, <<>>) # "default" => ConfigPath \in DOMAIN world.files \cup {""}

ConfigLayer ==
    \A f \in visible(d.path) :
        /\ d.vals[f] = RefValue(f, RefConfig)
        /\ f \in Supplied <=> RefLayer(f, RefConfig) # "default"
        /\ f \in DOMAIN RefLine.set \/ ~Both(f)

LayerInv ==
    /\ pc \in {"env", "config", "apply", "required"} \/ Started => LineKept
    /\ pc = "env" => Holds(RefLine.set)
    /\ pc \in {"config", "apply"} => EnvLayer
    /\ pc \in {"apply", "required"} \/ Started => ConfigRead
    /\ pc = "required" \/ Started => ConfigLayer
    /\ Started => visible(d.path) \cap RequiredFlags \subseteq Supplied

(* A value is that of the first layer that has one. *)
LEMMA LayersAre ==
    ASSUME NEW f, NEW conf
    PROVE  /\ f \in DOMAIN RefLine.set =>
                RefLayer(f, conf) # "default" /\ RefValue(f, conf) = RefLine.set[f]
           /\ f \notin DOMAIN RefLine.set /\ envName(f) \in DOMAIN RefEnv =>
                RefLayer(f, conf) # "default" /\ RefValue(f, conf) = RefEnv[envName(f)]
           /\ f \notin DOMAIN RefLine.set /\ envName(f) \notin DOMAIN RefEnv /\ envFile(f) \in DOMAIN RefEnv =>
                RefLayer(f, conf) # "default" /\ RefValue(f, conf) = world.files[RefEnv[envFile(f)]].text
           /\ f \notin DOMAIN RefLine.set /\ envName(f) \notin DOMAIN RefEnv /\ envFile(f) \notin DOMAIN RefEnv =>
                IF f \in DOMAIN conf THEN RefLayer(f, conf) # "default" /\ RefValue(f, conf) = conf[f].text
                ELSE RefLayer(f, conf) = "default" /\ RefValue(f, conf) = Default[f]
  <1>1. \/ f \in DOMAIN RefLine.set /\ RefLayer(f, conf) = "flag"
        \/ f \notin DOMAIN RefLine.set /\ envName(f) \in DOMAIN RefEnv /\ RefLayer(f, conf) = "env"
        \/ /\ f \notin DOMAIN RefLine.set /\ envName(f) \notin DOMAIN RefEnv /\ envFile(f) \in DOMAIN RefEnv
           /\ RefLayer(f, conf) = "file"
        \/ /\ f \notin DOMAIN RefLine.set /\ envName(f) \notin DOMAIN RefEnv /\ envFile(f) \notin DOMAIN RefEnv
           /\ RefLayer(f, conf) = IF f \in DOMAIN conf THEN "config" ELSE "default"
    BY DEF RefLayer
  <1>2. /\ RefLayer(f, conf) = "flag" => RefValue(f, conf) = RefLine.set[f]
        /\ RefLayer(f, conf) = "env" => RefValue(f, conf) = RefEnv[envName(f)]
        /\ RefLayer(f, conf) = "file" => RefValue(f, conf) = world.files[RefEnv[envFile(f)]].text
        /\ RefLayer(f, conf) = "config" => RefValue(f, conf) = conf[f].text
        /\ RefLayer(f, conf) = "default" => RefValue(f, conf) = Default[f]
    BY DEF RefValue
  <1>3. QED
    BY <1>1, <1>2

(* What a flag that may run takes from the environment. *)
LEMMA EnvLooksUp ==
    ASSUME NEW f, setFromEnv(f).ok
    PROVE  /\ ~(envName(f) \in DOMAIN env /\ envFile(f) \in DOMAIN env)
           /\ envName(f) \in DOMAIN env =>
                setFromEnv(f).set /\ setFromEnv(f).value = env[envName(f)]
           /\ envName(f) \notin DOMAIN env /\ envFile(f) \in DOMAIN env =>
                setFromEnv(f).set /\ setFromEnv(f).value = world.files[env[envFile(f)]].text
           /\ envName(f) \notin DOMAIN env /\ envFile(f) \notin DOMAIN env => ~setFromEnv(f).set
  BY DEF setFromEnv

LEMMA RefKept ==
    ASSUME world' = world
    PROVE  /\ RefLine' = RefLine /\ RefEnv' = RefEnv /\ ConfigPath' = ConfigPath /\ RefConfig' = RefConfig
           /\ \A f, conf : RefLayer(f, conf)' = RefLayer(f, conf) /\ RefValue(f, conf)' = RefValue(f, conf)
  <1>1. RefLine' = RefLine /\ RefEnv' = RefEnv
    BY DEF RefLine, RefEnv
  <1>2. \A f, conf : RefLayer(f, conf)' = RefLayer(f, conf)
    BY <1>1 DEF RefLayer, envName, envFile
  <1>3. \A f, conf : RefValue(f, conf)' = RefValue(f, conf)
    BY <1>1, <1>2, Zenon DEF RefValue, envName, envFile
  <1>4. ConfigPath' = ConfigPath
    BY <1>3 DEF ConfigPath
  <1>5. RefConfig' = RefConfig
    BY <1>4 DEF RefConfig
  <1>6. QED
    BY <1>1, <1>2, <1>3, <1>4, <1>5

LEMMA EnvApplied ==
    ASSUME TInv, LayerInv, EnvInv, ResolveEnv
    PROVE  LayerInv'
  <1> DEFINE left == visible(d.path) \ d.explicit
             got == [f \in left |-> setFromEnv(f)]
             set == {f \in left : got[f].set}
             new == [f \in set |-> got[f].value]
  <1>1. /\ pc = "env" /\ LineKept /\ Holds(RefLine.set) /\ world' = world /\ Shape
        /\ visible(d.path) \subseteq Flags /\ d.explicit = DOMAIN RefLine.set
    BY VisibleIsDeclared DEF TInv, TypeOK, CliTypeOK, ResolveEnv, LayerInv, LineKept
  <1>2. DOMAIN env = DOMAIN RefEnv /\ \A x \in DOMAIN RefEnv : env[x] = RefEnv[x]
    BY <1>1, RefEnvIs DEF EnvInv, EnvIs
  <1>3. CASE \E f \in left : Exit(2, got[f].said)
    BY <1>3 DEF Exit, LayerInv, Started
  <1>4. CASE /\ \A f \in left : got[f].ok
             /\ d' = [d EXCEPT !.vals = Over(new, @), !.fromEnv = set] /\ Go("config")
    <2>1. /\ d'.path = d.path /\ d'.rest = d.rest /\ d'.explicit = d.explicit
          /\ d'.fromEnv = set /\ d'.vals = Over(new, d.vals) /\ pc' = "config"
      BY <1>1, <1>4 DEF Shape, Go
    <2>2. DOMAIN new = set /\ \A f \in set : new[f] = setFromEnv(f).value
      OBVIOUS
    <2>3. \A f \in left : setFromEnv(f).ok /\ (f \in set <=> setFromEnv(f).set)
      BY <1>4
    <2>4. left = visible(d.path) \ DOMAIN RefLine.set /\ set \subseteq left
      BY <1>1
    <2> HIDE DEF left, got, set, new
    <2>5. \A f \in Flags : d'.vals[f] = IF f \in set THEN new[f] ELSE d.vals[f]
      <3>1. DOMAIN d.vals = Flags
        BY <1>1 DEF Shape
      <3>2. QED
        BY <2>1, <2>2, <3>1 DEF Over
    <2>6. ASSUME NEW f \in visible(d.path)
          PROVE  /\ d'.vals[f] = RefValue(f, <<>>)
                 /\ f \in d.explicit \cup set <=> RefLayer(f, <<>>) # "default"
                 /\ f \in DOMAIN RefLine.set \/ ~Both(f)
      <3>1. f \in Flags /\ DOMAIN <<>> = {}
        BY <1>1
      <3>2. CASE f \in DOMAIN RefLine.set
        <4>1. f \notin set /\ d'.vals[f] = RefLine.set[f] /\ f \in d.explicit
          BY <1>1, <2>4, <2>5, <3>1, <3>2 DEF Holds
        <4>2. RefLayer(f, <<>>) # "default" /\ RefValue(f, <<>>) = RefLine.set[f]
          BY <3>2, LayersAre
        <4>3. QED
          BY <3>2, <4>1, <4>2
      <3>3. CASE f \notin DOMAIN RefLine.set
        <4>1. f \in left /\ f \notin d.explicit /\ d.vals[f] = Default[f]
          BY <1>1, <2>4, <3>1, <3>3 DEF Holds
        <4>2. setFromEnv(f).ok /\ (f \in set <=> setFromEnv(f).set)
          BY <2>3, <4>1
        <4>3. ~Both(f)
          BY <1>2, <4>2, EnvLooksUp DEF Both
        <4>4. CASE envName(f) \in DOMAIN RefEnv
          <5>1. f \in set /\ new[f] = RefEnv[envName(f)]
            BY <1>2, <2>2, <4>2, <4>4, EnvLooksUp
          <5>2. RefLayer(f, <<>>) # "default" /\ RefValue(f, <<>>) = RefEnv[envName(f)]
            BY <3>3, <4>4, LayersAre
          <5>3. QED
            BY <2>5, <3>1, <4>3, <5>1, <5>2
        <4>5. CASE envName(f) \notin DOMAIN RefEnv /\ envFile(f) \in DOMAIN RefEnv
          <5>1. f \in set /\ new[f] = world.files[RefEnv[envFile(f)]].text
            BY <1>2, <2>2, <4>2, <4>5, EnvLooksUp
          <5>2. RefLayer(f, <<>>) # "default" /\ RefValue(f, <<>>) = world.files[RefEnv[envFile(f)]].text
            BY <3>3, <4>5, LayersAre
          <5>3. QED
            BY <2>5, <3>1, <4>3, <5>1, <5>2
        <4>6. CASE envName(f) \notin DOMAIN RefEnv /\ envFile(f) \notin DOMAIN RefEnv
          <5>1. f \notin set
            BY <1>2, <4>2, <4>6, EnvLooksUp
          <5>2. RefLayer(f, <<>>) = "default" /\ RefValue(f, <<>>) = Default[f]
            BY <3>1, <3>3, <4>6, LayersAre
          <5>3. QED
            BY <2>5, <3>1, <4>1, <4>3, <5>1, <5>2
        <4>7. QED
          BY <4>4, <4>5, <4>6
      <3>4. QED
        BY <3>2, <3>3
    <2>7. EnvLayer'
      <3>1. \A f : Both(f)' = Both(f)
        BY <1>1, RefKept DEF Both, envName, envFile
      <3>2. QED
        BY <1>1, <2>1, <2>6, <3>1, RefKept DEF EnvLayer
    <2>8. LineKept'
      BY <1>1, <2>1, RefKept DEF LineKept
    <2>9. QED
      BY <2>1, <2>7, <2>8 DEF LayerInv, Started
  <1>5. QED
    BY <1>3, <1>4 DEF ResolveEnv

LEMMA ConfigFlagVisible == \A p \in Tree : ConfigFlag \in visible(p)
  <1> SUFFICES ASSUME NEW p \in Tree PROVE ConfigFlag \in visible(p)
    OBVIOUS
  <1>1. p \in Seq(STRING)
    BY TreeAssumption
  <1>2. Len(p) \in Nat
    BY <1>1, LenProperties, Zenon
  <1>3. SubSeq(p, 1, 0) = <<>>
    OBVIOUS
  <1>4. 0 \in 0..Len(p)
    BY <1>2
  <1>5. ConfigFlag \in Declares[<<>>]
    BY TreeAssumption
  <1>6. ConfigFlag \in Declares[SubSeq(p, 1, 0)]
    BY <1>3, <1>5
  <1>7. QED
    BY <1>4, <1>6, Zenon DEF visible

(* The config file is the one the layers above it name; what it may not be, it is not. *)
LEMMA ConfigLoaded ==
    ASSUME TInv, LayerInv, LoadConfig
    PROVE  LayerInv'
  <1> DEFINE path == d.vals[ConfigFlag]
             missing == path \notin DOMAIN world.files
             file == world.files[path]
             decoded == decodeJSON(file)
  <1>1. /\ pc = "config" /\ LineKept /\ EnvLayer /\ world' = world /\ Shape /\ ConfigFlag \in visible(d.path)
        /\ "" \notin DOMAIN world.files
    BY ConfigFlagVisible, Zenon DEF TInv, TypeOK, CliTypeOK, LoadConfig, LayerInv, LineKept, IsWorld
  <1>2. path = ConfigPath /\ (ConfigFlag \in d.explicit \cup d.fromEnv <=> RefLayer(ConfigFlag, <<>>) # "default")
    BY <1>1, Zenon DEF EnvLayer, ConfigPath
  <1>3. \/ \E words : Exit(2, words)
        \/ (path = "" \/ (missing /\ MaySkip)) /\ d' = [d EXCEPT !.config = <<>>] /\ Go("apply")
        \/ /\ path # "" /\ ~missing /\ decoded.ok /\ ConfigFlag \notin DOMAIN decoded.values
           /\ d' = [d EXCEPT !.config = decoded.values] /\ Go("apply")
    BY Zenon DEF LoadConfig, Readable
  <1>4. CASE \E words : Exit(2, words)
    BY <1>4 DEF Exit, LayerInv, Started
  <1>5. ASSUME NEW v, d' = [d EXCEPT !.config = v], Go("apply"),
               DOMAIN v = DOMAIN RefConfig, \A f \in DOMAIN RefConfig : v[f] = RefConfig[f].text,
               ConfigFlag \notin DOMAIN RefConfig,
               RefLayer(ConfigFlag, <<>>) # "default" => ConfigPath \in DOMAIN world.files \cup {""}
        PROVE  LayerInv'
    <2>1. /\ d'.path = d.path /\ d'.rest = d.rest /\ d'.explicit = d.explicit /\ d'.fromEnv = d.fromEnv
          /\ d'.vals = d.vals /\ d'.config = v /\ pc' = "apply"
      BY <1>1, <1>5, Zenon DEF Shape, Go
    <2>2. ConfigRead'
      BY <1>1, <1>5, <2>1, RefKept, Zenon DEF ConfigRead
    <2>3. EnvLayer'
      <3>1. \A f : Both(f)' = Both(f)
        BY <1>1, RefKept, Zenon DEF Both, envName, envFile
      <3>2. QED
        BY <1>1, <2>1, <3>1, RefKept, Zenon DEF EnvLayer
    <2>4. LineKept'
      BY <1>1, <2>1, RefKept, Zenon DEF LineKept
    <2>5. QED
      BY <2>1, <2>2, <2>3, <2>4 DEF LayerInv, Started
  <1>6. CASE (path = "" \/ (missing /\ MaySkip)) /\ d' = [d EXCEPT !.config = <<>>] /\ Go("apply")
    <2>1. missing /\ RefConfig = <<>> /\ DOMAIN <<>> = {}
      <3>1. missing
        BY <1>1, <1>6, Zenon
      <3>2. RefConfig = <<>>
        BY <1>2, <3>1, Zenon DEF RefConfig
      <3>3. DOMAIN <<>> = {}
        OBVIOUS
      <3>4. QED
        BY <3>1, <3>2, <3>3
    <2>2. path = "" \/ RefLayer(ConfigFlag, <<>>) = "default"
      BY <1>2, <1>6, Zenon DEF MaySkip
    <2>3. QED
      BY <1>2, <1>5, <1>6, <2>1, <2>2, Zenon
  <1>7. CASE /\ path # "" /\ ~missing /\ decoded.ok /\ ConfigFlag \notin DOMAIN decoded.values
             /\ d' = [d EXCEPT !.config = decoded.values] /\ Go("apply")
    <2>1. RefConfig = file.pairs
      BY <1>2, <1>7, Zenon DEF RefConfig
    <2>2. decoded.values = [k \in DOMAIN file.pairs |-> file.pairs[k].text]
      BY <1>7, Zenon DEF decodeJSON
    <2>3. PICK v : v = decoded.values
      OBVIOUS
    <2>4. DOMAIN v = DOMAIN RefConfig /\ \A f \in DOMAIN RefConfig : v[f] = RefConfig[f].text
      BY <2>1, <2>2, <2>3, Zenon
    <2>5. ConfigFlag \notin DOMAIN RefConfig /\ d' = [d EXCEPT !.config = v] /\ Go("apply")
      BY <1>7, <2>3, <2>4, Zenon
    <2>6. ConfigPath \in DOMAIN world.files
      BY <1>2, <1>7, Zenon
    <2>7. QED
      BY <1>5, <2>4, <2>5, <2>6, Zenon
  <1>8. QED
    BY <1>3, <1>4, <1>6, <1>7, Zenon

LEMMA ConfigApplied ==
    ASSUME TInv, LayerInv, ApplyConfig
    PROVE  LayerInv'
  <1> DEFINE left == (visible(d.path) \ OverConfig) \cap DOMAIN d.config
             new == [f \in left |-> d.config[f]]
  <1>1. /\ pc = "apply" /\ LineKept /\ EnvLayer /\ ConfigRead /\ world' = world /\ Shape
        /\ visible(d.path) \subseteq Flags /\ d.explicit = DOMAIN RefLine.set
    BY VisibleIsDeclared DEF TInv, TypeOK, CliTypeOK, ApplyConfig, LayerInv, LineKept
  <1>2. CASE \E f : Exit(2, setValueError(f, d.config[f]))
    BY <1>2 DEF Exit, LayerInv, Started
  <1>3. CASE d' = [d EXCEPT !.vals = Over(new, @), !.fromConfig = left] /\ Go("required")
    <2>1. /\ d'.path = d.path /\ d'.rest = d.rest /\ d'.explicit = d.explicit /\ d'.fromEnv = d.fromEnv
          /\ d'.fromConfig = left /\ d'.vals = Over(new, d.vals) /\ d'.config = d.config /\ pc' = "required"
      BY <1>1, <1>3 DEF Shape, Go
    <2>2. DOMAIN new = left /\ \A f \in left : new[f] = d.config[f]
      OBVIOUS
    <2>3. /\ left \subseteq Flags
          /\ \A f \in visible(d.path) : f \in left <=> f \notin d.explicit \cup d.fromEnv /\ f \in DOMAIN RefConfig
      BY <1>1, Zenon DEF OverConfig, ConfigRead
    <2> HIDE DEF left, new
    <2>4. \A f \in Flags : d'.vals[f] = IF f \in left THEN new[f] ELSE d.vals[f]
      <3>1. DOMAIN d.vals = Flags
        BY <1>1 DEF Shape
      <3>2. QED
        BY <2>1, <2>2, <3>1 DEF Over
    <2>5. ASSUME NEW f \in visible(d.path)
          PROVE  /\ d'.vals[f] = RefValue(f, RefConfig)
                 /\ f \in d.explicit \cup d.fromEnv \cup left <=> RefLayer(f, RefConfig) # "default"
                 /\ f \in DOMAIN RefLine.set \/ ~Both(f)
      <3>1. /\ f \in Flags /\ DOMAIN <<>> = {}
            /\ d.vals[f] = RefValue(f, <<>>)
            /\ f \in d.explicit \cup d.fromEnv <=> RefLayer(f, <<>>) # "default"
            /\ f \in DOMAIN RefLine.set \/ ~Both(f)
        BY <1>1 DEF EnvLayer
      <3>2. CASE f \in d.explicit \cup d.fromEnv
        <4>1. RefLayer(f, <<>>) # "default"
          BY <3>1, <3>2
        <4>2. RefLayer(f, RefConfig) # "default" /\ RefValue(f, RefConfig) = RefValue(f, <<>>)
          BY <3>1, <4>1, LayersAre
        <4>3. f \notin left /\ d'.vals[f] = d.vals[f]
          BY <2>3, <2>4, <3>1, <3>2
        <4>4. QED
          BY <3>1, <3>2, <4>2, <4>3
      <3>3. CASE f \notin d.explicit \cup d.fromEnv
        <4>1. RefLayer(f, <<>>) = "default"
          BY <3>1, <3>3
        <4>2. /\ f \notin DOMAIN RefLine.set /\ envName(f) \notin DOMAIN RefEnv /\ envFile(f) \notin DOMAIN RefEnv
              /\ RefValue(f, <<>>) = Default[f]
          BY <3>1, <4>1, LayersAre
        <4>3. CASE f \in DOMAIN RefConfig
          <5>1. f \in left /\ new[f] = RefConfig[f].text
            BY <1>1, <2>2, <2>3, <3>3, <4>3, Zenon DEF ConfigRead
          <5>2. RefLayer(f, RefConfig) # "default" /\ RefValue(f, RefConfig) = RefConfig[f].text
            BY <4>2, <4>3, LayersAre
          <5>3. QED
            BY <2>4, <3>1, <5>1, <5>2
        <4>4. CASE f \notin DOMAIN RefConfig
          <5>1. f \notin left
            BY <2>3, <4>4
          <5>2. RefLayer(f, RefConfig) = "default" /\ RefValue(f, RefConfig) = Default[f]
            BY <4>2, <4>4, LayersAre
          <5>3. QED
            BY <2>4, <3>1, <3>3, <4>2, <5>1, <5>2
        <4>5. QED
          BY <4>3, <4>4
      <3>4. QED
        BY <3>2, <3>3
    <2>6. ConfigLayer'
      <3>1. \A f : Both(f)' = Both(f)
        BY <1>1, RefKept DEF Both, envName, envFile
      <3>2. QED
        BY <1>1, <2>1, <2>5, <3>1, RefKept DEF ConfigLayer, Supplied
    <2>7. ConfigRead'
      BY <1>1, <2>1, RefKept, Zenon DEF ConfigRead
    <2>8. LineKept'
      BY <1>1, <2>1, RefKept DEF LineKept
    <2>9. QED
      BY <2>1, <2>6, <2>7, <2>8 DEF LayerInv, Started
  <1>4. QED
    BY <1>2, <1>3 DEF ApplyConfig

(* After that, nothing changes what Run was given. *)
LEMMA LayersStay ==
    ASSUME LayerInv, UNCHANGED <<world, d>>,
           \/ pc = "chosen" /\ pc' = "env" /\ LineRead /\ d.path \in Runs
           \/ pc = "required" /\ pc' = "run" /\ visible(d.path) \cap RequiredFlags \subseteq Supplied
           \/ Started /\ (pc' \in {"migrate", "create", "half", "ran", "crashed", "done"})
           \/ pc' \in {"dotenv", "parse", "chosen", "done"}
           \/ pc' = pc
    PROVE  LayerInv'
  <1>1. /\ LineKept => LineKept'
        /\ EnvLayer => EnvLayer'
        /\ ConfigRead => ConfigRead'
        /\ ConfigLayer => ConfigLayer'
        /\ Holds(RefLine.set) => Holds(RefLine.set)'
    <2>1. \A f : Both(f)' = Both(f)
      BY RefKept DEF Both, envName, envFile
    <2>2. Holds(RefLine.set) => Holds(RefLine.set)'
      BY RefKept DEF Holds
    <2>3. (LineKept => LineKept') /\ (ConfigRead => ConfigRead')
      BY RefKept, Zenon DEF LineKept, ConfigRead
    <2>4. EnvLayer => EnvLayer'
      BY <2>1, RefKept DEF EnvLayer
    <2>5. ConfigLayer => ConfigLayer'
      BY <2>1, RefKept DEF ConfigLayer, Supplied
    <2>6. QED
      BY <2>2, <2>3, <2>4, <2>5
  <1>2. CASE pc = "chosen" /\ pc' = "env" /\ LineRead /\ d.path \in Runs
    <2>1. LineKept /\ Holds(RefLine.set)
      BY <1>2 DEF LineRead, LineKept, Holds
    <2>2. QED
      BY <1>1, <1>2, <2>1 DEF LayerInv, Started
  <1>3. CASE pc = "required" /\ pc' = "run" /\ visible(d.path) \cap RequiredFlags \subseteq Supplied
    BY <1>1, <1>3 DEF LayerInv, Started, Supplied
  <1>4. CASE Started /\ pc' \in {"migrate", "create", "half", "ran", "crashed", "done"}
    BY <1>1, <1>4 DEF LayerInv, Started, Supplied
  <1>5. CASE pc' \in {"dotenv", "parse", "chosen", "done"}
    BY <1>5 DEF LayerInv, Started
  <1>6. CASE pc' = pc
    BY <1>1, <1>6 DEF LayerInv, Started, Supplied
  <1>7. QED
    BY <1>2, <1>3, <1>4, <1>5, <1>6

(* The whole way from the command line to Run. *)
RunInv == TInv /\ LineInv /\ EnvInv /\ LayerInv

LEMMA RunInit == MInit => RunInv
  <1> SUFFICES ASSUME MInit PROVE RunInv
    OBVIOUS
  <1>1. TInv
    BY TypeInit
  <1>2. /\ pc = "dotenv" /\ line = 1 /\ env = world.env
        /\ d = [path |-> <<>>, rest |-> Words(world.units), last |-> None, vals |-> Default,
                explicit |-> {}, fromEnv |-> {}, fromConfig |-> {}, config |-> <<>>, version |-> FALSE]
    BY DEF MInit, Init
  <1>3. LineInv
    BY <1>2 DEF LineInv
  <1>4. EnvInv
    <2>1. line - 1 = 0 /\ 1..0 = {} /\ 1 \in 1..(Len(world.dotenv) + 1)
      BY <1>1, <1>2, DotEnvLines
    <2>2. KeysTo(0) = {}
      BY <2>1 DEF KeysTo
    <2>3. EnvIs(0)
      BY <1>1, <1>2, <2>1, <2>2, RefEnvIs DEF EnvIs
    <2>4. QED
      BY <1>2, <2>1, <2>3 DEF EnvInv
  <1>5. LayerInv
    BY <1>2 DEF LayerInv, Started
  <1>6. QED
    BY <1>1, <1>3, <1>4, <1>5 DEF RunInv

LEMMA ExecuteReads ==
    ASSUME TInv, LineInv, Execute
    PROVE  LineInv'
  <1> DEFINE U == world.units
  <1>1. /\ pc = "dotenv" /\ pc' = "parse" /\ UNCHANGED <<world, d>>
        /\ d.path = <<>> /\ d.rest = Words(U) /\ d.explicit = {} /\ d.vals = Default
    BY DEF Execute, Go, LineInv
  <1>2. Spoken(U) /\ Words(U) \in WordSeq /\ Len(U) \in Nat
    <2>1. Spoken(U) /\ Words(U) \in WordSeq
      BY WorldSpeaks DEF TInv
    <2>2. QED
      BY <2>1, LenProperties DEF Spoken
  <1>3. LineAt(U)[0] = Reading(<<>>, <<>>)
    BY <1>2, ReadingUnfolds DEF Reading, NothingRead
  <1>4. Words(U) = Then(WordsAt(U)[0], Words(U))
    <2>1. WordsAt(U)[0] = <<>>
      BY <1>2, WordsAdd
    <2>2. QED
      BY <1>2, <2>1, CatEmpty, Zenon
  <1>5. DOMAIN <<>> = {} /\ 0 \in 0..Len(U)
    BY <1>2
  <1>6. Holds(<<>>)
    BY <1>1, <1>5 DEF Holds
  <1>7. ReadTo(0, <<>>)
    BY <1>1, <1>3, <1>4, <1>6 DEF ReadTo
  <1>8. ReadTo(0, <<>>)'
    BY <1>1, <1>7 DEF ReadTo, Holds
  <1>9. QED
    BY <1>1, <1>5, <1>8 DEF LineInv

LEMMA RunStep ==
    ASSUME LeavesRun, RunInv, [Next]_allvars
    PROVE  RunInv'
  <1>t. TInv /\ LineInv /\ EnvInv /\ LayerInv /\ TInv'
    BY TypeStep DEF RunInv
  <1>1. ASSUME pc' \notin {"dotenv", "parse", "chosen"} PROVE LineInv'
    BY <1>1 DEF LineInv
  <1>2. ASSUME pc' \in {"dotenv", "parse", "chosen", "done"} PROVE LayerInv'
    BY <1>2 DEF LayerInv, Started
  <1>3. ASSUME pc \notin {"dotenv", "done"}, UNCHANGED <<world, env, line>>, pc' # "dotenv" PROVE EnvInv'
    BY <1>t, <1>3, EnvStep
  <1>4. CASE LoadDotEnv
    <2>1. pc = "dotenv" /\ pc' \in {"dotenv", "done"} /\ UNCHANGED <<world, d>>
      BY <1>4 DEF LoadDotEnv, Go, Exit
    <2>2. LineInv'
      BY <1>t, <2>1 DEF LineInv
    <2>3. EnvInv'
      BY <1>t, <1>4, DotEnvStep
    <2>4. QED
      BY <1>t, <1>2, <2>1, <2>2, <2>3 DEF RunInv
  <1>5. CASE Execute
    <2>1. pc = "dotenv" /\ pc' = "parse"
      BY <1>5 DEF Execute, Go
    <2>2. EnvInv'
      BY <1>t, <1>5, <2>1, EnvStep
    <2>3. LineInv'
      BY <1>t, <1>5, ExecuteReads
    <2>4. QED
      BY <1>t, <1>2, <2>1, <2>2, <2>3 DEF RunInv
  <1>6. CASE ParseFlag \/ Dispatch
    <2>1. pc = "parse" /\ UNCHANGED <<world, env, line>>
      BY <1>6 DEF ParseFlag, Dispatch
    <2>2. pc' \in {"parse", "chosen", "done"}
      BY <1>t, <1>6, ParseFlagType, DispatchType DEF Typed
    <2>3. LineInv'
      BY <1>t, <1>6, ParseReads, DispatchReads
    <2>4. QED
      BY <1>t, <1>2, <1>3, <2>1, <2>2, <2>3, SMTT(20) DEF RunInv
  <1>7. CASE Chosen
    <2>1. /\ pc = "chosen" /\ UNCHANGED <<world, env, line, d>>
          /\ pc' = "done" \/ (pc' = "env" /\ d.path \in Runs)
      BY <1>7 DEF Chosen, Go, Exit
    <2>2. LayerInv'
      BY <1>t, <2>1, LayersStay DEF LineInv
    <2>3. QED
      BY <1>t, <1>1, <1>3, <2>1, <2>2 DEF RunInv
  <1>8. CASE ResolveEnv \/ LoadConfig \/ ApplyConfig
    <2>1. pc \in {"env", "config", "apply"} /\ UNCHANGED <<world, env, line>>
      BY <1>8, Zenon DEF ResolveEnv, LoadConfig, ApplyConfig
    <2>2. pc' \in {"config", "apply", "required", "done"}
      BY <1>t, <1>8, ResolveEnvType, LoadConfigType, ApplyConfigType DEF Typed
    <2>3. LayerInv'
      BY <1>t, <1>8, EnvApplied, ConfigLoaded, ConfigApplied
    <2>4. QED
      BY <1>t, <1>1, <1>3, <2>1, <2>2, <2>3 DEF RunInv
  <1>9. CASE CheckRequired
    <2>1. /\ pc = "required" /\ UNCHANGED <<world, env, line, d>>
          /\ pc' = "done" \/ (pc' = "run" /\ visible(d.path) \cap RequiredFlags \subseteq Supplied)
      BY <1>9 DEF CheckRequired, Go, Exit
    <2>2. LayerInv'
      BY <1>t, <2>1, LayersStay
    <2>3. QED
      BY <1>t, <1>1, <1>3, <2>1, <2>2 DEF RunInv
  <1>10. CASE ServiceRuns \/ Open \/ Migrates \/ Returns \/ CreateStarts \/ CreateFirst \/ CreateSecond \/ Crash
    <2>1. /\ pc \in {"run", "migrate", "ran", "create", "half"} /\ UNCHANGED <<world, env, line, d>>
      BY <1>10 DEF ServiceRuns, Open, Migrates, Returns, CreateStarts, CreateFirst, CreateSecond, Crash
    <2>2. pc' \in {"migrate", "create", "half", "ran", "crashed", "done"}
      <3>1. CASE ServiceRuns \/ Open \/ Migrates \/ Returns
        BY <3>1, Zenon DEF ServiceRuns, Open, Migrates, Returns, Go, Exit
      <3>2. CASE CreateStarts \/ CreateFirst \/ CreateSecond \/ Crash
        BY <3>2, Zenon DEF CreateStarts, CreateFirst, CreateSecond, Crash, Go, Exit
      <3>3. QED
        BY <1>10, <3>1, <3>2
    <2>3. LayerInv'
      BY <1>t, <2>1, <2>2, LayersStay DEF Started
    <2>4. QED
      BY <1>t, <1>1, <1>3, <2>1, <2>2, <2>3 DEF RunInv
  <1>11. CASE UNCHANGED allvars
    <2>1. UNCHANGED <<world, env, line, pc, d>>
      BY <1>11 DEF allvars, vars
    <2>2. LayerInv'
      BY <1>t, <2>1, LayersStay
    <2>3. EnvInv'
      BY <1>t, <2>1, RefKept DEF EnvInv, EnvIs, KeysTo
    <2>4. LineInv'
      BY <1>t, <2>1, RefKept DEF LineInv, LineRead, ReadTo, Holds
    <2>5. QED
      BY <1>t, <2>2, <2>3, <2>4 DEF RunInv
  <1>12. QED
    BY <1>4, <1>5, <1>6, <1>7, <1>8, <1>9, <1>10, <1>11 DEF Next, Resolves, Terminated2

LEMMA RunInvHolds ==
    ASSUME LeavesRun
    PROVE  Spec => []RunInv
  <1>1. RunInv /\ [Next]_allvars => RunInv'
    BY RunStep
  <1>2. QED
    BY <1>1, RunInit, PTL DEF Spec

(* Run gets the command line, the flags and the operands as they were written, and of every flag the  *)
(* value of its first layer, for every line, environment, dotenv and config file and every tree in    *)
(* which no command hangs below one that runs (cli.go:64, dispatch.go:83).  Without that the words    *)
(* after a flag's value "--" go to the command above (cli.go:93).                                     *)
THEOREM InputsAreWhatWasWritten ==
    ASSUME LeavesRun
    PROVE  Spec => []InputsReachRun
  <1>1. RunInv => InputsReachRun
    BY DEF RunInv, LayerInv, LineKept, ConfigLayer, InputsReachRun, LineIsRead, LayersInOrder
  <1>2. QED
    BY <1>1, RunInvHolds, PTL

LEMMA RunIsClean == RunInv => OnlyCleanInputsRun
  <1> SUFFICES ASSUME RunInv, Started PROVE OnlyCleanInputsRun
    BY Zenon DEF OnlyCleanInputsRun
  <1>1. ConfigRead /\ ConfigLayer /\ visible(d.path) \cap RequiredFlags \subseteq Supplied
    BY DEF RunInv, LayerInv
  <1>2. \A k \in DOMAIN world.dotenv : world.dotenv[k].is # "bad"
    <2>1. pc \notin {"dotenv", "done"}
      BY DEF Started
    <2>2. QED
      BY <2>1, DotEnvLines DEF RunInv, EnvInv, EnvIs
  <1>3. \A f \in visible(d.path) \ DOMAIN RefLine.set : ~({envName(f), envFile(f)} \subseteq DOMAIN RefEnv)
    BY <1>1 DEF ConfigLayer, Both
  <1>4. \A f \in visible(d.path) \cap RequiredFlags : RefLayer(f, RefConfig) # "default"
    BY <1>1 DEF ConfigLayer
  <1>5. QED
    BY <1>1, <1>2, <1>3, <1>4, Zenon DEF OnlyCleanInputsRun, ConfigRead

(* What is ambiguous, broken or missing never reaches Run and no secret is in what is said of it, for *)
(* every input and every such tree (dispatch.go:83), where the config file's flag is no secret.       *)
THEOREM BadInputsStop ==
    ASSUME LeavesRun, ConfigFlag \notin SecretFlags
    PROVE  Spec => []FailsClosed
  <1>1. RunInv /\ SecretsUnsaid => FailsClosed
    BY RunIsClean DEF FailsClosed
  <1>2. QED
    BY <1>1, RunInvHolds, SecretsStayUnsaid, PTL

-----------------------------------------------------------------------------
(***************************************************************************)
(* What the Migrator is asked for.                                         *)
(***************************************************************************)
AskInv ==
    /\ pc \notin {"ran", "done"} => op = NoCall
    /\ pc = "migrate" => d.path \in MigrateRuns
    /\ AskedAsNamed

LEMMA VerbIs == \A p \in MigrateRuns : Last(p) \in {"create", "up", "down", "status"} /\ p = <<"migrate", Last(p)>>
  <1> SUFFICES ASSUME NEW p \in MigrateRuns
               PROVE  Last(p) \in {"create", "up", "down", "status"} /\ p = <<"migrate", Last(p)>>
    OBVIOUS
  <1>1. PICK verb \in {"create", "up", "down", "status"} : p = <<"migrate", verb>>
    BY DEF MigrateRuns
  <1>2. Last(p) = verb
    BY <1>1 DEF Last
  <1>3. QED
    BY <1>1, <1>2

LEMMA NamedStays ==
    ASSUME UNCHANGED <<world, d>>
    PROVE  Verb' = Verb /\ Quantity' = Quantity /\ Named("to")' = Named("to") /\ Target' = Target /\ RefCall' = RefCall
  <1>1. Verb' = Verb /\ (\A f : Asked(f)' = Asked(f)) /\ \A f : Named(f)' = Named(f)
    BY RefKept DEF Verb, Asked, Named
  <1>2. Quantity' = Quantity /\ Target' = Target
    BY <1>1 DEF Quantity, Target
  <1>3. QED
    BY <1>1, <1>2, Zenon DEF RefCall

LEMMA AsksAsNamed ==
    ASSUME RunInv, AskInv, Migrates
    PROVE  AskedAsNamed'
  <1> DEFINE to == IntOf[d.vals["to"]]
             on(f) == d.vals[f] = "true"
  <1>1. /\ pc = "migrate" /\ UNCHANGED <<world, d>> /\ d.path \in MigrateRuns /\ op = NoCall
        /\ \A f \in visible(d.path) : d.vals[f] = Asked(f)
        /\ \A f \in Flags : Accepts(f, d.vals[f])
    BY DEF Migrates, AskInv, RunInv, LayerInv, Started, LineKept, ConfigLayer, TInv, TypeOK, CliTypeOK, Asked
  <1>2. to \in Int
    BY <1>1, MigrateFlags
  <1>3. Verb = "up" => on("one") = Quantity /\ to = Target
    <2>1. Verb = "up" => d.path = <<"migrate", "up">>
      BY <1>1, VerbIs DEF Verb
    <2>2. QED
      BY <1>1, <2>1, MigrateFlags DEF Quantity, Target
  <1>4. Verb = "down" => on("all") = Quantity /\ to = Target
    <2>1. Verb = "down" => d.path = <<"migrate", "down">>
      BY <1>1, VerbIs DEF Verb
    <2>2. QED
      BY <1>1, <2>1, MigrateFlags DEF Quantity, Target
  <1>5. ~Named("to") => Target = 0
    BY MigrateAssumption DEF Named, Target, Asked, RefValue
  <1>6. \/ op' = op \/ op' = Call("Status", 0)
        \/ Verb = "up" /\ on("one") /\ ~(to > 0) /\ op' = Call("UpByOne", 0)
        \/ Verb = "up" /\ ~on("one") /\ to > 0 /\ op' = Call("UpTo", to)
        \/ Verb = "up" /\ ~on("one") /\ ~(to > 0) /\ op' = Call("Up", 0)
        \/ Verb = "down" /\ on("all") /\ ~(to > 0) /\ op' = Call("DownTo", 0)
        \/ Verb = "down" /\ ~on("all") /\ to > 0 /\ op' = Call("DownTo", to)
        \/ Verb = "down" /\ ~on("all") /\ ~(to > 0) /\ op' = Call("Down", 0)
    BY DEF Migrates, Targets
  <1>7. Moves' = (op'.method \notin {None, "Status"}) /\ \A m, n : Call(m, n).method = m /\ Call(m, n).to = n
    BY DEF Moves, Call
  <1>8. SUFFICES (op' = Call("DownTo", 0) => Quantity) /\ (Moves' /\ (Named("to") => Target > 0) => op' = RefCall)
    BY <1>1, NamedStays DEF AskedAsNamed
  <1>9. CASE op' = op \/ op' = Call("Status", 0)
    <2>1. op'.method \in {None, "Status"}
      BY <1>1, <1>7, <1>9, Zenon DEF NoCall
    <2>2. op' # Call("DownTo", 0)
      BY <1>7, <2>1 DEF None
    <2>3. ~Moves'
      BY <2>1 DEF Moves
    <2>4. QED
      BY <2>2, <2>3
  <1> HIDE DEF to, on
  <1>10. CASE Verb = "up" /\ on("one") /\ ~(to > 0) /\ op' = Call("UpByOne", 0)
    <2>1. Quantity /\ (~Named("to") => RefCall = Call("UpByOne", 0))
      BY <1>3, <1>10 DEF RefCall
    <2>2. QED
      BY <1>3, <1>10, <2>1
  <1>11. CASE Verb = "up" /\ ~on("one") /\ to > 0 /\ op' = Call("UpTo", to)
    <2>1. Named("to") /\ ~Quantity /\ to = Target
      BY <1>3, <1>5, <1>11
    <2>2. RefCall = Call("UpTo", to)
      BY <1>11, <2>1 DEF RefCall
    <2>3. op' # Call("DownTo", 0)
      BY <1>7, <1>11
    <2>4. QED
      BY <1>11, <2>2, <2>3
  <1>12. CASE Verb = "up" /\ ~on("one") /\ ~(to > 0) /\ op' = Call("Up", 0)
    <2>1. ~Named("to") => RefCall = Call("Up", 0)
      BY <1>3, <1>12 DEF RefCall
    <2>2. op' # Call("DownTo", 0)
      BY <1>7, <1>12
    <2>3. QED
      BY <1>3, <1>12, <2>1, <2>2
  <1>13. CASE Verb = "down" /\ on("all") /\ ~(to > 0) /\ op' = Call("DownTo", 0)
    <2>1. Quantity /\ (~Named("to") => RefCall = Call("DownTo", 0))
      BY <1>4, <1>13 DEF RefCall
    <2>2. QED
      BY <1>4, <1>13, <2>1
  <1>14. CASE Verb = "down" /\ ~on("all") /\ to > 0 /\ op' = Call("DownTo", to)
    <2>1. Named("to") /\ ~Quantity /\ to = Target
      BY <1>4, <1>5, <1>14
    <2>2. RefCall = Call("DownTo", to)
      BY <1>14, <2>1 DEF RefCall
    <2>3. op' # Call("DownTo", 0)
      BY <1>2, <1>7, <1>14
    <2>4. QED
      BY <1>14, <2>2, <2>3
  <1>15. CASE Verb = "down" /\ ~on("all") /\ ~(to > 0) /\ op' = Call("Down", 0)
    <2>1. ~Named("to") => RefCall = Call("Down", 0)
      BY <1>4, <1>15 DEF RefCall
    <2>2. op' # Call("DownTo", 0)
      BY <1>7, <1>15
    <2>3. QED
      BY <1>4, <1>15, <2>1, <2>2
  <1>16. QED
    BY <1>6, <1>9, <1>10, <1>11, <1>12, <1>13, <1>14, <1>15

(* Everything is rolled back only when a layer says --all, and where every target named is a version  *)
(* the Migrator is asked for exactly what the layers name and for nothing when they name both, for    *)
(* every input and every tree in which no command hangs below one that runs (command.go:76-107).      *)
THEOREM MigratorIsAskedAsNamed ==
    ASSUME LeavesRun
    PROVE  Spec => []AskedAsNamed
  <1>1. MInit => AskInv
    BY DEF MInit, Init, AskInv, AskedAsNamed, NoCall, Call, Moves, None
  <1>2. RunInv /\ AskInv /\ [Next]_allvars => AskInv'
    <2> SUFFICES ASSUME RunInv, AskInv, [Next]_allvars PROVE AskInv'
      OBVIOUS
    <2>1. op = NoCall /\ op' = op => AskedAsNamed'
      BY DEF AskedAsNamed, NoCall, Call, Moves, None
    <2>2. CASE Migrates
      <3>1. pc' \in {"ran", "done"}
        BY <2>2, Zenon DEF Migrates, Go, Exit
      <3>2. QED
        BY <2>2, <3>1, AsksAsNamed DEF AskInv
    <2>3. CASE Resolves \/ ServiceRuns \/ Open \/ CreateStarts \/ CreateFirst \/ CreateSecond \/ Crash
      <3>1. op' = op
        BY <2>3 DEF Resolves, ServiceRuns, mvars, Open, CreateStarts, CreateFirst, CreateSecond, Crash
      <3>2. pc \notin {"ran", "done"}
        BY <2>3, Zenon DEF Resolves, LoadDotEnv, Execute, ParseFlag, Dispatch, Chosen, ResolveEnv, LoadConfig,
                    ApplyConfig, CheckRequired, ServiceRuns, Open, CreateStarts, CreateFirst, CreateSecond, Crash
      <3>3. pc' = "migrate" => d'.path \in MigrateRuns
        <4>1. CASE Resolves \/ ServiceRuns
          BY <4>1, ResolvesIs DEF ServiceRuns, Go
        <4>2. CASE Open
          BY <4>2 DEF Open
        <4>3. CASE CreateStarts \/ CreateFirst \/ CreateSecond \/ Crash
          BY <4>3, Zenon DEF CreateStarts, CreateFirst, CreateSecond, Crash, Go, Exit
        <4>4. QED
          BY <2>3, <4>1, <4>2, <4>3
      <3>4. QED
        BY <2>1, <3>1, <3>2, <3>3 DEF AskInv
    <2>4. CASE Returns \/ Terminated2 \/ UNCHANGED allvars
      <3>1. UNCHANGED <<world, d, op>> /\ (pc' = pc \/ (pc' = "done" /\ pc = "ran"))
        BY <2>4 DEF Returns, Terminated2, allvars, vars, mvars, Exit
      <3>2. AskedAsNamed'
        BY <3>1, NamedStays DEF AskInv, AskedAsNamed, Moves
      <3>3. QED
        BY <3>1, <3>2 DEF AskInv
    <2>5. QED
      BY <2>2, <2>3, <2>4 DEF Next
  <1>3. AskInv => AskedAsNamed
    BY DEF AskInv
  <1>4. Spec => []RunInv
    BY RunInvHolds
  <1>5. QED
    BY <1>1, <1>2, <1>3, <1>4, PTL DEF Spec

-----------------------------------------------------------------------------
(***************************************************************************)
(* The recursions of Scanner and of loadMigrations, a step at a time.      *)
(***************************************************************************)
Modes(src, esc, n, g) ==
    g = [k \in 0..n |-> IF k = 0 THEN "code" ELSE Lex(g[k - 1], At(src, k), At(src, k + 1), esc)]
ModesOf(src, esc) == CHOOSE g : Modes(src, esc, Size(src), g)

(* The lexical modes of a script, a character at a time. *)
LEMMA ModesUnfold ==
    ASSUME NEW src \in Seq(Chars), NEW esc
    PROVE  /\ RefModes(src, esc) = ModesOf(src, esc)
           /\ ModesOf(src, esc)[0] = "code"
           /\ \A k \in 1..Size(src) : ModesOf(src, esc)[k] = Lex(ModesOf(src, esc)[k - 1], At(src, k), At(src, k + 1), esc)
  <1> DEFINE Good == {m \in 0..Size(src) : \E g : Modes(src, esc, m, g)}
  <1>0. Size(src) \in Nat
    BY DEF Size
  <1>1. 0 \in Good
    <2> DEFINE g == [k \in 0..0 |-> "code"]
    <2>1. Modes(src, esc, 0, g)
      BY DEF Modes
    <2>2. QED
      BY <1>0, <2>1
  <1>2. ASSUME NEW m \in 1..Size(src), m - 1 \in Good PROVE m \in Good
    <2>1. PICK g : Modes(src, esc, m - 1, g)
      BY <1>2
    <2> DEFINE h == [k \in 0..m |-> IF k = m THEN Lex(g[m - 1], At(src, m), At(src, m + 1), esc) ELSE g[k]]
    <2>2. \A k \in 0..(m - 1) : g[k] = IF k = 0 THEN "code" ELSE Lex(g[k - 1], At(src, k), At(src, k + 1), esc)
      BY <2>1 DEF Modes
    <2>3. ASSUME NEW k \in 0..m
          PROVE  h[k] = IF k = 0 THEN "code" ELSE Lex(h[k - 1], At(src, k), At(src, k + 1), esc)
      <3>1. CASE k = m
        <4>1. h[k] = Lex(g[m - 1], At(src, m), At(src, m + 1), esc) /\ h[m - 1] = g[m - 1] /\ m # 0
          BY <3>1
        <4> HIDE DEF h
        <4>2. QED
          BY <3>1, <4>1
      <3>2. CASE k # m
        <4>1. h[k] = g[k] /\ k \in 0..(m - 1) /\ (k # 0 => h[k - 1] = g[k - 1])
          BY <3>2
        <4> HIDE DEF h
        <4>2. QED
          BY <2>2, <4>1
      <3>3. QED
        BY <3>1, <3>2
    <2>4. h = [k \in 0..m |-> h[k]]
      OBVIOUS
    <2> HIDE DEF h
    <2>5. Modes(src, esc, m, h)
      BY <2>3, <2>4 DEF Modes
    <2>6. QED
      BY <1>0, <2>5
  <1>3. Size(src) \in Good
    <2> HIDE DEF Good
    <2>1. 0..Size(src) \subseteq Good
      BY <1>0, <1>1, <1>2, UpTo
    <2>2. QED
      BY <1>0, <2>1
  <1>4. Modes(src, esc, Size(src), ModesOf(src, esc))
    BY <1>3 DEF ModesOf
  <1>5. RefModes(src, esc) = ModesOf(src, esc)
    BY DEF RefModes, ModesOf, Modes
  <1> DEFINE f == ModesOf(src, esc)
  <1>6. f = [k \in 0..Size(src) |-> IF k = 0 THEN "code" ELSE Lex(f[k - 1], At(src, k), At(src, k + 1), esc)]
    BY <1>4 DEF Modes
  <1> HIDE DEF f
  <1>7. \A k \in 0..Size(src) : f[k] = IF k = 0 THEN "code" ELSE Lex(f[k - 1], At(src, k), At(src, k + 1), esc)
    BY <1>6, Zenon
  <1>8. f[0] = "code" /\ \A k \in 1..Size(src) : f[k] = Lex(f[k - 1], At(src, k), At(src, k + 1), esc)
    <2>1. 0 \in 0..Size(src) /\ \A k \in 1..Size(src) : k \in 0..Size(src) /\ k # 0
      BY <1>0
    <2>2. QED
      BY <1>7, <2>1, Zenon
  <1>9. QED
    BY <1>5, <1>8 DEF f

Looks(src, stmt, esc, n, g) == g = [k \in 0..n |-> IF k = 0 THEN Unseen ELSE look(src, stmt, esc, g[k - 1], k)]
LooksOf(src, stmt, esc) == CHOOSE g : Looks(src, stmt, esc, Size(src), g)

(* isExecutable reads a statement a character at a time. *)
LEMMA LooksUnfold ==
    ASSUME NEW src \in Seq(Chars), NEW stmt, NEW esc
    PROVE  /\ isExecutable(src, stmt, esc) = LooksOf(src, stmt, esc)[Size(src)].found
           /\ LooksOf(src, stmt, esc)[0] = Unseen
           /\ \A k \in 1..Size(src) : LooksOf(src, stmt, esc)[k] = look(src, stmt, esc, LooksOf(src, stmt, esc)[k - 1], k)
  <1> DEFINE Good == {m \in 0..Size(src) : \E g : Looks(src, stmt, esc, m, g)}
  <1>0. Size(src) \in Nat
    BY DEF Size
  <1>1. 0 \in Good
    <2> DEFINE g == [k \in 0..0 |-> Unseen]
    <2>1. Looks(src, stmt, esc, 0, g)
      BY DEF Looks
    <2>2. QED
      BY <1>0, <2>1
  <1>2. ASSUME NEW m \in 1..Size(src), m - 1 \in Good PROVE m \in Good
    <2>1. PICK g : Looks(src, stmt, esc, m - 1, g)
      BY <1>2
    <2> DEFINE h == [k \in 0..m |-> IF k = m THEN look(src, stmt, esc, g[m - 1], m) ELSE g[k]]
    <2>2. \A k \in 0..(m - 1) : g[k] = IF k = 0 THEN Unseen ELSE look(src, stmt, esc, g[k - 1], k)
      BY <2>1 DEF Looks
    <2>3. ASSUME NEW k \in 0..m
          PROVE  h[k] = IF k = 0 THEN Unseen ELSE look(src, stmt, esc, h[k - 1], k)
      <3>1. CASE k = m
        <4>1. h[k] = look(src, stmt, esc, g[m - 1], m) /\ h[m - 1] = g[m - 1] /\ m # 0
          BY <3>1
        <4> HIDE DEF h
        <4>2. QED
          BY <3>1, <4>1
      <3>2. CASE k # m
        <4>1. h[k] = g[k] /\ k \in 0..(m - 1) /\ (k # 0 => h[k - 1] = g[k - 1])
          BY <3>2
        <4> HIDE DEF h
        <4>2. QED
          BY <2>2, <4>1
      <3>3. QED
        BY <3>1, <3>2
    <2>4. h = [k \in 0..m |-> h[k]]
      OBVIOUS
    <2> HIDE DEF h
    <2>5. Looks(src, stmt, esc, m, h)
      BY <2>3, <2>4 DEF Looks
    <2>6. QED
      BY <1>0, <2>5
  <1>3. Size(src) \in Good
    <2> HIDE DEF Good
    <2>1. 0..Size(src) \subseteq Good
      BY <1>0, <1>1, <1>2, UpTo
    <2>2. QED
      BY <1>0, <2>1
  <1>4. Looks(src, stmt, esc, Size(src), LooksOf(src, stmt, esc))
    BY <1>3 DEF LooksOf
  <1>5. isExecutable(src, stmt, esc) = LooksOf(src, stmt, esc)[Size(src)].found
    BY DEF isExecutable, LooksOf, Looks
  <1> DEFINE f == LooksOf(src, stmt, esc)
  <1>6. f = [k \in 0..Size(src) |-> IF k = 0 THEN Unseen ELSE look(src, stmt, esc, f[k - 1], k)]
    BY <1>4 DEF Looks
  <1> HIDE DEF f
  <1>7. \A k \in 0..Size(src) : f[k] = IF k = 0 THEN Unseen ELSE look(src, stmt, esc, f[k - 1], k)
    BY <1>6, Zenon
  <1>8. f[0] = Unseen /\ \A k \in 1..Size(src) : f[k] = look(src, stmt, esc, f[k - 1], k)
    <2>1. 0 \in 0..Size(src) /\ \A k \in 1..Size(src) : k \in 0..Size(src) /\ k # 0
      BY <1>0
    <2>2. QED
      BY <1>7, <2>1, Zenon
  <1>9. QED
    BY <1>5, <1>8 DEF f

Result(src, esc, end) ==
    IF end.err \/ end.region \/ end.mode # "normal" THEN Failed
    ELSE [ok |-> TRUE, statements |-> flush(src, end, esc).out, noTx |-> end.noTx]
Parses(src, esc, n, g) == g = [k \in 0..n |-> IF k = 0 THEN Unread ELSE read(src, esc, g[k - 1], k)]
ParseOf(src, esc) == CHOOSE g : Parses(src, esc, Size(src), g)

(* parseScript reads a script a character at a time. *)
LEMMA ReadsUnfold ==
    ASSUME NEW src \in Seq(Chars), NEW esc
    PROVE  /\ parseScript(src, esc) = Result(src, esc, ParseOf(src, esc)[Size(src)])
           /\ ParseOf(src, esc)[0] = Unread
           /\ \A k \in 1..Size(src) : ParseOf(src, esc)[k] = read(src, esc, ParseOf(src, esc)[k - 1], k)
  <1> DEFINE Good == {m \in 0..Size(src) : \E g : Parses(src, esc, m, g)}
  <1>0. Size(src) \in Nat
    BY DEF Size
  <1>1. 0 \in Good
    <2> DEFINE g == [k \in 0..0 |-> Unread]
    <2>1. Parses(src, esc, 0, g)
      BY DEF Parses
    <2>2. QED
      BY <1>0, <2>1
  <1>2. ASSUME NEW m \in 1..Size(src), m - 1 \in Good PROVE m \in Good
    <2>1. PICK g : Parses(src, esc, m - 1, g)
      BY <1>2
    <2> DEFINE h == [k \in 0..m |-> IF k = m THEN read(src, esc, g[m - 1], m) ELSE g[k]]
    <2>2. \A k \in 0..(m - 1) : g[k] = IF k = 0 THEN Unread ELSE read(src, esc, g[k - 1], k)
      BY <2>1 DEF Parses
    <2>3. ASSUME NEW k \in 0..m
          PROVE  h[k] = IF k = 0 THEN Unread ELSE read(src, esc, h[k - 1], k)
      <3>1. CASE k = m
        <4>1. h[k] = read(src, esc, g[m - 1], m) /\ h[m - 1] = g[m - 1] /\ m # 0
          BY <3>1
        <4> HIDE DEF h
        <4>2. QED
          BY <3>1, <4>1
      <3>2. CASE k # m
        <4>1. h[k] = g[k] /\ k \in 0..(m - 1) /\ (k # 0 => h[k - 1] = g[k - 1])
          BY <3>2
        <4> HIDE DEF h
        <4>2. QED
          BY <2>2, <4>1
      <3>3. QED
        BY <3>1, <3>2
    <2>4. h = [k \in 0..m |-> h[k]]
      OBVIOUS
    <2> HIDE DEF h
    <2>5. Parses(src, esc, m, h)
      BY <2>3, <2>4 DEF Parses
    <2>6. QED
      BY <1>0, <2>5
  <1>3. Size(src) \in Good
    <2> HIDE DEF Good
    <2>1. 0..Size(src) \subseteq Good
      BY <1>0, <1>1, <1>2, UpTo
    <2>2. QED
      BY <1>0, <2>1
  <1>4. Parses(src, esc, Size(src), ParseOf(src, esc))
    BY <1>3 DEF ParseOf
  <1>5. parseScript(src, esc) = Result(src, esc, ParseOf(src, esc)[Size(src)])
    BY DEF parseScript, ParseOf, Parses, Result
  <1> DEFINE f == ParseOf(src, esc)
  <1>6. f = [k \in 0..Size(src) |-> IF k = 0 THEN Unread ELSE read(src, esc, f[k - 1], k)]
    BY <1>4 DEF Parses
  <1> HIDE DEF f
  <1>7. \A k \in 0..Size(src) : f[k] = IF k = 0 THEN Unread ELSE read(src, esc, f[k - 1], k)
    BY <1>6, Zenon
  <1>8. f[0] = Unread /\ \A k \in 1..Size(src) : f[k] = read(src, esc, f[k - 1], k)
    <2>1. 0 \in 0..Size(src) /\ \A k \in 1..Size(src) : k \in 0..Size(src) /\ k # 0
      BY <1>0
    <2>2. QED
      BY <1>7, <2>1, Zenon
  <1>9. QED
    BY <1>5, <1>8 DEF f

Splits(src, mode, cuts, n, g) == g = [k \in 0..n |-> IF k = 0 THEN <<>> ELSE Cut(src, mode, cuts, g[k - 1], k)]
SplitOf(src, mode, cuts) == CHOOSE g : Splits(src, mode, cuts, (Size(src) + 1), g)

(* The reference cuts a script a character at a time. *)
LEMMA CutsUnfold ==
    ASSUME NEW src \in Seq(Chars), NEW mode, NEW cuts
    PROVE  /\ RefSplit(src, mode, cuts) = SplitOf(src, mode, cuts)[Size(src) + 1]
           /\ SplitOf(src, mode, cuts)[0] = <<>>
           /\ \A k \in 1..(Size(src) + 1) : SplitOf(src, mode, cuts)[k] = Cut(src, mode, cuts, SplitOf(src, mode, cuts)[k - 1], k)
  <1> DEFINE Good == {m \in 0..(Size(src) + 1) : \E g : Splits(src, mode, cuts, m, g)}
  <1>0. (Size(src) + 1) \in Nat
    BY DEF Size
  <1>1. 0 \in Good
    <2> DEFINE g == [k \in 0..0 |-> <<>>]
    <2>1. Splits(src, mode, cuts, 0, g)
      BY DEF Splits
    <2>2. QED
      BY <1>0, <2>1
  <1>2. ASSUME NEW m \in 1..(Size(src) + 1), m - 1 \in Good PROVE m \in Good
    <2>1. PICK g : Splits(src, mode, cuts, m - 1, g)
      BY <1>2
    <2> DEFINE h == [k \in 0..m |-> IF k = m THEN Cut(src, mode, cuts, g[m - 1], m) ELSE g[k]]
    <2>2. \A k \in 0..(m - 1) : g[k] = IF k = 0 THEN <<>> ELSE Cut(src, mode, cuts, g[k - 1], k)
      BY <2>1 DEF Splits
    <2>3. ASSUME NEW k \in 0..m
          PROVE  h[k] = IF k = 0 THEN <<>> ELSE Cut(src, mode, cuts, h[k - 1], k)
      <3>1. CASE k = m
        <4>1. h[k] = Cut(src, mode, cuts, g[m - 1], m) /\ h[m - 1] = g[m - 1] /\ m # 0
          BY <3>1
        <4> HIDE DEF h
        <4>2. QED
          BY <3>1, <4>1
      <3>2. CASE k # m
        <4>1. h[k] = g[k] /\ k \in 0..(m - 1) /\ (k # 0 => h[k - 1] = g[k - 1])
          BY <3>2
        <4> HIDE DEF h
        <4>2. QED
          BY <2>2, <4>1
      <3>3. QED
        BY <3>1, <3>2
    <2>4. h = [k \in 0..m |-> h[k]]
      OBVIOUS
    <2> HIDE DEF h
    <2>5. Splits(src, mode, cuts, m, h)
      BY <2>3, <2>4 DEF Splits
    <2>6. QED
      BY <1>0, <2>5
  <1>3. (Size(src) + 1) \in Good
    <2> HIDE DEF Good
    <2>1. 0..(Size(src) + 1) \subseteq Good
      BY <1>0, <1>1, <1>2, UpTo
    <2>2. QED
      BY <1>0, <2>1
  <1>4. Splits(src, mode, cuts, (Size(src) + 1), SplitOf(src, mode, cuts))
    BY <1>3 DEF SplitOf
  <1>5. RefSplit(src, mode, cuts) = SplitOf(src, mode, cuts)[Size(src) + 1]
    BY DEF RefSplit, SplitOf, Splits
  <1> DEFINE f == SplitOf(src, mode, cuts)
  <1>6. f = [k \in 0..(Size(src) + 1) |-> IF k = 0 THEN <<>> ELSE Cut(src, mode, cuts, f[k - 1], k)]
    BY <1>4 DEF Splits
  <1> HIDE DEF f
  <1>7. \A k \in 0..(Size(src) + 1) : f[k] = IF k = 0 THEN <<>> ELSE Cut(src, mode, cuts, f[k - 1], k)
    BY <1>6, Zenon
  <1>8. f[0] = <<>> /\ \A k \in 1..(Size(src) + 1) : f[k] = Cut(src, mode, cuts, f[k - 1], k)
    <2>1. 0 \in 0..(Size(src) + 1) /\ \A k \in 1..(Size(src) + 1) : k \in 0..(Size(src) + 1) /\ k # 0
      BY <1>0
    <2>2. QED
      BY <1>7, <2>1, Zenon
  <1>9. QED
    BY <1>5, <1>8 DEF f

Outcome(entries, end) ==
    IF (\E e \in entries : ~WellNamed(e)) \/ end.err THEN Refused
    ELSE [ok |-> TRUE, migrations |-> end.byVersion]
Adds(entries, esc, st, k) == AddHalf(st, Reads(entries)[k], parseScript(Reads(entries)[k].src, esc))
Loads(entries, esc, n, g) == g = [k \in 0..n |-> IF k = 0 THEN NoneRead ELSE Adds(entries, esc, g[k - 1], k)]
LoadOf(entries, esc) == CHOOSE g : Loads(entries, esc, Len(Reads(entries)), g)

(* Files are loaded one at a time. *)
LEMMA LoadUnfolds ==
    ASSUME NEW entries, NEW esc, Len(Reads(entries)) \in Nat
    PROVE  /\ loadMigrations(entries, esc) = Outcome(entries, LoadOf(entries, esc)[Len(Reads(entries))])
           /\ LoadOf(entries, esc)[0] = NoneRead
           /\ \A k \in 1..Len(Reads(entries)) : LoadOf(entries, esc)[k] = Adds(entries, esc, LoadOf(entries, esc)[k - 1], k)
  <1> DEFINE Good == {m \in 0..Len(Reads(entries)) : \E g : Loads(entries, esc, m, g)}
  <1>0. Len(Reads(entries)) \in Nat
    OBVIOUS
  <1>1. 0 \in Good
    <2> DEFINE g == [k \in 0..0 |-> NoneRead]
    <2>1. Loads(entries, esc, 0, g)
      BY DEF Loads
    <2>2. QED
      BY <1>0, <2>1
  <1>2. ASSUME NEW m \in 1..Len(Reads(entries)), m - 1 \in Good PROVE m \in Good
    <2>1. PICK g : Loads(entries, esc, m - 1, g)
      BY <1>2
    <2> DEFINE h == [k \in 0..m |-> IF k = m THEN Adds(entries, esc, g[m - 1], m) ELSE g[k]]
    <2>2. \A k \in 0..(m - 1) : g[k] = IF k = 0 THEN NoneRead ELSE Adds(entries, esc, g[k - 1], k)
      BY <2>1 DEF Loads
    <2>3. ASSUME NEW k \in 0..m
          PROVE  h[k] = IF k = 0 THEN NoneRead ELSE Adds(entries, esc, h[k - 1], k)
      <3>1. CASE k = m
        <4>1. h[k] = Adds(entries, esc, g[m - 1], m) /\ h[m - 1] = g[m - 1] /\ m # 0
          BY <3>1
        <4> HIDE DEF h
        <4>2. QED
          BY <3>1, <4>1
      <3>2. CASE k # m
        <4>1. h[k] = g[k] /\ k \in 0..(m - 1) /\ (k # 0 => h[k - 1] = g[k - 1])
          BY <3>2
        <4> HIDE DEF h
        <4>2. QED
          BY <2>2, <4>1
      <3>3. QED
        BY <3>1, <3>2
    <2>4. h = [k \in 0..m |-> h[k]]
      OBVIOUS
    <2> HIDE DEF h
    <2>5. Loads(entries, esc, m, h)
      BY <2>3, <2>4 DEF Loads
    <2>6. QED
      BY <1>0, <2>5
  <1>3. Len(Reads(entries)) \in Good
    <2> HIDE DEF Good
    <2>1. 0..Len(Reads(entries)) \subseteq Good
      BY <1>0, <1>1, <1>2, UpTo
    <2>2. QED
      BY <1>0, <2>1
  <1>4. Loads(entries, esc, Len(Reads(entries)), LoadOf(entries, esc))
    BY <1>3 DEF LoadOf
  <1>5. loadMigrations(entries, esc) = Outcome(entries, LoadOf(entries, esc)[Len(Reads(entries))])
    BY DEF loadMigrations, LoadOf, Loads, Adds, Outcome
  <1> DEFINE f == LoadOf(entries, esc)
  <1>6. f = [k \in 0..Len(Reads(entries)) |-> IF k = 0 THEN NoneRead ELSE Adds(entries, esc, f[k - 1], k)]
    BY <1>4 DEF Loads
  <1> HIDE DEF f
  <1>7. \A k \in 0..Len(Reads(entries)) : f[k] = IF k = 0 THEN NoneRead ELSE Adds(entries, esc, f[k - 1], k)
    BY <1>6, Zenon
  <1>8. f[0] = NoneRead /\ \A k \in 1..Len(Reads(entries)) : f[k] = Adds(entries, esc, f[k - 1], k)
    <2>1. 0 \in 0..Len(Reads(entries)) /\ \A k \in 1..Len(Reads(entries)) : k \in 0..Len(Reads(entries)) /\ k # 0
      BY <1>0
    <2>2. QED
      BY <1>7, <2>1, Zenon
  <1>9. QED
    BY <1>5, <1>8 DEF f

-----------------------------------------------------------------------------
(***************************************************************************)
(* The lexical modes.                                                      *)
(***************************************************************************)
Lexed(src, esc, mode) ==
    /\ mode[0] = "code"
    /\ \A k \in 1..Size(src) : mode[k] = Lex(mode[k - 1], At(src, k), At(src, k + 1), esc)

LEMMA RefIsLexed ==
    ASSUME NEW src \in Seq(Chars), NEW esc
    PROVE  Lexed(src, esc, RefModes(src, esc))
  BY ModesUnfold DEF Lexed

(* What follows a character of code, and one outside code. *)
LEMMA LexOfCode ==
    ASSUME NEW c, NEW next, NEW esc
    PROVE  /\ LineComment(c, next, esc) => Lex("code", c, next, esc) = "line"
           /\ ~LineComment(c, next, esc) /\ BlockComment(c, next) => Lex("code", c, next, esc) = "open"
           /\ ~LineComment(c, next, esc) /\ ~BlockComment(c, next) /\ c \in Quotes
                => Lex("code", c, next, esc) = c
           /\ ~LineComment(c, next, esc) /\ ~BlockComment(c, next) /\ c \notin Quotes
                => Lex("code", c, next, esc) = "code"
  BY DEF Lex, Quotes

LEMMA LexOfPlain ==
    ASSUME NEW c \in Blank \cup Annotation \cup {";"}, NEW next, NEW esc
    PROVE  Lex("code", c, next, esc) = "code"
  <1>1. c \notin Quotes /\ c \notin {"-", "#", "/"}
    BY DEF Blank, Annotation, Quotes
  <1>2. ~LineComment(c, next, esc) /\ ~BlockComment(c, next)
    BY <1>1 DEF LineComment, BlockComment
  <1>3. QED
    BY <1>1, <1>2, LexOfCode

LEMMA LexOfOther ==
    ASSUME NEW c, NEW next, NEW esc
    PROVE  /\ Lex("line", c, next, esc) = IF c = "nl" THEN "code" ELSE "line"
           /\ Lex("open", c, next, esc) = "block"
           /\ Lex("close", c, next, esc) = "code"
           /\ Lex("block", c, next, esc) = IF BlockEnds(c, next) THEN "close" ELSE "block"
  BY DEF Lex, Quotes

LEMMA LexOfEscaped ==
    ASSUME NEW c, NEW next, NEW esc
    PROVE  Lex("escapeSq", c, next, esc) = "sq" /\ Lex("escapeDq", c, next, esc) = "dq"
  BY DEF Lex, Quotes

LEMMA LexOfQuoted ==
    ASSUME NEW q \in Quotes, NEW c, NEW next, NEW esc
    PROVE  /\ c = q => Lex(q, c, next, esc) = "code"
           /\ c # q /\ Escapes(q, c, next, esc) => Lex(q, c, next, esc) = IF q = "sq" THEN "escapeSq" ELSE "escapeDq"
           /\ c # q /\ ~Escapes(q, c, next, esc) => Lex(q, c, next, esc) = q
  BY DEF Lex, Quotes

-----------------------------------------------------------------------------
(***************************************************************************)
(* isExecutable, on a piece of a script: the characters from where code    *)
(* starts to a place no comment can span, without the dropped lines.       *)
(***************************************************************************)
PieceOf(src, mode, lo, hi) == {j \in lo..(hi - 1) : ~Dropped(src, mode, j)}

(* A piece has no gap but the dropped lines, and loses nothing but blanks when it is trimmed. *)
LEMMA Trimmed ==
    ASSUME NEW src \in Seq(Chars), NEW P \in SUBSET Nat
    PROVE  /\ TrimBlanks(src, P) \subseteq P
           /\ \A k \in P : At(src, k) \notin Blank => k \in TrimBlanks(src, P)
           /\ \A a, b \in TrimBlanks(src, P), k \in P : a <= k /\ k <= b => k \in TrimBlanks(src, P)
  <1> DEFINE solid == {k \in P : At(src, k) \notin Blank}
  <1>1. TrimBlanks(src, P) = {k \in P : \E a, b \in solid : a <= k /\ k <= b}
    BY DEF TrimBlanks
  <1>2. solid \subseteq Nat /\ solid \subseteq P /\ \A k \in P : At(src, k) \notin Blank => k \in solid
    OBVIOUS
  <1> HIDE DEF solid
  <1>3. ASSUME NEW a \in TrimBlanks(src, P), NEW b \in TrimBlanks(src, P), NEW k \in P, a <= k, k <= b
        PROVE  k \in TrimBlanks(src, P)
    <2>1. PICK a1 \in solid : a1 <= a
      BY <1>1
    <2>2. PICK b1 \in solid : b <= b1
      BY <1>1
    <2>3. a \in Nat /\ b \in Nat
      BY <1>1
    <2>4. a1 <= k /\ k <= b1
      BY <1>2, <1>3, <2>1, <2>2, <2>3
    <2>5. QED
      BY <1>1, <2>4
  <1>4. \A k \in P : At(src, k) \notin Blank => k \in TrimBlanks(src, P)
    <2>1. \A k \in solid : k <= k
      BY <1>2
    <2>2. QED
      BY <1>1, <1>2, <2>1
  <1>5. QED
    BY <1>1, <1>3, <1>4

(* How far isExecutable has come after i characters. *)
InStep(st, m, i, stmt) ==
    \/ st.at <= i + 1 /\ st.in = m /\ m \in {"code", "line", "block"}
    \/ st.at = i + 2 /\ i + 1 \in stmt /\ ((st.in = "block" /\ m = "open") \/ (st.in = "code" /\ m = "close"))

LookedAt(src, mode, lo, stmt, st, i) ==
    /\ st.at \in Nat /\ st = [at |-> st.at, in |-> st.in, found |-> st.found] /\ st.found \in BOOLEAN
    /\ st.found <=> \E k \in stmt : k <= i /\ Solid(src, mode, k)
    /\ i < lo => st = Unseen
    /\ ~st.found /\ i >= lo - 1 /\ (\E k \in stmt : k > i) =>
         /\ InStep(st, mode[i], i, stmt)
         /\ (\A k \in stmt : k > i) => mode[i] = "code"

LEMMA LookStep ==
    ASSUME NEW src \in Seq(Chars), NEW esc, NEW mode, Lexed(src, esc, mode),
           NEW lo \in 1..(Size(src) + 1), NEW hi \in lo..(Size(src) + 1),
           mode[lo - 1] = "code", At(src, hi) \notin {"-", "*", "/"},
           NEW stmt, stmt = TrimBlanks(src, PieceOf(src, mode, lo, hi)),
           NEW i \in 1..Size(src), NEW st, LookedAt(src, mode, lo, stmt, st, i - 1)
    PROVE  LookedAt(src, mode, lo, stmt, look(src, stmt, esc, st, i), i)
  <1> DEFINE P == PieceOf(src, mode, lo, hi)
             c == At(src, i)
             next == IF i + 1 \in stmt THEN At(src, i + 1) ELSE "nl"
             st2 == look(src, stmt, esc, st, i)
             to(n, in) == [at |-> i + n, in |-> in, found |-> FALSE]
             none == \A k \in stmt : k > i
             some == \E k \in stmt : k > i
             seen(x) == x <=> \E k \in stmt : k <= i /\ Solid(src, mode, k)
  <1>n. Size(src) \in Nat /\ lo \in Nat /\ hi \in Nat /\ i \in Nat
    BY DEF Size
  <1>p. P \subseteq lo..(hi - 1) /\ (\A j \in lo..(hi - 1) : j \in P \/ Dropped(src, mode, j)) /\ P \in SUBSET Nat
    BY <1>n DEF PieceOf
  <1>s. /\ stmt \subseteq P
        /\ \A k \in P : At(src, k) \notin Blank => k \in stmt
        /\ \A a, b \in stmt, k \in P : a <= k /\ k <= b => k \in stmt
    BY <1>p, Trimmed
  <1>m. mode[i] = Lex(mode[i - 1], c, At(src, i + 1), esc)
    BY DEF Lexed
  <1>t. /\ st.at \in Nat /\ st = [at |-> st.at, in |-> st.in, found |-> st.found] /\ st.found \in BOOLEAN
        /\ st.found <=> \E k \in stmt : k <= i - 1 /\ Solid(src, mode, k)
        /\ i - 1 < lo => st = Unseen
        /\ ~st.found /\ i >= lo /\ (\E k \in stmt : k > i - 1) =>
             /\ InStep(st, mode[i - 1], i - 1, stmt)
             /\ (\A k \in stmt : k > i - 1) => mode[i - 1] = "code"
    BY <1>n DEF LookedAt
  <1>i. stmt \subseteq Nat /\ \A k \in stmt : lo <= k /\ k < hi
    BY <1>n, <1>p, <1>s
  <1> HIDE DEF P
  <1>1. CASE i < lo
    <2>1. i \notin stmt /\ st2 = st /\ st = Unseen
      BY <1>1, <1>i, <1>t, <1>n DEF look
    <2>2. ~st.found /\ seen(FALSE)
      BY <1>1, <1>i, <1>n, <2>1 DEF Unseen
    <2>3. i >= lo - 1 => mode[i] = "code"
      <3>1. i >= lo - 1 => i = lo - 1
        BY <1>1, <1>n
      <3>2. QED
        BY <3>1
    <2>4. i >= lo - 1 => InStep(st, mode[i], i, stmt)
      BY <2>1, <2>3, <1>n DEF InStep, Unseen
    <2>5. QED
      BY <1>t, <2>1, <2>2, <2>3, <2>4 DEF LookedAt
  <1>2. CASE i >= lo /\ i \notin stmt
    <2>1. st2 = st
      BY <1>2 DEF look
    <2>2. seen(st.found)
      <3>1. \A k \in stmt : k <= i <=> k <= i - 1
        BY <1>2, <1>i, <1>n
      <3>2. QED
        BY <3>1, <1>t
    <2>3. ASSUME ~st.found, some
          PROVE  InStep(st, mode[i], i, stmt) /\ mode[i] = "code"
      <3>1. InStep(st, mode[i - 1], i - 1, stmt)
        BY <2>3, <1>2, <1>t, <1>i, <1>n
      <3>2. st.at <= i /\ st.in = mode[i - 1]
        BY <3>1, <1>2, <1>n, <1>t DEF InStep
      <3>3. i \in lo..(hi - 1)
        BY <2>3, <1>2, <1>i, <1>n
      <3>4. CASE Dropped(src, mode, i)
        <4>1. mode[i - 1] = "code" /\ c = "notx"
          BY <3>4 DEF Dropped, Coded
        <4>2. mode[i] = "code"
          BY <4>1, <1>m, LexOfPlain DEF Annotation
        <4>3. QED
          BY <4>1, <4>2, <3>2, <1>n, <1>t DEF InStep
      <3>5. CASE i \in P
        <4>1. c \in Blank
          BY <3>5, <1>2, <1>s
        <4>2. \A k \in stmt : k > i - 1
          BY <3>5, <2>3, <1>2, <1>s, <1>i, <1>n
        <4>3. mode[i - 1] = "code"
          BY <4>2, <2>3, <1>2, <1>t
        <4>4. mode[i] = "code"
          BY <4>1, <4>3, <1>m, LexOfPlain
        <4>5. QED
          BY <4>3, <4>4, <3>2, <1>n, <1>t DEF InStep
      <3>6. QED
        BY <3>3, <3>4, <3>5, <1>p
    <2>4. QED
      BY <1>2, <1>t, <2>1, <2>2, <2>3, <1>n DEF LookedAt
  <1>3. CASE i >= lo /\ i \in stmt /\ st.found
    <2>1. st2 = st
      BY <1>3 DEF look
    <2>2. seen(TRUE)
      BY <1>3, <1>t, <1>i, <1>n
    <2>3. ~(i < lo) /\ st.found
      BY <1>3, <1>n
    <2>4. QED
      BY <1>t, <2>1, <2>2, <2>3 DEF LookedAt
  <1>4. CASE i >= lo /\ i \in stmt /\ ~st.found
    <2>1. InStep(st, mode[i - 1], i - 1, stmt)
      BY <1>4, <1>t, <1>n
    <2>2. \A k \in stmt : k <= i <=> k <= i - 1 \/ k = i
      BY <1>i, <1>n
    <2>3. (\E k \in stmt : k <= i /\ Solid(src, mode, k)) <=> Solid(src, mode, i)
      BY <1>4, <1>t, <2>2
    <2>4. ~none
      BY <1>4, <1>n
    <2>5. CASE st.at > i
      <3>1. st2 = st
        BY <2>5 DEF look
      <3>2. st.at = i + 1 /\ ((st.in = "block" /\ mode[i - 1] = "open") \/ (st.in = "code" /\ mode[i - 1] = "close"))
        BY <2>1, <2>5, <1>n, <1>t DEF InStep
      <3>3. mode[i] = st.in /\ ~Solid(src, mode, i)
        <4>1. mode[i] = st.in
          BY <3>2, <1>m, LexOfOther
        <4>2. QED
          BY <4>1, <3>2 DEF Solid, Coded
      <3>4. InStep(st, mode[i], i, stmt)
        BY <3>2, <3>3, <1>n DEF InStep
      <3>5. QED
        BY <1>4, <1>t, <3>1, <2>3, <3>3, <3>4, <2>4, <1>n DEF LookedAt
    <2>6. CASE st.at <= i
      <3>1. st.in = mode[i - 1] /\ st.in \in {"code", "line", "block"}
        BY <2>1, <2>6, <1>n, <1>t DEF InStep
      <3>2. i + 1 \notin stmt => At(src, i + 1) \notin {"-", "*", "/"}
        <4>1. CASE i + 1 = hi
          BY <4>1
        <4>2. CASE i + 1 # hi
          <5>1. i + 1 \in lo..(hi - 1)
            BY <4>2, <1>4, <1>i, <1>n
          <5>2. CASE i + 1 \in P
            BY <5>2, <1>s DEF Blank
          <5>3. CASE Dropped(src, mode, i + 1)
            BY <5>3 DEF Dropped
          <5>4. QED
            BY <5>1, <5>2, <5>3, <1>p
        <4>3. QED
          BY <4>1, <4>2
      <3>3. /\ LineComment(c, next, esc) <=> LineComment(c, At(src, i + 1), esc)
            /\ BlockComment(c, next) <=> BlockComment(c, At(src, i + 1))
            /\ BlockEnds(c, next) <=> BlockEnds(c, At(src, i + 1))
            /\ BlockComment(c, next) \/ BlockEnds(c, next) => i + 1 \in stmt
        BY <3>2 DEF LineComment, BlockComment, BlockEnds
      <3>4. \A n, in : to(n, in) = [at |-> i + n, in |-> in, found |-> FALSE]
        OBVIOUS
      <3>5. ASSUME NEW f \in BOOLEAN, NEW n \in {1, 2}, NEW in, st2 = [at |-> i + n, in |-> in, found |-> f],
                   f <=> Solid(src, mode, i),
                   f \/ (n = 1 /\ in = mode[i] /\ in \in {"code", "line", "block"})
                     \/ (n = 2 /\ i + 1 \in stmt /\ ((in = "block" /\ mode[i] = "open") \/ (in = "code" /\ mode[i] = "close")))
            PROVE  LookedAt(src, mode, lo, stmt, st2, i)
        <4>1. st2.at = i + n /\ st2.in = in /\ st2.found = f /\ i + n \in Nat
          BY <3>5, <1>n
        <4>2. f \/ InStep(st2, mode[i], i, stmt)
          BY <4>1, <3>5, <1>n DEF InStep
        <4>3. seen(f)
          BY <2>3, <3>5
        <4>4. QED
          BY <4>1, <4>2, <4>3, <3>5, <2>4, <1>4, <1>n DEF LookedAt
      <3> HIDE DEF next
      <3>6. CASE st.in = "block"
        <4>1. st2 = IF BlockEnds(c, next) THEN to(2, "code") ELSE to(1, "block")
          BY <3>6, <1>4, <2>6, <1>n, <1>t DEF look, next
        <4>2. mode[i] = IF BlockEnds(c, next) THEN "close" ELSE "block"
          <5>1. mode[i] = Lex("block", c, At(src, i + 1), esc)
            BY <3>1, <3>6, <1>m
          <5>2. QED
            BY <3>3, <5>1, LexOfOther
        <4>3. ~Solid(src, mode, i)
          BY <3>1, <3>6 DEF Solid, Coded
        <4>4. CASE BlockEnds(c, next)
          <5>1. st2 = [at |-> i + 2, in |-> "code", found |-> FALSE]
            BY <4>1, <4>4, <3>4, <1>4, <1>t
          <5>2. QED
            BY <5>1, <4>2, <4>3, <4>4, <3>3, <3>5
        <4>5. CASE ~BlockEnds(c, next)
          <5>1. st2 = [at |-> i + 1, in |-> "block", found |-> FALSE]
            BY <4>1, <4>5, <3>4, <1>4, <1>t
          <5>2. QED
            BY <5>1, <4>2, <4>3, <4>5, <3>5
        <4>6. QED
          BY <4>4, <4>5
      <3>7. CASE st.in = "line"
        <4>1. st2 = to(1, IF c = "nl" THEN "code" ELSE "line")
          BY <3>7, <1>4, <2>6, <1>n, <1>t DEF look
        <4>2. mode[i] = IF c = "nl" THEN "code" ELSE "line"
          <5>1. mode[i] = Lex("line", c, At(src, i + 1), esc)
            BY <3>1, <3>7, <1>m
          <5>2. QED
            BY <5>1, LexOfOther
        <4>3. ~Solid(src, mode, i)
          BY <3>1, <3>7 DEF Solid, Coded
        <4>4. st2 = [at |-> i + 1, in |-> mode[i], found |-> FALSE]
          BY <4>1, <4>2, <3>4, <1>4, <1>t
        <4>5. QED
          BY <4>2, <4>3, <4>4, <3>5
      <3>8. CASE st.in = "code"
        <4>1. st2 = IF LineComment(c, next, esc) THEN to(1, "line")
                    ELSE IF BlockComment(c, next) THEN to(2, "block")
                    ELSE [at |-> i + 1, in |-> "code", found |-> c \notin Blank]
          BY <3>8, <1>4, <2>6, <1>n, <1>t DEF look, next
        <4>2. mode[i - 1] = "code"
          BY <3>1, <3>8
        <4>3. CASE LineComment(c, next, esc)
          <5>1. mode[i] = "line" /\ ~Solid(src, mode, i)
            BY <4>2, <4>3, <3>3, <1>m, LexOfCode DEF Solid
          <5>2. st2 = [at |-> i + 1, in |-> "line", found |-> FALSE]
            BY <4>1, <4>3, <3>4, <1>4, <1>t
          <5>3. QED
            BY <5>1, <5>2, <3>5
        <4>4. CASE ~LineComment(c, next, esc) /\ BlockComment(c, next)
          <5>1. mode[i] = "open" /\ ~Solid(src, mode, i)
            BY <4>2, <4>4, <3>3, <1>m, LexOfCode DEF Solid
          <5>2. st2 = [at |-> i + 2, in |-> "block", found |-> FALSE]
            BY <4>1, <4>4, <3>4, <1>4, <1>t
          <5>3. QED
            BY <4>4, <5>1, <5>2, <3>3, <3>5
        <4>5. CASE ~LineComment(c, next, esc) /\ ~BlockComment(c, next)
          <5>1. mode[i] \in {c, "code"} /\ (mode[i] # "code" => c \in Quotes)
            BY <4>2, <4>5, <3>3, <1>m, LexOfCode
          <5>2. mode[i] \notin {"line", "open"}
            BY <5>1 DEF Quotes
          <5>3. Solid(src, mode, i) <=> c \notin Blank
            BY <4>2, <5>2 DEF Solid, Coded
          <5>4. c \in Blank => mode[i] = "code"
            BY <5>1 DEF Blank, Quotes
          <5>5. st2 = [at |-> i + 1, in |-> "code", found |-> c \notin Blank]
            BY <4>1, <4>5, <1>t
          <5>6. QED
            BY <5>3, <5>4, <5>5, <3>5
        <4>6. QED
          BY <4>3, <4>4, <4>5
      <3>9. QED
        BY <3>1, <3>6, <3>7, <3>8
    <2>7. QED
      BY <2>5, <2>6, <1>n, <1>t
  <1>5. QED
    BY <1>1, <1>2, <1>3, <1>4, <1>n, <1>t

(* A statement is executable when it has something in code, beyond blanks and comments. *)
LEMMA ExecutableIsSolid ==
    ASSUME NEW src \in Seq(Chars), NEW esc, NEW mode, Lexed(src, esc, mode),
           NEW lo \in 1..(Size(src) + 1), NEW hi \in lo..(Size(src) + 1),
           mode[lo - 1] = "code", At(src, hi) \notin {"-", "*", "/"}
    PROVE  isExecutable(src, TrimBlanks(src, PieceOf(src, mode, lo, hi)), esc)
             <=> \E j \in PieceOf(src, mode, lo, hi) : Solid(src, mode, j)
  <1> DEFINE P == PieceOf(src, mode, lo, hi)
             stmt == TrimBlanks(src, P)
             after == LooksOf(src, stmt, esc)
             Good == {i \in 0..Size(src) : LookedAt(src, mode, lo, stmt, after[i], i)}
  <1>n. Size(src) \in Nat /\ lo \in Nat /\ hi \in Nat
    BY DEF Size
  <1>p. P \subseteq 1..Size(src) /\ P \in SUBSET Nat /\ \A k \in P : lo <= k
    BY <1>n DEF PieceOf
  <1>s. stmt \subseteq P /\ \A k \in P : At(src, k) \notin Blank => k \in stmt
    BY <1>p, Trimmed
  <1>u. /\ isExecutable(src, stmt, esc) = after[Size(src)].found
        /\ after[0] = Unseen
        /\ \A k \in 1..Size(src) : after[k] = look(src, stmt, esc, after[k - 1], k)
    BY LooksUnfold
  <1> HIDE DEF P, stmt, after
  <1>1. 0 \in Good
    <2>1. after[0] = [at |-> 1, in |-> "code", found |-> FALSE]
      BY <1>u DEF Unseen
    <2>2. \A k \in stmt : ~(k <= 0)
      BY <1>n, <1>p, <1>s
    <2>3. 0 >= lo - 1 => InStep(after[0], mode[0], 0, stmt) /\ mode[0] = "code"
      BY <2>1, <1>n DEF InStep, Lexed
    <2>4. /\ after[0].at = 1 /\ after[0].in = "code" /\ after[0].found = FALSE
          /\ after[0] = [at |-> after[0].at, in |-> after[0].in, found |-> after[0].found]
      BY <2>1
    <2>5. LookedAt(src, mode, lo, stmt, after[0], 0)
      <3>0. after[0].at \in Nat
        BY <2>4
      <3>1. after[0].found \in BOOLEAN /\ ~after[0].found
        <4>1. after[0].found = FALSE
          BY <2>4
        <4>2. QED
          BY <4>1, <2>4, Zenon
      <3>2. after[0].found <=> \E k \in stmt : k <= 0 /\ Solid(src, mode, k)
        BY <2>2, <3>1
      <3>3. 0 >= lo - 1 => InStep(after[0], mode[0], 0, stmt) /\ mode[0] = "code"
        BY <2>3
      <3>4. QED
        BY <2>4, <3>0, <3>1, <3>2, <3>3, <1>u DEF LookedAt
    <2>6. QED
      BY <2>5, <1>n
  <1>2. ASSUME NEW i \in 1..Size(src), i - 1 \in Good PROVE i \in Good
    <2>1. LookedAt(src, mode, lo, stmt, after[i - 1], i - 1)
      BY <1>2
    <2>2. LookedAt(src, mode, lo, stmt, look(src, stmt, esc, after[i - 1], i), i)
      BY <2>1, LookStep DEF stmt, P
    <2>3. QED
      BY <2>2, <1>u, <1>n
  <1>3. Size(src) \in Good
    <2> HIDE DEF Good
    <2>1. 0..Size(src) \subseteq Good
      BY <1>1, <1>2, <1>n, UpTo
    <2>2. QED
      BY <2>1, <1>n
  <1>4. after[Size(src)].found <=> \E k \in stmt : k <= Size(src) /\ Solid(src, mode, k)
    BY <1>3 DEF LookedAt
  <1>5. \A k \in P : Solid(src, mode, k) => k \in stmt
    BY <1>s DEF Solid
  <1>6. after[Size(src)].found <=> \E k \in P : Solid(src, mode, k)
    BY <1>4, <1>5, <1>s, <1>p, <1>n
  <1>7. QED
    BY <1>6, <1>u DEF stmt, P

-----------------------------------------------------------------------------
(***************************************************************************)
(* parseScript, next to the modes and the cuts of the reference.           *)
(***************************************************************************)
Fields == {"mode", "buf", "out", "at", "region", "noTx", "err"}

InMode(src, mode, st) ==
    \/ st.mode = "normal" /\ mode[st.at - 1] = "code"
    \/ st.mode = "normal" /\ mode[st.at - 1] = "line" /\ At(src, st.at) = "nl" /\ st.at <= Size(src)
    \/ st.mode = "block" /\ mode[st.at - 1] = "block"
    \/ st.mode \in Quotes /\ mode[st.at - 1] = st.mode

(* Where the piece starts that ends before k. *)
Starts(mode, cuts, lo, k) ==
    /\ lo \in 1..k
    /\ mode[lo - 1] = "code"
    /\ lo = 1 \/ lo - 1 \in cuts
    /\ \A c \in cuts : c < k => c < lo

(* What parseScript has read after i characters. *)
ParsedTo(src, mode, marks, cuts, found, st, i) ==
    /\ DOMAIN st = Fields
    /\ st.err \in BOOLEAN /\ st.region \in BOOLEAN /\ st.noTx \in BOOLEAN
    /\ st.err <=> \E k \in 1..i : Misplaced(src, mode, marks, k)
    /\ ~st.err =>
         /\ st.at \in (i + 1)..(Size(src) + 1)
         /\ InMode(src, mode, st)
         /\ \A j \in (i + 1)..(st.at - 1) : ~Coded(mode, j)
         /\ st.region <=> InRegion(src, marks, i + 1)
         /\ \E lo \in 1..(i + 1) : Starts(mode, cuts, lo, i + 1) /\ st.buf = PieceOf(src, mode, lo, st.at)
         /\ st.out = found
         /\ st.noTx <=> \E k \in 1..i : Dropped(src, mode, k)

LEMMA Least ==
    ASSUME NEW S \in SUBSET Nat, S # {}
    PROVE  \E m \in S : \A k \in S : m <= k
  <1> DEFINE Less == OpToRel(<, Nat)
  <1>1. \A x, y \in Nat : x < y => <<x, y>> \in Less
    BY DEF OpToRel
  <1>2. \E m \in S : \A x \in S : ~(<<x, m>> \in Less)
    BY NatLessThanWellFounded, WFMin, Zenon
  <1> HIDE DEF Less
  <1>3. PICK m \in S : \A x \in S : ~(<<x, m>> \in Less)
    BY <1>2
  <1>4. \A x \in S : ~(x < m)
    BY <1>1, <1>3, Zenon
  <1>5. \A x \in S : m <= x
    BY <1>4
  <1>6. QED
    BY <1>5

(* The newline a line ends with. *)
LEMMA EndOfLineIs ==
    ASSUME NEW src \in Seq(Chars), NEW i \in 1..Size(src)
    PROVE  /\ EndOfLine(src, i) \in i..Size(src)
           /\ At(src, EndOfLine(src, i)) = "nl"
           /\ \A j \in i..(EndOfLine(src, i) - 1) : At(src, j) # "nl"
  <1> DEFINE S == {k \in i..Size(src) : At(src, k) = "nl"}
             Ends(k) == At(src, k) = "nl" /\ \A j \in i..(k - 1) : At(src, j) # "nl"
  <1>1. Size(src) \in Nat /\ Len(src) \in Nat /\ DOMAIN src = 1..Len(src)
    BY DEF Size
  <1>2. At(src, Size(src)) = "nl"
    BY <1>1 DEF At, Size
  <1>3. S \in SUBSET Nat /\ S # {}
    BY <1>1, <1>2
  <1>4. PICK m \in S : \A k \in S : m <= k
    BY <1>3, Least
  <1>5. \E k \in i..Size(src) : Ends(k)
    <2>1. \A j \in i..(m - 1) : j \notin S /\ j \in i..Size(src)
      BY <1>1, <1>4
    <2>2. QED
      BY <1>4, <2>1
  <1>6. QED
    BY <1>5 DEF EndOfLine

(* A line comment lasts to the end of its line. *)
LEMMA CommentLasts ==
    ASSUME NEW src \in Seq(Chars), NEW esc, NEW mode, Lexed(src, esc, mode),
           NEW i \in 1..Size(src), mode[i] = "line", NEW e \in i..Size(src),
           \A j \in (i + 1)..(e - 1) : At(src, j) # "nl"
    PROVE  \A k \in i..(e - 1) : mode[k] = "line"
  <1> DEFINE Good == {m \in 0..Size(src) : i <= m /\ m <= e - 1 => mode[m] = "line"}
  <1>1. Size(src) \in Nat
    BY DEF Size
  <1>2. 0 \in Good
    BY <1>1
  <1>3. ASSUME NEW m \in 1..Size(src), m - 1 \in Good PROVE m \in Good
    <2>1. CASE i < m /\ m <= e - 1
      <3>1. mode[m - 1] = "line" /\ At(src, m) # "nl"
        BY <1>1, <1>3, <2>1
      <3>2. mode[m] = Lex("line", At(src, m), At(src, m + 1), esc)
        BY <3>1 DEF Lexed
      <3>3. mode[m] = "line"
        BY <3>1, <3>2, LexOfOther
      <3>4. QED
        BY <3>3
    <2>2. CASE ~(i < m /\ m <= e - 1)
      BY <2>2, <1>1
    <2>3. QED
      BY <2>1, <2>2
  <1> HIDE DEF Good
  <1>4. 0..Size(src) \subseteq Good
    BY <1>1, <1>2, <1>3, UpTo
  <1>5. QED
    BY <1>1, <1>4 DEF Good

(* A region starts and ends at the marks alone. *)
LEMMA Regions ==
    ASSUME NEW src, NEW marks \in SUBSET Nat, NEW i \in Nat
    PROVE  /\ i \notin marks => (InRegion(src, marks, i + 1) <=> InRegion(src, marks, i))
           /\ i \in marks /\ src[i] = "begin" => InRegion(src, marks, i + 1)
           /\ i \in marks /\ src[i] = "end" => ~InRegion(src, marks, i + 1)
  <1>1. CASE i \notin marks
    <2>1. \A a \in marks : (a < i + 1 <=> a < i) /\ (a >= i + 1 <=> a >= i)
      BY <1>1
    <2>2. QED
      BY <1>1, <2>1 DEF InRegion
  <1>2. CASE i \in marks /\ src[i] = "begin"
    <2>1. i < i + 1 /\ \A b \in marks : b > i => b >= i + 1
      OBVIOUS
    <2>2. QED
      BY <1>2, <2>1 DEF InRegion
  <1>3. CASE i \in marks /\ src[i] = "end"
    <2>1. ASSUME NEW a \in marks, a < i + 1, src[a] = "begin", \A b \in marks : b > a => b >= i + 1 PROVE FALSE
      <3>1. a # i
        BY <2>1, <1>3
      <3>2. i > a
        BY <2>1, <3>1
      <3>3. i >= i + 1
        BY <1>3, <2>1, <3>2
      <3>4. QED
        BY <3>3
    <2>2. QED
      BY <1>3, <2>1 DEF InRegion
  <1>4. QED
    BY <1>1, <1>2, <1>3

LEMMA PieceIs ==
    ASSUME NEW src, NEW mode, NEW cuts \in SUBSET Nat, NEW k \in Nat, NEW lo, Starts(mode, cuts, lo, k)
    PROVE  Piece(src, mode, cuts, k) = PieceOf(src, mode, lo, k)
  <1>1. /\ lo \in 1..k /\ (lo = 1 \/ lo - 1 \in cuts)
        /\ \A c \in cuts : c < k => c < lo
    BY DEF Starts
  <1>2. ASSUME NEW j \in 1..(k - 1) PROVE (\A c \in cuts : ~(j <= c /\ c < k)) <=> j >= lo
    <2>1. CASE j >= lo
      BY <1>1, <2>1
    <2>2. CASE j < lo
      <3>1. lo - 1 \in cuts /\ j <= lo - 1 /\ lo - 1 < k
        BY <1>1, <2>2
      <3>2. QED
        BY <2>2, <3>1, <1>1
    <2>3. QED
      BY <1>1, <2>1, <2>2
  <1>3. \A j : j \in 1..(k - 1) /\ j >= lo <=> j \in lo..(k - 1)
    BY <1>1
  <1>4. QED
    BY <1>2, <1>3 DEF Piece, PieceOf

(* The marks and the cuts are characters of code, and the end of the script. *)
CutFacts(src, mode, marks, cuts) ==
    /\ marks \in SUBSET Nat /\ cuts \in SUBSET Nat /\ Size(src) + 1 \in cuts
    /\ \A k \in 1..Size(src) :
         /\ k \in marks <=> At(src, k) \in {"begin", "end"} /\ Coded(mode, k)
         /\ k \in marks => src[k] = At(src, k)
         /\ k \in cuts <=> \/ k \in marks
                           \/ At(src, k) = ";" /\ Coded(mode, k) /\ ~InRegion(src, marks, k)

LEMMA CutsAre ==
    ASSUME NEW src \in Seq(Chars), NEW mode, NEW marks, NEW cuts,
           marks = Marks(src, mode), cuts = Cuts(src, mode, marks)
    PROVE  CutFacts(src, mode, marks, cuts)
  <1>1. Len(src) \in Nat /\ DOMAIN src = 1..Len(src) /\ Size(src) = Len(src) + 1
    BY DEF Size
  <1>2. \A k : k \in DOMAIN src => At(src, k) = src[k]
    BY DEF At
  <1>3. \A k : k \notin DOMAIN src => At(src, k) = "nl"
    BY DEF At
  <1>4. marks \subseteq DOMAIN src
    BY DEF Marks
  <1>5. ASSUME NEW k \in 1..Size(src)
        PROVE  /\ k \in marks <=> At(src, k) \in {"begin", "end"} /\ Coded(mode, k)
               /\ k \in cuts <=> \/ k \in marks
                                 \/ At(src, k) = ";" /\ Coded(mode, k) /\ ~InRegion(src, marks, k)
    <2>1. k \in marks <=> At(src, k) \in {"begin", "end"} /\ Coded(mode, k)
      BY <1>2, <1>3 DEF Marks
    <2>2. k # Size(src) + 1
      BY <1>1
    <2>3. k \in cuts <=> \/ k \in marks
                         \/ At(src, k) = ";" /\ Coded(mode, k) /\ ~InRegion(src, marks, k)
      BY <1>2, <1>3, <2>2 DEF Cuts
    <2>4. QED
      BY <2>1, <2>3
  <1>6. cuts \subseteq Nat /\ Size(src) + 1 \in cuts
    <2>1. cuts \subseteq DOMAIN src \cup {Size(src) + 1} /\ Size(src) + 1 \in cuts
      BY <1>4 DEF Cuts
    <2>2. DOMAIN src \subseteq Nat /\ Size(src) + 1 \in Nat
      BY <1>1
    <2>3. QED
      BY <2>1, <2>2
  <1>7. marks \in SUBSET Nat
    BY <1>1, <1>4
  <1>8. \A k \in marks : src[k] = At(src, k)
    BY <1>2, <1>4
  <1>9. QED
    BY <1>5, <1>6, <1>7, <1>8 DEF CutFacts

Flushable(src, mode, cuts, lo, k, st) ==
    /\ k \in cuts /\ k \in 1..(Size(src) + 1) /\ At(src, k) \notin {"-", "*", "/"}
    /\ Starts(mode, cuts, lo, k)
    /\ DOMAIN st = Fields /\ st.buf = PieceOf(src, mode, lo, k)

FlushedTo(src, mode, cuts, k, st, st2) ==
    /\ DOMAIN st2 = Fields
    /\ st2.out = Cut(src, mode, cuts, st.out, k)
    /\ st2.buf = {}
    /\ st2.mode = st.mode /\ st2.at = st.at /\ st2.region = st.region
    /\ st2.noTx = st.noTx /\ st2.err = st.err

LEMMA FlushIs ==
    ASSUME NEW src \in Seq(Chars), NEW esc, NEW mode, Lexed(src, esc, mode), NEW cuts \in SUBSET Nat,
           NEW k, NEW lo, NEW st, Flushable(src, mode, cuts, lo, k, st)
    PROVE  FlushedTo(src, mode, cuts, k, st, flush(src, st, esc))
  <1>a. /\ k \in cuts /\ k \in 1..(Size(src) + 1) /\ At(src, k) \notin {"-", "*", "/"}
        /\ Starts(mode, cuts, lo, k)
        /\ DOMAIN st = Fields /\ st.buf = PieceOf(src, mode, lo, k)
    BY DEF Flushable
  <1> DEFINE stmt == TrimBlanks(src, st.buf)
             more == IF isExecutable(src, stmt, esc) THEN Append(st.out, stmt) ELSE st.out
  <1>1. flush(src, st, esc) = [st EXCEPT !.buf = {}, !.out = more]
    BY <1>a DEF flush, Fields
  <1>2. Size(src) \in Nat /\ lo \in 1..(Size(src) + 1) /\ k \in lo..(Size(src) + 1) /\ mode[lo - 1] = "code"
    BY <1>a DEF Size, Starts
  <1>3. isExecutable(src, stmt, esc) <=> \E j \in st.buf : Solid(src, mode, j)
    BY <1>a, <1>2, ExecutableIsSolid
  <1>4. st.buf = Piece(src, mode, cuts, k)
    BY <1>a, <1>2, PieceIs
  <1>5. more = Cut(src, mode, cuts, st.out, k)
    BY <1>a, <1>3, <1>4 DEF Cut
  <1> HIDE DEF more
  <1>6. QED
    BY <1>a, <1>1, <1>5 DEF Fields, FlushedTo

(* A character taken into the piece, where no cut is and no annotation. *)
Taken(src, mode, i, n, st, st2) ==
    /\ n \in Nat \ {0} /\ i + n <= Size(src) + 1
    /\ \A j \in (i + 1)..(i + n - 1) : ~Coded(mode, j)
    /\ DOMAIN st2 = Fields /\ st2.buf = st.buf \cup i..(i + n - 1) /\ st2.at = i + n
    /\ InMode(src, mode, st2)
    /\ st2.out = st.out /\ st2.region = st.region /\ st2.noTx = st.noTx /\ st2.err = st.err

LEMMA TakeStep ==
    ASSUME NEW src \in Seq(Chars), NEW mode, NEW marks, NEW cuts, NEW found,
           CutFacts(src, mode, marks, cuts),
           NEW i \in 1..Size(src), NEW st, ParsedTo(src, mode, marks, cuts, found, st, i - 1),
           ~st.err, st.at = i, i \notin cuts,
           ~Coded(mode, i) \/ At(src, i) \notin Annotation,
           NEW n, NEW st2, Taken(src, mode, i, n, st, st2)
    PROVE  ParsedTo(src, mode, marks, cuts, found, st2, i)
  <1>a. /\ n \in Nat \ {0} /\ i + n <= Size(src) + 1
        /\ \A j \in (i + 1)..(i + n - 1) : ~Coded(mode, j)
        /\ DOMAIN st2 = Fields /\ st2.buf = st.buf \cup i..(i + n - 1) /\ st2.at = i + n
        /\ InMode(src, mode, st2)
        /\ st2.out = st.out /\ st2.region = st.region /\ st2.noTx = st.noTx /\ st2.err = st.err
    BY DEF Taken
  <1>n. Size(src) \in Nat /\ i \in Nat
    BY DEF Size
  <1>c. marks \in SUBSET Nat /\ i \notin marks /\ cuts \in SUBSET Nat
    BY <1>n DEF CutFacts
  <1>1. ~Misplaced(src, mode, marks, i) /\ ~Dropped(src, mode, i)
    BY DEF Misplaced, Dropped, Annotation
  <1>2. \A j \in (i + 1)..(i + n - 1) : ~Dropped(src, mode, j)
    BY <1>a DEF Dropped
  <1>3. \A k : k \in 1..i <=> k \in 1..(i - 1) \/ k = i
    BY <1>a, <1>n
  <1>4. st2.err <=> \E k \in 1..i : Misplaced(src, mode, marks, k)
    BY <1>a, <1>1, <1>3 DEF ParsedTo
  <1>5. st2.noTx <=> \E k \in 1..i : Dropped(src, mode, k)
    BY <1>a, <1>1, <1>3 DEF ParsedTo
  <1>6. st2.region <=> InRegion(src, marks, i + 1)
    <2>1. st.region <=> InRegion(src, marks, i - 1 + 1)
      BY <1>a DEF ParsedTo
    <2>2. i - 1 + 1 = i
      BY <1>a, <1>n
    <2>3. QED
      BY <1>c, <1>n, <1>a, <2>1, <2>2, Regions
  <1>7. PICK lo \in 1..i : Starts(mode, cuts, lo, i) /\ st.buf = PieceOf(src, mode, lo, i)
    BY <1>n DEF ParsedTo
  <1>8. Starts(mode, cuts, lo, i + 1)
    <2>1. \A c \in cuts : c < i + 1 => c < i
      BY <1>c, <1>n
    <2>2. QED
      BY <1>7, <1>n, <2>1 DEF Starts
  <1>9. st2.buf = PieceOf(src, mode, lo, st2.at)
    <2>1. \A j : j \in lo..(i + n - 1) <=> j \in lo..(i - 1) \/ j \in i..(i + n - 1)
      BY <1>a, <1>n, <1>7
    <2>2. \A j \in i..(i + n - 1) : ~Dropped(src, mode, j)
      BY <1>a, <1>1, <1>2, <1>n
    <2>3. st2.buf = PieceOf(src, mode, lo, i) \cup i..(i + n - 1)
      BY <1>a, <1>7
    <2>4. st2.buf = {j \in lo..(i + n - 1) : ~Dropped(src, mode, j)}
      BY <2>1, <2>2, <2>3 DEF PieceOf
    <2>5. QED
      BY <1>a, <2>4 DEF PieceOf
  <1>10. lo \in 1..(i + 1) /\ st2.at \in (i + 1)..(Size(src) + 1)
    BY <1>a, <1>n, <1>7
  <1>11. st2.err \in BOOLEAN /\ st2.region \in BOOLEAN /\ st2.noTx \in BOOLEAN /\ ~st2.err /\ st2.out = found
    BY <1>a DEF ParsedTo
  <1>12. \A j \in (i + 1)..(st2.at - 1) : ~Coded(mode, j)
    BY <1>a, <1>n
  <1>13. QED
    BY <1>a, <1>4, <1>5, <1>6, <1>8, <1>9, <1>10, <1>11, <1>12 DEF ParsedTo

(* A cut: the piece is flushed, and the next one starts. *)
LEMMA CutStep ==
    ASSUME NEW src \in Seq(Chars), NEW esc, NEW mode, Lexed(src, esc, mode), NEW marks, NEW cuts, NEW found,
           CutFacts(src, mode, marks, cuts),
           NEW i \in 1..Size(src), NEW st, ParsedTo(src, mode, marks, cuts, found, st, i - 1),
           ~st.err, st.at = i, i \in cuts, ~Misplaced(src, mode, marks, i),
           st.mode = "normal",
           NEW st2, DOMAIN st2 = Fields, st2.buf = {}, st2.out = Cut(src, mode, cuts, found, i),
           st2.mode = "normal", st2.at = i + 1, st2.noTx = st.noTx, st2.err = st.err,
           st2.region \in BOOLEAN, st2.region <=> InRegion(src, marks, i + 1)
    PROVE  ParsedTo(src, mode, marks, cuts, Cut(src, mode, cuts, found, i), st2, i)
  <1>n. Size(src) \in Nat /\ i \in Nat
    BY DEF Size
  <1>c. cuts \in SUBSET Nat
    BY <1>n DEF CutFacts
  <1>1. At(src, i) \in {"begin", "end", ";"} /\ Coded(mode, i)
    BY <1>n DEF CutFacts
  <1>2. mode[i] = "code"
    <2>1. mode[i] = Lex("code", At(src, i), At(src, i + 1), esc)
      BY <1>1 DEF Lexed, Coded
    <2>2. At(src, i) \in Blank \cup Annotation \cup {";"}
      BY <1>1 DEF Annotation
    <2>3. QED
      BY <2>1, <2>2, LexOfPlain
  <1>3. ~Dropped(src, mode, i)
    BY <1>1 DEF Dropped
  <1>4. \A k : k \in 1..i <=> k \in 1..(i - 1) \/ k = i
    BY <1>n
  <1>5. st2.err <=> \E k \in 1..i : Misplaced(src, mode, marks, k)
    BY <1>4 DEF ParsedTo
  <1>6. st2.noTx <=> \E k \in 1..i : Dropped(src, mode, k)
    BY <1>3, <1>4 DEF ParsedTo
  <1>7. Starts(mode, cuts, i + 1, i + 1)
    BY <1>n, <1>c, <1>2 DEF Starts
  <1>8. st2.buf = PieceOf(src, mode, i + 1, i + 1)
    BY <1>n DEF PieceOf
  <1>9. InMode(src, mode, st2)
    BY <1>2, <1>n DEF InMode
  <1>10. st2.err \in BOOLEAN /\ st2.noTx \in BOOLEAN /\ ~st2.err
    BY DEF ParsedTo
  <1>11. /\ st2.at \in (i + 1)..(Size(src) + 1) /\ i + 1 \in 1..(i + 1)
         /\ \A j \in (i + 1)..(st2.at - 1) : ~Coded(mode, j)
    BY <1>n
  <1>12. QED
    BY <1>5, <1>6, <1>7, <1>8, <1>9, <1>10, <1>11 DEF ParsedTo

(* What an annotation does. *)
LEMMA AnnotateStep ==
    ASSUME NEW src \in Seq(Chars), NEW esc, NEW mode, Lexed(src, esc, mode), NEW marks, NEW cuts, NEW found,
           CutFacts(src, mode, marks, cuts),
           NEW i \in 1..Size(src), NEW st, ParsedTo(src, mode, marks, cuts, found, st, i - 1),
           ~st.err, st.at = i, st.mode = "normal", At(src, i) \in Annotation
    PROVE  ParsedTo(src, mode, marks, cuts, Cut(src, mode, cuts, found, i), annotate(src, esc, st, i), i)
  <1> DEFINE a == At(src, i)
             past == [st EXCEPT !.at = i + 1]
             st2 == annotate(src, esc, st, i)
  <1>n. Size(src) \in Nat /\ i \in Nat /\ i - 1 + 1 = i
    BY DEF Size
  <1>f. /\ DOMAIN st = Fields
        /\ st.err \in BOOLEAN /\ st.region \in BOOLEAN /\ st.noTx \in BOOLEAN
        /\ st.err <=> \E k \in 1..(i - 1) : Misplaced(src, mode, marks, k)
        /\ InMode(src, mode, st)
        /\ st.region <=> InRegion(src, marks, i)
        /\ st.out = found
        /\ st.noTx <=> \E k \in 1..(i - 1) : Dropped(src, mode, k)
    BY <1>n DEF ParsedTo
  <1>b. PICK lo \in 1..i : Starts(mode, cuts, lo, i) /\ st.buf = PieceOf(src, mode, lo, i)
    BY <1>n DEF ParsedTo
  <1>1. Coded(mode, i)
    BY <1>f DEF InMode, Coded, Quotes, Annotation
  <1>2. mode[i] = "code"
    <2>1. mode[i] = Lex("code", At(src, i), At(src, i + 1), esc)
      BY <1>1 DEF Lexed, Coded
    <2>2. QED
      BY <2>1, LexOfPlain
  <1>3. /\ DOMAIN past = Fields /\ past.at = i + 1
        /\ past.mode = "normal" /\ past.buf = st.buf /\ past.out = st.out /\ past.region = st.region
        /\ past.noTx = st.noTx /\ past.err = st.err
    BY <1>f DEF Fields
  <1>4. \A k : k \in 1..i <=> k \in 1..(i - 1) \/ k = i
    BY <1>n
  <1>5. i \in cuts <=> a \in {"begin", "end"}
    <2>1. a # ";"
      BY DEF Annotation
    <2>2. QED
      BY <1>1, <2>1 DEF CutFacts
  <1>6. i \notin cuts => Cut(src, mode, cuts, found, i) = found
    BY DEF Cut
  <1>r. /\ marks \in SUBSET Nat /\ (a \in {"begin", "end"} <=> i \in marks)
        /\ i \in marks => src[i] = a
    BY <1>1 DEF CutFacts
  <1> HIDE DEF past
  <1>7. CASE a = "notx"
    <2>1. st2 = [past EXCEPT !.noTx = TRUE]
      BY <1>7 DEF annotate, past
    <2>2. /\ DOMAIN st2 = Fields /\ st2.at = i + 1 /\ st2.mode = "normal" /\ st2.buf = st.buf
          /\ st2.out = st.out /\ st2.region = st.region /\ st2.noTx = TRUE /\ st2.err = st.err
      BY <1>3, <2>1 DEF Fields
    <2> HIDE DEF st2
    <2>3. Dropped(src, mode, i) /\ ~Misplaced(src, mode, marks, i)
      BY <1>1, <1>7 DEF Dropped, Misplaced
    <2>4. st2.err <=> \E k \in 1..i : Misplaced(src, mode, marks, k)
      BY <1>4, <1>f, <2>2, <2>3
    <2>5. st2.noTx <=> \E k \in 1..i : Dropped(src, mode, k)
      <3>1. \E k \in 1..i : Dropped(src, mode, k)
        BY <1>4, <2>3
      <3>2. QED
        BY <2>2, <3>1
    <2>6. st2.region <=> InRegion(src, marks, i + 1)
      BY <1>7, <1>f, <1>r, <1>n, <2>2, Regions
    <2>7. Starts(mode, cuts, lo, i + 1)
      <3>1. \A c \in cuts : c < i + 1 => c < i
        <4>1. cuts \in SUBSET Nat
          BY DEF CutFacts
        <4>2. i \notin cuts
          BY <1>5, <1>7
        <4>3. QED
          BY <4>1, <4>2, <1>n
      <3>2. QED
        BY <1>b, <1>n, <3>1 DEF Starts
    <2>8. st2.buf = PieceOf(src, mode, lo, i + 1)
      <3>1. \A j : j \in lo..(i + 1 - 1) <=> j \in lo..(i - 1) \/ j = i
        BY <1>n
      <3>2. QED
        BY <1>b, <2>2, <2>3, <3>1 DEF PieceOf
    <2>9. InMode(src, mode, st2)
      BY <1>2, <1>n, <2>2 DEF InMode
    <2>10. /\ st2.at \in (i + 1)..(Size(src) + 1) /\ lo \in 1..(i + 1)
           /\ \A j \in (i + 1)..(st2.at - 1) : ~Coded(mode, j)
      BY <1>n, <2>2
    <2>11. st2.err \in BOOLEAN /\ st2.region \in BOOLEAN /\ st2.noTx \in BOOLEAN
      BY <1>f, <2>2
    <2>12. st2.out = Cut(src, mode, cuts, found, i)
      BY <1>5, <1>6, <1>7, <1>f, <2>2
    <2>13. ParsedTo(src, mode, marks, cuts, Cut(src, mode, cuts, found, i), st2, i)
      BY <2>2, <2>4, <2>5, <2>6, <2>7, <2>8, <2>9, <2>10, <2>11, <2>12 DEF ParsedTo
    <2>14. QED
      BY <2>13 DEF st2
  <1>8. ASSUME \/ a = "begin" /\ ~st.region
               \/ a = "end" /\ st.region
        PROVE  ParsedTo(src, mode, marks, cuts, Cut(src, mode, cuts, found, i), st2, i)
    <2> DEFINE flushed == flush(src, past, esc)
    <2>1. i \in cuts /\ ~Misplaced(src, mode, marks, i)
      BY <1>5, <1>8, <1>f DEF Misplaced
    <2>2. past.buf = PieceOf(src, mode, lo, i) /\ i \in 1..(Size(src) + 1) /\ a \notin {"-", "*", "/"}
      BY <1>3, <1>8, <1>b, <1>n
    <2>3. Flushable(src, mode, cuts, lo, i, past)
      BY <1>3, <1>b, <2>1, <2>2 DEF Flushable
    <2>4. FlushedTo(src, mode, cuts, i, past, flushed)
      BY <2>3, FlushIs DEF CutFacts
    <2>5. st2 = [flushed EXCEPT !.region = (a = "begin")]
      BY <1>8 DEF annotate, past
    <2> HIDE DEF flushed
    <2>6. /\ DOMAIN st2 = Fields /\ st2.at = i + 1 /\ st2.mode = flushed.mode /\ st2.buf = flushed.buf
          /\ st2.out = flushed.out /\ st2.noTx = flushed.noTx /\ st2.err = flushed.err
          /\ st2.region = (a = "begin")
      BY <1>3, <2>4, <2>5 DEF FlushedTo, Fields
    <2>7. st2.region \in BOOLEAN /\ (st2.region <=> InRegion(src, marks, i + 1))
      <3>1. InRegion(src, marks, i + 1) <=> a = "begin"
        BY <1>8, <1>r, <1>n, Regions
      <3>2. QED
        BY <2>6, <3>1
    <2> HIDE DEF st2
    <2>8. ParsedTo(src, mode, marks, cuts, Cut(src, mode, cuts, found, i), st2, i)
      <3>1. /\ st2.buf = {} /\ st2.out = Cut(src, mode, cuts, found, i) /\ st2.mode = "normal"
            /\ st2.noTx = st.noTx /\ st2.err = st.err
        BY <1>3, <1>f, <2>4, <2>6 DEF FlushedTo
      <3>2. QED
        BY <2>1, <2>6, <2>7, <3>1, CutStep
    <2>9. QED
      BY <2>8
  <1>9. ASSUME a # "notx", ~(a = "begin" /\ ~st.region), ~(a = "end" /\ st.region)
        PROVE  ParsedTo(src, mode, marks, cuts, Cut(src, mode, cuts, found, i), st2, i)
    <2>1. st2 = [past EXCEPT !.err = TRUE]
      BY <1>9 DEF annotate, past
    <2>2. DOMAIN st2 = Fields /\ st2.err = TRUE /\ st2.region = st.region /\ st2.noTx = st.noTx
      BY <1>3, <2>1 DEF Fields
    <2>3. Misplaced(src, mode, marks, i)
      BY <1>1, <1>9, <1>f DEF Misplaced, Annotation
    <2>4. \E k \in 1..i : Misplaced(src, mode, marks, k)
      BY <1>4, <2>3
    <2> HIDE DEF st2
    <2>5. QED
      BY <1>f, <2>2, <2>4 DEF ParsedTo
  <1>10. QED
    BY <1>7, <1>8, <1>9

(* What is read of a line. *)
LEMMA LineStep ==
    ASSUME NEW src \in Seq(Chars), NEW esc, NEW mode, Lexed(src, esc, mode), NEW marks, NEW cuts, NEW found,
           CutFacts(src, mode, marks, cuts),
           NEW i \in 1..Size(src), NEW st, ParsedTo(src, mode, marks, cuts, found, st, i - 1),
           ~st.err, st.at = i, ~(st.mode = "normal" /\ At(src, i) \in Annotation)
    PROVE  ParsedTo(src, mode, marks, cuts, Cut(src, mode, cuts, found, i), scanLine(src, esc, st, i), i)
  <1> DEFINE c == At(src, i)
             next == At(src, i + 1)
             st2 == scanLine(src, esc, st, i)
             take(n, m) == [st EXCEPT !.buf = @ \cup i..(i + n - 1), !.at = i + n, !.mode = m]
  <1>n. /\ Size(src) \in Nat /\ i \in Nat /\ i - 1 + 1 = i
        /\ Len(src) \in Nat /\ DOMAIN src = 1..Len(src) /\ Size(src) = Len(src) + 1
    BY DEF Size
  <1>f. /\ DOMAIN st = Fields /\ st.region \in BOOLEAN
        /\ InMode(src, mode, st)
        /\ st.region <=> InRegion(src, marks, i)
        /\ st.out = found
    BY <1>n DEF ParsedTo
  <1>m. mode[i] = Lex(mode[i - 1], c, next, esc)
    BY DEF Lexed
  <1>x. next # "nl" => i + 1 <= Size(src) /\ mode[i + 1] = Lex(mode[i], next, At(src, i + 2), esc)
    <2>1. next # "nl" => i + 1 \in DOMAIN src
      BY DEF At
    <2>2. i + 1 + 1 = i + 2 /\ i + 1 - 1 = i
      BY <1>n
    <2>3. QED
      BY <1>n, <2>1, <2>2 DEF Lexed
  <1>t. ASSUME NEW n \in Nat \ {0}, NEW m
        PROVE  /\ DOMAIN take(n, m) = Fields /\ take(n, m).buf = st.buf \cup i..(i + n - 1)
               /\ take(n, m).at = i + n /\ take(n, m).mode = m
               /\ take(n, m).out = st.out /\ take(n, m).region = st.region /\ take(n, m).noTx = st.noTx
               /\ take(n, m).err = st.err
    BY <1>f DEF Fields
  <1> HIDE DEF take
  <1>k. ASSUME NEW n \in Nat \ {0}, NEW m, i + n <= Size(src) + 1,
               \A j \in (i + 1)..(i + n - 1) : ~Coded(mode, j),
               \/ m = "normal" /\ mode[i + n - 1] = "code"
               \/ m = "normal" /\ mode[i + n - 1] = "line" /\ At(src, i + n) = "nl" /\ i + n <= Size(src)
               \/ m = "block" /\ mode[i + n - 1] = "block"
               \/ m \in Quotes /\ mode[i + n - 1] = m,
               i \notin cuts, ~Coded(mode, i) \/ c \notin Annotation
        PROVE  ParsedTo(src, mode, marks, cuts, Cut(src, mode, cuts, found, i), take(n, m), i)
    <2>1. InMode(src, mode, take(n, m))
      BY <1>k, <1>t DEF InMode
    <2>2. Taken(src, mode, i, n, st, take(n, m))
      BY <1>k, <1>t, <2>1 DEF Taken
    <2>3. Cut(src, mode, cuts, found, i) = found
      BY <1>k DEF Cut
    <2>4. QED
      BY <1>k, <2>2, <2>3, TakeStep
  <1>1. CASE ~Coded(mode, i)
    <2>1. i \notin cuts
      BY <1>1 DEF CutFacts
    <2>k. ASSUME NEW m,
                 \/ m = "normal" /\ mode[i] = "code"
                 \/ m = "block" /\ mode[i] = "block"
                 \/ m \in Quotes /\ mode[i] = m
          PROVE  ParsedTo(src, mode, marks, cuts, Cut(src, mode, cuts, found, i), take(1, m), i)
      <3>1. i + 1 - 1 = i /\ i + 1 <= Size(src) + 1 /\ 1 \in Nat \ {0} /\ \A j \in (i + 1)..(i + 1 - 1) : FALSE
        BY <1>n
      <3>2. QED
        BY <1>1, <1>k, <2>1, <2>k, <3>1
    <2>kk. ASSUME NEW m, ~Coded(mode, i + 1), i + 1 <= Size(src),
                  \/ m = "normal" /\ mode[i + 1] = "code"
                  \/ m \in Quotes /\ mode[i + 1] = m
           PROVE  ParsedTo(src, mode, marks, cuts, Cut(src, mode, cuts, found, i), take(2, m), i)
      <3>1. i + 2 - 1 = i + 1 /\ i + 2 <= Size(src) + 1 /\ 2 \in Nat \ {0} /\ \A j \in (i + 1)..(i + 2 - 1) : j = i + 1
        BY <1>n, <2>kk
      <3>2. QED
        BY <1>1, <1>k, <2>1, <2>kk, <3>1
    <2>2. CASE st.mode \in Quotes
      <3>1. mode[i - 1] = st.mode
        BY <1>f, <2>2 DEF InMode, Quotes
      <3>l. mode[i] = Lex(st.mode, c, next, esc)
        BY <1>m, <3>1
      <3>2. st2 = IF Escapes(st.mode, c, next, esc) THEN take(2, st.mode)
                  ELSE take(1, IF c = st.mode THEN "normal" ELSE st.mode)
        BY <2>2 DEF scanLine, take, Quotes
      <3>3. CASE Escapes(st.mode, c, next, esc)
        <4>1. st2 = take(2, st.mode)
          BY <3>2, <3>3
        <4>0. next # "nl" /\ st.mode # "bt"
          BY <3>3 DEF Escapes
        <4>2. c # st.mode
          BY <2>2, <3>3 DEF Quotes, Escapes
        <4>3. mode[i] = IF st.mode = "sq" THEN "escapeSq" ELSE "escapeDq"
          BY <2>2, <3>l, <3>3, <4>2, LexOfQuoted
        <4>4. mode[i + 1] = st.mode /\ ~Coded(mode, i + 1)
          <5>1. i + 1 - 1 = i
            BY <1>n
          <5>2. CASE st.mode = "sq"
            <6>1. mode[i] = "escapeSq" /\ mode[i + 1] = Lex("escapeSq", next, At(src, i + 2), esc)
              BY <1>x, <4>0, <4>3, <5>2
            <6>2. mode[i + 1] = "sq"
              BY <6>1, LexOfEscaped
            <6>3. ~Coded(mode, i + 1)
              <7>1. mode[i + 1 - 1] = "escapeSq"
                BY <5>1, <6>1
              <7>2. QED
                BY <7>1 DEF Coded
            <6>4. QED
              BY <5>2, <6>2, <6>3
          <5>3. CASE st.mode = "dq"
            <6>1. mode[i] = "escapeDq" /\ mode[i + 1] = Lex("escapeDq", next, At(src, i + 2), esc)
              BY <1>x, <4>0, <4>3, <5>3
            <6>2. mode[i + 1] = "dq"
              BY <6>1, LexOfEscaped
            <6>3. ~Coded(mode, i + 1)
              <7>1. mode[i + 1 - 1] = "escapeDq"
                BY <5>1, <6>1
              <7>2. QED
                BY <7>1 DEF Coded
            <6>4. QED
              BY <5>3, <6>2, <6>3
          <5>4. QED
            BY <2>2, <4>0, <5>2, <5>3 DEF Quotes
        <4>5. QED
          BY <1>x, <2>2, <2>kk, <4>0, <4>1, <4>4
      <3>4. CASE ~Escapes(st.mode, c, next, esc)
        <4>1. st2 = take(1, IF c = st.mode THEN "normal" ELSE st.mode)
          BY <3>2, <3>4
        <4>2. mode[i] = IF c = st.mode THEN "code" ELSE st.mode
          BY <2>2, <3>l, <3>4, LexOfQuoted
        <4>3. CASE c = st.mode
          BY <2>k, <4>1, <4>2, <4>3
        <4>4. CASE c # st.mode
          BY <2>2, <2>k, <4>1, <4>2, <4>4
        <4>5. QED
          BY <4>3, <4>4
      <3>5. QED
        BY <3>3, <3>4
    <2>3. CASE st.mode = "block"
      <3>1. mode[i - 1] = "block"
        BY <1>f, <2>3 DEF InMode, Quotes
      <3>2. st2 = IF BlockEnds(c, next) THEN take(2, "normal") ELSE take(1, "block")
        BY <2>3 DEF scanLine, take, Quotes
      <3>3. mode[i] = IF BlockEnds(c, next) THEN "close" ELSE "block"
        BY <1>m, <3>1, LexOfOther
      <3>4. CASE BlockEnds(c, next)
        <4>1. next # "nl" /\ mode[i] = "close"
          BY <3>3, <3>4 DEF BlockEnds
        <4>2. mode[i + 1] = "code" /\ ~Coded(mode, i + 1)
          <5>1. i + 1 - 1 = i
            BY <1>n
          <5>2. QED
            BY <1>x, <4>1, <5>1, LexOfOther DEF Coded
        <4>3. QED
          BY <1>x, <2>kk, <3>2, <3>4, <4>1, <4>2
      <3>5. CASE ~BlockEnds(c, next)
        BY <2>k, <3>2, <3>3, <3>5
      <3>6. QED
        BY <3>4, <3>5
    <2>4. CASE st.mode = "normal"
      <3>1. mode[i - 1] = "line" /\ c = "nl"
        BY <1>1, <1>f, <2>4 DEF InMode, Coded, Quotes
      <3>2. mode[i] = "code"
        BY <1>m, <3>1, LexOfOther
      <3>3. st2 = take(1, "normal")
        BY <2>4, <3>1 DEF scanLine, take, Quotes, LineComment, BlockComment
      <3>4. QED
        BY <2>k, <3>2, <3>3
    <2>5. QED
      BY <1>f, <2>2, <2>3, <2>4 DEF InMode
  <1>2. CASE Coded(mode, i)
    <2>1. st.mode = "normal" /\ mode[i - 1] = "code" /\ c \notin Annotation
      BY <1>2, <1>f DEF InMode, Coded, Quotes
    <2>2. st2 = IF LineComment(c, next, esc) THEN take(EndOfLine(src, i) - i, "normal")
                ELSE IF BlockComment(c, next) THEN take(2, "block")
                ELSE IF c \in Quotes THEN take(1, c)
                ELSE IF c = ";" /\ SplitsOutside(st.region) THEN [flush(src, st, esc) EXCEPT !.at = i + 1]
                ELSE take(1, "normal")
      BY <2>1 DEF scanLine, take, Quotes
    <2>3. i \in cuts <=> c = ";" /\ ~st.region
      <3>1. i \notin marks
        BY <2>1 DEF CutFacts, Annotation
      <3>2. QED
        BY <1>2, <1>f, <3>1 DEF CutFacts
    <2>4. CASE LineComment(c, next, esc)
      <3> DEFINE e == EndOfLine(src, i)
      <3>1. e \in i..Size(src) /\ At(src, e) = "nl" /\ \A j \in i..(e - 1) : At(src, j) # "nl"
        BY EndOfLineIs
      <3>2. c \in {"-", "#"} /\ st2 = take(e - i, "normal")
        BY <2>2, <2>4 DEF LineComment
      <3> HIDE DEF e
      <3>3. e # i /\ e - i \in Nat \ {0} /\ i + (e - i) = e
        BY <1>n, <3>1, <3>2
      <3>4. mode[i] = "line"
        BY <1>m, <2>1, <2>4, LexOfCode
      <3>5. \A k \in i..(e - 1) : mode[k] = "line"
        <4>1. \A j \in (i + 1)..(e - 1) : At(src, j) # "nl"
          BY <1>n, <3>1
        <4>2. QED
          BY <3>1, <3>4, <4>1, CommentLasts
      <3>6. \A j \in (i + 1)..(e - 1) : ~Coded(mode, j)
        <4>1. ASSUME NEW j \in (i + 1)..(e - 1) PROVE mode[j - 1] = "line"
          <5>1. j - 1 \in i..(e - 1)
            BY <1>n, <3>1
          <5>2. QED
            BY <3>5, <5>1
        <4>2. QED
          BY <4>1 DEF Coded
      <3>7. mode[e - 1] = "line" /\ e <= Size(src)
        BY <1>n, <3>1, <3>3, <3>5
      <3>8. i \notin cuts
        BY <2>3, <3>2
      <3>9. QED
        BY <1>n, <1>k, <2>1, <3>1, <3>2, <3>3, <3>6, <3>7, <3>8
    <2>5. CASE ~LineComment(c, next, esc) /\ BlockComment(c, next)
      <3>1. c = "/" /\ next # "nl" /\ mode[i] = "open" /\ st2 = take(2, "block")
        BY <1>m, <2>1, <2>2, <2>5, LexOfCode DEF BlockComment
      <3>2. mode[i + 1] = "block" /\ ~Coded(mode, i + 1)
        <4>1. i + 1 - 1 = i
          BY <1>n
        <4>2. QED
          BY <1>x, <3>1, <4>1, LexOfOther DEF Coded
      <3>3. i \notin cuts
        BY <2>3, <3>1
      <3>4. i + 2 - 1 = i + 1 /\ i + 2 <= Size(src) + 1 /\ 2 \in Nat \ {0} /\ \A j \in (i + 1)..(i + 2 - 1) : j = i + 1
        BY <1>n, <1>x, <3>1
      <3>5. QED
        BY <1>k, <2>1, <3>1, <3>2, <3>3, <3>4
    <2>6. CASE ~LineComment(c, next, esc) /\ ~BlockComment(c, next)
      <3>n. i + 1 - 1 = i /\ i + 1 <= Size(src) + 1 /\ 1 \in Nat \ {0} /\ \A j \in (i + 1)..(i + 1 - 1) : FALSE
        BY <1>n
      <3>1. CASE c \in Quotes
        <4>1. mode[i] = c /\ st2 = take(1, c) /\ i \notin cuts
          BY <1>m, <2>1, <2>2, <2>3, <2>6, <3>1, LexOfCode DEF Quotes
        <4>2. QED
          BY <1>k, <2>1, <3>1, <3>n, <4>1
      <3>2. CASE c \notin Quotes /\ ~(c = ";" /\ ~st.region)
        <4>1. mode[i] = "code" /\ st2 = take(1, "normal") /\ i \notin cuts
          BY <1>m, <2>1, <2>2, <2>3, <2>6, <3>2, LexOfCode DEF SplitsOutside
        <4>2. QED
          BY <1>k, <2>1, <3>n, <4>1
      <3>3. CASE c \notin Quotes /\ c = ";" /\ ~st.region
        <4> DEFINE flushed == flush(src, st, esc)
        <4>1. st2 = [flushed EXCEPT !.at = i + 1] /\ i \in cuts
          BY <2>2, <2>3, <2>6, <3>3 DEF SplitsOutside
        <4>2. PICK lo \in 1..i : Starts(mode, cuts, lo, i) /\ st.buf = PieceOf(src, mode, lo, i)
          BY <1>n DEF ParsedTo
        <4>3. Flushable(src, mode, cuts, lo, i, st)
          <5>1. i \in 1..(Size(src) + 1)
            BY <1>n
          <5>2. c \notin {"-", "*", "/"}
            BY <3>3
          <5>3. QED
            BY <1>f, <4>1, <4>2, <5>1, <5>2 DEF Flushable
        <4>4. FlushedTo(src, mode, cuts, i, st, flushed)
          BY <4>3, FlushIs DEF CutFacts
        <4> HIDE DEF flushed
        <4>5. /\ DOMAIN st2 = Fields /\ st2.at = i + 1 /\ st2.mode = "normal" /\ st2.buf = {}
              /\ st2.out = Cut(src, mode, cuts, found, i) /\ st2.noTx = st.noTx /\ st2.err = st.err
              /\ st2.region = st.region
          BY <1>f, <2>1, <4>1, <4>4 DEF FlushedTo, Fields
        <4>6. ~Misplaced(src, mode, marks, i)
          BY <3>3 DEF Misplaced
        <4>7. st2.region \in BOOLEAN /\ (st2.region <=> InRegion(src, marks, i + 1))
          <5>1. marks \in SUBSET Nat /\ i \notin marks
            BY <2>1 DEF CutFacts, Annotation
          <5>2. QED
            BY <1>f, <1>n, <4>5, <5>1, Regions
        <4> HIDE DEF st2
        <4>8. ParsedTo(src, mode, marks, cuts, Cut(src, mode, cuts, found, i), st2, i)
          BY <2>1, <4>1, <4>5, <4>6, <4>7, CutStep
        <4>9. QED
          BY <4>8 DEF st2
      <3>4. QED
        BY <3>1, <3>2, <3>3
    <2>7. QED
      BY <2>4, <2>5, <2>6
  <1>3. QED
    BY <1>1, <1>2

LEMMA ReadStep ==
    ASSUME NEW src \in Seq(Chars), NEW esc, NEW mode, Lexed(src, esc, mode), NEW marks, NEW cuts, NEW found,
           CutFacts(src, mode, marks, cuts),
           NEW i \in 1..Size(src), NEW st, ParsedTo(src, mode, marks, cuts, found, st, i - 1)
    PROVE  ParsedTo(src, mode, marks, cuts, Cut(src, mode, cuts, found, i), read(src, esc, st, i), i)
  <1> DEFINE st2 == read(src, esc, st, i)
  <1>n. Size(src) \in Nat /\ i \in Nat /\ i - 1 + 1 = i
    BY DEF Size
  <1>f. DOMAIN st = Fields /\ st.err \in BOOLEAN /\ st.region \in BOOLEAN /\ st.noTx \in BOOLEAN
    BY DEF ParsedTo
  <1>k. \A k : k \in 1..i <=> k \in 1..(i - 1) \/ k = i
    BY <1>n
  <1>1. CASE st.err
    <2>1. st2 = st
      BY <1>1 DEF read
    <2>2. \E k \in 1..i : Misplaced(src, mode, marks, k)
      BY <1>1, <1>k DEF ParsedTo
    <2>3. QED
      BY <1>1, <1>f, <2>1, <2>2 DEF ParsedTo
  <1>2. CASE ~st.err /\ st.at > i
    <2>1. st2 = st
      BY <1>2 DEF read
    <2>2. /\ st.err <=> \E k \in 1..(i - 1) : Misplaced(src, mode, marks, k)
          /\ st.at \in i..(Size(src) + 1)
          /\ InMode(src, mode, st)
          /\ \A j \in i..(st.at - 1) : ~Coded(mode, j)
          /\ st.region <=> InRegion(src, marks, i)
          /\ st.out = found
          /\ st.noTx <=> \E k \in 1..(i - 1) : Dropped(src, mode, k)
      BY <1>2, <1>n DEF ParsedTo
    <2>3. PICK lo \in 1..i : Starts(mode, cuts, lo, i) /\ st.buf = PieceOf(src, mode, lo, st.at)
      BY <1>2, <1>n DEF ParsedTo
    <2>4. ~Coded(mode, i)
      BY <1>2, <1>n, <2>2
    <2>5. ~Misplaced(src, mode, marks, i) /\ ~Dropped(src, mode, i)
      BY <2>4 DEF Misplaced, Dropped
    <2>6. i \notin cuts /\ i \notin marks /\ marks \in SUBSET Nat /\ cuts \in SUBSET Nat
      BY <2>4 DEF CutFacts
    <2>7. st.region <=> InRegion(src, marks, i + 1)
      BY <1>n, <2>2, <2>6, Regions
    <2>8. Starts(mode, cuts, lo, i + 1) /\ lo \in 1..(i + 1)
      <3>1. \A c \in cuts : c < i + 1 => c < i
        BY <1>n, <2>6
      <3>2. QED
        BY <1>n, <2>3, <3>1 DEF Starts
    <2>9. Cut(src, mode, cuts, found, i) = found
      BY <2>6 DEF Cut
    <2>10. st.err <=> \E k \in 1..i : Misplaced(src, mode, marks, k)
      BY <1>k, <2>2, <2>5
    <2>11. st.noTx <=> \E k \in 1..i : Dropped(src, mode, k)
      BY <1>k, <2>2, <2>5
    <2>12. st.at \in (i + 1)..(Size(src) + 1) /\ \A j \in (i + 1)..(st.at - 1) : ~Coded(mode, j)
      BY <1>2, <1>n, <2>2
    <2>13. ParsedTo(src, mode, marks, cuts, found, st, i)
      BY <1>2, <1>f, <2>2, <2>3, <2>7, <2>8, <2>10, <2>11, <2>12 DEF ParsedTo
    <2>14. QED
      BY <2>1, <2>9, <2>13
  <1>3. CASE ~st.err /\ ~(st.at > i)
    <2>1. st.at = i
      BY <1>3, <1>n DEF ParsedTo
    <2>2. CASE st.mode = "normal" /\ At(src, i) \in Annotation
      <3>1. st2 = annotate(src, esc, st, i)
        BY <1>3, <2>2 DEF read
      <3>2. QED
        BY <1>3, <2>1, <2>2, <3>1, AnnotateStep
    <2>3. CASE ~(st.mode = "normal" /\ At(src, i) \in Annotation)
      <3>1. st2 = scanLine(src, esc, st, i)
        BY <1>3, <2>3 DEF read
      <3>2. QED
        BY <1>3, <2>1, <2>3, <3>1, LineStep
    <2>4. QED
      BY <2>2, <2>3
  <1>4. QED
    BY <1>1, <1>2, <1>3

(* parseScript finds what the modes and the cuts say, in every script. *)
THEOREM ScriptsSplitWhereTheyEnd ==
    ASSUME NEW src \in Seq(Chars), NEW esc
    PROVE  parseScript(src, esc) = RefScript(src, esc)
  <1> DEFINE mode == RefModes(src, esc)
             marks == Marks(src, mode)
             cuts == Cuts(src, mode, marks)
             found == SplitOf(src, mode, cuts)
             after == ParseOf(src, esc)
             end == after[Size(src)]
             Good == {i \in 0..Size(src) : ParsedTo(src, mode, marks, cuts, found[i], after[i], i)}
  <1>n. Size(src) \in Nat /\ Size(src) >= 1 /\ Len(src) \in Nat /\ DOMAIN src = 1..Len(src) /\ Size(src) = Len(src) + 1
    BY DEF Size
  <1>l. Lexed(src, esc, mode)
    BY RefIsLexed
  <1>c. CutFacts(src, mode, marks, cuts)
    BY CutsAre
  <1>p. /\ parseScript(src, esc) = Result(src, esc, end)
        /\ after[0] = Unread
        /\ \A k \in 1..Size(src) : after[k] = read(src, esc, after[k - 1], k)
    BY ReadsUnfold
  <1>s. /\ RefSplit(src, mode, cuts) = found[Size(src) + 1]
        /\ found[0] = <<>>
        /\ \A k \in 1..(Size(src) + 1) : found[k] = Cut(src, mode, cuts, found[k - 1], k)
    BY CutsUnfold
  <1>r. /\ RefAccepts(src, esc) <=> /\ \A k \in DOMAIN src : ~Misplaced(src, mode, marks, k)
                                    /\ ~InRegion(src, marks, Size(src) + 1)
                                    /\ mode[Size(src)] = "code"
        /\ RefScript(src, esc) = IF RefAccepts(src, esc)
                                 THEN [ok |-> TRUE, statements |-> RefSplit(src, mode, cuts),
                                       noTx |-> \E k \in DOMAIN src : Dropped(src, mode, k)]
                                 ELSE Failed
    BY DEF RefAccepts, RefScript
  <1> HIDE DEF mode, marks, cuts, found, after
  <1>1. 0 \in Good
    <2>1. /\ DOMAIN Unread = Fields /\ Unread.mode = "normal" /\ Unread.buf = {} /\ Unread.out = <<>>
          /\ Unread.at = 1 /\ Unread.region = FALSE /\ Unread.noTx = FALSE /\ Unread.err = FALSE
      BY DEF Unread, Fields
    <2>2. \A k \in 1..0 : FALSE
      OBVIOUS
    <2>3. InMode(src, mode, Unread)
      BY <2>1, <1>l DEF InMode, Lexed
    <2>4. ~InRegion(src, marks, 0 + 1)
      <3>1. \A a \in marks : ~(a < 0 + 1)
        <4>1. \A a \in Marks(src, mode) : a \in 1..Len(src)
          BY <1>n DEF Marks
        <4>2. QED
          BY <4>1, <1>n DEF marks
      <3>2. QED
        BY <3>1 DEF InRegion
    <2>5. Starts(mode, cuts, 1, 0 + 1)
      <3>1. \A c \in cuts : c < 0 + 1 => c < 1
        <4>1. cuts \in SUBSET Nat
          BY <1>c DEF CutFacts
        <4>2. QED
          BY <4>1
      <3>2. QED
        BY <1>l, <3>1 DEF Starts, Lexed
    <2>6. Unread.buf = PieceOf(src, mode, 1, Unread.at)
      BY <2>1 DEF PieceOf
    <2>7. Unread.at \in (0 + 1)..(Size(src) + 1) /\ 1 \in 1..(0 + 1) /\ \A j \in (0 + 1)..(Unread.at - 1) : FALSE
      BY <2>1, <1>n
    <2>8. Unread.out = found[0]
      BY <2>1, <1>s
    <2> HIDE DEF Unread
    <2>9. ParsedTo(src, mode, marks, cuts, found[0], Unread, 0)
      BY <2>1, <2>2, <2>3, <2>4, <2>5, <2>6, <2>7, <2>8 DEF ParsedTo
    <2>10. QED
      BY <1>n, <1>p, <2>9
  <1>2. ASSUME NEW i \in 1..Size(src), i - 1 \in Good PROVE i \in Good
    <2>1. ParsedTo(src, mode, marks, cuts, found[i - 1], after[i - 1], i - 1)
      BY <1>2
    <2>2. ParsedTo(src, mode, marks, cuts, Cut(src, mode, cuts, found[i - 1], i), read(src, esc, after[i - 1], i), i)
      BY <1>c, <1>l, <2>1, ReadStep
    <2>3. after[i] = read(src, esc, after[i - 1], i) /\ found[i] = Cut(src, mode, cuts, found[i - 1], i)
      BY <1>n, <1>p, <1>s
    <2>4. QED
      BY <1>n, <2>2, <2>3
  <1>3. ParsedTo(src, mode, marks, cuts, found[Size(src)], end, Size(src))
    <2> HIDE DEF Good
    <2>1. 0..Size(src) \subseteq Good
      BY <1>1, <1>2, <1>n, UpTo
    <2>2. Size(src) \in Good
      BY <2>1, <1>n
    <2>3. QED
      BY <2>2 DEF Good
  <1> HIDE DEF end
  <1>4. At(src, Size(src)) = "nl"
    BY <1>n DEF At
  <1>5. end.err <=> \E k \in DOMAIN src : Misplaced(src, mode, marks, k)
    <2>1. ~Misplaced(src, mode, marks, Size(src))
      BY <1>4 DEF Misplaced
    <2>2. \A k : k \in 1..Size(src) <=> k \in DOMAIN src \/ k = Size(src)
      BY <1>n
    <2>3. QED
      BY <1>3, <2>1, <2>2 DEF ParsedTo
  <1>6. CASE end.err
    BY <1>5, <1>6, <1>p, <1>r DEF Result
  <1>7. CASE ~end.err
    <2>1. /\ DOMAIN end = Fields /\ end.noTx \in BOOLEAN
          /\ end.at \in (Size(src) + 1)..(Size(src) + 1)
          /\ InMode(src, mode, end)
          /\ end.region <=> InRegion(src, marks, Size(src) + 1)
          /\ \E lo \in 1..(Size(src) + 1) : Starts(mode, cuts, lo, Size(src) + 1) /\ end.buf = PieceOf(src, mode, lo, end.at)
          /\ end.out = found[Size(src)]
          /\ end.noTx <=> \E k \in 1..Size(src) : Dropped(src, mode, k)
      BY <1>3, <1>7 DEF ParsedTo
    <2>2. end.at = Size(src) + 1 /\ end.at - 1 = Size(src) /\ ~(end.at <= Size(src))
      BY <1>n, <2>1
    <2>3. end.mode = "normal" <=> mode[Size(src)] = "code"
      BY <2>1, <2>2 DEF InMode, Quotes
    <2>4. end.noTx <=> \E k \in DOMAIN src : Dropped(src, mode, k)
      <3>1. ~Dropped(src, mode, Size(src))
        BY <1>4 DEF Dropped
      <3>2. \A k : k \in 1..Size(src) <=> k \in DOMAIN src \/ k = Size(src)
        BY <1>n
      <3>3. QED
        BY <2>1, <3>1, <3>2
    <2>5. flush(src, end, esc).out = found[Size(src) + 1]
      <3>1. PICK lo \in 1..(Size(src) + 1) :
                Starts(mode, cuts, lo, Size(src) + 1) /\ end.buf = PieceOf(src, mode, lo, Size(src) + 1)
        BY <2>1, <2>2
      <3>2. At(src, Size(src) + 1) = "nl"
        BY <1>n DEF At
      <3>3. Size(src) + 1 \in cuts /\ cuts \in SUBSET Nat
        BY <1>c DEF CutFacts
      <3>4. Flushable(src, mode, cuts, lo, Size(src) + 1, end)
        BY <1>n, <2>1, <3>1, <3>2, <3>3 DEF Flushable
      <3>5. FlushedTo(src, mode, cuts, Size(src) + 1, end, flush(src, end, esc))
        BY <1>l, <3>3, <3>4, FlushIs
      <3>6. found[Size(src) + 1] = Cut(src, mode, cuts, found[Size(src)], Size(src) + 1)
        <4>1. Size(src) + 1 \in 1..(Size(src) + 1) /\ Size(src) + 1 - 1 = Size(src)
          BY <1>n
        <4>2. ASSUME NEW k \in 1..(Size(src) + 1), k - 1 = Size(src)
              PROVE  found[k] = Cut(src, mode, cuts, found[Size(src)], k)
          BY <1>s, <4>2
        <4>3. QED
          BY <1>n, <4>1, <4>2
      <3>7. QED
        BY <2>1, <3>5, <3>6 DEF FlushedTo
    <2>6. RefAccepts(src, esc) <=> ~(end.err \/ end.region \/ end.mode # "normal")
      BY <1>5, <1>7, <1>r, <2>1, <2>3
    <2>7. CASE RefAccepts(src, esc)
      <3>1. Result(src, esc, end) = [ok |-> TRUE, statements |-> flush(src, end, esc).out, noTx |-> end.noTx]
        BY <2>6, <2>7 DEF Result
      <3>2. end.noTx = \E k \in DOMAIN src : Dropped(src, mode, k)
        BY <2>1, <2>4
      <3>3. QED
        BY <1>p, <1>r, <1>s, <2>5, <2>7, <3>1, <3>2
    <2>8. CASE ~RefAccepts(src, esc)
      BY <1>p, <1>r, <2>6, <2>8 DEF Result
    <2>9. QED
      BY <2>7, <2>8
  <1>8. QED
    BY <1>6, <1>7

-----------------------------------------------------------------------------
(***************************************************************************)
(* loadMigrations, next to what a well-formed set of files holds.          *)
(***************************************************************************)

(* A finite set listed: each element once. *)
LEMMA ListingIs ==
    ASSUME NEW S, IsFiniteSet(S)
    PROVE  /\ SetToSeq(S) \in Seq(S)
           /\ \A e \in S : \E k \in 1..Len(SetToSeq(S)) : SetToSeq(S)[k] = e
           /\ \A j, k \in 1..Len(SetToSeq(S)) : SetToSeq(S)[j] = SetToSeq(S)[k] => j = k
  <1> DEFINE n == Cardinality(S)
             s == SetToSeq(S)
  <1>1. n \in Nat /\ ExistsBijection(1..n, S)
    BY FS_CardinalityType
  <1>2. PICK b : b \in Bijection(1..n, S)
    BY <1>1, Fun_ExistsBij
  <1>3. b \in [1..n -> S] /\ IsInjective(b)
    <2>1. b \in [1..n -> S] /\ \A x, y \in 1..n : b[x] = b[y] => x = y
      BY <1>2, Fun_BijectionProperties
    <2>2. QED
      BY <2>1 DEF IsInjective
  <1>4. s \in [1..n -> S] /\ IsInjective(s)
    BY <1>3 DEF SetToSeq
  <1> HIDE DEF s
  <1>5. s \in Seq(S) /\ Len(s) = n
    BY <1>1, <1>4
  <1>6. \A j, k \in 1..n : s[j] = s[k] => j = k
    BY <1>4 DEF IsInjective
  <1>7. s \in Injection(1..n, S)
    BY <1>4, <1>6, Fun_IsInj
  <1>8. Cardinality(1..n) = n
    BY <1>1, FS_Interval
  <1>9. s \in Surjection(1..n, S)
    BY <1>7, <1>8, FS_Injection
  <1>10. \A e \in S : \E k \in 1..n : s[k] = e
    BY <1>9 DEF Surjection
  <1>11. QED
    BY <1>5, <1>6, <1>10 DEF s

(* Every up and every down is read once, the ups first. *)
ReadOnce(entries, r) ==
    /\ r \in Seq(entries)
    /\ \A e \in Of("up", entries) \cup Of("down", entries) : \E k \in 1..Len(r) : r[k] = e
    /\ \A j, k \in 1..Len(r) : r[j] = r[k] => j = k
    /\ \A j, k \in 1..Len(r) : j < k /\ r[j].form = "down" => r[k].form = "down"
    /\ \A k \in 1..Len(r) : r[k].form \in {"up", "down"}

LEMMA ReadsIs ==
    ASSUME NEW entries, IsFiniteSet(entries)
    PROVE  ReadOnce(entries, Reads(entries))
  <1> DEFINE U == Of("up", entries)
             D == Of("down", entries)
             u == SetToSeq(U)
             w == SetToSeq(D)
             r == u \o w
  <1>1. U \in SUBSET entries /\ D \in SUBSET entries /\ (\A e \in U : e.form = "up") /\ \A e \in D : e.form = "down"
    BY DEF Of
  <1>2. IsFiniteSet(U) /\ IsFiniteSet(D)
    BY <1>1, FS_Subset
  <1> HIDE DEF U, D
  <1>3. /\ u \in Seq(U) /\ \A e \in U : \E k \in 1..Len(u) : u[k] = e
        /\ \A j, k \in 1..Len(u) : u[j] = u[k] => j = k
    BY <1>2, ListingIs
  <1>4. /\ w \in Seq(D) /\ \A e \in D : \E k \in 1..Len(w) : w[k] = e
        /\ \A j, k \in 1..Len(w) : w[j] = w[k] => j = k
    BY <1>2, ListingIs
  <1> HIDE DEF u, w
  <1>5. Len(u) \in Nat /\ Len(w) \in Nat
    BY <1>3, <1>4
  <1>6. u \in Seq(entries) /\ w \in Seq(entries)
    BY <1>1, <1>3, <1>4
  <1>7. /\ r \in Seq(entries) /\ Len(r) = Len(u) + Len(w)
        /\ \A k \in 1..Len(r) : r[k] = IF k <= Len(u) THEN u[k] ELSE w[k - Len(u)]
    BY <1>6, ConcatProperties
  <1> HIDE DEF r
  <1>8. \A k \in 1..Len(r) : /\ k <= Len(u) => r[k] = u[k] /\ u[k] \in U
                             /\ k > Len(u) => r[k] = w[k - Len(u)] /\ k - Len(u) \in 1..Len(w) /\ w[k - Len(u)] \in D
    <2>1. (\A k \in 1..Len(u) : u[k] \in U) /\ \A k \in 1..Len(w) : w[k] \in D
      <3>1. (\A s \in Seq(U) : \A k \in 1..Len(s) : s[k] \in U) /\ \A s \in Seq(D) : \A k \in 1..Len(s) : s[k] \in D
        OBVIOUS
      <3>2. QED
        BY <1>3, <1>4, <3>1
    <2>2. ASSUME NEW k \in 1..Len(r) PROVE k <= Len(u) => k \in 1..Len(u)
      BY <1>5, <1>7
    <2>3. ASSUME NEW k \in 1..Len(r), k > Len(u) PROVE k - Len(u) \in 1..Len(w) /\ ~(k <= Len(u))
      BY <1>5, <1>7, <2>3
    <2>4. QED
      BY <1>7, <2>1, <2>2, <2>3
  <1>9. \A k \in 1..Len(r) : r[k].form = IF k <= Len(u) THEN "up" ELSE "down"
    <2>1. ASSUME NEW k \in 1..Len(r), k <= Len(u) PROVE r[k].form = "up"
      BY <1>1, <1>8, <2>1
    <2>2. ASSUME NEW k \in 1..Len(r), ~(k <= Len(u)) PROVE r[k].form = "down"
      <3>1. k > Len(u)
        BY <1>5, <1>7, <2>2
      <3>2. QED
        BY <1>1, <1>8, <2>2, <3>1
    <2>3. QED
      BY <2>1, <2>2
  <1>10. \A j, k \in 1..Len(r) : j < k /\ r[j].form = "down" => r[k].form = "down"
    <2>1. ASSUME NEW j \in 1..Len(r), NEW k \in 1..Len(r), j < k, r[j].form = "down" PROVE r[k].form = "down"
      <3>1. ~(j <= Len(u))
        BY <1>9, <2>1
      <3>2. ~(k <= Len(u))
        BY <1>5, <1>7, <2>1, <3>1
      <3>3. QED
        BY <1>9, <3>2
    <2>2. QED
      BY <2>1
  <1>11. \A j, k \in 1..Len(r) : r[j] = r[k] => j = k
    <2>1. ASSUME NEW j \in 1..Len(r), NEW k \in 1..Len(r), r[j] = r[k] PROVE j = k
      <3>1. j <= Len(u) <=> k <= Len(u)
        BY <1>9, <2>1
      <3>2. CASE j <= Len(u)
        <4>1. j \in 1..Len(u) /\ k \in 1..Len(u)
          BY <1>5, <1>7, <3>1, <3>2
        <4>2. u[j] = u[k]
          BY <1>8, <2>1, <3>1, <3>2
        <4>3. QED
          BY <1>3, <4>1, <4>2
      <3>3. CASE ~(j <= Len(u))
        <4>1. j > Len(u) /\ k > Len(u)
          BY <1>5, <1>7, <3>1, <3>3
        <4>2. j - Len(u) = k - Len(u)
          BY <1>4, <1>8, <2>1, <4>1, ZenonT(30)
        <4>3. QED
          BY <1>5, <1>7, <4>2
      <3>4. QED
        BY <3>2, <3>3
    <2>2. QED
      BY <2>1
  <1>12. \A e \in U \cup D : \E k \in 1..Len(r) : r[k] = e
    <2>1. ASSUME NEW e \in U PROVE \E k \in 1..Len(r) : r[k] = e
      <3>1. PICK k \in 1..Len(u) : u[k] = e
        BY <1>3
      <3>2. k \in 1..Len(r) /\ r[k] = u[k]
        BY <1>5, <1>7
      <3>3. QED
        BY <3>1, <3>2
    <2>2. ASSUME NEW e \in D PROVE \E k \in 1..Len(r) : r[k] = e
      <3>1. PICK k \in 1..Len(w) : w[k] = e
        BY <1>4
      <3>2. /\ k + Len(u) \in 1..Len(r) /\ ~(k + Len(u) <= Len(u)) /\ k + Len(u) - Len(u) = k
        BY <1>5, <1>7
      <3>3. r[k + Len(u)] = w[k]
        BY <1>7, <3>2
      <3>4. QED
        BY <3>1, <3>2, <3>3
    <2>3. QED
      BY <2>1, <2>2
  <1>13. \A k \in 1..Len(r) : r[k].form \in {"up", "down"}
    BY <1>9
  <1>14. r = Reads(entries)
    BY DEF Reads, r, u, w, U, D
  <1>15. QED
    BY <1>7, <1>10, <1>11, <1>12, <1>13, <1>14 DEF ReadOnce, U, D

(* What a set of files is made into, version by version. *)
MadeFrom(D, esc, M) ==
    /\ M = [u \in DOMAIN M |-> M[u]]
    /\ \A u : u \in DOMAIN M <=> \E e \in D : e.form = "up" /\ e.version = u
    /\ \A e \in D : e.form = "up" =>
         M[e.version] = Migration(e, RefScript(e.src, esc), M[e.version].down)
    /\ \A e \in D : e.form = "down" => e.version \in DOMAIN M /\ M[e.version].down = RefScript(e.src, esc)
    /\ \A u \in DOMAIN M : (\A e \in D : e.form = "down" => e.version # u) => M[u].down = Failed

LEMMA MadeIsRef ==
    ASSUME NEW D, NEW esc, NEW M, WellFormedSet(D, esc), MadeFrom(D, esc, M)
    PROVE  M = RefMigrations(D, esc)
  <1> DEFINE R == RefMigrations(D, esc)
  <1>1. DOMAIN M = {e.version : e \in Of("up", D)}
    BY DEF MadeFrom, Of
  <1>2. R = [u \in DOMAIN M |-> Migration(UpOf(u, D), RefScript(UpOf(u, D).src, esc), DownScript(u, D, esc))]
    BY <1>1 DEF RefMigrations
  <1>3. ASSUME NEW u \in DOMAIN M
        PROVE  M[u] = Migration(UpOf(u, D), RefScript(UpOf(u, D).src, esc), DownScript(u, D, esc))
    <2>1. PICK e \in D : e.form = "up" /\ e.version = u
      BY DEF MadeFrom
    <2>2. UpOf(u, D) = e
      <3>1. OfVersion("up", u, D) = {e}
        BY <2>1 DEF OfVersion, Of, WellFormedSet
      <3>2. (CHOOSE x \in {e} : TRUE) = e
        OBVIOUS
      <3>3. QED
        BY <3>1, <3>2 DEF UpOf
    <2>3. M[u] = Migration(e, RefScript(e.src, esc), M[u].down)
      BY <2>1 DEF MadeFrom
    <2>4. M[u].down = DownScript(u, D, esc)
      <3>1. CASE \E f \in D : f.form = "down" /\ f.version = u
        <4>1. PICK f \in D : f.form = "down" /\ f.version = u
          BY <3>1
        <4>2. OfVersion("down", u, D) = {f}
          BY <4>1 DEF OfVersion, Of, WellFormedSet
        <4>3. (CHOOSE x \in {f} : TRUE) = f
          OBVIOUS
        <4>4. DownScript(u, D, esc) = RefScript(f.src, esc)
          BY <4>2, <4>3 DEF DownScript
        <4>5. QED
          BY <4>1, <4>4 DEF MadeFrom
      <3>2. CASE \A f \in D : f.form = "down" => f.version # u
        <4>1. OfVersion("down", u, D) = {}
          BY <3>2 DEF OfVersion, Of
        <4>2. DownScript(u, D, esc) = Failed
          BY <4>1 DEF DownScript
        <4>3. M[u].down = Failed
          BY <3>2 DEF MadeFrom
        <4>4. QED
          BY <4>2, <4>3
      <3>3. QED
        BY <3>1, <3>2
    <2>5. QED
      BY <2>2, <2>3, <2>4
  <1>4. M = [u \in DOMAIN M |-> M[u]]
    BY DEF MadeFrom
  <1>5. QED
    BY <1>2, <1>3, <1>4

(* A set of files whose downs come after its ups is as well formed as it was before its last. *)
LEMMA BeforeTheLast ==
    ASSUME NEW D, NEW e, NEW esc, e \notin D, WellFormedSet(D \cup {e}, esc),
           \A f \in D : f.form = "down" => e.form = "down"
    PROVE  WellFormedSet(D, esc)
  <1>1. \A f \in D : WellNamed(f) /\ RefAccepts(f.src, esc)
    BY DEF WellFormedSet
  <1>2. \A f, g \in D : f.form = g.form /\ f.version = g.version => f = g
    BY DEF WellFormedSet
  <1>3. ASSUME NEW f \in D, f.form = "down"
        PROVE  \E g \in D : g.form = "up" /\ g.version = f.version /\ g.name = f.name
    <2>1. PICK g \in D \cup {e} : g.form = "up" /\ g.version = f.version /\ g.name = f.name
      BY <1>3 DEF WellFormedSet
    <2>2. g # e
      BY <1>3, <2>1
    <2>3. QED
      BY <2>1, <2>2
  <1>4. QED
    BY <1>1, <1>2, <1>3 DEF WellFormedSet

(* What is read of the files in D. *)
LoadedTo(D, esc, st) ==
    /\ DOMAIN st = {"byVersion", "err"} /\ st.err \in BOOLEAN
    /\ st.err <=> ~WellFormedSet(D, esc)
    /\ ~st.err => MadeFrom(D, esc, st.byVersion)

LEMMA ScriptOk ==
    ASSUME NEW src, NEW esc
    PROVE  /\ RefScript(src, esc).ok \in BOOLEAN
           /\ RefScript(src, esc).ok <=> RefAccepts(src, esc)
  BY DEF RefScript, Failed

(* One more up of a version nothing is there of, and one more down of a version that has none. *)
LEMMA UpMakes ==
    ASSUME NEW D, NEW e, NEW esc, NEW M, MadeFrom(D, esc, M), e.form = "up", e.version \notin DOMAIN M,
           \A f \in D : f.form # "down"
    PROVE  MadeFrom(D \cup {e}, esc, Put(M, e.version, Migration(e, RefScript(e.src, esc), Failed)))
  <1> DEFINE v == e.version
             script == RefScript(e.src, esc)
             E == D \cup {e}
             N == Put(M, v, Migration(e, script, Failed))
  <1>1. N = [u \in DOMAIN M \cup {v} |-> IF u = v THEN Migration(e, script, Failed) ELSE M[u]]
    BY DEF Put
  <1>2. DOMAIN N = DOMAIN M \cup {v} /\ N[v] = Migration(e, script, Failed) /\ \A u \in DOMAIN M : N[u] = M[u]
    BY <1>1
  <1>3. N = [u \in DOMAIN N |-> N[u]]
    BY <1>1
  <1> HIDE DEF N
  <1>4. \A u : u \in DOMAIN N <=> \E f \in E : f.form = "up" /\ f.version = u
    BY <1>2 DEF MadeFrom
  <1>5. N[v].down = Failed
    BY <1>2 DEF Migration
  <1>6. ASSUME NEW f \in E, f.form = "up"
        PROVE  N[f.version] = Migration(f, RefScript(f.src, esc), N[f.version].down)
    <2>1. CASE f = e
      BY <1>2, <1>5, <2>1
    <2>2. CASE f \in D
      <3>1. f.version \in DOMAIN M /\ M[f.version] = Migration(f, RefScript(f.src, esc), M[f.version].down)
        BY <1>6, <2>2 DEF MadeFrom
      <3>2. QED
        BY <1>2, <3>1
    <2>3. QED
      BY <2>1, <2>2
  <1>7. \A f \in E : f.form # "down"
    OBVIOUS
  <1>8. \A u \in DOMAIN N : N[u].down = Failed
    <2>1. \A u \in DOMAIN M : M[u].down = Failed
      BY DEF MadeFrom
    <2>2. QED
      BY <1>2, <1>5, <2>1
  <1>9. MadeFrom(E, esc, N)
    BY <1>3, <1>4, <1>6, <1>7, <1>8 DEF MadeFrom
  <1>10. QED
    BY <1>9 DEF N

LEMMA DownMakes ==
    ASSUME NEW D, NEW e, NEW esc, NEW M, MadeFrom(D, esc, M), e.form = "down", e.version \in DOMAIN M,
           \A f \in D : f.form = "down" => f.version # e.version
    PROVE  MadeFrom(D \cup {e}, esc, Put(M, e.version, [M[e.version] EXCEPT !.down = RefScript(e.src, esc)]))
  <1> DEFINE v == e.version
             script == RefScript(e.src, esc)
             E == D \cup {e}
             x == [M[v] EXCEPT !.down = script]
             N == Put(M, v, x)
  <1>0. PICK g \in D : g.form = "up" /\ g.version = v
    BY DEF MadeFrom
  <1>1. M[v] = Migration(g, RefScript(g.src, esc), M[v].down)
    BY <1>0 DEF MadeFrom
  <1>2. x.down = script /\ \A f : M[v] = Migration(f, RefScript(f.src, esc), M[v].down) => x = Migration(f, RefScript(f.src, esc), script)
    BY <1>1 DEF Migration
  <1> HIDE DEF x
  <1>3. N = [u \in DOMAIN M \cup {v} |-> IF u = v THEN x ELSE M[u]]
    BY DEF Put
  <1>4. DOMAIN N = DOMAIN M /\ N[v] = x /\ \A u \in DOMAIN M : u # v => N[u] = M[u]
    BY <1>3
  <1>5. N = [u \in DOMAIN N |-> N[u]]
    BY <1>3
  <1> HIDE DEF N
  <1>6. \A u : u \in DOMAIN N <=> \E f \in E : f.form = "up" /\ f.version = u
    BY <1>4 DEF MadeFrom
  <1>7. ASSUME NEW f \in E, f.form = "up"
        PROVE  N[f.version] = Migration(f, RefScript(f.src, esc), N[f.version].down)
    <2>1. f \in D
      BY <1>7
    <2>2. f.version \in DOMAIN M /\ M[f.version] = Migration(f, RefScript(f.src, esc), M[f.version].down)
      BY <1>7, <2>1 DEF MadeFrom
    <2>3. CASE f.version = v
      BY <1>2, <1>4, <2>2, <2>3
    <2>4. CASE f.version # v
      BY <1>4, <2>2, <2>4
    <2>5. QED
      BY <2>3, <2>4
  <1>8. ASSUME NEW f \in E, f.form = "down"
        PROVE  f.version \in DOMAIN N /\ N[f.version].down = RefScript(f.src, esc)
    <2>1. CASE f = e
      BY <1>2, <1>4, <2>1
    <2>2. CASE f \in D
      <3>1. f.version # v /\ f.version \in DOMAIN M /\ M[f.version].down = RefScript(f.src, esc)
        BY <1>8, <2>2 DEF MadeFrom
      <3>2. QED
        BY <1>4, <3>1
    <2>3. QED
      BY <2>1, <2>2
  <1>9. ASSUME NEW u \in DOMAIN N, \A f \in E : f.form = "down" => f.version # u PROVE N[u].down = Failed
    <2>1. u # v /\ \A f \in D : f.form = "down" => f.version # u
      BY <1>9
    <2>2. M[u].down = Failed
      BY <1>4, <2>1 DEF MadeFrom
    <2>3. QED
      BY <1>4, <2>1, <2>2
  <1>10. MadeFrom(E, esc, N)
    BY <1>5, <1>6, <1>7, <1>8, <1>9 DEF MadeFrom
  <1>11. QED
    BY <1>10 DEF N, x

(* One more file read: the rest of what makes a set well formed is a matter of that file. *)
LEMMA UpLoads ==
    ASSUME NEW D, NEW e, NEW esc, e \notin D, WellNamed(e), e.form = "up", WellFormedSet(D, esc),
           \A f \in D : f.form # "down",
           NEW st, LoadedTo(D, esc, st)
    PROVE  LoadedTo(D \cup {e}, esc, AddHalf(st, e, RefScript(e.src, esc)))
  <1> DEFINE v == e.version
             script == RefScript(e.src, esc)
             M == st.byVersion
             E == D \cup {e}
             st2 == AddHalf(st, e, script)
  <1>1. ~st.err /\ MadeFrom(D, esc, M) /\ DOMAIN st = {"byVersion", "err"}
    BY DEF LoadedTo
  <1>2. script.ok <=> RefAccepts(e.src, esc)
    BY ScriptOk
  <1>3. v \in DOMAIN M <=> \E f \in D : f.form = "up" /\ f.version = v
    BY <1>1 DEF MadeFrom
  <1>4. WellFormedSet(E, esc) <=> script.ok /\ v \notin DOMAIN M
    <2>1. ASSUME WellFormedSet(E, esc) PROVE script.ok /\ v \notin DOMAIN M
      <3>1. script.ok
        BY <1>2, <2>1 DEF WellFormedSet
      <3>2. ASSUME NEW f \in D, f.form = "up", f.version = v PROVE FALSE
        <4>1. f = e
          BY <2>1, <3>2 DEF WellFormedSet
        <4>2. QED
          BY <4>1, <3>2
      <3>3. QED
        BY <1>3, <3>1, <3>2
    <2>2. ASSUME script.ok, v \notin DOMAIN M PROVE WellFormedSet(E, esc)
      <3>1. \A f \in E : WellNamed(f) /\ RefAccepts(f.src, esc)
        BY <1>2, <2>2 DEF WellFormedSet
      <3>2. \A f, g \in E : f.form = g.form /\ f.version = g.version => f = g
        BY <1>3, <2>2 DEF WellFormedSet
      <3>3. \A f \in E : f.form # "down"
        OBVIOUS
      <3>4. QED
        BY <3>1, <3>2, <3>3 DEF WellFormedSet
    <2>3. QED
      BY <2>1, <2>2
  <1> HIDE DEF M, script, v, E
  <1>5. CASE script.ok /\ v \notin DOMAIN M
    <2>1. st2 = [st EXCEPT !.byVersion = Put(M, v, Migration(e, script, Failed))]
      BY <1>1, <1>5 DEF AddHalf, M, v
    <2>2. /\ DOMAIN st2 = {"byVersion", "err"} /\ st2.err = st.err
          /\ st2.byVersion = Put(M, v, Migration(e, script, Failed))
      BY <1>1, <2>1
    <2> HIDE DEF st2
    <2>3. MadeFrom(E, esc, st2.byVersion)
      BY <1>1, <1>5, <2>2, UpMakes DEF M, v, script, E
    <2>4. WellFormedSet(E, esc)
      BY <1>4, <1>5
    <2>5. LoadedTo(E, esc, st2)
      BY <1>1, <2>2, <2>3, <2>4 DEF LoadedTo
    <2>6. QED
      BY <2>5 DEF st2, E, script
  <1>6. CASE ~(script.ok /\ v \notin DOMAIN M)
    <2>1. st2 = [st EXCEPT !.err = TRUE]
      BY <1>1, <1>6 DEF AddHalf, M, v
    <2>2. DOMAIN st2 = {"byVersion", "err"} /\ st2.err = TRUE
      BY <1>1, <2>1
    <2> HIDE DEF st2
    <2>3. LoadedTo(E, esc, st2)
      BY <1>4, <1>6, <2>2 DEF LoadedTo
    <2>4. QED
      BY <2>3 DEF st2, E, script
  <1>7. QED
    BY <1>5, <1>6

LEMMA DownLoads ==
    ASSUME NEW D, NEW e, NEW esc, e \notin D, WellNamed(e), e.form = "down", WellFormedSet(D, esc),
           \A f \in D : SameFile(f, e) => f = e,
           NEW st, LoadedTo(D, esc, st)
    PROVE  LoadedTo(D \cup {e}, esc, AddHalf(st, e, RefScript(e.src, esc)))
  <1> DEFINE v == e.version
             script == RefScript(e.src, esc)
             M == st.byVersion
             E == D \cup {e}
             st2 == AddHalf(st, e, script)
             Paired == v \in DOMAIN M /\ PairsByName(M[v], e)
  <1>1. ~st.err /\ MadeFrom(D, esc, M) /\ DOMAIN st = {"byVersion", "err"}
    BY DEF LoadedTo
  <1>2. script.ok <=> RefAccepts(e.src, esc)
    BY ScriptOk
  <1>3. Paired <=> \E f \in D : f.form = "up" /\ f.version = v /\ f.name = e.name
    <2>1. ASSUME NEW f \in D, f.form = "up", f.version = v PROVE v \in DOMAIN M /\ M[v].name = f.name
      <3>1. v \in DOMAIN M /\ M[v] = Migration(f, RefScript(f.src, esc), M[v].down)
        BY <1>1, <2>1 DEF MadeFrom
      <3>2. QED
        BY <3>1 DEF Migration
    <2>2. ASSUME Paired PROVE \E f \in D : f.form = "up" /\ f.version = v /\ f.name = e.name
      <3>1. PICK f \in D : f.form = "up" /\ f.version = v
        BY <1>1, <2>2 DEF MadeFrom
      <3>2. M[v].name = f.name
        BY <2>1, <3>1
      <3>3. QED
        BY <2>2, <3>1, <3>2 DEF PairsByName
    <2>3. ASSUME NEW f \in D, f.form = "up", f.version = v, f.name = e.name PROVE Paired
      BY <2>1, <2>3 DEF PairsByName
    <2>4. QED
      BY <2>2, <2>3
  <1>4. ASSUME Paired PROVE \A f \in D : f.form = "down" => f.version # v
    <2>1. SUFFICES ASSUME NEW f \in D, f.form = "down", f.version = v PROVE FALSE
      OBVIOUS
    <2>2. PICK g \in D : g.form = "up" /\ g.version = v /\ g.name = e.name
      BY <1>3, <1>4
    <2>3. PICK h \in D : h.form = "up" /\ h.version = f.version /\ h.name = f.name
      BY <2>1 DEF WellFormedSet
    <2>4. h = g
      BY <2>1, <2>2, <2>3 DEF WellFormedSet
    <2>5. SameFile(f, e)
      BY <2>1, <2>2, <2>3, <2>4 DEF SameFile, FileName
    <2>6. QED
      BY <2>1, <2>5
  <1>5. WellFormedSet(E, esc) <=> script.ok /\ Paired
    <2>1. ASSUME WellFormedSet(E, esc) PROVE script.ok /\ Paired
      <3>1. script.ok
        BY <1>2, <2>1 DEF WellFormedSet
      <3>2. PICK f \in E : f.form = "up" /\ f.version = v /\ f.name = e.name
        BY <2>1 DEF WellFormedSet
      <3>3. f \in D
        BY <3>2
      <3>4. QED
        BY <1>3, <3>1, <3>2, <3>3
    <2>2. ASSUME script.ok, Paired PROVE WellFormedSet(E, esc)
      <3>1. \A f \in E : WellNamed(f) /\ RefAccepts(f.src, esc)
        BY <1>2, <2>2 DEF WellFormedSet
      <3>2. \A f, g \in E : f.form = g.form /\ f.version = g.version => f = g
        BY <1>4, <2>2 DEF WellFormedSet
      <3>3. \A f \in E : f.form = "down" =>
              \E g \in E : g.form = "up" /\ g.version = f.version /\ g.name = f.name
        BY <1>3, <2>2 DEF WellFormedSet
      <3>4. QED
        BY <3>1, <3>2, <3>3 DEF WellFormedSet
    <2>3. QED
      BY <2>1, <2>2
  <1> HIDE DEF M, script, v, E
  <1>6. CASE script.ok /\ Paired
    <2>1. st2 = [st EXCEPT !.byVersion = Put(M, v, [M[v] EXCEPT !.down = script])]
      BY <1>1, <1>6 DEF AddHalf, M, v
    <2>2. /\ DOMAIN st2 = {"byVersion", "err"} /\ st2.err = st.err
          /\ st2.byVersion = Put(M, v, [M[v] EXCEPT !.down = script])
      BY <1>1, <2>1
    <2> HIDE DEF st2
    <2>3. MadeFrom(E, esc, st2.byVersion)
      BY <1>1, <1>4, <1>6, <2>2, DownMakes DEF M, v, script, E
    <2>4. WellFormedSet(E, esc)
      BY <1>5, <1>6
    <2>5. LoadedTo(E, esc, st2)
      BY <1>1, <2>2, <2>3, <2>4 DEF LoadedTo
    <2>6. QED
      BY <2>5 DEF st2, E, script
  <1>7. CASE ~(script.ok /\ Paired)
    <2>1. st2 = [st EXCEPT !.err = TRUE]
      BY <1>1, <1>7 DEF AddHalf, M, v
    <2>2. DOMAIN st2 = {"byVersion", "err"} /\ st2.err = TRUE
      BY <1>1, <2>1
    <2> HIDE DEF st2
    <2>3. LoadedTo(E, esc, st2)
      BY <1>5, <1>7, <2>2 DEF LoadedTo
    <2>4. QED
      BY <2>3 DEF st2, E, script
  <1>8. QED
    BY <1>6, <1>7

(* A set that was not well formed before its last file is not with it, and the loader has given up. *)
LEMMA StaysRefused ==
    ASSUME NEW D, NEW e, NEW esc, e \notin D, ~WellFormedSet(D, esc),
           \A f \in D : f.form = "down" => e.form = "down",
           NEW st, LoadedTo(D, esc, st), NEW script
    PROVE  LoadedTo(D \cup {e}, esc, AddHalf(st, e, script))
  <1>1. st.err /\ DOMAIN st = {"byVersion", "err"}
    BY DEF LoadedTo
  <1>2. ~WellFormedSet(D \cup {e}, esc)
    BY BeforeTheLast
  <1>3. AddHalf(st, e, script) = [st EXCEPT !.err = TRUE]
    BY <1>1 DEF AddHalf
  <1>4. DOMAIN AddHalf(st, e, script) = {"byVersion", "err"} /\ AddHalf(st, e, script).err = TRUE
    BY <1>1, <1>3
  <1>5. QED
    BY <1>2, <1>4 DEF LoadedTo

LEMMA NoneLoaded ==
    ASSUME NEW esc
    PROVE  LoadedTo({}, esc, NoneRead)
  <1>1. WellFormedSet({}, esc)
    BY DEF WellFormedSet
  <1>2. DOMAIN NoneRead = {"byVersion", "err"} /\ NoneRead.err = FALSE /\ NoneRead.byVersion = [v \in {} |-> Failed]
    BY DEF NoneRead
  <1>3. MadeFrom({}, esc, NoneRead.byVersion)
    BY <1>2 DEF MadeFrom
  <1>4. QED
    BY <1>1, <1>2, <1>3 DEF LoadedTo

(* One more file read. *)
LEMMA OneMoreLoads ==
    ASSUME NEW entries, NEW esc, FileSet(entries), \A e \in entries : WellNamed(e),
           NEW D \in SUBSET entries, NEW e \in entries, e \notin D,
           \A f \in D : f.form = "down" => e.form = "down",
           NEW st, LoadedTo(D, esc, st)
    PROVE  LoadedTo(D \cup {e}, esc, AddHalf(st, e, RefScript(e.src, esc)))
  <1>1. WellNamed(e) /\ e.form \in {"up", "down"}
    BY DEF WellNamed
  <1>2. CASE ~WellFormedSet(D, esc)
    BY <1>2, StaysRefused
  <1>3. CASE WellFormedSet(D, esc) /\ e.form = "up"
    <2>1. \A f \in D : f.form # "down"
      BY <1>3
    <2>2. QED
      BY <1>1, <1>3, <2>1, UpLoads
  <1>4. CASE WellFormedSet(D, esc) /\ e.form = "down"
    <2>1. \A f \in D : SameFile(f, e) => f = e
      BY DEF FileSet
    <2>2. QED
      BY <1>1, <1>4, <2>1, DownLoads
  <1>5. QED
    BY <1>1, <1>2, <1>3, <1>4

(* The loader takes the well-formed sets, and makes of one what its files say. *)
LEMMA LoaderIs ==
    ASSUME NEW entries, NEW esc, FileSet(entries)
    PROVE  /\ loadMigrations(entries, esc) = Refused /\ ~WellFormedSet(entries, esc)
           \/ /\ loadMigrations(entries, esc) = [ok |-> TRUE, migrations |-> RefMigrations(entries, esc)]
              /\ WellFormedSet(entries, esc)
  <1> DEFINE r == Reads(entries)
             n == Len(r)
             L == LoadOf(entries, esc)
             D(k) == {r[j] : j \in 1..k}
             Good == {k \in 0..n : LoadedTo(D(k), esc, L[k])}
  <1>r. ReadOnce(entries, r)
    BY ReadsIs DEF FileSet
  <1>n. n \in Nat
    BY <1>r DEF ReadOnce
  <1>u. /\ loadMigrations(entries, esc) = Outcome(entries, L[n])
        /\ L[0] = NoneRead
        /\ \A k \in 1..n : L[k] = AddHalf(L[k - 1], r[k], parseScript(r[k].src, esc))
    BY <1>n, LoadUnfolds DEF Adds
  <1>e. \A k \in 1..n : r[k] \in entries
    BY <1>r DEF ReadOnce
  <1> HIDE DEF r, n, L
  <1>1. CASE \E e \in entries : ~WellNamed(e)
    <2>1. ~WellFormedSet(entries, esc)
      BY <1>1 DEF WellFormedSet
    <2>2. QED
      BY <1>1, <1>u, <2>1 DEF Outcome
  <1>2. CASE \A e \in entries : WellNamed(e)
    <2>1. 0 \in Good
      <3>1. D(0) = {}
        OBVIOUS
      <3>2. QED
        BY <1>n, <1>u, <3>1, NoneLoaded
    <2>2. ASSUME NEW k \in 1..n, k - 1 \in Good PROVE k \in Good
      <3>1. k \in Nat /\ k - 1 \in Nat /\ 1..k = (1..(k - 1)) \cup {k} /\ k \in 0..n
        BY <1>n
      <3>2. D(k) = D(k - 1) \cup {r[k]}
        BY <3>1
      <3>3. \A j \in 1..(k - 1) : j \in 1..n /\ j < k /\ j # k
        BY <1>n, <3>1
      <3>4. D(k - 1) \in SUBSET entries /\ r[k] \in entries
        BY <1>e, <3>3
      <3>5. r[k] \notin D(k - 1)
        BY <1>r, <3>3 DEF ReadOnce, n
      <3>6. \A f \in D(k - 1) : f.form = "down" => r[k].form = "down"
        BY <1>r, <3>3 DEF ReadOnce, n
      <3>7. LoadedTo(D(k - 1), esc, L[k - 1])
        BY <2>2
      <3> HIDE DEF D
      <3>8. LoadedTo(D(k - 1) \cup {r[k]}, esc, AddHalf(L[k - 1], r[k], RefScript(r[k].src, esc)))
        BY <1>2, <3>4, <3>5, <3>6, <3>7, OneMoreLoads
      <3>9. parseScript(r[k].src, esc) = RefScript(r[k].src, esc)
        BY <3>4, ScriptsSplitWhereTheyEnd DEF FileSet
      <3>10. LoadedTo(D(k), esc, L[k])
        BY <1>u, <3>2, <3>8, <3>9
      <3>11. QED
        BY <3>1, <3>10
    <2> HIDE DEF Good
    <2>3. n \in Good
      <3>1. 0..n \subseteq Good
        BY <1>n, <2>1, <2>2, UpTo
      <3>2. QED
        BY <1>n, <3>1
    <2>4. LoadedTo(D(n), esc, L[n])
      BY <2>3 DEF Good
    <2>5. D(n) = entries
      <3>1. D(n) \subseteq entries
        BY <1>e
      <3>2. ASSUME NEW e \in entries PROVE e \in D(n)
        <4>1. e \in Of("up", entries) \cup Of("down", entries)
          BY <1>2 DEF WellNamed, Of
        <4>2. \E k \in 1..n : r[k] = e
          BY <1>r, <4>1 DEF ReadOnce, n
        <4>3. QED
          BY <4>2
      <3>3. QED
        BY <3>1, <3>2
    <2>6. LoadedTo(entries, esc, L[n])
      BY <2>4, <2>5
    <2>7. CASE L[n].err
      BY <1>u, <2>6, <2>7 DEF LoadedTo, Outcome
    <2>8. CASE ~L[n].err
      <3>1. WellFormedSet(entries, esc) /\ MadeFrom(entries, esc, L[n].byVersion)
        BY <2>6, <2>8 DEF LoadedTo
      <3>2. L[n].byVersion = RefMigrations(entries, esc)
        BY <3>1, MadeIsRef
      <3>3. loadMigrations(entries, esc) = [ok |-> TRUE, migrations |-> L[n].byVersion]
        BY <1>2, <1>u, <2>8 DEF Outcome
      <3>4. QED
        BY <3>1, <3>2, <3>3
    <2>9. QED
      BY <2>7, <2>8
  <1>3. QED
    BY <1>1, <1>2

(* What New may be given, and what it then makes. *)
LEMMA LoaderAccepts ==
    ASSUME NEW entries, NEW esc, FileSet(entries)
    PROVE  /\ loadMigrations(entries, esc).ok <=> WellFormedSet(entries, esc)
           /\ loadMigrations(entries, esc).ok => loadMigrations(entries, esc).migrations = RefMigrations(entries, esc)
           /\ loadMigrations(entries, esc).ok \in BOOLEAN
  <1>1. Refused.ok = FALSE
    BY DEF Refused
  <1>2. CASE loadMigrations(entries, esc) = Refused /\ ~WellFormedSet(entries, esc)
    BY <1>1, <1>2
  <1>3. CASE /\ loadMigrations(entries, esc) = [ok |-> TRUE, migrations |-> RefMigrations(entries, esc)]
             /\ WellFormedSet(entries, esc)
    BY <1>3
  <1>4. QED
    BY <1>2, <1>3, LoaderIs

-----------------------------------------------------------------------------
(***************************************************************************)
(* What open makes of the sources, and what create leaves to be opened.    *)
(***************************************************************************)

(* The files of a world never change. *)
Stored ==
    /\ FileSet(world.dir) /\ world.now \in Versions /\ \A e \in world.dir : WellNamed(e)
    /\ Len(world.sources) \in Nat /\ DOMAIN world.sources = 1..Len(world.sources)
    /\ \A j \in DOMAIN world.sources : FileSet(Carried(world.sources[j]))

LEMMA WorldStays ==
    ASSUME [Next]_allvars
    PROVE  world' = world
  <1>1. CASE Resolves
    BY <1>1, ResolvesIs
  <1>2. CASE ServiceRuns \/ Open \/ Migrates \/ Returns
    BY <1>2 DEF ServiceRuns, Open, Migrates, Returns
  <1>3. CASE CreateStarts \/ CreateFirst \/ CreateSecond \/ Crash
    BY <1>3 DEF CreateStarts, CreateFirst, CreateSecond, Crash
  <1>4. CASE UNCHANGED allvars
    BY <1>4 DEF allvars, vars
  <1>5. QED
    BY <1>1, <1>2, <1>3, <1>4 DEF Next, Terminated2

LEMMA StoredHolds == Spec => []Stored
  <1>1. MInit => Stored
    BY MigrateAssumption DEF MInit, Init, Stored
  <1>2. Stored /\ [Next]_allvars => Stored'
    BY WorldStays DEF Stored
  <1>3. QED
    BY <1>1, <1>2, PTL DEF Spec

(* What Merge lists is what a file system would. *)
Shown(sources) == UNION {Carried(sources[k]) : k \in DOMAIN sources}
Clash(sources) ==
    \E j, k \in DOMAIN sources : j < k /\
        \E e \in Carried(sources[j]), f \in Carried(sources[k]) : FileName(e) = FileName(f)

LEMMA MergeIs ==
    ASSUME NEW sources, Len(sources) \in Nat, DOMAIN sources = 1..Len(sources),
           \A j \in DOMAIN sources : FileSet(Carried(sources[j]))
    PROVE  /\ Merge(sources).ok \in BOOLEAN
           /\ Merge(sources).ok <=> (\A k \in DOMAIN sources : sources[k].ok) /\ ~Clash(sources)
           /\ Merge(sources).ok => Merge(sources).entries = Shown(sources) /\ FileSet(Shown(sources))
  <1> DEFINE apart == \A j, k \in DOMAIN sources : j # k =>
                        \A e \in Carried(sources[j]), f \in Carried(sources[k]) : ~SameFile(e, f)
             listed == \A k \in DOMAIN sources : Listed(sources[k])
             S == {Carried(sources[k]) : k \in DOMAIN sources}
  <1>1. /\ listed /\ apart => Merge(sources) = [ok |-> TRUE, entries |-> Shown(sources)]
        /\ ~(listed /\ apart) => Merge(sources) = [ok |-> FALSE, entries |-> {}]
    BY DEF Merge, Shown
  <1>2. listed <=> \A k \in DOMAIN sources : sources[k].ok
    BY DEF Listed
  <1>3. apart <=> ~Clash(sources)
    <2>1. ASSUME Clash(sources) PROVE ~apart
      <3>1. PICK j \in DOMAIN sources, k \in DOMAIN sources :
              j < k /\ \E e \in Carried(sources[j]), f \in Carried(sources[k]) : FileName(e) = FileName(f)
        BY <2>1 DEF Clash
      <3>2. j # k
        BY <3>1
      <3>3. QED
        BY <3>1, <3>2 DEF SameFile
    <2>2. ASSUME ~apart PROVE Clash(sources)
      <3>1. PICK j \in DOMAIN sources, k \in DOMAIN sources :
              j # k /\ \E e \in Carried(sources[j]), f \in Carried(sources[k]) : SameFile(e, f)
        BY <2>2
      <3>2. PICK e \in Carried(sources[j]), f \in Carried(sources[k]) : FileName(e) = FileName(f)
        BY <3>1 DEF SameFile
      <3>3. j < k \/ k < j
        BY <3>1
      <3>4. QED
        BY <3>2, <3>3 DEF Clash
    <2>3. QED
      BY <2>1, <2>2
  <1>4. ASSUME apart PROVE FileSet(Shown(sources))
    <2>1. IsFiniteSet(Shown(sources))
      <3>1. IsFiniteSet(1..Len(sources))
        BY FS_Interval
      <3> DEFINE from == [k \in 1..Len(sources) |-> Carried(sources[k])]
      <3>s. from \in Surjection(1..Len(sources), S)
        BY DEF Surjection
      <3> HIDE DEF from
      <3>2. IsFiniteSet(S)
        BY <3>1, <3>s, FS_Surjection
      <3>3. \A C \in S : IsFiniteSet(C)
        BY DEF FileSet
      <3>4. QED
        BY <3>2, <3>3, FS_UNION DEF Shown
    <2>2. \A e \in Shown(sources) : e.src \in Seq(Chars)
      BY DEF Shown, FileSet
    <2>3. ASSUME NEW e \in Shown(sources), NEW f \in Shown(sources), SameFile(e, f) PROVE e = f
      <3>1. PICK j \in DOMAIN sources : e \in Carried(sources[j])
        BY DEF Shown
      <3>2. PICK k \in DOMAIN sources : f \in Carried(sources[k])
        BY DEF Shown
      <3>3. j = k
        BY <1>4, <2>3, <3>1, <3>2
      <3>4. QED
        BY <2>3, <3>1, <3>2, <3>3 DEF FileSet
    <2>4. QED
      BY <2>1, <2>2, <2>3 DEF FileSet
  <1> HIDE DEF apart, listed, S
  <1>5. CASE listed /\ apart
    <2>1. Merge(sources).ok /\ Merge(sources).ok \in BOOLEAN /\ Merge(sources).entries = Shown(sources)
      <3>1. Merge(sources) = [ok |-> TRUE, entries |-> Shown(sources)]
        BY <1>1, <1>5, Zenon
      <3>2. QED
        BY <3>1
    <2>2. QED
      BY <1>2, <1>3, <1>4, <1>5, <2>1, Zenon
  <1>6. CASE ~(listed /\ apart)
    <2>1. ~Merge(sources).ok /\ Merge(sources).ok \in BOOLEAN
      <3>1. Merge(sources) = [ok |-> FALSE, entries |-> {}]
        BY <1>1, <1>6, Zenon
      <3>2. QED
        BY <3>1
    <2>2. QED
      BY <1>2, <1>3, <1>6, <2>1, Zenon
  <1>7. QED
    BY <1>5, <1>6

LEMMA OpenLoads ==
    ASSUME Stored, LoadsExactlyWellFormed, [Next]_allvars
    PROVE  LoadsExactlyWellFormed'
  <1>w. world' = world
    BY WorldStays
  <1>1. CASE UNCHANGED opened
    BY <1>1, <1>w DEF LoadsExactlyWellFormed
  <1>2. CASE Open
    <2> DEFINE merged == Merge(world.sources)
               loaded == loadMigrations(merged.entries, world.mysql)
               shown == Shown(world.sources)
               good == /\ \A k \in DOMAIN world.sources : world.sources[k].ok
                       /\ ~Clash(world.sources) /\ WellFormedSet(shown, world.mysql)
    <2>1. \/ merged.ok /\ loaded.ok /\ opened' = [is |-> "loaded", migrations |-> loaded.migrations]
          \/ ~(merged.ok /\ loaded.ok) /\ opened' = [is |-> "refused", migrations |-> Refused.migrations]
          \/ UNCHANGED opened
      BY <1>2, Zenon DEF Open
    <2>2. /\ merged.ok <=> (\A k \in DOMAIN world.sources : world.sources[k].ok) /\ ~Clash(world.sources)
          /\ merged.ok => merged.entries = shown /\ FileSet(shown)
      BY MergeIs DEF Stored
    <2>3. merged.ok => /\ loaded.ok <=> WellFormedSet(shown, world.mysql)
                       /\ loaded.ok => loaded.migrations = RefMigrations(shown, world.mysql)
      BY <2>2, LoaderAccepts
    <2> HIDE DEF merged, loaded
    <2>4. merged.ok /\ loaded.ok <=> good
      BY <2>2, <2>3
    <2> HIDE DEF good
    <2>5. ASSUME opened' # opened
          PROVE  /\ opened'.is = "loaded" => good /\ opened'.migrations = RefMigrations(shown, world.mysql)
                 /\ opened'.is = "refused" => ~good
      BY <2>1, <2>2, <2>3, <2>4, <2>5
    <2>6. CASE opened' # opened
      BY <1>w, <2>5, <2>6 DEF LoadsExactlyWellFormed, good, shown, Shown, Clash
    <2>7. QED
      BY <1>1, <2>6
  <1>3. CASE Resolves
    BY <1>1, <1>3, ResolvesIs DEF mvars
  <1>4. CASE ServiceRuns \/ Migrates \/ Returns
    BY <1>1, <1>4 DEF ServiceRuns, Migrates, Returns, mvars
  <1>5. CASE CreateStarts \/ CreateFirst \/ CreateSecond \/ Crash
    BY <1>1, <1>5 DEF CreateStarts, CreateFirst, CreateSecond, Crash, mvars
  <1>6. CASE UNCHANGED allvars
    BY <1>1, <1>6 DEF allvars, mvars
  <1>7. QED
    BY <1>2, <1>3, <1>4, <1>5, <1>6 DEF Next, Terminated2

(* New takes the merged sources exactly when they are well formed, and then holds of every version    *)
(* the statements of its scripts, for all sources, files and scripts (load.go:32, scanner.go:36).     *)
THEOREM OnlyTheWellFormedLoad == Spec => []LoadsExactlyWellFormed
  <1>1. MInit => LoadsExactlyWellFormed
    BY DEF MInit, None, LoadsExactlyWellFormed
  <1>2. Stored /\ LoadsExactlyWellFormed /\ [Next]_allvars => LoadsExactlyWellFormed'
    BY OpenLoads
  <1>3. QED
    BY <1>1, <1>2, StoredHolds, PTL DEF Spec

(* A script of nothing but remarks, whole or torn, is accepted. *)
Remarks == {"-", "x", "nl"}

LEMMA RemarksParse ==
    ASSUME NEW src \in Seq(Chars), \A k \in DOMAIN src : src[k] \in Remarks, NEW esc
    PROVE  RefAccepts(src, esc)
  <1> DEFINE mode == RefModes(src, esc)
             Good == {k \in 0..Size(src) : mode[k] \in {"code", "line"}}
  <1>1. Size(src) \in Nat \ {0} /\ Size(src) \notin DOMAIN src
    BY DEF Size
  <1>2. /\ mode[0] = "code"
        /\ \A k \in 1..Size(src) : mode[k] = Lex(mode[k - 1], At(src, k), At(src, k + 1), esc)
    BY RefIsLexed DEF Lexed
  <1>3. \A k : At(src, k) \in Remarks
    BY DEF At, Remarks
  <1> HIDE DEF mode
  <1>4. \A m \in {"code", "line"}, c, next \in Remarks :
          /\ Lex(m, c, next, esc) \in {"code", "line"}
          /\ c = "nl" => Lex(m, c, next, esc) = "code"
    <2>1. \A c, next \in Remarks : ~BlockComment(c, next) /\ c \notin Quotes /\ (c = "nl" => ~LineComment(c, next, esc))
      BY DEF BlockComment, LineComment, Quotes, Remarks
    <2>2. QED
      BY <2>1, LexOfCode, LexOfOther
  <1>5. 0..Size(src) \subseteq Good
    <2>1. 0 \in Good
      BY <1>1, <1>2
    <2>2. ASSUME NEW k \in 1..Size(src), k - 1 \in Good PROVE k \in Good
      BY <1>1, <1>2, <1>3, <1>4, <2>2
    <2> HIDE DEF Good
    <2>3. QED
      BY <1>1, <2>1, <2>2, UpTo
  <1>6. mode[Size(src)] = "code"
    <2>1. At(src, Size(src)) = "nl" /\ Size(src) \in 1..Size(src) /\ Size(src) - 1 \in Good
      BY <1>1, <1>5 DEF At
    <2>2. QED
      BY <1>2, <1>3, <1>4, <2>1
  <1>7. Marks(src, mode) = {}
    BY DEF Marks, Remarks
  <1>8. \A k : ~InRegion(src, {}, k)
    BY DEF InRegion
  <1>9. ASSUME NEW k \in DOMAIN src PROVE ~Misplaced(src, mode, {}, k)
    BY <1>3 DEF Misplaced, Remarks
  <1>10. QED
    BY <1>6, <1>7, <1>8, <1>9 DEF RefAccepts, mode

LEMMA MineAreRemarks ==
    ASSUME NEW form, NEW e \in Mine(form), NEW esc
    PROVE  e.src \in Seq(Chars) /\ RefAccepts(e.src, esc)
  <1>1. Header \in Seq(Remarks) /\ Len(Header) = 4 /\ \A k \in 1..4 : Header[k] \in Remarks
    <2>1. "-" \in Remarks /\ "x" \in Remarks /\ "nl" \in Remarks
      BY DEF Remarks
    <2>2. Len(Header) = 4 /\ DOMAIN Header = 1..4
      BY DEF Header
    <2>3. Header \in Seq(Remarks)
      BY <2>1 DEF Header
    <2>4. \A k \in 1..4 : Header[k] \in Remarks
      BY <2>1 DEF Header
    <2>5. QED
      BY <2>2, <2>3, <2>4
  <1>2. \A n \in 0..Len(Header) : SubSeq(Header, 1, n) \in Seq(Remarks)
    <2>1. SUFFICES ASSUME NEW n \in 0..Len(Header) PROVE SubSeq(Header, 1, n) \in Seq(Remarks)
      OBVIOUS
    <2>2. 1 \in Int /\ n \in Int /\ \A i \in 1..n : Header[i] \in Remarks
      BY <1>1
    <2>3. QED
      BY <2>2, SubSeqProperties, Zenon
  <1>3. e.src \in Seq(Remarks)
    <2>1. e.src = Header \/ \E n \in 0..Len(Header) : e.src = SubSeq(Header, 1, n)
      <3>1. \A src : Entry(form, world.now, d.rest[1], src).src = src
        BY DEF Entry
      <3>2. QED
        BY <3>1 DEF Mine, Minted, Half
    <2>2. QED
      BY <1>1, <1>2, <2>1
  <1>4. Remarks \subseteq Chars
    BY DEF Remarks, Chars, Blank
  <1>5. e.src \in Seq(Chars) /\ \A k \in DOMAIN e.src : e.src[k] \in Remarks
    <2>1. PICK s \in Seq(Remarks) : s = e.src
      BY <1>3
    <2>2. s \in Seq(Chars) /\ \A k \in DOMAIN s : s[k] \in Remarks
      BY <1>4
    <2>3. QED
      BY <2>1, <2>2
  <1>6. QED
    BY <1>5, RemarksParse

(* An up of create's, and such an up with such a down, join a well-formed directory of other versions. *)
NameIsValid == validName(d.rest[1])
MadeOf(up, down) == {world.dir \cup {up}, world.dir \cup {up, down}}

LEMMA MadeAreFiles ==
    ASSUME Stored, Vacant, NEW up \in Mine("up"), NEW down \in Mine("down")
    PROVE  FileSet(world.dir \cup {up}) /\ FileSet(world.dir \cup {up, down}) /\ FileSet(world.dir \cup {down})
  <1> DEFINE half == world.dir \cup {up}
             pair == half \cup {down}
             lone == world.dir \cup {down}
  <1>1. IsFiniteSet(world.dir) /\ (\A e \in world.dir : e.src \in Seq(Chars))
        /\ \A e, f \in world.dir : SameFile(e, f) => e = f
    BY DEF Stored, FileSet
  <1>2. IsFiniteSet(half) /\ IsFiniteSet(pair) /\ IsFiniteSet(lone)
    BY <1>1, FS_AddElement
  <1>3. \A e \in pair : e.src \in Seq(Chars)
    BY <1>1, MineAreRemarks
  <1>4. /\ \A e \in world.dir : ~SameFile(e, up) /\ ~SameFile(up, e) /\ ~SameFile(e, down) /\ ~SameFile(down, e)
        /\ ~SameFile(up, down) /\ ~SameFile(down, up)
    <2>1. FileName(up) = FileName(Minted("up")) /\ FileName(down) = FileName(Minted("down"))
      BY MineIs
    <2>2. FileName(Minted("up")) # FileName(Minted("down"))
      BY DEF Minted, Entry, FileName
    <2>3. QED
      BY <2>1, <2>2 DEF Vacant, SameFile
  <1>5. \A e, f \in pair : SameFile(e, f) => e = f
    BY <1>1, <1>4
  <1>6. half \subseteq pair /\ lone \subseteq pair /\ pair = world.dir \cup {up, down}
    OBVIOUS
  <1>7. QED
    BY <1>2, <1>3, <1>5, <1>6 DEF FileSet

LEMMA MadeAreWellFormed ==
    ASSUME NameIsValid, Stored, NEW esc, WellFormedSet(world.dir, esc), world.now \notin {e.version : e \in world.dir},
           NEW up \in Mine("up"), NEW down \in Mine("down")
    PROVE  WellFormedSet(world.dir \cup {up}, esc) /\ WellFormedSet(world.dir \cup {up, down}, esc)
  <1> DEFINE half == world.dir \cup {up}
             pair == half \cup {down}
  <1>1. /\ WellNamed(up) /\ up.form = "up" /\ up.version = world.now /\ up.name = d.rest[1] /\ RefAccepts(up.src, esc)
        /\ WellNamed(down) /\ down.form = "down" /\ down.version = world.now /\ down.name = d.rest[1]
        /\ RefAccepts(down.src, esc)
    BY MineIs, MineIsWellNamed, MineAreRemarks DEF NameIsValid, Stored
  <1>2. /\ \A e \in world.dir : WellNamed(e) /\ RefAccepts(e.src, esc) /\ e.version # world.now
        /\ \A e, f \in world.dir : e.form = f.form /\ e.version = f.version => e = f
        /\ \A e \in world.dir : e.form = "down" =>
             \E f \in world.dir : f.form = "up" /\ f.version = e.version /\ f.name = e.name
    BY DEF WellFormedSet
  <1>3. \A e \in pair : WellNamed(e) /\ RefAccepts(e.src, esc)
    BY <1>1, <1>2
  <1>4. \A e, f \in pair : e.form = f.form /\ e.version = f.version => e = f
    BY <1>1, <1>2
  <1>5. ASSUME NEW e \in pair, e.form = "down"
        PROVE  \E f \in half : f.form = "up" /\ f.version = e.version /\ f.name = e.name
    BY <1>1, <1>2, <1>5
  <1>6. half \subseteq pair /\ pair = world.dir \cup {up, down}
    OBVIOUS
  <1>7. WellFormedSet(half, esc)
    BY <1>3, <1>4, <1>5, <1>6 DEF WellFormedSet
  <1>8. WellFormedSet(pair, esc)
    BY <1>3, <1>4, <1>5, <1>6 DEF WellFormedSet
  <1>9. QED
    BY <1>6, <1>7, <1>8

(* A lone down of create's does not: no up has its version. *)
LEMMA LoneDownIsAnOrphan ==
    ASSUME world.now \notin {e.version : e \in world.dir}, NEW down \in Mine("down"), NEW esc
    PROVE  ~WellFormedSet(world.dir \cup {down}, esc)
  <1>1. down.form = "down" /\ down.version = world.now
    BY MineIs
  <1>2. \A f \in world.dir \cup {down} : ~(f.form = "up" /\ f.version = down.version)
    BY <1>1
  <1>3. QED
    BY <1>1, <1>2 DEF WellFormedSet

(* The directory holds what it held, and of create's the up, whole or torn, or the up and a down, but *)
(* where the up was removed from beside a torn down, that one.                                        *)
Made == NameIsValid /\ Vacant /\ \E up \in Mine("up"), down \in Mine("down") : dir \in MadeOf(up, down)
Orphaned == Vacant /\ \E down \in Mine("down") : dir = world.dir \cup {down}
MadeInv ==
    /\ pc \in {"create", "half"} => NameIsValid
    /\ residue # {"down"} /\ dir # world.dir => Made
    /\ residue = {"down"} => pc = "done" /\ Orphaned

LEMMA MadeLoads ==
    ASSUME Stored, MadeInv
    PROVE  CreateKeepsLoadable
  <1>1. SUFFICES ASSUME dir # world.dir, world.now \notin {e.version : e \in world.dir},
                        loadMigrations(world.dir, world.mysql).ok
                 PROVE  loadMigrations(dir, world.mysql).ok <=> residue # {"down"}
    BY DEF CreateKeepsLoadable
  <1>2. CASE residue # {"down"}
    <2>1. PICK up \in Mine("up"), down \in Mine("down") : NameIsValid /\ Vacant /\ dir \in MadeOf(up, down)
      BY <1>1, <1>2 DEF MadeInv, Made
    <2>2. WellFormedSet(world.dir, world.mysql)
      BY <1>1, LoaderAccepts DEF Stored
    <2>3. FileSet(world.dir \cup {up}) /\ FileSet(world.dir \cup {up, down})
      BY <2>1, MadeAreFiles
    <2>4. WellFormedSet(world.dir \cup {up}, world.mysql) /\ WellFormedSet(world.dir \cup {up, down}, world.mysql)
      BY <1>1, <2>1, <2>2, MadeAreWellFormed
    <2>5. FileSet(dir) /\ WellFormedSet(dir, world.mysql)
      BY <2>1, <2>3, <2>4 DEF MadeOf
    <2>6. QED
      BY <1>2, <2>5, LoaderAccepts
  <1>3. CASE residue = {"down"}
    <2>1. PICK down \in Mine("down") : Vacant /\ dir = world.dir \cup {down}
      BY <1>3 DEF MadeInv, Orphaned
    <2>2. PICK up \in Mine("up") : TRUE
      BY Tears
    <2>3. FileSet(dir)
      BY <2>1, <2>2, MadeAreFiles
    <2>4. ~WellFormedSet(dir, world.mysql)
      BY <1>1, <2>1, LoneDownIsAnOrphan
    <2>5. QED
      BY <1>3, <2>3, <2>4, LoaderAccepts
  <1>4. QED
    BY <1>2, <1>3

LEMMA MadeStep ==
    ASSUME CreateInv, MadeInv, [Next]_allvars
    PROVE  MadeInv'
  <1>1. ASSUME UNCHANGED <<world, dir, residue>>, pc \notin {"create", "half", "done", "crashed"},
               pc' \notin {"create", "half"}
        PROVE  MadeInv'
    BY <1>1 DEF MadeInv, CreateInv
  <1>2. CASE Resolves
    BY <1>1, <1>2, ResolvesIs DEF mvars
  <1>3. CASE ServiceRuns \/ Open \/ Migrates \/ Returns
    <2>1. UNCHANGED <<world, dir, residue>> /\ pc \in {"run", "migrate", "ran"}
      BY <1>3 DEF ServiceRuns, Open, Migrates, Returns, mvars
    <2>2. pc' \in {"migrate", "ran", "done"}
      BY <1>3, Zenon DEF ServiceRuns, Open, Migrates, Returns, Go, Exit
    <2>3. QED
      BY <1>1, <2>1, <2>2
  <1>4. CASE CreateStarts
    <2>1. /\ pc = "run" /\ UNCHANGED <<world, d, dir, residue>>
          /\ Exit(1, {}) \/ (NameIsValid /\ Go("create"))
      BY <1>4 DEF CreateStarts, mvars, NameIsValid
    <2>2. dir' = world'.dir /\ residue' # {"down"}
      BY <2>1 DEF CreateInv, MadeInv
    <2>3. pc' = "done" \/ NameIsValid'
      BY <2>1 DEF Exit, NameIsValid
    <2>4. QED
      BY <2>2, <2>3 DEF MadeInv
  <1>k. ASSUME UNCHANGED <<world, d>>
        PROVE  /\ Vacant' = Vacant /\ NameIsValid' = NameIsValid
               /\ \A form : Mine(form)' = Mine(form) /\ \A up, down : MadeOf(up, down)' = MadeOf(up, down)
    BY <1>k DEF Vacant, NameIsValid, Mine, Minted, Half, MadeOf
  <1>c. pc \in {"create", "half"} => residue # {"down"}
    BY DEF MadeInv
  <1>m. ASSUME UNCHANGED <<world, d>>, residue' # {"down"}, NameIsValid, Vacant,
               NEW up \in Mine("up"), NEW down \in Mine("down"), dir' \in MadeOf(up, down)
        PROVE  MadeInv'
    <2>1. Made'
      BY <1>k, <1>m DEF Made
    <2>2. QED
      BY <1>k, <1>m, <2>1 DEF MadeInv
  <1>s. /\ \A form : Minted(form) \in Mine(form) /\ Written(form) = dir \cup {Minted(form)}
        /\ \A form : \A D \in Torn(form) : \E e \in Mine(form) : D = dir \cup {e}
    BY Tears
  <1>f. ASSUME UNCHANGED <<world, d>>, residue' # {"down"}, pc \in {"create", "half"}, dir = world.dir,
               dir' \in {dir, Written("up")} \cup Torn("up")
        PROVE  MadeInv'
    <2>1. NameIsValid /\ Vacant
      BY <1>f DEF MadeInv, CreateInv
    <2>2. CASE dir' = dir
      BY <1>f, <1>k, <2>1, <2>2 DEF MadeInv
    <2>3. CASE dir' # dir
      <3>1. PICK up \in Mine("up") : dir' = world.dir \cup {up}
        BY <1>f, <1>s, <2>3
      <3>2. PICK down \in Mine("down") : dir' \in MadeOf(up, down)
        BY <1>s, <3>1 DEF MadeOf
      <3>3. QED
        BY <1>f, <1>m, <2>1, <3>2
    <2>4. QED
      BY <2>2, <2>3
  <1>h. ASSUME UNCHANGED <<world, d>>, residue' # {"down"}, pc = "half", dir' \in {dir, Written("down")} \cup Torn("down")
        PROVE  MadeInv'
    <2>1. NameIsValid /\ Vacant /\ dir = world.dir \cup {Minted("up")}
      BY <1>h DEF MadeInv, CreateInv
    <2>2. \E down \in Mine("down") : dir' \in MadeOf(Minted("up"), down)
      BY <1>h, <1>s, <2>1 DEF MadeOf
    <2>3. QED
      BY <1>h, <1>m, <1>s, <2>1, <2>2
  <1>5. CASE CreateFirst
    <2>1. /\ pc = "create" /\ dir = world.dir /\ UNCHANGED <<world, d>>
          /\ dir' \in {dir, Written("up")} \cup Torn("up")
          /\ residue' \in {residue, {"up"}}
      BY <1>5 DEF CreateFirst, CreateInv, WriteOrder, UpFirst
    <2>2. QED
      BY <1>c, <1>f, <2>1
  <1>6. CASE CreateSecond
    <2>1. /\ pc = "half" /\ UNCHANGED <<world, d>> /\ pc' = "done"
          /\ dir = world.dir \cup {Minted("up")} /\ Vacant
          /\ WriteOrder[1] = "up" /\ WriteOrder[2] = "down"
      BY <1>6 DEF CreateSecond, CreateInv, WriteOrder, UpFirst, Exit
    <2>2. CASE dir' \in {dir, Written("down")} \cup Torn("down") /\ residue' # {"down"}
      BY <1>h, <2>1, <2>2
    <2>3. ASSUME NEW after \in {dir} \cup Torn("down"), dir' = WithoutFirst(after),
                 residue' = {f \in {"up", "down"} : f = "down" /\ after # dir}
          PROVE  MadeInv'
      <3>1. CASE after # dir
        <4>1. residue' = {"down"}
          BY <2>3, <3>1
        <4>2. PICK down \in Mine("down") : after = world.dir \cup {Minted("up"), down}
          BY <1>s, <2>1, <2>3, <3>1
        <4>3. FileName(down) # FileName(Minted("up"))
          BY MineIs DEF Minted, Entry, FileName
        <4>4. \A e \in world.dir : FileName(e) # FileName(Minted("up"))
          BY <2>1 DEF Vacant
        <4>5. dir' = world.dir \cup {down}
          BY <2>1, <2>3, <4>2, <4>3, <4>4 DEF WithoutFirst
        <4>6. Orphaned'
          BY <1>k, <2>1, <4>5 DEF Orphaned
        <4>7. QED
          BY <2>1, <4>1, <4>6 DEF MadeInv
      <3>2. CASE after = dir
        <4>1. \A e \in world.dir : FileName(e) # FileName(Minted("up"))
          BY <2>1 DEF Vacant
        <4>2. dir' = world.dir
          BY <2>1, <2>3, <3>2, <4>1 DEF WithoutFirst
        <4>3. residue' = {}
          BY <2>3, <3>2
        <4>4. QED
          BY <2>1, <4>2, <4>3 DEF MadeInv
      <3>3. QED
        BY <3>1, <3>2
    <2>4. \/ dir' \in {dir, Written("down")} \cup Torn("down") /\ residue' # {"down"}
          \/ \E after \in {dir} \cup Torn("down") :
                dir' = WithoutFirst(after) /\ residue' = {f \in {"up", "down"} : f = "down" /\ after # dir}
      <3>1. CASE dir' = Written("down") /\ UNCHANGED residue
        BY <1>c, <2>1, <3>1
      <3>2. ASSUME NEW removed \in BOOLEAN, NEW after \in {dir} \cup Torn("down"),
                   dir' = IF removed THEN WithoutFirst(after) ELSE after,
                   residue' = {f \in {"up", "down"} : (f = "up" /\ ~removed) \/ (f = "down" /\ after # dir)}
            PROVE  \/ dir' \in {dir, Written("down")} \cup Torn("down") /\ residue' # {"down"}
                   \/ dir' = WithoutFirst(after) /\ residue' = {f \in {"up", "down"} : f = "down" /\ after # dir}
        BY <3>2
      <3>3. QED
        BY <1>6, <2>1, <3>1, <3>2 DEF CreateSecond
    <2>5. QED
      BY <2>2, <2>3, <2>4
  <1>7. CASE Crash
    <2>1. /\ UNCHANGED <<world, d, residue>> /\ WriteOrder[1] = "up" /\ WriteOrder[2] = "down"
          /\ \/ pc = "create" /\ dir' \in {dir} \cup Torn("up")
             \/ pc = "half" /\ dir' \in {dir} \cup Torn("down")
      BY <1>7 DEF Crash, WriteOrder, UpFirst
    <2>2. pc = "create" => dir = world.dir
      BY DEF CreateInv
    <2>3. QED
      BY <1>c, <1>f, <1>h, <2>1, <2>2
  <1>8. CASE UNCHANGED allvars
    <2>1. UNCHANGED <<world, d, dir, residue, pc>>
      BY <1>8 DEF allvars, vars, mvars
    <2>2. QED
      BY <1>k, <2>1 DEF MadeInv, Made, Orphaned
  <1>9. QED
    BY <1>2, <1>3, <1>4, <1>5, <1>6, <1>7, <1>8 DEF Next, Terminated2

(* Create makes a pair or nothing but what failed writes leave behind, and in a second no file was    *)
(* minted in, a directory New took is one it takes after any of its failures and after a crash in or  *)
(* between its writes, and one it refuses after exactly one of them: the down's write fails with its  *)
(* file made, and the up is removed (create.go:12-41).                                                *)
THEOREM CreateMintsPairs == Spec => []CreateMakesPairs
  <1>1. MInit => CreateInv /\ MadeInv
    BY DEF MInit, Init, CreateInv, CreateIsAllOrNothing, MadeInv
  <1>2. CreateInv => CreateIsAllOrNothing
    BY DEF CreateInv
  <1>3. CreateInv /\ MadeInv /\ [Next]_allvars => CreateInv' /\ MadeInv'
    BY CreateStep, MadeStep
  <1>4. Stored /\ CreateInv /\ MadeInv => CreateMakesPairs
    BY <1>2, MadeLoads DEF CreateMakesPairs
  <1>5. QED
    BY <1>1, <1>3, <1>4, StoredHolds, PTL DEF Spec
=============================================================================
