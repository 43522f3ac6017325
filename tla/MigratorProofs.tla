--------------------------- MODULE MigratorProofs ---------------------------
(***************************************************************************)
(* Theorems about the migration runs, for every number of runners and of   *)
(* versions, every choice of file sets and both dialects.                  *)
(***************************************************************************)
EXTENDS Migrator, WellFoundedInduction, TLAPS

(* Versions have a least and a greatest element: Current is one of todo. *)
LEMMA HasLeast ==
    ASSUME NEW S \in SUBSET Nat, S # {}
    PROVE  \E v \in S : \A w \in S : v <= w
  <1> DEFINE Less == OpToRel(<, Nat)
  <1>1. \A x, y \in Nat : x < y => <<x, y>> \in Less
    BY DEF OpToRel
  <1>2. \E x \in S : \A y \in S : ~(<<y, x>> \in Less)
    BY NatLessThanWellFounded, WFMin
  <1> HIDE DEF Less
  <1>3. PICK x \in S : \A y \in S : ~(<<y, x>> \in Less)
    BY <1>2
  <1>4. ASSUME NEW y \in S PROVE x <= y
    <2>1. x \in Nat /\ y \in Nat
      OBVIOUS
    <2>2. ~(y < x)
      BY <1>1, <1>3, <2>1, Zenon
    <2>3. QED
      BY <2>1, <2>2
  <1>5. QED
    BY <1>4

LEMMA OldestIsLeast ==
    ASSUME NEW S \in SUBSET Version, S # {}
    PROVE  Oldest(S) \in S /\ \A w \in S : Oldest(S) <= w
  <1>1. S \in SUBSET Nat
    BY MigratorAssumption DEF Version
  <1>2. \E v \in S : \A w \in S : v <= w
    BY <1>1, HasLeast
  <1>3. QED
    BY <1>2 DEF Oldest

LEMMA NewestIsGreatest ==
    ASSUME NEW S \in SUBSET Version, S # {}
    PROVE  Newest(S) \in S /\ \A w \in S : w <= Newest(S)
  <1> DEFINE T == {MaxVersion - v : v \in S}
  <1>1. T \in SUBSET Nat /\ T # {}
    <2>1. \A v \in S : v \in 1..MaxVersion /\ MaxVersion - v \in Nat
      BY MigratorAssumption DEF Version
    <2>2. QED
      BY <2>1
  <1>2. PICK t \in T : \A u \in T : t <= u
    BY <1>1, HasLeast
  <1>3. PICK v \in S : t = MaxVersion - v
    BY <1>2
  <1>4. \A w \in S : w <= v
    <2>1. \A w \in S : MaxVersion - v <= MaxVersion - w
      BY <1>2, <1>3
    <2>2. QED
      BY <2>1, MigratorAssumption DEF Version
  <1>5. QED
    BY <1>4 DEF Newest

-----------------------------------------------------------------------------
(***************************************************************************)
(* The inductive invariant.                                                *)
(***************************************************************************)
Typed ==
    /\ dialect \in Dialects
    /\ history \in [Version -> Row \cup {None}]
    /\ schema \in [Version -> {"absent", "partial", "full", "broken"}]
    /\ run \in [Runner -> RunType]
    /\ lock \in Runner \cup {None}
    /\ writer \in Runner \cup {None, "pool"}

(* mysql: the runner in progress has GET_LOCK.  sqlite: the runner inside  *)
(* a transaction has the write lock.                                       *)
Locked ==
    /\ lock # None => dialect = "mysql" /\ run[lock].pc # "idle"
    /\ \A r \in Runner : dialect = "mysql" /\ run[r].pc # "idle" => lock = r
    /\ \A r \in Runner : run[r].pc = "tx" /\ dialect = "sqlite" <=> writer = r

(* A runner has the files of what it applies, and is where its version     *)
(* belongs; inside a transaction the row is still as it was probed.        *)
Placed(r) ==
    /\ run[r].dir = "up" => \A v \in run[r].todo : run[r].files[v] # None
    /\ run[r].pc \in Acting => run[r].todo # {}
    /\ run[r].pc = "tx" => /\ Atomic(Current(r))
                           /\ history[Current(r)] # None <=> run[r].dir = "down"
    /\ run[r].pc = "mark" => dialect = "mysql" /\ Current(r) \in Raw
    /\ run[r].pc \in {"exec", "rest", "record"} => ~Atomic(Current(r))

(* On mysql what a runner has planned to roll back is there; it finds no   *)
(* dirty version, and leaves none but the one it is working on.            *)
Exclusive(r) ==
    dialect = "mysql" /\ run[r].pc \notin {"idle", "plan"} =>
        /\ run[r].dir = "down" => run[r].todo \subseteq Applied
        /\ run[r].pc \in {"next", "tx", "mark"} => Dirty = {}
        /\ run[r].pc = "mark" /\ run[r].dir = "up" => history[Current(r)] = None
        /\ run[r].pc \in {"exec", "rest", "record"} => Dirty \subseteq {Current(r)}

(* The script of a marked version has done what its place says. *)
Midway(r) ==
    dialect = "mysql" /\ run[r].pc \in {"exec", "rest", "record"} /\ Current(r) \in Raw =>
        /\ Current(r) \in Dirty
        /\ run[r].pc = "exec" =>
              schema[Current(r)] = IF run[r].dir = "up" THEN "absent" ELSE "full"
        /\ run[r].pc = "rest" => schema[Current(r)] = "partial"
        /\ run[r].pc = "record" =>
              schema[Current(r)] = IF run[r].dir = "up" THEN "full" ELSE "absent"

DirtyIsRaw == Dirty \subseteq Raw /\ (Dirty # {} => dialect = "mysql")

IInv ==
    /\ Typed
    /\ Locked
    /\ \A r \in Runner : Placed(r) /\ Exclusive(r) /\ Midway(r)
    /\ DirtyIsRaw
    /\ HistoryIsTrue
    /\ NeverReExecuted

LEMMA CurrentIsNext ==
    ASSUME Typed, NEW r \in Runner, run[r].todo # {}
    PROVE  Current(r) \in run[r].todo /\ Current(r) \in Version
  <1>1. run[r].todo \in SUBSET Version
    BY DEF Typed, RunType
  <1>2. QED
    BY <1>1, OldestIsLeast, NewestIsGreatest DEF Current

LEMMA InitIInv == Init => IInv
  BY NoneAssumption, PoolAssumption
     DEF Init, IInv, Typed, Locked, Placed, Exclusive, Midway, DirtyIsRaw, HistoryIsTrue,
         NeverReExecuted, Idle, RunType, Acting, Applied, Dirty

(* Only r moves, and neither its direction nor its versions change. *)
LEMMA GoKeeps ==
    ASSUME Typed, NEW r \in Runner, NEW pc \in Acting, Go(r, pc)
    PROVE  /\ \A s \in Runner \ {r} : run'[s] = run[s] /\ Current(s)' = Current(s)
           /\ Current(r)' = Current(r)
           /\ run'[r].pc = pc /\ run'[r].dir = run[r].dir
           /\ run'[r].files = run[r].files /\ run'[r].todo = run[r].todo
           /\ run' \in [Runner -> RunType]
  BY SMTT(30) DEF Typed, RunType, Go, Current, Acting

LEMMA SkipKeeps ==
    ASSUME Typed, NEW r \in Runner, run[r].todo # {}, Skip(r)
    PROVE  /\ \A s \in Runner \ {r} : run'[s] = run[s] /\ Current(s)' = Current(s)
           /\ run'[r].pc = "next" /\ run'[r].dir = run[r].dir
           /\ run'[r].files = run[r].files /\ run'[r].todo = run[r].todo \ {Current(r)}
           /\ run' \in [Runner -> RunType]
  BY DEF Typed, RunType, Skip, Current

(* The data is left alone, and so is what holds of a runner that is too. *)
LEMMA DataKept ==
    ASSUME IInv, UNCHANGED <<dialect, history, schema>>
    PROVE  /\ DirtyIsRaw' /\ HistoryIsTrue' /\ NeverReExecuted'
           /\ Applied' = Applied /\ Dirty' = Dirty
           /\ \A v \in Version : Atomic(v)' = Atomic(v)
  BY DEF IInv, DirtyIsRaw, HistoryIsTrue, NeverReExecuted, Applied, Dirty, Tracked, Atomic

LEMMA OtherKept ==
    ASSUME IInv, UNCHANGED <<dialect, history, schema>>, NEW s \in Runner, run'[s] = run[s]
    PROVE  Placed(s)' /\ Exclusive(s)' /\ Midway(s)'
  <1>1. Applied' = Applied /\ Dirty' = Dirty
    BY DataKept
  <1>2. Current(s)' = Current(s)
    BY DEF Current
  <1>3. Atomic(Current(s))' = Atomic(Current(s))
    BY <1>2 DEF Atomic
  <1>4. QED
    BY <1>1, <1>2, <1>3 DEF IInv, Placed, Exclusive, Midway

LEMMA StartsStep == ASSUME IInv, NEW r \in Runner, Starts(r) PROVE IInv'
  <1>1. DirtyIsRaw' /\ HistoryIsTrue' /\ NeverReExecuted'
    BY DataKept DEF Starts
  <1>2. Typed'
    BY ZenonT(40) DEF IInv, Starts, Typed, RunType
  <1>3. Locked'
    BY NoneAssumption DEF IInv, Starts, Typed, RunType, Locked
  <1>4. ASSUME NEW s \in Runner PROVE Placed(s)' /\ Exclusive(s)' /\ Midway(s)'
    <2>1. CASE s # r
      <3>1. run'[s] = run[s]
        BY <2>1 DEF Starts, IInv, Typed
      <3>2. QED
        BY <3>1, OtherKept DEF Starts
    <2>2. CASE s = r
      <3>1. run'[r].pc = "plan" /\ run'[r].dir = run[r].dir
            /\ run'[r].files = run[r].files /\ run'[r].todo = run[r].todo
        BY DEF Starts, IInv, Typed, RunType
      <3>2. QED
        BY <2>2, <3>1 DEF IInv, Placed, Exclusive, Midway, Acting
    <2>3. QED
      BY <2>1, <2>2
  <1>5. QED
    BY <1>1, <1>2, <1>3, <1>4 DEF IInv

LEMMA PlansStep ==
    ASSUME IInv, NEW r \in Runner, NEW files \in [Version -> Content \cup {None}],
           PlansUp(r, files) \/ PlansDown(r, files)
    PROVE  IInv'
  <1>1. UNCHANGED <<dialect, history, schema, lock, writer>> /\ run[r].pc = "plan" /\ Dirty = {}
    BY DEF PlansUp, PlansDown, Accepts
  <1>2. PICK dir \in {"up", "down"}, todo \in SUBSET Version :
          /\ run' = [run EXCEPT ![r] = [pc |-> "next", dir |-> dir, files |-> files, todo |-> todo]]
          /\ dir = "up" => \A v \in todo : files[v] # None
          /\ dir = "down" => todo \subseteq Applied
    <2>1. CASE PlansUp(r, files)
      <3>1. PICK todo \in {UpByOne(files)} \cup {UpTo(files, t) : t \in Version} :
              run' = [run EXCEPT ![r] = [pc |-> "next", dir |-> "up", files |-> files, todo |-> todo]]
        BY <2>1 DEF PlansUp
      <3>2. Pending(files) \in SUBSET Version
        BY DEF Pending
      <3>3. UpByOne(files) \subseteq Pending(files)
        BY <3>2, OldestIsLeast DEF UpByOne
      <3>4. todo \subseteq Pending(files)
        BY <3>1, <3>3 DEF UpTo
      <3>5. todo \in SUBSET Version /\ \A v \in todo : files[v] # None
        BY <3>4 DEF Pending
      <3>6. QED
        BY <3>1, <3>5
    <2>2. CASE PlansDown(r, files)
      <3>1. PICK todo \in {DownOne} \cup {DownTo(t) : t \in 0..MaxVersion} :
              run' = [run EXCEPT ![r] = [pc |-> "next", dir |-> "down", files |-> files, todo |-> todo]]
        BY <2>2 DEF PlansDown
      <3>2. Applied \in SUBSET Version /\ Applied # {}
        BY <2>2 DEF Applied, PlansDown
      <3>3. DownOne \subseteq Applied
        BY <3>2, NewestIsGreatest DEF DownOne
      <3>4. todo \subseteq Applied
        BY <3>1, <3>3 DEF DownTo
      <3>5. QED
        BY <3>1, <3>2, <3>4
    <2>3. QED
      BY <2>1, <2>2
  <1>3. DirtyIsRaw' /\ HistoryIsTrue' /\ NeverReExecuted' /\ Applied' = Applied /\ Dirty' = Dirty
    BY <1>1, DataKept
  <1>4. Typed'
    BY <1>1, <1>2 DEF IInv, Typed, RunType
  <1>5. Locked'
    BY <1>1, <1>2 DEF IInv, Typed, Locked, RunType
  <1>6. ASSUME NEW s \in Runner PROVE Placed(s)' /\ Exclusive(s)' /\ Midway(s)'
    <2>1. CASE s # r
      <3>1. run'[s] = run[s]
        BY <1>2, <2>1 DEF IInv, Typed
      <3>2. QED
        BY <1>1, <3>1, OtherKept
    <2>2. CASE s = r
      <3>1. run'[r] = [pc |-> "next", dir |-> dir, files |-> files, todo |-> todo]
        BY <1>2 DEF IInv, Typed
      <3>2. QED
        BY <1>1, <1>2, <1>3, <2>2, <3>1 DEF Placed, Exclusive, Midway, Acting
    <2>3. QED
      BY <2>1, <2>2
  <1>7. QED
    BY <1>3, <1>4, <1>5, <1>6 DEF IInv

LEMMA EndsStep == ASSUME IInv, NEW r \in Runner, Ends(r) \/ CommitFails(r) PROVE IInv'
  <1>1. UNCHANGED <<dialect, history, schema>> /\ run' = [run EXCEPT ![r] = Idle]
    BY DEF Ends, CommitFails
  <1>2. DirtyIsRaw' /\ HistoryIsTrue' /\ NeverReExecuted'
    BY <1>1, DataKept
  <1>3. Typed'
    BY <1>1 DEF IInv, Typed, RunType, Idle, Ends, CommitFails, Released
  <1>4. Locked'
    <2>1. CASE Ends(r)
      BY <2>1, <1>1, NoneAssumption, PoolAssumption DEF IInv, Typed, Locked, RunType, Idle, Ends, Released
    <2>2. CASE CommitFails(r)
      BY <2>2, <1>1, NoneAssumption, PoolAssumption DEF IInv, Typed, Locked, RunType, Idle, CommitFails
    <2>3. QED
      BY <2>1, <2>2
  <1>5. ASSUME NEW s \in Runner PROVE Placed(s)' /\ Exclusive(s)' /\ Midway(s)'
    <2>1. CASE s # r
      <3>1. run'[s] = run[s]
        BY <1>1, <2>1 DEF IInv, Typed
      <3>2. QED
        BY <1>1, <3>1, OtherKept
    <2>2. CASE s = r
      <3>1. run'[r] = Idle
        BY <1>1 DEF IInv, Typed
      <3>2. QED
        BY <2>2, <3>1 DEF Placed, Exclusive, Midway, Acting, Idle
    <2>3. QED
      BY <2>1, <2>2
  <1>6. QED
    BY <1>2, <1>3, <1>4, <1>5 DEF IInv

LEMMA PoolClosesStep == ASSUME IInv, PoolCloses PROVE IInv'
  <1>1. DirtyIsRaw' /\ HistoryIsTrue' /\ NeverReExecuted'
    BY DataKept DEF PoolCloses
  <1>2. Typed' /\ Locked'
    BY NoneAssumption, PoolAssumption DEF IInv, Typed, Locked, PoolCloses
  <1>3. \A s \in Runner : Placed(s)' /\ Exclusive(s)' /\ Midway(s)'
    BY OtherKept DEF PoolCloses
  <1>4. QED
    BY <1>1, <1>2, <1>3 DEF IInv

-----------------------------------------------------------------------------
(* On mysql nobody runs beside the holder of the lock; on sqlite nobody is *)
(* in a transaction beside the holder of the write lock.                   *)
LEMMA Alone ==
    ASSUME IInv, NEW r \in Runner, run[r].pc # "idle", NEW s \in Runner, s # r
    PROVE  /\ dialect = "mysql" => run[s].pc = "idle"
           /\ dialect = "sqlite" /\ run[r].pc = "tx" => run[s].pc # "tx"
           /\ dialect = "sqlite" /\ CanWrite(r) => run[s].pc # "tx"
  BY NoneAssumption DEF IInv, Locked, CanWrite

LEMMA BeginsTxStep == ASSUME IInv, NEW r \in Runner, BeginsTx(r) PROVE IInv'
  <1>0. /\ UNCHANGED <<dialect, history, schema, lock>>
        /\ run[r].pc = "next" /\ run[r].todo # {} /\ Current(r) \notin Raw /\ CanWrite(r)
    BY DEF BeginsTx, Ready
  <1>1. DirtyIsRaw' /\ HistoryIsTrue' /\ NeverReExecuted' /\ Applied' = Applied /\ Dirty' = Dirty
    BY <1>0, DataKept
  <1>2. Current(r) \in run[r].todo /\ Current(r) \in Version
    BY <1>0, CurrentIsNext DEF IInv
  <1>3. CASE AlreadyDone(r)
    <2>1. Skip(r) /\ UNCHANGED writer
      BY <1>3 DEF BeginsTx
    <2>2. /\ \A s \in Runner \ {r} : run'[s] = run[s]
          /\ run'[r].pc = "next" /\ run'[r].dir = run[r].dir
          /\ run'[r].files = run[r].files /\ run'[r].todo = run[r].todo \ {Current(r)}
          /\ run' \in [Runner -> RunType]
      BY <1>0, <2>1, SkipKeeps DEF IInv
    <2>3. Typed' /\ Locked'
      BY <1>0, <2>1, <2>2 DEF IInv, Typed, Locked
    <2>4. ASSUME NEW s \in Runner PROVE Placed(s)' /\ Exclusive(s)' /\ Midway(s)'
      <3>1. CASE s # r
        BY <1>0, <2>2, <3>1, OtherKept
      <3>2. CASE s = r
        BY <1>0, <1>1, <2>2, <3>2 DEF IInv, Placed, Exclusive, Midway, Acting
      <3>3. QED
        BY <3>1, <3>2
    <2>5. QED
      BY <1>1, <2>3, <2>4 DEF IInv
  <1>4. CASE ~AlreadyDone(r)
    <2> DEFINE pc == IF Atomic(Current(r)) THEN "tx" ELSE "exec"
    <2>1. Go(r, pc) /\ writer' = IF dialect = "sqlite" THEN r ELSE writer
      BY <1>4 DEF BeginsTx
    <2>2. /\ \A s \in Runner \ {r} : run'[s] = run[s]
          /\ Current(r)' = Current(r)
          /\ run'[r].pc = pc /\ run'[r].dir = run[r].dir
          /\ run'[r].files = run[r].files /\ run'[r].todo = run[r].todo
          /\ run' \in [Runner -> RunType]
      BY <2>1, GoKeeps DEF IInv, Acting
    <2>3. dialect = "sqlite" => pc = "tx"
      BY <1>0 DEF Atomic
    <2>4. dialect \in {"sqlite", "mysql"}
      BY MigratorAssumption DEF IInv, Typed
    <2>5. Typed'
      BY <1>0, <2>1, <2>2 DEF IInv, Typed
    <2>6. Locked'
      <3>1. lock' # None => dialect' = "mysql" /\ run'[lock'].pc # "idle"
        BY <1>0, <2>2 DEF IInv, Typed, Locked
      <3>2. \A s \in Runner : dialect' = "mysql" /\ run'[s].pc # "idle" => lock' = s
        BY <1>0, <2>2 DEF IInv, Locked
      <3>3. \A s \in Runner : run'[s].pc = "tx" /\ dialect' = "sqlite" <=> writer' = s
        <4>1. CASE dialect = "mysql"
          BY <1>0, <2>1, <2>2, <4>1 DEF IInv, Locked
        <4>2. CASE dialect = "sqlite"
          BY <1>0, <2>1, <2>2, <2>3, <4>2, Alone
        <4>3. QED
          BY <2>4, <4>1, <4>2
      <3>4. QED
        BY <3>1, <3>2, <3>3 DEF Locked
    <2>7. Atomic(Current(r))' = Atomic(Current(r))
      BY <1>0, <2>2 DEF Atomic
    <2>8. ASSUME NEW s \in Runner PROVE Placed(s)' /\ Exclusive(s)' /\ Midway(s)'
      <3>1. CASE s # r
        BY <1>0, <2>2, <3>1, OtherKept
      <3>2. CASE s = r
        <4>1. Placed(r)'
          BY <1>0, <1>4, <2>2, <2>7 DEF IInv, Placed, Acting, AlreadyDone, Typed, RunType
        <4>2. Exclusive(r)' /\ Midway(r)'
          BY <1>0, <1>1, <2>2 DEF IInv, Exclusive, Midway
        <4>3. QED
          BY <3>2, <4>1, <4>2
      <3>3. QED
        BY <3>1, <3>2
    <2>9. QED
      BY <1>1, <2>5, <2>6, <2>8 DEF IInv
  <1>5. QED
    BY <1>3, <1>4

LEMMA StartsRawStep == ASSUME IInv, NEW r \in Runner, StartsRaw(r) PROVE IInv'
  <1>0. /\ UNCHANGED <<dialect, history, schema, lock, writer>>
        /\ run[r].pc = "next" /\ run[r].todo # {} /\ Current(r) \in Raw
    BY DEF StartsRaw, Ready
  <1>1. DirtyIsRaw' /\ HistoryIsTrue' /\ NeverReExecuted' /\ Applied' = Applied /\ Dirty' = Dirty
    BY <1>0, DataKept
  <1>2. Current(r) \in run[r].todo /\ Current(r) \in Version
    BY <1>0, CurrentIsNext DEF IInv
  <1>3. CASE run[r].dir = "up" /\ AlreadyDone(r)
    <2>1. Skip(r)
      BY <1>3 DEF StartsRaw
    <2>2. /\ \A s \in Runner \ {r} : run'[s] = run[s]
          /\ run'[r].pc = "next" /\ run'[r].dir = run[r].dir
          /\ run'[r].files = run[r].files /\ run'[r].todo = run[r].todo \ {Current(r)}
          /\ run' \in [Runner -> RunType]
      BY <1>0, <2>1, SkipKeeps DEF IInv
    <2>3. Typed' /\ Locked'
      BY <1>0, <2>2 DEF IInv, Typed, Locked
    <2>4. ASSUME NEW s \in Runner PROVE Placed(s)' /\ Exclusive(s)' /\ Midway(s)'
      <3>1. CASE s # r
        BY <1>0, <2>2, <3>1, OtherKept
      <3>2. CASE s = r
        BY <1>0, <1>1, <2>2, <3>2 DEF IInv, Placed, Exclusive, Midway, Acting
      <3>3. QED
        BY <3>1, <3>2
    <2>5. QED
      BY <1>1, <2>3, <2>4 DEF IInv
  <1>4. CASE ~(run[r].dir = "up" /\ AlreadyDone(r))
    <2> DEFINE pc == IF dialect = "mysql" THEN "mark" ELSE "exec"
    <2>1. Go(r, pc)
      BY <1>4 DEF StartsRaw
    <2>2. /\ \A s \in Runner \ {r} : run'[s] = run[s]
          /\ Current(r)' = Current(r)
          /\ run'[r].pc = pc /\ run'[r].dir = run[r].dir
          /\ run'[r].files = run[r].files /\ run'[r].todo = run[r].todo
          /\ run' \in [Runner -> RunType]
      BY <2>1, GoKeeps DEF IInv, Acting
    <2>3. Typed'
      BY <1>0, <2>2 DEF IInv, Typed
    <2>4. Locked'
      BY <1>0, <2>2, <2>3 DEF IInv, Typed, Locked
    <2>5. ~Atomic(Current(r))'
      BY <1>0, <2>2 DEF Atomic
    <2>6. ASSUME NEW s \in Runner PROVE Placed(s)' /\ Exclusive(s)' /\ Midway(s)'
      <3>1. CASE s # r
        BY <1>0, <2>2, <3>1, OtherKept
      <3>2. CASE s = r
        <4>1. Placed(r)'
          BY <1>0, <2>2, <2>5 DEF IInv, Placed, Acting
        <4>2. Exclusive(r)'
          BY <1>0, <1>1, <1>4, <2>2 DEF IInv, Exclusive, AlreadyDone
        <4>3. Midway(r)'
          BY <1>0, <2>2 DEF Midway
        <4>4. QED
          BY <3>2, <4>1, <4>2, <4>3
      <3>3. QED
        BY <3>1, <3>2
    <2>7. QED
      BY <1>1, <2>3, <2>4, <2>6 DEF IInv
  <1>5. QED
    BY <1>3, <1>4

(***************************************************************************)
(* The steps that write.                                                   *)
(***************************************************************************)
LEMMA MarksStep == ASSUME IInv, NEW r \in Runner, Marks(r) PROVE IInv'
  <1> DEFINE c == Current(r)
  <1>0. /\ UNCHANGED <<dialect, schema, lock, writer>> /\ Go(r, "exec") /\ run[r].pc = "mark"
        /\ run[r].todo # {} /\ c \in Raw /\ dialect = "mysql" /\ Dirty = {}
        /\ run[r].dir = "down" => run[r].todo \subseteq Applied
        /\ run[r].dir = "up" => history[c] = None
        /\ history' = [history EXCEPT ![c] = Marked(r, @)]
    BY DEF Marks, IInv, Placed, Exclusive, Acting
  <1>1. c \in run[r].todo /\ c \in Version
    BY <1>0, CurrentIsNext DEF IInv
  <1>2. /\ \A s \in Runner \ {r} : run'[s] = run[s]
        /\ Current(r)' = c
        /\ run'[r].pc = "exec" /\ run'[r].dir = run[r].dir
        /\ run'[r].files = run[r].files /\ run'[r].todo = run[r].todo
        /\ run' \in [Runner -> RunType]
    BY <1>0, GoKeeps DEF IInv, Acting
  <1>3. Marked(r, history[c]) \in Row /\ Marked(r, history[c]).dirty = TRUE
    <2>1. run[r].dir \in {"up", "down"} /\ run[r].files \in [Version -> Content \cup {None}]
      BY DEF IInv, Typed, RunType
    <2>2. CASE run[r].dir = "up"
      <3>1. run[r].files[c] \in Content
        BY <1>1, <2>1, <2>2 DEF IInv, Placed
      <3>2. QED
        BY <2>2, <3>1 DEF Marked, Row
    <2>3. CASE run[r].dir = "down"
      <3>1. history[c] \in Row
        BY <1>0, <1>1, <2>3 DEF IInv, Typed, Applied
      <3>2. QED
        BY <2>3, <3>1 DEF Marked, Row
    <2>4. QED
      BY <2>1, <2>2, <2>3
  <1>4. /\ history' \in [Version -> Row \cup {None}]
        /\ history'[c] \in Row /\ history'[c].dirty = TRUE
        /\ \A v \in Version \ {c} : history'[v] = history[v]
    BY <1>0, <1>1, <1>3 DEF IInv, Typed
  <1> HIDE DEF c
  <1>5. Applied' = Applied \cup {c} /\ Dirty' = {c}
    <2>1. Applied' = Applied \cup {c}
      BY <1>1, <1>4, NoneAssumption DEF Applied
    <2>2. QED
      BY <1>0, <1>1, <1>4, <2>1, NoneAssumption DEF Applied, Dirty
  <1>6. Typed' /\ Locked'
    BY <1>0, <1>2, <1>4 DEF IInv, Typed, Locked
  <1>7. DirtyIsRaw'
    BY <1>0, <1>5 DEF DirtyIsRaw
  <1>8. \A v \in Version : Atomic(v)' = Atomic(v) /\ Tracked(v)' = Tracked(v)
    BY <1>0 DEF Atomic, Tracked
  <1>9. HistoryIsTrue' /\ NeverReExecuted'
    BY <1>0, <1>4, <1>5, <1>8, NoneAssumption DEF IInv, HistoryIsTrue, NeverReExecuted
  <1>10. ASSUME NEW s \in Runner PROVE Placed(s)' /\ Exclusive(s)' /\ Midway(s)'
    <2>1. CASE s # r
      <3>1. run'[s] = run[s] /\ run[s].pc = "idle"
        BY <1>0, <1>2, <2>1, Alone
      <3>2. QED
        BY <3>1 DEF IInv, Placed, Exclusive, Midway, Acting
    <2>2. CASE s = r
      <3>1. ~Atomic(Current(r))'
        BY <1>0, <1>2 DEF Atomic
      <3>2. Placed(r)'
        BY <1>0, <1>2, <3>1 DEF IInv, Placed
      <3>3. Exclusive(r)'
        BY <1>0, <1>2, <1>5 DEF Exclusive
      <3>4. c \notin Dirty
        BY <1>0
      <3>5. schema[c] = IF run[r].dir = "up" THEN "absent" ELSE "full"
        <4>1. Tracked(c)
          BY <1>0 DEF Tracked
        <4>2. run[r].dir \in {"up", "down"}
          BY DEF IInv, Typed, RunType
        <4>3. QED
          BY <1>0, <1>1, <3>4, <4>1, <4>2 DEF IInv, HistoryIsTrue
      <3>6. Midway(r)'
        BY <1>0, <1>2, <1>5, <3>5 DEF Midway
      <3>7. QED
        BY <2>2, <3>2, <3>3, <3>6
    <2>3. QED
      BY <2>1, <2>2
  <1>11. QED
    BY <1>6, <1>7, <1>9, <1>10 DEF IInv

LEMMA ExecsStep == ASSUME IInv, NEW r \in Runner, ExecsSome(r) \/ ExecsRest(r) PROVE IInv'
  <1> DEFINE c == Current(r)
             new == IF run[r].pc = "exec" THEN Begun(run[r].dir, schema[c])
                    ELSE Ended(run[r].dir, schema[c])
             pc == IF run[r].pc = "exec" THEN "rest" ELSE "record"
  <1>0. /\ UNCHANGED <<dialect, history, lock, writer>> /\ Go(r, pc)
        /\ run[r].pc \in {"exec", "rest"}
        /\ run[r].todo # {} /\ ~Atomic(c)
        /\ schema' = [schema EXCEPT ![c] = new]
    BY DEF ExecsSome, ExecsRest, IInv, Placed, Acting
  <1>1. c \in run[r].todo /\ c \in Version
    BY <1>0, CurrentIsNext DEF IInv
  <1>2. /\ \A s \in Runner \ {r} : run'[s] = run[s] /\ Current(s)' = Current(s)
        /\ Current(r)' = c
        /\ run'[r].pc = pc /\ run'[r].dir = run[r].dir
        /\ run'[r].files = run[r].files /\ run'[r].todo = run[r].todo
        /\ run' \in [Runner -> RunType]
    BY <1>0, GoKeeps DEF IInv, Acting
  <1>3. new \in {"absent", "partial", "full", "broken"}
    BY DEF Begun, Ended
  <1>4. /\ run[r].dir \in {"up", "down"} /\ dialect \in {"sqlite", "mysql"}
    BY MigratorAssumption DEF IInv, Typed, RunType
  <1>5. dialect = "mysql" /\ c \in Raw =>
          /\ c \in Dirty
          /\ run[r].pc = "exec" => new = "partial"
          /\ run[r].pc = "rest" => new = IF run[r].dir = "up" THEN "full" ELSE "absent"
    BY <1>0 DEF IInv, Midway, Begun, Ended
  <1> HIDE DEF c, new
  <1>6. schema'[c] = new /\ \A v \in Version \ {c} : schema'[v] = schema[v]
    BY <1>0, <1>1 DEF IInv, Typed
  <1>7. Applied' = Applied /\ Dirty' = Dirty
    BY <1>0 DEF Applied, Dirty
  <1>8. Typed' /\ Locked'
    BY <1>0, <1>2, <1>3, ZenonT(40) DEF IInv, Typed, Locked
  <1>9. DirtyIsRaw'
    BY <1>0, <1>7 DEF IInv, DirtyIsRaw
  <1>10. \A v \in Version : Atomic(v)' = Atomic(v) /\ Tracked(v)' = Tracked(v)
    BY <1>0 DEF Atomic, Tracked
  <1>11. ASSUME NEW v \in Version, Tracked(v)
         PROVE  /\ history[v] = None => schema'[v] = "absent"
                /\ v \in Applied \ Dirty => schema'[v] = "full"
                /\ schema'[v] # "broken"
    <2>1. CASE v # c
      BY <1>6, <1>11, <2>1 DEF IInv, HistoryIsTrue, NeverReExecuted
    <2>2. CASE v = c
      <3>1. dialect = "mysql" /\ c \in Raw
        BY <1>0, <1>11, <2>2 DEF Tracked
      <3>2. c \in Dirty /\ history[c] # None /\ new # "broken"
        BY <1>0, <1>5, <3>1 DEF Dirty, Applied
      <3>3. QED
        BY <1>6, <2>2, <3>2
    <2>3. QED
      BY <2>1, <2>2
  <1>12. HistoryIsTrue' /\ NeverReExecuted'
    BY <1>0, <1>7, <1>10, <1>11 DEF HistoryIsTrue, NeverReExecuted
  <1>13. ASSUME NEW s \in Runner PROVE Placed(s)' /\ Exclusive(s)' /\ Midway(s)'
    <2>1. CASE s # r
      <3>1. run'[s] = run[s] /\ Current(s)' = Current(s)
        BY <1>2, <2>1
      <3>2. Placed(s)' /\ Exclusive(s)'
        BY <1>0, <1>7, <3>1 DEF IInv, Placed, Exclusive, Atomic
      <3>3. Midway(s)'
        BY <1>0, <2>1, <3>1, Alone DEF Midway
      <3>4. QED
        BY <3>2, <3>3
    <2>2. CASE s = r
      <3>1. ~Atomic(Current(r))'
        BY <1>0, <1>2 DEF Atomic
      <3>2. Placed(r)'
        BY <1>0, <1>2, <3>1 DEF IInv, Placed
      <3>3. Exclusive(r)'
        BY <1>0, <1>2, <1>7 DEF IInv, Exclusive, c
      <3>4. Midway(r)'
        BY <1>0, <1>2, <1>5, <1>6, <1>7 DEF Midway
      <3>5. QED
        BY <2>2, <3>2, <3>3, <3>4
    <2>3. QED
      BY <2>1, <2>2
  <1>14. QED
    BY <1>8, <1>9, <1>12, <1>13 DEF IInv

(* What a run that is about to write its row leaves in the history. *)
LEMMA WrittenRow ==
    ASSUME IInv, NEW r \in Runner, run[r].todo # {},
           history' = [history EXCEPT ![Current(r)] = Written(r)]
    PROVE  /\ history' \in [Version -> Row \cup {None}]
           /\ \A v \in Version \ {Current(r)} : history'[v] = history[v]
           /\ run[r].dir = "up" => /\ Applied' = Applied \cup {Current(r)}
                                   /\ Dirty' = Dirty \ {Current(r)}
           /\ run[r].dir = "down" => /\ Applied' = Applied \ {Current(r)}
                                     /\ Dirty' = Dirty \ {Current(r)}
  <1> DEFINE c == Current(r)
  <1>1. c \in run[r].todo /\ c \in Version
    BY CurrentIsNext DEF IInv
  <1>2. run[r].dir = "up" => Written(r) \in Row /\ Written(r).dirty = FALSE
    BY <1>1 DEF IInv, Typed, RunType, Placed, Written, Row
  <1>3. run[r].dir = "down" => Written(r) = None
    BY DEF Written
  <1>4. run[r].dir \in {"up", "down"}
    BY DEF IInv, Typed, RunType
  <1> HIDE DEF c
  <1>5. /\ history' \in [Version -> Row \cup {None}] /\ history'[c] = Written(r)
        /\ \A v \in Version \ {c} : history'[v] = history[v]
    BY <1>1, <1>2, <1>3, <1>4 DEF IInv, Typed, c
  <1>6. CASE run[r].dir = "up"
    <2>1. history'[c] # None /\ history'[c].dirty = FALSE
      BY <1>2, <1>5, <1>6, NoneAssumption
    <2>2. Applied' = Applied \cup {c} /\ Dirty' = Dirty \ {c}
      BY <1>1, <1>5, <2>1 DEF Applied, Dirty
    <2>3. QED
      BY <1>5, <1>6, <2>2 DEF c
  <1>7. CASE run[r].dir = "down"
    <2>1. Applied' = Applied \ {c} /\ Dirty' = Dirty \ {c}
      BY <1>1, <1>3, <1>5, <1>7 DEF Applied, Dirty
    <2>2. QED
      BY <1>5, <1>7, <2>1 DEF c
  <1>8. QED
    BY <1>4, <1>6, <1>7

LEMMA WritesStep == ASSUME IInv, NEW r \in Runner, Records(r) \/ Commits(r) PROVE IInv'
  <1> DEFINE c == Current(r)
  <1>0. /\ UNCHANGED <<dialect, lock>> /\ Skip(r)
        /\ run[r].pc \in {"record", "tx"} /\ run[r].todo # {}
        /\ history' = [history EXCEPT ![c] = Written(r)]
        /\ run[r].pc = "record" => ~Atomic(c) /\ CanWrite(r) /\ UNCHANGED <<schema, writer>>
        /\ run[r].pc = "tx" =>
              /\ Atomic(c)
              /\ writer' = IF dialect = "sqlite" THEN None ELSE writer
              /\ schema' = [schema EXCEPT ![c] = Ended(run[r].dir, Begun(run[r].dir, @))]
    BY DEF Records, Commits, IInv, Placed, Acting
  <1>1. c \in run[r].todo /\ c \in Version
    BY <1>0, CurrentIsNext DEF IInv
  <1>2. /\ \A s \in Runner \ {r} : run'[s] = run[s] /\ Current(s)' = Current(s)
        /\ run'[r].pc = "next" /\ run'[r].dir = run[r].dir
        /\ run'[r].files = run[r].files /\ run'[r].todo = run[r].todo \ {c}
        /\ run' \in [Runner -> RunType]
    BY <1>0, SkipKeeps DEF IInv
  <1>3. run[r].dir \in {"up", "down"} /\ dialect \in {"sqlite", "mysql"}
    BY MigratorAssumption DEF IInv, Typed, RunType
  <1>4. /\ history' \in [Version -> Row \cup {None}]
        /\ \A v \in Version \ {c} : history'[v] = history[v]
        /\ run[r].dir = "up" => Applied' = Applied \cup {c} /\ Dirty' = Dirty \ {c}
        /\ run[r].dir = "down" => Applied' = Applied \ {c} /\ Dirty' = Dirty \ {c}
    BY <1>0, WrittenRow
  <1>5. /\ run[r].pc = "tx" => (history[c] # None <=> run[r].dir = "down")
        /\ dialect = "mysql" /\ run[r].pc = "tx" => Dirty = {}
        /\ dialect = "mysql" /\ run[r].pc = "record" => Dirty \subseteq {c}
        /\ dialect = "mysql" /\ run[r].dir = "down" => run[r].todo \subseteq Applied
        /\ run[r].pc = "record" /\ dialect = "mysql" /\ c \in Raw =>
              schema[c] = IF run[r].dir = "up" THEN "full" ELSE "absent"
    BY <1>0 DEF IInv, Placed, Exclusive, Midway
  <1> HIDE DEF c
  <1>6. Tracked(c) => schema'[c] = IF run[r].dir = "up" THEN "full" ELSE "absent"
    <2>1. CASE run[r].pc = "record"
      BY <1>0, <1>5, <2>1 DEF Tracked
    <2>2. CASE run[r].pc = "tx"
      <3>1. c \notin Dirty /\ Tracked(c)
        BY <1>0, <2>2 DEF IInv, DirtyIsRaw, Atomic, Tracked
      <3>2. schema[c] = IF run[r].dir = "up" THEN "absent" ELSE "full"
        BY <1>1, <1>3, <1>5, <2>2, <3>1 DEF IInv, HistoryIsTrue, Applied
      <3>3. schema'[c] = Ended(run[r].dir, Begun(run[r].dir, schema[c]))
        BY <1>0, <1>1, <2>2 DEF IInv, Typed
      <3>4. QED
        BY <1>3, <3>2, <3>3 DEF Ended, Begun
    <2>3. QED
      BY <1>0, <2>1, <2>2
  <1>7. schema' \in [Version -> {"absent", "partial", "full", "broken"}]
        /\ \A v \in Version \ {c} : schema'[v] = schema[v]
    <2>1. \A s : Ended(run[r].dir, s) \in {"absent", "partial", "full", "broken"}
      BY DEF Ended
    <2>2. QED
      BY <1>0, <1>1, <2>1 DEF IInv, Typed
  <1>8. Typed'
    BY <1>0, <1>2, <1>4, <1>7 DEF IInv, Typed
  <1>9. Locked'
    <2>1. lock' # None => dialect' = "mysql" /\ run'[lock'].pc # "idle"
      BY <1>0, <1>2 DEF IInv, Typed, Locked
    <2>2. \A s \in Runner : dialect' = "mysql" /\ run'[s].pc # "idle" => lock' = s
      BY <1>0, <1>2 DEF IInv, Locked
    <2>3. ASSUME NEW s \in Runner PROVE run'[s].pc = "tx" /\ dialect' = "sqlite" <=> writer' = s
      <3>1. CASE dialect = "mysql"
        BY <1>0, <1>2, <3>1 DEF IInv, Locked
      <3>2. CASE dialect = "sqlite"
        <4>1. writer' = None
          BY <1>0, <3>2 DEF CanWrite
        <4>2. run'[s].pc # "tx"
          BY <1>0, <1>2, <3>2, Alone
        <4>3. QED
          BY <4>1, <4>2, NoneAssumption
      <3>3. QED
        BY <1>3, <3>1, <3>2
    <2>4. QED
      BY <2>1, <2>2, <2>3 DEF Locked
  <1>10. DirtyIsRaw'
    BY <1>0, <1>3, <1>4 DEF IInv, DirtyIsRaw
  <1>11. \A v \in Version : Atomic(v)' = Atomic(v) /\ Tracked(v)' = Tracked(v)
    BY <1>0 DEF Atomic, Tracked
  <1>12. ASSUME NEW v \in Version, Tracked(v)
         PROVE  /\ history'[v] = None => schema'[v] = "absent"
                /\ v \in Applied' \ Dirty' => schema'[v] = "full"
                /\ schema'[v] # "broken"
    <2>1. CASE v # c
      <3>1. v \in Applied' \ Dirty' => v \in Applied \ Dirty
        BY <1>3, <1>4, <2>1
      <3>2. QED
        BY <1>4, <1>7, <1>12, <2>1, <3>1 DEF IInv, HistoryIsTrue, NeverReExecuted
    <2>2. CASE v = c
      <3>1. v \in Applied' <=> run[r].dir = "up"
        BY <1>3, <1>4, <2>2
      <3>2. history'[v] = None <=> v \notin Applied'
        BY DEF Applied
      <3>3. QED
        BY <1>3, <1>6, <1>12, <2>2, <3>1, <3>2
    <2>3. QED
      BY <2>1, <2>2
  <1>13. HistoryIsTrue' /\ NeverReExecuted'
    BY <1>11, <1>12 DEF HistoryIsTrue, NeverReExecuted
  <1>14. ASSUME NEW s \in Runner PROVE Placed(s)' /\ Exclusive(s)' /\ Midway(s)'
    <2>1. CASE s # r
      <3>1. run'[s] = run[s] /\ Current(s)' = Current(s)
        BY <1>2, <2>1
      <3>2. CASE dialect = "mysql"
        <4>1. run[s].pc = "idle"
          BY <1>0, <2>1, <3>2, Alone
        <4>2. QED
          BY <3>1, <4>1 DEF IInv, Placed, Exclusive, Midway, Acting
      <3>3. CASE dialect = "sqlite"
        <4>1. run[s].pc # "tx"
          BY <1>0, <2>1, <3>3, Alone
        <4>2. QED
          BY <1>0, <3>1, <3>3, <4>1 DEF IInv, Placed, Exclusive, Midway, Atomic
      <3>4. QED
        BY <1>3, <3>2, <3>3
    <2>2. CASE s = r
      <3>1. Placed(r)' /\ Midway(r)'
        BY <1>2 DEF IInv, Placed, Midway, Acting
      <3>2. dialect = "mysql" => Dirty' = {}
        BY <1>0, <1>3, <1>4, <1>5
      <3>3. Exclusive(r)'
        BY <1>0, <1>2, <1>4, <1>5, <3>2 DEF Exclusive
      <3>4. QED
        BY <2>2, <3>1, <3>3
    <2>3. QED
      BY <2>1, <2>2
  <1>15. QED
    BY <1>8, <1>9, <1>10, <1>13, <1>14 DEF IInv

LEMMA RepairsStep == ASSUME IInv, NEW v \in Version, Repairs(v) PROVE IInv'
  <1>1. v \in Dirty /\ v \in Raw /\ dialect = "mysql" /\ history[v] \in Row
        /\ UNCHANGED <<dialect, run, lock, writer>> /\ lock = None
    BY DEF Repairs, IInv, DirtyIsRaw, Typed, Dirty, Applied
  <1>2. \A s \in Runner : run[s].pc = "idle"
    BY <1>1, NoneAssumption DEF IInv, Locked
  <1>3. PICK row \in Row \cup {None}, state \in {"full", "absent"} :
          /\ history' = [history EXCEPT ![v] = row]
          /\ schema' = [schema EXCEPT ![v] = state]
          /\ row = None => state = "absent"
          /\ row # None => state = "full" /\ row.dirty = FALSE
    <2>1. CASE /\ schema' = [schema EXCEPT ![v] = "full"]
               /\ history' = [history EXCEPT ![v].dirty = FALSE]
      <3> DEFINE row == [history[v] EXCEPT !.dirty = FALSE]
      <3>1. row \in Row /\ row.dirty = FALSE
        BY <1>1 DEF Row
      <3>2. history' = [history EXCEPT ![v] = row]
        BY <2>1
      <3>3. QED
        BY <2>1, <3>1, <3>2, NoneAssumption
    <2>2. CASE /\ schema' = [schema EXCEPT ![v] = "absent"]
               /\ history' = [history EXCEPT ![v] = None]
      BY <2>2
    <2>3. QED
      BY <2>1, <2>2 DEF Repairs
  <1>4. Typed' /\ Locked'
    BY <1>1, <1>3 DEF IInv, Typed, Locked
  <1>5. history'[v] = row /\ schema'[v] = state
        /\ \A w \in Version \ {v} : history'[w] = history[w] /\ schema'[w] = schema[w]
    BY <1>3 DEF IInv, Typed
  <1>6. Dirty' = Dirty \ {v}
    BY <1>3, <1>5 DEF Dirty, Applied
  <1>7. DirtyIsRaw'
    BY <1>1, <1>6 DEF IInv, DirtyIsRaw
  <1>8. ASSUME NEW w \in Version, Tracked(w)
        PROVE  /\ history'[w] = None => schema'[w] = "absent"
               /\ w \in Applied' \ Dirty' => schema'[w] = "full"
               /\ schema'[w] # "broken"
    <2>1. CASE w # v
      <3>1. w \in Applied' \ Dirty' => w \in Applied \ Dirty
        BY <1>5, <1>6, <2>1 DEF Applied
      <3>2. QED
        BY <1>5, <1>8, <2>1, <3>1 DEF IInv, HistoryIsTrue, NeverReExecuted
    <2>2. CASE w = v
      BY <1>3, <1>5, <2>2 DEF Applied
    <2>3. QED
      BY <2>1, <2>2
  <1>9. HistoryIsTrue' /\ NeverReExecuted'
    BY <1>1, <1>8 DEF HistoryIsTrue, NeverReExecuted, Tracked, Atomic
  <1>10. \A s \in Runner : Placed(s)' /\ Exclusive(s)' /\ Midway(s)'
    BY <1>1, <1>2 DEF IInv, Placed, Exclusive, Midway, Acting
  <1>11. QED
    BY <1>4, <1>7, <1>9, <1>10 DEF IInv

LEMMA IInvStep == IInv /\ [Next]_vars => IInv'
  <1> SUFFICES ASSUME IInv, [Next]_vars PROVE IInv'
    OBVIOUS
  <1>1. CASE UNCHANGED vars
    <2>1. UNCHANGED <<dialect, history, schema>> /\ UNCHANGED <<run, lock, writer>>
      BY <1>1 DEF vars
    <2>2. DirtyIsRaw' /\ HistoryIsTrue' /\ NeverReExecuted'
      BY <2>1, DataKept
    <2>3. \A s \in Runner : Placed(s)' /\ Exclusive(s)' /\ Midway(s)'
      BY <2>1, OtherKept
    <2>4. Typed' /\ Locked'
      BY <2>1 DEF IInv, Typed, Locked
    <2>5. QED
      BY <2>2, <2>3, <2>4 DEF IInv
  <1>2. CASE Next
    BY <1>2, StartsStep, PlansStep, BeginsTxStep, StartsRawStep, MarksStep, ExecsStep,
       WritesStep, EndsStep, PoolClosesStep, RepairsStep DEF Next
  <1>3. QED
    BY <1>1, <1>2

LEMMA Inductive == Spec => []IInv
  BY InitIInv, IInvStep, PTL DEF Spec

-----------------------------------------------------------------------------
(***************************************************************************)
(* The runs keep their types and hold their locks only while they run.     *)
(***************************************************************************)
THEOREM TypeCorrect == Spec => []TypeOK
  <1>1. IInv => TypeOK
    BY DEF IInv, Typed, Locked, TypeOK
  <1>2. QED
    BY <1>1, Inductive, PTL

(***************************************************************************)
(* For every number of runners, migrations and file sets, on both          *)
(* dialects, through failures at every statement, the history table tells  *)
(* what the tracked scripts have done.                                     *)
(***************************************************************************)
THEOREM HistoryIsAlwaysTrue == Spec => []HistoryIsTrue
  <1>1. IInv => HistoryIsTrue
    BY DEF IInv
  <1>2. QED
    BY <1>1, Inductive, PTL

(***************************************************************************)
(* No tracked script is ever run on top of itself, without its up, or over *)
(* a half-done one: the probe inside the transaction suffices on sqlite,   *)
(* the lock and the dirty mark on mysql.                                   *)
(***************************************************************************)
THEOREM NothingRunsTwice == Spec => []NeverReExecuted
  <1>1. IInv => NeverReExecuted
    BY DEF IInv
  <1>2. QED
    BY <1>1, Inductive, PTL

(***************************************************************************)
(* While a version is dirty, the only run that acts is the one that marked *)
(* it.                                                                     *)
(***************************************************************************)
THEOREM DirtyAlwaysStops == Spec => []DirtyStops
  <1>1. IInv => DirtyStops
    BY DEF IInv, DirtyIsRaw, Exclusive, DirtyStops, Acting
  <1>2. QED
    BY <1>1, Inductive, PTL

-----------------------------------------------------------------------------
(***************************************************************************)
(* On mysql a run in progress is still over the history it verified: only  *)
(* the version it is at may differ from its files, and what it has yet to  *)
(* do lies above what is applied (up) or is the top of it (down).          *)
(***************************************************************************)
Busy(r) == IF run[r].pc \in Acting THEN {Current(r)} ELSE {}

Serialized(r) ==
    dialect = "mysql" /\ run[r].pc \notin {"idle", "plan"} =>
        /\ \A v \in Applied \ Busy(r) : run[r].files[v] = history[v].sum
        /\ run[r].dir = "up" /\ ~AllowOutOfOrder =>
              \A v \in run[r].todo, w \in Applied \ Busy(r) : w < v
        /\ run[r].dir = "down" => \A v \in run[r].todo, w \in Applied \ run[r].todo : w < v

SInv == IInv /\ \A r \in Runner : Serialized(r)

(* What holds of a run goes on holding while neither it nor the data moves. *)
LEMMA SerializedKept ==
    ASSUME NEW r \in Runner, Serialized(r), UNCHANGED <<dialect, history>>, run'[r] = run[r]
    PROVE  Serialized(r)'
  <1>1. Applied' = Applied
    BY DEF Applied
  <1>2. Current(r)' = Current(r) /\ Busy(r)' = Busy(r)
    BY DEF Current, Busy
  <1>3. QED
    BY <1>1, <1>2 DEF Serialized

(* The plan is made for the history it verified. *)
LEMMA PlanSerialized ==
    ASSUME IInv, NEW r \in Runner, NEW files \in [Version -> Content \cup {None}],
           PlansUp(r, files) \/ PlansDown(r, files)
    PROVE  Serialized(r)'
  <1>1. UNCHANGED <<dialect, history>> /\ Verified(files)
    BY DEF PlansUp, PlansDown, Accepts
  <1>2. Applied' = Applied /\ Applied \in SUBSET Version
    BY <1>1 DEF Applied
  <1>3. Version \subseteq Int
    BY DEF Version
  <1>4. CASE PlansUp(r, files)
    <2>1. PICK todo \in {UpByOne(files)} \cup {UpTo(files, t) : t \in Version} :
            run' = [run EXCEPT ![r] = [pc |-> "next", dir |-> "up", files |-> files, todo |-> todo]]
      BY <1>4 DEF PlansUp
    <2>2. run'[r] = [pc |-> "next", dir |-> "up", files |-> files, todo |-> todo]
      BY <2>1 DEF IInv, Typed
    <2>3. Pending(files) \in SUBSET Version /\ UpByOne(files) \subseteq Pending(files)
      BY OldestIsLeast DEF Pending, UpByOne
    <2>4. todo \subseteq Pending(files)
      BY <2>1, <2>3 DEF UpTo
    <2>5. ~AllowOutOfOrder => \A v \in todo, w \in Applied : w < v
      <3> SUFFICES ASSUME ~AllowOutOfOrder, NEW v \in todo, NEW w \in Applied PROVE w < v
        OBVIOUS
      <3>1. OutOfOrder(files) = {} /\ v \in Pending(files)
        BY <1>4, <2>4 DEF PlansUp
      <3>2. ~(v < w) /\ v # w
        BY <3>1 DEF OutOfOrder, Pending
      <3>3. QED
        <4>1. v \in Int /\ w \in Int
          BY <1>2, <1>3, <2>3, <3>1
        <4>2. QED
          BY <3>2, <4>1
    <2>6. QED
      BY <1>1, <1>2, <2>2, <2>5 DEF Serialized, Busy, Verified, Acting
  <1>5. CASE PlansDown(r, files)
    <2>1. PICK todo \in {DownOne} \cup {DownTo(t) : t \in 0..MaxVersion} :
            run' = [run EXCEPT ![r] = [pc |-> "next", dir |-> "down", files |-> files, todo |-> todo]]
      BY <1>5 DEF PlansDown
    <2>2. run'[r] = [pc |-> "next", dir |-> "down", files |-> files, todo |-> todo]
      BY <2>1 DEF IInv, Typed
    <2>3. Applied # {}
      BY <1>5 DEF PlansDown
    <2>4. \A v \in todo, w \in Applied \ todo : w < v
      <3>1. CASE todo = DownOne
        <4>1. \A w \in Applied : w <= Newest(Applied)
          BY <1>2, <2>3, NewestIsGreatest
        <4>2. Newest(Applied) \in Int
          BY <1>2, <1>3, <2>3, NewestIsGreatest
        <4>3. QED
          BY <1>2, <1>3, <3>1, <4>1, <4>2 DEF DownOne
      <3>2. ASSUME NEW t \in 0..MaxVersion, todo = DownTo(t)
            PROVE  \A v \in todo, w \in Applied \ todo : w < v
        BY <1>2, <1>3, <3>2 DEF DownTo
      <3>3. QED
        BY <2>1, <3>1, <3>2
    <2>5. QED
      BY <1>1, <1>2, <2>2, <2>4 DEF Serialized, Busy, Verified, Acting
  <1>6. QED
    BY <1>4, <1>5

(* A run that goes to act on its version leaves the history alone. *)
LEMMA GoSerialized ==
    ASSUME IInv, NEW r \in Runner, Serialized(r), NEW pc \in Acting, Go(r, pc),
           run[r].pc \in Acting \cup {"next"}, UNCHANGED <<dialect, history>>
    PROVE  Serialized(r)'
  <1>1. /\ Current(r)' = Current(r)
        /\ run'[r].pc = pc /\ run'[r].dir = run[r].dir
        /\ run'[r].files = run[r].files /\ run'[r].todo = run[r].todo
    BY GoKeeps DEF IInv
  <1>2. Applied' = Applied
    BY DEF Applied
  <1>3. Busy(r) \subseteq {Current(r)} /\ Busy(r)' = {Current(r)}
    BY <1>1 DEF Busy
  <1>4. run[r].pc \notin {"idle", "plan"}
    BY DEF Acting
  <1>5. QED
    BY <1>1, <1>2, <1>3, <1>4 DEF Serialized

(* The probe finds nothing to skip under the lock, unless an up may come   *)
(* late; then the row it finds is the verified one.                        *)
LEMMA SkipSerialized ==
    ASSUME IInv, NEW r \in Runner, Serialized(r), run[r].pc = "next", run[r].todo # {},
           Skip(r), UNCHANGED <<dialect, history>>, run[r].dir = "up" \/ AlreadyDone(r)
    PROVE  Serialized(r)'
  <1>1. /\ run'[r].pc = "next" /\ run'[r].dir = run[r].dir
        /\ run'[r].files = run[r].files /\ run'[r].todo = run[r].todo \ {Current(r)}
    BY SkipKeeps DEF IInv
  <1>2. Applied' = Applied
    BY DEF Applied
  <1>3. Busy(r) = {} /\ Busy(r)' = {}
    BY <1>1 DEF Busy, Acting
  <1>4. dialect = "mysql" => run[r].dir = "up"
    <2> SUFFICES ASSUME dialect = "mysql", run[r].dir = "down" PROVE FALSE
      BY DEF IInv, Typed, RunType
    <2>1. run[r].todo \subseteq Applied
      BY DEF IInv, Exclusive
    <2>2. Current(r) \in Applied
      BY <2>1, CurrentIsNext DEF IInv
    <2>3. QED
      BY <2>2 DEF AlreadyDone, Applied
  <1>5. QED
    BY <1>1, <1>2, <1>3, <1>4 DEF Serialized

(* premark writes the row of the version in hand, and no other. *)
LEMMA MarkSerialized ==
    ASSUME IInv, NEW r \in Runner, Serialized(r), Marks(r)
    PROVE  Serialized(r)'
  <1> DEFINE c == Current(r)
  <1>1. /\ run[r].pc = "mark" /\ UNCHANGED dialect
        /\ history' = [history EXCEPT ![c] = Marked(r, @)]
        /\ Go(r, "exec")
    BY DEF Marks
  <1>2. run[r].todo # {}
    BY <1>1 DEF IInv, Placed, Acting
  <1>3. c \in run[r].todo /\ c \in Version
    BY <1>2, CurrentIsNext DEF IInv
  <1>4. /\ Current(r)' = c /\ run'[r].pc = "exec" /\ run'[r].dir = run[r].dir
        /\ run'[r].files = run[r].files /\ run'[r].todo = run[r].todo
    BY <1>1, GoKeeps DEF IInv, Acting
  <1> HIDE DEF c
  <1>5. \A v \in Version \ {c} : history'[v] = history[v]
    BY <1>1, <1>3 DEF IInv, Typed
  <1>6. Applied' \ {c} = Applied \ {c}
    BY <1>5 DEF Applied
  <1>7. Applied \subseteq Version
    BY DEF Applied
  <1>8. Busy(r) = {c} /\ Busy(r)' = {c}
    BY <1>1, <1>4 DEF Busy, Acting, c
  <1>9. Applied' \ run[r].todo = Applied \ run[r].todo
    BY <1>3, <1>6
  <1>10. QED
    BY <1>1, <1>4, <1>5, <1>6, <1>7, <1>8, <1>9 DEF Serialized

(* The row of the version done is the one its files give, and the next     *)
(* version lies beyond it.                                                 *)
LEMMA WriteSerialized ==
    ASSUME IInv, NEW r \in Runner, Serialized(r), Records(r) \/ Commits(r)
    PROVE  Serialized(r)'
  <1> DEFINE c == Current(r)
  <1>1. /\ UNCHANGED dialect /\ Skip(r) /\ run[r].pc \in {"record", "tx"} /\ run[r].todo # {}
        /\ history' = [history EXCEPT ![c] = Written(r)]
    BY DEF Records, Commits, IInv, Placed, Acting
  <1>2. c \in run[r].todo /\ c \in Version /\ run[r].todo \in SUBSET Version
    BY <1>1, CurrentIsNext DEF IInv, Typed, RunType
  <1>3. /\ run'[r].pc = "next" /\ run'[r].dir = run[r].dir
        /\ run'[r].files = run[r].files /\ run'[r].todo = run[r].todo \ {c}
    BY <1>1, SkipKeeps DEF IInv
  <1>4. /\ \A v \in Version \ {c} : history'[v] = history[v]
        /\ run[r].dir = "up" => Applied' = Applied \cup {c}
        /\ run[r].dir = "down" => Applied' = Applied \ {c}
    BY <1>1, WrittenRow
  <1>5. Busy(r) = {c} /\ Busy(r)' = {}
    BY <1>1, <1>3 DEF Busy, Acting
  <1>6. run[r].dir = "up" =>
          /\ history'[c].sum = run[r].files[c]
          /\ \A v \in run[r].todo \ {c} : c < v
    <2> SUFFICES ASSUME run[r].dir = "up"
                 PROVE  /\ history'[c].sum = run[r].files[c]
                        /\ \A v \in run[r].todo \ {c} : c < v
      OBVIOUS
    <2>1. Written(r) = [sum |-> run[r].files[c], dirty |-> FALSE]
      BY DEF Written
    <2>2. history'[c] = Written(r)
      BY <1>1, <1>2 DEF IInv, Typed
    <2>3. c = Oldest(run[r].todo)
      BY DEF Current
    <2>4. \A v \in run[r].todo : c <= v
      BY <1>1, <1>2, <2>3, OldestIsLeast
    <2>5. Version \subseteq Int
      BY DEF Version
    <2> HIDE DEF c
    <2>6. \A v \in run[r].todo \ {c} : c < v
      <3> SUFFICES ASSUME NEW v \in run[r].todo \ {c} PROVE c < v
        OBVIOUS
      <3>1. v \in Int /\ c \in Int
        BY <1>2, <2>5
      <3>2. c <= v /\ c # v
        BY <2>4
      <3>3. QED
        BY <3>1, <3>2
    <2>7. QED
      BY <2>1, <2>2, <2>6
  <1>7. Applied \subseteq Version /\ run[r].dir \in {"up", "down"}
    BY DEF Applied, IInv, Typed, RunType
  <1>8. dialect = "mysql" => \A v \in Applied' : run'[r].files[v] = history'[v].sum
    <2> HIDE DEF c
    <2>1. run[r].pc \notin {"idle", "plan"}
      BY <1>1
    <2>2. dialect = "mysql" => \A v \in Applied \ {c} : run[r].files[v] = history[v].sum
      BY <1>5, <2>1 DEF Serialized
    <2>3. QED
      BY <1>3, <1>4, <1>6, <1>7, <2>2
  <1> HIDE DEF c
  <1>9. CASE run[r].dir = "up"
    BY <1>1, <1>3, <1>4, <1>5, <1>6, <1>8, <1>9 DEF Serialized
  <1>10. CASE run[r].dir = "down"
    <2>1. Applied' \ run'[r].todo \subseteq Applied \ run[r].todo
      BY <1>3, <1>4, <1>10
    <2>2. QED
      BY <1>1, <1>3, <1>5, <1>8, <1>10, <2>1 DEF Serialized
  <1>11. QED
    BY <1>7, <1>9, <1>10

(* The steps of a run; they move no other. *)
RunStep(r) ==
    \/ Starts(r)
    \/ \E files \in [Version -> Content \cup {None}] : PlansUp(r, files) \/ PlansDown(r, files)
    \/ BeginsTx(r) \/ StartsRaw(r) \/ Marks(r)
    \/ ExecsSome(r) \/ ExecsRest(r) \/ Records(r) \/ Commits(r)
    \/ Ends(r) \/ CommitFails(r)

LEMMA MovesItself ==
    ASSUME Typed, NEW r \in Runner, RunStep(r), NEW s \in Runner \ {r}
    PROVE  run'[s] = run[s]
  <1>1. Skip(r) => run'[s] = run[s]
    BY DEF Skip, Typed
  <1>2. \A pc : Go(r, pc) => run'[s] = run[s]
    BY DEF Go, Typed
  <1>3. CASE Starts(r) \/ Ends(r) \/ CommitFails(r)
    BY <1>3 DEF Starts, Ends, CommitFails, Typed
  <1>4. CASE \E files \in [Version -> Content \cup {None}] : PlansUp(r, files) \/ PlansDown(r, files)
    BY <1>4 DEF PlansUp, PlansDown, Typed
  <1>5. CASE BeginsTx(r) \/ StartsRaw(r)
    BY <1>1, <1>2, <1>5 DEF BeginsTx, StartsRaw
  <1>6. CASE Marks(r) \/ ExecsSome(r) \/ ExecsRest(r) \/ Records(r) \/ Commits(r)
    BY <1>1, <1>2, <1>6 DEF Marks, ExecsSome, ExecsRest, Records, Commits
  <1>7. QED
    BY <1>3, <1>4, <1>5, <1>6 DEF RunStep

LEMMA OwnStep ==
    ASSUME IInv, NEW r \in Runner, Serialized(r), RunStep(r)
    PROVE  Serialized(r)'
  <1>1. CASE Starts(r) \/ Ends(r) \/ CommitFails(r)
    <2>1. run'[r].pc \in {"idle", "plan"}
      BY <1>1 DEF Starts, Ends, CommitFails, Idle, IInv, Typed, RunType
    <2>2. QED
      BY <2>1 DEF Serialized
  <1>2. CASE \E files \in [Version -> Content \cup {None}] : PlansUp(r, files) \/ PlansDown(r, files)
    BY <1>2, PlanSerialized
  <1>3. CASE BeginsTx(r)
    <2>1. /\ run[r].pc = "next" /\ run[r].todo # {} /\ UNCHANGED <<dialect, history>>
          /\ \/ AlreadyDone(r) /\ Skip(r)
             \/ \E pc \in Acting : Go(r, pc)
      BY <1>3 DEF BeginsTx, Ready, Acting
    <2>2. QED
      BY <2>1, SkipSerialized, GoSerialized
  <1>4. CASE StartsRaw(r)
    <2>1. /\ run[r].pc = "next" /\ run[r].todo # {} /\ UNCHANGED <<dialect, history>>
          /\ \/ AlreadyDone(r) /\ Skip(r)
             \/ \E pc \in Acting : Go(r, pc)
      BY <1>4 DEF StartsRaw, Ready, Acting
    <2>2. QED
      BY <2>1, SkipSerialized, GoSerialized
  <1>5. CASE ExecsSome(r) \/ ExecsRest(r)
    BY <1>5, GoSerialized DEF ExecsSome, ExecsRest, Acting
  <1>6. QED
    BY <1>1, <1>2, <1>3, <1>4, <1>5, MarkSerialized, WriteSerialized DEF RunStep

(* On mysql nobody else moves the history while a run is in progress. *)
LEMMA OthersStep ==
    ASSUME SInv, Next, NEW s \in Runner, dialect' = "mysql", run'[s] = run[s],
           run[s].pc \notin {"idle", "plan"}
    PROVE  UNCHANGED <<dialect, history>>
  <1>1. UNCHANGED dialect
    BY DEF Next, Starts, PlansUp, PlansDown, BeginsTx, StartsRaw, Marks, ExecsSome, ExecsRest,
           Records, Commits, Ends, CommitFails, PoolCloses, Repairs
  <1>2. ASSUME NEW r \in Runner, Marks(r) \/ Records(r) \/ Commits(r) PROVE FALSE
    <2>1. run[r].pc # "idle"
      BY <1>2 DEF Marks, Records, Commits
    <2>2. run'[r] # run[r]
      <3>1. run[r].pc \in {"mark", "record", "tx"} /\ run'[r].pc \in {"exec", "next"}
        BY <1>2, GoKeeps, SkipKeeps DEF Marks, Records, Commits, SInv, IInv, Placed, Acting
      <3>2. QED
        BY <3>1
    <2>3. r # s
      BY <2>2
    <2>4. run[s].pc = "idle"
      BY <1>1, <2>1, <2>3, Alone DEF SInv
    <2>5. QED
      BY <2>4
  <1>3. ASSUME NEW v \in Version, Repairs(v) PROVE FALSE
    <2>1. lock = s
      BY <1>1 DEF SInv, IInv, Locked
    <2>2. QED
      BY <1>3, <2>1, NoneAssumption DEF Repairs
  <1>4. QED
    BY <1>1, <1>2, <1>3 DEF Next, Starts, PlansUp, PlansDown, BeginsTx, StartsRaw, ExecsSome,
       ExecsRest, Ends, CommitFails, PoolCloses

LEMMA SInvStep == SInv /\ [Next]_vars => SInv'
  <1> SUFFICES ASSUME SInv, [Next]_vars, NEW s \in Runner PROVE Serialized(s)'
    BY IInvStep DEF SInv
  <1>1. CASE UNCHANGED vars
    BY <1>1, SerializedKept DEF vars, SInv
  <1>2. ASSUME Next, run'[s] = run[s] PROVE Serialized(s)'
    <2>1. CASE dialect' = "mysql" /\ run[s].pc \notin {"idle", "plan"}
      BY <1>2, <2>1, OthersStep, SerializedKept DEF SInv
    <2>2. CASE ~(dialect' = "mysql" /\ run[s].pc \notin {"idle", "plan"})
      BY <1>2, <2>2 DEF Serialized
    <2>3. QED
      BY <2>1, <2>2
  <1>3. ASSUME Next, run'[s] # run[s] PROVE Serialized(s)'
    <2>1. PICK r \in Runner : RunStep(r)
      BY <1>3 DEF Next, RunStep, PoolCloses, Repairs
    <2>2. r = s
      BY <1>3, <2>1, MovesItself DEF SInv, IInv
    <2>3. QED
      BY <2>1, <2>2, OwnStep DEF SInv
  <1>4. QED
    BY <1>1, <1>2, <1>3

(***************************************************************************)
(* On mysql GET_LOCK, taken before the history is read, makes each run     *)
(* act on the history it verified: no other run slips a version under it.  *)
(***************************************************************************)
THEOREM MySQLSerializesRuns == Spec => []MySQLRunsAreSerialized
  <1>1. Init => SInv
    BY InitIInv DEF Init, SInv, Serialized, Idle
  <1>2. ASSUME SInv PROVE MySQLRunsAreSerialized
    <2> SUFFICES ASSUME NEW r \in Runner, dialect = "mysql", run[r].pc \in Acting
                 PROVE  FilesMatch(r) /\ (run[r].dir = "down" \/ ~AllowOutOfOrder => OnTop(r))
      BY DEF MySQLRunsAreSerialized
    <2>1. run[r].pc \notin {"idle", "plan"} /\ Busy(r) = {Current(r)} /\ run[r].todo # {}
      BY <1>2 DEF SInv, IInv, Placed, Acting, Busy
    <2>2. Current(r) \in run[r].todo /\ run[r].todo \in SUBSET Version
      BY <1>2, <2>1, CurrentIsNext DEF SInv, IInv, Typed, RunType
    <2>3. FilesMatch(r)
      BY <1>2, <2>1 DEF SInv, Serialized, FilesMatch
    <2>4. CASE run[r].dir = "up"
      BY <1>2, <2>1, <2>2, <2>3, <2>4 DEF SInv, Serialized, OnTop
    <2>5. CASE run[r].dir = "down"
      <3>1. \A w \in run[r].todo : w <= Current(r)
        BY <2>1, <2>2, <2>5, NewestIsGreatest DEF Current
      <3>2. \A w \in Applied \ run[r].todo : w < Current(r)
        BY <1>2, <2>1, <2>2, <2>5 DEF SInv, Serialized
      <3>3. Version \subseteq Int
        BY DEF Version
      <3>4. OnTop(r)
        <4>1. ASSUME NEW w \in Applied \ {Current(r)} PROVE w < Current(r)
          <5>1. w \in Int /\ Current(r) \in Int
            BY <2>2, <3>3 DEF Applied
          <5>2. QED
            BY <3>1, <3>2, <5>1
        <4>2. QED
          BY <4>1 DEF OnTop
      <3>5. QED
        BY <2>3, <3>4
    <2>6. run[r].dir \in {"up", "down"}
      BY <1>2 DEF SInv, IInv, Typed, RunType
    <2>7. QED
      BY <2>4, <2>5, <2>6
  <1>3. QED
    BY <1>1, <1>2, SInvStep, PTL DEF Spec

=============================================================================
