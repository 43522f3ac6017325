------------------------------ MODULE Migrator ------------------------------
(***************************************************************************)
(* cli/migrationx: the runs of several Migrators over one database.        *)
(*                                                                         *)
(* A run reads the history table, verifies it against its own files, plans *)
(* what to apply or roll back, and takes the versions one at a time.  On   *)
(* mysql it holds GET_LOCK from before the read to its end; on sqlite the  *)
(* only lock is the write lock of each transaction.  A migration is one    *)
(* transaction with its history write, unless it is in Raw (annotated      *)
(* no-transaction) or in DDL (on mysql its statements commit implicitly).  *)
(*                                                                         *)
(* schema says what the scripts really did.  A script run on a schema it   *)
(* was not written for leaves it broken, the incident the engine is there  *)
(* to prevent.                                                             *)
(***************************************************************************)
EXTENDS Integers, FiniteSets

CONSTANTS
    Runner,
    MaxVersion,         \* bound: migration versions are 1..MaxVersion
    Content,            \* what a migration file may say, and its checksum
    None,
    Dialects,           \* the dialects a database may have
    Raw,                \* no-transaction migrations
    DDL,                \* migrations with statements that mysql commits at once
    NoDown,             \* migrations without a down file
    AllowOutOfOrder

Version == 1..MaxVersion

ASSUME MigratorAssumption ==
    /\ MaxVersion \in Nat \ {0}
    /\ Dialects \subseteq {"sqlite", "mysql"}
    /\ Raw \subseteq Version
    /\ DDL \subseteq Version
    /\ NoDown \subseteq Version
    /\ AllowOutOfOrder \in BOOLEAN

VARIABLES
    dialect,
    history,    \* history[v]: the row of the history table, or None
    schema,     \* schema[v]: what the scripts of v have done to the database
    run,        \* the runs in progress
    lock,       \* mysql: the runner holding GET_LOCK
    writer      \* sqlite: the holder of the write lock

vars == <<dialect, history, schema, run, lock, writer>>

Row == [sum : Content, dirty : BOOLEAN]

ASSUME NoneAssumption == None \notin Row \cup Content \cup Runner \cup {"pool"}
ASSUME PoolAssumption == "pool" \notin Runner

Idle == [pc |-> "idle", dir |-> "up", files |-> [v \in Version |-> None], todo |-> {}]

Init ==
    /\ dialect \in Dialects
    /\ history = [v \in Version |-> None]
    /\ schema = [v \in Version |-> "absent"]
    /\ run = [r \in Runner |-> Idle]
    /\ lock = None
    /\ writer = None

Applied == {v \in Version : history[v] # None}
Dirty == {v \in Applied : history[v].dirty}

Newest(S) == CHOOSE v \in S : \A w \in S : w <= v
Oldest(S) == CHOOSE v \in S : \A w \in S : v <= w

-----------------------------------------------------------------------------
(***************************************************************************)
(* locked: mysql takes GET_LOCK or times out; sqlite's lock takes nothing. *)
(* The files and the command of a run are chosen where they are first      *)
(* used, at the plan.                                                      *)
(***************************************************************************)
Starts(r) ==
    /\ run[r].pc = "idle"
    /\ dialect = "mysql" => lock = None
    /\ lock' = IF dialect = "mysql" THEN r ELSE lock
    /\ run' = [run EXCEPT ![r].pc = "plan"]
    /\ UNCHANGED <<dialect, history, schema, writer>>

(* verify: every applied migration has its file, and the file is unchanged. *)
Verified(files) == \A v \in Applied : files[v] = history[v].sum

Pending(files) == {v \in Version : files[v] # None /\ v \notin Applied}

OutOfOrderWithOldest(files) == {v \in Pending(files) : Applied # {} /\ \A w \in Applied : v < w}
OutOfOrder(files) == {v \in Pending(files) : \E w \in Applied : v < w}

(* The versions a command takes: Up, UpTo, UpByOne, DownTo, Down. *)
UpTo(files, target) == {v \in Pending(files) : v <= target}
UpByOne(files) == IF Pending(files) = {} THEN {} ELSE {Oldest(Pending(files))}
DownTo(target) == {v \in Applied : v > target}
DownOne == {Newest(Applied)}

AcceptsDirty(files) == Verified(files)
Accepts(files) == Verified(files) /\ Dirty = {}

PlansUp(r, files) ==
    /\ run[r].pc = "plan"
    /\ Accepts(files)
    /\ OutOfOrder(files) = {} \/ AllowOutOfOrder
    /\ \E todo \in {UpByOne(files)} \cup {UpTo(files, t) : t \in Version} :
         run' = [run EXCEPT ![r] = [pc |-> "next", dir |-> "up", files |-> files, todo |-> todo]]
    /\ UNCHANGED <<dialect, history, schema, lock, writer>>

PlansDown(r, files) ==
    /\ run[r].pc = "plan"
    /\ Accepts(files)
    /\ Applied # {}
    /\ \E todo \in {DownOne} \cup {DownTo(t) : t \in 0..MaxVersion} :
         run' = [run EXCEPT ![r] = [pc |-> "next", dir |-> "down", files |-> files, todo |-> todo]]
    /\ UNCHANGED <<dialect, history, schema, lock, writer>>

-----------------------------------------------------------------------------
(***************************************************************************)
(* Taking one version.                                                     *)
(***************************************************************************)
Current(r) == IF run[r].dir = "up" THEN Oldest(run[r].todo) ELSE Newest(run[r].todo)

(* The row a run wants to find gone (down) or missing (up) is already so. *)
NeverDone(r) == FALSE
AlreadyDone(r) == (history[Current(r)] # None) # (run[r].dir = "down")

Atomic(v) == v \notin Raw /\ (dialect = "sqlite" \/ v \notin DDL)

(* sqlite: a statement waits for the write lock; busy_timeout is in Ends. *)
CanWrite(r) == dialect = "mysql" \/ writer = None

Go(r, pc) == run' = [run EXCEPT ![r].pc = pc]
Skip(r) ==
    run' = [run EXCEPT ![r] = [pc |-> "next", dir |-> run[r].dir, files |-> run[r].files,
                               todo |-> run[r].todo \ {Current(r)}]]

Ready(r) ==
    /\ run[r].pc = "next"
    /\ run[r].todo # {}
    /\ run[r].dir = "down" => Current(r) \notin NoDown

(* execTx: begin, probe the row inside the transaction, skip or go on. *)
BeginsTx(r) ==
    /\ Ready(r)
    /\ Current(r) \notin Raw
    /\ CanWrite(r)
    /\ IF AlreadyDone(r)
       THEN Skip(r) /\ UNCHANGED writer
       ELSE /\ Go(r, IF Atomic(Current(r)) THEN "tx" ELSE "exec")
            /\ writer' = IF dialect = "sqlite" THEN r ELSE writer
    /\ UNCHANGED <<dialect, history, schema, lock>>

(* execRaw: only an up probes the row. *)
StartsRaw(r) ==
    /\ Ready(r)
    /\ Current(r) \in Raw
    /\ IF run[r].dir = "up" /\ AlreadyDone(r)
       THEN Skip(r)
       ELSE Go(r, IF dialect = "mysql" THEN "mark" ELSE "exec")
    /\ UNCHANGED <<dialect, history, schema, lock, writer>>

MarkedClean(r, row) ==
    [sum |-> IF run[r].dir = "up" THEN run[r].files[Current(r)] ELSE row.sum, dirty |-> FALSE]
Marked(r, row) ==
    [sum |-> IF run[r].dir = "up" THEN run[r].files[Current(r)] ELSE row.sum, dirty |-> TRUE]

(* premark: markDirty inserts the row of an up, setDirty flags a down's. *)
Marks(r) ==
    /\ run[r].pc = "mark"
    /\ history' = [history EXCEPT ![Current(r)] = Marked(r, @)]
    /\ Go(r, "exec")
    /\ UNCHANGED <<dialect, schema, lock, writer>>

Begun(dir, s) ==
    IF s = (IF dir = "up" THEN "absent" ELSE "full") THEN "partial" ELSE "broken"
Ended(dir, s) ==
    IF s = "partial" THEN IF dir = "up" THEN "full" ELSE "absent" ELSE "broken"

Written(r) ==
    IF run[r].dir = "up" THEN [sum |-> run[r].files[Current(r)], dirty |-> FALSE] ELSE None

(* Statements outside any transaction: some of them, then the others. *)
ExecsSome(r) ==
    /\ run[r].pc = "exec"
    /\ CanWrite(r)
    /\ schema' = [schema EXCEPT ![Current(r)] = Begun(run[r].dir, @)]
    /\ Go(r, "rest")
    /\ UNCHANGED <<dialect, history, lock, writer>>

ExecsRest(r) ==
    /\ run[r].pc = "rest"
    /\ CanWrite(r)
    /\ schema' = [schema EXCEPT ![Current(r)] = Ended(run[r].dir, @)]
    /\ Go(r, "record")
    /\ UNCHANGED <<dialect, history, lock, writer>>

(* A second row for the version is refused by the primary key. *)
Recordable(r) ==
    run[r].dir = "up" /\ ~(dialect = "mysql" /\ Current(r) \in Raw) => history[Current(r)] = None

Records(r) ==
    /\ run[r].pc = "record"
    /\ CanWrite(r)
    /\ Recordable(r)
    /\ history' = [history EXCEPT ![Current(r)] = Written(r)]
    /\ Skip(r)
    /\ UNCHANGED <<dialect, schema, lock, writer>>

Commits(r) ==
    /\ run[r].pc = "tx"
    /\ schema' = [schema EXCEPT ![Current(r)] = Ended(run[r].dir, Begun(run[r].dir, @))]
    /\ history' = [history EXCEPT ![Current(r)] = Written(r)]
    /\ Skip(r)
    /\ writer' = IF dialect = "sqlite" THEN None ELSE writer
    /\ UNCHANGED <<dialect, lock>>

-----------------------------------------------------------------------------
(***************************************************************************)
(* The end of a run: nothing left to do, a refusal of the code or of the   *)
(* database (plan refused, no down file, busy_timeout, duplicate row), a   *)
(* failed statement, a cancellation or the death of the process.  The      *)
(* deferred rollback and unlock run on every path, and the server does the *)
(* same when it loses the connection.                                      *)
(***************************************************************************)
Released(r) == IF lock = r THEN None ELSE lock

Ends(r) ==
    /\ run[r].pc # "idle"
    /\ run' = [run EXCEPT ![r] = Idle]
    /\ lock' = Released(r)
    /\ writer' = IF writer = r THEN None ELSE writer
    /\ UNCHANGED <<dialect, history, schema>>

(* sqlite: COMMIT fails, no ROLLBACK follows, and the connection goes back *)
(* to the consumer's pool with the transaction open.                       *)
CommitFails(r) ==
    /\ run[r].pc = "tx"
    /\ dialect = "sqlite"
    /\ run' = [run EXCEPT ![r] = Idle]
    /\ writer' = "pool"
    /\ UNCHANGED <<dialect, history, schema, lock>>

PoolCloses ==
    /\ writer = "pool"
    /\ writer' = None
    /\ UNCHANGED <<dialect, history, schema, run, lock>>

(* The operator resolves a dirty version between runs: finishes the script *)
(* and clears the flag, or undoes it and deletes the row.                  *)
Repairs(v) ==
    /\ v \in Dirty
    /\ lock = None
    /\ \/ /\ schema' = [schema EXCEPT ![v] = "full"]
          /\ history' = [history EXCEPT ![v].dirty = FALSE]
       \/ /\ schema' = [schema EXCEPT ![v] = "absent"]
          /\ history' = [history EXCEPT ![v] = None]
    /\ UNCHANGED <<dialect, run, lock, writer>>

Next ==
    \/ \E r \in Runner :
         \/ Starts(r)
         \/ \E files \in [Version -> Content \cup {None}] :
              PlansUp(r, files) \/ PlansDown(r, files)
         \/ BeginsTx(r) \/ StartsRaw(r) \/ Marks(r)
         \/ ExecsSome(r) \/ ExecsRest(r) \/ Records(r) \/ Commits(r)
         \/ Ends(r) \/ CommitFails(r)
    \/ PoolCloses
    \/ \E v \in Version : Repairs(v)

Spec == Init /\ [][Next]_vars

-----------------------------------------------------------------------------
RunType ==
    [pc : {"idle", "plan", "next", "mark", "exec", "rest", "record", "tx"},
     dir : {"up", "down"}, files : [Version -> Content \cup {None}], todo : SUBSET Version]

(***************************************************************************)
(* Every variable keeps its type; the locks are held by runs in progress   *)
(* of the dialect that has them, or by a connection left in the pool.      *)
(***************************************************************************)
TypeOK ==
    /\ dialect \in Dialects
    /\ history \in [Version -> Row \cup {None}]
    /\ schema \in [Version -> {"absent", "partial", "full", "broken"}]
    /\ run \in [Runner -> RunType]
    /\ lock \in Runner \cup {None} /\ (lock # None => dialect = "mysql" /\ run[lock].pc # "idle")
    /\ writer \in Runner \cup {None, "pool"}
    /\ \A r \in Runner : run[r].pc = "tx" /\ dialect = "sqlite" <=> writer = r

(***************************************************************************)
(* The versions whose partial application the engine rules out or tracks:  *)
(* all that run in one transaction, and mysql's no-transaction ones.       *)
(***************************************************************************)
Tracked(v) == Atomic(v) \/ (dialect = "mysql" /\ v \in Raw)

(***************************************************************************)
(* The history table tells the truth, at every moment and with any number  *)
(* of runners: a version without a row has left no trace in the schema, a  *)
(* clean row means its up script ran to the end, exactly once since the    *)
(* last down.                                                              *)
(***************************************************************************)
HistoryIsTrue ==
    \A v \in Version : Tracked(v) =>
        /\ history[v] = None => schema[v] = "absent"
        /\ v \in Applied \ Dirty => schema[v] = "full"

(***************************************************************************)
(* No script is run on a schema it was not written for: an up never on top *)
(* of itself or of a half-done one, a down never without its up.           *)
(***************************************************************************)
NeverReExecuted == \A v \in Version : Tracked(v) => schema[v] # "broken"

Acting == {"mark", "exec", "rest", "record", "tx"}

(***************************************************************************)
(* While a version is dirty no run touches another one.                    *)
(***************************************************************************)
DirtyStops ==
    \A v \in Dirty, r \in Runner : run[r].pc \in Acting => Current(r) = v

OnTop(r) == \A v \in Applied \ {Current(r)} : v < Current(r)
FilesMatch(r) == \A v \in Applied \ {Current(r)} : run[r].files[v] = history[v].sum

(***************************************************************************)
(* On mysql a run that acts on a version acts on the history it verified:  *)
(* the files match, an up goes on top of what is applied unless out of     *)
(* order is allowed, and a down takes the top.                             *)
(***************************************************************************)
MySQLRunsAreSerialized ==
    \A r \in Runner : dialect = "mysql" /\ run[r].pc \in Acting =>
        /\ FilesMatch(r)
        /\ run[r].dir = "down" \/ ~AllowOutOfOrder => OnTop(r)

(***************************************************************************)
(* What doc.go says of every dialect: a migration older than the newest    *)
(* applied one is refused unless AllowOutOfOrder, and concurrent runners   *)
(* are serialized, so that none slips in between.                          *)
(***************************************************************************)
OutOfOrderIsRefused ==
    \A r \in Runner :
        run[r].pc \in Acting /\ run[r].dir = "up" /\ ~AllowOutOfOrder => OnTop(r)

=============================================================================
