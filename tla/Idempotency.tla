----------------------------- MODULE Idempotency -----------------------------
(***************************************************************************)
(* httpx/middleware: Idempotency over its Store.                           *)
(*                                                                         *)
(* Every request is a goroutine that claims its key with SetNX, runs the   *)
(* handler, and then records the response with Set or releases the claim   *)
(* with Delete; a duplicate calls Get.  A store call is one action: the    *)
(* MemoryStore holds its mutex throughout, except that SetNX reads the     *)
(* clock before it takes the lock, which is an action of its own.          *)
(*                                                                         *)
(* With StoreFails the store is a remote one: each call may also fail,     *)
(* with its effect applied or not.  Requests the middleware passes through *)
(* or refuses before SetNX (method, missing key, unreadable body) touch    *)
(* no state and are left out.                                              *)
(***************************************************************************)
EXTENDS Integers, FiniteSets

CONSTANTS
    Req,            \* requests; a client's retry is another request
    Key,            \* Idempotency-Key values
    Fingerprint,    \* what identifies a request apart from its key
    None,           \* no entry, no response
    TTL,
    MaxRecords,     \* MemoryStore capacity
    SweepThrottle,
    Policy,         \* "Replay" or "Reject"
    MaxStall,       \* bound on the time from SetNX's clock read to its lock
    MaxSpan,        \* bound on the time from that read to the last store call
    StoreFails,     \* whether store calls may fail
    MaxTime         \* bound: the clock stops here

ASSUME IdempotencyAssumption ==
    /\ TTL \in Nat \ {0}
    /\ MaxRecords \in Nat \ {0}
    /\ SweepThrottle \in Nat
    /\ Policy \in {"Replay", "Reject"}
    /\ MaxSpan \in Nat
    /\ MaxStall \in 0 .. MaxSpan
    /\ StoreFails \in BOOLEAN
    /\ MaxTime \in Nat
    /\ None \notin Req

VARIABLES
    clock,
    entries,    \* MemoryStore.entries: an entry or None
    lastSweep,
    req         \* the requests

vars == <<clock, entries, lastSweep, req>>

Record == [fp : Fingerprint, inFlight : {TRUE}, resp : {None}]
            \cup [fp : Fingerprint, inFlight : {FALSE}, resp : Req]
Entry == [value : Record, expires : Int]

ASSUME NoneAssumption == None \notin Entry

(* now: what SetNX read; answer: what the client got; resp: what was replayed. *)
Fresh(k, p) ==
    [pc |-> "claim", key |-> k, fp |-> p, now |-> clock,
     answer |-> "none", resp |-> None]

Unborn == [pc |-> "unborn", key |-> None, fp |-> None, now |-> 0,
           answer |-> "none", resp |-> None]

(* The program counters of a request whose handler or bookkeeping runs. *)
Executing == {"run", "store", "release"}

Stored == {k \in Key : entries[k] # None}
Live(k, now) == entries[k] # None /\ now < entries[k].expires

Init ==
    /\ clock = 0
    /\ entries = [k \in Key |-> None]
    /\ lastSweep = -SweepThrottle
    /\ req = [r \in Req |-> Unborn]

Answer(r, a) == req' = [req EXCEPT ![r].pc = "answered", ![r].answer = a]

(***************************************************************************)
(* A request arrives, its body is hashed, and SetNX reads the clock.       *)
(***************************************************************************)
Arrive(r, k, p) ==
    /\ req[r].pc = "unborn"
    /\ req' = [req EXCEPT ![r] = Fresh(k, p)]
    /\ UNCHANGED <<clock, entries, lastSweep>>

(***************************************************************************)
(* SetNX, under the lock, at the instant now it read before.               *)
(***************************************************************************)
SweepAll(now) == Stored
Sweepable(now) == {k \in Stored : ~Live(k, now)}

(* The entries left after the lazy deletion and, at capacity, the sweep. *)
Kept(k, now) == Stored \ {k}
MustSweep(k, now) ==
    Cardinality(Kept(k, now)) >= MaxRecords /\ now - lastSweep >= SweepThrottle
Remaining(k, now) ==
    IF MustSweep(k, now) THEN Kept(k, now) \ Sweepable(now) ELSE Kept(k, now)

HasRoom(k, now) == Cardinality(Remaining(k, now)) < MaxRecords

Insert(r, k, now) ==
    entries' = [j \in Key |->
        IF j = k THEN [value |-> [fp |-> req[r].fp, inFlight |-> TRUE, resp |-> None],
                       expires |-> now + TTL]
        ELSE IF j \in Remaining(k, now) THEN entries[j] ELSE None]

Swept(k, now) == lastSweep' = IF MustSweep(k, now) THEN now ELSE lastSweep

TakenIfDone(k, now) == Live(k, now) /\ ~entries[k].value.inFlight
Taken(k, now) == Live(k, now)

Claims(r) ==
    LET k == req[r].key  now == req[r].now
    IN  /\ req[r].pc = "claim"
        /\ ~Taken(k, now)
        /\ HasRoom(k, now)
        /\ Insert(r, k, now)
        /\ Swept(k, now)
        /\ req' = [req EXCEPT ![r].pc = "run"]
        /\ UNCHANGED clock

ClaimTaken(r) ==
    /\ req[r].pc = "claim"
    /\ Taken(req[r].key, req[r].now)
    /\ req' = [req EXCEPT ![r].pc = "duplicate"]
    /\ UNCHANGED <<clock, entries, lastSweep>>

(* errStoreFull, after the deletions SetNX has made on its way. *)
ClaimFull(r) ==
    LET k == req[r].key  now == req[r].now
    IN  /\ req[r].pc = "claim"
        /\ ~Taken(k, now)
        /\ ~HasRoom(k, now)
        /\ entries' = [j \in Key |-> IF j \in Remaining(k, now) THEN entries[j] ELSE None]
        /\ Swept(k, now)
        /\ Answer(r, "refused")
        /\ UNCHANGED clock

(* A remote SetNX fails; the claim may have been stored all the same. *)
ClaimFails(r) ==
    LET k == req[r].key  now == req[r].now
    IN  /\ StoreFails
        /\ req[r].pc = "claim"
        /\ \/ UNCHANGED <<entries, lastSweep>>
           \/ /\ ~Taken(k, now)
              /\ HasRoom(k, now)
              /\ Insert(r, k, now)
              /\ Swept(k, now)
        /\ Answer(r, "refused")
        /\ UNCHANGED clock

(***************************************************************************)
(* The handler: an observed completion is stored, a 5xx, a truncated body  *)
(* or a panic releases the claim.                                          *)
(***************************************************************************)
HandlerCompletes(r) ==
    /\ req[r].pc = "run"
    /\ req' = [req EXCEPT ![r].pc = "store"]
    /\ UNCHANGED <<clock, entries, lastSweep>>

HandlerFails(r) ==
    /\ req[r].pc = "run"
    /\ req' = [req EXCEPT ![r].pc = "release"]
    /\ UNCHANGED <<clock, entries, lastSweep>>

(* Set replaces a live entry's value and keeps its lifetime. *)
Write(r, k) ==
    entries' = [entries EXCEPT ![k].value =
        [fp |-> req[r].fp, inFlight |-> FALSE, resp |-> r]]

StoresResponse(r) ==
    LET k == req[r].key
    IN  /\ req[r].pc = "store"
        /\ \/ Live(k, clock) /\ Write(r, k)
           \/ ~Live(k, clock) /\ UNCHANGED entries
           \/ StoreFails /\ UNCHANGED entries
        /\ Answer(r, "completed")
        /\ UNCHANGED <<clock, lastSweep>>

Releases(r) ==
    /\ req[r].pc = "release"
    /\ \/ entries' = [entries EXCEPT ![req[r].key] = None]
       \/ StoreFails /\ UNCHANGED entries
    /\ Answer(r, "failed")
    /\ UNCHANGED <<clock, lastSweep>>

(***************************************************************************)
(* answerDuplicate.                                                        *)
(***************************************************************************)
SameFpAlways(r, v) == TRUE
SameFp(r, v) == v.fp = req[r].fp

FoundThoughExpired(k) == entries[k] # None
Found(k) == Live(k, clock)

Verdict(r, v) ==
    IF ~SameFp(r, v) THEN "mismatch"
    ELSE IF v.inFlight THEN "inFlight"
    ELSE IF Policy = "Reject" THEN "rejected" ELSE "replayed"

AnswersDuplicate(r) ==
    LET k == req[r].key
    IN  /\ req[r].pc = "duplicate"
        /\ \/ ~Found(k) /\ Answer(r, "inFlight")
           \/ /\ Found(k)
              /\ LET v == entries[k].value
                     a == Verdict(r, v)
                 IN  req' = [req EXCEPT ![r].pc = "answered", ![r].answer = a,
                                        ![r].resp = IF a = "replayed" THEN v.resp ELSE None]
           \/ StoreFails /\ Answer(r, "refused")
        /\ UNCHANGED <<clock, entries, lastSweep>>

(* Time passes, within the bounds on a request's stall and span. *)
Tick ==
    /\ clock < MaxTime
    /\ \A r \in Req :
         /\ req[r].pc = "claim" => clock < req[r].now + MaxStall
         /\ req[r].pc \in Executing => clock < req[r].now + MaxSpan
    /\ clock' = clock + 1
    /\ UNCHANGED <<entries, lastSweep, req>>

Next ==
    \/ Tick
    \/ \E r \in Req :
         \/ \E k \in Key, p \in Fingerprint : Arrive(r, k, p)
         \/ Claims(r) \/ ClaimTaken(r) \/ ClaimFull(r) \/ ClaimFails(r)
         \/ HandlerCompletes(r) \/ HandlerFails(r)
         \/ StoresResponse(r) \/ Releases(r) \/ AnswersDuplicate(r)

Spec == Init /\ [][Next]_vars

-----------------------------------------------------------------------------
PC == {"unborn", "claim", "run", "store", "release", "duplicate", "answered"}
Answers == {"none", "completed", "failed", "refused", "inFlight", "mismatch", "rejected",
            "replayed"}
ReqType == [pc : PC, key : Key \cup {None}, fp : Fingerprint \cup {None}, now : Nat,
            answer : Answers, resp : Req \cup {None}]

(* Every variable keeps its type. *)
TypeOK ==
    /\ clock \in Nat
    /\ entries \in [Key -> Entry \cup {None}]
    /\ lastSweep \in Int
    /\ req \in [Req -> ReqType]

RunningOn(k) == {r \in Req : req[r].pc \in Executing /\ req[r].key = k}

(* Executions whose claim nobody has released. *)
Standing == {r \in Req : req[r].pc \in Executing \/ req[r].answer = "completed"}
Begins(r) == req[r].pc = "claim" /\ req'[r].pc = "run"

(***************************************************************************)
(* At most one handler execution per key within the TTL: no request begins *)
(* to execute while the claim of another execution of its key should still *)
(* stand, unless that execution failed and released it.                    *)
(***************************************************************************)
AtMostOnce ==
    [][\A s \in Req, r \in Standing :
          Begins(s) /\ req[r].key = req[s].key => clock >= req[r].now + TTL]_vars

(***************************************************************************)
(* A replayed response is that of a completed execution of the same        *)
(* request: same key, same fingerprint.                                    *)
(***************************************************************************)
ReplayIsFaithful ==
    \A r \in Req : req[r].answer = "replayed" =>
        LET s == req[r].resp
        IN  /\ s \in Req
            /\ req[s].answer = "completed"
            /\ req[s].key = req[r].key
            /\ req[s].fp = req[r].fp

Once == INSTANCE OncePerKey WITH
    held    <- {k \in Key : Live(k, clock)},
    running <- [k \in Key |-> RunningOn(k)],
    result  <- [k \in Key |-> IF Live(k, clock) THEN entries[k].value.resp ELSE None],
    served  <- [r \in Req |-> req[r].resp]

(* With handlers that end within the TTL the middleware is OncePerKey. *)
ImplementsOncePerKey == Once!Spec

=============================================================================
