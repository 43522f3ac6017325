-------------------------------- MODULE Pool --------------------------------
(***************************************************************************)
(* x/sshx: Pool and its Managed connections.                               *)
(*                                                                         *)
(* Processes: the maintenance loop of every Managed (manage), the users    *)
(* that run commands on it, the goroutine that calls Add, the one that     *)
(* calls Pool.Close, and anybody calling Managed.Close.  One action is one *)
(* critical section of Managed.mu or Pool.mu, one channel operation, or    *)
(* one blocking call; whatever the code does outside the lock can be       *)
(* overtaken.                                                              *)
(*                                                                         *)
(* The clients a Managed dials are numbered 1, 2, ...; 0 is a nil *Client. *)
(* Backoff and probe delays are arbitrary.  State, Err and Client only     *)
(* read.                                                                   *)
(***************************************************************************)
EXTENDS Integers, FiniteSets

CONSTANTS
    Conn,        \* the Managed connections that may be added
    User,        \* goroutines that call CombinedOutput or Output
    MaxDials,    \* maxConcurrentDials
    MaxClients,  \* bound: successful dials per Managed
    MaxFailures  \* bound: failed dials per Managed in a row

ASSUME PoolAssumption ==
    /\ IsFiniteSet(Conn)
    /\ MaxDials \in Nat \ {0}
    /\ MaxClients \in Nat
    /\ MaxFailures \in Nat

VARIABLES
    \* Pool
    sem,        \* the loops that hold a slot of the dial semaphore
    conns, dead,
    closing,    \* Pool.Close: "no", "running", "done"
    toClose,    \* the connections Pool.Close has still to close
    \* Managed
    adding,     \* where Add is: "no", "locked", "refused", "done"
    state, client, lastErr, closed,
    cancelled,  \* the Managed's ctx is done
    token,      \* the reconnect channel: 0, or the client it was sent about
    \* manage
    pc, cur, err, redial, attempt,
    \* Clients
    dialed,     \* number of clients dialed
    open,       \* clients not yet closed by teardown
    up,         \* clients whose transport works
    \* Users
    user

poolVars    == <<conns, dead, closing, toClose>>
managedVars == <<state, client, lastErr, closed>>
loopVars    == <<pc, cur, err, redial, attempt>>
clientVars  == <<dialed, open, up>>
vars == <<sem, poolVars, adding, managedVars, cancelled, token, loopVars,
          clientVars, user>>

Nobody == [pc |-> "idle", conn |-> "none", c |-> 0]

Errors == {"nil", "dial", "ping", "command"}
LoopPC == {"none", "dial", "dialing", "failed", "wait", "drain", "setReady",
           "serve", "setBroken", "teardown", "clear", "done"}

Init ==
    /\ sem = {}
    /\ conns = {} /\ dead = FALSE /\ closing = "no" /\ toClose = {}
    /\ adding = [m \in Conn |-> "no"]
    /\ state = [m \in Conn |-> "Connecting"]
    /\ client = [m \in Conn |-> 0]
    /\ lastErr = [m \in Conn |-> "nil"]
    /\ closed = [m \in Conn |-> FALSE]
    /\ cancelled = [m \in Conn |-> FALSE]
    /\ token = [m \in Conn |-> 0]
    /\ pc = [m \in Conn |-> "none"]
    /\ cur = [m \in Conn |-> 0]
    /\ err = [m \in Conn |-> "nil"]
    /\ redial = [m \in Conn |-> FALSE]
    /\ attempt = [m \in Conn |-> 0]
    /\ dialed = [m \in Conn |-> 0]
    /\ open = [m \in Conn |-> {}]
    /\ up = [m \in Conn |-> {}]
    /\ user = [u \in User |-> Nobody]

-----------------------------------------------------------------------------
(***************************************************************************)
(* Managed.set: a no-op after Close; the client changes only on Ready.     *)
(***************************************************************************)
SetIgnoringClosed(m, s, c, e) ==
    /\ state' = [state EXCEPT ![m] = s]
    /\ client' = [client EXCEPT ![m] = IF s = "Ready" THEN c ELSE @]
    /\ lastErr' = [lastErr EXCEPT ![m] = e]

Set(m, s, c, e) ==
    IF closed[m]
    THEN UNCHANGED <<state, client, lastErr>>
    ELSE /\ state' = [state EXCEPT ![m] = s]
         /\ client' = [client EXCEPT ![m] = IF s = "Ready" THEN c ELSE @]
         /\ lastErr' = [lastErr EXCEPT ![m] = e]

Goto(m, l) == pc' = [pc EXCEPT ![m] = l]

(***************************************************************************)
(* Pool.add: registered or refused under Pool.mu; then the loop is started *)
(* or the new Managed closed.                                              *)
(***************************************************************************)
RefusesNever == FALSE
Refuses == dead

AddLocked(m) ==
    /\ adding[m] = "no"
    /\ conns' = IF Refuses THEN conns ELSE conns \cup {m}
    /\ adding' = [adding EXCEPT ![m] = IF Refuses THEN "refused" ELSE "locked"]
    /\ UNCHANGED <<sem, dead, closing, toClose, managedVars, cancelled, token,
                   loopVars, clientVars, user>>

AddStarts(m) ==
    /\ adding[m] = "locked"
    /\ adding' = [adding EXCEPT ![m] = "done"]
    /\ Goto(m, "dial")
    /\ UNCHANGED <<sem, poolVars, managedVars, cancelled, token, cur, err, redial, attempt,
                   clientVars, user>>

(***************************************************************************)
(* Managed.Close, once: mark closed under the lock, then cancel the ctx.   *)
(* MayClose says who calls it: the owner at any time after Add returned,   *)
(* Pool.Close for what it took over, and Add on a dead pool.               *)
(***************************************************************************)
MayClose(m) == adding[m] \in {"done", "refused"} \/ m \in toClose

CloseMarks(m) ==
    /\ MayClose(m)
    /\ ~closed[m]
    /\ closed' = [closed EXCEPT ![m] = TRUE]
    /\ state' = [state EXCEPT ![m] = "Closed"]
    /\ UNCHANGED <<sem, poolVars, adding, client, lastErr, cancelled, token, loopVars,
                   clientVars, user>>

CancelForgotten(m) == UNCHANGED cancelled
Cancel(m) == cancelled' = [cancelled EXCEPT ![m] = TRUE]

CloseCancels(m) ==
    /\ closed[m] /\ ~cancelled[m]
    /\ Cancel(m)
    /\ UNCHANGED <<sem, poolVars, adding, managedVars, token, loopVars, clientVars, user>>

(* Pool.Close: take the connections under Pool.mu, then close each of them. *)
PoolCloseTakes ==
    /\ closing = "no"
    /\ dead' = TRUE
    /\ toClose' = conns
    /\ conns' = {}
    /\ closing' = "running"
    /\ UNCHANGED <<sem, adding, managedVars, cancelled, token, loopVars, clientVars, user>>

PoolCloseNext(m) ==
    /\ m \in toClose
    /\ cancelled[m]
    /\ toClose' = toClose \ {m}
    /\ UNCHANGED <<sem, conns, dead, closing, adding, managedVars, cancelled, token,
                   loopVars, clientVars, user>>

PoolCloseReturns ==
    /\ closing = "running" /\ toClose = {}
    /\ closing' = "done"
    /\ UNCHANGED <<sem, conns, dead, toClose, adding, managedVars, cancelled, token,
                   loopVars, clientVars, user>>

-----------------------------------------------------------------------------
(***************************************************************************)
(* manage, dial: a slot of the semaphore or the end of ctx, whichever the  *)
(* select picks; the slot is released when dialFn returns.                 *)
(***************************************************************************)
SlotFreeAlways == TRUE
SlotFree == Cardinality(sem) < MaxDials

DialAcquires(m) ==
    /\ pc[m] = "dial"
    /\ SlotFree
    /\ sem' = sem \cup {m}
    /\ Goto(m, "dialing")
    /\ UNCHANGED <<poolVars, adding, managedVars, cancelled, token, cur, err, redial, attempt,
                   clientVars, user>>

DialGivesUp(m) ==
    /\ pc[m] = "dial"
    /\ cancelled[m]
    /\ Goto(m, "done")
    /\ UNCHANGED <<sem, poolVars, adding, managedVars, cancelled, token, cur, err, redial, attempt,
                   clientVars, user>>

DialSucceeds(m) ==
    /\ pc[m] = "dialing"
    /\ dialed[m] < MaxClients
    /\ sem' = sem \ {m}
    /\ dialed' = [dialed EXCEPT ![m] = @ + 1]
    /\ cur' = [cur EXCEPT ![m] = dialed[m] + 1]
    /\ open' = [open EXCEPT ![m] = @ \cup {dialed[m] + 1}]
    /\ up' = [up EXCEPT ![m] = @ \cup {dialed[m] + 1}]
    /\ attempt' = [attempt EXCEPT ![m] = 0]
    /\ Goto(m, "drain")
    /\ UNCHANGED <<poolVars, adding, managedVars, cancelled, token, err, redial, user>>

(* The dial fails; canceled with ctx, the error ends the loop at once. *)
DialFails(m) ==
    /\ pc[m] = "dialing"
    /\ attempt[m] < MaxFailures \/ cancelled[m]
    /\ sem' = sem \ {m}
    /\ \/ /\ cancelled[m]
          /\ Goto(m, "done")
          /\ UNCHANGED <<err, attempt>>
       \/ /\ attempt[m] < MaxFailures
          /\ Goto(m, "failed")
          /\ err' = [err EXCEPT ![m] = "dial"]
          /\ attempt' = [attempt EXCEPT ![m] = @ + 1]
    /\ UNCHANGED <<poolVars, adding, managedVars, cancelled, token, cur, redial,
                   clientVars, user>>

SetsBrokenOnDial(m) ==
    /\ pc[m] = "failed"
    /\ Set(m, "Broken", 0, err[m])
    /\ Goto(m, "wait")
    /\ UNCHANGED <<sem, poolVars, adding, closed, cancelled, token, cur, err, redial, attempt,
                   clientVars, user>>

(* wait: the backoff timer or the end of ctx. *)
Waited(m) ==
    /\ pc[m] = "wait"
    /\ Goto(m, "dial") \/ (cancelled[m] /\ Goto(m, "done"))
    /\ UNCHANGED <<sem, poolVars, adding, managedVars, cancelled, token, cur, err, redial, attempt,
                   clientVars, user>>

(* Drain a stale redial token, then go Ready. *)
Drains(m) ==
    /\ pc[m] = "drain"
    /\ token' = [token EXCEPT ![m] = 0]
    /\ Goto(m, "setReady")
    /\ UNCHANGED <<sem, poolVars, adding, managedVars, cancelled, cur, err, redial, attempt,
                   clientVars, user>>

SetsReady(m) ==
    /\ pc[m] = "setReady"
    /\ Set(m, "Ready", cur[m], "nil")
    /\ Goto(m, "serve")
    /\ UNCHANGED <<sem, poolVars, adding, closed, cancelled, token, cur, err, redial, attempt,
                   clientVars, user>>

(***************************************************************************)
(* serve: the end of ctx, a redial token, or a failed probe.  A probe that *)
(* succeeds changes nothing.                                               *)
(***************************************************************************)
ServeEnds(m) ==
    /\ pc[m] = "serve"
    /\ cancelled[m]
    /\ redial' = [redial EXCEPT ![m] = FALSE]
    /\ Goto(m, "teardown")
    /\ UNCHANGED <<sem, poolVars, adding, managedVars, cancelled, token, cur, err, attempt,
                   clientVars, user>>

ServeRedials(m) ==
    /\ pc[m] = "serve"
    /\ token[m] # 0
    /\ token' = [token EXCEPT ![m] = 0]
    /\ err' = [err EXCEPT ![m] = lastErr[m]]
    /\ redial' = [redial EXCEPT ![m] = TRUE]
    /\ Goto(m, "setBroken")
    /\ UNCHANGED <<sem, poolVars, adding, managedVars, cancelled, cur, attempt, clientVars, user>>

PingFails(m) ==
    /\ pc[m] = "serve"
    /\ cur[m] \notin up[m] \/ cancelled[m]
    /\ err' = [err EXCEPT ![m] = "ping"]
    /\ redial' = [redial EXCEPT ![m] = TRUE]
    /\ Goto(m, "setBroken")
    /\ UNCHANGED <<sem, poolVars, adding, managedVars, cancelled, token, cur, attempt,
                   clientVars, user>>

PublishNothing(m) == UNCHANGED <<state, client, lastErr>>
PublishBroken(m) == Set(m, "Broken", 0, err[m])

SetsBroken(m) ==
    /\ pc[m] = "setBroken"
    /\ PublishBroken(m)
    /\ Goto(m, "teardown")
    /\ UNCHANGED <<sem, poolVars, adding, closed, cancelled, token, cur, err, redial, attempt,
                   clientVars, user>>

(* teardown: close the client, then clear it from the model. *)
TeardownForgets(m) == UNCHANGED open
TeardownCloses(m) == open' = [open EXCEPT ![m] = @ \ {cur[m]}]

Teardown(m) ==
    /\ pc[m] = "teardown"
    /\ TeardownCloses(m)
    /\ up' = [up EXCEPT ![m] = @ \ {cur[m]}]
    /\ Goto(m, "clear")
    /\ UNCHANGED <<sem, poolVars, adding, managedVars, cancelled, token, cur, err, redial, attempt,
                   dialed, user>>

Clears(m) ==
    /\ pc[m] = "clear"
    /\ client' = [client EXCEPT ![m] = IF @ = cur[m] THEN 0 ELSE @]
    /\ Goto(m, IF redial[m] THEN "dial" ELSE "done")
    /\ UNCHANGED <<sem, poolVars, adding, state, lastErr, closed, cancelled, token, cur, err,
                   redial, attempt, clientVars, user>>

(* The transport of an open client dies, or keepalive closes it. *)
TransportDies(m, c) ==
    /\ c \in up[m]
    /\ up' = [up EXCEPT ![m] = @ \ {c}]
    /\ UNCHANGED <<sem, poolVars, adding, managedVars, cancelled, token, loopVars, dialed, open,
                   user>>

-----------------------------------------------------------------------------
(***************************************************************************)
(* CombinedOutput and Output.  ready hands out the client under the lock;  *)
(* the command runs outside it and may fail fatally even on a working      *)
(* transport (a refused session).                                          *)
(***************************************************************************)
UserReady(u, m) ==
    /\ user[u] = Nobody
    /\ ~closed[m] /\ state[m] = "Ready" /\ client[m] # 0
    /\ user' = [user EXCEPT ![u] = [pc |-> "running", conn |-> m, c |-> client[m]]]
    /\ UNCHANGED <<sem, poolVars, adding, managedVars, cancelled, token, loopVars, clientVars>>

(* The command ends with success, an exit status or the caller's ctx. *)
UserDone(u) ==
    /\ user[u].pc = "running"
    /\ user' = [user EXCEPT ![u] = Nobody]
    /\ UNCHANGED <<sem, poolVars, adding, managedVars, cancelled, token, loopVars, clientVars>>

(* signalReconnect, under the lock: only the live client is marked broken. *)
StillReady(m, c) == ~closed[m] /\ state[m] = "Ready" /\ client[m] = c

UserMarksBroken(u) ==
    /\ user[u].pc = "running"
    /\ LET m == user[u].conn
       IN  IF StillReady(m, user[u].c)
           THEN /\ state' = [state EXCEPT ![m] = "Broken"]
                /\ lastErr' = [lastErr EXCEPT ![m] = "command"]
                /\ user' = [user EXCEPT ![u].pc = "signal"]
           ELSE /\ user' = [user EXCEPT ![u] = Nobody]
                /\ UNCHANGED <<state, lastErr>>
    /\ UNCHANGED <<sem, poolVars, adding, client, closed, cancelled, token, loopVars, clientVars>>

(* signalReconnect, after the unlock: a non-blocking send of the token. *)
SendNothing(m, c) == UNCHANGED token
SendToken(m, c) == token' = [token EXCEPT ![m] = IF @ = 0 THEN c ELSE @]

UserSignals(u) ==
    /\ user[u].pc = "signal"
    /\ SendToken(user[u].conn, user[u].c)
    /\ user' = [user EXCEPT ![u] = Nobody]
    /\ UNCHANGED <<sem, poolVars, adding, managedVars, cancelled, loopVars, clientVars>>

-----------------------------------------------------------------------------
Loop(m) ==
    \/ DialAcquires(m) \/ DialGivesUp(m) \/ DialSucceeds(m) \/ DialFails(m)
    \/ SetsBrokenOnDial(m) \/ Waited(m) \/ Drains(m) \/ SetsReady(m)
    \/ ServeEnds(m) \/ ServeRedials(m) \/ PingFails(m) \/ SetsBroken(m)
    \/ Teardown(m) \/ Clears(m)

Next ==
    \/ PoolCloseTakes \/ PoolCloseReturns
    \/ \E m \in Conn :
         \/ AddLocked(m) \/ AddStarts(m) \/ CloseMarks(m) \/ CloseCancels(m)
         \/ PoolCloseNext(m) \/ Loop(m)
         \/ \E c \in 1 .. MaxClients : TransportDies(m, c)
    \/ \E u \in User :
         \/ \E m \in Conn : UserReady(u, m)
         \/ UserDone(u) \/ UserMarksBroken(u) \/ UserSignals(u)

Spec == Init /\ [][Next]_vars

(***************************************************************************)
(* Goroutines keep running; a select that finds ctx done again and again   *)
(* picks it eventually (Go's select is uniformly random), and so is a slot *)
(* or a successful dial met if it is possible again and again.             *)
(***************************************************************************)
FairSpec ==
    /\ Spec
    /\ WF_vars(PoolCloseReturns)
    /\ \A m \in Conn :
         /\ WF_vars(AddStarts(m)) /\ WF_vars(CloseCancels(m))
         /\ WF_vars(PoolCloseNext(m)) /\ WF_vars(m \in toClose /\ CloseMarks(m))
         /\ WF_vars(Loop(m))
         /\ SF_vars(DialAcquires(m)) /\ SF_vars(DialSucceeds(m))
         /\ SF_vars(DialGivesUp(m)) /\ SF_vars(ServeEnds(m))
    /\ \A u \in User :
         WF_vars(UserSignals(u)) /\ WF_vars(UserDone(u) \/ UserMarksBroken(u))

-----------------------------------------------------------------------------
UserType ==
    [pc : {"idle", "running", "signal"}, conn : Conn \cup {"none"}, c : Nat]

(* Every variable keeps its type. *)
TypeOK ==
    /\ sem \subseteq Conn
    /\ conns \subseteq Conn /\ dead \in BOOLEAN
    /\ closing \in {"no", "running", "done"} /\ toClose \subseteq Conn
    /\ adding \in [Conn -> {"no", "locked", "refused", "done"}]
    /\ state \in [Conn -> {"Connecting", "Ready", "Broken", "Closed"}]
    /\ client \in [Conn -> Nat]
    /\ lastErr \in [Conn -> Errors]
    /\ closed \in [Conn -> BOOLEAN]
    /\ cancelled \in [Conn -> BOOLEAN]
    /\ token \in [Conn -> Nat]
    /\ pc \in [Conn -> LoopPC]
    /\ cur \in [Conn -> Nat]
    /\ err \in [Conn -> Errors]
    /\ redial \in [Conn -> BOOLEAN]
    /\ attempt \in [Conn -> Nat]
    /\ dialed \in [Conn -> Nat]
    /\ open \in [Conn -> SUBSET Nat]
    /\ up \in [Conn -> SUBSET Nat]
    /\ user \in [User -> UserType]

(***************************************************************************)
(* What ready hands out is the loop's own client, not torn down: while the *)
(* state reads Ready the loop is serving that client or has not yet        *)
(* published that it is about to replace it.                               *)
(***************************************************************************)
ReadyIsLive ==
    \A m \in Conn : state[m] = "Ready" =>
        /\ pc[m] \in {"serve", "setBroken"}
        /\ client[m] = cur[m]
        /\ cur[m] \in open[m]

(***************************************************************************)
(* A Managed keeps a single live Client: the loop never dials while a      *)
(* client is open, and when it ends nothing is left open.                  *)
(***************************************************************************)
NoClientLeaks ==
    \A m \in Conn :
        /\ \A c, d \in open[m] : c = d
        /\ pc[m] \in {"none", "dial", "dialing", "failed", "wait", "done"} => open[m] = {}

(* At most MaxDials dials are in flight and a loop outside a dial holds no slot. *)
DialsCapped ==
    /\ Cardinality({m \in Conn : pc[m] = "dialing"}) <= MaxDials
    /\ sem = {m \in Conn : pc[m] = "dialing"}

(* StateClosed is terminal: nothing the loop or a user does leaves it. *)
ClosedIsTerminal ==
    [][\A m \in Conn : state[m] = "Closed" => state'[m] = "Closed"]_vars

(***************************************************************************)
(* When Pool.Close has returned no connection is still maintained: one     *)
(* whose loop runs or is about to be started is closed, whatever the race  *)
(* between Add and Close.                                                  *)
(***************************************************************************)
PoolCloseIsComplete ==
    closing = "done" =>
        \A m \in Conn :
            adding[m] = "locked" \/ pc[m] \notin {"none", "done"} => closed[m]

(***************************************************************************)
(* A redial token met by serve is about the client being served: a         *)
(* straggler's failure never tears down a healthy successor (the comments  *)
(* on signalReconnect and on the drain in manage).                         *)
(***************************************************************************)
TokenIsCurrent ==
    \A m \in Conn : pc[m] = "serve" /\ token[m] # 0 => token[m] = cur[m]

(* Once closed, the loop ends. *)
CloseEndsLoop ==
    \A m \in Conn : closed[m] ~> (pc[m] \in {"none", "done"})

(* A broken connection is dialed until it is ready again or closed. *)
BrokenHeals ==
    \A m \in Conn :
        (state[m] = "Broken") ~> (state[m] \in {"Ready", "Closed"} \/ dialed[m] = MaxClients)

(***************************************************************************)
(* manage never hangs: it sees Close in dial, in wait and in serve, and a  *)
(* failure a user signals reaches it.                                      *)
(***************************************************************************)
LoopProgresses == CloseEndsLoop /\ BrokenHeals

=============================================================================
