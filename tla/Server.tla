------------------------------- MODULE Server -------------------------------
(***************************************************************************)
(* httpx.Server: middleware is added with Use, Run builds the handler,     *)
(* listens, and drains when its ctx is cancelled; the requests it accepts  *)
(* go through Middleware.  net/http's Shutdown is external: it closes the  *)
(* listener, and returns when nothing is in flight or its deadline is      *)
(* over.                                                                   *)
(***************************************************************************)
EXTENDS Middleware

VARIABLES
    load,      \* what the clients send
    chain,     \* the middleware added with Use
    handler,   \* what build made of it; "none" before
    served,    \* per request: the handler that serves it
    run,       \* Run: "idle", "starting", "serving", "draining", or how it returned
    cancelled  \* Run's ctx is done

runVars == <<load, chain, handler, served, run, cancelled>>
vars == <<pipeVars, runVars>>

Added == {"standard", "late"}
Returned == {"drained", "grace over", "serve error"}

Init ==
    /\ PipeInit
    /\ load \in Loads
    /\ chain = {"standard"}
    /\ handler = {"none"}
    /\ served = [i \in Request |-> {}]
    /\ run = "idle" /\ cancelled = FALSE

-----------------------------------------------------------------------------
UseAlways == TRUE
UseAllowed == handler = {"none"}

(* Use, at any time; once the handler is built it panics instead. *)
Use ==
    /\ UseAllowed
    /\ chain' = chain \cup {"late"}
    /\ UNCHANGED <<pipeVars, load, handler, served, run, cancelled>>

build == handler' = IF handler = {"none"} THEN chain ELSE handler

RunStarts ==
    /\ run = "idle"
    /\ build
    /\ run' = "starting"
    /\ UNCHANGED <<pipeVars, load, chain, served, cancelled>>

Listens ==
    /\ run = "starting"
    /\ run' = "serving"
    /\ UNCHANGED <<pipeVars, load, chain, handler, served, cancelled>>

(* ListenAndServe returns an error, to begin with or later. *)
ServeFails ==
    /\ run \in {"starting", "serving"}
    /\ run' = "serve error"
    /\ UNCHANGED <<pipeVars, load, chain, handler, served, cancelled>>

Cancel ==
    /\ ~cancelled
    /\ cancelled' = TRUE
    /\ UNCHANGED <<pipeVars, load, chain, handler, served, run>>

(* Shutdown, also of a server whose goroutine has not come to listen yet. *)
ShutsDown ==
    /\ run \in {"starting", "serving"} /\ cancelled
    /\ run' = "draining"
    /\ UNCHANGED <<pipeVars, load, chain, handler, served, cancelled>>

ClosesAtOnce == TRUE
AllAnswered == InFlight = {}

Drained ==
    /\ run = "draining" /\ AllAnswered
    /\ run' = "drained"
    /\ UNCHANGED <<pipeVars, load, chain, handler, served, cancelled>>

NoDeadline == FALSE
HasDeadline == run = "draining"

GraceEnds ==
    /\ run = "draining" /\ HasDeadline /\ InFlight # {}
    /\ run' = "grace over"
    /\ UNCHANGED <<pipeVars, load, chain, handler, served, cancelled>>

Accepts(i) ==
    /\ run = "serving" /\ i \in DOMAIN load /\ req[i].way = "idle"
    /\ Becomes(i, Arrived(load[i]))
    /\ served' = [served EXCEPT ![i] = handler]
    /\ UNCHANGED <<store, free, owner, load, chain, handler, run, cancelled>>

Handles(i) == Step(i) /\ UNCHANGED runVars

Lifecycle ==
    \/ Use \/ RunStarts \/ Listens \/ ServeFails \/ Cancel \/ ShutsDown \/ Drained \/ GraceEnds

Next == Lifecycle \/ \E i \in Request : Accepts(i) \/ Handles(i)

Spec == Init /\ [][Next]_vars

(* Run's goroutine is scheduled and the grace timer fires; handlers may hang. *)
Fairness == WF_vars(RunStarts) /\ WF_vars(Listens) /\ WF_vars(ShutsDown)
              /\ WF_vars(Drained) /\ WF_vars(GraceEnds)

FairSpec == Spec /\ Fairness

-----------------------------------------------------------------------------
TypeOK ==
    /\ PipeTypeOK
    /\ chain \subseteq Added /\ handler \in {{"none"}} \cup SUBSET Added
    /\ run \in {"idle", "starting", "serving", "draining"} \cup Returned
    /\ cancelled \in BOOLEAN

(***************************************************************************)
(* Every request is served by a handler that has all the middleware ever   *)
(* added: a Use that races Run wraps every request or panics.              *)
(***************************************************************************)
UseCoversAll == \A i \in Request : req[i].way # "idle" => served[i] = chain

(***************************************************************************)
(* No request slips past a gate: whatever the order of the chain, the      *)
(* short-circuits and the calls of Use, responses are secured, rejected    *)
(* IDs unseen, refusals without effect, and all middleware in force.       *)
(***************************************************************************)
GatesKeepPromises ==
    EveryResponseSecured /\ RejectedIdUnseen /\ RefusedLeavesNoTrace /\ UseCoversAll

(***************************************************************************)
(* When Run returns nil, nothing it accepted is still under way and        *)
(* nothing is accepted any more.                                           *)
(***************************************************************************)
DrainIsComplete ==
    [][run = "drained" => run' = "drained" /\ InFlight = {} /\ InFlight' = {}]_vars

(* Cancelling ctx makes Run return, with a handler that hangs too. *)
CancelEndsRun == cancelled ~> (run \in Returned)

(* A shutdown by Run leaves no request behind and is not held up by one. *)
ShutdownIsGraceful == DrainIsComplete /\ CancelEndsRun
=============================================================================
