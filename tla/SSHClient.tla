----------------------------- MODULE SSHClient ------------------------------
(***************************************************************************)
(* x/sshx: dial, Client, one-shot commands and shell sessions, over the    *)
(* host-key policies of HostKeys.                                          *)
(*                                                                         *)
(* A User dials once and then runs one command or one shell on its client, *)
(* or closes it.  The other dials are rivals for TOFU's mutex and the      *)
(* file: they are followed only through the policy.                        *)
(*                                                                         *)
(* A transport is up (the peer answers in time), silent (a black hole:     *)
(* nothing is answered, nothing fails) or dead.  x/crypto/ssh is external: *)
(* a request on a silent transport blocks until the transport dies, and    *)
(* Session.Wait returns when the command ends, the peer answers a close,   *)
(* or the transport dies.                                                  *)
(***************************************************************************)
EXTENDS HostKeys

CONSTANTS
    User,           \* the dialers that go on to use their client
    EarlyCancel     \* whether a caller may cancel a shell's ctx before Shell returns

ASSUME ClientAssumption == User \subseteq Dial /\ EarlyCancel \in BOOLEAN

VARIABLES
    pc,         \* per dialer: where it is
    conn,       \* per dialer: "none", "up", "silent", "dead"
    peerLost,   \* history: the peer or the network gave up
    over,       \* the dial's ctx is done
    closing,    \* its AfterFunc runs and will close the conn
    result,     \* what dial returned
    done,       \* Client.done is closed
    ka,         \* the keepalive: "off", "ticking", "pinging", "ended"
    ctx,        \* the ctx of the command or shell is done
    sess,       \* the ssh session: "none", "open", "closed"
    wait,       \* who waits for it: "none", "waiting", "returned"
    stop,       \* Session.stop: "nil", "unset" (its AfterFunc runs), "set", "called"
    panicked    \* a nil stop was called

dialVars == <<pc, conn, peerLost, over, closing, result>>
useVars  == <<ctx, sess, wait, stop, panicked>>
vars == <<hkVars, dialVars, done, ka, useVars>>

Dialing == {"connect", "kex", "hostkey", "auth"}
Stage == {"network", "hostkey", "handshake"}

Set(f, d, v) == [f EXCEPT ![d] = v]
Goto(d, l) == pc' = Set(pc, d, l)

Init ==
    /\ HkInit
    /\ pc = [d \in Dial |-> "idle"]
    /\ conn = [d \in Dial |-> "none"]
    /\ peerLost = [d \in Dial |-> FALSE]
    /\ over = [d \in Dial |-> FALSE]
    /\ closing = [d \in Dial |-> FALSE]
    /\ result = [d \in Dial |-> "none"]
    /\ done = [d \in Dial |-> FALSE]
    /\ ka = [d \in Dial |-> "off"]
    /\ ctx = [d \in Dial |-> FALSE]
    /\ sess = [d \in Dial |-> "none"]
    /\ wait = [d \in Dial |-> "none"]
    /\ stop = [d \in Dial |-> "nil"]
    /\ panicked = FALSE

Fail(d, stage) ==
    /\ Goto(d, "over")
    /\ conn' = Set(conn, d, IF conn[d] = "none" THEN "none" ELSE "dead")
    /\ result' = Set(result, d, stage)
    /\ UNCHANGED <<peerLost, over, closing>>

-----------------------------------------------------------------------------
(* dial: a Config without a policy or without Auth is refused. *)
DialRejected(d) ==
    /\ pc[d] = "idle"
    /\ Fail(d, "config")
    /\ UNCHANGED <<hkVars, done, ka, useVars>>

DialStarts(d) ==
    /\ pc[d] = "idle"
    /\ Goto(d, "connect")
    /\ UNCHANGED <<hkVars, conn, peerLost, over, closing, result, done, ka, useVars>>

(* DialContext gives up at once when ctx is done, or the network fails. *)
ConnectFails(d) ==
    /\ pc[d] = "connect"
    /\ Fail(d, "network")
    /\ UNCHANGED <<hkVars, done, ka, useVars>>

Connected(d) ==
    /\ pc[d] = "connect" /\ ~over[d]
    /\ conn' = Set(conn, d, "up")
    /\ Goto(d, "kex")
    /\ UNCHANGED <<hkVars, peerLost, over, closing, result, done, ka, useVars>>

NeverArmed(d) == FALSE
Armed(d) == conn[d] # "none"

(* ctx ends: its deadline, DefaultDialTimeout or a cancellation. *)
DialCtxEnds(d) ==
    /\ pc[d] \in Dialing /\ ~over[d]
    /\ over' = Set(over, d, TRUE)
    /\ closing' = Set(closing, d, Armed(d))
    /\ UNCHANGED <<hkVars, pc, conn, peerLost, result, done, ka, useVars>>

(* The AfterFunc; started, it closes the conn even after dial returned. *)
AfterFuncCloses(d) ==
    /\ closing[d]
    /\ conn' = Set(conn, d, "dead")
    /\ closing' = Set(closing, d, FALSE)
    /\ UNCHANGED <<hkVars, pc, peerLost, over, result, done, ka, useVars>>

PeerFails(d) ==
    /\ conn[d] = "up"
    /\ \E c \in {"silent", "dead"} : conn' = Set(conn, d, c)
    /\ peerLost' = Set(peerLost, d, TRUE)
    /\ UNCHANGED <<hkVars, pc, over, closing, result, done, ka, useVars>>

(* The key exchange ends with the server's key, shown to the policy. *)
KeyExchanged(d) ==
    /\ pc[d] = "kex" /\ conn[d] = "up"
    /\ \E k \in Key : Present(d, k)
    /\ Goto(d, "hostkey")
    /\ UNCHANGED <<conn, peerLost, over, closing, result, done, ka, useVars>>

(* A rival dial reaches the policy. *)
RivalDials(d) ==
    /\ \E k \in Key : Present(d, k)
    /\ UNCHANGED <<dialVars, done, ka, useVars>>

HostKeyStep(d) == Callback(d) /\ UNCHANGED <<dialVars, done, ka, useVars>>

(* hostKeyRecorder.check keeps the policy's error for dial. *)
RecordedNothing(d) == FALSE
Recorded(d) == hk[d].pc = "done" /\ hk[d].err # "nil"

HostKeyAccepted(d) ==
    /\ pc[d] = "hostkey" /\ hk[d].pc = "done" /\ hk[d].err = "nil"
    /\ Goto(d, "auth")
    /\ UNCHANGED <<hkVars, conn, peerLost, over, closing, result, done, ka, useVars>>

(***************************************************************************)
(* NewClientConn fails: the policy refused, the peer rejects the user, the *)
(* transport dies, or ctx ends and takes a silent transport with it.       *)
(***************************************************************************)
HandshakeFails(d) ==
    /\ \/ pc[d] = "kex" /\ conn[d] = "dead"
       \/ pc[d] = "hostkey" /\ hk[d].pc = "done" /\ hk[d].err # "nil"
       \/ pc[d] = "auth" /\ conn[d] # "silent"
    /\ Fail(d, IF Recorded(d) THEN "hostkey" ELSE "handshake")
    /\ UNCHANGED <<hkVars, done, ka, useVars>>

(* stop() runs before cancel(): the client outlives the dial's own ctx. *)
DetachLate(d) == ~over[d] \/ closing[d]
Detach(d) == closing[d]

NoKeepalive(d) == UNCHANGED ka
StartKeepalive(d) == ka' = Set(ka, d, "ticking")

(* The AfterFunc is detached unless it has begun; the keepalive starts. *)
DialSucceeds(d) ==
    /\ pc[d] = "auth" /\ conn[d] = "up"
    /\ Goto(d, "ready")
    /\ result' = Set(result, d, "client")
    /\ closing' = Set(closing, d, Detach(d))
    /\ StartKeepalive(d)
    /\ UNCHANGED <<hkVars, conn, peerLost, over, done, useVars>>

-----------------------------------------------------------------------------
(* Client.Close, once: done is closed, then the transport. *)
closeClient(d) ==
    /\ done' = Set(done, d, TRUE)
    /\ conn' = Set(conn, d, "dead")

Close(d) ==
    /\ result[d] = "client" /\ ~done[d]
    /\ pc[d] = "ready" => Goto(d, "over")
    /\ pc[d] # "ready" => UNCHANGED pc
    /\ closeClient(d)
    /\ UNCHANGED <<hkVars, peerLost, over, closing, result, ka, useVars>>

KeepaliveTicks(d) ==
    /\ ka[d] = "ticking"
    /\ ka' = Set(ka, d, IF done[d] THEN "ended" ELSE "pinging")
    /\ UNCHANGED <<hkVars, dialVars, done, useVars>>

(* Ping is answered. *)
PingAnswered(d) ==
    /\ ka[d] = "pinging" /\ conn[d] = "up"
    /\ ka' = Set(ka, d, "ticking")
    /\ UNCHANGED <<hkVars, dialVars, done, useVars>>

KeepsClient(d) == UNCHANGED <<done, conn>>
ClosesClient(d) == closeClient(d)

(* Ping fails: the transport is dead, or nothing came in DefaultPingTimeout. *)
PingFails(d) ==
    /\ ka[d] = "pinging" /\ conn[d] # "up"
    /\ ClosesClient(d)
    /\ ka' = Set(ka, d, "ended")
    /\ UNCHANGED <<hkVars, pc, peerLost, over, closing, result, useVars>>

-----------------------------------------------------------------------------
UseOver(d) == Goto(d, "used")
useRest == <<hkVars, conn, peerLost, over, closing, result, done, ka>>

(* The caller's ctx ends, at any time for a command. *)
CtxEnds(d) ==
    /\ pc[d] \in {"newSession", "start", "running", "newShell", "shell", "live"}
    /\ pc[d] \in {"newShell", "shell"} => EarlyCancel
    /\ ~ctx[d]
    /\ ctx' = Set(ctx, d, TRUE)
    /\ UNCHANGED <<useRest, pc, sess, wait, stop, panicked>>

(* closedErr, then NewSession; a Close in between makes NewSession fail. *)
UseStarts(d) ==
    /\ d \in User /\ pc[d] = "ready" /\ ~done[d]
    /\ \E l \in {"newSession", "newShell"} : Goto(d, l)
    /\ UNCHANGED <<useRest, useVars>>

UseRefused(d) ==
    /\ d \in User /\ pc[d] = "ready" /\ done[d]
    /\ UseOver(d)
    /\ UNCHANGED <<useRest, useVars>>

SessionOpened(d) ==
    /\ pc[d] \in {"newSession", "newShell"} /\ conn[d] = "up"
    /\ sess' = Set(sess, d, "open")
    /\ Goto(d, IF pc[d] = "newSession" THEN "start" ELSE "shell")
    /\ UNCHANGED <<useRest, ctx, wait, stop, panicked>>

(* NewSession, Start, RequestPty or Shell fails; a session is closed again. *)
RequestFails(d) ==
    /\ pc[d] \in {"newSession", "newShell", "start", "shell"} /\ conn[d] # "silent"
    /\ stop[d] = "nil"
    /\ sess' = Set(sess, d, IF sess[d] = "open" THEN "closed" ELSE "none")
    /\ UseOver(d)
    /\ UNCHANGED <<useRest, ctx, wait, stop, panicked>>

(* run: the command is started and a goroutine waits for it. *)
CommandStarts(d) ==
    /\ pc[d] = "start" /\ conn[d] = "up"
    /\ wait' = Set(wait, d, "waiting")
    /\ Goto(d, "running")
    /\ UNCHANGED <<useRest, ctx, sess, stop, panicked>>

(* Session.Wait returns; the Wait of a shell detaches the AfterFunc. *)
WaitReturns(d) ==
    /\ wait[d] = "waiting" /\ conn[d] # "silent"
    /\ wait' = Set(wait, d, "returned")
    /\ IF pc[d] = "waiting"
       THEN UseOver(d) /\ stop' = Set(stop, d, "called")
       ELSE UNCHANGED <<pc, stop>>
    /\ UNCHANGED <<useRest, ctx, sess, panicked>>

IgnoresCtx(d) == FALSE
SeesCtx(d) == ctx[d]

(* run's select; the deferred Close ends the session. *)
CommandReturns(d) ==
    /\ pc[d] = "running"
    /\ wait[d] = "returned" \/ SeesCtx(d)
    /\ sess' = Set(sess, d, "closed")
    /\ UseOver(d)
    /\ UNCHANGED <<useRest, ctx, wait, stop, panicked>>

(* Shell registers the AfterFunc and then keeps its stop function. *)
ShellRuns(d) ==
    /\ pc[d] = "shell" /\ conn[d] = "up" /\ stop[d] = "nil"
    /\ stop' = Set(stop, d, "unset")
    /\ UNCHANGED <<useRest, pc, ctx, sess, wait, panicked>>

ShellReturns(d) ==
    /\ pc[d] = "shell" /\ stop[d] = "unset"
    /\ stop' = Set(stop, d, "set")
    /\ Goto(d, "live")
    /\ UNCHANGED <<useRest, ctx, sess, wait, panicked>>

(* Session.Wait by the consumer. *)
ShellWaits(d) ==
    /\ pc[d] = "live"
    /\ wait' = Set(wait, d, "waiting")
    /\ Goto(d, "waiting")
    /\ UNCHANGED <<useRest, ctx, sess, stop, panicked>>

(***************************************************************************)
(* Session.Close, once, by the consumer or by the AfterFunc of an ended    *)
(* ctx: it calls stop, which Shell may not have assigned yet, and a panic  *)
(* of the AfterFunc's goroutine takes the program down.                    *)
(***************************************************************************)
SessionCloses(d) ==
    /\ sess[d] = "open"
    /\ \/ pc[d] \in {"live", "waiting"}
       \/ ctx[d] /\ stop[d] \in {"unset", "set"}
    /\ IF stop[d] = "unset"
       THEN panicked' = TRUE /\ UNCHANGED <<sess, stop>>
       ELSE /\ sess' = Set(sess, d, "closed")
            /\ stop' = Set(stop, d, "called")
            /\ UNCHANGED panicked
    /\ UNCHANGED <<useRest, pc, ctx, wait>>

-----------------------------------------------------------------------------
Dials(d) ==
    \/ DialRejected(d) \/ DialStarts(d) \/ ConnectFails(d) \/ Connected(d)
    \/ DialCtxEnds(d) \/ AfterFuncCloses(d) \/ PeerFails(d) \/ KeyExchanged(d)
    \/ HostKeyStep(d) \/ HostKeyAccepted(d) \/ HandshakeFails(d) \/ DialSucceeds(d)

Lives(d) ==
    Close(d) \/ KeepaliveTicks(d) \/ PingAnswered(d) \/ PingFails(d)

Uses(d) ==
    \/ CtxEnds(d) \/ UseStarts(d) \/ UseRefused(d) \/ SessionOpened(d) \/ RequestFails(d)
    \/ CommandStarts(d) \/ WaitReturns(d) \/ CommandReturns(d)
    \/ ShellRuns(d) \/ ShellReturns(d) \/ ShellWaits(d) \/ SessionCloses(d)

ReopenPolicy == Reopen /\ UNCHANGED <<dialVars, done, ka, useVars>>

Next ==
    /\ ~panicked
    /\ \/ ReopenPolicy
       \/ \E d \in User : Dials(d) \/ Lives(d) \/ Uses(d)
       \/ \E d \in Dial \ User : RivalDials(d) \/ HostKeyStep(d)

Spec == Init /\ [][Next]_vars

(***************************************************************************)
(* Every dial has a deadline (DefaultDialTimeout) and the user who is      *)
(* asked about a host answers.  Timers fire, goroutines run, and a peer    *)
(* that is up answers requests and closes; nothing makes a command end.    *)
(***************************************************************************)
Fairness ==
    /\ \A d \in Dial : WF_vars(HostKeyStep(d))
    /\ \A d \in User :
        /\ WF_vars(DialCtxEnds(d)) /\ WF_vars(AfterFuncCloses(d)) /\ WF_vars(ConnectFails(d))
        /\ WF_vars(HostKeyAccepted(d) \/ HandshakeFails(d))
        /\ WF_vars(KeepaliveTicks(d)) /\ WF_vars(PingAnswered(d) \/ PingFails(d))
        /\ WF_vars(SessionOpened(d) \/ CommandStarts(d) \/ RequestFails(d))
        /\ WF_vars((sess[d] = "closed" \/ conn[d] = "dead") /\ WaitReturns(d))
        /\ WF_vars(CommandReturns(d))
        /\ WF_vars(ctx[d] /\ SessionCloses(d))

FairSpec == Spec /\ Fairness

-----------------------------------------------------------------------------
TypeOK ==
    /\ HkTypeOK
    /\ pc \in [Dial -> Dialing \cup {"idle", "over", "ready", "newSession", "newShell",
                   "start", "running", "shell", "live", "waiting", "used"}]
    /\ conn \in [Dial -> {"none", "up", "silent", "dead"}]
    /\ result \in [Dial -> Stage \cup {"none", "config", "client"}]
    /\ ka \in [Dial -> {"off", "ticking", "pinging", "ended"}]
    /\ \A d \in Dial : wait[d] # "none" => sess[d] # "none"
    /\ \A d \in Dial : ka[d] # "off" <=> result[d] = "client"

(***************************************************************************)
(* DialError.Stage "states with certainty where a dial died": a dial says  *)
(* hostkey exactly when the policy refused the server, also when its ctx   *)
(* ended or the transport died meanwhile.                                  *)
(***************************************************************************)
StageIsCertain ==
    \A d \in Dial : result[d] # "none" =>
        (result[d] = "hostkey" <=> hk[d].pc = "done" /\ hk[d].err # "nil")

(***************************************************************************)
(* The transport of a client nobody closed is dead only if the peer was    *)
(* lost or the dial's ctx ended before dial returned: the ctx dial makes   *)
(* for itself does not take the client with it.                            *)
(***************************************************************************)
FreshClientIsLive ==
    \A d \in Dial : result[d] = "client" /\ conn[d] = "dead" /\ ~done[d] =>
        peerLost[d] \/ over[d]

(***************************************************************************)
(* What dial reports is true: the stage of a failure, and that a client it *)
(* returns is connected.                                                   *)
(***************************************************************************)
DialIsHonest == StageIsCertain /\ FreshClientIsLive

(***************************************************************************)
(* ctx bounds the whole dial: when it ends, dial returns, with a silent    *)
(* peer and with another dial at TOFU's mutex.                             *)
(***************************************************************************)
DialReturns == \A d \in User : over[d] ~> pc[d] \notin Dialing

(***************************************************************************)
(* A client whose transport is silent or dead is closed, which Pool relies *)
(* on to notice it (the comment on keepalive).                             *)
(***************************************************************************)
LostClientIsClosed ==
    \A d \in User :
        (result[d] = "client" /\ conn[d] \in {"silent", "dead"}) ~> (done[d] /\ ka[d] = "ended")

(***************************************************************************)
(* When the ctx of a command ends, run returns and its Wait goroutine      *)
(* ends, even on a black-holed transport; and Wait on a shell returns.     *)
(***************************************************************************)
CancelledUseEnds ==
    \A d \in User :
        (ctx[d] /\ pc[d] # "live") ~> (pc[d] \in {"used", "live"} /\ wait[d] # "waiting")

(***************************************************************************)
(* Nothing waits for ever on a peer that fell silent: not a dial, not a    *)
(* client, not a command or a shell.                                       *)
(***************************************************************************)
NothingHangs == DialReturns /\ LostClientIsClosed /\ CancelledUseEnds

(***************************************************************************)
(* Session.Close never calls a stop function that Shell has not assigned:  *)
(* cancelling ctx closes the session and unblocks Wait (the comment on     *)
(* Shell).                                                                 *)
(***************************************************************************)
StopIsAssigned == ~panicked
=============================================================================
