----------------------------- MODULE Middleware -----------------------------
(***************************************************************************)
(* httpx/middleware: requests on their way through the standard chain, in  *)
(* the order doc.go calls canonical, to a route and back.                  *)
(*                                                                         *)
(* A request goes down from one middleware to the next, is turned round by *)
(* a gate or by its handler, and goes up through the middlewares that have *)
(* work left after next returns; a panic goes up too, through their        *)
(* deferred functions.  One action is what one middleware does before      *)
(* next, or after it.  The rate limiter and the idempotency store are      *)
(* abstract here: RateLimit and Idempotency model them.  Tokens, spans and *)
(* header values are names; a body is its length, whether its length is    *)
(* declared, and the JSON in it.                                           *)
(***************************************************************************)
EXTENDS FiniteSets, Outbound, RealIP, SequencesExt

CONSTANTS
    Request,
    Loads,           \* what the clients may send: for some requests, their inputs
    BodyMax,         \* BodyLimit's Max
    FingerprintMax   \* Idempotency's MaxRequestBodyBytes

(* What the model tells apart in a request; net/http accepts no other. *)
Sendable(in) ==
    /\ in.id \in {"none", "good", "bad"}
    /\ in.body.len \in Nat
    /\ in.route \in {"match", "unknown", "method", "redirect"}
    /\ in.does \in {"ok", "large", "silent", "fail", "panic", "abort", "hint", "late"}
    /\ in.resp.len \in Nat /\ in.resp.declared \in Int
    /\ \A h \in ToSet(Headers) : in.hdr[h] \in Seq(ToSet(in.hdr[h]))

(* No request is called by an ID that RequestID rejects; the caps are sizes. *)
ASSUME MiddlewareAssumption ==
    /\ IsFiniteSet(Request) /\ "bad" \notin Request
    /\ CaptureMax \in Nat /\ BodyMax \in Nat
    /\ \A sent \in Loads :
        DOMAIN sent \subseteq Request /\ \A i \in DOMAIN sent : Sendable(sent[i])

VARIABLES
    req,      \* the requests under way
    store,    \* the idempotency record of the one key in use
    free,     \* the buffers in the Logger's pool
    owner     \* per buffer: the request whose bytes it holds

pipeVars == <<req, store, free, owner>>

Buffer == 1..(2 * Cardinality(Request))
NoRecord == [fp |-> <<>>, inFlight |-> FALSE, status |-> 0, head |-> <<>>]
NoHead == [secure |-> FALSE, id |-> "none", origin |-> "none", vary |-> FALSE, replayed |-> FALSE]
NoLine == [status |-> 0, remote |-> "none", id |-> "none", owners |-> <<>>, attrs |-> <<>>]

ChainClaimFirst ==
    <<"RealIP", "RequestID", "Trace", "SecureHeaders", "Logger", "Recover", "CORS",
      "Idempotency", "RateLimit", "BodyLimit", "mux">>

ChainSecureInside ==
    <<"RealIP", "RequestID", "Trace", "Logger", "Recover", "CORS", "RateLimit",
      "SecureHeaders", "BodyLimit", "Idempotency", "mux">>

Chain ==
    <<"RealIP", "RequestID", "Trace", "SecureHeaders", "Logger", "Recover", "CORS",
      "RateLimit", "BodyLimit", "Idempotency", "mux">>

Place(name) == CHOOSE k \in DOMAIN Chain : Chain[k] = name
HandlerAt == Len(Chain) + 1

Arrived(in) ==
    [in |-> in, way |-> "down", at |-> 1,
     remote |-> in.peer, ip |-> "none", hdrId |-> in.id, id |-> "none",
     trace |-> "none", span |-> "none", flags |-> "none",
     head |-> NoHead, out |-> NoHead, wire |-> 0, sw |-> 0, sent |-> FALSE, cw |-> 0,
     prefix |-> 0, rest |-> in.body.len, limited |-> FALSE, got |-> 0,
     bufs |-> <<>>, claimed |-> FALSE, ran |-> FALSE,
     line |-> NoLine, noted |-> <<>>, call |-> NoCall]

Idle == [Arrived([peer |-> "none", id |-> "none", body |-> [len |-> 0]]) EXCEPT !.way = "idle"]

PipeInit ==
    /\ req = [i \in Request |-> Idle]
    /\ store = NoRecord
    /\ free = Buffer
    /\ owner = [b \in Buffer |-> "none"]

-----------------------------------------------------------------------------
(* A request at a middleware, and the three ways on. *)
Enters(i, name) == req[i].way = "down" /\ req[i].at <= Len(Chain) /\ Chain[req[i].at] = name
Returns(i, name) ==
    req[i].way \in {"up", "panic"} /\ req[i].at > 0 /\ Chain[req[i].at] = name

Wrappers == {"Logger", "Recover", "Idempotency"}
Outer(k) == Max({0} \cup {j \in 1..(k - 1) : j <= Len(Chain) /\ Chain[j] \in Wrappers})

Down(r) == [r EXCEPT !.at = @ + 1]
Up(r) == [r EXCEPT !.way = "up", !.at = Outer(r.at)]
Panics(r) == [r EXCEPT !.way = "panic", !.at = Outer(r.at)]
Becomes(i, r) == req' = [req EXCEPT ![i] = r]

(***************************************************************************)
(* WriteHeader, through the writers that wrap the response at this depth.  *)
(* A 1xx status is informational: statusWriter, sentWriter and             *)
(* captureWriter wait for the final one, and net/http takes the first.     *)
(***************************************************************************)
AnyStatus(status) == TRUE
Final(status) == status >= 200
LineCounts(status) == Final(status)
SentCounts(status) == Final(status)

Inside(r, name) == r.at > Place(name)

WriteHeader(r, status) ==
    [r EXCEPT !.wire = IF @ = 0 /\ Final(status) THEN status ELSE @,
              !.out = IF r.wire = 0 /\ Final(status) THEN r.head ELSE @,
              !.sw = IF @ = 0 /\ LineCounts(status) /\ Inside(r, "Logger") THEN status ELSE @,
              !.sent = @ \/ (SentCounts(status) /\ Inside(r, "Recover")),
              !.cw = IF @ = 0 /\ Final(status) /\ Inside(r, "Idempotency") THEN status ELSE @]

(* errorWriter: a gate answers in place of the handler. *)
Refuse(r, status) == Up(WriteHeader(r, status))

-----------------------------------------------------------------------------
RealIPEnter(i) ==
    /\ Enters(i, "RealIP")
    /\ LET r == req[i]
           ip == RealIPFrom(r.in.peer, r.in.hdr)
       IN  Becomes(i, Down([r EXCEPT !.ip = ip, !.remote = IF ip = NoAddr THEN @ ELSE ip]))
    /\ UNCHANGED <<store, free, owner>>

(* What next sees of a rejected inbound value when no ID can be minted. *)
KeepsRejected(r) == r.hdrId
DropsRejected(r) == IF r.in.id = "bad" THEN "none" ELSE r.hdrId

RequestID(i) ==
    /\ Enters(i, "RequestID")
    /\ LET r == req[i] IN
       \/ /\ r.in.id = "good"
          /\ Becomes(i, Down([r EXCEPT !.id = "good", !.head.id = "good"]))
       \/ /\ r.in.id # "good"
          /\ Becomes(i, Down([r EXCEPT !.id = i, !.head.id = i,
                                !.hdrId = IF r.in.id = "bad" THEN i ELSE @]))
       \/ /\ r.in.id # "good" /\ r.in.mintFails
          /\ Becomes(i, Down([r EXCEPT !.hdrId = DropsRejected(r)]))
    /\ UNCHANGED <<store, free, owner>>

(* parseTraceparent accepts the inbound trace, or a trace is started here. *)
Trace(i) ==
    /\ Enters(i, "Trace")
    /\ LET r == req[i]
           adopted == r.in.tp = "valid"
       IN  \/ Becomes(i, Down([r EXCEPT
                  !.trace = IF adopted THEN "inbound" ELSE i, !.span = "server",
                  !.flags = IF adopted THEN "inbound" ELSE "01"]))
           \/ r.in.mintFails /\ Becomes(i, Down(r))
    /\ UNCHANGED <<store, free, owner>>

SecureHeaders(i) ==
    /\ Enters(i, "SecureHeaders")
    /\ Becomes(i, Down([req[i] EXCEPT !.head.secure = TRUE]))
    /\ UNCHANGED <<store, free, owner>>

(***************************************************************************)
(* Logger: captureRequest reads one byte past the cap, and puts back all   *)
(* it consumed.  Both buffers come from the pool and go back once the line   *)
(* is written, unless they have grown too large; a panic that passes drops *)
(* them.                                                                   *)
(***************************************************************************)
SplicesCaptured(len) == Smaller(len, CaptureMax)
Splices(len) == Smaller(len, CaptureMax + 1)

TakesNone(taken) == free
Takes(taken) == free \ taken

LoggerEnter(i) ==
    /\ Enters(i, "Logger")
    /\ LET r == req[i]
           a == Min(free)
           b == Min(free \ {a})
       IN  /\ Becomes(i, Down([r EXCEPT !.bufs = <<a, b>>,
                 !.prefix = Splices(r.rest), !.rest = r.rest - Smaller(r.rest, CaptureMax + 1)]))
           /\ free' = Takes({a, b})
           /\ owner' = [owner EXCEPT ![a] = i, ![b] = i]
    /\ UNCHANGED store

(* The attrs of the access line, and ContextAttrs naming the ID again. *)
AccessLine(r) ==
    LET body == r.in.body IN
    [status |-> IF r.sw = 0 THEN 200 ELSE r.sw, remote |-> r.remote, id |-> r.id,
     owners |-> <<owner[r.bufs[1]], owner[r.bufs[2]]>>,
     attrs |-> Logged(<<Attr("request_id", Leaf(r.id, 2))>>
                        \o bodyAttrs(Smaller(body.len, CaptureMax), body.len > CaptureMax, body.tree),
                      <<Attr("request_id", Leaf(r.id, 2))>>)]

LoggerLeave(i) ==
    /\ Returns(i, "Logger")
    /\ \/ /\ req[i].way = "up"
          /\ Becomes(i, Up([req[i] EXCEPT !.line = AccessLine(req[i]), !.bufs = <<>>]))
          /\ \E kept \in {{}, ToSet(req[i].bufs)} : free' = free \cup kept
       \/ /\ req[i].way = "panic"
          /\ Becomes(i, Panics(req[i]))
          /\ UNCHANGED free
    /\ UNCHANGED <<store, owner>>

RecoverEnter(i) ==
    /\ Enters(i, "Recover")
    /\ Becomes(i, Down(req[i]))
    /\ UNCHANGED <<store, free, owner>>

(* A panic becomes a 500 if no header has gone out; ErrAbortHandler goes on. *)
RecoverLeave(i) ==
    /\ Returns(i, "Recover")
    /\ LET r == req[i] IN
       \/ r.way = "up" /\ Becomes(i, Up(r))
       \/ r.way = "panic" /\ r.in.does = "abort" /\ Becomes(i, Panics(r))
       \/ r.way = "panic" /\ r.in.does # "abort" /\ Becomes(i, IF r.sent THEN Up(r) ELSE Refuse(r, 500))
    /\ UNCHANGED <<store, free, owner>>

(* CORS: origins are exact, and the preflight's method must be allowed. *)
AllowedOrigin(origin) == origin = "allowed"

Preflight(in) == in.method = "OPTIONS" /\ in.asks # "none"

CORS(i) ==
    /\ Enters(i, "CORS")
    /\ LET r == req[i]
           ok == AllowedOrigin(r.in.origin)
           varied == [r EXCEPT !.head.vary = TRUE]
           stamped == [varied EXCEPT !.head.origin = r.in.origin]
       IN  \/ r.in.origin = "none" /\ Becomes(i, Down(varied))
           \/ /\ r.in.origin # "none" /\ Preflight(r.in)
              /\ Becomes(i, Refuse(IF ok /\ r.in.asks = "allowed" THEN stamped ELSE varied, 204))
           \/ /\ r.in.origin # "none" /\ ~Preflight(r.in)
              /\ Becomes(i, Down(IF ok THEN stamped ELSE varied))
    /\ UNCHANGED <<store, free, owner>>

RateLimit(i) ==
    /\ Enters(i, "RateLimit")
    /\ \/ Becomes(i, Down(req[i]))
       \/ Becomes(i, Refuse(req[i], 429))
    /\ UNCHANGED <<store, free, owner>>

BodyLimit(i) ==
    /\ Enters(i, "BodyLimit")
    /\ LET r == req[i] IN
       IF r.in.body.declared /\ r.in.body.len > BodyMax
       THEN Becomes(i, Refuse(r, 413))
       ELSE Becomes(i, Down([r EXCEPT !.limited = TRUE]))
    /\ UNCHANGED <<store, free, owner>>

-----------------------------------------------------------------------------
(***************************************************************************)
(* Idempotency: a covered request is read whole, within both caps, and     *)
(* claims the key or is answered as a duplicate.                           *)
(***************************************************************************)
Covered(in) == in.method = "POST" /\ in.keyed
Unread(r) == r.prefix + r.rest
TooLarge(r) == Unread(r) > FingerprintMax \/ (r.limited /\ Unread(r) > BodyMax)
fingerprint(in) == <<in.body>>

(* replayResponse: every stored header replaces the response's own. *)
replayed(head, stored) ==
    [head EXCEPT !.secure = @ \/ stored.secure,
                 !.id = IF stored.id = "none" THEN @ ELSE stored.id,
                 !.origin = IF stored.origin = "none" THEN @ ELSE stored.origin,
                 !.vary = @ \/ stored.vary, !.replayed = TRUE]

Answer(r) ==
    CASE store.fp # fingerprint(r.in) -> Refuse(r, 422)
      [] store.fp = fingerprint(r.in) /\ store.inFlight -> Refuse(r, 409)
      [] OTHER -> Refuse([r EXCEPT !.head = replayed(@, store.head)], store.status)

IdempotencyEnter(i) ==
    /\ Enters(i, "Idempotency")
    /\ LET r == req[i]
           whole == [r EXCEPT !.prefix = Unread(r), !.rest = 0]
       IN  \/ ~Covered(r.in) /\ Becomes(i, Down(r)) /\ UNCHANGED store
           \/ /\ Covered(r.in) /\ TooLarge(r)
              /\ Becomes(i, Refuse(r, 413)) /\ UNCHANGED store
           \/ /\ Covered(r.in) /\ ~TooLarge(r) /\ r.in.storeDown
              /\ Becomes(i, Refuse(whole, 503)) /\ UNCHANGED store
           \/ /\ Covered(r.in) /\ ~TooLarge(r) /\ ~r.in.storeDown /\ store = NoRecord
              /\ Becomes(i, Down([whole EXCEPT !.claimed = TRUE]))
              /\ store' = [NoRecord EXCEPT !.fp = fingerprint(r.in), !.inFlight = TRUE]
           \/ /\ Covered(r.in) /\ ~TooLarge(r) /\ ~r.in.storeDown /\ store # NoRecord
              /\ Becomes(i, Answer(whole)) /\ UNCHANGED store
    /\ UNCHANGED <<free, owner>>

(* What was observed is stored; a 5xx, a body past the cap and a panic release the claim. *)
IdempotencyLeave(i) ==
    /\ Returns(i, "Idempotency")
    /\ LET r == req[i]
           status == IF r.cw = 0 THEN 200 ELSE r.cw
       IN  /\ Becomes(i, IF r.way = "up" THEN Up(r) ELSE Panics(r))
           /\ store' = IF ~r.claimed THEN store
                       ELSE IF r.way = "panic" \/ status >= 500 \/ r.in.does = "large" THEN NoRecord
                       ELSE [fp |-> fingerprint(r.in), inFlight |-> FALSE, status |-> status, head |-> r.head]
    /\ UNCHANGED <<free, owner>>

-----------------------------------------------------------------------------
(* The mux: unmatched writes 404 and 405, redirects are ServeMux's own. *)
Mux(i) ==
    /\ Enters(i, "mux")
    /\ LET r == req[i] IN
       Becomes(i, CASE r.in.route = "match" -> Down(r)
                    [] r.in.route = "unknown" -> Refuse(r, 404)
                    [] r.in.route = "method" -> Refuse(r, 405)
                    [] r.in.route = "redirect" -> Refuse(r, 301))
    /\ UNCHANGED <<store, free, owner>>

(* The handler reads the body, logs an attr of its own, and may call out. *)
HandlerStarts(i) ==
    /\ req[i].way = "down" /\ req[i].at = HandlerAt /\ ~req[i].ran
    /\ LET r == req[i] IN
       Becomes(i, [r EXCEPT !.ran = TRUE, !.prefix = 0, !.rest = 0,
           !.got = IF r.limited THEN Smaller(Unread(r), BodyMax) ELSE Unread(r),
           !.noted = Logged(<<r.in.attr>>, <<Attr("request_id", Leaf(r.id, 2))>>),
           !.call.pc = IF r.in.calls THEN "allow" ELSE "none"])
    /\ UNCHANGED <<store, free, owner>>

HandlerCalls(i) ==
    /\ LET r == req[i]
           does(call) == Becomes(i, [r EXCEPT !.call = call])
       IN  \/ r.call.pc = "allow" /\ \E ok \in BOOLEAN : does(Allowed(r.call, ok))
           \/ r.call.pc = "send" /\ \E own, minted \in BOOLEAN :
                does(Sent(r.call, Traceparent(own, r.trace, r.span, r.flags, minted)))
           \/ r.call.pc = "record" /\ \E err \in BOOLEAN : does(Recorded(r.call, err))
           \/ r.call.pc = "emit" /\ does(Emitted(r.call, r.in.resp))
    /\ UNCHANGED <<store, free, owner>>

HandlerEnds(i) ==
    /\ req[i].way = "down" /\ req[i].at = HandlerAt /\ req[i].ran
    /\ req[i].call.pc \in {"none", "done"}
    /\ LET r == req[i] IN
       Becomes(i, CASE r.in.does \in {"ok", "large"} -> Refuse(r, 200)
                    [] r.in.does = "silent" -> Up(r)
                    [] r.in.does = "fail" -> Refuse(r, 502)
                    [] r.in.does \in {"panic", "abort"} -> Panics(r)
                    [] r.in.does = "hint" -> Panics(WriteHeader(r, 103))
                    [] r.in.does = "late" -> Panics(WriteHeader(r, 200)))
    /\ UNCHANGED <<store, free, owner>>

(* net/http: an unwritten response is a 200; a panic drops the connection. *)
Finishes(i) ==
    /\ req[i].way \in {"up", "panic"} /\ req[i].at = 0
    /\ Becomes(i, [(IF req[i].way = "up" THEN WriteHeader(req[i], 200) ELSE req[i]) EXCEPT
                     !.way = "over"])
    /\ UNCHANGED <<store, free, owner>>

Step(i) ==
    \/ RealIPEnter(i) \/ RequestID(i) \/ Trace(i) \/ SecureHeaders(i)
    \/ LoggerEnter(i) \/ LoggerLeave(i) \/ RecoverEnter(i) \/ RecoverLeave(i)
    \/ CORS(i) \/ RateLimit(i) \/ BodyLimit(i)
    \/ IdempotencyEnter(i) \/ IdempotencyLeave(i)
    \/ Mux(i) \/ HandlerStarts(i) \/ HandlerCalls(i) \/ HandlerEnds(i) \/ Finishes(i)

InFlight == {i \in Request : req[i].way \in {"down", "up", "panic"}}
Over(i) == req[i].way = "over"

-----------------------------------------------------------------------------
PipeTypeOK ==
    /\ free \subseteq Buffer /\ owner \in [Buffer -> Request \cup {"none"}]
    /\ store.inFlight \in BOOLEAN
    /\ \A i \in Request :
        /\ req[i].way \in {"idle", "down", "up", "panic", "over"}
        /\ req[i].at \in 0..HandlerAt
        /\ req[i].way = "over" /\ req[i].in.does # "abort" => req[i].wire \in 200..599

(***************************************************************************)
(* The access line reports the status that went out, whatever the handler, *)
(* a gate, a replay or Recover wrote and in whatever order: 1xx hints are  *)
(* not it, and a panic is logged as the 500 it became (doc.go).            *)
(***************************************************************************)
LineTellsResponse ==
    \A i \in Request : Over(i) /\ req[i].line # NoLine =>
        /\ req[i].line.status = req[i].wire
        /\ req[i].line.remote = req[i].remote /\ req[i].line.id = req[i].id

(* A panic before any final header is answered 500, after early hints too. *)
PanicIsAnswered ==
    \A i \in Request : Over(i) /\ req[i].ran /\ req[i].in.does \in {"panic", "hint"} =>
        req[i].wire = 500

(***************************************************************************)
(* Every response carries the security headers: gate short-circuits, 404s, *)
(* replays and panics turned into 500s included (doc.go).                  *)
(***************************************************************************)
EveryResponseSecured ==
    \A i \in Request : Over(i) /\ req[i].wire # 0 => req[i].out.secure

(***************************************************************************)
(* A rejected inbound request ID is seen by nothing below RequestID and is *)
(* never echoed, also when no other can be minted.                         *)
(***************************************************************************)
RejectedIdUnseen ==
    \A i \in Request : req[i].in.id = "bad" /\ req[i].at > Place("RequestID") =>
        "bad" \notin {req[i].hdrId, req[i].id, req[i].out.id, req[i].line.id}

(***************************************************************************)
(* The address a request is attributed to is its peer, or was asserted by  *)
(* a trusted peer; taken from X-Forwarded-For, every hop to the right of   *)
(* it is a trusted proxy.                                                  *)
(***************************************************************************)
ClientIsLastUntrusted ==
    \A i \in Request : LET r == req[i] IN
        r.way # "idle" /\ r.remote # r.in.peer =>
            /\ parseClientAddr(r.in.peer) \in TrustedProxies
            /\ \/ \E k \in DOMAIN r.in.hdr["X-Real-IP"] :
                    r.remote = parseClientAddr(r.in.hdr["X-Real-IP"][k])
               \/ LET hops == r.in.hdr["X-Forwarded-For"] IN
                  \E k \in DOMAIN hops :
                    /\ r.remote = parseClientAddr(hops[k])
                    /\ \A j \in (k + 1)..Len(hops) : parseClientAddr(hops[j]) \in TrustedProxies
                    /\ r.remote \in TrustedProxies => k = 1

(***************************************************************************)
(* The handler reads the body the client sent, though the Logger and       *)
(* Idempotency read it first, unless it is past BodyLimit; and what the    *)
(* client's capture read of a response is given back to its caller.        *)
(***************************************************************************)
BodiesAreWhole ==
    \A i \in Request : LET r == req[i] IN
        /\ r.ran => r.got = Smaller(r.in.body.len, BodyMax)
        /\ r.call.pc = "done" /\ r.call.result = "response" => r.call.got = r.in.resp.len

(* The bytes an access line shows are its own request's, with others in flight. *)
LineHasOwnBytes ==
    \A i \in Request : req[i].line # NoLine => req[i].line.owners = <<i, i>>

(***************************************************************************)
(* The access line tells what happened to its request: what went out, also *)
(* after a panic, under its own names and with its own bytes.              *)
(***************************************************************************)
LineIsTrue == LineTellsResponse /\ PanicIsAnswered /\ LineHasOwnBytes

(***************************************************************************)
(* A request refused for its rate or its size has consumed no claim, and   *)
(* a preflight neither runs the handler nor is metered (doc.go).           *)
(***************************************************************************)
RefusedLeavesNoTrace ==
    \A i \in Request : LET r == req[i] IN Over(i) =>
        /\ r.wire = 429 \/ (r.in.body.declared /\ r.in.body.len > BodyMax) => ~r.claimed
        /\ Preflight(r.in) /\ r.in.origin # "none" => r.wire = 204 /\ ~r.ran

(***************************************************************************)
(* An outbound call continues the trace of the request: the trace ID and   *)
(* flags that came in or were minted, and a span of its own.               *)
(***************************************************************************)
TraceContinues ==
    \A i \in Request : LET r == req[i] IN
        r.call.tp \notin {<<>>, <<"own">>} =>
            /\ r.call.tp[1] = IF r.in.tp = "valid" THEN "inbound" ELSE i
            /\ r.call.tp[2] # r.span
            /\ r.call.tp[3] = IF r.in.tp = "valid" THEN "inbound" ELSE "01"

(* The breaker is told exactly once of each call it admitted, and of no other. *)
BreakerIsTold ==
    \A i \in Request : req[i].call.pc = "done" =>
        req[i].call.told = IF req[i].call.result = "circuit open" THEN 0 ELSE 1

(***************************************************************************)
(* The middlewares and Client.Do stand between two parties who must not    *)
(* notice: bodies pass whole both ways, the trace goes on, and each        *)
(* admitted call's outcome reaches the breaker once.                       *)
(***************************************************************************)
CallsAreWhole == BodiesAreWhole /\ TraceContinues /\ BreakerIsTold

=============================================================================
