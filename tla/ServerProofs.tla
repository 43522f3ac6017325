---------------------------- MODULE ServerProofs ----------------------------
(***************************************************************************)
(* Theorems about requests on their way through the chain of a server, for *)
(* every set of requests, everything the clients may send, every cap and   *)
(* every logger.  Most of the invariant speaks of one request by itself;   *)
(* requests meet in the idempotency record (Stored) and in the buffers of  *)
(* the Logger's pool (BufInv, RoomInv).  The last sections are about the   *)
(* logger of the logger package, for values of any shape and depth.        *)
(***************************************************************************)
EXTENDS ServerLogs, FiniteSetTheorems, SequenceTheorems, WellFoundedInduction, TLAPS

-----------------------------------------------------------------------------
(* A request by itself. *)
Fields == {"in", "way", "at", "remote", "ip", "hdrId", "id", "trace", "span", "flags",
           "head", "out", "wire", "sw", "sent", "cw", "prefix", "rest", "limited", "got",
           "bufs", "claimed", "ran", "line", "noted", "call"}
HeadFields == {"secure", "id", "origin", "vary", "replayed"}
CallFields == {"pc", "tp", "told", "result", "line", "got"}

Calling == {"allow", "send", "record", "emit"}

(* Way up, a request is in the deferred or trailing code of a wrapper. *)
Typed(r) ==
    /\ DOMAIN r = Fields /\ DOMAIN r.head = HeadFields /\ DOMAIN r.call = CallFields
    /\ r.way \in {"down", "up", "panic", "over"}
    /\ r.way = "down" => r.at \in 1 .. 12
    /\ r.way \in {"up", "panic"} => r.at \in {0, 5, 6, 10}
    /\ r.way = "over" => r.at = 0
    /\ r.sent \in BOOLEAN /\ r.claimed \in BOOLEAN /\ r.ran \in BOOLEAN /\ r.limited \in BOOLEAN
    /\ r.way = "down" /\ r.at < 12 => r.ran = FALSE
    /\ r.call.pc \in Calling => r.way = "down" /\ r.at = 12

(* Past the middleware at a place of the chain, on the way down or later. *)
Past(r, k) == r.way = "down" => r.at > k

(* What a handler or the mux can answer with, and Recover. *)
Statuses == {200, 204, 301, 404, 405, 409, 413, 422, 429, 500, 502, 503}
OwnStatuses == {200, 301, 404, 405, 502}

(* Until the final header nothing is written; then all writers agree. *)
StatusInv(r) ==
    /\ r.wire \in {0} \cup Statuses
    /\ r.way = "down" => r.wire = 0 /\ r.sw = 0 /\ r.cw = 0 /\ ~r.sent
    /\ r.way \in {"up", "panic"} /\ r.at >= 5 => r.sw = r.wire
    /\ r.way \in {"up", "panic"} /\ r.at >= 6 => (r.sent <=> r.wire # 0)
    /\ r.way \in {"up", "panic"} /\ r.at = 10 => r.cw = r.wire
    /\ r.way = "over" /\ r.in.does # "abort" => r.wire # 0

(* The line is written once, on the way up from the Logger. *)
LineInv(r) ==
    /\ r.way \in {"down", "panic"} \/ (r.way = "up" /\ r.at >= 5) => r.line = NoLine
    /\ r.line # NoLine =>
        /\ r.line.remote = r.remote /\ r.line.id = r.id
        /\ r.line.status = IF r.wire = 0 THEN 200 ELSE r.wire
        /\ r.way = "over" => r.wire # 0

(* Only a handler panics, and a panic gets past Recover only to abort. *)
PanicInv(r) ==
    /\ r.way = "panic" => r.ran /\ r.in.does \in {"panic", "hint", "abort", "late"}
    /\ r.way = "panic" /\ r.at < 6 => r.in.does = "abort"
    /\ r.ran /\ r.in.does \in {"panic", "hint"} =>
        /\ r.way = "panic" => r.wire = 0
        /\ r.way \in {"up", "over"} => r.wire = 500

SecureInv(r) ==
    /\ Past(r, 4) => r.head.secure = TRUE
    /\ r.wire # 0 => r.out.secure = TRUE

IdInv(r) ==
    /\ "bad" \notin {r.id, r.head.id, r.out.id, r.line.id}
    /\ Past(r, 2) /\ r.in.id = "bad" => r.hdrId # "bad"
    /\ ~Past(r, 1) => r.remote = r.in.peer

(* Gates turn requests round before the claim; a preflight never gets by CORS. *)
Oversize(in) == in.body.declared /\ in.body.len > BodyMax
RefusalInv(r) ==
    /\ r.claimed => ~Oversize(r.in) /\ Past(r, 10) /\ r.wire \in {0, 500} \cup OwnStatuses
    /\ r.way = "down" /\ r.at > 9 => ~Oversize(r.in)
    /\ Preflight(r.in) /\ r.in.origin # "none" =>
        /\ r.way = "down" => r.at <= 7
        /\ r.way # "panic" /\ ~r.ran
        /\ r.way \in {"up", "over"} => r.wire = 204

BodyInv(r) ==
    /\ r.prefix \in Int /\ r.rest \in Int
    /\ ~Past(r, 5) => r.prefix = 0 /\ r.rest = r.in.body.len
    /\ ~r.ran => Unread(r) = r.in.body.len
    /\ r.way = "down" /\ r.at > 9 => r.limited
    /\ r.ran => r.got = Smaller(r.in.body.len, BodyMax)

CallInv(i, r) ==
    LET c == r.call IN
    /\ ~r.ran => c = NoCall
    /\ c.pc \in {"none", "allow", "send", "record", "emit", "done"}
    /\ c.pc \in {"none", "allow", "send", "record"} => c.told = 0
    /\ c.pc = "emit" => c.told = 1 /\ c.result \in {"error", "response"}
    /\ c.pc = "done" =>
        \/ c.told = 0 /\ c.result = "circuit open"
        \/ c.told = 1 /\ c.result = "error"
        \/ c.told = 1 /\ c.result = "response" /\ c.got = r.in.resp.len
    /\ r.span \in {"none", "server"}
    /\ r.trace # "none" =>
        /\ r.trace = IF r.in.tp = "valid" THEN "inbound" ELSE i
        /\ r.flags = IF r.in.tp = "valid" THEN "inbound" ELSE "01"
    /\ c.tp \in {<<>>, <<"own">>} \/ (c.tp = <<r.trace, "outbound", r.flags>> /\ r.trace # "none")

AddrInv(r) ==
    r.remote # r.in.peer =>
        /\ parseClientAddr(r.in.peer) \in TrustedProxies
        /\ \/ \E k \in DOMAIN r.in.hdr["X-Real-IP"] :
                r.remote = parseClientAddr(r.in.hdr["X-Real-IP"][k])
           \/ LET hops == r.in.hdr["X-Forwarded-For"] IN
              \E k \in DOMAIN hops :
                /\ r.remote = parseClientAddr(hops[k])
                /\ \A j \in (k + 1)..Len(hops) : parseClientAddr(hops[j]) \in TrustedProxies
                /\ r.remote \in TrustedProxies => k = 1

(* Bytes: a request under way below the Logger holds two buffers of its own. *)
BufInv(i, r) ==
    /\ \A k \in DOMAIN r.bufs : r.bufs[k] \in Buffer \ free /\ owner[r.bufs[k]] = i
    /\ ~Past(r, 5) \/ r.way = "over" \/ r.at = 0 \/ DOMAIN r.bufs = {1, 2}
    /\ r.line # NoLine => r.line.owners = <<i, i>>

Core(i, r) ==
    /\ Typed(r) /\ StatusInv(r) /\ LineInv(r) /\ PanicInv(r) /\ SecureInv(r) /\ IdInv(r)
    /\ RefusalInv(r) /\ BodyInv(r) /\ CallInv(i, r) /\ AddrInv(r)

ReqInv(i, r) == i \in DOMAIN load /\ r.in = load[i] /\ Core(i, r) /\ BufInv(i, r)

-----------------------------------------------------------------------------
(* What the requests share. *)
Stored ==
    /\ store.inFlight \in BOOLEAN
    /\ \/ store = NoRecord
       \/ store.inFlight
       \/ store.status \in OwnStatuses \ {502} /\ store.head.id # "bad"

(* Two buffers are left for each request that has not come to the Logger. *)
Unlogged == {i \in Request : req[i].way = "idle" \/ ~Past(req[i], 5)}
RoomInv ==
    /\ free \subseteq Buffer
    /\ Cardinality(free) >= 2 * Cardinality(Unlogged)

RunInv ==
    /\ load \in Loads
    /\ chain \subseteq Added /\ chain # {"none"}
    /\ handler = IF run = "idle" THEN {"none"} ELSE chain
    /\ run = "idle" => \A i \in Request : req[i].way = "idle"
    /\ run \in {"idle", "starting", "serving", "draining"} \cup Returned
    /\ cancelled \in BOOLEAN
    /\ DOMAIN served = Request /\ UseCoversAll
    /\ run = "drained" => InFlight = {}

PipeInv ==
    /\ DOMAIN req = Request
    /\ owner \in [Buffer -> Request \cup {"none"}]
    /\ \A i \in Request : req[i] = Idle \/ ReqInv(i, req[i])

IInv == PipeInv /\ Stored /\ RoomInv /\ RunInv

-----------------------------------------------------------------------------
(* The chain, place by place. *)
LEMMA ChainPlaces ==
    /\ DOMAIN Chain = 1 .. 11 /\ Len(Chain) = 11 /\ HandlerAt = 12
    /\ \A k \in 1 .. 11 :
        /\ Chain[k] = "RealIP" <=> k = 1
        /\ Chain[k] = "RequestID" <=> k = 2
        /\ Chain[k] = "Trace" <=> k = 3
        /\ Chain[k] = "SecureHeaders" <=> k = 4
        /\ Chain[k] = "Logger" <=> k = 5
        /\ Chain[k] = "Recover" <=> k = 6
        /\ Chain[k] = "CORS" <=> k = 7
        /\ Chain[k] = "RateLimit" <=> k = 8
        /\ Chain[k] = "BodyLimit" <=> k = 9
        /\ Chain[k] = "Idempotency" <=> k = 10
        /\ Chain[k] = "mux" <=> k = 11
  BY DEF Chain, HandlerAt

LEMMA PlaceOf ==
    /\ Place("RequestID") = 2 /\ Place("Logger") = 5
    /\ Place("Recover") = 6 /\ Place("Idempotency") = 10
  <1>1. Place("RequestID") = 2
    BY ChainPlaces DEF Place
  <1>2. Place("Logger") = 5
    BY ChainPlaces DEF Place
  <1>3. Place("Recover") = 6
    BY ChainPlaces DEF Place
  <1>4. Place("Idempotency") = 10
    BY ChainPlaces DEF Place
  <1>5. QED
    BY <1>1, <1>2, <1>3, <1>4

LEMMA MaxIs ==
    ASSUME NEW S \in SUBSET Int, NEW m \in S, \A x \in S : x <= m
    PROVE  Max(S) = m
  <1>1. \A x \in S : m >= x
    OBVIOUS
  <1>2. \A n \in S : (\A x \in S : n >= x) => n = m
    <2>1. ASSUME NEW n \in S, \A x \in S : n >= x PROVE n = m
      <3>1. n \in Int /\ m \in Int
        OBVIOUS
      <3>2. n >= m /\ n <= m
        BY <2>1
      <3>3. QED
        BY <3>1, <3>2
    <2>2. QED
      BY <2>1
  <1>3. Max(S) \in S /\ \A x \in S : Max(S) >= x
    BY <1>1 DEF Max
  <1>4. QED
    BY <1>2, <1>3

(* The wrapper a request comes back to from each place. *)
LEMMA OuterOf ==
    /\ Outer(5) = 0 /\ Outer(6) = 5
    /\ \A k \in 7 .. 10 : Outer(k) = 6
    /\ Outer(11) = 10 /\ Outer(12) = 10
  <1> DEFINE W(k) == {0} \cup {j \in 1..(k - 1) : j <= Len(Chain) /\ Chain[j] \in Wrappers}
  <1>1. \A j \in 1 .. 11 : j <= Len(Chain) /\ Chain[j] \in Wrappers <=> j \in {5, 6, 10}
    BY ChainPlaces DEF Wrappers
  <1>2. ASSUME NEW k \in 5 .. 12 PROVE W(k) = {0} \cup {j \in {5, 6, 10} : j < k}
    <2>1. \A j : j \in 1..(k - 1) => j \in 1 .. 11
      OBVIOUS
    <2>2. \A j \in {5, 6, 10} : j < k => j \in 1..(k - 1)
      OBVIOUS
    <2>3. \A j \in W(k) : j \in {0} \cup {n \in {5, 6, 10} : n < k}
      BY <1>1, <2>1
    <2>4. \A j \in {n \in {5, 6, 10} : n < k} : j \in W(k)
      BY <1>1, <2>1, <2>2
    <2>5. QED
      BY <2>3, <2>4
  <1>3. \A k \in 5 .. 12 : Outer(k) = Max({0} \cup {j \in {5, 6, 10} : j < k})
    BY <1>2 DEF Outer
  <1>4. Outer(5) = 0
    <2>1. Max({0} \cup {j \in {5, 6, 10} : j < 5}) = 0
      BY MaxIs
    <2>2. QED
      BY <1>3, <2>1
  <1>5. Outer(6) = 5
    <2>1. Max({0} \cup {j \in {5, 6, 10} : j < 6}) = 5
      BY MaxIs
    <2>2. QED
      BY <1>3, <2>1
  <1>6. ASSUME NEW k \in 7 .. 10 PROVE Outer(k) = 6
    <2>1. Max({0} \cup {j \in {5, 6, 10} : j < k}) = 6
      BY MaxIs
    <2>2. QED
      BY <1>3, <2>1
  <1>7. ASSUME NEW k \in 11 .. 12 PROVE Outer(k) = 10
    <2>1. Max({0} \cup {j \in {5, 6, 10} : j < k}) = 10
      BY MaxIs
    <2>2. QED
      BY <1>3, <2>1
  <1>8. QED
    BY <1>4, <1>5, <1>6, <1>7

-----------------------------------------------------------------------------
(***************************************************************************)
(* What a step makes of its request, taken by itself: first the fields,    *)
(* then the ways on.                                                       *)
(***************************************************************************)
LEMMA AddrKept ==
    ASSUME NEW r, NEW s, s.in = r.in, s.remote = r.remote, AddrInv(r)
    PROVE  AddrInv(s)
  BY Zenon DEF AddrInv

LEMMA CallKept ==
    ASSUME NEW i, NEW r, NEW s, CallInv(i, r), s.in = r.in, s.call = r.call, s.trace = r.trace,
           s.span = r.span, s.flags = r.flags, s.ran = r.ran
    PROVE  CallInv(i, s)
  BY DEF CallInv

(* The response header may change, as long as it keeps its promises. *)
LEMMA HeadCore ==
    ASSUME NEW i, NEW r, Core(i, r), NEW h, DOMAIN h = HeadFields, h.id # "bad",
           Past(r, 4) => h.secure = TRUE
    PROVE  Core(i, [r EXCEPT !.head = h])
  <1> DEFINE s == [r EXCEPT !.head = h]
  <1>1. /\ s.head = h
        /\ DOMAIN s = DOMAIN r
        /\ \A f \in Fields \ {"head"} : s[f] = r[f]
    BY DEF Core, Typed, Fields
  <1>2. /\ s.in = r.in /\ s.call = r.call /\ s.trace = r.trace /\ s.span = r.span
        /\ s.flags = r.flags /\ s.ran = r.ran /\ s.remote = r.remote
    BY <1>1 DEF Fields
  <1> USE DEF Core, Typed, Fields
  <1>3. Typed(s)
    OBVIOUS
  <1>4. StatusInv(s) /\ LineInv(s) /\ PanicInv(s) /\ SecureInv(s) /\ IdInv(s)
    BY DEF StatusInv, LineInv, PanicInv, SecureInv, IdInv, Past
  <1>5. RefusalInv(s) /\ BodyInv(s)
    BY DEF RefusalInv, BodyInv, Past, Unread, Oversize, Preflight
  <1>6. CallInv(i, s)
    BY <1>2, CallKept, Zenon
  <1>7. AddrInv(s)
    BY <1>2, AddrKept, Zenon
  <1>8. QED
    BY <1>3, <1>4, <1>5, <1>6, <1>7

(* On to the next middleware, with what this one had to see to. *)
LEMMA DownCore ==
    ASSUME NEW i, NEW r, Core(i, r), r.way = "down", r.at \in 1 .. 11,
           r.at = 2 /\ r.in.id = "bad" => r.hdrId # "bad",
           r.at = 4 => r.head.secure = TRUE,
           r.at # 5,
           r.at = 7 => ~(Preflight(r.in) /\ r.in.origin # "none"),
           r.at = 9 => r.limited /\ ~Oversize(r.in)
    PROVE  Core(i, Down(r))
  <1> DEFINE s == Down(r)
  <1> USE DEF Core, Typed, Fields, Down
  <1>1. /\ s.in = r.in /\ s.call = r.call /\ s.trace = r.trace /\ s.span = r.span
        /\ s.flags = r.flags /\ s.ran = r.ran /\ s.remote = r.remote
    OBVIOUS
  <1>2. Typed(s)
    OBVIOUS
  <1>3. StatusInv(s) /\ LineInv(s) /\ PanicInv(s) /\ SecureInv(s) /\ IdInv(s)
    BY DEF StatusInv, LineInv, PanicInv, SecureInv, IdInv, Past
  <1>4. RefusalInv(s) /\ BodyInv(s)
    BY DEF RefusalInv, BodyInv, Past, Unread, Oversize, Preflight
  <1>5. CallInv(i, s)
    BY <1>1, CallKept, Zenon
  <1>6. AddrInv(s)
    BY <1>1, AddrKept, Zenon
  <1>7. QED
    BY <1>2, <1>3, <1>4, <1>5, <1>6

LEMMA DownOn ==
    ASSUME NEW i, NEW r, Core(i, r), r.way = "down", r.at \in {3, 6, 8, 10, 11}
    PROVE  Core(i, Down(r))
  <1>1. r.at \in 1 .. 11 /\ r.at \notin {2, 4, 5, 7, 9}
    OBVIOUS
  <1>2. QED
    BY <1>1, DownCore

(* The ways back leave these fields as they are. *)
Same(r, s) ==
    /\ DOMAIN s = DOMAIN r
    /\ s.in = r.in /\ s.call = r.call /\ s.trace = r.trace /\ s.span = r.span
    /\ s.flags = r.flags /\ s.ran = r.ran /\ s.remote = r.remote /\ s.head = r.head
    /\ s.id = r.id /\ s.hdrId = r.hdrId /\ s.claimed = r.claimed
    /\ s.prefix = r.prefix /\ s.rest = r.rest /\ s.got = r.got /\ s.limited = r.limited

LEMMA SameSame ==
    ASSUME NEW a, NEW b, NEW c, Same(a, b), Same(b, c)
    PROVE  Same(a, c)
  BY Zenon DEF Same

(* A panic changes only the way and the place of a request. *)
LEMMA PanicsIs ==
    ASSUME NEW h, DOMAIN h = Fields
    PROVE  /\ Same(h, Panics(h)) /\ Panics(h).line = h.line /\ Panics(h).at = Outer(h.at)
           /\ Panics(h).wire = h.wire /\ Panics(h).out = h.out /\ Panics(h).sw = h.sw
           /\ Panics(h).cw = h.cw /\ Panics(h).sent = h.sent /\ Panics(h).way = "panic"
  BY DEF Fields, Panics, Same

(* WriteHeader leaves the fields that Same names, the line, the place and the way. *)
LEMMA WriteHeaderIs ==
    ASSUME NEW h, NEW status, DOMAIN h = Fields
    PROVE  LET w == WriteHeader(h, status) IN
           /\ Same(h, w) /\ w.line = h.line /\ w.at = h.at /\ w.way = h.way /\ DOMAIN w = Fields
           /\ w.sent \in BOOLEAN
  <1>1. WriteHeader(h, status).sent \in BOOLEAN
    BY DEF Fields, WriteHeader
  <1>2. QED
    BY <1>1 DEF Fields, WriteHeader, Same

LEMMA SameKeeps ==
    ASSUME NEW i, NEW r, NEW s, Core(i, r), Same(r, s)
    PROVE  CallInv(i, s) /\ AddrInv(s)
  <1>1. CallInv(i, r) /\ AddrInv(r)
    BY DEF Core
  <1>2. QED
    BY <1>1, CallKept, AddrKept, Zenon DEF Same

(***************************************************************************)
(* Back from a gate or from the handler, the writers agreeing on what was  *)
(* written, if anything.                                                   *)
(***************************************************************************)
LEMMA TurnCore ==
    ASSUME NEW i, NEW r, Core(i, r), r.way = "down", r.at \in 7 .. 12, r.call.pc \notin Calling,
           NEW s, Same(r, s), s.way \in {"up", "panic"}, s.at = Outer(r.at), s.line = r.line,
           s.wire \in {0} \cup Statuses, s.out = IF s.wire = 0 THEN r.out ELSE r.head,
           s.sw = s.wire, s.cw = IF r.at > 10 THEN s.wire ELSE 0,
           s.sent \in BOOLEAN, s.sent <=> s.wire # 0,
           r.claimed => s.wire \in {0} \cup OwnStatuses,
           Preflight(r.in) /\ r.in.origin # "none" => s.way = "up" /\ s.wire = 204,
           s.way = "up" => ~(r.ran /\ r.in.does \in {"panic", "hint"}),
           s.way = "panic" =>
             /\ r.at = 12 /\ r.ran /\ r.in.does \in {"panic", "hint", "abort", "late"}
             /\ r.in.does \in {"panic", "hint"} => s.wire = 0
    PROVE  Core(i, s)
  <1>1. Typed(s)
    BY OuterOf DEF Core, Typed, Same
  <1>2. StatusInv(s) /\ LineInv(s)
    BY OuterOf DEF Core, Same, StatusInv, LineInv, Statuses
  <1>3. PanicInv(s) /\ SecureInv(s) /\ IdInv(s)
    BY OuterOf DEF Core, Same, StatusInv, PanicInv, SecureInv, IdInv, Past, Statuses
  <1>4. RefusalInv(s) /\ BodyInv(s)
    BY OuterOf DEF Core, Same, RefusalInv, BodyInv, Past, Unread
  <1>5. QED
    BY <1>1, <1>2, <1>3, <1>4, SameKeeps DEF Core

LEMMA RefuseCore ==
    ASSUME NEW i, NEW r, Core(i, r), r.way = "down", r.at \in 7 .. 12, r.call.pc \notin Calling,
           NEW status \in Statuses,
           r.claimed => status \in OwnStatuses,
           Preflight(r.in) /\ r.in.origin # "none" => status = 204,
           ~(r.ran /\ r.in.does \in {"panic", "hint"})
    PROVE  Core(i, Refuse(r, status))
  <1> DEFINE s == Refuse(r, status)
  <1>1. Same(r, s) /\ s.line = r.line /\ s.way = "up" /\ s.at = Outer(r.at)
    BY DEF Core, Typed, Fields, Refuse, WriteHeader, Up, Same
  <1>2. /\ Inside(r, "Logger") /\ Inside(r, "Recover")
        /\ Inside(r, "Idempotency") <=> r.at > 10
    BY PlaceOf DEF Inside
  <1>3. Final(status) /\ LineCounts(status) /\ SentCounts(status) /\ status # 0
    BY DEF Statuses, Final, LineCounts, SentCounts
  <1>4. r.wire = 0 /\ r.sw = 0 /\ r.cw = 0
    BY DEF Core, StatusInv
  <1>5. /\ s.wire = status /\ s.out = r.head /\ s.sw = status
        /\ s.sent \in BOOLEAN /\ s.sent
        /\ s.cw = IF r.at > 10 THEN status ELSE 0
    BY <1>2, <1>3, <1>4 DEF Core, Typed, Fields, Refuse, WriteHeader, Up
  <1> HIDE DEF s
  <1>6. /\ s.way \in {"up", "panic"} /\ s.way # "panic" /\ s.wire \in {0} \cup Statuses
        /\ s.sw = s.wire /\ s.cw = (IF r.at > 10 THEN s.wire ELSE 0)
        /\ s.out = (IF s.wire = 0 THEN r.out ELSE r.head) /\ (s.sent <=> s.wire # 0)
        /\ r.claimed => s.wire \in {0} \cup OwnStatuses
        /\ Preflight(r.in) /\ r.in.origin # "none" => s.way = "up" /\ s.wire = 204
    BY <1>1, <1>3, <1>5
  <1>7. Core(i, s)
    BY <1>1, <1>5, <1>6, TurnCore
  <1>8. QED
    BY <1>7 DEF s

(* A handler may also go back without a final status, by a panic or silently. *)
LEMMA UnwrittenCore ==
    ASSUME NEW i, NEW r, Core(i, r), r.way = "down", r.at = 12, r.ran,
           r.call.pc \notin Calling,
           NEW s, \/ s = Up(r) /\ r.in.does \notin {"panic", "hint"}
                  \/ /\ s \in {Panics(r), Panics(WriteHeader(r, 103))}
                     /\ r.in.does \in {"panic", "hint", "abort", "late"}
    PROVE  Core(i, s)
  <1>1. r.wire = 0 /\ r.sw = 0 /\ r.cw = 0 /\ ~r.sent /\ ~(Preflight(r.in) /\ r.in.origin # "none")
    BY DEF Core, StatusInv, RefusalInv
  <1>2. ~Final(103) /\ ~LineCounts(103) /\ ~SentCounts(103)
    BY DEF Final, LineCounts, SentCounts
  <1>5. r.sent = FALSE /\ DOMAIN r = Fields
    BY <1>1 DEF Core, Typed
  <1>3. /\ Same(r, s) /\ s.line = r.line /\ s.at = Outer(r.at)
        /\ s.wire = 0 /\ s.out = r.out /\ s.sw = 0 /\ s.cw = 0 /\ s.sent \in BOOLEAN /\ ~s.sent
        /\ s.way = "up" \/ s.way = "panic"
        /\ s.way = "up" => r.in.does \notin {"panic", "hint"}
        /\ s.way = "panic" => r.in.does \in {"panic", "hint", "abort", "late"}
    <2>1. CASE s = Up(r) /\ r.in.does \notin {"panic", "hint"}
      BY <1>1, <2>1 DEF Core, Typed, Fields, Up, Same
    <2>2. CASE s = Panics(r) /\ r.in.does \in {"panic", "hint", "abort", "late"}
      <3>1. s = Panics(r)
        BY <2>2
      <3>2. /\ Same(r, s) /\ s.line = r.line /\ s.at = Outer(r.at) /\ s.wire = r.wire
            /\ s.out = r.out /\ s.sw = r.sw /\ s.cw = r.cw /\ s.sent = r.sent /\ s.way = "panic"
        BY <1>5, <3>1, PanicsIs
      <3>3. QED
        BY <1>1, <1>5, <2>2, <3>2
    <2>3. CASE s = Panics(WriteHeader(r, 103)) /\ r.in.does \in {"panic", "hint", "abort", "late"}
      <3> DEFINE h == WriteHeader(r, 103)
      <3>1. /\ Same(r, h) /\ h.line = r.line /\ h.at = r.at /\ h.out = r.out
            /\ h.wire = 0 /\ h.sw = 0 /\ h.cw = 0
        BY <1>1, <1>2 DEF Core, Typed, Fields, WriteHeader, Same
      <3>2. h.sent = FALSE
        BY <1>1, <1>2 DEF Core, Typed, Fields, WriteHeader
      <3> HIDE DEF h
      <3>3. DOMAIN h = Fields
        BY <3>1 DEF Core, Typed, Same
      <3>4. s = Panics(h)
        BY <2>3 DEF h
      <3>5. /\ Same(h, s) /\ s.line = h.line /\ s.at = Outer(h.at) /\ s.wire = h.wire
            /\ s.out = h.out /\ s.sw = h.sw /\ s.cw = h.cw /\ s.sent = h.sent /\ s.way = "panic"
        BY <3>3, <3>4, PanicsIs
      <3>6. Same(r, s)
        BY <3>1, <3>5, SameSame
      <3>7. /\ s.line = r.line /\ s.at = Outer(r.at)
            /\ s.wire = 0 /\ s.out = r.out /\ s.sw = 0 /\ s.cw = 0 /\ s.sent = FALSE /\ s.way = "panic"
        BY <3>1, <3>2, <3>5
      <3>8. r.in.does \in {"panic", "hint", "abort", "late"}
        BY <2>3
      <3>9. QED
        BY <3>6, <3>7, <3>8
    <2>4. QED
      BY <2>1, <2>2, <2>3
  <1>4. QED
    BY <1>1, <1>3, TurnCore

(* A panic after the final header. *)
LEMMA LateCore ==
    ASSUME NEW i, NEW r, Core(i, r), r.way = "down", r.at = 12, r.ran, r.in.does = "late",
           r.call.pc \notin Calling
    PROVE  Core(i, Panics(WriteHeader(r, 200)))
  <1> DEFINE h == WriteHeader(r, 200)
             s == Panics(h)
  <1>1. Same(r, s) /\ s.line = r.line /\ s.way = "panic" /\ s.at = Outer(r.at)
    <2>1. Same(r, h) /\ h.line = r.line /\ h.at = r.at /\ DOMAIN h = Fields
      BY WriteHeaderIs DEF Core, Typed
    <2> HIDE DEF h
    <2>2. Same(h, s) /\ s.line = h.line /\ s.way = "panic" /\ s.at = Outer(h.at)
      BY <2>1, PanicsIs
    <2>3. QED
      BY <2>1, <2>2, SameSame
  <1>2. Inside(r, "Logger") /\ Inside(r, "Recover") /\ Inside(r, "Idempotency")
    BY PlaceOf DEF Inside
  <1>3. Final(200) /\ LineCounts(200) /\ SentCounts(200) /\ 200 \in Statuses /\ 200 \in OwnStatuses
    BY DEF Statuses, OwnStatuses, Final, LineCounts, SentCounts
  <1>4. r.wire = 0 /\ r.sw = 0 /\ r.cw = 0 /\ ~(Preflight(r.in) /\ r.in.origin # "none")
    BY DEF Core, StatusInv, RefusalInv
  <1>5. /\ s.wire = 200 /\ s.out = r.head /\ s.sw = 200 /\ s.cw = 200
        /\ s.sent \in BOOLEAN /\ s.sent
    BY <1>2, <1>3, <1>4 DEF Core, Typed, Fields, Panics, WriteHeader
  <1> HIDE DEF h, s
  <1>6. /\ s.way \in {"up", "panic"} /\ s.way # "up" /\ s.wire \in {0} \cup Statuses
        /\ s.sw = s.wire /\ s.cw = (IF r.at > 10 THEN s.wire ELSE 0)
        /\ s.out = (IF s.wire = 0 THEN r.out ELSE r.head) /\ (s.sent <=> s.wire # 0)
        /\ r.claimed => s.wire \in {0} \cup OwnStatuses
        /\ r.in.does \in {"panic", "hint", "abort", "late"} /\ r.in.does \notin {"panic", "hint"}
        /\ r.at \in 7 .. 12
    BY <1>1, <1>3, <1>5
  <1>7. Core(i, s)
    BY <1>1, <1>4, <1>5, <1>6, TurnCore
  <1>8. QED
    BY <1>7 DEF s, h

(***************************************************************************)
(* From a wrapper to the one around it: with the same response, or with    *)
(* the 500 that Recover makes of a panic.                                  *)
(***************************************************************************)
LEMMA ClimbCore ==
    ASSUME NEW i, NEW r, Core(i, r), r.at \in {6, 10}, r.way \in {"up", "panic"},
           NEW s, Same(r, s), s.at = Outer(r.at), s.line = r.line, s.wire = r.wire,
           s.out = r.out, s.sw = r.sw, s.cw = r.cw, s.sent = r.sent,
           \/ s.way = r.way /\ (r.way = "panic" /\ r.at = 6 => r.in.does = "abort")
           \/ s.way = "up" /\ r.at = 6 /\ r.sent
    PROVE  Core(i, s)
  <1>1. Typed(s)
    BY OuterOf DEF Core, Typed, Same
  <1>2. StatusInv(s) /\ LineInv(s)
    BY OuterOf DEF Core, Same, StatusInv, LineInv, Statuses
  <1>3. PanicInv(s) /\ SecureInv(s) /\ IdInv(s)
    BY OuterOf DEF Core, Same, StatusInv, PanicInv, SecureInv, IdInv, Past, Statuses
  <1>4. RefusalInv(s) /\ BodyInv(s)
    BY OuterOf DEF Core, Same, RefusalInv, BodyInv, Past, Unread
  <1>5. QED
    BY <1>1, <1>2, <1>3, <1>4, SameKeeps DEF Core

LEMMA RecoverCore ==
    ASSUME NEW i, NEW r, Core(i, r), r.at = 6, r.way = "panic", ~r.sent, r.in.does # "abort"
    PROVE  Core(i, Refuse(r, 500))
  <1> DEFINE s == Refuse(r, 500)
  <1>1. Same(r, s) /\ s.line = r.line /\ s.way = "up" /\ s.at = 5
    BY OuterOf DEF Core, Typed, Fields, Refuse, WriteHeader, Up, Same
  <1>2. Inside(r, "Logger") /\ Final(500) /\ LineCounts(500) /\ r.wire = 0 /\ r.sw = 0
    BY PlaceOf DEF Core, Typed, StatusInv, Inside, Final, LineCounts
  <1>3. s.wire = 500 /\ s.out = r.head /\ s.sw = 500
    BY <1>2 DEF Core, Typed, Fields, Refuse, WriteHeader, Up
  <1>4. s.sent \in BOOLEAN
    BY DEF Core, Typed, Fields, Refuse, WriteHeader, Up, SentCounts, Inside
  <1> HIDE DEF s
  <1>5. Typed(s)
    BY <1>1, <1>4 DEF Core, Typed, Same
  <1>6. StatusInv(s) /\ LineInv(s)
    BY <1>1, <1>3 DEF Core, Same, StatusInv, LineInv, Statuses
  <1>7. PanicInv(s) /\ SecureInv(s) /\ IdInv(s)
    BY <1>1, <1>3 DEF Core, Same, PanicInv, SecureInv, IdInv, Past
  <1>8. RefusalInv(s) /\ BodyInv(s)
    BY <1>1, <1>3 DEF Core, Same, RefusalInv, BodyInv, Past, Unread
  <1>9. Core(i, s)
    BY <1>1, <1>5, <1>6, <1>7, <1>8, SameKeeps DEF Core
  <1>10. QED
    BY <1>9 DEF s

(* From the Logger, with the access line or, a panic, without. *)
LEMMA LoggedCore ==
    ASSUME NEW i, NEW r, Core(i, r), r.at = 5,
           NEW s, Same(r, s), s.at = 0, s.way = r.way, s.wire = r.wire, s.out = r.out,
           \/ r.way = "panic" /\ s.line = r.line
           \/ /\ r.way = "up" /\ s.line.remote = r.remote /\ s.line.id = r.id
              /\ s.line.status = (IF r.sw = 0 THEN 200 ELSE r.sw),
           s.sent = r.sent
    PROVE  Core(i, s)
  <1>1. Typed(s)
    BY DEF Core, Typed, Same
  <1>2. StatusInv(s) /\ LineInv(s)
    BY DEF Core, Same, StatusInv, LineInv, Statuses
  <1>3. PanicInv(s) /\ SecureInv(s) /\ IdInv(s)
    BY DEF Core, Same, PanicInv, SecureInv, IdInv, Past, LineInv
  <1>4. RefusalInv(s) /\ BodyInv(s)
    BY DEF Core, Same, RefusalInv, BodyInv, Past, Unread
  <1>5. QED
    BY <1>1, <1>2, <1>3, <1>4, SameKeeps DEF Core

LEMMA FinishCore ==
    ASSUME NEW i, NEW r, Core(i, r), r.at = 0, r.way \in {"up", "panic"},
           NEW s, s = [(IF r.way = "up" THEN WriteHeader(r, 200) ELSE r) EXCEPT !.way = "over"]
    PROVE  Core(i, s)
  <1>1. Same(r, s) /\ s.line = r.line /\ s.way = "over" /\ s.at = 0
    <2> DEFINE h == IF r.way = "up" THEN WriteHeader(r, 200) ELSE r
    <2>1. Same(r, h) /\ h.line = r.line /\ h.at = 0 /\ DOMAIN h = Fields
      <3>1. DOMAIN r = Fields
        BY DEF Core, Typed
      <3>2. CASE r.way = "up"
        BY <3>1, <3>2, WriteHeaderIs
      <3>3. CASE r.way # "up"
        BY <3>1, <3>3 DEF Same
      <3>4. QED
        BY <3>2, <3>3
    <2>2. s = [h EXCEPT !.way = "over"]
      OBVIOUS
    <2> HIDE DEF h
    <2>3. Same(h, s) /\ s.line = h.line /\ s.way = "over" /\ s.at = h.at
      BY <2>1, <2>2 DEF Fields, Same
    <2>4. QED
      BY <2>1, <2>3, SameSame
  <1>2. s.sent \in BOOLEAN
    <2>1. DOMAIN r = Fields /\ r.sent \in BOOLEAN
      BY DEF Core, Typed
    <2>2. CASE r.way = "up"
      <3> DEFINE h == WriteHeader(r, 200)
      <3>1. DOMAIN h = Fields /\ h.sent \in BOOLEAN
        BY <2>1, WriteHeaderIs
      <3>2. s = [h EXCEPT !.way = "over"]
        BY <2>2
      <3> HIDE DEF h
      <3>3. QED
        BY <3>1, <3>2 DEF Fields
    <2>3. CASE r.way # "up"
      BY <2>1, <2>3 DEF Fields
    <2>4. QED
      BY <2>2, <2>3
  <1>3. /\ s.wire = IF r.way = "up" /\ r.wire = 0 THEN 200 ELSE r.wire
        /\ s.out = IF r.way = "up" /\ r.wire = 0 THEN r.head ELSE r.out
    BY DEF Core, Typed, Fields, WriteHeader, Final
  <1>4. Typed(s)
    BY <1>1, <1>2 DEF Core, Typed, Same
  <1>5. StatusInv(s) /\ LineInv(s)
    BY <1>1, <1>3 DEF Core, Same, StatusInv, LineInv, PanicInv, Statuses
  <1>6. PanicInv(s) /\ SecureInv(s) /\ IdInv(s)
    BY <1>1, <1>3 DEF Core, Same, PanicInv, SecureInv, IdInv, Past
  <1>7. RefusalInv(s) /\ BodyInv(s)
    BY <1>1, <1>3 DEF Core, Same, RefusalInv, BodyInv, Past, Unread, OwnStatuses
  <1>8. QED
    BY <1>1, <1>4, <1>5, <1>6, <1>7, SameKeeps DEF Core

-----------------------------------------------------------------------------
(* The walk of X-Forwarded-For ends at the rightmost entry that is no proxy. *)
LEMMA HasLeast ==
    ASSUME NEW S \in SUBSET Nat, S # {}
    PROVE  \E m \in S : \A k \in S : m <= k
  <1> DEFINE Less == OpToRel(<, Nat)
  <1>1. \A x, y \in Nat : x < y => <<x, y>> \in Less
    BY DEF OpToRel
  <1>2. \E x \in S : \A y \in S : ~(<<y, x>> \in Less)
    BY NatLessThanWellFounded, WFMin
  <1> HIDE DEF Less
  <1>3. PICK m \in S : \A y \in S : ~(<<y, m>> \in Less)
    BY <1>2
  <1>4. \A k \in S : ~(k < m)
    BY <1>1, <1>3, Zenon
  <1>5. \A k \in S : m <= k
    BY <1>4
  <1>6. QED
    BY <1>5

LEMMA HasGreatest ==
    ASSUME NEW n \in Nat, NEW S \in SUBSET (1 .. n), S # {}
    PROVE  \E m \in S : \A k \in S : k <= m
  <1> DEFINE T == {n - k : k \in S}
  <1>1. T \in SUBSET Nat /\ T # {}
    <2>1. \A k \in S : k \in 1 .. n /\ n - k \in Nat
      OBVIOUS
    <2>2. QED
      BY <2>1
  <1>2. PICK t \in T : \A y \in T : t <= y
    BY <1>1, HasLeast
  <1>3. PICK m \in S : t = n - m
    OBVIOUS
  <1>4. ASSUME NEW k \in S PROVE k <= m
    <2>1. n - m <= n - k
      BY <1>2, <1>3
    <2>2. k \in Int /\ m \in Int
      OBVIOUS
    <2>3. QED
      BY <2>1, <2>2
  <1>5. QED
    BY <1>4

LEMMA MinIsIn ==
    ASSUME NEW S \in SUBSET Nat, S # {}
    PROVE  Min(S) \in S
  BY HasLeast DEF Min

LEMMA StopAtIsRightmost ==
    ASSUME NEW value, value \in Seq(ToSet(value)), value # <<>>
    PROVE  /\ StopAt(value) \in DOMAIN value
           /\ \A j \in (StopAt(value) + 1)..Len(value) : parseClientAddr(value[j]) \in TrustedProxies
           /\ parseClientAddr(value[StopAt(value)]) \in TrustedProxies => StopAt(value) = 1
  <1>1. DOMAIN value = 1 .. Len(value) /\ Len(value) \in Nat /\ Len(value) >= 1
    OBVIOUS
  <1>2. \A k \in DOMAIN value : k \in Stops(value) <=> parseClientAddr(value[k]) \notin TrustedProxies
    BY DEF Stops, containsAddr
  <1>3. CASE Stops(value) = {}
    <2>1. StopAt(value) = 1
      BY <1>3 DEF StopAt
    <2>2. QED
      BY <1>1, <1>2, <1>3, <2>1
  <1>4. CASE Stops(value) # {}
    <2>1. Stops(value) \in SUBSET (1 .. Len(value))
      BY <1>1 DEF Stops
    <2>2. PICK m \in Stops(value) : \A k \in Stops(value) : k <= m
      BY <1>1, <1>4, <2>1, HasGreatest
    <2>3. StopAt(value) = m
      <3>1. Stops(value) \in SUBSET Int
        BY <1>1, <2>1
      <3>2. Max(Stops(value)) = m
        BY <2>2, <3>1, MaxIs
      <3>3. QED
        BY <1>4, <3>2 DEF StopAt
    <2>4. \A j \in (m + 1)..Len(value) : j \in DOMAIN value /\ j \notin Stops(value)
      BY <1>1, <2>1, <2>2
    <2>5. m \in DOMAIN value /\ m \in Stops(value)
      BY <1>1, <2>1, <2>2
    <2>6. QED
      BY <1>2, <2>3, <2>4, <2>5
  <1>5. QED
    BY <1>3, <1>4

(* Who may say so: the peer itself, or a trusted peer's header. *)
LEMMA AddrIsVouchedFor ==
    ASSUME NEW in, Sendable(in), NEW r, r.in = in,
           LET ip == RealIPFrom(in.peer, in.hdr)
           IN  r.remote = IF ip = NoAddr THEN in.peer ELSE ip
    PROVE  AddrInv(r)
  <1> DEFINE ip == RealIPFrom(in.peer, in.hdr)
             real == in.hdr["X-Real-IP"]
             hops == in.hdr["X-Forwarded-For"]
             hasClient(h) == clientFromHeader(h, in.hdr[h]) # NoAddr
  <1> SUFFICES ASSUME r.remote # in.peer PROVE AddrInv(r)
    BY DEF AddrInv
  <1>1. ip # NoAddr /\ r.remote = ip /\ ip # in.peer
    OBVIOUS
  <1>2. ip = RealAddr(in.peer, in.hdr)
    BY <1>1 DEF RealIPFrom
  <1>3. parseClientAddr(in.peer) \in TrustedProxies /\ Asserting(in.hdr) # {}
    BY <1>1, <1>2 DEF RealAddr, containsAddr
  <1>4. Headers = <<"X-Real-IP", "X-Forwarded-For">> /\ DOMAIN Headers = {1, 2}
    BY DEF Headers
  <1>5. real \in Seq(ToSet(real)) /\ hops \in Seq(ToSet(hops))
    <2>1. "X-Real-IP" \in ToSet(Headers) /\ "X-Forwarded-For" \in ToSet(Headers)
      BY <1>4 DEF ToSet
    <2>2. QED
      BY <2>1 DEF Sendable
  <1>6. Asserting(in.hdr) \in SUBSET {1, 2}
    BY <1>4 DEF Asserting
  <1>7. Min(Asserting(in.hdr)) \in Asserting(in.hdr)
    <2>1. \E x \in Asserting(in.hdr) : \A y \in Asserting(in.hdr) : x <= y
      BY <1>3, <1>6
    <2>2. QED
      BY <2>1 DEF Min
  <1>8. PICK k \in Asserting(in.hdr) : ip = clientFromHeader(Headers[k], in.hdr[Headers[k]])
    BY <1>2, <1>3, <1>7 DEF RealAddr, containsAddr
  <1>9. CASE k = 1
    <2>1. ip = clientFromHeader("X-Real-IP", real)
      BY <1>4, <1>8, <1>9
    <2>2. real # <<>> /\ ip = parseClientAddr(real[1])
      BY <1>1, <2>1 DEF clientFromHeader
    <2>3. 1 \in DOMAIN real
      BY <1>5, <2>2
    <2>4. QED
      BY <1>1, <1>3, <2>2, <2>3 DEF AddrInv
  <1>10. CASE k = 2
    <2>1. ip = clientFromHeader("X-Forwarded-For", hops)
      BY <1>4, <1>8, <1>10
    <2>2. hops # <<>> /\ ip = parseClientAddr(hops[StopAt(hops)])
      BY <1>1, <2>1 DEF clientFromHeader
    <2>3. /\ StopAt(hops) \in DOMAIN hops
          /\ \A j \in (StopAt(hops) + 1)..Len(hops) : parseClientAddr(hops[j]) \in TrustedProxies
          /\ parseClientAddr(hops[StopAt(hops)]) \in TrustedProxies => StopAt(hops) = 1
      BY <1>5, <2>2, StopAtIsRightmost
    <2>4. QED
      BY <1>1, <1>3, <2>2, <2>3 DEF AddrInv
  <1>11. QED
    BY <1>6, <1>8, <1>9, <1>10

-----------------------------------------------------------------------------
(* What the middlewares do on the way down. *)
LEMMA RealIPCore ==
    ASSUME NEW i, NEW r, Core(i, r), Sendable(r.in), r.way = "down", r.at = 1, NEW s,
           s = LET ip == RealIPFrom(r.in.peer, r.in.hdr)
               IN  Down([r EXCEPT !.ip = ip, !.remote = IF ip = NoAddr THEN @ ELSE ip])
    PROVE  Core(i, s)
  <1>1. /\ s.in = r.in /\ s.call = r.call /\ s.trace = r.trace /\ s.span = r.span
        /\ s.flags = r.flags /\ s.ran = r.ran
    BY DEF Core, Typed, Fields, Down
  <1>2. LET ip == RealIPFrom(r.in.peer, r.in.hdr)
        IN  s.remote = IF ip = NoAddr THEN r.in.peer ELSE ip
    BY DEF Core, Typed, Fields, Down, IdInv, Past
  <1>3. Typed(s)
    BY DEF Core, Typed, Fields, Down
  <1>4. StatusInv(s) /\ LineInv(s) /\ PanicInv(s) /\ SecureInv(s) /\ IdInv(s)
    BY DEF Core, Typed, Fields, Down, StatusInv, LineInv, PanicInv, SecureInv, IdInv, Past
  <1>5. RefusalInv(s) /\ BodyInv(s)
    BY DEF Core, Typed, Fields, Down, RefusalInv, BodyInv, Past, Unread
  <1>6. CallInv(i, s)
    <2>1. CallInv(i, r)
      BY DEF Core
    <2>2. QED
      BY <1>1, <2>1, CallKept, Zenon
  <1>7. AddrInv(s)
    BY <1>1, <1>2, AddrIsVouchedFor, Zenon
  <1>8. QED
    BY <1>3, <1>4, <1>5, <1>6, <1>7 DEF Core

(* RequestID names the request; the value it rejected is gone. *)
LEMMA NamedCore ==
    ASSUME NEW i, NEW r, Core(i, r), r.way = "down", r.at = 2, NEW id, id # "bad", NEW hdrId
    PROVE  Core(i, [r EXCEPT !.id = id, !.hdrId = hdrId])
  <1> DEFINE s == [r EXCEPT !.id = id, !.hdrId = hdrId]
  <1>1. /\ s.in = r.in /\ s.call = r.call /\ s.trace = r.trace /\ s.span = r.span
        /\ s.flags = r.flags /\ s.ran = r.ran /\ s.remote = r.remote
    BY DEF Core, Typed, Fields
  <1>2. Typed(s)
    BY DEF Core, Typed, Fields
  <1>3. StatusInv(s) /\ LineInv(s) /\ PanicInv(s) /\ SecureInv(s) /\ IdInv(s)
    BY DEF Core, Typed, Fields, StatusInv, LineInv, PanicInv, SecureInv, IdInv, Past
  <1>4. RefusalInv(s) /\ BodyInv(s)
    BY DEF Core, Typed, Fields, RefusalInv, BodyInv, Past, Unread
  <1>5. CallInv(i, r) /\ AddrInv(r)
    BY DEF Core
  <1>6. CallInv(i, s) /\ AddrInv(s)
    BY <1>1, <1>5, CallKept, AddrKept, Zenon
  <1>7. QED
    BY <1>2, <1>3, <1>4, <1>6 DEF Core

(* Trace adopts the inbound trace, or starts one named after the request. *)
LEMMA TracedCore ==
    ASSUME NEW i, NEW r, Core(i, r), r.way = "down", r.at = 3, NEW trace, NEW flags,
           trace = IF r.in.tp = "valid" THEN "inbound" ELSE i,
           flags = IF r.in.tp = "valid" THEN "inbound" ELSE "01"
    PROVE  Core(i, [r EXCEPT !.trace = trace, !.span = "server", !.flags = flags])
  <1> DEFINE s == [r EXCEPT !.trace = trace, !.span = "server", !.flags = flags]
  <1>1. /\ s.in = r.in /\ s.call = r.call /\ s.trace = trace /\ s.span = "server"
        /\ s.flags = flags /\ s.ran = r.ran /\ s.remote = r.remote
    BY DEF Core, Typed, Fields
  <1>2. Typed(s)
    BY DEF Core, Typed, Fields
  <1>3. StatusInv(s) /\ LineInv(s) /\ PanicInv(s) /\ SecureInv(s) /\ IdInv(s)
    BY DEF Core, Typed, Fields, StatusInv, LineInv, PanicInv, SecureInv, IdInv, Past
  <1>4. RefusalInv(s) /\ BodyInv(s)
    BY DEF Core, Typed, Fields, RefusalInv, BodyInv, Past, Unread
  <1>5. r.ran = FALSE
    BY DEF Core, Typed
  <1>6. CallInv(i, s)
    <2>1. r.call = NoCall
      BY <1>5 DEF Core, CallInv
    <2>2. NoCall.pc = "none" /\ NoCall.told = 0 /\ NoCall.tp = <<>>
      BY DEF NoCall
    <2>3. /\ s.call = NoCall /\ s.call.pc = "none" /\ s.call.told = 0 /\ s.call.tp = <<>>
      BY <1>1, <2>1, <2>2
    <2>4. QED
      BY <1>1, <2>3 DEF CallInv
  <1>7. AddrInv(r)
    BY DEF Core
  <1>8. AddrInv(s)
    BY <1>1, <1>7, AddrKept, Zenon
  <1>9. QED
    BY <1>2, <1>3, <1>4, <1>6, <1>8 DEF Core

(* The Logger takes two buffers, and gives back all it read of the body. *)
LEMMA CapturedCore ==
    ASSUME NEW i, NEW r, Core(i, r), Sendable(r.in), r.way = "down", r.at = 5, NEW bufs,
           NEW s,
           s = Down([r EXCEPT !.bufs = bufs, !.prefix = Splices(r.rest),
                              !.rest = r.rest - Smaller(r.rest, CaptureMax + 1)])
    PROVE  Core(i, s)
  <1>1. /\ s.in = r.in /\ s.call = r.call /\ s.trace = r.trace /\ s.span = r.span
        /\ s.flags = r.flags /\ s.ran = r.ran /\ s.remote = r.remote
    BY DEF Core, Typed, Fields, Down
  <1>2. Typed(s)
    BY DEF Core, Typed, Fields, Down
  <1>3. StatusInv(s) /\ LineInv(s) /\ PanicInv(s) /\ SecureInv(s) /\ IdInv(s)
    BY DEF Core, Typed, Fields, Down, StatusInv, LineInv, PanicInv, SecureInv, IdInv, Past
  <1>4. RefusalInv(s)
    BY DEF Core, Typed, Fields, Down, RefusalInv, Past
  <1>5. s.prefix \in Int /\ s.rest \in Int /\ s.prefix + s.rest = r.in.body.len
    <2>1. r.rest = r.in.body.len /\ r.in.body.len \in Nat
      BY DEF Core, BodyInv, Past, Sendable
    <2>2. Smaller(r.rest, CaptureMax + 1) \in Int
      BY <2>1, MiddlewareAssumption DEF Smaller
    <2>3. s.prefix = Smaller(r.rest, CaptureMax + 1) /\ s.rest = r.rest - Smaller(r.rest, CaptureMax + 1)
      BY DEF Core, Typed, Fields, Down, Splices
    <2>4. QED
      BY <2>1, <2>2, <2>3
  <1>6. BodyInv(s)
    BY <1>1, <1>5 DEF Core, Typed, Fields, Down, BodyInv, Past, Unread
  <1>7. CallInv(i, r) /\ AddrInv(r)
    BY DEF Core
  <1>8. CallInv(i, s) /\ AddrInv(s)
    BY <1>1, <1>7, CallKept, AddrKept, Zenon
  <1>9. QED
    BY <1>2, <1>3, <1>4, <1>6, <1>8 DEF Core

(* BodyLimit puts its reader in front of the body. *)
LEMMA LimitedCore ==
    ASSUME NEW i, NEW r, Core(i, r), r.way = "down", r.at = 9, ~Oversize(r.in)
    PROVE  Core(i, Down([r EXCEPT !.limited = TRUE]))
  <1> DEFINE s == [r EXCEPT !.limited = TRUE]
  <1>1. /\ s.in = r.in /\ s.call = r.call /\ s.trace = r.trace /\ s.span = r.span
        /\ s.flags = r.flags /\ s.ran = r.ran /\ s.remote = r.remote
        /\ s.way = "down" /\ s.at = 9 /\ s.limited /\ ~Oversize(s.in)
    BY DEF Core, Typed, Fields
  <1>2. Typed(s)
    BY DEF Core, Typed, Fields
  <1>3. StatusInv(s) /\ LineInv(s) /\ PanicInv(s) /\ SecureInv(s) /\ IdInv(s)
    BY DEF Core, Typed, Fields, StatusInv, LineInv, PanicInv, SecureInv, IdInv, Past
  <1>4. RefusalInv(s) /\ BodyInv(s)
    BY DEF Core, Typed, Fields, RefusalInv, BodyInv, Past, Unread
  <1>5. CallInv(i, r) /\ AddrInv(r)
    BY DEF Core
  <1>6. CallInv(i, s) /\ AddrInv(s)
    BY <1>1, <1>5, CallKept, AddrKept, Zenon
  <1> HIDE DEF s
  <1>7. Core(i, s)
    BY <1>2, <1>3, <1>4, <1>6 DEF Core
  <1>8. Core(i, Down(s))
    <2>1. s.way = "down" /\ s.at \in 1 .. 11 /\ s.at \notin {2, 4, 5, 7} /\ s.limited /\ ~Oversize(s.in)
      BY <1>1
    <2>2. QED
      BY <1>7, <2>1, DownCore
  <1>9. QED
    BY <1>8 DEF s

(* Idempotency reads the body whole and puts it back ... *)
LEMMA WholeCore ==
    ASSUME NEW i, NEW r, Core(i, r), r.way = "down", r.at = 10
    PROVE  Core(i, [r EXCEPT !.prefix = Unread(r), !.rest = 0])
  <1> DEFINE s == [r EXCEPT !.prefix = Unread(r), !.rest = 0]
  <1>1. /\ s.in = r.in /\ s.call = r.call /\ s.trace = r.trace /\ s.span = r.span
        /\ s.flags = r.flags /\ s.ran = r.ran /\ s.remote = r.remote
    BY DEF Core, Typed, Fields
  <1>2. Typed(s)
    BY DEF Core, Typed, Fields
  <1>3. StatusInv(s) /\ LineInv(s) /\ PanicInv(s) /\ SecureInv(s) /\ IdInv(s)
    BY DEF Core, Typed, Fields, StatusInv, LineInv, PanicInv, SecureInv, IdInv, Past
  <1>4. RefusalInv(s) /\ BodyInv(s)
    BY DEF Core, Typed, Fields, RefusalInv, BodyInv, Past, Unread
  <1>5. CallInv(i, r) /\ AddrInv(r)
    BY DEF Core
  <1>6. CallInv(i, s) /\ AddrInv(s)
    BY <1>1, <1>5, CallKept, AddrKept, Zenon
  <1>7. QED
    BY <1>2, <1>3, <1>4, <1>6 DEF Core

(* ... and lets the request on with the claim. *)
LEMMA ClaimedCore ==
    ASSUME NEW i, NEW r, Core(i, r), r.way = "down", r.at = 10
    PROVE  Core(i, Down([r EXCEPT !.claimed = TRUE]))
  <1> DEFINE s == Down([r EXCEPT !.claimed = TRUE])
  <1>1. /\ s.in = r.in /\ s.call = r.call /\ s.trace = r.trace /\ s.span = r.span
        /\ s.flags = r.flags /\ s.ran = r.ran /\ s.remote = r.remote
    BY DEF Core, Typed, Fields, Down
  <1>2. Typed(s)
    BY DEF Core, Typed, Fields, Down
  <1>3. StatusInv(s) /\ LineInv(s) /\ PanicInv(s) /\ SecureInv(s) /\ IdInv(s)
    BY DEF Core, Typed, Fields, Down, StatusInv, LineInv, PanicInv, SecureInv, IdInv, Past
  <1>4. RefusalInv(s) /\ BodyInv(s)
    BY DEF Core, Typed, Fields, Down, StatusInv, RefusalInv, BodyInv, Past, Unread
  <1>5. CallInv(i, r) /\ AddrInv(r)
    BY DEF Core
  <1>6. CallInv(i, s) /\ AddrInv(s)
    BY <1>1, <1>5, CallKept, AddrKept, Zenon
  <1>7. QED
    BY <1>2, <1>3, <1>4, <1>6 DEF Core

(* The handler has read what BodyLimit lets it read. *)
LEMMA StartedCore ==
    ASSUME NEW i, NEW r, Core(i, r), r.way = "down", r.at = 12, ~r.ran, NEW noted, NEW s,
           s = [r EXCEPT !.ran = TRUE, !.prefix = 0, !.rest = 0,
                         !.got = IF r.limited THEN Smaller(Unread(r), BodyMax) ELSE Unread(r),
                         !.noted = noted,
                         !.call.pc = IF r.in.calls THEN "allow" ELSE "none"]
    PROVE  Core(i, s)
  <1>1. /\ s.in = r.in /\ s.trace = r.trace /\ s.span = r.span
        /\ s.flags = r.flags /\ s.ran /\ s.remote = r.remote
        /\ s.got = IF r.limited THEN Smaller(Unread(r), BodyMax) ELSE Unread(r)
        /\ s.call = [r.call EXCEPT !.pc = IF r.in.calls THEN "allow" ELSE "none"]
    BY DEF Core, Typed, Fields
  <1>2. Typed(s)
    BY <1>1 DEF Core, Typed, Fields, CallFields
  <1>3. StatusInv(s) /\ LineInv(s) /\ PanicInv(s) /\ SecureInv(s) /\ IdInv(s)
    BY DEF Core, Typed, Fields, StatusInv, LineInv, PanicInv, SecureInv, IdInv, Past
  <1>4. RefusalInv(s)
    BY DEF Core, Typed, Fields, RefusalInv, Past
  <1>5. BodyInv(s)
    <2>1. Unread(r) = r.in.body.len /\ r.limited
      BY DEF Core, BodyInv
    <2>2. s.got = Smaller(r.in.body.len, BodyMax)
      BY <1>1, <2>1
    <2>3. s.prefix = 0 /\ s.rest = 0 /\ Past(s, 5)
      BY DEF Core, Typed, Fields, Past
    <2>4. s.limited = r.limited
      BY DEF Core, Typed, Fields
    <2>5. QED
      BY <1>1, <2>1, <2>2, <2>3, <2>4 DEF BodyInv
  <1>6. CallInv(i, s)
    <2>1. r.call = NoCall /\ CallInv(i, r)
      BY DEF Core, CallInv
    <2>2. /\ s.call.pc \in {"allow", "none"} /\ s.call.told = 0 /\ s.call.tp = <<>>
      BY <1>1, <2>1 DEF NoCall
    <2>3. /\ s.span \in {"none", "server"}
          /\ s.trace # "none" =>
                /\ s.trace = IF s.in.tp = "valid" THEN "inbound" ELSE i
                /\ s.flags = IF s.in.tp = "valid" THEN "inbound" ELSE "01"
      <3>1. s.in = r.in /\ s.span = r.span /\ s.trace = r.trace /\ s.flags = r.flags
        BY <1>1
      <3>2. QED
        BY <2>1, <3>1 DEF CallInv
    <2>4. s.ran
      BY <1>1
    <2>5. QED
      BY <2>2, <2>3, <2>4 DEF CallInv
  <1>7. AddrInv(r) /\ s.in = r.in /\ s.remote = r.remote
    BY <1>1 DEF Core
  <1>8. AddrInv(s)
    BY <1>7, AddrKept, Zenon
  <1>9. QED
    BY <1>2, <1>3, <1>4, <1>5, <1>6, <1>8 DEF Core

LEMMA CallCore ==
    ASSUME NEW i, NEW r, Core(i, r), r.way = "down", r.at = 12,
           NEW c, DOMAIN c = CallFields, CallInv(i, [r EXCEPT !.call = c])
    PROVE  Core(i, [r EXCEPT !.call = c])
  <1> DEFINE s == [r EXCEPT !.call = c]
  <1>1. s.in = r.in /\ s.remote = r.remote
    BY DEF Core, Typed, Fields
  <1>2. Typed(s)
    BY DEF Core, Typed, Fields
  <1>3. StatusInv(s) /\ LineInv(s) /\ PanicInv(s) /\ SecureInv(s) /\ IdInv(s)
    BY DEF Core, Typed, Fields, StatusInv, LineInv, PanicInv, SecureInv, IdInv, Past
  <1>4. RefusalInv(s) /\ BodyInv(s)
    BY DEF Core, Typed, Fields, RefusalInv, BodyInv, Past, Unread
  <1>5. AddrInv(r)
    BY DEF Core
  <1>6. AddrInv(s)
    BY <1>1, <1>5, AddrKept, Zenon
  <1>7. QED
    BY <1>2, <1>3, <1>4, <1>6 DEF Core

-----------------------------------------------------------------------------
(***************************************************************************)
(* A step of request i in the pipeline.  Quiet are the steps that have     *)
(* nothing to do with the Logger's buffers.                                *)
(***************************************************************************)
Moves(i) ==
    /\ DOMAIN req' = Request
    /\ \A j \in Request \ {i} : req'[j] = req[j]
    /\ Core(i, req'[i]) /\ req'[i].in = req[i].in

Quiet(i) ==
    /\ Moves(i) /\ UNCHANGED <<free, owner>>
    /\ req'[i].bufs = req[i].bufs /\ req'[i].line = req[i].line
    /\ Past(req'[i], 5) <=> Past(req[i], 5)
    /\ req[i].at = 0 => req'[i].way = "over"

LEMMA UnderWay ==
    ASSUME PipeInv, RunInv, NEW i \in Request, req[i].way # "idle"
    PROVE  /\ ReqInv(i, req[i]) /\ Core(i, req[i]) /\ Typed(req[i]) /\ Sendable(req[i].in)
           /\ req[i].way = "down" /\ req[i].at < 12 => req[i].call.pc \notin Calling
  <1>1. Idle.way = "idle"
    BY DEF Idle, Arrived
  <1>2. ReqInv(i, req[i])
    BY <1>1 DEF PipeInv
  <1>3. Core(i, req[i]) /\ i \in DOMAIN load /\ req[i].in = load[i]
    BY <1>2 DEF ReqInv
  <1>4. Sendable(req[i].in)
    BY <1>3, MiddlewareAssumption DEF RunInv
  <1>5. Typed(req[i])
    BY <1>3 DEF Core
  <1>6. QED
    BY <1>2, <1>3, <1>4, <1>5 DEF Typed

LEMMA Entering ==
    ASSUME PipeInv, RunInv, NEW i \in Request, NEW name, Enters(i, name)
    PROVE  /\ req[i].way = "down" /\ req[i].at \in 1 .. 11 /\ Chain[req[i].at] = name
           /\ Core(i, req[i]) /\ Sendable(req[i].in) /\ req[i].call.pc \notin Calling
  <1>1. req[i].way = "down" /\ req[i].at <= Len(Chain) /\ Chain[req[i].at] = name
    BY DEF Enters
  <1>2. Core(i, req[i]) /\ Sendable(req[i].in) /\ Typed(req[i])
    BY <1>1, UnderWay
  <1>3. req[i].at \in 1 .. 11
    BY <1>1, <1>2, ChainPlaces DEF Typed
  <1>4. QED
    BY <1>1, <1>2, <1>3 DEF Typed

LEMMA Returning ==
    ASSUME PipeInv, RunInv, NEW i \in Request, NEW name, Returns(i, name)
    PROVE  /\ req[i].way \in {"up", "panic"} /\ req[i].at \in {5, 6, 10} /\ Chain[req[i].at] = name
           /\ Core(i, req[i]) /\ Sendable(req[i].in)
  <1>1. req[i].way \in {"up", "panic"} /\ req[i].at > 0 /\ Chain[req[i].at] = name
    BY DEF Returns
  <1>2. Core(i, req[i]) /\ Sendable(req[i].in) /\ Typed(req[i])
    BY <1>1, UnderWay
  <1>3. req[i].at \in {5, 6, 10}
    BY <1>1, <1>2 DEF Typed
  <1>4. QED
    BY <1>1, <1>2, <1>3

(* A step that leaves the buffers alone, from what it makes of its request. *)
LEMMA QuietStep ==
    ASSUME PipeInv, NEW i \in Request, NEW s, Becomes(i, s), UNCHANGED <<free, owner>>,
           Core(i, s), s.in = req[i].in, s.bufs = req[i].bufs, s.line = req[i].line,
           Past(s, 5) <=> Past(req[i], 5), req[i].at = 0 => s.way = "over"
    PROVE  Quiet(i)
  <1>1. req'[i] = s /\ DOMAIN req' = Request /\ \A j \in Request \ {i} : req'[j] = req[j]
    BY DEF Becomes, PipeInv
  <1>2. QED
    BY <1>1 DEF Quiet, Moves

(* A request that only goes on. *)
LEMMA QuietDown ==
    ASSUME PipeInv, NEW i \in Request, NEW r, Becomes(i, Down(r)), UNCHANGED <<free, owner>>,
           req[i].way = "down", Typed(req[i]), r.way = "down", r.at = req[i].at, req[i].at \in 1 .. 11,
           req[i].at # 5, DOMAIN r = Fields,
           Core(i, Down(r)), r.in = req[i].in, r.bufs = req[i].bufs, r.line = req[i].line
    PROVE  Quiet(i)
  <1> DEFINE s == Down(r)
  <1>1. /\ s.in = req[i].in /\ s.bufs = req[i].bufs /\ s.line = req[i].line
        /\ s.way = "down" /\ s.at = req[i].at + 1
    BY DEF Down, Fields
  <1>2. (Past(s, 5) <=> Past(req[i], 5)) /\ req[i].at # 0
    BY <1>1 DEF Past
  <1> HIDE DEF s
  <1>3. Becomes(i, s) /\ Core(i, s)
    BY DEF s
  <1>4. QED
    BY <1>1, <1>2, <1>3, QuietStep

LEMMA QuietRefuse ==
    ASSUME PipeInv, NEW i \in Request, NEW r, NEW status, Becomes(i, Refuse(r, status)),
           UNCHANGED <<free, owner>>,
           req[i].way = "down", req[i].at \in 7 .. 12, DOMAIN r = Fields,
           Core(i, Refuse(r, status)), r.in = req[i].in, r.bufs = req[i].bufs, r.line = req[i].line
    PROVE  Quiet(i)
  <1> DEFINE s == Refuse(r, status)
  <1>1. s.in = req[i].in /\ s.bufs = req[i].bufs /\ s.line = req[i].line /\ s.way = "up"
    BY DEF Refuse, Up, WriteHeader, Fields
  <1>2. (Past(s, 5) <=> Past(req[i], 5)) /\ req[i].at # 0
    BY <1>1 DEF Past
  <1> HIDE DEF s
  <1>3. Becomes(i, s) /\ Core(i, s)
    BY DEF s
  <1>4. QED
    BY <1>1, <1>2, <1>3, QuietStep

-----------------------------------------------------------------------------
LEMMA RealIPEnterMoves ==
    ASSUME PipeInv, RunInv, NEW i \in Request, RealIPEnter(i)
    PROVE  Quiet(i)
  <1> DEFINE r == req[i]
             ip == RealIPFrom(r.in.peer, r.in.hdr)
             t == [r EXCEPT !.ip = ip, !.remote = IF ip = NoAddr THEN @ ELSE ip]
  <1>1. Enters(i, "RealIP") /\ Becomes(i, Down(t)) /\ UNCHANGED <<free, owner>>
    BY DEF RealIPEnter
  <1>2. r.way = "down" /\ r.at = 1 /\ Core(i, r) /\ Sendable(r.in)
    BY <1>1, Entering, ChainPlaces
  <1>3. Core(i, Down(t))
    BY <1>2, RealIPCore
  <1>4. /\ Typed(r) /\ DOMAIN t = Fields /\ t.way = "down" /\ t.at = r.at
        /\ t.in = r.in /\ t.bufs = r.bufs /\ t.line = r.line
    BY <1>2 DEF Core, Typed, Fields
  <1> HIDE DEF t
  <1>5. QED
    BY <1>1, <1>2, <1>3, <1>4, QuietDown

LEMMA RequestIDMoves ==
    ASSUME PipeInv, RunInv, NEW i \in Request, RequestID(i)
    PROVE  Quiet(i)
  <1> DEFINE r == req[i]
  <1>1. Enters(i, "RequestID") /\ UNCHANGED <<free, owner>>
    BY DEF RequestID
  <1>2. r.way = "down" /\ r.at = 2 /\ Core(i, r) /\ Sendable(r.in)
    <2>1. r.way = "down" /\ r.at \in 1 .. 11 /\ Chain[r.at] = "RequestID" /\ Core(i, r) /\ Sendable(r.in)
      BY <1>1, Entering
    <2>2. r.at = 2
      BY <2>1, ChainPlaces, SMTT(30)
    <2>3. QED
      BY <2>1, <2>2
  <1>3. PICK t : /\ Becomes(i, Down(t))
                 /\ \E id, hdrId : LET named == [r EXCEPT !.id = id, !.hdrId = hdrId] IN
                      /\ id # "bad" /\ (r.in.id = "bad" => hdrId # "bad")
                      /\ \/ t = named
                         \/ t = [named EXCEPT !.head = [@ EXCEPT !.id = id]]
    <2>1. i # "bad"
      BY MiddlewareAssumption
    <2>2. CASE /\ r.in.id = "good"
               /\ Becomes(i, Down([r EXCEPT !.id = "good", !.head.id = "good"]))
      <3>1. [r EXCEPT !.id = "good", !.head.id = "good"]
              = [[r EXCEPT !.id = "good", !.hdrId = r.hdrId] EXCEPT !.head = [@ EXCEPT !.id = "good"]]
        BY <1>2 DEF Core, Typed, Fields
      <3>2. QED
        BY <2>2, <3>1
    <2>3. CASE /\ r.in.id # "good"
               /\ Becomes(i, Down([r EXCEPT !.id = i, !.head.id = i,
                                     !.hdrId = IF r.in.id = "bad" THEN i ELSE @]))
      <3>1. [r EXCEPT !.id = i, !.head.id = i, !.hdrId = IF r.in.id = "bad" THEN i ELSE @]
              = [[r EXCEPT !.id = i, !.hdrId = IF r.in.id = "bad" THEN i ELSE r.hdrId]
                   EXCEPT !.head = [@ EXCEPT !.id = i]]
        BY <1>2 DEF Core, Typed, Fields
      <3>2. QED
        BY <2>1, <2>3, <3>1
    <2>4. CASE r.in.id # "good" /\ Becomes(i, Down([r EXCEPT !.hdrId = DropsRejected(r)]))
      <3>1. [r EXCEPT !.hdrId = DropsRejected(r)] = [r EXCEPT !.id = r.id, !.hdrId = DropsRejected(r)]
        BY <1>2 DEF Core, Typed, Fields
      <3>2. r.in.id = "bad" => DropsRejected(r) # "bad"
        BY DEF DropsRejected
      <3>3. r.id # "bad"
        BY <1>2 DEF Core, IdInv
      <3>4. QED
        BY <2>4, <3>1, <3>2, <3>3
    <2>5. QED
      BY <2>2, <2>3, <2>4 DEF RequestID
  <1>4. PICK id, hdrId : LET named == [r EXCEPT !.id = id, !.hdrId = hdrId] IN
          /\ id # "bad" /\ (r.in.id = "bad" => hdrId # "bad")
          /\ \/ t = named
             \/ t = [named EXCEPT !.head = [@ EXCEPT !.id = id]]
    BY <1>3
  <1> DEFINE named == [r EXCEPT !.id = id, !.hdrId = hdrId]
             h == [named.head EXCEPT !.id = id]
  <1>5. Core(i, named)
    BY <1>2, <1>4, NamedCore
  <1>6. /\ DOMAIN named = Fields /\ named.way = "down" /\ named.at = r.at /\ named.in = r.in
        /\ named.bufs = r.bufs /\ named.line = r.line /\ named.head = r.head /\ named.hdrId = hdrId
        /\ ~Past(named, 4)
    BY <1>2 DEF Core, Typed, Fields, Past
  <1> HIDE DEF named
  <1>7. DOMAIN h = HeadFields /\ h.id = id
    BY <1>5 DEF Core, Typed, HeadFields
  <1> HIDE DEF h
  <1>8. Core(i, [named EXCEPT !.head = h])
    BY <1>4, <1>5, <1>6, <1>7, HeadCore
  <1>9. /\ Core(i, t) /\ DOMAIN t = Fields /\ t.way = "down" /\ t.at = r.at /\ t.in = r.in
        /\ t.bufs = r.bufs /\ t.line = r.line /\ t.hdrId = hdrId
    <2>1. CASE t = named
      BY <1>5, <1>6, <2>1
    <2>2. CASE t = [named EXCEPT !.head = h]
      BY <1>6, <1>8, <2>2 DEF Fields
    <2>3. QED
      BY <1>4, <2>1, <2>2 DEF named, h
  <1>10. Core(i, Down(t))
    <2>1. /\ Core(i, t) /\ t.way = "down" /\ t.at \in 1 .. 11 /\ t.at \notin {4, 5, 7, 9}
          /\ t.at = 2 /\ t.in.id = "bad" => t.hdrId # "bad"
      BY <1>2, <1>4, <1>9
    <2>2. QED
      BY <2>1, DownCore
  <1>11. Typed(r)
    BY <1>2 DEF Core
  <1>12. QED
    BY <1>1, <1>2, <1>3, <1>9, <1>10, <1>11, QuietDown

LEMMA TraceMoves ==
    ASSUME PipeInv, RunInv, NEW i \in Request, Trace(i)
    PROVE  Quiet(i)
  <1> DEFINE r == req[i]
             trace == IF r.in.tp = "valid" THEN "inbound" ELSE i
             flags == IF r.in.tp = "valid" THEN "inbound" ELSE "01"
             traced == [r EXCEPT !.trace = trace, !.span = "server", !.flags = flags]
  <1>1. Enters(i, "Trace") /\ UNCHANGED <<free, owner>>
    BY DEF Trace
  <1>2. r.way = "down" /\ r.at = 3 /\ Core(i, r) /\ Typed(r)
    BY <1>1, Entering, ChainPlaces DEF Core
  <1>3. PICK t : t \in {traced, r} /\ Becomes(i, Down(t))
    BY DEF Trace
  <1>4. Core(i, traced)
    BY <1>2, TracedCore
  <1>5. /\ Core(i, t) /\ DOMAIN t = Fields /\ t.way = "down" /\ t.at = r.at
        /\ t.in = r.in /\ t.bufs = r.bufs /\ t.line = r.line
    <2>1. CASE t = traced
      BY <1>2, <1>4, <2>1 DEF Typed, Fields
    <2>2. CASE t = r
      BY <1>2, <2>2 DEF Typed
    <2>3. QED
      BY <1>3, <2>1, <2>2
  <1>6. Core(i, Down(t))
    <2>1. t.at \in 1 .. 11 /\ t.at \notin {2, 4, 5, 7, 9}
      BY <1>2, <1>5
    <2>2. QED
      BY <1>5, <2>1, DownCore
  <1>7. QED
    BY <1>1, <1>2, <1>3, <1>5, <1>6, QuietDown

LEMMA SecureHeadersMoves ==
    ASSUME PipeInv, RunInv, NEW i \in Request, SecureHeaders(i)
    PROVE  Quiet(i)
  <1> DEFINE r == req[i]
             h == [r.head EXCEPT !.secure = TRUE]
             t == [r EXCEPT !.head = h]
  <1>1. Enters(i, "SecureHeaders") /\ UNCHANGED <<free, owner>>
    BY DEF SecureHeaders
  <1>2. r.way = "down" /\ r.at = 4 /\ Core(i, r) /\ Typed(r)
    BY <1>1, Entering, ChainPlaces DEF Core
  <1>3. [r EXCEPT !.head.secure = TRUE] = t
    BY <1>2 DEF Typed, Fields
  <1>4. Becomes(i, Down(t))
    BY <1>3 DEF SecureHeaders
  <1>5. DOMAIN h = HeadFields /\ h.id # "bad" /\ h.secure = TRUE
    BY <1>2 DEF Core, Typed, HeadFields, IdInv
  <1>6. Core(i, t)
    BY <1>2, <1>5, HeadCore
  <1>7. /\ DOMAIN t = Fields /\ t.way = "down" /\ t.at = r.at /\ t.head.secure = TRUE
        /\ t.in = r.in /\ t.bufs = r.bufs /\ t.line = r.line
    BY <1>2, <1>5 DEF Typed, Fields
  <1> HIDE DEF t
  <1>8. Core(i, Down(t))
    <2>1. t.at \in 1 .. 11 /\ t.at \notin {2, 5, 7, 9}
      BY <1>2, <1>7
    <2>2. QED
      BY <1>6, <1>7, <2>1, DownCore
  <1>9. QED
    BY <1>1, <1>2, <1>4, <1>7, <1>8, QuietDown

LEMMA RecoverEnterMoves ==
    ASSUME PipeInv, RunInv, NEW i \in Request, RecoverEnter(i)
    PROVE  Quiet(i)
  <1> DEFINE r == req[i]
  <1>1. Enters(i, "Recover") /\ UNCHANGED <<free, owner>> /\ Becomes(i, Down(r))
    BY DEF RecoverEnter
  <1>2. r.way = "down" /\ r.at = 6 /\ Core(i, r)
    BY <1>1, Entering, ChainPlaces
  <1>3. Typed(r) /\ DOMAIN r = Fields
    BY <1>2 DEF Core, Typed
  <1>4. Core(i, Down(r))
    BY <1>2, DownOn
  <1>5. QED
    BY <1>1, <1>2, <1>3, <1>4, QuietDown

LEMMA RecoverLeaveMoves ==
    ASSUME PipeInv, RunInv, NEW i \in Request, RecoverLeave(i)
    PROVE  Quiet(i)
  <1> DEFINE r == req[i]
  <1>1. Returns(i, "Recover") /\ UNCHANGED <<free, owner>>
    BY DEF RecoverLeave
  <1>2. r.way \in {"up", "panic"} /\ r.at = 6 /\ Core(i, r)
    BY <1>1, Returning, ChainPlaces
  <1>3. DOMAIN r = Fields /\ Outer(6) = 5
    BY <1>2, OuterOf DEF Core, Typed
  <1>4. PICK s : /\ Becomes(i, s)
                 /\ \/ (r.way = "up" \/ (r.in.does # "abort" /\ r.sent)) /\ s = Up(r)
                    \/ r.way = "panic" /\ r.in.does = "abort" /\ s = Panics(r)
                    \/ r.way = "panic" /\ r.in.does # "abort" /\ ~r.sent /\ s = Refuse(r, 500)
    BY DEF RecoverLeave
  <1>5. Core(i, s) /\ s.in = r.in /\ s.bufs = r.bufs /\ s.line = r.line /\ s.way # "down"
    <2>1. CASE (r.way = "up" \/ (r.in.does # "abort" /\ r.sent)) /\ s = Up(r)
      <3>1. /\ Same(r, s) /\ s.at = Outer(r.at) /\ s.line = r.line /\ s.wire = r.wire
            /\ s.out = r.out /\ s.sw = r.sw /\ s.cw = r.cw /\ s.sent = r.sent
            /\ s.bufs = r.bufs /\ s.way = "up"
        BY <1>3, <2>1 DEF Fields, Up, Same
      <3>2. Core(i, s)
        BY <1>2, <2>1, <3>1, ClimbCore
      <3>3. QED
        BY <3>1, <3>2 DEF Same
    <2>2. CASE r.way = "panic" /\ r.in.does = "abort" /\ s = Panics(r)
      <3>1. /\ Same(r, s) /\ s.at = Outer(r.at) /\ s.line = r.line /\ s.wire = r.wire
            /\ s.out = r.out /\ s.sw = r.sw /\ s.cw = r.cw /\ s.sent = r.sent
            /\ s.bufs = r.bufs /\ s.way = r.way
        BY <1>3, <2>2 DEF Fields, Panics, Same
      <3>2. Core(i, s)
        BY <1>2, <2>2, <3>1, ClimbCore
      <3>3. QED
        BY <2>2, <3>1, <3>2 DEF Same
    <2>3. CASE r.way = "panic" /\ r.in.does # "abort" /\ ~r.sent /\ s = Refuse(r, 500)
      <3>1. s.in = r.in /\ s.bufs = r.bufs /\ s.line = r.line /\ s.way = "up"
        BY <1>3, <2>3 DEF Fields, Refuse, Up, WriteHeader
      <3>2. Core(i, s)
        BY <1>2, <2>3, RecoverCore
      <3>3. QED
        BY <3>1, <3>2
    <2>4. QED
      BY <1>4, <2>1, <2>2, <2>3
  <1>6. Past(s, 5) <=> Past(r, 5)
    BY <1>2, <1>5 DEF Past
  <1>7. QED
    BY <1>1, <1>2, <1>4, <1>5, <1>6, QuietStep

LEMMA RateLimitMoves ==
    ASSUME PipeInv, RunInv, NEW i \in Request, RateLimit(i)
    PROVE  Quiet(i)
  <1> DEFINE r == req[i]
  <1>1. Enters(i, "RateLimit") /\ UNCHANGED <<free, owner>>
    BY DEF RateLimit
  <1>2. r.way = "down" /\ r.at = 8 /\ Core(i, r) /\ r.call.pc \notin Calling
    BY <1>1, Entering, ChainPlaces
  <1>3. Typed(r) /\ DOMAIN r = Fields
    BY <1>2 DEF Core, Typed
  <1>4. CASE Becomes(i, Down(r))
    <2>1. Core(i, Down(r))
      BY <1>2, DownOn
    <2>2. QED
      BY <1>1, <1>2, <1>3, <1>4, <2>1, QuietDown
  <1>5. CASE Becomes(i, Refuse(r, 429))
    <2>1. ~r.claimed /\ ~(Preflight(r.in) /\ r.in.origin # "none") /\ ~r.ran
      BY <1>2 DEF Core, Typed, RefusalInv, Past
    <2>2. Core(i, Refuse(r, 429))
      BY <1>2, <2>1, RefuseCore DEF Statuses
    <2>3. QED
      BY <1>1, <1>2, <1>3, <1>5, <2>2, QuietRefuse
  <1>6. QED
    BY <1>4, <1>5 DEF RateLimit

LEMMA BodyLimitMoves ==
    ASSUME PipeInv, RunInv, NEW i \in Request, BodyLimit(i)
    PROVE  Quiet(i)
  <1> DEFINE r == req[i]
             t == [r EXCEPT !.limited = TRUE]
  <1>1. Enters(i, "BodyLimit") /\ UNCHANGED <<free, owner>>
    BY DEF BodyLimit
  <1>2. r.way = "down" /\ r.at = 9 /\ Core(i, r) /\ r.call.pc \notin Calling
    BY <1>1, Entering, ChainPlaces
  <1>3. Typed(r) /\ DOMAIN r = Fields
    BY <1>2 DEF Core, Typed
  <1>4. CASE Oversize(r.in) /\ Becomes(i, Refuse(r, 413))
    <2>1. ~r.claimed /\ ~(Preflight(r.in) /\ r.in.origin # "none") /\ ~r.ran
      BY <1>2 DEF Core, Typed, RefusalInv, Past
    <2>2. Core(i, Refuse(r, 413))
      BY <1>2, <2>1, RefuseCore DEF Statuses
    <2>3. QED
      BY <1>1, <1>2, <1>3, <1>4, <2>2, QuietRefuse
  <1>5. CASE ~Oversize(r.in) /\ Becomes(i, Down(t))
    <2>1. Core(i, Down(t))
      BY <1>2, <1>5, LimitedCore
    <2>2. /\ DOMAIN t = Fields /\ t.way = "down" /\ t.at = r.at
          /\ t.in = r.in /\ t.bufs = r.bufs /\ t.line = r.line
      BY <1>2, <1>3 DEF Fields
    <2> HIDE DEF t
    <2>3. QED
      BY <1>1, <1>2, <1>3, <1>5, <2>1, <2>2, QuietDown
  <1>6. QED
    BY <1>4, <1>5 DEF BodyLimit, Oversize

LEMMA CORSMoves ==
    ASSUME PipeInv, RunInv, NEW i \in Request, CORS(i)
    PROVE  Quiet(i)
  <1> DEFINE r == req[i]
  <1>1. Enters(i, "CORS") /\ UNCHANGED <<free, owner>>
    BY DEF CORS
  <1>2. r.way = "down" /\ r.at = 7 /\ Core(i, r) /\ r.call.pc \notin Calling
    BY <1>1, Entering, ChainPlaces
  <1>3. Typed(r) /\ DOMAIN r = Fields /\ DOMAIN r.head = HeadFields
    BY <1>2 DEF Core, Typed
  <1>4. PICK h : /\ DOMAIN h = HeadFields /\ h.id = r.head.id /\ h.secure = r.head.secure
                 /\ \/ Becomes(i, Down([r EXCEPT !.head = h])) /\ (r.in.origin = "none" \/ ~Preflight(r.in))
                    \/ Becomes(i, Refuse([r EXCEPT !.head = h], 204)) /\ r.in.origin # "none"
    <2> DEFINE v == [r.head EXCEPT !.vary = TRUE]
               w == [v EXCEPT !.origin = r.in.origin]
               varied == [r EXCEPT !.head.vary = TRUE]
               stamped == [varied EXCEPT !.head.origin = r.in.origin]
    <2>1. varied = [r EXCEPT !.head = v] /\ stamped = [r EXCEPT !.head = w]
      BY <1>3 DEF Fields
    <2>2. /\ DOMAIN v = HeadFields /\ v.id = r.head.id /\ v.secure = r.head.secure
          /\ DOMAIN w = HeadFields /\ w.id = r.head.id /\ w.secure = r.head.secure
      BY <1>3 DEF HeadFields
    <2>3. \E x \in {varied, stamped} :
            \/ Becomes(i, Down(x)) /\ (r.in.origin = "none" \/ ~Preflight(r.in))
            \/ Becomes(i, Refuse(x, 204)) /\ r.in.origin # "none"
      BY DEF CORS
    <2> HIDE DEF v, w, varied, stamped
    <2>4. \E h \in {v, w} :
            \/ Becomes(i, Down([r EXCEPT !.head = h])) /\ (r.in.origin = "none" \/ ~Preflight(r.in))
            \/ Becomes(i, Refuse([r EXCEPT !.head = h], 204)) /\ r.in.origin # "none"
      BY <2>1, <2>3, Zenon
    <2>5. QED
      BY <2>2, <2>4, Zenon
  <1> DEFINE t == [r EXCEPT !.head = h]
  <1>5. Core(i, t)
    <2>1. r.head.id # "bad" /\ (Past(r, 4) => r.head.secure = TRUE)
      BY <1>2 DEF Core, IdInv, SecureInv
    <2>2. QED
      BY <1>2, <1>4, <2>1, HeadCore
  <1>6. /\ DOMAIN t = Fields /\ t.way = "down" /\ t.at = r.at /\ t.in = r.in /\ t.bufs = r.bufs
        /\ t.line = r.line /\ t.call = r.call /\ t.claimed = r.claimed /\ t.ran = r.ran
    BY <1>2, <1>3 DEF Fields
  <1> HIDE DEF t
  <1>7. CASE Becomes(i, Down(t)) /\ (r.in.origin = "none" \/ ~Preflight(r.in))
    <2>1. t.at \in 1 .. 11 /\ t.at \notin {2, 4, 5, 9} /\ ~(Preflight(t.in) /\ t.in.origin # "none")
      BY <1>2, <1>6, <1>7
    <2>2. Core(i, Down(t))
      BY <1>5, <1>6, <2>1, DownCore
    <2>3. QED
      BY <1>1, <1>2, <1>3, <1>6, <1>7, <2>2, QuietDown
  <1>8. CASE Becomes(i, Refuse(t, 204))
    <2>1. t.at \in 7 .. 12 /\ t.call.pc \notin Calling /\ 204 \in Statuses /\ ~t.claimed /\ ~t.ran
      BY <1>2, <1>6 DEF Core, Typed, RefusalInv, Past, Statuses
    <2>2. Core(i, Refuse(t, 204))
      BY <1>5, <1>6, <2>1, RefuseCore
    <2>3. QED
      BY <1>1, <1>2, <1>6, <1>8, <2>2, QuietRefuse
  <1>9. QED
    BY <1>4, <1>7, <1>8 DEF t

LEMMA MuxMoves ==
    ASSUME PipeInv, RunInv, NEW i \in Request, Mux(i)
    PROVE  Quiet(i)
  <1> DEFINE r == req[i]
  <1>1. Enters(i, "mux") /\ UNCHANGED <<free, owner>>
    BY DEF Mux
  <1>2. r.way = "down" /\ r.at = 11 /\ Core(i, r) /\ Sendable(r.in) /\ r.call.pc \notin Calling
    BY <1>1, Entering, ChainPlaces
  <1>3. Typed(r) /\ DOMAIN r = Fields
    BY <1>2 DEF Core, Typed
  <1>4. \/ Becomes(i, Down(r))
        \/ \E status \in {404, 405, 301} : Becomes(i, Refuse(r, status))
    BY <1>2 DEF Mux, Sendable
  <1>5. CASE Becomes(i, Down(r))
    <2>1. Core(i, Down(r))
      BY <1>2, DownOn
    <2>2. QED
      BY <1>1, <1>2, <1>3, <1>5, <2>1, QuietDown
  <1>6. ASSUME NEW status \in {404, 405, 301}, Becomes(i, Refuse(r, status))
        PROVE  Quiet(i)
    <2>1. ~(Preflight(r.in) /\ r.in.origin # "none") /\ ~r.ran /\ r.at \in 7 .. 12
      BY <1>2 DEF Core, Typed, RefusalInv
    <2>2. status \in Statuses /\ status \in OwnStatuses
      BY DEF Statuses, OwnStatuses
    <2>3. Core(i, Refuse(r, status))
      BY <1>2, <2>1, <2>2, RefuseCore
    <2>4. QED
      BY <1>1, <1>2, <1>3, <1>6, <2>1, <2>3, QuietRefuse
  <1>7. QED
    BY <1>4, <1>5, <1>6

-----------------------------------------------------------------------------
(* The handler. *)
LEMMA HandlerStartsMoves ==
    ASSUME PipeInv, RunInv, NEW i \in Request, HandlerStarts(i)
    PROVE  Quiet(i)
  <1> DEFINE r == req[i]
  <1>1. r.way = "down" /\ r.at = 12 /\ ~r.ran /\ UNCHANGED <<free, owner>>
    BY ChainPlaces DEF HandlerStarts
  <1>2. Core(i, r) /\ DOMAIN r = Fields
    BY <1>1, UnderWay DEF Core, Typed
  <1>3. PICK noted, s :
          /\ Becomes(i, s)
          /\ s = [r EXCEPT !.ran = TRUE, !.prefix = 0, !.rest = 0,
                         !.got = IF r.limited THEN Smaller(Unread(r), BodyMax) ELSE Unread(r),
                         !.noted = noted,
                         !.call.pc = IF r.in.calls THEN "allow" ELSE "none"]
    BY DEF HandlerStarts
  <1>4. Core(i, s)
    BY <1>1, <1>2, <1>3, StartedCore
  <1>5. s.in = r.in /\ s.bufs = r.bufs /\ s.line = r.line /\ s.way = "down" /\ s.at = 12
    BY <1>1, <1>2, <1>3 DEF Fields
  <1>6. (Past(s, 5) <=> Past(r, 5)) /\ r.at # 0
    BY <1>1, <1>5 DEF Past
  <1>7. QED
    BY <1>1, <1>3, <1>4, <1>5, <1>6, QuietStep

LEMMA HandlerEndsMoves ==
    ASSUME PipeInv, RunInv, NEW i \in Request, HandlerEnds(i)
    PROVE  Quiet(i)
  <1> DEFINE r == req[i]
  <1>1. r.way = "down" /\ r.at = 12 /\ r.ran /\ r.call.pc \in {"none", "done"} /\ UNCHANGED <<free, owner>>
    BY ChainPlaces DEF HandlerEnds
  <1>2. Core(i, r) /\ DOMAIN r = Fields /\ Sendable(r.in) /\ r.call.pc \notin Calling
    BY <1>1, UnderWay DEF Core, Typed, Calling
  <1>3. PICK s :
          /\ Becomes(i, s)
          /\ \/ r.in.does \in {"ok", "large"} /\ s = Refuse(r, 200)
             \/ r.in.does = "silent" /\ s = Up(r)
             \/ r.in.does = "fail" /\ s = Refuse(r, 502)
             \/ r.in.does \in {"panic", "abort"} /\ s = Panics(r)
             \/ r.in.does = "hint" /\ s = Panics(WriteHeader(r, 103))
             \/ r.in.does = "late" /\ s = Panics(WriteHeader(r, 200))
    BY <1>2 DEF HandlerEnds, Sendable
  <1>4. ~(Preflight(r.in) /\ r.in.origin # "none")
    BY <1>1, <1>2 DEF Core, RefusalInv
  <1>5. Core(i, s)
    <2>1. CASE r.in.does \in {"ok", "large", "fail"} /\ (s = Refuse(r, 200) \/ s = Refuse(r, 502))
      <3>1. \A status \in {200, 502} : status \in Statuses /\ status \in OwnStatuses
        BY DEF Statuses, OwnStatuses
      <3>2. r.at \in 7 .. 12 /\ r.in.does \notin {"panic", "hint"}
        BY <1>1, <2>1
      <3>3. Core(i, Refuse(r, 200)) /\ Core(i, Refuse(r, 502))
        BY <1>1, <1>2, <1>4, <3>1, <3>2, RefuseCore
      <3>4. QED
        BY <2>1, <3>3
    <2>2. CASE r.in.does = "silent" /\ s = Up(r)
      BY <1>1, <1>2, <2>2, UnwrittenCore
    <2>3. CASE r.in.does \in {"panic", "abort"} /\ s = Panics(r)
      BY <1>1, <1>2, <2>3, UnwrittenCore
    <2>4. CASE r.in.does = "hint" /\ s = Panics(WriteHeader(r, 103))
      BY <1>1, <1>2, <2>4, UnwrittenCore
    <2>5. CASE r.in.does = "late" /\ s = Panics(WriteHeader(r, 200))
      BY <1>1, <1>2, <2>5, LateCore
    <2>6. QED
      BY <1>3, <2>1, <2>2, <2>3, <2>4, <2>5
  <1>6. s.in = r.in /\ s.bufs = r.bufs /\ s.line = r.line /\ s.way # "down"
    <2>1. \A status : LET w == WriteHeader(r, status) IN
            DOMAIN w = Fields /\ w.in = r.in /\ w.bufs = r.bufs /\ w.line = r.line
      BY <1>2 DEF WriteHeader, Fields
    <2>2. \A w : DOMAIN w = Fields =>
            /\ Up(w).in = w.in /\ Up(w).bufs = w.bufs /\ Up(w).line = w.line /\ Up(w).way = "up"
            /\ Panics(w).in = w.in /\ Panics(w).bufs = w.bufs /\ Panics(w).line = w.line /\ Panics(w).way = "panic"
      BY DEF Up, Panics, Fields
    <2>3. QED
      BY <1>2, <1>3, <2>1, <2>2 DEF Refuse
  <1>7. (Past(s, 5) <=> Past(r, 5)) /\ r.at # 0
    BY <1>1, <1>6 DEF Past
  <1>8. QED
    BY <1>1, <1>3, <1>5, <1>6, <1>7, QuietStep

LEMMA FinishesMoves ==
    ASSUME PipeInv, RunInv, NEW i \in Request, Finishes(i)
    PROVE  Quiet(i)
  <1> DEFINE r == req[i]
             s == [(IF r.way = "up" THEN WriteHeader(r, 200) ELSE r) EXCEPT !.way = "over"]
  <1>1. r.way \in {"up", "panic"} /\ r.at = 0 /\ UNCHANGED <<free, owner>> /\ Becomes(i, s)
    BY DEF Finishes
  <1> HIDE DEF s
  <1>2. Core(i, r) /\ DOMAIN r = Fields
    <2>1. Core(i, r)
      BY <1>1, UnderWay
    <2>2. QED
      BY <2>1 DEF Core, Typed
  <1> USE DEF s
  <1>3. Core(i, s)
    BY <1>1, <1>2, FinishCore
  <1>4. s.in = r.in /\ s.bufs = r.bufs /\ s.line = r.line /\ s.way = "over"
    BY <1>2 DEF WriteHeader, Fields
  <1> HIDE DEF s
  <1>5. Past(s, 5) <=> Past(r, 5)
    BY <1>1, <1>4 DEF Past
  <1>6. QED
    BY <1>1, <1>3, <1>4, <1>5, QuietStep

(* A call of Client.Do, step by step. *)
LEMMA CallSteps ==
    ASSUME NEW i, NEW r, CallInv(i, r), DOMAIN r = Fields, DOMAIN r.call = CallFields,
           r.ran, NEW c, DOMAIN c = CallFields,
           c.pc \in {"send", "record", "emit", "done"},
           c.pc \in {"send", "record"} => c.told = 0,
           c.pc = "emit" => c.told = 1 /\ c.result \in {"error", "response"},
           c.pc = "done" =>
             \/ c.told = 0 /\ c.result = "circuit open"
             \/ c.told = 1 /\ c.result = "error"
             \/ c.told = 1 /\ c.result = "response" /\ c.got = r.in.resp.len,
           c.tp \in {r.call.tp, <<>>, <<"own">>}
             \/ (c.tp = <<r.trace, "outbound", r.flags>> /\ r.trace # "none"),
           NEW s, s = [r EXCEPT !.call = c]
    PROVE  CallInv(i, s)
  <1>1. /\ s.in = r.in /\ s.trace = r.trace /\ s.span = r.span /\ s.flags = r.flags
        /\ s.ran /\ s.call = c
    BY DEF Fields
  <1>2. c.tp \in {<<>>, <<"own">>} \/ (c.tp = <<r.trace, "outbound", r.flags>> /\ r.trace # "none")
    BY DEF CallInv
  <1>3. /\ r.span \in {"none", "server"}
        /\ r.trace # "none" =>
              /\ r.trace = IF r.in.tp = "valid" THEN "inbound" ELSE i
              /\ r.flags = IF r.in.tp = "valid" THEN "inbound" ELSE "01"
    BY DEF CallInv
  <1>4. /\ ~s.ran => c = NoCall
        /\ c.pc \in {"none", "allow", "send", "record", "emit", "done"}
        /\ c.pc \in {"none", "allow", "send", "record"} => c.told = 0
        /\ c.pc = "emit" => c.told = 1 /\ c.result \in {"error", "response"}
    BY <1>1
  <1>5. c.pc = "done" => \/ c.told = 0 /\ c.result = "circuit open"
                         \/ c.told = 1 /\ c.result = "error"
                         \/ c.told = 1 /\ c.result = "response" /\ c.got = s.in.resp.len
    BY <1>1
  <1>6. /\ s.span \in {"none", "server"}
        /\ s.trace # "none" =>
              /\ s.trace = IF s.in.tp = "valid" THEN "inbound" ELSE i
              /\ s.flags = IF s.in.tp = "valid" THEN "inbound" ELSE "01"
    BY <1>1, <1>3
  <1>7. c.tp \in {<<>>, <<"own">>} \/ (c.tp = <<s.trace, "outbound", s.flags>> /\ s.trace # "none")
    BY <1>1, <1>2
  <1>8. QED
    BY <1>1, <1>4, <1>5, <1>6, <1>7, Zenon DEF CallInv

LEMMA HandlerCallsMoves ==
    ASSUME PipeInv, RunInv, NEW i \in Request, HandlerCalls(i)
    PROVE  Quiet(i)
  <1> DEFINE r == req[i]
             c == r.call
  <1>1. r.call.pc \in {"allow", "send", "record", "emit"} /\ UNCHANGED <<free, owner>>
    BY DEF HandlerCalls
  <1>2. r.way # "idle"
    <2>1. Idle.call.pc = "none" /\ Idle.way = "idle"
      BY DEF Idle, Arrived, NoCall
    <2>2. req[i] = Idle \/ Typed(req[i])
      BY DEF PipeInv, ReqInv, Core
    <2>3. QED
      BY <1>1, <2>1, <2>2 DEF Typed
  <1>3. Core(i, r) /\ DOMAIN r = Fields /\ DOMAIN r.call = CallFields /\ CallInv(i, r) /\ Sendable(r.in)
    BY <1>2, UnderWay DEF Core, Typed
  <1>4. r.way = "down" /\ r.at = 12
    BY <1>1, <1>3 DEF Core, Typed, Calling
  <1>5. r.ran
    <2>1. NoCall.pc = "none"
      BY DEF NoCall
    <2>2. QED
      BY <1>1, <1>3, <2>1 DEF CallInv
  <1>6. PICK d : Becomes(i, [r EXCEPT !.call = d]) /\
          \/ c.pc = "allow" /\ \E ok \in BOOLEAN : d = Allowed(c, ok)
          \/ c.pc = "send" /\ \E own, minted \in BOOLEAN :
               d = Sent(c, Traceparent(own, r.trace, r.span, r.flags, minted))
          \/ c.pc = "record" /\ \E err \in BOOLEAN : d = Recorded(c, err)
          \/ c.pc = "emit" /\ d = Emitted(c, r.in.resp)
    BY DEF HandlerCalls
  <1> DEFINE s == [r EXCEPT !.call = d]
  <1>7. DOMAIN d = CallFields /\ CallInv(i, s)
    <2>1. CASE c.pc = "allow" /\ \E ok \in BOOLEAN : d = Allowed(c, ok)
      <3>1. PICK ok \in BOOLEAN : d = Allowed(c, ok)
        BY <2>1
      <3>2. c.told = 0
        BY <1>3, <2>1 DEF CallInv
      <3>3. /\ DOMAIN d = CallFields /\ d.told = 0 /\ d.tp = c.tp
            /\ d.pc = "send" \/ (d.pc = "done" /\ d.result = "circuit open")
        BY <1>3, <3>1, <3>2 DEF Allowed, CallFields
      <3>4. QED
        BY <1>3, <1>5, <3>3, CallSteps
    <2>2. CASE c.pc = "send" /\ \E own, minted \in BOOLEAN :
               d = Sent(c, Traceparent(own, r.trace, r.span, r.flags, minted))
      <3>1. PICK own \in BOOLEAN, minted \in BOOLEAN :
               d = Sent(c, Traceparent(own, r.trace, r.span, r.flags, minted))
        BY <2>2
      <3>2. c.told = 0
        BY <1>3, <2>2 DEF CallInv
      <3>3. /\ DOMAIN d = CallFields /\ d.told = 0 /\ d.pc = "record"
            /\ d.tp = Traceparent(own, r.trace, r.span, r.flags, minted)
        BY <1>3, <3>1, <3>2 DEF Sent, CallFields
      <3>4. \/ d.tp \in {<<>>, <<"own">>}
            \/ d.tp = <<r.trace, "outbound", r.flags>> /\ r.trace # "none"
        BY <3>3 DEF Traceparent, FreshSpan
      <3>5. QED
        BY <1>3, <1>5, <3>3, <3>4, CallSteps
    <2>3. CASE c.pc = "record" /\ \E err \in BOOLEAN : d = Recorded(c, err)
      <3>1. PICK err \in BOOLEAN : d = Recorded(c, err)
        BY <2>3
      <3>2. c.told = 0
        BY <1>3, <2>3 DEF CallInv
      <3>3. /\ DOMAIN d = CallFields /\ d.told = 1 /\ d.pc = "emit" /\ d.tp = c.tp
            /\ d.result \in {"error", "response"}
        BY <1>3, <3>1, <3>2 DEF Recorded, Tell, CallFields
      <3>4. QED
        BY <1>3, <1>5, <3>3, CallSteps
    <2>4. CASE c.pc = "emit" /\ d = Emitted(c, r.in.resp)
      <3>1. c.told = 1 /\ c.result \in {"error", "response"}
        BY <1>3, <2>4 DEF CallInv
      <3>2. /\ DOMAIN d = CallFields /\ d.told = 1 /\ d.pc = "done" /\ d.tp = c.tp
            /\ d.result = c.result
            /\ d.got = IF c.result = "error" THEN 0 ELSE SplicedBack(r.in.resp)
        BY <1>3, <2>4, <3>1 DEF Emitted, CallFields
      <3>3. SplicedBack(r.in.resp) = r.in.resp.len
        <4>1. r.in.resp.len \in Nat /\ r.in.resp.declared \in Int
          BY <1>3 DEF Sendable
        <4>2. Consumed(r.in.resp) \in Int
          BY <4>1 DEF Consumed, Smaller
        <4>3. QED
          BY <4>1, <4>2 DEF SplicedBack
      <3>4. \/ d.told = 1 /\ d.result = "error"
            \/ d.told = 1 /\ d.result = "response" /\ d.got = r.in.resp.len
        BY <3>1, <3>2, <3>3
      <3>5. QED
        BY <1>3, <1>5, <3>2, <3>4, CallSteps
    <2>5. QED
      BY <1>6, <2>1, <2>2, <2>3, <2>4
  <1>8. Core(i, s)
    BY <1>3, <1>4, <1>7, CallCore
  <1>9. s.in = r.in /\ s.bufs = r.bufs /\ s.line = r.line /\ s.way = "down" /\ s.at = 12
    BY <1>3, <1>4 DEF Fields
  <1>10. (Past(s, 5) <=> Past(r, 5)) /\ r.at # 0
    BY <1>4, <1>9 DEF Past
  <1>11. Becomes(i, s)
    BY <1>6
  <1> HIDE DEF s
  <1>12. QED
    BY <1>1, <1>8, <1>9, <1>10, <1>11, QuietStep

-----------------------------------------------------------------------------
(* The idempotency gate: who gets in, who is answered, and what is kept. *)
LEMMA AnswerMoves ==
    ASSUME PipeInv, RunInv, Stored, NEW i \in Request, NEW r, Core(i, r), r.way = "down", r.at = 10,
           store # NoRecord
    PROVE  LET s == Answer(r) IN
           Core(i, s) /\ s.in = r.in /\ s.bufs = r.bufs /\ s.line = r.line /\ s.way = "up"
  <1> DEFINE h == replayed(r.head, store.head)
             t == [r EXCEPT !.head = h]
  <1>1. /\ DOMAIN r = Fields /\ DOMAIN r.head = HeadFields /\ r.at \in 7 .. 12
        /\ ~r.claimed /\ ~r.ran /\ ~(Preflight(r.in) /\ r.in.origin # "none") /\ r.call.pc \notin Calling
    BY DEF Core, Typed, RefusalInv, Past
  <1>2. \A status : LET s == Refuse(r, status) IN
          s.in = r.in /\ s.bufs = r.bufs /\ s.line = r.line /\ s.way = "up"
    BY <1>1 DEF Refuse, Up, WriteHeader, Fields
  <1>3. CASE store.fp # fingerprint(r.in)
    <2>1. Answer(r) = Refuse(r, 422) /\ 422 \in Statuses
      BY <1>3 DEF Answer, Statuses
    <2>2. Core(i, Refuse(r, 422))
      BY <1>1, <2>1, RefuseCore
    <2>3. QED
      BY <1>2, <2>1, <2>2
  <1>4. CASE store.fp = fingerprint(r.in) /\ store.inFlight
    <2>1. Answer(r) = Refuse(r, 409) /\ 409 \in Statuses
      BY <1>4 DEF Answer, Statuses
    <2>2. Core(i, Refuse(r, 409))
      BY <1>1, <2>1, RefuseCore
    <2>3. QED
      BY <1>2, <2>1, <2>2
  <1>5. CASE store.fp = fingerprint(r.in) /\ ~store.inFlight
    <2>1. Answer(r) = Refuse(t, store.status)
      BY <1>5 DEF Answer
    <2>2. store.status \in Statuses /\ store.head.id # "bad"
      BY <1>5 DEF Stored, OwnStatuses, Statuses
    <2>3. DOMAIN h = HeadFields /\ h.id # "bad" /\ (r.head.secure = TRUE => h.secure = TRUE)
      <3>1. r.head.id # "bad"
        BY DEF Core, IdInv
      <3>2. QED
        BY <1>1, <2>2, <3>1 DEF replayed, HeadFields
    <2>4. Core(i, t)
      <3>1. Past(r, 4) => h.secure = TRUE
        BY <2>3 DEF Core, SecureInv
      <3>2. QED
        BY <2>3, <3>1, HeadCore
    <2>5. /\ t.in = r.in /\ t.bufs = r.bufs /\ t.line = r.line /\ t.way = "down" /\ t.at = r.at
          /\ t.claimed = r.claimed /\ t.ran = r.ran /\ t.call = r.call /\ DOMAIN t = Fields
      BY <1>1 DEF Fields
    <2> HIDE DEF t
    <2>6. Core(i, Refuse(t, store.status))
      BY <1>1, <2>2, <2>4, <2>5, RefuseCore
    <2>7. LET s == Refuse(t, store.status) IN
          s.in = t.in /\ s.bufs = t.bufs /\ s.line = t.line /\ s.way = "up"
      BY <2>5 DEF Refuse, Up, WriteHeader, Fields
    <2>8. QED
      BY <2>1, <2>5, <2>6, <2>7
  <1>6. QED
    BY <1>3, <1>4, <1>5

LEMMA IdempotencyEnterMoves ==
    ASSUME PipeInv, RunInv, Stored, NEW i \in Request, IdempotencyEnter(i)
    PROVE  Quiet(i) /\ Stored'
  <1> DEFINE r == req[i]
             whole == [r EXCEPT !.prefix = Unread(r), !.rest = 0]
             claimed == [whole EXCEPT !.claimed = TRUE]
  <1>1. Enters(i, "Idempotency") /\ UNCHANGED <<free, owner>>
    BY DEF IdempotencyEnter
  <1>2. r.way = "down" /\ r.at = 10 /\ Core(i, r) /\ r.call.pc \notin Calling
    BY <1>1, Entering, ChainPlaces
  <1>3. /\ Typed(r) /\ DOMAIN r = Fields /\ ~r.claimed /\ ~r.ran /\ r.at \in 7 .. 12
        /\ ~(Preflight(r.in) /\ r.in.origin # "none")
    BY <1>2 DEF Core, Typed, RefusalInv, Past
  <1>4. Core(i, whole)
    BY <1>2, WholeCore
  <1>5. /\ DOMAIN whole = Fields /\ whole.way = "down" /\ whole.at = 10 /\ whole.in = r.in
        /\ whole.bufs = r.bufs /\ whole.line = r.line /\ whole.call = r.call
        /\ whole.claimed = r.claimed /\ whole.ran = r.ran
    BY <1>2, <1>3 DEF Fields
  <1>6. \/ Becomes(i, Down(r)) /\ UNCHANGED store
        \/ Becomes(i, Refuse(r, 413)) /\ UNCHANGED store
        \/ Becomes(i, Refuse(whole, 503)) /\ UNCHANGED store
        \/ /\ Becomes(i, Down(claimed))
           /\ store' = [NoRecord EXCEPT !.fp = fingerprint(r.in), !.inFlight = TRUE]
        \/ store # NoRecord /\ Becomes(i, Answer(whole)) /\ UNCHANGED store
    BY DEF IdempotencyEnter
  <1> HIDE DEF whole
  <1>7. UNCHANGED store => Stored'
    BY DEF Stored
  <1>8. CASE Becomes(i, Down(r)) /\ UNCHANGED store
    <2>1. Core(i, Down(r))
      BY <1>2, DownOn
    <2>2. Quiet(i)
      BY <1>1, <1>2, <1>3, <1>8, <2>1, QuietDown
    <2>3. QED
      BY <1>7, <1>8, <2>2
  <1>9. CASE Becomes(i, Refuse(r, 413)) /\ UNCHANGED store
    <2>1. Core(i, Refuse(r, 413))
      BY <1>2, <1>3, RefuseCore DEF Statuses
    <2>2. Quiet(i)
      BY <1>1, <1>2, <1>3, <1>9, <2>1, QuietRefuse
    <2>3. QED
      BY <1>7, <1>9, <2>2
  <1>10. CASE Becomes(i, Refuse(whole, 503)) /\ UNCHANGED store
    <2>1. whole.at \in 7 .. 12 /\ whole.call.pc \notin Calling /\ ~whole.claimed /\ ~whole.ran
      BY <1>2, <1>3, <1>5
    <2>2. Core(i, Refuse(whole, 503))
      BY <1>3, <1>4, <1>5, <2>1, RefuseCore DEF Statuses
    <2>3. Quiet(i)
      BY <1>1, <1>2, <1>3, <1>5, <1>10, <2>2, QuietRefuse
    <2>4. QED
      BY <1>7, <1>10, <2>3
  <1>11. CASE /\ Becomes(i, Down(claimed))
              /\ store' = [NoRecord EXCEPT !.fp = fingerprint(r.in), !.inFlight = TRUE]
    <2>1. Core(i, Down(claimed))
      BY <1>4, <1>5, ClaimedCore
    <2>2. /\ DOMAIN claimed = Fields /\ claimed.way = "down" /\ claimed.at = r.at /\ claimed.in = r.in
          /\ claimed.bufs = r.bufs /\ claimed.line = r.line
      BY <1>2, <1>5 DEF Fields
    <2> HIDE DEF claimed
    <2>3. Quiet(i)
      BY <1>1, <1>2, <1>3, <1>11, <2>1, <2>2, QuietDown
    <2>4. store'.inFlight = TRUE
      BY <1>11 DEF NoRecord
    <2>5. QED
      BY <2>3, <2>4 DEF Stored
  <1>12. CASE store # NoRecord /\ Becomes(i, Answer(whole)) /\ UNCHANGED store
    <2> DEFINE s == Answer(whole)
    <2>1. /\ Core(i, s) /\ s.in = whole.in /\ s.bufs = whole.bufs /\ s.line = whole.line
          /\ s.way = "up"
      BY <1>4, <1>5, <1>12, AnswerMoves
    <2>2. Becomes(i, s)
      BY <1>12
    <2> HIDE DEF s
    <2>3. (Past(s, 5) <=> Past(r, 5)) /\ r.at # 0
      BY <1>2, <2>1 DEF Past
    <2>4. Quiet(i)
      BY <1>1, <1>5, <2>1, <2>2, <2>3, QuietStep
    <2>5. QED
      BY <1>7, <1>12, <2>4
  <1>13. QED
    BY <1>6, <1>8, <1>9, <1>10, <1>11, <1>12 DEF claimed

LEMMA IdempotencyLeaveMoves ==
    ASSUME PipeInv, RunInv, Stored, NEW i \in Request, IdempotencyLeave(i)
    PROVE  Quiet(i) /\ Stored'
  <1> DEFINE r == req[i]
             status == IF r.cw = 0 THEN 200 ELSE r.cw
  <1>1. Returns(i, "Idempotency") /\ UNCHANGED <<free, owner>>
    BY DEF IdempotencyLeave
  <1>2. r.way \in {"up", "panic"} /\ r.at = 10 /\ Core(i, r)
    BY <1>1, Returning, ChainPlaces
  <1>3. DOMAIN r = Fields
    BY <1>2 DEF Core, Typed
  <1>4. PICK s : Becomes(i, s) /\ s = IF r.way = "up" THEN Up(r) ELSE Panics(r)
    BY DEF IdempotencyLeave
  <1>5. /\ Same(r, s) /\ s.at = Outer(r.at) /\ s.line = r.line /\ s.wire = r.wire
        /\ s.out = r.out /\ s.sw = r.sw /\ s.cw = r.cw /\ s.sent = r.sent
        /\ s.bufs = r.bufs /\ s.way = r.way
    <2>1. CASE r.way = "up"
      <3>1. s = Up(r)
        BY <1>4, <2>1
      <3>2. QED
        BY <1>3, <2>1, <3>1 DEF Fields, Up, Same
    <2>2. CASE r.way = "panic"
      <3>1. s = Panics(r)
        BY <1>4, <2>2
      <3>2. QED
        BY <1>3, <2>2, <3>1 DEF Fields, Panics, Same
    <2>3. QED
      BY <1>2, <2>1, <2>2
  <1>6. Core(i, s)
    <2>1. r.at \in {6, 10} /\ (r.way = "panic" /\ r.at = 6 => r.in.does = "abort")
      BY <1>2
    <2>2. QED
      BY <1>2, <1>5, <2>1, ClimbCore
  <1>7. Quiet(i)
    <2>1. (Past(s, 5) <=> Past(r, 5)) /\ r.at # 0 /\ s.in = r.in
      BY <1>2, <1>5 DEF Past, Same
    <2>2. QED
      BY <1>1, <1>4, <1>5, <1>6, <2>1, QuietStep
  <1>8. \/ store' = store
        \/ store' = NoRecord
        \/ /\ r.claimed /\ ~(status >= 500)
           /\ store' = [fp |-> fingerprint(r.in), inFlight |-> FALSE, status |-> status, head |-> r.head]
    BY DEF IdempotencyLeave
  <1>9. Stored'
    <2>1. CASE store' = store
      BY <2>1 DEF Stored
    <2>2. CASE store' = NoRecord
      BY <2>2 DEF Stored, NoRecord
    <2>3. CASE /\ r.claimed /\ ~(status >= 500)
               /\ store' = [fp |-> fingerprint(r.in), inFlight |-> FALSE, status |-> status, head |-> r.head]
      <3>1. r.cw = r.wire /\ r.wire \in {0, 500} \cup OwnStatuses
        BY <1>2, <2>3 DEF Core, StatusInv, RefusalInv
      <3>2. status \in OwnStatuses \ {502}
        BY <2>3, <3>1 DEF OwnStatuses
      <3>3. r.head.id # "bad"
        BY <1>2 DEF Core, IdInv
      <3>4. store'.inFlight = FALSE /\ store'.status = status /\ store'.head = r.head
        BY <2>3
      <3>5. store'.status \in OwnStatuses \ {502} /\ store'.head.id # "bad"
        BY <3>2, <3>3, <3>4
      <3>6. QED
        BY <3>4, <3>5 DEF Stored
    <2>4. QED
      BY <1>8, <2>1, <2>2, <2>3
  <1>10. QED
    BY <1>7, <1>9

-----------------------------------------------------------------------------
(* Quiet steps keep the buffers with those that hold them. *)
LEMMA QuietKeeps ==
    ASSUME PipeInv, RunInv, RoomInv, NEW i \in Request, req[i].way # "idle", req[i].way # "over",
           Quiet(i), UNCHANGED load
    PROVE  PipeInv' /\ RoomInv'
  <1>1. ReqInv(i, req[i])
    BY UnderWay
  <1>2. BufInv(i, req[i])'
    BY <1>1 DEF ReqInv, BufInv, Quiet, Moves
  <1>3. ReqInv(i, req[i])'
    BY <1>1, <1>2 DEF ReqInv, Quiet, Moves
  <1>4. ASSUME NEW j \in Request \ {i} PROVE (req[j] = Idle \/ ReqInv(j, req[j]))'
    <2>1. req[j] = Idle \/ ReqInv(j, req[j])
      BY DEF PipeInv
    <2>2. req'[j] = req[j] /\ free' = free /\ owner' = owner /\ load' = load
      BY DEF Quiet, Moves
    <2>3. QED
      BY <2>1, <2>2 DEF ReqInv, BufInv
  <1>5. PipeInv'
    BY <1>3, <1>4 DEF PipeInv, Quiet, Moves
  <1>6. req'[i].way # "idle"
    BY DEF Quiet, Moves, Core, Typed
  <1>7. \A j \in Request : j \in Unlogged' => j \in Unlogged
    BY <1>6 DEF Unlogged, Quiet, Moves
  <1>8. Unlogged' \in SUBSET Unlogged /\ Unlogged \in SUBSET Request
    BY <1>7 DEF Unlogged
  <1>9. Cardinality(Unlogged') <= Cardinality(Unlogged) /\ Cardinality(Unlogged') \in Nat
        /\ Cardinality(Unlogged) \in Nat
    <2>1. IsFiniteSet(Unlogged) /\ Cardinality(Unlogged) \in Nat
      BY <1>8, MiddlewareAssumption, FS_Subset, FS_CardinalityType
    <2>2. IsFiniteSet(Unlogged') /\ Cardinality(Unlogged') <= Cardinality(Unlogged)
      BY <1>8, <2>1, FS_Subset
    <2>3. QED
      BY <2>1, <2>2, FS_CardinalityType
  <1>10. free \subseteq Buffer /\ Cardinality(free) \in Nat
    <2>1. free \in SUBSET Buffer
      BY DEF RoomInv
    <2>2. IsFiniteSet(Buffer)
      <3>1. Cardinality(Request) \in Nat
        BY MiddlewareAssumption, FS_CardinalityType
      <3>2. QED
        BY <3>1, FS_Interval DEF Buffer
    <2>3. QED
      BY <2>1, <2>2, FS_Subset, FS_CardinalityType
  <1>11. RoomInv'
    BY <1>9, <1>10 DEF RoomInv, Quiet
  <1>12. QED
    BY <1>5, <1>11

(* The Logger's steps, which are the others. *)
LEMMA UnloggedCounts ==
    ASSUME RoomInv
    PROVE  /\ IsFiniteSet(free) /\ Cardinality(free) \in Nat /\ Buffer \in SUBSET Nat
           /\ IsFiniteSet(Unlogged) /\ Cardinality(Unlogged) \in Nat
  <1>1. Cardinality(Request) \in Nat
    BY MiddlewareAssumption, FS_CardinalityType
  <1>2. IsFiniteSet(Buffer) /\ Buffer \in SUBSET Nat
    BY <1>1, FS_Interval, SMTT(30) DEF Buffer
  <1>3. free \in SUBSET Buffer
    BY DEF RoomInv
  <1>4. IsFiniteSet(free) /\ Cardinality(free) \in Nat
    BY <1>2, <1>3, FS_Subset, FS_CardinalityType
  <1>5. Unlogged \in SUBSET Request
    BY DEF Unlogged
  <1>6. IsFiniteSet(Unlogged) /\ Cardinality(Unlogged) \in Nat
    BY <1>5, MiddlewareAssumption, FS_Subset, FS_CardinalityType
  <1>7. QED
    BY <1>2, <1>4, <1>6

LEMMA LoggerEnterKeeps ==
    ASSUME PipeInv, RunInv, RoomInv, NEW i \in Request, LoggerEnter(i), UNCHANGED load
    PROVE  Moves(i) /\ PipeInv' /\ RoomInv'
  <1> DEFINE r == req[i]
             a == Min(free)
             b == Min(free \ {a})
             s == Down([r EXCEPT !.bufs = <<a, b>>,
                     !.prefix = Splices(r.rest), !.rest = r.rest - Smaller(r.rest, CaptureMax + 1)])
  <1>1. /\ Enters(i, "Logger") /\ Becomes(i, s) /\ free' = free \ {a, b}
        /\ owner' = [owner EXCEPT ![a] = i, ![b] = i]
    BY DEF LoggerEnter, Takes
  <1>2. r.way = "down" /\ r.at = 5 /\ Core(i, r) /\ Sendable(r.in)
    BY <1>1, Entering, ChainPlaces
  <1>3. ReqInv(i, r) /\ DOMAIN r = Fields
    BY <1>2, UnderWay DEF Core, Typed
  <1>4. i \in Unlogged
    BY <1>2 DEF Unlogged, Past
  <1>5. Cardinality(Unlogged \ {i}) = Cardinality(Unlogged) - 1 /\ Cardinality(Unlogged \ {i}) \in Nat
    BY <1>4, UnloggedCounts, FS_RemoveElement, FS_CardinalityType
  <1>6. Cardinality(free) >= 2
    BY <1>5, UnloggedCounts DEF RoomInv
  <1>7. a \in free
    <2>1. free # {}
      BY <1>6, FS_EmptySet
    <2>2. free \in SUBSET Nat
      BY UnloggedCounts DEF RoomInv
    <2>3. QED
      BY <2>1, <2>2, MinIsIn
  <1>8. /\ IsFiniteSet(free \ {a}) /\ Cardinality(free \ {a}) = Cardinality(free) - 1
    BY <1>7, UnloggedCounts, FS_RemoveElement
  <1>9. b \in free \ {a}
    <2>1. free \ {a} # {}
      BY <1>6, <1>8, UnloggedCounts, FS_EmptySet
    <2>2. free \ {a} \in SUBSET Nat
      BY UnloggedCounts DEF RoomInv
    <2>3. QED
      BY <2>1, <2>2, MinIsIn
  <1>10. IsFiniteSet(free') /\ Cardinality(free') = Cardinality(free) - 2
    <2>1. free' = (free \ {a}) \ {b}
      BY <1>1
    <2>2. Cardinality((free \ {a}) \ {b}) = Cardinality(free \ {a}) - 1
      BY <1>8, <1>9, FS_RemoveElement
    <2>3. QED
      BY <1>8, <2>1, <2>2, UnloggedCounts, FS_RemoveElement
  <1>11. Core(i, s)
    BY <1>2, CapturedCore
  <1>12. s.in = r.in /\ s.bufs = <<a, b>> /\ s.line = r.line /\ s.way = "down" /\ s.at = 6
    BY <1>2, <1>3 DEF Down, Fields
  <1> HIDE DEF s, a, b
  <1>13. req'[i] = s /\ DOMAIN req' = Request /\ \A j \in Request \ {i} : req'[j] = req[j]
    BY <1>1 DEF Becomes, PipeInv
  <1>14. Moves(i)
    BY <1>11, <1>12, <1>13 DEF Moves
  <1>15. /\ a \in Buffer /\ b \in Buffer /\ free \subseteq Buffer
         /\ owner' \in [Buffer -> Request \cup {"none"}]
         /\ owner'[a] = i /\ owner'[b] = i
         /\ \A x \in Buffer \ {a, b} : owner'[x] = owner[x]
    BY <1>1, <1>7, <1>9 DEF RoomInv, PipeInv
  <1>16. ReqInv(i, req[i])'
    <2>1. r.line = NoLine
      BY <1>2 DEF Core, LineInv
    <2>2. BufInv(i, req[i])'
      <3>1. DOMAIN s.bufs = {1, 2} /\ s.bufs[1] = a /\ s.bufs[2] = b
        BY <1>12
      <3>2. a \notin free' /\ b \notin free'
        BY <1>1
      <3>3. QED
        BY <1>12, <1>13, <1>15, <2>1, <3>1, <3>2 DEF BufInv
    <2>3. QED
      BY <1>3, <1>11, <1>12, <1>13, <2>2 DEF ReqInv
  <1>17. ASSUME NEW j \in Request \ {i} PROVE (req[j] = Idle \/ ReqInv(j, req[j]))'
    <2>1. req[j] = Idle \/ ReqInv(j, req[j])
      BY DEF PipeInv
    <2>2. CASE ReqInv(j, req[j])
      <3>1. BufInv(j, req[j])
        BY <2>2 DEF ReqInv
      <3>2. \A k \in DOMAIN req[j].bufs : req[j].bufs[k] \in Buffer \ free' /\ owner'[req[j].bufs[k]] = j
        <4>1. SUFFICES ASSUME NEW k \in DOMAIN req[j].bufs
              PROVE req[j].bufs[k] \in Buffer \ free' /\ owner'[req[j].bufs[k]] = j
          OBVIOUS
        <4>2. req[j].bufs[k] \in Buffer \ free /\ owner[req[j].bufs[k]] = j
          BY <3>1 DEF BufInv
        <4>3. req[j].bufs[k] # a /\ req[j].bufs[k] # b
          BY <1>7, <1>9, <4>2
        <4>4. QED
          BY <1>1, <1>15, <4>2, <4>3
      <3>3. BufInv(j, req[j])'
        BY <1>13, <3>1, <3>2 DEF BufInv
      <3>4. QED
        BY <1>13, <2>2, <3>3 DEF ReqInv
    <2>3. QED
      BY <1>13, <2>1, <2>2
  <1>18. PipeInv'
    BY <1>13, <1>15, <1>16, <1>17 DEF PipeInv
  <1>19. Unlogged' = Unlogged \ {i}
    <2>1. i \notin Unlogged'
      BY <1>12, <1>13 DEF Unlogged, Past
    <2>2. \A j \in Request \ {i} : j \in Unlogged' <=> j \in Unlogged
      BY <1>13 DEF Unlogged
    <2>3. Unlogged \subseteq Request /\ Unlogged' \subseteq Request
      BY DEF Unlogged
    <2>4. QED
      BY <2>1, <2>2, <2>3
  <1>20. RoomInv'
    <2>1. free' \subseteq Buffer
      BY <1>1, <1>15
    <2>2. Cardinality(free') >= 2 * Cardinality(Unlogged')
      BY <1>5, <1>10, <1>19, UnloggedCounts DEF RoomInv
    <2>3. QED
      BY <2>1, <2>2 DEF RoomInv
  <1>21. QED
    BY <1>14, <1>18, <1>20

LEMMA LoggerLeaveKeeps ==
    ASSUME PipeInv, RunInv, RoomInv, NEW i \in Request, LoggerLeave(i), UNCHANGED load
    PROVE  Moves(i) /\ PipeInv' /\ RoomInv'
  <1> DEFINE r == req[i]
             s == IF r.way = "up" THEN Up([r EXCEPT !.line = AccessLine(r), !.bufs = <<>>]) ELSE Panics(r)
  <1>1. Returns(i, "Logger") /\ UNCHANGED owner
    BY DEF LoggerLeave
  <1>2. r.way \in {"up", "panic"} /\ r.at = 5 /\ Core(i, r)
    BY <1>1, Returning, ChainPlaces
  <1>3. ReqInv(i, r) /\ DOMAIN r = Fields /\ Outer(5) = 0
    BY <1>2, UnderWay, OuterOf DEF Core, Typed
  <1>4. PICK kept \in SUBSET ToSet(r.bufs) :
          Becomes(i, s) /\ free' = free \cup kept /\ (r.way = "panic" => kept = {})
    BY <1>2 DEF LoggerLeave
  <1>5. /\ DOMAIN r.bufs = {1, 2} /\ BufInv(i, r)
        /\ \A k \in DOMAIN r.bufs : r.bufs[k] \in Buffer \ free /\ owner[r.bufs[k]] = i
    BY <1>2, <1>3 DEF ReqInv, BufInv, Past
  <1>6. AccessLine(r).owners = <<i, i>>
    BY <1>5 DEF AccessLine
  <1>7. /\ Same(r, s) /\ s.at = 0 /\ s.way = r.way /\ s.wire = r.wire /\ s.out = r.out /\ s.sent = r.sent
        /\ IF r.way = "up" THEN s.line = AccessLine(r) /\ s.bufs = <<>> ELSE s.line = r.line /\ s.bufs = r.bufs
    <2>1. CASE r.way = "up"
      BY <1>2, <1>3, <2>1 DEF Up, Fields, Same
    <2>2. CASE r.way = "panic"
      BY <1>2, <1>3, <2>2 DEF Panics, Fields, Same
    <2>3. QED
      BY <1>2, <2>1, <2>2
  <1> HIDE DEF s
  <1>8. Core(i, s)
    <2>1. /\ AccessLine(r).remote = r.remote /\ AccessLine(r).id = r.id
          /\ AccessLine(r).status = (IF r.sw = 0 THEN 200 ELSE r.sw)
      BY DEF AccessLine
    <2>2. CASE r.way = "up"
      BY <1>2, <1>7, <2>1, <2>2, LoggedCore
    <2>3. CASE r.way = "panic"
      BY <1>2, <1>7, <2>3, LoggedCore
    <2>4. QED
      BY <1>2, <2>2, <2>3
  <1>9. req'[i] = s /\ DOMAIN req' = Request /\ \A j \in Request \ {i} : req'[j] = req[j]
    BY <1>4 DEF Becomes, PipeInv
  <1>10. Moves(i)
    BY <1>7, <1>8, <1>9 DEF Moves, Same
  <1>11. \A x \in kept : x \in Buffer /\ owner[x] = i
    BY <1>5 DEF ToSet
  <1>12. ReqInv(i, req[i])'
    <2>1. BufInv(i, req[i])'
      <3>1. CASE r.way = "up"
        <4>1. req'[i].bufs = <<>> /\ req'[i].line.owners = <<i, i>> /\ req'[i].at = 0
          BY <1>6, <1>7, <1>9, <3>1
        <4>2. DOMAIN req'[i].bufs = {}
          BY <4>1
        <4>3. QED
          BY <4>1, <4>2 DEF BufInv
      <3>2. CASE r.way = "panic"
        <4>1. /\ req'[i].bufs = r.bufs /\ req'[i].line = r.line /\ req'[i].at = 0
              /\ free' = free /\ owner' = owner
          BY <1>1, <1>4, <1>7, <1>9, <3>2
        <4>2. QED
          BY <1>5, <4>1 DEF BufInv
      <3>3. QED
        BY <1>2, <3>1, <3>2
    <2>2. Core(i, req'[i]) /\ req'[i].in = r.in /\ load' = load
      BY <1>7, <1>8, <1>9 DEF Same
    <2>3. i \in DOMAIN load /\ r.in = load[i]
      BY <1>3 DEF ReqInv
    <2>4. QED
      BY <2>1, <2>2, <2>3 DEF ReqInv
  <1>13. ASSUME NEW j \in Request \ {i} PROVE (req[j] = Idle \/ ReqInv(j, req[j]))'
    <2>1. req[j] = Idle \/ ReqInv(j, req[j])
      BY DEF PipeInv
    <2>2. CASE ReqInv(j, req[j])
      <3>1. BufInv(j, req[j])
        BY <2>2 DEF ReqInv
      <3>2. \A k \in DOMAIN req[j].bufs : req[j].bufs[k] \in Buffer \ free' /\ owner'[req[j].bufs[k]] = j
        BY <1>1, <1>4, <1>11, <3>1 DEF BufInv
      <3>3. BufInv(j, req[j])'
        BY <1>9, <3>1, <3>2 DEF BufInv
      <3>4. QED
        BY <1>9, <2>2, <3>3 DEF ReqInv
    <2>3. QED
      BY <1>9, <2>1, <2>2
  <1>14. PipeInv'
    BY <1>1, <1>9, <1>12, <1>13 DEF PipeInv
  <1>15. Unlogged' = Unlogged
    <2>1. i \notin Unlogged' /\ i \notin Unlogged
      BY <1>2, <1>7, <1>9 DEF Unlogged, Past
    <2>2. \A j \in Request \ {i} : j \in Unlogged' <=> j \in Unlogged
      BY <1>9 DEF Unlogged
    <2>3. Unlogged \subseteq Request /\ Unlogged' \subseteq Request
      BY DEF Unlogged
    <2>4. QED
      BY <2>1, <2>2, <2>3
  <1>16. RoomInv'
    <2>1. free' \in SUBSET Buffer /\ free \in SUBSET free'
      BY <1>4, <1>11 DEF RoomInv
    <2>2. IsFiniteSet(Buffer)
      <3>1. Cardinality(Request) \in Nat
        BY MiddlewareAssumption, FS_CardinalityType
      <3>2. QED
        BY <3>1, FS_Interval DEF Buffer
    <2>3. IsFiniteSet(free') /\ Cardinality(free') \in Nat
      BY <2>1, <2>2, FS_Subset, FS_CardinalityType
    <2>4. Cardinality(free) <= Cardinality(free')
      BY <2>1, <2>3, FS_Subset
    <2>5. QED
      BY <1>15, <2>1, <2>3, <2>4, UnloggedCounts DEF RoomInv
  <1>17. QED
    BY <1>10, <1>14, <1>16

-----------------------------------------------------------------------------
(* A request is accepted as net/http hands it over. *)
LEMMA ArrivedCore ==
    ASSUME NEW i, NEW in, in.body.len \in Nat
    PROVE  /\ Core(i, Arrived(in)) /\ Arrived(in).in = in /\ Arrived(in).way = "down"
           /\ Arrived(in).at = 1 /\ Arrived(in).bufs = <<>> /\ Arrived(in).line = NoLine
  <1> DEFINE r == Arrived(in)
  <1>1. /\ r.in = in /\ r.way = "down" /\ r.at = 1 /\ r.bufs = <<>> /\ r.line = NoLine
        /\ r.wire = 0 /\ r.sw = 0 /\ r.cw = 0 /\ r.sent = FALSE /\ r.call = NoCall
        /\ r.claimed = FALSE /\ r.ran = FALSE /\ r.limited = FALSE
        /\ r.id = "none" /\ r.head = NoHead /\ r.out = NoHead /\ r.hdrId = in.id
        /\ r.remote = in.peer /\ r.prefix = 0 /\ r.rest = in.body.len
        /\ r.trace = "none" /\ r.span = "none"
        /\ DOMAIN r = Fields
    BY DEF Arrived, Fields
  <1>10. /\ r.sent \in BOOLEAN /\ r.claimed \in BOOLEAN /\ r.ran \in BOOLEAN /\ r.limited \in BOOLEAN
        /\ ~r.ran
    BY DEF Arrived
  <1> HIDE DEF r
  <1>2. NoLine.id = "none" /\ NoHead.id = "none" /\ NoCall.pc = "none" /\ NoCall.told = 0
        /\ NoCall.tp = <<>> /\ DOMAIN NoHead = HeadFields /\ DOMAIN NoCall = CallFields
    BY DEF NoLine, NoHead, NoCall, HeadFields, CallFields
  <1>3. Typed(r)
    <2>1. DOMAIN r = Fields /\ DOMAIN r.head = HeadFields /\ DOMAIN r.call = CallFields
      BY <1>1, <1>2, Zenon
    <2>2. r.call.pc \notin Calling
      BY <1>1, <1>2 DEF Calling
    <2>3. QED
      BY <1>1, <1>10, <2>1, <2>2 DEF Typed
  <1>4. StatusInv(r) /\ LineInv(r) /\ PanicInv(r) /\ SecureInv(r) /\ IdInv(r)
    BY <1>1, <1>2 DEF StatusInv, LineInv, PanicInv, SecureInv, IdInv, Past
  <1>5. RefusalInv(r) /\ BodyInv(r)
    BY <1>1 DEF RefusalInv, BodyInv, Past, Unread
  <1>6. CallInv(i, r)
    BY <1>1, <1>2 DEF CallInv
  <1>7. AddrInv(r)
    BY <1>1 DEF AddrInv
  <1>8. Core(i, r)
    BY <1>3, <1>4, <1>5, <1>6, <1>7 DEF Core
  <1>9. QED
    BY <1>1, <1>8 DEF r

LEMMA AcceptsKeeps ==
    ASSUME IInv, NEW i \in Request, Accepts(i)
    PROVE  IInv'
  <1> DEFINE s == Arrived(load[i])
  <1> USE DEF IInv
  <1>1. /\ run = "serving" /\ i \in DOMAIN load /\ req[i].way = "idle"
        /\ Becomes(i, s) /\ served' = [served EXCEPT ![i] = handler]
        /\ UNCHANGED <<store, free, owner, load, chain, handler, run, cancelled>>
    BY DEF Accepts
  <1>2. load[i].body.len \in Nat
    BY <1>1, MiddlewareAssumption DEF RunInv, Sendable
  <1>3. /\ Core(i, s) /\ s.in = load[i] /\ s.way = "down" /\ s.at = 1
        /\ s.bufs = <<>> /\ s.line = NoLine
    BY <1>2, ArrivedCore
  <1> HIDE DEF s
  <1>4. req'[i] = s /\ DOMAIN req' = Request /\ \A j \in Request \ {i} : req'[j] = req[j]
    BY <1>1 DEF Becomes, PipeInv
  <1>5. PipeInv'
    <2>1. req'[i].bufs = <<>> /\ req'[i].line = NoLine /\ req'[i].way = "down" /\ req'[i].at = 1
      BY <1>3, <1>4
    <2>2. DOMAIN req'[i].bufs = {}
      BY <2>1
    <2>3. BufInv(i, req[i])'
      BY <2>1, <2>2 DEF BufInv, Past
    <2>4. Core(i, req'[i]) /\ req'[i].in = load'[i] /\ i \in DOMAIN load'
      BY <1>1, <1>3, <1>4
    <2>5. ReqInv(i, req[i])'
      BY <2>3, <2>4 DEF ReqInv
    <2>6. ASSUME NEW j \in Request \ {i} PROVE (req[j] = Idle \/ ReqInv(j, req[j]))'
      <3>1. req[j] = Idle \/ ReqInv(j, req[j])
        BY DEF PipeInv
      <3>2. req'[j] = req[j] /\ free' = free /\ owner' = owner /\ load' = load
        BY <1>1, <1>4
      <3>3. QED
        BY <3>1, <3>2 DEF ReqInv, BufInv
    <2>7. QED
      BY <1>1, <1>4, <2>5, <2>6 DEF PipeInv
  <1>6. Stored'
    BY <1>1 DEF Stored
  <1>7. RoomInv'
    <2>1. i \in Unlogged /\ i \in Unlogged'
      BY <1>1, <1>3, <1>4 DEF Unlogged, Past
    <2>2. \A j \in Request \ {i} : j \in Unlogged' <=> j \in Unlogged
      BY <1>4 DEF Unlogged
    <2>3. Unlogged \subseteq Request /\ Unlogged' \subseteq Request
      BY DEF Unlogged
    <2>4. Unlogged' = Unlogged
      BY <2>1, <2>2, <2>3
    <2>5. QED
      BY <1>1, <2>4 DEF RoomInv
  <1>8. RunInv'
    <2>1. UseCoversAll'
      BY <1>1, <1>4 DEF RunInv, UseCoversAll
    <2>2. DOMAIN served' = Request
      BY <1>1 DEF RunInv
    <2>3. QED
      BY <1>1, <2>1, <2>2 DEF RunInv
  <1>9. QED
    BY <1>5, <1>6, <1>7, <1>8

-----------------------------------------------------------------------------
(***************************************************************************)
(* A step of a request under way: most are quiet and leave the idempotency *)
(* record alone.                                                           *)
(***************************************************************************)
LEMMA MovesAreUnderWay ==
    ASSUME PipeInv, RunInv, NEW i \in Request, Step(i)
    PROVE  req[i].way \in {"down", "up", "panic"}
  <1>1. req[i].way \in {"down", "up", "panic"} \/ req[i].call.pc \in Calling
    BY DEF Step, RealIPEnter, RequestID, Trace, SecureHeaders, LoggerEnter, LoggerLeave,
           RecoverEnter, RecoverLeave, CORS, RateLimit, BodyLimit, IdempotencyEnter,
           IdempotencyLeave, Mux, HandlerStarts, HandlerCalls, HandlerEnds, Finishes,
           Enters, Returns, Calling
  <1>2. CASE req[i].call.pc \in Calling
    <2>1. Idle.call.pc \notin Calling
      BY DEF Idle, Arrived, NoCall, Calling
    <2>2. ReqInv(i, req[i])
      BY <1>2, <2>1 DEF PipeInv
    <2>3. req[i].way = "down"
      BY <1>2, <2>2 DEF ReqInv, Core, Typed
    <2>4. QED
      BY <2>3
  <1>3. QED
    BY <1>1, <1>2, Zenon

LEMMA QuietSteps ==
    ASSUME PipeInv, RunInv, NEW i \in Request,
           \/ RealIPEnter(i) \/ RequestID(i) \/ Trace(i) \/ SecureHeaders(i)
           \/ RecoverEnter(i) \/ RecoverLeave(i) \/ CORS(i) \/ RateLimit(i) \/ BodyLimit(i)
           \/ Mux(i) \/ HandlerStarts(i) \/ HandlerCalls(i) \/ HandlerEnds(i) \/ Finishes(i)
    PROVE  Quiet(i) /\ UNCHANGED store
  <1>1. CASE RealIPEnter(i)
    <2>1. Quiet(i)
      BY <1>1, RealIPEnterMoves
    <2>2. UNCHANGED store
      BY <1>1 DEF RealIPEnter
    <2>3. QED
      BY <2>1, <2>2
  <1>2. CASE RequestID(i)
    <2>1. Quiet(i)
      BY <1>2, RequestIDMoves
    <2>2. UNCHANGED store
      BY <1>2 DEF RequestID
    <2>3. QED
      BY <2>1, <2>2
  <1>3. CASE Trace(i)
    <2>1. Quiet(i)
      BY <1>3, TraceMoves
    <2>2. UNCHANGED store
      BY <1>3 DEF Trace
    <2>3. QED
      BY <2>1, <2>2
  <1>4. CASE SecureHeaders(i)
    <2>1. Quiet(i)
      BY <1>4, SecureHeadersMoves
    <2>2. UNCHANGED store
      BY <1>4 DEF SecureHeaders
    <2>3. QED
      BY <2>1, <2>2
  <1>5. CASE RecoverEnter(i)
    <2>1. Quiet(i)
      BY <1>5, RecoverEnterMoves
    <2>2. UNCHANGED store
      BY <1>5 DEF RecoverEnter
    <2>3. QED
      BY <2>1, <2>2
  <1>6. CASE RecoverLeave(i)
    <2>1. Quiet(i)
      BY <1>6, RecoverLeaveMoves
    <2>2. UNCHANGED store
      BY <1>6 DEF RecoverLeave
    <2>3. QED
      BY <2>1, <2>2
  <1>7. CASE CORS(i)
    <2>1. Quiet(i)
      BY <1>7, CORSMoves
    <2>2. UNCHANGED store
      BY <1>7 DEF CORS
    <2>3. QED
      BY <2>1, <2>2
  <1>8. CASE RateLimit(i)
    <2>1. Quiet(i)
      BY <1>8, RateLimitMoves
    <2>2. UNCHANGED store
      BY <1>8 DEF RateLimit
    <2>3. QED
      BY <2>1, <2>2
  <1>9. CASE BodyLimit(i)
    <2>1. Quiet(i)
      BY <1>9, BodyLimitMoves
    <2>2. UNCHANGED store
      BY <1>9 DEF BodyLimit
    <2>3. QED
      BY <2>1, <2>2
  <1>10. CASE Mux(i)
    <2>1. Quiet(i)
      BY <1>10, MuxMoves
    <2>2. UNCHANGED store
      BY <1>10 DEF Mux
    <2>3. QED
      BY <2>1, <2>2
  <1>11. CASE HandlerStarts(i)
    <2>1. Quiet(i)
      BY <1>11, HandlerStartsMoves
    <2>2. UNCHANGED store
      BY <1>11 DEF HandlerStarts
    <2>3. QED
      BY <2>1, <2>2
  <1>12. CASE HandlerCalls(i)
    <2>1. Quiet(i)
      BY <1>12, HandlerCallsMoves
    <2>2. UNCHANGED store
      BY <1>12 DEF HandlerCalls
    <2>3. QED
      BY <2>1, <2>2
  <1>13. CASE HandlerEnds(i)
    <2>1. Quiet(i)
      BY <1>13, HandlerEndsMoves
    <2>2. UNCHANGED store
      BY <1>13 DEF HandlerEnds
    <2>3. QED
      BY <2>1, <2>2
  <1>14. CASE Finishes(i)
    <2>1. Quiet(i)
      BY <1>14, FinishesMoves
    <2>2. UNCHANGED store
      BY <1>14 DEF Finishes
    <2>3. QED
      BY <2>1, <2>2
  <1>15. QED
    BY <1>1, <1>2, <1>3, <1>4, <1>5, <1>6, <1>7, <1>8, <1>9, <1>10, <1>11, <1>12, <1>13, <1>14

LEMMA StepKeeps ==
    ASSUME PipeInv, Stored, RoomInv, RunInv, NEW i \in Request, Step(i), UNCHANGED load
    PROVE  Moves(i) /\ PipeInv' /\ Stored' /\ RoomInv'
  <1>1. req[i].way # "idle" /\ req[i].way # "over"
    BY MovesAreUnderWay
  <1>2. CASE LoggerEnter(i)
    <2>1. Moves(i) /\ PipeInv' /\ RoomInv'
      BY <1>2, LoggerEnterKeeps
    <2>2. UNCHANGED store
      BY <1>2 DEF LoggerEnter
    <2>3. QED
      BY <2>1, <2>2 DEF Stored
  <1>3. CASE LoggerLeave(i)
    <2>1. Moves(i) /\ PipeInv' /\ RoomInv'
      BY <1>3, LoggerLeaveKeeps
    <2>2. UNCHANGED store
      BY <1>3 DEF LoggerLeave
    <2>3. QED
      BY <2>1, <2>2 DEF Stored
  <1>4. CASE IdempotencyEnter(i) \/ IdempotencyLeave(i)
    <2>1. Quiet(i) /\ Stored'
      BY <1>4, IdempotencyEnterMoves, IdempotencyLeaveMoves
    <2>2. QED
      BY <1>1, <2>1, QuietKeeps DEF Quiet
  <1>5. CASE \/ RealIPEnter(i) \/ RequestID(i) \/ Trace(i) \/ SecureHeaders(i)
             \/ RecoverEnter(i) \/ RecoverLeave(i) \/ CORS(i) \/ RateLimit(i) \/ BodyLimit(i)
             \/ Mux(i) \/ HandlerStarts(i) \/ HandlerCalls(i) \/ HandlerEnds(i) \/ Finishes(i)
    <2>1. Quiet(i) /\ UNCHANGED store
      BY <1>5, QuietSteps
    <2>2. QED
      BY <1>1, <2>1, QuietKeeps DEF Quiet, Stored
  <1>6. QED
    BY <1>2, <1>3, <1>4, <1>5 DEF Step

LEMMA HandlesKeeps ==
    ASSUME IInv, NEW i \in Request, Handles(i)
    PROVE  IInv'
  <1>1. Step(i) /\ UNCHANGED runVars
    BY DEF Handles
  <1>2. UNCHANGED <<load, chain, handler, served, run, cancelled>>
    BY <1>1 DEF runVars
  <1>3. Moves(i) /\ PipeInv' /\ Stored' /\ RoomInv'
    BY <1>1, <1>2, StepKeeps DEF IInv
  <1>4. req[i].way \in {"down", "up", "panic"}
    BY <1>1, MovesAreUnderWay DEF IInv
  <1>5. run # "idle" /\ run # "drained"
    <2>1. i \in InFlight
      BY <1>4 DEF InFlight
    <2>2. QED
      BY <1>4, <2>1 DEF IInv, RunInv
  <1>6. UseCoversAll'
    BY <1>2, <1>3, <1>4 DEF IInv, RunInv, UseCoversAll, Moves
  <1>7. RunInv'
    BY <1>2, <1>5, <1>6 DEF IInv, RunInv
  <1>8. QED
    BY <1>3, <1>7 DEF IInv

-----------------------------------------------------------------------------
(* The server's own steps leave the requests alone. *)
LEMMA PipeRests ==
    ASSUME PipeInv, Stored, RoomInv, UNCHANGED <<pipeVars, load>>
    PROVE  PipeInv' /\ Stored' /\ RoomInv'
  <1>1. req' = req /\ store' = store /\ free' = free /\ owner' = owner /\ load' = load
    BY DEF pipeVars
  <1>2. PipeInv'
    BY <1>1 DEF PipeInv, ReqInv, BufInv
  <1>3. Unlogged' = Unlogged
    BY <1>1 DEF Unlogged
  <1>4. Stored' /\ RoomInv'
    BY <1>1, <1>3 DEF Stored, RoomInv
  <1>5. QED
    BY <1>2, <1>4

LEMMA LifecycleKeeps ==
    ASSUME IInv, Lifecycle
    PROVE  IInv'
  <1>1. UNCHANGED <<pipeVars, load>> /\ UNCHANGED served
    BY DEF Lifecycle, Use, RunStarts, Listens, ServeFails, Cancel, ShutsDown, Drained, GraceEnds
  <1>2. PipeInv' /\ Stored' /\ RoomInv'
    BY <1>1, PipeRests DEF IInv
  <1>3. req' = req /\ load' = load /\ served' = served /\ InFlight' = InFlight
    BY <1>1 DEF pipeVars, InFlight
  <1> USE DEF IInv, RunInv, Added, Returned
  <1>4. CASE Use
    <2>1. /\ handler = {"none"} /\ chain' = chain \cup {"late"}
          /\ UNCHANGED <<handler, run, cancelled>>
      BY <1>4 DEF Use, UseAllowed
    <2>2. run = "idle"
      BY <2>1
    <2>3. UseCoversAll'
      BY <1>3, <2>2 DEF UseCoversAll
    <2>4. chain' \subseteq Added /\ chain' # {"none"}
      <3>1. "late" \in chain'
        BY <2>1
      <3>2. QED
        BY <2>1, <3>1
    <2>5. QED
      BY <1>2, <1>3, <2>1, <2>2, <2>3, <2>4
  <1>5. CASE RunStarts
    <2>1. run = "idle" /\ handler' = chain /\ run' = "starting" /\ UNCHANGED <<chain, cancelled>>
      BY <1>5 DEF RunStarts, build
    <2>2. UseCoversAll'
      BY <1>3, <2>1 DEF UseCoversAll
    <2>3. QED
      BY <1>2, <1>3, <2>1, <2>2
  <1>6. CASE Listens \/ ServeFails \/ Cancel \/ ShutsDown \/ Drained \/ GraceEnds
    <2>1. UNCHANGED <<chain, handler>>
      BY <1>6 DEF Listens, ServeFails, Cancel, ShutsDown, Drained, GraceEnds
    <2>2. UseCoversAll'
      BY <1>3, <2>1 DEF UseCoversAll
    <2>3. CASE Cancel
      BY <1>2, <1>3, <2>1, <2>2, <2>3 DEF Cancel
    <2>4. CASE Drained
      BY <1>2, <1>3, <2>1, <2>2, <2>4 DEF Drained, AllAnswered
    <2>5. CASE Listens \/ ServeFails \/ ShutsDown \/ GraceEnds
      BY <1>2, <1>3, <2>1, <2>2, <2>5 DEF Listens, ServeFails, ShutsDown, GraceEnds
    <2>6. QED
      BY <1>6, <2>3, <2>4, <2>5
  <1>7. QED
    BY <1>4, <1>5, <1>6 DEF Lifecycle

-----------------------------------------------------------------------------
LEMMA InitHolds ==
    ASSUME Init
    PROVE  IInv
  <1>1. /\ req = [i \in Request |-> Idle] /\ store = NoRecord /\ free = Buffer
        /\ owner = [b \in Buffer |-> "none"]
    BY DEF Init, PipeInit
  <1>2. Idle.way = "idle"
    BY DEF Idle, Arrived
  <1>3. PipeInv
    BY <1>1 DEF PipeInv
  <1>4. Stored
    BY <1>1 DEF Stored, NoRecord
  <1>5. RoomInv
    <2>1. Cardinality(Request) \in Nat
      BY MiddlewareAssumption, FS_CardinalityType
    <2>2. Cardinality(Buffer) = 2 * Cardinality(Request)
      BY <2>1, FS_Interval DEF Buffer
    <2>3. Unlogged = Request
      BY <1>1, <1>2 DEF Unlogged
    <2>4. QED
      BY <1>1, <2>1, <2>2, <2>3 DEF RoomInv
  <1>6. RunInv
    <2>1. \A i \in Request : req[i].way = "idle"
      BY <1>1, <1>2
    <2>2. UseCoversAll
      BY <2>1 DEF UseCoversAll
    <2>3. QED
      BY <2>1, <2>2 DEF Init, RunInv, Added
  <1>7. QED
    BY <1>3, <1>4, <1>5, <1>6 DEF IInv

LEMMA NextKeeps ==
    ASSUME IInv, [Next]_vars
    PROVE  IInv'
  <1>1. CASE Lifecycle
    BY <1>1, LifecycleKeeps
  <1>2. ASSUME NEW i \in Request, Accepts(i) PROVE IInv'
    BY <1>2, AcceptsKeeps
  <1>3. ASSUME NEW i \in Request, Handles(i) PROVE IInv'
    BY <1>3, HandlesKeeps
  <1>4. CASE UNCHANGED vars
    <2>1. /\ UNCHANGED <<pipeVars, load>>
          /\ req' = req /\ load' = load /\ chain' = chain /\ handler' = handler
          /\ served' = served /\ run' = run /\ cancelled' = cancelled
      BY <1>4 DEF vars, runVars, pipeVars
    <2>2. PipeInv' /\ Stored' /\ RoomInv'
      BY <2>1, PipeRests DEF IInv
    <2>3. RunInv'
      BY <2>1 DEF IInv, RunInv, UseCoversAll, InFlight
    <2>4. QED
      BY <2>2, <2>3 DEF IInv
  <1>5. QED
    BY <1>1, <1>2, <1>3, <1>4 DEF Next

LEMMA Inductive == Spec => []IInv
  <1>1. Init => IInv
    BY InitHolds
  <1>2. IInv /\ [Next]_vars => IInv'
    BY NextKeeps
  <1>3. QED
    BY <1>1, <1>2, PTL DEF Spec

-----------------------------------------------------------------------------
(* What the invariant says of one request, idle or not. *)
LEMMA OneRequest ==
    ASSUME IInv, NEW i \in Request
    PROVE  \/ req[i] = Idle /\ req[i].way = "idle"
           \/ req[i].way # "idle" /\ ReqInv(i, req[i]) /\ Core(i, req[i]) /\ Sendable(req[i].in)
  <1>1. CASE req[i].way = "idle"
    <2>1. ~ReqInv(i, req[i])
      BY <1>1 DEF ReqInv, Core, Typed
    <2>2. QED
      BY <1>1, <2>1 DEF IInv, PipeInv
  <1>2. CASE req[i].way # "idle"
    BY <1>2, UnderWay DEF IInv
  <1>3. QED
    BY <1>1, <1>2

LEMMA IdleFields ==
    /\ Idle.way = "idle" /\ Idle.at = 1 /\ Idle.line = NoLine /\ Idle.ran = FALSE
    /\ Idle.in.id = "none" /\ Idle.call = NoCall
  BY DEF Idle, Arrived

(***************************************************************************)
(* Requests move along the chain and no further, the Logger's pool and the *)
(* idempotency record keep their types, and a response that has gone out   *)
(* has a final status, unless its handler aborted it.                      *)
(***************************************************************************)
THEOREM ServerTypeCorrect == Spec => []TypeOK
  <1>1. IInv => TypeOK
    <2> SUFFICES ASSUME IInv PROVE TypeOK
      OBVIOUS
    <2>1. ASSUME NEW i \in Request
          PROVE  /\ req[i].way \in {"idle", "down", "up", "panic", "over"}
                 /\ req[i].at \in 0..HandlerAt
                 /\ req[i].way = "over" /\ req[i].in.does # "abort" => req[i].wire \in 200..599
      <3>1. CASE req[i] = Idle /\ req[i].way = "idle"
        BY <3>1, IdleFields, ChainPlaces
      <3>2. CASE req[i].way # "idle" /\ Core(i, req[i])
        BY <3>2, ChainPlaces DEF Core, Typed, StatusInv, Statuses
      <3>3. QED
        BY <3>1, <3>2, OneRequest
    <2>2. PipeTypeOK
      BY <2>1 DEF PipeTypeOK, IInv, PipeInv, Stored, RoomInv
    <2>3. QED
      BY <2>2 DEF TypeOK, IInv, RunInv, Added
  <1>2. QED
    BY Inductive, <1>1, PTL

(***************************************************************************)
(* The access line tells what went out, also after a panic: the final      *)
(* status that the wire saw, under the request's own ID and address, with  *)
(* bytes from buffers that no other request shares.                        *)
(***************************************************************************)
THEOREM AccessLineIsTrue == Spec => []LineIsTrue
  <1>1. IInv => LineIsTrue
    <2> SUFFICES ASSUME IInv, NEW i \in Request
                 PROVE  /\ Over(i) /\ req[i].line # NoLine =>
                            /\ req[i].line.status = req[i].wire
                            /\ req[i].line.remote = req[i].remote /\ req[i].line.id = req[i].id
                        /\ Over(i) /\ req[i].ran /\ req[i].in.does \in {"panic", "hint"} =>
                            req[i].wire = 500
                        /\ req[i].line # NoLine => req[i].line.owners = <<i, i>>
      BY DEF LineIsTrue, LineTellsResponse, PanicIsAnswered, LineHasOwnBytes
    <2>1. CASE req[i] = Idle /\ req[i].way = "idle"
      BY <2>1, IdleFields DEF Over
    <2>2. CASE req[i].way # "idle" /\ ReqInv(i, req[i]) /\ Core(i, req[i])
      BY <2>2 DEF ReqInv, BufInv, Core, LineInv, PanicInv, Over
    <2>3. QED
      BY <2>1, <2>2, OneRequest
  <1>2. QED
    BY Inductive, <1>1, PTL

(***************************************************************************)
(* No order of arrivals, refusals, replays, panics and calls of Use gets a *)
(* request past a gate: responses carry the security headers, a rejected   *)
(* ID is unseen below RequestID, what is refused for its rate or size      *)
(* claims nothing, a preflight never runs the handler, and every request   *)
(* is served by all the middleware there is.                               *)
(***************************************************************************)
THEOREM GatesKeepTheirPromises == Spec => []GatesKeepPromises
  <1>1. IInv => GatesKeepPromises
    <2> SUFFICES ASSUME IInv PROVE GatesKeepPromises
      OBVIOUS
    <2>1. EveryResponseSecured
      <3> SUFFICES ASSUME NEW i \in Request, Over(i), req[i].wire # 0 PROVE req[i].out.secure
        BY DEF EveryResponseSecured
      <3>1. Core(i, req[i])
        BY OneRequest DEF Over
      <3>2. QED
        BY <3>1 DEF Core, SecureInv
    <2>2. RejectedIdUnseen
      <3> SUFFICES ASSUME NEW i \in Request, req[i].in.id = "bad", req[i].at > 2
                   PROVE  "bad" \notin {req[i].hdrId, req[i].id, req[i].out.id, req[i].line.id}
        BY PlaceOf DEF RejectedIdUnseen
      <3>1. Core(i, req[i])
        BY OneRequest, IdleFields
      <3>2. QED
        BY <3>1 DEF Core, IdInv, Past
    <2>3. RefusedLeavesNoTrace
      <3> SUFFICES ASSUME NEW i \in Request, Over(i)
                   PROVE  LET r == req[i] IN
                     /\ r.wire = 429 \/ (r.in.body.declared /\ r.in.body.len > BodyMax) => ~r.claimed
                     /\ Preflight(r.in) /\ r.in.origin # "none" => r.wire = 204 /\ ~r.ran
        BY DEF RefusedLeavesNoTrace
      <3>1. Core(i, req[i])
        BY OneRequest DEF Over
      <3>2. QED
        BY <3>1 DEF Core, RefusalInv, Oversize, OwnStatuses, Over
    <2>4. UseCoversAll
      BY DEF IInv, RunInv
    <2>5. QED
      BY <2>1, <2>2, <2>3, <2>4 DEF GatesKeepPromises
  <1>2. QED
    BY Inductive, <1>1, PTL

(***************************************************************************)
(* RealIP attributes a request to its peer or to an address a trusted peer *)
(* vouches for; the hops to its right in X-Forwarded-For are all trusted.  *)
(***************************************************************************)
THEOREM ClientIsVouchedFor == Spec => []ClientIsLastUntrusted
  <1>1. IInv => ClientIsLastUntrusted
    <2> SUFFICES ASSUME IInv, NEW i \in Request, req[i].way # "idle" PROVE AddrInv(req[i])
      BY DEF ClientIsLastUntrusted, AddrInv
    <2>1. QED
      BY OneRequest DEF Core
  <1>2. QED
    BY Inductive, <1>1, PTL

(***************************************************************************)
(* What the Logger, Idempotency and the client's capture read ahead is     *)
(* given back whole, outbound calls continue the trace that came in or was *)
(* minted, and the breaker hears once of each call it admitted.            *)
(***************************************************************************)
THEOREM CallsPassWhole == Spec => []CallsAreWhole
  <1>1. IInv => CallsAreWhole
    <2> SUFFICES ASSUME IInv, NEW i \in Request
                 PROVE  LET r == req[i] IN
                   /\ r.ran => r.got = Smaller(r.in.body.len, BodyMax)
                   /\ r.call.pc = "done" /\ r.call.result = "response" => r.call.got = r.in.resp.len
                   /\ r.call.tp \notin {<<>>, <<"own">>} =>
                        /\ r.call.tp[1] = IF r.in.tp = "valid" THEN "inbound" ELSE i
                        /\ r.call.tp[2] # r.span
                        /\ r.call.tp[3] = IF r.in.tp = "valid" THEN "inbound" ELSE "01"
                   /\ r.call.pc = "done" =>
                        r.call.told = IF r.call.result = "circuit open" THEN 0 ELSE 1
      BY DEF CallsAreWhole, BodiesAreWhole, TraceContinues, BreakerIsTold
    <2>1. CASE req[i] = Idle /\ req[i].way = "idle"
      BY <2>1, IdleFields DEF NoCall
    <2>2. CASE Core(i, req[i])
      <3> DEFINE r == req[i]
                 tp == r.call.tp
      <3>1. BodyInv(r) /\ CallInv(i, r)
        BY <2>2 DEF Core
      <3>2. ASSUME tp \notin {<<>>, <<"own">>}
            PROVE  /\ tp[1] = IF r.in.tp = "valid" THEN "inbound" ELSE i
                   /\ tp[2] # r.span
                   /\ tp[3] = IF r.in.tp = "valid" THEN "inbound" ELSE "01"
        <4>1. tp = <<r.trace, "outbound", r.flags>> /\ r.trace # "none"
          BY <3>1, <3>2 DEF CallInv
        <4>2. tp[1] = r.trace /\ tp[2] = "outbound" /\ tp[3] = r.flags
          BY <4>1
        <4>3. QED
          BY <3>1, <4>1, <4>2 DEF CallInv
      <3>3. r.ran => r.got = Smaller(r.in.body.len, BodyMax)
        BY <3>1 DEF BodyInv
      <3>4. r.call.pc = "done" =>
              /\ r.call.result = "response" => r.call.got = r.in.resp.len
              /\ r.call.told = IF r.call.result = "circuit open" THEN 0 ELSE 1
        BY <3>1 DEF CallInv
      <3>5. QED
        BY <3>2, <3>3, <3>4
    <2>3. QED
      BY <2>1, <2>2, OneRequest
  <1>2. QED
    BY Inductive, <1>1, PTL

(***************************************************************************)
(* Run returns nil only when Shutdown found nothing under way, and then    *)
(* nothing is accepted or under way ever after.                            *)
(***************************************************************************)
THEOREM DrainCompletes == Spec => DrainIsComplete
  <1>1. IInv /\ IInv' /\ [Next]_vars =>
          [run = "drained" => run' = "drained" /\ InFlight = {} /\ InFlight' = {}]_vars
    <2> SUFFICES ASSUME IInv, IInv', Next, run = "drained"
                 PROVE  run' = "drained" /\ InFlight = {} /\ InFlight' = {}
      OBVIOUS
    <2>1. InFlight = {}
      BY DEF IInv, RunInv
    <2>2. run' = "drained"
      <3>1. CASE Lifecycle
        BY <3>1 DEF Lifecycle, Use, RunStarts, Listens, ServeFails, Cancel, ShutsDown, Drained,
                    GraceEnds
      <3>2. ASSUME NEW i \in Request, Accepts(i) PROVE run' = "drained"
        BY <3>2 DEF Accepts
      <3>3. ASSUME NEW i \in Request, Handles(i) PROVE run' = "drained"
        BY <3>3 DEF Handles, runVars
      <3>4. QED
        BY <3>1, <3>2, <3>3 DEF Next
    <2>3. InFlight' = {}
      BY <2>2 DEF IInv, RunInv
    <2>4. QED
      BY <2>1, <2>2, <2>3
  <1>2. QED
    BY Inductive, <1>1, PTL DEF Spec, DrainIsComplete

-----------------------------------------------------------------------------
(* Induction up to a number, for a property that is given as a set. *)
LEMMA UpTo ==
    ASSUME NEW n \in Nat, NEW Good, 0 \in Good,
           \A k \in 1..n : k - 1 \in Good => k \in Good
    PROVE  0..n \subseteq Good
  <1> DEFINE Bad == {k \in 0..n : k \notin Good}
             Less == OpToRel(<, Nat)
  <1>1. SUFFICES ASSUME Bad # {} PROVE FALSE
    OBVIOUS
  <1>2. Bad \in SUBSET Nat
    OBVIOUS
  <1>3. \A x, y \in Nat : x < y => <<x, y>> \in Less
    BY DEF OpToRel
  <1> HIDE DEF Bad
  <1>4. \E m \in Bad : \A x \in Bad : ~(<<x, m>> \in Less)
    BY <1>1, <1>2, NatLessThanWellFounded, WFMin, Zenon
  <1> HIDE DEF Less
  <1>5. PICK m \in Bad : \A x \in Bad : ~(<<x, m>> \in Less)
    BY <1>4
  <1>6. \A x \in Bad : ~(x < m)
    BY <1>2, <1>3, <1>5, Zenon
  <1>7. m \in 1..n /\ m \notin Good
    BY DEF Bad
  <1>8. m - 1 \in Bad
    BY <1>7 DEF Bad
  <1>9. QED
    BY <1>6, <1>7, <1>8

-----------------------------------------------------------------------------
(***************************************************************************)
(* The recursions of Redaction, each a level at a time.                    *)
(***************************************************************************)
Steps(a, all, n, g) == g = [k \in 0..n |-> IF k = 0 THEN {a} ELSE Kids(g[k - 1], all)]
LevelsOf(a, all) == CHOOSE g : Steps(a, all, Deepest, g)

(* What an attr reaches is what it reaches in some number of steps. *)
LEMMA LevelsUnfold ==
    ASSUME NEW a, NEW all \in BOOLEAN
    PROVE  /\ Reached(a, all) = UNION {LevelsOf(a, all)[n] : n \in 0..Deepest}
           /\ LevelsOf(a, all)[0] = {a}
           /\ \A k \in 1..Deepest : LevelsOf(a, all)[k] = Kids(LevelsOf(a, all)[k - 1], all)
  <1> DEFINE Good == {m \in 0..Deepest : \E g : Steps(a, all, m, g)}
  <1>0. Deepest \in Nat
    BY LogAssumption
  <1>1. 0 \in Good
    <2> DEFINE g == [k \in 0..0 |-> {a}]
    <2>1. Steps(a, all, 0, g)
      BY DEF Steps
    <2>2. QED
      BY <1>0, <2>1
  <1>2. ASSUME NEW m \in 1..Deepest, m - 1 \in Good PROVE m \in Good
    <2>1. PICK g : Steps(a, all, m - 1, g)
      BY <1>2
    <2> DEFINE h == [k \in 0..m |-> IF k = m THEN Kids(g[m - 1], all) ELSE g[k]]
    <2>2. \A k \in 0..(m - 1) : g[k] = IF k = 0 THEN {a} ELSE Kids(g[k - 1], all)
      BY <2>1 DEF Steps
    <2>3. ASSUME NEW k \in 0..m
          PROVE  h[k] = IF k = 0 THEN {a} ELSE Kids(h[k - 1], all)
      <3>1. CASE k = m
        <4>1. h[k] = Kids(g[m - 1], all) /\ h[m - 1] = g[m - 1] /\ m # 0
          BY <3>1
        <4> HIDE DEF h
        <4>2. QED
          BY <3>1, <4>1
      <3>2. CASE k # m
        <4>1. h[k] = g[k] /\ k \in 0..(m - 1) /\ (k # 0 => h[k - 1] = g[k - 1])
          BY <3>2
        <4> HIDE DEF h
        <4>2. QED
          BY <2>2, <4>1
      <3>3. QED
        BY <3>1, <3>2
    <2>4. h = [k \in 0..m |-> h[k]]
      OBVIOUS
    <2> HIDE DEF h
    <2>5. Steps(a, all, m, h)
      BY <2>3, <2>4 DEF Steps
    <2>6. QED
      BY <1>0, <2>5
  <1>3. Deepest \in Good
    <2> HIDE DEF Good
    <2>1. 0..Deepest \subseteq Good
      BY <1>0, <1>1, <1>2, UpTo
    <2>2. QED
      BY <1>0, <2>1
  <1>4. Steps(a, all, Deepest, LevelsOf(a, all))
    BY <1>3 DEF LevelsOf
  <1>5. Reached(a, all) = UNION {LevelsOf(a, all)[n] : n \in 0..Deepest}
    BY DEF Reached, LevelsOf, Steps
  <1> DEFINE f == LevelsOf(a, all)
  <1>6. f = [k \in 0..Deepest |-> IF k = 0 THEN {a} ELSE Kids(f[k - 1], all)]
    BY <1>4 DEF Steps
  <1> HIDE DEF f
  <1>7. \A k \in 0..Deepest : f[k] = IF k = 0 THEN {a} ELSE Kids(f[k - 1], all)
    BY <1>6, Zenon
  <1>8. f[0] = {a} /\ \A k \in 1..Deepest : f[k] = Kids(f[k - 1], all)
    <2>1. 0 \in 0..Deepest /\ \A k \in 1..Deepest : k \in 0..Deepest /\ k # 0
      BY <1>0
    <2>2. QED
      BY <1>7, <2>1, Zenon
  <1>9. QED
    BY <1>5, <1>8 DEF f

Follows(v, n, g) == g = [k \in 0..n |-> IF k = 0 THEN v ELSE LogValue(g[k - 1])]
ChainOf(v) == CHOOSE g : Follows(v, MaxLogValues, g)

(* A chain of LogValuers is followed a LogValuer at a time. *)
LEMMA ChainUnfolds ==
    ASSUME NEW v
    PROVE  /\ resolve(v) = IF ChainOf(v)[MaxLogValues - 1].kind = "valuer" THEN Unloggable ELSE ChainOf(v)[MaxLogValues - 1]
           /\ ChainOf(v)[0] = v
           /\ \A k \in 1..MaxLogValues : ChainOf(v)[k] = LogValue(ChainOf(v)[k - 1])
  <1> DEFINE Good == {m \in 0..MaxLogValues : \E g : Follows(v, m, g)}
  <1>0. MaxLogValues \in Nat
    BY LogAssumption
  <1>1. 0 \in Good
    <2> DEFINE g == [k \in 0..0 |-> v]
    <2>1. Follows(v, 0, g)
      BY DEF Follows
    <2>2. QED
      BY <1>0, <2>1
  <1>2. ASSUME NEW m \in 1..MaxLogValues, m - 1 \in Good PROVE m \in Good
    <2>1. PICK g : Follows(v, m - 1, g)
      BY <1>2
    <2> DEFINE h == [k \in 0..m |-> IF k = m THEN LogValue(g[m - 1]) ELSE g[k]]
    <2>2. \A k \in 0..(m - 1) : g[k] = IF k = 0 THEN v ELSE LogValue(g[k - 1])
      BY <2>1 DEF Follows
    <2>3. ASSUME NEW k \in 0..m
          PROVE  h[k] = IF k = 0 THEN v ELSE LogValue(h[k - 1])
      <3>1. CASE k = m
        <4>1. h[k] = LogValue(g[m - 1]) /\ h[m - 1] = g[m - 1] /\ m # 0
          BY <3>1
        <4> HIDE DEF h
        <4>2. QED
          BY <3>1, <4>1
      <3>2. CASE k # m
        <4>1. h[k] = g[k] /\ k \in 0..(m - 1) /\ (k # 0 => h[k - 1] = g[k - 1])
          BY <3>2
        <4> HIDE DEF h
        <4>2. QED
          BY <2>2, <4>1
      <3>3. QED
        BY <3>1, <3>2
    <2>4. h = [k \in 0..m |-> h[k]]
      OBVIOUS
    <2> HIDE DEF h
    <2>5. Follows(v, m, h)
      BY <2>3, <2>4 DEF Follows
    <2>6. QED
      BY <1>0, <2>5
  <1>3. MaxLogValues \in Good
    <2> HIDE DEF Good
    <2>1. 0..MaxLogValues \subseteq Good
      BY <1>0, <1>1, <1>2, UpTo
    <2>2. QED
      BY <1>0, <2>1
  <1>4. Follows(v, MaxLogValues, ChainOf(v))
    BY <1>3 DEF ChainOf
  <1>5. resolve(v) = IF ChainOf(v)[MaxLogValues - 1].kind = "valuer" THEN Unloggable ELSE ChainOf(v)[MaxLogValues - 1]
    BY DEF resolve, ChainOf, Follows
  <1> DEFINE f == ChainOf(v)
  <1>6. f = [k \in 0..MaxLogValues |-> IF k = 0 THEN v ELSE LogValue(f[k - 1])]
    BY <1>4 DEF Follows
  <1> HIDE DEF f
  <1>7. \A k \in 0..MaxLogValues : f[k] = IF k = 0 THEN v ELSE LogValue(f[k - 1])
    BY <1>6, Zenon
  <1>8. f[0] = v /\ \A k \in 1..MaxLogValues : f[k] = LogValue(f[k - 1])
    <2>1. 0 \in 0..MaxLogValues /\ \A k \in 1..MaxLogValues : k \in 0..MaxLogValues /\ k # 0
      BY <1>0
    <2>2. QED
      BY <1>7, <2>1, Zenon
  <1>9. QED
    BY <1>5, <1>8 DEF f

Sanitizes(a, n, g) == g = [k \in 0..n |-> IF k = 0 THEN [v \in Held(a) |-> Unloggable] ELSE SanitizeLevel(a, g[k - 1])]
SanitizeAt(a) == CHOOSE g : Sanitizes(a, MaxDepth, g)

(* What sanitize makes of a level is made of the level below. *)
LEMMA SanitizeUnfolds ==
    ASSUME NEW a
    PROVE  /\ sanitize(a) = SanitizeAt(a)
           /\ SanitizeAt(a)[0] = [v \in Held(a) |-> Unloggable]
           /\ \A k \in 1..MaxDepth : SanitizeAt(a)[k] = SanitizeLevel(a, SanitizeAt(a)[k - 1])
  <1> DEFINE Good == {m \in 0..MaxDepth : \E g : Sanitizes(a, m, g)}
  <1>0. MaxDepth \in Nat
    BY LogAssumption
  <1>1. 0 \in Good
    <2> DEFINE g == [k \in 0..0 |-> [v \in Held(a) |-> Unloggable]]
    <2>1. Sanitizes(a, 0, g)
      BY DEF Sanitizes
    <2>2. QED
      BY <1>0, <2>1
  <1>2. ASSUME NEW m \in 1..MaxDepth, m - 1 \in Good PROVE m \in Good
    <2>1. PICK g : Sanitizes(a, m - 1, g)
      BY <1>2
    <2> DEFINE h == [k \in 0..m |-> IF k = m THEN SanitizeLevel(a, g[m - 1]) ELSE g[k]]
    <2>2. \A k \in 0..(m - 1) : g[k] = IF k = 0 THEN [v \in Held(a) |-> Unloggable] ELSE SanitizeLevel(a, g[k - 1])
      BY <2>1 DEF Sanitizes
    <2>3. ASSUME NEW k \in 0..m
          PROVE  h[k] = IF k = 0 THEN [v \in Held(a) |-> Unloggable] ELSE SanitizeLevel(a, h[k - 1])
      <3>1. CASE k = m
        <4>1. h[k] = SanitizeLevel(a, g[m - 1]) /\ h[m - 1] = g[m - 1] /\ m # 0
          BY <3>1
        <4> HIDE DEF h
        <4>2. QED
          BY <3>1, <4>1
      <3>2. CASE k # m
        <4>1. h[k] = g[k] /\ k \in 0..(m - 1) /\ (k # 0 => h[k - 1] = g[k - 1])
          BY <3>2
        <4> HIDE DEF h
        <4>2. QED
          BY <2>2, <4>1
      <3>3. QED
        BY <3>1, <3>2
    <2>4. h = [k \in 0..m |-> h[k]]
      OBVIOUS
    <2> HIDE DEF h
    <2>5. Sanitizes(a, m, h)
      BY <2>3, <2>4 DEF Sanitizes
    <2>6. QED
      BY <1>0, <2>5
  <1>3. MaxDepth \in Good
    <2> HIDE DEF Good
    <2>1. 0..MaxDepth \subseteq Good
      BY <1>0, <1>1, <1>2, UpTo
    <2>2. QED
      BY <1>0, <2>1
  <1>4. Sanitizes(a, MaxDepth, SanitizeAt(a))
    BY <1>3 DEF SanitizeAt
  <1>5. sanitize(a) = SanitizeAt(a)
    BY DEF sanitize, SanitizeAt, Sanitizes
  <1> DEFINE f == SanitizeAt(a)
  <1>6. f = [k \in 0..MaxDepth |-> IF k = 0 THEN [v \in Held(a) |-> Unloggable] ELSE SanitizeLevel(a, f[k - 1])]
    BY <1>4 DEF Sanitizes
  <1> HIDE DEF f
  <1>7. \A k \in 0..MaxDepth : f[k] = IF k = 0 THEN [v \in Held(a) |-> Unloggable] ELSE SanitizeLevel(a, f[k - 1])
    BY <1>6, Zenon
  <1>8. f[0] = [v \in Held(a) |-> Unloggable] /\ \A k \in 1..MaxDepth : f[k] = SanitizeLevel(a, f[k - 1])
    <2>1. 0 \in 0..MaxDepth /\ \A k \in 1..MaxDepth : k \in 0..MaxDepth /\ k # 0
      BY <1>0
    <2>2. QED
      BY <1>7, <2>1, Zenon
  <1>9. QED
    BY <1>5, <1>8 DEF f

Processes(a, n, g) == g = [k \in 0..n |-> IF k = 0 THEN [b \in Within(a) |-> Unloggable] ELSE ProcessLevel(a, k, g[k - 1])]
ProcessAt(a) == CHOOSE g : Processes(a, MaxDepth, g)

(* What process makes of a level is made of the level below. *)
LEMMA ProcessUnfolds ==
    ASSUME NEW a
    PROVE  /\ processed(a) = ProcessAt(a)
           /\ ProcessAt(a)[0] = [b \in Within(a) |-> Unloggable]
           /\ \A k \in 1..MaxDepth : ProcessAt(a)[k] = ProcessLevel(a, k, ProcessAt(a)[k - 1])
  <1> DEFINE Good == {m \in 0..MaxDepth : \E g : Processes(a, m, g)}
  <1>0. MaxDepth \in Nat
    BY LogAssumption
  <1>1. 0 \in Good
    <2> DEFINE g == [k \in 0..0 |-> [b \in Within(a) |-> Unloggable]]
    <2>1. Processes(a, 0, g)
      BY DEF Processes
    <2>2. QED
      BY <1>0, <2>1
  <1>2. ASSUME NEW m \in 1..MaxDepth, m - 1 \in Good PROVE m \in Good
    <2>1. PICK g : Processes(a, m - 1, g)
      BY <1>2
    <2> DEFINE h == [k \in 0..m |-> IF k = m THEN ProcessLevel(a, m, g[m - 1]) ELSE g[k]]
    <2>2. \A k \in 0..(m - 1) : g[k] = IF k = 0 THEN [b \in Within(a) |-> Unloggable] ELSE ProcessLevel(a, k, g[k - 1])
      BY <2>1 DEF Processes
    <2>3. ASSUME NEW k \in 0..m
          PROVE  h[k] = IF k = 0 THEN [b \in Within(a) |-> Unloggable] ELSE ProcessLevel(a, k, h[k - 1])
      <3>1. CASE k = m
        <4>1. h[k] = ProcessLevel(a, m, g[m - 1]) /\ h[m - 1] = g[m - 1] /\ m # 0
          BY <3>1
        <4> HIDE DEF h
        <4>2. QED
          BY <3>1, <4>1
      <3>2. CASE k # m
        <4>1. h[k] = g[k] /\ k \in 0..(m - 1) /\ (k # 0 => h[k - 1] = g[k - 1])
          BY <3>2
        <4> HIDE DEF h
        <4>2. QED
          BY <2>2, <4>1
      <3>3. QED
        BY <3>1, <3>2
    <2>4. h = [k \in 0..m |-> h[k]]
      OBVIOUS
    <2> HIDE DEF h
    <2>5. Processes(a, m, h)
      BY <2>3, <2>4 DEF Processes
    <2>6. QED
      BY <1>0, <2>5
  <1>3. MaxDepth \in Good
    <2> HIDE DEF Good
    <2>1. 0..MaxDepth \subseteq Good
      BY <1>0, <1>1, <1>2, UpTo
    <2>2. QED
      BY <1>0, <2>1
  <1>4. Processes(a, MaxDepth, ProcessAt(a))
    BY <1>3 DEF ProcessAt
  <1>5. processed(a) = ProcessAt(a)
    BY DEF processed, ProcessAt, Processes
  <1> DEFINE f == ProcessAt(a)
  <1>6. f = [k \in 0..MaxDepth |-> IF k = 0 THEN [b \in Within(a) |-> Unloggable] ELSE ProcessLevel(a, k, f[k - 1])]
    BY <1>4 DEF Processes
  <1> HIDE DEF f
  <1>7. \A k \in 0..MaxDepth : f[k] = IF k = 0 THEN [b \in Within(a) |-> Unloggable] ELSE ProcessLevel(a, k, f[k - 1])
    BY <1>6, Zenon
  <1>8. f[0] = [b \in Within(a) |-> Unloggable] /\ \A k \in 1..MaxDepth : f[k] = ProcessLevel(a, k, f[k - 1])
    <2>1. 0 \in 0..MaxDepth /\ \A k \in 1..MaxDepth : k \in 0..MaxDepth /\ k # 0
      BY <1>0
    <2>2. QED
      BY <1>7, <2>1, Zenon
  <1>9. QED
    BY <1>5, <1>8 DEF f

Enriches(attrs, extracted, n, g) == g = [k \in 0..n |-> IF k = 0 THEN attrs ELSE (IF extracted[k].key \in Keys(attrs) THEN g[k - 1] ELSE Append(g[k - 1], extracted[k]))]
EnrichedBy(attrs, extracted) == CHOOSE g : Enriches(attrs, extracted, Len(extracted), g)

(* The attrs of the ctx are added one at a time. *)
LEMMA EnrichUnfolds ==
    ASSUME NEW S, NEW attrs, NEW extracted \in Seq(S)
    PROVE  /\ Enrich(attrs, extracted) = EnrichedBy(attrs, extracted)[Len(extracted)]
           /\ EnrichedBy(attrs, extracted)[0] = attrs
           /\ \A k \in 1..Len(extracted) : EnrichedBy(attrs, extracted)[k] = (IF extracted[k].key \in Keys(attrs) THEN EnrichedBy(attrs, extracted)[k - 1] ELSE Append(EnrichedBy(attrs, extracted)[k - 1], extracted[k]))
  <1> DEFINE Good == {m \in 0..Len(extracted) : \E g : Enriches(attrs, extracted, m, g)}
  <1>0. Len(extracted) \in Nat
    OBVIOUS
  <1>1. 0 \in Good
    <2> DEFINE g == [k \in 0..0 |-> attrs]
    <2>1. Enriches(attrs, extracted, 0, g)
      BY DEF Enriches
    <2>2. QED
      BY <1>0, <2>1
  <1>2. ASSUME NEW m \in 1..Len(extracted), m - 1 \in Good PROVE m \in Good
    <2>1. PICK g : Enriches(attrs, extracted, m - 1, g)
      BY <1>2
    <2> DEFINE h == [k \in 0..m |-> IF k = m THEN (IF extracted[m].key \in Keys(attrs) THEN g[m - 1] ELSE Append(g[m - 1], extracted[m])) ELSE g[k]]
    <2>2. \A k \in 0..(m - 1) : g[k] = IF k = 0 THEN attrs ELSE (IF extracted[k].key \in Keys(attrs) THEN g[k - 1] ELSE Append(g[k - 1], extracted[k]))
      BY <2>1 DEF Enriches
    <2>3. ASSUME NEW k \in 0..m
          PROVE  h[k] = IF k = 0 THEN attrs ELSE (IF extracted[k].key \in Keys(attrs) THEN h[k - 1] ELSE Append(h[k - 1], extracted[k]))
      <3>1. CASE k = m
        <4>1. h[k] = (IF extracted[m].key \in Keys(attrs) THEN g[m - 1] ELSE Append(g[m - 1], extracted[m])) /\ h[m - 1] = g[m - 1] /\ m # 0
          BY <3>1
        <4> HIDE DEF h
        <4>2. QED
          BY <3>1, <4>1
      <3>2. CASE k # m
        <4>1. h[k] = g[k] /\ k \in 0..(m - 1) /\ (k # 0 => h[k - 1] = g[k - 1])
          BY <3>2
        <4> HIDE DEF h
        <4>2. QED
          BY <2>2, <4>1
      <3>3. QED
        BY <3>1, <3>2
    <2>4. h = [k \in 0..m |-> h[k]]
      OBVIOUS
    <2> HIDE DEF h
    <2>5. Enriches(attrs, extracted, m, h)
      BY <2>3, <2>4 DEF Enriches
    <2>6. QED
      BY <1>0, <2>5
  <1>3. Len(extracted) \in Good
    <2> HIDE DEF Good
    <2>1. 0..Len(extracted) \subseteq Good
      BY <1>0, <1>1, <1>2, UpTo
    <2>2. QED
      BY <1>0, <2>1
  <1>4. Enriches(attrs, extracted, Len(extracted), EnrichedBy(attrs, extracted))
    BY <1>3 DEF EnrichedBy
  <1>5. Enrich(attrs, extracted) = EnrichedBy(attrs, extracted)[Len(extracted)]
    BY DEF Enrich, EnrichedBy, Enriches
  <1> DEFINE f == EnrichedBy(attrs, extracted)
  <1>6. f = [k \in 0..Len(extracted) |-> IF k = 0 THEN attrs ELSE (IF extracted[k].key \in Keys(attrs) THEN f[k - 1] ELSE Append(f[k - 1], extracted[k]))]
    BY <1>4 DEF Enriches
  <1> HIDE DEF f
  <1>7. \A k \in 0..Len(extracted) : f[k] = IF k = 0 THEN attrs ELSE (IF extracted[k].key \in Keys(attrs) THEN f[k - 1] ELSE Append(f[k - 1], extracted[k]))
    BY <1>6, Zenon
  <1>8. f[0] = attrs /\ \A k \in 1..Len(extracted) : f[k] = (IF extracted[k].key \in Keys(attrs) THEN f[k - 1] ELSE Append(f[k - 1], extracted[k]))
    <2>1. 0 \in 0..Len(extracted) /\ \A k \in 1..Len(extracted) : k \in 0..Len(extracted) /\ k # 0
      BY <1>0
    <2>2. QED
      BY <1>7, <2>1, Zenon
  <1>9. QED
    BY <1>5, <1>8 DEF f

-----------------------------------------------------------------------------
(***************************************************************************)
(* What redaction lets through.                                            *)
(***************************************************************************)

(* A set that keeps to itself holds whatever one of its attrs reaches. *)
LEMMA ReachedIsLeast ==
    ASSUME NEW a, NEW all \in BOOLEAN, NEW S, a \in S,
           \A b \in S : (all \/ ~Ruled(b.key)) => ToSet(b.val.kids) \subseteq S
    PROVE  Reached(a, all) \subseteq S
  <1> DEFINE L == LevelsOf(a, all)
             Good == {n \in 0..Deepest : L[n] \subseteq S}
  <1>0. Deepest \in Nat
    BY LogAssumption
  <1>1. L[0] = {a} /\ \A n \in 1..Deepest : L[n] = Kids(L[n - 1], all)
    BY LevelsUnfold
  <1>2. Reached(a, all) = UNION {L[n] : n \in 0..Deepest}
    BY LevelsUnfold
  <1> HIDE DEF L
  <1>3. 0 \in Good
    BY <1>0, <1>1
  <1>4. ASSUME NEW n \in 1..Deepest, n - 1 \in Good PROVE n \in Good
    <2>1. L[n - 1] \subseteq S /\ L[n] = Kids(L[n - 1], all)
      BY <1>1, <1>4
    <2>2. Kids(L[n - 1], all) \subseteq S
      BY <2>1 DEF Kids
    <2>3. QED
      BY <2>1, <2>2
  <1>5. 0..Deepest \subseteq Good
    <2> HIDE DEF Good
    <2>1. QED
      BY <1>0, <1>3, <1>4, UpTo
  <1>6. QED
    BY <1>2, <1>5

LEMMA ReachesItself == ASSUME NEW a, NEW all \in BOOLEAN PROVE a \in Reached(a, all)
  <1>1. LevelsOf(a, all)[0] = {a} /\ Reached(a, all) = UNION {LevelsOf(a, all)[n] : n \in 0..Deepest}
    BY LevelsUnfold
  <1>2. 0 \in 0..Deepest
    BY LogAssumption
  <1>3. QED
    BY <1>1, <1>2

LEMMA OpenIsWithin == ASSUME NEW a, Loggable(a) PROVE Open(a) \subseteq Within(a)
  <1>1. a \in Within(a) /\ \A b \in Within(a) : ToSet(b.val.kids) \subseteq Within(a)
    BY ReachesItself DEF Within, Loggable
  <1>2. QED
    BY <1>1, ReachedIsLeast DEF Open

(* resolve ends at a value that is reached, or gives up. *)
LEMMA ResolveStays ==
    ASSUME NEW S, NEW b \in S,
           \A c \in S : /\ c.val.kids \in Seq(ToSet(c.val.kids))
                        /\ c.val.kind = "valuer" => ToSet(c.val.kids) \subseteq S
    PROVE  resolve(b.val) = Unloggable \/ \E c \in S : resolve(b.val) = c.val /\ c.val.kind # "valuer"
  <1> DEFINE C == ChainOf(b.val)
             Good == {n \in 0..MaxLogValues : C[n] = Unloggable \/ \E c \in S : C[n] = c.val}
  <1>0. MaxLogValues \in Nat /\ MaxLogValues - 1 \in 0..MaxLogValues
    BY LogAssumption
  <1>1. C[0] = b.val /\ \A n \in 1..MaxLogValues : C[n] = LogValue(C[n - 1])
    BY ChainUnfolds
  <1>2. resolve(b.val) = IF C[MaxLogValues - 1].kind = "valuer" THEN Unloggable ELSE C[MaxLogValues - 1]
    BY ChainUnfolds
  <1> HIDE DEF C
  <1>3. 0 \in Good
    BY <1>0, <1>1
  <1>4. ASSUME NEW n \in 1..MaxLogValues, n - 1 \in Good PROVE n \in Good
    <2>1. C[n] = LogValue(C[n - 1])
      BY <1>1
    <2>2. CASE C[n - 1] = Unloggable
      BY <2>1, <2>2 DEF LogValue, Unloggable, Fixed, Value
    <2>3. CASE \E c \in S : C[n - 1] = c.val
      <3>1. PICK c \in S : C[n - 1] = c.val
        BY <2>3
      <3> DEFINE kids == c.val.kids
      <3>2. kids \in Seq(ToSet(kids)) /\ (c.val.kind = "valuer" => ToSet(kids) \subseteq S)
        OBVIOUS
      <3>3. kids # <<>> => kids[1] \in ToSet(kids)
        BY <3>2 DEF ToSet
      <3>4. LogValue(c.val) = IF c.val.kind # "valuer" THEN c.val ELSE IF kids = <<>> THEN Unloggable ELSE kids[1].val
        BY DEF LogValue
      <3> HIDE DEF kids
      <3>5. QED
        BY <2>1, <3>1, <3>2, <3>3, <3>4
    <2>4. QED
      BY <1>4, <2>2, <2>3
  <1>5. 0..MaxLogValues \subseteq Good
    <2> HIDE DEF Good
    <2>1. QED
      BY <1>0, <1>3, <1>4, UpTo
  <1>6. QED
    BY <1>0, <1>2, <1>5

(* What redaction writes in place of a value: it holds nothing and cannot be read in full. *)
Hidden(v) == v.kids = <<>> /\ ~InFull(v)

LEMMA FixedHides == ASSUME NEW text PROVE Hidden(Fixed(text)) /\ Fixed(text).len = 0
  BY DEF Hidden, Fixed, Value, InFull

(* A mask hides a rune at least: the one after the leading ones. *)
LEMMA MaskHides ==
    ASSUME NEW n \in Nat, n > 0, NEW m, m.first \in Int, m.last \in Int
    PROVE  maskString(n, m) # 1..n
  <1> DEFINE first == NonNeg(m.first)
             last == NonNeg(m.last)
  <1>1. first \in Nat /\ last \in Nat
    BY DEF NonNeg
  <1>2. maskString(n, m) = IF NoMiddle(n, first, last) THEN {} ELSE {k \in 1..n : k <= first \/ k > n - last}
    BY DEF maskString
  <1> HIDE DEF first, last
  <1>3. CASE NoMiddle(n, first, last)
    <2>1. 1 \in 1..n
      OBVIOUS
    <2>2. QED
      BY <1>2, <1>3, <2>1
  <1>4. CASE ~NoMiddle(n, first, last)
    <2>1. first + 1 \in 1..n /\ ~(first + 1 <= first \/ first + 1 > n - last)
      BY <1>1, <1>4 DEF NoMiddle
    <2>2. QED
      BY <1>2, <1>4, <2>1
  <1>5. QED
    BY <1>3, <1>4

LEMMA ApplyHides ==
    ASSUME NEW key, NEW v, Ruled(key), v.len \in Nat
    PROVE  Hidden(Apply(key, v))
  <1>1. CASE IsRedacted(Lower(key))
    BY <1>1, FixedHides DEF Apply
  <1>2. CASE ~IsRedacted(Lower(key))
    <2> DEFINE m == Masked[Lower(key)]
               w == [kind |-> "masked", text |-> v.text, len |-> v.len, kids |-> <<>>, shown |-> maskString(v.len, m)]
    <2>1. m.first \in Int /\ m.last \in Int
      BY <1>2, LogAssumption DEF Ruled, IsRedacted
    <2>2. Apply(key, v) = w
      BY <1>2 DEF Apply, Value
    <2>3. v.len > 0 => maskString(v.len, m) # 1..v.len
      BY <2>1, MaskHides
    <2>4. w.kids = <<>> /\ w.len = v.len /\ w.kind = "masked" /\ w.shown = maskString(v.len, m)
      OBVIOUS
    <2> HIDE DEF w, m
    <2>5. QED
      BY <2>2, <2>3, <2>4 DEF Hidden, InFull
  <1>3. QED
    BY <1>1, <1>2

(* What no rule is for. *)
Unruled(a) == {b \in Open(a) : ~Ruled(b.key)}
GoValue(v) == v.kind \in Scalar \cup Nested

LEMMA LoggableParts ==
    ASSUME NEW a, Loggable(a), NEW b \in Open(a)
    PROVE  LET v == b.val IN
           /\ b \in Within(a) /\ v \in Held(a) /\ v.len \in Nat
           /\ v.kids \in Seq(ToSet(v.kids)) /\ ToSet(v.kids) \subseteq Within(a)
           /\ v = [kind |-> v.kind, text |-> v.text, len |-> v.len, kids |-> v.kids, shown |-> {}]
           /\ v.kind \in Scalar \cup Nested \cup {"group", "valuer"}
           /\ v.kind \in Scalar => v.kids = <<>>
           /\ v.kind = "valuer" => \A kid \in ToSet(v.kids) : kid.key = ""
           /\ v.kind \in Nested => \A kid \in ToSet(v.kids) : GoValue(kid.val)
           /\ ~Ruled(b.key) => ToSet(v.kids) \subseteq Open(a)
           /\ \A k \in DOMAIN v.kids : v.kids[k] \in ToSet(v.kids)
  <1>1. b \in Within(a)
    BY OpenIsWithin
  <1>2. b.val \in Held(a)
    BY <1>1 DEF Held
  <1>3. QED
    BY <1>1, <1>2 DEF Loggable, Value, GoValue, ToSet

(* Of a value that no rule is for, sanitize keeps what can be read, and hides the rest below it. *)
SanitizedPart(a, x) == \E b \in Unruled(a), n \in 0..MaxDepth : GoValue(b.val) /\ x = Attr(b.key, sanitize(a)[n][b.val])

LEMMA SanitizeHides ==
    ASSUME NEW a, Loggable(a), NEW b \in Unruled(a), GoValue(b.val), NEW n \in 0..MaxDepth
    PROVE  LET w == sanitize(a)[n][b.val] IN
           /\ InFull(w) => w.text \in Public(a)
           /\ \A kid \in ToSet(w.kids) : SanitizedPart(a, kid) \/ Hidden(kid.val)
  <1> DEFINE v == b.val
             w == sanitize(a)[n][v]
             under == sanitize(a)[n - 1]
  <1>1. b \in Open(a) /\ ~Ruled(b.key)
    BY DEF Unruled
  <1>2. CASE n = 0
    <2>1. w = Unloggable
      <3>1. v \in Held(a)
        BY <1>1, LoggableParts
      <3>2. sanitize(a)[0] = [u \in Held(a) |-> Unloggable]
        BY SanitizeUnfolds
      <3>3. QED
        BY <1>2, <3>1, <3>2
    <2>2. ToSet(w.kids) = {} /\ ~InFull(w)
      BY <2>1, FixedHides DEF Unloggable, Hidden, ToSet
    <2>3. QED
      BY <2>2
  <1>3. CASE n # 0
    <2>1. w = IF v.kind \notin Nested THEN v
              ELSE [v EXCEPT !.kids = [k \in DOMAIN v.kids |->
                      LET c == v.kids[k] IN
                      Attr(c.key, IF Ruled(c.key) THEN Apply(c.key, c.val) ELSE under[c.val])]]
      <3>1. v \in Held(a)
        BY <1>1, LoggableParts
      <3>2. n \in 1..MaxDepth
        BY <1>3, LogAssumption
      <3>3. sanitize(a)[n] = SanitizeLevel(a, under)
        BY <3>2, SanitizeUnfolds
      <3> HIDE DEF under, v
      <3>4. QED
        BY <3>1, <3>3 DEF SanitizeLevel
    <2>2. CASE v.kind \notin Nested
      <3>1. w = v /\ v.kids = <<>>
        BY <1>1, <2>1, <2>2, LoggableParts DEF GoValue
      <3>2. ToSet(w.kids) = {}
        BY <3>1 DEF ToSet
      <3>3. InFull(w) => w.text \in Public(a)
        BY <1>1, <3>1 DEF Public
      <3>4. QED
        BY <3>2, <3>3
    <2>3. CASE v.kind \in Nested
      <3> DEFINE kids == [k \in DOMAIN v.kids |->
                            LET c == v.kids[k] IN
                            Attr(c.key, IF Ruled(c.key) THEN Apply(c.key, c.val) ELSE under[c.val])]
      <3>1. w.kind = v.kind /\ w.kids = kids
        <4>1. v = [kind |-> v.kind, text |-> v.text, len |-> v.len, kids |-> v.kids, shown |-> {}]
          BY <1>1, LoggableParts
        <4>2. w = [v EXCEPT !.kids = kids]
          BY <2>1, <2>3
        <4> HIDE DEF kids, v, w
        <4>3. QED
          BY <4>1, <4>2
      <3>2. ~InFull(w)
        BY <2>3, <3>1, SMTT(30) DEF InFull, Nested
      <3>3. ASSUME NEW k \in DOMAIN v.kids PROVE SanitizedPart(a, kids[k]) \/ Hidden(kids[k].val)
        <4> DEFINE c == v.kids[k]
        <4>1. c \in Open(a) /\ GoValue(c.val)
          BY <1>1, <2>3, LoggableParts, ZenonT(30)
        <4>2. CASE Ruled(c.key)
          <5>1. Hidden(Apply(c.key, c.val))
            BY <4>1, <4>2, LoggableParts, ApplyHides
          <5>2. kids[k].val = Apply(c.key, c.val)
            BY <4>2 DEF Attr
          <5>3. QED
            BY <5>1, <5>2
        <4>3. CASE ~Ruled(c.key)
          <5>1. c \in Unruled(a) /\ n - 1 \in 0..MaxDepth
            BY <1>3, <4>1, <4>3, LogAssumption DEF Unruled
          <5>2. kids[k] = Attr(c.key, sanitize(a)[n - 1][c.val])
            BY <4>3, SMTT(30)
          <5> HIDE DEF c, kids
          <5>3. QED
            BY <4>1, <5>1, <5>2 DEF SanitizedPart
        <4>4. QED
          BY <4>2, <4>3
      <3>4. \A kid \in ToSet(w.kids) : \E k \in DOMAIN v.kids : kid = kids[k]
        BY <3>1 DEF ToSet
      <3> HIDE DEF kids, w
      <3>5. QED
        BY <3>2, <3>3, <3>4 DEF w
    <2>4. QED
      BY <2>2, <2>3
  <1>4. QED
    BY <1>2, <1>3

(* And so does process, of an attr that no ruled one holds. *)
ProcessedPart(a, x) == \E b \in Open(a), n \in 0..MaxDepth : x = Attr(b.key, processed(a)[n][b])

LEMMA ResolvedValue ==
    ASSUME NEW a, Loggable(a), NEW b \in Open(a)
    PROVE  LET v == resolve(b.val) IN
           \/ v = Unloggable
           \/ \E c \in Within(a) : v = c.val /\ v.kind # "valuer" /\ (~Ruled(b.key) => c \in Unruled(a))
  <1>1. CASE ~Ruled(b.key)
    <2>1. ASSUME NEW c \in Unruled(a)
          PROVE  /\ c.val.kids \in Seq(ToSet(c.val.kids))
                 /\ c.val.kind = "valuer" => ToSet(c.val.kids) \subseteq Unruled(a)
      <3>1. c \in Open(a) /\ ~Ruled(c.key)
        BY DEF Unruled
      <3>2. \A x : x.key = "" => ~Ruled(x.key)
        BY DEF Ruled
      <3>3. c.val.kids \in Seq(ToSet(c.val.kids)) /\ ToSet(c.val.kids) \subseteq Open(a)
        BY <3>1, LoggableParts
      <3>4. c.val.kind = "valuer" => \A x \in ToSet(c.val.kids) : x.key = ""
        BY <3>1, LoggableParts
      <3>5. QED
        BY <3>2, <3>3, <3>4 DEF Unruled
    <2>2. b \in Unruled(a) /\ Unruled(a) \subseteq Within(a)
      BY <1>1, OpenIsWithin DEF Unruled
    <2>3. QED
      BY <2>1, <2>2, ResolveStays
  <1>2. CASE Ruled(b.key)
    <2>1. b \in Within(a)
      BY OpenIsWithin
    <2>2. \A c \in Within(a) : c.val.kids \in Seq(ToSet(c.val.kids)) /\ ToSet(c.val.kids) \subseteq Within(a)
      BY DEF Loggable
    <2>3. QED
      BY <1>2, <2>1, <2>2, ResolveStays
  <1>3. QED
    BY <1>1, <1>2

LEMMA ProcessHides ==
    ASSUME NEW a, Loggable(a), NEW b \in Open(a), NEW n \in 0..MaxDepth
    PROVE  LET w == processed(a)[n][b] IN
           /\ InFull(w) => w.text \in Public(a)
           /\ \A kid \in ToSet(w.kids) : ProcessedPart(a, kid) \/ SanitizedPart(a, kid) \/ Hidden(kid.val)
  <1> DEFINE v == resolve(b.val)
             w == processed(a)[n][b]
             under == processed(a)[n - 1]
  <1>0. SUFFICES \/ Hidden(w)
                 \/ /\ InFull(w) => w.text \in Public(a)
                    /\ \A kid \in ToSet(w.kids) : ProcessedPart(a, kid) \/ SanitizedPart(a, kid) \/ Hidden(kid.val)
    BY DEF Hidden, ToSet
  <1>1. b \in Within(a)
    BY OpenIsWithin
  <1>2. CASE n = 0
    <2>1. processed(a)[0] = [c \in Within(a) |-> Unloggable]
      BY ProcessUnfolds
    <2>2. w = Unloggable
      BY <1>1, <1>2, <2>1
    <2>3. QED
      BY <2>2, FixedHides DEF Unloggable
  <1>3. CASE n # 0
    <2>1. w = CASE Ruled(b.key) -> IF v = Unloggable /\ ~IsRedacted(Lower(b.key)) THEN v ELSE Apply(b.key, v)
                [] ~Ruled(b.key) /\ v = Unloggable -> v
                [] ~Ruled(b.key) /\ v.kind = "group" ->
                      [v EXCEPT !.kids = [k \in DOMAIN v.kids |-> Attr(v.kids[k].key, under[v.kids[k]])]]
                [] OTHER -> sanitize(a)[n][v]
      <3>1. n \in 1..MaxDepth
        BY <1>3, LogAssumption
      <3>2. processed(a)[n] = ProcessLevel(a, n, under)
        BY <3>1, ProcessUnfolds
      <3> HIDE DEF under
      <3>3. QED
        BY <1>1, <3>2 DEF ProcessLevel
    <2>2. Hidden(Unloggable) /\ Unloggable.len \in Nat
      BY FixedHides DEF Unloggable
    <2>3. CASE Ruled(b.key)
      <3>1. v.len \in Nat
        <4>1. \A c \in Within(a) : c.val.len \in Nat
          BY DEF Loggable
        <4> HIDE DEF v
        <4>2. QED
          BY <2>2, <4>1, ResolvedValue DEF v
      <3>2. Hidden(Apply(b.key, v))
        BY <2>3, <3>1, ApplyHides
      <3>3. w = Unloggable \/ w = Apply(b.key, v)
        <4> HIDE DEF v, under, w
        <4>1. QED
          BY <2>1, <2>3
      <3>4. QED
        BY <2>2, <3>2, <3>3
    <2>4. CASE ~Ruled(b.key) /\ v = Unloggable
      <3>1. w = Unloggable
        <4>1. v.kind # "group"
          BY <2>4 DEF Unloggable, Fixed, Value
        <4> HIDE DEF v, under, w
        <4>2. QED
          BY <2>1, <2>4, <4>1
      <3>2. QED
        BY <2>2, <3>1
    <2>5. CASE ~Ruled(b.key) /\ v # Unloggable
      <3>1. PICK c \in Unruled(a) : v = c.val /\ v.kind # "valuer"
        BY <2>5, ResolvedValue
      <3>2. c \in Open(a) /\ ~Ruled(c.key)
        BY DEF Unruled
      <3>3. CASE v.kind = "group"
        <4> DEFINE kids == [k \in DOMAIN v.kids |-> Attr(v.kids[k].key, under[v.kids[k]])]
        <4>1. w = [v EXCEPT !.kids = kids]
          <5> HIDE DEF v, w, kids
          <5>1. [v EXCEPT !.kids = [k \in DOMAIN v.kids |-> Attr(v.kids[k].key, under[v.kids[k]])]] = [v EXCEPT !.kids = kids]
            BY DEF kids
          <5> HIDE DEF under
          <5>2. QED
            BY <2>1, <2>5, <3>3, <5>1
        <4>2. w.kind = v.kind /\ w.kids = kids
          <5>1. v = [kind |-> v.kind, text |-> v.text, len |-> v.len, kids |-> v.kids, shown |-> {}]
            BY <3>1, <3>2, LoggableParts
          <5> HIDE DEF kids, v, w
          <5>2. QED
            BY <4>1, <5>1
        <4>3. ~InFull(w)
          BY <3>3, <4>2 DEF InFull
        <4>4. ASSUME NEW k \in DOMAIN v.kids PROVE ProcessedPart(a, kids[k])
          <5> DEFINE kid == v.kids[k]
          <5>1. kid \in Open(a)
            BY <3>1, <3>2, LoggableParts
          <5>2. kids[k] = Attr(kid.key, processed(a)[n - 1][kid]) /\ n - 1 \in 0..MaxDepth
            BY <1>3, LogAssumption
          <5> HIDE DEF kid, kids
          <5>3. QED
            BY <5>1, <5>2 DEF ProcessedPart
        <4>5. \A kid \in ToSet(w.kids) : \E k \in DOMAIN v.kids : kid = kids[k]
          BY <4>2 DEF ToSet
        <4> HIDE DEF kids, w, v
        <4>6. QED
          BY <4>3, <4>4, <4>5
      <3>4. CASE v.kind # "group"
        <4>1. w = sanitize(a)[n][c.val]
          <5> HIDE DEF v, under, w
          <5>1. QED
            BY <2>1, <2>5, <3>1, <3>4
        <4>2. GoValue(c.val)
          <5>1. c.val.kind \in Scalar \cup Nested \cup {"group", "valuer"}
            BY <3>2, LoggableParts
          <5> HIDE DEF v
          <5>2. QED
            BY <3>1, <3>4, <5>1 DEF GoValue
        <4> HIDE DEF w, v
        <4>3. QED
          BY <4>1, <4>2, SanitizeHides
      <3>5. QED
        BY <3>3, <3>4
    <2>6. QED
      BY <2>3, <2>4, <2>5
  <1>4. QED
    BY <1>2, <1>3

(* So what can be read in full of an attr that was logged is what no rule is for. *)
LEMMA ReadableIsPublic == ASSUME NEW a, Loggable(a) PROVE Readable(process(a)) \subseteq Public(a)
  <1> DEFINE Parts == {Attr(b.key, processed(a)[n][b]) : b \in Open(a), n \in 0..MaxDepth}
                        \cup {Attr(b.key, sanitize(a)[n][b.val]) : b \in Unruled(a), n \in 0..MaxDepth}
             S == {x \in Parts : ProcessedPart(a, x) \/ SanitizedPart(a, x)}
             H == {x \in UNION {ToSet(y.val.kids) : y \in S} : Hidden(x.val)}
             T == S \cup H
  <1>1. ASSUME NEW x, ProcessedPart(a, x) \/ SanitizedPart(a, x) PROVE x \in S
    BY <1>1 DEF ProcessedPart, SanitizedPart
  <1>2. ASSUME NEW x \in S
        PROVE  /\ InFull(x.val) => x.val.text \in Public(a)
               /\ \A kid \in ToSet(x.val.kids) : ProcessedPart(a, kid) \/ SanitizedPart(a, kid) \/ Hidden(kid.val)
    <2>1. CASE ProcessedPart(a, x)
      <3>1. PICK b \in Open(a), n \in 0..MaxDepth : x = Attr(b.key, processed(a)[n][b])
        BY <2>1 DEF ProcessedPart
      <3>2. x.val = processed(a)[n][b]
        BY <3>1 DEF Attr
      <3> HIDE DEF S
      <3>3. QED
        BY <3>2, ProcessHides
    <2>2. CASE SanitizedPart(a, x)
      <3>1. PICK b \in Unruled(a), n \in 0..MaxDepth : GoValue(b.val) /\ x = Attr(b.key, sanitize(a)[n][b.val])
        BY <2>2 DEF SanitizedPart
      <3>2. x.val = sanitize(a)[n][b.val]
        BY <3>1 DEF Attr
      <3> HIDE DEF S
      <3>3. QED
        BY <3>1, <3>2, SanitizeHides
    <2>3. QED
      BY <2>1, <2>2
  <1> HIDE DEF S
  <1>3. process(a) \in T
    <2>1. a \in Open(a)
      BY ReachesItself DEF Open
    <2>0. MaxDepth \in 0..MaxDepth
      BY LogAssumption
    <2>2. ProcessedPart(a, process(a))
      BY <2>0, <2>1 DEF ProcessedPart, process
    <2>3. QED
      BY <1>1, <2>2
  <1>4. \A x \in T : ToSet(x.val.kids) \subseteq T
    <2>1. \A x \in H : ToSet(x.val.kids) = {}
      BY DEF Hidden, ToSet
    <2>2. ASSUME NEW x \in S, NEW kid \in ToSet(x.val.kids) PROVE kid \in T
      <3>1. ProcessedPart(a, kid) \/ SanitizedPart(a, kid) \/ Hidden(kid.val)
        BY <1>2
      <3>2. QED
        BY <1>1, <3>1
    <2>3. QED
      BY <2>1, <2>2
  <1>5. \A x \in T : InFull(x.val) => x.val.text \in Public(a)
    BY <1>2 DEF Hidden
  <1> HIDE DEF T
  <1>6. Within(process(a)) \subseteq T
    BY <1>3, <1>4, ReachedIsLeast DEF Within
  <1>7. QED
    BY <1>5, <1>6 DEF Readable

-----------------------------------------------------------------------------
(* What a record is made of. *)
LEMMA EnrichIsSeq ==
    ASSUME NEW S, NEW attrs \in Seq(S), NEW extracted \in Seq(S)
    PROVE  Enrich(attrs, extracted) \in Seq(S)
  <1> DEFINE f == EnrichedBy(attrs, extracted)
             Good == {k \in 0..Len(extracted) : f[k] \in Seq(S)}
  <1>1. /\ Enrich(attrs, extracted) = f[Len(extracted)]
        /\ f[0] = attrs
        /\ \A k \in 1..Len(extracted) :
              f[k] = (IF extracted[k].key \in Keys(attrs) THEN f[k - 1] ELSE Append(f[k - 1], extracted[k]))
    BY EnrichUnfolds
  <1> HIDE DEF f
  <1>2. 0 \in Good
    BY <1>1
  <1>3. ASSUME NEW k \in 1..Len(extracted), k - 1 \in Good PROVE k \in Good
    <2>1. f[k - 1] \in Seq(S) /\ extracted[k] \in S
      BY <1>3
    <2>2. f[k] = f[k - 1] \/ f[k] = Append(f[k - 1], extracted[k])
      BY <1>1
    <2>3. f[k] \in Seq(S)
      <3>1. Append(f[k - 1], extracted[k]) \in Seq(S)
        BY <2>1, AppendProperties, Zenon
      <3>2. QED
        BY <2>1, <2>2, <3>1, Zenon
    <2>4. QED
      BY <2>3
  <1>4. 0..Len(extracted) \subseteq Good
    <2>1. Len(extracted) \in Nat
      OBVIOUS
    <2> HIDE DEF Good
    <2>2. QED
      BY <1>2, <1>3, <2>1, UpTo
  <1>5. QED
    BY <1>1, <1>4

LEMMA RecordOf ==
    ASSUME NEW S, NEW attrs \in Seq(S), NEW extracted \in Seq(S)
    PROVE  ToSet(Record(attrs, extracted)) \subseteq {process(a) : a \in S}
  <1> DEFINE e == Enrich(attrs, extracted)
  <1>1. e \in Seq(S)
    BY EnrichIsSeq
  <1>2. \A k \in DOMAIN e : e[k] \in S
    BY <1>1
  <1> HIDE DEF e
  <1>3. Record(attrs, extracted) = [k \in DOMAIN e |-> process(e[k])]
    BY DEF e, Record, Handle
  <1>4. QED
    BY <1>2, <1>3 DEF ToSet

(* The attrs that a record is made of: what the request brought, and the server's own. *)
OwnAttrs(i) == {Attr("truncated", Leaf("true", 4))} \cup {Attr("request_id", Leaf(t, 2)) : t \in {"none", "good", i}}
Said(i, in) == Brought(in) \cup OwnAttrs(i)
Written(i, in) == {process(a) : a \in Said(i, in)}

(* A leaf is all there is of it. *)
LEMMA LeafIsLoggable ==
    ASSUME NEW a, NEW key, NEW text, NEW len \in Nat, a = Attr(key, Leaf(text, len))
    PROVE  Loggable(a) /\ Public(a) \subseteq {text}
  <1>1. a.val = Leaf(text, len) /\ a.val.kids = <<>> /\ a.val.kind = "leaf" /\ a.val.text = text /\ a.val.len = len
    BY DEF Attr, Leaf, Value
  <1>2. ToSet(a.val.kids) = {}
    BY <1>1 DEF ToSet
  <1>3. Within(a) = {a} /\ Open(a) = {a}
    <2>1. \A b \in {a} : ToSet(b.val.kids) \subseteq {a}
      BY <1>2
    <2>2. Within(a) \subseteq {a} /\ Open(a) \subseteq {a} /\ a \in Within(a) /\ a \in Open(a)
      BY <2>1, ReachedIsLeast, ReachesItself DEF Within, Open
    <2>3. QED
      BY <2>2
  <1>4. Loggable(a)
    <2>1. a.val = Value(a.val.kind, a.val.text, a.val.len, a.val.kids)
      BY <1>1 DEF Leaf
    <2>2. <<>> \in Seq(ToSet(<<>>))
      OBVIOUS
    <2>3. QED
      BY <1>1, <1>2, <1>3, <2>1, <2>2 DEF Loggable, Scalar, Nested
  <1>5. Public(a) \subseteq {text}
    BY <1>1, <1>3 DEF Public
  <1>6. QED
    BY <1>4, <1>5

-----------------------------------------------------------------------------
(***************************************************************************)
(* What a request's lines are made of: the attrs named above, processed.   *)
(***************************************************************************)
Redacts == \A attrs, extracted : Logged(attrs, extracted) = Record(attrs, extracted)

LogInv(i, r) ==
    /\ r.id \in {"none", "good", i}
    /\ ToSet(r.line.attrs) \subseteq Written(i, r.in)
    /\ ToSet(r.noted) \subseteq Written(i, r.in)
    /\ ToSet(r.call.line) \subseteq Written(i, r.in)

Quoted(r, s) ==
    /\ DOMAIN s = DOMAIN r /\ s.in = r.in
    /\ s.id = r.id /\ s.line = r.line /\ s.noted = r.noted /\ s.call = r.call

LEMMA QuotedKeeps ==
    ASSUME NEW i, NEW r, NEW s, LogInv(i, r), Quoted(r, s)
    PROVE  LogInv(i, s)
  BY Zenon DEF LogInv, Quoted

(* The ways on and back say nothing. *)
LEMMA WaysAreQuiet ==
    ASSUME NEW r, DOMAIN r = Fields, NEW status
    PROVE  /\ Quoted(r, Down(r)) /\ Quoted(r, Up(r)) /\ Quoted(r, Panics(r))
           /\ Quoted(r, WriteHeader(r, status)) /\ Quoted(r, Refuse(r, status))
  <1>1. \A h : DOMAIN h = Fields => Quoted(h, Down(h)) /\ Quoted(h, Up(h)) /\ Quoted(h, Panics(h))
    BY DEF Fields, Quoted, Down, Up, Panics
  <1>2. Quoted(r, WriteHeader(r, status))
    BY DEF Fields, Quoted, WriteHeader
  <1>3. Quoted(r, Refuse(r, status))
    <2> DEFINE w == WriteHeader(r, status)
    <2>1. Quoted(r, w)
      BY <1>2
    <2> HIDE DEF w
    <2>2. Quoted(w, Up(w))
      BY <1>1, <2>1 DEF Quoted
    <2>3. Refuse(r, status) = Up(w)
      BY DEF Refuse, w
    <2>4. QED
      BY <2>1, <2>2, <2>3 DEF Quoted
  <1>4. QED
    BY <1>1, <1>2, <1>3

LEMMA BecomesIs ==
    ASSUME PipeInv, NEW i \in Request, NEW s, Becomes(i, s)
    PROVE  /\ req'[i] = s
           /\ \A j \in Request \ {i} : req'[j] = req[j]
  BY DEF PipeInv, Becomes

LEMMA GatesSayNothing ==
    ASSUME PipeInv, RunInv, NEW i \in Request,
           \/ RealIPEnter(i) \/ Trace(i) \/ SecureHeaders(i) \/ LoggerEnter(i) \/ RecoverEnter(i)
           \/ CORS(i) \/ RateLimit(i) \/ BodyLimit(i) \/ IdempotencyEnter(i) \/ Mux(i)
    PROVE  Quoted(req[i], req'[i])
  <1> DEFINE r == req[i]
  <1>1. PICK name : Enters(i, name)
    BY DEF RealIPEnter, Trace, SecureHeaders, LoggerEnter, RecoverEnter, CORS, RateLimit, BodyLimit,
           IdempotencyEnter, Mux
  <1>2. DOMAIN r = Fields /\ Sendable(r.in)
    BY <1>1, Entering DEF Core, Typed
  <1>3. PICK t, s : /\ Becomes(i, s) /\ Quoted(r, t)
                    /\ s = Down(t) \/ \E status : s = Refuse(t, status)
    <2>0. Quoted(r, r)
      BY DEF Quoted
    <2>1. CASE RealIPEnter(i)
      <3> DEFINE ip == RealIPFrom(r.in.peer, r.in.hdr)
                 t == [r EXCEPT !.ip = ip, !.remote = IF ip = NoAddr THEN @ ELSE ip]
      <3>1. Becomes(i, Down(t))
        BY <2>1 DEF RealIPEnter
      <3>2. Quoted(r, t)
        BY <1>2 DEF Quoted, Fields
      <3> HIDE DEF t
      <3>3. QED
        BY <3>1, <3>2
    <2>2. CASE Trace(i)
      <3> DEFINE a == r.in.tp = "valid"
                 t == [r EXCEPT !.trace = IF a THEN "inbound" ELSE i, !.span = "server",
                                !.flags = IF a THEN "inbound" ELSE "01"]
      <3>1. Becomes(i, Down(t)) \/ Becomes(i, Down(r))
        BY <2>2 DEF Trace
      <3>2. Quoted(r, t)
        BY <1>2 DEF Quoted, Fields
      <3> HIDE DEF t
      <3>3. QED
        BY <2>0, <3>1, <3>2
    <2>3. CASE SecureHeaders(i)
      <3> DEFINE t == [r EXCEPT !.head.secure = TRUE]
      <3>1. Becomes(i, Down(t))
        BY <2>3 DEF SecureHeaders
      <3>2. Quoted(r, t)
        BY <1>2 DEF Quoted, Fields
      <3> HIDE DEF t
      <3>3. QED
        BY <3>1, <3>2
    <2>4. CASE LoggerEnter(i)
      <3> DEFINE a == Min(free)
                 b == Min(free \ {a})
                 t == [r EXCEPT !.bufs = <<a, b>>,
                         !.prefix = Splices(r.rest), !.rest = r.rest - Smaller(r.rest, CaptureMax + 1)]
      <3>1. Becomes(i, Down(t))
        BY <2>4 DEF LoggerEnter
      <3>2. Quoted(r, t)
        BY <1>2 DEF Quoted, Fields
      <3> HIDE DEF t
      <3>3. QED
        BY <3>1, <3>2
    <2>5. CASE CORS(i)
      <3> DEFINE varied == [r EXCEPT !.head.vary = TRUE]
                 stamped == [varied EXCEPT !.head.origin = r.in.origin]
      <3>1. \/ Becomes(i, Down(varied)) \/ Becomes(i, Down(stamped))
            \/ Becomes(i, Refuse(varied, 204)) \/ Becomes(i, Refuse(stamped, 204))
        BY <2>5 DEF CORS
      <3>2. Quoted(r, varied) /\ Quoted(r, stamped)
        BY <1>2 DEF Quoted, Fields
      <3> HIDE DEF varied, stamped
      <3>3. QED
        BY <3>1, <3>2
    <2>6. CASE BodyLimit(i)
      <3> DEFINE t == [r EXCEPT !.limited = TRUE]
      <3>1. Becomes(i, Down(t)) \/ Becomes(i, Refuse(r, 413))
        BY <2>6 DEF BodyLimit
      <3>2. Quoted(r, t)
        BY <1>2 DEF Quoted, Fields
      <3> HIDE DEF t
      <3>3. QED
        BY <2>0, <3>1, <3>2
    <2>7. CASE RecoverEnter(i) \/ RateLimit(i) \/ Mux(i)
      <3>1. \/ Becomes(i, Down(r)) \/ Becomes(i, Refuse(r, 429)) \/ Becomes(i, Refuse(r, 404))
            \/ Becomes(i, Refuse(r, 405)) \/ Becomes(i, Refuse(r, 301))
        BY <1>2, <2>7 DEF RecoverEnter, RateLimit, Mux, Sendable
      <3>2. QED
        BY <2>0, <3>1
    <2>8. CASE IdempotencyEnter(i)
      <3> DEFINE whole == [r EXCEPT !.prefix = Unread(r), !.rest = 0]
                 claimed == [whole EXCEPT !.claimed = TRUE]
                 again == [whole EXCEPT !.head = replayed(@, store.head)]
      <3>1. \/ Becomes(i, Down(r)) \/ Becomes(i, Refuse(r, 413)) \/ Becomes(i, Refuse(whole, 503))
            \/ Becomes(i, Down(claimed)) \/ Becomes(i, Refuse(whole, 422)) \/ Becomes(i, Refuse(whole, 409))
            \/ Becomes(i, Refuse(again, store.status))
        BY <2>8 DEF IdempotencyEnter, Answer
      <3>2. Quoted(r, whole) /\ Quoted(r, claimed) /\ Quoted(r, again)
        BY <1>2 DEF Quoted, Fields
      <3> HIDE DEF whole, claimed, again
      <3>3. QED
        BY <2>0, <3>1, <3>2
    <2>9. QED
      BY <2>1, <2>2, <2>3, <2>4, <2>5, <2>6, <2>7, <2>8
  <1>4. Quoted(t, s)
    BY <1>2, <1>3, WaysAreQuiet DEF Quoted
  <1>5. req'[i] = s
    BY <1>3, BecomesIs
  <1>6. QED
    BY <1>3, <1>4, <1>5 DEF Quoted

LEMMA ReturnsSayNothing ==
    ASSUME PipeInv, RunInv, NEW i \in Request,
           \/ RecoverLeave(i) \/ IdempotencyLeave(i) \/ HandlerEnds(i) \/ Finishes(i)
           \/ LoggerLeave(i) /\ req[i].way = "panic"
    PROVE  Quoted(req[i], req'[i])
  <1> DEFINE r == req[i]
  <1>1. r.way # "idle"
    BY DEF RecoverLeave, IdempotencyLeave, HandlerEnds, Finishes, Returns
  <1>2. DOMAIN r = Fields /\ Sendable(r.in)
    BY <1>1, UnderWay DEF Core, Typed
  <1>3. Quoted(r, r)
    BY DEF Quoted
  <1>4. PICK t, s : /\ Becomes(i, s) /\ Quoted(r, t)
                    /\ \/ s = Up(t) \/ s = Panics(t) \/ (\E status : s = Refuse(t, status))
                       \/ s = [t EXCEPT !.way = "over"]
    <2>1. CASE RecoverLeave(i)
      <3>1. Becomes(i, Up(r)) \/ Becomes(i, Panics(r)) \/ Becomes(i, Refuse(r, 500))
        BY <2>1 DEF RecoverLeave
      <3>2. QED
        BY <1>3, <3>1
    <2>2. CASE IdempotencyLeave(i) \/ (LoggerLeave(i) /\ r.way = "panic")
      <3>1. Becomes(i, Up(r)) \/ Becomes(i, Panics(r))
        BY <2>2 DEF IdempotencyLeave, LoggerLeave
      <3>2. QED
        BY <1>3, <3>1
    <2>3. CASE HandlerEnds(i)
      <3> DEFINE hinted == WriteHeader(r, 103)
                 late == WriteHeader(r, 200)
      <3>1. \/ Becomes(i, Refuse(r, 200)) \/ Becomes(i, Up(r)) \/ Becomes(i, Refuse(r, 502))
            \/ Becomes(i, Panics(r)) \/ Becomes(i, Panics(hinted)) \/ Becomes(i, Panics(late))
        BY <1>2, <2>3 DEF HandlerEnds, Sendable
      <3>2. Quoted(r, hinted) /\ Quoted(r, late)
        BY <1>2, WaysAreQuiet
      <3> HIDE DEF hinted, late
      <3>3. CASE Becomes(i, Refuse(r, 200))
        BY <1>3, <3>3, ZenonT(40)
      <3>4. CASE Becomes(i, Refuse(r, 502))
        BY <1>3, <3>4, ZenonT(40)
      <3>5. CASE Becomes(i, Up(r)) \/ Becomes(i, Panics(r)) \/ Becomes(i, Panics(hinted)) \/ Becomes(i, Panics(late))
        BY <1>3, <3>2, <3>5, Zenon
      <3>6. QED
        BY <3>1, <3>3, <3>4, <3>5
    <2>4. CASE Finishes(i)
      <3> DEFINE t == IF r.way = "up" THEN WriteHeader(r, 200) ELSE r
      <3>1. Becomes(i, [t EXCEPT !.way = "over"])
        BY <2>4 DEF Finishes
      <3>2. Quoted(r, t)
        BY <1>2, <1>3, WaysAreQuiet
      <3> HIDE DEF t
      <3>3. QED
        BY <3>1, <3>2
    <2>5. QED
      BY <2>1, <2>2, <2>3, <2>4
  <1>5. Quoted(t, s)
    <2>1. DOMAIN t = Fields
      BY <1>2, <1>4 DEF Quoted
    <2>2. Quoted(t, [t EXCEPT !.way = "over"])
      BY <2>1 DEF Quoted, Fields
    <2>3. QED
      BY <1>4, <2>1, <2>2, WaysAreQuiet
  <1>6. req'[i] = s
    BY <1>4, BecomesIs
  <1>7. QED
    BY <1>4, <1>5, <1>6 DEF Quoted

(* The ID that RequestID names a request by. *)
LEMMA RequestIDSays ==
    ASSUME PipeInv, RunInv, NEW i \in Request, RequestID(i), LogInv(i, req[i])
    PROVE  LogInv(i, req'[i])
  <1> DEFINE r == req[i]
  <1>1. DOMAIN r = Fields
    BY Entering DEF RequestID, Core, Typed
  <1>2. PICK t : /\ Becomes(i, Down(t))
                 /\ DOMAIN t = Fields /\ t.in = r.in /\ t.line = r.line /\ t.noted = r.noted /\ t.call = r.call
                 /\ t.id \in {"good", i, r.id}
    <2> DEFINE a == [r EXCEPT !.id = "good", !.head.id = "good"]
               b == [r EXCEPT !.id = i, !.head.id = i, !.hdrId = IF r.in.id = "bad" THEN i ELSE @]
               c == [r EXCEPT !.hdrId = DropsRejected(r)]
               named(t) == /\ DOMAIN t = Fields /\ t.in = r.in /\ t.line = r.line /\ t.noted = r.noted /\ t.call = r.call
                           /\ t.id \in {"good", i, r.id}
    <2>1. Becomes(i, Down(a)) \/ Becomes(i, Down(b)) \/ Becomes(i, Down(c))
      BY DEF RequestID
    <2>2. named(a) /\ named(b) /\ named(c)
      BY <1>1 DEF Fields
    <2> HIDE DEF a, b, c
    <2>3. QED
      BY <2>1, <2>2
  <1>3. LogInv(i, t)
    BY <1>2 DEF LogInv
  <1>4. Quoted(t, Down(t)) /\ req'[i] = Down(t)
    BY <1>2, WaysAreQuiet, BecomesIs
  <1>5. QED
    BY <1>3, <1>4, QuotedKeeps

(* What a line is made of. *)
LEMMA BodyIsSaid ==
    ASSUME NEW i, NEW in, NEW len, NEW truncated \in BOOLEAN, NEW tree, Attr("body", tree) \in Brought(in)
    PROVE  bodyAttrs(len, truncated, tree) \in Seq(Said(i, in))
  <1>1. Attr("truncated", Leaf("true", 4)) \in Said(i, in) /\ Attr("body", tree) \in Said(i, in)
    BY DEF Said, OwnAttrs
  <1>2. \/ bodyAttrs(len, truncated, tree) = <<Attr("truncated", Leaf("true", 4))>>
        \/ bodyAttrs(len, truncated, tree) = <<>>
        \/ bodyAttrs(len, truncated, tree) = <<Attr("body", tree)>>
    BY DEF bodyAttrs
  <1>3. /\ <<>> \in Seq(Said(i, in))
        /\ \A a \in Said(i, in) : <<a>> \in Seq(Said(i, in))
    OBVIOUS
  <1>4. QED
    BY <1>1, <1>2, <1>3, Zenon

LEMMA CaptureIs ==
    ASSUME NEW resp, resp.declared \in Int
    PROVE  \/ captureResponse(resp) = <<>>
           \/ \E truncated \in BOOLEAN :
                captureResponse(resp) = bodyAttrs(resp.declared, truncated, resp.tree)
  <1> DEFINE cut == bodyAttrs(resp.declared, TRUE, resp.tree)
             whole == bodyAttrs(resp.declared, FALSE, resp.tree)
             over == resp.declared > CaptureMax \/ resp.broken
  <1>1. captureResponse(resp) = CASE resp.declared < 0 -> <<>>
            [] resp.declared >= 0 /\ over -> cut
            [] OTHER -> whole
    BY DEF captureResponse
  <1> HIDE DEF cut, whole, over
  <1>2. captureResponse(resp) = <<>> \/ captureResponse(resp) = cut \/ captureResponse(resp) = whole
    BY <1>1
  <1>3. QED
    BY <1>2 DEF cut, whole

LEMMA IdIsSaid ==
    ASSUME NEW i, NEW in, NEW id \in {"none", "good", i}
    PROVE  <<Attr("request_id", Leaf(id, 2))>> \in Seq(Said(i, in))
  <1>1. Attr("request_id", Leaf(id, 2)) \in Said(i, in)
    BY DEF Said, OwnAttrs
  <1>2. QED
    BY <1>1

LEMMA LoggedOf ==
    ASSUME Redacts, NEW i, NEW in, NEW attrs \in Seq(Said(i, in)), NEW extracted \in Seq(Said(i, in))
    PROVE  ToSet(Logged(attrs, extracted)) \subseteq Written(i, in)
  <1>1. Logged(attrs, extracted) = Record(attrs, extracted)
    BY DEF Redacts
  <1>2. QED
    BY <1>1, RecordOf DEF Written

LEMMA LoggerLeaveSays ==
    ASSUME Redacts, PipeInv, RunInv, NEW i \in Request, LoggerLeave(i), LogInv(i, req[i])
    PROVE  LogInv(i, req'[i])
  <1> DEFINE r == req[i]
             line == AccessLine(r)
             t == [r EXCEPT !.line = line, !.bufs = <<>>]
  <1>1. CASE r.way = "panic"
    BY <1>1, ReturnsSayNothing, QuotedKeeps
  <1>2. CASE r.way # "panic"
    <2>1. Becomes(i, Up(t)) /\ Returns(i, "Logger")
      BY <1>2 DEF LoggerLeave
    <2>2. DOMAIN r = Fields
      BY <2>1, Returning DEF Core, Typed
    <2> DEFINE id == <<Attr("request_id", Leaf(r.id, 2))>>
               body == bodyAttrs(Smaller(r.in.body.len, CaptureMax), r.in.body.len > CaptureMax, r.in.body.tree)
    <2>3. line.attrs = Logged(id \o body, id)
      BY DEF AccessLine
    <2>4. id \in Seq(Said(i, r.in))
      BY IdIsSaid DEF LogInv
    <2>5. body \in Seq(Said(i, r.in))
      <3>1. Attr("body", r.in.body.tree) \in Brought(r.in) /\ (r.in.body.len > CaptureMax) \in BOOLEAN
        BY DEF Brought
      <3>2. QED
        BY <3>1, BodyIsSaid
    <2> HIDE DEF id, body, line
    <2>6. id \o body \in Seq(Said(i, r.in))
      BY <2>4, <2>5
    <2>7. ToSet(line.attrs) \subseteq Written(i, r.in)
      BY <2>3, <2>4, <2>6, LoggedOf
    <2>8. /\ DOMAIN t = Fields /\ t.in = r.in /\ t.id = r.id /\ t.line = line
          /\ t.noted = r.noted /\ t.call = r.call
      BY <2>2 DEF Fields
    <2>9. LogInv(i, t)
      BY <2>7, <2>8 DEF LogInv
    <2> HIDE DEF t
    <2>10. Quoted(t, Up(t)) /\ req'[i] = Up(t)
      BY <2>1, <2>8, WaysAreQuiet, BecomesIs
    <2>11. QED
      BY <2>9, <2>10, QuotedKeeps
  <1>3. QED
    BY <1>1, <1>2

LEMMA HandlerStartsSays ==
    ASSUME Redacts, PipeInv, RunInv, NEW i \in Request, HandlerStarts(i), LogInv(i, req[i])
    PROVE  LogInv(i, req'[i])
  <1> DEFINE r == req[i]
             id == <<Attr("request_id", Leaf(r.id, 2))>>
             noted == Logged(<<r.in.attr>>, id)
             got == IF r.limited THEN Smaller(Unread(r), BodyMax) ELSE Unread(r)
             pc == IF r.in.calls THEN "allow" ELSE "none"
             s == [r EXCEPT !.ran = TRUE, !.prefix = 0, !.rest = 0, !.got = got, !.noted = noted, !.call.pc = pc]
  <1>1. r.way = "down" /\ Becomes(i, s)
    BY DEF HandlerStarts
  <1>2. DOMAIN r = Fields /\ DOMAIN r.call = CallFields
    BY <1>1, UnderWay DEF Core, Typed
  <1>3. ToSet(noted) \subseteq Written(i, r.in)
    <2>1. id \in Seq(Said(i, r.in))
      BY IdIsSaid DEF LogInv
    <2>2. r.in.attr \in Said(i, r.in)
      BY DEF Said, Brought
    <2>3. <<r.in.attr>> \in Seq(Said(i, r.in))
      BY <2>2
    <2> HIDE DEF id
    <2>4. QED
      BY <2>1, <2>3, LoggedOf
  <1> HIDE DEF noted, got, pc
  <1>4. /\ s.in = r.in /\ s.id = r.id /\ s.line = r.line /\ s.noted = noted
        /\ s.call.line = r.call.line
    BY <1>2 DEF Fields, CallFields
  <1>5. req'[i] = s
    BY <1>1, BecomesIs
  <1>6. QED
    BY <1>3, <1>4, <1>5 DEF LogInv

LEMMA HandlerCallsSays ==
    ASSUME Redacts, PipeInv, RunInv, NEW i \in Request, HandlerCalls(i), LogInv(i, req[i])
    PROVE  LogInv(i, req'[i])
  <1> DEFINE r == req[i]
             c == r.call
  <1>1. PICK d : Becomes(i, [r EXCEPT !.call = d]) /\
          \/ \E ok \in BOOLEAN : d = Allowed(c, ok)
          \/ \E tp : d = Sent(c, tp)
          \/ \E err \in BOOLEAN : d = Recorded(c, err)
          \/ d = Emitted(c, r.in.resp)
    BY DEF HandlerCalls
  <1>2. r.way # "idle"
    <2>1. Idle.call.pc = "none" /\ Idle.way = "idle"
      BY DEF Idle, Arrived, NoCall
    <2>2. req[i] = Idle \/ Typed(req[i])
      BY DEF PipeInv, ReqInv, Core
    <2>3. QED
      BY <2>1, <2>2 DEF HandlerCalls, Typed
  <1>3. DOMAIN r = Fields /\ DOMAIN c = CallFields
    BY <1>2, UnderWay DEF Core, Typed
  <1>4. ToSet(d.line) \subseteq Written(i, r.in)
    <2>1. CASE \/ \E ok \in BOOLEAN : d = Allowed(c, ok)
               \/ \E tp : d = Sent(c, tp)
               \/ \E err \in BOOLEAN : d = Recorded(c, err)
      <3>1. d.line = c.line
        BY <1>3, <2>1 DEF Allowed, Sent, Recorded, CallFields
      <3>2. QED
        BY <3>1 DEF LogInv
    <2>2. CASE d = Emitted(c, r.in.resp)
      <3> DEFINE none == <<>>
                 body == captureResponse(r.in.resp)
                 query == <<Attr("query", Query)>>
      <3>1. d.line = Logged(query \o none, <<>>) \/ d.line = Logged(query \o body, <<>>)
        BY <1>3, <2>2 DEF Emitted, emit, CallFields
      <3>2. body \in Seq(Said(i, r.in))
        <4>1. Attr("body", r.in.resp.tree) \in Brought(r.in)
          BY DEF Brought
        <4>2. \/ body = <<>>
              \/ \E truncated \in BOOLEAN :
                   body = bodyAttrs(r.in.resp.declared, truncated, r.in.resp.tree)
          <5>1. r.in.resp.declared \in Int
            BY <1>2, UnderWay DEF Sendable
          <5>2. QED
            BY <5>1, CaptureIs
        <4>3. <<>> \in Seq(Said(i, r.in))
          OBVIOUS
        <4> HIDE DEF body
        <4>4. QED
          BY <4>1, <4>2, <4>3, BodyIsSaid
      <3>3. Attr("query", Query) \in Said(i, r.in)
        BY DEF Said, Brought
      <3>4. query \in Seq(Said(i, r.in)) /\ none \in Seq(Said(i, r.in))
        BY <3>3
      <3> HIDE DEF body, query
      <3>5. query \o none \in Seq(Said(i, r.in)) /\ query \o body \in Seq(Said(i, r.in))
        BY <3>2, <3>4
      <3>6. QED
        BY <3>1, <3>4, <3>5, LoggedOf
    <2>3. QED
      BY <1>1, <2>1, <2>2
  <1> DEFINE s == [r EXCEPT !.call = d]
  <1>5. s.in = r.in /\ s.id = r.id /\ s.line = r.line /\ s.noted = r.noted /\ s.call = d
    BY <1>3 DEF Fields
  <1>6. req'[i] = s
    BY <1>1, BecomesIs
  <1> HIDE DEF s
  <1>7. QED
    BY <1>4, <1>5, <1>6 DEF LogInv

SaidInv == \A i \in Request : LogInv(i, req[i])

LEMMA SaidStarts ==
    ASSUME NEW i, NEW r, r.id = "none", r.line = NoLine, r.noted = <<>>, r.call = NoCall
    PROVE  LogInv(i, r)
  <1>1. ToSet(<<>>) = {}
    BY DEF ToSet
  <1>2. QED
    BY <1>1 DEF LogInv, NoLine, NoCall

LEMMA SaidKeeps ==
    ASSUME Redacts, IInv, SaidInv, [Next]_vars
    PROVE  SaidInv'
  <1>1. CASE Lifecycle \/ UNCHANGED vars
    <2>1. req' = req
      BY <1>1 DEF Lifecycle, Use, RunStarts, Listens, ServeFails, Cancel, ShutsDown, Drained, GraceEnds,
                  vars, pipeVars
    <2>2. QED
      BY <2>1 DEF SaidInv
  <1>2. ASSUME NEW i \in Request, Accepts(i) PROVE SaidInv'
    <2>1. /\ req'[i] = Arrived(load[i])
          /\ \A j \in Request \ {i} : req'[j] = req[j]
      BY <1>2, BecomesIs DEF Accepts, IInv
    <2>2. LogInv(i, Arrived(load[i]))
      BY SaidStarts DEF Arrived
    <2>3. QED
      BY <2>1, <2>2 DEF SaidInv
  <1>3. ASSUME NEW i \in Request, Handles(i) PROVE SaidInv'
    <2>1. Step(i) /\ PipeInv /\ RunInv /\ LogInv(i, req[i])
      BY <1>3 DEF Handles, IInv, SaidInv
    <2>2. LogInv(i, req'[i])
      BY <2>1, GatesSayNothing, ReturnsSayNothing, RequestIDSays, LoggerLeaveSays, HandlerStartsSays,
         HandlerCallsSays, QuotedKeeps DEF Step
    <2>3. \A j \in Request \ {i} : req'[j] = req[j]
      <3>1. QED
        BY <1>3, <2>1, StepKeeps DEF IInv, Handles, runVars, Moves
    <2>4. QED
      BY <2>2, <2>3 DEF SaidInv
  <1>4. QED
    BY <1>1, <1>2, <1>3 DEF Next

(* Of everything that may be said of a request, what is readable is public to it. *)
LEMMA SaidIsPublic ==
    ASSUME NEW sent \in Loads, NEW i \in DOMAIN sent, i \in Request, NEW a \in Said(i, sent[i]),
           NEW b \in Brought(sent[i])
    PROVE  Sensitive(b) \cap Readable(process(a)) = {}
  <1>1. CASE a \in Brought(sent[i])
    <2>1. Loggable(a) /\ Sensitive(b) \cap Public(a) = {}
      BY <1>1, LogAssumption
    <2>2. QED
      BY <2>1, ReadableIsPublic
  <1>2. CASE a \in OwnAttrs(i)
    <2>1. PICK text \in OwnTexts, len \in Nat : \E key : a = Attr(key, Leaf(text, len))
      <3>1. CASE a = Attr("truncated", Leaf("true", 4))
        <4>1. "true" \in OwnTexts /\ 4 \in Nat
          BY DEF OwnTexts
        <4>2. QED
          BY <3>1, <4>1, Zenon
      <3>2. CASE \E t \in {"none", "good", i} : a = Attr("request_id", Leaf(t, 2))
        <4>1. PICK t \in {"none", "good", i} : a = Attr("request_id", Leaf(t, 2))
          BY <3>2
        <4>2. t \in OwnTexts /\ 2 \in Nat
          BY DEF OwnTexts
        <4>3. QED
          BY <4>1, <4>2, Zenon
      <3>3. QED
        BY <1>2, <3>1, <3>2 DEF OwnAttrs
    <2>2. Loggable(a) /\ Public(a) \subseteq {text}
      BY <2>1, LeafIsLoggable
    <2>3. Sensitive(b) \cap OwnTexts = {}
      BY LogAssumption
    <2>4. QED
      BY <2>1, <2>2, <2>3, ReadableIsPublic
  <1>3. QED
    BY <1>1, <1>2 DEF Said

(***************************************************************************)
(* With the logger of the logger package, no line of a request, of its     *)
(* handler or of an outbound call shows a value that a rule is for: every  *)
(* attr is one of a few, processed, and of what process makes nothing can  *)
(* be read but what no rule is for.                                        *)
(***************************************************************************)
THEOREM NothingRuledIsLogged == ASSUME Redacts PROVE Spec => []NoRuledValueLogged
  <1>1. Init => SaidInv
    <2> SUFFICES ASSUME Init, NEW i \in Request PROVE LogInv(i, req[i])
      BY DEF SaidInv
    <2>1. req[i] = Idle
      BY DEF Init, PipeInit
    <2>2. LogInv(i, Idle)
      BY SaidStarts DEF Idle, Arrived
    <2>3. QED
      BY <2>1, <2>2
  <1>2. IInv /\ SaidInv /\ [Next]_vars => SaidInv'
    BY SaidKeeps
  <1>3. IInv /\ SaidInv => NoRuledValueLogged
    <2> SUFFICES ASSUME IInv, SaidInv, NEW i \in Request, req[i].way # "idle",
                        NEW b \in Brought(req[i].in),
                        NEW x \in ToSet(req[i].line.attrs) \cup ToSet(req[i].noted) \cup ToSet(req[i].call.line)
                 PROVE  Sensitive(b) \cap Readable(x) = {}
      BY DEF NoRuledValueLogged
    <2>1. load \in Loads /\ i \in DOMAIN load /\ req[i].in = load[i]
      BY OneRequest DEF IInv, RunInv, ReqInv
    <2>2. PICK a \in Said(i, req[i].in) : x = process(a)
      BY DEF SaidInv, LogInv, Written
    <2>3. QED
      BY <2>1, <2>2, SaidIsPublic
  <1>4. QED
    BY <1>1, <1>2, <1>3, Inductive, PTL DEF Spec
=============================================================================
