------------------------------ MODULE Outbound ------------------------------
(***************************************************************************)
(* httpx/client: one call of Do made by the handler of a request.  The     *)
(* breaker is a hook that admits or refuses (Breaker models the one of     *)
(* x/circuitbreaker); the transport is external.  A response body is its   *)
(* declared length (-1 when undeclared) and the bytes that really arrive.  *)
(***************************************************************************)
EXTENDS Integers, Sequences, LogValue

CONSTANTS
    Logged(_, _), \* what the slog.Logger it is given writes: of attrs, and of the ctx's
    CaptureMax,   \* MaxBody, of the client and of the Logger middleware
    Responses,    \* the bodies a server may answer with
    Query         \* the query of the URL called

NoCall == [pc |-> "none", tp |-> <<>>, told |-> 0, result |-> "none", line |-> <<>>, got |-> 0]

Smaller(a, b) == IF a < b THEN a ELSE b

(***************************************************************************)
(* The header Do sets: the trace of ctx with a span of its own, unless the *)
(* caller set one, there is no trace, or no span can be minted.            *)
(***************************************************************************)
SameSpan(trace, span, flags) == <<trace, span, flags>>
FreshSpan(trace, span, flags) == <<trace, "outbound", flags>>

Traceparent(own, trace, span, flags, minted) ==
    IF own THEN <<"own">>
    ELSE IF trace = "none" \/ ~minted THEN <<>>
    ELSE FreshSpan(trace, span, flags)

(***************************************************************************)
(* bodyAttrs: the size; a body that was cut off is only flagged, and only  *)
(* JSON that parses is logged with its contents.                           *)
(***************************************************************************)
bodyAttrs(len, truncated, tree) ==
    CASE truncated -> <<Attr("truncated", Leaf("true", 4))>>
      [] ~truncated /\ (len = 0 \/ tree.kind = "raw") -> <<>>
      [] OTHER -> <<Attr("body", tree)>>

(* captureResponse reads a declared body within the cap, and splices it back. *)
Captures(resp) == resp.declared \in 0..CaptureMax
Consumed(resp) == IF Captures(resp) THEN Smaller(resp.declared, resp.len) ELSE 0
SplicedBack(resp) == Consumed(resp) + (resp.len - Consumed(resp))

captureResponse(resp) ==
    CASE resp.declared < 0 -> <<>>
      [] resp.declared >= 0 /\ (resp.declared > CaptureMax \/ resp.broken) -> bodyAttrs(resp.declared, TRUE, resp.tree)
      [] OTHER -> bodyAttrs(resp.declared, FALSE, resp.tree)

(* emit: the query as a map, so that the rules of the logger apply to it. *)
emit(extra) == Logged(<<Attr("query", Query)>> \o extra, <<>>)

(* Do's steps on a call: Allow, the request, Record with the outcome, the line. *)
Allowed(call, ok) ==
    IF ok THEN [call EXCEPT !.pc = "send"]
    ELSE [call EXCEPT !.pc = "done", !.result = "circuit open"]

Sent(call, tp) == [call EXCEPT !.pc = "record", !.tp = tp]

TellOnSuccess(call, err) == IF err THEN call.told ELSE call.told + 1
Tell(call, err) == call.told + 1

Recorded(call, err) ==
    [call EXCEPT !.pc = "emit", !.told = Tell(call, err), !.result = IF err THEN "error" ELSE "response"]

Emitted(call, resp) ==
    [call EXCEPT !.pc = "done",
        !.line = IF call.result = "error" THEN emit(<<>>) ELSE emit(captureResponse(resp)),
        !.got = IF call.result = "error" THEN 0 ELSE SplicedBack(resp)]
=============================================================================
