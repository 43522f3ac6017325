------------------------------- MODULE RealIP -------------------------------
(***************************************************************************)
(* httpx/middleware/realip.go: the client address a request is attributed  *)
(* to.  An address is a name; "mapped" is the IPv4-mapped spelling of      *)
(* "proxy", and "junk" and "zoned" are entries that are not accepted as    *)
(* addresses.  A header value is the sequence of its comma-separated       *)
(* entries, empty when the header is absent.                               *)
(***************************************************************************)
EXTENDS Integers, Sequences, FiniteSetsExt

CONSTANT TrustedProxies

NoAddr == "none"

parseClientAddr(e) ==
    CASE e \in {"junk", "zoned"} -> NoAddr
      [] e = "mapped" -> "proxy"
      [] OTHER -> e

containsAddr(a) == a \in TrustedProxies

(* Where the walk from the right ends: an entry that is no trusted proxy. *)
Stops(value) ==
    {k \in DOMAIN value : ~containsAddr(parseClientAddr(value[k]))}

StopAtLeft(value) == IF Stops(value) = {} THEN 1 ELSE Min(Stops(value))
StopAt(value) == IF Stops(value) = {} THEN 1 ELSE Max(Stops(value))

(***************************************************************************)
(* clientFromHeader: X-Forwarded-For is walked from the right to the first *)
(* entry that is not a trusted proxy, which fails the header if it is no   *)
(* address; if all are trusted, the leftmost.  Other headers are one entry *)
(* and are taken at their word.                                            *)
(***************************************************************************)
clientFromHeader(name, value) ==
    CASE value = <<>> -> NoAddr
      [] value # <<>> /\ name # "X-Forwarded-For" -> parseClientAddr(value[1])
      [] OTHER -> parseClientAddr(value[StopAt(value)])

Headers == <<"X-Real-IP", "X-Forwarded-For">>

Asserting(hdr) == {k \in DOMAIN Headers : clientFromHeader(Headers[k], hdr[Headers[k]]) # NoAddr}

(***************************************************************************)
(* The address RealIP gives the request: what the first header with an     *)
(* answer says, if the peer is a trusted proxy, and otherwise the peer.    *)
(* A peer address that does not split is passed through, without a value   *)
(* in the context.                                                         *)
(***************************************************************************)
RealAddr(peer, hdr) ==
    IF containsAddr(parseClientAddr(peer)) /\ Asserting(hdr) # {}
    THEN LET h == Headers[Min(Asserting(hdr))] IN clientFromHeader(h, hdr[h])
    ELSE peer

Splits(peer) == peer # "socket"
RealIPFrom(peer, hdr) == IF Splits(peer) THEN RealAddr(peer, hdr) ELSE NoAddr
=============================================================================
