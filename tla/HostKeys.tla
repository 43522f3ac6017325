------------------------------ MODULE HostKeys ------------------------------
(***************************************************************************)
(* x/sshx/hostkey.go: the host-key policies of a dial.  KnownHosts checks  *)
(* strictly against the file as it was when the policy was made; TOFU      *)
(* asks about an unknown host and pins the answer, under a mutex and after *)
(* reading the file again.                                                 *)
(*                                                                         *)
(* A line of known_hosts names addresses and one key.  Reading the file    *)
(* and looking an address up is x/crypto's knownhosts package (external):  *)
(* a lookup prefers the dialed name, and a line that was cut off makes the *)
(* whole file unreadable.  Keys and addresses are model values.            *)
(***************************************************************************)
EXTENDS Sequences, FiniteSets, SequencesExt

CONSTANTS
    Dial,       \* the dials that share one policy value
    Key,        \* host keys a server may present
    Target,     \* per dial: the name dialed and the remote address it led to
    Start       \* the policies and contents of known_hosts to begin with

ASSUME HostKeysAssumption ==
    /\ IsFiniteSet(Dial)
    /\ "none" \notin Dial
    /\ DOMAIN Target = Dial
    /\ \A s \in Start : s.policy \in {"tofu", "strict", "any"} /\ s.lines \in Seq(ToSet(s.lines))

Policy == {"tofu", "strict", "any"}

VARIABLES
    policy,     \* TOFU, KnownHosts (TOFU with a nil confirm) or InsecureAcceptAny
    file,       \* known_hosts: its lines, and whether the last one was cut off
    verify,     \* the lines the policy read when it was made
    mu,         \* the dial that holds TOFU's mutex, or "none"
    hk,         \* per dial: where its callback is, the key shown, the error
    confirmed   \* history: what the user consented to

hkVars == <<policy, file, verify, mu, hk, confirmed>>

Outcome == {"nil", "unknown", "mismatch", "unreadable", "confirm", "write"}

Line(addrs, key) == [addrs |-> addrs, key |-> key]

(* openKnownHosts: the policy keeps what the file holds at this moment. *)
openKnownHosts == verify' = file.lines

HkInit ==
    /\ \E s \in Start : policy = s.policy /\ file = [lines |-> s.lines, torn |-> FALSE]
    /\ verify = file.lines
    /\ mu = "none"
    /\ hk = [d \in Dial |-> [pc |-> "off", key |-> "none", err |-> "nil"]]
    /\ confirmed = {}

(* A new policy over the same file, once the dials of the old one are over. *)
Reopen ==
    /\ ~file.torn
    /\ \A d \in Dial : hk[d].pc \in {"off", "done"}
    /\ openKnownHosts
    /\ UNCHANGED <<policy, file, mu, hk, confirmed>>

(* knownhosts: the keys the lines give for an address. *)
Want(lines, a) == {l.key : l \in {m \in ToSet(lines) : a \in m.addrs}}

classifyKnownHosts(want, key) ==
    IF key \in want THEN "nil" ELSE IF want = {} THEN "unknown" ELSE "mismatch"

Check(lines, d) == classifyKnownHosts(Want(lines, Target[d].host), hk[d].key)

Return(d, e) == hk' = [hk EXCEPT ![d].pc = "done", ![d].err = e]
At(d, l) == hk' = [hk EXCEPT ![d].pc = l]

-----------------------------------------------------------------------------
(* The handshake calls the policy with the key the server presented. *)
Present(d, k) ==
    /\ hk[d].pc = "off"
    /\ hk' = [hk EXCEPT ![d].pc = "verify", ![d].key = k]
    /\ UNCHANGED <<policy, file, verify, mu, confirmed>>

InsecureAcceptAny(d) ==
    /\ hk[d].pc = "verify" /\ policy = "any"
    /\ Return(d, "nil")
    /\ UNCHANGED <<policy, file, verify, mu, confirmed>>

(* KnownHosts, and the first check of TOFU: only an unknown host goes on. *)
KnownHosts(d) ==
    /\ hk[d].pc = "verify" /\ policy # "any"
    /\ IF Check(verify, d) = "unknown" /\ policy = "tofu"
       THEN At(d, "lock")
       ELSE Return(d, Check(verify, d))
    /\ UNCHANGED <<policy, file, verify, mu, confirmed>>

MuIgnored == TRUE
MuFree == mu = "none"

ReverifyStale(d) == Check(verify, d)
Reverify(d) == IF file.torn THEN "unreadable" ELSE Check(file.lines, d)

(* TOFU under its mutex: the host may have been pinned while it waited. *)
Lock(d) ==
    /\ hk[d].pc = "lock" /\ MuFree
    /\ IF Reverify(d) = "unknown"
       THEN At(d, "confirm") /\ mu' = d
       ELSE Return(d, Reverify(d)) /\ UNCHANGED mu
    /\ UNCHANGED <<policy, file, verify, confirmed>>

DeclinedAccepts == {"nil", "confirm"}
Declined == {"unknown", "confirm"}

(* confirm says no (the first error is returned) or fails. *)
ConfirmRefuses(d) ==
    /\ hk[d].pc = "confirm"
    /\ \E e \in Declined : Return(d, e)
    /\ mu' = "none"
    /\ UNCHANGED <<policy, file, verify, confirmed>>

ConfirmAgrees(d) ==
    /\ hk[d].pc = "confirm"
    /\ confirmed' = confirmed \cup {Line({Target[d].host, Target[d].remote}, hk[d].key)}
    /\ At(d, "append")
    /\ UNCHANGED <<policy, file, verify, mu>>

PinLine(d) == Line({Target[d].host, Target[d].remote}, hk[d].key)

(***************************************************************************)
(* appendKnownHost, which releases the mutex by returning.  The line is    *)
(* written and perhaps the close fails after it; or the open fails; or the *)
(* line is cut off.                                                        *)
(***************************************************************************)
PinWritten(d) ==
    /\ hk[d].pc = "append"
    /\ file' = [file EXCEPT !.lines = Append(@, PinLine(d))]
    /\ \E e \in {"nil", "write"} : Return(d, e)
    /\ mu' = "none"
    /\ UNCHANGED <<policy, verify, confirmed>>

PinFails(d) ==
    /\ hk[d].pc = "append"
    /\ \E cut \in BOOLEAN : file' = [file EXCEPT !.torn = cut]
    /\ Return(d, "write")
    /\ mu' = "none"
    /\ UNCHANGED <<policy, verify, confirmed>>

Callback(d) ==
    \/ InsecureAcceptAny(d) \/ KnownHosts(d) \/ Lock(d) \/ ConfirmRefuses(d)
    \/ ConfirmAgrees(d) \/ PinWritten(d) \/ PinFails(d)

-----------------------------------------------------------------------------
HkTypeOK ==
    /\ policy \in Policy
    /\ file.torn \in BOOLEAN
    /\ Len(verify) <= Len(file.lines)
    /\ mu \in Dial \cup {"none"}
    /\ \A d \in Dial :
        /\ hk[d].pc \in {"off", "verify", "lock", "confirm", "append", "done"}
        /\ hk[d].key \in Key \cup {"none"}
        /\ hk[d].err \in Outcome

(***************************************************************************)
(* Dials that meet one unknown host at once lead to one question and one   *)
(* line (the comment on TOFU): while the user is asked about a host, or    *)
(* the answer is being written, the file still has nothing about it.       *)
(***************************************************************************)
PromptIsCurrent ==
    \A d \in Dial : hk[d].pc \in {"confirm", "append"} =>
        /\ ~file.torn
        /\ Want(file.lines, Target[d].host) = {}

(***************************************************************************)
(* A server is accepted only with a key that the file gives for the name   *)
(* dialed, and that was there to begin with or that the user agreed to on  *)
(* a dial which led to that address.                                       *)
(***************************************************************************)
AcceptedWasConfirmed ==
    \A d \in Dial : hk[d].pc = "done" /\ hk[d].err = "nil" /\ policy # "any" =>
        /\ hk[d].key \in Want(file.lines, Target[d].host)
        /\ \/ \E s \in Start : IsPrefix(s.lines, file.lines) /\ hk[d].key \in Want(s.lines, Target[d].host)
           \/ \E l \in confirmed : Target[d].host \in l.addrs /\ l.key = hk[d].key
=============================================================================
