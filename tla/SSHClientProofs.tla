--------------------------- MODULE SSHClientProofs ---------------------------
(***************************************************************************)
(* Theorems about the host-key policies and the dials that use them, for   *)
(* every set of dials, users, keys, targets and files.  The invariant of   *)
(* the policies (HkInv) speaks of HostKeys' variables only; the invariant  *)
(* of the dials (DialInv) ties each dial's place to its callback's.        *)
(***************************************************************************)
EXTENDS SSHClient, SequenceTheorems, TLAPS

-----------------------------------------------------------------------------
(* The lines known_hosts can hold: those it began with and those pinned. *)
PinAddrs == {{Target[d].host, Target[d].remote} : d \in Dial}
FirstLine == UNION {ToSet(s.lines) : s \in Start}
FileLine == FirstLine \cup [addrs : PinAddrs, key : Key \cup {"none"}]

HkPC == {"off", "verify", "lock", "confirm", "append", "done"}

HkTyped ==
    /\ policy \in Policy
    /\ file \in [lines : Seq(FileLine), torn : BOOLEAN]
    /\ verify \in Seq(FileLine)
    /\ mu \in Dial \cup {"none"}
    /\ hk \in [Dial -> [pc : HkPC, key : Key \cup {"none"}, err : Outcome]]

(* The file only grows: what the policy read is the head of what it holds. *)
VerifyIsHead ==
    /\ Len(verify) <= Len(file.lines)
    /\ \A i \in 1 .. Len(verify) : verify[i] = file.lines[i]

(* Only the holder of TOFU's mutex asks the user or writes the file. *)
HolderAsks == \A d \in Dial : hk[d].pc \in {"confirm", "append"} => mu = d

(* Every line was there to begin with or was agreed to. *)
LinesHaveOrigin ==
    \E s \in Start :
        /\ Len(s.lines) <= Len(file.lines)
        /\ \A i \in 1 .. Len(s.lines) : file.lines[i] = s.lines[i]
        /\ \A i \in 1 .. Len(file.lines) : i > Len(s.lines) => file.lines[i] \in confirmed

PinIsConfirmed == \A d \in Dial : hk[d].pc = "append" => PinLine(d) \in confirmed

AcceptedIsPinned ==
    \A d \in Dial : hk[d].pc = "done" /\ hk[d].err = "nil" /\ policy # "any" =>
        hk[d].key \in Want(file.lines, Target[d].host)

HkInv ==
    /\ HkTyped
    /\ VerifyIsHead
    /\ HolderAsks
    /\ PromptIsCurrent
    /\ LinesHaveOrigin
    /\ PinIsConfirmed
    /\ AcceptedIsPinned

-----------------------------------------------------------------------------
Using == {"newSession", "newShell", "start", "running", "shell", "live", "waiting", "used"}
DialPC == Dialing \cup Using \cup {"idle", "over", "ready"}

DialTyped ==
    /\ pc \in [Dial -> DialPC]
    /\ conn \in [Dial -> {"none", "up", "silent", "dead"}]
    /\ peerLost \in [Dial -> BOOLEAN]
    /\ over \in [Dial -> BOOLEAN]
    /\ closing \in [Dial -> BOOLEAN]
    /\ result \in [Dial -> Stage \cup {"none", "config", "client"}]
    /\ done \in [Dial -> BOOLEAN]
    /\ ka \in [Dial -> {"off", "ticking", "pinging", "ended"}]
    /\ ctx \in [Dial -> BOOLEAN]
    /\ sess \in [Dial -> {"none", "open", "closed"}]
    /\ wait \in [Dial -> {"none", "waiting", "returned"}]
    /\ stop \in [Dial -> {"nil", "unset", "set", "called"}]

(* A dial has no result while it runs, and one when it is over. *)
ResultComesLast ==
    \A d \in Dial :
        /\ pc[d] \in {"idle"} \cup Dialing <=> result[d] = "none"
        /\ pc[d] \in Using \cup {"ready"} => result[d] = "client"
        /\ ka[d] # "off" <=> result[d] = "client"

(* The policy is called once, after the key exchange and before auth. *)
PolicyAnswersFirst ==
    \A d \in User :
        /\ pc[d] \in {"idle", "connect", "kex"} => hk[d].pc = "off"
        /\ pc[d] = "auth" => hk[d].pc = "done" /\ hk[d].err = "nil"
        /\ result[d] # "none" => hk[d].pc \in {"off", "done"}

RivalsOnlyDial == \A d \in Dial \ User : pc[d] = "idle"

ClosingIsOver == \A d \in Dial : closing[d] => over[d]

(* A wait is for a session that was opened. *)
WaitsForSession ==
    \A d \in Dial :
        /\ pc[d] \in {"start", "running", "shell", "live", "waiting"} => sess[d] # "none"
        /\ pc[d] \notin {"over", "running", "waiting", "used"} => wait[d] = "none"
        /\ wait[d] # "none" => sess[d] # "none"

DialInv ==
    /\ DialTyped
    /\ ResultComesLast
    /\ PolicyAnswersFirst
    /\ RivalsOnlyDial
    /\ ClosingIsOver
    /\ WaitsForSession
    /\ StageIsCertain
    /\ FreshClientIsLive

Inv == HkInv /\ DialInv

-----------------------------------------------------------------------------
(* The first lines of a longer file give no key that the file does not. *)
LEMMA WantGrows ==
    ASSUME NEW S, NEW r \in Seq(S), NEW t \in Seq(S), NEW a, Len(r) <= Len(t),
           \A i \in 1 .. Len(r) : r[i] = t[i]
    PROVE  Want(r, a) \subseteq Want(t, a)
  <1>1. ToSet(r) \subseteq ToSet(t)
    BY DEF ToSet
  <1>2. QED
    BY <1>1 DEF Want

LEMMA WantOfAppend ==
    ASSUME NEW S, NEW r \in Seq(S), NEW l \in S, NEW a
    PROVE  /\ Want(r, a) \subseteq Want(Append(r, l), a)
           /\ a \in l.addrs => l.key \in Want(Append(r, l), a)
  <1> DEFINE t == Append(r, l)
  <1>1. /\ t \in Seq(S)
        /\ Len(t) = Len(r) + 1
        /\ t[Len(t)] = l
        /\ \A i \in 1 .. Len(r) : r[i] = t[i]
    OBVIOUS
  <1>2. Want(r, a) \subseteq Want(t, a)
    <2> HIDE DEF t
    <2>1. Len(r) <= Len(t)
      BY <1>1
    <2>2. QED
      BY <1>1, <2>1, WantGrows
  <1>3. l \in ToSet(t)
    <2>1. Len(t) \in DOMAIN t
      BY <1>1
    <2>2. QED
      BY <1>1, <2>1 DEF ToSet
  <1>4. QED
    BY <1>2, <1>3 DEF Want

LEMMA PinLineIsFileLine ==
    ASSUME HkTyped, NEW d \in Dial
    PROVE  PinLine(d) \in FileLine
  <1>1. hk[d].key \in Key \cup {"none"}
    BY DEF HkTyped
  <1>2. {Target[d].host, Target[d].remote} \in PinAddrs
    BY DEF PinAddrs
  <1>3. PinLine(d) \in [addrs : PinAddrs, key : Key \cup {"none"}]
    BY <1>1, <1>2 DEF PinLine, Line
  <1>4. QED
    BY <1>3 DEF FileLine

(* What a check returns, and what it says of the key that was shown. *)
LEMMA CheckReturns ==
    ASSUME NEW lines, NEW d \in Dial
    PROVE  /\ Check(lines, d) \in {"nil", "unknown", "mismatch"}
           /\ Check(lines, d) = "nil" => hk[d].key \in Want(lines, Target[d].host)
           /\ Check(lines, d) = "unknown" => Want(lines, Target[d].host) = {}
  BY DEF Check, classifyKnownHosts

-----------------------------------------------------------------------------
(* HkInv holds to begin with, and every step of a policy preserves it. *)
LEMMA HkInitInv == HkInit => HkInv
  <1> SUFFICES ASSUME HkInit PROVE HkInv
    OBVIOUS
  <1>1. PICK s \in Start : policy = s.policy /\ file = [lines |-> s.lines, torn |-> FALSE]
    BY DEF HkInit
  <1>2. s.lines \in Seq(FileLine)
    <2>1. s.lines \in Seq(ToSet(s.lines))
      BY HostKeysAssumption
    <2>2. ToSet(s.lines) \subseteq FileLine
      BY DEF FirstLine, FileLine
    <2>3. QED
      BY <2>1, <2>2
  <1>3. HkTyped
    BY <1>1, <1>2, HostKeysAssumption DEF HkInit, HkTyped, Policy, HkPC, Outcome
  <1>4. VerifyIsHead
    BY <1>1, <1>2 DEF HkInit, VerifyIsHead
  <1>5. LinesHaveOrigin
    BY <1>1, <1>2 DEF LinesHaveOrigin
  <1>6. QED
    BY <1>3, <1>4, <1>5 DEF HkInit, HkInv, HolderAsks, PromptIsCurrent, PinIsConfirmed,
                            AcceptedIsPinned

LEMMA PresentStep ==
    ASSUME HkInv, NEW d \in Dial, NEW k \in Key, Present(d, k)
    PROVE  HkInv'
  BY ZenonT(40) DEF HkInv, HkTyped, VerifyIsHead, HolderAsks, PromptIsCurrent, LinesHaveOrigin,
         PinIsConfirmed, AcceptedIsPinned, Present, PinLine, HkPC

LEMMA ReopenStep == HkInv /\ Reopen => HkInv'
  BY SMTT(30) DEF HkInv, HkTyped, VerifyIsHead, HolderAsks, PromptIsCurrent, LinesHaveOrigin,
         PinIsConfirmed, AcceptedIsPinned, Reopen, openKnownHosts, PinLine

(* A return that accepts a key must show the file gives it; the rest follows. *)
LEMMA ReturnStep ==
    ASSUME HkInv, NEW d \in Dial, NEW e \in Outcome, Return(d, e),
           e = "nil" /\ policy # "any" => hk[d].key \in Want(file.lines, Target[d].host),
           mu' = mu \/ (mu = d /\ mu' = "none"),
           UNCHANGED <<policy, file, verify, confirmed>>
    PROVE  HkInv'
  <1>1. HkTyped'
    BY ZenonT(40) DEF HkInv, HkTyped, Return, HkPC
  <1>2. HolderAsks'
    BY DEF HkInv, HkTyped, HolderAsks, Return
  <1>3. PromptIsCurrent'
    BY DEF HkInv, HkTyped, PromptIsCurrent, Return
  <1>4. PinIsConfirmed'
    BY DEF HkInv, HkTyped, PinIsConfirmed, PinLine, Return
  <1>5. AcceptedIsPinned'
    BY DEF HkInv, HkTyped, AcceptedIsPinned, Return
  <1>6. QED
    BY <1>1, <1>2, <1>3, <1>4, <1>5 DEF HkInv, VerifyIsHead, LinesHaveOrigin

LEMMA KnownHostsStep ==
    ASSUME HkInv, NEW d \in Dial, KnownHosts(d)
    PROVE  HkInv'
  <1> DEFINE e == Check(verify, d)
  <1>1. e \in {"nil", "unknown", "mismatch"}
    BY CheckReturns
  <1>2. CASE e = "unknown" /\ policy = "tofu"
    <2>1. At(d, "lock") /\ UNCHANGED <<policy, file, verify, mu, confirmed>>
      BY <1>2 DEF KnownHosts
    <2>2. HkTyped'
      BY <2>1 DEF HkInv, HkTyped, At, HkPC
    <2>3. HolderAsks' /\ PromptIsCurrent'
      BY <2>1 DEF HkInv, HkTyped, HolderAsks, PromptIsCurrent, At
    <2>4. PinIsConfirmed' /\ AcceptedIsPinned'
      BY <2>1 DEF HkInv, HkTyped, PinIsConfirmed, AcceptedIsPinned, At, PinLine
    <2>5. QED
      BY <2>1, <2>2, <2>3, <2>4 DEF HkInv, VerifyIsHead, LinesHaveOrigin
  <1>3. CASE ~(e = "unknown" /\ policy = "tofu")
    <2>1. Return(d, e) /\ UNCHANGED <<policy, file, verify, mu, confirmed>>
      BY <1>3 DEF KnownHosts
    <2>2. Want(verify, Target[d].host) \subseteq Want(file.lines, Target[d].host)
      BY WantGrows DEF HkInv, HkTyped, VerifyIsHead
    <2>3. e = "nil" => hk[d].key \in Want(file.lines, Target[d].host)
      BY <2>2, CheckReturns
    <2>4. QED
      BY <1>1, <2>1, <2>3, ReturnStep DEF Outcome
  <1>4. QED
    BY <1>2, <1>3

LEMMA LockStep ==
    ASSUME HkInv, NEW d \in Dial, Lock(d)
    PROVE  HkInv'
  <1>1. CASE Reverify(d) = "unknown"
    <2>1. /\ At(d, "confirm") /\ mu = "none" /\ mu' = d
          /\ UNCHANGED <<policy, file, verify, confirmed>>
      BY <1>1 DEF Lock, MuFree
    <2>2. ~file.torn /\ Want(file.lines, Target[d].host) = {}
      BY <1>1, CheckReturns DEF Reverify
    <2>3. HkTyped'
      BY <2>1 DEF HkInv, HkTyped, At, HkPC
    <2>4. HolderAsks'
      BY <2>1, HostKeysAssumption DEF HkInv, HkTyped, HolderAsks, At
    <2>5. PromptIsCurrent'
      BY <2>1, <2>2 DEF HkInv, HkTyped, PromptIsCurrent, At
    <2>6. PinIsConfirmed' /\ AcceptedIsPinned'
      BY <2>1 DEF HkInv, HkTyped, PinIsConfirmed, AcceptedIsPinned, At, PinLine
    <2>7. QED
      BY <2>1, <2>3, <2>4, <2>5, <2>6 DEF HkInv, VerifyIsHead, LinesHaveOrigin
  <1>2. CASE Reverify(d) # "unknown"
    <2>1. Return(d, Reverify(d)) /\ UNCHANGED <<policy, file, verify, mu, confirmed>>
      BY <1>2 DEF Lock
    <2>2. /\ Reverify(d) \in Outcome
          /\ Reverify(d) = "nil" => hk[d].key \in Want(file.lines, Target[d].host)
      BY CheckReturns DEF Reverify, Outcome
    <2>3. QED
      BY <2>1, <2>2, ReturnStep
  <1>3. QED
    BY <1>1, <1>2

(* Nobody else asks or writes while d does. *)
LEMMA Alone ==
    ASSUME HkInv, NEW d \in Dial, hk[d].pc \in {"confirm", "append"}
    PROVE  mu = d /\ \A e \in Dial \ {d} : hk[e].pc \notin {"confirm", "append"}
  BY DEF HkInv, HolderAsks

LEMMA ConfirmAgreesStep ==
    ASSUME HkInv, NEW d \in Dial, ConfirmAgrees(d)
    PROVE  HkInv'
  <1>1. /\ hk[d].pc = "confirm"
        /\ confirmed' = confirmed \cup {PinLine(d)}
        /\ At(d, "append")
        /\ UNCHANGED <<policy, file, verify, mu>>
    BY DEF ConfirmAgrees, PinLine
  <1>2. HkTyped' /\ HolderAsks' /\ PromptIsCurrent'
    BY <1>1 DEF HkInv, HkTyped, HolderAsks, PromptIsCurrent, At, HkPC
  <1>3. PinIsConfirmed'
    BY <1>1 DEF HkInv, HkTyped, PinIsConfirmed, At, PinLine
  <1>4. AcceptedIsPinned'
    BY <1>1 DEF HkInv, HkTyped, AcceptedIsPinned, At
  <1>5. LinesHaveOrigin'
    BY <1>1 DEF HkInv, LinesHaveOrigin
  <1>6. QED
    BY <1>1, <1>2, <1>3, <1>4, <1>5 DEF HkInv, VerifyIsHead

LEMMA PinWrittenStep ==
    ASSUME HkInv, NEW d \in Dial, PinWritten(d)
    PROVE  HkInv'
  <1> DEFINE l == PinLine(d)
  <1>1. PICK e \in {"nil", "write"} : Return(d, e)
    BY DEF PinWritten
  <1>2. /\ hk[d].pc = "append"
        /\ file' = [file EXCEPT !.lines = Append(file.lines, l)]
        /\ mu' = "none"
        /\ UNCHANGED <<policy, verify, confirmed>>
    BY DEF PinWritten
  <1>3. l \in FileLine /\ file.lines \in Seq(FileLine)
    BY PinLineIsFileLine DEF HkInv, HkTyped
  <1>4. /\ file'.lines = Append(file.lines, l)
        /\ file'.torn = file.torn
    BY <1>2 DEF HkInv, HkTyped
  <1>5. /\ file'.lines \in Seq(FileLine)
        /\ Len(file'.lines) = Len(file.lines) + 1
        /\ Len(file.lines) \in Nat
        /\ \A i \in 1 .. Len(file.lines) : file'.lines[i] = file.lines[i]
        /\ file'.lines[Len(file.lines) + 1] = l
    BY <1>3, <1>4
  <1>6. HkTyped'
    <2>1. file' \in [lines : Seq(FileLine), torn : BOOLEAN]
      BY <1>2, <1>5, <1>4 DEF HkInv, HkTyped
    <2>2. hk' \in [Dial -> [pc : HkPC, key : Key \cup {"none"}, err : Outcome]]
      BY <1>1, ZenonT(40) DEF HkInv, HkTyped, Return, HkPC, Outcome
    <2>3. QED
      BY <1>2, <2>1, <2>2 DEF HkInv, HkTyped
  <1>7. VerifyIsHead'
    <2>1. Len(verify) \in Nat
      BY DEF HkInv, HkTyped
    <2>2. QED
      BY <1>2, <1>5, <2>1 DEF HkInv, VerifyIsHead
  <1>8. \A c \in Dial : hk'[c].pc \notin {"confirm", "append"}
    BY <1>1, <1>2, Alone DEF HkInv, HkTyped, Return
  <1>9. HolderAsks' /\ PromptIsCurrent' /\ PinIsConfirmed'
    BY <1>8 DEF HolderAsks, PromptIsCurrent, PinIsConfirmed
  <1>10. LinesHaveOrigin'
    <2>1. PICK s \in Start :
            /\ Len(s.lines) <= Len(file.lines)
            /\ \A i \in 1 .. Len(s.lines) : file.lines[i] = s.lines[i]
            /\ \A i \in 1 .. Len(file.lines) : i > Len(s.lines) => file.lines[i] \in confirmed
      BY DEF HkInv, LinesHaveOrigin
    <2>2. Len(s.lines) \in Nat
      BY HostKeysAssumption
    <2>3. l \in confirmed
      BY <1>2 DEF HkInv, PinIsConfirmed
    <2>4. \A i \in 1 .. Len(file'.lines) : i > Len(s.lines) => file'.lines[i] \in confirmed
      BY <1>5, <2>1, <2>2, <2>3
    <2>5. QED
      BY <1>2, <1>5, <2>1, <2>2, <2>4 DEF LinesHaveOrigin
  <1>11. AcceptedIsPinned'
    <2>1. \A a : Want(file.lines, a) \subseteq Want(file'.lines, a)
      BY <1>3, <1>4, WantOfAppend
    <2>2. hk[d].key \in Want(file'.lines, Target[d].host)
      <3>1. l.key = hk[d].key /\ Target[d].host \in l.addrs
        BY DEF PinLine, Line
      <3>2. QED
        BY <1>3, <1>4, <3>1, WantOfAppend
    <2>3. \A c \in Dial \ {d} : hk'[c] = hk[c]
      BY <1>1 DEF Return, HkInv, HkTyped
    <2>4. hk'[d].key = hk[d].key
      BY <1>1 DEF Return, HkInv, HkTyped
    <2>5. QED
      BY <1>2, <2>1, <2>2, <2>3, <2>4 DEF HkInv, AcceptedIsPinned
  <1>12. QED
    BY <1>6, <1>7, <1>9, <1>10, <1>11 DEF HkInv

LEMMA PinFailsStep ==
    ASSUME HkInv, NEW d \in Dial, PinFails(d)
    PROVE  HkInv'
  <1>1. PICK cut \in BOOLEAN : file' = [file EXCEPT !.torn = cut]
    BY DEF PinFails
  <1>2. /\ hk[d].pc = "append"
        /\ Return(d, "write")
        /\ mu' = "none"
        /\ UNCHANGED <<policy, verify, confirmed>>
    BY DEF PinFails
  <1>3. file'.lines = file.lines
    BY <1>1 DEF HkInv, HkTyped
  <1>4. HkTyped'
    BY <1>1, <1>2, ZenonT(40) DEF HkInv, HkTyped, Return, HkPC, Outcome
  <1>5. \A c \in Dial : hk'[c].pc \notin {"confirm", "append"}
    BY <1>2, Alone DEF HkInv, HkTyped, Return
  <1>6. AcceptedIsPinned'
    BY <1>2, <1>3 DEF HkInv, HkTyped, AcceptedIsPinned, Return
  <1>7. QED
    BY <1>2, <1>3, <1>4, <1>5, <1>6 DEF HkInv, VerifyIsHead, HolderAsks, PromptIsCurrent,
       LinesHaveOrigin, PinIsConfirmed

LEMMA CallbackStep ==
    ASSUME HkInv, NEW d \in Dial, Callback(d)
    PROVE  HkInv'
  <1>1. CASE InsecureAcceptAny(d)
    BY <1>1, ReturnStep DEF InsecureAcceptAny, Outcome
  <1>2. CASE ConfirmRefuses(d)
    <2>1. PICK e \in Declined : Return(d, e)
      BY <1>2 DEF ConfirmRefuses
    <2>2. e \in Outcome /\ e # "nil"
      BY DEF Declined, Outcome
    <2>3. mu = d /\ mu' = "none" /\ UNCHANGED <<policy, file, verify, confirmed>>
      BY <1>2, Alone DEF ConfirmRefuses
    <2>4. QED
      BY <2>1, <2>2, <2>3, ReturnStep
  <1>3. QED
    BY <1>1, <1>2, KnownHostsStep, LockStep, ConfirmAgreesStep, PinWrittenStep, PinFailsStep
       DEF Callback

-----------------------------------------------------------------------------
(* A step that leaves the policies alone leaves their invariant alone. *)
LEMMA HkFrame == HkInv /\ UNCHANGED hkVars => HkInv'
  <1> SUFFICES ASSUME HkInv, UNCHANGED hkVars PROVE HkInv'
    OBVIOUS
  <1>1. UNCHANGED <<policy, file, verify, mu, hk, confirmed>>
    BY DEF hkVars
  <1>2. HkTyped' /\ VerifyIsHead' /\ HolderAsks' /\ PromptIsCurrent'
    BY <1>1 DEF HkInv, HkTyped, VerifyIsHead, HolderAsks, PromptIsCurrent
  <1>3. LinesHaveOrigin'
    BY <1>1 DEF HkInv, LinesHaveOrigin
  <1>4. PinIsConfirmed' /\ AcceptedIsPinned'
    BY <1>1 DEF HkInv, PinIsConfirmed, PinLine, AcceptedIsPinned
  <1>5. QED
    BY <1>2, <1>3, <1>4 DEF HkInv

-----------------------------------------------------------------------------
(* What a callback's step does to its dial: it is under way, and stays so or ends. *)
LEMMA CallbackMoves ==
    ASSUME HkTyped, NEW d \in Dial, Callback(d)
    PROVE  /\ hk[d].pc \notin {"off", "done"}
           /\ hk'[d].pc # "off"
           /\ \A c \in Dial \ {d} : hk'[c] = hk[c]
  <1> USE DEF HkTyped, Return, At
  <1>1. CASE InsecureAcceptAny(d)
    BY <1>1 DEF InsecureAcceptAny
  <1>2. CASE KnownHosts(d)
    BY <1>2 DEF KnownHosts
  <1>3. CASE Lock(d)
    BY <1>3 DEF Lock
  <1>4. CASE ConfirmRefuses(d)
    BY <1>4 DEF ConfirmRefuses
  <1>5. CASE ConfirmAgrees(d)
    BY <1>5 DEF ConfirmAgrees
  <1>6. CASE PinWritten(d)
    BY <1>6 DEF PinWritten
  <1>7. CASE PinFails(d)
    BY <1>7 DEF PinFails
  <1>8. QED
    BY <1>1, <1>2, <1>3, <1>4, <1>5, <1>6, <1>7 DEF Callback

(* DialInv, one step per action of a user. *)
LEMMA DialsStep ==
    ASSUME Inv, NEW d \in User, Dials(d)
    PROVE  DialInv'
  <1> USE ClientAssumption DEF Inv, HkInv, HkTyped, DialInv, DialTyped, ResultComesLast,
        PolicyAnswersFirst, RivalsOnlyDial, ClosingIsOver, WaitsForSession, StageIsCertain,
        FreshClientIsLive, DialPC, Dialing, Using, Stage, Goto, Set
  <1>1. CASE DialRejected(d)
    BY <1>1 DEF DialRejected, Fail, hkVars, useVars
  <1>2. CASE DialStarts(d)
    BY <1>2 DEF DialStarts, hkVars, useVars
  <1>3. CASE ConnectFails(d)
    BY <1>3 DEF ConnectFails, Fail, hkVars, useVars
  <1>4. CASE Connected(d)
    BY <1>4 DEF Connected, hkVars, useVars
  <1>5. CASE DialCtxEnds(d)
    <2>1. PICK b \in BOOLEAN : closing' = [closing EXCEPT ![d] = b]
      BY <1>5 DEF DialCtxEnds, Armed
    <2>2. /\ over' = [over EXCEPT ![d] = TRUE]
          /\ UNCHANGED <<hk, pc, conn, peerLost, result, done, ka, ctx, sess, wait, stop>>
      BY <1>5 DEF DialCtxEnds, hkVars, useVars
    <2>3. QED
      BY <2>1, <2>2
  <1>6. CASE AfterFuncCloses(d)
    BY <1>6 DEF AfterFuncCloses, hkVars, useVars
  <1>7. CASE PeerFails(d)
    BY <1>7 DEF PeerFails, hkVars, useVars
  <1>8. CASE KeyExchanged(d)
    BY <1>8 DEF KeyExchanged, Present, useVars
  <1>9. CASE HostKeyStep(d)
    <2>1. /\ hk[d].pc \notin {"off", "done"}
          /\ hk'[d].pc # "off"
          /\ \A c \in Dial \ {d} : hk'[c] = hk[c]
      BY <1>9, CallbackMoves DEF HostKeyStep
    <2>2. UNCHANGED <<pc, conn, peerLost, over, closing, result, done, ka, ctx, sess, wait, stop>>
      BY <1>9 DEF HostKeyStep, dialVars, useVars
    <2>3. pc[d] \notin {"idle", "connect", "kex", "auth"} /\ result[d] = "none"
      BY <2>1
    <2>4. \A c \in Dial : c # d => hk'[c] = hk[c]
      BY <2>1
    <2>5. ASSUME NEW c \in User PROVE
            /\ pc'[c] \in {"idle", "connect", "kex"} => hk'[c].pc = "off"
            /\ pc'[c] = "auth" => hk'[c].pc = "done" /\ hk'[c].err = "nil"
            /\ result'[c] # "none" => hk'[c].pc \in {"off", "done"}
      <3>1. CASE c = d
        BY <2>2, <2>3, <3>1
      <3>2. CASE c # d
        <4>1. c \in Dial /\ hk'[c] = hk[c]
          BY <2>4, <3>2
        <4>2. QED
          BY <2>2, <4>1
      <3>3. QED
        BY <3>1, <3>2
    <2>6. StageIsCertain'
      BY <2>2, <2>3, <2>4
    <2>7. PolicyAnswersFirst'
      BY <2>5
    <2>8. QED
      BY <2>2, <2>6, <2>7
  <1>10. CASE HostKeyAccepted(d)
    BY <1>10 DEF HostKeyAccepted, hkVars, useVars
  <1>11. CASE HandshakeFails(d)
    BY <1>11 DEF HandshakeFails, Fail, Recorded, hkVars, useVars
  <1>12. CASE DialSucceeds(d)
    BY <1>12 DEF DialSucceeds, Detach, StartKeepalive, hkVars, useVars
  <1>13. QED
    BY <1>1, <1>2, <1>3, <1>4, <1>5, <1>6, <1>7, <1>8, <1>9, <1>10, <1>11, <1>12 DEF Dials

LEMMA LivesStep ==
    ASSUME Inv, NEW d \in User, Lives(d)
    PROVE  DialInv'
  <1> USE ClientAssumption DEF Inv, HkInv, HkTyped, DialInv, DialTyped, ResultComesLast,
        PolicyAnswersFirst, RivalsOnlyDial, ClosingIsOver, WaitsForSession, StageIsCertain,
        FreshClientIsLive, DialPC, Dialing, Using, Stage, Goto, Set
  <1>1. CASE Close(d)
    <2>1. /\ done' = [done EXCEPT ![d] = TRUE]
          /\ conn' = [conn EXCEPT ![d] = "dead"]
          /\ result[d] = "client"
          /\ UNCHANGED <<hk, peerLost, over, closing, result, ka, ctx, sess, wait, stop>>
      BY <1>1 DEF Close, closeClient, hkVars, useVars
    <2>2. CASE pc[d] = "ready" /\ pc' = [pc EXCEPT ![d] = "over"]
      BY <2>1, <2>2
    <2>3. CASE UNCHANGED pc
      BY <2>1, <2>3
    <2>4. QED
      BY <1>1, <2>2, <2>3 DEF Close
  <1>2. CASE KeepaliveTicks(d)
    BY <1>2 DEF KeepaliveTicks, hkVars, dialVars, useVars
  <1>3. CASE PingAnswered(d)
    BY <1>3 DEF PingAnswered, hkVars, dialVars, useVars
  <1>4. CASE PingFails(d)
    BY <1>4 DEF PingFails, ClosesClient, closeClient, hkVars, useVars
  <1>5. QED
    BY <1>1, <1>2, <1>3, <1>4 DEF Lives

LEMMA UsesStep ==
    ASSUME Inv, NEW d \in User, Uses(d)
    PROVE  DialInv'
  <1> USE ClientAssumption DEF Inv, HkInv, HkTyped, DialInv, DialTyped, ResultComesLast,
        PolicyAnswersFirst, RivalsOnlyDial, ClosingIsOver, WaitsForSession, StageIsCertain,
        FreshClientIsLive, DialPC, Dialing, Using, Stage, Goto, Set, UseOver, useRest
  <1>1. CASE CtxEnds(d)
    BY <1>1 DEF CtxEnds, hkVars, useVars
  <1>2. CASE UseStarts(d)
    <2>1. PICK l \in {"newSession", "newShell"} : pc' = [pc EXCEPT ![d] = l]
      BY <1>2 DEF UseStarts
    <2>2. /\ pc[d] = "ready"
          /\ UNCHANGED <<hk, conn, peerLost, over, closing, result, done, ka, ctx, sess, wait, stop>>
      BY <1>2 DEF UseStarts, hkVars, useVars
    <2>3. QED
      BY <2>1, <2>2
  <1>3. CASE UseRefused(d)
    BY <1>3 DEF UseRefused, hkVars, useVars
  <1>4. CASE SessionOpened(d)
    BY <1>4 DEF SessionOpened, hkVars, useVars
  <1>5. CASE RequestFails(d)
    BY <1>5 DEF RequestFails, hkVars, useVars
  <1>6. CASE CommandStarts(d)
    BY <1>6 DEF CommandStarts, hkVars, useVars
  <1>7. CASE WaitReturns(d)
    <2>1. /\ wait[d] = "waiting" /\ wait' = [wait EXCEPT ![d] = "returned"]
          /\ UNCHANGED <<hk, conn, peerLost, over, closing, result, done, ka, ctx, sess>>
      BY <1>7 DEF WaitReturns, hkVars
    <2>2. CASE /\ pc[d] = "waiting" /\ pc' = [pc EXCEPT ![d] = "used"]
               /\ stop' = [stop EXCEPT ![d] = "called"]
      BY <2>1, <2>2
    <2>3. CASE UNCHANGED <<pc, stop>>
      BY <2>1, <2>3
    <2>4. QED
      BY <1>7, <2>2, <2>3 DEF WaitReturns
  <1>8. CASE CommandReturns(d)
    BY <1>8 DEF CommandReturns, hkVars, useVars
  <1>9. CASE ShellRuns(d)
    BY <1>9 DEF ShellRuns, hkVars, useVars
  <1>10. CASE ShellReturns(d)
    BY <1>10 DEF ShellReturns, hkVars, useVars
  <1>11. CASE ShellWaits(d)
    BY <1>11 DEF ShellWaits, hkVars, useVars
  <1>12. CASE SessionCloses(d)
    <2>1. /\ sess[d] = "open"
          /\ UNCHANGED <<hk, pc, conn, peerLost, over, closing, result, done, ka, ctx, wait>>
      BY <1>12 DEF SessionCloses, hkVars
    <2>2. CASE UNCHANGED <<sess, stop>>
      BY <2>1, <2>2
    <2>3. CASE /\ sess' = [sess EXCEPT ![d] = "closed"]
               /\ stop' = [stop EXCEPT ![d] = "called"]
      BY <2>1, <2>3
    <2>4. QED
      BY <1>12, <2>2, <2>3 DEF SessionCloses
  <1>13. QED
    BY <1>1, <1>2, <1>3, <1>4, <1>5, <1>6, <1>7, <1>8, <1>9, <1>10, <1>11, <1>12 DEF Uses

-----------------------------------------------------------------------------
(* A rival moves in the policy only, and no user's callback is its. *)
LEMMA RivalStep ==
    ASSUME Inv, NEW d \in Dial \ User, RivalDials(d) \/ HostKeyStep(d)
    PROVE  Inv'
  <1>1. UNCHANGED <<dialVars, done, ka, useVars>>
    BY DEF RivalDials, HostKeyStep
  <1>2. HkInv'
    BY PresentStep, CallbackStep DEF Inv, RivalDials, HostKeyStep
  <1>3. \A c \in User : hk'[c] = hk[c]
    <2>1. CASE HostKeyStep(d)
      BY <2>1, CallbackMoves, ClientAssumption DEF HostKeyStep, Inv, HkInv
    <2>2. CASE RivalDials(d)
      BY <2>2, ClientAssumption DEF RivalDials, Present, Inv, HkInv, HkTyped
    <2>3. QED
      BY <2>1, <2>2
  <1>4. result[d] = "none"
    BY DEF Inv, DialInv, RivalsOnlyDial, ResultComesLast
  <1>5. \A c \in Dial : result[c] # "none" => hk'[c] = hk[c]
    <2>1. \A c \in Dial \ User : result[c] = "none"
      BY DEF Inv, DialInv, RivalsOnlyDial, ResultComesLast
    <2>2. QED
      BY <1>3, <2>1
  <1>6. DialTyped' /\ ResultComesLast' /\ RivalsOnlyDial' /\ ClosingIsOver'
          /\ WaitsForSession' /\ FreshClientIsLive'
    BY <1>1 DEF Inv, DialInv, DialTyped, ResultComesLast, RivalsOnlyDial, ClosingIsOver,
                WaitsForSession, FreshClientIsLive, dialVars, useVars
  <1>7. PolicyAnswersFirst'
    BY <1>1, <1>3 DEF Inv, DialInv, PolicyAnswersFirst, dialVars
  <1>8. StageIsCertain'
    BY <1>1, <1>5 DEF Inv, DialInv, StageIsCertain, dialVars
  <1>9. QED
    BY <1>2, <1>6, <1>7, <1>8 DEF Inv, DialInv

LEMMA DialFrame ==
    ASSUME DialInv, UNCHANGED <<dialVars, done, ka, useVars, hk>>
    PROVE  DialInv'
  <1>1. UNCHANGED <<pc, conn, peerLost, over, closing, result, done, ka, ctx, sess, wait,
                    stop, hk>>
    BY DEF dialVars, useVars
  <1>2. DialTyped' /\ ResultComesLast' /\ PolicyAnswersFirst'
    BY <1>1 DEF DialInv, DialTyped, ResultComesLast, PolicyAnswersFirst
  <1>3. QED
    BY <1>1, <1>2 DEF DialInv, RivalsOnlyDial, ClosingIsOver, WaitsForSession,
                      StageIsCertain, FreshClientIsLive

(* Of a user's actions only the callback's touch the policies. *)
LEMMA UserHkStep ==
    ASSUME HkInv, NEW d \in User, Dials(d) \/ Lives(d) \/ Uses(d)
    PROVE  HkInv'
  <1>1. CASE KeyExchanged(d)
    BY <1>1, PresentStep, ClientAssumption DEF KeyExchanged
  <1>2. CASE HostKeyStep(d)
    BY <1>2, CallbackStep, ClientAssumption DEF HostKeyStep
  <1>3. CASE UNCHANGED hkVars
    BY <1>3, HkFrame
  <1>4. Dials(d) => KeyExchanged(d) \/ HostKeyStep(d) \/ UNCHANGED hkVars
    BY DEF Dials, DialRejected, DialStarts, ConnectFails, Connected, DialCtxEnds,
           AfterFuncCloses, PeerFails, HostKeyAccepted, HandshakeFails, DialSucceeds
  <1>5. Lives(d) => UNCHANGED hkVars
    BY DEF Lives, Close, KeepaliveTicks, PingAnswered, PingFails
  <1>6. Uses(d) => UNCHANGED hkVars
    BY DEF Uses, useRest, CtxEnds, UseStarts, UseRefused, SessionOpened, RequestFails,
           CommandStarts, WaitReturns, CommandReturns, ShellRuns, ShellReturns, ShellWaits,
           SessionCloses
  <1>7. QED
    BY <1>1, <1>2, <1>3, <1>4, <1>5, <1>6

LEMMA InitInv == Init => Inv
  <1> SUFFICES ASSUME Init PROVE Inv
    OBVIOUS
  <1>1. HkInv
    BY HkInitInv DEF Init
  <1>2. DialInv
    BY ClientAssumption DEF Init, HkInit, DialInv, DialTyped, DialPC, ResultComesLast,
       PolicyAnswersFirst, RivalsOnlyDial, ClosingIsOver, WaitsForSession, StageIsCertain,
       FreshClientIsLive, Dialing, Using, Stage
  <1>3. QED
    BY <1>1, <1>2 DEF Inv

LEMMA InvStep == Inv /\ [Next]_vars => Inv'
  <1> SUFFICES ASSUME Inv, [Next]_vars PROVE Inv'
    OBVIOUS
  <1>1. CASE ReopenPolicy
    BY <1>1, ReopenStep, DialFrame DEF ReopenPolicy, Reopen, Inv
  <1>2. ASSUME NEW d \in User, Dials(d) \/ Lives(d) \/ Uses(d) PROVE Inv'
    BY <1>2, UserHkStep, DialsStep, LivesStep, UsesStep DEF Inv
  <1>3. ASSUME NEW d \in Dial \ User, RivalDials(d) \/ HostKeyStep(d) PROVE Inv'
    BY <1>3, RivalStep
  <1>4. CASE UNCHANGED vars
    BY <1>4, HkFrame, DialFrame DEF vars, hkVars, Inv
  <1>5. QED
    BY <1>1, <1>2, <1>3, <1>4 DEF Next

THEOREM SpecInv == Spec => []Inv
  <1>1. QED
    BY InitInv, InvStep, PTL DEF Spec

-----------------------------------------------------------------------------
(***************************************************************************)
(* Every variable keeps its type, the keepalive runs for exactly the dials *)
(* that returned a client (dial starts it last), and a Wait is for a       *)
(* session that was opened.                                                *)
(***************************************************************************)
THEOREM SSHClientTypeCorrect == Spec => []TypeOK
  <1>1. Inv => TypeOK
    BY DEF Inv, HkInv, HkTyped, HkPC, VerifyIsHead, DialInv, DialTyped, DialPC, Using,
           ResultComesLast, WaitsForSession, TypeOK, HkTypeOK
  <1>2. QED
    BY <1>1, SpecInv, PTL

(***************************************************************************)
(* TOFU asks about a host, and writes the answer, only while known_hosts   *)
(* has nothing about it, whatever the dials that share the policy do.      *)
(***************************************************************************)
THEOREM SSHPromptIsCurrent == Spec => []PromptIsCurrent
  <1>1. Inv => PromptIsCurrent
    BY DEF Inv, HkInv
  <1>2. QED
    BY <1>1, SpecInv, PTL

(***************************************************************************)
(* A policy other than InsecureAcceptAny accepts a key only if the file    *)
(* gives it for the name dialed, and only if it was in the file from the   *)
(* start or the user agreed to it for that address.                        *)
(***************************************************************************)
THEOREM SSHAcceptedWasConfirmed == Spec => []AcceptedWasConfirmed
  <1>1. ASSUME Inv PROVE AcceptedWasConfirmed
    <2> SUFFICES ASSUME NEW d \in Dial, hk[d].pc = "done", hk[d].err = "nil", policy # "any"
                 PROVE  /\ hk[d].key \in Want(file.lines, Target[d].host)
                        /\ \/ \E s \in Start : /\ IsPrefix(s.lines, file.lines)
                                              /\ hk[d].key \in Want(s.lines, Target[d].host)
                           \/ \E l \in confirmed : Target[d].host \in l.addrs /\ l.key = hk[d].key
      BY DEF AcceptedWasConfirmed
    <2>1. hk[d].key \in Want(file.lines, Target[d].host)
      BY <1>1 DEF Inv, HkInv, AcceptedIsPinned
    <2>2. PICK l \in ToSet(file.lines) : Target[d].host \in l.addrs /\ l.key = hk[d].key
      BY <2>1 DEF Want
    <2>3. file.lines \in Seq(FileLine) /\ Len(file.lines) \in Nat
      BY <1>1 DEF Inv, HkInv, HkTyped
    <2>4. PICK i \in 1 .. Len(file.lines) : l = file.lines[i]
      BY <2>3 DEF ToSet
    <2>5. PICK s \in Start :
            /\ Len(s.lines) <= Len(file.lines)
            /\ \A j \in 1 .. Len(s.lines) : file.lines[j] = s.lines[j]
            /\ \A j \in 1 .. Len(file.lines) : j > Len(s.lines) => file.lines[j] \in confirmed
      BY <1>1 DEF Inv, HkInv, LinesHaveOrigin
    <2>6. s.lines \in Seq(ToSet(s.lines)) /\ Len(s.lines) \in Nat
      BY HostKeysAssumption
    <2>7. CASE i > Len(s.lines)
      BY <2>1, <2>2, <2>4, <2>5, <2>7
    <2>8. CASE i <= Len(s.lines)
      <3>1. i \in DOMAIN s.lines /\ s.lines[i] = l
        BY <2>4, <2>5, <2>6, <2>8
      <3>2. l \in ToSet(s.lines)
        BY <3>1 DEF ToSet
      <3>3. hk[d].key \in Want(s.lines, Target[d].host)
        BY <2>2, <3>2 DEF Want
      <3>4. IsPrefix(s.lines, file.lines)
        <4>1. SubSeq(s.lines, 1, Len(s.lines)) = SubSeq(file.lines, 1, Len(s.lines))
          BY <2>3, <2>5, <2>6
        <4>2. QED
          BY <2>5, <4>1 DEF IsPrefix
      <3>5. QED
        BY <2>1, <3>3, <3>4
    <2>9. QED
      BY <2>4, <2>6, <2>7, <2>8
  <1>2. QED
    BY <1>1, SpecInv, PTL

(***************************************************************************)
(* What dial reports is true: the stage it names is hostkey exactly when   *)
(* the policy refused, and the client it returns is connected unless the   *)
(* peer was lost, the dial's ctx had ended or Close was called.            *)
(***************************************************************************)
THEOREM SSHDialIsHonest == Spec => []DialIsHonest
  <1>1. Inv => DialIsHonest
    BY DEF Inv, DialInv, DialIsHonest
  <1>2. QED
    BY <1>1, SpecInv, PTL
=============================================================================
