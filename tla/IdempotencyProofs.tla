-------------------------- MODULE IdempotencyProofs --------------------------
(***************************************************************************)
(* Theorems about the idempotency middleware, for every set of requests    *)
(* and keys and every capacity, over a store that may fail: that a replay  *)
(* is faithful, and, when requests end within the TTL, that a key is       *)
(* executed at most once within it and that the middleware implements      *)
(* OncePerKey.                                                             *)
(***************************************************************************)
EXTENDS Idempotency, TLAPS

-----------------------------------------------------------------------------
(* Types, and that a request that has arrived knows its key.               *)
Arrived ==
    \A r \in Req : req[r].pc # "unborn" =>
        req[r].key \in Key /\ req[r].fp \in Fingerprint

Unanswered == \A r \in Req : req[r].pc # "answered" =>
    req[r].answer = "none" /\ req[r].resp = None

TypeInv == TypeOK /\ Arrived /\ Unanswered

LEMMA InitTypes == Init => TypeInv
  BY IdempotencyAssumption
     DEF Init, TypeInv, TypeOK, Arrived, Unanswered, ReqType, PC, Answers, Unborn

(* What SetNX leaves in the store is typed. *)
LEMMA InsertTypes ==
    ASSUME TypeInv, NEW r \in Req, req[r].pc = "claim",
           Insert(r, req[r].key, req[r].now)
    PROVE  entries' \in [Key -> Entry \cup {None}]
  <1>1. req[r].fp \in Fingerprint /\ req[r].now \in Nat
    BY DEF TypeInv, TypeOK, Arrived, ReqType
  <1>2. [value |-> [fp |-> req[r].fp, inFlight |-> TRUE, resp |-> None],
         expires |-> req[r].now + TTL] \in Entry
    BY <1>1, IdempotencyAssumption DEF Entry, Record
  <1>3. QED
    BY <1>2 DEF Insert, TypeInv, TypeOK

LEMMA TypeStep == TypeInv /\ [Next]_vars => TypeInv'
  <1> SUFFICES ASSUME TypeInv, [Next]_vars PROVE TypeInv'
    OBVIOUS
  <1> USE DEF TypeInv, TypeOK, Arrived, Unanswered, ReqType, PC, Answers, Executing
  <1>1. CASE Tick
    BY <1>1 DEF Tick
  <1>2. ASSUME NEW r \in Req, NEW k \in Key, NEW p \in Fingerprint, Arrive(r, k, p)
        PROVE TypeInv'
    BY <1>2 DEF Arrive, Fresh
  <1>3. ASSUME NEW r \in Req, Claims(r) PROVE TypeInv'
    <2>1. entries' \in [Key -> Entry \cup {None}]
      BY <1>3, InsertTypes DEF Claims
    <2>2. QED
      BY <1>3, <2>1 DEF Claims, Swept
  <1>4. ASSUME NEW r \in Req, ClaimTaken(r) PROVE TypeInv'
    BY <1>4 DEF ClaimTaken
  <1>5. ASSUME NEW r \in Req, ClaimFull(r) PROVE TypeInv'
    BY <1>5 DEF ClaimFull, Swept, Answer
  <1>6. ASSUME NEW r \in Req, ClaimFails(r) PROVE TypeInv'
    <2>1. entries' \in [Key -> Entry \cup {None}]
      BY <1>6, InsertTypes DEF ClaimFails
    <2>2. lastSweep' \in Int
      BY <1>6 DEF ClaimFails, Swept
    <2>3. QED
      BY <1>6, <2>1, <2>2 DEF ClaimFails, Answer
  <1>7. ASSUME NEW r \in Req, HandlerCompletes(r) PROVE TypeInv'
    BY <1>7 DEF HandlerCompletes
  <1>8. ASSUME NEW r \in Req, HandlerFails(r) PROVE TypeInv'
    BY <1>8 DEF HandlerFails
  <1>9. ASSUME NEW r \in Req, StoresResponse(r) PROVE TypeInv'
    <2>1. entries' \in [Key -> Entry \cup {None}]
      <3>1. CASE Live(req[r].key, clock) /\ Write(r, req[r].key)
        <4>1. entries[req[r].key] \in Entry
          BY <1>9, <3>1 DEF StoresResponse, Live
        <4>2. [fp |-> req[r].fp, inFlight |-> FALSE, resp |-> r] \in Record
          BY <1>9 DEF StoresResponse, Record
        <4>3. [entries[req[r].key] EXCEPT
                 !.value = [fp |-> req[r].fp, inFlight |-> FALSE, resp |-> r]] \in Entry
          BY <4>1, <4>2 DEF Entry
        <4>4. QED
          BY <3>1, <4>3 DEF Write
      <3>2. QED
        BY <1>9, <3>1 DEF StoresResponse
    <2>2. QED
      BY <1>9, <2>1 DEF StoresResponse, Answer
  <1>10. ASSUME NEW r \in Req, Releases(r) PROVE TypeInv'
    BY <1>10 DEF Releases, Answer
  <1>11. ASSUME NEW r \in Req, AnswersDuplicate(r) PROVE TypeInv'
    <2>1. Live(req[r].key, clock) => entries[req[r].key].value.resp \in Req \cup {None}
      BY <1>11 DEF AnswersDuplicate, Found, Live, Entry, Record
    <2>2. \A v : Verdict(r, v) \in Answers
      BY DEF Verdict
    <2>3. QED
      BY <1>11, <2>1, <2>2 DEF AnswersDuplicate, Found, Answer
  <1>12. CASE UNCHANGED vars
    BY <1>12 DEF vars
  <1>13. QED
    BY <1>1, <1>2, <1>3, <1>4, <1>5, <1>6, <1>7, <1>8, <1>9, <1>10, <1>11, <1>12 DEF Next

(***************************************************************************)
(* The middleware keeps its types: a record in flight has no response, one *)
(* that is not has the response of a request.                              *)
(***************************************************************************)
THEOREM TypeCorrect == Spec => []TypeOK
  <1>1. TypeInv => TypeOK
    BY DEF TypeInv
  <1>2. QED
    BY <1>1, InitTypes, TypeStep, PTL DEF Spec

-----------------------------------------------------------------------------
(***************************************************************************)
(* Ownership, when every request ends within the TTL: the entry of a key   *)
(* is, until its lifetime is over, that of the one execution that claimed  *)
(* it and has not released it.                                             *)
(***************************************************************************)
Timely == MaxSpan < TTL

Owns(r) == r \in Standing /\ clock < req[r].now + TTL

Prompt == \A r \in Req :
    /\ req[r].pc = "claim" => req[r].now <= clock /\ clock <= req[r].now + MaxStall
    /\ req[r].pc \in Executing => clock <= req[r].now + MaxSpan

OwnerHasEntry == \A r \in Req : Owns(r) =>
    /\ entries[req[r].key] # None
    /\ entries[req[r].key].expires = req[r].now + TTL
    /\ req[r].pc \in Executing => entries[req[r].key].value.resp = None

OneOwner == \A r, s \in Req : Owns(r) /\ Owns(s) /\ req[r].key = req[s].key => r = s

OwnInv == TypeInv /\ Prompt /\ OwnerHasEntry /\ OneOwner

LEMMA InitOwns == Init => OwnInv
  BY InitTypes DEF OwnInv, Prompt, OwnerHasEntry, OneOwner, Owns, Standing, Executing,
                   Init, Unborn

(* Neither the lazy deletion nor the sweep drops another key's live entry. *)
LEMMA LiveSurvives ==
    ASSUME OwnInv, NEW r \in Req, req[r].pc = "claim",
           NEW j \in Key, j # req[r].key, Live(j, clock)
    PROVE  j \in Remaining(req[r].key, req[r].now)
  <1>1. Live(j, req[r].now)
    <2>1. req[r].now <= clock
      BY DEF OwnInv, Prompt
    <2>2. entries[j] \in Entry /\ clock < entries[j].expires
      BY DEF Live, OwnInv, TypeInv, TypeOK
    <2>3. req[r].now \in Nat /\ clock \in Nat /\ entries[j].expires \in Int
      BY <2>2 DEF OwnInv, TypeInv, TypeOK, ReqType, Entry
    <2>4. QED
      BY <2>1, <2>2, <2>3 DEF Live
  <1>2. QED
    BY <1>1 DEF Remaining, Kept, Sweepable, Stored, Live

(* A key that SetNX finds free has no owner. *)
LEMMA FreeIsUnowned ==
    ASSUME OwnInv, NEW r \in Req, req[r].pc = "claim",
           ~Taken(req[r].key, req[r].now),
           NEW s \in Req, req[s].key = req[r].key
    PROVE  ~Owns(s)
  <1> SUFFICES ASSUME Owns(s) PROVE FALSE
    OBVIOUS
  <1>1. entries[req[r].key] # None /\ entries[req[r].key].expires = req[s].now + TTL
    BY DEF OwnInv, OwnerHasEntry
  <1>2. req[r].now <= clock /\ clock < req[s].now + TTL
    BY DEF OwnInv, Prompt, Owns
  <1>3. req[r].now \in Nat /\ req[s].now \in Nat /\ clock \in Nat
    BY DEF OwnInv, TypeInv, TypeOK, ReqType
  <1>4. QED
    BY <1>1, <1>2, <1>3, IdempotencyAssumption DEF Taken, Live

(* After SetNX has stored a claim, its key is owned by the claimant alone. *)
LEMMA ClaimsOwn ==
    ASSUME Timely, OwnInv, NEW r \in Req, Claims(r)
    PROVE  Prompt' /\ OwnerHasEntry' /\ OneOwner'
  <1>1. req[r].pc = "claim" /\ req[r].key \in Key /\ req[r].now \in Nat /\ clock \in Nat
    BY DEF Claims, OwnInv, TypeInv, TypeOK, Arrived, ReqType
  <1>2. req' = [req EXCEPT ![r].pc = "run"] /\ clock' = clock
    BY DEF Claims
  <1>3. \A s \in Req : s # r => (Owns(s)' <=> Owns(s)) /\ req'[s] = req[s]
    BY <1>2 DEF Owns, Standing, OwnInv, TypeInv, TypeOK
  <1>4. \A s \in Req : Owns(s) => req[s].key # req[r].key
    BY <1>1, FreeIsUnowned DEF Claims
  <1>5. ASSUME NEW s \in Req, s # r, Owns(s) PROVE entries'[req[s].key] = entries[req[s].key]
    <2>1. req[s].key \in Key /\ req[s].key # req[r].key
      BY <1>4, <1>5 DEF Owns, Standing, Executing, OwnInv, TypeInv, Arrived, Unanswered
    <2>2. Live(req[s].key, clock)
      BY <1>5 DEF OwnInv, OwnerHasEntry, Live, Owns
    <2>3. req[s].key \in Remaining(req[r].key, req[r].now)
      BY <1>1, <2>1, <2>2, LiveSurvives
    <2>4. QED
      BY <2>1, <2>3 DEF Claims, Insert
  <1>6. /\ entries'[req[r].key] =
              [value |-> [fp |-> req[r].fp, inFlight |-> TRUE, resp |-> None],
               expires |-> req[r].now + TTL]
        /\ entries'[req[r].key] # None
    <2>1. entries'[req[r].key] =
              [value |-> [fp |-> req[r].fp, inFlight |-> TRUE, resp |-> None],
               expires |-> req[r].now + TTL]
      BY <1>1 DEF Claims, Insert
    <2>2. req[r].fp \in Fingerprint /\ req[r].now + TTL \in Int
      BY <1>1, IdempotencyAssumption DEF OwnInv, TypeInv, Arrived
    <2>3. entries'[req[r].key] \in Entry
      BY <2>1, <2>2 DEF Entry, Record
    <2>4. QED
      BY <2>1, <2>3, NoneAssumption
  <1>7. req'[r].key = req[r].key /\ req'[r].now = req[r].now /\ req'[r].pc = "run"
    BY <1>2 DEF OwnInv, TypeInv, TypeOK, ReqType
  <1>8. Prompt'
    BY <1>1, <1>2, <1>3, <1>7, IdempotencyAssumption DEF Prompt, OwnInv, Executing
  <1>9. OwnerHasEntry'
    BY <1>3, <1>5, <1>6, <1>7 DEF OwnerHasEntry, OwnInv
  <1>10. OneOwner'
    BY <1>3, <1>4, <1>7 DEF OneOwner, OwnInv
  <1>11. QED
    BY <1>8, <1>9, <1>10

(* A step that starts no execution and keeps the entries of owned keys. *)
LEMMA QuietOwns ==
    ASSUME OwnInv, clock' = clock,
           \A s \in Req : /\ req'[s].pc = "claim" =>
                                req'[s].now = clock \/ req'[s] = req[s]
                          /\ req'[s].pc \in Executing =>
                                req[s].pc \in Executing /\ req'[s].now = req[s].now,
           \A s \in Req : Owns(s)' =>
              /\ Owns(s)
              /\ req'[s].now = req[s].now /\ req'[s].key = req[s].key
              /\ entries'[req[s].key] # None
              /\ entries'[req[s].key].expires = entries[req[s].key].expires
              /\ req'[s].pc \in Executing =>
                    /\ req[s].pc \in Executing
                    /\ entries'[req[s].key].value.resp = entries[req[s].key].value.resp
    PROVE  Prompt' /\ OwnerHasEntry' /\ OneOwner'
  <1>1. Prompt'
    BY IdempotencyAssumption DEF Prompt, OwnInv, TypeInv, TypeOK
  <1>2. OwnerHasEntry'
    BY DEF OwnerHasEntry, OwnInv
  <1>3. OneOwner'
    BY DEF OneOwner, OwnInv
  <1>4. QED
    BY <1>1, <1>2, <1>3

LEMMA OwnStep == Timely /\ OwnInv /\ [Next]_vars => OwnInv'
  <1> SUFFICES ASSUME Timely, OwnInv, [Next]_vars PROVE Prompt' /\ OwnerHasEntry' /\ OneOwner'
    BY TypeStep DEF OwnInv
  <1> DEFINE Goal == Prompt' /\ OwnerHasEntry' /\ OneOwner'
  <1>0. TypeOK /\ Arrived /\ Unanswered
    BY DEF OwnInv, TypeInv
  <1>1. CASE Tick
    <2>1. clock' = clock + 1 /\ clock \in Nat /\ req' = req /\ entries' = entries
      BY <1>0, <1>1 DEF Tick, TypeOK
    <2>2. Prompt'
      BY <1>0, <1>1, <2>1, IdempotencyAssumption DEF Tick, Prompt, OwnInv, TypeOK, ReqType
    <2>3. \A s \in Req : Owns(s)' => Owns(s)
      BY <1>0, <2>1, IdempotencyAssumption DEF Owns, Standing, TypeOK, ReqType
    <2>4. QED
      BY <2>1, <2>2, <2>3 DEF OwnInv, OwnerHasEntry, OneOwner
  <1>2. ASSUME NEW r \in Req, NEW k \in Key, NEW p \in Fingerprint, Arrive(r, k, p)
        PROVE Goal
    <2>1. req' = [req EXCEPT ![r] = Fresh(k, p)] /\ entries' = entries /\ clock' = clock
      BY <1>2 DEF Arrive
    <2>2. \A s \in Req : s # r => req'[s] = req[s] /\ (Owns(s)' <=> Owns(s))
      BY <1>0, <2>1 DEF Owns, Standing, TypeOK
    <2>3. req'[r].pc = "claim" /\ req'[r].now = clock /\ ~Owns(r)'
      BY <1>0, <2>1 DEF Fresh, Owns, Standing, Executing, TypeOK
    <2>4. QED
      BY <2>1, <2>2, <2>3, QuietOwns DEF Executing, OwnInv, OwnerHasEntry
  <1>3. ASSUME NEW r \in Req, Claims(r) PROVE Goal
    BY <1>3, ClaimsOwn
  <1>4. ASSUME NEW r \in Req, ClaimTaken(r) PROVE Goal
    <2>1. req' = [req EXCEPT ![r].pc = "duplicate"] /\ entries' = entries /\ clock' = clock
      BY <1>4 DEF ClaimTaken
    <2>2. \A s \in Req : s # r => req'[s] = req[s] /\ (Owns(s)' <=> Owns(s))
      BY <1>0, <2>1 DEF Owns, Standing, TypeOK
    <2>3. req'[r].pc = "duplicate" /\ ~Owns(r)'
      BY <1>0, <1>4, <2>1 DEF ClaimTaken, Owns, Standing, Executing, TypeOK, ReqType, Unanswered
    <2>4. QED
      BY <2>1, <2>2, <2>3, QuietOwns DEF Executing, OwnInv, OwnerHasEntry
  <1>5. ASSUME NEW r \in Req, ClaimFull(r) PROVE Goal
    <2>1. /\ req' = [req EXCEPT ![r].pc = "answered", ![r].answer = "refused"]
          /\ clock' = clock /\ req[r].pc = "claim"
      BY <1>5 DEF ClaimFull, Answer
    <2>2. \A s \in Req : s # r => req'[s] = req[s] /\ (Owns(s)' <=> Owns(s))
      BY <1>0, <2>1 DEF Owns, Standing, TypeOK
    <2>3. req'[r].pc = "answered" /\ ~Owns(r)'
      BY <1>0, <2>1 DEF Owns, Standing, Executing, TypeOK, ReqType
    <2>4. ASSUME NEW s \in Req, Owns(s) PROVE entries'[req[s].key] = entries[req[s].key]
      <3>1. req[s].key \in Key /\ req[s].key # req[r].key
        BY <1>0, <1>5, <2>1, <2>4, FreeIsUnowned
           DEF ClaimFull, Owns, Standing, Executing, Arrived, Unanswered
      <3>2. Live(req[s].key, clock)
        BY <2>4 DEF OwnInv, OwnerHasEntry, Live, Owns
      <3>3. QED
        BY <1>5, <2>1, <3>1, <3>2, LiveSurvives DEF ClaimFull
    <2>5. QED
      BY <2>1, <2>2, <2>3, <2>4, QuietOwns DEF Executing, OwnInv, OwnerHasEntry
  <1>6. ASSUME NEW r \in Req, ClaimFails(r) PROVE Goal
    <2>1. /\ req' = [req EXCEPT ![r].pc = "answered", ![r].answer = "refused"]
          /\ clock' = clock /\ req[r].pc = "claim"
      BY <1>6 DEF ClaimFails, Answer
    <2>2. \A s \in Req : s # r => req'[s] = req[s] /\ (Owns(s)' <=> Owns(s))
      BY <1>0, <2>1 DEF Owns, Standing, TypeOK
    <2>3. req'[r].pc = "answered" /\ ~Owns(r)'
      BY <1>0, <2>1 DEF Owns, Standing, Executing, TypeOK, ReqType
    <2>4. ASSUME NEW s \in Req, Owns(s) PROVE entries'[req[s].key] = entries[req[s].key]
      <3>1. CASE entries' = entries
        BY <3>1
      <3>2. CASE ~Taken(req[r].key, req[r].now) /\ Insert(r, req[r].key, req[r].now)
        <4>1. req[s].key \in Key /\ req[s].key # req[r].key
          BY <1>0, <2>1, <2>4, <3>2, FreeIsUnowned
             DEF Owns, Standing, Executing, Arrived, Unanswered
        <4>2. Live(req[s].key, clock)
          BY <2>4 DEF OwnInv, OwnerHasEntry, Live, Owns
        <4>3. QED
          BY <2>1, <3>2, <4>1, <4>2, LiveSurvives DEF Insert
      <3>3. QED
        BY <1>6, <3>1, <3>2 DEF ClaimFails
    <2>5. QED
      BY <2>1, <2>2, <2>3, <2>4, QuietOwns DEF Executing, OwnInv, OwnerHasEntry
  <1>7. ASSUME NEW r \in Req, HandlerCompletes(r) \/ HandlerFails(r) PROVE Goal
    <2>1. PICK l \in {"store", "release"} : req' = [req EXCEPT ![r].pc = l]
      BY <1>7 DEF HandlerCompletes, HandlerFails
    <2>2. entries' = entries /\ clock' = clock /\ req[r].pc = "run"
      BY <1>7 DEF HandlerCompletes, HandlerFails
    <2>3. \A s \in Req : s # r => req'[s] = req[s]
      BY <1>0, <2>1 DEF TypeOK
    <2>4. req'[r].now = req[r].now /\ req'[r].key = req[r].key /\ req'[r].pc = l
      BY <1>0, <2>1 DEF TypeOK, ReqType
    <2>5. \A s \in Req : Owns(s)' <=> Owns(s)
      BY <2>2, <2>3, <2>4 DEF Owns, Standing, Executing
    <2>6. QED
      BY <2>2, <2>3, <2>4, <2>5, QuietOwns DEF Executing, OwnInv, OwnerHasEntry
  <1>8. ASSUME NEW r \in Req, StoresResponse(r) PROVE Goal
    <2>1. /\ req' = [req EXCEPT ![r].pc = "answered", ![r].answer = "completed"]
          /\ clock' = clock /\ req[r].pc = "store"
      BY <1>8 DEF StoresResponse, Answer
    <2>2. \A s \in Req : s # r => req'[s] = req[s]
      BY <1>0, <2>1 DEF TypeOK
    <2>3. req'[r].now = req[r].now /\ req'[r].key = req[r].key /\ req'[r].pc = "answered"
      BY <1>0, <2>1 DEF TypeOK, ReqType
    <2>4. \A s \in Req : Owns(s)' => Owns(s)
      BY <2>1, <2>2, <2>3 DEF Owns, Standing, Executing
    <2>5. Owns(r)
      BY <1>0, <2>1, IdempotencyAssumption
         DEF Timely, Owns, Standing, Executing, OwnInv, Prompt, TypeOK, ReqType
    <2>6. \A s \in Req : s # r /\ Owns(s) => req[s].key \in Key /\ req[s].key # req[r].key
      BY <1>0, <2>5 DEF OwnInv, OneOwner, Owns, Standing, Executing, Arrived, Unanswered
    <2>7. req[r].key \in Key /\ entries \in [Key -> Entry \cup {None}]
      BY <1>0, <2>1 DEF Arrived, TypeOK
    <2>8. \A s \in Req : s # r /\ Owns(s) => entries'[req[s].key] = entries[req[s].key]
      BY <1>8, <2>6, <2>7 DEF StoresResponse, Write
    <2>9. entries'[req[r].key] # None /\ entries'[req[r].key].expires = entries[req[r].key].expires
      <3>1. entries[req[r].key] # None
        BY <2>5 DEF OwnInv, OwnerHasEntry
      <3>2. CASE entries' = entries
        BY <3>1, <3>2
      <3>3. CASE Write(r, req[r].key)
        <4>1. entries[req[r].key] \in Entry
          BY <2>7, <3>1
        <4>2. entries'[req[r].key].expires = entries[req[r].key].expires
          BY <2>7, <3>3, <4>1 DEF Write, Entry
        <4>3. entries'[req[r].key] \in Entry
          <5>1. [fp |-> req[r].fp, inFlight |-> FALSE, resp |-> r] \in Record
            BY <1>0, <2>1 DEF Record, Arrived
          <5>2. QED
            BY <2>7, <3>3, <4>1, <5>1 DEF Write, Entry
        <4>4. QED
          BY <4>2, <4>3, NoneAssumption
      <3>4. QED
        BY <1>8, <3>2, <3>3 DEF StoresResponse
    <2>10. QED
      BY <2>1, <2>2, <2>3, <2>4, <2>8, <2>9, QuietOwns DEF Executing, OwnInv, OwnerHasEntry
  <1>9. ASSUME NEW r \in Req, Releases(r) PROVE Goal
    <2>1. /\ req' = [req EXCEPT ![r].pc = "answered", ![r].answer = "failed"]
          /\ clock' = clock /\ req[r].pc = "release"
      BY <1>9 DEF Releases, Answer
    <2>2. \A s \in Req : s # r => req'[s] = req[s] /\ (Owns(s)' <=> Owns(s))
      BY <1>0, <2>1 DEF Owns, Standing, TypeOK
    <2>3. ~Owns(r)' /\ req'[r].pc = "answered"
      BY <1>0, <2>1 DEF Owns, Standing, Executing, TypeOK, ReqType
    <2>4. Owns(r)
      BY <1>0, <2>1, IdempotencyAssumption
         DEF Timely, Owns, Standing, Executing, OwnInv, Prompt, TypeOK, ReqType
    <2>5. \A s \in Req : s # r /\ Owns(s) => req[s].key # req[r].key
      BY <2>4 DEF OwnInv, OneOwner
    <2>6. \A s \in Req : s # r /\ Owns(s) =>
             req[s].key \in Key /\ entries'[req[s].key] = entries[req[s].key]
      BY <1>0, <1>9, <2>5
         DEF Releases, TypeOK, Owns, Standing, Executing, Arrived, Unanswered
    <2>7. QED
      BY <2>1, <2>2, <2>3, <2>6, QuietOwns DEF Executing, OwnInv, OwnerHasEntry
  <1>10. ASSUME NEW r \in Req, AnswersDuplicate(r) PROVE Goal
    <2>1. /\ \E a \in Answers \ {"completed"} : \E v : req' = [req EXCEPT
                  ![r].pc = "answered", ![r].answer = a, ![r].resp = v]
             \/ req' = [req EXCEPT ![r].pc = "answered", ![r].answer = a]
          /\ clock' = clock /\ entries' = entries /\ req[r].pc = "duplicate"
      BY <1>10 DEF AnswersDuplicate, Found, Answer, Answers, Verdict
    <2>2. \A s \in Req : s # r => req'[s] = req[s] /\ (Owns(s)' <=> Owns(s))
      BY <1>0, <2>1 DEF Owns, Standing, TypeOK
    <2>3. ~Owns(r)' /\ req'[r].pc = "answered"
      BY <1>0, <2>1 DEF Owns, Standing, Executing, TypeOK, ReqType
    <2>4. QED
      BY <2>1, <2>2, <2>3, QuietOwns DEF Executing, OwnInv, OwnerHasEntry
  <1>11. CASE UNCHANGED vars
    BY <1>11 DEF vars, OwnInv, Prompt, OwnerHasEntry, OneOwner, Owns, Standing
  <1>12. QED
    BY <1>1, <1>2, <1>3, <1>4, <1>5, <1>6, <1>7, <1>8, <1>9, <1>10, <1>11 DEF Next

(***************************************************************************)
(* At most one execution per key within the TTL, whatever the store loses  *)
(* and however the requests interleave.                                    *)
(***************************************************************************)
THEOREM AtMostOncePerTTL == ASSUME Timely PROVE Spec => AtMostOnce
  <1>1. ASSUME OwnInv, [Next]_vars,
               NEW s \in Req, NEW r \in Standing, Begins(s), req[r].key = req[s].key
        PROVE  clock >= req[r].now + TTL
    <2>0. TypeOK /\ r \in Req
      BY <1>1 DEF OwnInv, TypeInv, Standing
    <2>1. Claims(s)
      <3>1. req' # req
        BY <1>1 DEF Begins
      <3>2. PICK t \in Req :
              \/ \E k \in Key, p \in Fingerprint : Arrive(t, k, p)
              \/ Claims(t) \/ ClaimTaken(t) \/ ClaimFull(t) \/ ClaimFails(t)
              \/ HandlerCompletes(t) \/ HandlerFails(t)
              \/ StoresResponse(t) \/ Releases(t) \/ AnswersDuplicate(t)
        BY <1>1, <3>1 DEF Next, vars, Tick
      <3>3. \A u \in Req : u # t => req'[u] = req[u]
        BY <2>0, <3>2 DEF Arrive, Claims, ClaimTaken, ClaimFull, ClaimFails, HandlerCompletes,
           HandlerFails, StoresResponse, Releases, AnswersDuplicate, Found, Answer, TypeOK
      <3>4. t = s
        BY <1>1, <3>3 DEF Begins
      <3>5. req[s].pc = "claim" /\ req'[s].pc = "run"
        BY <1>1 DEF Begins
      <3>6. QED
        BY <2>0, <3>2, <3>4, <3>5 DEF Arrive, ClaimTaken, ClaimFull, ClaimFails, HandlerCompletes,
           HandlerFails, StoresResponse, Releases, AnswersDuplicate, Found, Answer, TypeOK, ReqType
    <2>2. ~Owns(r)
      BY <1>1, <2>0, <2>1, FreeIsUnowned DEF Claims
    <2>3. QED
      BY <1>1, <2>0, <2>2, IdempotencyAssumption DEF Owns, TypeOK, ReqType
  <1>2. OwnInv /\ [Next]_vars =>
          [\A s \in Req, r \in Standing :
              Begins(s) /\ req[r].key = req[s].key => clock >= req[r].now + TTL]_vars
    BY <1>1
  <1>3. QED
    BY <1>2, InitOwns, OwnStep, PTL DEF Spec, AtMostOnce

-----------------------------------------------------------------------------
(***************************************************************************)
(* Replays, whatever the span of a request: a response on record is that   *)
(* of a completed execution with the record's key and fingerprint.         *)
(***************************************************************************)
RecordsAreHonest ==
    \A k \in Key : entries[k] # None /\ ~entries[k].value.inFlight =>
        LET s == entries[k].value.resp
        IN  /\ s \in Req
            /\ req[s].answer = "completed"
            /\ req[s].key = k
            /\ req[s].fp = entries[k].value.fp

ReplayInv == TypeInv /\ RecordsAreHonest /\ ReplayIsFaithful

LEMMA ReplayStep == ReplayInv /\ [Next]_vars => ReplayInv'
  <1> SUFFICES ASSUME ReplayInv, [Next]_vars PROVE RecordsAreHonest' /\ ReplayIsFaithful'
    BY TypeStep DEF ReplayInv
  <1> DEFINE Goal == RecordsAreHonest' /\ ReplayIsFaithful'
  <1>0. TypeOK /\ Arrived /\ Unanswered /\ RecordsAreHonest /\ ReplayIsFaithful
    BY DEF ReplayInv, TypeInv
  (* A step that changes only unfinished requests and adds no response. *)
  <1>1. ASSUME \A s \in Req : req[s].pc = "answered" => req'[s] = req[s],
               \A s \in Req : req'[s].answer = "replayed" => req[s].answer = "replayed",
               \A k \in Key : entries'[k] = entries[k] \/ entries'[k] = None
                              \/ entries'[k].value.inFlight
        PROVE  Goal
    <2>1. \A s \in Req : req[s].answer # "none" => req'[s] = req[s]
      BY <1>0, <1>1 DEF Unanswered
    <2>2. QED
      BY <1>0, <1>1, <2>1 DEF RecordsAreHonest, ReplayIsFaithful
  <1>2. ASSUME NEW r \in Req, Insert(r, req[r].key, req[r].now), NEW k \in Key
        PROVE  entries'[k] = entries[k] \/ entries'[k] = None \/ entries'[k].value.inFlight
    BY <1>2 DEF Insert
  <1>3. CASE Tick
    BY <1>1, <1>3 DEF Tick
  <1>4. ASSUME NEW r \in Req, NEW k \in Key, NEW p \in Fingerprint, Arrive(r, k, p)
        PROVE Goal
    BY <1>0, <1>1, <1>4 DEF Arrive, Fresh, TypeOK
  <1>5. ASSUME NEW r \in Req, Claims(r) PROVE Goal
    BY <1>0, <1>1, <1>2, <1>5 DEF Claims, TypeOK, ReqType
  <1>6. ASSUME NEW r \in Req, ClaimTaken(r) PROVE Goal
    BY <1>0, <1>1, <1>6 DEF ClaimTaken, TypeOK, ReqType
  <1>7. ASSUME NEW r \in Req, ClaimFull(r) PROVE Goal
    BY <1>0, <1>1, <1>7 DEF ClaimFull, Answer, TypeOK, ReqType
  <1>8. ASSUME NEW r \in Req, ClaimFails(r) PROVE Goal
    BY <1>0, <1>1, <1>2, <1>8 DEF ClaimFails, Answer, TypeOK, ReqType
  <1>9. ASSUME NEW r \in Req, HandlerCompletes(r) \/ HandlerFails(r) PROVE Goal
    BY <1>0, <1>1, <1>9 DEF HandlerCompletes, HandlerFails, TypeOK, ReqType
  <1>10. ASSUME NEW r \in Req, StoresResponse(r) PROVE Goal
    <2>1. /\ req' = [req EXCEPT ![r].pc = "answered", ![r].answer = "completed"]
          /\ req[r].pc = "store" /\ req[r].answer = "none" /\ req[r].key \in Key
      BY <1>0, <1>10 DEF StoresResponse, Answer, Arrived, Unanswered
    <2>2. \A s \in Req : s # r => req'[s] = req[s]
      BY <1>0, <2>1 DEF TypeOK
    <2>3. /\ req'[r].key = req[r].key /\ req'[r].fp = req[r].fp
          /\ req'[r].answer = "completed"
      BY <1>0, <2>1 DEF TypeOK, ReqType
    <2>4. ReplayIsFaithful'
      <3>1. \A s \in Req : req[s].answer = "completed" => s # r
        BY <2>1
      <3>2. ASSUME NEW x \in Req, req'[x].answer = "replayed" PROVE x # r /\ req'[x] = req[x]
        BY <2>2, <2>3, <3>2
      <3>3. QED
        BY <1>0, <2>2, <3>1, <3>2 DEF ReplayIsFaithful
    <2>5. CASE entries' = entries
      <3>1. \A s \in Req : req[s].answer = "completed" => s # r
        BY <2>1
      <3>2. QED
        BY <1>0, <2>2, <2>4, <2>5, <3>1 DEF RecordsAreHonest
    <2>6. CASE Live(req[r].key, clock) /\ Write(r, req[r].key)
      <3>1. entries[req[r].key] \in Entry
        BY <1>0, <2>1, <2>6 DEF Live, TypeOK
      <3>2. /\ entries'[req[r].key].value = [fp |-> req[r].fp, inFlight |-> FALSE, resp |-> r]
            /\ \A k \in Key : k # req[r].key => entries'[k] = entries[k]
        BY <1>0, <2>1, <2>6, <3>1 DEF Write, TypeOK, Entry
      <3>3. \A k \in Key : k # req[r].key /\ entries[k] # None /\ ~entries[k].value.inFlight =>
                entries[k].value.resp # r
        BY <1>0, <2>1 DEF RecordsAreHonest
      <3>4. QED
        BY <1>0, <2>2, <2>3, <2>4, <3>2, <3>3 DEF RecordsAreHonest
    <2>7. QED
      BY <1>10, <2>5, <2>6 DEF StoresResponse
  <1>11. ASSUME NEW r \in Req, Releases(r) PROVE Goal
    <2>1. \A k \in Key : entries'[k] = entries[k] \/ entries'[k] = None
      BY <1>0, <1>11 DEF Releases, TypeOK
    <2>2. QED
      BY <1>0, <1>1, <1>11, <2>1 DEF Releases, Answer, TypeOK, ReqType
  <1>12. ASSUME NEW r \in Req, AnswersDuplicate(r) PROVE Goal
    <2>0. entries' = entries /\ req[r].pc = "duplicate" /\ req[r].key \in Key
      BY <1>0, <1>12 DEF AnswersDuplicate, Found, Arrived
    <2>1. CASE \E a \in Answers \ {"replayed"} : \E v : req' = [req EXCEPT
                  ![r].pc = "answered", ![r].answer = a, ![r].resp = v]
             \/ req' = [req EXCEPT ![r].pc = "answered", ![r].answer = a]
      BY <1>0, <1>1, <2>0, <2>1 DEF TypeOK, ReqType
    <2>2. CASE /\ Live(req[r].key, clock)
               /\ Verdict(r, entries[req[r].key].value) = "replayed"
               /\ req' = [req EXCEPT ![r].pc = "answered", ![r].answer = "replayed",
                                     ![r].resp = entries[req[r].key].value.resp]
      <3>1. /\ entries[req[r].key] # None /\ ~entries[req[r].key].value.inFlight
            /\ entries[req[r].key].value.fp = req[r].fp
        BY <2>2 DEF Live, Verdict, SameFp
      <3>2. \A s \in Req : s # r => req'[s] = req[s]
        BY <1>0, <2>2 DEF TypeOK
      <3>3. /\ req'[r].key = req[r].key /\ req'[r].fp = req[r].fp
            /\ req'[r].resp = entries[req[r].key].value.resp
        BY <1>0, <2>2 DEF TypeOK, ReqType
      <3>4. \A s \in Req : req[s].answer = "completed" => s # r
        BY <1>0, <2>0 DEF Unanswered
      <3>5. RecordsAreHonest'
        BY <1>0, <2>0, <3>2, <3>4 DEF RecordsAreHonest
      <3>6. ReplayIsFaithful'
        BY <1>0, <2>0, <3>1, <3>2, <3>3, <3>4 DEF RecordsAreHonest, ReplayIsFaithful
      <3>7. QED
        BY <3>5, <3>6
    <2>3. QED
      BY <1>12, <2>1, <2>2 DEF AnswersDuplicate, Found, Answer, Answers, Verdict
  <1>13. CASE UNCHANGED vars
    BY <1>1, <1>13 DEF vars
  <1>14. QED
    BY <1>3, <1>4, <1>5, <1>6, <1>7, <1>8, <1>9, <1>10, <1>11, <1>12, <1>13 DEF Next

(***************************************************************************)
(* A duplicate is only ever answered with the response of a completed      *)
(* execution of the same request, even when handlers outlive the TTL.      *)
(***************************************************************************)
THEOREM ReplaysAreFaithful == Spec => []ReplayIsFaithful
  <1>1. Init => ReplayInv
    BY InitTypes DEF Init, ReplayInv, RecordsAreHonest, ReplayIsFaithful, Unborn
  <1>2. ReplayInv => ReplayIsFaithful
    BY DEF ReplayInv
  <1>3. QED
    BY <1>1, <1>2, ReplayStep, PTL DEF Spec

-----------------------------------------------------------------------------
(***************************************************************************)
(* Refinement: a claim is Begin (or Orphan, when its acknowledgement is    *)
(* lost), the two bookkeeping calls are Complete and Fail, a replay is     *)
(* Serve and the clock is Expire; every other step stutters.               *)
(***************************************************************************)
Held == {k \in Key : Live(k, clock)}
Running == [k \in Key |-> RunningOn(k)]
Result == [k \in Key |-> IF Live(k, clock) THEN entries[k].value.resp ELSE None]
Served == [r \in Req |-> req[r].resp]

(* While its handler runs, a key is held, by that request and no result. *)
LEMMA RunnerHolds ==
    ASSUME Timely, OwnInv, NEW r \in Req, req[r].pc \in Executing
    PROVE  /\ req[r].key \in Held
           /\ Running[req[r].key] = {r}
           /\ Result[req[r].key] = None
  <1>0. TypeOK /\ req[r].key \in Key /\ clock \in Nat
    BY DEF OwnInv, TypeInv, Arrived, Executing, TypeOK
  <1>1. \A s \in Req : req[s].pc \in Executing => Owns(s)
    BY <1>0, IdempotencyAssumption DEF Timely, OwnInv, Prompt, Owns, Standing, TypeOK, ReqType
  <1>2. Live(req[r].key, clock) /\ entries[req[r].key].value.resp = None
    BY <1>1 DEF OwnInv, OwnerHasEntry, Live, Owns
  <1>3. RunningOn(req[r].key) = {r}
    BY <1>1 DEF RunningOn, OwnInv, OneOwner
  <1>4. QED
    BY <1>0, <1>2, <1>3 DEF Held, Running, Result

(* A claim that SetNX stores holds its key and changes nothing else. *)
LEMMA InsertHolds ==
    ASSUME Timely, OwnInv, NEW r \in Req, req[r].pc = "claim", clock' = clock,
           ~Taken(req[r].key, req[r].now), Insert(r, req[r].key, req[r].now)
    PROVE  /\ req[r].key \in Key \ Held
           /\ Held' = Held \cup {req[r].key}
           /\ Result' = Result
           /\ Running[req[r].key] = {}
  <1> USE DEF Live
  <1>k. PICK k \in Key : k = req[r].key
    BY DEF OwnInv, TypeInv, Arrived
  <1>0. TypeOK /\ clock \in Nat /\ req[r].now \in Nat
        /\ req[r].now <= clock /\ clock < req[r].now + TTL
    BY IdempotencyAssumption
       DEF Timely, OwnInv, Prompt, TypeInv, Arrived, TypeOK, ReqType
  <1>1. ~Live(k, clock)
    BY <1>0, <1>k DEF Taken, TypeOK, Entry
  <1>2. ASSUME NEW j \in Key, j # k
        PROVE  /\ Live(j, clock)' <=> Live(j, clock)
               /\ Live(j, clock) => entries'[j] = entries[j]
    <2>1. entries'[j] = entries[j] \/ entries'[j] = None
      BY <1>2, <1>k DEF Insert
    <2>2. Live(j, clock) => j \in Remaining(k, req[r].now)
      BY <1>2, <1>k, LiveSurvives
    <2>3. Live(j, clock) => entries'[j] = entries[j]
      BY <1>2, <1>k, <2>2 DEF Insert
    <2>4. QED
      BY <2>1, <2>3
  <1>3. Live(k, clock)' /\ entries'[k].value.resp = None
    <2>1. entries'[k] = [value |-> [fp |-> req[r].fp, inFlight |-> TRUE, resp |-> None],
                         expires |-> req[r].now + TTL]
      BY <1>0, <1>k DEF Insert
    <2>2. entries'[k] \in Entry
      BY <1>0, <1>k, InsertTypes, <2>1, IdempotencyAssumption
         DEF OwnInv, TypeInv, TypeOK, Arrived, Entry, Record
    <2>3. entries'[k] # None
      BY <2>2, NoneAssumption
    <2>4. entries'[k].expires = req[r].now + TTL /\ entries'[k].value.resp = None
      BY <2>1
    <2>5. clock' < entries'[k].expires
      BY <1>0, <2>4
    <2>6. QED
      BY <2>3, <2>4, <2>5
  <1>4. Running[k] = {}
    <2>1. \A s \in Req : req[s].pc \in Executing => req[s].key \in Held
      BY RunnerHolds
    <2>2. RunningOn(k) = {}
      BY <1>0, <1>1, <2>1 DEF RunningOn, Held
    <2>3. QED
      BY <1>0, <2>2 DEF Running
  <1>5. QED
    BY <1>0, <1>k, <1>1, <1>2, <1>3, <1>4 DEF Held, Result

LEMMA OnceStep ==
    ASSUME Timely, OwnInv, OwnInv', [Next]_vars
    PROVE  Once!Next \/ (Held' = Held /\ Running' = Running /\ Result' = Result
                           /\ Served' = Served)
  <1> DEFINE Stutter == Held' = Held /\ Running' = Running /\ Result' = Result
                          /\ Served' = Served
             Goal == Once!Next \/ Stutter
  <1> USE DEF Held, Running, Result, Served, Live, RunningOn
  <1>0. TypeOK /\ Arrived /\ Unanswered /\ clock \in Nat
    BY DEF OwnInv, TypeInv, TypeOK
  <1>q. ASSUME entries' = entries, clock' = clock,
               \A r \in Req : /\ req'[r].resp = req[r].resp
                              /\ req'[r].pc \in Executing <=> req[r].pc \in Executing
                              /\ req[r].pc \in Executing => req'[r].key = req[r].key
        PROVE  Stutter
    <2>1. \A k \in Key : RunningOn(k)' = RunningOn(k)
      BY <1>q
    <2>2. QED
      BY <1>q, <2>1
  <1>1. CASE Tick
    <2>1. /\ clock' = clock + 1 /\ entries' = entries /\ req' = req
      BY <1>1 DEF Tick
    <2>2. \A k \in Key : Live(k, clock)' => Live(k, clock)
      BY <1>0, <2>1 DEF TypeOK, Entry
    <2>3. Running' = Running /\ Served' = Served
      BY <2>1
    <2>k. PICK K \in SUBSET Key : K = Held \ Held'
      OBVIOUS
    <2>4. \A k \in K : Running[k] = {}
      <3>1. ASSUME NEW s \in Req, req[s].pc \in Executing PROVE req[s].key \in Held'
        <4>1. req'[s].pc \in Executing
          BY <2>1, <3>1
        <4>2. req[s].key \in Key
          BY <1>0, <3>1 DEF Arrived, Executing
        <4>3. Prompt' /\ OwnerHasEntry' /\ clock' \in Nat /\ req'[s].now \in Nat
          BY <1>0, <2>1 DEF OwnInv, TypeOK, ReqType
        <4>4. Owns(s)'
          BY <4>1, <4>3, IdempotencyAssumption DEF Timely, Prompt, Owns, Standing
        <4>5. QED
          BY <2>1, <4>2, <4>3, <4>4 DEF OwnerHasEntry, Owns
      <3>2. QED
        BY <2>k, <3>1
    <2>5. Held' = Held \ K /\ K \subseteq Held /\ K \subseteq Key
      BY <2>2, <2>k
    <2>6. Result' = [k \in Key |-> IF k \in K THEN None ELSE Result[k]]
      BY <2>1, <2>2, <2>k
    <2>7. Once!Expire(K)
      BY <2>3, <2>4, <2>5, <2>6 DEF Once!Expire
    <2>8. QED
      BY <2>5, <2>7 DEF Once!Next
  <1>2. ASSUME NEW r \in Req, NEW k \in Key, NEW p \in Fingerprint, Arrive(r, k, p)
        PROVE Goal
    BY <1>0, <1>2, <1>q DEF Arrive, Fresh, Executing, TypeOK, Unanswered
  <1>3. ASSUME NEW r \in Req, Claims(r) PROVE Goal
    <2>1. /\ req[r].pc = "claim" /\ clock' = clock /\ req' = [req EXCEPT ![r].pc = "run"]
          /\ ~Taken(req[r].key, req[r].now) /\ Insert(r, req[r].key, req[r].now)
      BY <1>3 DEF Claims
    <2>k. PICK k \in Key : k = req[r].key
      BY <1>0, <2>1 DEF Arrived
    <2>2. k \notin Held /\ Held' = Held \cup {k} /\ Result' = Result /\ Running[k] = {}
      BY <2>1, <2>k, InsertHolds
    <2>3. \A s \in Req : s # r => req'[s] = req[s]
      BY <1>0, <2>1 DEF TypeOK
    <2>4. req'[r].pc = "run" /\ req'[r].key = k /\ req'[r].resp = req[r].resp
      BY <1>0, <2>1, <2>k DEF TypeOK, ReqType
    <2>5. \A j \in Key : RunningOn(j)' = IF j = k THEN {r} ELSE RunningOn(j)
      <3>1. RunningOn(k) = {}
        BY <2>2
      <3>2. RunningOn(k)' = {r}
        BY <2>3, <2>4, <3>1 DEF Executing
      <3>3. ASSUME NEW j \in Key, j # k PROVE RunningOn(j)' = RunningOn(j)
        BY <2>1, <2>3, <2>4, <3>3 DEF Executing
      <3>4. QED
        BY <3>1, <3>2, <3>3
    <2>6. Served' = Served
      BY <2>3, <2>4
    <2>7. Running' = [Running EXCEPT ![k] = {r}]
      BY <2>5
    <2>8. Once!Begin(k, r)
      BY <2>2, <2>6, <2>7 DEF Once!Begin
    <2>9. QED
      BY <2>8 DEF Once!Next
  <1>4. ASSUME NEW r \in Req, ClaimTaken(r) PROVE Goal
    BY <1>0, <1>4, <1>q DEF ClaimTaken, Executing, TypeOK, ReqType
  <1>5. ASSUME NEW r \in Req, ClaimFull(r) PROVE Goal
    <2>1. /\ req' = [req EXCEPT ![r].pc = "answered", ![r].answer = "refused"]
          /\ clock' = clock /\ req[r].pc = "claim" /\ req[r].key \in Key
          /\ entries' = [j \in Key |->
                IF j \in Remaining(req[r].key, req[r].now) THEN entries[j] ELSE None]
      BY <1>0, <1>5 DEF ClaimFull, Answer, Arrived
    <2>2. ~Live(req[r].key, clock)
      <3>1. req[r].now <= clock /\ req[r].now \in Nat
        BY <1>0, <2>1 DEF OwnInv, Prompt, TypeOK, ReqType
      <3>2. QED
        BY <1>0, <1>5, <2>1, <3>1 DEF ClaimFull, Taken, TypeOK, Entry
    <2>3. ASSUME NEW j \in Key PROVE /\ Live(j, clock)' <=> Live(j, clock)
                                     /\ Live(j, clock) => entries'[j] = entries[j]
      <3>1. Live(j, clock) => j \in Remaining(req[r].key, req[r].now)
        BY <2>1, <2>2, LiveSurvives
      <3>2. QED
        BY <2>1, <3>1
    <2>4. Held' = Held /\ Result' = Result
      BY <2>1, <2>3
    <2>5. \A s \in Req : s # r => req'[s] = req[s]
      BY <1>0, <2>1 DEF TypeOK
    <2>6. req'[r].pc = "answered" /\ req'[r].resp = req[r].resp
      BY <1>0, <2>1 DEF TypeOK, ReqType
    <2>7. Running' = Running /\ Served' = Served
      <3>1. \A k \in Key : RunningOn(k)' = RunningOn(k)
        BY <2>1, <2>5, <2>6 DEF Executing
      <3>2. QED
        BY <2>5, <2>6, <3>1
    <2>8. QED
      BY <2>4, <2>7
  <1>6. ASSUME NEW r \in Req, ClaimFails(r) PROVE Goal
    <2>1. /\ req' = [req EXCEPT ![r].pc = "answered", ![r].answer = "refused"]
          /\ clock' = clock /\ req[r].pc = "claim"
      BY <1>6 DEF ClaimFails, Answer
    <2>2. \A s \in Req : s # r => req'[s] = req[s]
      BY <1>0, <2>1 DEF TypeOK
    <2>3. req'[r].pc = "answered" /\ req'[r].resp = req[r].resp
      BY <1>0, <2>1 DEF TypeOK, ReqType
    <2>4. Running' = Running /\ Served' = Served
      <3>1. \A k \in Key : RunningOn(k)' = RunningOn(k)
        BY <2>1, <2>2, <2>3 DEF Executing
      <3>2. QED
        BY <2>2, <2>3, <3>1
    <2>5. CASE entries' = entries
      BY <2>1, <2>4, <2>5
    <2>6. CASE ~Taken(req[r].key, req[r].now) /\ Insert(r, req[r].key, req[r].now)
      <3>k. PICK k \in Key : k = req[r].key
        BY <1>0, <2>1 DEF Arrived
      <3>1. k \notin Held /\ Held' = Held \cup {k} /\ Result' = Result
        BY <2>1, <2>6, <3>k, InsertHolds
      <3>2. Once!Orphan(k)
        BY <2>4, <3>1 DEF Once!Orphan
      <3>3. QED
        BY <3>2 DEF Once!Next
    <2>7. QED
      BY <1>6, <2>5, <2>6 DEF ClaimFails
  <1>7. ASSUME NEW r \in Req, HandlerCompletes(r) \/ HandlerFails(r) PROVE Goal
    BY <1>0, <1>7, <1>q DEF HandlerCompletes, HandlerFails, Executing, TypeOK, ReqType
  <1>8. ASSUME NEW r \in Req, StoresResponse(r) \/ Releases(r) PROVE Goal
    <2>k. PICK k \in Key : k = req[r].key
      BY <1>0, <1>8 DEF StoresResponse, Releases, Arrived
    <2>1. /\ req[r].pc \in Executing /\ clock' = clock
          /\ \E a : req' = [req EXCEPT ![r].pc = "answered", ![r].answer = a]
      BY <1>0, <1>8 DEF StoresResponse, Releases, Answer, Arrived, Executing
    <2>2. k \in Held /\ Running[k] = {r} /\ Result[k] = None
      BY <2>1, <2>k, RunnerHolds
    <2>3. \A s \in Req : s # r => req'[s] = req[s]
      BY <1>0, <2>1 DEF TypeOK
    <2>4. req'[r].pc = "answered" /\ req'[r].resp = req[r].resp
      BY <1>0, <2>1 DEF TypeOK, ReqType
    <2>5. Running' = [Running EXCEPT ![k] = {}]
      <3>1. \A j \in Key : RunningOn(j)' = IF j = k THEN {} ELSE RunningOn(j)
        <4>1. RunningOn(k) = {r}
          BY <2>2
        <4>2. RunningOn(k)' = {}
          BY <2>3, <2>4, <4>1 DEF Executing
        <4>3. ASSUME NEW j \in Key, j # k PROVE RunningOn(j)' = RunningOn(j)
          BY <2>1, <2>3, <2>4, <2>k, <4>3 DEF Executing
        <4>4. QED
          BY <4>1, <4>2, <4>3
      <3>2. QED
        BY <3>1
    <2>6. Served' = Served
      BY <2>3, <2>4
    <2>7. CASE entries' = entries
      <3>1. Held' = Held /\ Result' = Result
        BY <2>1, <2>7
      <3>2. Once!Complete(k, r)
        BY <2>2, <2>5, <2>6, <3>1 DEF Once!Complete
      <3>3. QED
        BY <3>2 DEF Once!Next
    <2>8. CASE Write(r, k)
      <3>1. entries[k] \in Entry
        BY <1>0, <2>1, <2>2 DEF TypeOK
      <3>2. /\ entries'[k].value.resp = r /\ entries'[k].expires = entries[k].expires
            /\ \A j \in Key : j # k => entries'[j] = entries[j]
        BY <1>0, <2>1, <2>8, <3>1 DEF Write, TypeOK, Entry
      <3>3. entries'[k] # None
        <4>1. [fp |-> req[r].fp, inFlight |-> FALSE, resp |-> r] \in Record
          BY <1>0, <2>1 DEF Record, Arrived, Executing
        <4>2. entries'[k] \in Entry
          BY <1>0, <2>1, <2>8, <3>1, <4>1 DEF Write, TypeOK, Entry
        <4>3. QED
          BY <4>2, NoneAssumption
      <3>4. \A j \in Key : Live(j, clock)' <=> Live(j, clock)
        BY <2>1, <2>2, <3>2, <3>3
      <3>5. Held' = Held /\ Result' = [Result EXCEPT ![k] = r]
        BY <2>1, <2>2, <3>2, <3>4
      <3>6. Once!Complete(k, r)
        BY <2>2, <2>5, <2>6, <3>5 DEF Once!Complete
      <3>7. QED
        BY <3>6 DEF Once!Next
    <2>9. CASE entries' = [entries EXCEPT ![k] = None]
      <3>1. Held' = Held \ {k} /\ Result' = Result
        BY <1>0, <2>1, <2>2, <2>9 DEF TypeOK
      <3>2. Once!Fail(k, r)
        BY <2>2, <2>5, <2>6, <3>1 DEF Once!Fail
      <3>3. QED
        BY <3>2 DEF Once!Next
    <2>10. QED
      BY <1>8, <2>k, <2>7, <2>8, <2>9 DEF StoresResponse, Releases
  <1>9. ASSUME NEW r \in Req, AnswersDuplicate(r) PROVE Goal
    <2>k. PICK k \in Key : k = req[r].key
      BY <1>0, <1>9 DEF AnswersDuplicate, Found, Arrived
    <2>1. /\ entries' = entries /\ clock' = clock /\ req[r].pc = "duplicate"
          /\ req[r].resp = None
      BY <1>0, <1>9 DEF AnswersDuplicate, Found, Unanswered
    <2>2. CASE \E a : req' = [req EXCEPT ![r].pc = "answered", ![r].answer = a]
      BY <1>0, <1>q, <2>1, <2>2 DEF Executing, TypeOK, ReqType
    <2>3. CASE \E a : req' = [req EXCEPT ![r].pc = "answered", ![r].answer = a,
                                         ![r].resp = None]
      BY <1>0, <1>q, <2>1, <2>3 DEF Executing, TypeOK, ReqType
    <2>4. CASE /\ Live(k, clock) /\ Verdict(r, entries[k].value) = "replayed"
               /\ req' = [req EXCEPT ![r].pc = "answered", ![r].answer = "replayed",
                                     ![r].resp = entries[k].value.resp]
      <3>1. Result[k] = entries[k].value.resp /\ Result[k] # None
        <4>1. ~entries[k].value.inFlight
          BY <2>4 DEF Verdict
        <4>2. entries[k] \in Entry
          BY <1>0, <2>1, <2>4 DEF TypeOK
        <4>3. entries[k].value.resp \in Req
          BY <4>1, <4>2 DEF Entry, Record
        <4>4. QED
          BY <2>1, <2>4, <4>3, IdempotencyAssumption
      <3>2. \A s \in Req : s # r => req'[s] = req[s]
        BY <1>0, <2>4 DEF TypeOK
      <3>3. req'[r].pc = "answered" /\ req'[r].resp = Result[k]
        BY <1>0, <2>4, <3>1 DEF TypeOK, ReqType
      <3>4. Running' = Running
        <4>1. \A j \in Key : RunningOn(j)' = RunningOn(j)
          BY <2>1, <3>2, <3>3 DEF Executing
        <4>2. QED
          BY <4>1
      <3>5. Held' = Held /\ Result' = Result
        BY <2>1
      <3>6. Served' = [Served EXCEPT ![r] = Result[k]]
        BY <3>2, <3>3
      <3>7. Once!Serve(k, r)
        BY <3>1, <3>4, <3>5, <3>6 DEF Once!Serve
      <3>8. QED
        BY <3>7 DEF Once!Next
    <2>5. QED
      BY <1>9, <2>k, <2>2, <2>3, <2>4 DEF AnswersDuplicate, Found, Answer
  <1>10. CASE UNCHANGED vars
    BY <1>10, <1>q DEF vars
  <1>11. QED
    BY <1>1, <1>2, <1>3, <1>4, <1>5, <1>6, <1>7, <1>8, <1>9, <1>10 DEF Next

(***************************************************************************)
(* The middleware implements OncePerKey: a free key begins at most one     *)
(* execution, nothing frees it under a running handler, and a replay is    *)
(* the result on record, over a store that may fail.                       *)
(***************************************************************************)
THEOREM RefinesOncePerKey == ASSUME Timely PROVE Spec => ImplementsOncePerKey
  <1>1. Init => Once!Init
    BY DEF Init, Once!Init, Unborn, Live, RunningOn, Executing
  <1>2. OwnInv /\ OwnInv' /\ [Next]_vars => [Once!Next]_(Once!vars)
    BY OnceStep DEF Once!vars, Held, Running, Result, Served, Live, RunningOn
  <1>3. QED
    BY <1>1, <1>2, InitOwns, OwnStep, PTL DEF Spec, ImplementsOncePerKey, Once!Spec

=============================================================================
