----------------------------- MODULE PoolProofs -----------------------------
(***************************************************************************)
(* Theorems about the connection pool, for every set of connections and    *)
(* users and every dial limit.  Each invariant is carried through the      *)
(* actions of Next one by one.                                             *)
(***************************************************************************)
EXTENDS Pool, FiniteSetTheorems, TLAPS

-----------------------------------------------------------------------------
(* Types, and that a busy user works on a connection of the pool. *)
UserInv == \A u \in User : user[u].pc # "idle" => user[u].conn \in Conn

TypeInv == TypeOK /\ UserInv

LEMMA TypeStep == TypeInv /\ [Next]_vars => TypeInv'
  <1> SUFFICES ASSUME TypeInv, [Next]_vars PROVE TypeInv'
    OBVIOUS
  <1> USE DEF TypeInv, UserInv, TypeOK, UserType, LoopPC, Errors, Nobody
  <1>1. CASE PoolCloseTakes
    BY <1>1 DEF PoolCloseTakes, managedVars, loopVars, clientVars
  <1>2. CASE PoolCloseReturns
    BY <1>2 DEF PoolCloseReturns, managedVars, loopVars, clientVars
  <1>3. ASSUME NEW m \in Conn, AddLocked(m) PROVE TypeInv'
    BY <1>3 DEF AddLocked, Refuses, managedVars, loopVars, clientVars
  <1>4. ASSUME NEW m \in Conn, AddStarts(m) PROVE TypeInv'
    BY <1>4 DEF AddStarts, Goto, poolVars, managedVars, clientVars
  <1>5. ASSUME NEW m \in Conn, CloseMarks(m) PROVE TypeInv'
    BY <1>5 DEF CloseMarks, MayClose, poolVars, loopVars, clientVars
  <1>6. ASSUME NEW m \in Conn, CloseCancels(m) PROVE TypeInv'
    BY <1>6 DEF CloseCancels, Cancel, poolVars, managedVars, loopVars, clientVars
  <1>7. ASSUME NEW m \in Conn, PoolCloseNext(m) PROVE TypeInv'
    BY <1>7 DEF PoolCloseNext, managedVars, loopVars, clientVars
  <1>8. ASSUME NEW m \in Conn, DialAcquires(m) PROVE TypeInv'
    BY <1>8 DEF DialAcquires, Goto, SlotFree, poolVars, managedVars, clientVars
  <1>9. ASSUME NEW m \in Conn, DialGivesUp(m) PROVE TypeInv'
    BY <1>9 DEF DialGivesUp, Goto, poolVars, managedVars, clientVars
  <1>10. ASSUME NEW m \in Conn, DialSucceeds(m) PROVE TypeInv'
    BY <1>10 DEF DialSucceeds, Goto, poolVars, managedVars
  <1>11. ASSUME NEW m \in Conn, DialFails(m) PROVE TypeInv'
    <2>1. /\ sem' = sem \ {m}
          /\ \E l \in LoopPC : pc' = [pc EXCEPT ![m] = l]
          /\ err' = err \/ err' = [err EXCEPT ![m] = "dial"]
          /\ attempt' = attempt \/ attempt' = [attempt EXCEPT ![m] = @ + 1]
          /\ UNCHANGED <<poolVars, adding, managedVars, cancelled, token, cur, redial,
                         clientVars, user>>
      BY <1>11 DEF DialFails, Goto
    <2>2. pc' \in [Conn -> LoopPC]
      BY <2>1
    <2>3. attempt' \in [Conn -> Nat]
      BY <2>1
    <2>4. err' \in [Conn -> Errors]
      BY <2>1
    <2>5. QED
      BY <2>1, <2>2, <2>3, <2>4 DEF poolVars, managedVars, clientVars
  <1>12. ASSUME NEW m \in Conn, SetsBrokenOnDial(m) PROVE TypeInv'
    BY <1>12 DEF SetsBrokenOnDial, Goto, Set, poolVars, clientVars
  <1>13. ASSUME NEW m \in Conn, Waited(m) PROVE TypeInv'
    BY <1>13 DEF Waited, Goto, poolVars, managedVars, clientVars
  <1>14. ASSUME NEW m \in Conn, Drains(m) PROVE TypeInv'
    BY <1>14 DEF Drains, Goto, poolVars, managedVars, clientVars
  <1>15. ASSUME NEW m \in Conn, SetsReady(m) PROVE TypeInv'
    BY <1>15 DEF SetsReady, Goto, Set, poolVars, clientVars
  <1>16. ASSUME NEW m \in Conn, ServeEnds(m) PROVE TypeInv'
    BY <1>16 DEF ServeEnds, Goto, poolVars, managedVars, clientVars
  <1>17. ASSUME NEW m \in Conn, ServeRedials(m) PROVE TypeInv'
    BY <1>17 DEF ServeRedials, Goto, poolVars, managedVars, clientVars
  <1>18. ASSUME NEW m \in Conn, PingFails(m) PROVE TypeInv'
    BY <1>18 DEF PingFails, Goto, poolVars, managedVars, clientVars
  <1>19. ASSUME NEW m \in Conn, SetsBroken(m) PROVE TypeInv'
    BY <1>19 DEF SetsBroken, Goto, PublishBroken, Set, poolVars, clientVars
  <1>20. ASSUME NEW m \in Conn, Teardown(m) PROVE TypeInv'
    BY <1>20 DEF Teardown, Goto, TeardownCloses, poolVars, managedVars
  <1>21. ASSUME NEW m \in Conn, Clears(m) PROVE TypeInv'
    BY <1>21 DEF Clears, Goto, poolVars, clientVars
  <1>22. ASSUME NEW m \in Conn, NEW c \in 1 .. MaxClients, TransportDies(m, c) PROVE
     TypeInv'
    BY <1>22 DEF TransportDies, poolVars, managedVars, loopVars
  <1>23. ASSUME NEW u \in User, NEW m \in Conn, UserReady(u, m) PROVE TypeInv'
    BY <1>23 DEF UserReady, poolVars, managedVars, loopVars, clientVars
  <1>24. ASSUME NEW u \in User, UserDone(u) PROVE TypeInv'
    BY <1>24 DEF UserDone, poolVars, managedVars, loopVars, clientVars
  <1>25. ASSUME NEW u \in User, UserMarksBroken(u) PROVE TypeInv'
    <2>1. user[u].conn \in Conn
      BY <1>25 DEF UserMarksBroken
    <2>2. /\ \/ user' = [user EXCEPT ![u].pc = "signal"] \/ user' = [user EXCEPT ![u] = Nobody]
          /\ \/ UNCHANGED <<state, lastErr>>
             \/ /\ state' = [state EXCEPT ![user[u].conn] = "Broken"]
                /\ lastErr' = [lastErr EXCEPT ![user[u].conn] = "command"]
          /\ UNCHANGED <<sem, poolVars, adding, client, closed, cancelled, token, loopVars,
                         clientVars>>
      BY <1>25 DEF UserMarksBroken
    <2>3. user' \in [User -> UserType] /\ UserInv'
      <3>1. \A v \in User : user[v] \in UserType
        OBVIOUS
      <3>2. user'[u] \in UserType /\ (user'[u].pc # "idle" => user'[u].conn \in Conn)
        BY <2>1, <2>2, <3>1
      <3>3. user' = [user EXCEPT ![u] = user'[u]]
        BY <2>2
      <3>4. \A v \in User : v # u => user'[v] = user[v]
        BY <3>3
      <3>5. user' \in [User -> UserType]
        BY <3>2, <3>3
      <3>6. UserInv'
        BY <3>2, <3>4
      <3>7. QED
        BY <3>5, <3>6
    <2>4. state' \in [Conn -> {"Connecting", "Ready", "Broken", "Closed"}]
          /\ lastErr' \in [Conn -> Errors]
      BY <2>1, <2>2
    <2>5. QED
      BY <2>2, <2>3, <2>4 DEF poolVars, loopVars, clientVars
  <1>26. ASSUME NEW u \in User, UserSignals(u) PROVE TypeInv'
    BY <1>26 DEF UserSignals, SendToken, poolVars, managedVars, loopVars, clientVars
  <1>27. CASE UNCHANGED vars
    BY <1>27 DEF vars, poolVars, managedVars, loopVars, clientVars
  <1>28. QED
    BY <1>1, <1>2, <1>3, <1>4, <1>5, <1>6, <1>7, <1>8, <1>9, <1>10, <1>11,
       <1>12, <1>13, <1>14, <1>15, <1>16, <1>17, <1>18, <1>19, <1>20, <1>21,
       <1>22, <1>23, <1>24, <1>25, <1>26, <1>27 DEF Next, Loop

(* The strengthened type invariant holds throughout. *)
LEMMA TypeInvHolds == Spec => []TypeInv
  <1>1. Init => TypeInv
    <2> SUFFICES ASSUME Init PROVE TypeInv
      OBVIOUS
    <2>1. user \in [User -> UserType] /\ UserInv
      BY DEF Init, UserInv, UserType, Nobody
    <2>2. /\ open \in [Conn -> SUBSET Nat] /\ up \in [Conn -> SUBSET Nat]
          /\ sem \subseteq Conn /\ conns \subseteq Conn /\ toClose \subseteq Conn
      BY DEF Init
    <2>3. QED
      BY <2>1, <2>2 DEF Init, TypeInv, TypeOK, LoopPC, Errors
  <1>2. QED
    BY <1>1, TypeStep, PTL DEF Spec

(* Every variable of the pool keeps its type. *)
THEOREM TypeCorrect == Spec => []TypeOK
  <1>1. TypeInv => TypeOK
    BY DEF TypeInv
  <1>2. QED
    BY <1>1, TypeInvHolds, PTL

-----------------------------------------------------------------------------
(***************************************************************************)
(* The life of a client: open exactly from the dial to the teardown of one *)
(* round of the loop, published as Ready only in between.                  *)
(***************************************************************************)
Holding == {"drain", "setReady", "serve", "setBroken", "teardown"}

ClientInv ==
    /\ \A m \in Conn : open[m] = IF pc[m] \in Holding THEN {cur[m]} ELSE {}
    /\ \A m \in Conn : closed[m] <=> state[m] = "Closed"
    /\ \A m \in Conn : cancelled[m] => closed[m]
    /\ \A m \in Conn : adding[m] # "done" => pc[m] = "none"
    /\ ReadyIsLive

LEMMA ClientStep == TypeInv /\ ClientInv /\ [Next]_vars => ClientInv'
  <1> SUFFICES ASSUME TypeInv, ClientInv, [Next]_vars PROVE ClientInv'
    OBVIOUS
  <1> USE DEF TypeInv, UserInv, TypeOK, UserType, LoopPC, ClientInv, ReadyIsLive, Holding
  <1>1. CASE PoolCloseTakes
    BY <1>1 DEF PoolCloseTakes, managedVars, loopVars, clientVars
  <1>2. CASE PoolCloseReturns
    BY <1>2 DEF PoolCloseReturns, managedVars, loopVars, clientVars
  <1>3. ASSUME NEW m \in Conn, AddLocked(m) PROVE ClientInv'
    BY <1>3 DEF AddLocked, Refuses, managedVars, loopVars, clientVars
  <1>4. ASSUME NEW m \in Conn, AddStarts(m) PROVE ClientInv'
    BY <1>4 DEF AddStarts, Goto, poolVars, managedVars, clientVars
  <1>5. ASSUME NEW m \in Conn, CloseMarks(m) PROVE ClientInv'
    BY <1>5 DEF CloseMarks, MayClose, poolVars, loopVars, clientVars
  <1>6. ASSUME NEW m \in Conn, CloseCancels(m) PROVE ClientInv'
    BY <1>6 DEF CloseCancels, Cancel, poolVars, managedVars, loopVars, clientVars
  <1>7. ASSUME NEW m \in Conn, PoolCloseNext(m) PROVE ClientInv'
    BY <1>7 DEF PoolCloseNext, managedVars, loopVars, clientVars
  <1>8. ASSUME NEW m \in Conn, DialAcquires(m) PROVE ClientInv'
    BY <1>8 DEF DialAcquires, Goto, SlotFree, poolVars, managedVars, clientVars
  <1>9. ASSUME NEW m \in Conn, DialGivesUp(m) PROVE ClientInv'
    BY <1>9 DEF DialGivesUp, Goto, poolVars, managedVars, clientVars
  <1>10. ASSUME NEW m \in Conn, DialSucceeds(m) PROVE ClientInv'
    BY <1>10, ZenonT(40) DEF DialSucceeds, Goto, poolVars, managedVars
  <1>11. ASSUME NEW m \in Conn, DialFails(m) PROVE ClientInv'
    BY <1>11 DEF DialFails, Goto, poolVars, managedVars, clientVars
  <1>12. ASSUME NEW m \in Conn, SetsBrokenOnDial(m) PROVE ClientInv'
    BY <1>12 DEF SetsBrokenOnDial, Goto, Set, poolVars, clientVars
  <1>13. ASSUME NEW m \in Conn, Waited(m) PROVE ClientInv'
    BY <1>13 DEF Waited, Goto, poolVars, managedVars, clientVars
  <1>14. ASSUME NEW m \in Conn, Drains(m) PROVE ClientInv'
    BY <1>14 DEF Drains, Goto, poolVars, managedVars, clientVars
  <1>15. ASSUME NEW m \in Conn, SetsReady(m) PROVE ClientInv'
    BY <1>15 DEF SetsReady, Goto, Set, poolVars, clientVars
  <1>16. ASSUME NEW m \in Conn, ServeEnds(m) PROVE ClientInv'
    BY <1>16 DEF ServeEnds, Goto, poolVars, managedVars, clientVars
  <1>17. ASSUME NEW m \in Conn, ServeRedials(m) PROVE ClientInv'
    BY <1>17 DEF ServeRedials, Goto, poolVars, managedVars, clientVars
  <1>18. ASSUME NEW m \in Conn, PingFails(m) PROVE ClientInv'
    BY <1>18 DEF PingFails, Goto, poolVars, managedVars, clientVars
  <1>19. ASSUME NEW m \in Conn, SetsBroken(m) PROVE ClientInv'
    BY <1>19 DEF SetsBroken, Goto, PublishBroken, Set, poolVars, clientVars
  <1>20. ASSUME NEW m \in Conn, Teardown(m) PROVE ClientInv'
    BY <1>20, ZenonT(40) DEF Teardown, Goto, TeardownCloses, poolVars, managedVars
  <1>21. ASSUME NEW m \in Conn, Clears(m) PROVE ClientInv'
    BY <1>21 DEF Clears, Goto, poolVars, clientVars
  <1>22. ASSUME NEW m \in Conn, NEW c \in 1 .. MaxClients, TransportDies(m, c) PROVE
     ClientInv'
    BY <1>22 DEF TransportDies, poolVars, managedVars, loopVars
  <1>23. ASSUME NEW u \in User, NEW m \in Conn, UserReady(u, m) PROVE ClientInv'
    BY <1>23 DEF UserReady, poolVars, managedVars, loopVars, clientVars
  <1>24. ASSUME NEW u \in User, UserDone(u) PROVE ClientInv'
    BY <1>24 DEF UserDone, poolVars, managedVars, loopVars, clientVars
  <1>25. ASSUME NEW u \in User, UserMarksBroken(u) PROVE ClientInv'
    BY <1>25 DEF UserMarksBroken, StillReady, poolVars, loopVars, clientVars
  <1>26. ASSUME NEW u \in User, UserSignals(u) PROVE ClientInv'
    BY <1>26 DEF UserSignals, SendToken, poolVars, managedVars, loopVars, clientVars
  <1>27. CASE UNCHANGED vars
    BY <1>27 DEF vars, poolVars, managedVars, loopVars, clientVars
  <1>28. QED
    BY <1>1, <1>2, <1>3, <1>4, <1>5, <1>6, <1>7, <1>8, <1>9, <1>10, <1>11,
       <1>12, <1>13, <1>14, <1>15, <1>16, <1>17, <1>18, <1>19, <1>20, <1>21,
       <1>22, <1>23, <1>24, <1>25, <1>26, <1>27 DEF Next, Loop

(* ClientInv holds throughout. *)
LEMMA ClientInvHolds == Spec => []ClientInv
  <1>1. Init => ClientInv
    BY DEF Init, ClientInv, ReadyIsLive, Holding
  <1>2. QED
    BY <1>1, ClientStep, TypeInvHolds, PTL DEF Spec

(* A client handed out by ready is served by the loop and not torn down. *)
THEOREM ReadyIsAlwaysLive == Spec => []ReadyIsLive
  <1>1. ClientInv => ReadyIsLive
    BY DEF ClientInv
  <1>2. QED
    BY <1>1, ClientInvHolds, PTL

(* The loop holds at most one open client and leaves none behind. *)
THEOREM NoClientEverLeaks == Spec => []NoClientLeaks
  <1>1. ClientInv => NoClientLeaks
    BY DEF ClientInv, NoClientLeaks, Holding
  <1>2. QED
    BY <1>1, ClientInvHolds, PTL

-----------------------------------------------------------------------------
(* The dial semaphore: its holders are the loops inside dialFn, never more *)
(* than MaxDials.                                                          *)
SlotInv ==
    /\ sem = {m \in Conn : pc[m] = "dialing"}
    /\ Cardinality(sem) <= MaxDials

(* Taking and freeing a slot change the number of holders by at most one. *)
LEMMA SlotCount ==
    ASSUME TypeInv, NEW m \in Conn
    PROVE  /\ IsFiniteSet(sem) /\ Cardinality(sem) \in Nat
           /\ Cardinality(sem \cup {m}) \in {Cardinality(sem), Cardinality(sem) + 1}
           /\ Cardinality(sem \ {m}) \in {Cardinality(sem), Cardinality(sem) - 1}
  <1>1. IsFiniteSet(sem)
    BY PoolAssumption, FS_Subset DEF TypeInv, TypeOK
  <1>2. Cardinality(sem) \in Nat
    BY <1>1, FS_CardinalityType
  <1>3. Cardinality(sem \cup {m}) \in {Cardinality(sem), Cardinality(sem) + 1}
    BY <1>1, FS_AddElement
  <1>4. Cardinality(sem \ {m}) \in {Cardinality(sem), Cardinality(sem) - 1}
    BY <1>1, FS_RemoveElement
  <1>5. QED
    BY <1>1, <1>2, <1>3, <1>4

(* A step that moves a loop between places other than the dial. *)
LEMMA SlotStep == TypeInv /\ ClientInv /\ SlotInv /\ [Next]_vars => SlotInv'
  <1> SUFFICES ASSUME TypeInv, ClientInv, SlotInv, [Next]_vars PROVE SlotInv'
    OBVIOUS
  <1> USE PoolAssumption
  <1> USE DEF SlotInv
  <1>t. pc \in [Conn -> LoopPC] /\ sem \subseteq Conn
    BY DEF TypeInv, TypeOK
  <1>a. \A m \in Conn : adding[m] # "done" => pc[m] = "none"
    BY DEF ClientInv
  <1>1. CASE PoolCloseTakes
    BY <1>1, <1>t DEF PoolCloseTakes, managedVars, loopVars, clientVars
  <1>2. CASE PoolCloseReturns
    BY <1>2, <1>t DEF PoolCloseReturns, managedVars, loopVars, clientVars
  <1>3. ASSUME NEW m \in Conn, AddLocked(m) PROVE SlotInv'
    BY <1>3, <1>t DEF AddLocked, Refuses, managedVars, loopVars, clientVars
  <1>4. ASSUME NEW m \in Conn, AddStarts(m) PROVE SlotInv'
    <2>1. pc[m] = "none" /\ pc' = [pc EXCEPT ![m] = "dial"] /\ sem' = sem
      BY <1>4, <1>a DEF AddStarts, Goto
    <2>2. QED
      BY <2>1, <1>t
  <1>5. ASSUME NEW m \in Conn, CloseMarks(m) PROVE SlotInv'
    BY <1>5, <1>t DEF CloseMarks, MayClose, poolVars, loopVars, clientVars
  <1>6. ASSUME NEW m \in Conn, CloseCancels(m) PROVE SlotInv'
    BY <1>6, <1>t DEF CloseCancels, Cancel, poolVars, managedVars, loopVars, clientVars
  <1>7. ASSUME NEW m \in Conn, PoolCloseNext(m) PROVE SlotInv'
    BY <1>7, <1>t DEF PoolCloseNext, managedVars, loopVars, clientVars
  <1>8. ASSUME NEW m \in Conn, DialAcquires(m) PROVE SlotInv'
    <2>1. pc' = [pc EXCEPT ![m] = "dialing"] /\ sem' = sem \cup {m} /\ Cardinality(sem) < MaxDials
      BY <1>8 DEF DialAcquires, Goto, SlotFree
    <2>2. sem' = {n \in Conn : pc'[n] = "dialing"}
      BY <2>1, <1>t
    <2>3. Cardinality(sem') <= MaxDials
      <3>1. /\ Cardinality(sem) \in Nat
            /\ Cardinality(sem \cup {m}) \in {Cardinality(sem), Cardinality(sem) + 1}
        BY SlotCount
      <3>2. Cardinality(sem') = Cardinality(sem \cup {m})
        BY <2>1
      <3>3. QED
        BY <2>1, <3>1, <3>2
    <2>4. QED
      BY <2>2, <2>3
  <1>9. ASSUME NEW m \in Conn, DialGivesUp(m) PROVE SlotInv'
    BY <1>9, <1>t DEF DialGivesUp, Goto, poolVars, managedVars, clientVars
  <1>10. ASSUME NEW m \in Conn, DialSucceeds(m) PROVE SlotInv'
    <2>1. pc' = [pc EXCEPT ![m] = "drain"] /\ sem' = sem \ {m}
      BY <1>10 DEF DialSucceeds, Goto
    <2>2. sem' = {n \in Conn : pc'[n] = "dialing"}
      BY <2>1, <1>t
    <2>3. Cardinality(sem') <= MaxDials
      <3>1. /\ Cardinality(sem) \in Nat /\ Cardinality(sem) <= MaxDials
            /\ Cardinality(sem \ {m}) \in {Cardinality(sem), Cardinality(sem) - 1}
        BY SlotCount
      <3>2. Cardinality(sem') = Cardinality(sem \ {m})
        BY <2>1
      <3>3. QED
        BY <3>1, <3>2
    <2>4. QED
      BY <2>2, <2>3
  <1>11. ASSUME NEW m \in Conn, DialFails(m) PROVE SlotInv'
    <2>1. sem' = sem \ {m}
          /\ \/ pc' = [pc EXCEPT ![m] = "done"]
             \/ pc' = [pc EXCEPT ![m] = "failed"]
      BY <1>11 DEF DialFails, Goto
    <2>2. sem' = {n \in Conn : pc'[n] = "dialing"}
      BY <2>1, <1>t
    <2>3. Cardinality(sem') <= MaxDials
      <3>1. /\ Cardinality(sem) \in Nat /\ Cardinality(sem) <= MaxDials
            /\ Cardinality(sem \ {m}) \in {Cardinality(sem), Cardinality(sem) - 1}
        BY SlotCount
      <3>2. Cardinality(sem') = Cardinality(sem \ {m})
        BY <2>1
      <3>3. QED
        BY <3>1, <3>2
    <2>4. QED
      BY <2>2, <2>3
  <1>12. ASSUME NEW m \in Conn, SetsBrokenOnDial(m) PROVE SlotInv'
    BY <1>12, <1>t DEF SetsBrokenOnDial, Goto, Set, poolVars, clientVars
  <1>13. ASSUME NEW m \in Conn, Waited(m) PROVE SlotInv'
    BY <1>13, <1>t DEF Waited, Goto, poolVars, managedVars, clientVars
  <1>14. ASSUME NEW m \in Conn, Drains(m) PROVE SlotInv'
    BY <1>14, <1>t DEF Drains, Goto, poolVars, managedVars, clientVars
  <1>15. ASSUME NEW m \in Conn, SetsReady(m) PROVE SlotInv'
    BY <1>15, <1>t DEF SetsReady, Goto, Set, poolVars, clientVars
  <1>16. ASSUME NEW m \in Conn, ServeEnds(m) PROVE SlotInv'
    BY <1>16, <1>t DEF ServeEnds, Goto, poolVars, managedVars, clientVars
  <1>17. ASSUME NEW m \in Conn, ServeRedials(m) PROVE SlotInv'
    BY <1>17, <1>t DEF ServeRedials, Goto, poolVars, managedVars, clientVars
  <1>18. ASSUME NEW m \in Conn, PingFails(m) PROVE SlotInv'
    BY <1>18, <1>t DEF PingFails, Goto, poolVars, managedVars, clientVars
  <1>19. ASSUME NEW m \in Conn, SetsBroken(m) PROVE SlotInv'
    BY <1>19, <1>t DEF SetsBroken, Goto, PublishBroken, Set, poolVars, clientVars
  <1>20. ASSUME NEW m \in Conn, Teardown(m) PROVE SlotInv'
    BY <1>20, <1>t DEF Teardown, Goto, TeardownCloses, poolVars, managedVars
  <1>21. ASSUME NEW m \in Conn, Clears(m) PROVE SlotInv'
    BY <1>21, <1>t DEF Clears, Goto, poolVars, clientVars
  <1>22. ASSUME NEW m \in Conn, NEW c \in 1 .. MaxClients, TransportDies(m, c) PROVE
     SlotInv'
    BY <1>22, <1>t DEF TransportDies, poolVars, managedVars, loopVars
  <1>23. ASSUME NEW u \in User, NEW m \in Conn, UserReady(u, m) PROVE SlotInv'
    BY <1>23, <1>t DEF UserReady, poolVars, managedVars, loopVars, clientVars
  <1>24. ASSUME NEW u \in User, UserDone(u) PROVE SlotInv'
    BY <1>24, <1>t DEF UserDone, poolVars, managedVars, loopVars, clientVars
  <1>25. ASSUME NEW u \in User, UserMarksBroken(u) PROVE SlotInv'
    BY <1>25, <1>t DEF UserMarksBroken, StillReady, poolVars, loopVars, clientVars
  <1>26. ASSUME NEW u \in User, UserSignals(u) PROVE SlotInv'
    BY <1>26, <1>t DEF UserSignals, SendToken, poolVars, managedVars, loopVars, clientVars
  <1>27. CASE UNCHANGED vars
    BY <1>27 DEF vars, poolVars, managedVars, loopVars, clientVars
  <1>28. QED
    BY <1>1, <1>2, <1>3, <1>4, <1>5, <1>6, <1>7, <1>8, <1>9, <1>10, <1>11,
       <1>12, <1>13, <1>14, <1>15, <1>16, <1>17, <1>18, <1>19, <1>20, <1>21,
       <1>22, <1>23, <1>24, <1>25, <1>26, <1>27 DEF Next, Loop

(* The dial cap is never exceeded and no slot leaks. *)
THEOREM DialsAlwaysCapped == Spec => []DialsCapped
  <1>1. Init => SlotInv
    BY PoolAssumption, FS_EmptySet DEF Init, SlotInv
  <1>2. SlotInv => DialsCapped
    BY DEF SlotInv, DialsCapped
  <1>3. QED
    BY <1>1, <1>2, SlotStep, ClientInvHolds, TypeInvHolds, PTL DEF Spec

-----------------------------------------------------------------------------
(***************************************************************************)
(* StateClosed is terminal: whatever writes the state after Close finds    *)
(* closed set under the same lock.                                         *)
(***************************************************************************)
THEOREM ClosedStaysClosed == Spec => ClosedIsTerminal
  <1>1. TypeInv /\ ClientInv /\ [Next]_vars =>
          [\A m \in Conn : state[m] = "Closed" => state'[m] = "Closed"]_vars
    <2> SUFFICES ASSUME TypeInv, ClientInv, [Next]_vars,
                        NEW n \in Conn, state[n] = "Closed"
                 PROVE  state'[n] = "Closed"
      OBVIOUS
    <2>1. closed[n] /\ closed' \in [Conn -> BOOLEAN]
      BY TypeStep DEF ClientInv, TypeInv, TypeOK
    <2>2. closed'[n] => state'[n] = "Closed"
      BY ClientStep DEF ClientInv
    <2>3. closed' = closed \/ \E m \in Conn : closed' = [closed EXCEPT ![m] = TRUE]
      BY DEF Next, Loop, vars, poolVars, managedVars, loopVars, clientVars,
             PoolCloseTakes, PoolCloseReturns, AddLocked, AddStarts, CloseMarks,
             CloseCancels, PoolCloseNext, DialAcquires, DialGivesUp, DialSucceeds,
             DialFails, SetsBrokenOnDial, Waited, Drains, SetsReady, ServeEnds,
             ServeRedials, PingFails, SetsBroken, Teardown, Clears, TransportDies,
             UserReady, UserDone, UserMarksBroken, UserSignals
    <2>4. closed'[n]
      BY <2>1, <2>3 DEF TypeInv, TypeOK
    <2>5. QED
      BY <2>2, <2>4
  <1>2. QED
    BY <1>1, ClientInvHolds, TypeInvHolds, PTL DEF Spec, ClosedIsTerminal

-----------------------------------------------------------------------------
(***************************************************************************)
(* Add against Pool.Close: a Managed whose loop may run is still on the    *)
(* pool's list, or on the list Pool.Close took, or already closed.         *)
(***************************************************************************)
OwnedInv ==
    /\ dead <=> closing # "no"
    /\ dead => conns = {}
    /\ closing # "running" => toClose = {}
    /\ \A m \in Conn : cancelled[m] => closed[m]
    /\ \A m \in Conn :
         /\ pc[m] # "none" => adding[m] = "done"
         /\ adding[m] \in {"locked", "done"} =>
              m \in conns \/ m \in toClose \/ closed[m]

LEMMA OwnedStep == TypeInv /\ ClientInv /\ OwnedInv /\ [Next]_vars => OwnedInv'
  <1> SUFFICES ASSUME TypeInv, ClientInv, OwnedInv, [Next]_vars PROVE OwnedInv'
    OBVIOUS
  <1> USE DEF OwnedInv
  <1>t. /\ pc \in [Conn -> LoopPC] /\ closed \in [Conn -> BOOLEAN]
        /\ cancelled \in [Conn -> BOOLEAN]
        /\ adding \in [Conn -> {"no", "locked", "refused", "done"}]
    BY DEF TypeInv, TypeOK
  <1>1. CASE PoolCloseTakes
    BY <1>1, <1>t DEF PoolCloseTakes, managedVars, loopVars, clientVars
  <1>2. CASE PoolCloseReturns
    BY <1>2, <1>t DEF PoolCloseReturns, managedVars, loopVars, clientVars
  <1>3. ASSUME NEW m \in Conn, AddLocked(m) PROVE OwnedInv'
    BY <1>3, <1>t DEF AddLocked, Refuses, managedVars, loopVars, clientVars
  <1>4. ASSUME NEW m \in Conn, AddStarts(m) PROVE OwnedInv'
    BY <1>4, <1>t DEF AddStarts, Goto, poolVars, managedVars, clientVars
  <1>5. ASSUME NEW m \in Conn, CloseMarks(m) PROVE OwnedInv'
    BY <1>5, <1>t DEF CloseMarks, MayClose, poolVars, loopVars, clientVars
  <1>6. ASSUME NEW m \in Conn, CloseCancels(m) PROVE OwnedInv'
    BY <1>6, <1>t DEF CloseCancels, Cancel, poolVars, managedVars, loopVars, clientVars
  <1>7. ASSUME NEW m \in Conn, PoolCloseNext(m) PROVE OwnedInv'
    BY <1>7, <1>t DEF PoolCloseNext, managedVars, loopVars, clientVars
  <1>8. ASSUME NEW m \in Conn, DialAcquires(m) PROVE OwnedInv'
    BY <1>8, <1>t DEF DialAcquires, Goto, SlotFree, poolVars, managedVars, clientVars
  <1>9. ASSUME NEW m \in Conn, DialGivesUp(m) PROVE OwnedInv'
    BY <1>9, <1>t DEF DialGivesUp, Goto, poolVars, managedVars, clientVars
  <1>10. ASSUME NEW m \in Conn, DialSucceeds(m) PROVE OwnedInv'
    BY <1>10, <1>t DEF DialSucceeds, Goto, poolVars, managedVars
  <1>11. ASSUME NEW m \in Conn, DialFails(m) PROVE OwnedInv'
    BY <1>11, <1>t DEF DialFails, Goto, poolVars, managedVars, clientVars
  <1>12. ASSUME NEW m \in Conn, SetsBrokenOnDial(m) PROVE OwnedInv'
    BY <1>12, <1>t DEF SetsBrokenOnDial, Goto, Set, poolVars, clientVars
  <1>13. ASSUME NEW m \in Conn, Waited(m) PROVE OwnedInv'
    BY <1>13, <1>t DEF Waited, Goto, poolVars, managedVars, clientVars
  <1>14. ASSUME NEW m \in Conn, Drains(m) PROVE OwnedInv'
    BY <1>14, <1>t DEF Drains, Goto, poolVars, managedVars, clientVars
  <1>15. ASSUME NEW m \in Conn, SetsReady(m) PROVE OwnedInv'
    BY <1>15, <1>t DEF SetsReady, Goto, Set, poolVars, clientVars
  <1>16. ASSUME NEW m \in Conn, ServeEnds(m) PROVE OwnedInv'
    BY <1>16, <1>t DEF ServeEnds, Goto, poolVars, managedVars, clientVars
  <1>17. ASSUME NEW m \in Conn, ServeRedials(m) PROVE OwnedInv'
    BY <1>17, <1>t DEF ServeRedials, Goto, poolVars, managedVars, clientVars
  <1>18. ASSUME NEW m \in Conn, PingFails(m) PROVE OwnedInv'
    BY <1>18, <1>t DEF PingFails, Goto, poolVars, managedVars, clientVars
  <1>19. ASSUME NEW m \in Conn, SetsBroken(m) PROVE OwnedInv'
    BY <1>19, <1>t DEF SetsBroken, Goto, PublishBroken, Set, poolVars, clientVars
  <1>20. ASSUME NEW m \in Conn, Teardown(m) PROVE OwnedInv'
    BY <1>20, <1>t DEF Teardown, Goto, TeardownCloses, poolVars, managedVars
  <1>21. ASSUME NEW m \in Conn, Clears(m) PROVE OwnedInv'
    BY <1>21, <1>t DEF Clears, Goto, poolVars, clientVars
  <1>22. ASSUME NEW m \in Conn, NEW c \in 1 .. MaxClients, TransportDies(m, c) PROVE
     OwnedInv'
    BY <1>22, <1>t DEF TransportDies, poolVars, managedVars, loopVars
  <1>23. ASSUME NEW u \in User, NEW m \in Conn, UserReady(u, m) PROVE OwnedInv'
    BY <1>23, <1>t DEF UserReady, poolVars, managedVars, loopVars, clientVars
  <1>24. ASSUME NEW u \in User, UserDone(u) PROVE OwnedInv'
    BY <1>24, <1>t DEF UserDone, poolVars, managedVars, loopVars, clientVars
  <1>25. ASSUME NEW u \in User, UserMarksBroken(u) PROVE OwnedInv'
    BY <1>25, <1>t DEF UserMarksBroken, StillReady, poolVars, loopVars, clientVars
  <1>26. ASSUME NEW u \in User, UserSignals(u) PROVE OwnedInv'
    BY <1>26, <1>t DEF UserSignals, SendToken, poolVars, managedVars, loopVars, clientVars
  <1>27. CASE UNCHANGED vars
    BY <1>27 DEF vars, poolVars, managedVars, loopVars, clientVars
  <1>28. QED
    BY <1>1, <1>2, <1>3, <1>4, <1>5, <1>6, <1>7, <1>8, <1>9, <1>10, <1>11,
       <1>12, <1>13, <1>14, <1>15, <1>16, <1>17, <1>18, <1>19, <1>20, <1>21,
       <1>22, <1>23, <1>24, <1>25, <1>26, <1>27 DEF Next, Loop

(* Pool.Close leaves no connection running that is not closed. *)
THEOREM PoolCloseAlwaysComplete == Spec => []PoolCloseIsComplete
  <1>1. Init => OwnedInv
    BY DEF Init, OwnedInv
  <1>2. OwnedInv => PoolCloseIsComplete
    BY DEF OwnedInv, PoolCloseIsComplete
  <1>3. QED
    BY <1>1, <1>2, OwnedStep, ClientInvHolds, TypeInvHolds, PTL DEF Spec

=============================================================================
