----------------------------- MODULE OncePerKey -----------------------------
(***************************************************************************)
(* What the idempotency middleware promises, without stores, clocks or     *)
(* fingerprints: a key is free or held, a handler runs only for the        *)
(* request that took a free key, nothing frees a key while its handler     *)
(* runs except that handler's own failure, and a duplicate is answered     *)
(* with the result of the execution that holds the key.                    *)
(***************************************************************************)
CONSTANTS Key, Req, None

VARIABLES
    held,     \* the keys that may not be executed
    running,  \* running[k]: the requests whose handler runs for k
    result,   \* result[k]: the execution whose response is on record, or None
    served    \* served[r]: the execution whose response r was replayed, or None

vars == <<held, running, result, served>>

Init ==
    /\ held = {}
    /\ running = [k \in Key |-> {}]
    /\ result = [k \in Key |-> None]
    /\ served = [r \in Req |-> None]

Begin(k, r) ==
    /\ k \notin held
    /\ held' = held \cup {k}
    /\ running' = [running EXCEPT ![k] = {r}]
    /\ UNCHANGED <<result, served>>

(* The handler's response was observed; it may fail to be recorded. *)
Complete(k, r) ==
    /\ running[k] = {r}
    /\ running' = [running EXCEPT ![k] = {}]
    /\ result' = [result EXCEPT ![k] = r] \/ UNCHANGED result
    /\ UNCHANGED <<held, served>>

(* The handler failed: the key may be retried, unless its release is lost. *)
Fail(k, r) ==
    /\ running[k] = {r}
    /\ running' = [running EXCEPT ![k] = {}]
    /\ held' = held \ {k} \/ UNCHANGED held
    /\ UNCHANGED <<result, served>>

(* Records reach the end of their lifetime, never under a running handler. *)
Expire(K) ==
    /\ K \subseteq held
    /\ \A k \in K : running[k] = {}
    /\ held' = held \ K
    /\ result' = [k \in Key |-> IF k \in K THEN None ELSE result[k]]
    /\ UNCHANGED <<running, served>>

(* A claim whose acknowledgement was lost holds the key for nobody. *)
Orphan(k) ==
    /\ k \notin held
    /\ held' = held \cup {k}
    /\ UNCHANGED <<running, result, served>>

Serve(k, r) ==
    /\ result[k] # None
    /\ served' = [served EXCEPT ![r] = result[k]]
    /\ UNCHANGED <<held, running, result>>

Next ==
    \/ \E k \in Key, r \in Req :
          Begin(k, r) \/ Complete(k, r) \/ Fail(k, r) \/ Serve(k, r)
    \/ \E K \in SUBSET Key : Expire(K)
    \/ \E k \in Key : Orphan(k)

Spec == Init /\ [][Next]_vars

=============================================================================
