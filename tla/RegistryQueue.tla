---------------------------- MODULE RegistryQueue ----------------------------
(***************************************************************************)
(* The waiter registry on its own, used in every order its callers could   *)
(* use it in, against the queue they expect.                               *)
(***************************************************************************)
EXTENDS WaiterRegistry, Sequences, FiniteSets

VARIABLE served     \* history: the waiters handed out, in order

queueVars == <<registryVars, served>>

(* The order in which take_all's into_values yields the waiters: the i-th  *)
(* is the one with i keys up to and including its own.                     *)
InOrder(ids) ==
    [i \in 1 .. Cardinality(ids) |->
        CHOOSE id \in ids : Cardinality({j \in ids : j <= id}) = i]

Init == RegistryInit /\ served = <<>>

DoRegister == \E id \in 1 .. MaxWaiterId : Register(id) /\ UNCHANGED served

DoTake ==
    \E taken \in SUBSET waiters :
        /\ TakeOne(taken) \/ TakeAll(taken)
        /\ served' = served \o InOrder(taken)

(* A registration is dropped once, whether or not it was taken before.     *)
DoUnregister == \E id \in WaiterIds : Unregister(id) /\ UNCHANGED served

Next == DoRegister \/ DoTake \/ DoUnregister

Spec == Init /\ [][Next]_queueVars

Fifo == INSTANCE FifoWaiters WITH
    queue  <- InOrder(waiters),
    issued <- 1 .. (next_waiter_id - 1)

(* Ordering the map by identifier is first-in-first-out, and identifiers   *)
(* are fresh: registrations, selections, selections of all and withdrawals *)
(* in any order behave as the queue does, up to and at exhaustion of the   *)
(* identifiers (waiter_registry.rs, register, take_one, take_all).         *)
IsFifo == Fifo!Spec

(* No waiter is handed out twice or after it has withdrawn for good: what  *)
(* was served and what is registered stay disjoint, whatever is dropped.   *)
ServedOnce ==
    /\ \A i, j \in DOMAIN served : served[i] = served[j] => i = j
    /\ \A i \in DOMAIN served : served[i] \notin waiters

=============================================================================
