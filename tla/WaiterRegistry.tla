--------------------------- MODULE WaiterRegistry ---------------------------
(***************************************************************************)
(* The waiter registry shared by every monitor                             *)
(* (src/monitor/internal/waiter_registry.rs): a u64 counter and an ordered *)
(* map from registration identifiers to waiters.  Each registration stores *)
(* a fresh waiter object, so a waiter is identified with its key and the   *)
(* map is the set of its keys.  Every operation runs under the registry's  *)
(* own mutex, hence is one step.                                           *)
(***************************************************************************)
EXTENDS Integers

CONSTANT MaxWaiterId            \* u64::MAX, the identifier never handed out

ASSUME MaxWaiterIdAssumption == MaxWaiterId \in Nat \ {0}

VARIABLES next_waiter_id,       \* the identifier the next registration gets
          waiters               \* the keys of the ordered map

registryVars == <<next_waiter_id, waiters>>

WaiterIds == 1 .. (MaxWaiterId - 1)

RegistryTypeOK ==
    /\ next_waiter_id \in 1 .. MaxWaiterId
    /\ waiters \in SUBSET WaiterIds

-----------------------------------------------------------------------------

RegistryInit ==
    /\ next_waiter_id = 1
    /\ waiters = {}

(* The first entry of the map, as a set: empty when the map is.            *)
Oldest(ids) == {i \in ids : \A j \in ids : i <= j}

(* checked_add panics before anything is inserted, so an exhausted         *)
(* registry stays as it is and every later registration panics too.        *)
Exhausted == next_waiter_id = MaxWaiterId

(* Mutant of Register: the counter is not checked.                         *)
RegisterUnchecked(id) ==
    /\ id = next_waiter_id
    /\ next_waiter_id' = next_waiter_id + 1
    /\ waiters' = waiters \cup {id}

Register(id) ==
    /\ ~Exhausted
    /\ id = next_waiter_id
    /\ next_waiter_id' = next_waiter_id + 1
    /\ waiters' = waiters \cup {id}

(* Mutant of TakeOne: the latest registration is taken.                    *)
TakeLatest(taken) ==
    /\ taken = {i \in waiters : \A j \in waiters : i >= j}
    /\ waiters' = waiters \ taken
    /\ UNCHANGED next_waiter_id

(* Mutant of TakeOne: the first entry is read and stays in the map.        *)
TakePeek(taken) ==
    /\ taken = Oldest(waiters)
    /\ UNCHANGED registryVars

TakeOne(taken) ==
    /\ taken = Oldest(waiters)
    /\ waiters' = waiters \ taken
    /\ UNCHANGED next_waiter_id

TakeAll(taken) ==
    /\ taken = waiters
    /\ waiters' = {}
    /\ UNCHANGED next_waiter_id

(* Nothing to remove when a notification has taken the waiter already.     *)
Unregister(id) ==
    /\ waiters' = waiters \ {id}
    /\ UNCHANGED next_waiter_id

=============================================================================
