------------------------------ MODULE DataLock ------------------------------
(* The lock capabilities of src/lock: DataLock, Lock, ReadWriteLock and    *)
(* their asynchronous counterparts, as implemented for the mutexes and the *)
(* read-write locks of std, parking_lot and Tokio. What the adapters       *)
(* decide is which mode of the backend a call takes, and what becomes of a *)
(* busy or poisoned backend; the backend itself (who may hold it together, *)
(* what a panic records) is external.                                      *)
(*                                                                         *)
(* The protected value is a pair that a write updates one half at a time,  *)
(* so that an access beside a write, or after an interrupted one, can tell.*)
EXTENDS Integers, FiniteSets

CONSTANTS
    Threads,    \* callers: threads, or tasks of an asynchronous lock
    NoThread,   \* no holder
    MaxCalls    \* bound: calls, and further accesses through one guard

ASSUME NoThreadAssumption == NoThread \notin Threads
ASSUME MaxCallsAssumption == MaxCalls \in Nat

VARIABLES
    kind,       \* the backend, fixed from the start
    readers,    \* holders of a shared guard
    writer,     \* the holder of the exclusive guard
    poisoned,   \* the poison flag of a std lock
    left,       \* the protected value, first half
    right,      \* the protected value, second half
    pc,         \* where each caller stands
    call,       \* its current call
    seen,       \* what its access has loaded
    view,       \* the value its access saw or left
    outcome,    \* how its last call ended
    budget,     \* calls and accesses still to make
    intact      \* history: no write was interrupted half-way

backend == <<kind, readers, writer, poisoned>>
data == <<left, right, intact>>
client == <<pc, call, seen, view, outcome, budget>>
vars == <<backend, data, client>>

(* Integers beside the values 0, 1, ...: nothing seen yet, halves differ.  *)
NoView == -1
Torn == -2

MutexKinds == {"std_mutex", "parking_lot_mutex", "tokio_mutex"}
RwLockKinds == {"std_rwlock", "parking_lot_rwlock", "tokio_rwlock"}
StdKinds == {"std_mutex", "std_rwlock"}
TokioKinds == {"tokio_mutex", "tokio_rwlock"}

TryCalls == {"try_with_read", "try_with_write", "try_lock", "try_read",
             "try_write"}
GuardCalls == {"lock", "try_lock", "read", "try_read", "write", "try_write"}

(* The calls a backend offers. ReadLock and WriteLock turn lock and        *)
(* try_lock into read, write, try_read and try_write.                      *)
Calls(k) ==
    {"with_read", "with_write", "try_with_read", "try_with_write"}
      \cup IF k \in MutexKinds THEN {"lock", "try_lock"}
           ELSE {"read", "try_read", "write", "try_write"}

(* The calls that give access to the value for reading only.               *)
ReadCalls == {"with_read", "try_with_read", "read", "try_read"}

(* The calls an adapter serves with a shared guard: reads of a read-write  *)
(* lock. A mutex has only its exclusive guard, for reads too.              *)
Shared(c) == kind \in RwLockKinds /\ c \in ReadCalls

Holders == readers \cup ({writer} \ {NoThread})

TypeOK ==
    /\ kind \in MutexKinds \cup RwLockKinds
    /\ readers \subseteq Threads
    /\ writer \in Threads \cup {NoThread}
    /\ poisoned \in BOOLEAN /\ intact \in BOOLEAN
    /\ left \in Nat /\ right \in Nat
    /\ pc \in [Threads -> {"idle", "try", "waiting", "granted", "refuse",
                           "inside", "reading", "loaded", "half", "done"}]
    /\ call \in [Threads -> {"none"} \cup Calls("std_mutex")
                                     \cup Calls("std_rwlock")]
    /\ seen \in [Threads -> Nat]
    /\ view \in [Threads -> Nat \cup {NoView, Torn}]
    /\ outcome \in [Threads -> {"none", "ok", "dropped", "panicked",
                                "would_block", "poisoned", "cancelled"}]
    /\ budget \in 0..MaxCalls

Init ==
    /\ kind \in MutexKinds \cup RwLockKinds
    /\ readers = {} /\ writer = NoThread /\ poisoned = FALSE
    /\ left = 0 /\ right = 0 /\ intact = TRUE
    /\ pc = [t \in Threads |-> "idle"]
    /\ call = [t \in Threads |-> "none"]
    /\ seen = [t \in Threads |-> 0]
    /\ view = [t \in Threads |-> NoView]
    /\ outcome = [t \in Threads |-> "none"]
    /\ budget = MaxCalls

-----------------------------------------------------------------------------
(* The backend. A guard is granted beside compatible guards only; dropping *)
(* it gives the lock up.                                                   *)

Admits(c) == writer = NoThread /\ (Shared(c) \/ readers = {})

Grant(t) ==
    IF Shared(call[t])
      THEN readers' = readers \cup {t} /\ UNCHANGED writer
      ELSE writer' = t /\ UNCHANGED readers

DropGuard(t) ==
    /\ readers' = readers \ {t}
    /\ writer' = IF writer = t THEN NoThread ELSE writer

(* A try call fails on a held lock. It may also fail beside a caller that  *)
(* waits its turn: a Tokio lock does not let it pass the queue, and a      *)
(* read-write lock of std or parking_lot not a waiting writer.             *)
Busy(t) ==
    \/ ~Admits(call[t])
    \/ /\ kind \in TokioKinds \cup RwLockKinds
       /\ \E u \in Threads \ {t} : pc[u] = "waiting"

(* The call ends: its locals are gone and its caller learns how it ended.  *)
End(t, how) ==
    /\ pc' = [pc EXCEPT ![t] = "idle"]
    /\ call' = [call EXCEPT ![t] = "none"]
    /\ seen' = [seen EXCEPT ![t] = 0]
    /\ view' = [view EXCEPT ![t] = NoView]
    /\ outcome' = [outcome EXCEPT ![t] = how]
    /\ UNCHANGED budget

Step(t, from, to) == pc[t] = from /\ pc' = [pc EXCEPT ![t] = to]

-----------------------------------------------------------------------------
(* Acquisition.                                                            *)

Call(t, c) ==
    /\ budget > 0
    /\ Step(t, "idle", IF c \in TryCalls THEN "try" ELSE "waiting")
    /\ call' = [call EXCEPT ![t] = c]
    /\ outcome' = [outcome EXCEPT ![t] = "none"]
    /\ budget' = budget - 1
    /\ UNCHANGED <<backend, data, seen, view>>

(* Mutant: into_inner instead of unwrap, as the monitors do.               *)
AcquireRecovers(t) ==
    /\ pc[t] \in {"try", "waiting"}
    /\ Admits(call[t])
    /\ Grant(t)
    /\ pc' = [pc EXCEPT ![t] = "inside"]
    /\ UNCHANGED <<kind, poisoned, data, call, seen, view, outcome, budget>>

(* The backend grants the guard; on a poisoned std lock it comes inside an *)
(* error.                                                                  *)
Acquire(t) ==
    /\ pc[t] \in {"try", "waiting"}
    /\ Admits(call[t])
    /\ Grant(t)
    /\ pc' = [pc EXCEPT ![t] = IF poisoned THEN "refuse" ELSE "inside"]
    /\ UNCHANGED <<kind, poisoned, data, call, seen, view, outcome, budget>>

WouldBlock(t) ==
    /\ pc[t] = "try"
    /\ Busy(t)
    /\ End(t, "would_block")
    /\ UNCHANGED <<backend, data>>

(* Mutant: the error is leaked with the guard inside it.                   *)
RefuseKeepsGuard(t) ==
    /\ pc[t] = "refuse"
    /\ End(t, IF call[t] \in TryCalls THEN "poisoned" ELSE "panicked")
    /\ UNCHANGED <<backend, data>>

(* Mutant: every error of a try call becomes WouldBlock, which is right    *)
(* for Tokio's locks and wrong for those of std.                           *)
RefuseAsBusy(t) ==
    /\ pc[t] = "refuse"
    /\ End(t, IF call[t] \in TryCalls THEN "would_block" ELSE "panicked")
    /\ DropGuard(t)
    /\ UNCHANGED <<kind, poisoned, data>>

(* The adapter turns the poison error into a panic (unwrap) or into        *)
(* TryLockError::Poisoned; the guard inside the error is dropped with it.  *)
Refuse(t) ==
    /\ pc[t] = "refuse"
    /\ End(t, IF call[t] \in TryCalls THEN "poisoned" ELSE "panicked")
    /\ DropGuard(t)
    /\ UNCHANGED <<kind, poisoned, data>>

(* A Tokio lock is handed to a caller in its queue. The permit is that     *)
(* caller's from now on, although its task has not run since.              *)
HandOver(t) ==
    /\ kind \in TokioKinds
    /\ pc[t] = "waiting"
    /\ Admits(call[t])
    /\ Grant(t)
    /\ pc' = [pc EXCEPT ![t] = "granted"]
    /\ UNCHANGED <<kind, poisoned, data, call, seen, view, outcome, budget>>

(* The task is polled and the await returns its guard.                     *)
Resume(t) ==
    /\ Step(t, "granted", "inside")
    /\ UNCHANGED <<backend, data, call, seen, view, outcome, budget>>

(* Mutant: a permit that was handed over is lost with its future.          *)
CancelKeepsGrant(t) ==
    /\ kind \in TokioKinds
    /\ pc[t] \in {"waiting", "granted"}
    /\ End(t, "cancelled")
    /\ UNCHANGED <<backend, data>>

(* The future of a pending acquisition is dropped: it leaves the queue, or *)
(* gives back the permit it was handed and never noticed.                  *)
Cancel(t) ==
    /\ kind \in TokioKinds
    /\ pc[t] \in {"waiting", "granted"}
    /\ End(t, "cancelled")
    /\ DropGuard(t)
    /\ UNCHANGED <<kind, poisoned, data>>

-----------------------------------------------------------------------------
(* Access, by the closure or through the guard.                            *)

ReadLeft(t) ==
    /\ call[t] \in ReadCalls \cup GuardCalls
    /\ Step(t, "inside", "reading")
    /\ seen' = [seen EXCEPT ![t] = left]
    /\ UNCHANGED <<backend, data, call, view, outcome, budget>>

ReadRight(t) ==
    /\ Step(t, "reading", "done")
    /\ view' = [view EXCEPT ![t] = IF right = seen[t] THEN right ELSE Torn]
    /\ UNCHANGED <<backend, data, call, seen, outcome, budget>>

Load(t) ==
    /\ call[t] \notin ReadCalls
    /\ Step(t, "inside", "loaded")
    /\ seen' = [seen EXCEPT ![t] = left]
    /\ UNCHANGED <<backend, data, call, view, outcome, budget>>

WriteLeft(t) ==
    /\ Step(t, "loaded", "half")
    /\ left' = seen[t] + 1
    /\ UNCHANGED <<backend, right, intact, call, seen, view, outcome, budget>>

WriteRight(t) ==
    /\ Step(t, "half", "done")
    /\ right' = seen[t] + 1
    /\ view' = [view EXCEPT ![t] = seen[t] + 1]
    /\ UNCHANGED <<backend, left, intact, call, seen, outcome, budget>>

(* A guard serves several accesses.                                        *)
UseGuardAgain(t) ==
    /\ call[t] \in GuardCalls
    /\ budget > 0
    /\ Step(t, "done", "inside")
    /\ view' = [view EXCEPT ![t] = NoView]
    /\ budget' = budget - 1
    /\ UNCHANGED <<backend, data, call, seen, outcome>>

(* The closure returned, and the adapter's guard is dropped.               *)
Return(t) ==
    /\ pc[t] = "done" /\ call[t] \notin GuardCalls
    /\ End(t, "ok")
    /\ DropGuard(t)
    /\ UNCHANGED <<kind, poisoned, data>>

(* The caller drops its guard, used or not.                                *)
Drop(t) ==
    /\ pc[t] \in {"inside", "done"} /\ call[t] \in GuardCalls
    /\ End(t, "dropped")
    /\ DropGuard(t)
    /\ UNCHANGED <<kind, poisoned, data>>

(* A panic of the closure, or of the holder of a guard, drops the guard.   *)
(* An exclusive guard of std records it, also when it was only read        *)
(* through; a shared one does not.                                         *)
Panic(t) ==
    /\ \/ pc[t] \in {"inside", "reading", "loaded", "half"}
       \/ pc[t] = "done" /\ call[t] \in GuardCalls
    /\ End(t, "panicked")
    /\ DropGuard(t)
    /\ poisoned' = (poisoned \/ (kind \in StdKinds /\ writer = t))
    /\ intact' = (intact /\ pc[t] # "half")
    /\ UNCHANGED <<kind, left, right>>

-----------------------------------------------------------------------------
(* A step of a caller's own: everything but starting a call, going on with *)
(* a guard, cancelling and panicking.                                      *)
Advance(t) ==
    \/ Acquire(t) \/ HandOver(t) \/ Resume(t) \/ WouldBlock(t) \/ Refuse(t)
    \/ ReadLeft(t) \/ ReadRight(t) \/ Load(t) \/ WriteLeft(t) \/ WriteRight(t)
    \/ Return(t) \/ Drop(t)

Next ==
    \E t \in Threads :
       \/ Advance(t)
       \/ \E c \in Calls(kind) : Call(t, c)
       \/ UseGuardAgain(t) \/ Cancel(t) \/ Panic(t)

Spec == Init /\ [][Next]_vars

(* Callers keep running: closures return and guards are dropped. Nothing   *)
(* is assumed of the order in which a backend serves its callers; the      *)
(* bound on calls rules out being overtaken for ever.                      *)
Fairness == \A t \in Threads : WF_vars(Advance(t))

FairSpec == Spec /\ Fairness

-----------------------------------------------------------------------------
(* Properties.                                                             *)

(* A std lock whose value was left half-written by a panic is closed: no   *)
(* closure runs and no guard is handed out on it again (the unwrap of the  *)
(* blocking calls, the Poisoned of the try calls).                         *)
TornValueIsSealed ==
    kind \in StdKinds /\ ~intact =>
       /\ poisoned
       /\ \A t \in Holders : pc[t] = "refuse"

(* Guards follow the calls: whoever was granted the lock, also before its  *)
(* task notices, holds it in the mode of its call, and nobody else does,   *)
(* whatever was refused, cancelled or unwound before.                      *)
GuardsFollowCalls ==
    /\ Holders = {t \in Threads : pc[t] \notin {"idle", "try", "waiting"}}
    /\ \A t \in Holders : (t \in readers) = Shared(call[t])
    /\ writer # NoThread => Holders = {writer}

Contract ==
    INSTANCE LockContract
      WITH poisons <- kind \in StdKinds, value <- right,
           call <- [t \in Threads |->
                      IF pc[t] = "idle" THEN outcome[t] ELSE "active"]

(* Every call behaves as the traits promise: accesses are atomic, updates  *)
(* build on one another, WouldBlock and Poisoned tell the truth, a refused *)
(* or cancelled call has touched nothing.                                  *)
KeepsLockContract == Contract!Spec

(* Every call returns: no path leaves a guard behind that others wait for, *)
(* neither a panic or a refusal nor a future dropped between the hand-over *)
(* of the lock and its next poll.                                          *)
CallsReturn == \A t \in Threads : (pc[t] # "idle") ~> (pc[t] = "idle")

=============================================================================
