---------------------------- MODULE LockContract ----------------------------
(* What a data lock promises its callers, whatever backend it wraps: while *)
(* no write was interrupted half-way, each access happens at one moment on *)
(* one whole value; a poisoning lock lets nobody touch a value that a      *)
(* panic left half-written; a call that is refused has touched nothing.    *)
EXTENDS Integers

CONSTANT Threads

VARIABLES
    poisons,    \* whether the backend records panics, fixed from the start
    poisoned,   \* a panic was recorded
    intact,     \* no write was interrupted half-way
    value,      \* the protected value
    call,       \* "active", or how the thread's last call ended
    view        \* the value the thread's access saw or left, None before it

None == -1

contractVars == <<poisons, poisoned, intact, value, call, view>>

Outcomes == {"none", "ok", "dropped", "panicked", "would_block", "poisoned",
             "cancelled"}

Init ==
    /\ poisons \in BOOLEAN
    /\ poisoned = FALSE
    /\ intact = TRUE
    /\ value = 0
    /\ call = [t \in Threads |-> "none"]
    /\ view = [t \in Threads |-> None]

Call(t) ==
    /\ call[t] # "active"
    /\ call' = [call EXCEPT ![t] = "active"]
    /\ UNCHANGED <<poisons, poisoned, intact, value, view>>

(* An access sees a whole value: the one the last access left.             *)
Read(t) ==
    /\ call[t] = "active" /\ ~poisoned
    /\ view' = [view EXCEPT ![t] = view'[t]]
    /\ intact => view'[t] = value
    /\ UNCHANGED <<poisons, poisoned, intact, value, call>>

(* A write builds on the last one: no update is lost.                      *)
Write(t) ==
    /\ call[t] = "active" /\ ~poisoned
    /\ intact => value' = value + 1
    /\ view' = [view EXCEPT ![t] = value']
    /\ UNCHANGED <<poisons, poisoned, intact, call>>

(* The holder of a guard goes on to another access.                        *)
Reuse(t) ==
    /\ call[t] = "active"
    /\ view' = [view EXCEPT ![t] = None]
    /\ UNCHANGED <<poisons, poisoned, intact, value, call>>

End(t, outcome) ==
    /\ call[t] = "active"
    /\ call' = [call EXCEPT ![t] = outcome]
    /\ view' = [view EXCEPT ![t] = None]

(* A closure that returned has made its access; a guard is dropped after   *)
(* any number of them.                                                     *)
Return(t) ==
    /\ \/ view[t] # None /\ End(t, "ok")
       \/ End(t, "dropped")
    /\ UNCHANGED <<poisons, poisoned, intact, value>>

(* A panic of the caller may leave a half-written value, and then a        *)
(* poisoning lock records it in the same step.                             *)
Panic(t) ==
    /\ ~poisoned
    /\ End(t, "panicked")
    /\ poisoned' => poisons
    /\ ~intact => ~intact'
    /\ intact /\ ~intact' /\ poisons => poisoned'
    /\ UNCHANGED <<poisons, value>>

(* A poisoned lock refuses: a blocking call panics, a try call says so.    *)
Refuse(t) ==
    /\ poisoned /\ view[t] = None
    /\ End(t, "panicked") \/ End(t, "poisoned")
    /\ UNCHANGED <<poisons, poisoned, intact, value>>

(* WouldBlock tells of another call in progress.                           *)
WouldBlock(t) ==
    /\ view[t] = None
    /\ \E u \in Threads \ {t} : call[u] = "active"
    /\ End(t, "would_block")
    /\ UNCHANGED <<poisons, poisoned, intact, value>>

(* A pending future may be dropped; it has touched nothing.                *)
Cancelled(t) ==
    /\ view[t] = None /\ ~poisons
    /\ End(t, "cancelled")
    /\ UNCHANGED <<poisons, poisoned, intact, value>>

Next ==
    \E t \in Threads :
       \/ Call(t) \/ Read(t) \/ Write(t) \/ Reuse(t) \/ Return(t)
       \/ Panic(t) \/ Refuse(t) \/ WouldBlock(t) \/ Cancelled(t)

Spec == Init /\ [][Next]_contractVars

=============================================================================
