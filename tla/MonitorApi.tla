----------------------------- MODULE MonitorApi -----------------------------
(***************************************************************************)
(* The forms of a waiting call and the traits that offer them.  A caller   *)
(* says wait_until_ready_for; what runs is one of three kernel calls, with *)
(* the predicate negated and an action filled in on the way.  Each form    *)
(* exists as a method of the monitors, as a default method of a trait      *)
(* (reached through Arc too) and, for Tokio, as a future; all of them are  *)
(* here, with the default methods that write and then notify.              *)
(*                                                                         *)
(* A predicate is the set of values it is true of, an action a function on *)
(* the values.  The monitor below the forms is taken at its word: a step   *)
(* with the lock is atomic, a call that must wait registers before it lets *)
(* go of the lock (BlockingMonitor and TokioMonitor show that it does).    *)
(***************************************************************************)
EXTENDS Integers, FiniteSets

CONSTANTS Callers, NoCaller,
          Forms,        \* Forms[c]: the forms caller c uses
          Values, Start,
          Predicates,   \* the predicates that callers pass
          Actions,      \* the actions of waiting calls
          Writes,       \* the closures of writing calls
          Timeouts, MaxInstant,
          TimerFaults   \* the timer may refuse a deadline, or fail later

RelativeForms == {"wait_while_for", "wait_until_for", "wait_until_ready_for"}
TotalForms    == {"wait_while_with_total_timeout",
                  "wait_until_with_total_timeout",
                  "wait_until_ready_with_total_timeout"}
DeadlineForms == {"wait_while_with_deadline", "wait_until_with_deadline",
                  "wait_until_ready_with_deadline"}
UntimedForms  == {"wait_while", "wait_until", "wait_until_ready"}
TimedForms    == RelativeForms \cup TotalForms \cup DeadlineForms
WaitForms     == UntimedForms \cup TimedForms
WhileForms    == {"wait_while", "wait_while_for", "wait_while_with_deadline",
                  "wait_while_with_total_timeout"}
ReadyForms    == {"wait_until_ready", "wait_until_ready_for",
                  "wait_until_ready_with_deadline",
                  "wait_until_ready_with_total_timeout"}
WriteForms    == {"with_write", "with_write_notify_one", "with_write_notify_all"}

ASSUME CallersAssumption ==
    /\ NoCaller \notin Callers
    /\ Forms \in [Callers -> SUBSET (WaitForms \cup WriteForms)]
ASSUME ValuesAssumption ==
    /\ Start \in Values
    /\ Predicates \subseteq SUBSET Values
    /\ Actions \cup Writes \subseteq [Values -> Values]
ASSUME TimeAssumption == Timeouts \subseteq Nat /\ MaxInstant \in Nat
ASSUME FaultsAssumption == TimerFaults \in BOOLEAN

VARIABLES
    value,     \* the protected value
    owner,     \* the caller that holds the state lock
    now,       \* the monotonic clock
    phase,     \* where a caller is in its call
    asked,     \* history: the call as the caller made it
    entered,   \* history: when the call first held the lock
    request,   \* the kernel call that the form came down to
    deadline,  \* the deadline of that kernel call
    result     \* what the caller's latest call returned

vars == <<value, owner, now, phase, asked, entered, request, deadline, result>>

Phases  == {"none", "called", "held", "asleep", "woken", "expired", "final",
            "failed", "notify"}
Styles  == {"blocking", "future"}
Results == {"none", "ready", "timed_out", "error", "written", "cancelled"}

-----------------------------------------------------------------------------
(* The kernel calls.  `waits` is what the kernel is told to wait while.    *)

Unit == [v \in Values |-> v]

Kernel(name, limit, waits, action, style) ==
    [kernel |-> name, limit |-> limit, waits |-> waits, action |-> action,
     style |-> style]

(* deadline_after overflowed: the call is over before it began.            *)
Overflow == Kernel("error", 0, {}, Unit, "blocking")

WaitWhile(p, a) == Kernel("wait_while", 0, p, a, "blocking")

WaitWhileFor(d, p, a) == Kernel("wait_while_for", d, p, a, "blocking")

WaitWhileWithDeadline(t, p, a) ==
    Kernel("wait_while_with_deadline", t, p, a, "blocking")

(* Mutants of WaitWhileWithTotalTimeout: the sum is not checked; the       *)
(* relative wait is taken for it.                                          *)
TotalTimeoutUnchecked(d, p, a) == WaitWhileWithDeadline(now + d, p, a)
TotalTimeoutAsRelative(d, p, a) == WaitWhileFor(d, p, a)

(* The deadline is fixed here, before the lock and the first check.        *)
WaitWhileWithTotalTimeout(d, p, a) ==
    IF now + d > MaxInstant
      THEN Overflow
      ELSE WaitWhileWithDeadline(now + d, p, a)

(* The methods of StdMonitor and ParkingLotMonitor.                        *)

Not(p) == Values \ p

WaitUntil(p, a) == WaitWhile(Not(p), a)

WaitUntilReady(p) == WaitUntil(p, Unit)

(* Mutant of WaitUntilFor: the predicate is passed on as it is.            *)
WaitUntilForNotNegated(d, p, a) == WaitWhileFor(d, p, a)

WaitUntilFor(d, p, a) == WaitWhileFor(d, Not(p), a)

WaitUntilReadyFor(d, p) == WaitUntilFor(d, p, Unit)

WaitUntilWithTotalTimeout(d, p, a) == WaitWhileWithTotalTimeout(d, Not(p), a)

WaitUntilReadyWithTotalTimeout(d, p) == WaitUntilWithTotalTimeout(d, p, Unit)

WaitUntilWithDeadline(t, p, a) == WaitWhileWithDeadline(t, Not(p), a)

WaitUntilReadyWithDeadline(t, p) == WaitUntilWithDeadline(t, p, Unit)

Inherent(d, p, a) ==
    [wait_while                          |-> WaitWhile(p, a),
     wait_until                          |-> WaitUntil(p, a),
     wait_until_ready                    |-> WaitUntilReady(p),
     wait_while_for                      |-> WaitWhileFor(d, p, a),
     wait_until_for                      |-> WaitUntilFor(d, p, a),
     wait_until_ready_for                |-> WaitUntilReadyFor(d, p),
     wait_while_with_deadline            |-> WaitWhileWithDeadline(d, p, a),
     wait_until_with_deadline            |-> WaitUntilWithDeadline(d, p, a),
     wait_until_ready_with_deadline      |-> WaitUntilReadyWithDeadline(d, p),
     wait_while_with_total_timeout       |-> WaitWhileWithTotalTimeout(d, p, a),
     wait_until_with_total_timeout       |-> WaitUntilWithTotalTimeout(d, p, a),
     wait_until_ready_with_total_timeout |->
         WaitUntilReadyWithTotalTimeout(d, p)]

(* The traits ConditionWaiter and TimeoutConditionWaiter.  The while forms *)
(* are required methods: they come from the monitor, through Arc or not.   *)

TraitWaitWhile(p, a) == WaitWhile(p, a)

TraitWaitUntil(p, a) == TraitWaitWhile(Not(p), a)

TraitWaitUntilReady(p) == TraitWaitUntil(p, Unit)

TraitWaitWhileFor(d, p, a) == WaitWhileFor(d, p, a)

TraitWaitUntilFor(d, p, a) == TraitWaitWhileFor(d, Not(p), a)

(* Mutant of TraitWaitUntilReadyFor: the timeout is not passed on.         *)
TraitReadyForUntimed(d, p) == TraitWaitUntilReady(p)

TraitWaitUntilReadyFor(d, p) == TraitWaitUntilFor(d, p, Unit)

TraitWaitWhileWithDeadline(t, p, a) == WaitWhileWithDeadline(t, p, a)

TraitWaitUntilWithDeadline(t, p, a) == TraitWaitWhileWithDeadline(t, Not(p), a)

TraitWaitUntilReadyWithDeadline(t, p) == TraitWaitUntilWithDeadline(t, p, Unit)

TraitWaitWhileWithTotalTimeout(d, p, a) == WaitWhileWithTotalTimeout(d, p, a)

TraitWaitUntilWithTotalTimeout(d, p, a) ==
    TraitWaitWhileWithTotalTimeout(d, Not(p), a)

TraitWaitUntilReadyWithTotalTimeout(d, p) ==
    TraitWaitUntilWithTotalTimeout(d, p, Unit)

Trait(d, p, a) ==
    [wait_while                          |-> TraitWaitWhile(p, a),
     wait_until                          |-> TraitWaitUntil(p, a),
     wait_until_ready                    |-> TraitWaitUntilReady(p),
     wait_while_for                      |-> TraitWaitWhileFor(d, p, a),
     wait_until_for                      |-> TraitWaitUntilFor(d, p, a),
     wait_until_ready_for                |-> TraitWaitUntilReadyFor(d, p),
     wait_while_with_deadline            |->
         TraitWaitWhileWithDeadline(d, p, a),
     wait_until_with_deadline            |->
         TraitWaitUntilWithDeadline(d, p, a),
     wait_until_ready_with_deadline      |->
         TraitWaitUntilReadyWithDeadline(d, p),
     wait_while_with_total_timeout       |->
         TraitWaitWhileWithTotalTimeout(d, p, a),
     wait_until_with_total_timeout       |->
         TraitWaitUntilWithTotalTimeout(d, p, a),
     wait_until_ready_with_total_timeout |->
         TraitWaitUntilReadyWithTotalTimeout(d, p)]

(* The futures of TokioMonitor.  They have no total timeout, and do        *)
(* nothing until they are polled.                                          *)

WaitWhileAsync(p, a) == Kernel("wait_while", 0, p, a, "future")

WaitUntilAsync(p, a) == WaitWhileAsync(Not(p), a)

WaitUntilReadyAsync(p) == WaitUntilAsync(p, Unit)

WaitWhileForAsync(d, p, a) == Kernel("wait_while_for", d, p, a, "future")

WaitUntilForAsync(d, p, a) == WaitWhileForAsync(d, Not(p), a)

WaitUntilReadyForAsync(d, p) == WaitUntilForAsync(d, p, Unit)

WaitWhileWithDeadlineAsync(t, p, a) ==
    Kernel("wait_while_with_deadline", t, p, a, "future")

WaitUntilWithDeadlineAsync(t, p, a) == WaitWhileWithDeadlineAsync(t, Not(p), a)

WaitUntilReadyWithDeadlineAsync(t, p) == WaitUntilWithDeadlineAsync(t, p, Unit)

Async(d, p, a) ==
    [wait_while                     |-> WaitWhileAsync(p, a),
     wait_until                     |-> WaitUntilAsync(p, a),
     wait_until_ready               |-> WaitUntilReadyAsync(p),
     wait_while_for                 |-> WaitWhileForAsync(d, p, a),
     wait_until_for                 |-> WaitUntilForAsync(d, p, a),
     wait_until_ready_for           |-> WaitUntilReadyForAsync(d, p),
     wait_while_with_deadline       |-> WaitWhileWithDeadlineAsync(d, p, a),
     wait_until_with_deadline       |-> WaitUntilWithDeadlineAsync(d, p, a),
     wait_until_ready_with_deadline |-> WaitUntilReadyWithDeadlineAsync(d, p)]

(* What a caller may have run for the call it wrote.                       *)
Requests(form, d, p, a) ==
    {Inherent(d, p, a)[form], Trait(d, p, a)[form]}
      \cup (IF form \in TotalForms THEN {} ELSE {Async(d, p, a)[form]})

-----------------------------------------------------------------------------
(* Calls.                                                                  *)

NoCall   == [form |-> "none", limit |-> 0, pred |-> {}, action |-> Unit,
             at |-> 0]
NoKernel == Kernel("none", 0, {}, Unit, "blocking")

(* The limit a form is given: nothing, a duration, or an instant.          *)
Limits(form) ==
    IF form \in UntimedForms THEN {0}
    ELSE IF form \in DeadlineForms THEN 0 .. MaxInstant
    ELSE Timeouts

Instants == Timeouts \cup 0 .. MaxInstant

Asks ==
    [form : WaitForms \cup WriteForms \cup {"none"}, limit : Instants,
     pred : SUBSET Values, action : [Values -> Values], at : 0 .. MaxInstant]

Kernels ==
    [kernel : {"none", "wait_while", "wait_while_for",
               "wait_while_with_deadline", "with_write"},
     limit : Instants, waits : SUBSET Values, action : [Values -> Values],
     style : Styles]

TypeOK ==
    /\ value \in Values
    /\ owner \in Callers \cup {NoCaller}
    /\ now \in 0 .. MaxInstant
    /\ phase \in [Callers -> Phases]
    /\ asked \in [Callers -> Asks]
    /\ entered \in [Callers -> 0 .. MaxInstant]
    /\ request \in [Callers -> Kernels]
    /\ deadline \in [Callers -> Nat]
    /\ result \in [Callers -> Results]

Init ==
    /\ value = Start
    /\ owner = NoCaller
    /\ now = 0
    /\ phase = [c \in Callers |-> "none"]
    /\ asked = [c \in Callers |-> NoCall]
    /\ entered = [c \in Callers |-> 0]
    /\ request = [c \in Callers |-> NoKernel]
    /\ deadline = [c \in Callers |-> 0]
    /\ result = [c \in Callers |-> "none"]

Go(c, step) == phase' = [phase EXCEPT ![c] = step]

(* The call returns r, or is dropped.                                      *)
End(c, r) ==
    /\ Go(c, "none")
    /\ asked' = [asked EXCEPT ![c] = NoCall]
    /\ entered' = [entered EXCEPT ![c] = 0]
    /\ request' = [request EXCEPT ![c] = NoKernel]
    /\ deadline' = [deadline EXCEPT ![c] = 0]
    /\ result' = [result EXCEPT ![c] = r]
    /\ UNCHANGED now

(* The guard is dropped and the call returns r.                            *)
Return(c, r) == owner' = NoCaller /\ End(c, r)

Ask(c, form, d, p, a, r) ==
    /\ Go(c, "called")
    /\ asked' = [asked EXCEPT ![c] = [form |-> form, limit |-> d, pred |-> p,
                                      action |-> a, at |-> now]]
    /\ request' = [request EXCEPT ![c] = r]
    /\ result' = [result EXCEPT ![c] = "none"]
    /\ UNCHANGED <<value, owner, now, entered, deadline>>

CallWait(c) ==
    /\ phase[c] = "none"
    /\ \E form \in Forms[c] \cap WaitForms, p \in Predicates :
       \E d \in Limits(form), a \in IF form \in ReadyForms THEN {Unit} ELSE Actions :
       \E r \in Requests(form, d, p, a) :
          IF r = Overflow
            THEN End(c, "error") /\ UNCHANGED <<value, owner>>
            ELSE Ask(c, form, d, p, a, r)

CallWrite(c) ==
    /\ phase[c] = "none"
    /\ \E form \in Forms[c] \cap WriteForms, a \in Writes, style \in Styles :
          Ask(c, form, 0, {}, a, Kernel("with_write", 0, {}, a, style))

-----------------------------------------------------------------------------
(* The monitor.                                                            *)

Timed(c)   == request[c].kernel \in {"wait_while_for", "wait_while_with_deadline"}
Expired(c) == Timed(c) /\ now >= deadline[c]
Waits(c)   == value \in request[c].waits

(* The lock is granted; a relative budget starts now.                      *)
Enter(c) ==
    /\ phase[c] = "called" /\ owner = NoCaller
    /\ owner' = c
    /\ Go(c, "held")
    /\ entered' = [entered EXCEPT ![c] = now]
    /\ deadline' = [deadline EXCEPT ![c] =
          request[c].limit + IF request[c].kernel = "wait_while_for" THEN now ELSE 0]
    /\ UNCHANGED <<value, now, asked, request, result>>

Ready(c) ==
    /\ phase[c] \in {"held", "final"} /\ asked[c].form \in WaitForms
    /\ ~ Waits(c)
    /\ value' = request[c].action[value]
    /\ Return(c, "ready")

(* The predicate still waits when the deadline has come; a zero timeout is *)
(* over at the first check.                                                *)
TimedOut(c) ==
    /\ phase[c] \in {"held", "final"} /\ Waits(c) /\ Expired(c)
    /\ Return(c, "timed_out")
    /\ UNCHANGED value

(* The deadline overflows, or the timer refuses it or has failed.          *)
ArmFails(c) ==
    /\ phase[c] = "held" /\ Waits(c) /\ Timed(c)
    /\ request[c].kernel = "wait_while_for" => request[c].limit > 0
    /\ deadline[c] > MaxInstant \/ TimerFaults
    /\ Return(c, "error")
    /\ UNCHANGED value

(* The call registers and lets go of the lock, also when its deadline has  *)
(* come and the timer has yet to report it.  A zero timeout has no timer.  *)
Sleep(c) ==
    /\ phase[c] = "held" /\ Waits(c)
    /\ request[c].kernel = "wait_while_for" => request[c].limit > 0
    /\ Timed(c) => deadline[c] <= MaxInstant
    /\ owner' = NoCaller
    /\ Go(c, "asleep")
    /\ UNCHANGED <<value, now, asked, entered, request, deadline, result>>

(* The timer reports the deadline: to a call that sleeps, that is on its   *)
(* way back to the lock, or that finds out before it would let go of it.   *)
TimerWakes(c) ==
    /\ phase[c] \in {"held", "asleep", "woken"} /\ Expired(c)
    /\ Go(c, IF phase[c] = "held" THEN "final" ELSE "expired")
    /\ UNCHANGED <<value, owner, now, asked, entered, request, deadline, result>>

TimerFails(c) ==
    /\ TimerFaults /\ Timed(c)
    /\ phase[c] \in {"asleep", "woken"}
    /\ Go(c, "failed")
    /\ UNCHANGED <<value, owner, now, asked, entered, request, deadline, result>>

(* A woken call takes the lock again and looks at its predicate, for the   *)
(* last time when its timer has reported the deadline.                     *)
Reenter(c) ==
    /\ phase[c] \in {"woken", "expired"} /\ owner = NoCaller
    /\ owner' = c
    /\ Go(c, IF phase[c] = "expired" THEN "final" ELSE "held")
    /\ UNCHANGED <<value, now, asked, entered, request, deadline, result>>

(* A timer error returns once the lock is back, without a check.           *)
FailedReturns(c) ==
    /\ phase[c] = "failed" /\ owner = NoCaller
    /\ End(c, "error")
    /\ UNCHANGED <<value, owner>>

(* Mutant of WithWrite: the notification is left out.                      *)
WithWriteOnly(c) ==
    /\ phase[c] = "held" /\ asked[c].form \in WriteForms
    /\ value' = request[c].action[value]
    /\ Return(c, "written")

(* with_write; the default methods notify after it, without the lock.      *)
WithWrite(c) ==
    /\ phase[c] = "held" /\ asked[c].form \in WriteForms
    /\ value' = request[c].action[value]
    /\ IF asked[c].form = "with_write"
         THEN Return(c, "written")
         ELSE /\ owner' = NoCaller
              /\ Go(c, "notify")
              /\ UNCHANGED <<now, asked, entered, request, deadline, result>>

Asleep == {c \in Callers : phase[c] = "asleep"}

(* notify_one and notify_all take sleeping calls out of the registry.      *)
Notify(c) ==
    /\ phase[c] = "notify"
    /\ \E woken \in SUBSET Asleep :
          /\ IF asked[c].form = "with_write_notify_all"
               THEN woken = Asleep
               ELSE Cardinality(woken) = IF Asleep = {} THEN 0 ELSE 1
          /\ phase' = [x \in Callers |->
                          IF x = c THEN "none"
                          ELSE IF x \in woken THEN "woken" ELSE phase[x]]
    /\ asked' = [asked EXCEPT ![c] = NoCall]
    /\ entered' = [entered EXCEPT ![c] = 0]
    /\ request' = [request EXCEPT ![c] = NoKernel]
    /\ deadline' = [deadline EXCEPT ![c] = 0]
    /\ result' = [result EXCEPT ![c] = "written"]
    /\ UNCHANGED <<value, owner, now>>

(* A future is dropped while it is pending.                                *)
Cancel(c) ==
    /\ request[c].style = "future"
    /\ phase[c] \in {"called", "asleep", "woken", "expired", "failed"}
    /\ End(c, "cancelled")
    /\ UNCHANGED <<value, owner>>

Tick ==
    /\ now < MaxInstant
    /\ now' = now + 1
    /\ UNCHANGED <<value, owner, phase, asked, entered, request, deadline, result>>

Step(c) ==
    \/ Ready(c) \/ TimedOut(c) \/ Sleep(c)
    \/ FailedReturns(c) \/ WithWrite(c) \/ Notify(c)

Next ==
    \/ Tick
    \/ \E c \in Callers :
          \/ CallWait(c) \/ CallWrite(c) \/ Cancel(c)
          \/ Enter(c) \/ Reenter(c) \/ Step(c)
          \/ ArmFails(c) \/ TimerWakes(c) \/ TimerFails(c)

Spec == Init /\ [][Next]_vars

(* Threads and tasks run, the clock advances, the timer reports a deadline *)
(* that has come, and nobody is passed over for ever at the lock.          *)
FairSpec ==
    /\ Spec
    /\ WF_vars(Tick)
    /\ \A c \in Callers :
          /\ WF_vars(Step(c) \/ ArmFails(c))
          /\ WF_vars(TimerWakes(c))
          /\ SF_vars(Enter(c) \/ Reenter(c))

-----------------------------------------------------------------------------
(* What the caller was promised, in terms of the call it wrote.            *)

(* The values with which the caller is content.                            *)
Content(c) ==
    IF asked[c].form \in WhileForms THEN Not(asked[c].pred) ELSE asked[c].pred

(* The one instant a form with a limit promises to wait for.               *)
Cutoff(c) ==
    asked[c].limit + CASE asked[c].form \in RelativeForms -> entered[c]
                       [] asked[c].form \in TotalForms    -> asked[c].at
                       [] asked[c].form \in DeadlineForms -> 0

Returns(c, r) == phase[c] # "none" /\ phase'[c] = "none" /\ result'[c] = r

(* What a step that ends the call of c may answer.                         *)
Truthful(c) ==
    /\ Returns(c, "ready") =>
          /\ value \in Content(c)
          /\ value' = asked[c].action[value]
    /\ Returns(c, "timed_out") =>
          /\ asked[c].form \in TimedForms
          /\ now >= Cutoff(c)
          /\ value \notin Content(c)
          /\ UNCHANGED value
    /\ Returns(c, "error") =>
          /\ asked[c].form \in TimedForms
          /\ \/ TimerFaults /\ phase[c] = "failed"
             \/ /\ value \notin Content(c)
                /\ asked[c].form \in RelativeForms => asked[c].limit > 0
                /\ TimerFaults \/ Cutoff(c) > MaxInstant
          /\ UNCHANGED value
    /\ Returns(c, "cancelled") => UNCHANGED value

(* Every result tells the truth about the caller's own predicate: Ready    *)
(* only on a value it is content with, which the action then changes (and  *)
(* a ready form does not); TimedOut only on one it is not content with,    *)
(* at or after its cutoff; an error only if the timer failed while the     *)
(* call waited, or the call has to wait, for more than a zero timeout, and *)
(* its cutoff is out of range or refused.  TimedOut, error and             *)
(* cancellation touch nothing.                                             *)
AnswersTruthfully == [][\A c \in Callers : Truthful(c)]_vars

(* A call with a limit has one deadline from its first check to its last:  *)
(* lock contention counts for a total timeout and not for a relative one,  *)
(* wakeups do not move it, and nobody sleeps towards an instant that the   *)
(* clock cannot show.                                                      *)
OneCutoff ==
    \A c \in Callers :
        /\ asked[c].form \in TimedForms /\ phase[c] \notin {"none", "called"} =>
              deadline[c] = Cutoff(c)
        /\ asked[c].form \in TotalForms => Cutoff(c) <= MaxInstant
        /\ asked[c].form \in TimedForms /\ phase[c] = "asleep" =>
              Cutoff(c) <= MaxInstant

(* No caller stays in a call for ever while the value is one it is content *)
(* with: writers who notify everybody reach every form, whatever its       *)
(* predicate.                                                              *)
ContentCallersReturn ==
    \A c \in Callers :
        []<>(asked[c].form \notin WaitForms \/ value \notin Content(c))

(* A call with a limit ends.                                               *)
LimitedCallsReturn ==
    \A c \in Callers :
        asked[c].form \in TimedForms ~> asked[c].form \notin TimedForms

=============================================================================
