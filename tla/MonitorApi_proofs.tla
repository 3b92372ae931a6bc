------------------------- MODULE MonitorApi_proofs --------------------------
(* Proofs about MonitorApi, for every set of callers and values, every     *)
(* predicate, action and timeout.                                          *)
EXTENDS MonitorApi, TLAPS

(* The values with which a caller of the form waits.                       *)
Wanted(form, p) == IF form \in WhileForms THEN p ELSE Not(p)

(* Request r is what the form stands for when it is called at instant at   *)
(* with limit d, predicate p and action a.                                 *)
StandsFor(r, form, d, p, a, at) ==
    /\ r.waits = Wanted(form, p)
    /\ r.action = a
    /\ form \in UntimedForms  => r.kernel = "wait_while"
    /\ form \in RelativeForms => r.kernel = "wait_while_for" /\ r.limit = d
    /\ form \in DeadlineForms =>
          r.kernel = "wait_while_with_deadline" /\ r.limit = d
    /\ form \in TotalForms =>
          /\ r.kernel = "wait_while_with_deadline"
          /\ r.limit = at + d
          /\ at + d <= MaxInstant

(* Whichever way a form is reached, as a method of the monitor, through a  *)
(* trait or as a future, the kernel is asked for what the form says.       *)
LEMMA RequestsStandForForms ==
    ASSUME NEW form \in WaitForms, NEW d \in Limits(form), NEW p \in SUBSET Values,
           NEW a \in [Values -> Values], form \in ReadyForms => a = Unit,
           NEW r \in Requests(form, d, p, a), r # Overflow, now \in 0 .. MaxInstant
    PROVE  StandsFor(r, form, d, p, a, now) /\ r \in Kernels
  <1>0. d \in Instants /\ d \in Nat
      BY TimeAssumption DEF Limits, Instants
  <1> DEFINE K(name, limit, style) ==
               Kernel(name, limit, Wanted(form, p), a, style)
  <1> USE DEF Wanted, WhileForms, ReadyForms
  <1>1. ASSUME form \in UntimedForms
        PROVE  /\ Inherent(d, p, a)[form] = K("wait_while", 0, "blocking")
               /\ Async(d, p, a)[form] = K("wait_while", 0, "future")
      BY <1>1
      DEF UntimedForms, Inherent, WaitWhile, WaitUntil, WaitUntilReady,
          Async, WaitWhileAsync, WaitUntilAsync, WaitUntilReadyAsync
  <1>2. ASSUME form \in RelativeForms
        PROVE  /\ Inherent(d, p, a)[form] = K("wait_while_for", d, "blocking")
               /\ Async(d, p, a)[form] = K("wait_while_for", d, "future")
      BY <1>2
      DEF RelativeForms, Inherent, WaitWhileFor, WaitUntilFor, WaitUntilReadyFor,
          Async, WaitWhileForAsync, WaitUntilForAsync, WaitUntilReadyForAsync
  <1>3. ASSUME form \in DeadlineForms
        PROVE  /\ Inherent(d, p, a)[form] = K("wait_while_with_deadline", d, "blocking")
               /\ Async(d, p, a)[form] = K("wait_while_with_deadline", d, "future")
      BY <1>3
      DEF DeadlineForms, Inherent, WaitWhileWithDeadline, WaitUntilWithDeadline,
          WaitUntilReadyWithDeadline, Async, WaitWhileWithDeadlineAsync,
          WaitUntilWithDeadlineAsync, WaitUntilReadyWithDeadlineAsync
  <1>4. ASSUME form \in TotalForms
        PROVE  Inherent(d, p, a)[form] =
                 IF now + d > MaxInstant
                   THEN Overflow
                   ELSE K("wait_while_with_deadline", now + d, "blocking")
      BY <1>4
      DEF TotalForms, Inherent, WaitWhileWithTotalTimeout,
          WaitUntilWithTotalTimeout, WaitUntilReadyWithTotalTimeout,
          WaitWhileWithDeadline
  <1>5. Trait(d, p, a)[form] = Inherent(d, p, a)[form]
      BY DEF WaitForms, UntimedForms, TimedForms, RelativeForms, DeadlineForms,
          TotalForms, Trait, TraitWaitWhile, TraitWaitUntil, TraitWaitUntilReady,
          TraitWaitWhileFor, TraitWaitUntilFor, TraitWaitUntilReadyFor,
          TraitWaitWhileWithDeadline, TraitWaitUntilWithDeadline,
          TraitWaitUntilReadyWithDeadline, TraitWaitWhileWithTotalTimeout,
          TraitWaitUntilWithTotalTimeout, TraitWaitUntilReadyWithTotalTimeout,
          Inherent, WaitUntil, WaitUntilReady, WaitUntilFor, WaitUntilReadyFor,
          WaitUntilWithDeadline, WaitUntilReadyWithDeadline,
          WaitUntilWithTotalTimeout, WaitUntilReadyWithTotalTimeout
  <1>6. r = Inherent(d, p, a)[form]
          \/ (form \notin TotalForms /\ r = Async(d, p, a)[form])
      BY <1>5 DEF Requests
  <1> HIDE DEF K
  <1>7. PICK style \in Styles :
          /\ form \in UntimedForms  => r = K("wait_while", 0, style)
          /\ form \in RelativeForms => r = K("wait_while_for", d, style)
          /\ form \in DeadlineForms => r = K("wait_while_with_deadline", d, style)
          /\ form \in TotalForms =>
                /\ r = K("wait_while_with_deadline", now + d, style)
                /\ ~ (now + d > MaxInstant)
      BY <1>1, <1>2, <1>3, <1>4, <1>6 DEF Styles
  <1>8. r.waits = Wanted(form, p) /\ r.action = a
      BY <1>7 DEF K, Kernel, WaitForms, TimedForms
  <1>9. StandsFor(r, form, d, p, a, now)
      BY <1>0, <1>7, <1>8, TimeAssumption DEF K, Kernel, StandsFor
  <1>10. Wanted(form, p) \in SUBSET Values
      BY DEF Not
  <1>11. r \in Kernels
    <2>1. PICK name \in {"wait_while", "wait_while_for", "wait_while_with_deadline"},
               limit \in Instants : r = K(name, limit, style)
      <3>1. 0 \in Instants /\ (form \in TotalForms => now + d \in Instants)
          BY <1>0, <1>7, TimeAssumption DEF Instants
      <3> QED
          BY <1>0, <1>7, <3>1 DEF WaitForms, TimedForms
    <2> QED
        BY <1>10, <2>1 DEF K, Kernel, Kernels
  <1> QED
      BY <1>9, <1>11

-----------------------------------------------------------------------------
(* The inductive invariant: the request of a waiting call stands for the   *)
(* form that was called, a caller outside has asked for nothing, and each  *)
(* deadline is the cutoff.                                                 *)

Fits ==
    \A c \in Callers :
        /\ asked[c].form \in WaitForms =>
              StandsFor(request[c], asked[c].form, asked[c].limit, asked[c].pred,
                        asked[c].action, asked[c].at)
        /\ asked[c].form \in WriteForms =>
              request[c].kernel = "with_write" /\ request[c].waits = {}

Inside ==
    \A c \in Callers :
        /\ asked[c].form = "none" <=> phase[c] = "none"
        /\ phase[c] = "notify" => asked[c].form \in WriteForms
        /\ phase[c] \in {"asleep", "woken", "expired", "final"} =>
              asked[c].form \in WaitForms
        /\ phase[c] = "failed" => asked[c].form \in TimedForms /\ TimerFaults

IInv == TypeOK /\ Fits /\ Inside /\ OneCutoff

(* Limits and instants are natural numbers.                                *)
LEMMA InstantsAreNat ==
    /\ Instants \subseteq Nat
    /\ TypeOK => now \in Nat
    /\ TypeOK => \A c \in Callers :
          /\ request[c].limit \in Nat
          /\ asked[c].limit \in Nat
          /\ asked[c].at \in Nat
  <1>1. Instants \subseteq Nat /\ 0 .. MaxInstant \subseteq Nat
      BY TimeAssumption DEF Instants
  <1>2. ASSUME TypeOK
        PROVE  now \in Nat
      BY <1>1, <1>2 DEF TypeOK
  <1>3. ASSUME TypeOK, NEW c \in Callers
        PROVE  /\ request[c].limit \in Nat
               /\ asked[c].limit \in Nat
               /\ asked[c].at \in Nat
    <2>1. request[c] \in Kernels /\ asked[c] \in Asks
        BY <1>3 DEF TypeOK
    <2>2. request[c].limit \in Instants
        BY <2>1 DEF Kernels
    <2>3. asked[c].limit \in Instants /\ asked[c].at \in 0 .. MaxInstant
        BY <2>1 DEF Asks
    <2> QED
        BY <1>1, <2>2, <2>3
  <1> QED
      BY <1>1, <1>2, <1>3

(* The initial states: everybody is outside.                               *)
LEMMA InitIInv == Init => IInv
  <1> SUFFICES ASSUME Init PROVE IInv
      OBVIOUS
  <1> USE ValuesAssumption, TimeAssumption DEF Init
  <1>1. NoCall \in Asks /\ NoCall.form = "none"
      BY DEF NoCall, Asks, Instants, Unit
  <1>2. NoKernel \in Kernels
      BY DEF NoKernel, Kernel, Kernels, Instants, Unit, Styles
  <1>3. TypeOK
      BY <1>1, <1>2 DEF TypeOK, Phases, Results
  <1>4. \A c \in Callers : asked[c].form = "none" /\ phase[c] = "none"
      BY <1>1
  <1>5. "none" \notin WaitForms \cup TimedForms \cup TotalForms \cup WriteForms
      BY DEF WaitForms, UntimedForms, TimedForms, TotalForms, RelativeForms,
             DeadlineForms, WriteForms
  <1>6. Fits /\ Inside /\ OneCutoff
      BY <1>4, <1>5 DEF Fits, Inside, OneCutoff
  <1> QED
      BY <1>3, <1>6 DEF IInv

(* A call made: the request stands for it, and no deadline is set yet.     *)
LEMMA AskKeeps ==
    ASSUME IInv, NEW c \in Callers, phase[c] = "none",
           NEW form \in WaitForms \cup WriteForms, NEW d \in Instants,
           NEW p \in SUBSET Values, NEW a \in [Values -> Values],
           NEW r \in Kernels, Ask(c, form, d, p, a, r),
           form \in WaitForms => StandsFor(r, form, d, p, a, now),
           form \in WriteForms => r.kernel = "with_write" /\ r.waits = {}
    PROVE  IInv'
  <1> USE DEF Ask, Go, IInv
  <1> DEFINE q == [form |-> form, limit |-> d, pred |-> p, action |-> a, at |-> now]
  <1>1. q \in Asks /\ q.form = form /\ q.limit = d /\ q.pred = p
        /\ q.action = a /\ q.at = now
      BY DEF Asks, TypeOK
  <1>2. asked' = [asked EXCEPT ![c] = q]
      OBVIOUS
  <1> HIDE DEF q
  <1>3. TypeOK'
      BY <1>1, <1>2 DEF TypeOK, Phases, Results
  <1>4. /\ asked'[c] = q /\ request'[c] = r /\ phase'[c] = "called"
        /\ \A u \in Callers : u # c => /\ asked'[u] = asked[u]
                                       /\ request'[u] = request[u]
                                       /\ phase'[u] = phase[u]
        /\ entered' = entered /\ deadline' = deadline
      BY <1>2 DEF TypeOK
  <1>5. Fits'
      BY <1>1, <1>4 DEF Fits
  <1>6. form # "none"
      BY DEF WaitForms, UntimedForms, TimedForms, TotalForms, RelativeForms,
             DeadlineForms, WriteForms
  <1>7. Inside'
      BY <1>1, <1>4, <1>6 DEF Inside
  <1>8. form \in TotalForms => Cutoff(c)' <= MaxInstant
    <2>1. form \in TotalForms => now + d <= MaxInstant
        BY DEF StandsFor, WaitForms, TimedForms
    <2>2. form \in TotalForms => Cutoff(c)' = d + now
        BY <1>1, <1>4 DEF Cutoff, TotalForms, RelativeForms, DeadlineForms
    <2>3. d \in Nat /\ now \in Nat
        BY InstantsAreNat
    <2> QED
        BY <2>1, <2>2, <2>3, TimeAssumption
  <1>9. \A u \in Callers : u # c => Cutoff(u)' = Cutoff(u)
      BY <1>4 DEF Cutoff
  <1>10. OneCutoff'
      BY <1>1, <1>4, <1>8, <1>9 DEF OneCutoff
  <1> QED
      BY <1>3, <1>5, <1>7, <1>10

(* A call that ends leaves nothing behind.                                 *)
LEMMA EndKeeps ==
    ASSUME IInv, NEW c \in Callers, NEW r \in Results, End(c, r),
           value' \in Values, owner' \in Callers \cup {NoCaller}
    PROVE  IInv'
  <1> USE DEF End, Go, IInv
  <1>1. NoCall \in Asks /\ NoCall.form = "none"
      BY TimeAssumption DEF NoCall, Asks, Instants, Unit
  <1>2. NoKernel \in Kernels
      BY TimeAssumption DEF NoKernel, Kernel, Kernels, Instants, Unit, Styles
  <1>3. TypeOK'
      BY <1>1, <1>2, TimeAssumption DEF TypeOK, Phases
  <1>4. /\ asked'[c] = NoCall /\ phase'[c] = "none"
        /\ \A u \in Callers : u # c => /\ asked'[u] = asked[u]
                                       /\ request'[u] = request[u]
                                       /\ phase'[u] = phase[u]
                                       /\ entered'[u] = entered[u]
                                       /\ deadline'[u] = deadline[u]
      BY DEF TypeOK
  <1>5. "none" \notin WaitForms \cup TimedForms \cup TotalForms \cup WriteForms
      BY DEF WaitForms, UntimedForms, TimedForms, TotalForms, RelativeForms,
             DeadlineForms, WriteForms
  <1>6. Fits'
      BY <1>1, <1>4, <1>5 DEF Fits
  <1>7. Inside'
      BY <1>1, <1>4 DEF Inside
  <1>8. \A u \in Callers : u # c => Cutoff(u)' = Cutoff(u)
      BY <1>4 DEF Cutoff
  <1>9. OneCutoff'
      BY <1>1, <1>4, <1>5, <1>8 DEF OneCutoff
  <1> QED
      BY <1>3, <1>6, <1>7, <1>9

(* A timed form has a timed request.                                       *)
LEMMA TimedRequest ==
    ASSUME IInv, NEW c \in Callers, asked[c].form \in TimedForms
    PROVE  Timed(c)
  BY DEF IInv, Fits, StandsFor, WaitForms, TimedForms, RelativeForms,
         DeadlineForms, TotalForms, Timed

(* The lock is granted: the deadline becomes the cutoff.                   *)
LEMMA EnterKeeps ==
    ASSUME IInv, NEW c \in Callers, Enter(c)
    PROVE  IInv'
  <1> USE TimeAssumption DEF Enter, Go, IInv
  <1>0. request[c].limit \in Nat /\ asked[c].limit \in Nat /\ asked[c].at \in Nat
      BY InstantsAreNat
  <1>1. TypeOK'
      BY <1>0 DEF TypeOK, Phases
  <1>2. /\ phase'[c] = "held" /\ entered'[c] = now
        /\ deadline'[c] = request[c].limit
             + IF request[c].kernel = "wait_while_for" THEN now ELSE 0
        /\ asked' = asked /\ request' = request
        /\ \A u \in Callers : u # c => /\ phase'[u] = phase[u]
                                       /\ entered'[u] = entered[u]
                                       /\ deadline'[u] = deadline[u]
      BY DEF TypeOK
  <1>3. Fits'
      BY <1>2 DEF Fits
  <1>4. Inside'
      BY <1>2 DEF Inside
  <1>5. asked[c].form \in TimedForms => deadline'[c] = Cutoff(c)'
    <2>1. SUFFICES ASSUME asked[c].form \in TimedForms
                   PROVE  deadline'[c] = Cutoff(c)'
        OBVIOUS
    <2>2. StandsFor(request[c], asked[c].form, asked[c].limit, asked[c].pred,
                    asked[c].action, asked[c].at)
        BY <2>1 DEF Fits, WaitForms
    <2> QED
        BY <1>0, <1>2, <2>1, <2>2
        DEF StandsFor, TimedForms, RelativeForms, DeadlineForms, TotalForms,
            Cutoff, TypeOK
  <1>6. asked[c].form \in TotalForms => Cutoff(c)' <= MaxInstant
      BY <1>2 DEF Cutoff, OneCutoff, TotalForms, RelativeForms
  <1>7. \A u \in Callers : u # c /\ asked[u].form \in TimedForms \cup TotalForms =>
            Cutoff(u)' = Cutoff(u)
      BY <1>2 DEF Cutoff, TimedForms
  <1>8. OneCutoff'
      BY <1>2, <1>5, <1>6, <1>7 DEF OneCutoff, TimedForms
  <1> QED
      BY <1>1, <1>3, <1>4, <1>8

(* A step that moves callers between phases and leaves what they asked     *)
(* for alone.  Nobody falls asleep with a cutoff that the clock cannot     *)
(* show.                                                                   *)
LEMMA MoveKeeps ==
    ASSUME IInv, UNCHANGED <<asked, entered, request, deadline, result>>,
           value' \in Values, owner' \in Callers \cup {NoCaller},
           now' \in 0 .. MaxInstant, phase' \in [Callers -> Phases],
           \A c \in Callers : phase'[c] # phase[c] =>
              /\ phase[c] \notin {"none", "called"}
              /\ phase'[c] \notin {"none", "called"}
              /\ phase'[c] = "notify" => asked[c].form \in WriteForms
              /\ phase'[c] \in {"asleep", "woken", "expired", "final"} =>
                    asked[c].form \in WaitForms
              /\ phase'[c] = "failed" => asked[c].form \in TimedForms /\ TimerFaults
              /\ phase'[c] = "asleep" /\ asked[c].form \in TimedForms =>
                    deadline[c] <= MaxInstant
    PROVE  IInv'
  <1> USE DEF IInv
  <1>1. TypeOK'
      BY DEF TypeOK
  <1>2. Fits'
      BY DEF Fits
  <1>3. Inside'
      BY DEF Inside
  <1>4. \A c \in Callers : Cutoff(c)' = Cutoff(c)
      BY DEF Cutoff
  <1>5. OneCutoff'
      BY <1>4 DEF OneCutoff
  <1> QED
      BY <1>1, <1>2, <1>3, <1>5

(* The action of a call, and of the call's record, maps values to values.  *)
LEMMA ActionsAreTyped ==
    ASSUME TypeOK, NEW c \in Callers
    PROVE  request[c].action[value] \in Values
  <1>1. request[c] \in Kernels /\ value \in Values
      BY DEF TypeOK
  <1>2. request[c].action \in [Values -> Values]
      BY <1>1 DEF Kernels
  <1> QED
      BY <1>1, <1>2

(* Whoever waits in a step with the lock has called a waiting form, and a  *)
(* timed request comes from a timed form.                                  *)
LEMMA HeldForms ==
    ASSUME IInv, NEW c \in Callers, phase[c] # "none"
    PROVE  /\ Waits(c) => asked[c].form \in WaitForms
           /\ Timed(c) => asked[c].form \in TimedForms
  <1>1. asked[c].form \in WaitForms \cup WriteForms
    <2>1. asked[c] \in Asks /\ asked[c].form # "none"
        BY DEF IInv, TypeOK, Inside
    <2> QED
        BY <2>1 DEF Asks
  <1>2. CASE asked[c].form \in WriteForms
      BY <1>2 DEF IInv, Fits, Waits, Timed
  <1>3. CASE asked[c].form \in WaitForms
    <2>1. asked[c].form \in UntimedForms => request[c].kernel = "wait_while"
        BY <1>3 DEF IInv, Fits, StandsFor
    <2> QED
        BY <1>3, <2>1 DEF WaitForms, Timed
  <1> QED
      BY <1>1, <1>2, <1>3

(* Every call preserves the invariant, the one that overflows too.         *)
LEMMA CallKeeps ==
    ASSUME IInv, NEW c \in Callers, CallWait(c) \/ CallWrite(c)
    PROVE  IInv'
  <1>1. CASE CallWait(c)
    <2>1. PICK form \in Forms[c] \cap WaitForms, p \in Predicates :
            \E d \in Limits(form), a \in IF form \in ReadyForms THEN {Unit} ELSE Actions :
            \E r \in Requests(form, d, p, a) :
               IF r = Overflow
                 THEN End(c, "error") /\ UNCHANGED <<value, owner>>
                 ELSE Ask(c, form, d, p, a, r)
        BY <1>1 DEF CallWait
    <2>2. PICK d \in Limits(form), a \in IF form \in ReadyForms THEN {Unit} ELSE Actions :
            \E r \in Requests(form, d, p, a) :
               IF r = Overflow
                 THEN End(c, "error") /\ UNCHANGED <<value, owner>>
                 ELSE Ask(c, form, d, p, a, r)
        BY <2>1
    <2>3. PICK r \in Requests(form, d, p, a) :
            IF r = Overflow
              THEN End(c, "error") /\ UNCHANGED <<value, owner>>
              ELSE Ask(c, form, d, p, a, r)
        BY <2>2
    <2>4. CASE r = Overflow
      <3>1. End(c, "error") /\ value' = value /\ owner' = owner
          BY <2>3, <2>4
      <3>2. "error" \in Results /\ value \in Values /\ owner \in Callers \cup {NoCaller}
          BY DEF IInv, TypeOK, Results
      <3> QED
          BY <3>1, <3>2, EndKeeps
    <2>5. CASE r # Overflow
      <3>1. Ask(c, form, d, p, a, r) /\ phase[c] = "none"
          BY <1>1, <2>3, <2>5 DEF CallWait
      <3>2. /\ p \in SUBSET Values
            /\ a \in [Values -> Values]
            /\ form \in ReadyForms => a = Unit
          BY ValuesAssumption DEF Unit
      <3>3. now \in 0 .. MaxInstant
          BY DEF IInv, TypeOK
      <3>4. StandsFor(r, form, d, p, a, now) /\ r \in Kernels
          BY <2>5, <3>2, <3>3, RequestsStandForForms
      <3>5. d \in Instants
          BY TimeAssumption DEF Limits, Instants
      <3>6. form \notin WriteForms
          BY DEF WaitForms, UntimedForms, TimedForms, TotalForms, RelativeForms,
                 DeadlineForms, WriteForms
      <3> QED
          BY <3>1, <3>2, <3>4, <3>5, <3>6, AskKeeps
    <2> QED
        BY <2>4, <2>5
  <1>2. CASE CallWrite(c)
    <2>1. PICK form \in Forms[c] \cap WriteForms, a \in Writes, style \in Styles :
            Ask(c, form, 0, {}, a, Kernel("with_write", 0, {}, a, style))
        BY <1>2 DEF CallWrite
    <2>2. phase[c] = "none" /\ 0 \in Instants /\ a \in [Values -> Values]
        BY <1>2, TimeAssumption, ValuesAssumption DEF CallWrite, Instants
    <2> DEFINE r == Kernel("with_write", 0, {}, a, style)
    <2>3. r \in Kernels /\ r.kernel = "with_write" /\ r.waits = {}
        BY <2>2 DEF Kernel, Kernels
    <2>4. form \notin WaitForms
        BY DEF WaitForms, UntimedForms, TimedForms, TotalForms, RelativeForms,
               DeadlineForms, WriteForms
    <2>5. Ask(c, form, 0, {}, a, r)
        BY <2>1
    <2> HIDE DEF r
    <2> QED
        BY <2>2, <2>3, <2>4, <2>5, AskKeeps
  <1> QED
      BY <1>1, <1>2

(* A step that returns preserves the invariant.                            *)
LEMMA ReturnKeeps ==
    ASSUME IInv, NEW c \in Callers,
           \/ Cancel(c) \/ Ready(c) \/ TimedOut(c) \/ ArmFails(c)
           \/ FailedReturns(c)
           \/ WithWrite(c) /\ asked[c].form = "with_write"
    PROVE  IInv'
  <1>1. PICK r \in Results : End(c, r)
      BY DEF Results, Cancel, Ready, TimedOut, ArmFails, FailedReturns, WithWrite,
             Return
  <1>2. request[c].action[value] \in Values
      BY ActionsAreTyped DEF IInv
  <1>3. value' \in Values
      BY <1>2 DEF IInv, TypeOK, Cancel, Ready, TimedOut, ArmFails, FailedReturns,
             WithWrite
  <1>4. owner' \in Callers \cup {NoCaller}
      BY DEF IInv, TypeOK, Cancel, Ready, TimedOut, ArmFails, FailedReturns,
             WithWrite, Return
  <1> QED
      BY <1>1, <1>3, <1>4, EndKeeps

(* A step inside a call preserves the invariant.                           *)
LEMMA InsideKeeps ==
    ASSUME IInv, NEW c \in Callers,
           \/ Sleep(c) \/ TimerWakes(c) \/ TimerFails(c) \/ Reenter(c)
           \/ WithWrite(c) /\ asked[c].form # "with_write"
    PROVE  IInv'
  <1>1. PICK step \in Phases \ {"none", "called"} :
          /\ Go(c, step)
          /\ step = "notify" => WithWrite(c)
          /\ step = "asleep" => Sleep(c)
          /\ step = "expired" => TimerWakes(c)
          /\ step = "final" =>
                TimerWakes(c) \/ (Reenter(c) /\ phase[c] = "expired")
          /\ step # "woken"
          /\ step = "failed" => TimerFails(c)
      BY DEF Phases, Sleep, TimerWakes, TimerFails, Reenter, WithWrite
  <1>2. phase[c] \notin {"none", "called"}
      BY DEF Sleep, TimerWakes, TimerFails, Reenter, WithWrite
  <1>3. /\ UNCHANGED <<asked, entered, request, deadline, result, now>>
        /\ owner' \in Callers \cup {NoCaller}
      BY DEF IInv, TypeOK, Sleep, TimerWakes, TimerFails, Reenter, WithWrite
  <1>4. request[c].action[value] \in Values
      BY ActionsAreTyped DEF IInv
  <1>5. value' \in Values /\ now' \in 0 .. MaxInstant
      BY <1>3, <1>4 DEF IInv, TypeOK, Sleep, TimerWakes, TimerFails, Reenter,
                        WithWrite
  <1>6. /\ phase' \in [Callers -> Phases]
        /\ phase'[c] = step
        /\ \A u \in Callers : u # c => phase'[u] = phase[u]
      BY <1>1 DEF IInv, TypeOK, Go
  <1>7. step = "notify" => asked[c].form \in WriteForms
      BY <1>1 DEF WithWrite
  <1>8. step = "asleep" => asked[c].form \in WaitForms
      BY <1>1, <1>2, HeldForms DEF Sleep
  <1>9. step \in {"expired", "final"} => asked[c].form \in WaitForms
      BY <1>1, <1>2, HeldForms DEF TimerWakes, Expired, WaitForms, IInv, Inside
  <1>10. step = "failed" => asked[c].form \in TimedForms /\ TimerFaults
      BY <1>1, <1>2, HeldForms DEF TimerFails
  <1>11. step = "asleep" /\ asked[c].form \in TimedForms => deadline[c] <= MaxInstant
      BY <1>1, TimedRequest DEF Sleep
  <1>12. step \in {"asleep", "woken", "expired", "final"} =>
           asked[c].form \in WaitForms
      BY <1>1, <1>8, <1>9
  <1> QED
      BY <1>2, <1>3, <1>5, <1>6, <1>7, <1>10, <1>11, <1>12, MoveKeeps

(* A notification ends its own call and moves sleepers on.                 *)
LEMMA NotifyKeeps ==
    ASSUME IInv, NEW c \in Callers, Notify(c)
    PROVE  IInv'
  <1> USE DEF Notify, IInv
  <1>1. NoCall \in Asks /\ NoCall.form = "none"
      BY TimeAssumption DEF NoCall, Asks, Instants, Unit
  <1>2. NoKernel \in Kernels
      BY TimeAssumption DEF NoKernel, Kernel, Kernels, Instants, Unit, Styles
  <1>3. /\ phase' \in [Callers -> Phases]
        /\ phase'[c] = "none"
        /\ \A u \in Callers : u # c /\ phase'[u] # phase[u] =>
              phase[u] = "asleep" /\ phase'[u] = "woken"
      BY DEF TypeOK, Phases, Asleep
  <1>4. /\ asked'[c] = NoCall
        /\ \A u \in Callers : u # c => /\ asked'[u] = asked[u]
                                       /\ request'[u] = request[u]
                                       /\ entered'[u] = entered[u]
                                       /\ deadline'[u] = deadline[u]
      BY DEF TypeOK
  <1>5. TypeOK'
      BY <1>1, <1>2, <1>3, TimeAssumption DEF TypeOK, Results
  <1>6. "none" \notin WaitForms \cup TimedForms \cup TotalForms \cup WriteForms
      BY DEF WaitForms, UntimedForms, TimedForms, TotalForms, RelativeForms,
             DeadlineForms, WriteForms
  <1>7. Fits'
      BY <1>1, <1>4, <1>6 DEF Fits
  <1>8. Inside'
      BY <1>1, <1>3, <1>4 DEF Inside
  <1>9. \A u \in Callers : u # c => Cutoff(u)' = Cutoff(u)
      BY <1>4 DEF Cutoff
  <1>10. OneCutoff'
      BY <1>1, <1>3, <1>4, <1>6, <1>9 DEF OneCutoff
  <1> QED
      BY <1>5, <1>7, <1>8, <1>10

(* Every step of the specification preserves the invariant.                *)
LEMMA StepKeeps == IInv /\ [Next]_vars => IInv'
  <1> SUFFICES ASSUME IInv, [Next]_vars PROVE IInv'
      OBVIOUS
  <1>1. CASE UNCHANGED vars
    <2>1. UNCHANGED <<asked, entered, request, deadline, result>>
          /\ value' = value /\ owner' = owner /\ now' = now /\ phase' = phase
        BY <1>1 DEF vars
    <2>2. /\ value \in Values /\ owner \in Callers \cup {NoCaller}
          /\ now \in 0 .. MaxInstant /\ phase \in [Callers -> Phases]
        BY DEF IInv, TypeOK
    <2> QED
        BY <2>1, <2>2, MoveKeeps
  <1>2. CASE Tick
    <2>1. UNCHANGED <<asked, entered, request, deadline, result>>
          /\ value' = value /\ owner' = owner /\ phase' = phase
        BY <1>2 DEF Tick
    <2>2. /\ value \in Values /\ owner \in Callers \cup {NoCaller}
          /\ phase \in [Callers -> Phases]
        BY DEF IInv, TypeOK
    <2>3. now' \in 0 .. MaxInstant
        BY <1>2, TimeAssumption DEF Tick, IInv, TypeOK
    <2> QED
        BY <2>1, <2>2, <2>3, MoveKeeps
  <1>3. ASSUME NEW c \in Callers,
               \/ CallWait(c) \/ CallWrite(c) \/ Cancel(c)
               \/ Enter(c) \/ Reenter(c) \/ Step(c)
               \/ ArmFails(c) \/ TimerWakes(c) \/ TimerFails(c)
        PROVE  IInv'
    <2>1. CASE CallWait(c) \/ CallWrite(c)
        BY <2>1, CallKeeps
    <2>2. CASE Enter(c)
        BY <2>2, EnterKeeps
    <2>3. CASE Notify(c)
        BY <2>3, NotifyKeeps
    <2>4. CASE \/ Cancel(c) \/ Ready(c) \/ TimedOut(c) \/ ArmFails(c)
               \/ FailedReturns(c)
               \/ WithWrite(c) /\ asked[c].form = "with_write"
        BY <2>4, ReturnKeeps
    <2>5. CASE \/ Sleep(c) \/ TimerWakes(c) \/ TimerFails(c) \/ Reenter(c)
               \/ WithWrite(c) /\ asked[c].form # "with_write"
        BY <2>5, InsideKeeps
    <2> QED
        BY <1>3, <2>1, <2>2, <2>3, <2>4, <2>5 DEF Step
  <1> QED
      BY <1>1, <1>2, <1>3 DEF Next

(* The inductive invariant holds in every reachable state.                 *)
THEOREM Invariance == Spec => []IInv
  BY InitIInv, StepKeeps, PTL DEF Spec

(* Every reachable state is well typed: an overflowing total timeout never *)
(* reaches the kernel.                                                     *)
THEOREM ApiTypeCorrect == Spec => []TypeOK
  <1>1. IInv => TypeOK
      BY DEF IInv
  <1> QED
      BY <1>1, Invariance, PTL

(* Every call with a limit has one deadline, the one its form promises.    *)
THEOREM OneCutoffHolds == Spec => []OneCutoff
  <1>1. IInv => OneCutoff
      BY DEF IInv
  <1> QED
      BY <1>1, Invariance, PTL

-----------------------------------------------------------------------------
(* The action property.  A caller returns only by a step of its own.       *)

Returning(c) ==
    \/ Cancel(c) \/ Ready(c) \/ TimedOut(c) \/ ArmFails(c) \/ FailedReturns(c)
    \/ WithWrite(c) \/ Notify(c)

(* Only these steps take a caller out of its call.                         *)
LEMMA OwnStepReturns ==
    ASSUME IInv, Next, NEW c \in Callers, phase[c] # "none", phase'[c] = "none"
    PROVE  Returning(c)
  <1>0. phase \in [Callers -> Phases]
      BY DEF IInv, TypeOK
  <1>1. ~ Tick
      BY DEF Tick
  <1>2. PICK u \in Callers :
          \/ CallWait(u) \/ CallWrite(u) \/ Cancel(u)
          \/ Enter(u) \/ Reenter(u) \/ Step(u)
          \/ ArmFails(u) \/ TimerWakes(u) \/ TimerFails(u)
      BY <1>1 DEF Next
  <1>3. CASE Notify(u)
    <2>1. u = c
        BY <1>3 DEF Notify
    <2> QED
        BY <1>3, <2>1 DEF Returning
  <1>4. CASE ~ Notify(u)
    <2>1. \E step : Go(u, step)
        BY <1>2, <1>4
        DEF Step, CallWait, Ask, CallWrite, Cancel, Enter, Reenter, Ready, TimedOut,
            Sleep, TimerWakes, FailedReturns, WithWrite, ArmFails, TimerFails,
            Return, End
    <2>2. u = c
        BY <1>0, <2>1 DEF Go
    <2>3. ~ (\/ CallWait(c) \/ CallWrite(c) \/ Enter(c) \/ Reenter(c)
             \/ Sleep(c) \/ TimerWakes(c) \/ TimerFails(c))
        BY <1>0
        DEF CallWait, CallWrite, Enter, Reenter, Sleep, TimerWakes, TimerFails, Go
    <2> QED
        BY <1>2, <2>2, <2>3 DEF Returning, Step
  <1> QED
      BY <1>3, <1>4

(* What the kernel was told to wait while is what the caller waits for.    *)
LEMMA WaitsUntilContent ==
    ASSUME IInv, NEW c \in Callers, asked[c].form \in WaitForms
    PROVE  /\ Waits(c) <=> value \notin Content(c)
           /\ request[c].action = asked[c].action
  <1>1. request[c].waits = Wanted(asked[c].form, asked[c].pred)
        /\ request[c].action = asked[c].action
      BY DEF IInv, Fits, StandsFor
  <1>2. asked[c] \in Asks /\ value \in Values
      BY DEF IInv, TypeOK
  <1>3. asked[c].pred \in SUBSET Values
      BY <1>2 DEF Asks
  <1> QED
      BY <1>1, <1>2, <1>3 DEF Waits, Content, Wanted, Not

(* An error of a call that holds the lock.                                 *)
LEMMA ArmFailsTruthfully ==
    ASSUME IInv, NEW c \in Callers, ArmFails(c)
    PROVE  /\ asked[c].form \in TimedForms
           /\ value \notin Content(c)
           /\ asked[c].form \in RelativeForms => asked[c].limit > 0
           /\ TimerFaults \/ Cutoff(c) > MaxInstant
  <1>1. phase[c] = "held" /\ Waits(c) /\ Timed(c)
      BY DEF ArmFails
  <1>2. asked[c].form \in TimedForms
      BY <1>1, HeldForms
  <1>3. asked[c].form \in WaitForms
      BY <1>2 DEF WaitForms
  <1>4. value \notin Content(c)
      BY <1>1, <1>3, WaitsUntilContent
  <1>5. deadline[c] = Cutoff(c)
      BY <1>1, <1>2 DEF IInv, OneCutoff
  <1>6. ASSUME asked[c].form \in RelativeForms
        PROVE  asked[c].limit > 0
    <2>1. request[c].kernel = "wait_while_for" /\ request[c].limit = asked[c].limit
        BY <1>3, <1>6 DEF IInv, Fits, StandsFor
    <2> QED
        BY <2>1 DEF ArmFails
  <1> QED
      BY <1>2, <1>4, <1>5, <1>6 DEF ArmFails

(* Every answer a step gives is true of the call as it was made.           *)
LEMMA StepAnswersTruthfully ==
    ASSUME IInv, Next, NEW c \in Callers
    PROVE  Truthful(c)
  <1> SUFFICES ASSUME phase[c] # "none", phase'[c] = "none"
               PROVE  Truthful(c)
      BY DEF Truthful, Returns
  <1> USE DEF Truthful, Returns
  <1>0. result \in [Callers -> Results]
      BY DEF IInv, TypeOK
  <1>1. CASE Ready(c)
    <2>1. result'[c] = "ready"
        BY <1>0, <1>1 DEF Ready, Return, End
    <2>2. /\ asked[c].form \in WaitForms /\ ~ Waits(c)
          /\ value' = request[c].action[value]
        BY <1>1 DEF Ready
    <2>3. value \in Content(c) /\ value' = asked[c].action[value]
        BY <2>2, WaitsUntilContent
    <2> QED
        BY <2>1, <2>3
  <1>2. CASE TimedOut(c)
    <2>1. result'[c] = "timed_out" /\ UNCHANGED value
        BY <1>0, <1>2 DEF TimedOut, Return, End
    <2>2. /\ phase[c] \in {"held", "final"} /\ Waits(c) /\ Timed(c)
          /\ now >= deadline[c]
        BY <1>2 DEF TimedOut, Expired
    <2>3. asked[c].form \in TimedForms
        BY <2>2, HeldForms
    <2>4. value \notin Content(c)
        BY <2>2, <2>3, WaitsUntilContent DEF WaitForms
    <2>5. deadline[c] = Cutoff(c)
        BY <2>2, <2>3 DEF IInv, OneCutoff
    <2> QED
        BY <2>1, <2>2, <2>3, <2>4, <2>5
  <1>3. CASE ArmFails(c)
    <2>1. result'[c] = "error" /\ UNCHANGED value
        BY <1>0, <1>3 DEF ArmFails, Return, End
    <2> QED
        BY <1>3, <2>1, ArmFailsTruthfully
  <1>4. CASE FailedReturns(c)
    <2>1. result'[c] = "error" /\ UNCHANGED value
        BY <1>0, <1>4 DEF FailedReturns, End
    <2>2. asked[c].form \in TimedForms /\ TimerFaults /\ phase[c] = "failed"
        BY <1>4 DEF FailedReturns, IInv, Inside
    <2> QED
        BY <2>1, <2>2
  <1>5. CASE Cancel(c)
    <2>1. result'[c] = "cancelled" /\ UNCHANGED value
        BY <1>0, <1>5 DEF Cancel, End
    <2> QED
        BY <2>1
  <1>6. CASE WithWrite(c)
    <2>1. Return(c, "written")
        BY <1>6 DEF WithWrite, Go, IInv, TypeOK
    <2>2. result'[c] = "written"
        BY <1>0, <2>1 DEF Return, End
    <2> QED
        BY <2>2
  <1>7. CASE Notify(c)
    <2>1. result'[c] = "written"
        BY <1>0, <1>7 DEF Notify
    <2> QED
        BY <2>1
  <1> QED
      BY <1>1, <1>2, <1>3, <1>4, <1>5, <1>6, <1>7, OwnStepReturns DEF Returning

(* What a call answers is true of the caller's own predicate and limit,    *)
(* for every form, reached in every way.                                   *)
THEOREM AnswersTruthfullyHolds == Spec => AnswersTruthfully
  <1>1. IInv /\ [Next]_vars => [\A c \in Callers : Truthful(c)]_vars
      BY StepAnswersTruthfully
  <1> QED
      BY <1>1, Invariance, PTL DEF Spec, AnswersTruthfully

=============================================================================
