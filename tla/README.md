# Qubit Lock in TLA+

A specification, model-checking and proof development for `qubit-lock`, a Rust
crate of lock capability traits and condition monitors. It is about the part
of the crate whose correctness is a matter of concurrency: the monitors, their
waiter registry and their race between notifications, timers, panics and
cancellation, the many forms in which a waiting call is offered, a client that
puts two conditions on one monitor, and the lock adapters with poisoning,
`try_` calls and dropped acquisitions. Paths below are relative to the repository (`src/monitor/...`).

## The system

| Component | State | Operations | Modelled by |
|---|---|---|---|
| `WaiterRegistry` | `next_waiter_id: u64`, ordered map of waiters | `register`, `take_one`, `take_all`, `unregister` | `WaiterRegistry`, `RegistryQueue` |
| `BlockingWaiterRegistry`, `BlockingWaiterRegistration`, `BlockingConditionWaiter` | the registry behind its own mutex; one latch (`signalled`) per registration | `register`, drop, `notify_one`, `notify_all`, `wait`, `signal` (as a `Waker`) | `BlockingMonitor` |
| wait algorithm (`blocking_monitor_guard_wait`, `blocking_condition_wait`) | a guard slot and a timer future per call | `wait_for_notification`, `wait_with_timer`, `wait_while_locked`, `wait_while_for`, `wait_while_with_deadline` | `BlockingMonitor` |
| `StdMonitor`, `StdMonitorGuard` | std mutex (with poison marker), registry, timer | `lock`, `with_*`, `wait_*`, `notify_*`, `clear_poison`; on a guard `wait`, `wait_for`, `wait_until`, `notify_*` | `BlockingMonitor` with `Poisoning = TRUE` |
| `ParkingLotMonitor` and its guard | parking_lot mutex, registry, timer | the same without poison | `BlockingMonitor` with `Poisoning = FALSE` |
| `TokioMonitor` | Tokio mutex, registry behind a std mutex, timer | the `*_async` calls, `notify_*`; dropping a pending call | `TokioMonitor` |
| monitor traits and result types | none | twelve waiting forms, as methods, trait defaults (through `Arc` too) and futures; the default write-and-notify methods | `MonitorApi` (what each form comes down to), `MonitorContract` (what a call promises) |
| lock capability traits (`DataLock`, `Lock`, `ReadWriteLock`, async variants) | a wrapped mutex or read-write lock of std, parking_lot or Tokio | `with_read`, `with_write`, `lock`, `read`, `write`, their `try_` forms; dropping a guard or a pending acquisition | `DataLock`, `LockContract` |
| `examples/bounded_queue.rs` | a client with two conditions on one monitor | `push`, `pop`, `pop_for`, `close` | `BoundedQueue`, `ClosableQueue` |

How they interact: a waiting call holds the state mutex, checks the predicate,
enters a fresh waiter into the registry, gives up the mutex and sleeps on its
own latch. A notifier takes waiters out of the registry under the registry's
mutex and sets their latches after it has let go of it. The timer is given the
same latch as a `Waker`. The woken call leaves the registry, takes the mutex
again and checks the predicate. No two of these share a lock for longer than
one of the steps of the models.

What is hard about it, and what a test hardly reaches, is listed under
`hazards` in `PROJECT.json`, each at its line with the properties that would
catch it: a notification between the predicate check and the registration; a
woken but still registered waiter that swallows the notification of another; a
timer that completes between its two polls; the stale waker a final poll
leaves behind; timeouts and errors that race a selection; the gap between
selection and signal; panics with the guard held; exhausted identifiers; a
Tokio call dropped after it was selected, or when the mutex was just handed to
it; a value left half-written by a panic; the guard inside a poison error; a
form that negates its predicate or drops its limit on one of its ways down; a
notification that wakes the wrong kind of waiter; a queue closed beside
sleeping producers and consumers.

## The modules

**`WaiterRegistry`** is the registry as the set of its keys (each entry is a
fresh waiter, so key and waiter are one). `MaxWaiterId` stands for `u64::MAX`,
the identifier `checked_add` never lets out. It is extended by both monitors.

**`FifoWaiters`** is the queue a monitor expects; **`RegistryQueue`** drives the
registry alone and refines it (`IsFifo`). The queue is the map's keys in
increasing order, `InOrder`, which gives the i-th place to the key with i keys
up to and including itself.

**`BlockingMonitor`** is one thread's call as a sequence of steps `pc[t]`, cut
wherever another thread can get in between:

    idle -> lock -> held -> [poll_deadline] -> [poll_noop] -> register
         -> [poll_waker] -> release -> wait -> unregister -> relock
         -> [poll_final] -> check -> idle, or back to register / poll_noop
    idle -> notify -> signal* -> idle

Steps in brackets are taken by timed calls only. The steps of
`wait_with_timer` are, in its order: `PollNoop`, `RegisterWaiter`,
`PollWaker`, `ReleaseGuard`, `LatchWait`, `UnregisterWaiter`, `Reacquire`,
`PollFinal`. A future found complete at `PollWaker` drops the registration
with the guard still held (`unregister` with `owner = t`). The other variables
are the mutex owner and its poison marker, the latches (`signalled`), the
waiters a notifier has taken and not yet woken (`wakes`), and for each thread
its registration, timer future and that future's latest waker.

**`TokioMonitor`** is the same for a task. It differs where the code does: the
mutex is a first-come-first-served queue that hands itself over (`contenders`),
a suspended call polls its deadline before its signal in two separate steps
(`PollTimer`, `PollSignal`), only a call woken by its signal polls the deadline
again, there is no poison, and a pending call may be dropped at `lock`, `wait`
and `relock` (`CancelLock`, `CancelWait`).

**`MonitorContract`** has no lock, registry, latch or timer: each call takes
effect in one step, and its result tells the truth about that step. Ready
means there was an item and it was taken; TimedOut means there was none and
the one deadline of the call had passed; errors, timeouts and cancellation
change nothing; poison is set by panics alone and cleared by `clear_poison`
alone; a write that has run is not cancelled before its notification. Both
monitors refine it (`KeepsContract`) with `phase` read off `pc`.

**`DataLock`** is one lock and its callers. The variable `kind` is the backend,
chosen at the start among the six (std, parking_lot, Tokio; mutex or
read-write lock). What the adapters decide is in `Shared` (which mode a call
takes; a mutex serves reads exclusively), `WouldBlock` and `Refuse` (what
becomes of a busy or poisoned backend: `unwrap` panics, a try call returns
`Poisoned`, and the guard inside the error is held until then). Granting,
dropping and poisoning are the backends' own and external. A blocking call
that is granted the lock is inside (`Acquire`). A lock of Tokio is handed to a
waiting call (`HandOver`) before its task is polled (`Resume`), and the future
may be dropped in between: the permit goes with it (`Cancel`). A try call may
be told `WouldBlock` by a held lock and, where a backend does not let it pass
those who wait (Tokio's queue, a waiting writer), beside a waiting call
(`Busy`). The protected value
is a pair of halves written one after the other, so that overlap and
interruption can be seen. A guard serves any number of accesses; a closure one.

**`LockContract`** is what the traits promise: each access takes effect at one
moment on a whole value, a write builds on the one before, `WouldBlock` means
that another call is in progress, refused and cancelled calls touch nothing,
and a poisoning lock records the panic that tears its value. `DataLock` refines
it (`KeepsLockContract`); the contract's value is the half written last.

**`MonitorApi`** is what lies between a caller and the monitors. Each waiting
form is an operator named after the method (`WaitUntilReadyFor`,
`TraitWaitUntilReadyFor`, `WaitUntilReadyForAsync`) that forwards as the method
does, to one of the three kernel calls `wait_while`, `wait_while_for` and
`wait_while_with_deadline`; `Inherent`, `Trait` and `Async` are the three tables
of forms, and a caller may take any of them. A predicate is the set of values
it is true of and an action a function on values, so that the operators compute
real negations and `|_| ()`. Around them is a monitor as its clients see it: a
lock, sleeping calls, a timer, the clock, `with_write` and the notification
after it, cancellation of futures. The timer reports a deadline at any time
after it has come: to a call that sleeps, that was woken and is on its way to the
lock, or that holds it and finds out before it lets go (`TimerWakes`); a call that
knows checks its predicate once more with the lock and returns. `asked` and `entered` are history: the call
as its caller wrote it, and when it first held the lock. The properties speak
of these and never of the kernel request, which is what they check.

**`BoundedQueue`** is the example program: `push`, `pop`, `pop_for` and `close`,
each one monitor call and, after an effect, `notify_all` as a step of its own.
**`ClosableQueue`** is what its callers may count on: a bounded FIFO queue with
`close`, where each call takes effect in one step. `BoundedQueue` refines it
(`IsClosableQueue`); the mapping is the identity, with `pc`, the timers and the
history variable `entered` hidden.

**`MCBlockingMonitor`**, **`MCTokioMonitor`**, **`MCMonitorApi`** and
**`MCBoundedQueue`** hold the call mixes of the runs (`RegistryQueue` and
`DataLock` are run as they are); **`RegistryQueue_proofs`**,
**`BlockingMonitor_proofs`**, **`NoLostWakeup_proofs`**,
**`TokioMonitor_proofs`**, **`DataLock_proofs`**, **`MonitorApi_proofs`** and
**`BoundedQueue_proofs`** hold the theorems. **`WaiterRegistry_proofs`** holds
the lemmas that several of them share: there is an oldest waiter, how the
cardinality of a set of threads moves when one comes or goes, what `RemoveAt`
leaves of a queue.

### What is abstracted

- The protected state is a number of items. The predicate of a waiting call
  waits while there is none and its action takes one; writers add or remove
  items. A closure that adds items notifies as the user guide asks for: one
  item at most with `notify_one`, any number with `notify_all`. A closure that
  panics may have changed the state before (`LeftByPanic`): the action of a
  waiting call may have taken its item, a write or a client of `lock` removed
  some, and a notifying write or such a client added some.
- `BlockingMonitor` and `TokioMonitor` have the `wait_while*` calls only; what
  `wait_until*`, `wait_until_ready*` and the trait methods make of them is in
  `MonitorApi`.
- `MonitorApi` and `BoundedQueue` take the monitor at its word: a step with the
  lock, up to the registration and the release, is atomic, and a notification
  reaches registered calls. That the monitors earn this is what `NoLostWakeup`,
  `SelectionReachesWaiter` and `KeepsContract` say. Panics and poison are left to
  the modules below. `MonitorApi` has a clock and a timer that may be late,
  `BoundedQueue` a timer that fires or fails at any time.
- In `MonitorApi` a deadline is an instant of the clock (`MonotonicInstant` has
  no others), a timeout any number; `MaxInstant` is the last instant, beyond
  which `deadline_after` and `checked_add` overflow.
- In `BoundedQueue` each item is pushed at most once, so that a lost or a
  duplicated one can be told.
- The latch's mutex and condition variable are its flag: `wait` loops on the
  flag, so spurious wakeups do not show.
- Timer, clock, Tokio's mutex, `Notify` and task wakeups are external. A timer
  future completes at or after its deadline, or fails, and then wakes the
  latest waker it was polled with.
- A backend may grant a lock to any caller it is compatible with; the order in
  which the backends serve readers and writers is left open. A caller makes
  one call at a time. `Mutex::clear_poison` of std, which no trait offers, is
  left out.
- `forfeited` and `chosen` are history variables. `forfeited` counts the items
  whose wakeup the documentation says may be discarded: the selected call
  ended with a timer error, panicked, was cancelled, or its client dropped the
  guard without looking; or the closure that added the item panicked before its
  notification. `NoLostWakeup` exempts exactly these.

The definitions named after a bug (`SuspendWithGuard`, `TakeLatest`, ...), each
just above the one it is a variant of, are not part of the specification. They
are plausible mistakes that the properties are known to catch; `PROJECT.json`
pairs each property of each run with one.

## The properties

| Property | Says |
|---|---|
| `GuardSlot`, `LockSlot` | the guard slot is occupied exactly while the thread owns the mutex; nobody parks, returns, unwinds or is cancelled with it; with Tokio's queue, whoever asks for the mutex is its owner or queued, once |
| `EligibleWaiters` | each registered waiter belongs to one call that is about to sleep, asleep, or about to drop its registration, so that no notification is spent on anybody who has returned or is back at the lock |
| `SelectionReachesWaiter` | a waiter taken from the registry has its latch set or is on a notifier's list |
| `TimerReachesWaiter` | a thread that gives up the lock with a timer will be woken by it |
| `NoLostWakeup` | while a waiter is registered, each available item has a thread of its own on the way to it, or its wakeup was given up as documented |
| `KeepsContract` | every step is one of `MonitorContract` or a stutter |
| `IsFifo`, `ServedOnce` | the registry is a FIFO queue; nobody is served twice |
| `TimedWaitReturns` | a call with a timeout or deadline ends |
| `ItemsAreTaken` | an item does not stay beside a registered waiter for ever |
| `TornValueIsSealed` | no closure and no guard reaches a value that a panic left half-written in a std lock |
| `GuardsFollowCalls` | the calls past acquisition or handed the lock, and no others, hold it, each in its mode: a refused or cancelled call leaves no guard behind |
| `KeepsLockContract` | every step of `DataLock` is one of `LockContract` or a stutter |
| `CallsReturn` | every call on a lock returns |
| `OneCutoff` | a call with a limit has one deadline, the one its form promises: counted from the call for a total timeout, from the lock for a relative one, given for a deadline; wakeups do not move it |
| `AnswersTruthfully` | Ready, TimedOut, an error and cancellation are true of the predicate, the action and the limit that the caller wrote |
| `ContentCallersReturn` | nobody stays in a call for ever beside a value it is content with |
| `LimitedCallsReturn` | every form with a limit ends |
| `NobodySleepsReady` | beside a sleeping thread whose condition holds somebody is about to notify everybody |
| `EndIsFinal` | a queue that is closed and empty stays so and accepts nothing |
| `IsClosableQueue` | every step of `BoundedQueue` is one of `ClosableQueue` or a stutter |
| `ReadyCallsReturn` | nobody stays in a queue operation for ever while its condition holds, which after `close` it does |
| `TimedPopReturns` | `pop_for` returns |

## The runs

| Run | What is in it | Bounds |
|---|---|---|
| `registry` | all operations in any order | 7 identifiers, so that gaps and exhaustion occur |
| `blocking_untimed` | two waiters, one of them also as a guard client, and a producer with every write and `notify_one`; std mutex | 2 items, 3 registrations |
| `blocking_timed` | `wait_while_for` (zero timeout too), total timeout, deadline, `notify_all`; parking_lot mutex | clock 0..1, 1 item, 3 registrations |
| `blocking_faults` | panics, exhausted identifiers, failing timers, poison and its clearing, guard waits | clock 0..1, 1 item, 2 registrations |
| `blocking_live` | a timed and an untimed waiter and a producer, under fairness | 4 registrations |
| `tokio_cancel` | waiters with and without timeout that may be dropped anywhere, every write and notify call | clock 0..1, 2 items, 3 registrations |
| `tokio_faults` | deadlines, failing timers, panics and cancellation | clock 0..1, 1 item, 2 registrations |
| `tokio_live` | as `blocking_live`, with cancellation | 3 registrations |
| `locks` | every call on each of the six backends, panics, cancellation, under fairness | 3 callers, 3 calls or further accesses in all |
| `api_safety` | a caller with every form, reached in every way, and a writer with every write call; the timer may refuse and fail | 2 values, 2 opposite predicates, timeouts 0..2, clock 0..2 |
| `api_live` | a caller with `wait_until`, one with `wait_until_ready_for` and `wait_while_with_total_timeout`, each with either predicate, beside `with_write_notify_all`, under fairness | 2 values, timeout 1, clock 0..1 |
| `queue` | a producer, two consumers with `pop` and one with `pop_for`, a closer, under fairness | 2 places, 3 items |

Three threads are enough for two waiters to compete for one notification and
for a woken waiter to be overtaken. Two items let two notifications be on the
way at once. The registration bound is the identifier space itself: a call
that finds it exhausted panics, as the code does, so that the bound is a case
of the model and not a cut. A clock of two instants has a deadline that is
already over, one still to come and one out of range. Deadlock is checked in
every run but `locks`; the callers there stop when their calls are used up, and
`CallsReturn` is what excludes it. Three calls reach a panic between two stores
and two refused calls that overlap; the theorems about `DataLock` hold for any
number.

Two values and the two opposite predicates are all that negation can confuse;
timeouts up to the clock's end contain the zero timeout, one that ends in time
and sums out of range. The queue has more items than places, so that its
producer sleeps. With two places order shows, it takes two consumers to empty a
full queue, and the third can fall asleep before they have told the producer:
sleepers of both kinds, and a notification that has a wrong one to go to. More
producers are in the theorems.

**Fairness.** Threads and the executor are scheduled, the clock and the timer
advance, closures and guard clients finish: weak fairness of those steps.
Taking a blocking mutex has strong fairness; parking_lot documents eventual
fairness, and for the std mutex this is an assumption about the platform.
Tokio's mutex needs none: its queue is in the model. `MonitorApi` assumes the
same strong fairness of its lock, and of its timer only that it reports a
deadline eventually. In `blocking_live` the identifiers run out after four
registrations, so that `TimedWaitReturns` there is about calls that never wake;
that a wakeup does not restart the timeout is for `KeepsContract` to say. In `BoundedQueue` a check with the lock is one
step that the lock never disables, and weak fairness of a thread's steps says
that it gets its turn; timers fire under weak fairness. The clock of `api_live`
runs to its last instant, where all deadlines are over. Starting a call,
panicking, failing and cancelling are never fair. `locks` assumes nothing
of the order in which a lock serves its callers: the bound on calls is what
keeps a caller from being overtaken for ever, so that the run is about guards
left behind and not about starvation, which std does not exclude.

## The proofs

Every safety property of every run is a theorem. The theorems use only the
assumptions on the constants that the modules state: the sets of threads and
tasks are finite, and the constants have their types. An inductive invariant of
a monitor was checked by TLC on the safety runs before it was proved.

### The registry

`RegistryQueue_proofs` proves for every number of identifiers
`RegistryTypeCorrect`, `ServedOnceHolds` and `IsFifoHolds`, the refinement
`Spec => IsFifo`. `Lists(q, S)` says that `q` enumerates `S` in increasing order.
`OneListing` shows that a set has one listing, the one `InOrder` computes: the
key at place i has exactly the i keys at places 1 to i up to itself, so that its
rank is i. That every map reached has a listing needs no induction over sets,
since it is part of the inductive invariant `QueueInv`: a registration appends
to it (`ListingAppend`; the new identifier is above all the others because the
counter is), `take_one` removes its head (`OldestIsHead`), `unregister` some
place of it (`ListingRemove`), `take_all` leaves it empty. These lemmas are the
refinement too. The rest of `QueueInv` keeps the identifiers registered or
served below the counter, from which nobody is served twice.

### The blocking monitors

`BlockingMonitor_proofs` and `NoLostWakeup_proofs` prove for every finite set of
threads, every mix of calls, every set of timeouts, every bound on items, clock
and identifiers, with and without poison, panics and timer faults:

- `TypeCorrect`: `Spec => []TypeOK`;
- `GuardSlotHolds`, `EligibleWaitersHold`, `SelectionReachesWaiterHolds`,
  `TimerReachesWaiterHolds`: the invariants of the same names;
- `NoLostWakeupHolds`: `Spec => []NoLostWakeup`;
- `KeepsContractHolds`: `Spec => KeepsContract`, the refinement of
  `MonitorContract`.

Hardly any of them is inductive alone. The inductive invariant is `IInv`:
`TypeOK`, `GuardSlot`, `SelectionReachesWaiter`, `TimerReachesWaiter`,
`NoLostWakeup`, and

- `Bookkeeping`: a thread has a registration exactly at the steps between
  `register` and the drop, identifiers in use are smaller than the counter and
  distinct, only a thread at `signal` has waiters to wake, a chosen thread is
  on its way back from a wait;
- `StillBlocked`: between the predicate check that decides to wait and the
  release of the guard there are no items;
- `CallState`: which calls can be at which step, and that neither a fired timer
  nor a status of "timed out" is ahead of the call's deadline.

`StillBlocked` is why registration before release matters: at the moment a
waiter appears in the registry there is nothing it could miss. From there
`NoLostWakeup` is a count. A step may add one item if it adds a notifier
(`notify_one`), or any number if the notifier takes everybody; `Select` turns
a notifier into a selected thread (`SelectOne`: distinct identifiers have
distinct owners); dropping the registration turns it into a chosen one; a
chosen thread leaves the count only with an item, with none left, or by
forfeiting. `CoverStep` reduces every step but `Select` to the statement
`Covers` about how the sets and counters move, and `EveryStepCovers` goes
through the actions.

For the refinement, `ContractStep` shows each step to be one of the contract or
`Silent`, that is, to change nothing a caller sees. `CallState` and
`StillBlocked` are what makes TimedOut true: the one deadline is over, and the
value was looked at (or could not have changed since it was).

### The Tokio monitor

`TokioMonitor_proofs` proves for every finite set of tasks and every mix of
calls, timeouts and bounds, with cancellation at every await point, panics and
timer faults: `TypeCorrect`, `LockSlotHolds`, `EligibleWaitersHold`,
`NoLostWakeupHolds` and `KeepsContractHolds`. The invariant `IInv` of
`TokioMonitor` is the one above, with `LockSlot` in the place of `GuardSlot`.
`LockSlot` has to speak of the mutex's queue: that a task asking for the mutex
is the owner or queued, and that nobody is queued twice, is what keeps a hand-over
from going to a task that was dropped. It is kept because dropping a
contender takes its one place out of the queue (`RemoveAtFacts`) and dropping
one to whom the mutex was handed hands it on.

A step changes the local variables of its own task alone (`FrameStep`), which
brings most of the proof down to one task: `OwnCallState`, the accounts of a
step's registration (`Books`) and of its way to the items (`Balances`). The
count is that of the blocking monitors; cancellation of a selected call is one
more way to forfeit.

### The locks, the forms of waiting calls, the queue

`DataLock_proofs` proves for every set of callers and every number of calls, on
each backend: `LockTypeCorrect`, `TornValueIsSealedHolds`,
`GuardsFollowCallsHold`, and `KeepsLockContractHolds`, the refinement
`Spec => KeepsLockContract`. Its inductive invariant adds to these properties
that no access runs beside a write (`StableViews`, which is the backends' own
exclusion once every call has its mode), that only calls that may write start to (`CallsFit`), that the halves agree
unless a write is or was interrupted between them (`HalvesAgree`), that
everyone granted a poisoned lock is being refused and nobody else
(`PoisonRefuses`, `RefusedByPoison`), and that views belong to finished accesses
(`ViewsTaken`). Exclusion does the work: a writer between its stores is the only
holder, so that its panic leaves none behind and poisons in the same step.
It assumes that `NoThread` is no caller and that the bound on calls is a
number. TLC checked this invariant too before it was proved.

`MonitorApi_proofs` proves for every set of callers, values, predicates, actions
and timeouts, with and without timer faults: `ApiTypeCorrect`, `OneCutoffHolds`
and `AnswersTruthfullyHolds`. The heart is the lemma `RequestsStandForForms`:
whatever way a form is reached, the kernel request has the form's limit, waits
for the values the form waits for, and carries the caller's action. The
inductive invariant adds to `TypeOK` and `OneCutoff` that the request of a call
stands for the form that was called (`Fits`) and which forms can be at which
phase (`Inside`): only waiting forms sleep, and only a timed one can meet a timer
that failed. `AnswersTruthfully` follows step by step from it
(`StepAnswersTruthfully`), since a caller returns by a step of its own alone
(`OwnStepReturns`). It uses the assumptions on the constants of `MonitorApi`.

`BoundedQueue_proofs` proves for every set of threads and items and every
capacity: `QueueTypeCorrect`, `NobodySleepsReadyHolds`, `EndIsFinalHolds` and
`IsClosableQueueHolds`, the refinement. `NobodySleepsReady` is inductive with the
types and with `Bookkeeping` (where a thread can be in which operation, and that
an operation has an outcome exactly after its effect): a thread falls asleep
only when its condition does not hold, a condition comes to hold only by a step
whose thread goes on to notify, and that notification leaves nobody asleep.

### Only model-checked

The liveness properties: `TimedWaitReturns`, `ItemsAreTaken`, `CallsReturn`,
`ContentCallersReturn`, `LimitedCallsReturn`, `ReadyCallsReturn` and
`TimedPopReturns`. Fairness and `ENABLED` are out of the prover's reach.

## Plan

Done: the registry, the blocking monitors, the Tokio monitor, the lock adapters,
the forms of waiting calls and the bounded queue, each with its abstract
specification where it has one, checked, and with all of its safety proved.

Left: where the same lemma is proved for threads and for tasks (the frame of a
step, the phases of a call), one statement over both; a composition of
`MonitorApi` with a monitor in place of the monitor it takes at its word.

## Not modelled

The default timer (a process-wide `OnceLock` over an external thread timer),
the loom adapters (they wrap the registry and the monitor for the repository's
own tests), `examples/clone_test.rs` (a straight-line demonstration of sharing
through `Arc`), the conversions `From`, `Default` and `Debug`, the accessors of
the result types, the marker traits `SharedMonitor`, `SharedAsyncMonitor` and
`TimedMonitor`, which have no methods, and the `Arc` and reference forwarding of
the lock traits, which keeps no state.

## Running

    tlc -config MCBlockingMonitor_untimed.cfg MCBlockingMonitor
    tlapm WaiterRegistry_proofs.tla
    tlapm RegistryQueue_proofs.tla
    tlapm BlockingMonitor_proofs.tla
    tlapm NoLostWakeup_proofs.tla
    tlapm TokioMonitor_proofs.tla
    tlapm DataLock_proofs.tla
    tlapm MonitorApi_proofs.tla
    tlapm BoundedQueue_proofs.tla
