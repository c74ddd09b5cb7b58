# homerun2-k8s-pitcher: specification

homerun2-k8s-pitcher watches a Kubernetes cluster and *pitches* messages about
it to a Redis stream, to an omni-pitcher over HTTP, or to a file. This
directory holds TLA+ models of the parts of it that are hard to test: what
reaches the target when goroutines, timers, limits and failures interleave.
Paths below are relative to the repository.

## Inventory

| Component | State | Operations | Interacts with |
|---|---|---|---|
| throttle (`internal/throttle`) | `seen` (per cooldown key: last pass, repeats), `windowEnd`, `sent`, `suppressed`, all under `p.mu` | `Pitch` (`closeWindow`, `admit`, two sends), `Flush`, `Run` | called by every source, from many goroutines; sends to the next pitcher after the unlock |
| condition tracker (`internal/informer/conditions.go`) | per object `reported`, `current`, `failingSince`, one timer with a sequence number; `closed`; under `t.mu`, which also covers pitching | `update`, `schedule`, `fire`, `forget`, `close` | called by the informer's handlers; timers call `fire` in goroutines of their own; pitches through the throttle |
| informer manager (`internal/informer/informer.go`) | the trackers | `handlerFor` (add, update, delete handlers), `updateEvent`, `eventPasses`, `pitch`, `cooldownKey`, `Start` | client-go's informers deliver one event at a time per informer, with the old and the new object |
| collector (`internal/collector`) | a ticker per spec | `Start`, `run`, `collect` | lists through the API server, pitches each item |
| Flux webhook (`internal/webhook`) | none | `handleFlux`, `verifySignature` | Flux posts events and retries after an error; each request pitches |
| pitchers and messages (`internal/pitcher`) | HTTP client; a lock on the file | `toMessage`, `Pitch`, `HealthCheck` of three pitchers | the target: one message after the other per goroutine, each given up after a timeout |
| profile (`internal/profile`) | none | `Load`, `validate`, `applyDefaults`, `SystemFor`, namespaces | gives every other component its parameters |
| lifecycle (`main.go`) | `ctx` | startup wait, secrets, start of the sources, shutdown | starts and cancels everything |
| kubernetes client (`internal/kube`), configuration (`internal/config`) | none | `NewClient`, `ResolveSecret`; `LoadStartupTimeout` | steps of `main` that may fail |
| summaries, banner, build functions (`dagger/`) | none | | formatting, CI |

### What is hard

* Every source pitches through the one throttle, which decides under its lock
  and sends after it: decisions and sends of different calls interleave, and a
  send may fail after the decision took effect.
* A window of the rate limit can be closed by a call or by the flusher, and a
  window without further events only by the flusher.
* Forgetting keys, cooldowns and repeat counts hang together over time.
* A condition's failure is pitched by a timer that races with recoveries,
  other conditions of the object, deletes, re-creations and shutdown; between
  the expiry of a timer and its goroutine getting the lock anything may happen.
* What was recorded as reported is not always what reached the target (the
  throttle may drop it, the target may fail, or take a request after its sender
  has given it up).
* The tracker holds `t.mu` while it pitches: a target that hangs keeps the
  informer's handler, the timers and `close` waiting.
* Collectors are slowed by a slow target and drop ticks; Flux retries; a
  shutdown may cut off whatever is in flight; nothing survives a restart.

`PROJECT.json` lists these as hazards, each at its line.

### What makes each component correct

* throttle: a drop by the cooldown follows a recent pass of its key; a drop by
  the rate limit silences nothing; repeat counts and suppressed counts are
  exact; no span as long as a window holds more than twice the limit; what was
  suppressed is announced, and what is old is forgotten, without further events.
* condition tracker: a failure is pitched once it has lasted `minDuration`, not
  before, once, and never without a timer that will do it; a recovery follows a
  pitched failure; nothing is pitched for a deleted object or after `close`.
* informer manager: no add of the initial list unless asked for; a flip is
  pitched once; keys group the repeats of one problem and nothing else, also
  across the informers that share the throttle; a severity is the documented one.
* collector: one failing item or list does not stop the others; a slow target
  delays snapshots but does not pile them up.
* webhook: an event that is accepted has gone out; it is pitched twice only if
  Flux could not know that it was out.
* lifecycle: exit code 0 exactly for a shutdown; no source starts before the
  target is ready.
* messages and profile: total, deterministic mappings; every profile `validate`
  accepts satisfies what the components assume.

## Modules

| Module | Models |
|---|---|
| `Throttle` | `internal/throttle/throttle.go`, with the flusher and the cancellation of `main.go` |
| `ThrottleProofs` | proofs about `Throttle` |
| `MCThrottle` | small instances of it |
| `Filter` | what the throttle promises: quiet problems, a budget, a count of drops; no clock and no windows |
| `LastingFailures` | what the README promises of `minDuration`: deadlines, without timers |
| `ConditionTracker` | `internal/informer/conditions.go`, with the handlers that call it |
| `MCConditionTracker` | small instances of it |
| `ConditionTrackerProofs` | proofs about `ConditionTracker`, the step simulation of `LastingFailures` included |
| `Pipeline` | from the watch to the target's reader: `ConditionTracker` with its lock, `Filter`, the pitchers, a target that hangs, restarts |
| `MCPipeline` | small instances of it |
| `PipelineProofs` | proofs about `Pipeline`, from those about the tracker |
| `Profile` | `internal/profile`: `validate`, `applyDefaults`, the namespaces; what `main` makes of a profile |
| `Message` | what an event becomes on its way to a message: severities, what it is about and what happened, the parts of an Event that name its problem (`internal/pitcher`, `flipEvent`) |
| `Informer` | `internal/informer/informer.go`: the handlers of one informer, over `Profile` and `Message` |
| `MCInformer` | profiles and object versions for it |
| `Manager` | two informers (instances of `Informer`) that share the throttle's keys |
| `MCManager` | two informers for kinds of one name |
| `InformerProofs` | proofs about `Informer`, `Profile` and `Message` |
| `Collector` | `internal/collector/collector.go` |
| `Webhook` | `internal/webhook/webhook.go`, with Flux |
| `Lifecycle` | `main.go`, with the collectors and the webhook in its process |
| `MCLifecycle` | small instances of it |
| `WebhookProofs` | proofs about `Webhook` as part of `Lifecycle` |
| `LifecycleProofs` | proofs about `Lifecycle` and `Collector` |

`Collector` and `Webhook` have no specification of their own: their actions say
nothing of `main`'s variables, and `Lifecycle` conjoins them with its frame. The
process starts them, cancels `ctx`, and cuts them off when it ends.

Every definition that models code is mapped to its lines in `PROJECT.json`. A
definition whose comment starts with "Fault:" belongs to no specification: it is
a plausible mistake in the definition after it, and each property is known to
catch one of these.

### Throttle

The variables `seen`, `windowEnd`, `sent` and `suppressed` are the fields of
`Pitcher`; `clock` is `p.now()`. `Pitch(c, k)` is the locked part of a call by
goroutine `c` with an event of key `k`: `closeWindow` (`Purged`, `SentNow`,
`SuppressedNow`, `CloseWindow`), then one outcome of `admit` (`Repeat`,
`Suppress`, `Pass`). `calls[c]` is what the call still has to send; `SendSummary`
and `SendEvent` are the sends after the unlock, and a send may fail. `Flush` is
the same for the flusher, `TickerFires` the ticker with its buffer of one,
`RunReturns` the end of `Run`. The clock may advance between any two of these.
`lastPass`, `missed`, `dropped`, `told`, `passes`, `arrived` and `pitches` are
history; `arrived` is the latest pass that `p.next` took, for a caller that passed
earlier may send later. A Go map with an entry or none is a function with `Absent`.

Abstracted: keys are model values, durations small numbers, the texts of the
summary and of the `Repeats` line are their numbers.

`Filter` is the abstract specification. A step of `Filter` is a whole decision:
`Admit` drops an event of a quiet problem (`Repeat`), drops one for the budget
(`Suppress`), or passes it, and hands the caller the count of drops if it does.
`Pause` is time: it may end quiet spells and renew the budget, nothing else may.
The mapping of `Throttle`: a problem is quiet if its last pass is less than the
cooldown ago, `left` is what `Max - sent` leaves unless the window is over,
`untold` is `suppressed`, and `out` is what `calls` and the flusher still have to
send. The steps in which `closeWindow` forgets keys and windows, the ticker and
the failure of a send are stutters or `Pause`.

### ConditionTracker and LastingFailures

`objects` is `t.objects`; an object state has the fields of `objectState`, with
`timer` telling whether `st.timer` is set (`obj` is the version in `store`, which
`update` has just stored). `armed` are timers that run, `fired` those that have
expired and whose `fire` has not got `t.mu` yet: stopping removes a timer from
`armed` only. `Add`, `Update` and `Delete` are the informer's handlers, `Expire`
and `Fire` the timers, `Close` is `close`. Since `t.mu` also covers pitching,
each is one step, and `pitch` is what that step pitched. `lives` numbers the
allocations of `objectState`, so that timers of different states of one key stay
distinct although their sequence numbers do not. `minDuration` is the spec's,
chosen in `Init` and never changed; it may be 0. `badSince` and `told` are history.

Abstracted: an object version is its two watched conditions; whether an update
changes the generation is a free choice; titles and severities are left out. The
API server admits only the statuses True, False and Unknown. The adds, updates and
deletes of one key are delivered in the order of its life, as client-go does.

`LastingFailures` has the start of each unreported failure and the last reported
status, no timers and no goroutines. `ConditionTracker` implements it under the
mapping of its `INSTANCE` (fields of `objectState`, or their empty values when the
key has none): `ImplementsLastingFailures` for the steps, and
`ReportsLastingFailures` with its fairness: a failure that is overdue and not
over is reported.

### Pipeline

`Pipeline` extends `ConditionTracker` and puts its steps and the throttle's
decision about what they pitch into one step (`OnUpdate`, `OnFire`), for the
tracker holds `t.mu` until `Pitch` returns. `mu` says which goroutine still holds
it to send: every other step of the tracker waits for it (`Pitching`), and
`Released` gives it back after the last send. A delete is pitched after `forget`
has released the lock (`OnDelete`), so it may be under way beside the timer's
message; the informer's goroutine then delivers nothing else. The throttle is an
instance of `Filter`, which `ThrottleProofs` shows to be sound: what holds of
`Filter` holds of `Throttle`.

`SendMessage` is `Pitch` of the mode's pitcher, with one of three outcomes: the
target takes the message; it does not; or the sender gives up (`requestTimeout`,
the timeouts of go-redis) or dies, and the target may still take the request, at
any later time (`late`, `ArriveLate`). In file mode there is no such request, and
no target that hangs. `Restart` may come at any point: the state of the process
is gone, requests under way may still be taken, and the informer lists the
objects again. `reader` is what a reader of the target knows of each condition,
by the messages in the order the target took them; `fate` tells what became of
the last flip. `ReaderCurrent` speaks of a condition whose last message has
arrived in time: one that the throttle dropped, the target refused, or took after
its sender had given it up leaves the reader with an older state, and nobody
promises otherwise.

Abstracted: other sources, whose events could spend the budget (`OnPause` and a
budget of one make the throttle drop as often); the flusher, whose summary says
nothing of a condition; more than one informer, each having a tracker and a lock
of its own.

### Informer, Profile and Message

`Init` takes any spec of a profile, valid or not, through `Loaded`: `validate`
first, then `applyDefaults`, as `Load` does. `AddFunc`, `Update` and `Delete` are
the handlers of `handlerFor`; `UpdateMessages` is `updateEvent`, `EventPasses` is
`eventPasses`, `Message` and `CooldownKey` what `pitch` makes of an event. `pitch`
is what the last handler call pitched. The tracker, if there is one
(`HasTracker`), is kept as the set of keys it holds; what it pitches is
`ConditionTracker`'s.

client-go is external. It delivers the objects of the initial list as adds marked
as such, one event at a time, with updates and deletes possibly before the rest of
that list. After a lost watch it lists again: an update may skip versions, repeat
one, or join an object with its successor of the same name, and a delete may bring
a tombstone with an old state. So a new version is any.

`Subject` is the object a message is about, with its API group; `Happened` is the
flips or an Event's reason. `CooldownKey` is what the code's string keeps of them:
kind, namespace and name, and what happened, without the group. The parts are
joined with `|`, which occurs in none but the last, so a string stands for one
tuple.

`Manager` has two informers (`First`, `Second`), each an instance of `Informer` with
variables of its own. What they share is the throttle, so `problems` records the
key of every message that reaches it, with the problem the message is about.
A key that two problems have makes the throttle drop one of them as a repeat.

Abstracted: lists of a spec are sets; titles, tags and the rest of a message are
wording. `Watched` is the namespace the informer was started with, `NamespaceOf`
an object's. `view`, `inventory` and `problems` are history.

### Lifecycle, Collector and Webhook

`phase` is where `main` is. `LoadProfile` to `GoWebhook` are its steps up to the
start of the sources, `BeginStop` and `Return` the end. A signal cancels `ctx`
between `NotifyContext` and `stop()` (`Caught`) and ends the process elsewhere.
What `main` takes of the profile is `loaded`, set by `LoadProfile` if the profile
of the file is valid: which sources to start, whether the target's credentials
are in a secret, and the intervals of all tickers. `Init` chooses the file, the
environment's mode and the startup budget from sets with invalid members, and a
restart reads the same again. `ReadBudget` ends the process for a budget that is
not a positive duration. `ResolveSecrets` leaves open whether the target takes
what was resolved (`rejected`): Redis is shown the password by the startup wait,
omni-pitcher's `/ready` and `/health` are asked without the token, so `Healthy`
looks at `rejected` for Redis only.
`CheckSucceeds` and `WaitFails` are the outcomes of `WaitForReady` (external),
`ExitIfNotReady` what `main` makes of them. `ShutdownWebhook` and
`CloseInformers` are the goroutines that wait for `ctx`. `Exit` is any end of the
process; it ends every goroutine, ticker, request and connection where it is.
`Crash` may come at any time, and `Restart` begins anew with nothing remembered.

A collector's goroutine is at `pc[s]`: `Run` (unknown kinds return), `List`,
`PitchItem`, `CollectReturns` and `Select`, one step each, with a ticker that
holds one tick. A list returns any set of items or fails; it fails under a
cancelled `ctx`. Failures of one item are logged and change nothing, so
`PitchItem` does not tell them from success.

A request is `received`, `pitching`, and then `pitched` or `failed`: `Check` is
`handleFlux` up to the pitch, `Pitch` the call, `Reply` the answer. The call may
deliver or not and return an error or not, in any combination: an error after the
delivery is a timeout, no delivery without an error is a drop by the throttle.
Flux (external) posts, waits for some time, and posts again after an error, a
bounded number of times; a handler does not notice that Flux gave up. Requests of
several attempts of one event may be under way together. `delivered`, `dropped`
and `unanswered` are history.

Abstracted: how a secret or a kubeconfig is looked up beyond its success, what a
snapshot or a Flux message says, HMAC and JSON beyond accepting or refusing. The
informers' part in the process is their start and the close of their trackers.
The throttle's flusher and its end are in `Throttle`.

## Runs

| Run | Instance | Shows |
|---|---|---|
| `throttle` | 2 callers, 1 key and events without one, cooldown 2, limit 1 per 3, ticker 2, 7 ticks, 4 pitches, fair | types, exact memories, accounts, sliding bound, cooldown spacing; every step is one of `Filter`; summaries and forgetting without further events |
| `throttle_failed_pitch` | cooldown only | *violated*: a failed pitch starts a cooldown |
| `throttle_lost_count` | cooldown only | *violated*: the count of repeats is forgotten |
| `tracker_pair` | 2 conditions with 3 values each, `minDuration` 2, 6 ticks, 4 events, fair | no lost timer, no early failure, the promise with liveness |
| `tracker_one` | 1 condition with 7 values, with and without `minDuration`, 6 events | what is reported is what was pitched; every step is promised |
| `informer` | 94 specs, valid or not, 2 keys in 2 namespaces, 5 versions of a claim or 4 of an Event, 5 handler calls | filters and namespaces in force, nothing tracked that is gone, quiet inventory, flips complete, severities |
| `lifecycle` | valid and invalid profiles: a collector with the webhook and an informer (http), two collectors, one of an unknown kind, with a secret (Redis), two at work without a secret (file); good and bad budgets; 2 items, 1 Flux event with 2 attempts, 1 restart, fair | target and password before sources, exit codes, tickers positive, complete snapshots, Flux's events out and not doubled, startup ends; ticks are taken though other collectors' lists hang |
| `pipeline` | 1 object, 1 condition, `minDuration` 0 or 1, limit 1, http or file, 2 ticks, 4 events, 1 hang, 1 late request, 1 restart, fair | the reader is current, the lock is given back, failures are told |
| `manager_keys` | 2 informers with `updates: flips`, 1 name of one kind in 2 groups, 5 handler calls | *violated*: two problems share a cooldown key |
| `pipeline_recovery` | 1 condition, `minDuration` 1, limit 1, file, 5 events | *violated*: a recovery is pitched whose failure was dropped |
| `tracker_close` | 1 condition, `minDuration` 1, 5 events | *violated*: close leaves a timer running |
| `tracker_settling` | 1 condition, `minDuration` 1, 3 events | *violated*: a failure is pitched while the condition is True |

Bounds. `MaxTime` stops the clock and `MaxPitches` or `MaxEvents` the inputs.
Four pitches with a limit of one and windows of three reach two windows, a
suppressed event in each and a summary by either closer; seven ticks are more than
twice the cooldown after a pass and more than two windows, so keys are forgotten
and come back, and what liveness promises of the last window has time to happen.
Keys meet only in the budget, which the events without a key spend too, so they
stand for the other keys; the theorems have any number of keys. Four events
are a create and three updates of two conditions, or a create, an update, a
delete and a create; a second failure after a re-creation needs five, which
`tracker_one` and `tracker_close` have and which `TimersKept` and `NoneEarly` cover. Six ticks let two failures of one condition come due.
In `informer`, five handler calls are an object's add, two updates, its delete and
another add, or two objects interleaved; all specs are looked at in one run. In
`lifecycle`, two attempts are what a duplicate needs, one restart lets an attempt
meet the end of a process and the next one, and a second item is what a broken
snapshot leaves out. In `pipeline`, four events are a create, a failure, a
recovery and a second failure, or a create, a failure, a delete and a create; a
reader left with an old state takes a failure, a recovery and one request that
is late or cut off, so one of each is enough, and Redis differs from http in no
step. The theorems have none of these bounds.
Deadlock is not checked because all of these really may stop: the clock at
its bound, with nothing left to send.

Fairness. The clock goes on and the runtime delivers timers and ticks. The
flusher's goroutine is scheduled, and its sends end because the HTTP client has
a timeout (`requestTimeout`) and so does the Redis client. A goroutine that waits
for a mutex gets it, also if others take it again and again: Go's
`sync.Mutex` hands the lock over to one that has waited for a millisecond, so a
timer's `fire` in `Pipeline` is strongly fair. Each send ends, by its timeout, but
whether the target answers is open for ever. `main`'s own calls end: a secret's
lookup and each check of the startup wait have timeouts, and the wait its budget.
A collector's list has none, neither by its `ctx` nor by the client of
`internal/kube`, so it is not fair: `TicksServed` is conditional on the
collector's own lists ending, and shows that a list that hangs harms no other
collector. Nothing is assumed of callers and of the cluster: events
need not come, calls need not return, `ctx` need not be cancelled.

## Findings

1. `admit` starts the cooldown before the event is sent; a failed send leaves it
   running although the comment of `admit` says that it "only starts when the
   event is really pitched". One refused message silences its problem for the
   whole cooldown (`throttle_failed_pitch`).
2. The first event after a long silence is pitched without the count of the
   dropped repeats, which `closeWindow` forgets after twice the cooldown; the
   comment of `Pitcher` and the README promise it without that limit
   (`throttle_lost_count`).
3. Sequence numbers start again with a re-created object state, so a `fire` that
   waited across a delete and a re-creation passes the check that should stop
   it. It pitches nothing early (`NoEarlyFailure` holds), but it orphans the new
   state's timer, which `close` then does not stop (`tracker_close`).
4. A condition that is back to True with an ignored reason does not end its
   failure, which is pitched while the object is healthy; the README says that
   a failure is pitched only if it "is still failing" (`tracker_settling`).
5. The tracker notes a failure as reported before it is pitched, and does not
   learn that the throttle dropped it or the target refused it. Its recovery is
   then pitched, although the README says "only if its failure was pitched"
   (`pipeline_recovery`). The reader is not misled (`ReaderCurrent` holds).
6. A cooldown key has the kind of an object and not its API group, and all
   informers share one throttle. Where two kinds of one name are watched (a
   `Certificate` of cert-manager and one of Knative), the flip of one object
   silences the same flip of the other of that name for the whole cooldown; the
   comment of `cooldownKey` says that a key "groups repeats of one problem"
   (`manager_keys`).

## Proofs

`ThrottleProofs` proves, for every set of keys and callers, every cooldown,
limit, window and ticker period, and any number of pitches, from
`ThrottleAssumption` alone (what `validate` and `main` guarantee):

* `TypeCorrect`: the type invariant.
* `DropsAccounted`: `SuppressedAccounted` is inductive with the types: what
  `closeWindow` resets is what it hands out.
* `BudgetSpentFirst`: nothing is suppressed in a window with budget left
  (`SuppressedOnlyWhenSpent`, which no run checks): it needs that `sent` never
  exceeds the limit and that nothing is suppressed without one (`Budget`).
* `WindowsRemembered`, `AtMostTwoWindows`: `SlidingBound` is not inductive, for it
  does not relate the passes to the window. `WindowMemory` does: the last `sent`
  passes belong to the open window, the `Max` before them at most to the one
  before, which started at least `Per` earlier. Together with "passes lie in the
  past" it is inductive, and the pass that would be number `2 * Max + 1` of a
  span is at least two windows after the first.
* `SeenIsExact`: `CooldownMemory`, with "passes lie in the past" and "nothing is
  missed before the first pass" (`Cooldowns`), is inductive; `PurgedMemory` is
  the lemma that forgetting keeps it exact.
* `CooldownsHold`, `NothingSilenced`, `RepeatsCounted`: the three action
  properties follow from it in one step.
* `SummaryComesNear`: what is left of `SuppressedAnnounced` without its fairness.
  A count that waits is in a window that ends within `Per`, and `Run` has a tick
  within `Interval` (`Ticking`, with the types, `Budget` and `WindowMemory`).
* `FlushForgetsAndTells`: what each flush does towards `SuppressedAnnounced` and
  `ForgottenEventually`.
* `FailedSendsAlone`: `CooldownFollowsPitch` is violated by the code (see Findings);
  in every behaviour without a failing send (`SendsSucceed`) it holds. `Delivered`
  says that a key's last pass has arrived or is on its way, and that nothing newer
  is; it must allow for callers that overtake each other after the unlock.
* `FilterImplemented`: every step is one of `Filter` or a stutter. A window that
  has ended counts as one with its whole budget, so its closing is no step of
  `Filter` and the tick that ends it is; what is left of the budget is a number
  in its bounds only because `sent` is (`Budget`), and a key that is forgotten
  was not quiet any more.

`CooldownMemory` and `WindowMemory` are checked by TLC in `throttle` too.

`LifecycleProofs` and `WebhookProofs` prove, for every set of collectors, items,
events and modes and any number of attempts and restarts, from
`CollectorAssumption`, `WebhookAssumption` and `LifecycleAssumption`:

* `SnapshotsComplete`, `QuietAfterCancel`: `CompleteSnapshot` is inductive with the
  collectors' types; what the rest of the process does to the collectors is one
  lemma (`AroundCollectors`).
* `SourcesWait`, `ExitCodesTrue`, `NoTickerPanics`: none of the properties is
  inductive, for they do not say in which phase an answer, a refused password, a
  cancellation, a loaded profile or a source can be. `PhaseInv` does, for each
  phase of `main`; the steps of the sources keep it because they need a source
  (`SourcesKeep`). That tickers are positive is what `validate` and the default of
  the window leave of any profile.
* `AcceptedOut`: a handler that has pitched without error knows that the event is
  out (`Told`), whoever still waits for its answer.
* `DuplicatesPaidFor`: deliveries and missing answers alone are not inductive.
  `Balanced` adds what is still under way: the requests that may yet deliver or
  make Flux post again, and the post that Flux is about to make, each stand for
  one delivery to come. The lemmas `Posted`, `TriedInVain`, `GotAnswer`,
  `PitchedOnce` and `Fewer` are the arithmetic of the steps; the `Counts...`
  lemmas say how the number of such requests changes.
* `WebhookTypeCorrect`, `LifecycleTypeCorrect`: the same accounts bound the
  deliveries of an event by its attempts.

`ConditionTrackerProofs` proves, for every set of objects, conditions and
versions, every filter, any `minDuration` and any number of events, from
`TrackerAssumption` and `AbsenceAssumption` (the names for what is not there name
nothing else). A step does one of four things to an object: nothing
(`Untouched`), forget it, show its tracker a version (`Shows`), or report what has
lasted (`Reports`); `KeySteps` says so, and each invariant is then proved per
object and condition:

* `PendingIsFailing`: `PendingInv` adds that a failure is as old as the updates
  that show it (`badSince` is not later than `failingSince`), and that without
  `minDuration` nothing is pending. `NoneEarly` follows from it in one step,
  stale timers included: what `fire` reports is judged by `failingSince`, not by
  the timer.
* `TimersKept`: `TimersInv`: a state with a timer finds its handle running or
  expired, and what is pending is due with it. A `fire` of an earlier life may take
  the state for its own; it clears `timer` and schedules anew, so the invariant
  survives even that.
* `ReportedIsTold`, `RecoveriesFollow`, `NoFlipTwice`: `ToldInv` adds the converse
  for failures: with `minDuration`, what is taken for a reported failure was
  pitched. Without it, the baseline may be a failure nobody was told of.
* `LastingFailuresImplemented`: `Shows` is `Observe`, `Reports` is `Report`, forget
  and close are `Forget` and `Stop`; a stale `fire`, an expiry and an add are
  stutters.

* `OverdueWaitsForNobody`, `FireTakesAll`: what is left of `ReportsLastingFailures`
  without its fairness. A failure that has lasted has a timer that is due and not
  stale, whose fire reports everything of the object that has lasted.
* `OwnTimersAreStopped`: `CloseStopsTimers` is violated by the code (see Findings);
  it holds as long as no fire takes the state of its object's successor for its own
  (`FiresForItsOwn`). `OwnTimers` is the invariant: every timer that runs is the
  one its state knows, and one that has expired has a lower number or is the last.
* `FailuresAsTheyAre`, `HealthyAreNotPitched`: `KnownInv` relates the tracker's
  state to the object: what fire pitches is the object's state unless that is
  ignored or gone. So `StillFailing`, which the code violates (see Findings), holds
  wherever no healthy state has a reason of `ignoreReasons` (`HealthCounts`).
* `NothingAfterClose`: after close nothing is pitched.

`PipelineProofs` proves, from these lemmas and `PipelineAssumption`, for any number
of objects, hangs, late requests and restarts:

* `PipelineTypeCorrect`: with the types, who holds `t.mu` has something to send,
  and a timer's goroutine sends only while it holds it.
* `ReaderIsCurrent`: `ReaderCurrent` speaks of what has arrived only. `KnownInv`
  says that what is not pending is reported as the object shows it; `FlightInv`,
  that an update on its way is what was told last, and its goroutine holds `t.mu`,
  or that it is a delete whose object cannot come back before it is sent;
  `ArrivedInv`, that what has arrived is what was told last and what the reader
  knows. `FlightInv` needs `t.mu` to be held while sending: this is where the
  comment of `mu` is right that failures and recoveries are pitched in order.

* `TrackerOutlivesTargets`, `FlipsOutliveTargets`: the tracker's invariants and
  action properties again, over restarts and with a target that hangs: each step of
  the pipeline is one of the tracker, leaves it alone, or is a restart, which
  forgets everything (`TrackerSteps`, `RestartTracker`).
* `EveryLifeImplementsLastingFailures`: so each life implements `LastingFailures`,
  and the end of a life (`LifeEnds`) is the only step beyond it.
* `RecoveriesInOrder`: `RecoveryOfPitchedFailure` is violated by the code (see
  Findings): the throttle may drop the failure and pass the recovery.
  `RecoveryInOrder` is what holds instead: the failure was told, its message was
  dropped, delivered or given up before, and no other update of the object is on
  its way. `FateInv` relates `fate` to what is being sent; `FlightInv` and a free
  `t.mu` give the rest. TLC agrees on the instance of `pipeline`.

`InformerProofs` proves, for every set of specs, keys and versions, from
`InformerAssumption`:

* `TrackedIsThere`: `Holdings`, the types with what is loaded being valid.
* `FiltersInForce`: a condition filter that `validate` accepts with the mode unset
  or not has a mode with a tracker after `applyDefaults` (`LoadedSpecs`).
* `InventoryStaysQuiet`: `PitchRight`, what each kind of message says of its object.
* `ViewsCurrent`, `InformerTypeCorrect`: `Views` adds the type of what the reader
  knows.
* `SeveritiesDocumented`: by the kind of the message, from `Message`; the messages
  are those of adds, deletes, flips, new generations and plain updates, and an
  Event's type comes in only where there is no override.

Only model-checked: the liveness properties (`SuppressedAnnounced`,
`ForgottenEventually`, `ReportsLastingFailures`, `FailureTold`, `TicksServed`,
`StartupEnds`), since liveness and `ENABLED` are beyond the prover. Every other
property of a passing run has a theorem. The violated properties are shown by
TLC's counterexamples; theorems say how far each still holds (`FailedSendsAlone`,
`OwnTimersAreStopped`, `HealthyAreNotPitched`, `RecoveriesInOrder`, and
`RepeatsCounted` for `FirstAfterCooldownCarriesCount`). The hypotheses of the
first three name the cause of the violation, and most behaviours satisfy them:
TLC finds the three properties to hold on instances like those of the violation
runs once steps against the hypothesis are taken away.

## Plan

Everything planned is done: the throttle, the tracker, the informer and the
process with its collectors and the webhook, each with proofs; the abstract
specifications `Filter` and `LastingFailures`, implemented by the code's models; and
the composition from the watch to the reader. Nothing larger is left that has
state; what is left out is listed below.

## Not modelled

* The text summaries, titles and tags beyond what properties compare, URLs
  (`probeURL`), the banner and the logs: text for
  humans, or text computed once, with no state and no decision of the program.
* `internal/kube` beyond success and failure: how a kubeconfig, a context or a
  secret is looked up; `LoadRedisConfig`, `IsSupported` and `SupportedKinds`, which
  only tests use.
* YAML, HMAC, JSON, TLS, Redis, HTTP, `WaitForReady` and client-go are libraries,
  modelled by what they may return.
* `Pipeline` leaves out the flusher's summaries and all sources but one informer.
* The Dagger module, the KCL manifests and the deployment files are no part of the
  program that runs.
