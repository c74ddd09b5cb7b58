-------------------------- MODULE ConditionTracker --------------------------
(***************************************************************************)
(* internal/informer/conditions.go: the conditionTracker of one informer,  *)
(* which pitches condition flips, and failures once they have lasted       *)
(* minDuration.  The informer delivers adds, updates and deletes one at a  *)
(* time; a timer that expires runs fire in a goroutine of its own.  All    *)
(* of them work under t.mu, which also covers pitching, so each is one     *)
(* step here; between the expiry of a timer and its goroutine taking t.mu  *)
(* anything may happen.                                                    *)
(*                                                                         *)
(* Times are natural numbers; 0 is Go's zero time and the clock starts     *)
(* at 1.  The variables marked "history" record what happened for the      *)
(* properties; no action reads them.                                       *)
(***************************************************************************)
EXTENDS Integers, FiniteSets

CONSTANTS
  Keys,              \* namespace/name of the objects
  Conds,             \* the conditions objects have, [status, reason] records
  NoCond,            \* the object does not have the condition
  Versions,          \* the objects' versions: the watched conditions of each
  Gone,              \* the object does not exist
  NoState,           \* the key is not in t.objects
  Unknown,           \* the condition is not in the map `reported`
  NoPitch,           \* the step pitches nothing
  IgnoreStatuses,    \* spec.ignoreStatuses
  IgnoreReasons,     \* spec.ignoreReasons
  MinDurations,      \* the values of spec.minDuration, 0 is off
  WatchGenerations,  \* spec.updates is conditions, not flips
  MaxTime,           \* bound: the clock stops here
  MaxEvents          \* bound: adds, updates and deletes

watchedConditions == {"Ready", "Synced"}

Statuses == {"True", "False", "Unknown"}

\* validate: a condition filter is set and minDuration is not negative, True
\* is not a status to ignore.  The API server admits no other statuses.
ASSUME TrackerAssumption ==
  /\ \A c \in Conds : c = [status |-> c.status, reason |-> c.reason]
  /\ \A c \in Conds : c.status \in Statuses
  /\ NoCond \notin Conds
  /\ Versions \subseteq [watchedConditions -> Conds \cup {NoCond}]
  /\ Gone \notin Versions
  /\ IgnoreStatuses \subseteq Statuses \ {"True"}
  /\ MinDurations \subseteq Nat
  /\ WatchGenerations \in BOOLEAN
  /\ MaxTime \in Nat
  /\ MaxEvents \in Nat

VARIABLES
  minDuration, \* spec.minDuration, never changed
  clock,      \* t.m.clock
  store,      \* per key the version the informer delivered last
  objects,    \* t.objects
  closed,     \* t.closed
  armed,      \* the timers that run
  fired,      \* the timers that have expired, their fire not yet run
  pitch,      \* what the last step pitched
  events,     \* history: adds, updates and deletes (bounds the model)
  lives,      \* history: objectStates allocated, to tell them apart
  badSince,   \* history: per key and condition, when updates first showed it
              \* failing with no update showing it healthy since
  told        \* history: per key and condition, the last state pitched

tracker == <<objects, armed, lives>>
history == <<badSince, told>>
vars    == <<minDuration, clock, store, objects, closed, armed, fired, pitch,
             events, lives, history>>

Unset == ""                                       \* Go's empty string
Blank == [status |-> Unset, reason |-> Unset]     \* the zero value of cond

Timer == [key : Keys, life : Nat, seq : Nat, due : Nat \ {0}]

ObjectState ==
  [reported     : [watchedConditions -> Conds \cup {Blank, Unknown}],
   current      : [watchedConditions -> Conds \cup {Blank}],
   failingSince : [watchedConditions -> Nat],        \* 0: not pending
   timer        : BOOLEAN,                           \* st.timer # nil
   due          : Nat,
   seq          : Nat,
   life         : Nat]

\* What is pitched: flips at once, failures by a timer, or a generation change.
Pitch == [kind  : {"flips", "failures", "generation"},
          key   : Keys,
          flips : [watchedConditions -> Conds \cup {Blank}]]

\* The names for what is not there are names of nothing else.
ASSUME AbsenceAssumption ==
  /\ Unknown \notin Conds \cup {Blank}
  /\ NoState \notin ObjectState
  /\ NoPitch \notin Pitch

NoFlips == [t \in watchedConditions |-> Blank]
Never   == [t \in watchedConditions |-> 0]

Init ==
  /\ minDuration \in MinDurations
  /\ clock = 1
  /\ store = [k \in Keys |-> Gone]
  /\ objects = [k \in Keys |-> NoState]
  /\ closed = FALSE
  /\ armed = {}
  /\ fired = {}
  /\ pitch = NoPitch
  /\ events = 0
  /\ lives = 0
  /\ badSince = [k \in Keys |-> Never]
  /\ told = [k \in Keys |-> NoFlips]

-----------------------------------------------------------------------------
(* A definition whose comment starts with "Fault:" is not part of the       *)
(* model: it is a plausible mistake in the definition that follows it, kept *)
(* to show that the properties would catch it.                              *)
(*                                                                         *)
(* schedule, as the object state it leaves and the timers that then run.    *)
(* The objectState knows its timer by its sequence number; stopping a timer *)
(* that has already expired has no effect.                                  *)

Pending(st) == {t \in watchedConditions : st.failingSince[t] # 0}

Due(st) ==
  IF Pending(st) = {} THEN 0
  ELSE CHOOSE d \in {st.failingSince[t] + minDuration : t \in Pending(st)} :
         \A t \in Pending(st) : d <= st.failingSince[t] + minDuration

\* Fault: keeps the timer although the earliest pending failure changed.
KeptAnyway(st) == st.timer

Kept(st) == st.timer /\ st.due = Due(st)

Handle(k, st) == [key |-> k, life |-> st.life, seq |-> st.seq, due |-> st.due]

Stopped(k, st) == IF st.timer THEN {Handle(k, st)} ELSE {}

\* Fault: arms a timer even when nothing is pending.
RescheduledAlways(st) ==
  IF Kept(st) THEN st
  ELSE [st EXCEPT !.seq = @ + 1, !.due = Due(st), !.timer = TRUE]

Rescheduled(st) ==
  IF Kept(st) THEN st
  ELSE [st EXCEPT !.seq = @ + 1, !.due = Due(st), !.timer = (Due(st) # 0)]

Schedule(k, st) ==
  /\ objects' = [objects EXCEPT ![k] = Rescheduled(st)]
  /\ armed' = IF Kept(st) THEN armed
              ELSE (armed \ Stopped(k, st)) \cup Stopped(k, Rescheduled(st))

-----------------------------------------------------------------------------
(* update: what a new version of an object makes of its conditions.         *)

Ignored(c) ==
  \/ c.status \in IgnoreStatuses
  \/ c.reason # Unset /\ c.reason \in IgnoreReasons

Seen(new) == {t \in watchedConditions : new[t] # NoCond /\ ~Ignored(new[t])}

State(k) ==
  IF objects[k] # NoState THEN objects[k]
  ELSE [reported     |-> [t \in watchedConditions |-> Unknown],
        current      |-> NoFlips,
        failingSince |-> Never,
        timer |-> FALSE, due |-> 0, seq |-> 0, life |-> lives + 1]

\* The state that a condition seen for the first time is compared with.
\* Fault: with minDuration too, a failing old state is the baseline.
BaselineFailing(before, after) ==
  IF before # NoCond /\ ~Ignored(before) THEN before
  ELSE IF minDuration = 0 /\ before = NoCond THEN after
  ELSE Blank

Baseline(before, after) ==
  IF before # NoCond /\ before.status = "True" THEN before
  ELSE IF minDuration = 0 /\ before # NoCond /\ ~Ignored(before) THEN before
  ELSE IF minDuration = 0 /\ before = NoCond THEN after
  ELSE Blank

Rep(k, new, t) ==
  IF State(k).reported[t] # Unknown THEN State(k).reported[t]
  ELSE Baseline(store[k][t], new[t])

\* Fault: compares the reasons too.
BackByReason(k, new) == {t \in Seen(new) : new[t] = Rep(k, new, t)}

Back(k, new) == {t \in Seen(new) : new[t].status = Rep(k, new, t).status}
Well(k, new) == {t \in Seen(new) \ Back(k, new) : new[t].status = "True"}
Bad(k, new)  == Seen(new) \ (Back(k, new) \cup Well(k, new))

AtOnce(k, new) == IF minDuration = 0 THEN Bad(k, new) ELSE {}

\* Fault: pitches the recovery of a failure that was not reported.
FlippedAlways(k, new) == Well(k, new) \cup AtOnce(k, new)

Flipped(k, new) ==
  {t \in Well(k, new) : Rep(k, new, t) # Blank} \cup AtOnce(k, new)

\* Fault: a failure stays pending when the condition is back to its
\* reported state.
UpdatedKeepsPending(k, new) ==
  [State(k) EXCEPT
     !.current = [t \in watchedConditions |-> IF t \in Seen(new) THEN new[t] ELSE @[t]],
     !.reported = [t \in watchedConditions |->
        IF t \in Well(k, new) \cup AtOnce(k, new) THEN new[t]
        ELSE IF t \in Seen(new) THEN Rep(k, new, t) ELSE @[t]],
     !.failingSince = [t \in watchedConditions |->
        IF t \in Well(k, new) THEN 0
        ELSE IF t \in Bad(k, new) \ AtOnce(k, new) /\ @[t] = 0 THEN clock ELSE @[t]]]

Updated(k, new) ==
  [State(k) EXCEPT
     !.current = [t \in watchedConditions |-> IF t \in Seen(new) THEN new[t] ELSE @[t]],
     !.reported = [t \in watchedConditions |->
        IF t \in Well(k, new) \cup AtOnce(k, new) THEN new[t]
        ELSE IF t \in Seen(new) THEN Rep(k, new, t) ELSE @[t]],
     !.failingSince = [t \in watchedConditions |->
        IF t \in Back(k, new) \cup Well(k, new) THEN 0
        ELSE IF t \in Bad(k, new) \ AtOnce(k, new) /\ @[t] = 0 THEN clock ELSE @[t]]]

PitchFlips(k, kind, flips) ==
  /\ pitch' = [kind |-> kind, key |-> k, flips |-> flips]
  /\ told' = [told EXCEPT ![k] =
       [t \in watchedConditions |-> IF flips[t] # Blank THEN flips[t] ELSE @[t]]]

UpdateOpen(k, new, newGeneration) ==
  /\ Schedule(k, Updated(k, new))
  /\ lives' = IF objects[k] = NoState THEN lives + 1 ELSE lives
  /\ badSince' = [badSince EXCEPT ![k] =
       [t \in watchedConditions |->
          IF t \notin Seen(new) THEN @[t]
          ELSE IF new[t].status = "True" THEN 0
          ELSE IF @[t] = 0 THEN clock ELSE @[t]]]
  /\ IF Flipped(k, new) # {}
     THEN PitchFlips(k, "flips", [t \in watchedConditions |->
            IF t \in Flipped(k, new) THEN new[t] ELSE Blank])
     ELSE /\ pitch' = IF WatchGenerations /\ newGeneration
                      THEN [kind |-> "generation", key |-> k, flips |-> NoFlips]
                      ELSE NoPitch
          /\ UNCHANGED told

-----------------------------------------------------------------------------
(* The handlers of the informer.                                            *)

Event == events < MaxEvents /\ events' = events + 1

Add(k, new) ==                  \* tells the tracker nothing
  /\ Event
  /\ store[k] = Gone
  /\ store' = [store EXCEPT ![k] = new]
  /\ pitch' = NoPitch
  /\ UNCHANGED <<minDuration, clock, objects, closed, armed, fired, lives, history>>

Update(k, new, newGeneration) ==
  /\ Event
  /\ store[k] # Gone
  /\ store' = [store EXCEPT ![k] = new]
  /\ UNCHANGED <<minDuration, clock, closed, fired>>
  /\ \/ closed /\ pitch' = NoPitch /\ UNCHANGED <<tracker, history>>
     \/ ~closed /\ UpdateOpen(k, new, newGeneration)

Delete(k) ==                    \* forget
  /\ Event
  /\ store[k] # Gone
  /\ store' = [store EXCEPT ![k] = Gone]
  /\ armed' = IF objects[k] = NoState THEN armed
              ELSE armed \ Stopped(k, objects[k])
  /\ objects' = [objects EXCEPT ![k] = NoState]
  /\ pitch' = NoPitch
  /\ badSince' = [badSince EXCEPT ![k] = Never]
  /\ told' = [told EXCEPT ![k] = NoFlips]
  /\ UNCHANGED <<minDuration, clock, closed, fired, lives>>

-----------------------------------------------------------------------------
(* The timers: the runtime starts fire in a goroutine once a timer is due,  *)
(* and fire, when it gets t.mu, does nothing if it was replaced or stopped. *)

Expire(timer) ==
  /\ timer \in armed
  /\ clock >= timer.due
  /\ armed' = armed \ {timer}
  /\ fired' = fired \cup {timer}
  /\ pitch' = NoPitch
  /\ UNCHANGED <<minDuration, clock, store, objects, closed, events, lives, history>>

Stale(timer) ==
  closed \/ (objects[timer.key] # NoState => objects[timer.key].seq # timer.seq)

\* Fault: takes every pending failure for one that has lasted.
LastedAll(st) == Pending(st)

Lasted(st) == {t \in Pending(st) : clock >= st.failingSince[t] + minDuration}

\* Fault: does not record what it reports.
ReportedUnrecorded(st) ==
  [st EXCEPT
     !.timer = FALSE,
     !.failingSince = [t \in watchedConditions |-> IF t \in Lasted(st) THEN 0 ELSE @[t]]]

Reported(st) ==
  [st EXCEPT
     !.timer = FALSE,
     !.reported = [t \in watchedConditions |-> IF t \in Lasted(st) THEN st.current[t] ELSE @[t]],
     !.failingSince = [t \in watchedConditions |-> IF t \in Lasted(st) THEN 0 ELSE @[t]]]

\* Fault: does not arm a timer for what is still pending.
FireOnce(timer) ==
  /\ timer \in fired
  /\ fired' = fired \ {timer}
  /\ UNCHANGED <<minDuration, clock, store, closed, events, lives, badSince, armed>>
  /\ \/ /\ Stale(timer)
        /\ pitch' = NoPitch
        /\ UNCHANGED <<objects, told>>
     \/ LET k  == timer.key
            st == objects[k]
        IN  /\ ~Stale(timer)
            /\ objects' = [objects EXCEPT ![k] = Reported(st)]
            /\ IF Lasted(st) # {}
               THEN PitchFlips(k, "failures", [t \in watchedConditions |->
                      IF t \in Lasted(st) THEN st.current[t] ELSE Blank])
               ELSE pitch' = NoPitch /\ UNCHANGED told

Fire(timer) ==
  /\ timer \in fired
  /\ fired' = fired \ {timer}
  /\ UNCHANGED <<minDuration, clock, store, closed, events, lives, badSince>>
  /\ \/ /\ Stale(timer)
        /\ pitch' = NoPitch
        /\ UNCHANGED <<objects, armed, told>>
     \/ LET k  == timer.key
            st == objects[k]
        IN  /\ ~Stale(timer)
            /\ Schedule(k, Reported(st))
            /\ IF Lasted(st) # {}
               THEN PitchFlips(k, "failures", [t \in watchedConditions |->
                      IF t \in Lasted(st) THEN st.current[t] ELSE Blank])
               ELSE pitch' = NoPitch /\ UNCHANGED told

Close ==
  /\ ~closed
  /\ closed' = TRUE
  /\ armed' = armed \ UNION {Stopped(k, objects[k]) :
                               k \in {j \in Keys : objects[j] # NoState}}
  /\ objects' = [k \in Keys |-> NoState]
  /\ pitch' = NoPitch
  /\ badSince' = [k \in Keys |-> Never]
  /\ told' = [k \in Keys |-> NoFlips]
  /\ UNCHANGED <<minDuration, clock, store, fired, events, lives>>

Tick ==
  /\ clock < MaxTime
  /\ clock' = clock + 1
  /\ pitch' = NoPitch
  /\ UNCHANGED <<minDuration, store, objects, closed, armed, fired, events, lives,
                 history>>

Next ==
  \/ \E k \in Keys, new \in Versions : Add(k, new)
  \/ \E k \in Keys, new \in Versions, g \in BOOLEAN : Update(k, new, g)
  \/ \E k \in Keys : Delete(k)
  \/ \E timer \in armed : Expire(timer)
  \/ \E timer \in fired : Fire(timer)
  \/ Close
  \/ Tick

Spec == Init /\ [][Next]_vars

\* The clock goes on, the runtime expires timers, and a goroutine that waits
\* for t.mu gets it.  Nothing is assumed of the informer's events.
Fairness ==
  /\ WF_vars(Tick)
  /\ WF_vars(\E timer \in armed : Expire(timer))
  /\ WF_vars(\E timer \in fired : Fire(timer))

FairSpec == Spec /\ Fairness

-----------------------------------------------------------------------------
(* Type correctness; a running timer is always due at some time.            *)
TypeOK ==
  /\ minDuration \in Nat
  /\ clock \in Nat \ {0}
  /\ store \in [Keys -> Versions \cup {Gone}]
  /\ objects \in [Keys -> ObjectState \cup {NoState}]
  /\ closed \in BOOLEAN
  /\ armed \subseteq Timer
  /\ fired \subseteq Timer
  /\ pitch \in Pitch \cup {NoPitch}
  /\ events \in Nat
  /\ lives \in Nat
  /\ badSince \in [Keys -> [watchedConditions -> Nat]]
  /\ told \in [Keys -> [watchedConditions -> Conds \cup {Blank}]]

(* A pending failure is one: the last state that is not ignored is not True *)
(* and is not what was reported last, whatever ignored states, replaced     *)
(* timers and other conditions came in between (update, fire).              *)
PendingConsistent ==
  \A k \in Keys : objects[k] # NoState =>
    \A t \in Pending(objects[k]) :
      /\ objects[k].current[t].status \in {"False", "Unknown"}
      /\ objects[k].reported[t] # Unknown
      /\ objects[k].reported[t].status # objects[k].current[t].status

(* No pending failure is without a timer: one that is due when the earliest *)
(* of the object's failures is, and that fire will not take for a stale     *)
(* one, is running or has expired and waits for t.mu (schedule).            *)
NoLostTimer ==
  \A k \in Keys : objects[k] # NoState /\ Pending(objects[k]) # {} =>
    \E timer \in armed \cup fired :
      /\ timer.key = k
      /\ timer.seq = objects[k].seq
      /\ timer.due = Due(objects[k])

\* The status taken for reported.
StateOf(k, t) ==
  IF objects[k] = NoState \/ objects[k].reported[t] = Unknown THEN Unset
  ELSE objects[k].reported[t].status

(* What the tracker takes for reported is what it last pitched for that     *)
(* condition of the object (update and fire keep st.reported).              *)
ToldIsReported ==
  \A k \in Keys, t \in watchedConditions : told[k][t] # Blank =>
    StateOf(k, t) = told[k][t].status

(* A delayed failure is pitched only for an object that exists and for a    *)
(* condition that no update has shown healthy for minDuration, also when a  *)
(* timer of a deleted object's state meets the state of its successor       *)
(* (fire, forget, schedule).                                                *)
NoEarlyFailure ==
  pitch # NoPitch /\ pitch.kind = "failures" =>
    /\ store[pitch.key] # Gone
    /\ \A t \in watchedConditions : pitch.flips[t] # Blank =>
         /\ badSince[pitch.key][t] # 0
         /\ clock - badSince[pitch.key][t] >= minDuration

(* README, "A recovery is pitched only if its failure was pitched": with    *)
(* minDuration, a flip to True follows a pitched failure of that condition. *)
RecoveryAfterFailure ==
  [][\A k \in Keys, t \in watchedConditions :
        /\ minDuration > 0
        /\ pitch' # NoPitch
        /\ pitch'.key = k
        /\ pitch'.flips[t].status = "True"
        => told[k][t].status \in {"False", "Unknown"}]_vars

(* One failure is one message: a pitched flip always has another status     *)
(* than the last pitched flip of that condition, so retries with other      *)
(* reasons or through ignored states repeat nothing (update, fire).         *)
FlipsDiffer ==
  [][\A k \in Keys, t \in watchedConditions :
        /\ pitch' # NoPitch
        /\ pitch'.key = k
        /\ pitch'.flips[t] # Blank
        => pitch'.flips[t].status # told[k][t].status]_vars

-----------------------------------------------------------------------------
(* The tracker implements what the README promises of lasting failures: the *)
(* timers, their sequence numbers and the goroutines that wait for t.mu     *)
(* disappear behind the deadline of each failure.                           *)

LatestOf(k, t) == IF objects[k] = NoState THEN Unset ELSE objects[k].current[t].status

SinceOf(k, t) == IF objects[k] = NoState THEN 0 ELSE objects[k].failingSince[t]

LF == INSTANCE LastingFailures WITH
  Types    <- watchedConditions,
  stopped  <- closed,
  reported <- [k \in Keys |-> [t \in watchedConditions |-> StateOf(k, t)]],
  latest   <- [k \in Keys |-> [t \in watchedConditions |-> LatestOf(k, t)]],
  since    <- [k \in Keys |-> [t \in watchedConditions |-> SinceOf(k, t)]]

(* Every step of the tracker is a step of LastingFailures or none of its.   *)
ImplementsLastingFailures == LF!Spec

(* A failure that is due and not over is reported, although its timer may   *)
(* be replaced any number of times: with the clock, the timers and the      *)
(* goroutines fair, the tracker is fair to LastingFailures.                 *)
ReportsLastingFailures == LF!FairSpec

-----------------------------------------------------------------------------
(* The comment of close: "close stops every timer".                         *)
CloseStopsTimers == closed => armed = {}

(* README: a failure, "a condition that is not True", is pitched only once  *)
(* it "is still failing".  The object pitched does not have it True.        *)
StillFailing ==
  pitch # NoPitch /\ pitch.kind = "failures" =>
    \A t \in watchedConditions :
      /\ pitch.flips[t] # Blank
      /\ store[pitch.key][t] # NoCond
      => store[pitch.key][t].status # "True"
=============================================================================
