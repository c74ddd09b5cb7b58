-------------------------- MODULE LastingFailures --------------------------
(***************************************************************************)
(* What the condition filter of an informer promises (README, "Lasting     *)
(* failures only"; the doc comments of conditionTracker and update).       *)
(* Without minDuration a state that is not the reported one is reported at *)
(* once.  With it a failure has a deadline, minDuration after the first    *)
(* update that showed it, and is reported once, at or after that deadline, *)
(* unless it is over, or the object is deleted, or the informer stops.     *)
(* There are no timers, no locks and no goroutines here: ConditionTracker  *)
(* is shown to implement this.                                             *)
(***************************************************************************)
EXTENDS Integers

CONSTANTS
  Keys,         \* the objects of the informer
  Types,        \* the watched conditions
  Statuses,     \* the statuses of a condition, "True" among them
  MinDurations, \* how long a failure may have to last, 0: not at all
  MaxTime       \* bound: the clock stops here

VARIABLES
  minDuration,  \* of the informer's profile, never changed
  clock,
  stopped,      \* the informer has stopped
  reported,     \* per object and condition: the status last reported,
                \* or the healthy status it was first seen with
  latest,       \* per object and condition: the last status not ignored
  since         \* per object and condition: the start of an unreported failure

vars == <<minDuration, clock, stopped, reported, latest, since>>

Unreported == ""                \* nothing reported, nothing known
Nothing    == [t \in Types |-> Unreported]
NoFailure  == [t \in Types |-> 0]

Init ==
  /\ minDuration \in MinDurations
  /\ clock = 1
  /\ stopped = FALSE
  /\ reported = [k \in Keys |-> Nothing]
  /\ latest = [k \in Keys |-> Nothing]
  /\ since = [k \in Keys |-> NoFailure]

(* An update shows the conditions in DOMAIN seen; the others are ignored or *)
(* missing.  before are the statuses of the old object that count for the   *)
(* conditions shown for the first time: with minDuration only healthy ones. *)
Baselines(S) == [S -> IF minDuration = 0 THEN Statuses ELSE {"True"}]

Observe(k, seen, before) ==
  LET was == [t \in Types |-> IF t \in DOMAIN before /\ reported[k][t] = Unreported
                              THEN before[t] ELSE reported[k][t]]
      over(t) == seen[t] \in {was[t], "True"} \/ minDuration = 0
  IN /\ ~stopped
     /\ latest' = [latest EXCEPT ![k] =
          [t \in Types |-> IF t \in DOMAIN seen THEN seen[t] ELSE @[t]]]
     /\ reported' = [reported EXCEPT ![k] =
          [t \in Types |-> IF t \in DOMAIN seen /\ over(t) THEN seen[t] ELSE was[t]]]
     /\ since' = [since EXCEPT ![k] =
          [t \in Types |-> CASE t \notin DOMAIN seen -> @[t]
                             [] t \in DOMAIN seen /\ over(t) -> 0
                             [] OTHER -> IF @[t] = 0 THEN clock ELSE @[t]]]
     /\ UNCHANGED <<minDuration, clock, stopped>>

Overdue(k) == {t \in Types : since[k][t] # 0 /\ clock >= since[k][t] + minDuration}

\* All the failures of an object that have lasted long enough go out together.
Report(k) ==
  /\ ~stopped
  /\ Overdue(k) # {}
  /\ reported' = [reported EXCEPT ![k] =
       [t \in Types |-> IF t \in Overdue(k) THEN latest[k][t] ELSE @[t]]]
  /\ since' = [since EXCEPT ![k] =
       [t \in Types |-> IF t \in Overdue(k) THEN 0 ELSE @[t]]]
  /\ UNCHANGED <<minDuration, clock, stopped, latest>>

Forget(k) ==
  /\ reported' = [reported EXCEPT ![k] = Nothing]
  /\ latest' = [latest EXCEPT ![k] = Nothing]
  /\ since' = [since EXCEPT ![k] = NoFailure]
  /\ UNCHANGED <<minDuration, clock, stopped>>

Stop ==
  /\ stopped' = TRUE
  /\ reported' = [k \in Keys |-> Nothing]
  /\ latest' = [k \in Keys |-> Nothing]
  /\ since' = [k \in Keys |-> NoFailure]
  /\ UNCHANGED <<minDuration, clock>>

Tick ==
  /\ clock < MaxTime
  /\ clock' = clock + 1
  /\ UNCHANGED <<minDuration, stopped, reported, latest, since>>

Next ==
  \/ \E k \in Keys, S \in SUBSET Types :
       \E seen \in [S -> Statuses], before \in UNION {Baselines(B) : B \in SUBSET S} :
         Observe(k, seen, before)
  \/ \E k \in Keys : Report(k) \/ Forget(k)
  \/ Stop
  \/ Tick

Spec == Init /\ [][Next]_vars

FairSpec == Spec /\ WF_vars(Tick) /\ \A k \in Keys : WF_vars(Report(k))
=============================================================================
