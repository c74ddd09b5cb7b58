------------------------------- MODULE Profile -------------------------------
(***************************************************************************)
(* internal/profile: a profile and its informer specs, as records with the *)
(* fields of Spec and InformerSpec that decide something.  Lists are sets, *)
(* durations small integers, and of an address only whether it is set      *)
(* matters.  The collectors are a function from their kinds to intervals;  *)
(* a profile may have a rate limit, a set of at most one record.           *)
(***************************************************************************)
EXTENDS Integers

UpdateModes == {"conditions", "flips", "generation", "all"}

DeleteSeverities == {"", "info", "success", "warning", "error", "critical"}

InformerSpecs ==
  [resource : STRING, namespace : STRING, events : SUBSET STRING, pitchInitialList : BOOLEAN,
   updates : STRING, deleteSeverity : STRING,
   types : SUBSET STRING, reasons : SUBSET STRING, excludeReasons : SUBSET STRING,
   ignoreStatuses : SUBSET STRING, ignoreReasons : SUBSET STRING, minDuration : Int]

HasConditionFilter(s) ==
  s.ignoreStatuses # {} \/ s.ignoreReasons # {} \/ s.minDuration # 0

WatchesFlips(s) == s.updates \in {"conditions", "flips"}

HasEventFilter(s) == s.types # {} \/ s.reasons # {} \/ s.excludeReasons # {}

\* validateEventFilter
EventFilterValid(s) ==
  HasEventFilter(s) =>
    /\ s.resource = "events"
    /\ s.reasons = {} \/ s.excludeReasons = {}
    /\ s.types \subseteq {"Normal", "Warning"}

\* Fault: does not ask for update events.
ConditionFilterOfMode(s) ==
  HasConditionFilter(s) =>
    /\ s.updates = "" \/ WatchesFlips(s)
    /\ s.minDuration >= 0
    /\ s.ignoreStatuses \subseteq {"False", "Unknown"}

\* validateConditionFilter, which runs before the defaults are set
ConditionFilterValid(s) ==
  HasConditionFilter(s) =>
    /\ s.updates = "" \/ WatchesFlips(s)
    /\ "update" \in s.events
    /\ s.minDuration >= 0
    /\ s.ignoreStatuses \subseteq {"False", "Unknown"}

\* validate, of one informer
InformerValid(s) ==
  /\ s.events # {}
  /\ s.updates \in UpdateModes \cup {""}
  /\ s.deleteSeverity \in DeleteSeverities
  /\ EventFilterValid(s)
  /\ ConditionFilterValid(s)

\* Fault: does not look at the intervals of collectors.
ValidButForIntervals(p) ==
  /\ p.redis # p.pitcher
  /\ p.redis => p.stream
  /\ DOMAIN p.collectors # {} \/ p.informers # {} \/ p.webhook
  /\ \A s \in p.informers : InformerValid(s)
  /\ p.cooldown >= 0
  /\ \A limit \in p.rateLimit : limit.max > 0 /\ limit.per > 0

\* validate: one target, and something to pitch to it.
ProfileValid(p) ==
  /\ p.redis # p.pitcher
  /\ p.redis => p.stream
  /\ DOMAIN p.collectors # {} \/ p.informers # {} \/ p.webhook
  /\ \A s \in p.informers : InformerValid(s)
  /\ p.cooldown >= 0
  /\ \A limit \in p.rateLimit : limit.max > 0 /\ limit.per > 0
  /\ \A kind \in DOMAIN p.collectors : p.collectors[kind] > 0

\* Fault: takes the default for set where a condition filter needs it.
WithSomeDefaults(s) ==
  [s EXCEPT !.updates = IF @ = "" /\ ~HasConditionFilter(s) THEN "conditions" ELSE @]

\* applyDefaults, of one informer
WithDefaults(s) ==
  [s EXCEPT !.updates = IF @ = "" THEN "conditions" ELSE @,
            !.namespace = IF @ = "" THEN "*" ELSE @]

\* Load: the informer specs main gets of those a profile may have.
Loaded(specs) == {WithDefaults(s) : s \in {t \in specs : InformerValid(t)}}

-----------------------------------------------------------------------------
(* What main and the sources make of the rest.                              *)

\* The mode: PITCHER_MODE=file goes before the targets of the profile.
ModeOf(p, fileMode) ==
  IF fileMode THEN "file" ELSE IF p.pitcher THEN "http" ELSE "redis"

LeastOf(m, n) == IF m <= n THEN m ELSE n

\* The intervals of the tickers that are started: that of the throttle's Run,
\* if there is a rate limit, and at most 30s; and those of the collectors.
Tickers(p, longest) ==
  {LeastOf(limit.per, longest) : limit \in p.rateLimit}
    \cup {p.collectors[kind] : kind \in DOMAIN p.collectors}

\* SelfNamespace: of the environment, the service account, or "default".
SelfNamespace(podNamespace, accountFile) ==
  IF podNamespace # "" THEN podNamespace
  ELSE IF accountFile # "" THEN accountFile ELSE "default"

\* ResolveNamespace: of a watch or list, "" being all namespaces.
ResolveNamespace(ns, self) ==
  IF ns = "@self" THEN self ELSE IF ns = "*" THEN "" ELSE ns
=============================================================================
