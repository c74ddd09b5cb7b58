---------------------------- MODULE MCLifecycle ----------------------------
(* Small instances of Lifecycle.                                            *)
EXTENDS Lifecycle

CONSTANTS known, other, unknown

Interval(kinds) == [kind \in kinds |-> 60]

InformerSpec ==
  [resource |-> "claims", namespace |-> "", events |-> {"update"}, pitchInitialList |-> FALSE,
   updates |-> "", deleteSeverity |-> "", types |-> {}, reasons |-> {},
   excludeReasons |-> {}, ignoreStatuses |-> {}, ignoreReasons |-> {}, minDuration |-> 0]

\* A collector, an informer and the webhook, pitched to omni-pitcher.
Full ==
  [redis |-> FALSE, stream |-> FALSE, pitcher |-> TRUE, secretRef |-> FALSE,
   collectors |-> Interval({known}), informers |-> {InformerSpec},
   webhook |-> TRUE, cooldown |-> 0, rateLimit |-> {[max |-> 20, per |-> 600]}]

\* Collectors only, pitched to Redis with a password of a secret.
Small ==
  [Full EXCEPT !.redis = TRUE, !.stream = TRUE, !.pitcher = FALSE, !.secretRef = TRUE,
               !.collectors = Interval({known, unknown}), !.informers = {}, !.webhook = FALSE,
               !.cooldown = 10, !.rateLimit = {}]

\* Two collectors at work without a secret, to try with PITCHER_MODE=file.
Plain == [Small EXCEPT !.secretRef = FALSE, !.collectors = Interval({known, other})]

\* Beside them profiles with two targets, none, no source, or no proper interval.
ProfileInDef ==
  [full |-> Full, small |-> Small, plain |-> Plain,
   twoTargets |-> [Full EXCEPT !.redis = TRUE],
   noTarget   |-> [Full EXCEPT !.pitcher = FALSE],
   noStream   |-> [Small EXCEPT !.stream = FALSE],
   noSource   |-> [Small EXCEPT !.collectors = Interval({})],
   noInterval |-> [Small EXCEPT !.collectors = [kind \in {known} |-> 0]],
   noPeriod   |-> [Small EXCEPT !.rateLimit = {[max |-> 20, per |-> 0]}],
   negative   |-> [Small EXCEPT !.cooldown = -1],
   badFilter  |-> [Full EXCEPT !.informers = {[InformerSpec EXCEPT !.minDuration = -1]}]]

ProfilesDef == DOMAIN ProfileInDef

FileModesDef == [f \in ProfilesDef |-> {f = "plain"}]

\* The startup timeout is unset, or no positive duration.
BudgetsDef == {{}, {0}}
=============================================================================
