------------------------------ MODULE Lifecycle ------------------------------
(***************************************************************************)
(* main.go: startup, the wait for the pitch target, the start of the       *)
(* sources, and the shutdown, with the collectors and the webhook running  *)
(* in the process.  A process may be killed at any time and is started     *)
(* again by its pod.  The informers' part of main is their start and the   *)
(* close of their trackers; what they do is module ConditionTracker, the   *)
(* throttle is module Throttle.                                            *)
(***************************************************************************)
EXTENDS Integers, Collector, Webhook, Profile

CONSTANTS
  Profiles,      \* the files the process may find its profile in
  ProfileIn,     \* per file its profile, valid or not
  FileModes,     \* per file, whether PITCHER_MODE is file, in a set
  Budgets,       \* the values of the startup timeout's variable
  MaxRestarts    \* bound: how often the pod starts the process again

ASSUME LifecycleAssumption ==
  /\ MaxRestarts \in Nat
  /\ \A f \in Profiles :
       /\ FileModes[f] \subseteq BOOLEAN
       /\ DOMAIN ProfileIn[f].collectors \subseteq Specs
       /\ \A kind \in DOMAIN ProfileIn[f].collectors : ProfileIn[f].collectors[kind] \in Int
       /\ \A limit \in ProfileIn[f].rateLimit : limit.per \in Int

VARIABLES
  phase,         \* where main is
  file,          \* the file of --profile, never changed
  mode,          \* the pitcher mode of the environment and the profile
  loaded,        \* what main takes of the profile, once it is loaded
  budget,        \* the startup timeout's variable: {} if unset, {0} if it is
                 \* not a positive duration
  rejected,      \* the target does not take the resolved credentials
  waitFailed,    \* the startup wait returned an error
  informers,     \* "off", "running" or "closed"
  code,          \* the exit code, or "none"
  restarts,      \* how often the process was started again
  answered,      \* history: the target answered this process's wait
  unreachable    \* history: the process gave up on its target

settings == <<file, mode, budget>>
mainVars == <<phase, settings, loaded, rejected, waitFailed, informers, code, restarts, answered,
              unreachable>>
vars     == <<collectorVars, webhookVars, mainVars>>

Startup == {"load", "connect", "secrets", "notify", "budget", "wait", "waited",
            "collectors", "informers", "webhook"}
Serving == {"run", "stop"}
Phases  == Startup \cup Serving \cup {"exited"}

\* The signals are caught from NotifyContext until stop().
Caught == phase \in {"budget", "wait", "waited", "collectors", "informers", "webhook", "run"}

\* The collectors, whether there are informers and a webhook, and whether the
\* target's credentials are in a secret; and the intervals of the tickers.
Wanted(p) ==
  [collectors |-> DOMAIN p.collectors, informers |-> p.informers # {},
   webhook |-> p.webhook, secretRef |-> p.secretRef, tickers |-> Tickers(p, 30)]

Nothing == [collectors |-> {}, informers |-> FALSE, webhook |-> FALSE,
            secretRef |-> FALSE, tickers |-> {}]

Init ==
  /\ CollectorInit
  /\ WebhookInit
  /\ phase = "load"
  /\ file \in Profiles
  /\ mode \in {ModeOf(ProfileIn[file], fileMode) : fileMode \in FileModes[file]}
  /\ loaded = Nothing
  /\ budget \in Budgets
  /\ rejected = FALSE
  /\ waitFailed = FALSE
  /\ informers = "off"
  /\ code = "none"
  /\ restarts = 0
  /\ answered = FALSE
  /\ unreachable = FALSE

-----------------------------------------------------------------------------
(* The steps of main.                                                       *)

GoTo(from, to) == phase = from /\ phase' = to

\* The process ends: os.Exit, the return of main, or a kill.
Exit(c) ==
  /\ phase' = "exited"
  /\ code' = c
  /\ informers' = "off"
  /\ StopCollectors
  /\ StopWebhook
  /\ UNCHANGED <<cancelled, settings, loaded, rejected, waitFailed, restarts, answered>>

NoSources == UNCHANGED <<collectorVars, webhookVars>>

\* What the steps of main up to the wait's end, and after it, leave alone.
Same == UNCHANGED <<settings, loaded, rejected, informers, code, restarts, unreachable>>
Stay == Same /\ UNCHANGED <<waitFailed, answered>>

\* os.Exit(1) for a configuration.
Fail == Exit("1") /\ UNCHANGED unreachable

\* profile.Load
LoadProfile ==
  \/ /\ GoTo("load", "connect")
     /\ ProfileValid(ProfileIn[file])
     /\ loaded' = Wanted(ProfileIn[file])
     /\ NoSources
     /\ UNCHANGED <<settings, rejected, informers, code, restarts, unreachable,
                    waitFailed, answered>>
  \/ phase = "load" /\ ~ProfileValid(ProfileIn[file]) /\ Fail

\* kube.NewClient
ConnectKube == GoTo("connect", "secrets") /\ NoSources /\ Stay

\* The profile cannot be read, or there is no configuration for the cluster.
ConfigFails == phase \in {"load", "connect"} /\ Fail

\* resolveSecrets: a lookup that fails, maybe only for the time the one before
\* took, leaves what the profile has inline.  Without a reference that is
\* taken to be right.
ResolveSecrets ==
  /\ GoTo("secrets", "notify")
  /\ rejected' \in IF loaded.secretRef THEN BOOLEAN ELSE {FALSE}
  /\ NoSources
  /\ UNCHANGED <<settings, loaded, informers, code, restarts, unreachable, waitFailed, answered>>

NotifyContext == GoTo("notify", "budget") /\ NoSources /\ Stay

\* ParseStartupTimeout
BudgetParses(v) == \A d \in v : d > 0

\* The startup budget is read; file mode has nothing to wait for.
ReadBudget ==
  \/ mode = "file" /\ GoTo("budget", "collectors") /\ NoSources /\ Stay
  \/ mode # "file" /\ BudgetParses(budget) /\ GoTo("budget", "wait") /\ NoSources /\ Stay
  \/ mode # "file" /\ ~BudgetParses(budget) /\ phase = "budget" /\ Fail

\* HealthCheck, by what the target answers.  Omni-pitcher is asked for /ready
\* and, if that is not found, for /health, both without a token; Redis for a
\* PING, after the password (homerun-library, external, waits for Redis with
\* the same configuration, password included).
Answers == {"nothing", "ok", "unavailable", "not found"}

\* Fault: Redis is not shown the password.
HealthyWithout(ready, health) ==
  ready = "ok" \/ (mode = "http" /\ ready = "not found" /\ health = "ok")

Healthy(ready, health) ==
  \/ mode = "http" /\ (ready = "ok" \/ (ready = "not found" /\ health = "ok"))
  \/ mode = "redis" /\ ready = "ok" /\ ~rejected

\* The wait (external) ends with the first check that succeeds, or with an
\* error when ctx is cancelled or the budget is spent.
CheckSucceeds ==
  /\ GoTo("wait", "waited")
  /\ \E ready, health \in Answers : Healthy(ready, health)
  /\ waitFailed' = FALSE
  /\ answered' = TRUE
  /\ NoSources /\ Same

\* Fault: waits without a budget.
WaitFailsOnCancel ==
  /\ GoTo("wait", "waited")
  /\ cancelled
  /\ waitFailed' = TRUE
  /\ NoSources /\ Same /\ UNCHANGED answered

WaitFails ==            \* ctx is cancelled, or the budget is spent
  /\ GoTo("wait", "waited")
  /\ waitFailed' = TRUE
  /\ NoSources /\ Same /\ UNCHANGED answered

\* Fault: looks at the error first.
ExitIfFailed ==
  /\ phase = "waited"
  /\ \/ waitFailed /\ Exit("1") /\ unreachable' = TRUE
     \/ ~waitFailed /\ cancelled /\ Exit("0") /\ UNCHANGED unreachable
     \/ /\ ~waitFailed /\ ~cancelled
        /\ phase' = "collectors"
        /\ NoSources /\ Stay

\* exitIfNotReady.
ExitIfNotReady ==
  /\ phase = "waited"
  /\ \/ cancelled /\ Exit("0") /\ UNCHANGED unreachable
     \/ ~cancelled /\ waitFailed /\ Exit("1") /\ unreachable' = TRUE
     \/ /\ ~cancelled /\ ~waitFailed
        /\ phase' = "collectors"
        /\ NoSources /\ Stay

GoCollectors ==
  /\ GoTo("collectors", "informers")
  /\ StartCollectors(loaded.collectors)
  /\ UNCHANGED <<cancelled, ticked, snapshot, webhookVars>>
  /\ Stay

GoInformers ==
  /\ GoTo("informers", "webhook")
  /\ informers' = IF loaded.informers THEN "running" ELSE "off"
  /\ NoSources
  /\ UNCHANGED <<settings, loaded, rejected, code, restarts, unreachable, waitFailed, answered>>

\* The server listens, unless its shutdown came first or it cannot: that is
\* logged, and the process goes on without it.
GoWebhook ==
  /\ GoTo("webhook", "run")
  /\ listening' \in IF loaded.webhook THEN BOOLEAN ELSE {FALSE}
  /\ UNCHANGED <<flux, attempts, requests, delivered, dropped, unanswered, collectorVars>>
  /\ Stay

\* <-ctx.Done() and stop().
BeginStop ==
  /\ cancelled
  /\ GoTo("run", "stop")
  /\ NoSources /\ Stay

\* The half second is over, whatever still runs.
Return == phase = "stop" /\ Exit("0") /\ UNCHANGED unreachable

Main ==
  \/ LoadProfile \/ ConnectKube \/ ResolveSecrets \/ NotifyContext
  \/ ReadBudget \/ WaitFails \/ ExitIfNotReady
  \/ GoCollectors \/ GoInformers \/ GoWebhook
  \/ BeginStop \/ Return

-----------------------------------------------------------------------------
(* The goroutines that main starts to clean up.                             *)

\* srv.Shutdown: requests being handled go on.
ShutdownWebhook ==
  /\ cancelled
  /\ listening
  /\ listening' = FALSE
  /\ UNCHANGED <<flux, attempts, requests, delivered, dropped, unanswered>>
  /\ UNCHANGED <<collectorVars, mainVars>>

\* The informer manager closes its trackers.
CloseInformers ==
  /\ cancelled
  /\ informers = "running"
  /\ informers' = "closed"
  /\ NoSources
  /\ UNCHANGED <<phase, settings, loaded, rejected, waitFailed, code, restarts, answered, unreachable>>

-----------------------------------------------------------------------------
(* The world around the process.                                            *)

\* SIGINT or SIGTERM: cancels ctx where it is caught, and ends the process
\* where it is not.
Signal ==
  /\ phase # "exited"
  /\ IF Caught
     THEN /\ cancelled' = TRUE
          /\ UNCHANGED <<pc, ticked, snapshot, webhookVars, mainVars>>
     ELSE Exit("killed") /\ UNCHANGED unreachable

Crash == phase # "exited" /\ Exit("killed") /\ UNCHANGED unreachable

\* The pod starts the process again; it remembers nothing.
Restart ==
  /\ phase = "exited"
  /\ restarts < MaxRestarts
  /\ restarts' = restarts + 1
  /\ phase' = "load"
  /\ code' = "none"
  /\ cancelled' = FALSE
  /\ loaded' = Nothing
  /\ rejected' = FALSE
  /\ waitFailed' = FALSE
  /\ answered' = FALSE
  /\ unreachable' = FALSE
  /\ UNCHANGED <<settings, informers, pc, ticked, snapshot, webhookVars>>

Next ==
  \/ Main
  \/ CheckSucceeds
  \/ ConfigFails
  \/ ShutdownWebhook
  \/ CloseInformers
  \/ Signal
  \/ Crash
  \/ Restart
  \/ CollectorNext /\ UNCHANGED <<webhookVars, mainVars>>
  \/ FluxNext      /\ UNCHANGED <<collectorVars, mainVars>>
  \/ HandlerNext   /\ UNCHANGED <<collectorVars, mainVars>>

Spec == Init /\ [][Next]_vars

\* main goes on where it can, its calls being bounded by timeouts and its
\* wait by the budget; the target need never answer.  So do the goroutines of
\* the collectors, whose pitches the targets' clients bound; but no List need
\* ever end, as neither its ctx nor the client that kube makes has a timeout.
Fairness ==
  /\ WF_vars(Main)
  /\ \A s \in Specs :
       WF_vars(/\ Run(s) \/ PitchItem(s) \/ CollectReturns(s) \/ Select(s)
               /\ UNCHANGED <<webhookVars, mainVars>>)

FairSpec == Spec /\ Fairness

-----------------------------------------------------------------------------
(* Type correctness of the whole process.                                   *)
TypeOK ==
  /\ CollectorTypeOK
  /\ WebhookTypeOK
  /\ phase \in Phases
  /\ file \in Profiles
  /\ mode \in {"file", "http", "redis"}
  /\ budget \in Budgets
  /\ loaded.collectors \subseteq Specs
  /\ rejected \in BOOLEAN
  /\ waitFailed \in BOOLEAN
  /\ informers \in {"off", "running", "closed"}
  /\ code \in {"none", "0", "1", "killed"}
  /\ restarts \in 0..MaxRestarts
  /\ answered \in BOOLEAN
  /\ unreachable \in BOOLEAN

(* README, "Before it starts watching, the pitcher waits for its target":   *)
(* no source runs in a process whose target has not answered its wait, nor  *)
(* in one that is gone, and Redis has taken the password of one that runs,  *)
(* whatever became of the lookup of its secret (main, exitIfNotReady,       *)
(* resolveSecrets).                                                         *)
SourcesAfterTarget ==
  (\E s \in Specs : pc[s] # "off") \/ informers # "off" \/ listening \/ requests # {} =>
    /\ phase # "exited"
    /\ mode = "file" \/ answered
    /\ mode = "redis" => ~rejected

(* README, "SIGINT/SIGTERM during the wait exits 0; a target that never     *)
(* answers within the budget exits 1": the process gives up on its target   *)
(* only if no signal came first, and only then or for its configuration     *)
(* exits 1; it exits 0 only for a signal (exitIfNotReady).                  *)
ExitCodes ==
  /\ unreachable => code = "1" /\ ~cancelled /\ ~answered
  /\ code = "0" => cancelled

(* No ticker panics: every interval that main gives to Run of the throttle, *)
(* and Start to the collectors, is positive once the profile is loaded      *)
(* (validate, main, run).                                                   *)
TickersPositive == \A i \in loaded.tickers : i > 0

(* Startup ends: with the sources running, or the process gone, whatever    *)
(* the target does (WaitForReady and its budget).                           *)
StartupEnds == phase \in Startup ~> phase \in Serving \cup {"exited"}
=============================================================================
