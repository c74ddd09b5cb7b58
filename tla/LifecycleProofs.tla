--------------------------- MODULE LifecycleProofs ---------------------------
(***************************************************************************)
(* Proofs about Lifecycle and the two components that run in it, for every *)
(* set of collectors, items and events, every mode and any number of       *)
(* attempts and restarts.                                                  *)
(***************************************************************************)
EXTENDS WebhookProofs

-----------------------------------------------------------------------------
(* The collectors.                                                          *)

CollectorStep == CollectorNext /\ UNCHANGED <<webhookVars, mainVars>>

(* What the end of a process leaves of the collectors.                      *)
LEMMA StoppedCollectors ==
  ASSUME CollectorTypeOK, StopCollectors, UNCHANGED cancelled
  PROVE  CollectorTypeOK' /\ CompleteSnapshot'
  BY DEF CollectorTypeOK, StopCollectors, CompleteSnapshot, Stages

(* A new list keeps the types and starts a snapshot of which nothing has    *)
(* been tried.                                                              *)
LEMMA NewList ==
  ASSUME CollectorTypeOK, CompleteSnapshot,
         NEW s \in Specs, NEW items \in SUBSET Items, NEW stage \in Stages,
         Listed(s, items), pc' = [pc EXCEPT ![s] = stage],
         stage = "select" => items = {}
  PROVE  /\ pc' \in [Specs -> Stages]
         /\ \A f \in {left', listed', tried'} : f \in [Specs -> SUBSET Items]
         /\ CompleteSnapshot'
<1>1. /\ left' \in [Specs -> SUBSET Items] /\ left'[s] = items
      /\ listed' \in [Specs -> SUBSET Items] /\ listed'[s] = items
      /\ tried' \in [Specs -> SUBSET Items] /\ tried'[s] = {}
      /\ pc' \in [Specs -> Stages] /\ pc'[s] = stage
  BY DEF Listed, CollectorTypeOK
<1>2. ASSUME NEW z \in Specs, z # s
      PROVE  /\ left'[z] = left[z] /\ listed'[z] = listed[z] /\ tried'[z] = tried[z]
             /\ pc'[z] = pc[z]
  BY <1>2 DEF Listed, CollectorTypeOK
<1>3. CompleteSnapshot'
  <2> SUFFICES ASSUME NEW z \in Specs
               PROVE  /\ left'[z] \cap tried'[z] = {}
                      /\ left'[z] \cup tried'[z] = listed'[z]
                      /\ pc'[z] = "select" => tried'[z] = listed'[z]
    BY DEF CompleteSnapshot
  <2>1. CASE z = s
    BY <1>1, <2>1
  <2>2. CASE z # s
    BY <1>2, <2>2 DEF CompleteSnapshot
  <2> QED
    BY <2>1, <2>2
<1> QED
  BY <1>1, <1>3

(* The steps of the collectors and their tickers keep types and snapshots.  *)
LEMMA CollectorKeeps ==
  ASSUME CollectorTypeOK, CompleteSnapshot, NEW s \in Specs,
         CollectorRuns(s) \/ TickerTicks(s)
  PROVE  CollectorTypeOK' /\ CompleteSnapshot'
<1>1. CASE Run(s) \/ TickerTicks(s)
  BY <1>1 DEF Run, TickerTicks, snapshot, CollectorTypeOK, CompleteSnapshot, Stages
<1>2. CASE List(s)
  <2>1. cancelled' \in BOOLEAN /\ ticked' \in [Specs -> BOOLEAN]
    BY <1>2 DEF List, CollectorTypeOK
  <2>2. PICK items \in SUBSET Items, stage \in {"pitch", "select"} :
           /\ Listed(s, items)
           /\ pc' = [pc EXCEPT ![s] = stage]
           /\ stage = "select" => items = {}
    BY <1>2 DEF List
  <2>3. stage \in Stages
    BY DEF Stages
  <2> QED
    BY <2>1, <2>2, <2>3, NewList DEF CollectorTypeOK
<1>3. CASE PitchItem(s)
  <2>1. PICK i \in left[s] :
           /\ left' = [left EXCEPT ![s] = @ \ {i}]
           /\ tried' = [tried EXCEPT ![s] = @ \cup {i}]
    BY <1>3 DEF PitchItem
  <2>2. /\ left' \in [Specs -> SUBSET Items] /\ tried' \in [Specs -> SUBSET Items]
        /\ left'[s] = left[s] \ {i} /\ tried'[s] = tried[s] \cup {i}
    BY <2>1 DEF CollectorTypeOK
  <2>3. CollectorTypeOK'
    BY <1>3, <2>2 DEF PitchItem, CollectorTypeOK
  <2>4. ASSUME NEW z \in Specs
        PROVE  /\ left'[z] \cap tried'[z] = {}
               /\ left'[z] \cup tried'[z] = listed'[z]
               /\ pc'[z] = "select" => tried'[z] = listed'[z]
    <3>1. pc' = pc /\ listed' = listed /\ pc[s] = "pitch"
      BY <1>3 DEF PitchItem
    <3>2. CASE z = s
      BY <2>2, <3>1, <3>2 DEF CompleteSnapshot
    <3>3. CASE z # s
      BY <2>1, <3>1, <3>3 DEF CompleteSnapshot, CollectorTypeOK
    <3> QED
      BY <3>2, <3>3
  <2> QED
    BY <2>3, <2>4 DEF CompleteSnapshot
<1>4. CASE CollectReturns(s)
  BY <1>4 DEF CollectReturns, snapshot, CollectorTypeOK, CompleteSnapshot, Stages
<1>5. CASE Select(s)
  <2>1. cancelled' \in BOOLEAN /\ ticked' \in [Specs -> BOOLEAN]
    BY <1>5 DEF Select, CollectorTypeOK
  <2>2. PICK stage \in {"returned", "collect"} : pc' = [pc EXCEPT ![s] = stage]
    BY <1>5 DEF Select
  <2>3. stage \in Stages /\ stage # "select" /\ {} \in SUBSET Items /\ Listed(s, {})
    BY <1>5 DEF Stages, Select
  <2> QED
    BY <2>1, <2>2, <2>3, NewList DEF CollectorTypeOK
<1> QED
  BY <1>1, <1>2, <1>3, <1>4, <1>5 DEF CollectorRuns

(* What the rest of the program does to the collectors: it starts them,     *)
(* ends them, cancels or renews ctx, or leaves them alone.                  *)
LEMMA AroundCollectors ==
  ASSUME [Next]_vars, ~CollectorStep
  PROVE  \/ UNCHANGED collectorVars
         \/ StopCollectors /\ UNCHANGED cancelled
         \/ StartCollectors(loaded.collectors) /\ UNCHANGED <<cancelled, ticked, snapshot>>
         \/ cancelled' \in BOOLEAN /\ UNCHANGED <<pc, ticked, snapshot>>
<1>1. CASE Main
  BY <1>1 DEF Main, LoadProfile, ConnectKube, ResolveSecrets, NotifyContext, ReadBudget,
     WaitFails, ExitIfNotReady, GoCollectors, GoInformers, GoWebhook, BeginStop, Return,
     NoSources, Fail, Exit, collectorVars
<1>2. CASE CheckSucceeds \/ ConfigFails \/ ShutdownWebhook \/ CloseInformers
  BY <1>2 DEF CheckSucceeds, ConfigFails, ShutdownWebhook, CloseInformers, NoSources, Fail, Exit,
     collectorVars
<1>3. CASE Signal \/ Crash \/ Restart
  BY <1>3 DEF Signal, Crash, Restart, Exit, snapshot, collectorVars
<1> QED
  BY <1>1, <1>2, <1>3 DEF Next, CollectorStep, vars

(* Every step keeps the types of the collectors and complete snapshots.     *)
LEMMA SnapshotStep ==
  CollectorTypeOK /\ CompleteSnapshot /\ [Next]_vars => CollectorTypeOK' /\ CompleteSnapshot'
<1> SUFFICES ASSUME CollectorTypeOK, CompleteSnapshot, [Next]_vars
             PROVE  CollectorTypeOK' /\ CompleteSnapshot'
  OBVIOUS
<1>1. CASE CollectorStep
  BY <1>1, CollectorKeeps DEF CollectorStep, CollectorNext
<1>2. CASE ~CollectorStep
  <2>1. CASE UNCHANGED collectorVars
    BY <2>1 DEF collectorVars, snapshot, CollectorTypeOK, CompleteSnapshot
  <2>2. CASE StopCollectors /\ UNCHANGED cancelled
    BY <2>2, StoppedCollectors
  <2>3. CASE StartCollectors(loaded.collectors) /\ UNCHANGED <<cancelled, ticked, snapshot>>
    BY <2>3 DEF StartCollectors, snapshot, CollectorTypeOK, CompleteSnapshot, Stages
  <2>4. CASE cancelled' \in BOOLEAN /\ UNCHANGED <<pc, ticked, snapshot>>
    BY <2>4 DEF snapshot, CollectorTypeOK, CompleteSnapshot
  <2> QED
    BY <1>2, <2>1, <2>2, <2>3, <2>4, AroundCollectors
<1> QED
  BY <1>1, <1>2

LEMMA SnapshotInit == Init => CollectorTypeOK /\ CompleteSnapshot
  BY DEF Init, CollectorInit, CollectorTypeOK, CompleteSnapshot, Stages

(* CompleteSnapshot: a snapshot that is over has tried every item of its    *)
(* list, and none twice, whatever else the process does.                    *)
THEOREM SnapshotsComplete == Spec => [](CollectorTypeOK /\ CompleteSnapshot)
  BY SnapshotInit, SnapshotStep, PTL DEF Spec

(* NoListAfterCancel: a cancelled ctx lets no collector list again.         *)
THEOREM QuietAfterCancel == Spec => NoListAfterCancel
<1>1. CollectorTypeOK /\ [Next]_vars =>
        [cancelled => \A s \in Specs : listed'[s] \subseteq listed[s]]_collectorVars
  <2> SUFFICES ASSUME CollectorTypeOK, [Next]_vars, cancelled, NEW s \in Specs
               PROVE  listed'[s] \subseteq listed[s]
    OBVIOUS
  <2>1. CASE CollectorStep
    <3>1. PICK z \in Specs : CollectorRuns(z) \/ TickerTicks(z)
      BY <2>1 DEF CollectorStep, CollectorNext
    <3>2. \/ listed' = listed
          \/ listed' = [listed EXCEPT ![z] = {}]
      BY <3>1 DEF CollectorRuns, TickerTicks, Run, List, PitchItem, CollectReturns, Select,
         Listed, snapshot
    <3> QED
      BY <3>2 DEF CollectorTypeOK
  <2>2. CASE ~CollectorStep
    <3>1. listed' = listed \/ listed' = [z \in Specs |-> {}]
      BY <2>2, AroundCollectors DEF StopCollectors, snapshot, collectorVars
    <3> QED
      BY <3>1
  <2> QED
    BY <2>1, <2>2
<1> QED
  BY <1>1, SnapshotsComplete, PTL DEF Spec, NoListAfterCancel

-----------------------------------------------------------------------------
(* The phases of main.                                                      *)

Active == (\E s \in Specs : pc[s] # "off") \/ informers # "off" \/ listening \/ requests # {}

BeforeAnswer == {"load", "connect", "secrets", "notify", "budget", "wait"}
AfterWait    == {"collectors", "informers", "webhook", "run", "stop"}

\* What main knows in each phase: SourcesAfterTarget and ExitCodes are not
\* inductive, for they do not say where an answer, a cancellation or a source
\* may have come from.
PhaseInv ==
  /\ code = "none" <=> phase # "exited"
  /\ phase \in BeforeAnswer => ~answered
  /\ phase = "waited" => (waitFailed <=> ~answered)
  /\ phase \in AfterWait => mode = "file" \/ answered
  /\ phase = "waited" /\ ~waitFailed /\ mode = "redis" => ~rejected
  /\ phase \in AfterWait /\ mode = "redis" => ~rejected
  /\ Active => phase \in AfterWait
  /\ phase = "stop" => cancelled
  /\ unreachable => code = "1" /\ ~cancelled /\ ~answered
  /\ code = "0" => cancelled

(* After the end of a process nothing of it is active.                      *)
LEMMA ExitedQuiet ==
  ASSUME NEW c, Exit(c)
  PROVE  ~Active' /\ phase' = "exited" /\ code' = c
  BY DEF Exit, StopCollectors, StopWebhook, Active

(* A process that ends without giving up on its target.                     *)
LEMMA ExitKeeps ==
  ASSUME PhaseInv, phase # "exited", UNCHANGED unreachable,
         NEW c \in {"0", "1", "killed"}, Exit(c), c = "0" => cancelled
  PROVE  PhaseInv'
<1>1. ~unreachable
  BY DEF PhaseInv
<1>2. cancelled' = cancelled
  BY DEF Exit
<1> QED
  BY <1>1, <1>2, ExitedQuiet DEF PhaseInv, BeforeAnswer, AfterWait

LEMMA PhaseInit == Init => PhaseInv
  BY DEF Init, CollectorInit, WebhookInit, PhaseInv, Active, BeforeAnswer, AfterWait

(* The steps of main keep what main knows.                                  *)
LEMMA MainKeeps ==
  ASSUME PhaseInv, Main
  PROVE  PhaseInv'
<1>1. CASE LoadProfile \/ ConnectKube \/ ResolveSecrets \/ NotifyContext
  <2>1. CASE phase = "load" /\ Fail
    BY <2>1, ExitKeeps DEF Fail
  <2>2. CASE ~(phase = "load" /\ Fail)
    <3>1. phase \in BeforeAnswer /\ phase' \in BeforeAnswer
      BY <1>1, <2>2 DEF LoadProfile, ConnectKube, ResolveSecrets, NotifyContext, GoTo, BeforeAnswer
    <3>2. UNCHANGED <<cancelled, code, answered, unreachable, informers, pc, listening, requests>>
      BY <1>1, <2>2 DEF LoadProfile, ConnectKube, ResolveSecrets, NotifyContext, NoSources, Stay,
         Same, collectorVars, webhookVars
    <3> QED
      BY <3>1, <3>2 DEF PhaseInv, Active, BeforeAnswer, AfterWait
  <2> QED
    BY <2>1, <2>2
<1>2. CASE ReadBudget
  <2>1. CASE phase = "budget" /\ Fail
    BY <2>1, ExitKeeps DEF Fail
  <2>2. CASE ~(phase = "budget" /\ Fail)
    BY <1>2, <2>2 DEF ReadBudget, GoTo, NoSources, Stay, Same, settings, collectorVars,
       webhookVars, PhaseInv, Active, BeforeAnswer, AfterWait
  <2> QED
    BY <2>1, <2>2
<1>3. CASE WaitFails
  BY <1>3 DEF WaitFails, GoTo, NoSources, Same, collectorVars, webhookVars,
     PhaseInv, Active, BeforeAnswer, AfterWait
<1>4. CASE ExitIfNotReady
  <2>1. phase = "waited"
    BY <1>4 DEF ExitIfNotReady
  <2>2. CASE cancelled /\ Exit("0") /\ UNCHANGED unreachable
    BY <2>1, <2>2, ExitKeeps
  <2>3. CASE ~cancelled /\ waitFailed /\ Exit("1") /\ unreachable' = TRUE
    <3>1. ~cancelled' /\ ~answered'
      BY <2>1, <2>3 DEF PhaseInv, Exit
    <3> QED
      BY <2>3, <3>1, ExitedQuiet DEF PhaseInv, BeforeAnswer, AfterWait
  <2>4. CASE ~cancelled /\ ~waitFailed /\ phase' = "collectors" /\ NoSources /\ Stay
    BY <2>1, <2>4 DEF NoSources, Stay, Same, settings, collectorVars, webhookVars,
       PhaseInv, Active, BeforeAnswer, AfterWait
  <2> QED
    BY <1>4, <2>2, <2>3, <2>4 DEF ExitIfNotReady
<1>5. CASE GoCollectors \/ GoInformers \/ GoWebhook
  <2>1. /\ phase \in {"collectors", "informers", "webhook"}
        /\ phase' \in {"informers", "webhook", "run"}
    BY <1>5 DEF GoCollectors, GoInformers, GoWebhook, GoTo
  <2>2. UNCHANGED <<cancelled, mode, rejected, code, answered, unreachable>>
    BY <1>5 DEF GoCollectors, GoInformers, GoWebhook, NoSources, Stay, Same, settings,
       collectorVars
  <2> QED
    BY <2>1, <2>2 DEF PhaseInv, BeforeAnswer, AfterWait
<1>6. CASE BeginStop
  BY <1>6 DEF BeginStop, GoTo, NoSources, Stay, Same, settings, collectorVars, webhookVars,
     PhaseInv, Active, BeforeAnswer, AfterWait
<1>7. CASE Return
  BY <1>7, ExitKeeps DEF Return, PhaseInv
<1> QED
  BY <1>1, <1>2, <1>3, <1>4, <1>5, <1>6, <1>7 DEF Main

(* The sources and Flux: only a running process has any of them.            *)
LEMMA SourcesKeep ==
  ASSUME PhaseInv,
         \/ CollectorStep
         \/ (FluxNext \/ HandlerNext) /\ UNCHANGED <<collectorVars, mainVars>>
  PROVE  PhaseInv'
<1>1. UNCHANGED <<mainVars, cancelled>>
  BY DEF CollectorStep, CollectorNext, CollectorRuns, TickerTicks, Run, List, PitchItem,
     CollectReturns, Select, collectorVars
<1>2. Active' => Active
  <2>1. CASE CollectorStep
    <3>1. PICK s \in Specs : CollectorRuns(s) \/ TickerTicks(s)
      BY <2>1 DEF CollectorStep, CollectorNext
    <3>2. pc[s] # "off"
      BY <3>1 DEF CollectorRuns, TickerTicks, Run, List, PitchItem, CollectReturns, Select
    <3> QED
      BY <3>2 DEF Active
  <2>2. CASE FluxNext /\ UNCHANGED <<collectorVars, mainVars>>
    BY <2>2 DEF FluxNext, Post, PostInVain, GiveUpWaiting, Active, collectorVars, mainVars
  <2>3. CASE HandlerNext /\ UNCHANGED <<collectorVars, mainVars>>
    BY <2>3 DEF HandlerNext, Active
  <2> QED
    BY <2>1, <2>2, <2>3
<1> QED
  BY <1>1, <1>2 DEF mainVars, settings, PhaseInv

LEMMA PhaseStep == PhaseInv /\ [Next]_vars => PhaseInv'
<1> SUFFICES ASSUME PhaseInv, [Next]_vars PROVE PhaseInv'
  OBVIOUS
<1>1. CASE Main
  BY <1>1, MainKeeps
<1>2. CASE CheckSucceeds
  <2>1. mode = "redis" => ~rejected
    BY <1>2 DEF CheckSucceeds, Healthy
  <2> QED
    BY <1>2, <2>1 DEF CheckSucceeds, GoTo, NoSources, Same, settings, collectorVars, webhookVars,
       PhaseInv, Active, BeforeAnswer, AfterWait
<1>3. CASE ConfigFails
  BY <1>3, ExitKeeps DEF ConfigFails, Fail
<1>4. CASE ShutdownWebhook
  BY <1>4 DEF ShutdownWebhook, collectorVars, mainVars, settings, PhaseInv, Active
<1>5. CASE CloseInformers
  BY <1>5 DEF CloseInformers, NoSources, settings, collectorVars, webhookVars, PhaseInv, Active
<1>6. CASE Signal
  <2>1. CASE Caught
    BY <1>6, <2>1 DEF Signal, Caught, mainVars, settings, webhookVars, PhaseInv, Active
  <2>2. CASE ~Caught
    BY <1>6, <2>2, ExitKeeps DEF Signal
  <2> QED
    BY <2>1, <2>2
<1>7. CASE Crash
  BY <1>7, ExitKeeps DEF Crash
<1>8. CASE Restart
  BY <1>8 DEF Restart, webhookVars, PhaseInv, Active, BeforeAnswer, AfterWait
<1>9. CASE UNCHANGED vars
  BY <1>9 DEF vars, collectorVars, webhookVars, mainVars, settings, PhaseInv, Active
<1> QED
  BY <1>1, <1>2, <1>3, <1>4, <1>5, <1>6, <1>7, <1>8, <1>9, SourcesKeep DEF Next, CollectorStep

(* SourcesAfterTarget: nothing watches, lists or listens in a process whose *)
(* target has not answered its wait, nor after the process; and a Redis it  *)
(* is pitched to took the password.                                         *)
THEOREM SourcesWait == Spec => []SourcesAfterTarget
<1>1. PhaseInv => SourcesAfterTarget
  BY DEF PhaseInv, SourcesAfterTarget, Active, AfterWait
<1> QED
  BY <1>1, PhaseInit, PhaseStep, PTL DEF Spec

(* ExitCodes: 1 for a target given up on only without a signal, 0 only      *)
(* after one.                                                               *)
THEOREM ExitCodesTrue == Spec => []ExitCodes
<1>1. PhaseInv => ExitCodes
  BY DEF PhaseInv, ExitCodes
<1> QED
  BY <1>1, PhaseInit, PhaseStep, PTL DEF Spec

-----------------------------------------------------------------------------
(* Types of the whole process.                                              *)

MainTypes ==
  /\ phase \in Phases
  /\ file \in Profiles
  /\ mode \in {"file", "http", "redis"}
  /\ budget \in Budgets
  /\ loaded.collectors \subseteq Specs
  /\ rejected \in BOOLEAN
  /\ waitFailed \in BOOLEAN
  /\ informers \in {"off", "running", "closed"}
  /\ code \in {"none", "0", "1", "killed"}
  /\ restarts \in 0..MaxRestarts
  /\ answered \in BOOLEAN
  /\ unreachable \in BOOLEAN

LEMMA MainTypesInit == Init => MainTypes
<1> SUFFICES ASSUME Init PROVE MainTypes
  OBVIOUS
<1>1. restarts \in 0..MaxRestarts
  BY LifecycleAssumption DEF Init, LifecycleAssumption
<1>2. mode \in {"file", "http", "redis"}
  BY DEF Init, ModeOf
<1>3. loaded.collectors \subseteq Specs
  BY DEF Init, Nothing
<1> QED
  BY <1>1, <1>2, <1>3 DEF Init, MainTypes, Phases, Startup

(* The end of a process changes few of main's variables.                    *)
LEMMA ExitTypes ==
  ASSUME MainTypes, NEW c \in {"0", "1", "killed"}, Exit(c), unreachable' \in BOOLEAN
  PROVE  MainTypes'
  BY DEF Exit, settings, MainTypes, Phases

LEMMA MainTypesStep == MainTypes /\ [Next]_vars => MainTypes'
<1> SUFFICES ASSUME MainTypes, [Next]_vars PROVE MainTypes'
  OBVIOUS
<1>a. unreachable \in BOOLEAN
  BY DEF MainTypes
<1>1. CASE Main
  <2>1. CASE LoadProfile
    <3>1. CASE phase = "load" /\ Fail
      BY <1>a, <3>1, ExitTypes DEF Fail
    <3>2. CASE ~(phase = "load" /\ Fail)
      <4>1. loaded' = Wanted(ProfileIn[file])
        BY <2>1, <3>2 DEF LoadProfile
      <4>2. loaded'.collectors \subseteq Specs
        BY <4>1, LifecycleAssumption DEF Wanted, LifecycleAssumption, MainTypes
      <4> QED
        BY <2>1, <3>2, <4>2 DEF LoadProfile, GoTo, settings, MainTypes, Phases, Startup
    <3> QED
      BY <3>1, <3>2
  <2>2. CASE ReadBudget
    <3>1. CASE phase = "budget" /\ Fail
      BY <1>a, <3>1, ExitTypes DEF Fail
    <3>2. CASE ~(phase = "budget" /\ Fail)
      BY <2>2, <3>2 DEF ReadBudget, GoTo, Stay, Same, settings, MainTypes, Phases, Startup
    <3> QED
      BY <3>1, <3>2
  <2>3. CASE ConnectKube \/ NotifyContext \/ WaitFails
    BY <2>3 DEF ConnectKube, NotifyContext, WaitFails, GoTo, Stay, Same, settings, MainTypes,
       Phases, Startup
  <2>4. CASE ResolveSecrets
    <3>1. rejected' \in BOOLEAN
      BY <2>4 DEF ResolveSecrets
    <3> QED
      BY <2>4, <3>1 DEF ResolveSecrets, GoTo, settings, MainTypes, Phases, Startup
  <2>5. CASE ExitIfNotReady
    <3>1. CASE phase' = "collectors" /\ Stay
      BY <3>1 DEF Stay, Same, settings, MainTypes, Phases, Startup
    <3>2. CASE Exit("0") /\ UNCHANGED unreachable
      BY <1>a, <3>2, ExitTypes
    <3>3. CASE Exit("1") /\ unreachable' = TRUE
      BY <3>3, ExitTypes
    <3> QED
      BY <2>5, <3>1, <3>2, <3>3 DEF ExitIfNotReady
  <2>6. CASE GoCollectors \/ GoInformers \/ GoWebhook
    BY <2>6 DEF GoCollectors, GoInformers, GoWebhook, GoTo, Stay, Same, settings, MainTypes,
       Phases, Startup, Serving
  <2>7. CASE BeginStop
    BY <2>7 DEF BeginStop, GoTo, Stay, Same, settings, MainTypes, Phases, Serving
  <2>8. CASE Return
    BY <1>a, <2>8, ExitTypes DEF Return
  <2> QED
    BY <1>1, <2>1, <2>2, <2>3, <2>4, <2>5, <2>6, <2>7, <2>8 DEF Main
<1>2. CASE CheckSucceeds
  BY <1>2 DEF CheckSucceeds, GoTo, Same, settings, MainTypes, Phases, Startup
<1>3. CASE ShutdownWebhook \/ CloseInformers
  BY <1>3 DEF ShutdownWebhook, CloseInformers, mainVars, settings, MainTypes
<1>4. CASE ConfigFails \/ Crash
  BY <1>a, <1>4, ExitTypes DEF ConfigFails, Fail, Crash
<1>5. CASE Signal
  <2>1. CASE Exit("killed") /\ UNCHANGED unreachable
    BY <1>a, <2>1, ExitTypes
  <2>2. CASE UNCHANGED mainVars
    BY <2>2 DEF mainVars, settings, MainTypes
  <2> QED
    BY <1>5, <2>1, <2>2 DEF Signal
<1>6. CASE Restart
  <2>1. restarts' \in 0..MaxRestarts
    BY <1>6, LifecycleAssumption DEF Restart, MainTypes, LifecycleAssumption
  <2>2. loaded'.collectors \subseteq Specs
    BY <1>6 DEF Restart, Nothing
  <2> QED
    BY <1>6, <2>1, <2>2 DEF Restart, settings, MainTypes, Phases, Startup
<1>7. CASE UNCHANGED mainVars
  BY <1>7 DEF mainVars, settings, MainTypes
<1> QED
  BY <1>1, <1>2, <1>3, <1>4, <1>5, <1>6, <1>7 DEF Next, vars

(* Type correctness of the whole process, the bounds of its counters        *)
(* included.                                                                *)
THEOREM LifecycleTypeCorrect == Spec => []TypeOK
<1>1. CollectorTypeOK /\ WebhookTypeOK /\ MainTypes => TypeOK
  BY DEF MainTypes, TypeOK
<1>2. Spec => []MainTypes
  BY MainTypesInit, MainTypesStep, PTL DEF Spec
<1> QED
  BY <1>1, <1>2, SnapshotsComplete, WebhookTypeCorrect, PTL

-----------------------------------------------------------------------------
(* The tickers.                                                             *)

(* What a valid profile has main start with are positive intervals.         *)
LEMMA ValidTickers ==
  ASSUME NEW p, ProfileValid(p),
         \A kind \in DOMAIN p.collectors : p.collectors[kind] \in Int,
         \A limit \in p.rateLimit : limit.per \in Int,
         NEW longest \in Int, longest > 0
  PROVE  \A i \in Tickers(p, longest) : i > 0
<1>1. ASSUME NEW limit \in p.rateLimit
      PROVE  LeastOf(limit.per, longest) > 0
  <2>1. limit.per \in Int /\ limit.per > 0
    BY DEF ProfileValid
  <2> QED
    BY <2>1 DEF LeastOf
<1>2. ASSUME NEW kind \in DOMAIN p.collectors
      PROVE  p.collectors[kind] > 0
  BY DEF ProfileValid
<1> QED
  BY <1>1, <1>2 DEF Tickers

(* TickersPositive: no ticker of a loaded profile panics.                   *)
THEOREM NoTickerPanics == Spec => []TickersPositive
<1>1. Init => TickersPositive
  BY DEF Init, Nothing, TickersPositive
<1>2. MainTypes /\ TickersPositive /\ [Next]_vars => TickersPositive'
  <2> SUFFICES ASSUME MainTypes, TickersPositive, [Next]_vars PROVE TickersPositive'
    OBVIOUS
  <2>1. CASE loaded' = loaded
    BY <2>1 DEF TickersPositive
  <2>2. CASE loaded' = Nothing
    BY <2>2 DEF Nothing, TickersPositive
  <2>3. CASE ProfileValid(ProfileIn[file]) /\ loaded' = Wanted(ProfileIn[file])
    <3>1. loaded'.tickers = Tickers(ProfileIn[file], 30)
      BY <2>3 DEF Wanted
    <3>2. \A i \in Tickers(ProfileIn[file], 30) : i > 0
      BY <2>3, ValidTickers, LifecycleAssumption DEF MainTypes, LifecycleAssumption
    <3> QED
      BY <3>1, <3>2 DEF TickersPositive
  <2>4. \/ loaded' = loaded
        \/ loaded' = Nothing
        \/ ProfileValid(ProfileIn[file]) /\ loaded' = Wanted(ProfileIn[file])
    <3>1. CASE Main
      BY <3>1 DEF Main, LoadProfile, ConnectKube, ResolveSecrets, NotifyContext, ReadBudget,
         WaitFails, ExitIfNotReady, GoCollectors, GoInformers, GoWebhook, BeginStop, Return,
         Fail, Exit, Stay, Same
    <3>2. CASE CheckSucceeds \/ ConfigFails \/ ShutdownWebhook \/ CloseInformers
      BY <3>2 DEF CheckSucceeds, ConfigFails, ShutdownWebhook, CloseInformers, Fail, Exit, Same,
         mainVars
    <3>3. CASE Signal \/ Crash \/ Restart
      BY <3>3 DEF Signal, Crash, Restart, Exit, mainVars
    <3>4. CASE UNCHANGED mainVars
      BY <3>4 DEF mainVars
    <3> QED
      BY <3>1, <3>2, <3>3, <3>4 DEF Next, vars
  <2> QED
    BY <2>1, <2>2, <2>3, <2>4
<1>3. Spec => []MainTypes
  BY MainTypesInit, MainTypesStep, PTL DEF Spec
<1> QED
  BY <1>1, <1>2, <1>3, PTL DEF Spec

=============================================================================
