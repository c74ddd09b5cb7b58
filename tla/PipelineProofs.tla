---------------------------- MODULE PipelineProofs ----------------------------
(***************************************************************************)
(* Proofs about Pipeline, for any objects, conditions and modes, any limit *)
(* and any number of events, hangs, late requests and restarts.            *)
(***************************************************************************)
EXTENDS Pipeline, ConditionTrackerProofs

-----------------------------------------------------------------------------
(* A step of the pipeline is one of the tracker's, or leaves the tracker    *)
(* alone, or is a restart.                                                  *)

LEMMA TrackerSteps ==
  [PipelineNext]_pipeline => [Next]_vars \/ Restart
<1> SUFFICES ASSUME [PipelineNext]_pipeline PROVE Next \/ UNCHANGED vars \/ Restart
  OBVIOUS
<1>1. ASSUME NEW k \in Keys, NEW new \in Versions, OnAdd(k, new) PROVE Next
  BY <1>1 DEF OnAdd, Next
<1>2. ASSUME NEW k \in Keys, NEW new \in Versions, NEW g \in BOOLEAN, OnUpdate(k, new, g) PROVE Next
  BY <1>2 DEF OnUpdate, Next
<1>3. ASSUME NEW k \in Keys, OnDelete(k) PROVE Next
  BY <1>3 DEF OnDelete, Next
<1>4. ASSUME NEW timer \in fired, OnFire(timer) PROVE Next
  BY <1>4 DEF OnFire, Next
<1>5. ASSUME NEW timer \in armed, OnExpire(timer) PROVE Next
  BY <1>5 DEF OnExpire, Next
<1>6. CASE OnClose \/ OnTick
  BY <1>6 DEF OnClose, OnTick, Next
<1>7. ASSUME NEW g \in Threads, SendNews(g) PROVE UNCHANGED vars
  BY <1>7 DEF SendNews
<1>8. ASSUME NEW g \in Threads, NEW o \in {"ok", "failed", "late"}, SendMessage(g, o)
      PROVE  UNCHANGED vars
  BY <1>8 DEF SendMessage
<1>9. ASSUME NEW m \in late, ArriveLate(m) PROVE UNCHANGED vars
  BY <1>9 DEF ArriveLate
<1>10. CASE OnPause \/ Hang \/ Recover \/ UNCHANGED pipeline
  BY <1>10 DEF OnPause, Hang, Recover, pipeline
<1> QED
  BY <1>1, <1>2, <1>3, <1>4, <1>5, <1>6, <1>7, <1>8, <1>9, <1>10 DEF PipelineNext

\* A restart forgets everything but the clock.
LEMMA RestartTracker ==
  ASSUME TypeOK, Restart
  PROVE  TypeOK' /\ PendingInv' /\ Living' /\ ToldInv'
<1>1. /\ UNCHANGED <<minDuration, clock, events, lives>>
      /\ store' = [k \in Keys |-> Gone] /\ objects' = [k \in Keys |-> NoState]
      /\ closed' = FALSE /\ armed' = {} /\ fired' = {} /\ pitch' = NoPitch
      /\ badSince' = [k \in Keys |-> Never] /\ told' = [k \in Keys |-> NoFlips]
  BY DEF Restart
<1>2. TypeOK'
  <2>1. store' \in [Keys -> Versions \cup {Gone}] /\ objects' \in [Keys -> ObjectState \cup {NoState}]
    BY <1>1
  <2>2. badSince' \in [Keys -> [watchedConditions -> Nat]]
    BY <1>1 DEF Never
  <2>3. told' \in [Keys -> [watchedConditions -> Conds \cup {Blank}]]
    BY <1>1 DEF NoFlips
  <2>4. closed' \in BOOLEAN
    BY <1>1
  <2> QED
    BY <1>1, <2>1, <2>2, <2>3, <2>4 DEF TypeOK
<1>3. PendingInv'
  BY <1>1 DEF PendingInv, PendingRight, Never, TypeOK
<1>4. Living'
  BY <1>1 DEF Living
<1>5. ToldInv'
  <2> SUFFICES ASSUME NEW k \in Keys, NEW t \in watchedConditions PROVE ToldRight(k, t)'
    BY DEF ToldInv
  <2>1. told'[k][t] = Blank /\ objects'[k] = NoState
    BY <1>1 DEF NoFlips
  <2>2. StateOf(k, t)' = Unset
    BY <2>1, ForgottenMaps
  <2> QED
    BY <2>1, <2>2, UnsetIsNoStatus DEF ToldRight, Statuses
<1> QED
  BY <1>2, <1>3, <1>4, <1>5

\* What holds of the tracker alone holds of it here.
LEMMA TrackerAlways == PipelineSpec => []TrackerInv
<1>1. PipelineInit => TrackerInv
  BY TrackerInit DEF PipelineInit
<1>2. TrackerInv /\ [PipelineNext]_pipeline => TrackerInv'
  BY TrackerSteps, RestartTracker, TrackerStep DEF TrackerInv
<1> QED
  BY <1>1, <1>2, PTL DEF PipelineSpec

LEMMA KnownAlways == PipelineSpec => []KnownInv
<1>1. PipelineInit => KnownInv
  BY DEF PipelineInit, Init, KnownInv, KnownRight
<1>2. Restart => KnownInv'
  BY DEF Restart, KnownInv, KnownRight
<1> QED
  BY <1>1, <1>2, KnownStep, TrackerSteps, TrackerAlways, PTL DEF PipelineSpec

-----------------------------------------------------------------------------
(* What is proved of the tracker in one life holds over all of them, and    *)
(* while goroutines keep each other waiting for t.mu.                       *)

LEMMA RestartForgets ==
  ASSUME Restart
  PROVE  /\ \A k \in Keys : objects'[k] = NoState
         /\ pitch' = NoPitch /\ closed' = FALSE /\ armed' = {} /\ fired' = {}
         /\ UNCHANGED <<minDuration, clock>>
  BY DEF Restart

\* The timers, and what was pitched last.
TimingInv == TimersInv /\ NoEarlyFailure /\ AsItIs

LEMMA TimingStep ==
  TrackerInv /\ KnownInv /\ TimingInv /\ [PipelineNext]_pipeline => TimingInv'
<1> SUFFICES ASSUME TrackerInv, KnownInv, TimingInv, [PipelineNext]_pipeline PROVE TimingInv'
  OBVIOUS
<1>1. CASE [Next]_vars
  BY <1>1, TimersStep, EarlyStep, AsItIsStep DEF TrackerInv, TimingInv
<1>2. CASE Restart
  BY <1>2, RestartForgets DEF TimingInv, TimersInv, TimerRight, NoEarlyFailure, AsItIs
<1> QED
  BY <1>1, <1>2, TrackerSteps

LEMMA TimingAlways == PipelineSpec => []TimingInv
<1>1. PipelineInit => TimingInv
  BY TimersInit DEF PipelineInit, Init, TimingInv, NoEarlyFailure, AsItIs
<1> QED
  BY <1>1, TimingStep, TrackerAlways, KnownAlways, PTL DEF PipelineSpec

(* No restart and no wait for t.mu, however long a target hangs, makes the  *)
(* tracker pitch a failure early, pitch one that the object does not have,  *)
(* lose a timer, or mistake what it has pitched (fire, schedule, update).   *)
THEOREM TrackerOutlivesTargets ==
  PipelineSpec =>
    [](PendingConsistent /\ NoLostTimer /\ OverdueIsUp /\ ToldIsReported
       /\ NoEarlyFailure /\ AsItIs)
<1>1. TrackerInv => PendingConsistent /\ ToldIsReported
  BY PendingConsists, ToldIsRight DEF TrackerInv
<1>2. TrackerInv /\ TimingInv => NoLostTimer /\ OverdueIsUp /\ NoEarlyFailure /\ AsItIs
  BY TimersThere, OverdueHasTimer DEF TrackerInv, TimingInv
<1> QED
  BY <1>1, <1>2, TrackerAlways, TimingAlways, PTL

(* With minDuration a recovery follows its failure, and no flip is pitched  *)
(* twice, in every life of the process (update, fire).                      *)
THEOREM FlipsOutliveTargets ==
  PipelineSpec => RecoveryAfterFailure /\ FlipsDiffer
<1>1. TrackerInv /\ [PipelineNext]_pipeline =>
        [\A k \in Keys, t \in watchedConditions :
            /\ minDuration > 0
            /\ pitch' # NoPitch
            /\ pitch'.key = k
            /\ pitch'.flips[t].status = "True"
            => told[k][t].status \in {"False", "Unknown"}]_vars
  BY TrackerSteps, RecoveryStep, RestartForgets DEF TrackerInv
<1>2. TrackerInv /\ [PipelineNext]_pipeline =>
        [\A k \in Keys, t \in watchedConditions :
            /\ pitch' # NoPitch
            /\ pitch'.key = k
            /\ pitch'.flips[t] # Blank
            => pitch'.flips[t].status # told[k][t].status]_vars
  BY TrackerSteps, FlipStep, RestartForgets DEF TrackerInv
<1> QED
  BY <1>1, <1>2, TrackerAlways, PTL DEF PipelineSpec, RecoveryAfterFailure, FlipsDiffer

\* The end of a life as LastingFailures sees it: everything is forgotten, and
\* the tracker runs again.
LifeEnds ==
  /\ ReportedMap' = [k \in Keys |-> LF!Nothing]
  /\ LatestMap' = [k \in Keys |-> LF!Nothing]
  /\ SinceMap' = [k \in Keys |-> LF!NoFailure]
  /\ closed' = FALSE
  /\ UNCHANGED <<minDuration, clock>>

(* Each life of the process implements what the README promises of lasting  *)
(* failures, with the tracker's thread waiting for its target as well.      *)
THEOREM EveryLifeImplementsLastingFailures ==
  PipelineSpec => LF!Init /\ [][LF!Next \/ LifeEnds]_LF!vars
<1>1. PipelineInit => LF!Init
  BY LastingInit DEF PipelineInit
<1>2. TrackerInv /\ [PipelineNext]_pipeline => [LF!Next \/ LifeEnds]_LF!vars
  <2>1. Restart => LifeEnds
    <3> SUFFICES ASSUME Restart PROVE LifeEnds
      OBVIOUS
    <3>1. \A k \in Keys, t \in watchedConditions :
            StateOf(k, t)' = LF!Unreported /\ LatestOf(k, t)' = LF!Unreported
            /\ SinceOf(k, t)' = 0
      BY RestartForgets, ForgottenMaps, NothingKnown
    <3> QED
      BY <3>1, RestartForgets
         DEF LifeEnds, ReportedMap, LatestMap, SinceMap, LF!Nothing, LF!NoFailure
  <2> QED
    BY <2>1, TrackerSteps, LastingStep DEF TrackerInv
<1> QED
  BY <1>1, <1>2, TrackerAlways, PTL DEF PipelineSpec

-----------------------------------------------------------------------------
(* What the parts of a step do.                                             *)

Fates == {"none", "sending", "dropped", "arrived", "lost", "late"}

FateTyped   == fate \in [Keys -> [watchedConditions -> Fates]]
ReaderTyped == reader \in [Keys -> [watchedConditions -> Statuses \cup {Unset}]]

LEMMA ThreadFacts == Nobody \notin Threads
  BY DEF Nobody, Threads

LEMMA NowFacts ==
  ASSUME FateTyped, NEW m \in Messages, NEW what \in Fates
  PROVE  /\ Now(m, what) \in [Keys -> [watchedConditions -> Fates]]
         /\ \A k \in Keys, t \in watchedConditions :
              Now(m, what)[k][t] = IF k = m.key /\ m.flips[t] # Blank THEN what ELSE fate[k][t]
<1> DEFINE f == [t \in watchedConditions |-> IF m.flips[t] # Blank THEN what ELSE fate[m.key][t]]
<1>1. m.key \in Keys
  BY DEF Messages
<1>2. f \in [watchedConditions -> Fates]
  BY <1>1 DEF FateTyped
<1>3. Now(m, what) = [fate EXCEPT ![m.key] = f]
  BY <1>1 DEF Now, FateTyped
<1>4. \A t \in watchedConditions : f[t] = IF m.flips[t] # Blank THEN what ELSE fate[m.key][t]
  OBVIOUS
<1> HIDE DEF f
<1> QED
  BY <1>1, <1>2, <1>3, <1>4 DEF FateTyped

LEMMA ReadFacts ==
  ASSUME ReaderTyped, NEW m \in Messages
  PROVE  /\ Read(m) \in [Keys -> [watchedConditions -> Statuses \cup {Unset}]]
         /\ \A k \in Keys, t \in watchedConditions :
              Read(m)[k][t] = IF k # m.key THEN reader[k][t]
                              ELSE IF m.about = "delete" THEN Unset
                              ELSE IF m.flips[t] # Blank THEN m.flips[t].status
                              ELSE reader[k][t]
<1> DEFINE f == [t \in watchedConditions |->
                   IF m.about = "delete" THEN Unset
                   ELSE IF m.flips[t] # Blank THEN m.flips[t].status ELSE reader[m.key][t]]
<1>1. m.key \in Keys /\ m.flips \in [watchedConditions -> Shown]
  BY DEF Messages, Shown
<1>2. \A t \in watchedConditions : m.flips[t] # Blank => m.flips[t].status \in Statuses
  BY <1>1, CondFacts DEF Shown
<1>3. f \in [watchedConditions -> Statuses \cup {Unset}]
  BY <1>1, <1>2 DEF ReaderTyped
<1>4. Read(m) = [reader EXCEPT ![m.key] = f]
  BY <1>1 DEF Read, ReaderTyped
<1>5. \A t \in watchedConditions :
        f[t] = IF m.about = "delete" THEN Unset
               ELSE IF m.flips[t] # Blank THEN m.flips[t].status ELSE reader[m.key][t]
  OBVIOUS
<1> HIDE DEF f
<1> QED
  BY <1>1, <1>3, <1>4, <1>5 DEF ReaderTyped

\* The types of the throttle.
GateTyped ==
  /\ quiet \subseteq WithKey
  /\ left \in 0 .. Budget
  /\ untold \in Nat
  /\ out \in [Threads -> [news : Nat, event : Messages \cup {NoMessage}]]

Entry(n, e) == [news |-> n, event |-> e]

LEMMA Admitted ==
  ASSUME GateTyped, NEW g \in Threads, NEW m \in Messages, Gate!Admit(g, m)
  PROVE  /\ GateTyped'
         /\ out[g] = Gate!Idle
         /\ \E n \in Nat, e \in {m, NoMessage} : out' = [out EXCEPT ![g] = Entry(n, e)]
<1> USE PipelineAssumption
<1>1. out[g] = Gate!Idle /\ 0 \in Nat
  BY DEF Gate!Admit
<1>2. ASSUME NEW news \in {0, untold}, Gate!Pass(g, m, news)
      PROVE  /\ quiet' \subseteq WithKey /\ left' \in 0 .. Budget /\ untold' \in Nat
             /\ news \in Nat /\ out' = [out EXCEPT ![g] = Entry(news, m)]
  BY <1>2 DEF Gate!Pass, Gate!Leave, GateTyped, Entry, WithKey
<1>3. ASSUME NEW news \in {0, untold}, Gate!Repeat(g, m, news)
      PROVE  /\ quiet' \subseteq WithKey /\ left' \in 0 .. Budget /\ untold' \in Nat
             /\ news \in Nat /\ out' = [out EXCEPT ![g] = Entry(news, NoMessage)]
  BY <1>3 DEF Gate!Repeat, Gate!Leave, GateTyped, Entry
<1>4. ASSUME Gate!Suppress(g, m)
      PROVE  /\ quiet' \subseteq WithKey /\ left' \in 0 .. Budget /\ untold' \in Nat
             /\ out' = [out EXCEPT ![g] = Entry(0, NoMessage)]
  BY <1>4 DEF Gate!Suppress, Gate!Leave, GateTyped, Entry
<1>5. /\ quiet' \subseteq WithKey /\ left' \in 0 .. Budget /\ untold' \in Nat
      /\ \E n \in Nat, e \in {m, NoMessage} : out' = [out EXCEPT ![g] = Entry(n, e)]
  BY <1>1, <1>2, <1>3, <1>4 DEF Gate!Admit
<1>6. out' \in [Threads -> [news : Nat, event : Messages \cup {NoMessage}]]
  BY <1>5 DEF GateTyped, Entry
<1> QED
  BY <1>1, <1>5, <1>6 DEF GateTyped

\* What the tracker pitches in a step, as a message.
Pitched == MessageOf(pitch'.key, "update", pitch'.flips)

LEMMA PitchingFacts ==
  ASSUME GateTyped, FateTyped, NEW g \in Threads, pitch' \in Pitch \cup {NoPitch}, Pitching(g)
  PROVE  /\ mu = Nobody /\ out[g] = Gate!Idle /\ UNCHANGED <<mode, outside>>
         /\ GateTyped' /\ FateTyped'
         /\ \/ pitch' = NoPitch /\ UNCHANGED <<throttle, mu, fate>>
            \/ /\ pitch' # NoPitch /\ Pitched \in Messages
               /\ \E n \in Nat, e \in {Pitched, NoMessage} : out' = [out EXCEPT ![g] = Entry(n, e)]
               /\ mu' = Held(g)
               /\ \A k \in Keys, t \in watchedConditions :
                    IF k = pitch'.key /\ pitch'.flips[t] # Blank
                    THEN fate'[k][t] = IF out'[g].event = Pitched THEN "sending" ELSE "dropped"
                    ELSE fate'[k][t] = fate[k][t]
<1>1. mu = Nobody /\ out[g] = Gate!Idle /\ UNCHANGED <<mode, outside>>
  BY DEF Pitching
<1>2. CASE pitch' = NoPitch
  <2>1. UNCHANGED <<throttle, mu, fate>>
    BY <1>2 DEF Pitching
  <2> QED
    BY <1>1, <1>2, <2>1 DEF throttle, GateTyped, FateTyped
<1>3. CASE pitch' # NoPitch
  <2>1. Pitched \in Messages /\ Pitched.key = pitch'.key /\ Pitched.flips = pitch'.flips
    BY <1>3 DEF Pitched, MessageOf, Messages, Pitch
  <2>2. Decide(g, Pitched) /\ mu' = Held(g)
    BY <1>3 DEF Pitching, Pitched
  <2> DEFINE what == IF out'[g].event = Pitched THEN "sending" ELSE "dropped"
  <2>3. fate' = Now(Pitched, what)
    BY <2>2 DEF Decide
  <2>4. what \in Fates
    BY DEF Fates
  <2> HIDE DEF what
  <2>5. /\ GateTyped'
        /\ \E n \in Nat, e \in {Pitched, NoMessage} : out' = [out EXCEPT ![g] = Entry(n, e)]
    BY <2>1, <2>2, Admitted DEF Decide
  <2>6. FateTyped'
    BY <2>1, <2>3, <2>4, NowFacts DEF FateTyped
  <2>7. \A k \in Keys, t \in watchedConditions :
          IF k = pitch'.key /\ pitch'.flips[t] # Blank
          THEN fate'[k][t] = what ELSE fate'[k][t] = fate[k][t]
    BY <2>1, <2>3, <2>4, NowFacts
  <2> USE DEF what
  <2> QED
    BY <1>1, <1>3, <2>1, <2>2, <2>5, <2>6, <2>7
<1> QED
  BY <1>2, <1>3

-----------------------------------------------------------------------------
(* Types, and who holds t.mu.                                               *)

Locked ==
  /\ mu \in Threads \cup {Nobody}
  /\ mu # Nobody => out[mu] # Gate!Idle
  /\ out["timer"] # Gate!Idle => mu = "timer"

WorldTyped ==
  /\ mode \in {"http", "redis", "file"}
  /\ late \subseteq Messages
  /\ ReaderTyped
  /\ FateTyped

Typed == GateTyped /\ Locked /\ WorldTyped

LEMMA TypedIs == Typed <=> PipelineTypeOK
  BY DEF Typed, GateTyped, Locked, WorldTyped, ReaderTyped, FateTyped, Fates, PipelineTypeOK

LEMMA IdleFacts ==
  ASSUME GateTyped, NEW g \in Threads
  PROVE  /\ out[g] = Gate!Idle <=> out[g].news = 0 /\ out[g].event = NoMessage
         /\ Gate!Idle = Entry(0, NoMessage)
  BY DEF GateTyped, Gate!Idle, Entry

LEMMA PitchingTyped ==
  ASSUME Typed, NEW g \in Threads, pitch' \in Pitch \cup {NoPitch}, Pitching(g)
  PROVE  Typed'
<1>1. GateTyped' /\ FateTyped' /\ UNCHANGED <<mode, outside>>
  BY PitchingFacts DEF Typed, WorldTyped
<1>2. WorldTyped'
  BY <1>1 DEF Typed, WorldTyped, ReaderTyped, outside
<1>3. Locked'
  <2>1. CASE pitch' = NoPitch
    <3>1. UNCHANGED <<throttle, mu, fate>>
      BY <2>1 DEF Pitching
    <3> QED
      BY <3>1 DEF Typed, Locked, throttle
  <2>2. CASE pitch' # NoPitch
    <3>1. PICK n \in Nat, e \in {Pitched, NoMessage} : out' = [out EXCEPT ![g] = Entry(n, e)]
      BY <2>2, PitchingFacts DEF Typed, WorldTyped
    <3>2. /\ mu = Nobody /\ mu' = IF out'[g] # Gate!Idle THEN g ELSE Nobody
          /\ \A h \in Threads \ {g} : out'[h] = out[h]
      BY <2>2, <3>1 DEF Pitching, Held, Typed, GateTyped
    <3>3. "timer" \in Threads
      BY DEF Threads
    <3> QED
      BY <3>2, <3>3, ThreadFacts DEF Typed, Locked
  <2> QED
    BY <2>1, <2>2
<1> QED
  BY <1>1, <1>2, <1>3 DEF Typed

LEMMA ReleasedLocked ==
  ASSUME Typed, GateTyped', NEW g \in Threads, NEW v, out' = [out EXCEPT ![g] = v],
         out[g] # Gate!Idle, Released(g)
  PROVE  Locked'
<1>1. /\ mu' = IF mu = g /\ out'[g] = Gate!Idle THEN Nobody ELSE mu
      /\ \A h \in Threads \ {g} : out'[h] = out[h]
  BY DEF Released, Typed, GateTyped
<1>2. "timer" \in Threads
  BY DEF Threads
<1>3. mu' \in Threads \cup {Nobody}
  BY <1>1 DEF Typed, Locked
<1>4. ASSUME mu' # Nobody PROVE out'[mu'] # Gate!Idle
  BY <1>1, <1>4 DEF Typed, Locked
<1>5. ASSUME out'["timer"] # Gate!Idle PROVE mu' = "timer"
  BY <1>1, <1>2, <1>5 DEF Typed, Locked
<1> QED
  BY <1>3, <1>4, <1>5 DEF Locked

LEMMA SendNewsTyped ==
  ASSUME Typed, NEW g \in Threads, SendNews(g)
  PROVE  Typed'
<1>1. /\ out[g].news # 0 /\ out' = [out EXCEPT ![g].news = 0]
      /\ UNCHANGED <<quiet, left, untold>> /\ Released(g)
      /\ UNCHANGED <<mode, fate, outside>>
  BY DEF SendNews, Gate!SendNews
<1>2. GateTyped'
  BY <1>1 DEF Typed, GateTyped
<1>3. out' = [out EXCEPT ![g] = [out[g] EXCEPT !.news = 0]] /\ out[g] # Gate!Idle
  BY <1>1, IdleFacts DEF Typed, GateTyped
<1>4. Locked'
  BY <1>1, <1>2, <1>3, ReleasedLocked
<1>5. WorldTyped'
  BY <1>1 DEF Typed, WorldTyped, ReaderTyped, FateTyped, outside
<1> QED
  BY <1>2, <1>4, <1>5 DEF Typed

LEMMA SendFacts ==
  ASSUME Typed, NEW g \in Threads, NEW o \in {"ok", "failed", "late"}, SendMessage(g, o)
  PROVE  LET m == out[g].event IN
         /\ m \in Messages /\ m # NoMessage
         /\ out' = [out EXCEPT ![g] = Entry(0, NoMessage)]
         /\ UNCHANGED <<quiet, left, untold, mode>> /\ Released(g)
         /\ reader' = IF o = "ok" THEN Read(m) ELSE reader
         /\ fate' = Now(m, IF o = "ok" THEN "arrived" ELSE "lost")
         /\ late' \subseteq late \cup {m}
<1>1. /\ out[g].news = 0 /\ out[g].event # NoMessage
      /\ out' = [out EXCEPT ![g].event = NoMessage]
  BY DEF SendMessage, Gate!SendEvent
<1>2. out[g] \in [news : Nat, event : Messages \cup {NoMessage}]
  BY DEF Typed, GateTyped
<1>3. [out[g] EXCEPT !.event = NoMessage] = Entry(0, NoMessage)
  BY <1>1, <1>2 DEF Entry
<1>4. out' = [out EXCEPT ![g] = Entry(0, NoMessage)]
  BY <1>1, <1>3
<1> QED
  BY <1>1, <1>2, <1>4 DEF SendMessage, Gate!SendEvent

LEMMA SendMessageTyped ==
  ASSUME Typed, NEW g \in Threads, NEW o \in {"ok", "failed", "late"}, SendMessage(g, o)
  PROVE  Typed'
<1> DEFINE m == out[g].event
<1>1. /\ m \in Messages /\ m # NoMessage
      /\ out' = [out EXCEPT ![g] = Entry(0, NoMessage)]
      /\ UNCHANGED <<quiet, left, untold, mode>> /\ Released(g)
      /\ reader' = IF o = "ok" THEN Read(m) ELSE reader
      /\ late' \subseteq late \cup {m}
  BY SendFacts
<1>2. PICK what \in Fates : fate' = Now(m, what)
  BY SendFacts DEF Fates
<1>3. GateTyped'
  BY <1>1 DEF Typed, GateTyped, Entry
<1>4. out[g] # Gate!Idle
  BY <1>1, IdleFacts DEF Typed
<1>5. Locked'
  BY <1>1, <1>3, <1>4, ReleasedLocked
<1>6. FateTyped' /\ ReaderTyped'
  BY <1>1, <1>2, NowFacts, ReadFacts DEF Typed, WorldTyped, FateTyped, ReaderTyped
<1>7. WorldTyped'
  BY <1>1, <1>6 DEF Typed, WorldTyped
<1> QED
  BY <1>3, <1>5, <1>7 DEF Typed

\* Steps that leave the throttle, the lock and the messages alone.
LEMMA AloneTyped ==
  ASSUME Typed, UNCHANGED <<mode, throttle, mu, fate, reader, late>>
  PROVE  Typed'
  BY DEF Typed, GateTyped, Locked, WorldTyped, ReaderTyped, FateTyped, throttle

LEMMA DeleteFacts ==
  ASSUME Typed, NEW k \in Keys, OnDelete(k)
  PROVE  /\ mu = Nobody /\ out["informer"] = Gate!Idle
         /\ GateTyped' /\ Delete(k) /\ UNCHANGED <<mode, mu, outside>>
         /\ fate' = [fate EXCEPT ![k] = [t \in watchedConditions |-> "none"]]
         /\ MessageOf(k, "delete", NoFlips) \in Messages
         /\ \E n \in Nat, e \in {MessageOf(k, "delete", NoFlips), NoMessage} :
              out' = [out EXCEPT !["informer"] = Entry(n, e)]
<1>1. MessageOf(k, "delete", NoFlips) \in Messages
  BY DEF MessageOf, Messages, NoFlips
<1>2. Gate!Admit("informer", MessageOf(k, "delete", NoFlips)) /\ "informer" \in Threads
  BY DEF OnDelete, Threads
<1>3. GateTyped
  BY DEF Typed
<1> QED
  BY <1>1, <1>2, <1>3, Admitted DEF OnDelete

LEMMA DeleteTyped ==
  ASSUME Typed, NEW k \in Keys, OnDelete(k)
  PROVE  Typed'
<1>1. /\ mu = Nobody /\ GateTyped' /\ UNCHANGED <<mode, mu, outside>>
      /\ fate' = [fate EXCEPT ![k] = [t \in watchedConditions |-> "none"]]
  BY DeleteFacts
<1>2. out'["timer"] = out["timer"]
  BY DeleteFacts DEF Typed, GateTyped, Threads
<1>3. Locked'
  BY <1>1, <1>2, ThreadFacts DEF Typed, Locked
<1>4. FateTyped'
  BY <1>1 DEF Typed, WorldTyped, FateTyped, Fates
<1>5. WorldTyped'
  BY <1>1, <1>4 DEF Typed, WorldTyped, ReaderTyped, outside
<1> QED
  BY <1>1, <1>3, <1>5 DEF Typed

LEMMA LateFacts ==
  ASSUME Typed, NEW m \in late, ArriveLate(m)
  PROVE  /\ m \in Messages /\ UNCHANGED <<vars, mode, throttle, mu>>
         /\ late' \subseteq late /\ reader' = Read(m) /\ FateTyped'
         /\ \A k \in Keys, t \in watchedConditions :
              /\ k = m.key /\ (m.about = "delete" \/ m.flips[t] # Blank) => fate'[k][t] = "late"
              /\ fate'[k][t] \in {"late", fate[k][t]}
<1>1. m \in Messages /\ m.key \in Keys /\ FateTyped /\ "late" \in Fates
  BY DEF Typed, WorldTyped, Messages, Fates
<1>2. UNCHANGED <<vars, mode, throttle, mu>> /\ late' \subseteq late /\ reader' = Read(m)
  BY DEF ArriveLate
<1>3. CASE m.about = "delete"
  <2>1. fate' = [fate EXCEPT ![m.key] = [t \in watchedConditions |-> "late"]]
    BY <1>3 DEF ArriveLate
  <2> QED
    BY <1>1, <1>2, <2>1 DEF FateTyped
<1>4. CASE m.about # "delete"
  <2>1. fate' = Now(m, "late")
    BY <1>4 DEF ArriveLate
  <2> QED
    BY <1>1, <1>2, <1>4, <2>1, NowFacts DEF FateTyped
<1> QED
  BY <1>3, <1>4

LEMMA LateTyped ==
  ASSUME Typed, NEW m \in late, ArriveLate(m)
  PROVE  Typed'
<1>1. /\ m \in Messages /\ UNCHANGED <<vars, mode, throttle, mu>>
      /\ late' \subseteq late /\ reader' = Read(m) /\ FateTyped'
  BY LateFacts
<1>2. ReaderTyped'
  BY <1>1, ReadFacts DEF Typed, WorldTyped, ReaderTyped
<1> QED
  BY <1>1, <1>2 DEF Typed, GateTyped, Locked, WorldTyped, throttle

LEMMA RestartTyped ==
  ASSUME Typed, Restart
  PROVE  Typed'
<1>1. /\ quiet' = {} /\ left' = Budget /\ untold' = 0
      /\ out' = [g \in Threads |-> Gate!Idle] /\ mu' = Nobody
      /\ fate' = [k \in Keys |-> [t \in watchedConditions |-> "none"]]
      /\ UNCHANGED <<mode, reader>>
  BY DEF Restart
<1>2. GateTyped'
  BY <1>1, PipelineAssumption DEF GateTyped, Gate!Idle
<1>3. Locked'
  BY <1>1 DEF Locked, Threads
<1>4. late' \subseteq Messages
  BY DEF Restart, Typed, WorldTyped, GateTyped
<1>5. FateTyped'
  BY <1>1 DEF FateTyped, Fates
<1> QED
  BY <1>1, <1>2, <1>3, <1>4, <1>5 DEF Typed, WorldTyped, ReaderTyped

LEMMA PipelineTypeInit == PipelineInit => Typed
<1> SUFFICES ASSUME PipelineInit PROVE Typed
  OBVIOUS
<1>1. GateTyped
  BY PipelineAssumption DEF PipelineInit, Gate!Init, GateTyped, Gate!Idle
<1>2. Locked
  BY DEF PipelineInit, Gate!Init, Locked, Threads
<1>3. FateTyped /\ ReaderTyped
  BY DEF PipelineInit, FateTyped, ReaderTyped, Fates
<1>4. mode \in {"http", "redis", "file"} /\ late \subseteq Messages
  BY PipelineAssumption DEF PipelineInit
<1> QED
  BY <1>1, <1>2, <1>3, <1>4 DEF Typed, WorldTyped

LEMMA PipelineTypeStep == TypeOK /\ TypeOK' /\ Typed /\ [PipelineNext]_pipeline => Typed'
<1> SUFFICES ASSUME TypeOK, TypeOK', Typed, [PipelineNext]_pipeline PROVE Typed'
  OBVIOUS
<1>0. pitch' \in Pitch \cup {NoPitch}
  BY DEF TypeOK
<1>1. ASSUME NEW k \in Keys, NEW new \in Versions, OnAdd(k, new) PROVE Typed'
  BY <1>1, AloneTyped DEF OnAdd, outside
<1>2. ASSUME NEW k \in Keys, NEW new \in Versions, NEW g \in BOOLEAN, OnUpdate(k, new, g) PROVE Typed'
  BY <1>0, <1>2, PitchingTyped DEF OnUpdate, Threads
<1>3. ASSUME NEW k \in Keys, OnDelete(k) PROVE Typed'
  BY <1>3, DeleteTyped
<1>4. ASSUME NEW timer \in fired, OnFire(timer) PROVE Typed'
  BY <1>0, <1>4, PitchingTyped DEF OnFire, Threads
<1>5. ASSUME NEW timer \in armed, OnExpire(timer) PROVE Typed'
  BY <1>5, AloneTyped DEF OnExpire, outside
<1>6. CASE OnClose \/ OnTick
  BY <1>6, AloneTyped DEF OnClose, OnTick, outside
<1>7. ASSUME NEW g \in Threads, SendNews(g) PROVE Typed'
  BY <1>7, SendNewsTyped
<1>8. ASSUME NEW g \in Threads, NEW o \in {"ok", "failed", "late"}, SendMessage(g, o) PROVE Typed'
  BY <1>8, SendMessageTyped
<1>9. ASSUME NEW m \in late, ArriveLate(m) PROVE Typed'
  BY <1>9, LateTyped
<1>10. CASE Hang \/ Recover \/ UNCHANGED pipeline
  BY <1>10, AloneTyped DEF Hang, Recover, pipeline, outside
<1>11. CASE OnPause
  <2>1. /\ quiet' \in SUBSET quiet /\ left' \in {left, Budget}
        /\ UNCHANGED <<untold, out, mode, mu, fate, reader, late>>
    BY <1>11 DEF OnPause, Gate!Pause, outside
  <2> QED
    BY <2>1, PipelineAssumption
       DEF Typed, GateTyped, Locked, WorldTyped, ReaderTyped, FateTyped
<1>12. CASE Restart
  BY <1>12, RestartTyped
<1> QED
  BY <1>1, <1>2, <1>3, <1>4, <1>5, <1>6, <1>7, <1>8, <1>9, <1>10, <1>11, <1>12 DEF PipelineNext

LEMMA TypedAlways == PipelineSpec => []Typed
<1>1. TrackerInv => TypeOK
  BY DEF TrackerInv
<1> QED
  BY <1>1, PipelineTypeInit, PipelineTypeStep, TrackerAlways, PTL DEF PipelineSpec

(* Types; t.mu is held only by a thread that has something to send, and a   *)
(* timer's goroutine sends only while it holds t.mu (update, fire).         *)
THEOREM PipelineTypeCorrect == PipelineSpec => []PipelineTypeOK
  BY TypedAlways, TypedIs, PTL

-----------------------------------------------------------------------------
(* What is on its way is what was last told, of an object whose tracker     *)
(* nothing can change until it is sent; or a delete, whose object cannot    *)
(* come back before.  What has arrived is what was last told.               *)

UpdateUnderWay(g, m) ==
  /\ m.about = "update" /\ mu = g /\ ~closed /\ objects[m.key] # NoState
  /\ \A t \in watchedConditions : m.flips[t] # Blank => told[m.key][t] = m.flips[t]

DeleteUnderWay(g, m) ==
  /\ m.about = "delete" /\ g = "informer" /\ m.flips = NoFlips /\ store[m.key] = Gone
  /\ \A t \in watchedConditions : fate[m.key][t] # "arrived"

UnderWay(g) ==
  out[g].event # NoMessage =>
    UpdateUnderWay(g, out[g].event) \/ DeleteUnderWay(g, out[g].event)

ArrivedRight(k, t) ==
  fate[k][t] = "arrived" /\ ~closed =>
    told[k][t] # Blank /\ reader[k][t] = told[k][t].status

FlightInv == \A g \in Threads : UnderWay(g)

ArrivedInv == \A k \in Keys, t \in watchedConditions : ArrivedRight(k, t)

\* told follows what the tracker pitches.
LEMMA ToldFollows ==
  ASSUME TypeOK, \/ \E k \in Keys, new \in Versions, g \in BOOLEAN : Update(k, new, g)
                 \/ \E timer \in fired : Fire(timer)
  PROVE  \A k \in Keys, t \in watchedConditions :
           told'[k][t] = IF Sent(k, t)' THEN pitch'.flips[t] ELSE told[k][t]
<1> SUFFICES ASSUME NEW k \in Keys, NEW t \in watchedConditions
             PROVE  told'[k][t] = IF Sent(k, t)' THEN pitch'.flips[t] ELSE told[k][t]
  OBVIOUS
<1>1. ASSUME NEW j \in Keys, NEW kind \in {"flips", "failures"},
             NEW flips \in [watchedConditions -> Shown], PitchFlips(j, kind, flips)
      PROVE  told'[k][t] = IF Sent(k, t)' THEN pitch'.flips[t] ELSE told[k][t]
  <2>1. pitch' = [kind |-> kind, key |-> j, flips |-> flips]
    BY <1>1 DEF PitchFlips
  <2>2. told'[k][t] = IF k = j /\ flips[t] # Blank THEN flips[t] ELSE told[k][t]
    BY <1>1 DEF PitchFlips, TypeOK
  <2>3. pitch'.key = j /\ pitch'.flips = flips
    BY <2>1
  <2>4. pitch' # NoPitch
    BY <1>1, PitchTyped, AbsenceAssumption
  <2> QED
    BY <2>2, <2>3, <2>4 DEF Sent
<1>2. ASSUME UNCHANGED told, pitch' = NoPitch \/ pitch'.flips = NoFlips
      PROVE  told'[k][t] = IF Sent(k, t)' THEN pitch'.flips[t] ELSE told[k][t]
  BY <1>2 DEF Sent, NoFlips
<1>3. ASSUME NEW j \in Keys, NEW new \in Versions, NEW g \in BOOLEAN, Update(j, new, g)
      PROVE  told'[k][t] = IF Sent(k, t)' THEN pitch'.flips[t] ELSE told[k][t]
  <2>1. CASE closed
    BY <1>2, <1>3, <2>1 DEF Update, history
  <2>2. CASE ~closed
    <3>1. UpdateOpen(j, new, g)
      BY <1>3, <2>2 DEF Update
    <3>2. \/ PitchFlips(j, "flips", Flips(j, new))
          \/ UNCHANGED told /\ (pitch' = NoPitch \/ pitch'.flips = NoFlips)
      BY <3>1 DEF UpdateOpen, Flips
    <3>3. Flips(j, new) \in [watchedConditions -> Shown]
      BY <1>3, FlipFacts DEF Flips, Shown, Update
    <3> QED
      BY <1>1, <1>2, <3>2, <3>3
  <2> QED
    BY <2>1, <2>2
<1>4. ASSUME NEW timer \in fired, Fire(timer)
      PROVE  told'[k][t] = IF Sent(k, t)' THEN pitch'.flips[t] ELSE told[k][t]
  <2>1. \/ PitchFlips(timer.key, "failures", Failures(objects[timer.key]))
        \/ UNCHANGED told /\ pitch' = NoPitch
    BY <1>4 DEF Fire, Failures
  <2>2. timer.key \in Keys
    BY DEF TypeOK, Timer
  <2>3. CASE Stale(timer)
    BY <1>2, <1>4, <2>3 DEF Fire
  <2>4. CASE ~Stale(timer)
    <3>1. objects[timer.key] \in ObjectState
      BY <2>2, <2>4 DEF Stale, TypeOK
    <3>2. Failures(objects[timer.key]) \in [watchedConditions -> Shown]
      BY <3>1 DEF Failures, ObjectState, Shown
    <3> QED
      BY <1>1, <1>2, <2>1, <2>2, <3>2
  <2> QED
    BY <2>3, <2>4
<1> QED
  BY <1>3, <1>4

\* A tracker step that pitches: what it pitches is told, and on its way if the
\* throttle passes it; the other thread has at most a delete on its way.
LEMMA PitchingFlight ==
  ASSUME Typed, TypeOK', FlightInv, ArrivedInv, NEW g \in Threads, Pitching(g),
         \A k \in Keys, t \in watchedConditions :
           told'[k][t] = IF Sent(k, t)' THEN pitch'.flips[t] ELSE told[k][t],
         closed' = closed,
         pitch' # NoPitch => objects'[pitch'.key] # NoState /\ ~closed,
         \A k \in Keys : store[k] = Gone => store'[k] = Gone
  PROVE  FlightInv' /\ ArrivedInv'
<1>1. pitch' \in Pitch \cup {NoPitch} /\ NoPitch \notin Pitch /\ NoMessage \notin Messages
  BY AbsenceAssumption, PipelineAssumption DEF TypeOK
<1>2. /\ mu = Nobody /\ out[g] = Gate!Idle /\ UNCHANGED outside
      /\ \/ pitch' = NoPitch /\ UNCHANGED <<throttle, mu, fate>>
         \/ /\ pitch' # NoPitch /\ Pitched \in Messages
            /\ \E n \in Nat, e \in {Pitched, NoMessage} : out' = [out EXCEPT ![g] = Entry(n, e)]
            /\ mu' = Held(g)
            /\ \A k \in Keys, t \in watchedConditions :
                 IF k = pitch'.key /\ pitch'.flips[t] # Blank
                 THEN fate'[k][t] = IF out'[g].event = Pitched THEN "sending" ELSE "dropped"
                 ELSE fate'[k][t] = fate[k][t]
  BY <1>1, PitchingFacts DEF Typed, WorldTyped
<1>3. \A k \in Keys, t \in watchedConditions :
        IF Sent(k, t)' THEN fate'[k][t] # "arrived" ELSE fate'[k][t] = fate[k][t]
  BY <1>2 DEF Sent
<1>4. ArrivedInv'
  <2> SUFFICES ASSUME NEW k \in Keys, NEW t \in watchedConditions PROVE ArrivedRight(k, t)'
    BY DEF ArrivedInv
  <2>1. reader' = reader
    BY <1>2 DEF outside
  <2> QED
    BY <1>3, <2>1 DEF ArrivedInv, ArrivedRight
<1>5. ASSUME NEW h \in Threads, out'[h] = out[h] PROVE UnderWay(h)'
  <2>1. ~UpdateUnderWay(h, out[h].event)
    BY <1>2, ThreadFacts DEF UpdateUnderWay
  <2>2. CASE out[h].event = NoMessage
    BY <1>5, <2>2 DEF UnderWay
  <2>3. CASE out[h].event # NoMessage
    <3> DEFINE m == out[h].event
    <3>1. DeleteUnderWay(h, m) /\ m \in Messages
      BY <2>1, <2>3 DEF FlightInv, UnderWay, Typed, GateTyped
    <3>2. m.key \in Keys
      BY <3>1 DEF Messages
    <3>3. DeleteUnderWay(h, m)'
      BY <1>3, <1>5, <3>1, <3>2 DEF DeleteUnderWay
    <3> QED
      BY <3>3 DEF UnderWay
  <2> QED
    BY <2>2, <2>3
<1>6. CASE pitch' = NoPitch
  <2>1. \A h \in Threads : out'[h] = out[h]
    BY <1>2, <1>6 DEF throttle
  <2> QED
    BY <1>4, <1>5, <2>1 DEF FlightInv
<1>7. CASE pitch' # NoPitch
  <2>1. PICK n \in Nat, e \in {Pitched, NoMessage} : out' = [out EXCEPT ![g] = Entry(n, e)]
    BY <1>2, <1>7
  <2>2. /\ \A h \in Threads \ {g} : out'[h] = out[h]
        /\ out'[g] = Entry(n, e)
    BY <2>1 DEF Typed, GateTyped
  <2>3. UnderWay(g)'
    <3>0. e = NoMessage \/ e = Pitched
      OBVIOUS
    <3> SUFFICES ASSUME e # NoMessage PROVE UpdateUnderWay(g, e)'
      BY <2>2 DEF UnderWay, Entry
    <3>1. mu' = g
      BY <1>2, <1>7, <2>2 DEF Held, Entry, Gate!Idle
    <3>2. e.about = "update" /\ e.key = pitch'.key /\ e.flips = pitch'.flips
      BY <3>0 DEF Pitched, MessageOf
    <3>3. ~closed' /\ objects'[pitch'.key] # NoState /\ pitch'.key \in Keys
      BY <1>1, <1>7 DEF Pitch
    <3>4. \A t \in watchedConditions : pitch'.flips[t] # Blank => told'[pitch'.key][t] = pitch'.flips[t]
      BY <1>7, <3>3 DEF Sent
    <3> QED
      BY <3>1, <3>2, <3>3, <3>4 DEF UpdateUnderWay
  <2> QED
    BY <1>4, <1>5, <2>2, <2>3 DEF FlightInv
<1> QED
  BY <1>6, <1>7

LEMMA UpdateFlight ==
  ASSUME TypeOK, TypeOK', Typed, FlightInv, ArrivedInv,
         NEW k \in Keys, NEW new \in Versions, NEW g \in BOOLEAN, OnUpdate(k, new, g)
  PROVE  FlightInv' /\ ArrivedInv'
<1>1. Update(k, new, g) /\ Pitching("informer") /\ "informer" \in Threads
  BY DEF OnUpdate, Threads
<1>2. \A j \in Keys, t \in watchedConditions :
        told'[j][t] = IF Sent(j, t)' THEN pitch'.flips[t] ELSE told[j][t]
  BY <1>1, ToldFollows
<1>3. closed' = closed /\ \A j \in Keys : store[j] = Gone => store'[j] = Gone
  BY <1>1 DEF Update, TypeOK
<1>4. ASSUME pitch' # NoPitch PROVE objects'[pitch'.key] # NoState /\ ~closed
  <2>1. ~closed
    BY <1>1, <1>4 DEF Update
  <2>2. pitch'.key = k
    BY <1>1, <1>4, <2>1 DEF Update, UpdateOpen, PitchFlips
  <2>3. Shows(k, new)
    BY <1>1, <2>1, UpdateShows
  <2> QED
    BY <2>1, <2>2, <2>3, ShownFields
<1> QED
  BY <1>1, <1>2, <1>3, <1>4, PitchingFlight

LEMMA FireFlight ==
  ASSUME TypeOK, TypeOK', Typed, FlightInv, ArrivedInv, NEW timer \in fired, OnFire(timer)
  PROVE  FlightInv' /\ ArrivedInv'
<1>1. Fire(timer) /\ Pitching("timer") /\ "timer" \in Threads /\ timer.key \in Keys
  BY DEF OnFire, Threads, TypeOK, Timer
<1>2. \A j \in Keys, t \in watchedConditions :
        told'[j][t] = IF Sent(j, t)' THEN pitch'.flips[t] ELSE told[j][t]
  BY <1>1, ToldFollows
<1>3. closed' = closed /\ \A j \in Keys : store[j] = Gone => store'[j] = Gone
  BY <1>1 DEF Fire
<1>4. ASSUME pitch' # NoPitch PROVE objects'[pitch'.key] # NoState /\ ~closed
  <2>1. ~Stale(timer) /\ pitch'.key = timer.key
    BY <1>1, <1>4 DEF Fire, PitchFlips
  <2>2. Reports(timer.key)
    BY <1>1, <2>1, FireReports
  <2> QED
    BY <1>1, <2>1, <2>2, ReportedFields DEF Stale
<1> QED
  BY <1>1, <1>2, <1>3, <1>4, PitchingFlight

\* Steps that change nothing the two speak of.
LEMMA AloneFlight ==
  ASSUME FlightInv, ArrivedInv, UNCHANGED <<out, mu, fate, reader, closed, objects, told>>,
         \A k \in Keys : store[k] = Gone => store'[k] = Gone, Typed
  PROVE  FlightInv' /\ ArrivedInv'
<1>1. ArrivedInv'
  BY DEF ArrivedInv, ArrivedRight
<1>2. \A g \in Threads : out[g].event # NoMessage => out[g].event \in Messages
  BY DEF Typed, GateTyped
<1>3. \A m \in Messages : m.key \in Keys
  BY DEF Messages
<1> QED
  BY <1>1, <1>2, <1>3 DEF FlightInv, UnderWay, UpdateUnderWay, DeleteUnderWay

LEMMA DeleteFlight ==
  ASSUME TypeOK, Typed, FlightInv, ArrivedInv, NEW k \in Keys, OnDelete(k)
  PROVE  FlightInv' /\ ArrivedInv'
<1> DEFINE d == MessageOf(k, "delete", NoFlips)
<1>1. /\ mu = Nobody /\ UNCHANGED <<mu, outside>> /\ Delete(k)
      /\ fate' = [fate EXCEPT ![k] = [t \in watchedConditions |-> "none"]]
      /\ \E n \in Nat, e \in {d, NoMessage} : out' = [out EXCEPT !["informer"] = Entry(n, e)]
  BY DeleteFacts
<1>2. /\ store'[k] = Gone /\ closed' = closed
      /\ \A j \in Keys : j # k => store'[j] = store[j] /\ told'[j] = told[j]
  BY <1>1 DEF Delete, TypeOK
<1>3. \A j \in Keys, t \in watchedConditions :
        fate'[j][t] = IF j = k THEN "none" ELSE fate[j][t]
  BY <1>1 DEF Typed, WorldTyped, FateTyped
<1>4. ArrivedInv'
  BY <1>1, <1>2, <1>3 DEF ArrivedInv, ArrivedRight, outside
<1>5. UnderWay("informer")'
  <2>1. PICK n \in Nat, e \in {d, NoMessage} : out' = [out EXCEPT !["informer"] = Entry(n, e)]
    BY <1>1
  <2>2. out'["informer"].event = e
    BY <2>1 DEF Typed, GateTyped, Threads, Entry
  <2>3. d.about = "delete" /\ d.flips = NoFlips /\ d.key = k
    BY DEF MessageOf
  <2>4. DeleteUnderWay("informer", d)'
    BY <1>2, <1>3, <2>3 DEF DeleteUnderWay, MessageOf, NoFlips
  <2> QED
    BY <2>2, <2>4 DEF UnderWay
<1>6. UnderWay("timer")'
  <2>1. out["timer"] = Gate!Idle
    BY <1>1, ThreadFacts DEF Typed, Locked, Threads
  <2>2. out'["timer"] = out["timer"]
    BY <1>1 DEF Typed, GateTyped, Threads
  <2> QED
    BY <2>1, <2>2 DEF UnderWay, Gate!Idle
<1> QED
  BY <1>4, <1>5, <1>6 DEF FlightInv, Threads

LEMMA CloseFlight ==
  ASSUME Typed, FlightInv, OnClose
  PROVE  FlightInv' /\ ArrivedInv'
<1>1. mu = Nobody /\ closed' = TRUE /\ UNCHANGED <<store, out, mu, fate>>
  BY DEF OnClose, Close, throttle
<1>2. ArrivedInv'
  BY <1>1 DEF ArrivedInv, ArrivedRight
<1>3. \A g \in Threads : ~UpdateUnderWay(g, out[g].event)
  BY <1>1, ThreadFacts DEF UpdateUnderWay
<1>4. FlightInv'
  BY <1>1, <1>3 DEF FlightInv, UnderWay, DeleteUnderWay
<1> QED
  BY <1>2, <1>4

LEMMA SendNewsFlight ==
  ASSUME Typed, FlightInv, ArrivedInv, NEW g \in Threads, SendNews(g)
  PROVE  FlightInv' /\ ArrivedInv'
<1>1. /\ out' = [out EXCEPT ![g].news = 0]
      /\ mu' = IF mu = g /\ out'[g] = Gate!Idle THEN Nobody ELSE mu
      /\ UNCHANGED <<vars, fate, outside>>
  BY DEF SendNews, Gate!SendNews, Released
<1>2. ArrivedInv'
  BY <1>1 DEF ArrivedInv, ArrivedRight, vars, history, outside
<1>3. \A h \in Threads : out'[h].event = out[h].event
  BY <1>1 DEF Typed, GateTyped
<1>4. \A h \in Threads : out[h].event # NoMessage /\ mu = h => mu' = h
  BY <1>1, <1>3 DEF Gate!Idle
<1>5. UNCHANGED <<closed, objects, told, store, fate>>
  BY <1>1 DEF vars, tracker, history
<1>6. FlightInv'
  BY <1>3, <1>4, <1>5 DEF FlightInv, UnderWay, UpdateUnderWay, DeleteUnderWay
<1> QED
  BY <1>2, <1>6

LEMMA SendMessageFlight ==
  ASSUME Living, Typed, FlightInv, ArrivedInv,
         NEW g \in Threads, NEW o \in {"ok", "failed", "late"}, SendMessage(g, o)
  PROVE  FlightInv' /\ ArrivedInv'
<1> DEFINE m == out[g].event
<1>1. /\ m \in Messages /\ m # NoMessage /\ m.key \in Keys
      /\ out' = [out EXCEPT ![g] = Entry(0, NoMessage)]
      /\ mu' = IF mu = g /\ out'[g] = Gate!Idle THEN Nobody ELSE mu
      /\ reader' = IF o = "ok" THEN Read(m) ELSE reader
      /\ fate' = Now(m, IF o = "ok" THEN "arrived" ELSE "lost")
  BY SendFacts DEF Released, Messages
<1>2. UNCHANGED <<closed, objects, told, store>>
  BY DEF SendMessage, vars, tracker, history
<1>3. \A k \in Keys, t \in watchedConditions :
        fate'[k][t] = IF k = m.key /\ m.flips[t] # Blank
                      THEN (IF o = "ok" THEN "arrived" ELSE "lost") ELSE fate[k][t]
  BY <1>1, NowFacts DEF Typed, WorldTyped, Fates
<1>4. o = "ok" => \A k \in Keys, t \in watchedConditions :
        reader'[k][t] = IF k # m.key THEN reader[k][t]
                        ELSE IF m.about = "delete" THEN Unset
                        ELSE IF m.flips[t] # Blank THEN m.flips[t].status
                        ELSE reader[k][t]
  BY <1>1, ReadFacts DEF Typed, WorldTyped
<1>5. UpdateUnderWay(g, m) \/ DeleteUnderWay(g, m)
  BY <1>1 DEF FlightInv, UnderWay
<1>6. ArrivedInv'
  <2> SUFFICES ASSUME NEW k \in Keys, NEW t \in watchedConditions, fate'[k][t] = "arrived", ~closed
               PROVE  told[k][t] # Blank /\ reader'[k][t] = told[k][t].status
    BY <1>2 DEF ArrivedInv, ArrivedRight
  <2>1. CASE k = m.key /\ m.flips[t] # Blank
    <3>1. o = "ok"
      BY <1>3, <2>1
    <3>2. UpdateUnderWay(g, m)
      BY <1>5, <2>1 DEF DeleteUnderWay, NoFlips
    <3>3. told[k][t] = m.flips[t] /\ m.about = "update"
      BY <2>1, <3>2 DEF UpdateUnderWay
    <3> QED
      BY <1>4, <2>1, <3>1, <3>3
  <2>2. CASE ~(k = m.key /\ m.flips[t] # Blank)
    <3>1. fate[k][t] = "arrived"
      BY <1>3, <2>2
    <3>2. told[k][t] # Blank /\ reader[k][t] = told[k][t].status
      BY <3>1 DEF ArrivedInv, ArrivedRight
    <3>3. CASE DeleteUnderWay(g, m)
      <4>1. k # m.key
        BY <3>1, <3>3 DEF DeleteUnderWay
      <4> QED
        BY <1>1, <1>4, <3>2, <4>1
    <3>4. CASE UpdateUnderWay(g, m)
      BY <1>1, <1>4, <2>2, <3>2, <3>4 DEF UpdateUnderWay
    <3> QED
      BY <1>5, <3>3, <3>4
  <2> QED
    BY <2>1, <2>2
<1>7. UnderWay(g)'
  BY <1>1 DEF UnderWay, Typed, GateTyped, Entry
<1>8. ASSUME NEW h \in Threads, h # g, out[h].event # NoMessage
      PROVE  UpdateUnderWay(h, out[h].event)' \/ DeleteUnderWay(h, out[h].event)'
  <2> DEFINE w == out[h].event
  <2>1. out'[h] = out[h] /\ (mu = h => mu' = h) /\ w \in Messages /\ w.key \in Keys
    BY <1>1, <1>8 DEF Typed, GateTyped, Messages
  <2>2. UpdateUnderWay(h, w) \/ DeleteUnderWay(h, w)
    BY <1>8 DEF FlightInv, UnderWay
  <2>3. CASE UpdateUnderWay(h, w)
    <3>1. UpdateUnderWay(h, w)'
      BY <1>2, <2>1, <2>3 DEF UpdateUnderWay
    <3> QED
      BY <3>1
  <2>4. CASE DeleteUnderWay(h, w)
    <3>1. UpdateUnderWay(g, m)
      BY <1>5, <1>8, <2>4 DEF DeleteUnderWay, UpdateUnderWay
    <3>2. m.key # w.key
      BY <1>1, <2>4, <3>1 DEF UpdateUnderWay, DeleteUnderWay, Living
    <3>3. \A t \in watchedConditions : fate'[w.key][t] = fate[w.key][t]
      BY <1>3, <2>1, <3>2
    <3>4. DeleteUnderWay(h, w)'
      BY <1>2, <2>1, <2>4, <3>3 DEF DeleteUnderWay
    <3> QED
      BY <3>4
  <2> QED
    BY <2>2, <2>3, <2>4
<1>9. FlightInv'
  <2> SUFFICES ASSUME NEW h \in Threads, h # g PROVE UnderWay(h)'
    BY <1>7 DEF FlightInv
  <2>1. out'[h] = out[h]
    BY <1>1 DEF Typed, GateTyped
  <2> QED
    BY <1>8, <2>1 DEF UnderWay
<1> QED
  BY <1>6, <1>9

LEMMA LateFlight ==
  ASSUME Typed, FlightInv, ArrivedInv, NEW m \in late, ArriveLate(m)
  PROVE  FlightInv' /\ ArrivedInv'
<1>1. /\ m \in Messages /\ UNCHANGED <<vars, out, mu>> /\ reader' = Read(m)
      /\ \A k \in Keys, t \in watchedConditions :
           /\ k = m.key /\ (m.about = "delete" \/ m.flips[t] # Blank) => fate'[k][t] = "late"
           /\ fate'[k][t] \in {"late", fate[k][t]}
  BY LateFacts DEF throttle
<1>2. UNCHANGED <<closed, objects, told, store>>
  BY <1>1 DEF vars, tracker, history
<1>3. \A k \in Keys, t \in watchedConditions :
        fate'[k][t] = "arrived" => fate[k][t] = "arrived" /\ reader'[k][t] = reader[k][t]
  <2>1. ReaderTyped
    BY DEF Typed, WorldTyped
  <2> QED
    BY <1>1, <2>1, ReadFacts
<1>4. ArrivedInv'
  BY <1>2, <1>3 DEF ArrivedInv, ArrivedRight
<1>5. \A g \in Threads : out[g].event # NoMessage => out[g].event.key \in Keys
  BY DEF Typed, GateTyped, Messages
<1>6. FlightInv'
  BY <1>1, <1>2, <1>3, <1>5 DEF FlightInv, UnderWay, UpdateUnderWay, DeleteUnderWay
<1> QED
  BY <1>4, <1>6

LEMMA FlightInit == PipelineInit => FlightInv /\ ArrivedInv
  BY DEF PipelineInit, Gate!Init, Gate!Idle, FlightInv, UnderWay, ArrivedInv, ArrivedRight

LEMMA RestartFlight == Restart => FlightInv' /\ ArrivedInv'
  BY DEF Restart, Gate!Idle, FlightInv, UnderWay, ArrivedInv, ArrivedRight

LEMMA FlightStep ==
  /\ TrackerInv /\ TrackerInv' /\ Typed /\ FlightInv /\ ArrivedInv
  /\ [PipelineNext]_pipeline
  => FlightInv' /\ ArrivedInv'
<1> SUFFICES ASSUME TrackerInv, TrackerInv', Typed, FlightInv, ArrivedInv, [PipelineNext]_pipeline
             PROVE  FlightInv' /\ ArrivedInv'
  OBVIOUS
<1>0. TypeOK /\ TypeOK' /\ Living
  BY DEF TrackerInv
<1>1. ASSUME NEW k \in Keys, NEW new \in Versions, OnAdd(k, new) PROVE FlightInv' /\ ArrivedInv'
  <2>1. /\ out["informer"] = Gate!Idle
        /\ UNCHANGED <<closed, objects, told, out, mu, fate, reader>>
        /\ \A g \in Threads : out[g].event # NoMessage => g # "informer"
    BY <1>1 DEF OnAdd, Add, history, throttle, outside, Gate!Idle
  <2>2. ArrivedInv'
    BY <2>1 DEF ArrivedInv, ArrivedRight
  <2>3. FlightInv'
    BY <2>1 DEF FlightInv, UnderWay, UpdateUnderWay, DeleteUnderWay
  <2> QED
    BY <2>2, <2>3
<1>2. ASSUME NEW k \in Keys, NEW new \in Versions, NEW g \in BOOLEAN, OnUpdate(k, new, g)
      PROVE  FlightInv' /\ ArrivedInv'
  BY <1>0, <1>2, UpdateFlight
<1>3. ASSUME NEW k \in Keys, OnDelete(k) PROVE FlightInv' /\ ArrivedInv'
  BY <1>0, <1>3, DeleteFlight
<1>4. ASSUME NEW timer \in fired, OnFire(timer) PROVE FlightInv' /\ ArrivedInv'
  BY <1>0, <1>4, FireFlight
<1>5. ASSUME NEW timer \in armed, OnExpire(timer) PROVE FlightInv' /\ ArrivedInv'
  BY <1>5, AloneFlight DEF OnExpire, Expire, history, throttle, outside
<1>6. CASE OnClose
  BY <1>6, CloseFlight
<1>7. CASE OnTick
  BY <1>7, AloneFlight DEF OnTick, Tick, history, throttle, outside
<1>8. CASE OnPause
  BY <1>8, AloneFlight DEF OnPause, Gate!Pause, vars, tracker, history, outside
<1>9. ASSUME NEW g \in Threads, SendNews(g) PROVE FlightInv' /\ ArrivedInv'
  BY <1>9, SendNewsFlight
<1>10. ASSUME NEW g \in Threads, NEW o \in {"ok", "failed", "late"}, SendMessage(g, o)
       PROVE  FlightInv' /\ ArrivedInv'
  BY <1>0, <1>10, SendMessageFlight
<1>11. ASSUME NEW m \in late, ArriveLate(m) PROVE FlightInv' /\ ArrivedInv'
  BY <1>11, LateFlight
<1>12. CASE Hang \/ Recover \/ UNCHANGED pipeline
  BY <1>12, AloneFlight DEF Hang, Recover, pipeline, vars, tracker, history, throttle, outside
<1>13. CASE Restart
  BY <1>13, RestartFlight
<1> QED
  BY <1>1, <1>2, <1>3, <1>4, <1>5, <1>6, <1>7, <1>8, <1>9, <1>10, <1>11, <1>12, <1>13
     DEF PipelineNext

LEMMA FlightAlways == PipelineSpec => [](FlightInv /\ ArrivedInv)
  BY FlightInit, FlightStep, TrackerAlways, TypedAlways, PTL DEF PipelineSpec

(* What has arrived is the state of the object: the reader of the target    *)
(* knows it although timers, updates, failed sends, cooldowns and requests  *)
(* of earlier lives came in between (update, fire, Manager.pitch).          *)
THEOREM ReaderIsCurrent == PipelineSpec => []ReaderCurrent
<1>1. TrackerInv /\ KnownInv /\ ArrivedInv => ReaderCurrent
  <2> SUFFICES ASSUME TrackerInv, KnownInv, ArrivedInv, NEW k \in Keys, NEW t \in watchedConditions,
                      fate[k][t] = "arrived", Settled(k, t)
               PROVE  reader[k][t] = store[k][t].status
    BY DEF ReaderCurrent
  <2>1. ~closed /\ objects[k] # NoState
    BY DEF TrackerInv, Living, Settled
  <2>2. told[k][t] # Blank /\ reader[k][t] = told[k][t].status
    BY <2>1 DEF ArrivedInv, ArrivedRight
  <2>3. StateOf(k, t) = told[k][t].status
    BY <2>2 DEF TrackerInv, ToldInv, ToldRight
  <2>4. t \in Seen(store[k]) /\ objects[k].failingSince[t] = 0
    BY DEF Settled, Seen, Pending
  <2>5. StateOf(k, t) = store[k][t].status
    BY <2>1, <2>4 DEF KnownInv, KnownRight, StateOf
  <2> QED
    BY <2>2, <2>3, <2>5
<1> QED
  BY <1>1, TrackerAlways, KnownAlways, FlightAlways, PTL

-----------------------------------------------------------------------------
(* What the last flip of a condition has come to: without one nothing was   *)
(* told, and one that is being sent is on its way.                          *)

Carries(g, k, t) ==
  LET m == out[g].event
  IN  m # NoMessage /\ m.about = "update" /\ m.key = k /\ m.flips[t] # Blank

FateRight(k, t) ==
  /\ fate[k][t] = "none" => told[k][t] = Blank
  /\ fate[k][t] = "sending" => \E g \in Threads : Carries(g, k, t)

FateInv == \A k \in Keys, t \in watchedConditions : FateRight(k, t)

LEMMA PitchingFate ==
  ASSUME Typed, TypeOK', FateInv, NEW g \in Threads, Pitching(g),
         \A k \in Keys, t \in watchedConditions :
           told'[k][t] = IF Sent(k, t)' THEN pitch'.flips[t] ELSE told[k][t]
  PROVE  FateInv'
<1>1. pitch' \in Pitch \cup {NoPitch}
  BY DEF TypeOK
<1>2. /\ out[g] = Gate!Idle
      /\ \/ pitch' = NoPitch /\ UNCHANGED <<throttle, mu, fate>>
         \/ /\ pitch' # NoPitch /\ Pitched \in Messages
            /\ \E n \in Nat, e \in {Pitched, NoMessage} : out' = [out EXCEPT ![g] = Entry(n, e)]
            /\ \A k \in Keys, t \in watchedConditions :
                 IF k = pitch'.key /\ pitch'.flips[t] # Blank
                 THEN fate'[k][t] = IF out'[g].event = Pitched THEN "sending" ELSE "dropped"
                 ELSE fate'[k][t] = fate[k][t]
  BY <1>1, PitchingFacts DEF Typed, WorldTyped
<1> SUFFICES ASSUME NEW k \in Keys, NEW t \in watchedConditions PROVE FateRight(k, t)'
  BY DEF FateInv
<1>3. FateRight(k, t)
  BY DEF FateInv
<1>4. \A h \in Threads : Carries(h, k, t) => h # g
  BY <1>2 DEF Carries, Gate!Idle
<1>5. CASE pitch' = NoPitch
  BY <1>2, <1>3, <1>5 DEF FateRight, Carries, throttle, Sent
<1>6. CASE pitch' # NoPitch
  <2>1. \A h \in Threads \ {g} : out'[h] = out[h]
    BY <1>2, <1>6 DEF Typed, GateTyped
  <2>2. CASE pitch'.key = k /\ pitch'.flips[t] # Blank
    <3>1. Pitched.about = "update" /\ Pitched.key = k /\ Pitched.flips = pitch'.flips
      BY <2>2 DEF Pitched, MessageOf
    <3>2. Pitched # NoMessage
      BY <1>2, <1>6, PipelineAssumption
    <3> QED
      BY <1>2, <1>6, <2>2, <3>1, <3>2 DEF FateRight, Carries
  <2>3. CASE ~(pitch'.key = k /\ pitch'.flips[t] # Blank)
    <3>1. fate'[k][t] = fate[k][t] /\ told'[k][t] = told[k][t]
      BY <1>2, <1>6, <2>3 DEF Sent
    <3> QED
      BY <1>3, <1>4, <2>1, <3>1 DEF FateRight, Carries
  <2> QED
    BY <2>2, <2>3
<1> QED
  BY <1>5, <1>6

LEMMA AloneFate ==
  ASSUME FateInv, UNCHANGED <<fate, told>>, \A g \in Threads : out'[g].event = out[g].event
  PROVE  FateInv'
  BY DEF FateInv, FateRight, Carries

LEMMA DeleteFate ==
  ASSUME TypeOK, Typed, FateInv, NEW k \in Keys, OnDelete(k)
  PROVE  FateInv'
<1>1. /\ out["informer"] = Gate!Idle /\ Delete(k)
      /\ fate' = [fate EXCEPT ![k] = [t \in watchedConditions |-> "none"]]
      /\ \E n \in Nat, e \in {MessageOf(k, "delete", NoFlips), NoMessage} :
           out' = [out EXCEPT !["informer"] = Entry(n, e)]
  BY DeleteFacts
<1>2. \A j \in Keys, t \in watchedConditions :
        /\ fate'[j][t] = IF j = k THEN "none" ELSE fate[j][t]
        /\ told'[j][t] = IF j = k THEN Blank ELSE told[j][t]
  BY <1>1 DEF Typed, WorldTyped, FateTyped, Delete, TypeOK, NoFlips
<1>3. \A g \in Threads : g # "informer" => out'[g] = out[g]
  BY <1>1 DEF Typed, GateTyped
<1>4. \A j \in Keys, t \in watchedConditions, g \in Threads : Carries(g, j, t) => g # "informer"
  BY <1>1 DEF Carries, Gate!Idle
<1> QED
  BY <1>2, <1>3, <1>4 DEF FateInv, FateRight, Carries

LEMMA SendMessageFate ==
  ASSUME Typed, FateInv, NEW g \in Threads, NEW o \in {"ok", "failed", "late"}, SendMessage(g, o)
  PROVE  FateInv'
<1> DEFINE m == out[g].event
<1>1. /\ m \in Messages /\ m # NoMessage
      /\ out' = [out EXCEPT ![g] = Entry(0, NoMessage)]
      /\ fate' = Now(m, IF o = "ok" THEN "arrived" ELSE "lost")
  BY SendFacts
<1>2. UNCHANGED told
  BY DEF SendMessage, vars, history
<1>3. \A k \in Keys, t \in watchedConditions :
        fate'[k][t] = IF k = m.key /\ m.flips[t] # Blank
                      THEN (IF o = "ok" THEN "arrived" ELSE "lost") ELSE fate[k][t]
  BY <1>1, NowFacts DEF Typed, WorldTyped, Fates
<1> SUFFICES ASSUME NEW k \in Keys, NEW t \in watchedConditions PROVE FateRight(k, t)'
  BY DEF FateInv
<1>4. CASE k = m.key /\ m.flips[t] # Blank
  BY <1>3, <1>4 DEF FateRight
<1>5. CASE ~(k = m.key /\ m.flips[t] # Blank)
  <2>1. FateRight(k, t) /\ fate'[k][t] = fate[k][t]
    BY <1>3, <1>5 DEF FateInv
  <2>2. \A h \in Threads : Carries(h, k, t) => h # g
    BY <1>5 DEF Carries
  <2>3. \A h \in Threads : h # g => out'[h] = out[h]
    BY <1>1 DEF Typed, GateTyped
  <2> QED
    BY <1>2, <2>1, <2>2, <2>3 DEF FateRight, Carries
<1> QED
  BY <1>4, <1>5

LEMMA FateStep ==
  TrackerInv /\ TrackerInv' /\ Typed /\ FateInv /\ [PipelineNext]_pipeline => FateInv'
<1> SUFFICES ASSUME TrackerInv, TrackerInv', Typed, FateInv, [PipelineNext]_pipeline
             PROVE  FateInv'
  OBVIOUS
<1>0. TypeOK /\ TypeOK'
  BY DEF TrackerInv
<1>1. CASE OnClose
  BY <1>1 DEF OnClose, Close, throttle, NoFlips, FateInv, FateRight, Carries
<1>2. ASSUME NEW k \in Keys, NEW new \in Versions, NEW g \in BOOLEAN, OnUpdate(k, new, g)
      PROVE  FateInv'
  <2>1. Update(k, new, g) /\ Pitching("informer") /\ "informer" \in Threads
    BY <1>2 DEF OnUpdate, Threads
  <2> QED
    BY <1>0, <2>1, ToldFollows, PitchingFate
<1>3. ASSUME NEW k \in Keys, OnDelete(k) PROVE FateInv'
  BY <1>0, <1>3, DeleteFate
<1>4. ASSUME NEW timer \in fired, OnFire(timer) PROVE FateInv'
  <2>1. Fire(timer) /\ Pitching("timer") /\ "timer" \in Threads
    BY <1>4 DEF OnFire, Threads
  <2> QED
    BY <1>0, <2>1, ToldFollows, PitchingFate
<1>5. ASSUME NEW g \in Threads, SendNews(g) PROVE FateInv'
  <2>1. \A h \in Threads : out'[h].event = out[h].event
    BY <1>5 DEF SendNews, Gate!SendNews, Typed, GateTyped
  <2> QED
    BY <1>5, <2>1, AloneFate DEF SendNews, vars, history
<1>6. ASSUME NEW g \in Threads, NEW o \in {"ok", "failed", "late"}, SendMessage(g, o)
      PROVE  FateInv'
  BY <1>6, SendMessageFate
<1>7. ASSUME NEW m \in late, ArriveLate(m) PROVE FateInv'
  <2>1. /\ UNCHANGED <<out, told>>
        /\ \A k \in Keys, t \in watchedConditions : fate'[k][t] \in {"late", fate[k][t]}
    BY <1>7, LateFacts DEF throttle, vars, history
  <2> QED
    BY <2>1 DEF FateInv, FateRight, Carries
<1>8. CASE Restart
  BY <1>8 DEF Restart, NoFlips, FateInv, FateRight
<1>9. ASSUME NEW k \in Keys, NEW new \in Versions, OnAdd(k, new) PROVE FateInv'
  BY <1>9, AloneFate DEF OnAdd, Add, history, throttle
<1>10. ASSUME NEW timer \in armed, OnExpire(timer) PROVE FateInv'
  BY <1>10, AloneFate DEF OnExpire, Expire, history, throttle
<1>11. CASE OnTick \/ OnPause \/ Hang \/ Recover \/ UNCHANGED pipeline
  BY <1>11, AloneFate
     DEF OnTick, Tick, OnPause, Gate!Pause, Hang, Recover, pipeline, vars, history, throttle
<1> QED
  BY <1>1, <1>2, <1>3, <1>4, <1>5, <1>6, <1>7, <1>8, <1>9, <1>10, <1>11 DEF PipelineNext

LEMMA FateAlways == PipelineSpec => []FateInv
<1>1. PipelineInit => FateInv
  BY DEF PipelineInit, Init, NoFlips, FateInv, FateRight
<1> QED
  BY <1>1, FateStep, TrackerAlways, TypedAlways, PTL DEF PipelineSpec

(* A recovery is passed after its failure has been through.                 *)

OnItsWay(k) ==
  \E g \in Threads :
    LET m == out[g].event IN m # NoMessage /\ m.about = "update" /\ m.key = k

RecoveryInOrder ==
  [][\A k \in Keys, t \in watchedConditions, g \in Threads :
        LET m == out'[g].event
        IN  /\ minDuration > 0
            /\ out[g].event = NoMessage
            /\ m # NoMessage
            /\ m.key = k
            /\ m.flips[t].status = "True"
            => /\ told[k][t].status \in {"False", "Unknown"}
               /\ fate[k][t] \notin {"none", "sending"}
               /\ ~OnItsWay(k)]_pipeline

\* A message enters the throttle by a tracker step that pitches it under t.mu,
\* or by a delete.
Enters(g) == out[g].event = NoMessage /\ out'[g].event # NoMessage

LEMMA EnteringFacts ==
  ASSUME TrackerInv, TrackerInv', Typed, [PipelineNext]_pipeline, NEW g \in Threads, Enters(g)
  PROVE  /\ mu = Nobody
         /\ \/ Next /\ pitch' # NoPitch /\ out'[g].event = Pitched
            \/ out'[g].event.flips = NoFlips
<1>0. TypeOK /\ TypeOK'
  BY DEF TrackerInv
<1>1. ASSUME NEW h \in Threads, Pitching(h), Next
      PROVE  mu = Nobody /\ pitch' # NoPitch /\ out'[g].event = Pitched
  <2>1. /\ mu = Nobody
        /\ \/ pitch' = NoPitch /\ UNCHANGED <<throttle, mu, fate>>
           \/ /\ pitch' # NoPitch /\ Pitched \in Messages
              /\ \E n \in Nat, e \in {Pitched, NoMessage} : out' = [out EXCEPT ![h] = Entry(n, e)]
    BY <1>0, <1>1, PitchingFacts DEF Typed, WorldTyped, TypeOK
  <2>2. pitch' # NoPitch
    BY <2>1 DEF Enters, throttle
  <2>3. PICK n \in Nat, e \in {Pitched, NoMessage} : out' = [out EXCEPT ![h] = Entry(n, e)]
    BY <2>1, <2>2
  <2>4. h = g /\ out'[g].event = e
    BY <2>3 DEF Enters, Typed, GateTyped, Entry
  <2> QED
    BY <2>1, <2>2, <2>4 DEF Enters
<1>2. ASSUME NEW k \in Keys, NEW new \in Versions, NEW b \in BOOLEAN, OnUpdate(k, new, b)
      PROVE  mu = Nobody /\ Next /\ pitch' # NoPitch /\ out'[g].event = Pitched
  <2>1. Pitching("informer") /\ Next /\ "informer" \in Threads
    BY <1>2 DEF OnUpdate, Next, Threads
  <2> QED
    BY <1>1, <2>1
<1>3. ASSUME NEW timer \in fired, OnFire(timer)
      PROVE  mu = Nobody /\ Next /\ pitch' # NoPitch /\ out'[g].event = Pitched
  <2>1. Pitching("timer") /\ Next /\ "timer" \in Threads
    BY <1>3 DEF OnFire, Next, Threads
  <2> QED
    BY <1>1, <2>1
<1>4. ASSUME NEW k \in Keys, OnDelete(k) PROVE mu = Nobody /\ out'[g].event.flips = NoFlips
  <2>1. PICK n \in Nat, e \in {MessageOf(k, "delete", NoFlips), NoMessage} :
          mu = Nobody /\ out' = [out EXCEPT !["informer"] = Entry(n, e)]
    BY <1>4, DeleteFacts
  <2>2. g = "informer" /\ out'[g].event = e
    BY <2>1 DEF Enters, Typed, GateTyped, Entry
  <2> QED
    BY <2>1, <2>2 DEF Enters, MessageOf
<1>5. ASSUME NEW h \in Threads, SendNews(h) PROVE FALSE
  BY <1>5 DEF SendNews, Gate!SendNews, Typed, GateTyped, Enters
<1>6. ASSUME NEW h \in Threads, NEW o \in {"ok", "failed", "late"}, SendMessage(h, o) PROVE FALSE
  BY <1>6 DEF SendMessage, Gate!SendEvent, Typed, GateTyped, Enters
<1>7. ASSUME NEW m \in late, ArriveLate(m) PROVE FALSE
  BY <1>7 DEF ArriveLate, throttle, Enters
<1>8. ASSUME NEW k \in Keys, NEW new \in Versions, OnAdd(k, new) PROVE FALSE
  BY <1>8 DEF OnAdd, throttle, Enters
<1>9. ASSUME NEW timer \in armed, OnExpire(timer) PROVE FALSE
  BY <1>9 DEF OnExpire, throttle, Enters
<1>10. ~(OnClose \/ OnTick \/ OnPause \/ Hang \/ Recover \/ Restart \/ UNCHANGED pipeline)
  BY DEF OnClose, OnTick, OnPause, Gate!Pause, Hang, Recover, Restart, Gate!Idle, pipeline,
         throttle, Enters
<1> QED
  BY <1>2, <1>3, <1>4, <1>5, <1>6, <1>7, <1>8, <1>9, <1>10 DEF PipelineNext

LEMMA InOrderStep ==
  TrackerInv /\ TrackerInv' /\ Typed /\ FlightInv /\ FateInv /\ [PipelineNext]_pipeline =>
    [\A k \in Keys, t \in watchedConditions, g \in Threads :
        LET m == out'[g].event
        IN  /\ minDuration > 0
            /\ out[g].event = NoMessage
            /\ m # NoMessage
            /\ m.key = k
            /\ m.flips[t].status = "True"
            => /\ told[k][t].status \in {"False", "Unknown"}
               /\ fate[k][t] \notin {"none", "sending"}
               /\ ~OnItsWay(k)]_pipeline
<1> SUFFICES ASSUME TrackerInv, TrackerInv', Typed, FlightInv, FateInv, [PipelineNext]_pipeline,
                    NEW k \in Keys, NEW t \in watchedConditions, NEW g \in Threads,
                    minDuration > 0, Enters(g),
                    out'[g].event.key = k, out'[g].event.flips[t].status = "True"
             PROVE  /\ told[k][t].status \in {"False", "Unknown"}
                    /\ fate[k][t] \notin {"none", "sending"}
                    /\ ~OnItsWay(k)
  BY DEF Enters
<1>1. mu = Nobody /\ Next /\ pitch' # NoPitch /\ out'[g].event = Pitched
  <2>1. out'[g].event.flips # NoFlips
    BY CondFacts, UnsetIsNoStatus DEF NoFlips, Statuses
  <2> QED
    BY <2>1, EnteringFacts
<1>2. pitch'.key = k /\ pitch'.flips[t].status = "True"
  BY <1>1 DEF Pitched, MessageOf
<1>3. told[k][t].status \in {"False", "Unknown"}
  <2>1. pitch'.flips[t] # Blank
    BY <1>2, CondFacts, UnsetIsNoStatus DEF Statuses
  <2>2. Sent(k, t)'
    BY <1>1, <1>2, <2>1 DEF Sent
  <2> QED
    BY <1>1, <1>2, <2>2, SentFlips DEF TrackerInv
<1>4. ~OnItsWay(k)
  BY <1>1, ThreadFacts DEF OnItsWay, FlightInv, UnderWay, UpdateUnderWay, DeleteUnderWay
<1>5. fate[k][t] # "none"
  <2>1. told[k][t] # Blank
    BY <1>3, CondFacts, UnsetIsNoStatus DEF Statuses
  <2> QED
    BY <2>1 DEF FateInv, FateRight
<1>6. fate[k][t] # "sending"
  BY <1>4 DEF FateInv, FateRight, Carries, OnItsWay
<1> QED
  BY <1>3, <1>4, <1>5, <1>6

(* The comment of mu in conditionTracker, "a delayed failure and its        *)
(* recovery are pitched in order", and what is left of "is pitched          *)
(* only if its failure was pitched" behind the throttle: a recovery that it *)
(* passes comes after the failure was told, and after the message of that   *)
(* failure was dropped, delivered or given up, with no other update of the  *)
(* object on its way (update, fire, Manager.pitch).                         *)
THEOREM RecoveriesInOrder == PipelineSpec => RecoveryInOrder
  BY InOrderStep, TrackerAlways, TypedAlways, FlightAlways, FateAlways, PTL
     DEF PipelineSpec, RecoveryInOrder
===============================================================================
