------------------------ MODULE ConditionTrackerProofs ------------------------
(***************************************************************************)
(* Proofs about ConditionTracker, for any objects, conditions, filters and *)
(* durations, and any number of events.                                    *)
(***************************************************************************)
EXTENDS ConditionTracker, TLAPS

-----------------------------------------------------------------------------
(* States of conditions.  (Unset stays folded: what it is matters here.)    *)

Shown == Conds \cup {Blank}

LEMMA UnsetIsNoStatus == Unset \notin Statuses
  BY Zenon DEF Unset, Statuses

LEMMA CondFacts ==
  /\ Blank.status = Unset
  /\ \A c \in Conds : c.status \in Statuses /\ c # Blank
  /\ Unknown \notin Shown
<1>1. Blank.status = Unset
  BY DEF Blank
<1> QED
  BY <1>1, UnsetIsNoStatus, TrackerAssumption, AbsenceAssumption DEF Shown

LEMMA VersionFacts ==
  ASSUME NEW new \in Versions, NEW t \in watchedConditions
  PROVE  new[t] \in Conds \cup {NoCond}
  BY TrackerAssumption

LEMMA DueFacts ==
  ASSUME NEW st \in ObjectState, minDuration \in Nat
  PROVE  /\ Due(st) \in Nat
         /\ Pending(st) # {} => Due(st) # 0
<1> DEFINE at(t) == st.failingSince[t] + minDuration
           first(d) == \A t \in Pending(st) : d <= at(t)
<1>1. \A t \in watchedConditions : st.failingSince[t] \in Nat
  BY DEF ObjectState
<1>2. \A t \in Pending(st) : at(t) \in Nat \ {0}
  BY <1>1 DEF Pending
<1>3. CASE Pending(st) = {}
  BY <1>3 DEF Due
<1>4. CASE Pending(st) # {}
  <2> DEFINE D == {at(t) : t \in Pending(st)}
  <2>1. \E d \in D : first(d)
    <3>1. PICK t \in Pending(st) : TRUE
      BY <1>4
    <3>2. \E u \in Pending(st) : \A v \in Pending(st) : at(u) <= at(v)
      BY <3>1, <1>2 DEF Pending, watchedConditions
    <3> QED
      BY <3>2
  <2>2. Due(st) = CHOOSE d \in D : first(d)
    BY <1>4 DEF Due
  <2>3. Due(st) \in D
    BY <2>1, <2>2
  <2> QED
    BY <2>3, <1>2
<1> QED
  BY <1>3, <1>4

-----------------------------------------------------------------------------
(* What schedule, update and fire make of an object's state.                *)

LEMMA RescheduledFacts ==
  ASSUME NEW st \in ObjectState, minDuration \in Nat
  PROVE  LET r == Rescheduled(st) IN
         /\ r \in ObjectState
         /\ r.reported = st.reported /\ r.current = st.current
         /\ r.failingSince = st.failingSince /\ r.life = st.life
         /\ r.due = Due(st) /\ Due(r) = Due(st) /\ Pending(r) = Pending(st)
         /\ Kept(st) => r = st
         /\ ~Kept(st) => r.seq = st.seq + 1
         /\ ~Kept(st) => r.timer = (Due(st) # 0)
<1> DEFINE s == [st EXCEPT !.seq = @ + 1, !.due = Due(st), !.timer = (Due(st) # 0)]
           r == Rescheduled(st)
<1>1. Due(st) \in Nat
  BY DueFacts
<1>2. /\ s \in ObjectState
      /\ s.reported = st.reported /\ s.current = st.current
      /\ s.failingSince = st.failingSince /\ s.life = st.life
      /\ s.due = Due(st) /\ s.seq = st.seq + 1 /\ s.timer = (Due(st) # 0)
  <2>1. st.seq + 1 \in Nat
    BY DEF ObjectState
  <2>2. s \in ObjectState
    BY <1>1, <2>1, Zenon DEF ObjectState
  <2> QED
    BY <2>2 DEF ObjectState
<1>3. r = IF Kept(st) THEN st ELSE s
  BY DEF Rescheduled
<1>4. Kept(st) => st.due = Due(st)
  BY DEF Kept
<1> HIDE DEF s, r
<1>5. /\ r \in ObjectState
      /\ r.reported = st.reported /\ r.current = st.current
      /\ r.failingSince = st.failingSince /\ r.life = st.life
      /\ r.due = Due(st)
      /\ Kept(st) => r = st
      /\ ~Kept(st) => r.seq = st.seq + 1
      /\ ~Kept(st) => r.timer = (Due(st) # 0)
  BY <1>2, <1>3, <1>4
<1>6. Pending(r) = Pending(st)
  BY <1>5 DEF Pending
<1>7. Due(r) = Due(st)
  BY <1>5, <1>6 DEF Due
<1> QED
  BY <1>5, <1>6, <1>7 DEF r

LEMMA StateFacts ==
  ASSUME TypeOK, NEW k \in Keys
  PROVE  /\ State(k) \in ObjectState
         /\ objects[k] # NoState => State(k) = objects[k]
         /\ objects[k] = NoState =>
              /\ State(k).reported = [t \in watchedConditions |-> Unknown]
              /\ State(k).current = NoFlips
              /\ State(k).failingSince = Never
  BY DEF TypeOK, State, ObjectState, NoFlips, Never

LEMMA RepFacts ==
  ASSUME TypeOK, NEW k \in Keys, NEW new \in Versions, store[k] # Gone,
         NEW t \in Seen(new)
  PROVE  /\ t \in watchedConditions /\ new[t] \in Conds
         /\ Rep(k, new, t) \in Shown
         /\ State(k).reported[t] # Unknown => Rep(k, new, t) = State(k).reported[t]
         /\ State(k).reported[t] = Unknown => Rep(k, new, t) = Baseline(store[k][t], new[t])
<1>1. t \in watchedConditions /\ new[t] \in Conds
  BY VersionFacts DEF Seen
<1>2. store[k] \in Versions
  BY DEF TypeOK
<1>3. store[k][t] \in Conds \cup {NoCond}
  BY <1>1, <1>2, VersionFacts
<1>4. Baseline(store[k][t], new[t]) \in Shown
  BY <1>1, <1>3 DEF Baseline, Shown
<1>5. State(k).reported[t] \in Shown \cup {Unknown}
  BY <1>1, StateFacts DEF ObjectState, Shown
<1> QED
  BY <1>1, <1>4, <1>5 DEF Rep

LEMMA UpdatedFacts ==
  ASSUME TypeOK, NEW k \in Keys, NEW new \in Versions, store[k] # Gone
  PROVE  LET st == State(k)
             u  == Updated(k, new)
         IN
         /\ u \in ObjectState
         /\ u.timer = st.timer /\ u.due = st.due /\ u.seq = st.seq /\ u.life = st.life
         /\ \A t \in watchedConditions :
              /\ u.current[t] = IF t \in Seen(new) THEN new[t] ELSE st.current[t]
              /\ u.reported[t] =
                   IF t \in Well(k, new) \cup AtOnce(k, new) THEN new[t]
                   ELSE IF t \in Seen(new) THEN Rep(k, new, t) ELSE st.reported[t]
              /\ u.failingSince[t] =
                   IF t \in Back(k, new) \cup Well(k, new) THEN 0
                   ELSE IF t \in Bad(k, new) \ AtOnce(k, new) /\ st.failingSince[t] = 0
                        THEN clock ELSE st.failingSince[t]
<1> DEFINE st == State(k)
           C == [t \in watchedConditions |-> IF t \in Seen(new) THEN new[t] ELSE st.current[t]]
           R == [t \in watchedConditions |->
                   IF t \in Well(k, new) \cup AtOnce(k, new) THEN new[t]
                   ELSE IF t \in Seen(new) THEN Rep(k, new, t) ELSE st.reported[t]]
           F == [t \in watchedConditions |->
                   IF t \in Back(k, new) \cup Well(k, new) THEN 0
                   ELSE IF t \in Bad(k, new) \ AtOnce(k, new) /\ st.failingSince[t] = 0
                        THEN clock ELSE st.failingSince[t]]
<1>1. st \in ObjectState
  BY StateFacts
<1>2. Updated(k, new) = [st EXCEPT !.current = C, !.reported = R, !.failingSince = F]
  BY <1>1 DEF Updated, ObjectState
<1>3. /\ Well(k, new) \cup AtOnce(k, new) \subseteq Seen(new)
      /\ \A t \in Seen(new) : new[t] \in Conds /\ Rep(k, new, t) \in Shown
  BY RepFacts DEF Well, AtOnce, Bad
<1>4. C \in [watchedConditions -> Shown]
  BY <1>1, <1>3 DEF ObjectState, Shown
<1>5. R \in [watchedConditions -> Shown \cup {Unknown}]
  <2>1. st.reported \in [watchedConditions -> Shown \cup {Unknown}]
    BY <1>1 DEF ObjectState, Shown
  <2> QED
    BY <2>1, <1>3 DEF Shown
<1>6. F \in [watchedConditions -> Nat]
  BY <1>1 DEF ObjectState, TypeOK
<1>7. /\ Updated(k, new) \in ObjectState
      /\ Updated(k, new).current = C
      /\ Updated(k, new).reported = R
      /\ Updated(k, new).failingSince = F
      /\ Updated(k, new).timer = st.timer /\ Updated(k, new).due = st.due
      /\ Updated(k, new).seq = st.seq /\ Updated(k, new).life = st.life
  <2> HIDE DEF C, R, F, st
  <2> QED
    BY <1>1, <1>2, <1>4, <1>5, <1>6 DEF ObjectState, Shown
<1> QED
  BY <1>7

LEMMA ReportedFacts ==
  ASSUME NEW st \in ObjectState
  PROVE  LET u == Reported(st) IN
         /\ u \in ObjectState
         /\ u.current = st.current /\ u.seq = st.seq /\ u.life = st.life
         /\ u.timer = FALSE
         /\ \A t \in watchedConditions :
              /\ u.reported[t] = IF t \in Lasted(st) THEN st.current[t] ELSE st.reported[t]
              /\ u.failingSince[t] = IF t \in Lasted(st) THEN 0 ELSE st.failingSince[t]
<1> DEFINE R == [t \in watchedConditions |->
                   IF t \in Lasted(st) THEN st.current[t] ELSE st.reported[t]]
           F == [t \in watchedConditions |->
                   IF t \in Lasted(st) THEN 0 ELSE st.failingSince[t]]
<1>1. Reported(st) = [st EXCEPT !.timer = FALSE, !.reported = R, !.failingSince = F]
  BY DEF Reported, ObjectState
<1>2. R \in [watchedConditions -> Shown \cup {Unknown}]
  BY DEF ObjectState, Shown
<1>3. F \in [watchedConditions -> Nat]
  BY DEF ObjectState
<1>4. /\ Reported(st) \in ObjectState
      /\ Reported(st).current = st.current /\ Reported(st).seq = st.seq
      /\ Reported(st).life = st.life /\ Reported(st).timer = FALSE
      /\ Reported(st).reported = R /\ Reported(st).failingSince = F
  <2> HIDE DEF R, F
  <2> QED
    BY <1>1, <1>2, <1>3 DEF ObjectState, Shown
<1> QED
  BY <1>4

LEMMA FlipFacts ==
  ASSUME TypeOK, NEW k \in Keys, NEW new \in Versions, store[k] # Gone
  PROVE  /\ Flipped(k, new) \subseteq Well(k, new) \cup AtOnce(k, new)
         /\ Well(k, new) \cup AtOnce(k, new) \subseteq Seen(new) \ Back(k, new)
         /\ \A t \in Seen(new) : t \in watchedConditions /\ new[t] \in Conds
  BY RepFacts DEF Flipped, Well, AtOnce, Bad

-----------------------------------------------------------------------------
(* Types.                                                                   *)

LEMMA ScheduleTyped ==
  ASSUME TypeOK, NEW k \in Keys, NEW st \in ObjectState, Schedule(k, st)
  PROVE  /\ objects' \in [Keys -> ObjectState \cup {NoState}]
         /\ armed' \subseteq Timer
<1> DEFINE r == Rescheduled(st)
<1>1. r \in ObjectState
  BY RescheduledFacts DEF TypeOK
<1>2. ~Kept(st) => Stopped(k, r) \subseteq Timer
  <2> SUFFICES ASSUME ~Kept(st), r.timer PROVE Handle(k, r) \in Timer
    BY DEF Stopped
  <2>1. r.due \in Nat \ {0}
    BY RescheduledFacts, <1>1 DEF TypeOK, ObjectState
  <2> QED
    BY <1>1, <2>1 DEF Handle, Timer, ObjectState
<1>3. objects' = [objects EXCEPT ![k] = r]
  BY DEF Schedule
<1>4. armed' \subseteq armed \cup (IF Kept(st) THEN {} ELSE Stopped(k, r))
  BY DEF Schedule
<1> HIDE DEF r
<1> QED
  BY <1>1, <1>2, <1>3, <1>4 DEF TypeOK

LEMMA PitchTyped ==
  ASSUME TypeOK, NEW k \in Keys, NEW kind \in {"flips", "failures"},
         NEW flips \in [watchedConditions -> Shown], PitchFlips(k, kind, flips)
  PROVE  /\ pitch' \in Pitch
         /\ told' \in [Keys -> [watchedConditions -> Shown]]
<1>1. pitch' \in Pitch
  BY DEF PitchFlips, Pitch, Shown
<1> DEFINE T == [t \in watchedConditions |-> IF flips[t] # Blank THEN flips[t] ELSE told[k][t]]
<1>2. told[k] \in [watchedConditions -> Shown]
  BY DEF TypeOK, Shown
<1>3. T \in [watchedConditions -> Shown]
  BY <1>2
<1>4. told' = [told EXCEPT ![k] = T]
  BY DEF PitchFlips
<1> HIDE DEF T
<1>5. told' \in [Keys -> [watchedConditions -> Shown]]
  BY <1>3, <1>4 DEF TypeOK, Shown
<1> QED
  BY <1>1, <1>5

\* What update pitches.
Flips(k, new) ==
  [t \in watchedConditions |-> IF t \in Flipped(k, new) THEN new[t] ELSE Blank]

\* What fire pitches.
Failures(st) ==
  [t \in watchedConditions |-> IF t \in Lasted(st) THEN st.current[t] ELSE Blank]

LEMMA UpdateTyped ==
  ASSUME TypeOK, NEW k \in Keys, NEW new \in Versions, NEW g \in BOOLEAN, Update(k, new, g)
  PROVE  TypeOK'
<1>1. store[k] # Gone /\ store' \in [Keys -> Versions \cup {Gone}]
  BY DEF Update, TypeOK
<1>2. events' \in Nat
  BY DEF Update, Event, TypeOK
<1>3. CASE closed /\ pitch' = NoPitch /\ UNCHANGED <<tracker, history>>
  BY <1>1, <1>2, <1>3 DEF Update, tracker, history, TypeOK
<1>4. CASE ~closed /\ UpdateOpen(k, new, g)
  <2>1. Updated(k, new) \in ObjectState
    BY <1>1, UpdatedFacts
  <2>2. /\ objects' \in [Keys -> ObjectState \cup {NoState}]
        /\ armed' \subseteq Timer
    BY <1>4, <2>1, ScheduleTyped DEF UpdateOpen
  <2>3. lives' \in Nat
    BY <1>4 DEF UpdateOpen, TypeOK
  <2>4. badSince' \in [Keys -> [watchedConditions -> Nat]]
    BY <1>4 DEF UpdateOpen, TypeOK
  <2>5. pitch' \in Pitch \cup {NoPitch} /\ told' \in [Keys -> [watchedConditions -> Shown]]
    <3>1. CASE Flipped(k, new) # {}
      <4>1. Flips(k, new) \in [watchedConditions -> Shown]
        BY <1>1, FlipFacts DEF Flips, Shown
      <4>2. PitchFlips(k, "flips", Flips(k, new))
        BY <1>4, <3>1 DEF UpdateOpen, Flips
      <4> QED
        BY <4>1, <4>2, PitchTyped
    <3>2. CASE Flipped(k, new) = {}
      <4>1. pitch' \in {[kind |-> "generation", key |-> k, flips |-> NoFlips], NoPitch}
        BY <1>4, <3>2 DEF UpdateOpen
      <4>2. UNCHANGED told
        BY <1>4, <3>2 DEF UpdateOpen
      <4>3. NoFlips \in [watchedConditions -> Shown]
        BY DEF NoFlips, Shown
      <4> QED
        BY <4>1, <4>2, <4>3 DEF Pitch, Shown, TypeOK
    <3> QED
      BY <3>1, <3>2
  <2> QED
    BY <1>1, <1>2, <2>2, <2>3, <2>4, <2>5 DEF Update, TypeOK, Shown
<1> QED
  BY <1>3, <1>4 DEF Update

LEMMA FireTyped ==
  ASSUME TypeOK, NEW timer \in fired, Fire(timer)
  PROVE  TypeOK'
<1>1. fired' \subseteq Timer /\ timer.key \in Keys
  BY DEF Fire, TypeOK, Timer
<1>2. CASE Stale(timer)
  <2>1. pitch' = NoPitch /\ UNCHANGED <<objects, armed, told>>
    BY <1>2 DEF Fire
  <2> QED
    BY <1>1, <2>1 DEF Fire, TypeOK
<1>3. CASE ~Stale(timer)
  <2> DEFINE k  == timer.key
             st == objects[k]
  <2>1. st \in ObjectState
    BY <1>1, <1>3 DEF Stale, TypeOK
  <2>2. Reported(st) \in ObjectState
    BY <2>1, ReportedFacts
  <2>3. Schedule(k, Reported(st))
    BY <1>3 DEF Fire
  <2>4. /\ objects' \in [Keys -> ObjectState \cup {NoState}]
        /\ armed' \subseteq Timer
    BY <1>1, <2>2, <2>3, ScheduleTyped
  <2>5. pitch' \in Pitch \cup {NoPitch} /\ told' \in [Keys -> [watchedConditions -> Shown]]
    <3>1. CASE Lasted(st) # {}
      <4>1. Failures(st) \in [watchedConditions -> Shown]
        BY <2>1 DEF Failures, Shown, ObjectState
      <4>2. PitchFlips(k, "failures", Failures(st))
        BY <1>3, <3>1 DEF Fire, Failures
      <4> QED
        BY <1>1, <4>1, <4>2, PitchTyped
    <3>2. CASE Lasted(st) = {}
      BY <1>3, <3>2 DEF Fire, TypeOK, Shown
    <3> QED
      BY <3>1, <3>2
  <2> QED
    BY <1>1, <2>4, <2>5 DEF Fire, TypeOK, Shown
<1> QED
  BY <1>2, <1>3

LEMMA TypeInit == Init => TypeOK
<1> SUFFICES ASSUME Init PROVE TypeOK
  OBVIOUS
<1>1. minDuration \in Nat
  BY TrackerAssumption DEF Init
<1>2. badSince \in [Keys -> [watchedConditions -> Nat]]
  BY DEF Init, Never
<1>3. told \in [Keys -> [watchedConditions -> Conds \cup {Blank}]]
  BY DEF Init, NoFlips
<1>4. store \in [Keys -> Versions \cup {Gone}] /\ objects \in [Keys -> ObjectState \cup {NoState}]
  BY DEF Init
<1>5. clock \in Nat \ {0} /\ events \in Nat /\ lives \in Nat
  BY DEF Init
<1>6. closed \in BOOLEAN
  BY DEF Init
<1>7. armed \subseteq Timer /\ fired \subseteq Timer /\ pitch = NoPitch
  BY DEF Init
<1> QED
  BY <1>1, <1>2, <1>3, <1>4, <1>5, <1>6, <1>7 DEF TypeOK

LEMMA TypeStep == TypeOK /\ [Next]_vars => TypeOK'
<1> SUFFICES ASSUME TypeOK, [Next]_vars PROVE TypeOK'
  OBVIOUS
<1>1. ASSUME NEW k \in Keys, NEW new \in Versions, Add(k, new) PROVE TypeOK'
  BY <1>1 DEF Add, Event, history, TypeOK
<1>2. ASSUME NEW k \in Keys, NEW new \in Versions, NEW g \in BOOLEAN, Update(k, new, g)
      PROVE  TypeOK'
  BY <1>2, UpdateTyped
<1>3. ASSUME NEW k \in Keys, Delete(k) PROVE TypeOK'
  BY <1>3 DEF Delete, Event, NoFlips, Never, TypeOK
<1>4. ASSUME NEW timer \in armed, Expire(timer) PROVE TypeOK'
  BY <1>4 DEF Expire, history, TypeOK
<1>5. ASSUME NEW timer \in fired, Fire(timer) PROVE TypeOK'
  BY <1>5, FireTyped
<1>6. CASE Close
  BY <1>6 DEF Close, NoFlips, Never, TypeOK
<1>7. CASE Tick
  BY <1>7 DEF Tick, history, TypeOK
<1>8. CASE UNCHANGED vars
  BY <1>8 DEF vars, history, TypeOK
<1> QED
  BY <1>1, <1>2, <1>3, <1>4, <1>5, <1>6, <1>7, <1>8 DEF Next

(* Type correctness; a running timer is always due at some time (schedule). *)
THEOREM TrackerTypeCorrect == Spec => []TypeOK
  BY TypeInit, TypeStep, PTL DEF Spec

-----------------------------------------------------------------------------
(* What one step does to one object: nothing, forget it, show its tracker a *)
(* new version, or report what has lasted.                                  *)

Sent(k, t) == pitch # NoPitch /\ pitch.key = k /\ pitch.flips[t] # Blank

Untouched(k) ==
  /\ objects'[k] = objects[k] /\ told'[k] = told[k] /\ badSince'[k] = badSince[k]
  /\ \A t \in watchedConditions : ~Sent(k, t)'

Forgotten(k) ==
  /\ objects'[k] = NoState /\ told'[k] = NoFlips /\ badSince'[k] = Never
  /\ \A t \in watchedConditions : ~Sent(k, t)'

Shows(k, new) ==
  /\ store[k] # Gone
  /\ ~closed
  /\ objects'[k] = Rescheduled(Updated(k, new))
  /\ \A t \in watchedConditions :
       /\ told'[k][t] = IF t \in Flipped(k, new) THEN new[t] ELSE told[k][t]
       /\ badSince'[k][t] = IF t \notin Seen(new) THEN badSince[k][t]
                            ELSE IF new[t].status = "True" THEN 0
                            ELSE IF badSince[k][t] = 0 THEN clock ELSE badSince[k][t]
       /\ Sent(k, t)' => /\ t \in Flipped(k, new)
                         /\ pitch'.kind = "flips" /\ pitch'.flips[t] = new[t]

Reports(k) ==
  /\ objects[k] # NoState
  /\ ~closed
  /\ objects'[k] = Rescheduled(Reported(objects[k]))
  /\ badSince'[k] = badSince[k]
  /\ \A t \in watchedConditions :
       /\ told'[k][t] = IF t \in Lasted(objects[k]) /\ objects[k].current[t] # Blank
                        THEN objects[k].current[t] ELSE told[k][t]
       /\ Sent(k, t)' => /\ t \in Lasted(objects[k])
                         /\ pitch'.flips[t] = objects[k].current[t]

LEMMA NothingSent ==
  ASSUME NEW k, pitch' = NoPitch \/ pitch'.key # k \/ pitch'.flips = NoFlips
  PROVE  \A t \in watchedConditions : ~Sent(k, t)'
  BY DEF Sent, NoFlips

LEMMA UpdateShows ==
  ASSUME TypeOK, NEW j \in Keys, NEW new \in Versions, NEW g \in BOOLEAN, Update(j, new, g),
         NEW k \in Keys
  PROVE  IF k = j /\ ~closed THEN Shows(k, new) ELSE Untouched(k)
<1>1. CASE closed
  <2>1. pitch' = NoPitch /\ UNCHANGED <<objects, told, badSince>>
    BY <1>1 DEF Update, tracker, history
  <2> QED
    BY <1>1, <2>1, NothingSent DEF Untouched
<1>2. CASE ~closed
  <2>1. UpdateOpen(j, new, g) /\ store[j] # Gone
    BY <1>2 DEF Update
  <2>2. /\ objects' = [objects EXCEPT ![j] = Rescheduled(Updated(j, new))]
        /\ badSince' = [badSince EXCEPT ![j] =
             [t \in watchedConditions |->
                IF t \notin Seen(new) THEN badSince[j][t]
                ELSE IF new[t].status = "True" THEN 0
                ELSE IF badSince[j][t] = 0 THEN clock ELSE badSince[j][t]]]
    BY <2>1 DEF UpdateOpen, Schedule, TypeOK
  <2>3. \A t \in Flipped(j, new) : new[t] # Blank
    BY <2>1, FlipFacts, CondFacts
  <2>4. /\ \A t \in watchedConditions :
             told'[j][t] = IF t \in Flipped(j, new) THEN new[t] ELSE told[j][t]
        /\ k # j => told'[k] = told[k]
        /\ k # j => \A t \in watchedConditions : ~Sent(k, t)'
        /\ \A t \in watchedConditions : Sent(j, t)' =>
             t \in Flipped(j, new) /\ pitch'.kind = "flips" /\ pitch'.flips[t] = new[t]
    <3>1. CASE Flipped(j, new) # {}
      <4>1. PitchFlips(j, "flips", Flips(j, new))
        BY <2>1, <3>1 DEF UpdateOpen, Flips
      <4>2. /\ pitch' = [kind |-> "flips", key |-> j, flips |-> Flips(j, new)]
            /\ told' = [told EXCEPT ![j] = [t \in watchedConditions |->
                   IF Flips(j, new)[t] # Blank THEN Flips(j, new)[t] ELSE told[j][t]]]
        BY <4>1 DEF PitchFlips, TypeOK
      <4> QED
        BY <2>3, <4>2 DEF Flips, Sent, TypeOK
    <3>2. CASE Flipped(j, new) = {}
      <4>1. /\ told' = told
            /\ pitch' \in {[kind |-> "generation", key |-> j, flips |-> NoFlips], NoPitch}
        BY <2>1, <3>2 DEF UpdateOpen
      <4> QED
        BY <3>2, <4>1 DEF Sent, NoFlips
    <3> QED
      BY <3>1, <3>2
  <2>5. CASE k # j
    <3>1. Untouched(k)
      BY <2>2, <2>4, <2>5 DEF Untouched, TypeOK
    <3> QED
      BY <2>5, <3>1
  <2>6. CASE k = j
    <3>1. objects'[k] = Rescheduled(Updated(k, new))
      BY <2>2, <2>6 DEF TypeOK
    <3>2. \A t \in watchedConditions :
            badSince'[k][t] = IF t \notin Seen(new) THEN badSince[k][t]
                              ELSE IF new[t].status = "True" THEN 0
                              ELSE IF badSince[k][t] = 0 THEN clock ELSE badSince[k][t]
      BY <2>2, <2>6 DEF TypeOK
    <3> QED
      BY <1>2, <2>1, <2>4, <2>6, <3>1, <3>2 DEF Shows
  <2> QED
    BY <2>5, <2>6
<1> QED
  BY <1>1, <1>2

LEMMA FireReports ==
  ASSUME TypeOK, NEW timer \in fired, Fire(timer), NEW k \in Keys
  PROVE  IF k = timer.key /\ ~Stale(timer) THEN Reports(k) ELSE Untouched(k)
<1> DEFINE j == timer.key
<1>1. j \in Keys /\ badSince' = badSince
  BY DEF Fire, TypeOK, Timer
<1>2. CASE Stale(timer)
  <2>1. pitch' = NoPitch /\ UNCHANGED <<objects, told>>
    BY <1>2 DEF Fire
  <2> QED
    BY <1>1, <1>2, <2>1, NothingSent DEF Untouched
<1>3. CASE ~Stale(timer)
  <2> DEFINE st == objects[j]
  <2>1. ~closed /\ st # NoState
    BY <1>3 DEF Stale
  <2>2. objects' = [objects EXCEPT ![j] = Rescheduled(Reported(st))]
    BY <1>3 DEF Fire, Schedule
  <2>3. /\ \A t \in watchedConditions :
             told'[j][t] = IF t \in Lasted(st) /\ st.current[t] # Blank
                           THEN st.current[t] ELSE told[j][t]
        /\ k # j => told'[k] = told[k]
        /\ k # j => \A t \in watchedConditions : ~Sent(k, t)'
        /\ \A t \in watchedConditions : Sent(j, t)' =>
             t \in Lasted(st) /\ pitch'.flips[t] = st.current[t]
    <3>1. CASE Lasted(st) # {}
      <4>1. PitchFlips(j, "failures", Failures(st))
        BY <1>3, <3>1 DEF Fire, Failures
      <4>2. /\ pitch' = [kind |-> "failures", key |-> j, flips |-> Failures(st)]
            /\ told' = [told EXCEPT ![j] = [t \in watchedConditions |->
                   IF Failures(st)[t] # Blank THEN Failures(st)[t] ELSE told[j][t]]]
        BY <1>1, <4>1 DEF PitchFlips, TypeOK
      <4> QED
        BY <1>1, <4>2 DEF Failures, Sent, TypeOK
    <3>2. CASE Lasted(st) = {}
      <4>1. pitch' = NoPitch /\ told' = told
        BY <1>3, <3>2 DEF Fire
      <4> QED
        BY <3>2, <4>1 DEF Sent
    <3> QED
      BY <3>1, <3>2
  <2>4. CASE k # j
    <3>1. Untouched(k)
      BY <1>1, <2>2, <2>3, <2>4 DEF Untouched, TypeOK
    <3> QED
      BY <2>4, <3>1
  <2>5. CASE k = j
    <3>1. objects'[k] = Rescheduled(Reported(objects[k]))
      BY <2>2, <2>5 DEF TypeOK
    <3> QED
      BY <1>1, <1>3, <2>1, <2>3, <2>5, <3>1 DEF Reports
  <2> QED
    BY <2>4, <2>5
<1> QED
  BY <1>2, <1>3

LEMMA KeySteps ==
  ASSUME TypeOK, Next, NEW k \in Keys
  PROVE  \/ Untouched(k) \/ Forgotten(k)
         \/ \E new \in Versions : Shows(k, new)
         \/ Reports(k)
<1>1. ASSUME NEW j \in Keys, NEW new \in Versions, Add(j, new) PROVE Untouched(k)
  BY <1>1, NothingSent DEF Add, history, Untouched
<1>2. ASSUME NEW j \in Keys, NEW new \in Versions, NEW g \in BOOLEAN, Update(j, new, g)
      PROVE  Untouched(k) \/ Shows(k, new)
  BY <1>2, UpdateShows
<1>3. ASSUME NEW j \in Keys, Delete(j) PROVE Untouched(k) \/ Forgotten(k)
  BY <1>3, NothingSent DEF Delete, Untouched, Forgotten, TypeOK
<1>4. ASSUME NEW timer \in armed, Expire(timer) PROVE Untouched(k)
  BY <1>4, NothingSent DEF Expire, history, Untouched
<1>5. ASSUME NEW timer \in fired, Fire(timer) PROVE Untouched(k) \/ Reports(k)
  BY <1>5, FireReports
<1>6. CASE Close
  BY <1>6, NothingSent DEF Close, Forgotten
<1>7. CASE Tick
  BY <1>7, NothingSent DEF Tick, history, Untouched
<1> QED
  BY <1>1, <1>2, <1>3, <1>4, <1>5, <1>6, <1>7 DEF Next

LEMMA ShownFields ==
  ASSUME TypeOK, NEW k \in Keys, NEW new \in Versions, Shows(k, new)
  PROVE  LET st == State(k)
             u  == objects'[k]
         IN
         /\ u # NoState
         /\ \A t \in watchedConditions :
              /\ u.current[t] = IF t \in Seen(new) THEN new[t] ELSE st.current[t]
              /\ u.reported[t] =
                   IF t \in Well(k, new) \cup AtOnce(k, new) THEN new[t]
                   ELSE IF t \in Seen(new) THEN Rep(k, new, t) ELSE st.reported[t]
              /\ u.failingSince[t] =
                   IF t \in Back(k, new) \cup Well(k, new) THEN 0
                   ELSE IF t \in Bad(k, new) \ AtOnce(k, new) /\ st.failingSince[t] = 0
                        THEN clock ELSE st.failingSince[t]
<1> DEFINE v == Updated(k, new)
<1>1. /\ objects'[k] = Rescheduled(v) /\ store[k] # Gone
  BY DEF Shows
<1>2. v \in ObjectState
  BY <1>1, UpdatedFacts
<1>3. /\ objects'[k] \in ObjectState
      /\ objects'[k].current = v.current
      /\ objects'[k].reported = v.reported
      /\ objects'[k].failingSince = v.failingSince
  BY <1>1, <1>2, RescheduledFacts DEF TypeOK
<1>4. objects'[k] # NoState
  BY <1>3, AbsenceAssumption
<1> QED
  BY <1>1, <1>3, <1>4, UpdatedFacts

LEMMA ReportedFields ==
  ASSUME TypeOK, NEW k \in Keys, Reports(k)
  PROVE  LET st == objects[k]
             u  == objects'[k]
         IN
         /\ u # NoState
         /\ u.current = st.current
         /\ \A t \in watchedConditions :
              /\ u.reported[t] = IF t \in Lasted(st) THEN st.current[t] ELSE st.reported[t]
              /\ u.failingSince[t] = IF t \in Lasted(st) THEN 0 ELSE st.failingSince[t]
<1> DEFINE v == Reported(objects[k])
<1>1. objects'[k] = Rescheduled(v) /\ objects[k] \in ObjectState
  BY DEF Reports, TypeOK
<1>2. v \in ObjectState
  BY <1>1, ReportedFacts
<1>3. /\ objects'[k] \in ObjectState
      /\ objects'[k].current = v.current
      /\ objects'[k].reported = v.reported
      /\ objects'[k].failingSince = v.failingSince
  BY <1>1, <1>2, RescheduledFacts DEF TypeOK
<1>4. objects'[k] # NoState
  BY <1>3, AbsenceAssumption
<1>5. /\ v.current = objects[k].current
      /\ \A t \in watchedConditions :
           /\ v.reported[t] = IF t \in Lasted(objects[k]) THEN objects[k].current[t]
                              ELSE objects[k].reported[t]
           /\ v.failingSince[t] = IF t \in Lasted(objects[k]) THEN 0
                                  ELSE objects[k].failingSince[t]
  BY <1>1, ReportedFacts
<1> HIDE DEF v
<1> QED
  BY <1>3, <1>4, <1>5

\* A fresh state reports nothing and has nothing pending.
LEMMA FreshFields ==
  ASSUME TypeOK, NEW k \in Keys, NEW t \in watchedConditions
  PROVE  IF objects[k] = NoState
         THEN /\ State(k).reported[t] = Unknown
              /\ State(k).current[t] = Blank
              /\ State(k).failingSince[t] = 0
         ELSE State(k) = objects[k]
  BY StateFacts DEF NoFlips, Never

-----------------------------------------------------------------------------
(* What is pending: PendingConsistent with the ages of failures, per object *)
(* and condition.                                                           *)

PendingRight(k, t) ==
  objects[k] # NoState /\ objects[k].failingSince[t] # 0 =>
    /\ minDuration # 0
    /\ objects[k].current[t] \in Conds
    /\ objects[k].current[t].status \in {"False", "Unknown"}
    /\ objects[k].reported[t] # Unknown
    /\ objects[k].reported[t].status # objects[k].current[t].status
    /\ badSince[k][t] # 0
    /\ badSince[k][t] <= objects[k].failingSince[t]

PendingInv ==
  \A k \in Keys, t \in watchedConditions : badSince[k][t] <= clock /\ PendingRight(k, t)

LEMMA PendingInit == Init => PendingInv
  BY DEF Init, Never, PendingInv, PendingRight

LEMMA ShowsPending ==
  ASSUME TypeOK, NEW k \in Keys, NEW t \in watchedConditions, NEW new \in Versions,
         Shows(k, new), badSince[k][t] <= clock, PendingRight(k, t),
         minDuration' = minDuration, clock' = clock
  PROVE  badSince'[k][t] <= clock' /\ PendingRight(k, t)'
<1>1. clock \in Nat \ {0} /\ badSince[k][t] \in Nat /\ minDuration \in Nat
  BY DEF TypeOK
<1>2. badSince'[k][t] = IF t \notin Seen(new) THEN badSince[k][t]
                        ELSE IF new[t].status = "True" THEN 0
                        ELSE IF badSince[k][t] = 0 THEN clock ELSE badSince[k][t]
  BY DEF Shows
<1>3. CASE t \notin Seen(new)
  <2>1. t \notin Well(k, new) /\ t \notin Back(k, new) /\ t \notin Bad(k, new) /\ t \notin AtOnce(k, new)
    BY <1>3 DEF Well, Back, Bad, AtOnce
  <2>2. /\ objects'[k].current[t] = State(k).current[t]
        /\ objects'[k].reported[t] = State(k).reported[t]
        /\ objects'[k].failingSince[t] = State(k).failingSince[t]
    BY <1>3, <2>1, ShownFields
  <2> QED
    BY <1>1, <1>2, <1>3, <2>2, FreshFields DEF PendingRight
<1>4. CASE t \in Seen(new) /\ t \in Back(k, new) \cup Well(k, new)
  <2>1. objects'[k].failingSince[t] = 0
    BY <1>4, ShownFields
  <2> QED
    BY <1>1, <1>2, <2>1 DEF PendingRight
<1>5. CASE t \in Seen(new) /\ t \notin Back(k, new) \cup Well(k, new)
  <2>1. t \in Bad(k, new) /\ new[t].status # "True" /\ new[t].status # Rep(k, new, t).status
    BY <1>5 DEF Bad, Well, Back
  <2>2. /\ new[t] \in Conds /\ Rep(k, new, t) # Unknown
    BY <1>5, RepFacts, CondFacts DEF Shows
  <2>3. new[t].status \in {"False", "Unknown"}
    BY <2>1, <2>2, CondFacts DEF Statuses
  <2>4. CASE minDuration = 0
    <3>1. State(k).failingSince[t] = 0
      BY <2>4, FreshFields DEF PendingRight
    <3>2. t \in AtOnce(k, new)
      BY <2>1, <2>4 DEF AtOnce
    <3>3. objects'[k].failingSince[t] = 0
      BY <1>5, <3>1, <3>2, ShownFields
    <3> QED
      BY <1>1, <1>2, <3>3 DEF PendingRight
  <2>5. CASE minDuration # 0
    <3>1. AtOnce(k, new) = {}
      BY <2>5 DEF AtOnce
    <3>2. /\ objects'[k].current[t] = new[t]
          /\ objects'[k].reported[t] = Rep(k, new, t)
          /\ objects'[k].failingSince[t] =
               IF State(k).failingSince[t] = 0 THEN clock ELSE State(k).failingSince[t]
      BY <1>5, <2>1, <3>1, ShownFields
    <3>3. State(k).failingSince[t] # 0 =>
            badSince[k][t] # 0 /\ badSince[k][t] <= State(k).failingSince[t]
      BY FreshFields DEF PendingRight
    <3> QED
      BY <1>1, <1>2, <1>5, <2>1, <2>2, <2>3, <2>5, <3>2, <3>3 DEF PendingRight
  <2> QED
    BY <2>4, <2>5
<1> QED
  BY <1>3, <1>4, <1>5

LEMMA ReportsPending ==
  ASSUME TypeOK, NEW k \in Keys, NEW t \in watchedConditions,
         Reports(k), PendingRight(k, t), minDuration' = minDuration
  PROVE  PendingRight(k, t)'
<1>1. CASE t \in Lasted(objects[k])
  BY <1>1, ReportedFields DEF PendingRight
<1>2. CASE t \notin Lasted(objects[k])
  <2>1. /\ objects'[k].current = objects[k].current
        /\ objects'[k].reported[t] = objects[k].reported[t]
        /\ objects'[k].failingSince[t] = objects[k].failingSince[t]
        /\ badSince'[k] = badSince[k] /\ objects[k] # NoState
    BY <1>2, ReportedFields DEF Reports
  <2> QED
    BY <2>1 DEF PendingRight
<1> QED
  BY <1>1, <1>2

\* The spec does not change, and the clock moves only alone.
LEMMA ClockSteps ==
  ASSUME TypeOK, Next
  PROVE  /\ minDuration' = minDuration /\ clock \in Nat /\ clock' \in Nat /\ clock <= clock'
         /\ clock' # clock => \A k \in Keys : Untouched(k)
<1>1. CASE Tick
  BY <1>1, NothingSent DEF Tick, Untouched, history, TypeOK
<1>2. CASE ~Tick
  <2>1. minDuration' = minDuration /\ clock' = clock
    BY <1>2 DEF Next, Add, Update, Delete, Expire, Fire, Close
  <2> QED
    BY <2>1 DEF TypeOK
<1> QED
  BY <1>1, <1>2

LEMMA PendingStep == TypeOK /\ PendingInv /\ [Next]_vars => PendingInv'
<1> SUFFICES ASSUME TypeOK, PendingInv, Next, NEW k \in Keys, NEW t \in watchedConditions
             PROVE  badSince'[k][t] <= clock' /\ PendingRight(k, t)'
  BY DEF PendingInv, PendingRight, vars, history
<1>1. badSince[k][t] <= clock /\ PendingRight(k, t) /\ badSince[k][t] \in Nat
  BY DEF PendingInv, TypeOK
<1>2. CASE Untouched(k)
  <2>1. badSince'[k][t] <= clock'
    BY <1>1, <1>2, ClockSteps DEF Untouched
  <2>2. /\ objects'[k] = objects[k] /\ badSince'[k] = badSince[k] /\ minDuration' = minDuration
    BY <1>2, ClockSteps DEF Untouched
  <2> QED
    BY <1>1, <2>1, <2>2 DEF PendingRight
<1>3. CASE ~Untouched(k)
  <2>1. minDuration' = minDuration /\ clock' = clock /\ clock \in Nat
    BY <1>3, ClockSteps
  <2>2. CASE Forgotten(k)
    BY <2>1, <2>2 DEF Forgotten, PendingRight, Never
  <2>3. ASSUME NEW new \in Versions, Shows(k, new)
        PROVE  badSince'[k][t] <= clock' /\ PendingRight(k, t)'
    BY <1>1, <2>1, <2>3, ShowsPending
  <2>4. CASE Reports(k)
    BY <1>1, <2>1, <2>4, ReportsPending DEF Reports
  <2> QED
    BY <1>3, <2>2, <2>3, <2>4, KeySteps
<1> QED
  BY <1>2, <1>3

LEMMA PendingAlways == Spec => []PendingInv
  BY PendingInit, PendingStep, TrackerTypeCorrect, PTL DEF Spec

LEMMA PendingConsists == PendingInv => PendingConsistent
  BY DEF PendingInv, PendingRight, PendingConsistent, Pending

(* A pending failure is one: the last state that is not ignored is not True *)
(* and not what was reported (update, fire).                                *)
THEOREM PendingIsFailing == Spec => []PendingConsistent
  BY PendingConsists, PendingAlways, PTL

-----------------------------------------------------------------------------
(* The tracker's objects exist, and a closed tracker has none.              *)

Living == \A k \in Keys : objects[k] # NoState => store[k] # Gone /\ ~closed

LEMMA LivingInit == Init => Living
  BY DEF Init, Living

LEMMA LivingStep == TypeOK /\ Living /\ [Next]_vars => Living'
<1> SUFFICES ASSUME TypeOK, Living, [Next]_vars, NEW k \in Keys, objects'[k] # NoState
             PROVE  store'[k] # Gone /\ ~closed'
  BY DEF Living
<1>1. ASSUME NEW j \in Keys, NEW new \in Versions, Add(j, new)
      PROVE  store'[k] # Gone /\ ~closed'
  BY <1>1, TrackerAssumption DEF Add, Living, TypeOK
<1>2. ASSUME NEW j \in Keys, NEW new \in Versions, NEW g \in BOOLEAN, Update(j, new, g)
      PROVE  store'[k] # Gone /\ ~closed'
  <2>1. Untouched(k) \/ (k = j /\ Shows(k, new))
    BY <1>2, UpdateShows
  <2>2. store' = [store EXCEPT ![j] = new] /\ closed' = closed /\ new # Gone
    BY <1>2, TrackerAssumption DEF Update
  <2> QED
    BY <2>1, <2>2 DEF Untouched, Shows, Living, TypeOK
<1>3. ASSUME NEW j \in Keys, Delete(j) PROVE store'[k] # Gone /\ ~closed'
  BY <1>3 DEF Delete, Living, TypeOK
<1>4. ASSUME NEW timer \in armed, Expire(timer) PROVE store'[k] # Gone /\ ~closed'
  BY <1>4 DEF Expire, Living
<1>5. ASSUME NEW timer \in fired, Fire(timer) PROVE store'[k] # Gone /\ ~closed'
  <2>1. Untouched(k) \/ Reports(k)
    BY <1>5, FireReports
  <2>2. UNCHANGED <<store, closed>>
    BY <1>5 DEF Fire
  <2> QED
    BY <2>1, <2>2 DEF Untouched, Reports, Living
<1>6. CASE Close
  BY <1>6 DEF Close
<1>7. CASE Tick \/ UNCHANGED vars
  BY <1>7 DEF Tick, vars, Living
<1> QED
  BY <1>1, <1>2, <1>3, <1>4, <1>5, <1>6, <1>7 DEF Next

LEMMA LivingAlways == Spec => []Living
  BY LivingInit, LivingStep, TrackerTypeCorrect, PTL DEF Spec

-----------------------------------------------------------------------------
(* Timers: a state that has one finds it running or waiting to fire, and a  *)
(* state with pending failures has one that is due with the first of them.  *)

TimerRight(k) ==
  objects[k] # NoState =>
    /\ objects[k].timer => Handle(k, objects[k]) \in armed \cup fired
    /\ Pending(objects[k]) # {} => objects[k].timer /\ objects[k].due = Due(objects[k])

TimersInv == \A k \in Keys : TimerRight(k)

LEMMA TimersInit == Init => TimersInv
  BY DEF Init, TimersInv, TimerRight

LEMMA HandleFacts ==
  ASSUME NEW j, NEW k, NEW r, NEW s, Handle(j, r) = Handle(k, s)
  PROVE  j = k /\ r.seq = s.seq
  BY DEF Handle

LEMMA SameDeadline ==
  ASSUME minDuration' = minDuration, NEW k, objects'[k] = objects[k]
  PROVE  /\ Pending(objects[k])' = Pending(objects[k])
         /\ Due(objects[k])' = Due(objects[k])
  BY DEF Pending, Due

\* What schedule leaves is right, if the timer that it keeps is there.
LEMMA ScheduleTimers ==
  ASSUME TypeOK, NEW k \in Keys, NEW st \in ObjectState, Schedule(k, st),
         minDuration' = minDuration,
         st.timer => Handle(k, st) \in armed \cup fired',
         NEW j \in Keys, j # k => TimerRight(j),
         j # k => \A timer \in fired : timer.key = j => timer \in fired'
  PROVE  TimerRight(j)'
<1> DEFINE r == Rescheduled(st)
<1>1. /\ r \in ObjectState /\ r.due = Due(r) /\ Due(r) = Due(st) /\ Pending(r) = Pending(st)
      /\ Kept(st) => r = st
      /\ ~Kept(st) => r.timer = (Due(st) # 0)
  BY RescheduledFacts DEF TypeOK
<1>2. /\ objects' = [objects EXCEPT ![k] = r]
      /\ Kept(st) => armed' = armed
      /\ ~Kept(st) => armed' = (armed \ Stopped(k, st)) \cup Stopped(k, r)
  BY DEF Schedule
<1> HIDE DEF r
<1>3. CASE j = k
  <2>1. objects'[j] = r
    BY <1>2, <1>3 DEF TypeOK
  <2>2. r.timer => Handle(k, r) \in armed' \cup fired'
    <3>1. CASE Kept(st)
      BY <1>1, <1>2, <3>1 DEF Kept
    <3>2. CASE ~Kept(st)
      BY <1>2, <3>2 DEF Stopped
    <3> QED
      BY <3>1, <3>2
  <2>3. Pending(r) # {} => r.timer
    <3>1. CASE Kept(st)
      BY <1>1, <3>1 DEF Kept
    <3>2. CASE ~Kept(st)
      BY <1>1, <3>2, DueFacts DEF TypeOK
    <3> QED
      BY <3>1, <3>2
  <2>4. Due(objects[j])' = Due(r) /\ Pending(objects[j])' = Pending(r)
    BY <2>1 DEF Due, Pending
  <2>5. Handle(j, objects[j])' = Handle(k, r)
    BY <2>1, <1>3 DEF Handle
  <2> QED
    BY <1>1, <2>1, <2>2, <2>3, <2>4, <2>5 DEF TimerRight
<1>4. CASE j # k
  <2>1. objects'[j] = objects[j]
    BY <1>2, <1>4 DEF TypeOK
  <2>2. Handle(j, objects[j]).key = j
    BY DEF Handle
  <2>3. \A timer \in Stopped(k, st) : timer.key = k
    BY DEF Stopped, Handle
  <2>4. Handle(j, objects[j]) \in armed \cup fired => Handle(j, objects[j]) \in armed' \cup fired'
    BY <1>2, <1>4, <2>2, <2>3
  <2>5. Handle(j, objects[j])' = Handle(j, objects[j])
    BY <2>1 DEF Handle
  <2> QED
    BY <1>4, <2>1, <2>4, <2>5, SameDeadline DEF TimerRight
<1> QED
  BY <1>3, <1>4

LEMMA SameTimers ==
  ASSUME NEW k, TimerRight(k), minDuration' = minDuration, objects'[k] = objects[k],
         objects[k] # NoState /\ Handle(k, objects[k]) \in armed \cup fired =>
           Handle(k, objects[k]) \in armed' \cup fired'
  PROVE  TimerRight(k)'
<1>1. Handle(k, objects[k])' = Handle(k, objects[k])
  BY DEF Handle
<1> QED
  BY <1>1, SameDeadline DEF TimerRight

LEMMA UpdateTimers ==
  ASSUME TypeOK, TimersInv, NEW k \in Keys, NEW new \in Versions, NEW g \in BOOLEAN,
         Update(k, new, g)
  PROVE  TimersInv'
<1> SUFFICES ASSUME NEW j \in Keys PROVE TimerRight(j)'
  BY DEF TimersInv
<1>1. minDuration' = minDuration /\ fired' = fired /\ store[k] # Gone /\ TimerRight(j)
  BY DEF Update, TimersInv
<1>2. CASE closed
  <2>1. UNCHANGED <<objects, armed>>
    BY <1>2 DEF Update, tracker
  <2> QED
    BY <1>1, <2>1, SameTimers
<1>3. CASE ~closed
  <2> DEFINE st == Updated(k, new)
  <2>1. Schedule(k, st)
    BY <1>3 DEF Update, UpdateOpen
  <2>2. /\ st \in ObjectState /\ st.timer = State(k).timer /\ st.due = State(k).due
        /\ st.seq = State(k).seq /\ st.life = State(k).life
    BY <1>1, UpdatedFacts
  <2>3. st.timer => Handle(k, st) \in armed \cup fired
    <3>1. CASE objects[k] = NoState
      BY <2>2, <3>1 DEF State
    <3>2. CASE objects[k] # NoState
      <4>1. State(k) = objects[k]
        BY <3>2 DEF State
      <4>2. Handle(k, st) = Handle(k, objects[k])
        BY <2>2, <4>1 DEF Handle
      <4> QED
        BY <2>2, <3>2, <4>1, <4>2 DEF TimersInv, TimerRight
    <3> QED
      BY <3>1, <3>2
  <2> HIDE DEF st
  <2> QED
    BY <1>1, <2>1, <2>2, <2>3, ScheduleTimers
<1> QED
  BY <1>2, <1>3

LEMMA FireTimers ==
  ASSUME TypeOK, Living, TimersInv, NEW timer \in fired, Fire(timer)
  PROVE  TimersInv'
<1> SUFFICES ASSUME NEW j \in Keys PROVE TimerRight(j)'
  BY DEF TimersInv
<1> DEFINE k == timer.key
<1>1. /\ minDuration' = minDuration /\ fired' = fired \ {timer} /\ k \in Keys
      /\ TimerRight(j)
  BY DEF Fire, TimersInv, TypeOK, Timer
<1>2. CASE Stale(timer)
  <2>1. UNCHANGED <<objects, armed>>
    BY <1>2 DEF Fire
  <2>2. objects[j] # NoState => Handle(j, objects[j]) # timer
    BY <1>2 DEF Stale, Living, Handle
  <2> QED
    BY <1>1, <2>1, <2>2, SameTimers
<1>3. CASE ~Stale(timer)
  <2> DEFINE st == Reported(objects[k])
  <2>1. Schedule(k, st)
    BY <1>3 DEF Fire
  <2>2. objects[k] \in ObjectState
    BY <1>1, <1>3 DEF Stale, TypeOK
  <2>3. st \in ObjectState /\ st.timer = FALSE
    BY <2>2, ReportedFacts
  <2> HIDE DEF st
  <2> QED
    BY <1>1, <2>1, <2>3, ScheduleTimers
<1> QED
  BY <1>2, <1>3

LEMMA TimersStep == TypeOK /\ Living /\ TimersInv /\ [Next]_vars => TimersInv'
<1> SUFFICES ASSUME TypeOK, Living, TimersInv, [Next]_vars PROVE TimersInv'
  OBVIOUS
<1>1. ASSUME NEW k \in Keys, NEW new \in Versions, NEW g \in BOOLEAN, Update(k, new, g)
      PROVE  TimersInv'
  BY <1>1, UpdateTimers
<1>2. ASSUME NEW timer \in fired, Fire(timer) PROVE TimersInv'
  BY <1>2, FireTimers
<1>3. ASSUME NEW k \in Keys, Delete(k) PROVE TimersInv'
  <2> SUFFICES ASSUME NEW j \in Keys PROVE TimerRight(j)'
    BY DEF TimersInv
  <2>1. /\ minDuration' = minDuration /\ fired' = fired
        /\ objects' = [objects EXCEPT ![k] = NoState]
        /\ \A timer \in armed \ armed' : timer.key = k
    BY <1>3 DEF Delete, Stopped, Handle
  <2>2. CASE j = k
    BY <2>1, <2>2 DEF TimerRight, TypeOK
  <2>3. CASE j # k
    <3>1. Handle(j, objects[j]).key = j
      BY DEF Handle
    <3> QED
      BY <2>1, <2>3, <3>1, SameTimers DEF TimersInv, TypeOK
  <2> QED
    BY <2>2, <2>3
<1>4. ASSUME NEW timer \in armed, Expire(timer) PROVE TimersInv'
  BY <1>4, SameTimers DEF Expire, TimersInv
<1>5. CASE Close
  BY <1>5 DEF Close, TimersInv, TimerRight
<1>6. ASSUME NEW k \in Keys, NEW new \in Versions, Add(k, new) PROVE TimersInv'
  BY <1>6, SameTimers DEF Add, TimersInv
<1>7. CASE Tick \/ UNCHANGED vars
  BY <1>7, SameTimers DEF Tick, vars, TimersInv
<1> QED
  BY <1>1, <1>2, <1>3, <1>4, <1>5, <1>6, <1>7 DEF Next

LEMMA TimersAlways == Spec => []TimersInv
  BY TimersInit, TimersStep, LivingAlways, TrackerTypeCorrect, PTL DEF Spec

LEMMA TimersThere == TimersInv => NoLostTimer
  BY DEF TimersInv, TimerRight, NoLostTimer, Handle

(* No pending failure is without its timer, also when a stale timer of an   *)
(* earlier life of the object passes for its own (schedule, fire).          *)
THEOREM TimersKept == Spec => []NoLostTimer
  BY TimersThere, TimersAlways, PTL

-----------------------------------------------------------------------------
(* What a pending failure waits for: once it has lasted, for the runtime or *)
(* for t.mu only.                                                           *)

LEMMA DueIsFirst ==
  ASSUME NEW st \in ObjectState, minDuration \in Nat, NEW t \in Pending(st)
  PROVE  Due(st) <= st.failingSince[t] + minDuration
<1> DEFINE at(u) == st.failingSince[u] + minDuration
           first(d) == \A u \in Pending(st) : d <= at(u)
           D == {at(u) : u \in Pending(st)}
<1>1. \A u \in Pending(st) : at(u) \in Nat
  BY DEF Pending, ObjectState
<1>2. \E u \in Pending(st) : \A v \in Pending(st) : at(u) <= at(v)
  BY <1>1 DEF Pending, watchedConditions
<1>3. \E d \in D : first(d)
  BY <1>2
<1>4. Due(st) = CHOOSE d \in D : first(d)
  BY DEF Due
<1>5. first(Due(st))
  BY <1>3, <1>4
<1> QED
  BY <1>5

\* A failure that has lasted has a timer that may expire at once, or whose fire
\* waits for t.mu and is not stale.
OverdueIsUp ==
  \A k \in Keys : objects[k] # NoState /\ Lasted(objects[k]) # {} =>
    \E timer \in armed \cup fired :
      /\ timer.key = k
      /\ clock >= timer.due
      /\ ~Stale(timer)

LEMMA OverdueHasTimer == TypeOK /\ Living /\ TimersInv => OverdueIsUp
<1> SUFFICES ASSUME TypeOK, Living, TimersInv, NEW k \in Keys, objects[k] # NoState,
                    NEW t \in Lasted(objects[k])
             PROVE  \E timer \in armed \cup fired :
                      timer.key = k /\ clock >= timer.due /\ ~Stale(timer)
  BY DEF OverdueIsUp
<1> DEFINE st == objects[k]
<1>1. st \in ObjectState /\ t \in Pending(st) /\ clock >= st.failingSince[t] + minDuration
  BY DEF Lasted, TypeOK
<1>2. st.timer /\ Handle(k, st) \in armed \cup fired /\ st.due = Due(st)
  BY <1>1 DEF TimersInv, TimerRight
<1>3. clock >= st.due
  <2>1. Due(st) <= st.failingSince[t] + minDuration
    BY <1>1, DueIsFirst DEF TypeOK
  <2>2. Due(st) \in Nat /\ st.failingSince[t] \in Nat /\ clock \in Nat /\ minDuration \in Nat
    BY <1>1, DueFacts DEF TypeOK, ObjectState, Pending
  <2> QED
    BY <1>1, <1>2, <2>1, <2>2
<1>4. /\ Handle(k, st).key = k /\ Handle(k, st).due = st.due
      /\ Handle(k, st).seq = st.seq
  BY DEF Handle
<1>5. ~Stale(Handle(k, st))
  BY <1>4 DEF Stale, Living
<1> QED
  BY <1>2, <1>3, <1>4, <1>5

(* An overdue failure waits for the scheduler only: however often its timer *)
(* was replaced, one is due and will not be taken for stale (schedule,      *)
(* fire).  What remains of its liveness is fairness.                        *)
THEOREM OverdueWaitsForNobody == Spec => []OverdueIsUp
  BY OverdueHasTimer, TrackerTypeCorrect, LivingAlways, TimersAlways, PTL

(* The step of a fire that is not stale leaves nothing overdue: everything  *)
(* of the object that has lasted is pitched in one message, and what is     *)
(* still pending is not due yet (fire, schedule).                           *)
FireClears ==
  [][\A timer \in fired : Fire(timer) /\ ~Stale(timer) =>
       /\ Lasted(objects[timer.key])' = {}
       /\ \A t \in Lasted(objects[timer.key]) :
            /\ pitch' # NoPitch
            /\ pitch'.key = timer.key
            /\ pitch'.flips[t] = objects[timer.key].current[t]]_vars

(* Each fire of the current timer takes all that has lasted.                *)
THEOREM FireTakesAll == Spec => FireClears
<1>1. TypeOK /\ TypeOK' /\ [Next]_vars =>
        [\A timer \in fired : Fire(timer) /\ ~Stale(timer) =>
           /\ Lasted(objects[timer.key])' = {}
           /\ \A t \in Lasted(objects[timer.key]) :
                /\ pitch' # NoPitch
                /\ pitch'.key = timer.key
                /\ pitch'.flips[t] = objects[timer.key].current[t]]_vars
  <2> SUFFICES ASSUME TypeOK, TypeOK', NEW timer \in fired, Fire(timer), ~Stale(timer)
               PROVE  /\ Lasted(objects[timer.key])' = {}
                      /\ \A t \in Lasted(objects[timer.key]) :
                           /\ pitch' # NoPitch
                           /\ pitch'.key = timer.key
                           /\ pitch'.flips[t] = objects[timer.key].current[t]
    OBVIOUS
  <2> DEFINE k  == timer.key
             st == objects[k]
  <2>1. k \in Keys /\ st # NoState /\ clock' = clock /\ minDuration' = minDuration
    BY DEF Fire, Stale, TypeOK, Timer
  <2>2. Reports(k)
    BY <2>1, FireReports
  <2>3. \A t \in watchedConditions :
          objects'[k].failingSince[t] = IF t \in Lasted(st) THEN 0 ELSE st.failingSince[t]
    BY <2>1, <2>2, ReportedFields
  <2>4. Lasted(objects[k])' = {}
    BY <2>1, <2>3 DEF Lasted, Pending
  <2>5. ASSUME NEW t \in Lasted(st)
        PROVE  pitch' # NoPitch /\ pitch'.key = k /\ pitch'.flips[t] = st.current[t]
    <3>1. PitchFlips(k, "failures", Failures(st))
      BY <2>5 DEF Fire, Failures
    <3>2. pitch' = [kind |-> "failures", key |-> k, flips |-> Failures(st)]
      BY <3>1 DEF PitchFlips
    <3>3. pitch'.kind = "failures" /\ pitch'.key = k /\ pitch'.flips = Failures(st)
      BY <3>2
    <3>4. pitch' # NoPitch
      <4>1. Failures(st) \in [watchedConditions -> Shown]
        BY <2>1 DEF Failures, TypeOK, ObjectState, Shown
      <4> QED
        BY <2>1, <3>2, <4>1, AbsenceAssumption DEF Pitch, Shown
    <3> QED
      BY <2>5, <3>3, <3>4 DEF Failures, Lasted, Pending
  <2> QED
    BY <2>4, <2>5
<1> QED
  BY <1>1, TrackerTypeCorrect, PTL DEF Spec, FireClears

-----------------------------------------------------------------------------
(* Whose the timers are.  As long as no fire takes the state of an object's *)
(* successor for its own, every timer that runs is the one its state knows; *)
(* so close, which stops what the states know, stops every timer.           *)

\* fire was started for the state that it finds, or returns.
FiresForItsOwn ==
  \A timer \in fired :
    Fire(timer) => Stale(timer) \/ objects[timer.key].life = timer.life

OwnTimer(timer) ==
  LET st == objects[timer.key] IN
  st # NoState /\ st.timer /\ timer = Handle(timer.key, st)

\* A timer that has expired has an older number than the state's, or has the
\* state's and then no other runs.
OldTimer(timer) ==
  LET st == objects[timer.key] IN
  st # NoState /\ st.life = timer.life =>
    /\ timer.seq <= st.seq
    /\ timer.seq = st.seq => Handle(timer.key, st) \notin armed

OwnTimers ==
  /\ \A timer \in armed : OwnTimer(timer)
  /\ \A timer \in fired : OldTimer(timer) /\ timer.life <= lives
  /\ \A k \in Keys : objects[k] # NoState => objects[k].life <= lives

LEMMA OwnTimersInit == Init => OwnTimers
  BY DEF Init, OwnTimers

\* schedule, for a state whose timer is the only one of its object that runs.
LEMMA ScheduleOwn ==
  ASSUME TypeOK, OwnTimers, NEW k \in Keys, NEW st \in ObjectState, Schedule(k, st),
         fired' \subseteq fired, lives' \in Nat, lives <= lives', st.life <= lives',
         \A timer \in armed : timer.key = k => st.timer /\ timer = Handle(k, st),
         \A timer \in fired' : timer.key = k /\ timer.life = st.life =>
           /\ timer.seq <= st.seq
           /\ st.timer /\ timer.seq = st.seq => Handle(k, st) \notin armed
  PROVE  OwnTimers'
<1> DEFINE r == Rescheduled(st)
<1>1. /\ r \in ObjectState /\ r.life = st.life
      /\ Kept(st) => r = st
      /\ ~Kept(st) => r.seq = st.seq + 1
  BY RescheduledFacts DEF TypeOK
<1>2. /\ objects' = [objects EXCEPT ![k] = r]
      /\ Kept(st) => armed' = armed
      /\ ~Kept(st) => armed' = (armed \ Stopped(k, st)) \cup Stopped(k, r)
  BY DEF Schedule
<1>3. st.timer => Stopped(k, st) = {Handle(k, st)}
  BY DEF Stopped
<1>4. Stopped(k, r) \subseteq {Handle(k, r)} /\ (Stopped(k, r) # {} => r.timer)
  BY DEF Stopped
<1>5. /\ Handle(k, r).key = k /\ Handle(k, r).life = r.life /\ Handle(k, r).seq = r.seq
      /\ Handle(k, st).key = k
  BY DEF Handle
<1> HIDE DEF r
<1>6. objects'[k] = r /\ r # NoState /\ \A j \in Keys \ {k} : objects'[j] = objects[j]
  BY <1>1, <1>2, AbsenceAssumption DEF TypeOK
<1>7. \A timer \in armed \cup fired : timer.key \in Keys
  BY DEF TypeOK, Timer
<1>8. Kept(st) => st.timer
  BY DEF Kept
<1>9. ASSUME NEW timer \in armed' PROVE OwnTimer(timer)'
  <2>1. CASE timer \in armed /\ timer.key # k
    <3>1. OwnTimer(timer)
      BY <2>1 DEF OwnTimers
    <3>2. objects'[timer.key] = objects[timer.key]
      BY <1>6, <1>7, <2>1
    <3> QED
      BY <3>1, <3>2 DEF OwnTimer, Handle
  <2>2. CASE Kept(st) /\ timer \in armed /\ timer.key = k
    <3>1. r.timer /\ timer = Handle(k, r)
      BY <1>1, <2>2
    <3> QED
      BY <1>6, <2>2, <3>1 DEF OwnTimer, Handle
  <2>3. CASE ~Kept(st) /\ timer \in Stopped(k, r)
    <3>1. r.timer /\ timer = Handle(k, r)
      BY <1>4, <2>3
    <3> QED
      BY <1>5, <1>6, <3>1 DEF OwnTimer, Handle
  <2>4. ~Kept(st) /\ timer \in armed /\ timer.key = k => timer \in Stopped(k, st)
    BY <1>3
  <2> QED
    BY <1>2, <2>1, <2>2, <2>3, <2>4
<1>10. ASSUME NEW timer \in fired' PROVE OldTimer(timer)' /\ timer.life <= lives'
  <2>1. OldTimer(timer) /\ timer.life <= lives /\ timer.key \in Keys /\ timer \in Timer
    BY <1>7 DEF OwnTimers, TypeOK
  <2>2. timer.life <= lives'
    BY <2>1 DEF TypeOK, Timer
  <2>3. CASE timer.key # k
    <3>1. objects'[timer.key] = objects[timer.key]
      BY <1>6, <2>1, <2>3
    <3>2. Handle(timer.key, objects[timer.key])' = Handle(timer.key, objects[timer.key])
      BY <3>1 DEF Handle
    <3>3. Handle(timer.key, objects[timer.key]).key = timer.key
      BY DEF Handle
    <3>4. Handle(timer.key, objects[timer.key]) \in armed' =>
            Handle(timer.key, objects[timer.key]) \in armed
      BY <1>2, <1>4, <1>5, <2>3, <3>3
    <3> QED
      BY <2>1, <2>2, <3>1, <3>2, <3>4 DEF OldTimer
  <2>4. CASE timer.key = k
    <3> SUFFICES ASSUME r.life = timer.life
                 PROVE  timer.seq <= r.seq /\ (timer.seq = r.seq => Handle(k, r) \notin armed')
      BY <1>6, <2>2, <2>4 DEF OldTimer, Handle
    <3>1. timer.seq <= st.seq /\ timer.seq \in Nat /\ st.seq \in Nat
      BY <1>1, <2>1, <2>4 DEF Timer, ObjectState
    <3>2. CASE Kept(st)
      BY <1>1, <1>2, <1>8, <2>4, <3>1, <3>2
    <3>3. CASE ~Kept(st)
      BY <1>1, <3>1, <3>3
    <3> QED
      BY <3>2, <3>3
  <2> QED
    BY <2>2, <2>3, <2>4
<1>11. ASSUME NEW j \in Keys, objects'[j] # NoState PROVE objects'[j].life <= lives'
  <2>1. CASE j = k
    BY <1>1, <1>6, <2>1
  <2>2. CASE j # k
    <3>1. objects[j] \in ObjectState /\ objects'[j] = objects[j] /\ objects[j].life <= lives
      BY <1>6, <1>11, <2>2 DEF OwnTimers, TypeOK
    <3> QED
      BY <3>1 DEF ObjectState, TypeOK
  <2> QED
    BY <2>1, <2>2
<1> QED
  BY <1>9, <1>10, <1>11 DEF OwnTimers

LEMMA SameOwn ==
  ASSUME TypeOK, OwnTimers, UNCHANGED objects, armed' \subseteq armed, UNCHANGED lives,
         \A timer \in fired' : timer \in fired \/ timer \in armed \ armed'
  PROVE  OwnTimers'
<1>1. \A timer \in armed' : OwnTimer(timer)'
  BY DEF OwnTimers, OwnTimer, Handle
<1>2. ASSUME NEW timer \in fired' PROVE OldTimer(timer)' /\ timer.life <= lives'
  <2>1. CASE timer \in fired
    <3>1. OldTimer(timer) /\ timer.life <= lives
      BY <2>1 DEF OwnTimers
    <3>2. Handle(timer.key, objects[timer.key])' = Handle(timer.key, objects[timer.key])
      BY DEF Handle
    <3> QED
      BY <3>1, <3>2 DEF OldTimer
  <2>2. CASE timer \in armed \ armed'
    <3> DEFINE st == objects[timer.key]
    <3>1. timer \in Timer /\ st # NoState /\ timer = Handle(timer.key, st)
      BY <2>2 DEF OwnTimers, OwnTimer, TypeOK
    <3>2. timer.key \in Keys /\ timer.seq \in Nat
      BY <3>1 DEF Timer
    <3>3. timer.life = st.life /\ timer.seq = st.seq /\ st.life <= lives
      BY <3>1, <3>2 DEF OwnTimers, Handle
    <3>4. OldTimer(timer)'
      BY <2>2, <3>1, <3>2, <3>3 DEF OldTimer, Handle
    <3> QED
      BY <3>3, <3>4
  <2> QED
    BY <2>1, <2>2
<1> QED
  BY <1>1, <1>2 DEF OwnTimers

LEMMA OwnTimersStep ==
  TypeOK /\ TypeOK' /\ OwnTimers /\ FiresForItsOwn /\ [Next]_vars => OwnTimers'
<1> SUFFICES ASSUME TypeOK, TypeOK', OwnTimers, FiresForItsOwn, [Next]_vars PROVE OwnTimers'
  OBVIOUS
<1>1. ASSUME NEW k \in Keys, NEW new \in Versions, NEW g \in BOOLEAN, Update(k, new, g)
      PROVE  OwnTimers'
  <2>1. CASE closed
    BY <1>1, <2>1, SameOwn DEF Update, tracker
  <2>2. CASE ~closed
    <3> DEFINE st == Updated(k, new)
    <3>1. /\ Schedule(k, st) /\ fired' = fired /\ store[k] # Gone
          /\ lives' = IF objects[k] = NoState THEN lives + 1 ELSE lives
      BY <1>1, <2>2 DEF Update, UpdateOpen
    <3>2. /\ st \in ObjectState /\ st.timer = State(k).timer /\ st.due = State(k).due
          /\ st.seq = State(k).seq /\ st.life = State(k).life
      BY <3>1, UpdatedFacts
    <3>3. lives \in Nat /\ lives' \in Nat /\ lives <= lives'
      BY <3>1 DEF TypeOK
    <3>4. CASE objects[k] = NoState
      <4>1. st.life = lives + 1 /\ st.timer = FALSE /\ st.seq = 0
        BY <3>2, <3>4 DEF State
      <4>2. \A timer \in armed : timer.key # k
        BY <3>4 DEF OwnTimers, OwnTimer
      <4>3. \A timer \in fired : timer.life # st.life
        BY <3>3, <4>1 DEF OwnTimers, TypeOK, Timer
      <4> HIDE DEF st
      <4> QED
        BY <3>1, <3>2, <3>3, <3>4, <4>1, <4>2, <4>3, ScheduleOwn
    <3>5. CASE objects[k] # NoState
      <4>1. State(k) = objects[k] /\ st.life <= lives
        BY <3>2, <3>5 DEF State, OwnTimers
      <4>2. Handle(k, st) = Handle(k, objects[k])
        BY <3>2, <4>1 DEF Handle
      <4>3. \A timer \in armed : timer.key = k => st.timer /\ timer = Handle(k, st)
        BY <3>2, <4>1, <4>2 DEF OwnTimers, OwnTimer
      <4>4. \A timer \in fired : timer.key = k /\ timer.life = st.life =>
              timer.seq <= st.seq /\ (timer.seq = st.seq => Handle(k, st) \notin armed)
        BY <3>2, <3>5, <4>1, <4>2 DEF OwnTimers, OldTimer
      <4> HIDE DEF st
      <4> QED
        BY <3>1, <3>2, <3>3, <3>5, <4>1, <4>3, <4>4, ScheduleOwn
    <3> QED
      BY <3>4, <3>5
  <2> QED
    BY <2>1, <2>2
<1>2. ASSUME NEW timer \in fired, Fire(timer) PROVE OwnTimers'
  <2>1. CASE Stale(timer)
    BY <1>2, <2>1, SameOwn DEF Fire
  <2>2. CASE ~Stale(timer)
    <3> DEFINE k  == timer.key
               st == Reported(objects[k])
    <3>1. /\ Schedule(k, st) /\ fired' \subseteq fired /\ lives' = lives
          /\ k \in Keys /\ objects[k] # NoState /\ objects[k].seq = timer.seq
      BY <1>2, <2>2 DEF Fire, Stale, TypeOK, Timer
    <3>2. /\ st \in ObjectState /\ st.timer = FALSE /\ st.seq = objects[k].seq
          /\ st.life = objects[k].life
      BY <3>1, ReportedFacts DEF TypeOK
    <3>3. objects[k].life = timer.life
      BY <1>2, <2>2 DEF FiresForItsOwn
    <3>4. Handle(k, objects[k]) \notin armed
      BY <3>1, <3>3 DEF OwnTimers, OldTimer
    <3>5. \A tm \in armed : tm.key # k
      BY <3>4 DEF OwnTimers, OwnTimer
    <3>6. \A tm \in fired' : tm.key = k /\ tm.life = st.life => tm.seq <= st.seq
      BY <3>1, <3>2 DEF OwnTimers, OldTimer
    <3>7. lives \in Nat /\ st.life <= lives /\ lives <= lives
      BY <3>1, <3>2 DEF OwnTimers, TypeOK
    <3> HIDE DEF k, st
    <3> QED
      BY <3>1, <3>2, <3>5, <3>6, <3>7, ScheduleOwn
  <2> QED
    BY <2>1, <2>2
<1>3. ASSUME NEW k \in Keys, Delete(k) PROVE OwnTimers'
  <2>1. /\ fired' = fired /\ lives' = lives /\ objects'[k] = NoState
        /\ armed' = IF objects[k] = NoState THEN armed ELSE armed \ Stopped(k, objects[k])
        /\ \A j \in Keys \ {k} : objects'[j] = objects[j]
    BY <1>3 DEF Delete, TypeOK
  <2>2. ASSUME NEW timer \in armed' PROVE OwnTimer(timer)'
    <3>1. OwnTimer(timer) /\ timer \in armed /\ timer.key \in Keys
      BY <2>1 DEF OwnTimers, TypeOK, Timer
    <3>2. timer.key # k
      BY <2>1, <3>1 DEF OwnTimer, Stopped
    <3> QED
      BY <2>1, <3>1, <3>2 DEF OwnTimer, Handle
  <2>3. ASSUME NEW timer \in fired PROVE OldTimer(timer)'
    <3>1. OldTimer(timer) /\ timer.key \in Keys /\ armed' \subseteq armed
      BY <2>1 DEF OwnTimers, TypeOK, Timer
    <3>2. CASE timer.key = k
      BY <2>1, <3>2 DEF OldTimer
    <3>3. CASE timer.key # k
      <4>1. objects'[timer.key] = objects[timer.key]
        BY <2>1, <3>1, <3>3
      <4> QED
        BY <3>1, <4>1 DEF OldTimer, Handle
    <3> QED
      BY <3>2, <3>3
  <2> QED
    BY <2>1, <2>2, <2>3 DEF OwnTimers
<1>4. ASSUME NEW timer \in armed, Expire(timer) PROVE OwnTimers'
  BY <1>4, SameOwn DEF Expire
<1>5. CASE Close
  <2>1. \A k \in Keys : objects'[k] = NoState
    BY <1>5 DEF Close
  <2>2. armed' = {}
    <3> SUFFICES ASSUME NEW timer \in armed' PROVE FALSE
      OBVIOUS
    <3>1. timer \in armed /\ OwnTimer(timer) /\ timer.key \in Keys
      BY <1>5 DEF Close, OwnTimers, TypeOK, Timer
    <3>2. timer \in Stopped(timer.key, objects[timer.key]) /\ objects[timer.key] # NoState
      BY <3>1 DEF OwnTimer, Stopped
    <3> QED
      BY <1>5, <3>1, <3>2 DEF Close
  <2>3. \A timer \in fired' : timer.key \in Keys /\ timer \in fired /\ timer.life <= lives'
    BY <1>5 DEF Close, TypeOK, Timer, OwnTimers
  <2> QED
    BY <2>1, <2>2, <2>3 DEF OwnTimers, OldTimer
<1>6. CASE (\E k \in Keys, new \in Versions : Add(k, new)) \/ Tick \/ UNCHANGED vars
  BY <1>6, SameOwn DEF Add, Tick, vars, tracker
<1> QED
  BY <1>1, <1>2, <1>3, <1>4, <1>5, <1>6 DEF Next

(* The comment of close, "close stops every timer", is broken only by a     *)
(* fire whose object was deleted and came back while it waited for t.mu,    *)
(* and whose number is also its successor's (fire, schedule, close).        *)
THEOREM OwnTimersAreStopped ==
  Spec /\ [][FiresForItsOwn]_vars => []CloseStopsTimers
<1>1. TypeOK /\ Living /\ OwnTimers => CloseStopsTimers
  BY DEF CloseStopsTimers, OwnTimers, OwnTimer, Living, TypeOK, Timer
<1>2. OwnTimers /\ TypeOK /\ TypeOK' /\ [Next]_vars /\ [FiresForItsOwn]_vars => OwnTimers'
  <2>1. TypeOK /\ OwnTimers /\ UNCHANGED vars => OwnTimers'
    BY SameOwn DEF vars
  <2> QED
    BY <2>1, OwnTimersStep
<1> QED
  BY <1>1, <1>2, OwnTimersInit, TrackerTypeCorrect, LivingAlways, PTL DEF Spec

(* After close nothing is pitched, not even by a timer that close missed or *)
(* by an update that comes late (update, fire, close).                      *)
QuietAfterClose == [][closed => closed' /\ pitch' = NoPitch]_vars

(* A closed tracker stays closed and silent.                                *)
THEOREM NothingAfterClose == Spec => QuietAfterClose
<1>1. [Next]_vars => [closed => closed' /\ pitch' = NoPitch]_vars
  BY DEF Next, Add, Update, Delete, Expire, Fire, Stale, Close, Tick, PitchFlips
<1> QED
  BY <1>1, PTL DEF Spec, QuietAfterClose

(* No failure is pitched early, or for an object that is gone: what fire    *)
(* takes for lasting has been failing at least that long (fire).            *)
LEMMA EarlyStep == TypeOK /\ Living /\ PendingInv /\ NoEarlyFailure /\ [Next]_vars => NoEarlyFailure'
<1> SUFFICES ASSUME TypeOK, Living, PendingInv, NoEarlyFailure, [Next]_vars
             PROVE  NoEarlyFailure'
  OBVIOUS
<1>1. CASE UNCHANGED vars
  BY <1>1 DEF vars, history, NoEarlyFailure
<1>2. CASE pitch' = NoPitch
  BY <1>2 DEF NoEarlyFailure
<1>3. ASSUME NEW k \in Keys, NEW new \in Versions, NEW g \in BOOLEAN, Update(k, new, g)
      PROVE  NoEarlyFailure'
  <2>1. pitch' # NoPitch => pitch'.kind \in {"flips", "generation"}
    BY <1>3 DEF Update, UpdateOpen, PitchFlips
  <2> QED
    BY <2>1 DEF NoEarlyFailure
<1>4. ASSUME NEW timer \in fired, Fire(timer), pitch' # NoPitch PROVE NoEarlyFailure'
  <2> DEFINE k  == timer.key
             st == objects[k]
  <2>1. /\ ~Stale(timer) /\ k \in Keys /\ st # NoState
        /\ clock' = clock /\ minDuration' = minDuration /\ store' = store /\ badSince' = badSince
    BY <1>4 DEF Fire, Stale, TypeOK, Timer
  <2>2. pitch' = [kind |-> "failures", key |-> k, flips |-> Failures(st)]
    BY <1>4, <2>1 DEF Fire, PitchFlips, Failures
  <2>3. ASSUME NEW t \in watchedConditions, pitch'.flips[t] # Blank
        PROVE  badSince[k][t] # 0 /\ clock - badSince[k][t] >= minDuration
    <3>1. st.failingSince[t] # 0 /\ clock >= st.failingSince[t] + minDuration
      BY <2>2, <2>3 DEF Failures, Lasted, Pending
    <3>2. badSince[k][t] # 0 /\ badSince[k][t] <= st.failingSince[t]
      BY <2>1, <3>1 DEF PendingInv, PendingRight
    <3>3. /\ badSince[k][t] \in Nat /\ st.failingSince[t] \in Nat
          /\ clock \in Nat /\ minDuration \in Nat
      BY <2>1 DEF TypeOK, ObjectState
    <3> QED
      BY <3>1, <3>2, <3>3
  <2> QED
    BY <2>1, <2>2, <2>3 DEF NoEarlyFailure, Living
<1> QED
  BY <1>1, <1>2, <1>3, <1>4 DEF Next, Add, Delete, Expire, Close, Tick

(* A failure is pitched only for an object that exists, and only once no    *)
(* update has shown the condition healthy for minDuration (fire).           *)
THEOREM NoneEarly == Spec => []NoEarlyFailure
<1>1. Init => NoEarlyFailure
  BY DEF Init, NoEarlyFailure
<1> QED
  BY <1>1, EarlyStep, PendingAlways, LivingAlways, TrackerTypeCorrect, PTL DEF Spec

-----------------------------------------------------------------------------
(* What was told and what is taken for reported, per object and condition.  *)
(* The converse holds of failures, and only with minDuration: a healthy     *)
(* state may be the one the condition was first seen with.                  *)

ToldRight(k, t) ==
  /\ told[k][t] # Blank => StateOf(k, t) = told[k][t].status
  /\ minDuration > 0 /\ StateOf(k, t) \in {"False", "Unknown"} =>
       told[k][t].status = StateOf(k, t)

ToldInv == \A k \in Keys, t \in watchedConditions : ToldRight(k, t)

LEMMA ToldInit == Init => ToldInv
<1> SUFFICES ASSUME Init, NEW k \in Keys, NEW t \in watchedConditions PROVE ToldRight(k, t)
  BY DEF ToldInv
<1>1. told[k][t] = Blank /\ StateOf(k, t) = Unset
  BY DEF Init, NoFlips, StateOf
<1> QED
  BY <1>1, UnsetIsNoStatus DEF ToldRight, Statuses

\* What an update compares with is what was reported, if anything was.
LEMMA RepReported ==
  ASSUME TypeOK, NEW k \in Keys, NEW new \in Versions, store[k] # Gone, NEW t \in Seen(new)
  PROVE  /\ StateOf(k, t) # Unset => Rep(k, new, t).status = StateOf(k, t)
         /\ minDuration > 0 /\ Rep(k, new, t).status # StateOf(k, t) =>
              Rep(k, new, t).status = "True"
<1>1. CASE objects[k] # NoState /\ objects[k].reported[t] # Unknown
  BY <1>1, RepFacts, FreshFields DEF StateOf
<1>2. CASE ~(objects[k] # NoState /\ objects[k].reported[t] # Unknown)
  <2>1. StateOf(k, t) = Unset
    BY <1>2 DEF StateOf
  <2>2. t \in watchedConditions /\ State(k).reported[t] = Unknown
    BY <1>2, FreshFields, RepFacts
  <2>3. Rep(k, new, t) = Baseline(store[k][t], new[t])
    BY <2>2, RepFacts
  <2>4. minDuration > 0 => minDuration # 0
    BY DEF TypeOK
  <2>5. minDuration # 0 => Rep(k, new, t).status \in {"True", Unset}
    BY <2>3, CondFacts DEF Baseline
  <2> QED
    BY <2>1, <2>4, <2>5
<1> QED
  BY <1>1, <1>2

LEMMA ShowsTold ==
  ASSUME TypeOK, NEW k \in Keys, NEW t \in watchedConditions, NEW new \in Versions,
         Shows(k, new), ToldRight(k, t), minDuration' = minDuration
  PROVE  ToldRight(k, t)'
<1>1. /\ store[k] # Gone /\ told[k][t] \in Shown
      /\ told'[k][t] = IF t \in Flipped(k, new) THEN new[t] ELSE told[k][t]
  BY DEF Shows, TypeOK, Shown
<1>2. CASE t \in Well(k, new) \cup AtOnce(k, new)
  <2>1. t \in Seen(new) /\ t \notin Back(k, new) /\ new[t] \in Conds
    BY <1>1, <1>2, FlipFacts
  <2>2. objects'[k] # NoState /\ objects'[k].reported[t] = new[t]
    BY <1>2, ShownFields
  <2>3. StateOf(k, t)' = new[t].status
    BY <2>1, <2>2, CondFacts DEF StateOf, Shown
  <2>4. CASE t \in Flipped(k, new)
    BY <1>1, <2>3, <2>4 DEF ToldRight
  <2>5. CASE t \notin Flipped(k, new)
    <3>1. t \in Well(k, new) /\ Rep(k, new, t) = Blank
      BY <1>2, <2>5 DEF Flipped
    <3>2. new[t].status = "True"
      BY <3>1 DEF Well
    <3>3. StateOf(k, t) = Unset
      BY <1>1, <2>1, <3>1, RepReported, CondFacts
    <3>4. told[k][t] = Blank
      BY <1>1, <3>3, CondFacts, UnsetIsNoStatus DEF ToldRight, Shown
    <3> QED
      BY <1>1, <2>3, <2>5, <3>2, <3>4 DEF ToldRight
  <2> QED
    BY <2>4, <2>5
<1>3. CASE t \in Seen(new) /\ t \notin Well(k, new) \cup AtOnce(k, new)
  <2>1. objects'[k] # NoState /\ objects'[k].reported[t] = Rep(k, new, t)
    BY <1>3, ShownFields
  <2>2. StateOf(k, t)' = Rep(k, new, t).status
    BY <1>1, <1>3, <2>1, RepFacts, CondFacts DEF StateOf
  <2>3. told'[k][t] = told[k][t]
    BY <1>1, <1>3, FlipFacts
  <2>4. told[k][t] # Blank => StateOf(k, t) # Unset
    BY <1>1, CondFacts, UnsetIsNoStatus DEF ToldRight, Shown
  <2> QED
    BY <1>1, <1>3, <2>2, <2>3, <2>4, RepReported DEF ToldRight
<1>4. CASE t \notin Seen(new)
  <2>1. t \notin Well(k, new) \cup AtOnce(k, new) /\ t \notin Flipped(k, new)
    BY <1>1, <1>4, FlipFacts
  <2>2. objects'[k] # NoState /\ objects'[k].reported[t] = State(k).reported[t]
    BY <1>4, <2>1, ShownFields
  <2>3. StateOf(k, t)' = StateOf(k, t)
    BY <2>2, FreshFields DEF StateOf
  <2> QED
    BY <1>1, <2>1, <2>3 DEF ToldRight
<1> QED
  BY <1>2, <1>3, <1>4

LEMMA ReportsTold ==
  ASSUME TypeOK, NEW k \in Keys, NEW t \in watchedConditions, Reports(k),
         ToldRight(k, t), PendingRight(k, t), minDuration' = minDuration
  PROVE  ToldRight(k, t)'
<1> DEFINE st == objects[k]
<1>1. told'[k][t] = IF t \in Lasted(st) /\ st.current[t] # Blank THEN st.current[t] ELSE told[k][t]
  BY DEF Reports
<1>2. CASE t \in Lasted(st)
  <2>1. st.current[t] \in Conds
    BY <1>2 DEF PendingRight, Lasted, Pending, Reports
  <2>2. objects'[k] # NoState /\ objects'[k].reported[t] = st.current[t]
    BY <1>2, ReportedFields
  <2>3. told'[k][t] = st.current[t] /\ StateOf(k, t)' = st.current[t].status
    BY <1>1, <1>2, <2>1, <2>2, CondFacts DEF StateOf, Shown
  <2> QED
    BY <2>3 DEF ToldRight
<1>3. CASE t \notin Lasted(st)
  <2>1. /\ objects'[k] # NoState /\ st # NoState
        /\ objects'[k].reported[t] = st.reported[t] /\ told'[k][t] = told[k][t]
    BY <1>1, <1>3, ReportedFields DEF Reports
  <2>2. StateOf(k, t)' = StateOf(k, t)
    BY <2>1 DEF StateOf
  <2> QED
    BY <2>1, <2>2 DEF ToldRight
<1> QED
  BY <1>2, <1>3

LEMMA ToldStep == TypeOK /\ PendingInv /\ ToldInv /\ [Next]_vars => ToldInv'
<1> SUFFICES ASSUME TypeOK, PendingInv, ToldInv, Next, NEW k \in Keys, NEW t \in watchedConditions
             PROVE  ToldRight(k, t)'
  BY DEF ToldInv, ToldRight, StateOf, vars, history
<1>1. ToldRight(k, t) /\ PendingRight(k, t) /\ minDuration' = minDuration
  BY ClockSteps DEF ToldInv, PendingInv
<1>2. CASE Untouched(k)
  <2>1. StateOf(k, t)' = StateOf(k, t) /\ told'[k] = told[k]
    BY <1>2 DEF Untouched, StateOf
  <2> QED
    BY <1>1, <2>1 DEF ToldRight
<1>3. CASE Forgotten(k)
  <2>1. StateOf(k, t)' = Unset /\ told'[k][t] = Blank
    BY <1>3 DEF Forgotten, StateOf, NoFlips
  <2> QED
    BY <2>1, UnsetIsNoStatus DEF ToldRight, Statuses
<1>4. ASSUME NEW new \in Versions, Shows(k, new) PROVE ToldRight(k, t)'
  BY <1>1, <1>4, ShowsTold
<1>5. CASE Reports(k)
  BY <1>1, <1>5, ReportsTold
<1> QED
  BY <1>2, <1>3, <1>4, <1>5, KeySteps

LEMMA ToldAlways == Spec => []ToldInv
  BY ToldInit, ToldStep, PendingAlways, TrackerTypeCorrect, PTL DEF Spec

LEMMA ToldIsRight == ToldInv => ToldIsReported
  BY DEF ToldInv, ToldRight, ToldIsReported

(* What is taken for reported is what was last pitched, through ignored     *)
(* states, replaced timers and re-created objects (update, fire).           *)
THEOREM ReportedIsTold == Spec => []ToldIsReported
  BY ToldIsRight, ToldAlways, PTL

\* What holds of every tracker, its timers aside.
TrackerInv == TypeOK /\ PendingInv /\ Living /\ ToldInv

LEMMA TrackerInit == Init => TrackerInv
  BY TypeInit, PendingInit, LivingInit, ToldInit DEF TrackerInv

LEMMA TrackerStep == TrackerInv /\ [Next]_vars => TrackerInv'
  BY TypeStep, PendingStep, LivingStep, ToldStep DEF TrackerInv

-----------------------------------------------------------------------------
(* The tracker knows the last version that counts: what is not pending of   *)
(* it has been reported.                                                    *)

KnownRight(k, t) ==
  objects[k] # NoState /\ t \in Seen(store[k]) =>
    /\ objects[k].current[t] = store[k][t]
    /\ objects[k].failingSince[t] = 0 =>
         /\ objects[k].reported[t] # Unknown
         /\ objects[k].reported[t].status = store[k][t].status

KnownInv == \A k \in Keys, t \in watchedConditions : KnownRight(k, t)

LEMMA ShowsKnown ==
  ASSUME TypeOK, PendingInv, NEW k \in Keys, NEW new \in Versions, Shows(k, new), store'[k] = new,
         NEW t \in watchedConditions
  PROVE  KnownRight(k, t)'
<1>1. Seen(store[k])' = Seen(new)
  BY DEF Seen, Ignored
<1> SUFFICES ASSUME t \in Seen(new)
             PROVE  /\ objects'[k].current[t] = new[t]
                    /\ objects'[k].failingSince[t] = 0 =>
                         /\ objects'[k].reported[t] # Unknown
                         /\ objects'[k].reported[t].status = new[t].status
  BY <1>1 DEF KnownRight
<1>2. store[k] # Gone /\ new[t] \in Conds /\ Rep(k, new, t) \in Shown
  BY RepFacts DEF Shows
<1>3. objects'[k].current[t] = new[t]
  BY ShownFields
<1>4. CASE t \in Well(k, new) \cup AtOnce(k, new)
  BY <1>2, <1>3, <1>4, ShownFields, CondFacts DEF Shown
<1>5. CASE t \in Back(k, new)
  <2>1. objects'[k].reported[t] \in {new[t], Rep(k, new, t)}
    BY ShownFields
  <2>2. new[t].status = Rep(k, new, t).status
    BY <1>5 DEF Back
  <2> QED
    BY <1>2, <1>3, <2>1, <2>2, CondFacts DEF Shown
<1>6. CASE t \notin Back(k, new) \cup Well(k, new) \cup AtOnce(k, new)
  <2>1. t \in Bad(k, new) \ AtOnce(k, new)
    BY <1>6 DEF Bad
  <2>2. clock \in Nat \ {0}
    BY DEF TypeOK
  <2>3. objects'[k].failingSince[t] # 0
    BY <1>6, <2>1, <2>2, ShownFields
  <2> QED
    BY <1>3, <2>3
<1> QED
  BY <1>4, <1>5, <1>6

LEMMA ReportsKnown ==
  ASSUME TypeOK, NEW k \in Keys, Reports(k), store'[k] = store[k],
         NEW t \in watchedConditions, KnownRight(k, t)
  PROVE  KnownRight(k, t)'
<1>1. Seen(store[k])' = Seen(store[k])
  BY DEF Seen, Ignored
<1>2. /\ objects[k] # NoState /\ objects'[k].current = objects[k].current
      /\ objects'[k].reported[t] = IF t \in Lasted(objects[k]) THEN objects[k].current[t]
                                   ELSE objects[k].reported[t]
      /\ objects'[k].failingSince[t] = IF t \in Lasted(objects[k]) THEN 0
                                       ELSE objects[k].failingSince[t]
  BY ReportedFields DEF Reports
<1>3. objects[k].current[t] \in Shown
  BY <1>2 DEF TypeOK, ObjectState, Shown
<1> QED
  BY <1>1, <1>2, <1>3, CondFacts DEF KnownRight

LEMMA SameKnown ==
  ASSUME NEW k, objects'[k] = objects[k], store'[k] = store[k] \/ objects[k] = NoState,
         NEW t, KnownRight(k, t)
  PROVE  KnownRight(k, t)'
<1>1. CASE objects[k] = NoState
  BY <1>1 DEF KnownRight
<1>2. CASE store'[k] = store[k]
  <2>1. Seen(store[k])' = Seen(store[k])
    BY <1>2 DEF Seen, Ignored
  <2> QED
    BY <1>2, <2>1 DEF KnownRight
<1> QED
  BY <1>1, <1>2

LEMMA KnownStep == TrackerInv /\ KnownInv /\ [Next]_vars => KnownInv'
<1> SUFFICES ASSUME TrackerInv, KnownInv, [Next]_vars, NEW k \in Keys, NEW t \in watchedConditions
             PROVE  KnownRight(k, t)'
  BY DEF KnownInv
<1>1. TypeOK /\ PendingInv /\ Living /\ KnownRight(k, t)
  BY DEF TrackerInv, KnownInv
<1>2. ASSUME NEW j \in Keys, NEW new \in Versions, Add(j, new) PROVE KnownRight(k, t)'
  <2>1. objects' = objects /\ (store'[k] = store[k] \/ objects[k] = NoState)
    BY <1>1, <1>2 DEF Add, TypeOK, Living
  <2> QED
    BY <1>1, <2>1, SameKnown
<1>3. ASSUME NEW j \in Keys, NEW new \in Versions, NEW g \in BOOLEAN, Update(j, new, g)
      PROVE  KnownRight(k, t)'
  <2>1. store' = [store EXCEPT ![j] = new]
    BY <1>3 DEF Update
  <2>2. CASE k = j /\ ~closed
    <3>1. Shows(k, new) /\ store'[k] = new
      BY <1>1, <1>3, <2>1, <2>2, UpdateShows DEF TypeOK
    <3> QED
      BY <1>1, <3>1, ShowsKnown
  <2>3. CASE ~(k = j /\ ~closed)
    <3>1. Untouched(k)
      BY <1>1, <1>3, <2>3, UpdateShows
    <3>2. store'[k] = store[k] \/ objects[k] = NoState
      BY <1>1, <2>1, <2>3 DEF TypeOK, Living
    <3> QED
      BY <1>1, <3>1, <3>2, SameKnown DEF Untouched
  <2> QED
    BY <2>2, <2>3
<1>4. ASSUME NEW j \in Keys, Delete(j) PROVE KnownRight(k, t)'
  <2>1. CASE k = j
    BY <1>1, <1>4, <2>1 DEF Delete, KnownRight, TypeOK
  <2>2. CASE k # j
    <3>1. objects'[k] = objects[k] /\ store'[k] = store[k]
      BY <1>1, <1>4, <2>2 DEF Delete, TypeOK
    <3> QED
      BY <1>1, <3>1, SameKnown
  <2> QED
    BY <2>1, <2>2
<1>5. ASSUME NEW timer \in fired, Fire(timer) PROVE KnownRight(k, t)'
  <2>1. store' = store /\ (Untouched(k) \/ Reports(k))
    BY <1>1, <1>5, FireReports DEF Fire
  <2> QED
    BY <1>1, <2>1, ReportsKnown, SameKnown DEF Untouched
<1>6. CASE Close
  BY <1>6 DEF Close, KnownRight
<1>7. CASE (\E timer \in armed : Expire(timer)) \/ Tick \/ UNCHANGED vars
  <2>1. objects' = objects /\ store' = store
    BY <1>7 DEF Expire, Tick, vars
  <2> QED
    BY <1>1, <2>1, SameKnown
<1> QED
  BY <1>2, <1>3, <1>4, <1>5, <1>6, <1>7 DEF Next

LEMMA KnownInit == Init => KnownInv
  BY DEF Init, KnownInv, KnownRight

\* What is pitched as a failure is one, and the state that the object has if
\* the profile does not ignore that.
AsItIs ==
  pitch # NoPitch /\ pitch.kind = "failures" =>
    \A t \in watchedConditions : pitch.flips[t] # Blank =>
      /\ pitch.flips[t].status \in {"False", "Unknown"}
      /\ t \in Seen(store[pitch.key]) => pitch.flips[t] = store[pitch.key][t]

LEMMA AsItIsStep == TrackerInv /\ KnownInv /\ AsItIs /\ [Next]_vars => AsItIs'
<1> SUFFICES ASSUME TrackerInv, KnownInv, AsItIs, [Next]_vars PROVE AsItIs'
  OBVIOUS
<1>1. CASE UNCHANGED vars
  BY <1>1 DEF vars, AsItIs, Seen, Ignored
<1>2. CASE pitch' = NoPitch
  BY <1>2 DEF AsItIs
<1>3. ASSUME NEW k \in Keys, NEW new \in Versions, NEW g \in BOOLEAN, Update(k, new, g)
      PROVE  AsItIs'
  <2>1. pitch' # NoPitch => pitch'.kind \in {"flips", "generation"}
    BY <1>3 DEF Update, UpdateOpen, PitchFlips
  <2> QED
    BY <2>1 DEF AsItIs
<1>4. ASSUME NEW timer \in fired, Fire(timer), pitch' # NoPitch PROVE AsItIs'
  <2> DEFINE k  == timer.key
             st == objects[k]
  <2>1. ~Stale(timer) /\ k \in Keys /\ st # NoState /\ store' = store
    BY <1>4 DEF TrackerInv, Fire, Stale, TypeOK, Timer
  <2>2. pitch' = [kind |-> "failures", key |-> k, flips |-> Failures(st)]
    BY <1>4, <2>1 DEF Fire, PitchFlips, Failures
  <2>3. Seen(store[k])' = Seen(store[k])
    BY <2>1 DEF Seen, Ignored
  <2>4. ASSUME NEW t \in watchedConditions, pitch'.flips[t] # Blank
        PROVE  /\ pitch'.flips[t].status \in {"False", "Unknown"}
               /\ t \in Seen(store[k]) => pitch'.flips[t] = store[k][t]
    <3>1. t \in Pending(st) /\ pitch'.flips[t] = st.current[t]
      BY <2>2, <2>4 DEF Failures, Lasted
    <3>2. st.current[t].status \in {"False", "Unknown"}
      BY <2>1, <3>1 DEF TrackerInv, PendingInv, PendingRight, Pending
    <3> QED
      BY <2>1, <3>1, <3>2 DEF KnownInv, KnownRight
  <2> QED
    BY <2>1, <2>2, <2>3, <2>4 DEF AsItIs
<1> QED
  BY <1>1, <1>2, <1>3, <1>4 DEF Next, Add, Delete, Expire, Close, Tick

(* A failure is pitched as the state that the object has, unless the        *)
(* profile ignores that state or the condition has gone (fire).             *)
THEOREM FailuresAsTheyAre == Spec => []AsItIs
<1>1. Init => AsItIs
  BY DEF Init, AsItIs
<1> QED
  BY <1>1, TrackerInit, TrackerStep, KnownInit, KnownStep, AsItIsStep, PTL DEF Spec

\* No state that is healthy has a reason to be ignored.
HealthCounts == \A c \in Conds : c.status = "True" => c.reason \notin IgnoreReasons

\* What is said of the object then holds in each state.
LEMMA StillFailingThen ==
  ASSUME HealthCounts, TypeOK, AsItIs, pitch # NoPitch => store[pitch.key] # Gone
  PROVE  StillFailing
<1> SUFFICES ASSUME pitch # NoPitch, pitch.kind = "failures", NEW t \in watchedConditions,
                    pitch.flips[t] # Blank, store[pitch.key][t] # NoCond
             PROVE  store[pitch.key][t].status # "True"
  BY DEF StillFailing
<1>1. store[pitch.key] \in Versions
  BY DEF TypeOK, Pitch
<1>2. store[pitch.key][t] \in Conds
  BY <1>1, VersionFacts
<1>3. CASE t \in Seen(store[pitch.key])
  BY <1>3 DEF AsItIs
<1>4. CASE t \notin Seen(store[pitch.key])
  BY <1>2, <1>4, TrackerAssumption DEF Seen, Ignored, HealthCounts
<1> QED
  BY <1>3, <1>4

(* README, "still failing", is broken by ignored reasons alone: where no    *)
(* healthy state has one, no object has a condition True that fire pitches  *)
(* as a failure (fire, ignored).                                            *)
THEOREM HealthyAreNotPitched ==
  ASSUME HealthCounts
  PROVE  Spec => []StillFailing
<1>1. TypeOK /\ AsItIs /\ NoEarlyFailure => StillFailing
  <2> SUFFICES ASSUME TypeOK, AsItIs, NoEarlyFailure PROVE StillFailing
    OBVIOUS
  <2>1. CASE pitch # NoPitch => pitch.kind # "failures"
    BY <2>1 DEF StillFailing
  <2>2. CASE pitch # NoPitch /\ pitch.kind = "failures"
    BY <2>2, StillFailingThen DEF NoEarlyFailure
  <2> QED
    BY <2>1, <2>2
<1> QED
  BY <1>1, TrackerTypeCorrect, FailuresAsTheyAre, NoneEarly, PTL

-----------------------------------------------------------------------------
(* What a step pitches of one condition.                                    *)

LEMMA SentFlips ==
  ASSUME TypeOK, PendingInv, ToldInv, Next,
         NEW k \in Keys, NEW t \in watchedConditions, Sent(k, t)'
  PROVE  /\ pitch'.flips[t] \in Conds
         /\ pitch'.flips[t].status # told[k][t].status
         /\ minDuration > 0 /\ pitch'.flips[t].status = "True" =>
              told[k][t].status \in {"False", "Unknown"}
<1>1. ToldRight(k, t) /\ PendingRight(k, t) /\ told[k][t] \in Shown /\ minDuration \in Nat
  BY DEF ToldInv, PendingInv, TypeOK, Shown
<1>2. ASSUME NEW new \in Versions, Shows(k, new)
      PROVE  /\ pitch'.flips[t] \in Conds
             /\ pitch'.flips[t].status # told[k][t].status
             /\ minDuration > 0 /\ pitch'.flips[t].status = "True" =>
                  told[k][t].status \in {"False", "Unknown"}
  <2>1. store[k] # Gone /\ t \in Flipped(k, new) /\ pitch'.flips[t] = new[t]
    BY <1>2 DEF Shows
  <2>2. t \in Seen(new) \ Back(k, new) /\ new[t] \in Conds
    BY <2>1, FlipFacts
  <2>3. new[t].status # Rep(k, new, t).status /\ new[t].status # Unset
    BY <2>2, CondFacts, UnsetIsNoStatus DEF Back
  <2>4. new[t].status # told[k][t].status
    <3>1. CASE told[k][t] = Blank
      BY <2>3, <3>1, CondFacts
    <3>2. CASE told[k][t] # Blank
      <4>1. StateOf(k, t) = told[k][t].status /\ StateOf(k, t) # Unset
        BY <1>1, <3>2, CondFacts, UnsetIsNoStatus DEF ToldRight, Shown
      <4> QED
        BY <2>1, <2>2, <2>3, <4>1, RepReported
    <3> QED
      BY <3>1, <3>2
  <2>5. ASSUME minDuration > 0, new[t].status = "True"
        PROVE  told[k][t].status \in {"False", "Unknown"}
    <3>1. AtOnce(k, new) = {}
      BY <1>1, <2>5 DEF AtOnce
    <3>2. Rep(k, new, t) \in Conds /\ Rep(k, new, t).status # "True"
      BY <2>1, <2>2, <2>3, <2>5, <3>1, RepFacts DEF Flipped, Shown
    <3>3. Rep(k, new, t).status \in {"False", "Unknown"}
      BY <3>2, CondFacts DEF Statuses
    <3>4. Rep(k, new, t).status = StateOf(k, t)
      BY <2>1, <2>2, <2>5, <3>2, RepReported
    <3> QED
      BY <1>1, <2>5, <3>3, <3>4 DEF ToldRight
  <2> QED
    BY <2>1, <2>2, <2>4, <2>5
<1>3. ASSUME Reports(k)
      PROVE  /\ pitch'.flips[t] \in Conds
             /\ pitch'.flips[t].status # told[k][t].status
             /\ pitch'.flips[t].status # "True"
  <2>1. t \in Lasted(objects[k]) /\ pitch'.flips[t] = objects[k].current[t] /\ objects[k] # NoState
    BY <1>3 DEF Reports
  <2>2. /\ objects[k].current[t] \in Conds
        /\ objects[k].current[t].status \in {"False", "Unknown"}
        /\ objects[k].reported[t] # Unknown
        /\ objects[k].reported[t].status # objects[k].current[t].status
    BY <1>1, <2>1 DEF PendingRight, Lasted, Pending
  <2>3. StateOf(k, t) # objects[k].current[t].status
    BY <2>1, <2>2 DEF StateOf
  <2>4. objects[k].current[t].status # Unset
    BY <2>2, CondFacts, UnsetIsNoStatus
  <2>5. told[k][t].status # objects[k].current[t].status
    BY <1>1, <2>3, <2>4, CondFacts DEF ToldRight
  <2> QED
    BY <2>1, <2>2, <2>5
<1> QED
  BY <1>2, <1>3, KeySteps DEF Untouched, Forgotten

LEMMA RecoveryStep ==
  TypeOK /\ PendingInv /\ ToldInv /\ [Next]_vars =>
    [\A k \in Keys, t \in watchedConditions :
        /\ minDuration > 0
        /\ pitch' # NoPitch
        /\ pitch'.key = k
        /\ pitch'.flips[t].status = "True"
        => told[k][t].status \in {"False", "Unknown"}]_vars
<1> SUFFICES ASSUME TypeOK, PendingInv, ToldInv, Next,
                    NEW k \in Keys, NEW t \in watchedConditions, minDuration > 0,
                    pitch' # NoPitch, pitch'.key = k, pitch'.flips[t].status = "True"
             PROVE  told[k][t].status \in {"False", "Unknown"}
  OBVIOUS
<1>1. pitch'.flips[t] # Blank
  BY CondFacts, UnsetIsNoStatus DEF Statuses
<1>2. Sent(k, t)'
  BY <1>1 DEF Sent
<1> QED
  BY <1>2, SentFlips

(* README, "A recovery is pitched only if its failure was pitched", of what *)
(* the tracker pitches (update).                                            *)
THEOREM RecoveriesFollow == Spec => RecoveryAfterFailure
  BY RecoveryStep, ToldAlways, PendingAlways, TrackerTypeCorrect, PTL DEF Spec, RecoveryAfterFailure

LEMMA FlipStep ==
  TypeOK /\ PendingInv /\ ToldInv /\ [Next]_vars =>
    [\A k \in Keys, t \in watchedConditions :
        /\ pitch' # NoPitch
        /\ pitch'.key = k
        /\ pitch'.flips[t] # Blank
        => pitch'.flips[t].status # told[k][t].status]_vars
  BY SentFlips DEF Sent

(* One failure is one message: a pitched flip has another status than the   *)
(* last one pitched of its condition (update, fire).                        *)
THEOREM NoFlipTwice == Spec => FlipsDiffer
  BY FlipStep, ToldAlways, PendingAlways, TrackerTypeCorrect, PTL DEF Spec, FlipsDiffer

-----------------------------------------------------------------------------
(* The tracker implements LastingFailures.                                  *)

ReportedMap == [k \in Keys |-> [t \in watchedConditions |-> StateOf(k, t)]]
LatestMap   == [k \in Keys |-> [t \in watchedConditions |-> LatestOf(k, t)]]
SinceMap    == [k \in Keys |-> [t \in watchedConditions |-> SinceOf(k, t)]]

LEMMA NothingKnown == Unset = LF!Unreported
  BY Zenon DEF Unset, LF!Unreported

\* A step that touches the state of one object.
LEMMA OneObject ==
  ASSUME NEW k \in Keys, \A j \in Keys \ {k} : objects'[j] = objects[j]
  PROVE  /\ ReportedMap' = [ReportedMap EXCEPT ![k] = [t \in watchedConditions |-> StateOf(k, t)']]
         /\ LatestMap' = [LatestMap EXCEPT ![k] = [t \in watchedConditions |-> LatestOf(k, t)']]
         /\ SinceMap' = [SinceMap EXCEPT ![k] = [t \in watchedConditions |-> SinceOf(k, t)']]
<1>1. \A j \in Keys \ {k}, t \in watchedConditions :
        /\ StateOf(j, t)' = StateOf(j, t)
        /\ LatestOf(j, t)' = LatestOf(j, t)
        /\ SinceOf(j, t)' = SinceOf(j, t)
  BY DEF StateOf, LatestOf, SinceOf
<1> QED
  BY <1>1 DEF ReportedMap, LatestMap, SinceMap

LEMMA SameMaps ==
  ASSUME UNCHANGED objects
  PROVE  UNCHANGED <<ReportedMap, LatestMap, SinceMap>>
  BY DEF ReportedMap, LatestMap, SinceMap, StateOf, LatestOf, SinceOf

LEMMA ForgottenMaps ==
  ASSUME NEW k \in Keys, NEW t \in watchedConditions, objects'[k] = NoState
  PROVE  StateOf(k, t)' = Unset /\ LatestOf(k, t)' = Unset /\ SinceOf(k, t)' = 0
  BY DEF StateOf, LatestOf, SinceOf

-----------------------------------------------------------------------------
(* An update is an observation of the conditions that count; those that are *)
(* seen for the first time bring what they are compared with.               *)

Statii(new) == [t \in Seen(new) |-> new[t].status]

First(k, new) == {t \in Seen(new) : StateOf(k, t) = Unset /\ Rep(k, new, t) # Blank}

Before(k, new) == [t \in First(k, new) |-> Rep(k, new, t).status]

LEMMA ObservedInputs ==
  ASSUME TypeOK, NEW k \in Keys, NEW new \in Versions, store[k] # Gone
  PROVE  /\ Seen(new) \in SUBSET watchedConditions
         /\ Statii(new) \in [Seen(new) -> Statuses]
         /\ Before(k, new) \in UNION {LF!Baselines(B) : B \in SUBSET Seen(new)}
<1>1. \A t \in Seen(new) : new[t].status \in Statuses
  BY FlipFacts, CondFacts
<1>2. minDuration \in Nat
  BY DEF TypeOK
<1>3. ASSUME NEW t \in First(k, new)
      PROVE  Rep(k, new, t).status \in IF minDuration = 0 THEN Statuses ELSE {"True"}
  <2>1. t \in Seen(new) /\ StateOf(k, t) = Unset /\ Rep(k, new, t) # Blank
    BY <1>3 DEF First
  <2>2. Rep(k, new, t) \in Conds
    BY <2>1, RepFacts DEF Shown
  <2>3. Rep(k, new, t).status \in Statuses /\ Rep(k, new, t).status # Unset
    BY <2>2, CondFacts, UnsetIsNoStatus
  <2>4. minDuration > 0 => Rep(k, new, t).status = "True"
    BY <2>1, <2>3, RepReported
  <2> QED
    BY <1>2, <2>3, <2>4
<1>4. Before(k, new) \in LF!Baselines(First(k, new))
  BY <1>3 DEF Before, LF!Baselines
<1>5. First(k, new) \in SUBSET Seen(new)
  BY DEF First
<1> QED
  BY <1>1, <1>4, <1>5 DEF Seen, Statii

\* What the observation is compared with.
Was(k, new, t) ==
  IF t \in First(k, new) /\ StateOf(k, t) = Unset THEN Rep(k, new, t).status ELSE StateOf(k, t)

Over(k, new, t) == new[t].status \in {Was(k, new, t), "True"} \/ minDuration = 0

LEMMA WasRep ==
  ASSUME TypeOK, NEW k \in Keys, NEW new \in Versions, store[k] # Gone, NEW t \in Seen(new)
  PROVE  Was(k, new, t) = Rep(k, new, t).status
<1>1. CASE StateOf(k, t) = Unset
  BY <1>1, CondFacts DEF Was, First
<1>2. CASE StateOf(k, t) # Unset
  BY <1>2, RepReported DEF Was
<1> QED
  BY <1>1, <1>2

LEMMA ObservedState ==
  ASSUME TypeOK, NEW k \in Keys, NEW new \in Versions, Shows(k, new), NEW t \in watchedConditions,
         PendingRight(k, t)
  PROVE  /\ LatestOf(k, t)' = IF t \in Seen(new) THEN new[t].status ELSE LatestOf(k, t)
         /\ StateOf(k, t)' = IF t \in Seen(new) /\ Over(k, new, t) THEN new[t].status
                             ELSE Was(k, new, t)
         /\ SinceOf(k, t)' = IF t \notin Seen(new) THEN SinceOf(k, t)
                             ELSE IF Over(k, new, t) THEN 0
                             ELSE IF SinceOf(k, t) = 0 THEN clock ELSE SinceOf(k, t)
<1>1. store[k] # Gone /\ objects'[k] # NoState
  BY ShownFields DEF Shows
<1>2. /\ LatestOf(k, t)' = objects'[k].current[t].status
      /\ SinceOf(k, t)' = objects'[k].failingSince[t]
      /\ LatestOf(k, t) = State(k).current[t].status
      /\ SinceOf(k, t) = State(k).failingSince[t]
  BY <1>1, FreshFields, CondFacts DEF LatestOf, SinceOf
<1>3. CASE t \notin Seen(new)
  <2>1. /\ t \notin Well(k, new) \cup AtOnce(k, new) /\ t \notin Back(k, new)
        /\ t \notin Bad(k, new) /\ t \notin First(k, new)
    BY <1>3 DEF Well, AtOnce, Bad, Back, First
  <2>2. /\ objects'[k].current[t] = State(k).current[t]
        /\ objects'[k].reported[t] = State(k).reported[t]
        /\ objects'[k].failingSince[t] = State(k).failingSince[t]
    BY <1>3, <2>1, ShownFields
  <2>3. StateOf(k, t)' = StateOf(k, t)
    BY <1>1, <2>2, FreshFields DEF StateOf
  <2> QED
    BY <1>2, <1>3, <2>1, <2>2, <2>3 DEF Was
<1>4. CASE t \in Seen(new)
  <2>1. new[t] \in Conds /\ Was(k, new, t) = Rep(k, new, t).status /\ Rep(k, new, t) \in Shown
    BY <1>1, <1>4, WasRep, RepFacts
  <2>2. objects'[k].current[t] = new[t]
    BY <1>4, ShownFields
  <2>3. /\ Over(k, new, t) <=> t \in Back(k, new) \cup Well(k, new) \cup AtOnce(k, new)
        /\ ~Over(k, new, t) => t \in Bad(k, new) \ AtOnce(k, new)
    BY <1>4, <2>1 DEF Over, Back, Well, Bad, AtOnce
  <2>4. objects'[k].reported[t] \in {new[t], Rep(k, new, t)}
    BY <1>4, ShownFields
  <2>5. StateOf(k, t)' = objects'[k].reported[t].status
    BY <1>1, <2>1, <2>4, CondFacts DEF StateOf, Shown
  <2>6. StateOf(k, t)' = IF Over(k, new, t) THEN new[t].status ELSE Was(k, new, t)
    <3>1. CASE t \in Well(k, new) \cup AtOnce(k, new)
      BY <2>3, <2>5, <3>1, ShownFields
    <3>2. CASE t \notin Well(k, new) \cup AtOnce(k, new)
      <4>1. StateOf(k, t)' = Rep(k, new, t).status
        BY <1>4, <2>5, <3>2, ShownFields
      <4>2. Over(k, new, t) => new[t].status = Rep(k, new, t).status
        BY <2>3, <3>2 DEF Back
      <4> QED
        BY <2>1, <4>1, <4>2
    <3> QED
      BY <3>1, <3>2
  <2>7. t \in AtOnce(k, new) => State(k).failingSince[t] = 0
    BY FreshFields DEF AtOnce, PendingRight
  <2>8. objects'[k].failingSince[t] = IF Over(k, new, t) THEN 0
          ELSE IF State(k).failingSince[t] = 0 THEN clock ELSE State(k).failingSince[t]
    BY <2>3, <2>7, ShownFields
  <2> QED
    BY <1>2, <1>4, <2>2, <2>6, <2>8
<1> QED
  BY <1>3, <1>4

LEMMA UpdateObserves ==
  ASSUME TypeOK, PendingInv, NEW k \in Keys, NEW new \in Versions, NEW g \in BOOLEAN,
         Update(k, new, g)
  PROVE  LF!Next \/ UNCHANGED LF!vars
<1>1. UNCHANGED <<minDuration, clock, closed>> /\ store[k] # Gone
  BY DEF Update
<1>2. CASE closed
  <2>1. UNCHANGED objects
    BY <1>2 DEF Update, tracker
  <2> QED
    BY <1>1, <2>1, SameMaps DEF LF!vars, ReportedMap, LatestMap, SinceMap
<1>3. CASE ~closed
  <2>1. objects' = [objects EXCEPT ![k] = Rescheduled(Updated(k, new))]
    BY <1>3 DEF Update, UpdateOpen, Schedule
  <2>2. \A j \in Keys \ {k} : objects'[j] = objects[j]
    BY <2>1 DEF TypeOK
  <2>3. Shows(k, new)
    BY <1>3, UpdateShows
  <2>4. LF!Next
    <3> DEFINE seen   == Statii(new)
               before == Before(k, new)
    <3>1. /\ DOMAIN seen = Seen(new) /\ DOMAIN before = First(k, new)
          /\ \A t \in Seen(new) : seen[t] = new[t].status
          /\ \A t \in First(k, new) : before[t] = Rep(k, new, t).status
      BY DEF Statii, Before
    <3> HIDE DEF seen, before
    <3> DEFINE was  == [t \in watchedConditions |->
                          IF t \in DOMAIN before /\ ReportedMap[k][t] = LF!Unreported
                          THEN before[t] ELSE ReportedMap[k][t]]
               over(t) == seen[t] \in {was[t], "True"} \/ minDuration = 0
    <3>2. \A t \in watchedConditions :
            /\ ReportedMap[k][t] = StateOf(k, t) /\ LatestMap[k][t] = LatestOf(k, t)
            /\ SinceMap[k][t] = SinceOf(k, t)
      BY DEF ReportedMap, LatestMap, SinceMap
    <3>3. \A t \in watchedConditions : was[t] = Was(k, new, t)
      BY <3>1, <3>2, NothingKnown DEF Was
    <3> HIDE DEF was
    <3>4. \A t \in Seen(new) : t \in watchedConditions /\ (over(t) <=> Over(k, new, t))
      BY <3>1, <3>3 DEF Over, Seen
    <3> HIDE DEF over
    <3>5. ASSUME NEW t \in watchedConditions
          PROVE  /\ LatestOf(k, t)' = IF t \in DOMAIN seen THEN seen[t] ELSE LatestMap[k][t]
                 /\ StateOf(k, t)' = IF t \in DOMAIN seen /\ over(t) THEN seen[t] ELSE was[t]
                 /\ SinceOf(k, t)' = CASE t \notin DOMAIN seen -> SinceMap[k][t]
                                       [] t \in DOMAIN seen /\ over(t) -> 0
                                       [] OTHER -> IF SinceMap[k][t] = 0 THEN clock
                                                   ELSE SinceMap[k][t]
      <4>1. PendingRight(k, t)
        BY DEF PendingInv
      <4> QED
        BY <2>3, <3>1, <3>2, <3>3, <3>4, <4>1, ObservedState
    <3>6. /\ LatestMap' = [LatestMap EXCEPT ![k] =
               [t \in watchedConditions |-> IF t \in DOMAIN seen THEN seen[t] ELSE LatestMap[k][t]]]
          /\ ReportedMap' = [ReportedMap EXCEPT ![k] =
               [t \in watchedConditions |-> IF t \in DOMAIN seen /\ over(t) THEN seen[t] ELSE was[t]]]
          /\ SinceMap' = [SinceMap EXCEPT ![k] =
               [t \in watchedConditions |->
                  CASE t \notin DOMAIN seen -> SinceMap[k][t]
                    [] t \in DOMAIN seen /\ over(t) -> 0
                    [] OTHER -> IF SinceMap[k][t] = 0 THEN clock ELSE SinceMap[k][t]]]
      BY <2>2, <3>5, OneObject
    <3>7. LF!Observe(k, seen, before)
      BY <1>1, <1>3, <3>6 DEF LF!Observe, was, over, ReportedMap, LatestMap, SinceMap
    <3>8. /\ Seen(new) \in SUBSET watchedConditions
          /\ seen \in [Seen(new) -> Statuses]
          /\ before \in UNION {LF!Baselines(B) : B \in SUBSET Seen(new)}
      BY <1>1, ObservedInputs DEF seen, before
    <3> QED
      BY <3>7, <3>8 DEF LF!Next
  <2> QED
    BY <2>4
<1> QED
  BY <1>2, <1>3

-----------------------------------------------------------------------------
(* fire reports what is overdue; a stale fire and one that finds nothing    *)
(* overdue report nothing.                                                  *)

LEMMA FireReportsOverdue ==
  ASSUME TypeOK, PendingInv, NEW timer \in fired, Fire(timer)
  PROVE  LF!Next \/ UNCHANGED LF!vars
<1> DEFINE k  == timer.key
           st == objects[k]
<1>1. UNCHANGED <<minDuration, clock, closed>> /\ k \in Keys
  BY DEF Fire, TypeOK, Timer
<1>2. CASE Stale(timer)
  <2>1. UNCHANGED objects
    BY <1>2 DEF Fire
  <2> QED
    BY <1>1, <2>1, SameMaps DEF LF!vars, ReportedMap, LatestMap, SinceMap
<1>3. CASE ~Stale(timer)
  <2>1. ~closed /\ objects' = [objects EXCEPT ![k] = Rescheduled(Reported(st))]
    BY <1>3 DEF Fire, Schedule, Stale
  <2>2. \A j \in Keys \ {k} : objects'[j] = objects[j]
    BY <2>1 DEF TypeOK
  <2>3. Reports(k)
    BY <1>1, <1>3, FireReports
  <2>4. LF!Next \/ UNCHANGED LF!vars
    <3> DEFINE due == {t \in watchedConditions :
                         SinceMap[k][t] # 0 /\ clock >= SinceMap[k][t] + minDuration}
    <3>1. st # NoState
      BY <2>3 DEF Reports
    <3>2. \A t \in watchedConditions :
            /\ ReportedMap[k][t] = StateOf(k, t)
            /\ LatestMap[k][t] = st.current[t].status
            /\ SinceMap[k][t] = st.failingSince[t]
      BY <1>1, <3>1 DEF ReportedMap, LatestMap, SinceMap, LatestOf, SinceOf
    <3>3. due = Lasted(st)
      BY <3>2 DEF Lasted, Pending
    <3>4. ASSUME NEW t \in watchedConditions
          PROVE  /\ LatestOf(k, t)' = LatestMap[k][t]
                 /\ StateOf(k, t)' = IF t \in due THEN LatestMap[k][t] ELSE ReportedMap[k][t]
                 /\ SinceOf(k, t)' = IF t \in due THEN 0 ELSE SinceMap[k][t]
      <4>1. t \in Lasted(st) => st.current[t] \in Conds
        BY <1>1, <3>1 DEF PendingInv, PendingRight, Lasted, Pending
      <4>2. /\ objects'[k] # NoState /\ objects'[k].current = st.current
            /\ objects'[k].reported[t] = IF t \in Lasted(st) THEN st.current[t] ELSE st.reported[t]
            /\ objects'[k].failingSince[t] = IF t \in Lasted(st) THEN 0 ELSE st.failingSince[t]
        BY <1>1, <2>3, ReportedFields
      <4>3. StateOf(k, t)' = IF t \in Lasted(st) THEN st.current[t].status ELSE StateOf(k, t)
        BY <3>1, <4>1, <4>2, CondFacts DEF StateOf, Shown
      <4> QED
        BY <3>2, <3>3, <4>2, <4>3 DEF LatestOf, SinceOf
    <3> HIDE DEF due
    <3>5. \A t \in watchedConditions : LatestOf(k, t)' = LatestMap[k][t]
      BY <3>4
    <3>6. /\ LatestMap' = LatestMap
          /\ ReportedMap' = [ReportedMap EXCEPT ![k] =
               [t \in watchedConditions |-> IF t \in due THEN LatestMap[k][t] ELSE ReportedMap[k][t]]]
          /\ SinceMap' = [SinceMap EXCEPT ![k] =
               [t \in watchedConditions |-> IF t \in due THEN 0 ELSE SinceMap[k][t]]]
      <4>1. /\ ReportedMap' = [ReportedMap EXCEPT ![k] = [t \in watchedConditions |-> StateOf(k, t)']]
            /\ LatestMap' = [LatestMap EXCEPT ![k] = [t \in watchedConditions |-> LatestOf(k, t)']]
            /\ SinceMap' = [SinceMap EXCEPT ![k] = [t \in watchedConditions |-> SinceOf(k, t)']]
        BY <1>1, <2>2, OneObject
      <4>2. [t \in watchedConditions |-> LatestOf(k, t)'] = LatestMap[k]
        BY <1>1, <3>5 DEF LatestMap
      <4>3. LatestMap' = LatestMap
        BY <4>1, <4>2 DEF LatestMap
      <4> QED
        BY <3>4, <4>1, <4>3
    <3>7. CASE due = {}
      <4>1. /\ [t \in watchedConditions |-> IF t \in due THEN LatestMap[k][t]
                                              ELSE ReportedMap[k][t]] = ReportedMap[k]
            /\ [t \in watchedConditions |-> IF t \in due THEN 0 ELSE SinceMap[k][t]] = SinceMap[k]
        BY <1>1, <3>7 DEF ReportedMap, SinceMap
      <4>2. ReportedMap' = ReportedMap /\ SinceMap' = SinceMap
        BY <3>6, <4>1 DEF ReportedMap, SinceMap
      <4> QED
        BY <1>1, <3>6, <4>1 DEF LF!vars, ReportedMap, LatestMap, SinceMap
    <3>8. CASE due # {}
      <4>1. LF!Overdue(k) = due
        BY DEF LF!Overdue, due, SinceMap
      <4>2. LF!Report(k)
        BY <1>1, <2>1, <3>6, <3>8, <4>1 DEF LF!Report, ReportedMap, LatestMap, SinceMap
      <4> QED
        BY <1>1, <4>2 DEF LF!Next
    <3> QED
      BY <3>7, <3>8
  <2> QED
    BY <2>4
<1> QED
  BY <1>2, <1>3

LEMMA DeleteForgets ==
  ASSUME TypeOK, NEW k \in Keys, Delete(k)
  PROVE  LF!Next
<1>1. /\ UNCHANGED <<minDuration, clock, closed>>
      /\ objects'[k] = NoState /\ \A j \in Keys \ {k} : objects'[j] = objects[j]
  BY DEF Delete, TypeOK
<1>2. \A t \in watchedConditions :
        StateOf(k, t)' = LF!Unreported /\ LatestOf(k, t)' = LF!Unreported /\ SinceOf(k, t)' = 0
  BY <1>1, ForgottenMaps, NothingKnown
<1>3. /\ ReportedMap' = [ReportedMap EXCEPT ![k] = LF!Nothing]
      /\ LatestMap' = [LatestMap EXCEPT ![k] = LF!Nothing]
      /\ SinceMap' = [SinceMap EXCEPT ![k] = LF!NoFailure]
  BY <1>1, <1>2, OneObject DEF LF!Nothing, LF!NoFailure
<1>4. LF!Forget(k)
  BY <1>1, <1>3 DEF LF!Forget, ReportedMap, LatestMap, SinceMap
<1> QED
  BY <1>4 DEF LF!Next

\* All objects without a state: the beginning and the end.
LEMMA NoObjects ==
  ASSUME \A k \in Keys : objects[k] = NoState
  PROVE  /\ ReportedMap = [k \in Keys |-> LF!Nothing]
         /\ LatestMap = [k \in Keys |-> LF!Nothing]
         /\ SinceMap = [k \in Keys |-> LF!NoFailure]
<1>1. \A k \in Keys, t \in watchedConditions :
        StateOf(k, t) = LF!Unreported /\ LatestOf(k, t) = LF!Unreported /\ SinceOf(k, t) = 0
  BY NothingKnown DEF StateOf, LatestOf, SinceOf
<1> QED
  BY <1>1 DEF ReportedMap, LatestMap, SinceMap, LF!Nothing, LF!NoFailure

LEMMA CloseStops == Close => LF!Next
<1> SUFFICES ASSUME Close PROVE LF!Next
  OBVIOUS
<1>1. \A k \in Keys, t \in watchedConditions :
        /\ StateOf(k, t)' = LF!Unreported /\ LatestOf(k, t)' = LF!Unreported
        /\ SinceOf(k, t)' = 0
  BY ForgottenMaps, NothingKnown DEF Close
<1>2. /\ ReportedMap' = [k \in Keys |-> LF!Nothing]
      /\ LatestMap' = [k \in Keys |-> LF!Nothing]
      /\ SinceMap' = [k \in Keys |-> LF!NoFailure]
  BY <1>1 DEF ReportedMap, LatestMap, SinceMap, LF!Nothing, LF!NoFailure
<1>3. LF!Stop
  BY <1>2 DEF LF!Stop, Close, ReportedMap, LatestMap, SinceMap
<1> QED
  BY <1>3 DEF LF!Next

LEMMA LastingInit == Init => LF!Init
<1> SUFFICES ASSUME Init PROVE LF!Init
  OBVIOUS
<1>1. /\ ReportedMap = [k \in Keys |-> LF!Nothing]
      /\ LatestMap = [k \in Keys |-> LF!Nothing]
      /\ SinceMap = [k \in Keys |-> LF!NoFailure]
  BY NoObjects DEF Init
<1> QED
  BY <1>1 DEF Init, LF!Init, ReportedMap, LatestMap, SinceMap

LEMMA LastingStep == TypeOK /\ PendingInv /\ [Next]_vars => [LF!Next]_LF!vars
<1> SUFFICES ASSUME TypeOK, PendingInv, [Next]_vars PROVE LF!Next \/ UNCHANGED LF!vars
  OBVIOUS
<1>1. ASSUME NEW k \in Keys, NEW new \in Versions, NEW g \in BOOLEAN, Update(k, new, g)
      PROVE  LF!Next \/ UNCHANGED LF!vars
  BY <1>1, UpdateObserves
<1>2. ASSUME NEW timer \in fired, Fire(timer) PROVE LF!Next \/ UNCHANGED LF!vars
  BY <1>2, FireReportsOverdue
<1>3. ASSUME NEW k \in Keys, Delete(k) PROVE LF!Next
  BY <1>3, DeleteForgets
<1>4. CASE Tick
  <2>1. clock < MaxTime /\ clock' = clock + 1 /\ UNCHANGED <<minDuration, closed, objects>>
    BY <1>4 DEF Tick
  <2>2. LF!Tick
    BY <2>1, SameMaps DEF LF!Tick, ReportedMap, LatestMap, SinceMap
  <2> QED
    BY <2>2 DEF LF!Next
<1>5. CASE (\E k \in Keys, new \in Versions : Add(k, new))
           \/ (\E timer \in armed : Expire(timer)) \/ UNCHANGED vars
  <2>1. UNCHANGED <<minDuration, clock, closed, objects>>
    BY <1>5 DEF Add, Expire, vars
  <2> QED
    BY <2>1, SameMaps DEF LF!vars, ReportedMap, LatestMap, SinceMap
<1> QED
  BY <1>1, <1>2, <1>3, <1>4, <1>5, CloseStops DEF Next

(* Whatever timers, goroutines and sequence numbers do, the tracker reports *)
(* what the README promises of minDuration, and nothing else.               *)
THEOREM LastingFailuresImplemented == Spec => ImplementsLastingFailures
  BY LastingInit, LastingStep, PendingAlways, TrackerTypeCorrect, PTL
     DEF Spec, ImplementsLastingFailures, LF!Spec
=============================================================================
