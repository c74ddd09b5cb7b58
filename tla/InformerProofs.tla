---------------------------- MODULE InformerProofs ----------------------------
(***************************************************************************)
(* Proofs about Informer, for every profile, any objects and versions, and *)
(* any number of handler calls.                                            *)
(***************************************************************************)
EXTENDS Informer, TLAPS

-----------------------------------------------------------------------------
(* What is loaded is valid, whatever the profile says.                      *)

LEMMA LoadedSpecs ==
  ASSUME NEW s \in Loaded(Specs)
  PROVE  /\ InformerValid(s)
         /\ s.updates \in UpdateModes
         /\ HasConditionFilter(s) => WatchesFlips(s) /\ "update" \in s.events
<1>1. PICK t \in Specs : InformerValid(t) /\ s = WithDefaults(t)
  BY DEF Loaded
<1>2. t \in InformerSpecs
  BY <1>1, InformerAssumption
<1> DEFINE U == IF t.updates = "" THEN "conditions" ELSE t.updates
           N == IF t.namespace = "" THEN "*" ELSE t.namespace
<1>3. /\ s.updates = U
      /\ s.resource = t.resource /\ s.events = t.events
      /\ s.deleteSeverity = t.deleteSeverity
      /\ s.types = t.types /\ s.reasons = t.reasons /\ s.excludeReasons = t.excludeReasons
      /\ s.ignoreStatuses = t.ignoreStatuses /\ s.ignoreReasons = t.ignoreReasons
      /\ s.minDuration = t.minDuration
  <2>1. s = [t EXCEPT !.updates = U, !.namespace = N]
    BY <1>1 DEF WithDefaults
  <2> HIDE DEF U, N
  <2> QED
    BY <2>1, <1>2 DEF InformerSpecs
<1>4. EventFilterValid(t) /\ ConditionFilterValid(t)
  BY <1>1 DEF InformerValid
<1>5. EventFilterValid(s)
  BY <1>3, <1>4 DEF EventFilterValid, HasEventFilter
<1>6. HasConditionFilter(s) <=> HasConditionFilter(t)
  BY <1>3 DEF HasConditionFilter
<1>7. HasConditionFilter(s) =>
        /\ WatchesFlips(s) /\ "update" \in s.events
        /\ s.minDuration >= 0 /\ s.ignoreStatuses \subseteq {"False", "Unknown"}
  BY <1>3, <1>4, <1>6 DEF ConditionFilterValid, WatchesFlips
<1>8. s.updates \in UpdateModes
  BY <1>1, <1>3 DEF InformerValid, UpdateModes
<1>9. ConditionFilterValid(s)
  BY <1>7 DEF ConditionFilterValid
<1>10. InformerValid(s)
  BY <1>1, <1>3, <1>5, <1>8, <1>9 DEF InformerValid
<1> QED
  BY <1>3, <1>7, <1>8, <1>10

(* The spec as loaded, kept by every step.                                  *)
SpecKept == spec \in Loaded(Specs)

LEMMA SpecStep == SpecKept /\ [Next]_vars => SpecKept'
  BY DEF SpecKept, Next, Synced, Add, Update, Delete, vars

(* The versions an update delivers.                                         *)
LEMMA VersionKinds ==
  ASSUME SpecKept, NEW v \in Versions(spec)
  PROVE  /\ v # Gone
         /\ \A t \in watchedConditions :
              v.conds[t] = NoCond \/ v.conds[t].status \in {"True", "False", "Unknown"}
         /\ v.kind = "Event" =>
              v.generation = 0 /\ \A t \in watchedConditions : v.conds[t] = NoCond
         /\ HasEventFilter(spec) => v.kind = "Event"
<1>1. EventFilterValid(spec)
  BY LoadedSpecs DEF SpecKept, InformerValid
<1> QED
  BY <1>1, InformerAssumption DEF Versions, watchedConditions, EventFilterValid

-----------------------------------------------------------------------------
(* What the tracker and the inventory hold.                                 *)

Holdings ==
  /\ SpecKept
  /\ store \in [Keys -> Versions(spec) \cup {Gone}]
  /\ tracked \subseteq {k \in Keys : store[k] # Gone}
  /\ tracked # {} => HasTracker
  /\ inventory \subseteq {k \in Keys : store[k] # Gone}
  /\ \A k \in Keys : store[k] # Gone => Watched(k)

LEMMA HoldingsInit == Init => Holdings
  BY DEF Init, Holdings, SpecKept

LEMMA HoldingsStep == Holdings /\ [Next]_vars => Holdings'
<1> SUFFICES ASSUME Holdings, [Next]_vars PROVE Holdings'
  OBVIOUS
<1>1. SpecKept' /\ (spec' = spec)
  BY SpecStep DEF Holdings, Next, Synced, Add, Update, Delete, vars
<1>2. /\ Versions(spec)' = Versions(spec)
      /\ HasTracker' <=> HasTracker
      /\ \A k \in Keys : Watched(k)' <=> Watched(k)
  BY <1>1 DEF Versions, HasTracker, Watched, HasConditionFilter, WatchesFlips
<1>3. CASE Synced \/ UNCHANGED vars
  BY <1>1, <1>2, <1>3 DEF Synced, vars, Holdings
<1>4. ASSUME NEW k \in Keys, NEW v \in Versions(spec), Add(k, v) PROVE Holdings'
  <2>1. /\ store' = [store EXCEPT ![k] = v] /\ tracked' = tracked /\ Watched(k)
        /\ inventory' \subseteq inventory \cup {k}
    BY <1>4 DEF Add
  <2>2. v # Gone
    BY VersionKinds DEF Holdings
  <2> QED
    BY <1>1, <1>2, <2>1, <2>2 DEF Holdings
<1>5. ASSUME NEW k \in Keys, NEW v \in Versions(spec), Update(k, v) PROVE Holdings'
  <2>1. /\ store' = [store EXCEPT ![k] = v] /\ store[k] # Gone
        /\ inventory' = inventory
        /\ tracked' = tracked \/ (tracked' = tracked \cup {k} /\ HasTracker)
    BY <1>5 DEF Update
  <2>2. v # Gone
    BY VersionKinds DEF Holdings
  <2> QED
    BY <1>1, <1>2, <2>1, <2>2 DEF Holdings
<1>6. ASSUME NEW k \in Keys, NEW v \in Versions(spec), Delete(k, v) PROVE Holdings'
  <2>1. /\ store' = [store EXCEPT ![k] = Gone]
        /\ inventory' = inventory \ {k}
        /\ tracked' = IF HasTracker THEN tracked \ {k} ELSE tracked
    BY <1>6 DEF Delete, Forgotten
  <2>2. k \notin tracked'
    BY <2>1 DEF Holdings
  <2> QED
    BY <1>1, <1>2, <2>1, <2>2 DEF Holdings
<1> QED
  BY <1>3, <1>4, <1>5, <1>6 DEF Next

LEMMA HoldingsAlways == Spec => []Holdings
  BY HoldingsInit, HoldingsStep, PTL DEF Spec

(* The tracker forgets an object with its delete, whatever else the spec    *)
(* wants of deletes (handlerFor).                                           *)
THEOREM TrackedIsThere == Spec => []NothingTrackedIsGone
<1>1. Holdings => NothingTrackedIsGone
  BY DEF Holdings, NothingTrackedIsGone
<1> QED
  BY <1>1, HoldingsAlways, PTL

-----------------------------------------------------------------------------
(* What a handler call may pitch.                                           *)

AddPitched(k, v) ==
  /\ "add" \in spec.events
  /\ ~synced => spec.pitchInitialList
  /\ store[k] = Gone
  /\ inventory' = IF synced THEN inventory ELSE inventory \cup {k}
  /\ PitchMessage(Message(k, v, "add", NoFlips, ""))

UpdatePitched(k, v) ==
  /\ "update" \in spec.events
  /\ ~HasTracker
  /\ \/ /\ spec.updates = "all"
        /\ PitchMessage(Message(k, v, "update", NoFlips, ""))
     \/ /\ Flips(store[k], v) # NoFlips
        /\ PitchMessage(Message(k, v, "update", Flips(store[k], v),
                                FlipSeverity(Flips(store[k], v))))
     \/ /\ spec.updates # "all"
        /\ store[k].generation # v.generation
        /\ PitchMessage(Message(k, v, "update", NoFlips, "info"))

DeletePitched(k, v) ==
  /\ "delete" \in spec.events
  /\ PitchMessage(Message(k, v, "delete", NoFlips, spec.deleteSeverity))

LEMMA Pitched ==
  ASSUME [Next]_vars
  PROVE  \/ UNCHANGED vars
         \/ PitchNothing
         \/ \E k \in Keys, v \in Versions(spec) :
              \/ AddPitched(k, v)
              \/ UpdatePitched(k, v) /\ store[k] # Gone
              \/ DeletePitched(k, v)
<1>1. CASE Synced \/ UNCHANGED vars
  BY <1>1 DEF Synced
<1>2. ASSUME NEW k \in Keys, NEW v \in Versions(spec), Add(k, v)
      PROVE  PitchNothing \/ AddPitched(k, v)
  BY <1>2 DEF Add, AddFunc, AddPitched
<1>3. ASSUME NEW k \in Keys, NEW v \in Versions(spec), Update(k, v)
      PROVE  PitchNothing \/ (UpdatePitched(k, v) /\ store[k] # Gone)
  BY <1>3 DEF Update, UpdateMessages, UpdatePitched
<1>4. ASSUME NEW k \in Keys, NEW v \in Versions(spec), Delete(k, v)
      PROVE  PitchNothing \/ DeletePitched(k, v)
  BY <1>4 DEF Delete, DeletePitched
<1> QED
  BY <1>1, <1>2, <1>3, <1>4 DEF Next

(* What was pitched last.                                                   *)
PitchRight ==
  pitch # NoPitch =>
    /\ pitch.key \in Keys
    /\ pitch.eventType \in spec.events
    /\ HasTracker => pitch.eventType # "update"
    /\ pitch.eventType = "add" /\ ~spec.pitchInitialList => pitch.key \notin inventory

LEMMA PitchRightInit == Init => PitchRight
  BY DEF Init, PitchRight

LEMMA PitchRightStep == Holdings /\ PitchRight /\ [Next]_vars => PitchRight'
<1> SUFFICES ASSUME Holdings, PitchRight, [Next]_vars PROVE PitchRight'
  OBVIOUS
<1>1. spec' = spec /\ (HasTracker' <=> HasTracker)
  BY DEF Next, Synced, Add, Update, Delete, vars, HasTracker
<1>2. CASE UNCHANGED vars
  BY <1>1, <1>2 DEF vars, PitchRight
<1>3. CASE PitchNothing
  BY <1>3 DEF PitchNothing, PitchRight
<1>4. ASSUME NEW k \in Keys, NEW v \in Versions(spec), AddPitched(k, v) PROVE PitchRight'
  <2>1. pitch'.key = k /\ pitch'.eventType = "add" /\ "add" \in spec.events
    BY <1>4 DEF AddPitched, PitchMessage, Message
  <2>2. ~spec.pitchInitialList => k \notin inventory'
    BY <1>4 DEF AddPitched, Holdings
  <2> QED
    BY <1>1, <2>1, <2>2 DEF PitchRight
<1>5. ASSUME NEW k \in Keys, NEW v \in Versions(spec), UpdatePitched(k, v) PROVE PitchRight'
  <2>1. /\ pitch'.key = k /\ pitch'.eventType = "update"
        /\ "update" \in spec.events /\ ~HasTracker
    <3>1. \E flips, severity : PitchMessage(Message(k, v, "update", flips, severity))
      BY <1>5 DEF UpdatePitched
    <3>2. "update" \in spec.events /\ ~HasTracker
      BY <1>5 DEF UpdatePitched
    <3> QED
      BY <3>1, <3>2 DEF PitchMessage, Message
  <2> QED
    BY <1>1, <2>1 DEF PitchRight
<1>6. ASSUME NEW k \in Keys, NEW v \in Versions(spec), DeletePitched(k, v) PROVE PitchRight'
  <2>1. pitch'.key = k /\ pitch'.eventType = "delete" /\ "delete" \in spec.events
    BY <1>6 DEF DeletePitched, PitchMessage, Message
  <2> QED
    BY <1>1, <2>1 DEF PitchRight
<1> QED
  BY <1>2, <1>3, <1>4, <1>5, <1>6, Pitched

LEMMA PitchRightAlways == Spec => []PitchRight
  BY PitchRightInit, PitchRightStep, HoldingsAlways, PTL DEF Spec

(* The inventory stays quiet: what an add pitches was not in the store, and *)
(* so not in the inventory, or the process pitches its initial list         *)
(* (handlerFor).                                                            *)
THEOREM InventoryStaysQuiet == Spec => []InventoryQuiet
<1>1. PitchRight => InventoryQuiet
  BY DEF PitchRight, InventoryQuiet
<1> QED
  BY <1>1, PitchRightAlways, PTL

(* The order of validate and applyDefaults, with the condition under which  *)
(* handlerFor makes a tracker, puts every filter of a valid profile in      *)
(* force, and every namespace.                                              *)
THEOREM FiltersInForce == Spec => []FilterInForce
<1>1. ASSUME Holdings, PitchRight PROVE FilterInForce
  <2>1. HasConditionFilter(spec) =>
          /\ HasTracker /\ "update" \in spec.events
          /\ pitch # NoPitch => pitch.eventType # "update"
    BY <1>1, LoadedSpecs DEF Holdings, SpecKept, HasTracker, PitchRight
  <2>2. Self # ""
    BY DEF Self, SelfNamespace
  <2>3. spec.namespace = "@self" => \A k \in Keys : store[k] # Gone => NamespaceOf[k] = Self
    BY <1>1, <2>2 DEF Holdings, Watched, ResolveNamespace
  <2>4. spec.namespace = "*" => \A k \in Keys : Watched(k)
    BY DEF Watched, ResolveNamespace
  <2> QED
    BY <2>1, <2>3, <2>4 DEF FilterInForce
<1> QED
  BY <1>1, HoldingsAlways, PitchRightAlways, PTL

-----------------------------------------------------------------------------
(* The reader's view of plain flips.                                        *)

ViewTyped == view \in [Keys -> [watchedConditions -> {Untold, "True", "False", "Unknown"}]]

Missing == \A k \in Keys, t \in watchedConditions :
             ~HasTracker /\ (store[k] = Gone \/ store[k].conds[t] = NoCond) => view[k][t] = Untold

Views == Holdings /\ ViewTyped /\ Missing /\ ViewIsCurrent

LEMMA ViewsInit == Init => Views
<1> SUFFICES ASSUME Init PROVE Views
  OBVIOUS
<1>1. \A k \in Keys, t \in watchedConditions : view[k][t] = Untold
  BY DEF Init
<1>2. ViewTyped
  BY DEF Init, ViewTyped
<1> QED
  BY <1>1, <1>2, HoldingsInit DEF Views, Missing, ViewIsCurrent

(* Of an object whose conditions changed by flips, all of which were told.  *)
LEMMA ViewedTypes ==
  ASSUME Holdings, ViewTyped, NEW k \in Keys, NEW v \in Versions(spec), NEW flips,
         \A t \in watchedConditions : flips[t] # NoCond => flips[t] = v.conds[t]
  PROVE  /\ Viewed(k, v, flips) \in [Keys -> [watchedConditions -> {Untold, "True", "False", "Unknown"}]]
         /\ \A z \in Keys : z # k => Viewed(k, v, flips)[z] = view[z]
         /\ \A t \in watchedConditions :
              Viewed(k, v, flips)[k][t] =
                IF v.conds[t] = NoCond THEN Untold
                ELSE IF flips[t] # NoCond THEN v.conds[t].status ELSE view[k][t]
<1> DEFINE seen == [t \in watchedConditions |->
                      IF v.conds[t] = NoCond THEN Untold
                      ELSE IF flips[t] # NoCond THEN flips[t].status ELSE view[k][t]]
<1>1. Viewed(k, v, flips) = [view EXCEPT ![k] = seen]
  BY DEF Viewed, ViewTyped
<1>2. \A t \in watchedConditions :
        v.conds[t] # NoCond => v.conds[t].status \in {"True", "False", "Unknown"}
  BY VersionKinds DEF Holdings
<1>3. seen \in [watchedConditions -> {Untold, "True", "False", "Unknown"}]
  BY <1>2 DEF ViewTyped
<1>4. \A t \in watchedConditions :
        seen[t] = IF v.conds[t] = NoCond THEN Untold
                  ELSE IF flips[t] # NoCond THEN v.conds[t].status ELSE view[k][t]
  OBVIOUS
<1> HIDE DEF seen
<1> QED
  BY <1>1, <1>3, <1>4 DEF ViewTyped

(* What the view must be after a step, point by point.                      *)
Plain == ~HasTracker /\ WatchesFlips(spec) /\ "update" \in spec.events

NewView(k, t) ==
  /\ ~HasTracker /\ (store'[k] = Gone \/ store'[k].conds[t] = NoCond) => view'[k][t] = Untold
  /\ Plain /\ store'[k] # Gone /\ view'[k][t] # Untold => view'[k][t] = store'[k].conds[t].status

LEMMA NewViews ==
  ASSUME spec' = spec, \A k \in Keys, t \in watchedConditions : NewView(k, t)
  PROVE  Missing' /\ ViewIsCurrent'
<1>1. \A k \in Keys, t \in watchedConditions :
        ~HasTracker /\ (store'[k] = Gone \/ store'[k].conds[t] = NoCond) => view'[k][t] = Untold
  BY DEF NewView
<1>2. Missing'
  BY <1>1 DEF Missing, HasTracker, HasConditionFilter, WatchesFlips
<1>3. Plain =>
        \A k \in Keys, t \in watchedConditions :
          store'[k] # Gone /\ view'[k][t] # Untold => view'[k][t] = store'[k].conds[t].status
  BY DEF NewView
<1>4. ViewIsCurrent'
  BY <1>3 DEF ViewIsCurrent, Plain, HasTracker, HasConditionFilter, WatchesFlips
<1> QED
  BY <1>2, <1>4

LEMMA SameView ==
  ASSUME Views, NEW k \in Keys, NEW t \in watchedConditions,
         view'[k] = view[k], store'[k] = store[k]
  PROVE  NewView(k, t)
  BY DEF Views, Missing, ViewIsCurrent, NewView, Plain

(* An update whose flips, told or not, are all there are.                   *)
LEMMA FlipsViewed ==
  ASSUME Views, ~HasTracker, NEW k \in Keys, NEW v \in Versions(spec), NEW flips,
         spec' = spec, store[k] # Gone, store' = [store EXCEPT ![k] = v],
         view' = Viewed(k, v, flips),
         \A t \in watchedConditions : flips[t] # NoCond => flips[t] = v.conds[t],
         Plain => \A t \in watchedConditions :
                    v.conds[t] # NoCond /\ store[k].conds[t] # NoCond /\ flips[t] = NoCond =>
                      v.conds[t].status = store[k].conds[t].status
  PROVE  ViewTyped' /\ Missing' /\ ViewIsCurrent'
<1>1. /\ ViewTyped'
      /\ \A z \in Keys : z # k => view'[z] = view[z]
      /\ \A t \in watchedConditions :
           view'[k][t] = IF v.conds[t] = NoCond THEN Untold
                         ELSE IF flips[t] # NoCond THEN v.conds[t].status ELSE view[k][t]
  <2>1. Holdings /\ ViewTyped
    BY DEF Views
  <2> QED
    BY <2>1, ViewedTypes DEF ViewTyped
<1>2. store \in [Keys -> Versions(spec) \cup {Gone}]
  BY DEF Views, Holdings
<1>3. v # Gone /\ store'[k] = v
  BY <1>2, VersionKinds DEF Views, Holdings
<1>4. ASSUME NEW z \in Keys, NEW t \in watchedConditions PROVE NewView(z, t)
  <2>1. CASE z # k
    <3>1. store'[z] = store[z] /\ view'[z] = view[z]
      BY <1>1, <1>2, <2>1
    <3> QED
      BY <3>1, SameView
  <2>2. CASE z = k
    <3>1. CASE v.conds[t] = NoCond
      BY <1>1, <2>2, <3>1 DEF NewView
    <3>2. CASE v.conds[t] # NoCond /\ flips[t] # NoCond
      <4>1. view'[k][t] = v.conds[t].status
        BY <1>1, <3>2
      <4> QED
        BY <1>3, <2>2, <3>2, <4>1 DEF NewView
    <3>3. CASE v.conds[t] # NoCond /\ flips[t] = NoCond
      <4>1. view'[k][t] = view[k][t]
        BY <1>1, <3>3
      <4>2. Plain /\ view[k][t] # Untold => view[k][t] = v.conds[t].status
        BY <3>3 DEF Views, Missing, ViewIsCurrent, Plain
      <4> QED
        BY <1>3, <2>2, <3>3, <4>1, <4>2 DEF NewView
    <3> QED
      BY <3>1, <3>2, <3>3
  <2> QED
    BY <2>1, <2>2
<1> QED
  BY <1>1, <1>4, NewViews

LEMMA UpdateViews ==
  ASSUME Views, NEW k \in Keys, NEW v \in Versions(spec), Update(k, v)
  PROVE  ViewTyped' /\ Missing' /\ ViewIsCurrent'
<1>1. store' = [store EXCEPT ![k] = v] /\ store[k] # Gone /\ spec' = spec
  BY DEF Update
<1>2. CASE HasTracker
  <2>1. \A z \in Keys, t \in watchedConditions : NewView(z, t)
    BY <1>2 DEF NewView, Plain
  <2>2. view' = view \/ \E flips : /\ view' = Viewed(k, v, flips)
                                  /\ flips = NoFlips
    BY <1>2 DEF Update
  <2>3. \A t \in watchedConditions : NoFlips[t] = NoCond
    BY DEF NoFlips
  <2>4. ViewTyped'
    <3>1. CASE view' = view
      BY <3>1 DEF Views, ViewTyped
    <3>2. CASE view' = Viewed(k, v, NoFlips)
      <4>1. Holdings /\ ViewTyped
        BY DEF Views
      <4> QED
        BY <2>3, <3>2, <4>1, ViewedTypes DEF ViewTyped
    <3> QED
      BY <2>2, <3>1, <3>2
  <2> QED
    BY <1>1, <2>1, <2>4, NewViews
<1>3. CASE ~HasTracker
  <2>1. CASE ~("update" \in spec.events /\ EventPasses(v)) /\ view' = Viewed(k, v, NoFlips)
    <3>1. \A t \in watchedConditions : NoFlips[t] = NoCond
      BY DEF NoFlips
    <3>2. Plain => \A t \in watchedConditions : v.conds[t] = NoCond
      BY <2>1, VersionKinds DEF EventPasses, Views, Holdings, Plain
    <3> QED
      BY <1>1, <1>3, <2>1, <3>1, <3>2, FlipsViewed
  <2>2. ASSUME NEW flips, flips = NoFlips \/ flips = Flips(store[k], v),
               Plain => flips = Flips(store[k], v), view' = Viewed(k, v, flips)
        PROVE  ViewTyped' /\ Missing' /\ ViewIsCurrent'
    <3>1. \A t \in watchedConditions :
            /\ NoFlips[t] = NoCond
            /\ Flips(store[k], v)[t] # NoCond => Flips(store[k], v)[t] = v.conds[t]
            /\ v.conds[t] # NoCond /\ store[k].conds[t] # NoCond /\ Flips(store[k], v)[t] = NoCond =>
                 v.conds[t].status = store[k].conds[t].status
      BY DEF NoFlips, Flips
    <3>2. \A t \in watchedConditions : flips[t] # NoCond => flips[t] = v.conds[t]
      BY <2>2, <3>1
    <3>3. Plain => \A t \in watchedConditions :
                     v.conds[t] # NoCond /\ store[k].conds[t] # NoCond /\ flips[t] = NoCond =>
                       v.conds[t].status = store[k].conds[t].status
      BY <2>2, <3>1
    <3> QED
      BY <1>1, <1>3, <2>2, <3>2, <3>3, FlipsViewed
  <2>3. Plain => spec.updates # "all"
    BY DEF Plain, WatchesFlips
  <2>4. CASE UpdateMessages(k, store[k], v) = {} /\ view' = Viewed(k, v, NoFlips)
    <3>1. Plain => Flips(store[k], v) = NoFlips
      BY <2>3, <2>4 DEF UpdateMessages, Plain
    <3> QED
      BY <2>2, <2>4, <3>1
  <2>5. ASSUME NEW m \in UpdateMessages(k, store[k], v), view' = Viewed(k, v, m.flips)
        PROVE  ViewTyped' /\ Missing' /\ ViewIsCurrent'
    <3>1. \E flips, severity :
            /\ flips = NoFlips \/ flips = Flips(store[k], v)
            /\ Plain => flips = Flips(store[k], v)
            /\ m = Message(k, v, "update", flips, severity)
      BY <2>3 DEF UpdateMessages, Plain
    <3>2. /\ m.flips = NoFlips \/ m.flips = Flips(store[k], v)
          /\ Plain => m.flips = Flips(store[k], v)
      BY <3>1 DEF Message
    <3> QED
      BY <2>2, <2>5, <3>2
  <2> QED
    BY <1>3, <2>1, <2>4, <2>5 DEF Update
<1> QED
  BY <1>2, <1>3

LEMMA ViewsStep == Views /\ [Next]_vars => Views'
<1> SUFFICES ASSUME Views, [Next]_vars PROVE ViewTyped' /\ Missing' /\ ViewIsCurrent'
  BY HoldingsStep DEF Views
<1>1. spec' = spec
  BY DEF Next, Synced, Add, Update, Delete, vars
<1>2. CASE Synced \/ UNCHANGED vars
  <2>1. store' = store /\ view' = view
    BY <1>2 DEF Synced, vars
  <2> QED
    BY <1>1, <2>1, SameView, NewViews DEF Views, ViewTyped
<1>3. ASSUME NEW k \in Keys, NEW v \in Versions(spec), Add(k, v)
      PROVE  ViewTyped' /\ Missing' /\ ViewIsCurrent'
  <2>1. store' = [store EXCEPT ![k] = v] /\ store[k] = Gone /\ view' = view
    BY <1>3 DEF Add
  <2>2. ASSUME NEW z \in Keys, NEW t \in watchedConditions PROVE NewView(z, t)
    <3>1. CASE z = k
      <4>1. ~HasTracker => view'[k][t] = Untold
        BY <2>1 DEF Views, Missing
      <4> QED
        BY <3>1, <4>1 DEF NewView, Plain
    <3>2. CASE z # k
      <4>1. store'[z] = store[z] /\ view'[z] = view[z]
        BY <2>1, <3>2 DEF Views, Holdings
      <4> QED
        BY <4>1, SameView
    <3> QED
      BY <3>1, <3>2
  <2> QED
    BY <1>1, <2>1, <2>2, NewViews DEF Views, ViewTyped
<1>4. ASSUME NEW k \in Keys, NEW v \in Versions(spec), Update(k, v)
      PROVE  ViewTyped' /\ Missing' /\ ViewIsCurrent'
  BY <1>4, UpdateViews
<1>5. ASSUME NEW k \in Keys, NEW v \in Versions(spec), Delete(k, v)
      PROVE  ViewTyped' /\ Missing' /\ ViewIsCurrent'
  <2>1. /\ store' = [store EXCEPT ![k] = Gone]
        /\ view' = [view EXCEPT ![k] = [t \in watchedConditions |-> Untold]]
    BY <1>5 DEF Delete
  <2>2. ViewTyped'
    BY <2>1 DEF Views, ViewTyped
  <2>3. ASSUME NEW z \in Keys, NEW t \in watchedConditions PROVE NewView(z, t)
    <3>1. CASE z = k
      <4>1. view'[k][t] = Untold
        BY <2>1 DEF Views, ViewTyped
      <4> QED
        BY <3>1, <4>1 DEF NewView
    <3>2. CASE z # k
      <4>1. store'[z] = store[z] /\ view'[z] = view[z]
        BY <2>1, <3>2 DEF Views, Holdings, ViewTyped
      <4> QED
        BY <4>1, SameView
    <3> QED
      BY <3>1, <3>2
  <2> QED
    BY <1>1, <2>2, <2>3, NewViews
<1> QED
  BY <1>2, <1>3, <1>4, <1>5 DEF Next

LEMMA ViewsAlways == Spec => []Views
  BY ViewsInit, ViewsStep, PTL DEF Spec

(* Plain flips tell the reader every status an object has, whatever         *)
(* versions the watch skipped (updateEvent).                                *)
THEOREM ViewsCurrent == Spec => []ViewIsCurrent
<1>1. Views => ViewIsCurrent
  BY DEF Views
<1> QED
  BY <1>1, ViewsAlways, PTL

(* The types follow.                                                        *)
LEMMA SyncedAlways == Spec => [](synced \in BOOLEAN)
<1>1. Init => synced \in BOOLEAN
  BY DEF Init
<1>2. synced \in BOOLEAN /\ [Next]_vars => (synced \in BOOLEAN)'
  BY DEF Next, Synced, Add, Update, Delete, vars
<1> QED
  BY <1>1, <1>2, PTL DEF Spec

(* Type correctness; what is loaded is a valid spec of a known mode.        *)
THEOREM InformerTypeCorrect == Spec => []TypeOK
<1>1. Views /\ PitchRight /\ synced \in BOOLEAN => TypeOK
  BY LoadedSpecs DEF Views, ViewTyped, Holdings, SpecKept, PitchRight, TypeOK
<1> QED
  BY <1>1, ViewsAlways, PitchRightAlways, SyncedAlways, PTL

-----------------------------------------------------------------------------
(* Severities.  (Steps that mention the empty string are left to Zenon.)    *)

(* What flips are made of.                                                  *)
LEMMA FlipsOf ==
  ASSUME NEW old, NEW new
  PROVE  /\ DOMAIN Flips(old, new) = watchedConditions
         /\ \A t \in watchedConditions :
              Flips(old, new)[t] # NoCond => Flips(old, new)[t] = new.conds[t] /\ new.conds[t] # NoCond
         /\ Flips(old, new) # NoFlips => \E t \in watchedConditions : Flips(old, new)[t] # NoCond
  BY DEF Flips, NoFlips

Bad(flips) == {t \in watchedConditions : flips[t] # NoCond /\ flips[t].status # "True"}

Worst(flips) ==
  IF Bad(flips) = {} THEN "success"
  ELSE IF "Ready" \in Bad(flips) /\ flips["Ready"].status = "False" THEN "error"
  ELSE "warning"

LEMMA WorstFlip ==
  ASSUME NEW flips, DOMAIN flips = watchedConditions,
         \E t \in watchedConditions : flips[t] # NoCond
  PROVE  FlipSeverity(flips) = Worst(flips)
<1> DEFINE ranks == {Rank(t, flips[t]) : t \in {u \in watchedConditions : flips[u] # NoCond}}
<1>1. FlipSeverity(flips) = IF 3 \in ranks THEN "error" ELSE IF 2 \in ranks THEN "warning" ELSE "success"
  BY DEF FlipSeverity
<1>2. 3 \in ranks <=> "Ready" \in Bad(flips) /\ flips["Ready"].status = "False"
  BY DEF Rank, Bad, watchedConditions
<1>3. 2 \in ranks =>  Bad(flips) # {}
  BY DEF Rank, Bad
<1>4. Bad(flips) # {} => 2 \in ranks \/ 3 \in ranks
  BY DEF Rank, Bad
<1> HIDE DEF ranks
<1> QED
  BY <1>1, <1>2, <1>3, <1>4 DEF Worst

LEMMA WorstIsSet ==
  ASSUME NEW flips PROVE Worst(flips) # ""
  BY Zenon DEF Worst

LEMMA Overrides ==
  ASSUME NEW obj, NEW eventType, NEW override, override # ""
  PROVE  Severity(obj, eventType, override) = override
  BY Zenon DEF Severity

LEMMA DeleteSeverityOf ==
  ASSUME NEW obj, NEW override
  PROVE  Severity(obj, "delete", override) =
           IF override # "" THEN override ELSE IF obj.kind = "Event" THEN "info" ELSE "WARNING"
<1>1. EventSeverity(obj, "delete") = IF obj.kind = "Event" THEN "info" ELSE ""
  BY Zenon DEF EventSeverity
<1>2. SeverityFor("delete") = "WARNING"
  BY SMT DEF SeverityFor
<1> QED
  BY <1>1, <1>2, Zenon DEF Severity

LEMMA PlainSeverityOf ==
  ASSUME NEW obj, NEW eventType \in {"add", "update"}
  PROVE  Severity(obj, eventType, "") =
           IF obj.kind = "Event" /\ obj.type \in {"Warning", "Normal"}
           THEN IF obj.type = "Warning" THEN "warning" ELSE "info"
           ELSE "SUCCESS"
<1>1. eventType # "delete"
  BY Zenon
<1>2. SeverityFor(eventType) = "SUCCESS"
  BY SMT DEF SeverityFor
<1>3. EventSeverity(obj, eventType) =
        IF obj.kind = "Event" /\ obj.type \in {"Warning", "Normal"}
        THEN IF obj.type = "Warning" THEN "warning" ELSE "info"
        ELSE ""
  <2>1. CASE obj.kind = "Event" /\ obj.type = "Warning"
    BY <1>1, <2>1, Zenon DEF EventSeverity
  <2>2. CASE obj.kind = "Event" /\ obj.type = "Normal"
    BY <1>1, <2>2, Zenon DEF EventSeverity
  <2>3. CASE obj.kind # "Event" \/ obj.type \notin {"Warning", "Normal"}
    BY <1>1, <2>3, Zenon DEF EventSeverity
  <2> QED
    BY <2>1, <2>2, <2>3, Zenon
<1> QED
  BY <1>2, <1>3, Zenon DEF Severity

(* The messages that have their severity from the Event, or for a new       *)
(* generation, the spec being sp.                                           *)
Spoken(m) ==
  m.eventType # "delete" /\ m.obj.kind = "Event" /\ m.obj.type \in {"Warning", "Normal"}

Changed(m, sp) == m.flips = NoFlips /\ m.eventType = "update" /\ sp.updates # "all"

(* What SeverityDocumented says of one message.                             *)
Documented(m, sp) ==
  /\ m.flips # NoFlips => m.severity = Worst(m.flips)
  /\ m.eventType = "delete" =>
       m.severity = IF sp.deleteSeverity # "" THEN sp.deleteSeverity
                    ELSE IF m.obj.kind = "Event" THEN "info" ELSE "WARNING"
  /\ Spoken(m) => m.severity = IF m.obj.type = "Warning" THEN "warning" ELSE "info"
  /\ Changed(m, sp) => m.severity = "info"
  /\ ~(m.flips # NoFlips \/ m.eventType = "delete" \/ Spoken(m) \/ Changed(m, sp)) =>
       m.severity = "SUCCESS"

LEMMA MessageParts ==
  ASSUME NEW k, NEW v, NEW eventType, NEW flips, NEW override, NEW m,
         m = Message(k, v, eventType, flips, override)
  PROVE  /\ m.obj = v /\ m.eventType = eventType /\ m.flips = flips
         /\ m.severity = Severity(v, eventType, override)
  BY DEF Message

(* No update of a Kubernetes Event shows a flip or a new generation.        *)
LEMMA EventsDoNotChange ==
  ASSUME Holdings, NEW k \in Keys, NEW v \in Versions(spec), store[k] # Gone, v.kind = "Event"
  PROVE  Flips(store[k], v) = NoFlips /\ store[k].generation = v.generation
<1>1. \A t \in watchedConditions : v.conds[t] = NoCond
  BY VersionKinds DEF Holdings
<1>2. Flips(store[k], v) = NoFlips
  BY <1>1, FlipsOf
<1>3. Versions(spec) = K8sEvents
  BY InformerAssumption DEF Versions
<1>4. store[k] \in K8sEvents
  BY <1>3 DEF Holdings
<1> QED
  BY <1>2, <1>3, <1>4, InformerAssumption

LEMMA PlainDocumented ==
  ASSUME NEW k, NEW v, NEW eventType \in {"add", "update"}, NEW m,
         eventType = "update" => spec.updates = "all",
         m = Message(k, v, eventType, NoFlips, "")
  PROVE  Documented(m, spec)
<1>1. eventType # "delete"
  BY Zenon
<1>2. /\ m.obj = v /\ m.eventType = eventType /\ m.flips = NoFlips
      /\ m.severity = Severity(v, eventType, "")
  <2> DEFINE unset == ""
  <2>1. m = Message(k, v, eventType, NoFlips, unset)
    OBVIOUS
  <2> HIDE DEF unset
  <2>2. /\ m.obj = v /\ m.eventType = eventType /\ m.flips = NoFlips
        /\ m.severity = Severity(v, eventType, unset)
    BY ONLY <2>1, MessageParts
  <2> QED
    BY <2>2, Zenon DEF unset
<1>3. m.severity = IF Spoken(m) THEN IF v.type = "Warning" THEN "warning" ELSE "info"
                   ELSE "SUCCESS"
  BY <1>1, <1>2, PlainSeverityOf, Zenon DEF Spoken
<1>4. ~Changed(m, spec)
  BY <1>2, Zenon DEF Changed
<1> QED
  BY <1>1, <1>2, <1>3, <1>4, Zenon DEF Documented

LEMMA FlipsDocumented ==
  ASSUME Holdings, NEW k \in Keys, NEW v \in Versions(spec), store[k] # Gone, NEW m,
         Flips(store[k], v) # NoFlips,
         m = Message(k, v, "update", Flips(store[k], v), FlipSeverity(Flips(store[k], v)))
  PROVE  Documented(m, spec)
<1> DEFINE flips == Flips(store[k], v)
<1>1. FlipSeverity(flips) = Worst(flips)
  BY FlipsOf, WorstFlip
<1>2. v.kind # "Event"
  BY EventsDoNotChange
<1>3. /\ m.obj = v /\ m.eventType = "update" /\ m.flips = flips
      /\ m.severity = Severity(v, "update", Worst(flips))
  BY <1>1, MessageParts, SMT
<1>4. m.severity = Worst(flips)
  <2>1. Severity(v, "update", Worst(flips)) = Worst(flips)
    BY WorstIsSet, Overrides, Zenon
  <2> QED
    BY <1>3, <2>1
<1> HIDE DEF flips
<1>5. ~Spoken(m) /\ ~Changed(m, spec)
  BY <1>2, <1>3, Zenon DEF Spoken, Changed, flips
<1> QED
  BY <1>3, <1>4, <1>5, Zenon DEF Documented, flips

LEMMA GenerationDocumented ==
  ASSUME Holdings, NEW k \in Keys, NEW v \in Versions(spec), store[k] # Gone, NEW m,
         store[k].generation # v.generation, spec.updates # "all",
         m = Message(k, v, "update", NoFlips, "info")
  PROVE  Documented(m, spec)
<1>1. v.kind # "Event"
  BY EventsDoNotChange
<1>2. /\ m.obj = v /\ m.eventType = "update" /\ m.flips = NoFlips
      /\ m.severity = Severity(v, "update", "info")
  BY MessageParts, SMT
<1>3. m.severity = "info"
  <2>1. "info" # ""
    BY Zenon
  <2>2. Severity(v, "update", "info") = "info"
    BY <2>1, Zenon DEF Severity
  <2> QED
    BY <1>2, <2>2
<1>4. ~Spoken(m) /\ Changed(m, spec)
  BY <1>1, <1>2, Zenon DEF Spoken, Changed
<1> QED
  BY <1>2, <1>3, <1>4, Zenon DEF Documented

LEMMA DeleteDocumented ==
  ASSUME NEW k, NEW v, NEW m, m = Message(k, v, "delete", NoFlips, spec.deleteSeverity)
  PROVE  Documented(m, spec)
<1>1. /\ m.obj = v /\ m.eventType = "delete" /\ m.flips = NoFlips
      /\ m.severity = Severity(v, "delete", spec.deleteSeverity)
  BY MessageParts, SMT
<1> QED
  BY <1>1, DeleteSeverityOf, Zenon DEF Documented, Spoken, Changed

LastDocumented == pitch # NoPitch => Documented(pitch, spec)

LEMMA DocumentedStep == Holdings /\ LastDocumented /\ [Next]_vars => LastDocumented'
<1> SUFFICES ASSUME Holdings, LastDocumented, [Next]_vars PROVE LastDocumented'
  OBVIOUS
<1>1. spec' = spec
  BY DEF Next, Synced, Add, Update, Delete, vars
<1>2. CASE UNCHANGED vars
  BY <1>1, <1>2, Zenon DEF vars, LastDocumented
<1>3. CASE PitchNothing
  BY <1>3, Zenon DEF PitchNothing, LastDocumented
<1>4. ASSUME NEW k \in Keys, NEW v \in Versions(spec),
             \/ AddPitched(k, v)
             \/ UpdatePitched(k, v) /\ store[k] # Gone
             \/ DeletePitched(k, v)
      PROVE  Documented(pitch', spec)
  <2>1. CASE AddPitched(k, v)
    BY <2>1, PlainDocumented, Zenon DEF AddPitched, PitchMessage
  <2>2. CASE UpdatePitched(k, v) /\ store[k] # Gone
    BY <2>2, PlainDocumented, FlipsDocumented, GenerationDocumented, Zenon
       DEF UpdatePitched, PitchMessage
  <2>3. CASE DeletePitched(k, v)
    BY <2>3, DeleteDocumented, Zenon DEF DeletePitched, PitchMessage
  <2> QED
    BY <1>4, <2>1, <2>2, <2>3, Zenon
<1> QED
  BY <1>1, <1>2, <1>3, <1>4, Pitched, Zenon DEF LastDocumented

(* Every message has the severity that the README lists, whichever of       *)
(* severityFor, eventSeverity, flipEvent and deleteSeverity decides.        *)
THEOREM SeveritiesDocumented == Spec => []SeverityDocumented
<1>1. Init => LastDocumented
  BY Zenon DEF Init, LastDocumented
<1>2. LastDocumented => SeverityDocumented
  BY Zenon DEF LastDocumented, Documented, Spoken, Changed, SeverityDocumented, Worst, Bad
<1> QED
  BY <1>1, <1>2, DocumentedStep, HoldingsAlways, PTL DEF Spec

=============================================================================
