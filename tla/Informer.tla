------------------------------ MODULE Informer ------------------------------
(***************************************************************************)
(* internal/informer/informer.go: the handlers of one informer.  client-go *)
(* (external) delivers the objects of the initial list as adds, and what   *)
(* it learns of them from the watch, one event at a time, also before the  *)
(* rest of that list; after a lost watch it lists again, so an update may  *)
(* skip any number of versions, repeat the one before, or even join an     *)
(* object with its successor of the same name.  With a condition filter,   *)
(* updates go to the condition tracker (module ConditionTracker), of which *)
(* only the keys it holds are kept here.  A handler runs to its end, the   *)
(* pitch included, before the next.                                        *)
(***************************************************************************)
EXTENDS Profile, Message

CONSTANTS
  Specs,       \* the informer specs a profile may have, valid or not
  Keys,        \* namespace/name of the objects
  Claims,      \* versions of objects that are not Kubernetes Events
  K8sEvents,   \* versions of Kubernetes Events
  Gone,        \* the object does not exist
  NoPitch,     \* the handler pitches nothing
  NoKey,       \* a message that is never deduplicated
  NamespaceOf, \* per key its namespace
  PodNamespace, AccountNamespace,  \* what tells the process its own, or ""
  MaxEvents    \* bound: handler calls

ASSUME InformerAssumption ==
  /\ Specs \subseteq InformerSpecs
  /\ Gone \notin Claims \cup K8sEvents
  /\ \A v \in Claims \cup K8sEvents : \A t \in {"Ready", "Synced"} :
       v.conds[t] = NoCond \/ v.conds[t].status \in {"True", "False", "Unknown"}
  /\ \A v \in Claims : v.kind # "Event"
  \* A Kubernetes Event has no conditions, and its generation is never set.
  /\ \A v \in K8sEvents :
       /\ v.kind = "Event"
       /\ v.generation = 0
       /\ \A t \in {"Ready", "Synced"} : v.conds[t] = NoCond

VARIABLES
  spec,        \* the informer's spec, as loaded
  synced,      \* the initial list has been delivered
  store,       \* per key the version delivered last
  tracked,     \* the keys the condition tracker holds
  pitch,       \* what the last handler call pitched
  events,      \* history: handler calls (bounds the model)
  inventory,   \* history: the keys of the initial list not deleted since
  view         \* history: per key and condition, the status pitched last,
               \* Untold if none was since the condition was missing

vars == <<spec, synced, store, tracked, pitch, events, inventory, view>>

watchedConditions == {"Ready", "Synced"}

Untold == ""

NoFlips == [t \in watchedConditions |-> NoCond]

Self == SelfNamespace(PodNamespace, AccountNamespace)

\* Start: what the informer watches.
Watched(k) ==
  LET ns == ResolveNamespace(spec.namespace, Self) IN ns = "" \/ NamespaceOf[k] = ns

Versions(s) == IF s.resource = "events" THEN K8sEvents ELSE Claims

HasTracker == HasConditionFilter(spec) /\ WatchesFlips(spec)

Init ==
  /\ spec \in Loaded(Specs)
  /\ synced = FALSE
  /\ store = [k \in Keys |-> Gone]
  /\ tracked = {}
  /\ pitch = NoPitch
  /\ events = 0
  /\ inventory = {}
  /\ view = [k \in Keys |-> [t \in watchedConditions |-> Untold]]

-----------------------------------------------------------------------------
(* Pitching.                                                                *)

\* cooldownKey, a string joined of the kind, namespace and name of the subject
\* and of the Event's reason or the flip's title, which has the flips after
\* kind and name: the group of the subject is no part of it.  None of the
\* parts but the last can contain the separator.
CooldownKey(k, obj, eventType, flips) ==
  LET key == <<Subject(k, obj).kind, Subject(k, obj).key, Happened(obj, flips)>>
  IN  IF obj.kind = "Event" /\ eventType \in {"add", "update"}
      THEN IF NamesProblem(obj) THEN key ELSE NoKey
      ELSE IF eventType = "update" /\ flips # NoFlips THEN key ELSE NoKey

\* Manager.pitch, to the message that toMessage makes of it.
Message(k, obj, eventType, flips, override) ==
  [key |-> k, obj |-> obj, eventType |-> eventType, flips |-> flips,
   severity |-> Severity(obj, eventType, override),
   cooldownKey |-> CooldownKey(k, obj, eventType, flips)]

PitchNothing == pitch' = NoPitch

PitchMessage(m) == pitch' = m

-----------------------------------------------------------------------------
(* What is pitched.                                                         *)

\* eventPasses
EventPasses(obj) ==
  HasEventFilter(spec) =>
    /\ spec.types = {} \/ obj.type \in spec.types
    /\ spec.reasons = {} \/ obj.reason \in spec.reasons
    /\ obj.reason \notin spec.excludeReasons

Flips(old, new) ==
  [t \in watchedConditions |->
     IF old.conds[t] # NoCond /\ new.conds[t] # NoCond
        /\ old.conds[t].status # new.conds[t].status
     THEN new.conds[t] ELSE NoCond]

\* Fault: a generation change hides the flips that come with it.
UpdateMessagesByGeneration(k, old, new) ==
  IF spec.updates = "all" THEN {Message(k, new, "update", NoFlips, "")}
  ELSE IF spec.updates # "flips" /\ old.generation # new.generation
  THEN {Message(k, new, "update", NoFlips, "info")}
  ELSE IF WatchesFlips(spec) /\ Flips(old, new) # NoFlips
  THEN {Message(k, new, "update", Flips(old, new), FlipSeverity(Flips(old, new)))}
  ELSE {}

\* updateEvent: the message of an update, if there is one
UpdateMessages(k, old, new) ==
  IF spec.updates = "all" THEN {Message(k, new, "update", NoFlips, "")}
  ELSE IF WatchesFlips(spec) /\ Flips(old, new) # NoFlips
  THEN {Message(k, new, "update", Flips(old, new), FlipSeverity(Flips(old, new)))}
  ELSE IF spec.updates # "flips" /\ old.generation # new.generation
  THEN {Message(k, new, "update", NoFlips, "info")}
  ELSE {}

-----------------------------------------------------------------------------
(* The handlers.                                                            *)

Event == events < MaxEvents /\ events' = events + 1

\* Fault: pitches the inventory after every start.
AddFuncAlways(k, new, isInInitialList) ==
  IF "add" \in spec.events /\ EventPasses(new)
  THEN PitchMessage(Message(k, new, "add", NoFlips, ""))
  ELSE PitchNothing

AddFunc(k, new, isInInitialList) ==
  IF /\ "add" \in spec.events
     /\ isInInitialList => spec.pitchInitialList
     /\ EventPasses(new)
  THEN PitchMessage(Message(k, new, "add", NoFlips, ""))
  ELSE PitchNothing

Add(k, new) ==
  /\ Event
  /\ Watched(k)
  /\ store[k] = Gone
  /\ store' = [store EXCEPT ![k] = new]
  /\ inventory' = IF synced THEN inventory ELSE inventory \cup {k}
  /\ AddFunc(k, new, ~synced)
  /\ UNCHANGED <<spec, synced, tracked, view>>

Synced ==
  /\ ~synced
  /\ synced' = TRUE
  /\ PitchNothing
  /\ UNCHANGED <<spec, store, tracked, events, inventory, view>>

\* The reader's view of an object's conditions; what is missing is unknown.
Viewed(k, new, flips) ==
  [view EXCEPT ![k] =
     [t \in watchedConditions |->
        IF new.conds[t] = NoCond THEN Untold
        ELSE IF flips[t] # NoCond THEN flips[t].status ELSE @[t]]]

Update(k, new) ==
  /\ Event
  /\ store[k] # Gone
  /\ store' = [store EXCEPT ![k] = new]
  /\ UNCHANGED <<spec, synced, inventory>>
  /\ \/ /\ ~("update" \in spec.events /\ EventPasses(new))
        /\ PitchNothing
        /\ view' = Viewed(k, new, NoFlips)
        /\ UNCHANGED tracked
     \/ /\ "update" \in spec.events /\ EventPasses(new)
        /\ HasTracker                     \* pitches or not, see there
        /\ tracked' = tracked \cup {k}
        /\ PitchNothing
        /\ UNCHANGED view
     \/ /\ "update" \in spec.events /\ EventPasses(new)
        /\ ~HasTracker
        /\ UNCHANGED tracked
        /\ \/ /\ UpdateMessages(k, store[k], new) = {}
              /\ PitchNothing
              /\ view' = Viewed(k, new, NoFlips)
           \/ \E m \in UpdateMessages(k, store[k], new) :
                PitchMessage(m) /\ view' = Viewed(k, new, m.flips)

\* Fault: forgets only what it pitches as deleted.
ForgottenIfPitched(k, last) ==
  IF HasTracker /\ "delete" \in spec.events THEN tracked \ {k} ELSE tracked

\* What the tracker still holds after a delete.
Forgotten(k, last) == IF HasTracker THEN tracked \ {k} ELSE tracked

\* The last state may be newer than what was delivered, or a tombstone.
Delete(k, last) ==
  /\ Event
  /\ store[k] # Gone
  /\ store' = [store EXCEPT ![k] = Gone]
  /\ inventory' = inventory \ {k}
  /\ view' = [view EXCEPT ![k] = [t \in watchedConditions |-> Untold]]
  /\ tracked' = Forgotten(k, last)
  /\ IF "delete" \in spec.events /\ EventPasses(last)
     THEN PitchMessage(Message(k, last, "delete", NoFlips, spec.deleteSeverity))
     ELSE PitchNothing
  /\ UNCHANGED <<spec, synced>>

Next ==
  \/ Synced
  \/ \E k \in Keys, v \in Versions(spec) :
       Add(k, v) \/ Update(k, v) \/ Delete(k, v)

Spec == Init /\ [][Next]_vars

-----------------------------------------------------------------------------
(* Type correctness; what is loaded is a valid spec of a known mode.        *)
TypeOK ==
  /\ InformerValid(spec)
  /\ spec.updates \in UpdateModes
  /\ synced \in BOOLEAN
  /\ store \in [Keys -> Versions(spec) \cup {Gone}]
  /\ tracked \subseteq Keys
  /\ pitch # NoPitch => pitch.key \in Keys /\ pitch.eventType \in spec.events
  /\ inventory \subseteq Keys
  /\ view \in [Keys -> [watchedConditions -> {Untold, "True", "False", "Unknown"}]]

(* What the profile says is in force: with a condition filter there is a    *)
(* tracker, it gets the updates of the spec, and no message of an update    *)
(* passes it by; a namespace left out is every namespace, and "@self" no    *)
(* other (validate, applyDefaults, ResolveNamespace, handlerFor together).  *)
FilterInForce ==
  /\ HasConditionFilter(spec) =>
       /\ HasTracker
       /\ "update" \in spec.events
       /\ pitch # NoPitch => pitch.eventType # "update"
  /\ spec.namespace = "@self" =>
       \A k \in Keys : store[k] # Gone => NamespaceOf[k] = Self
  /\ spec.namespace = "*" => \A k \in Keys : Watched(k)

(* The tracker holds no object that is gone, also when deletes are not      *)
(* pitched or the final state does not pass the filter (handlerFor).        *)
NothingTrackedIsGone == \A k \in tracked : store[k] # Gone

(* README, "a restart does not re-pitch the inventory": what was there when *)
(* the process started is not pitched as added until it has been deleted    *)
(* (handlerFor).                                                            *)
InventoryQuiet ==
  pitch # NoPitch /\ pitch.eventType = "add" /\ ~spec.pitchInitialList =>
    pitch.key \notin inventory

(* Who reads the pitched flips knows the condition: without a filter, the   *)
(* status pitched last is that of the object, whatever updates the watch    *)
(* skipped or repeated and whatever else changed with them (updateEvent).   *)
ViewIsCurrent ==
  WatchesFlips(spec) /\ ~HasTracker /\ "update" \in spec.events =>
    \A k \in Keys, t \in watchedConditions :
      store[k] # Gone /\ view[k][t] # Untold => view[k][t] = store[k].conds[t].status

(* README, "Informer options": every message has the documented severity,   *)
(* by the object and what happened to it: the worst flip decides, a new     *)
(* generation is news, an Event speaks for itself, deletes are as the spec  *)
(* has them, and all else went well (flipEvent, updateEvent, toMessage).    *)
SeverityDocumented ==
  pitch # NoPitch =>
    LET bad     == {t \in watchedConditions : pitch.flips[t] # NoCond /\ pitch.flips[t].status # "True"}
        flipped == pitch.flips # NoFlips
        deleted == pitch.eventType = "delete"
        spoken  == ~deleted /\ pitch.obj.kind = "Event" /\ pitch.obj.type \in {"Warning", "Normal"}
        changed == ~flipped /\ pitch.eventType = "update" /\ spec.updates # "all"
    IN  /\ flipped =>
             pitch.severity =
               IF bad = {} THEN "success"
               ELSE IF "Ready" \in bad /\ pitch.flips["Ready"].status = "False" THEN "error"
               ELSE "warning"
        /\ deleted =>
             pitch.severity =
               IF spec.deleteSeverity # "" THEN spec.deleteSeverity
               ELSE IF pitch.obj.kind = "Event" THEN "info" ELSE "WARNING"
        /\ spoken => pitch.severity = IF pitch.obj.type = "Warning" THEN "warning" ELSE "info"
        /\ changed => pitch.severity = "info"
        /\ ~(flipped \/ deleted \/ spoken \/ changed) => pitch.severity = "SUCCESS"
=============================================================================
