----------------------------- MODULE MCInformer -----------------------------
(* Small instances of Informer.                                             *)
EXTENDS Informer, TLC

CONSTANTS k1, k2

\* The object that the Events are about.
Involved == [group |-> "claims", kind |-> "Claim", key |-> k1]

Conds(ready, synced_) ==
  [t \in watchedConditions |-> IF t = "Ready" THEN ready ELSE synced_]

State(status, reason) == [status |-> status, reason |-> reason]

Claim(generation, ready, synced_) ==
  [group |-> "claims", kind |-> "Claim", type |-> "", reason |-> "", subject |-> NoSubject,
   generation |-> generation, conds |-> Conds(ready, synced_)]

ClaimsDef ==
  { Claim(1, NoCond, NoCond),
    Claim(1, State("True", "Available"), State("True", "Done")),
    Claim(2, State("False", "Broken"), State("True", "Done")),
    Claim(2, State("False", "Waiting"), State("False", "Denied")),
    Claim(2, State("Unknown", "Waiting"), NoCond) }

K8sEvent(type, reason, subject) ==
  [group |-> "", kind |-> "Event", type |-> type, reason |-> reason, subject |-> subject,
   generation |-> 0, conds |-> NoFlips]

K8sEventsDef ==
  { K8sEvent("Warning", "BackOff", Involved),
    K8sEvent("Warning", "Failed", Involved),
    K8sEvent("Normal", "Pulled", Involved),
    K8sEvent("", "BackOff", NoSubject) }

InformerSpec(resource, kinds, initial, updates) ==
  [resource |-> resource, events |-> kinds, pitchInitialList |-> initial,
   namespace |-> "", updates |-> updates, deleteSeverity |-> "", types |-> {}, reasons |-> {},
   excludeReasons |-> {}, ignoreStatuses |-> {}, ignoreReasons |-> {}, minDuration |-> 0]

Every == {"add", "update", "delete"}

\* Specs of claims: every mode, with and without a condition filter.
ClaimSpecs ==
  { [InformerSpec("claims", kinds, initial, updates)
       EXCEPT !.minDuration = d, !.ignoreStatuses = ignored] :
    kinds \in {Every, {"update"}, {"add", "delete"}}, initial \in {FALSE},
    updates \in UpdateModes \cup {""}, d \in {0, 1}, ignored \in {{}, {"Unknown"}} }

\* Specs of Events: every filter, allowed or not.
EventSpecs ==
  { [InformerSpec("events", Every, initial, "all")
       EXCEPT !.types = types, !.reasons = reasons, !.excludeReasons = excluded,
              !.deleteSeverity = severity] :
    initial \in BOOLEAN, types \in {{}, {"Warning"}}, reasons \in {{}, {"BackOff"}},
    excluded \in {{}, {"BackOff"}}, severity \in {"", "error"} }

\* A spec for the process's own namespace, and one for another's.
ScopedSpecs ==
  { [InformerSpec("claims", Every, FALSE, "flips") EXCEPT !.namespace = ns] :
    ns \in {"@self", "other"} }

SpecsDef == ClaimSpecs \cup EventSpecs \cup ScopedSpecs

NamespaceOfDef == k1 :> "own" @@ k2 :> "other"
=============================================================================
