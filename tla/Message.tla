------------------------------- MODULE Message -------------------------------
(***************************************************************************)
(* What becomes of an event on its way to a message: the parts of          *)
(* internal/pitcher/pitcher.go and flipEvent that decide something.  An    *)
(* object has an API group and a kind; if it is a Kubernetes Event, also a *)
(* type, a reason and a subject (the involved object: its group, kind, and *)
(* key, the namespace and name).  Flips are a function from the watched    *)
(* conditions to the new state or NoCond where there is none.              *)
(***************************************************************************)
EXTENDS Integers, FiniteSets

CONSTANTS
  NoCond,      \* the object does not have the condition; no flip of it
  NoSubject    \* an Event without a named object

\* The rank of one flip in flipEvent.
Rank(t, state) ==
  IF state.status = "False" /\ t = "Ready" THEN 3
  ELSE IF state.status # "True" THEN 2 ELSE 1

\* flipEvent: the severity of the worst flip
FlipSeverity(flips) ==
  LET ranks == {Rank(t, flips[t]) : t \in {u \in DOMAIN flips : flips[u] # NoCond}}
  IN  IF 3 \in ranks THEN "error" ELSE IF 2 \in ranks THEN "warning" ELSE "success"

\* eventSeverity: "" leaves it to severityFor
EventSeverity(obj, eventType) ==
  IF obj.kind # "Event" THEN ""
  ELSE IF eventType = "delete" THEN "info"
  ELSE CASE obj.type = "Warning" -> "warning"
         [] obj.type = "Normal"  -> "info"
         [] OTHER                -> ""

\* severityFor
SeverityFor(eventType) ==
  CASE eventType \in {"add", "update"} -> "SUCCESS"
    [] eventType = "delete"            -> "WARNING"
    [] OTHER                           -> "INFO"

\* Fault: an Event's own severity goes before the override.
SeverityOwnFirst(obj, eventType, override) ==
  IF EventSeverity(obj, eventType) # "" THEN EventSeverity(obj, eventType)
  ELSE IF override # "" THEN override
  ELSE SeverityFor(eventType)

\* toMessage: the severity of a message
Severity(obj, eventType, override) ==
  IF override # "" THEN override
  ELSE IF EventSeverity(obj, eventType) # "" THEN EventSeverity(obj, eventType)
  ELSE SeverityFor(eventType)

\* EventSubject: whether an Event has the parts that name a problem
NamesProblem(obj) == obj.reason # "" /\ obj.subject # NoSubject

\* The object that a message is about.
Subject(k, obj) ==
  IF obj.kind = "Event" THEN obj.subject
  ELSE [group |-> obj.group, kind |-> obj.kind, key |-> k]

\* What happened to it.
Happened(obj, flips) ==
  IF obj.kind = "Event" THEN [reason |-> obj.reason] ELSE [flips |-> flips]
=============================================================================
