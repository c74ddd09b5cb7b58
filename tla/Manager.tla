------------------------------- MODULE Manager -------------------------------
(***************************************************************************)
(* internal/informer/informer.go: the manager starts an informer for every *)
(* spec of the profile.  Here two, each with a watch, a tracker and a      *)
(* goroutine for its handlers (module Informer); all they share is the     *)
(* pitcher, the throttle of main, which keeps the cooldowns of both by the *)
(* keys of their messages (module Throttle).                               *)
(***************************************************************************)
EXTENDS Profile, Message

CONSTANTS
  Specs, Keys, K8sEvents, Gone, NoPitch, NoKey, NamespaceOf,
  PodNamespace, AccountNamespace, MaxEvents,    \* as in Informer
  Claims1, Claims2    \* the versions of objects that each watches

VARIABLES
  spec1, synced1, store1, tracked1, pitch1, inventory1, view1,
  spec2, synced2, store2, tracked2, pitch2, inventory2, view2,
  events,      \* history: handler calls of both (bounds the model)
  problems     \* history: the cooldown keys pitched, with their problems

informer1 == <<spec1, synced1, store1, tracked1, pitch1, inventory1, view1>>
informer2 == <<spec2, synced2, store2, tracked2, pitch2, inventory2, view2>>
managerVars == <<informer1, informer2, events, problems>>

First == INSTANCE Informer WITH
  Claims <- Claims1, spec <- spec1, synced <- synced1, store <- store1,
  tracked <- tracked1, pitch <- pitch1, inventory <- inventory1, view <- view1

Second == INSTANCE Informer WITH
  Claims <- Claims2, spec <- spec2, synced <- synced2, store <- store2,
  tracked <- tracked2, pitch <- pitch2, inventory <- inventory2, view <- view2

ManagerInit == First!Init /\ Second!Init /\ problems = {}

\* What a message is about, for the reader of the target.
Problem(m) == [about |-> Subject(m.key, m.obj), what |-> Happened(m.obj, m.flips)]

\* The throttle gets the message of a handler call, if it pitches one, and
\* starts a cooldown for its key, if it has one and is not silenced by it.
Throttled(m) ==
  problems' = IF m = NoPitch \/ m.cooldownKey = NoKey THEN problems
              ELSE problems \cup {[key |-> m.cooldownKey, problem |-> Problem(m)]}

\* The handlers of the informers, each in a goroutine of its own.
ManagerNext ==
  \/ First!Next  /\ Throttled(pitch1') /\ UNCHANGED informer2
  \/ Second!Next /\ Throttled(pitch2') /\ UNCHANGED informer1

ManagerSpec == ManagerInit /\ [][ManagerNext]_managerVars

-----------------------------------------------------------------------------
(* The comment of cooldownKey: it "groups repeats of one problem: an added  *)
(* or updated Kubernetes Event by involved object and reason, a condition   *)
(* flip by object and flip".  What has the key of a problem that was        *)
(* pitched, and is dropped as its repeat, is about the same object and what *)
(* happened to it, whichever informer pitched it.                           *)
KeyIsProblem == \A p, q \in problems : p.key = q.key => p.problem = q.problem
=============================================================================
