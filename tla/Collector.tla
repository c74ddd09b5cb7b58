------------------------------ MODULE Collector ------------------------------
(***************************************************************************)
(* internal/collector/collector.go: one goroutine per collector spec lists *)
(* a kind of resource when it starts and at every tick of its ticker, and  *)
(* pitches the items of the list one by one.  A pitch blocks, so ticks may *)
(* come while a snapshot is still being pitched; the ticker holds one.     *)
(* ctx is cancelled by main (module Lifecycle).                            *)
(***************************************************************************)
EXTENDS FiniteSets

CONSTANTS
  Specs,        \* the collectors a profile may have
  KnownKinds,   \* those whose kind is in gvrForKind
  Items         \* the resources that may exist

\* validate asks for a kind, but not for one of gvrForKind.
ASSUME CollectorAssumption == KnownKinds \subseteq Specs

VARIABLES
  cancelled,    \* ctx.Err() # nil
  pc,           \* per spec: where its goroutine is, "off" without one
  ticked,       \* per spec: its ticker's channel holds a tick
  left,         \* per spec: items of the list still to be pitched
  listed,       \* history: per spec, the items of its last list
  tried         \* history: per spec, those of them it has tried to pitch

snapshot      == <<left, listed, tried>>
collectorVars == <<cancelled, pc, ticked, snapshot>>

Stages == {"off", "new", "collect", "pitch", "select", "returned"}

CollectorInit ==
  /\ cancelled = FALSE
  /\ pc = [s \in Specs |-> "off"]
  /\ ticked = [s \in Specs |-> FALSE]
  /\ left = [s \in Specs |-> {}]
  /\ listed = [s \in Specs |-> {}]
  /\ tried = [s \in Specs |-> {}]

-----------------------------------------------------------------------------

\* Start: a goroutine per spec of the profile.
StartCollectors(started) == pc' = [s \in Specs |-> IF s \in started THEN "new" ELSE "off"]

\* The process ends, and its goroutines, tickers and lists with it.
StopCollectors ==
  /\ pc' = [s \in Specs |-> "off"]
  /\ ticked' = [s \in Specs |-> FALSE]
  /\ left' = [s \in Specs |-> {}]
  /\ listed' = [s \in Specs |-> {}]
  /\ tried' = [s \in Specs |-> {}]

\* run: an unknown kind ends only its own goroutine.
Run(s) ==
  /\ pc[s] = "new"
  /\ pc' = [pc EXCEPT ![s] = IF s \in KnownKinds THEN "collect" ELSE "returned"]
  /\ UNCHANGED <<cancelled, ticked, snapshot>>

\* The ticker ticks; a tick that finds its channel full is dropped.
TickerTicks(s) ==
  /\ pc[s] \in {"collect", "pitch", "select"}
  /\ ~ticked[s]
  /\ ticked' = [ticked EXCEPT ![s] = TRUE]
  /\ UNCHANGED <<cancelled, pc, snapshot>>

Listed(s, items) ==
  /\ left' = [left EXCEPT ![s] = items]
  /\ listed' = [listed EXCEPT ![s] = items]
  /\ tried' = [tried EXCEPT ![s] = {}]

\* Fault: lists with a context that is never cancelled.
ListAlways(s) ==
  /\ pc[s] = "collect"
  /\ \/ /\ \E items \in SUBSET Items : Listed(s, items)
        /\ pc' = [pc EXCEPT ![s] = "pitch"]
     \/ /\ Listed(s, {})
        /\ pc' = [pc EXCEPT ![s] = "select"]
  /\ UNCHANGED <<cancelled, ticked>>

\* Fault: a failed list ends the goroutine.
ListOrReturn(s) ==
  /\ pc[s] = "collect"
  /\ \/ /\ ~cancelled
        /\ \E items \in SUBSET Items : Listed(s, items)
        /\ pc' = [pc EXCEPT ![s] = "pitch"]
     \/ /\ Listed(s, {})
        /\ pc' = [pc EXCEPT ![s] = "returned"]
  /\ UNCHANGED <<cancelled, ticked>>

\* collect: the list of what exists just now.  It fails under a cancelled ctx
\* and may fail anyway.
List(s) ==
  /\ pc[s] = "collect"
  /\ \/ /\ ~cancelled
        /\ \E items \in SUBSET Items : Listed(s, items)
        /\ pc' = [pc EXCEPT ![s] = "pitch"]
     \/ /\ Listed(s, {})
        /\ pc' = [pc EXCEPT ![s] = "select"]
  /\ UNCHANGED <<cancelled, ticked>>

\* Fault: a failed pitch ends the snapshot.
PitchUntilError(s) ==
  /\ pc[s] = "pitch"
  /\ \E i \in left[s], next \in {"pitch", "select"} :
       /\ left' = [left EXCEPT ![s] = @ \ {i}]
       /\ tried' = [tried EXCEPT ![s] = @ \cup {i}]
       /\ pc' = [pc EXCEPT ![s] = next]
  /\ UNCHANGED <<cancelled, ticked, listed>>

\* collect: one item, converted and pitched.  Either may fail, which is logged
\* and changes nothing; nor is ctx looked at, so that a snapshot goes on after
\* a cancellation.
PitchItem(s) ==
  /\ pc[s] = "pitch"
  /\ \E i \in left[s] :
       /\ left' = [left EXCEPT ![s] = @ \ {i}]
       /\ tried' = [tried EXCEPT ![s] = @ \cup {i}]
  /\ UNCHANGED <<cancelled, pc, ticked, listed>>

\* collect: the loop over the list is over.
CollectReturns(s) ==
  /\ pc[s] = "pitch"
  /\ left[s] = {}
  /\ pc' = [pc EXCEPT ![s] = "select"]
  /\ UNCHANGED <<cancelled, ticked, snapshot>>

\* run: the select; when both channels are ready, it picks either.  The list
\* of the last snapshot is gone.
Select(s) ==
  /\ pc[s] = "select"
  /\ \/ /\ cancelled
        /\ pc' = [pc EXCEPT ![s] = "returned"]
        /\ UNCHANGED ticked
     \/ /\ ticked[s]
        /\ ticked' = [ticked EXCEPT ![s] = FALSE]
        /\ pc' = [pc EXCEPT ![s] = "collect"]
  /\ Listed(s, {})
  /\ UNCHANGED cancelled

CollectorRuns(s) ==
  \/ Run(s)
  \/ List(s)
  \/ PitchItem(s)
  \/ CollectReturns(s)
  \/ Select(s)

CollectorNext == \E s \in Specs : CollectorRuns(s) \/ TickerTicks(s)

-----------------------------------------------------------------------------
(* Types of the collectors' variables.                                      *)
CollectorTypeOK ==
  /\ cancelled \in BOOLEAN
  /\ pc \in [Specs -> Stages]
  /\ ticked \in [Specs -> BOOLEAN]
  /\ \A f \in {left, listed, tried} : f \in [Specs -> SUBSET Items]

(* A snapshot is complete: once it is over, every item of the list has been *)
(* tried, whatever failed before it and whatever became of it meanwhile;    *)
(* and no item is tried twice (collect).                                    *)
CompleteSnapshot ==
  \A s \in Specs :
    /\ left[s] \cap tried[s] = {}
    /\ left[s] \cup tried[s] = listed[s]
    /\ pc[s] = "select" => tried[s] = listed[s]

(* After the cancellation no collector starts on another snapshot: what it  *)
(* still pitches was listed before (collect passes ctx to List).            *)
NoListAfterCancel ==
  [][cancelled => \A s \in Specs : listed'[s] \subseteq listed[s]]_collectorVars

(* A tick is taken, however long the snapshot before it takes, whatever its *)
(* pitches come to, and though the lists of the other collectors may hang   *)
(* for ever, until ctx is cancelled or the process ends: as long as each of *)
(* the collector's own lists ends, with an error or without (run, collect). *)
TicksServed ==
  \A s \in KnownKinds :
    []<>(pc[s] # "collect") => (ticked[s] ~> (~ticked[s] \/ cancelled \/ pc[s] = "off"))
=============================================================================
