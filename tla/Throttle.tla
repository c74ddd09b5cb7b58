------------------------------ MODULE Throttle ------------------------------
(***************************************************************************)
(* internal/throttle: the Pitcher that every source (collectors, informer  *)
(* handlers, condition timers, webhook requests) pitches through.  It      *)
(* decides under p.mu whether an event is passed on, and pitches to the    *)
(* next pitcher after it has released p.mu, so the decision is one step    *)
(* and each send is another.  Run, started by main when a rate limit is    *)
(* set, flushes the summary of a finished window from a ticker.            *)
(*                                                                         *)
(* Times are natural numbers; 0 is Go's zero time and the clock starts     *)
(* at 1.  The variables marked "history" record what happened for the      *)
(* properties; no action reads them.                                       *)
(***************************************************************************)
EXTENDS Integers, Sequences

CONSTANTS
  Keys,        \* the cooldown keys events carry
  NoKey,       \* an event without a key (a snapshot, a delete, a Flux event)
  NoEvent,     \* no event to send
  Callers,     \* the goroutines that call Pitch
  Flusher,     \* the goroutine of Run
  Cooldown,    \* spec.cooldown, 0 is off
  Max, Per,    \* spec.rateLimit, Max = 0 is off
  Interval,    \* period of Run's ticker
  MaxTime,     \* bound: the clock stops here
  MaxPitches   \* bound: calls of Pitch

\* validate and main: negative values are refused, and the throttle is only
\* built when one of the two limits is set; Interval is min(Per, 30s).
ASSUME ThrottleAssumption ==
  /\ NoKey \notin Keys
  /\ Flusher \notin Callers
  /\ Cooldown \in Nat
  /\ Max \in Nat
  /\ Per \in Nat \ {0}
  /\ Interval \in 1 .. Per
  /\ Cooldown > 0 \/ Max > 0
  /\ MaxTime \in Nat
  /\ MaxPitches \in Nat

VARIABLES
  clock,       \* p.now()
  seen,        \* p.seen: per key the last pass and the repeats since
  windowEnd,   \* p.windowEnd
  sent,        \* p.sent
  suppressed,  \* p.suppressed
  calls,       \* per goroutine: what it still has to send to p.next
  tickAt,      \* when the ticker of Run fires next
  tickReady,   \* the ticker's channel (buffer of one) holds a tick
  running,     \* Run has not returned
  cancelled,   \* ctx is cancelled
  pitches,     \* history: calls of Pitch (bounds the model)
  lastPass,    \* history: per key the time of its last pass
  missed,      \* history: per key the cooldown drops since its last pass
  dropped,     \* history: events dropped by the rate limit
  told,        \* history: drops named by the summaries made so far
  passes,      \* history: the time of every pass, oldest first
  arrived      \* history: per key the latest pass whose event p.next took

program == <<seen, windowEnd, sent, suppressed>>
ticker  == <<tickAt, tickReady, running, cancelled>>
history == <<pitches, lastPass, missed, dropped, told, passes>>
vars    == <<clock, program, calls, ticker, history, arrived>>

Absent == [last |-> 0, repeats |-> 0]          \* the key is not in p.seen
Entry  == [last : Nat, repeats : Nat]
Event  == [key : Keys \cup {NoKey}, repeats : Nat, at : Nat]
Call   == [summary : Nat, event : Event \cup {NoEvent}]
Idle   == [summary |-> 0, event |-> NoEvent]

ASSUME NoEventAssumption == NoEvent \notin Event \cup Keys \cup {NoKey}

Init ==
  /\ clock = 1
  /\ seen = [k \in Keys |-> Absent]
  /\ windowEnd = 0
  /\ sent = 0
  /\ suppressed = 0
  /\ calls = [c \in Callers \cup {Flusher} |-> Idle]
  /\ tickAt = 1 + Interval
  /\ tickReady = FALSE
  /\ running = (Max > 0)
  /\ cancelled = FALSE
  /\ pitches = 0
  /\ lastPass = [k \in Keys |-> 0]
  /\ missed = [k \in Keys |-> 0]
  /\ dropped = 0
  /\ told = 0
  /\ passes = <<>>
  /\ arrived = [k \in Keys |-> 0]

-----------------------------------------------------------------------------
(* closeWindow: what it leaves of p.seen and the counters, and the number   *)
(* in the summary it returns (0: no summary).                               *)
(*                                                                         *)
(* A definition whose comment starts with "Fault:" is not part of the       *)
(* model: it is a plausible mistake in the definition that follows it, kept *)
(* to show that the properties would catch it.                              *)

\* Fault: forgets a key one tick after the cooldown could drop it.
PurgedEarly == [k \in Keys |-> IF clock - seen[k].last >= Cooldown
                               THEN Absent ELSE seen[k]]

\* Fault: starts the cooldowns anew with every window.
PurgedWithWindow == [k \in Keys |-> IF clock >= windowEnd \/ clock - seen[k].last >= 2 * Cooldown
                                    THEN Absent ELSE seen[k]]

\* Fault: never forgets a key.
NotPurged == seen

Purged == [k \in Keys |-> IF clock - seen[k].last >= 2 * Cooldown
                          THEN Absent ELSE seen[k]]

WindowOver == Max > 0 /\ windowEnd # 0 /\ clock >= windowEnd

\* Fault: lends the unused budget of a window to the next one.
SentCarried == IF WindowOver THEN sent - Max ELSE sent

\* Fault: does not reset the suppressed count.
SuppressedKept == suppressed

SentNow       == IF WindowOver THEN 0 ELSE sent
SuppressedNow == IF WindowOver THEN 0 ELSE suppressed
Summarized    == IF WindowOver THEN suppressed ELSE 0

\* Fault: does not start the next window.
CloseWindowOnce ==
  /\ windowEnd' = IF Max > 0 /\ windowEnd = 0 THEN clock + Per ELSE windowEnd
  /\ told' = told + Summarized

CloseWindow ==
  /\ windowEnd' = IF Max > 0 /\ (windowEnd = 0 \/ WindowOver)
                  THEN clock + Per ELSE windowEnd
  /\ told' = told + Summarized

-----------------------------------------------------------------------------
(* Pitch, up to the release of p.mu: closeWindow, then one of admit's       *)
(* outcomes for an event with key k.  The call leaves with the summary,     *)
(* if any, and with the event if it passed.                                 *)

Keyed(k) == Cooldown > 0 /\ k \in Keys

OnCooldown(k) ==
  /\ Keyed(k)
  /\ Purged[k] # Absent
  /\ clock - Purged[k].last < Cooldown

\* Fault: off by one at the limit.
OverLimitByOne == Max > 0 /\ SentNow + 1 >= Max

OverLimit == Max > 0 /\ SentNow >= Max

Leave(c, e) == calls' = [calls EXCEPT ![c] = [summary |-> Summarized, event |-> e]]

Repeat(c, k) ==                      \* dropped by the cooldown and counted
  /\ OnCooldown(k)
  /\ seen' = [Purged EXCEPT ![k].repeats = @ + 1]
  /\ sent' = SentNow
  /\ suppressed' = SuppressedNow
  /\ Leave(c, NoEvent)
  /\ missed' = [missed EXCEPT ![k] = @ + 1]
  /\ UNCHANGED <<lastPass, dropped, passes>>

\* Fault: starts the cooldown of an event the rate limit drops.
SuppressSilences(c, k) ==
  /\ ~OnCooldown(k)
  /\ OverLimit
  /\ seen' = IF Keyed(k)
             THEN [Purged EXCEPT ![k] = [last |-> clock, repeats |-> 0]]
             ELSE Purged
  /\ sent' = SentNow
  /\ suppressed' = SuppressedNow + 1
  /\ Leave(c, NoEvent)
  /\ dropped' = dropped + 1
  /\ UNCHANGED <<lastPass, missed, passes>>

Suppress(c, k) ==                    \* dropped by the rate limit
  /\ ~OnCooldown(k)
  /\ OverLimit
  /\ seen' = Purged
  /\ sent' = SentNow
  /\ suppressed' = SuppressedNow + 1
  /\ Leave(c, NoEvent)
  /\ dropped' = dropped + 1
  /\ UNCHANGED <<lastPass, missed, passes>>

Pass(c, k) ==
  /\ ~OnCooldown(k)
  /\ ~OverLimit
  /\ seen' = IF Keyed(k)
             THEN [Purged EXCEPT ![k] = [last |-> clock, repeats |-> 0]]
             ELSE Purged
  /\ sent' = IF Max > 0 THEN SentNow + 1 ELSE SentNow
  /\ suppressed' = SuppressedNow
  /\ Leave(c, [key     |-> k,
               repeats |-> IF Keyed(k) THEN Purged[k].repeats ELSE 0,
               at      |-> clock])
  /\ lastPass' = [j \in Keys |-> IF j = k THEN clock ELSE lastPass[j]]
  /\ missed' = [j \in Keys |-> IF j = k THEN 0 ELSE missed[j]]
  /\ passes' = Append(passes, clock)
  /\ UNCHANGED dropped

Pitch(c, k) ==
  /\ pitches < MaxPitches
  /\ pitches' = pitches + 1
  /\ calls[c] = Idle
  /\ CloseWindow
  /\ Repeat(c, k) \/ Suppress(c, k) \/ Pass(c, k)
  /\ UNCHANGED <<clock, ticker, arrived>>

-----------------------------------------------------------------------------
(* Pitch and Flush after the release of p.mu: p.next.Pitch of the summary,  *)
(* then of the event.  p.next may fail; a failed summary is only logged, a  *)
(* failed event is the caller's error.  Neither is tried again.             *)

SendSummary(c) ==
  /\ calls[c].summary # 0
  /\ calls' = [calls EXCEPT ![c].summary = 0]
  /\ UNCHANGED <<clock, program, ticker, history, arrived>>

SendEvent(c, ok) ==
  /\ calls[c].summary = 0
  /\ calls[c].event # NoEvent
  /\ calls' = [calls EXCEPT ![c].event = NoEvent]
  /\ arrived' = [k \in Keys |->
       IF ok /\ k = calls[c].event.key /\ calls[c].event.at > arrived[k]
       THEN calls[c].event.at ELSE arrived[k]]
  /\ UNCHANGED <<clock, program, ticker, history>>

-----------------------------------------------------------------------------
(* Run: a loop that flushes on every tick and ends with ctx.  Between the   *)
(* two ready cases of its select the choice is free.                        *)

TickerFires ==
  /\ running
  /\ clock >= tickAt
  /\ tickAt' = tickAt + Interval
  /\ tickReady' = TRUE
  /\ UNCHANGED <<clock, program, calls, running, cancelled, history, arrived>>

\* Fault: flushes the cooldowns only.
FlushSeen ==
  /\ running
  /\ tickReady
  /\ calls[Flusher] = Idle
  /\ tickReady' = FALSE
  /\ seen' = Purged
  /\ UNCHANGED <<clock, calls, windowEnd, sent, suppressed, tickAt, running,
                 cancelled, history, arrived>>

Flush ==
  /\ running
  /\ tickReady
  /\ calls[Flusher] = Idle
  /\ tickReady' = FALSE
  /\ CloseWindow
  /\ seen' = Purged
  /\ sent' = SentNow
  /\ suppressed' = SuppressedNow
  /\ Leave(Flusher, NoEvent)
  /\ UNCHANGED <<clock, tickAt, running, cancelled, pitches, lastPass, missed,
                 dropped, passes, arrived>>

RunReturns ==
  /\ running
  /\ cancelled
  /\ calls[Flusher] = Idle
  /\ running' = FALSE
  /\ UNCHANGED <<clock, program, calls, tickAt, tickReady, cancelled, history,
                 arrived>>

Cancel ==
  /\ ~cancelled
  /\ cancelled' = TRUE
  /\ UNCHANGED <<clock, program, calls, tickAt, tickReady, running, history,
                 arrived>>

Tick ==
  /\ clock < MaxTime
  /\ clock' = clock + 1
  /\ UNCHANGED <<program, calls, ticker, history, arrived>>

Next ==
  \/ \E c \in Callers, k \in Keys \cup {NoKey} : Pitch(c, k)
  \/ \E c \in Callers \cup {Flusher} : SendSummary(c)
  \/ \E c \in Callers, ok \in BOOLEAN : SendEvent(c, ok)
  \/ TickerFires
  \/ Flush
  \/ RunReturns
  \/ Cancel
  \/ Tick

Spec == Init /\ [][Next]_vars

\* The clock goes on, the runtime delivers ticks, Run's goroutine is
\* scheduled, and its requests end (the client of the HTTP mode has a 10s
\* timeout, go-redis has read and write timeouts).  Nothing is assumed of the
\* callers: they need not pitch, and theirs need not return.
Fairness ==
  /\ WF_vars(Tick)
  /\ WF_vars(TickerFires)
  /\ WF_vars(Flush)
  /\ WF_vars(SendSummary(Flusher))

FairSpec == Spec /\ Fairness

-----------------------------------------------------------------------------
(* Type correctness of the throttle's state, of the calls in flight and of  *)
(* the history.                                                             *)
TypeOK ==
  /\ clock \in Nat
  /\ seen \in [Keys -> Entry]
  /\ windowEnd \in Nat
  /\ sent \in Nat
  /\ suppressed \in Nat
  /\ calls \in [Callers \cup {Flusher} -> Call]
  /\ tickAt \in Nat
  /\ tickReady \in BOOLEAN
  /\ running \in BOOLEAN
  /\ cancelled \in BOOLEAN
  /\ pitches \in Nat
  /\ lastPass \in [Keys -> Nat]
  /\ missed \in [Keys -> Nat]
  /\ dropped \in Nat
  /\ told \in Nat
  /\ passes \in Seq(Nat)
  /\ arrived \in [Keys -> Nat]

(* p.seen is an exact memory of the cooldowns: a key in it has the time of  *)
(* its last pass and the number of drops since, a key not in it never       *)
(* passed or did so at least 2 * Cooldown ago (admit, closeWindow).  The    *)
(* action properties about cooldowns below follow from it.                  *)
CooldownMemory ==
  \A k \in Keys :
    IF seen[k] = Absent
    THEN lastPass[k] = 0 \/ clock - lastPass[k] >= 2 * Cooldown
    ELSE seen[k] = [last |-> lastPass[k], repeats |-> missed[k]]

(* The counters are an exact memory of the windows: all but the last `sent` *)
(* passes are older than the current window, and all but the last           *)
(* sent + Max are older than the one before, so that two windows in a row   *)
(* never start less than Per apart (admit, closeWindow).  SlidingBound      *)
(* follows from it.                                                         *)
WindowMemory ==
  Max > 0 =>
    /\ sent <= Max
    /\ windowEnd <= clock + Per
    /\ \A j \in 1 .. Len(passes) :
         /\ windowEnd # 0
         /\ j <= Len(passes) - sent => passes[j] + Per <= windowEnd
         /\ j <= Len(passes) - sent - Max => passes[j] + 2 * Per <= windowEnd

(* Every event the rate limit dropped is either still counted for the next  *)
(* summary or named by exactly one summary, whoever closed its window: a    *)
(* call of Pitch or the flusher, racing on p.mu (Pitch, Flush,              *)
(* closeWindow).                                                            *)
SuppressedAccounted == dropped = suppressed + told

(* Nothing is suppressed while the window still has budget: the suppressed  *)
(* count is only ever nonzero in a window that spent all of it (admit and   *)
(* closeWindow reset both counters together).                               *)
SuppressedOnlyWhenSpent == suppressed > 0 => sent = Max

(* The windows are fixed, so a burst may straddle the end of one; still no  *)
(* span of length Per, wherever it starts, holds more than 2 * Max passes   *)
(* (closeWindow starts the next window at the call that closes the last).   *)
SlidingBound ==
  Max > 0 =>
    \A i \in 1 .. Len(passes) :
      i + 2 * Max <= Len(passes) => passes[i + 2 * Max] - passes[i] >= Per

(* Forgetting old keys in closeWindow never shortens a cooldown: two passes *)
(* of one key are at least Cooldown apart (admit against p.seen).           *)
CooldownSpacing ==
  [][\A k \in Keys : lastPass'[k] # lastPass[k] =>
        lastPass[k] = 0 \/ lastPass'[k] - lastPass[k] >= Cooldown]_vars

(* No problem is silenced by a pass that never was: an event is dropped by  *)
(* the cooldown only if one with its key passed less than Cooldown ago; a   *)
(* drop by the rate limit does not start a cooldown (comment of admit).     *)
NoFalseSilence ==
  [][\A k \in Keys : missed'[k] > missed[k] =>
        lastPass[k] # 0 /\ clock - lastPass[k] < Cooldown]_vars

(* The "Repeats: n" of an event that passes is exactly the number of drops  *)
(* since the last pass of its key, or the key's last pass is so long ago    *)
(* that closeWindow may have forgotten it (2 * Cooldown).                   *)
RepeatsExact ==
  [][\A c \in Callers :
        LET e == calls'[c].event
        IN  /\ calls[c].event = NoEvent
            /\ e # NoEvent
            /\ Keyed(e.key)
            => \/ e.repeats = missed[e.key]
               \/ e.repeats = 0 /\ clock - lastPass[e.key] >= 2 * Cooldown]_vars

(* A window that suppressed something and ends within the modelled time is  *)
(* closed, and its count handed to a summary, even when no further event    *)
(* arrives: unless ctx is cancelled, Run sees to it (Flush, Run).           *)
SuppressedAnnounced ==
  suppressed > 0 /\ windowEnd + Interval <= MaxTime
    ~> suppressed = 0 \/ cancelled

(* Run's flushes also bound the memory: a key that stays quiet is forgotten *)
(* without any further event, unless ctx is cancelled (closeWindow from     *)
(* Flush).                                                                  *)
ForgottenEventually ==
  \A k \in Keys : \A t \in 1 .. MaxTime - (2 * Cooldown + Interval) :
    Max > 0 /\ seen[k].last = t ~> seen[k].last # t \/ cancelled

-----------------------------------------------------------------------------
(* The throttle implements what it promises: its clock, windows, counters   *)
(* and forgotten keys disappear behind the keys that are quiet, what is     *)
(* left of the budget, and the calls that still have something to send.     *)

F == INSTANCE Filter WITH
  Callers <- Callers \cup {Flusher},
  Events  <- Keys \cup {NoKey},
  Repeatable <- {k \in Keys : Keyed(k)},
  Budget  <- Max,
  quiet   <- {k \in Keys : OnCooldown(k)},
  left    <- Max - SentNow,
  untold  <- suppressed,
  out     <- [c \in Callers \cup {Flusher} |->
                [news  |-> calls[c].summary,
                 event |-> IF calls[c].event = NoEvent THEN NoEvent
                           ELSE calls[c].event.key]]

(* Whoever calls Pitch, and whenever the flusher closes a window, every     *)
(* event is dropped for a reason, sent once or counted once, and no count   *)
(* is lost between two callers (Pitch, Flush, admit, closeWindow).          *)
ImplementsFilter == F!Spec

-----------------------------------------------------------------------------
(* The comment of admit: "The cooldown only starts when the event is really *)
(* pitched".  A key on cooldown has an event that p.next took, or one that  *)
(* is on its way to p.next.                                                 *)
CooldownFollowsPitch ==
  \A k \in Keys : OnCooldown(k) =>
    \/ arrived[k] = seen[k].last
    \/ \E c \in Callers : /\ calls[c].event # NoEvent
                          /\ calls[c].event.key = k
                          /\ calls[c].event.at = seen[k].last

(* The comment of Pitcher: "the first one after the cooldown is pitched     *)
(* with that count".  An event that passes carries every drop of its key.   *)
FirstAfterCooldownCarriesCount ==
  [][\A c \in Callers :
        LET e == calls'[c].event
        IN  /\ calls[c].event = NoEvent
            /\ e # NoEvent
            /\ Keyed(e.key)
            => e.repeats = missed[e.key]]_vars
=============================================================================
