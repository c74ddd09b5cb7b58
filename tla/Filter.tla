------------------------------- MODULE Filter -------------------------------
(***************************************************************************)
(* What the throttle promises (README, "Cooldown and rate limit"), without *)
(* its clock, windows and counters: an event is dropped only while its     *)
(* problem is quiet or when the budget is spent; what was not dropped is   *)
(* sent once; every drop of the rate limit is counted, and every count is  *)
(* handed out once, to a caller that sends it before its own event.  Time  *)
(* only ever ends a quiet spell or renews the budget.  Throttle implements *)
(* this (ImplementsFilter there), and Pipeline is built on it.             *)
(***************************************************************************)
EXTENDS Integers

CONSTANTS
  Callers,     \* the goroutines that pitch
  Events,      \* what they pitch, up to repeats of the same problem
  Repeatable,  \* the events that are dropped as repeats
  NoEvent,     \* no event to send
  Budget       \* events per window, 0: no rate limit

VARIABLES
  quiet,     \* the events passed so recently that a repeat is dropped
  left,      \* what is left of the budget
  untold,    \* drops of the rate limit not yet handed out
  out        \* per caller what it still has to send

vars == <<quiet, left, untold, out>>

Idle == [news |-> 0, event |-> NoEvent]

Init ==
  /\ quiet = {}
  /\ left = Budget
  /\ untold = 0
  /\ out = [c \in Callers |-> Idle]

\* A caller leaves with the count of the window before, if it closes one.
Leave(c, news, e) == out' = [out EXCEPT ![c] = [news |-> news, event |-> e]]

Pass(c, e, news) ==
  /\ e \notin quiet
  /\ Budget > 0 => left > 0
  /\ quiet' = IF e \in Repeatable THEN quiet \cup {e} ELSE quiet
  /\ left' = IF Budget > 0 THEN left - 1 ELSE left
  /\ untold' = untold - news
  /\ Leave(c, news, e)

Repeat(c, e, news) ==
  /\ e \in quiet
  /\ untold' = untold - news
  /\ Leave(c, news, NoEvent)
  /\ UNCHANGED <<quiet, left>>

\* Only a window that goes on is spent: there is no count to hand out.
Suppress(c, e) ==
  /\ e \notin quiet
  /\ Budget > 0 /\ left = 0
  /\ untold' = untold + 1
  /\ Leave(c, 0, NoEvent)
  /\ UNCHANGED <<quiet, left>>

Admit(c, e) ==
  /\ out[c] = Idle
  /\ \/ \E news \in {0, untold} : Pass(c, e, news) \/ Repeat(c, e, news)
     \/ Suppress(c, e)

\* The flusher hands out a count when no event does.
Report(c) ==
  /\ out[c] = Idle
  /\ Leave(c, untold, NoEvent)
  /\ untold' = 0
  /\ UNCHANGED <<quiet, left>>

SendNews(c) ==
  /\ out[c].news # 0
  /\ out' = [out EXCEPT ![c].news = 0]
  /\ UNCHANGED <<quiet, left, untold>>

SendEvent(c) ==
  /\ out[c].news = 0
  /\ out[c].event # NoEvent
  /\ out' = [out EXCEPT ![c].event = NoEvent]
  /\ UNCHANGED <<quiet, left, untold>>

Pause ==
  /\ quiet' \in SUBSET quiet
  /\ left' \in {left, Budget}
  /\ UNCHANGED <<untold, out>>

Next ==
  \/ \E c \in Callers, e \in Events : Admit(c, e)
  \/ \E c \in Callers : Report(c) \/ SendNews(c) \/ SendEvent(c)
  \/ Pause

Spec == Init /\ [][Next]_vars
=============================================================================
