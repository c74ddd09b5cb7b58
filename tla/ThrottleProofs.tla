--------------------------- MODULE ThrottleProofs ---------------------------
(***************************************************************************)
(* Proofs about Throttle, for every set of keys and callers, every         *)
(* cooldown, limit, window and ticker, and every number of calls.          *)
(***************************************************************************)
EXTENDS Throttle, TLAPS

-----------------------------------------------------------------------------
(* Types.                                                                   *)

(* closeWindow keeps the types: the state it leaves, and its summary.       *)
LEMMA ClosedTypes ==
  ASSUME TypeOK
  PROVE  /\ Purged \in [Keys -> Entry]
         /\ SentNow \in Nat
         /\ SuppressedNow \in Nat
         /\ Summarized \in Nat
         /\ Absent \in Entry
  BY DEF TypeOK, Purged, SentNow, SuppressedNow, Summarized, Absent, Entry

LEMMA CloseWindowTypes ==
  ASSUME TypeOK, CloseWindow
  PROVE  windowEnd' \in Nat /\ told' \in Nat
  BY ClosedTypes, ThrottleAssumption DEF TypeOK, CloseWindow, ThrottleAssumption

(* What a call leaves with is a call.                                       *)
LEMMA LeaveTypes ==
  ASSUME TypeOK, NEW c \in Callers \cup {Flusher}, NEW e \in Event \cup {NoEvent},
         Leave(c, e)
  PROVE  calls' \in [Callers \cup {Flusher} -> Call]
  BY ClosedTypes DEF TypeOK, Leave, Call

(* The throttle's own state, the calls and the history keep their types in  *)
(* each outcome of Pitch.                                                   *)
LEMMA PitchTypes ==
  ASSUME TypeOK, NEW c \in Callers, NEW k \in Keys \cup {NoKey}, Pitch(c, k)
  PROVE  TypeOK'
<1>0. /\ Purged \in [Keys -> Entry]
      /\ SentNow \in Nat
      /\ SuppressedNow \in Nat
      /\ Absent \in Entry
  BY ClosedTypes
<1>1. /\ clock' \in Nat
      /\ tickAt' \in Nat
      /\ tickReady' \in BOOLEAN
      /\ running' \in BOOLEAN
      /\ cancelled' \in BOOLEAN
      /\ arrived' \in [Keys -> Nat]
      /\ pitches' \in Nat
      /\ windowEnd' \in Nat
      /\ told' \in Nat
  BY CloseWindowTypes DEF Pitch, TypeOK, ticker
<1>2. NoEvent \in Event \cup {NoEvent}
  OBVIOUS
<1>3. CASE Repeat(c, k)
  <2>1. k \in Keys
    BY <1>3 DEF Repeat, OnCooldown, Keyed
  <2>2. seen' \in [Keys -> Entry]
    BY <1>0, <1>3, <2>1 DEF Repeat, Entry
  <2>3. calls' \in [Callers \cup {Flusher} -> Call]
    BY <1>3, <1>2, LeaveTypes DEF Repeat
  <2>4. missed' \in [Keys -> Nat]
    BY <1>3, <2>1 DEF Repeat, TypeOK
  <2> QED
    BY <1>0, <1>1, <1>3, <2>2, <2>3, <2>4 DEF Repeat, TypeOK
<1>4. CASE Suppress(c, k)
  <2>1. calls' \in [Callers \cup {Flusher} -> Call]
    BY <1>4, <1>2, LeaveTypes DEF Suppress
  <2> QED
    BY <1>0, <1>1, <1>4, <2>1 DEF Suppress, TypeOK
<1>5. CASE Pass(c, k)
  <2>1. seen' \in [Keys -> Entry]
    BY <1>0, <1>5 DEF Pass, TypeOK, Entry, Keyed
  <2>2. [key     |-> k,
         repeats |-> IF Keyed(k) THEN Purged[k].repeats ELSE 0,
         at      |-> clock] \in Event
    BY <1>0 DEF Event, Entry, Keyed, TypeOK
  <2>3. calls' \in [Callers \cup {Flusher} -> Call]
    BY <1>5, <2>2, LeaveTypes DEF Pass
  <2>4. lastPass' \in [Keys -> Nat] /\ missed' \in [Keys -> Nat]
    BY <1>0, <1>5 DEF Pass, TypeOK
  <2>5. passes' \in Seq(Nat)
    BY <1>0, <1>5 DEF Pass, TypeOK
  <2>6. sent' \in Nat /\ suppressed' \in Nat /\ dropped' \in Nat
    BY <1>0, <1>5 DEF Pass, TypeOK
  <2> QED
    BY <1>1, <2>1, <2>3, <2>4, <2>5, <2>6 DEF TypeOK
<1> QED
  BY <1>3, <1>4, <1>5 DEF Pitch

(* Type correctness of Throttle: every variable keeps its type, whatever    *)
(* the callers, the flusher, the ticker and ctx do.                         *)
THEOREM TypeCorrect == Spec => []TypeOK
<1>1. Init => TypeOK
  <2> SUFFICES ASSUME Init PROVE TypeOK
    OBVIOUS
  <2>1. seen \in [Keys -> Entry]
    BY DEF Init, Absent, Entry
  <2>2. calls \in [Callers \cup {Flusher} -> Call]
    BY DEF Init, Idle, Call
  <2>3. tickAt \in Nat
    BY ThrottleAssumption DEF Init, ThrottleAssumption
  <2>4. (Max > 0) \in BOOLEAN
    OBVIOUS
  <2>5. running \in BOOLEAN
    BY <2>4, Zenon DEF Init
  <2> QED
    <3>1. /\ clock \in Nat /\ windowEnd \in Nat /\ sent \in Nat /\ suppressed \in Nat
          /\ pitches \in Nat /\ dropped \in Nat /\ told \in Nat
          /\ lastPass \in [Keys -> Nat] /\ missed \in [Keys -> Nat]
          /\ arrived \in [Keys -> Nat]
      BY DEF Init
    <3>2. tickReady \in BOOLEAN /\ cancelled \in BOOLEAN
      BY DEF Init
    <3>3. passes \in Seq(Nat)
      BY DEF Init
    <3> QED
      BY <2>1, <2>2, <2>3, <2>5, <3>1, <3>2, <3>3 DEF TypeOK
<1>2. TypeOK /\ [Next]_vars => TypeOK'
  <2> SUFFICES ASSUME TypeOK, [Next]_vars PROVE TypeOK'
    OBVIOUS
  <2>1. ASSUME NEW c \in Callers, NEW k \in Keys \cup {NoKey}, Pitch(c, k) PROVE TypeOK'
    BY <2>1, PitchTypes
  <2>2. ASSUME NEW c \in Callers \cup {Flusher}, SendSummary(c) PROVE TypeOK'
    BY <2>2 DEF SendSummary, TypeOK, Call, program, ticker, history
  <2>3. ASSUME NEW c \in Callers, NEW ok \in BOOLEAN, SendEvent(c, ok) PROVE TypeOK'
    <3>1. calls[c].event \in Event /\ calls[c].event.at \in Nat
      BY <2>3 DEF SendEvent, TypeOK, Call, Event
    <3>2. arrived' \in [Keys -> Nat]
      BY <2>3, <3>1 DEF SendEvent, TypeOK
    <3>3. calls' \in [Callers \cup {Flusher} -> Call]
      BY <2>3 DEF SendEvent, TypeOK, Call
    <3> QED
      BY <2>3, <3>2, <3>3 DEF SendEvent, TypeOK, program, ticker, history
  <2>4. CASE TickerFires
    BY <2>4, ThrottleAssumption DEF TickerFires, TypeOK, program, history, ThrottleAssumption
  <2>5. CASE Flush
    <3>1. calls' \in [Callers \cup {Flusher} -> Call]
      BY <2>5, LeaveTypes DEF Flush
    <3> QED
      BY <2>5, <3>1, ClosedTypes, CloseWindowTypes DEF Flush, TypeOK
  <2>6. CASE RunReturns
    BY <2>6 DEF RunReturns, TypeOK, program, history
  <2>7. CASE Cancel
    BY <2>7 DEF Cancel, TypeOK, program, history
  <2>8. CASE Tick
    BY <2>8 DEF Tick, TypeOK, program, ticker, history
  <2>9. CASE UNCHANGED vars
    BY <2>9 DEF vars, TypeOK, program, ticker, history
  <2> QED
    BY <2>1, <2>2, <2>3, <2>4, <2>5, <2>6, <2>7, <2>8, <2>9 DEF Next
<1> QED
  BY <1>1, <1>2, PTL DEF Spec

-----------------------------------------------------------------------------
(* What the steps do to the state the invariants are about.                 *)

(* Every step either is a pitch, or a flush, or leaves the throttle and its *)
(* history alone while the clock may go on.                                 *)
LEMMA StepKinds ==
  ASSUME [Next]_vars
  PROVE  \/ \E c \in Callers, k \in Keys \cup {NoKey} : Pitch(c, k)
         \/ Flush
         \/ /\ clock' = clock \/ clock' = clock + 1
            /\ UNCHANGED <<program, lastPass, missed, dropped, told, passes>>
  BY DEF Next, vars, program, history, ticker, SendSummary, SendEvent, TickerFires,
         RunReturns, Cancel, Tick

-----------------------------------------------------------------------------
(* The rate limit's accounts.                                               *)

(* Each of the outcomes of Pitch leaves the counters and the cooldowns as   *)
(* closeWindow does, or as one pass or one drop more.                       *)
LEMMA CounterSteps ==
  ASSUME NEW c \in Callers, NEW k \in Keys \cup {NoKey}, Pitch(c, k)
  PROVE  /\ CloseWindow
         /\ clock' = clock
         /\ \/ /\ sent' = SentNow
               /\ suppressed' = SuppressedNow
               /\ UNCHANGED <<dropped, passes>>
            \/ /\ OverLimit
               /\ sent' = SentNow
               /\ suppressed' = SuppressedNow + 1
               /\ dropped' = dropped + 1
               /\ UNCHANGED passes
            \/ /\ ~OverLimit
               /\ sent' = IF Max > 0 THEN SentNow + 1 ELSE SentNow
               /\ suppressed' = SuppressedNow
               /\ passes' = Append(passes, clock)
               /\ UNCHANGED dropped
  BY DEF Pitch, Repeat, Suppress, Pass

(* The budget: the counters never exceed the limit, and are not used        *)
(* without one.  SuppressedOnlyWhenSpent is inductive only with it.         *)
Budget ==
  /\ sent <= Max
  /\ Max = 0 => suppressed = 0
  /\ SuppressedOnlyWhenSpent

(* Every drop of the rate limit is counted once: in the window it happened, *)
(* or in the summary that closed it.                                        *)
THEOREM DropsAccounted == Spec => []SuppressedAccounted
<1>1. Init => SuppressedAccounted
  BY DEF Init, SuppressedAccounted
<1>2. TypeOK /\ SuppressedAccounted /\ [Next]_vars => SuppressedAccounted'
  <2> SUFFICES ASSUME TypeOK, SuppressedAccounted, [Next]_vars PROVE SuppressedAccounted'
    OBVIOUS
  <2>1. suppressed \in Nat /\ told \in Nat /\ dropped \in Nat
    BY DEF TypeOK
  <2>2. SuppressedNow + Summarized = suppressed
    BY <2>1 DEF SuppressedNow, Summarized
  <2>3. SuppressedNow \in Nat /\ Summarized \in Nat
    BY <2>1 DEF SuppressedNow, Summarized
  <2>4. ASSUME NEW c \in Callers, NEW k \in Keys \cup {NoKey}, Pitch(c, k)
        PROVE SuppressedAccounted'
    BY <2>1, <2>2, <2>3, <2>4, CounterSteps DEF SuppressedAccounted, CloseWindow
  <2>5. CASE Flush
    BY <2>1, <2>2, <2>3, <2>5 DEF SuppressedAccounted, Flush, CloseWindow
  <2>6. CASE UNCHANGED <<program, lastPass, missed, dropped, told, passes>>
    BY <2>6 DEF SuppressedAccounted, program
  <2> QED
    BY <2>4, <2>5, <2>6, StepKinds
<1> QED
  BY <1>1, <1>2, TypeCorrect, PTL DEF Spec

LEMMA BudgetAlways == Spec => []Budget
<1>1. Init => Budget
  BY ThrottleAssumption DEF Init, Budget, SuppressedOnlyWhenSpent, ThrottleAssumption
<1>2. TypeOK /\ Budget /\ [Next]_vars => Budget'
  <2> SUFFICES ASSUME TypeOK, Budget, [Next]_vars PROVE Budget'
    OBVIOUS
  <2>1. sent \in Nat /\ suppressed \in Nat /\ Max \in Nat
    BY ThrottleAssumption DEF TypeOK, ThrottleAssumption
  <2>2. /\ SentNow \in Nat /\ SentNow <= Max
        /\ SuppressedNow \in Nat
        /\ Max = 0 => SuppressedNow = 0
        /\ SuppressedNow > 0 => SentNow = Max
    BY <2>1 DEF SentNow, SuppressedNow, Budget, SuppressedOnlyWhenSpent
  <2>3. ASSUME NEW c \in Callers, NEW k \in Keys \cup {NoKey}, Pitch(c, k) PROVE Budget'
    BY <2>1, <2>2, <2>3, CounterSteps DEF Budget, SuppressedOnlyWhenSpent, OverLimit
  <2>4. CASE Flush
    BY <2>1, <2>2, <2>4 DEF Budget, SuppressedOnlyWhenSpent, Flush
  <2>5. CASE UNCHANGED <<program, lastPass, missed, dropped, told, passes>>
    BY <2>5 DEF Budget, SuppressedOnlyWhenSpent, program
  <2> QED
    BY <2>3, <2>4, <2>5, StepKinds
<1> QED
  BY <1>1, <1>2, TypeCorrect, PTL DEF Spec

(* Nothing is suppressed in a window that has budget left.                  *)
THEOREM BudgetSpentFirst == Spec => []SuppressedOnlyWhenSpent
<1>1. Budget => SuppressedOnlyWhenSpent
  BY DEF Budget
<1> QED
  BY <1>1, BudgetAlways, PTL

-----------------------------------------------------------------------------
(* The rate limit over time.                                                *)

LEMMA LaterBound ==
  ASSUME NEW a \in Nat, NEW b \in Nat, NEW c \in Nat, NEW d \in Nat, a <= b + d, b <= c
  PROVE  a <= c + d
  OBVIOUS

(* The clock has started, and every pass lies in the past.                  *)
PastPasses == clock >= 1 /\ \A j \in 1 .. Len(passes) : passes[j] <= clock

(* WindowMemory as closeWindow leaves it, before the pass or drop that      *)
(* follows: a window is open, and its passes are the last SentNow ones.     *)
LEMMA ClosedWindowMemory ==
  ASSUME TypeOK, PastPasses, WindowMemory, CloseWindow, Max > 0
  PROVE  /\ SentNow \in Nat /\ SentNow <= Max
         /\ windowEnd' \in Nat /\ windowEnd' # 0 /\ windowEnd' <= clock + Per
         /\ \A j \in 1 .. Len(passes) :
              /\ j <= Len(passes) - SentNow => passes[j] + Per <= windowEnd'
              /\ j <= Len(passes) - SentNow - Max => passes[j] + 2 * Per <= windowEnd'
<1>1. /\ clock \in Nat /\ windowEnd \in Nat /\ sent \in Nat /\ Max \in Nat
      /\ Per \in Nat /\ Per > 0 /\ Len(passes) \in Nat
      /\ \A j \in 1 .. Len(passes) : passes[j] \in Nat
  BY ThrottleAssumption DEF TypeOK, ThrottleAssumption
<1>2. /\ sent <= Max
      /\ windowEnd <= clock + Per
      /\ \A j \in 1 .. Len(passes) :
           /\ windowEnd # 0
           /\ j <= Len(passes) - sent => passes[j] + Per <= windowEnd
           /\ j <= Len(passes) - sent - Max => passes[j] + 2 * Per <= windowEnd
  BY DEF WindowMemory
<1>3. CASE WindowOver
  <2>1. SentNow = 0 /\ windowEnd' = clock + Per /\ windowEnd <= clock
    BY <1>3 DEF SentNow, WindowOver, CloseWindow
  <2>2. ASSUME NEW j \in 1 .. Len(passes)
        PROVE  /\ j <= Len(passes) - SentNow => passes[j] + Per <= windowEnd'
               /\ j <= Len(passes) - SentNow - Max => passes[j] + 2 * Per <= windowEnd'
    <3>1. passes[j] <= clock /\ passes[j] \in Nat
      BY <1>1 DEF PastPasses
    <3>2. j <= Len(passes) - Max => passes[j] + Per <= windowEnd
      BY <1>1, <1>2
    <3> QED
      BY <1>1, <2>1, <3>1, <3>2
  <2> QED
    BY <1>1, <2>1, <2>2
<1>4. CASE ~WindowOver /\ windowEnd # 0
  BY <1>1, <1>2, <1>4 DEF SentNow, CloseWindow
<1>5. CASE ~WindowOver /\ windowEnd = 0
  <2>1. 1 .. Len(passes) = {}
    BY <1>2, <1>5
  <2> QED
    BY <1>1, <1>2, <1>5, <2>1 DEF SentNow, CloseWindow
<1> QED
  BY <1>3, <1>4, <1>5

(* The part of WindowMemory and SlidingBound that speaks of the j-th pass,  *)
(* for the pass that is appended.                                           *)
LEMMA AppendedPass ==
  ASSUME TypeOK, passes' = Append(passes, clock)
  PROVE  /\ Len(passes') = Len(passes) + 1
         /\ passes'[Len(passes) + 1] = clock
         /\ \A j \in 1 .. Len(passes) : passes'[j] = passes[j]
         /\ Len(passes) \in Nat
         /\ \A j \in 1 .. Len(passes) : passes[j] \in Nat
  BY DEF TypeOK

Sliding == PastPasses /\ WindowMemory /\ SlidingBound

LEMMA PitchKeepsSliding ==
  ASSUME TypeOK, Sliding, NEW c \in Callers, NEW k \in Keys \cup {NoKey}, Pitch(c, k)
  PROVE  Sliding'
<1>1. /\ clock \in Nat /\ windowEnd \in Nat /\ sent \in Nat /\ Max \in Nat
      /\ Per \in Nat /\ Per > 0 /\ Len(passes) \in Nat
      /\ \A j \in 1 .. Len(passes) : passes[j] \in Nat
  BY ThrottleAssumption DEF TypeOK, ThrottleAssumption
<1>2. CloseWindow /\ clock' = clock
  BY CounterSteps
<1>3. Max > 0 =>
        /\ SentNow \in Nat /\ SentNow <= Max
        /\ windowEnd' \in Nat /\ windowEnd' # 0 /\ windowEnd' <= clock + Per
        /\ \A j \in 1 .. Len(passes) :
             /\ j <= Len(passes) - SentNow => passes[j] + Per <= windowEnd'
             /\ j <= Len(passes) - SentNow - Max => passes[j] + 2 * Per <= windowEnd'
  BY <1>2, ClosedWindowMemory DEF Sliding
<1>4. CASE UNCHANGED passes /\ sent' = SentNow
  <2>1. PastPasses' /\ SlidingBound'
    BY <1>2, <1>4 DEF Sliding, PastPasses, SlidingBound
  <2>2. WindowMemory'
    BY <1>2, <1>3, <1>4 DEF WindowMemory
  <2> QED
    BY <2>1, <2>2 DEF Sliding
<1>5. CASE /\ ~OverLimit
           /\ sent' = IF Max > 0 THEN SentNow + 1 ELSE SentNow
           /\ passes' = Append(passes, clock)
  <2>1. /\ Len(passes') = Len(passes) + 1
        /\ passes'[Len(passes) + 1] = clock
        /\ \A j \in 1 .. Len(passes) : passes'[j] = passes[j]
    BY <1>5, AppendedPass
  <2>2. PastPasses'
    BY <1>1, <1>2, <2>1 DEF Sliding, PastPasses
  <2>3. Max > 0 => SentNow < Max /\ sent' = SentNow + 1
    BY <1>1, <1>3, <1>5 DEF OverLimit
  <2>4. WindowMemory'
    <3> SUFFICES ASSUME Max > 0
                 PROVE  /\ sent' <= Max
                        /\ windowEnd' <= clock' + Per
                        /\ \A j \in 1 .. Len(passes') :
                             /\ windowEnd' # 0
                             /\ j <= Len(passes') - sent' => passes'[j] + Per <= windowEnd'
                             /\ j <= Len(passes') - sent' - Max =>
                                  passes'[j] + 2 * Per <= windowEnd'
      BY DEF WindowMemory
    <3>1. Len(passes') - sent' = Len(passes) - SentNow
      BY <1>1, <1>3, <2>1, <2>3
    <3>2. ASSUME NEW j \in 1 .. Len(passes'), j <= Len(passes) - SentNow
          PROVE  j \in 1 .. Len(passes)
      BY <1>1, <1>3, <3>2
    <3> QED
      BY <1>1, <1>2, <1>3, <2>1, <2>3, <3>1, <3>2
  <2>5. SlidingBound'
    <3> SUFFICES ASSUME Max > 0, NEW i \in 1 .. Len(passes'), i + 2 * Max <= Len(passes')
                 PROVE  passes'[i + 2 * Max] - passes'[i] >= Per
      BY DEF SlidingBound
    <3>1. CASE i + 2 * Max <= Len(passes)
      <4>1. i \in 1 .. Len(passes) /\ i + 2 * Max \in 1 .. Len(passes)
        BY <1>1, <2>1, <3>1
      <4>2. passes[i + 2 * Max] - passes[i] >= Per
        BY <3>1, <4>1 DEF Sliding, SlidingBound
      <4> QED
        BY <2>1, <4>1, <4>2
    <3>2. CASE i + 2 * Max = Len(passes) + 1
      <4>1. i \in 1 .. Len(passes) /\ i <= Len(passes) - SentNow - Max
        BY <1>1, <1>3, <2>1, <2>3, <3>2
      <4>2. passes[i] + 2 * Per <= clock + Per
        BY <1>1, <1>3, <4>1
      <4>3. passes'[i + 2 * Max] = clock /\ passes'[i] = passes[i] /\ passes[i] \in Nat
        BY <1>1, <2>1, <3>2, <4>1
      <4> QED
        BY <1>1, <4>2, <4>3
    <3> QED
      BY <1>1, <2>1, <3>1, <3>2
  <2> QED
    BY <2>2, <2>4, <2>5 DEF Sliding
<1> QED
  BY <1>4, <1>5, CounterSteps

(* WindowMemory is inductive together with the fact that passes lie in the  *)
(* past, and SlidingBound is kept with it: a pass 2 * Max after another is  *)
(* made at least two windows later.                                         *)
LEMMA SlidingAlways == Spec => []Sliding
<1>1. Init => Sliding
  BY ThrottleAssumption DEF Init, Sliding, PastPasses, WindowMemory, SlidingBound,
     ThrottleAssumption
<1>2. TypeOK /\ Sliding /\ [Next]_vars => Sliding'
  <2> SUFFICES ASSUME TypeOK, Sliding, [Next]_vars PROVE Sliding'
    OBVIOUS
  <2>1. ASSUME NEW c \in Callers, NEW k \in Keys \cup {NoKey}, Pitch(c, k) PROVE Sliding'
    BY <2>1, PitchKeepsSliding
  <2>2. CASE Flush
    <3>1. CloseWindow /\ UNCHANGED <<clock, passes>> /\ sent' = SentNow
      BY <2>2 DEF Flush
    <3>2. PastPasses' /\ SlidingBound'
      BY <3>1 DEF Sliding, PastPasses, SlidingBound
    <3>3. WindowMemory'
      BY <3>1, ClosedWindowMemory DEF Sliding, WindowMemory
    <3> QED
      BY <3>2, <3>3 DEF Sliding
  <2>3. CASE /\ clock' = clock \/ clock' = clock + 1
             /\ UNCHANGED <<program, lastPass, missed, dropped, told, passes>>
    <3>1. /\ clock \in Nat /\ Max \in Nat /\ Per \in Nat /\ windowEnd \in Nat
          /\ clock' \in Nat /\ clock <= clock'
      BY <2>3, ThrottleAssumption DEF TypeOK, ThrottleAssumption
    <3>2. UNCHANGED <<passes, sent, windowEnd>>
      BY <2>3 DEF program
    <3>3. \A j \in 1 .. Len(passes) : passes[j] \in Nat
      BY DEF TypeOK
    <3>4. PastPasses' /\ SlidingBound'
      BY <3>1, <3>2, <3>3 DEF Sliding, PastPasses, SlidingBound
    <3>5. WindowMemory'
      <4>1. Max > 0 => windowEnd <= clock + Per
        BY DEF Sliding, WindowMemory
      <4>2. ASSUME windowEnd <= clock + Per PROVE windowEnd' <= clock' + Per
        <5>1. windowEnd' = windowEnd
          BY <3>2
        <5>2. windowEnd <= clock' + Per
          BY <3>1, <4>2, LaterBound
        <5> QED
          BY <5>1, <5>2
      <4> QED
        BY <3>2, <4>1, <4>2 DEF Sliding, WindowMemory
    <3> QED
      BY <3>4, <3>5 DEF Sliding
  <2> QED
    BY <2>1, <2>2, <2>3, StepKinds
<1> QED
  BY <1>1, <1>2, TypeCorrect, PTL DEF Spec

(* The counters are an exact memory of the last two windows.                *)
THEOREM WindowsRemembered == Spec => []WindowMemory
<1>1. Sliding => WindowMemory
  BY DEF Sliding
<1> QED
  BY <1>1, SlidingAlways, PTL

(* No span of length Per holds more than 2 * Max passes.                    *)
THEOREM AtMostTwoWindows == Spec => []SlidingBound
<1>1. Sliding => SlidingBound
  BY DEF Sliding
<1> QED
  BY <1>1, SlidingAlways, PTL

-----------------------------------------------------------------------------
(* The cooldowns.                                                           *)

(* What makes CooldownMemory inductive: the clock has started, passes lie   *)
(* in the past, and nothing is missed before the first.                     *)
Cooldowns ==
  /\ clock >= 1
  /\ \A k \in Keys : lastPass[k] <= clock /\ (lastPass[k] = 0 => missed[k] = 0)
  /\ CooldownMemory

(* Forgetting old keys leaves an exact memory, of fewer keys.               *)
LEMMA PurgedMemory ==
  ASSUME TypeOK, Cooldowns, NEW k \in Keys
  PROVE  IF Purged[k] = Absent
         THEN lastPass[k] = 0 \/ clock - lastPass[k] >= 2 * Cooldown
         ELSE Purged[k] = [last |-> lastPass[k], repeats |-> missed[k]]
<1>0. /\ clock \in Nat /\ lastPass[k] \in Nat /\ seen[k].last \in Nat /\ Cooldown \in Nat
  BY ThrottleAssumption DEF TypeOK, Entry, ThrottleAssumption
<1>1. CASE Purged[k] = seen[k]
  BY <1>1 DEF Cooldowns, CooldownMemory
<1>2. CASE Purged[k] # seen[k]
  <2>1. Purged[k] = Absent /\ seen[k] # Absent /\ clock - seen[k].last >= 2 * Cooldown
    BY <1>2 DEF Purged
  <2>2. seen[k].last = lastPass[k]
    <3>1. seen[k] = [last |-> lastPass[k], repeats |-> missed[k]]
      BY <2>1 DEF Cooldowns, CooldownMemory
    <3> QED
      BY <3>1
  <2>3. clock - lastPass[k] >= 2 * Cooldown
    BY <1>0, <2>1, <2>2
  <2> QED
    BY <2>1, <2>3
<1> QED
  BY <1>1, <1>2

(* The memory of a key that is on cooldown, and of one that is not.         *)
LEMMA OnCooldownMemory ==
  ASSUME TypeOK, Cooldowns, NEW k \in Keys, OnCooldown(k)
  PROVE  /\ Purged[k] = [last |-> lastPass[k], repeats |-> missed[k]]
         /\ lastPass[k] # 0
         /\ clock - lastPass[k] < Cooldown
<1>1. Purged[k] # Absent /\ clock - Purged[k].last < Cooldown
  BY DEF OnCooldown
<1>2. Purged[k] = [last |-> lastPass[k], repeats |-> missed[k]]
  BY <1>1, PurgedMemory
<1>3. lastPass[k] = 0 => missed[k] = 0
  BY DEF Cooldowns
<1> QED
  BY <1>1, <1>2, <1>3 DEF Absent

LEMMA OffCooldownMemory ==
  ASSUME TypeOK, Cooldowns, NEW k \in Keys, ~OnCooldown(k)
  PROVE  lastPass[k] = 0 \/ clock - lastPass[k] >= Cooldown
<1>1. /\ clock \in Nat /\ lastPass[k] \in Nat /\ Cooldown \in Nat /\ lastPass[k] <= clock
  BY ThrottleAssumption DEF TypeOK, Cooldowns, ThrottleAssumption
<1>2. CASE Cooldown = 0
  BY <1>1, <1>2
<1>3. CASE Cooldown > 0 /\ Purged[k] = Absent
  <2>1. lastPass[k] = 0 \/ clock - lastPass[k] >= 2 * Cooldown
    BY <1>3, PurgedMemory
  <2> QED
    BY <1>1, <2>1
<1>4. CASE Cooldown > 0 /\ Purged[k] # Absent
  <2>1. ~(clock - Purged[k].last < Cooldown)
    BY <1>4 DEF OnCooldown, Keyed
  <2>2. Purged[k].last = lastPass[k]
    <3>1. Purged[k] = [last |-> lastPass[k], repeats |-> missed[k]]
      BY <1>4, PurgedMemory
    <3> QED
      BY <3>1
  <2>3. ~(clock - lastPass[k] < Cooldown)
    BY <1>1, <2>1, <2>2
  <2> QED
    BY <1>1, <2>3
<1> QED
  BY <1>1, <1>2, <1>3, <1>4

LEMMA CooldownsInit == Init => Cooldowns
  BY DEF Init, Cooldowns, CooldownMemory, Absent

LEMMA PitchKeepsCooldowns ==
  ASSUME TypeOK, Cooldowns, NEW c \in Callers, NEW k \in Keys \cup {NoKey}, Pitch(c, k)
  PROVE  Cooldowns'
<1>1. clock' = clock /\ clock \in Nat /\ clock >= 1
  BY DEF Pitch, TypeOK, Cooldowns
<1>2. ASSUME NEW j \in Keys
      PROVE  /\ lastPass[j] \in Nat /\ missed[j] \in Nat
             /\ lastPass[j] <= clock
             /\ lastPass[j] = 0 => missed[j] = 0
             /\ Purged[j] \in Entry
  BY ClosedTypes DEF TypeOK, Cooldowns
<1>3. ASSUME NEW j \in Keys, seen'[j] = Purged[j], UNCHANGED <<lastPass[j], missed[j]>>
      PROVE  IF seen'[j] = Absent
             THEN lastPass'[j] = 0 \/ clock' - lastPass'[j] >= 2 * Cooldown
             ELSE seen'[j] = [last |-> lastPass'[j], repeats |-> missed'[j]]
  BY <1>1, <1>3, PurgedMemory
<1>4. CASE Repeat(c, k)
  <2>1. k \in Keys /\ UNCHANGED lastPass
    BY <1>4 DEF Repeat, OnCooldown, Keyed
  <2>2. /\ Purged[k] = [last |-> lastPass[k], repeats |-> missed[k]]
        /\ lastPass[k] # 0
    BY <1>4, <2>1, OnCooldownMemory DEF Repeat
  <2>3. Purged \in [Keys -> Entry]
    BY ClosedTypes
  <2>4. /\ seen'[k] = [last |-> lastPass[k], repeats |-> missed[k] + 1]
        /\ missed'[k] = missed[k] + 1
        /\ \A j \in Keys \ {k} : seen'[j] = Purged[j] /\ missed'[j] = missed[j]
    BY <1>4, <2>1, <2>2, <2>3 DEF Repeat, TypeOK
  <2>5. seen'[k] # Absent
    BY <1>2, <2>1, <2>2, <2>4 DEF Absent
  <2>6. ASSUME NEW j \in Keys
        PROVE  IF seen'[j] = Absent
               THEN lastPass'[j] = 0 \/ clock' - lastPass'[j] >= 2 * Cooldown
               ELSE seen'[j] = [last |-> lastPass'[j], repeats |-> missed'[j]]
    <3>1. CASE j = k
      BY <2>1, <2>4, <2>5, <3>1
    <3>2. CASE j # k
      BY <1>3, <2>1, <2>4, <3>2
    <3> QED
      BY <3>1, <3>2
  <2>7. \A j \in Keys : lastPass'[j] <= clock' /\ (lastPass'[j] = 0 => missed'[j] = 0)
    BY <1>1, <1>2, <2>1, <2>2, <2>4
  <2> QED
    BY <1>1, <2>6, <2>7 DEF Cooldowns, CooldownMemory
<1>5. CASE Suppress(c, k)
  BY <1>1, <1>2, <1>3, <1>5 DEF Suppress, Cooldowns, CooldownMemory
<1>6. CASE Pass(c, k)
  <2>1. \A j \in Keys : /\ lastPass'[j] = IF j = k THEN clock ELSE lastPass[j]
                        /\ missed'[j] = IF j = k THEN 0 ELSE missed[j]
    BY <1>6 DEF Pass
  <2>2. \A j \in Keys \ {k} : seen'[j] = Purged[j]
    BY <1>6, ClosedTypes DEF Pass
  <2>3. \A j \in Keys : lastPass'[j] <= clock' /\ (lastPass'[j] = 0 => missed'[j] = 0)
    BY <1>1, <1>2, <2>1
  <2>4. ASSUME NEW j \in Keys
        PROVE  IF seen'[j] = Absent
               THEN lastPass'[j] = 0 \/ clock' - lastPass'[j] >= 2 * Cooldown
               ELSE seen'[j] = [last |-> lastPass'[j], repeats |-> missed'[j]]
    <3>1. CASE j # k
      BY <1>3, <2>1, <2>2, <3>1
    <3>2. CASE j = k /\ Keyed(k)
      <4>1. seen'[j] = [last |-> clock, repeats |-> 0]
        BY <1>6, <3>2, ClosedTypes DEF Pass
      <4> QED
        BY <1>1, <2>1, <3>2, <4>1 DEF Absent
    <3>3. CASE j = k /\ ~Keyed(k)
      <4>1. Cooldown = 0
        BY <3>3, ThrottleAssumption DEF Keyed, ThrottleAssumption
      <4>2. clock - Purged[j].last >= 0 => Purged[j] = Absent
        BY <4>1, <1>1 DEF Purged, Absent
      <4>3. seen'[j] = Absent
        <5>1. ASSUME Purged[j] # Absent PROVE Purged[j].last = lastPass[j]
          <6>1. Purged[j] = [last |-> lastPass[j], repeats |-> missed[j]]
            BY <5>1, PurgedMemory
          <6> QED
            BY <6>1
        <5>2. QED
          <6>1. seen'[j] = Purged[j]
            BY <1>6, <3>3 DEF Pass
          <6>2. Purged[j] # Absent => Purged[j].last <= clock /\ Purged[j].last \in Nat
            BY <1>2, <5>1
          <6>3. Purged[j] = Absent
            BY <1>1, <4>2, <6>2
          <6> QED
            BY <6>1, <6>3
      <4> QED
        BY <1>1, <2>1, <3>3, <4>1, <4>3
    <3> QED
      BY <3>1, <3>2, <3>3
  <2> QED
    BY <1>1, <2>3, <2>4 DEF Cooldowns, CooldownMemory
<1> QED
  BY <1>4, <1>5, <1>6 DEF Pitch

LEMMA CooldownsStep ==
  TypeOK /\ Cooldowns /\ [Next]_vars => Cooldowns'
<1> SUFFICES ASSUME TypeOK, Cooldowns, [Next]_vars PROVE Cooldowns'
  OBVIOUS
<1>1. ASSUME NEW c \in Callers, NEW k \in Keys \cup {NoKey}, Pitch(c, k) PROVE Cooldowns'
  BY <1>1, PitchKeepsCooldowns
<1>2. CASE Flush
  BY <1>2, PurgedMemory DEF Flush, Cooldowns, CooldownMemory
<1>3. CASE /\ clock' = clock \/ clock' = clock + 1
           /\ UNCHANGED <<program, lastPass, missed, dropped, told, passes>>
  <2>1. /\ clock \in Nat /\ clock' >= clock /\ clock' \in Nat
        /\ \A k \in Keys : lastPass[k] \in Nat
    BY <1>3 DEF TypeOK
  <2> QED
    BY <1>3, <2>1, ThrottleAssumption
    DEF Cooldowns, CooldownMemory, program, ThrottleAssumption
<1> QED
  BY <1>1, <1>2, <1>3, StepKinds

(* p.seen is an exact memory of the cooldowns.                              *)
THEOREM SeenIsExact == Spec => []CooldownMemory
<1>1. Cooldowns => CooldownMemory
  BY DEF Cooldowns
<1> QED
  BY <1>1, CooldownsInit, CooldownsStep, TypeCorrect, PTL DEF Spec

(* The invariant of the cooldowns, once for the action properties.          *)
LEMMA CooldownsAlways == Spec => [](TypeOK /\ Cooldowns)
  BY CooldownsInit, CooldownsStep, TypeCorrect, PTL DEF Spec

(* Only a pitch changes the history of a key, and only that of its own.     *)
LEMMA HistorySteps ==
  ASSUME [Next]_vars, NEW k \in Keys,
         lastPass'[k] # lastPass[k] \/ missed'[k] # missed[k], TypeOK
  PROVE  \E c \in Callers :
           \/ Pass(c, k)
              /\ lastPass'[k] = clock /\ missed'[k] = 0
           \/ Repeat(c, k)
              /\ lastPass'[k] = lastPass[k] /\ missed'[k] = missed[k] + 1
<1>1. CASE \E c \in Callers, j \in Keys \cup {NoKey} : Pitch(c, j)
  <2>1. PICK c \in Callers, j \in Keys \cup {NoKey} : Pitch(c, j)
    BY <1>1
  <2>2. CASE Repeat(c, j)
    BY <2>2 DEF Repeat, TypeOK
  <2>3. CASE Suppress(c, j)
    BY <2>3 DEF Suppress
  <2>4. CASE Pass(c, j)
    BY <2>4 DEF Pass
  <2> QED
    BY <2>1, <2>2, <2>3, <2>4 DEF Pitch
<1>2. CASE Flush
  BY <1>2 DEF Flush
<1> QED
  BY <1>1, <1>2, StepKinds

(* Forgetting old keys never shortens a cooldown.                           *)
THEOREM CooldownsHold == Spec => CooldownSpacing
<1>1. TypeOK /\ Cooldowns /\ [Next]_vars =>
        [\A k \in Keys : lastPass'[k] # lastPass[k] =>
           lastPass[k] = 0 \/ lastPass'[k] - lastPass[k] >= Cooldown]_vars
  <2> SUFFICES ASSUME TypeOK, Cooldowns, [Next]_vars, NEW k \in Keys,
                      lastPass'[k] # lastPass[k]
               PROVE  lastPass[k] = 0 \/ lastPass'[k] - lastPass[k] >= Cooldown
    OBVIOUS
  <2>1. PICK c \in Callers : /\ Pass(c, k) /\ lastPass'[k] = clock
    BY HistorySteps
  <2>2. ~OnCooldown(k)
    BY <2>1 DEF Pass
  <2> QED
    BY <2>1, <2>2, OffCooldownMemory
<1> QED
  BY <1>1, CooldownsAlways, PTL DEF Spec, CooldownSpacing

(* No drop without a pass less than Cooldown ago.                           *)
THEOREM NothingSilenced == Spec => NoFalseSilence
<1>1. TypeOK /\ Cooldowns /\ [Next]_vars =>
        [\A k \in Keys : missed'[k] > missed[k] =>
           lastPass[k] # 0 /\ clock - lastPass[k] < Cooldown]_vars
  <2> SUFFICES ASSUME TypeOK, Cooldowns, [Next]_vars, NEW k \in Keys,
                      missed'[k] > missed[k]
               PROVE  lastPass[k] # 0 /\ clock - lastPass[k] < Cooldown
    OBVIOUS
  <2>1. missed[k] \in Nat /\ missed'[k] # missed[k]
    BY DEF TypeOK
  <2>2. PICK c \in Callers : \/ Pass(c, k) /\ missed'[k] = 0
                             \/ Repeat(c, k)
    BY <2>1, HistorySteps
  <2>3. CASE Repeat(c, k)
    <3>1. OnCooldown(k)
      BY <2>3 DEF Repeat
    <3> QED
      BY <3>1, OnCooldownMemory
  <2> QED
    BY <2>1, <2>2, <2>3
<1> QED
  BY <1>1, CooldownsAlways, PTL DEF Spec, NoFalseSilence

(* An event that leaves a call of Pitch is that of its key's pass.          *)
LEMMA EventSteps ==
  ASSUME TypeOK, [Next]_vars, NEW c \in Callers, calls[c].event = NoEvent,
         calls'[c].event # NoEvent
  PROVE  \E k \in Keys \cup {NoKey} :
           /\ Pass(c, k)
           /\ calls'[c].event = [key     |-> k,
                                 repeats |-> IF Keyed(k) THEN Purged[k].repeats ELSE 0,
                                 at      |-> clock]
<1> c \in Callers \cup {Flusher} /\ c # Flusher
  BY ThrottleAssumption DEF ThrottleAssumption
<1>1. CASE \E d \in Callers, k \in Keys \cup {NoKey} : Pitch(d, k)
  <2>1. PICK d \in Callers, k \in Keys \cup {NoKey} : Pitch(d, k)
    BY <1>1
  <2>2. ASSUME Leave(d, NoEvent) PROVE FALSE
    BY <2>2 DEF Leave, TypeOK
  <2>3. Pass(d, k)
    BY <2>1, <2>2 DEF Pitch, Repeat, Suppress
  <2>4. d = c
    BY <2>3 DEF Pass, Leave, TypeOK
  <2>5. calls'[c].event = [key     |-> k,
                           repeats |-> IF Keyed(k) THEN Purged[k].repeats ELSE 0,
                           at      |-> clock]
    BY <2>3, <2>4 DEF Pass, Leave, TypeOK
  <2> QED
    BY <2>3, <2>4, <2>5
<1>2. CASE \E d \in Callers \cup {Flusher} : SendSummary(d)
  BY <1>2 DEF SendSummary, TypeOK, Call
<1>3. CASE \E d \in Callers, ok \in BOOLEAN : SendEvent(d, ok)
  BY <1>3 DEF SendEvent, TypeOK, Call
<1>4. CASE Flush
  BY <1>4 DEF Flush, Leave, TypeOK
<1>5. CASE TickerFires \/ RunReturns \/ Cancel \/ Tick \/ UNCHANGED vars
  BY <1>5 DEF TickerFires, RunReturns, Cancel, Tick, vars
<1> QED
  BY <1>1, <1>2, <1>3, <1>4, <1>5 DEF Next

-----------------------------------------------------------------------------
(* What a count that is not yet announced waits for: the end of its window  *)
(* and the next tick, and both are near.                                    *)

Ticking ==
  /\ clock >= 1
  /\ tickAt <= clock + Interval
  /\ Max > 0 /\ ~cancelled => running
  /\ suppressed > 0 => windowEnd # 0

LEMMA TickingInit == Init => Ticking
<1> SUFFICES ASSUME Init PROVE Ticking
  OBVIOUS
<1>1. clock = 1 /\ tickAt = 1 + Interval /\ suppressed = 0 /\ Interval \in Nat
  BY ThrottleAssumption DEF Init, ThrottleAssumption
<1>2. Max > 0 => running
  BY Zenon DEF Init
<1> QED
  BY <1>1, <1>2 DEF Ticking

LEMMA TickingStep == TypeOK /\ Ticking /\ [Next]_vars => Ticking'
<1> SUFFICES ASSUME TypeOK, Ticking, [Next]_vars PROVE Ticking'
  OBVIOUS
<1> USE ThrottleAssumption DEF ThrottleAssumption, TypeOK
<1>1. ASSUME CloseWindow, clock' = clock, UNCHANGED <<tickAt, running, cancelled>>, Max > 0
      PROVE  Ticking'
  BY <1>1 DEF Ticking, CloseWindow
<1>2. ASSUME NEW c \in Callers, NEW k \in Keys \cup {NoKey}, Pitch(c, k) PROVE Ticking'
  <2>1. CloseWindow /\ clock' = clock /\ UNCHANGED <<tickAt, running, cancelled>>
    BY <1>2 DEF Pitch, ticker
  <2>2. CASE Max > 0
    BY <1>1, <2>1, <2>2
  <2>3. CASE ~(Max > 0)
    <3>1. suppressed' = suppressed /\ windowEnd' = windowEnd
      BY <1>2, <2>1, <2>3, CounterSteps DEF OverLimit, SuppressedNow, WindowOver, CloseWindow
    <3> QED
      BY <2>1, <3>1 DEF Ticking
  <2> QED
    BY <2>2, <2>3
<1>3. CASE Flush
  <2>1. CASE Max > 0
    BY <1>1, <1>3, <2>1 DEF Flush
  <2>2. CASE ~(Max > 0)
    BY <1>3, <2>2 DEF Flush, CloseWindow, SuppressedNow, WindowOver, Ticking
  <2> QED
    BY <2>1, <2>2
<1>4. CASE TickerFires
  BY <1>4 DEF TickerFires, program, Ticking
<1>5. CASE Tick
  BY <1>5 DEF Tick, program, ticker, Ticking
<1>6. CASE \/ \E c \in Callers \cup {Flusher} : SendSummary(c)
           \/ \E c \in Callers, ok \in BOOLEAN : SendEvent(c, ok)
           \/ RunReturns \/ Cancel \/ UNCHANGED vars
  BY <1>6 DEF SendSummary, SendEvent, RunReturns, Cancel, vars, program, ticker, history, Ticking
<1> QED
  BY <1>2, <1>3, <1>4, <1>5, <1>6 DEF Next

\* Run is there, and neither the window nor the ticker is out of step.
SummaryInReach ==
  suppressed > 0 /\ ~cancelled =>
    /\ running
    /\ windowEnd # 0 /\ windowEnd <= clock + Per
    /\ tickAt <= clock + Interval

(* A count of suppressed events that has no summary yet waits for the end   *)
(* of its window, at most Per away, and for a tick of a ticker that runs,   *)
(* at most Interval away: no burst moves either of them further off         *)
(* (closeWindow, Run).  What remains of its liveness is fairness.           *)
THEOREM SummaryComesNear == Spec => []SummaryInReach
<1>1. TypeOK /\ Ticking /\ Budget /\ WindowMemory => SummaryInReach
  BY ThrottleAssumption
     DEF ThrottleAssumption, TypeOK, Ticking, Budget, WindowMemory, SummaryInReach
<1> QED
  BY <1>1, TickingInit, TickingStep, TypeCorrect, BudgetAlways, WindowsRemembered, PTL DEF Spec

(* A flush after the end of a window leaves no count behind and remembers   *)
(* no key whose last pass is 2 * Cooldown ago, however long nothing was     *)
(* pitched (Flush, closeWindow).                                            *)
FlushLeavesNothing ==
  [][Flush =>
       /\ WindowOver => suppressed' = 0 /\ calls'[Flusher].summary = suppressed
       /\ \A k \in Keys : seen'[k] # Absent => clock - lastPass[k] < 2 * Cooldown]_vars

(* Each flush takes all that its window and the cooldowns have to give.    *)
THEOREM FlushForgetsAndTells == Spec => FlushLeavesNothing
<1>1. TypeOK /\ Cooldowns /\ [Next]_vars =>
        [Flush =>
          /\ WindowOver => suppressed' = 0 /\ calls'[Flusher].summary = suppressed
          /\ \A k \in Keys : seen'[k] # Absent => clock - lastPass[k] < 2 * Cooldown]_vars
  <2> SUFFICES ASSUME TypeOK, Cooldowns, Flush
               PROVE  /\ WindowOver => suppressed' = 0 /\ calls'[Flusher].summary = suppressed
                      /\ \A k \in Keys : seen'[k] # Absent => clock - lastPass[k] < 2 * Cooldown
    OBVIOUS
  <2>1. WindowOver => suppressed' = 0 /\ calls'[Flusher].summary = suppressed
    BY DEF Flush, Leave, SuppressedNow, Summarized, TypeOK
  <2>2. ASSUME NEW k \in Keys, seen'[k] # Absent PROVE clock - lastPass[k] < 2 * Cooldown
    <3>1. Purged[k] # Absent
      BY <2>2 DEF Flush
    <3>2. Purged[k] = seen[k] /\ seen[k] # Absent /\ ~(clock - seen[k].last >= 2 * Cooldown)
      BY <3>1 DEF Purged
    <3>3. seen[k].last = lastPass[k]
      <4>1. seen[k] = [last |-> lastPass[k], repeats |-> missed[k]]
        BY <3>2 DEF Cooldowns, CooldownMemory
      <4> QED
        BY <4>1
    <3> QED
      BY <3>2, <3>3, ThrottleAssumption DEF ThrottleAssumption, TypeOK
  <2> QED
    BY <2>1, <2>2
<1> QED
  BY <1>1, CooldownsAlways, PTL DEF Spec, FlushLeavesNothing

-----------------------------------------------------------------------------
(* What reaches p.next, as long as it fails nobody.                         *)

\* No send of an event fails: what it leaves is what a success leaves.
SendsSucceed == \A c \in Callers : SendEvent(c, FALSE) => SendEvent(c, TRUE)

InFlight(c, k) == calls[c].event # NoEvent /\ calls[c].event.key = k

\* The last pass of a key has arrived or is on its way; what is on its way may
\* be older, for callers overtake each other once they have released p.mu.
Delivered(k) ==
  /\ arrived[k] <= lastPass[k]
  /\ \A c \in Callers : InFlight(c, k) => calls[c].event.at <= lastPass[k]
  /\ lastPass[k] # 0 =>
       \/ arrived[k] = lastPass[k]
       \/ \E c \in Callers : InFlight(c, k) /\ calls[c].event.at = lastPass[k]

DeliveredInv == \A k \in Keys : Delivered(k)

LEMMA DeliveredInit == Init => DeliveredInv
<1> SUFFICES ASSUME Init, NEW k \in Keys PROVE Delivered(k)
  BY DEF DeliveredInv
<1>1. arrived[k] = 0 /\ lastPass[k] = 0 /\ \A c \in Callers : calls[c].event = NoEvent
  BY DEF Init, Idle
<1> QED
  BY <1>1 DEF Delivered, InFlight

LEMMA SameDelivered ==
  ASSUME NEW k \in Keys, Delivered(k), lastPass'[k] = lastPass[k], arrived'[k] = arrived[k],
         \A c \in Callers : calls'[c].event = calls[c].event
  PROVE  Delivered(k)'
  BY DEF Delivered, InFlight

LEMMA PitchDelivers ==
  ASSUME TypeOK, Cooldowns, NEW c \in Callers, NEW j \in Keys \cup {NoKey}, Pitch(c, j),
         NEW k \in Keys, Delivered(k)
  PROVE  Delivered(k)'
<1>1. calls[c].event = NoEvent /\ arrived' = arrived
  BY DEF Pitch, Idle
<1>2. CASE Repeat(c, j) \/ Suppress(c, j)
  <2>1. Leave(c, NoEvent) /\ lastPass' = lastPass
    BY <1>2 DEF Repeat, Suppress
  <2>2. \A d \in Callers : calls'[d].event = calls[d].event
    BY <1>1, <2>1 DEF Leave, TypeOK
  <2> QED
    BY <1>1, <2>1, <2>2, SameDelivered
<1>3. CASE Pass(c, j)
  <2> DEFINE e == [key |-> j, repeats |-> IF Keyed(j) THEN Purged[j].repeats ELSE 0, at |-> clock]
  <2>1. /\ calls'[c].event = e /\ e.key = j /\ e.at = clock
        /\ \A d \in Callers \ {c} : calls'[d] = calls[d]
        /\ lastPass'[k] = IF k = j THEN clock ELSE lastPass[k]
    BY <1>3 DEF Pass, Leave, TypeOK
  <2>2. e # NoEvent
    <3>1. Keyed(j) => Purged[j].repeats \in Nat
      BY ClosedTypes DEF Keyed, Entry
    <3>2. e \in Event
      BY <3>1 DEF Event, TypeOK
    <3> QED
      BY <3>2, NoEventAssumption
  <2> HIDE DEF e
  <2>3. /\ lastPass[k] <= clock /\ clock \in Nat /\ lastPass[k] \in Nat /\ arrived[k] \in Nat
        /\ \A d \in Callers : InFlight(d, k) => calls[d].event.at \in Nat
    BY DEF Cooldowns, TypeOK, InFlight, Call, Event
  <2>4. CASE k = j
    <3>1. arrived'[k] <= lastPass'[k]
      BY <1>1, <2>1, <2>3, <2>4 DEF Delivered
    <3>2. ASSUME NEW d \in Callers, InFlight(d, k)' PROVE calls'[d].event.at <= lastPass'[k]
      <4>1. CASE d = c
        BY <2>1, <2>3, <2>4, <4>1
      <4>2. CASE d # c
        <5>1. InFlight(d, k) /\ calls'[d] = calls[d]
          BY <2>1, <3>2, <4>2 DEF InFlight
        <5> QED
          BY <2>1, <2>3, <2>4, <5>1 DEF Delivered
      <4> QED
        BY <4>1, <4>2
    <3>3. InFlight(c, k)' /\ calls'[c].event.at = lastPass'[k]
      BY <2>1, <2>2, <2>4 DEF InFlight
    <3> QED
      BY <3>1, <3>2, <3>3 DEF Delivered
  <2>5. CASE k # j
    <3>1. ~InFlight(c, k) /\ ~InFlight(c, k)'
      BY <1>1, <2>1, <2>5 DEF InFlight
    <3>2. \A d \in Callers \ {c} : InFlight(d, k)' = InFlight(d, k) /\ calls'[d] = calls[d]
      BY <2>1 DEF InFlight
    <3> QED
      BY <1>1, <2>1, <2>5, <3>1, <3>2 DEF Delivered
  <2> QED
    BY <2>4, <2>5
<1> QED
  BY <1>2, <1>3 DEF Pitch

LEMMA SendDelivers ==
  ASSUME TypeOK, NEW c \in Callers, SendEvent(c, TRUE), NEW k \in Keys, Delivered(k)
  PROVE  Delivered(k)'
<1> DEFINE e == calls[c].event
<1>1. /\ e \in Event /\ e.at \in Nat /\ lastPass' = lastPass /\ calls'[c].event = NoEvent
      /\ \A d \in Callers \ {c} : calls'[d] = calls[d]
      /\ arrived'[k] = IF k = e.key /\ e.at > arrived[k] THEN e.at ELSE arrived[k]
      /\ arrived[k] \in Nat /\ lastPass[k] \in Nat
  BY DEF SendEvent, TypeOK, Call, Event, history
<1>2. InFlight(c, k) <=> e.key = k
  BY <1>1, NoEventAssumption DEF InFlight
<1>3. ~InFlight(c, k)' /\ \A d \in Callers \ {c} : InFlight(d, k)' = InFlight(d, k)
  BY <1>1 DEF InFlight
<1> HIDE DEF e
<1>4. e.key = k => e.at <= lastPass[k]
  BY <1>2 DEF Delivered, e
<1>5. arrived'[k] <= lastPass'[k]
  BY <1>1, <1>4 DEF Delivered
<1>6. \A d \in Callers : InFlight(d, k)' => calls'[d].event.at <= lastPass'[k]
  BY <1>1, <1>3 DEF Delivered
<1>7. ASSUME lastPass[k] # 0
      PROVE  \/ arrived'[k] = lastPass[k]
             \/ \E d \in Callers : InFlight(d, k)' /\ calls'[d].event.at = lastPass[k]
  <2>1. CASE arrived[k] = lastPass[k]
    BY <1>1, <1>4, <2>1
  <2>2. CASE e.key = k /\ e.at = lastPass[k]
    BY <1>1, <2>2 DEF Delivered
  <2>3. ASSUME NEW d \in Callers \ {c}, InFlight(d, k), calls[d].event.at = lastPass[k]
        PROVE  InFlight(d, k)' /\ calls'[d].event.at = lastPass[k]
    BY <1>1, <1>3, <2>3
  <2> QED
    BY <1>2, <1>7, <2>1, <2>2, <2>3 DEF Delivered, e
<1> QED
  BY <1>1, <1>5, <1>6, <1>7 DEF Delivered

LEMMA DeliveredStep ==
  TypeOK /\ Cooldowns /\ DeliveredInv /\ [Next]_vars /\ [SendsSucceed]_vars => DeliveredInv'
<1> SUFFICES ASSUME TypeOK, Cooldowns, [Next]_vars, [SendsSucceed]_vars, NEW k \in Keys,
                    Delivered(k)
             PROVE  Delivered(k)'
  BY DEF DeliveredInv
<1>1. ASSUME NEW c \in Callers, NEW j \in Keys \cup {NoKey}, Pitch(c, j) PROVE Delivered(k)'
  BY <1>1, PitchDelivers
<1>2. ASSUME NEW c \in Callers \cup {Flusher}, SendSummary(c) PROVE Delivered(k)'
  <2>1. /\ lastPass' = lastPass /\ arrived' = arrived
        /\ \A d \in Callers : calls'[d].event = calls[d].event
    BY <1>2 DEF SendSummary, history, TypeOK, Call
  <2> QED
    BY <2>1, SameDelivered
<1>3. ASSUME NEW c \in Callers, NEW ok \in BOOLEAN, SendEvent(c, ok) PROVE Delivered(k)'
  <2>1. calls'[c].event # calls[c].event
    BY <1>3 DEF SendEvent, TypeOK, Call
  <2>2. SendEvent(c, TRUE)
    BY <1>3, <2>1 DEF SendsSucceed, vars
  <2> QED
    BY <2>2, SendDelivers
<1>4. CASE Flush
  <2>1. \A d \in Callers : calls'[d] = calls[d]
    BY <1>4, ThrottleAssumption DEF Flush, Leave, TypeOK, ThrottleAssumption
  <2> QED
    BY <1>4, <2>1, SameDelivered DEF Flush
<1>5. CASE TickerFires \/ RunReturns \/ Cancel \/ Tick \/ UNCHANGED vars
  BY <1>5, SameDelivered DEF TickerFires, RunReturns, Cancel, Tick, vars, history
<1> QED
  BY <1>1, <1>2, <1>3, <1>4, <1>5 DEF Next

(* The comment of admit, "the cooldown only starts when the event is really *)
(* pitched", is broken by failing sends alone: without one, a key on        *)
(* cooldown has an event that p.next took or that is on its way, whoever    *)
(* overtakes whom after the unlock (admit, Pitch).                          *)
THEOREM FailedSendsAlone ==
  Spec /\ [][SendsSucceed]_vars => []CooldownFollowsPitch
<1>1. TypeOK /\ Cooldowns /\ DeliveredInv => CooldownFollowsPitch
  <2> SUFFICES ASSUME TypeOK, Cooldowns, NEW k \in Keys, Delivered(k), OnCooldown(k)
               PROVE  \/ arrived[k] = seen[k].last
                      \/ \E c \in Callers : /\ calls[c].event # NoEvent
                                            /\ calls[c].event.key = k
                                            /\ calls[c].event.at = seen[k].last
    BY DEF DeliveredInv, CooldownFollowsPitch
  <2>1. lastPass[k] # 0 /\ Purged[k] = [last |-> lastPass[k], repeats |-> missed[k]]
    BY OnCooldownMemory
  <2>2. Purged[k] = seen[k]
    BY DEF OnCooldown, Purged
  <2>3. seen[k].last = lastPass[k]
    BY <2>1, <2>2
  <2> QED
    BY <2>1, <2>3 DEF Delivered, InFlight
<1> QED
  BY <1>1, DeliveredInit, DeliveredStep, CooldownsAlways, PTL DEF Spec

(* The repeats an event carries are those since the last pass of its key,   *)
(* or that pass is at least 2 * Cooldown ago.                               *)
THEOREM RepeatsCounted == Spec => RepeatsExact
<1> DEFINE Counted ==
      \A c \in Callers :
        LET e == calls'[c].event
        IN  /\ calls[c].event = NoEvent
            /\ e # NoEvent
            /\ Keyed(e.key)
            => \/ e.repeats = missed[e.key]
               \/ e.repeats = 0 /\ clock - lastPass[e.key] >= 2 * Cooldown
<1>1. TypeOK /\ Cooldowns /\ [Next]_vars => [Counted]_vars
  <2> SUFFICES ASSUME TypeOK, Cooldowns, [Next]_vars, NEW c \in Callers,
                      calls[c].event = NoEvent, calls'[c].event # NoEvent,
                      Keyed(calls'[c].event.key)
               PROVE  \/ calls'[c].event.repeats = missed[calls'[c].event.key]
                      \/ /\ calls'[c].event.repeats = 0
                         /\ clock - lastPass[calls'[c].event.key] >= 2 * Cooldown
    OBVIOUS
  <2>1. PICK k \in Keys \cup {NoKey} :
          calls'[c].event = [key     |-> k,
                             repeats |-> IF Keyed(k) THEN Purged[k].repeats ELSE 0,
                             at      |-> clock]
    BY EventSteps
  <2>2. calls'[c].event.key = k /\ Keyed(k) /\ k \in Keys
    BY <2>1 DEF Keyed
  <2>3. calls'[c].event.repeats = Purged[k].repeats
    BY <2>1, <2>2
  <2>4. CASE Purged[k] # Absent
    <3>1. Purged[k] = [last |-> lastPass[k], repeats |-> missed[k]]
      BY <2>2, <2>4, PurgedMemory
    <3>2. Purged[k].repeats = missed[k]
      BY <3>1
    <3> QED
      BY <2>2, <2>3, <3>2
  <2>5. CASE Purged[k] = Absent
    <3>1. Purged[k].repeats = 0
      BY <2>5 DEF Absent
    <3>2. lastPass[k] = 0 \/ clock - lastPass[k] >= 2 * Cooldown
      BY <2>2, <2>5, PurgedMemory
    <3>3. lastPass[k] = 0 => missed[k] = 0
      BY <2>2 DEF Cooldowns
    <3> QED
      BY <2>2, <2>3, <3>1, <3>2, <3>3
  <2> QED
    BY <2>4, <2>5
<1> QED
  BY <1>1, CooldownsAlways, PTL DEF Spec, RepeatsExact

-----------------------------------------------------------------------------
(* The throttle implements module Filter.                                   *)

\* A key is on cooldown, by p.seen as it is: what closeWindow forgets is not.
Cooling(k) == Keyed(k) /\ seen[k] # Absent /\ clock - seen[k].last < Cooldown

QuietKeys == {k \in Keys : OnCooldown(k)}

Sending == [c \in Callers \cup {Flusher} |->
              [news  |-> calls[c].summary,
               event |-> IF calls[c].event = NoEvent THEN NoEvent ELSE calls[c].event.key]]

LEMMA NothingLoudForgotten ==
  ASSUME NEW now \in Nat, NEW e \in Entry
  PROVE  LET p == IF now - e.last >= 2 * Cooldown THEN Absent ELSE e
         IN  (p # Absent /\ now - p.last < Cooldown) <=> (e # Absent /\ now - e.last < Cooldown)
<1>1. e.last \in Nat /\ Cooldown \in Nat
  BY ThrottleAssumption DEF Entry, ThrottleAssumption
<1>2. now - e.last >= 2 * Cooldown => ~(now - e.last < Cooldown)
  BY <1>1
<1> QED
  BY <1>2

LEMMA CoolingKeys ==
  /\ TypeOK  => \A k \in Keys : OnCooldown(k) <=> Cooling(k)
  /\ TypeOK' => \A k \in Keys : OnCooldown(k)' <=> Cooling(k)'
<1>1. ASSUME TypeOK, NEW k \in Keys PROVE OnCooldown(k) <=> Cooling(k)
  <2>1. seen[k] \in Entry /\ clock \in Nat
    BY <1>1 DEF TypeOK
  <2> QED
    BY <2>1, NothingLoudForgotten DEF OnCooldown, Cooling, Purged
<1>2. ASSUME TypeOK', NEW k \in Keys PROVE OnCooldown(k)' <=> Cooling(k)'
  <2>1. seen'[k] \in Entry /\ clock' \in Nat
    BY <1>2 DEF TypeOK
  <2> QED
    BY <2>1, NothingLoudForgotten DEF OnCooldown, Cooling, Purged
<1> QED
  BY <1>1, <1>2

(* The window that a call leaves behind goes on.                            *)
LEMMA WindowGoesOn ==
  ASSUME TypeOK, TypeOK', CloseWindow, UNCHANGED clock
  PROVE  ~WindowOver' /\ SentNow' = sent'
  BY ThrottleAssumption DEF CloseWindow, WindowOver, SentNow, TypeOK, ThrottleAssumption

(* What closeWindow hands out is missing from the count that it leaves.     *)
LEMMA HandedOut ==
  ASSUME TypeOK
  PROVE  /\ SuppressedNow = suppressed - Summarized
         /\ Summarized \in {0, suppressed}
  BY DEF TypeOK, SuppressedNow, Summarized

(* closeWindow makes no key quiet or loud.                                  *)
LEMMA PurgedCooling ==
  ASSUME TypeOK, TypeOK', UNCHANGED clock, NEW k \in Keys, seen'[k] = Purged[k]
  PROVE  OnCooldown(k)' <=> OnCooldown(k)
<1>1. OnCooldown(k)' <=> Cooling(k)'
  BY CoolingKeys
<1>2. Cooling(k)' <=> Keyed(k) /\ Purged[k] # Absent /\ clock - Purged[k].last < Cooldown
  BY DEF Cooling, Keyed
<1> QED
  BY <1>1, <1>2 DEF OnCooldown

(* The keys on cooldown after each outcome of Pitch.                        *)
LEMMA QuietAfterDrop ==
  ASSUME TypeOK, TypeOK', UNCHANGED clock, NEW k \in Keys,
         OnCooldown(k), seen' = [Purged EXCEPT ![k].repeats = @ + 1]
  PROVE  QuietKeys' = QuietKeys
<1>1. Purged \in [Keys -> Entry] /\ clock \in Nat
  BY ClosedTypes DEF TypeOK
<1>2. ASSUME NEW j \in Keys PROVE OnCooldown(j)' <=> OnCooldown(j)
  <2>1. CASE j = k
    <3>1. seen'[k] = [Purged[k] EXCEPT !.repeats = @ + 1]
      BY <1>1
    <3>2. seen'[k].last = Purged[k].last /\ seen'[k].repeats = Purged[k].repeats + 1
      BY <1>1, <3>1 DEF Entry
    <3>3. Purged[k].repeats \in Nat
      BY <1>1 DEF Entry
    <3>4. seen'[k].repeats # 0
      BY <3>2, <3>3
    <3>5. seen'[k] # Absent
      BY <3>4 DEF Absent
    <3>6. Cooling(k)'
      BY <3>2, <3>5 DEF Cooling, OnCooldown, Keyed
    <3> QED
      BY <2>1, <3>6, CoolingKeys
  <2>2. CASE j # k
    <3>1. seen'[j] = Purged[j]
      BY <1>1, <2>2
    <3> QED
      BY <3>1, PurgedCooling
  <2> QED
    BY <2>1, <2>2
<1> QED
  BY <1>2 DEF QuietKeys

LEMMA QuietAfterPurge ==
  ASSUME TypeOK, TypeOK', UNCHANGED clock, seen' = Purged
  PROVE  QuietKeys' = QuietKeys
<1>1. ASSUME NEW j \in Keys PROVE OnCooldown(j)' <=> OnCooldown(j)
  BY PurgedCooling
<1> QED
  BY <1>1 DEF QuietKeys

LEMMA QuietAfterPass ==
  ASSUME TypeOK, TypeOK', clock >= 1, UNCHANGED clock, NEW k \in Keys, Keyed(k),
         seen' = [Purged EXCEPT ![k] = [last |-> clock, repeats |-> 0]]
  PROVE  QuietKeys' = QuietKeys \cup {k}
<1>1. Purged \in [Keys -> Entry] /\ clock \in Nat
  BY ClosedTypes DEF TypeOK
<1>2. OnCooldown(k)'
  <2>1. seen'[k] = [last |-> clock, repeats |-> 0]
    BY <1>1
  <2>2. seen'[k].last = clock
    BY <2>1
  <2>3. clock # 0
    BY <1>1
  <2>4. seen'[k] # Absent
    BY <2>2, <2>3 DEF Absent
  <2>5. clock - clock < Cooldown
    BY <1>1, ThrottleAssumption DEF Keyed, ThrottleAssumption
  <2>6. Cooling(k)'
    BY <2>2, <2>4, <2>5 DEF Cooling, Keyed
  <2> QED
    BY <2>6, CoolingKeys
<1>3. ASSUME NEW j \in Keys, j # k PROVE OnCooldown(j)' <=> OnCooldown(j)
  <2>1. seen'[j] = Purged[j]
    BY <1>1, <1>3
  <2> QED
    BY <2>1, PurgedCooling
<1> QED
  BY <1>2, <1>3 DEF QuietKeys

(* A change of one goroutine's call is a change of what it has to send.     *)
LEMMA CallSends ==
  ASSUME TypeOK, NEW c \in Callers \cup {Flusher}, NEW call,
         calls' = [calls EXCEPT ![c] = call]
  PROVE  Sending' = [Sending EXCEPT ![c] =
                       [news  |-> call.summary,
                        event |-> IF call.event = NoEvent THEN NoEvent ELSE call.event.key]]
<1>1. calls'[c] = call /\ \A d \in Callers \cup {Flusher} : d # c => calls'[d] = calls[d]
  BY DEF TypeOK
<1> QED
  BY <1>1 DEF Sending

LEMMA LeaveSends ==
  ASSUME TypeOK, NEW c \in Callers \cup {Flusher}, NEW e, Leave(c, e)
  PROVE  Sending' = [Sending EXCEPT ![c] =
                       [news  |-> Summarized,
                        event |-> IF e = NoEvent THEN NoEvent ELSE e.key]]
<1>1. calls' = [calls EXCEPT ![c] = [summary |-> Summarized, event |-> e]]
  BY DEF Leave
<1> QED
  BY <1>1, CallSends

LEMMA IdleSends ==
  ASSUME TypeOK, NEW c \in Callers \cup {Flusher}, calls[c] = Idle
  PROVE  Sending[c] = F!Idle
  BY DEF Sending, Idle, F!Idle

(* What module Filter needs to know of the throttle's state.                *)
Mapped == TypeOK /\ clock >= 1 /\ (Max > 0 => sent <= Max)

(* A call of Pitch, up to its decision.                                     *)
LEMMA PitchAdmits ==
  ASSUME Mapped, TypeOK', NEW c \in Callers, NEW k \in Keys \cup {NoKey}, Pitch(c, k)
  PROVE  F!Admit(c, k)
<1>1. TypeOK /\ clock >= 1 /\ UNCHANGED clock /\ CloseWindow /\ calls[c] = Idle
  BY DEF Mapped, Pitch
<1>2. SentNow' = sent' /\ Sending[c] = F!Idle
  BY <1>1, WindowGoesOn, IdleSends
<1>3. /\ Max \in Nat /\ SentNow \in Nat /\ suppressed \in Nat /\ Summarized \in {0, suppressed}
      /\ SuppressedNow = suppressed - Summarized
  BY <1>1, HandedOut, ClosedTypes, ThrottleAssumption DEF TypeOK, ThrottleAssumption
<1>4. CASE Repeat(c, k)
  <2>1. k \in Keys /\ OnCooldown(k)
    BY <1>4 DEF Repeat, OnCooldown, Keyed
  <2>2. QuietKeys' = QuietKeys /\ k \in QuietKeys
    BY <1>1, <1>4, <2>1, QuietAfterDrop DEF Repeat, QuietKeys
  <2>3. Sending' = [Sending EXCEPT ![c] = [news |-> Summarized, event |-> NoEvent]]
    BY <1>1, <1>4, LeaveSends DEF Repeat
  <2>4. suppressed' = suppressed - Summarized /\ SentNow' = SentNow
    BY <1>2, <1>3, <1>4 DEF Repeat
  <2>5. F!Repeat(c, k, Summarized)
    BY <2>2, <2>3, <2>4 DEF F!Repeat, F!Leave, QuietKeys, Sending
  <2> QED
    BY <1>2, <1>3, <2>5 DEF F!Admit, Sending
<1>5. CASE Suppress(c, k)
  <2>1. ~WindowOver /\ Max > 0 /\ SentNow = Max
    BY <1>1, <1>3, <1>5 DEF Suppress, OverLimit, SentNow, Mapped, TypeOK
  <2>2. QuietKeys' = QuietKeys /\ k \notin QuietKeys
    BY <1>1, <1>5, QuietAfterPurge DEF Suppress, QuietKeys
  <2>3. Sending' = [Sending EXCEPT ![c] = [news |-> 0, event |-> NoEvent]]
    BY <1>1, <1>5, <2>1, LeaveSends DEF Suppress, Summarized
  <2>4. suppressed' = suppressed + 1 /\ SentNow' = SentNow
    BY <1>2, <1>5, <2>1 DEF Suppress, SuppressedNow
  <2>5. Max - SentNow = 0
    BY <1>3, <2>1
  <2>6. F!Suppress(c, k)
    BY <2>1, <2>2, <2>3, <2>4, <2>5 DEF F!Suppress, F!Leave, QuietKeys, Sending
  <2> QED
    BY <1>2, <2>6 DEF F!Admit, Sending
<1>6. CASE Pass(c, k)
  <2>1. k \notin QuietKeys /\ (Max > 0 => Max - SentNow > 0)
    BY <1>3, <1>6 DEF Pass, OverLimit, QuietKeys
  <2>2. QuietKeys' = IF k \in {j \in Keys : Keyed(j)} THEN QuietKeys \cup {k} ELSE QuietKeys
    <3>1. CASE Keyed(k)
      <4>1. k \in Keys /\ seen' = [Purged EXCEPT ![k] = [last |-> clock, repeats |-> 0]]
        BY <1>6, <3>1 DEF Pass, Keyed
      <4> QED
        BY <1>1, <3>1, <4>1, QuietAfterPass
    <3>2. CASE ~Keyed(k)
      <4>1. seen' = Purged
        BY <1>6, <3>2 DEF Pass
      <4> QED
        BY <1>1, <3>2, <4>1, QuietAfterPurge
    <3> QED
      BY <3>1, <3>2
  <2>3. Sending' = [Sending EXCEPT ![c] = [news |-> Summarized, event |-> k]]
    <3> DEFINE e == [key |-> k, repeats |-> IF Keyed(k) THEN Purged[k].repeats ELSE 0,
                     at |-> clock]
    <3>1. e \in Event
      BY <1>1, ClosedTypes DEF Event, Entry, Keyed, TypeOK
    <3>2. e # NoEvent /\ e.key = k
      BY <3>1, NoEventAssumption
    <3>3. Leave(c, e)
      BY <1>6 DEF Pass
    <3> HIDE DEF e
    <3> QED
      BY <1>1, <3>2, <3>3, LeaveSends
  <2>4. /\ suppressed' = suppressed - Summarized
        /\ Max - SentNow' = IF Max > 0 THEN (Max - SentNow) - 1 ELSE Max - SentNow
    BY <1>2, <1>3, <1>6 DEF Pass
  <2>5. F!Pass(c, k, Summarized)
    BY <2>1, <2>2, <2>3, <2>4 DEF F!Pass, F!Leave, QuietKeys, Sending
  <2> QED
    BY <1>2, <1>3, <2>5 DEF F!Admit, Sending
<1> QED
  BY <1>4, <1>5, <1>6 DEF Pitch

(* The flusher hands out the count of a window that is over, or nothing.    *)
LEMMA FlushReports ==
  ASSUME Mapped, TypeOK', Flush
  PROVE  F!Report(Flusher) \/ UNCHANGED F!vars
<1>1. TypeOK /\ UNCHANGED clock /\ CloseWindow /\ calls[Flusher] = Idle
  BY DEF Mapped, Flush
<1>2. SentNow' = SentNow /\ QuietKeys' = QuietKeys
  BY <1>1, WindowGoesOn, QuietAfterPurge DEF Flush
<1>3. /\ Sending[Flusher] = F!Idle
      /\ Sending' = [Sending EXCEPT ![Flusher] = [news |-> Summarized, event |-> NoEvent]]
  BY <1>1, IdleSends, LeaveSends DEF Flush
<1>4. CASE WindowOver
  <2>1. suppressed' = 0 /\ Summarized = suppressed
    BY <1>4 DEF Flush, SuppressedNow, Summarized
  <2>2. F!Report(Flusher)
    BY <1>2, <1>3, <2>1 DEF F!Report, F!Leave, QuietKeys, Sending
  <2> QED
    BY <2>2
<1>5. CASE ~WindowOver
  <2>1. suppressed' = suppressed /\ Summarized = 0
    BY <1>5 DEF Flush, SuppressedNow, Summarized
  <2>2. Sending' = Sending
    BY <1>3, <2>1 DEF F!Idle, Sending
  <2> QED
    BY <1>2, <2>1, <2>2 DEF F!vars, QuietKeys, Sending
<1> QED
  BY <1>4, <1>5

(* Time only lets keys get loud again and the budget be renewed.            *)
LEMMA TickPauses ==
  ASSUME Mapped, TypeOK', Tick
  PROVE  F!Pause
<1>1. /\ TypeOK /\ clock' = clock + 1 /\ clock \in Nat
      /\ UNCHANGED <<seen, windowEnd, sent, suppressed, calls>>
  BY DEF Mapped, TypeOK, Tick, program
<1>2. QuietKeys' \subseteq QuietKeys
  <2> SUFFICES ASSUME NEW k \in Keys, OnCooldown(k)' PROVE OnCooldown(k)
    BY DEF QuietKeys
  <2>1. seen[k].last \in Nat /\ Cooldown \in Nat
    BY <1>1, ThrottleAssumption DEF TypeOK, Entry, ThrottleAssumption
  <2>2. Cooling(k)'
    BY CoolingKeys
  <2>3. Cooling(k)
    BY <1>1, <2>1, <2>2 DEF Cooling, Keyed
  <2> QED
    BY <1>1, <2>3, CoolingKeys
<1>3. Max - SentNow' \in {Max - SentNow, Max}
  BY <1>1, ThrottleAssumption DEF SentNow, WindowOver, TypeOK, ThrottleAssumption
<1>4. Sending' = Sending
  BY <1>1 DEF Sending
<1> QED
  BY <1>1, <1>2, <1>3, <1>4 DEF F!Pause, QuietKeys, Sending

LEMMA SummarySends ==
  ASSUME Mapped, TypeOK', NEW c \in Callers \cup {Flusher}, SendSummary(c)
  PROVE  F!SendNews(c)
<1>1. /\ TypeOK /\ UNCHANGED <<clock, seen, windowEnd, sent, suppressed>>
      /\ calls[c].summary # 0 /\ calls' = [calls EXCEPT ![c].summary = 0]
  BY DEF Mapped, SendSummary, program
<1> DEFINE call == [summary |-> 0, event |-> calls[c].event]
<1>a. calls[c] \in Call
  BY <1>1 DEF TypeOK
<1>b. [calls[c] EXCEPT !.summary = 0] = call
  BY <1>a DEF Call
<1>2. calls' = [calls EXCEPT ![c] = call]
  BY <1>1, <1>b
<1>c. call.summary = 0 /\ call.event = calls[c].event
  OBVIOUS
<1> HIDE DEF call
<1>d. Sending[c].event = IF calls[c].event = NoEvent THEN NoEvent ELSE calls[c].event.key
  BY DEF Sending
<1>3. Sending' = [Sending EXCEPT ![c] = [news |-> 0, event |-> Sending[c].event]]
  <2>1. Sending' = [Sending EXCEPT ![c] =
                      [news  |-> call.summary,
                       event |-> IF call.event = NoEvent THEN NoEvent ELSE call.event.key]]
    BY <1>1, <1>2, CallSends
  <2>2. (IF call.event = NoEvent THEN NoEvent ELSE call.event.key) = Sending[c].event
    BY <1>c, <1>d
  <2> QED
    BY <1>c, <2>1, <2>2
<1>4. Sending' = [Sending EXCEPT ![c].news = 0] /\ Sending[c].news # 0
  BY <1>1, <1>3 DEF Sending
<1>5. UNCHANGED <<QuietKeys, Max - SentNow, suppressed>>
  BY <1>1 DEF QuietKeys, OnCooldown, Purged, Keyed, SentNow, WindowOver
<1> QED
  BY <1>4, <1>5 DEF F!SendNews, QuietKeys, Sending

LEMMA EventSends ==
  ASSUME Mapped, TypeOK', NEW c \in Callers, NEW ok \in BOOLEAN, SendEvent(c, ok)
  PROVE  F!SendEvent(c)
<1>1. /\ TypeOK /\ UNCHANGED <<clock, seen, windowEnd, sent, suppressed>>
      /\ calls[c].summary = 0 /\ calls[c].event # NoEvent
      /\ calls' = [calls EXCEPT ![c].event = NoEvent]
  BY DEF Mapped, SendEvent, program
<1> DEFINE call == [summary |-> 0, event |-> NoEvent]
<1>a. calls[c] \in Call
  BY <1>1 DEF TypeOK
<1>b. [calls[c] EXCEPT !.event = NoEvent] = call
  BY <1>1, <1>a DEF Call
<1>2. calls' = [calls EXCEPT ![c] = call]
  BY <1>1, <1>b
<1>c. call.summary = 0 /\ call.event = NoEvent
  OBVIOUS
<1> HIDE DEF call
<1>3. Sending' = [Sending EXCEPT ![c] = [news |-> 0, event |-> NoEvent]]
  BY <1>1, <1>2, <1>c, CallSends
<1>4. calls[c].event.key \in Keys \cup {NoKey}
  BY <1>1 DEF TypeOK, Call, Event
<1>5. Sending[c].news = 0 /\ Sending[c].event # NoEvent
  BY <1>1, <1>4, NoEventAssumption DEF Sending
<1>6. Sending' = [Sending EXCEPT ![c].event = NoEvent]
  BY <1>3, <1>5 DEF Sending
<1>7. UNCHANGED <<QuietKeys, Max - SentNow, suppressed>>
  BY <1>1 DEF QuietKeys, OnCooldown, Purged, Keyed, SentNow, WindowOver
<1> QED
  BY <1>5, <1>6, <1>7 DEF F!SendEvent, QuietKeys, Sending

LEMMA FilterInit == Init => F!Init
<1> SUFFICES ASSUME Init PROVE F!Init
  OBVIOUS
<1>1. QuietKeys = {}
  BY DEF Init, QuietKeys, OnCooldown, Purged
<1>2. Max - SentNow = Max /\ suppressed = 0
  BY ThrottleAssumption DEF Init, SentNow, WindowOver, ThrottleAssumption
<1>3. Sending = [c \in Callers \cup {Flusher} |-> F!Idle]
  BY DEF Init, Sending, Idle, F!Idle
<1> QED
  BY <1>1, <1>2, <1>3 DEF F!Init, QuietKeys, Sending

LEMMA FilterStep == Mapped /\ TypeOK' /\ [Next]_vars => [F!Next]_F!vars
<1> SUFFICES ASSUME Mapped, TypeOK', [Next]_vars PROVE F!Next \/ UNCHANGED F!vars
  OBVIOUS
<1>1. ASSUME NEW c \in Callers, NEW k \in Keys \cup {NoKey}, Pitch(c, k) PROVE F!Next
  BY <1>1, PitchAdmits DEF F!Next
<1>2. ASSUME NEW c \in Callers \cup {Flusher}, SendSummary(c) PROVE F!Next
  BY <1>2, SummarySends DEF F!Next
<1>3. ASSUME NEW c \in Callers, NEW ok \in BOOLEAN, SendEvent(c, ok) PROVE F!Next
  BY <1>3, EventSends DEF F!Next
<1>4. CASE Flush
  BY <1>4, FlushReports DEF F!Next
<1>5. CASE Tick
  BY <1>5, TickPauses DEF F!Next
<1>6. CASE TickerFires \/ RunReturns \/ Cancel \/ UNCHANGED vars
  <2>1. UNCHANGED <<clock, seen, windowEnd, sent, suppressed, calls>>
    BY <1>6 DEF TickerFires, RunReturns, Cancel, vars, program
  <2> QED
    BY <2>1 DEF F!vars, OnCooldown, Purged, Keyed, SentNow, WindowOver
<1> QED
  BY <1>1, <1>2, <1>3, <1>4, <1>5, <1>6 DEF Next

(* ImplementsFilter: whatever the throttle's clock, windows, counters and   *)
(* goroutines do, it is the filter that its promise describes.              *)
THEOREM FilterImplemented == Spec => ImplementsFilter
<1>1. TypeOK /\ Sliding => Mapped
  BY DEF Sliding, PastPasses, WindowMemory, Mapped
<1>2. Spec => [][F!Next]_F!vars
  BY <1>1, TypeCorrect, SlidingAlways, FilterStep, PTL DEF Spec
<1>3. Spec => F!Init
  BY FilterInit DEF Spec
<1> QED
  BY <1>2, <1>3, PTL DEF ImplementsFilter, F!Spec

=============================================================================
