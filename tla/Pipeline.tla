------------------------------ MODULE Pipeline ------------------------------
(***************************************************************************)
(* From the watch to the reader of the target: the condition tracker of an *)
(* informer, the throttle as module Filter promises it, the pitcher of the *)
(* mode and its target, over lives of the process.  The informer's handler *)
(* and the goroutine of a timer pitch what the tracker decides on while    *)
(* they hold t.mu, so a tracker step and the throttle's decision about its *)
(* message are one step here; the sends that follow are steps of their     *)
(* own, and a target may keep each waiting until the client gives up.      *)
(* The one message pitched without t.mu is that of a delete.               *)
(***************************************************************************)
EXTENDS ConditionTracker

CONSTANTS
  Modes,        \* the pitcher modes there are: "http", "redis" or "file"
  Budget,       \* spec.rateLimit.max, 0 is off
  NoMessage,    \* no message to send
  MaxHangs,     \* bound: times that the target stops answering
  MaxLate,      \* bound: failed sends that the target may still take
  MaxRestarts   \* bound: restarts of the process

VARIABLES
  mode,         \* the pitcher mode, see Lifecycle
  quiet, left, untold, out,   \* the throttle, see Filter
  mu,           \* who holds t.mu to pitch: a thread, or Nobody
  target,       \* "up" or "hanging"
  late,         \* messages whose sender has given up, or died, that the
                \* target may still take
  reader,       \* what the target's reader knows: per key and condition the
                \* status of the last message about it, Unset without one
  fate,         \* history: what became of the last flip of each condition
                \* in this life of the process
  hangs, restarts             \* history: bound the model

throttle == <<quiet, left, untold, out>>
outside  == <<target, late, reader, hangs, restarts>>
pipeline == <<vars, mode, throttle, mu, fate, outside>>

Threads == {"informer", "timer"}
Nobody  == "nobody"

\* A message about an object: an update with its flips (none: a change of the
\* generation), or a delete.
MessageOf(k, about, flips) == [about |-> about, key |-> k, flips |-> flips]

Messages ==
  [about : {"update", "delete"}, key : Keys,
   flips : [watchedConditions -> Conds \cup {Blank}]]

\* cooldownKey: flips are told apart by object and title; nothing else of the
\* tracker has a key.
WithKey == {m \in Messages : m.about = "update" /\ m.flips # NoFlips}

ASSUME PipelineAssumption ==
  /\ Modes \subseteq {"http", "redis", "file"}
  /\ Budget \in Nat
  /\ NoMessage \notin Messages
  /\ {MaxHangs, MaxLate, MaxRestarts} \subseteq Nat

Gate == INSTANCE Filter WITH
  Callers <- Threads, Events <- Messages, Repeatable <- WithKey, NoEvent <- NoMessage

PipelineInit ==
  /\ Init
  /\ mode \in Modes
  /\ Gate!Init
  /\ mu = Nobody
  /\ target = "up"
  /\ late = {}
  /\ reader = [k \in Keys |-> [t \in watchedConditions |-> Unset]]
  /\ fate = [k \in Keys |-> [t \in watchedConditions |-> "none"]]
  /\ hangs = 0
  /\ restarts = 0

-----------------------------------------------------------------------------
(* Pitch, up to the throttle's decision.                                    *)

\* fate, with what became of the flips of a message.
Now(m, what) ==
  [fate EXCEPT ![m.key] =
     [t \in watchedConditions |-> IF m.flips[t] # Blank THEN what ELSE @[t]]]

Decide(g, m) ==
  /\ Gate!Admit(g, m)
  /\ fate' = Now(m, IF out'[g].event = m THEN "sending" ELSE "dropped")

\* Fault: the timer's goroutine pitches after it has released t.mu.
HeldByInformer(g) == IF g = "informer" /\ out'[g] # Gate!Idle THEN g ELSE Nobody

\* Fault: t.mu stays locked when the throttle drops the message.
HeldAfterDrop(g) == g

\* Pitching under t.mu: held until everything is sent.
Held(g) == IF out'[g] # Gate!Idle THEN g ELSE Nobody

\* A tracker step of a thread that holds t.mu, with the message it pitches.
Pitching(g) ==
  /\ mu = Nobody
  /\ out[g] = Gate!Idle
  /\ IF pitch' = NoPitch
     THEN UNCHANGED <<throttle, mu, fate>>
     ELSE /\ Decide(g, MessageOf(pitch'.key, "update", pitch'.flips))
          /\ mu' = Held(g)
  /\ UNCHANGED <<mode, outside>>

OnAdd(k, new) ==
  /\ out["informer"] = Gate!Idle
  /\ Add(k, new)
  /\ UNCHANGED <<mode, throttle, mu, fate, outside>>

OnUpdate(k, new, g) == Update(k, new, g) /\ Pitching("informer")

OnFire(timer) == Fire(timer) /\ Pitching("timer")

\* DeleteFunc: forget, which needs t.mu, then the pitch without it.  The
\* object that comes back under this name starts anew.
OnDelete(k) ==
  /\ mu = Nobody
  /\ Delete(k)
  /\ Gate!Admit("informer", MessageOf(k, "delete", NoFlips))
  /\ fate' = [fate EXCEPT ![k] = [t \in watchedConditions |-> "none"]]
  /\ UNCHANGED <<mode, mu, outside>>

\* Start, once ctx is cancelled.
OnClose == mu = Nobody /\ Close /\ UNCHANGED <<mode, throttle, mu, fate, outside>>

OnExpire(timer) == Expire(timer) /\ UNCHANGED <<mode, throttle, mu, fate, outside>>

OnTick == Tick /\ UNCHANGED <<mode, throttle, mu, fate, outside>>

\* Cooldowns and windows end; other sources neither spend nor fill them here.
OnPause ==
  /\ Gate!Pause
  /\ throttle' # throttle
  /\ UNCHANGED <<vars, mode, mu, fate, outside>>

-----------------------------------------------------------------------------
(* Pitch, after it: the pitcher of the mode.                                *)

\* Fault: the requests of the HTTP client have no timeout.
OutcomesUnbounded == IF target = "up" THEN {"ok", "failed", "late"} ELSE {}

\* What comes of a send.  The target answers or refuses the connection, the
\* file is written or cannot be opened.  One that does not answer is given up
\* after requestTimeout, or by the timeouts of go-redis.  A network target may
\* still take what a failed send has brought it.
Outcomes ==
  {"failed"} \cup (IF target = "up" THEN {"ok"} ELSE {})
             \cup (IF mode # "file" /\ Cardinality(late) < MaxLate
                          THEN {"late"} ELSE {})

\* What the reader knows after a message.
Read(m) ==
  [reader EXCEPT ![m.key] =
     [t \in watchedConditions |->
        IF m.about = "delete" THEN Unset
        ELSE IF m.flips[t] # Blank THEN m.flips[t].status ELSE @[t]]]

Released(g) == mu' = IF mu = g /\ out'[g] = Gate!Idle THEN Nobody ELSE mu

SendNews(g) ==              \* the summary goes first, and may fail
  /\ Gate!SendNews(g)
  /\ Released(g)
  /\ UNCHANGED <<vars, mode, fate, outside>>

SendMessage(g, outcome) ==
  LET m == out[g].event
  IN  /\ Gate!SendEvent(g)
      /\ outcome \in Outcomes
      /\ reader' = IF outcome = "ok" THEN Read(m) ELSE reader
      /\ late' = IF outcome = "late" THEN late \cup {m} ELSE late
      /\ fate' = Now(m, IF outcome = "ok" THEN "arrived" ELSE "lost")
      /\ Released(g)
      /\ UNCHANGED <<vars, mode, target, hangs, restarts>>

-----------------------------------------------------------------------------
(* The world outside the process.                                           *)

ArriveLate(m) ==
  /\ m \in late
  /\ target = "up"
  /\ late' = late \ {m}
  /\ reader' = Read(m)
  /\ fate' = IF m.about = "delete" THEN [fate EXCEPT ![m.key] = [t \in watchedConditions |-> "late"]]
             ELSE Now(m, "late")
  /\ UNCHANGED <<vars, mode, throttle, mu, target, hangs, restarts>>

Hang ==
  /\ mode # "file"
  /\ target = "up"
  /\ hangs < MaxHangs
  /\ target' = "hanging"
  /\ hangs' = hangs + 1
  /\ UNCHANGED <<vars, mode, throttle, mu, fate, late, reader, restarts>>

Recover ==
  /\ target = "hanging"
  /\ target' = "up"
  /\ UNCHANGED <<vars, mode, throttle, mu, fate, late, reader, hangs, restarts>>

\* The process ends at any point and starts again.  The requests under way may
\* still be taken; nothing else of its state is kept, and the informer lists
\* the objects again.
Restart ==
  /\ restarts < MaxRestarts
  /\ restarts' = restarts + 1
  /\ \E cut \in SUBSET ({out[g].event : g \in Threads} \ {NoMessage}) :
       late' = late \cup cut
  /\ store' = [k \in Keys |-> Gone]
  /\ objects' = [k \in Keys |-> NoState]
  /\ closed' = FALSE
  /\ armed' = {}
  /\ fired' = {}
  /\ pitch' = NoPitch
  /\ badSince' = [k \in Keys |-> Never]
  /\ told' = [k \in Keys |-> NoFlips]
  /\ quiet' = {}
  /\ left' = Budget
  /\ untold' = 0
  /\ out' = [g \in Threads |-> Gate!Idle]
  /\ mu' = Nobody
  /\ fate' = [k \in Keys |-> [t \in watchedConditions |-> "none"]]
  /\ UNCHANGED <<minDuration, clock, events, lives, mode, target, reader, hangs>>

PipelineNext ==
  \/ \E k \in Keys, new \in Versions : OnAdd(k, new)
  \/ \E k \in Keys, new \in Versions, g \in BOOLEAN : OnUpdate(k, new, g)
  \/ \E k \in Keys : OnDelete(k)
  \/ \E timer \in fired : OnFire(timer)
  \/ \E timer \in armed : OnExpire(timer)
  \/ OnClose
  \/ OnTick
  \/ OnPause
  \/ \E g \in Threads : SendNews(g)
  \/ \E g \in Threads, outcome \in {"ok", "failed", "late"} : SendMessage(g, outcome)
  \/ \E m \in late : ArriveLate(m)
  \/ Hang
  \/ Recover
  \/ Restart

PipelineSpec == PipelineInit /\ [][PipelineNext]_pipeline

\* As for the tracker, and a request ends.  A goroutine that has waited for
\* t.mu long enough is handed it (sync.Mutex), however often others take it.
\* Nothing is assumed of the target, which may hang for good.
PipelineFairness ==
  /\ WF_pipeline(OnTick)
  /\ WF_pipeline(\E timer \in armed : OnExpire(timer))
  /\ SF_pipeline(\E timer \in fired : OnFire(timer))
  /\ \A g \in Threads :
       /\ WF_pipeline(SendNews(g))
       /\ WF_pipeline(\E outcome \in {"ok", "failed", "late"} : SendMessage(g, outcome))

PipelineFairSpec == PipelineSpec /\ PipelineFairness

-----------------------------------------------------------------------------
(* Type correctness; t.mu is held only by a thread that has something to    *)
(* send, and a timer's goroutine has something to send only while it holds  *)
(* t.mu.                                                                    *)
PipelineTypeOK ==
  /\ mode \in {"http", "redis", "file"}
  /\ quiet \subseteq WithKey
  /\ left \in 0 .. Budget
  /\ untold \in Nat
  /\ out \in [Threads -> [news : Nat, event : Messages \cup {NoMessage}]]
  /\ mu \in Threads \cup {Nobody}
  /\ mu # Nobody => out[mu] # Gate!Idle
  /\ out["timer"] # Gate!Idle => mu = "timer"
  /\ late \subseteq Messages
  /\ reader \in [Keys -> [watchedConditions -> Statuses \cup {Unset}]]
  /\ fate \in [Keys -> [watchedConditions ->
                 {"none", "sending", "dropped", "arrived", "lost", "late"}]]

\* An update has shown the condition, and the tracker waits for nothing.
Settled(k, t) ==
  /\ store[k] # Gone
  /\ objects[k] # NoState
  /\ store[k][t] # NoCond
  /\ ~Ignored(store[k][t])
  /\ t \notin Pending(objects[k])

(* The comment of mu in conditionTracker, "a delayed failure and its        *)
(* recovery are pitched in order", to its end: when the last flip of a      *)
(* condition has arrived and nothing of the object is pending or on its     *)
(* way, the reader of the target knows the status the object has, whatever  *)
(* timers, updates, failed sends, cooldowns and requests of earlier lives   *)
(* came in between (update, fire, Manager.pitch, throttle Pitch).           *)
ReaderCurrent ==
  \A k \in Keys, t \in watchedConditions :
    fate[k][t] = "arrived" /\ Settled(k, t)
      => reader[k][t] = store[k][t].status

(* A failure that updates keep showing is taken for reported at last, and   *)
(* so was pitched or is the baseline, although a hanging target keeps       *)
(* whoever pitches, and with it everyone who waits for t.mu, up to a        *)
(* timeout each time (fire, update, requestTimeout).                        *)
FailureTold ==
  \A k \in Keys, t \in watchedConditions :
    badSince[k][t] # 0 /\ badSince[k][t] + minDuration <= MaxTime
      ~> StateOf(k, t) \in {"False", "Unknown"} \/ badSince[k][t] = 0

-----------------------------------------------------------------------------
(* README, "A recovery (-> True) is pitched only if its failure was         *)
(* pitched".  A recovery that the throttle passes follows a failure that it *)
(* passed too.                                                              *)
RecoveryOfPitchedFailure ==
  [][\A k \in Keys, t \in watchedConditions, g \in Threads :
        LET m == out'[g].event
        IN  /\ out[g].event = NoMessage
            /\ m # NoMessage
            /\ m.key = k
            /\ m.flips[t].status = "True"
            => fate[k][t] # "dropped"]_pipeline
=============================================================================
