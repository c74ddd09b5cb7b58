------------------------------- MODULE Webhook -------------------------------
(***************************************************************************)
(* internal/webhook/webhook.go: the server that Flux posts its events to,  *)
(* together with Flux (external), which waits for an answer for some time  *)
(* and posts an event again after an error of the server or of the         *)
(* connection, a bounded number of times.  Requests are handled in         *)
(* goroutines of their own, which do not notice that Flux has given up     *)
(* waiting.                                                                *)
(***************************************************************************)
EXTENDS Integers, FiniteSets

CONSTANTS
  Events,        \* what Flux has to report
  MaxAttempts,   \* bound: how often Flux posts an event
  Signed         \* an HMAC key is configured

ASSUME WebhookAssumption == MaxAttempts \in Nat \ {0} /\ Signed \in BOOLEAN

VARIABLES
  listening,     \* the server accepts connections
  flux,          \* per event: what Flux knows of it
  attempts,      \* per event: how often Flux has posted it
  requests,      \* the requests being handled
  delivered,     \* history: per event, how often it reached the target
  dropped,       \* history: per event, the throttle has dropped it
  unanswered     \* history: per event, how often Flux got no answer, or one
                 \* that takes a delivered message for a failure

webhookVars == <<listening, flux, attempts, requests, delivered, dropped, unanswered>>

\* What may be wrong with a request; "sound" is nothing.
Shapes == {"unreadable", "unsigned", "forged", "malformed", "sound"}

\* An attempt to deliver an event, and how far its handler is.
Request == [event : Events, attempt : 1..MaxAttempts,
            step : {"received", "pitching", "pitched", "failed"}]

WebhookInit ==
  /\ listening = FALSE
  /\ flux = [e \in Events |-> "new"]
  /\ attempts = [e \in Events |-> 0]
  /\ requests = {}
  /\ delivered = [e \in Events |-> 0]
  /\ dropped = [e \in Events |-> FALSE]
  /\ unanswered = [e \in Events |-> 0]

-----------------------------------------------------------------------------
(* Flux.                                                                    *)

\* What Flux makes of an attempt that came to nothing.
Again(e) == IF attempts[e] < MaxAttempts THEN "new" ELSE "gave up"

Post(e) ==
  /\ flux[e] = "new"
  /\ listening
  /\ flux' = [flux EXCEPT ![e] = "waiting"]
  /\ attempts' = [attempts EXCEPT ![e] = @ + 1]
  /\ requests' = requests \cup
       {[event |-> e, attempt |-> attempts'[e], step |-> "received"]}
  /\ UNCHANGED <<listening, delivered, dropped, unanswered>>

\* Nobody listens: the process is not there, or does not accept requests yet
\* or any longer.
PostInVain(e) ==
  /\ flux[e] = "new"
  /\ ~listening
  /\ attempts' = [attempts EXCEPT ![e] = @ + 1]
  /\ flux' = [flux EXCEPT ![e] = IF attempts'[e] < MaxAttempts THEN "new" ELSE "gave up"]
  /\ UNCHANGED <<listening, requests, delivered, dropped, unanswered>>

\* Flux stops waiting, or finds its connection closed.
GiveUpWaiting(e) ==
  /\ flux[e] = "waiting"
  /\ flux' = [flux EXCEPT ![e] = Again(e)]
  /\ unanswered' = [unanswered EXCEPT ![e] = @ + 1]
  /\ UNCHANGED <<listening, attempts, requests, delivered, dropped>>

-----------------------------------------------------------------------------
(* The handler.                                                             *)

\* Flux gets an answer if it still waits for this attempt.
Answer(r, verdict) ==
  flux' = IF flux[r.event] = "waiting" /\ attempts[r.event] = r.attempt
          THEN [flux EXCEPT ![r.event] = verdict] ELSE flux

\* What verifySignature and json.Unmarshal make of a request.
Refused(shape) ==
  \/ shape \in {"unreadable", "malformed"}
  \/ Signed /\ shape \in {"unsigned", "forged"}

Advance(r, step) == requests' = (requests \ {r}) \cup {[r EXCEPT !.step = step]}

\* handleFlux up to the pitch: 400 or 401, which Flux does not try again.
Check(r) ==
  /\ r.step = "received"
  /\ \E shape \in Shapes :
       \/ Refused(shape)  /\ Answer(r, "refused") /\ requests' = requests \ {r}
       \/ ~Refused(shape) /\ Advance(r, "pitching") /\ UNCHANGED flux
  /\ UNCHANGED <<listening, attempts, delivered, dropped, unanswered>>

\* Fault: pitches again after an error.
PitchUntilOk(r) ==
  /\ r.step = "pitching"
  /\ \E out, ok \in BOOLEAN :
       /\ IF ok THEN Advance(r, "pitched") ELSE UNCHANGED requests
       /\ delivered' = IF out THEN [delivered EXCEPT ![r.event] = @ + 1] ELSE delivered
       /\ dropped' = IF ok /\ ~out THEN [dropped EXCEPT ![r.event] = TRUE] ELSE dropped
       /\ unanswered' = IF out /\ ~ok THEN [unanswered EXCEPT ![r.event] = @ + 1]
                        ELSE unanswered
  /\ UNCHANGED <<listening, flux, attempts>>

\* The pitch: delivered, delivered although it returns an error, not
\* delivered, or dropped by the throttle, which is no error.
Pitch(r) ==
  /\ r.step = "pitching"
  /\ \E out, ok \in BOOLEAN :
       /\ Advance(r, IF ok THEN "pitched" ELSE "failed")
       /\ delivered' = IF out THEN [delivered EXCEPT ![r.event] = @ + 1] ELSE delivered
       /\ dropped' = IF ok /\ ~out THEN [dropped EXCEPT ![r.event] = TRUE] ELSE dropped
       /\ unanswered' = IF out /\ ~ok THEN [unanswered EXCEPT ![r.event] = @ + 1]
                        ELSE unanswered
  /\ UNCHANGED <<listening, flux, attempts>>

\* Fault: logs the error and answers 200.
ReplyAccepted(r) ==
  /\ r.step \in {"pitched", "failed"}
  /\ requests' = requests \ {r}
  /\ Answer(r, "accepted")
  /\ UNCHANGED <<listening, attempts, delivered, dropped, unanswered>>

\* Fault: answers 500 whatever the pitch came to.
ReplyFailed(r) ==
  /\ r.step \in {"pitched", "failed"}
  /\ requests' = requests \ {r}
  /\ Answer(r, Again(r.event))
  /\ UNCHANGED <<listening, attempts, delivered, dropped, unanswered>>

\* handleFlux after the pitch: 200, or 500, which Flux tries again.
Reply(r) ==
  /\ r.step \in {"pitched", "failed"}
  /\ requests' = requests \ {r}
  /\ Answer(r, IF r.step = "pitched" THEN "accepted" ELSE Again(r.event))
  /\ UNCHANGED <<listening, attempts, delivered, dropped, unanswered>>

\* The process ends, and its connections with it.
StopWebhook ==
  /\ listening' = FALSE
  /\ requests' = {}
  /\ UNCHANGED <<flux, attempts, delivered, dropped, unanswered>>

FluxNext == \E e \in Events : Post(e) \/ PostInVain(e) \/ GiveUpWaiting(e)

HandlerNext == \E r \in requests : Check(r) \/ Pitch(r) \/ Reply(r)

-----------------------------------------------------------------------------
(* Types of the webhook's variables.                                        *)
WebhookTypeOK ==
  /\ listening \in BOOLEAN
  /\ flux \in [Events -> {"new", "waiting", "accepted", "refused", "gave up"}]
  /\ attempts \in [Events -> 0..MaxAttempts]
  /\ requests \subseteq Request
  /\ delivered \in [Events -> 0..MaxAttempts]
  /\ dropped \in [Events -> BOOLEAN]
  /\ unanswered \in [Events -> 0..(2 * MaxAttempts)]

(* An event Flux takes for accepted, and never sends again, has reached the *)
(* target or was dropped by the throttle, whatever became of the attempts   *)
(* and of processes in between (handleFlux).                                *)
AcceptedIsOut ==
  \A e \in Events : flux[e] = "accepted" => delivered[e] > 0 \/ dropped[e]

(* An event reaches the target twice only if Flux had to send it again, for *)
(* want of a true answer to an attempt that had reached the target: each    *)
(* further delivery takes a lost answer or an error of a delivered message  *)
(* (handleFlux pitches once per request and answers by the outcome).        *)
NoNeedlessDuplicate ==
  \A e \in Events : delivered[e] <= 1 + unanswered[e]
=============================================================================
