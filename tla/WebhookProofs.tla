---------------------------- MODULE WebhookProofs ----------------------------
(***************************************************************************)
(* Proofs about the webhook and Flux in the process of Lifecycle, for      *)
(* every set of events and any number of attempts and restarts.            *)
(***************************************************************************)
EXTENDS Lifecycle, FiniteSetTheorems, TLAPS

-----------------------------------------------------------------------------
(* Counting requests.                                                       *)

\* The requests of an event that may still reach the target.
Open(R, e) == {r \in R : r.event = e /\ r.step \in {"received", "pitching"}}

\* Those that may still reach it, or make Flux try again.
Owing(R, e) == {r \in R : r.event = e /\ r.step # "pitched"}

LEMMA Counts ==
  ASSUME NEW R, IsFiniteSet(R), NEW e
  PROVE  /\ IsFiniteSet(Open(R, e)) /\ Cardinality(Open(R, e)) \in Nat
         /\ IsFiniteSet(Owing(R, e)) /\ Cardinality(Owing(R, e)) \in Nat
<1>1. Open(R, e) \subseteq R /\ Owing(R, e) \subseteq R
  BY DEF Open, Owing
<1>2. IsFiniteSet(Open(R, e)) /\ IsFiniteSet(Owing(R, e))
  BY <1>1, FS_Subset
<1> QED
  BY <1>2, FS_CardinalityType

(* One request more counts for one at most.                                 *)
LEMMA CountsAfterAdd ==
  ASSUME NEW R, IsFiniteSet(R), NEW e, NEW x
  PROVE  /\ Cardinality(Open(R \cup {x}, e)) <= Cardinality(Open(R, e)) + 1
         /\ Cardinality(Owing(R \cup {x}, e)) <= Cardinality(Owing(R, e)) + 1
<1>0. /\ Cardinality(Open(R, e)) \in Nat
      /\ Cardinality(Owing(R, e)) \in Nat
  BY Counts
<1>1. ASSUME NEW S, IsFiniteSet(S) PROVE Cardinality(S \cup {x}) <= Cardinality(S) + 1
  <2>1. /\ IsFiniteSet(S \cup {x})
        /\ Cardinality(S \cup {x}) = IF x \in S THEN Cardinality(S) ELSE Cardinality(S) + 1
    BY <1>1, FS_AddElement
  <2>2. Cardinality(S) \in Nat
    BY <1>1, FS_CardinalityType
  <2> QED
    BY <2>1, <2>2
<1>2. /\ Cardinality(Open(R, e) \cup {x}) <= Cardinality(Open(R, e)) + 1
      /\ Cardinality(Owing(R, e) \cup {x}) <= Cardinality(Owing(R, e)) + 1
  BY <1>1, Counts
<1>3. /\ Open(R \cup {x}, e) \in {Open(R, e), Open(R, e) \cup {x}}
      /\ Owing(R \cup {x}, e) \in {Owing(R, e), Owing(R, e) \cup {x}}
  BY DEF Open, Owing
<1> QED
  BY <1>0, <1>2, <1>3

(* A request that is gone no longer counts.                                 *)
LEMMA CountsAfterRemove ==
  ASSUME NEW R, IsFiniteSet(R), NEW e, NEW r \in R
  PROVE  /\ r \in Open(R, e) => Cardinality(Open(R \ {r}, e)) = Cardinality(Open(R, e)) - 1
         /\ r \in Owing(R, e) => Cardinality(Owing(R \ {r}, e)) = Cardinality(Owing(R, e)) - 1
         /\ Cardinality(Open(R \ {r}, e)) <= Cardinality(Open(R, e))
         /\ Cardinality(Owing(R \ {r}, e)) <= Cardinality(Owing(R, e))
         /\ Cardinality(Open(R \ {r}, e)) \in Nat
         /\ Cardinality(Owing(R \ {r}, e)) \in Nat
<1>0. IsFiniteSet(R \ {r})
  BY FS_RemoveElement
<1>1. /\ Cardinality(Open(R, e)) \in Nat /\ Cardinality(Open(R \ {r}, e)) \in Nat
      /\ Cardinality(Owing(R, e)) \in Nat /\ Cardinality(Owing(R \ {r}, e)) \in Nat
  BY <1>0, Counts
<1>2. /\ Open(R \ {r}, e) = Open(R, e) \ {r}
      /\ Owing(R \ {r}, e) = Owing(R, e) \ {r}
  BY DEF Open, Owing
<1>3. ASSUME NEW S, IsFiniteSet(S)
      PROVE  /\ r \in S => Cardinality(S \ {r}) = Cardinality(S) - 1
             /\ r \notin S => Cardinality(S \ {r}) = Cardinality(S)
  BY <1>3, FS_RemoveElement
<1>4. /\ r \in Open(R, e) => Cardinality(Open(R, e) \ {r}) = Cardinality(Open(R, e)) - 1
      /\ r \notin Open(R, e) => Cardinality(Open(R, e) \ {r}) = Cardinality(Open(R, e))
      /\ r \in Owing(R, e) => Cardinality(Owing(R, e) \ {r}) = Cardinality(Owing(R, e)) - 1
      /\ r \notin Owing(R, e) => Cardinality(Owing(R, e) \ {r}) = Cardinality(Owing(R, e))
  BY <1>3, Counts
<1>5. /\ r \in Open(R, e) => Cardinality(Open(R \ {r}, e)) = Cardinality(Open(R, e)) - 1
      /\ r \notin Open(R, e) => Cardinality(Open(R \ {r}, e)) = Cardinality(Open(R, e))
  BY <1>2, <1>4, Zenon
<1>6. /\ r \in Owing(R, e) => Cardinality(Owing(R \ {r}, e)) = Cardinality(Owing(R, e)) - 1
      /\ r \notin Owing(R, e) => Cardinality(Owing(R \ {r}, e)) = Cardinality(Owing(R, e))
  BY <1>2, <1>4, Zenon
<1>7. /\ Cardinality(Open(R \ {r}, e)) <= Cardinality(Open(R, e))
      /\ Cardinality(Owing(R \ {r}, e)) <= Cardinality(Owing(R, e))
  BY <1>1, <1>5, <1>6
<1> QED
  BY <1>1, <1>5, <1>6, <1>7

(* A request that goes on in its handler.                                   *)
LEMMA CountsAfterAdvance ==
  ASSUME NEW R, IsFiniteSet(R), NEW e, NEW r \in R, NEW x,
         x.event = r.event,
         x.step # "pitched" => r.step # "pitched",
         x.step \in {"received", "pitching"} => r.step \in {"received", "pitching"}
  PROVE  LET N == (R \ {r}) \cup {x}
         IN  /\ Cardinality(Open(N, e)) <= Cardinality(Open(R, e))
             /\ Cardinality(Owing(N, e)) <= Cardinality(Owing(R, e))
             /\ x.step \notin {"received", "pitching"} /\ r \in Open(R, e) =>
                  Cardinality(Open(N, e)) <= Cardinality(Open(R, e)) - 1
             /\ x.step = "pitched" /\ r \in Owing(R, e) =>
                  Cardinality(Owing(N, e)) <= Cardinality(Owing(R, e)) - 1
<1> DEFINE N == (R \ {r}) \cup {x}
<1>0. IsFiniteSet(R \ {r}) /\ IsFiniteSet(N)
  <2>1. IsFiniteSet(R \ {r})
    BY FS_RemoveElement
  <2> QED
    BY <2>1, FS_AddElement
<1>1. /\ Cardinality(Open(R, e)) \in Nat /\ Cardinality(Open(R \ {r}, e)) \in Nat
      /\ Cardinality(Owing(R, e)) \in Nat /\ Cardinality(Owing(R \ {r}, e)) \in Nat
      /\ Cardinality(Open(N, e)) \in Nat /\ Cardinality(Owing(N, e)) \in Nat
  BY <1>0, Counts
<1>2. /\ Cardinality(Open(N, e)) <= Cardinality(Open(R \ {r}, e)) + 1
      /\ Cardinality(Owing(N, e)) <= Cardinality(Owing(R \ {r}, e)) + 1
  BY <1>0, CountsAfterAdd
<1>3. /\ x \notin Open({x}, e) => Open(N, e) = Open(R \ {r}, e)
      /\ x \notin Owing({x}, e) => Owing(N, e) = Owing(R \ {r}, e)
  BY DEF Open, Owing
<1>4. /\ x \in Open({x}, e) => r \in Open(R, e) /\ x.step \in {"received", "pitching"}
      /\ x \in Owing({x}, e) => r \in Owing(R, e) /\ x.step # "pitched"
  BY DEF Open, Owing
<1>5. /\ r \in Open(R, e) => Cardinality(Open(R \ {r}, e)) = Cardinality(Open(R, e)) - 1
      /\ r \in Owing(R, e) => Cardinality(Owing(R \ {r}, e)) = Cardinality(Owing(R, e)) - 1
      /\ Cardinality(Open(R \ {r}, e)) <= Cardinality(Open(R, e))
      /\ Cardinality(Owing(R \ {r}, e)) <= Cardinality(Owing(R, e))
  BY CountsAfterRemove
<1>6. CASE x \in Open({x}, e)
  BY <1>1, <1>2, <1>3, <1>4, <1>5, <1>6
<1>7. CASE x \notin Open({x}, e)
  BY <1>1, <1>2, <1>3, <1>4, <1>5, <1>7
<1> QED
  BY <1>6, <1>7

(* One value of a function is replaced.                                     *)
LEMMA Updated ==
  ASSUME NEW S, NEW T, NEW f \in [S -> T], NEW e \in S, NEW v \in T
  PROVE  [f EXCEPT ![e] = v] \in [S -> T]
  OBVIOUS

-----------------------------------------------------------------------------
(* What Flux, the handlers and the target know together.                    *)

FluxStates == {"new", "waiting", "accepted", "refused", "gave up"}

Types ==
  /\ listening \in BOOLEAN
  /\ flux \in [Events -> FluxStates]
  /\ attempts \in [Events -> 0..MaxAttempts]
  /\ requests \subseteq Request
  /\ IsFiniteSet(requests)
  /\ delivered \in [Events -> Nat]
  /\ dropped \in [Events -> BOOLEAN]
  /\ unanswered \in [Events -> Nat]

Count(b) == IF b THEN 1 ELSE 0

\* The accounts of an event with d deliveries, u missing answers and a attempts,
\* of whose requests w may lead to another attempt or delivery and o to a
\* delivery; n and p are 1 if Flux is about to post it or waits for an answer.
\* Neither NoNeedlessDuplicate nor the bounds of the types are inductive: they
\* do not count what is still under way.
Balanced(d, u, a, n, p, w, o) ==
  /\ d + w + n <= 1 + u
  /\ d + o <= a
  /\ u + o + p <= 2 * a
  /\ a + n <= MaxAttempts

Accounts(e) ==
  Balanced(delivered[e], unanswered[e], attempts[e],
           Count(flux[e] = "new"), Count(flux[e] = "waiting"),
           Cardinality(Owing(requests, e)), Cardinality(Open(requests, e)))

\* What a handler and Flux take for out is out.
Out(e) == delivered[e] > 0 \/ dropped[e]

Told ==
  /\ \A r \in requests : r.step = "pitched" => Out(r.event)
  /\ \A e \in Events : flux[e] = "accepted" => Out(e)

WebhookInv == Types /\ Told /\ \A e \in Events : Accounts(e)

LEMMA Counted ==
  ASSUME NEW b \in BOOLEAN
  PROVE  Count(b) \in Nat /\ (b => Count(b) = 1) /\ (~b => Count(b) = 0)
  BY DEF Count

(* Flux has posted an event.                                                *)
LEMMA Posted ==
  ASSUME NEW d \in Nat, NEW u \in Nat, NEW a \in Nat, NEW w \in Nat, NEW o \in Nat,
         NEW x \in Nat, NEW y \in Nat, x <= w + 1, y <= o + 1,
         Balanced(d, u, a, 1, 0, w, o)
  PROVE  Balanced(d, u, a + 1, 0, 1, x, y)
<1>1. MaxAttempts \in Nat
  BY WebhookAssumption DEF WebhookAssumption
<1> QED
  BY <1>1 DEF Balanced

(* Flux has learnt that nobody listens, or given up waiting.                *)
LEMMA TriedInVain ==
  ASSUME NEW d \in Nat, NEW u \in Nat, NEW a \in Nat, NEW w \in Nat, NEW o \in Nat,
         NEW n \in Nat, n <= 1
  PROVE  /\ /\ Balanced(d, u, a, 1, 0, w, o)
            /\ a + 1 + n <= MaxAttempts
            => Balanced(d, u, a + 1, n, 0, w, o)
         /\ /\ Balanced(d, u, a, 0, 1, w, o)
            /\ a + n <= MaxAttempts
            => Balanced(d, u + 1, a, n, 0, w, o)
<1>1. MaxAttempts \in Nat
  BY WebhookAssumption DEF WebhookAssumption
<1> QED
  BY <1>1 DEF Balanced

(* Requests are answered or cut off.                                        *)
LEMMA Fewer ==
  ASSUME NEW d \in Nat, NEW u \in Nat, NEW a \in Nat, NEW w \in Nat, NEW o \in Nat,
         NEW n \in Nat, NEW p \in Nat, NEW x \in Nat, NEW y \in Nat, x <= w, y <= o,
         Balanced(d, u, a, n, p, w, o)
  PROVE  Balanced(d, u, a, n, p, x, y)
<1>1. MaxAttempts \in Nat
  BY WebhookAssumption DEF WebhookAssumption
<1> QED
  BY <1>1 DEF Balanced

(* Flux gets an answer: it posts again only after a request that counted.   *)
LEMMA GotAnswer ==
  ASSUME NEW d \in Nat, NEW u \in Nat, NEW a \in Nat, NEW w \in Nat, NEW o \in Nat,
         NEW n \in Nat, NEW x \in Nat, NEW y \in Nat,
         x + n <= w, y <= o, a + n <= MaxAttempts,
         Balanced(d, u, a, 0, 1, w, o)
  PROVE  Balanced(d, u, a, n, 0, x, y)
<1>1. MaxAttempts \in Nat
  BY WebhookAssumption DEF WebhookAssumption
<1> QED
  BY <1>1 DEF Balanced

(* A request is pitched: i is 1 if it reached the target, j if also an      *)
(* error was returned.                                                      *)
LEMMA PitchedOnce ==
  ASSUME NEW d \in Nat, NEW u \in Nat, NEW a \in Nat, NEW w \in Nat, NEW o \in Nat,
         NEW n \in Nat, NEW p \in Nat, NEW x \in Nat, NEW y \in Nat,
         NEW i \in Nat, NEW j \in Nat,
         i <= 1, j <= 1, x + i <= w + j, y + 1 <= o,
         Balanced(d, u, a, n, p, w, o)
  PROVE  Balanced(d + i, u + j, a, n, p, x, y)
<1>1. MaxAttempts \in Nat
  BY WebhookAssumption DEF WebhookAssumption
<1> QED
  BY <1>1 DEF Balanced

LEMMA AccountTypes ==
  ASSUME Types, NEW e \in Events
  PROVE  /\ delivered[e] \in Nat /\ unanswered[e] \in Nat /\ attempts[e] \in Nat
         /\ Cardinality(Owing(requests, e)) \in Nat
         /\ Cardinality(Open(requests, e)) \in Nat
  BY Counts, WebhookAssumption DEF Types, WebhookAssumption

LEMMA WebhookStart == Init => WebhookInv
<1> SUFFICES ASSUME Init PROVE WebhookInv
  OBVIOUS
<1>1. Types
  <2>1. 0 \in 0..MaxAttempts
    BY WebhookAssumption DEF WebhookAssumption
  <2>2. IsFiniteSet(requests)
    BY FS_EmptySet DEF Init, WebhookInit
  <2>3. /\ attempts \in [Events -> 0..MaxAttempts]
        /\ flux \in [Events -> FluxStates]
        /\ delivered \in [Events -> Nat]
        /\ unanswered \in [Events -> Nat]
    BY <2>1 DEF Init, WebhookInit, FluxStates
  <2> QED
    BY <2>2, <2>3 DEF Init, WebhookInit, Types
<1>2. Told
  BY DEF Init, WebhookInit, Told
<1>3. ASSUME NEW e \in Events PROVE Accounts(e)
  <2>1. Open(requests, e) = {} /\ Owing(requests, e) = {}
    BY DEF Init, WebhookInit, Open, Owing
  <2>2. Cardinality({}) = 0
    BY FS_EmptySet
  <2>3. Balanced(0, 0, 0, 1, 0, 0, 0)
    BY WebhookAssumption DEF Balanced, WebhookAssumption
  <2>4. Count("new" = "new") = 1 /\ Count("new" = "waiting") = 0
    BY DEF Count
  <2> QED
    BY <2>1, <2>2, <2>3, <2>4 DEF Init, WebhookInit, Accounts
<1> QED
  BY <1>1, <1>2, <1>3 DEF WebhookInv

(* An event that Flux is about to post has an attempt left.                 *)
LEMMA AttemptLeft ==
  ASSUME Types, NEW e \in Events, Accounts(e), flux[e] = "new"
  PROVE  /\ attempts[e] + 1 \in 1..MaxAttempts /\ attempts[e] + 1 \in 0..MaxAttempts
         /\ attempts[e] + 1 <= MaxAttempts
<1>1. attempts[e] \in Nat /\ MaxAttempts \in Nat
  BY AccountTypes, WebhookAssumption DEF WebhookAssumption
<1>2. Count(flux[e] = "new") = 1
  BY DEF Count
<1>3. attempts[e] + Count(flux[e] = "new") <= MaxAttempts
  BY DEF Accounts, Balanced
<1> QED
  BY <1>1, <1>2, <1>3

-----------------------------------------------------------------------------
(* Flux's steps.                                                            *)

LEMMA PostKeeps ==
  ASSUME WebhookInv, NEW e \in Events, Post(e)
  PROVE  WebhookInv'
<1> DEFINE x == [event |-> e, attempt |-> attempts'[e], step |-> "received"]
<1>0. Types /\ Told /\ Accounts(e) /\ IsFiniteSet(requests) /\ flux[e] = "new"
  BY DEF WebhookInv, Types, Post
<1>1. /\ attempts'[e] = attempts[e] + 1 /\ flux'[e] = "waiting"
      /\ requests' = requests \cup {x}
      /\ UNCHANGED <<listening, delivered, dropped, unanswered>>
  BY <1>0 DEF Post, Types
<1>2. attempts'[e] \in 1..MaxAttempts /\ attempts[e] + 1 \in 0..MaxAttempts
  BY <1>0, <1>1, AttemptLeft
<1>3. Types'
  <2>1. x \in Request
    BY <1>2 DEF Request
  <2>2. IsFiniteSet(requests')
    BY <1>0, <1>1, FS_AddElement
  <2>3. attempts' \in [Events -> 0..MaxAttempts]
    BY <1>0, <1>2, Updated DEF Post, Types
  <2>4. flux' \in [Events -> FluxStates]
    BY <1>0 DEF Post, Types, FluxStates
  <2> QED
    BY <1>0, <1>1, <2>1, <2>2, <2>3, <2>4 DEF Types
<1>4. Told'
  <2>1. ASSUME NEW z \in Events, flux'[z] = "accepted" PROVE flux[z] = "accepted"
    BY <1>0, <2>1 DEF Post, Types
  <2> QED
    BY <1>0, <1>1, <2>1 DEF Told, Out
<1>5. Accounts(e)'
  <2> DEFINE w == Cardinality(Owing(requests, e))
             o == Cardinality(Open(requests, e))
             ww == Cardinality(Owing(requests', e))
             oo == Cardinality(Open(requests', e))
  <2>1. oo <= o + 1 /\ ww <= w + 1
    BY <1>0, <1>1, CountsAfterAdd
  <2>2. /\ delivered[e] \in Nat /\ unanswered[e] \in Nat /\ attempts[e] \in Nat
        /\ w \in Nat /\ o \in Nat
    BY <1>0, AccountTypes
  <2>3. ww \in Nat /\ oo \in Nat
    BY <1>3, Counts DEF Types
  <2>4. Balanced(delivered[e], unanswered[e], attempts[e], 1, 0, w, o)
    BY <1>0 DEF Accounts, Count
  <2>5. Balanced(delivered[e], unanswered[e], attempts[e] + 1, 0, 1, ww, oo)
    <3> HIDE DEF w, o, ww, oo
    <3> QED
      BY <2>1, <2>2, <2>3, <2>4, Posted
  <2> QED
    BY <1>1, <2>5 DEF Accounts, Count
<1>6. ASSUME NEW z \in Events, z # e PROVE Accounts(z)'
  <2>1. /\ Open(requests', z) = Open(requests, z)
        /\ Owing(requests', z) = Owing(requests, z)
    BY <1>1, <1>6 DEF Open, Owing
  <2>2. /\ delivered'[z] = delivered[z] /\ unanswered'[z] = unanswered[z]
        /\ attempts'[z] = attempts[z] /\ flux'[z] = flux[z]
    BY <1>0, <1>1, <1>6 DEF Post, Types
  <2> QED
    BY <2>1, <2>2 DEF Accounts, WebhookInv
<1> QED
  BY <1>3, <1>4, <1>5, <1>6 DEF WebhookInv

(* A step of Flux that leaves the requests alone.                           *)
LEMMA VainKeeps ==
  ASSUME WebhookInv, NEW e \in Events, PostInVain(e)
  PROVE  WebhookInv'
<1>0. Types /\ Told /\ Accounts(e) /\ flux[e] = "new"
  BY DEF WebhookInv, PostInVain
<1>1. /\ attempts'[e] = attempts[e] + 1
      /\ flux'[e] = IF attempts[e] + 1 < MaxAttempts THEN "new" ELSE "gave up"
      /\ UNCHANGED <<listening, requests, delivered, dropped, unanswered>>
  BY <1>0 DEF PostInVain, Types
<1>2. attempts[e] + 1 \in 0..MaxAttempts /\ attempts[e] + 1 <= MaxAttempts
  BY <1>0, AttemptLeft
<1>3. Types'
  <2>1. attempts' \in [Events -> 0..MaxAttempts]
    BY <1>0, <1>2, Updated DEF PostInVain, Types
  <2>2. flux' \in [Events -> FluxStates]
    BY <1>0 DEF PostInVain, Types, FluxStates
  <2> QED
    BY <1>0, <1>1, <2>1, <2>2 DEF Types
<1>4. ASSUME NEW z \in Events, z # e
      PROVE  flux'[z] = flux[z] /\ attempts'[z] = attempts[z]
  BY <1>0, <1>4 DEF PostInVain, Types
<1>5. Told'
  <2>1. ASSUME NEW z \in Events, flux'[z] = "accepted" PROVE flux[z] = "accepted"
    BY <1>1, <1>4, <2>1
  <2> QED
    BY <1>0, <1>1, <2>1 DEF Told, Out
<1>6. Accounts(e)'
  <2> DEFINE w == Cardinality(Owing(requests, e))
             o == Cardinality(Open(requests, e))
             n == Count(flux'[e] = "new")
  <2>1. /\ delivered[e] \in Nat /\ unanswered[e] \in Nat /\ attempts[e] \in Nat
        /\ w \in Nat /\ o \in Nat /\ MaxAttempts \in Nat
    BY <1>0, AccountTypes, WebhookAssumption DEF WebhookAssumption
  <2>2. Balanced(delivered[e], unanswered[e], attempts[e], 1, 0, w, o)
    BY <1>0 DEF Accounts, Count
  <2>3. Count(flux'[e] = "waiting") = 0
    BY <1>1 DEF Count
  <2>4. n \in Nat /\ n <= 1 /\ attempts[e] + 1 + n <= MaxAttempts
    <3>1. CASE attempts[e] + 1 < MaxAttempts
      <4>1. n = 1
        BY <1>1, <3>1 DEF Count
      <4> HIDE DEF n
      <4> QED
        BY <2>1, <3>1, <4>1
    <3>2. CASE ~(attempts[e] + 1 < MaxAttempts)
      <4>1. n = 0
        BY <1>1, <3>2 DEF Count
      <4> HIDE DEF n
      <4> QED
        BY <1>2, <2>1, <4>1
    <3> QED
      BY <3>1, <3>2
  <2>5. Balanced(delivered[e], unanswered[e], attempts[e] + 1, n, 0, w, o)
    <3> HIDE DEF w, o, n
    <3> QED
      BY <2>1, <2>2, <2>4, TriedInVain
  <2> QED
    BY <1>1, <2>3, <2>5 DEF Accounts
<1>7. ASSUME NEW z \in Events, z # e PROVE Accounts(z)'
  BY <1>1, <1>4, <1>7 DEF Accounts, WebhookInv
<1> QED
  BY <1>3, <1>5, <1>6, <1>7 DEF WebhookInv

LEMMA GiveUpKeeps ==
  ASSUME WebhookInv, NEW e \in Events, GiveUpWaiting(e)
  PROVE  WebhookInv'
<1>0. Types /\ Told /\ Accounts(e) /\ flux[e] = "waiting"
  BY DEF WebhookInv, GiveUpWaiting
<1> DEFINE w == Cardinality(Owing(requests, e))
           o == Cardinality(Open(requests, e))
           n == Count(flux'[e] = "new")
<1>1. /\ delivered[e] \in Nat /\ unanswered[e] \in Nat /\ attempts[e] \in Nat
      /\ w \in Nat /\ o \in Nat /\ MaxAttempts \in Nat
      /\ unanswered[e] + 1 \in Nat /\ attempts[e] <= MaxAttempts
  BY <1>0, AccountTypes, WebhookAssumption DEF Types, WebhookAssumption
<1>2. /\ unanswered'[e] = unanswered[e] + 1
      /\ flux'[e] = IF attempts[e] < MaxAttempts THEN "new" ELSE "gave up"
      /\ UNCHANGED <<listening, attempts, requests, delivered, dropped>>
  BY <1>0 DEF GiveUpWaiting, Again, Types
<1>3. Types'
  <2>1. flux' \in [Events -> FluxStates]
    BY <1>0 DEF GiveUpWaiting, Again, Types, FluxStates
  <2>2. unanswered' \in [Events -> Nat]
    BY <1>0, <1>1, Updated DEF GiveUpWaiting, Types
  <2> QED
    BY <1>0, <1>2, <2>1, <2>2 DEF Types
<1>4. ASSUME NEW z \in Events, z # e
      PROVE  flux'[z] = flux[z] /\ unanswered'[z] = unanswered[z]
  BY <1>0, <1>4 DEF GiveUpWaiting, Types
<1>5. Told'
  <2>1. ASSUME NEW z \in Events, flux'[z] = "accepted" PROVE flux[z] = "accepted"
    BY <1>2, <1>4, <2>1
  <2> QED
    BY <1>0, <1>2, <2>1 DEF Told, Out
<1>6. Accounts(e)'
  <2>1. Balanced(delivered[e], unanswered[e], attempts[e], 0, 1, w, o)
    BY <1>0 DEF Accounts, Count
  <2>2. Count(flux'[e] = "waiting") = 0
    BY <1>2 DEF Count
  <2>3. n \in Nat /\ n <= 1 /\ attempts[e] + n <= MaxAttempts
    <3>1. CASE attempts[e] < MaxAttempts
      <4>1. n = 1
        BY <1>2, <3>1 DEF Count
      <4> HIDE DEF n
      <4> QED
        BY <1>1, <3>1, <4>1
    <3>2. CASE ~(attempts[e] < MaxAttempts)
      <4>1. n = 0
        BY <1>2, <3>2 DEF Count
      <4> HIDE DEF n
      <4> QED
        BY <1>1, <4>1
    <3> QED
      BY <3>1, <3>2
  <2>4. Balanced(delivered[e], unanswered[e] + 1, attempts[e], n, 0, w, o)
    <3> HIDE DEF w, o, n
    <3> QED
      BY <1>1, <2>1, <2>3, TriedInVain
  <2> QED
    BY <1>2, <2>2, <2>4 DEF Accounts
<1>7. ASSUME NEW z \in Events, z # e PROVE Accounts(z)'
  BY <1>2, <1>4, <1>7 DEF Accounts, WebhookInv
<1> QED
  BY <1>3, <1>5, <1>6, <1>7 DEF WebhookInv

-----------------------------------------------------------------------------
(* The handlers' steps.                                                     *)

(* A request is answered.  Flux takes it for accepted only if it is out,    *)
(* and posts it again only after a failed one.                              *)
LEMMA AnswerKeeps ==
  ASSUME WebhookInv, NEW r \in requests,
         requests' = requests \ {r},
         NEW verdict \in FluxStates \ {"waiting"}, Answer(r, verdict),
         UNCHANGED <<listening, attempts, delivered, dropped, unanswered>>,
         verdict = "accepted" => Out(r.event),
         verdict = "new" => r.step # "pitched" /\ attempts[r.event] < MaxAttempts
  PROVE  WebhookInv'
<1>0. Types /\ Told /\ IsFiniteSet(requests) /\ r \in Request /\ r.event \in Events
  BY DEF WebhookInv, Types, Request
<1>1. Types'
  <2>1. flux' \in [Events -> FluxStates]
    BY <1>0 DEF Answer, Types
  <2>2. IsFiniteSet(requests')
    BY <1>0, FS_RemoveElement
  <2> QED
    BY <1>0, <2>1, <2>2 DEF Types
<1>2. ASSUME NEW z \in Events
      PROVE  \/ flux'[z] = flux[z]
             \/ z = r.event /\ flux[z] = "waiting" /\ flux'[z] = verdict
  BY <1>0 DEF Answer, Types
<1>3. Told'
  <2>1. ASSUME NEW z \in Events, flux'[z] = "accepted" PROVE Out(z)
    BY <1>0, <1>2, <2>1 DEF Told
  <2> QED
    BY <1>0, <2>1 DEF Told, Out
<1>4. ASSUME NEW z \in Events PROVE Accounts(z)'
  <2> DEFINE w == Cardinality(Owing(requests, z))
             o == Cardinality(Open(requests, z))
             x == Cardinality(Owing(requests', z))
             y == Cardinality(Open(requests', z))
             m == Count(flux[z] = "new")
             p == Count(flux[z] = "waiting")
  <2>1. x <= w /\ y <= o /\ x \in Nat /\ y \in Nat
    BY <1>0, CountsAfterRemove
  <2>2. /\ delivered[z] \in Nat /\ unanswered[z] \in Nat /\ attempts[z] \in Nat
        /\ w \in Nat /\ o \in Nat /\ m \in Nat /\ p \in Nat /\ MaxAttempts \in Nat
    <3>1. m \in Nat /\ p \in Nat
      BY DEF Count
    <3>2. MaxAttempts \in Nat
      BY WebhookAssumption DEF WebhookAssumption
    <3> QED
      BY <1>0, <3>1, <3>2, AccountTypes
  <2>3. Balanced(delivered[z], unanswered[z], attempts[z], m, p, w, o)
    BY DEF WebhookInv, Accounts
  <2>4. CASE flux'[z] = flux[z]
    <3>1. Balanced(delivered[z], unanswered[z], attempts[z], m, p, x, y)
      <4> HIDE DEF w, o, x, y, m, p
      <4> QED
        BY <2>1, <2>2, <2>3, Fewer
    <3> QED
      BY <2>4, <3>1 DEF Accounts
  <2>5. CASE z = r.event /\ flux[z] = "waiting" /\ flux'[z] = verdict
    <3> DEFINE n == Count(verdict = "new")
    <3>1. m = 0 /\ p = 1 /\ Count(verdict = "waiting") = 0
      BY <2>5 DEF Count
    <3>2. n \in Nat /\ x + n <= w /\ attempts[z] + n <= MaxAttempts
      <4>1. CASE verdict = "new"
        <5>1. r \in Owing(requests, z) /\ attempts[z] < MaxAttempts
          BY <2>5, <4>1 DEF Owing
        <5>2. x = w - 1
          BY <1>0, <5>1, CountsAfterRemove
        <5>3. n = 1
          BY <4>1 DEF Count
        <5> HIDE DEF w, x, n
        <5> QED
          BY <2>1, <2>2, <5>1, <5>2, <5>3
      <4>2. CASE verdict # "new"
        <5>1. n = 0
          BY <4>2 DEF Count
        <5>2. attempts[z] <= MaxAttempts
          BY <1>0, <2>2 DEF Types
        <5> HIDE DEF w, x, n
        <5> QED
          BY <2>1, <2>2, <5>1, <5>2
      <4> QED
        BY <4>1, <4>2
    <3>3. Balanced(delivered[z], unanswered[z], attempts[z], n, 0, x, y)
      <4> HIDE DEF w, o, x, y, m, p, n
      <4>1. Balanced(delivered[z], unanswered[z], attempts[z], 0, 1, w, o)
        BY <2>3, <3>1
      <4> QED
        BY <2>1, <2>2, <3>2, <4>1, GotAnswer
    <3> QED
      BY <2>5, <3>1, <3>3 DEF Accounts
  <2> QED
    BY <1>2, <2>4, <2>5
<1> QED
  BY <1>1, <1>3, <1>4 DEF WebhookInv

(* A request is sound and goes on to be pitched.                            *)
LEMMA AdvanceKeeps ==
  ASSUME WebhookInv, NEW r \in requests, r.step = "received",
         Advance(r, "pitching"),
         UNCHANGED <<listening, flux, attempts, delivered, dropped, unanswered>>
  PROVE  WebhookInv'
<1> DEFINE s == [r EXCEPT !.step = "pitching"]
<1>0. Types /\ Told /\ IsFiniteSet(requests) /\ r \in Request
  BY DEF WebhookInv, Types
<1>1. /\ requests' = (requests \ {r}) \cup {s}
      /\ s \in Request /\ s.event = r.event /\ s.step = "pitching"
  BY <1>0 DEF Advance, Request
<1>2. IsFiniteSet(requests')
  <2>1. IsFiniteSet(requests \ {r})
    BY <1>0, FS_RemoveElement
  <2> QED
    BY <1>1, <2>1, FS_AddElement
<1>3. Types'
  BY <1>0, <1>1, <1>2 DEF Types
<1>4. Told'
  BY <1>0, <1>1 DEF Told, Out
<1>5. ASSUME NEW z \in Events PROVE Accounts(z)'
  <2> DEFINE w == Cardinality(Owing(requests, z))
             o == Cardinality(Open(requests, z))
             x == Cardinality(Owing(requests', z))
             y == Cardinality(Open(requests', z))
             m == Count(flux[z] = "new")
             p == Count(flux[z] = "waiting")
  <2>1. x <= w /\ y <= o
    BY <1>0, <1>1, CountsAfterAdvance
  <2>2. x \in Nat /\ y \in Nat
    BY <1>2, Counts
  <2>3. /\ delivered[z] \in Nat /\ unanswered[z] \in Nat /\ attempts[z] \in Nat
        /\ w \in Nat /\ o \in Nat /\ m \in Nat /\ p \in Nat
    <3>1. m \in Nat /\ p \in Nat
      BY DEF Count
    <3> QED
      BY <1>0, <3>1, AccountTypes
  <2>4. Balanced(delivered[z], unanswered[z], attempts[z], m, p, w, o)
    BY DEF WebhookInv, Accounts
  <2>5. Balanced(delivered[z], unanswered[z], attempts[z], m, p, x, y)
    <3> HIDE DEF w, o, x, y, m, p
    <3> QED
      BY <2>1, <2>2, <2>3, <2>4, Fewer
  <2> QED
    BY <2>5 DEF Accounts
<1> QED
  BY <1>3, <1>4, <1>5 DEF WebhookInv

LEMMA CheckKeeps ==
  ASSUME WebhookInv, NEW r \in requests, Check(r)
  PROVE  WebhookInv'
<1>1. CASE Answer(r, "refused") /\ requests' = requests \ {r}
  <2>1. "refused" \in FluxStates \ {"waiting"}
    BY DEF FluxStates
  <2>2. UNCHANGED <<listening, attempts, delivered, dropped, unanswered>>
    BY DEF Check
  <2> QED
    BY <1>1, <2>1, <2>2, AnswerKeeps
<1>2. CASE Advance(r, "pitching") /\ UNCHANGED flux
  BY <1>2, AdvanceKeeps DEF Check
<1> QED
  BY <1>1, <1>2 DEF Check

LEMMA ReplyKeeps ==
  ASSUME WebhookInv, NEW r \in requests, Reply(r)
  PROVE  WebhookInv'
<1>1. /\ requests' = requests \ {r}
      /\ UNCHANGED <<listening, attempts, delivered, dropped, unanswered>>
  BY DEF Reply
<1>2. CASE r.step = "pitched"
  <2>1. Answer(r, "accepted") /\ Out(r.event) /\ "accepted" \in FluxStates \ {"waiting"}
    BY <1>2 DEF Reply, WebhookInv, Told, FluxStates
  <2> QED
    BY <1>1, <2>1, AnswerKeeps
<1>3. CASE r.step # "pitched"
  <2>1. Answer(r, Again(r.event)) /\ Again(r.event) \in FluxStates \ {"waiting"}
    BY <1>3 DEF Reply, Again, FluxStates
  <2>2. /\ Again(r.event) # "accepted"
        /\ Again(r.event) = "new" => attempts[r.event] < MaxAttempts
    BY DEF Again
  <2> QED
    BY <1>1, <1>3, <2>1, <2>2, AnswerKeeps
<1> QED
  BY <1>2, <1>3

(* A request is pitched.                                                    *)
LEMMA PitchKeeps ==
  ASSUME WebhookInv, NEW r \in requests, Pitch(r)
  PROVE  WebhookInv'
<1>0. Types /\ Told /\ IsFiniteSet(requests) /\ r \in Request /\ r.event \in Events
      /\ r.step = "pitching"
  BY DEF WebhookInv, Types, Request, Pitch
<1>1. PICK out \in BOOLEAN, ok \in BOOLEAN :
         /\ Advance(r, IF ok THEN "pitched" ELSE "failed")
         /\ delivered' = IF out THEN [delivered EXCEPT ![r.event] = @ + 1] ELSE delivered
         /\ dropped' = IF ok /\ ~out THEN [dropped EXCEPT ![r.event] = TRUE] ELSE dropped
         /\ unanswered' = IF out /\ ~ok THEN [unanswered EXCEPT ![r.event] = @ + 1]
                          ELSE unanswered
  BY DEF Pitch
<1> DEFINE s == [r EXCEPT !.step = IF ok THEN "pitched" ELSE "failed"]
           i == Count(out)
           j == Count(out /\ ~ok)
<1>2. /\ requests' = (requests \ {r}) \cup {s}
      /\ s \in Request /\ s.event = r.event
      /\ s.step = IF ok THEN "pitched" ELSE "failed"
      /\ UNCHANGED <<listening, flux, attempts>>
  BY <1>0, <1>1 DEF Advance, Request, Pitch
<1>3. IsFiniteSet(requests')
  <2>1. IsFiniteSet(requests \ {r})
    BY <1>0, FS_RemoveElement
  <2> QED
    BY <1>2, <2>1, FS_AddElement
<1>4. i \in Nat /\ j \in Nat /\ i <= 1 /\ j <= 1
  BY DEF Count
<1>5. /\ delivered'[r.event] = delivered[r.event] + i
      /\ unanswered'[r.event] = unanswered[r.event] + j
  <2>0. delivered[r.event] \in Nat /\ unanswered[r.event] \in Nat
    BY <1>0 DEF Types
  <2>1. delivered'[r.event] = delivered[r.event] + i
    <3>1. CASE out
      BY <1>0, <1>1, <3>1 DEF Types, Count
    <3>2. CASE ~out
      BY <1>1, <2>0, <3>2 DEF Count
    <3> QED
      BY <3>1, <3>2
  <2>2. unanswered'[r.event] = unanswered[r.event] + j
    <3>1. CASE out /\ ~ok
      BY <1>0, <1>1, <3>1 DEF Types, Count
    <3>2. CASE ~(out /\ ~ok)
      BY <1>1, <2>0, <3>2 DEF Count
    <3> QED
      BY <3>1, <3>2
  <2> QED
    BY <2>1, <2>2
<1>6. Types'
  <2>1. delivered[r.event] + 1 \in Nat /\ unanswered[r.event] + 1 \in Nat
    BY <1>0 DEF Types
  <2>2. [delivered EXCEPT ![r.event] = @ + 1] \in [Events -> Nat]
    BY <1>0, <2>1, Updated DEF Types
  <2>3. [unanswered EXCEPT ![r.event] = @ + 1] \in [Events -> Nat]
    BY <1>0, <2>1, Updated DEF Types
  <2>4. delivered' \in [Events -> Nat] /\ unanswered' \in [Events -> Nat]
    BY <1>0, <1>1, <2>2, <2>3, Zenon DEF Types
  <2>5. dropped' \in [Events -> BOOLEAN]
    BY <1>0, <1>1 DEF Types
  <2>6. requests' \subseteq Request
    BY <1>0, <1>2 DEF Types
  <2> QED
    BY <1>0, <1>2, <1>3, <2>4, <2>5, <2>6 DEF Types
<1>7. ASSUME NEW z \in Events, z # r.event
      PROVE  delivered'[z] = delivered[z] /\ dropped'[z] = dropped[z]
             /\ unanswered'[z] = unanswered[z]
  BY <1>0, <1>1, <1>7 DEF Types
<1>8. Told'
  <2>1. ASSUME Out(r.event) PROVE Out(r.event)'
    <3>1. delivered[r.event] \in Nat
      BY <1>0 DEF Types
    <3>2. CASE dropped[r.event]
      BY <1>0, <1>1, <3>2 DEF Types, Out
    <3>3. CASE delivered[r.event] > 0
      <4> HIDE DEF i
      <4>1. delivered'[r.event] > 0
        BY <1>4, <1>5, <3>1, <3>3
      <4> QED
        BY <4>1 DEF Out
    <3> QED
      BY <2>1, <3>2, <3>3 DEF Out
  <2>2. ASSUME NEW z \in Events, Out(z) PROVE Out(z)'
    BY <1>7, <2>1, <2>2 DEF Out
  <2>3. ok => Out(r.event)'
    <3>1. CASE ok /\ ~out
      BY <1>0, <1>1, <3>1 DEF Types, Out
    <3>2. CASE ok /\ out
      <4>1. i = 1 /\ delivered[r.event] \in Nat
        BY <1>0, <3>2 DEF Count, Types
      <4> HIDE DEF i
      <4>2. delivered'[r.event] > 0
        BY <1>5, <4>1
      <4> QED
        BY <4>2 DEF Out
    <3> QED
      BY <3>1, <3>2
  <2>4. ASSUME NEW q \in requests', q.step = "pitched" PROVE Out(q.event)'
    <3>1. CASE q = s
      BY <1>2, <2>3, <2>4, <3>1
    <3>2. CASE q # s
      <4>1. q \in requests /\ q.event \in Events
        BY <1>0, <1>2, <3>2 DEF Types, Request
      <4>2. Out(q.event)
        BY <1>0, <2>4, <4>1 DEF Told
      <4> QED
        BY <2>2, <4>1, <4>2
    <3> QED
      BY <3>1, <3>2
  <2>5. ASSUME NEW z \in Events, flux'[z] = "accepted" PROVE Out(z)'
    BY <1>0, <1>2, <2>2, <2>5 DEF Told
  <2> QED
    BY <2>4, <2>5 DEF Told, Out
<1>9. ASSUME NEW z \in Events PROVE Accounts(z)'
  <2> DEFINE w == Cardinality(Owing(requests, z))
             o == Cardinality(Open(requests, z))
             x == Cardinality(Owing(requests', z))
             y == Cardinality(Open(requests', z))
             m == Count(flux[z] = "new")
             p == Count(flux[z] = "waiting")
  <2>1. /\ x <= w /\ y <= o
        /\ r \in Open(requests, z) => y <= o - 1
        /\ ok /\ r \in Owing(requests, z) => x <= w - 1
    <3>1. /\ s.step # "pitched" => r.step # "pitched"
          /\ s.step \notin {"received", "pitching"}
          /\ ok => s.step = "pitched"
      BY <1>0, <1>2
    <3> HIDE DEF s
    <3> QED
      BY <1>0, <1>2, <3>1, CountsAfterAdvance
  <2>2. x \in Nat /\ y \in Nat
    BY <1>3, Counts
  <2>3. /\ delivered[z] \in Nat /\ unanswered[z] \in Nat /\ attempts[z] \in Nat
        /\ w \in Nat /\ o \in Nat /\ m \in Nat /\ p \in Nat
    <3>1. m \in Nat /\ p \in Nat
      BY DEF Count
    <3> QED
      BY <1>0, <3>1, AccountTypes
  <2>4. Balanced(delivered[z], unanswered[z], attempts[z], m, p, w, o)
    BY DEF WebhookInv, Accounts
  <2>5. CASE z # r.event
    <3>1. Balanced(delivered[z], unanswered[z], attempts[z], m, p, x, y)
      <4> HIDE DEF w, o, x, y, m, p
      <4> QED
        BY <2>1, <2>2, <2>3, <2>4, Fewer
    <3> QED
      BY <1>2, <1>7, <2>5, <3>1 DEF Accounts
  <2>6. CASE z = r.event
    <3>1. r \in Open(requests, z) /\ r \in Owing(requests, z)
      BY <1>0, <2>6 DEF Open, Owing
    <3>2. y + 1 <= o
      <4> HIDE DEF y, o
      <4> QED
        BY <2>1, <2>2, <2>3, <3>1
    <3>3. x + i <= w + j
      <4>1. CASE ok
        <5>1. x <= w - 1
          BY <2>1, <3>1, <4>1
        <5>2. i <= 1 /\ i \in Nat /\ j \in Nat
          BY <1>4
        <5> HIDE DEF x, w, i, j
        <5> QED
          BY <2>2, <2>3, <5>1, <5>2
      <4>2. CASE ~ok
        <5>1. i = j
          BY <4>2 DEF Count
        <5> HIDE DEF x, w, i, j
        <5> QED
          BY <1>4, <2>1, <2>2, <2>3, <5>1
      <4> QED
        BY <4>1, <4>2
    <3>4. Balanced(delivered[z] + i, unanswered[z] + j, attempts[z], m, p, x, y)
      <4> HIDE DEF w, o, x, y, m, p, i, j
      <4> QED
        BY <1>4, <2>2, <2>3, <2>4, <3>2, <3>3, PitchedOnce
    <3> QED
      BY <1>2, <1>5, <2>6, <3>4 DEF Accounts
  <2> QED
    BY <2>5, <2>6
<1> QED
  BY <1>6, <1>8, <1>9 DEF WebhookInv

-----------------------------------------------------------------------------
(* The rest of the process.                                                 *)

(* The server starts or stops listening, which leaves its requests alone,   *)
(* or the process ends and cuts them off.                                   *)
LEMMA ServerKeeps ==
  ASSUME WebhookInv,
         \/ /\ listening' \in BOOLEAN
            /\ UNCHANGED <<flux, attempts, requests, delivered, dropped, unanswered>>
         \/ StopWebhook
  PROVE  WebhookInv'
<1>1. CASE /\ listening' \in BOOLEAN
           /\ UNCHANGED <<flux, attempts, requests, delivered, dropped, unanswered>>
  <2>1. ASSUME NEW z \in Events PROVE Accounts(z)'
    BY <1>1 DEF WebhookInv, Accounts
  <2> QED
    BY <1>1, <2>1 DEF WebhookInv, Types, Told, Out
<1>2. CASE StopWebhook
  <2>0. /\ requests' = {} /\ listening' = FALSE /\ Types
        /\ UNCHANGED <<flux, attempts, delivered, dropped, unanswered>>
    BY <1>2 DEF StopWebhook, WebhookInv
  <2>1. Types'
    BY <2>0, FS_EmptySet DEF Types
  <2>2. Told'
    BY <2>0 DEF WebhookInv, Told, Out
  <2>3. ASSUME NEW z \in Events PROVE Accounts(z)'
    <3> DEFINE w == Cardinality(Owing(requests, z))
               o == Cardinality(Open(requests, z))
               m == Count(flux[z] = "new")
               p == Count(flux[z] = "waiting")
    <3>1. Open(requests', z) = {} /\ Owing(requests', z) = {} /\ Cardinality({}) = 0
      BY <2>0, FS_EmptySet DEF Open, Owing
    <3>2. /\ delivered[z] \in Nat /\ unanswered[z] \in Nat /\ attempts[z] \in Nat
          /\ w \in Nat /\ o \in Nat /\ m \in Nat /\ p \in Nat
      <4>1. m \in Nat /\ p \in Nat
        BY DEF Count
      <4> QED
        BY <2>0, <4>1, AccountTypes
    <3>3. Balanced(delivered[z], unanswered[z], attempts[z], m, p, w, o)
      BY DEF WebhookInv, Accounts
    <3>4. Balanced(delivered[z], unanswered[z], attempts[z], m, p, 0, 0)
      <4> HIDE DEF w, o, m, p
      <4>1. 0 <= w /\ 0 <= o /\ 0 \in Nat
        BY <3>2
      <4> QED
        BY <3>2, <3>3, <4>1, Fewer
    <3> QED
      BY <2>0, <3>1, <3>4 DEF Accounts
  <2> QED
    BY <2>1, <2>2, <2>3 DEF WebhookInv
<1> QED
  BY <1>1, <1>2

(* What the rest of the process does to the webhook and Flux.               *)
LEMMA AroundWebhook ==
  ASSUME [Next]_vars, ~FluxNext, ~HandlerNext
  PROVE  \/ UNCHANGED webhookVars
         \/ StopWebhook
         \/ /\ listening' \in BOOLEAN
            /\ UNCHANGED <<flux, attempts, requests, delivered, dropped, unanswered>>
<1>1. CASE Main
  BY <1>1 DEF Main, LoadProfile, ConnectKube, ResolveSecrets, NotifyContext, ReadBudget,
     WaitFails, ExitIfNotReady, GoCollectors, GoInformers, GoWebhook, BeginStop, Return,
     NoSources, Fail, Exit
<1>2. CASE CheckSucceeds \/ ConfigFails \/ ShutdownWebhook \/ CloseInformers
  BY <1>2 DEF CheckSucceeds, ConfigFails, ShutdownWebhook, CloseInformers, NoSources, Fail, Exit
<1>3. CASE Signal \/ Crash \/ Restart
  BY <1>3 DEF Signal, Crash, Restart, Exit
<1> QED
  BY <1>1, <1>2, <1>3 DEF Next, vars

LEMMA WebhookStep == WebhookInv /\ [Next]_vars => WebhookInv'
<1> SUFFICES ASSUME WebhookInv, [Next]_vars PROVE WebhookInv'
  OBVIOUS
<1>1. CASE FluxNext
  BY <1>1, PostKeeps, VainKeeps, GiveUpKeeps DEF FluxNext
<1>2. CASE HandlerNext
  BY <1>2, CheckKeeps, PitchKeeps, ReplyKeeps DEF HandlerNext
<1>3. CASE UNCHANGED webhookVars
  <2>1. UNCHANGED <<listening, flux, attempts, requests, delivered, dropped, unanswered>>
    BY <1>3 DEF webhookVars
  <2>2. listening \in BOOLEAN
    BY DEF WebhookInv, Types
  <2> QED
    BY <2>1, <2>2, ServerKeeps
<1> QED
  BY <1>1, <1>2, <1>3, AroundWebhook, ServerKeeps

LEMMA WebhookInvariant == Spec => []WebhookInv
  BY WebhookStart, WebhookStep, PTL DEF Spec

(* The types of the webhook and Flux, with the bounds of what they count:   *)
(* no event is delivered more often than it was posted.                     *)
THEOREM WebhookTypeCorrect == Spec => []WebhookTypeOK
<1>1. WebhookInv => WebhookTypeOK
  <2> SUFFICES ASSUME WebhookInv PROVE WebhookTypeOK
    OBVIOUS
  <2>1. ASSUME NEW e \in Events
        PROVE  delivered[e] \in 0..MaxAttempts /\ unanswered[e] \in 0..(2 * MaxAttempts)
    <3> DEFINE w == Cardinality(Owing(requests, e))
               o == Cardinality(Open(requests, e))
               n == Count(flux[e] = "new")
               p == Count(flux[e] = "waiting")
    <3>1. /\ delivered[e] \in Nat /\ unanswered[e] \in Nat /\ attempts[e] \in Nat
          /\ w \in Nat /\ o \in Nat
      BY AccountTypes DEF WebhookInv
    <3>2. n \in Nat /\ p \in Nat
      BY DEF Count
    <3>3. MaxAttempts \in Nat
      BY WebhookAssumption DEF WebhookAssumption
    <3>4. Balanced(delivered[e], unanswered[e], attempts[e], n, p, w, o)
      BY DEF WebhookInv, Accounts
    <3> HIDE DEF w, o, n, p
    <3> QED
      BY <3>1, <3>2, <3>3, <3>4 DEF Balanced
  <2>2. /\ delivered \in [Events -> 0..MaxAttempts]
        /\ unanswered \in [Events -> 0..(2 * MaxAttempts)]
    BY <2>1 DEF WebhookInv, Types
  <2> QED
    BY <2>2 DEF WebhookInv, Types, WebhookTypeOK, FluxStates
<1> QED
  BY <1>1, WebhookInvariant, PTL

(* AcceptedIsOut: what Flux takes for accepted reached the target or was    *)
(* dropped by the throttle.                                                 *)
THEOREM AcceptedOut == Spec => []AcceptedIsOut
<1>1. WebhookInv => AcceptedIsOut
  BY DEF WebhookInv, Told, Out, AcceptedIsOut
<1> QED
  BY <1>1, WebhookInvariant, PTL

(* NoNeedlessDuplicate: every further delivery of an event was paid for     *)
(* with an answer that Flux did not get or that was not true.               *)
THEOREM DuplicatesPaidFor == Spec => []NoNeedlessDuplicate
<1>1. WebhookInv => NoNeedlessDuplicate
  <2> SUFFICES ASSUME WebhookInv, NEW e \in Events
               PROVE  delivered[e] <= 1 + unanswered[e]
    BY DEF NoNeedlessDuplicate
  <2> DEFINE w == Cardinality(Owing(requests, e))
             o == Cardinality(Open(requests, e))
             n == Count(flux[e] = "new")
             p == Count(flux[e] = "waiting")
  <2>1. delivered[e] \in Nat /\ unanswered[e] \in Nat /\ w \in Nat
    BY AccountTypes DEF WebhookInv
  <2>2. n \in Nat
    BY DEF Count
  <2>3. Balanced(delivered[e], unanswered[e], attempts[e], n, p, w, o)
    BY DEF WebhookInv, Accounts
  <2> HIDE DEF w, o, n, p
  <2> QED
    BY <2>1, <2>2, <2>3 DEF Balanced
<1> QED
  BY <1>1, WebhookInvariant, PTL

=============================================================================
