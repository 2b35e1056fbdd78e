------------------------ MODULE SubscriptionsProofs -------------------------
(***************************************************************************)
(* Proofs about module Subscriptions: its types, that the books agree, and *)
(* how often a payment can be credited.                                    *)
(***************************************************************************)
EXTENDS Subscriptions, FiniteSetTheorems, TLAPS

\* A checkout that is being saved has not been saved, and no other process saves it; what
\* a request pursues has been saved, and what it has confirmed has been paid.
RequestsOK ==
    \A s \in Sessions :
        /\ request[s].pc \in {"checkout", "found", "polled", "fulfil"} => request[s].c \in Checkouts
        /\ At(s, "checkout") =>
              /\ payment[request[s].c].st = "none"
              /\ gateway[request[s].c] # "idle"
              /\ \A r \in Sessions : At(r, "checkout") /\ request[r].c = request[s].c => r = s
        /\ request[s].pc \in {"found", "polled", "fulfil"} => payment[request[s].c].st # "none"
        /\ request[s].pc \in {"found", "fulfil"} => gateway[request[s].c] = "paid"

\* What has not been asked for has not been saved.
CheckoutsOK == \A c \in Checkouts : gateway[c] = "idle" => payment[c].st = "none"

\* Once a payment is credited nobody new passes the idempotency check, and each request
\* that has passed it credits the payment at most once more.
PursuitBound ==
    \A c \in Checkouts :
        credited[c] > 0 => credited[c] + Cardinality(Pursuing(c)) <= Cardinality(Sessions)

SInv == TypeOK /\ RequestsOK /\ CheckoutsOK /\ BooksAgree /\ PursuitBound

-----------------------------------------------------------------------------
(* Types *)

LEMMA WriteTypes ==
    ASSUME TypeOK
    PROVE  /\ \A w \in Write : Apply(w) \in SubRow
           /\ \A plan \in Plans : Changed(plan) \in Plans \cup {"same"}
           /\ \A c \in Checkouts : Extension(c) \in Write
           /\ Idle \in Request /\ NoWrite \in Write
<1>1. \A w \in Write : Apply(w) \in SubRow
  BY DEF TypeOK, Write, Apply, SubRow
<1>2. \A plan \in Plans : Changed(plan) \in Plans \cup {"same"}
  BY DEF Changed
<1>3. ASSUME NEW c \in Checkouts
      PROVE  Extension(c) \in Write
  <2>1. (IF sub.end # None /\ sub.end > now THEN sub.end ELSE now) + Period \in Nat
    BY ConstantsAssumption DEF TypeOK, SubRow, End
  <2>2. payment[c].plan \in Plans
    BY DEF TypeOK, PaymentRow
  <2> QED BY <2>1, <2>2 DEF Extension, Write, End
<1>4. Idle \in Request /\ NoWrite \in Write
  BY DEF Idle, Request, NoWrite, Write, End, Pc
<1> QED BY <1>1, <1>2, <1>3, <1>4

\* A step keeps the types.
LEMMA TypeStep == TypeOK /\ RequestsOK /\ [Next]_vars => TypeOK'
<1> SUFFICES ASSUME TypeOK, RequestsOK, [Next]_vars
             PROVE  TypeOK'
  OBVIOUS
<1> USE ConstantsAssumption, WriteTypes DEF TypeOK, vars, billing, world
<1>1. ASSUME NEW s \in Sessions, Start(s)
      PROVE  TypeOK'
  <2>1. ASSUME NEW pc \in Pc, NEW c \in Checkouts \cup {None}, NEW b \in BOOLEAN,
               NEW w \in Write, Begin(s, pc, c, b, w)
        PROVE  request' \in [Sessions -> Request]
    BY <2>1 DEF Begin, Request
  <2>2. ASSUME NEW c \in Checkouts, CheckoutAsk(s, c)
        PROVE  TypeOK'
    BY <2>1, <2>2 DEF CheckoutAsk, Pc
  <2>3. ASSUME NEW c \in Checkouts, WebhookRead(s, c)
        PROVE  TypeOK'
    BY <2>1, <2>3 DEF WebhookRead, Pc
  <2>4. ASSUME NEW c \in Checkouts, WebhookIgnored(s, c)
        PROVE  TypeOK'
    BY <2>4 DEF WebhookIgnored
  <2>5. ASSUME NEW c \in Checkouts, PollRead(s, c)
        PROVE  TypeOK'
    BY <2>1, <2>5 DEF PollRead, Pc
  <2>6. CASE TrialRead(s)
    <3>1. [plan |-> Changed("pro"), end |-> now + Trial] \in Write
      BY DEF Write, End, Plans
    <3> QED BY <2>1, <2>6, <3>1 DEF TrialRead, Pc
  <2>7. ASSUME NEW plan \in Plans, OverrideRead(s, plan)
        PROVE  TypeOK'
    <3>1. (IF sub.end = None THEN now ELSE sub.end) + Period \in Nat
      BY DEF SubRow, End
    <3>2. [plan |-> Changed(plan),
           end |-> (IF sub.end = None THEN now ELSE sub.end) + Period] \in Write
      BY <3>1 DEF Write, End
    <3> QED BY <2>1, <2>7, <3>2 DEF OverrideRead, Pc
  <2>8. CASE SweepRead(s)
    <3>1. [plan |-> Changed("basic"), end |-> None] \in Write
      BY DEF Write, End, Plans
    <3> QED BY <2>1, <2>8, <3>1 DEF SweepRead, Pc
  <2> QED BY <1>1, <2>2, <2>3, <2>4, <2>5, <2>6, <2>7, <2>8 DEF Start
<1>2. ASSUME NEW s \in Sessions, Continue(s)
      PROVE  TypeOK'
  <2>1. EndRequest(s) => request' \in [Sessions -> Request]
    BY DEF EndRequest
  <2>2. Apply(request[s].write) \in SubRow
    BY DEF Request
  <2>3. Answer(s) /\ request[s].c \in Checkouts => answered' \subseteq Checkouts
    BY DEF Answer
  <2>4. ASSUME NEW plan \in Plans, CheckoutSave(s, plan)
        PROVE  TypeOK'
    BY <2>1, <2>4 DEF CheckoutSave, PaymentRow
  <2>5. CASE FulfilRead(s)
    <3>1. request[s].c \in Checkouts
      BY <2>5 DEF FulfilRead, RequestsOK, At
    <3>2. Extension(request[s].c) \in Write
      BY <3>1
    <3>3. [request[s] EXCEPT !.pc = "fulfil", !.write = Extension(request[s].c)] \in Request
      BY <3>2 DEF Request, Pc
    <3>4. request' \in [Sessions -> Request]
      BY <2>5, <3>3 DEF FulfilRead
    <3> QED BY <2>5, <3>4 DEF FulfilRead
  <2>6. CASE PollPaid(s)
    <3>1. request[s].c \in Checkouts
      BY <2>6 DEF PollPaid, RequestsOK, At
    <3>2. Extension(request[s].c) \in Write
      BY <3>1
    <3>3. [request[s] EXCEPT !.pc = "fulfil", !.write = Extension(request[s].c)] \in Request
      BY <3>2 DEF Request, Pc
    <3>4. request' \in [Sessions -> Request]
      BY <2>6, <3>3 DEF PollPaid
    <3> QED BY <2>6, <3>4 DEF PollPaid
  <2>7. CASE FulfilCommit(s)
    <3>1. request[s].c \in Checkouts
      BY <2>7 DEF FulfilCommit, RequestsOK, At
    <3> QED BY <2>1, <2>2, <2>3, <2>7, <3>1 DEF FulfilCommit, PaymentRow
  <2>8. CASE FulfilFails(s)
    <3>1. request[s].c \in Checkouts
      BY <2>8 DEF FulfilFails, RequestsOK
    <3> QED BY <2>1, <2>3, <2>8, <3>1 DEF FulfilFails
  <2>9. CASE PollDeclined(s)
    BY <2>1, <2>9 DEF PollDeclined, PaymentRow
  <2>10. CASE PollUnknown(s)
    BY <2>1, <2>10 DEF PollUnknown
  <2>11. CASE TrialCommit(s) \/ OverrideCommit(s) \/ SweepCommit(s)
    BY <2>1, <2>2, <2>11 DEF TrialCommit, OverrideCommit, SweepCommit
  <2> QED BY <1>2, <2>4, <2>5, <2>6, <2>7, <2>8, <2>9, <2>10, <2>11 DEF Continue
<1>3. ASSUME NEW s \in Sessions, Crash(s)
      PROVE  TypeOK'
  BY <1>3 DEF Crash, EndRequest
<1>4. ASSUME NEW c \in Checkouts, Pay(c) \/ Decline(c) \/ Refund(c)
      PROVE  TypeOK'
  BY <1>4 DEF Pay, Decline, Refund
<1>5. CASE Tick
  BY <1>5 DEF Tick
<1>6. CASE UNCHANGED vars
  BY <1>6
<1> QED BY <1>1, <1>2, <1>3, <1>4, <1>5, <1>6 DEF Next

-----------------------------------------------------------------------------
(* The invariant *)

\* Pursuers are processes, and fewer of them are fewer.
LEMMA PursuersFinite ==
    \A c \in Checkouts : /\ IsFiniteSet(Pursuing(c))
                         /\ Cardinality(Pursuing(c)) \in Nat
                         /\ Cardinality(Pursuing(c)) <= Cardinality(Sessions)
                         /\ Cardinality(Sessions) \in Nat
<1> SUFFICES ASSUME NEW c \in Checkouts
             PROVE  /\ IsFiniteSet(Pursuing(c))
                    /\ Cardinality(Pursuing(c)) \in Nat
                    /\ Cardinality(Pursuing(c)) <= Cardinality(Sessions)
                    /\ Cardinality(Sessions) \in Nat
  OBVIOUS
<1>1. IsFiniteSet(Sessions) /\ Pursuing(c) \subseteq Sessions
  BY ConstantsAssumption DEF Pursuing
<1> QED BY <1>1, FS_Subset, FS_CardinalityType

LEMMA FewerPursue ==
    ASSUME NEW c \in Checkouts, Pursuing(c)' \subseteq Pursuing(c)
    PROVE  /\ Cardinality(Pursuing(c)') \in Nat
           /\ Cardinality(Pursuing(c)') <= Cardinality(Pursuing(c))
           /\ Cardinality(Pursuing(c)) \in Nat
           /\ Cardinality(Sessions) \in Nat
BY PursuersFinite, FS_Subset, FS_CardinalityType

\* Nothing that has to do with a payment changes.
QuietStep == UNCHANGED <<billing, gateway>>

\* Requests that only end, or that pursue no payment, leave the invariant alone.
LEMMA Quiet ==
    ASSUME SInv, TypeOK', QuietStep,
           \A s \in Sessions : \/ request'[s] = request[s]
                               \/ request'[s].pc \in Pc \ {"checkout", "found", "polled", "fulfil"}
    PROVE  SInv'
<1> USE DEF SInv, QuietStep, billing
<1>1. RequestsOK'
  BY DEF RequestsOK, At
<1>2. CheckoutsOK' /\ BooksAgree'
  BY DEF CheckoutsOK, BooksAgree
<1>3. PursuitBound'
  <2> SUFFICES ASSUME NEW c \in Checkouts, credited[c] > 0
               PROVE  credited[c] + Cardinality(Pursuing(c)') <= Cardinality(Sessions)
    BY DEF PursuitBound
  <2>1. Pursuing(c)' \subseteq Pursuing(c)
    BY DEF Pursuing
  <2> QED BY <2>1, FewerPursue DEF PursuitBound, TypeOK
<1> QED BY <1>1, <1>2, <1>3

\* The bound holds on as long as nobody is credited and nobody new pursues what is.
LEMMA BoundKept ==
    ASSUME TypeOK, PursuitBound, UNCHANGED credited,
           \A c \in Checkouts : credited[c] > 0 => Pursuing(c)' \subseteq Pursuing(c)
    PROVE  PursuitBound'
<1> SUFFICES ASSUME NEW c \in Checkouts, credited[c] > 0
             PROVE  credited[c] + Cardinality(Pursuing(c)') <= Cardinality(Sessions)
  BY DEF PursuitBound
<1> QED BY FewerPursue DEF PursuitBound, TypeOK

\* A new checkout.
LEMMA AskStep ==
    ASSUME SInv, TypeOK', NEW s \in Sessions, NEW c \in Checkouts, CheckoutAsk(s, c)
    PROVE  SInv'
<1> USE DEF SInv, billing
<1>1. /\ request'[s].pc = "checkout" /\ request'[s].c = c
      /\ \A r \in Sessions \ {s} : request'[r] = request[r]
      /\ gateway[c] = "idle" /\ payment[c].st = "none" /\ gateway'[c] = "asked"
      /\ \A d \in Checkouts \ {c} : gateway'[d] = gateway[d]
      /\ UNCHANGED billing
  BY DEF CheckoutAsk, Begin, TypeOK, CheckoutsOK
<1>2. \A r \in Sessions \ {s} :
         request[r].pc \in {"checkout", "found", "polled", "fulfil"} => request[r].c # c
  BY <1>1 DEF RequestsOK, At
<1>3. RequestsOK'
  BY <1>1, <1>2 DEF RequestsOK, At
<1>4. CheckoutsOK' /\ BooksAgree'
  BY <1>1 DEF CheckoutsOK, BooksAgree
<1>5. PursuitBound'
  <2>1. \A d \in Checkouts : Pursuing(d)' \subseteq Pursuing(d)
    BY <1>1 DEF Pursuing
  <2> QED BY <1>1, <2>1, BoundKept
<1> QED BY <1>3, <1>4, <1>5

\* The pending payment is saved; nobody else was at that checkout.
LEMMA SaveStep ==
    ASSUME SInv, TypeOK', NEW s \in Sessions, NEW plan \in Plans, CheckoutSave(s, plan)
    PROVE  SInv'
<1> USE DEF SInv, billing, world
<1> DEFINE c == request[s].c
<1>1. /\ At(s, "checkout") /\ c \in Checkouts /\ payment[c].st = "none" /\ gateway[c] # "idle"
      /\ \A r \in Sessions : At(r, "checkout") /\ request[r].c = c => r = s
  BY DEF CheckoutSave, RequestsOK, At
<1>2. /\ request'[s].pc = "idle"
      /\ \A r \in Sessions \ {s} : request'[r] = request[r]
      /\ payment'[c].st = "pending"
      /\ \A d \in Checkouts \ {c} : payment'[d] = payment[d]
      /\ UNCHANGED <<refunds, credited, world>>
  BY <1>1 DEF CheckoutSave, EndRequest, Idle, TypeOK
<1> HIDE DEF c
<1>3. RequestsOK'
  BY <1>1, <1>2 DEF RequestsOK, At
<1>4. CheckoutsOK' /\ BooksAgree'
  BY <1>1, <1>2 DEF CheckoutsOK, BooksAgree
<1>5. PursuitBound'
  <2>1. \A d \in Checkouts : Pursuing(d)' \subseteq Pursuing(d)
    BY <1>1, <1>2 DEF Pursuing
  <2> QED BY <1>2, <2>1, BoundKept
<1> QED BY <1>3, <1>4, <1>5

\* A request gets past the idempotency check of a payment that is not credited yet.
LEMMA PursueStep ==
    ASSUME SInv, TypeOK', NEW s \in Sessions, NEW c \in Checkouts,
           WebhookRead(s, c) \/ PollRead(s, c)
    PROVE  SInv'
<1> USE DEF SInv, billing, world
<1>1. /\ request'[s].c = c
      /\ request'[s].pc \in {"found", "polled"}
      /\ request'[s].pc = "found" => gateway[c] = "paid"
      /\ \A r \in Sessions \ {s} : request'[r] = request[r]
      /\ payment[c].st \in {"pending", "failed"}
      /\ UNCHANGED <<billing, world>>
  BY DEF WebhookRead, PollRead, Begin, TypeOK, Unfinished
<1>2. RequestsOK'
  BY <1>1 DEF RequestsOK, At
<1>3. CheckoutsOK' /\ BooksAgree'
  BY <1>1 DEF CheckoutsOK, BooksAgree
<1>4. PursuitBound'
  <2>1. ~(credited[c] > 0)
    BY <1>1 DEF BooksAgree
  <2>2. \A d \in Checkouts \ {c} : Pursuing(d)' \subseteq Pursuing(d)
    BY <1>1 DEF Pursuing
  <2> QED BY <1>1, <2>1, <2>2, BoundKept
<1> QED BY <1>2, <1>3, <1>4

\* A request that pursues a payment computes what to write.
LEMMA ComputeStep ==
    ASSUME SInv, TypeOK', NEW s \in Sessions, FulfilRead(s) \/ PollPaid(s)
    PROVE  SInv'
<1> USE DEF SInv, billing, world
<1>1. /\ request[s].pc \in {"found", "polled"}
      /\ request'[s].c = request[s].c /\ request'[s].pc = "fulfil"
      /\ gateway[request[s].c] = "paid"
      /\ \A r \in Sessions \ {s} : request'[r] = request[r]
      /\ UNCHANGED <<billing, world>>
  BY DEF FulfilRead, PollPaid, TypeOK, Request, RequestsOK, At
<1>2. RequestsOK'
  BY <1>1 DEF RequestsOK, At
<1>3. CheckoutsOK' /\ BooksAgree'
  BY <1>1 DEF CheckoutsOK, BooksAgree
<1>4. PursuitBound'
  <2>1. \A d \in Checkouts : Pursuing(d)' \subseteq Pursuing(d)
    BY <1>1 DEF Pursuing
  <2> QED BY <1>1, <2>1, BoundKept
<1> QED BY <1>2, <1>3, <1>4

\* A fulfilment: one more credit, one pursuer less.
LEMMA CommitStep ==
    ASSUME SInv, TypeOK', NEW s \in Sessions, FulfilCommit(s)
    PROVE  SInv'
<1> USE DEF SInv, world
<1>0. PICK c : c = request[s].c
  OBVIOUS
<1>1. /\ At(s, "fulfil") /\ c \in Checkouts /\ payment[c].st # "none" /\ gateway[c] = "paid"
  BY <1>0 DEF FulfilCommit, RequestsOK, At
<1>2. /\ request'[s].pc = "idle"
      /\ \A r \in Sessions \ {s} : request'[r] = request[r]
      /\ payment'[c].st = "success" /\ credited'[c] = credited[c] + 1
      /\ \A d \in Checkouts \ {c} : payment'[d] = payment[d] /\ credited'[d] = credited[d]
      /\ UNCHANGED <<refunds, gateway>>
  BY <1>0, <1>1 DEF FulfilCommit, EndRequest, Idle, TypeOK, PaymentRow
<1>3. RequestsOK'
  BY <1>1, <1>2 DEF RequestsOK, At
<1>4. CheckoutsOK' /\ BooksAgree'
  BY <1>1, <1>2 DEF CheckoutsOK, BooksAgree, TypeOK
<1>5. ASSUME NEW d \in Checkouts, credited'[d] > 0
      PROVE  credited'[d] + Cardinality(Pursuing(d)') <= Cardinality(Sessions)
  <2>1. CASE d = c
    <3>1. s \in Pursuing(c) /\ Pursuing(c)' = Pursuing(c) \ {s}
      BY <1>0, <1>1, <1>2 DEF Pursuing, At
    <3>2. /\ Cardinality(Pursuing(c)') = Cardinality(Pursuing(c)) - 1
          /\ Cardinality(Pursuing(c)) \in Nat
          /\ Cardinality(Pursuing(c)) <= Cardinality(Sessions)
          /\ Cardinality(Sessions) \in Nat
      BY <1>1, <3>1, PursuersFinite, FS_RemoveElement
    <3>3. credited[c] \in Nat
      BY <1>1 DEF TypeOK
    <3>4. CASE credited[c] > 0
      BY <1>1, <1>2, <2>1, <3>2, <3>3, <3>4 DEF PursuitBound
    <3>5. CASE credited[c] = 0
      BY <1>2, <2>1, <3>2, <3>5
    <3> QED BY <3>3, <3>4, <3>5
  <2>2. CASE d # c
    <3>1. Pursuing(d)' \subseteq Pursuing(d)
      BY <1>2 DEF Pursuing
    <3> QED BY <1>2, <1>5, <2>2, <3>1, FewerPursue DEF PursuitBound, TypeOK
  <2> QED BY <2>1, <2>2
<1>6. PursuitBound'
  BY <1>5 DEF PursuitBound
<1> QED BY <1>3, <1>4, <1>6

\* The provider has not got the money, so nobody has been credited for it.
LEMMA DeclinedStep ==
    ASSUME SInv, TypeOK', NEW s \in Sessions, PollDeclined(s)
    PROVE  SInv'
<1> USE DEF SInv, world
<1> DEFINE c == request[s].c
<1>1. /\ c \in Checkouts /\ payment[c].st # "none" /\ gateway[c] = "declined"
  BY DEF PollDeclined, RequestsOK, At
<1>2. /\ request'[s].pc = "idle"
      /\ \A r \in Sessions \ {s} : request'[r] = request[r]
      /\ payment'[c].st = "failed"
      /\ \A d \in Checkouts \ {c} : payment'[d] = payment[d]
      /\ UNCHANGED <<refunds, credited, world>>
  BY <1>1 DEF PollDeclined, EndRequest, Idle, TypeOK, PaymentRow
<1> HIDE DEF c
<1>3. RequestsOK'
  BY <1>1, <1>2 DEF RequestsOK, At
<1>4. CheckoutsOK' /\ BooksAgree'
  BY <1>1, <1>2 DEF CheckoutsOK, BooksAgree, TypeOK
<1>5. PursuitBound'
  <2>1. \A d \in Checkouts : Pursuing(d)' \subseteq Pursuing(d)
    BY <1>2 DEF Pursuing
  <2> QED BY <1>2, <2>1, BoundKept
<1> QED BY <1>3, <1>4, <1>5

\* What happens at the provider, and a refund, concerns no request.
LEMMA OutsideStep ==
    ASSUME SInv, TypeOK', NEW c \in Checkouts, Pay(c) \/ Decline(c) \/ Refund(c)
    PROVE  SInv'
<1> USE DEF SInv, billing, world
<1>1. /\ UNCHANGED <<request, payment, credited>>
      /\ \A d \in Checkouts : /\ gateway[d] = "paid" => gateway'[d] = "paid"
                              /\ gateway'[d] = "idle" <=> gateway[d] = "idle"
      /\ \A d \in Checkouts : refunds'[d] > 0 => refunds[d] > 0 \/ payment[d].st = "success"
  BY DEF Pay, Decline, Refund, TypeOK
<1>2. RequestsOK'
  BY <1>1 DEF RequestsOK, At
<1>3. CheckoutsOK' /\ BooksAgree'
  BY <1>1 DEF CheckoutsOK, BooksAgree
<1>4. PursuitBound'
  BY <1>1, BoundKept DEF Pursuing
<1> QED BY <1>2, <1>3, <1>4

-----------------------------------------------------------------------------
(* The theorems *)

LEMMA SInvStep == SInv /\ [Next]_vars => SInv'
<1> SUFFICES ASSUME SInv, [Next]_vars
             PROVE  SInv'
  OBVIOUS
<1>0. TypeOK'
  BY TypeStep DEF SInv
<1> USE <1>0
<1>1. ASSUME NEW s \in Sessions, Start(s)
      PROVE  SInv'
  <2>1. ASSUME NEW c \in Checkouts, WebhookIgnored(s, c)
        PROVE  SInv'
    BY <2>1, Quiet DEF WebhookIgnored, QuietStep, billing
  <2>2. CASE TrialRead(s) \/ SweepRead(s)
    BY <2>2, Quiet DEF TrialRead, SweepRead, Begin, QuietStep, billing, world, Pc, SInv, TypeOK
  <2>3. ASSUME NEW plan \in Plans, OverrideRead(s, plan)
        PROVE  SInv'
    BY <2>3, Quiet DEF OverrideRead, Begin, QuietStep, billing, world, Pc, SInv, TypeOK
  <2> QED BY <1>1, <2>1, <2>2, <2>3, AskStep, PursueStep DEF Start
<1>2. ASSUME NEW s \in Sessions, EndRequest(s), QuietStep
      PROVE  SInv'
  BY <1>2, Quiet DEF EndRequest, Idle, Pc, SInv, TypeOK
<1>3. ASSUME NEW s \in Sessions, Continue(s)
      PROVE  SInv'
  <2>1. FulfilFails(s) \/ PollUnknown(s) => EndRequest(s) /\ QuietStep
    BY DEF FulfilFails, PollUnknown, QuietStep, billing, world
  <2>2. TrialCommit(s) \/ OverrideCommit(s) \/ SweepCommit(s) => EndRequest(s) /\ QuietStep
    BY DEF TrialCommit, OverrideCommit, SweepCommit, QuietStep, billing, world
  <2> QED BY <1>2, <1>3, <2>1, <2>2, SaveStep, ComputeStep, CommitStep, DeclinedStep DEF Continue
<1>4. ASSUME NEW s \in Sessions, Crash(s)
      PROVE  SInv'
  BY <1>2, <1>4 DEF Crash, QuietStep, billing, world
<1>5. CASE Tick \/ UNCHANGED vars
  BY <1>5, Quiet DEF Tick, vars, QuietStep, billing
<1> QED BY <1>1, <1>3, <1>4, <1>5, OutsideStep DEF Next

LEMMA SInvInit == Init => SInv
<1> SUFFICES ASSUME Init
             PROVE  SInv
  OBVIOUS
<1>1. TypeOK
  BY ConstantsAssumption
     DEF Init, TypeOK, SubRow, End, Plans, NoPayment, PaymentRow, Idle, NoWrite, Request, Write, Pc
<1>2. RequestsOK /\ CheckoutsOK
  BY DEF Init, RequestsOK, CheckoutsOK, At, Idle, NoPayment
<1>3. BooksAgree /\ PursuitBound
  BY DEF Init, BooksAgree, PursuitBound, NoPayment
<1> QED BY <1>1, <1>2, <1>3 DEF SInv

\* The invariant holds in every reachable state.
THEOREM SubscriptionsInductive == Spec => []SInv
BY SInvInit, SInvStep, PTL DEF Spec

\* Every variable keeps its type, for any number of checkouts and processes.
THEOREM SubscriptionsTyped == Spec => []TypeOK
<1>1. SInv => TypeOK
  BY DEF SInv
<1> QED BY <1>1, SubscriptionsInductive, PTL

\* A payment is marked successful when and only when it has extended the subscription, and
\* only when the provider has the money: fulfilment commits both at once, and an overtaken
\* poll does not take the mark away.
THEOREM BooksAlwaysAgree == Spec => []BooksAgree
<1>1. SInv => BooksAgree
  BY DEF SInv
<1> QED BY <1>1, SubscriptionsInductive, PTL

\* The idempotency check of process_success bounds the credits of a payment by the number
\* of processes; with a single one it makes them one.
THEOREM CreditIsBounded == Spec => []CreditBound
<1>1. SInv => CreditBound
  <2> SUFFICES ASSUME SInv, NEW c \in Checkouts
               PROVE  credited[c] <= Cardinality(Sessions)
    BY DEF CreditBound
  <2>1. credited[c] \in Nat
    BY DEF SInv, TypeOK
  <2> QED BY <2>1, PursuersFinite DEF SInv, PursuitBound
<1> QED BY <1>1, SubscriptionsInductive, PTL

=============================================================================
