--------------------------- MODULE Subscriptions ----------------------------
(***************************************************************************)
(* The subscription of one treasurer and the payments for it: checkout,    *)
(* the provider's webhook, the browser's polling, fulfilment, the trial,   *)
(* the administrator's override and refund, and the daily expiry sweep.    *)
(* Each runs in a process of its own (one database session, PostgreSQL at  *)
(* READ COMMITTED, no row locks): it reads, may wait for a provider or a   *)
(* mail server, computes in Python and writes by primary key what it       *)
(* found changed.                                                          *)
(*                                                                         *)
(* The provider is external: it is asked for the money, gets it or not,    *)
(* calls the webhook until that has answered, and may call it again.       *)
(***************************************************************************)
EXTENDS Naturals, FiniteSets

CONSTANTS
    Checkouts,     \* attempts to pay, by the provider's correlation id
    Cards,         \* those through Flutterwave; the others are M-Pesa prompts
    Sessions,      \* processes
    Period,        \* what a payment buys
    Trial,         \* what the trial gives
    Horizon,       \* bounds the clock
    MaxEnd,        \* bounds what overrides grant
    MaxRefunds,    \* bounds the refunds of a payment
    None           \* NULL

ASSUME ConstantsAssumption ==
    /\ Cards \subseteq Checkouts
    /\ IsFiniteSet(Sessions)
    /\ Period \in Nat \ {0} /\ Trial \in Nat \ {0}
    /\ Horizon \in Nat /\ MaxEnd \in Nat /\ MaxRefunds \in Nat
    /\ None \notin Nat \cup Checkouts

VARIABLES
    sub,           \* the row of subscriptions
    hasUsedTrial,  \* users.has_used_trial
    payment,       \* rows of subscription_payments, by provider_reference
    refunds,       \* refund rows by payment
    request,       \* what each process is in the middle of
    gateway,       \* external: what the provider knows of a checkout
    answered,      \* external: checkouts whose webhook call got its 200
    now,           \* the clock
    credited       \* history: how many times a payment has extended the subscription

vars == <<sub, hasUsedTrial, payment, refunds, request, gateway, answered, now, credited>>

billing == <<payment, refunds, credited>>
world == <<gateway, answered, now>>

-----------------------------------------------------------------------------
(* Rows, requests, and what a request will write *)

Plans == {"basic", "pro"}

End == Nat \cup {None}

SubRow == [plan : Plans, end : End]

PaymentRow == [st : {"none", "pending", "success", "failed"}, plan : Plans]

\* An attribute set to the value it was loaded with is not part of the UPDATE.
Write == [plan : Plans \cup {"same"}, end : End]

Pc == {"idle", "checkout", "found", "polled", "fulfil", "trial", "override", "sweep"}

Request == [pc : Pc, c : Checkouts \cup {None}, webhook : BOOLEAN, write : Write]

NoWrite == [plan |-> "same", end |-> None]

Idle == [pc |-> "idle", c |-> None, webhook |-> FALSE, write |-> NoWrite]

NoPayment == [st |-> "none", plan |-> "basic"]

Changed(plan) == IF sub.plan = plan THEN "same" ELSE plan

Apply(w) == [plan |-> IF w.plan = "same" THEN sub.plan ELSE w.plan, end |-> w.end]

At(s, pc) == request[s].pc = pc

Begin(s, pc, c, webhook, w) ==
    request' = [request EXCEPT ![s] = [pc |-> pc, c |-> c, webhook |-> webhook, write |-> w]]

EndRequest(s) == request' = [request EXCEPT ![s] = Idle]

\* What the webhook of session s, if it is one, does when it answers.
Answer(s) == answered' = IF request[s].webhook THEN answered \cup {request[s].c} ELSE answered

-----------------------------------------------------------------------------
(* The provider *)

\* The user enters the PIN or the card.  An M-Pesa prompt reaches the phone as soon as
\* the provider is asked; a card needs the link of the response.
Pay(c) ==
    /\ gateway[c] = "asked"
    /\ c \in Cards => payment[c].st # "none"
    /\ gateway' = [gateway EXCEPT ![c] = "paid"]
    /\ UNCHANGED <<sub, hasUsedTrial, billing, request, answered, now>>

Decline(c) ==
    /\ gateway[c] = "asked"
    /\ gateway' = [gateway EXCEPT ![c] = "declined"]
    /\ UNCHANGED <<sub, hasUsedTrial, billing, request, answered, now>>

-----------------------------------------------------------------------------
(* Checkout: ask the provider, then save the pending payment *)

CheckoutAsk(s, c) ==
    /\ At(s, "idle")
    /\ gateway[c] = "idle"
    /\ gateway' = [gateway EXCEPT ![c] = "asked"]
    /\ Begin(s, "checkout", c, FALSE, NoWrite)
    /\ UNCHANGED <<sub, hasUsedTrial, billing, answered, now>>

CheckoutSave(s, plan) ==
    /\ At(s, "checkout")
    /\ payment' = [payment EXCEPT ![request[s].c] = [st |-> "pending", plan |-> plan]]
    /\ EndRequest(s)
    /\ UNCHANGED <<sub, hasUsedTrial, refunds, credited, world>>

-----------------------------------------------------------------------------
(* Fulfilment *)

\* Slip: the idempotency check is gone.
Unfinished_Always(c) == payment[c].st # "none"

\* The idempotency check, on the payment as this session first read it: a later query
\* of the session returns the same object with the same status.
Unfinished(c) == payment[c].st \in {"pending", "failed"}

\* The subscription as read now, extended.  plan_id is assigned as a string, which
\* never equals the loaded UUID, so it is always written.
Extension(c) ==
    [plan |-> payment[c].plan,
     end  |-> (IF sub.end # None /\ sub.end > now THEN sub.end ELSE now) + Period]

\* The webhook, up to its look at the payment.
WebhookRead(s, c) ==
    /\ At(s, "idle")
    /\ gateway[c] = "paid"
    /\ Unfinished(c)
    /\ Begin(s, "found", c, TRUE, NoWrite)
    /\ UNCHANGED <<sub, hasUsedTrial, billing, world>>

\* No payment with this reference, so no user to credit; or one that is done.  The
\* provider gets its 200 all the same.
WebhookIgnored(s, c) ==
    /\ At(s, "idle")
    /\ gateway[c] = "paid"
    /\ ~Unfinished(c)
    /\ answered' = answered \cup {c}
    /\ UNCHANGED <<sub, hasUsedTrial, billing, request, gateway, now>>

FulfilRead(s) ==
    /\ At(s, "found")
    /\ request' = [request EXCEPT ![s].pc = "fulfil", ![s].write = Extension(request[s].c)]
    /\ UNCHANGED <<sub, hasUsedTrial, billing, world>>

\* One commit for subscription and payment; mail and notification follow it.
FulfilCommit(s) ==
    LET c == request[s].c IN
    /\ At(s, "fulfil")
    /\ sub' = Apply(request[s].write)
    /\ payment' = [payment EXCEPT ![c].st = "success"]
    /\ credited' = [credited EXCEPT ![c] = @ + 1]
    /\ Answer(s)
    /\ EndRequest(s)
    /\ UNCHANGED <<hasUsedTrial, refunds, gateway, now>>

\* An exception: the webhook logs it and answers 200, the polling logs it and reports
\* the status it knows.
FulfilFails(s) ==
    /\ request[s].pc \in {"found", "fulfil", "polled"}
    /\ Answer(s)
    /\ EndRequest(s)
    /\ UNCHANGED <<sub, hasUsedTrial, billing, gateway, now>>

-----------------------------------------------------------------------------
(* Polling: read the payment, ask the provider, act on the answer *)

\* Only M-Pesa is asked, and only about a pending payment.
PollRead(s, c) ==
    /\ At(s, "idle")
    /\ c \notin Cards
    /\ payment[c].st = "pending"
    /\ Begin(s, "polled", c, FALSE, NoWrite)
    /\ UNCHANGED <<sub, hasUsedTrial, billing, world>>

\* process_success finds the payment as PollRead read it and goes on to the subscription.
PollPaid(s) ==
    /\ At(s, "polled")
    /\ gateway[request[s].c] = "paid"
    /\ request' = [request EXCEPT ![s].pc = "fulfil", ![s].write = Extension(request[s].c)]
    /\ UNCHANGED <<sub, hasUsedTrial, billing, world>>

\* Slip: any answer but success fails the payment.
PollDeclined_Premature(s) ==
    LET c == request[s].c IN
    /\ At(s, "polled")
    /\ payment' = [payment EXCEPT ![c].st = "failed"]
    /\ EndRequest(s)
    /\ UNCHANGED <<sub, hasUsedTrial, refunds, credited, world>>

\* The write goes by primary key, whatever the status has become.
PollDeclined(s) ==
    LET c == request[s].c IN
    /\ At(s, "polled")
    /\ gateway[c] = "declined"
    /\ payment' = [payment EXCEPT ![c].st = "failed"]
    /\ EndRequest(s)
    /\ UNCHANGED <<sub, hasUsedTrial, refunds, credited, world>>

\* The provider is still processing, cannot be reached, or refuses the query.
PollUnknown(s) ==
    /\ At(s, "polled")
    /\ EndRequest(s)
    /\ UNCHANGED <<sub, hasUsedTrial, billing, world>>

-----------------------------------------------------------------------------
(* The other writers of the subscription *)

TrialRead(s) ==
    /\ At(s, "idle")
    /\ ~hasUsedTrial
    /\ Begin(s, "trial", None, FALSE, [plan |-> Changed("pro"), end |-> now + Trial])
    /\ UNCHANGED <<sub, hasUsedTrial, billing, world>>

TrialCommit(s) ==
    /\ At(s, "trial")
    /\ sub' = Apply(request[s].write)
    /\ hasUsedTrial' = TRUE
    /\ EndRequest(s)
    /\ UNCHANGED <<billing, world>>

\* An administrator grants a plan, or more time on it, from the end as it stands.
OverrideRead(s, plan) ==
    LET end == (IF sub.end = None THEN now ELSE sub.end) + Period IN
    /\ At(s, "idle")
    /\ end <= MaxEnd
    /\ Begin(s, "override", None, FALSE, [plan |-> Changed(plan), end |-> end])
    /\ UNCHANGED <<sub, hasUsedTrial, billing, world>>

OverrideCommit(s) ==
    /\ At(s, "override")
    /\ sub' = Apply(request[s].write)
    /\ EndRequest(s)
    /\ UNCHANGED <<hasUsedTrial, billing, world>>

Expired == sub.end # None /\ sub.end < now

\* The sweep loads the subscriptions that end, finds this one expired, and mails its
\* reminders before the one commit at its end.
SweepRead(s) ==
    /\ At(s, "idle")
    /\ Expired
    /\ Begin(s, "sweep", None, FALSE, [plan |-> Changed("basic"), end |-> None])
    /\ UNCHANGED <<sub, hasUsedTrial, billing, world>>

\* Slip: the reminder fails and takes the downgrade with it.
SweepCommit_RolledBack(s) ==
    /\ At(s, "sweep")
    /\ EndRequest(s)
    /\ UNCHANGED <<sub, hasUsedTrial, billing, world>>

SweepCommit(s) ==
    /\ At(s, "sweep")
    /\ sub' = Apply(request[s].write)
    /\ EndRequest(s)
    /\ UNCHANGED <<hasUsedTrial, billing, world>>

\* A negative row beside a successful payment, which stays successful.
Refund(c) ==
    /\ payment[c].st = "success"
    /\ refunds[c] < MaxRefunds
    /\ refunds' = [refunds EXCEPT ![c] = @ + 1]
    /\ UNCHANGED <<sub, hasUsedTrial, payment, credited, request, world>>

-----------------------------------------------------------------------------
(* The specification *)

\* The process dies, or the database refuses the commit: nothing of it is written.
Crash(s) ==
    /\ ~At(s, "idle")
    /\ EndRequest(s)
    /\ UNCHANGED <<sub, hasUsedTrial, billing, world>>

\* A unit of the clock is days, a request takes seconds and a sweep minutes: the clock
\* stands still while one is at work.
Tick ==
    /\ now < Horizon
    /\ \A s \in Sessions : At(s, "idle")
    /\ now' = now + 1
    /\ UNCHANGED <<sub, hasUsedTrial, billing, request, gateway, answered>>

\* Registration has given the user an indefinite Basic subscription.
Init ==
    /\ sub = [plan |-> "basic", end |-> None]
    /\ hasUsedTrial = FALSE
    /\ payment = [c \in Checkouts |-> NoPayment]
    /\ refunds = [c \in Checkouts |-> 0]
    /\ request = [s \in Sessions |-> Idle]
    /\ gateway = [c \in Checkouts |-> "idle"]
    /\ answered = {}
    /\ now = 0
    /\ credited = [c \in Checkouts |-> 0]

Start(s) ==
    \/ \E c \in Checkouts : \/ CheckoutAsk(s, c)
                            \/ WebhookRead(s, c)
                            \/ WebhookIgnored(s, c)
                            \/ PollRead(s, c)
    \/ TrialRead(s)
    \/ \E plan \in Plans : OverrideRead(s, plan)
    \/ SweepRead(s)

Continue(s) ==
    \/ \E plan \in Plans : CheckoutSave(s, plan)
    \/ FulfilRead(s) \/ FulfilCommit(s) \/ FulfilFails(s)
    \/ PollPaid(s) \/ PollDeclined(s) \/ PollUnknown(s)
    \/ TrialCommit(s) \/ OverrideCommit(s) \/ SweepCommit(s)

Next ==
    \/ \E s \in Sessions : Start(s) \/ Continue(s) \/ Crash(s)
    \/ \E c \in Checkouts : Pay(c) \/ Decline(c) \/ Refund(c)
    \/ Tick

Spec == Init /\ [][Next]_vars

-----------------------------------------------------------------------------
(* Properties *)

\* The rows, the requests and the outside hold what their declarations allow.
TypeOK ==
    /\ sub \in SubRow
    /\ hasUsedTrial \in BOOLEAN
    /\ payment \in [Checkouts -> PaymentRow]
    /\ refunds \in [Checkouts -> Nat]
    /\ request \in [Sessions -> Request]
    /\ gateway \in [Checkouts -> {"idle", "asked", "paid", "declined"}]
    /\ answered \subseteq Checkouts
    /\ now \in Nat
    /\ credited \in [Checkouts -> Nat]

\* A payment is marked successful if and only if it has extended the subscription, and
\* then the provider has the money: no poll that was overtaken takes the mark away, and
\* only such a payment is refunded.
BooksAgree ==
    \A c \in Checkouts :
        /\ payment[c].st = "success" <=> credited[c] > 0
        /\ credited[c] > 0 => gateway[c] = "paid"
        /\ refunds[c] > 0 => payment[c].st = "success"

\* The requests that have passed the idempotency check for c and have not finished.
Pursuing(c) == {s \in Sessions : request[s].c = c /\ request[s].pc \in {"found", "polled", "fulfil"}}

\* The idempotency check lets a payment be credited by the requests that were already
\* past it when the first one committed, and by no other: each process credits it at most
\* once, and when requests do not overlap it is credited once.
CreditBound ==
    \A c \in Checkouts : credited[c] <= Cardinality(Sessions)

-----------------------------------------------------------------------------
(* Liveness *)

\* Requests end.  The browser polls an M-Pesa payment as long as it is pending and the
\* sweep runs every day; neither fails for ever.
FairSpec ==
    /\ Spec
    /\ \A s \in Sessions : WF_vars(Continue(s) \/ Crash(s))
    /\ \A c \in Checkouts \ Cards : SF_vars(\E s \in Sessions : PollRead(s, c))
    /\ SF_vars(\E s \in Sessions : PollPaid(s))
    /\ SF_vars(\E s \in Sessions : FulfilCommit(s))
    /\ SF_vars(\E s \in Sessions : SweepRead(s))
    /\ SF_vars(\E s \in Sessions : SweepCommit(s))

\* An M-Pesa payment that was saved and paid extends the subscription, even if its webhook
\* came too early, failed or never came.
PaidIsCredited ==
    \A c \in Checkouts \ Cards :
        gateway[c] = "paid" /\ payment[c].st = "pending" ~> payment[c].st = "success"

\* A subscription that has run out is downgraded or renewed.
ExpiredIsDowngraded == Expired ~> ~Expired

=============================================================================
