------------------------------ MODULE Gateway ------------------------------
(***************************************************************************)
(* The WhatsApp gateway: webhook, queue and workers, maintenance switch,   *)
(* block list, the recognition of treasurers by phone number, menus and    *)
(* the creation of groups and campaigns by message.                        *)
(*                                                                         *)
(* A worker reads the block list, the user and its counts in statements of *)
(* their own; between them other workers, the administrator and time move. *)
(* A worker that dies leaves its message to be delivered again.  Each      *)
(* process caches the numbers it found unregistered for 5 minutes; a block *)
(* ends 24 hours after the last counted attempt.  The periods differ so    *)
(* much that the model does not count time: a cached entry may lapse, and  *)
(* a day may pass.                                                         *)
(* What a receipt or a tap on "approve" does is module Approval.           *)
(***************************************************************************)
EXTENDS Naturals, FiniteSets

CONSTANTS
    Phones,        \* senders
    Messages,      \* messages in flight at a time
    Kinds,         \* the kinds of messages in play
    Workers,       \* processes
    BlockAt,       \* unauthorised attempts that block a number (3)
    Limit,         \* groups and campaigns per day by message (2)
    MaxMade,       \* campaigns of a day are counted up to this
    None

\* text: greeting, HELP, REPORT or a receipt; batch: several receipts in one text; tap: an
\* answer to a menu; pick: the answer that says in which group a campaign is to be created.
AllKinds == {"text", "batch", "tap", "pick", "group", "campaign"}

\* What is not about groups and campaigns.
Writing == {"text", "batch"}

Things == {"group", "campaign"}

ASSUME ConstantsAssumption ==
    /\ Kinds \subseteq AllKinds
    /\ IsFiniteSet(Workers)
    /\ Workers # {}
    /\ BlockAt \in Nat \ {0}
    /\ Limit \in Nat
    /\ MaxMade \in Nat
    /\ None \notin Messages \cup Phones

VARIABLES
    account,       \* what the tables users and waitlist_whitelist say of a number
    block,         \* rows of whatsapp_blocklist
    made,          \* groups and campaigns created by message within the last day
    message,       \* messages that are accepted and not yet handled
    job,           \* what each worker is doing
    refused,       \* each process: _UNAUTHORIZED_PHONE_CACHE
    attempts       \* history: attempts counted since the last unblocking, up to BlockAt

vars == <<account, block, made, message, job, refused, attempts>>

Accounts == {"none", "whitelisted", "waitlisted", "active"}

\* old: more than 24 hours since last_attempt_at.
BlockRow == [stored : BOOLEAN, count : 0..BlockAt, blocked : BOOLEAN, old : BOOLEAN]

NoRow == [stored |-> FALSE, count |-> 0, blocked |-> FALSE, old |-> FALSE]

Message == [st : {"queued", "taken"}, phone : Phones, kind : AllKinds]
               \cup {[st |-> "none", phone |-> None, kind |-> "text"]}

NoMessage == [st |-> "none", phone |-> None, kind |-> "text"]

\* seen: the row the worker has read; late is history: it was unblocked after that.
Job == [pc : {"idle", "block", "unblock", "user", "owner", "attempt", "count", "limit", "insert", "reply"},
        msg : Messages \cup {None}, seen : BlockRow, late : BOOLEAN]

Idle == [pc |-> "idle", msg |-> None, seen |-> NoRow, late |-> FALSE]

At(w, pc) == job[w].pc = pc

Phone(w) == message[job[w].msg].phone

Kind(w) == message[job[w].msg].kind

Goto(w, pc) == job' = [job EXCEPT ![w].pc = pc]

\* The session keeps a row as it has read it until it commits.
Read(w, pc, row) == job' = [job EXCEPT ![w].pc = pc, ![w].seen = row, ![w].late = FALSE]

Forget(w, pc) == Read(w, pc, NoRow)

\* The record is consumed, and 200 or 500 answered: nobody reads which.
Finish(w) ==
    /\ job' = [job EXCEPT ![w] = Idle]
    /\ message' = [message EXCEPT ![job[w].msg] = NoMessage]

-----------------------------------------------------------------------------
(* Delivery *)

\* Menus are sent to treasurers only.
Sends(phone, kind) == kind \in Kinds /\ (kind \in {"tap", "pick"} => account[phone] = "active")

\* Meta calls the webhook and is answered 200; the record waits in SQS.
Receive(m, phone, kind) ==
    /\ message[m].st = "none"
    /\ Sends(phone, kind)
    /\ message' = [message EXCEPT ![m] = [st |-> "queued", phone |-> phone, kind |-> kind]]
    /\ UNCHANGED <<account, block, made, job, refused, attempts>>

\* SQS is not configured or fails: a thread starts at once.
ReceiveInThread(w, m, phone, kind) ==
    /\ message[m].st = "none"
    /\ At(w, "idle")
    /\ Sends(phone, kind)
    /\ message' = [message EXCEPT ![m] = [st |-> "taken", phone |-> phone, kind |-> kind]]
    /\ job' = [job EXCEPT ![w] = [Idle EXCEPT !.pc = "block", !.msg = m]]
    /\ UNCHANGED <<account, block, made, refused, attempts>>

Take(w, m) ==
    /\ At(w, "idle")
    /\ message[m].st = "queued"
    /\ message' = [message EXCEPT ![m].st = "taken"]
    /\ job' = [job EXCEPT ![w] = [Idle EXCEPT !.pc = "block", !.msg = m]]
    /\ UNCHANGED <<account, block, made, refused, attempts>>

\* The process dies, with its caches; SQS delivers the record again, a thread's is gone.
Crash(w, again) ==
    /\ ~At(w, "idle")
    /\ message' = [message EXCEPT ![job[w].msg] = IF again THEN [@ EXCEPT !.st = "queued"] ELSE NoMessage]
    /\ job' = [job EXCEPT ![w] = Idle]
    /\ refused' = [refused EXCEPT ![w] = {}]
    /\ UNCHANGED <<account, block, made, attempts>>

-----------------------------------------------------------------------------
(* Admission *)

\* The switch as the process has it cached, for up to 30 seconds, is on or off at any time.
\* While it is on the sender is told so.
Maintenance(w) ==
    /\ At(w, "block")
    /\ Finish(w)
    /\ UNCHANGED <<account, block, made, refused, attempts>>

\* A message of a blocked number is dropped without an answer and without being counted.
ReadBlock(w) ==
    LET row == block[Phone(w)] IN
    /\ At(w, "block")
    /\ \/ ~row.blocked /\ Read(w, "user", row) /\ UNCHANGED message
       \/ row.blocked /\ row.old /\ Goto(w, "unblock") /\ UNCHANGED message
       \/ row.blocked /\ ~row.old /\ Finish(w)
    /\ UNCHANGED <<account, block, made, refused, attempts>>

\* Slip: the flag is cleared and the count left as it is.
Unblocked_CountKept(row) == [row EXCEPT !.blocked = FALSE, !.old = FALSE]

\* The 24 hours are over, or the administrator unblocks.
Unblocked(row) == [row EXCEPT !.blocked = FALSE, !.count = 0, !.old = FALSE]

\* Workers that go on with a row that is unblocked meanwhile.
Overtaken(phone) == [v \in Workers |-> [job[v] EXCEPT !.late = @ \/ (~At(v, "idle") /\ Phone(v) = phone /\ job[v].seen.stored)]]

\* The worker's own row is read again after the commit.
Unblock(w) ==
    /\ At(w, "unblock")
    /\ block' = [block EXCEPT ![Phone(w)] = Unblocked(@)]
    /\ attempts' = [attempts EXCEPT ![Phone(w)] = 0]
    /\ job' = [Overtaken(Phone(w)) EXCEPT ![w] = [job[w] EXCEPT !.pc = "user", !.seen = NoRow, !.late = FALSE]]
    /\ UNCHANGED <<account, made, message, refused>>

\* Waitlisted users get an answer of their own; taps and picks are obeyed at once.
ReadUser(w) ==
    /\ At(w, "user")
    /\ CASE account[Phone(w)] = "waitlisted" \/ Kind(w) = "tap" -> Forget(w, "reply")
         [] account[Phone(w)] # "waitlisted" /\ Kind(w) = "pick" -> Forget(w, "insert")
         [] OTHER -> Goto(w, "owner")
    /\ UNCHANGED <<account, block, made, message, refused, attempts>>

\* Slip: the time of a cached refusal is never looked at, nor is it ever deleted.
Lapses_Never(w, phone) == FALSE

\* A cached refusal is older than five minutes.
Lapses(w, phone) == phone \in refused[w]

\* resolve_owner_by_phone: the cache answers before the database.
Owner(w, phone) == phone \notin refused[w] /\ account[phone] \in {"waitlisted", "active"}

ResolveOwner(w) ==
    /\ At(w, "owner")
    /\ refused' = IF Owner(w, Phone(w)) THEN refused ELSE [refused EXCEPT ![w] = @ \cup {Phone(w)}]
    /\ IF Owner(w, Phone(w))
       THEN Forget(w, IF Kind(w) \in Writing THEN "reply" ELSE "limit")
       ELSE Goto(w, "attempt")
    /\ UNCHANGED <<account, block, made, message, attempts>>

\* process_webhook answers "error" for an owner's batch of which no message is valid and new,
\* like a batch that is delivered again, and the handler counts every error as an attempt.
EmptyBatch(w) ==
    /\ At(w, "owner")
    /\ Owner(w, Phone(w))
    /\ Kind(w) = "batch"
    /\ Goto(w, "attempt")
    /\ UNCHANGED <<account, block, made, message, refused, attempts>>

-----------------------------------------------------------------------------
(* Unauthorised access *)

\* Waitlisted users are told so.  A number on the whitelist (that of an active user may
\* still be there) raises an AttributeError, as the model has no is_active: answered 500,
\* which consumes the record.
ReadAttempts(w) ==
    /\ At(w, "attempt")
    /\ \/ account[Phone(w)] # "none" /\ Finish(w)
       \/ /\ account[Phone(w)] \in {"none", "active"}
          /\ IF job[w].seen.stored THEN Goto(w, "count") ELSE Read(w, "count", block[Phone(w)])
          /\ UNCHANGED message
    /\ UNCHANGED <<account, block, made, refused, attempts>>

\* Counters stop at BlockAt: all that is ever asked of them is whether they are that high.
Up(n) == IF n < BlockAt THEN n + 1 ELSE n

\* attempt_count is written as read plus one, is_blocked only when this attempt blocks.  The
\* first attempt inserts; if another was first the key is taken and the insert fails.
Counted(row, seen) ==
    CASE seen.stored -> [row EXCEPT !.stored = TRUE, !.count = Up(seen.count), !.old = FALSE,
                                    !.blocked = row.blocked \/ (seen.count + 1 >= BlockAt /\ ~seen.blocked)]
      [] ~seen.stored /\ ~row.stored -> [NoRow EXCEPT !.stored = TRUE, !.count = 1]
      [] OTHER -> row

CountAttempt(w) ==
    /\ At(w, "count")
    /\ block' = [block EXCEPT ![Phone(w)] = Counted(@, job[w].seen)]
    /\ attempts' = [attempts EXCEPT ![Phone(w)] = IF job[w].late THEN BlockAt ELSE Up(@)]
    /\ Finish(w)
    /\ UNCHANGED <<account, made, refused>>

-----------------------------------------------------------------------------
(* Groups and campaigns by message *)

\* Slip: the limit is reached one later.
BelowLimit_OffByOne(n) == n <= Limit

BelowLimit(n) == n < Limit

\* Nothing is created, and an answer sent, at the limit, to which what was created on the web
\* counts too, if the settings forbid it, if no name is given, and for a campaign if there is
\* no group or more than one: then a menu of the groups is sent.
CheckLimit(w) ==
    /\ At(w, "limit")
    /\ \/ BelowLimit(made[Phone(w)][Kind(w)]) /\ Goto(w, "insert")
       \/ Goto(w, "reply")
    /\ UNCHANGED <<account, block, made, message, refused, attempts>>

Thing(kind) == IF kind = "group" THEN "group" ELSE "campaign"

\* Campaigns, which a pick creates without limit, are counted up to MaxMade.
Insert(w) ==
    LET thing == Thing(Kind(w)) IN
    /\ At(w, "insert")
    /\ made' = [made EXCEPT ![Phone(w)][thing] = IF thing = "campaign" /\ @ = MaxMade THEN @ ELSE @ + 1]
    /\ Goto(w, "reply")
    /\ UNCHANGED <<account, block, message, refused, attempts>>

\* Answers that are not sent are logged; the record is consumed.
Reply(w) ==
    /\ At(w, "reply")
    /\ Finish(w)
    /\ UNCHANGED <<account, block, made, refused, attempts>>

-----------------------------------------------------------------------------
(* Administration and time *)

SetAccount(phone, old, new) ==
    /\ account[phone] = old
    /\ account' = [account EXCEPT ![phone] = new]
    /\ UNCHANGED <<block, made, message, job, refused, attempts>>

\* While the waitlist is in force only numbers on the whitelist pass it by.
Register(phone) ==
    \/ SetAccount(phone, "none", "active")
    \/ SetAccount(phone, "none", "waitlisted")
    \/ SetAccount(phone, "whitelisted", "active")

AddToWhitelist(phone) == SetAccount(phone, "none", "whitelisted")

RemoveFromWhitelist(phone) == SetAccount(phone, "whitelisted", "none")

ApproveWaitlisted(phone) == SetAccount(phone, "waitlisted", "active")

UnblockByAdmin(phone) ==
    /\ block[phone].stored
    /\ block' = [block EXCEPT ![phone] = Unblocked(@)]
    /\ attempts' = [attempts EXCEPT ![phone] = 0]
    /\ job' = Overtaken(phone)
    /\ UNCHANGED <<account, made, message, refused>>

RefusalLapses(w, phone) ==
    /\ Lapses(w, phone)
    /\ refused' = [refused EXCEPT ![w] = @ \ {phone}]
    /\ UNCHANGED <<account, block, made, message, job, attempts>>

DayPasses(phone) ==
    /\ block' = [block EXCEPT ![phone].old = @ \/ block[phone].blocked]
    /\ UNCHANGED <<account, made, message, job, refused, attempts>>

\* One of them was created more than a day ago.
CreationAges(phone, thing) ==
    /\ made[phone][thing] > 0
    /\ made' = [made EXCEPT ![phone][thing] = @ - 1]
    /\ UNCHANGED <<account, block, message, job, refused, attempts>>

-----------------------------------------------------------------------------
(* The specification *)

Init ==
    /\ account = [phone \in Phones |-> "none"]
    /\ block = [phone \in Phones |-> NoRow]
    /\ made = [phone \in Phones |-> [thing \in Things |-> 0]]
    /\ message = [m \in Messages |-> NoMessage]
    /\ job = [w \in Workers |-> Idle]
    /\ refused = [w \in Workers |-> {}]
    /\ attempts = [phone \in Phones |-> 0]

\* What a worker does with the message it has taken.
Handle(w) ==
    \/ Maintenance(w) \/ ReadBlock(w) \/ Unblock(w) \/ ReadUser(w) \/ ResolveOwner(w) \/ EmptyBatch(w)
    \/ ReadAttempts(w) \/ CountAttempt(w) \/ CheckLimit(w) \/ Insert(w) \/ Reply(w)

Next ==
    \/ \E m \in Messages, phone \in Phones, kind \in AllKinds :
          Receive(m, phone, kind) \/ \E w \in Workers : ReceiveInThread(w, m, phone, kind)
    \/ \E w \in Workers : \/ Handle(w)
                          \/ \E m \in Messages : Take(w, m)
                          \/ \E again \in BOOLEAN : Crash(w, again)
                          \/ \E phone \in Phones : RefusalLapses(w, phone)
    \/ \E phone \in Phones : \/ Register(phone) \/ ApproveWaitlisted(phone)
                             \/ AddToWhitelist(phone) \/ RemoveFromWhitelist(phone)
                             \/ UnblockByAdmin(phone) \/ DayPasses(phone)
                             \/ \E thing \in Things : CreationAges(phone, thing)

Spec == Init /\ [][Next]_vars

-----------------------------------------------------------------------------
(* Properties *)

\* Tables, messages, workers and caches hold what their declarations allow.
TypeOK ==
    /\ account \in [Phones -> Accounts]
    /\ block \in [Phones -> BlockRow]
    /\ made \in [Phones -> [Things -> Nat]]
    /\ message \in [Messages -> Message]
    /\ job \in [Workers -> Job]
    /\ refused \in [Workers -> SUBSET Phones]
    /\ attempts \in [Phones -> 0..BlockAt]

\* A message is in the hands of one worker at most, and a worker's message is taken: nothing
\* is handled by two workers at a time, though it may be handled again after a crash.
OneWorkerEach ==
    /\ \A w \in Workers : ~At(w, "idle") => message[job[w].msg].st = "taken"
    /\ \A v, w \in Workers : v # w /\ ~At(v, "idle") => job[v].msg # job[w].msg

\* A number is blocked only after as many attempts as block it, counted since it was last
\* unblocked, whatever counts were read before a commit of another worker.  One exception: a
\* worker that read the row before the unblocking counts on from there, and is booked in full.
BlockIsEarned == \A phone \in Phones : block[phone].blocked => attempts[phone] = BlockAt

\* Messages, handled at once or handled again after a crash, create at most one group a day
\* above the limit for every worker but one: count and insert are two statements.
GroupsBounded == \A phone \in Phones : made[phone]["group"] <= Limit + Cardinality(Workers) - 1

-----------------------------------------------------------------------------
(* Liveness *)

\* A worker looks at the block list for what a treasurer has written.
AdmitWriting(phone) == \E w \in Workers : ReadBlock(w) /\ Kind(w) \in Writing /\ Phone(w) = phone

\* Workers handle what they take and take what is queued, what is written does not meet the
\* maintenance switch for ever, cached entries and days pass, and the treasurer keeps writing.
FairSpec ==
    /\ Spec
    /\ \A w \in Workers : /\ WF_vars(Handle(w))
                          /\ \A phone \in Phones : WF_vars(RefusalLapses(w, phone))
    /\ \A m \in Messages : SF_vars(\E w \in Workers : Take(w, m))
    /\ \A phone \in Phones : /\ WF_vars(DayPasses(phone))
                             /\ SF_vars(AdmitWriting(phone))
                             /\ SF_vars(\E m \in Messages, kind \in Writing : Receive(m, phone, kind))

Served(phone) == \E w \in Workers : At(w, "reply") /\ Kind(w) \in Writing /\ Phone(w) = phone

\* A treasurer whose account is active and who keeps writing is answered again and again once
\* no process dies and none of the batches comes to nothing any more, even if the number was
\* cached as unregistered, or counted and blocked for attempts or empty batches before.
RegisteredIsServed ==
    \A phone \in Phones :
        /\ <>[](account[phone] = "active")
        /\ <>[][\A w \in Workers : ~EmptyBatch(w) /\ ((\E again \in BOOLEAN : Crash(w, again)) => Handle(w))]_vars
        => []<>Served(phone)
=============================================================================
