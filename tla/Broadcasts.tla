----------------------------- MODULE Broadcasts -----------------------------
(***************************************************************************)
(* Broadcasts to users by mail or WhatsApp.  A dispatcher writes a         *)
(* communication log for each recipient and hands a task to a pool of      *)
(* threads, which it waits for in the end; the older endpoint for          *)
(* notifications runs each task itself.  A task sends and records the      *)
(* outcome, up to three times.                                             *)
(*                                                                         *)
(* Dispatchers and tasks take connections from one pool.  A dispatcher     *)
(* keeps one from commit to commit, also while it waits for its tasks,     *)
(* which need one each: only the time limit of the pool resolves that.     *)
(* The providers of mail and WhatsApp are external: what they accept may   *)
(* be reported as an error.                                                *)
(***************************************************************************)
EXTENDS Naturals, FiniteSets

CONSTANTS
    Broadcasts,
    Inline,        \* those sent through the endpoint for notifications
    Recipients,
    Audience,      \* the recipients of each broadcast
    Connections,   \* size of the pool, overflow included (15)
    Threads,       \* threads of a dispatcher (10)
    Attempts,      \* attempts of a task (3)
    None

ASSUME BroadcastsAssumption ==
    /\ Inline \subseteq Broadcasts
    /\ IsFiniteSet(Broadcasts)
    /\ IsFiniteSet(Recipients)
    /\ Audience \in [Broadcasts -> SUBSET Recipients]
    /\ Connections \in Nat \ {0}
    /\ Threads \in Nat \ {0}
    /\ Attempts \in Nat \ {0}
    /\ None \notin Recipients

TasksOf(b) == {b} \X Audience[b]

Tasks == UNION {TasksOf(b) : b \in Broadcasts}

VARIABLES
    broadcast,     \* broadcast_campaigns.status
    dispatcher,    \* what sends a broadcast is doing
    log,           \* communication_logs.status
    task,          \* send_email_task, send_whatsapp_task
    delivered,     \* history: how often the provider has accepted it
    cut            \* history: logs whose task was lost or ended by an exception

vars == <<broadcast, dispatcher, log, task, delivered, cut>>

Dispatcher == [pc : {"idle", "connect", "next", "submit", "inline", "finish", "abort", "done"},
               todo : SUBSET Recipients, now : Recipients \cup {None}]

Task == [pc : {"none", "pooled", "read", "send", "save", "ended"}, attempt : 1..Attempts, ok : BOOLEAN]

NoTask == [pc |-> "none", attempt |-> 1, ok |-> FALSE]

At(b, pc) == dispatcher[b].pc = pc

Does(t, pc) == task[t].pc = pc

Goto(b, pc) == dispatcher' = [dispatcher EXCEPT ![b].pc = pc]

Run(t, pc) == task' = [task EXCEPT ![t].pc = pc]

Holders ==
    Cardinality({b \in Broadcasts : dispatcher[b].pc \in {"next", "inline", "finish"}})
        + Cardinality({t \in Tasks : task[t].pc \in {"send", "save"}})

Free == Holders < Connections

-----------------------------------------------------------------------------
(* Dispatcher *)

\* The broadcast is recorded as queued, but for the older endpoint, and its dispatcher begins.
SendBroadcast(b) ==
    /\ At(b, "idle")
    /\ broadcast' = [broadcast EXCEPT ![b] = IF b \in Inline THEN @ ELSE "queued"]
    /\ dispatcher' = [dispatcher EXCEPT ![b].pc = "connect", ![b].todo = Audience[b]]
    /\ UNCHANGED <<log, task, delivered, cut>>

\* The users are read.
Connect(b) ==
    /\ At(b, "connect")
    /\ Free
    /\ Goto(b, "next")
    /\ UNCHANGED <<broadcast, log, task, delivered, cut>>

\* The commit gives the connection back.
AddLog(b, r) ==
    /\ At(b, "next")
    /\ r \in dispatcher[b].todo
    /\ log' = [log EXCEPT ![<<b, r>>] = "QUEUED"]
    /\ dispatcher' = [dispatcher EXCEPT ![b] = [pc |-> "submit", todo |-> @.todo \ {r}, now |-> r]]
    /\ UNCHANGED <<broadcast, task, delivered, cut>>

\* Reading the key of the log takes a connection again.
Submit(b) ==
    /\ At(b, "submit")
    /\ Free
    /\ Run(<<b, dispatcher[b].now>>, IF b \in Inline THEN "read" ELSE "pooled")
    /\ Goto(b, IF b \in Inline THEN "inline" ELSE "next")
    /\ UNCHANGED <<broadcast, log, delivered, cut>>

\* No connection within 30 seconds, or a statement fails: what is in the pool is still waited for.
DispatchFails(b) ==
    /\ dispatcher[b].pc \in {"connect", "next", "submit"}
    /\ cut' = IF At(b, "submit") THEN cut \cup {<<b, dispatcher[b].now>>} ELSE cut
    /\ Goto(b, IF b \in Inline THEN "done" ELSE "abort")
    /\ UNCHANGED <<broadcast, log, task, delivered>>

\* An exception of the task is one of the request.
InlineEnds(b) ==
    LET t == <<b, dispatcher[b].now>> IN
    /\ At(b, "inline")
    /\ Does(t, "ended")
    /\ Goto(b, IF t \in cut THEN "done" ELSE "next")
    /\ UNCHANGED <<broadcast, log, task, delivered, cut>>

AllSubmitted(b) ==
    /\ At(b, "next")
    /\ dispatcher[b].todo = {}
    /\ Goto(b, IF b \in Inline THEN "done" ELSE "finish")
    /\ UNCHANGED <<broadcast, log, task, delivered, cut>>

\* Slip: nobody waits for the pool.
PoolEnded_Unawaited(b) == TRUE

\* The pool is left when each of its tasks has ended.
PoolEnded(b) == \A t \in TasksOf(b) : task[t].pc \in {"none", "ended"}

\* The last commit may fail.
Finish(b, ok) ==
    /\ dispatcher[b].pc \in {"finish", "abort"}
    /\ PoolEnded(b)
    /\ broadcast' = [broadcast EXCEPT ![b] = IF At(b, "finish") /\ ok THEN "sent" ELSE @]
    /\ Goto(b, "done")
    /\ UNCHANGED <<log, task, delivered, cut>>

-----------------------------------------------------------------------------
(* Task *)

Running(b) == {t \in TasksOf(b) : task[t].pc \in {"read", "send", "save"}}

Begin(t) ==
    /\ Does(t, "pooled")
    /\ Cardinality(Running(t[1])) < Threads
    /\ Run(t, "read")
    /\ UNCHANGED <<broadcast, dispatcher, log, delivered, cut>>

Read(t) ==
    /\ Does(t, "read")
    /\ Free
    /\ Run(t, "send")
    /\ UNCHANGED <<broadcast, dispatcher, log, delivered, cut>>

\* The next attempt, a second later, or the end after the last one.
Retry(t) ==
    task' = [task EXCEPT ![t] = IF @.attempt = Attempts THEN [@ EXCEPT !.pc = "ended"]
                                ELSE [pc |-> "read", attempt |-> @.attempt + 1, ok |-> FALSE]]

\* The task ends by an exception.
Break(t) == Run(t, "ended") /\ cut' = cut \cup {t}

\* Slip: a connection is waited for without limit.
ReadFails_Never(t) == FALSE /\ UNCHANGED vars

\* No connection within 30 seconds, or no database.  The handler uses the log that it could
\* not read at the first attempt, and that of the attempt before at a later one, whose
\* session is closed: then nothing is stored.
ReadFails(t) ==
    /\ Does(t, "read")
    /\ IF task[t].attempt = 1 THEN Break(t) ELSE Retry(t) /\ UNCHANGED cut
    /\ UNCHANGED <<broadcast, dispatcher, log, delivered>>

\* The client answers whether it was told that the message is accepted.
Send(t, ok, accepted) ==
    /\ Does(t, "send")
    /\ ok => accepted
    /\ delivered' = [delivered EXCEPT ![t] = IF accepted THEN @ + 1 ELSE @]
    /\ task' = [task EXCEPT ![t].pc = "save", ![t].ok = ok]
    /\ UNCHANGED <<broadcast, dispatcher, log, cut>>

\* Slip: what was sent is sent again.
Again_Always(t) == TRUE

Again(t) == ~task[t].ok

\* Slip: the last attempt counts as sent.
Outcome_Hopeful(t) == IF task[t].ok \/ task[t].attempt = Attempts THEN "SENT" ELSE "FAILED"

\* Slip: a failed attempt is not stored.
Outcome_OnlySent(t) == IF task[t].ok THEN "SENT" ELSE log[t]

Outcome(t) == IF task[t].ok THEN "SENT" ELSE "FAILED"

Save(t) ==
    /\ Does(t, "save")
    /\ log' = [log EXCEPT ![t] = Outcome(t)]
    /\ IF Again(t) THEN Retry(t) ELSE Run(t, "ended")
    /\ UNCHANGED <<broadcast, dispatcher, delivered, cut>>

\* The handler of the exception stores FAILED, whatever was to be stored, and if that fails
\* too ends the task.
SaveFails(t, twice) ==
    /\ Does(t, "save")
    /\ IF twice THEN Break(t) /\ UNCHANGED log
                ELSE Retry(t) /\ log' = [log EXCEPT ![t] = "FAILED"] /\ UNCHANGED cut
    /\ UNCHANGED <<broadcast, dispatcher, delivered>>

-----------------------------------------------------------------------------
(* The specification *)

Init ==
    /\ broadcast = [b \in Broadcasts |-> "none"]
    /\ dispatcher = [b \in Broadcasts |-> [pc |-> "idle", todo |-> {}, now |-> None]]
    /\ log = [t \in Tasks |-> "none"]
    /\ task = [t \in Tasks |-> NoTask]
    /\ delivered = [t \in Tasks |-> 0]
    /\ cut = {}

Dispatch(b) ==
    \/ Connect(b) \/ Submit(b) \/ DispatchFails(b) \/ InlineEnds(b) \/ AllSubmitted(b)
    \/ \E r \in Recipients : AddLog(b, r)
    \/ \E ok \in BOOLEAN : Finish(b, ok)

Work(t) ==
    \/ Begin(t) \/ Read(t) \/ ReadFails(t) \/ Save(t)
    \/ \E ok, accepted \in BOOLEAN : Send(t, ok, accepted)
    \/ \E twice \in BOOLEAN : SaveFails(t, twice)

Busy == {b \in Broadcasts : dispatcher[b].pc \notin {"idle", "done"}}

\* The process dies, and with it dispatchers and tasks: nothing takes them up again.
Crash ==
    /\ Busy # {}
    /\ dispatcher' = [b \in Broadcasts |-> IF b \in Busy THEN [dispatcher[b] EXCEPT !.pc = "done"] ELSE dispatcher[b]]
    /\ task' = [t \in Tasks |-> IF Does(t, "none") THEN task[t] ELSE [task[t] EXCEPT !.pc = "ended"]]
    /\ cut' = cut \cup {t \in Tasks : log[t] # "none" /\ ~Does(t, "ended")}
    /\ UNCHANGED <<broadcast, log, delivered>>

Next ==
    \/ \E b \in Broadcasts : SendBroadcast(b) \/ Dispatch(b)
    \/ \E t \in Tasks : Work(t)
    \/ Crash

\* Dispatchers and threads go on as long as they can.
Spec ==
    /\ Init /\ [][Next]_vars
    /\ \A b \in Broadcasts : WF_vars(Dispatch(b))
    /\ \A t \in Tasks : WF_vars(Work(t))

-----------------------------------------------------------------------------
(* Properties *)

\* Rows, dispatchers, tasks and histories hold what their declarations allow.
TypeOK ==
    /\ broadcast \in [Broadcasts -> {"none", "queued", "sent"}]
    /\ dispatcher \in [Broadcasts -> Dispatcher]
    /\ log \in [Tasks -> {"none", "QUEUED", "FAILED", "SENT"}]
    /\ task \in [Tasks -> Task]
    /\ delivered \in [Tasks -> 0..Attempts]
    /\ cut \in SUBSET Tasks

\* Whoever is logged as SENT was sent to, whatever attempts and commits failed.
SentWasDelivered == \A t \in Tasks : log[t] = "SENT" => delivered[t] > 0

\* A log waits as QUEUED only while its dispatcher or its task is at work, unless an exception
\* or a crash has ended that.
QueuedIsUnderWay ==
    \A t \in Tasks : log[t] = "QUEUED" =>
        \/ task[t].pc \notin {"none", "ended"}
        \/ At(t[1], "submit") /\ dispatcher[t[1]].now = t[2]
        \/ t \in cut

\* A broadcast is sent when every recipient has a log with an outcome, or one that an exception
\* has cut off.
SentIsComplete ==
    \A b \in Broadcasts : broadcast[b] = "sent" =>
        \A t \in TasksOf(b) : log[t] \in {"SENT", "FAILED"} \cup (IF t \in cut THEN {"QUEUED"} ELSE {})

\* What is logged as SENT is neither sent again nor logged otherwise.
SentIsFinal ==
    [][\A t \in Tasks : log[t] = "SENT" => log'[t] = "SENT" /\ delivered'[t] = delivered[t]]_vars

\* Every dispatcher ends, even if the dispatchers hold all connections and wait for tasks that
\* wait for a connection.
DispatchEnds == \A b \in Broadcasts : ~At(b, "idle") ~> At(b, "done")
=============================================================================
