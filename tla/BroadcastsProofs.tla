-------------------------- MODULE BroadcastsProofs -------------------------
(***************************************************************************)
(* Proofs about module Broadcasts, for any broadcasts, audiences and       *)
(* bounds: its types, and what the log of a recipient says of what was     *)
(* delivered and of who is still at work on it.                            *)
(***************************************************************************)
EXTENDS Broadcasts, TLAPS

\* The recipients that have no log yet, and the one that has a log and no task yet.
Waiting(b) == IF At(b, "idle") THEN Audience[b] ELSE dispatcher[b].todo

Handed(t) == At(t[1], "submit") /\ dispatcher[t[1]].now = t[2]

DispatcherOK(b) ==
    /\ dispatcher[b].todo \subseteq Audience[b]
    /\ dispatcher[b].pc \in {"submit", "inline"} => dispatcher[b].now \in Audience[b]
    /\ At(b, "submit") => dispatcher[b].now \notin dispatcher[b].todo
    /\ At(b, "finish") => dispatcher[b].todo = {}
    /\ broadcast[b] = "sent" => At(b, "done") /\ \A t \in TasksOf(b) : Does(t, "ended") /\ log[t] # "none"

\* A task exists once its log does, unless its dispatcher has failed in between.
BeginsOK(t) ==
    /\ t[2] \in Waiting(t[1]) => log[t] = "none" /\ task[t] = NoTask
    /\ Handed(t) => log[t] = "QUEUED" /\ task[t] = NoTask
    /\ Does(t, "none") => /\ task[t] = NoTask /\ log[t] # "SENT"
                          /\ \/ t[2] \in Waiting(t[1]) \/ Handed(t)
                             \/ dispatcher[t[1]].pc \in {"abort", "done"}
    /\ ~Does(t, "none") => log[t] # "none"

\* Each attempt delivers at most once.
DeliveriesOK(t) ==
    /\ delivered[t] <= IF task[t].pc \in {"save", "ended"} THEN task[t].attempt ELSE task[t].attempt - 1
    /\ Does(t, "save") /\ task[t].ok => delivered[t] > 0

\* SENT is the end; a task at a later attempt has recorded that the one before failed.
LogOK(t) ==
    /\ log[t] = "SENT" => delivered[t] > 0 /\ Does(t, "ended")
    /\ task[t].attempt > 1 => log[t] # "QUEUED"
    /\ log[t] = "QUEUED" => task[t].pc \notin {"none", "ended"} \/ Handed(t) \/ t \in cut

BInv ==
    /\ TypeOK
    /\ \A b \in Broadcasts : DispatcherOK(b)
    /\ \A t \in Tasks : BeginsOK(t) /\ DeliveriesOK(t) /\ LogOK(t)

-----------------------------------------------------------------------------
(* Tasks *)

LEMMA TaskNames ==
    /\ \A t \in Tasks : t[1] \in Broadcasts /\ t[2] \in Audience[t[1]] /\ t = <<t[1], t[2]>> /\ t \in TasksOf(t[1])
    /\ \A b \in Broadcasts : TasksOf(b) \subseteq Tasks /\ \A t \in TasksOf(b) : t[1] = b
    /\ \A b \in Broadcasts : \A r \in Audience[b] : <<b, r>> \in TasksOf(b) /\ <<b, r>>[1] = b /\ <<b, r>>[2] = r
BY DEF Tasks, TasksOf

LEMMA ConstantTypes ==
    /\ NoTask \in Task /\ 1 \in 1..Attempts /\ Attempts \in Nat \ {0}
    /\ \A b \in Broadcasts : Audience[b] \subseteq Recipients
BY BroadcastsAssumption DEF NoTask, Task

\* Retry and Run, as what they do to the task's record.
LEMMA TaskWrites ==
    ASSUME TypeOK, NEW t \in Tasks
    PROVE  /\ \A pc : Run(t, pc) => task' = [task EXCEPT ![t] = [task[t] EXCEPT !.pc = pc]]
           /\ Retry(t) => \/ task[t].attempt = Attempts /\ task' = [task EXCEPT ![t] = [task[t] EXCEPT !.pc = "ended"]]
                          \/ /\ task[t].attempt # Attempts
                             /\ task' = [task EXCEPT ![t] = [pc |-> "read", attempt |-> task[t].attempt + 1, ok |-> FALSE]]
           /\ task[t] \in Task
<1>1. task \in [Tasks -> Task] /\ task[t] \in Task
  BY DEF TypeOK
<1>2. ASSUME NEW pc, Run(t, pc)
      PROVE  task' = [task EXCEPT ![t] = [task[t] EXCEPT !.pc = pc]]
  BY <1>1, <1>2 DEF Run
<1>3. ASSUME Retry(t), task[t].attempt = Attempts
      PROVE  task' = [task EXCEPT ![t] = [task[t] EXCEPT !.pc = "ended"]]
  BY <1>1, <1>3 DEF Retry
<1>4. ASSUME Retry(t), task[t].attempt # Attempts
      PROVE  task' = [task EXCEPT ![t] = [pc |-> "read", attempt |-> task[t].attempt + 1, ok |-> FALSE]]
  BY <1>1, <1>4 DEF Retry
<1> QED BY <1>1, <1>2, <1>3, <1>4

-----------------------------------------------------------------------------
(* Initial states *)

LEMMA InvInit == Init => BInv
<1> SUFFICES ASSUME Init
             PROVE  BInv
  OBVIOUS
<1> USE BroadcastsAssumption, ConstantTypes, TaskNames DEF Init
<1>1. TypeOK
  <2>1. [pc |-> "idle", todo |-> {}, now |-> None] \in Dispatcher
    BY DEF Dispatcher
  <2>2. \A t \in Tasks : delivered[t] \in 0..Attempts
    OBVIOUS
  <2> QED BY <2>1, <2>2 DEF TypeOK
<1>2. \A b \in Broadcasts : DispatcherOK(b)
  BY DEF DispatcherOK, At
<1>3. \A t \in Tasks : BeginsOK(t) /\ DeliveriesOK(t) /\ LogOK(t)
  BY DEF BeginsOK, DeliveriesOK, LogOK, Waiting, Handed, At, Does, NoTask
<1> QED BY <1>1, <1>2, <1>3 DEF BInv

-----------------------------------------------------------------------------
(* Dispatchers *)

\* A step of one dispatcher that touches no log and no task.
LEMMA DispatcherStep ==
    ASSUME BInv, NEW b \in Broadcasts, NEW d \in Dispatcher,
           dispatcher' = [dispatcher EXCEPT ![b] = d],
           UNCHANGED <<log, task, delivered>>,
           cut \subseteq cut', cut' \subseteq Tasks,
           broadcast' \in [Broadcasts -> {"none", "queued", "sent"}],
           \A c \in Broadcasts \ {b} : broadcast'[c] = broadcast[c],
           DispatcherOK(b)',
           \A t \in TasksOf(b) : /\ t[2] \in Waiting(b)' <=> t[2] \in Waiting(b)
                                 /\ ~Handed(t)'
                                 /\ Handed(t) => t \in cut'
                                 /\ Does(t, "none") => t[2] \in Waiting(b) \/ d.pc \in {"abort", "done"}
    PROVE  BInv'
<1> USE DEF BInv
<1>1. TypeOK'
  BY DEF TypeOK
<1>2. ASSUME NEW c \in Broadcasts \ {b}
      PROVE  DispatcherOK(c)'
  BY TaskNames DEF DispatcherOK, At, Does, TypeOK
<1>3. ASSUME NEW t \in Tasks, t[1] # b
      PROVE  (BeginsOK(t) /\ DeliveriesOK(t) /\ LogOK(t))'
  <2>1. dispatcher'[t[1]] = dispatcher[t[1]]
    BY <1>3, TaskNames DEF TypeOK
  <2> QED BY <2>1 DEF BeginsOK, DeliveriesOK, LogOK, Waiting, Handed, At, Does
<1>4. ASSUME NEW t \in Tasks, t[1] = b
      PROVE  (BeginsOK(t) /\ DeliveriesOK(t) /\ LogOK(t))'
  <2>1. dispatcher'[b] = d
    BY DEF TypeOK
  <2>2. t \in TasksOf(b)
    BY <1>4, TaskNames
  <2>3. BeginsOK(t)'
    BY <1>4, <2>1, <2>2 DEF BeginsOK, Does
  <2>4. DeliveriesOK(t)'
    BY DEF DeliveriesOK, Does
  <2>5. LogOK(t)'
    BY <1>4, <2>2 DEF LogOK, Does
  <2> QED BY <2>3, <2>4, <2>5
<1> QED BY <1>1, <1>2, <1>3, <1>4

LEMMA SendBroadcastKeeps == ASSUME BInv, NEW b \in Broadcasts, SendBroadcast(b) PROVE BInv'
<1> DEFINE d == [dispatcher[b] EXCEPT !.pc = "connect", !.todo = Audience[b]]
<1>1. dispatcher' = [dispatcher EXCEPT ![b] = d] /\ d \in Dispatcher
  BY ConstantTypes DEF SendBroadcast, BInv, TypeOK, Dispatcher
<1>2. /\ broadcast' \in [Broadcasts -> {"none", "queued", "sent"}]
      /\ \A c \in Broadcasts \ {b} : broadcast'[c] = broadcast[c]
      /\ broadcast'[b] # "sent"
  BY DEF SendBroadcast, BInv, TypeOK, DispatcherOK, At
<1>3. dispatcher'[b] = d /\ d.pc = "connect" /\ d.todo = Audience[b]
  BY <1>1 DEF BInv, TypeOK, Dispatcher
<1>4. DispatcherOK(b)'
  BY <1>2, <1>3 DEF DispatcherOK, At
<1>5. \A t \in TasksOf(b) : /\ t[2] \in Waiting(b)' <=> t[2] \in Waiting(b)
                            /\ ~Handed(t)' /\ ~Handed(t) /\ t[2] \in Waiting(b)
  BY <1>3, TaskNames DEF SendBroadcast, Waiting, Handed, At
<1>6. UNCHANGED <<log, task, delivered>> /\ cut' = cut /\ cut \subseteq Tasks
  BY DEF SendBroadcast, BInv, TypeOK
<1> HIDE DEF d
<1> QED BY <1>1, <1>2, <1>4, <1>5, <1>6, DispatcherStep

\* Steps that only move the dispatcher on.
LEMMA MoveKeeps ==
    ASSUME BInv, NEW b \in Broadcasts, NEW pc \in {"next", "abort", "finish", "done"},
           Goto(b, pc), UNCHANGED <<broadcast, log, task, delivered>>,
           dispatcher[b].pc \in {"connect", "next", "submit", "inline"},
           pc = "finish" => dispatcher[b].todo = {},
           pc \in {"next", "finish"} => dispatcher[b].pc \in {"connect", "next", "inline"},
           cut \subseteq cut', cut' \subseteq Tasks,
           At(b, "submit") => <<b, dispatcher[b].now>> \in cut'
    PROVE  BInv'
<1> DEFINE d == [dispatcher[b] EXCEPT !.pc = pc]
<1>1. dispatcher' = [dispatcher EXCEPT ![b] = d] /\ d \in Dispatcher
  BY DEF Goto, BInv, TypeOK, Dispatcher
<1>2. dispatcher'[b] = d /\ d.pc = pc /\ d.todo = dispatcher[b].todo
  BY <1>1 DEF BInv, TypeOK, Dispatcher
<1>3. broadcast[b] # "sent" /\ broadcast \in [Broadcasts -> {"none", "queued", "sent"}]
  BY DEF BInv, DispatcherOK, At, TypeOK
<1>4. DispatcherOK(b)'
  BY <1>2, <1>3 DEF DispatcherOK, At, BInv
<1>5. ASSUME NEW t \in TasksOf(b)
      PROVE  /\ t[2] \in Waiting(b)' <=> t[2] \in Waiting(b)
             /\ ~Handed(t)'
             /\ Handed(t) => t \in cut'
             /\ Does(t, "none") => t[2] \in Waiting(b) \/ d.pc \in {"abort", "done"}
  <2>1. t \in Tasks /\ t[1] = b /\ t = <<b, t[2]>> /\ BeginsOK(t)
    BY TaskNames DEF BInv
  <2>2. ~Handed(t)' /\ (t[2] \in Waiting(b)' <=> t[2] \in Waiting(b))
    BY <1>2, <2>1 DEF Handed, Waiting, At
  <2>3. Handed(t) => t \in cut'
    BY <2>1 DEF Handed, At
  <2>4. Does(t, "none") => t[2] \in Waiting(b) \/ d.pc \in {"abort", "done"}
    BY <1>2, <2>1 DEF BeginsOK, Handed, At
  <2> QED BY <2>2, <2>3, <2>4
<1> HIDE DEF d
<1> QED BY <1>1, <1>3, <1>4, <1>5, DispatcherStep

LEMMA FinishKeeps == ASSUME BInv, NEW b \in Broadcasts, NEW ok \in BOOLEAN, Finish(b, ok) PROVE BInv'
<1> DEFINE d == [dispatcher[b] EXCEPT !.pc = "done"]
<1>1. dispatcher' = [dispatcher EXCEPT ![b] = d] /\ d \in Dispatcher
  BY DEF Finish, Goto, BInv, TypeOK, Dispatcher
<1>2. dispatcher'[b] = d /\ d.pc = "done" /\ d.todo = dispatcher[b].todo
  BY <1>1 DEF BInv, TypeOK, Dispatcher
<1>3. UNCHANGED <<log, task, delivered>> /\ cut' = cut /\ cut \subseteq Tasks
  BY DEF Finish, BInv, TypeOK
<1>4. /\ broadcast' \in [Broadcasts -> {"none", "queued", "sent"}]
      /\ \A c \in Broadcasts \ {b} : broadcast'[c] = broadcast[c]
      /\ broadcast'[b] = "sent" => At(b, "finish")
  BY DEF Finish, BInv, TypeOK, DispatcherOK, At
<1>5. ASSUME At(b, "finish"), NEW t \in TasksOf(b)
      PROVE  Does(t, "ended") /\ log[t] # "none"
  <2>1. t \in Tasks /\ t[1] = b /\ BeginsOK(t) /\ dispatcher[b].todo = {}
    BY <1>5, TaskNames DEF BInv, DispatcherOK
  <2>2. ~Does(t, "none")
    BY <1>5, <2>1 DEF BeginsOK, Waiting, Handed, At
  <2> QED BY <2>1, <2>2 DEF BeginsOK, Does, Finish, PoolEnded
<1>6. DispatcherOK(b)'
  BY <1>2, <1>3, <1>4, <1>5 DEF DispatcherOK, At, Does, BInv
<1>7. ASSUME NEW t \in TasksOf(b)
      PROVE  (t[2] \in Waiting(b)' <=> t[2] \in Waiting(b)) /\ ~Handed(t)' /\ ~Handed(t)
  BY <1>2, TaskNames DEF Waiting, Handed, At, Finish
<1> HIDE DEF d
<1> QED BY <1>1, <1>2, <1>3, <1>4, <1>6, <1>7, DispatcherStep

LEMMA DispatchKeeps ==
    ASSUME BInv, NEW b \in Broadcasts,
           \/ Connect(b) \/ DispatchFails(b) \/ InlineEnds(b) \/ AllSubmitted(b)
           \/ \E ok \in BOOLEAN : Finish(b, ok)
    PROVE  BInv'
<1>0. cut \subseteq Tasks
  BY DEF BInv, TypeOK
<1>1. CASE Connect(b)
  BY <1>0, <1>1, MoveKeeps DEF Connect, At
<1>2. CASE DispatchFails(b)
  <2>1. At(b, "submit") => <<b, dispatcher[b].now>> \in Tasks
    BY TaskNames DEF BInv, DispatcherOK, At
  <2>2. cut \subseteq cut' /\ cut' \subseteq Tasks /\ (At(b, "submit") => <<b, dispatcher[b].now>> \in cut')
    BY <1>0, <1>2, <2>1 DEF DispatchFails
  <2>3. Goto(b, "done") \/ Goto(b, "abort")
    BY <1>2 DEF DispatchFails
  <2> QED BY <1>2, <2>2, <2>3, MoveKeeps DEF DispatchFails
<1>3. CASE InlineEnds(b)
  <2>1. Goto(b, "done") \/ Goto(b, "next")
    BY <1>3 DEF InlineEnds
  <2> QED BY <1>0, <1>3, <2>1, MoveKeeps DEF InlineEnds, At
<1>4. CASE AllSubmitted(b)
  <2>1. Goto(b, "done") \/ Goto(b, "finish")
    BY <1>4 DEF AllSubmitted
  <2> QED BY <1>0, <1>4, <2>1, MoveKeeps DEF AllSubmitted, At
<1>5. CASE \E ok \in BOOLEAN : Finish(b, ok)
  BY <1>5, FinishKeeps
<1> QED BY <1>1, <1>2, <1>3, <1>4, <1>5

\* The log is written and becomes the one that is handed over.
LEMMA AddLogKeeps == ASSUME BInv, NEW b \in Broadcasts, NEW r \in Recipients, AddLog(b, r) PROVE BInv'
<1> DEFINE x == <<b, r>>
           d == [pc |-> "submit", todo |-> dispatcher[b].todo \ {r}, now |-> r]
<1>1. /\ r \in Audience[b] /\ x \in TasksOf(b) /\ x \in Tasks /\ At(b, "next") /\ r \in dispatcher[b].todo
      /\ x[1] = b /\ x[2] = r
  BY TaskNames DEF AddLog, BInv, DispatcherOK
<1>2. /\ dispatcher' = [dispatcher EXCEPT ![b] = d] /\ dispatcher'[b] = d /\ d \in Dispatcher
      /\ \A c \in Broadcasts \ {b} : dispatcher'[c] = dispatcher[c]
  BY DEF AddLog, BInv, TypeOK, Dispatcher
<1>3. /\ log' \in [Tasks -> {"none", "QUEUED", "FAILED", "SENT"}] /\ log'[x] = "QUEUED"
      /\ \A t \in Tasks \ {x} : log'[t] = log[t]
  BY <1>1 DEF AddLog, BInv, TypeOK
<1>4. UNCHANGED <<broadcast, task, delivered, cut>>
  BY DEF AddLog
<1>5. TypeOK'
  BY <1>2, <1>3, <1>4 DEF BInv, TypeOK
<1>6. broadcast[b] # "sent"
  BY <1>1 DEF BInv, DispatcherOK, At
<1>7. ASSUME NEW c \in Broadcasts
      PROVE  DispatcherOK(c)'
  <2>1. CASE c = b
    BY <1>1, <1>2, <1>4, <1>6, <2>1 DEF DispatcherOK, At, BInv
  <2>2. CASE c # b
    <3>1. \A t \in TasksOf(c) : t \in Tasks \ {x}
      BY <1>1, <2>2, TaskNames
    <3> QED BY <1>2, <1>3, <1>4, <2>2, <3>1 DEF DispatcherOK, At, Does, BInv
  <2> QED BY <2>1, <2>2
<1>8. ASSUME NEW t \in Tasks
      PROVE  (BeginsOK(t) /\ DeliveriesOK(t) /\ LogOK(t))'
  <2>1. CASE t[1] # b
    <3>1. dispatcher'[t[1]] = dispatcher[t[1]] /\ log'[t] = log[t]
      BY <1>1, <1>2, <1>3, <2>1, TaskNames
    <3> QED BY <1>4, <3>1 DEF BeginsOK, DeliveriesOK, LogOK, Waiting, Handed, At, Does, BInv
  <2>2. CASE t[1] = b /\ t # x
    <3>1. t[2] # r /\ log'[t] = log[t]
      BY <1>1, <1>3, <2>2, TaskNames
    <3>2. (t[2] \in Waiting(b)' <=> t[2] \in Waiting(b)) /\ ~Handed(t)' /\ ~Handed(t)
      BY <1>1, <1>2, <2>2, <3>1 DEF Waiting, Handed, At
    <3>3. dispatcher[b].pc \notin {"abort", "done"}
      BY <1>1 DEF At
    <3> QED BY <1>4, <2>2, <3>1, <3>2, <3>3 DEF BeginsOK, DeliveriesOK, LogOK, Does, BInv
  <2>3. CASE t = x
    <3>1. task[x] = NoTask /\ r \in Waiting(b)
      BY <1>1 DEF BInv, BeginsOK, Waiting, At
    <3>2. Handed(x)' /\ ~(r \in Waiting(b)')
      BY <1>1, <1>2 DEF Handed, Waiting, At
    <3> HIDE DEF x
    <3> QED BY <1>1, <1>3, <1>4, <2>3, <3>1, <3>2 DEF BeginsOK, DeliveriesOK, LogOK, Does, NoTask, BInv
  <2> QED BY <2>1, <2>2, <2>3
<1> QED BY <1>5, <1>7, <1>8 DEF BInv

\* The task begins to exist.
LEMMA SubmitKeeps == ASSUME BInv, NEW b \in Broadcasts, Submit(b) PROVE BInv'
<1> DEFINE x == <<b, dispatcher[b].now>>
           pc == IF b \in Inline THEN "read" ELSE "pooled"
           d == [dispatcher[b] EXCEPT !.pc = IF b \in Inline THEN "inline" ELSE "next"]
<1>1. /\ x \in TasksOf(b) /\ x \in Tasks /\ At(b, "submit") /\ x[1] = b /\ x[2] = dispatcher[b].now
      /\ dispatcher[b].now \in Audience[b] /\ dispatcher[b].now \notin dispatcher[b].todo
  BY TaskNames DEF Submit, BInv, DispatcherOK, At
<1>2. /\ dispatcher' = [dispatcher EXCEPT ![b] = d] /\ d \in Dispatcher
      /\ \A c \in Broadcasts \ {b} : dispatcher'[c] = dispatcher[c]
  BY DEF Submit, Goto, BInv, TypeOK, Dispatcher
<1>3. /\ dispatcher'[b] = d /\ d.pc \in {"inline", "next"}
      /\ d.todo = dispatcher[b].todo /\ d.now = dispatcher[b].now
  BY <1>2 DEF BInv, TypeOK, Dispatcher
<1>4. Handed(x)
  BY <1>1 DEF Handed
<1>5. task[x] = NoTask /\ log[x] = "QUEUED"
  BY <1>1, <1>4 DEF BInv, BeginsOK
<1>6. /\ task' = [task EXCEPT ![x] = [NoTask EXCEPT !.pc = pc]] /\ [NoTask EXCEPT !.pc = pc] \in Task
      /\ task'[x] = [NoTask EXCEPT !.pc = pc] /\ \A t \in Tasks \ {x} : task'[t] = task[t]
  <2>1. Run(x, pc)
    BY DEF Submit
  <2>2. task' = [task EXCEPT ![x] = [task[x] EXCEPT !.pc = pc]]
    BY <1>1, <2>1, TaskWrites DEF BInv
  <2>3. [NoTask EXCEPT !.pc = pc] \in Task
    BY ConstantTypes DEF NoTask, Task
  <2> QED BY <1>1, <1>5, <2>2, <2>3 DEF BInv, TypeOK
<1>7. UNCHANGED <<broadcast, log, delivered, cut>>
  BY DEF Submit
<1>8. TypeOK'
  BY <1>1, <1>2, <1>6, <1>7 DEF BInv, TypeOK
<1>9. broadcast[b] # "sent"
  BY <1>1 DEF BInv, DispatcherOK, At
<1>10. ASSUME NEW c \in Broadcasts
      PROVE  DispatcherOK(c)'
  <2>1. CASE c = b
    BY <1>1, <1>3, <1>7, <1>9, <2>1 DEF DispatcherOK, At, BInv
  <2>2. CASE c # b
    <3>1. \A t \in TasksOf(c) : t \in Tasks \ {x}
      BY <1>1, <2>2, TaskNames
    <3> QED BY <1>2, <1>6, <1>7, <2>2, <3>1 DEF DispatcherOK, At, Does, BInv
  <2> QED BY <2>1, <2>2
<1>11. ASSUME NEW t \in Tasks
      PROVE  (BeginsOK(t) /\ DeliveriesOK(t) /\ LogOK(t))'
  <2>1. CASE t[1] # b
    <3>1. dispatcher'[t[1]] = dispatcher[t[1]] /\ task'[t] = task[t]
      BY <1>1, <1>2, <1>6, <2>1, TaskNames
    <3> QED BY <1>7, <3>1 DEF BeginsOK, DeliveriesOK, LogOK, Waiting, Handed, At, Does, BInv
  <2>2. CASE t[1] = b /\ t # x
    <3>1. t[2] # dispatcher[b].now /\ task'[t] = task[t]
      BY <1>1, <1>6, <2>2, TaskNames
    <3>2. (t[2] \in Waiting(b)' <=> t[2] \in Waiting(b)) /\ ~Handed(t)' /\ ~Handed(t)
      BY <1>1, <1>3, <2>2, <3>1 DEF Waiting, Handed, At
    <3>3. dispatcher[b].pc \notin {"abort", "done"}
      BY <1>1 DEF At
    <3> QED BY <1>7, <2>2, <3>1, <3>2, <3>3 DEF BeginsOK, DeliveriesOK, LogOK, Does, BInv
  <2>3. CASE t = x
    <3>1. t[1] = b /\ ~(t[2] \in Waiting(b)') /\ ~Handed(t)'
      BY <1>1, <1>3, <2>3 DEF Handed, Waiting, At
    <3>2. /\ task'[t].pc \in {"read", "pooled"} /\ task'[t].attempt = 1 /\ log'[t] = "QUEUED"
          /\ delivered'[t] <= 0 /\ delivered'[t] \in Nat
      BY <1>1, <1>5, <1>6, <1>7, <2>3 DEF NoTask, BInv, DeliveriesOK, TypeOK
    <3> QED BY <3>1, <3>2 DEF BeginsOK, DeliveriesOK, LogOK, Does
  <2> QED BY <2>1, <2>2, <2>3
<1> QED BY <1>8, <1>10, <1>11 DEF BInv

-----------------------------------------------------------------------------
(* Steps of a task *)

\* What a step of one task must show: its record, its log and its deliveries fit together.
LEMMA TaskStep ==
    ASSUME BInv, NEW t \in Tasks, NEW k \in Task,
           ~Does(t, "none"), ~Does(t, "ended"), k.pc # "none",
           task' = [task EXCEPT ![t] = k],
           log' \in [Tasks -> {"none", "QUEUED", "FAILED", "SENT"}], log'[t] # "none",
           \A u \in Tasks \ {t} : log'[u] = log[u],
           delivered' \in [Tasks -> 0..Attempts],
           \A u \in Tasks \ {t} : delivered'[u] = delivered[u],
           UNCHANGED <<broadcast, dispatcher>>, cut \subseteq cut', cut' \subseteq Tasks,
           DeliveriesOK(t)', LogOK(t)'
    PROVE  BInv'
<1>1. TypeOK'
  BY DEF BInv, TypeOK
<1>2. task'[t] = k /\ \A u \in Tasks \ {t} : task'[u] = task[u]
  BY DEF BInv, TypeOK
<1>3. ASSUME NEW b \in Broadcasts
      PROVE  DispatcherOK(b)'
  <2>1. ASSUME broadcast[b] = "sent", NEW u \in TasksOf(b)
        PROVE  task'[u] = task[u] /\ log'[u] = log[u]
    <3>1. Does(u, "ended") /\ u \in Tasks
      BY <2>1, TaskNames DEF BInv, DispatcherOK
    <3> QED BY <1>2, <3>1
  <2> QED BY <2>1 DEF DispatcherOK, At, Does, BInv
<1>4. ASSUME NEW u \in Tasks, u # t
      PROVE  (BeginsOK(u) /\ DeliveriesOK(u) /\ LogOK(u))'
  BY <1>2, <1>4 DEF BeginsOK, DeliveriesOK, LogOK, Waiting, Handed, At, Does, BInv
<1>5. BeginsOK(t)'
  <2>1. t[2] \notin Waiting(t[1]) /\ ~Handed(t)
    BY DEF BInv, BeginsOK, Does, NoTask
  <2> QED BY <1>2, <2>1 DEF BeginsOK, Waiting, Handed, At, Does
<1> QED BY <1>1, <1>3, <1>4, <1>5 DEF BInv

\* What every step of a task leaves as it is, and the bounds it starts from.
LEMMA TaskBounds ==
    ASSUME BInv, NEW t \in Tasks
    PROVE  /\ task[t] \in Task /\ delivered[t] \in 0..Attempts
           /\ task[t].attempt \in 1..Attempts /\ task[t].ok \in BOOLEAN
           /\ log[t] \in {"none", "QUEUED", "FAILED", "SENT"} /\ cut \subseteq Tasks
           /\ log \in [Tasks -> {"none", "QUEUED", "FAILED", "SENT"}]
           /\ delivered \in [Tasks -> 0..Attempts]
           /\ BeginsOK(t) /\ DeliveriesOK(t) /\ LogOK(t)
           /\ \A pc \in {"pooled", "read", "send", "save", "ended"} :
                 Run(t, pc) => \E k \in Task : /\ task' = [task EXCEPT ![t] = k] /\ task'[t] = k
                                               /\ k.pc = pc /\ k.attempt = task[t].attempt /\ k.ok = task[t].ok
           /\ Retry(t) => \E k \in Task : /\ task' = [task EXCEPT ![t] = k] /\ task'[t] = k
                                          /\ \/ k.pc = "ended" /\ k.attempt = task[t].attempt
                                             \/ k.pc = "read" /\ k.attempt = task[t].attempt + 1
<1>1. /\ task \in [Tasks -> Task] /\ task[t] \in Task /\ delivered[t] \in 0..Attempts
      /\ task[t].attempt \in 1..Attempts /\ task[t].ok \in BOOLEAN /\ Attempts \in Nat \ {0}
  BY ConstantTypes DEF BInv, TypeOK, Task
<1>2. ASSUME NEW pc \in {"pooled", "read", "send", "save", "ended"}, Run(t, pc)
      PROVE  \E k \in Task : /\ task' = [task EXCEPT ![t] = k] /\ task'[t] = k
                             /\ k.pc = pc /\ k.attempt = task[t].attempt /\ k.ok = task[t].ok
  <2> DEFINE k == [task[t] EXCEPT !.pc = pc]
  <2>1. k \in Task /\ k.pc = pc /\ k.attempt = task[t].attempt /\ k.ok = task[t].ok
    BY <1>1 DEF Task
  <2>2. task' = [task EXCEPT ![t] = k]
    BY <1>2, TaskWrites DEF BInv
  <2> HIDE DEF k
  <2> QED BY <1>1, <2>1, <2>2
<1>3. ASSUME Retry(t)
      PROVE  \E k \in Task : /\ task' = [task EXCEPT ![t] = k] /\ task'[t] = k
                             /\ \/ k.pc = "ended" /\ k.attempt = task[t].attempt
                                \/ k.pc = "read" /\ k.attempt = task[t].attempt + 1
  <2>1. CASE task[t].attempt = Attempts
    <3> DEFINE k == [task[t] EXCEPT !.pc = "ended"]
    <3>1. k \in Task /\ k.pc = "ended" /\ k.attempt = task[t].attempt
      BY <1>1 DEF Task
    <3>2. task' = [task EXCEPT ![t] = k]
      BY <1>3, <2>1, TaskWrites DEF BInv
    <3> HIDE DEF k
    <3> QED BY <1>1, <3>1, <3>2
  <2>2. CASE task[t].attempt # Attempts
    <3> DEFINE k == [pc |-> "read", attempt |-> task[t].attempt + 1, ok |-> FALSE]
    <3>1. k \in Task /\ k.pc = "read" /\ k.attempt = task[t].attempt + 1
      BY <1>1, <2>2 DEF Task
    <3>2. task' = [task EXCEPT ![t] = k]
      BY <1>3, <2>2, TaskWrites DEF BInv
    <3> HIDE DEF k
    <3> QED BY <1>1, <3>1, <3>2
  <2> QED BY <2>1, <2>2
<1> QED BY <1>1, <1>2, <1>3 DEF BInv, TypeOK

LEMMA BeginKeeps == ASSUME BInv, NEW t \in Tasks, Begin(t) \/ Read(t) PROVE BInv'
<1>1. /\ \/ Run(t, "read") /\ Does(t, "pooled")
         \/ Run(t, "send") /\ Does(t, "read")
      /\ UNCHANGED <<broadcast, dispatcher, log, delivered, cut>>
  BY DEF Begin, Read
<1>2. PICK k \in Task : /\ task' = [task EXCEPT ![t] = k] /\ task'[t] = k
                        /\ k.pc \in {"read", "send"} /\ k.attempt = task[t].attempt
  BY <1>1, TaskBounds
<1>3. log[t] # "none" /\ ~Does(t, "none") /\ ~Does(t, "ended") /\ ~Does(t, "save")
  BY <1>1, TaskBounds DEF BeginsOK, Does
<1>4. DeliveriesOK(t)'
  BY <1>1, <1>2, <1>3, TaskBounds DEF DeliveriesOK, Does
<1>5. LogOK(t)'
  BY <1>1, <1>2, <1>3, TaskBounds DEF LogOK, Does
<1> QED BY <1>1, <1>2, <1>3, <1>4, <1>5, TaskBounds, TaskStep

LEMMA ReadFailsKeeps == ASSUME BInv, NEW t \in Tasks, ReadFails(t) PROVE BInv'
<1>1. /\ Does(t, "read") /\ UNCHANGED <<broadcast, dispatcher, log, delivered>>
      /\ \/ Run(t, "ended") /\ cut' = cut \cup {t}
         \/ Retry(t) /\ cut' = cut /\ task[t].attempt # 1
  BY DEF ReadFails, Break
<1>2. PICK k \in Task : /\ task' = [task EXCEPT ![t] = k] /\ task'[t] = k
                        /\ \/ k.pc = "ended" /\ k.attempt = task[t].attempt
                           \/ k.pc = "read" /\ k.attempt = task[t].attempt + 1 /\ task[t].attempt # 1
  BY <1>1, TaskBounds
<1>3. /\ log[t] # "none" /\ ~Does(t, "none") /\ ~Does(t, "ended") /\ ~Does(t, "save") /\ log[t] # "SENT"
      /\ cut \subseteq cut' /\ cut' \subseteq Tasks
  BY <1>1, TaskBounds DEF BeginsOK, LogOK, Does
<1>4. DeliveriesOK(t)'
  BY <1>1, <1>2, <1>3, TaskBounds DEF DeliveriesOK, Does
<1>5. LogOK(t)'
  BY <1>1, <1>2, <1>3, TaskBounds DEF LogOK, Does
<1> QED BY <1>1, <1>2, <1>3, <1>4, <1>5, TaskBounds, TaskStep

LEMMA SendKeeps ==
    ASSUME BInv, NEW t \in Tasks, NEW ok \in BOOLEAN, NEW accepted \in BOOLEAN, Send(t, ok, accepted)
    PROVE  BInv'
<1> DEFINE k == [task[t] EXCEPT !.pc = "save", !.ok = ok]
<1>1. /\ Does(t, "send") /\ UNCHANGED <<broadcast, dispatcher, log, cut>> /\ (ok => accepted)
      /\ delivered' = [delivered EXCEPT ![t] = IF accepted THEN delivered[t] + 1 ELSE delivered[t]]
  BY DEF Send
<1>2. k \in Task /\ k.pc = "save" /\ k.attempt = task[t].attempt /\ k.ok = ok
  <2>1. task[t] \in Task
    BY TaskBounds
  <2> QED BY <2>1 DEF Task
<1>3. task' = [task EXCEPT ![t] = k] /\ task'[t] = k
  BY DEF Send, BInv, TypeOK
<1> HIDE DEF k
<1>4. log[t] # "none" /\ ~Does(t, "none") /\ ~Does(t, "ended") /\ log[t] # "SENT"
  BY <1>1, TaskBounds DEF BeginsOK, LogOK, Does
<1>5. /\ delivered' \in [Tasks -> 0..Attempts] /\ \A u \in Tasks \ {t} : delivered'[u] = delivered[u]
      /\ delivered'[t] = IF accepted THEN delivered[t] + 1 ELSE delivered[t]
  <2>1. delivered[t] + 1 \in 0..Attempts
    BY <1>1, TaskBounds, ConstantTypes DEF DeliveriesOK, Does
  <2> QED BY <1>1, <2>1, TaskBounds
<1>6. DeliveriesOK(t)'
  BY <1>1, <1>2, <1>3, <1>5, TaskBounds DEF DeliveriesOK, Does
<1>7. LogOK(t)'
  BY <1>1, <1>2, <1>3, <1>4, TaskBounds DEF LogOK, Does
<1> QED BY <1>1, <1>2, <1>3, <1>4, <1>5, <1>6, <1>7, TaskBounds, TaskStep

LEMMA SaveKeeps ==
    ASSUME BInv, NEW t \in Tasks, Save(t) \/ \E twice \in BOOLEAN : SaveFails(t, twice)
    PROVE  BInv'
<1>1. /\ Does(t, "save") /\ UNCHANGED <<broadcast, dispatcher, delivered>>
      /\ \/ log' = [log EXCEPT ![t] = "SENT"] /\ task[t].ok /\ Run(t, "ended") /\ cut' = cut
         \/ log' = [log EXCEPT ![t] = "FAILED"] /\ Retry(t) /\ cut' = cut
         \/ log' = log /\ Run(t, "ended") /\ cut' = cut \cup {t}
  BY DEF Save, Outcome, Again, SaveFails, Break
<1>2. PICK k \in Task : /\ task' = [task EXCEPT ![t] = k] /\ task'[t] = k
                        /\ \/ k.pc = "ended" /\ k.attempt = task[t].attempt
                           \/ k.pc = "read" /\ k.attempt = task[t].attempt + 1 /\ log'[t] = "FAILED"
  <2>1. CASE Run(t, "ended")
    BY <2>1, TaskBounds
  <2>2. CASE Retry(t) /\ log' = [log EXCEPT ![t] = "FAILED"]
    <3>1. log'[t] = "FAILED"
      BY <2>2, TaskBounds
    <3> QED BY <2>2, <3>1, TaskBounds
  <2> QED BY <1>1, <2>1, <2>2
<1>3. /\ log[t] # "none" /\ ~Does(t, "none") /\ ~Does(t, "ended") /\ log[t] # "SENT"
      /\ cut \subseteq cut' /\ cut' \subseteq Tasks
  BY <1>1, TaskBounds DEF BeginsOK, LogOK, Does
<1>4. /\ log' \in [Tasks -> {"none", "QUEUED", "FAILED", "SENT"}] /\ \A u \in Tasks \ {t} : log'[u] = log[u]
      /\ log'[t] = "SENT" => task[t].ok /\ Run(t, "ended")
      /\ log'[t] = "QUEUED" => log[t] = "QUEUED" /\ t \in cut'
      /\ log'[t] # "none"
  BY <1>1, <1>3, TaskBounds
<1>5. log'[t] = "SENT" => k.pc = "ended"
  BY <1>2, <1>4
<1>6. DeliveriesOK(t)'
  BY <1>1, <1>2, <1>3, TaskBounds DEF DeliveriesOK, Does
<1>7. LogOK(t)'
  BY <1>1, <1>2, <1>3, <1>4, <1>5, TaskBounds DEF LogOK, DeliveriesOK, Does
<1> QED BY <1>1, <1>2, <1>3, <1>4, <1>6, <1>7, TaskBounds, TaskStep

-----------------------------------------------------------------------------
(* Every step *)

LEMMA CrashKeeps == ASSUME BInv, Crash PROVE BInv'
<1>1. /\ UNCHANGED <<broadcast, log, delivered>>
      /\ \A b \in Broadcasts : /\ dispatcher'[b] \in Dispatcher
                               /\ dispatcher'[b].todo = dispatcher[b].todo
                               /\ dispatcher'[b].pc \in {"idle", "done"}
                               /\ At(b, "idle") <=> At(b, "idle")'
                               /\ At(b, "done") => At(b, "done")'
  BY DEF Crash, Busy, At, BInv, TypeOK, Dispatcher
<1>2. \A t \in Tasks : /\ task'[t] \in Task
                       /\ Does(t, "none") => task'[t] = task[t]
                       /\ ~Does(t, "none") => task'[t].pc = "ended" /\ task'[t].attempt = task[t].attempt
  BY DEF Crash, Does, BInv, TypeOK, Task
<1>3. /\ cut \subseteq cut' /\ cut' \subseteq Tasks
      /\ \A t \in Tasks : log[t] # "none" /\ ~Does(t, "ended") => t \in cut'
  BY DEF Crash, BInv, TypeOK
<1>4. TypeOK'
  <2>1. dispatcher' \in [Broadcasts -> Dispatcher] /\ task' \in [Tasks -> Task]
    BY <1>1, <1>2 DEF Crash
  <2> QED BY <1>1, <1>3, <2>1 DEF BInv, TypeOK
<1>5. ASSUME NEW b \in Broadcasts
      PROVE  DispatcherOK(b)'
  <2>1. DispatcherOK(b)
    BY DEF BInv
  <2>2. \A t \in TasksOf(b) : Does(t, "ended") => Does(t, "ended")'
    BY <1>2, TaskNames DEF Does
  <2>3. (broadcast[b] = "sent" => At(b, "done") /\ \A t \in TasksOf(b) : Does(t, "ended") /\ log[t] # "none")'
    BY <1>1, <2>1, <2>2 DEF DispatcherOK
  <2> QED BY <1>1, <2>1, <2>3 DEF DispatcherOK, At
<1>6. ASSUME NEW t \in Tasks
      PROVE  (BeginsOK(t) /\ DeliveriesOK(t) /\ LogOK(t))'
  <2>1. t[1] \in Broadcasts /\ BeginsOK(t) /\ DeliveriesOK(t) /\ LogOK(t)
    BY TaskNames DEF BInv
  <2>2. ~Handed(t)' /\ Waiting(t[1])' = Waiting(t[1])
    BY <1>1, <2>1 DEF Handed, Waiting, At
  <2>3. Does(t, "none") => t[2] \in Waiting(t[1])' \/ dispatcher'[t[1]].pc \in {"abort", "done"}
    <3>1. CASE At(t[1], "idle")
      BY <2>1, <2>2, <3>1, TaskNames DEF Waiting
    <3>2. CASE ~At(t[1], "idle")
      BY <1>1, <2>1, <3>2 DEF At
    <3> QED BY <3>1, <3>2
  <2>4. BeginsOK(t)'
    BY <1>1, <1>2, <2>1, <2>2, <2>3 DEF BeginsOK, Does, NoTask
  <2>5. DeliveriesOK(t)'
    BY <1>1, <1>2, <2>1, TaskBounds DEF DeliveriesOK, Does
  <2>6. LogOK(t)'
    BY <1>1, <1>2, <1>3, <2>1, TaskBounds DEF LogOK, BeginsOK, Does, NoTask
  <2> QED BY <2>4, <2>5, <2>6
<1> QED BY <1>4, <1>5, <1>6 DEF BInv

LEMMA InvStep == BInv /\ [Next]_vars => BInv'
<1> SUFFICES ASSUME BInv, [Next]_vars
             PROVE  BInv'
  OBVIOUS
<1>1. ASSUME NEW b \in Broadcasts, SendBroadcast(b)
      PROVE  BInv'
  BY <1>1, SendBroadcastKeeps
<1>2. ASSUME NEW b \in Broadcasts, Dispatch(b)
      PROVE  BInv'
  BY <1>2, DispatchKeeps, SubmitKeeps, AddLogKeeps DEF Dispatch
<1>3. ASSUME NEW t \in Tasks, Work(t)
      PROVE  BInv'
  BY <1>3, BeginKeeps, ReadFailsKeeps, SendKeeps, SaveKeeps DEF Work
<1>4. CASE Crash
  BY <1>4, CrashKeeps
<1>5. CASE UNCHANGED vars
  BY <1>5 DEF vars, BInv, TypeOK, DispatcherOK, BeginsOK, DeliveriesOK, LogOK, Waiting, Handed, At, Does
<1> QED BY <1>1, <1>2, <1>3, <1>4, <1>5 DEF Next

\* The invariant holds in every state that the specification reaches.
LEMMA Invariance == Spec => []BInv
<1>1. Spec => Init /\ [][Next]_vars
  BY PTL DEF Spec
<1> QED BY <1>1, InvInit, InvStep, PTL

-----------------------------------------------------------------------------
(* What the logs say *)

\* Rows, dispatchers, tasks and histories keep their types.
THEOREM BroadcastsTyped == Spec => []TypeOK
<1>1. BInv => TypeOK
  BY DEF BInv
<1> QED BY <1>1, Invariance, PTL

\* Whoever is logged as SENT was sent to, with any number of attempts and connections.
THEOREM SentIsDelivered == Spec => []SentWasDelivered
<1>1. BInv => SentWasDelivered
  BY DEF BInv, SentWasDelivered, LogOK
<1> QED BY <1>1, Invariance, PTL

\* A log that waits as QUEUED has someone at work on it, or was cut off.
THEOREM NoLogIsForgotten == Spec => []QueuedIsUnderWay
<1>1. BInv => QueuedIsUnderWay
  BY DEF BInv, QueuedIsUnderWay, LogOK, Handed
<1> QED BY <1>1, Invariance, PTL

\* A broadcast is sent once each of its recipients has an outcome or was cut off.
THEOREM SentMeansAll == Spec => []SentIsComplete
<1>1. BInv => SentIsComplete
  <2> SUFFICES ASSUME BInv, NEW b \in Broadcasts, broadcast[b] = "sent", NEW t \in TasksOf(b)
               PROVE  log[t] \in {"SENT", "FAILED"} \cup (IF t \in cut THEN {"QUEUED"} ELSE {})
    BY DEF SentIsComplete
  <2>1. t \in Tasks /\ t[1] = b /\ At(b, "done") /\ Does(t, "ended") /\ log[t] # "none"
    BY TaskNames DEF BInv, DispatcherOK
  <2>2. log[t] \in {"QUEUED", "FAILED", "SENT"} /\ (log[t] = "QUEUED" => t \in cut)
    BY <2>1 DEF BInv, LogOK, TypeOK, Does, At, Handed
  <2> QED BY <2>2
<1> QED BY <1>1, Invariance, PTL

\* No retry, failure or crash sends or logs again what is logged as SENT.
THEOREM NothingIsSentAgain == Spec => SentIsFinal
<1>1. BInv /\ [Next]_vars => [\A t \in Tasks : log[t] = "SENT" => log'[t] = "SENT" /\ delivered'[t] = delivered[t]]_vars
  <2> SUFFICES ASSUME BInv, Next, NEW t \in Tasks, log[t] = "SENT"
               PROVE  log'[t] = "SENT" /\ delivered'[t] = delivered[t]
    BY DEF vars
  <2>1. /\ Does(t, "ended") /\ t = <<t[1], t[2]>> /\ t[2] \notin Waiting(t[1])
        /\ log \in [Tasks -> {"none", "QUEUED", "FAILED", "SENT"}] /\ delivered \in [Tasks -> 0..Attempts]
    BY TaskNames DEF BInv, LogOK, BeginsOK, TypeOK
  <2>2. ASSUME NEW b \in Broadcasts, SendBroadcast(b) \/ Dispatch(b)
        PROVE  log'[t] = "SENT" /\ delivered'[t] = delivered[t]
    <3>1. ASSUME NEW r \in Recipients, AddLog(b, r)
          PROVE  log'[t] = "SENT" /\ delivered'[t] = delivered[t]
      <4>1. t # <<b, r>>
        BY <2>1, <3>1 DEF AddLog, Waiting, At
      <4> QED BY <2>1, <3>1, <4>1 DEF AddLog
    <3>2. CASE \/ SendBroadcast(b) \/ Connect(b) \/ Submit(b) \/ DispatchFails(b) \/ InlineEnds(b) \/ AllSubmitted(b)
               \/ \E ok \in BOOLEAN : Finish(b, ok)
      BY <3>2 DEF SendBroadcast, Connect, Submit, DispatchFails, InlineEnds, AllSubmitted, Finish
    <3> QED BY <2>2, <3>1, <3>2 DEF Dispatch
  <2>3. ASSUME NEW u \in Tasks, Work(u)
        PROVE  log'[t] = "SENT" /\ delivered'[t] = delivered[t]
    <3>1. u # t
      BY <2>1, <2>3 DEF Work, Begin, Read, ReadFails, Save, Send, SaveFails, Does
    <3> QED BY <2>1, <2>3, <3>1 DEF Work, Begin, Read, ReadFails, Save, Send, SaveFails
  <2>4. CASE Crash
    BY <2>4 DEF Crash
  <2> QED BY <2>2, <2>3, <2>4 DEF Next
<1>2. Spec => [][Next]_vars
  BY PTL DEF Spec
<1> QED BY <1>1, <1>2, Invariance, PTL DEF SentIsFinal
=============================================================================
