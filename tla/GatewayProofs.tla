--------------------------- MODULE GatewayProofs ----------------------------
(***************************************************************************)
(* Proofs about module Gateway, for any numbers, messages and kinds, any   *)
(* finite set of workers and any limits: its types, that a message is in   *)
(* one pair of hands, that blocks are earned, and how many groups a day    *)
(* can be created by message.                                              *)
(***************************************************************************)
EXTENDS Gateway, FiniteSetTheorems, TLAPS

\* A worker at work has a message, an idle one has none.
HasMessage == \A w \in Workers : IF At(w, "idle") THEN job[w].msg = None ELSE job[w].msg \in Messages

\* A row that is not stored, or not read, counts nothing.
Blank(row) == row.stored \/ row.count = 0

\* The table counts no more attempts than were made since the last unblocking.
RowEarned(phone) ==
    /\ block[phone].count <= attempts[phone]
    /\ block[phone].blocked => attempts[phone] = BlockAt
    /\ Blank(block[phone])

\* Nor does a worker that has read the table after it.
WorkerEarned(w) ==
    ~At(w, "idle") => /\ job[w].late \/ job[w].seen.count <= attempts[Phone(w)]
                      /\ Blank(job[w].seen)

CountsEarned ==
    /\ \A phone \in Phones : RowEarned(phone)
    /\ \A w \in Workers : WorkerEarned(w)

\* Workers that have counted and not inserted.
Inserting(phone) == {w \in Workers : At(w, "insert") /\ Phone(w) = phone /\ Kind(w) = "group"}

InsertBound ==
    \A phone \in Phones :
        made[phone]["group"] + Cardinality(Inserting(phone)) <= Limit + Cardinality(Workers) - 1

GInv == TypeOK /\ HasMessage /\ OneWorkerEach /\ CountsEarned /\ InsertBound

-----------------------------------------------------------------------------
(* Types *)

LEMMA ConstantTypes ==
    /\ NoRow \in BlockRow
    /\ NoMessage \in Message
    /\ Idle \in Job
    /\ \A n \in 0..BlockAt : Up(n) \in 0..BlockAt
    /\ \A row \in BlockRow : Unblocked(row) \in BlockRow
    /\ \A row, seen \in BlockRow : Counted(row, seen) \in BlockRow
<1> USE ConstantsAssumption
<1>1. NoRow \in BlockRow /\ NoMessage \in Message
  BY DEF NoRow, BlockRow, NoMessage, Message
<1>2. Idle \in Job
  BY <1>1 DEF Idle, Job
<1>3. \A n \in 0..BlockAt : Up(n) \in 0..BlockAt
  BY DEF Up
<1> 0 \in 0..BlockAt /\ 1 \in 0..BlockAt
  OBVIOUS
<1>4. ASSUME NEW row \in BlockRow
      PROVE  Unblocked(row) \in BlockRow
  BY DEF Unblocked, BlockRow
<1>5. ASSUME NEW row \in BlockRow, NEW seen \in BlockRow
      PROVE  Counted(row, seen) \in BlockRow
  <2>1. CASE seen.stored
    <3>1. Up(seen.count) \in 0..BlockAt
      BY <1>3 DEF BlockRow
    <3> QED BY <2>1, <3>1 DEF Counted, BlockRow
  <2>2. CASE ~seen.stored
    <3>1. [NoRow EXCEPT !.stored = TRUE, !.count = 1] \in BlockRow
      BY DEF NoRow, BlockRow
    <3> QED BY <2>2, <3>1 DEF Counted
  <2> QED BY <2>1, <2>2
<1> QED BY <1>1, <1>2, <1>3, <1>4, <1>5

\* The message of a worker at work is one that was received.
LEMMA WorkerTypes ==
    ASSUME TypeOK, HasMessage, OneWorkerEach, NEW w \in Workers, ~At(w, "idle")
    PROVE  /\ job[w].msg \in Messages /\ message[job[w].msg].st = "taken"
           /\ Phone(w) \in Phones /\ Kind(w) \in AllKinds
           /\ job[w].seen \in BlockRow
BY DEF TypeOK, HasMessage, OneWorkerEach, Message, Phone, Kind, Job

\* Workers that are overtaken go on with what they have.
LEMMA OvertakenTypes ==
    ASSUME TypeOK, NEW phone
    PROVE  /\ Overtaken(phone) \in [Workers -> Job]
           /\ \A v \in Workers : /\ Overtaken(phone)[v].pc = job[v].pc
                                 /\ Overtaken(phone)[v].msg = job[v].msg
                                 /\ Overtaken(phone)[v].seen = job[v].seen
                                 /\ Overtaken(phone)[v].late =
                                      (job[v].late \/ (~At(v, "idle") /\ Phone(v) = phone /\ job[v].seen.stored))
<1> SUFFICES ASSUME NEW v \in Workers
             PROVE  /\ Overtaken(phone)[v] \in Job
                    /\ Overtaken(phone)[v].pc = job[v].pc
                    /\ Overtaken(phone)[v].msg = job[v].msg
                    /\ Overtaken(phone)[v].seen = job[v].seen
                    /\ Overtaken(phone)[v].late =
                         (job[v].late \/ (~At(v, "idle") /\ Phone(v) = phone /\ job[v].seen.stored))
  BY DEF Overtaken
<1>1. job[v] \in Job
  BY DEF TypeOK
<1> DEFINE over == job[v].late \/ (~At(v, "idle") /\ Phone(v) = phone /\ job[v].seen.stored)
<1>2. over \in BOOLEAN
  BY <1>1 DEF Job
<1>3. Overtaken(phone)[v] = [job[v] EXCEPT !.late = over]
  BY DEF Overtaken
<1> HIDE DEF over
<1>4. \A b \in BOOLEAN : LET row == [job[v] EXCEPT !.late = b] IN
         row \in Job /\ row.pc = job[v].pc /\ row.msg = job[v].msg /\ row.seen = job[v].seen /\ row.late = b
  BY <1>1 DEF Job
<1>5. LET row == Overtaken(phone)[v] IN
         row \in Job /\ row.pc = job[v].pc /\ row.msg = job[v].msg /\ row.seen = job[v].seen /\ row.late = over
  BY <1>2, <1>3, <1>4
<1> QED BY <1>5 DEF over

LEMMA TypeInit == Init => TypeOK
BY ConstantTypes, ConstantsAssumption DEF Init, TypeOK, Accounts, Things

\* What a worker does keeps the types.
LEMMA HandleTypes ==
    ASSUME TypeOK, HasMessage, OneWorkerEach, NEW w \in Workers, Handle(w)
    PROVE  TypeOK'
<1> USE ConstantTypes, ConstantsAssumption DEF TypeOK
<1>1. ~At(w, "idle")
  BY DEF Handle, Maintenance, ReadBlock, Unblock, ReadUser, ResolveOwner, EmptyBatch, ReadAttempts, CountAttempt,
         CheckLimit, Insert, Reply, At
<1>2. job[w].msg \in Messages /\ Phone(w) \in Phones /\ Kind(w) \in AllKinds /\ job[w].seen \in BlockRow
  BY <1>1, WorkerTypes
<1>3. Finish(w) => job' \in [Workers -> Job] /\ message' \in [Messages -> Message]
  BY <1>2 DEF Finish
<1>4. ASSUME NEW pc \in {"block", "unblock", "user", "owner", "attempt", "count", "limit", "insert", "reply"},
             NEW row \in BlockRow, Goto(w, pc) \/ Read(w, pc, row) \/ Forget(w, pc)
      PROVE  job' \in [Workers -> Job]
  <2>1. [job[w] EXCEPT !.pc = pc] \in Job /\ [job[w] EXCEPT !.pc = pc, !.seen = row, !.late = FALSE] \in Job
        /\ [job[w] EXCEPT !.pc = pc, !.seen = NoRow, !.late = FALSE] \in Job
    BY DEF Job
  <2> QED BY <1>4, <2>1 DEF Goto, Read, Forget
<1>5. CASE Maintenance(w)
  BY <1>3, <1>5 DEF Maintenance
<1>6. CASE ReadBlock(w)
  BY <1>2, <1>3, <1>4, <1>6 DEF ReadBlock
<1>7. CASE Unblock(w)
  <2>1. Overtaken(Phone(w)) \in [Workers -> Job]
    BY OvertakenTypes
  <2>2. [job[w] EXCEPT !.pc = "user", !.seen = NoRow, !.late = FALSE] \in Job
    BY DEF Job
  <2> QED BY <1>2, <1>7, <2>1, <2>2 DEF Unblock
<1>8. CASE ReadUser(w)
  BY <1>4, <1>8 DEF ReadUser
<1>9. CASE ResolveOwner(w)
  <2>1. refused' \in [Workers -> SUBSET Phones]
    BY <1>2, <1>9 DEF ResolveOwner
  <2> QED BY <1>4, <1>9, <2>1 DEF ResolveOwner
<1>15. CASE EmptyBatch(w)
  BY <1>4, <1>15 DEF EmptyBatch
<1>10. CASE ReadAttempts(w)
  BY <1>2, <1>3, <1>4, <1>10 DEF ReadAttempts
<1>11. CASE CountAttempt(w)
  <2>1. attempts' \in [Phones -> 0..BlockAt]
    BY <1>2, <1>11 DEF CountAttempt
  <2> QED BY <1>2, <1>3, <1>11, <2>1 DEF CountAttempt
<1>12. CASE CheckLimit(w)
  BY <1>4, <1>12 DEF CheckLimit
<1>13. CASE Insert(w)
  <2>1. Thing(Kind(w)) \in Things
    BY DEF Thing, Things
  <2>2. made' \in [Phones -> [Things -> Nat]]
    BY <1>2, <1>13, <2>1 DEF Insert
  <2> QED BY <1>4, <1>13, <2>2 DEF Insert
<1>14. CASE Reply(w)
  BY <1>3, <1>14 DEF Reply
<1> QED BY <1>5, <1>6, <1>7, <1>8, <1>9, <1>10, <1>11, <1>12, <1>13, <1>14, <1>15 DEF Handle

\* So does everything else.
LEMMA TypeStep == TypeOK /\ HasMessage /\ OneWorkerEach /\ [Next]_vars => TypeOK'
<1> SUFFICES ASSUME TypeOK, HasMessage, OneWorkerEach, [Next]_vars
             PROVE  TypeOK'
  OBVIOUS
<1> USE ConstantTypes, ConstantsAssumption DEF TypeOK
<1>1. ASSUME NEW m \in Messages, NEW phone \in Phones, NEW kind \in AllKinds, Receive(m, phone, kind)
      PROVE  TypeOK'
  <2>1. [st |-> "queued", phone |-> phone, kind |-> kind] \in Message
    BY DEF Message
  <2> QED BY <1>1, <2>1 DEF Receive
<1>2. ASSUME NEW m \in Messages, NEW w \in Workers
      PROVE  [Idle EXCEPT !.pc = "block", !.msg = m] \in Job
  BY DEF Idle, Job
<1>3. ASSUME NEW m \in Messages, NEW phone \in Phones, NEW kind \in AllKinds, NEW w \in Workers,
             ReceiveInThread(w, m, phone, kind)
      PROVE  TypeOK'
  <2>1. [st |-> "taken", phone |-> phone, kind |-> kind] \in Message
    BY DEF Message
  <2> QED BY <1>2, <1>3, <2>1 DEF ReceiveInThread
<1>4. ASSUME NEW w \in Workers, NEW m \in Messages, Take(w, m)
      PROVE  TypeOK'
  <2>1. [message[m] EXCEPT !.st = "taken"] \in Message
    BY <1>4 DEF Take, Message
  <2> QED BY <1>2, <1>4, <2>1 DEF Take
<1>5. ASSUME NEW w \in Workers, Handle(w)
      PROVE  TypeOK'
  BY <1>5, HandleTypes
<1>6. ASSUME NEW w \in Workers, NEW again \in BOOLEAN, Crash(w, again)
      PROVE  TypeOK'
  <2>1. [message[job[w].msg] EXCEPT !.st = "queued"] \in Message
    BY <1>6, WorkerTypes DEF Crash, Message
  <2> QED BY <1>6, <2>1 DEF Crash
<1>7. ASSUME NEW w \in Workers, NEW phone \in Phones, RefusalLapses(w, phone)
      PROVE  TypeOK'
  BY <1>7 DEF RefusalLapses
<1>8. ASSUME NEW phone \in Phones,
             Register(phone) \/ ApproveWaitlisted(phone) \/ AddToWhitelist(phone) \/ RemoveFromWhitelist(phone)
      PROVE  TypeOK'
  BY <1>8 DEF Register, ApproveWaitlisted, AddToWhitelist, RemoveFromWhitelist, SetAccount, Accounts
<1>9. ASSUME NEW phone \in Phones, UnblockByAdmin(phone) \/ DayPasses(phone)
      PROVE  TypeOK'
  <2>1. [block[phone] EXCEPT !.old = block[phone].old \/ block[phone].blocked] \in BlockRow
    BY DEF BlockRow
  <2>2. CASE UnblockByAdmin(phone)
    BY <2>2, OvertakenTypes DEF UnblockByAdmin
  <2>3. CASE DayPasses(phone)
    <3>1. block' = [block EXCEPT ![phone] = [block[phone] EXCEPT !.old = block[phone].old \/ block[phone].blocked]]
      BY <2>3 DEF DayPasses
    <3> QED BY <2>1, <2>3, <3>1 DEF DayPasses
  <2> QED BY <1>9, <2>2, <2>3
<1>10. ASSUME NEW phone \in Phones, NEW thing \in Things, CreationAges(phone, thing)
       PROVE  TypeOK'
  BY <1>10 DEF CreationAges
<1>11. CASE UNCHANGED vars
  BY <1>11 DEF vars
<1> QED BY <1>1, <1>3, <1>4, <1>5, <1>6, <1>7, <1>8, <1>9, <1>10, <1>11 DEF Next

-----------------------------------------------------------------------------
(* Frames *)

\* The work of a worker, whether it was overtaken or not.
Same(v) == job'[v].pc = job[v].pc /\ job'[v].msg = job[v].msg /\ job'[v].seen = job[v].seen

\* Nobody but worker w, nor anybody else's message, changes.
Alone(w) ==
    \A v \in Workers \ {w} :
        Same(v) /\ (~At(v, "idle") => message'[job[v].msg] = message[job[v].msg])

\* No other worker is overtaken.
NobodyLate(w) == \A v \in Workers \ {w} : job'[v].late = job[v].late

\* Worker w ends, or goes on with the message it has.
Ends(w) == job'[w] = Idle

GoesOn(w) == job'[w].pc # "idle" /\ job'[w].msg = job[w].msg /\ UNCHANGED message

LEMMA HandleShape ==
    ASSUME TypeOK, HasMessage, OneWorkerEach, NEW w \in Workers, Handle(w)
    PROVE  ~At(w, "idle") /\ Alone(w) /\ (Ends(w) \/ GoesOn(w)) /\ (Unblock(w) \/ NobodyLate(w))
<1> USE DEF Same, NobodyLate
<1>1. ~At(w, "idle")
  BY DEF Handle, Maintenance, ReadBlock, Unblock, ReadUser, ResolveOwner, EmptyBatch, ReadAttempts, CountAttempt,
         CheckLimit, Insert, Reply, At
<1>2. Finish(w) => Alone(w) /\ Ends(w) /\ NobodyLate(w)
  BY <1>1 DEF Finish, Alone, Ends, TypeOK, OneWorkerEach
<1>3. ASSUME NEW pc \in {"block", "unblock", "user", "owner", "attempt", "count", "limit", "insert", "reply"},
             NEW row, Goto(w, pc) \/ Read(w, pc, row) \/ Forget(w, pc), UNCHANGED message
      PROVE  Alone(w) /\ GoesOn(w) /\ NobodyLate(w)
  BY <1>3 DEF Goto, Read, Forget, Alone, GoesOn, TypeOK, Job
<1>4. ASSUME Maintenance(w) \/ ReadBlock(w)
      PROVE  Alone(w) /\ (Ends(w) \/ GoesOn(w)) /\ NobodyLate(w)
  BY <1>2, <1>3, <1>4 DEF Maintenance, ReadBlock
<1>5. ASSUME Unblock(w)
      PROVE  Alone(w) /\ GoesOn(w)
  <2>1. \A v \in Workers \ {w} : job'[v] = Overtaken(Phone(w))[v]
    BY <1>5, OvertakenTypes DEF Unblock
  <2>2. job'[w] = [job[w] EXCEPT !.pc = "user", !.seen = NoRow, !.late = FALSE] /\ UNCHANGED message
    BY <1>5, OvertakenTypes DEF Unblock
  <2>3. job'[w].pc # "idle" /\ job'[w].msg = job[w].msg
    BY <2>2 DEF TypeOK, Job
  <2> QED BY <2>1, <2>2, <2>3, OvertakenTypes DEF Alone, GoesOn
<1>6. ASSUME ReadUser(w)
      PROVE  Alone(w) /\ (Ends(w) \/ GoesOn(w)) /\ NobodyLate(w)
  BY <1>2, <1>3, <1>6 DEF ReadUser
<1>7. ASSUME ResolveOwner(w) \/ EmptyBatch(w)
      PROVE  Alone(w) /\ (Ends(w) \/ GoesOn(w)) /\ NobodyLate(w)
  BY <1>2, <1>3, <1>7 DEF ResolveOwner, EmptyBatch
<1>8. ASSUME ReadAttempts(w)
      PROVE  Alone(w) /\ (Ends(w) \/ GoesOn(w)) /\ NobodyLate(w)
  BY <1>2, <1>3, <1>8 DEF ReadAttempts
<1>9. ASSUME CountAttempt(w) \/ Reply(w)
      PROVE  Alone(w) /\ (Ends(w) \/ GoesOn(w)) /\ NobodyLate(w)
  BY <1>2, <1>9 DEF CountAttempt, Reply
<1>10. ASSUME CheckLimit(w) \/ Insert(w)
       PROVE  Alone(w) /\ (Ends(w) \/ GoesOn(w)) /\ NobodyLate(w)
  BY <1>3, <1>10 DEF CheckLimit, Insert
<1> QED BY <1>1, <1>4, <1>5, <1>6, <1>7, <1>8, <1>9, <1>10 DEF Handle

\* One worker ends, goes on, or takes a message that is nobody's.
LEMMA HandsStep ==
    ASSUME HasMessage, OneWorkerEach, NEW w \in Workers, Alone(w),
           \/ Ends(w)
           \/ /\ job'[w].pc # "idle"
              /\ job'[w].msg \in Messages
              /\ message'[job'[w].msg].st = "taken"
              /\ \A v \in Workers \ {w} : ~At(v, "idle") => job[v].msg # job'[w].msg
    PROVE  HasMessage' /\ OneWorkerEach'
<1> USE DEF Same
<1>1. ASSUME NEW v \in Workers \ {w}
      PROVE  /\ Same(v)
             /\ IF At(v, "idle") THEN job[v].msg = None
                                 ELSE job[v].msg \in Messages /\ message'[job[v].msg].st = "taken"
  BY DEF HasMessage, OneWorkerEach, Alone
<1>2. None \notin Messages
  BY ConstantsAssumption
<1>3. Ends(w) => job'[w].pc = "idle" /\ job'[w].msg = None
  BY DEF Ends, Idle
<1>4. HasMessage'
  BY <1>1, <1>3 DEF HasMessage, At
<1>5. \A v \in Workers : job'[v].pc # "idle" => message'[job'[v].msg].st = "taken"
  BY <1>1, <1>3 DEF At
<1>6. ASSUME NEW u \in Workers, NEW v \in Workers, u # v, job'[u].pc # "idle"
      PROVE  job'[u].msg # job'[v].msg
  <2>1. CASE u = w
    BY <1>1, <1>2, <1>3, <1>6, <2>1 DEF At
  <2>2. CASE v = w
    BY <1>1, <1>2, <1>3, <1>6, <2>2 DEF At
  <2>3. CASE u # w /\ v # w
    BY <1>1, <1>6, <2>3 DEF OneWorkerEach, At
  <2> QED BY <2>1, <2>2, <2>3
<1>7. OneWorkerEach'
  BY <1>5, <1>6 DEF OneWorkerEach, At
<1> QED BY <1>4, <1>7

\* Attempts are not forgotten, and what one worker has read, or writes, is earned.
LEMMA EarnedStep ==
    ASSUME TypeOK, TypeOK', HasMessage, OneWorkerEach, CountsEarned, NEW w \in Workers, Alone(w), NobodyLate(w),
           \A phone \in Phones : attempts'[phone] >= attempts[phone],
           \A phone \in Phones : RowEarned(phone)',
           WorkerEarned(w)'
    PROVE  CountsEarned'
<1>1. ASSUME NEW v \in Workers \ {w}, job'[v].pc # "idle"
      PROVE  /\ job'[v].late \/ job'[v].seen.count <= attempts'[message'[job'[v].msg].phone]
             /\ Blank(job'[v].seen)
  <2>1. /\ job'[v].late = job[v].late /\ job'[v].seen = job[v].seen /\ job'[v].msg = job[v].msg
        /\ message'[job[v].msg] = message[job[v].msg] /\ ~At(v, "idle")
    BY <1>1 DEF Alone, NobodyLate, Same, At
  <2>2. /\ job[v].late \/ job[v].seen.count <= attempts[Phone(v)]
        /\ Blank(job[v].seen) /\ Phone(v) \in Phones /\ job[v].seen \in BlockRow
    BY <2>1, WorkerTypes DEF CountsEarned, WorkerEarned
  <2>3. attempts'[Phone(v)] >= attempts[Phone(v)] /\ attempts[Phone(v)] \in 0..BlockAt
        /\ attempts'[Phone(v)] \in 0..BlockAt /\ job[v].seen.count \in 0..BlockAt
    BY <2>2 DEF TypeOK, BlockRow
  <2> QED BY <2>1, <2>2, <2>3, ConstantsAssumption DEF Phone
<1>2. \A v \in Workers \ {w} : WorkerEarned(v)'
  BY <1>1 DEF WorkerEarned, At, Phone
<1> QED BY <1>2 DEF CountsEarned

\* An unblocking forgets the attempts, and every worker that goes on counting from them is late.
LEMMA OvertakenEarns ==
    ASSUME TypeOK, HasMessage, OneWorkerEach, CountsEarned, NEW p \in Phones, NEW v \in Workers,
           job'[v] = Overtaken(p)[v], UNCHANGED message, attempts' = [attempts EXCEPT ![p] = 0]
    PROVE  WorkerEarned(v)'
<1>1. /\ job'[v].pc = job[v].pc /\ job'[v].msg = job[v].msg /\ job'[v].seen = job[v].seen
      /\ job'[v].late = (job[v].late \/ (~At(v, "idle") /\ Phone(v) = p /\ job[v].seen.stored))
  BY OvertakenTypes
<1> SUFFICES ASSUME ~At(v, "idle")
             PROVE  /\ job'[v].late \/ job'[v].seen.count <= attempts'[Phone(v)]
                    /\ Blank(job'[v].seen)
  BY <1>1 DEF WorkerEarned, At, Phone
<1>2. Phone(v) \in Phones /\ Blank(job[v].seen) /\ (job[v].late \/ job[v].seen.count <= attempts[Phone(v)])
  BY WorkerTypes DEF CountsEarned, WorkerEarned
<1>3. CASE Phone(v) = p /\ ~job[v].seen.stored
  <2>1. job[v].seen.count = 0 /\ attempts'[p] = 0
    BY <1>2, <1>3 DEF Blank, TypeOK
  <2> QED BY <1>1, <1>2, <1>3, <2>1
<1>4. CASE Phone(v) = p /\ job[v].seen.stored
  BY <1>1, <1>2, <1>4
<1>5. CASE Phone(v) # p
  <2>1. attempts'[Phone(v)] = attempts[Phone(v)]
    BY <1>2, <1>5 DEF TypeOK
  <2> QED BY <1>1, <1>2, <2>1
<1> QED BY <1>3, <1>4, <1>5

LEMMA RowsUnblocked ==
    ASSUME TypeOK, CountsEarned, NEW p \in Phones, block' = [block EXCEPT ![p] = Unblocked(block[p])],
           attempts' = [attempts EXCEPT ![p] = 0]
    PROVE  \A phone \in Phones : RowEarned(phone)'
<1>1. Unblocked(block[p]).count = 0 /\ ~Unblocked(block[p]).blocked
  BY DEF Unblocked, TypeOK, BlockRow
<1>2. block'[p] = Unblocked(block[p]) /\ attempts'[p] = 0
  BY DEF TypeOK
<1>3. RowEarned(p)'
  BY <1>1, <1>2 DEF RowEarned, Blank
<1>4. \A q \in Phones \ {p} : block'[q] = block[q] /\ attempts'[q] = attempts[q]
  BY DEF TypeOK
<1>5. \A q \in Phones \ {p} : RowEarned(q)'
  BY <1>4 DEF CountsEarned, RowEarned
<1> QED BY <1>3, <1>5

-----------------------------------------------------------------------------
(* The bound on groups *)

LEMMA InsertersFinite ==
    \A phone \in Phones :
        /\ IsFiniteSet(Inserting(phone))
        /\ Cardinality(Inserting(phone)) \in Nat
        /\ Cardinality(Inserting(phone)) <= Cardinality(Workers)
        /\ Cardinality(Workers) \in Nat \ {0}
<1>1. IsFiniteSet(Workers) /\ Cardinality(Workers) \in Nat \ {0}
  BY ConstantsAssumption, FS_CardinalityType, FS_EmptySet
<1> SUFFICES ASSUME NEW phone \in Phones
             PROVE  /\ IsFiniteSet(Inserting(phone))
                    /\ Cardinality(Inserting(phone)) \in Nat
                    /\ Cardinality(Inserting(phone)) <= Cardinality(Workers)
  BY <1>1
<1>2. Inserting(phone) \subseteq Workers
  BY DEF Inserting
<1> QED BY <1>1, <1>2, FS_Subset, FS_CardinalityType

\* For one number: nothing is added and nobody passes the count.
LEMMA BoundKeptFor ==
    ASSUME TypeOK, TypeOK', InsertBound, NEW phone \in Phones,
           made'[phone]["group"] <= made[phone]["group"],
           Inserting(phone)' \subseteq Inserting(phone)
    PROVE  made'[phone]["group"] + Cardinality(Inserting(phone)') <= Limit + Cardinality(Workers) - 1
<1>1. Cardinality(Inserting(phone)') \in Nat /\ Cardinality(Inserting(phone)') <= Cardinality(Inserting(phone))
  BY InsertersFinite, FS_Subset, FS_CardinalityType
<1>2. made[phone]["group"] \in Nat /\ made'[phone]["group"] \in Nat
  BY DEF TypeOK, Things
<1>3. Limit \in Nat
  BY ConstantsAssumption
<1> QED BY <1>1, <1>2, <1>3, InsertersFinite DEF InsertBound

LEMMA BoundKept ==
    ASSUME TypeOK, TypeOK', InsertBound,
           \A phone \in Phones : /\ made'[phone]["group"] <= made[phone]["group"]
                                 /\ Inserting(phone)' \subseteq Inserting(phone)
    PROVE  InsertBound'
BY BoundKeptFor DEF InsertBound

\* The others insert for the number that they inserted for.
LEMMA OthersInsert ==
    ASSUME NEW w \in Workers, Alone(w), NEW phone \in Phones
    PROVE  /\ Inserting(phone)' \subseteq Inserting(phone) \cup {w}
           /\ \A v \in Workers \ {w} : v \in Inserting(phone) => v \in Inserting(phone)'
BY DEF Alone, Same, Inserting, At, Phone, Kind

\* A worker passes the count while there was a place left.
LEMMA BoundCounted ==
    ASSUME TypeOK, TypeOK', InsertBound, NEW w \in Workers, Alone(w), GoesOn(w), ~At(w, "idle"),
           Phone(w) \in Phones, UNCHANGED made,
           Kind(w) = "group" => BelowLimit(made[Phone(w)]["group"])
    PROVE  InsertBound'
<1> SUFFICES ASSUME NEW phone \in Phones
             PROVE  made'[phone]["group"] + Cardinality(Inserting(phone)') <= Limit + Cardinality(Workers) - 1
  BY DEF InsertBound
<1>1. made[phone]["group"] \in Nat /\ Limit \in Nat
  BY ConstantsAssumption DEF TypeOK, Things
<1>2. CASE Kind(w) = "group" /\ Phone(w) = phone
  <2>1. made[phone]["group"] < Limit
    BY <1>2 DEF BelowLimit
  <2>2. Inserting(phone)' \subseteq Workers
    BY DEF Inserting
  <2>3. Cardinality(Inserting(phone)') \in Nat /\ Cardinality(Inserting(phone)') <= Cardinality(Workers)
    BY <2>2, ConstantsAssumption, FS_Subset, FS_CardinalityType
  <2> QED BY <1>1, <2>1, <2>3, InsertersFinite
<1>3. CASE ~(Kind(w) = "group" /\ Phone(w) = phone)
  <2>1. w \notin Inserting(phone)'
    BY <1>3 DEF Inserting, GoesOn, Phone, Kind
  <2>2. Inserting(phone)' \subseteq Inserting(phone)
    BY <2>1, OthersInsert
  <2> QED BY <1>1, <2>2, BoundKeptFor
<1> QED BY <1>2, <1>3

\* A worker inserts, and goes on to answer.
LEMMA BoundInserted ==
    ASSUME TypeOK, TypeOK', InsertBound, NEW w \in Workers, Alone(w), Insert(w), ~At(w, "idle"),
           Phone(w) \in Phones
    PROVE  InsertBound'
<1> SUFFICES ASSUME NEW phone \in Phones
             PROVE  made'[phone]["group"] + Cardinality(Inserting(phone)') <= Limit + Cardinality(Workers) - 1
  BY DEF InsertBound
<1>1. made[phone]["group"] \in Nat /\ made'[phone]["group"] \in Nat /\ Limit \in Nat
  BY ConstantsAssumption DEF TypeOK, Things
<1>2. job'[w].pc = "reply"
  BY DEF Insert, Goto, TypeOK, Job
<1>3. Inserting(phone)' \subseteq Inserting(phone) \ {w}
  BY <1>2, OthersInsert DEF Inserting, At
<1>4. CASE Kind(w) = "group" /\ Phone(w) = phone
  <2>1. w \in Inserting(phone) /\ made'[phone]["group"] = made[phone]["group"] + 1
    BY <1>4 DEF Insert, Inserting, Thing, TypeOK, Things
  <2>2. Cardinality(Inserting(phone) \ {w}) = Cardinality(Inserting(phone)) - 1 /\ IsFiniteSet(Inserting(phone) \ {w})
    BY <2>1, InsertersFinite, FS_RemoveElement
  <2>3. Cardinality(Inserting(phone)') <= Cardinality(Inserting(phone)) - 1 /\ Cardinality(Inserting(phone)') \in Nat
    BY <1>3, <2>2, FS_Subset, FS_CardinalityType
  <2> QED BY <1>1, <2>1, <2>3, InsertersFinite DEF InsertBound
<1>5. CASE ~(Kind(w) = "group" /\ Phone(w) = phone)
  <2>1. made'[phone]["group"] = made[phone]["group"]
    BY <1>5 DEF Insert, Thing, TypeOK, Things
  <2> QED BY <1>1, <1>3, <2>1, BoundKeptFor
<1> QED BY <1>4, <1>5

-----------------------------------------------------------------------------
(* The invariant *)

LEMMA InvInit == Init => GInv
<1> SUFFICES ASSUME Init
             PROVE  GInv
  OBVIOUS
<1>1. TypeOK
  BY TypeInit
<1>2. HasMessage /\ OneWorkerEach /\ CountsEarned
  BY ConstantsAssumption DEF Init, Idle, NoRow, At, HasMessage, OneWorkerEach, CountsEarned, RowEarned, WorkerEarned, Blank
<1>3. \A phone \in Phones : Inserting(phone) = {}
  BY DEF Init, Idle, At, Inserting
<1>4. \A phone \in Phones : made[phone]["group"] = 0
  BY DEF Init, Things
<1>5. InsertBound
  BY <1>3, <1>4, InsertersFinite, FS_EmptySet, ConstantsAssumption DEF InsertBound
<1> QED BY <1>1, <1>2, <1>5 DEF GInv

\* A worker that ends, or goes on without writing attempts or blocks, with what it had read,
\* with nothing, or with the row as it is.
LEMMA ReadingEarns ==
    ASSUME TypeOK, TypeOK', HasMessage, OneWorkerEach, CountsEarned, NEW w \in Workers, Alone(w), NobodyLate(w),
           ~At(w, "idle"), UNCHANGED <<block, attempts>>,
           \/ Ends(w)
           \/ GoesOn(w) /\ \/ job'[w].seen = job[w].seen /\ job'[w].late = job[w].late
                           \/ job'[w].seen \in {NoRow, block[Phone(w)]}
    PROVE  CountsEarned'
<1>1. Ends(w) => job'[w].pc = "idle"
  BY DEF Ends, Idle
<1>2. /\ \A phone \in Phones : attempts[phone] \in 0..BlockAt
      /\ \A phone \in Phones : RowEarned(phone)
      /\ job[w].late \/ job[w].seen.count <= attempts[Phone(w)]
      /\ Blank(job[w].seen)
      /\ Phone(w) \in Phones
  BY WorkerTypes DEF TypeOK, CountsEarned, WorkerEarned
<1>3. GoesOn(w) => Phone(w)' = Phone(w)
  BY DEF GoesOn, Phone
<1>4. GoesOn(w) => /\ job'[w].late \/ job'[w].seen.count <= attempts'[Phone(w)]
                   /\ Blank(job'[w].seen)
  <2> SUFFICES ASSUME GoesOn(w)
               PROVE  /\ job'[w].late \/ job'[w].seen.count <= attempts[Phone(w)]
                      /\ Blank(job'[w].seen)
    BY <1>3
  <2>1. NoRow.count = 0 /\ attempts[Phone(w)] \in Nat
    BY <1>2, ConstantsAssumption DEF NoRow
  <2>2. job'[w].pc # "idle"
    BY DEF GoesOn
  <2>3. CASE job'[w].seen = job[w].seen /\ job'[w].late = job[w].late
    BY <1>2, <2>3
  <2>4. CASE job'[w].seen = NoRow
    BY <2>1, <2>4 DEF Blank
  <2>5. CASE job'[w].seen = block[Phone(w)]
    BY <1>2, <2>5 DEF RowEarned
  <2> QED BY <1>1, <2>2, <2>3, <2>4, <2>5
<1>5. WorkerEarned(w)'
  BY <1>1, <1>3, <1>4 DEF WorkerEarned, At
<1>6. \A phone \in Phones : attempts'[phone] >= attempts[phone]
  BY <1>2, ConstantsAssumption
<1>7. \A phone \in Phones : RowEarned(phone)'
  BY <1>2 DEF RowEarned
<1> QED BY <1>5, <1>6, <1>7, EarnedStep

\* What a worker reads, it keeps, forgets, or reads as it is; all but CountAttempt and
\* Unblock leave the table alone.
LEMMA HandleReads ==
    ASSUME TypeOK, NEW w \in Workers, Handle(w), ~CountAttempt(w), ~Unblock(w)
    PROVE  /\ UNCHANGED <<block, attempts>>
           /\ GoesOn(w) => \/ job'[w].seen = job[w].seen /\ job'[w].late = job[w].late
                           \/ job'[w].seen \in {NoRow, block[Phone(w)]}
<1>1. Finish(w) => ~GoesOn(w)
  BY DEF Finish, GoesOn, Idle, TypeOK
<1>2. \A pc : Goto(w, pc) => job'[w].seen = job[w].seen /\ job'[w].late = job[w].late
  BY DEF Goto, TypeOK, Job
<1>3. \A pc, row : Read(w, pc, row) => job'[w].seen = row
  BY DEF Read, TypeOK, Job
<1>4. \A pc : Forget(w, pc) => job'[w].seen = NoRow
  BY <1>3 DEF Forget
<1>5. CASE Maintenance(w)
  BY <1>1, <1>5 DEF Maintenance
<1>6. CASE ReadBlock(w)
  BY <1>1, <1>2, <1>3, <1>6 DEF ReadBlock
<1>7. CASE ReadUser(w)
  BY <1>2, <1>4, <1>7 DEF ReadUser
<1>8. CASE ResolveOwner(w)
  BY <1>2, <1>4, <1>8 DEF ResolveOwner
<1>9. CASE ReadAttempts(w)
  BY <1>1, <1>2, <1>3, <1>9 DEF ReadAttempts
<1>10. CASE CheckLimit(w) \/ Insert(w) \/ Reply(w) \/ EmptyBatch(w)
  BY <1>1, <1>2, <1>10 DEF CheckLimit, Insert, Reply, EmptyBatch
<1> QED BY <1>5, <1>6, <1>7, <1>8, <1>9, <1>10 DEF Handle

LEMMA CountedStored ==
    ASSUME NEW row \in BlockRow, NEW seen \in BlockRow, seen.stored
    PROVE  Counted(row, seen).stored
BY DEF Counted, BlockRow

\* A block is written when the attempts that were read, and this one, are enough.
LEMMA CountEarns ==
    ASSUME TypeOK, TypeOK', HasMessage, OneWorkerEach, CountsEarned, NEW w \in Workers, CountAttempt(w),
           Alone(w), NobodyLate(w)
    PROVE  CountsEarned'
<1> DEFINE p == Phone(w)
           seen == job[w].seen
           made_ == IF job[w].late THEN BlockAt ELSE Up(attempts[p])
<1>1. ~At(w, "idle") /\ job'[w].pc = "idle"
  BY DEF CountAttempt, Finish, Idle, At, TypeOK
<1>2. p \in Phones /\ seen \in BlockRow /\ (job[w].late \/ seen.count <= attempts[p])
  BY <1>1, WorkerTypes DEF CountsEarned, WorkerEarned
<1>3. /\ block'[p] = Counted(block[p], seen) /\ attempts'[p] = made_
      /\ \A q \in Phones \ {p} : block'[q] = block[q] /\ attempts'[q] = attempts[q]
  BY <1>2 DEF CountAttempt, TypeOK
<1>4. /\ attempts[p] \in 0..BlockAt /\ seen.count \in 0..BlockAt /\ BlockAt \in Nat \ {0}
      /\ block[p] \in BlockRow /\ block[p].count \in 0..BlockAt
      /\ block[p].count <= attempts[p]
      /\ block[p].blocked => attempts[p] = BlockAt
      /\ Blank(block[p])
  BY <1>2, ConstantsAssumption DEF TypeOK, BlockRow, CountsEarned, RowEarned
<1>5. /\ made_ \in Nat /\ attempts[p] <= made_ /\ 1 <= made_ /\ Up(seen.count) <= made_
      /\ attempts[p] = BlockAt => made_ = BlockAt
      /\ seen.count + 1 >= BlockAt => made_ = BlockAt
  <2>1. CASE job[w].late
    BY <1>4, <2>1 DEF Up
  <2>2. CASE ~job[w].late
    BY <1>2, <1>4, <2>2 DEF Up
  <2> QED BY <2>1, <2>2
<1> HIDE DEF p, seen, made_
<1>6. /\ Counted(block[p], seen).count <= made_
      /\ Counted(block[p], seen).blocked => made_ = BlockAt
      /\ Blank(Counted(block[p], seen))
  <2>1. CASE seen.stored
    <3>1. Counted(block[p], seen).count = Up(seen.count)
      BY <1>4, <2>1 DEF Counted, BlockRow
    <3>2. Counted(block[p], seen).blocked => block[p].blocked \/ seen.count + 1 >= BlockAt
      BY <1>4, <2>1 DEF Counted, BlockRow
    <3>3. Counted(block[p], seen).stored
      BY <1>2, <1>4, <2>1, CountedStored
    <3> QED BY <1>4, <1>5, <3>1, <3>2, <3>3 DEF Blank
  <2>2. CASE ~seen.stored /\ ~block[p].stored
    <3>1. Counted(block[p], seen) = [NoRow EXCEPT !.stored = TRUE, !.count = 1]
      BY <2>2 DEF Counted
    <3>2. LET row == Counted(block[p], seen) IN row.count = 1 /\ row.blocked = FALSE /\ row.stored
      BY <3>1 DEF NoRow
    <3> QED BY <1>5, <3>2 DEF Blank
  <2>3. CASE ~seen.stored /\ block[p].stored
    <3>1. Counted(block[p], seen) = block[p]
      BY <2>3 DEF Counted
    <3> QED BY <1>4, <1>5, <3>1
  <2> QED BY <2>1, <2>2, <2>3
<1>7. ASSUME NEW q \in Phones
      PROVE  attempts'[q] >= attempts[q] /\ RowEarned(q)'
  <2>1. CASE q = p
    BY <1>3, <1>4, <1>5, <1>6, <2>1 DEF RowEarned
  <2>2. CASE q # p
    <3>1. block'[q] = block[q] /\ attempts'[q] = attempts[q] /\ attempts[q] \in 0..BlockAt
      BY <1>3, <2>2 DEF TypeOK
    <3> QED BY <3>1, ConstantsAssumption DEF CountsEarned, RowEarned
  <2> QED BY <2>1, <2>2
<1>8. WorkerEarned(w)'
  BY <1>1 DEF WorkerEarned, At
<1> QED BY <1>7, <1>8, EarnedStep

\* What a worker does keeps the invariant.
LEMMA HandleStep ==
    ASSUME GInv, TypeOK', NEW w \in Workers, Handle(w)
    PROVE  GInv'
<1> USE DEF GInv
<1>1. ~At(w, "idle") /\ Alone(w) /\ (Ends(w) \/ GoesOn(w)) /\ (Unblock(w) \/ NobodyLate(w))
  BY HandleShape
<1>2. Phone(w) \in Phones /\ job[w].msg \in Messages /\ message[job[w].msg].st = "taken"
  BY <1>1, WorkerTypes
<1>3. HasMessage' /\ OneWorkerEach'
  <2>1. \A v \in Workers \ {w} : ~At(v, "idle") => job[v].msg # job[w].msg
    BY DEF OneWorkerEach
  <2> QED BY <1>1, <1>2, <2>1, HandsStep DEF GoesOn
<1>4. CountsEarned'
  <2>1. CASE CountAttempt(w)
    <3>1. ~Unblock(w)
      BY <2>1 DEF CountAttempt, Unblock, At
    <3> QED BY <1>1, <2>1, <3>1, CountEarns
  <2>2. CASE Unblock(w)
    <3>1. \A phone \in Phones : RowEarned(phone)'
      BY <1>2, <2>2, RowsUnblocked DEF Unblock
    <3>2. job' = [Overtaken(Phone(w)) EXCEPT ![w] = [job[w] EXCEPT !.pc = "user", !.seen = NoRow, !.late = FALSE]]
          /\ UNCHANGED message /\ attempts' = [attempts EXCEPT ![Phone(w)] = 0]
      BY <2>2 DEF Unblock
    <3>3. \A v \in Workers \ {w} : job'[v] = Overtaken(Phone(w))[v]
      BY <3>2, OvertakenTypes
    <3>4. \A v \in Workers \ {w} : WorkerEarned(v)'
      BY <1>2, <3>2, <3>3, OvertakenEarns
    <3>5. job'[w].seen = NoRow /\ job'[w].msg = job[w].msg
      BY <3>2, OvertakenTypes DEF TypeOK, Job
    <3>6. Phone(w)' = Phone(w) /\ attempts'[Phone(w)] = 0
      BY <1>2, <3>2, <3>5 DEF Phone, TypeOK
    <3>7. WorkerEarned(w)'
      BY <3>5, <3>6 DEF WorkerEarned, Blank, NoRow
    <3> QED BY <3>1, <3>4, <3>7 DEF CountsEarned
  <2>3. CASE ~CountAttempt(w) /\ ~Unblock(w)
    BY <1>1, <2>3, HandleReads, ReadingEarns
  <2> QED BY <2>1, <2>2, <2>3
<1>5. InsertBound'
  <2>1. CASE Insert(w)
    BY <1>1, <1>2, <2>1, BoundInserted
  <2>2. CASE CheckLimit(w)
    <3>1. GoesOn(w) /\ UNCHANGED made
      BY <1>1, <2>2 DEF CheckLimit, Goto, GoesOn, TypeOK, Job
    <3>2. CASE BelowLimit(made[Phone(w)][Kind(w)])
      BY <1>1, <1>2, <3>1, <3>2, BoundCounted
    <3>3. CASE Goto(w, "reply")
      <4>1. \A phone \in Phones : Inserting(phone)' \subseteq Inserting(phone)
        BY <1>1, <3>3, OthersInsert DEF Inserting, Goto, At, TypeOK, Job
      <4> QED BY <3>1, <4>1, BoundKept DEF TypeOK, Things
    <3> QED BY <2>2, <3>2, <3>3 DEF CheckLimit
  <2>3. CASE ReadUser(w)
    <3>1. UNCHANGED made /\ (job'[w].pc = "insert" => Kind(w) = "pick" /\ GoesOn(w))
      BY <1>1, <2>3 DEF ReadUser, Forget, Read, Goto, TypeOK, Job, Ends, Idle
    <3>2. \A phone \in Phones : w \notin Inserting(phone)'
      BY <3>1 DEF Inserting, At, GoesOn, Kind
    <3>3. \A phone \in Phones : Inserting(phone)' \subseteq Inserting(phone)
      BY <1>1, <3>2, OthersInsert
    <3> QED BY <3>1, <3>3, BoundKept DEF TypeOK, Things
  <2>4. CASE ~Insert(w) /\ ~CheckLimit(w) /\ ~ReadUser(w)
    <3>1. UNCHANGED made /\ job'[w].pc # "insert"
      <4>1. CASE Maintenance(w)
        BY <4>1 DEF Maintenance, Finish, TypeOK, Job, Idle
      <4>2. CASE ReadBlock(w)
        BY <4>2 DEF ReadBlock, Finish, Forget, Read, Goto, TypeOK, Job, Idle
      <4>6. CASE Unblock(w)
        <5>1. job'[w] = [job[w] EXCEPT !.pc = "user", !.seen = NoRow, !.late = FALSE] /\ UNCHANGED made
          BY <4>6, OvertakenTypes DEF Unblock
        <5> QED BY <5>1 DEF TypeOK, Job
      <4>7. CASE EmptyBatch(w)
        BY <4>7 DEF EmptyBatch, Goto, TypeOK, Job
      <4>3. CASE ResolveOwner(w)
        BY <4>3 DEF ResolveOwner, Forget, Read, Goto, TypeOK, Job
      <4>4. CASE ReadAttempts(w)
        BY <4>4 DEF ReadAttempts, Finish, Read, Goto, TypeOK, Job, Idle
      <4>5. CASE CountAttempt(w) \/ Reply(w)
        BY <4>5 DEF CountAttempt, Reply, Finish, TypeOK, Idle
      <4> QED BY <2>4, <4>1, <4>2, <4>3, <4>4, <4>5, <4>6, <4>7 DEF Handle
    <3>2. \A phone \in Phones : Inserting(phone)' \subseteq Inserting(phone)
      BY <1>1, <3>1, OthersInsert DEF Inserting, At
    <3> QED BY <3>1, <3>2, BoundKept DEF TypeOK, Things
  <2> QED BY <2>1, <2>2, <2>3, <2>4
<1> QED BY <1>3, <1>4, <1>5

\* A worker takes a message that no worker has.
LEMMA TakeStep ==
    ASSUME GInv, TypeOK', NEW w \in Workers, NEW m \in Messages, At(w, "idle"),
           message[m].st # "taken", message'[m].st = "taken",
           \A n \in Messages \ {m} : message'[n] = message[n],
           job' = [job EXCEPT ![w] = [Idle EXCEPT !.pc = "block", !.msg = m]],
           UNCHANGED <<block, made, attempts>>
    PROVE  GInv'
<1> USE DEF GInv
<1>1. \A v \in Workers \ {w} : ~At(v, "idle") => job[v].msg \in Messages \ {m}
  BY DEF HasMessage, OneWorkerEach
<1>2. Alone(w)
  BY <1>1 DEF Alone, Same, TypeOK
<1>3. job'[w].pc = "block" /\ job'[w].msg = m /\ job'[w].seen = NoRow
  BY DEF TypeOK, Idle
<1>4. HasMessage' /\ OneWorkerEach'
  BY <1>1, <1>2, <1>3, HandsStep
<1>5. CountsEarned'
  <2>1. \A phone \in Phones : attempts[phone] \in Nat
    BY ConstantsAssumption DEF TypeOK
  <2>2. message'[m].phone \in Phones
    <3>1. message'[m] \in Message
      BY DEF TypeOK
    <3> QED BY <3>1 DEF Message
  <2>3. WorkerEarned(w)'
    BY <1>3, <2>1, <2>2 DEF NoRow, WorkerEarned, Blank, Phone
  <2>4. \A phone \in Phones : attempts'[phone] >= attempts[phone]
    BY <2>1
  <2>5. \A phone \in Phones : RowEarned(phone)'
    BY DEF CountsEarned, RowEarned
  <2>6. NobodyLate(w)
    BY DEF NobodyLate, TypeOK
  <2> QED BY <1>2, <2>3, <2>4, <2>5, <2>6, EarnedStep
<1>6. InsertBound'
  <2>1. \A phone \in Phones : Inserting(phone)' \subseteq Inserting(phone)
    BY <1>2, <1>3, OthersInsert DEF Inserting, At
  <2> QED BY <2>1, BoundKept DEF TypeOK, Things
<1> QED BY <1>4, <1>5, <1>6

\* A worker dies; its message is queued again or lost.
LEMMA CrashStep ==
    ASSUME GInv, TypeOK', NEW w \in Workers, NEW again \in BOOLEAN, Crash(w, again)
    PROVE  GInv'
<1> USE DEF GInv
<1>1. Alone(w) /\ NobodyLate(w) /\ Ends(w) /\ ~At(w, "idle") /\ UNCHANGED <<block, made, attempts>>
  BY DEF Crash, Alone, Same, NobodyLate, Ends, OneWorkerEach, HasMessage, TypeOK
<1>2. HasMessage' /\ OneWorkerEach'
  BY <1>1, HandsStep
<1>3. CountsEarned'
  BY <1>1, ReadingEarns
<1>4. InsertBound'
  <2>1. \A phone \in Phones : Inserting(phone)' \subseteq Inserting(phone)
    BY <1>1, OthersInsert DEF Inserting, At, Ends, Idle
  <2> QED BY <1>1, <2>1, BoundKept DEF TypeOK, Things
<1> QED BY <1>2, <1>3, <1>4

\* No worker does anything, and no message that a worker has changes.
LEMMA WorldStep ==
    ASSUME GInv, TypeOK', \A w \in Workers : Same(w), CountsEarned',
           \A w \in Workers : ~At(w, "idle") => message'[job[w].msg] = message[job[w].msg],
           \A phone \in Phones : made'[phone]["group"] <= made[phone]["group"]
    PROVE  GInv'
<1> USE DEF GInv
<1>1. HasMessage' /\ OneWorkerEach'
  BY DEF HasMessage, OneWorkerEach, At, Same
<1>2. \A phone \in Phones : Inserting(phone)' \subseteq Inserting(phone)
  BY DEF Inserting, At, Phone, Kind, Same
<1>3. InsertBound'
  BY <1>2, BoundKept
<1> QED BY <1>1, <1>3

\* Nor does anybody write an attempt or a block, but for its age.
LEMMA IdleWorldStep ==
    ASSUME GInv, TypeOK', UNCHANGED <<job, attempts>>,
           \A w \in Workers : ~At(w, "idle") => message'[job[w].msg] = message[job[w].msg],
           \A phone \in Phones : /\ block'[phone].stored = block[phone].stored
                                 /\ block'[phone].count = block[phone].count
                                 /\ block'[phone].blocked = block[phone].blocked,
           \A phone \in Phones : made'[phone]["group"] <= made[phone]["group"]
    PROVE  GInv'
<1>1. \A phone \in Phones : RowEarned(phone)'
  BY DEF GInv, CountsEarned, RowEarned, Blank
<1>2. \A w \in Workers : WorkerEarned(w)'
  BY DEF GInv, CountsEarned, WorkerEarned, At, Phone
<1>3. CountsEarned' /\ \A w \in Workers : Same(w)
  BY <1>1, <1>2 DEF CountsEarned, Same
<1> QED BY <1>3, WorldStep

\* Every step keeps the invariant.
LEMMA InvStep == GInv /\ [Next]_vars => GInv'
<1> SUFFICES ASSUME GInv, [Next]_vars
             PROVE  GInv'
  OBVIOUS
<1> USE DEF GInv
<1>1. TypeOK'
  BY TypeStep
<1>2. \A phone \in Phones : made[phone]["group"] <= made[phone]["group"]
  BY DEF TypeOK, Things
<1>3. ASSUME NEW m \in Messages, NEW phone \in Phones, NEW kind \in AllKinds, Receive(m, phone, kind)
      PROVE  GInv'
  <2>1. UNCHANGED <<block, made, job, attempts>>
    BY <1>3 DEF Receive
  <2>2. \A w \in Workers : ~At(w, "idle") => message'[job[w].msg] = message[job[w].msg]
    BY <1>3 DEF Receive, OneWorkerEach, TypeOK
  <2> QED BY <1>1, <1>2, <2>1, <2>2, IdleWorldStep
<1>4. ASSUME NEW m \in Messages, NEW phone \in Phones, NEW kind \in AllKinds, NEW w \in Workers,
             ReceiveInThread(w, m, phone, kind)
      PROVE  GInv'
  <2>1. /\ At(w, "idle") /\ message[m].st # "taken" /\ message'[m].st = "taken"
        /\ \A n \in Messages \ {m} : message'[n] = message[n]
        /\ job' = [job EXCEPT ![w] = [Idle EXCEPT !.pc = "block", !.msg = m]]
        /\ UNCHANGED <<block, made, attempts>>
    BY <1>4 DEF ReceiveInThread, TypeOK
  <2> QED BY <1>1, <2>1, TakeStep
<1>5. ASSUME NEW w \in Workers, NEW m \in Messages, Take(w, m)
      PROVE  GInv'
  <2>1. /\ At(w, "idle") /\ message[m].st # "taken" /\ message'[m].st = "taken"
        /\ \A n \in Messages \ {m} : message'[n] = message[n]
        /\ job' = [job EXCEPT ![w] = [Idle EXCEPT !.pc = "block", !.msg = m]]
        /\ UNCHANGED <<block, made, attempts>>
    <3>1. message'[m] = [message[m] EXCEPT !.st = "taken"] /\ message[m] \in Message
      BY <1>5 DEF Take, TypeOK
    <3>2. message'[m].st = "taken"
      BY <3>1 DEF Message
    <3> QED BY <1>5, <3>2 DEF Take, TypeOK
  <2> QED BY <1>1, <2>1, TakeStep
<1>6. ASSUME NEW w \in Workers, Handle(w)
      PROVE  GInv'
  BY <1>1, <1>6, HandleStep
<1>7. ASSUME NEW w \in Workers, NEW again \in BOOLEAN, Crash(w, again)
      PROVE  GInv'
  BY <1>1, <1>7, CrashStep
<1>8. ASSUME NEW w \in Workers, NEW phone \in Phones, RefusalLapses(w, phone)
      PROVE  GInv'
  BY <1>1, <1>2, <1>8, IdleWorldStep DEF RefusalLapses
<1>9. ASSUME NEW phone \in Phones,
             Register(phone) \/ ApproveWaitlisted(phone) \/ AddToWhitelist(phone) \/ RemoveFromWhitelist(phone)
      PROVE  GInv'
  <2>1. UNCHANGED <<block, made, message, job, attempts>>
    BY <1>9 DEF Register, ApproveWaitlisted, AddToWhitelist, RemoveFromWhitelist, SetAccount
  <2> QED BY <1>1, <1>2, <2>1, IdleWorldStep
<1>10. ASSUME NEW phone \in Phones, UnblockByAdmin(phone)
       PROVE  GInv'
  <2>1. /\ block' = [block EXCEPT ![phone] = Unblocked(block[phone])]
        /\ attempts' = [attempts EXCEPT ![phone] = 0] /\ job' = Overtaken(phone) /\ UNCHANGED <<made, message>>
    BY <1>10 DEF UnblockByAdmin
  <2>2. \A q \in Phones : RowEarned(q)'
    BY <2>1, RowsUnblocked
  <2>3. \A v \in Workers : Same(v) /\ WorkerEarned(v)'
    BY <2>1, OvertakenTypes, OvertakenEarns DEF Same
  <2>4. CountsEarned'
    BY <2>2, <2>3 DEF CountsEarned
  <2> QED BY <1>1, <1>2, <2>1, <2>3, <2>4, WorldStep
<1>13. ASSUME NEW phone \in Phones, DayPasses(phone)
       PROVE  GInv'
  <2>1. \A q \in Phones : /\ block'[q].stored = block[q].stored
                          /\ block'[q].count = block[q].count
                          /\ block'[q].blocked = block[q].blocked
    BY <1>13 DEF DayPasses, TypeOK, BlockRow
  <2> QED BY <1>1, <1>2, <1>13, <2>1, IdleWorldStep DEF DayPasses
<1>11. ASSUME NEW phone \in Phones, NEW thing \in Things, CreationAges(phone, thing)
       PROVE  GInv'
  <2>1. UNCHANGED <<block, message, job, attempts>>
    BY <1>11 DEF CreationAges
  <2>2. \A q \in Phones : made'[q]["group"] <= made[q]["group"]
    BY <1>11 DEF CreationAges, TypeOK, Things
  <2> QED BY <1>1, <1>2, <2>1, <2>2, IdleWorldStep
<1>12. CASE UNCHANGED vars
  BY <1>1, <1>2, <1>12, IdleWorldStep DEF vars
<1> QED BY <1>3, <1>4, <1>5, <1>6, <1>7, <1>8, <1>9, <1>10, <1>11, <1>12, <1>13 DEF Next

-----------------------------------------------------------------------------
(* Theorems *)

LEMMA GatewayInvariant == Spec => []GInv
BY InvInit, InvStep, PTL DEF Spec

\* Tables, messages, workers and caches keep their types.
THEOREM GatewayTyped == Spec => []TypeOK
BY GatewayInvariant, PTL DEF GInv

\* No message is with two workers, however often it is delivered.
THEOREM OneWorkerOnly == Spec => []OneWorkerEach
BY GatewayInvariant, PTL DEF GInv

\* No number is blocked after fewer attempts than block it since its last unblocking, however
\* workers overlap, unless a worker counts on from a row it read before the unblocking.
THEOREM BlocksAreEarned == Spec => []BlockIsEarned
<1>1. GInv => BlockIsEarned
  BY DEF GInv, CountsEarned, RowEarned, BlockIsEarned
<1> QED BY <1>1, GatewayInvariant, PTL

\* Workers that overlap create one group a day above the limit for each of them but one.
THEOREM GroupsAreBounded == Spec => []GroupsBounded
<1>1. GInv => GroupsBounded
  <2> SUFFICES ASSUME GInv, NEW phone \in Phones
               PROVE  made[phone]["group"] <= Limit + Cardinality(Workers) - 1
    BY DEF GroupsBounded
  <2>1. made[phone]["group"] \in Nat /\ Limit \in Nat
    BY ConstantsAssumption DEF GInv, TypeOK, Things
  <2> QED BY <2>1, InsertersFinite DEF GInv, InsertBound
<1> QED BY <1>1, GatewayInvariant, PTL
=============================================================================
