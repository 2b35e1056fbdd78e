------------------------------ MODULE Approval ------------------------------
(***************************************************************************)
(* The treasurer's inbox and the ledger it feeds: the pending_transactions *)
(* and transactions tables of one treasurer, and every request of the      *)
(* backend that writes either of them.  Requests run in separate processes *)
(* (one database session each, PostgreSQL at READ COMMITTED), so a request *)
(* is a sequence of steps that end at a lock, a flush or a commit.         *)
(*                                                                         *)
(* A receipt stands for one real payment: the code its SMS carries, or the *)
(* HASH- code derived from the message when the parser finds none.         *)
(* Names and groups are abstracted, and of an amount only whether it is in *)
(* whole cents: a request that fails its group-ownership or arithmetic     *)
(* check changes nothing, so it is not a step here.                        *)
(***************************************************************************)
EXTENDS Naturals, FiniteSets

CONSTANTS
    Receipts,      \* the payments, each named by the code of its message
    PendingIds,    \* primary keys of pending_transactions; bounds the inbox
    TxnIds,        \* primary keys of transactions; bounds the ledger
    Sessions,      \* processes that may serve a request at the same time
    Parts,         \* number of allocations of a split
    Ops,           \* the operations a run exercises
    Faults,        \* the faults a run injects
    Amounts,       \* the amounts a request may carry: in cents, or finer than the column keeps
    NoCode,        \* a NULL transaction_code
    None           \* no session, no row

AllOps == {"ingest", "manual", "approve", "split", "edit", "reject", "undo",
           "correct", "clear"}

AllFaults == {"learner", "crash"}

AllAmounts == {"cents", "finer"}

ASSUME ConstantsAssumption ==
    /\ NoCode \notin Receipts
    /\ None \notin PendingIds \cup TxnIds \cup Sessions
    /\ Parts \in Nat \ {0}
    /\ Ops \subseteq AllOps
    /\ Faults \subseteq AllFaults
    /\ "cents" \in Amounts
    /\ Amounts \subseteq AllAmounts

VARIABLES
    pending,       \* the inbox: a row per primary key
    txn,           \* the ledger: a row per primary key
    request,       \* what each session is in the middle of
    torn           \* history: entries whose approval died after they were committed

vars == <<pending, txn, request, torn>>

-----------------------------------------------------------------------------
(* Rows and requests *)

Codes == Receipts \cup {NoCode}

PendingStatus == {"none", "pending", "approved", "split_approved", "rejected", "cleared"}

PendingRow == [st : PendingStatus, code : Codes, receipt : Codes]

TxnStatus == {"none", "approved", "superseded", "deleted"}

\* What a ledger_hash commits to, of the columns told apart here: the primary key, the status,
\* the code's revision suffix (base and part never change in a row) and the amount.
Seal == [id : TxnIds \cup {None}, st : TxnStatus, rev : BOOLEAN, amt : AllAmounts]

\* A transaction_code is base, base-(part - 1) for a part of a split, and
\* carries a -REV- suffix when rev.  by is the session whose open database
\* transaction wrote the row, or reserved its key: no other session sees it.
\* receipt is a history field: the payment the entry was made for.
TxnRow == [st : TxnStatus, by : Sessions \cup {None}, base : Codes, part : 0 .. Parts,
           rev : BOOLEAN, seal : Seal, receipt : Codes]

Pc == {"idle", "approve", "flushed", "published", "split", "split_flushed", "edit",
       "undo", "correct", "ingest", "manual"}

Request == [pc : Pc, p : PendingIds \cup {None}, t : TxnIds \cup {None}, code : Codes]

NoSeal == [id |-> None, st |-> "none", rev |-> FALSE, amt |-> "cents"]

NoPending == [st |-> "none", code |-> NoCode, receipt |-> NoCode]

NoTxn == [st |-> "none", by |-> None, base |-> NoCode, part |-> 0, rev |-> FALSE,
          seal |-> NoSeal, receipt |-> NoCode]

Idle == [pc |-> "idle", p |-> None, t |-> None, code |-> NoCode]

\* Sealing and verifying hash the same fields of a row.
HashOf(t, row, amount) == [id |-> t, st |-> row.st, rev |-> row.rev, amt |-> amount]

\* _write_to_ledger hashes the amount as the session holds it.
Sealed(t, row, amount) == [row EXCEPT !.seal = HashOf(t, row, amount)]

\* LedgerService hashes it as the column keeps it: Numeric(12, 2) has rounded it.
Recalculated(t) == HashOf(t, txn[t], "cents")

\* The seals of an approved entry, by the amount it is sealed with.
FirstSeal(t, amount) == [id |-> t, st |-> "approved", rev |-> FALSE, amt |-> amount]

\* An approved entry as it is added to the session, before it is sealed.
NewEntry(s, base, part, receipt) ==
    [st |-> "approved", by |-> s, base |-> base, part |-> part, rev |-> FALSE,
     seal |-> NoSeal, receipt |-> receipt]

-----------------------------------------------------------------------------
(* What a session sees of the two tables *)

InInbox(p) == pending[p].st \notin {"none", "cleared"}

IsProcessed(p) == pending[p].st \in {"approved", "split_approved", "rejected"}

Visible(t) == txn[t].by = None /\ txn[t].st \in {"approved", "superseded"}

\* Committed and counted: what the ledger queries select.
Live(t) == txn[t].by = None /\ txn[t].st = "approved"

HasCode(t, base, part) ==
    txn[t].base = base /\ txn[t].part = part /\ ~txn[t].rev

\* Slip: the unique constraint on owner and code is not there.
Taken_Never(base, part) == FALSE

Taken(base, part) == \E t \in TxnIds : Visible(t) /\ HasCode(t, base, part)

\* Another session has inserted the code and not yet committed: an insert waits.
InDoubt(s, base, part) ==
    \E t \in TxnIds : /\ txn[t].by \notin {s, None}
                      /\ txn[t].st = "approved"
                      /\ HasCode(t, base, part)

InboxHasCode(c) == \E p \in PendingIds : InInbox(p) /\ pending[p].code = c

UnusedTxn(t) == txn[t].st = "none" /\ txn[t].by = None

UnusedPending(p) ==
    pending[p].st = "none" /\ \A s \in Sessions : request[s].p # p

\* Slip: the hooks run on a connection of their own, so the lock outlives them.
HoldsPending_Published == {"approve", "flushed", "published", "split", "split_flushed", "undo"}

\* The steps between SELECT ... FOR UPDATE of a pending row and the commit.
HoldsPending == {"approve", "flushed", "split", "split_flushed", "undo"}

LockedPending(p) ==
    \E s \in Sessions : request[s].p = p /\ request[s].pc \in HoldsPending

LockedTxn(t) == \E s \in Sessions : request[s].t = t /\ request[s].pc = "edit"

At(s, pc) == request[s].pc = pc

Begin(s, pc, p, t, c) ==
    request' = [request EXCEPT ![s] = [pc |-> pc, p |-> p, t |-> t, code |-> c]]

End(s) == request' = [request EXCEPT ![s] = Idle]

-----------------------------------------------------------------------------
(* Commit and rollback of a session's database transaction *)

Committed(s) ==
    [t \in TxnIds |-> IF txn[t].by = s THEN [txn[t] EXCEPT !.by = None] ELSE txn[t]]

RolledBack(s) == [t \in TxnIds |-> IF txn[t].by = s THEN NoTxn ELSE txn[t]]

\* The session ends without committing what it has not committed yet.
Rollback(s) ==
    /\ txn' = RolledBack(s)
    /\ torn' = IF At(s, "published") THEN torn \cup ({request[s].t} \ {None}) ELSE torn
    /\ End(s)
    /\ UNCHANGED pending

MarkPending(p, st) == pending' = [pending EXCEPT ![p].st = st]

-----------------------------------------------------------------------------
(* Ingestion and manual entry: check for the code, then insert *)

\* process_webhook up to the duplicate check, which reads both tables without a lock.
IngestCheck(s, r) ==
    /\ "ingest" \in Ops
    /\ At(s, "idle")
    /\ ~InboxHasCode(r)
    /\ ~Taken(r, 0)
    /\ \E p \in PendingIds : UnusedPending(p) /\ Begin(s, "ingest", p, None, r)
    /\ UNCHANGED <<pending, txn, torn>>

\* insert_pending_transaction: the unique constraint on the inbox decides.
IngestInsert(s) ==
    LET r == request[s].code IN
    /\ At(s, "ingest")
    /\ pending' = IF InboxHasCode(r) THEN pending
                  ELSE [pending EXCEPT ![request[s].p] =
                            [st |-> "pending", code |-> r, receipt |-> r]]
    /\ End(s)
    /\ UNCHANGED <<txn, torn>>

\* The manual handler up to its duplicate check; a generated MANUAL- code cannot
\* collide, so only a code the treasurer types is of interest.
ManualCheck(s, c) ==
    /\ "manual" \in Ops
    /\ At(s, "idle")
    /\ ~InboxHasCode(c)
    /\ ~Taken(c, 0)
    /\ \E t \in TxnIds : /\ UnusedTxn(t)
                         /\ txn' = [txn EXCEPT ![t] = [NoTxn EXCEPT !.by = s]]
                         /\ Begin(s, "manual", None, t, c)
    /\ UNCHANGED <<pending, torn>>

\* Slip: the entry is committed without its seal.
ManualEntry_Unsealed(t, c, amount) == NewEntry(None, c, 0, c)

\* The handler inserts, seals and commits in one database transaction.
ManualEntry(t, c, amount) == Sealed(t, NewEntry(None, c, 0, c), amount)

ManualInsert(s) ==
    LET t == request[s].t
        c == request[s].code
    IN  /\ At(s, "manual")
        /\ ~InDoubt(s, c, 0)
        /\ ~Taken(c, 0)
        /\ \E amount \in Amounts : txn' = [txn EXCEPT ![t] = ManualEntry(t, c, amount)]
        /\ End(s)
        /\ UNCHANGED <<pending, torn>>

ManualRefused(s) ==
    /\ At(s, "manual")
    /\ ~InDoubt(s, request[s].code, 0)
    /\ Taken(request[s].code, 0)
    /\ Rollback(s)

-----------------------------------------------------------------------------
(* Approval *)

\* SELECT ... FOR UPDATE NOWAIT: a locked row refuses the request.  Whether the
\* row is already processed is not looked at.
ApproveLock(s, p) ==
    /\ "approve" \in Ops
    /\ At(s, "idle")
    /\ InInbox(p)
    /\ ~LockedPending(p)
    /\ \E t \in TxnIds : /\ UnusedTxn(t)
                         /\ txn' = [txn EXCEPT ![t] = [NoTxn EXCEPT !.by = s]]
                         /\ Begin(s, "approve", p, t, NoCode)
    /\ UNCHANGED <<pending, torn>>

\* The insert under a savepoint.
ApproveInsert(s) ==
    LET row == pending[request[s].p]
        t   == request[s].t
    IN  /\ At(s, "approve")
        /\ row.code # NoCode
        /\ ~InDoubt(s, row.code, 0)
        /\ ~Taken(row.code, 0)
        /\ txn' = [txn EXCEPT ![t] = NewEntry(s, row.code, 0, row.receipt)]
        /\ request' = [request EXCEPT ![s].pc = "flushed"]
        /\ UNCHANGED <<pending, torn>>

\* The insert violates NOT NULL or the unique constraint.  The branch that looks
\* for the existing entry tests for SQLite's wording of the error; PostgreSQL says
\* "duplicate key value violates unique constraint", so the error is raised again.
ApproveRefused(s) ==
    LET c == pending[request[s].p].code IN
    /\ At(s, "approve")
    /\ \/ c = NoCode
       \/ ~InDoubt(s, c, 0) /\ Taken(c, 0)
    /\ Rollback(s)

\* The training hooks commit the session: the entry is visible, not yet sealed, and
\* the lock on the inbox row is gone, while the row is still unprocessed.
TrainingCommit(s) ==
    /\ At(s, "flushed")
    /\ txn' = Committed(s)
    /\ request' = [request EXCEPT ![s].pc = "published"]
    /\ UNCHANGED <<pending, torn>>

\* The active-learning insert fails: its rollback discards the new entry as well,
\* and the approval goes on.
TrainingRollback(s) ==
    /\ "learner" \in Faults
    /\ At(s, "flushed")
    /\ txn' = RolledBack(s)
    /\ request' = [request EXCEPT ![s].pc = "published", ![s].t = None]
    /\ UNCHANGED <<pending, torn>>

\* Seal, mark the inbox row and commit, when the hooks have not committed before
\* (no entity of the message could be mapped).  The amount is the inbox row's, in cents.
ApproveCommit(s) ==
    LET t == request[s].t IN
    /\ At(s, "flushed")
    /\ txn' = [txn EXCEPT ![t] = Sealed(t, [@ EXCEPT !.by = None], "cents")]
    /\ MarkPending(request[s].p, "approved")
    /\ End(s)
    /\ UNCHANGED torn

\* The same after the hooks committed or rolled back: the two rows are written
\* by primary key as they are now, and wait for whoever has locked them.  The seal is
\* of the entry as it was read, perhaps before an edit superseded it.
ApproveCommitLate(s) ==
    LET p == request[s].p
        t == request[s].t
    IN  /\ At(s, "published")
        /\ InInbox(p) /\ ~LockedPending(p)
        /\ \/ t = None /\ UNCHANGED txn
           \/ /\ t # None
              /\ Visible(t) /\ ~LockedTxn(t)
              /\ \E seal \in {Recalculated(t), FirstSeal(t, "cents")} :
                    txn' = [txn EXCEPT ![t].seal = seal]
        /\ MarkPending(p, "approved")
        /\ End(s)
        /\ UNCHANGED torn

\* One of the two rows is gone: the flush updates no row and the approval fails.
ApproveStale(s) ==
    LET t == request[s].t IN
    /\ At(s, "published")
    /\ ~InInbox(request[s].p) \/ (t # None /\ ~Visible(t))
    /\ Rollback(s)

-----------------------------------------------------------------------------
(* Splitting *)

\* The lock; keys[i] will be the entry of allocation i.
SplitLock(s, p) ==
    /\ "split" \in Ops
    /\ At(s, "idle")
    /\ InInbox(p)
    /\ ~LockedPending(p)
    /\ \E keys \in [1 .. Parts -> {t \in TxnIds : UnusedTxn(t)}] :
          /\ \A i, j \in 1 .. Parts : keys[i] = keys[j] => i = j
          /\ txn' = [t \in TxnIds |->
                        IF \E i \in 1 .. Parts : keys[i] = t
                        THEN [NoTxn EXCEPT !.by = s,
                                           !.part = CHOOSE i \in 1 .. Parts : keys[i] = t]
                        ELSE txn[t]]
    /\ Begin(s, "split", p, None, NoCode)
    /\ UNCHANGED <<pending, torn>>

\* Slip: a hook commits the first part before the others are inserted.
PartEntry_FirstCommitted(s, t, row, amount) ==
    Sealed(t, NewEntry(IF txn[t].part = 1 THEN None ELSE s, row.code, txn[t].part, row.receipt), amount)

\* An allocation's entry: sealed as soon as it is flushed, with the amount of the request.
PartEntry(s, t, row, amount) ==
    Sealed(t, NewEntry(s, row.code, txn[t].part, row.receipt), amount)

\* A NULL code is replaced by a fresh SYS- base, which cannot collide; NoCode
\* stands for it in the entries.  Each allocation brings its amount.
SplitInsert(s) ==
    LET row == pending[request[s].p] IN
    /\ At(s, "split")
    /\ \/ row.code = NoCode
       \/ \A i \in 1 .. Parts : ~InDoubt(s, row.code, i) /\ ~Taken(row.code, i)
    /\ \E amounts \in [TxnIds -> Amounts] :
          txn' = [t \in TxnIds |-> IF txn[t].by = s THEN PartEntry(s, t, row, amounts[t]) ELSE txn[t]]
    /\ request' = [request EXCEPT ![s].pc = "split_flushed"]
    /\ UNCHANGED <<pending, torn>>

SplitRefused(s) ==
    LET c == pending[request[s].p].code IN
    /\ At(s, "split")
    /\ c # NoCode
    /\ \E i \in 1 .. Parts : ~InDoubt(s, c, i) /\ Taken(c, i)
    /\ Rollback(s)

SplitCommit(s) ==
    /\ At(s, "split_flushed")
    /\ txn' = Committed(s)
    /\ MarkPending(request[s].p, "split_approved")
    /\ End(s)
    /\ UNCHANGED torn

-----------------------------------------------------------------------------
(* Editing an approved entry *)

\* Slip: the old row gets its -REV- code and stays approved.
Superseded_StatusKept(row) == [row EXCEPT !.rev = TRUE]

\* The old row takes a -REV- code, the new one keeps the code; nothing seals the
\* old row again.
Superseded(row) == [row EXCEPT !.st = "superseded", !.rev = TRUE]

\* Slip: the replacement takes over the seal with the other columns.
Replacement_OldSeal(s, t, u, amount) ==
    [NewEntry(s, txn[t].base, txn[t].part, txn[t].receipt) EXCEPT !.seal = txn[t].seal]

Replacement(s, t, u, amount) ==
    Sealed(u, NewEntry(s, txn[t].base, txn[t].part, txn[t].receipt), amount)

\* Slip: the supersession is committed before the replacement is inserted.
EditLock_SupersedesFirst(s, t) ==
    /\ "edit" \in Ops
    /\ At(s, "idle")
    /\ Live(t)
    /\ ~LockedTxn(t)
    /\ \E u \in TxnIds, amount \in Amounts :
          UnusedTxn(u) /\ txn' = [txn EXCEPT ![t] = Superseded(@), ![u] = Replacement(s, t, u, amount)]
    /\ Begin(s, "edit", None, t, NoCode)
    /\ UNCHANGED <<pending, torn>>

\* Lock the entry, flush the supersession and the replacement, sealed with the amount sent.
EditLock(s, t) ==
    /\ "edit" \in Ops
    /\ At(s, "idle")
    /\ Live(t)
    /\ ~LockedTxn(t)
    /\ \E u \in TxnIds, amount \in Amounts :
          UnusedTxn(u) /\ txn' = [txn EXCEPT ![u] = Replacement(s, t, u, amount)]
    /\ Begin(s, "edit", None, t, NoCode)
    /\ UNCHANGED <<pending, torn>>

EditCommit(s) ==
    /\ At(s, "edit")
    /\ txn' = [Committed(s) EXCEPT ![request[s].t] = Superseded(@)]
    /\ End(s)
    /\ UNCHANGED <<pending, torn>>

-----------------------------------------------------------------------------
(* Rejecting, undoing, clearing *)

\* Lock, mark and commit with nothing in between; processed rows are not refused.
Reject(p) ==
    /\ "reject" \in Ops
    /\ InInbox(p)
    /\ ~LockedPending(p)
    /\ MarkPending(p, "rejected")
    /\ UNCHANGED <<txn, request, torn>>

\* Slip: only a split is looked up, the plain approval is forgotten.
EntryOf_SplitOnly(p) ==
    IF /\ pending[p].st = "split_approved"
       /\ pending[p].code # NoCode
       /\ Taken(pending[p].code, 0)
    THEN CHOOSE t \in TxnIds : Visible(t) /\ HasCode(t, pending[p].code, 0)
    ELSE None

\* The entry an undo is going to delete: the one with exactly the code of the inbox row.
EntryOf(p) ==
    IF /\ pending[p].st \in {"approved", "split_approved"}
       /\ pending[p].code # NoCode
       /\ Taken(pending[p].code, 0)
    THEN CHOOSE t \in TxnIds : Visible(t) /\ HasCode(t, pending[p].code, 0)
    ELSE None

UndoLock(s, p) ==
    /\ "undo" \in Ops
    /\ At(s, "idle")
    /\ IsProcessed(p)
    /\ ~LockedPending(p)
    /\ Begin(s, "undo", p, EntryOf(p), NoCode)
    /\ UNCHANGED <<pending, txn, torn>>

\* Slip: the entry is deleted and the inbox row stays processed.
UndoCommit_RowKept(s) ==
    LET t == request[s].t IN
    /\ At(s, "undo")
    /\ \/ t = None /\ UNCHANGED txn
       \/ t # None /\ ~LockedTxn(t) /\ txn' = [txn EXCEPT ![t].st = "deleted"]
    /\ End(s)
    /\ UNCHANGED <<pending, torn>>

\* The DELETE goes by primary key and waits for an edit of the row to end.
UndoCommit(s) ==
    LET t == request[s].t IN
    /\ At(s, "undo")
    /\ \/ t = None /\ UNCHANGED txn
       \/ t # None /\ ~LockedTxn(t) /\ txn' = [txn EXCEPT ![t].st = "deleted"]
    /\ MarkPending(request[s].p, "pending")
    /\ End(s)
    /\ UNCHANGED torn

\* DELETE of the treasurer's processed rows, all or a chosen list; it waits for
\* locked rows and looks at them again.
ClearHistory(P) ==
    /\ "clear" \in Ops
    /\ P # {}
    /\ \A p \in P : IsProcessed(p) /\ ~LockedPending(p)
    /\ pending' = [p \in PendingIds |->
                      IF p \in P THEN [pending[p] EXCEPT !.st = "cleared"] ELSE pending[p]]
    /\ UNCHANGED <<txn, request, torn>>

-----------------------------------------------------------------------------
(* Correcting an inbox row: read it without a lock, write it later *)

CorrectRead(s, p) ==
    /\ "correct" \in Ops
    /\ At(s, "idle")
    /\ pending[p].st = "pending"
    /\ Begin(s, "correct", p, None, NoCode)
    /\ UNCHANGED <<pending, txn, torn>>

\* The UPDATE goes by primary key: it waits for the lock, then applies whatever
\* the row's status has become.
SetCode(s, c) ==
    LET p == request[s].p IN
    /\ At(s, "correct")
    /\ InInbox(p)
    /\ ~LockedPending(p)
    /\ c = NoCode \/ \A q \in PendingIds \ {p} : ~(InInbox(q) /\ pending[q].code = c)
    /\ pending' = [pending EXCEPT ![p].code = c]
    /\ End(s)
    /\ UNCHANGED <<txn, torn>>

\* PATCH: any code, or none.
EditTx(s) == \E c \in Codes : SetCode(s, c)

\* Re-parsing finds the message's own code again.
Reparse(s) == SetCode(s, pending[request[s].p].receipt)

\* The row was cleared in between: the UPDATE matches no row and fails.
CorrectStale(s) ==
    /\ At(s, "correct")
    /\ ~InInbox(request[s].p)
    /\ Rollback(s)

\* A request ends before its commit: the process dies, the connection is lost, or
\* sealing fails and approve_transaction rolls back.
Abandon(s) ==
    /\ "crash" \in Faults
    /\ ~At(s, "idle")
    /\ Rollback(s)

-----------------------------------------------------------------------------
(* The specification *)

Init ==
    /\ pending = [p \in PendingIds |-> NoPending]
    /\ txn = [t \in TxnIds |-> NoTxn]
    /\ request = [s \in Sessions |-> Idle]
    /\ torn = {}

\* A request arrives.
Start(s) ==
    \/ \E r \in Receipts : IngestCheck(s, r) \/ ManualCheck(s, r)
    \/ \E p \in PendingIds : \/ ApproveLock(s, p)
                             \/ SplitLock(s, p)
                             \/ UndoLock(s, p)
                             \/ CorrectRead(s, p)
    \/ \E t \in TxnIds : EditLock(s, t)

\* A request that has begun takes its next step.
Continue(s) ==
    \/ IngestInsert(s)
    \/ ManualInsert(s) \/ ManualRefused(s)
    \/ ApproveInsert(s) \/ ApproveRefused(s)
    \/ TrainingCommit(s) \/ TrainingRollback(s)
    \/ ApproveCommit(s) \/ ApproveCommitLate(s) \/ ApproveStale(s)
    \/ SplitInsert(s) \/ SplitRefused(s) \/ SplitCommit(s)
    \/ EditCommit(s)
    \/ UndoCommit(s)
    \/ EditTx(s) \/ Reparse(s) \/ CorrectStale(s)

Next ==
    \/ \E s \in Sessions : Start(s) \/ Continue(s) \/ Abandon(s)
    \/ \E p \in PendingIds : Reject(p)
    \/ \E P \in SUBSET PendingIds : ClearHistory(P)

Spec == Init /\ [][Next]_vars

-----------------------------------------------------------------------------
(* Properties *)

\* The two tables and the requests hold what their declarations allow.
TypeOK ==
    /\ pending \in [PendingIds -> PendingRow]
    /\ txn \in [TxnIds -> TxnRow]
    /\ request \in [Sessions -> Request]
    /\ torn \subseteq TxnIds

\* A code counts at most once, over all its revisions: edit_approved_transaction steps
\* around the unique constraint with a -REV- suffix, and approvals, manual entries,
\* undos and edits of one code may overlap.
CountedOnce ==
    \A t, u \in TxnIds :
        /\ Live(t) /\ Live(u)
        /\ txn[t].base # NoCode
        /\ txn[t].base = txn[u].base /\ txn[t].part = txn[u].part
        => t = u

\* The allocations of a split are in the ledger all together or not at all, whatever fails,
\* and stay so through edits and undos.  Their amounts need not add up to the payment.
SplitWhole ==
    \A t \in TxnIds :
        Live(t) /\ txn[t].part # 0 =>
            \A i \in 1 .. Parts :
                \E u \in TxnIds : /\ Live(u) /\ txn[u].part = i
                                 /\ txn[u].base = txn[t].base

\* What LedgerService recomputes for an approved entry that has a seal is that seal, because
\* no request touches a sealed entry without taking it out of the approved ones.  The one
\* difference there can be is made when the seal is: an amount finer than cents is hashed
\* before the column rounds it, and the entry reported as tampered with ever after.
SealHolds ==
    \A t \in TxnIds :
        Live(t) /\ txn[t].seal # NoSeal =>
            \/ txn[t].seal = Recalculated(t)
            \/ "finer" \in Amounts /\ txn[t].seal = HashOf(t, txn[t], "finer")

\* The only approved entries without a seal are those of an approval whose training
\* hook has committed: it is still running, or it died before it could seal.
UnsealedIsTorn ==
    \A t \in TxnIds :
        Live(t) /\ txn[t].seal = NoSeal =>
            \/ t \in torn
            \/ \E s \in Sessions : At(s, "published") /\ request[s].t = t

\* No edit loses money: a superseded code has an entry that took it over, and that one
\* is approved, superseded in its turn, or was deleted by an undo.
SupersededIsReplaced ==
    \A t \in TxnIds :
        Visible(t) /\ txn[t].st = "superseded" =>
            \E u \in TxnIds : /\ u # t /\ txn[u].by = None
                             /\ txn[u].st # "none" /\ ~txn[u].rev
                             /\ txn[u].base = txn[t].base /\ txn[u].part = txn[t].part

\* Committed rows as entries of the promised ledger.
EntryStatus(t) ==
    CASE txn[t].by # None \/ txn[t].st = "none" -> "absent"
      [] Live(t) /\ txn[t].seal = NoSeal -> "open"
      [] Live(t) /\ txn[t].seal = HashOf(t, txn[t], txn[t].seal.amt) -> "sealed"
      [] Visible(t) /\ txn[t].st = "superseded" -> "superseded"
      [] txn[t].by = None /\ txn[t].st = "deleted" -> "void"
      [] OTHER -> "broken"

LedgerEntry(t) ==
    [st  |-> EntryStatus(t),
     key |-> IF EntryStatus(t) = "absent" THEN None ELSE <<txn[t].base, txn[t].part>>]

Book == INSTANCE Ledger WITH
            Ids <- TxnIds,
            Keys <- Codes \X (0 .. Parts),
            Unique <- Receipts \X (0 .. Parts),
            NoKey <- None,
            entry <- [t \in TxnIds |-> LedgerEntry(t)]

\* The requests, interleaved and failing as they may, only ever append, seal, supersede
\* or void entries.
ImplementsLedger == Book!LedgerSpec

-----------------------------------------------------------------------------
(* Liveness *)

\* A request that can go on infinitely often does: PostgreSQL queues the waiters of a
\* row, and a NOWAIT request never overtakes them.
FairSpec == Spec /\ \A s \in Sessions : SF_vars(Continue(s))

\* Whatever requests wait for each other's locks and uncommitted codes, each one ends.
RequestEnds == \A s \in Sessions : ~At(s, "idle") ~> At(s, "idle")

=============================================================================
