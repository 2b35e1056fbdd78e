--------------------------- MODULE ApprovalProofs ---------------------------
(***************************************************************************)
(* What holds of module Approval whatever the numbers of payments, rows,   *)
(* sessions and parts, the operations and the faults: tables and requests  *)
(* are of their types; every step keeps the inductive invariant of module  *)
(* ApprovalInvariant, and with it the safety properties of the ledger; the *)
(* requests implement the book of module Ledger.  The claims of module     *)
(* ApprovalClaims hold for the operations that their theorems name.        *)
(***************************************************************************)
EXTENDS ApprovalClaims, ApprovalInvariant, TLAPS

-----------------------------------------------------------------------------
(* Rows and requests are of their types *)

\* The null records are of their types.
LEMMA NullTypes ==
    /\ NoSeal \in Seal
    /\ NoPending \in PendingRow
    /\ NoTxn \in TxnRow
    /\ Idle \in Request
BY ConstantsAssumption
   DEF NoSeal, Seal, NoPending, PendingRow, PendingStatus, NoTxn, TxnRow, TxnStatus,
       Idle, Request, Pc, Codes

\* A new entry is a row of the transactions table (every insert of the services).
LEMMA NewEntryType ==
    ASSUME NEW s \in Sessions \cup {None}, NEW b \in Codes, NEW i \in 0 .. Parts,
           NEW r \in Codes
    PROVE  NewEntry(s, b, i, r) \in TxnRow
BY NullTypes DEF NewEntry, TxnRow, TxnStatus

\* A seal is of its type.
LEMMA SealType ==
    ASSUME NEW t \in TxnIds
    PROVE  /\ \A row \in TxnRow : HashOf(t, row, "cents") \in Seal
           /\ \A amount \in Amounts : FirstSeal(t, amount) \in Seal
           /\ "cents" \in Amounts
BY ConstantsAssumption DEF HashOf, FirstSeal, AllAmounts, TxnRow, TxnStatus, Seal

\* The seal of an approved entry is a hash of the row.
LEMMA SealIsHash ==
    ASSUME NEW t \in TxnIds, NEW amount \in Amounts, txn[t].st = "approved", txn[t].rev = FALSE
    PROVE  /\ FirstSeal(t, "cents") = Recalculated(t)
           /\ FirstSeal(t, amount) = HashOf(t, txn[t], amount)
           /\ FirstSeal(t, amount).amt = amount
BY DEF FirstSeal, HashOf, Recalculated

\* Sealing keeps a row a row (_write_to_ledger).
LEMMA SealedType ==
    ASSUME NEW row \in TxnRow, NEW t \in TxnIds, NEW amount \in Amounts
    PROVE  Sealed(t, row, amount) \in TxnRow
BY NullTypes, ConstantsAssumption DEF Sealed, HashOf, AllAmounts, TxnRow, Seal

\* Reserving a key for a session keeps a row a row.
LEMMA ReservedType ==
    ASSUME NEW row \in TxnRow, NEW s \in Sessions \cup {None}
    PROVE  [row EXCEPT !.by = s] \in TxnRow
BY DEF TxnRow

\* Commit and rollback keep the table a table.
LEMMA CommitTypes ==
    ASSUME TypeOK, NEW s \in Sessions
    PROVE  /\ Committed(s) \in [TxnIds -> TxnRow]
           /\ RolledBack(s) \in [TxnIds -> TxnRow]
BY NullTypes, ReservedType DEF TypeOK, Committed, RolledBack

\* A request that begins, and the others, which stay as they are.
LEMMA BeginEffect ==
    ASSUME TypeOK, NEW s \in Sessions, NEW pc \in Pc, NEW p \in PendingIds \cup {None},
           NEW t \in TxnIds \cup {None}, NEW c \in Codes,
           Begin(s, pc, p, t, c)
    PROVE  /\ request' \in [Sessions -> Request]
           /\ request'[s] = [pc |-> pc, p |-> p, t |-> t, code |-> c]
           /\ \A r \in Sessions \ {s} : request'[r] = request[r]
BY DEF TypeOK, Begin, Request

\* A request that ends, and the others, which stay as they are.
LEMMA EndEffect ==
    ASSUME TypeOK, NEW s \in Sessions, End(s)
    PROVE  /\ request' \in [Sessions -> Request]
           /\ request'[s] = Idle
           /\ \A r \in Sessions \ {s} : request'[r] = request[r]
BY NullTypes DEF TypeOK, End

\* Only the status of an inbox row is written when it is marked.
LEMMA MarkTypes ==
    ASSUME TypeOK, NEW p, NEW st \in PendingStatus, MarkPending(p, st)
    PROVE  pending' \in [PendingIds -> PendingRow]
BY DEF TypeOK, MarkPending, PendingRow

\* Keys are where they have to be after a request that had them has ended.
LEMMA EndKeys ==
    ASSUME TypeOK, KeysOK, NEW s \in Sessions, End(s)
    PROVE  KeysOK'
BY EndEffect DEF KeysOK, Idle

\* A rollback, whoever asks for it, keeps the types.
LEMMA RollbackTypes ==
    ASSUME TypeOK, KeysOK, NEW s \in Sessions, Rollback(s)
    PROVE  TypeOK' /\ KeysOK'
<1>1. KeysOK'
  BY EndKeys DEF Rollback
<1>2. request' \in [Sessions -> Request]
  BY EndEffect DEF Rollback
<1>3. torn' \subseteq TxnIds
  BY DEF Rollback, TypeOK, Request
<1> QED BY <1>1, <1>2, <1>3, CommitTypes DEF Rollback, TypeOK

-----------------------------------------------------------------------------

\* The two steps of an ingestion keep the types.
LEMMA IngestTypes ==
    ASSUME TypeOK, KeysOK, NEW s \in Sessions
    PROVE  /\ \A r \in Receipts : IngestCheck(s, r) => TypeOK' /\ KeysOK'
           /\ IngestInsert(s) => TypeOK' /\ KeysOK'
<1>1. ASSUME NEW r \in Receipts, IngestCheck(s, r)
      PROVE  TypeOK' /\ KeysOK'
  <2>1. PICK p \in PendingIds : Begin(s, "ingest", p, None, r)
    BY <1>1 DEF IngestCheck
  <2>2. /\ request' \in [Sessions -> Request]
        /\ request'[s] = [pc |-> "ingest", p |-> p, t |-> None, code |-> r]
        /\ \A q \in Sessions \ {s} : request'[q] = request[q]
    BY <2>1, BeginEffect DEF Codes, Pc
  <2> QED BY <1>1, <2>2 DEF TypeOK, KeysOK, IngestCheck
<1>2. ASSUME IngestInsert(s)
      PROVE  TypeOK' /\ KeysOK'
  <2>1. KeysOK'
    BY <1>2, EndKeys DEF IngestInsert
  <2>2. request' \in [Sessions -> Request]
    BY <1>2, EndEffect DEF IngestInsert
  <2>3. pending' \in [PendingIds -> PendingRow]
    BY <1>2 DEF TypeOK, IngestInsert, PendingRow, PendingStatus, Request
  <2> QED BY <1>2, <2>1, <2>2, <2>3 DEF TypeOK, IngestInsert
<1> QED BY <1>1, <1>2

\* The steps of a manual entry keep the types.
LEMMA ManualTypes ==
    ASSUME TypeOK, KeysOK, NEW s \in Sessions
    PROVE  /\ \A c \in Receipts : ManualCheck(s, c) => TypeOK' /\ KeysOK'
           /\ ManualInsert(s) => TypeOK' /\ KeysOK'
           /\ ManualRefused(s) => TypeOK' /\ KeysOK'
<1>1. ASSUME NEW c \in Receipts, ManualCheck(s, c)
      PROVE  TypeOK' /\ KeysOK'
  <2>1. PICK t \in TxnIds : /\ txn' = [txn EXCEPT ![t] = [NoTxn EXCEPT !.by = s]]
                            /\ Begin(s, "manual", None, t, c)
    BY <1>1 DEF ManualCheck
  <2>2. /\ request' \in [Sessions -> Request]
        /\ request'[s] = [pc |-> "manual", p |-> None, t |-> t, code |-> c]
        /\ \A q \in Sessions \ {s} : request'[q] = request[q]
    BY <2>1, BeginEffect DEF Codes, Pc
  <2>3. txn' \in [TxnIds -> TxnRow]
    BY <2>1, NullTypes, ReservedType DEF TypeOK
  <2> QED BY <1>1, <2>2, <2>3 DEF TypeOK, KeysOK, ManualCheck
<1>2. ASSUME ManualInsert(s)
      PROVE  TypeOK' /\ KeysOK'
  <2>1. KeysOK'
    BY <1>2, EndKeys DEF ManualInsert
  <2>2. request' \in [Sessions -> Request]
    BY <1>2, EndEffect DEF ManualInsert
  <2>3. request[s].t \in TxnIds /\ request[s].code \in Codes
    BY <1>2 DEF TypeOK, KeysOK, ManualInsert, At, Request
  <2>4. \A amount \in Amounts : ManualEntry(request[s].t, request[s].code, amount) \in TxnRow
    BY <2>3, NewEntryType, SealedType, ConstantsAssumption DEF ManualEntry
  <2>5. txn' \in [TxnIds -> TxnRow]
    BY <1>2, <2>4 DEF TypeOK, ManualInsert
  <2> QED BY <1>2, <2>1, <2>2, <2>5 DEF TypeOK, ManualInsert
<1>3. ManualRefused(s) => TypeOK' /\ KeysOK'
  BY RollbackTypes DEF ManualRefused
<1> QED BY <1>1, <1>2, <1>3

\* A request that goes on to its next step holds the same keys.
LEMMA AdvanceEffect ==
    ASSUME TypeOK, NEW s \in Sessions, NEW pc \in Pc,
           request' = [request EXCEPT ![s].pc = pc]
    PROVE  /\ request' \in [Sessions -> Request]
           /\ request'[s].pc = pc
           /\ request'[s].p = request[s].p
           /\ request'[s].t = request[s].t
           /\ \A r \in Sessions \ {s} : request'[r] = request[r]
BY DEF TypeOK, Request

\* The lock, the insert and the two refusals of an approval keep the types.
LEMMA ApproveTypes ==
    ASSUME TypeOK, KeysOK, NEW s \in Sessions
    PROVE  /\ \A p \in PendingIds : ApproveLock(s, p) => TypeOK' /\ KeysOK'
           /\ ApproveInsert(s) => TypeOK' /\ KeysOK'
           /\ ApproveRefused(s) => TypeOK' /\ KeysOK'
           /\ ApproveStale(s) => TypeOK' /\ KeysOK'
<1>1. ASSUME NEW p \in PendingIds, ApproveLock(s, p)
      PROVE  TypeOK' /\ KeysOK'
  <2>1. PICK t \in TxnIds : /\ txn' = [txn EXCEPT ![t] = [NoTxn EXCEPT !.by = s]]
                            /\ Begin(s, "approve", p, t, NoCode)
    BY <1>1 DEF ApproveLock
  <2>2. /\ request' \in [Sessions -> Request]
        /\ request'[s] = [pc |-> "approve", p |-> p, t |-> t, code |-> NoCode]
        /\ \A q \in Sessions \ {s} : request'[q] = request[q]
    BY <2>1, BeginEffect DEF Codes, Pc
  <2>3. txn' \in [TxnIds -> TxnRow]
    BY <2>1, NullTypes, ReservedType DEF TypeOK
  <2> QED BY <1>1, <2>2, <2>3 DEF TypeOK, KeysOK, ApproveLock
<1>2. ASSUME ApproveInsert(s)
      PROVE  TypeOK' /\ KeysOK'
  <2>1. request[s].t \in TxnIds /\ pending[request[s].p] \in PendingRow
    BY <1>2 DEF TypeOK, KeysOK, ApproveInsert, At
  <2>2. /\ request' \in [Sessions -> Request]
        /\ request'[s].pc = "flushed"
        /\ request'[s].p = request[s].p
        /\ request'[s].t = request[s].t
        /\ \A r \in Sessions \ {s} : request'[r] = request[r]
    BY <1>2, AdvanceEffect DEF ApproveInsert, Pc
  <2>3. KeysOK'
    BY <1>2, <2>2 DEF KeysOK, ApproveInsert, At
  <2>4. NewEntry(s, pending[request[s].p].code, 0, pending[request[s].p].receipt) \in TxnRow
    BY <2>1, NewEntryType, ConstantsAssumption DEF PendingRow
  <2>5. txn' \in [TxnIds -> TxnRow]
    BY <1>2, <2>4 DEF TypeOK, ApproveInsert
  <2> QED BY <1>2, <2>2, <2>3, <2>5 DEF TypeOK, ApproveInsert
<1>3. ApproveRefused(s) => TypeOK' /\ KeysOK'
  BY RollbackTypes DEF ApproveRefused
<1>4. ApproveStale(s) => TypeOK' /\ KeysOK'
  BY RollbackTypes DEF ApproveStale
<1> QED BY <1>1, <1>2, <1>3, <1>4

\* The commit or rollback of a training hook keeps the types.
LEMMA TrainingTypes ==
    ASSUME TypeOK, KeysOK, NEW s \in Sessions
    PROVE  /\ TrainingCommit(s) => TypeOK' /\ KeysOK'
           /\ TrainingRollback(s) => TypeOK' /\ KeysOK'
<1>1. ASSUME TrainingCommit(s)
      PROVE  TypeOK' /\ KeysOK'
  <2>1. /\ request' \in [Sessions -> Request]
        /\ request'[s].pc = "published"
        /\ request'[s].p = request[s].p
        /\ \A r \in Sessions \ {s} : request'[r] = request[r]
    BY <1>1, AdvanceEffect DEF TrainingCommit, Pc
  <2>2. KeysOK'
    BY <1>1, <2>1 DEF KeysOK, TrainingCommit, At
  <2> QED BY <1>1, <2>1, <2>2, CommitTypes DEF TypeOK, TrainingCommit
<1>2. ASSUME TrainingRollback(s)
      PROVE  TypeOK' /\ KeysOK'
  <2>1. /\ request' \in [Sessions -> Request]
        /\ request'[s].pc = "published"
        /\ request'[s].p = request[s].p
        /\ \A r \in Sessions \ {s} : request'[r] = request[r]
    BY <1>2 DEF TypeOK, TrainingRollback, Request, Pc
  <2>2. KeysOK'
    BY <1>2, <2>1 DEF KeysOK, TrainingRollback, At
  <2> QED BY <1>2, <2>1, <2>2, CommitTypes DEF TypeOK, TrainingRollback
<1> QED BY <1>1, <1>2

\* The two ways an approval ends well keep the types.
LEMMA ApproveCommitTypes ==
    ASSUME TypeOK, KeysOK, NEW s \in Sessions
    PROVE  /\ ApproveCommit(s) => TypeOK' /\ KeysOK'
           /\ ApproveCommitLate(s) => TypeOK' /\ KeysOK'
<1>1. ASSUME ApproveCommit(s)
      PROVE  TypeOK' /\ KeysOK'
  <2>1. KeysOK' /\ request' \in [Sessions -> Request]
    BY <1>1, EndKeys, EndEffect DEF ApproveCommit
  <2>2. pending' \in [PendingIds -> PendingRow]
    BY <1>1, MarkTypes DEF ApproveCommit, PendingStatus
  <2>3. request[s].t \in TxnIds
    BY <1>1 DEF KeysOK, ApproveCommit, At
  <2>4. Sealed(request[s].t, [txn[request[s].t] EXCEPT !.by = None], "cents") \in TxnRow
    BY <2>3, ReservedType, SealedType, SealType DEF TypeOK
  <2>5. txn' \in [TxnIds -> TxnRow]
    BY <1>1, <2>4 DEF TypeOK, ApproveCommit
  <2> QED BY <1>1, <2>1, <2>2, <2>5 DEF TypeOK, ApproveCommit
<1>2. ASSUME ApproveCommitLate(s)
      PROVE  TypeOK' /\ KeysOK'
  <2>1. KeysOK' /\ request' \in [Sessions -> Request]
    BY <1>2, EndKeys, EndEffect DEF ApproveCommitLate
  <2>2. pending' \in [PendingIds -> PendingRow]
    BY <1>2, MarkTypes DEF ApproveCommitLate, PendingStatus
  <2>3. txn' \in [TxnIds -> TxnRow]
    <3>1. CASE request[s].t = None
      BY <1>2, <3>1 DEF TypeOK, ApproveCommitLate
    <3>2. CASE request[s].t # None
      <4>1. request[s].t \in TxnIds
        BY <3>2 DEF TypeOK, Request
      <4>2. PICK seal \in {Recalculated(request[s].t),
                           FirstSeal(request[s].t, "cents")} :
               txn' = [txn EXCEPT ![request[s].t].seal = seal]
        BY <1>2, <3>2 DEF ApproveCommitLate
      <4>3. seal \in Seal
        BY <4>1, <4>2, SealType DEF TypeOK, Recalculated
      <4> QED BY <4>1, <4>2, <4>3 DEF TypeOK, TxnRow
    <3> QED BY <3>1, <3>2
  <2> QED BY <1>2, <2>1, <2>2, <2>3 DEF TypeOK, ApproveCommitLate
<1> QED BY <1>1, <1>2

\* The steps of a split keep the types.
LEMMA SplitTypes ==
    ASSUME TypeOK, KeysOK, NEW s \in Sessions
    PROVE  /\ \A p \in PendingIds : SplitLock(s, p) => TypeOK' /\ KeysOK'
           /\ SplitInsert(s) => TypeOK' /\ KeysOK'
           /\ SplitRefused(s) => TypeOK' /\ KeysOK'
           /\ SplitCommit(s) => TypeOK' /\ KeysOK'
<1>1. ASSUME NEW p \in PendingIds, SplitLock(s, p)
      PROVE  TypeOK' /\ KeysOK'
  <2>1. /\ request' \in [Sessions -> Request]
        /\ request'[s] = [pc |-> "split", p |-> p, t |-> None, code |-> NoCode]
        /\ \A q \in Sessions \ {s} : request'[q] = request[q]
    BY <1>1, BeginEffect DEF SplitLock, Codes, Pc
  <2>2. PICK keys \in [1 .. Parts -> {t \in TxnIds : UnusedTxn(t)}] :
           txn' = [t \in TxnIds |->
                     IF \E i \in 1 .. Parts : keys[i] = t
                     THEN [NoTxn EXCEPT !.by = s,
                                        !.part = CHOOSE i \in 1 .. Parts : keys[i] = t]
                     ELSE txn[t]]
    BY <1>1 DEF SplitLock
  <2>3. ASSUME NEW t \in TxnIds, \E i \in 1 .. Parts : keys[i] = t
        PROVE  [NoTxn EXCEPT !.by = s, !.part = CHOOSE i \in 1 .. Parts : keys[i] = t] \in TxnRow
    <3>1. (CHOOSE i \in 1 .. Parts : keys[i] = t) \in 0 .. Parts
      BY <2>3
    <3> QED BY <3>1, NullTypes DEF TxnRow
  <2>4. txn' \in [TxnIds -> TxnRow]
    BY <2>2, <2>3 DEF TypeOK
  <2>5. UNCHANGED <<pending, torn>>
    BY <1>1 DEF SplitLock
  <2> QED BY <2>1, <2>4, <2>5 DEF TypeOK, KeysOK
<1>2. ASSUME SplitInsert(s)
      PROVE  TypeOK' /\ KeysOK'
  <2>1. pending[request[s].p] \in PendingRow
    BY <1>2 DEF TypeOK, KeysOK, SplitInsert, At
  <2>2. /\ request' \in [Sessions -> Request]
        /\ request'[s].pc = "split_flushed"
        /\ request'[s].p = request[s].p
        /\ \A r \in Sessions \ {s} : request'[r] = request[r]
    BY <1>2, AdvanceEffect DEF SplitInsert, Pc
  <2>3. KeysOK'
    BY <1>2, <2>2 DEF KeysOK, SplitInsert, At
  <2>4. ASSUME NEW t \in TxnIds
        PROVE  \A amount \in Amounts : PartEntry(s, t, pending[request[s].p], amount) \in TxnRow
    <3>1. txn[t].part \in 0 .. Parts
      BY DEF TypeOK, TxnRow
    <3> QED BY <2>1, <3>1, NewEntryType, SealedType DEF PartEntry, PendingRow
  <2>5. txn' \in [TxnIds -> TxnRow]
    BY <1>2, <2>4 DEF TypeOK, SplitInsert
  <2> QED BY <1>2, <2>2, <2>3, <2>5 DEF TypeOK, SplitInsert
<1>3. SplitRefused(s) => TypeOK' /\ KeysOK'
  BY RollbackTypes DEF SplitRefused
<1>4. ASSUME SplitCommit(s)
      PROVE  TypeOK' /\ KeysOK'
  <2>1. KeysOK' /\ request' \in [Sessions -> Request]
    BY <1>4, EndKeys, EndEffect DEF SplitCommit
  <2>2. pending' \in [PendingIds -> PendingRow]
    BY <1>4, MarkTypes DEF SplitCommit, PendingStatus
  <2> QED BY <1>4, <2>1, <2>2, CommitTypes DEF TypeOK, SplitCommit
<1> QED BY <1>1, <1>2, <1>3, <1>4

\* The two steps of an edit keep the types.
LEMMA EditTypes ==
    ASSUME TypeOK, KeysOK, NEW s \in Sessions
    PROVE  /\ \A t \in TxnIds : EditLock(s, t) => TypeOK' /\ KeysOK'
           /\ EditCommit(s) => TypeOK' /\ KeysOK'
<1>1. ASSUME NEW t \in TxnIds, EditLock(s, t)
      PROVE  TypeOK' /\ KeysOK'
  <2>1. /\ request' \in [Sessions -> Request]
        /\ request'[s] = [pc |-> "edit", p |-> None, t |-> t, code |-> NoCode]
        /\ \A q \in Sessions \ {s} : request'[q] = request[q]
    BY <1>1, BeginEffect DEF EditLock, Codes, Pc
  <2>2. PICK u \in TxnIds, amount \in Amounts : txn' = [txn EXCEPT ![u] = Replacement(s, t, u, amount)]
    BY <1>1 DEF EditLock
  <2>3. Replacement(s, t, u, amount) \in TxnRow
    BY NewEntryType, SealedType DEF Replacement, TypeOK, TxnRow
  <2>4. txn' \in [TxnIds -> TxnRow]
    BY <2>2, <2>3 DEF TypeOK
  <2> QED BY <1>1, <2>1, <2>4 DEF TypeOK, KeysOK, EditLock
<1>2. ASSUME EditCommit(s)
      PROVE  TypeOK' /\ KeysOK'
  <2>1. KeysOK' /\ request' \in [Sessions -> Request]
    BY <1>2, EndKeys, EndEffect DEF EditCommit
  <2>2. ASSUME NEW row \in TxnRow
        PROVE  Superseded(row) \in TxnRow
    BY DEF Superseded, TxnRow, TxnStatus
  <2>3. txn' \in [TxnIds -> TxnRow]
    BY <1>2, <2>2, CommitTypes DEF EditCommit
  <2> QED BY <1>2, <2>1, <2>3 DEF TypeOK, EditCommit
<1> QED BY <1>1, <1>2

\* The two steps of an undo keep the types.
LEMMA UndoTypes ==
    ASSUME TypeOK, KeysOK, NEW s \in Sessions
    PROVE  /\ \A p \in PendingIds : UndoLock(s, p) => TypeOK' /\ KeysOK'
           /\ UndoCommit(s) => TypeOK' /\ KeysOK'
<1>1. ASSUME NEW p \in PendingIds, UndoLock(s, p)
      PROVE  TypeOK' /\ KeysOK'
  <2>1. EntryOf(p) \in TxnIds \cup {None}
    BY DEF EntryOf, Taken
  <2>2. /\ request' \in [Sessions -> Request]
        /\ request'[s] = [pc |-> "undo", p |-> p, t |-> EntryOf(p), code |-> NoCode]
        /\ \A q \in Sessions \ {s} : request'[q] = request[q]
    BY <1>1, <2>1, BeginEffect DEF UndoLock, Codes, Pc
  <2> QED BY <1>1, <2>2 DEF TypeOK, KeysOK, UndoLock
<1>2. ASSUME UndoCommit(s)
      PROVE  TypeOK' /\ KeysOK'
  <2>1. KeysOK' /\ request' \in [Sessions -> Request]
    BY <1>2, EndKeys, EndEffect DEF UndoCommit
  <2>2. pending' \in [PendingIds -> PendingRow]
    BY <1>2, MarkTypes DEF UndoCommit, PendingStatus
  <2>3. txn' \in [TxnIds -> TxnRow]
    BY <1>2 DEF TypeOK, UndoCommit, TxnRow, TxnStatus
  <2> QED BY <1>2, <2>1, <2>2, <2>3 DEF TypeOK, UndoCommit
<1> QED BY <1>1, <1>2

\* Rejecting and clearing keep the types.
LEMMA InboxTypes ==
    ASSUME TypeOK, KeysOK
    PROVE  /\ \A p \in PendingIds : Reject(p) => TypeOK' /\ KeysOK'
           /\ \A P \in SUBSET PendingIds : ClearHistory(P) => TypeOK' /\ KeysOK'
<1>1. ASSUME NEW p \in PendingIds, Reject(p)
      PROVE  TypeOK' /\ KeysOK'
  <2>1. pending' \in [PendingIds -> PendingRow]
    BY <1>1, MarkTypes DEF Reject, PendingStatus
  <2> QED BY <1>1, <2>1 DEF TypeOK, KeysOK, Reject
<1>2. ASSUME NEW P \in SUBSET PendingIds, ClearHistory(P)
      PROVE  TypeOK' /\ KeysOK'
  <2>1. pending' \in [PendingIds -> PendingRow]
    BY <1>2 DEF TypeOK, ClearHistory, PendingRow, PendingStatus
  <2> QED BY <1>2, <2>1 DEF TypeOK, KeysOK, ClearHistory
<1> QED BY <1>1, <1>2

\* The steps of a correction of an inbox row keep the types.
LEMMA CorrectTypes ==
    ASSUME TypeOK, KeysOK, NEW s \in Sessions
    PROVE  /\ \A p \in PendingIds : CorrectRead(s, p) => TypeOK' /\ KeysOK'
           /\ EditTx(s) => TypeOK' /\ KeysOK'
           /\ Reparse(s) => TypeOK' /\ KeysOK'
           /\ CorrectStale(s) => TypeOK' /\ KeysOK'
<1>1. ASSUME NEW p \in PendingIds, CorrectRead(s, p)
      PROVE  TypeOK' /\ KeysOK'
  <2>1. /\ request' \in [Sessions -> Request]
        /\ request'[s] = [pc |-> "correct", p |-> p, t |-> None, code |-> NoCode]
        /\ \A q \in Sessions \ {s} : request'[q] = request[q]
    BY <1>1, BeginEffect DEF CorrectRead, Codes, Pc
  <2> QED BY <1>1, <2>1 DEF TypeOK, KeysOK, CorrectRead
<1>2. ASSUME NEW c \in Codes, SetCode(s, c)
      PROVE  TypeOK' /\ KeysOK'
  <2>1. KeysOK' /\ request' \in [Sessions -> Request]
    BY <1>2, EndKeys, EndEffect DEF SetCode
  <2>2. pending' \in [PendingIds -> PendingRow]
    BY <1>2 DEF TypeOK, SetCode, PendingRow
  <2> QED BY <1>2, <2>1, <2>2 DEF TypeOK, SetCode
<1>3. EditTx(s) => TypeOK' /\ KeysOK'
  BY <1>2 DEF EditTx
<1>4. ASSUME Reparse(s)
      PROVE  TypeOK' /\ KeysOK'
  <2>1. pending[request[s].p].receipt \in Codes
    BY <1>4 DEF TypeOK, KeysOK, PendingRow, Reparse, SetCode, At
  <2> QED BY <1>2, <1>4, <2>1 DEF Reparse
<1>5. CorrectStale(s) => TypeOK' /\ KeysOK'
  BY RollbackTypes DEF CorrectStale
<1> QED BY <1>1, <1>3, <1>4, <1>5

\* Every step keeps the types.
LEMMA NextTypes ==
    ASSUME TypeOK, KeysOK, Next
    PROVE  TypeOK' /\ KeysOK'
<1>1. ASSUME NEW s \in Sessions, Start(s)
      PROVE  TypeOK' /\ KeysOK'
  BY <1>1, IngestTypes, ManualTypes, ApproveTypes, SplitTypes, UndoTypes, CorrectTypes,
     EditTypes DEF Start
<1>2. ASSUME NEW s \in Sessions, Continue(s)
      PROVE  TypeOK' /\ KeysOK'
  BY <1>2, IngestTypes, ManualTypes, ApproveTypes, TrainingTypes, ApproveCommitTypes,
     SplitTypes, EditTypes, UndoTypes, CorrectTypes DEF Continue
<1>3. ASSUME NEW s \in Sessions, Abandon(s)
      PROVE  TypeOK' /\ KeysOK'
  BY <1>3, RollbackTypes DEF Abandon
<1> QED BY <1>1, <1>2, <1>3, InboxTypes DEF Next

\* The tables and the requests hold what their declarations allow, in every state of
\* every interleaving of the requests.
THEOREM TypeCorrect == Spec => []TypeOK
<1>1. Init => TypeOK /\ KeysOK
  BY NullTypes DEF Init, TypeOK, KeysOK, Idle
<1>2. TypeOK /\ KeysOK /\ [Next]_vars => TypeOK' /\ KeysOK'
  <2>1. TypeOK /\ KeysOK /\ UNCHANGED vars => TypeOK' /\ KeysOK'
    BY DEF vars, TypeOK, KeysOK
  <2> QED BY <2>1, NextTypes
<1> QED BY <1>1, <1>2, PTL DEF Spec

-----------------------------------------------------------------------------
(* The inductive invariant *)

\* What a step has to keep beside the types.
Rest ==
    /\ RowsOK /\ OwnRowsOK /\ TargetsOK
    /\ CodesOK
    /\ SealsOK /\ SplitWhole /\ SupersededIsReplaced

\* The session writing a row is a session.
LEMMA Writers ==
    ASSUME TypeOK, KeysOK
    PROVE  /\ None \notin Sessions /\ None \notin TxnIds
           /\ \A s \in Sessions :
                 request[s].pc \in {"approve", "flushed", "edit", "manual"}
                     => request[s].t \in TxnIds
           /\ \A t \in TxnIds : txn[t].by \in Sessions \cup {None}
           /\ \A s \in Sessions : request[s].t \in TxnIds \cup {None}
BY ConstantsAssumption DEF TypeOK, KeysOK, TxnRow, Request

\* A step of s that leaves the rows another session has written as they are, and its own
\* request, keeps what is known of them.
LEMMA OtherRows ==
    ASSUME NEW r \in Sessions, OwnRows(r),
           request[r].pc \in {"approve", "flushed", "manual"} => request[r].t \in TxnIds,
           request'[r] = request[r],
           \A u \in TxnIds : txn'[u].by = r <=> txn[u].by = r,
           \A u \in TxnIds : txn[u].by = r => txn'[u] = txn[u]
    PROVE  OwnRows(r)'
BY DEF OwnRows, OwnsOne, At

\* The target of another session stays one when it is not written, or only sealed.
LEMMA OtherTarget ==
    ASSUME NEW r \in Sessions, Target(r),
           request[r].t \in TxnIds \cup {None}, None \notin TxnIds,
           At(r, "edit") => request[r].t \in TxnIds,
           request'[r] = request[r],
           \A q \in Sessions : At(q, "edit")' => At(q, "edit") /\ request'[q].t = request[q].t,
           \A u \in TxnIds : txn'[u].by = r <=> txn[u].by = r,
           \A u \in TxnIds : txn[u].by \in {r, None} =>
               /\ txn'[u].by = txn[u].by
               /\ txn'[u].base = txn[u].base /\ txn'[u].part = txn[u].part,
           \A u \in TxnIds : txn[u].st # "none" => txn'[u].st # "none" \/ txn[u].by # None,
           At(r, "edit") => txn'[request[r].t].st = txn[request[r].t].st
    PROVE  Target(r)'
<1>1. request[r].pc \in {"published", "undo"} /\ request[r].t # None =>
          /\ txn'[request[r].t].by = None
          /\ txn'[request[r].t].st # "none"
          /\ txn'[request[r].t].part = 0
  BY DEF Target
<1>2. ASSUME At(r, "edit")
      PROVE  /\ Live(request[r].t)'
             /\ \A q \in Sessions \ {r} : At(q, "edit")' => request'[q].t # request'[r].t
             /\ \E u \in TxnIds :
                   /\ txn'[u].by = r
                   /\ txn'[u].base = txn'[request[r].t].base
                   /\ txn'[u].part = txn'[request[r].t].part
                   /\ \A v \in TxnIds : txn'[v].by = r => v = u
  <2>1. Live(request[r].t)'
    BY <1>2 DEF Target, Live
  <2>2. \A q \in Sessions \ {r} : At(q, "edit")' => request'[q].t # request'[r].t
    BY <1>2 DEF Target
  <2>3. PICK u \in TxnIds :
           /\ txn[u].by = r
           /\ txn[u].base = txn[request[r].t].base
           /\ txn[u].part = txn[request[r].t].part
           /\ \A v \in TxnIds : txn[v].by = r => v = u
    BY <1>2 DEF Target
  <2>4. txn[request[r].t].by = None
    BY <1>2 DEF Target, Live
  <2> QED BY <1>2, <2>1, <2>2, <2>3, <2>4
<1> QED BY <1>1, <1>2 DEF Target, At

\* A request that reserves and writes nothing leaves the ledger as it is.
LEMMA QuietStep ==
    ASSUME TypeOK, KeysOK, Rest, NEW s \in Sessions,
           \/ request[s].pc \in {"idle", "ingest", "correct"}
           \/ request[s].pc \in {"published", "undo"} /\ request[s].t = None,
           \/ request'[s].pc \in {"idle", "ingest", "correct"}
           \/ /\ request'[s].pc = "undo"
              /\ request'[s].t # None =>
                    /\ txn[request'[s].t].by = None
                    /\ txn[request'[s].t].st # "none"
                    /\ txn[request'[s].t].part = 0,
           \A r \in Sessions \ {s} : request'[r] = request[r],
           UNCHANGED <<txn, torn>>
    PROVE  Rest'
<1> USE Writers DEF Rest, At
<1>1. RowsOK'
  BY DEF RowsOK
<1>2. ASSUME NEW r \in Sessions
      PROVE  OwnRows(r)'
  <2>1. CASE r = s
    BY <2>1 DEF OwnRowsOK, OwnRows, OwnsOne
  <2>2. CASE r # s
    BY <2>2 DEF OwnRowsOK, OwnRows, OwnsOne
  <2> QED BY <2>1, <2>2
<1>3. ASSUME NEW r \in Sessions
      PROVE  Target(r)'
  <2>1. CASE r = s
    BY <2>1 DEF TargetsOK, Target, Live
  <2>2. CASE r # s
    BY <2>2 DEF TargetsOK, Target, Live
  <2> QED BY <2>1, <2>2
<1>4. CodesOK'
  BY DEF CodesOK, Replacing
<1>5. SealsOK'
  BY DEF SealsOK, SealOf
<1>6. SplitWhole' /\ SupersededIsReplaced'
  BY DEF SplitWhole, SupersededIsReplaced, Live, Visible
<1> QED BY <1>1, <1>2, <1>3, <1>4, <1>5, <1>6 DEF OwnRowsOK, TargetsOK

\* Reserving a key for the entry of an approval or of a manual entry.
LEMMA ReserveStep ==
    ASSUME TypeOK, KeysOK, Rest, NEW s \in Sessions, NEW t \in TxnIds,
           At(s, "idle"), UnusedTxn(t),
           txn' = [txn EXCEPT ![t] = [NoTxn EXCEPT !.by = s]],
           request'[s].pc \in {"approve", "manual"}, request'[s].t = t,
           \A r \in Sessions \ {s} : request'[r] = request[r],
           UNCHANGED torn
    PROVE  Rest'
<1> USE Writers DEF Rest, At
<1>1. /\ txn'[t] = [NoTxn EXCEPT !.by = s]
      /\ \A u \in TxnIds \ {t} : txn'[u] = txn[u]
      /\ txn[t].st = "none" /\ txn[t].by = None
  BY DEF TypeOK, UnusedTxn
<1>2. \A u \in TxnIds : txn[u].by # s
  BY DEF RowsOK
<1>3. txn'[t].st = "none" /\ txn'[t].by = s /\ txn'[t].rev = FALSE
  BY <1>1 DEF NoTxn
<1>4. RowsOK'
  BY <1>1, <1>2, <1>3 DEF RowsOK
<1>5. ASSUME NEW r \in Sessions
      PROVE  OwnRows(r)'
  <2>1. CASE r = s
    BY <1>1, <1>2, <1>3, <2>1 DEF OwnRowsOK, OwnRows, OwnsOne
  <2>2. CASE r # s
    BY <1>1, <1>2, <1>3, <2>2 DEF OwnRowsOK, OwnRows, OwnsOne
  <2> QED BY <2>1, <2>2
<1>6. ASSUME NEW r \in Sessions
      PROVE  Target(r)'
  <2>1. CASE r = s
    BY <1>1, <1>2, <1>3, <2>1 DEF TargetsOK, Target, Live
  <2>2. CASE r # s
    BY <1>1, <1>2, <1>3, <2>2 DEF TargetsOK, Target, Live
  <2> QED BY <2>1, <2>2
<1>7. CodesOK'
  BY <1>1, <1>2, <1>3 DEF CodesOK, Replacing
<1>8. SealsOK'
  BY <1>1, <1>2, <1>3 DEF SealsOK, SealOf
<1>9. SplitWhole' /\ SupersededIsReplaced'
  BY <1>1, <1>2, <1>3 DEF SplitWhole, SupersededIsReplaced, Live, Visible
<1> QED BY <1>4, <1>5, <1>6, <1>7, <1>8, <1>9 DEF OwnRowsOK, TargetsOK

\* A rollback takes back all that the session has not committed, and nothing else;
\* request'[s] is over, or goes on without an entry (TrainingRollback).
LEMMA RollbackStep ==
    ASSUME TypeOK, KeysOK, Rest, NEW s \in Sessions,
           txn' = RolledBack(s),
           \/ request'[s].pc = "idle"
           \/ request'[s].pc = "published" /\ request'[s].t = None,
           \A r \in Sessions \ {s} : request'[r] = request[r],
           torn \subseteq torn',
           At(s, "published") /\ request[s].t # None => request[s].t \in torn'
    PROVE  Rest'
<1> USE Writers DEF Rest, At
<1>1. /\ \A u \in TxnIds : txn[u].by = s => txn'[u] = NoTxn
      /\ \A u \in TxnIds : txn[u].by # s => txn'[u] = txn[u]
  BY DEF RolledBack
<1>2. /\ NoTxn.st = "none" /\ NoTxn.by = None /\ NoTxn.rev = FALSE
      /\ NoTxn.part = 0 /\ NoTxn.base = NoCode
  BY DEF NoTxn
<1>3. RowsOK'
  BY <1>1, <1>2 DEF RowsOK
<1>4. ASSUME NEW r \in Sessions
      PROVE  OwnRows(r)'
  <2>1. CASE r = s
    BY <1>1, <1>2, <2>1 DEF OwnRowsOK, OwnRows, OwnsOne
  <2>2. CASE r # s
    BY <1>1, <1>2, <2>2, OtherRows DEF OwnRowsOK
  <2> QED BY <2>1, <2>2
<1>5. ASSUME NEW r \in Sessions
      PROVE  Target(r)'
  <2>1. CASE r = s
    BY <1>1, <1>2, <2>1 DEF TargetsOK, Target, Live
  <2>2. CASE r # s
    <3>1. Target(r) /\ (At(r, "edit") => txn[request[r].t].by = None)
      BY DEF TargetsOK, Target, Live
    <3>2. \A q \in Sessions : At(q, "edit")' => At(q, "edit") /\ request'[q].t = request[q].t
      OBVIOUS
    <3>3. /\ \A u \in TxnIds : txn'[u].by = r <=> txn[u].by = r
          /\ \A u \in TxnIds : txn[u].by \in {r, None} => txn'[u] = txn[u]
      BY <1>1, <1>2, <2>2
    <3>4. \A u \in TxnIds : txn[u].st # "none" => txn'[u].st # "none" \/ txn[u].by # None
      BY <1>1
    <3>5. request'[r] = request[r]
      BY <2>2
    <3> QED BY <3>1, <3>2, <3>3, <3>4, <3>5, OtherTarget
  <2> QED BY <2>1, <2>2
<1>6. CodesOK'
  BY <1>1, <1>2 DEF CodesOK, Replacing
<1>7. ASSUME NEW u \in TxnIds
      PROVE  SealOf(u)'
  <2>1. CASE txn[u].by = s
    BY <1>1, <1>2, <2>1 DEF SealOf
  <2>2. CASE txn[u].by # s
    <3>1. SealOf(u) /\ txn'[u] = txn[u]
      BY <1>1, <2>2 DEF SealsOK
    <3>2. ASSUME NEW r \in Sessions, At(r, "published"), request[r].t = u
          PROVE  \/ txn[u].by = None /\ u \in torn'
                 \/ request'[r] = request[r]
      BY <3>2, ConstantsAssumption DEF TargetsOK, Target
    <3> QED BY <2>2, <3>1, <3>2 DEF SealOf
  <2> QED BY <2>1, <2>2
<1>8. SplitWhole'
  BY <1>1, <1>2 DEF SplitWhole, Live
<1>9. SupersededIsReplaced'
  BY <1>1, <1>2 DEF SupersededIsReplaced, Visible
<1> QED BY <1>3, <1>4, <1>5, <1>6, <1>7, <1>8, <1>9 DEF OwnRowsOK, TargetsOK, SealsOK

\* Inserting the entry of an approval (flushed) or of a manual entry (committed) for a
\* code that is neither taken nor in doubt.
LEMMA InsertStep ==
    ASSUME TypeOK, KeysOK, Rest, NEW s \in Sessions, NEW t \in TxnIds, NEW c \in Codes,
           request[s].pc \in {"approve", "manual"}, request[s].t = t,
           \A u \in TxnIds \ {t} : txn'[u] = txn[u],
           txn'[t].st = "approved", txn'[t].base = c, txn'[t].part = 0,
           txn'[t].rev = FALSE,
           ~InDoubt(s, c, 0), ~Taken(c, 0),
           \/ /\ txn'[t].by = s /\ txn'[t].seal = NoSeal
              /\ request'[s].pc = "flushed" /\ request'[s].t = t
           \/ /\ txn'[t].by = None
              /\ txn'[t].seal \in OwnSeals(t)
              /\ request'[s].pc = "idle",
           \A r \in Sessions \ {s} : request'[r] = request[r],
           UNCHANGED torn
    PROVE  Rest'
<1> USE Writers DEF Rest, At
<1>1. /\ txn[t].by = s
      /\ \A u \in TxnIds : txn[u].by = s => u = t
      /\ txn[t].st = "none"
  BY DEF OwnRowsOK, OwnRows, OwnsOne, RowsOK
<1>2. \A u \in TxnIds \ {t} :
         ~(txn[u].st = "approved" /\ txn[u].base = c /\ txn[u].part = 0)
  BY <1>1 DEF InDoubt, Taken, Visible, HasCode, RowsOK
<1>3. RowsOK'
  BY <1>1 DEF RowsOK
<1>4. ASSUME NEW r \in Sessions
      PROVE  OwnRows(r)'
  <2>1. CASE r = s
    BY <1>1, <2>1 DEF OwnRowsOK, OwnRows, OwnsOne
  <2>2. CASE r # s
    BY <1>1, <2>2 DEF OwnRowsOK, OwnRows, OwnsOne
  <2> QED BY <2>1, <2>2
<1>5. ASSUME NEW r \in Sessions
      PROVE  Target(r)'
  <2>1. CASE r = s
    BY <1>1, <2>1 DEF TargetsOK, Target, Live
  <2>2. CASE r # s
    BY <1>1, <2>2 DEF TargetsOK, Target, Live
  <2> QED BY <2>1, <2>2
<1>6. CodesOK'
  BY <1>1, <1>2 DEF CodesOK, Replacing
<1>7. ASSUME NEW u \in TxnIds
      PROVE  SealOf(u)'
  <2>1. CASE u = t
    BY <1>1, <2>1 DEF SealOf
  <2>2. CASE u # t
    <3>1. SealOf(u) /\ txn'[u] = txn[u] /\ txn[u].by # s
      BY <1>1, <2>2 DEF SealsOK
    <3> QED BY <3>1 DEF SealOf
  <2> QED BY <2>1, <2>2
<1>8. SplitWhole'
  BY <1>1 DEF SplitWhole, Live
<1>9. SupersededIsReplaced'
  BY <1>1 DEF SupersededIsReplaced, Visible
<1> QED BY <1>3, <1>4, <1>5, <1>6, <1>7, <1>8, <1>9 DEF OwnRowsOK, TargetsOK, SealsOK

\* Committing the entry of an approval, sealed (ApproveCommit) or not yet (TrainingCommit).
LEMMA PublishStep ==
    ASSUME TypeOK, KeysOK, Rest, NEW s \in Sessions, NEW t \in TxnIds,
           At(s, "flushed"), request[s].t = t,
           txn'[t].st = txn[t].st, txn'[t].base = txn[t].base,
           txn'[t].part = txn[t].part, txn'[t].rev = txn[t].rev, txn'[t].by = None,
           \A u \in TxnIds \ {t} : txn'[u] = txn[u],
           \/ /\ txn'[t].seal = txn[t].seal
              /\ request'[s].pc = "published" /\ request'[s].t = t
           \/ /\ txn'[t].seal \in OwnSeals(t)
              /\ request'[s].pc = "idle",
           \A r \in Sessions \ {s} : request'[r] = request[r],
           UNCHANGED torn
    PROVE  Rest'
<1> USE Writers DEF Rest, At
<1>1. /\ txn[t].by = s /\ txn[t].part = 0
      /\ \A u \in TxnIds : txn[u].by = s => u = t
      /\ txn[t].st = "approved"
  BY DEF OwnRowsOK, OwnRows, OwnsOne, RowsOK
<1>2. RowsOK'
  BY <1>1 DEF RowsOK
<1>3. ASSUME NEW r \in Sessions
      PROVE  OwnRows(r)'
  <2>1. CASE r = s
    BY <1>1, <2>1 DEF OwnRowsOK, OwnRows, OwnsOne
  <2>2. CASE r # s
    BY <1>1, <2>2, OtherRows DEF OwnRowsOK
  <2> QED BY <2>1, <2>2
<1>4. ASSUME NEW r \in Sessions
      PROVE  Target(r)'
  <2>1. CASE r = s
    BY <1>1, <2>1 DEF TargetsOK, Target, Live
  <2>2. CASE r # s
    BY <1>1, <2>2, OtherTarget DEF TargetsOK
  <2> QED BY <2>1, <2>2
<1>5. CodesOK'
  BY <1>1 DEF CodesOK, Replacing
<1>6. ASSUME NEW u \in TxnIds
      PROVE  SealOf(u)'
  <2>1. CASE u = t
    BY <1>1, <2>1 DEF SealsOK, SealOf
  <2>2. CASE u # t
    <3>1. SealOf(u) /\ txn'[u] = txn[u] /\ txn[u].by # s
      BY <1>1, <2>2 DEF SealsOK
    <3> QED BY <3>1 DEF SealOf
  <2> QED BY <2>1, <2>2
<1>7. SplitWhole'
  BY <1>1 DEF SplitWhole, Live
<1>8. SupersededIsReplaced'
  BY <1>1 DEF SupersededIsReplaced, Visible
<1> QED BY <1>2, <1>3, <1>4, <1>5, <1>6, <1>7, <1>8 DEF OwnRowsOK, TargetsOK, SealsOK

\* Sealing an entry that is committed already (ApproveCommitLate).
LEMMA SealStep ==
    ASSUME TypeOK, KeysOK, Rest, NEW s \in Sessions, NEW t \in TxnIds,
           At(s, "published"), request[s].t = t,
           txn[t].st \in {"approved", "superseded"},
           NEW seal \in {Recalculated(t), FirstSeal(t, "cents")},
           txn' = [txn EXCEPT ![t].seal = seal],
           request'[s].pc = "idle",
           \A r \in Sessions \ {s} : request'[r] = request[r],
           UNCHANGED torn
    PROVE  Rest'
<1> USE Writers DEF Rest, At
<1>1. /\ \A u \in TxnIds \ {t} : txn'[u] = txn[u]
      /\ txn'[t].st = txn[t].st /\ txn'[t].by = txn[t].by /\ txn'[t].base = txn[t].base
      /\ txn'[t].part = txn[t].part /\ txn'[t].rev = txn[t].rev
      /\ txn'[t].seal = seal
  BY DEF TypeOK, TxnRow
<1>2. txn[t].by = None
  BY DEF TargetsOK, Target
<1>3. RowsOK'
  BY <1>1, <1>2 DEF RowsOK
<1>4. ASSUME NEW r \in Sessions
      PROVE  OwnRows(r)'
  <2>1. CASE r = s
    BY <2>1 DEF OwnRows
  <2>2. CASE r # s
    BY <1>1, <1>2, <2>2, OtherRows DEF OwnRowsOK
  <2> QED BY <2>1, <2>2
<1>5. ASSUME NEW r \in Sessions
      PROVE  Target(r)'
  <2>1. CASE r = s
    BY <2>1 DEF Target
  <2>2. CASE r # s
    <3>1. Target(r) /\ request'[r] = request[r]
      BY <2>2 DEF TargetsOK
    <3> QED BY <1>1, <1>2, <3>1, OtherTarget
  <2> QED BY <2>1, <2>2
<1>6. CodesOK'
  BY <1>1, <1>2 DEF CodesOK, Replacing
<1>7. ASSUME NEW u \in TxnIds
      PROVE  SealOf(u)'
  <2>1. CASE u = t
    <3>1. txn[t].st = "approved" => seal = FirstSeal(t, "cents")
      BY DEF RowsOK, HashOf, Recalculated, FirstSeal
    <3>2. txn'[t].st = "approved" => txn'[t].seal \in OwnSeals(t)
      BY <1>1, <3>1, SealType DEF OwnSeals
    <3> QED BY <2>1, <3>2 DEF SealOf
  <2>2. CASE u # t
    BY <1>1, <2>2 DEF SealsOK, SealOf, RowsOK
  <2> QED BY <2>1, <2>2
<1>8. SplitWhole'
  BY <1>1 DEF SplitWhole, Live
<1>9. SupersededIsReplaced'
  BY <1>1 DEF SupersededIsReplaced, Visible
<1> QED BY <1>3, <1>4, <1>5, <1>6, <1>7, <1>8, <1>9 DEF OwnRowsOK, TargetsOK, SealsOK

\* Deleting the entry of an undone approval.
LEMMA DeleteStep ==
    ASSUME TypeOK, KeysOK, Rest, NEW s \in Sessions, NEW t \in TxnIds,
           At(s, "undo"), request[s].t = t, ~LockedTxn(t),
           txn' = [txn EXCEPT ![t].st = "deleted"],
           request'[s].pc = "idle",
           \A r \in Sessions \ {s} : request'[r] = request[r],
           UNCHANGED torn
    PROVE  Rest'
<1> USE Writers DEF Rest, At
<1>1. /\ \A u \in TxnIds \ {t} : txn'[u] = txn[u]
      /\ txn'[t].st = "deleted" /\ txn'[t].by = txn[t].by /\ txn'[t].base = txn[t].base
      /\ txn'[t].part = txn[t].part /\ txn'[t].rev = txn[t].rev
  BY DEF TypeOK, TxnRow
<1>2. txn[t].by = None /\ txn[t].st # "none" /\ txn[t].part = 0
  BY DEF TargetsOK, Target
<1>3. RowsOK'
  BY <1>1, <1>2 DEF RowsOK
<1>4. ASSUME NEW r \in Sessions
      PROVE  OwnRows(r)'
  <2>1. CASE r = s
    BY <2>1 DEF OwnRows
  <2>2. CASE r # s
    BY <1>1, <1>2, <2>2, OtherRows DEF OwnRowsOK
  <2> QED BY <2>1, <2>2
<1>5. ASSUME NEW r \in Sessions
      PROVE  Target(r)'
  <2>1. CASE r = s
    BY <2>1 DEF Target
  <2>2. CASE r # s
    <3>1. Target(r) /\ request'[r] = request[r]
      BY <2>2 DEF TargetsOK
    <3>2. At(r, "edit") => request[r].t # t
      BY DEF LockedTxn
    <3> QED BY <1>1, <1>2, <3>1, <3>2, OtherTarget
  <2> QED BY <2>1, <2>2
<1>6. CodesOK'
  BY <1>1, <1>2 DEF CodesOK, Replacing
<1>7. ASSUME NEW u \in TxnIds
      PROVE  SealOf(u)'
  <2>1. CASE u = t
    BY <1>1, <2>1 DEF SealOf
  <2>2. CASE u # t
    BY <1>1, <2>2 DEF SealsOK, SealOf, RowsOK
  <2> QED BY <2>1, <2>2
<1>8. SplitWhole'
  BY <1>1, <1>2 DEF SplitWhole, Live
<1>9. SupersededIsReplaced'
  BY <1>1, <1>2 DEF SupersededIsReplaced, Visible
<1> QED BY <1>3, <1>4, <1>5, <1>6, <1>7, <1>8, <1>9 DEF OwnRowsOK, TargetsOK, SealsOK

\* Reserving the keys for the parts of a split.
LEMMA ReservePartsStep ==
    ASSUME TypeOK, KeysOK, Rest, NEW s \in Sessions,
           At(s, "idle"),
           \A t \in TxnIds : txn'[t].by # s => txn'[t] = txn[t],
           \A t \in TxnIds : txn'[t].by = s =>
               /\ UnusedTxn(t)
               /\ txn'[t].st = "none" /\ txn'[t].rev = FALSE /\ txn'[t].part # 0,
           \A i \in 1 .. Parts : \E t \in TxnIds : txn'[t].by = s /\ txn'[t].part = i,
           \A t, u \in TxnIds : /\ txn'[t].by = s /\ txn'[u].by = s
                                /\ txn'[t].part = txn'[u].part
                                => t = u,
           request'[s].pc = "split",
           \A r \in Sessions \ {s} : request'[r] = request[r],
           UNCHANGED torn
    PROVE  Rest'
<1> USE Writers DEF Rest, At
<1>1. /\ \A t \in TxnIds : txn'[t].by = s => txn[t].st = "none" /\ txn[t].by = None
      /\ \A u \in TxnIds : txn[u].by # s
  BY DEF UnusedTxn, RowsOK
<1>2. RowsOK'
  BY <1>1 DEF RowsOK
<1>3. ASSUME NEW r \in Sessions
      PROVE  OwnRows(r)'
  <2>1. CASE r = s
    BY <1>1, <2>1 DEF OwnRows
  <2>2. CASE r # s
    <3>1. OwnRows(r) /\ request'[r] = request[r]
      BY <2>2 DEF OwnRowsOK
    <3>2. /\ \A u \in TxnIds : txn'[u].by = r <=> txn[u].by = r
          /\ \A u \in TxnIds : txn[u].by = r => txn'[u] = txn[u]
      BY <1>1, <2>2
    <3> QED BY <3>1, <3>2, OtherRows
  <2> QED BY <2>1, <2>2
<1>4. ASSUME NEW r \in Sessions
      PROVE  Target(r)'
  <2>1. CASE r = s
    BY <2>1 DEF Target
  <2>2. CASE r # s
    BY <1>1, <2>2 DEF TargetsOK, Target, Live
  <2> QED BY <2>1, <2>2
<1>5. CodesOK'
  BY <1>1 DEF CodesOK, Replacing
<1>6. ASSUME NEW u \in TxnIds
      PROVE  SealOf(u)'
  BY <1>1 DEF SealsOK, SealOf, RowsOK
<1>7. SplitWhole'
  BY <1>1 DEF SplitWhole, Live
<1>8. SupersededIsReplaced'
  BY <1>1 DEF SupersededIsReplaced, Visible
<1> QED BY <1>2, <1>3, <1>4, <1>5, <1>6, <1>7, <1>8 DEF OwnRowsOK, TargetsOK, SealsOK

\* Flushing the sealed entries of a split.
LEMMA InsertPartsStep ==
    ASSUME TypeOK, KeysOK, Rest, NEW s \in Sessions, NEW b \in Codes,
           At(s, "split"),
           b = NoCode \/ \A i \in 1 .. Parts : ~InDoubt(s, b, i) /\ ~Taken(b, i),
           \A t \in TxnIds : txn[t].by = s =>
               /\ txn'[t].st = "approved" /\ txn'[t].by = s /\ txn'[t].base = b
               /\ txn'[t].part = txn[t].part /\ txn'[t].rev = FALSE
               /\ txn'[t].seal \in OwnSeals(t),
           \A t \in TxnIds : txn[t].by # s => txn'[t] = txn[t],
           request'[s].pc = "split_flushed",
           \A r \in Sessions \ {s} : request'[r] = request[r],
           UNCHANGED torn
    PROVE  Rest'
<1> USE Writers DEF Rest, At
<1>1. \A t \in TxnIds : txn[t].by = s => txn[t].st = "none" /\ txn[t].part \in 1 .. Parts
  <2>1. \A t \in TxnIds : txn[t].part \in 0 .. Parts
    BY DEF TypeOK, TxnRow
  <2>2. \A t \in TxnIds : txn[t].by = s => txn[t].st = "none" /\ txn[t].part # 0
    BY DEF RowsOK, OwnRowsOK, OwnRows
  <2> QED BY <2>1, <2>2, ConstantsAssumption
<1>2. ASSUME NEW t \in TxnIds, NEW u \in TxnIds, b # NoCode,
             txn[t].by = s, txn[u].by # s, txn[u].st = "approved", txn[u].base = b,
             txn[u].part = txn[t].part
      PROVE  FALSE
  BY <1>1, <1>2 DEF InDoubt, Taken, Visible, HasCode, RowsOK
<1>3. RowsOK'
  <2> SUFFICES ASSUME NEW t \in TxnIds
               PROVE  /\ txn'[t].st = "approved" => txn'[t].rev = FALSE
                      /\ txn'[t].st = "superseded" => txn'[t].rev = TRUE /\ txn'[t].by = None
                      /\ txn'[t].by # None =>
                          \/ /\ txn'[t].st = "none"
                             /\ request'[txn'[t].by].pc \in {"approve", "manual", "split"}
                          \/ /\ txn'[t].st = "approved"
                             /\ request'[txn'[t].by].pc \in {"flushed", "split_flushed", "edit"}
    BY DEF RowsOK
  <2>1. CASE txn[t].by = s
    BY <2>1
  <2>2. CASE txn[t].by # s
    BY <2>2 DEF RowsOK
  <2> QED BY <2>1, <2>2
<1>4. ASSUME NEW r \in Sessions
      PROVE  OwnRows(r)'
  <2>1. CASE r = s
    <3>1. OwnRows(s)
      BY DEF OwnRowsOK
    <3>2. /\ \A u \in TxnIds : txn'[u].by = s <=> txn[u].by = s
          /\ \A u \in TxnIds : txn'[u].part = txn[u].part
      OBVIOUS
    <3>3. \A i \in 1 .. Parts : \E u \in TxnIds : txn'[u].by = s /\ txn'[u].part = i
      BY <3>1, <3>2 DEF OwnRows
    <3>4. \A u, v \in TxnIds : /\ txn'[u].by = s /\ txn'[v].by = s
                               /\ txn'[u].part = txn'[v].part
                               => u = v
      BY <3>1, <3>2 DEF OwnRows
    <3>5. \A u \in TxnIds : txn'[u].by = s => txn'[u].part # 0 /\ txn'[u].base = b
      BY <3>1, <3>2 DEF OwnRows
    <3> QED BY <2>1, <3>3, <3>4, <3>5 DEF OwnRows
  <2>2. CASE r # s
    BY <2>2, OtherRows DEF OwnRowsOK
  <2> QED BY <2>1, <2>2
<1>5. ASSUME NEW r \in Sessions
      PROVE  Target(r)'
  <2>1. CASE r = s
    BY <2>1 DEF Target
  <2>2. CASE r # s
    <3>1. Target(r) /\ request'[r] = request[r]
      BY <2>2 DEF TargetsOK
    <3>2. /\ \A u \in TxnIds : txn'[u].by = txn[u].by
          /\ \A u \in TxnIds : txn[u].by # s => txn'[u] = txn[u]
      OBVIOUS
    <3>3. At(r, "edit") => txn[request[r].t].by = None
      BY <3>1 DEF Target, Live
    <3> QED BY <2>2, <3>1, <3>2, <3>3, OtherTarget
  <2> QED BY <2>1, <2>2
<1>6. CodesOK'
  <2> SUFFICES ASSUME NEW t \in TxnIds, NEW u \in TxnIds, t # u,
                      txn'[t].st = "approved", txn'[u].st = "approved",
                      txn'[t].base # NoCode,
                      txn'[t].base = txn'[u].base, txn'[t].part = txn'[u].part
               PROVE  \E r \in Sessions : Replacing(r, t, u)' \/ Replacing(r, u, t)'
    BY DEF CodesOK
  <2>1. CASE txn[t].by = s /\ txn[u].by = s
    <3>1. txn[t].part = txn[u].part
      BY <2>1
    <3>2. OwnRows(s)
      BY DEF OwnRowsOK
    <3> QED BY <2>1, <3>1, <3>2 DEF OwnRows
  <2>2. CASE txn[t].by = s /\ txn[u].by # s
    BY <1>2, <2>2
  <2>3. CASE txn[t].by # s /\ txn[u].by = s
    BY <1>2, <2>3
  <2>4. CASE txn[t].by # s /\ txn[u].by # s
    <3>1. PICK r \in Sessions : Replacing(r, t, u) \/ Replacing(r, u, t)
      BY <2>4 DEF CodesOK
    <3> QED BY <2>4, <3>1 DEF Replacing
  <2> QED BY <2>1, <2>2, <2>3, <2>4
<1>7. ASSUME NEW u \in TxnIds
      PROVE  SealOf(u)'
  BY <1>1 DEF SealsOK, SealOf, RowsOK
<1>8. \A u \in TxnIds : txn[u].by = None \/ txn'[u].by = None => txn'[u] = txn[u]
  OBVIOUS
<1>9. SplitWhole'
  <2>1. \A u \in TxnIds : Live(u)' <=> Live(u)
    BY <1>8 DEF Live
  <2> QED BY <1>8, <2>1 DEF SplitWhole, Live
<1>10. SupersededIsReplaced'
  BY <1>8 DEF SupersededIsReplaced, Visible
<1> QED BY <1>3, <1>4, <1>5, <1>6, <1>7, <1>9, <1>10 DEF OwnRowsOK, TargetsOK, SealsOK

\* Committing the parts of a split together.
LEMMA PublishPartsStep ==
    ASSUME TypeOK, KeysOK, Rest, NEW s \in Sessions,
           At(s, "split_flushed"),
           txn' = Committed(s),
           request'[s].pc = "idle",
           \A r \in Sessions \ {s} : request'[r] = request[r],
           UNCHANGED torn
    PROVE  Rest'
<1> USE Writers DEF Rest, At
<1>1. /\ \A u \in TxnIds : /\ txn'[u].st = txn[u].st /\ txn'[u].base = txn[u].base
                           /\ txn'[u].part = txn[u].part /\ txn'[u].rev = txn[u].rev
                           /\ txn'[u].seal = txn[u].seal
      /\ \A u \in TxnIds : txn[u].by = s => txn'[u].by = None
      /\ \A u \in TxnIds : txn[u].by # s => txn'[u] = txn[u]
  BY DEF Committed, TypeOK, TxnRow
<1>2. \A u \in TxnIds : txn[u].by = s => txn[u].st = "approved" /\ txn[u].part # 0
  BY DEF RowsOK, OwnRowsOK, OwnRows
<1>3. RowsOK'
  BY <1>1, <1>2 DEF RowsOK
<1>4. ASSUME NEW r \in Sessions
      PROVE  OwnRows(r)'
  <2>1. CASE r = s
    BY <2>1 DEF OwnRows
  <2>2. CASE r # s
    <3>1. OwnRows(r) /\ request'[r] = request[r]
      BY <2>2 DEF OwnRowsOK
    <3> QED BY <1>1, <2>2, <3>1, OtherRows
  <2> QED BY <2>1, <2>2
<1>5. ASSUME NEW r \in Sessions
      PROVE  Target(r)'
  <2>1. CASE r = s
    BY <2>1 DEF Target
  <2>2. CASE r # s
    <3>1. Target(r) /\ request'[r] = request[r]
      BY <2>2 DEF TargetsOK
    <3>2. \A u \in TxnIds : txn'[u].by = r <=> txn[u].by = r
      BY <1>1, <2>2
    <3> QED BY <1>1, <2>2, <3>1, <3>2, OtherTarget
  <2> QED BY <2>1, <2>2
<1>6. CodesOK'
  BY <1>1 DEF CodesOK, Replacing
<1>7. ASSUME NEW u \in TxnIds
      PROVE  SealOf(u)'
  BY <1>1 DEF SealsOK, SealOf
<1>8. SplitWhole'
  <2> SUFFICES ASSUME NEW t \in TxnIds, Live(t)', txn[t].part # 0, NEW i \in 1 .. Parts
               PROVE  \E u \in TxnIds : /\ Live(u)' /\ txn'[u].part = i
                                       /\ txn'[u].base = txn'[t].base
    BY <1>1 DEF SplitWhole
  <2>1. CASE txn[t].by = s
    <3>1. OwnRows(s)
      BY DEF OwnRowsOK
    <3>2. PICK u \in TxnIds : txn[u].by = s /\ txn[u].part = i
      BY <3>1 DEF OwnRows
    <3>3. txn[u].base = txn[t].base
      BY <2>1, <3>1, <3>2 DEF OwnRows
    <3> QED BY <1>1, <1>2, <3>2, <3>3 DEF Live
  <2>2. CASE txn[t].by # s
    <3>1. PICK u \in TxnIds : Live(u) /\ txn[u].part = i /\ txn[u].base = txn[t].base
      BY <1>1, <2>2 DEF SplitWhole, Live
    <3> QED BY <1>1, <3>1 DEF Live
  <2> QED BY <2>1, <2>2
<1>9. SupersededIsReplaced'
  BY <1>1, <1>2 DEF SupersededIsReplaced, Visible, RowsOK
<1> QED BY <1>3, <1>4, <1>5, <1>6, <1>7, <1>8, <1>9 DEF OwnRowsOK, TargetsOK, SealsOK

\* Locking the entry t of an edit and flushing its replacement u.
LEMMA ReplaceStep ==
    ASSUME TypeOK, KeysOK, Rest, NEW s \in Sessions, NEW t \in TxnIds, NEW u \in TxnIds,
           NEW amount \in Amounts,
           At(s, "idle"), Live(t), ~LockedTxn(t), UnusedTxn(u),
           txn' = [txn EXCEPT ![u] = Replacement(s, t, u, amount)],
           request'[s].pc = "edit", request'[s].t = t,
           \A r \in Sessions \ {s} : request'[r] = request[r],
           UNCHANGED torn
    PROVE  Rest'
<1> USE Writers DEF Rest, At
<1>1. /\ \A v \in TxnIds \ {u} : txn'[v] = txn[v]
      /\ txn'[u].st = "approved" /\ txn'[u].by = s /\ txn'[u].base = txn[t].base
      /\ txn'[u].part = txn[t].part /\ txn'[u].rev = FALSE
      /\ txn'[u].seal = FirstSeal(u, amount)
  BY DEF TypeOK, Replacement, Sealed, HashOf, FirstSeal, NewEntry
<1>2. /\ txn[u].st = "none" /\ txn[u].by = None
      /\ txn[t].st = "approved" /\ txn[t].by = None /\ t # u
      /\ \A v \in TxnIds : txn[v].by # s
  BY DEF UnusedTxn, Live, RowsOK
<1>3. RowsOK'
  BY <1>1, <1>2 DEF RowsOK
<1>4. ASSUME NEW r \in Sessions
      PROVE  OwnRows(r)'
  <2>1. CASE r = s
    BY <2>1 DEF OwnRows
  <2>2. CASE r # s
    <3>1. OwnRows(r) /\ request'[r] = request[r]
      BY <2>2 DEF OwnRowsOK
    <3> QED BY <1>1, <1>2, <2>2, <3>1, OtherRows
  <2> QED BY <2>1, <2>2
<1>5. ASSUME NEW r \in Sessions
      PROVE  Target(r)'
  <2>1. CASE r = s
    <3>1. \A q \in Sessions \ {s} : At(q, "edit") => request[q].t # t
      BY DEF LockedTxn
    <3> QED BY <1>1, <1>2, <2>1, <3>1 DEF Target, Live
  <2>2. CASE r # s
    <3>1. Target(r) /\ request'[r] = request[r]
      BY <2>2 DEF TargetsOK
    <3>2. At(r, "edit") => request[r].t # t
      BY DEF LockedTxn
    <3>3. \A v \in TxnIds : txn'[v].by = r <=> txn[v].by = r
      BY <1>1, <1>2, <2>2
    <3> QED BY <1>1, <1>2, <2>2, <3>1, <3>2, <3>3 DEF Target, Live
  <2> QED BY <2>1, <2>2
<1>6. CodesOK'
  <2>1. ASSUME NEW v \in TxnIds \ {u, t}, txn[v].st = "approved", txn[t].base # NoCode,
               txn[v].base = txn[t].base, txn[v].part = txn[t].part
        PROVE  FALSE
    <3>1. PICK r \in Sessions : Replacing(r, t, v) \/ Replacing(r, v, t)
      BY <1>2, <2>1 DEF CodesOK
    <3> QED BY <1>2, <3>1 DEF Replacing, LockedTxn
  <2>2. Replacing(s, t, u)'
    BY <1>1 DEF Replacing
  <2> SUFFICES ASSUME NEW v \in TxnIds, NEW w \in TxnIds, v # w,
                      txn'[v].st = "approved", txn'[w].st = "approved",
                      txn'[v].base # NoCode,
                      txn'[v].base = txn'[w].base, txn'[v].part = txn'[w].part
               PROVE  \E r \in Sessions : Replacing(r, v, w)' \/ Replacing(r, w, v)'
    BY DEF CodesOK
  <2>3. CASE v = u
    BY <1>1, <2>1, <2>2, <2>3
  <2>4. CASE w = u
    BY <1>1, <2>1, <2>2, <2>4
  <2>5. CASE v # u /\ w # u
    <3>1. PICK r \in Sessions : Replacing(r, v, w) \/ Replacing(r, w, v)
      BY <1>1, <2>5 DEF CodesOK
    <3> QED BY <1>1, <1>2, <2>5, <3>1 DEF Replacing
  <2> QED BY <2>3, <2>4, <2>5
<1>7. ASSUME NEW v \in TxnIds
      PROVE  SealOf(v)'
  <2>1. CASE v = u
    BY <1>1, <2>1 DEF SealOf, OwnSeals
  <2>2. CASE v # u
    <3>1. SealOf(v) /\ txn'[v] = txn[v] /\ txn[v].by # s
      BY <1>1, <1>2, <2>2 DEF SealsOK
    <3> QED BY <3>1 DEF SealOf
  <2> QED BY <2>1, <2>2
<1>8. SplitWhole'
  BY <1>1, <1>2 DEF SplitWhole, Live
<1>9. SupersededIsReplaced'
  BY <1>1, <1>2 DEF SupersededIsReplaced, Visible
<1> QED BY <1>3, <1>4, <1>5, <1>6, <1>7, <1>8, <1>9 DEF OwnRowsOK, TargetsOK, SealsOK

\* What superseding does to a row.
LEMMA SupersededRow ==
    ASSUME NEW row \in TxnRow
    PROVE  /\ Superseded(row).st = "superseded" /\ Superseded(row).rev = TRUE
           /\ Superseded(row).by = row.by
           /\ Superseded(row).base = row.base /\ Superseded(row).part = row.part
BY DEF Superseded, TxnRow

\* Committing an edit: the old entry t is superseded, its replacement counts.
LEMMA SupersedeStep ==
    ASSUME TypeOK, KeysOK, Rest, NEW s \in Sessions, NEW t \in TxnIds,
           At(s, "edit"), request[s].t = t,
           txn' = [Committed(s) EXCEPT ![t] = Superseded(@)],
           request'[s].pc = "idle",
           \A r \in Sessions \ {s} : request'[r] = request[r],
           UNCHANGED torn
    PROVE  Rest'
<1> USE Writers DEF Rest, At
<1>1. PICK u \in TxnIds :
         /\ txn[u].by = s
         /\ txn[u].base = txn[t].base
         /\ txn[u].part = txn[t].part
         /\ \A v \in TxnIds : txn[v].by = s => v = u
  BY DEF TargetsOK, Target
<1>2. /\ txn[t].st = "approved" /\ txn[t].by = None /\ t # u
      /\ txn[u].st = "approved" /\ txn[u].rev = FALSE
  BY <1>1 DEF TargetsOK, Target, Live, RowsOK
<1>3. /\ \A v \in TxnIds \ {t, u} : txn'[v] = txn[v]
      /\ txn'[t].st = "superseded" /\ txn'[t].rev = TRUE
      /\ txn'[t].by = None /\ txn'[t].base = txn[t].base /\ txn'[t].part = txn[t].part
      /\ txn'[u].st = "approved" /\ txn'[u].rev = FALSE /\ txn'[u].by = None
      /\ txn'[u].base = txn[u].base /\ txn'[u].part = txn[u].part
      /\ txn'[u].seal = txn[u].seal
  <2>1. /\ txn'[t] = Superseded(txn[t])
        /\ txn'[u] = [txn[u] EXCEPT !.by = None]
        /\ \A v \in TxnIds \ {t, u} : txn'[v] = txn[v]
    BY <1>1, <1>2 DEF Committed
  <2>2. txn[t] \in TxnRow /\ txn[u] \in TxnRow
    BY DEF TypeOK
  <2>3. /\ txn'[t].st = "superseded" /\ txn'[t].rev = TRUE /\ txn'[t].by = txn[t].by
        /\ txn'[t].base = txn[t].base /\ txn'[t].part = txn[t].part
    <3>1. /\ Superseded(txn[t]).st = "superseded" /\ Superseded(txn[t]).rev = TRUE
          /\ Superseded(txn[t]).by = txn[t].by
          /\ Superseded(txn[t]).base = txn[t].base
          /\ Superseded(txn[t]).part = txn[t].part
      BY ONLY <2>2, SupersededRow
    <3> QED BY ONLY <2>1, <3>1
  <2>4. /\ txn'[u].st = txn[u].st /\ txn'[u].rev = txn[u].rev /\ txn'[u].by = None
        /\ txn'[u].base = txn[u].base /\ txn'[u].part = txn[u].part
        /\ txn'[u].seal = txn[u].seal
    BY <2>1, <2>2 DEF TxnRow
  <2> QED BY <1>2, <2>1, <2>3, <2>4
<1>4. RowsOK'
  BY <1>1, <1>2, <1>3 DEF RowsOK
<1>5. ASSUME NEW r \in Sessions
      PROVE  OwnRows(r)'
  <2>1. CASE r = s
    BY <2>1 DEF OwnRows
  <2>2. CASE r # s
    <3>1. OwnRows(r) /\ request'[r] = request[r]
      BY <2>2 DEF OwnRowsOK
    <3> QED BY <1>1, <1>2, <1>3, <2>2, <3>1, OtherRows
  <2> QED BY <2>1, <2>2
<1>6. ASSUME NEW r \in Sessions
      PROVE  Target(r)'
  <2>1. CASE r = s
    BY <2>1 DEF Target
  <2>2. CASE r # s
    <3>1. Target(r) /\ request'[r] = request[r]
      BY <2>2 DEF TargetsOK
    <3>2. At(r, "edit") => request[r].t # t /\ request[r].t # u
      BY <1>1, <2>2 DEF TargetsOK, Target, Live
    <3>3. \A v \in TxnIds : txn'[v].by = r <=> txn[v].by = r
      BY <1>1, <1>2, <1>3, <2>2
    <3>4. \A v \in TxnIds : txn[v].by \in {r, None} =>
             /\ txn'[v].by = txn[v].by
             /\ txn'[v].base = txn[v].base /\ txn'[v].part = txn[v].part
      BY <1>1, <1>2, <1>3, <2>2
    <3>5. \A v \in TxnIds : txn[v].st # "none" => txn'[v].st # "none" \/ txn[v].by # None
      BY <1>3
    <3>6. At(r, "edit") => txn'[request[r].t].st = txn[request[r].t].st
      BY <1>3, <3>2
    <3> QED BY <2>2, <3>1, <3>3, <3>4, <3>5, <3>6, OtherTarget
  <2> QED BY <2>1, <2>2
<1>7. CodesOK'
  <2> SUFFICES ASSUME NEW v \in TxnIds, NEW w \in TxnIds, v # w,
                      txn'[v].st = "approved", txn'[w].st = "approved",
                      txn'[v].base # NoCode,
                      txn'[v].base = txn'[w].base, txn'[v].part = txn'[w].part
               PROVE  \E r \in Sessions : Replacing(r, v, w)' \/ Replacing(r, w, v)'
    BY DEF CodesOK
  <2>1. v # t /\ w # t
    BY <1>3
  <2>2. PICK r \in Sessions : Replacing(r, v, w) \/ Replacing(r, w, v)
    BY <1>1, <1>2, <1>3, <2>1 DEF CodesOK
  <2>3. r # s
    BY <2>1, <2>2 DEF Replacing
  <2> QED BY <1>1, <1>2, <1>3, <2>1, <2>2, <2>3 DEF Replacing
<1>8. ASSUME NEW v \in TxnIds
      PROVE  SealOf(v)'
  <2>1. SealOf(v)
    BY DEF SealsOK
  <2>2. CASE v = t
    BY <1>3, <2>2 DEF SealOf
  <2>3. CASE v = u
    BY <1>1, <1>2, <1>3, <2>1, <2>3 DEF SealOf
  <2>4. CASE v # t /\ v # u
    BY <1>1, <1>3, <2>1, <2>4 DEF SealOf
  <2> QED BY <2>2, <2>3, <2>4
<1>9. SplitWhole'
  <2>1. \A v \in TxnIds : Live(v)' <=> (Live(v) /\ v # t) \/ v = u
    BY <1>1, <1>2, <1>3 DEF Live
  <2> SUFFICES ASSUME NEW v \in TxnIds, Live(v)', txn'[v].part # 0, NEW i \in 1 .. Parts
               PROVE  \E w \in TxnIds : /\ Live(w)' /\ txn'[w].part = i
                                       /\ txn'[w].base = txn'[v].base
    BY DEF SplitWhole
  <2>2. PICK x \in TxnIds : Live(x) /\ txn[x].part = txn'[v].part /\ txn[x].base = txn'[v].base
    BY <1>1, <1>2, <1>3, <2>1 DEF Live
  <2>3. PICK w \in TxnIds : Live(w) /\ txn[w].part = i /\ txn[w].base = txn[x].base
    BY <2>2 DEF SplitWhole
  <2>4. CASE w = t
    BY <1>1, <1>3, <2>1, <2>2, <2>3, <2>4
  <2>5. CASE w # t
    BY <1>1, <1>3, <2>1, <2>2, <2>3, <2>5 DEF Live
  <2> QED BY <2>4, <2>5
<1>10. SupersededIsReplaced'
  <2> SUFFICES ASSUME NEW v \in TxnIds, Visible(v)', txn'[v].st = "superseded"
               PROVE  \E w \in TxnIds : /\ w # v /\ txn'[w].by = None
                                       /\ txn'[w].st # "none" /\ ~txn'[w].rev
                                       /\ txn'[w].base = txn'[v].base
                                       /\ txn'[w].part = txn'[v].part
    BY DEF SupersededIsReplaced
  <2>1. CASE v = t
    BY <1>1, <1>2, <1>3, <2>1
  <2>2. CASE v # t
    <3>1. v # u /\ Visible(v) /\ txn[v].st = "superseded" /\ txn'[v] = txn[v]
      BY <1>3, <2>2 DEF Visible
    <3>2. PICK w \in TxnIds : /\ w # v /\ txn[w].by = None
                              /\ txn[w].st # "none" /\ ~txn[w].rev
                              /\ txn[w].base = txn[v].base /\ txn[w].part = txn[v].part
      BY <3>1 DEF SupersededIsReplaced
    <3>3. CASE w = t
      BY <1>1, <1>2, <1>3, <3>1, <3>2, <3>3
    <3>4. CASE w # t
      BY <1>1, <1>3, <3>1, <3>2, <3>4
    <3> QED BY <3>3, <3>4
  <2> QED BY <2>1, <2>2
<1> QED BY <1>4, <1>5, <1>6, <1>7, <1>8, <1>9, <1>10 DEF OwnRowsOK, TargetsOK, SealsOK

-----------------------------------------------------------------------------
(* The steps of the requests are these steps *)

\* Rejecting and clearing touch neither the ledger nor a request.
LEMMA InboxKeeps ==
    ASSUME TypeOK, KeysOK, Rest
    PROVE  /\ \A p \in PendingIds : Reject(p) => Rest'
           /\ \A P \in SUBSET PendingIds : ClearHistory(P) => Rest'
<1>1. UNCHANGED <<txn, request, torn>> => Rest'
  BY DEF Rest, RowsOK, OwnRowsOK, OwnRows, OwnsOne, TargetsOK, Target, CodesOK, Replacing,
         SealsOK, SealOf, SplitWhole, SupersededIsReplaced, Live, Visible, At
<1> QED BY <1>1 DEF Reject, ClearHistory

\* A request that is rolled back, for whatever reason.
LEMMA RollbackKeeps ==
    ASSUME TypeOK, KeysOK, Rest, NEW s \in Sessions, Rollback(s)
    PROVE  Rest'
<1>1. /\ request'[s].pc = "idle"
      /\ \A r \in Sessions \ {s} : request'[r] = request[r]
  BY EndEffect DEF Rollback, Idle
<1>2. /\ torn \subseteq torn'
      /\ At(s, "published") /\ request[s].t # None => request[s].t \in torn'
  BY DEF Rollback
<1> QED BY <1>1, <1>2, RollbackStep DEF Rollback

\* The two steps of an ingestion keep the invariant.
LEMMA IngestKeeps ==
    ASSUME TypeOK, KeysOK, Rest, NEW s \in Sessions
    PROVE  /\ \A r \in Receipts : IngestCheck(s, r) => Rest'
           /\ IngestInsert(s) => Rest'
<1>1. ASSUME NEW r \in Receipts, IngestCheck(s, r)
      PROVE  Rest'
  <2>1. PICK p \in PendingIds : Begin(s, "ingest", p, None, r)
    BY <1>1 DEF IngestCheck
  <2>2. /\ request'[s] = [pc |-> "ingest", p |-> p, t |-> None, code |-> r]
        /\ \A q \in Sessions \ {s} : request'[q] = request[q]
    BY <2>1, BeginEffect DEF Codes, Pc
  <2> QED BY <1>1, <2>2, QuietStep DEF IngestCheck, At
<1>2. ASSUME IngestInsert(s)
      PROVE  Rest'
  <2>1. /\ request'[s].pc = "idle"
        /\ \A q \in Sessions \ {s} : request'[q] = request[q]
    BY <1>2, EndEffect DEF IngestInsert, Idle
  <2> QED BY <1>2, <2>1, QuietStep DEF IngestInsert, At
<1> QED BY <1>1, <1>2

\* The steps of a correction of an inbox row keep the invariant.
LEMMA CorrectKeeps ==
    ASSUME TypeOK, KeysOK, Rest, NEW s \in Sessions
    PROVE  /\ \A p \in PendingIds : CorrectRead(s, p) => Rest'
           /\ EditTx(s) => Rest'
           /\ Reparse(s) => Rest'
           /\ CorrectStale(s) => Rest'
<1>1. ASSUME NEW p \in PendingIds, CorrectRead(s, p)
      PROVE  Rest'
  <2>1. /\ request'[s] = [pc |-> "correct", p |-> p, t |-> None, code |-> NoCode]
        /\ \A q \in Sessions \ {s} : request'[q] = request[q]
    BY <1>1, BeginEffect DEF CorrectRead, Codes, Pc
  <2> QED BY <1>1, <2>1, QuietStep DEF CorrectRead, At
<1>2. ASSUME NEW c, SetCode(s, c)
      PROVE  Rest'
  <2>1. /\ request'[s].pc = "idle"
        /\ \A q \in Sessions \ {s} : request'[q] = request[q]
    BY <1>2, EndEffect DEF SetCode, Idle
  <2> QED BY <1>2, <2>1, QuietStep DEF SetCode, At
<1>3. CorrectStale(s) => Rest'
  BY RollbackKeeps DEF CorrectStale
<1> QED BY <1>1, <1>2, <1>3 DEF EditTx, Reparse

\* The steps of a manual entry keep the invariant.
LEMMA ManualKeeps ==
    ASSUME TypeOK, KeysOK, Rest, NEW s \in Sessions
    PROVE  /\ \A c \in Receipts : ManualCheck(s, c) => Rest'
           /\ ManualInsert(s) => Rest'
           /\ ManualRefused(s) => Rest'
<1>1. ASSUME NEW c \in Receipts, ManualCheck(s, c)
      PROVE  Rest'
  <2>1. PICK t \in TxnIds : /\ UnusedTxn(t)
                            /\ txn' = [txn EXCEPT ![t] = [NoTxn EXCEPT !.by = s]]
                            /\ Begin(s, "manual", None, t, c)
    BY <1>1 DEF ManualCheck
  <2>2. /\ request'[s] = [pc |-> "manual", p |-> None, t |-> t, code |-> c]
        /\ \A q \in Sessions \ {s} : request'[q] = request[q]
    BY <2>1, BeginEffect DEF Codes, Pc
  <2>3. At(s, "idle") /\ UNCHANGED torn
    BY <1>1 DEF ManualCheck
  <2>4. request'[s].pc \in {"approve", "manual"} /\ request'[s].t = t
    BY <2>2
  <2> QED BY <2>1, <2>2, <2>3, <2>4, ReserveStep
<1>2. ASSUME ManualInsert(s)
      PROVE  Rest'
  <2>0. PICK amount \in Amounts : txn' = [txn EXCEPT ![request[s].t] = ManualEntry(request[s].t, request[s].code, amount)]
    BY <1>2 DEF ManualInsert
  <2> DEFINE t == request[s].t
             c == request[s].code
             row == ManualEntry(t, c, amount)
  <2>1. /\ request'[s].pc = "idle"
        /\ \A q \in Sessions \ {s} : request'[q] = request[q]
    BY <1>2, EndEffect DEF ManualInsert, Idle
  <2>2. t \in TxnIds
    BY <1>2 DEF KeysOK, ManualInsert, At
  <2>3. c \in Codes
    BY DEF TypeOK, Request
  <2>4. /\ row.st = "approved" /\ row.base = c /\ row.part = 0 /\ row.rev = FALSE
        /\ row.by = None
        /\ row.seal = FirstSeal(t, amount)
    BY DEF ManualEntry, Sealed, HashOf, FirstSeal, NewEntry
  <2>5. /\ request[s].pc = "manual"
        /\ txn'[t] = row /\ \A u \in TxnIds \ {t} : txn'[u] = txn[u]
        /\ ~InDoubt(s, c, 0) /\ ~Taken(c, 0) /\ UNCHANGED torn
    BY <1>2, <2>0, <2>2 DEF ManualInsert, At, TypeOK
  <2>6. txn'[t].seal \in OwnSeals(t)
    BY <2>4, <2>5 DEF OwnSeals
  <2> QED BY <2>1, <2>2, <2>3, <2>4, <2>5, <2>6, InsertStep
<1>3. ManualRefused(s) => Rest'
  BY RollbackKeeps DEF ManualRefused
<1> QED BY <1>1, <1>2, <1>3

\* The lock, the insert and the refusals of an approval keep the invariant.
LEMMA ApproveKeeps ==
    ASSUME TypeOK, KeysOK, Rest, NEW s \in Sessions
    PROVE  /\ \A p \in PendingIds : ApproveLock(s, p) => Rest'
           /\ ApproveInsert(s) => Rest'
           /\ ApproveRefused(s) => Rest'
           /\ ApproveStale(s) => Rest'
<1>1. ASSUME NEW p \in PendingIds, ApproveLock(s, p)
      PROVE  Rest'
  <2>1. PICK t \in TxnIds : /\ UnusedTxn(t)
                            /\ txn' = [txn EXCEPT ![t] = [NoTxn EXCEPT !.by = s]]
                            /\ Begin(s, "approve", p, t, NoCode)
    BY <1>1 DEF ApproveLock
  <2>2. /\ request'[s] = [pc |-> "approve", p |-> p, t |-> t, code |-> NoCode]
        /\ \A q \in Sessions \ {s} : request'[q] = request[q]
    BY <2>1, BeginEffect DEF Codes, Pc
  <2>3. At(s, "idle") /\ UNCHANGED torn
    BY <1>1 DEF ApproveLock
  <2>4. request'[s].pc \in {"approve", "manual"} /\ request'[s].t = t
    BY <2>2
  <2> QED BY <2>1, <2>2, <2>3, <2>4, ReserveStep
<1>2. ASSUME ApproveInsert(s)
      PROVE  Rest'
  <2> DEFINE t == request[s].t
             c == pending[request[s].p].code
             row == NewEntry(s, c, 0, pending[request[s].p].receipt)
  <2>1. /\ request'[s].pc = "flushed" /\ request'[s].t = t
        /\ \A q \in Sessions \ {s} : request'[q] = request[q]
    BY <1>2, AdvanceEffect DEF ApproveInsert, Pc
  <2>2. t \in TxnIds /\ c \in Codes
    BY <1>2 DEF TypeOK, KeysOK, PendingRow, ApproveInsert, At
  <2>3. /\ row.st = "approved" /\ row.base = c /\ row.part = 0 /\ row.rev = FALSE
        /\ row.by = s /\ row.seal = NoSeal
    BY DEF NewEntry
  <2>4. /\ request[s].pc = "approve"
        /\ txn'[t] = row /\ \A u \in TxnIds \ {t} : txn'[u] = txn[u]
        /\ ~InDoubt(s, c, 0) /\ ~Taken(c, 0) /\ UNCHANGED torn
    BY <1>2, <2>2 DEF ApproveInsert, At, TypeOK
  <2> QED BY <2>1, <2>2, <2>3, <2>4, InsertStep
<1>3. ApproveRefused(s) => Rest'
  BY RollbackKeeps DEF ApproveRefused
<1>4. ApproveStale(s) => Rest'
  BY RollbackKeeps DEF ApproveStale
<1> QED BY <1>1, <1>2, <1>3, <1>4

\* The commit or rollback of a training hook keeps the invariant.
LEMMA TrainingKeeps ==
    ASSUME TypeOK, KeysOK, Rest, NEW s \in Sessions
    PROVE  /\ TrainingCommit(s) => Rest'
           /\ TrainingRollback(s) => Rest'
<1>1. ASSUME TrainingCommit(s)
      PROVE  Rest'
  <2> DEFINE t == request[s].t
  <2>1. /\ request'[s].pc = "published" /\ request'[s].t = t
        /\ \A q \in Sessions \ {s} : request'[q] = request[q]
    BY <1>1, AdvanceEffect DEF TrainingCommit, Pc
  <2>2. /\ t \in TxnIds /\ txn[t].by = s
        /\ \A u \in TxnIds : txn[u].by = s => u = t
    BY <1>1 DEF KeysOK, Rest, OwnRowsOK, OwnRows, OwnsOne, TrainingCommit, At
  <2>3. txn[t] \in TxnRow
    BY <2>2 DEF TypeOK
  <2>4. /\ txn'[t] = [txn[t] EXCEPT !.by = None]
        /\ \A u \in TxnIds \ {t} : txn'[u] = txn[u]
    BY <1>1, <2>2 DEF TrainingCommit, Committed
  <2>5. /\ txn'[t].st = txn[t].st /\ txn'[t].base = txn[t].base
        /\ txn'[t].part = txn[t].part /\ txn'[t].rev = txn[t].rev /\ txn'[t].by = None
        /\ txn'[t].seal = txn[t].seal
    BY <2>3, <2>4 DEF TxnRow
  <2>6. At(s, "flushed") /\ UNCHANGED torn
    BY <1>1 DEF TrainingCommit
  <2> QED BY <2>1, <2>2, <2>4, <2>5, <2>6, PublishStep
<1>2. ASSUME TrainingRollback(s)
      PROVE  Rest'
  <2>1. /\ request'[s].pc = "published" /\ request'[s].t = None
        /\ \A q \in Sessions \ {s} : request'[q] = request[q]
    BY <1>2 DEF TypeOK, Request, TrainingRollback
  <2> QED BY <1>2, <2>1, RollbackStep DEF TrainingRollback, At
<1> QED BY <1>1, <1>2

\* The two ways an approval ends well keep the invariant.
LEMMA ApproveCommitKeeps ==
    ASSUME TypeOK, KeysOK, Rest, NEW s \in Sessions
    PROVE  /\ ApproveCommit(s) => Rest'
           /\ ApproveCommitLate(s) => Rest'
<1>1. ASSUME ApproveCommit(s)
      PROVE  Rest'
  <2> DEFINE t == request[s].t
  <2>1. /\ request'[s].pc = "idle"
        /\ \A q \in Sessions \ {s} : request'[q] = request[q]
    BY <1>1, EndEffect DEF ApproveCommit, Idle
  <2>2. /\ t \in TxnIds /\ txn[t].by = s
        /\ txn[t].st = "approved" /\ txn[t].rev = FALSE
    <3>1. At(s, "flushed")
      BY <1>1 DEF ApproveCommit
    <3>2. t \in TxnIds /\ txn[t].by = s
      BY <3>1 DEF KeysOK, Rest, OwnRowsOK, OwnRows, OwnsOne, At
    <3> QED BY <3>1, <3>2, Writers DEF Rest, RowsOK, At
  <2>3. txn[t] \in TxnRow
    BY <2>2 DEF TypeOK
  <2>4. /\ txn'[t] = Sealed(t, [txn[t] EXCEPT !.by = None], "cents")
        /\ \A u \in TxnIds \ {t} : txn'[u] = txn[u]
    BY <1>1, <2>2 DEF ApproveCommit, TypeOK
  <2>5. /\ txn'[t].st = txn[t].st /\ txn'[t].base = txn[t].base
        /\ txn'[t].part = txn[t].part /\ txn'[t].rev = txn[t].rev /\ txn'[t].by = None
        /\ txn'[t].seal = FirstSeal(t, "cents")
    BY <2>2, <2>3, <2>4 DEF TxnRow, Sealed, HashOf, FirstSeal
  <2>6. At(s, "flushed") /\ UNCHANGED torn
    BY <1>1 DEF ApproveCommit
  <2>7. txn'[t].seal \in OwnSeals(t)
    BY <2>5, ConstantsAssumption DEF OwnSeals
  <2> QED BY <2>1, <2>2, <2>4, <2>5, <2>6, <2>7, PublishStep
<1>2. ASSUME ApproveCommitLate(s)
      PROVE  Rest'
  <2>1. /\ request'[s].pc = "idle"
        /\ \A q \in Sessions \ {s} : request'[q] = request[q]
    BY <1>2, EndEffect DEF ApproveCommitLate, Idle
  <2>2. CASE request[s].t = None
    BY <1>2, <2>1, <2>2, QuietStep DEF ApproveCommitLate, At
  <2>3. CASE request[s].t # None
    <3>1. request[s].t \in TxnIds
      BY <2>3, Writers
    <3>2. txn[request[s].t].st \in {"approved", "superseded"}
      BY <1>2, <2>3 DEF ApproveCommitLate, Visible
    <3>3. PICK seal \in {Recalculated(request[s].t),
                         FirstSeal(request[s].t, "cents")} :
             txn' = [txn EXCEPT ![request[s].t].seal = seal]
      BY <1>2, <2>3 DEF ApproveCommitLate
    <3>4. At(s, "published") /\ UNCHANGED torn
      BY <1>2 DEF ApproveCommitLate
    <3> QED BY <2>1, <3>1, <3>2, <3>3, <3>4, SealStep
  <2> QED BY <2>2, <2>3
<1> QED BY <1>1, <1>2

\* The steps of a split keep the invariant.
LEMMA SplitKeeps ==
    ASSUME TypeOK, KeysOK, Rest, NEW s \in Sessions
    PROVE  /\ \A p \in PendingIds : SplitLock(s, p) => Rest'
           /\ SplitInsert(s) => Rest'
           /\ SplitRefused(s) => Rest'
           /\ SplitCommit(s) => Rest'
<1>1. ASSUME NEW p \in PendingIds, SplitLock(s, p)
      PROVE  Rest'
  <2>1. PICK keys \in [1 .. Parts -> {t \in TxnIds : UnusedTxn(t)}] :
           /\ \A i, j \in 1 .. Parts : keys[i] = keys[j] => i = j
           /\ txn' = [t \in TxnIds |->
                         IF \E i \in 1 .. Parts : keys[i] = t
                         THEN [NoTxn EXCEPT !.by = s,
                                            !.part = CHOOSE i \in 1 .. Parts : keys[i] = t]
                         ELSE txn[t]]
    BY <1>1 DEF SplitLock
  <2> DEFINE Kept(t) == \E i \in 1 .. Parts : keys[i] = t
             PartOf(t) == CHOOSE i \in 1 .. Parts : keys[i] = t
  <2>2. ASSUME NEW t, Kept(t)
        PROVE  PartOf(t) \in 1 .. Parts /\ keys[PartOf(t)] = t
    BY <2>2
  <2>3. \A i \in 1 .. Parts : keys[i] \in TxnIds /\ UnusedTxn(keys[i]) /\ Kept(keys[i])
    BY <2>1
  <2>4. \A i \in 1 .. Parts : PartOf(keys[i]) = i
    BY <2>1, <2>2, <2>3
  <2>5. \A t \in TxnIds : Kept(t) => /\ UnusedTxn(t)
                                     /\ txn'[t] = [NoTxn EXCEPT !.by = s, !.part = PartOf(t)]
    BY <2>1
  <2>6. \A t \in TxnIds : ~Kept(t) => txn'[t] = txn[t]
    BY <2>1
  <2>7. At(s, "idle") /\ UNCHANGED torn
    BY <1>1 DEF SplitLock
  <2>8. \A t \in TxnIds : txn[t].by # s
    BY <2>7, Writers DEF At, Rest, RowsOK
  <2>9. /\ request'[s].pc = "split"
        /\ \A q \in Sessions \ {s} : request'[q] = request[q]
    <3>1. Begin(s, "split", p, None, NoCode)
      BY <1>1 DEF SplitLock
    <3>2. /\ request'[s] = [pc |-> "split", p |-> p, t |-> None, code |-> NoCode]
          /\ \A q \in Sessions \ {s} : request'[q] = request[q]
      BY <3>1, BeginEffect DEF Codes, Pc
    <3> QED BY <3>2
  <2> HIDE DEF Kept, PartOf
  <2>10. ASSUME NEW t \in TxnIds, Kept(t)
         PROVE  /\ txn'[t].st = "none" /\ txn'[t].by = s /\ txn'[t].rev = FALSE
                /\ txn'[t].part = PartOf(t)
    <3>1. txn'[t] = [NoTxn EXCEPT !.by = s, !.part = PartOf(t)]
      BY <2>5, <2>10
    <3> QED BY <3>1 DEF NoTxn
  <2>11. \A t \in TxnIds : txn'[t].by = s <=> Kept(t)
    BY <2>6, <2>8, <2>10
  <2>12. \A t \in TxnIds : txn'[t].by # s => txn'[t] = txn[t]
    BY <2>6, <2>11
  <2>13. \A t \in TxnIds : txn'[t].by = s =>
            /\ UnusedTxn(t)
            /\ txn'[t].st = "none" /\ txn'[t].rev = FALSE /\ txn'[t].part # 0
    <3>1. \A t \in TxnIds : Kept(t) => PartOf(t) \in 1 .. Parts
      BY <2>2
    <3>2. \A t \in TxnIds : Kept(t) => PartOf(t) # 0
      BY <3>1, ConstantsAssumption
    <3> QED BY <2>5, <2>10, <2>11, <3>2
  <2>14. \A i \in 1 .. Parts : \E t \in TxnIds : txn'[t].by = s /\ txn'[t].part = i
    BY <2>3, <2>4, <2>10
  <2>15. \A t, u \in TxnIds : /\ txn'[t].by = s /\ txn'[u].by = s
                              /\ txn'[t].part = txn'[u].part
                              => t = u
    <3>1. \A t \in TxnIds : Kept(t) => keys[PartOf(t)] = t
      BY <2>2
    <3>2. \A t \in TxnIds : Kept(t) => txn'[t].part = PartOf(t)
      BY <2>10
    <3> QED BY <2>11, <3>1, <3>2
  <2> QED BY <2>7, <2>9, <2>12, <2>13, <2>14, <2>15, ReservePartsStep
<1>2. ASSUME SplitInsert(s)
      PROVE  Rest'
  <2> DEFINE b == pending[request[s].p].code
  <2>1. /\ request'[s].pc = "split_flushed"
        /\ \A q \in Sessions \ {s} : request'[q] = request[q]
    BY <1>2, AdvanceEffect DEF SplitInsert, Pc
  <2>2. b \in Codes
    BY <1>2 DEF TypeOK, KeysOK, PendingRow, SplitInsert, At
  <2>3. PICK amounts \in [TxnIds -> Amounts] :
           \A t \in TxnIds :
              /\ txn[t].by = s => txn'[t] = PartEntry(s, t, pending[request[s].p], amounts[t])
              /\ txn[t].by # s => txn'[t] = txn[t]
    BY <1>2 DEF SplitInsert
  <2>4. ASSUME NEW t \in TxnIds, txn[t].by = s
        PROVE  /\ txn'[t].st = "approved" /\ txn'[t].by = s /\ txn'[t].base = b
               /\ txn'[t].part = txn[t].part /\ txn'[t].rev = FALSE
               /\ txn'[t].seal \in OwnSeals(t)
    <3> DEFINE e == NewEntry(s, b, txn[t].part, pending[request[s].p].receipt)
    <3>1. txn'[t] = Sealed(t, e, amounts[t])
      BY <2>3, <2>4 DEF PartEntry
    <3>2. /\ Sealed(t, e, amounts[t]).st = "approved" /\ Sealed(t, e, amounts[t]).by = s
          /\ Sealed(t, e, amounts[t]).base = b /\ Sealed(t, e, amounts[t]).part = txn[t].part
          /\ Sealed(t, e, amounts[t]).rev = FALSE
          /\ Sealed(t, e, amounts[t]).seal = FirstSeal(t, amounts[t])
      BY DEF Sealed, HashOf, FirstSeal, NewEntry
    <3>3. txn'[t].seal \in OwnSeals(t)
      BY <3>1, <3>2 DEF OwnSeals
    <3> QED BY <3>1, <3>2, <3>3
  <2>5. /\ At(s, "split") /\ UNCHANGED torn
        /\ b = NoCode \/ \A i \in 1 .. Parts : ~InDoubt(s, b, i) /\ ~Taken(b, i)
    BY <1>2 DEF SplitInsert
  <2> QED BY <2>1, <2>2, <2>3, <2>4, <2>5, InsertPartsStep
<1>3. SplitRefused(s) => Rest'
  BY RollbackKeeps DEF SplitRefused
<1>4. ASSUME SplitCommit(s)
      PROVE  Rest'
  <2>1. /\ request'[s].pc = "idle"
        /\ \A q \in Sessions \ {s} : request'[q] = request[q]
    BY <1>4, EndEffect DEF SplitCommit, Idle
  <2> QED BY <1>4, <2>1, PublishPartsStep DEF SplitCommit
<1> QED BY <1>1, <1>2, <1>3, <1>4

\* The two steps of an edit keep the invariant.
LEMMA EditKeeps ==
    ASSUME TypeOK, KeysOK, Rest, NEW s \in Sessions
    PROVE  /\ \A t \in TxnIds : EditLock(s, t) => Rest'
           /\ EditCommit(s) => Rest'
<1>1. ASSUME NEW t \in TxnIds, EditLock(s, t)
      PROVE  Rest'
  <2>1. PICK u \in TxnIds, amount \in Amounts :
           UnusedTxn(u) /\ txn' = [txn EXCEPT ![u] = Replacement(s, t, u, amount)]
    BY <1>1 DEF EditLock
  <2>2. Begin(s, "edit", None, t, NoCode)
    BY <1>1 DEF EditLock
  <2>3. /\ request'[s] = [pc |-> "edit", p |-> None, t |-> t, code |-> NoCode]
        /\ \A q \in Sessions \ {s} : request'[q] = request[q]
    BY <2>2, BeginEffect DEF Codes, Pc
  <2>4. request'[s].pc = "edit" /\ request'[s].t = t
    BY <2>3
  <2>5. At(s, "idle") /\ Live(t) /\ ~LockedTxn(t) /\ UNCHANGED torn
    BY <1>1 DEF EditLock
  <2> QED BY <2>1, <2>3, <2>4, <2>5, ReplaceStep
<1>2. ASSUME EditCommit(s)
      PROVE  Rest'
  <2>1. /\ request'[s].pc = "idle"
        /\ \A q \in Sessions \ {s} : request'[q] = request[q]
    BY <1>2, EndEffect DEF EditCommit, Idle
  <2>2. request[s].t \in TxnIds
    BY <1>2 DEF KeysOK, EditCommit, At
  <2>3. /\ At(s, "edit") /\ UNCHANGED torn
        /\ txn' = [Committed(s) EXCEPT ![request[s].t] = Superseded(@)]
    BY <1>2 DEF EditCommit
  <2> QED BY <2>1, <2>2, <2>3, SupersedeStep
<1> QED BY <1>1, <1>2

\* The two steps of an undo keep the invariant.
LEMMA UndoKeeps ==
    ASSUME TypeOK, KeysOK, Rest, NEW s \in Sessions
    PROVE  /\ \A p \in PendingIds : UndoLock(s, p) => Rest'
           /\ UndoCommit(s) => Rest'
<1>1. ASSUME NEW p \in PendingIds, UndoLock(s, p)
      PROVE  Rest'
  <2>1. /\ EntryOf(p) \in TxnIds \cup {None}
        /\ EntryOf(p) # None => /\ txn[EntryOf(p)].by = None
                                /\ txn[EntryOf(p)].st # "none"
                                /\ txn[EntryOf(p)].part = 0
    BY DEF EntryOf, Taken, Visible, HasCode
  <2>2. Begin(s, "undo", p, EntryOf(p), NoCode)
    BY <1>1 DEF UndoLock
  <2>3. /\ request'[s] = [pc |-> "undo", p |-> p, t |-> EntryOf(p), code |-> NoCode]
        /\ \A q \in Sessions \ {s} : request'[q] = request[q]
    BY <2>1, <2>2, BeginEffect DEF Codes, Pc
  <2>4. request'[s].pc = "undo" /\ request'[s].t = EntryOf(p)
    BY <2>3
  <2>5. request[s].pc = "idle" /\ UNCHANGED <<txn, torn>>
    BY <1>1 DEF UndoLock, At
  <2> QED BY <2>1, <2>3, <2>4, <2>5, QuietStep
<1>2. ASSUME UndoCommit(s)
      PROVE  Rest'
  <2>1. /\ request'[s].pc = "idle"
        /\ \A q \in Sessions \ {s} : request'[q] = request[q]
    BY <1>2, EndEffect DEF UndoCommit, Idle
  <2>2. At(s, "undo") /\ UNCHANGED torn
    BY <1>2 DEF UndoCommit
  <2>3. CASE request[s].t = None
    BY <1>2, <2>1, <2>3, QuietStep DEF UndoCommit, At
  <2>4. CASE request[s].t # None
    <3>1. request[s].t \in TxnIds
      BY <2>4, Writers
    <3>2. /\ ~LockedTxn(request[s].t)
          /\ txn' = [txn EXCEPT ![request[s].t].st = "deleted"]
      BY <1>2, <2>4 DEF UndoCommit
    <3> QED BY <2>1, <2>2, <3>1, <3>2, DeleteStep
  <2> QED BY <2>3, <2>4
<1> QED BY <1>1, <1>2

\* Every step keeps the invariant.
LEMMA NextKeeps ==
    ASSUME TypeOK, KeysOK, Rest, Next
    PROVE  Rest'
<1>1. ASSUME NEW s \in Sessions, Start(s)
      PROVE  Rest'
  BY <1>1, IngestKeeps, ManualKeeps, ApproveKeeps, SplitKeeps, UndoKeeps, CorrectKeeps,
     EditKeeps DEF Start
<1>2. ASSUME NEW s \in Sessions, Continue(s)
      PROVE  Rest'
  BY <1>2, IngestKeeps, ManualKeeps, ApproveKeeps, TrainingKeeps, ApproveCommitKeeps,
     SplitKeeps, EditKeeps, UndoKeeps, CorrectKeeps DEF Continue
<1>3. ASSUME NEW s \in Sessions, Abandon(s)
      PROVE  Rest'
  BY <1>3, RollbackKeeps DEF Abandon
<1> QED BY <1>1, <1>2, <1>3, InboxKeeps DEF Next

-----------------------------------------------------------------------------
(* The properties *)

\* The invariant holds in every state of every interleaving of the requests.
THEOREM Inductive == Spec => []IInv
<1>1. Init => IInv
  <2> SUFFICES ASSUME Init PROVE IInv
    OBVIOUS
  <2>1. TypeOK /\ KeysOK
    BY NullTypes DEF Init, TypeOK, KeysOK, Idle
  <2>2. /\ \A t \in TxnIds : txn[t].st = "none" /\ txn[t].by = None
        /\ \A s \in Sessions : request[s].pc = "idle"
    BY DEF Init, NoTxn, Idle
  <2>3. RowsOK /\ OwnRowsOK /\ TargetsOK
    BY <2>2 DEF RowsOK, OwnRowsOK, OwnRows, TargetsOK, Target, At
  <2>4. CodesOK /\ SealsOK /\ SplitWhole /\ SupersededIsReplaced
    BY <2>2 DEF CodesOK, SealsOK, SealOf, SplitWhole, SupersededIsReplaced, Live, Visible
  <2> QED BY <2>1, <2>3, <2>4 DEF IInv
<1>2. IInv /\ [Next]_vars => IInv'
  <2>1. ASSUME IInv, Next
        PROVE  IInv'
    BY <2>1, NextTypes, NextKeeps DEF IInv, Rest
  <2>2. ASSUME IInv, UNCHANGED vars
        PROVE  IInv'
    BY <2>2 DEF vars, IInv, TypeOK, KeysOK, RowsOK, OwnRowsOK, OwnRows, OwnsOne, TargetsOK,
                Target, CodesOK, Replacing, SealsOK, SealOf, SplitWhole,
                SupersededIsReplaced, Live, Visible, At
  <2> QED BY <2>1, <2>2
<1> QED BY <1>1, <1>2, PTL DEF Spec

\* A code counts at most once, over all its revisions, however approvals, manual entries,
\* undos and edits of it overlap.
THEOREM CountsOnce == Spec => []CountedOnce
<1>1. IInv => CountedOnce
  BY ConstantsAssumption DEF IInv, CodesOK, CountedOnce, Live, Replacing
<1> QED BY <1>1, Inductive, PTL

\* The allocations of a split are in the ledger all together or not at all.
THEOREM SplitsAreWhole == Spec => []SplitWhole
<1>1. IInv => SplitWhole
  BY DEF IInv
<1> QED BY <1>1, Inductive, PTL

\* What LedgerService recomputes of an approved entry that has a seal is that seal, or differs
\* from it in an amount that was hashed before the column rounded it.
THEOREM SealsHold == Spec => []SealHolds
<1>1. IInv => SealHolds
  <2> SUFFICES ASSUME IInv, NEW t \in TxnIds, Live(t), txn[t].seal # NoSeal
               PROVE  \/ txn[t].seal = Recalculated(t)
                      \/ "finer" \in Amounts /\ txn[t].seal = HashOf(t, txn[t], "finer")
    BY DEF SealHolds
  <2>1. PICK amount \in Amounts : txn[t].seal = FirstSeal(t, amount)
    BY DEF IInv, SealsOK, SealOf, OwnSeals, Live
  <2>2. txn[t].st = "approved" /\ txn[t].rev = FALSE
    BY DEF IInv, RowsOK, Live
  <2>3. amount = "cents" \/ amount = "finer"
    BY ConstantsAssumption DEF AllAmounts
  <2> QED BY <2>1, <2>2, <2>3, SealIsHash
<1> QED BY <1>1, Inductive, PTL

\* While every amount is in cents every seal is found valid, whatever overlaps, fails or dies.
THEOREM SealsVerify ==
    ASSUME "finer" \notin Amounts
    PROVE  Spec => [](\A t \in TxnIds : Live(t) /\ txn[t].seal # NoSeal => txn[t].seal = Recalculated(t))
<1>1. SealHolds => \A t \in TxnIds : Live(t) /\ txn[t].seal # NoSeal => txn[t].seal = Recalculated(t)
  BY DEF SealHolds
<1> QED BY <1>1, SealsHold, PTL

\* Only an approval whose training hook has committed leaves an entry without a seal.
THEOREM OnlyTornIsUnsealed == Spec => []UnsealedIsTorn
<1>1. IInv => UnsealedIsTorn
  <2> SUFFICES ASSUME IInv, NEW t \in TxnIds, Live(t), txn[t].seal = NoSeal, t \notin torn
               PROVE  \E s \in Sessions : At(s, "published") /\ request[s].t = t
    BY DEF UnsealedIsTorn
  <2>1. NoSeal \notin OwnSeals(t)
    BY DEF OwnSeals, FirstSeal, NoSeal
  <2> QED BY <2>1 DEF IInv, SealsOK, SealOf, Live
<1> QED BY <1>1, Inductive, PTL

\* No edit loses money: what took a superseded code over is still there.
THEOREM NothingIsLost == Spec => []SupersededIsReplaced
<1>1. IInv => SupersededIsReplaced
  BY DEF IInv
<1> QED BY <1>1, Inductive, PTL

-----------------------------------------------------------------------------
(* The requests keep the book *)

Key(t) == <<txn[t].base, txn[t].part>>

\* What an entry of the book is, case by case.
EntryIs(t) ==
    /\ txn[t].by # None \/ txn[t].st = "none" =>
          LedgerEntry(t) = [st |-> "absent", key |-> None]
    /\ txn[t].by = None /\ txn[t].st = "superseded" =>
          LedgerEntry(t) = [st |-> "superseded", key |-> Key(t)]
    /\ txn[t].by = None /\ txn[t].st = "deleted" =>
          LedgerEntry(t) = [st |-> "void", key |-> Key(t)]
    /\ Live(t) /\ txn[t].seal = NoSeal =>
          LedgerEntry(t) = [st |-> "open", key |-> Key(t)]
    /\ Live(t) /\ txn[t].seal # NoSeal =>
          LedgerEntry(t) = [st |-> "sealed", key |-> Key(t)]

EntriesOK == \A t \in TxnIds : EntryIs(t)

\* No entry is broken.
LEMMA EntryCases == IInv => EntriesOK
<1> SUFFICES ASSUME IInv, NEW t \in TxnIds PROVE EntryIs(t)
  BY DEF EntriesOK
<1> USE DEF EntryIs
<1>1. CASE txn[t].by # None \/ txn[t].st = "none"
  BY <1>1 DEF LedgerEntry, EntryStatus, Key, Live, Visible
<1>2. CASE txn[t].by = None /\ txn[t].st = "superseded"
  BY <1>2 DEF LedgerEntry, EntryStatus, Key, Live, Visible
<1>3. CASE txn[t].by = None /\ txn[t].st = "deleted"
  BY <1>3 DEF LedgerEntry, EntryStatus, Key, Live, Visible
<1>4. CASE Live(t)
  <2>1. txn[t].seal # NoSeal => txn[t].seal = HashOf(t, txn[t], txn[t].seal.amt)
    <3> SUFFICES ASSUME txn[t].seal # NoSeal
                 PROVE  txn[t].seal = HashOf(t, txn[t], txn[t].seal.amt)
      OBVIOUS
    <3>1. PICK amount \in Amounts : txn[t].seal = FirstSeal(t, amount)
      BY <1>4 DEF IInv, SealsOK, SealOf, OwnSeals, Live
    <3>2. txn[t].st = "approved" /\ txn[t].rev = FALSE
      BY <1>4 DEF IInv, RowsOK, Live
    <3>3. txn[t].seal.amt = amount
      BY <3>1, <3>2, SealIsHash
    <3> QED BY <3>1, <3>2, <3>3, SealIsHash
  <2>2. /\ ~(txn[t].by # None \/ txn[t].st = "none")
        /\ ~(Visible(t) /\ txn[t].st = "superseded")
        /\ txn[t].st # "deleted"
    BY <1>4 DEF Live
  <2>3. CASE txn[t].seal = NoSeal
    <3>1. /\ ~(txn[t].by # None \/ txn[t].st = "none")
          /\ NoSeal # HashOf(t, txn[t], NoSeal.amt)
      BY <2>2, ConstantsAssumption DEF NoSeal, HashOf
    <3>2. EntryStatus(t) = "open"
      BY <1>4, <2>2, <2>3, <3>1 DEF EntryStatus
    <3> QED BY <1>4, <2>3, <3>2 DEF LedgerEntry, Key, Live
  <2>4. CASE txn[t].seal # NoSeal
    <3>1. EntryStatus(t) = "sealed"
      BY <1>4, <2>1, <2>2, <2>4 DEF EntryStatus
    <3> QED BY <1>4, <2>4, <3>1 DEF LedgerEntry, Key, Live
  <2> QED BY <2>3, <2>4
<1>5. txn[t].st \in {"none", "approved", "superseded", "deleted"}
  BY DEF IInv, TypeOK, TxnRow, TxnStatus
<1> QED BY <1>1, <1>2, <1>3, <1>4, <1>5 DEF Live

\* The book's variable, as a function of the rows.
TheBook == [t \in TxnIds |-> LedgerEntry(t)]

\* Its entries are entries of the book, and no code counts twice in it.
BookIsSound == TheBook \in [TxnIds -> Book!Entry] /\ Book!CountsOnce

\* The invariant makes the book sound.
LEMMA BookOK == IInv => BookIsSound
<1> SUFFICES ASSUME IInv PROVE BookIsSound
  OBVIOUS
<1>1. ASSUME NEW t \in TxnIds
      PROVE  /\ LedgerEntry(t) \in Book!Entry
             /\ LedgerEntry(t).st \in {"open", "sealed"} =>
                   Live(t) /\ LedgerEntry(t).key = Key(t)
  <2>1. Key(t) \in Codes \X (0 .. Parts)
    BY DEF Key, IInv, TypeOK, TxnRow
  <2>2. txn[t].st \in {"none", "approved", "superseded", "deleted"}
    BY DEF IInv, TypeOK, TxnRow, TxnStatus
  <2> QED BY <2>1, <2>2, EntryCases DEF EntriesOK, EntryIs, Book!Entry, Book!Status, Book!Counted, Live
<1>2. Book!CountsOnce
  <2> SUFFICES ASSUME NEW t \in TxnIds, NEW u \in TxnIds,
                      LedgerEntry(t).st \in {"open", "sealed"},
                      LedgerEntry(u).st \in {"open", "sealed"},
                      LedgerEntry(t).key \in Receipts \X (0 .. Parts),
                      LedgerEntry(t).key = LedgerEntry(u).key
               PROVE  t = u
    BY DEF Book!CountsOnce, Book!IsCounted, Book!Counted
  <2>1. /\ Live(t) /\ Live(u)
        /\ txn[t].base # NoCode
        /\ txn[t].base = txn[u].base /\ txn[t].part = txn[u].part
    BY <1>1, ConstantsAssumption DEF Key
  <2> QED BY <2>1, ConstantsAssumption DEF IInv, CodesOK, Live, Replacing
<1> QED BY <1>1, <1>2 DEF BookIsSound, TheBook

\* What a step that leaves a row as it is does to its entry.
LEMMA SameEntry ==
    ASSUME NEW t \in TxnIds, txn'[t] = txn[t]
    PROVE  LedgerEntry(t)' = LedgerEntry(t)
BY DEF LedgerEntry, EntryStatus, Live, Visible, HashOf

\* A step that changes no entry is no step of the book.
LEMMA Stutter ==
    ASSUME \A t \in TxnIds : LedgerEntry(t)' = LedgerEntry(t)
    PROVE  UNCHANGED TheBook
BY DEF TheBook

\* Entries that become committed together are recorded.
LEMMA Recorded ==
    ASSUME IInv, IInv', NEW I \in SUBSET TxnIds, I # {},
           \A t \in I : LedgerEntry(t).st = "absent" /\ Live(t)',
           \A t \in TxnIds \ I : LedgerEntry(t)' = LedgerEntry(t)
    PROVE  Book!Record
<1>1. BookIsSound'
  BY BookOK, PTL
<1>2. EntriesOK'
  BY EntryCases, PTL
<1>3. \A t \in I : /\ LedgerEntry(t)'.st \in {"open", "sealed"}
                   /\ LedgerEntry(t)'.key \in Codes \X (0 .. Parts)
  <2> SUFFICES ASSUME NEW t \in I
               PROVE  /\ LedgerEntry(t)'.st \in {"open", "sealed"}
                      /\ LedgerEntry(t)'.key \in Codes \X (0 .. Parts)
    OBVIOUS
  <2>1. EntryIs(t)' /\ Live(t)'
    BY <1>2 DEF EntriesOK
  <2>2. Key(t)' \in Codes \X (0 .. Parts)
    BY DEF Key, IInv, TypeOK, TxnRow
  <2> QED BY <2>1, <2>2 DEF EntryIs
<1>4. /\ I \in (SUBSET TxnIds) \ {{}}
      /\ \A t \in I : TheBook[t].st = "absent"
      /\ \A t \in I : TheBook'[t].st \in Book!Counted /\ TheBook'[t].key \in Codes \X (0 .. Parts)
      /\ \A t \in TxnIds \ I : TheBook'[t] = TheBook[t]
  BY <1>3 DEF TheBook, Book!Counted
<1> QED BY <1>1, <1>4 DEF Book!Record, TheBook, BookIsSound

-----------------------------------------------------------------------------
(* The steps of the requests as steps of the book *)

BookStep == [Book!LedgerNext]_TheBook

\* A row that is not an entry of the book.
Out(t) == txn[t].by # None \/ txn[t].st = "none"

\* Keys that are reserved, entries that are flushed and rows that are rolled back are not
\* in the book.
LEMMA OutOfTheBook ==
    ASSUME IInv, IInv',
           \A t \in TxnIds : txn'[t] = txn[t] \/ (Out(t) /\ Out(t)')
    PROVE  BookStep
<1>1. EntriesOK'
  BY EntryCases, PTL
<1>2. ASSUME NEW t \in TxnIds
      PROVE  LedgerEntry(t)' = LedgerEntry(t)
  <2>1. CASE txn'[t] = txn[t]
    BY <2>1, SameEntry
  <2>2. CASE Out(t) /\ Out(t)'
    BY <1>1, <2>2, EntryCases DEF EntriesOK, EntryIs, Out
  <2> QED BY <2>1, <2>2
<1> QED BY <1>2, Stutter DEF BookStep

\* A rollback, whoever asks for it.
LEMMA RollbackBook ==
    ASSUME IInv, IInv', NEW s \in Sessions, txn' = RolledBack(s)
    PROVE  BookStep
<1>1. None \notin Sessions
  BY ConstantsAssumption
<1>2. ASSUME NEW t \in TxnIds
      PROVE  txn'[t] = txn[t] \/ (Out(t) /\ Out(t)')
  <2>1. CASE txn[t].by = s
    BY <1>1, <2>1 DEF RolledBack, Out, NoTxn
  <2>2. CASE txn[t].by # s
    BY <2>2 DEF RolledBack
  <2> QED BY <2>1, <2>2
<1> QED BY <1>2, OutOfTheBook

\* The locks reserve keys, or flush a replacement, and commit nothing.
LEMMA LocksBook ==
    ASSUME IInv, IInv', NEW s \in Sessions
    PROVE  /\ \A c \in Receipts : ManualCheck(s, c) => BookStep
           /\ \A p \in PendingIds : ApproveLock(s, p) => BookStep
           /\ \A p \in PendingIds : SplitLock(s, p) => BookStep
           /\ \A t \in TxnIds : EditLock(s, t) => BookStep
<1>1. None \notin Sessions
  BY ConstantsAssumption
<1>2. ASSUME NEW t \in TxnIds, UnusedTxn(t), txn' = [txn EXCEPT ![t] = [NoTxn EXCEPT !.by = s]]
      PROVE  BookStep
  <2>1. Out(t) /\ Out(t)'
    BY <1>1, <1>2 DEF UnusedTxn, Out, NoTxn, IInv, TypeOK
  <2>2. \A u \in TxnIds \ {t} : txn'[u] = txn[u]
    BY <1>2
  <2> QED BY <2>1, <2>2, OutOfTheBook
<1>3. ASSUME NEW c \in Receipts, ManualCheck(s, c)
      PROVE  BookStep
  BY <1>2, <1>3 DEF ManualCheck
<1>4. ASSUME NEW p \in PendingIds, ApproveLock(s, p)
      PROVE  BookStep
  BY <1>2, <1>4 DEF ApproveLock
<1>5. ASSUME NEW p \in PendingIds, SplitLock(s, p)
      PROVE  BookStep
  <2>1. PICK keys \in [1 .. Parts -> {t \in TxnIds : UnusedTxn(t)}] :
           txn' = [t \in TxnIds |->
                     IF \E i \in 1 .. Parts : keys[i] = t
                     THEN [NoTxn EXCEPT !.by = s,
                                        !.part = CHOOSE i \in 1 .. Parts : keys[i] = t]
                     ELSE txn[t]]
    BY <1>5 DEF SplitLock
  <2>2. ASSUME NEW t \in TxnIds, \E i \in 1 .. Parts : keys[i] = t
        PROVE  Out(t) /\ Out(t)'
    <3>1. UnusedTxn(t)
      BY <2>2
    <3>2. PICK i : txn'[t] = [NoTxn EXCEPT !.by = s, !.part = i]
      BY <2>1, <2>2
    <3> QED BY <1>1, <3>1, <3>2 DEF UnusedTxn, Out, NoTxn
  <2>3. \A t \in TxnIds : ~(\E i \in 1 .. Parts : keys[i] = t) => txn'[t] = txn[t]
    BY <2>1
  <2> QED BY <2>2, <2>3, OutOfTheBook
<1>6. ASSUME NEW t \in TxnIds, EditLock(s, t)
      PROVE  BookStep
  <2>1. PICK u \in TxnIds, amount \in Amounts :
           UnusedTxn(u) /\ txn' = [txn EXCEPT ![u] = Replacement(s, t, u, amount)]
    BY <1>6 DEF EditLock
  <2>2. txn'[u].by = s
    BY <2>1 DEF Replacement, Sealed, NewEntry, IInv, TypeOK
  <2>3. Out(u) /\ Out(u)'
    BY <1>1, <2>1, <2>2 DEF UnusedTxn, Out
  <2>4. \A v \in TxnIds \ {u} : txn'[v] = txn[v]
    BY <2>1
  <2> QED BY <2>3, <2>4, OutOfTheBook
<1> QED BY <1>3, <1>4, <1>5, <1>6

\* Flushed entries are not in the book yet.
LEMMA FlushesBook ==
    ASSUME IInv, IInv', NEW s \in Sessions
    PROVE  /\ ApproveInsert(s) => BookStep
           /\ SplitInsert(s) => BookStep
<1>1. None \notin Sessions
  BY ConstantsAssumption
<1>2. ASSUME ApproveInsert(s)
      PROVE  BookStep
  <2> DEFINE t == request[s].t
  <2>1. t \in TxnIds /\ txn[t].by = s
    BY <1>2 DEF ApproveInsert, At, IInv, KeysOK, OwnRowsOK, OwnRows, OwnsOne
  <2>2. txn'[t].by = s /\ \A u \in TxnIds \ {t} : txn'[u] = txn[u]
    BY <1>2, <2>1 DEF ApproveInsert, NewEntry, IInv, TypeOK
  <2>3. Out(t) /\ txn'[t].by # None
    BY <1>1, <2>1, <2>2 DEF Out
  <2> HIDE DEF t
  <2>4. \A u \in TxnIds : u = t => Out(u) /\ Out(u)'
    BY <2>3 DEF Out
  <2> QED BY <2>2, <2>4, OutOfTheBook
<1>3. ASSUME SplitInsert(s)
      PROVE  BookStep
  <2>1. ASSUME NEW t \in TxnIds, txn[t].by = s
        PROVE  txn'[t].by = s
    BY <1>3, <2>1 DEF SplitInsert, PartEntry, Sealed, NewEntry
  <2>2. \A t \in TxnIds : txn[t].by # s => txn'[t] = txn[t]
    BY <1>3 DEF SplitInsert
  <2>3. \A t \in TxnIds : txn[t].by = s => Out(t) /\ Out(t)'
    BY <1>1, <2>1 DEF Out
  <2> QED BY <2>2, <2>3, OutOfTheBook
<1> QED BY <1>2, <1>3

\* One entry becomes committed.
LEMMA RecordOne ==
    ASSUME IInv, IInv', NEW t \in TxnIds,
           Out(t), txn'[t].by = None, txn'[t].st = "approved",
           \A u \in TxnIds \ {t} : txn'[u] = txn[u]
    PROVE  BookStep
<1>1. LedgerEntry(t).st = "absent" /\ Live(t)'
  BY EntryCases DEF EntriesOK, EntryIs, Out, Live
<1>2. \A u \in {t} : LedgerEntry(u).st = "absent" /\ Live(u)'
  BY <1>1
<1>3. \A u \in TxnIds \ {t} : LedgerEntry(u)' = LedgerEntry(u)
  BY SameEntry
<1>4. {t} \in SUBSET TxnIds /\ {t} # {}
  OBVIOUS
<1>5. Book!Record
  BY <1>2, <1>3, <1>4, Recorded
<1> QED BY <1>5 DEF BookStep, Book!LedgerNext

\* What becomes counted is recorded: by a manual entry, an approval (whose training hook
\* may commit it first) or a split.
LEMMA RecordsBook ==
    ASSUME IInv, IInv', NEW s \in Sessions
    PROVE  /\ ManualInsert(s) => BookStep
           /\ TrainingCommit(s) => BookStep
           /\ ApproveCommit(s) => BookStep
           /\ SplitCommit(s) => BookStep
<1>1. None \notin Sessions
  BY ConstantsAssumption
<1> DEFINE t == request[s].t
<1>2. ASSUME request[s].pc \in {"manual", "flushed"}
      PROVE  /\ t \in TxnIds /\ txn[t].by = s /\ Out(t)
             /\ \A u \in TxnIds \ {t} : txn[u].by # s
             /\ request[s].pc = "flushed" => txn[t].st = "approved"
  <2>1. t \in TxnIds /\ OwnsOne(s)
    BY <1>2 DEF IInv, KeysOK, OwnRowsOK, OwnRows
  <2>2. txn[t].by = s /\ \A u \in TxnIds \ {t} : txn[u].by # s
    BY <2>1 DEF OwnsOne
  <2>3. request[s].pc = "flushed" => txn[t].st = "approved"
    BY <1>1, <2>1, <2>2 DEF IInv, RowsOK
  <2> QED BY <1>1, <2>1, <2>2, <2>3 DEF Out
<1>3. ASSUME ManualInsert(s)
      PROVE  BookStep
  <2>1. PICK amount \in Amounts :
           /\ request[s].pc = "manual"
           /\ txn' = [txn EXCEPT ![t] = ManualEntry(t, request[s].code, amount)]
    BY <1>3 DEF ManualInsert, At
  <2>2. t \in TxnIds /\ Out(t)
    BY <1>2, <2>1
  <2> HIDE DEF t
  <2>3. txn'[t].by = None /\ txn'[t].st = "approved"
    BY <2>1, <2>2 DEF ManualEntry, Sealed, NewEntry, IInv, TypeOK
  <2>4. \A u \in TxnIds \ {t} : txn'[u] = txn[u]
    BY <2>1, <2>2 DEF IInv, TypeOK
  <2> QED BY <2>2, <2>3, <2>4, RecordOne
<1>4. ASSUME TrainingCommit(s)
      PROVE  BookStep
  <2>1. request[s].pc = "flushed" /\ txn' = Committed(s)
    BY <1>4 DEF TrainingCommit, At
  <2>2. /\ t \in TxnIds /\ txn[t].by = s /\ Out(t) /\ txn[t].st = "approved"
        /\ \A u \in TxnIds \ {t} : txn[u].by # s
    BY <1>2, <2>1
  <2> HIDE DEF t
  <2>3. txn'[t] = [txn[t] EXCEPT !.by = None]
    BY <2>1, <2>2 DEF Committed
  <2>4. txn'[t].by = None /\ txn'[t].st = "approved"
    BY <2>2, <2>3 DEF IInv, TypeOK, TxnRow
  <2>5. \A u \in TxnIds \ {t} : txn'[u] = txn[u]
    BY <2>1, <2>2 DEF Committed
  <2> QED BY <2>2, <2>4, <2>5, RecordOne
<1>5. ASSUME ApproveCommit(s)
      PROVE  BookStep
  <2>1. /\ request[s].pc = "flushed"
        /\ txn' = [txn EXCEPT ![t] = Sealed(t, [@ EXCEPT !.by = None], "cents")]
    BY <1>5 DEF ApproveCommit, At
  <2>2. t \in TxnIds /\ Out(t) /\ txn[t].st = "approved"
    BY <1>2, <2>1
  <2> HIDE DEF t
  <2>3. txn'[t] = Sealed(t, [txn[t] EXCEPT !.by = None], "cents")
    BY <2>1, <2>2 DEF IInv, TypeOK
  <2>4. txn[t] \in TxnRow
    BY <2>2 DEF IInv, TypeOK
  <2>5. txn'[t].by = None /\ txn'[t].st = "approved"
    BY <2>2, <2>3, <2>4 DEF Sealed, TxnRow
  <2>6. \A u \in TxnIds \ {t} : txn'[u] = txn[u]
    BY <2>1, <2>2 DEF IInv, TypeOK
  <2> QED BY <2>2, <2>5, <2>6, RecordOne
<1>6. ASSUME SplitCommit(s)
      PROVE  BookStep
  <2> DEFINE I == {u \in TxnIds : txn[u].by = s}
  <2>1. request[s].pc = "split_flushed" /\ txn' = Committed(s)
    BY <1>6 DEF SplitCommit, At
  <2>2. I # {}
    <3>1. 1 \in 1 .. Parts
      BY ConstantsAssumption
    <3>2. \E u \in TxnIds : txn[u].by = s /\ txn[u].part = 1
      BY <2>1, <3>1 DEF IInv, OwnRowsOK, OwnRows
    <3> QED BY <3>2
  <2>3. ASSUME NEW u \in I
        PROVE  LedgerEntry(u).st = "absent" /\ Live(u)'
    <3>1. u \in TxnIds /\ txn[u].by = s /\ txn[u].st = "approved"
      BY <1>1, <2>1, <2>3 DEF IInv, RowsOK
    <3>2. LedgerEntry(u).st = "absent"
      BY <1>1, <3>1, EntryCases DEF EntriesOK, EntryIs
    <3>3. txn'[u] = [txn[u] EXCEPT !.by = None] /\ txn[u] \in TxnRow
      BY <2>1, <3>1 DEF Committed, IInv, TypeOK
    <3>4. txn'[u].by = None /\ txn'[u].st = "approved"
      BY <3>1, <3>3 DEF TxnRow
    <3> QED BY <3>2, <3>4 DEF Live
  <2>4. ASSUME NEW u \in TxnIds \ I
        PROVE  LedgerEntry(u)' = LedgerEntry(u)
    BY <2>1, <2>4, SameEntry DEF Committed
  <2>5. I \in SUBSET TxnIds
    OBVIOUS
  <2> HIDE DEF I
  <2>6. Book!Record
    BY <2>2, <2>3, <2>4, <2>5, Recorded
  <2> QED BY <2>6 DEF BookStep, Book!LedgerNext
<1> QED BY <1>3, <1>4, <1>5, <1>6

\* A late approval seals its entry, whatever an edit has made of it.
LEMMA SealsBook ==
    ASSUME IInv, IInv', NEW s \in Sessions, ApproveCommitLate(s)
    PROVE  BookStep
<1>0. PICK t : t = request[s].t
  OBVIOUS
<1>1. CASE UNCHANGED txn
  BY <1>1, OutOfTheBook
<1>2. CASE t # None /\ Visible(t) /\
           \E seal \in {Recalculated(t), FirstSeal(t, "cents")} :
               txn' = [txn EXCEPT ![t].seal = seal]
  <2>1. t \in TxnIds
    BY <1>0, <1>2 DEF IInv, TypeOK, Request
  <2>2. Visible(t)
    BY <1>2
  <2>3. PICK seal \in {Recalculated(t), FirstSeal(t, "cents")} :
           txn' = [txn EXCEPT ![t].seal = seal]
    BY <1>2
  <2>4. seal # NoSeal
    BY <2>1, <2>3, ConstantsAssumption DEF HashOf, Recalculated, FirstSeal, NoSeal
  <2>5. txn[t] \in TxnRow /\ txn'[t] = [txn[t] EXCEPT !.seal = seal]
    BY <2>1, <2>3 DEF IInv, TypeOK
  <2>6. /\ txn'[t].by = txn[t].by /\ txn'[t].st = txn[t].st /\ txn'[t].seal # NoSeal
        /\ txn'[t].base = txn[t].base /\ txn'[t].part = txn[t].part
    BY <2>4, <2>5 DEF TxnRow
  <2>7. \A u \in TxnIds \ {t} : LedgerEntry(u)' = LedgerEntry(u)
    BY <2>1, <2>3, SameEntry DEF IInv, TypeOK
  <2>8. EntryIs(t) /\ EntryIs(t)' /\ Key(t)' = Key(t)
    <3>1. EntriesOK'
      BY EntryCases, PTL
    <3> QED BY <2>1, <2>6, <3>1, EntryCases DEF EntriesOK, Key
  <2>9. CASE Live(t) /\ txn[t].seal = NoSeal
    <3>1. /\ LedgerEntry(t) = [st |-> "open", key |-> Key(t)]
          /\ LedgerEntry(t)' = [st |-> "sealed", key |-> Key(t)]
      BY <2>6, <2>8, <2>9 DEF EntryIs, Live
    <3>2. TheBook' = [TheBook EXCEPT ![t].st = "sealed"]
      <4>1. [LedgerEntry(t) EXCEPT !.st = "sealed"] = [st |-> "sealed", key |-> Key(t)]
        BY <3>1
      <4>2. \A u \in TxnIds :
               LedgerEntry(u)' = IF u = t THEN [LedgerEntry(t) EXCEPT !.st = "sealed"]
                                 ELSE LedgerEntry(u)
        BY <2>7, <3>1, <4>1
      <4> QED BY <2>1, <4>2 DEF TheBook
    <3>3. TheBook[t].st = "open"
      BY <2>1, <3>1 DEF TheBook
    <3>4. Book!SealEntry(t)
      BY <3>2, <3>3 DEF Book!SealEntry, TheBook
    <3> QED BY <2>1, <3>4 DEF BookStep, Book!LedgerNext
  <2>10. CASE ~(Live(t) /\ txn[t].seal = NoSeal)
    <3>1. LedgerEntry(t)' = LedgerEntry(t)
      BY <2>2, <2>6, <2>8, <2>10 DEF EntryIs, Live, Visible
    <3> QED BY <2>7, <3>1, Stutter DEF BookStep
  <2> QED BY <2>9, <2>10
<1> QED BY <1>0, <1>1, <1>2 DEF ApproveCommitLate

\* An edit revises its entry.
LEMMA RevisesBook ==
    ASSUME IInv, IInv', NEW s \in Sessions, EditCommit(s)
    PROVE  BookStep
<1>0. PICK t : t = request[s].t
  OBVIOUS
<1>1. None \notin Sessions
  BY ConstantsAssumption
<1>2. /\ t \in TxnIds /\ request[s].pc = "edit" /\ Live(t)
      /\ txn' = [Committed(s) EXCEPT ![t] = Superseded(@)]
  BY <1>0 DEF EditCommit, At, IInv, KeysOK, TargetsOK, Target
<1>3. PICK u \in TxnIds : /\ txn[u].by = s
                          /\ txn[u].base = txn[t].base /\ txn[u].part = txn[t].part
                          /\ \A v \in TxnIds : txn[v].by = s => v = u
  BY <1>0, <1>2 DEF At, IInv, TargetsOK, Target
<1>4. u # t
  BY <1>1, <1>2, <1>3 DEF Live
<1>5. /\ txn[t] \in TxnRow /\ txn[u] \in TxnRow
      /\ txn'[t] = [txn[t] EXCEPT !.st = "superseded", !.rev = TRUE]
      /\ txn'[u] = [txn[u] EXCEPT !.by = None]
  BY <1>1, <1>2, <1>3, <1>4 DEF Committed, Superseded, Live, IInv, TypeOK
<1>6. \A v \in TxnIds : v # t /\ v # u => txn'[v] = txn[v]
  BY <1>2, <1>3 DEF Committed
<1>7. /\ txn[u].st = "approved" /\ txn[u].seal # NoSeal
  <2>1. txn[u].st = "approved"
    BY <1>1, <1>2, <1>3 DEF IInv, RowsOK
  <2>2. ~ \E r \in Sessions : At(r, "published") /\ request[r].t = u
    BY <1>1, <1>3, ConstantsAssumption DEF At, IInv, TargetsOK, Target
  <2>3. txn[u].by # None /\ ~At(txn[u].by, "flushed")
    BY <1>0, <1>1, <1>2, <1>3 DEF At
  <2>4. SealOf(u)
    BY DEF IInv, SealsOK
  <2>5. txn[u].seal \in OwnSeals(u)
    BY <2>1, <2>2, <2>3, <2>4 DEF SealOf
  <2> QED BY <2>1, <2>5, ConstantsAssumption DEF OwnSeals, FirstSeal, NoSeal
<1>8. /\ txn'[t].by = None /\ txn'[t].st = "superseded" /\ Key(t)' = Key(t)
      /\ txn'[u].by = None /\ txn'[u].st = "approved" /\ txn'[u].seal # NoSeal
      /\ Key(u)' = Key(t)
  <2>1. txn'[t].by = None /\ txn'[t].st = "superseded" /\ Key(t)' = Key(t)
    <3>1. /\ txn'[t].by = txn[t].by /\ txn'[t].st = "superseded"
          /\ txn'[t].base = txn[t].base /\ txn'[t].part = txn[t].part
      BY <1>5 DEF TxnRow
    <3> QED BY <1>2, <3>1 DEF Key, Live
  <2>2. /\ txn'[u].by = None /\ txn'[u].st = txn[u].st /\ txn'[u].seal = txn[u].seal
        /\ txn'[u].base = txn[u].base /\ txn'[u].part = txn[u].part
    BY <1>5 DEF TxnRow
  <2> QED BY <1>3, <1>7, <2>1, <2>2 DEF Key
<1>9. EntriesOK /\ EntriesOK'
  BY EntryCases, PTL
<1>10. /\ LedgerEntry(u).st = "absent"
       /\ LedgerEntry(t).st \in {"open", "sealed"} /\ LedgerEntry(t).key = Key(t)
  BY <1>1, <1>2, <1>3, <1>9 DEF EntriesOK, EntryIs
<1>11. /\ LedgerEntry(t)' = [st |-> "superseded", key |-> Key(t)]
       /\ LedgerEntry(u)' = [st |-> "sealed", key |-> Key(t)]
  BY <1>2, <1>8, <1>9 DEF EntriesOK, EntryIs, Live
<1>12. \A v \in TxnIds : v # t /\ v # u => LedgerEntry(v)' = LedgerEntry(v)
  BY <1>6, SameEntry
<1>13. LedgerEntry(t) = [st |-> LedgerEntry(t).st, key |-> Key(t)]
  BY <1>10 DEF LedgerEntry
<1>14. TheBook' = [TheBook EXCEPT ![t].st = "superseded",
                                  ![u] = [st |-> "sealed", key |-> TheBook[t].key]]
  BY <1>2, <1>4, <1>10, <1>11, <1>12, <1>13 DEF TheBook
<1>15. Book!Revise(t, u)
  BY <1>2, <1>10, <1>14 DEF Book!Revise, Book!IsCounted, Book!Counted, TheBook
<1> QED BY <1>2, <1>15 DEF BookStep, Book!LedgerNext

\* An undo voids the entry it has found, or finds none.
LEMMA VoidsBook ==
    ASSUME IInv, IInv', NEW s \in Sessions, UndoCommit(s)
    PROVE  BookStep
<1>0. PICK t : t = request[s].t
  OBVIOUS
<1>1. CASE UNCHANGED txn
  BY <1>1, OutOfTheBook
<1>2. CASE t # None /\ txn' = [txn EXCEPT ![t].st = "deleted"]
  <2>1. t \in TxnIds /\ txn[t].by = None /\ txn[t].st # "none"
    BY <1>0, <1>2 DEF UndoCommit, At, IInv, TypeOK, Request, TargetsOK, Target
  <2>2. txn' = [txn EXCEPT ![t].st = "deleted"]
    BY <1>2
  <2>3. txn[t] \in TxnRow /\ txn'[t] = [txn[t] EXCEPT !.st = "deleted"]
    BY <2>1, <2>2 DEF IInv, TypeOK
  <2>4. txn'[t].by = None /\ txn'[t].st = "deleted" /\ Key(t)' = Key(t)
    BY <2>1, <2>3 DEF TxnRow, Key
  <2>5. EntriesOK /\ EntriesOK'
    BY EntryCases, PTL
  <2>6. \A u \in TxnIds \ {t} : LedgerEntry(u)' = LedgerEntry(u)
    BY <2>1, <2>2, SameEntry DEF IInv, TypeOK
  <2>7. LedgerEntry(t)' = [st |-> "void", key |-> Key(t)]
    BY <2>1, <2>4, <2>5 DEF EntriesOK, EntryIs
  <2>8. txn[t].st \in {"approved", "superseded", "deleted"}
    BY <2>1, <2>3 DEF TxnRow, TxnStatus
  <2>9. /\ LedgerEntry(t) = [st |-> LedgerEntry(t).st, key |-> Key(t)]
        /\ LedgerEntry(t).st \in {"open", "sealed", "superseded", "void"}
    BY <2>1, <2>5, <2>8 DEF EntriesOK, EntryIs, Live
  <2>10. TheBook' = [TheBook EXCEPT ![t].st = "void"]
    <3>1. [LedgerEntry(t) EXCEPT !.st = "void"] = [st |-> "void", key |-> Key(t)]
      BY <2>9
    <3>2. \A u \in TxnIds :
             LedgerEntry(u)' = IF u = t THEN [LedgerEntry(t) EXCEPT !.st = "void"]
                               ELSE LedgerEntry(u)
      BY <2>6, <2>7, <3>1
    <3> QED BY <2>1, <3>2 DEF TheBook
  <2>11. CASE LedgerEntry(t).st = "void"
    BY <2>6, <2>7, <2>9, <2>11, Stutter DEF BookStep
  <2>12. CASE LedgerEntry(t).st # "void"
    <3>1. Book!Void(t)
      BY <2>1, <2>9, <2>10, <2>12 DEF Book!Void, Book!Counted, TheBook
    <3> QED BY <2>1, <3>1 DEF BookStep, Book!LedgerNext
  <2> QED BY <2>11, <2>12
<1> QED BY <1>0, <1>1, <1>2 DEF UndoCommit

\* The steps that leave the rows of the ledger alone.
LEMMA InboxBook ==
    ASSUME IInv, IInv', UNCHANGED txn
    PROVE  BookStep
BY OutOfTheBook

\* Every step of the requests is a step of the book or leaves it alone.
LEMMA NextBook == IInv /\ IInv' /\ [Next]_vars => BookStep
<1> SUFFICES ASSUME IInv, IInv', [Next]_vars PROVE BookStep
  OBVIOUS
<1>1. CASE UNCHANGED vars
  BY <1>1, InboxBook DEF vars
<1>2. ASSUME NEW s \in Sessions, Start(s)
      PROVE  BookStep
  <2>1. ASSUME NEW r \in Receipts, IngestCheck(s, r)
        PROVE  BookStep
    BY <2>1, InboxBook DEF IngestCheck
  <2>2. ASSUME NEW p \in PendingIds, UndoLock(s, p) \/ CorrectRead(s, p)
        PROVE  BookStep
    BY <2>2, InboxBook DEF UndoLock, CorrectRead
  <2> QED BY <1>2, <2>1, <2>2, LocksBook DEF Start
<1>3. ASSUME NEW s \in Sessions, Continue(s)
      PROVE  BookStep
  <2>1. CASE IngestInsert(s)
    BY <2>1, InboxBook DEF IngestInsert
  <2>2. CASE EditTx(s) \/ Reparse(s)
    BY <2>2, InboxBook DEF EditTx, Reparse, SetCode
  <2>3. CASE \/ ManualRefused(s) \/ ApproveRefused(s) \/ ApproveStale(s)
             \/ SplitRefused(s) \/ CorrectStale(s)
    BY <2>3, RollbackBook
       DEF ManualRefused, ApproveRefused, ApproveStale, SplitRefused, CorrectStale, Rollback
  <2>4. CASE TrainingRollback(s)
    BY <2>4, RollbackBook DEF TrainingRollback
  <2> QED BY <1>3, <2>1, <2>2, <2>3, <2>4, FlushesBook, RecordsBook, SealsBook,
             RevisesBook, VoidsBook
          DEF Continue
<1>4. ASSUME NEW s \in Sessions, Abandon(s)
      PROVE  BookStep
  BY <1>4, RollbackBook DEF Abandon, Rollback
<1>5. ASSUME NEW p \in PendingIds, Reject(p)
      PROVE  BookStep
  BY <1>5, InboxBook DEF Reject
<1>6. ASSUME NEW P \in SUBSET PendingIds, ClearHistory(P)
      PROVE  BookStep
  BY <1>6, InboxBook DEF ClearHistory
<1> QED BY <1>1, <1>2, <1>3, <1>4, <1>5, <1>6 DEF Next

\* Whatever requests of ApprovalService, ManualTransactionHandler and the ingestion run at
\* the same time, and wherever they are cut off, they write the ledger as module Ledger
\* promises: entries are recorded, sealed, superseded and voided, and never changed
\* otherwise.
THEOREM RequestsKeepTheBook == Spec => ImplementsLedger
<1>1. Init => TheBook = [t \in TxnIds |-> [st |-> "absent", key |-> None]]
  <2> SUFFICES ASSUME Init, NEW t \in TxnIds
               PROVE  LedgerEntry(t) = [st |-> "absent", key |-> None]
    BY DEF TheBook
  <2>1. txn[t].st = "none"
    BY DEF Init, NoTxn
  <2>2. EntryStatus(t) = "absent"
    BY <2>1 DEF EntryStatus, Live, Visible
  <2> QED BY <2>2 DEF LedgerEntry
<1>2. Init => Book!LedgerInit
  BY <1>1 DEF Book!LedgerInit, Book!Absent, TheBook
<1>3. IInv /\ IInv' /\ [Next]_vars => [Book!LedgerNext]_[t \in TxnIds |-> LedgerEntry(t)]
  BY NextBook DEF BookStep, TheBook
<1> QED BY <1>2, <1>3, Inductive, PTL DEF Spec, ImplementsLedger, Book!LedgerSpec

-----------------------------------------------------------------------------
(* The claims: codes and locks *)

\* Unless codes are corrected, a code names the payment, in the inbox and in the ledger.
PaymentCodes ==
    /\ \A s \in Sessions : request[s].pc \in {"ingest", "manual"} => request[s].code \in Receipts
    /\ \A p \in PendingIds :
          pending[p].st # "none" => /\ pending[p].code \in Receipts
                                    /\ pending[p].receipt = pending[p].code
    /\ \A t \in TxnIds :
          txn[t].st # "none" => txn[t].base \in Receipts /\ txn[t].receipt = txn[t].base

\* A code is in the inbox once, and a row that a request holds is in the inbox and held by
\* no other; an ingestion has a key of its own.
InboxOK ==
    /\ \A p, q \in PendingIds :
          InInbox(p) /\ InInbox(q) /\ pending[p].code = pending[q].code => p = q
    /\ \A s \in Sessions :
          /\ request[s].pc \in HoldsPending =>
                /\ InInbox(request[s].p)
                /\ \A r \in Sessions \ {s} :
                      request[r].pc \in HoldsPending => request[r].p # request[s].p
          /\ At(s, "ingest") =>
                /\ pending[request[s].p].st = "none"
                /\ \A r \in Sessions \ {s} : request[r].p # request[s].p
          /\ At(s, "published") => pending[request[s].p].st # "none"

\* No correction is under way.
Uncorrected == \A s \in Sessions : ~At(s, "correct")

\* What all three claims rest on.
ClaimBase == PaymentCodes /\ InboxOK /\ Uncorrected

\* What a step has to leave of a row of the inbox that is there.
RowStays(p) ==
    /\ pending'[p].code = pending[p].code /\ pending'[p].receipt = pending[p].receipt
    /\ pending'[p].st = "none" <=> pending[p].st = "none"
    /\ InInbox(p)' => InInbox(p)

\* A request that stays, ends, begins without a row, or goes on with its own.
GoesOn(s) ==
    \/ request'[s] = request[s]
    \/ request'[s].p = None /\ request'[s].pc \in {"idle", "edit", "manual"}
    \/ /\ request'[s].p = request[s].p
       /\ request[s].pc \in HoldsPending
       /\ request'[s].pc \in HoldsPending \cup {"published"}

\* Steps that neither lock nor add a row of the inbox.
LEMMA InboxGoesOn ==
    ASSUME TypeOK, KeysOK, InboxOK, Uncorrected,
           \A p \in PendingIds : RowStays(p),
           \A s \in Sessions : GoesOn(s),
           \A s \in Sessions :
               request[s].pc \in HoldsPending /\ request'[s].pc \in HoldsPending
                   => InInbox(request[s].p)'
    PROVE  InboxOK' /\ Uncorrected'
<1>1. None \notin PendingIds /\ \A s \in Sessions : request[s].p \in PendingIds \cup {None}
  BY ConstantsAssumption DEF TypeOK, Request
<1>2. \A p, q \in PendingIds :
         InInbox(p)' /\ InInbox(q)' /\ pending'[p].code = pending'[q].code => p = q
  BY DEF InboxOK, RowStays
<1>3. ASSUME NEW s \in Sessions, request'[s].pc \in HoldsPending
      PROVE  request[s].pc \in HoldsPending /\ request'[s].p = request[s].p
  BY <1>3 DEF GoesOn, HoldsPending
<1>4. ASSUME NEW s \in Sessions, request'[s].pc = "ingest"
      PROVE  request'[s] = request[s]
  BY <1>4 DEF GoesOn, HoldsPending
<1>5. ASSUME NEW s \in Sessions, request'[s].pc = "published"
      PROVE  /\ request'[s].p = request[s].p /\ request[s].p \in PendingIds
             /\ pending[request[s].p].st # "none"
  <2>1. request'[s].p = request[s].p /\ request[s].pc \in HoldsPending \cup {"published"}
    BY <1>5 DEF GoesOn
  <2> QED BY <2>1 DEF InboxOK, InInbox, KeysOK, HoldsPending, At
<1>6. ASSUME NEW s \in Sessions, request'[s].pc \in HoldsPending
      PROVE  /\ InInbox(request[s].p)'
             /\ \A r \in Sessions \ {s} :
                   request'[r].pc \in HoldsPending => request'[r].p # request'[s].p
  <2>1. request[s].pc \in HoldsPending /\ InInbox(request[s].p)'
    BY <1>3, <1>6
  <2>2. ASSUME NEW r \in Sessions \ {s}, request'[r].pc \in HoldsPending
        PROVE  request'[r].p # request'[s].p
    <3>1. request[r].pc \in HoldsPending /\ request'[r].p = request[r].p
      BY <1>3, <2>2
    <3>2. request[r].p # request[s].p
      BY <2>1, <3>1 DEF InboxOK
    <3> QED BY <1>3, <1>6, <3>1, <3>2
  <2> QED BY <2>1, <2>2
<1>7. ASSUME NEW s \in Sessions, request'[s].pc = "ingest"
      PROVE  /\ pending'[request'[s].p].st = "none"
             /\ \A r \in Sessions \ {s} : request'[r].p # request'[s].p
  <2>1. /\ request'[s] = request[s] /\ request[s].p \in PendingIds
        /\ pending[request[s].p].st = "none"
        /\ \A r \in Sessions \ {s} : request[r].p # request[s].p
    BY <1>4, <1>7 DEF InboxOK, KeysOK, At
  <2>2. \A r \in Sessions : request'[r].p \in {request[r].p, None}
    BY DEF GoesOn
  <2> QED BY <1>1, <2>1, <2>2 DEF RowStays
<1>8. ASSUME NEW s \in Sessions, request'[s].pc = "published"
      PROVE  pending'[request'[s].p].st # "none"
  BY <1>5, <1>8 DEF RowStays
<1>9. InboxOK'
  BY <1>2, <1>6, <1>7, <1>8 DEF InboxOK, At, HoldsPending
<1>10. Uncorrected'
  BY DEF Uncorrected, GoesOn, At, HoldsPending
<1> QED BY <1>9, <1>10

\* A step that locks a row of the inbox.
LEMMA InboxIsLocked ==
    ASSUME TypeOK, KeysOK, InboxOK, Uncorrected, NEW s \in Sessions, NEW p \in PendingIds,
           At(s, "idle"), InInbox(p), ~LockedPending(p), UNCHANGED pending,
           request'[s].p = p, request'[s].pc \in {"approve", "split", "undo"},
           \A r \in Sessions \ {s} : request'[r] = request[r]
    PROVE  InboxOK' /\ Uncorrected'
<1>1. \A r \in Sessions \ {s} : request[r].pc \in HoldsPending => request[r].p # p
  BY DEF LockedPending
<1>2. \A r \in Sessions : At(r, "ingest") => request[r].p # p
  BY DEF InboxOK, InInbox
<1>3. ASSUME NEW r \in Sessions
      PROVE  /\ request'[r].pc \in HoldsPending =>
                   /\ InInbox(request[r].p)'
                   /\ \A q \in Sessions \ {r} :
                         request'[q].pc \in HoldsPending => request'[q].p # request'[r].p
             /\ request'[r].pc = "ingest" =>
                   /\ pending'[request'[r].p].st = "none"
                   /\ \A q \in Sessions \ {r} : request'[q].p # request'[r].p
             /\ request'[r].pc = "published" => pending'[request'[r].p].st # "none"
             /\ request'[r].pc # "correct"
  <2>1. CASE r = s
    BY <1>1, <2>1 DEF InInbox
  <2>2. CASE r # s
    BY <1>1, <1>2, <2>2 DEF InboxOK, InInbox, At, Uncorrected
  <2> QED BY <2>1, <2>2
<1>4. \A q, r \in PendingIds :
         InInbox(q)' /\ InInbox(r)' /\ pending'[q].code = pending'[r].code => q = r
  BY DEF InboxOK, InInbox
<1> QED BY <1>3, <1>4 DEF InboxOK, Uncorrected, At, HoldsPending

\* Codes stay what they are where nothing is written, and are payments where something is.
LEMMA CodesGoOn ==
    ASSUME PaymentCodes, \A p \in PendingIds : RowStays(p),
           \A s \in Sessions :
               request'[s] = request[s] \/ request'[s].pc \notin {"ingest", "manual"}
                   \/ request'[s].code \in Receipts,
           \A t \in TxnIds : txn'[t].st # "none" =>
               \/ txn[t].st # "none" /\ txn'[t].base = txn[t].base /\ txn'[t].receipt = txn[t].receipt
               \/ txn'[t].base \in Receipts /\ txn'[t].receipt = txn'[t].base
    PROVE  PaymentCodes'
BY DEF PaymentCodes, RowStays

\* A row that nothing is written to.
LEMMA RowsStay ==
    UNCHANGED pending => \A p \in PendingIds : RowStays(p)
BY DEF RowStays, InInbox

\* What a step may do to the codes of the ledger.
CodesStay ==
    \A t \in TxnIds : txn'[t].st # "none" =>
        \/ txn[t].st # "none" /\ txn'[t].base = txn[t].base /\ txn'[t].receipt = txn[t].receipt
        \/ txn'[t].base \in Receipts /\ txn'[t].receipt = txn'[t].base

\* A step of a request that leaves the inbox as it is.
LEMMA AdvanceBase ==
    ASSUME TypeOK, KeysOK, ClaimBase, NEW s \in Sessions, GoesOn(s),
           request'[s].pc = "manual" => request'[s].code \in Receipts,
           \A r \in Sessions \ {s} : request'[r] = request[r],
           UNCHANGED pending, CodesStay
    PROVE  ClaimBase'
<1>1. \A p \in PendingIds : RowStays(p)
  BY RowsStay
<1>2. \A r \in Sessions : GoesOn(r)
  BY DEF GoesOn
<1>3. ASSUME NEW r \in Sessions, request[r].pc \in HoldsPending, request'[r].pc \in HoldsPending
      PROVE  InInbox(request[r].p)'
  <2>1. request'[r].p = request[r].p
    BY <1>2, <1>3 DEF GoesOn, HoldsPending
  <2>2. InInbox(request[r].p)
    BY <1>3 DEF ClaimBase, InboxOK
  <2> QED BY <2>1, <2>2 DEF InInbox
<1>4. \A r \in Sessions :
         request'[r] = request[r] \/ request'[r].pc \notin {"ingest", "manual"}
             \/ request'[r].code \in Receipts
  BY DEF GoesOn, HoldsPending
<1>5. PaymentCodes'
  BY <1>1, <1>4, CodesGoOn DEF ClaimBase, CodesStay
<1>6. InboxOK' /\ Uncorrected'
  BY <1>1, <1>2, <1>3, InboxGoesOn DEF ClaimBase
<1> QED BY <1>5, <1>6 DEF ClaimBase

\* A rollback, or another end of a request that leaves the inbox as it is.
LEMMA EndBase ==
    ASSUME TypeOK, KeysOK, ClaimBase, NEW s \in Sessions, End(s), UNCHANGED pending, CodesStay
    PROVE  ClaimBase'
<1>1. /\ request'[s] = Idle
      /\ \A r \in Sessions \ {s} : request'[r] = request[r]
  BY EndEffect
<1>2. GoesOn(s) /\ request'[s].pc = "idle"
  BY <1>1 DEF GoesOn, Idle
<1> QED BY <1>1, <1>2, AdvanceBase

\* A request that marks its row, or another one that nobody holds, and ends.
LEMMA MarkBase ==
    ASSUME TypeOK, KeysOK, ClaimBase, NEW s \in Sessions, NEW p \in PendingIds,
           NEW st \in PendingStatus \ {"none", "cleared"},
           InInbox(p), MarkPending(p, st), End(s), CodesStay
    PROVE  ClaimBase'
<1>1. /\ request'[s] = Idle
      /\ \A r \in Sessions \ {s} : request'[r] = request[r]
  BY EndEffect
<1>2. /\ pending'[p].st = st /\ pending'[p].code = pending[p].code
      /\ pending'[p].receipt = pending[p].receipt
      /\ \A q \in PendingIds \ {p} : pending'[q] = pending[q]
  BY DEF MarkPending, TypeOK, PendingRow
<1>3. \A q \in PendingIds : RowStays(q) /\ (InInbox(q) => InInbox(q)')
  BY <1>2 DEF RowStays, InInbox
<1>4. \A r \in Sessions : GoesOn(r)
  BY <1>1 DEF GoesOn, Idle
<1>5. ASSUME NEW r \in Sessions, request[r].pc \in HoldsPending, request'[r].pc \in HoldsPending
      PROVE  InInbox(request[r].p)'
  <2>1. request'[r] = request[r]
    BY <1>1, <1>5 DEF Idle, HoldsPending
  <2>2. InInbox(request[r].p) /\ request[r].p \in PendingIds
    BY <1>5 DEF ClaimBase, InboxOK, KeysOK, HoldsPending
  <2> QED BY <1>3, <2>1, <2>2 DEF InInbox
<1>6. PaymentCodes'
  BY <1>1, <1>3, CodesGoOn DEF ClaimBase, CodesStay, Idle
<1>7. InboxOK' /\ Uncorrected'
  BY <1>3, <1>4, <1>5, InboxGoesOn DEF ClaimBase
<1> QED BY <1>6, <1>7 DEF ClaimBase

\* Rejecting and clearing rows that nobody holds.
LEMMA InboxBase ==
    ASSUME TypeOK, KeysOK, ClaimBase
    PROVE  /\ \A p \in PendingIds : Reject(p) => ClaimBase'
           /\ \A P \in SUBSET PendingIds : ClearHistory(P) => ClaimBase'
<1>1. ASSUME UNCHANGED <<txn, request>>, \A p \in PendingIds : RowStays(p),
             \A p \in PendingIds : LockedPending(p) => pending'[p] = pending[p]
      PROVE  ClaimBase'
  <2>1. \A r \in Sessions : GoesOn(r)
    BY <1>1 DEF GoesOn
  <2>2. ASSUME NEW r \in Sessions, request[r].pc \in HoldsPending
        PROVE  InInbox(request[r].p)'
    <3>1. request[r].p \in PendingIds /\ LockedPending(request[r].p) /\ InInbox(request[r].p)
      BY <2>2 DEF ClaimBase, InboxOK, KeysOK, HoldsPending, LockedPending
    <3> QED BY <1>1, <3>1 DEF InInbox
  <2>3. PaymentCodes'
    BY <1>1, CodesGoOn DEF ClaimBase
  <2>4. InboxOK' /\ Uncorrected'
    BY <1>1, <2>1, <2>2, InboxGoesOn DEF ClaimBase
  <2> QED BY <2>3, <2>4 DEF ClaimBase
<1>2. ASSUME NEW p \in PendingIds, Reject(p)
      PROVE  ClaimBase'
  <2>1. /\ pending'[p].st = "rejected" /\ pending'[p].code = pending[p].code
        /\ pending'[p].receipt = pending[p].receipt
        /\ \A q \in PendingIds \ {p} : pending'[q] = pending[q]
        /\ InInbox(p) /\ ~LockedPending(p)
    BY <1>2 DEF Reject, MarkPending, TypeOK, PendingRow
  <2>2. \A q \in PendingIds : RowStays(q)
    BY <2>1 DEF RowStays, InInbox
  <2> QED BY <1>1, <1>2, <2>1, <2>2 DEF Reject
<1>3. ASSUME NEW P \in SUBSET PendingIds, ClearHistory(P)
      PROVE  ClaimBase'
  <2>1. ASSUME NEW q \in PendingIds
        PROVE  RowStays(q)
    <3>1. CASE q \in P
      <4>1. /\ pending'[q].st = "cleared" /\ pending'[q].code = pending[q].code
            /\ pending'[q].receipt = pending[q].receipt
        BY <1>3, <3>1 DEF ClearHistory, TypeOK, PendingRow
      <4> QED BY <1>3, <3>1, <4>1 DEF ClearHistory, RowStays, InInbox, IsProcessed
    <3>2. CASE q \notin P
      BY <1>3, <3>2 DEF ClearHistory, RowStays, InInbox
    <3> QED BY <3>1, <3>2
  <2>2. \A q \in PendingIds : LockedPending(q) => pending'[q] = pending[q]
    BY <1>3 DEF ClearHistory
  <2> QED BY <1>1, <1>3, <2>1, <2>2 DEF ClearHistory
<1> QED BY <1>2, <1>3

\* A request that fails leaves the inbox as it is.
LEMMA RollbackBase ==
    ASSUME TypeOK, KeysOK, ClaimBase, NEW s \in Sessions, Rollback(s)
    PROVE  ClaimBase'
<1>1. \A t \in TxnIds : txn'[t] = txn[t] \/ txn'[t] = NoTxn
  BY DEF Rollback, RolledBack
<1>2. \A t \in TxnIds : txn'[t].st # "none" =>
         txn[t].st # "none" /\ txn'[t].base = txn[t].base /\ txn'[t].receipt = txn[t].receipt
  BY <1>1 DEF NoTxn
<1> QED BY <1>2, EndBase DEF Rollback, CodesStay

\* The two steps of an ingestion.
LEMMA IngestBase ==
    ASSUME TypeOK, KeysOK, ClaimBase, NEW s \in Sessions
    PROVE  /\ \A r \in Receipts : IngestCheck(s, r) => ClaimBase'
           /\ IngestInsert(s) => ClaimBase'
<1>1. ASSUME NEW c \in Receipts, IngestCheck(s, c)
      PROVE  ClaimBase'
  <2>1. PICK p \in PendingIds : UnusedPending(p) /\ Begin(s, "ingest", p, None, c)
    BY <1>1 DEF IngestCheck
  <2>2. /\ request'[s] = [pc |-> "ingest", p |-> p, t |-> None, code |-> c]
        /\ \A q \in Sessions \ {s} : request'[q] = request[q]
    BY <2>1, BeginEffect DEF Codes, Pc
  <2>3. UNCHANGED <<pending, txn>>
    BY <1>1 DEF IngestCheck
  <2>4. PaymentCodes'
    BY <2>2, <2>3, RowsStay, CodesGoOn DEF ClaimBase
  <2>5. pending[p].st = "none" /\ \A q \in Sessions : request[q].p # p
    BY <2>1 DEF UnusedPending
  <2>6. InboxOK' /\ Uncorrected'
    BY <2>2, <2>3, <2>5 DEF ClaimBase, InboxOK, Uncorrected, InInbox, At, HoldsPending
  <2> QED BY <2>4, <2>6 DEF ClaimBase
<1>2. ASSUME IngestInsert(s)
      PROVE  ClaimBase'
  <2> DEFINE p == request[s].p
             c == request[s].code
  <2>1. /\ request'[s] = Idle /\ \A r \in Sessions \ {s} : request'[r] = request[r]
        /\ UNCHANGED txn /\ At(s, "ingest")
    BY <1>2, EndEffect DEF IngestInsert
  <2>2. CASE InboxHasCode(c)
    BY <1>2, <2>2, EndBase DEF IngestInsert, CodesStay
  <2>3. CASE ~InboxHasCode(c)
    <3>1. p \in PendingIds /\ c \in Receipts /\ pending[p].st = "none"
      BY <2>1 DEF KeysOK, ClaimBase, PaymentCodes, InboxOK, At
    <3>2. /\ pending'[p] = [st |-> "pending", code |-> c, receipt |-> c]
          /\ \A q \in PendingIds \ {p} : pending'[q] = pending[q]
      BY <1>2, <2>3, <3>1 DEF IngestInsert, TypeOK
    <3>3. PaymentCodes'
      BY <2>1, <3>1, <3>2 DEF ClaimBase, PaymentCodes, Idle
    <3>4. \A r \in Sessions \ {s} : request[r].p # p
      BY <2>1 DEF ClaimBase, InboxOK
    <3>5. \A q \in PendingIds : InInbox(q) => pending[q].code # c
      BY <2>3 DEF InboxHasCode
    <3>6. \A q \in PendingIds : InInbox(q)' => q = p \/ (InInbox(q) /\ pending'[q] = pending[q])
      BY <3>2 DEF InInbox
    <3>7. \A q, r \in PendingIds :
             InInbox(q)' /\ InInbox(r)' /\ pending'[q].code = pending'[r].code => q = r
      BY <3>2, <3>5, <3>6 DEF ClaimBase, InboxOK
    <3>8. ASSUME NEW r \in Sessions
          PROVE  /\ request'[r].pc \in HoldsPending =>
                       /\ InInbox(request[r].p)'
                       /\ \A q \in Sessions \ {r} :
                             request'[q].pc \in HoldsPending => request'[q].p # request'[r].p
                 /\ request'[r].pc = "ingest" =>
                       /\ pending'[request'[r].p].st = "none"
                       /\ \A q \in Sessions \ {r} : request'[q].p # request'[r].p
                 /\ request'[r].pc = "published" => pending'[request'[r].p].st # "none"
                 /\ request'[r].pc # "correct"
      <4>1. CASE r = s
        BY <2>1, <4>1 DEF Idle, HoldsPending
      <4>2. CASE r # s
        <5>1. request'[r] = request[r] /\ request[r].p # p
          BY <2>1, <3>4, <4>2
        <5>2. request[r].pc \in HoldsPending \cup {"ingest", "published"} =>
                 request[r].p \in PendingIds /\ pending'[request[r].p] = pending[request[r].p]
          BY <3>2, <5>1 DEF KeysOK, HoldsPending
        <5>3. None \notin PendingIds
          BY ConstantsAssumption
        <5> QED BY <2>1, <5>1, <5>2, <5>3 DEF ClaimBase, InboxOK, InInbox, At, Uncorrected, Idle, HoldsPending
      <4> QED BY <4>1, <4>2
    <3> QED BY <3>3, <3>7, <3>8 DEF ClaimBase, InboxOK, Uncorrected, At, HoldsPending
  <2> QED BY <2>2, <2>3
<1> QED BY <1>1, <1>2

\* The steps of a manual entry.
LEMMA ManualBase ==
    ASSUME TypeOK, KeysOK, ClaimBase, NEW s \in Sessions
    PROVE  /\ \A c \in Receipts : ManualCheck(s, c) => ClaimBase'
           /\ ManualInsert(s) => ClaimBase'
           /\ ManualRefused(s) => ClaimBase'
<1>1. ASSUME NEW c \in Receipts, ManualCheck(s, c)
      PROVE  ClaimBase'
  <2>1. PICK t \in TxnIds : /\ UnusedTxn(t)
                            /\ txn' = [txn EXCEPT ![t] = [NoTxn EXCEPT !.by = s]]
                            /\ Begin(s, "manual", None, t, c)
    BY <1>1 DEF ManualCheck
  <2>2. /\ request'[s] = [pc |-> "manual", p |-> None, t |-> t, code |-> c]
        /\ \A q \in Sessions \ {s} : request'[q] = request[q]
    BY <2>1, BeginEffect DEF Codes, Pc
  <2>3. GoesOn(s) /\ request'[s].code \in Receipts
    BY <2>2 DEF GoesOn
  <2>4. CodesStay
    BY <2>1 DEF CodesStay, NoTxn, TypeOK
  <2> QED BY <1>1, <2>2, <2>3, <2>4, AdvanceBase DEF ManualCheck
<1>2. ASSUME ManualInsert(s)
      PROVE  ClaimBase'
  <2>1. request[s].t \in TxnIds /\ request[s].code \in Receipts
    BY <1>2 DEF ManualInsert, KeysOK, ClaimBase, PaymentCodes, At
  <2>2. /\ \E amount \in Amounts : txn'[request[s].t] = ManualEntry(request[s].t, request[s].code, amount)
        /\ \A t \in TxnIds \ {request[s].t} : txn'[t] = txn[t]
    BY <1>2, <2>1 DEF ManualInsert, TypeOK
  <2>3. /\ txn'[request[s].t].base = request[s].code
        /\ txn'[request[s].t].receipt = request[s].code
    BY <2>2 DEF ManualEntry, Sealed, NewEntry
  <2>4. CodesStay
    BY <2>1, <2>2, <2>3 DEF CodesStay
  <2> QED BY <1>2, <2>4, EndBase DEF ManualInsert
<1>3. ManualRefused(s) => ClaimBase'
  BY RollbackBase DEF ManualRefused
<1> QED BY <1>1, <1>2, <1>3

\* The lock, the insert and the refusals of an approval.
LEMMA ApproveBase ==
    ASSUME TypeOK, KeysOK, ClaimBase, NEW s \in Sessions
    PROVE  /\ \A p \in PendingIds : ApproveLock(s, p) => ClaimBase'
           /\ ApproveInsert(s) => ClaimBase'
           /\ ApproveRefused(s) => ClaimBase'
           /\ ApproveStale(s) => ClaimBase'
<1>1. ASSUME NEW p \in PendingIds, ApproveLock(s, p)
      PROVE  ClaimBase'
  <2>1. PICK t \in TxnIds : /\ UnusedTxn(t)
                            /\ txn' = [txn EXCEPT ![t] = [NoTxn EXCEPT !.by = s]]
                            /\ Begin(s, "approve", p, t, NoCode)
    BY <1>1 DEF ApproveLock
  <2>2. /\ request'[s] = [pc |-> "approve", p |-> p, t |-> t, code |-> NoCode]
        /\ \A q \in Sessions \ {s} : request'[q] = request[q]
    BY <2>1, BeginEffect DEF Codes, Pc
  <2>3. CodesStay
    BY <2>1 DEF CodesStay, NoTxn, TypeOK
  <2>4. PaymentCodes'
    BY <1>1, <2>2, <2>3, RowsStay, CodesGoOn DEF ClaimBase, CodesStay, ApproveLock
  <2>5. InboxOK' /\ Uncorrected'
    BY <1>1, <2>2, InboxIsLocked DEF ClaimBase, ApproveLock
  <2> QED BY <2>4, <2>5 DEF ClaimBase
<1>2. ASSUME ApproveInsert(s)
      PROVE  ClaimBase'
  <2> DEFINE row == pending[request[s].p]
  <2>1. request[s].t \in TxnIds /\ request[s].p \in PendingIds /\ At(s, "approve")
    BY <1>2 DEF ApproveInsert, KeysOK, At
  <2>2. row.code \in Receipts /\ row.receipt = row.code
    BY <2>1 DEF ClaimBase, PaymentCodes, InboxOK, InInbox, At, HoldsPending
  <2>3. /\ txn'[request[s].t] = NewEntry(s, row.code, 0, row.receipt)
        /\ \A t \in TxnIds \ {request[s].t} : txn'[t] = txn[t]
    BY <1>2, <2>1 DEF ApproveInsert, TypeOK
  <2>4. CodesStay
    BY <2>2, <2>3 DEF CodesStay, NewEntry
  <2>5. /\ request'[s].pc = "flushed" /\ request'[s].p = request[s].p
        /\ \A q \in Sessions \ {s} : request'[q] = request[q]
    BY <1>2, AdvanceEffect DEF ApproveInsert, Pc
  <2>6. GoesOn(s)
    BY <2>1, <2>5 DEF GoesOn, HoldsPending, At
  <2> QED BY <1>2, <2>4, <2>5, <2>6, AdvanceBase DEF ApproveInsert
<1>3. ApproveRefused(s) => ClaimBase'
  BY RollbackBase DEF ApproveRefused
<1>4. ApproveStale(s) => ClaimBase'
  BY RollbackBase DEF ApproveStale
<1> QED BY <1>1, <1>2, <1>3, <1>4

\* The commit or rollback of a training hook.
LEMMA TrainingBase ==
    ASSUME TypeOK, KeysOK, ClaimBase, NEW s \in Sessions
    PROVE  /\ TrainingCommit(s) => ClaimBase'
           /\ TrainingRollback(s) => ClaimBase'
<1>1. ASSUME TrainingCommit(s)
      PROVE  ClaimBase'
  <2>1. /\ request'[s].pc = "published" /\ request'[s].p = request[s].p
        /\ \A q \in Sessions \ {s} : request'[q] = request[q]
    BY <1>1, AdvanceEffect DEF TrainingCommit, Pc
  <2>2. GoesOn(s)
    BY <1>1, <2>1 DEF GoesOn, HoldsPending, At, TrainingCommit
  <2>3. CodesStay
    BY <1>1 DEF CodesStay, TrainingCommit, Committed, TypeOK, TxnRow
  <2> QED BY <1>1, <2>1, <2>2, <2>3, AdvanceBase DEF TrainingCommit
<1>2. ASSUME TrainingRollback(s)
      PROVE  ClaimBase'
  <2>1. /\ request'[s].pc = "published" /\ request'[s].p = request[s].p
        /\ \A q \in Sessions \ {s} : request'[q] = request[q]
    BY <1>2 DEF TrainingRollback, TypeOK, Request
  <2>2. GoesOn(s)
    BY <1>2, <2>1 DEF GoesOn, HoldsPending, At, TrainingRollback
  <2>3. CodesStay
    BY <1>2 DEF CodesStay, TrainingRollback, RolledBack, NoTxn
  <2> QED BY <1>2, <2>1, <2>2, <2>3, AdvanceBase DEF TrainingRollback
<1> QED BY <1>1, <1>2

\* The two ways an approval ends well.
LEMMA ApproveCommitBase ==
    ASSUME TypeOK, KeysOK, ClaimBase, NEW s \in Sessions
    PROVE  /\ ApproveCommit(s) => ClaimBase'
           /\ ApproveCommitLate(s) => ClaimBase'
<1>1. ASSUME ApproveCommit(s)
      PROVE  ClaimBase'
  <2>1. request[s].t \in TxnIds /\ request[s].p \in PendingIds /\ InInbox(request[s].p)
    BY <1>1 DEF ApproveCommit, KeysOK, At, ClaimBase, InboxOK, HoldsPending
  <2>2. CodesStay
    BY <1>1, <2>1 DEF CodesStay, ApproveCommit, Sealed, TypeOK, TxnRow
  <2> QED BY <1>1, <2>1, <2>2, MarkBase DEF ApproveCommit, PendingStatus
<1>2. ASSUME ApproveCommitLate(s)
      PROVE  ClaimBase'
  <2>1. request[s].p \in PendingIds /\ InInbox(request[s].p)
    BY <1>2 DEF ApproveCommitLate, KeysOK, At
  <2>2. CodesStay
    BY <1>2 DEF CodesStay, ApproveCommitLate, TypeOK, TxnRow
  <2> QED BY <1>2, <2>1, <2>2, MarkBase DEF ApproveCommitLate, PendingStatus
<1> QED BY <1>1, <1>2

\* The steps of a split.
LEMMA SplitBase ==
    ASSUME TypeOK, KeysOK, ClaimBase, NEW s \in Sessions
    PROVE  /\ \A p \in PendingIds : SplitLock(s, p) => ClaimBase'
           /\ SplitInsert(s) => ClaimBase'
           /\ SplitRefused(s) => ClaimBase'
           /\ SplitCommit(s) => ClaimBase'
<1>1. ASSUME NEW p \in PendingIds, SplitLock(s, p)
      PROVE  ClaimBase'
  <2>0. /\ Begin(s, "split", p, None, NoCode) /\ UNCHANGED pending
        /\ At(s, "idle") /\ InInbox(p) /\ ~LockedPending(p)
    BY <1>1 DEF SplitLock
  <2>1. /\ request'[s] = [pc |-> "split", p |-> p, t |-> None, code |-> NoCode]
        /\ \A q \in Sessions \ {s} : request'[q] = request[q]
    BY <2>0, BeginEffect DEF Codes, Pc
  <2>2. ASSUME NEW t \in TxnIds
        PROVE  txn'[t] = txn[t] \/ txn'[t].st = "none"
    <3>1. \/ txn'[t] = txn[t]
          \/ \E i : txn'[t] = [NoTxn EXCEPT !.by = s, !.part = i]
      BY <1>1 DEF SplitLock
    <3> QED BY <3>1 DEF NoTxn
  <2>3. CodesStay
    BY <2>2 DEF CodesStay
  <2>4. PaymentCodes'
    BY <2>0, <2>1, <2>3, RowsStay, CodesGoOn DEF ClaimBase, CodesStay
  <2>5. InboxOK' /\ Uncorrected'
    BY <2>0, <2>1, InboxIsLocked DEF ClaimBase
  <2> QED BY <2>4, <2>5 DEF ClaimBase
<1>2. ASSUME SplitInsert(s)
      PROVE  ClaimBase'
  <2> DEFINE row == pending[request[s].p]
  <2>1. request[s].p \in PendingIds /\ At(s, "split")
    BY <1>2 DEF SplitInsert, KeysOK, At
  <2>2. row.code \in Receipts /\ row.receipt = row.code
    BY <2>1 DEF ClaimBase, PaymentCodes, InboxOK, InInbox, At, HoldsPending
  <2>3. \A t \in TxnIds : txn'[t] = txn[t] \/ \E amount \in Amounts : txn'[t] = PartEntry(s, t, row, amount)
    BY <1>2 DEF SplitInsert
  <2>4. \A t \in TxnIds : \A amount \in Amounts :
           PartEntry(s, t, row, amount).base = row.code /\ PartEntry(s, t, row, amount).receipt = row.code
    BY <2>2 DEF PartEntry, Sealed, NewEntry
  <2>5. CodesStay
    BY <2>2, <2>3, <2>4 DEF CodesStay
  <2>6. /\ request'[s].pc = "split_flushed" /\ request'[s].p = request[s].p
        /\ \A q \in Sessions \ {s} : request'[q] = request[q]
    BY <1>2, AdvanceEffect DEF SplitInsert, Pc
  <2>7. GoesOn(s)
    BY <2>1, <2>6 DEF GoesOn, HoldsPending, At
  <2> QED BY <1>2, <2>5, <2>6, <2>7, AdvanceBase DEF SplitInsert
<1>3. SplitRefused(s) => ClaimBase'
  BY RollbackBase DEF SplitRefused
<1>4. ASSUME SplitCommit(s)
      PROVE  ClaimBase'
  <2>1. request[s].p \in PendingIds /\ InInbox(request[s].p)
    BY <1>4 DEF SplitCommit, KeysOK, At, ClaimBase, InboxOK, HoldsPending
  <2>2. CodesStay
    BY <1>4 DEF CodesStay, SplitCommit, Committed, TypeOK, TxnRow
  <2> QED BY <1>4, <2>1, <2>2, MarkBase DEF SplitCommit, PendingStatus
<1> QED BY <1>1, <1>2, <1>3, <1>4

\* The two steps of an edit.
LEMMA EditBase ==
    ASSUME TypeOK, KeysOK, TargetsOK, ClaimBase, NEW s \in Sessions
    PROVE  /\ \A t \in TxnIds : EditLock(s, t) => ClaimBase'
           /\ EditCommit(s) => ClaimBase'
<1>1. ASSUME NEW t \in TxnIds, EditLock(s, t)
      PROVE  ClaimBase'
  <2>1. PICK u \in TxnIds, amount \in Amounts :
           UnusedTxn(u) /\ txn' = [txn EXCEPT ![u] = Replacement(s, t, u, amount)]
    BY <1>1 DEF EditLock
  <2>2. /\ request'[s] = [pc |-> "edit", p |-> None, t |-> t, code |-> NoCode]
        /\ \A q \in Sessions \ {s} : request'[q] = request[q]
    BY <1>1, BeginEffect DEF EditLock, Codes, Pc
  <2>3. /\ txn'[u] = Replacement(s, t, u, amount)
        /\ \A v \in TxnIds \ {u} : txn'[v] = txn[v]
    BY <2>1 DEF TypeOK
  <2>4. Replacement(s, t, u, amount).base = txn[t].base /\ Replacement(s, t, u, amount).receipt = txn[t].receipt
    BY DEF Replacement, Sealed, NewEntry
  <2>5. txn[t].base \in Receipts /\ txn[t].receipt = txn[t].base
    BY <1>1 DEF EditLock, Live, ClaimBase, PaymentCodes
  <2>6. CodesStay
    BY <2>3, <2>4, <2>5 DEF CodesStay
  <2>7. GoesOn(s)
    BY <2>2 DEF GoesOn
  <2> QED BY <1>1, <2>2, <2>6, <2>7, AdvanceBase DEF EditLock
<1>2. ASSUME EditCommit(s)
      PROVE  ClaimBase'
  <2>1. \A t \in TxnIds : /\ Committed(s)[t].st = txn[t].st /\ Committed(s)[t].base = txn[t].base
                           /\ Committed(s)[t].receipt = txn[t].receipt
    BY DEF Committed, TypeOK, TxnRow
  <2>2. /\ At(s, "edit") /\ Live(request[s].t) /\ request[s].t \in TxnIds
        /\ txn' = [Committed(s) EXCEPT ![request[s].t] = Superseded(@)]
    BY <1>2 DEF EditCommit, TargetsOK, Target, KeysOK, At
  <2>3. \A t \in TxnIds : txn'[t].base = txn[t].base /\ txn'[t].receipt = txn[t].receipt
    BY <2>1, <2>2, CommitTypes DEF Superseded, TxnRow
  <2>4. \A t \in TxnIds \ {request[s].t} : txn'[t].st = txn[t].st
    BY <2>1, <2>2, CommitTypes
  <2>5. CodesStay
    BY <2>2, <2>3, <2>4 DEF CodesStay, Live
  <2> QED BY <1>2, <2>5, EndBase DEF EditCommit
<1> QED BY <1>1, <1>2

\* The two steps of an undo.
LEMMA UndoBase ==
    ASSUME TypeOK, KeysOK, TargetsOK, ClaimBase, NEW s \in Sessions
    PROVE  /\ \A p \in PendingIds : UndoLock(s, p) => ClaimBase'
           /\ UndoCommit(s) => ClaimBase'
<1>1. ASSUME NEW p \in PendingIds, UndoLock(s, p)
      PROVE  ClaimBase'
  <2>1. EntryOf(p) \in TxnIds \cup {None}
    BY DEF EntryOf, Taken
  <2>2. /\ request'[s] = [pc |-> "undo", p |-> p, t |-> EntryOf(p), code |-> NoCode]
        /\ \A q \in Sessions \ {s} : request'[q] = request[q]
    BY <1>1, <2>1, BeginEffect DEF UndoLock, Codes, Pc
  <2>3. PaymentCodes'
    BY <1>1, <2>2, RowsStay, CodesGoOn DEF ClaimBase, UndoLock
  <2>4. InInbox(p)
    BY <1>1 DEF UndoLock, InInbox, IsProcessed
  <2>5. InboxOK' /\ Uncorrected'
    BY <1>1, <2>2, <2>4, InboxIsLocked DEF ClaimBase, UndoLock
  <2> QED BY <2>3, <2>5 DEF ClaimBase
<1>2. ASSUME UndoCommit(s)
      PROVE  ClaimBase'
  <2>1. request[s].p \in PendingIds /\ InInbox(request[s].p)
    BY <1>2 DEF UndoCommit, KeysOK, At, ClaimBase, InboxOK, HoldsPending
  <2>2. request[s].t # None => txn[request[s].t].st # "none"
    BY <1>2 DEF UndoCommit, TargetsOK, Target, At
  <2>3. CASE request[s].t = None
    BY <1>2, <2>1, <2>3, MarkBase DEF UndoCommit, PendingStatus, CodesStay
  <2>4. CASE request[s].t # None
    <3>1. /\ \A t \in TxnIds : txn'[t].base = txn[t].base /\ txn'[t].receipt = txn[t].receipt
          /\ \A t \in TxnIds \ {request[s].t} : txn'[t] = txn[t]
      BY <1>2, <2>4 DEF UndoCommit, TypeOK, TxnRow
    <3>2. CodesStay
      BY <2>2, <2>4, <3>1 DEF CodesStay
    <3> QED BY <1>2, <2>1, <3>2, MarkBase DEF UndoCommit, PendingStatus
  <2> QED BY <2>3, <2>4
<1> QED BY <1>1, <1>2

\* Where no code is corrected, every step keeps codes and locks in order.
LEMMA BaseStep ==
    ASSUME "correct" \notin Ops, IInv, ClaimBase, [Next]_vars
    PROVE  ClaimBase'
<1> USE DEF IInv
<1>1. ASSUME NEW s \in Sessions, Start(s)
      PROVE  ClaimBase'
  <2>1. \A p \in PendingIds : ~CorrectRead(s, p)
    BY DEF CorrectRead
  <2> QED BY <1>1, <2>1, IngestBase, ManualBase, ApproveBase, SplitBase, UndoBase, EditBase DEF Start
<1>2. ASSUME NEW s \in Sessions, Continue(s)
      PROVE  ClaimBase'
  <2>1. ~EditTx(s) /\ ~Reparse(s) /\ ~CorrectStale(s)
    BY DEF ClaimBase, Uncorrected, EditTx, Reparse, SetCode, CorrectStale
  <2> QED BY <1>2, <2>1, IngestBase, ManualBase, ApproveBase, TrainingBase, ApproveCommitBase,
             SplitBase, EditBase, UndoBase DEF Continue
<1>3. ASSUME NEW s \in Sessions, Abandon(s)
      PROVE  ClaimBase'
  BY <1>3, RollbackBase DEF Abandon
<1>4. CASE UNCHANGED vars
  BY <1>4 DEF vars, ClaimBase, PaymentCodes, InboxOK, Uncorrected, InInbox, At
<1> QED BY <1>1, <1>2, <1>3, <1>4, InboxBase DEF Next

\* The empty tables have it.
LEMMA BaseInit == Init => ClaimBase
BY DEF Init, ClaimBase, PaymentCodes, InboxOK, Uncorrected, InInbox, At, HoldsPending,
       NoPending, NoTxn, Idle

-----------------------------------------------------------------------------
(* The claims: approved once *)

\* Without splits no entry is a part.
Whole ==
    /\ \A s \in Sessions : request[s].pc \notin {"split", "split_flushed"}
    /\ \A t \in TxnIds : txn[t].part = 0

\* Where nothing is split, no step makes a part.
LEMMA WholeStep ==
    ASSUME "split" \notin Ops, IInv, Whole, [Next]_vars
    PROVE  Whole'
<1> USE DEF IInv
<1>1. ASSUME NEW s \in Sessions, NEW pc \in Pc \ {"split", "split_flushed"}, NEW p, NEW t, NEW c,
             Begin(s, pc, p, t, c)
      PROVE  \A r \in Sessions : request'[r].pc \notin {"split", "split_flushed"}
  BY <1>1 DEF Begin, TypeOK, Whole
<1>2. ASSUME NEW s \in Sessions, End(s)
      PROVE  \A r \in Sessions : request'[r].pc \notin {"split", "split_flushed"}
  BY <1>2 DEF End, TypeOK, Whole, Idle
<1>3. ASSUME NEW s \in Sessions, NEW t, UNCHANGED pending,
             txn' = [txn EXCEPT ![t] = [NoTxn EXCEPT !.by = s]]
      PROVE  \A u \in TxnIds : txn'[u].part = 0
  BY <1>3 DEF TypeOK, Whole, NoTxn
<1>4. ASSUME NEW s \in Sessions, Start(s)
      PROVE  Whole'
  <2>1. CASE \E r \in Receipts : IngestCheck(s, r)
    BY <1>1, <2>1 DEF IngestCheck, Whole, Pc
  <2>2. CASE \E r \in Receipts : ManualCheck(s, r)
    BY <1>1, <1>3, <2>2 DEF ManualCheck, Whole, Pc
  <2>3. CASE \E p \in PendingIds : ApproveLock(s, p)
    BY <1>1, <1>3, <2>3 DEF ApproveLock, Whole, Pc
  <2>4. CASE \E p \in PendingIds : SplitLock(s, p)
    BY <2>4 DEF SplitLock
  <2>5. CASE \E p \in PendingIds : UndoLock(s, p) \/ CorrectRead(s, p)
    BY <1>1, <2>5 DEF UndoLock, CorrectRead, Whole, Pc
  <2>6. ASSUME NEW t \in TxnIds, EditLock(s, t)
        PROVE  Whole'
    <3>1. PICK u \in TxnIds, amount \in Amounts : txn' = [txn EXCEPT ![u] = Replacement(s, t, u, amount)]
      BY <2>6 DEF EditLock
    <3>2. Replacement(s, t, u, amount).part = txn[t].part
      BY DEF Replacement, Sealed, NewEntry
    <3>3. \A v \in TxnIds : txn'[v].part = 0
      BY <3>1, <3>2 DEF TypeOK, Whole
    <3> QED BY <1>1, <2>6, <3>3 DEF EditLock, Whole, Pc
  <2> QED BY <1>4, <2>1, <2>2, <2>3, <2>4, <2>5, <2>6 DEF Start
<1>5. ASSUME NEW s \in Sessions, Rollback(s)
      PROVE  Whole'
  BY <1>2, <1>5 DEF Rollback, RolledBack, NoTxn, Whole
<1>6. \A s \in Sessions : \A t \in TxnIds : Committed(s)[t].part = 0
  BY DEF Committed, TypeOK, TxnRow, Whole
<1>7. ASSUME NEW s \in Sessions, Continue(s)
      PROVE  Whole'
  <2>1. CASE \/ IngestInsert(s) \/ EditTx(s) \/ Reparse(s)
    BY <1>2, <2>1 DEF IngestInsert, EditTx, Reparse, SetCode, Whole
  <2>2. CASE \/ ManualRefused(s) \/ ApproveRefused(s) \/ ApproveStale(s) \/ CorrectStale(s)
    BY <1>5, <2>2 DEF ManualRefused, ApproveRefused, ApproveStale, CorrectStale
  <2>3. CASE ManualInsert(s)
    <3>1. \A amount \in Amounts : ManualEntry(request[s].t, request[s].code, amount).part = 0
      BY DEF ManualEntry, Sealed, NewEntry
    <3>2. \A u \in TxnIds : txn'[u].part = 0
      BY <2>3, <3>1 DEF ManualInsert, TypeOK, Whole
    <3> QED BY <1>2, <2>3, <3>2 DEF ManualInsert, Whole
  <2>4. CASE ApproveInsert(s)
    <3>1. /\ request'[s].pc = "flushed"
          /\ \A r \in Sessions \ {s} : request'[r] = request[r]
      BY <2>4, AdvanceEffect DEF ApproveInsert, Pc
    <3>2. \A u \in TxnIds : txn'[u].part = 0
      BY <2>4 DEF ApproveInsert, NewEntry, TypeOK, Whole
    <3> QED BY <3>1, <3>2 DEF Whole
  <2>5. CASE TrainingCommit(s)
    <3>1. /\ request'[s].pc = "published"
          /\ \A r \in Sessions \ {s} : request'[r] = request[r]
      BY <2>5, AdvanceEffect DEF TrainingCommit, Pc
    <3> QED BY <1>6, <2>5, <3>1 DEF TrainingCommit, Whole
  <2>6. CASE TrainingRollback(s)
    <3>1. /\ request'[s].pc = "published"
          /\ \A r \in Sessions \ {s} : request'[r] = request[r]
      BY <2>6 DEF TrainingRollback, TypeOK, Request
    <3> QED BY <2>6, <3>1 DEF TrainingRollback, RolledBack, NoTxn, Whole
  <2>7. CASE ApproveCommit(s)
    <3>1. \A u \in TxnIds : txn'[u].part = 0
      BY <2>7 DEF ApproveCommit, Sealed, TypeOK, TxnRow, Whole
    <3> QED BY <1>2, <2>7, <3>1 DEF ApproveCommit, Whole
  <2>8. CASE ApproveCommitLate(s)
    <3>1. \A u \in TxnIds : txn'[u].part = 0
      BY <2>8 DEF ApproveCommitLate, TypeOK, TxnRow, Whole
    <3> QED BY <1>2, <2>8, <3>1 DEF ApproveCommitLate, Whole
  <2>9. ~SplitInsert(s) /\ ~SplitRefused(s) /\ ~SplitCommit(s)
    BY DEF Whole, SplitInsert, SplitRefused, SplitCommit, At
  <2>10. CASE EditCommit(s)
    <3>1. \A u \in TxnIds : txn'[u].part = 0
      BY <1>6, <2>10, CommitTypes DEF EditCommit, Superseded, TxnRow
    <3> QED BY <1>2, <2>10, <3>1 DEF EditCommit, Whole
  <2>11. CASE UndoCommit(s)
    <3>1. \A u \in TxnIds : txn'[u].part = 0
      BY <2>11 DEF UndoCommit, TypeOK, TxnRow, Whole
    <3> QED BY <1>2, <2>11, <3>1 DEF UndoCommit, Whole
  <2> QED BY <1>7, <2>1, <2>2, <2>3, <2>4, <2>5, <2>6, <2>7, <2>8, <2>9, <2>10, <2>11 DEF Continue
<1>8. CASE \/ \E s \in Sessions : Abandon(s)
           \/ \E p \in PendingIds : Reject(p)
           \/ \E P \in SUBSET PendingIds : ClearHistory(P)
           \/ UNCHANGED vars
  BY <1>5, <1>8 DEF Abandon, Reject, ClearHistory, vars, Whole
<1> QED BY <1>4, <1>7, <1>8 DEF Next

\* Whatever ingestions, manual entries, approvals, edits and undos overlap, are repeated,
\* fail or die, a payment has one approved entry, where treasurers neither split it nor
\* correct its code: the duplicate checks and the unique code of the ledger suffice.
THEOREM PaymentsCountOnce ==
    ASSUME "split" \notin Ops, "correct" \notin Ops
    PROVE  Spec => []ApprovedOnce
<1>1. Init => ClaimBase /\ Whole
  BY BaseInit DEF Init, Whole, NoTxn, Idle
<1>2. IInv /\ ClaimBase /\ Whole /\ [Next]_vars => ClaimBase' /\ Whole'
  BY BaseStep, WholeStep
<1>3. CountedOnce /\ ClaimBase /\ Whole => ApprovedOnce
  BY ConstantsAssumption DEF CountedOnce, ApprovedOnce, ClaimBase, PaymentCodes, Whole, Live
<1> QED BY <1>1, <1>2, <1>3, Inductive, CountsOnce, PTL DEF Spec

-----------------------------------------------------------------------------
(* The claims: approved is recorded *)

\* What a request that has flushed, published or found an entry knows of its code.
WritesCode(s) ==
    LET c == pending[request[s].p].code IN
    /\ request[s].pc \in {"flushed", "split_flushed"} =>
          \A t \in TxnIds : txn[t].by = s => txn[t].base = c
    /\ At(s, "published") => request[s].t # None /\ txn[request[s].t].base = c
    /\ At(s, "undo") =>
          /\ IsProcessed(request[s].p)
          /\ request[s].t # None => /\ pending[request[s].p].st # "rejected"
                                    /\ txn[request[s].t].base = c

\* An entry that counts and is sealed.
Record(t) == Live(t) /\ txn[t].seal # NoSeal

\* The payment of code c is recorded whole, or in parts.
InWhole(c) == \E t \in TxnIds : Record(t) /\ txn[t].base = c /\ txn[t].part = 0

InParts(c) == \E t \in TxnIds : Record(t) /\ txn[t].base = c /\ txn[t].part # 0

\* s approves a row of code c and is between its commits.
Publishing(s, c) == At(s, "published") /\ txn[request[s].t].base = c

\* An approved row has its record.  While an approval is between its commits, no row of its
\* code is approved and no other approval is as far; what it has published counts, or was
\* replaced by an edit, which seals.
RecordedWhole(c) ==
    /\ \A p \in PendingIds : pending[p].st = "approved" /\ pending[p].code = c => InWhole(c)
    /\ \A s \in Sessions :
          Publishing(s, c) =>
              /\ Live(request[s].t) \/ InWhole(c)
              /\ \A p \in PendingIds : pending[p].code = c => pending[p].st # "approved"
              /\ \A r \in Sessions \ {s} : ~Publishing(r, c)

\* Once a payment is recorded in parts it stays so; until then RecordedWhole holds of it.
RecordsOK ==
    /\ \A c \in Receipts : InParts(c) \/ RecordedWhole(c)
    /\ \A p \in PendingIds : pending[p].st = "split_approved" => InParts(pending[p].code)

\* What "approved is recorded" needs besides.
ClaimRest == (\A s \in Sessions : WritesCode(s)) /\ RecordsOK

\* What a step of s leaves alone: the requests of others, their rows, and of the inbox what
\* they hold; committed entries keep their code.
Frame(s) ==
    /\ \A r \in Sessions \ {s} : request'[r] = request[r]
    /\ \A t \in TxnIds : txn[t].by \notin {s, None} \/ txn'[t].by \notin {s, None} => txn'[t] = txn[t]
    /\ \A t \in TxnIds : txn[t].by = None /\ txn[t].st # "none" =>
          /\ txn'[t].by = None /\ txn'[t].base = txn[t].base /\ txn'[t].part = txn[t].part
    /\ \A p \in PendingIds : pending[p].st # "none" => pending'[p].code = pending[p].code
    /\ \A r \in Sessions \ {s} :
          At(r, "undo") => pending'[request[r].p].st = pending[request[r].p].st

\* The other requests know what they knew.
LEMMA OthersWrite ==
    ASSUME IInv, ClaimBase, ClaimRest, NEW s \in Sessions, Frame(s), NEW r \in Sessions \ {s}
    PROVE  WritesCode(r)'
<1> DEFINE p == request[r].p
           t == request[r].t
<1>1. WritesCode(r) /\ request'[r] = request[r] /\ r # None
  BY ConstantsAssumption DEF ClaimRest, Frame
<1>2. \A u \in TxnIds : txn'[u].by = r => txn'[u] = txn[u]
  BY <1>1 DEF Frame
<1>3. request[r].pc \in HoldsPending \cup {"published"} => p \in PendingIds /\ pending'[p].code = pending[p].code
  <2>1. request[r].pc \in HoldsPending => InInbox(p)
    BY DEF ClaimBase, InboxOK
  <2>2. At(r, "published") => pending[p].st # "none"
    BY DEF ClaimBase, InboxOK
  <2> QED BY <2>1, <2>2 DEF Frame, InInbox, IInv, KeysOK, HoldsPending, At
<1>4. request[r].pc \in {"published", "undo"} /\ t # None => txn'[t].base = txn[t].base
  BY DEF IInv, TargetsOK, Target, Frame, TypeOK, Request
<1>5. request[r].pc \in {"flushed", "split_flushed"} =>
          \A u \in TxnIds : txn'[u].by = r => txn'[u].base = pending'[p].code
  BY <1>1, <1>2, <1>3 DEF WritesCode, HoldsPending
<1>6. At(r, "published") => t # None /\ txn'[t].base = pending'[p].code
  BY <1>1, <1>3, <1>4 DEF WritesCode, At
<1>7. At(r, "undo") =>
          /\ pending'[p].st \in {"approved", "split_approved", "rejected"}
          /\ t # None => pending'[p].st # "rejected" /\ txn'[t].base = pending'[p].code
  BY <1>1, <1>3, <1>4 DEF WritesCode, At, HoldsPending, Frame, IsProcessed
<1> QED BY <1>1, <1>5, <1>6, <1>7 DEF WritesCode, At, IsProcessed

\* Entries that are committed stay as they are, and no row is newly approved.
Quiet ==
    /\ \A t \in TxnIds : txn[t].by = None /\ txn[t].st # "none" => txn'[t] = txn[t]
    /\ \A p \in PendingIds :
          pending'[p].st \in {"approved", "split_approved"} =>
              pending'[p].st = pending[p].st /\ pending'[p].code = pending[p].code

\* Then records stay what they are.
LEMMA RecordsStand ==
    ASSUME IInv, ClaimBase, ClaimRest, Quiet,
           \A s \in Sessions : At(s, "published")' => request'[s] = request[s]
    PROVE  RecordsOK'
<1>1. ASSUME NEW t \in TxnIds, Live(t)
      PROVE  txn'[t] = txn[t] /\ Live(t)'
  BY <1>1 DEF Quiet, Live
<1>2. \A c : (InParts(c) => InParts(c)') /\ (InWhole(c) => InWhole(c)')
  BY <1>1 DEF InParts, InWhole, Record
<1>3. ASSUME NEW s \in Sessions, At(s, "published")'
      PROVE  /\ At(s, "published") /\ request'[s].t = request[s].t /\ request[s].t \in TxnIds
             /\ txn'[request[s].t] = txn[request[s].t]
  <2>1. At(s, "published") /\ request'[s].t = request[s].t
    BY <1>3 DEF At
  <2>2. request[s].t # None
    BY <2>1 DEF ClaimRest, WritesCode
  <2> QED BY <2>1, <2>2 DEF IInv, TargetsOK, Target, TypeOK, Request, Quiet, At
<1>4. ASSUME NEW c \in Receipts, RecordedWhole(c)
      PROVE  RecordedWhole(c)'
  <2>1. \A s \in Sessions : Publishing(s, c)' => Publishing(s, c) /\ (Live(request[s].t) => Live(request[s].t)')
    BY <1>3 DEF Publishing, Live, At
  <2> QED BY <1>2, <1>4, <2>1 DEF RecordedWhole, Quiet
<1>5. \A p \in PendingIds : pending'[p].st = "split_approved" => InParts(pending[p].code)' /\ pending'[p].code = pending[p].code
  BY <1>2 DEF ClaimRest, RecordsOK, Quiet
<1> QED BY <1>2, <1>4, <1>5 DEF ClaimRest, RecordsOK

\* So a quiet step of s is a matter of what s itself knows.
LEMMA QuietClaim ==
    ASSUME IInv, ClaimBase, ClaimRest, NEW s \in Sessions, Frame(s), Quiet,
           request'[s].pc # "published", WritesCode(s)'
    PROVE  ClaimRest'
<1>1. \A r \in Sessions : WritesCode(r)'
  BY OthersWrite
<1>2. RecordsOK'
  BY RecordsStand DEF Frame, At
<1> QED BY <1>1, <1>2 DEF ClaimRest

\* A request that ends, or begins without an entry, knows nothing.
LEMMA NothingKnown ==
    ASSUME NEW s \in Sessions,
           request'[s].pc \notin {"flushed", "split_flushed", "published", "undo"}
    PROVE  WritesCode(s)' /\ request'[s].pc # "published"
BY DEF WritesCode, At

\* A rollback.
LEMMA RollbackClaim ==
    ASSUME IInv, ClaimBase, ClaimRest, NEW s \in Sessions, Rollback(s)
    PROVE  ClaimRest'
<1> USE Writers DEF IInv
<1>1. /\ request'[s].pc = "idle" /\ \A r \in Sessions \ {s} : request'[r] = request[r]
  BY EndEffect DEF Rollback, Idle
<1>2. /\ \A t \in TxnIds : txn[t].by # s => txn'[t] = txn[t]
      /\ \A t \in TxnIds : txn[t].by = s => txn'[t].by = None
      /\ UNCHANGED pending
  BY DEF Rollback, RolledBack, NoTxn
<1>3. Frame(s) /\ Quiet
  BY <1>1, <1>2 DEF Frame, Quiet
<1> QED BY <1>1, <1>3, NothingKnown, QuietClaim

\* Reserving a key for an entry.
LEMMA ReserveClaim ==
    ASSUME IInv, ClaimBase, ClaimRest, NEW s \in Sessions, NEW t \in TxnIds,
           UnusedTxn(t), txn' = [txn EXCEPT ![t] = [NoTxn EXCEPT !.by = s]],
           request'[s].pc \in {"approve", "manual"},
           \A r \in Sessions \ {s} : request'[r] = request[r],
           UNCHANGED pending
    PROVE  ClaimRest'
<1>1. /\ txn'[t].by = s /\ \A u \in TxnIds \ {t} : txn'[u] = txn[u]
      /\ txn[t].st = "none" /\ txn[t].by = None
  BY DEF UnusedTxn, IInv, TypeOK, NoTxn
<1>2. Frame(s) /\ Quiet
  BY <1>1 DEF Frame, Quiet
<1> QED BY <1>2, NothingKnown, QuietClaim

\* The two steps of an ingestion.
LEMMA IngestClaim ==
    ASSUME IInv, ClaimBase, ClaimRest, NEW s \in Sessions
    PROVE  /\ \A c \in Receipts : IngestCheck(s, c) => ClaimRest'
           /\ IngestInsert(s) => ClaimRest'
<1> USE DEF IInv
<1>1. ASSUME NEW c \in Receipts, IngestCheck(s, c)
      PROVE  ClaimRest'
  <2>1. PICK p \in PendingIds : Begin(s, "ingest", p, None, c)
    BY <1>1 DEF IngestCheck
  <2>2. /\ request'[s] = [pc |-> "ingest", p |-> p, t |-> None, code |-> c]
        /\ \A q \in Sessions \ {s} : request'[q] = request[q]
    BY <2>1, BeginEffect DEF Codes, Pc
  <2>3. UNCHANGED <<pending, txn>>
    BY <1>1 DEF IngestCheck
  <2>4. Frame(s) /\ Quiet
    BY <2>2, <2>3 DEF Frame, Quiet
  <2> QED BY <2>2, <2>4, NothingKnown, QuietClaim
<1>2. ASSUME IngestInsert(s)
      PROVE  ClaimRest'
  <2>1. /\ request'[s].pc = "idle" /\ \A r \in Sessions \ {s} : request'[r] = request[r]
        /\ UNCHANGED txn
    BY <1>2, EndEffect DEF IngestInsert, Idle
  <2>2. request[s].p \in PendingIds /\ pending[request[s].p].st = "none"
    BY <1>2 DEF IngestInsert, ClaimBase, InboxOK, KeysOK, At
  <2>3. /\ \A q \in PendingIds \ {request[s].p} : pending'[q] = pending[q]
        /\ pending'[request[s].p].st \in {"none", "pending"}
    BY <1>2, <2>2 DEF IngestInsert, TypeOK
  <2>4. \A r \in Sessions : At(r, "undo") => request[r].p # request[s].p /\ request[r].p \in PendingIds
    BY <2>2 DEF ClaimRest, WritesCode, IsProcessed, KeysOK, At
  <2>5. Frame(s) /\ Quiet
    BY <2>1, <2>2, <2>3, <2>4 DEF Frame, Quiet
  <2> QED BY <2>1, <2>5, NothingKnown, QuietClaim
<1> QED BY <1>1, <1>2

\* The steps of a manual entry.
LEMMA ManualClaim ==
    ASSUME IInv, ClaimBase, ClaimRest, NEW s \in Sessions
    PROVE  /\ \A c \in Receipts : ManualCheck(s, c) => ClaimRest'
           /\ ManualInsert(s) => ClaimRest'
           /\ ManualRefused(s) => ClaimRest'
<1>1. ASSUME NEW c \in Receipts, ManualCheck(s, c)
      PROVE  ClaimRest'
  <2>1. PICK t \in TxnIds : /\ UnusedTxn(t)
                            /\ txn' = [txn EXCEPT ![t] = [NoTxn EXCEPT !.by = s]]
                            /\ Begin(s, "manual", None, t, c)
    BY <1>1 DEF ManualCheck
  <2>2. /\ request'[s] = [pc |-> "manual", p |-> None, t |-> t, code |-> c]
        /\ \A q \in Sessions \ {s} : request'[q] = request[q]
    BY <2>1, BeginEffect DEF Codes, Pc, IInv
  <2>3. request'[s].pc \in {"approve", "manual"} /\ UNCHANGED pending
    BY <1>1, <2>2 DEF ManualCheck
  <2> QED BY <2>1, <2>2, <2>3, ReserveClaim
<1>2. ASSUME ManualInsert(s)
      PROVE  ClaimRest'
  <2> DEFINE t == request[s].t
  <2>1. /\ request'[s].pc = "idle" /\ \A r \in Sessions \ {s} : request'[r] = request[r]
        /\ UNCHANGED pending
    BY <1>2, EndEffect DEF ManualInsert, Idle, IInv
  <2>2. t \in TxnIds /\ txn[t].by = s
    BY <1>2 DEF ManualInsert, IInv, KeysOK, OwnRowsOK, OwnRows, OwnsOne, At
  <2>3. \A amount \in Amounts : ManualEntry(t, request[s].code, amount).by = None
    BY DEF ManualEntry, Sealed, NewEntry
  <2>4. txn'[t].by = None /\ \A u \in TxnIds \ {t} : txn'[u] = txn[u]
    BY <1>2, <2>2, <2>3 DEF ManualInsert, IInv, TypeOK
  <2>5. Frame(s) /\ Quiet
    BY <2>1, <2>2, <2>4, ConstantsAssumption DEF Frame, Quiet
  <2> QED BY <2>1, <2>5, NothingKnown, QuietClaim
<1>3. ManualRefused(s) => ClaimRest'
  BY RollbackClaim DEF ManualRefused
<1> QED BY <1>1, <1>2, <1>3

\* The lock, the insert and the refusals of an approval.
LEMMA ApproveClaim ==
    ASSUME IInv, ClaimBase, ClaimRest, NEW s \in Sessions
    PROVE  /\ \A p \in PendingIds : ApproveLock(s, p) => ClaimRest'
           /\ ApproveInsert(s) => ClaimRest'
           /\ ApproveRefused(s) => ClaimRest'
           /\ ApproveStale(s) => ClaimRest'
<1>1. ASSUME NEW p \in PendingIds, ApproveLock(s, p)
      PROVE  ClaimRest'
  <2>1. PICK t \in TxnIds : /\ UnusedTxn(t)
                            /\ txn' = [txn EXCEPT ![t] = [NoTxn EXCEPT !.by = s]]
                            /\ Begin(s, "approve", p, t, NoCode)
    BY <1>1 DEF ApproveLock
  <2>2. /\ request'[s] = [pc |-> "approve", p |-> p, t |-> t, code |-> NoCode]
        /\ \A q \in Sessions \ {s} : request'[q] = request[q]
    BY <2>1, BeginEffect DEF Codes, Pc, IInv
  <2>3. request'[s].pc \in {"approve", "manual"} /\ UNCHANGED pending
    BY <1>1, <2>2 DEF ApproveLock
  <2> QED BY <2>1, <2>2, <2>3, ReserveClaim
<1>2. ASSUME ApproveInsert(s)
      PROVE  ClaimRest'
  <2> DEFINE t == request[s].t
             row == pending[request[s].p]
  <2>1. /\ request'[s].pc = "flushed" /\ request'[s].p = request[s].p
        /\ \A q \in Sessions \ {s} : request'[q] = request[q]
        /\ UNCHANGED pending
    BY <1>2, AdvanceEffect DEF ApproveInsert, Pc, IInv
  <2>2. t \in TxnIds /\ txn[t].by = s /\ \A u \in TxnIds : txn[u].by = s => u = t
    BY <1>2 DEF ApproveInsert, IInv, KeysOK, OwnRowsOK, OwnRows, OwnsOne, At
  <2>3. /\ txn'[t] = NewEntry(s, row.code, 0, row.receipt)
        /\ \A u \in TxnIds \ {t} : txn'[u] = txn[u]
    BY <1>2, <2>2 DEF ApproveInsert, IInv, TypeOK
  <2>4. txn'[t].by = s /\ txn'[t].base = row.code
    BY <2>3 DEF NewEntry
  <2>5. Frame(s) /\ Quiet
    BY <2>1, <2>2, <2>3, <2>4, ConstantsAssumption DEF Frame, Quiet
  <2>6. \A u \in TxnIds : txn'[u].by = s => txn'[u].base = pending'[request'[s].p].code
    BY <2>1, <2>2, <2>3, <2>4
  <2>7. WritesCode(s)' /\ request'[s].pc # "published"
    BY <2>1, <2>6 DEF WritesCode, At
  <2> QED BY <2>5, <2>7, QuietClaim
<1>3. ApproveRefused(s) => ClaimRest'
  BY RollbackClaim DEF ApproveRefused
<1>4. ApproveStale(s) => ClaimRest'
  BY RollbackClaim DEF ApproveStale
<1> QED BY <1>1, <1>2, <1>3, <1>4

\* The entry that an approval has flushed is the only one of its code.
LEMMA FlushedIsAlone ==
    ASSUME IInv, ClaimBase, NEW s \in Sessions, At(s, "flushed"), NEW u \in TxnIds, Live(u),
           txn[u].base = txn[request[s].t].base
    PROVE  txn[u].part # 0
<1> DEFINE t == request[s].t
<1>1. t \in TxnIds /\ txn[t].by = s /\ txn[t].part = 0
  BY DEF IInv, KeysOK, OwnRowsOK, OwnRows, OwnsOne, At
<1>2. txn[t].st = "approved"
  BY <1>1, Writers DEF IInv, RowsOK, At
<1>3. txn[t].base # NoCode
  BY <1>1, <1>2, ConstantsAssumption DEF ClaimBase, PaymentCodes
<1>4. u # t /\ None \notin Sessions
  BY <1>1, ConstantsAssumption DEF Live
<1>5. ~ \E r \in Sessions : Replacing(r, t, u) \/ Replacing(r, u, t)
  BY <1>1, <1>4 DEF Replacing, At, Live
<1> QED BY <1>1, <1>2, <1>3, <1>4, <1>5 DEF IInv, CodesOK, Live

\* What is written by an edit or a split is sealed at once.
LEMMA OwnIsSealed ==
    ASSUME IInv, NEW s \in Sessions, request[s].pc \in {"edit", "split_flushed"},
           NEW t \in TxnIds, txn[t].by = s
    PROVE  txn[t].st = "approved" /\ txn[t].seal # NoSeal
<1>1. txn[t].st = "approved" /\ None \notin Sessions /\ t # None
  BY ConstantsAssumption DEF IInv, RowsOK
<1>2. ~ \E r \in Sessions : At(r, "published") /\ request[r].t = t
  BY <1>1 DEF IInv, TargetsOK, Target, At
<1>3. txn[t].seal \in OwnSeals(t)
  BY <1>1, <1>2 DEF IInv, SealsOK, SealOf, At
<1> QED BY <1>1, <1>3 DEF OwnSeals, FirstSeal, NoSeal

\* Records that stay where they are.
RecordsKept ==
    \A t \in TxnIds :
        Record(t) => Record(t)' /\ txn'[t].base = txn[t].base /\ txn'[t].part = txn[t].part

\* A payment that is recorded stays recorded where its records stay.
LEMMA KeptRecords ==
    RecordsKept => \A c : (InParts(c) => InParts(c)') /\ (InWhole(c) => InWhole(c)')
BY DEF RecordsKept, InParts, InWhole

\* The target of an approval between its commits.
LEMMA PublishedEntry ==
    ASSUME IInv, ClaimRest, NEW s \in Sessions, At(s, "published")
    PROVE  LET t == request[s].t IN
           /\ t \in TxnIds /\ txn[t].by = None /\ txn[t].st # "none" /\ txn[t].part = 0
           /\ txn[t].base = pending[request[s].p].code
BY DEF IInv, TargetsOK, Target, TypeOK, Request, ClaimRest, WritesCode, At

\* The commit of a training hook.
LEMMA TrainingClaim ==
    ASSUME IInv, ClaimBase, ClaimRest, NEW s \in Sessions, TrainingCommit(s)
    PROVE  ClaimRest'
<1> DEFINE t == request[s].t
           d == txn[t].base
<1>1. /\ request'[s].pc = "published" /\ request'[s].p = request[s].p /\ request'[s].t = t
      /\ \A r \in Sessions \ {s} : request'[r] = request[r]
      /\ UNCHANGED pending /\ At(s, "flushed")
  BY AdvanceEffect DEF TrainingCommit, Pc, IInv
<1>2. /\ t \in TxnIds /\ txn[t].by = s /\ txn[t].part = 0
      /\ \A u \in TxnIds : txn[u].by = s => u = t
  BY <1>1 DEF IInv, KeysOK, OwnRowsOK, OwnRows, OwnsOne, At
<1>3. txn[t].st = "approved" /\ t # None /\ None \notin Sessions
  BY <1>1, <1>2, ConstantsAssumption DEF IInv, RowsOK, At
<1>4. /\ \A u \in TxnIds \ {t} : txn'[u] = txn[u]
      /\ txn'[t].by = None /\ txn'[t].st = "approved" /\ txn'[t].base = d /\ txn'[t].part = 0
  BY <1>2, <1>3 DEF TrainingCommit, Committed, IInv, TypeOK, TxnRow
<1>5. Frame(s)
  BY <1>1, <1>2, <1>3, <1>4 DEF Frame
<1>6. d = pending[request[s].p].code
  BY <1>1, <1>2 DEF ClaimRest, WritesCode, At
<1>7. WritesCode(s)'
  BY <1>1, <1>3, <1>4, <1>6 DEF WritesCode, At
<1>8. RecordsKept
  BY <1>2, <1>3, <1>4 DEF RecordsKept, Record, Live
<1>9. \A c : \A r \in Sessions : Publishing(r, c)' => (r = s /\ c = d) \/ (r # s /\ Publishing(r, c))
  <2> SUFFICES ASSUME NEW r \in Sessions, NEW c, Publishing(r, c)', r # s
               PROVE  Publishing(r, c)
    BY <1>1, <1>4 DEF Publishing
  <2>1. At(r, "published") /\ request'[r] = request[r] /\ txn'[request[r].t].base = c
    BY <1>1 DEF Publishing, At
  <2>2. request[r].t # t
    BY <2>1, <1>2, <1>3, PublishedEntry
  <2> QED BY <1>4, <2>1, <2>2, PublishedEntry DEF Publishing
<1>10. \A r \in Sessions : At(r, "published") => request[r].t # t /\ request[r].t \in TxnIds
  BY <1>2, <1>3, PublishedEntry
<1>11. ASSUME NEW c \in Receipts, RecordedWhole(c)
       PROVE  RecordedWhole(c)'
  <2>1. CASE c # d
    BY <1>1, <1>4, <1>8, <1>9, <1>10, <1>11, <2>1, KeptRecords DEF RecordedWhole, Live, Publishing, At
  <2>2. CASE c = d
    <3>1. ~InWhole(c)
      BY <1>1, <2>2, FlushedIsAlone DEF InWhole, Record
    <3>2. \A r \in Sessions : ~Publishing(r, c)
      BY <1>1, <1>11, <2>2, <3>1, FlushedIsAlone, PublishedEntry DEF RecordedWhole, Publishing
    <3>3. \A p \in PendingIds : pending[p].code = c => pending[p].st # "approved"
      BY <1>11, <3>1 DEF RecordedWhole
    <3>4. Live(request[s].t)'
      BY <1>1, <1>4 DEF Live
    <3> QED BY <1>1, <1>9, <3>2, <3>3, <3>4 DEF RecordedWhole, Live
  <2> QED BY <2>1, <2>2
<1>12. RecordsOK'
  BY <1>1, <1>8, <1>11, KeptRecords DEF ClaimRest, RecordsOK
<1>13. \A r \in Sessions : WritesCode(r)'
  BY <1>5, <1>7, OthersWrite
<1> QED BY <1>12, <1>13 DEF ClaimRest

\* What an approval leaves when it marks its row: its entry, or an edited one, is recorded and
\* nothing is published for the code any more.
LEMMA MarkedClaim ==
    ASSUME IInv, ClaimBase, ClaimRest, NEW s \in Sessions, Frame(s),
           NEW p \in PendingIds, NEW d, pending[p].code = d,
           pending'[p].st = "approved", pending'[p].code = d,
           \A q \in PendingIds \ {p} : pending'[q] = pending[q],
           request'[s].pc = "idle",
           RecordsKept,
           \A t \in TxnIds : Live(t) => Live(t)',
           RecordedWhole(d) => InWhole(d)' /\ \A r \in Sessions \ {s} : ~Publishing(r, d)
    PROVE  ClaimRest'
<1>1. \A r \in Sessions : WritesCode(r)'
  BY OthersWrite, NothingKnown
<1>2. \A c : \A r \in Sessions : Publishing(r, c)' =>
         /\ r # s /\ Publishing(r, c) /\ request'[r] = request[r] /\ request[r].t \in TxnIds
  <2> SUFFICES ASSUME NEW r \in Sessions, NEW c, Publishing(r, c)'
               PROVE  r # s /\ Publishing(r, c) /\ request'[r] = request[r] /\ request[r].t \in TxnIds
    OBVIOUS
  <2>1. r # s /\ request'[r] = request[r] /\ At(r, "published")
    BY DEF Publishing, At, Frame
  <2>2. request[r].t \in TxnIds /\ txn[request[r].t].by = None /\ txn[request[r].t].st # "none"
    BY <2>1, PublishedEntry
  <2> QED BY <2>1, <2>2 DEF Publishing, Frame
<1>3. ASSUME NEW c \in Receipts, RecordedWhole(c)
      PROVE  RecordedWhole(c)'
  <2>1. CASE c = d
    BY <1>2, <1>3, <2>1, KeptRecords DEF RecordedWhole
  <2>2. CASE c # d
    BY <1>2, <1>3, <2>2, KeptRecords DEF RecordedWhole
  <2> QED BY <2>1, <2>2
<1>4. RecordsOK'
  BY <1>3, KeptRecords DEF ClaimRest, RecordsOK
<1> QED BY <1>1, <1>4 DEF ClaimRest

\* The two ways an approval ends well.
LEMMA ApproveCommitClaim ==
    ASSUME IInv, ClaimBase, ClaimRest, NEW s \in Sessions
    PROVE  /\ ApproveCommit(s) => ClaimRest'
           /\ ApproveCommitLate(s) => ClaimRest'
<1> DEFINE t == request[s].t
           p == request[s].p
<1>0. PICK d : d = pending[p].code
  OBVIOUS
<1>1. ASSUME ApproveCommit(s)
      PROVE  ClaimRest'
  <2>1. /\ request'[s].pc = "idle" /\ \A r \in Sessions \ {s} : request'[r] = request[r]
        /\ At(s, "flushed")
    BY <1>1, EndEffect DEF ApproveCommit, Idle, IInv
  <2>2. /\ t \in TxnIds /\ txn[t].by = s /\ txn[t].part = 0 /\ p \in PendingIds /\ InInbox(p)
        /\ \A u \in TxnIds : txn[u].by = s => u = t
    BY <2>1 DEF IInv, KeysOK, OwnRowsOK, OwnRows, OwnsOne, At, ClaimBase, InboxOK, HoldsPending
  <2>3. txn[t].st = "approved" /\ t # None /\ None \notin Sessions /\ txn[t].base = d
    BY <1>0, <2>1, <2>2, ConstantsAssumption DEF IInv, RowsOK, At, ClaimRest, WritesCode
  <2>4. txn'[t] = Sealed(t, [txn[t] EXCEPT !.by = None], "cents") /\ \A u \in TxnIds \ {t} : txn'[u] = txn[u]
    BY <1>1, <2>2 DEF ApproveCommit, IInv, TypeOK
  <2>5. /\ txn'[t].by = None /\ txn'[t].st = "approved" /\ txn'[t].base = d /\ txn'[t].part = 0
        /\ txn'[t].seal.id = t
    BY <2>2, <2>3, <2>4 DEF Sealed, HashOf, IInv, TypeOK, TxnRow
  <2>6. /\ pending'[p].st = "approved" /\ pending'[p].code = d
        /\ \A q \in PendingIds \ {p} : pending'[q] = pending[q]
    BY <1>0, <1>1, <2>2 DEF ApproveCommit, MarkPending, IInv, TypeOK, PendingRow
  <2>7. \A r \in Sessions \ {s} : At(r, "undo") => request[r].p # p /\ request[r].p \in PendingIds
    BY <2>1 DEF ClaimBase, InboxOK, HoldsPending, At, IInv, KeysOK
  <2>8. Frame(s)
    BY <1>0, <2>1, <2>2, <2>3, <2>4, <2>5, <2>6, <2>7 DEF Frame
  <2>9. RecordsKept /\ \A u \in TxnIds : Live(u) => Live(u)'
    BY <2>2, <2>3, <2>4 DEF RecordsKept, Record, Live
  <2>10. InWhole(d)'
    BY <2>2, <2>3, <2>5 DEF InWhole, Record, Live, NoSeal
  <2>11. RecordedWhole(d) => \A r \in Sessions \ {s} : ~Publishing(r, d)
    <3>1. ~InWhole(d)
      BY <2>1, <2>3, FlushedIsAlone DEF InWhole, Record
    <3> QED BY <2>1, <2>3, <3>1, FlushedIsAlone, PublishedEntry DEF RecordedWhole, Publishing
  <2> QED BY <1>0, <2>1, <2>2, <2>6, <2>8, <2>9, <2>10, <2>11, MarkedClaim
<1>2. ASSUME ApproveCommitLate(s)
      PROVE  ClaimRest'
  <2>1. /\ request'[s].pc = "idle" /\ \A r \in Sessions \ {s} : request'[r] = request[r]
        /\ At(s, "published") /\ InInbox(p) /\ ~LockedPending(p)
    BY <1>2, EndEffect DEF ApproveCommitLate, Idle, IInv
  <2>2. /\ t \in TxnIds /\ txn[t].by = None /\ txn[t].st # "none" /\ txn[t].part = 0
        /\ p \in PendingIds /\ t # None /\ None \notin Sessions /\ txn[t].base = d
    BY <1>0, <2>1, PublishedEntry, ConstantsAssumption DEF IInv, KeysOK, At
  <2>3. PICK seal \in {Recalculated(t), FirstSeal(t, "cents")} :
           txn' = [txn EXCEPT ![t].seal = seal]
    BY <1>2, <2>2 DEF ApproveCommitLate
  <2>4. /\ txn'[t].by = None /\ txn'[t].st = txn[t].st /\ txn'[t].base = d /\ txn'[t].part = 0
        /\ txn'[t].seal = seal
        /\ \A u \in TxnIds \ {t} : txn'[u] = txn[u]
    BY <2>2, <2>3 DEF IInv, TypeOK, TxnRow
  <2>5. seal # NoSeal
    BY <2>2 DEF HashOf, Recalculated, FirstSeal, NoSeal
  <2>6. /\ pending'[p].st = "approved" /\ pending'[p].code = d
        /\ \A q \in PendingIds \ {p} : pending'[q] = pending[q]
    BY <1>0, <1>2, <2>2 DEF ApproveCommitLate, MarkPending, IInv, TypeOK, PendingRow
  <2>7. \A r \in Sessions \ {s} : At(r, "undo") => request[r].p # p /\ request[r].p \in PendingIds
    BY <2>1 DEF LockedPending, HoldsPending, At, IInv, KeysOK
  <2>8. Frame(s)
    BY <1>0, <2>1, <2>2, <2>4, <2>6, <2>7 DEF Frame
  <2>9. RecordsKept /\ \A u \in TxnIds : Live(u) => Live(u)'
    BY <2>2, <2>4, <2>5 DEF RecordsKept, Record, Live
  <2>10. Publishing(s, d)
    BY <2>1, <2>2 DEF Publishing
  <2>11. Live(t) => InWhole(d)'
    BY <2>2, <2>4, <2>5 DEF InWhole, Record, Live
  <2>12. RecordedWhole(d) => InWhole(d)' /\ \A r \in Sessions \ {s} : ~Publishing(r, d)
    BY <2>9, <2>10, <2>11, KeptRecords DEF RecordedWhole
  <2> QED BY <1>0, <2>1, <2>2, <2>6, <2>8, <2>9, <2>12, MarkedClaim
<1> QED BY <1>1, <1>2

\* The steps of a split.
LEMMA SplitClaim ==
    ASSUME IInv, ClaimBase, ClaimRest, NEW s \in Sessions
    PROVE  /\ \A p \in PendingIds : SplitLock(s, p) => ClaimRest'
           /\ SplitInsert(s) => ClaimRest'
           /\ SplitRefused(s) => ClaimRest'
           /\ SplitCommit(s) => ClaimRest'
<1>0. None \notin Sessions
  BY ConstantsAssumption
<1>1. ASSUME NEW p \in PendingIds, SplitLock(s, p)
      PROVE  ClaimRest'
  <2>1. Begin(s, "split", p, None, NoCode) /\ UNCHANGED pending
    BY <1>1 DEF SplitLock
  <2>2. /\ request'[s] = [pc |-> "split", p |-> p, t |-> None, code |-> NoCode]
        /\ \A q \in Sessions \ {s} : request'[q] = request[q]
    BY <2>1, BeginEffect DEF Codes, Pc, IInv
  <2>3. ASSUME NEW t \in TxnIds
        PROVE  (txn'[t] = txn[t]) \/ (UnusedTxn(t) /\ txn'[t].by = s)
    <3>1. PICK keys \in [1 .. Parts -> {u \in TxnIds : UnusedTxn(u)}] :
            txn' = [u \in TxnIds |->
                       IF \E i \in 1 .. Parts : keys[i] = u
                       THEN [NoTxn EXCEPT !.by = s,
                                          !.part = CHOOSE i \in 1 .. Parts : keys[i] = u]
                       ELSE txn[u]]
      BY <1>1 DEF SplitLock
    <3>2. CASE \E i \in 1 .. Parts : keys[i] = t
      <4>1. UnusedTxn(t)
        BY <3>2
      <4>2. txn'[t].by = s
        BY <3>1, <3>2 DEF NoTxn
      <4> QED BY <4>1, <4>2
    <3>3. CASE ~\E i \in 1 .. Parts : keys[i] = t
      BY <3>1, <3>3
    <3> QED BY <3>2, <3>3
  <2>4. Frame(s) /\ Quiet
    BY <2>1, <2>2, <2>3 DEF Frame, Quiet, UnusedTxn
  <2> QED BY <2>2, <2>4, NothingKnown, QuietClaim
<1>2. ASSUME SplitInsert(s)
      PROVE  ClaimRest'
  <2> DEFINE row == pending[request[s].p]
  <2>1. /\ request'[s].pc = "split_flushed" /\ request'[s].p = request[s].p
        /\ \A q \in Sessions \ {s} : request'[q] = request[q]
        /\ UNCHANGED pending
    BY <1>2, AdvanceEffect DEF SplitInsert, Pc, IInv
  <2>2. PICK amounts \in [TxnIds -> Amounts] :
           \A t \in TxnIds : txn'[t] = IF txn[t].by = s THEN PartEntry(s, t, row, amounts[t]) ELSE txn[t]
    BY <1>2 DEF SplitInsert
  <2>3. \A t \in TxnIds : PartEntry(s, t, row, amounts[t]).by = s /\ PartEntry(s, t, row, amounts[t]).base = row.code
    BY DEF PartEntry, Sealed, NewEntry
  <2>4. Frame(s) /\ Quiet
    BY <1>0, <2>1, <2>2, <2>3 DEF Frame, Quiet
  <2>5. \A t \in TxnIds : txn'[t].by = s => txn'[t].base = pending'[request'[s].p].code
    BY <2>1, <2>2, <2>3
  <2>6. WritesCode(s)' /\ request'[s].pc # "published"
    BY <2>1, <2>5 DEF WritesCode, At
  <2> QED BY <2>4, <2>6, QuietClaim
<1>3. SplitRefused(s) => ClaimRest'
  BY RollbackClaim DEF SplitRefused
<1>4. ASSUME SplitCommit(s)
      PROVE  ClaimRest'
  <2> DEFINE p == request[s].p
  <2>0. PICK d : d = pending[p].code
    OBVIOUS
  <2>1. /\ request'[s].pc = "idle" /\ \A r \in Sessions \ {s} : request'[r] = request[r]
        /\ At(s, "split_flushed")
    BY <1>4, EndEffect DEF SplitCommit, Idle, IInv
  <2>2. p \in PendingIds
    BY <2>1 DEF IInv, KeysOK, At
  <2>3. ASSUME NEW t \in TxnIds, txn[t].by = s
        PROVE  /\ txn[t].st = "approved" /\ txn[t].seal # NoSeal
               /\ txn[t].base = d /\ txn[t].part # 0
    BY <2>0, <2>1, <2>3, OwnIsSealed DEF IInv, OwnRowsOK, OwnRows, ClaimRest, WritesCode, At
  <2>4. ASSUME NEW t \in TxnIds
        PROVE  /\ txn[t].by # s => txn'[t] = txn[t]
               /\ txn[t].by = s => /\ txn'[t].by = None /\ txn'[t].st = "approved"
                                   /\ txn'[t].seal # NoSeal
                                   /\ txn'[t].base = d /\ txn'[t].part # 0
    BY <1>4, <2>3 DEF SplitCommit, Committed, IInv, TypeOK, TxnRow
  <2>5. PICK u \in TxnIds : txn[u].by = s
    <3>1. 1 \in 1 .. Parts
      BY ConstantsAssumption
    <3> QED BY <2>1, <3>1 DEF IInv, OwnRowsOK, OwnRows, At
  <2>6. InParts(d)'
    BY <2>4, <2>5 DEF InParts, Record, Live
  <2>7. /\ pending'[p].st = "split_approved" /\ pending'[p].code = d
        /\ \A q \in PendingIds \ {p} : pending'[q] = pending[q]
    BY <1>4, <2>0, <2>2 DEF SplitCommit, MarkPending, IInv, TypeOK, PendingRow
  <2>8. \A r \in Sessions \ {s} : At(r, "undo") => request[r].p # p /\ request[r].p \in PendingIds
    BY <2>1 DEF ClaimBase, InboxOK, HoldsPending, At, IInv, KeysOK
  <2>9. Frame(s)
    BY <1>0, <2>0, <2>1, <2>4, <2>7, <2>8 DEF Frame
  <2>10. RecordsKept /\ \A t \in TxnIds : Live(t) => Live(t)'
    BY <1>0, <2>4 DEF RecordsKept, Record, Live
  <2>11. \A r \in Sessions : WritesCode(r)'
    BY <2>1, <2>9, OthersWrite, NothingKnown
  <2>12. ASSUME NEW c \in Receipts, RecordedWhole(c)
         PROVE  InParts(c)' \/ RecordedWhole(c)'
    <3>1. CASE c = d
      BY <2>6, <3>1
    <3>2. CASE c # d
      <4>1. \A r \in Sessions : Publishing(r, c)' =>
               /\ r # s /\ Publishing(r, c) /\ request'[r] = request[r] /\ request[r].t \in TxnIds
        <5> SUFFICES ASSUME NEW r \in Sessions, Publishing(r, c)'
                     PROVE  r # s /\ Publishing(r, c) /\ request'[r] = request[r] /\ request[r].t \in TxnIds
          OBVIOUS
        <5>1. r # s /\ request'[r] = request[r] /\ At(r, "published")
          BY <2>1 DEF Publishing, At
        <5>2. request[r].t \in TxnIds /\ txn[request[r].t].by = None /\ txn[request[r].t].st # "none"
          BY <5>1, PublishedEntry
        <5> QED BY <2>9, <5>1, <5>2 DEF Publishing, Frame
      <4> QED BY <2>7, <2>10, <2>12, <3>2, <4>1, KeptRecords DEF RecordedWhole
    <3> QED BY <3>1, <3>2
  <2>13. \A q \in PendingIds : pending'[q].st = "split_approved" => InParts(pending[q].code)'
    BY <2>6, <2>7, <2>10, KeptRecords DEF ClaimRest, RecordsOK
  <2>14. RecordsOK'
    BY <2>10, <2>12, <2>13, KeptRecords DEF ClaimRest, RecordsOK
  <2> QED BY <2>11, <2>14 DEF ClaimRest
<1> QED BY <1>1, <1>2, <1>3, <1>4

\* The two steps of an edit: the entry it supersedes has a sealed replacement.
LEMMA EditClaim ==
    ASSUME IInv, ClaimBase, ClaimRest, NEW s \in Sessions
    PROVE  /\ \A t \in TxnIds : EditLock(s, t) => ClaimRest'
           /\ EditCommit(s) => ClaimRest'
<1>0. None \notin Sessions
  BY ConstantsAssumption
<1>1. ASSUME NEW t \in TxnIds, EditLock(s, t)
      PROVE  ClaimRest'
  <2>1. PICK u \in TxnIds, amount \in Amounts :
           UnusedTxn(u) /\ txn' = [txn EXCEPT ![u] = Replacement(s, t, u, amount)]
    BY <1>1 DEF EditLock
  <2>2. /\ request'[s] = [pc |-> "edit", p |-> None, t |-> t, code |-> NoCode]
        /\ \A q \in Sessions \ {s} : request'[q] = request[q]
        /\ UNCHANGED pending
    BY <1>1, BeginEffect DEF EditLock, Codes, Pc, IInv
  <2>3. txn'[u] = Replacement(s, t, u, amount) /\ \A v \in TxnIds \ {u} : txn'[v] = txn[v]
    BY <2>1 DEF IInv, TypeOK
  <2>4. txn'[u].by = s
    BY <2>3 DEF Replacement, Sealed, NewEntry
  <2>5. Frame(s) /\ Quiet
    BY <2>1, <2>2, <2>3, <2>4 DEF Frame, Quiet, UnusedTxn
  <2> QED BY <2>2, <2>5, NothingKnown, QuietClaim
<1>2. ASSUME EditCommit(s)
      PROVE  ClaimRest'
  <2> DEFINE t == request[s].t
  <2>1. /\ request'[s].pc = "idle" /\ \A r \in Sessions \ {s} : request'[r] = request[r]
        /\ At(s, "edit") /\ UNCHANGED pending
    BY <1>2, EndEffect DEF EditCommit, Idle, IInv
  <2>2. t \in TxnIds /\ Live(t)
    BY <2>1 DEF IInv, KeysOK, TargetsOK, Target, At
  <2>3. PICK u \in TxnIds : /\ txn[u].by = s /\ txn[u].base = txn[t].base /\ txn[u].part = txn[t].part
                            /\ \A v \in TxnIds : txn[v].by = s => v = u
    BY <2>1 DEF IInv, TargetsOK, Target
  <2>4. txn[u].st = "approved" /\ txn[u].seal # NoSeal /\ u # t
    BY <1>0, <2>1, <2>2, <2>3, OwnIsSealed DEF At, Live
  <2>5. /\ \A v \in TxnIds \ {t, u} : txn'[v] = txn[v]
        /\ txn'[t] = Superseded(txn[t]) /\ txn'[u] = [txn[u] EXCEPT !.by = None]
    BY <1>0, <1>2, <2>2, <2>3, <2>4 DEF EditCommit, Committed, Live
  <2>6. /\ txn'[t].by = None /\ txn'[t].st = "superseded"
        /\ txn'[t].base = txn[t].base /\ txn'[t].part = txn[t].part
    BY <2>2, <2>5 DEF Superseded, Live, IInv, TypeOK, TxnRow
  <2>7. /\ txn'[u].by = None /\ txn'[u].st = "approved" /\ txn'[u].seal # NoSeal
        /\ txn'[u].base = txn[t].base /\ txn'[u].part = txn[t].part
    BY <2>3, <2>4, <2>5 DEF IInv, TypeOK, TxnRow
  <2>8. Record(u)'
    BY <2>7 DEF Record, Live
  <2>9. Frame(s)
    BY <1>0, <2>1, <2>2, <2>3, <2>5, <2>6, <2>7 DEF Frame, Live
  <2>10. \A v \in TxnIds \ {t} : Live(v) => Live(v)' /\ txn'[v] = txn[v]
    BY <1>0, <2>3, <2>5 DEF Live
  <2>11. \A c : (InParts(c) => InParts(c)') /\ (InWhole(c) => InWhole(c)')
    BY <2>7, <2>8, <2>10 DEF InParts, InWhole, Record
  <2>12. \A r \in Sessions : WritesCode(r)'
    BY <2>1, <2>9, OthersWrite, NothingKnown
  <2>13. ASSUME NEW c \in Receipts, RecordedWhole(c)
         PROVE  RecordedWhole(c)'
    <3>1. ASSUME NEW r \in Sessions, Publishing(r, c)'
          PROVE  /\ Publishing(r, c) /\ request'[r] = request[r]
                 /\ Live(request[r].t) => Live(request[r].t)' \/ InWhole(c)'
      <4>1. r # s /\ request'[r] = request[r] /\ At(r, "published")
        BY <2>1, <3>1 DEF Publishing, At
      <4>2. /\ request[r].t \in TxnIds /\ txn[request[r].t].by = None
            /\ txn[request[r].t].st # "none" /\ txn[request[r].t].part = 0
        BY <4>1, PublishedEntry
      <4>3. Publishing(r, c)
        BY <2>9, <3>1, <4>1, <4>2 DEF Publishing, Frame
      <4>4. CASE request[r].t = t
        <5>1. txn'[u].base = c /\ txn'[u].part = 0
          BY <2>7, <4>2, <4>3, <4>4 DEF Publishing
        <5>2. InWhole(c)'
          BY <2>3, <2>8, <5>1 DEF InWhole
        <5> QED BY <4>1, <4>3, <5>2
      <4>5. CASE request[r].t # t
        <5>1. Live(request[r].t) => Live(request[r].t)'
          BY <2>10, <4>1, <4>2, <4>5 DEF Live
        <5> QED BY <4>1, <4>3, <5>1
      <4> QED BY <4>1, <4>3, <4>4, <4>5
    <3> QED BY <2>1, <2>11, <2>13, <3>1 DEF RecordedWhole
  <2>14. RecordsOK'
    BY <2>1, <2>11, <2>13 DEF ClaimRest, RecordsOK
  <2> QED BY <2>12, <2>14 DEF ClaimRest
<1> QED BY <1>1, <1>2

\* The two steps of an undo: what it deletes is the record of a row that it reopens.
LEMMA UndoClaim ==
    ASSUME IInv, ClaimBase, ClaimRest, NEW s \in Sessions
    PROVE  /\ \A p \in PendingIds : UndoLock(s, p) => ClaimRest'
           /\ UndoCommit(s) => ClaimRest'
<1>1. ASSUME NEW p \in PendingIds, UndoLock(s, p)
      PROVE  ClaimRest'
  <2>1. /\ EntryOf(p) \in TxnIds \cup {None}
        /\ EntryOf(p) # None => /\ pending[p].st \in {"approved", "split_approved"}
                                /\ txn[EntryOf(p)].base = pending[p].code
    BY DEF EntryOf, Taken, HasCode
  <2>2. /\ request'[s] = [pc |-> "undo", p |-> p, t |-> EntryOf(p), code |-> NoCode]
        /\ \A q \in Sessions \ {s} : request'[q] = request[q]
        /\ UNCHANGED <<pending, txn>>
    BY <1>1, <2>1, BeginEffect DEF UndoLock, Codes, Pc, IInv
  <2>3. Frame(s) /\ Quiet
    BY <2>2 DEF Frame, Quiet
  <2>4. IsProcessed(p)
    BY <1>1 DEF UndoLock
  <2>5. WritesCode(s)' /\ request'[s].pc # "published"
    BY <2>1, <2>2, <2>4 DEF WritesCode, At, IsProcessed
  <2> QED BY <2>3, <2>5, QuietClaim
<1>2. ASSUME UndoCommit(s)
      PROVE  ClaimRest'
  <2> DEFINE t == request[s].t
             p == request[s].p
  <2>0. PICK d : d = pending[p].code
    OBVIOUS
  <2>1. /\ request'[s].pc = "idle" /\ \A r \in Sessions \ {s} : request'[r] = request[r]
        /\ At(s, "undo") /\ p \in PendingIds /\ InInbox(p)
    BY <1>2, EndEffect DEF UndoCommit, Idle, IInv, KeysOK, At, ClaimBase, InboxOK, HoldsPending
  <2>2. /\ pending'[p].st = "pending" /\ pending'[p].code = d
        /\ \A q \in PendingIds \ {p} : pending'[q] = pending[q]
    BY <1>2, <2>0, <2>1 DEF UndoCommit, MarkPending, IInv, TypeOK, PendingRow
  <2>3. \A r \in Sessions \ {s} : At(r, "undo") => request[r].p # p /\ request[r].p \in PendingIds
    BY <2>1 DEF ClaimBase, InboxOK, HoldsPending, At, IInv, KeysOK
  <2>4. CASE t = None
    <3>1. UNCHANGED txn
      BY <1>2, <2>4 DEF UndoCommit
    <3>2. Frame(s) /\ Quiet
      BY <2>0, <2>1, <2>2, <2>3, <3>1 DEF Frame, Quiet
    <3> QED BY <2>1, <3>2, NothingKnown, QuietClaim
  <2>5. CASE t # None
    <3>1. /\ t \in TxnIds /\ txn[t].by = None /\ txn[t].part = 0 /\ txn[t].base = d
          /\ pending[p].st \in {"approved", "split_approved"}
      BY <2>0, <2>1, <2>5 DEF IInv, TargetsOK, Target, TypeOK, Request, ClaimRest, WritesCode, At, IsProcessed
    <3>2. /\ \A u \in TxnIds \ {t} : txn'[u] = txn[u]
          /\ txn'[t].by = None /\ txn'[t].base = d /\ txn'[t].part = 0
      BY <1>2, <2>5, <3>1 DEF UndoCommit, IInv, TypeOK, TxnRow
    <3>3. Frame(s)
      BY <2>0, <2>1, <2>2, <2>3, <3>1, <3>2 DEF Frame
    <3>4. \A r \in Sessions : WritesCode(r)'
      BY <2>1, <3>3, OthersWrite, NothingKnown
    <3>5. \A c : InParts(c) => InParts(c)'
      BY <3>1, <3>2 DEF InParts, Record, Live
    <3>6. \A c : c # d /\ InWhole(c) => InWhole(c)'
      BY <3>1, <3>2 DEF InWhole, Record, Live
    <3>7. ASSUME NEW r \in Sessions, NEW c, Publishing(r, c)'
          PROVE  /\ Publishing(r, c) /\ request'[r] = request[r]
                 /\ c # d /\ Live(request[r].t) => Live(request[r].t)'
      <4>1. r # s /\ request'[r] = request[r] /\ At(r, "published")
        BY <2>1, <3>7 DEF Publishing, At
      <4>2. /\ request[r].t \in TxnIds /\ txn[request[r].t].by = None
            /\ txn[request[r].t].st # "none"
        BY <4>1, PublishedEntry
      <4>3. Publishing(r, c)
        BY <3>3, <3>7, <4>1, <4>2 DEF Publishing, Frame
      <4>4. c # d => request[r].t # t
        BY <3>1, <4>3 DEF Publishing
      <4> QED BY <3>2, <4>1, <4>2, <4>3, <4>4 DEF Live
    <3>8. ASSUME NEW c \in Receipts, RecordedWhole(c)
          PROVE  InParts(c)' \/ RecordedWhole(c)'
      <4>1. CASE c # d
        BY <2>2, <3>6, <3>7, <3>8, <4>1 DEF RecordedWhole
      <4>2. CASE c = d /\ pending[p].st = "split_approved"
        BY <2>0, <2>1, <3>5, <4>2 DEF ClaimRest, RecordsOK
      <4>3. CASE c = d /\ pending[p].st = "approved"
        <5>1. \A q \in PendingIds : pending'[q].code = d => pending'[q].st # "approved"
          BY <2>0, <2>1, <2>2 DEF ClaimBase, InboxOK, InInbox
        <5>2. \A r \in Sessions : ~Publishing(r, c)
          BY <2>0, <2>1, <3>8, <4>3 DEF RecordedWhole
        <5> QED BY <3>7, <4>3, <5>1, <5>2 DEF RecordedWhole
      <4> QED BY <3>1, <4>1, <4>2, <4>3
    <3>9. \A q \in PendingIds : pending'[q].st = "split_approved" => InParts(pending[q].code)'
      BY <2>2, <3>5 DEF ClaimRest, RecordsOK
    <3>10. RecordsOK'
      BY <3>5, <3>8, <3>9 DEF ClaimRest, RecordsOK
    <3> QED BY <3>4, <3>10 DEF ClaimRest
  <2> QED BY <2>4, <2>5
<1> QED BY <1>1, <1>2

\* Rejecting and clearing.
LEMMA InboxClaim ==
    ASSUME IInv, ClaimBase, ClaimRest
    PROVE  /\ \A p \in PendingIds : Reject(p) => ClaimRest'
           /\ \A P \in SUBSET PendingIds : ClearHistory(P) => ClaimRest'
<1>1. ASSUME UNCHANGED <<txn, request>>,
             \A p \in PendingIds :
                /\ pending'[p].code = pending[p].code
                /\ LockedPending(p) => pending'[p] = pending[p]
                /\ pending'[p].st \in {"approved", "split_approved"} => pending'[p].st = pending[p].st
      PROVE  ClaimRest'
  <2>1. RecordsOK'
    BY <1>1, RecordsStand DEF Quiet, At
  <2>2. ASSUME NEW s \in Sessions
        PROVE  WritesCode(s)'
    <3>1. request[s].pc \in HoldsPending => LockedPending(request[s].p)
      BY DEF LockedPending
    <3>2. request[s].pc \in HoldsPending \cup {"published"} => request[s].p \in PendingIds
      BY DEF IInv, KeysOK, HoldsPending
    <3>3. WritesCode(s)
      BY DEF ClaimRest
    <3> QED BY <1>1, <3>1, <3>2, <3>3 DEF WritesCode, HoldsPending, At, IsProcessed
  <2> QED BY <2>1, <2>2 DEF ClaimRest
<1>2. ASSUME NEW p \in PendingIds, Reject(p)
      PROVE  ClaimRest'
  <2>1. /\ pending'[p].st = "rejected" /\ pending'[p].code = pending[p].code
        /\ \A q \in PendingIds \ {p} : pending'[q] = pending[q]
        /\ ~LockedPending(p) /\ UNCHANGED <<txn, request>>
    BY <1>2 DEF Reject, MarkPending, IInv, TypeOK, PendingRow
  <2> QED BY <1>1, <2>1
<1>3. ASSUME NEW P \in SUBSET PendingIds, ClearHistory(P)
      PROVE  ClaimRest'
  <2>1. UNCHANGED <<txn, request>> /\ \A q \in P : ~LockedPending(q)
    BY <1>3 DEF ClearHistory
  <2>2. \A q \in PendingIds : /\ q \in P => pending'[q].st = "cleared" /\ pending'[q].code = pending[q].code
                              /\ q \notin P => pending'[q] = pending[q]
    BY <1>3 DEF ClearHistory, IInv, TypeOK, PendingRow
  <2> QED BY <1>1, <2>1, <2>2
<1> QED BY <1>2, <1>3

\* Where no code is corrected and learning does not fail, every step keeps the records.
LEMMA RestStep ==
    ASSUME "correct" \notin Ops, "learner" \notin Faults, IInv, ClaimBase, ClaimRest, [Next]_vars
    PROVE  ClaimRest'
<1>1. ASSUME NEW s \in Sessions, Start(s)
      PROVE  ClaimRest'
  <2>1. \A p \in PendingIds : ~CorrectRead(s, p)
    BY DEF CorrectRead
  <2> QED BY <1>1, <2>1, IngestClaim, ManualClaim, ApproveClaim, SplitClaim, UndoClaim, EditClaim DEF Start
<1>2. ASSUME NEW s \in Sessions, Continue(s)
      PROVE  ClaimRest'
  <2>1. ~EditTx(s) /\ ~Reparse(s) /\ ~CorrectStale(s) /\ ~TrainingRollback(s)
    BY DEF ClaimBase, Uncorrected, EditTx, Reparse, SetCode, CorrectStale, TrainingRollback
  <2> QED BY <1>2, <2>1, IngestClaim, ManualClaim, ApproveClaim, TrainingClaim, ApproveCommitClaim,
             SplitClaim, EditClaim, UndoClaim DEF Continue
<1>3. ASSUME NEW s \in Sessions, Abandon(s)
      PROVE  ClaimRest'
  BY <1>3, RollbackClaim DEF Abandon
<1>4. CASE UNCHANGED vars
  BY <1>4 DEF vars, ClaimRest, WritesCode, IsProcessed, At, RecordsOK, InParts, InWhole, Record, Live,
              RecordedWhole, Publishing
<1> QED BY <1>1, <1>2, <1>3, <1>4, InboxClaim DEF Next

\* Nothing is approved at first.
LEMMA RestInit == Init => ClaimRest
BY DEF Init, ClaimRest, WritesCode, At, RecordsOK, RecordedWhole, Publishing, NoPending, NoTxn, Idle

\* What approve_transaction marks approved is in the ledger with a seal, and stays there
\* through splits, edits, undos, crashes between its two commits and approvals that are made
\* again, where no code is corrected and the learner's insert does not fail.
THEOREM ApprovedStaysRecorded ==
    ASSUME "correct" \notin Ops, "learner" \notin Faults
    PROVE  Spec => []ApprovedIsRecorded
<1>1. Init => ClaimBase /\ ClaimRest
  BY BaseInit, RestInit
<1>2. IInv /\ ClaimBase /\ ClaimRest /\ [Next]_vars => ClaimBase' /\ ClaimRest'
  BY BaseStep, RestStep
<1>3. ClaimBase /\ ClaimRest => ApprovedIsRecorded
  <2> SUFFICES ASSUME ClaimBase, ClaimRest, NEW p \in PendingIds, pending[p].st = "approved"
               PROVE  \E t \in TxnIds : /\ Live(t)
                                        /\ txn[t].receipt = pending[p].receipt
                                        /\ txn[t].seal # NoSeal
    BY DEF ApprovedIsRecorded
  <2>1. pending[p].code \in Receipts /\ pending[p].receipt = pending[p].code
    BY DEF ClaimBase, PaymentCodes
  <2>2. InParts(pending[p].code) \/ InWhole(pending[p].code)
    BY <2>1 DEF ClaimRest, RecordsOK, RecordedWhole
  <2> QED BY <2>1, <2>2 DEF InParts, InWhole, Record, Live, ClaimBase, PaymentCodes
<1> QED BY <1>1, <1>2, <1>3, Inductive, PTL DEF Spec

-----------------------------------------------------------------------------
(* The claims: an undo leaves nothing *)

\* Where nothing is split or edited, an entry counts until it is deleted.
Plain ==
    /\ Whole
    /\ \A s \in Sessions : ~At(s, "edit")
    /\ \A t \in TxnIds : txn[t].st # "superseded"
    /\ \A p \in PendingIds : pending[p].st # "split_approved"

\* An undo of an approved row is going to delete the entry that counts for its code.
UndoFinds(s) ==
    At(s, "undo") /\ pending[request[s].p].st = "approved" =>
        /\ request[s].t # None /\ Live(request[s].t)
        /\ txn[request[s].t].base = pending[request[s].p].code

\* What a step has to leave of the ledger.
EntriesStay ==
    \A t \in TxnIds :
        /\ txn'[t].st # "superseded"
        /\ Live(t) => Live(t)' /\ txn'[t].base = txn[t].base

\* A step that is not of an undo: it leaves the rows of undos alone, and reopens none.
NoUndo ==
    /\ \A s \in Sessions :
          /\ request'[s] = request[s] \/ request'[s].pc \notin {"undo", "edit"}
          /\ At(s, "undo") /\ request'[s] = request[s] =>
                pending'[request[s].p] = pending[request[s].p]
    /\ EntriesStay
    /\ \A p \in PendingIds :
          /\ pending'[p].st # "split_approved"
          /\ pending[p].st = "approved" => pending'[p].st # "pending"

\* A request that goes on without the inbox.
LEMMA LedgerNoUndo ==
    ASSUME Plain, NEW s \in Sessions, UNCHANGED pending, EntriesStay,
           request'[s].pc \notin {"undo", "edit"},
           \A r \in Sessions \ {s} : request'[r] = request[r]
    PROVE  NoUndo
BY DEF Plain, NoUndo

\* A request that fails.
LEMMA RollbackNoUndo ==
    ASSUME IInv, Plain, NEW s \in Sessions, Rollback(s)
    PROVE  NoUndo
<1>1. request'[s].pc = "idle" /\ \A r \in Sessions \ {s} : request'[r] = request[r]
  BY EndEffect DEF Rollback, Idle, IInv
<1>2. EntriesStay
  BY ConstantsAssumption DEF Rollback, RolledBack, NoTxn, EntriesStay, Live, Plain
<1> QED BY <1>1, <1>2, LedgerNoUndo DEF Rollback

\* A request that marks a row which no other request holds, and ends.
LEMMA MarkNoUndo ==
    ASSUME IInv, Plain, NEW s \in Sessions, NEW p \in PendingIds, MarkPending(p, "approved"),
           End(s), EntriesStay,
           \A r \in Sessions \ {s} : At(r, "undo") => request[r].p # p
    PROVE  NoUndo
<1>1. request'[s].pc = "idle" /\ \A r \in Sessions \ {s} : request'[r] = request[r]
  BY EndEffect DEF Idle, IInv
<1>2. /\ pending'[p].st = "approved"
      /\ \A q \in PendingIds \ {p} : pending'[q] = pending[q]
  BY DEF MarkPending, IInv, TypeOK, PendingRow
<1>3. \A r \in Sessions \ {s} : At(r, "undo") => request[r].p \in PendingIds
  BY DEF IInv, KeysOK, At
<1>4. request'[s] # request[s] \/ ~At(s, "undo")
  BY <1>1 DEF At
<1>5. \A q \in PendingIds : /\ pending'[q].st # "split_approved"
                            /\ pending[q].st = "approved" => pending'[q].st # "pending"
  BY <1>2 DEF Plain
<1> QED BY <1>1, <1>2, <1>3, <1>4, <1>5 DEF NoUndo

\* Beginning a request that is not an undo.
LEMMA StartNoUndo ==
    ASSUME "split" \notin Ops, "edit" \notin Ops, "correct" \notin Ops,
           IInv, Plain, NEW s \in Sessions, Start(s)
    PROVE  NoUndo \/ \E p \in PendingIds : UndoLock(s, p)
<1>1. ASSUME NEW t \in TxnIds, UnusedTxn(t), txn' = [txn EXCEPT ![t] = [NoTxn EXCEPT !.by = s]]
      PROVE  EntriesStay
  BY <1>1 DEF EntriesStay, Live, Plain, UnusedTxn, NoTxn, IInv, TypeOK
<1>2. ASSUME NEW pc \in Pc \ {"undo", "edit"}, NEW p, NEW t, NEW c, Begin(s, pc, p, t, c)
      PROVE  /\ request'[s].pc \notin {"undo", "edit"}
             /\ \A r \in Sessions \ {s} : request'[r] = request[r]
  BY <1>2 DEF Begin, IInv, TypeOK
<1>3. ASSUME NEW r \in Receipts, IngestCheck(s, r)
      PROVE  NoUndo
  <2>1. EntriesStay
    BY <1>3 DEF IngestCheck, EntriesStay, Live, Plain
  <2> QED BY <1>2, <1>3, <2>1, LedgerNoUndo DEF IngestCheck, Pc
<1>4. ASSUME NEW r \in Receipts, ManualCheck(s, r)
      PROVE  NoUndo
  BY <1>1, <1>2, <1>4, LedgerNoUndo DEF ManualCheck, Pc
<1>5. ASSUME NEW p \in PendingIds, ApproveLock(s, p)
      PROVE  NoUndo
  BY <1>1, <1>2, <1>5, LedgerNoUndo DEF ApproveLock, Pc
<1>6. /\ \A p \in PendingIds : ~SplitLock(s, p) /\ ~CorrectRead(s, p)
      /\ \A t \in TxnIds : ~EditLock(s, t)
  BY DEF SplitLock, CorrectRead, EditLock
<1> QED BY <1>3, <1>4, <1>5, <1>6 DEF Start

\* Going on with a request that is not an undo.
LEMMA ContinueNoUndo ==
    ASSUME "learner" \notin Faults,
           IInv, ClaimBase, Plain, NEW s \in Sessions, Continue(s)
    PROVE  NoUndo \/ UndoCommit(s)
<1> DEFINE p == request[s].p
           t == request[s].t
<1>0. None \notin Sessions
  BY ConstantsAssumption
<1>1. CASE IngestInsert(s)
  <2>1. /\ request'[s].pc = "idle" /\ \A r \in Sessions \ {s} : request'[r] = request[r]
        /\ At(s, "ingest") /\ UNCHANGED txn
    BY <1>1, EndEffect DEF IngestInsert, Idle, IInv
  <2>2. p \in PendingIds /\ pending[p].st = "none" /\ \A r \in Sessions \ {s} : request[r].p # p
    BY <2>1 DEF ClaimBase, InboxOK, IInv, KeysOK, At
  <2>3. /\ \A q \in PendingIds \ {p} : pending'[q] = pending[q]
        /\ pending'[p].st \in {"none", "pending"}
    BY <1>1, <2>2 DEF IngestInsert, IInv, TypeOK
  <2>4. EntriesStay
    BY <2>1 DEF EntriesStay, Live, Plain
  <2>5. \A r \in Sessions \ {s} : At(r, "undo") => request[r].p \in PendingIds
    BY DEF IInv, KeysOK, At
  <2> QED BY <2>1, <2>2, <2>3, <2>4, <2>5 DEF NoUndo, Plain, At
<1>2. CASE \/ ManualRefused(s) \/ ApproveRefused(s) \/ ApproveStale(s)
  BY <1>2, RollbackNoUndo DEF ManualRefused, ApproveRefused, ApproveStale
<1>3. ASSUME request[s].pc \in {"approve", "flushed", "manual"}
      PROVE  t \in TxnIds /\ txn[t].by = s /\ ~Live(t)
  BY <1>0, <1>3 DEF IInv, KeysOK, OwnRowsOK, OwnRows, OwnsOne, Live
<1>4. CASE ManualInsert(s)
  <2>1. request'[s].pc = "idle" /\ \A r \in Sessions \ {s} : request'[r] = request[r]
    BY <1>4, EndEffect DEF ManualInsert, Idle, IInv
  <2>2. \A amount \in Amounts : ManualEntry(t, request[s].code, amount).st = "approved"
    BY DEF ManualEntry, Sealed, NewEntry
  <2>3. EntriesStay
    BY <1>3, <1>4, <2>2 DEF ManualInsert, At, EntriesStay, Live, Plain, IInv, TypeOK
  <2> QED BY <1>4, <2>1, <2>3, LedgerNoUndo DEF ManualInsert
<1>5. CASE ApproveInsert(s)
  <2>1. request'[s].pc = "flushed" /\ \A r \in Sessions \ {s} : request'[r] = request[r]
    BY <1>5, AdvanceEffect DEF ApproveInsert, Pc, IInv
  <2>2. EntriesStay
    BY <1>3, <1>5 DEF ApproveInsert, NewEntry, At, EntriesStay, Live, Plain, IInv, TypeOK
  <2> QED BY <1>5, <2>1, <2>2, LedgerNoUndo DEF ApproveInsert
<1>6. CASE TrainingCommit(s)
  <2>1. request'[s].pc = "published" /\ \A r \in Sessions \ {s} : request'[r] = request[r]
    BY <1>6, AdvanceEffect DEF TrainingCommit, Pc, IInv
  <2>2. EntriesStay
    BY <1>0, <1>6 DEF TrainingCommit, Committed, EntriesStay, Live, Plain, IInv, TypeOK, TxnRow
  <2> QED BY <1>6, <2>1, <2>2, LedgerNoUndo DEF TrainingCommit
<1>7. CASE ApproveCommit(s)
  <2>1. p \in PendingIds /\ \A r \in Sessions \ {s} : At(r, "undo") => request[r].p # p
    BY <1>7 DEF ApproveCommit, ClaimBase, InboxOK, HoldsPending, At, IInv, KeysOK
  <2>2. EntriesStay
    BY <1>3, <1>7 DEF ApproveCommit, Sealed, At, EntriesStay, Live, Plain, IInv, TypeOK, TxnRow
  <2> QED BY <1>7, <2>1, <2>2, MarkNoUndo DEF ApproveCommit
<1>8. CASE ApproveCommitLate(s)
  <2>1. p \in PendingIds /\ \A r \in Sessions \ {s} : At(r, "undo") => request[r].p # p
    BY <1>8 DEF ApproveCommitLate, LockedPending, HoldsPending, At, IInv, KeysOK
  <2>2. EntriesStay
    BY <1>8 DEF ApproveCommitLate, EntriesStay, Live, Plain, IInv, TypeOK, TxnRow
  <2> QED BY <1>8, <2>1, <2>2, MarkNoUndo DEF ApproveCommitLate
<1>9. ~SplitInsert(s) /\ ~SplitRefused(s) /\ ~SplitCommit(s) /\ ~EditCommit(s)
  BY DEF Plain, Whole, SplitInsert, SplitRefused, SplitCommit, EditCommit, At
<1>10. ~EditTx(s) /\ ~Reparse(s) /\ ~CorrectStale(s) /\ ~TrainingRollback(s)
  BY DEF ClaimBase, Uncorrected, EditTx, Reparse, SetCode, CorrectStale, TrainingRollback
<1> QED BY <1>1, <1>2, <1>4, <1>5, <1>6, <1>7, <1>8, <1>9, <1>10 DEF Continue

\* Rejecting and clearing rows that nobody holds.
LEMMA InboxNoUndo ==
    ASSUME IInv, Plain
    PROVE  /\ \A p \in PendingIds : Reject(p) => NoUndo
           /\ \A P \in SUBSET PendingIds : ClearHistory(P) => NoUndo
<1>1. ASSUME UNCHANGED <<txn, request>>,
             \A p \in PendingIds :
                /\ LockedPending(p) => pending'[p] = pending[p]
                /\ pending'[p] = pending[p] \/ pending'[p].st \in {"rejected", "cleared"}
      PROVE  NoUndo
  <2>1. \A s \in Sessions : At(s, "undo") => request[s].p \in PendingIds /\ LockedPending(request[s].p)
    BY DEF LockedPending, HoldsPending, At, IInv, KeysOK
  <2>2. EntriesStay
    BY <1>1 DEF EntriesStay, Live, Plain
  <2> QED BY <1>1, <2>1, <2>2 DEF NoUndo, Plain
<1>2. ASSUME NEW p \in PendingIds, Reject(p)
      PROVE  NoUndo
  <2>1. /\ pending'[p].st = "rejected"
        /\ \A q \in PendingIds \ {p} : pending'[q] = pending[q]
        /\ ~LockedPending(p) /\ UNCHANGED <<txn, request>>
    BY <1>2 DEF Reject, MarkPending, IInv, TypeOK, PendingRow
  <2> QED BY <1>1, <2>1
<1>3. ASSUME NEW P \in SUBSET PendingIds, ClearHistory(P)
      PROVE  NoUndo
  <2>1. UNCHANGED <<txn, request>> /\ \A q \in P : ~LockedPending(q)
    BY <1>3 DEF ClearHistory
  <2>2. \A q \in PendingIds : /\ q \in P => pending'[q].st = "cleared"
                              /\ q \notin P => pending'[q] = pending[q]
    BY <1>3 DEF ClearHistory, IInv, TypeOK, PendingRow
  <2> QED BY <1>1, <2>1, <2>2
<1> QED BY <1>2, <1>3

\* An undo begins by finding the entry of its row, which ApprovedStaysRecorded says is there.
LEMMA UndoLockFinds ==
    ASSUME IInv, ClaimBase, ClaimRest, Plain, NEW s \in Sessions, NEW p \in PendingIds, UndoLock(s, p),
           \A r \in Sessions : UndoFinds(r)
    PROVE  Plain' /\ \A r \in Sessions : UndoFinds(r)'
<1> DEFINE c == pending[p].code
<1>1. /\ EntryOf(p) \in TxnIds \cup {None}
      /\ pending[p].st = "approved" => EntryOf(p) # None /\ Live(EntryOf(p)) /\ txn[EntryOf(p)].base = c
  <2>1. CASE pending[p].st = "approved" /\ c # NoCode /\ Taken(c, 0)
    <3>1. PICK t \in TxnIds : t = EntryOf(p) /\ Visible(t) /\ HasCode(t, c, 0)
      BY <2>1 DEF EntryOf, Taken
    <3>2. Live(t)
      BY <3>1 DEF Visible, Live, Plain
    <3> QED BY <3>1, <3>2, ConstantsAssumption DEF HasCode
  <2>2. pending[p].st = "approved" => c # NoCode /\ Taken(c, 0)
    <3> SUFFICES ASSUME pending[p].st = "approved"
                 PROVE  c # NoCode /\ Taken(c, 0)
      OBVIOUS
    <3>1. c \in Receipts /\ c # NoCode
      BY ConstantsAssumption DEF ClaimBase, PaymentCodes
    <3>2. ~InParts(c)
      BY DEF InParts, Plain, Whole
    <3>3. InWhole(c)
      BY <3>1, <3>2 DEF ClaimRest, RecordsOK, RecordedWhole
    <3>4. PICK t \in TxnIds : Record(t) /\ txn[t].base = c /\ txn[t].part = 0
      BY <3>3 DEF InWhole
    <3>5. Visible(t) /\ HasCode(t, c, 0)
      BY <3>4 DEF Record, Live, Visible, HasCode, IInv, RowsOK
    <3> QED BY <3>1, <3>5 DEF Taken
  <2>3. EntryOf(p) \in TxnIds \cup {None}
    BY DEF EntryOf, Taken
  <2> QED BY <2>1, <2>2, <2>3
<1>2. /\ request'[s] = [pc |-> "undo", p |-> p, t |-> EntryOf(p), code |-> NoCode]
      /\ \A r \in Sessions \ {s} : request'[r] = request[r]
      /\ UNCHANGED <<pending, txn>>
  BY <1>1, BeginEffect DEF UndoLock, Codes, Pc, IInv
<1>3. Plain'
  BY <1>2 DEF Plain, Whole, At
<1>4. \A r \in Sessions : UndoFinds(r)'
  BY <1>1, <1>2 DEF UndoFinds, At, Live
<1> QED BY <1>3, <1>4

\* An undo deletes the entry of its own row, which is the only one of its payment.
LEMMA UndoCommitEmpties ==
    ASSUME IInv, ClaimBase, ClaimRest, Plain, NEW s \in Sessions, UndoCommit(s),
           \A r \in Sessions : UndoFinds(r)
    PROVE  /\ Plain' /\ \A r \in Sessions : UndoFinds(r)'
           /\ \A p \in PendingIds :
                 pending[p].st = "approved" /\ pending'[p].st = "pending" =>
                     ~ \E t \in TxnIds : Live(t)' /\ txn'[t].receipt = pending[p].receipt
<1>1. PICK p \in PendingIds : p = request[s].p /\ InInbox(p) /\ IsProcessed(p)
  BY DEF UndoCommit, IInv, KeysOK, At, ClaimBase, InboxOK, HoldsPending, ClaimRest, WritesCode
<1>2. PICK t : t = request[s].t
  OBVIOUS
<1>3. /\ request'[s].pc = "idle" /\ \A r \in Sessions \ {s} : request'[r] = request[r]
      /\ At(s, "undo")
  BY EndEffect DEF UndoCommit, Idle, IInv
<1>4. /\ pending'[p].st = "pending" /\ pending'[p].code = pending[p].code
      /\ \A q \in PendingIds \ {p} : pending'[q] = pending[q]
  BY <1>1 DEF UndoCommit, MarkPending, IInv, TypeOK, PendingRow
<1>5. /\ t # None => t \in TxnIds /\ txn[t].base = pending[p].code /\ txn'[t].st = "deleted"
      /\ \A u \in TxnIds \ {t} : txn'[u] = txn[u]
      /\ t = None => txn' = txn
  BY <1>1, <1>2, <1>3 DEF UndoCommit, IInv, TypeOK, Request, TxnRow, ClaimRest, WritesCode, At
<1>6. Plain'
  <2>1. \A u \in TxnIds : txn'[u].part = txn[u].part
    BY <1>2 DEF UndoCommit, IInv, TypeOK, TxnRow
  <2>2. \A u \in TxnIds : txn'[u].st # "superseded"
    BY <1>5, ConstantsAssumption DEF Plain
  <2> QED BY <1>3, <1>4, <2>1, <2>2 DEF Plain, Whole, At
<1>7. ASSUME NEW r \in Sessions, At(r, "undo")', pending'[request'[r].p].st = "approved"
      PROVE  \E u \in TxnIds : /\ request'[r].t = u /\ u # None /\ Live(u)'
                              /\ txn'[u].base = pending'[request'[r].p].code
  <2>1. r # s /\ request'[r] = request[r] /\ At(r, "undo")
    BY <1>3, <1>7 DEF At
  <2>2. PICK q \in PendingIds : q = request[r].p /\ InInbox(q) /\ q # p
    BY <1>1, <1>3, <2>1 DEF IInv, KeysOK, At, ClaimBase, InboxOK, HoldsPending
  <2>3. pending'[q] = pending[q] /\ pending[q].st = "approved" /\ pending[q].code # pending[p].code
    BY <1>1, <1>4, <1>7, <2>1, <2>2 DEF ClaimBase, InboxOK
  <2>4. /\ request[r].t # None /\ Live(request[r].t)
        /\ txn[request[r].t].base = pending[q].code
    BY <2>1, <2>2, <2>3 DEF UndoFinds
  <2>5. PICK u \in TxnIds : u = request[r].t
    BY <2>4 DEF IInv, TypeOK, Request
  <2>6. u # t
    BY <1>5, <2>3, <2>4, <2>5
  <2>7. txn'[u] = txn[u]
    BY <1>5, <2>6
  <2>8. Live(u)' /\ u # None
    BY <2>4, <2>5, <2>7 DEF Live
  <2> QED BY <2>1, <2>2, <2>3, <2>4, <2>5, <2>7, <2>8
<1>8. \A r \in Sessions : UndoFinds(r)'
  BY <1>7 DEF UndoFinds, At
<1>9. ASSUME NEW q \in PendingIds, pending[q].st = "approved", pending'[q].st = "pending",
             NEW u \in TxnIds, Live(u)', txn'[u].receipt = pending[q].receipt
      PROVE  FALSE
  <2>1. q = p
    BY <1>4, <1>9
  <2>2. t # None /\ Live(t) /\ txn[t].base = pending[p].code /\ t \in TxnIds
    BY <1>1, <1>2, <1>3, <1>5, <1>9, <2>1 DEF UndoFinds
  <2>3. u # t /\ txn'[u] = txn[u] /\ Live(u)
    BY <1>5, <1>9, <2>2 DEF Live
  <2>4. txn[u].base = txn[t].base /\ txn[t].base # NoCode
    BY <1>9, <2>1, <2>2, <2>3, ConstantsAssumption DEF ClaimBase, PaymentCodes, Live
  <2>5. txn[u].part = txn[t].part
    BY <2>2 DEF Plain, Whole
  <2>6. \A r \in Sessions : ~Replacing(r, t, u) /\ ~Replacing(r, u, t)
    BY DEF Replacing, Plain
  <2> QED BY <2>2, <2>3, <2>4, <2>5, <2>6 DEF IInv, CodesOK, Live
<1> QED BY <1>6, <1>8, <1>9

\* Every other step leaves the undos that are going on what they have found.
LEMMA NoUndoStep ==
    ASSUME "split" \notin Ops, IInv, ClaimBase, Plain, \A r \in Sessions : UndoFinds(r),
           [Next]_vars, NoUndo
    PROVE  Plain' /\ \A r \in Sessions : UndoFinds(r)'
<1>1. Plain'
  BY WholeStep DEF Plain, NoUndo, EntriesStay, At
<1>2. ASSUME NEW r \in Sessions, At(r, "undo")'
      PROVE  /\ At(r, "undo") /\ request'[r] = request[r]
             /\ pending'[request[r].p] = pending[request[r].p]
  BY <1>2 DEF NoUndo, At
<1>3. ASSUME NEW r \in Sessions, At(r, "undo")', pending'[request'[r].p].st = "approved"
      PROVE  \E u \in TxnIds : /\ request'[r].t = u /\ u # None /\ Live(u)'
                              /\ txn'[u].base = pending'[request'[r].p].code
  <2>1. /\ request[r].t # None /\ Live(request[r].t)
        /\ txn[request[r].t].base = pending[request[r].p].code
    BY <1>2, <1>3 DEF UndoFinds
  <2>2. PICK u \in TxnIds : u = request[r].t
    BY <2>1 DEF IInv, TypeOK, Request
  <2>3. Live(u)' /\ txn'[u].base = txn[u].base
    BY <2>1, <2>2 DEF NoUndo, EntriesStay
  <2> QED BY <1>2, <1>3, <2>1, <2>2, <2>3
<1> QED BY <1>1, <1>3 DEF UndoFinds, At

\* undo_transaction reopens a payment of which nothing is left in the ledger, where treasurers
\* neither split, edit nor correct and the learner's insert does not fail.
THEOREM UndoLeavesNothing ==
    ASSUME "split" \notin Ops, "edit" \notin Ops, "correct" \notin Ops, "learner" \notin Faults
    PROVE  Spec => UndoEmptiesLedger
<1> DEFINE Inv == ClaimBase /\ ClaimRest /\ Plain /\ \A s \in Sessions : UndoFinds(s)
           Empties ==
               \A p \in PendingIds :
                   /\ pending[p].st \in {"approved", "split_approved"}
                   /\ pending'[p].st = "pending"
                   => ~ \E t \in TxnIds : Live(t)' /\ txn'[t].receipt = pending[p].receipt
<1>1. Init => Inv
  BY BaseInit, RestInit DEF Init, Plain, Whole, UndoFinds, At, NoPending, NoTxn, Idle
<1>2. ASSUME IInv, Inv, [Next]_vars
      PROVE  Inv' /\ [Empties]_vars
  <2>1. ClaimBase' /\ ClaimRest'
    BY <1>2, BaseStep, RestStep
  <2>2. CASE NoUndo
    BY <1>2, <2>1, <2>2, NoUndoStep DEF NoUndo, Plain
  <2>3. CASE \E s \in Sessions, p \in PendingIds : UndoLock(s, p)
    BY <1>2, <2>1, <2>3, UndoLockFinds DEF UndoLock
  <2>4. CASE \E s \in Sessions : UndoCommit(s)
    BY <1>2, <2>1, <2>4, UndoCommitEmpties DEF Plain
  <2>5. CASE UNCHANGED vars
    BY <1>2, <2>1, <2>5 DEF vars, Plain, Whole, UndoFinds, At, Live
  <2>6. ASSUME NEW s \in Sessions, Start(s) \/ Continue(s) \/ Abandon(s)
        PROVE  NoUndo \/ UndoCommit(s) \/ \E p \in PendingIds : UndoLock(s, p)
    BY <1>2, <2>6, StartNoUndo, ContinueNoUndo, RollbackNoUndo DEF Abandon
  <2> QED BY <1>2, <2>2, <2>3, <2>4, <2>5, <2>6, InboxNoUndo DEF Next
<1>3. [Empties]_vars => [\A p \in PendingIds :
                            /\ pending[p].st \in {"approved", "split_approved"}
                            /\ pending'[p].st = "pending"
                            => ~ \E t \in TxnIds : /\ Live(t)'
                                                   /\ txn'[t].receipt = pending[p].receipt]_vars
  OBVIOUS
<1> QED BY <1>1, <1>2, <1>3, Inductive, PTL DEF Spec, UndoEmptiesLedger

=============================================================================
