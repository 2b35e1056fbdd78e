------------------------- MODULE ApprovalInvariant -------------------------
(***************************************************************************)
(* The inductive invariant of module Approval: what has to hold of the     *)
(* rows and of the requests that wrote them for the properties of that     *)
(* module to be kept by every step.                                        *)
(***************************************************************************)
EXTENDS Approval

\* A request holds the keys its next step uses.
KeysOK ==
    \A s \in Sessions :
        /\ request[s].pc \in {"approve", "flushed", "published", "split", "split_flushed",
                              "undo", "correct", "ingest"} => request[s].p \in PendingIds
        /\ request[s].pc \in {"approve", "flushed", "edit", "manual"} => request[s].t \in TxnIds

\* Only an edit renames an entry, and what is not committed is an entry or a reserved
\* key of a request that has reserved keys or flushed entries.
RowsOK ==
    \A t \in TxnIds :
        /\ txn[t].st = "approved" => txn[t].rev = FALSE
        /\ txn[t].st = "superseded" => txn[t].rev = TRUE /\ txn[t].by = None
        /\ txn[t].by # None =>
            \/ /\ txn[t].st = "none"
               /\ request[txn[t].by].pc \in {"approve", "manual", "split"}
            \/ /\ txn[t].st = "approved"
               /\ request[txn[t].by].pc \in {"flushed", "split_flushed", "edit"}

\* A request that writes one entry has that one and no other.
OwnsOne(s) ==
    /\ txn[request[s].t].by = s
    /\ \A u \in TxnIds : txn[u].by = s => u = request[s].t

OwnRows(s) ==
    /\ request[s].pc \in {"approve", "flushed", "manual"} => OwnsOne(s)
    /\ At(s, "flushed") => txn[request[s].t].part = 0
    /\ request[s].pc \in {"split", "split_flushed"} =>
          /\ \A u \in TxnIds : txn[u].by = s => txn[u].part # 0
          /\ \A i \in 1 .. Parts : \E u \in TxnIds : txn[u].by = s /\ txn[u].part = i
          /\ \A u, v \in TxnIds : /\ txn[u].by = s /\ txn[v].by = s
                                  /\ txn[u].part = txn[v].part
                                  => u = v
    /\ At(s, "split_flushed") =>
          \A u, v \in TxnIds : txn[u].by = s /\ txn[v].by = s => txn[u].base = txn[v].base

OwnRowsOK == \A s \in Sessions : OwnRows(s)

\* s is replacing entry t by u.
Replacing(s, t, u) == At(s, "edit") /\ request[s].t = t /\ txn[u].by = s

\* The entry that a request will seal, supersede or delete is a committed one; an edit
\* has locked it and holds one replacement for its code.
Target(s) ==
    /\ request[s].pc \in {"published", "undo"} /\ request[s].t # None =>
          /\ txn[request[s].t].by = None
          /\ txn[request[s].t].st # "none"
          /\ txn[request[s].t].part = 0
    /\ At(s, "edit") =>
          /\ Live(request[s].t)
          /\ \A r \in Sessions \ {s} : At(r, "edit") => request[r].t # request[s].t
          /\ \E u \in TxnIds :
                /\ txn[u].by = s
                /\ txn[u].base = txn[request[s].t].base
                /\ txn[u].part = txn[request[s].t].part
                /\ \A v \in TxnIds : txn[v].by = s => v = u

TargetsOK == \A s \in Sessions : Target(s)

\* Two entries of one code, committed or not: an edit and its replacement.
CodesOK ==
    \A t, u \in TxnIds :
        /\ txn[t].st = "approved" /\ txn[u].st = "approved"
        /\ txn[t].base # NoCode
        /\ txn[t].base = txn[u].base /\ txn[t].part = txn[u].part
        => \/ t = u
           \/ \E s \in Sessions : Replacing(s, t, u) \/ Replacing(s, u, t)

\* The seals an entry may be given when it is approved.
OwnSeals(t) == {FirstSeal(t, amount) : amount \in Amounts}

\* An approved entry has the seal it was given then; only that of an approval waits for it.
SealOf(t) ==
    txn[t].st = "approved" =>
        \/ txn[t].seal \in OwnSeals(t)
        \/ /\ txn[t].seal = NoSeal
           /\ \/ txn[t].by # None /\ At(txn[t].by, "flushed")
              \/ \E s \in Sessions : At(s, "published") /\ request[s].t = t
              \/ t \in torn /\ txn[t].by = None

SealsOK == \A t \in TxnIds : SealOf(t)

IInv ==
    /\ TypeOK /\ KeysOK
    /\ RowsOK /\ OwnRowsOK /\ TargetsOK
    /\ CodesOK
    /\ SealsOK /\ SplitWhole /\ SupersededIsReplaced

=============================================================================
