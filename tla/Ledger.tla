------------------------------- MODULE Ledger -------------------------------
(***************************************************************************)
(* What the transactions table promises, whatever the requests that write  *)
(* it do to the inbox: an append-only book of entries.  An entry is        *)
(* recorded once, is sealed, and is never changed again except that it may *)
(* be superseded by a replacement for the same code, or voided.  A code    *)
(* counts at most once.                                                    *)
(***************************************************************************)
CONSTANTS
    Ids,       \* primary keys
    Keys,      \* transaction codes without their revision suffix
    Unique,    \* those that name a payment; the others are generated and fresh
    NoKey      \* the key of an entry that is not there

VARIABLE entry

Counted == {"open", "sealed"}

Status == {"absent", "superseded", "void"} \cup Counted

Absent == [st |-> "absent", key |-> NoKey]

Entry == [st : Status, key : Keys \cup {NoKey}]

IsCounted(t) == entry[t].st \in Counted

CountsOnce ==
    \A t, u \in Ids : /\ IsCounted(t) /\ IsCounted(u)
                      /\ entry[t].key \in Unique
                      /\ entry[t].key = entry[u].key
                      => t = u

-----------------------------------------------------------------------------

LedgerInit == entry = [t \in Ids |-> Absent]

\* The entries of one approval, split or manual entry appear together, each for a
\* code that is not counted yet.
Record ==
    \E I \in (SUBSET Ids) \ {{}} :
        /\ \A t \in I : entry[t].st = "absent"
        /\ entry' \in [Ids -> Entry]
        /\ \A t \in I : entry'[t].st \in Counted /\ entry'[t].key \in Keys
        /\ \A t \in Ids \ I : entry'[t] = entry[t]
        /\ CountsOnce'

\* An entry recorded without its seal gets it.
SealEntry(t) ==
    /\ entry[t].st = "open"
    /\ entry' = [entry EXCEPT ![t].st = "sealed"]

\* A sealed replacement takes over the code.
Revise(t, u) ==
    /\ IsCounted(t)
    /\ entry[u].st = "absent"
    /\ entry' = [entry EXCEPT ![t].st = "superseded",
                              ![u] = [st |-> "sealed", key |-> entry[t].key]]

\* An approval is undone.
Void(t) ==
    /\ entry[t].st \in Counted \cup {"superseded"}
    /\ entry' = [entry EXCEPT ![t].st = "void"]

LedgerNext ==
    \/ Record
    \/ \E t \in Ids : SealEntry(t) \/ Void(t)
    \/ \E t, u \in Ids : Revise(t, u)

LedgerSpec == LedgerInit /\ [][LedgerNext]_entry

=============================================================================
