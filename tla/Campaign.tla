------------------------------ MODULE Campaign ------------------------------
(***************************************************************************)
(* One campaign, its group and their owner: a settings document, the       *)
(* currency, and the goal.                                                 *)
(*                                                                         *)
(* Settings are one JSON column.  A request reads the document, merges its *)
(* key into it and writes all of it back; requests that overlap may undo   *)
(* each other.  The model follows one document (of the user, the group or  *)
(* the campaign) through every request that writes to it.                  *)
(* An approval commits, then adds up the campaign, then reads the target   *)
(* and announces the goal if the total has passed it with this approval.   *)
(***************************************************************************)
EXTENDS Integers, FiniteSets

CONSTANTS
    Sessions,      \* requests at a time
    Values,        \* values of a key of the document
    Absent,        \* of a key that the document does not have
    Amounts,       \* amounts of contributions
    Targets,       \* targets of the campaign
    MaxRaised      \* bound on what is raised

\* reporting: what the settings service writes; other: the PIN of a campaign, the cover photo
\* of a group, the other domains of a user.
Keys == {"reporting", "other"}

Owners == {"user", "group", "campaign"}

ASSUME ConstantsAssumption ==
    /\ IsFiniteSet(Sessions)
    /\ Absent \notin Values
    /\ Amounts \subseteq Nat \ {0}
    /\ Targets \subseteq Nat
    /\ MaxRaised \in Nat

VARIABLES
    owner,         \* whose document this is
    active,        \* the group, or the campaign, is not archived
    doc,           \* settings_override, preferences
    target,        \* target_amount
    raised,        \* the sum of the approved transactions
    session,       \* what each request is in the middle of
    acked,         \* history: the value of each key that was last acknowledged
    erased,        \* history: keys that a later replacement of the document did not name
    exposed,       \* history: keys that were last written while another request had read
    late,          \* history: changes of currency since there are contributions
    announced      \* history: announcements since the total came to the target, or was cut

document == <<owner, doc, acked, erased, exposed>>

goal == <<target, raised, announced>>

vars == <<owner, active, doc, target, raised, session, acked, erased, exposed, late, announced>>

Document == [Keys -> Values \cup {Absent}]

\* pc: write, the document is read; currency, no contributions were found; sum, an approval
\* has committed; announce, and has added up the campaign.
Session == [pc : {"idle", "currency"}]
               \cup [pc : {"write"}, key : Keys, value : Values, read : Document]
               \cup [pc : {"sum"}, amount : Amounts]
               \cup [pc : {"announce"}, amount : Amounts, total : 0..MaxRaised]

Idle == [pc |-> "idle"]

At(s, pc) == session[s].pc = pc

Goto(s, job) == session' = [session EXCEPT ![s] = job]

Others(s, pc) == {r \in Sessions \ {s} : At(r, pc)}

-----------------------------------------------------------------------------
(* Settings *)

ReadDocument(s, key, value) ==
    /\ At(s, "idle")
    /\ Goto(s, [pc |-> "write", key |-> key, value |-> value, read |-> doc])
    /\ UNCHANGED <<active, late, document, goal>>

\* The settings service: a domain of the document.  A premium value is refused here if the
\* plan does not have it.
UpdateDomain(s, key, value) ==
    /\ owner \in {"group", "campaign"} => key = "reporting"
    /\ ReadDocument(s, key, value)

\* PATCH /campaigns merges the settings it is given, the PIN among them, unless archived.
UpdateCampaign(s, value) == owner = "campaign" /\ active /\ ReadDocument(s, "other", value)

\* The new PIN is answered to the treasurer.
RegeneratePin(s, value) == owner = "campaign" /\ ReadDocument(s, "other", value)

UploadCoverPhoto(s, value) == owner = "group" /\ ReadDocument(s, "other", value)

\* Slip: the document is written as it was asked for, without what it held before.
Merged_Bare(job) == [key \in Keys |-> job.value]

Merged(job) == [job.read EXCEPT ![job.key] = job.value]

WriteDocument(s) ==
    LET job == session[s] IN
    /\ At(s, "write")
    /\ doc' = Merged(job)
    /\ acked' = [acked EXCEPT ![job.key] = job.value]
    /\ erased' = erased \ {job.key}
    /\ exposed' = IF Others(s, "write") = {} THEN exposed \ {job.key} ELSE exposed \cup {job.key}
    /\ Goto(s, Idle)
    /\ UNCHANGED <<owner, active, late, goal>>

\* PATCH /groups replaces the document of a group, unless archived: what it does not name is
\* gone, and nobody was told.
ReplaceDocument(new) ==
    LET named == {key \in Keys : new[key] # Absent} IN
    /\ owner = "group"
    /\ active
    /\ doc' = new
    /\ acked' = [key \in Keys |-> IF key \in named THEN new[key] ELSE acked[key]]
    /\ erased' = Keys \ named
    /\ exposed' = IF \E s \in Sessions : At(s, "write") THEN Keys ELSE {}
    /\ UNCHANGED <<owner, active, session, late, goal>>

Archive ==
    /\ active
    /\ active' = FALSE
    /\ UNCHANGED <<session, late, document, goal>>

-----------------------------------------------------------------------------
(* Currency *)

\* Slip: nobody looks for contributions.
ReadCurrency_Unchecked(s) ==
    /\ At(s, "idle")
    /\ active
    /\ Goto(s, [pc |-> "currency"])
    /\ UNCHANGED <<active, late, document, goal>>

\* Another currency is asked for, and no transaction is approved.
ReadCurrency(s) ==
    /\ At(s, "idle")
    /\ active
    /\ raised = 0
    /\ Goto(s, [pc |-> "currency"])
    /\ UNCHANGED <<active, late, document, goal>>

\* Counting ends above the bound that CurrencySettled claims.
WriteCurrency(s) ==
    /\ At(s, "currency")
    /\ late' = IF raised > 0 /\ late <= Cardinality(Sessions) THEN late + 1 ELSE late
    /\ Goto(s, Idle)
    /\ UNCHANGED <<active, document, goal>>

-----------------------------------------------------------------------------
(* Contributions *)

\* Slip: a total that was at the target already passes it.
Passes_Again(total, amount) == total >= target /\ total - amount <= target

\* The total reaches the target, and would not without this amount.
Passes(total, amount) == total >= target /\ total - amount < target

\* History: counting begins anew when the total comes to the target, or is cut.
SetRaised(total) ==
    /\ raised' = total
    /\ announced' = IF total < raised \/ (raised < target /\ target <= total) THEN 0 ELSE announced

Approve(s, amount) ==
    /\ At(s, "idle")
    /\ raised + amount <= MaxRaised
    /\ SetRaised(raised + amount)
    /\ Goto(s, [pc |-> "sum", amount |-> amount])
    /\ UNCHANGED <<active, target, late, document>>

SumUp(s) ==
    /\ At(s, "sum")
    /\ Goto(s, [pc |-> "announce", amount |-> session[s].amount, total |-> raised])
    /\ UNCHANGED <<active, late, document, goal>>

\* The target is read after the sum.
Announce(s) ==
    LET job == session[s] IN
    /\ At(s, "announce")
    /\ announced' = IF Passes(job.total, job.amount) THEN announced + 1 ELSE announced
    /\ Goto(s, Idle)
    /\ UNCHANGED <<active, target, raised, late, document>>

\* The process dies, the audit log fails, or the notification cannot be stored.
LoseAnnouncement(s) ==
    /\ At(s, "sum") \/ At(s, "announce")
    /\ Goto(s, Idle)
    /\ UNCHANGED <<active, late, document, goal>>

\* A split or a manual entry adds, an undo takes away, an edit does either; nothing is announced.
ChangeRaised(total) ==
    /\ total # raised
    /\ SetRaised(total)
    /\ late' = IF total = 0 THEN 0 ELSE late
    /\ UNCHANGED <<active, target, session, document>>

SetTarget(amount) ==
    /\ active
    /\ target' = amount
    /\ announced' = 0
    /\ UNCHANGED <<active, raised, session, late, document>>

-----------------------------------------------------------------------------
(* The specification *)

Init ==
    /\ owner \in Owners
    /\ active = TRUE
    /\ doc \in Document
    /\ target \in Targets
    /\ raised = 0
    /\ session = [s \in Sessions |-> Idle]
    /\ acked = doc
    /\ erased = {}
    /\ exposed = {}
    /\ late = 0
    /\ announced = 0

Next ==
    \/ \E s \in Sessions :
          \/ \E value \in Values : \/ \E key \in Keys : UpdateDomain(s, key, value)
                                   \/ UpdateCampaign(s, value)
                                   \/ RegeneratePin(s, value)
                                   \/ UploadCoverPhoto(s, value)
          \/ WriteDocument(s)
          \/ ReadCurrency(s) \/ WriteCurrency(s)
          \/ \E amount \in Amounts : Approve(s, amount)
          \/ SumUp(s) \/ Announce(s) \/ LoseAnnouncement(s)
    \/ \E new \in Document : ReplaceDocument(new)
    \/ \E total \in 0..MaxRaised : ChangeRaised(total)
    \/ \E amount \in Targets : SetTarget(amount)
    \/ Archive

Spec == Init /\ [][Next]_vars

-----------------------------------------------------------------------------
(* Properties *)

\* Rows, requests and histories hold what their declarations allow.
TypeOK ==
    /\ owner \in Owners
    /\ active \in BOOLEAN
    /\ doc \in Document
    /\ target \in Targets
    /\ raised \in 0..MaxRaised
    /\ session \in [Sessions -> Session]
    /\ acked \in Document
    /\ erased \in SUBSET Keys
    /\ exposed \in SUBSET Keys
    /\ late \in 0..(Cardinality(Sessions) + 1)
    /\ announced \in Nat

\* A setting whose request overlapped no other stays what the treasurer was told, the PIN
\* too, however many later requests write the document for the sake of another key, until a
\* PATCH of the group replaces the document without it.
AcknowledgedIsKept ==
    \A key \in Keys \ exposed : doc[key] = IF key \in erased THEN Absent ELSE acked[key]

\* Once there are contributions the currency changes at most once for each request that had
\* looked for them before.
CurrencySettled == late <= Cardinality(Sessions)

\* From when the total has come to the target until it falls or the target changes, the goal
\* is announced at most once for each request that overlaps: approvals that commit together
\* may each take themselves for the one that passed it, but none that commits later does.
GoalNotSpammed == announced <= Cardinality(Sessions)
=============================================================================
