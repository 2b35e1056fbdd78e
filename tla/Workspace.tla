----------------------------- MODULE Workspace -----------------------------
(***************************************************************************)
(* The groups and campaigns of one treasurer, under the limits of the      *)
(* plan.  A request counts, looks for a free slug and inserts in           *)
(* statements of their own; between them other requests, a change of plan  *)
(* (module Subscriptions), approvals (module Approval) and creation by     *)
(* message (module Gateway) come in.  What the database contributes are    *)
(* its constraints: unique slugs, foreign keys, NOT NULL.  Rows of other   *)
(* treasurers are not modelled; settings, currency and totals are module   *)
(* Campaign.                                                               *)
(***************************************************************************)
EXTENDS Naturals, FiniteSets

CONSTANTS
    Groups,        \* keys of groups
    Campaigns,     \* keys of campaigns
    Slugs,         \* slugs
    Sessions,      \* requests at a time
    Plans,         \* plans a treasurer can have
    MaxLimit,      \* the highest limit of a plan
    None

Things == {"group", "campaign"}

ASSUME ConstantsAssumption ==
    /\ IsFiniteSet(Sessions) /\ Sessions # {}
    /\ IsFiniteSet(Groups)
    /\ IsFiniteSet(Campaigns)
    /\ MaxLimit \in Nat
    /\ Plans \subseteq [Things -> 0..MaxLimit]
    /\ None \notin Groups \cup Slugs

VARIABLES
    plan,          \* the active plan
    group,         \* rows of groups
    campaign,      \* rows of campaigns
    ledger,        \* what transactions refer to a group
    session        \* what each request is in the middle of

vars == <<plan, group, campaign, ledger, session>>

State == {"none", "active", "archived"}

\* Rows created by message have no slug.
GroupRow == [st : State, slug : Slugs \cup {None}]

CampaignRow == [stored : BOOLEAN, slug : Slugs \cup {None}, group : Groups \cup {None}]

NoGroup == [st |-> "none", slug |-> None]

NoCampaign == [stored |-> FALSE, slug |-> None, group |-> None]

\* past: there are transactions, but none is approved.
Entries == {"none", "approved", "past"}

Session == [pc : {"idle", "slug", "insert", "delete"}, thing : Things,
            group : Groups \cup {None}, slug : Slugs \cup {None}]

Idle == [pc |-> "idle", thing |-> "group", group |-> None, slug |-> None]

At(s, pc) == session[s].pc = pc

Goto(s, job) == session' = [session EXCEPT ![s] = job]

\* The request fails with 400 or 500.
Refuse(s) == Goto(s, Idle) /\ UNCHANGED <<plan, group, campaign, ledger>>

GroupRows == {g \in Groups : group[g].st # "none"}

CampaignRows == {c \in Campaigns : campaign[c].stored}

Count(thing) == IF thing = "group" THEN Cardinality(GroupRows) ELSE Cardinality(CampaignRows)

-----------------------------------------------------------------------------
(* Creation *)

\* Slip: the limit itself is let through.
WithinLimit_OffByOne(thing) == Count(thing) <= plan[thing]

WithinLimit(thing) == Count(thing) < plan[thing]

\* The plan is read and the rows are counted; for a campaign the route names a group, which
\* must exist, archived or not.
CheckLimit(s, thing, g) ==
    /\ At(s, "idle")
    /\ WithinLimit(thing)
    /\ IF thing = "group" THEN g = None ELSE g \in GroupRows
    /\ Goto(s, [Idle EXCEPT !.pc = "slug", !.thing = thing, !.group = g])
    /\ UNCHANGED <<plan, group, campaign, ledger>>

\* A slug is taken within the treasurer's groups, or within the campaigns of a group.
SlugTaken(thing, g, slug) ==
    IF thing = "group" THEN \E h \in GroupRows : group[h].slug = slug
                       ELSE \E c \in CampaignRows : campaign[c].group = g /\ campaign[c].slug = slug

\* The loop ends with the slug of the name, or that with a random suffix.
ChooseSlug(s, slug) ==
    /\ At(s, "slug")
    /\ ~SlugTaken(session[s].thing, session[s].group, slug)
    /\ Goto(s, [session[s] EXCEPT !.pc = "insert", !.slug = slug])
    /\ UNCHANGED <<plan, group, campaign, ledger>>

\* Slip: the constraint knows the slugs of archived groups no more.
Unique_OfActive(thing, g, slug) ==
    IF thing = "group" THEN \A h \in GroupRows : group[h].slug = slug => group[h].st = "archived"
                       ELSE \A c \in CampaignRows : campaign[c].group = g => campaign[c].slug # slug

\* uq_group_owner_slug, uq_campaign_group_slug: NULL is never equal.
Unique(thing, g, slug) == slug = None \/ ~SlugTaken(thing, g, slug)

InsertGroup(s, g) ==
    LET job == session[s] IN
    /\ At(s, "insert") /\ job.thing = "group"
    /\ Unique("group", None, job.slug)
    /\ g \notin GroupRows
    /\ group' = [group EXCEPT ![g] = [st |-> "active", slug |-> job.slug]]
    /\ Goto(s, Idle)
    /\ UNCHANGED <<plan, campaign, ledger>>

InsertCampaign(s, c) ==
    LET job == session[s] IN
    /\ At(s, "insert") /\ job.thing = "campaign"
    /\ job.group \in GroupRows
    /\ Unique("campaign", job.group, job.slug)
    /\ c \notin CampaignRows
    /\ campaign' = [campaign EXCEPT ![c] = [stored |-> TRUE, slug |-> job.slug, group |-> job.group]]
    /\ Goto(s, Idle)
    /\ UNCHANGED <<plan, group, ledger>>

\* IntegrityError: the slug is taken meanwhile, or the group deleted.
InsertRefused(s) ==
    LET job == session[s] IN
    /\ At(s, "insert")
    /\ \/ ~Unique(job.thing, job.group, job.slug)
       \/ job.thing = "campaign" /\ job.group \notin GroupRows
    /\ Refuse(s)

\* The gateway asks no plan and gives no slug.
CreateGroupByMessage(g) ==
    /\ g \notin GroupRows
    /\ group' = [group EXCEPT ![g] = [st |-> "active", slug |-> None]]
    /\ UNCHANGED <<plan, campaign, ledger, session>>

CreateCampaignByMessage(c, g) ==
    /\ c \notin CampaignRows
    /\ g \in GroupRows
    /\ campaign' = [campaign EXCEPT ![c] = [stored |-> TRUE, slug |-> None, group |-> g]]
    /\ UNCHANGED <<plan, group, ledger, session>>

-----------------------------------------------------------------------------
(* Archiving *)

\* Of an archived campaign nothing changes here.
Archive(g) ==
    /\ group[g].st = "active"
    /\ group' = [group EXCEPT ![g].st = "archived"]
    /\ UNCHANGED <<plan, campaign, ledger, session>>

-----------------------------------------------------------------------------
(* Deletion *)

DeleteRead(s, g) ==
    /\ At(s, "idle")
    /\ g \in GroupRows
    /\ ledger[g] # "approved"
    /\ Goto(s, [Idle EXCEPT !.pc = "delete", !.group = g])
    /\ UNCHANGED <<plan, group, campaign, ledger>>

\* Slip: campaigns go with their group as far as the database is concerned.
Referenced_ByEntries(g) == ledger[g] # "none"

\* A campaign cannot lose its group (NOT NULL), nor can a transaction of any status.
Referenced(g) == ledger[g] # "none" \/ \E c \in CampaignRows : campaign[c].group = g

Delete(s) ==
    LET g == session[s].group IN
    /\ At(s, "delete")
    /\ ~Referenced(g)
    /\ group' = [group EXCEPT ![g] = NoGroup]
    /\ Goto(s, Idle)
    /\ UNCHANGED <<plan, campaign, ledger>>

DeleteRefused(s) == At(s, "delete") /\ Referenced(session[s].group) /\ Refuse(s)

-----------------------------------------------------------------------------
(* What other modules do *)

ChangePlan(p) ==
    /\ plan' = p
    /\ UNCHANGED <<group, campaign, ledger, session>>

\* A transaction is approved for a group, archived or not; one that is replaced by an edit
\* stays and the new one is approved.
Approve(g) ==
    /\ g \in GroupRows
    /\ ledger' = [ledger EXCEPT ![g] = "approved"]
    /\ UNCHANGED <<plan, group, campaign, session>>

\* Undo deletes the only approved transaction; the rows that edits have replaced, if any, stay.
Undo(g, rest) ==
    /\ ledger[g] = "approved"
    /\ rest \in {"none", "past"}
    /\ ledger' = [ledger EXCEPT ![g] = rest]
    /\ UNCHANGED <<plan, group, campaign, session>>

-----------------------------------------------------------------------------
(* The specification *)

Init ==
    /\ plan \in Plans
    /\ group = [g \in Groups |-> NoGroup]
    /\ campaign = [c \in Campaigns |-> NoCampaign]
    /\ ledger = [g \in Groups |-> "none"]
    /\ session = [s \in Sessions |-> Idle]

Create(s) ==
    \/ \E thing \in Things, g \in Groups \cup {None} : CheckLimit(s, thing, g)
    \/ \E slug \in Slugs : ChooseSlug(s, slug)
    \/ \E g \in Groups : InsertGroup(s, g)
    \/ \E c \in Campaigns : InsertCampaign(s, c)
    \/ InsertRefused(s)

Next ==
    \/ \E s \in Sessions : \/ Create(s)
                           \/ \E g \in Groups : DeleteRead(s, g)
                           \/ Delete(s) \/ DeleteRefused(s)
    \/ \E p \in Plans : ChangePlan(p)
    \/ \E g \in Groups : \/ Archive(g) \/ Approve(g)
                         \/ \E rest \in Entries : Undo(g, rest)
                         \/ CreateGroupByMessage(g)
                         \/ \E c \in Campaigns : CreateCampaignByMessage(c, g)

Spec == Init /\ [][Next]_vars

-----------------------------------------------------------------------------
(* Properties *)

\* Tables and requests hold what their declarations allow.
TypeOK ==
    /\ plan \in Plans
    /\ group \in [Groups -> GroupRow]
    /\ campaign \in [Campaigns -> CampaignRow]
    /\ ledger \in [Groups -> Entries]
    /\ session \in [Sessions -> Session]

\* Rows created on the web have a slug.
OnWeb(thing) ==
    IF thing = "group" THEN {g \in GroupRows : group[g].slug # None}
                       ELSE {c \in CampaignRows : campaign[c].slug # None}

\* Requests that count before any of them inserts exceed the highest limit by one for each
\* request but one; neither downgrades nor deletions nor messages add to that.
WithinPlan == \A thing \in Things : Cardinality(OnWeb(thing)) <= MaxLimit + Cardinality(Sessions) - 1

\* A slug names one group of the treasurer and one campaign of a group, though it is looked
\* for before the insert and archived rows keep theirs.
SlugsUnique ==
    /\ \A g, h \in OnWeb("group") : group[g].slug = group[h].slug => g = h
    /\ \A c, d \in OnWeb("campaign") :
          campaign[c].group = campaign[d].group /\ campaign[c].slug = campaign[d].slug => c = d

\* No campaign and no transaction, of whatever status, loses its group, whether it comes
\* before or after the check that permits the deletion.
NothingOrphaned ==
    /\ \A c \in CampaignRows : campaign[c].group \in GroupRows
    /\ \A g \in Groups : ledger[g] # "none" => g \in GroupRows
=============================================================================
