-------------------------- MODULE WorkspaceProofs ---------------------------
(***************************************************************************)
(* Proofs about module Workspace, for any plans and any finite sets of     *)
(* rows and requests: its types, the limits of a plan, slugs, and that     *)
(* nothing loses its group.                                                *)
(***************************************************************************)
EXTENDS Workspace, FiniteSetTheorems, TLAPS

\* What a request is about to delete was a group.
DeletesGroup == \A s \in Sessions : At(s, "delete") => session[s].group \in Groups

\* Requests that have counted and not inserted.
Creating(thing) == {s \in Sessions : session[s].pc \in {"slug", "insert"} /\ session[s].thing = thing}

\* Whoever passed the count may still insert.
LimitBound ==
    \A thing \in Things :
        Cardinality(OnWeb(thing)) + Cardinality(Creating(thing)) <= MaxLimit + Cardinality(Sessions) - 1

WInv == TypeOK /\ DeletesGroup /\ NothingOrphaned /\ SlugsUnique /\ LimitBound

-----------------------------------------------------------------------------
(* Types *)

\* The initial state has the types.
LEMMA TypeInit == Init => TypeOK
BY ConstantsAssumption DEF Init, TypeOK, NoGroup, GroupRow, State, NoCampaign, CampaignRow, Entries, Idle, Session, Things

\* A step keeps the types.
LEMMA TypeStep == TypeOK /\ DeletesGroup /\ [Next]_vars => TypeOK'
<1> SUFFICES ASSUME TypeOK, DeletesGroup, [Next]_vars
             PROVE  TypeOK'
  OBVIOUS
<1> USE DEF TypeOK
<1>1. /\ Idle \in Session
      /\ NoGroup \in GroupRow
  BY DEF Idle, Session, Things, NoGroup, GroupRow, State
<1>2. ASSUME NEW s \in Sessions, Create(s)
      PROVE  TypeOK'
  <2>1. ASSUME NEW thing \in Things, NEW g \in Groups \cup {None}, CheckLimit(s, thing, g)
        PROVE  TypeOK'
    <3>1. [Idle EXCEPT !.pc = "slug", !.thing = thing, !.group = g] \in Session
      BY DEF Idle, Session
    <3> QED BY <2>1, <3>1 DEF CheckLimit, Goto
  <2>2. ASSUME NEW slug \in Slugs, ChooseSlug(s, slug)
        PROVE  TypeOK'
    <3>1. [session[s] EXCEPT !.pc = "insert", !.slug = slug] \in Session
      BY DEF Session
    <3> QED BY <2>2, <3>1 DEF ChooseSlug, Goto
  <2>3. ASSUME NEW g \in Groups, InsertGroup(s, g)
        PROVE  TypeOK'
    <3>1. [st |-> "active", slug |-> session[s].slug] \in GroupRow
      BY DEF Session, GroupRow, State
    <3> QED BY <1>1, <2>3, <3>1 DEF InsertGroup, Goto
  <2>4. ASSUME NEW c \in Campaigns, InsertCampaign(s, c)
        PROVE  TypeOK'
    <3>1. [stored |-> TRUE, slug |-> session[s].slug, group |-> session[s].group] \in CampaignRow
      BY DEF Session, CampaignRow
    <3> QED BY <1>1, <2>4, <3>1 DEF InsertCampaign, Goto
  <2>5. CASE InsertRefused(s)
    BY <1>1, <2>5 DEF InsertRefused, Refuse, Goto
  <2> QED BY <1>2, <2>1, <2>2, <2>3, <2>4, <2>5 DEF Create
<1>3. ASSUME NEW s \in Sessions, NEW g \in Groups, DeleteRead(s, g)
      PROVE  TypeOK'
  <2>1. [Idle EXCEPT !.pc = "delete", !.group = g] \in Session
    BY DEF Idle, Session, Things
  <2> QED BY <1>3, <2>1 DEF DeleteRead, Goto
<1>4. ASSUME NEW s \in Sessions, Delete(s) \/ DeleteRefused(s)
      PROVE  TypeOK'
  BY <1>1, <1>4 DEF Delete, DeleteRefused, DeletesGroup, Refuse, Goto
<1>5. ASSUME NEW p \in Plans, ChangePlan(p)
      PROVE  TypeOK'
  BY <1>5 DEF ChangePlan
<1>6. ASSUME NEW g \in Groups, Archive(g)
      PROVE  TypeOK'
  BY <1>6 DEF Archive, GroupRow, State
<1>7. ASSUME NEW g \in Groups, Approve(g) \/ \E rest \in Entries : Undo(g, rest)
      PROVE  TypeOK'
  BY <1>7 DEF Approve, Undo, Entries
<1>8. ASSUME NEW g \in Groups, CreateGroupByMessage(g)
      PROVE  TypeOK'
  <2>1. [st |-> "active", slug |-> None] \in GroupRow
    BY DEF GroupRow, State
  <2> QED BY <1>8, <2>1 DEF CreateGroupByMessage
<1>9. ASSUME NEW g \in Groups, NEW c \in Campaigns, CreateCampaignByMessage(c, g)
      PROVE  TypeOK'
  <2>1. [stored |-> TRUE, slug |-> None, group |-> g] \in CampaignRow
    BY DEF CampaignRow
  <2> QED BY <1>9, <2>1 DEF CreateCampaignByMessage
<1>10. CASE UNCHANGED vars
  BY <1>10 DEF vars
<1> QED BY <1>2, <1>3, <1>4, <1>5, <1>6, <1>7, <1>8, <1>9, <1>10 DEF Next

-----------------------------------------------------------------------------
(* The limit *)

LEMMA CreatorsFinite ==
    \A thing \in Things :
        /\ IsFiniteSet(OnWeb(thing)) /\ Cardinality(OnWeb(thing)) \in Nat
        /\ IsFiniteSet(Creating(thing)) /\ Cardinality(Creating(thing)) \in Nat
        /\ Cardinality(Creating(thing)) <= Cardinality(Sessions)
        /\ Cardinality(Sessions) \in Nat \ {0}
<1>1. IsFiniteSet(Sessions) /\ IsFiniteSet(Groups) /\ IsFiniteSet(Campaigns) /\ Sessions # {}
  BY ConstantsAssumption
<1>2. Cardinality(Sessions) \in Nat \ {0}
  BY <1>1, FS_CardinalityType, FS_EmptySet
<1> SUFFICES ASSUME NEW thing \in Things
             PROVE  /\ IsFiniteSet(OnWeb(thing)) /\ Cardinality(OnWeb(thing)) \in Nat
                    /\ IsFiniteSet(Creating(thing)) /\ Cardinality(Creating(thing)) \in Nat
                    /\ Cardinality(Creating(thing)) <= Cardinality(Sessions)
  BY <1>2
<1>3. Creating(thing) \subseteq Sessions
  BY DEF Creating
<1>4. OnWeb(thing) \subseteq Groups \/ OnWeb(thing) \subseteq Campaigns
  BY DEF OnWeb, GroupRows, CampaignRows
<1>5. IsFiniteSet(OnWeb(thing))
  BY <1>1, <1>4, FS_Subset
<1>6. IsFiniteSet(Creating(thing)) /\ Cardinality(Creating(thing)) <= Cardinality(Sessions)
  BY <1>1, <1>3, FS_Subset
<1> QED BY <1>5, <1>6, FS_CardinalityType

\* Nothing comes onto the web and nobody passes the count.
LEMMA BoundKept ==
    ASSUME LimitBound,
           \A thing \in Things : /\ OnWeb(thing)' \subseteq OnWeb(thing)
                                 /\ Creating(thing)' \subseteq Creating(thing)
    PROVE  LimitBound'
<1> SUFFICES ASSUME NEW thing \in Things
             PROVE  Cardinality(OnWeb(thing)') + Cardinality(Creating(thing)')
                        <= MaxLimit + Cardinality(Sessions) - 1
  BY DEF LimitBound
<1>1. /\ Cardinality(OnWeb(thing)') \in Nat /\ Cardinality(OnWeb(thing)') <= Cardinality(OnWeb(thing))
      /\ Cardinality(Creating(thing)') \in Nat /\ Cardinality(Creating(thing)') <= Cardinality(Creating(thing))
  BY CreatorsFinite, FS_Subset, FS_CardinalityType
<1>2. MaxLimit \in Nat
  BY ConstantsAssumption
<1> QED BY <1>1, <1>2, CreatorsFinite DEF LimitBound

\* A request passes the count: at the moment of counting there was a place left.
LEMMA BoundCounted ==
    ASSUME TypeOK, LimitBound, NEW s \in Sessions, NEW thing \in Things, NEW g, CheckLimit(s, thing, g)
    PROVE  LimitBound'
<1>1. \A t \in Things : OnWeb(t)' = OnWeb(t)
  BY DEF CheckLimit, OnWeb, GroupRows, CampaignRows
<1>2. MaxLimit \in Nat /\ plan[thing] \in Nat /\ plan[thing] <= MaxLimit
  BY ConstantsAssumption DEF TypeOK
<1>3. Cardinality(OnWeb(thing)) <= Count(thing) /\ Count(thing) \in Nat
  <2>1. IsFiniteSet(GroupRows) /\ IsFiniteSet(CampaignRows)
    BY ConstantsAssumption, FS_Subset DEF GroupRows, CampaignRows
  <2> QED BY <2>1, FS_Subset, FS_CardinalityType DEF OnWeb, Count
<1>4. Count(thing) < plan[thing]
  BY DEF CheckLimit, WithinLimit
<1>5. Cardinality(OnWeb(thing)) + Cardinality(Creating(thing)') <= MaxLimit + Cardinality(Sessions) - 1
  <2>1. Cardinality(Creating(thing)') <= Cardinality(Sessions) /\ Cardinality(Creating(thing)') \in Nat
    BY ConstantsAssumption, FS_Subset, FS_CardinalityType DEF Creating
  <2> QED BY <1>2, <1>3, <1>4, <2>1, CreatorsFinite
<1>6. \A t \in Things \ {thing} : Creating(t)' \subseteq Creating(t)
  BY DEF CheckLimit, Goto, Creating, TypeOK, Idle
<1>7. ASSUME NEW t \in Things \ {thing}
      PROVE  Cardinality(OnWeb(t)) + Cardinality(Creating(t)') <= MaxLimit + Cardinality(Sessions) - 1
  <2>1. Cardinality(Creating(t)') <= Cardinality(Creating(t)) /\ Cardinality(Creating(t)') \in Nat
    BY <1>6, CreatorsFinite, FS_Subset, FS_CardinalityType
  <2> QED BY <1>2, <2>1, CreatorsFinite DEF LimitBound
<1> QED BY <1>1, <1>5, <1>7 DEF LimitBound

\* A request that has counted inserts one row and is done.
LEMMA BoundInserted ==
    ASSUME TypeOK, LimitBound, NEW s \in Sessions, NEW row,
           At(s, "insert"), session' = [session EXCEPT ![s] = Idle],
           \A t \in Things : OnWeb(t)' \subseteq (IF t = session[s].thing THEN OnWeb(t) \cup {row} ELSE OnWeb(t))
    PROVE  LimitBound'
<1> SUFFICES ASSUME NEW thing \in Things
             PROVE  Cardinality(OnWeb(thing)') + Cardinality(Creating(thing)')
                        <= MaxLimit + Cardinality(Sessions) - 1
  BY DEF LimitBound
<1>1. MaxLimit \in Nat
  BY ConstantsAssumption
<1>2. CASE thing = session[s].thing
  <2>1. s \in Creating(thing) /\ Creating(thing)' = Creating(thing) \ {s}
    BY <1>2 DEF At, Creating, TypeOK, Idle
  <2>2. Cardinality(Creating(thing)') = Cardinality(Creating(thing)) - 1
    BY <2>1, CreatorsFinite, FS_RemoveElement
  <2>3. /\ IsFiniteSet(OnWeb(thing) \cup {row})
        /\ Cardinality(OnWeb(thing) \cup {row}) <= Cardinality(OnWeb(thing)) + 1
    <3>1. Cardinality(OnWeb(thing) \cup {row}) =
              IF row \in OnWeb(thing) THEN Cardinality(OnWeb(thing)) ELSE Cardinality(OnWeb(thing)) + 1
      BY CreatorsFinite, FS_AddElement
    <3>2. IsFiniteSet(OnWeb(thing) \cup {row})
      BY CreatorsFinite, FS_AddElement
    <3> QED BY <3>1, <3>2, CreatorsFinite
  <2>4. Cardinality(OnWeb(thing)') <= Cardinality(OnWeb(thing)) + 1 /\ Cardinality(OnWeb(thing)') \in Nat
    <3>1. OnWeb(thing)' \subseteq OnWeb(thing) \cup {row}
      BY <1>2
    <3>2. /\ Cardinality(OnWeb(thing)') <= Cardinality(OnWeb(thing) \cup {row})
          /\ Cardinality(OnWeb(thing)') \in Nat /\ Cardinality(OnWeb(thing) \cup {row}) \in Nat
      BY <2>3, <3>1, FS_Subset, FS_CardinalityType
    <3> QED BY <2>3, <3>2, CreatorsFinite
  <2> QED BY <1>1, <2>2, <2>4, CreatorsFinite DEF LimitBound
<1>3. CASE thing # session[s].thing
  <2>1. Creating(thing)' \subseteq Creating(thing) /\ OnWeb(thing)' \subseteq OnWeb(thing)
    BY <1>3 DEF At, Creating, TypeOK, Idle
  <2>2. /\ Cardinality(OnWeb(thing)') \in Nat /\ Cardinality(OnWeb(thing)') <= Cardinality(OnWeb(thing))
        /\ Cardinality(Creating(thing)') \in Nat /\ Cardinality(Creating(thing)') <= Cardinality(Creating(thing))
    BY <2>1, CreatorsFinite, FS_Subset, FS_CardinalityType
  <2> QED BY <1>1, <2>2, CreatorsFinite DEF LimitBound
<1> QED BY <1>2, <1>3

-----------------------------------------------------------------------------
(* The invariant *)

LEMMA InvInit == Init => WInv
<1> SUFFICES ASSUME Init
             PROVE  WInv
  OBVIOUS
<1>1. TypeOK
  BY TypeInit
<1>2. DeletesGroup /\ NothingOrphaned /\ SlugsUnique
  BY DEF Init, Idle, At, NoGroup, NoCampaign, DeletesGroup, NothingOrphaned, SlugsUnique,
         OnWeb, GroupRows, CampaignRows, Things
<1>3. ASSUME NEW thing \in Things
      PROVE  OnWeb(thing) = {} /\ Creating(thing) = {}
  BY DEF Init, Idle, NoGroup, NoCampaign, OnWeb, GroupRows, CampaignRows, Creating
<1>4. LimitBound
  BY <1>3, ConstantsAssumption, CreatorsFinite, FS_EmptySet DEF LimitBound
<1> QED BY <1>1, <1>2, <1>4 DEF WInv

\* A new group, whose slug no other group has.
LEMMA GroupStep ==
    ASSUME WInv, TypeOK', NEW s \in Sessions, NEW g \in Groups, InsertGroup(s, g)
    PROVE  WInv'
<1> USE DEF WInv
<1>1. /\ session[s].thing = "group" /\ At(s, "insert")
      /\ g \notin GroupRows /\ GroupRows' = GroupRows \cup {g}
      /\ group'[g].slug = session[s].slug
      /\ \A h \in Groups \ {g} : group'[h] = group[h]
      /\ CampaignRows' = CampaignRows
      /\ session' = [session EXCEPT ![s] = Idle]
      /\ UNCHANGED <<plan, campaign, ledger>>
  BY DEF InsertGroup, Goto, TypeOK, GroupRows, CampaignRows
<1>2. DeletesGroup'
  BY <1>1 DEF DeletesGroup, At, Idle, TypeOK
<1>3. NothingOrphaned'
  BY <1>1 DEF NothingOrphaned
<1>4. SlugsUnique'
  <2>1. \A h \in OnWeb("group") : group'[g].slug # None => group[h].slug # group'[g].slug
    BY <1>1 DEF InsertGroup, Unique, SlugTaken, OnWeb
  <2>2. /\ OnWeb("group")' \subseteq OnWeb("group") \cup {g}
        /\ g \in OnWeb("group")' => group'[g].slug # None
        /\ g \notin OnWeb("group") /\ OnWeb("group") \subseteq Groups
        /\ OnWeb("campaign")' = OnWeb("campaign")
    BY <1>1 DEF OnWeb, GroupRows
  <2>3. \A h, i \in OnWeb("group")' : group'[h].slug = group'[i].slug => h = i
    BY <1>1, <2>1, <2>2 DEF SlugsUnique
  <2> QED BY <1>1, <2>2, <2>3 DEF SlugsUnique
<1>5. LimitBound'
  <2>1. \A t \in Things : OnWeb(t)' \subseteq (IF t = session[s].thing THEN OnWeb(t) \cup {g} ELSE OnWeb(t))
    BY <1>1 DEF OnWeb, GroupRows, Things
  <2> QED BY <1>1, <2>1, BoundInserted
<1> QED BY <1>2, <1>3, <1>4, <1>5

\* A new campaign, whose slug no other campaign of the group has; the group is there.
LEMMA CampaignStep ==
    ASSUME WInv, TypeOK', NEW s \in Sessions, NEW c \in Campaigns, InsertCampaign(s, c)
    PROVE  WInv'
<1> USE DEF WInv
<1>1. /\ session[s].thing = "campaign" /\ At(s, "insert")
      /\ c \notin CampaignRows /\ CampaignRows' = CampaignRows \cup {c}
      /\ campaign'[c].slug = session[s].slug /\ campaign'[c].group = session[s].group
      /\ session[s].group \in GroupRows
      /\ \A d \in Campaigns \ {c} : campaign'[d] = campaign[d]
      /\ GroupRows' = GroupRows
      /\ session' = [session EXCEPT ![s] = Idle]
      /\ UNCHANGED <<plan, group, ledger>>
  BY DEF InsertCampaign, Goto, TypeOK, GroupRows, CampaignRows
<1>2. DeletesGroup'
  BY <1>1 DEF DeletesGroup, At, Idle, TypeOK
<1>3. NothingOrphaned'
  BY <1>1 DEF NothingOrphaned, CampaignRows
<1>4. SlugsUnique'
  <2>1. \A d \in OnWeb("campaign") :
            campaign'[c].slug # None /\ campaign[d].group = campaign'[c].group
                => campaign[d].slug # campaign'[c].slug
    BY <1>1 DEF InsertCampaign, Unique, SlugTaken, OnWeb
  <2>2. /\ OnWeb("campaign")' \subseteq OnWeb("campaign") \cup {c}
        /\ c \in OnWeb("campaign")' => campaign'[c].slug # None
        /\ c \notin OnWeb("campaign") /\ OnWeb("campaign") \subseteq Campaigns
        /\ OnWeb("group")' = OnWeb("group")
    BY <1>1 DEF OnWeb, CampaignRows
  <2>3. \A d, e \in OnWeb("campaign")' :
            campaign'[d].group = campaign'[e].group /\ campaign'[d].slug = campaign'[e].slug => d = e
    BY <1>1, <2>1, <2>2 DEF SlugsUnique
  <2> QED BY <1>1, <2>2, <2>3 DEF SlugsUnique
<1>5. LimitBound'
  <2>1. \A t \in Things : OnWeb(t)' \subseteq (IF t = session[s].thing THEN OnWeb(t) \cup {c} ELSE OnWeb(t))
    BY <1>1 DEF OnWeb, CampaignRows, Things
  <2> QED BY <1>1, <2>1, BoundInserted
<1> QED BY <1>2, <1>3, <1>4, <1>5

\* A group goes that neither a campaign nor a transaction refers to.
LEMMA DeleteStep ==
    ASSUME WInv, TypeOK', NEW s \in Sessions, Delete(s)
    PROVE  WInv'
<1> USE DEF WInv
<1> DEFINE g == session[s].group
<1>1. /\ g \in Groups /\ ledger[g] = "none"
      /\ \A c \in CampaignRows : campaign[c].group # g
      /\ GroupRows' = GroupRows \ {g} /\ CampaignRows' = CampaignRows
      /\ \A h \in Groups \ {g} : group'[h] = group[h]
      /\ session' = [session EXCEPT ![s] = Idle]
      /\ UNCHANGED <<plan, campaign, ledger>>
  BY DEF Delete, Referenced, DeletesGroup, Goto, TypeOK, GroupRows, CampaignRows, NoGroup
<1> HIDE DEF g
<1>2. DeletesGroup'
  BY <1>1 DEF DeletesGroup, At, Idle, TypeOK
<1>3. NothingOrphaned'
  BY <1>1 DEF NothingOrphaned
<1>4. /\ OnWeb("group")' \subseteq OnWeb("group") \ {g} /\ OnWeb("campaign")' = OnWeb("campaign")
      /\ OnWeb("group") \subseteq Groups
  BY <1>1 DEF OnWeb, GroupRows
<1>5. SlugsUnique'
  BY <1>1, <1>4 DEF SlugsUnique
<1>6. LimitBound'
  <2>1. \A t \in Things : OnWeb(t)' \subseteq OnWeb(t) /\ Creating(t)' \subseteq Creating(t)
    BY <1>1, <1>4 DEF Things, Creating, Idle, TypeOK
  <2> QED BY <2>1, BoundKept
<1> QED BY <1>2, <1>3, <1>5, <1>6

\* Requests that only read or are refused, and what other modules do to plan and ledger.
LEMMA QuietStep ==
    ASSUME WInv, TypeOK', UNCHANGED <<group, campaign>>,
           \A g \in Groups : ledger'[g] # "none" => g \in GroupRows,
           DeletesGroup', LimitBound'
    PROVE  WInv'
<1> USE DEF WInv
<1>1. GroupRows' = GroupRows /\ CampaignRows' = CampaignRows
  BY DEF GroupRows, CampaignRows
<1>2. NothingOrphaned'
  BY <1>1 DEF NothingOrphaned
<1>3. SlugsUnique'
  BY <1>1 DEF SlugsUnique, OnWeb
<1> QED BY <1>2, <1>3

\* A session that gives up, or goes on without having passed the count anew.
LEMMA QuietSession ==
    ASSUME WInv, TypeOK', UNCHANGED <<plan, group, campaign, ledger>>,
           NEW s \in Sessions, NEW job \in Session, session' = [session EXCEPT ![s] = job],
           job.pc = "delete" => job.group \in Groups,
           job.pc \in {"slug", "insert"} => session[s].pc = "slug" /\ job.thing = session[s].thing
    PROVE  WInv'
<1> USE DEF WInv
<1>1. DeletesGroup'
  BY DEF DeletesGroup, At, TypeOK
<1>2. \A t \in Things : OnWeb(t)' \subseteq OnWeb(t) /\ Creating(t)' \subseteq Creating(t)
  BY DEF OnWeb, GroupRows, CampaignRows, Creating, TypeOK
<1>3. LimitBound'
  BY <1>2, BoundKept
<1> QED BY <1>1, <1>3, QuietStep DEF NothingOrphaned

\* Every step keeps the invariant.
LEMMA InvStep == WInv /\ [Next]_vars => WInv'
<1> SUFFICES ASSUME WInv, [Next]_vars
             PROVE  WInv'
  OBVIOUS
<1> USE DEF WInv
<1>1. TypeOK'
  BY TypeStep
<1>2. Idle \in Session
  BY DEF Idle, Session, Things
<1>3. ASSUME NEW s \in Sessions, Create(s)
      PROVE  WInv'
  <2>1. ASSUME NEW thing \in Things, NEW g \in Groups \cup {None}, CheckLimit(s, thing, g)
        PROVE  WInv'
    <3>1. LimitBound'
      BY <2>1, BoundCounted
    <3>2. DeletesGroup'
      BY <2>1 DEF CheckLimit, Goto, DeletesGroup, At, Idle, TypeOK
    <3> QED BY <1>1, <2>1, <3>1, <3>2, QuietStep DEF CheckLimit, NothingOrphaned
  <2>2. ASSUME NEW slug \in Slugs, ChooseSlug(s, slug)
        PROVE  WInv'
    <3> DEFINE job == [session[s] EXCEPT !.pc = "insert", !.slug = slug]
    <3>1. /\ job \in Session /\ job.pc = "insert" /\ job.thing = session[s].thing /\ session[s].pc = "slug"
          /\ session' = [session EXCEPT ![s] = job]
          /\ UNCHANGED <<plan, group, campaign, ledger>>
      BY <2>2 DEF ChooseSlug, Goto, At, Session, TypeOK
    <3> HIDE DEF job
    <3> QED BY <1>1, <3>1, QuietSession
  <2>3. ASSUME NEW g \in Groups, InsertGroup(s, g)
        PROVE  WInv'
    BY <1>1, <2>3, GroupStep
  <2>4. ASSUME NEW c \in Campaigns, InsertCampaign(s, c)
        PROVE  WInv'
    BY <1>1, <2>4, CampaignStep
  <2>5. CASE InsertRefused(s)
    <3>1. session' = [session EXCEPT ![s] = Idle] /\ Idle.pc = "idle" /\ UNCHANGED <<plan, group, campaign, ledger>>
      BY <2>5 DEF InsertRefused, Refuse, Goto, Idle
    <3> QED BY <1>1, <1>2, <3>1, QuietSession
  <2> QED BY <1>3, <2>1, <2>2, <2>3, <2>4, <2>5 DEF Create
<1>4. ASSUME NEW s \in Sessions, NEW g \in Groups, DeleteRead(s, g)
      PROVE  WInv'
  <2> DEFINE job == [Idle EXCEPT !.pc = "delete", !.group = g]
  <2>1. /\ job \in Session /\ job.pc = "delete" /\ job.group \in Groups
        /\ session' = [session EXCEPT ![s] = job]
        /\ UNCHANGED <<plan, group, campaign, ledger>>
    BY <1>4 DEF DeleteRead, Goto, Idle, Session, Things
  <2> HIDE DEF job
  <2> QED BY <1>1, <2>1, QuietSession
<1>5. ASSUME NEW s \in Sessions, Delete(s)
      PROVE  WInv'
  BY <1>1, <1>5, DeleteStep
<1>6. ASSUME NEW s \in Sessions, DeleteRefused(s)
      PROVE  WInv'
  <2>1. session' = [session EXCEPT ![s] = Idle] /\ Idle.pc = "idle" /\ UNCHANGED <<plan, group, campaign, ledger>>
    BY <1>6 DEF DeleteRefused, Refuse, Goto, Idle
  <2> QED BY <1>1, <1>2, <2>1, QuietSession
<1>7. ASSUME NEW p \in Plans, ChangePlan(p)
      PROVE  WInv'
  <2>1. LimitBound' /\ DeletesGroup'
    BY <1>7 DEF ChangePlan, LimitBound, OnWeb, GroupRows, CampaignRows, Creating, DeletesGroup, At
  <2> QED BY <1>1, <1>7, <2>1, QuietStep DEF ChangePlan, NothingOrphaned
<1>8. ASSUME NEW g \in Groups, Approve(g) \/ \E rest \in Entries : Undo(g, rest)
      PROVE  WInv'
  <2>1. LimitBound' /\ DeletesGroup'
    BY <1>8 DEF Approve, Undo, LimitBound, OnWeb, GroupRows, CampaignRows, Creating, DeletesGroup, At
  <2>2. \A h \in Groups : ledger'[h] # "none" => h \in GroupRows
    BY <1>8 DEF Approve, Undo, NothingOrphaned, TypeOK
  <2> QED BY <1>1, <1>8, <2>1, <2>2, QuietStep DEF Approve, Undo
<1>9. ASSUME NEW g \in Groups, Archive(g) \/ CreateGroupByMessage(g)
      PROVE  WInv'
  <2>1. /\ UNCHANGED <<campaign, ledger, session>>
        /\ GroupRows \subseteq GroupRows' /\ CampaignRows' = CampaignRows
        /\ OnWeb("group")' = OnWeb("group") /\ OnWeb("campaign")' = OnWeb("campaign")
        /\ \A h \in OnWeb("group") : group'[h].slug = group[h].slug
    <3>1. CASE Archive(g)
      <4>1. /\ g \in GroupRows /\ group'[g].st = "archived" /\ group'[g].slug = group[g].slug
            /\ \A h \in Groups \ {g} : group'[h] = group[h]
            /\ UNCHANGED <<campaign, ledger, session>>
        BY <3>1 DEF Archive, TypeOK, GroupRow, GroupRows
      <4> QED BY <4>1 DEF GroupRows, CampaignRows, OnWeb
    <3>2. CASE CreateGroupByMessage(g)
      <4>1. /\ g \notin GroupRows /\ group'[g].st = "active" /\ group'[g].slug = None
            /\ \A h \in Groups \ {g} : group'[h] = group[h]
            /\ UNCHANGED <<campaign, ledger, session>>
        BY <3>2 DEF CreateGroupByMessage, TypeOK
      <4> QED BY <4>1 DEF GroupRows, CampaignRows, OnWeb
    <3> QED BY <1>9, <3>1, <3>2
  <2>2. SlugsUnique' /\ NothingOrphaned'
    BY <2>1 DEF SlugsUnique, NothingOrphaned
  <2>3. DeletesGroup' /\ LimitBound'
    BY <2>1 DEF DeletesGroup, At, LimitBound, Creating, Things
  <2> QED BY <1>1, <2>2, <2>3
<1>10. ASSUME NEW g \in Groups, NEW c \in Campaigns, CreateCampaignByMessage(c, g)
      PROVE  WInv'
  <2>1. /\ UNCHANGED <<group, ledger, session>>
        /\ GroupRows' = GroupRows /\ CampaignRows' = CampaignRows \cup {c}
        /\ campaign'[c].group \in GroupRows
        /\ \A d \in Campaigns \ {c} : campaign'[d] = campaign[d]
        /\ OnWeb("group")' = OnWeb("group") /\ OnWeb("campaign")' = OnWeb("campaign")
        /\ \A d \in OnWeb("campaign") : campaign'[d] = campaign[d]
    BY <1>10 DEF CreateCampaignByMessage, GroupRows, CampaignRows, OnWeb, TypeOK
  <2>2. SlugsUnique' /\ NothingOrphaned'
    BY <2>1 DEF SlugsUnique, NothingOrphaned, CampaignRows
  <2>3. DeletesGroup' /\ LimitBound'
    BY <2>1 DEF DeletesGroup, At, LimitBound, Creating, Things
  <2> QED BY <1>1, <2>2, <2>3
<1>11. CASE UNCHANGED vars
  BY <1>11 DEF vars, TypeOK, DeletesGroup, At, NothingOrphaned, SlugsUnique, LimitBound, OnWeb, Creating,
               GroupRows, CampaignRows
<1> QED BY <1>3, <1>4, <1>5, <1>6, <1>7, <1>8, <1>9, <1>10, <1>11 DEF Next

-----------------------------------------------------------------------------
(* Theorems *)

\* The invariant holds in every state that requests, messages, approvals and changes of plan reach.
LEMMA WorkspaceInvariant == Spec => []WInv
BY InvInit, InvStep, PTL DEF Spec

\* Tables and requests keep their types.
THEOREM WorkspaceTyped == Spec => []TypeOK
BY WorkspaceInvariant, PTL DEF WInv

\* Requests that overlap exceed the highest limit by one for each of them but one.
THEOREM PlanHolds == Spec => []WithinPlan
<1>1. LimitBound => WithinPlan
  BY CreatorsFinite, ConstantsAssumption DEF LimitBound, WithinPlan
<1> QED BY <1>1, WorkspaceInvariant, PTL DEF WInv

\* A slug names one group, and one campaign of a group.
THEOREM SlugsStayUnique == Spec => []SlugsUnique
BY WorkspaceInvariant, PTL DEF WInv

\* No deletion takes the group of a campaign or of a transaction.
THEOREM GroupsStay == Spec => []NothingOrphaned
BY WorkspaceInvariant, PTL DEF WInv
=============================================================================
