-------------------------- MODULE CampaignProofs ---------------------------
(***************************************************************************)
(* Proofs about module Campaign, for any values, amounts and targets and   *)
(* any finite set of requests: its types, the settings that were           *)
(* acknowledged, the currency, and the announcements of the goal.          *)
(***************************************************************************)
EXTENDS Campaign, FiniteSetTheorems, TLAPS

\* What was acknowledged, or erased, and not overlapped.
Told(key) == IF key \in erased THEN Absent ELSE acked[key]

\* What a request has read agrees with what was told, but for keys that were written since by
\* a request that overlapped it.
ReadsAgree ==
    /\ \A key \in Keys \ exposed : doc[key] = Told(key)
    /\ \A s \in Sessions : At(s, "write") =>
          \A key \in Keys \ exposed : session[s].read[key] = Told(key)

\* Requests that found no contributions.
Asking == {s \in Sessions : At(s, "currency")}

\* Whoever found no contributions may still change the currency.
CurrencyBound ==
    /\ late + Cardinality(Asking) <= Cardinality(Sessions)
    /\ raised = 0 => late = 0

\* Approvals that will announce the goal, unless the total or the target changes.
Passing == {s \in Sessions :
    \/ At(s, "sum") /\ Passes(raised, session[s].amount)
    \/ At(s, "announce") /\ Passes(session[s].total, session[s].amount)}

\* Whoever may still announce the goal is one of those that overlapped when it was reached.
GoalBound == announced + Cardinality(Passing) <= Cardinality(Sessions)

CInv == TypeOK /\ ReadsAgree /\ CurrencyBound /\ GoalBound

-----------------------------------------------------------------------------
(* Requests *)

LEMMA SessionTypes ==
    ASSUME TypeOK, NEW s \in Sessions
    PROVE  /\ At(s, "write") => /\ session[s].key \in Keys /\ session[s].value \in Values
                                /\ session[s].read \in Document
           /\ At(s, "sum") => session[s].amount \in Amounts
           /\ At(s, "announce") => session[s].amount \in Amounts /\ session[s].total \in 0..MaxRaised
BY DEF TypeOK, Session, At

LEMMA AmountTypes == \A amount \in Amounts : amount \in Int
BY ConstantsAssumption

LEMMA SessionCount == IsFiniteSet(Sessions) /\ Cardinality(Sessions) \in Nat
BY ConstantsAssumption, FS_CardinalityType

LEMMA AskingCount ==
    /\ IsFiniteSet(Asking) /\ Cardinality(Asking) \in Nat
    /\ Cardinality(Asking) <= Cardinality(Sessions)
<1>1. Asking \subseteq Sessions
  BY DEF Asking
<1> QED BY <1>1, SessionCount, FS_Subset, FS_CardinalityType

\* Fewer may announce, or counting begins anew.
LEMMA FewerPass ==
    ASSUME GoalBound, announced \in Nat, announced' = 0 \/ (announced' = announced /\ Passing' \subseteq Passing)
    PROVE  GoalBound'
<1>1. Passing \subseteq Sessions /\ Passing' \subseteq Sessions
  BY DEF Passing
<1>2. /\ IsFiniteSet(Passing) /\ Cardinality(Passing) \in Nat
      /\ Cardinality(Passing') \in Nat /\ Cardinality(Passing') <= Cardinality(Sessions)
  BY <1>1, SessionCount, FS_Subset, FS_CardinalityType
<1>3. Passing' \subseteq Passing => Cardinality(Passing') <= Cardinality(Passing)
  BY <1>2, FS_Subset
<1> QED BY <1>2, <1>3, SessionCount DEF GoalBound

\* A step that leaves the goal alone, and every approval but that of one request, which is
\* not to announce afterwards.
LEMMA GoalAlone ==
    ASSUME CInv, NEW s \in Sessions, UNCHANGED goal,
           \A r \in Sessions \ {s} : session'[r] = session[r],
           session'[s].pc \notin {"sum", "announce"}
    PROVE  GoalBound'
<1>1. Passing' \subseteq Passing
  BY DEF Passing, At, Passes, goal
<1> QED BY <1>1, FewerPass DEF CInv, TypeOK, goal

\* Four ways to begin to read a document come down to one.
LEMMA Readers ==
    ASSUME NEW s \in Sessions, NEW value \in Values,
           \/ \E key \in Keys : UpdateDomain(s, key, value)
           \/ UpdateCampaign(s, value) \/ RegeneratePin(s, value) \/ UploadCoverPhoto(s, value)
    PROVE  \E key \in Keys : ReadDocument(s, key, value)
<1>1. "other" \in Keys
  BY DEF Keys
<1> QED BY <1>1 DEF UpdateDomain, UpdateCampaign, RegeneratePin, UploadCoverPhoto

-----------------------------------------------------------------------------
(* Each step *)

LEMMA InvInit == Init => CInv
<1> SUFFICES ASSUME Init
             PROVE  CInv
  OBVIOUS
<1> USE ConstantsAssumption DEF Init, Idle
<1>1. TypeOK
  <2>1. [pc |-> "idle"] \in Session
    BY DEF Session
  <2>2. 0 \in 0..MaxRaised /\ 0 \in 0..(Cardinality(Sessions) + 1)
    BY SessionCount
  <2>3. session \in [Sessions -> Session] /\ late = 0 /\ raised = 0 /\ announced = 0
    BY <2>1
  <2>4. /\ owner \in Owners /\ active \in BOOLEAN /\ doc \in Document /\ acked \in Document
        /\ target \in Targets /\ erased \in SUBSET Keys /\ exposed \in SUBSET Keys
    OBVIOUS
  <2> QED BY ONLY <2>2, <2>3, <2>4 DEF TypeOK
<1>2. ReadsAgree
  BY DEF ReadsAgree, Told, At
<1>3. Asking = {} /\ Passing = {}
  BY DEF Asking, Passing, At
<1>4. CurrencyBound /\ GoalBound
  BY <1>3, SessionCount, FS_EmptySet DEF CurrencyBound, GoalBound
<1> QED BY <1>1, <1>2, <1>4 DEF CInv

\* A request reads the document, which agrees.
LEMMA ReadStep ==
    ASSUME CInv, NEW s \in Sessions, NEW key \in Keys, NEW value \in Values, ReadDocument(s, key, value)
    PROVE  CInv'
<1> USE DEF CInv, document, goal
<1> DEFINE job == [pc |-> "write", key |-> key, value |-> value, read |-> doc]
<1>1. /\ At(s, "idle") /\ job \in Session /\ session' = [session EXCEPT ![s] = job]
      /\ job.pc = "write" /\ job.read = doc
      /\ UNCHANGED <<active, late, document, goal>>
  BY DEF ReadDocument, Goto, Session, TypeOK
<1> HIDE DEF job
<1>2. TypeOK'
  BY <1>1 DEF TypeOK
<1>3. ReadsAgree'
  BY <1>1 DEF ReadsAgree, Told, At, TypeOK
<1>4. Asking' = Asking
  BY <1>1 DEF Asking, At, TypeOK
<1>5. CurrencyBound'
  BY <1>1, <1>4 DEF CurrencyBound
<1>6. GoalBound'
  BY <1>1, GoalAlone DEF TypeOK
<1> QED BY <1>2, <1>3, <1>5, <1>6

\* It writes the document; whoever else has read it knows the key's old value, and the key
\* is exposed.
LEMMA WriteStep ==
    ASSUME CInv, NEW s \in Sessions, WriteDocument(s)
    PROVE  CInv'
<1> USE DEF CInv, goal
<1> DEFINE job == session[s]
<1>1. /\ job.key \in Keys /\ job.value \in Values /\ job.read \in Document /\ At(s, "write")
      /\ session' = [session EXCEPT ![s] = Idle] /\ Idle \in Session /\ Idle.pc = "idle"
      /\ doc' = [job.read EXCEPT ![job.key] = job.value]
      /\ acked' = [acked EXCEPT ![job.key] = job.value]
      /\ erased' = erased \ {job.key}
      /\ exposed' = IF Others(s, "write") = {} THEN exposed \ {job.key} ELSE exposed \cup {job.key}
      /\ UNCHANGED <<owner, active, late, goal>>
  BY SessionTypes DEF WriteDocument, Merged, Goto, Idle, Session
<1> HIDE DEF job
<1>2. TypeOK'
  BY <1>1 DEF TypeOK, Document
<1>3. ReadsAgree'
  <2>1. \A key \in Keys \ exposed' : doc'[key] = Told(key)'
    <3> SUFFICES ASSUME NEW key \in Keys \ exposed'
                 PROVE  doc'[key] = Told(key)'
      OBVIOUS
    <3>1. CASE key = job.key
      BY <1>1, <3>1 DEF Told, TypeOK, Document
    <3>2. CASE key # job.key
      <4>1. key \notin exposed /\ doc'[key] = job.read[key] /\ Told(key)' = Told(key)
        BY <1>1, <3>2 DEF Told, TypeOK, Document
      <4> QED BY <1>1, <4>1 DEF ReadsAgree, job
    <3> QED BY <3>1, <3>2
  <2>2. ASSUME NEW r \in Sessions, At(r, "write")', NEW key \in Keys \ exposed'
        PROVE  session'[r].read[key] = Told(key)'
    <3>1. r # s /\ session'[r] = session[r] /\ At(r, "write")
      BY <1>1, <2>2 DEF At, TypeOK
    <3>2. r \in Others(s, "write")
      BY <3>1 DEF Others
    <3>3. key # job.key /\ key \notin exposed /\ Told(key)' = Told(key)
      BY <1>1, <2>2, <3>2 DEF Told, TypeOK, Document
    <3> QED BY <3>1, <3>3 DEF ReadsAgree
  <2> QED BY <2>1, <2>2 DEF ReadsAgree
<1>4. Asking' = Asking
  BY <1>1 DEF Asking, At, TypeOK
<1>5. CurrencyBound'
  BY <1>1, <1>4 DEF CurrencyBound
<1>6. GoalBound'
  BY <1>1, GoalAlone DEF TypeOK
<1> QED BY <1>2, <1>3, <1>5, <1>6

\* The document of a group is replaced, or the row archived.
LEMMA ReplaceStep ==
    ASSUME CInv, Archive \/ \E new \in Document : ReplaceDocument(new)
    PROVE  CInv'
<1> USE DEF CInv, document, goal
<1>1. UNCHANGED <<owner, session, late, goal>>
  BY DEF Archive, ReplaceDocument
<1>2. TypeOK' /\ ReadsAgree'
  <2>1. CASE Archive
    BY <2>1 DEF Archive, TypeOK, ReadsAgree, Told, At
  <2>2. ASSUME NEW new \in Document, ReplaceDocument(new)
        PROVE  TypeOK' /\ ReadsAgree'
    <3> DEFINE named == {key \in Keys : new[key] # Absent}
    <3>1. /\ doc' = new /\ erased' = Keys \ named
          /\ acked' = [key \in Keys |-> IF key \in named THEN new[key] ELSE acked[key]]
          /\ exposed' = IF \E s \in Sessions : At(s, "write") THEN Keys ELSE {}
          /\ UNCHANGED <<owner, active, session, late, goal>>
      BY <2>2 DEF ReplaceDocument
    <3>2. TypeOK'
      BY <3>1 DEF TypeOK, Document
    <3>3. \A key \in Keys : doc'[key] = Told(key)'
      BY <3>1 DEF Told
    <3> QED BY <3>1, <3>2, <3>3 DEF ReadsAgree, At
  <2> QED BY <2>1, <2>2
<1>3. CurrencyBound'
  BY <1>1 DEF CurrencyBound, Asking, At
<1>4. Passing' = Passing
  BY <1>1 DEF Passing, At, Passes
<1>5. GoalBound'
  BY <1>1, <1>4, FewerPass DEF TypeOK
<1> QED BY <1>2, <1>3, <1>5

\* A request finds no contributions.
LEMMA AskStep ==
    ASSUME CInv, NEW s \in Sessions, ReadCurrency(s)
    PROVE  CInv'
<1> USE DEF CInv, document, goal
<1> DEFINE job == [pc |-> "currency"]
<1>1. /\ At(s, "idle") /\ raised = 0 /\ job \in Session /\ job.pc = "currency"
      /\ session' = [session EXCEPT ![s] = job]
      /\ UNCHANGED <<active, late, document, goal>>
  BY DEF ReadCurrency, Goto, Session
<1> HIDE DEF job
<1>2. TypeOK'
  BY <1>1 DEF TypeOK
<1>3. ReadsAgree'
  BY <1>1 DEF ReadsAgree, Told, At, TypeOK
<1>4. CurrencyBound'
  <2>1. late' = 0 /\ raised' = raised
    BY <1>1 DEF CurrencyBound
  <2>2. Cardinality(Asking') \in Nat /\ Cardinality(Asking') <= Cardinality(Sessions)
    <3>1. Asking' \subseteq Sessions
      BY DEF Asking
    <3> QED BY <3>1, SessionCount, FS_Subset, FS_CardinalityType
  <2> QED BY <2>1, <2>2, SessionCount DEF CurrencyBound
<1>5. GoalBound'
  BY <1>1, GoalAlone DEF TypeOK
<1> QED BY <1>2, <1>3, <1>4, <1>5

\* It changes the currency, whatever has come in since, and leaves those who may.
LEMMA ChangeStep ==
    ASSUME CInv, NEW s \in Sessions, WriteCurrency(s)
    PROVE  CInv'
<1> USE DEF CInv, document, goal
<1>1. /\ At(s, "currency") /\ session' = [session EXCEPT ![s] = Idle]
      /\ Idle \in Session /\ Idle.pc = "idle"
      /\ late' = IF raised > 0 /\ late <= Cardinality(Sessions) THEN late + 1 ELSE late
      /\ UNCHANGED <<active, document, goal>>
  BY DEF WriteCurrency, Goto, Idle, Session
<1>2. s \in Asking /\ Asking' = Asking \ {s}
  BY <1>1 DEF Asking, At, TypeOK
<1>3. Cardinality(Asking') = Cardinality(Asking) - 1
  BY <1>2, AskingCount, FS_RemoveElement
<1>4. late \in Nat /\ raised \in Nat
  BY ConstantsAssumption, SessionCount DEF TypeOK
<1>5. CurrencyBound'
  BY <1>1, <1>3, <1>4, SessionCount, AskingCount DEF CurrencyBound
<1>6. TypeOK'
  <2>1. late' \in 0..(Cardinality(Sessions) + 1)
    BY <1>1, <1>4, SessionCount DEF TypeOK
  <2> QED BY <1>1, <2>1 DEF TypeOK
<1>7. ReadsAgree'
  BY <1>1 DEF ReadsAgree, Told, At, TypeOK
<1>8. GoalBound'
  BY <1>1, GoalAlone DEF TypeOK
<1> QED BY <1>5, <1>6, <1>7, <1>8

\* The total changes: it comes to the target or falls, and counting begins anew; or it grows
\* beyond what any approval passes, or stays below the target.
LEMMA RaisedStep ==
    ASSUME CInv, NEW total \in 0..MaxRaised, SetRaised(total), target' = target,
           NEW s \in Sessions, \A r \in Sessions \ {s} : session'[r] = session[r],
           \/ session'[s] = session[s]
           \/ session'[s].pc = "sum" /\ total - session'[s].amount = raised
    PROVE  GoalBound'
<1>1. /\ raised' = total
      /\ announced' = IF total < raised \/ (raised < target /\ target <= total) THEN 0 ELSE announced
      /\ raised \in Int /\ total \in Int /\ target \in Int /\ announced \in Nat
  BY ConstantsAssumption DEF SetRaised, CInv, TypeOK
<1>2. CASE total < raised \/ (raised < target /\ target <= total)
  BY <1>1, <1>2, FewerPass DEF CInv
<1>3. CASE ~(total < raised \/ (raised < target /\ target <= total))
  <2>1. ASSUME NEW r \in Passing'
        PROVE  r \in Passing
    <3>1. CASE session'[r] = session[r] /\ At(r, "announce")
      BY <1>1, <2>1, <3>1 DEF Passing, Passes, At
    <3>2. CASE session'[r] = session[r] /\ ~At(r, "announce")
      <4>1. /\ At(r, "sum") /\ session[r].amount \in Int
            /\ total >= target /\ total - session[r].amount < target
        <5>1. r \in Sessions /\ At(r, "sum")
          BY <2>1, <3>2 DEF Passing, At
        <5>2. session[r].amount \in Amounts
          BY <5>1, SessionTypes DEF CInv
        <5>3. raised' >= target' /\ raised' - session'[r].amount < target'
          BY <2>1, <3>2, <5>1 DEF Passing, Passes, At
        <5>4. session[r].amount \in Int
          BY <5>2, AmountTypes
        <5>5. raised' = total /\ target' = target /\ session'[r] = session[r]
          BY <1>1, <3>2
        <5> QED BY ONLY <5>1, <5>3, <5>4, <5>5
      <4>2. raised >= target /\ raised - session[r].amount < target
        BY <1>1, <1>3, <4>1
      <4> QED BY <2>1, <4>1, <4>2 DEF Passing, Passes
    <3>3. CASE r = s /\ session'[s].pc = "sum" /\ total - session'[s].amount = raised
      <4>1. total >= target /\ raised < target
        BY <1>1, <2>1, <3>3 DEF Passing, Passes, At
      <4> QED BY <1>1, <1>3, <4>1
    <3> QED BY <2>1, <3>1, <3>2, <3>3 DEF Passing
  <2> QED BY <1>1, <1>3, <2>1, FewerPass DEF CInv
<1> QED BY <1>2, <1>3

\* An approval commits.
LEMMA ApproveStep ==
    ASSUME CInv, NEW s \in Sessions, NEW amount \in Amounts, Approve(s, amount)
    PROVE  CInv'
<1> USE DEF CInv, document
<1> DEFINE job == [pc |-> "sum", amount |-> amount]
<1>1. /\ At(s, "idle") /\ SetRaised(raised + amount) /\ raised + amount <= MaxRaised
      /\ raised' = raised + amount /\ announced' \in {0, announced}
      /\ job \in Session /\ job.pc = "sum" /\ job.amount = amount
      /\ session' = [session EXCEPT ![s] = job]
      /\ UNCHANGED <<active, target, late, document>>
  BY DEF Approve, SetRaised, Goto, Session
<1>2. raised \in Nat /\ amount \in Nat /\ amount > 0 /\ MaxRaised \in Nat
  BY ConstantsAssumption DEF TypeOK
<1> HIDE DEF job
<1>3. TypeOK'
  BY <1>1, <1>2 DEF TypeOK
<1>4. ReadsAgree'
  BY <1>1 DEF ReadsAgree, Told, At, TypeOK
<1>5. CurrencyBound'
  <2>1. Asking' = Asking
    BY <1>1 DEF Asking, At, TypeOK
  <2> QED BY <1>1, <1>2, <2>1 DEF CurrencyBound
<1>6. GoalBound'
  <2>1. /\ raised + amount \in 0..MaxRaised
        /\ session'[s].pc = "sum" /\ (raised + amount) - session'[s].amount = raised
        /\ \A r \in Sessions \ {s} : session'[r] = session[r]
    BY <1>1, <1>2 DEF TypeOK
  <2> QED BY <1>1, <2>1, RaisedStep
<1> QED BY <1>3, <1>4, <1>5, <1>6

\* It adds up: it passes the target by this total as it did by that of the row.
LEMMA SumStep ==
    ASSUME CInv, NEW s \in Sessions, SumUp(s)
    PROVE  CInv'
<1> USE DEF CInv, document, goal
<1> DEFINE job == [pc |-> "announce", amount |-> session[s].amount, total |-> raised]
<1>1. /\ At(s, "sum") /\ job \in Session
      /\ job.pc = "announce" /\ job.amount = session[s].amount /\ job.total = raised
      /\ session' = [session EXCEPT ![s] = job]
      /\ UNCHANGED <<active, late, document, goal>>
  BY SessionTypes DEF SumUp, Goto, Session, TypeOK
<1> HIDE DEF job
<1>2. TypeOK'
  BY <1>1 DEF TypeOK
<1>3. ReadsAgree'
  BY <1>1 DEF ReadsAgree, Told, At, TypeOK
<1>4. Asking' = Asking
  BY <1>1 DEF Asking, At, TypeOK
<1>5. CurrencyBound'
  BY <1>1, <1>4 DEF CurrencyBound
<1>6. Passing' \subseteq Passing
  <2> SUFFICES ASSUME NEW r \in Passing'
               PROVE  r \in Passing
    OBVIOUS
  <2>1. CASE r = s
    BY <1>1, <2>1 DEF Passing, Passes, At, TypeOK
  <2>2. CASE r # s
    BY <1>1, <2>2 DEF Passing, Passes, At, TypeOK
  <2> QED BY <2>1, <2>2
<1>7. GoalBound'
  BY <1>1, <1>6, FewerPass DEF TypeOK
<1> QED BY <1>2, <1>3, <1>5, <1>7

\* It announces, and is no longer to; or nothing comes of it.
LEMMA AnnounceStep ==
    ASSUME CInv, NEW s \in Sessions, Announce(s) \/ LoseAnnouncement(s)
    PROVE  CInv'
<1> USE DEF CInv, document
<1>1. /\ At(s, "sum") \/ At(s, "announce")
      /\ session' = [session EXCEPT ![s] = Idle] /\ Idle \in Session /\ Idle.pc = "idle"
      /\ UNCHANGED <<active, target, raised, late, document>>
  BY DEF Announce, LoseAnnouncement, Goto, Idle, Session, goal
<1>2. announced' = announced \/ (announced' = announced + 1 /\ s \in Passing)
  BY DEF Announce, LoseAnnouncement, Passing, goal
<1>3. TypeOK'
  BY <1>1, <1>2 DEF TypeOK
<1>4. ReadsAgree'
  BY <1>1 DEF ReadsAgree, Told, At, TypeOK
<1>5. Asking' = Asking
  BY <1>1 DEF Asking, At, TypeOK
<1>6. CurrencyBound'
  BY <1>1, <1>5 DEF CurrencyBound
<1>7. GoalBound'
  <2>1. Passing' = Passing \ {s}
    BY <1>1 DEF Passing, Passes, At, TypeOK
  <2>2. CASE announced' = announced
    BY <2>1, <2>2, FewerPass DEF TypeOK
  <2>3. CASE announced' = announced + 1 /\ s \in Passing
    <3>1. IsFiniteSet(Passing) /\ Cardinality(Passing) \in Nat
      BY SessionCount, FS_Subset, FS_CardinalityType DEF Passing
    <3>2. Cardinality(Passing') = Cardinality(Passing) - 1
      BY <2>1, <2>3, <3>1, FS_RemoveElement
    <3> QED BY <2>3, <3>1, <3>2, SessionCount DEF GoalBound, TypeOK
  <2> QED BY <1>2, <2>2, <2>3
<1> QED BY <1>3, <1>4, <1>6, <1>7

\* Something else changes the total or the target.
LEMMA GoalStep ==
    ASSUME CInv, \/ \E total \in 0..MaxRaised : ChangeRaised(total)
                 \/ \E amount \in Targets : SetTarget(amount)
    PROVE  CInv'
<1> USE DEF CInv, document
<1>1. /\ UNCHANGED <<owner, active, doc, session, acked, erased, exposed>>
      /\ raised' \in 0..MaxRaised /\ target' \in Targets /\ announced' \in {0, announced}
      /\ \/ late' = late /\ raised' = raised
         \/ late' = IF raised' = 0 THEN 0 ELSE late
  BY DEF ChangeRaised, SetTarget, SetRaised, TypeOK
<1>2. TypeOK'
  <2>1. late' \in 0..(Cardinality(Sessions) + 1)
    BY <1>1, SessionCount DEF TypeOK
  <2> QED BY <1>1, <2>1 DEF TypeOK
<1>3. ReadsAgree'
  BY <1>1 DEF ReadsAgree, Told, At
<1>4. CurrencyBound'
  <2>1. Asking' = Asking
    BY <1>1 DEF Asking, At
  <2>2. CASE late' = late /\ raised' = raised
    BY <2>1, <2>2 DEF CurrencyBound
  <2>3. CASE late' = IF raised' = 0 THEN 0 ELSE late
    BY <2>1, <2>3, SessionCount, AskingCount DEF CurrencyBound
  <2> QED BY <1>1, <2>2, <2>3
<1>5. GoalBound'
  <2>1. ASSUME NEW total \in 0..MaxRaised, ChangeRaised(total), NEW s \in Sessions
        PROVE  GoalBound'
    BY <2>1, RaisedStep DEF ChangeRaised
  <2>2. ASSUME NEW amount \in Targets, SetTarget(amount)
        PROVE  GoalBound'
    BY <2>2, FewerPass DEF SetTarget, TypeOK
  <2>3. CASE Sessions = {} /\ \E total \in 0..MaxRaised : ChangeRaised(total)
    <3>1. Passing' = {} /\ Passing = {}
      BY <2>3 DEF Passing
    <3> QED BY <1>1, <3>1, FewerPass DEF TypeOK
  <2> QED BY <2>1, <2>2, <2>3
<1> QED BY <1>2, <1>3, <1>4, <1>5

\* Every step keeps the invariant.
LEMMA InvStep == CInv /\ [Next]_vars => CInv'
<1> SUFFICES ASSUME CInv, [Next]_vars
             PROVE  CInv'
  OBVIOUS
<1>1. ASSUME NEW s \in Sessions, NEW value \in Values,
             \/ \E key \in Keys : UpdateDomain(s, key, value)
             \/ UpdateCampaign(s, value) \/ RegeneratePin(s, value) \/ UploadCoverPhoto(s, value)
      PROVE  CInv'
  BY <1>1, Readers, ReadStep
<1>2. ASSUME NEW s \in Sessions, WriteDocument(s)
      PROVE  CInv'
  BY <1>2, WriteStep
<1>3. ASSUME NEW s \in Sessions, ReadCurrency(s) \/ WriteCurrency(s)
      PROVE  CInv'
  BY <1>3, AskStep, ChangeStep
<1>4. ASSUME NEW s \in Sessions, NEW amount \in Amounts, Approve(s, amount)
      PROVE  CInv'
  BY <1>4, ApproveStep
<1>5. ASSUME NEW s \in Sessions, SumUp(s) \/ Announce(s) \/ LoseAnnouncement(s)
      PROVE  CInv'
  BY <1>5, SumStep, AnnounceStep
<1>6. CASE Archive \/ \E new \in Document : ReplaceDocument(new)
  BY <1>6, ReplaceStep
<1>7. CASE \/ \E total \in 0..MaxRaised : ChangeRaised(total)
           \/ \E amount \in Targets : SetTarget(amount)
  BY <1>7, GoalStep
<1>8. CASE UNCHANGED vars
  BY <1>8 DEF vars, CInv, TypeOK, ReadsAgree, Told, CurrencyBound, Asking, GoalBound, Passing, At, Passes
<1> QED BY <1>1, <1>2, <1>3, <1>4, <1>5, <1>6, <1>7, <1>8 DEF Next

-----------------------------------------------------------------------------
(* Theorems *)

LEMMA CampaignInvariant == Spec => []CInv
BY InvInit, InvStep, PTL DEF Spec

\* Rows, requests and histories keep their types.
THEOREM CampaignTyped == Spec => []TypeOK
BY CampaignInvariant, PTL DEF CInv

\* A setting whose request overlapped no other stays as acknowledged, whatever other keys are
\* written after it, until the document is replaced without it.
THEOREM AcknowledgedStays == Spec => []AcknowledgedIsKept
<1>1. CInv => AcknowledgedIsKept
  BY DEF CInv, ReadsAgree, Told, AcknowledgedIsKept
<1> QED BY <1>1, CampaignInvariant, PTL

\* Once there are contributions the currency changes at most once for each request.
THEOREM CurrencySettles == Spec => []CurrencySettled
<1>1. CInv => CurrencySettled
  BY SessionCount, AskingCount DEF CInv, CurrencyBound, CurrencySettled, TypeOK
<1> QED BY <1>1, CampaignInvariant, PTL

\* The goal is announced at most once for each request that overlaps.
THEOREM GoalsAreNotSpammed == Spec => []GoalNotSpammed
<1>1. CInv => GoalNotSpammed
  <2> SUFFICES ASSUME CInv
               PROVE  GoalNotSpammed
    OBVIOUS
  <2>1. Cardinality(Passing) \in Nat
    BY SessionCount, FS_Subset, FS_CardinalityType DEF Passing
  <2> QED BY <2>1, SessionCount DEF CInv, TypeOK, GoalBound, GoalNotSpammed
<1> QED BY <1>1, CampaignInvariant, PTL
=============================================================================
