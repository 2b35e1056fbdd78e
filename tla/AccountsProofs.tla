--------------------------- MODULE AccountsProofs ---------------------------
(***************************************************************************)
(* What holds of module Accounts for any users, numbers, codes and tokens  *)
(* and any number of processes: its types, that a number has one owner,    *)
(* that no process leaves two codes of one purpose, that only a            *)
(* registration that was cut leaves a user without a subscription, and     *)
(* that a token that was logged out opens nothing again.                   *)
(***************************************************************************)
EXTENDS Accounts, TLAPS

\* What a process is in the middle of: a registration has no user before it inserts one,
\* and only a registration subscribes; whatever handles a code knows the user it is for.
RequestsOK ==
    \A s \in Sessions :
        /\ At(s, "idle") => request[s] = Idle
        /\ request[s].pc \in {"check", "insert"} =>
              request[s].phone \in Phones /\ request[s].u = None /\ request[s].registering
        /\ request[s].pc \in {"otp", "code", "subscribe", "verify"} => request[s].u \in Users
        /\ At(s, "subscribe") => request[s].registering
        /\ At(s, "verify") => request[s].code \in Codes /\ ~request[s].registering

\* Between its DELETE and its INSERT a process is rid of every code that it stored before:
\* only itself could have added another.
OwnCodesAreOld ==
    \A s \in Sessions, k \in Codes :
        /\ At(s, "code")
        /\ otp[k].u = request[s].u /\ otp[k].purpose = request[s].purpose
        /\ otp[k].by = s
        => k \in request[s].old

\* A token that was logged out is still blacklisted, or its user has gone for good: the
\* blacklist loses only the tokens of a user whose row is deleted.
LoggedOutIsBarred ==
    \A t \in loggedOut :
        /\ token[t] \in Users
        /\ t \in blacklist \/ user[token[t]].st = "gone"

Registering(s, u) == request[s].u = u /\ request[s].registering

AInv ==
    /\ TypeOK /\ RequestsOK
    /\ NumberIsOwned
    /\ OwnCodesAreOld /\ CodesBounded
    /\ UnsubscribedIsCut
    /\ LoggedOutIsBarred

-----------------------------------------------------------------------------
(* Types *)

\* Null records are of their types.
LEMMA NullTypes ==
    /\ NoUser \in UserRow
    /\ NoCode \in CodeRow
    /\ Idle \in Request
BY ConstantsAssumption DEF NoUser, UserRow, NoCode, CodeRow, Idle, Request, AllPurposes

\* The initial state has the types, and nothing is wrong with it.
LEMMA InvariantInit == Init => AInv
<1> SUFFICES ASSUME Init PROVE AInv
  OBVIOUS
<1>1. TypeOK
  BY NullTypes DEF Init, TypeOK
<1>2. RequestsOK
  BY DEF Init, RequestsOK, At, Idle
<1>3. OwnCodesAreOld
  BY DEF Init, OwnCodesAreOld, At, Idle
<1>4. NumberIsOwned /\ UnsubscribedIsCut
  BY DEF Init, NumberIsOwned, UnsubscribedIsCut, Exists, NoUser
<1>5. CodesBounded /\ LoggedOutIsBarred
  BY DEF Init, CodesBounded, LoggedOutIsBarred, NoCode
<1> QED BY <1>1, <1>2, <1>3, <1>4, <1>5 DEF AInv

\* A step of a process that begins something keeps the types.
LEMMA StartTypes ==
    ASSUME TypeOK, NEW s \in Sessions, Start(s)
    PROVE  TypeOK'
<1> USE DEF TypeOK
<1>1. ASSUME NEW phone \in Phones, RegisterOpen(s, phone)
      PROVE  TypeOK'
  <2>1. [Idle EXCEPT !.pc = "check", !.phone = phone, !.registering = TRUE] \in Request
    BY NullTypes DEF Request, Idle
  <2> QED BY <1>1, <2>1 DEF RegisterOpen, Begin, tokens
<1>2. ASSUME NEW u \in Users, ResendTwoFactor(s, u)
      PROVE  TypeOK'
  <2>1. [Idle EXCEPT !.pc = "otp", !.u = u, !.purpose = "2fa_login"] \in Request
    BY NullTypes DEF Request, Idle, AllPurposes
  <2> QED BY <1>2, <2>1, NullTypes DEF ResendTwoFactor, Begin, tokens
<1>3. ASSUME NEW u \in Users, NEW purpose \in Purposes, AskCode(s, u, purpose)
      PROVE  TypeOK'
  <2>1. [Idle EXCEPT !.pc = "otp", !.u = u, !.purpose = purpose] \in Request
    BY NullTypes, ConstantsAssumption DEF Request, Idle
  <2> QED BY <1>3, <2>1 DEF AskCode, Begin, tokens
<1>4. ASSUME NEW k \in Codes, VerifyRead(s, k)
      PROVE  TypeOK'
  <2>1. [Idle EXCEPT !.pc = "verify", !.u = otp[k].u, !.purpose = otp[k].purpose, !.code = k] \in Request
    BY NullTypes DEF Request, Idle, CodeRow
  <2> QED BY <1>4, <2>1 DEF VerifyRead, Begin, tokens
<1> QED BY <1>1, <1>2, <1>3, <1>4 DEF Start

\* So does a step of one that goes on with what it began.
LEMMA ContinueTypes ==
    ASSUME TypeOK, RequestsOK, NEW s \in Sessions, Continue(s)
    PROVE  TypeOK'
<1> USE DEF TypeOK
<1>1. request[s] \in Request
  OBVIOUS
<1>2. CASE RegisterCheck(s)
  <2>1. [request[s] EXCEPT !.pc = "insert"] \in Request
    BY <1>1 DEF Request
  <2> QED BY <1>2, <2>1 DEF RegisterCheck, Begin, tokens
<1>3. CASE RegisterRefused(s)
  BY <1>3, NullTypes DEF RegisterRefused, Begin, End, tokens
<1>4. ASSUME NEW u \in Users, RegisterInsert(s, u)
      PROVE  TypeOK'
  <2>1. [request[s] EXCEPT !.pc = "otp", !.u = u, !.phone = None] \in Request
    BY <1>1 DEF Request
  <2>2. [NoUser EXCEPT !.st = "live", !.phone = request[s].phone] \in UserRow
    BY <1>1, NullTypes DEF UserRow, Request, NoUser
  <2> QED BY <1>4, <2>1, <2>2 DEF RegisterInsert, Begin, tokens
<1>5. CASE OtpDelete(s)
  <2>1. OldCodes(request[s].u, request[s].purpose) \in SUBSET Codes
    BY DEF OldCodes, CodesOf
  <2>2. [request[s] EXCEPT !.pc = "code", !.old = OldCodes(request[s].u, request[s].purpose)] \in Request
    BY <1>1, <2>1 DEF Request
  <2> QED BY <1>5, <2>2 DEF OtpDelete, Begin, tokens
<1>6. CASE OtpTooSoon(s)
  <2>1. cut' \subseteq Users
    BY <1>1, <1>6 DEF OtpTooSoon, CutIfRegistering, Request
  <2> QED BY <1>6, <2>1, NullTypes DEF OtpTooSoon, Begin, End, tokens
<1>7. ASSUME NEW k \in Codes, NEW arrives \in Arrives, OtpInsert(s, k, arrives)
      PROVE  TypeOK'
  <2>1. [u |-> request[s].u, purpose |-> request[s].purpose, age |-> 0, sent |-> arrives, by |-> s] \in CodeRow
    BY <1>1, ConstantsAssumption DEF CodeRow, Request, Arrives
  <2>2. otp' \in [Codes -> CodeRow]
    BY <1>7, <2>1, NullTypes DEF OtpInsert
  <2>3. [request[s] EXCEPT !.pc = "subscribe", !.old = {}] \in Request
    BY <1>1 DEF Request
  <2>4. request' \in [Sessions -> Request]
    BY <1>7, <2>3, NullTypes DEF OtpInsert, Begin, End
  <2> QED BY <1>7, <2>2, <2>4 DEF OtpInsert, tokens
<1>8. CASE Subscribe(s)
  <2>1. \A u \in Users : [user[u] EXCEPT !.plan = TRUE] \in UserRow
    BY DEF UserRow
  <2> QED BY <1>8, <2>1, NullTypes DEF Subscribe, Begin, End, tokens
<1>9. CASE VerifyCommit(s)
  <2>1. request[s].u \in Users /\ request[s].code \in Codes
    BY <1>9 DEF VerifyCommit, RequestsOK, At
  <2>2. Verified(request[s].u, request[s].purpose) \in UserRow
    <3>1. (user[request[s].u].verified \/ request[s].purpose = "registration") \in BOOLEAN
      BY Zenon
    <3>2. \A b \in BOOLEAN : [user[request[s].u] EXCEPT !.verified = b] \in UserRow
      BY <2>1 DEF UserRow
    <3> QED BY <3>1, <3>2, Zenon DEF Verified
  <2>3. token' \in [Tokens -> Users \cup {None}]
    BY <1>9, <2>1 DEF VerifyCommit, Issue
  <2> QED BY <1>9, <2>1, <2>2, <2>3, NullTypes DEF VerifyCommit, Begin, End
<1> QED BY <1>2, <1>3, <1>4, <1>5, <1>6, <1>7, <1>8, <1>9 DEF Continue

\* So does every other step: a process that dies, tokens, administration, and time.
LEMMA OtherTypes ==
    ASSUME TypeOK, [Next]_vars, ~ \E s \in Sessions : Start(s) \/ Continue(s)
    PROVE  TypeOK'
<1> USE DEF TypeOK
<1>1. ASSUME NEW s \in Sessions, Crash(s)
      PROVE  TypeOK'
  <2>1. cut' \subseteq Users
    BY <1>1 DEF Crash, CutIfRegistering, Request
  <2> QED BY <1>1, <2>1, NullTypes DEF Crash, Begin, End, tokens
<1>2. ASSUME NEW u \in Users, NEW t \in Tokens, Login(u, t) \/ Refresh(u, t)
      PROVE  TypeOK'
  BY <1>2 DEF Login, Refresh, Issue
<1>3. ASSUME NEW t \in Tokens, Logout(t)
      PROVE  TypeOK'
  BY <1>3 DEF Logout
<1>4. ASSUME NEW u \in Users, SoftDelete(u)
      PROVE  TypeOK'
  <2>1. [user[u] EXCEPT !.st = "deleted", !.phone = None] \in UserRow
    BY DEF UserRow
  <2> QED BY <1>4, <2>1 DEF SoftDelete, tokens
<1>5. ASSUME NEW u \in Users, HardDelete(u)
      PROVE  TypeOK'
  <2>1. [NoUser EXCEPT !.st = "gone"] \in UserRow
    BY NullTypes DEF UserRow, NoUser
  <2> QED BY <1>5, <2>1, NullTypes DEF HardDelete
<1>6. ASSUME NEW u \in Users, NEW phone \in Phones, ChangePhone(u, phone)
      PROVE  TypeOK'
  <2>1. [user[u] EXCEPT !.phone = phone] \in UserRow
    BY DEF UserRow
  <2> QED BY <1>6, <2>1 DEF ChangePhone, SetPhone, tokens
<1>7. CASE Tick
  <2>1. \A k \in Codes : otp[k].age < CodeLife => [otp[k] EXCEPT !.age = @ + 1] \in CodeRow
    BY ConstantsAssumption DEF CodeRow
  <2> QED BY <1>7, <2>1 DEF Tick, tokens
<1>8. CASE UNCHANGED vars
  BY <1>8 DEF vars, tokens
<1> QED BY <1>1, <1>2, <1>3, <1>4, <1>5, <1>6, <1>7, <1>8 DEF Next

\* Every step keeps the types.
LEMMA TypeStep == TypeOK /\ RequestsOK /\ [Next]_vars => TypeOK'
BY StartTypes, ContinueTypes, OtherTypes

-----------------------------------------------------------------------------
(* Requests *)

\* A step moves one process at most, and leaves it well-formed.
LEMMA RequestsStep == TypeOK /\ RequestsOK /\ [Next]_vars => RequestsOK'
<1> SUFFICES ASSUME TypeOK, RequestsOK, [Next]_vars
             PROVE  RequestsOK'
  OBVIOUS
<1>1. ASSUME request' = request
      PROVE  RequestsOK'
  BY <1>1 DEF RequestsOK, At
<1>2. ASSUME NEW s \in Sessions, End(s)
      PROVE  RequestsOK'
  BY <1>2 DEF RequestsOK, At, End, Begin, TypeOK, Idle
<1>3. ASSUME NEW s \in Sessions, Start(s)
      PROVE  RequestsOK'
  <2>1. ASSUME NEW phone \in Phones, RegisterOpen(s, phone)
        PROVE  RequestsOK'
    BY <2>1 DEF RegisterOpen, RequestsOK, At, Begin, TypeOK, Idle
  <2>2. ASSUME NEW u \in Users, ResendTwoFactor(s, u)
        PROVE  RequestsOK'
    BY <2>2 DEF ResendTwoFactor, RequestsOK, At, Begin, TypeOK, Idle
  <2>3. ASSUME NEW u \in Users, NEW purpose \in Purposes, AskCode(s, u, purpose)
        PROVE  RequestsOK'
    BY <2>3 DEF AskCode, RequestsOK, At, Begin, TypeOK, Idle
  <2>4. ASSUME NEW k \in Codes, VerifyRead(s, k)
        PROVE  RequestsOK'
    <3>1. otp[k].u \in Users
      BY <2>4 DEF VerifyRead, TypeOK, CodeRow
    <3> QED BY <2>4, <3>1 DEF VerifyRead, RequestsOK, At, Begin, TypeOK, Idle
  <2> QED BY <1>3, <2>1, <2>2, <2>3, <2>4 DEF Start
<1>4. ASSUME NEW s \in Sessions, Continue(s)
      PROVE  RequestsOK'
  <2>1. request[s] \in Request
    BY DEF TypeOK
  <2>2. CASE RegisterCheck(s)
    BY <2>1, <2>2 DEF RegisterCheck, RequestsOK, At, Begin, TypeOK, Request
  <2>3. CASE RegisterRefused(s) \/ OtpTooSoon(s) \/ Subscribe(s) \/ VerifyCommit(s)
    BY <1>2, <2>3 DEF RegisterRefused, OtpTooSoon, Subscribe, VerifyCommit
  <2>4. ASSUME NEW u \in Users, RegisterInsert(s, u)
        PROVE  RequestsOK'
    BY <2>1, <2>4 DEF RegisterInsert, RequestsOK, At, Begin, TypeOK, Request
  <2>5. CASE OtpDelete(s)
    BY <2>1, <2>5 DEF OtpDelete, RequestsOK, At, Begin, TypeOK, Request
  <2>6. ASSUME NEW k \in Codes, NEW arrives \in Arrives, OtpInsert(s, k, arrives)
        PROVE  RequestsOK'
    <3>1. CASE request[s].registering
      <4>1. request[s].u \in Users
        BY <2>6 DEF OtpInsert, RequestsOK, At
      <4>2. request' = [request EXCEPT ![s] = [request[s] EXCEPT !.pc = "subscribe", !.old = {}]]
        BY <2>6, <3>1 DEF OtpInsert, Begin
      <4> QED BY <2>1, <3>1, <4>1, <4>2 DEF RequestsOK, At, TypeOK, Request
    <3>2. CASE ~request[s].registering
      BY <1>2, <2>6, <3>2 DEF OtpInsert
    <3> QED BY <3>1, <3>2
  <2> QED BY <1>4, <2>2, <2>3, <2>4, <2>5, <2>6 DEF Continue
<1>5. ASSUME NEW s \in Sessions, Crash(s)
      PROVE  RequestsOK'
  BY <1>2, <1>5 DEF Crash
<1>6. CASE ~ \E s \in Sessions : Start(s) \/ Continue(s) \/ Crash(s)
  <2>1. request' = request
    BY <1>6 DEF Next, Login, Refresh, Logout, SoftDelete, HardDelete, ChangePhone, Tick, vars
  <2> QED BY <1>1, <2>1
<1> QED BY <1>3, <1>4, <1>5, <1>6

-----------------------------------------------------------------------------
(* Numbers *)

\* A user keeps the number, loses it, or gets one that nobody has; one user gets one at a time.
LEMMA NumbersMove ==
    ASSUME TypeOK, RequestsOK, [Next]_vars
    PROVE  \/ \A v \in Users : user'[v].phone \in {user[v].phone, None}
           \/ \E u \in Users : /\ ~Taken(user'[u].phone)
                               /\ \A v \in Users \ {u} : user'[v] = user[v]
<1>1. ASSUME user' = user
      PROVE  \A v \in Users : user'[v].phone \in {user[v].phone, None}
  BY <1>1
<1>2. ASSUME NEW s \in Sessions, NEW u \in Users, RegisterInsert(s, u)
      PROVE  /\ ~Taken(user'[u].phone)
             /\ \A v \in Users \ {u} : user'[v] = user[v]
  BY <1>2 DEF RegisterInsert, TypeOK, UserRow, NoUser
<1>3. ASSUME NEW s \in Sessions, Subscribe(s) \/ VerifyCommit(s)
      PROVE  \A v \in Users : user'[v].phone \in {user[v].phone, None}
  <2>1. request[s].u \in Users
    BY <1>3 DEF Subscribe, VerifyCommit, RequestsOK, At
  <2>2. CASE Subscribe(s)
    BY <2>1, <2>2 DEF Subscribe, TypeOK, UserRow
  <2>3. CASE VerifyCommit(s)
    BY <2>1, <2>3 DEF VerifyCommit, Verified, TypeOK, UserRow
  <2> QED BY <1>3, <2>2, <2>3
<1>4. ASSUME NEW u \in Users, SoftDelete(u) \/ HardDelete(u)
      PROVE  \A v \in Users : user'[v].phone \in {user[v].phone, None}
  BY <1>4 DEF SoftDelete, HardDelete, TypeOK, UserRow, NoUser
<1>5. ASSUME NEW u \in Users, NEW phone \in Phones, ChangePhone(u, phone)
      PROVE  /\ ~Taken(user'[u].phone)
             /\ \A v \in Users \ {u} : user'[v] = user[v]
  BY <1>5 DEF ChangePhone, SetPhone, TypeOK, UserRow
<1>6. \/ user' = user
      \/ \E s \in Sessions, u \in Users : RegisterInsert(s, u)
      \/ \E s \in Sessions : Subscribe(s) \/ VerifyCommit(s)
      \/ \E u \in Users : SoftDelete(u) \/ HardDelete(u)
      \/ \E u \in Users, phone \in Phones : ChangePhone(u, phone)
  BY DEF Next, Start, RegisterOpen, ResendTwoFactor, AskCode, VerifyRead, Continue, RegisterCheck,
         RegisterRefused, OtpDelete, OtpTooSoon, OtpInsert, Crash, Login, Refresh, Logout, Tick, vars
<1> QED BY <1>1, <1>2, <1>3, <1>4, <1>5, <1>6

\* So every number keeps one owner.
LEMMA NumberStep == TypeOK /\ RequestsOK /\ NumberIsOwned /\ [Next]_vars => NumberIsOwned'
<1> SUFFICES ASSUME TypeOK, RequestsOK, NumberIsOwned, [Next]_vars,
                    NEW u \in Users, NEW v \in Users, u # v, user'[u].phone # None
             PROVE  user'[u].phone # user'[v].phone
  BY DEF NumberIsOwned
<1>1. CASE \A w \in Users : user'[w].phone \in {user[w].phone, None}
  BY <1>1 DEF NumberIsOwned
<1>2. ASSUME NEW w \in Users, ~Taken(user'[w].phone), \A x \in Users \ {w} : user'[x] = user[x]
      PROVE  user'[u].phone # user'[v].phone
  BY <1>2 DEF NumberIsOwned, Taken
<1> QED BY <1>1, <1>2, NumbersMove

-----------------------------------------------------------------------------
(* Codes *)

\* What a row of otps can become while no code is stored: it stays whose it is, or goes.
Kept(k) ==
    \/ otp'[k].u = otp[k].u /\ otp'[k].purpose = otp[k].purpose /\ otp'[k].by = otp[k].by
    \/ otp'[k] = NoCode

\* Only the last step of storing a code adds one, its process being the one that does it.
LEMMA CodesStay ==
    ASSUME TypeOK, [Next]_vars,
           ~ \E s \in Sessions, k \in Codes, arrives \in Arrives : OtpInsert(s, k, arrives)
    PROVE  \A k \in Codes : Kept(k)
<1>1. CASE otp' = otp
  BY <1>1 DEF Kept
<1>2. ASSUME NEW s \in Sessions, NEW u \in Users, ResendTwoFactor(s, u)
      PROVE  \A k \in Codes : Kept(k)
  BY <1>2 DEF ResendTwoFactor, Kept
<1>3. ASSUME NEW s \in Sessions, VerifyCommit(s)
      PROVE  \A k \in Codes : Kept(k)
  BY <1>3 DEF VerifyCommit, Kept, TypeOK
<1>4. ASSUME NEW u \in Users, HardDelete(u)
      PROVE  \A k \in Codes : Kept(k)
  BY <1>4 DEF HardDelete, Kept
<1>5. CASE Tick
  BY <1>5 DEF Tick, Kept, TypeOK, CodeRow
<1>6. \/ otp' = otp
      \/ \E s \in Sessions, u \in Users : ResendTwoFactor(s, u)
      \/ \E s \in Sessions : VerifyCommit(s)
      \/ \E u \in Users : HardDelete(u)
      \/ Tick
  BY DEF Next, Start, RegisterOpen, AskCode, VerifyRead, Continue, RegisterCheck, RegisterInsert,
         RegisterRefused, Subscribe, OtpDelete, OtpTooSoon, Crash, Login, Refresh, Logout,
         ChangePhone, SoftDelete, vars, tokens
<1> QED BY <1>1, <1>2, <1>3, <1>4, <1>5, <1>6

\* A process that is between DELETE and INSERT was there before the step, with the same
\* request, or has just read the rows it deletes.
LEMMA CodeRequests ==
    ASSUME TypeOK, RequestsOK, [Next]_vars, NEW s \in Sessions, request'[s].pc = "code"
    PROVE  \/ request'[s] = request[s]
           \/ /\ UNCHANGED otp
              /\ request'[s].old = CodesOf(request'[s].u, request'[s].purpose)
<1>1. ASSUME NEW r \in Sessions, OtpDelete(r)
      PROVE  \/ request'[s] = request[s]
             \/ /\ UNCHANGED otp
                /\ request'[s].old = CodesOf(request'[s].u, request'[s].purpose)
  <2>1. CASE r = s
    <3>1. request[s] \in Request
      BY DEF TypeOK
    <3>2. request'[s] = [request[s] EXCEPT !.pc = "code", !.old = OldCodes(request[s].u, request[s].purpose)]
      BY <1>1, <2>1 DEF OtpDelete, Begin, TypeOK
    <3>3. /\ request'[s].u = request[s].u /\ request'[s].purpose = request[s].purpose
          /\ request'[s].old = OldCodes(request[s].u, request[s].purpose)
      BY <3>1, <3>2 DEF Request
    <3> QED BY <1>1, <3>3 DEF OtpDelete, OldCodes
  <2>2. CASE r # s
    BY <1>1, <2>2 DEF OtpDelete, Begin, TypeOK
  <2> QED BY <2>1, <2>2
<1>2. ASSUME NEW r \in Sessions, NEW x, x.pc # "code", Begin(r, x)
      PROVE  request'[s] = request[s]
  BY <1>2 DEF Begin, TypeOK
<1>3. ASSUME NEW r \in Sessions, End(r)
      PROVE  request'[s] = request[s]
  BY <1>2, <1>3 DEF End, Idle
<1>4. ASSUME NEW r \in Sessions, Start(r)
      PROVE  request'[s] = request[s]
  <2>1. ASSUME NEW phone \in Phones, RegisterOpen(r, phone)
        PROVE  request'[s] = request[s]
    BY <1>2, <2>1 DEF RegisterOpen, Idle
  <2>2. ASSUME NEW u \in Users, ResendTwoFactor(r, u)
        PROVE  request'[s] = request[s]
    BY <1>2, <2>2 DEF ResendTwoFactor, Idle
  <2>3. ASSUME NEW u \in Users, NEW purpose \in Purposes, AskCode(r, u, purpose)
        PROVE  request'[s] = request[s]
    BY <1>2, <2>3 DEF AskCode, Idle
  <2>4. ASSUME NEW k \in Codes, VerifyRead(r, k)
        PROVE  request'[s] = request[s]
    BY <1>2, <2>4 DEF VerifyRead, Idle
  <2> QED BY <1>4, <2>1, <2>2, <2>3, <2>4 DEF Start
<1>5. ASSUME NEW r \in Sessions, NEW u \in Users, RegisterInsert(r, u)
      PROVE  request'[s] = request[s]
  <2>1. [request[r] EXCEPT !.pc = "otp", !.u = u, !.phone = None].pc = "otp"
    BY DEF TypeOK, Request
  <2> QED BY <1>2, <1>5, <2>1 DEF RegisterInsert
<1>6. ASSUME NEW r \in Sessions, RegisterCheck(r)
      PROVE  request'[s] = request[s]
  <2>1. [request[r] EXCEPT !.pc = "insert"].pc = "insert"
    BY DEF TypeOK, Request
  <2> QED BY <1>2, <1>6, <2>1 DEF RegisterCheck
<1>7. ASSUME NEW r \in Sessions, NEW k \in Codes, NEW arrives \in Arrives, OtpInsert(r, k, arrives)
      PROVE  request'[s] = request[s]
  <2>1. [request[r] EXCEPT !.pc = "subscribe", !.old = {}].pc = "subscribe"
    BY DEF TypeOK, Request
  <2> QED BY <1>2, <1>3, <1>7, <2>1 DEF OtpInsert
<1>8. \/ request' = request
      \/ \E r \in Sessions : OtpDelete(r)
      \/ \E r \in Sessions : Start(r) \/ End(r) \/ RegisterCheck(r)
      \/ \E r \in Sessions, u \in Users : RegisterInsert(r, u)
      \/ \E r \in Sessions, k \in Codes, arrives \in Arrives : OtpInsert(r, k, arrives)
  BY DEF Next, Continue, Crash, RegisterRefused, OtpTooSoon, Subscribe, VerifyCommit,
         Login, Refresh, Logout, SoftDelete, HardDelete, ChangePhone, Tick, vars
<1> QED BY <1>1, <1>3, <1>4, <1>5, <1>6, <1>7, <1>8

\* Of a process that stores a code the older ones of that kind are gone.
LEMMA CodesStep ==
    TypeOK /\ RequestsOK /\ OwnCodesAreOld /\ CodesBounded /\ [Next]_vars => OwnCodesAreOld' /\ CodesBounded'
<1> SUFFICES ASSUME TypeOK, RequestsOK, OwnCodesAreOld, CodesBounded, [Next]_vars
             PROVE  OwnCodesAreOld' /\ CodesBounded'
  OBVIOUS
<1>1. CASE ~ \E s \in Sessions, k \in Codes, arrives \in Arrives : OtpInsert(s, k, arrives)
  <2>1. \A k \in Codes : Kept(k)
    BY <1>1, CodesStay
  <2>2. CodesBounded'
    BY <2>1 DEF CodesBounded, Kept, NoCode
  <2>3. ASSUME NEW s \in Sessions, NEW k \in Codes, request'[s].pc = "code",
               otp'[k].u = request'[s].u, otp'[k].purpose = request'[s].purpose, otp'[k].by = s
        PROVE  k \in request'[s].old
    <3>1. CASE request'[s] = request[s]
      <4>1. request[s].u \in Users
        BY <2>3, <3>1 DEF RequestsOK, At
      <4>2. otp'[k].u = otp[k].u /\ otp'[k].purpose = otp[k].purpose /\ otp'[k].by = otp[k].by
        BY <2>1, <2>3, <3>1, <4>1, ConstantsAssumption DEF Kept, NoCode
      <4> QED BY <2>3, <3>1, <4>2 DEF OwnCodesAreOld, At
    <3>2. CASE UNCHANGED otp /\ request'[s].old = CodesOf(request'[s].u, request'[s].purpose)
      BY <2>3, <3>2 DEF CodesOf
    <3> QED BY <2>3, <3>1, <3>2, CodeRequests
  <2>4. OwnCodesAreOld'
    BY <2>3 DEF OwnCodesAreOld, At
  <2> QED BY <2>2, <2>4
<1>2. ASSUME NEW s \in Sessions, NEW k \in Codes, NEW arrives \in Arrives, OtpInsert(s, k, arrives)
      PROVE  OwnCodesAreOld' /\ CodesBounded'
  <2> DEFINE u == request[s].u
             purpose == request[s].purpose
  <2>1. u \in Users
    BY <1>2 DEF OtpInsert, RequestsOK, At
  <2>2. otp'[k] = [u |-> u, purpose |-> purpose, age |-> 0, sent |-> arrives, by |-> s]
    BY <1>2 DEF OtpInsert
  <2>3. \A j \in Codes \ {k} : IF j \in request[s].old THEN otp'[j] = NoCode ELSE otp'[j] = otp[j]
    BY <1>2 DEF OtpInsert
  <2>4. ASSUME NEW j \in Codes \ {k}, otp'[j].u = u, otp'[j].purpose = purpose
        PROVE  otp'[j].by # s
    <3>1. otp'[j] = otp[j] /\ j \notin request[s].old
      BY <2>1, <2>3, <2>4, ConstantsAssumption DEF NoCode
    <3> QED BY <1>2, <2>4, <3>1 DEF OwnCodesAreOld, OtpInsert
  <2>5. CodesBounded'
    <3> SUFFICES ASSUME NEW i \in Codes, NEW j \in Codes, i # j, otp'[i].u # None,
                        otp'[i].u = otp'[j].u, otp'[i].purpose = otp'[j].purpose
                 PROVE  otp'[i].by # otp'[j].by
      BY DEF CodesBounded
    <3>1. CASE i = k
      BY <2>2, <2>4, <3>1
    <3>2. CASE j = k
      BY <2>2, <2>4, <3>2
    <3>3. CASE i # k /\ j # k
      BY <2>3, <3>3 DEF CodesBounded, NoCode
    <3> QED BY <3>1, <3>2, <3>3
  <2>6. ASSUME NEW r \in Sessions, NEW j \in Codes, request'[r].pc = "code",
               otp'[j].u = request'[r].u, otp'[j].purpose = request'[r].purpose, otp'[j].by = r
        PROVE  j \in request'[r].old
    <3>1. r # s /\ request'[r] = request[r]
      <4>1. request'[s].pc # "code"
        <5>1. [request[s] EXCEPT !.pc = "subscribe", !.old = {}].pc = "subscribe"
          BY DEF TypeOK, Request
        <5>2. CASE request[s].registering
          BY <1>2, <5>1, <5>2 DEF OtpInsert, Begin, TypeOK
        <5>3. CASE ~request[s].registering
          BY <1>2, <5>3 DEF OtpInsert, End, Begin, TypeOK, Idle
        <5> QED BY <5>2, <5>3
      <4> QED BY <1>2, <2>6, <4>1 DEF OtpInsert, Begin, End, TypeOK
    <3>2. j # k
      BY <2>2, <2>6, <3>1
    <3>3. request[r].u \in Users
      BY <2>6, <3>1 DEF RequestsOK, At
    <3>4. otp'[j] = otp[j]
      BY <2>3, <2>6, <3>1, <3>2, <3>3, ConstantsAssumption DEF NoCode
    <3> QED BY <2>6, <3>1, <3>4 DEF OwnCodesAreOld, At
  <2>7. OwnCodesAreOld'
    BY <2>6 DEF OwnCodesAreOld, At
  <2> QED BY <2>5, <2>7
<1> QED BY <1>1, <1>2

-----------------------------------------------------------------------------
(* Subscriptions *)

\* A process that stops registering a user leaves the user cut or subscribed, and no other step
\* touches its request.
LEMMA RegistrationsEnd ==
    ASSUME TypeOK, RequestsOK, [Next]_vars, NEW s \in Sessions, NEW u \in Users, Registering(s, u)
    PROVE  \/ Registering(s, u)'
           \/ u \in cut'
           \/ user'[u].plan
<1>1. ASSUME NEW r \in Sessions, NEW x, Begin(r, x), r # s
      PROVE  Registering(s, u)'
  BY <1>1 DEF Begin, Registering, TypeOK
<1>2. ~At(s, "idle") /\ ~At(s, "verify") /\ request[s].pc \notin {"check", "insert"}
  BY ConstantsAssumption DEF Registering, RequestsOK, At, Idle
<1>3. ASSUME NEW r \in Sessions, Start(r)
      PROVE  Registering(s, u)'
  <2>1. r # s
    BY <1>2, <1>3 DEF Start, RegisterOpen, ResendTwoFactor, AskCode, VerifyRead
  <2>2. \E x : Begin(r, x)
    BY <1>3 DEF Start, RegisterOpen, ResendTwoFactor, AskCode, VerifyRead
  <2> QED BY <1>1, <2>1, <2>2
<1>4. ASSUME NEW r \in Sessions, Continue(r) \/ Crash(r), r # s
      PROVE  Registering(s, u)'
  <2>1. \E x : Begin(r, x)
    BY <1>4 DEF Continue, RegisterCheck, RegisterInsert, RegisterRefused, OtpDelete, OtpTooSoon,
                OtpInsert, Subscribe, VerifyCommit, Crash, End
  <2> QED BY <1>1, <1>4, <2>1
<1>5. ASSUME Continue(s) \/ Crash(s)
      PROVE  Registering(s, u)' \/ u \in cut' \/ user'[u].plan
  <2>1. request[s] \in Request /\ request[s].u = u /\ request[s].registering
    BY DEF TypeOK, Registering
  <2>2. CASE OtpTooSoon(s) \/ Crash(s)
    BY <2>1, <2>2, ConstantsAssumption DEF OtpTooSoon, Crash, CutIfRegistering
  <2>3. CASE OtpDelete(s)
    BY <2>1, <2>3 DEF OtpDelete, Begin, Registering, TypeOK, Request
  <2>4. ASSUME NEW k \in Codes, NEW arrives \in Arrives, OtpInsert(s, k, arrives)
        PROVE  Registering(s, u)'
    <3>1. request' = [request EXCEPT ![s] = [request[s] EXCEPT !.pc = "subscribe", !.old = {}]]
      BY <2>1, <2>4 DEF OtpInsert, Begin
    <3> QED BY <2>1, <3>1 DEF Registering, TypeOK, Request
  <2>5. CASE Subscribe(s)
    BY <2>1, <2>5 DEF Subscribe, TypeOK, UserRow
  <2>6. ~RegisterCheck(s) /\ ~RegisterRefused(s) /\ ~VerifyCommit(s) /\ ~ \E v \in Users : RegisterInsert(s, v)
    BY <1>2 DEF RegisterCheck, RegisterRefused, VerifyCommit, RegisterInsert, At
  <2> QED BY <1>5, <2>2, <2>3, <2>4, <2>5, <2>6 DEF Continue
<1>6. CASE ~ \E r \in Sessions : Start(r) \/ Continue(r) \/ Crash(r)
  BY <1>6 DEF Next, Login, Refresh, Logout, SoftDelete, HardDelete, ChangePhone, Tick, vars, Registering
<1> QED BY <1>3, <1>4, <1>5, <1>6

\* A step that brings a user into being without a subscription is the INSERT of a registration.
LEMMA UsersAppear ==
    ASSUME TypeOK, RequestsOK, [Next]_vars, NEW u \in Users, Exists(u)', ~user'[u].plan
    PROVE  \/ Exists(u) /\ ~user[u].plan
           \/ \E s \in Sessions : Registering(s, u)'
<1>1. CASE user' = user
  BY <1>1 DEF Exists
<1>2. ASSUME NEW s \in Sessions, NEW v \in Users, RegisterInsert(s, v)
      PROVE  (Exists(u) /\ ~user[u].plan) \/ Registering(s, u)'
  <2>1. CASE v = u
    <3>1. request[s] \in Request /\ request[s].registering
      BY <1>2 DEF TypeOK, RegisterInsert, RequestsOK, At
    <3>2. request' = [request EXCEPT ![s] = [request[s] EXCEPT !.pc = "otp", !.u = u, !.phone = None]]
      BY <1>2, <2>1 DEF RegisterInsert, Begin
    <3> QED BY <3>1, <3>2 DEF Registering, TypeOK, Request
  <2>2. CASE v # u
    BY <1>2, <2>2 DEF RegisterInsert, TypeOK, Exists
  <2> QED BY <2>1, <2>2
<1>3. ASSUME NEW s \in Sessions, Subscribe(s) \/ VerifyCommit(s)
      PROVE  Exists(u) /\ ~user[u].plan
  <2>1. request[s].u \in Users
    BY <1>3 DEF Subscribe, VerifyCommit, RequestsOK, At
  <2>2. CASE Subscribe(s)
    BY <2>1, <2>2 DEF Subscribe, TypeOK, UserRow, Exists
  <2>3. CASE VerifyCommit(s)
    BY <2>1, <2>3 DEF VerifyCommit, Verified, TypeOK, UserRow, Exists
  <2> QED BY <1>3, <2>2, <2>3
<1>4. ASSUME NEW v \in Users, SoftDelete(v) \/ HardDelete(v) \/ \E phone \in Phones : ChangePhone(v, phone)
      PROVE  Exists(u) /\ ~user[u].plan
  BY <1>4 DEF SoftDelete, HardDelete, ChangePhone, SetPhone, TypeOK, UserRow, NoUser, Exists
<1>5. \/ user' = user
      \/ \E s \in Sessions, v \in Users : RegisterInsert(s, v)
      \/ \E s \in Sessions : Subscribe(s) \/ VerifyCommit(s)
      \/ \E v \in Users : SoftDelete(v) \/ HardDelete(v) \/ \E phone \in Phones : ChangePhone(v, phone)
  BY DEF Next, Start, RegisterOpen, ResendTwoFactor, AskCode, VerifyRead, Continue, RegisterCheck,
         RegisterRefused, OtpDelete, OtpTooSoon, OtpInsert, Crash, Login, Refresh, Logout, Tick, vars
<1> QED BY <1>1, <1>2, <1>3, <1>4, <1>5

\* History forgets no registration that was cut.
LEMMA CutStays ==
    ASSUME [Next]_vars
    PROVE  cut \subseteq cut'
BY DEF Next, Start, RegisterOpen, ResendTwoFactor, AskCode, VerifyRead, Continue, RegisterCheck,
       RegisterRefused, RegisterInsert, OtpDelete, OtpTooSoon, OtpInsert, Subscribe, VerifyCommit, Crash,
       CutIfRegistering, Login, Refresh, Logout, SoftDelete, HardDelete, ChangePhone, Tick, vars

\* So a user without a subscription is being registered or was cut.
LEMMA UnsubscribedStep ==
    TypeOK /\ RequestsOK /\ UnsubscribedIsCut /\ [Next]_vars => UnsubscribedIsCut'
<1> SUFFICES ASSUME TypeOK, RequestsOK, UnsubscribedIsCut, [Next]_vars,
                    NEW u \in Users, Exists(u)', ~user'[u].plan
             PROVE  u \in cut' \/ \E s \in Sessions : Registering(s, u)'
  BY DEF UnsubscribedIsCut, Exists, Registering
<1>1. CASE Exists(u) /\ ~user[u].plan
  <2>1. u \in cut \/ \E s \in Sessions : Registering(s, u)
    BY <1>1 DEF UnsubscribedIsCut, Registering
  <2> QED BY <2>1, CutStays, RegistrationsEnd
<1> QED BY <1>1, UsersAppear

-----------------------------------------------------------------------------
(* Tokens *)

\* A token that was issued stays its user's, a row that is gone stays gone, and only a deletion
\* takes a token off the blacklist.
LEMMA TokensStay ==
    ASSUME TypeOK, RequestsOK, [Next]_vars, NEW t \in Tokens, token[t] \in Users
    PROVE  /\ token'[t] = token[t]
           /\ user[token[t]].st = "gone" => user'[token[t]].st = "gone"
           /\ t \in blacklist => t \in blacklist' \/ user'[token[t]].st = "gone"
<1>1. token'[t] = token[t]
  <2>1. ASSUME NEW u, NEW x \in Tokens, Issue(u, x)
        PROVE  token'[t] = token[t]
    BY <2>1, ConstantsAssumption DEF Issue, TypeOK
  <2>2. CASE token' = token
    BY <2>2
  <2>3. token' = token \/ \E u \in Users, x \in Tokens : Issue(u, x)
    <3>1. ASSUME NEW s \in Sessions, VerifyCommit(s)
          PROVE  token' = token \/ \E u \in Users, x \in Tokens : Issue(u, x)
      BY <3>1 DEF VerifyCommit, RequestsOK, At
    <3> QED BY <3>1 DEF Next, Start, RegisterOpen, ResendTwoFactor, AskCode, VerifyRead, Continue,
                  RegisterCheck, RegisterRefused, RegisterInsert, OtpDelete, OtpTooSoon, OtpInsert, Subscribe,
                  Crash, Login, Refresh, Logout, SoftDelete, HardDelete, ChangePhone, Tick, vars, tokens
  <2> QED BY <2>1, <2>2, <2>3
<1>2. ASSUME NEW u \in Users, user[u].st = "gone"
      PROVE  user'[u].st = "gone"
  <2>1. CASE user' = user
    BY <1>2, <2>1
  <2>2. ASSUME NEW s \in Sessions, NEW v \in Users, RegisterInsert(s, v)
        PROVE  user'[u].st = "gone"
    BY <1>2, <2>2 DEF RegisterInsert, TypeOK
  <2>3. ASSUME NEW v \in Users, Exists(v), \A w \in Users \ {v} : user'[w] = user[w]
        PROVE  user'[u].st = "gone"
    BY <1>2, <2>3 DEF Exists
  <2>4. \/ user' = user
        \/ \E s \in Sessions, v \in Users : RegisterInsert(s, v)
        \/ \E v \in Users : Exists(v) /\ \A w \in Users \ {v} : user'[w] = user[w]
    <3>1. ASSUME NEW s \in Sessions, Subscribe(s) \/ VerifyCommit(s)
          PROVE  \E v \in Users : Exists(v) /\ \A w \in Users \ {v} : user'[w] = user[w]
      <4>1. request[s].u \in Users
        BY <3>1 DEF Subscribe, VerifyCommit, RequestsOK, At
      <4> QED BY <3>1, <4>1 DEF Subscribe, VerifyCommit, TypeOK
    <3>2. ASSUME NEW v \in Users,
                 SoftDelete(v) \/ HardDelete(v) \/ \E phone \in Phones : ChangePhone(v, phone)
          PROVE  Exists(v) /\ \A w \in Users \ {v} : user'[w] = user[w]
      BY <3>2 DEF SoftDelete, HardDelete, ChangePhone, SetPhone, TypeOK
    <3>3. \/ user' = user
          \/ \E s \in Sessions, v \in Users : RegisterInsert(s, v)
          \/ \E s \in Sessions : Subscribe(s) \/ VerifyCommit(s)
          \/ \E v \in Users : SoftDelete(v) \/ HardDelete(v) \/ \E phone \in Phones : ChangePhone(v, phone)
      BY DEF Next, Start, RegisterOpen, ResendTwoFactor, AskCode, VerifyRead, Continue, RegisterCheck,
             RegisterRefused, OtpDelete, OtpTooSoon, OtpInsert, Crash, Login, Refresh, Logout, Tick, vars
    <3> QED BY <3>1, <3>2, <3>3
  <2> QED BY <2>1, <2>2, <2>3, <2>4
<1>3. ASSUME t \in blacklist
      PROVE  t \in blacklist' \/ user'[token[t]].st = "gone"
  <2>1. ASSUME NEW u \in Users, HardDelete(u)
        PROVE  t \in blacklist' \/ user'[token[t]].st = "gone"
    BY <1>3, <2>1 DEF HardDelete, TypeOK, NoUser
  <2>2. blacklist \subseteq blacklist' \/ \E u \in Users : HardDelete(u)
    BY DEF Next, Start, RegisterOpen, ResendTwoFactor, AskCode, VerifyRead, Continue, RegisterCheck,
           RegisterRefused, RegisterInsert, OtpDelete, OtpTooSoon, OtpInsert, Subscribe, VerifyCommit,
           Crash, Login, Refresh, Logout, SoftDelete, ChangePhone, Tick, vars, tokens
  <2> QED BY <1>3, <2>1, <2>2
<1> QED BY <1>1, <1>2, <1>3

\* So a token that was logged out stays barred.
LEMMA TokensStep ==
    TypeOK /\ RequestsOK /\ LoggedOutIsBarred /\ [Next]_vars => LoggedOutIsBarred'
<1> SUFFICES ASSUME TypeOK, RequestsOK, LoggedOutIsBarred, [Next]_vars
             PROVE  LoggedOutIsBarred'
  OBVIOUS
<1>1. ASSUME NEW t \in loggedOut
      PROVE  /\ token'[t] \in Users
             /\ t \in blacklist' \/ user'[token'[t]].st = "gone"
  <2>1. t \in Tokens /\ token[t] \in Users
    BY <1>1 DEF TypeOK, LoggedOutIsBarred
  <2> QED BY <1>1, <2>1, TokensStay DEF LoggedOutIsBarred
<1>2. CASE loggedOut' = loggedOut
  BY <1>1, <1>2 DEF LoggedOutIsBarred
<1>3. ASSUME NEW t \in Tokens, Logout(t)
      PROVE  LoggedOutIsBarred'
  <2>1. token'[t] \in Users /\ t \in blacklist'
    BY <1>3 DEF Logout, Accepted, TypeOK
  <2>2. loggedOut' = loggedOut \cup {t}
    BY <1>3 DEF Logout
  <2> QED BY <1>1, <2>1, <2>2 DEF LoggedOutIsBarred
<1>4. loggedOut' = loggedOut \/ \E t \in Tokens : Logout(t)
  BY DEF Next, Start, RegisterOpen, ResendTwoFactor, AskCode, VerifyRead, Continue, RegisterCheck,
         RegisterRefused, RegisterInsert, OtpDelete, OtpTooSoon, OtpInsert, Subscribe, VerifyCommit,
         Crash, Login, Refresh, SoftDelete, HardDelete, ChangePhone, Tick, vars, tokens
<1> QED BY <1>2, <1>3, <1>4

-----------------------------------------------------------------------------
(* Theorems *)

\* The invariant holds in every state that requests, crashes, deletions and time reach.
LEMMA AccountsInvariant == Spec => []AInv
<1>1. AInv /\ [Next]_vars => AInv'
  BY TypeStep, RequestsStep, NumberStep, CodesStep, UnsubscribedStep, TokensStep DEF AInv
<1> QED BY InvariantInit, <1>1, PTL DEF Spec

\* Rows, requests and history keep their types.
THEOREM AccountsTyped == Spec => []TypeOK
BY AccountsInvariant, PTL DEF AInv

\* A number belongs to one account, although it is checked in one statement and written in
\* another.
THEOREM NumbersAreOwned == Spec => []NumberIsOwned
BY AccountsInvariant, PTL DEF AInv

\* Overlapping requests for a code leave one code each.
THEOREM CodesAreBounded == Spec => []CodesBounded
BY AccountsInvariant, PTL DEF AInv

\* Whoever has no subscription is being registered, or was cut off while being.
THEOREM OnlyTheCutLackAPlan == Spec => []UnsubscribedIsCut
BY AccountsInvariant, PTL DEF AInv

\* Logging out is for good, through deletions, new tokens and refreshed ones.
THEOREM LoggedOutForGood == Spec => []LoggedOutStaysOut
<1>1. LoggedOutIsBarred => LoggedOutStaysOut
  BY DEF LoggedOutIsBarred, LoggedOutStaysOut, Accepted, Exists
<1> QED BY <1>1, AccountsInvariant, PTL DEF AInv

=============================================================================
