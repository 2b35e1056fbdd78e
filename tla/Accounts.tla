------------------------------ MODULE Accounts ------------------------------
(***************************************************************************)
(* Accounts: registration, one-time codes, login with and without a second *)
(* factor, tokens, changes of number, and what an administrator does to an *)
(* account.  Nobody registers by invitation: sending one always fails.     *)
(*                                                                         *)
(* A registration is a chain of commits: user stored, code stored,         *)
(* subscription stored.  Storing a code looks for a recent one, deletes    *)
(* the old ones and inserts the new one; requests of several processes     *)
(* interleave between those statements.  The messages that carry codes may *)
(* be lost.                                                                *)
(***************************************************************************)
EXTENDS Naturals, FiniteSets

CONSTANTS
    Users,         \* primary keys of users
    Phones,        \* phone numbers
    Codes,         \* one-time codes; the code of a deleted row may be drawn again
    Tokens,        \* access tokens
    Sessions,      \* processes
    Purposes,      \* the purposes of codes in play
    CodeLife,      \* a code's life, in the unit of the 60-second limit
    None

AllPurposes == {"registration", "2fa_login", "password_reset", "verify_email"}

ASSUME ConstantsAssumption ==
    /\ Purposes \subseteq AllPurposes
    /\ CodeLife \in Nat \ {0}
    /\ IsFiniteSet(Sessions)
    /\ None \notin Users \cup Phones \cup Codes \cup Tokens \cup Sessions

VARIABLES
    user,          \* rows of users, with the subscription of each
    otp,           \* rows of otps, by code
    token,         \* the user an access token was issued to
    blacklist,     \* rows of token_blacklist
    request,       \* what each process is in the middle of
    loggedOut,     \* history: tokens whose logout was answered
    cut            \* history: users whose registration ended before its last step

vars == <<user, otp, token, blacklist, request, loggedOut, cut>>

tokens == <<token, blacklist, loggedOut>>

-----------------------------------------------------------------------------
(* Rows and requests *)

UserRow == [st : {"none", "live", "deleted", "gone"}, phone : Phones \cup {None},
            verified : BOOLEAN, plan : BOOLEAN]

NoUser == [st |-> "none", phone |-> None, verified |-> FALSE, plan |-> FALSE]

\* "by" is history: the process that inserted the row.
CodeRow == [u : Users \cup {None}, purpose : AllPurposes, age : 0..CodeLife, sent : BOOLEAN, by : Sessions \cup {None}]

NoCode == [u |-> None, purpose |-> "registration", age |-> 0, sent |-> FALSE, by |-> None]

Request == [pc : {"idle", "check", "insert", "otp", "code", "subscribe", "verify"},
            u : Users \cup {None}, phone : Phones \cup {None},
            purpose : AllPurposes, registering : BOOLEAN, old : SUBSET Codes,
            code : Codes \cup {None}]

Idle == [pc |-> "idle", u |-> None, phone |-> None, purpose |-> "registration",
         registering |-> FALSE, old |-> {}, code |-> None]

At(s, pc) == request[s].pc = pc

Begin(s, r) == request' = [request EXCEPT ![s] = r]

End(s) == Begin(s, Idle)

Exists(u) == user[u].st \in {"live", "deleted"}

Taken(phone) == \E u \in Users : user[u].phone = phone

CodesOf(u, purpose) == {k \in Codes : otp[k].u = u /\ otp[k].purpose = purpose}

\* Tokens that get_current_user lets through (until they expire).
Accepted(t) == token[t] # None /\ t \notin blacklist /\ Exists(token[t])

\* A registration that ends with its user stored but not subscribed has been cut.
CutIfRegistering(s) ==
    cut' = IF request[s].registering /\ request[s].u # None THEN cut \cup {request[s].u} ELSE cut

-----------------------------------------------------------------------------
(* Registration *)

\* Signups are open.  When they are closed an invitation is needed, and none is ever
\* stored: generate_and_send_invite raises an UnboundLocalError (see README).
RegisterOpen(s, phone) ==
    /\ At(s, "idle")
    /\ Begin(s, [Idle EXCEPT !.pc = "check", !.phone = phone, !.registering = TRUE])
    /\ UNCHANGED <<user, otp, tokens, cut>>

RegisterCheck(s) ==
    /\ At(s, "check")
    /\ ~Taken(request[s].phone)
    /\ Begin(s, [request[s] EXCEPT !.pc = "insert"])
    /\ UNCHANGED <<user, otp, tokens, cut>>

\* Slip: the constraint on the phone number is gone.
RegisterInsert_AnyPhone(s, u) ==
    /\ At(s, "insert")
    /\ user[u].st = "none"
    /\ user' = [user EXCEPT ![u] = [NoUser EXCEPT !.st = "live", !.phone = request[s].phone]]
    /\ Begin(s, [request[s] EXCEPT !.pc = "otp", !.u = u, !.phone = None])
    /\ UNCHANGED <<otp, tokens, cut>>

RegisterInsert(s, u) ==
    /\ At(s, "insert")
    /\ ~Taken(request[s].phone)
    /\ user[u].st = "none"
    /\ user' = [user EXCEPT ![u] = [NoUser EXCEPT !.st = "live", !.phone = request[s].phone]]
    /\ Begin(s, [request[s] EXCEPT !.pc = "otp", !.u = u, !.phone = None])
    /\ UNCHANGED <<otp, tokens, cut>>

\* 409 from the check, or the unique constraint on the phone number.
RegisterRefused(s) ==
    /\ request[s].pc \in {"check", "insert"}
    /\ Taken(request[s].phone)
    /\ End(s)
    /\ UNCHANGED <<user, otp, tokens, cut>>

\* The indefinite Basic subscription, last step of a registration.
Subscribe(s) ==
    LET u == request[s].u IN
    /\ At(s, "subscribe")
    /\ Exists(u)
    /\ user' = [user EXCEPT ![u].plan = TRUE]
    /\ End(s)
    /\ UNCHANGED <<otp, tokens, cut>>

-----------------------------------------------------------------------------
(* One-time codes *)

\* Slip: a code that has expired is left for a cleanup that does not exist.
OldCodes_Unexpired(u, purpose) == {k \in CodesOf(u, purpose) : otp[k].age < CodeLife}

OldCodes(u, purpose) == CodesOf(u, purpose)

\* The limit of 60 seconds is kept; the DELETE takes the rows it sees.
OtpDelete(s) ==
    LET u == request[s].u IN
    /\ At(s, "otp")
    /\ Exists(u)
    /\ \A k \in CodesOf(u, request[s].purpose) : otp[k].age > 0
    /\ Begin(s, [request[s] EXCEPT !.pc = "code", !.old = OldCodes(u, request[s].purpose)])
    /\ UNCHANGED <<user, otp, tokens, cut>>

\* 429: a registration ends here too, if another request was first with a code.
OtpTooSoon(s) ==
    /\ At(s, "otp")
    /\ \E k \in CodesOf(request[s].u, request[s].purpose) : otp[k].age = 0
    /\ CutIfRegistering(s)
    /\ End(s)
    /\ UNCHANGED <<user, otp, tokens>>

\* The code drawn is not one that is stored or being typed in.
Fresh(k) == otp[k].u = None /\ \A s \in Sessions : request[s].code # k

\* WhatsApp, then SMS if it fails, or a mail: the message may not arrive, which is only logged.
Arrives == BOOLEAN

OtpInsert(s, k, arrives) ==
    LET u == request[s].u
        purpose == request[s].purpose
    IN
    /\ At(s, "code")
    /\ Exists(u)
    /\ Fresh(k)
    /\ otp' = [j \in Codes |->
                  CASE j = k -> [u |-> u, purpose |-> purpose, age |-> 0, sent |-> arrives, by |-> s]
                    [] j # k /\ j \in request[s].old -> NoCode
                    [] OTHER -> otp[j]]
    /\ IF request[s].registering
       THEN Begin(s, [request[s] EXCEPT !.pc = "subscribe", !.old = {}])
       ELSE End(s)
    /\ UNCHANGED <<user, tokens, cut>>

\* Slip: only a complete registration may ask for another code.
ResendCode_Subscribed(u) == user[u].st = "live" /\ user[u].plan

\* Who may ask for a code: by the user or an administrator, on the login page, or with an
\* access token, which outlives a soft deletion.
ResendCode(u) == user[u].st = "live"

ForgotPassword(u) == user[u].st = "live"

LoginTwoFactor(u) == user[u].st = "live"

RequestEmailVerification(u) == Exists(u)

AskCode(s, u, purpose) ==
    /\ At(s, "idle")
    /\ CASE purpose = "registration" -> ResendCode(u)
         [] purpose = "password_reset" -> ForgotPassword(u)
         [] purpose = "2fa_login" -> LoginTwoFactor(u)
         [] purpose = "verify_email" -> RequestEmailVerification(u)
    /\ Begin(s, [Idle EXCEPT !.pc = "otp", !.u = u, !.purpose = purpose])
    /\ UNCHANGED <<user, otp, tokens, cut>>

\* The caller holds the token, good for ten minutes, of a login that asks for a second factor.
\* Deletes the codes, commits, and goes through the limit, which finds nothing recent.
ResendTwoFactor(s, u) ==
    /\ "2fa_login" \in Purposes
    /\ Exists(u)
    /\ otp' = [k \in Codes |-> IF k \in CodesOf(u, "2fa_login") THEN NoCode ELSE otp[k]]
    /\ At(s, "idle")
    /\ Begin(s, [Idle EXCEPT !.pc = "otp", !.u = u, !.purpose = "2fa_login"])
    /\ UNCHANGED <<user, tokens, cut>>

\* A code that arrived is typed in and found.
VerifyRead(s, k) ==
    /\ At(s, "idle")
    /\ otp[k].u # None
    /\ otp[k].sent
    /\ otp[k].age < CodeLife
    /\ otp[k].purpose \in {"registration", "password_reset"} => user[otp[k].u].st = "live"
    /\ Begin(s, [Idle EXCEPT !.pc = "verify", !.u = otp[k].u, !.purpose = otp[k].purpose, !.code = k])
    /\ UNCHANGED <<user, otp, tokens, cut>>

\* A new access token: JWTs of one user that are signed in the same second are equal, so t
\* may be one of u's.
Issue(u, t) ==
    /\ token[t] \in {None, u}
    /\ token' = [token EXCEPT ![t] = u]

\* What an accepted code changes in the user's row; the others change a password or an
\* address.
Verified(u, purpose) == [user[u] EXCEPT !.verified = @ \/ purpose = "registration"]

\* The code is deleted by primary key; that another request has deleted it already only
\* makes the ORM warn.  Verifying a phone or a second factor logs in.
VerifyCommit(s) ==
    LET u == request[s].u
        purpose == request[s].purpose
    IN
    /\ At(s, "verify")
    /\ Exists(u)
    /\ user' = [user EXCEPT ![u] = Verified(u, purpose)]
    /\ otp' = [otp EXCEPT ![request[s].code] = NoCode]
    /\ IF purpose \in {"registration", "2fa_login"}
       THEN \E t \in Tokens : Issue(u, t)
       ELSE token' = token
    /\ End(s)
    /\ UNCHANGED <<blacklist, loggedOut, cut>>

-----------------------------------------------------------------------------
(* Tokens *)

Login(u, t) ==
    /\ user[u].st = "live"
    /\ Issue(u, t)
    /\ UNCHANGED <<user, otp, blacklist, request, loggedOut, cut>>

\* The refresh token is good for a day; logging out does not end it.
Refresh(u, t) ==
    /\ Exists(u)
    /\ Issue(u, t)
    /\ UNCHANGED <<user, otp, blacklist, request, loggedOut, cut>>

Logout(t) ==
    /\ Accepted(t)
    /\ blacklist' = blacklist \cup {t}
    /\ loggedOut' = loggedOut \cup {t}
    /\ UNCHANGED <<user, otp, token, request, cut>>

-----------------------------------------------------------------------------
(* Changes of an account *)

\* The number is not verified again.
SetPhone(u, phone) ==
    /\ ~Taken(phone)
    /\ user' = [user EXCEPT ![u].phone = phone]

\* By the user (whose token outlives a soft deletion), or by an administrator.
ChangePhone(u, phone) ==
    /\ Exists(u)
    /\ SetPhone(u, phone)
    /\ UNCHANGED <<otp, tokens, request, cut>>

\* Slip: the tokens are forgotten although the user stays.
SoftDelete_TokensForgotten(u) ==
    /\ Exists(u)
    /\ user' = [user EXCEPT ![u].st = "deleted", ![u].phone = None]
    /\ blacklist' = {t \in blacklist : token[t] # u}
    /\ UNCHANGED <<otp, token, loggedOut, request, cut>>

\* Slip: the subscription is deleted although the user stays.
SoftDelete_Unsubscribed(u) ==
    /\ Exists(u)
    /\ user' = [user EXCEPT ![u].st = "deleted", ![u].phone = None, ![u].plan = FALSE]
    /\ UNCHANGED <<otp, tokens, request, cut>>

\* Slip: a state that no other operation knows.
SoftDelete_Archived(u) ==
    /\ Exists(u)
    /\ user' = [user EXCEPT ![u].st = "archived", ![u].phone = None]
    /\ UNCHANGED <<otp, tokens, request, cut>>

\* A user with groups or payments keeps the row, without its identity.
SoftDelete(u) ==
    /\ Exists(u)
    /\ user' = [user EXCEPT ![u].st = "deleted", ![u].phone = None]
    /\ UNCHANGED <<otp, tokens, request, cut>>

\* Any other user goes, with everything that refers to the row.
HardDelete(u) ==
    /\ Exists(u)
    /\ user' = [user EXCEPT ![u] = [NoUser EXCEPT !.st = "gone"]]
    /\ otp' = [k \in Codes |-> IF otp[k].u = u THEN NoCode ELSE otp[k]]
    /\ blacklist' = {t \in blacklist : token[t] # u}
    /\ UNCHANGED <<token, loggedOut, request, cut>>

-----------------------------------------------------------------------------
(* The specification *)

\* The process dies, or a statement fails because the user has gone.
Crash(s) ==
    /\ ~At(s, "idle")
    /\ CutIfRegistering(s)
    /\ End(s)
    /\ UNCHANGED <<user, otp, tokens>>

Tick ==
    /\ \E k \in Codes : otp[k].u # None /\ otp[k].age < CodeLife
    /\ otp' = [k \in Codes |->
                  IF otp[k].u # None /\ otp[k].age < CodeLife
                  THEN [otp[k] EXCEPT !.age = @ + 1] ELSE otp[k]]
    /\ UNCHANGED <<user, tokens, request, cut>>

Init ==
    /\ user = [u \in Users |-> NoUser]
    /\ otp = [k \in Codes |-> NoCode]
    /\ token = [t \in Tokens |-> None]
    /\ blacklist = {}
    /\ request = [s \in Sessions |-> Idle]
    /\ loggedOut = {}
    /\ cut = {}

Start(s) ==
    \/ \E phone \in Phones : RegisterOpen(s, phone)
    \/ \E u \in Users : ResendTwoFactor(s, u) \/ \E purpose \in Purposes : AskCode(s, u, purpose)
    \/ \E k \in Codes : VerifyRead(s, k)

Continue(s) ==
    \/ RegisterCheck(s) \/ RegisterRefused(s)
    \/ \E u \in Users : RegisterInsert(s, u)
    \/ OtpDelete(s) \/ OtpTooSoon(s)
    \/ \E k \in Codes, arrives \in Arrives : OtpInsert(s, k, arrives)
    \/ Subscribe(s)
    \/ VerifyCommit(s)

Next ==
    \/ \E s \in Sessions : Start(s) \/ Continue(s) \/ Crash(s)
    \/ \E u \in Users, t \in Tokens : Login(u, t) \/ Refresh(u, t)
    \/ \E t \in Tokens : Logout(t)
    \/ \E u \in Users : \/ SoftDelete(u) \/ HardDelete(u)
                        \/ \E phone \in Phones : ChangePhone(u, phone)
    \/ Tick

Spec == Init /\ [][Next]_vars

-----------------------------------------------------------------------------
(* Properties *)

\* Rows, requests and history hold what their declarations allow.
TypeOK ==
    /\ user \in [Users -> UserRow]
    /\ otp \in [Codes -> CodeRow]
    /\ token \in [Tokens -> Users \cup {None}]
    /\ blacklist \subseteq Tokens
    /\ request \in [Sessions -> Request]
    /\ loggedOut \subseteq Tokens
    /\ cut \subseteq Users

\* Two accounts in use never have the same number, by which the gateway finds the
\* treasurer, whatever registrations, changes of number and deletions overlap.
NumberIsOwned ==
    \A u, v \in Users : u # v /\ user[u].phone # None => user[u].phone # user[v].phone

\* Storing a code deletes the older ones, but not those of requests that overlap: a user has
\* no more codes of a purpose than there are processes, each from a different one.
CodesBounded ==
    \A j, k \in Codes :
        /\ j # k
        /\ otp[j].u # None /\ otp[j].u = otp[k].u
        /\ otp[j].purpose = otp[k].purpose
        => otp[j].by # otp[k].by

\* A user without a subscription is in the middle of the registration, or the registration
\* was cut: by a crash, or by a code that was requested meanwhile.
UnsubscribedIsCut ==
    \A u \in Users :
        Exists(u) /\ ~user[u].plan =>
            u \in cut \/ \E s \in Sessions : request[s].u = u /\ request[s].registering

\* A token that was logged out opens nothing again, not even when its user is deleted and
\* the blacklist is cleared of it.
LoggedOutStaysOut == \A t \in loggedOut : ~Accepted(t)

-----------------------------------------------------------------------------
(* Liveness *)

ForPhone(s, u) == request[s].u = u /\ request[s].purpose = "registration"

\* Requests end; a user who is not verified keeps asking for a code, some message arrives,
\* and some request is not cut off.
FairSpec ==
    /\ Spec
    /\ WF_vars(Tick)
    /\ \A s \in Sessions : WF_vars(Continue(s) \/ Crash(s))
    /\ \A u \in Users :
          /\ SF_vars(\E s \in Sessions : ~user[u].verified /\ AskCode(s, u, "registration"))
          /\ SF_vars(\E s \in Sessions : ForPhone(s, u) /\ OtpDelete(s))
          /\ SF_vars(\E s \in Sessions, k \in Codes : ForPhone(s, u) /\ OtpInsert(s, k, TRUE))
          /\ SF_vars(\E s \in Sessions, k \in CodesOf(u, "registration") : VerifyRead(s, k))
          /\ SF_vars(\E s \in Sessions : ForPhone(s, u) /\ VerifyCommit(s))

\* Whoever has registered and keeps asking gets verified, even if the registration was cut
\* and registering again is refused, and although the limit of 60 seconds turns requests away.
RegistrantGetsIn == \A u \in Users : user[u].st = "live" ~> user[u].verified \/ user[u].st # "live"

=============================================================================
