------------------------------ MODULE Accounts ------------------------------
(***************************************************************************)
(* One business, its users, their passwords and tokens, and the deletion   *)
(* of the business after a grace period (auth).                            *)
(*                                                                         *)
(* A login reads the user and the business, spends a while comparing the   *)
(* password, and then acts on what it read.  A request is let in by        *)
(* get_current_active_user() and acts later; the business it looks at is   *)
(* the one loaded when it was let in.  The purge job selects and writes in *)
(* two steps.  Everything else is one step.                                *)
(*                                                                         *)
(* Abstractions: a password is the number of times it was set; tokens      *)
(* issued alike at the same instant are one; names, audit rows, e-mails    *)
(* and rate limits are left out.                                           *)
(***************************************************************************)
EXTENDS Naturals, FiniteSets

CONSTANTS
    Owner, Others,      \* users
    SeatLimit,          \* _TIER_SEAT_LIMITS of its tier
    Threshold,          \* LOCKOUT_THRESHOLD
    Lock, Access, Refresh, Reset, Verify, Grace,  \* lifetimes
    Sessions,
    MaxTime, MaxRequests, MaxPassword             \* bounds

Users == {Owner} \cup Others
Roles == {"OWNER", "ADMIN", "SALES_MANAGER"}

ASSUME AccountsAssumption ==
    /\ Owner \notin Others /\ IsFiniteSet(Others)
    /\ {SeatLimit, Threshold, Lock, Access, Refresh, Reset, Verify, Grace}
         \subseteq Nat \ {0}

VARIABLES
    now,
    business,   \* [scheduled, purgeAt, purged]
    user,       \* user -> his row
    refresh,    \* refresh tokens neither deleted, revoked nor expired
    access,     \* access tokens neither on the deny list nor expired
    mails,      \* reset and verification tokens neither used nor expired
    session,    \* session -> the request it serves
    purging,    \* what the purge job selected
    requests,
    late,       \* a request took effect after its sender had lost the right
    disturbed   \* a request was under way while the job purged

vars == <<now, business, user, refresh, access, mails, session, purging, requests,
          late, disturbed>>

NoRequest == [op |-> "none"]
NoPurge   == [open |-> FALSE, users |-> {}]

Row(role, verified) ==
    [there |-> TRUE, role |-> role, active |-> TRUE, verified |-> verified,
     attempts |-> 0, lockedUntil |-> 0, password |-> 1, erased |-> FALSE]

NewRefresh(u, password, raced) ==
    [user |-> u, password |-> password, expires |-> now + Refresh, raced |-> raced]
NewAccess(u)  == [user |-> u, expires |-> now + Access]

\* A business just created by create_business_and_owner(), or one with a team
\* of any size whose members are logged in.
Init ==
    /\ now = 1
    /\ business = [scheduled |-> FALSE, purgeAt |-> 0, purged |-> FALSE]
    /\ \E verified \in BOOLEAN, team \in SUBSET Others,
          role \in [Others -> Roles \ {"OWNER"}] :
         /\ verified \/ team = {}
         /\ Cardinality(team) < SeatLimit
         /\ user = [u \in Users |->
                      IF u = Owner THEN Row("OWNER", verified)
                      ELSE [Row(role[u], TRUE) EXCEPT !.there = u \in team]]
         /\ mails = IF verified THEN {}
                    ELSE {[kind |-> "verify", user |-> Owner, expires |-> now + Verify]}
         /\ refresh = {NewRefresh(u, 1, FALSE) : u \in {v \in Users : verified /\ user[v].there}}
         /\ access = {NewAccess(k.user) : k \in refresh}
    /\ session = [t \in Sessions |-> NoRequest]
    /\ purging = NoPurge
    /\ requests = 0 /\ late = FALSE /\ disturbed = FALSE

Unassigned(t) == session[t] = NoRequest
End(t)  == session' = [session EXCEPT ![t] = NoRequest]

------------------------------------------------------------------------------
(* Logging in                                                              *)

\* The first half of authenticate_user(): the user as loaded, unless locked.
LoginRead(t, u, right) ==
    /\ Unassigned(t) /\ requests < MaxRequests
    /\ user[u].there /\ ~user[u].erased
    /\ user[u].lockedUntil <= now
    /\ session' = [session EXCEPT ![t] =
                     [op |-> "login", user |-> u, right |-> right, at |-> now,
                      row |-> user[u], scheduled |-> business.scheduled]]
    /\ requests' = requests + 1
    /\ UNCHANGED <<now, business, user, refresh, access, mails, purging, late, disturbed>>

\* The count is written back from the row that was read, in its own session.
LoginFails(t) ==
    LET s == session[t] IN
    /\ s.op = "login" /\ ~s.right
    /\ user' = [user EXCEPT ![s.user].attempts = s.row.attempts + 1,
                            ![s.user].lockedUntil =
                               IF s.row.attempts + 1 >= Threshold
                               THEN s.at + Lock ELSE s.row.lockedUntil]
    /\ End(t)
    /\ UNCHANGED <<now, business, refresh, access, mails, purging, requests, late, disturbed>>

LoginRefused(t) ==
    /\ session[t].op = "login" /\ session[t].right
    /\ ~session[t].row.verified \/ session[t].scheduled
    /\ End(t)
    /\ UNCHANGED <<now, business, user, refresh, access, mails, purging, requests,
                   late, disturbed>>

\* Only columns that differ from the loaded row are written.
LoginSucceeds(t) ==
    LET s == session[t] IN
    /\ s.op = "login" /\ s.right /\ s.row.verified /\ ~s.scheduled
    /\ user' = [user EXCEPT
                  ![s.user].attempts    = IF s.row.attempts = 0 THEN @ ELSE 0,
                  ![s.user].lockedUntil = IF s.row.lockedUntil = 0 THEN @ ELSE 0]
    /\ refresh' = refresh \cup
         {NewRefresh(s.user, s.row.password,
                     s.row.password # user[s.user].password \/ business.scheduled)}
    /\ access' = access \cup {NewAccess(s.user)}
    /\ End(t)
    /\ UNCHANGED <<now, business, mails, purging, requests, late, disturbed>>

\* refresh_access_token() looks at nothing but the token.
RefreshAccess ==
    \E k \in refresh :
        /\ access' = access \cup {NewAccess(k.user)}
        /\ UNCHANGED <<now, business, user, refresh, mails, session, purging, requests,
                       late, disturbed>>

\* Both tokens of a browser; if the deny list cannot be reached, the request
\* fails and is rolled back.
Logout ==
    \E a \in access, k \in refresh :
        /\ a.user = k.user
        /\ access' = access \ {a} /\ refresh' = refresh \ {k}
        /\ UNCHANGED <<now, business, user, mails, session, purging, requests, late, disturbed>>

------------------------------------------------------------------------------
(* Passwords and e-mail addresses                                          *)

Mail(kind, u, life) ==
    /\ requests < MaxRequests /\ requests' = requests + 1
    /\ mails' = mails \cup {[kind |-> kind, user |-> u, expires |-> now + life]}
    /\ UNCHANGED <<now, business, user, refresh, access, session, purging, late, disturbed>>

\* generate_password_reset_token() and resend_verification_email(): for
\* whoever asks, active or not, scheduled or not.
AskForMail(u) ==
    /\ user[u].there /\ ~user[u].erased
    /\ Mail("reset", u, Reset) \/ (~user[u].verified /\ Mail("verify", u, Verify))

TokensOfBugKept(u) == {}
TokensOf(u) == {k \in refresh : k.user = u}

ResetPassword ==
    \E m \in mails :
        /\ m.kind = "reset"
        /\ user[m.user].password < MaxPassword
        /\ user' = [user EXCEPT ![m.user].password = @ + 1]
        /\ refresh' = refresh \ TokensOf(m.user)
        /\ mails' = mails \ {m}
        /\ UNCHANGED <<now, business, access, session, purging, requests, late, disturbed>>

VerifyEmail ==
    \E m \in mails :
        /\ m.kind = "verify"
        /\ user' = [user EXCEPT ![m.user].verified = TRUE]
        /\ mails' = mails \ {m}
        /\ UNCHANGED <<now, business, refresh, access, session, purging, requests,
                       late, disturbed>>

------------------------------------------------------------------------------
(* Requests of the team                                                    *)

\* get_current_active_user()
Entitled(u) == user[u].active /\ (user[u].role = "OWNER" \/ ~business.scheduled)
HasAccess(u) == \E a \in access : a.user = u

OwnerOps == {"close", "cancel"}
AdminOps == {"deactivate", "activate", "promote", "demote", "unlock", "mail", "invite"}
MayBugAnyRole(u, op) == Entitled(u)
May(u, op) ==
    /\ Entitled(u)
    /\ user[u].role = "OWNER" \/ (op \in AdminOps /\ user[u].role = "ADMIN")

Send(t, u, op, target) ==
    /\ Unassigned(t) /\ requests < MaxRequests
    /\ HasAccess(u) /\ May(u, op)
    /\ op \in OwnerOps => target = u
    /\ session' = [session EXCEPT ![t] =
                     [op |-> op, user |-> u, target |-> target, business |-> business]]
    /\ requests' = requests + 1
    /\ UNCHANGED <<now, business, user, refresh, access, mails, purging, late, disturbed>>

Act(t, op) ==
    /\ session[t].op = op
    /\ End(t)
    /\ late' = (late \/ ~May(session[t].user, op))
    /\ disturbed' = (disturbed \/ purging.open)
    /\ UNCHANGED <<now, access, purging, requests>>

Refuse(t) ==
    /\ session[t].op \in OwnerOps \cup AdminOps
    /\ End(t)
    /\ UNCHANGED <<now, business, user, refresh, access, mails, purging, requests,
                   late, disturbed>>

\* CannotModifySelfError
OthersRow(t) == session[t].target # session[t].user /\ user[session[t].target].there

\* deactivate_user(); update_user(is_active = False) leaves the tokens.
DeactivateUser(t) ==
    LET u == session[t].target IN
    /\ Act(t, "deactivate")
    /\ OthersRow(t)
    /\ user' = [user EXCEPT ![u].active = FALSE]
    /\ refresh' \in {refresh, refresh \ TokensOf(u)}
    /\ UNCHANGED <<business, mails>>

\* activate_user() does not count seats.
Activate(t) ==
    /\ Act(t, "activate")
    /\ user[session[t].target].there
    /\ user' = [user EXCEPT ![session[t].target].active = TRUE]
    /\ UNCHANGED <<business, refresh, mails>>

ChangeRoleBugSelf(t, op, role) ==
    /\ Act(t, op)
    /\ user' = [user EXCEPT ![session[t].target].role = role]
    /\ UNCHANGED <<business, refresh, mails>>

\* update_user(): an owner may become an admin or a sales manager as well.
ChangeRole(t, op, role) ==
    /\ Act(t, op)
    /\ OthersRow(t)
    /\ user' = [user EXCEPT ![session[t].target].role = role]
    /\ UNCHANGED <<business, refresh, mails>>

Unlock(t) ==
    /\ Act(t, "unlock")
    /\ user' = [user EXCEPT ![session[t].target].attempts = 0,
                            ![session[t].target].lockedUntil = 0]
    /\ UNCHANGED <<business, refresh, mails>>

\* admin_reset_user_password() mails a reset token.
AdminMail(t) ==
    /\ Act(t, "mail")
    /\ mails' = mails \cup {[kind |-> "reset", user |-> session[t].target,
                             expires |-> now + Reset]}
    /\ UNCHANGED <<business, user, refresh>>

ActiveUsers == {u \in Users : user[u].there /\ user[u].active}
Invite(t) ==
    LET u == session[t].target IN
    /\ Act(t, "invite")
    /\ ~user[u].there /\ Cardinality(ActiveUsers) < SeatLimit
    /\ user' = [user EXCEPT ![u].there = TRUE]
    /\ UNCHANGED <<business, refresh, mails>>

CloseBugUndated(t) ==
    /\ Act(t, "close")
    /\ ~session[t].business.scheduled
    /\ business' = [business EXCEPT !.scheduled = TRUE]
    /\ refresh' = refresh \ UNION {TokensOf(u) : u \in Users}
    /\ UNCHANGED <<user, mails>>

\* request_business_deletion(): checks the business as it was let in with.
Close(t) ==
    /\ Act(t, "close")
    /\ ~session[t].business.scheduled
    /\ now + Grace <= MaxTime
    /\ business' = [business EXCEPT !.scheduled = TRUE, !.purgeAt = now + Grace]
    /\ refresh' = refresh \ UNION {TokensOf(u) : u \in Users}
    /\ UNCHANGED <<user, mails>>

CancelDeletion(t) ==
    /\ Act(t, "cancel")
    /\ session[t].business.scheduled /\ ~session[t].business.purged
    /\ business' = [business EXCEPT !.scheduled = FALSE, !.purgeAt = 0]
    /\ UNCHANGED <<user, refresh, mails>>

------------------------------------------------------------------------------
(* The daily purge                                                         *)

DueBugEarly == business.scheduled /\ ~business.purged
Due ==
    /\ business.scheduled /\ ~business.purged
    /\ business.purgeAt # 0 /\ business.purgeAt <= now

InFlight == \E t \in Sessions : ~Unassigned(t)

SelectDue ==
    /\ ~purging.open /\ Due
    /\ purging' = [open |-> TRUE, users |-> {u \in Users : user[u].there}]
    /\ disturbed' = (disturbed \/ InFlight)
    /\ UNCHANGED <<now, business, user, refresh, access, mails, session, requests, late>>

PurgedRowBugActive(row) == [row EXCEPT !.erased = TRUE, !.password = 0]
PurgedRow(row) == [row EXCEPT !.erased = TRUE, !.password = 0, !.active = FALSE]

Purge ==
    /\ purging.open
    /\ business' = [business EXCEPT !.purged = TRUE]
    /\ user' = [u \in Users |->
                  IF u \in purging.users THEN PurgedRow(user[u]) ELSE user[u]]
    /\ purging' = NoPurge
    /\ disturbed' = (disturbed \/ InFlight)
    /\ UNCHANGED <<now, refresh, access, mails, session, requests, late>>

\* Tokens that have expired are forgotten.
Tick ==
    /\ now < MaxTime /\ now' = now + 1
    /\ refresh' = {k \in refresh : k.expires >= now'}
    /\ mails' = {m \in mails : m.expires >= now'}
    /\ access' = {a \in access : a.expires > now'}
    /\ UNCHANGED <<business, user, session, purging, requests, late, disturbed>>

------------------------------------------------------------------------------
LoginStep(t) == LoginFails(t) \/ LoginRefused(t) \/ LoginSucceeds(t)
RequestStep(t) ==
    \/ DeactivateUser(t) \/ Activate(t) \/ Unlock(t) \/ AdminMail(t) \/ Invite(t)
    \/ ChangeRole(t, "promote", "ADMIN") \/ ChangeRole(t, "demote", "SALES_MANAGER")
    \/ Close(t) \/ CancelDeletion(t) \/ Refuse(t)

Next ==
    \/ \E t \in Sessions :
          \/ \E u \in Users, right \in BOOLEAN : LoginRead(t, u, right)
          \/ \E u, v \in Users, op \in OwnerOps \cup AdminOps : Send(t, u, op, v)
          \/ LoginStep(t) \/ RequestStep(t)
    \/ \E u \in Users : AskForMail(u)
    \/ RefreshAccess \/ Logout \/ ResetPassword \/ VerifyEmail
    \/ SelectDue \/ Purge \/ Tick

Spec == Init /\ [][Next]_vars

\* The job runs every day, and days pass.
FairSpec == Spec /\ WF_vars(SelectDue) /\ WF_vars(Purge) /\ WF_vars(Tick)

------------------------------------------------------------------------------
\* A refresh token that works was issued under the current password and to a
\* business that is not closing, unless the login it came from had read the user
\* before the password or the business changed, or the business was purged after
\* a cancellation that was under way while the job ran.
RefreshTokensCurrent ==
    ~disturbed => \A k \in refresh : ~k.raced =>
        k.password = user[k.user].password /\ ~business.scheduled

\* Nobody can lock the team out: a business always has an active owner or
\* admin, and one that is closing an active owner who may still cancel, unless
\* a request took effect after its sender had lost the right to send it.
SomeoneInCharge ==
    ~late /\ ~business.purged =>
        /\ \E u \in ActiveUsers : user[u].role \in {"OWNER", "ADMIN"}
        /\ business.scheduled => \E u \in ActiveUsers : user[u].role = "OWNER"

\* A purge is final: no request brings the business or one of its users back,
\* unless it was under way while the job ran.
PurgeFinal ==
    business.purged /\ ~disturbed => business.scheduled /\ ActiveUsers = {}

\* The job purges a business only when its grace period is over and nobody
\* cancelled, unless the cancellation was under way while the job ran.
PurgeOnlyWhenDue ==
    [][business'.purged /\ ~business.purged /\ ~disturbed' =>
         business.scheduled /\ business.purgeAt <= now]_vars

\* A deletion that was asked for is cancelled or carried out.
DeletionEnds == business.scheduled ~> (business.purged \/ ~business.scheduled)

(* What the code's documentation says and these steps do not keep.         *)

\* The owner "can still reach the cancel-deletion endpoint (...) during the
\* grace period".
CanLogIn(u) ==
    user[u].verified /\ ~user[u].erased /\ ~business.scheduled
OwnerCanCancel ==
    business.scheduled /\ now < business.purgeAt /\ ~late =>
        \E u \in ActiveUsers :
            /\ user[u].role = "OWNER"
            /\ \/ HasAccess(u) \/ CanLogIn(u)
               \/ \E k \in refresh : k.user = u

=============================================================================
