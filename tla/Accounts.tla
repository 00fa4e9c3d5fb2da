------------------------------- MODULE Accounts -------------------------------
(***************************************************************************)
(* Accounts, login codes and sessions: the routes of                       *)
(* apps/api/.../auth.py and the user administration of admin.py over the   *)
(* tables app_users, auth_challenges and auth_sessions.  A request is a    *)
(* thread of the API inside one database transaction; what it reads before *)
(* its commit may be stale unless it holds the lock of the row, and what   *)
(* it writes is seen by nobody before that.  A request that fails is       *)
(* rolled back.                                                            *)
(*                                                                         *)
(* An account is named by its address.  The clock is left out: a code or a *)
(* session that expires, by its date or because it was idle, leaves its    *)
(* table, since every reader treats an expired row as no row.  The request *)
(* limits, the cookies and the origin of a request only refuse it.         *)
(***************************************************************************)
EXTENDS Naturals, FiniteSets

CONSTANTS
    Emails,         \* addresses
    Provisioned,    \* accounts created as administrators by the migrations
    Requests,       \* requests the API serves at a time
    None,
    MaxAttempts,    \* MAX_ATTEMPTS
    CodeIds,        \* bound: challenge identifiers in use at a time
    MaxSessions     \* bound: sessions open at a time

VARIABLES
    users,      \* app_users by address, or None
    codes,      \* auth_challenges by address, or None
    sessions,   \* auth_sessions that have not expired
    req,        \* what each request of the API is doing
    mailed,     \* codes the SMTP server has accepted
    answers     \* for each code, how many attempts got an answer

vars == <<users, codes, sessions, req, mailed, answers>>

-----------------------------------------------------------------------------
User    == [role : {"user", "admin"}, disabled : BOOLEAN, verified : BOOLEAN]
Code    == [id : CodeIds, attempts : 0..MaxAttempts]
Session == [user : Emails, code : CodeIds,
            role : {"user", "admin"}]      \* the role its response announced

ASSUME AccountsAssumption ==
    /\ Provisioned \subseteq Emails
    /\ Provisioned # {}
    /\ MaxAttempts \in Nat \ {0}
    /\ MaxSessions \in Nat
    /\ None \notin User
    /\ None \notin Code

Idle == [phase |-> "idle"]

Sending   == [phase : {"sending", "sent"}, email : Emails, id : CodeIds]
Comparing == [phase : {"compared"}, email : Emails, code : Code, right : BOOLEAN]
Entering  == [phase : {"entering"}, email : Emails, code : Code, user : User \cup {None}]
Admitted  == [phase : {"admin"}, actor : Emails]
Editing   == [phase : {"editing"}, actor : Emails, email : Emails, before : User,
              role : {"user", "admin"}, disabled : BOOLEAN]
Request   == {Idle} \cup Sending \cup Comparing \cup Entering \cup Admitted \cup Editing

TypeOK ==
    /\ users \in [Emails -> User \cup {None}]
    /\ codes \in [Emails -> Code \cup {None}]
    /\ sessions \subseteq Session
    /\ req \in [Requests -> Request]
    /\ mailed \subseteq CodeIds
    /\ answers \in [CodeIds -> Nat]

-----------------------------------------------------------------------------
(* Locks.  A request holds the locks its phase stands for until it commits  *)
(* or is rolled back.                                                       *)

In(phases) == {r \in Requests : req[r].phase \in phases}

\* pg_advisory_xact_lock(email-lock:e)
AddressFree(e) == \A r \in In({"sending", "sent"}) : req[r].email # e

\* Mutated form: the challenge is read without FOR UPDATE.
CodeUnlocked(e) == TRUE

\* The row of auth_challenges for e is not locked.
CodeFree(e) ==
    \A r \in In({"sending", "sent", "compared", "entering"}) : req[r].email # e

\* Mutated form: verify_code and update_user read the account without FOR UPDATE.
UserUnlocked(e) == TRUE

\* The row of app_users for e is not locked.
UserFree(e) == \A r \in In({"entering", "editing"}) : req[r].email # e

\* Mutated form: administration is not serialised.
AdministrationUnlocked == TRUE

\* pg_advisory_xact_lock(62883201)
AdministrationFree == In({"admin", "editing"}) = {}

Proceed(r, step) == req' = [req EXCEPT ![r] = step]
Finish(r) == Proceed(r, Idle)

-----------------------------------------------------------------------------
(* POST /request-code.                                                      *)

\* uuid4(): an identifier nothing refers to.
CodesInUse ==
    {codes[e].id : e \in {d \in Emails : codes[d] # None}}
        \cup {req[r].id : r \in In({"sending", "sent"})}
        \cup {req[r].code.id : r \in In({"compared", "entering"})}
        \cup {s.code : s \in sessions}

\* The old code of the address is deleted and a new one inserted, neither yet
\* committed; the email is being sent.
RequestCode(r, e) ==
    /\ req[r] = Idle
    /\ AddressFree(e)
    /\ CodeFree(e)
    /\ \E id \in CodeIds \ CodesInUse :
        /\ Proceed(r, [phase |-> "sending", email |-> e, id |-> id])
        /\ mailed' = mailed \ {id}
        /\ answers' = [answers EXCEPT ![id] = 0]
    /\ UNCHANGED <<users, codes, sessions>>

CodeSent(r) ==
    /\ req[r].phase = "sending"
    /\ mailed' = mailed \cup {req[r].id}
    /\ Proceed(r, [req[r] EXCEPT !.phase = "sent"])
    /\ UNCHANGED <<users, codes, sessions, answers>>

NewCode(r) == [codes EXCEPT ![req[r].email] = [id |-> req[r].id, attempts |-> 0]]

CommitCode(r) ==
    /\ req[r].phase = "sent"
    /\ codes' = NewCode(r)
    /\ Finish(r)
    /\ UNCHANGED <<users, sessions, mailed, answers>>

\* What a failed delivery leaves: the session is rolled back, the old code stays.
RolledBack(r) == codes

\* OSError or SMTPException.
SmtpFails(r) ==
    /\ req[r].phase = "sending"
    /\ codes' = RolledBack(r)
    /\ Finish(r)
    /\ UNCHANGED <<users, sessions, mailed, answers>>

-----------------------------------------------------------------------------
(* POST /verify-code.                                                       *)

TriesLeft(e) == codes[e].attempts < MaxAttempts

\* The challenge is locked, read, and the code compared.
CompareCode(r, e) ==
    /\ req[r] = Idle
    /\ codes[e] # None
    /\ CodeFree(e)
    /\ TriesLeft(e)
    /\ \E right \in BOOLEAN :
        Proceed(r, [phase |-> "compared", email |-> e, code |-> codes[e], right |-> right])
    /\ UNCHANGED <<users, codes, sessions, mailed, answers>>

Answered(r) == [answers EXCEPT ![req[r].code.id] = @ + 1]

\* UPDATE auth_challenges SET attempts = (the value read) + 1 WHERE id = ...
WrongCode(r) ==
    LET e == req[r].email
        c == req[r].code
    IN  /\ req[r].phase = "compared"
        /\ ~req[r].right
        /\ codes' = IF codes[e] # None /\ codes[e].id = c.id
                    THEN [codes EXCEPT ![e].attempts = c.attempts + 1] ELSE codes
        /\ answers' = Answered(r)
        /\ Finish(r)
        /\ UNCHANGED <<users, sessions, mailed>>

\* The account of the address, if there is one, is locked and read.
FindAccount(r) ==
    LET e == req[r].email
    IN  /\ req[r].phase = "compared"
        /\ req[r].right
        /\ UserFree(e)
        /\ Proceed(r, [phase |-> "entering", email |-> e, code |-> req[r].code,
                       user |-> users[e]])
        /\ UNCHANGED <<users, codes, sessions, mailed, answers>>

\* Mutated form: the code is not consumed.
CodeKept(e) == codes

CodeConsumed(e) == [codes EXCEPT ![e] = None]

\* The account found is suspended: the code is consumed all the same.
RefuseSuspended(r) ==
    /\ req[r].phase = "entering"
    /\ req[r].user # None
    /\ req[r].user.disabled
    /\ codes' = CodeConsumed(req[r].email)
    /\ answers' = Answered(r)
    /\ Finish(r)
    /\ UNCHANGED <<users, sessions, mailed>>

\* Registration or login: account, rotation of the session the browser had, new
\* session and consumption of the code in one commit.
OpenSession(r) ==
    LET e     == req[r].email
        known == req[r].user
        role  == IF known = None THEN "user" ELSE known.role
    IN  /\ req[r].phase = "entering"
        /\ known # None => ~known.disabled
        /\ Cardinality(sessions) < MaxSessions
        /\ users' = IF known = None
                    THEN [users EXCEPT ![e] =
                            [role |-> "user", disabled |-> FALSE, verified |-> TRUE]]
                    ELSE [users EXCEPT ![e].verified = TRUE]
        /\ \E rotated \in {{}} \cup {{s} : s \in sessions} :
            sessions' = (sessions \ rotated) \cup
                {[user |-> e, code |-> req[r].code.id, role |-> role]}
        /\ codes' = CodeConsumed(e)
        /\ answers' = Answered(r)
        /\ Finish(r)
        /\ UNCHANGED mailed

-----------------------------------------------------------------------------
(* Sessions.                                                                *)

\* POST /logout, or the session expires.
Logout(s) ==
    /\ sessions' = sessions \ {s}
    /\ UNCHANGED <<users, codes, req, mailed, answers>>

CodeExpires(e) ==
    /\ codes[e] # None
    /\ CodeFree(e)
    /\ codes' = CodeConsumed(e)
    /\ UNCHANGED <<users, sessions, req, mailed, answers>>

-----------------------------------------------------------------------------
(* User administration.                                                     *)

\* The writes of administrators are serialised, the check of the actor included.
Admit(r, s) ==
    /\ req[r] = Idle
    /\ AdministrationFree
    /\ users[s.user] # None
    /\ users[s.user].verified
    /\ ~users[s.user].disabled
    /\ users[s.user].role = "admin"
    /\ Proceed(r, [phase |-> "admin", actor |-> s.user])
    /\ UNCHANGED <<users, codes, sessions, mailed, answers>>

ActiveAdmins == {e \in Emails : users[e] # None /\ users[e].role = "admin"
                                                /\ ~users[e].disabled}

\* PATCH /users/{id}: the account is locked and read, and the change refused if it
\* would remove the actor's own access or the last active administrator.
EditUser(r, e) ==
    /\ req[r].phase = "admin"
    /\ users[e] # None
    /\ UserFree(e)
    /\ \E role \in {"user", "admin"}, disabled \in BOOLEAN :
        LET removed == disabled \/ role # "admin"
        IN  /\ e = req[r].actor => ~removed
            /\ e \in ActiveAdmins /\ removed => Cardinality(ActiveAdmins) > 1
            /\ Proceed(r, [phase |-> "editing", actor |-> req[r].actor, email |-> e,
                           before |-> users[e], role |-> role, disabled |-> disabled])
    /\ UNCHANGED <<users, codes, sessions, mailed, answers>>

Changed(r) == req[r].before.role # req[r].role \/ req[r].before.disabled # req[r].disabled

SessionsOf(e) == {s \in sessions : s.user = e}

CommitUser(r) ==
    LET e == req[r].email
    IN  /\ req[r].phase = "editing"
        /\ users' = [users EXCEPT ![e].role = req[r].role, ![e].disabled = req[r].disabled]
        /\ sessions' = IF Changed(r) THEN sessions \ SessionsOf(e) ELSE sessions
        /\ Finish(r)
        /\ UNCHANGED <<codes, mailed, answers>>

\* POST /users/{id}/revoke-sessions
Revoke(r, e) ==
    /\ req[r].phase = "admin"
    /\ users[e] # None
    /\ sessions' = sessions \ SessionsOf(e)
    /\ Finish(r)
    /\ UNCHANGED <<users, codes, mailed, answers>>

-----------------------------------------------------------------------------
\* The request is refused after it took a lock, its database statement fails or
\* the API dies: nothing of it is kept.
Abandon(r) ==
    /\ req[r] # Idle
    /\ Finish(r)
    /\ UNCHANGED <<users, codes, sessions, mailed, answers>>

Init ==
    /\ users = [e \in Emails |->
            IF e \in Provisioned
            THEN [role |-> "admin", disabled |-> FALSE, verified |-> FALSE] ELSE None]
    /\ codes = [e \in Emails |-> None]
    /\ sessions = {}
    /\ req = [r \in Requests |-> Idle]
    /\ mailed = {}
    /\ answers = [c \in CodeIds |-> 0]

Login(r) ==
    \/ \E e \in Emails : RequestCode(r, e) \/ CompareCode(r, e)
    \/ CodeSent(r) \/ CommitCode(r) \/ SmtpFails(r)
    \/ WrongCode(r) \/ FindAccount(r) \/ RefuseSuspended(r) \/ OpenSession(r)

Administer(r) ==
    \/ \E s \in sessions : Admit(r, s)
    \/ \E e \in Emails : EditUser(r, e) \/ Revoke(r, e)
    \/ CommitUser(r)

Next ==
    \/ \E r \in Requests : Login(r) \/ Administer(r) \/ Abandon(r)
    \/ \E s \in sessions : Logout(s)
    \/ \E e \in Emails : CodeExpires(e)

Spec == Init /\ [][Next]_vars

-----------------------------------------------------------------------------
(* Safety.                                                                  *)

\* There is always an administrator who is not suspended, whatever administrators
\* do to each other at the same time.
ActiveAdminRemains == ActiveAdmins # {}

\* A suspended account has no session, even one whose login was under way when the
\* account was suspended.
SuspendedHasNoSession ==
    \A s \in sessions : users[s.user] # None /\ ~users[s.user].disabled

\* The role a login announced to the browser is still the role of the account as
\* long as the session lives: every change of role closes the sessions of before.
AnnouncedRoleIsCurrent == \A s \in sessions : s.role = users[s.user].role

\* No more than MAX_ATTEMPTS answers are given about one code, however many
\* requests try it at the same time.
AnswersAreBounded == \A c \in CodeIds : answers[c] <= MaxAttempts

\* A code whose email was not accepted is never saved: while a delivery fails, the
\* code the address received before stays the one that works.
SavedCodeWasMailed == \A e \in Emails : codes[e] # None => codes[e].id \in mailed

\* A session is opened by the code its address has at that moment, and the code
\* opens nothing else afterwards.
CodeOpensOnce ==
    [][\A s \in sessions' \ sessions :
        /\ codes[s.user] # None /\ codes[s.user].id = s.code
        /\ codes'[s.user] = None]_vars

Serial == INSTANCE SerialAccounts

\* Requests served at the same time leave in the tables what they would have left one
\* after the other, each in one step and by the rules of its route.
ImplementsSerial == Serial!Spec

\* A code that is saved was mailed and gets no more answers than it may.
CodesAreSound == AnswersAreBounded /\ SavedCodeWasMailed

\* Every session is one its account may have, with the role it has.
SessionsAreCurrent == SuspendedHasNoSession /\ AnnouncedRoleIsCurrent

-----------------------------------------------------------------------------
(* The inductive invariant: a lock has one holder, what was read under it is  *)
(* still what the row says, and the actor of an edit is an administrator.     *)

CodeHolders == In({"sending", "sent", "compared", "entering"})
UserHolders == In({"entering", "editing"})

LocksAreExclusive ==
    /\ \A q, r \in CodeHolders : req[q].email = req[r].email => q = r
    /\ \A q, r \in UserHolders : req[q].email = req[r].email => q = r
    /\ \A q, r \in In({"admin", "editing"}) : q = r

ReadIsCurrent ==
    /\ \A r \in In({"compared", "entering"}) :
        /\ codes[req[r].email] = req[r].code
        /\ req[r].code.attempts < MaxAttempts
    /\ \A r \in In({"entering"}) : users[req[r].email] = req[r].user
    /\ \A r \in In({"editing"}) : users[req[r].email] = req[r].before

ActorIsAdmin ==
    /\ \A r \in In({"admin", "editing"}) :
        req[r].actor \in ActiveAdmins /\ users[req[r].actor].verified
    /\ \A r \in In({"editing"}) :
        req[r].email = req[r].actor => req[r].role = "admin" /\ ~req[r].disabled

CodesAreDistinct ==
    /\ \A d, e \in Emails :
        codes[d] # None /\ codes[e] # None /\ codes[d].id = codes[e].id => d = e
    /\ \A r \in In({"sending", "sent"}) : \A e \in Emails :
        codes[e] # None => codes[e].id # req[r].id
    /\ \A q, r \in In({"sending", "sent"}) : req[q].id = req[r].id => q = r
    /\ \A r \in In({"sending", "sent"}), s \in sessions : s.code # req[r].id

AttemptsAreAnswers ==
    /\ \A e \in Emails : codes[e] # None => answers[codes[e].id] = codes[e].attempts
    /\ \A r \in In({"sending", "sent"}) : answers[req[r].id] = 0

DeliveryIsKnown == \A r \in In({"sent"}) : req[r].id \in mailed

AccountsInv ==
    /\ TypeOK
    /\ LocksAreExclusive /\ ReadIsCurrent /\ ActorIsAdmin
    /\ CodesAreDistinct /\ AttemptsAreAnswers /\ DeliveryIsKnown
    /\ ActiveAdminRemains /\ SuspendedHasNoSession /\ AnnouncedRoleIsCurrent
    /\ AnswersAreBounded /\ SavedCodeWasMailed

=============================================================================
