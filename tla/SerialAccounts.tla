---------------------------- MODULE SerialAccounts ----------------------------
(***************************************************************************)
(* What the authentication API promises to whoever reads its tables:       *)
(* accounts, codes and sessions as if every request was served alone and   *)
(* in one step.  Locks, transactions, emails and what a request has read   *)
(* before it commits are not mentioned.                                    *)
(***************************************************************************)
EXTENDS Naturals

CONSTANTS Emails, Provisioned, None, MaxAttempts, CodeIds

VARIABLES
    users,      \* the account of each address, or None
    codes,      \* the code an address may log in with, or None
    sessions

vars == <<users, codes, sessions>>

HasCode(e)    == codes[e] # None
HasAccount(e) == users[e] # None

IsAdministrator(e) ==
    /\ HasAccount(e) /\ users[e].role = "admin"
    /\ users[e].verified /\ ~users[e].disabled

\* Identifiers of codes that may be tried or have opened a session.
Used == {codes[e].id : e \in {d \in Emails : HasCode(d)}} \cup {s.code : s \in sessions}

SessionsOf(e) == {s \in sessions : s.user = e}

-----------------------------------------------------------------------------
Init ==
    /\ users = [e \in Emails |->
            IF e \in Provisioned
            THEN [role |-> "admin", disabled |-> FALSE, verified |-> FALSE] ELSE None]
    /\ codes = [e \in Emails |-> None]
    /\ sessions = {}

\* A new code takes the place of the one the address had.
Receive(e) ==
    /\ \E id \in CodeIds \ Used : codes' = [codes EXCEPT ![e] = [id |-> id, attempts |-> 0]]
    /\ UNCHANGED <<users, sessions>>

\* A wrong answer costs one attempt of the code the address has.
Mistake(e) ==
    /\ HasCode(e) /\ codes[e].attempts < MaxAttempts
    /\ codes' = [codes EXCEPT ![e].attempts = @ + 1]
    /\ UNCHANGED <<users, sessions>>

\* A code expires, or was used by an account that is suspended.
Withdraw(e) ==
    /\ HasCode(e)
    /\ codes' = [codes EXCEPT ![e] = None]
    /\ UNCHANGED <<users, sessions>>

\* The code of an address opens one session of its account, with the role of the account
\* at that moment, which is created if there is none; a session may be rotated.
Enter(e) ==
    /\ HasCode(e) /\ codes[e].attempts < MaxAttempts
    /\ HasAccount(e) => ~users[e].disabled
    /\ users' = [users EXCEPT ![e] =
            [role     |-> IF HasAccount(e) THEN users[e].role ELSE "user",
             disabled |-> FALSE, verified |-> TRUE]]
    /\ \E rotated \in {{}} \cup {{s} : s \in sessions} :
        sessions' = (sessions \ rotated) \cup
            {[user |-> e, code |-> codes[e].id, role |-> users'[e].role]}
    /\ codes' = [codes EXCEPT ![e] = None]

Leave(s) ==
    /\ sessions' = sessions \ {s}
    /\ UNCHANGED <<users, codes>>

\* An administrator changes an account, its own only to something that may administer;
\* an account that changes loses its sessions.
Edit(actor, e) ==
    /\ IsAdministrator(actor) /\ HasAccount(e)
    /\ \E role \in {"user", "admin"}, disabled \in BOOLEAN :
        /\ e = actor => role = "admin" /\ ~disabled
        /\ users' = [users EXCEPT ![e].role = role, ![e].disabled = disabled]
    /\ sessions' = IF users' = users THEN sessions ELSE sessions \ SessionsOf(e)
    /\ UNCHANGED codes

Revoke(actor, e) ==
    /\ IsAdministrator(actor) /\ HasAccount(e)
    /\ sessions' = sessions \ SessionsOf(e)
    /\ UNCHANGED <<users, codes>>

Next ==
    \/ \E e \in Emails : Receive(e) \/ Mistake(e) \/ Withdraw(e) \/ Enter(e)
    \/ \E s \in sessions : Leave(s)
    \/ \E actor, e \in Emails : Edit(actor, e) \/ Revoke(actor, e)

Spec == Init /\ [][Next]_vars

=============================================================================
