---------------------------- MODULE AccountsProofs ----------------------------
(***************************************************************************)
(* Theorems about Accounts, for every set of addresses, requests and codes *)
(* and every number of attempts and sessions.                              *)
(***************************************************************************)
EXTENDS Accounts, TLAPS

-----------------------------------------------------------------------------
(* What a request is, by its phase.                                         *)

LEMMA Kinds ==
    ASSUME TypeOK, NEW r \in Requests
    PROVE  /\ req[r].phase \in {"sending", "sent"} => req[r] \in Sending
           /\ req[r].phase = "compared" => req[r] \in Comparing
           /\ req[r].phase = "entering" => req[r] \in Entering
           /\ req[r].phase = "admin" => req[r] \in Admitted
           /\ req[r].phase = "editing" => req[r] \in Editing
BY DEF TypeOK, Request, Idle, Sending, Comparing, Entering, Admitted, Editing

\* One request moves on, the others stay.
LEMMA OneProceeds ==
    ASSUME TypeOK, NEW r \in Requests, NEW step \in Request, Proceed(r, step)
    PROVE  /\ req' \in [Requests -> Request]
           /\ req'[r] = step
           /\ \A q \in Requests \ {r} : req'[q] = req[q]
BY DEF TypeOK, Proceed

LEMMA OneFinishes ==
    ASSUME TypeOK, NEW r \in Requests, Finish(r)
    PROVE  /\ req' \in [Requests -> Request]
           /\ \A q \in Requests : req'[q].phase # "idle" => q # r /\ req'[q] = req[q]
BY DEF TypeOK, Finish, Proceed, Request, Idle

LEMMA LocksAfterFinish ==
    ASSUME TypeOK, LocksAreExclusive, NEW r \in Requests, Finish(r)
    PROVE  LocksAreExclusive'
<1>1. \A q \in Requests : req'[q].phase # "idle" => q # r /\ req'[q] = req[q]
  BY OneFinishes
<1>2. QED
  BY <1>1 DEF LocksAreExclusive, CodeHolders, UserHolders, In

-----------------------------------------------------------------------------
LEMMA InitInv == Init => AccountsInv
<1> SUFFICES ASSUME Init
             PROVE  AccountsInv
  OBVIOUS
<1>1. TypeOK
  BY DEF Init, TypeOK, User, Request
<1>2. \A phases : "idle" \notin phases => In(phases) = {}
  BY DEF Init, In, Idle
<1>3. LocksAreExclusive /\ ReadIsCurrent /\ ActorIsAdmin /\ DeliveryIsKnown
  BY <1>2 DEF LocksAreExclusive, ReadIsCurrent, ActorIsAdmin, DeliveryIsKnown,
              CodeHolders, UserHolders
<1>4. CodesAreDistinct /\ AttemptsAreAnswers
  BY <1>2 DEF Init, CodesAreDistinct, AttemptsAreAnswers
<1>5. ActiveAdminRemains
  <2> DEFINE first == [role |-> "admin", disabled |-> FALSE, verified |-> FALSE]
  <2>1. PICK p \in Provisioned : p \in Emails
    BY AccountsAssumption
  <2>2. users[p] = first
    BY <2>1 DEF Init
  <2>3. first \in User
    BY DEF User
  <2>4. first # None /\ first.role = "admin" /\ ~first.disabled
    BY <2>3, AccountsAssumption
  <2>5. p \in ActiveAdmins
    BY <2>1, <2>2, <2>4 DEF ActiveAdmins
  <2>6. QED
    BY <2>5 DEF ActiveAdminRemains
<1>6. SuspendedHasNoSession /\ AnnouncedRoleIsCurrent /\ SavedCodeWasMailed
  BY DEF Init, SuspendedHasNoSession, AnnouncedRoleIsCurrent, SavedCodeWasMailed
<1>7. AnswersAreBounded
  BY AccountsAssumption DEF Init, AnswersAreBounded
<1>8. QED
  BY <1>1, <1>3, <1>4, <1>5, <1>6, <1>7 DEF AccountsInv

-----------------------------------------------------------------------------
(* Requests for a code.                                                     *)

LEMMA RequestCodeInv ==
    ASSUME AccountsInv, NEW r \in Requests, NEW e \in Emails, RequestCode(r, e)
    PROVE  AccountsInv'
<1> USE DEF AccountsInv
<1>1. PICK id \in CodeIds \ CodesInUse :
        /\ Proceed(r, [phase |-> "sending", email |-> e, id |-> id])
        /\ mailed' = mailed \ {id}
        /\ answers' = [answers EXCEPT ![id] = 0]
  BY DEF RequestCode
<1> DEFINE step == [phase |-> "sending", email |-> e, id |-> id]
<1>2. step \in Sending /\ step \in Request
  BY DEF Sending, Request
<1>3. /\ req' \in [Requests -> Request]
      /\ req'[r] = step
      /\ \A q \in Requests \ {r} : req'[q] = req[q]
  BY <1>1, <1>2, OneProceeds
<1>4. /\ \A d \in Emails : codes[d] # None => codes[d].id # id
      /\ \A q \in In({"sending", "sent"}) : req[q].id # id
      /\ \A s \in sessions : s.code # id
  BY DEF CodesInUse
<1>5. UNCHANGED <<users, codes, sessions>>
  BY DEF RequestCode
<1>6. TypeOK'
  BY <1>1, <1>3, <1>5 DEF TypeOK
<1>7. LocksAreExclusive'
  BY <1>3 DEF RequestCode, CodeFree, LocksAreExclusive, CodeHolders, UserHolders, In
<1>8. ReadIsCurrent' /\ ActorIsAdmin'
  BY <1>3, <1>5 DEF ReadIsCurrent, ActorIsAdmin, ActiveAdmins, In
<1>9. CodesAreDistinct'
  BY <1>3, <1>4, <1>5 DEF CodesAreDistinct, In
<1>10. AttemptsAreAnswers'
  <2>1. \A c \in CodeIds \ {id} : answers'[c] = answers[c]
    BY <1>1 DEF TypeOK
  <2>2. answers'[id] = 0
    BY <1>1 DEF TypeOK
  <2>3. \A d \in Emails : codes[d] # None => codes[d].id \in CodeIds
    BY DEF TypeOK, Code
  <2>4. \A q \in In({"sending", "sent"}) : req[q].id \in CodeIds
    BY Kinds DEF In, Sending
  <2>5. \A d \in Emails : codes'[d] # None => answers'[codes'[d].id] = codes'[d].attempts
    BY <2>1, <2>3, <1>4, <1>5 DEF AttemptsAreAnswers
  <2>6. ASSUME NEW q \in In({"sending", "sent"})'
        PROVE  answers'[req'[q].id] = 0
    <3>1. CASE q = r
      BY <3>1, <1>3, <2>2
    <3>2. CASE q # r
      <4>1. q \in In({"sending", "sent"}) /\ req'[q] = req[q]
        BY <3>2, <1>3 DEF In
      <4>2. QED
        BY <4>1, <1>4, <2>1, <2>4 DEF AttemptsAreAnswers
    <3>3. QED
      BY <3>1, <3>2
  <2>7. QED
    BY <2>5, <2>6 DEF AttemptsAreAnswers
<1>11. DeliveryIsKnown'
  BY <1>1, <1>3, <1>4 DEF DeliveryIsKnown, In
<1>12. ActiveAdminRemains' /\ SuspendedHasNoSession' /\ AnnouncedRoleIsCurrent'
  BY <1>5 DEF ActiveAdminRemains, ActiveAdmins, SuspendedHasNoSession,
              AnnouncedRoleIsCurrent
<1>13. AnswersAreBounded'
  BY <1>1, AccountsAssumption DEF AnswersAreBounded, TypeOK
<1>14. SavedCodeWasMailed'
  BY <1>1, <1>4, <1>5 DEF SavedCodeWasMailed
<1>15. QED
  BY <1>6, <1>7, <1>8, <1>9, <1>10, <1>11, <1>12, <1>13, <1>14

LEMMA CodeSentInv ==
    ASSUME AccountsInv, NEW r \in Requests, CodeSent(r)
    PROVE  AccountsInv'
<1> USE DEF AccountsInv
<1> DEFINE step == [req[r] EXCEPT !.phase = "sent"]
<1>1. req[r] \in Sending /\ req[r].phase = "sending"
  BY Kinds DEF CodeSent
<1>2. /\ step \in Sending /\ step \in Request
      /\ step.phase = "sent" /\ step.email = req[r].email /\ step.id = req[r].id
  BY <1>1 DEF Sending, Request
<1>3. /\ req' \in [Requests -> Request]
      /\ req'[r].phase = "sent" /\ req'[r].email = req[r].email /\ req'[r].id = req[r].id
      /\ \A q \in Requests \ {r} : req'[q] = req[q]
  BY <1>2, OneProceeds DEF CodeSent
<1> HIDE DEF step
<1>4. /\ UNCHANGED <<users, codes, sessions, answers>>
      /\ mailed' = mailed \cup {req[r].id}
  BY DEF CodeSent
<1>5. TypeOK'
  BY <1>1, <1>3, <1>4 DEF TypeOK, Sending
<1>6. LocksAreExclusive'
  BY <1>1, <1>3 DEF LocksAreExclusive, CodeHolders, UserHolders, In
<1>7. ReadIsCurrent' /\ ActorIsAdmin'
  BY <1>3, <1>4 DEF ReadIsCurrent, ActorIsAdmin, ActiveAdmins, In
<1>8. CodesAreDistinct' /\ AttemptsAreAnswers'
  BY <1>1, <1>3, <1>4 DEF CodesAreDistinct, AttemptsAreAnswers, In
<1>9. DeliveryIsKnown' /\ SavedCodeWasMailed'
  BY <1>3, <1>4 DEF DeliveryIsKnown, SavedCodeWasMailed, In
<1>10. ActiveAdminRemains' /\ SuspendedHasNoSession' /\ AnnouncedRoleIsCurrent'
  BY <1>4 DEF ActiveAdminRemains, ActiveAdmins, SuspendedHasNoSession,
              AnnouncedRoleIsCurrent
<1>11. AnswersAreBounded'
  BY <1>4 DEF AnswersAreBounded
<1>12. QED
  BY <1>5, <1>6, <1>7, <1>8, <1>9, <1>10, <1>11

LEMMA CommitCodeInv ==
    ASSUME AccountsInv, NEW r \in Requests, CommitCode(r)
    PROVE  AccountsInv'
<1> USE DEF AccountsInv
<1> DEFINE e == req[r].email
           new == [id |-> req[r].id, attempts |-> 0]
<1>1. req[r] \in Sending /\ req[r].phase = "sent" /\ e \in Emails /\ req[r].id \in CodeIds
  BY Kinds DEF CommitCode, Sending
<1>2. /\ new \in Code /\ new # None
      /\ codes' \in [Emails -> Code \cup {None}]
      /\ codes'[e] = new
      /\ \A d \in Emails \ {e} : codes'[d] = codes[d]
  BY <1>1, AccountsAssumption DEF CommitCode, NewCode, TypeOK, Code
<1>3. UNCHANGED <<users, sessions, mailed, answers>> /\ Finish(r)
  BY DEF CommitCode
<1>4. TypeOK'
  BY <1>2, <1>3, OneFinishes DEF TypeOK
<1>5. LocksAreExclusive'
  BY <1>3, LocksAfterFinish
<1>6. \A q \in Requests : req'[q].phase # "idle" => q # r /\ req'[q] = req[q]
  BY <1>3, OneFinishes
<1>7. \A q \in CodeHolders' : q \in CodeHolders /\ q # r /\ req[q].email # e
  BY <1>1, <1>6 DEF LocksAreExclusive, CodeHolders, In
<1>8. ReadIsCurrent' /\ ActorIsAdmin'
  <2>1. \A q \in In({"compared", "entering"}) : req[q] \in Comparing \cup Entering
    BY Kinds DEF In
  <2>2. QED
    BY <1>2, <1>3, <1>6, <1>7, <2>1
       DEF ReadIsCurrent, ActorIsAdmin, ActiveAdmins, In, CodeHolders, Comparing, Entering
<1>9. CodesAreDistinct' /\ AttemptsAreAnswers'
  BY <1>1, <1>2, <1>3, <1>6 DEF CodesAreDistinct, AttemptsAreAnswers, In
<1>10. DeliveryIsKnown' /\ SavedCodeWasMailed'
  BY <1>1, <1>2, <1>3, <1>6 DEF DeliveryIsKnown, SavedCodeWasMailed, In
<1>11. ActiveAdminRemains' /\ SuspendedHasNoSession' /\ AnnouncedRoleIsCurrent'
  BY <1>3 DEF ActiveAdminRemains, ActiveAdmins, SuspendedHasNoSession,
              AnnouncedRoleIsCurrent
<1>12. AnswersAreBounded'
  BY <1>3 DEF AnswersAreBounded
<1>13. QED
  BY <1>4, <1>5, <1>8, <1>9, <1>10, <1>11, <1>12

\* A step of one request that writes nothing and sends no email keeps what is said
\* of the tables alone.
LEMMA Unwritten ==
    ASSUME AccountsInv, NEW r \in Requests, NEW step \in Request, Proceed(r, step),
           step.phase \notin {"sending", "sent"},
           UNCHANGED <<users, codes, sessions, mailed, answers>>
    PROVE  /\ TypeOK' /\ CodesAreDistinct' /\ AttemptsAreAnswers' /\ DeliveryIsKnown'
           /\ ActiveAdminRemains' /\ SuspendedHasNoSession' /\ AnnouncedRoleIsCurrent'
           /\ AnswersAreBounded' /\ SavedCodeWasMailed'
<1> USE DEF AccountsInv
<1>1. /\ req' \in [Requests -> Request]
      /\ req'[r].phase \notin {"sending", "sent"}
      /\ \A q \in Requests \ {r} : req'[q] = req[q]
  BY OneProceeds
<1>2. TypeOK'
  BY <1>1 DEF TypeOK
<1>3. CodesAreDistinct' /\ AttemptsAreAnswers' /\ DeliveryIsKnown'
  BY <1>1 DEF CodesAreDistinct, AttemptsAreAnswers, DeliveryIsKnown, In
<1>4. /\ ActiveAdminRemains' /\ SuspendedHasNoSession' /\ AnnouncedRoleIsCurrent'
      /\ AnswersAreBounded' /\ SavedCodeWasMailed'
  BY DEF ActiveAdminRemains, ActiveAdmins, SuspendedHasNoSession,
         AnnouncedRoleIsCurrent, AnswersAreBounded, SavedCodeWasMailed
<1>5. QED
  BY <1>2, <1>3, <1>4

\* A request that ends without writing anything.
LEMMA FinishInv ==
    ASSUME AccountsInv, NEW r \in Requests, Finish(r),
           UNCHANGED <<users, codes, sessions, mailed, answers>>
    PROVE  AccountsInv'
<1> USE DEF AccountsInv
<1>1. Idle \in Request /\ Idle.phase = "idle"
  BY DEF Request, Idle
<1>2. /\ TypeOK' /\ CodesAreDistinct' /\ AttemptsAreAnswers' /\ DeliveryIsKnown'
      /\ ActiveAdminRemains' /\ SuspendedHasNoSession' /\ AnnouncedRoleIsCurrent'
      /\ AnswersAreBounded' /\ SavedCodeWasMailed'
  BY <1>1, Unwritten DEF Finish
<1>3. LocksAreExclusive'
  BY LocksAfterFinish
<1>4. \A q \in Requests : req'[q].phase # "idle" => q # r /\ req'[q] = req[q]
  BY OneFinishes
<1>5. ReadIsCurrent' /\ ActorIsAdmin'
  BY <1>4 DEF ReadIsCurrent, ActorIsAdmin, ActiveAdmins, In
<1>6. QED
  BY <1>2, <1>3, <1>5

-----------------------------------------------------------------------------
(* Verification of a code.                                                  *)

LEMMA CompareCodeInv ==
    ASSUME AccountsInv, NEW r \in Requests, NEW e \in Emails, CompareCode(r, e)
    PROVE  AccountsInv'
<1> USE DEF AccountsInv
<1>1. PICK right \in BOOLEAN :
        Proceed(r, [phase |-> "compared", email |-> e, code |-> codes[e], right |-> right])
  BY DEF CompareCode
<1> DEFINE step == [phase |-> "compared", email |-> e, code |-> codes[e], right |-> right]
<1>2. codes[e] \in Code
  BY DEF CompareCode, TypeOK
<1>3. step \in Request /\ step.phase = "compared"
  BY <1>2 DEF Comparing, Request
<1>4. /\ req'[r] = step
      /\ \A q \in Requests \ {r} : req'[q] = req[q]
  BY <1>1, <1>3, OneProceeds
<1>5. UNCHANGED <<users, codes, sessions, mailed, answers>>
  BY DEF CompareCode
<1>6. /\ TypeOK' /\ CodesAreDistinct' /\ AttemptsAreAnswers' /\ DeliveryIsKnown'
      /\ ActiveAdminRemains' /\ SuspendedHasNoSession' /\ AnnouncedRoleIsCurrent'
      /\ AnswersAreBounded' /\ SavedCodeWasMailed'
  BY <1>1, <1>3, <1>5, Unwritten
<1>7. LocksAreExclusive'
  BY <1>4 DEF CompareCode, CodeFree, LocksAreExclusive, CodeHolders, UserHolders, In
<1>8. ReadIsCurrent'
  BY <1>4, <1>5 DEF CompareCode, TriesLeft, ReadIsCurrent, In
<1>9. ActorIsAdmin'
  BY <1>4, <1>5 DEF ActorIsAdmin, ActiveAdmins, In
<1>10. QED
  BY <1>6, <1>7, <1>8, <1>9

LEMMA FindAccountInv ==
    ASSUME AccountsInv, NEW r \in Requests, FindAccount(r)
    PROVE  AccountsInv'
<1> USE DEF AccountsInv
<1> DEFINE e == req[r].email
           step == [phase |-> "entering", email |-> e, code |-> req[r].code,
                    user |-> users[e]]
<1>1. /\ req[r] \in Comparing /\ req[r].phase = "compared"
      /\ e \in Emails /\ req[r].code \in Code
  BY Kinds DEF FindAccount, Comparing
<1>2. step \in Request /\ step.phase = "entering"
  <2>1. users[e] \in User \cup {None}
    BY <1>1 DEF TypeOK
  <2>2. step \in Entering
    BY <1>1, <2>1 DEF Entering
  <2>3. QED
    BY <2>2 DEF Request
<1>3. Proceed(r, step) /\ UNCHANGED <<users, codes, sessions, mailed, answers>>
  BY DEF FindAccount
<1>4. /\ req'[r].phase = "entering" /\ req'[r].email = e
      /\ req'[r].code = req[r].code /\ req'[r].user = users[e]
      /\ \A q \in Requests \ {r} : req'[q] = req[q]
  BY <1>2, <1>3, OneProceeds
<1>5. /\ TypeOK' /\ CodesAreDistinct' /\ AttemptsAreAnswers' /\ DeliveryIsKnown'
      /\ ActiveAdminRemains' /\ SuspendedHasNoSession' /\ AnnouncedRoleIsCurrent'
      /\ AnswersAreBounded' /\ SavedCodeWasMailed'
  BY <1>2, <1>3, Unwritten
<1> HIDE DEF step
<1>6. LocksAreExclusive'
  BY <1>1, <1>4 DEF FindAccount, UserFree, LocksAreExclusive, CodeHolders, UserHolders, In
<1>7. ReadIsCurrent'
  BY <1>1, <1>3, <1>4 DEF ReadIsCurrent, In
<1>8. ActorIsAdmin'
  BY <1>3, <1>4 DEF ActorIsAdmin, ActiveAdmins, In
<1>9. QED
  BY <1>5, <1>6, <1>7, <1>8

\* The holder of a code knows its row, and nobody else refers to it.
LEMMA CodeHeld ==
    ASSUME AccountsInv, NEW r \in In({"compared", "entering"})
    PROVE  /\ req[r].email \in Emails
           /\ req[r].code \in Code
           /\ codes[req[r].email] = req[r].code
           /\ req[r].code # None
           /\ req[r].code.attempts \in 0 .. MaxAttempts - 1
           /\ answers[req[r].code.id] = req[r].code.attempts
<1> USE DEF AccountsInv
<1>1. /\ r \in Requests
      /\ req[r].email \in Emails /\ req[r].code \in Code
  BY Kinds DEF In, Comparing, Entering
<1>2. codes[req[r].email] = req[r].code /\ req[r].code.attempts < MaxAttempts
  BY DEF ReadIsCurrent
<1>3. req[r].code # None
  BY <1>1, AccountsAssumption
<1>4. answers[req[r].code.id] = req[r].code.attempts
  BY <1>1, <1>2, <1>3 DEF AttemptsAreAnswers
<1>5. req[r].code.attempts \in 0 .. MaxAttempts - 1
  BY <1>1, <1>2, AccountsAssumption DEF Code
<1>6. QED
  BY <1>1, <1>2, <1>3, <1>4, <1>5

\* An answer about the code it holds ends a request: the code keeps its row with one
\* more attempt, or leaves the table.
LEMMA AnswerKeeps ==
    ASSUME AccountsInv, NEW r \in In({"compared", "entering"}), Finish(r),
           answers' = Answered(r), UNCHANGED mailed,
           \A s \in sessions' : s \in sessions \/ s.code = req[r].code.id,
           \/ codes' = [codes EXCEPT ![req[r].email].attempts = req[r].code.attempts + 1]
           \/ codes' = CodeConsumed(req[r].email)
    PROVE  /\ codes' \in [Emails -> Code \cup {None}]
           /\ answers' \in [CodeIds -> Nat]
           /\ \A q \in In({"compared", "entering"})' : codes'[req'[q].email] = req'[q].code
           /\ CodesAreDistinct' /\ AttemptsAreAnswers' /\ DeliveryIsKnown'
           /\ AnswersAreBounded' /\ SavedCodeWasMailed'
<1> USE DEF AccountsInv
<1> DEFINE e == req[r].email
           c == req[r].code
           one == [c EXCEPT !.attempts = c.attempts + 1]
<1>1. /\ e \in Emails /\ c \in Code /\ codes[e] = c /\ c # None
      /\ c.attempts \in 0 .. MaxAttempts - 1 /\ answers[c.id] = c.attempts
      /\ r \in Requests /\ c.id \in CodeIds
  BY CodeHeld DEF In, Code
<1>2. /\ one \in Code /\ one # None /\ one.id = c.id /\ one.attempts = c.attempts + 1
  BY <1>1, AccountsAssumption DEF Code
<1>3. /\ codes' \in [Emails -> Code \cup {None}]
      /\ codes'[e] = one \/ codes'[e] = None
      /\ \A d \in Emails \ {e} : codes'[d] = codes[d]
  <2>1. codes \in [Emails -> Code \cup {None}]
    BY DEF TypeOK
  <2>2. QED
    BY <1>1, <1>2, <2>1 DEF CodeConsumed
<1>4. /\ answers' \in [CodeIds -> Nat]
      /\ answers'[c.id] = c.attempts + 1
      /\ \A i \in CodeIds \ {c.id} : answers'[i] = answers[i]
  BY <1>1, AccountsAssumption DEF Answered, TypeOK
<1>5. \A q \in Requests : req'[q].phase # "idle" => q # r /\ req'[q] = req[q]
  BY <1>1, OneFinishes
<1>6. \A q \in In({"compared", "entering"})' : codes'[req'[q].email] = req'[q].code
  <2> SUFFICES ASSUME NEW q \in In({"compared", "entering"})'
               PROVE  codes'[req'[q].email] = req'[q].code
    OBVIOUS
  <2>1. q \in In({"compared", "entering"}) /\ q # r /\ req'[q] = req[q]
    BY <1>5 DEF In
  <2>2. req[q].email # e
    BY <2>1, <1>1 DEF LocksAreExclusive, CodeHolders, In
  <2>3. req[q].email \in Emails /\ codes[req[q].email] = req[q].code
    BY <2>1, CodeHeld
  <2>4. QED
    BY <2>1, <2>2, <2>3, <1>3
<1> HIDE DEF one
<1>7. /\ \A d \in Emails \ {e} : codes[d] # None => codes[d].id # c.id
      /\ \A d \in Emails : codes[d] # None => codes[d].id \in CodeIds
      /\ \A q \in In({"sending", "sent"}) : req[q].id # c.id /\ req[q].id \in CodeIds
  <2>1. \A q \in In({"sending", "sent"}) : req[q].id \in CodeIds
    BY Kinds DEF In, Sending
  <2>2. \A d \in Emails : codes[d] # None => codes[d].id \in CodeIds
    BY DEF TypeOK, Code
  <2>3. QED
    BY <1>1, <2>1, <2>2 DEF CodesAreDistinct
<1>8. CodesAreDistinct'
  BY <1>1, <1>2, <1>3, <1>5, <1>7 DEF CodesAreDistinct, In
<1>9. AttemptsAreAnswers'
  <2>1. \A d \in Emails : codes'[d] # None => answers'[codes'[d].id] = codes'[d].attempts
    BY <1>1, <1>2, <1>3, <1>4, <1>7 DEF AttemptsAreAnswers
  <2>2. \A q \in In({"sending", "sent"})' :
            q \in In({"sending", "sent"}) /\ req'[q] = req[q]
    BY <1>5 DEF In
  <2>3. \A q \in In({"sending", "sent"})' : answers'[req'[q].id] = 0
    BY <1>4, <1>7, <2>2 DEF AttemptsAreAnswers
  <2>4. QED
    BY <2>1, <2>3 DEF AttemptsAreAnswers
<1>10. DeliveryIsKnown'
  BY <1>5 DEF DeliveryIsKnown, In
<1>11. AnswersAreBounded'
  BY <1>1, <1>4, AccountsAssumption DEF AnswersAreBounded
<1>12. SavedCodeWasMailed'
  BY <1>1, <1>2, <1>3 DEF SavedCodeWasMailed
<1>13. QED
  BY <1>3, <1>4, <1>6, <1>8, <1>9, <1>10, <1>11, <1>12

\* A request that ends on an answer and leaves the accounts and the sessions alone.
LEMMA AnswerInv ==
    ASSUME AccountsInv, NEW r \in In({"compared", "entering"}), Finish(r),
           answers' = Answered(r), UNCHANGED <<users, sessions, mailed>>,
           \/ codes' = [codes EXCEPT ![req[r].email].attempts = req[r].code.attempts + 1]
           \/ codes' = CodeConsumed(req[r].email)
    PROVE  AccountsInv'
<1> USE DEF AccountsInv
<1>1. /\ codes' \in [Emails -> Code \cup {None}]
      /\ answers' \in [CodeIds -> Nat]
      /\ \A q \in In({"compared", "entering"})' : codes'[req'[q].email] = req'[q].code
      /\ CodesAreDistinct' /\ AttemptsAreAnswers' /\ DeliveryIsKnown'
      /\ AnswersAreBounded' /\ SavedCodeWasMailed'
  BY AnswerKeeps
<1>2. r \in Requests
  BY DEF In
<1>3. /\ req' \in [Requests -> Request]
      /\ \A q \in Requests : req'[q].phase # "idle" => q # r /\ req'[q] = req[q]
  BY <1>2, OneFinishes
<1>4. TypeOK'
  BY <1>1, <1>3 DEF TypeOK
<1>5. LocksAreExclusive'
  BY <1>2, LocksAfterFinish
<1>6. ReadIsCurrent' /\ ActorIsAdmin'
  BY <1>1, <1>3 DEF ReadIsCurrent, ActorIsAdmin, ActiveAdmins, In
<1>7. ActiveAdminRemains' /\ SuspendedHasNoSession' /\ AnnouncedRoleIsCurrent'
  BY DEF ActiveAdminRemains, ActiveAdmins, SuspendedHasNoSession, AnnouncedRoleIsCurrent
<1>8. QED
  BY <1>1, <1>4, <1>5, <1>6, <1>7

LEMMA WrongCodeInv ==
    ASSUME AccountsInv, NEW r \in Requests, WrongCode(r)
    PROVE  AccountsInv'
<1>1. r \in In({"compared", "entering"})
  BY DEF WrongCode, In
<1>2. codes[req[r].email] = req[r].code /\ req[r].code # None
  BY <1>1, CodeHeld
<1>3. codes' = [codes EXCEPT ![req[r].email].attempts = req[r].code.attempts + 1]
  BY <1>2 DEF WrongCode
<1>4. QED
  BY <1>1, <1>3, AnswerInv DEF WrongCode

LEMMA RefuseSuspendedInv ==
    ASSUME AccountsInv, NEW r \in Requests, RefuseSuspended(r)
    PROVE  AccountsInv'
<1>1. r \in In({"compared", "entering"})
  BY DEF RefuseSuspended, In
<1>2. QED
  BY <1>1, AnswerInv DEF RefuseSuspended

LEMMA OpenSessionInv ==
    ASSUME AccountsInv, NEW r \in Requests, OpenSession(r)
    PROVE  AccountsInv'
<1> USE DEF AccountsInv
<1> DEFINE e     == req[r].email
           known == req[r].user
           role  == IF known = None THEN "user" ELSE known.role
           new   == [user |-> e, code |-> req[r].code.id, role |-> role]
<1>1. r \in In({"entering"}) /\ r \in In({"compared", "entering"})
  BY DEF OpenSession, In
<1>2. /\ codes' \in [Emails -> Code \cup {None}]
      /\ answers' \in [CodeIds -> Nat]
      /\ \A q \in In({"compared", "entering"})' : codes'[req'[q].email] = req'[q].code
      /\ CodesAreDistinct' /\ AttemptsAreAnswers' /\ DeliveryIsKnown'
      /\ AnswersAreBounded' /\ SavedCodeWasMailed'
  <2>1. \A s \in sessions' : s \in sessions \/ s.code = req[r].code.id
    BY DEF OpenSession
  <2>2. QED
    BY <1>1, <2>1, AnswerKeeps DEF OpenSession
<1>3. /\ req' \in [Requests -> Request]
      /\ \A q \in Requests : req'[q].phase # "idle" => q # r /\ req'[q] = req[q]
  BY OneFinishes DEF OpenSession
<1>4. /\ e \in Emails /\ req[r].code.id \in CodeIds
      /\ users[e] = known /\ known \in User \cup {None}
  <2>1. req[r] \in Entering
    BY Kinds DEF OpenSession
  <2>2. QED
    BY <1>1, <2>1 DEF Entering, Code, ReadIsCurrent
<1>5. /\ users' \in [Emails -> User \cup {None}]
      /\ users'[e] # None /\ users'[e].role = role /\ ~users'[e].disabled
      /\ users'[e].verified
      /\ \A d \in Emails \ {e} : users'[d] = users[d]
  <2>1. users \in [Emails -> User \cup {None}]
    BY DEF TypeOK
  <2>2. CASE known = None
    <3>1. users' = [users EXCEPT ![e] =
                        [role |-> "user", disabled |-> FALSE, verified |-> TRUE]]
      BY <2>2 DEF OpenSession
    <3>2. [role |-> "user", disabled |-> FALSE, verified |-> TRUE] \in User
      BY DEF User
    <3>3. QED
      BY <1>4, <2>1, <2>2, <3>1, <3>2, AccountsAssumption
  <2>3. CASE known # None
    <3> DEFINE one == [known EXCEPT !.verified = TRUE]
    <3>1. known \in User /\ ~known.disabled
      BY <1>4, <2>3 DEF OpenSession
    <3>2. users' = [users EXCEPT ![e] = one]
      BY <1>4, <2>1, <2>3 DEF OpenSession
    <3>3. one \in User /\ one.role = known.role /\ one.disabled = known.disabled
          /\ one.verified
      BY <3>1 DEF User
    <3>4. one # None
      BY <3>3, AccountsAssumption
    <3> HIDE DEF one
    <3>5. QED
      BY <1>4, <2>1, <2>3, <3>1, <3>2, <3>3, <3>4
  <2>4. QED
    BY <2>2, <2>3
<1>6. sessions' \subseteq sessions \cup {new}
  BY DEF OpenSession
<1>7. role \in {"user", "admin"} /\ (known # None => role = known.role)
  BY <1>4 DEF User
<1> HIDE DEF role
<1>8. TypeOK'
  <2>1. new \in Session
    BY <1>4, <1>7 DEF Session
  <2>2. QED
    BY <1>2, <1>3, <1>5, <1>6, <2>1 DEF TypeOK, OpenSession
<1>9. LocksAreExclusive'
  BY LocksAfterFinish DEF OpenSession
<1>10. ActiveAdmins \subseteq ActiveAdmins'
  BY <1>4, <1>5, <1>7 DEF ActiveAdmins
<1>11. ReadIsCurrent'
  <2>1. \A q \in UserHolders' : q \in UserHolders /\ q # r /\ req'[q] = req[q]
    BY <1>3 DEF UserHolders, In
  <2>2. \A q \in UserHolders : req[q].email \in Emails
    BY Kinds DEF UserHolders, In, Entering, Editing
  <2>3. \A q \in UserHolders' : users'[req'[q].email] = users[req[q].email]
    BY <1>1, <1>5, <2>1, <2>2 DEF LocksAreExclusive, UserHolders, In
  <2>4. QED
    BY <1>2, <1>3, <2>3 DEF ReadIsCurrent, UserHolders, In
<1>12. ActorIsAdmin'
  <2>1. \A d \in ActiveAdmins : users[d].verified => users'[d].verified
    BY <1>5 DEF ActiveAdmins
  <2>2. QED
    BY <1>3, <1>10, <2>1 DEF ActorIsAdmin, In
<1>13. ActiveAdminRemains'
  BY <1>10 DEF ActiveAdminRemains
<1>14. SuspendedHasNoSession' /\ AnnouncedRoleIsCurrent'
  <2> SUFFICES ASSUME NEW s \in sessions'
               PROVE  /\ users'[s.user] # None /\ ~users'[s.user].disabled
                      /\ s.role = users'[s.user].role
    BY DEF SuspendedHasNoSession, AnnouncedRoleIsCurrent
  <2>1. CASE s = new
    BY <2>1, <1>5
  <2>2. CASE s \in sessions
    <3>1. /\ s.user \in Emails /\ users[s.user] # None /\ ~users[s.user].disabled
          /\ s.role = users[s.user].role
      BY <2>2 DEF TypeOK, Session, SuspendedHasNoSession, AnnouncedRoleIsCurrent
    <3>2. CASE s.user = e
      BY <1>4, <1>5, <1>7, <3>1, <3>2
    <3>3. CASE s.user # e
      BY <1>5, <3>1, <3>3
    <3>4. QED
      BY <3>2, <3>3
  <2>3. QED
    BY <1>6, <2>1, <2>2
<1>15. QED
  BY <1>2, <1>8, <1>9, <1>11, <1>12, <1>13, <1>14

-----------------------------------------------------------------------------
(* Sessions and expiry.                                                     *)

LEMMA LogoutInv ==
    ASSUME AccountsInv, NEW s \in sessions, Logout(s)
    PROVE  AccountsInv'
<1> USE DEF AccountsInv
<1>1. sessions' \subseteq sessions /\ UNCHANGED <<users, codes, req, mailed, answers>>
  BY DEF Logout
<1>2. TypeOK' /\ LocksAreExclusive' /\ ReadIsCurrent' /\ ActorIsAdmin'
  BY <1>1 DEF TypeOK, LocksAreExclusive, CodeHolders, UserHolders, ReadIsCurrent,
              ActorIsAdmin, ActiveAdmins, In
<1>3. CodesAreDistinct' /\ AttemptsAreAnswers' /\ DeliveryIsKnown'
  BY <1>1 DEF CodesAreDistinct, AttemptsAreAnswers, DeliveryIsKnown, In
<1>4. /\ ActiveAdminRemains' /\ SuspendedHasNoSession' /\ AnnouncedRoleIsCurrent'
      /\ AnswersAreBounded' /\ SavedCodeWasMailed'
  BY <1>1 DEF ActiveAdminRemains, ActiveAdmins, SuspendedHasNoSession,
              AnnouncedRoleIsCurrent, AnswersAreBounded, SavedCodeWasMailed
<1>5. QED
  BY <1>2, <1>3, <1>4

LEMMA CodeExpiresInv ==
    ASSUME AccountsInv, NEW e \in Emails, CodeExpires(e)
    PROVE  AccountsInv'
<1> USE DEF AccountsInv
<1>1. UNCHANGED <<users, sessions, req, mailed, answers>>
  BY DEF CodeExpires
<1>2. /\ codes' \in [Emails -> Code \cup {None}]
      /\ codes'[e] = None
      /\ \A d \in Emails \ {e} : codes'[d] = codes[d]
  BY DEF CodeExpires, CodeConsumed, TypeOK
<1>3. TypeOK' /\ LocksAreExclusive' /\ ActorIsAdmin'
  BY <1>1, <1>2 DEF TypeOK, LocksAreExclusive, CodeHolders, UserHolders, ActorIsAdmin,
                    ActiveAdmins, In
<1>4. ReadIsCurrent'
  <2>1. \A q \in In({"compared", "entering"}) : req[q].email \in Emails \ {e}
    BY CodeHeld DEF CodeExpires, CodeFree, In
  <2>2. QED
    BY <1>1, <1>2, <2>1 DEF ReadIsCurrent, In
<1>5. CodesAreDistinct' /\ AttemptsAreAnswers' /\ DeliveryIsKnown'
  BY <1>1, <1>2 DEF CodesAreDistinct, AttemptsAreAnswers, DeliveryIsKnown, In
<1>6. /\ ActiveAdminRemains' /\ SuspendedHasNoSession' /\ AnnouncedRoleIsCurrent'
      /\ AnswersAreBounded' /\ SavedCodeWasMailed'
  BY <1>1, <1>2 DEF ActiveAdminRemains, ActiveAdmins, SuspendedHasNoSession,
                    AnnouncedRoleIsCurrent, AnswersAreBounded, SavedCodeWasMailed
<1>7. QED
  BY <1>3, <1>4, <1>5, <1>6

-----------------------------------------------------------------------------
(* User administration.                                                     *)

LEMMA AdmitInv ==
    ASSUME AccountsInv, NEW r \in Requests, NEW s \in sessions, Admit(r, s)
    PROVE  AccountsInv'
<1> USE DEF AccountsInv
<1> DEFINE step == [phase |-> "admin", actor |-> s.user]
<1>1. s.user \in Emails
  BY DEF TypeOK, Session
<1>2. step \in Request /\ step.phase = "admin"
  BY <1>1 DEF Request, Admitted
<1>3. Proceed(r, step) /\ UNCHANGED <<users, codes, sessions, mailed, answers>>
  BY DEF Admit
<1>4. /\ req'[r] = step
      /\ \A q \in Requests \ {r} : req'[q] = req[q]
  BY <1>2, <1>3, OneProceeds
<1>5. /\ TypeOK' /\ CodesAreDistinct' /\ AttemptsAreAnswers' /\ DeliveryIsKnown'
      /\ ActiveAdminRemains' /\ SuspendedHasNoSession' /\ AnnouncedRoleIsCurrent'
      /\ AnswersAreBounded' /\ SavedCodeWasMailed'
  BY <1>2, <1>3, Unwritten
<1>6. LocksAreExclusive'
  BY <1>4 DEF Admit, AdministrationFree, LocksAreExclusive, CodeHolders, UserHolders, In
<1>7. ReadIsCurrent'
  BY <1>3, <1>4 DEF ReadIsCurrent, In
<1>8. ActorIsAdmin'
  BY <1>1, <1>3, <1>4 DEF Admit, ActorIsAdmin, ActiveAdmins, In
<1>9. QED
  BY <1>5, <1>6, <1>7, <1>8

LEMMA EditUserInv ==
    ASSUME AccountsInv, NEW r \in Requests, NEW e \in Emails, EditUser(r, e)
    PROVE  AccountsInv'
<1> USE DEF AccountsInv
<1>1. PICK role \in {"user", "admin"}, disabled \in BOOLEAN :
        /\ e = req[r].actor => ~(disabled \/ role # "admin")
        /\ Proceed(r, [phase |-> "editing", actor |-> req[r].actor, email |-> e,
                       before |-> users[e], role |-> role, disabled |-> disabled])
  BY DEF EditUser
<1> DEFINE step == [phase |-> "editing", actor |-> req[r].actor, email |-> e,
                    before |-> users[e], role |-> role, disabled |-> disabled]
<1>2. req[r] \in Admitted /\ req[r].phase = "admin"
  BY Kinds DEF EditUser
<1>3. step \in Request /\ step.phase = "editing"
  <2>1. users[e] \in User
    BY DEF EditUser, TypeOK
  <2>2. step \in Editing
    BY <1>2, <2>1 DEF Editing, Admitted
  <2>3. QED
    BY <2>2 DEF Request
<1>4. UNCHANGED <<users, codes, sessions, mailed, answers>>
  BY DEF EditUser
<1>5. /\ req'[r].phase = "editing" /\ req'[r].actor = req[r].actor /\ req'[r].email = e
      /\ req'[r].before = users[e] /\ req'[r].role = role /\ req'[r].disabled = disabled
      /\ \A q \in Requests \ {r} : req'[q] = req[q]
  BY <1>1, <1>3, OneProceeds
<1>6. /\ TypeOK' /\ CodesAreDistinct' /\ AttemptsAreAnswers' /\ DeliveryIsKnown'
      /\ ActiveAdminRemains' /\ SuspendedHasNoSession' /\ AnnouncedRoleIsCurrent'
      /\ AnswersAreBounded' /\ SavedCodeWasMailed'
  BY <1>1, <1>3, <1>4, Unwritten
<1> HIDE DEF step
<1>7. LocksAreExclusive'
  BY <1>2, <1>5 DEF EditUser, UserFree, LocksAreExclusive, CodeHolders, UserHolders, In
<1>8. ReadIsCurrent'
  BY <1>4, <1>5 DEF ReadIsCurrent, In
<1>9. ActorIsAdmin'
  BY <1>1, <1>2, <1>4, <1>5 DEF ActorIsAdmin, ActiveAdmins, In
<1>10. QED
  BY <1>6, <1>7, <1>8, <1>9

LEMMA CommitUserInv ==
    ASSUME AccountsInv, NEW r \in Requests, CommitUser(r)
    PROVE  AccountsInv'
<1> USE DEF AccountsInv
<1> DEFINE e == req[r].email
           one == [users[e] EXCEPT !.role = req[r].role, !.disabled = req[r].disabled]
<1>1. /\ req[r] \in Editing /\ req[r].phase = "editing"
      /\ e \in Emails /\ req[r].before \in User /\ r \in In({"editing"})
  BY Kinds DEF CommitUser, Editing, In
<1>2. users[e] = req[r].before /\ users[e] \in User
  BY <1>1 DEF ReadIsCurrent
<1>3. /\ one \in User /\ one # None
      /\ one.role = req[r].role /\ one.disabled = req[r].disabled
  BY <1>1, <1>2, AccountsAssumption DEF User, Editing
<1>4. /\ users' \in [Emails -> User \cup {None}]
      /\ users'[e] = one
      /\ \A d \in Emails \ {e} : users'[d] = users[d]
  <2>1. users' = [users EXCEPT ![e] = one]
    BY <1>1 DEF CommitUser, TypeOK
  <2>2. QED
    BY <1>1, <1>3, <2>1 DEF TypeOK
<1> HIDE DEF one
<1>5. UNCHANGED <<codes, mailed, answers>> /\ Finish(r)
  BY DEF CommitUser
<1>6. /\ req' \in [Requests -> Request]
      /\ \A q \in Requests : req'[q].phase # "idle" => q # r /\ req'[q] = req[q]
  BY <1>5, OneFinishes
<1>7. TypeOK'
  BY <1>4, <1>5, <1>6 DEF CommitUser, TypeOK
<1>8. LocksAreExclusive'
  BY <1>5, LocksAfterFinish
<1>9. ReadIsCurrent'
  <2>1. \A q \in In({"entering", "editing"})' :
            q \in In({"entering", "editing"}) /\ q # r /\ req'[q] = req[q]
    BY <1>6 DEF In
  <2>2. \A q \in In({"entering", "editing"}) : req[q].email \in Emails
    BY Kinds DEF In, Entering, Editing
  <2>3. \A q \in In({"entering", "editing"})' : users'[req'[q].email] = users[req[q].email]
    BY <1>1, <1>4, <2>1, <2>2 DEF LocksAreExclusive, UserHolders, In
  <2>4. QED
    BY <1>5, <1>6, <2>3 DEF ReadIsCurrent, In
<1>10. In({"admin", "editing"})' = {}
  BY <1>1, <1>6 DEF LocksAreExclusive, In
<1>11. ActorIsAdmin'
  BY <1>10 DEF ActorIsAdmin, In
<1>12. CodesAreDistinct' /\ AttemptsAreAnswers' /\ DeliveryIsKnown'
  <2>1. sessions' \subseteq sessions
    BY DEF CommitUser
  <2>2. QED
    BY <1>5, <1>6, <2>1 DEF CodesAreDistinct, AttemptsAreAnswers, DeliveryIsKnown, In
<1>13. ActiveAdminRemains'
  <2>1. /\ req[r].actor \in ActiveAdmins
        /\ e = req[r].actor => req[r].role = "admin" /\ ~req[r].disabled
    BY <1>1 DEF ActorIsAdmin, In
  <2>2. req[r].actor \in ActiveAdmins'
    BY <1>3, <1>4, <2>1 DEF ActiveAdmins
  <2>3. QED
    BY <2>2 DEF ActiveAdminRemains
<1>14. SuspendedHasNoSession' /\ AnnouncedRoleIsCurrent'
  <2> SUFFICES ASSUME NEW s \in sessions'
               PROVE  /\ users'[s.user] # None /\ ~users'[s.user].disabled
                      /\ s.role = users'[s.user].role
    BY DEF SuspendedHasNoSession, AnnouncedRoleIsCurrent
  <2>1. s \in sessions /\ (s.user = e => ~Changed(r))
    BY DEF CommitUser, SessionsOf
  <2>2. /\ s.user \in Emails /\ users[s.user] # None /\ ~users[s.user].disabled
        /\ s.role = users[s.user].role
    BY <2>1 DEF TypeOK, Session, SuspendedHasNoSession, AnnouncedRoleIsCurrent
  <2>3. CASE s.user = e
    BY <1>2, <1>3, <1>4, <2>1, <2>2, <2>3 DEF Changed
  <2>4. CASE s.user # e
    BY <1>4, <2>2, <2>4
  <2>5. QED
    BY <2>3, <2>4
<1>15. AnswersAreBounded' /\ SavedCodeWasMailed'
  BY <1>5 DEF AnswersAreBounded, SavedCodeWasMailed
<1>16. QED
  BY <1>7, <1>8, <1>9, <1>11, <1>12, <1>13, <1>14, <1>15

LEMMA RevokeInv ==
    ASSUME AccountsInv, NEW r \in Requests, NEW e \in Emails, Revoke(r, e)
    PROVE  AccountsInv'
<1> USE DEF AccountsInv
<1>1. /\ sessions' \subseteq sessions /\ Finish(r)
      /\ UNCHANGED <<users, codes, mailed, answers>>
  BY DEF Revoke
<1>2. /\ req' \in [Requests -> Request]
      /\ \A q \in Requests : req'[q].phase # "idle" => q # r /\ req'[q] = req[q]
  BY <1>1, OneFinishes
<1>3. TypeOK' /\ LocksAreExclusive'
  BY <1>1, <1>2, LocksAfterFinish DEF TypeOK
<1>4. ReadIsCurrent' /\ ActorIsAdmin'
  BY <1>1, <1>2 DEF ReadIsCurrent, ActorIsAdmin, ActiveAdmins, In
<1>5. CodesAreDistinct' /\ AttemptsAreAnswers' /\ DeliveryIsKnown'
  BY <1>1, <1>2 DEF CodesAreDistinct, AttemptsAreAnswers, DeliveryIsKnown, In
<1>6. /\ ActiveAdminRemains' /\ SuspendedHasNoSession' /\ AnnouncedRoleIsCurrent'
      /\ AnswersAreBounded' /\ SavedCodeWasMailed'
  BY <1>1 DEF ActiveAdminRemains, ActiveAdmins, SuspendedHasNoSession,
              AnnouncedRoleIsCurrent, AnswersAreBounded, SavedCodeWasMailed
<1>7. QED
  BY <1>3, <1>4, <1>5, <1>6

-----------------------------------------------------------------------------
(* The theorems.                                                            *)

LEMMA NextInv == AccountsInv /\ [Next]_vars => AccountsInv'
<1> SUFFICES ASSUME AccountsInv, [Next]_vars
             PROVE  AccountsInv'
  OBVIOUS
<1>1. ASSUME NEW r \in Requests, Login(r)
      PROVE  AccountsInv'
  <2>1. ASSUME SmtpFails(r)
        PROVE  AccountsInv'
    BY <2>1, FinishInv DEF SmtpFails, RolledBack
  <2>2. QED
    BY <1>1, <2>1, RequestCodeInv, CompareCodeInv, CodeSentInv, CommitCodeInv,
       WrongCodeInv, FindAccountInv, RefuseSuspendedInv, OpenSessionInv DEF Login
<1>2. ASSUME NEW r \in Requests, Administer(r)
      PROVE  AccountsInv'
  BY <1>2, AdmitInv, EditUserInv, RevokeInv, CommitUserInv DEF Administer
<1>3. ASSUME NEW r \in Requests, Abandon(r)
      PROVE  AccountsInv'
  BY <1>3, FinishInv DEF Abandon
<1>4. CASE UNCHANGED vars
  BY <1>4 DEF vars, AccountsInv, TypeOK, LocksAreExclusive, CodeHolders, UserHolders,
              ReadIsCurrent, ActorIsAdmin, ActiveAdmins, CodesAreDistinct,
              AttemptsAreAnswers, DeliveryIsKnown, ActiveAdminRemains,
              SuspendedHasNoSession, AnnouncedRoleIsCurrent, AnswersAreBounded,
              SavedCodeWasMailed, In
<1>5. QED
  BY <1>1, <1>2, <1>3, <1>4, LogoutInv, CodeExpiresInv DEF Next

\* The invariant holds: a lock has one holder, and what was read under it is current.
THEOREM LocksSuffice == Spec => []AccountsInv
BY InitInv, NextInv, PTL DEF Spec

\* The rows of accounts, codes and sessions and the requests keep their types.
THEOREM TypeCorrect == Spec => []TypeOK
<1>1. AccountsInv => TypeOK
  BY DEF AccountsInv
<1>2. QED
  BY <1>1, LocksSuffice, PTL

\* Whatever administrators do to each other at the same time, one who is not
\* suspended remains.
THEOREM AnAdminRemains == Spec => []ActiveAdminRemains
<1>1. AccountsInv => ActiveAdminRemains
  BY DEF AccountsInv
<1>2. QED
  BY <1>1, LocksSuffice, PTL

\* No session belongs to a suspended account, and every session has the role its
\* login announced: a login never slips past a suspension or a change of role.
THEOREM SessionsFollowAccounts == Spec => []SessionsAreCurrent
<1>1. AccountsInv => SessionsAreCurrent
  BY DEF AccountsInv, SessionsAreCurrent
<1>2. QED
  BY <1>1, LocksSuffice, PTL

\* However many requests try a code at the same time, no more than MAX_ATTEMPTS get
\* an answer about it, and no code is saved whose email was not accepted.
THEOREM CodesAreGuarded == Spec => []CodesAreSound
<1>1. AccountsInv => CodesAreSound
  BY DEF AccountsInv, CodesAreSound
<1>2. QED
  BY <1>1, LocksSuffice, PTL

\* A session is opened by the code its address has at that moment, which then opens
\* nothing else.
THEOREM OneSessionPerCode == Spec => CodeOpensOnce
<1> DEFINE Once == \A s \in sessions' \ sessions :
                /\ codes[s.user] # None /\ codes[s.user].id = s.code
                /\ codes'[s.user] = None
<1>1. AccountsInv /\ [Next]_vars => Once
  <2> SUFFICES ASSUME AccountsInv, [Next]_vars, NEW s \in sessions' \ sessions
               PROVE  /\ codes[s.user] # None /\ codes[s.user].id = s.code
                      /\ codes'[s.user] = None
    OBVIOUS
  <2>1. PICK r \in Requests : OpenSession(r)
    BY DEF Next, vars, Login, Administer, RequestCode, CodeSent, CommitCode, SmtpFails,
           CompareCode, WrongCode, FindAccount, RefuseSuspended, Admit, EditUser,
           CommitUser, Revoke, Abandon, Logout, CodeExpires
  <2>2. s.user = req[r].email /\ s.code = req[r].code.id
    BY <2>1 DEF OpenSession
  <2>3. r \in In({"compared", "entering"})
    BY <2>1 DEF OpenSession, In
  <2>4. /\ req[r].email \in Emails /\ req[r].code # None
        /\ codes[req[r].email] = req[r].code
    BY <2>3, CodeHeld
  <2>5. codes' = CodeConsumed(req[r].email) /\ codes \in [Emails -> Code \cup {None}]
    BY <2>1 DEF OpenSession, AccountsInv, TypeOK
  <2>6. QED
    BY <2>2, <2>4, <2>5 DEF CodeConsumed
<1>2. QED
  BY <1>1, LocksSuffice, PTL DEF Spec, CodeOpensOnce

-----------------------------------------------------------------------------
(* Requests served at the same time look as if they were served in turn.    *)

SerialStep == [Serial!Next]_(Serial!vars)

LEMMA SerialStutter == ASSUME UNCHANGED <<users, codes, sessions>> PROVE SerialStep
BY DEF SerialStep, Serial!vars

\* The code that is saved is one nobody knows: it has no row and has opened nothing.
LEMMA CommitCodeRefines ==
    ASSUME AccountsInv, NEW r \in Requests, CommitCode(r)
    PROVE  SerialStep
<1> USE DEF AccountsInv
<1>1. /\ req[r] \in Sending /\ r \in In({"sending", "sent"})
      /\ req[r].email \in Emails /\ req[r].id \in CodeIds
  BY Kinds DEF CommitCode, Sending, In
<1>2. req[r].id \notin Serial!Used
  BY <1>1 DEF CodesAreDistinct, Serial!Used, Serial!HasCode
<1>3. Serial!Receive(req[r].email)
  BY <1>1, <1>2 DEF CommitCode, NewCode, Serial!Receive
<1>4. QED
  BY <1>1, <1>3 DEF SerialStep, Serial!Next

\* The row of the code is still the one that was compared.
LEMMA WrongCodeRefines ==
    ASSUME AccountsInv, NEW r \in Requests, WrongCode(r)
    PROVE  SerialStep
<1> DEFINE e == req[r].email
<1>1. r \in In({"compared", "entering"})
  BY DEF WrongCode, In
<1>2. /\ e \in Emails /\ codes[e] = req[r].code /\ codes[e] # None
      /\ codes[e].attempts < MaxAttempts
  BY <1>1, CodeHeld DEF AccountsInv, ReadIsCurrent
<1>3. codes' = [codes EXCEPT ![e].attempts = @ + 1]
  BY <1>2 DEF WrongCode
<1>4. Serial!Mistake(e)
  BY <1>2, <1>3 DEF WrongCode, Serial!Mistake, Serial!HasCode
<1>5. QED
  BY <1>2, <1>4 DEF SerialStep, Serial!Next

LEMMA ConsumptionRefines ==
    ASSUME NEW e \in Emails, codes[e] # None, codes' = CodeConsumed(e),
           UNCHANGED <<users, sessions>>
    PROVE  SerialStep
BY DEF CodeConsumed, SerialStep, Serial!Next, Serial!Withdraw, Serial!HasCode

LEMMA RefuseSuspendedRefines ==
    ASSUME AccountsInv, NEW r \in Requests, RefuseSuspended(r)
    PROVE  SerialStep
<1>1. r \in In({"compared", "entering"})
  BY DEF RefuseSuspended, In
<1>2. req[r].email \in Emails /\ codes[req[r].email] # None
  BY <1>1, CodeHeld
<1>3. QED
  BY <1>2, ConsumptionRefines DEF RefuseSuspended

\* What a login makes of the row of an account that is not suspended.
LEMMA LoggedIn ==
    ASSUME NEW user \in User, ~user.disabled
    PROVE  [user EXCEPT !.verified = TRUE]
              = [role |-> user.role, disabled |-> FALSE, verified |-> TRUE]
<1> DEFINE after == [user EXCEPT !.verified = TRUE]
           row   == [role |-> user.role, disabled |-> FALSE, verified |-> TRUE]
<1>1. user.disabled = FALSE
  BY DEF User
<1>2. /\ after \in User /\ row \in User /\ after.role = row.role
      /\ after.disabled = user.disabled /\ after.verified = row.verified
  BY DEF User
<1>3. row.disabled = FALSE
  OBVIOUS
<1>4. \A v, w \in User : v.role = w.role /\ v.disabled = w.disabled /\ v.verified = w.verified
            => v = w
  BY DEF User
<1> HIDE DEF after, row
<1>5. after = row
  BY <1>1, <1>2, <1>3, <1>4
<1>. QED
  BY <1>5 DEF after, row

\* Code and account are still those that were read: the session is opened by the code of
\* its address, on the account as it is.
LEMMA OpenSessionRefines ==
    ASSUME AccountsInv, NEW r \in Requests, OpenSession(r)
    PROVE  SerialStep
<1> USE DEF AccountsInv
<1> DEFINE e     == req[r].email
           known == req[r].user
           role  == IF known = None THEN "user" ELSE known.role
           row   == [role     |-> IF Serial!HasAccount(e) THEN users[e].role ELSE "user",
                     disabled |-> FALSE, verified |-> TRUE]
<1>1. /\ req[r] \in Entering /\ r \in In({"entering"}) /\ r \in In({"compared", "entering"})
  BY Kinds DEF OpenSession, In
<1>2. /\ e \in Emails /\ codes[e] = req[r].code /\ codes[e] # None
      /\ codes[e].attempts < MaxAttempts
      /\ users[e] = known /\ known \in User \cup {None}
  BY <1>1, CodeHeld DEF Entering, ReadIsCurrent
<1>3. users \in [Emails -> User \cup {None}]
  BY DEF TypeOK
<1>4. users' = [users EXCEPT ![e] = row]
  <2>1. CASE known = None
    BY <1>2, <2>1 DEF OpenSession, Serial!HasAccount
  <2>2. CASE known # None
    <3>1. known \in User /\ ~known.disabled
      BY <1>2, <2>2 DEF OpenSession
    <3>2. [known EXCEPT !.verified = TRUE] = row
      BY <1>2, <2>2, <3>1, LoggedIn DEF Serial!HasAccount
    <3>3. users' = [users EXCEPT ![e] = [known EXCEPT !.verified = TRUE]]
      BY <1>2, <1>3, <2>2 DEF OpenSession
    <3>. QED
      BY <3>2, <3>3
  <2>. QED
    BY <2>1, <2>2
<1>5. users'[e].role = role
  BY <1>2, <1>3, <1>4 DEF Serial!HasAccount
<1>6. Serial!HasAccount(e) => ~users[e].disabled
  BY <1>2 DEF OpenSession, Serial!HasAccount
<1>7. codes' = [codes EXCEPT ![e] = None]
  BY DEF OpenSession, CodeConsumed
<1>8. \E rotated \in {{}} \cup {{s} : s \in sessions} :
        sessions' = (sessions \ rotated) \cup
            {[user |-> e, code |-> codes[e].id, role |-> users'[e].role]}
  BY <1>2, <1>5 DEF OpenSession
<1> HIDE DEF role
<1>9. Serial!Enter(e)
  BY <1>2, <1>4, <1>6, <1>7, <1>8 DEF Serial!Enter, Serial!HasCode
<1>10. QED
  BY <1>2, <1>9 DEF SerialStep, Serial!Next

\* The administrator whose request is admitted is one as long as it is served.
LEMMA ActorMayAdminister ==
    ASSUME AccountsInv, NEW r \in In({"admin", "editing"})
    PROVE  req[r].actor \in Emails /\ Serial!IsAdministrator(req[r].actor)
BY DEF AccountsInv, ActorIsAdmin, ActiveAdmins, Serial!IsAdministrator, Serial!HasAccount

\* The account that is edited is still as it was read.
LEMMA CommitUserRefines ==
    ASSUME AccountsInv, NEW r \in Requests, CommitUser(r)
    PROVE  SerialStep
<1> USE DEF AccountsInv
<1> DEFINE e == req[r].email
           actor == req[r].actor
<1>1. /\ req[r] \in Editing /\ r \in In({"editing"}) /\ r \in In({"admin", "editing"})
  BY Kinds DEF CommitUser, In
<1>2. /\ e \in Emails /\ users[e] = req[r].before /\ users[e] \in User /\ users[e] # None
      /\ req[r].role \in {"user", "admin"} /\ req[r].disabled \in BOOLEAN
  BY <1>1, AccountsAssumption DEF Editing, ReadIsCurrent
<1>3. /\ actor \in Emails /\ Serial!IsAdministrator(actor)
      /\ e = actor => req[r].role = "admin" /\ ~req[r].disabled
  BY <1>1, ActorMayAdminister DEF ActorIsAdmin
<1>4. users' = [users EXCEPT ![e].role = req[r].role, ![e].disabled = req[r].disabled]
  BY DEF CommitUser
<1>5. users' = users <=> ~Changed(r)
  <2> DEFINE one == [users[e] EXCEPT !.role = req[r].role, !.disabled = req[r].disabled]
  <2>1. users \in [Emails -> User \cup {None}]
    BY DEF TypeOK
  <2>2. users' = [users EXCEPT ![e] = one]
    BY <1>2, <1>4, <2>1
  <2>3. users' = users <=> one = users[e]
    BY <1>2, <2>1, <2>2
  <2>4. one = users[e] <=> users[e].role = req[r].role /\ users[e].disabled = req[r].disabled
    BY <1>2 DEF User
  <2>. QED
    BY <1>2, <2>3, <2>4 DEF Changed
<1>6. sessions' = IF users' = users THEN sessions ELSE sessions \ Serial!SessionsOf(e)
  BY <1>5 DEF CommitUser, SessionsOf, Serial!SessionsOf
<1>7. Serial!Edit(actor, e)
  BY <1>2, <1>3, <1>4, <1>6 DEF CommitUser, Serial!Edit, Serial!HasAccount
<1>8. QED
  BY <1>2, <1>3, <1>7 DEF SerialStep, Serial!Next

LEMMA RevokeRefines ==
    ASSUME AccountsInv, NEW r \in Requests, NEW e \in Emails, Revoke(r, e)
    PROVE  SerialStep
<1>1. r \in In({"admin", "editing"})
  BY DEF Revoke, In
<1>2. Serial!Revoke(req[r].actor, e)
  BY <1>1, ActorMayAdminister
     DEF Revoke, SessionsOf, Serial!Revoke, Serial!SessionsOf, Serial!HasAccount
<1>3. QED
  BY <1>1, <1>2, ActorMayAdminister DEF SerialStep, Serial!Next

\* Whatever requests are served at the same time, each leaves in the tables what it would
\* have left alone, at its commit, or nothing.
THEOREM RequestsSerialize == Spec => ImplementsSerial
<1>1. Init => Serial!Init
  BY DEF Init, Serial!Init
<1>2. AccountsInv /\ [Next]_vars => [Serial!Next]_(Serial!vars)
  <2> SUFFICES ASSUME AccountsInv, [Next]_vars
               PROVE  SerialStep
    BY DEF SerialStep
  <2>1. ASSUME NEW r \in Requests, Login(r)
        PROVE  SerialStep
    <3>1. CASE \/ \E e \in Emails : RequestCode(r, e) \/ CompareCode(r, e)
               \/ CodeSent(r) \/ SmtpFails(r) \/ FindAccount(r)
      BY <3>1, SerialStutter
         DEF RequestCode, CompareCode, CodeSent, SmtpFails, RolledBack, FindAccount
    <3>2. QED
      BY <2>1, <3>1, CommitCodeRefines, WrongCodeRefines, RefuseSuspendedRefines,
         OpenSessionRefines DEF Login
  <2>2. ASSUME NEW r \in Requests, Administer(r)
        PROVE  SerialStep
    <3>1. CASE \/ \E s \in sessions : Admit(r, s)
               \/ \E e \in Emails : EditUser(r, e)
      BY <3>1, SerialStutter DEF Admit, EditUser
    <3>2. QED
      BY <2>2, <3>1, RevokeRefines, CommitUserRefines DEF Administer
  <2>3. ASSUME NEW r \in Requests, Abandon(r)
        PROVE  SerialStep
    BY <2>3, SerialStutter DEF Abandon
  <2>4. ASSUME NEW s \in sessions, Logout(s)
        PROVE  SerialStep
    BY <2>4 DEF Logout, SerialStep, Serial!Next, Serial!Leave
  <2>5. ASSUME NEW e \in Emails, CodeExpires(e)
        PROVE  SerialStep
    BY <2>5, ConsumptionRefines DEF CodeExpires
  <2>6. CASE UNCHANGED vars
    BY <2>6, SerialStutter DEF vars
  <2>7. QED
    BY <2>1, <2>2, <2>3, <2>4, <2>5, <2>6 DEF Next
<1>3. QED
  BY <1>1, <1>2, LocksSuffice, PTL DEF Spec, ImplementsSerial, Serial!Spec

===============================================================================
