-------------------------- MODULE ScriptQueueProofs --------------------------
(***************************************************************************)
(* Theorems about ScriptQueue, for every number of workers, scripts and    *)
(* administrators, and with no bound on the clock or on the faults.        *)
(***************************************************************************)
EXTENDS ScriptQueueLedger, SequenceTheorems, TLAPS

(* The next instant of a cron is a natural number.                          *)
LEMMA UpcomingType ==
    ASSUME NEW c \in Crons, NEW t \in Nat
    PROVE  Upcoming(c, t) \in Nat
<1>1. c \in Nat \ {0}
  BY QueueAssumption
<1>2. t \div c \in Nat
  BY <1>1
<1>3. QED
  BY <1>1, <1>2 DEF Upcoming

(* Writing a row at rank i of a table of runs keeps the table well typed when *)
(* the row is; at a rank that does not exist nothing is written.             *)
LEMMA WriteType ==
    ASSUME NEW table \in [Scripts -> Seq(Run)], NEW s, NEW i, NEW row,
           s \in Scripts /\ i \in DOMAIN table[s] => row \in Run
    PROVE  [table EXCEPT ![s][i] = row] \in [Scripts -> Seq(Run)]
<1>1. CASE s \in Scripts /\ i \in DOMAIN table[s]
  <2>1. row \in Run
    BY <1>1
  <2>2. [table[s] EXCEPT ![i] = row] \in Seq(Run)
    BY <1>1, <2>1
  <2>3. QED
    BY <1>1, <2>2
<1>2. CASE s \in Scripts /\ i \notin DOMAIN table[s]
  <2>1. [table[s] EXCEPT ![i] = row] = table[s]
    BY <1>2
  <2>2. QED
    BY <1>2, <2>1
<1>3. CASE s \notin Scripts
  BY <1>3
<1>4. QED
  BY <1>1, <1>2, <1>3

LEMMA InterruptedType ==
    ASSUME NEW rows \in Seq(Run)
    PROVE  /\ Interrupted(rows) \in Seq(Run)
           /\ DOMAIN Interrupted(rows) = DOMAIN rows
           /\ Len(Interrupted(rows)) = Len(rows)
<1>1. Len(rows) \in Nat /\ DOMAIN rows = 1..Len(rows)
  OBVIOUS
<1>2. \A i \in DOMAIN rows : rows[i] \in Run
  OBVIOUS
<1>3. \A i \in DOMAIN rows : [rows[i] EXCEPT !.status = "interrupted"] \in Run
  BY <1>2 DEF Run, Status, Finished
<1>4. Interrupted(rows) \in [1..Len(rows) -> Run]
  BY <1>1, <1>2, <1>3 DEF Interrupted
<1>5. QED
  BY <1>1, <1>4, SeqDef

LEMMA SweptType ==
    ASSUME TypeOK, NEW s \in Scripts, NEW t \in Nat
    PROVE  Swept(s, t) \in Seq(Run)
<1>1. runs[s] \in Seq(Run)
  BY DEF TypeOK
<1>2. Interrupted(runs[s]) \in Seq(Run)
  BY <1>1, InterruptedType
<1>3. NewRun(t, "schedule") \in Run
  BY DEF NewRun, Run, Status, Active
<1>4. QED
  BY <1>2, <1>3 DEF Swept

LEMMA LeaveType ==
    ASSUME TypeOK, NEW w \in Workers, NEW place \in Places, Leave(w, place)
    PROVE  /\ pc' \in [Workers -> Places]
           /\ tickNow' \in [Workers -> Nat]
           /\ ids' \in [Workers -> SUBSET RunKeys]
           /\ cur' \in [Workers -> RunKeys \cup {None}]
           /\ outcome' \in [Workers -> Outcome]
           /\ schedLock' \in Workers \cup {None}
           /\ sourceLock' \in Workers \cup {Cli, None}
BY DEF TypeOK, Leave, ReleaseLock, Nothing, Outcome

LEMMA ConclusionType ==
    ASSUME TypeOK, NEW w \in Workers, Exists(cur[w])
    PROVE  Conclusion(w) \in Run
<1>1. RunAt(cur[w]) \in Run
  BY DEF TypeOK, Exists, RunAt
<1>2. outcome[w] \in Outcome /\ now \in Nat
  BY DEF TypeOK
<1>3. now + BusyDelay \in Nat /\ now + Cooldown \in Nat
  BY <1>2, QueueAssumption
<1>4. outcome[w].kind \in {"succeeded", "failed", "busy", "StakeDeferred", "LoltvBlocked"}
  BY <1>2, QueueAssumption DEF Outcome
<1>5. outcome[w].retry \in Nat
  BY <1>2 DEF Outcome
<1>6. QED
  BY <1>1, <1>2, <1>3, <1>4, <1>5 DEF Conclusion, Run, Status, Active, Finished

-----------------------------------------------------------------------------
(* Type correctness.                                                        *)

LEMMA InitTypeOK == Init => TypeOK
<1> SUFFICES ASSUME Init
             PROVE  TypeOK
  OBVIOUS
<1>1. schedules \in [Scripts -> Schedule]
  <2>1. 0 \in Nat
    OBVIOUS
  <2>2. \A c \in Crons : Upcoming(c, 0) \in Nat
    BY <2>1, UpcomingType
  <2>3. \A c \in Crons : [cron |-> c, enabled |-> TRUE, next |-> Upcoming(c, 0),
                          revision |-> 1] \in Schedule
    BY <2>2 DEF Schedule
  <2>4. QED
    BY <2>3 DEF Init
<1>2. runs \in [Scripts -> Seq(Run)]
  BY DEF Init
<1>3. Nothing \in Outcome
  BY DEF Nothing, Outcome
<1>4. QED
  BY <1>1, <1>2, <1>3 DEF Init, TypeOK, Places

LEMMA ThreadTypeOK ==
    ASSUME TypeOK, NEW w \in Workers, Thread(w)
    PROVE  TypeOK'
<1>1. CASE StartTick(w)
  BY <1>1 DEF StartTick, TypeOK, queueVars, boundVars, Places, Holding
<1>2. CASE Sweep(w)
  <2> DEFINE t == tickNow[w]
  <2>1. t \in Nat
    BY DEF TypeOK
  <2>2. runs' \in [Scripts -> Seq(Run)]
    <3>1. \A s \in Scripts : Swept(s, t) \in Seq(Run)
      BY <2>1, SweptType
    <3>2. QED
      BY <1>2, <3>1 DEF Sweep
  <2>3. schedules' \in [Scripts -> Schedule]
    <3>1. \A s \in Scripts : schedules[s] \in Schedule
      BY DEF TypeOK
    <3>2. \A s \in Scripts : schedules[s].cron \in Crons
      BY <3>1 DEF Schedule
    <3>3. \A s \in Scripts : Upcoming(schedules[s].cron, t) \in Nat
      BY <2>1, <3>2, UpcomingType
    <3>4. \A s \in Scripts : Rescheduled(s, t) \in Schedule
      BY <3>1, <3>3 DEF Rescheduled, Schedule
    <3>5. QED
      BY <1>2, <3>4 DEF Sweep
  <2>4. ids' \in [Workers -> SUBSET RunKeys]
    <3>1. \A s \in Scripts : DOMAIN Swept(s, t) \subseteq Nat
      BY <2>1, SweptType
    <3>2. UNION {{s} \X DOMAIN Swept(s, t) : s \in Scripts} \subseteq RunKeys
      BY <3>1 DEF RunKeys
    <3>3. QED
      BY <1>2, <3>2 DEF Sweep, TypeOK
  <2>5. QED
    BY <1>2, <2>2, <2>3, <2>4 DEF Sweep, TypeOK, lockVars, boundVars, Places, Holding
<1>3. CASE StartRun(w)
  <2>1. PICK k \in ids[w] :
          /\ runs' = [runs EXCEPT ![k[1]][k[2]].status = "running"]
          /\ cur' = [cur EXCEPT ![w] = k]
          /\ ids' = [ids EXCEPT ![w] = @ \ {k}]
    BY <1>3 DEF StartRun
  <2>2. k \in RunKeys
    BY DEF TypeOK
  <2>3. runs' \in [Scripts -> Seq(Run)]
    <3> DEFINE row == [runs[k[1]][k[2]] EXCEPT !.status = "running"]
    <3>1. k[1] \in Scripts /\ k[2] \in DOMAIN runs[k[1]] => row \in Run
      <4>1. k[1] \in Scripts /\ k[2] \in DOMAIN runs[k[1]] => runs[k[1]][k[2]] \in Run
        BY DEF TypeOK
      <4>2. QED
        BY <4>1 DEF Run, Status, Active
    <3>2. runs' = [runs EXCEPT ![k[1]][k[2]] = row]
      BY <2>1
    <3>3. runs \in [Scripts -> Seq(Run)]
      BY DEF TypeOK
    <3> HIDE DEF row
    <3>4. QED
      BY <3>1, <3>2, <3>3, WriteType
  <2>4. QED
    BY <1>3, <2>1, <2>2, <2>3
       DEF StartRun, TypeOK, lockVars, boundVars, Places, Holding, Executing
<1>4. CASE StartRefused(w) \/ EndTick(w) \/ RequeueRefused(w)
  <2>1. Leave(w, "idle") /\ "idle" \in Places
    BY <1>4 DEF StartRefused, EndTick, RequeueRefused, Places
  <2>2. UNCHANGED <<now, queueVars, seen, stopping, form, boundVars>>
    BY <1>4 DEF StartRefused, EndTick, RequeueRefused
  <2>3. QED
    BY <2>1, <2>2, LeaveType DEF TypeOK, queueVars, boundVars
<1>5. CASE StartCollection(w)
  BY <1>5 DEF StartCollection, TypeOK, queueVars, boundVars, Places, Holding, Executing
<1>6. CASE CollectionIsBusy(w)
  BY <1>6 DEF CollectionIsBusy, TypeOK, queueVars, lockVars, boundVars, Places, Holding,
              Executing, Outcome
<1>7. CASE EndCollection(w)
  <2>1. liveDue' \in Nat \cup {None}
    BY <1>7, QueueAssumption DEF EndCollection, NextDeadline, TypeOK
  <2>2. outcome' \in [Workers -> Outcome]
    BY <1>7, QueueAssumption DEF EndCollection, TypeOK, Outcome
  <2>3. QED
    BY <1>7, <2>1, <2>2 DEF EndCollection, TypeOK, boundVars, Places, Holding, Executing
<1>8. CASE Conclude(w)
  <2> DEFINE k == cur[w]
             row == Conclusion(w)
  <2>1. Exists(k) => row \in Run
    BY ConclusionType
  <2>2. runs' = [runs EXCEPT ![k[1]][k[2]] = row]
    BY <1>8 DEF Conclude
  <2>3. runs \in [Scripts -> Seq(Run)]
    BY DEF TypeOK
  <2>4. k[1] \in Scripts /\ k[2] \in DOMAIN runs[k[1]] => row \in Run
    BY <2>1 DEF Exists
  <2>5. runs' \in [Scripts -> Seq(Run)]
    <3> HIDE DEF k, row
    <3>1. QED
      BY <2>2, <2>3, <2>4, WriteType
  <2>6. QED
    BY <1>8, <2>5 DEF Conclude, TypeOK, lockVars, boundVars, Places, Holding, Nothing, Outcome
<1>9. QED
  BY <1>1, <1>2, <1>3, <1>4, <1>5, <1>6, <1>7, <1>8 DEF Thread

LEMMA ProcessTypeOK ==
    ASSUME TypeOK, NEW w \in Workers, Process(w)
    PROVE  TypeOK'
<1>1. CASE DatabaseFails(w)
  <2>1. faults' \in Nat
    BY <1>1 DEF DatabaseFails, TypeOK
  <2>2. CASE Leave(w, "idle")
    <3>1. "idle" \in Places
      BY DEF Places
    <3>2. QED
      BY <1>1, <2>1, <2>2, <3>1, LeaveType DEF DatabaseFails, TypeOK, queueVars
  <2>3. CASE /\ outcome' = [outcome EXCEPT ![w].kind = "failed"]
             /\ UNCHANGED <<lockVars, pc, tickNow, ids, cur>>
    <3>1. outcome' \in [Workers -> Outcome]
      BY <2>3 DEF TypeOK, Outcome
    <3>2. QED
      BY <1>1, <2>1, <2>3, <3>1 DEF DatabaseFails, TypeOK, queueVars, lockVars
  <2>4. QED
    BY <1>1, <2>2, <2>3 DEF DatabaseFails
<1>2. CASE Crash(w)
  <2>1. Leave(w, "down") /\ "down" \in Places
    BY <1>2 DEF Crash, Places
  <2>2. /\ faults' \in Nat
        /\ stopping' \in [Workers -> BOOLEAN]
        /\ UNCHANGED <<now, queueVars, seen, form, losses>>
    BY <1>2 DEF Crash, TypeOK
  <2>3. QED
    BY <2>1, <2>2, LeaveType DEF TypeOK, queueVars
<1>3. CASE Stop(w)
  BY <1>3 DEF Stop, TypeOK, queueVars, lockVars, threadVars
<1>4. CASE Exit(w)
  BY <1>4 DEF Exit, TypeOK, queueVars, lockVars, boundVars, Places
<1>5. CASE Restart(w)
  BY <1>5 DEF Restart, TypeOK, queueVars, lockVars, boundVars, Places
<1>6. CASE Heartbeat(w) \/ HeartbeatExpires(w)
  BY <1>6 DEF Heartbeat, HeartbeatExpires, TypeOK, queueVars, lockVars, threadVars, boundVars
<1>7. CASE LoseLock(w)
  BY <1>7 DEF LoseLock, TypeOK, queueVars, threadVars
<1>8. QED
  BY <1>1, <1>2, <1>3, <1>4, <1>5, <1>6, <1>7 DEF Process

LEMMA OutsideTypeOK ==
    ASSUME TypeOK, StartCli \/ EndCli \/ Advance
    PROVE  TypeOK'
<1>1. CASE StartCli
  BY <1>1 DEF StartCli, TypeOK, queueVars, threadVars, boundVars
<1>2. CASE EndCli
  <2>1. liveDue' \in Nat \cup {None}
    BY <1>2, QueueAssumption DEF EndCli, NextDeadline, TypeOK
  <2>2. QED
    BY <1>2, <2>1 DEF EndCli, TypeOK, threadVars, boundVars
<1>3. CASE Advance
  BY <1>3 DEF Advance, TypeOK, queueVars, lockVars, threadVars, boundVars
<1>4. QED
  BY <1>1, <1>2, <1>3

LEMMA AdministrationTypeOK ==
    ASSUME TypeOK, Administration
    PROVE  TypeOK'
<1>1. ASSUME NEW a \in Admins, NEW s \in Scripts, OpenForm(a, s)
      PROVE  TypeOK'
  <2>1. schedules[s] \in Schedule
    BY DEF TypeOK
  <2>2. [phase |-> "open", script |-> s, date |-> 0,
         seen |-> [cron |-> schedules[s].cron, enabled |-> schedules[s].enabled,
                   revision |-> schedules[s].revision],
         cron |-> schedules[s].cron, enabled |-> schedules[s].enabled] \in Form
    BY <2>1 DEF Form, Shown, Schedule
  <2>3. form' \in [Admins -> Form \cup {None}]
    BY <1>1, <2>2 DEF OpenForm, TypeOK
  <2>4. QED
    BY <1>1, <2>3 DEF OpenForm, TypeOK, queueVars, lockVars, threadVars, boundVars
<1>2. ASSUME NEW a \in Admins, SubmitEdit(a)
      PROVE  TypeOK'
  <2>1. form[a] \in Form
    BY <1>2 DEF SubmitEdit, Phase, TypeOK
  <2>2. PICK c \in Crons, e \in BOOLEAN :
          form' = [form EXCEPT ![a] = [@ EXCEPT !.phase = "submitted", !.cron = c,
                                          !.enabled = e, !.date = Upcoming(c, now)]]
    BY <1>2 DEF SubmitEdit
  <2>3. Upcoming(c, now) \in Nat
    BY UpcomingType DEF TypeOK
  <2>4. [form[a] EXCEPT !.phase = "submitted", !.cron = c, !.enabled = e,
                        !.date = Upcoming(c, now)] \in Form
    BY <2>1, <2>3 DEF Form
  <2>5. form' \in [Admins -> Form \cup {None}]
    BY <2>2, <2>4 DEF TypeOK
  <2>6. QED
    BY <1>2, <2>5 DEF SubmitEdit, TypeOK, queueVars, lockVars, threadVars, boundVars
<1>3. ASSUME NEW a \in Admins, CommitEdit(a)
      PROVE  TypeOK'
  <2>1. form[a] \in Form
    BY <1>3 DEF CommitEdit, Phase, TypeOK
  <2>2. form[a].script \in Scripts
    BY <2>1 DEF Form
  <2>3. schedules[form[a].script] \in Schedule
    BY <2>2 DEF TypeOK
  <2>4. Edited(a) \in Schedule
    <3>1. form[a].cron \in Crons /\ form[a].enabled \in BOOLEAN /\ form[a].date \in Nat
      BY <2>1 DEF Form
    <3>2. schedules[form[a].script].revision + 1 \in Nat
      BY <2>3 DEF Schedule
    <3>3. QED
      BY <3>1, <3>2 DEF Edited, Schedule
  <2>5. schedules' \in [Scripts -> Schedule]
    BY <1>3, <2>4 DEF CommitEdit, TypeOK
  <2>6. QED
    BY <1>3, <2>5 DEF CommitEdit, TypeOK, lockVars, threadVars, boundVars
<1>4. ASSUME NEW s \in Scripts, RequestRun(s)
      PROVE  TypeOK'
  <2>1. NewRun(now, "manual") \in Run
    BY DEF NewRun, Run, Status, Active, TypeOK
  <2>2. Append(runs[s], NewRun(now, "manual")) \in Seq(Run)
    BY <2>1 DEF TypeOK
  <2>3. runs' \in [Scripts -> Seq(Run)]
    BY <1>4, <2>2 DEF RequestRun, TypeOK
  <2>4. QED
    BY <1>4, <2>3 DEF RequestRun, TypeOK, lockVars, threadVars, boundVars
<1>5. QED
  BY <1>1, <1>2, <1>3, <1>4 DEF Administration

\* Every table, lock and local variable keeps its type, whatever the bounds.
THEOREM TypeCorrect == Spec => []TypeOK
<1>1. Init => TypeOK
  BY InitTypeOK
<1>2. TypeOK /\ [Next]_vars => TypeOK'
  <2> SUFFICES ASSUME TypeOK, [Next]_vars
               PROVE  TypeOK'
    OBVIOUS
  <2>1. ASSUME NEW w \in Workers, Thread(w)
        PROVE  TypeOK'
    BY <2>1, ThreadTypeOK
  <2>2. ASSUME NEW w \in Workers, Process(w)
        PROVE  TypeOK'
    BY <2>2, ProcessTypeOK
  <2>3. CASE StartCli \/ EndCli \/ Advance
    BY <2>3, OutsideTypeOK
  <2>4. CASE Administration
    BY <2>4, AdministrationTypeOK
  <2>5. CASE UNCHANGED vars
    BY <2>5 DEF vars, TypeOK, queueVars, lockVars, threadVars, boundVars
  <2>6. QED
    BY <2>1, <2>2, <2>3, <2>4, <2>5 DEF Next
<1>3. QED
  BY <1>1, <1>2, PTL DEF Spec

(* The four transactions that write script_runs.                              *)
LEMMA Writers ==
    ASSUME [Next]_vars
    PROVE  \/ UNCHANGED runs
           \/ \E w \in Workers : Sweep(w) \/ StartRun(w) \/ Conclude(w)
           \/ \E s \in Scripts : RequestRun(s)
BY DEF Next, Thread, Process, Administration, vars, queueVars, StartTick, StartRefused,
       EndTick, StartCollection, CollectionIsBusy, EndCollection, RequeueRefused,
       DatabaseFails, Crash, Stop, Exit, Restart, Heartbeat, HeartbeatExpires, LoseLock,
       StartCli, EndCli, Advance, OpenForm, SubmitEdit, CommitEdit

-----------------------------------------------------------------------------
(* The scheduler lock.  The invariant is about the four parts that follow      *)
(* TypeOK in QueueInv.                                                         *)

Grip == LockHeld /\ TickIsPast /\ ListedRuns /\ ExecutedRun

(* While one thread is in a tick no other thread holds a claim on a run.       *)
LEMMA Alone ==
    ASSUME QueueInv, NEW w \in Workers, pc[w] \in Holding
    PROVE  \A v \in Workers \ {w} : pc[v] \notin Holding /\ ids[v] = {} /\ cur[v] = None
BY DEF QueueInv, LockHeld, ListedRuns, ExecutedRun, Holding

(* What the first transaction of a tick does to the rows that exist.           *)
LEMMA SweptRows ==
    ASSUME TypeOK, NEW s \in Scripts, NEW t \in Nat, NEW i \in DOMAIN runs[s]
    PROVE  /\ i \in DOMAIN Swept(s, t)
           /\ runs[s][i].status # "running" => Swept(s, t)[i] = runs[s][i]
<1>1. runs[s] \in Seq(Run)
  BY DEF TypeOK
<1>2. /\ Interrupted(runs[s]) \in Seq(Run)
      /\ DOMAIN Interrupted(runs[s]) = DOMAIN runs[s]
      /\ Len(Interrupted(runs[s])) = Len(runs[s])
  BY <1>1, InterruptedType
<1>3. runs[s][i].status # "running" => Interrupted(runs[s])[i] = runs[s][i]
  BY DEF Interrupted
<1>4. i \in 1..Len(runs[s])
  BY <1>1
<1>5. \A row : /\ i \in DOMAIN Append(Interrupted(runs[s]), row)
               /\ Append(Interrupted(runs[s]), row)[i] = Interrupted(runs[s])[i]
  BY <1>2, <1>4
<1>6. QED
  BY <1>2, <1>3, <1>5 DEF Swept

(* Leaving a tick drops every claim with the lock.                             *)
LEMMA LeaveGrip ==
    ASSUME QueueInv, NEW w \in Workers, NEW place \in {"idle", "down"}, Leave(w, place),
           UNCHANGED <<now, runs>>
    PROVE  Grip'
<1>1. LockHeld'
  <2>1. pc'[w] \notin Holding /\ schedLock' # w
    BY QueueAssumption DEF Leave, ReleaseLock, QueueInv, TypeOK, Holding, Executing
  <2>2. \A v \in Workers \ {w} : pc'[v] = pc[v]
    BY DEF Leave, QueueInv, TypeOK
  <2>3. \A v \in Workers \ {w} : schedLock' = v <=> schedLock = v
    BY QueueAssumption DEF Leave, ReleaseLock
  <2>4. QED
    BY <2>1, <2>2, <2>3 DEF LockHeld, QueueInv
<1>2. TickIsPast'
  BY DEF Leave, QueueInv, TypeOK, TickIsPast
<1>3. \A v \in Workers : ids'[v] = {} \/ (v # w /\ ids'[v] = ids[v] /\ pc'[v] = pc[v])
  BY DEF Leave, QueueInv, TypeOK
<1>4. \A v \in Workers \ {w} : cur'[v] = cur[v] /\ pc'[v] = pc[v]
  BY DEF Leave, QueueInv, TypeOK
<1>5. cur'[w] = None /\ pc'[w] \notin Executing
  BY DEF Leave, QueueInv, TypeOK, Executing
<1>6. ListedRuns'
  BY <1>3 DEF ListedRuns, QueueInv, Exists, RunAt
<1>7. ExecutedRun'
  BY <1>4, <1>5 DEF ExecutedRun, QueueInv, Exists, RunAt
<1>8. QED
  BY <1>1, <1>2, <1>6, <1>7 DEF Grip

LEMMA StartTickGrip ==
    ASSUME QueueInv, NEW w \in Workers, StartTick(w)
    PROVE  Grip'
<1>1. /\ pc' = [pc EXCEPT ![w] = "locked"]
      /\ tickNow' = [tickNow EXCEPT ![w] = now]
      /\ schedLock' = w
      /\ UNCHANGED <<now, runs, ids, cur>>
  BY DEF StartTick, queueVars
<1>2. pc[w] = "idle" /\ schedLock = None
  BY DEF StartTick, TakeLock
<1>3. LockHeld'
  BY <1>1, <1>2, QueueAssumption DEF LockHeld, QueueInv, TypeOK, Holding
<1>4. TickIsPast'
  BY <1>1 DEF TickIsPast, QueueInv, TypeOK
<1>5. ListedRuns'
  BY <1>1, <1>2 DEF ListedRuns, QueueInv, TypeOK, Executing, Exists, RunAt
<1>6. ExecutedRun'
  BY <1>1, <1>2 DEF ExecutedRun, QueueInv, TypeOK, Executing, Exists, RunAt
<1>7. QED
  BY <1>3, <1>4, <1>5, <1>6 DEF Grip

LEMMA SweepGrip ==
    ASSUME QueueInv, NEW w \in Workers, Sweep(w)
    PROVE  Grip'
<1> DEFINE t == tickNow[w]
<1>1. TypeOK /\ t \in Nat /\ now \in Nat /\ t <= now /\ pc[w] = "locked"
  BY DEF QueueInv, TypeOK, TickIsPast, Sweep
<1>2. \A v \in Workers \ {w} : pc[v] \notin Holding /\ ids[v] = {} /\ cur[v] = None
  BY <1>1, Alone DEF Holding
<1>3. cur[w] = None
  BY <1>1 DEF QueueInv, ExecutedRun, Executing
<1>4. /\ pc' = [pc EXCEPT ![w] = "dispatch"]
      /\ UNCHANGED <<now, schedLock, tickNow, cur>>
  BY DEF Sweep, lockVars
<1>5. LockHeld'
  BY <1>1, <1>4 DEF LockHeld, QueueInv, TypeOK, Holding
<1>6. TickIsPast'
  BY <1>4 DEF TickIsPast, QueueInv
<1>7. ListedRuns'
  <2>1. \A v \in Workers \ {w} : ids'[v] = {}
    BY <1>2 DEF Sweep, QueueInv, TypeOK
  <2>2. \A k \in ids'[w] :
          /\ k[1] \in Scripts
          /\ k[2] \in DOMAIN Swept(k[1], t)
          /\ Claimable(Swept(k[1], t)[k[2]], t)
    BY <1>1 DEF Sweep, TypeOK
  <2>3. \A s \in Scripts : runs'[s] = Swept(s, t)
    BY DEF Sweep
  <2>4. \A s \in Scripts : runs'[s] \in Seq(Run)
    BY <1>1, <2>3, SweptType
  <2>5. ASSUME NEW k \in ids'[w]
        PROVE  (Exists(k) /\ RunAt(k).status = "queued" /\ RunAt(k).available <= now)'
    <3>1. runs'[k[1]][k[2]] \in Run
      BY <2>2, <2>3, <2>4
    <3>2. runs'[k[1]][k[2]].available \in Nat
      BY <3>1 DEF Run
    <3>3. runs'[k[1]][k[2]].available <= t
      BY <2>2, <2>3 DEF Claimable
    <3>4. runs'[k[1]][k[2]].available <= now'
      BY <1>1, <1>4, <3>2, <3>3
    <3>5. QED
      BY <2>2, <2>3, <3>4 DEF Exists, RunAt, Claimable
  <2>6. pc'[w] = "dispatch"
    BY <1>4 DEF QueueInv, TypeOK
  <2>7. QED
    BY <2>1, <2>5, <2>6 DEF ListedRuns
<1>8. ExecutedRun'
  <2>1. \A v \in Workers : cur'[v] = None
    BY <1>2, <1>3, <1>4
  <2>2. \A v \in Workers : pc'[v] \notin Executing
    BY <1>2, <1>4 DEF QueueInv, TypeOK, Holding, Executing
  <2>3. QED
    BY <2>1, <2>2 DEF ExecutedRun
<1>9. QED
  BY <1>5, <1>6, <1>7, <1>8 DEF Grip

(* Writing one row leaves every other row as it was.                           *)
LEMMA OtherRows ==
    ASSUME TypeOK, NEW k \in RunKeys, NEW j \in RunKeys, NEW row, j # k, Exists(j),
           runs' = [runs EXCEPT ![k[1]][k[2]] = row]
    PROVE  Exists(j)' /\ RunAt(j)' = RunAt(j)
<1>1. j[1] # k[1] \/ j[2] # k[2]
  BY DEF RunKeys
<1>2. runs \in [Scripts -> Seq(Run)] /\ j[1] \in Scripts /\ j[2] \in DOMAIN runs[j[1]]
  BY DEF TypeOK, Exists
<1>3. j[2] \in DOMAIN runs'[j[1]] /\ runs'[j[1]][j[2]] = runs[j[1]][j[2]]
  <2>1. CASE j[1] # k[1]
    BY <1>2, <2>1
  <2>2. CASE j[1] = k[1] /\ j[2] # k[2]
    <3>1. runs'[j[1]] = [runs[j[1]] EXCEPT ![k[2]] = row]
      BY <1>2, <2>2
    <3>2. QED
      BY <1>2, <2>2, <3>1
  <2>3. QED
    BY <1>1, <2>1, <2>2
<1>4. QED
  BY <1>2, <1>3 DEF Exists, RunAt

LEMMA StartRunGrip ==
    ASSUME QueueInv, NEW w \in Workers, StartRun(w)
    PROVE  Grip'
<1>1. PICK k \in ids[w] :
        /\ runs' = [runs EXCEPT ![k[1]][k[2]].status = "running"]
        /\ cur' = [cur EXCEPT ![w] = k]
        /\ ids' = [ids EXCEPT ![w] = @ \ {k}]
  BY DEF StartRun
<1>2. /\ pc[w] = "dispatch"
      /\ pc' = [pc EXCEPT ![w] = "started"]
      /\ UNCHANGED <<now, schedLock, tickNow>>
  BY DEF StartRun, lockVars
<1>3. \A v \in Workers \ {w} : pc[v] \notin Holding /\ ids[v] = {} /\ cur[v] = None
  BY <1>2, Alone DEF Holding
<1>4. k \in RunKeys /\ Exists(k) /\ k # None
  BY QueueAssumption DEF QueueInv, ListedRuns, TypeOK, RunKeys
<1>5. LockHeld'
  BY <1>2 DEF LockHeld, QueueInv, TypeOK, Holding, Executing
<1>6. TickIsPast'
  BY <1>2 DEF TickIsPast, QueueInv
<1>7. /\ runs'[k[1]][k[2]].status = "running"
      /\ k[2] \in DOMAIN runs'[k[1]]
  <2>1. runs[k[1]] \in Seq(Run) /\ runs[k[1]][k[2]] \in Run
    BY <1>4 DEF Exists, QueueInv, TypeOK
  <2>2. runs'[k[1]] = [runs[k[1]] EXCEPT ![k[2]].status = "running"]
    BY <1>1, <1>4 DEF Exists, QueueInv, TypeOK
  <2>3. [runs[k[1]][k[2]] EXCEPT !.status = "running"].status = "running"
    BY <2>1 DEF Run
  <2>4. QED
    BY <1>4, <2>1, <2>2, <2>3 DEF Exists
<1>8. \A j \in RunKeys : j # k /\ Exists(j) => Exists(j)' /\ RunAt(j)' = RunAt(j)
  <2> DEFINE row == [runs[k[1]][k[2]] EXCEPT !.status = "running"]
  <2>1. runs' = [runs EXCEPT ![k[1]][k[2]] = row]
    BY <1>1
  <2> HIDE DEF row
  <2>2. QED
    BY <1>4, <2>1, OtherRows DEF QueueInv
<1>9. ListedRuns'
  <2>1. \A v \in Workers \ {w} : ids'[v] = {}
    BY <1>1, <1>3 DEF QueueInv, TypeOK
  <2>2. ids'[w] = ids[w] \ {k} /\ pc'[w] = "started"
    BY <1>1, <1>2 DEF QueueInv, TypeOK
  <2>3. \A j \in ids'[w] :
          (Exists(j) /\ RunAt(j).status = "queued" /\ RunAt(j).available <= now)'
    <3> SUFFICES ASSUME NEW j \in ids'[w]
                 PROVE (Exists(j) /\ RunAt(j).status = "queued" /\ RunAt(j).available <= now)'
      OBVIOUS
    <3>1. j \in ids[w] /\ j # k /\ j \in RunKeys
      BY <2>2 DEF QueueInv, TypeOK
    <3>2. Exists(j) /\ RunAt(j).status = "queued" /\ RunAt(j).available <= now
      BY <3>1 DEF QueueInv, ListedRuns
    <3>3. Exists(j)' /\ RunAt(j)' = RunAt(j)
      BY <1>8, <3>1, <3>2
    <3>4. QED
      BY <1>2, <3>2, <3>3
  <2>4. QED
    BY <2>1, <2>2, <2>3 DEF ListedRuns, Executing
<1>10. ExecutedRun'
  <2>1. cur'[w] = k /\ pc'[w] = "started"
    BY <1>1, <1>2 DEF QueueInv, TypeOK
  <2>2. \A v \in Workers \ {w} : cur'[v] = None /\ pc'[v] \notin Executing
    BY <1>1, <1>2, <1>3 DEF QueueInv, TypeOK, Holding
  <2>3. Exists(k)' /\ RunAt(k)'.status = "running"
    BY <1>4, <1>7 DEF Exists, RunAt
  <2>4. QED
    BY <1>4, <2>1, <2>2, <2>3 DEF ExecutedRun, Exists, RunAt, Executing
<1>11. QED
  BY <1>5, <1>6, <1>9, <1>10 DEF Grip

(* The collection leaves the table alone.                                      *)
LEMMA CollectionGrip ==
    ASSUME QueueInv, NEW w \in Workers,
           StartCollection(w) \/ CollectionIsBusy(w) \/ EndCollection(w)
    PROVE  Grip'
<1>1. /\ UNCHANGED <<now, runs, schedLock, tickNow, ids, cur>>
      /\ pc[w] \in Executing
      /\ \E place \in Executing : pc' = [pc EXCEPT ![w] = place]
  BY DEF StartCollection, CollectionIsBusy, EndCollection, queueVars, lockVars, Executing
<1>2. \A v \in Workers : /\ pc'[v] \in Executing <=> pc[v] \in Executing
                         /\ pc'[v] \in Holding <=> pc[v] \in Holding
                         /\ v # w => pc'[v] = pc[v]
  BY <1>1 DEF QueueInv, TypeOK, Holding
<1>3. LockHeld' /\ TickIsPast'
  BY <1>1, <1>2 DEF QueueInv, LockHeld, TickIsPast
<1>4. ListedRuns'
  BY <1>1, <1>2 DEF QueueInv, ListedRuns, Exists, RunAt
<1>5. ExecutedRun'
  BY <1>1, <1>2 DEF QueueInv, ExecutedRun, Exists, RunAt
<1>6. QED
  BY <1>3, <1>4, <1>5 DEF Grip

LEMMA ConcludeGrip ==
    ASSUME QueueInv, NEW w \in Workers, Conclude(w)
    PROVE  Grip'
<1> DEFINE k == cur[w]
<1>1. /\ pc[w] = "concluding"
      /\ runs' = [runs EXCEPT ![k[1]][k[2]] = Conclusion(w)]
      /\ cur' = [cur EXCEPT ![w] = None]
      /\ pc' = [pc EXCEPT ![w] = "dispatch"]
      /\ UNCHANGED <<now, schedLock, tickNow, ids>>
  BY DEF Conclude, lockVars
<1>2. \A v \in Workers \ {w} : pc[v] \notin Holding /\ ids[v] = {} /\ cur[v] = None
  BY <1>1, Alone DEF Holding, Executing
<1>3. k \in RunKeys /\ Exists(k) /\ RunAt(k).status = "running"
  BY <1>1 DEF QueueInv, ExecutedRun, TypeOK, Executing
<1>4. LockHeld' /\ TickIsPast'
  BY <1>1 DEF LockHeld, TickIsPast, QueueInv, TypeOK, Holding, Executing
<1>5. \A j \in RunKeys : j # k /\ Exists(j) => Exists(j)' /\ RunAt(j)' = RunAt(j)
  BY <1>1, <1>3, OtherRows DEF QueueInv
<1>6. ListedRuns'
  <2>1. pc'[w] = "dispatch" /\ \A v \in Workers \ {w} : ids'[v] = {}
    BY <1>1, <1>2 DEF QueueInv, TypeOK
  <2>2. \A j \in ids[w] : /\ j \in RunKeys /\ j # k
                          /\ Exists(j) /\ RunAt(j).status = "queued"
                          /\ RunAt(j).available <= now
    BY <1>3 DEF QueueInv, ListedRuns, TypeOK
  <2>3. \A j \in ids'[w] :
          (Exists(j) /\ RunAt(j).status = "queued" /\ RunAt(j).available <= now)'
    <3> SUFFICES ASSUME NEW j \in ids[w]
                 PROVE (Exists(j) /\ RunAt(j).status = "queued" /\ RunAt(j).available <= now)'
      BY <1>1 DEF Exists, RunAt
    <3>1. Exists(j)' /\ RunAt(j)' = RunAt(j)
      BY <1>5, <2>2
    <3>2. QED
      BY <1>1, <2>2, <3>1
  <2>4. QED
    BY <2>1, <2>3 DEF ListedRuns
<1>7. ExecutedRun'
  <2>1. \A v \in Workers : cur'[v] = None /\ pc'[v] \notin Executing
    BY <1>1, <1>2 DEF QueueInv, TypeOK, Holding, Executing
  <2>2. QED
    BY <2>1 DEF ExecutedRun
<1>8. QED
  BY <1>4, <1>6, <1>7 DEF Grip

LEMMA ProcessGrip ==
    ASSUME MaxLockLosses = 0, QueueInv, NEW w \in Workers, Process(w)
    PROVE  Grip'
<1>1. CASE DatabaseFails(w)
  <2>1. UNCHANGED <<now, runs>>
    BY <1>1 DEF DatabaseFails, queueVars
  <2>2. CASE Leave(w, "idle")
    BY <2>1, <2>2, LeaveGrip
  <2>3. CASE UNCHANGED <<lockVars, pc, tickNow, ids, cur>>
    BY <2>1, <2>3 DEF QueueInv, Grip, LockHeld, TickIsPast, ListedRuns, ExecutedRun, Exists,
                      RunAt, lockVars
  <2>4. QED
    BY <1>1, <2>2, <2>3 DEF DatabaseFails
<1>2. CASE Crash(w)
  BY <1>2, LeaveGrip DEF Crash, queueVars
<1>3. CASE Stop(w) \/ Heartbeat(w) \/ HeartbeatExpires(w)
  <2>1. UNCHANGED <<now, queueVars, lockVars, threadVars>>
    BY <1>3 DEF Stop, Heartbeat, HeartbeatExpires
  <2>2. QED
    BY <2>1 DEF QueueInv, Grip, LockHeld, TickIsPast, ListedRuns, ExecutedRun, Exists, RunAt,
                queueVars, lockVars, threadVars
<1>4. CASE Exit(w) \/ Restart(w)
  <2>1. /\ UNCHANGED <<now, runs, schedLock, tickNow, ids, cur>>
        /\ \E old, new \in {"down", "idle"} :
              pc[w] = old /\ pc' = [pc EXCEPT ![w] = new]
    BY <1>4 DEF Exit, Restart, queueVars, lockVars
  <2>2. \A v \in Workers : /\ pc'[v] \in Executing <=> pc[v] \in Executing
                           /\ pc'[v] \in Holding <=> pc[v] \in Holding
                           /\ pc'[v] = "dispatch" <=> pc[v] = "dispatch"
    BY <2>1 DEF QueueInv, TypeOK, Holding, Executing
  <2>3. QED
    BY <2>1, <2>2 DEF QueueInv, Grip, LockHeld, TickIsPast, ListedRuns, ExecutedRun, Exists,
                      RunAt
<1>5. CASE LoseLock(w)
  BY <1>5 DEF LoseLock, QueueInv, TypeOK
<1>6. QED
  BY <1>1, <1>2, <1>3, <1>4, <1>5 DEF Process

LEMMA OutsideGrip ==
    ASSUME QueueInv, StartCli \/ EndCli \/ Advance
    PROVE  Grip'
<1>1. /\ UNCHANGED <<runs, schedLock, threadVars>>
      /\ now' \in Nat /\ now <= now'
  BY DEF StartCli, EndCli, Advance, queueVars, lockVars, QueueInv, TypeOK
<1>2. LockHeld' /\ TickIsPast' /\ ExecutedRun'
  BY <1>1 DEF QueueInv, TypeOK, LockHeld, TickIsPast, ExecutedRun, Exists, RunAt, threadVars
<1>3. ListedRuns'
  <2>1. \A k : Exists(k) => RunAt(k) \in Run
    BY DEF QueueInv, TypeOK, Exists, RunAt
  <2>2. \A k : Exists(k) => RunAt(k).available \in Nat
    BY <2>1 DEF Run
  <2>3. QED
    BY <1>1, <2>2 DEF QueueInv, TypeOK, ListedRuns, Exists, RunAt, threadVars
<1>4. QED
  BY <1>2, <1>3 DEF Grip

LEMMA AdministrationGrip ==
    ASSUME QueueInv, Administration
    PROVE  Grip'
<1>1. UNCHANGED <<now, lockVars, threadVars>>
  BY DEF Administration, OpenForm, SubmitEdit, CommitEdit, RequestRun
<1>2. \A k \in RunKeys : Exists(k) => Exists(k)' /\ RunAt(k)' = RunAt(k)
  <2>1. CASE UNCHANGED runs
    BY <2>1 DEF Exists, RunAt
  <2>2. CASE \E s \in Scripts : RequestRun(s)
    <3>1. PICK s \in Scripts : runs' = [runs EXCEPT ![s] = Append(@, NewRun(now, "manual"))]
      BY <2>2 DEF RequestRun
    <3>2. runs \in [Scripts -> Seq(Run)]
      BY DEF QueueInv, TypeOK
    <3>3. \A i \in DOMAIN runs[s] : i \in DOMAIN runs'[s] /\ runs'[s][i] = runs[s][i]
      BY <3>1, <3>2
    <3>4. \A r \in Scripts : r # s => runs'[r] = runs[r]
      BY <3>1, <3>2
    <3>5. QED
      BY <3>3, <3>4 DEF Exists, RunAt
  <2>3. QED
    BY <2>1, <2>2 DEF Administration, OpenForm, SubmitEdit, CommitEdit, queueVars
<1>3. LockHeld' /\ TickIsPast'
  BY <1>1 DEF QueueInv, LockHeld, TickIsPast, lockVars, threadVars
<1>4. ListedRuns'
  <2>1. \A w \in Workers : \A k \in ids[w] :
          k \in RunKeys /\ Exists(k) /\ RunAt(k).status = "queued" /\ RunAt(k).available <= now
    BY DEF QueueInv, TypeOK, ListedRuns
  <2>2. \A w \in Workers : \A k \in ids'[w] :
          Exists(k)' /\ RunAt(k)'.status = "queued" /\ RunAt(k)'.available <= now'
    BY <1>1, <1>2, <2>1 DEF threadVars
  <2>3. \A w \in Workers : ids'[w] # {} => pc'[w] \in {"dispatch"} \cup Executing
    BY <1>1 DEF QueueInv, ListedRuns, threadVars
  <2>4. QED
    BY <2>2, <2>3 DEF ListedRuns, Exists, RunAt
<1>5. ExecutedRun'
  <2>1. \A w \in Workers : cur[w] # None =>
          cur[w] \in RunKeys /\ Exists(cur[w]) /\ RunAt(cur[w]).status = "running"
    BY DEF QueueInv, TypeOK, ExecutedRun
  <2>2. \A w \in Workers : cur[w] # None =>
          Exists(cur[w])' /\ RunAt(cur[w])'.status = "running"
    BY <1>1, <1>2, <2>1 DEF threadVars
  <2>3. QED
    BY <1>1, <2>2 DEF QueueInv, ExecutedRun, Exists, RunAt, threadVars
<1>6. QED
  BY <1>3, <1>4, <1>5 DEF Grip

(* One thread at a time is in a tick, and what it read is what the rows say:   *)
(* the scheduler lock, held for the whole tick, makes the checks the dispatch  *)
(* loop leaves out unnecessary.                                                *)
LEMMA QueueInvHolds == MaxLockLosses = 0 => (Spec => []QueueInv)
<1> SUFFICES ASSUME MaxLockLosses = 0
             PROVE  Spec => []QueueInv
  OBVIOUS
<1>1. Init => QueueInv
  <2> SUFFICES ASSUME Init
               PROVE  QueueInv
    OBVIOUS
  <2>1. TypeOK
    BY InitTypeOK
  <2>2. Grip
    BY <2>1, QueueAssumption
       DEF Init, Grip, LockHeld, TickIsPast, ListedRuns, ExecutedRun, Holding, Executing
  <2>3. QED
    BY <2>1, <2>2 DEF QueueInv, Grip
<1>2. QueueInv /\ TypeOK' /\ [Next]_vars => QueueInv'
  <2> SUFFICES ASSUME QueueInv, TypeOK', [Next]_vars
               PROVE  Grip'
    BY DEF QueueInv, Grip
  <2>1. ASSUME NEW w \in Workers, Thread(w)
        PROVE  Grip'
    <3>1. CASE StartRefused(w) \/ EndTick(w) \/ RequeueRefused(w)
      BY <3>1, LeaveGrip DEF StartRefused, EndTick, RequeueRefused, queueVars
    <3>2. QED
      BY <2>1, <3>1, StartTickGrip, SweepGrip, StartRunGrip, CollectionGrip, ConcludeGrip
         DEF Thread
  <2>2. ASSUME NEW w \in Workers, Process(w)
        PROVE  Grip'
    BY <2>2, ProcessGrip
  <2>3. CASE StartCli \/ EndCli \/ Advance
    BY <2>3, OutsideGrip
  <2>4. CASE Administration
    BY <2>4, AdministrationGrip
  <2>5. CASE UNCHANGED vars
    BY <2>5 DEF vars, QueueInv, Grip, LockHeld, TickIsPast, ListedRuns, ExecutedRun, Exists,
                RunAt, queueVars, lockVars, threadVars
  <2>6. QED
    BY <2>1, <2>2, <2>3, <2>4, <2>5 DEF Next
<1>3. QED
  BY <1>1, <1>2, TypeCorrect, PTL DEF Spec

-----------------------------------------------------------------------------
(* What the invariant is for.                                               *)

\* As long as no lock connection is lost, the runs a tick listed are still queued
\* when it comes to dispatch them, the run it executes is running, and no two
\* workers claim the same run.
THEOREM ClaimsExclusive == MaxLockLosses = 0 => (Spec => []ClaimsAreExclusive)
<1>1. QueueInv => ClaimsAreExclusive
  <2> SUFFICES ASSUME QueueInv
               PROVE  ClaimsAreExclusive
    OBVIOUS
  <2>1. \A w \in Workers : Claims(w) # {} => pc[w] \in Holding
    BY DEF QueueInv, ListedRuns, ExecutedRun, Claims, Holding
  <2>2. \A v, w \in Workers : v # w => Claims(v) = {} \/ Claims(w) = {}
    BY <2>1 DEF QueueInv, LockHeld
  <2>3. QED
    BY <2>2 DEF ClaimsAreExclusive, QueueInv, ListedRuns, ExecutedRun
<1>2. QED
  BY <1>1, QueueInvHolds, PTL

\* As long as no lock connection is lost, no worker declares interrupted a run that
\* another worker is executing.
THEOREM LiveRunsSafe == MaxLockLosses = 0 => (Spec => LiveRunNotInterrupted)
<1> DEFINE Safe == \A w \in Workers :
                pc[w] \in Executing /\ RunAt(cur[w]).status # "interrupted"
                    => runs'[cur[w][1]][cur[w][2]].status # "interrupted"
<1>1. QueueInv /\ [Next]_vars => Safe
  <2> SUFFICES ASSUME QueueInv, [Next]_vars, NEW w \in Workers, pc[w] \in Executing,
                      RunAt(cur[w]).status # "interrupted"
               PROVE  runs'[cur[w][1]][cur[w][2]].status # "interrupted"
    OBVIOUS
  <2> DEFINE k == cur[w]
  <2>1. k \in RunKeys /\ Exists(k)
    BY DEF QueueInv, ExecutedRun, TypeOK
  <2>2. \A v \in Workers \ {w} : pc[v] \notin Holding
    BY Alone DEF Holding
  <2>3. CASE UNCHANGED runs
    BY <2>3 DEF RunAt
  <2>4. CASE \E v \in Workers : Sweep(v) \/ StartRun(v)
    BY <2>2, <2>4 DEF Sweep, StartRun, Holding, Executing
  <2>5. CASE \E v \in Workers : Conclude(v)
    <3>1. Conclude(w)
      BY <2>2, <2>5 DEF Conclude, Holding, Executing
    <3>2. runs' = [runs EXCEPT ![k[1]][k[2]] = Conclusion(w)]
      BY <3>1 DEF Conclude
    <3>3. runs'[k[1]][k[2]] = Conclusion(w)
      BY <2>1, <3>2 DEF QueueInv, TypeOK, Exists
    <3>4. Conclusion(w).status # "interrupted"
      <4>1. RunAt(k) \in Run
        BY <2>1 DEF QueueInv, TypeOK, Exists, RunAt
      <4>2. outcome[w].kind \in
                {"succeeded", "failed", "busy", "StakeDeferred", "LoltvBlocked"}
        BY QueueAssumption DEF QueueInv, TypeOK, Outcome
      <4>3. QED
        BY <4>1, <4>2 DEF Conclusion, Run
    <3>5. QED
      BY <3>3, <3>4
  <2>6. CASE \E s \in Scripts : RequestRun(s)
    <3>1. PICK s \in Scripts : runs' = [runs EXCEPT ![s] = Append(@, NewRun(now, "manual"))]
      BY <2>6 DEF RequestRun
    <3>2. runs \in [Scripts -> Seq(Run)] /\ k[1] \in Scripts /\ k[2] \in DOMAIN runs[k[1]]
      BY <2>1 DEF QueueInv, TypeOK, Exists
    <3>3. runs'[k[1]][k[2]] = runs[k[1]][k[2]]
      BY <3>1, <3>2
    <3>4. QED
      BY <3>3 DEF RunAt
  <2>7. QED
    BY <2>3, <2>4, <2>5, <2>6, Writers
<1>2. QED
  BY <1>1, QueueInvHolds, PTL DEF Spec, LiveRunNotInterrupted

\* As long as no lock connection is lost, a run that has ended keeps its end and is
\* never executed again, and a deferred run is not started before its date.
THEOREM RunsKeepTheirWord ==
    MaxLockLosses = 0 => (Spec => FinishedIsFinal /\ NeverStartsEarly)
<1> DEFINE Final == \A s \in Scripts : \A i \in DOMAIN runs[s] :
                runs[s][i].status \in Finished => runs'[s][i] = runs[s][i]
           OnTime == \A s \in Scripts : \A i \in DOMAIN runs[s] :
                runs[s][i].status # "running" /\ runs'[s][i].status = "running"
                    => runs[s][i].available <= now
<1>1. QueueInv /\ [Next]_vars => Final /\ OnTime
  <2> SUFFICES ASSUME QueueInv, [Next]_vars, NEW s \in Scripts, NEW i \in DOMAIN runs[s]
               PROVE  /\ runs[s][i].status \in Finished => runs'[s][i] = runs[s][i]
                      /\ runs[s][i].status # "running" /\ runs'[s][i].status = "running"
                            => runs[s][i].available <= now
    OBVIOUS
  <2> DEFINE k == <<s, i>>
             Same == runs'[s][i] = runs[s][i]
  <2>1. k \in RunKeys /\ Exists(k) /\ RunAt(k) = runs[s][i]
    BY DEF QueueInv, TypeOK, RunKeys, Exists, RunAt
  <2>2. CASE Same
    BY <2>2
  <2>3. ASSUME NEW w \in Workers, Sweep(w)
        PROVE  \/ Same
               \/ runs[s][i].status = "running"
    BY <2>3, SweptRows DEF Sweep, QueueInv, TypeOK
  <2>4. ASSUME NEW w \in Workers, StartRun(w)
        PROVE  \/ Same
               \/ runs[s][i].status = "queued" /\ runs[s][i].available <= now
    <3>1. PICK c \in ids[w] : runs' = [runs EXCEPT ![c[1]][c[2]].status = "running"]
      BY <2>4 DEF StartRun
    <3>2. CASE c = k
      BY <2>1, <3>2 DEF QueueInv, ListedRuns
    <3>3. CASE c # k
      <4> DEFINE row == [runs[c[1]][c[2]] EXCEPT !.status = "running"]
      <4>1. c \in RunKeys /\ runs' = [runs EXCEPT ![c[1]][c[2]] = row]
        BY <3>1 DEF QueueInv, TypeOK
      <4> HIDE DEF row
      <4>2. RunAt(k)' = RunAt(k)
        BY <2>1, <3>3, <4>1, OtherRows DEF QueueInv
      <4>3. QED
        BY <4>2 DEF RunAt
    <3>4. QED
      BY <3>2, <3>3
  <2>5. ASSUME NEW w \in Workers, Conclude(w)
        PROVE  \/ Same
               \/ runs[s][i].status = "running"
    <3> DEFINE c == cur[w]
    <3>1. /\ c \in RunKeys /\ Exists(c) /\ RunAt(c).status = "running"
          /\ runs' = [runs EXCEPT ![c[1]][c[2]] = Conclusion(w)]
      BY <2>5 DEF Conclude, QueueInv, ExecutedRun, TypeOK, Executing
    <3>2. CASE c = k
      BY <2>1, <3>1, <3>2
    <3>3. CASE c # k
      <4>1. RunAt(k)' = RunAt(k)
        BY <2>1, <3>1, <3>3, OtherRows DEF QueueInv
      <4>2. QED
        BY <4>1 DEF RunAt
    <3>4. QED
      BY <3>2, <3>3
  <2>6. ASSUME NEW r \in Scripts, RequestRun(r)
        PROVE  Same
    <3>1. runs' = [runs EXCEPT ![r] = Append(@, NewRun(now, "manual"))]
      BY <2>6 DEF RequestRun
    <3>2. runs \in [Scripts -> Seq(Run)]
      BY DEF QueueInv, TypeOK
    <3>3. QED
      BY <3>1, <3>2
  <2>7. \/ UNCHANGED runs
        \/ \E w \in Workers : Sweep(w) \/ StartRun(w) \/ Conclude(w)
        \/ \E r \in Scripts : RequestRun(r)
    BY Writers
  <2>8. QED
    BY <2>2, <2>3, <2>4, <2>5, <2>6, <2>7 DEF Finished
<1>2. QED
  BY <1>1, QueueInvHolds, PTL DEF Spec, FinishedIsFinal, NeverStartsEarly

-----------------------------------------------------------------------------
(* One active run.  This holds whatever happens to the locks.                *)

OneActiveIn(rows) ==
    \A i, j \in DOMAIN rows : rows[i].status \in Active /\ rows[j].status \in Active => i = j

LEMMA AppendOneActive ==
    ASSUME NEW rows \in Seq(Run), NEW row \in Run, ~HasActive(rows)
    PROVE  OneActiveIn(Append(rows, row))
<1>1. \A i \in DOMAIN Append(rows, row) :
        i = Len(rows) + 1 \/ (i \in DOMAIN rows /\ Append(rows, row)[i] = rows[i])
  OBVIOUS
<1>2. \A i \in DOMAIN rows : rows[i].status \notin Active
  BY DEF HasActive
<1>3. QED
  BY <1>1, <1>2 DEF OneActiveIn

LEMMA WriteOneActive ==
    ASSUME NEW table \in [Scripts -> Seq(Run)], NEW s, NEW i, NEW row,
           \A r \in Scripts : OneActiveIn(table[r]),
           row.status \in Active =>
                \A j \in DOMAIN table[s] : j # i => table[s][j].status \notin Active
    PROVE  \A r \in Scripts : OneActiveIn([table EXCEPT ![s][i] = row][r])
<1> SUFFICES ASSUME NEW r \in Scripts
             PROVE  OneActiveIn([table EXCEPT ![s][i] = row][r])
  OBVIOUS
<1>1. CASE r # s
  BY <1>1
<1>2. CASE r = s
  <2>1. [table EXCEPT ![s][i] = row][r] = [table[s] EXCEPT ![i] = row]
    BY <1>2
  <2>2. OneActiveIn([table[s] EXCEPT ![i] = row])
    BY <1>2 DEF OneActiveIn
  <2>3. QED
    BY <2>1, <2>2
<1>3. QED
  BY <1>1, <1>2

\* A script never has two runs queued or running, even when two workers dispatch the
\* same queue because a lock connection was lost: each insertion looks for an active
\* run under the lock of the schedule row, and the index guards every other write.
THEOREM OneActiveRun == Spec => []AtMostOneActive
<1> DEFINE Inv == \A s \in Scripts : OneActiveIn(runs[s])
<1>1. Inv <=> AtMostOneActive
  BY DEF OneActiveIn, AtMostOneActive
<1>2. Init => Inv
  BY DEF Init, OneActiveIn
<1>3. TypeOK /\ Inv /\ [Next]_vars => Inv'
  <2> SUFFICES ASSUME TypeOK, Inv, [Next]_vars
               PROVE  Inv'
    OBVIOUS
  <2>1. CASE UNCHANGED runs
    BY <2>1
  <2>2. ASSUME NEW w \in Workers, Sweep(w)
        PROVE  Inv'
    <3> SUFFICES ASSUME NEW s \in Scripts
                 PROVE  OneActiveIn(Swept(s, tickNow[w]))
      BY <2>2 DEF Sweep
    <3> DEFINE rows == Interrupted(runs[s])
    <3>1. runs[s] \in Seq(Run) /\ tickNow[w] \in Nat
      BY DEF TypeOK
    <3>2. rows \in Seq(Run) /\ DOMAIN rows = DOMAIN runs[s]
      BY <3>1, InterruptedType
    <3>3. \A i \in DOMAIN rows : rows[i].status \in Active => runs[s][i].status \in Active
      <4>1. \A i \in DOMAIN runs[s] : runs[s][i] \in Run
        BY <3>1
      <4>2. \A i \in DOMAIN runs[s] :
                runs[s][i].status = "running" => rows[i].status = "interrupted"
        BY <4>1 DEF Interrupted, Run
      <4>3. \A i \in DOMAIN runs[s] : runs[s][i].status # "running" => rows[i] = runs[s][i]
        BY DEF Interrupted
      <4>4. QED
        BY <3>2, <4>2, <4>3 DEF Active
    <3>4. OneActiveIn(rows)
      BY <3>2, <3>3 DEF OneActiveIn
    <3>5. NewRun(tickNow[w], "schedule") \in Run
      BY <3>1 DEF NewRun, Run, Status, Active
    <3>6. ~HasActive(rows) => OneActiveIn(Append(rows, NewRun(tickNow[w], "schedule")))
      BY <3>2, <3>5, AppendOneActive
    <3>7. QED
      BY <3>4, <3>6 DEF Swept
  <2>3. ASSUME NEW w \in Workers, StartRun(w)
        PROVE  Inv'
    <3>1. PICK k \in ids[w] : /\ IndexAllows(k)
                              /\ runs' = [runs EXCEPT ![k[1]][k[2]].status = "running"]
      BY <2>3 DEF StartRun
    <3> DEFINE row == [runs[k[1]][k[2]] EXCEPT !.status = "running"]
    <3>2. runs' = [runs EXCEPT ![k[1]][k[2]] = row]
      BY <3>1
    <3>3. \A j \in DOMAIN runs[k[1]] : j # k[2] => runs[k[1]][j].status \notin Active
      BY <3>1 DEF IndexAllows
    <3> HIDE DEF row
    <3>4. QED
      BY <3>2, <3>3, WriteOneActive DEF TypeOK
  <2>4. ASSUME NEW w \in Workers, Conclude(w)
        PROVE  Inv'
    <3> DEFINE k == cur[w]
               row == Conclusion(w)
    <3>1. /\ runs' = [runs EXCEPT ![k[1]][k[2]] = row]
          /\ row.status \in Active =>
                \A j \in DOMAIN runs[k[1]] : j # k[2] => runs[k[1]][j].status \notin Active
      BY <2>4 DEF Conclude, IndexAllows
    <3> HIDE DEF k, row
    <3>2. QED
      BY <3>1, WriteOneActive DEF TypeOK
  <2>5. ASSUME NEW s \in Scripts, RequestRun(s)
        PROVE  Inv'
    <3>1. /\ runs' = [runs EXCEPT ![s] = Append(@, NewRun(now, "manual"))]
          /\ ~HasActive(runs[s])
      BY <2>5 DEF RequestRun
    <3>2. NewRun(now, "manual") \in Run
      BY DEF NewRun, Run, Status, Active, TypeOK
    <3>3. runs[s] \in Seq(Run)
      BY DEF TypeOK
    <3>4. OneActiveIn(Append(runs[s], NewRun(now, "manual")))
      BY <3>1, <3>2, <3>3, AppendOneActive
    <3>5. QED
      BY <3>1, <3>4 DEF TypeOK
  <2>6. \/ UNCHANGED runs
        \/ \E w \in Workers : Sweep(w) \/ StartRun(w) \/ Conclude(w)
        \/ \E s \in Scripts : RequestRun(s)
    BY Writers
  <2>7. QED
    BY <2>1, <2>2, <2>3, <2>4, <2>5, <2>6
<1>4. QED
  BY <1>1, <1>2, <1>3, TypeCorrect, PTL DEF Spec

-----------------------------------------------------------------------------
(* The instants of the crons.                                               *)

(* What Upcoming returns is an instant of the cron, after the one it is given. *)
LEMMA UpcomingIsNext ==
    ASSUME NEW c \in Crons, NEW t \in Nat
    PROVE  Upcoming(c, t) > t /\ Upcoming(c, t) % c = 0
<1> DEFINE q == t \div c
<1>1. c \in Nat \ {0}
  BY QueueAssumption
<1>2. q \in Nat /\ t = c * q + (t % c) /\ 0 <= t % c /\ t % c < c
  BY <1>1, Z3
<1>3. (q + 1) * c = q * c + c /\ ((q + 1) * c) % c = 0
  <2> HIDE DEF q
  <2> QED
    BY <1>1, <1>2, Z3
<1>4. QED
  BY <1>1, <1>2, <1>3, Z3 DEF Upcoming

\* The runs of a schedule were requested at different instants of its cron, and all of
\* them before its next date.
Coalesced(rows, next, cron) ==
    /\ next % cron = 0
    /\ \A i \in DOMAIN rows : rows[i].trigger = "schedule" => rows[i].requested < next
    /\ \A i, j \in DOMAIN rows :
        i < j /\ rows[i].trigger = "schedule" /\ rows[j].trigger = "schedule"
            => \E t \in rows[i].requested + 1 .. rows[j].requested : t % cron = 0

Requests(rows) == [i \in DOMAIN rows |-> <<rows[i].trigger, rows[i].requested>>]

LEMMA SameRequests ==
    ASSUME NEW rows, NEW written, NEW next, NEW cron,
           Coalesced(rows, next, cron), Requests(written) = Requests(rows)
    PROVE  Coalesced(written, next, cron)
<1>1. DOMAIN written = DOMAIN rows
  BY DEF Requests
<1>2. \A i \in DOMAIN rows : /\ written[i].trigger = rows[i].trigger
                             /\ written[i].requested = rows[i].requested
  <2> TAKE i \in DOMAIN rows
  <2>1. Requests(written)[i] = Requests(rows)[i]
    OBVIOUS
  <2>2. QED
    BY <1>1, <2>1 DEF Requests
<1>3. QED
  BY <1>1, <1>2 DEF Coalesced

LEMMA AppendManual ==
    ASSUME NEW rows \in Seq(Run), NEW t \in Nat, NEW next, NEW cron,
           Coalesced(rows, next, cron)
    PROVE  Coalesced(Append(rows, NewRun(t, "manual")), next, cron)
<1> DEFINE row == NewRun(t, "manual")
<1>1. row.trigger # "schedule"
  BY DEF NewRun
<1> HIDE DEF row
<1>2. DOMAIN Append(rows, row) = DOMAIN rows \cup {Len(rows) + 1}
  OBVIOUS
<1>3. \A i \in DOMAIN rows : Append(rows, row)[i] = rows[i]
  OBVIOUS
<1>4. Append(rows, row)[Len(rows) + 1] = row
  OBVIOUS
<1>5. QED
  BY <1>1, <1>2, <1>3, <1>4 DEF Coalesced, row

\* The next date follows the tick: the instant that was due is between the last run and
\* the new one, however many were missed.
LEMMA AppendScheduled ==
    ASSUME NEW rows \in Seq(Run), NEW t \in Nat, NEW cron \in Crons, NEW next \in Nat,
           Coalesced(rows, next, cron), next <= t
    PROVE  /\ Coalesced(rows, Upcoming(cron, t), cron)
           /\ Coalesced(Append(rows, NewRun(t, "schedule")), Upcoming(cron, t), cron)
<1> DEFINE row == NewRun(t, "schedule")
           after == Upcoming(cron, t)
<1>1. row.trigger = "schedule" /\ row.requested = t
  BY DEF NewRun
<1>2. after \in Nat /\ after > t /\ after % cron = 0
  BY UpcomingType, UpcomingIsNext
<1> HIDE DEF row, after
<1>3. \A i \in DOMAIN rows : rows[i] \in Run /\ rows[i].requested \in Nat
  <2>1. \A i \in DOMAIN rows : rows[i] \in Run
    OBVIOUS
  <2>2. QED
    BY <2>1 DEF Run
<1>4. Coalesced(rows, after, cron)
  BY <1>2, <1>3 DEF Coalesced
<1>5. DOMAIN Append(rows, row) = DOMAIN rows \cup {Len(rows) + 1}
  OBVIOUS
<1>6. \A i \in DOMAIN rows : i < Len(rows) + 1 /\ Append(rows, row)[i] = rows[i]
  OBVIOUS
<1>7. Append(rows, row)[Len(rows) + 1] = row
  OBVIOUS
<1>8. ASSUME NEW i \in DOMAIN rows, rows[i].trigger = "schedule"
      PROVE  \E u \in rows[i].requested + 1 .. row.requested : u % cron = 0
  <2>1. rows[i].requested < next /\ next % cron = 0
    BY <1>8 DEF Coalesced
  <2>2. next \in rows[i].requested + 1 .. row.requested
    BY <1>1, <1>3, <2>1
  <2>3. QED
    BY <2>1, <2>2
<1>9. \A i \in DOMAIN Append(rows, row) :
        Append(rows, row)[i].trigger = "schedule" => Append(rows, row)[i].requested < after
  BY <1>1, <1>2, <1>4, <1>5, <1>6, <1>7 DEF Coalesced
<1>10. ASSUME NEW i \in DOMAIN Append(rows, row), NEW j \in DOMAIN Append(rows, row), i < j,
              Append(rows, row)[i].trigger = "schedule",
              Append(rows, row)[j].trigger = "schedule"
       PROVE  \E u \in Append(rows, row)[i].requested + 1 .. Append(rows, row)[j].requested :
                    u % cron = 0
  <2>1. i \in DOMAIN rows
    BY <1>5, <1>10
  <2>2. CASE j \in DOMAIN rows
    BY <1>4, <1>6, <1>10, <2>1, <2>2 DEF Coalesced
  <2>3. CASE j = Len(rows) + 1
    BY <1>6, <1>7, <1>8, <1>10, <2>1, <2>3
  <2>4. QED
    BY <1>5, <2>2, <2>3
<1>11. Coalesced(Append(rows, row), after, cron)
  <2>1. after % cron = 0
    BY <1>2
  <2>2. QED
    BY <2>1, <1>9, <1>10 DEF Coalesced
<1>12. QED
  BY <1>4, <1>11 DEF row, after

\* No administrator's edit of a schedule is committed.
NothingEdited == [][\A s \in Scripts : schedules'[s].revision = schedules[s].revision]_schedules

\* Downtime never ends in a burst: of the instants of a cron that were missed, one run is
\* requested, whatever the workers, the failures and the scheduler lock do, as long as the
\* schedule is not edited meanwhile.
THEOREM InstantsCoalesce == Spec /\ NothingEdited => []OnePerCronInstant
<1> DEFINE Inv == \A s \in Scripts \ LiveScripts :
                    Coalesced(runs[s], schedules[s].next, schedules[s].cron)
           Kept == \A s \in Scripts : schedules'[s].revision = schedules[s].revision
<1>1. Init => Inv
  <2> SUFFICES ASSUME Init, NEW s \in Scripts
               PROVE  Coalesced(runs[s], schedules[s].next, schedules[s].cron)
    OBVIOUS
  <2>1. PICK c \in Crons : schedules[s].cron = c /\ schedules[s].next = Upcoming(c, 0)
    BY DEF Init
  <2>2. Upcoming(c, 0) % c = 0
    BY UpcomingIsNext
  <2>3. runs[s] = <<>> /\ DOMAIN runs[s] = {}
    BY DEF Init
  <2>4. QED
    BY <2>1, <2>2, <2>3 DEF Coalesced
<1>2. Inv => OnePerCronInstant
  BY DEF Coalesced, OnePerCronInstant
<1>3. TypeOK /\ Inv /\ [Next]_vars /\ [Kept]_schedules => Inv'
  <2> SUFFICES ASSUME TypeOK, Inv, [Next]_vars, [Kept]_schedules,
                      NEW s \in Scripts, s \notin LiveScripts
               PROVE  Coalesced(runs'[s], schedules'[s].next, schedules'[s].cron)
    OBVIOUS
  <2>1. /\ runs[s] \in Seq(Run)
        /\ schedules[s].cron \in Crons /\ schedules[s].next \in Nat
        /\ Coalesced(runs[s], schedules[s].next, schedules[s].cron)
    BY DEF TypeOK, Schedule
  <2>2. CASE schedules' = schedules /\ Requests(runs'[s]) = Requests(runs[s])
    BY <2>1, <2>2, SameRequests
  <2>3. ASSUME NEW w \in Workers, Sweep(w)
        PROVE  Coalesced(runs'[s], schedules'[s].next, schedules'[s].cron)
    <3> DEFINE t == tickNow[w]
               rows == Interrupted(runs[s])
               next == schedules[s].next
               cron == schedules[s].cron
    <3>1. t \in Nat /\ runs'[s] = Swept(s, t) /\ schedules'[s] = Rescheduled(s, t)
      BY <2>3 DEF Sweep, TypeOK
    <3>2. rows \in Seq(Run) /\ DOMAIN rows = DOMAIN runs[s]
      BY <2>1, InterruptedType
    <3>3. \A i \in DOMAIN runs[s] : /\ rows[i].trigger = runs[s][i].trigger
                                    /\ rows[i].requested = runs[s][i].requested
      <4>1. \A i \in DOMAIN runs[s] : runs[s][i] \in Run
        BY <2>1
      <4>2. QED
        BY <4>1 DEF Interrupted, Run
    <3>4. Coalesced(rows, next, cron)
      <4>1. Requests(rows) = Requests(runs[s])
        BY <3>2, <3>3 DEF Requests
      <4>2. QED
        BY <2>1, <4>1, SameRequests
    <3>5. CASE ~Due(s, t)
      <4>1. runs'[s] = rows /\ schedules'[s] = schedules[s]
        BY <3>1, <3>5 DEF Swept, Rescheduled
      <4>2. QED
        BY <3>4, <4>1
    <3>6. CASE Due(s, t)
      <4>1. next <= t
        BY <3>6 DEF Due, LiveWake
      <4>2. /\ schedules'[s].next = Upcoming(cron, t)
            /\ schedules'[s].cron = cron
        BY <3>1, <3>6 DEF Rescheduled, TypeOK, Schedule
      <4>3. runs'[s] \in {rows, Append(rows, NewRun(t, "schedule"))}
        BY <3>1 DEF Swept
      <4> HIDE DEF rows, next, cron, t
      <4>4. QED
        BY <2>1, <3>1, <3>2, <3>4, <4>1, <4>2, <4>3, AppendScheduled DEF next, cron
    <3>7. QED
      BY <3>5, <3>6
  <2>4. ASSUME NEW k, NEW row,
               runs' = [runs EXCEPT ![k[1]][k[2]] = row],
               row.trigger = runs[k[1]][k[2]].trigger,
               row.requested = runs[k[1]][k[2]].requested
        PROVE  Requests(runs'[s]) = Requests(runs[s])
    <3>1. CASE k[1] # s
      BY <2>4, <3>1 DEF TypeOK
    <3>2. CASE k[1] = s
      <4>1. runs'[s] = [runs[s] EXCEPT ![k[2]] = row]
        BY <2>4, <3>2 DEF TypeOK
      <4>2. DOMAIN runs'[s] = DOMAIN runs[s]
        BY <4>1
      <4>3. \A i \in DOMAIN runs[s] : <<runs'[s][i].trigger, runs'[s][i].requested>>
                                        = <<runs[s][i].trigger, runs[s][i].requested>>
        BY <2>4, <3>2, <4>1
      <4>4. QED
        BY <4>2, <4>3 DEF Requests
    <3>3. QED
      BY <3>1, <3>2
  <2>5. ASSUME NEW w \in Workers, StartRun(w)
        PROVE  Coalesced(runs'[s], schedules'[s].next, schedules'[s].cron)
    <3>1. PICK k \in ids[w] : runs' = [runs EXCEPT ![k[1]][k[2]].status = "running"]
      BY <2>5 DEF StartRun
    <3> DEFINE row == [runs[k[1]][k[2]] EXCEPT !.status = "running"]
    <3>2. runs' = [runs EXCEPT ![k[1]][k[2]] = row]
      BY <3>1
    <3>3. row.trigger = runs[k[1]][k[2]].trigger /\ row.requested = runs[k[1]][k[2]].requested
      OBVIOUS
    <3>4. schedules' = schedules
      BY <2>5 DEF StartRun
    <3> HIDE DEF row
    <3>5. QED
      BY <2>2, <2>4, <3>2, <3>3, <3>4
  <2>6. ASSUME NEW w \in Workers, Conclude(w)
        PROVE  Coalesced(runs'[s], schedules'[s].next, schedules'[s].cron)
    <3> DEFINE k == cur[w]
               row == Conclusion(w)
    <3>1. runs' = [runs EXCEPT ![k[1]][k[2]] = row] /\ schedules' = schedules
      BY <2>6 DEF Conclude
    <3>2. row.trigger = runs[k[1]][k[2]].trigger /\ row.requested = runs[k[1]][k[2]].requested
      <4>1. outcome[w].kind \in {"succeeded", "failed", "busy", "StakeDeferred", "LoltvBlocked"}
        BY QueueAssumption DEF TypeOK, Outcome
      <4>2. QED
        BY <4>1 DEF Conclusion, RunAt
    <3> HIDE DEF k, row
    <3>3. QED
      BY <2>2, <2>4, <3>1, <3>2
  <2>7. ASSUME NEW r \in Scripts, RequestRun(r)
        PROVE  Coalesced(runs'[s], schedules'[s].next, schedules'[s].cron)
    <3>1. /\ runs' = [runs EXCEPT ![r] = Append(@, NewRun(now, "manual"))]
          /\ schedules' = schedules /\ now \in Nat
      BY <2>7 DEF RequestRun, TypeOK
    <3>2. runs'[s] \in {runs[s], Append(runs[s], NewRun(now, "manual"))}
      BY <3>1 DEF TypeOK
    <3>3. QED
      BY <2>1, <3>1, <3>2, AppendManual
  <2>8. \/ schedules' = schedules /\ runs' = runs
        \/ \E w \in Workers : Sweep(w) \/ StartRun(w) \/ Conclude(w)
        \/ \E r \in Scripts : RequestRun(r)
    <3>1. ASSUME NEW a \in Admins, CommitEdit(a)
          PROVE  schedules' = schedules /\ runs' = runs
      <4>1. runs' = runs
        BY <3>1 DEF CommitEdit
      <4>2. CASE schedules' = [schedules EXCEPT ![form[a].script] = Edited(a)]
        <5> DEFINE r == form[a].script
        <5>1. form[a] # None /\ form[a] \in Form
          BY <3>1 DEF CommitEdit, Phase, TypeOK
        <5>2. r \in Scripts /\ schedules[r].revision \in Nat
          BY <5>1 DEF Form, TypeOK, Schedule
        <5>3. schedules'[r].revision = schedules[r].revision + 1
          BY <4>2, <5>2 DEF Edited, TypeOK
        <5>4. schedules'[r].revision # schedules[r].revision
          BY <5>2, <5>3
        <5>5. QED
          BY <4>1, <5>2, <5>4
      <4>3. QED
        BY <3>1, <4>1, <4>2 DEF CommitEdit
    <3>2. QED
      BY <3>1 DEF Next, Thread, Process, Administration, vars, queueVars, StartTick,
             StartRefused, EndTick, StartCollection, CollectionIsBusy, EndCollection,
             RequeueRefused, DatabaseFails, Crash, Stop, Exit, Restart, Heartbeat,
             HeartbeatExpires, LoseLock, StartCli, EndCli, Advance, OpenForm, SubmitEdit
  <2>9. QED
    BY <2>2, <2>3, <2>5, <2>6, <2>7, <2>8
<1>4. QED
  BY <1>1, <1>2, <1>3, TypeCorrect, PTL DEF Spec, NothingEdited

-----------------------------------------------------------------------------
(* The forms of the administrators.                                         *)

\* While the revision a form was opened on is still current, the form shows what the row
\* holds.
FormIsCurrent ==
    \A a \in Admins : form[a] # None =>
        LET row == schedules[form[a].script]
        IN  row.revision = form[a].seen.revision =>
                row.cron = form[a].seen.cron /\ row.enabled = form[a].seen.enabled

\* NoUnseenChange, for one step.
EditSeen ==
    \A s \in Scripts :
        schedules'[s].cron # schedules[s].cron \/ schedules'[s].enabled # schedules[s].enabled
            => \E a \in Admins :
                   /\ form[a] # None /\ form'[a] = None /\ form[a].script = s
                   /\ form[a].seen.cron = schedules[s].cron
                   /\ form[a].seen.enabled = schedules[s].enabled

\* Revisions only grow, so a form whose revision is still current still shows what
\* the row holds: the 409 of the PATCH route is enough to lose no update.
THEOREM NoLostEdit == Spec => NoUnseenChange
<1> DEFINE Older == \A a \in Admins : form[a] # None =>
                        form[a].seen.revision <= schedules[form[a].script].revision
           FormInv == TypeOK /\ Older /\ FormIsCurrent
<1>1. Init => FormInv
  BY InitTypeOK DEF Init, FormIsCurrent
<1>2. FormInv /\ TypeOK' /\ [Next]_vars => FormInv'
  <2> SUFFICES ASSUME FormInv, TypeOK', [Next]_vars
               PROVE  Older' /\ FormIsCurrent'
    OBVIOUS
  <2>1. \A a \in Admins : form[a] # None =>
            /\ form[a].script \in Scripts
            /\ form[a].seen.revision \in Nat
            /\ schedules[form[a].script] \in Schedule
            /\ schedules[form[a].script].revision \in Nat
    BY DEF TypeOK, Form, Shown, Schedule
  <2>2. CASE UNCHANGED <<schedules, form>>
    BY <2>2 DEF FormIsCurrent
  <2>3. ASSUME NEW w \in Workers, Sweep(w)
        PROVE  Older' /\ FormIsCurrent'
    <3>1. \A s \in Scripts : /\ schedules'[s].cron = schedules[s].cron
                             /\ schedules'[s].enabled = schedules[s].enabled
                             /\ schedules'[s].revision = schedules[s].revision
      BY <2>3 DEF Sweep, Rescheduled, TypeOK, Schedule
    <3>2. form' = form
      BY <2>3 DEF Sweep
    <3>3. QED
      BY <2>1, <3>1, <3>2 DEF FormIsCurrent
  <2>4. ASSUME NEW a \in Admins, NEW s \in Scripts, OpenForm(a, s)
        PROVE  Older' /\ FormIsCurrent'
    <3>1. /\ schedules' = schedules
          /\ \A b \in Admins \ {a} : form'[b] = form[b]
          /\ form'[a].script = s
          /\ form'[a].seen.cron = schedules[s].cron
          /\ form'[a].seen.enabled = schedules[s].enabled
          /\ form'[a].seen.revision = schedules[s].revision
      BY <2>4 DEF OpenForm, TypeOK, queueVars
    <3>2. schedules[s].revision \in Nat
      BY DEF TypeOK, Schedule
    <3>3. QED
      BY <3>1, <3>2 DEF FormIsCurrent
  <2>5. ASSUME NEW a \in Admins, SubmitEdit(a)
        PROVE  Older' /\ FormIsCurrent'
    <3>1. form[a] \in Form
      BY <2>5 DEF SubmitEdit, Phase, TypeOK
    <3>2. /\ schedules' = schedules
          /\ \A b \in Admins \ {a} : form'[b] = form[b]
          /\ form'[a].script = form[a].script
          /\ form'[a].seen = form[a].seen
      BY <2>5, <3>1 DEF SubmitEdit, TypeOK, queueVars, Form
    <3>3. form[a] # None
      BY <2>5 DEF SubmitEdit, Phase
    <3>4. QED
      BY <3>2, <3>3 DEF FormIsCurrent
  <2>6. ASSUME NEW a \in Admins, CommitEdit(a)
        PROVE  Older' /\ FormIsCurrent'
    <3>1. form[a] # None /\ form'[a] = None /\ \A b \in Admins \ {a} : form'[b] = form[b]
      BY <2>6 DEF CommitEdit, Phase, TypeOK
    <3>2. CASE schedules' = schedules
      BY <3>1, <3>2 DEF FormIsCurrent
    <3>3. CASE schedules' = [schedules EXCEPT ![form[a].script] = Edited(a)]
      <4> DEFINE s == form[a].script
      <4>1. s \in Scripts /\ schedules'[s].revision = schedules[s].revision + 1
        BY <2>1, <3>1, <3>3 DEF TypeOK, Edited
      <4>2. \A r \in Scripts \ {s} : schedules'[r] = schedules[r]
        BY <3>3 DEF TypeOK
      <4>3. ASSUME NEW b \in Admins, form'[b] # None, form[b].script = s
            PROVE  form[b].seen.revision < schedules'[s].revision
        BY <2>1, <3>1, <4>1, <4>3
      <4>4. QED
        BY <2>1, <3>1, <4>1, <4>2, <4>3 DEF FormIsCurrent
    <3>4. QED
      BY <2>6, <3>2, <3>3 DEF CommitEdit
  <2>7. \/ UNCHANGED <<schedules, form>>
        \/ \E w \in Workers : Sweep(w)
        \/ \E a \in Admins, s \in Scripts : OpenForm(a, s)
        \/ \E a \in Admins : SubmitEdit(a) \/ CommitEdit(a)
    BY DEF Next, Thread, Process, Administration, vars, queueVars, StartTick, StartRun,
           StartRefused, EndTick, StartCollection, CollectionIsBusy, EndCollection, Conclude,
           RequeueRefused, DatabaseFails, Crash, Stop, Exit, Restart, Heartbeat,
           HeartbeatExpires, LoseLock, StartCli, EndCli, Advance, RequestRun
  <2>8. QED
    BY <2>2, <2>3, <2>4, <2>5, <2>6, <2>7
<1>3. FormInv /\ [Next]_vars => EditSeen
  <2> SUFFICES ASSUME FormInv, [Next]_vars, NEW s \in Scripts,
                      \/ schedules'[s].cron # schedules[s].cron
                      \/ schedules'[s].enabled # schedules[s].enabled
               PROVE  \E a \in Admins :
                          /\ form[a] # None /\ form'[a] = None /\ form[a].script = s
                          /\ form[a].seen.cron = schedules[s].cron
                          /\ form[a].seen.enabled = schedules[s].enabled
    BY DEF EditSeen
  <2>1. ASSUME NEW w \in Workers, Sweep(w)
        PROVE  FALSE
    <3>1. /\ schedules'[s].cron = schedules[s].cron
          /\ schedules'[s].enabled = schedules[s].enabled
      BY <2>1 DEF Sweep, Rescheduled, TypeOK, Schedule
    <3>2. QED
      BY <3>1
  <2>2. PICK a \in Admins : CommitEdit(a) /\ schedules' # schedules
    BY <2>1 DEF Next, Thread, Process, Administration, vars, queueVars, StartTick, StartRun,
           StartRefused, EndTick, StartCollection, CollectionIsBusy, EndCollection, Conclude,
           RequeueRefused, DatabaseFails, Crash, Stop, Exit, Restart, Heartbeat,
           HeartbeatExpires, LoseLock, StartCli, EndCli, Advance, RequestRun, OpenForm,
           SubmitEdit
  <2>3. form[a] # None /\ form'[a] = None
    BY <2>2 DEF CommitEdit, Phase, TypeOK
  <2>4. /\ RevisionMatches(a)
        /\ schedules' = [schedules EXCEPT ![form[a].script] = Edited(a)]
    BY <2>2 DEF CommitEdit
  <2>5. form[a].script = s
    BY <2>4 DEF TypeOK
  <2>6. QED
    BY <2>3, <2>4, <2>5 DEF FormIsCurrent, RevisionMatches
<1>4. QED
  BY <1>1, <1>2, <1>3, TypeCorrect, PTL DEF Spec, NoUnseenChange, EditSeen

-----------------------------------------------------------------------------
(* The queue implements the ledger: every step of ScriptQueue is a step of  *)
(* JobLedger or leaves what it shows unchanged, as long as no lock          *)
(* connection is lost.                                                      *)

Statuses(rows) == [i \in DOMAIN rows |-> rows[i].status]

LEMMA StatusesAppend ==
    ASSUME NEW rows \in Seq(Run), NEW row \in Run
    PROVE  Statuses(Append(rows, row)) = Append(Statuses(rows), row.status)
<1>1. DOMAIN rows = 1..Len(rows) /\ Len(rows) \in Nat
  OBVIOUS
<1>2. Statuses(rows) \in [1..Len(rows) -> {rows[i].status : i \in DOMAIN rows}]
  BY <1>1 DEF Statuses
<1>3. Statuses(rows) \in Seq({rows[i].status : i \in DOMAIN rows}) /\ Len(Statuses(rows)) = Len(rows)
  BY <1>1, <1>2, SeqDef
<1>4. DOMAIN Statuses(Append(rows, row)) = 1..Len(rows) + 1
  BY <1>1 DEF Statuses
<1>5. \A i \in 1..Len(rows) + 1 :
        Statuses(Append(rows, row))[i] = IF i = Len(rows) + 1 THEN row.status ELSE rows[i].status
  BY <1>1 DEF Statuses
<1>6. Append(Statuses(rows), row.status) =
        [i \in 1..Len(rows) + 1 |-> IF i = Len(rows) + 1 THEN row.status ELSE rows[i].status]
  BY <1>1, <1>3 DEF Statuses
<1>7. Statuses(Append(rows, row)) =
        [i \in 1..Len(rows) + 1 |-> IF i = Len(rows) + 1 THEN row.status ELSE rows[i].status]
  BY <1>4, <1>5 DEF Statuses
<1>8. QED
  BY <1>6, <1>7

LEMMA HasActiveStatuses ==
    ASSUME NEW rows
    PROVE  HasActive(rows) <=> Ledger!HasActive(Statuses(rows))
BY DEF HasActive, Ledger!HasActive, Active, Ledger!Active, Statuses

-----------------------------------------------------------------------------
(* What is being executed.                                                  *)

LEMMA ExecutingBar ==
    ASSUME QueueInv, NEW w \in Workers, pc[w] \in Holding
    PROVE  /\ cur[w] = None => executingBar = {}
           /\ cur[w] # None => executingBar = {cur[w]}
BY Alone DEF executingBar

LEMMA LedgerBar == ledgerBar = [s \in Scripts |-> Statuses(runs[s])]
BY DEF ledgerBar, Statuses

(* Writing one row of script_runs writes one entry of the ledger.              *)
LEMMA LedgerWrite ==
    ASSUME runs \in [Scripts -> Seq(Run)], NEW s \in Scripts, NEW i \in DOMAIN runs[s],
           NEW row, runs' = [runs EXCEPT ![s][i] = row]
    PROVE  ledgerBar' = [ledgerBar EXCEPT ![s][i] = row.status]
<1>1. ledgerBar' = [r \in Scripts |-> Statuses(runs'[r])]
  BY DEF ledgerBar, Statuses
<1>2. [r \in Scripts |-> Statuses(runs'[r])]
        = [r \in Scripts |-> Statuses([runs EXCEPT ![s][i] = row][r])]
  OBVIOUS
<1>3. [r \in Scripts |-> Statuses([runs EXCEPT ![s][i] = row][r])]
        = [[r \in Scripts |-> Statuses(runs[r])] EXCEPT ![s][i] = row.status]
  BY DEF Statuses
<1>4. QED
  BY <1>1, <1>2, <1>3, LedgerBar

LedgerStep == [Ledger!Next]_(Ledger!vars)

LEMMA Stutter ==
    ASSUME UNCHANGED <<runs, cur>>
    PROVE  LedgerStep
BY DEF LedgerStep, Ledger!vars, ledgerBar, executingBar

\* A thread that leaves its tick drops the run it was executing, if any.
LEMMA LeaveRefines ==
    ASSUME QueueInv, NEW w \in Workers, NEW place, Leave(w, place), UNCHANGED runs
    PROVE  LedgerStep
<1>1. UNCHANGED ledgerBar
  BY DEF ledgerBar
<1>2. cur' = [cur EXCEPT ![w] = None] /\ cur \in [Workers -> RunKeys \cup {None}]
  BY DEF Leave, QueueInv, TypeOK
<1>3. CASE cur[w] = None
  BY <1>2, <1>3, Stutter
<1>4. CASE cur[w] # None
  <2>1. pc[w] \in Holding
    BY <1>4 DEF QueueInv, ExecutedRun, Holding
  <2>2. \A v \in Workers : cur'[v] = None
    BY <1>2, <2>1, Alone
  <2>3. executingBar # {} /\ executingBar' = {}
    BY <1>4, <2>2 DEF executingBar
  <2>4. QED
    BY <1>1, <2>3 DEF LedgerStep, Ledger!Next, Ledger!LeaveBehind
<1>5. QED
  BY <1>3, <1>4

\* The first transaction of a tick recovers what was left behind and requests runs.
LEMMA SweepRefines ==
    ASSUME QueueInv, NEW w \in Workers, Sweep(w)
    PROVE  LedgerStep
<1> DEFINE t == tickNow[w]
           S == {s \in Scripts : Due(s, t)}
<1>1. pc[w] = "locked" /\ t \in Nat /\ TypeOK
  BY DEF Sweep, QueueInv, TypeOK
<1>2. executingBar = {} /\ UNCHANGED executingBar
  <2>1. cur[w] = None
    BY <1>1 DEF QueueInv, ExecutedRun, Executing
  <2>2. executingBar = {}
    BY <1>1, <2>1, ExecutingBar DEF Holding
  <2>3. UNCHANGED cur
    BY DEF Sweep
  <2>4. QED
    BY <2>2, <2>3 DEF executingBar
<1>3. ASSUME NEW s \in Scripts
      PROVE  Statuses(Swept(s, t)) = Ledger!Requested(Ledger!Recovered(ledgerBar), S)[s]
  <2> DEFINE rows == Interrupted(runs[s])
  <2>1. runs[s] \in Seq(Run)
    BY DEF QueueInv, TypeOK
  <2>2. rows \in Seq(Run) /\ DOMAIN rows = DOMAIN runs[s]
    BY <2>1, InterruptedType
  <2>3. Statuses(rows) = Ledger!Recovered(ledgerBar)[s]
    <3>1. \A i \in DOMAIN runs[s] :
            rows[i].status = IF runs[s][i].status = "running" THEN "interrupted"
                                                              ELSE runs[s][i].status
      <4>1. \A i \in DOMAIN runs[s] : runs[s][i] \in Run
        BY <2>1
      <4>2. QED
        BY <4>1 DEF Interrupted, Run
    <3>2. ledgerBar[s] = Statuses(runs[s])
      BY LedgerBar
    <3>3. QED
      BY <2>2, <3>1, <3>2 DEF Statuses, Ledger!Recovered
  <2>4. HasActive(rows) <=> Ledger!HasActive(Ledger!Recovered(ledgerBar)[s])
    BY <2>3, HasActiveStatuses
  <2>5. NewRun(t, "schedule") \in Run /\ NewRun(t, "schedule").status = "queued"
    BY <1>1 DEF NewRun, Run, Status, Active
  <2>6. Statuses(Append(rows, NewRun(t, "schedule"))) = Append(Statuses(rows), "queued")
    BY <2>2, <2>5, StatusesAppend
  <2> HIDE DEF rows
  <2>7. Swept(s, t) = IF s \in S /\ ~HasActive(rows)
                      THEN Append(rows, NewRun(t, "schedule")) ELSE rows
    BY DEF Swept, rows
  <2>8. QED
    BY <2>3, <2>4, <2>6, <2>7 DEF Ledger!Requested
<1>4. ledgerBar' = Ledger!Requested(Ledger!Recovered(ledgerBar), S)
  <2>1. runs' = [s \in Scripts |-> Swept(s, t)]
    BY DEF Sweep
  <2>2. ledgerBar' = [s \in Scripts |-> Statuses(Swept(s, t))]
    BY <2>1 DEF ledgerBar, Statuses
  <2>3. QED
    BY <1>3, <2>2 DEF Ledger!Requested
<1>5. Ledger!Recover
  <2>1. S \in SUBSET Scripts
    OBVIOUS
  <2>2. QED
    BY <1>2, <1>4, <2>1 DEF Ledger!Recover
<1>6. QED
  BY <1>5 DEF LedgerStep, Ledger!Next

LEMMA StartRunRefines ==
    ASSUME QueueInv, NEW w \in Workers, StartRun(w)
    PROVE  LedgerStep
<1>1. PICK k \in ids[w] : /\ runs' = [runs EXCEPT ![k[1]][k[2]].status = "running"]
                          /\ cur' = [cur EXCEPT ![w] = k]
  BY DEF StartRun
<1> DEFINE s == k[1]
           i == k[2]
           row == [runs[s][i] EXCEPT !.status = "running"]
<1>2. /\ k \in RunKeys /\ s \in Scripts /\ i \in DOMAIN runs[s] /\ runs[s][i].status = "queued"
      /\ runs \in [Scripts -> Seq(Run)] /\ cur \in [Workers -> RunKeys \cup {None}]
  BY DEF QueueInv, ListedRuns, TypeOK, Exists, RunAt
<1>3. k = <<s, i>> /\ k # None
  BY <1>2, QueueAssumption DEF RunKeys
<1>4. \A v \in Workers : cur[v] = None
  <2>1. pc[w] = "dispatch"
    BY DEF StartRun
  <2>2. cur[w] = None
    BY <2>1 DEF QueueInv, ExecutedRun, Executing
  <2>3. QED
    BY <2>1, <2>2, Alone DEF Holding
<1>5. executingBar = {} /\ executingBar' = {<<s, i>>}
  BY <1>1, <1>2, <1>3, <1>4 DEF executingBar
<1>6. row.status = "running"
  BY <1>2 DEF Run
<1>7. ledgerBar' = [ledgerBar EXCEPT ![s][i] = "running"]
  <2>1. runs' = [runs EXCEPT ![s][i] = row]
    BY <1>1
  <2> HIDE DEF row, s, i
  <2>2. QED
    BY <1>2, <1>6, <2>1, LedgerWrite
<1>8. i \in DOMAIN ledgerBar[s] /\ ledgerBar[s][i] = "queued"
  BY <1>2 DEF ledgerBar
<1>9. Ledger!Begin
  <2> HIDE DEF s, i
  <2>1. QED
    BY <1>2, <1>5, <1>7, <1>8 DEF Ledger!Begin
<1>10. QED
  BY <1>9 DEF LedgerStep, Ledger!Next

LEMMA ConcludeRefines ==
    ASSUME QueueInv, NEW w \in Workers, Conclude(w)
    PROVE  LedgerStep
<1> DEFINE k == cur[w]
           s == k[1]
           i == k[2]
           row == Conclusion(w)
<1>1. /\ pc[w] = "concluding"
      /\ runs' = [runs EXCEPT ![s][i] = row]
      /\ cur' = [cur EXCEPT ![w] = None]
  BY DEF Conclude
<1>2. k # None /\ k \in RunKeys /\ Exists(k)
  BY <1>1 DEF QueueInv, ExecutedRun, TypeOK, Executing
<1>3. /\ k = <<s, i>> /\ s \in Scripts /\ i \in DOMAIN runs[s]
      /\ runs \in [Scripts -> Seq(Run)] /\ cur \in [Workers -> RunKeys \cup {None}]
  BY <1>2 DEF RunKeys, Exists, QueueInv, TypeOK
<1>4. executingBar = {<<s, i>>} /\ executingBar' = {}
  <2>1. \A v \in Workers \ {w} : cur[v] = None
    BY <1>1, Alone DEF Holding, Executing
  <2>2. \A v \in Workers : cur'[v] = None
    BY <1>1, <1>3, <2>1
  <2>3. executingBar = {k}
    BY <1>2, <2>1 DEF executingBar
  <2>4. executingBar' = {}
    BY <2>2 DEF executingBar
  <2>5. QED
    BY <1>3, <2>3, <2>4
<1>5. row.status \in {"succeeded", "failed", "queued"}
  <2>1. RunAt(k) \in Run
    BY <1>3 DEF RunAt
  <2>2. outcome[w].kind \in {"succeeded", "failed", "busy", "StakeDeferred", "LoltvBlocked"}
    BY QueueAssumption DEF QueueInv, TypeOK, Outcome
  <2>3. QED
    BY <2>1, <2>2 DEF Conclusion, Run
<1> HIDE DEF row, s, i, k
<1>6. ledgerBar' = [ledgerBar EXCEPT ![s][i] = row.status]
  BY <1>1, <1>3, LedgerWrite
<1>7. i \in DOMAIN ledgerBar[s]
  BY <1>3 DEF ledgerBar
<1>8. Ledger!End
  BY <1>3, <1>4, <1>5, <1>6, <1>7 DEF Ledger!End, Ledger!Ends
<1>9. QED
  BY <1>8 DEF LedgerStep, Ledger!Next

LEMMA RequestRefines ==
    ASSUME QueueInv, NEW s \in Scripts, RequestRun(s)
    PROVE  LedgerStep
<1>1. /\ ~HasActive(runs[s]) /\ UNCHANGED cur
      /\ runs' = [runs EXCEPT ![s] = Append(@, NewRun(now, "manual"))]
  BY DEF RequestRun, threadVars
<1>2. /\ runs[s] \in Seq(Run) /\ NewRun(now, "manual") \in Run
      /\ NewRun(now, "manual").status = "queued"
  BY DEF QueueInv, TypeOK, NewRun, Run, Status, Active
<1>3. Statuses(runs'[s]) = Append(Statuses(runs[s]), "queued")
  BY <1>1, <1>2, StatusesAppend DEF QueueInv, TypeOK
<1>4. \A r \in Scripts \ {s} : runs'[r] = runs[r]
  BY <1>1 DEF QueueInv, TypeOK
<1>5. \A r \in Scripts : ledgerBar[r] = Statuses(runs[r]) /\ ledgerBar'[r] = Statuses(runs'[r])
  BY DEF ledgerBar, Statuses
<1>6. ~Ledger!HasActive(ledgerBar[s])
  BY <1>1, <1>5, HasActiveStatuses
<1>7. ledgerBar' = Ledger!Requested(ledgerBar, {s})
  <2>1. ledgerBar' = [r \in Scripts |-> ledgerBar'[r]]
    BY DEF ledgerBar
  <2>2. \A r \in Scripts : ledgerBar'[r] = Ledger!Requested(ledgerBar, {s})[r]
    BY <1>3, <1>4, <1>5, <1>6 DEF Ledger!Requested
  <2>3. QED
    BY <2>1, <2>2 DEF Ledger!Requested
<1>8. UNCHANGED executingBar
  BY <1>1 DEF executingBar
<1>9. QED
  BY <1>7, <1>8 DEF LedgerStep, Ledger!Next, Ledger!Request

\* Whoever reads script_runs sees a ledger with at most one execution at a time, as
\* long as no lock connection is lost.
THEOREM QueueImplementsLedger == MaxLockLosses = 0 => (Spec => ImplementsLedger)
<1>1. Init => Ledger!Init
  BY DEF Init, Ledger!Init, ledgerBar, executingBar
<1>2. QueueInv /\ [Next]_vars => [Ledger!Next]_(Ledger!vars)
  <2> SUFFICES ASSUME QueueInv, [Next]_vars
               PROVE  LedgerStep
    BY DEF LedgerStep
  <2>1. ASSUME NEW w \in Workers, Thread(w)
        PROVE  LedgerStep
    <3>1. CASE StartRefused(w) \/ EndTick(w) \/ RequeueRefused(w)
      BY <3>1, LeaveRefines DEF StartRefused, EndTick, RequeueRefused, queueVars
    <3>2. CASE StartTick(w) \/ StartCollection(w) \/ CollectionIsBusy(w) \/ EndCollection(w)
      BY <3>2, Stutter
         DEF StartTick, StartCollection, CollectionIsBusy, EndCollection, queueVars
    <3>3. QED
      BY <2>1, <3>1, <3>2, SweepRefines, StartRunRefines, ConcludeRefines DEF Thread
  <2>2. ASSUME NEW w \in Workers, Process(w)
        PROVE  LedgerStep
    <3>1. CASE DatabaseFails(w) \/ Crash(w)
      BY <3>1, LeaveRefines, Stutter DEF DatabaseFails, Crash, queueVars
    <3>2. CASE \/ Stop(w) \/ Exit(w) \/ Restart(w) \/ Heartbeat(w) \/ HeartbeatExpires(w)
               \/ LoseLock(w)
      BY <3>2, Stutter
         DEF Stop, Exit, Restart, Heartbeat, HeartbeatExpires, LoseLock, queueVars, threadVars
    <3>3. QED
      BY <2>2, <3>1, <3>2 DEF Process
  <2>3. CASE StartCli \/ EndCli \/ Advance
    BY <2>3, Stutter DEF StartCli, EndCli, Advance, queueVars, threadVars
  <2>4. CASE Administration
    BY <2>4, Stutter, RequestRefines
       DEF Administration, OpenForm, SubmitEdit, CommitEdit, queueVars, threadVars
  <2>5. CASE UNCHANGED vars
    BY <2>5, Stutter DEF vars, queueVars, threadVars
  <2>6. QED
    BY <2>1, <2>2, <2>3, <2>4, <2>5 DEF Next
<1>3. QED
  BY <1>1, <1>2, QueueInvHolds, PTL DEF Spec, ImplementsLedger, Ledger!Spec

==============================================================================
