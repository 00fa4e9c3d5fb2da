----------------------------- MODULE ScriptQueue -----------------------------
(***************************************************************************)
(* The persistent queue of one source group: the scheduler threads of      *)
(* apps/worker/.../scheduler.py, the advisory locks of jobs.py and the     *)
(* administration routes of apps/api/.../admin.py over the tables          *)
(* script_schedules and script_runs.  Scripts is the group of scripts that *)
(* share a source, hence a scheduler lock: the five groups of              *)
(* SOURCE_SCHEDULER_LOCKS share no row of these tables, so one instance of *)
(* this module is one of them.  A worker is a `metiquo-worker serve`       *)
(* process seen through its thread for that source.                        *)
(*                                                                         *)
(* A transaction is one action when its statements run under the row locks *)
(* it takes first; what is read outside it (the tick's `now`, the list of  *)
(* run identifiers, the revision an administrator's form shows) is state   *)
(* of the process that read it, and may be stale when it is used.          *)
(***************************************************************************)
EXTENDS Integers, Sequences, FiniteSets

CONSTANTS
    Workers,        \* worker processes that serve this source
    Scripts,        \* the scripts of the source
    Admins,         \* administrators with the schedule form at hand
    Crons,          \* cron expressions, each as its period in ticks of the clock
    MinuteCron,     \* the period "* * * * *" stands for
    LiveScripts,    \* loltv-matches, when it is in the group
    Deferrals,      \* exceptions of the collector: "StakeDeferred", "LoltvBlocked"
    BusyDelay,      \* 60 seconds, in ticks of the clock
    Cooldown,       \* loltv_block_cooldown_seconds, in ticks of the clock
    None, Cli,      \* nobody; a collection started from the command line
    MaxTime,        \* bound: the last instant of the clock
    MaxRuns,        \* bound: manual requests stop when a script has this many runs
    MaxRevision,    \* bound: the revision at which a schedule is no longer edited
    MaxFaults,      \* bound: crashes, stops and failed database writes
    MaxLockLosses   \* bound: lock connections the server drops

ASSUME QueueAssumption ==
    /\ Crons \subseteq Nat \ {0}
    /\ Crons # {}
    /\ LiveScripts \subseteq Scripts
    /\ Deferrals \subseteq {"StakeDeferred", "LoltvBlocked"}
    /\ {BusyDelay, Cooldown, MaxTime, MaxRuns, MaxRevision} \subseteq Nat
    /\ {MaxFaults, MaxLockLosses} \subseteq Nat
    /\ None \notin Workers \cup {Cli} \cup Nat \cup (Scripts \X Nat)
    /\ Cli \notin Workers

VARIABLES
    now,            \* the clock every process reads
    schedules,      \* script_schedules, by script
    runs,           \* script_runs, by script in order of insertion
    liveDue,        \* next_live_due of the loltv CollectorState, or None
    seen,           \* worker_status: was the worker seen within 90 seconds
    schedLock,      \* holder of the scheduler lock of the source
    sourceLock,     \* holder of the collector's own source lock
    pc,             \* where the worker's source thread stands
    stopping,       \* the worker's stopping event
    tickNow,        \* `now` of the current tick
    ids,            \* run identifiers the tick still has to dispatch
    cur,            \* the run the thread is executing
    outcome,        \* how the collector ended
    form,           \* the schedule form each administrator has open, or None
    faults, losses  \* what happened of the two bounded kinds of failure

queueVars  == <<schedules, runs, liveDue>>
lockVars   == <<schedLock, sourceLock>>
threadVars == <<pc, tickNow, ids, cur, outcome>>
boundVars  == <<faults, losses>>
vars == <<now, queueVars, seen, lockVars, threadVars, stopping, form, boundVars>>

-----------------------------------------------------------------------------
(* Types.  A run is named by its script and its rank among the script's     *)
(* runs, which stands for the uuid primary key.                             *)

Active   == {"queued", "running"}
Finished == {"succeeded", "failed", "interrupted"}
Status   == Active \cup Finished
RunKeys  == Scripts \X Nat

Run      == [trigger : {"schedule", "manual"}, status : Status,
             requested : Nat, available : Nat]
Schedule == [cron : Crons, enabled : BOOLEAN, next : Nat, revision : Nat]
Shown    == [cron : Crons, enabled : BOOLEAN, revision : Nat]
Form     == [phase : {"open", "submitted"}, script : Scripts, seen : Shown,
             cron : Crons, enabled : BOOLEAN, date : Nat]

(* How an execution of the collector ends, and the instant it may name.     *)
Outcome == [kind : {"succeeded", "failed", "busy"} \cup Deferrals, retry : Nat]

Executing == {"started", "collecting", "concluding"}
Holding   == {"locked", "dispatch"} \cup Executing
Places    == {"down", "idle"} \cup Holding

TypeOK ==
    /\ now \in Nat
    /\ schedules \in [Scripts -> Schedule]
    /\ runs \in [Scripts -> Seq(Run)]
    /\ liveDue \in Nat \cup {None}
    /\ seen \in [Workers -> BOOLEAN]
    /\ schedLock \in Workers \cup {None}
    /\ sourceLock \in Workers \cup {Cli, None}
    /\ pc \in [Workers -> Places]
    /\ stopping \in [Workers -> BOOLEAN]
    /\ tickNow \in [Workers -> Nat]
    /\ ids \in [Workers -> SUBSET RunKeys]
    /\ cur \in [Workers -> RunKeys \cup {None}]
    /\ outcome \in [Workers -> Outcome]
    /\ form \in [Admins -> Form \cup {None}]
    /\ faults \in Nat
    /\ losses \in Nat

-----------------------------------------------------------------------------
(* Operators over the tables.                                               *)

\* upcoming(cron, timezone, after)[0]: the first instant strictly after `after`.
Upcoming(cron, after) == (after \div cron + 1) * cron

RunAt(k) == runs[k[1]][k[2]]
Exists(k) == k[1] \in Scripts /\ k[2] \in DOMAIN runs[k[1]]

NewRun(t, trigger) ==
    [trigger |-> trigger, status |-> "queued", requested |-> t, available |-> t]

HasActive(rows) == \E i \in DOMAIN rows : rows[i].status \in Active

\* Mutated form: there is no unique index.
NoIndex(k) == TRUE

\* The partial unique index uq_script_runs_active lets row k become active.
IndexAllows(k) ==
    \A i \in DOMAIN runs[k[1]] : i # k[2] => runs[k[1]][i].status \notin Active

\* Mutated form: a status the check constraint does not know is written.
InterruptedAs(rows) ==
    [i \in DOMAIN rows |->
        IF rows[i].status = "running" THEN [rows[i] EXCEPT !.status = "stopped"]
                                      ELSE rows[i]]

\* UPDATE script_runs SET status = 'interrupted' WHERE status = 'running'.
Interrupted(rows) ==
    [i \in DOMAIN rows |->
        IF rows[i].status = "running" THEN [rows[i] EXCEPT !.status = "interrupted"]
                                      ELSE rows[i]]

\* The continuous live service: only under the default minute schedule.
LiveWake(s, t) ==
    /\ s \in LiveScripts
    /\ schedules[s].cron = MinuteCron
    /\ liveDue # None
    /\ liveDue <= t

\* Mutated form: live deadlines do not wake the schedule.
DueByCron(s, t) == schedules[s].enabled /\ schedules[s].next <= t

Due(s, t) ==
    /\ schedules[s].enabled
    /\ schedules[s].next <= t \/ LiveWake(s, t)

\* Mutated forms: the active run is not looked for; orphans are not interrupted.
SweptUnchecked(s, t) ==
    LET rows == Interrupted(runs[s])
    IN  IF Due(s, t) THEN Append(rows, NewRun(t, "schedule")) ELSE rows
SweptWithoutRecovery(s, t) ==
    IF Due(s, t) /\ ~HasActive(runs[s])
    THEN Append(runs[s], NewRun(t, "schedule")) ELSE runs[s]

\* The runs of s after the first transaction of a tick at t.
Swept(s, t) ==
    LET rows == Interrupted(runs[s])
    IN  IF Due(s, t) /\ ~HasActive(rows) THEN Append(rows, NewRun(t, "schedule")) ELSE rows

\* Mutated forms: the next date follows the one that was due, not the tick; it is
\* computed only for a schedule whose run is inserted.
RescheduledFromDue(s, t) ==
    IF Due(s, t)
    THEN [schedules[s] EXCEPT !.next = Upcoming(schedules[s].cron, schedules[s].next)]
    ELSE schedules[s]
RescheduledIfInserted(s, t) ==
    IF Due(s, t) /\ ~HasActive(Interrupted(runs[s]))
    THEN [schedules[s] EXCEPT !.next = Upcoming(schedules[s].cron, t)]
    ELSE schedules[s]

Rescheduled(s, t) ==
    IF Due(s, t)
    THEN [schedules[s] EXCEPT !.next = Upcoming(schedules[s].cron, t)]
    ELSE schedules[s]

\* Mutated forms: a deferral is ignored; only the runs of this tick are listed.
ClaimableEarly(row, t) == row.status = "queued"
ClaimableOwn(row, t) == row.status = "queued" /\ row.trigger = "schedule"

Claimable(row, t) == row.status = "queued" /\ row.available <= t

-----------------------------------------------------------------------------
(* The scheduler thread.                                                    *)

Nothing == [kind |-> "succeeded", retry |-> 0]

\* Mutated form: the result of pg_try_advisory_lock is not looked at.
TakeLockUnchecked(w) == TRUE

\* pg_try_advisory_lock succeeds.
TakeLock(w) == schedLock = None

\* Mutated form: the lock is freed whoever holds it.
ReleaseAnyLock(w) == schedLock' = None

\* pg_advisory_unlock, or the end of the session that held the lock: it never
\* frees a lock some other session has taken since.
ReleaseLock(w) == schedLock' = IF schedLock = w THEN None ELSE schedLock

\* The thread goes back to its loop, or its process ends: the locks of its
\* connections are released and its local variables are gone.
Leave(w, place) ==
    /\ pc' = [pc EXCEPT ![w] = place]
    /\ tickNow' = [tickNow EXCEPT ![w] = 0]
    /\ ids' = [ids EXCEPT ![w] = {}]
    /\ cur' = [cur EXCEPT ![w] = None]
    /\ outcome' = [outcome EXCEPT ![w] = Nothing]
    /\ ReleaseLock(w)
    /\ sourceLock' = IF sourceLock = w THEN None ELSE sourceLock

\* source_loop starts a tick, and the lock is free: `now` is read.  A busy lock
\* raises CollectionBusy, which the loop logs.
StartTick(w) ==
    /\ pc[w] = "idle"
    /\ ~stopping[w]
    /\ TakeLock(w)
    /\ schedLock' = w
    /\ pc' = [pc EXCEPT ![w] = "locked"]
    /\ tickNow' = [tickNow EXCEPT ![w] = now]
    /\ UNCHANGED <<now, queueVars, seen, sourceLock, ids, cur, outcome, stopping,
                   form, boundVars>>

\* The first transaction: orphans are interrupted, due schedules are coalesced
\* into at most one run each, and the runs to dispatch are listed.
Sweep(w) ==
    LET t == tickNow[w]
    IN  /\ pc[w] = "locked"
        /\ runs' = [s \in Scripts |-> Swept(s, t)]
        /\ schedules' = [s \in Scripts |-> Rescheduled(s, t)]
        /\ ids' = [ids EXCEPT ![w] =
                {k \in UNION {{s} \X DOMAIN Swept(s, t) : s \in Scripts} :
                    Claimable(Swept(k[1], t)[k[2]], t)}]
        /\ pc' = [pc EXCEPT ![w] = "dispatch"]
        /\ UNCHANGED <<now, liveDue, seen, lockVars, tickNow, cur, outcome, stopping,
                       form, boundVars>>

\* The runs are taken in the order they were requested.
First(w, k) == \A other \in ids[w] : RunAt(k).requested <= RunAt(other).requested

\* One iteration of the dispatch loop marks its run as running, whatever the row
\* says by now.
StartRun(w) ==
    /\ pc[w] = "dispatch"
    /\ ~stopping[w]
    /\ \E k \in ids[w] :
        /\ First(w, k)
        /\ IndexAllows(k)
        /\ runs' = [runs EXCEPT ![k[1]][k[2]].status = "running"]
        /\ cur' = [cur EXCEPT ![w] = k]
        /\ ids' = [ids EXCEPT ![w] = @ \ {k}]
    /\ pc' = [pc EXCEPT ![w] = "started"]
    /\ UNCHANGED <<now, schedules, liveDue, seen, lockVars, tickNow, outcome, stopping,
                   form, boundVars>>

\* The unique index refuses the row: the exception leaves the tick.
StartRefused(w) ==
    /\ pc[w] = "dispatch"
    /\ ~stopping[w]
    /\ \E k \in ids[w] : First(w, k) /\ ~IndexAllows(k)
    /\ Leave(w, "idle")
    /\ UNCHANGED <<now, queueVars, seen, stopping, form, boundVars>>

\* The list is exhausted, or the worker is stopping.
EndTick(w) ==
    /\ pc[w] = "dispatch"
    /\ ids[w] = {} \/ stopping[w]
    /\ Leave(w, "idle")
    /\ UNCHANGED <<now, queueVars, seen, stopping, form, boundVars>>

-----------------------------------------------------------------------------
(* The collector, seen from the queue.                                      *)

StartCollection(w) ==
    /\ pc[w] = "started"
    /\ sourceLock = None
    /\ sourceLock' = w
    /\ pc' = [pc EXCEPT ![w] = "collecting"]
    /\ UNCHANGED <<now, queueVars, seen, schedLock, tickNow, ids, cur, outcome,
                   stopping, form, boundVars>>

CollectionIsBusy(w) ==
    /\ pc[w] = "started"
    /\ sourceLock # None
    /\ outcome' = [outcome EXCEPT ![w] = [kind |-> "busy", retry |-> 0]]
    /\ pc' = [pc EXCEPT ![w] = "concluding"]
    /\ UNCHANGED <<now, queueVars, seen, lockVars, tickNow, ids, cur, stopping, form,
                   boundVars>>

\* What a collection leaves as the next live deadline.  The gates of next_live_due
\* put it after the start of the cycle; one that is past when the cycle ends is a
\* deadline that passes before the next tick.
NextDeadline ==
    IF LiveScripts = {} THEN {liveDue} ELSE {None} \cup (now + 1)..MaxTime

\* The collector returns or raises.
EndCollection(w) ==
    /\ pc[w] = "collecting"
    /\ \E kind \in {"succeeded", "failed"} \cup Deferrals, retry \in 0..MaxTime :
        /\ kind \in {"succeeded", "failed"} => retry = 0
        /\ outcome' = [outcome EXCEPT ![w] = [kind |-> kind, retry |-> retry]]
    /\ liveDue' \in NextDeadline
    /\ sourceLock' = IF sourceLock = w THEN None ELSE sourceLock
    /\ pc' = [pc EXCEPT ![w] = "concluding"]
    /\ UNCHANGED <<now, schedules, runs, seen, schedLock, tickNow, ids, cur, stopping,
                   form, boundVars>>

\* The status and the availability the handler of the outcome writes.  A refusal
\* of Stake without a cooldown ahead ends the run; LoLTV always requeues it.
Conclusion(w) ==
    LET row == RunAt(cur[w])
        o   == outcome[w]
    IN  CASE o.kind \in {"succeeded", "failed"} -> [row EXCEPT !.status = o.kind]
          [] o.kind = "busy" ->
                [row EXCEPT !.status = "queued", !.available = now + BusyDelay]
          [] o.kind = "StakeDeferred" ->
                IF o.retry <= now
                THEN [row EXCEPT !.status = "failed"]
                ELSE [row EXCEPT !.status = "queued", !.available = o.retry]
          [] o.kind = "LoltvBlocked" ->
                [row EXCEPT !.status = "queued",
                            !.available = IF o.retry = 0 THEN now + Cooldown ELSE o.retry]

\* The last transaction of an iteration.
Conclude(w) ==
    LET k == cur[w]
    IN  /\ pc[w] = "concluding"
        /\ Conclusion(w).status \in Active => IndexAllows(k)
        /\ runs' = [runs EXCEPT ![k[1]][k[2]] = Conclusion(w)]
        /\ cur' = [cur EXCEPT ![w] = None]
        /\ outcome' = [outcome EXCEPT ![w] = Nothing]
        /\ pc' = [pc EXCEPT ![w] = "dispatch"]
        /\ UNCHANGED <<now, schedules, liveDue, seen, lockVars, tickNow, ids, stopping,
                       form, boundVars>>

\* A requeue the unique index refuses leaves the handler, then the tick.
RequeueRefused(w) ==
    /\ pc[w] = "concluding"
    /\ Conclusion(w).status \in Active
    /\ ~IndexAllows(cur[w])
    /\ Leave(w, "idle")
    /\ UNCHANGED <<now, queueVars, seen, stopping, form, boundVars>>

-----------------------------------------------------------------------------
(* Processes, connections and the command line.                             *)

\* A statement of a transaction fails: nothing of it is kept.  In the handler of
\* a collection that succeeded, the exception is caught once and recorded as a
\* failure; elsewhere it leaves the tick, and a run it was concluding stays
\* "running".
DatabaseFails(w) ==
    /\ faults < MaxFaults
    /\ faults' = faults + 1
    /\ \/ /\ pc[w] \in {"locked", "dispatch", "concluding"}
          /\ Leave(w, "idle")
       \/ /\ pc[w] = "concluding"
          /\ outcome[w].kind = "succeeded"
          /\ outcome' = [outcome EXCEPT ![w].kind = "failed"]
          /\ UNCHANGED <<lockVars, pc, tickNow, ids, cur>>
    /\ UNCHANGED <<now, queueVars, seen, stopping, form, losses>>

\* The process dies, or its threads outlive the join timeout of serve_schedules.
Crash(w) ==
    /\ pc[w] # "down"
    /\ faults < MaxFaults
    /\ faults' = faults + 1
    /\ Leave(w, "down")
    /\ stopping' = [stopping EXCEPT ![w] = FALSE]
    /\ UNCHANGED <<now, queueVars, seen, form, losses>>

\* SIGTERM or the stop file: the thread notices between two runs.
Stop(w) ==
    /\ pc[w] # "down"
    /\ ~stopping[w]
    /\ faults < MaxFaults
    /\ faults' = faults + 1
    /\ stopping' = [stopping EXCEPT ![w] = TRUE]
    /\ UNCHANGED <<now, queueVars, seen, lockVars, threadVars, form, losses>>

Exit(w) ==
    /\ pc[w] = "idle"
    /\ stopping[w]
    /\ pc' = [pc EXCEPT ![w] = "down"]
    /\ stopping' = [stopping EXCEPT ![w] = FALSE]
    /\ UNCHANGED <<now, queueVars, seen, lockVars, tickNow, ids, cur, outcome, form,
                   boundVars>>

\* The service manager starts the worker again: a heartbeat comes first.
Restart(w) ==
    /\ pc[w] = "down"
    /\ pc' = [pc EXCEPT ![w] = "idle"]
    /\ seen' = [seen EXCEPT ![w] = TRUE]
    /\ UNCHANGED <<now, queueVars, lockVars, tickNow, ids, cur, outcome, stopping, form,
                   boundVars>>

\* The pulse thread, every 20 seconds until the worker is stopping.
Heartbeat(w) ==
    /\ pc[w] # "down"
    /\ ~stopping[w]
    /\ ~seen[w]
    /\ seen' = [seen EXCEPT ![w] = TRUE]
    /\ UNCHANGED <<now, queueVars, lockVars, threadVars, stopping, form, boundVars>>

\* Ninety seconds pass without a heartbeat: the worker is down or stopping, or
\* its writes fail.
HeartbeatExpires(w) ==
    /\ seen[w]
    /\ seen' = [seen EXCEPT ![w] = FALSE]
    /\ UNCHANGED <<now, queueVars, lockVars, threadVars, stopping, form, boundVars>>

\* The server drops the connection that holds the scheduler lock.  The thread,
\* which uses other connections for its transactions, does not see it.
LoseLock(w) ==
    /\ schedLock = w
    /\ losses < MaxLockLosses
    /\ losses' = losses + 1
    /\ schedLock' = None
    /\ UNCHANGED <<now, queueVars, seen, sourceLock, threadVars, stopping, form, faults>>

\* A collection started from the command line shares the collector's lock, not
\* the queue.
StartCli ==
    /\ sourceLock = None
    /\ sourceLock' = Cli
    /\ UNCHANGED <<now, queueVars, seen, schedLock, threadVars, stopping, form,
                   boundVars>>

EndCli ==
    /\ sourceLock = Cli
    /\ sourceLock' = None
    /\ liveDue' \in NextDeadline
    /\ UNCHANGED <<now, schedules, runs, seen, schedLock, threadVars, stopping, form,
                   boundVars>>

Advance ==
    /\ now < MaxTime
    /\ now' = now + 1
    /\ UNCHANGED <<queueVars, seen, lockVars, threadVars, stopping, form, boundVars>>

-----------------------------------------------------------------------------
(* The administration routes.                                               *)

\* GET /scripts: the form shows a schedule and keeps its revision.
OpenForm(a, s) ==
    /\ form[a] = None
    /\ schedules[s].revision < MaxRevision
    /\ form' = [form EXCEPT ![a] =
            [phase |-> "open", script |-> s, date |-> 0,
             seen |-> [cron |-> schedules[s].cron, enabled |-> schedules[s].enabled,
                       revision |-> schedules[s].revision],
             cron |-> schedules[s].cron, enabled |-> schedules[s].enabled]]
    /\ UNCHANGED <<now, queueVars, seen, lockVars, threadVars, stopping, boundVars>>

\* Writes of administrators are serialised by an advisory lock of the transaction.
Phase(a) == IF form[a] = None THEN "closed" ELSE form[a].phase
NoWriteInProgress == \A a \in Admins : Phase(a) # "submitted"

\* PATCH /scripts/{id}: the next dates are computed before the row is locked.
SubmitEdit(a) ==
    /\ Phase(a) = "open"
    /\ NoWriteInProgress
    /\ \E c \in Crons, e \in BOOLEAN :
        form' = [form EXCEPT ![a] = [@ EXCEPT !.phase = "submitted", !.cron = c,
                                        !.enabled = e, !.date = Upcoming(c, now)]]
    /\ UNCHANGED <<now, queueVars, seen, lockVars, threadVars, stopping, boundVars>>

\* Mutated form: the revision of the form is not looked at.
RevisionIgnored(a) == TRUE

RevisionMatches(a) == schedules[form[a].script].revision = form[a].seen.revision

Edited(a) ==
    [cron |-> form[a].cron, enabled |-> form[a].enabled, next |-> form[a].date,
     revision |-> schedules[form[a].script].revision + 1]

\* The row is locked, compared with the revision of the form, and written or
\* refused with 409.
CommitEdit(a) ==
    /\ Phase(a) = "submitted"
    /\ schedules' = IF RevisionMatches(a)
                    THEN [schedules EXCEPT ![form[a].script] = Edited(a)]
                    ELSE schedules
    /\ form' = [form EXCEPT ![a] = None]
    /\ UNCHANGED <<now, runs, liveDue, seen, lockVars, threadVars, stopping, boundVars>>

\* POST /scripts/{id}/run, under the lock of the schedule row.  Every worker of
\* this group offers every script of it.
RequestRun(s) ==
    /\ NoWriteInProgress
    /\ \E w \in Workers : seen[w]
    /\ ~HasActive(runs[s])
    /\ Len(runs[s]) < MaxRuns
    /\ runs' = [runs EXCEPT ![s] = Append(@, NewRun(now, "manual"))]
    /\ UNCHANGED <<now, schedules, liveDue, seen, lockVars, threadVars, stopping, form,
                   boundVars>>

-----------------------------------------------------------------------------
Init ==
    /\ now = 0
    /\ schedules \in [Scripts -> {[cron |-> c, enabled |-> TRUE,
                                   next |-> Upcoming(c, 0), revision |-> 1] : c \in Crons}]
    /\ runs = [s \in Scripts |-> <<>>]
    /\ liveDue = None
    /\ seen = [w \in Workers |-> FALSE]
    /\ schedLock = None
    /\ sourceLock = None
    /\ pc = [w \in Workers |-> "down"]
    /\ stopping = [w \in Workers |-> FALSE]
    /\ tickNow = [w \in Workers |-> 0]
    /\ ids = [w \in Workers |-> {}]
    /\ cur = [w \in Workers |-> None]
    /\ outcome = [w \in Workers |-> Nothing]
    /\ form = [a \in Admins |-> None]
    /\ faults = 0
    /\ losses = 0

Thread(w) ==
    \/ StartTick(w) \/ Sweep(w) \/ StartRun(w) \/ StartRefused(w) \/ EndTick(w)
    \/ StartCollection(w) \/ CollectionIsBusy(w) \/ EndCollection(w)
    \/ Conclude(w) \/ RequeueRefused(w)

Process(w) ==
    \/ DatabaseFails(w) \/ Crash(w) \/ Stop(w) \/ Exit(w) \/ Restart(w)
    \/ Heartbeat(w) \/ HeartbeatExpires(w) \/ LoseLock(w)

Administration ==
    \/ \E a \in Admins : \E s \in Scripts : OpenForm(a, s)
    \/ \E a \in Admins : SubmitEdit(a) \/ CommitEdit(a)
    \/ \E s \in Scripts : Admins # {} /\ RequestRun(s)

Next ==
    \/ \E w \in Workers : Thread(w) \/ Process(w)
    \/ StartCli \/ EndCli \/ Advance
    \/ Administration

Spec == Init /\ [][Next]_vars

-----------------------------------------------------------------------------
(* What the code's scheduling justifies: threads keep running, every call of a *)
(* collector has a timeout, the service manager restarts a worker              *)
(* (restart: unless-stopped), and the clock goes on.  No fairness of one       *)
(* worker over another: pg_try_advisory_lock promises none.                    *)
Fairness ==
    /\ WF_vars(\E w \in Workers : StartTick(w))
    /\ \A w \in Workers :
        /\ WF_vars(Sweep(w)) /\ WF_vars(EndTick(w))
        /\ WF_vars(StartRun(w) \/ StartRefused(w))
        /\ WF_vars(StartCollection(w) \/ CollectionIsBusy(w)) /\ WF_vars(EndCollection(w))
        /\ WF_vars(Conclude(w) \/ RequeueRefused(w))
        /\ WF_vars(Exit(w)) /\ WF_vars(Restart(w))
    /\ WF_vars(EndCli) /\ WF_vars(Advance)
    /\ \A a \in Admins : WF_vars(CommitEdit(a))

FairSpec == Spec /\ Fairness

-----------------------------------------------------------------------------
(* Safety.                                                                  *)

Claims(w) == ids[w] \cup (IF cur[w] = None THEN {} ELSE {cur[w]})

\* The list of runs a tick read in its first transaction is still good when it is
\* used: the runs to dispatch are queued, the run being executed is running, and
\* no two workers have a run in common.  _tick_source checks none of this again
\* after the transaction: only the scheduler lock makes it so.
ClaimsAreExclusive ==
    /\ \A w \in Workers :
        /\ \A k \in ids[w] : Exists(k) /\ RunAt(k).status = "queued"
        /\ cur[w] # None => Exists(cur[w]) /\ RunAt(cur[w]).status = "running"
    /\ \A v, w \in Workers : v # w => Claims(v) \cap Claims(w) = {}

\* A script has at most one run that is queued or running, whatever the workers,
\* the administrators and the scheduler lock do.
AtMostOneActive ==
    \A s \in Scripts : \A i, j \in DOMAIN runs[s] :
        runs[s][i].status \in Active /\ runs[s][j].status \in Active => i = j

\* Missed instants of a cron are coalesced: between two runs a schedule requested
\* there is an instant of its cron, so downtime never ends in a burst.  The deadlines of
\* the live service request runs of their own.
OnePerCronInstant ==
    \A s \in Scripts \ LiveScripts : \A i, j \in DOMAIN runs[s] :
        i < j /\ runs[s][i].trigger = "schedule" /\ runs[s][j].trigger = "schedule"
            => \E t \in runs[s][i].requested + 1 .. runs[s][j].requested :
                    t % schedules[s].cron = 0

\* What a schedule says is changed only by the submission of a form that shows what the row
\* still holds: nobody overwrites a change that he has not seen.
NoUnseenChange ==
    [][\A s \in Scripts :
        schedules'[s].cron # schedules[s].cron \/ schedules'[s].enabled # schedules[s].enabled
            => \E a \in Admins :
                   /\ form[a] # None /\ form'[a] = None /\ form[a].script = s
                   /\ form[a].seen.cron = schedules[s].cron
                   /\ form[a].seen.enabled = schedules[s].enabled]_vars

\* A run that a worker is executing is never taken for the orphan of a dead one.
LiveRunNotInterrupted ==
    [][\A w \in Workers :
        pc[w] \in Executing /\ RunAt(cur[w]).status # "interrupted"
            => runs'[cur[w][1]][cur[w][2]].status # "interrupted"]_vars

\* A run that has succeeded, failed or been interrupted is never run again nor
\* given another end.
FinishedIsFinal ==
    [][\A s \in Scripts : \A i \in DOMAIN runs[s] :
        runs[s][i].status \in Finished => runs'[s][i] = runs[s][i]]_vars

\* A deferred run is not started before the date its source asked for.
NeverStartsEarly ==
    [][\A s \in Scripts : \A i \in DOMAIN runs[s] :
        runs[s][i].status # "running" /\ runs'[s][i].status = "running"
            => runs[s][i].available <= now]_vars

-----------------------------------------------------------------------------
(* The inductive invariant behind the safety properties, as long as no lock   *)
(* connection is lost: the lock is held exactly by the thread that is in a    *)
(* tick, and what that thread read is still what the rows say.                *)

LockHeld == \A w \in Workers : pc[w] \in Holding <=> schedLock = w

TickIsPast == \A w \in Workers : tickNow[w] <= now

ListedRuns ==
    \A w \in Workers :
        /\ ids[w] # {} => pc[w] \in {"dispatch"} \cup Executing
        /\ \A k \in ids[w] :
            Exists(k) /\ RunAt(k).status = "queued" /\ RunAt(k).available <= now

ExecutedRun ==
    \A w \in Workers :
        /\ cur[w] # None <=> pc[w] \in Executing
        /\ cur[w] # None => Exists(cur[w]) /\ RunAt(cur[w]).status = "running"

QueueInv == TypeOK /\ LockHeld /\ TickIsPast /\ ListedRuns /\ ExecutedRun

-----------------------------------------------------------------------------
(* Liveness.                                                                *)

IsQueued(s) ==
    \E i \in DOMAIN runs[s] :
        runs[s][i].status = "queued" /\ runs[s][i].available <= MaxTime

IsRunning(s) == \E i \in DOMAIN runs[s] : runs[s][i].status = "running"

\* A queued run is taken once it is available, even if its schedule is paused and
\* whatever crashes, stops and busy collections come before.
QueuedRunIsTaken == \A s \in Scripts : IsQueued(s) ~> IsRunning(s)

\* No run stays "running" for ever: it is concluded, requeued or interrupted.
RunningRunEnds == \A s \in Scripts : IsRunning(s) ~> ~IsRunning(s)

\* A schedule that is due is served or paused.
DueScheduleIsServed ==
    \A s \in Scripts :
        schedules[s].enabled /\ schedules[s].next <= now
            ~> ~schedules[s].enabled \/ schedules[s].next > now

\* A live deadline wakes the continuous schedule between two cron instants: the
\* collection it calls for is requested, unless the schedule is paused meanwhile.
LiveDeadlineIsServed ==
    \A s \in LiveScripts :
        schedules[s].enabled /\ LiveWake(s, now)
            ~> HasActive(runs[s]) \/ ~LiveWake(s, now) \/ ~schedules[s].enabled

=============================================================================
