------------------------------ MODULE StakeCycle ------------------------------
(***************************************************************************)
(* One source lock, one cycle of the Stake collector at a time             *)
(* (stake_sync.py): it lists the events, traverses the tabs of each with a *)
(* browser (stake_browser.py), publishes what it has read in one           *)
(* transaction per event (stake_storage.py) and counts its requests in a   *)
(* durable window and block (stake_policy.py).                             *)
(*                                                                         *)
(* The dates are abstracted by what has come: the end of the window, the   *)
(* end of a block, the start of an event.                                  *)
(***************************************************************************)
EXTENDS Naturals, FiniteSets

CONSTANTS
    Events,     \* source_id of the events of one game, in their order
    Tabs,       \* market tabs of an event
    Budget,     \* stake_request_budget
    Bursts,     \* how many requests a page may issue after one action
    MaxActions, \* stake_max_actions
    MaxFaults   \* bound: refusals, failures, stops, crashes and changes of the source

ASSUME StakeAssumption ==
    /\ Events \subseteq Nat \ {0} /\ IsFiniteSet(Events)
    /\ Budget \in Nat \ {0} /\ MaxActions \in Nat /\ MaxFaults \in Nat
    /\ Bursts \subseteq Nat \ {0}

VARIABLES
    site,    \* what the source shows of each event
    row,     \* the stake row of collector_state: requests of the window, block
    over,    \* the window of the row is over
    pending, \* requests counted in memory since the last flush
    event,   \* bookmaker_events
    shot,    \* the last snapshot of each event
    last,    \* rank of the last snapshot of each event, 0 when it has none
    run,     \* the row of the last ingestion run
    cycle,   \* the cycle under way
    faults,
    used,    \* history: requests issued since the window of the row was opened
    pause    \* history: a block asked for has not come to its end

vars == <<site, row, over, pending, event, shot, last, run, cycle, faults, used, pause>>

-----------------------------------------------------------------------------
Statuses == {"scheduled", "live", "closed"}
Phases   == {"off", "hub", "listing", "events", "traversal", "publication"}
NoShot   == [phase |-> "none", statuses |-> {}, whole |-> TRUE, late |-> FALSE]

Idle == [phase |-> "off", todo |-> {}, actions |-> 0, event |-> 0, retried |-> FALSE,
         statuses |-> {}, tabs |-> {}, enabled |-> {}, closing |-> "none",
         failed |-> FALSE]

TypeOK ==
    /\ site \in [Events -> [status : Statuses, started : BOOLEAN]]
    /\ row \in [count : Nat, blocked : BOOLEAN]
    /\ over \in BOOLEAN /\ pause \in BOOLEAN
    /\ pending \in Nat /\ used \in Nat
    /\ event \in [Events -> [status : Statuses \cup {"none"}, stopped : BOOLEAN]]
    /\ shot \in [Events -> [phase : {"none", "live", "prematch"}, statuses : SUBSET Statuses,
                            whole : BOOLEAN, late : BOOLEAN]]
    /\ last \in [Events -> 0 .. Cardinality(Events)]
    /\ run \in [status : {"none", "running", "succeeded", "failed"}, snapshots : BOOLEAN]
    /\ cycle \in [phase : Phases, todo : SUBSET Events, actions : 0 .. MaxActions,
                  event : Events \cup {0}, retried : BOOLEAN, statuses : SUBSET Statuses,
                  tabs : SUBSET Tabs, enabled : SUBSET Tabs,
                  closing : Statuses \cup {"none"}, failed : BOOLEAN]
    /\ faults \in 0 .. MaxFaults

Running == cycle.phase # "off"

Fault == faults < MaxFaults /\ faults' = faults + 1

-----------------------------------------------------------------------------
(* The policy.                                                              *)

\* Mutated form: the counter of the process replaces the one of the row.
FlushedOver == pending

\* StakePolicy.flush, what it writes: a window that is over is opened again.
Flushed == (IF over THEN 0 ELSE row.count) + pending

\* StakePolicy.check after a flush.
Refuses(count) == row.blocked \/ count >= Budget

\* The row after a flush, and the requests n that the next page issues.
Flush(n) ==
    /\ row' = [row EXCEPT !.count = Flushed]
    /\ over' = FALSE
    /\ pending' = n
    /\ used' = (IF over THEN 0 ELSE used) + n

\* StakePolicy.block, what it leaves in the row: a null pause lifts the block.
BlockedBy(pausing) == pausing

\* The page of the next action may be read: the checks made while it loads find neither
\* the budget spent nor the bound of actions reached.
Readable(n) == Flushed + n < Budget /\ cycle.actions + 1 < MaxActions

\* before_action and the navigation or the click, up to a page that can be read.
Acts(next) ==
    /\ \E n \in Bursts : Readable(n) /\ Flush(n)
    /\ cycle' = [next EXCEPT !.actions = cycle.actions + 1]

-----------------------------------------------------------------------------
(* The end of a cycle.                                                      *)

\* finish: what was persisted decides.
Succeeded(snapshots, failed) == snapshots \/ ~failed

\* The browser is closed, which flushes the n last requests too, and the run is ended.
EndsAs(snapshots, failure, blocked, n) ==
    /\ run' = [status |-> IF Succeeded(snapshots, cycle.failed \/ failure)
                          THEN "succeeded" ELSE "failed",
               snapshots |-> snapshots]
    /\ row' = [count |-> Flushed + n, blocked |-> blocked]
    /\ over' = FALSE
    /\ pending' = 0
    /\ used' = (IF over THEN 0 ELSE used) + n
    /\ cycle' = Idle

Navigating == cycle.phase \in {"hub", "listing", "events", "traversal"}

\* The page of the last action is not read: StakeDeferred when the budget is spent,
\* StakeCycleComplete at the bound of actions.
Checkpoint ==
    /\ Navigating
    /\ cycle.phase = "events" => cycle.todo # {}
    /\ cycle.phase = "traversal" => ~(cycle.enabled \subseteq cycle.tabs)
    /\ \E n \in Bursts :
        /\ ~Readable(n)
        /\ EndsAs(run.snapshots, Flushed + n >= Budget, row.blocked, n)
    /\ UNCHANGED <<site, event, shot, last, faults, pause>>

\* A stop is asked for or the deadline passes.
StopRequested ==
    /\ Navigating /\ Fault
    /\ EndsAs(run.snapshots, FALSE, row.blocked, 0)
    /\ UNCHANGED <<site, event, shot, last, pause>>

\* The main document was refused and its content is missing: block raises.
Refused ==
    /\ Navigating /\ Fault
    /\ \E pausing \in BOOLEAN :
        /\ EndsAs(run.snapshots, TRUE, BlockedBy(pausing), 0)
        /\ pause' = pausing
    /\ UNCHANGED <<site, event, shot, last>>

\* A listing that does not become ready, a browser or a database that fails.
Interrupted ==
    /\ Running /\ Fault
    /\ EndsAs(run.snapshots, TRUE, row.blocked, 0)
    /\ UNCHANGED <<site, event, shot, last, pause>>

Finished ==
    /\ cycle.phase = "events" /\ cycle.todo = {}
    /\ EndsAs(run.snapshots, FALSE, row.blocked, 0)
    /\ UNCHANGED <<site, event, shot, last, faults, pause>>

\* The process dies: what it counted since the last flush is lost.
Crash ==
    /\ Running /\ Fault
    /\ cycle' = Idle
    /\ pending' = 0
    /\ used' = used - pending
    /\ UNCHANGED <<site, row, over, event, shot, last, run, pause>>

-----------------------------------------------------------------------------
(* Listing.                                                                 *)

\* The source lock, the policy with its flush and its check, then start_run.
Begin ==
    /\ ~Running
    /\ row' = [row EXCEPT !.count = Flushed]
    /\ over' = FALSE
    /\ used' = IF over THEN 0 ELSE used
    /\ IF Refuses(Flushed)
       THEN UNCHANGED <<run, cycle>>
       ELSE /\ run' = [status |-> "running", snapshots |-> FALSE]
            /\ cycle' = [Idle EXCEPT !.phase = "hub"]
    /\ UNCHANGED <<site, pending, event, shot, last, faults, pause>>

OpenHub ==
    /\ cycle.phase = "hub"
    /\ Acts([cycle EXCEPT !.phase = "listing"])
    /\ UNCHANGED <<site, event, shot, last, run, faults, pause>>

Listed == {e \in Events : site[e].status # "closed"}

Upserted(found) ==
    [e \in Events |->
        IF e \in found THEN [event[e] EXCEPT !.status = site[e].status] ELSE event[e]]

\* One page of the listing, opened by a navigation or a click and persisted before the
\* next one.  After the last one, the events that were stopped are left out.
Discover ==
    /\ cycle.phase = "listing"
    /\ \E found \in SUBSET (Listed \ cycle.todo) :
        LET todo == cycle.todo \cup found
        IN  /\ found # {} \/ Listed \subseteq cycle.todo
            /\ event' = Upserted(found)
            /\ Acts(IF Listed \subseteq todo
                    THEN [cycle EXCEPT !.phase = "events",
                                       !.todo = {e \in todo : ~event[e].stopped}]
                    ELSE [cycle EXCEPT !.todo = todo])
    /\ UNCHANGED <<site, shot, last, run, faults, pause>>

-----------------------------------------------------------------------------
(* Traversal of an event.                                                   *)

Live(e) == event[e].status = "live"

\* Mutated form: the date of the last snapshot is forgotten.
AheadById(e, f) == (Live(e) /\ ~Live(f)) \/ (Live(e) = Live(f) /\ e < f)

\* The order of the fixtures: live first, then the oldest snapshot.
Ahead(e, f) ==
    \/ Live(e) /\ ~Live(f)
    \/ /\ Live(e) = Live(f)
       /\ last[e] < last[f] \/ (last[e] = last[f] /\ e < f)

\* The event to be opened: the one that is opened again, or the first in the order.
Turn(e) ==
    /\ cycle.phase = "events" /\ e \in cycle.todo
    /\ IF cycle.event # 0 THEN e = cycle.event ELSE \A f \in cycle.todo \ {e} : Ahead(e, f)

\* EventMetadata.eligible at the present date.
Eligible(e, status) == status = "live" \/ (status = "scheduled" /\ ~site[e].started)

\* The cycle goes on without e.
LeftOut(e) == [Idle EXCEPT !.phase = "events", !.todo = cycle.todo \ {e},
                           !.actions = cycle.actions, !.failed = cycle.failed]
FailedOn(e) == [LeftOut(e) EXCEPT !.failed = TRUE]

\* A capture of the tab t, which shows what tabs are enabled.
Captured(e, t, enabled) ==
    [cycle EXCEPT !.phase = "traversal", !.event = e, !.statuses = @ \cup {site[e].status},
                  !.tabs = @ \cup {t}, !.enabled = @ \cup enabled \cup {t}]

\* Navigation to the event and capture of the tab that is open.
OpenEvent ==
    /\ \E e \in Events, t \in Tabs, enabled \in SUBSET Tabs :
        /\ Turn(e) /\ Eligible(e, site[e].status)
        /\ Acts(Captured(e, t, enabled))
    /\ UNCHANGED <<site, event, shot, last, run, faults, pause>>

\* A click on a tab that was seen enabled.
OpenTab ==
    /\ cycle.phase = "traversal"
    /\ Eligible(cycle.event, site[cycle.event].status)
    /\ \E t \in cycle.enabled \ cycle.tabs, enabled \in SUBSET Tabs :
        Acts(Captured(cycle.event, t, enabled))
    /\ UNCHANGED <<site, event, shot, last, run, faults, pause>>

\* The page that is opened, or the one that is about to be clicked, shows an event whose
\* start has come while it is still announced as scheduled.
EventLate ==
    /\ \E e \in Events :
        /\ Turn(e) \/ (cycle.phase = "traversal" /\ e = cycle.event
                       /\ ~(cycle.enabled \subseteq cycle.tabs))
        /\ site[e].status = "scheduled" /\ site[e].started
        /\ Acts(FailedOn(e))
    /\ UNCHANGED <<site, event, shot, last, run, faults, pause>>

\* A reading of the event is not understood, its markets are not stable, or what was
\* captured has an ambiguous identity, no selection or odds of an unknown form.
ReadingFails ==
    /\ cycle.phase \in {"traversal", "publication"} /\ Fault
    /\ cycle' = FailedOn(cycle.event)
    /\ UNCHANGED <<site, row, over, pending, event, shot, last, run, used, pause>>

\* A reading shows that the event is closed: it is stopped for good.
EventStopped ==
    /\ \E e \in Events :
        /\ site[e].status = "closed"
        /\ \/ /\ cycle.phase = "traversal" /\ e = cycle.event
              /\ cycle' = LeftOut(e)
              /\ UNCHANGED <<row, over, pending, used>>
           \/ Turn(e) /\ Acts(LeftOut(e))
        /\ event' = [event EXCEPT ![e] = [status |-> "closed", stopped |-> TRUE]]
    /\ UNCHANGED <<site, shot, last, run, faults, pause>>

\* Mutated form: the captures are compared with one another only.
MixedCaptures(closing) == Cardinality(cycle.statuses) > 1

\* A capture shows another phase than the closing reading.
Mixed(closing) == cycle.statuses # {closing}

\* The closing reading, when no enabled tab is left.  A traversal across a change of
\* phase is made again once, if the event is now live.
Close ==
    LET e == cycle.event
        closing == site[e].status
    IN  /\ cycle.phase = "traversal" /\ cycle.enabled \subseteq cycle.tabs
        /\ closing # "closed"
        /\ event' = IF Mixed(closing) THEN [event EXCEPT ![e].status = closing] ELSE event
        /\ cycle' =
             IF Mixed(closing)
             THEN IF closing = "live" /\ ~cycle.retried
                  THEN [LeftOut(e) EXCEPT !.todo = cycle.todo, !.event = e, !.retried = TRUE]
                  ELSE FailedOn(e)
             ELSE IF Eligible(e, closing)
                  THEN [cycle EXCEPT !.phase = "publication", !.closing = closing]
                  ELSE FailedOn(e)
        /\ UNCHANGED <<site, row, over, pending, shot, last, run, faults, used, pause>>

-----------------------------------------------------------------------------
(* Publication.                                                             *)

\* The check made under the lock of the identities.
Commits(e) == ~event[e].stopped /\ Eligible(e, cycle.closing)

MovedLast(e) ==
    [f \in Events |-> IF f = e THEN Cardinality(Events)
                      ELSE IF last[f] > last[e] /\ last[f] > 1 THEN last[f] - 1 ELSE last[f]]

Snapshot(e) == [phase |-> IF cycle.closing = "live" THEN "live" ELSE "prematch",
                statuses |-> cycle.statuses, whole |-> cycle.enabled \subseteq cycle.tabs,
                late |-> site[e].started]

\* The transaction of publish.  The answer to its commit may be lost.
Publish ==
    LET e == cycle.event
    IN  /\ cycle.phase = "publication" /\ Commits(e)
        /\ event' = [event EXCEPT ![e].status = cycle.closing]
        /\ shot' = [shot EXCEPT ![e] = Snapshot(e)]
        /\ last' = MovedLast(e)
        /\ \/ /\ run' = [run EXCEPT !.snapshots = TRUE]
              /\ cycle' = LeftOut(e)
              /\ UNCHANGED <<row, over, pending, used, faults>>
           \/ Fault /\ EndsAs(TRUE, TRUE, row.blocked, 0)
        /\ UNCHANGED <<site, pause>>

\* The event may no longer be collected at the date of the commit: nothing is written.
PublishRejected ==
    /\ cycle.phase = "publication" /\ ~Commits(cycle.event)
    /\ cycle' = FailedOn(cycle.event)
    /\ UNCHANGED <<site, row, over, pending, event, shot, last, run, faults, used, pause>>

-----------------------------------------------------------------------------
(* The source and the clock.                                                *)

\* The source announces that an event has begun or that it is over.
Announced ==
    /\ Fault
    /\ \E e \in Events, status \in {"live", "closed"} :
        /\ site[e].status # status /\ site[e].status # "closed"
        /\ site' = [site EXCEPT ![e].status = status]
    /\ UNCHANGED <<row, over, pending, event, shot, last, run, cycle, used, pause>>

\* The scheduled start of an event comes, less the guard.
Starts ==
    /\ Fault
    /\ \E e \in Events :
        /\ ~site[e].started
        /\ site' = [site EXCEPT ![e].started = TRUE]
    /\ UNCHANGED <<row, over, pending, event, shot, last, run, cycle, used, pause>>

\* The end of a window in which nothing was counted changes nothing.
WindowEnds ==
    /\ ~over /\ row.count + pending > 0
    /\ over' = TRUE
    /\ UNCHANGED <<site, row, pending, event, shot, last, run, cycle, faults, used, pause>>

BlockEnds ==
    /\ pause \/ row.blocked
    /\ pause' = FALSE
    /\ row' = [row EXCEPT !.blocked = FALSE]
    /\ UNCHANGED <<site, over, pending, event, shot, last, run, cycle, faults, used>>

-----------------------------------------------------------------------------
Init ==
    /\ site = [e \in Events |-> [status |-> "scheduled", started |-> FALSE]]
    /\ row = [count |-> 0, blocked |-> FALSE]
    /\ over = FALSE /\ pending = 0 /\ used = 0 /\ pause = FALSE
    /\ event = [e \in Events |-> [status |-> "none", stopped |-> FALSE]]
    /\ shot = [e \in Events |-> NoShot]
    /\ last = [e \in Events |-> 0]
    /\ run = [status |-> "none", snapshots |-> FALSE]
    /\ cycle = Idle
    /\ faults = 0

Listing    == OpenHub \/ Discover
Traversal  == OpenEvent \/ OpenTab \/ EventLate \/ EventStopped \/ Close
Publishing == Publish \/ PublishRejected
Ending     == Checkpoint \/ Finished

\* What the process of the collector does by itself.
Collector == Begin \/ Listing \/ Traversal \/ Publishing \/ Ending

Next ==
    \/ Collector
    \/ StopRequested \/ Refused \/ Interrupted \/ ReadingFails \/ Crash
    \/ Announced \/ Starts \/ WindowEnds \/ BlockEnds

Spec == Init /\ [][Next]_vars

\* The scheduler begins cycle after cycle, a cycle goes on, and dates come.
FairSpec ==
    /\ Spec
    /\ WF_vars(Collector)
    /\ WF_vars(WindowEnds)
    /\ WF_vars(BlockEnds)

-----------------------------------------------------------------------------
(* Properties.                                                              *)

\* A request leaves neither before the end of the pause a refused main document asks for,
\* whichever way the cycle it ended was recorded, nor, cycle after cycle, when those issued
\* in the window, the ones a killed process had not written apart, have spent the budget.
RequestsAreAllowed == [][used' > used => ~pause /\ (over \/ used < Budget)]_vars

\* A snapshot never mixes the readings of two phases, and holds every tab that any of
\* its captures showed enabled.
SnapshotsAreWhole ==
    \A e \in Events :
        /\ shot[e].phase = "live" => shot[e].statuses = {"live"}
        /\ shot[e].phase = "prematch" => shot[e].statuses = {"scheduled"}
        /\ shot[e].whole

\* Prematch odds are never published once the start of the event has come, however long
\* the traversal and the wait for the lock of the identities took.
PrematchIsBeforeStart == \A e \in Events : shot[e].phase = "prematch" => ~shot[e].late

\* A run is recorded failed only when none of its snapshots is in the database, a commit
\* whose answer was lost included.
FailedRunPublishedNothing == run.status = "failed" => ~run.snapshots

\* What the cycles publish is what an event showed, whole and in time, and no failed run
\* has published it, although events begin and answers are lost on the way.
PublicationIsSound ==
    TypeOK /\ SnapshotsAreWhole /\ PrematchIsBeforeStart /\ FailedRunPublishedNothing

\* Once the faults are over and the events stay scheduled, each of them is published
\* again and again, although the bound of actions ends every cycle before the last one.
Quiet == \A e \in Events : site[e] = [status |-> "scheduled", started |-> FALSE]

EveryEventIsServed ==
    \A e \in Events : <>[]Quiet => []<>(last[e] = Cardinality(Events))
=============================================================================
