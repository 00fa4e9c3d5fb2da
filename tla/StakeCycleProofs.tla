--------------------------- MODULE StakeCycleProofs ---------------------------
(***************************************************************************)
(* Theorems about StakeCycle, for every set of events and of tabs, every   *)
(* budget, every bound of actions and any number of faults: what the       *)
(* cycles publish is what an event showed, whole and in time, and no       *)
(* request leaves during a pause or once the budget of the window is spent. *)
(***************************************************************************)
EXTENDS StakeCycle, FiniteSetTheorems, TLAPS

Cycles == [phase : Phases, todo : SUBSET Events, actions : 0 .. MaxActions,
           event : Events \cup {0}, retried : BOOLEAN, statuses : SUBSET Statuses,
           tabs : SUBSET Tabs, enabled : SUBSET Tabs,
           closing : Statuses \cup {"none"}, failed : BOOLEAN]

\* What a traversal has established when it comes to the publication: the capture is of
\* one phase, the one of the closing reading, and no enabled tab is left.
Established(c) ==
    /\ c.phase \in {"traversal", "publication"} => c.event \in Events
    /\ c.phase = "publication" =>
          /\ c.closing \in {"scheduled", "live"} /\ c.statuses = {c.closing}
          /\ c.enabled \subseteq c.tabs

\* The run of a cycle under way has not been ended.
RunIsOpen == Running => run.status = "running"

\* The row dates the pause, and no cycle goes on during one.
PauseInRow == pause = row.blocked /\ (Running => ~row.blocked)

\* The window of the row, with what is in memory, counts all that was issued in it, and
\* leaves a cycle under way something to spend.
WindowInRow ==
    /\ ~Running => pending = 0
    /\ pending <= used /\ used <= row.count + pending
    /\ Running /\ ~over => row.count + pending < Budget

Accounting == PauseInRow /\ WindowInRow

StakeInv ==
    /\ TypeOK /\ SnapshotsAreWhole /\ PrematchIsBeforeStart /\ FailedRunPublishedNothing
    /\ Established(cycle) /\ RunIsOpen /\ Accounting

-----------------------------------------------------------------------------
(* The accounting.                                                          *)

Rows == [count : Nat, blocked : BOOLEAN]

Counters == /\ row \in Rows /\ over \in BOOLEAN /\ pause \in BOOLEAN
            /\ pending \in Nat /\ used \in Nat

\* The phase and the fields of the policy are all the accounting depends on.
LEMMA TypeParts ==
    ASSUME TypeOK
    PROVE  Counters /\ cycle \in Cycles
BY DEF TypeOK, Counters, Rows, Cycles

LEMMA FlushedIsNat ==
    ASSUME Counters
    PROVE  /\ Flushed \in Nat /\ Flushed >= pending
           /\ ~over => Flushed = row.count + pending
           /\ over => Flushed = pending
BY DEF Counters, Rows, Flushed

\* An action of the browser counts its requests, within the budget.
LEMMA ActsAccounts ==
    ASSUME TypeOK, Accounting, Running, UNCHANGED pause,
           NEW next \in Cycles, next.phase # "off", Acts(next)
    PROVE  /\ Counters' /\ Accounting' /\ Running'
           /\ cycle' \in Cycles
           /\ cycle' = [next EXCEPT !.actions = cycle.actions + 1]
           /\ ~row.blocked
           /\ over \/ used < Budget
<1>1. PICK n \in Bursts : Readable(n) /\ Flush(n)
  BY DEF Acts
<1>2. /\ cycle' = [next EXCEPT !.actions = cycle.actions + 1]
      /\ cycle.actions \in Nat /\ cycle.actions + 1 < MaxActions /\ MaxActions \in Nat
      /\ n \in Nat /\ Flushed + n < Budget /\ Budget \in Nat
  BY <1>1, TypeParts, StakeAssumption DEF Acts, Readable, Cycles
<1>3. cycle' \in Cycles /\ cycle'.phase = next.phase
  BY <1>2 DEF Cycles
<1>4. /\ row' = [row EXCEPT !.count = Flushed] /\ over' = FALSE /\ pending' = n
      /\ used' = (IF over THEN 0 ELSE used) + n
  BY <1>1 DEF Flush
<1>5. /\ Counters /\ Flushed \in Nat /\ Flushed >= pending
      /\ ~over => Flushed = row.count + pending
  BY TypeParts, FlushedIsNat
<1>6. row' \in Rows /\ row'.count = Flushed /\ row'.blocked = row.blocked
  BY <1>4, <1>5 DEF Counters, Rows
<1>7. pending' \in Nat /\ used' \in Nat /\ n <= used' /\ used' <= Flushed + n
  BY <1>2, <1>4, <1>5 DEF Counters, Accounting, WindowInRow, Rows
<1>8. over \/ used < Budget
  BY <1>2, <1>5 DEF Counters, Accounting, WindowInRow, Rows
<1>9. Running'
  BY <1>3 DEF Running
<1>10. PauseInRow'
  BY <1>6 DEF Accounting, PauseInRow
<1>11. WindowInRow'
  BY <1>2, <1>4, <1>6, <1>7, <1>9 DEF WindowInRow
<1>. QED
  BY <1>2, <1>3, <1>4, <1>5, <1>6, <1>7, <1>8, <1>9, <1>10, <1>11
  DEF Counters, Accounting, PauseInRow

\* The end of a cycle writes the row as the pause is, and leaves nothing in memory.
LEMMA EndsAsAccounts ==
    ASSUME TypeOK, Accounting, NEW snapshots \in BOOLEAN, NEW failure \in BOOLEAN,
           NEW blocked \in BOOLEAN, NEW n \in Nat, blocked = pause',
           EndsAs(snapshots, failure, blocked, n)
    PROVE  /\ Counters' /\ Accounting' /\ ~Running'
           /\ cycle' \in Cycles /\ Established(cycle')
           /\ run' \in [status : {"succeeded", "failed"}, snapshots : {snapshots}]
           /\ run'.status = "failed" => ~run'.snapshots
           /\ RunIsOpen'
<1>1. /\ row' = [count |-> Flushed + n, blocked |-> blocked] /\ over' = FALSE
      /\ pending' = 0 /\ used' = (IF over THEN 0 ELSE used) + n /\ cycle' = Idle
  BY DEF EndsAs
<1>2. /\ Counters /\ Flushed \in Nat /\ Flushed >= pending
      /\ ~over => Flushed = row.count + pending
  BY TypeParts, FlushedIsNat
<1>3. ~Running'
  BY <1>1 DEF Running, Idle
<1>4. cycle' \in Cycles
  BY <1>1, StakeAssumption DEF Idle, Cycles, Phases
<1>5. Established(cycle')
  BY <1>1 DEF Idle, Established
<1>6. row' \in Rows /\ row'.count = Flushed + n /\ row'.blocked = pause'
  BY <1>1, <1>2 DEF Rows
<1>7. used' \in Nat /\ used' <= Flushed + n
  BY <1>1, <1>2 DEF Counters, Accounting, WindowInRow, Rows
<1>p. pause' \in BOOLEAN
  BY Zenon
<1>c. Counters'
  BY <1>1, <1>6, <1>7, <1>p DEF Counters
<1>8. Counters' /\ Accounting'
  BY <1>1, <1>2, <1>3, <1>6, <1>7, <1>c DEF Accounting, PauseInRow, WindowInRow, Rows
<1>9. /\ run' \in [status : {"succeeded", "failed"}, snapshots : {snapshots}]
      /\ run'.status = "failed" => ~run'.snapshots
  BY DEF EndsAs, Succeeded
<1>. QED
  BY <1>1, <1>3, <1>4, <1>5, <1>8, <1>9 DEF RunIsOpen

\* A step that leaves the policy alone, in a cycle that goes on.
LEMMA CycleAccounts ==
    ASSUME Counters, Accounting, Running, Running', UNCHANGED <<row, over, pending, used, pause>>
    PROVE  Counters' /\ Accounting'
BY DEF Counters, Accounting, PauseInRow, WindowInRow, Running

-----------------------------------------------------------------------------
(* The cycles.                                                              *)

\* The cycles that go on after an event are cycles between two events.
LEMMA LeftOutIsCycle ==
    ASSUME TypeOK, NEW e \in Events
    PROVE  /\ LeftOut(e) \in Cycles /\ LeftOut(e).phase = "events"
           /\ FailedOn(e) \in Cycles /\ FailedOn(e).phase = "events"
<1>1. cycle \in Cycles
  BY TypeParts
<1>. QED
  BY <1>1, StakeAssumption DEF Cycles, LeftOut, FailedOn, Idle, Phases

LEMMA CapturedIsCycle ==
    ASSUME TypeOK, NEW e \in Events, NEW t \in Tabs, NEW enabled \in SUBSET Tabs
    PROVE  /\ Captured(e, t, enabled) \in Cycles
           /\ Captured(e, t, enabled).phase = "traversal"
           /\ Captured(e, t, enabled).event = e
<1>1. cycle \in Cycles
  BY TypeParts
<1>2. site[e].status \in Statuses
  BY DEF TypeOK
<1>. QED
  BY <1>1, <1>2, StakeAssumption DEF Cycles, Captured, Phases

\* What a cycle does between its publications: the snapshots and the run stay.
LEMMA ShotsStay ==
    ASSUME SnapshotsAreWhole, PrematchIsBeforeStart, FailedRunPublishedNothing,
           UNCHANGED <<shot, run>>
    PROVE  SnapshotsAreWhole' /\ PrematchIsBeforeStart' /\ FailedRunPublishedNothing'
BY DEF SnapshotsAreWhole, PrematchIsBeforeStart, FailedRunPublishedNothing

\* What remains of TypeOK beside the policy and the cycle.
Records ==
    /\ site \in [Events -> [status : Statuses, started : BOOLEAN]]
    /\ event \in [Events -> [status : Statuses \cup {"none"}, stopped : BOOLEAN]]
    /\ shot \in [Events -> [phase : {"none", "live", "prematch"}, statuses : SUBSET Statuses,
                            whole : BOOLEAN, late : BOOLEAN]]
    /\ last \in [Events -> 0 .. Cardinality(Events)]
    /\ run \in [status : {"none", "running", "succeeded", "failed"}, snapshots : BOOLEAN]
    /\ faults \in 0 .. MaxFaults

LEMMA TypeIsParts == TypeOK <=> Records /\ Counters /\ cycle \in Cycles
BY DEF TypeOK, Records, Counters, Cycles, Rows

LEMMA NextTypeIsParts == Records' /\ Counters' /\ (cycle \in Cycles)' => TypeOK'
BY DEF TypeOK, Records, Counters, Cycles, Rows

LEMMA FaultIsCounted ==
    ASSUME faults \in 0 .. MaxFaults, Fault
    PROVE  faults' \in 0 .. MaxFaults
BY StakeAssumption DEF Fault

LEMMA StakeInvInit == Init => StakeInv
<1>. SUFFICES ASSUME Init PROVE StakeInv
  OBVIOUS
<1>1. Cardinality(Events) \in Nat
  BY StakeAssumption, FS_CardinalityType
<1>2. Idle \in Cycles /\ Idle.phase = "off"
  BY StakeAssumption DEF Idle, Cycles, Phases
<1>3. Records
  BY <1>1, StakeAssumption DEF Init, Records, Statuses, NoShot
<1>6. Counters /\ cycle \in Cycles
  BY <1>2 DEF Init, Counters, Rows
<1>4. SnapshotsAreWhole /\ PrematchIsBeforeStart /\ FailedRunPublishedNothing
  BY DEF Init, SnapshotsAreWhole, PrematchIsBeforeStart, FailedRunPublishedNothing, NoShot
<1>5. ~Running /\ Established(cycle) /\ RunIsOpen
  BY <1>2 DEF Init, Established, RunIsOpen, Running
<1>7. PauseInRow
  BY <1>5 DEF Init, PauseInRow
<1>8. WindowInRow
  BY <1>5 DEF Init, WindowInRow
<1>. QED
  BY <1>3, <1>4, <1>5, <1>7, <1>8, <1>6, TypeIsParts DEF StakeInv, Accounting

-----------------------------------------------------------------------------
(* The steps.                                                               *)

\* A step between two publications: what it must show of the cycle and of the policy.
LEMMA Between ==
    ASSUME StakeInv, UNCHANGED <<shot, last, run>>, Counters', Accounting',
           site' \in [Events -> [status : Statuses, started : BOOLEAN]],
           event' \in [Events -> [status : Statuses \cup {"none"}, stopped : BOOLEAN]],
           faults' \in 0 .. MaxFaults,
           cycle' \in Cycles, Established(cycle'), Running' => Running
    PROVE  StakeInv'
<1>1. Records'
  BY TypeIsParts DEF StakeInv, Records
<1>2. RunIsOpen'
  BY DEF StakeInv, RunIsOpen
<1>. QED
  BY <1>1, <1>2, NextTypeIsParts, ShotsStay DEF StakeInv

\* A step that ends the cycle and publishes nothing.
LEMMA Ends ==
    ASSUME StakeInv, Running, UNCHANGED <<site, event, shot, last>>, faults' \in 0 .. MaxFaults,
           NEW failure \in BOOLEAN, NEW n \in Nat, pause' \in BOOLEAN,
           EndsAs(run.snapshots, failure, pause', n)
    PROVE  StakeInv'
<1>1. run.snapshots \in BOOLEAN /\ TypeOK /\ Accounting /\ Records
  BY TypeIsParts DEF StakeInv, Records
<1>2. /\ Counters' /\ Accounting' /\ cycle' \in Cycles /\ Established(cycle') /\ RunIsOpen'
      /\ run' \in [status : {"succeeded", "failed"}, snapshots : {run.snapshots}]
      /\ run'.status = "failed" => ~run'.snapshots
  BY <1>1, EndsAsAccounts
<1>3. Records'
  BY <1>1, <1>2 DEF Records
<1>4. SnapshotsAreWhole' /\ PrematchIsBeforeStart' /\ FailedRunPublishedNothing'
  BY <1>2 DEF StakeInv, SnapshotsAreWhole, PrematchIsBeforeStart, FailedRunPublishedNothing
<1>. QED
  BY <1>2, <1>3, <1>4, NextTypeIsParts DEF StakeInv

\* A step of the browser between two publications.
LEMMA ActsKeeps ==
    ASSUME StakeInv, Running, UNCHANGED <<site, shot, last, run, faults, pause>>,
           event' \in [Events -> [status : Statuses \cup {"none"}, stopped : BOOLEAN]],
           NEW next \in Cycles, next.phase \notin {"off", "publication"},
           next.phase = "traversal" => next.event \in Events,
           Acts(next)
    PROVE  StakeInv'
<1>1. TypeOK /\ Accounting
  BY DEF StakeInv
<1>2. /\ Counters' /\ Accounting' /\ Running' /\ cycle' \in Cycles
      /\ cycle' = [next EXCEPT !.actions = cycle.actions + 1]
  BY <1>1, ActsAccounts
<1>3. cycle'.phase = next.phase /\ cycle'.event = next.event
  BY <1>2 DEF Cycles
<1>4. Established(cycle')
  BY <1>3 DEF Established
<1>5. /\ site' \in [Events -> [status : Statuses, started : BOOLEAN]]
      /\ faults' \in 0 .. MaxFaults
  BY <1>1 DEF TypeOK
<1>. QED
  BY <1>2, <1>4, <1>5, Between

\* A step inside the cycle that issues no request.
LEMMA QuietKeeps ==
    ASSUME StakeInv, Running, Running',
           UNCHANGED <<site, row, over, pending, shot, last, run, used, pause>>,
           event' \in [Events -> [status : Statuses \cup {"none"}, stopped : BOOLEAN]],
           faults' \in 0 .. MaxFaults, cycle' \in Cycles, Established(cycle')
    PROVE  StakeInv'
<1>1. TypeOK /\ Accounting /\ Counters
  BY TypeIsParts DEF StakeInv
<1>2. Counters' /\ Accounting'
  BY <1>1, CycleAccounts
<1>3. site' \in [Events -> [status : Statuses, started : BOOLEAN]]
  BY <1>1 DEF TypeOK
<1>. QED
  BY <1>2, <1>3, Between

LEMMA CheckpointKeeps == StakeInv /\ Checkpoint => StakeInv'
<1>. SUFFICES ASSUME StakeInv, Checkpoint PROVE StakeInv'
  OBVIOUS
<1>1. PICK n \in Bursts : EndsAs(run.snapshots, Flushed + n >= Budget, row.blocked, n)
  BY DEF Checkpoint
<1> DEFINE failure == Flushed + n >= Budget
<1>2. /\ Running /\ UNCHANGED <<site, event, shot, last, faults, pause>>
      /\ n \in Nat /\ faults' \in 0 .. MaxFaults
  BY StakeAssumption DEF Checkpoint, Navigating, Running, StakeInv, TypeOK
<1>3. pause \in BOOLEAN /\ row.blocked = pause'
  BY <1>2 DEF StakeInv, TypeOK, Accounting, PauseInRow
<1>4. failure \in BOOLEAN /\ EndsAs(run.snapshots, failure, pause', n)
  BY <1>1, <1>3
<1> HIDE DEF failure
<1>. QED
  BY <1>2, <1>3, <1>4, Ends

LEMMA StopRequestedKeeps == StakeInv /\ StopRequested => StakeInv'
<1>. SUFFICES ASSUME StakeInv, StopRequested PROVE StakeInv'
  OBVIOUS
<1>1. /\ EndsAs(run.snapshots, FALSE, row.blocked, 0)
      /\ Running /\ UNCHANGED <<site, event, shot, last, pause>> /\ faults' \in 0 .. MaxFaults
  BY FaultIsCounted DEF StopRequested, Navigating, Running, StakeInv, TypeOK
<1>2. pause \in BOOLEAN /\ row.blocked = pause'
  BY <1>1 DEF StakeInv, TypeOK, Accounting, PauseInRow
<1>. QED
  BY <1>1, <1>2, Ends

LEMMA InterruptedKeeps == StakeInv /\ Interrupted => StakeInv'
<1>. SUFFICES ASSUME StakeInv, Interrupted PROVE StakeInv'
  OBVIOUS
<1>1. /\ EndsAs(run.snapshots, TRUE, row.blocked, 0)
      /\ Running /\ UNCHANGED <<site, event, shot, last, pause>> /\ faults' \in 0 .. MaxFaults
  BY FaultIsCounted DEF Interrupted, StakeInv, TypeOK
<1>2. pause \in BOOLEAN /\ row.blocked = pause'
  BY <1>1 DEF StakeInv, TypeOK, Accounting, PauseInRow
<1>. QED
  BY <1>1, <1>2, Ends

LEMMA FinishedKeeps == StakeInv /\ Finished => StakeInv'
<1>. SUFFICES ASSUME StakeInv, Finished PROVE StakeInv'
  OBVIOUS
<1>1. /\ EndsAs(run.snapshots, FALSE, row.blocked, 0)
      /\ Running /\ UNCHANGED <<site, event, shot, last, faults, pause>>
      /\ faults' \in 0 .. MaxFaults
  BY DEF Finished, Running, StakeInv, TypeOK
<1>2. pause \in BOOLEAN /\ row.blocked = pause'
  BY <1>1 DEF StakeInv, TypeOK, Accounting, PauseInRow
<1>. QED
  BY <1>1, <1>2, Ends

\* The block of a refusal is the pause it asks for.
LEMMA RefusedKeeps == StakeInv /\ Refused => StakeInv'
<1>. SUFFICES ASSUME StakeInv, Refused PROVE StakeInv'
  OBVIOUS
<1>1. PICK pausing \in BOOLEAN :
          EndsAs(run.snapshots, TRUE, BlockedBy(pausing), 0) /\ pause' = pausing
  BY DEF Refused
<1>2. Running /\ UNCHANGED <<site, event, shot, last>> /\ faults' \in 0 .. MaxFaults
  BY FaultIsCounted DEF Refused, Navigating, Running, StakeInv, TypeOK
<1>3. pause' \in BOOLEAN /\ EndsAs(run.snapshots, TRUE, pause', 0)
  BY <1>1, Zenon DEF BlockedBy
<1>. QED
  BY <1>2, <1>3, Ends

\* A killed process takes with it what it had not flushed.
LEMMA CrashKeeps == StakeInv /\ Crash => StakeInv'
<1>. SUFFICES ASSUME StakeInv, Crash PROVE StakeInv'
  OBVIOUS
<1>1. /\ cycle' = Idle /\ pending' = 0 /\ used' = used - pending /\ faults' \in 0 .. MaxFaults
      /\ UNCHANGED <<site, row, over, event, shot, last, run, pause>> /\ Running
  BY FaultIsCounted DEF Crash, StakeInv, TypeOK
<1>2. Counters /\ Accounting /\ Records
  BY TypeIsParts DEF StakeInv
<1>3. cycle' \in Cycles /\ ~Running' /\ Established(cycle')
  BY <1>1, StakeAssumption DEF Idle, Cycles, Phases, Running, Established
<1>4. Counters'
  BY <1>1, <1>2 DEF Counters, Accounting, WindowInRow
<1>5. Accounting'
  BY <1>1, <1>2, <1>3, <1>4 DEF Counters, Rows, Accounting, PauseInRow, WindowInRow
<1>. QED
  BY <1>1, <1>2, <1>3, <1>4, <1>5, Between DEF Records

\* A cycle begins only when the row refuses nothing.
LEMMA BeginKeeps == StakeInv /\ Begin => StakeInv'
<1>. SUFFICES ASSUME StakeInv, Begin PROVE StakeInv'
  OBVIOUS
<1>1. /\ ~Running /\ row' = [row EXCEPT !.count = Flushed] /\ over' = FALSE
      /\ used' = (IF over THEN 0 ELSE used)
      /\ UNCHANGED <<site, pending, event, shot, last, faults, pause>>
  BY DEF Begin
<1>2. /\ Counters /\ Accounting /\ Records /\ cycle \in Cycles /\ Established(cycle)
      /\ Flushed \in Nat /\ Flushed >= pending
      /\ ~over => Flushed = row.count + pending
  BY TypeIsParts, FlushedIsNat DEF StakeInv
<1>3. row' \in Rows /\ row'.count = Flushed /\ row'.blocked = row.blocked
  BY <1>1, <1>2 DEF Counters, Rows
<1>4. Counters'
  BY <1>1, <1>2, <1>3 DEF Counters
<1>5. pending' = 0 /\ used' <= row'.count
  BY <1>1, <1>2, <1>3 DEF Accounting, WindowInRow, Counters, Rows
<1>6. CASE Refuses(Flushed)
  <2>1. UNCHANGED <<run, cycle>> /\ ~Running'
    BY <1>1, <1>6 DEF Begin, Running
  <2>2. Accounting'
    BY <1>1, <1>2, <1>3, <1>4, <1>5, <2>1
    DEF Accounting, PauseInRow, WindowInRow, Counters
  <2>. QED
    BY <1>1, <1>2, <1>4, <2>1, <2>2, Between DEF Records
<1>7. CASE ~Refuses(Flushed)
  <2>1. /\ run' = [status |-> "running", snapshots |-> FALSE]
        /\ cycle' = [Idle EXCEPT !.phase = "hub"]
    BY <1>7 DEF Begin
  <2>9. Idle \in Cycles
    BY StakeAssumption DEF Idle, Cycles, Phases
  <2>2. cycle' \in Cycles /\ Established(cycle')
    BY <2>1, <2>9 DEF Cycles, Phases, Established
  <2>8. ~row.blocked /\ ~(Flushed >= Budget)
    BY <1>2, <1>7 DEF Refuses, Counters, Rows
  <2>3. ~row.blocked /\ Flushed < Budget /\ Budget \in Nat
    BY <1>2, <2>8, StakeAssumption
  <2>4. PauseInRow'
    BY <1>1, <1>2, <1>3, <2>3 DEF Accounting, PauseInRow
  <2>5. WindowInRow'
    BY <1>1, <1>2, <1>3, <1>4, <1>5, <2>3 DEF Accounting, WindowInRow, Counters
  <2>6. Records' /\ RunIsOpen'
    BY <1>1, <1>2, <2>1 DEF Records, RunIsOpen
  <2>7. SnapshotsAreWhole' /\ PrematchIsBeforeStart' /\ FailedRunPublishedNothing'
    BY <1>1, <2>1
    DEF StakeInv, SnapshotsAreWhole, PrematchIsBeforeStart, FailedRunPublishedNothing
  <2>. QED
    BY <1>4, <2>2, <2>4, <2>5, <2>6, <2>7, NextTypeIsParts DEF StakeInv, Accounting
<1>. QED
  BY <1>6, <1>7

LEMMA OpenHubKeeps == StakeInv /\ OpenHub => StakeInv'
<1>. SUFFICES ASSUME StakeInv, OpenHub PROVE StakeInv'
  OBVIOUS
<1>1. /\ Running /\ Acts([cycle EXCEPT !.phase = "listing"])
      /\ UNCHANGED <<site, event, shot, last, run, faults, pause>>
  BY DEF OpenHub, Running
<1>2. [cycle EXCEPT !.phase = "listing"] \in Cycles
  BY TypeParts DEF StakeInv, Cycles, Phases
<1>3. [cycle EXCEPT !.phase = "listing"].phase = "listing"
  BY TypeParts DEF StakeInv, Cycles
<1>4. event' \in [Events -> [status : Statuses \cup {"none"}, stopped : BOOLEAN]]
  BY <1>1 DEF StakeInv, TypeOK
<1>. QED
  BY <1>1, <1>2, <1>3, <1>4, ActsKeeps

\* A page of the listing, the last one included.
LEMMA DiscoverKeeps == StakeInv /\ Discover => StakeInv'
<1>. SUFFICES ASSUME StakeInv, Discover PROVE StakeInv'
  OBVIOUS
<1>1. PICK found \in SUBSET (Listed \ cycle.todo) :
          LET todo == cycle.todo \cup found
          IN  /\ event' = Upserted(found)
              /\ Acts(IF Listed \subseteq todo
                      THEN [cycle EXCEPT !.phase = "events",
                                         !.todo = {e \in todo : ~event[e].stopped}]
                      ELSE [cycle EXCEPT !.todo = todo])
  BY DEF Discover
<1> DEFINE todo == cycle.todo \cup found
           next == IF Listed \subseteq todo
                   THEN [cycle EXCEPT !.phase = "events",
                                      !.todo = {e \in todo : ~event[e].stopped}]
                   ELSE [cycle EXCEPT !.todo = todo]
<1>2. cycle \in Cycles /\ cycle.phase = "listing"
      /\ site \in [Events -> [status : Statuses, started : BOOLEAN]]
      /\ event \in [Events -> [status : Statuses \cup {"none"}, stopped : BOOLEAN]]
  BY TypeParts DEF StakeInv, TypeOK, Discover
<1>3. Running /\ UNCHANGED <<site, shot, last, run, faults, pause>>
  BY DEF Discover, Running
<1>4. todo \in SUBSET Events
  BY <1>2 DEF Cycles, Listed
<1>5. next \in Cycles /\ next.phase \in {"events", "listing"}
  BY <1>2, <1>4 DEF Cycles, Phases
<1>6. event' \in [Events -> [status : Statuses \cup {"none"}, stopped : BOOLEAN]]
  BY <1>1, <1>2 DEF Upserted
<1>7. Acts(next)
  BY <1>1
<1> HIDE DEF next
<1>. QED
  BY <1>3, <1>5, <1>6, <1>7, ActsKeeps

\* The event of an opening is one of the source.
LEMMA OpenEventKeeps == StakeInv /\ OpenEvent => StakeInv'
<1>. SUFFICES ASSUME StakeInv, OpenEvent PROVE StakeInv'
  OBVIOUS
<1>1. PICK e \in Events, t \in Tabs, enabled \in SUBSET Tabs :
          Turn(e) /\ Acts(Captured(e, t, enabled))
  BY DEF OpenEvent
<1>2. TypeOK /\ Running /\ UNCHANGED <<site, event, shot, last, run, faults, pause>>
  BY <1>1 DEF OpenEvent, Turn, Running, StakeInv
<1>3. /\ Captured(e, t, enabled) \in Cycles /\ Captured(e, t, enabled).phase = "traversal"
      /\ Captured(e, t, enabled).event = e
  BY <1>2, CapturedIsCycle
<1>4. event' \in [Events -> [status : Statuses \cup {"none"}, stopped : BOOLEAN]]
  BY <1>2 DEF TypeOK
<1>. QED
  BY <1>1, <1>2, <1>3, <1>4, ActsKeeps

LEMMA OpenTabKeeps == StakeInv /\ OpenTab => StakeInv'
<1>. SUFFICES ASSUME StakeInv, OpenTab PROVE StakeInv'
  OBVIOUS
<1> DEFINE e == cycle.event
<1>1. /\ e \in Events /\ TypeOK /\ Running /\ cycle \in Cycles
      /\ UNCHANGED <<site, event, shot, last, run, faults, pause>>
  BY TypeParts DEF OpenTab, StakeInv, Established, Running
<1>2. PICK t \in cycle.enabled \ cycle.tabs, enabled \in SUBSET Tabs :
          Acts(Captured(e, t, enabled))
  BY DEF OpenTab
<1>3. t \in Tabs
  BY <1>1, <1>2 DEF Cycles
<1>4. /\ Captured(e, t, enabled) \in Cycles /\ Captured(e, t, enabled).phase = "traversal"
      /\ Captured(e, t, enabled).event = e
  BY <1>1, <1>3, CapturedIsCycle
<1>5. event' \in [Events -> [status : Statuses \cup {"none"}, stopped : BOOLEAN]]
  BY <1>1 DEF TypeOK
<1>. QED
  BY <1>1, <1>2, <1>4, <1>5, ActsKeeps

LEMMA EventLateKeeps == StakeInv /\ EventLate => StakeInv'
<1>. SUFFICES ASSUME StakeInv, EventLate PROVE StakeInv'
  OBVIOUS
<1>1. PICK e \in Events :
          /\ Turn(e) \/ cycle.phase = "traversal"
          /\ Acts(FailedOn(e))
  BY DEF EventLate
<1>2. TypeOK /\ Running /\ UNCHANGED <<site, event, shot, last, run, faults, pause>>
  BY <1>1 DEF EventLate, Turn, Running, StakeInv
<1>3. FailedOn(e) \in Cycles /\ FailedOn(e).phase = "events"
  BY <1>2, LeftOutIsCycle
<1>4. event' \in [Events -> [status : Statuses \cup {"none"}, stopped : BOOLEAN]]
  BY <1>2 DEF TypeOK
<1>. QED
  BY <1>1, <1>2, <1>3, <1>4, ActsKeeps

LEMMA ReadingFailsKeeps == StakeInv /\ ReadingFails => StakeInv'
<1>. SUFFICES ASSUME StakeInv, ReadingFails PROVE StakeInv'
  OBVIOUS
<1>1. /\ cycle.event \in Events /\ TypeOK /\ Running
      /\ cycle' = FailedOn(cycle.event) /\ faults' \in 0 .. MaxFaults
      /\ UNCHANGED <<site, row, over, pending, event, shot, last, run, used, pause>>
  BY FaultIsCounted DEF ReadingFails, StakeInv, TypeOK, Established, Running
<1>2. cycle' \in Cycles /\ cycle'.phase = "events"
  BY <1>1, LeftOutIsCycle
<1>3. Running' /\ Established(cycle')
  BY <1>2 DEF Running, Established
<1>4. event' \in [Events -> [status : Statuses \cup {"none"}, stopped : BOOLEAN]]
  BY <1>1 DEF TypeOK
<1>. QED
  BY <1>1, <1>2, <1>3, <1>4, QuietKeeps

LEMMA PublishRejectedKeeps == StakeInv /\ PublishRejected => StakeInv'
<1>. SUFFICES ASSUME StakeInv, PublishRejected PROVE StakeInv'
  OBVIOUS
<1>1. /\ cycle.event \in Events /\ TypeOK /\ Running
      /\ cycle' = FailedOn(cycle.event) /\ faults' \in 0 .. MaxFaults
      /\ UNCHANGED <<site, row, over, pending, event, shot, last, run, used, pause>>
  BY DEF PublishRejected, StakeInv, TypeOK, Established, Running
<1>2. cycle' \in Cycles /\ cycle'.phase = "events"
  BY <1>1, LeftOutIsCycle
<1>3. Running' /\ Established(cycle')
  BY <1>2 DEF Running, Established
<1>4. event' \in [Events -> [status : Statuses \cup {"none"}, stopped : BOOLEAN]]
  BY <1>1 DEF TypeOK
<1>. QED
  BY <1>1, <1>2, <1>3, <1>4, QuietKeeps

LEMMA EventStoppedKeeps == StakeInv /\ EventStopped => StakeInv'
<1>. SUFFICES ASSUME StakeInv, EventStopped PROVE StakeInv'
  OBVIOUS
<1>1. PICK e \in Events :
          /\ \/ /\ cycle.phase = "traversal" /\ cycle' = LeftOut(e)
                /\ UNCHANGED <<row, over, pending, used>>
             \/ Turn(e) /\ Acts(LeftOut(e))
          /\ event' = [event EXCEPT ![e] = [status |-> "closed", stopped |-> TRUE]]
  BY DEF EventStopped
<1>2. TypeOK /\ Running /\ UNCHANGED <<site, shot, last, run, faults, pause>>
  BY <1>1 DEF EventStopped, Turn, Running, StakeInv
<1>3. LeftOut(e) \in Cycles /\ LeftOut(e).phase = "events"
  BY <1>2, LeftOutIsCycle
<1>4. /\ event' \in [Events -> [status : Statuses \cup {"none"}, stopped : BOOLEAN]]
      /\ faults' \in 0 .. MaxFaults
  BY <1>1, <1>2 DEF TypeOK, Statuses
<1>5. CASE cycle' = LeftOut(e) /\ UNCHANGED <<row, over, pending, used>>
  <2>1. cycle' \in Cycles /\ Running' /\ Established(cycle')
    BY <1>3, <1>5 DEF Running, Established
  <2>. QED
    BY <1>2, <1>4, <1>5, <2>1, QuietKeeps
<1>6. CASE Acts(LeftOut(e))
  BY <1>2, <1>3, <1>4, <1>6, ActsKeeps
<1>. QED
  BY <1>1, <1>5, <1>6

\* The closing reading lets through only a capture of its own phase, that is whole.
LEMMA CloseKeeps == StakeInv /\ Close => StakeInv'
<1>. SUFFICES ASSUME StakeInv, Close PROVE StakeInv'
  OBVIOUS
<1> DEFINE e == cycle.event
           closing == site[e].status
<1>1. /\ cycle.phase = "traversal" /\ cycle.enabled \subseteq cycle.tabs
      /\ closing # "closed"
      /\ UNCHANGED <<site, row, over, pending, shot, last, run, faults, used, pause>>
  BY DEF Close
<1>2. e \in Events /\ TypeOK /\ Running /\ cycle \in Cycles
  BY <1>1, TypeParts DEF StakeInv, Established, Running
<1>3. closing \in Statuses
  BY <1>2 DEF TypeOK
<1>4. LeftOut(e) \in Cycles /\ LeftOut(e).phase = "events"
      /\ FailedOn(e) \in Cycles /\ FailedOn(e).phase = "events"
  BY <1>2, LeftOutIsCycle
<1>5. event' = IF Mixed(closing) THEN [event EXCEPT ![e].status = closing] ELSE event
  BY DEF Close
<1>6. /\ event' \in [Events -> [status : Statuses \cup {"none"}, stopped : BOOLEAN]]
      /\ faults' \in 0 .. MaxFaults
  BY <1>1, <1>2, <1>3, <1>5 DEF TypeOK
<1>7. CASE cycle' = FailedOn(e)
  BY <1>1, <1>2, <1>4, <1>6, <1>7, QuietKeeps DEF Running, Established
<1>8. CASE cycle' = [LeftOut(e) EXCEPT !.todo = cycle.todo, !.event = e, !.retried = TRUE]
  <2>1. cycle' \in Cycles /\ cycle'.phase = "events"
    BY <1>2, <1>4, <1>8 DEF Cycles
  <2>. QED
    BY <1>1, <1>2, <1>6, <2>1, QuietKeeps DEF Running, Established
<1>9. CASE /\ ~Mixed(closing)
           /\ cycle' = [cycle EXCEPT !.phase = "publication", !.closing = closing]
  <2>1. /\ cycle' \in Cycles /\ cycle'.phase = "publication" /\ cycle'.event = e
        /\ cycle'.closing = closing /\ cycle'.statuses = cycle.statuses
        /\ cycle'.enabled = cycle.enabled /\ cycle'.tabs = cycle.tabs
    BY <1>2, <1>3, <1>9 DEF Cycles, Phases
  <2>2. cycle.statuses = {closing} /\ closing \in {"scheduled", "live"}
    BY <1>1, <1>3, <1>9 DEF Mixed, Statuses
  <2>3. Running' /\ Established(cycle')
    BY <1>1, <1>2, <2>1, <2>2 DEF Running, Established
  <2>. QED
    BY <1>1, <1>2, <1>6, <2>1, <2>3, QuietKeeps
<1>. QED
  BY <1>7, <1>8, <1>9 DEF Close

\* What a publication leaves of the snapshots.
LEMMA PublishedShots ==
    ASSUME StakeInv, Publish
    PROVE  /\ SnapshotsAreWhole' /\ PrematchIsBeforeStart'
           /\ shot' \in [Events -> [phase : {"none", "live", "prematch"},
                                    statuses : SUBSET Statuses, whole : BOOLEAN,
                                    late : BOOLEAN]]
<1> DEFINE e == cycle.event
<1>1. /\ e \in Events /\ cycle \in Cycles /\ TypeOK
      /\ cycle.closing \in {"scheduled", "live"} /\ cycle.statuses = {cycle.closing}
      /\ cycle.enabled \subseteq cycle.tabs
  BY TypeParts DEF Publish, StakeInv, Established
<1>2. Eligible(e, cycle.closing) /\ shot' = [shot EXCEPT ![e] = Snapshot(e)]
  BY DEF Publish, Commits
<1>3. /\ Snapshot(e).phase = (IF cycle.closing = "live" THEN "live" ELSE "prematch")
      /\ Snapshot(e).statuses = {cycle.closing}
      /\ Snapshot(e).whole = TRUE /\ Snapshot(e).late = site[e].started
  BY <1>1 DEF Snapshot
<1>4. /\ Snapshot(e).phase = "live" => Snapshot(e).statuses = {"live"}
      /\ Snapshot(e).phase = "prematch" => Snapshot(e).statuses = {"scheduled"}
      /\ Snapshot(e).whole
  BY <1>1, <1>3
<1>5. Snapshot(e).phase = "prematch" => ~Snapshot(e).late
  BY <1>2, <1>3 DEF Eligible
<1>6. Snapshot(e) \in [phase : {"none", "live", "prematch"}, statuses : SUBSET Statuses,
                       whole : BOOLEAN, late : BOOLEAN]
  BY <1>1 DEF Snapshot, TypeOK, Cycles
<1>7. \A f \in Events : shot'[f] = IF f = e THEN Snapshot(e) ELSE shot[f]
  BY <1>1, <1>2 DEF TypeOK
<1>8. SnapshotsAreWhole'
  BY <1>4, <1>7 DEF SnapshotsAreWhole, StakeInv
<1>9. PrematchIsBeforeStart'
  BY <1>5, <1>7 DEF PrematchIsBeforeStart, StakeInv
<1>. QED
  BY <1>1, <1>2, <1>6, <1>8, <1>9 DEF TypeOK

\* The commit of a publication, and the end of the run when its answer is lost.
LEMMA PublishKeeps == StakeInv /\ Publish => StakeInv'
<1>. SUFFICES ASSUME StakeInv, Publish PROVE StakeInv'
  OBVIOUS
<1> DEFINE e == cycle.event
<1>1. /\ e \in Events /\ cycle \in Cycles /\ TypeOK /\ Counters /\ Accounting /\ Records
      /\ Running /\ run.status = "running" /\ cycle.closing \in Statuses
      /\ UNCHANGED <<site, pause>>
  BY TypeIsParts DEF Publish, StakeInv, Established, Running, RunIsOpen, Statuses
<1>2. event' \in [Events -> [status : Statuses \cup {"none"}, stopped : BOOLEAN]]
  BY <1>1 DEF Publish, Records
<1>3. last' \in [Events -> 0 .. Cardinality(Events)]
  <2>1. Cardinality(Events) \in Nat
    BY StakeAssumption, FS_CardinalityType
  <2>2. \A f \in Events : last[f] \in 0 .. Cardinality(Events)
    BY <1>1 DEF Records
  <2>. QED
    BY <1>1, <2>1, <2>2 DEF Publish, MovedLast
<1>4. /\ SnapshotsAreWhole' /\ PrematchIsBeforeStart'
      /\ shot' \in [Events -> [phase : {"none", "live", "prematch"}, statuses : SUBSET Statuses,
                               whole : BOOLEAN, late : BOOLEAN]]
  BY PublishedShots
<1>5. CASE /\ run' = [run EXCEPT !.snapshots = TRUE] /\ cycle' = LeftOut(e)
           /\ UNCHANGED <<row, over, pending, used, faults>>
  <2>1. cycle' \in Cycles /\ cycle'.phase = "events"
    BY <1>1, <1>5, LeftOutIsCycle
  <2>2. Running' /\ Established(cycle')
    BY <2>1 DEF Running, Established
  <2>3. /\ run' \in [status : {"none", "running", "succeeded", "failed"}, snapshots : BOOLEAN]
        /\ run'.status = "running"
    BY <1>1, <1>5 DEF Records
  <2>4. Records'
    BY <1>1, <1>2, <1>3, <1>4, <1>5, <2>3 DEF Records
  <2>5. Counters' /\ Accounting'
    BY <1>1, <1>5, <2>2, CycleAccounts
  <2>6. FailedRunPublishedNothing' /\ RunIsOpen'
    BY <2>3 DEF FailedRunPublishedNothing, RunIsOpen
  <2>. QED
    BY <1>4, <2>1, <2>2, <2>4, <2>5, <2>6, NextTypeIsParts DEF StakeInv
<1>6. CASE Fault /\ EndsAs(TRUE, TRUE, row.blocked, 0)
  <2>1. row.blocked = pause' /\ pause \in BOOLEAN /\ row.blocked \in BOOLEAN
    BY <1>1 DEF Accounting, PauseInRow, Counters, Rows
  <2>2. /\ Counters' /\ Accounting' /\ cycle' \in Cycles /\ Established(cycle')
        /\ run' \in [status : {"succeeded", "failed"}, snapshots : {TRUE}]
        /\ run'.status = "failed" => ~run'.snapshots
        /\ RunIsOpen'
    BY <1>1, <1>6, <2>1, EndsAsAccounts
  <2>3. faults' \in 0 .. MaxFaults
    BY <1>1, <1>6, FaultIsCounted DEF Records
  <2>4. Records'
    BY <1>1, <1>2, <1>3, <1>4, <2>2, <2>3 DEF Records
  <2>5. FailedRunPublishedNothing'
    BY <2>2 DEF FailedRunPublishedNothing
  <2>. QED
    BY <1>4, <2>2, <2>4, <2>5, NextTypeIsParts DEF StakeInv
<1>. QED
  BY <1>5, <1>6 DEF Publish

\* The source and the clock.
LEMMA WorldKeeps ==
    StakeInv /\ (Announced \/ Starts \/ WindowEnds \/ BlockEnds) => StakeInv'
<1>. SUFFICES ASSUME StakeInv, Announced \/ Starts \/ WindowEnds \/ BlockEnds PROVE StakeInv'
  OBVIOUS
<1>1. /\ TypeOK /\ Counters /\ Accounting /\ Records /\ cycle \in Cycles /\ Established(cycle)
      /\ UNCHANGED <<pending, event, shot, last, run, cycle, used>>
  BY TypeIsParts DEF StakeInv, Announced, Starts, WindowEnds, BlockEnds
<1>2. Running' <=> Running
  BY <1>1 DEF Running
<1>3. CASE Announced \/ Starts
  <2>1. faults' \in 0 .. MaxFaults
    BY <1>1, <1>3, FaultIsCounted DEF Announced, Starts, Records
  <2>2. site' \in [Events -> [status : Statuses, started : BOOLEAN]]
    <3>1. site \in [Events -> [status : Statuses, started : BOOLEAN]]
      BY <1>1 DEF Records
    <3>2. CASE Announced
      <4>1. PICK e \in Events, status \in {"live", "closed"} :
                site' = [site EXCEPT ![e].status = status]
        BY <3>2 DEF Announced
      <4>2. status \in Statuses
        BY DEF Statuses
      <4>. QED
        BY <3>1, <4>1, <4>2
    <3>3. CASE Starts
      <4>1. PICK e \in Events : site' = [site EXCEPT ![e].started = TRUE]
        BY <3>3 DEF Starts
      <4>. QED
        BY <3>1, <4>1
    <3>. QED
      BY <1>3, <3>2, <3>3
  <2>3. UNCHANGED <<row, over, pause>>
    BY <1>3 DEF Announced, Starts
  <2>4. Counters' /\ Accounting'
    BY <1>1, <1>2, <2>3 DEF Counters, Accounting, PauseInRow, WindowInRow
  <2>. QED
    BY <1>1, <1>2, <2>1, <2>2, <2>4, Between DEF Records
<1>4. CASE WindowEnds
  <2>1. UNCHANGED <<site, row, faults, pause>> /\ over' = TRUE
    BY <1>4 DEF WindowEnds
  <2>2. Counters' /\ Accounting'
    BY <1>1, <1>2, <2>1 DEF Counters, Accounting, PauseInRow, WindowInRow
  <2>. QED
    BY <1>1, <1>2, <2>1, <2>2, Between DEF Records
<1>5. CASE BlockEnds
  <2>1. /\ UNCHANGED <<site, over, faults>> /\ pause' = FALSE
        /\ row' = [row EXCEPT !.blocked = FALSE]
    BY <1>5 DEF BlockEnds
  <2>2. row' \in Rows /\ row'.count = row.count /\ row'.blocked = FALSE
    BY <1>1, <2>1 DEF Counters, Rows
  <2>3. Counters'
    BY <1>1, <2>1, <2>2 DEF Counters
  <2>4. PauseInRow'
    BY <2>1, <2>2 DEF PauseInRow
  <2>5. WindowInRow'
    BY <1>1, <1>2, <2>1, <2>2 DEF Accounting, WindowInRow
  <2>. QED
    BY <1>1, <1>2, <2>1, <2>3, <2>4, <2>5, Between DEF Records, Accounting
<1>. QED
  BY <1>3, <1>4, <1>5

LEMMA StakeInvStep == StakeInv /\ [Next]_vars => StakeInv'
<1>. SUFFICES ASSUME StakeInv, [Next]_vars PROVE StakeInv'
  OBVIOUS
<1>1. CASE Begin
  BY <1>1, BeginKeeps
<1>2. CASE Listing
  BY <1>2, OpenHubKeeps, DiscoverKeeps DEF Listing
<1>3. CASE Traversal
  BY <1>3, OpenEventKeeps, OpenTabKeeps, EventLateKeeps, EventStoppedKeeps, CloseKeeps
  DEF Traversal
<1>4. CASE Publishing
  BY <1>4, PublishKeeps, PublishRejectedKeeps DEF Publishing
<1>5. CASE Ending
  BY <1>5, CheckpointKeeps, FinishedKeeps DEF Ending
<1>6. CASE StopRequested \/ Refused \/ Interrupted \/ ReadingFails \/ Crash
  BY <1>6, StopRequestedKeeps, RefusedKeeps, InterruptedKeeps, ReadingFailsKeeps, CrashKeeps
<1>7. CASE Announced \/ Starts \/ WindowEnds \/ BlockEnds
  BY <1>7, WorldKeeps
<1>8. CASE UNCHANGED vars
  <2>1. /\ Records /\ Counters /\ cycle \in Cycles /\ Accounting /\ Established(cycle)
        /\ UNCHANGED <<shot, last, run, cycle>>
    BY <1>8, TypeIsParts DEF vars, StakeInv
  <2>2. Counters' /\ Accounting' /\ (Running' <=> Running)
    BY <1>8, <2>1 DEF vars, Counters, Accounting, PauseInRow, WindowInRow, Running
  <2>. QED
    BY <1>8, <2>1, <2>2, Between DEF Records, vars
<1>. QED
  BY <1>1, <1>2, <1>3, <1>4, <1>5, <1>6, <1>7, <1>8 DEF Next, Collector

\* The inductive invariant: with what the properties say, what a traversal has established
\* at each phase, and how the row accounts for the requests of a cycle under way.
THEOREM CyclesKeepInvariant == Spec => []StakeInv
BY StakeInvInit, StakeInvStep, PTL DEF Spec

\* What is published is what an event showed, whole and before its start when it is
\* prematch, and no failed run has published it.
THEOREM PublicationCorrect == Spec => []PublicationIsSound
<1>1. StakeInv => PublicationIsSound
  BY DEF StakeInv, PublicationIsSound
<1>. QED
  BY <1>1, CyclesKeepInvariant, PTL

-----------------------------------------------------------------------------
(* The requests.                                                            *)

\* Only the actions of the browser, and the last page of a cycle, issue requests.
LEMMA StepIsAllowed ==
    StakeInv /\ [Next]_vars => (used' > used => ~pause /\ (over \/ used < Budget))
<1>. SUFFICES ASSUME StakeInv, [Next]_vars, used' > used
              PROVE  ~pause /\ (over \/ used < Budget)
  OBVIOUS
<1>1. /\ Counters /\ Accounting /\ used \in Nat /\ pending \in Nat /\ pending <= used
  BY TypeParts DEF StakeInv, Counters, Accounting, WindowInRow
<1>2. CASE Running
  <2>1. ~pause
    BY <1>1, <1>2 DEF Accounting, PauseInRow
  <2>2. over \/ used < Budget
    BY <1>1, <1>2, StakeAssumption DEF Accounting, WindowInRow, Counters, Rows
  <2>. QED
    BY <2>1, <2>2
<1>3. CASE ~Running
  <2>1. Begin \/ used' = used
    BY <1>3
    DEF Next, Collector, Listing, Traversal, Publishing, Ending, OpenHub, Discover,
        OpenEvent, OpenTab, EventLate, EventStopped, Close, Publish, PublishRejected,
        Checkpoint, Finished, StopRequested, Refused, Interrupted, ReadingFails, Crash,
        Announced, Starts, WindowEnds, BlockEnds, Navigating, Running, Turn, vars
  <2>2. ~Begin
    BY <1>1 DEF Begin
  <2>. QED
    BY <1>1, <2>1, <2>2
<1>. QED
  BY <1>2, <1>3

\* No request leaves during a pause a refusal has asked for, nor once those of the window
\* have spent the budget, from one cycle to the next.
THEOREM RequestsCorrect == Spec => RequestsAreAllowed
<1>1. StakeInv /\ [Next]_vars => [used' > used => ~pause /\ (over \/ used < Budget)]_vars
  BY StepIsAllowed
<1>. QED
  BY <1>1, CyclesKeepInvariant, PTL DEF Spec, RequestsAreAllowed
=============================================================================
