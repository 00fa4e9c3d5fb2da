---------------------------- MODULE LoltvCollection ----------------------------
(***************************************************************************)
(* A cycle of the LoLTV collector, loltv_sync.py, and its feed reader,     *)
(* loltv_feed.py: what it reads of a calendar, of the sheets of the        *)
(* matches and of the feeds of their maps, when it publishes a reading and *)
(* when it saves the checkpoint from which the next cycle goes on.         *)
(*                                                                         *)
(* A date in the future is a date that has not come: time only makes what  *)
(* is "later" due.  The requests themselves are in LoltvPolicy.            *)
(***************************************************************************)
EXTENDS Integers, FiniteSets

CONSTANTS
    Events,   \* matches of the source
    Maps,     \* maps of a series
    Archived, \* the matches an archived capture of the results shows
    MaxFaults \* bound: refusals, unreadable pages, and processes killed

\* A series has a map at least.
ASSUME CollectionAssumption ==
    Maps \in Nat \ {0} /\ Archived \subseteq Events /\ MaxFaults \in Nat

VARIABLES
    site,     \* [Events -> Phases], the state of each match
    quiet,    \* every match is over and every answer is up to date
    at, cur,  \* where the cycle stands, and what it is reading
    visited,  \* the pages the cycle has read
    mem,      \* Collector.pages and Collector.events
    saved,    \* collector_state.data.checkpoint
    pub,      \* [Events -> Phases], what was published last of each match
    stats,    \* [Events -> [Games -> what was published of the map once finished]]
    tried,    \* history: the state in which the sheet of each match was last tried
    faults

vars == <<site, quiet, at, cur, visited, mem, saved, pub, stats, tried, faults>>

-----------------------------------------------------------------------------
(* What the source shows: 0 when the match is not in the window, 1 before it *)
(* starts, then three phases for each map, whose feed is empty, moving, then *)
(* complete while the sheet has no result yet, and the last when it is over. *)

Games  == 1 .. Maps
Last   == 3 * Maps + 2
Phases == 0 .. Last

Status(p) == CASE p = 0 -> "absent" [] p = 1 -> "upcoming" [] p = Last -> "finished"
               [] OTHER -> "live"
Score(p) == IF p < 2 THEN 0 ELSE (p - 2) \div 3

\* What the sheet says of a map.
Html(p, g) == IF g <= Score(p) THEN "COMPLETED"
              ELSE IF Status(p) = "live" /\ g = Score(p) + 1 THEN "STARTED" ELSE "none"

Feed(p, g) == IF g <= Score(p) THEN "COMPLETED"
              ELSE <<"UNSTARTED", "STARTED", "COMPLETED">>[((p - 2) % 3) + 1]

\* The fields by which a listing and a sheet are compared.
Same(p, q) == Status(p) = Status(q) /\ Score(p) = Score(q)

\* A page may be one state old.
Shows(e) == IF quiet THEN {site[e]} ELSE {p \in {site[e], site[e] - 1} : p >= 0}

\* So may a feed, even when the sheet has the result already.
Frames(e, g) ==
    IF ~quiet /\ Feed(site[e], g) = "COMPLETED" THEN {"STARTED", "COMPLETED"}
    ELSE {Feed(site[e], g)}

-----------------------------------------------------------------------------
(* An item of the checkpoint: the event as read last, its due date, the sheet *)
(* that may be used again, the feeds that have completed and completedGames.  *)

Item == [event : Phases, due : BOOLEAN, sheet : Phases, fresh : BOOLEAN,
         feeds : SUBSET Games, acquired : SUBSET Games, archived : BOOLEAN]

NoItem == [event |-> 0, due |-> TRUE, sheet |-> 0, fresh |-> FALSE, feeds |-> {},
           acquired |-> {}, archived |-> FALSE]

Known(state, e) == state.items[e].event # 0

NoState == [page |-> TRUE, items |-> [e \in Events |-> NoItem]]
Nothing == [event |-> "none", phase |-> [e \in Events |-> 0], fetched |-> FALSE, todo |-> {},
            map |-> 0, frame |-> "none", maps |-> {}]

TypeOK ==
    /\ site \in [Events -> Phases] /\ pub \in [Events -> Phases]
    /\ stats \in [Events -> [Games -> {"none", "stale", "final"}]]
    /\ at \in {"idle", "choose", "listed", "read", "feeds", "fed"}
    /\ mem.items \in [Events -> Item] /\ saved.items \in [Events -> Item]
    /\ \A e \in Events : mem.items[e].archived => mem.items[e].event = Last
    /\ visited \subseteq Events \cup {"page"}
    /\ quiet => \A e \in Events : site[e] = Last
    /\ faults \in 0 .. MaxFaults

\* complete: the match is over and every map has its statistics, or had them lately.
Complete(p, maps, acquired) == Status(p) = "finished" /\ Games \subseteq maps \cup acquired

Fault == ~quiet /\ faults < MaxFaults /\ faults' = faults + 1

\* Collector.checkpoint
Checkpoint == saved' = mem'

-----------------------------------------------------------------------------
(* The cycle.                                                               *)

\* seed_archived_events: the matches of a capture that nothing else has shown.
Seeded(items) ==
    [e \in Events |->
        IF e \in Archived /\ site[e] = Last /\ items[e].event = 0 /\ pub[e] = 0
        THEN [NoItem EXCEPT !.event = Last, !.archived = TRUE] ELSE items[e]]

\* sync_loltv, Collector.__init__
Begin ==
    /\ at = "idle" /\ at' = "choose"
    /\ mem' = [saved EXCEPT !.items = Seeded(@)]
    /\ Checkpoint
    /\ visited' = {} /\ cur' = Nothing
    /\ UNCHANGED <<site, quiet, pub, stats, tried, faults>>

Due(status) == {e \in Events : Status(mem.items[e].event) = status /\ mem.items[e].due}
Live  == Due("live")
Ended == Due("finished") \ visited
ListingDue == mem.page /\ "page" \notin visited

Publish(e, p) == pub' = [pub EXCEPT ![e] = p]

\* read_listing, to the end of its publication.
ReadListing ==
    /\ at = "choose" /\ Live = {} /\ ListingDue
    /\ \E shown \in [Events -> UNION {Shows(e) : e \in Events}] :
        /\ \A e \in Events : shown[e] \in Shows(e)
        /\ pub' = [e \in Events |-> IF shown[e] = 0 THEN pub[e] ELSE shown[e]]
        /\ cur' = [Nothing EXCEPT !.phase = shown]
    /\ at' = "listed" /\ visited' = visited \cup {"page"}
    /\ UNCHANGED <<site, quiet, mem, saved, stats, tried, faults>>

\* Mutated form: the dates of the sheets stay as they are.
RefreshedLater(item, p) == [item EXCEPT !.event = p, !.archived = FALSE]

\* A match that has changed has its sheet read again.
Refreshed(item, p) ==
    [item EXCEPT !.event = p, !.archived = FALSE,
                 !.due = @ \/ ~Same(item.event, p)]

NoteListing ==
    /\ at = "listed" /\ at' = "choose"
    /\ mem' = [page |-> FALSE, items |-> [e \in Events |->
                  IF cur.phase[e] = 0 THEN mem.items[e]
                  ELSE Refreshed(mem.items[e], cur.phase[e])]]
    /\ Checkpoint
    /\ UNCHANGED <<site, quiet, cur, visited, pub, stats, tried, faults>>

\* The sheet read last is used again for a match that goes on as it was.
UsesSheet(i) ==
    Status(i.event) = "live" /\ i.sheet # 0 /\ i.fresh /\ Same(i.sheet, i.event)

\* read_detail, to the end of the publication of the sheet.
ReadDetail(e) ==
    /\ at = "choose"
    /\ e \in Live \/ (Live = {} /\ ~ListingDue /\ e \in Ended)
    /\ \E p \in IF UsesSheet(mem.items[e]) THEN {mem.items[e].event} ELSE Shows(e) \ {0} :
        /\ mem.items[e].archived => p = Last
        /\ cur' = [Nothing EXCEPT !.event = e, !.phase = [f \in Events |-> p],
                                  !.fetched = ~UsesSheet(mem.items[e])]
        /\ IF UsesSheet(mem.items[e]) THEN UNCHANGED pub ELSE Publish(e, p)
    /\ at' = "read" /\ visited' = visited \cup {e}
    /\ UNCHANGED <<site, quiet, mem, saved, stats, tried, faults>>

\* Mutated form: a feed that has completed is never read again.
LeftAlone(i, p) == {g \in Games : g \in i.feeds}

\* The maps whose feed has completed before the sheet has the result.
Waiting(i, p) == {g \in i.feeds : Html(p, g) = "STARTED"}

\* The feeds worth reading, of the maps that have one.
Pending(i, p) ==
    IF Complete(p, {}, i.acquired) THEN {}
    ELSE {g \in Games : Html(p, g) # "none"} \ (i.acquired \cup Waiting(i, p))

\* The item of a sheet that has been read, or used again.
Noted(i, p, fetched) ==
    [i EXCEPT !.event = p, !.due = FALSE, !.sheet = IF fetched THEN p ELSE @,
              !.fresh = fetched \/ @]

\* The sheet is saved before the feeds are read.
NoteDetail ==
    /\ at = "read" /\ at' = "feeds"
    /\ LET e == cur.event
           p == cur.phase[e]
       IN  /\ mem' = [mem EXCEPT !.items[e] = Noted(mem.items[e], p, cur.fetched)]
           /\ cur' = [cur EXCEPT !.todo = Pending(mem.items[e], p)]
           /\ tried' = [tried EXCEPT ![e] = p]
    /\ Checkpoint
    /\ UNCHANGED <<site, quiet, visited, pub, stats, faults>>

\* The card of the current map before the others.
First(g) ==
    g \in cur.todo /\ \A h \in cur.todo :
        Html(cur.phase[cur.event], h) = "STARTED" => h = g

\* FeedReader.enrich, merge_feed: a frame, published with the result of the sheet.
ReadFeed ==
    /\ at = "feeds"
    /\ \E g \in cur.todo : \E frame \in Frames(cur.event, g) :
        /\ First(g)
        /\ IF frame = "UNSTARTED"
           THEN /\ cur' = [cur EXCEPT !.todo = @ \ {g}]
                /\ UNCHANGED <<at, stats>>
           ELSE LET over == Html(cur.phase[cur.event], g) = "COMPLETED"
                IN  /\ at' = "fed"
                    /\ cur' = [cur EXCEPT !.todo = @ \ {g}, !.map = g, !.frame = frame,
                                          !.maps = IF over THEN @ \cup {g} ELSE @]
                    /\ stats' = IF ~over THEN stats
                                ELSE [stats EXCEPT ![cur.event][g] =
                                         IF frame = "COMPLETED" THEN "final" ELSE "stale"]
    /\ UNCHANGED <<site, quiet, visited, mem, saved, pub, tried, faults>>

\* remember_games
Acquired(i) == i.acquired \cup cur.maps

Fed(i) ==
    [i EXCEPT !.acquired = Acquired(i),
              !.feeds = IF cur.frame = "COMPLETED" THEN @ \cup {cur.map} ELSE @ \ {cur.map}]

\* publish_map, once the reading is published.
NoteFeed ==
    /\ at = "fed" /\ at' = "feeds"
    /\ mem' = [mem EXCEPT !.items[cur.event] = Fed(mem.items[cur.event])]
    /\ Checkpoint
    /\ UNCHANGED <<site, quiet, cur, visited, pub, stats, tried, faults>>

\* Without a session no feed is read: the sheet is put off with them.
SessionFails ==
    /\ at = "feeds" /\ cur.todo # {} /\ cur.map = 0 /\ Fault
    /\ cur' = [cur EXCEPT !.todo = {}] /\ at' = "choose"
    /\ mem' = [mem EXCEPT !.items[cur.event].due = FALSE]
    /\ Checkpoint
    /\ UNCHANGED <<site, quiet, visited, pub, stats, tried>>

\* A feed that cannot be read leaves the others, unless the session has expired.
FeedFails ==
    /\ at = "feeds" /\ cur.todo # {} /\ Fault
    /\ \E left \in {{}} \cup {cur.todo \ {g} : g \in cur.todo} :
          cur' = [cur EXCEPT !.todo = left]
    /\ UNCHANGED <<site, quiet, at, visited, mem, saved, pub, stats, tried>>

\* A match that goes on, or one that this reading has completed, is put off again.
PutOff(p, acquired) == Status(p) = "live" \/ Complete(p, cur.maps, acquired)

EndDetail ==
    /\ at = "feeds" /\ cur.todo = {} /\ at' = "choose"
    /\ mem' = [mem EXCEPT !.items[cur.event].due =
                 @ /\ ~PutOff(cur.phase[cur.event], mem.items[cur.event].acquired)]
    /\ Checkpoint
    /\ UNCHANGED <<site, quiet, cur, visited, pub, stats, tried, faults>>

\* A page that cannot be read is put off: a stale listing, a sheet that is missing or that
\* contradicts the capture, a source that does not answer.
PageFails ==
    /\ at = "choose" /\ at' = "choose" /\ Fault
    /\ \/ /\ Live = {} /\ ListingDue
          /\ mem' = [mem EXCEPT !.page = FALSE] /\ visited' = visited \cup {"page"}
          /\ UNCHANGED tried
       \/ \E e \in Live \cup Ended :
            /\ e \in Live \/ (Live = {} /\ ~ListingDue)
            /\ mem' = [mem EXCEPT !.items[e].due = FALSE] /\ visited' = visited \cup {e}
            /\ tried' = [tried EXCEPT ![e] = mem.items[e].event]
    /\ Checkpoint
    /\ UNCHANGED <<site, quiet, cur, pub, stats>>

\* LoltvBlocked and LoltvBudgetExhausted end the cycle, which saves what it has.
Refused ==
    /\ at \in {"choose", "feeds"} /\ at' = "idle" /\ Fault
    /\ saved' = mem
    /\ UNCHANGED <<site, quiet, cur, visited, mem, pub, stats, tried>>

\* The process is killed.
Crash ==
    /\ at # "idle" /\ at' = "idle" /\ Fault
    /\ UNCHANGED <<site, quiet, cur, visited, mem, saved, pub, stats, tried>>

\* Nothing is due, or loltv_cycle_seconds have passed.
EndCycle ==
    /\ at = "choose" /\ at' = "idle"
    /\ (Live = {} /\ ~ListingDue /\ Ended = {}) \/ (visited # {} /\ ~quiet)
    /\ saved' = mem
    /\ UNCHANGED <<site, quiet, cur, visited, mem, pub, stats, tried, faults>>

-----------------------------------------------------------------------------
(* The source and time.                                                     *)

Move(e) ==
    /\ site[e] < Last /\ site' = [site EXCEPT ![e] = @ + 1]
    /\ UNCHANGED <<quiet, at, cur, visited, mem, saved, pub, stats, tried, faults>>

Calm ==
    /\ ~quiet /\ \A e \in Events : site[e] = Last
    /\ quiet' = TRUE
    /\ UNCHANGED <<site, at, cur, visited, mem, saved, pub, stats, tried, faults>>

\* What becomes due for an item: the next reading; the sheet, too old to be used again;
\* and the maps of completedGames, too old as well.
Ages == {"reading", "sheet", "games"}

Aged(i, age) == [i EXCEPT !.due = TRUE, !.fresh = @ /\ age = "reading",
                          !.acquired = IF age = "games" THEN {} ELSE @]

Passed(state, e, age) ==
    IF Known(state, e) THEN [state EXCEPT !.items[e] = Aged(@, age)] ELSE state

Elapse(e, age) ==
    /\ mem' = Passed(mem, e, age) /\ saved' = Passed(saved, e, age)
    /\ <<mem, saved>>' # <<mem, saved>>
    /\ UNCHANGED <<site, quiet, at, cur, visited, pub, stats, tried, faults>>

ListingElapses ==
    /\ ~mem.page \/ ~saved.page
    /\ mem' = [mem EXCEPT !.page = TRUE] /\ saved' = [saved EXCEPT !.page = TRUE]
    /\ UNCHANGED <<site, quiet, at, cur, visited, pub, stats, tried, faults>>

-----------------------------------------------------------------------------
Init ==
    /\ site = [e \in Events |-> 0] /\ quiet = FALSE
    /\ at = "idle" /\ cur = Nothing /\ visited = {}
    /\ mem = NoState /\ saved = NoState
    /\ pub = [e \in Events |-> 0]
    /\ stats = [e \in Events |-> [g \in Games |-> "none"]]
    /\ tried = [e \in Events |-> 0] /\ faults = 0

Reading == \/ ReadListing \/ NoteListing \/ \E e \in Events : ReadDetail(e)
           \/ NoteDetail \/ ReadFeed \/ NoteFeed \/ EndDetail

Failing == SessionFails \/ FeedFails \/ PageFails \/ Refused \/ Crash

Time(e) == \E age \in Ages : Elapse(e, age)

Next == \/ Begin \/ Reading \/ Failing \/ EndCycle
        \/ \E e \in Events : Move(e) \/ Time(e)
        \/ Calm \/ ListingElapses

\* The scheduler starts the cycles, a cycle goes on, and time passes.
Fairness ==
    /\ WF_vars(Begin) /\ WF_vars(Reading) /\ WF_vars(EndCycle) /\ WF_vars(ListingElapses)
    /\ \A e \in Events : WF_vars(Elapse(e, "games"))

Spec == Init /\ [][Next]_vars /\ Fairness

-----------------------------------------------------------------------------
(* Properties.                                                              *)

\* A match whose last reading differs from the state its sheet was last tried in is due,
\* whatever interrupted the cycle: no change of the calendar waits for a later date.
ChangedMatchIsDue ==
    at \in {"idle", "choose"} => \A e \in Events :
        LET i == IF at = "idle" THEN saved.items[e] ELSE mem.items[e]
        IN  Status(i.event) \in {"live", "finished"} /\ ~Same(i.event, tried[e]) => i.due

\* A map that the next readings leave out because its statistics are acquired has been
\* published with them.
AcquiredIsPublished ==
    \A e \in Events : \A g \in mem.items[e].acquired \cup saved.items[e].acquired :
        stats[e][g] # "none"

\* Wherever a cycle was interrupted, the next one finds in the checkpoint neither less than
\* it has to read again nor more than what was published.
CheckpointIsSound == TypeOK /\ ChangedMatchIsDue /\ AcquiredIsPublished

\* When the matches are over and the source answers, each of them ends up published with
\* its result and the last statistics of all its maps, even those that were read too early.
EndIsPublished ==
    quiet ~> \A e \in Events : pub[e] = Last /\ \A g \in Games : stats[e][g] = "final"
=============================================================================
