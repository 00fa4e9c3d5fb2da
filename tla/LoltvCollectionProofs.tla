------------------------- MODULE LoltvCollectionProofs -------------------------
(***************************************************************************)
(* Theorems about LoltvCollection, for every set of matches, any number of *)
(* maps and any number of failures: the checkpoint never holds less than   *)
(* the next cycle has to read again, nor more than what was published.     *)
(***************************************************************************)
EXTENDS LoltvCollection, TLAPS

States == [page : BOOLEAN, items : [Events -> Item]]
Reads  == [event : Events \cup {"none"}, phase : [Events -> Phases], fetched : BOOLEAN,
           todo : SUBSET Games, map : Games \cup {0},
           frame : {"none", "UNSTARTED", "STARTED", "COMPLETED"}, maps : SUBSET Games]

\* An item, given the state its sheet was last tried in and what was published of its maps.
ItemSound(i, t, published) ==
    /\ i \in Item
    /\ i.archived => i.event = Last
    /\ \A g \in i.acquired : published[g] # "none"
    /\ Status(i.event) \in {"live", "finished"} /\ ~Same(i.event, t) => i.due

Sound(state, tries, published) ==
    /\ state \in States
    /\ \A e \in Events : ItemSound(state.items[e], tries[e], published[e])

\* What is in memory is as sound as what is saved; the match that is being read is the one
\* that was tried; the maps to be remembered are published.
CurrentGood ==
    /\ cur \in Reads
    /\ at \in {"read", "feeds", "fed"} => cur.event \in Events
    /\ at = "fed" => cur.map \in Games
    /\ at = "read" /\ mem.items[cur.event].archived => cur.phase[cur.event] = Last
    /\ at \in {"feeds", "fed"} =>
          /\ mem.items[cur.event].event = cur.phase[cur.event]
          /\ tried[cur.event] = cur.phase[cur.event]
    /\ cur.event \in Events => \A g \in cur.maps : stats[cur.event][g] # "none"

SourceGood ==
    /\ site \in [Events -> Phases] /\ pub \in [Events -> Phases]
    /\ quiet => \A e \in Events : site[e] = Last
    /\ visited \subseteq Events \cup {"page"}
    /\ faults \in 0 .. MaxFaults

CheckpointGood ==
    /\ at \in {"idle", "choose", "listed", "read", "feeds", "fed"}
    /\ tried \in [Events -> Phases]
    /\ stats \in [Events -> [Games -> {"none", "stale", "final"}]]
    /\ Sound(mem, tried, stats) /\ Sound(saved, tried, stats)
    /\ CurrentGood

CollectionInv == CheckpointGood /\ SourceGood

-----------------------------------------------------------------------------
(* Phases, items and states of the collector.                               *)

LEMMA PhaseFacts ==
    /\ Last \in Nat /\ Last # 0 /\ Last \in Phases /\ 0 \in Phases
    /\ \A p \in Phases : p \in Int
BY CollectionAssumption DEF Last, Phases

LEMMA SameIsEquality ==
    /\ \A p : Same(p, p)
    /\ \A p, q, t : Same(p, q) /\ ~Same(q, t) => ~Same(p, t) /\ Status(p) = Status(q)
BY DEF Same

LEMMA ShowsPhases ==
    ASSUME SourceGood, NEW e \in Events
    PROVE  Shows(e) \subseteq Phases
<1>1. site[e] \in 0 .. Last
  BY DEF SourceGood, Phases
<1>2. site[e] \in Phases /\ (site[e] - 1 >= 0 => site[e] - 1 \in Phases)
  BY <1>1, PhaseFacts DEF Phases
<1>. QED
  BY <1>2 DEF Shows

LEMMA FramesAreKnown ==
    ASSUME SourceGood, NEW e \in Events, NEW g \in Games
    PROVE  Frames(e, g) \subseteq {"UNSTARTED", "STARTED", "COMPLETED"}
<1>1. site[e] \in Int
  BY PhaseFacts DEF SourceGood
<1>2. ((site[e] - 2) % 3) + 1 \in 1 .. 3
  BY <1>1
<1>3. Feed(site[e], g) \in {"UNSTARTED", "STARTED", "COMPLETED"}
  BY <1>2 DEF Feed
<1>. QED
  BY <1>3 DEF Frames

LEMMA NothingIsRead == Nothing \in Reads /\ Nothing.maps = {}
BY PhaseFacts DEF Nothing, Reads

\* One item of a state changes, with the sheet of its match tried or not.
LEMMA SoundAfter ==
    ASSUME NEW s, NEW tries, NEW published, Sound(s, tries, published),
           NEW e \in Events, NEW j
    PROVE  \A t : /\ ItemSound(j, t[e], published[e])
                  /\ \A f \in Events : f # e => t[f] = tries[f]
                  => /\ Sound([s EXCEPT !.items[e] = j], t, published)
                     /\ [s EXCEPT !.items[e] = j].items[e] = j
<1> SUFFICES ASSUME NEW t, ItemSound(j, t[e], published[e]),
                    \A f \in Events : f # e => t[f] = tries[f]
             PROVE  /\ Sound([s EXCEPT !.items[e] = j], t, published)
                    /\ [s EXCEPT !.items[e] = j].items[e] = j
  OBVIOUS
<1>1. s \in States /\ j \in Item
  BY DEF Sound, ItemSound
<1> DEFINE n == [s EXCEPT !.items[e] = j]
<1>2. n \in States
  BY <1>1 DEF States
<1>3. \A f \in Events : n.items[f] = IF f = e THEN j ELSE s.items[f]
  BY <1>1 DEF States
<1> HIDE DEF n
<1>4. ASSUME NEW f \in Events PROVE ItemSound(n.items[f], t[f], published[f])
  <2>1. CASE f = e
    BY <1>3, <2>1
  <2>2. CASE f # e
    <3>1. n.items[f] = s.items[f] /\ t[f] = tries[f]
      BY <1>3, <2>2
    <3>. QED
      BY <3>1 DEF Sound
  <2>. QED
    BY <2>1, <2>2
<1>5. Sound(n, t, published)
  BY <1>2, <1>4 DEF Sound
<1>. QED
  BY <1>3, <1>5 DEF n

-----------------------------------------------------------------------------
(* What each step makes of an item.                                         *)

LEMMA NoItemSound ==
    ASSUME NEW t, NEW published
    PROVE  /\ ItemSound(NoItem, t, published)
           /\ ItemSound([NoItem EXCEPT !.event = Last, !.archived = TRUE], t, published)
<1>1. /\ NoItem.event = 0 /\ NoItem.due = TRUE /\ NoItem.acquired = {}
      /\ NoItem.archived = FALSE /\ NoItem \in Item
  BY PhaseFacts DEF NoItem, Item
<1> DEFINE j == [NoItem EXCEPT !.event = Last, !.archived = TRUE]
<1>2. j.event = Last /\ j.due = TRUE /\ j.acquired = {} /\ j \in Item
  BY PhaseFacts DEF NoItem, Item
<1> HIDE DEF j
<1>3. ItemSound(j, t, published)
  BY <1>2 DEF ItemSound
<1>4. ItemSound(NoItem, t, published)
  BY <1>1 DEF ItemSound
<1>. QED
  BY <1>3, <1>4 DEF j

LEMMA RefreshedSound ==
    ASSUME NEW t, NEW published, NEW i, ItemSound(i, t, published), NEW p \in Phases
    PROVE  ItemSound(Refreshed(i, p), t, published)
<1> DEFINE j == Refreshed(i, p)
           changed == ~Same(i.event, p)
<1>1. /\ i \in Item /\ \A g \in i.acquired : published[g] # "none"
      /\ Status(i.event) \in {"live", "finished"} /\ ~Same(i.event, t) => i.due
  BY DEF ItemSound
<1>2. changed \in BOOLEAN /\ i.due \in BOOLEAN
  BY <1>1 DEF Item
<1>3. j = [i EXCEPT !.event = p, !.archived = FALSE, !.due = i.due \/ changed]
  BY DEF Refreshed
<1> HIDE DEF j
<1>4. /\ j \in Item /\ j.event = p /\ j.archived = FALSE /\ j.acquired = i.acquired
      /\ j.due = (i.due \/ changed)
  <2> HIDE DEF changed
  <2> DEFINE d == i.due \/ changed
  <2>1. d \in BOOLEAN
    BY <1>2
  <2>2. j = [i EXCEPT !.event = p, !.archived = FALSE, !.due = d]
    BY <1>3
  <2> HIDE DEF d
  <2>3. /\ j \in Item /\ j.event = p /\ j.archived = FALSE /\ j.acquired = i.acquired
        /\ j.due = d
    BY <1>1, <2>1, <2>2 DEF Item
  <2>. QED
    BY <2>3 DEF d
<1>5. Status(p) \in {"live", "finished"} /\ ~Same(p, t) => j.due
  <2> SUFFICES ASSUME Status(p) \in {"live", "finished"}, ~Same(p, t) PROVE i.due \/ changed
    BY <1>4
  <2>1. CASE Same(i.event, p)
    BY <1>1, <2>1, SameIsEquality
  <2>. QED
    BY <2>1
<1>. QED
  BY <1>1, <1>4, <1>5 DEF ItemSound, j

LEMMA ReadSound ==
    ASSUME NEW t, NEW published, NEW i, ItemSound(i, t, published), NEW p \in Phases,
           i.archived => p = Last, NEW fetched \in BOOLEAN
    PROVE  ItemSound(Noted(i, p, fetched), p, published) /\ Noted(i, p, fetched).event = p
<1> DEFINE x == IF fetched THEN p ELSE i.sheet
           y == fetched \/ i.fresh
           j == [i EXCEPT !.event = p, !.due = FALSE, !.sheet = x, !.fresh = y]
<1>1. i \in Item /\ \A g \in i.acquired : published[g] # "none"
  BY DEF ItemSound
<1>2. x \in Phases /\ y \in BOOLEAN
  BY <1>1 DEF Item
<1>3. Noted(i, p, fetched) = j
  BY DEF Noted
<1> HIDE DEF x, y
<1>4. /\ j \in Item /\ j.event = p /\ j.archived = i.archived /\ j.acquired = i.acquired
  BY <1>1, <1>2 DEF Item
<1> HIDE DEF j
<1>5. ItemSound(j, p, published)
  BY <1>1, <1>4, SameIsEquality DEF ItemSound
<1>. QED
  BY <1>3, <1>4, <1>5

LEMMA FedSound ==
    ASSUME NEW t, NEW published, NEW i, ItemSound(i, t, published), cur \in Reads,
           cur.map \in Games, \A g \in cur.maps : published[g] # "none"
    PROVE  ItemSound(Fed(i), t, published) /\ Fed(i).event = i.event
<1> DEFINE feeds == IF cur.frame = "COMPLETED" THEN i.feeds \cup {cur.map}
                    ELSE i.feeds \ {cur.map}
           acquired == Acquired(i)
           j == [i EXCEPT !.acquired = acquired, !.feeds = feeds]
<1>1. i \in Item /\ \A g \in i.acquired : published[g] # "none"
  BY DEF ItemSound
<1>2. /\ feeds \in SUBSET Games /\ acquired \in SUBSET Games
      /\ \A g \in acquired : published[g] # "none"
  BY <1>1 DEF Item, Reads, Acquired
<1>3. Fed(i) = j
  BY DEF Fed
<1> HIDE DEF feeds, acquired
<1>4. /\ j \in Item /\ j.event = i.event /\ j.archived = i.archived /\ j.due = i.due
      /\ j.acquired = acquired
  BY <1>1, <1>2 DEF Item
<1> HIDE DEF j
<1>5. ItemSound(j, t, published)
  BY <1>2, <1>4 DEF ItemSound
<1>. QED
  BY <1>3, <1>4, <1>5

\* A date may be put off when the sheet was tried in the state that was read last.
LEMMA PutOffSound ==
    ASSUME NEW t, NEW tr, NEW published, NEW i, ItemSound(i, t, published), Same(i.event, tr),
           NEW due \in BOOLEAN
    PROVE  LET j == [i EXCEPT !.due = due]
           IN  ItemSound(j, tr, published) /\ j.event = i.event
<1> DEFINE j == [i EXCEPT !.due = due]
<1>1. i \in Item
  BY DEF ItemSound
<1>2. /\ j \in Item /\ j.event = i.event /\ j.archived = i.archived /\ j.acquired = i.acquired
  BY <1>1 DEF Item
<1> HIDE DEF j
<1>3. ItemSound(j, tr, published)
  BY <1>2 DEF ItemSound
<1>. QED
  BY <1>2, <1>3 DEF j

LEMMA AgedSound ==
    ASSUME NEW t, NEW published, NEW i, ItemSound(i, t, published), NEW age
    PROVE  /\ ItemSound(Aged(i, age), t, published)
           /\ Aged(i, age).event = i.event /\ Aged(i, age).archived = i.archived
<1> DEFINE x == i.fresh /\ age = "reading"
           y == IF age = "games" THEN {} ELSE i.acquired
           j == [i EXCEPT !.due = TRUE, !.fresh = x, !.acquired = y]
<1>1. i \in Item
  BY DEF ItemSound
<1>2. x \in BOOLEAN /\ y \in SUBSET Games /\ y \subseteq i.acquired
  BY <1>1 DEF Item
<1> HIDE DEF x, y
<1>3. /\ j \in Item /\ j.event = i.event /\ j.archived = i.archived /\ j.acquired = y
      /\ j.due = TRUE
  BY <1>1, <1>2 DEF Item
<1>4. Aged(i, age) = j
  BY DEF Aged, x, y
<1> HIDE DEF j
<1>5. ItemSound(j, t, published)
  BY <1>2, <1>3 DEF ItemSound
<1>. QED
  BY <1>3, <1>4, <1>5

-----------------------------------------------------------------------------
(* The steps.                                                               *)

LEMMA CollectionInvInit == Init => CollectionInv
<1> SUFFICES ASSUME Init PROVE CollectionInv
  OBVIOUS
<1>1. /\ site = [e \in Events |-> 0] /\ quiet = FALSE /\ at = "idle" /\ cur = Nothing
      /\ visited = {} /\ mem = NoState /\ saved = NoState /\ pub = [e \in Events |-> 0]
      /\ stats = [e \in Events |-> [g \in Games |-> "none"]]
      /\ tried = [e \in Events |-> 0] /\ faults = 0
  BY DEF Init
<1>2. Sound(NoState, tried, stats)
  <2>1. NoItem \in Item /\ \A e \in Events : ItemSound(NoItem, tried[e], stats[e])
    BY NoItemSound DEF ItemSound
  <2>2. NoState \in States /\ \A e \in Events : NoState.items[e] = NoItem
    BY <2>1 DEF NoState, States
  <2>. QED
    BY <2>1, <2>2 DEF Sound
<1>3. CurrentGood
  BY <1>1, NothingIsRead DEF CurrentGood
<1>4. tried \in [Events -> Phases] /\ stats \in [Events -> [Games -> {"none", "stale", "final"}]]
  BY <1>1, PhaseFacts
<1>5. SourceGood
  BY <1>1, PhaseFacts, CollectionAssumption DEF SourceGood
<1>. QED
  BY <1>1, <1>2, <1>3, <1>4, <1>5 DEF CollectionInv, CheckpointGood

LEMMA SourceStep ==
    ASSUME CollectionInv, [Next]_vars
    PROVE  SourceGood'
<1>1. /\ site \in [Events -> Phases] /\ pub \in [Events -> Phases]
      /\ quiet => \A e \in Events : site[e] = Last
      /\ visited \subseteq Events \cup {"page"} /\ faults \in 0 .. MaxFaults
      /\ MaxFaults \in Nat /\ SourceGood
  BY CollectionAssumption DEF CollectionInv, SourceGood
<1>2. CASE Begin \/ NoteListing \/ NoteDetail \/ ReadFeed \/ NoteFeed \/ EndDetail \/ EndCycle
  <2>1. /\ UNCHANGED <<site, quiet, pub, faults>> /\ visited' \in {visited, {}}
    BY <1>2 DEF Begin, NoteListing, NoteDetail, ReadFeed, NoteFeed, EndDetail, EndCycle
  <2>. QED
    BY <1>1, <2>1 DEF SourceGood
<1>3. CASE ReadListing
  <2>1. PICK shown \in [Events -> UNION {Shows(e) : e \in Events}] :
            /\ \A e \in Events : shown[e] \in Shows(e)
            /\ pub' = [e \in Events |-> IF shown[e] = 0 THEN pub[e] ELSE shown[e]]
    BY <1>3 DEF ReadListing
  <2>2. pub' \in [Events -> Phases]
    BY <1>1, <2>1, ShowsPhases
  <2>. QED
    BY <1>1, <1>3, <2>2 DEF ReadListing, SourceGood
<1>4. CASE \E e \in Events : ReadDetail(e)
  <2>1. PICK e \in Events : ReadDetail(e)
    BY <1>4
  <2>2. mem.items[e].event \in Phases
    BY DEF CollectionInv, CheckpointGood, Sound, States, Item
  <2>3. PICK p \in IF UsesSheet(mem.items[e]) THEN {mem.items[e].event} ELSE Shows(e) \ {0} :
            IF UsesSheet(mem.items[e]) THEN UNCHANGED pub ELSE Publish(e, p)
    BY <2>1 DEF ReadDetail
  <2>4. p \in Phases
    BY <1>1, <2>2, <2>3, ShowsPhases
  <2>5. pub' \in [Events -> Phases]
    BY <1>1, <2>3, <2>4 DEF Publish
  <2>. QED
    BY <1>1, <2>1, <2>5 DEF ReadDetail, SourceGood
<1>5. CASE SessionFails \/ FeedFails \/ PageFails \/ Refused \/ Crash
  <2>1. faults' \in 0 .. MaxFaults /\ UNCHANGED <<site, quiet, pub>>
    BY <1>1, <1>5 DEF SessionFails, FeedFails, PageFails, Refused, Crash, Fault
  <2>2. visited' \subseteq Events \cup {"page"}
    BY <1>1, <1>5 DEF SessionFails, FeedFails, PageFails, Refused, Crash, Live, Ended, Due
  <2>. QED
    BY <1>1, <2>1, <2>2 DEF SourceGood
<1>6. CASE \E e \in Events : Move(e)
  <2>1. PICK e \in Events : site[e] < Last /\ site' = [site EXCEPT ![e] = @ + 1]
    BY <1>6 DEF Move
  <2>2. site[e] + 1 \in Phases
    BY <1>1, <2>1, PhaseFacts DEF Phases
  <2>3. ~quiet
    BY <1>1, <2>1, PhaseFacts
  <2>. QED
    BY <1>1, <1>6, <2>1, <2>2, <2>3 DEF Move, SourceGood
<1>7. CASE Calm
  BY <1>1, <1>7 DEF Calm, SourceGood
<1>8. CASE ListingElapses \/ \E e \in Events : \E age \in Ages : Elapse(e, age)
  BY <1>1, <1>8 DEF ListingElapses, Elapse, SourceGood
<1>9. CASE UNCHANGED vars
  BY <1>1, <1>9 DEF vars, SourceGood
<1>. QED
  BY <1>2, <1>3, <1>4, <1>5, <1>6, <1>7, <1>8, <1>9 DEF Next, Reading, Failing, Time

LEMMA BeginKeeps ==
    ASSUME CollectionInv, Begin
    PROVE  CheckpointGood'
<1>1. /\ Sound(saved, tried, stats) /\ saved \in States
      /\ mem' = [saved EXCEPT !.items = Seeded(saved.items)] /\ saved' = mem'
      /\ at' = "choose" /\ cur' = Nothing /\ UNCHANGED <<tried, stats>>
  BY DEF Begin, Checkpoint, CollectionInv, CheckpointGood, Sound
<1> DEFINE items == Seeded(saved.items)
<1>2. \A e \in Events : items[e] \in {saved.items[e],
                                      [NoItem EXCEPT !.event = Last, !.archived = TRUE]}
  BY DEF Seeded
<1>3. \A e \in Events : ItemSound(items[e], tried[e], stats[e])
  BY <1>1, <1>2, NoItemSound DEF Sound
<1>4. DOMAIN items = Events /\ \A e \in Events : items[e] \in Item
  BY <1>3 DEF Seeded, ItemSound
<1>5. items \in [Events -> Item]
  <2>1. items = [e \in Events |-> items[e]]
    BY DEF Seeded
  <2> HIDE DEF items
  <2>. QED
    BY <1>4, <2>1
<1> HIDE DEF items
<1>6. mem' \in States /\ mem'.items = items
  BY <1>1, <1>5 DEF States, items
<1>7. Sound(mem', tried, stats)
  BY <1>3, <1>6 DEF Sound
<1>8. CurrentGood'
  BY <1>1, NothingIsRead DEF CurrentGood
<1>. QED
  BY <1>1, <1>7, <1>8 DEF CheckpointGood, CollectionInv

LEMMA ReadListingKeeps ==
    ASSUME CollectionInv, ReadListing
    PROVE  CheckpointGood'
<1>1. PICK shown \in [Events -> UNION {Shows(e) : e \in Events}] :
          /\ \A e \in Events : shown[e] \in Shows(e)
          /\ cur' = [Nothing EXCEPT !.phase = shown]
  BY DEF ReadListing
<1>2. shown \in [Events -> Phases]
  BY <1>1, ShowsPhases DEF CollectionInv
<1>3. cur' \in Reads /\ cur'.maps = {}
  BY <1>1, <1>2, NothingIsRead DEF Reads
<1>4. at' = "listed" /\ UNCHANGED <<mem, saved, stats, tried>>
  BY DEF ReadListing
<1>5. CurrentGood'
  BY <1>3, <1>4 DEF CurrentGood
<1>. QED
  BY <1>4, <1>5 DEF CheckpointGood, CollectionInv

LEMMA NoteListingKeeps ==
    ASSUME CollectionInv, NoteListing
    PROVE  CheckpointGood'
<1> DEFINE items == [e \in Events |-> IF cur.phase[e] = 0 THEN mem.items[e]
                                      ELSE Refreshed(mem.items[e], cur.phase[e])]
<1>1. /\ Sound(mem, tried, stats) /\ cur \in Reads /\ CurrentGood
      /\ mem' = [page |-> FALSE, items |-> items] /\ saved' = mem'
      /\ at' = "choose" /\ UNCHANGED <<cur, tried, stats>>
  BY DEF NoteListing, Checkpoint, CollectionInv, CheckpointGood, CurrentGood
<1>2. \A e \in Events : cur.phase[e] \in Phases
  BY <1>1 DEF Reads
<1>3. \A e \in Events : ItemSound(items[e], tried[e], stats[e])
  BY <1>1, <1>2, RefreshedSound DEF Sound
<1>4. items \in [Events -> Item]
  <2>1. \A e \in Events : items[e] \in Item
    BY <1>3 DEF ItemSound
  <2>2. items = [e \in Events |-> items[e]]
    OBVIOUS
  <2> HIDE DEF items
  <2>. QED
    BY <2>1, <2>2
<1> HIDE DEF items
<1>5. mem' \in States /\ mem'.items = items
  BY <1>1, <1>4 DEF States
<1>6. Sound(mem', tried, stats)
  BY <1>3, <1>5 DEF Sound
<1>7. CurrentGood'
  BY <1>1 DEF CurrentGood
<1>. QED
  BY <1>1, <1>6, <1>7 DEF CheckpointGood, CollectionInv

LEMMA ReadDetailKeeps ==
    ASSUME CollectionInv, NEW e \in Events, ReadDetail(e)
    PROVE  CheckpointGood'
<1>1. mem.items[e].event \in Phases
  BY DEF CollectionInv, CheckpointGood, Sound, States, Item
<1>2. PICK p \in IF UsesSheet(mem.items[e]) THEN {mem.items[e].event} ELSE Shows(e) \ {0} :
          /\ mem.items[e].archived => p = Last
          /\ cur' = [Nothing EXCEPT !.event = e, !.phase = [f \in Events |-> p],
                                    !.fetched = ~UsesSheet(mem.items[e])]
  BY DEF ReadDetail
<1>3. p \in Phases
  BY <1>1, <1>2, ShowsPhases DEF CollectionInv
<1> DEFINE fetched == ~UsesSheet(mem.items[e])
           phase == [f \in Events |-> p]
<1>4. fetched \in BOOLEAN /\ phase \in [Events -> Phases] /\ phase[e] = p
  BY <1>3
<1>5. cur' = [Nothing EXCEPT !.event = e, !.phase = phase, !.fetched = fetched]
  BY <1>2
<1> HIDE DEF fetched, phase
<1>6. cur' \in Reads /\ cur'.maps = {} /\ cur'.event = e /\ cur'.phase = phase
  BY <1>4, <1>5, NothingIsRead DEF Reads
<1>7. at' = "read" /\ UNCHANGED <<mem, saved, stats, tried>>
  BY DEF ReadDetail
<1>8. mem'.items[cur'.event].archived => cur'.phase[cur'.event] = Last
  BY <1>2, <1>4, <1>6, <1>7
<1>9. CurrentGood'
  BY <1>6, <1>7, <1>8 DEF CurrentGood
<1>. QED
  BY <1>7, <1>9 DEF CheckpointGood, CollectionInv

LEMMA NoteDetailKeeps ==
    ASSUME CollectionInv, NoteDetail
    PROVE  CheckpointGood'
<1> DEFINE e == cur.event
           p == cur.phase[e]
           i == mem.items[e]
           fetched == cur.fetched
           j == Noted(i, p, fetched)
           t == tried'
<1>1. /\ Sound(mem, tried, stats) /\ cur \in Reads /\ CurrentGood /\ e \in Events
      /\ tried \in [Events -> Phases]
  BY DEF NoteDetail, CollectionInv, CheckpointGood, CurrentGood
<1>2. i.archived => p = Last
  BY DEF NoteDetail, CollectionInv, CheckpointGood, CurrentGood
<1>3. /\ mem' = [mem EXCEPT !.items[e] = j] /\ saved' = mem' /\ at' = "feeds"
      /\ cur' = [cur EXCEPT !.todo = Pending(mem.items[e], p)]
      /\ t = [tried EXCEPT ![e] = p] /\ UNCHANGED stats
  BY DEF NoteDetail, Checkpoint
<1>4. p \in Phases /\ fetched \in BOOLEAN
  BY <1>1 DEF Reads
<1>5. ItemSound(i, tried[e], stats[e])
  BY <1>1 DEF Sound
<1> HIDE DEF fetched, i, p, t
<1>6. ItemSound(j, p, stats[e]) /\ j.event = p
  BY <1>2, <1>4, <1>5, ReadSound
<1> HIDE DEF j, e
<1>7. t \in [Events -> Phases] /\ t[e] = p /\ \A f \in Events : f # e => t[f] = tried[f]
  BY <1>1, <1>3, <1>4
<1>8. ItemSound(j, t[e], stats[e])
  BY <1>6, <1>7
<1>9. Sound(mem', t, stats) /\ mem'.items[e] = j
  <2> DEFINE n == [mem EXCEPT !.items[e] = j]
  <2>1. Sound(n, t, stats) /\ n.items[e] = j
    <3>1. e \in Events /\ Sound(mem, tried, stats)
      BY <1>1
    <3>2. \A f \in Events : f # e => t[f] = tried[f]
      BY <1>7
    <3>. QED
      BY <1>8, <3>1, <3>2, SoundAfter
  <2>. QED
    BY <1>3, <2>1
<1>10. Pending(mem.items[e], p) \subseteq Games
  BY DEF Pending
<1>11. /\ cur' \in Reads /\ cur'.event = e /\ cur'.phase = cur.phase /\ cur'.maps = cur.maps
  BY <1>1, <1>3, <1>10 DEF Reads, e
<1>12. CurrentGood'
  <2>1. \A g \in cur.maps : stats[e][g] # "none"
    BY <1>1 DEF CurrentGood, e
  <2>2. mem'.items[cur'.event].event = cur'.phase[cur'.event]
        /\ tried'[cur'.event] = cur'.phase[cur'.event]
    BY <1>6, <1>7, <1>9, <1>11 DEF p, t
  <2>. QED
    BY <1>1, <1>3, <1>11, <2>1, <2>2 DEF CurrentGood
<1>. QED
  BY <1>3, <1>7, <1>9, <1>12 DEF CheckpointGood, CollectionInv, t

\* One item changes, and no sheet is tried.
LEMMA SoundUpdate ==
    ASSUME NEW s, NEW tries, NEW published, Sound(s, tries, published),
           NEW e \in Events, NEW j, ItemSound(j, tries[e], published[e])
    PROVE  /\ Sound([s EXCEPT !.items[e] = j], tries, published)
           /\ [s EXCEPT !.items[e] = j].items[e] = j
BY SoundAfter

LEMMA SoundGrows ==
    ASSUME NEW s, NEW tries, NEW old, NEW new, Sound(s, tries, old),
           \A e \in Events : \A g \in Games : old[e][g] # "none" => new[e][g] # "none"
    PROVE  Sound(s, tries, new)
<1>1. ASSUME NEW e \in Events PROVE ItemSound(s.items[e], tries[e], new[e])
  <2>1. ItemSound(s.items[e], tries[e], old[e])
    BY DEF Sound
  <2>2. \A g \in s.items[e].acquired : g \in Games
    BY <2>1 DEF ItemSound, Item
  <2>3. \A g \in s.items[e].acquired : new[e][g] # "none"
    BY <2>1, <2>2 DEF ItemSound
  <2>. QED
    BY <2>1, <2>3 DEF ItemSound
<1>. QED
  BY <1>1 DEF Sound

LEMMA ReadFeedKeeps ==
    ASSUME CollectionInv, ReadFeed
    PROVE  CheckpointGood'
<1>1. /\ Sound(mem, tried, stats) /\ Sound(saved, tried, stats) /\ cur \in Reads /\ CurrentGood
      /\ at = "feeds" /\ cur.event \in Events /\ cur.todo \in SUBSET Games
      /\ cur.maps \in SUBSET Games
      /\ stats \in [Events -> [Games -> {"none", "stale", "final"}]]
      /\ UNCHANGED <<mem, saved, tried>>
  BY DEF ReadFeed, CollectionInv, CheckpointGood, CurrentGood, Reads
<1>2. PICK g \in cur.todo : \E frame \in Frames(cur.event, g) :
          IF frame = "UNSTARTED"
          THEN /\ cur' = [cur EXCEPT !.todo = @ \ {g}]
               /\ UNCHANGED <<at, stats>>
          ELSE LET over == Html(cur.phase[cur.event], g) = "COMPLETED"
               IN  /\ at' = "fed"
                   /\ cur' = [cur EXCEPT !.todo = @ \ {g}, !.map = g, !.frame = frame,
                                         !.maps = IF over THEN @ \cup {g} ELSE @]
                   /\ stats' = IF ~over THEN stats
                               ELSE [stats EXCEPT ![cur.event][g] =
                                        IF frame = "COMPLETED" THEN "final" ELSE "stale"]
  BY DEF ReadFeed
<1>3. PICK frame \in Frames(cur.event, g) :
          IF frame = "UNSTARTED"
          THEN /\ cur' = [cur EXCEPT !.todo = @ \ {g}]
               /\ UNCHANGED <<at, stats>>
          ELSE LET over == Html(cur.phase[cur.event], g) = "COMPLETED"
               IN  /\ at' = "fed"
                   /\ cur' = [cur EXCEPT !.todo = @ \ {g}, !.map = g, !.frame = frame,
                                         !.maps = IF over THEN @ \cup {g} ELSE @]
                   /\ stats' = IF ~over THEN stats
                               ELSE [stats EXCEPT ![cur.event][g] =
                                        IF frame = "COMPLETED" THEN "final" ELSE "stale"]
  BY <1>2
<1>4. /\ g \in Games /\ cur.todo \ {g} \in SUBSET Games
      /\ frame \in {"UNSTARTED", "STARTED", "COMPLETED"}
  BY <1>1, FramesAreKnown DEF CollectionInv
<1>5. CASE frame = "UNSTARTED"
  <2>1. cur' = [cur EXCEPT !.todo = @ \ {g}] /\ UNCHANGED <<at, stats>>
    BY <1>3, <1>5
  <2>2. /\ cur' \in Reads /\ cur'.event = cur.event /\ cur'.phase = cur.phase
        /\ cur'.maps = cur.maps
    BY <1>1, <1>4, <2>1 DEF Reads
  <2>3. CurrentGood'
    BY <1>1, <2>1, <2>2 DEF CurrentGood
  <2>. QED
    BY <1>1, <2>1, <2>3 DEF CheckpointGood, CollectionInv
<1>6. CASE frame # "UNSTARTED"
  <2> DEFINE over == Html(cur.phase[cur.event], g) = "COMPLETED"
             maps == IF over THEN cur.maps \cup {g} ELSE cur.maps
             seen == IF frame = "COMPLETED" THEN "final" ELSE "stale"
  <2>1. /\ at' = "fed"
        /\ cur' = [cur EXCEPT !.todo = @ \ {g}, !.map = g, !.frame = frame, !.maps = maps]
        /\ stats' = IF ~over THEN stats ELSE [stats EXCEPT ![cur.event][g] = seen]
    BY <1>3, <1>6
  <2>2. maps \in SUBSET Games /\ seen \in {"stale", "final"}
        /\ \A h \in maps : h \in cur.maps \/ (over /\ h = g)
    BY <1>1, <1>4
  <2> HIDE DEF over, maps, seen
  <2>3. /\ cur' \in Reads /\ cur'.event = cur.event /\ cur'.phase = cur.phase
        /\ cur'.maps = maps /\ cur'.map = g
    BY <1>1, <1>4, <2>1, <2>2 DEF Reads
  <2>4. /\ stats' \in [Events -> [Games -> {"none", "stale", "final"}]]
        /\ \A e \in Events : \A h \in Games : stats[e][h] # "none" => stats'[e][h] # "none"
        /\ over => stats'[cur.event][g] # "none"
    BY <1>1, <1>4, <2>1, <2>2
  <2>5. Sound(mem, tried, stats') /\ Sound(saved, tried, stats')
    BY <1>1, <2>4, SoundGrows
  <2>6. \A h \in maps : stats'[cur.event][h] # "none"
    BY <1>1, <2>2, <2>4 DEF CurrentGood
  <2>7. CurrentGood'
    BY <1>1, <1>4, <2>1, <2>3, <2>6 DEF CurrentGood
  <2>. QED
    BY <1>1, <2>1, <2>4, <2>5, <2>7 DEF CheckpointGood, CollectionInv
<1>. QED
  BY <1>5, <1>6

LEMMA NoteFeedKeeps ==
    ASSUME CollectionInv, NoteFeed
    PROVE  CheckpointGood'
<1> DEFINE e == cur.event
           i == mem.items[e]
           j == Fed(i)
<1>1. /\ Sound(mem, tried, stats) /\ cur \in Reads /\ CurrentGood /\ e \in Events
      /\ at = "fed" /\ cur.map \in Games /\ UNCHANGED <<cur, tried, stats>>
      /\ \A g \in cur.maps : stats[e][g] # "none"
  BY DEF NoteFeed, CollectionInv, CheckpointGood, CurrentGood
<1>2. mem' = [mem EXCEPT !.items[e] = j] /\ saved' = mem' /\ at' = "feeds"
  BY DEF NoteFeed, Checkpoint
<1>3. ItemSound(i, tried[e], stats[e])
  BY <1>1 DEF Sound
<1> HIDE DEF i
<1>4. ItemSound(j, tried[e], stats[e]) /\ j.event = i.event
  BY <1>1, <1>3, FedSound
<1> HIDE DEF j
<1>5. Sound(mem', tried, stats) /\ mem'.items[e] = j
  BY <1>1, <1>2, <1>4, SoundUpdate
<1>6. CurrentGood'
  BY <1>1, <1>2, <1>4, <1>5 DEF CurrentGood, i
<1>. QED
  BY <1>1, <1>2, <1>5, <1>6 DEF CheckpointGood, CollectionInv

\* The date of the match that was read is put off, or stays.
LEMMA DeferKeeps ==
    ASSUME CollectionInv, SessionFails \/ EndDetail
    PROVE  CheckpointGood'
<1> DEFINE e == cur.event
           i == mem.items[e]
<1>1. /\ Sound(mem, tried, stats) /\ cur \in Reads /\ CurrentGood /\ e \in Events
      /\ i.event = tried[e] /\ UNCHANGED <<tried, stats>> /\ at' = "choose" /\ saved' = mem'
  BY DEF SessionFails, EndDetail, CollectionInv, CheckpointGood, CurrentGood, Checkpoint
<1>2. ItemSound(i, tried[e], stats[e]) /\ i.due \in BOOLEAN /\ Same(i.event, tried[e])
  BY <1>1, SameIsEquality DEF Sound, ItemSound, Item
<1>3. cur' = cur \/ cur' = [cur EXCEPT !.todo = {}]
  BY DEF SessionFails, EndDetail
<1>4. cur' \in Reads /\ cur'.event = cur.event /\ cur'.maps = cur.maps
  BY <1>1, <1>3 DEF Reads
<1>5. CurrentGood'
  BY <1>1, <1>4 DEF CurrentGood
<1>6. PICK due \in BOOLEAN : mem' = [mem EXCEPT !.items[e] = [i EXCEPT !.due = due]]
  <2>1. CASE SessionFails
    <3>1. mem' = [mem EXCEPT !.items[e] = [i EXCEPT !.due = FALSE]]
      BY <2>1 DEF SessionFails
    <3>. QED
      BY <3>1
  <2>2. CASE EndDetail
    <3> DEFINE d == i.due /\ ~PutOff(cur.phase[cur.event], mem.items[cur.event].acquired)
    <3>1. mem' = [mem EXCEPT !.items[e] = [i EXCEPT !.due = d]]
      BY <2>2 DEF EndDetail
    <3>2. d \in BOOLEAN
      OBVIOUS
    <3>. QED
      BY <3>1, <3>2
  <2>. QED
    BY <2>1, <2>2
<1> DEFINE j == [i EXCEPT !.due = due]
<1>7. mem' = [mem EXCEPT !.items[e] = j]
  BY <1>6
<1> HIDE DEF i
<1>8. ItemSound(j, tried[e], stats[e])
  BY <1>2, PutOffSound
<1> HIDE DEF j
<1>9. Sound(mem', tried, stats)
  BY <1>1, <1>7, <1>8, SoundUpdate
<1>. QED
  BY <1>1, <1>5, <1>9 DEF CheckpointGood, CollectionInv

LEMMA FeedFailsKeeps ==
    ASSUME CollectionInv, FeedFails
    PROVE  CheckpointGood'
<1>1. PICK left \in {{}} \cup {cur.todo \ {g} : g \in cur.todo} :
          cur' = [cur EXCEPT !.todo = left]
  BY DEF FeedFails
<1>2. /\ cur \in Reads /\ CurrentGood /\ UNCHANGED <<at, mem, saved, tried, stats>>
  BY DEF FeedFails, CollectionInv, CheckpointGood, CurrentGood
<1>3. left \in SUBSET Games
  BY <1>1, <1>2 DEF Reads
<1>4. /\ cur' \in Reads /\ cur'.event = cur.event /\ cur'.phase = cur.phase
      /\ cur'.maps = cur.maps /\ cur'.map = cur.map
  BY <1>1, <1>2, <1>3 DEF Reads
<1>5. CurrentGood'
  BY <1>2, <1>4 DEF CurrentGood
<1>. QED
  BY <1>2, <1>5 DEF CheckpointGood, CollectionInv

LEMMA PageFailsKeeps ==
    ASSUME CollectionInv, PageFails
    PROVE  CheckpointGood'
<1>1. /\ Sound(mem, tried, stats) /\ CurrentGood /\ at' = "choose" /\ saved' = mem'
      /\ tried \in [Events -> Phases] /\ UNCHANGED <<cur, stats>>
  BY DEF PageFails, Checkpoint, CollectionInv, CheckpointGood
<1>2. CurrentGood'
  BY <1>1 DEF CurrentGood
<1>3. CASE mem' = [mem EXCEPT !.page = FALSE] /\ UNCHANGED tried
  <2>1. mem' \in States /\ mem'.items = mem.items
    BY <1>1, <1>3 DEF Sound, States
  <2>2. Sound(mem', tried, stats)
    BY <1>1, <2>1 DEF Sound
  <2>. QED
    BY <1>1, <1>2, <1>3, <2>2 DEF CheckpointGood, CollectionInv
<1>4. ASSUME NEW e \in Events, mem' = [mem EXCEPT !.items[e].due = FALSE],
             tried' = [tried EXCEPT ![e] = mem.items[e].event]
      PROVE  CheckpointGood'
  <2> DEFINE i == mem.items[e]
             j == [i EXCEPT !.due = FALSE]
             t == tried'
  <2>1. mem' = [mem EXCEPT !.items[e] = j] /\ t = [tried EXCEPT ![e] = i.event]
    BY <1>4
  <2>2. ItemSound(i, tried[e], stats[e]) /\ i.event \in Phases
    BY <1>1 DEF Sound, ItemSound, Item
  <2> HIDE DEF i, t
  <2>3. t \in [Events -> Phases] /\ t[e] = i.event /\ \A f \in Events : f # e => t[f] = tried[f]
    BY <1>1, <2>1, <2>2
  <2>4. ItemSound(j, t[e], stats[e])
    <3>1. Same(i.event, t[e])
      BY <2>3, SameIsEquality
    <3>. QED
      BY <2>2, <3>1, PutOffSound
  <2> HIDE DEF j
  <2> DEFINE n == [mem EXCEPT !.items[e] = j]
  <2>5. Sound(n, t, stats)
    BY <1>1, <2>3, <2>4, SoundAfter
  <2>. QED
    BY <1>1, <1>2, <2>1, <2>3, <2>5 DEF CheckpointGood, CollectionInv, t
<1>5. \/ mem' = [mem EXCEPT !.page = FALSE] /\ UNCHANGED tried
      \/ \E e \in Events : /\ mem' = [mem EXCEPT !.items[e].due = FALSE]
                           /\ tried' = [tried EXCEPT ![e] = mem.items[e].event]
  BY DEF PageFails, Live, Ended, Due
<1>. QED
  BY <1>3, <1>4, <1>5

\* What has elapsed for one item of a state makes it no less sound.
LEMMA PassedSound ==
    ASSUME NEW s, NEW tries, NEW published, Sound(s, tries, published), NEW e \in Events,
           NEW age
    PROVE  /\ Sound(Passed(s, e, age), tries, published)
           /\ \A f \in Events : /\ Passed(s, e, age).items[f].event = s.items[f].event
                                /\ Passed(s, e, age).items[f].archived = s.items[f].archived
<1> DEFINE j == Aged(s.items[e], age)
           n == [s EXCEPT !.items[e] = j]
<1>1. s \in States /\ ItemSound(s.items[e], tries[e], published[e])
  BY DEF Sound
<1>2. /\ ItemSound(j, tries[e], published[e])
      /\ j.event = s.items[e].event /\ j.archived = s.items[e].archived
  BY <1>1, AgedSound
<1> HIDE DEF j
<1>3. Sound(n, tries, published)
  BY <1>2, SoundUpdate
<1>4. \A f \in Events : n.items[f] = IF f = e THEN j ELSE s.items[f]
  BY <1>1 DEF States
<1>5. Passed(s, e, age) = n \/ Passed(s, e, age) = s
  BY DEF Passed, j
<1> HIDE DEF n
<1>6. \A f \in Events : /\ n.items[f].event = s.items[f].event
                        /\ n.items[f].archived = s.items[f].archived
  BY <1>2, <1>4
<1>7. CASE Passed(s, e, age) = n
  BY <1>3, <1>6, <1>7
<1>8. CASE Passed(s, e, age) = s
  BY <1>8
<1>. QED
  BY <1>5, <1>7, <1>8

LEMMA ElapseKeeps ==
    ASSUME CollectionInv, NEW e \in Events, NEW age, Elapse(e, age)
    PROVE  CheckpointGood'
<1>1. /\ Sound(mem, tried, stats) /\ Sound(saved, tried, stats) /\ CurrentGood
      /\ mem' = Passed(mem, e, age) /\ saved' = Passed(saved, e, age)
      /\ UNCHANGED <<at, cur, tried, stats>>
  BY DEF Elapse, CollectionInv, CheckpointGood
<1>2. Sound(mem', tried, stats) /\ Sound(saved', tried, stats)
  BY <1>1, PassedSound
<1>3. \A f \in Events : /\ mem'.items[f].event = mem.items[f].event
                        /\ mem'.items[f].archived = mem.items[f].archived
  BY <1>1, PassedSound
<1>4. CurrentGood'
  BY <1>1, <1>3 DEF CurrentGood
<1>. QED
  BY <1>1, <1>2, <1>4 DEF CheckpointGood, CollectionInv

LEMMA ListingElapsesKeeps ==
    ASSUME CollectionInv, ListingElapses
    PROVE  CheckpointGood'
<1>1. /\ Sound(mem, tried, stats) /\ Sound(saved, tried, stats) /\ CurrentGood
      /\ mem' = [mem EXCEPT !.page = TRUE] /\ saved' = [saved EXCEPT !.page = TRUE]
      /\ UNCHANGED <<at, cur, tried, stats>>
  BY DEF ListingElapses, CollectionInv, CheckpointGood
<1>2. /\ mem' \in States /\ mem'.items = mem.items
      /\ saved' \in States /\ saved'.items = saved.items
  BY <1>1 DEF Sound, States
<1>3. Sound(mem', tried, stats) /\ Sound(saved', tried, stats)
  BY <1>1, <1>2 DEF Sound
<1>4. CurrentGood'
  BY <1>1, <1>2 DEF CurrentGood
<1>. QED
  BY <1>1, <1>3, <1>4 DEF CheckpointGood, CollectionInv

LEMMA CheckpointStep ==
    ASSUME CollectionInv, [Next]_vars
    PROVE  CheckpointGood'
<1>1. CASE Begin
  BY <1>1, BeginKeeps
<1>2. CASE Reading
  BY <1>2, ReadListingKeeps, NoteListingKeeps, ReadDetailKeeps, NoteDetailKeeps,
     ReadFeedKeeps, NoteFeedKeeps, DeferKeeps DEF Reading
<1>3. CASE SessionFails \/ FeedFails \/ PageFails
  BY <1>3, DeferKeeps, FeedFailsKeeps, PageFailsKeeps
<1>4. CASE Refused \/ Crash \/ EndCycle
  <2>1. /\ saved' = mem \/ saved' = saved
        /\ at' = "idle" /\ UNCHANGED <<cur, mem, tried, stats>>
    BY <1>4 DEF Refused, Crash, EndCycle
  <2>2. CurrentGood'
    BY <2>1 DEF CurrentGood, CollectionInv, CheckpointGood
  <2>. QED
    BY <2>1, <2>2 DEF CheckpointGood, CollectionInv
<1>5. CASE \E e \in Events : Move(e) \/ Time(e)
  <2>1. CASE \E e \in Events : Move(e)
    <3>1. UNCHANGED <<at, cur, mem, saved, tried, stats>>
      BY <2>1 DEF Move
    <3>. QED
      BY <3>1 DEF CurrentGood, CollectionInv, CheckpointGood
  <2>. QED
    BY <1>5, <2>1, ElapseKeeps DEF Time
<1>6. CASE Calm \/ UNCHANGED vars
  <2>1. UNCHANGED <<at, cur, mem, saved, tried, stats>>
    BY <1>6 DEF Calm, vars
  <2>. QED
    BY <2>1 DEF CurrentGood, CollectionInv, CheckpointGood
<1>7. CASE ListingElapses
  BY <1>7, ListingElapsesKeeps
<1>. QED
  BY <1>1, <1>2, <1>3, <1>4, <1>5, <1>6, <1>7 DEF Next, Failing

-----------------------------------------------------------------------------
(* The checkpoint.                                                          *)

\* The items of memory and of the checkpoint are sound after any step, failure or crash.
THEOREM CollectionKeepsInvariant == Spec => []CollectionInv
<1>1. Init => CollectionInv
  BY CollectionInvInit
<1>2. CollectionInv /\ [Next]_vars => CollectionInv'
  BY SourceStep, CheckpointStep DEF CollectionInv
<1>. QED
  BY <1>1, <1>2, PTL DEF Spec

\* Wherever a cycle was interrupted, the next one reads again every match that has changed
\* since its sheet was tried, and leaves out no map that was not published.
THEOREM CheckpointCorrect == Spec => []CheckpointIsSound
<1>1. CollectionInv => CheckpointIsSound
  <2> SUFFICES ASSUME CollectionInv PROVE CheckpointIsSound
    OBVIOUS
  <2>1. \A s \in {mem, saved} : \A e \in Events : ItemSound(s.items[e], tried[e], stats[e])
    BY DEF CollectionInv, CheckpointGood, Sound
  <2>2. TypeOK
    <3>1. mem.items \in [Events -> Item] /\ saved.items \in [Events -> Item]
      BY DEF CollectionInv, CheckpointGood, Sound, States
    <3>2. \A e \in Events : mem.items[e].archived => mem.items[e].event = Last
      BY <2>1 DEF ItemSound
    <3>. QED
      BY <3>1, <3>2 DEF TypeOK, CollectionInv, CheckpointGood, SourceGood
  <2>3. ChangedMatchIsDue
    <3>1. ASSUME NEW e \in Events, NEW s \in {mem, saved},
                 Status(s.items[e].event) \in {"live", "finished"},
                 ~Same(s.items[e].event, tried[e])
          PROVE  s.items[e].due
      BY <2>1, <3>1 DEF ItemSound
    <3>. QED
      BY <3>1 DEF ChangedMatchIsDue
  <2>4. AcquiredIsPublished
    BY <2>1 DEF AcquiredIsPublished, ItemSound
  <2>. QED
    BY <2>2, <2>3, <2>4 DEF CheckpointIsSound
<1>. QED
  BY <1>1, CollectionKeepsInvariant, PTL
=============================================================================
