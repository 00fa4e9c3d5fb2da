------------------------------ MODULE MatchRecords ------------------------------
(***************************************************************************)
(* The records of teams, competitions and matches that several sources     *)
(* write: the readings of LoLTV (loltv_publication.py, with the names that *)
(* matching.py compares), the collection of Riot's catalog                 *)
(* (catalog_sync.py), which reads what is known long before it publishes,  *)
(* and the import command (core/catalog.py, cli.py).                       *)
(*                                                                         *)
(* Names are normalised and without their generic words; a name holds its  *)
(* qualifiers, so that an academy never bears the name of its club.        *)
(***************************************************************************)
EXTENDS Integers, FiniteSets

CONSTANTS
    Events,      \* matches of LoLTV
    Readings,    \* [Events -> sets of what LoLTV may say of them]
    Competitions,\* its tournaments
    Brand,       \* [Competitions -> the league of the catalog it belongs to]
    Exact,       \* the competitions that have the name of their brand
    Official,    \* teams of Riot's catalog
    RiotName,    \* [Official -> names]
    HomeLeague,  \* [Official -> leagues]
    OldTeams,    \* the teams known at first
    OldMatches,  \* [matches of an older collector -> what is known of them]
    Tolerance,   \* TIME_TOLERANCE
    MaxReadings, MaxCatalogs \* bounds

VARIABLES
    teams,   \* teams: their league, the names they bear and their LoLTV identifiers
    leagues, \* leagues
    parent,  \* parentLeagueId of the competitions
    match,   \* esport_matches
    linked,  \* match_source_links of LoLTV
    score,   \* the score in the last LoLTV snapshot of each match
    stats,   \* the finished maps last seen in the LoLTV snapshots of each match
    job,     \* what a collection of the catalog has read before the network
    active,  \* the teams discovered by the active version of the catalog
    shown,   \* history: the last reading of each event
    readings, catalogs

recordVars == <<teams, leagues, parent, match, linked, score, stats, job, active, shown,
                readings, catalogs>>

-----------------------------------------------------------------------------
Said == UNION {Readings[e] : e \in Events}
Ids  == UNION {{r.home.id, r.away.id} : r \in Said}  \* LoLTV identifiers of teams
Names == {RiotName[t] : t \in Official} \cup UNION {{r.home.name, r.away.name} : r \in Said}

\* A team that LoLTV has shown first has its identifier as key, a competition likewise.
Teams   == Official \cup Ids
Leagues == {HomeLeague[t] : t \in Official} \cup Competitions
Matches == Events \cup DOMAIN OldMatches

None     == "none"

\* Two teams of a reading have two identifiers (sources/loltv.py), and what was known at
\* first is a match between two teams of the catalog.
ASSUME RecordsAssumption ==
    /\ IsFiniteSet(Teams) /\ IsFiniteSet(Matches)
    /\ Official \cap Ids = {} /\ OldTeams \subseteq Official
    /\ None \notin Teams \cup Leagues \cup Matches
    /\ DOMAIN OldMatches \cap Events = {}
    /\ \A m \in DOMAIN OldMatches :
          /\ OldMatches[m] \in [home : OldTeams, away : OldTeams, start : Int,
                                league : {HomeLeague[t] : t \in OldTeams}]
          /\ OldMatches[m].home # OldMatches[m].away
    /\ \A r \in Said : /\ r.home.id # r.away.id
                       /\ r.competition \in Competitions /\ r.start \in Int
    /\ MaxReadings \in Nat /\ MaxCatalogs \in Nat

NoTeam   == [names |-> {}, ids |-> {}, league |-> None]
NoMatch  == [home |-> None, away |-> None, start |-> 0, league |-> None]
NoRead   == [home |-> [id |-> None, name |-> None], away |-> [id |-> None, name |-> None],
             start |-> 0, competition |-> None, score |-> <<>>, maps |-> {}]
Idle     == [busy |-> FALSE, teams |-> [t \in Teams |-> NoTeam], leagues |-> {}]

Present(ts) == {t \in Teams : ts[t].names # {}}
Known       == {m \in Matches : match[m].home # None}

RecordsOK ==
    /\ teams \in [Teams -> [names : SUBSET Names, ids : SUBSET Ids, league : Leagues \cup {None}]]
    /\ leagues \subseteq Leagues /\ parent \in [Competitions -> Leagues \cup {None}]
    /\ \A t \in Present(teams) : teams[t].league \in leagues
    /\ \A m \in Known : /\ {match[m].home, match[m].away} \subseteq Present(teams)
                        /\ match[m].home # match[m].away /\ match[m].league \in leagues
    /\ \A e \in Events : linked[e] # None => linked[e] \in Known
    /\ active \subseteq Official
    /\ readings \in 0 .. MaxReadings /\ catalogs \in 0 .. MaxCatalogs

-----------------------------------------------------------------------------
(* Names and identifiers.                                                   *)

\* resolve_team: the only team that bears the name.
Resolve(ts, name, among) ==
    LET bearing == {t \in among : name \in ts[t].names}
    IN  IF Cardinality(bearing) = 1 THEN CHOOSE t \in bearing : TRUE ELSE None

Holders(ts, id) == {t \in Teams : id \in ts[t].ids}

\* Another identifier of the same source is another team, whatever its name.
Available(ts) == {t \in Present(ts) : ts[t].ids = {}}

Namesake(ts, name, league) ==
    LET available == Available(ts)
        nearby == Resolve(ts, name, {t \in available : ts[t].league = league})
    IN  IF nearby # None THEN nearby ELSE Resolve(ts, name, available)

\* _ensure_team: by identifier, by name, or a team of its own.
TeamFor(ts, p, league) ==
    LET holders == Holders(ts, p.id)
        namesake == Namesake(ts, p.name, league)
    IN  IF holders # {} THEN CHOOSE t \in holders : TRUE
        ELSE IF namesake # None THEN namesake ELSE p.id

\* _remember_team_identity, or a team created in the competition.
Ensured(ts, p, league) ==
    [ts EXCEPT ![TeamFor(ts, p, league)] =
        [names |-> @.names \cup {p.name}, ids |-> @.ids \cup {p.id},
         league |-> IF @.names = {} THEN league ELSE @.league]]

\* _ensure_competition: the league of the catalog when it has the same name, else a stage
\* of its own under the brand it is known by.
BrandOf(c) == IF Brand[c] \in leagues THEN Brand[c] ELSE None
LeagueOf(c) == IF c \in Exact /\ BrandOf(c) # None THEN BrandOf(c) ELSE c

-----------------------------------------------------------------------------
(* _publish_events, of one event.                                           *)

Near(a, b) == a - b <= Tolerance /\ b - a <= Tolerance

\* The leagues whose name agrees with a competition.
Alike(c, ls) == ls \cap ({c} \cup (IF c \in Exact THEN {Brand[c]} ELSE {}))

\* Mutated form: a match of another source may be taken twice.
Untaken(m) == m \notin Events

\* Matches of another source that no LoLTV event is linked to.
Free(m) == m \notin Events /\ \A e \in Events : linked[e] # m

\* resolve_match: the same two teams by name, in the only competition that agrees.
SameFixture(m, r, ts, ls) ==
    LET home == Resolve(ts, r.home.name, Present(ts))
        away == Resolve(ts, r.away.name, Present(ts))
    IN  /\ None \notin {home, away} /\ home # away
        /\ {match[m].home, match[m].away} = {home, away}
        /\ Alike(r.competition, ls) = {match[m].league} /\ Near(match[m].start, r.start)

MatchFor(e, r, ts, ls) ==
    LET same == {m \in Known : Free(m) /\ SameFixture(m, r, ts, ls)}
    IN  IF linked[e] # None THEN linked[e]
        ELSE IF Cardinality(same) = 1 THEN CHOOSE m \in same : TRUE ELSE e

\* Mutated form: the score stays in the order of the source.
InOrderOfSource(pair, reversed) == pair

InOrder(pair, reversed) == IF reversed /\ pair # <<>> THEN <<pair[2], pair[1]>> ELSE pair

\* The finished maps of a reading, with the key of the winner.
Played(r, home, away) ==
    {[number |-> g.number, winner |-> IF g.winner = "home" THEN home ELSE away, stat |-> g.stat] :
        g \in r.maps}

\* _save_event
Publish(e, r) ==
    LET league == LeagueOf(r.competition)
        one    == Ensured(teams, r.home, league)
        two    == Ensured(one, r.away, league)
        home   == TeamFor(teams, r.home, league)
        away   == TeamFor(one, r.away, league)
        ls     == leagues \cup {league}
        m      == MatchFor(e, r, two, ls)
        reversed == match[m].home = away /\ match[m].away = home
        played == Played(r, home, away)
    IN  /\ readings < MaxReadings /\ readings' = readings + 1
        /\ teams' = two /\ leagues' = ls
        /\ parent' = IF league = r.competition /\ BrandOf(league) # None
                     THEN [parent EXCEPT ![league] = BrandOf(league)] ELSE parent
        /\ match' = [match EXCEPT ![m] =
                        [home |-> IF reversed THEN @.home ELSE home,
                         away |-> IF reversed THEN @.away ELSE away,
                         start |-> r.start, league |-> league]]
        /\ linked' = [linked EXCEPT ![e] = m]
        /\ score' = [score EXCEPT ![m] = InOrder(r.score, reversed)]
        /\ stats' = [stats EXCEPT ![m] =
                        played \cup {g \in @ : \A h \in played : h.number # g.number}]
        /\ shown' = [shown EXCEPT ![e] = r]
        /\ UNCHANGED <<job, active, catalogs>>

-----------------------------------------------------------------------------
(* sync_catalog and the import command.                                     *)

\* discover_catalog: Riot's pages may show any teams, but some.
Discovered == (SUBSET Official) \ {{}}

\* What is known is read, then the network is.
ReadCatalog ==
    /\ ~job.busy /\ catalogs < MaxCatalogs /\ catalogs' = catalogs + 1
    /\ job' = [busy |-> TRUE, teams |-> teams, leagues |-> leagues]
    /\ UNCHANGED <<teams, leagues, parent, match, linked, score, stats, active, shown, readings>>

\* A collection that loses a fifth of the leagues or of the teams is refused.
Covered(riot) ==
    LET home(ts) == {HomeLeague[t] : t \in ts}
    IN  /\ 5 * Cardinality(riot) >= 4 * Cardinality(active)
        /\ 5 * Cardinality(home(riot)) >= 4 * Cardinality(home(active))

\* retain_known_identities
Retained(t, riot, ls) == t \notin riot /\ t \in Present(job.teams) /\ job.teams[t].league \in ls

\* Mutated form: what LoLTV has told of a team is what it was before the network.
PrivateAsRead(t) == IF t \in Present(job.teams) THEN job.teams[t] ELSE teams[t]

\* aliases and sourceIds stay those of the row.
Private(t) == teams[t]

Merged(ls) == leagues \cup ls

\* import_catalog
Import(riot, retained, ls) ==
    /\ leagues' = Merged(ls)
    /\ teams' = [t \in Teams |->
          IF t \in riot
          THEN [Private(t) EXCEPT !.names = @ \cup {RiotName[t]}, !.league = HomeLeague[t]]
          ELSE IF t \in retained THEN [Private(t) EXCEPT !.league = job.teams[t].league]
          ELSE teams[t]]
    /\ UNCHANGED <<parent, match, linked, score, stats, shown, readings>>

PublishCatalog ==
    /\ job.busy /\ job' = Idle
    /\ \E riot \in Discovered :
          LET ls == job.leagues \cup {HomeLeague[t] : t \in riot}
          IN  /\ Covered(riot)
              /\ Import(riot, {t \in Teams : Retained(t, riot, ls)}, ls)
              /\ active' = riot
    /\ UNCHANGED catalogs

\* A page, a format, the coverage or the database has failed, or the process is killed.
CatalogFails ==
    /\ job.busy /\ job' = Idle
    /\ UNCHANGED <<teams, leagues, parent, match, linked, score, stats, active, shown, readings,
                   catalogs>>

\* catalog-import, refused during a collection; no version is active after it.
ImportCommand ==
    /\ ~job.busy /\ catalogs < MaxCatalogs /\ catalogs' = catalogs + 1
    /\ \E riot \in Discovered : Import(riot, {}, {HomeLeague[t] : t \in riot})
    /\ active' = {}
    /\ UNCHANGED job

-----------------------------------------------------------------------------
RecordsInit ==
    /\ teams = [t \in Teams |-> IF t \in OldTeams
                  THEN [names |-> {RiotName[t]}, ids |-> {}, league |-> HomeLeague[t]] ELSE NoTeam]
    /\ leagues = {HomeLeague[t] : t \in OldTeams}
    /\ parent = [c \in Competitions |-> None]
    /\ match = [m \in Matches |-> IF m \in DOMAIN OldMatches THEN OldMatches[m] ELSE NoMatch]
    /\ linked = [e \in Events |-> None]
    /\ score = [m \in Matches |-> <<>>] /\ stats = [m \in Matches |-> {}]
    /\ job = Idle /\ active = {} /\ shown = [e \in Events |-> NoRead]
    /\ readings = 0 /\ catalogs = 0

PublishEvents == \E e \in Events : \E r \in Readings[e] : Publish(e, r)

SyncCatalog == ReadCatalog \/ PublishCatalog \/ CatalogFails \/ ImportCommand

RecordsNext == PublishEvents \/ SyncCatalog

-----------------------------------------------------------------------------
(* Properties.                                                              *)

\* Two identifiers of LoLTV are two teams, even when they have one name.
IdsNeverShareTeam == \A t \in Teams : Cardinality(teams[t].ids) <= 1

\* Two events of LoLTV are two matches, even when they show the same teams on one day.
EventsNeverShareMatch ==
    \A e, f \in Events : e # f /\ linked[e] = linked[f] => linked[e] = None

\* Nothing merges what LoLTV keeps apart by its identifiers.
IdentitiesAreDistinct == IdsNeverShareTeam /\ EventsNeverShareMatch

\* The score of a match belongs to its two teams as the source gave it to them, although
\* an order of the teams that is known already is kept.
ScoreFollowsTeams ==
    \A e \in Events : linked[e] # None =>
        LET m == match[linked[e]]
            r == shown[e]
            i == IF r.home.id \in teams[m.home].ids THEN 1 ELSE 2
        IN  /\ r.home.id \in teams[IF i = 1 THEN m.home ELSE m.away].ids
            /\ r.away.id \in teams[IF i = 1 THEN m.away ELSE m.home].ids
            /\ r.score # <<>> =>
                  score[linked[e]][i] = r.score[1] /\ score[linked[e]][3 - i] = r.score[2]

\* The team an identifier has been recognised as is the same ever after, whatever the
\* catalog brings or retains meanwhile, and the teams of a match change only when LoLTV
\* names other identifiers for it: a match of another source is taken over with its teams.
TeamsNeverMove ==
    [][/\ \A id \in Ids : Holders(teams, id) # {} => Holders(teams', id) = Holders(teams, id)
       /\ \A m \in Known : {match'[m].home, match'[m].away} # {match[m].home, match[m].away} =>
             \E e \in Events :
                 /\ linked[e] = m
                 /\ {shown'[e].home.id, shown'[e].away.id}
                        # {shown[e].home.id, shown[e].away.id}]_recordVars
=============================================================================
