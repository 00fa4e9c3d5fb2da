--------------------------- MODULE OracleDataProofs ---------------------------
(***************************************************************************)
(* Theorems about MatchRecords and OracleData, for every set of events,    *)
(* teams, readings and exports and any number of steps: nothing merges     *)
(* what LoLTV keeps apart, a score stays with its teams, the teams of a    *)
(* match do not move, what is active comes from whole imports, and a game  *)
(* goes to one match.                                                      *)
(***************************************************************************)
EXTENDS OracleData, FiniteSetTheorems, TLAPS

TeamRow  == [names : SUBSET Names, ids : SUBSET Ids, league : Leagues \cup {None}]
MatchRow == [home : Teams \cup {None}, away : Teams \cup {None}, start : Int,
             league : Leagues \cup {None}]

\* No team has two identifiers and no identifier two teams; a team that has the key of an
\* identifier was created for it; a team that has an identifier has a name.
TeamsGood(ts) ==
    /\ ts \in [Teams -> TeamRow]
    /\ \A t \in Teams : \A x, y \in ts[t].ids : x = y
    /\ \A t, u \in Teams : \A x \in ts[t].ids : x \in ts[u].ids => t = u
    /\ \A x \in Ids : ts[x].names # {} => x \in ts[x].ids
    /\ \A t \in Teams : ts[t].ids # {} => ts[t].names # {}

-----------------------------------------------------------------------------
(* The operators on teams.                                                  *)

LEMMA OneElement ==
    ASSUME NEW S, IsFiniteSet(S), Cardinality(S) = 1
    PROVE  (CHOOSE t \in S : TRUE) \in S /\ \A t \in S : t = CHOOSE u \in S : TRUE
<1>1. PICK x : S = {x}
  BY FS_Singleton
<1>2. (CHOOSE t \in S : TRUE) \in S
  BY <1>1, Zenon
<1>. QED
  BY <1>1, <1>2

LEMMA IdsAreTeams == Ids \subseteq Teams /\ Official \subseteq Teams
BY DEF Teams

\* resolve_team answers with the only bearer.
LEMMA ResolveFinds ==
    ASSUME NEW ts, NEW name, NEW among \in SUBSET Teams, Resolve(ts, name, among) # None
    PROVE  /\ Resolve(ts, name, among) \in among
           /\ \A t \in among : name \in ts[t].names => t = Resolve(ts, name, among)
<1> DEFINE bearing == {t \in among : name \in ts[t].names}
<1>1. IsFiniteSet(bearing)
  BY RecordsAssumption, FS_Subset
<1>2. Cardinality(bearing) = 1 /\ Resolve(ts, name, among) = CHOOSE t \in bearing : TRUE
  BY Zenon DEF Resolve
<1>3. /\ (CHOOSE t \in bearing : TRUE) \in bearing
      /\ \A t \in bearing : t = CHOOSE u \in bearing : TRUE
  BY <1>1, <1>2, OneElement
<1>. QED
  BY <1>2, <1>3, Zenon

\* The team of a reading has its identifier already, or neither it nor any team has one.
LEMMA TeamForIsSound ==
    ASSUME NEW ts, TeamsGood(ts), NEW p, p.id \in Ids, NEW league
    PROVE  /\ TeamFor(ts, p, league) \in Teams
           /\ \/ p.id \in ts[TeamFor(ts, p, league)].ids
              \/ Holders(ts, p.id) = {} /\ ts[TeamFor(ts, p, league)].ids = {}
           /\ TeamFor(ts, p, league) = p.id \/ ts[TeamFor(ts, p, league)].names # {}
<1>1. CASE Holders(ts, p.id) # {}
  <2>1. TeamFor(ts, p, league) = CHOOSE t \in Holders(ts, p.id) : TRUE
    BY <1>1, Zenon DEF TeamFor
  <2>2. (CHOOSE t \in Holders(ts, p.id) : TRUE) \in Holders(ts, p.id)
    BY <1>1, Zenon
  <2>. QED
    BY <2>1, <2>2 DEF Holders, TeamsGood
<1>2. CASE Holders(ts, p.id) = {} /\ Namesake(ts, p.name, league) # None
  <2>1. TeamFor(ts, p, league) = Namesake(ts, p.name, league)
    BY <1>2, Zenon DEF TeamFor
  <2>2. Available(ts) \in SUBSET Teams
    BY DEF Available, Present
  <2> DEFINE nearby == {t \in Available(ts) : ts[t].league = league}
  <2>3. nearby \in SUBSET Teams
    BY <2>2
  <2>4. \/ Namesake(ts, p.name, league) = Resolve(ts, p.name, nearby)
        \/ Namesake(ts, p.name, league) = Resolve(ts, p.name, Available(ts))
    BY Zenon DEF Namesake
  <2>5. Namesake(ts, p.name, league) \in Available(ts)
    BY <1>2, <2>2, <2>3, <2>4, ResolveFinds
  <2>. QED
    BY <1>2, <2>1, <2>2, <2>5 DEF Available, Present
<1>3. CASE Holders(ts, p.id) = {} /\ Namesake(ts, p.name, league) = None
  <2>1. TeamFor(ts, p, league) = p.id
    BY <1>3, Zenon DEF TeamFor
  <2>2. ts[p.id].ids = {}
    BY <1>3, IdsAreTeams DEF TeamsGood, Holders
  <2>. QED
    BY <1>3, <2>1, <2>2, IdsAreTeams
<1>. QED
  BY <1>1, <1>2, <1>3

\* A reading teaches its team a name and, at most once, an identifier.
LEMMA EnsuredIsSound ==
    ASSUME NEW ts, TeamsGood(ts), NEW p, p.id \in Ids, p.name \in Names,
           NEW league \in Leagues
    PROVE  LET t  == TeamFor(ts, p, league)
               us == Ensured(ts, p, league)
           IN  /\ TeamsGood(us)
               /\ t \in Teams /\ p.id \in us[t].ids /\ p.name \in us[t].names
               /\ us[t].league = IF ts[t].names = {} THEN league ELSE ts[t].league
               /\ \A u \in Teams : /\ ts[u].ids \subseteq us[u].ids
                                   /\ ts[u].names \subseteq us[u].names
                                   /\ u # t => us[u] = ts[u]
<1> DEFINE t == TeamFor(ts, p, league)
           us == Ensured(ts, p, league)
<1>1. /\ t \in Teams /\ (p.id \in ts[t].ids \/ (Holders(ts, p.id) = {} /\ ts[t].ids = {}))
      /\ t = p.id \/ ts[t].names # {}
  BY TeamForIsSound
<1>2. ts \in [Teams -> TeamRow]
  BY DEF TeamsGood
<1>3. us = [ts EXCEPT ![t] = [names |-> ts[t].names \cup {p.name}, ids |-> ts[t].ids \cup {p.id},
                league |-> IF ts[t].names = {} THEN league ELSE ts[t].league]]
  BY DEF Ensured
<1> HIDE DEF t, us
<1>4. /\ \A u \in Teams : u # t => us[u] = ts[u]
      /\ us[t].names = ts[t].names \cup {p.name} /\ us[t].ids = ts[t].ids \cup {p.id}
      /\ us[t].league = IF ts[t].names = {} THEN league ELSE ts[t].league
  BY <1>1, <1>2, <1>3
<1>5. us \in [Teams -> TeamRow]
  BY <1>1, <1>2, <1>3 DEF TeamRow
<1>6. \A u \in Teams : \A x, y \in us[u].ids : x = y
  BY <1>1, <1>4 DEF TeamsGood
<1>7. \A u, v \in Teams : \A x \in us[u].ids : x \in us[v].ids => u = v
  BY <1>1, <1>4 DEF TeamsGood, Holders
<1>8. \A x \in Ids : us[x].names # {} => x \in us[x].ids
  <2> SUFFICES ASSUME NEW x \in Ids, us[x].names # {} PROVE x \in us[x].ids
    OBVIOUS
  <2>1. x \in Teams
    BY IdsAreTeams
  <2>2. CASE x # t
    BY <1>4, <2>1, <2>2 DEF TeamsGood
  <2>3. CASE x = t /\ ts[t].names # {}
    BY <1>4, <2>3 DEF TeamsGood
  <2>4. CASE x = t /\ ts[t].names = {}
    BY <1>1, <1>4, <2>4
  <2>. QED
    BY <2>2, <2>3, <2>4
<1>9. \A u \in Teams : us[u].ids # {} => us[u].names # {}
  BY <1>1, <1>4 DEF TeamsGood
<1>10. TeamsGood(us)
  BY <1>5, <1>6, <1>7, <1>8, <1>9 DEF TeamsGood
<1>. QED
  BY <1>1, <1>4, <1>10 DEF t, us

-----------------------------------------------------------------------------
(* The inductive invariant of the records.                                  *)

LeaguesGood ==
    /\ leagues \subseteq Leagues /\ job.leagues \subseteq Leagues
    /\ parent \in [Competitions -> Leagues \cup {None}]
    /\ \A t \in Present(teams) : teams[t].league \in leagues

\* A match that is known is one between two teams that have a name.
MatchesGood ==
    /\ match \in [Matches -> MatchRow]
    /\ \A m \in Known : /\ {match[m].home, match[m].away} \subseteq Present(teams)
                        /\ match[m].home # match[m].away /\ match[m].league \in leagues

\* A match has one event; the match that was created for an event is the one of that event.
LinksGood ==
    /\ linked \in [Events -> Matches \cup {None}] /\ DOMAIN shown = Events
    /\ \A e \in Events : linked[e] # None => linked[e] \in Known /\ shown[e] \in Said
    /\ \A e, f \in Events : linked[e] = linked[f] /\ linked[e] # None => e = f
    /\ \A e, f \in Events : linked[e] = f => e = f
    /\ \A e \in Events : e \in Known => linked[e] = e

\* The two teams a reading names are those of the match, in one order or in the other, and
\* so is the score.
InOneOrder(r, m, s, ts) ==
    \/ /\ r.home.id \in ts[m.home].ids /\ r.away.id \in ts[m.away].ids
       /\ r.score # <<>> => s[1] = r.score[1] /\ s[2] = r.score[2]
    \/ /\ r.home.id \in ts[m.away].ids /\ r.away.id \in ts[m.home].ids
       /\ r.score # <<>> => s[1] = r.score[2] /\ s[2] = r.score[1]

ScoresGood ==
    /\ DOMAIN score = Matches
    /\ \A e \in Events : linked[e] # None =>
          InOneOrder(shown[e], match[linked[e]], score[linked[e]], teams)

BoundsGood ==
    active \subseteq Official /\ readings \in 0 .. MaxReadings /\ catalogs \in 0 .. MaxCatalogs

RecordsInv == /\ TeamsGood(teams) /\ LeaguesGood /\ MatchesGood /\ LinksGood /\ ScoresGood
              /\ BoundsGood

LEMMA RecordsInvInit == RecordsInit => RecordsInv
<1>. SUFFICES ASSUME RecordsInit PROVE RecordsInv
  OBVIOUS
<1>1. /\ teams = [t \in Teams |-> IF t \in OldTeams
             THEN [names |-> {RiotName[t]}, ids |-> {}, league |-> HomeLeague[t]] ELSE NoTeam]
      /\ leagues = {HomeLeague[t] : t \in OldTeams}
      /\ parent = [c \in Competitions |-> None]
      /\ match = [m \in Matches |-> IF m \in DOMAIN OldMatches THEN OldMatches[m] ELSE NoMatch]
      /\ linked = [e \in Events |-> None] /\ shown = [e \in Events |-> NoRead]
      /\ score = [m \in Matches |-> <<>>] /\ job = Idle /\ active = {}
      /\ readings = 0 /\ catalogs = 0
  BY DEF RecordsInit
<1>2. /\ OldTeams \subseteq Official /\ OldTeams \subseteq Teams /\ OldTeams \cap Ids = {}
      /\ None \notin Teams /\ None \notin Matches
      /\ leagues \subseteq Leagues
      /\ \A t \in OldTeams : RiotName[t] \in Names /\ HomeLeague[t] \in Leagues
  BY <1>1, RecordsAssumption, IdsAreTeams DEF Leagues, Names
<1>3. teams \in [Teams -> TeamRow]
  BY <1>1, <1>2 DEF TeamRow, NoTeam
<1>4. /\ \A t \in Teams : teams[t].ids = {}
      /\ \A t \in Teams : teams[t].names = IF t \in OldTeams THEN {RiotName[t]} ELSE {}
      /\ \A t \in OldTeams : teams[t].league = HomeLeague[t]
  BY <1>1, <1>2 DEF NoTeam
<1>5. TeamsGood(teams)
  BY <1>2, <1>3, <1>4, IdsAreTeams DEF TeamsGood
<1>6. Present(teams) = OldTeams
  BY <1>2, <1>4 DEF Present
<1>7. LeaguesGood
  BY <1>1, <1>2, <1>4, <1>6 DEF LeaguesGood, Idle
<1>8. \A m \in DOMAIN OldMatches :
         /\ m \in Matches /\ m \notin Events /\ match[m] = OldMatches[m]
         /\ match[m].home \in OldTeams /\ match[m].away \in OldTeams
         /\ match[m].league \in leagues /\ match[m].start \in Int
         /\ match[m].home # match[m].away /\ match[m] \in MatchRow
  BY <1>1, <1>2, RecordsAssumption DEF Matches, MatchRow
<1>9. \A m \in Matches \ DOMAIN OldMatches : match[m] = NoMatch
  BY <1>1
<1>10. NoMatch \in MatchRow /\ NoMatch.home = None
  BY DEF NoMatch, MatchRow
<1>11. match \in [Matches -> MatchRow] /\ Known = DOMAIN OldMatches
  <2>1. \A m \in Matches : match[m] \in MatchRow
    BY <1>8, <1>9, <1>10
  <2>2. match \in [Matches -> MatchRow]
    BY <1>1, <2>1
  <2>3. Known = DOMAIN OldMatches
    BY <1>2, <1>8, <1>9, <1>10 DEF Known
  <2>. QED
    BY <2>2, <2>3
<1>12. MatchesGood
  BY <1>6, <1>8, <1>11 DEF MatchesGood
<1>13. LinksGood
  <2>1. \A e \in Events : e \in Matches /\ e \notin Known
    BY <1>8, <1>11 DEF Matches
  <2>. QED
    BY <1>1, <1>2, <2>1 DEF LinksGood
<1>14. ScoresGood /\ BoundsGood
  BY <1>1, RecordsAssumption DEF ScoresGood, BoundsGood
<1>. QED
  BY <1>5, <1>7, <1>12, <1>13, <1>14 DEF RecordsInv

-----------------------------------------------------------------------------
(* The publication of a reading.                                            *)

PubLeague(r)   == LeagueOf(r.competition)
PubOne(r)      == Ensured(teams, r.home, PubLeague(r))
PubTwo(r)      == Ensured(PubOne(r), r.away, PubLeague(r))
PubHome(r)     == TeamFor(teams, r.home, PubLeague(r))
PubAway(r)     == TeamFor(PubOne(r), r.away, PubLeague(r))
PubLeagues(r)  == leagues \cup {PubLeague(r)}
PubMatch(e, r) == MatchFor(e, r, PubTwo(r), PubLeagues(r))
Reversed(e, r) == match[PubMatch(e, r)].home = PubAway(r) /\ match[PubMatch(e, r)].away = PubHome(r)

LEMMA SaidIsTyped ==
    ASSUME NEW r \in Said
    PROVE  /\ r.home.id \in Ids /\ r.away.id \in Ids /\ r.home.id # r.away.id
           /\ r.home.name \in Names /\ r.away.name \in Names
           /\ r.competition \in Competitions /\ r.start \in Int
BY RecordsAssumption DEF Ids, Names

LEMMA PubLeagueIsLeague ==
    ASSUME LeaguesGood, NEW r \in Said
    PROVE  PubLeague(r) \in Leagues /\ PubLeagues(r) \subseteq Leagues
<1>1. r.competition \in Leagues
  BY SaidIsTyped DEF Leagues
<1>2. BrandOf(r.competition) # None => BrandOf(r.competition) \in leagues
  BY DEF BrandOf
<1>3. PubLeague(r) \in Leagues
  BY <1>1, <1>2 DEF PubLeague, LeagueOf, LeaguesGood
<1>. QED
  BY <1>3 DEF PubLeagues, LeaguesGood

\* The two teams of a reading: two teams, each with the identifier and the name it is shown by.
LEMMA PubTeams ==
    ASSUME RecordsInv, NEW r \in Said
    PROVE  /\ TeamsGood(PubTwo(r))
           /\ PubHome(r) \in Present(PubTwo(r)) /\ PubAway(r) \in Present(PubTwo(r))
           /\ PubHome(r) # PubAway(r)
           /\ r.home.id \in PubTwo(r)[PubHome(r)].ids
           /\ r.away.id \in PubTwo(r)[PubAway(r)].ids
           /\ r.home.name \in PubTwo(r)[PubHome(r)].names
           /\ r.away.name \in PubTwo(r)[PubAway(r)].names
           /\ \A u \in Teams : /\ teams[u].ids \subseteq PubTwo(r)[u].ids
                               /\ teams[u].names \subseteq PubTwo(r)[u].names
           /\ \A t \in Present(PubTwo(r)) : PubTwo(r)[t].league \in PubLeagues(r)
<1> DEFINE one == PubOne(r)
           two == PubTwo(r)
           home == PubHome(r)
           away == PubAway(r)
           league == PubLeague(r)
<1>1. /\ r.home.id \in Ids /\ r.away.id \in Ids /\ r.home.id # r.away.id
      /\ r.home.name \in Names /\ r.away.name \in Names
  BY SaidIsTyped
<1>2. league \in Leagues /\ TeamsGood(teams) /\ LeaguesGood
  BY PubLeagueIsLeague DEF RecordsInv
<1>3. /\ TeamsGood(one) /\ home \in Teams
      /\ r.home.id \in one[home].ids /\ r.home.name \in one[home].names
      /\ one[home].league = IF teams[home].names = {} THEN league ELSE teams[home].league
      /\ \A u \in Teams : /\ teams[u].ids \subseteq one[u].ids
                          /\ teams[u].names \subseteq one[u].names
                          /\ u # home => one[u] = teams[u]
  BY <1>1, <1>2, EnsuredIsSound DEF PubOne, PubHome
<1>4. /\ TeamsGood(two) /\ away \in Teams
      /\ r.away.id \in two[away].ids /\ r.away.name \in two[away].names
      /\ two[away].league = IF one[away].names = {} THEN league ELSE one[away].league
      /\ \A u \in Teams : /\ one[u].ids \subseteq two[u].ids
                          /\ one[u].names \subseteq two[u].names
                          /\ u # away => two[u] = one[u]
  <2>1. one = Ensured(teams, r.home, league)
    BY DEF PubOne
  <2>. QED
    BY <1>1, <1>2, <1>3, EnsuredIsSound DEF PubTwo, PubAway
<1> HIDE DEF one, two, home, away, league
<1>5. r.home.id \in two[home].ids /\ r.home.name \in two[home].names
  BY <1>3, <1>4
<1>6. home # away
  BY <1>1, <1>4, <1>5 DEF TeamsGood
<1>7. home \in Present(two) /\ away \in Present(two)
  BY <1>3, <1>4, <1>5 DEF Present
<1>8. \A u \in Teams : /\ teams[u].ids \subseteq two[u].ids
                       /\ teams[u].names \subseteq two[u].names
  BY <1>3, <1>4
<1>9. \A t \in Teams : teams[t].names # {} => teams[t].league \in leagues
  BY <1>2 DEF LeaguesGood, Present
<1>10. \A t \in Teams : one[t].names # {} => one[t].league \in leagues \cup {league}
  BY <1>3, <1>9
<1>11. \A t \in Present(two) : two[t].league \in leagues \cup {league}
  BY <1>4, <1>10 DEF Present
<1>. QED
  BY <1>4, <1>5, <1>6, <1>7, <1>8, <1>11 DEF one, two, home, away, league, PubLeagues

\* The match of a reading: the one its event is linked to, or one that no event is linked
\* to and that is the same fixture, or a new one.
LEMMA PubMatchIs ==
    ASSUME RecordsInv, NEW e \in Events, NEW r \in Said
    PROVE  /\ PubMatch(e, r) \in Matches
           /\ \/ linked[e] # None /\ PubMatch(e, r) = linked[e]
              \/ /\ linked[e] = None /\ PubMatch(e, r) \in Known /\ Free(PubMatch(e, r))
                 /\ SameFixture(PubMatch(e, r), r, PubTwo(r), PubLeagues(r))
              \/ linked[e] = None /\ PubMatch(e, r) = e
<1> DEFINE same == {m \in Known : Free(m) /\ SameFixture(m, r, PubTwo(r), PubLeagues(r))}
<1>1. Known \subseteq Matches /\ e \in Matches
  BY DEF Known, Matches
<1>2. CASE linked[e] # None
  BY <1>2 DEF PubMatch, MatchFor, RecordsInv, LinksGood
<1>3. CASE linked[e] = None /\ Cardinality(same) = 1
  <2>1. IsFiniteSet(same)
    BY <1>1, RecordsAssumption, FS_Subset
  <2>2. PubMatch(e, r) = CHOOSE m \in same : TRUE
    BY <1>3, Zenon DEF PubMatch, MatchFor
  <2>3. (CHOOSE m \in same : TRUE) \in same
    BY <1>3, <2>1, OneElement
  <2>. QED
    BY <1>1, <1>3, <2>2, <2>3
<1>4. CASE linked[e] = None /\ Cardinality(same) # 1
  <2>1. PubMatch(e, r) = e
    BY <1>4, Zenon DEF PubMatch, MatchFor
  <2>. QED
    BY <1>1, <1>4, <2>1
<1>. QED
  BY <1>2, <1>3, <1>4

\* The step of a publication, in the terms above.
LEMMA PublishIs ==
    ASSUME RecordsInv, NEW e \in Events, NEW r \in Said, Publish(e, r)
    PROVE  LET m == PubMatch(e, r)
               home == PubHome(r)
               away == PubAway(r)
           IN  /\ teams' = PubTwo(r) /\ leagues' = PubLeagues(r)
               /\ parent' \in [Competitions -> Leagues \cup {None}]
               /\ match' \in [Matches -> MatchRow]
               /\ \A n \in Matches : n # m => match'[n] = match[n]
               /\ match'[m].league = PubLeague(r)
               /\ \/ ~Reversed(e, r) /\ match'[m].home = home /\ match'[m].away = away
                  \/ Reversed(e, r) /\ match'[m].home = away /\ match'[m].away = home
               /\ linked' = [linked EXCEPT ![e] = m]
               /\ score' = [score EXCEPT ![m] = InOrder(r.score, Reversed(e, r))]
               /\ shown' = [shown EXCEPT ![e] = r]
               /\ readings < MaxReadings /\ readings' = readings + 1
               /\ UNCHANGED <<job, active, catalogs>>
<1> DEFINE m == PubMatch(e, r)
           home == PubHome(r)
           away == PubAway(r)
           league == PubLeague(r)
<1>1. /\ teams' = PubTwo(r) /\ leagues' = PubLeagues(r)
      /\ parent' = IF league = r.competition /\ BrandOf(league) # None
                   THEN [parent EXCEPT ![league] = BrandOf(league)] ELSE parent
      /\ match' = [match EXCEPT ![m] =
                      [home |-> IF Reversed(e, r) THEN match[m].home ELSE home,
                       away |-> IF Reversed(e, r) THEN match[m].away ELSE away,
                       start |-> r.start, league |-> league]]
      /\ linked' = [linked EXCEPT ![e] = m]
      /\ score' = [score EXCEPT ![m] = InOrder(r.score, Reversed(e, r))]
      /\ shown' = [shown EXCEPT ![e] = r]
      /\ readings < MaxReadings /\ readings' = readings + 1
      /\ UNCHANGED <<job, active, catalogs>>
  BY DEF Publish, PubTwo, PubOne, PubHome, PubAway, PubLeague, PubLeagues, PubMatch, Reversed
<1>2. /\ m \in Matches /\ match \in [Matches -> MatchRow] /\ league \in Leagues
      /\ home \in Teams /\ away \in Teams /\ r.start \in Int
  BY PubMatchIs, PubLeagueIsLeague, PubTeams, SaidIsTyped
  DEF RecordsInv, MatchesGood, Present
<1>3. Reversed(e, r) => match[m].home = away /\ match[m].away = home
  BY DEF Reversed
<1>4. parent' \in [Competitions -> Leagues \cup {None}]
  <2>1. BrandOf(league) \in leagues \cup {None}
    BY DEF BrandOf
  <2>. QED
    BY <1>1, <2>1 DEF RecordsInv, LeaguesGood
<1> DEFINE row == [home |-> IF Reversed(e, r) THEN match[m].home ELSE home,
                   away |-> IF Reversed(e, r) THEN match[m].away ELSE away,
                   start |-> r.start, league |-> league]
<1>5. row \in MatchRow
  BY <1>2, <1>3 DEF MatchRow
<1>6. match' = [match EXCEPT ![m] = row]
  BY <1>1
<1>7. /\ row.league = league
      /\ row.home = IF Reversed(e, r) THEN match[m].home ELSE home
      /\ row.away = IF Reversed(e, r) THEN match[m].away ELSE away
  OBVIOUS
<1> HIDE DEF row, m, home, away, league
<1>8. /\ match' \in [Matches -> MatchRow] /\ match'[m] = row
      /\ \A n \in Matches : n # m => match'[n] = match[n]
  BY <1>2, <1>5, <1>6
<1>9. \/ ~Reversed(e, r) /\ match'[m].home = home /\ match'[m].away = away
      \/ Reversed(e, r) /\ match'[m].home = away /\ match'[m].away = home
  BY <1>3, <1>7, <1>8
<1>10. match'[m].league = league
  BY <1>7, <1>8
<1>. QED
  BY <1>1, <1>4, <1>8, <1>9, <1>10 DEF m, home, away, league

\* The links after a publication.
LEMMA PublishLinks ==
    ASSUME RecordsInv, NEW e \in Events, NEW r \in Said, Publish(e, r), MatchesGood',
           Known' = Known \cup {PubMatch(e, r)}
    PROVE  LinksGood' /\ \A f \in Events \ {e} : linked[f] # None => linked[f] # PubMatch(e, r)
<1> DEFINE m == PubMatch(e, r)
<1>1. /\ linked' = [linked EXCEPT ![e] = m] /\ shown' = [shown EXCEPT ![e] = r]
  BY PublishIs
<1>2. /\ m \in Matches
      /\ \/ linked[e] # None /\ m = linked[e]
         \/ linked[e] = None /\ m \in Known /\ Free(m)
         \/ linked[e] = None /\ m = e
  BY PubMatchIs
<1>3. LinksGood /\ None \notin Matches /\ Events \subseteq Matches
  BY RecordsAssumption DEF RecordsInv, Matches
<1> HIDE DEF m
<1>4. \A f \in Events \ {e} : linked[f] # None => linked[f] # m
  BY <1>2, <1>3 DEF LinksGood, Free
<1>5. linked' \in [Events -> Matches \cup {None}] /\ DOMAIN shown' = Events
  BY <1>1, <1>2, <1>3 DEF LinksGood
<1>6. \A f \in Events : /\ linked'[f] = IF f = e THEN m ELSE linked[f]
                        /\ shown'[f] = IF f = e THEN r ELSE shown[f]
  BY <1>1, <1>3 DEF LinksGood
<1>7. Known' = Known \cup {m}
  BY DEF m
<1>8. \A f \in Events : linked'[f] # None => linked'[f] \in Known' /\ shown'[f] \in Said
  BY <1>3, <1>6, <1>7 DEF LinksGood
<1>9. \A f, g \in Events : linked'[f] = linked'[g] /\ linked'[f] # None => f = g
  BY <1>3, <1>4, <1>6 DEF LinksGood
<1>10. \A f, g \in Events : linked'[f] = g => f = g
  BY <1>2, <1>3, <1>6 DEF LinksGood, Free
<1>11. \A f \in Events : f \in Known' => linked'[f] = f
  BY <1>2, <1>3, <1>6, <1>7 DEF LinksGood, Free
<1>. QED
  BY <1>4, <1>5, <1>8, <1>9, <1>10, <1>11 DEF LinksGood, m

\* A reading leaves the scores of the other events, and gives its own to its two teams.
LEMMA PublishScores ==
    ASSUME RecordsInv, NEW e \in Events, NEW r \in Said, Publish(e, r),
           \A f \in Events \ {e} : linked[f] # None => linked[f] # PubMatch(e, r)
    PROVE  ScoresGood'
<1> DEFINE m == PubMatch(e, r)
           home == PubHome(r)
           away == PubAway(r)
           two == PubTwo(r)
<1>1. /\ teams' = two /\ linked' = [linked EXCEPT ![e] = m] /\ shown' = [shown EXCEPT ![e] = r]
      /\ \A n \in Matches : n # m => match'[n] = match[n]
      /\ \/ ~Reversed(e, r) /\ match'[m].home = home /\ match'[m].away = away
         \/ Reversed(e, r) /\ match'[m].home = away /\ match'[m].away = home
      /\ score' = [score EXCEPT ![m] = InOrder(r.score, Reversed(e, r))]
  BY PublishIs
<1>2. /\ r.home.id \in two[home].ids /\ r.away.id \in two[away].ids
      /\ \A u \in Teams : teams[u].ids \subseteq two[u].ids
  BY PubTeams
<1>3. m \in Matches /\ ScoresGood /\ LinksGood /\ MatchesGood
  BY PubMatchIs DEF RecordsInv
<1>4. \A f \in Events \ {e} : linked[f] # None => linked[f] # m
  OBVIOUS
<1> HIDE DEF m, home, away, two
<1>5. DOMAIN score' = Matches /\ score'[m] = InOrder(r.score, Reversed(e, r))
  BY <1>1, <1>3 DEF ScoresGood
<1>6. InOneOrder(r, match'[m], score'[m], two)
  <2>1. CASE Reversed(e, r) /\ match'[m].home = away /\ match'[m].away = home
    <3>1. r.score # <<>> => score'[m] = <<r.score[2], r.score[1]>>
      BY <1>5, <2>1 DEF InOrder
    <3>2. r.score # <<>> => score'[m][1] = r.score[2] /\ score'[m][2] = r.score[1]
      BY <3>1
    <3>. QED
      BY <1>2, <2>1, <3>2 DEF InOneOrder
  <2>2. CASE ~Reversed(e, r) /\ match'[m].home = home /\ match'[m].away = away
    <3>1. score'[m] = r.score
      BY <1>5, <2>2 DEF InOrder
    <3>. QED
      BY <1>2, <2>2, <3>1 DEF InOneOrder
  <2>. QED
    BY <1>1, <2>1, <2>2
<1>7. ASSUME NEW f \in Events, linked'[f] # None
      PROVE  InOneOrder(shown'[f], match'[linked'[f]], score'[linked'[f]], teams')
  <2>1. CASE f = e
    <3>1. linked'[f] = m /\ shown'[f] = r
      BY <1>1, <1>3, <2>1 DEF LinksGood
    <3>. QED
      BY <1>1, <1>6, <3>1
  <2>2. CASE f # e
    <3>1. linked'[f] = linked[f] /\ shown'[f] = shown[f] /\ linked[f] # m
      BY <1>1, <1>3, <1>4, <1>7, <2>2 DEF LinksGood
    <3>2. linked[f] \in Matches /\ linked[f] \in Known
      BY <1>3, <1>7, <3>1 DEF LinksGood, Known
    <3>3. /\ match'[linked'[f]] = match[linked[f]] /\ score'[linked'[f]] = score[linked[f]]
      BY <1>1, <1>3, <3>1, <3>2 DEF ScoresGood
    <3>4. InOneOrder(shown[f], match[linked[f]], score[linked[f]], teams)
      BY <1>3, <1>7, <3>1 DEF ScoresGood
    <3>5. match[linked[f]].home \in Teams /\ match[linked[f]].away \in Teams
      BY <1>3, <3>2 DEF MatchesGood, Present
    <3>. QED
      BY <1>1, <1>2, <3>1, <3>3, <3>4, <3>5 DEF InOneOrder
  <2>. QED
    BY <2>1, <2>2
<1>. QED
  BY <1>5, <1>7 DEF ScoresGood

LEMMA PublishKeeps ==
    ASSUME RecordsInv, NEW e \in Events, NEW r \in Readings[e], Publish(e, r)
    PROVE  RecordsInv'
<1> DEFINE m == PubMatch(e, r)
           home == PubHome(r)
           away == PubAway(r)
           two == PubTwo(r)
<1>0. r \in Said
  BY DEF Said
<1>1. /\ teams' = two /\ leagues' = PubLeagues(r)
      /\ parent' \in [Competitions -> Leagues \cup {None}]
      /\ match' \in [Matches -> MatchRow]
      /\ \A n \in Matches : n # m => match'[n] = match[n]
      /\ match'[m].league = PubLeague(r)
      /\ \/ match'[m].home = home /\ match'[m].away = away
         \/ match'[m].home = away /\ match'[m].away = home
      /\ readings < MaxReadings /\ readings' = readings + 1
      /\ UNCHANGED <<job, active, catalogs>>
  BY <1>0, PublishIs
<1>2. /\ TeamsGood(two) /\ home \in Present(two) /\ away \in Present(two) /\ home # away
      /\ \A u \in Teams : teams[u].names \subseteq two[u].names
      /\ \A t \in Present(two) : two[t].league \in PubLeagues(r)
      /\ PubLeagues(r) \subseteq Leagues /\ m \in Matches
  BY <1>0, PubTeams, PubLeagueIsLeague, PubMatchIs DEF RecordsInv
<1>3. LeaguesGood /\ MatchesGood /\ BoundsGood /\ None \notin Teams
  BY RecordsAssumption DEF RecordsInv
<1>4. PubLeague(r) \in PubLeagues(r) /\ leagues \subseteq PubLeagues(r)
  BY DEF PubLeagues
<1> HIDE DEF m, home, away, two
<1>5. LeaguesGood'
  BY <1>1, <1>2, <1>3 DEF LeaguesGood, Present
<1>6. Present(teams) \subseteq Present(two) /\ Present(two) \subseteq Teams
  BY <1>2 DEF Present
<1>7. match'[m].home # None
  BY <1>1, <1>2, <1>3, <1>6
<1>8. Known' = Known \cup {m}
  BY <1>1, <1>2, <1>7 DEF Known
<1>9. MatchesGood'
  <2>1. ASSUME NEW n \in Known'
        PROVE  /\ {match'[n].home, match'[n].away} \subseteq Present(two)
               /\ match'[n].home # match'[n].away /\ match'[n].league \in PubLeagues(r)
    <3>1. CASE n = m
      BY <1>1, <1>2, <1>4, <3>1
    <3>2. CASE n # m
      <4>1. n \in Known /\ match'[n] = match[n]
        BY <1>1, <1>8, <2>1, <3>2 DEF Known
      <4>. QED
        BY <1>3, <1>4, <1>6, <4>1 DEF MatchesGood
    <3>. QED
      BY <3>1, <3>2
  <2>2. Present(teams)' = Present(two)
    BY <1>1 DEF Present
  <2>. QED
    BY <1>1, <2>1, <2>2 DEF MatchesGood
<1>10. LinksGood' /\ \A f \in Events \ {e} : linked[f] # None => linked[f] # m
  BY <1>0, <1>8, <1>9, PublishLinks DEF m
<1>11. ScoresGood'
  BY <1>0, <1>10, PublishScores DEF m
<1>12. BoundsGood'
  BY <1>1, <1>3, RecordsAssumption DEF BoundsGood
<1>13. TeamsGood(teams')
  BY <1>1, <1>2
<1>. QED
  BY <1>5, <1>9, <1>10, <1>11, <1>12, <1>13 DEF RecordsInv

-----------------------------------------------------------------------------
(* The catalog.                                                             *)

\* An import teaches teams of the catalog a name and a league, and touches no identifier.
LEMMA ImportKeeps ==
    ASSUME RecordsInv, NEW riot \in Discovered, NEW ls \in SUBSET Leagues,
           {HomeLeague[t] : t \in riot} \subseteq ls,
           NEW retained \in SUBSET (Teams \ riot),
           \A t \in retained : job.teams[t].league \in ls,
           Import(riot, retained, ls), job' = job \/ job' = Idle,
           active' \in SUBSET Official, catalogs' \in 0 .. MaxCatalogs
    PROVE  /\ RecordsInv'
           /\ \A t \in Teams : teams'[t].ids = teams[t].ids
<1>1. /\ leagues' = leagues \cup ls
      /\ teams' = [t \in Teams |->
             IF t \in riot
             THEN [teams[t] EXCEPT !.names = @ \cup {RiotName[t]}, !.league = HomeLeague[t]]
             ELSE IF t \in retained THEN [teams[t] EXCEPT !.league = job.teams[t].league]
             ELSE teams[t]]
      /\ UNCHANGED <<parent, match, linked, score, stats, shown, readings>>
  BY DEF Import, Merged, Private
<1>2. /\ TeamsGood(teams) /\ LeaguesGood /\ MatchesGood /\ LinksGood /\ ScoresGood /\ BoundsGood
      /\ teams \in [Teams -> TeamRow]
  BY DEF RecordsInv, TeamsGood
<1>3. /\ riot \subseteq Official /\ riot \subseteq Teams /\ riot \cap Ids = {}
      /\ \A t \in riot : RiotName[t] \in Names /\ HomeLeague[t] \in ls
  BY RecordsAssumption, IdsAreTeams DEF Discovered, Names
<1>4. \A t \in Teams :
         /\ teams[t] \in TeamRow
         /\ t \in riot => teams'[t] = [teams[t] EXCEPT !.names = @ \cup {RiotName[t]},
                                                       !.league = HomeLeague[t]]
         /\ t \in retained => teams'[t] = [teams[t] EXCEPT !.league = job.teams[t].league]
         /\ t \notin riot /\ t \notin retained => teams'[t] = teams[t]
  BY <1>1, <1>2
<1>5. \A t \in Teams :
         /\ teams'[t] \in TeamRow /\ teams'[t].ids = teams[t].ids
         /\ teams[t].names \subseteq teams'[t].names
         /\ t \notin riot => teams'[t].names = teams[t].names
         /\ \/ teams'[t].league \in ls
            \/ teams'[t].league = teams[t].league /\ t \notin riot
  <2> SUFFICES ASSUME NEW t \in Teams
               PROVE  /\ teams'[t] \in TeamRow /\ teams'[t].ids = teams[t].ids
                      /\ teams[t].names \subseteq teams'[t].names
                      /\ t \notin riot => teams'[t].names = teams[t].names
                      /\ \/ teams'[t].league \in ls
                         \/ teams'[t].league = teams[t].league /\ t \notin riot
    OBVIOUS
  <2>1. CASE t \in riot
    <3>1. /\ teams[t] \in TeamRow /\ RiotName[t] \in Names /\ HomeLeague[t] \in Leagues
          /\ teams'[t] = [teams[t] EXCEPT !.names = @ \cup {RiotName[t]},
                                          !.league = HomeLeague[t]]
      BY <1>3, <1>4, <2>1
    <3>2. /\ teams'[t] \in TeamRow /\ teams'[t].ids = teams[t].ids
          /\ teams'[t].names = teams[t].names \cup {RiotName[t]}
          /\ teams'[t].league = HomeLeague[t]
      BY <3>1 DEF TeamRow
    <3>. QED
      BY <1>3, <2>1, <3>2
  <2>2. CASE t \in retained
    <3> DEFINE l == job.teams[t].league
    <3>1. l \in ls /\ l \in Leagues /\ t \notin riot
      BY <2>2
    <3>2. teams[t] \in TeamRow /\ teams'[t] = [teams[t] EXCEPT !.league = l]
      BY <1>4, <2>2
    <3> HIDE DEF l
    <3>3. /\ teams'[t] \in TeamRow /\ teams'[t].ids = teams[t].ids
          /\ teams'[t].names = teams[t].names /\ teams'[t].league = l
      BY <3>1, <3>2 DEF TeamRow
    <3>. QED
      BY <3>1, <3>3
  <2>3. CASE t \notin riot /\ t \notin retained
    BY <1>4, <2>3
  <2>. QED
    BY <2>1, <2>2, <2>3
<1>6. teams' \in [Teams -> TeamRow]
  BY <1>1, <1>5
<1>7. TeamsGood(teams')
  <2>1. \A x \in Ids : teams'[x].names # {} => x \in teams'[x].ids
    BY <1>2, <1>3, <1>5, IdsAreTeams DEF TeamsGood
  <2>2. \A t \in Teams : teams'[t].ids # {} => teams'[t].names # {}
    BY <1>2, <1>5 DEF TeamsGood
  <2>. QED
    BY <1>2, <1>5, <1>6, <2>1, <2>2 DEF TeamsGood
<1>8. LeaguesGood'
  <2>1. \A t \in Teams : teams[t].names # {} => teams[t].league \in leagues
    BY <1>2 DEF LeaguesGood, Present
  <2>2. \A t \in Teams : teams'[t].names # {} => teams'[t].league \in leagues'
    <3> SUFFICES ASSUME NEW t \in Teams, teams'[t].names # {}
                 PROVE  teams'[t].league \in leagues'
      OBVIOUS
    <3>1. leagues' = leagues \cup ls
      BY <1>1
    <3>2. CASE teams'[t].league \in ls
      BY <3>1, <3>2
    <3>3. CASE teams'[t].league = teams[t].league /\ t \notin riot
      <4>1. teams[t].names # {}
        BY <1>5, <3>3
      <4>. QED
        BY <2>1, <3>1, <3>3, <4>1
    <3>. QED
      BY <1>5, <3>2, <3>3
  <2>3. \A t \in Present(teams') : teams'[t].league \in leagues'
    BY <2>2 DEF Present
  <2>4. job'.leagues \subseteq Leagues
    BY <1>2 DEF LeaguesGood, Idle
  <2>. QED
    BY <1>1, <1>2, <2>3, <2>4 DEF LeaguesGood
<1>9. Known' = Known /\ Present(teams) \subseteq Present(teams)'
  BY <1>1, <1>5 DEF Known, Present
<1>10. MatchesGood'
  BY <1>1, <1>2, <1>9 DEF MatchesGood
<1>11. LinksGood'
  BY <1>1, <1>2, <1>9 DEF LinksGood
<1>12. ScoresGood'
  <2>1. ASSUME NEW e \in Events, linked'[e] # None
        PROVE  InOneOrder(shown'[e], match'[linked'[e]], score'[linked'[e]], teams')
    <3>1. /\ linked[e] # None /\ linked'[e] = linked[e] /\ shown' = shown /\ match' = match
          /\ score' = score
      BY <1>1, <2>1
    <3>2. InOneOrder(shown[e], match[linked[e]], score[linked[e]], teams)
      BY <1>2, <3>1 DEF ScoresGood
    <3>3. match[linked[e]].home \in Teams /\ match[linked[e]].away \in Teams
      BY <1>2, <3>1 DEF LinksGood, MatchesGood, Present
    <3>. QED
      BY <1>5, <3>1, <3>2, <3>3 DEF InOneOrder
  <2>. QED
    BY <1>1, <1>2, <2>1 DEF ScoresGood
<1>13. BoundsGood'
  BY <1>1, <1>2 DEF BoundsGood
<1>. QED
  BY <1>5, <1>7, <1>8, <1>10, <1>11, <1>12, <1>13 DEF RecordsInv

LEMMA LeaguesOfCatalog ==
    ASSUME RecordsInv, NEW riot \in Discovered
    PROVE  /\ {HomeLeague[t] : t \in riot} \in SUBSET Leagues
           /\ job.leagues \cup {HomeLeague[t] : t \in riot} \in SUBSET Leagues
           /\ riot \in SUBSET Official
BY DEF Discovered, Leagues, RecordsInv, LeaguesGood

\* What the catalog brings, from its pages or by the command.
LEMMA CatalogKeeps ==
    ASSUME RecordsInv, ReadCatalog \/ PublishCatalog \/ CatalogFails \/ ImportCommand
    PROVE  /\ RecordsInv'
           /\ \A t \in Teams : teams'[t].ids = teams[t].ids
           /\ UNCHANGED match
<1>1. CASE ReadCatalog
  <2>1. /\ UNCHANGED <<teams, leagues, parent, match, linked, score, active, shown, readings>>
        /\ job'.leagues = leagues /\ catalogs < MaxCatalogs /\ catalogs' = catalogs + 1
    BY <1>1 DEF ReadCatalog
  <2>2. LeaguesGood' /\ BoundsGood'
    BY <2>1, RecordsAssumption DEF RecordsInv, LeaguesGood, BoundsGood, Present
  <2>3. MatchesGood' /\ LinksGood' /\ ScoresGood' /\ TeamsGood(teams')
    BY <2>1 DEF RecordsInv, MatchesGood, LinksGood, ScoresGood, Known, Present
  <2>. QED
    BY <2>1, <2>2, <2>3 DEF RecordsInv
<1>2. CASE PublishCatalog
  <2>1. PICK riot \in Discovered :
            LET ls == job.leagues \cup {HomeLeague[t] : t \in riot}
            IN  /\ Import(riot, {t \in Teams : Retained(t, riot, ls)}, ls)
                /\ active' = riot
    BY <1>2, Zenon DEF PublishCatalog
  <2> DEFINE ls == job.leagues \cup {HomeLeague[t] : t \in riot}
             retained == {t \in Teams : Retained(t, riot, ls)}
  <2>2. ls \in SUBSET Leagues /\ riot \in SUBSET Official
    BY LeaguesOfCatalog
  <2>3. /\ retained \in SUBSET (Teams \ riot)
        /\ \A t \in retained : job.teams[t].league \in ls
    BY DEF Retained
  <2>4. {HomeLeague[t] : t \in riot} \subseteq ls
    OBVIOUS
  <2>5. Import(riot, retained, ls) /\ active' \in SUBSET Official
    BY <2>1, <2>2
  <2>6. job' = Idle /\ catalogs' \in 0 .. MaxCatalogs
    BY <1>2 DEF PublishCatalog, RecordsInv, BoundsGood
  <2> HIDE DEF ls, retained
  <2>7. /\ RecordsInv'
        /\ \A t \in Teams : teams'[t].ids = teams[t].ids
    BY <2>2, <2>3, <2>4, <2>5, <2>6, ImportKeeps
  <2>. QED
    BY <2>5, <2>7 DEF Import
<1>3. CASE CatalogFails
  <2>1. /\ UNCHANGED <<teams, leagues, parent, match, linked, score, active, shown, readings,
                       catalogs>>
        /\ job'.leagues = {}
    BY <1>3 DEF CatalogFails, Idle
  <2>2. LeaguesGood' /\ BoundsGood'
    BY <2>1 DEF RecordsInv, LeaguesGood, BoundsGood, Present
  <2>3. MatchesGood' /\ LinksGood' /\ ScoresGood' /\ TeamsGood(teams')
    BY <2>1 DEF RecordsInv, MatchesGood, LinksGood, ScoresGood, Known, Present
  <2>. QED
    BY <2>1, <2>2, <2>3 DEF RecordsInv
<1>4. CASE ImportCommand
  <2>1. PICK riot \in Discovered : Import(riot, {}, {HomeLeague[t] : t \in riot})
    BY <1>4 DEF ImportCommand
  <2>2. {HomeLeague[t] : t \in riot} \in SUBSET Leagues /\ riot \in SUBSET Official
    BY LeaguesOfCatalog
  <2>3. /\ job' = job /\ active' \in SUBSET Official /\ catalogs' \in 0 .. MaxCatalogs
    BY <1>4, RecordsAssumption DEF ImportCommand, RecordsInv, BoundsGood
  <2> DEFINE ls == {HomeLeague[t] : t \in riot}
  <2>4. ls \in SUBSET Leagues /\ {HomeLeague[t] : t \in riot} \subseteq ls /\ Import(riot, {}, ls)
    BY <2>1, <2>2
  <2> HIDE DEF ls
  <2>5. {} \in SUBSET (Teams \ riot) /\ \A t \in {} : job.teams[t].league \in ls
    OBVIOUS
  <2>6. /\ RecordsInv'
        /\ \A t \in Teams : teams'[t].ids = teams[t].ids
    BY <2>3, <2>4, <2>5, ImportKeeps
  <2>. QED
    BY <2>4, <2>6 DEF Import
<1>. QED
  BY <1>1, <1>2, <1>3, <1>4

LEMMA RecordsStep ==
    ASSUME RecordsInv, RecordsNext \/ UNCHANGED recordVars
    PROVE  RecordsInv'
<1>1. CASE \E e \in Events : \E r \in Readings[e] : Publish(e, r)
  BY <1>1, PublishKeeps
<1>2. CASE ReadCatalog \/ PublishCatalog \/ CatalogFails \/ ImportCommand
  BY <1>2, CatalogKeeps
<1>3. CASE UNCHANGED recordVars
  <2>1. UNCHANGED <<teams, leagues, parent, match, linked, score, job, active, shown, readings,
                    catalogs>>
    BY <1>3 DEF recordVars
  <2>2. LeaguesGood' /\ BoundsGood'
    BY <2>1 DEF RecordsInv, LeaguesGood, BoundsGood, Present
  <2>3. MatchesGood' /\ LinksGood' /\ ScoresGood' /\ TeamsGood(teams')
    BY <2>1 DEF RecordsInv, MatchesGood, LinksGood, ScoresGood, Known, Present
  <2>. QED
    BY <2>2, <2>3 DEF RecordsInv
<1>. QED
  BY <1>1, <1>2, <1>3 DEF RecordsNext, PublishEvents, SyncCatalog

-----------------------------------------------------------------------------
(* What the invariant of the records says.                                  *)

LEMMA IdentitiesFollow == RecordsInv => IdentitiesAreDistinct
<1> SUFFICES ASSUME RecordsInv PROVE IdentitiesAreDistinct
  OBVIOUS
<1>1. ASSUME NEW t \in Teams PROVE Cardinality(teams[t].ids) <= 1
  <2>1. CASE teams[t].ids = {}
    <3>1. Cardinality(teams[t].ids) = 0
      BY <2>1, FS_EmptySet
    <3>. QED
      BY <3>1
  <2>2. CASE teams[t].ids # {}
    <3>1. PICK x : x \in teams[t].ids
      BY <2>2
    <3>2. teams[t].ids = {x}
      BY <3>1 DEF RecordsInv, TeamsGood
    <3>3. Cardinality(teams[t].ids) = 1
      BY <3>2, FS_Singleton
    <3>. QED
      BY <3>3
  <2>. QED
    BY <2>1, <2>2
<1>2. EventsNeverShareMatch
  BY DEF EventsNeverShareMatch, RecordsInv, LinksGood
<1>. QED
  BY <1>1, <1>2 DEF IdentitiesAreDistinct, IdsNeverShareTeam

LEMMA ScoresFollow == RecordsInv => ScoreFollowsTeams
<1> SUFFICES ASSUME RecordsInv, NEW e \in Events, linked[e] # None
             PROVE  LET m == match[linked[e]]
                        r == shown[e]
                        i == IF r.home.id \in teams[m.home].ids THEN 1 ELSE 2
                    IN  /\ r.home.id \in teams[IF i = 1 THEN m.home ELSE m.away].ids
                        /\ r.away.id \in teams[IF i = 1 THEN m.away ELSE m.home].ids
                        /\ r.score # <<>> =>
                              /\ score[linked[e]][i] = r.score[1]
                              /\ score[linked[e]][3 - i] = r.score[2]
  BY DEF ScoreFollowsTeams
<1> DEFINE m == match[linked[e]]
           r == shown[e]
           s == score[linked[e]]
<1>1. InOneOrder(r, m, s, teams)
  BY DEF RecordsInv, ScoresGood
<1>2. m.home \in Teams /\ m.away \in Teams /\ m.home # m.away
  BY DEF RecordsInv, LinksGood, MatchesGood, Present
<1>3. \A t, u \in Teams : \A x \in teams[t].ids : x \in teams[u].ids => t = u
  BY DEF RecordsInv, TeamsGood
<1> HIDE DEF m, r, s
<1>4. CASE r.home.id \in teams[m.home].ids
  <2>1. r.home.id \notin teams[m.away].ids
    BY <1>2, <1>3, <1>4
  <2>2. /\ r.away.id \in teams[m.away].ids
        /\ r.score # <<>> => s[1] = r.score[1] /\ s[2] = r.score[2]
    BY <1>1, <2>1 DEF InOneOrder
  <2>. QED
    BY <1>4, <2>2 DEF m, r, s
<1>5. CASE r.home.id \notin teams[m.home].ids
  <2>1. /\ r.home.id \in teams[m.away].ids /\ r.away.id \in teams[m.home].ids
        /\ r.score # <<>> => s[1] = r.score[2] /\ s[2] = r.score[1]
    BY <1>1, <1>5 DEF InOneOrder
  <2>. QED
    BY <1>5, <2>1 DEF m, r, s
<1>. QED
  BY <1>4, <1>5

LEMMA RecordsAreTyped == RecordsInv => RecordsOK
<1> SUFFICES ASSUME RecordsInv PROVE RecordsOK
  OBVIOUS
<1>1. teams \in [Teams -> [names : SUBSET Names, ids : SUBSET Ids, league : Leagues \cup {None}]]
  BY DEF RecordsInv, TeamsGood, TeamRow
<1>2. /\ leagues \subseteq Leagues /\ parent \in [Competitions -> Leagues \cup {None}]
      /\ \A t \in Present(teams) : teams[t].league \in leagues
  BY DEF RecordsInv, LeaguesGood
<1>3. \A m \in Known : /\ {match[m].home, match[m].away} \subseteq Present(teams)
                       /\ match[m].home # match[m].away /\ match[m].league \in leagues
  BY DEF RecordsInv, MatchesGood
<1>. QED
  BY <1>1, <1>2, <1>3 DEF RecordsOK, RecordsInv, LinksGood, BoundsGood

-----------------------------------------------------------------------------
(* What a step of the records may do to the teams.                          *)

\* A team that keeps its identifiers stays the only holder of each.
LEMMA HoldersStay ==
    ASSUME NEW ts, NEW us, TeamsGood(ts), TeamsGood(us),
           \A t \in Teams : ts[t].ids \subseteq us[t].ids,
           NEW x \in Ids, Holders(ts, x) # {}
    PROVE  Holders(us, x) = Holders(ts, x)
<1>1. PICK t \in Teams : x \in ts[t].ids
  BY DEF Holders
<1>2. x \in us[t].ids
  BY <1>1
<1>3. Holders(ts, x) = {t}
  BY <1>1 DEF Holders, TeamsGood
<1>4. Holders(us, x) = {t}
  BY <1>1, <1>2 DEF Holders, TeamsGood
<1>. QED
  BY <1>3, <1>4

LEMMA PublishMovesNoTeam ==
    ASSUME RecordsInv, NEW e \in Events, NEW r \in Said, Publish(e, r), NEW m \in Known,
           {match'[m].home, match'[m].away} # {match[m].home, match[m].away}
    PROVE  /\ linked[e] = m
           /\ {shown'[e].home.id, shown'[e].away.id} # {shown[e].home.id, shown[e].away.id}
<1> DEFINE home == PubHome(r)
           away == PubAway(r)
           two == PubTwo(r)
<1>1. /\ \A n \in Matches : n # PubMatch(e, r) => match'[n] = match[n]
      /\ \/ match'[PubMatch(e, r)].home = home /\ match'[PubMatch(e, r)].away = away
         \/ match'[PubMatch(e, r)].home = away /\ match'[PubMatch(e, r)].away = home
      /\ shown' = [shown EXCEPT ![e] = r]
  BY PublishIs
<1>2. m = PubMatch(e, r) /\ m \in Matches
  BY <1>1 DEF Known
<1>3. {match'[m].home, match'[m].away} = {home, away}
  BY <1>1, <1>2
<1>4. /\ TeamsGood(two) /\ home # away
      /\ home \in Present(two) /\ away \in Present(two) /\ Present(two) \in SUBSET Teams
      /\ r.home.id \in two[home].ids /\ r.away.id \in two[away].ids
      /\ r.home.name \in two[home].names /\ r.away.name \in two[away].names
      /\ \A u \in Teams : teams[u].ids \subseteq two[u].ids
  BY PubTeams DEF Present
<1>5. shown'[e] = r
  BY <1>1 DEF RecordsInv, LinksGood
<1>6. LinksGood /\ None \notin Matches /\ Events \subseteq Matches
  BY RecordsAssumption DEF RecordsInv, Matches
<1>7. CASE linked[e] # None /\ m = linked[e]
  <2>1. InOneOrder(shown[e], match[m], score[m], teams)
    BY <1>7 DEF RecordsInv, ScoresGood
  <2>2. match[m].home \in Teams /\ match[m].away \in Teams
    BY DEF RecordsInv, MatchesGood, Present
  <2>3. SUFFICES ASSUME {r.home.id, r.away.id} = {shown[e].home.id, shown[e].away.id}
                 PROVE  {home, away} = {match[m].home, match[m].away}
    BY <1>3, <1>5, <1>7
  <2> HIDE DEF home, away, two
  <2>4. home \in Teams /\ away \in Teams
    BY <1>4
  <2> DEFINE mh == match[m].home
             ma == match[m].away
             v  == shown[e].home.id
             w  == shown[e].away.id
             x  == r.home.id
             y  == r.away.id
  <2>5. mh \in Teams /\ ma \in Teams /\ {x, y} = {v, w}
    BY <2>2, <2>3
  <2>6. x \in two[home].ids /\ y \in two[away].ids /\ TeamsGood(two) /\ home # away
    BY <1>4
  <2>7. \/ v \in two[mh].ids /\ w \in two[ma].ids
        \/ v \in two[ma].ids /\ w \in two[mh].ids
    BY <1>4, <2>1, <2>2 DEF InOneOrder
  <2> HIDE DEF mh, ma, v, w, x, y
  <2>8. \A c, d \in Teams : \A i \in two[c].ids : \A j \in two[d].ids :
           {x, y} = {i, j} => {home, away} = {c, d}
    <3> SUFFICES ASSUME NEW c \in Teams, NEW d \in Teams, NEW i \in two[c].ids,
                        NEW j \in two[d].ids, {x, y} = {i, j}
                 PROVE  {home, away} = {c, d}
      OBVIOUS
    <3>1. \A t, u \in Teams : \A k \in two[t].ids : k \in two[u].ids => t = u
      BY <2>6 DEF TeamsGood
    <3>. QED
      BY <2>4, <2>6, <3>1
  <2>9. {home, away} = {mh, ma} \/ {home, away} = {ma, mh}
    BY <2>5, <2>7, <2>8
  <2>. QED
    BY <2>9 DEF mh, ma
<1>8. CASE SameFixture(m, r, two, PubLeagues(r))
  <2> DEFINE h == Resolve(two, r.home.name, Present(two))
             a == Resolve(two, r.away.name, Present(two))
  <2>1. h # None /\ a # None /\ {match[m].home, match[m].away} = {h, a}
    BY <1>8 DEF SameFixture
  <2>2. h = home /\ a = away
    BY <1>4, <2>1, ResolveFinds
  <2>. QED
    BY <1>3, <2>1, <2>2
<1>9. CASE linked[e] = None /\ m = e
  BY <1>6, <1>9 DEF LinksGood
<1>. QED
  BY <1>2, <1>7, <1>8, <1>9, PubMatchIs

\* What the step of the property says.
TeamsStay ==
    /\ \A id \in Ids : Holders(teams, id) # {} => Holders(teams', id) = Holders(teams, id)
    /\ \A m \in Known : {match'[m].home, match'[m].away} # {match[m].home, match[m].away} =>
          \E e \in Events : /\ linked[e] = m
                            /\ {shown'[e].home.id, shown'[e].away.id}
                                  # {shown[e].home.id, shown[e].away.id}

LEMMA RecordsMoveNoTeam ==
    ASSUME RecordsInv, RecordsNext
    PROVE  TeamsStay
<1>1. TeamsGood(teams) /\ TeamsGood(teams')
  BY RecordsStep DEF RecordsInv
<1>2. CASE \E e \in Events : \E r \in Readings[e] : Publish(e, r)
  <2>1. PICK e \in Events : \E r \in Readings[e] : Publish(e, r)
    BY <1>2
  <2>2. PICK r \in Readings[e] : Publish(e, r)
    BY <2>1
  <2>3. r \in Said
    BY DEF Said
  <2>4. \A t \in Teams : teams[t].ids \subseteq teams'[t].ids
    BY <2>2, <2>3, PublishIs, PubTeams
  <2>5. \A id \in Ids : Holders(teams, id) # {} => Holders(teams', id) = Holders(teams, id)
    BY <1>1, <2>4, HoldersStay
  <2>. QED
    BY <2>2, <2>3, <2>5, PublishMovesNoTeam DEF TeamsStay
<1>3. CASE ReadCatalog \/ PublishCatalog \/ CatalogFails \/ ImportCommand
  <2>1. \A t \in Teams : teams[t].ids \subseteq teams'[t].ids
    BY <1>3, CatalogKeeps
  <2>2. match' = match
    BY <1>3, CatalogKeeps
  <2>3. \A id \in Ids : Holders(teams, id) # {} => Holders(teams', id) = Holders(teams, id)
    BY <1>1, <2>1, HoldersStay
  <2>. QED
    BY <2>2, <2>3 DEF TeamsStay
<1>. QED
  BY <1>2, <1>3 DEF RecordsNext, PublishEvents, SyncCatalog

-----------------------------------------------------------------------------
(* The import and the projection.                                           *)

\* The imports that are over have left what is active, each whole; the one at work has on
\* the disk what it has staged, and nothing active.
ImportGood ==
    /\ at \in {"idle", "import", "project"}
    /\ exports \in Seq(Validated) /\ Len(exports) <= MaxImports
    /\ staged \subseteq Years
    /\ dataset \in [Years -> SUBSET Games]
    /\ at = "import" => Len(exports) > 0 /\ \A y \in staged : <<y, Files[y]>> \in disk
    /\ \E done \in SUBSET DOMAIN exports :
            LeftBy(done) /\ (at = "import" => Len(exports) \notin done)
    /\ ActiveFilesExist

OracleTyped == oracle \in [Matches -> SUBSET Games]

OracleInv == RecordsInv /\ ImportGood /\ OracleTyped

\* A selection takes some of the years of an inventory.
LEMMA SelectedYears ==
    ASSUME NEW f \in Validated
    PROVE  DOMAIN f \subseteq Years /\ \A y \in DOMAIN f : f[y] \in SUBSET Games
<1>1. PICK d \in Deliveries : \E ys \in Selections(d) : f = [y \in ys |-> d[y]]
  BY DEF Validated
<1>2. PICK ys \in Selections(d) : f = [y \in ys |-> d[y]]
  BY <1>1
<1>3. ys \subseteq DOMAIN d
  BY DEF Selections, Latest, Companion
<1>4. DOMAIN d \subseteq Years /\ \A y \in DOMAIN d : d[y] \in SUBSET Games
  BY OracleAssumption DEF Years
<1>. QED
  BY <1>2, <1>3, <1>4

LEMMA WorkedExport ==
    ASSUME ImportGood, at = "import"
    PROVE  Files \in Validated /\ Len(exports) \in DOMAIN exports
BY DEF ImportGood, Files

LEMMA OracleInvInit == Init => OracleInv
<1> SUFFICES ASSUME Init PROVE OracleInv
  OBVIOUS
<1>1. RecordsInv
  BY RecordsInvInit DEF Init
<1>2. /\ at = "idle" /\ exports = <<>> /\ staged = {} /\ dataset = NoData
      /\ disk = {} /\ oracle = [m \in Matches |-> {}]
  BY DEF Init
<1>3. ActiveFilesExist
  BY <1>2 DEF ActiveFilesExist, NoData
<1>4. LeftBy({})
  BY <1>2 DEF LeftBy, NoData
<1>5. exports \in Seq(Validated) /\ Len(exports) = 0 /\ MaxImports \in Nat
  BY <1>2, OracleAssumption
<1>6. dataset \in [Years -> SUBSET Games]
  BY <1>2 DEF NoData, NoFile
<1>7. ImportGood
  BY <1>2, <1>3, <1>4, <1>5, <1>6 DEF ImportGood
<1>. QED
  BY <1>1, <1>2, <1>7 DEF OracleInv, OracleTyped

\* What a projection gives to a match, the match owns.
LEMMA ProjectionsAreOwned ==
    ASSUME OracleInv, NEW ms, Project(ms), NEW m \in Matches, oracle'[m] # oracle[m]
    PROVE  \A g \in oracle'[m] : Owns(m, g)
BY DEF OracleInv, OracleTyped, Project, GamesOf

LEMMA ProjectKeeps ==
    ASSUME OracleInv, NEW ms, Project(ms)
    PROVE  OracleTyped' /\ UNCHANGED <<dataset, disk, exports>> /\ UNCHANGED recordVars
<1>1. Visible \subseteq Games
  <2>1. dataset \in [Years -> SUBSET Games]
    BY DEF OracleInv, ImportGood
  <2>. QED
    BY <2>1 DEF Visible
<1>2. \A m : GamesOf(m) \subseteq Games
  BY <1>1 DEF GamesOf
<1>3. oracle' \in [Matches -> SUBSET Games]
  BY <1>2 DEF Project, OracleInv, OracleTyped
<1>. QED
  BY <1>3 DEF OracleTyped, Project

\* What was left stays while the next export is at work.
LEMMA CollectKeeps ==
    ASSUME ImportGood, Collect
    PROVE  ImportGood'
<1>1. /\ at' = "import" /\ staged' = {} /\ dataset' = dataset /\ disk' = disk
      /\ Len(exports) < MaxImports
  BY DEF Collect
<1>2. PICK files \in Validated : exports' = Append(exports, files)
  BY DEF Collect
<1>3. exports \in Seq(Validated) /\ Len(exports) \in Nat /\ MaxImports \in Nat
  BY OracleAssumption DEF ImportGood
<1>4. /\ exports' \in Seq(Validated) /\ Len(exports') = Len(exports) + 1
      /\ Len(exports') <= MaxImports /\ Len(exports') > 0
      /\ DOMAIN exports \subseteq DOMAIN exports' /\ Len(exports') \notin DOMAIN exports
      /\ \A i \in DOMAIN exports : exports'[i] = exports[i]
  BY <1>1, <1>2, <1>3
<1>5. PICK done \in SUBSET DOMAIN exports : LeftBy(done)
  BY DEF ImportGood
<1>6. LeftBy(done)'
  BY <1>1, <1>4, <1>5 DEF LeftBy
<1>7. done \in SUBSET DOMAIN exports' /\ Len(exports') \notin done
  BY <1>4
<1>. QED
  BY <1>1, <1>4, <1>6, <1>7 DEF ImportGood, ActiveFilesExist

LEMMA ImportYearKeeps ==
    ASSUME ImportGood, NEW y \in Years, ImportYear(y)
    PROVE  ImportGood'
<1>1. /\ at = "import" /\ at' = at /\ exports' = exports /\ dataset' = dataset
      /\ staged' = staged \cup {y} /\ disk' = disk \cup {<<y, Files[y]>>}
  BY DEF ImportYear, SeenMeanwhile
<1>2. Files' = Files /\ \A done : LeftBy(done)' <=> LeftBy(done)
  BY <1>1 DEF Files, LeftBy
<1>. QED
  BY <1>1, <1>2 DEF ImportGood, ActiveFilesExist

\* The export of the commit comes after all the others, and the years it has not selected
\* stay as they were.
LEMMA CommitKeeps ==
    ASSUME ImportGood, Commit
    PROVE  ImportGood'
<1>0. PICK n : n = Len(exports)
  OBVIOUS
<1>1. /\ at = "import" /\ at' = "project" /\ exports' = exports /\ disk' = disk
      /\ staged' = staged /\ staged = DOMAIN Files
      /\ dataset' = [y \in Years |-> IF y \in DOMAIN Files THEN Files[y] ELSE dataset[y]]
  BY DEF Commit
<1>2. /\ Files \in Validated /\ n \in DOMAIN exports /\ Files = exports[n]
      /\ \A i \in DOMAIN exports : i \in Nat /\ i <= n
  BY <1>0, <1>1, WorkedExport DEF ImportGood, Files
<1>3. DOMAIN Files \subseteq Years /\ \A y \in DOMAIN Files : Files[y] \in SUBSET Games
  BY <1>2, SelectedYears
<1>4. PICK done \in SUBSET DOMAIN exports : LeftBy(done) /\ n \notin done
  BY <1>0, <1>1 DEF ImportGood
<1> DEFINE new == done \cup {n}
<1>5. LeftBy(new)'
  <2> SUFFICES ASSUME NEW y \in Years
               PROVE  \/ \E i \in new : /\ y \in DOMAIN exports[i] /\ dataset'[y] = exports[i][y]
                                        /\ \A j \in new : j > i => y \notin DOMAIN exports[j]
                      \/ dataset'[y] = NoFile /\ \A i \in new : y \notin DOMAIN exports[i]
    BY <1>1 DEF LeftBy
  <2>1. CASE y \in DOMAIN Files
    <3>1. dataset'[y] = exports[n][y] /\ y \in DOMAIN exports[n]
      BY <1>1, <1>2, <2>1
    <3>2. \A j \in new : ~(j > n)
      BY <1>2
    <3>. QED
      BY <3>1, <3>2
  <2>2. CASE y \notin DOMAIN Files
    <3>1. dataset'[y] = dataset[y] /\ y \notin DOMAIN exports[n]
      BY <1>1, <1>2, <2>2
    <3>. QED
      BY <1>4, <3>1 DEF LeftBy
  <2>. QED
    BY <2>1, <2>2
<1>6. new \in SUBSET DOMAIN exports'
  BY <1>1, <1>2
<1>7. ActiveFilesExist'
  BY <1>1 DEF ImportGood, ActiveFilesExist
<1>8. dataset' \in [Years -> SUBSET Games]
  BY <1>1, <1>3 DEF ImportGood
<1> HIDE DEF new
<1>. QED
  BY <1>1, <1>5, <1>6, <1>7, <1>8 DEF ImportGood

LEMMA ImportStep ==
    ASSUME OracleInv, [Next]_vars
    PROVE  ImportGood' /\ OracleTyped'
<1>1. ImportGood /\ OracleTyped
  BY DEF OracleInv
<1>2. CASE RecordsNext /\ UNCHANGED oracleVars
  BY <1>1, <1>2 DEF oracleVars, ImportGood, OracleTyped, LeftBy, Files, ActiveFilesExist
<1>3. CASE Collect
  BY <1>1, <1>3, CollectKeeps DEF Collect, OracleTyped
<1>4. CASE \E y \in Years : ImportYear(y)
  BY <1>1, <1>4, ImportYearKeeps DEF ImportYear, OracleTyped
<1>5. CASE Commit
  BY <1>1, <1>5, CommitKeeps DEF Commit, OracleTyped
<1>6. CASE ImportFails
  BY <1>1, <1>6
  DEF ImportFails, KeptOnDisk, ImportGood, OracleTyped, LeftBy, Files, ActiveFilesExist
<1>7. CASE ProjectImport
  <2>1. OracleTyped' /\ UNCHANGED <<dataset, disk, exports>>
    <3>1. CASE Project(Matches)
      BY <3>1, ProjectKeeps
    <3>2. CASE UNCHANGED <<recordVars, dataset, disk, exports, oracle>>
      BY <1>1, <3>2 DEF OracleTyped
    <3>. QED
      BY <1>7, <3>1, <3>2 DEF ProjectImport
  <2>. QED
    BY <1>1, <1>7, <2>1 DEF ProjectImport, ImportGood, LeftBy, Files, ActiveFilesExist
<1>8. CASE ProjectReadings
  <2>1. OracleTyped' /\ UNCHANGED <<dataset, disk, exports>>
    BY <1>8, ProjectKeeps DEF ProjectReadings
  <2>. QED
    BY <1>1, <1>8, <2>1 DEF ProjectReadings, ImportGood, LeftBy, Files, ActiveFilesExist
<1>9. CASE UNCHANGED vars
  BY <1>1, <1>9 DEF vars, ImportGood, OracleTyped, LeftBy, Files, ActiveFilesExist
<1>. QED
  BY <1>2, <1>3, <1>4, <1>5, <1>6, <1>7, <1>8, <1>9 DEF Next, RecordsNext

\* The steps of the import and of the projection leave the records alone.
LEMMA OthersLeaveRecords ==
    ASSUME OracleInv, [Next]_vars
    PROVE  RecordsNext \/ UNCHANGED recordVars
<1>1. CASE Collect \/ Commit \/ ImportFails \/ \E y \in Years : ImportYear(y)
  BY <1>1 DEF Collect, Commit, ImportFails, ImportYear
<1>2. CASE ProjectImport \/ ProjectReadings
  BY <1>2, ProjectKeeps DEF ProjectImport, ProjectReadings
<1>3. CASE UNCHANGED vars
  BY <1>3 DEF vars, recordVars
<1>. QED
  BY <1>1, <1>2, <1>3 DEF Next, RecordsNext

\* The invariant of the records and of the import holds in every state.
THEOREM RecordsKeepInvariant == Spec => []OracleInv
<1>1. Init => OracleInv
  BY OracleInvInit
<1>2. OracleInv /\ [Next]_vars => OracleInv'
  BY ImportStep, OthersLeaveRecords, RecordsStep DEF OracleInv
<1>. QED
  BY <1>1, <1>2, PTL DEF Spec

\* Two identifiers of LoLTV are two teams and two of its events are two matches, in every
\* order of readings, collections of the catalog and imports.
THEOREM IdentitiesCorrect == Spec => []IdentitiesAreDistinct
<1>1. OracleInv => IdentitiesAreDistinct
  BY IdentitiesFollow DEF OracleInv
<1>. QED
  BY <1>1, RecordsKeepInvariant, PTL

\* The score of a match is the one its two teams were last shown with.
THEOREM ScoresCorrect == Spec => []ScoreFollowsTeams
<1>1. OracleInv => ScoreFollowsTeams
  BY ScoresFollow DEF OracleInv
<1>. QED
  BY <1>1, RecordsKeepInvariant, PTL

\* What is active comes from whole imports, each of all the years or of some, and is on the
\* disk, after any failure of an import.
THEOREM ActiveDataCorrect == Spec => []ActiveDataIsWhole
<1>1. OracleInv => ActiveDataIsWhole
  <2> SUFFICES ASSUME OracleInv PROVE ActiveDataIsWhole
    OBVIOUS
  <2>1. RecordsOK
    BY RecordsAreTyped DEF OracleInv
  <2>2. YearsComeTogether
    BY DEF OracleInv, ImportGood, YearsComeTogether
  <2>. QED
    BY <2>1, <2>2 DEF OracleInv, ImportGood, OracleTyped, TypeOK, ActiveDataIsWhole
<1>. QED
  BY <1>1, RecordsKeepInvariant, PTL

\* The team an identifier was recognised as is the same ever after, and the teams of a
\* match change only when LoLTV names other identifiers for it.
THEOREM TeamsCorrect == Spec => TeamsNeverMove
<1>1. OracleInv /\ [Next]_vars => [TeamsStay]_recordVars
  BY OthersLeaveRecords, RecordsMoveNoTeam DEF OracleInv
<1>2. Spec => [][TeamsStay]_recordVars
  BY <1>1, RecordsKeepInvariant, PTL DEF Spec
<1>. QED
  BY <1>2 DEF TeamsNeverMove, TeamsStay

-----------------------------------------------------------------------------
(* The owner of a game.                                                     *)

\* A game has one owner, of which LoLTV has shown no other game in its place and which is
\* the match that it has shown with this game, where there is one.
LEMMA OwnersAreSound ==
    ASSUME NEW g, NEW m, Owns(m, g)
    PROVE  /\ \A n : Owns(n, g) => n = m
           /\ m \notin Contradicted(g)
           /\ Cardinality(Proved(g)) = 1 => m \in Proved(g)
<1>1. \/ Proved(g) = {m}
      \/ Proved(g) = {} /\ Timely(g) = {m}
  BY DEF Owns
<1>2. \A n : Owns(n, g) => n = m
  BY <1>1 DEF Owns
<1>3. CASE Proved(g) = {m}
  <2>1. m \notin Contradicted(g)
    BY <1>3 DEF Contradicted
  <2>. QED
    BY <1>2, <1>3, <2>1
<1>4. CASE Proved(g) = {} /\ Timely(g) = {m}
  <2>1. m \notin Contradicted(g)
    BY <1>4 DEF Timely
  <2>2. Cardinality(Proved(g)) = 0
    BY <1>4, FS_EmptySet
  <2>. QED
    BY <1>2, <2>1, <2>2
<1>. QED
  BY <1>1, <1>3, <1>4

OneMatch ==
    /\ \A m, n \in Matches : m # n =>
          \A g \in oracle'[m] \cap oracle'[n] : g \in oracle[m] \cup oracle[n]
    /\ \A m \in Matches : oracle'[m] # oracle[m] =>
          \A g \in oracle'[m] : /\ m \notin Contradicted(g)
                                /\ Cardinality(Proved(g)) = 1 => m \in Proved(g)

\* One game never goes to two matches, nor to a match that LoLTV has contradicted.
THEOREM GamesCorrect == Spec => GamesHaveOneMatch
<1>1. OracleInv /\ [Next]_vars => [OneMatch]_vars
  <2> SUFFICES ASSUME OracleInv, Next PROVE OneMatch
    OBVIOUS
  <2>1. CASE oracle' = oracle
    BY <2>1 DEF OneMatch
  <2>2. CASE \E ms : Project(ms)
    <3>1. \A m \in Matches : oracle'[m] # oracle[m] => \A g \in oracle'[m] : Owns(m, g)
      BY <2>2, ProjectionsAreOwned
    <3>2. ASSUME NEW m \in Matches, NEW n \in Matches, m # n,
                 NEW g \in oracle'[m] \cap oracle'[n]
          PROVE  g \in oracle[m] \cup oracle[n]
      BY <3>1, <3>2, OwnersAreSound
    <3>3. ASSUME NEW m \in Matches, oracle'[m] # oracle[m], NEW g \in oracle'[m]
          PROVE  /\ m \notin Contradicted(g)
                 /\ Cardinality(Proved(g)) = 1 => m \in Proved(g)
      BY <3>1, <3>3, OwnersAreSound
    <3>. QED
      BY <3>2, <3>3 DEF OneMatch
  <2>3. oracle' = oracle \/ \E ms : Project(ms)
    BY DEF Next, oracleVars, Collect, Commit, ImportFails, ImportYear, ProjectImport,
           ProjectReadings
  <2>. QED
    BY <2>1, <2>2, <2>3
<1>2. Spec => [][OneMatch]_vars
  BY <1>1, RecordsKeepInvariant, PTL DEF Spec
<1>. QED
  BY <1>2 DEF GamesHaveOneMatch, OneMatch
=============================================================================
