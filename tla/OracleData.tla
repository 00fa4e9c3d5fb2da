------------------------------- MODULE OracleData -------------------------------
(***************************************************************************)
(* The games of Oracle's Elixir: the import of its yearly files            *)
(* (ingestion.py, archive.py), and their projection on the matches         *)
(* (oracle_match_sync.py), which reads the teams, the competitions and the *)
(* LoLTV snapshots that MatchRecords writes.                               *)
(*                                                                         *)
(* A game is whole: incomplete rows are no game.  A game at NoDate is one  *)
(* whose time zone is not known.                                           *)
(***************************************************************************)
EXTENDS MatchRecords, Sequences

CONSTANTS
    Games,      \* what the rows of the source say of each game
    Deliveries, \* [years -> sets of games], what the source may hold
    Asked,      \* sets of years, those an import may be asked for by hand
    Target,     \* [Matches -> games that win the series], from the format
    Late,       \* oracle_time_agrees: how late a game of a series may start
    Window,     \* MATCH_WINDOW
    MaxImports, \* bound
    MaxInputs   \* bound: readings, catalogs and imports together

VARIABLES
    at,      \* the step of the import
    staged,  \* the years whose pointer its transaction has moved
    dataset, \* active_version_id of each year
    disk,    \* artifacts: <<year, games of the file>>
    oracle,  \* the games of the last Oracle snapshot of each match
    exports  \* history: the validated export of each import, the last one at work

oracleVars == <<at, staged, dataset, disk, oracle, exports>>
vars == <<teams, leagues, parent, match, linked, score, stats, job, active, shown, readings,
          catalogs, at, staged, dataset, disk, oracle, exports>>

Years  == UNION {DOMAIN d : d \in Deliveries}
NoFile == {}  \* an empty file is refused
NoDate == 99
NoData == [y \in Years |-> NoFile]

ASSUME OracleAssumption ==
    /\ \A d \in Deliveries : /\ DOMAIN d \subseteq Nat
                             /\ d \in [DOMAIN d -> (SUBSET Games) \ {NoFile}]
    /\ {} \notin Asked
    /\ {MaxImports, MaxInputs} \subseteq Nat

-----------------------------------------------------------------------------
(* The import: the files of the selected years, in one transaction.         *)

Latest(d) == {y \in DOMAIN d : \A z \in DOMAIN d : z <= y}

\* The first of the other years: the source exports two files at least.
Companion(ys, d) ==
    {y \in DOMAIN d \ ys : Cardinality(ys) = 1 /\ \A z \in DOMAIN d \ ys : y <= z}

\* select_files: all the years, the latest one, or those that are asked for.
Selections(d) ==
    {DOMAIN d} \cup {ys \cup Companion(ys, d) : ys \in {Latest(d)} \cup (Asked \cap SUBSET DOMAIN d)}

\* download_export, validate_archive: every file of the selection as it is declared, or none.
Validated == UNION {{[y \in ys |-> d[y]] : ys \in Selections(d)} : d \in Deliveries}

Bounded(read, catalog, imported) == read + catalog + imported <= MaxInputs

TypeOK ==
    /\ RecordsOK
    /\ at \in {"idle", "import", "project"}
    /\ exports \in Seq(Validated) /\ Len(exports) <= MaxImports
    /\ staged \subseteq Years
    /\ dataset \in [Years -> SUBSET Games]
    /\ oracle \in [Matches -> SUBSET Games]

\* The export an import is working on.
Files == exports[Len(exports)]

\* discover, export_url, then the archive.
Collect ==
    /\ at = "idle" /\ at' = "import"
    /\ Len(exports) < MaxImports /\ Bounded(readings, catalogs, Len(exports) + 1)
    /\ \E files \in Validated : exports' = Append(exports, files)
    /\ staged' = {}
    /\ UNCHANGED <<recordVars, dataset, disk, oracle>>

\* Mutated form: each year is committed as soon as it is imported.
SeenAsImported(y) == [dataset EXCEPT ![y] = Files[y]]

\* What the others see of a transaction.
SeenMeanwhile(y) == dataset

\* import_files and persist_artifact, for one year: the file before its pointer.
ImportYear(y) ==
    /\ at = "import" /\ y \in DOMAIN Files \ staged
    /\ disk' = disk \cup {<<y, Files[y]>>}
    /\ staged' = staged \cup {y}
    /\ dataset' = SeenMeanwhile(y)
    /\ UNCHANGED <<recordVars, at, oracle, exports>>

Commit ==
    /\ at = "import" /\ staged = DOMAIN Files /\ at' = "project"
    /\ dataset' = [y \in Years |-> IF y \in DOMAIN Files THEN Files[y] ELSE dataset[y]]
    /\ UNCHANGED <<recordVars, staged, disk, oracle, exports>>

\* The files stay, those of a transaction that failed too.
KeptOnDisk == disk

\* The transaction fails, or the process is killed.
ImportFails ==
    /\ at = "import" /\ at' = "idle"
    /\ disk' = KeptOnDisk /\ staged' = {}
    /\ UNCHANGED <<recordVars, dataset, oracle, exports>>

-----------------------------------------------------------------------------
(* What a game proves of a match.                                           *)

Visible == UNION {dataset[y] : y \in {x \in Years : dataset[x] # NoFile}}

\* _best_name: the only name of the game that the team bears.
BestName(g, t) ==
    LET borne == {n \in {g.won, g.lost} : n \in teams[t].names}
    IN  IF Cardinality(borne) = 1 THEN CHOOSE n \in borne : TRUE ELSE None

SameTeams(g, m) == {BestName(g, match[m].home), BestName(g, match[m].away)} = {g.won, g.lost}

\* _league_matches: the competition of the match, or the brand it is a stage of.
SameLeague(g, m) ==
    LET l == match[m].league
    IN  g.league = l \/ (l \in Competitions /\ parent[l] \in leagues /\ g.league = parent[l])

\* _build_map, as far as game_signature compares it.
Built(g, m) ==
    [number |-> g.number, stat |-> g.stat,
     winner |-> IF BestName(g, match[m].home) = g.won THEN match[m].home ELSE match[m].away]

Plausible(g) == {m \in Known : SameLeague(g, m) /\ SameTeams(g, m)}

\* The matches of which LoLTV has shown this very game, and those of which it has shown
\* another one in its place.
Proved(g)       == {m \in Plausible(g) : Built(g, m) \in stats[m]}
Contradicted(g) == {m \in Plausible(g) \ Proved(g) : \E s \in stats[m] : s.number = g.number}

\* oracle_time_agrees: a game follows the start of its series.
TimeAgrees(g, m) ==
    g.at # NoDate /\ match[m].start <= g.at /\ g.at <= match[m].start + Late

Timely(g) == {m \in Plausible(g) \ Contradicted(g) : TimeAgrees(g, m)}

\* Mutated form: the game goes to every match whose date agrees.
OwnsByDate(m, g) == Proved(g) = {m} \/ (Proved(g) = {} /\ m \in Timely(g))

\* The match that owns a game is found among all those that are known.
Owns(m, g) == Proved(g) = {m} \/ (Proved(g) = {} /\ Timely(g) = {m})

InWindow(g, m) ==
    g.at = NoDate \/ (g.at - match[m].start <= Window /\ match[m].start - g.at <= Window)

\* The games of a match, without those that are two for one number.
GamesOf(m) ==
    LET own == {g \in Visible : Owns(m, g) /\ InWindow(g, m)}
    IN  {g \in own : \A h \in own : h.number = g.number => h = g}

\* completed_series_summary
Whole(games, m) ==
    LET wins(last, t) ==
            Cardinality({g \in games : g.number <= last /\ Built(g, m).winner = t})
        n == Cardinality(games)
        sides == {match[m].home, match[m].away}
    IN  /\ games # {} /\ {g.number : g \in games} = 1 .. n
        /\ \E t \in sides : wins(n, t) = Target[m]
        /\ \A t \in sides : wins(n - 1, t) < Target[m]

\* sync_oracle_match_details, for some of the matches; a series that is not whole leaves
\* the reading of its match as it is.
Project(ms) ==
    /\ oracle' = [m \in Matches |->
                     IF m \in ms \cap Known /\ Whole(GamesOf(m), m) THEN GamesOf(m)
                     ELSE oracle[m]]
    /\ UNCHANGED <<recordVars, dataset, disk, exports>>

\* After an import, every match; a projection that fails leaves the import as it is.
ProjectImport ==
    /\ at = "project" /\ at' = "idle" /\ staged' = {}
    /\ Project(Matches) \/ UNCHANGED <<recordVars, dataset, disk, exports, oracle>>

\* After a LoLTV cycle, the matches it has read.
ProjectReadings ==
    /\ \E e \in Events : linked[e] # None /\ Project({linked[e]})
    /\ UNCHANGED <<at, staged>>

-----------------------------------------------------------------------------
Init ==
    /\ RecordsInit
    /\ at = "idle" /\ exports = <<>> /\ staged = {} /\ dataset = NoData
    /\ disk = {} /\ oracle = [m \in Matches |-> {}]

Next ==
    \/ Bounded(readings + 1, catalogs, Len(exports)) /\ PublishEvents /\ UNCHANGED oracleVars
    \/ SyncCatalog /\ Bounded(readings, catalogs', Len(exports)) /\ UNCHANGED oracleVars
    \/ Collect \/ Commit \/ ImportFails \/ ProjectImport \/ ProjectReadings
    \/ \E y \in Years : ImportYear(y)

Spec == Init /\ [][Next]_vars

-----------------------------------------------------------------------------
(* Properties.                                                              *)

\* Each year is as the last import of this set that selected it has left it.
LeftBy(done) ==
    \A y \in Years :
        \/ \E i \in done : /\ y \in DOMAIN exports[i] /\ dataset[y] = exports[i][y]
                           /\ \A j \in done : j > i => y \notin DOMAIN exports[j]
        \/ dataset[y] = NoFile /\ \A i \in done : y \notin DOMAIN exports[i]

\* The years of one import become active together or not at all, whether it selects all of
\* them or some: what is active is what whole imports have left one after the other.
YearsComeTogether == \E done \in SUBSET DOMAIN exports : LeftBy(done)

\* Whatever is active is on the disk, after any failure between the files and the commit.
ActiveFilesExist == \A y \in Years : dataset[y] # NoFile => <<y, dataset[y]>> \in disk

\* What is active comes from whole imports and is on the disk, after any failure of an import.
ActiveDataIsWhole == TypeOK /\ YearsComeTogether /\ ActiveFilesExist

\* A projection never gives one game to two matches, rematches of one day included.  A game
\* whose statistics LoLTV has shown in one match only goes to no other, and no match gets
\* a game in the place of the one that LoLTV has shown.
GamesHaveOneMatch ==
    [][/\ \A m, n \in Matches : m # n =>
             \A g \in oracle'[m] \cap oracle'[n] : g \in oracle[m] \cup oracle[n]
       /\ \A m \in Matches : oracle'[m] # oracle[m] =>
             \A g \in oracle'[m] :
                 /\ m \notin Contradicted(g)
                 /\ Cardinality(Proved(g)) = 1 => m \in Proved(g)]_vars
=============================================================================
