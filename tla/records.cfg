\* Three readings of two LoLTV matches, one collection or import of the catalog and two
\* imports of Oracle's Elixir, in any order.
SPECIFICATION Spec
CONSTANTS
    Events = {"e1", "e2"}
    Readings <- MCReadings
    Competitions = {"spring", "finals"}
    Brand <- MCBrand
    Exact = {"spring"}
    Official = {"alpha", "beta", "gamma"}
    RiotName <- MCRiotName
    HomeLeague <- MCHomeLeague
    OldTeams = {"alpha", "beta"}
    OldMatches <- MCOldMatches
    Tolerance = 0
    MaxReadings = 3
    MaxCatalogs = 1
    Games <- MCGames
    Deliveries <- MCDeliveries
    Asked = {{2}}
    Target <- MCTarget
    Late = 1
    Window = 2
    MaxImports = 2
    MaxInputs = 4
INVARIANTS
    IdentitiesAreDistinct
    ScoreFollowsTeams
    ActiveDataIsWhole
PROPERTIES
    TeamsNeverMove
    GamesHaveOneMatch
