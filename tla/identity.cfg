\* One event that is read five ways, a match and its rematch, and the next match of one
\* of their teams; LoLTV corrects its results, Oracle's Elixir gives one.
SPECIFICATION Spec
CONSTANTS
    Teams <- MCTeams
    NamesOf <- MCNamesOf
    CodesOf <- MCCodesOf
    BookIds <- MCBookIds
    Sourced = {"A", "B", "C"}
    Unknown = {"tbd"}
    Words <- MCWords
    Qualifiers <- MCQualifiers
    Generic = {}
    Divisions = {}
    Acronyms = {}
    Tolerance = 1
    Events = {"e"}
    Matches <- MCMatches
    Fixed <- MCFixed
    StartsOf <- MCStartsOf
    Readings <- MCReadings
    Aliases <- MCAliases
    Competitions <- MCCompetitions
    MaxChanges = 5
    Payloads <- MCPayloads
    Format <- MCFormat
    Numbers = {1, 3}
    Delay = 1
    MaxClock = 2
INVARIANTS
    LinksAreJustified
    ResultsAreConsistent
PROPERTIES
    LinkNeverMoves
    DecisionsAreProved
