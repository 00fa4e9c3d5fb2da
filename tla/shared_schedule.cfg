\* Two administrators edit one schedule while two workers serve it and the server
\* drops the connection of a scheduler lock once: what is left are the revision of the
\* row and the unique index.
SPECIFICATION Spec
CONSTANTS
    Workers = {w1, w2}
    Scripts = {lol_catalog}
    Admins = {a1, a2}
    Crons = {1}
    MinuteCron = 1
    LiveScripts = {}
    Deferrals = {}
    BusyDelay = 1
    Cooldown = 1
    None = None
    Cli = Cli
    MaxTime = 1
    MaxRuns = 1
    MaxRevision = 2
    MaxFaults = 0
    MaxLockLosses = 1
SYMMETRY QueueSymmetry
INVARIANTS
    AtMostOneActive
PROPERTIES
    NoUnseenChange
