\* Source oracles-elixir: two scripts share one lock, two workers serve it during
\* a redeployment, nobody edits the schedules and no lock connection is lost.
SPECIFICATION Spec
CONSTANTS
    Workers = {w1, w2}
    Scripts = {oracle_latest, oracle_full}
    Admins = {}
    Crons = {2}
    MinuteCron = 1
    LiveScripts = {}
    Deferrals = {}
    BusyDelay = 1
    Cooldown = 1
    None = None
    Cli = Cli
    MaxTime = 4
    MaxRuns = 3
    MaxRevision = 1
    MaxFaults = 2
    MaxLockLosses = 0
SYMMETRY WorkerSymmetry
INVARIANTS
    TypeOK
    ClaimsAreExclusive
    OnePerCronInstant
PROPERTIES
    LiveRunNotInterrupted
    ImplementsLedger
