\* Source stake: the collector defers its run; two workers, one of which may die.
\* Fairness, hence no symmetry.
SPECIFICATION FairSpec
CONSTANTS
    Workers = {w1, w2}
    Scripts = {stake_markets}
    Admins = {}
    Crons = {2}
    MinuteCron = 1
    LiveScripts = {}
    Deferrals = {"StakeDeferred"}
    BusyDelay = 1
    Cooldown = 1
    None = None
    Cli = Cli
    MaxTime = 4
    MaxRuns = 3
    MaxRevision = 1
    MaxFaults = 2
    MaxLockLosses = 0
PROPERTIES
    NeverStartsEarly
    RunningRunEnds
    DueScheduleIsServed
