\* Source loltv: one administrator asks for runs, edits and pauses the minute schedule
\* while its only worker dies, is restarted and meets blocks; live deadlines wake the
\* schedule between two instants of the cron.
SPECIFICATION FairSpec
CONSTANTS
    Workers = {w1}
    Scripts = {loltv_matches}
    Admins = {a1}
    Crons = {2}
    MinuteCron = 2
    LiveScripts = {loltv_matches}
    Deferrals = {"LoltvBlocked"}
    BusyDelay = 1
    Cooldown = 1
    None = None
    Cli = Cli
    MaxTime = 2
    MaxRuns = 1
    MaxRevision = 2
    MaxFaults = 1
    MaxLockLosses = 0
PROPERTIES
    LiveDeadlineIsServed
    QueuedRunIsTaken
