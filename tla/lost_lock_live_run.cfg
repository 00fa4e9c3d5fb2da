\* scheduler.py:83: "another worker cannot mistake a live run for an interrupted
\* one".  The lock is as durable as its connection, which nothing checks again.
SPECIFICATION FairSpec
CONSTANTS
    Workers = {w1, w2}
    Scripts = {oracle_latest, oracle_full}
    Admins = {}
    Crons = {2}
    MinuteCron = 1
    LiveScripts = {}
    Deferrals = {}
    BusyDelay = 1
    Cooldown = 1
    None = None
    Cli = Cli
    MaxTime = 3
    MaxRuns = 3
    MaxRevision = 1
    MaxFaults = 0
    MaxLockLosses = 1
PROPERTIES
    LiveRunNotInterrupted
