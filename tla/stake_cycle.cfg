\* Two events that begin and end, of two tabs each; a cycle has six actions, so that the
\* bound ends it before the last event, and a window seven requests, more than one cycle.
SPECIFICATION FairSpec
CONSTANTS
    Events = {1, 2}
    Tabs = {a, b}
    Budget = 7
    Bursts = {1}
    MaxActions = 6
    MaxFaults = 2
INVARIANTS
    PublicationIsSound
PROPERTIES
    RequestsAreAllowed
    EveryEventIsServed
