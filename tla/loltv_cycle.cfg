\* A series of two maps, shown late or in time, also by an archived capture; one failure
\* or crash anywhere.
SPECIFICATION Spec
CONSTANTS
    Events = {"a"}
    Maps = 2
    Archived = {"a"}
    MaxFaults = 1
INVARIANTS
    CheckpointIsSound
PROPERTIES
    EndIsPublished
