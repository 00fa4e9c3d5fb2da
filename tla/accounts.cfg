\* Two administrators and a registration: they try and replace codes, and edit
\* each other while logins are under way.
SPECIFICATION Spec
CONSTANTS
    Emails = {ann, bob, cyd}
    Provisioned = {ann, bob}
    Requests = {r1, r2}
    None = None
    MaxAttempts = 1
    CodeIds = {c1, c2, c3}
    MaxSessions = 2
SYMMETRY AccountSymmetry
INVARIANTS
    CodesAreSound
    ActiveAdminRemains
    SessionsAreCurrent
PROPERTIES
    ImplementsSerial
