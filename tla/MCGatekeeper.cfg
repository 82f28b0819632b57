CONSTANTS
    acme = acme
    bolt = bolt
    full = full
    cited = cited
    Serve = serve
    Terminal = terminal
    Writers = {serve, terminal}
    Events = {"refused", "reprocessed", "decision"}
    MaxLines = 2
    MaxEdits = 1
    Companies = {acme, bolt}
    MaxInits <- MCInits
    Messages = {full, cited}
    From <- MCFrom
    Complete = {full}
SPECIFICATION Spec
INVARIANTS
    TypeOK
    VerifiedIsWhatWasRecorded
    BreaksForAReason
    OneAfterTheOtherIsListed
    GenuineIsAccepted
PROPERTIES
    BrokenStaysBroken
CHECK_DEADLOCK FALSE
