CONSTANTS
    order = order
    note = note
    rcpt = rcpt
    acme = acme
    bolt = bolt
    serve = serve
    Messages = {order, note, rcpt}
    Receipts = {rcpt}
    Partners = {acme, bolt}
    To <- MCTo
    Flaky = {bolt}
    Procs = {serve}
    RetryWaits = 1
    MaxCrashes = 1
SPECIFICATION Spec
INVARIANTS
    TypeOK
    DeliveredIsVerified
    NothingStalls
PROPERTIES
    ConfirmationSticks
    GivesUpOnlyAfterRetries
    ImplementsPromise
