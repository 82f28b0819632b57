CONSTANTS
    order = order
    note = note
    rcpt = rcpt
    acme = acme
    bolt = bolt
    serve = serve
    Messages = {note, rcpt}
    Receipts = {rcpt}
    Partners = {bolt}
    To <- MCTo
    Flaky = {}
    Procs = {serve}
    RetryWaits = 2
    MaxCrashes = 0
SPECIFICATION FairSpec
PROPERTY RouteReleasesTheQueue
