CONSTANTS
    a = a
    b = b
    c = c
    order = order
    answer = answer
    NoNode = NoNode
    Nodes = {a, b}
    Types = {order, answer}
    Scenarios <- TwoCompanies
    MaxCount = 2
SPECIFICATION FairSpec
INVARIANTS
    TypeOK
    AtMostOnce
    ArchivedIsProcessed
PROPERTIES
    FiledStays
    ImplementsPromise
    ServerComesFree

