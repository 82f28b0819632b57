CONSTANTS
    a = a
    b = b
    c = c
    order = order
    answer = answer
    NoNode = NoNode
    Nodes = {a, b, c}
    Types = {order, answer}
    Scenarios <- ThreeCompanies
    MaxCount = 4
SPECIFICATION Spec
INVARIANT DeliveredIsReceipted
CHECK_DEADLOCK FALSE
