CONSTANTS
    g = g  t1 = t1  t2 = t2  assoc = assoc  alice = alice  h1 = h1  h2 = h2  h3 = h3
    NoTxn = NoTxn
    Txns <- MCTxns
    Genesis = g
    Payload <- MCWriteSetsOnly
    BadProto = {}
    Creates <- MCCreates
    Accounts = {assoc, alice}
    Handlers <- MCHandlers
    ChanCap = 1
    MaxCalls = 6
SPECIFICATION Spec
PROPERTIES AcceptedEventuallyRecorded
