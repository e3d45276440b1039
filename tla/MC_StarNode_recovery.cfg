CONSTANTS
    a = a
    b = b
    r1 = r1
    r2 = r2
    Nodes <- MCNodes
    Reqs <- MCReqs
    Initiator <- MCInitiator
    Responder <- MCResponder
    AutoApprove <- MCAutoApprove
    TimeoutValues = {20000}
    DefaultTimeout = 20000
    WalletMayFail = FALSE
    Lossy = FALSE
    NoWaiter = 0
    MaxWaiters = 3
    TypeTag <- MCTypeTag
    ForeignFrames <- MCNoForeignFrames
SPECIFICATION Spec
PROPERTY
    AnsweredRecoveryStarts
