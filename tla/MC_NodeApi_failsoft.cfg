CONSTANTS
    a = a  b = b  r1 = r1  r2 = r2  c1 = c1  c2 = c2  c3 = c3
    Nodes <- MCNodes
    Reqs <- MCReqs
    Initiator <- MCInitiator
    Responder <- MCResponder
    AutoApprove <- MCAutoApprove
    Calls <- MCCalls
    Call <- MCCall
    TimeoutValues = {20000}
    DefaultTimeout = 20000
    WalletMayFail = TRUE
    Lossy = FALSE
    NoWaiter = 0
    MaxWaiters = 2
    TypeTag <- MCTypeTag
    ForeignFrames <- MCForeignFrames
SPECIFICATION ASpec
INVARIANT
    FailSoftDispatch
