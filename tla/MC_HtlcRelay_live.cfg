CONSTANTS
    a = a  b = b  c = c
    Nodes <- MCNodes
    Reqs <- MCReqs
    Initiator <- MCInitiator
    Responder <- MCResponder
    Path <- MCPath
    AutoApprove <- MCAllAuto
    TimeoutValues = {20000}
    DefaultTimeout = 20000
    WalletMayFail = FALSE
    Lossy = FALSE
    NoWaiter = 0
    NoHop = NoHop
    MaxWaiters = 4
    TypeTag <- MCTypeTag
    ForeignFrames <- MCSomeForeignFrames
SPECIFICATION HSpec
INVARIANTS HTypeOK HopsFollowPath
PROPERTIES PayeeAppliedSettles
