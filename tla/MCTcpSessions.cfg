SPECIFICATION Spec
CONSTANTS
    acct = acct
    h1 = h1
    h2 = h2
    NoHandle = NoHandle
    NumSessions = 2
    Handles <- MCHandles
    Accounts <- MCAccounts
    Notifications <- MCNotifications
    LoginRequests <- MCRequests
    MaxNotify = 2
    Clock <- MCClock
    IdsPerMilli = 2
    NoAccount = NoAccount
    NoSession = NoSession
    NoRequest = NoRequest
SYMMETRY HandleSymmetry
INVARIANTS
    TypeOK
    OneWriteAtATime
    NoneOvertakes
    NothingMissed
CHECK_DEADLOCK FALSE
