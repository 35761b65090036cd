SPECIFICATION RetireSpec
CONSTANTS
    a = a
    b = b
    opA = opA
    opB = opB
    h1 = h1
    tasks = tasks
    NoOp = NoOp
    NoRequest = NoRequest
    Free = Free
    Orphan = Orphan
    Clients <- MCClients
    Requests <- MCRequests
    Fields <- MCFields
    OpIds <- MCOpIds
    Payloads <- MCPayloads
    MaxAudit = 2
    MaxWrites = 3
    NoRecord = NoRecord
    Closing <- MCClosing
INVARIANTS
    RecordNeverLost
    AckedBeforeCloseSurvives
PROPERTY
    LogUntilCopied
