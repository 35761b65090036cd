SPECIFICATION StoreSpec
CONSTANTS
    a = a
    s = s
    opA = opA
    opB = opB
    h1 = h1
    tasks = tasks
    NoOp = NoOp
    NoRequest = NoRequest
    Free = Free
    Orphan = Orphan
    Clients <- MCClients
    Requests <- MCRequests
    Fields <- MCFields
    OpIds <- MCOpIds
    Payloads <- MCPayloads
    MaxAudit = 2
    MaxWrites = 3
    NoCopy = NoCopy
    StoreCallers <- MCStoreCallers
INVARIANT AckedSurvives
