SPECIFICATION FairSpec
CONSTANTS
    a = a
    b = b
    opA = opA
    opB = opB
    h1 = h1
    h2 = h2
    tasks = tasks
    NoOp = NoOp
    NoRequest = NoRequest
    Free = Free
    Orphan = Orphan
    Clients <- MCClients
    Requests <- MCRequests
    Fields <- MCFields
    OpIds <- MCOpIds
    Payloads <- MCPayloads
    MaxAudit = 2
    MaxWrites = 4
INVARIANTS
    TypeOK
    AckedSurvives
    AtMostOnceWhileRemembered
    StateRevisionsOrdered
    OutcomesAreTruthful
PROPERTIES
    NoSilentWipe
    ImplementsMutationLog
    ImplementsCrashLock
    CallEnds
