CONSTANTS
    r1 = r1  r2 = r2  r3 = r3  r4 = r4
    s1 = s1  s2 = s2  e1 = e1  e2 = e2
    t1 = t1  u1 = u1  codex = codex  opus = opus
    AnyCat = AnyCat  NoOwner = NoOwner  None = None
    Requests <- MCRequests
    Sessions = {s1, s2}
    Executions = {e1, e2}
    SessionOf <- MCSessionOf
    OwnerOf <- MCOwnerOf
    Scopes <- MCScopes
SPECIFICATION FairSpec
INVARIANTS TypeOK LockIsLive
PROPERTIES HandOver IsWaitingLine WaiterAnswered
CHECK_DEADLOCK FALSE
