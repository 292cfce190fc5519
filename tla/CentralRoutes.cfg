\* Three connections of any kind, requests to the client server that need no
\* answer of the central server.
CONSTANTS
    u1 = u1
    u2 = u2
    u3 = u3
    Conn = {c1, c2, c3}
    Listener = Listener
    Nobody = Nobody
    UserId = {u1, u2, u3}
    NoUser = NoUser
    MAX_USERS = 3
    InitUsers <- MCUsers
    ListenerCalls = FALSE
    MaxCalls = 1
    MaxDirect = 2
SPECIFICATION FairSpec
CHECK_DEADLOCK FALSE
INVARIANT ActiveUserIsSelected
INVARIANT ListenerKeepsItsUser
PROPERTY EveryRequestAnswered
