\* One connection, and a request to the client server whose handler calls the
\* central server.
CONSTANTS
    u1 = u1
    u2 = u2
    u3 = u3
    Conn = {c1}
    Listener = Listener
    Nobody = Nobody
    UserId = {u1, u2, u3}
    NoUser = NoUser
    MAX_USERS = 3
    InitUsers <- MCUsers
    ListenerCalls = TRUE
    MaxCalls = 1
    MaxDirect = 2
SPECIFICATION FairSpec
CHECK_DEADLOCK FALSE
PROPERTY EveryRequestAnswered
