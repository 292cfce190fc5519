\* Two threads run the matcher at once; one crash, one deletion.
CONSTANTS
    u1 = u1
    u2 = u2
    u3 = u3
    UserId = {u1, u2, u3}
    NoUser = NoUser
    ConnId = {c1, c2, c3}
    MsgId = {m1}
    NoId = NoId
    Central = Central
    Clients = {Client}
    MAX_USERS = 2
    MAX_CONNECTIONS = 2
    MAX_MESSAGES = 1
    FINAL_MATCHES = 1
    InitUsers <- MCUsers
    MaxDeletes = 1
    MayCrash = TRUE
SYMMETRY Symm
SPECIFICATION Spec
CHECK_DEADLOCK FALSE
INVARIANT OneConnectionPerPair
INVARIANT InitiatorApprovesFirst
INVARIANT DiskMatchesMemory
PROPERTY DeclinedIsFinal
