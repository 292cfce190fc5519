\* Three people and one place for a connection: a proposal in a confirmed pair's chat,
\* and a user deleted before its pair is confirmed.
CONSTANTS
    u1 = u1
    u2 = u2
    u3 = u3
    UserId = {u1, u2, u3}
    NoUser = NoUser
    ConnId = {c1, c2}
    MsgId = {m1}
    NoId = NoId
    Central = Central
    Clients = {}
    MAX_USERS = 3
    MAX_CONNECTIONS = 1
    MAX_MESSAGES = 2
    FINAL_MATCHES = 2
    InitUsers <- MCThreeUsers
    MaxDeletes = 1
    MayCrash = FALSE
    JourneyId = {j1}
    PropId = {p1}
    MAX_JOURNEYS = 2
    USER_MAX_JOURNEYS = 5
    MAX_PROPOSALS = 1
    Groups <- MCNoGroups
    MayDismiss = FALSE
SPECIFICATION SpecAll
SYMMETRY Symm
CHECK_DEADLOCK FALSE
INVARIANT ChatOnlyBetweenApproved
 
 
