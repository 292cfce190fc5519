\* Votes on proposals while journeys are created and dismissed, users deleted
\* and created, over crashes.
CONSTANTS
    u1 = u1
    u2 = u2
    u3 = u3
    UserId = {u1, u2, u3}
    NoUser = NoUser
    ConnId = {}
    MsgId = {}
    NoId = NoId
    Central = Central
    Clients = {}
    MAX_USERS = 2
    MAX_CONNECTIONS = 2
    MAX_MESSAGES = 2
    FINAL_MATCHES = 3
    InitUsers <- MCUsers
    MaxDeletes = 1
    MayCrash = TRUE
    JourneyId = {j1, j2}
    PropId = {p1}
    MAX_JOURNEYS = 1
    USER_MAX_JOURNEYS = 5
    MAX_PROPOSALS = 1
    Groups <- MCPairAndLone
    MayDismiss = TRUE
SPECIFICATION SpecAll
CHECK_DEADLOCK FALSE
INVARIANT GoalsWereAgreed
 
PROPERTY DeletionLeavesNothingDangling
