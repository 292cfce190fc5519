\* Two people are matched and confirmed while a client handler also matches;
\* no crash, no deletion, no dismissal.
CONSTANTS
    u1 = u1
    u2 = u2
    u3 = u3
    UserId = {u1, u2}
    NoUser = NoUser
    ConnId = {c1}
    MsgId = {}
    NoId = NoId
    Central = Central
    Clients = {Client}
    MAX_USERS = 2
    MAX_CONNECTIONS = 2
    MAX_MESSAGES = 2
    FINAL_MATCHES = 3
    InitUsers <- MCUsers
    MaxDeletes = 0
    MayCrash = FALSE
    JourneyId = {j1, j2}
    PropId = {}
    MAX_JOURNEYS = 2
    USER_MAX_JOURNEYS = 5
    MAX_PROPOSALS = 2
    Groups <- MCPairs
    MayDismiss = FALSE
SPECIFICATION FairSpec
PROPERTY ConfirmationLeadsToJourney
