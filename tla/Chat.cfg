\* Two chats in a table of one, one topic of conversation at a time, a crash.
SPECIFICATION Spec
CONSTANTS
    None = None
    Free = Free
    Garbage = Garbage
    Sessions = {"page", "panel"}
    Names = {"age", "focus", "secret"}
    Keys = {"age", "focus"}
    Sensitive = {"age"}
    Values = {"v1", "v2"}
    Goals = {"g1", "g2"}
    Begun = {"g1"}
    Graph = "graph"
    Record = "record"
    Chats <- MCChats
    Said <- MCSaid
    Tabs = {t1, t2}
    MAX_RETRIES = 2
    HISTORY_CAP = 1
    MAX_PENDING = 1
    MAX_SSE_CLIENTS = 1
    REMINDERS_MAX = 1
    Topics = {"goals", "profile", "reminding", "streams"}
    Answers <- MCAnswers
    MaxTurns <- MCTurns
    MaxReplies <- MCReplies
    MaxTabs <- MCTabs
    MaxCrashes = 1
CHECK_DEADLOCK FALSE
INVARIANT SessionsWhole
INVARIANT StreamsFollow
 
 
PROPERTY MessageAnswered
