\* Two ports, two or three requests about one area of the files, a crash.
SPECIFICATION Spec
CONSTANTS
    None = None
    NotSaved = NotSaved
    Missing = Missing
    Torn = Torn
    Directory = Directory
    Ports = {own, forwarded}
    Texts = {"a"}
    GoalEvents <- MCEvents
    GoalIds = {"g1", "g2"}
    Keys = {"onboarded"}
    Values = {"0", "1"}
    ReminderIds = {"r1", "r2", "r3"}
    Looks = {"l1", "l2"}
    Pictures = {"png", "jpg"}
    EntryIds = {e1}
    REMINDERS_MAX = 2
    EMBEDS_READ = 3
    LINES = 2
    Areas = {"profile", "reminders", "journal", "user"}
    MaxRequests <- MCRequests
    MaxCrashes = 1
SYMMETRY Symmetry
CHECK_DEADLOCK FALSE
INVARIANT FilesKeep
 
INVARIANT PrivateStaysPrivate
