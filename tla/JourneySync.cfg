\* Two people and two steps; pushes of one handler or two on their way, a
\* connection that fails, a restart and a crash.
CONSTANTS
    ann = ann
    ben = ben
    Participants <- MCParticipants
    Gone = Gone
    NoFile = NoFile
    NoOne = NoOne
    Sizes = {2}
    Owners <- MCOwners
    MAX_JOURNEYS = 3
    Elsewhere = 1
    MaxFlight = 2
    MaxPasses = 1
    MaxTroubled = 1
    MaxFaults = 1
SPECIFICATION FairSpec
CHECK_DEADLOCK FALSE
 
INVARIANT EndsOnlyAfterTrouble
 
PROPERTY ToldArrives
