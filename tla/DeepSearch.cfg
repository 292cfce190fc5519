\* A graph of five nodes and a search of at most three judged rounds.
SPECIFICATION FairSpec
CONSTANTS
    None = None
    Torn = Torn
    Words = {"rust", "ada", "go", "c99"}
    Settles <- MCSettles
    Vocabulary <- MCVocabulary
    LongWords = {"c99"}
    Context <- MCContext
    MAX_NODES = 5
    MAX_LINKS = 4
    MaxMentions = 2
    DS_MAX_EXTERNAL_ROUNDS = 4
    MAX_IDEPTH = 3
    COMMAND_COUNT = 9
    MAX_FAMILY_DEPTH = 3
    MinDepths = {3}
    Percentages = {0, 50, 100}
    Depths = {1, 4}
    Strengths = {1, 2}
CHECK_DEADLOCK FALSE
INVARIANT GraphSound
PROPERTY RestartKeepsGraph
INVARIANT CommandsRight
INVARIANT SearchHonest
PROPERTY SearchEnds
