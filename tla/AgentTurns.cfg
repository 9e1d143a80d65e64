SPECIFICATION Spec
CONSTANTS
    Profiles <- MCProfiles
    McpNames = {"gh__star"}
    BundledSkills = {"kim-im"}
    MAX_TURNS = 2
    MAX_CALLS = 2
    MAX_FAULTS = 1
    HARD = 2
    MAX_RECOVERIES = 1
    Bots = {b1}
    Questions = {0, 1, 2}
    Sources = {push}
    QUEUE_CAP = 1
    RECENT_TURN_CAP = 1
    MAX_YIELDS = 1
    MAX_EPOCH = 2
INVARIANTS ToolsControlled QuestionsOnce
PROPERTIES
    TurnEnds
