\* The chat page's drafts and submissions over lost and late answers.
SPECIFICATION LiveSpec
CONSTANTS
    Keys = {0, 1, 2, 3}
    Texts = {1, 2, 3}
    Attachments = {1}
    MaxSubmissions = 3
    MaxSessions = 3
    Models = {1, 2}
    DefaultModel = 1
    Projects = {7}
    Scenarios <- MCScenarios
INVARIANTS NothingVanishes SentOnce
PROPERTY KeepsCustody
CHECK_DEADLOCK FALSE
