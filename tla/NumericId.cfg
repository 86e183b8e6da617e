SPECIFICATION SafeSpec
CONSTANTS
    Users = {u1}
    None = None
    NoId = NoId
    NumTopics = 2
    Names <- MCNames
    Dataset <- MCDataset
    Modes <- MCModes
    IdKinds = {"string", "number"}
    Configs <- MCConfigs
    MaxUsers = 1
    MaxQuestions = 4
    MessageLimit = 2
CHECK_DEADLOCK FALSE
INVARIANT
    AnswerIsFound
