SPECIFICATION Spec
CONSTANTS
    Users = {u1, u2}
    None = None
    NoId = NoId
    NumTopics = 2
    Names <- MCNames
    Dataset <- MCDataset
    Modes <- MCModes
    IdKinds = {"string"}
    Configs <- MCConfigs
    MaxUsers = 3
    MaxQuestions = 4
    MessageLimit = 2
CHECK_DEADLOCK FALSE
INVARIANTS
    TypeOK
    AnswersInPlace
    NoAnswerForgotten
    NoEcho
    OneDatasetPerTopic
    NoAbandonedLock
    RepeatsFollowBlanks
PROPERTIES
    TopicIsKept
    TopicsShared
    ExamplesShared
    QuestionIsPosted
