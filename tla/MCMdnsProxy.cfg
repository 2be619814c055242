CONSTANTS
    MDNS_QUEUE = 2
    LAN_QUEUE = 2
    STALE_LIMIT = 3
    QuestionLists <- MCQuestionLists
    MAX_QUERIES = 3
    MAX_RESTARTS = 1
SPECIFICATION MdnsSpec
INVARIANTS
    NotStale
    QuestionsAsAsked
PROPERTIES
    QueriesTaken
CHECK_DEADLOCK FALSE
