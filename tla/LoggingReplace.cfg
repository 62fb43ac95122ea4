CONSTANTS
    Writers = {t1}
    LoggerNames = {node, openember}
    DefaultName = openember
    MaxLoggers = 4
    LogLevel = 2
    TopicLevel = 2
    RateLimit = 1
SPECIFICATION LoggingSpec
CHECK_DEADLOCK FALSE
INVARIANTS
    InitReplaces
