SPECIFICATION FairSpec
CONSTANTS
    t1 = t1
    Topic <- MCTopic
    TopicNames <- MCTopicNames
    QueueSize = 2
    MaxConnects = 2
    MaxSubIds = 3
    MaxFrames = 3
    NoFrame = NoFrame
INVARIANTS
    TypeOK
    SubscriptionsKept
PROPERTIES
    EndsWhenItMust
    FramesHandled
    ImplementsChannel
CHECK_DEADLOCK FALSE
