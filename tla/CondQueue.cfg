SPECIFICATION FairSpec
CONSTANTS
    Max = 10
    ProducerSleep = 2
    ConsumerSleep = 3
    MaxSpurious = 2
INVARIANTS NoLostWakeup DoneMeansDrained
PROPERTIES Terminates
CHECK_DEADLOCK FALSE
