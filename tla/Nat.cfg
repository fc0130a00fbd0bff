SPECIFICATION FairSpec
CONSTANTS
    Nats <- SomeNats
    MaxTries = 1
    MaxRebuilds = 1
    Troubles = 1
INVARIANTS VerdictHolds
PROPERTIES Restores Settles
