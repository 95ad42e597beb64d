CONSTANTS
    Modulus = 5
    MaxSent = 4
    MaxCopies = 4
SPECIFICATION FeedSpec
INVARIANT DropsRight
PROPERTY NeverBackwards
CHECK_DEADLOCK FALSE
