SPECIFICATION FairSpec
CONSTANT Settings <- MCFailing
PROPERTY RaiseIsRetried
CHECK_DEADLOCK FALSE
