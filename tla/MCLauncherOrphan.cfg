SPECIFICATION FairSpec
CHECK_DEADLOCK FALSE
PROPERTY NoOrphan
