CONSTANTS
    Texts <- MCTexts
    Times = {1, 2, 3, 4}
SPECIFICATION Spec
INVARIANTS StampMeansLoaded GuideReleased
PROPERTY FollowsFile
CHECK_DEADLOCK FALSE
