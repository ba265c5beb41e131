CONSTANTS
    Texts <- MCTexts
    Times = {1, 2, 3, 4}
SPECIFICATION Spec
PROPERTIES SavedApply
CHECK_DEADLOCK FALSE
