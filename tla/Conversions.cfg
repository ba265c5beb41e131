CONSTANTS
    Lines <- MCLines
    MaxLines = 4
    Contents <- MCContents
    MaxSize = 110
    Lengths = {0, 2, 4, 14, 16, 28, 46}
    WcidCount = 16
    FullStick = 15
    FullTrigger = 1023
    FullByte = 255
SPECIFICATION Spec
INVARIANTS FileMeaning TriggerShape StickShape CrystalMeant PowerMeant PacketsFit
CHECK_DEADLOCK FALSE
