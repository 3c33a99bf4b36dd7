SPECIFICATION Spec
CONSTANTS
    BootBlink = 1
    IdleBlink = 5
    UsbBlink = 10
    HoldTime = 50
INVARIANTS TypeOK HoldingResets
PROPERTY ShortPressIsHarmless
