SPECIFICATION Spec
CONSTANTS
    FixedSize = 5
    LineSize = 3
    Lines <- MCLines
    MaxInterrupts = 2
INVARIANTS TypeOK InOrder LineIsOldest LineHasText
PROPERTIES PrintingEnds
