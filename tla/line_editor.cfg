\* Lines of up to two letters of one or two bytes, two lines remembered.
SPECIFICATION Spec
CONSTANTS
    Latin <- MCLatin
    Blank = " "
    Lead <- MCLead
    Trail <- MCTrail
    Cyrillic <- MCCyrillic
    Reads <- MCReads
    MAX_STR_COUNT = 2
    MAX_HISTORY_SIZE = 2
INVARIANTS
    NoHalfLetters
PROPERTIES
    ImplementsEditor
CHECK_DEADLOCK FALSE
