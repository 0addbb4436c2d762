\* The lexical analyser and the compiler of the game scripts, on every program of the supported forms
\* and on scripts it cuts short, refuses or breaks on.
SPECIFICATION Spec
CONSTANTS
    Scripts <- MCScripts
    Programs <- MCPrograms
INVARIANTS
    ReadsAsWritten
    CompilesAsWritten
    LandsOnOperators
    
    ListsAreSequences
CHECK_DEADLOCK FALSE
