\* The class book's lesson content saves each field when it is left: refuted,
\* the three fields share one timer.
SPECIFICATION ContentSpec
CONSTANTS
    Fields = {thema, lehrstoff, hausaufgabe}
    NoField = NoField
    MaxChanges = 1
INVARIANT EachFieldSavesOnBlur
CHECK_DEADLOCK FALSE
