SPECIFICATION Spec
CONSTANTS
    Content = {good1, good2, bad1, bad2}
    Valid = {good1, good2}
    Absent = Absent
    Torn = Torn
    MaxCrashes = 0
PROPERTY RollbackUndoesAttempt
