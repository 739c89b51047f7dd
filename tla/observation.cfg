SPECIFICATION Spec
CONSTANTS
    Users = {u1}
    Readers = {r1}
    TTL = 1
    ScanTime = 1
    MaxBytes = 2
INVARIANT AnswersAreFresh
 
PROPERTY StaleOnlyByOverlap
CONSTRAINT CountersSound
