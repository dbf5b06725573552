SPECIFICATION Spec
CONSTANTS
    MaxSize = 2
    MaxEvents = 5
INVARIANTS OldFileFinished
