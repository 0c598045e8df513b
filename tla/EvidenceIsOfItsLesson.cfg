CONSTANTS
    Lesson = {la, lb}
    Evidence = {e1}
    SessionId = {s1}
    Slot = {w1}
    Errand = {x1}
    None = None
    MaxFaults = 0
    MaxSwitches = 1
SPECIFICATION Spec
INVARIANT EvidenceIsOfItsLesson
CHECK_DEADLOCK FALSE
