CONSTANTS
    q1 = q1
    q2 = q2
    d1 = d1
    d2 = d2
    None = None
    Request = {q1, q2}
    Device = {d1, d2}
    MaxRestarts = 1
SPECIFICATION Spec
INVARIANTS
    StoppedIsNeverShown
    ShownIsContinued
    DeviceIsStored
PROPERTIES
    QuestionsEnd
