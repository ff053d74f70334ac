SPECIFICATION Spec
CONSTANTS
    None = None
    Panels = {p1, p2}
    MaxRows = 3
    Cap = 1
    i1 = i1
    i2 = i2
    t1 = t1
    t2 = t2
    Items = {i1, i2}
    Calls = {c1}
    Texts = {t1, t2}
    Says <- TwoReadings
INVARIANTS TypeOK PanelsHoldWhatTheyShow SpeechFindsItsSource
PROPERTIES EndedStaysEnded MicrophoneReleased CallsSettle
CHECK_DEADLOCK FALSE
