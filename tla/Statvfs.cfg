SPECIFICATION Spec
CONSTANTS
    Thread = {t1, t2, t3}
    MaxLive = 2
    Interval = 1
    NoOne = NoOne
INVARIANTS TypeOK AnswerIsCurrent
PROPERTY EventuallyCurrent
