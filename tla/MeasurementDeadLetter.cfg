\* A dead-letter message that is lost.
SPECIFICATION Spec
CONSTANTS
    m1 = m1
    m2 = m2
    Messages = {m1, m2}
    Kinds = {"dead_letter"}
INVARIANT DeadLetterLossJudged
