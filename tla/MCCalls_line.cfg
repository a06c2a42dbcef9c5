SPECIFICATION Spec
CONSTANTS
    None = None
    User = {md, ann, ben}
    Top = {md}
    Call = {k1}
    CallRequest = {q1}
    MaxParty = 2
    MaxGone = 2
INVARIANT
    BothHear
PROPERTY
    LastOneOutEndsIt
\* A call comes to its end and people may stop calling.
CHECK_DEADLOCK FALSE
