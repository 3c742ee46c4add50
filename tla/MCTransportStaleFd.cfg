CONSTANTS
    a = a  b = b  o = o  none = none
    Conn = {a, b}
    Other = {o}
    Fd = {1, 2, 3}
    Script <- MCScriptDie
    OtherData <- MCOtherData
    DieFrame <- MCDie
    MaxLen = 2
    NoSock = none
SPECIFICATION Spec
INVARIANT FramesIntact
