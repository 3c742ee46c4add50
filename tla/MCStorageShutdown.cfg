\* Upload, download and DIE race; close() wakes a blocked accept().
CONSTANTS
    k1 = k1  k2 = k2  k3 = k3  d1 = d1
    Conn = {k1, k2, k3}
    Digest = {d1}
    Cmd <- MCCmd
    CloseWakesAccept = TRUE
SPECIFICATION Spec
INVARIANT TypeOK
INVARIANT StartReturnsOnlyWhenIdle
PROPERTY PeersComplete
