\* Four nodes with skip links preset by SET_SKIP before the clients start
\* (spec 8, scenario 6); any two nodes fail, and the second may be sent DIE.
\* The skip link of the HEAD leads to a node constructed as HEAD, so
\* UPDATE_PREV changes its role, and a node may end by SIGPIPE when it
\* replies to a closed peer.  c1 writes and reads f1 while c2 reads it.
CONSTANTS
    m1 = m1  m2 = m2  m3 = m3  m4 = m4  f1 = f1  f2 = f2  c1 = c1  c2 = c2
    None = None
    Node = {m1, m2, m3, m4}
    Chain <- MCChain4
    Endpoints <- MCChain4
    File = {f1, f2}
    Client = {c1, c2}
    Script <- WriteReadScript
    SkipPreset = {m1, m2, m3, m4}
    Crashable = {m1, m2, m3, m4}
    MaxCrashes = 2
    Killable = {m2}
SPECIFICATION Spec
INVARIANT RoleAgreesWithLinks
PROPERTY ClientsTerminate
