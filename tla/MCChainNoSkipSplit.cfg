\* The deployment as the repository wires it: nothing sends SET_SKIP, and
\* the MIDDLE node fails.
CONSTANTS
    m1 = m1  m2 = m2  m3 = m3  m4 = m4  f1 = f1  f2 = f2  c1 = c1  c2 = c2
    None = None
    Node = {m1, m2, m3}
    Chain <- MCChain
    Endpoints <- MCChain
    File = {f1, f2}
    Client = {c1, c2}
    Script <- SingleWriterScript
    SkipPreset = {}
    Crashable = {m2}
    MaxCrashes = 1
    Killable = {}
SPECIFICATION Spec
INVARIANT ReadNotStale
