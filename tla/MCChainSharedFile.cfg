\* Two clients upload the same file name at once; no failures.
CONSTANTS
    m1 = m1  m2 = m2  m3 = m3  m4 = m4  f1 = f1  f2 = f2  c1 = c1  c2 = c2
    None = None
    Node = {m1, m2, m3}
    Chain <- MCChain
    Endpoints <- MCChain
    File = {f1, f2}
    Client = {c1, c2}
    Script <- SharedFileScript
    SkipPreset = {}
    Crashable = {}
    MaxCrashes = 0
    Killable = {}
SPECIFICATION Spec
INVARIANT QuiescentConvergence
