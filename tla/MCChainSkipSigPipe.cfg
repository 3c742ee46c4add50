\* The chain-failure scenario of spec 8 (scenario 6): skip links preset, DIE
\* to the MIDDLE; the HEAD adopts its skip link and announces itself by
\* UPDATE_PREV.
CONSTANTS
    m1 = m1  m2 = m2  m3 = m3  m4 = m4  f1 = f1  f2 = f2  c1 = c1  c2 = c2
    None = None
    Node = {m1, m2, m3}
    Chain <- MCChain
    Endpoints <- MCChain
    File = {f1, f2}
    Client = {c1, c2}
    Script <- FailoverScript
    SkipPreset = {m1, m2, m3}
    Crashable = {}
    MaxCrashes = 1
    Killable = {m2}
SPECIFICATION Spec
INVARIANT OnlyInjectedFailures
