\* Nodes fail from the TAIL upwards (at most two failures, the TAIL and then
\* the new TAIL) while PUTs are in flight; no skip links are preset, the
\* operator may send SET_SKIP at any time, so a skip link may lead to a node
\* that has already failed.
CONSTANTS
    m1 = m1  m2 = m2  m3 = m3  m4 = m4  f1 = f1  f2 = f2  c1 = c1  c2 = c2
    None = None
    Node = {m1, m2, m3}
    Chain <- MCChain
    Endpoints <- MCChain
    File = {f1, f2}
    Client = {c1, c2}
    Script <- SingleWriterScript
    SkipPreset = {}
    Crashable = {m2, m3}
    MaxCrashes = 2
    Killable = {}
SPECIFICATION Spec
CONSTRAINT FailuresFromTail
INVARIANT TypeOK
INVARIANT ReadNotStale
INVARIANT QuiescentConvergence
PROPERTY ClientsTerminate
PROPERTY ChainEventuallyLinked
