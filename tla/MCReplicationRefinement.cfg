SPECIFICATION Spec
CONSTANTS
    n1 = n1
    n2 = n2
    n3 = n3
    d0 = d0
    d1 = d1
    d00 = d00
    d01 = d01
    d10 = d10
    d11 = d11
    SNode = {n1, n2, n3}
    Chunk = {d0, d1, d00, d01, d10, d11}
    Byte = {0, 1}
    MaxFileLen = 5
    ChunkSize = 2
    Digest <- MCDigest
    Replicas <- MCReplicas
    MaxCrashes = 2
INVARIANT TypeOK
INVARIANT SingleFailureTolerated
INVARIANT SplitAndReconstructCorrect
INVARIANT DownloadReturnsFile
PROPERTY ImplementsChunkStore
