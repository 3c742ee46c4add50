------------------------- MODULE StorageReplication -------------------------
(***************************************************************************)
(* The storage tier as the client uses it: storage nodes holding chunks in *)
(* memory, which may be killed and started again empty, and the client's   *)
(* chunk loops, uploadFile (every replica in ring order, the chunk fails   *)
(* only when no replica ACKs) followed by downloadFile (replicas in order, *)
(* the first one that returns data wins, the download stops at the first   *)
(* chunk no replica returns).                                              *)
(*                                                                         *)
(* One replica request is one step.  The node's side of a request is the   *)
(* subject of StorageNode; here a node that dies mid-request loses its     *)
(* memory with it, so the client sees the same outcome as if the node had  *)
(* died just before the request, or just after it answered.               *)
(*                                                                         *)
(* The client uploads any file of at most MaxFileLen bytes: it is split by *)
(* FileUtils and its chunks named by their digests, as uploadFile does;    *)
(* the download ends with reconstructFile.                                 *)
(***************************************************************************)
EXTENDS Naturals, Sequences, FiniteSets, FileUtils

CONSTANTS
    SNode,          \* storage-node addresses
    Chunk,          \* chunk digests
    Byte,           \* the byte values files are made of
    MaxFileLen,     \* bound on the length of the uploaded file
    Digest,         \* Digest[bytes]: computeSHA256, taken to be collision-free
    Replicas,       \* Replicas[ch]: dht_.getNodesForKey(ch, 2), in order
    MaxCrashes      \* bound on the number of node kills

ReplicationFactor == 2      \* replicationFactor in uploadFile

ASSUME \A ch \in Chunk : 1 <= Len(Replicas[ch]) /\ Len(Replicas[ch]) <= ReplicationFactor

VARIABLES
    fileData,       \* the bytes of the file the client uploads
    alive,          \* the node's process is serving its port
    storage,        \* storage[n]: the digests in node n's storage_
    crashes,        \* kills so far
    pc,             \* "up", "down", "done", "empty", "up_failed", "dl_failed"
    chunkIdx,       \* the chunk loop's index, 1-based
    replicaIdx,     \* the inner loop's position in nodes
    successCount,   \* uploadFile's ACK count for the current chunk
    got,            \* downloadFile: got[i] "ok" once chunk i is in chunks
    fetched,        \* downloadFile's chunks vector
    written         \* the result of reconstructFile

vars == <<fileData, alive, storage, crashes, pc, chunkIdx, replicaIdx, successCount, got,
          fetched, written>>

(* uploadFile: splitFileIntoChunks, then hashAllChunks (hash_utils.cpp),   *)
(* which hashes the first size bytes of every chunk.                      *)
Chunks == SplitFileIntoChunks(fileData, TRUE)

HashChunk(c) == Digest[SubSeq(c.data, 1, c.size)]

File == [i \in DOMAIN Chunks |-> HashChunk(Chunks[i])]

NotWritten == [ok |-> FALSE, err |-> "unwritten", out |-> <<>>]

Nodes(i) == Replicas[File[i]]

TypeOK ==
    /\ alive \in [SNode -> BOOLEAN]
    /\ storage \in [SNode -> SUBSET Chunk]
    /\ crashes \in 0 .. MaxCrashes
    /\ fileData \in BoundedSeq(Byte, MaxFileLen)
    /\ pc \in {"up", "down", "done", "empty", "up_failed", "dl_failed"}
    /\ chunkIdx \in 1 .. Len(File) \cup {1}
    /\ replicaIdx \in 1 .. ReplicationFactor + 1
    /\ successCount \in 0 .. ReplicationFactor
    /\ got \in [DOMAIN File -> {"none", "ok", "failed"}]
    /\ fetched \in Seq([index : Nat, hash : Chunk, data : Seq(Nat), size : Nat])
    /\ written.err \in {"unwritten", "none", "empty", "missing", "open"}

(* uploadFile returns at once when the split gives no chunks ("File is    *)
(* empty or not found"): then nothing is uploaded or downloaded.           *)
Init ==
    /\ fileData \in BoundedSeq(Byte, MaxFileLen)
    /\ alive = [n \in SNode |-> TRUE]
    /\ storage = [n \in SNode |-> {}]
    /\ crashes = 0
    /\ pc = IF Chunks = <<>> THEN "empty" ELSE "up"
    /\ chunkIdx = 1
    /\ replicaIdx = 1
    /\ successCount = 0
    /\ got = [i \in DOMAIN File |-> "none"]
    /\ fetched = <<>>
    /\ written = NotWritten

-----------------------------------------------------------------------------
(* Environment: killNode sends DIE, the process exits with its storage_;   *)
(* startStorageNode later serves the same port again with an empty store.  *)
Crash(n) ==
    /\ alive[n]
    /\ crashes < MaxCrashes
    /\ alive' = [alive EXCEPT ![n] = FALSE]
    /\ storage' = [storage EXCEPT ![n] = {}]
    /\ crashes' = crashes + 1
    /\ UNCHANGED <<fileData, pc, chunkIdx, replicaIdx, successCount, got, fetched, written>>

Restart(n) ==
    /\ ~alive[n]
    /\ alive' = [alive EXCEPT ![n] = TRUE]
    /\ UNCHANGED <<fileData, storage, crashes, pc, chunkIdx, replicaIdx, successCount, got, fetched, written>>

-----------------------------------------------------------------------------
(* uploadFile, inner loop: uploadChunkToNode to the next replica.  A       *)
(* running node stores the chunk and ACKs; a dead one refuses the          *)
(* connection and the loop goes on to the next replica.                    *)
UploadToReplicaBreakOnSuccess ==
    /\ pc = "up"
    /\ replicaIdx <= Len(Nodes(chunkIdx))
    /\ LET n == Nodes(chunkIdx)[replicaIdx] IN
       IF alive[n]
       THEN /\ storage' = [storage EXCEPT ![n] = @ \cup {File[chunkIdx]}]
            /\ successCount' = successCount + 1
            /\ replicaIdx' = Len(Nodes(chunkIdx)) + 1
       ELSE /\ replicaIdx' = replicaIdx + 1
            /\ UNCHANGED <<storage, successCount>>
    /\ UNCHANGED <<fileData, alive, crashes, pc, chunkIdx, got, fetched, written>>

UploadToReplica ==
    /\ pc = "up"
    /\ replicaIdx <= Len(Nodes(chunkIdx))
    /\ LET n == Nodes(chunkIdx)[replicaIdx] IN
       IF alive[n]
       THEN /\ storage' = [storage EXCEPT ![n] = @ \cup {File[chunkIdx]}]
            /\ successCount' = successCount + 1
       ELSE UNCHANGED <<storage, successCount>>
    /\ replicaIdx' = replicaIdx + 1
    /\ UNCHANGED <<fileData, alive, crashes, pc, chunkIdx, got, fetched, written>>

(* uploadFile, after the inner loop: no ACK aborts the upload; otherwise   *)
(* the next chunk, or, after the last, the download of the file.           *)
NextChunkNoReset ==
    /\ pc = "up"
    /\ replicaIdx > Len(Nodes(chunkIdx))
    /\ IF successCount = 0
       THEN /\ pc' = "up_failed"
            /\ UNCHANGED <<chunkIdx, replicaIdx, successCount>>
       ELSE /\ pc' = IF chunkIdx = Len(File) THEN "down" ELSE "up"
            /\ chunkIdx' = IF chunkIdx = Len(File) THEN 1 ELSE chunkIdx + 1
            /\ replicaIdx' = 1
            /\ UNCHANGED successCount
    /\ UNCHANGED <<fileData, alive, storage, crashes, got, fetched, written>>

NextChunk ==
    /\ pc = "up"
    /\ replicaIdx > Len(Nodes(chunkIdx))
    /\ IF successCount = 0
       THEN /\ pc' = "up_failed"
            /\ UNCHANGED <<chunkIdx, replicaIdx, successCount>>
       ELSE /\ pc' = IF chunkIdx = Len(File) THEN "down" ELSE "up"
            /\ chunkIdx' = IF chunkIdx = Len(File) THEN 1 ELSE chunkIdx + 1
            /\ replicaIdx' = 1
            /\ successCount' = 0
    /\ UNCHANGED <<fileData, alive, storage, crashes, got, fetched, written>>

-----------------------------------------------------------------------------
(* downloadFile, inner loop: downloadChunkFromNode from the next replica.  *)
(* Data ends the loop and the chunk is kept; a dead node or NOT_FOUND      *)
(* gives no data and the loop goes on; after the last replica with no      *)
(* data the download stops ("Failed to retrieve chunk").                   *)
HasChunk(n, ch) == alive[n] /\ ch \in storage[n]

(* The bytes a node returns for a digest: the chunk data the client sent   *)
(* with that digest in its STORE.                                          *)
ContentOf(ch) == (CHOOSE c \in Range(Chunks) : HashChunk(c) = ch).data

(* Mutant: the downloaded chunk is numbered from 1.                        *)
FetchedChunkIndexFromOne(i) ==
    [index |-> i, hash |-> File[i], data |-> ContentOf(File[i]),
     size |-> Len(ContentOf(File[i]))]

(* The Chunk that downloadFile builds for the i-th digest of the manifest. *)
FetchedChunk(i) ==
    [index |-> i - 1, hash |-> File[i], data |-> ContentOf(File[i]),
     size |-> Len(ContentOf(File[i]))]

(* The chunk arrived: keep it and go on to the next digest; after the last *)
(* one the loop ends and reconstructFile writes the output file, whose    *)
(* creation may fail.                                                      *)
Retrieved ==
    /\ got' = [got EXCEPT ![chunkIdx] = "ok"]
    /\ fetched' = Append(fetched, FetchedChunk(chunkIdx))
    /\ replicaIdx' = 1
    /\ IF chunkIdx = Len(File)
       THEN /\ pc' = "done"
            /\ \E opened \in BOOLEAN : written' = ReconstructFile(fetched', opened)
            /\ UNCHANGED chunkIdx
       ELSE /\ pc' = "down"
            /\ chunkIdx' = chunkIdx + 1
            /\ UNCHANGED written

(* No replica gave data: "Failed to retrieve chunk", downloadFile returns. *)
NotRetrieved ==
    /\ got' = [got EXCEPT ![chunkIdx] = "failed"]
    /\ pc' = "dl_failed"
    /\ UNCHANGED <<chunkIdx, replicaIdx, fetched, written>>

DownloadFromReplicaNoFallback ==
    /\ pc = "down"
    /\ IF HasChunk(Nodes(chunkIdx)[replicaIdx], File[chunkIdx])
       THEN Retrieved
       ELSE NotRetrieved
    /\ UNCHANGED <<fileData, alive, storage, crashes, successCount>>

DownloadFromReplica ==
    /\ pc = "down"
    /\ CASE HasChunk(Nodes(chunkIdx)[replicaIdx], File[chunkIdx]) -> Retrieved
         [] replicaIdx < Len(Nodes(chunkIdx)) ->
              /\ replicaIdx' = replicaIdx + 1
              /\ UNCHANGED <<got, pc, chunkIdx, fetched, written>>
         [] OTHER -> NotRetrieved
    /\ UNCHANGED <<fileData, alive, storage, crashes, successCount>>

(* uploadFile and downloadFile have returned; nodes may still be killed    *)
(* or started until the bound, then the system is quiet.                   *)
Finished ==
    /\ pc \in {"done", "empty", "up_failed", "dl_failed"}
    /\ UNCHANGED vars

ClientStep == UploadToReplica \/ NextChunk \/ DownloadFromReplica

Next ==
    \/ \E n \in SNode : Crash(n) \/ Restart(n)
    \/ ClientStep
    \/ Finished

(* The client is one thread that is never starved; kills and restarts are  *)
(* the operator's and get no fairness.                                     *)
Spec == Init /\ [][Next]_vars /\ WF_vars(ClientStep)

-----------------------------------------------------------------------------
(* The chunks some running node holds, and the refinement: the storage     *)
(* tier with the client's loops implements ChunkStore.  A download fails   *)
(* on a chunk only if no node holds it when the last replica answers, and  *)
(* succeeds only with a chunk some node holds.                             *)
Avail == UNION {storage[n] : n \in {m \in SNode : alive[m]}}

CS == INSTANCE ChunkStore WITH file <- File, avail <- Avail

ImplementsChunkStore == CS!Spec

(* Spec 8, replica tolerance: with every chunk placed on two nodes and at  *)
(* most one node killed (and perhaps started again empty), uploadFile      *)
(* completes and downloadFile returns every chunk: the upload loop writes  *)
(* every replica and the download loop falls through to the next one.      *)
SingleFailureTolerated ==
    crashes <= 1 => pc \notin {"up_failed", "dl_failed"}

(* splitFileIntoChunks and reconstructFile on the uploaded file, against  *)
(* the reference chunking of FileUtils: the split is the reference split,  *)
(* and reconstructFile writes the file back from its chunks in any order   *)
(* and refuses a list with a gap or a repeated chunk.                      *)
SplitAndReconstructCorrect == ChunkingCorrect(fileData)

(* downloadFile after uploadFile writes the uploaded file back: when the   *)
(* chunk loop completes, reconstructFile succeeds with exactly the bytes   *)
(* that splitFileIntoChunks read, unless the output file cannot be         *)
(* created.  A repeated chunk is fetched by its shared digest, a short     *)
(* last chunk keeps its size, and the indices the download assigns must    *)
(* be the ones reconstructFile checks.                                     *)
DownloadReturnsFile ==
    pc = "done" => \/ written.ok /\ written.out = fileData
                   \/ written.err = "open"
=============================================================================
