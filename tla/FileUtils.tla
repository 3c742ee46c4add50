------------------------------ MODULE FileUtils ------------------------------
(***************************************************************************)
(* The chunking of src/src/common/file_utils.cpp: splitFileIntoChunks,    *)
(* which reads a file CHUNK_SIZE bytes at a time, and reconstructFile,    *)
(* which sorts the chunks by index, checks that the indices are 0..n-1     *)
(* and writes the chunks' bytes in that order.  A file is a sequence of    *)
(* bytes; a chunk is a record [index, size, data] as in common/chunk.hpp.  *)
(***************************************************************************)
EXTENDS Naturals, Sequences, SequencesExt, TLC

CONSTANT ChunkSize      \* CHUNK_SIZE (file_utils.hpp); 1 MiB in the build

ASSUME ChunkSize \in Nat \ {0}

(* Mutant: the loop runs only while file.read() fills the whole buffer     *)
(* (the "|| file.gcount() > 0" dropped), so a short last chunk is lost.    *)
RECURSIVE ReadChunksFullOnly(_, _, _)
ReadChunksFullOnly(rest, index, chunks) ==
    LET n == IF Len(rest) < ChunkSize THEN Len(rest) ELSE ChunkSize
    IN  IF n = ChunkSize
        THEN ReadChunksFullOnly(SubSeq(rest, n + 1, Len(rest)), index + 1,
                 Append(chunks, [index |-> index, size |-> n,
                                 data |-> SubSeq(rest, 1, n)]))
        ELSE chunks

(* The read loop of splitFileIntoChunks.  file.read() delivers            *)
(* gcount() = min(CHUNK_SIZE, bytes left) bytes and succeeds only when it  *)
(* filled the buffer; after the short read at the end of the file the     *)
(* next read delivers nothing and the loop ends.  Inside the loop          *)
(* bytesRead > 0 always holds, and the bytes become the chunk with the     *)
(* next index.                                                             *)
RECURSIVE ReadChunks(_, _, _)
ReadChunks(rest, index, chunks) ==
    LET n == IF Len(rest) < ChunkSize THEN Len(rest) ELSE ChunkSize
    IN  IF n = ChunkSize \/ n > 0
        THEN ReadChunks(SubSeq(rest, n + 1, Len(rest)), index + 1,
                 Append(chunks, [index |-> index, size |-> n,
                                 data |-> SubSeq(rest, 1, n)]))
        ELSE chunks

(* splitFileIntoChunks: a file that cannot be opened gives no chunks, as   *)
(* an empty file does.                                                     *)
SplitFileIntoChunks(data, opened) ==
    IF opened THEN ReadChunks(data, 0, <<>>) ELSE <<>>

(* reconstructFile: the result and which of its checks ended it.           *)
ReconstructFile(chunks, opened) ==
    LET sorted == SortSeq(chunks, LAMBDA a, b : a.index < b.index)
    IN  CASE chunks = <<>> ->
               [ok |-> FALSE, err |-> "empty", out |-> <<>>]
          [] \E i \in DOMAIN sorted : sorted[i].index # i - 1 ->
               [ok |-> FALSE, err |-> "missing", out |-> <<>>]
          [] ~opened ->
               [ok |-> FALSE, err |-> "open", out |-> <<>>]
          [] OTHER ->
               [ok |-> TRUE, err |-> "none",
                out |-> FlattenSeq([i \in DOMAIN sorted |->
                                      SubSeq(sorted[i].data, 1, sorted[i].size)])]

-----------------------------------------------------------------------------
(* Reference: the file cut into consecutive pieces of ChunkSize bytes, the *)
(* last one shorter, the i-th piece with index i - 1.                      *)
NumChunks(data) == (Len(data) + ChunkSize - 1) \div ChunkSize

ReferenceChunks(data) ==
    [i \in 1 .. NumChunks(data) |->
        LET first == (i - 1) * ChunkSize + 1
            last  == IF i * ChunkSize < Len(data) THEN i * ChunkSize ELSE Len(data)
        IN  [index |-> i - 1, size |-> last - first + 1,
             data |-> SubSeq(data, first, last)]]

(* A list of chunks given to reconstructFile: every chunk of the split in  *)
(* any order, or with a chunk before the last dropped, or with one sent    *)
(* twice.  reconstructFile does not know totalChunks, so a list without    *)
(* its last chunk is a shorter file to it, and is written.                 *)
Reordered(cs) == {[i \in DOMAIN cs |-> cs[p[i]]] : p \in SetToSeqs(DOMAIN cs)}
Dropped(cs) == {RemoveAt(cs, i) : i \in 1 .. Len(cs) - 1}
Doubled(cs) == {Append(cs, cs[i]) : i \in DOMAIN cs}

(* The split of data is the reference split; reconstructFile writes data  *)
(* back from its chunks in any order, and refuses a list with a gap or a   *)
(* repeated chunk.                                                         *)
ChunkingCorrect(data) ==
    LET cs == SplitFileIntoChunks(data, TRUE) IN
    /\ cs = ReferenceChunks(data)
    /\ data # <<>> =>
         /\ \A r \in Reordered(cs) : /\ ReconstructFile(r, TRUE).ok
                                     /\ ReconstructFile(r, TRUE).out = data
         /\ \A r \in Dropped(cs) \cup Doubled(cs) : ~ReconstructFile(r, TRUE).ok
=============================================================================
