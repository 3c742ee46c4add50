# TLA+ models of Distributed-File-Storage-cpp

This directory holds TLC-checkable TLA+ models of the distributed file store
under `src/`. `PROJECT.json` lists:

- the components;
- the runs;
- the mutants that show each property can fail;
- the map from every definition to the C++ lines it models;
- the findings;
- the hazards.

## 1. The system, inventoried

| Component | Source | State | Operations | Interacts with |
|---|---|---|---|---|
| Metadata node | `src/metadata/metadata_node.cpp`, `.hpp` | `metadataStore_` (filename -> manifest); `role_`; `prev/next/skip` ip:port; `running_`; `activeHandlers_`; `chainMutex_`, `storeMutex_` | PUT (store, then forward synchronously to next); GET (answers only at TAIL/SINGLE, else REDIRECT); UPDATE_PREV; UPDATE_NEXT; SET_SKIP; GET_STATUS; DIE; health-check thread (PING next every 3 s and handle failure) | clients (PUT/GET); its successor (forwarded PUT, PING, UPDATE_PREV) |
| Chain bootstrap | `apps/main_metadata_node.cpp` | — | sorts the metadata nodes by id and points each at the next; sets no prev and no skip | metadata nodes |
| Client, manifest part | `src/client/client.cpp` | endpoints list | `putMetadataToNode`, tried in list order until one ACKs; `getMetadataFromNode`, tried in **reverse** order, taking the first FOUND | metadata chain |
| Client, chunk part | `src/client/client.cpp` | — | split a file into 1 MiB chunks; upload each chunk to 2 ring replicas (fails only if both fail); download each chunk from the first replica that returns data; verify the digests | storage nodes, ring |
| Storage node | `src/storage/storage_node.cpp` | in-memory `storage_` (chunk hash -> bytes) | STORE (READY, data, ACK), GET (FOUND+data / NOT_FOUND), DIE | clients |
| Consistent-hash ring | `src/dht/consistent_hash.cpp` | `ring_` : std::map int -> node | `hashKey` (h = 31h + c, 32-bit int), `addNode`, `removeNode`, `getNodeForKey`, `getNodesForKey` (walk clockwise, distinct nodes) | client |
| Transport | `src/network/tcp_*.cpp` | server client table under `clientsMutex_` | length-prefixed send/recv, accept, close | everyone |
| Chunking, hashing | `src/common/file_utils.cpp`, `hash_utils.cpp`, `sha256.hpp` | — | split/reconstruct; SHA-256 of chunks; root digest over the chunk digests | client |
| Config, CLIs, tests | `src/common/node_config.cpp`, `apps/*` | — | parse the nodes file; drive scenarios | everyone |

**Concurrency.**

- Every connection to a node runs on its own detached handler thread.
- A metadata node forwards a PUT on a *fresh* connection and blocks its handler until the successor answers.
- The health-check thread runs concurrently with the handlers.
- The handlers read `role_` and `nextNodePort_` without `chainMutex_`, which is a data race with `handleNextNodeFailure`.

**Failures the code handles.**

- A node that has died closes its connections: the client sees an error and tries the next endpoint, or the next replica.
- The predecessor notices on its next PING. It either adopts the skip link and sends UPDATE_PREV without waiting for the ACK, or, with no skip, becomes TAIL/SINGLE.
- No component persists anything, so a restart means an empty store.
- Nothing in the repository ever sends SET_SKIP or UPDATE_NEXT. The bootstrap never sets prev, so in a 3-node chain the roles are HEAD, HEAD, TAIL.

**Properties, per component.**

- Metadata chain:
  - an acknowledged manifest is never read back older (read-your-acknowledged-write across clients);
  - quiescent nodes agree, with every non-TAIL manifest present at the TAIL (spec 3);
  - after failures stop, the live nodes form one linked chain;
  - every live node's role is the one its links give it (spec 5);
  - no process ends except by an injected failure (spec 7, spec 9);
  - every client call returns.
- Storage and client: an acknowledged upload stays downloadable while one replica of every chunk survives; a download never returns data that is not the uploaded chunk.
- Ring: `getNodesForKey` returns `min(K, nodes)` distinct nodes, at every position, including the wrap and the range ends. Two addresses whose positions collide (an open question in spec 9) are not checked.

## 2. Plan

1. **MetadataChain** (done). The metadata chain and the client's manifest PUT/GET loops. It is the most concurrent part, with failover, so it comes first.
2. **ConsistentHash** (done). The ring, with `hashKey` computed exactly over bytes, and lookups checked against a reference definition.
3. **StorageNode** (done). One storage node's accept loop, handler threads, handler count and shutdown, with the transport calls they make, against one peer per connection.
4. **StorageReplication** (done). Several storage nodes, abstracted to whole requests, that may be killed and restarted empty, with the client's chunk loops. It implements the abstract spec `ChunkStore`.
5. **FileUtils** (done). The chunking of `file_utils.cpp` as operators checked against a reference, composed into StorageReplication. For every file up to a bound, a completed download writes back the uploaded bytes.
6. **TcpTransport** (done, in part). The framing and the client table, with `recvData` reading an fd number after unlocking. `sendData` holding the global mutex across `send` is still open.
7. Extensions of MetadataChain (in part). Done: DIE with lingering handlers (`Die`), the role invariant of spec 5, and a four-node chain in which UPDATE_PREV reaches a HEAD. Also done: the SIGPIPE fault model, in which a reply on a connection whose peer has closed ends the replying process. Open: restart with an empty store, false suspicion and UPDATE_NEXT. Section 9 says why they are not modelled.
8. **FileStore**: composes 4 and MetadataChain's PUT, so that an acknowledged manifest names chunks that are stored.

## 3. Module MetadataChain

**Constants.**

- `Node`: the metadata nodes.
- `Chain`: the id-sorted sequence of nodes.
- `Endpoints`: the client's endpoint list.
- `File`, `Client`: the files and clients.
- `Script[c]`: the sequence of PUT/GET calls client `c` makes.
- `SkipPreset`: the nodes whose skip link the operator set before the run.
- `Crashable`, `MaxCrashes`: which nodes may fail, and how many failures (exits and DIEs together) there may be.
- `Killable`: the nodes that may be sent DIE.

**State.**

| Variable | Code |
|---|---|
| `alive[n]` | process running |
| `role`, `next`, `prev`, `skip` | `role_`, `next*`, `prev*`, `skip*` |
| `store[n][f]` | `metadataStore_`; a manifest is a version `<<client, step>>` |
| `acts` | one record per PUT handler thread: its node, its caller, and a program counter (`store` → `fwd` → `wait` → `reply`) |
| `cl[c]` | the client's loop position: step `k`, endpoint `i`, waiting or not |
| `updPrev` | UPDATE_PREV messages in flight |
| `skipSent` | nodes whose skip has already been set |
| `acked`, `floor`, `lastRead` | ghost variables: acknowledged versions, and the newest acknowledged version when a GET began |

**Actions.** Each action is a handler step in the order the code takes it.

- `HandlePut`: `storeMutex_` store, then the forwarding decision made on an unlocked read of `role_`/`next`.
- `ForwardPut`: re-reads `next`. It opens a child handler on the successor, or fails.
- `ForwardResult` and `ReplyToFailedCaller`.
- `HandleNextNodeFailure`: the health check.
- `HandleUpdatePrev`, `HandleSetSkip`.
- `Exit(n)`: the process of `n` ends. Its handlers vanish, its connections close, and UPDATE_PREVs addressed to it are lost. It is used by `Crash` (an injected failure, counted in `crashes`) and by the two SIGPIPE steps below, which are not counted.
- `Crash`: an injected process exit, a node killed from outside, the failure spec 9 says the chain tolerates. No code under src performs it, so its map entry is spec-modelled.
- SIGPIPE. `TCPServer::sendData` (`tcp_server.cpp:60-73`) writes a frame with two plain `send()` calls. To a peer that has closed, the header draws a reset and the body send raises SIGPIPE, which nothing in the repository ignores, so the process ends (exit status 141 when the repository code is run). Two replies meet a closed peer:
  - `AckUpdatePrev`: the ACK to UPDATE_PREV (`metadata_node.cpp:120`). `notifyNextOfPredecessor` closes its socket right after sending, so the ACK either is written before the close arrives, or ends the receiver.
  - the second disjunct of `ReplyToFailedCaller`: a PUT handler whose caller node failed replies ACK (`metadata_node.cpp:192-196`) and ends its own process.
- `Die` is DIE (`killNode` in the system tests, `metadata_node.cpp:147-151`). It clears `running_`, and `server_.stop()` closes the listener and every accepted connection. UPDATE_PREVs not yet read are lost, and every handler at the node gets the caller `Closed`. Those handler threads are not stopped: they store, forward on a connection of their own, and reply into a closed connection. Their callers see a failure at once.
- Client actions: `ClientPutConnect`, `ClientPutResult`, `PutAttemptFailed`, `ClientGetTry`.

A handler whose caller failed goes on running. So does a handler of a node told to DIE. No handler step is guarded by `alive` of its own node. This is the orphan forward, as in the code.

**Fairness.** Weak fairness holds for:

- each client;
- each node's handler steps, since threads are not starved;
- the health check, since a 3 s loop runs forever while `running_`;
- UPDATE_PREV delivery to a live node.

Failure and SET_SKIP are environment actions with no fairness.

### Runs

| Run | Bounds | Checks | Result |
|---|---|---|---|
| `chain_tail_failover` | 3 nodes, 2 clients (c1: PUT f1, PUT f1, GET f1; c2: PUT f2, GET f1); the MIDDLE and the TAIL may exit, at most 2, from the TAIL upwards (constraint `FailuresFromTail`); SET_SKIP may arrive at any time, so a skip may lead to a dead node | TypeOK, ReadNotStale, QuiescentConvergence, ClientsTerminate, ChainEventuallyLinked | passes (141,613 states) |
| `chain_failover` | 4 nodes (`MCChain4`), 2 clients (`WriteReadScript`: c1 PUT f1, GET f1; c2 GET f1), skip links preset; any two nodes may fail, by exit or, for m2, by DIE; SIGPIPE exits on top | RoleAgreesWithLinks, ClientsTerminate | passes (173,172 states) |
| `chain_skip_sigpipe` | spec 8's scenario 6 (spec.md:219): 3 nodes, skip links preset, DIE to m2 the only injected failure | OnlyInjectedFailures | **violated**: m1 skips to m3 and sends UPDATE_PREV, closes at once, and m3's ACK ends m3's process when m1's close reaches m3 first; the chain is then down to one node after one failure |
| `chain_noskip_split` | repository wiring, middle node may fail | ReadNotStale | **violated**: the HEAD becomes SINGLE next to the live TAIL; a download reads the old manifest |
| `chain_orphan_forward` | skip links preset, middle may fail | ReadNotStale | **violated**: an orphaned forward overwrites a newer acknowledged manifest at the TAIL |
| `chain_shared_file` | two clients PUT the same file, no failures | QuiescentConvergence | **violated**: HEAD and TAIL keep different manifests forever |

**Role invariant.** `RoleOfLinks(n)` is the role spec 5 gives a node from
its links: HEAD with only a next, MIDDLE with both, TAIL with only a prev,
and with neither the role the constructor or a relink gives a lone node.
`RoleAgreesWithLinks` says every live node has that role. It is broken by a
relink that sets a link but forgets the role, e.g. UPDATE_PREV reaching a
node constructed as HEAD, which the 4-node run makes happen.

**Why these bounds are enough.** Three nodes is the smallest chain with a
MIDDLE, which every skip and orphan scenario needs. Two clients, with a
second PUT of the same file, give a newer acknowledged version that an
older one can overwrite, and a reader that is not the writer.

- `chain_tail_failover` covers a tail failure, then a middle failure after
  the skip was or was not adopted, where the skip target is already dead.
  Failures go from the TAIL upwards: any non-TAIL failure first gives the
  orphan-forward finding, so the data properties cannot pass there.
- `chain_failover` has four nodes because UPDATE_PREV reaches a node that
  was constructed as HEAD only when the HEAD's successor's successor takes
  over (m1 skips m2 and sends UPDATE_PREV to m3, built as HEAD by the
  wiring). Any two failures, or DIE to m2, whose handlers linger and
  forward into a chain relinking around it, with SIGPIPE exits on top.
  `ChainEventuallyLinked` is checked only in `chain_tail_failover`: in
  four nodes a SIGPIPE exit after an injected failure leaves two adjacent
  failures, which a single skip hop cannot bridge (spec 226), so the
  chain may stay split, which `chain_skip_sigpipe` already reports. The
  client script is a write and two reads, short enough that the two
  failures and the SIGPIPE exits fit in the run's time.
- `chain_skip_sigpipe` needs only spec 8's scenario 6 (three nodes, skip
  links preset, the MIDDLE killed); TLC's trace is four states long. The
  repository's system tests never send SET_SKIP, so they do not reach it.
  Whether the ACK meets the close is a race; the model keeps both
  outcomes, and the repository code, run with this scenario, lost it in
  10 of 10 tries.
- SIGPIPE never fires in `chain_tail_failover`: with failures from the
  TAIL upwards, no caller fails before the node it calls, and a skip
  always leads to the TAIL, which has already failed when a MIDDLE does,
  so no UPDATE_PREV reaches a live node.

## 4. Module ConsistentHash

**Constants.**

- `Address`: the node addresses the client may add, as byte sequences.
- `Probe`: the lookup keys, as byte sequences (hex SHA-256 digests of chunks).
- `MaxK`: the largest replica count asked of `getNodesForKey`.

**State.**

- `ring`: `ring_`, a function from the 32-bit position to the address.

**Definitions.**

- `HashKey` computes `h = 31*h + c` over the bytes with the int32 wrap. The accumulator is kept in two 16-bit halves so that TLC's integers never overflow.
- The signed overflow of `31*h + c` is undefined behaviour in C++; the model takes the wrap that the usual build produces. No property checks the hash itself: a second TLA+ encoding of the same line would hold whatever the code does.
- `LowerBound` models `ring_.lower_bound`, wrapping to `begin()`.
- `GetNodesForPos` is the index walk of `getNodesForKey`, skipping addresses already collected.
- `AddNode` and `RemoveNode` are the actions. `AddNode` overwrites whatever sits at the position. `RemoveNode` erases by position, whichever address is there. The client builds its ring once, in its constructor, and nothing under src calls `removeNode` (spec 17 puts membership change out of scope); the actions serve to reach every ring the lookup may be asked about, and no property is stated about a change of membership.

**Runs.**

| Run | Bounds | Checks | Result |
|---|---|---|---|
| `ring_lookup` | 7 addresses: 127.0.0.1:8001-8004 (the configured ones) and 10.0.0.5-7:8001; 3 digests; K ≤ 3 | LookupMatchesReference | passes (128 rings) |

The reference `ReplicasRef` is declarative: it takes the addresses ranked by clockwise distance from the position. Lookups are compared with it at several kinds of position:

- the digests' hashes;
- every ring position and its two neighbours;
- MinInt32, 0 and MaxInt32.

Together these cover the exact hit, the wrap and both range ends.

**Why these bounds are enough.** Every subset of the 7 addresses is a reachable ring, and all 128 are explored. With K ≤ 3 the lookup covers three cases: K below the ring size, K equal to it, and K above it.

## 5. Module StorageNode

The module models one `StorageNode` (`storage_node.cpp`) together with the `TCPServer` calls it makes. Its peers are the client's `uploadChunkToNode` and `downloadChunkFromNode` and the test harness's `killNode`, one request per connection.

**Constants.**

- `Conn`: the connections.
- `Cmd[c]`: the request on connection `c` (STORE, GET or DIE of a digest).
- `Digest`: the chunk digests.
- `CloseWakesAccept`: whether `close()` on the listening fd wakes a thread blocked in `accept()`. It does not on Linux.

**State.**

| Variable | Code |
|---|---|
| `running`, `srvRunning` | `StorageNode::running_`, `TCPServer::running_` |
| `listen` | the listening socket: open, closed while `accept()` still blocks on it ("orphan"), or closed |
| `table`, `srvOpen` | `clients_`, and the server-side fds still open |
| `mainPc` | the `start()` thread: loop, accept, the predicate test (`wait`), between the test and the block (`presleep`), blocked (`sleep`), returned (`exit`) |
| `active` | `activeHandlers_` |
| `h[c]` | the handler thread of connection `c`, one pc value per step of `handleClient` and of the thread body |
| `store` | the digests in `storage_` |
| `cl[c]`, `cliOpen`, `pending` | the peer's position, its end of the socket, and the listen backlog |
| `toSrv`, `toCli` | frames in flight. A frame is delivered whole. |

**Actions.**

- Main thread: `MainLoop`, `AcceptClient` (which increments the count and spawns the handler), `AcceptInterrupted`, `WaitCheck`, `Block`, `SpuriousWakeup`.
- Handler thread: `HandlerLoop`, `HandlerRecvEof`, `HandleStore`, `HandleStoreData`, `HandleGet`, `HandleDie` (which calls `stop()`), `HandlerClose`, `HandlerDecrement`, `HandlerNotify`.
- Peer: `PeerConnect`, `PeerRecv`, `PeerEof`.

`HandlerDecrement` and `HandlerNotify` are separate steps, because the code runs them without `handlersMutex_`. `WaitCheck` and `Block` are separate steps for the same reason: the predicate test and the block are atomic only with respect to holders of that mutex.

**Fairness.** Weak fairness is assumed for:

- the main thread;
- each handler thread;
- each peer.

These are OS threads that are never starved. `AcceptInterrupted` is weakly fair only when `CloseWakesAccept` holds.

**Runs.** Every run has three connections: STORE d1, GET d1 and DIE, in any order and interleaving.

| Run | Checks | Result |
|---|---|---|
| `storage_shutdown` | TypeOK, StartReturnsOnlyWhenIdle, PeersComplete | passes (32,584 states) |
| `storage_notify_lost` | NotifyReachesWaiter | **violated**: DIE's handler decrements and notifies while `start()` is between its predicate test and its block. The notify is lost and `start()` sleeps forever |

`NotifyReachesWaiter` is an action property. A handler's `notify_one` may not land while `start()` is between its test and its block, nor after `start()` has returned. Both come from the same code: the decrement and the notify are made without `handlersMutex_`.

- The first case is a lost wakeup. TLC reports it, because its trace is the shorter one.
- The second case is a `notify_one` on a destroyed node, a use after free.

Taking the mutex around the decrement and the notify removes both.

**Why these bounds are enough.** A DIE racing one upload and one download is the smallest case with a handler still active when `stop()` runs, where the upload is mid-protocol (READY sent, data not yet read). It is also the smallest case where a peer connects after the listening socket closed.

## 6. Modules StorageReplication and ChunkStore

`StorageReplication` models the storage tier as the client sees it. A storage node is `alive` and holds `storage[n]`, the digests in its in-memory `storage_`. Two environment actions change it:

- `Crash`, which is `killNode`: the process exits and its memory goes with it. Kills are bounded by `MaxCrashes`.
- `Restart`, which is `startStorageNode` on the same port, as the system tests do between tests: the node serves again with an empty store.

The client runs `uploadFile` and then `downloadFile`. Its state is:

- `pc`;
- the chunk index `chunkIdx`;
- the replica index `replicaIdx`;
- `successCount`;
- `got`, how far `downloadFile` has collected the chunks;
- `fetched`, the `chunks` vector `downloadFile` builds (index, digest, bytes, size);
- `written`, the result of `reconstructFile`.

The file is an input. `fileData` is chosen in `Init` from every byte sequence up to `MaxFileLen`, and never changes. `Chunks` is FileUtils' `SplitFileIntoChunks` of it. `File` names each chunk by `HashChunk`, the digest of its first `size` bytes. An empty file sets `pc` to `"empty"`, as `uploadFile` returns at once.

Its actions:

- `UploadToReplica`: one `uploadChunkToNode` call. A running node stores the chunk and ACKs; a dead one refuses the connection.
- `NextChunk`: the `successCount == 0` abort, or the move to the next chunk.
- `DownloadFromReplica`: one `downloadChunkFromNode` call.
  - Data ends the inner loop (`Retrieved`): the chunk is appended with index `i - 1`. After the last chunk, `reconstructFile` runs. Its output file may fail to open.
  - A dead node or NOT_FOUND falls through to the next replica.
  - The last replica with no data ends the download (`NotRetrieved`).

One replica request is one step. A node that dies during a request loses its memory, so the client sees the same outcome as if the node had died just before the request or just after its answer. The node's side of a request is checked in `StorageNode`.

`Replicas[ch]` is the result of `getNodesForKey(ch, 2)`, which `ConsistentHash` checks. The manifest PUT and GET between the two loops are MetadataChain's.

`ChunkStore` is the abstract promise:

- a chunk becomes available when it is stored;
- it may be lost;
- a file's chunks are read in order, stopping at the first failure;
- a read fails exactly when the chunk is unavailable at that moment.

The refinement mapping takes:

- `file` to the file's digests;
- `avail` to the union of the running nodes' stores;
- `got` to itself.

`file` is a variable of ChunkStore, fixed in `Init`, because the uploaded file is a variable here.

**Fairness.** Weak fairness is assumed for the client, a single thread. Kills and restarts get none.

**Run.** The run has:

- three nodes;
- every file of up to five bytes over {0, 1}, cut into chunks of two bytes;
- six chunk contents, each with its own digest, placed on two of the three nodes so that placements overlap.

A five-byte file has three chunks with a short last one, and `<<0,0,0,0,1>>` repeats a chunk, which then shares its digest. Kills are bounded by 2; restarts are free.

| Run | Checks | Result |
|---|---|---|
| `chunkstore_refinement` | TypeOK, SingleFailureTolerated, SplitAndReconstructCorrect, DownloadReturnsFile, ImplementsChunkStore | passes (30,122 states, about 90 s) |

`SingleFailureTolerated` is stated for states with at most one kill so far. Two kills are then reachable in the same run, which the refinement needs.

`DownloadReturnsFile`: when the chunk loop completes, `reconstructFile` succeeds with exactly the uploaded bytes, unless the output file cannot be created. It depends on:

- the split;
- the digests shared by equal chunks;
- the index `downloadFile` gives each chunk (`c.index = i`), which `reconstructFile` then checks.

`SingleFailureTolerated` is spec 8's replica tolerance. It holds because the upload loop writes every replica, not only the first to ACK, and because the download loop falls through on NOT_FOUND from a restarted node. The mutants that break each of these are in PROJECT.json.

The refinement is checked for one client. With two clients whose files share a chunk, a download could read a replica just before the other client's upload writes it. It would then fail while the chunk is available.

**Why these bounds are enough.** Two kills are enough to lose a chunk: both of its replicas, or its only replica after a failed write. The shared node n2 lets one kill affect both chunks. The repeated chunk exercises storing an already-held digest and reading it twice.

## 7. Module FileUtils

`FileUtils` holds pure operators.

- `ReadChunks` is the read loop of `splitFileIntoChunks`. `file.read` delivers `min(CHUNK_SIZE, bytes left)` bytes and succeeds only when the buffer is full. The loop runs while the read succeeded or delivered something. So a short last read becomes a chunk, and a file whose length is a multiple of the chunk size ends on a full read followed by an empty one.
- `SplitFileIntoChunks` adds the early return for a file that cannot be opened.
- `ReconstructFile` is `reconstructFile`, in this order:
  1. it refuses an empty list;
  2. it sorts by index (`SortSeq`);
  3. it refuses the list unless the indices are 0..n-1;
  4. it fails if the output file cannot be created;
  5. otherwise it writes each chunk's first `size` bytes.
- `ReferenceChunks` is the reference: the file cut into consecutive `ChunkSize` pieces.
- `ChunkingCorrect(data)` compares the two for one file:
  - the split equals the reference;
  - every reordering of the chunks reconstructs the file;
  - a list with a gap or a repeated chunk is refused.

`reconstructFile` does not know `totalChunks`, so a list without its **last** chunk is a shorter file to it, and it is written. The reference states the check as the code makes it. `downloadFile` never passes such a list, because it returns at the first chunk it cannot retrieve.

`StorageReplication` checks `ChunkingCorrect(fileData)` as `SplitAndReconstructCorrect` for every uploaded file. `CHUNK_SIZE` is 1 MiB in the build and 2 in the run. The loop only compares the number of bytes left with the chunk size, so a file of five bytes in chunks of two covers the cases: a full chunk, a short last chunk, an exact multiple, a single chunk, and the empty file.

## 8. Module TcpTransport

`TcpTransport` models the length-prefixed framing of `src/network` and the server's table of client sockets, as a storage node's handler threads use them.

- **Byte streams.** A connection is a byte stream. `inbox[s]` holds the bytes the remote end sent and `eof[s]` records that it closed.
- **Framing.** `TCPClient::sendData` writes `Htonl(len)` and the payload (`Frame`). `TCPServer::recvData`:
  - reads the 4-byte header with MSG_WAITALL (`RecvHeader`, with `Ntohl`);
  - then reads the body in as many `recv` calls as the stream delivers (`RecvBody`, with a nondeterministic segment size).
  - EOF, a short header and a zero length all end the handler.
- **fd numbers.** Sockets are reached through fd numbers. A new socket takes the lowest free number (`LowestFree`), whether it is accepted (`AcceptClient`) or opened by another thread's `TCPClient` (`OtherOpen`).
- **The client table.** `table` is `clients_`.
- **The race.** `recvData` copies the fd number under `clientsMutex_` (`RecvLock`) and makes each `recv` call after unlocking (`RecvCall`). The number is therefore resolved at each call:
  - a call after `stop()` closed it fails with EBADF;
  - a call after the number was reused reads the new socket.
- A call already blocked inside `recv` keeps its socket, as on Linux.
- `Dispatch` is `handleClient` receiving a message. DIE runs `stop()`: it clears `running`, closes every fd in the table and clears the table.

**Fairness.** Weak fairness is assumed for the accept loop, each handler and each peer, which are threads that are never starved. Other threads' sockets get none.

| Run | Checks | Result |
|---|---|---|
| `transport_framing` | TypeOK, FramesIntact, AllFramesDelivered | passes (25,221 states) |
| `transport_stale_fd` | FramesIntact | **violated** |

`transport_framing` sends two frames on one connection and one on another, with payloads up to 2 bytes, and with fd numbers reused by another socket.

`transport_stale_fd` has one connection send DIE. The trace:

1. connection b's handler copies fd 1 and unlocks;
2. a's DIE closes fd 1;
3. another thread's socket opens on fd 1;
4. b's `recv` reads that socket's frame as its own message.

The system tests run every node and the client in one process, so the reuse is real there.

**Bounds.** Three fd numbers are the fewest for two connections plus one reused number. Payloads of 1 to 2 bytes make the body take one or two `recv` calls.

## 9. Not modelled, and why

- **`sendData` under `clientsMutex_`.** `TCPServer::sendData` holds the global mutex across a blocking `send`, so a slow peer stalls every handler's `recvData` lock. TcpTransport's handlers do not send, so this contention is not modelled.
- **Partial sends.** TCPClient's loop over partial sends is not modelled either; a frame enters the stream whole.
- **SHA-256, the root digest and verify_files.** A digest is a model value, distinct for distinct content. The root digest is computed by `uploadFile` but never read by the download.
- **GET_STATUS and PING.** Neither changes state. PING is folded into `HandleNextNodeFailure`'s view of `alive`.
- **Timeouts and hung peers.** The spec specifies no timeouts (spec 160); a hung successor blocks its predecessor's handler forever, by design. A model would only restate that.
- **False suspicion, restart and UPDATE_NEXT of the metadata chain.** A PING that fails while the successor lives makes a node skip a live MIDDLE; a restarted node comes back with an empty store and never rejoins (the repository never restarts one, and spec 19 puts durability out of scope); UPDATE_NEXT has no sender, and spec 111 and spec 123 disagree on the role it gives. Each would be a counterexample run of its own, and the project keeps its twelve runs for the questions above.
- **The health-check thread after DIE.** `healthCheckLoop` does not re-check `running_` after its sleep, so one more PING and relink can follow DIE, and the thread outlives the node object after `start()` returns. The first is covered by the lingering-handler model only in part; the second is memory safety, outside TLA+.
- **Ring position collisions.** `addNode` overwrites whatever address sits at a position, so two addresses with the same `hashKey` give a key fewer than K distinct replicas. Spec 9 lists this as an open question, and no run is spent on it.
- **SIGPIPE outside the metadata chain.** A storage node answering a client that has gone, and a client writing to a node that has gone, raise the same SIGPIPE. StorageNode's peers and StorageReplication's client do not fail mid-request, so these exits are not modelled there.
- **Config parsing, the CLIs and the performance drivers.** These are I/O and scenario code.
