---------------------------- MODULE MetadataChain ----------------------------
(***************************************************************************)
(* The chain-replicated metadata store: the metadata nodes of              *)
(* src/src/metadata/metadata_node.cpp, wired at bootstrap by               *)
(* src/apps/main_metadata_node.cpp, and the metadata half of the client    *)
(* (the PUT loop of uploadFile and the GET loop of downloadFile in         *)
(* src/src/client/client.cpp).                                             *)
(*                                                                         *)
(* A manifest is abstracted to its version: the pair <<c, k>> of the       *)
(* client c whose k-th script step wrote it.  Every accepted connection   *)
(* runs its own handler thread, so each PUT handler is an "activation"   *)
(* of its own, and a forwarded PUT is the activation it waits on.          *)
(***************************************************************************)
EXTENDS Naturals, Sequences, FiniteSets

CONSTANTS
    Node,        \* the metadata nodes
    Chain,       \* bootstrap order by id: Chain[1] is the initial HEAD
    Endpoints,   \* the client's ordered list of metadata endpoints
    File,        \* file names
    Client,      \* client threads, each running its own Script
    Script,      \* Script[c]: a sequence of [op |-> "put" or "get", file |-> f]
    SkipPreset,  \* nodes that received SET_SKIP before any client started
    Crashable,   \* the nodes that may fail
    MaxCrashes,  \* bound on the number of failures
    Killable,    \* the nodes a DIE may be sent to (killNode in the tests)
    None         \* the unset endpoint (port -1) and the absent manifest

ASSUME /\ Chain \in Seq(Node) /\ Endpoints \in Seq(Node)
       /\ Crashable \subseteq Node /\ Killable \subseteq Node /\ SkipPreset \subseteq Node
       /\ MaxCrashes \in Nat /\ None \notin Node

Roles == {"HEAD", "MIDDLE", "TAIL", "SINGLE"}
Version == UNION {{<<c, k>> : k \in DOMAIN Script[c]} : c \in Client}
AttemptId == {<<v[1], v[2], i>> : v \in Version, i \in DOMAIN Endpoints}

\* main: metadata nodes sorted by id, each is given the next one as "next".
Position(n) == CHOOSE i \in DOMAIN Chain : Chain[i] = n
BootNext(n) == IF Position(n) < Len(Chain) THEN Chain[Position(n) + 1] ELSE None
\* The node two hops downstream, the skip link an operator sends by SET_SKIP.
SkipTarget(n) == IF BootNext(n) = None THEN None ELSE BootNext(BootNext(n))

\* MetadataNode constructor: TAIL when constructed without a next node.
InitRole(n) == IF BootNext(n) = None THEN "TAIL" ELSE "HEAD"

VARIABLES
    alive,     \* alive[n]: the process of node n runs
    role,      \* role_
    next,      \* nextNodeIp_/nextNodePort_
    prev,      \* prevNodeIp_/prevNodePort_
    skip,      \* skipToIp_/skipToPort_
    store,     \* metadataStore_: store[n][f] is a Version or None
    updPrev,   \* UPDATE_PREV messages in flight: <<receiver, new predecessor>>
    skipSent,  \* nodes the operator has sent SET_SKIP to
    acts,      \* PUT handler activations in flight
    cl,        \* client threads: script step k, endpoint index i, waiting?
    acked,     \* history: versions whose PUT a client saw ACKed
    floor,     \* history: acked versions when the client began its step
    lastRead,  \* history: the last manifest each client's GET returned
    crashes

chainVars == <<alive, role, next, prev, skip, updPrev, skipSent, crashes>>
vars == <<alive, role, next, prev, skip, store, updPrev, skipSent, acts, cl,
          acked, floor, lastRead, crashes>>

FileOf(id) == Script[id[1]][id[2]].file
VersionOf(id) == <<id[1], id[2]>>
Op(c) == Script[c][cl[c].k]
Running(c) == cl[c].k <= Len(Script[c])
\* The first endpoint tried: uploads walk the list forwards, downloads backwards.
FirstTry(c, k) ==
    IF k <= Len(Script[c]) /\ Script[c][k].op = "get" THEN Len(Endpoints) ELSE 1

\* The caller of a handler whose connection server_.stop() has closed.
Closed == "closed"

Activation == [id : AttemptId, node : Node, caller : Node \cup {None, Closed},
               pc : {"store", "fwd", "wait", "reply"}, ok : BOOLEAN]

TypeOK ==
    /\ alive \in [Node -> BOOLEAN]
    /\ role \in [Node -> Roles]
    /\ next \in [Node -> Node \cup {None}]
    /\ prev \in [Node -> Node \cup {None}]
    /\ skip \in [Node -> Node \cup {None}]
    /\ store \in [Node -> [File -> Version \cup {None}]]
    /\ updPrev \subseteq Node \X Node
    /\ skipSent \subseteq Node
    /\ acts \subseteq Activation
    /\ DOMAIN cl = Client
    /\ \A c \in Client :
          cl[c] \in [k : 1..Len(Script[c]) + 1, i : DOMAIN Endpoints, wait : BOOLEAN]
    /\ acked \subseteq Version
    /\ floor \in [Client -> SUBSET Version]
    /\ lastRead \in [Client -> {None} \cup
                       [file : File, val : Version \cup {None}, floor : SUBSET Version]]
    /\ crashes \in 0..MaxCrashes

Init ==
    /\ alive = [n \in Node |-> TRUE]
    /\ role = [n \in Node |-> InitRole(n)]
    /\ next = [n \in Node |-> BootNext(n)]
    /\ prev = [n \in Node |-> None]
    /\ skip = [n \in Node |-> IF n \in SkipPreset THEN SkipTarget(n) ELSE None]
    /\ store = [n \in Node |-> [f \in File |-> None]]
    /\ updPrev = {}
    /\ skipSent = SkipPreset
    /\ acts = {}
    /\ cl = [c \in Client |-> [k |-> 1, i |-> FirstTry(c, 1), wait |-> FALSE]]
    /\ acked = {}
    /\ floor = [c \in Client |-> {}]
    /\ lastRead = [c \in Client |-> None]
    /\ crashes = 0

-----------------------------------------------------------------------------
(* Client side.                                                            *)

\* The client finishes its current step and begins the next one.
NextStep(c, ack) ==
    /\ cl' = [cl EXCEPT ![c] = [k |-> @.k + 1, i |-> FirstTry(c, @.k + 1),
                                wait |-> FALSE]]
    /\ floor' = [floor EXCEPT ![c] = ack]

\* uploadFile: this endpoint did not ACK; try the next one, or give up.
PutAttemptFailed(c) ==
    IF cl[c].i < Len(Endpoints)
    THEN /\ cl' = [cl EXCEPT ![c].i = @ + 1, ![c].wait = FALSE]
         /\ UNCHANGED floor
    ELSE NextStep(c, acked)

\* putMetadataToNode: connect to the endpoint and send PUT.
ClientPutConnect(c) ==
    /\ Running(c) /\ Op(c).op = "put" /\ ~cl[c].wait
    /\ LET e == Endpoints[cl[c].i] IN
       IF alive[e]
       THEN /\ acts' = acts \cup {[id |-> <<c, cl[c].k, cl[c].i>>, node |-> e,
                                   caller |-> None, pc |-> "store", ok |-> FALSE]}
            /\ cl' = [cl EXCEPT ![c].wait = TRUE]
            /\ UNCHANGED floor
       ELSE /\ PutAttemptFailed(c)
            /\ UNCHANGED acts
    /\ UNCHANGED <<chainVars, store, acked, lastRead>>

\* putMetadataToNode: the response is "ACK", an error, or the connection
\* closed because the node failed (its activation is gone).
ClientPutResult(c) ==
    /\ Running(c) /\ Op(c).op = "put" /\ cl[c].wait
    /\ LET root == {a \in acts : a.id = <<c, cl[c].k, cl[c].i>> /\ a.caller = None}
       IN /\ \A a \in root : a.pc = "reply"
          /\ acts' = acts \ root
          /\ IF \E a \in root : a.ok
             THEN /\ acked' = acked \cup {<<c, cl[c].k>>}
                  /\ NextStep(c, acked \cup {<<c, cl[c].k>>})
             ELSE /\ PutAttemptFailed(c)
                  /\ UNCHANGED acked
    /\ UNCHANGED <<chainVars, store, lastRead>>

\* handleGet: only a TAIL or SINGLE node answers FOUND; any other role
\* answers REDIRECT_TO_TAIL, read by the client as an empty manifest.
HandleGet(e, f) == IF role[e] \in {"TAIL", "SINGLE"} THEN store[e][f] ELSE None

\* getMetadataFromNode: a failed connect also gives an empty manifest.
GetMetadataFromNode(e, f) == IF alive[e] THEN HandleGet(e, f) ELSE None

\* Fault variants of ClientGetTry: the loop index runs past the first
\* endpoint (off by one), or an empty answer retries the same endpoint.
ClientGetTryPastFirst(c) ==
    /\ Running(c) /\ Op(c).op = "get"
    /\ LET e == Endpoints[cl[c].i]
           f == Op(c).file
           found == GetMetadataFromNode(e, f) # None
       IN
       IF found
       THEN /\ lastRead' = [lastRead EXCEPT ![c] =
                  [file |-> f, val |-> GetMetadataFromNode(e, f), floor |-> floor[c]]]
            /\ NextStep(c, acked)
       ELSE /\ cl' = [cl EXCEPT ![c].i = @ - 1]
            /\ UNCHANGED <<lastRead, floor>>
    /\ UNCHANGED <<chainVars, store, acts, acked>>

ClientGetTryNoAdvance(c) ==
    /\ Running(c) /\ Op(c).op = "get"
    /\ LET e == Endpoints[cl[c].i]
           f == Op(c).file
           found == GetMetadataFromNode(e, f) # None
       IN
       IF found
       THEN /\ lastRead' = [lastRead EXCEPT ![c] =
                  [file |-> f, val |-> GetMetadataFromNode(e, f), floor |-> floor[c]]]
            /\ NextStep(c, acked)
       ELSE UNCHANGED <<cl, lastRead, floor>>
    /\ UNCHANGED <<chainVars, store, acts, acked>>

\* downloadFile / getMetadataFromNode / handleGet: one endpoint, tried from
\* the end of the list; a dead node, REDIRECT_TO_TAIL and NOT_FOUND all give
\* an empty manifest and the next endpoint is tried.
ClientGetTry(c) ==
    /\ Running(c) /\ Op(c).op = "get"
    /\ LET e == Endpoints[cl[c].i]
           f == Op(c).file
           found == GetMetadataFromNode(e, f) # None
       IN
       IF found \/ cl[c].i = 1
       THEN /\ lastRead' = [lastRead EXCEPT ![c] =
                  [file |-> f, val |-> GetMetadataFromNode(e, f),
                   floor |-> floor[c]]]
            /\ NextStep(c, acked)
       ELSE /\ cl' = [cl EXCEPT ![c].i = @ - 1]
            /\ UNCHANGED <<lastRead, floor>>
    /\ UNCHANGED <<chainVars, store, acts, acked>>

-----------------------------------------------------------------------------
(* Metadata node: PUT handler threads.                                     *)

\* Fault variant: only a MIDDLE node forwards (HEAD forgotten).
ForwardsMiddleOnly(n) == role[n] = "MIDDLE" /\ next[n] # None

\* handlePut forwards when the node is neither TAIL nor SINGLE and has a next.
Forwards(n) == role[n] \notin {"TAIL", "SINGLE"} /\ next[n] # None

\* Fault variant: the manifest is stored only on the forwarding path.
HandlePutStoreOnForward(a) ==
    /\ a.pc = "store"
    /\ store' = IF Forwards(a.node)
                THEN [store EXCEPT ![a.node][FileOf(a.id)] = VersionOf(a.id)]
                ELSE store
    /\ acts' = (acts \ {a}) \cup
               {[a EXCEPT !.pc = IF Forwards(a.node) THEN "fwd" ELSE "reply",
                          !.ok = ~Forwards(a.node)]}
    /\ UNCHANGED <<chainVars, cl, acked, floor, lastRead>>

\* handlePut: parse, store the manifest locally under storeMutex_, then decide
\* whether to forward.  The local store is never rolled back.
HandlePut(a) ==
    /\ a.pc = "store"
    /\ store' = [store EXCEPT ![a.node][FileOf(a.id)] = VersionOf(a.id)]
    /\ acts' = (acts \ {a}) \cup
               {[a EXCEPT !.pc = IF Forwards(a.node) THEN "fwd" ELSE "reply",
                          !.ok = ~Forwards(a.node)]}
    /\ UNCHANGED <<chainVars, cl, acked, floor, lastRead>>

\* forwardPut: re-reads next (without chainMutex_) and opens a fresh
\* connection to it; a failed connect answers ERROR_FORWARD.
ForwardPut(a) ==
    /\ a.pc = "fwd"
    /\ LET t == next[a.node] IN
       acts' = (acts \ {a}) \cup
               IF t # None /\ alive[t]
               THEN {[a EXCEPT !.pc = "wait"],
                     [id |-> a.id, node |-> t, caller |-> a.node,
                      pc |-> "store", ok |-> FALSE]}
               ELSE {[a EXCEPT !.pc = "reply", !.ok = FALSE]}
    /\ UNCHANGED <<chainVars, store, cl, acked, floor, lastRead>>

\* forwardPut: the downstream response is ACK, an error, or empty because
\* the downstream node failed; handlePut then answers ACK or ERROR_FORWARD.
ForwardResult(a) ==
    /\ a.pc = "wait"
    /\ LET down == {b \in acts : b.id = a.id /\ b.caller = a.node} IN
       /\ \A b \in down : b.pc = "reply"
       /\ acts' = (acts \ (down \cup {a})) \cup
                  {[a EXCEPT !.pc = "reply", !.ok = \E b \in down : b.ok]}
    /\ UNCHANGED <<chainVars, store, cl, acked, floor, lastRead>>

\* The process of node n ends: its handler threads and any UPDATE_PREV not
\* yet read vanish, and every connection to it closes.
Exit(n) ==
    /\ alive' = [alive EXCEPT ![n] = FALSE]
    /\ acts' = {a \in acts : a.node # n}
    /\ updPrev' = {m \in updPrev : m[1] # n}

\* The caller of this handler has failed.  After DIE at this node, stop()
\* has dropped the connection from clients_ and sendMessage returns false.
\* After the caller's process ended, sendData's first send (the 4-byte
\* header) is answered by a reset, and the second (the body) fails with
\* EPIPE and raises SIGPIPE, which nothing ignores and no send masks with
\* MSG_NOSIGNAL: this node's whole process ends.  If the reset is not back
\* by then, the handler thread just ends.
ReplyToFailedCaller(a) ==
    /\ a.pc = "reply" /\ a.caller # None
    /\ ~\E b \in acts : b.id = a.id /\ b.node = a.caller
    /\ \/ /\ acts' = acts \ {a}
          /\ UNCHANGED <<alive, updPrev>>
       \/ /\ a.caller \in Node
          /\ Exit(a.node)
    /\ UNCHANGED <<role, next, prev, skip, skipSent, crashes, store, cl, acked,
                   floor, lastRead>>

-----------------------------------------------------------------------------
(* Metadata node: chain maintenance.                                       *)

\* Fault variant: the skip link is ignored and the successor always dropped.
HandleNextNodeFailureNoSkip(n) ==
    /\ alive[n] /\ next[n] # None /\ ~alive[next[n]]
    /\ next' = [next EXCEPT ![n] = None]
    /\ role' = [role EXCEPT ![n] = IF prev[n] = None THEN "SINGLE" ELSE "TAIL"]
    /\ UNCHANGED <<skip, updPrev>>
    /\ UNCHANGED <<alive, prev, skipSent, crashes, store, acts, cl, acked,
                   floor, lastRead>>

\* Mutant: the skip branch adopts the skip link but does not clear it.
HandleNextNodeFailureKeepSkip(n) ==
    /\ alive[n] /\ next[n] # None /\ ~alive[next[n]]
    /\ IF skip[n] # None
       THEN /\ next' = [next EXCEPT ![n] = skip[n]]
            /\ updPrev' = IF alive[skip[n]] THEN updPrev \cup {<<skip[n], n>>}
                                            ELSE updPrev
            /\ UNCHANGED <<role, skip>>
       ELSE /\ next' = [next EXCEPT ![n] = None]
            /\ role' = [role EXCEPT ![n] = IF prev[n] = None THEN "SINGLE" ELSE "TAIL"]
            /\ UNCHANGED <<skip, updPrev>>
    /\ UNCHANGED <<alive, prev, skipSent, crashes, store, acts, cl, acked,
                   floor, lastRead>>

\* healthCheckLoop / pingNext / handleNextNodeFailure /
\* notifyNextOfPredecessor: the PING to next fails, and under chainMutex_ the
\* node adopts its skip link (announcing itself by UPDATE_PREV, without
\* waiting for the answer) or, with no skip link, drops its successor.
HandleNextNodeFailure(n) ==
    /\ alive[n] /\ next[n] # None /\ ~alive[next[n]]
    /\ IF skip[n] # None
       THEN /\ next' = [next EXCEPT ![n] = skip[n]]
            /\ skip' = [skip EXCEPT ![n] = None]
            /\ updPrev' = IF alive[skip[n]] THEN updPrev \cup {<<skip[n], n>>}
                                            ELSE updPrev
            /\ UNCHANGED role
       ELSE /\ next' = [next EXCEPT ![n] = None]
            /\ role' = [role EXCEPT ![n] = IF prev[n] = None THEN "SINGLE" ELSE "TAIL"]
            /\ UNCHANGED <<skip, updPrev>>
    /\ UNCHANGED <<alive, prev, skipSent, crashes, store, acts, cl, acked,
                   floor, lastRead>>

\* notifyNextOfPredecessor closes its connection right after sending
\* UPDATE_PREV, so the receiver's ACK goes to a closed peer: the header is
\* answered by a reset and the body's send raises SIGPIPE, ending the
\* receiver's process (ReplyToFailedCaller); or the ACK is sent before the
\* close and the handler goes on.
AckUpdatePrev(m) ==
    \/ /\ updPrev' = updPrev \ {m}
       /\ UNCHANGED <<alive, acts>>
    \/ Exit(m[1])

\* Mutant: UPDATE_PREV sets prev but leaves the role as it was.
HandleUpdatePrevKeepRole(m) ==
    /\ m \in updPrev /\ alive[m[1]]
    /\ prev' = [prev EXCEPT ![m[1]] = m[2]]
    /\ AckUpdatePrev(m)
    /\ UNCHANGED <<role, next, skip, skipSent, crashes, store, cl, acked, floor,
                   lastRead>>

\* handleClient, UPDATE_PREV: set prev; HEAD becomes MIDDLE, SINGLE becomes
\* TAIL; then ACK.
HandleUpdatePrev(m) ==
    /\ m \in updPrev /\ alive[m[1]]
    /\ prev' = [prev EXCEPT ![m[1]] = m[2]]
    /\ role' = [role EXCEPT ![m[1]] = CASE @ = "HEAD" -> "MIDDLE"
                                      [] @ = "SINGLE" -> "TAIL"
                                      [] OTHER -> @]
    /\ AckUpdatePrev(m)
    /\ UNCHANGED <<next, skip, skipSent, crashes, store, cl, acked, floor,
                   lastRead>>

\* handleClient, SET_SKIP sent by the operator with the node two hops down.
HandleSetSkip(n) ==
    /\ n \notin skipSent /\ alive[n] /\ SkipTarget(n) # None
    /\ skip' = [skip EXCEPT ![n] = SkipTarget(n)]
    /\ skipSent' = skipSent \cup {n}
    /\ UNCHANGED <<alive, role, next, prev, updPrev, crashes, store, acts, cl,
                   acked, floor, lastRead>>

\* A node fails (process exit).
Crash(n) ==
    /\ n \in Crashable /\ alive[n] /\ crashes < MaxCrashes
    /\ Exit(n)
    /\ crashes' = crashes + 1
    /\ UNCHANGED <<role, next, prev, skip, skipSent, store, cl, acked, floor,
                   lastRead>>

\* DIE (killNode in the system tests), handled by one of n's handler
\* threads: running_ is cleared, so the health check stops, and
\* server_.stop() closes the listening socket and every accepted connection,
\* so connects fail and every caller of n sees its connection close.  The
\* handler threads already inside handlePut go on: they store, forward on a
\* connection of their own, and find their caller gone when they reply.
Die(n) ==
    /\ n \in Killable /\ alive[n] /\ crashes < MaxCrashes
    /\ alive' = [alive EXCEPT ![n] = FALSE]
    /\ acts' = {IF a.node = n THEN [a EXCEPT !.caller = Closed] ELSE a : a \in acts}
    /\ updPrev' = {m \in updPrev : m[1] # n}
    /\ crashes' = crashes + 1
    /\ UNCHANGED <<role, next, prev, skip, skipSent, store, cl, acked, floor,
                   lastRead>>

-----------------------------------------------------------------------------

Done == \A c \in Client : ~Running(c)

\* Every client thread has returned; the nodes keep serving but nothing changes.
Terminated == Done /\ UNCHANGED vars

Next ==
    \/ \E c \in Client : ClientPutConnect(c) \/ ClientPutResult(c) \/ ClientGetTry(c)
    \/ \E a \in acts : HandlePut(a) \/ ForwardPut(a) \/ ForwardResult(a)
                       \/ ReplyToFailedCaller(a)
    \/ \E n \in Node : HandleNextNodeFailure(n) \/ HandleSetSkip(n) \/ Crash(n) \/ Die(n)
    \/ \E m \in updPrev : HandleUpdatePrev(m)
    \/ Terminated

\* Handler threads, client threads and the health-check loop (a 3 s sleep)
\* keep running; a failure and the operator's SET_SKIP need not happen.
Fairness ==
    /\ \A c \in Client : WF_vars(ClientPutConnect(c) \/ ClientPutResult(c)
                                 \/ ClientGetTry(c))
    /\ \A n \in Node :
         /\ WF_vars(\E a \in acts : a.node = n /\
                      (HandlePut(a) \/ ForwardPut(a) \/ ForwardResult(a)
                       \/ ReplyToFailedCaller(a)))
         /\ WF_vars(HandleNextNodeFailure(n))
         /\ WF_vars(\E m \in updPrev : m[1] = n /\ HandleUpdatePrev(m))

Spec == Init /\ [][Next]_vars /\ Fairness

-----------------------------------------------------------------------------
(* Properties.                                                             *)

\* v is a later write than w by the same client thread.
Newer(v, w) == v[1] = w[1] /\ v[2] > w[2]

\* Read-after-acknowledged-write (spec 4.4, "a client observing ACK knows
\* every live node from HEAD through TAIL holds the manifest"; 8, "chain
\* convergence"): a download never returns a manifest older than one whose
\* PUT was acknowledged before the download began.
ReadNotStale ==
    \A c \in Client :
        lastRead[c] # None /\ lastRead[c].val # None =>
            ~\E w \in lastRead[c].floor :
                 FileOf(w) = lastRead[c].file /\ Newer(w, lastRead[c].val)

\* No PUT handler is running and no client waits for a PUT.
Quiescent == acts = {} /\ \A c \in Client : ~cl[c].wait

\* Spec 3: a manifest at a node is the manifest at its successor "eventual
\* through synchronous forwarding": once no PUT is in flight, every live
\* node and its live successor hold the same manifests.
QuiescentConvergence ==
    Quiescent =>
        \A n \in Node : alive[n] /\ next[n] # None /\ alive[next[n]] =>
                           store[n] = store[next[n]]

\* The role a node's links call for (spec 5, "role invariants after
\* reconfiguration"): HEAD with only next set, MIDDLE with both, TAIL with
\* only prev; with neither, the TAIL the constructor made (a node started
\* without next), and SINGLE for a node whose next was cleared.
RoleOfLinks(n) ==
    CASE next[n] # None /\ prev[n] = None -> "HEAD"
      [] next[n] # None /\ prev[n] # None -> "MIDDLE"
      [] next[n] = None /\ prev[n] # None -> "TAIL"
      [] OTHER -> IF BootNext(n) = None THEN "TAIL" ELSE "SINGLE"

\* role_ agrees with next/prev at every live node, whatever UPDATE_PREVs
\* were lost (notifyNextOfPredecessor never reads the ACK) and however
\* failures and skips interleave.  handleGet serves by role_ and handlePut
\* forwards by nextNodePort_: so a node answers GETs exactly when it
\* forwards to no one.
RoleAgreesWithLinks == \A n \in Node : alive[n] => role[n] = RoleOfLinks(n)

\* The live nodes in bootstrap order.
LiveChain == SelectSeq(Chain, LAMBDA n : alive[n])

\* The next links of the live nodes form one chain through all of them.
Linked ==
    \A i \in DOMAIN LiveChain :
        next[LiveChain[i]] = IF i < Len(LiveChain) THEN LiveChain[i + 1] ELSE None

\* Failure detection and skip links (healthCheckLoop, handleNextNodeFailure)
\* eventually reconnect the chain for good: no live node is left cut off
\* behind a failed one, and every next link leads to a live node.
ChainEventuallyLinked == <>[]Linked

\* Spec 7 ("per-connection errors close only that connection ... never
\* crashes the node") and spec 9 (the chain survives a single failure): the
\* only processes that end are the ones the environment fails.  A reply
\* into a connection whose peer is gone, the ACK to notifyNextOfPredecessor,
\* which closes without reading it, or to a caller that failed, never takes
\* the replying node down.
OnlyInjectedFailures == Cardinality({n \in Node : ~alive[n]}) <= crashes

\* Every client's upload and download returns (the client loops over a
\* finite endpoint list and a failed node closes its connections).
ClientsTerminate == <>Done

====
