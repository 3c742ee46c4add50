----------------------------- MODULE StorageNode -----------------------------
(***************************************************************************)
(* One storage node (src/storage/storage_node.cpp) on its TCP server       *)
(* (src/network/tcp_server.cpp), with the peers that connect to it: the    *)
(* client's uploadChunkToNode and downloadChunkFromNode, and killNode,     *)
(* which sends DIE.  Each connection carries one command, as every caller  *)
(* in the repository opens a fresh connection per request.                 *)
(*                                                                         *)
(* Threads: the thread in start() (accept loop, then the wait for the      *)
(* handler count), and one detached handler thread per accepted            *)
(* connection.  A frame is delivered whole; a closed socket is seen by     *)
(* the other end as an empty frame once earlier frames are read.           *)
(***************************************************************************)
EXTENDS Naturals, Sequences, FiniteSets

CONSTANTS
    Conn,             \* connections that peers open, one request each
    Digest,           \* chunk digests
    Cmd,              \* Cmd[c] : [op : {"STORE", "GET", "DIE"}, d : Digest]
    CloseWakesAccept  \* does close() of the listening socket wake accept()?

ASSUME \A c \in Conn : Cmd[c].op \in {"STORE", "GET", "DIE"} /\ Cmd[c].d \in Digest

VARIABLES
    running,     \* StorageNode::running_
    srvRunning,  \* TCPServer::running_
    listen,      \* listening socket: "open", "orphan" (fd closed while accept()
                 \* blocks on it, so it still accepts), "closed"
    table,       \* TCPServer::clients_ : connections registered by acceptClient
    srvOpen,     \* connections whose server-side fd is open
    mainPc,      \* the thread in start()
    active,      \* activeHandlers_
    h,           \* handler thread of each connection
    store,       \* storage_ : the digests held
    cl,          \* the peer of each connection
    pending,     \* connected, in the listen backlog, not yet accepted
    cliOpen,     \* connections whose peer has not closed its end
    toSrv,       \* frames sent by the peer, not yet read by the node
    toCli        \* frames sent by the node, not yet read by the peer

vars == <<running, srvRunning, listen, table, srvOpen, mainPc, active, h, store,
          cl, pending, cliOpen, toSrv, toCli>>

MainPcs == {"loop", "accept", "wait", "presleep", "sleep", "exit"}
HandlerPcs == {"none", "loop", "recv", "data", "close", "dec", "notify", "done"}
PeerPcs == {"idle", "sent", "data_sent", "found", "ok", "miss", "failed"}
Frames == {"CMD", "DATA", "READY", "ACK", "FOUND", "NOT_FOUND"}

TypeOK ==
    /\ running \in BOOLEAN /\ srvRunning \in BOOLEAN
    /\ listen \in {"open", "orphan", "closed"}
    /\ table \subseteq Conn /\ srvOpen \subseteq Conn
    /\ mainPc \in MainPcs
    /\ active \in 0 .. Cardinality(Conn)
    /\ h \in [Conn -> HandlerPcs]
    /\ store \subseteq Digest
    /\ cl \in [Conn -> PeerPcs]
    /\ pending \subseteq Conn /\ cliOpen \subseteq Conn
    /\ toSrv \in [Conn -> Seq(Frames)] /\ toCli \in [Conn -> Seq(Frames)]

Init ==
    /\ running = TRUE /\ srvRunning = TRUE     \* start(): server_.start succeeded
    /\ listen = "open"
    /\ table = {} /\ srvOpen = {}
    /\ mainPc = "loop"
    /\ active = 0
    /\ h = [c \in Conn |-> "none"]
    /\ store = {}
    /\ cl = [c \in Conn |-> "idle"]
    /\ pending = {} /\ cliOpen = {}
    /\ toSrv = [c \in Conn |-> <<>>] /\ toCli = [c \in Conn |-> <<>>]

-----------------------------------------------------------------------------
(* Mutant: stop() clears clients_ without closing the client sockets.     *)
StopKeepsSockets ==
    IF srvRunning
    THEN /\ srvRunning' = FALSE
         /\ listen' = IF mainPc = "accept" THEN "orphan" ELSE "closed"
         /\ table' = {}
         /\ UNCHANGED srvOpen
    ELSE UNCHANGED <<srvRunning, listen, srvOpen, table>>

(* TCPServer::stop, lines 123-136: close the listening socket and every    *)
(* registered client socket, then clear clients_.  A no-op once stopped.   *)
Stop ==
    IF srvRunning
    THEN /\ srvRunning' = FALSE
         /\ listen' = IF mainPc = "accept" THEN "orphan" ELSE "closed"
         /\ srvOpen' = srvOpen \ table
         /\ table' = {}
    ELSE UNCHANGED <<srvRunning, listen, srvOpen, table>>

(* TCPServer::sendData, lines 61-75: false unless the connection is still  *)
(* registered; the frames reach the peer only over an open socket.         *)
Send(c, frames) ==
    IF c \in table /\ c \in srvOpen
    THEN toCli' = [toCli EXCEPT ![c] = @ \o frames]
    ELSE UNCHANGED toCli

(* The peer's recv returns an empty frame: nothing left to read and the    *)
(* node's end is closed (accepted), or the backlog was reset (not yet).    *)
PeerSeesEof(c) ==
    /\ toCli[c] = <<>>
    /\ IF c \in pending THEN listen = "closed" ELSE c \notin srvOpen

(* The node's recv returns an empty frame: nothing left and the peer       *)
(* closed, or the node's own fd was closed by stop().                      *)
NodeSeesEof(c) ==
    \/ c \notin srvOpen
    \/ toSrv[c] = <<>> /\ c \notin cliOpen

-----------------------------------------------------------------------------
(* The accept loop of StorageNode::start, lines 23-33.                     *)

(* while (running_): block in acceptClient, or leave the loop.  running_  *)
(* is cleared together with the server's own flag, so acceptClient's early *)
(* return -1 (tcp_server.cpp lines 48-49) is never taken here.             *)
MainLoop ==
    /\ mainPc = "loop"
    /\ mainPc' = IF running THEN "accept" ELSE "wait"
    /\ UNCHANGED <<running, srvRunning, listen, table, srvOpen, active, h, store,
                   cl, pending, cliOpen, toSrv, toCli>>

(* Mutant: start() does not count the handler it spawns.                  *)
AcceptClientNoCount(c) ==
    /\ mainPc = "accept"
    /\ c \in pending
    /\ listen # "closed"
    /\ pending' = pending \ {c}
    /\ table' = table \cup {c}
    /\ srvOpen' = srvOpen \cup {c}
    /\ listen' = IF listen = "orphan" THEN "closed" ELSE listen
    /\ h' = [h EXCEPT ![c] = "loop"]
    /\ mainPc' = "loop"
    /\ UNCHANGED <<running, srvRunning, store, cl, cliOpen, toSrv, toCli, active>>

(* accept() returns a connection: acceptClient registers it (lines 50-58), *)
(* start() counts it and spawns its handler thread (lines 25-31).          *)
AcceptClient(c) ==
    /\ mainPc = "accept"
    /\ c \in pending
    /\ listen # "closed"
    /\ pending' = pending \ {c}
    /\ table' = table \cup {c}
    /\ srvOpen' = srvOpen \cup {c}
    /\ listen' = IF listen = "orphan" THEN "closed" ELSE listen
    /\ active' = active + 1
    /\ h' = [h EXCEPT ![c] = "loop"]
    /\ mainPc' = "loop"
    /\ UNCHANGED <<running, srvRunning, store, cl, cliOpen, toSrv, toCli>>

(* accept() fails because stop() closed the listening socket.              *)
AcceptInterrupted ==
    /\ mainPc = "accept"
    /\ listen = "orphan"
    /\ listen' = "closed"
    /\ mainPc' = "loop"
    /\ UNCHANGED <<running, srvRunning, table, srvOpen, active, h, store, cl,
                   pending, cliOpen, toSrv, toCli>>

(* Mutant: start() returns without waiting for its handlers.              *)
WaitCheckNoWait ==
    /\ mainPc = "wait"
    /\ mainPc' = "exit"
    /\ running' = FALSE
    /\ Stop
    /\ UNCHANGED <<active, h, store, cl, pending, cliOpen, toSrv, toCli>>

(* handlersCv_.wait(lock, pred), lines 35-36: the predicate is tested      *)
(* under handlersMutex_; when it holds start() returns, main() returns and *)
(* ~StorageNode destroys the node (lines 10-13).                           *)
WaitCheck ==
    /\ mainPc = "wait"
    /\ IF active = 0
       THEN /\ mainPc' = "exit"
            /\ running' = FALSE
            /\ Stop
       ELSE /\ mainPc' = "presleep"
            /\ UNCHANGED <<running, srvRunning, listen, srvOpen, table>>
    /\ UNCHANGED <<active, h, store, cl, pending, cliOpen, toSrv, toCli>>

(* The waiter blocks on the condition variable.  The handlers' decrement   *)
(* and notify_one do not take handlersMutex_, so a notify between the      *)
(* test and the block finds no waiter.                                     *)
Block ==
    /\ mainPc = "presleep"
    /\ mainPc' = "sleep"
    /\ UNCHANGED <<running, srvRunning, listen, table, srvOpen, active, h, store,
                   cl, pending, cliOpen, toSrv, toCli>>

SpuriousWakeup ==
    /\ mainPc = "sleep"
    /\ mainPc' = "wait"
    /\ UNCHANGED <<running, srvRunning, listen, table, srvOpen, active, h, store,
                   cl, pending, cliOpen, toSrv, toCli>>

-----------------------------------------------------------------------------
(* StorageNode::handleClient, lines 39-96, and the decrement and notify of *)
(* the thread body, lines 28-30.                                           *)

(* while (running_)                                                        *)
HandlerLoop(c) ==
    /\ h[c] = "loop"
    /\ h' = [h EXCEPT ![c] = IF running THEN "recv" ELSE "close"]
    /\ UNCHANGED <<running, srvRunning, listen, table, srvOpen, mainPc, active,
                   store, cl, pending, cliOpen, toSrv, toCli>>

(* recvMessage returns the peer's command, or "" and the loop breaks.      *)
HandlerRecvEof(c) ==
    /\ h[c] = "recv"
    /\ NodeSeesEof(c)
    /\ h' = [h EXCEPT ![c] = "close"]
    /\ UNCHANGED <<running, srvRunning, listen, table, srvOpen, mainPc, active,
                   store, cl, pending, cliOpen, toSrv, toCli>>

(* STORE: reply READY and go on to read the chunk body, lines 48-55.       *)
HandleStore(c) ==
    /\ h[c] = "recv" /\ ~NodeSeesEof(c) /\ toSrv[c] # <<>>
    /\ Cmd[c].op = "STORE"
    /\ toSrv' = [toSrv EXCEPT ![c] = Tail(@)]
    /\ Send(c, <<"READY">>)
    /\ h' = [h EXCEPT ![c] = "data"]
    /\ UNCHANGED <<running, srvRunning, listen, table, srvOpen, mainPc, active,
                   store, cl, pending, cliOpen>>

(* The chunk body arrives: store it under storageMutex_ and ACK, lines     *)
(* 56-63; an empty body breaks the loop, lines 64-66.                      *)
HandleStoreData(c) ==
    /\ h[c] = "data"
    /\ \/ /\ ~NodeSeesEof(c) /\ toSrv[c] # <<>>
          /\ toSrv' = [toSrv EXCEPT ![c] = Tail(@)]
          /\ store' = store \cup {Cmd[c].d}
          /\ Send(c, <<"ACK">>)
          /\ h' = [h EXCEPT ![c] = "loop"]
       \/ /\ NodeSeesEof(c)
          /\ h' = [h EXCEPT ![c] = "close"]
          /\ UNCHANGED <<toSrv, store, toCli>>
    /\ UNCHANGED <<running, srvRunning, listen, table, srvOpen, mainPc, active,
                   cl, pending, cliOpen>>

(* GET: FOUND and the body, or NOT_FOUND, lines 67-85.                     *)
HandleGet(c) ==
    /\ h[c] = "recv" /\ ~NodeSeesEof(c) /\ toSrv[c] # <<>>
    /\ Cmd[c].op = "GET"
    /\ toSrv' = [toSrv EXCEPT ![c] = Tail(@)]
    /\ Send(c, IF Cmd[c].d \in store THEN <<"FOUND", "DATA">> ELSE <<"NOT_FOUND">>)
    /\ h' = [h EXCEPT ![c] = "loop"]
    /\ UNCHANGED <<running, srvRunning, listen, table, srvOpen, mainPc, active,
                   store, cl, pending, cliOpen>>

(* DIE: running_ = false, server_.stop(), break, lines 86-90.              *)
HandleDie(c) ==
    /\ h[c] = "recv" /\ ~NodeSeesEof(c) /\ toSrv[c] # <<>>
    /\ Cmd[c].op = "DIE"
    /\ toSrv' = [toSrv EXCEPT ![c] = Tail(@)]
    /\ running' = FALSE
    /\ Stop
    /\ h' = [h EXCEPT ![c] = "close"]
    /\ UNCHANGED <<mainPc, active, store, cl, pending, cliOpen, toCli>>

(* server_.closeClient, line 95 (tcp_server.cpp lines 112-121): closes the *)
(* socket only if the connection is still registered.                      *)
HandlerClose(c) ==
    /\ h[c] = "close"
    /\ table' = table \ {c}
    /\ srvOpen' = IF c \in table THEN srvOpen \ {c} ELSE srvOpen
    /\ h' = [h EXCEPT ![c] = "dec"]
    /\ UNCHANGED <<running, srvRunning, listen, mainPc, active, store, cl,
                   pending, cliOpen, toSrv, toCli>>

(* activeHandlers_--, line 29.                                             *)
HandlerDecrement(c) ==
    /\ h[c] = "dec"
    /\ active' = active - 1
    /\ h' = [h EXCEPT ![c] = "notify"]
    /\ UNCHANGED <<running, srvRunning, listen, table, srvOpen, mainPc, store,
                   cl, pending, cliOpen, toSrv, toCli>>

(* handlersCv_.notify_one(), line 30: wakes the waiter only if it sleeps.  *)
HandlerNotify(c) ==
    /\ h[c] = "notify"
    /\ mainPc' = IF mainPc = "sleep" THEN "wait" ELSE mainPc
    /\ h' = [h EXCEPT ![c] = "done"]
    /\ UNCHANGED <<running, srvRunning, listen, table, srvOpen, active, store,
                   cl, pending, cliOpen, toSrv, toCli>>

-----------------------------------------------------------------------------
(* The peers: Client::uploadChunkToNode (client.cpp lines 210-234),        *)
(* Client::downloadChunkFromNode (lines 236-256), killNode (system tests). *)

(* connect() succeeds while the listening socket exists; the command is   *)
(* sent at once.  killNode closes right after sending DIE.                 *)
PeerConnect(c) ==
    /\ cl[c] = "idle"
    /\ IF listen # "closed"
       THEN /\ pending' = pending \cup {c}
            /\ toSrv' = [toSrv EXCEPT ![c] = <<"CMD">>]
            /\ cliOpen' = IF Cmd[c].op = "DIE" THEN cliOpen ELSE cliOpen \cup {c}
            /\ cl' = [cl EXCEPT ![c] = IF Cmd[c].op = "DIE" THEN "ok" ELSE "sent"]
       ELSE /\ cl' = [cl EXCEPT ![c] = "failed"]
            /\ UNCHANGED <<pending, toSrv, cliOpen>>
    /\ UNCHANGED <<running, srvRunning, listen, table, srvOpen, mainPc, active,
                   h, store, toCli>>

(* The peer reads the node's next frame and reacts as its caller does; it *)
(* closes its socket when it is finished.                                  *)
PeerRecv(c) ==
    /\ cl[c] \in {"sent", "data_sent", "found"}
    /\ toCli[c] # <<>>
    /\ LET f    == Head(toCli[c])
           next == CASE cl[c] = "sent" /\ Cmd[c].op = "STORE" /\ f = "READY" -> "data_sent"
                     [] cl[c] = "data_sent" /\ f = "ACK"                   -> "ok"
                     [] cl[c] = "sent" /\ Cmd[c].op = "GET" /\ f = "FOUND"  -> "found"
                     [] cl[c] = "sent" /\ f = "NOT_FOUND"                  -> "miss"
                     [] cl[c] = "found" /\ f = "DATA"                      -> "ok"
                     [] OTHER                                              -> "failed"
       IN  /\ toCli' = [toCli EXCEPT ![c] = Tail(@)]
           /\ cl' = [cl EXCEPT ![c] = next]
           /\ toSrv' = IF next = "data_sent"
                       THEN [toSrv EXCEPT ![c] = Append(@, "DATA")] ELSE toSrv
           /\ cliOpen' = IF next \in {"ok", "miss", "failed"}
                         THEN cliOpen \ {c} ELSE cliOpen
    /\ UNCHANGED <<running, srvRunning, listen, table, srvOpen, mainPc, active,
                   h, store, pending>>

(* The peer's recv returns "": the request fails.                          *)
PeerEof(c) ==
    /\ cl[c] \in {"sent", "data_sent", "found"}
    /\ PeerSeesEof(c)
    /\ cl' = [cl EXCEPT ![c] = "failed"]
    /\ cliOpen' = cliOpen \ {c}
    /\ UNCHANGED <<running, srvRunning, listen, table, srvOpen, mainPc, active,
                   h, store, pending, toSrv, toCli>>

-----------------------------------------------------------------------------
HandlerStep(c) ==
    \/ HandlerLoop(c) \/ HandlerRecvEof(c)
    \/ HandleStore(c) \/ HandleStoreData(c) \/ HandleGet(c) \/ HandleDie(c)
    \/ HandlerClose(c) \/ HandlerDecrement(c) \/ HandlerNotify(c)

PeerStep(c) == PeerConnect(c) \/ PeerRecv(c) \/ PeerEof(c)

MainStep ==
    MainLoop \/ (\E c \in Conn : AcceptClient(c)) \/ WaitCheck \/ Block

(* The process has exited and every peer is finished.                     *)
Exited ==
    /\ mainPc = "exit"
    /\ \A c \in Conn : cl[c] \in {"ok", "miss", "failed"}
    /\ UNCHANGED vars

Next ==
    \/ MainStep \/ AcceptInterrupted \/ SpuriousWakeup
    \/ \E c \in Conn : HandlerStep(c) \/ PeerStep(c)
    \/ Exited

(* Threads are scheduled fairly.  A blocked accept() is woken by close()   *)
(* only on platforms that do so; spurious wakeups are never relied on.     *)
Fairness ==
    /\ WF_vars(MainStep)
    /\ \A c \in Conn : WF_vars(HandlerStep(c)) /\ WF_vars(PeerStep(c))
    /\ CloseWakesAccept => WF_vars(AcceptInterrupted)

Spec == Init /\ [][Next]_vars /\ Fairness

-----------------------------------------------------------------------------
(* start() returns, and main() destroys the node, only when no handler     *)
(* thread is still inside handleClient (spec 5, handler accounting).       *)
StartReturnsOnlyWhenIdle ==
    mainPc = "exit" => \A c \in Conn : h[c] \in {"none", "notify", "done"}

(* Every peer's request ends: it gets its reply, or its connection closes. *)
PeersComplete == \A c \in Conn : <>(cl[c] \in {"ok", "miss", "failed"})

(* The handlersCv_ contract of start() (lines 26-36): a handler's          *)
(* notify_one never lands while start() is between its predicate test and *)
(* its block (the wakeup would be lost, and start() could sleep forever    *)
(* after DIE), nor after start() has returned and main() has destroyed the *)
(* node.  Both need the decrement and notify under handlersMutex_.         *)
NotifyReachesWaiter ==
    [][\A c \in Conn : HandlerNotify(c) => mainPc \notin {"presleep", "exit"}]_vars
=============================================================================
