---------------------------- MODULE TcpTransport ----------------------------
(***************************************************************************)
(* The length-prefixed framing of src/network and the server's table of    *)
(* client sockets, as a storage node's handler threads use them.           *)
(*                                                                         *)
(* A connection is a byte stream.  TCPClient::sendData writes a 4-byte     *)
(* big-endian length and the payload; TCPServer::recvData reads the length *)
(* with MSG_WAITALL and the payload with as many recv calls as the stream  *)
(* delivers it in, which the model chooses freely.                         *)
(*                                                                         *)
(* Sockets are reached through fd numbers of the one process, and the      *)
(* kernel gives a new socket the lowest free number.  recvData copies the  *)
(* number under clientsMutex_ and passes it to every recv call after       *)
(* unlocking, so the model resolves the number at each call: a call made   *)
(* after stop() closed the number fails, or reads whatever socket the      *)
(* number names by then.  A call already inside recv keeps its socket      *)
(* (the kernel holds a reference), as on Linux.                            *)
(***************************************************************************)
EXTENDS Integers, Sequences, SequencesExt, FiniteSetsExt, Functions

CONSTANTS
    Conn,       \* connections a peer opens to the node, one handler each
    Other,      \* sockets other threads of the process open (TCPClient)
    Fd,         \* fd numbers the process may hand out
    Script,     \* Script[c]: the payloads c's peer sends, in order
    OtherData,  \* the payload the remote end of an Other socket sends
    DieFrame,   \* the payload "DIE"
    MaxLen,     \* longest payload
    NoSock      \* an fd number that names no socket

NoFd == -1      \* SocketContext::socket{-1}

Sock == Conn \cup Other

VARIABLES
    running,    \* StorageNode::running_ and TCPServer::running_
    fdOf,       \* fdOf[fd]: the socket an fd number names
    table,      \* clients_: table[c] is c's fd, NoFd once erased
    inbox,      \* inbox[s]: bytes the remote end sent, not yet read
    eof,        \* the remote end of s has closed
    peer,       \* number of payloads c's peer has sent
    other,      \* "unopened", "open", "closed"
    h,          \* the handler thread of c
    sock,       \* recvData's local copy of the fd number
    bound,      \* the socket of the recv call in progress
    buf,        \* bytes recvData has read of the current frame
    len,        \* the decoded length of the current frame
    recvd       \* recvd[c]: the messages handleClient has received

vars == <<running, fdOf, table, inbox, eof, peer, other, h, sock, bound,
          buf, len, recvd>>

HandlerPcs == {"new", "loop", "lock", "hcall", "hwait", "bcall", "bwait",
               "dispatch", "close", "done"}

TypeOK ==
    /\ running \in BOOLEAN
    /\ fdOf \in [Fd -> Sock \cup {NoSock}]
    /\ table \in [Conn -> Fd \cup {NoFd}]
    /\ \A s \in Sock : inbox[s] \in Seq(Nat)
    /\ eof \in [Sock -> BOOLEAN]
    /\ other \in [Other -> {"unopened", "open", "closed"}]
    /\ h \in [Conn -> HandlerPcs]
    /\ sock \in [Conn -> Fd \cup {NoFd}]
    /\ bound \in [Conn -> Sock \cup {NoSock}]
    /\ len \in [Conn -> 0 .. MaxLen]
    /\ \A c \in Conn : Len(buf[c]) <= MaxLen

Init ==
    /\ running = TRUE
    /\ fdOf = [f \in Fd |-> NoSock]
    /\ table = [c \in Conn |-> NoFd]
    /\ inbox = [s \in Sock |-> <<>>]
    /\ eof = [s \in Sock |-> FALSE]
    /\ peer = [c \in Conn |-> 0]
    /\ other = [o \in Other |-> "unopened"]
    /\ h = [c \in Conn |-> "new"]
    /\ sock = [c \in Conn |-> NoFd]
    /\ bound = [c \in Conn |-> NoSock]
    /\ buf = [c \in Conn |-> <<>>]
    /\ len = [c \in Conn |-> 0]
    /\ recvd = [c \in Conn |-> <<>>]

-----------------------------------------------------------------------------
(* htonl and ntohl: the length as four bytes, most significant first.      *)
Htonl(n) == <<(n \div 16777216) % 256, (n \div 65536) % 256, (n \div 256) % 256, n % 256>>

(* Mutant: the length read in host (little-endian) order, ntohl missing.   *)
NtohlHostOrder(b) == b[4] * 16777216 + b[3] * 65536 + b[2] * 256 + b[1]

Ntohl(b) == b[1] * 16777216 + b[2] * 65536 + b[3] * 256 + b[4]

FreeFds == {f \in Fd : fdOf[f] = NoSock}

(* socket() or accept(): the lowest free fd number.                        *)
LowestFree == Min(FreeFds)

Frame(p) == Htonl(Len(p)) \o p

-----------------------------------------------------------------------------
(* The peer: TCPClient::sendData of each payload, then close().            *)
PeerSend(c) ==
    /\ peer[c] < Len(Script[c])
    /\ inbox' = [inbox EXCEPT ![c] = @ \o Frame(Script[c][peer[c] + 1])]
    /\ peer' = [peer EXCEPT ![c] = @ + 1]
    /\ UNCHANGED <<running, fdOf, table, eof, other, h, sock, bound, buf, len, recvd>>

PeerClose(c) ==
    /\ peer[c] = Len(Script[c])
    /\ ~eof[c]
    /\ eof' = [eof EXCEPT ![c] = TRUE]
    /\ UNCHANGED <<running, fdOf, table, inbox, peer, other, h, sock, bound, buf, len, recvd>>

(* Another thread's TCPClient::connect takes the lowest free fd; its       *)
(* remote end sends one frame.  TCPClient::close frees the number.         *)
OtherOpen(o) ==
    /\ other[o] = "unopened"
    /\ FreeFds # {}
    /\ fdOf' = [fdOf EXCEPT ![LowestFree] = o]
    /\ other' = [other EXCEPT ![o] = "open"]
    /\ inbox' = [inbox EXCEPT ![o] = Frame(OtherData)]
    /\ UNCHANGED <<running, table, eof, peer, h, sock, bound, buf, len, recvd>>

OtherClose(o) ==
    /\ other[o] = "open"
    /\ fdOf' = [f \in Fd |-> IF fdOf[f] = o THEN NoSock ELSE fdOf[f]]
    /\ other' = [other EXCEPT ![o] = "closed"]
    /\ UNCHANGED <<running, table, inbox, eof, peer, h, sock, bound, buf, len, recvd>>

-----------------------------------------------------------------------------
(* The start() thread: acceptClient registers the new fd under a fresh id  *)
(* and a handler thread starts.  The backlog is left after stop().          *)
AcceptClient(c) ==
    /\ running
    /\ h[c] = "new"
    /\ FreeFds # {}
    /\ fdOf' = [fdOf EXCEPT ![LowestFree] = c]
    /\ table' = [table EXCEPT ![c] = LowestFree]
    /\ h' = [h EXCEPT ![c] = "loop"]
    /\ UNCHANGED <<running, inbox, eof, peer, other, sock, bound, buf, len, recvd>>

-----------------------------------------------------------------------------
(* The handler thread: handleClient's loop around recvMessage.             *)
Set(f, c, v) == [f EXCEPT ![c] = v]

HandlerLoop(c) ==
    /\ h[c] = "loop"
    /\ h' = Set(h, c, IF running THEN "lock" ELSE "close")
    /\ UNCHANGED <<running, fdOf, table, inbox, eof, peer, other, sock, bound, buf, len, recvd>>

(* recvData, lines 82-88: copy the fd under clientsMutex_; an erased entry *)
(* returns no data, and handleClient breaks on the empty message.          *)
RecvLock(c) ==
    /\ h[c] = "lock"
    /\ IF table[c] # NoFd
       THEN /\ sock' = Set(sock, c, table[c])
            /\ buf' = Set(buf, c, <<>>)
            /\ h' = Set(h, c, "hcall")
       ELSE /\ h' = Set(h, c, "close")
            /\ UNCHANGED <<sock, buf>>
    /\ UNCHANGED <<running, fdOf, table, inbox, eof, peer, other, bound, len, recvd>>

(* A recv call on the copied number: EBADF if it names no socket, else the *)
(* call holds that socket until it returns.                                *)
RecvCall(c, from, to) ==
    /\ h[c] = from
    /\ IF fdOf[sock[c]] = NoSock
       THEN /\ h' = Set(h, c, "close")
            /\ UNCHANGED bound
       ELSE /\ bound' = Set(bound, c, fdOf[sock[c]])
            /\ h' = Set(h, c, to)
    /\ UNCHANGED <<running, fdOf, table, inbox, eof, peer, other, sock, buf, len, recvd>>

RecvHeaderCall(c) == RecvCall(c, "hcall", "hwait")

(* Mutant: a short read of the length is retried instead of failing.      *)
RecvHeaderRetryOnShort(c) ==
    /\ h[c] = "hwait"
    /\ LET s == bound[c] IN
       \/ /\ Len(inbox[s]) >= 4
          /\ LET n == Ntohl(SubSeq(inbox[s], 1, 4)) IN
             /\ len' = Set(len, c, n)
             /\ inbox' = [inbox EXCEPT ![s] = Tail(Tail(Tail(Tail(@))))]
             /\ h' = Set(h, c, IF n = 0 THEN "close" ELSE "bcall")
       \/ /\ eof[s] /\ Len(inbox[s]) < 4
          /\ UNCHANGED <<len, inbox, h>>
    /\ UNCHANGED <<running, fdOf, table, eof, peer, other, sock, bound, buf, recvd>>

(* recvData, lines 89-92: recv(sock, 4, MSG_WAITALL) returns the four      *)
(* length bytes, or fewer at end of stream, which returns no data.  A      *)
(* zero length returns an empty vector, which handleClient reads as EOF.   *)
RecvHeader(c) ==
    /\ h[c] = "hwait"
    /\ LET s == bound[c] IN
       \/ /\ Len(inbox[s]) >= 4
          /\ LET n == Ntohl(SubSeq(inbox[s], 1, 4)) IN
             /\ len' = Set(len, c, n)
             /\ inbox' = [inbox EXCEPT ![s] = Tail(Tail(Tail(Tail(@))))]
             /\ h' = Set(h, c, IF n = 0 THEN "close" ELSE "bcall")
       \/ /\ eof[s] /\ Len(inbox[s]) < 4
          /\ inbox' = [inbox EXCEPT ![s] = <<>>]
          /\ h' = Set(h, c, "close")
          /\ UNCHANGED len
    /\ UNCHANGED <<running, fdOf, table, eof, peer, other, sock, bound, buf, recvd>>

RecvBodyCall(c) == RecvCall(c, "bcall", "bwait")

(* Mutant: each recv of the payload asks for len bytes, not len - got.     *)
RecvBodyFullLen(c) ==
    /\ h[c] = "bwait"
    /\ LET s == bound[c] IN
       \/ \E n \in 1 .. Min({Len(inbox[s]), len[c]}) :
             /\ buf' = Set(buf, c, buf[c] \o SubSeq(inbox[s], 1, n))
             /\ inbox' = [inbox EXCEPT ![s] = SubSeq(@, n + 1, Len(@))]
             /\ h' = Set(h, c, IF Len(buf[c]) + n >= len[c] THEN "dispatch" ELSE "bcall")
       \/ /\ eof[s] /\ inbox[s] = <<>>
          /\ h' = Set(h, c, "close")
          /\ UNCHANGED <<buf, inbox>>
    /\ UNCHANGED <<running, fdOf, table, eof, peer, other, sock, bound, len, recvd>>

(* recvData, lines 93-99: recv(sock, len - got) returns between one byte   *)
(* and what is asked, or 0 at end of stream, which returns no data.        *)
RecvBody(c) ==
    /\ h[c] = "bwait"
    /\ LET s == bound[c]
           need == len[c] - Len(buf[c])
       IN
       \/ \E n \in 1 .. Min({Len(inbox[s]), need}) :
             /\ buf' = Set(buf, c, buf[c] \o SubSeq(inbox[s], 1, n))
             /\ inbox' = [inbox EXCEPT ![s] = SubSeq(@, n + 1, Len(@))]
             /\ h' = Set(h, c, IF n = need THEN "dispatch" ELSE "bcall")
       \/ /\ eof[s] /\ inbox[s] = <<>>
          /\ h' = Set(h, c, "close")
          /\ UNCHANGED <<buf, inbox>>
    /\ UNCHANGED <<running, fdOf, table, eof, peer, other, sock, bound, len, recvd>>

(* handleClient, lines 41-93: the message is handled; DIE clears running_ *)
(* and calls TCPServer::stop (lines 123-136), which closes every fd in     *)
(* clients_ and clears it, and the loop breaks.  Replies are not modelled. *)
Dispatch(c) ==
    /\ h[c] = "dispatch"
    /\ recvd' = Set(recvd, c, Append(recvd[c], buf[c]))
    /\ IF buf[c] = DieFrame
       THEN /\ running' = FALSE
            /\ fdOf' = [f \in Fd |-> IF f \in Range(table) THEN NoSock ELSE fdOf[f]]
            /\ table' = [x \in Conn |-> NoFd]
            /\ h' = Set(h, c, "close")
       ELSE /\ h' = Set(h, c, "loop")
            /\ UNCHANGED <<running, fdOf, table>>
    /\ UNCHANGED <<inbox, eof, peer, other, sock, bound, buf, len>>

(* closeClient, lines 112-121: close and erase the entry if still there.  *)
HandlerClose(c) ==
    /\ h[c] = "close"
    /\ IF table[c] # NoFd
       THEN /\ fdOf' = [fdOf EXCEPT ![table[c]] = NoSock]
            /\ table' = Set(table, c, NoFd)
       ELSE UNCHANGED <<fdOf, table>>
    /\ h' = Set(h, c, "done")
    /\ UNCHANGED <<running, inbox, eof, peer, other, sock, bound, buf, len, recvd>>

-----------------------------------------------------------------------------
HandlerStep(c) ==
    \/ HandlerLoop(c) \/ RecvLock(c) \/ RecvHeaderCall(c) \/ RecvHeader(c)
    \/ RecvBodyCall(c) \/ RecvBody(c) \/ Dispatch(c) \/ HandlerClose(c)

PeerStep(c) == PeerSend(c) \/ PeerClose(c)

(* Every handler has returned, or was never accepted before stop().        *)
Terminated ==
    /\ \A c \in Conn : h[c] = "done" \/ (h[c] = "new" /\ ~running)
    /\ UNCHANGED vars

Next ==
    \/ \E c \in Conn : AcceptClient(c) \/ HandlerStep(c) \/ PeerStep(c)
    \/ \E o \in Other : OtherOpen(o) \/ OtherClose(o)
    \/ Terminated

(* Threads are not starved: the accept loop, each handler and each peer.  *)
(* Other threads' sockets come and go as they please.                      *)
Fairness ==
    \A c \in Conn : WF_vars(AcceptClient(c)) /\ WF_vars(HandlerStep(c)) /\ WF_vars(PeerStep(c))

Spec == Init /\ [][Next]_vars /\ Fairness

-----------------------------------------------------------------------------
(* Framing: every message handleClient receives on a connection is the     *)
(* next payload that connection's peer sent, whatever the segmentation of  *)
(* the stream, the reuse of fd numbers, or stop() racing a recvData.       *)
FramesIntact == \A c \in Conn : IsPrefix(recvd[c], Script[c])

(* Every accepted connection's handler receives all its peer's messages   *)
(* and then, at the peer's close, returns and releases its fd.              *)
AllFramesDelivered == \A c \in Conn : <>(h[c] = "done" /\ recvd[c] = Script[c])
=============================================================================
