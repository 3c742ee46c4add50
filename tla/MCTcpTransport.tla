--------------------------- MODULE MCTcpTransport ---------------------------
(* Two connections to a node and one socket of another thread, three fd   *)
(* numbers.  Payload bytes are distinct per connection, so a byte read on  *)
(* the wrong socket shows.                                                  *)
EXTENDS TcpTransport, TLC

CONSTANTS a, b, o, none

MCDie == <<68>>

(* Two messages of a, the first of two bytes, so that a read of the first  *)
(* can run into the second; one message of b.                               *)
MCScript == (a :> <<<<10, 11>>, <<12>>>>) @@ (b :> <<<<20>>>>)

(* killNode's DIE on a while b is sending a two-byte message.              *)
MCScriptDie == (a :> <<MCDie>>) @@ (b :> <<<<20, 21>>>>)

MCOtherData == <<30>>
=============================================================================
