---------------------------- MODULE MCStorageNode ----------------------------
(* A storage node serving one upload, one download of the same chunk and a  *)
(* DIE from killNode, in any order.                                         *)
EXTENDS StorageNode, TLC

CONSTANTS k1, k2, k3, d1

MCCmd ==
    (k1 :> [op |-> "STORE", d |-> d1]) @@
    (k2 :> [op |-> "GET", d |-> d1]) @@
    (k3 :> [op |-> "DIE", d |-> d1])
=============================================================================
