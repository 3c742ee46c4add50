------------------------ MODULE MCStorageReplication ------------------------
(* Three storage nodes; every file of up to five bytes from {0, 1}, cut    *)
(* into chunks of two, so that a file has up to three chunks, a short last *)
(* chunk, and chunks of equal content that share a digest; each of the six *)
(* chunk contents has its own digest, placed on two nodes that overlap     *)
(* with other placements, as getNodesForKey(_, 2) gives on a three-node    *)
(* ring.                                                                   *)
EXTENDS StorageReplication

CONSTANTS n1, n2, n3, d0, d1, d00, d01, d10, d11

MCDigest == (<<0>> :> d0) @@ (<<1>> :> d1) @@ (<<0, 0>> :> d00)
            @@ (<<0, 1>> :> d01) @@ (<<1, 0>> :> d10) @@ (<<1, 1>> :> d11)

MCReplicas == (d0 :> <<n1, n2>>) @@ (d1 :> <<n3, n1>>) @@ (d00 :> <<n1, n2>>)
              @@ (d01 :> <<n2, n3>>) @@ (d10 :> <<n3, n1>>) @@ (d11 :> <<n2, n3>>)
=============================================================================
