--------------------------- MODULE MCMetadataChain ---------------------------
(* Instances of MetadataChain for TLC: three metadata nodes wired as in the  *)
(* system tests (9001 -> 9002 -> 9003), the client's endpoint list in the   *)
(* same order, and short client scripts.                                    *)
EXTENDS MetadataChain, TLC

CONSTANTS m1, m2, m3, m4, f1, f2, c1, c2

MCChain == <<m1, m2, m3>>

\* Four nodes: the first skip link then leads to a node that still has a
\* successor, so UPDATE_PREV reaches a HEAD.
MCChain4 == <<m1, m2, m3, m4>>

Put(f) == [op |-> "put", file |-> f]
Get(f) == [op |-> "get", file |-> f]

\* One writer per file: c1 overwrites f1 and reads it back, c2 writes f2 and
\* then reads c1's file.
SingleWriterScript == (c1 :> <<Put(f1), Put(f1), Get(f1)>>) @@
                      (c2 :> <<Put(f2), Get(f1)>>)

\* A shorter single-writer script for runs with two failures.
FailoverScript == (c1 :> <<Put(f1), Get(f1)>>) @@ (c2 :> <<Put(f2)>>)

\* c1 uploads a file and reads it back while c2 reads it, for the
\* four-node chain.
WriteReadScript == (c1 :> <<Put(f1), Get(f1)>>) @@ (c2 :> <<Get(f1)>>)

\* Two clients upload the same file name concurrently.
SharedFileScript == (c1 :> <<Put(f1)>>) @@ (c2 :> <<Put(f1)>>)
\* State constraint: nodes fail from the TAIL upwards, so every failure is
\* the failure of the current TAIL.
FailuresFromTail ==
    \A i \in 1 .. Len(MCChain) - 1 : ~alive[MCChain[i]] => ~alive[MCChain[i + 1]]
====
