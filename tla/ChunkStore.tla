----------------------------- MODULE ChunkStore -----------------------------
(***************************************************************************)
(* What the storage tier promises the client (spec 4.2, 4.5, 8): a        *)
(* content-addressed store in which a chunk becomes available when it is   *)
(* stored, may be lost (every copy gone), and a download of the file's    *)
(* chunks, in file order and stopping at the first failure, fails on a    *)
(* chunk exactly when that chunk is unavailable at the time it is read.   *)
(***************************************************************************)
EXTENDS Naturals, Sequences

CONSTANT Chunk  \* chunk digests

VARIABLES
    file,       \* the file's chunk digests in file order, fixed for good
    avail,      \* the chunks some running storage node holds
    got         \* got[i]: "none", "ok" or "failed" for the i-th chunk read

vars == <<file, avail, got>>

Init ==
    /\ file \in Seq(Chunk)
    /\ avail = {}
    /\ got = [i \in DOMAIN file |-> "none"]

Put(ch) ==
    /\ avail' = avail \cup {ch}
    /\ UNCHANGED <<file, got>>

Lose ==
    /\ \E lost \in SUBSET avail : lost # {} /\ avail' = avail \ lost
    /\ UNCHANGED <<file, got>>

(* The next chunk in file order, once all earlier ones were read.          *)
Read(i) ==
    /\ got[i] = "none"
    /\ \A j \in 1 .. i - 1 : got[j] = "ok"
    /\ got' = [got EXCEPT ![i] = IF file[i] \in avail THEN "ok" ELSE "failed"]
    /\ UNCHANGED <<file, avail>>

Next ==
    \/ \E ch \in Chunk : Put(ch)
    \/ Lose
    \/ \E i \in DOMAIN file : Read(i)

Spec == Init /\ [][Next]_vars
=============================================================================
