--------------------------- MODULE ConsistentHash ---------------------------
(***************************************************************************)
(* The client's consistent-hash ring (src/dht/consistent_hash.cpp).        *)
(*                                                                         *)
(* A ring is a function from 32-bit signed positions to storage-node       *)
(* addresses, the std::map<int, std::string> ring_.  Strings are byte      *)
(* sequences, so hashKey is computed exactly, with the two's-complement    *)
(* wrap that the signed overflow of `31 * h + c` produces on the build.    *)
(* The state machine is the class's mutating API, addNode and removeNode;  *)
(* lookups are operators of the ring, checked against a reference.         *)
(***************************************************************************)
EXTENDS Integers, Sequences, SequencesExt, FiniteSets, Functions

CONSTANTS
    Address,    \* node addresses the ring may be given, as byte sequences
    Probe,      \* lookup keys (chunk digests in hex), as byte sequences
    MaxK        \* largest replica count asked of getNodesForKey

VARIABLE
    ring        \* ring_ : position -> address

vars == <<ring>>

MinInt32 == -2147483647 - 1
MaxInt32 == 2147483647

-----------------------------------------------------------------------------
(* hashKey, lines 8-14.  The accumulator is kept as two unsigned 16-bit    *)
(* halves <<hi, lo>> so that 31 * h never leaves TLC's integer range; the  *)
(* result is the signed reading of the 32-bit word.                        *)

HashStep(h, c) ==
    LET t == 31 * h[2] + c
    IN  <<(31 * h[1] + t \div 65536) % 65536, t % 65536>>

ToInt32(h) ==
    IF h[1] >= 32768 THEN (h[1] - 65536) * 65536 + h[2]
                     ELSE h[1] * 65536 + h[2]

(* The loop over the bytes, applied to the key from byte i, four bytes a  *)
(* call.  The test of h[1] (always a 16-bit half) makes TLC evaluate the   *)
(* accumulator at every call rather than defer a chain of 64 HashStep      *)
(* applications to the end, which would exhaust a thread's stack.          *)
RECURSIVE HashFrom(_, _, _)
HashFrom(h, key, i) ==
    CASE i > Len(key) \/ h[1] > 65535 -> h
      [] i + 3 > Len(key) -> HashFrom(HashStep(h, key[i]), key, i + 1)
      [] OTHER ->
           HashFrom(HashStep(HashStep(HashStep(HashStep(h, key[i]), key[i + 1]),
                                      key[i + 2]), key[i + 3]), key, i + 4)

HashKey(key) == ToInt32(HashFrom(<<0, 0>>, key, 1))

(* ring_ iterated in ascending key order, as std::map does.                *)
RingKeys(r) ==
    [i \in 1 .. Cardinality(DOMAIN r) |->
        CHOOSE q \in DOMAIN r : Cardinality({x \in DOMAIN r : x < q}) = i - 1]

(* ring_.lower_bound(pos), wrapping to ring_.begin() at the end.           *)
LowerBound(r, p) ==
    IF \E q \in DOMAIN r : q >= p THEN Min({q \in DOMAIN r : q >= p})
                                  ELSE Min(DOMAIN r)

(* getNodeForKey, lines 24-30: "" on an empty ring.                        *)
GetNodeForPos(r, p) == IF DOMAIN r = {} THEN <<>> ELSE r[LowerBound(r, p)]

(* Mutant: the successor search uses upper_bound, skipping a node whose    *)
(* position equals the key's.                                              *)
GetNodesForPosUpperBound(r, p, k) ==
    IF DOMAIN r = {} THEN <<>>
    ELSE LET keys  == RingKeys(r)
             n     == Len(keys)
             first == IF \E q \in DOMAIN r : q > p
                      THEN Min({q \in DOMAIN r : q > p}) ELSE Min(DOMAIN r)
             start == CHOOSE i \in 1 .. n : keys[i] = first
             Step(nodes, i) ==
                LET node == r[keys[((start - 1 + i) % n) + 1]]
                IN  IF Len(nodes) >= k \/ node \in Range(nodes) THEN nodes
                    ELSE Append(nodes, node)
         IN  FoldLeft(Step, <<>>, [j \in 1 .. n |-> j - 1])

(* Mutant: the walk wraps modulo k instead of modulo the ring size.        *)
GetNodesForPosModK(r, p, k) ==
    IF DOMAIN r = {} THEN <<>>
    ELSE LET keys  == RingKeys(r)
             n     == Len(keys)
             start == CHOOSE i \in 1 .. n : keys[i] = LowerBound(r, p)
             Step(nodes, i) ==
                LET node == r[keys[(((start - 1 + i) % k) % n) + 1]]
                IN  IF Len(nodes) >= k \/ node \in Range(nodes) THEN nodes
                    ELSE Append(nodes, node)
         IN  FoldLeft(Step, <<>>, [j \in 1 .. n |-> j - 1])

(* getNodesForKey, lines 32-52: find the index of lower_bound in the       *)
(* ascending key list, then walk the list from there with wrap-around,     *)
(* appending addresses not yet collected until k are collected or the      *)
(* ring is exhausted.                                                      *)
GetNodesForPos(r, p, k) ==
    IF DOMAIN r = {} THEN <<>>
    ELSE LET keys  == RingKeys(r)
             n     == Len(keys)
             start == CHOOSE i \in 1 .. n : keys[i] = LowerBound(r, p)
             Step(nodes, i) ==
                LET node == r[keys[((start - 1 + i) % n) + 1]]
                IN  IF Len(nodes) >= k \/ node \in Range(nodes) THEN nodes
                    ELSE Append(nodes, node)
         IN  FoldLeft(Step, <<>>, [j \in 1 .. n |-> j - 1])

GetNodesForKey(r, key, k) == GetNodesForPos(r, HashKey(key), k)

-----------------------------------------------------------------------------
Init == ring = <<>>

(* addNode, lines 16-18: ring_[hashKey(a)] = a overwrites whatever address *)
(* sits at that position.                                                  *)
AddNode(a) == ring' = (HashKey(a) :> a) @@ ring

(* removeNode, lines 20-22: erase by position, whichever address is there. *)
RemoveNode(a) == ring' = Restrict(ring, DOMAIN ring \ {HashKey(a)})

Next == \E a \in Address : AddNode(a) \/ RemoveNode(a)

Spec == Init /\ [][Next]_vars

-----------------------------------------------------------------------------
(* Reference placement (spec 4.2): the replicas of position p are the      *)
(* first addresses met walking clockwise from p.  q is met before x when   *)
(* both lie on the same side of p and q < x, or q >= p > x.  Addresses on  *)
(* the ring are distinct because an address's position is its own hash.   *)
ClockwiseBefore(p, q, x) ==
    IF (q >= p) = (x >= p) THEN q < x ELSE q >= p

Rank(r, p, q) == Cardinality({x \in DOMAIN r : ClockwiseBefore(p, x, q)})

ReplicasRef(r, p, k) ==
    [i \in 1 .. Min({k, Cardinality(DOMAIN r)}) |->
        r[CHOOSE q \in DOMAIN r : Rank(r, p, q) = i - 1]]

(* Positions worth probing: the digests' own hashes, every ring position   *)
(* and its neighbours, and the ends of the 32-bit range.                   *)
ProbeHashes == {HashKey(key) : key \in Probe}

ProbePos(r) ==
    ProbeHashes \cup {MinInt32, 0, MaxInt32}
    \cup DOMAIN r
    \cup {q + 1 : q \in {x \in DOMAIN r : x < MaxInt32}}
    \cup {q - 1 : q \in {x \in DOMAIN r : x > MinInt32}}

(* getNodesForKey and getNodeForKey return, for every key and every k,     *)
(* exactly the first min(k, ring size) distinct nodes clockwise from the   *)
(* key's position, including at the wrap from the highest position to the  *)
(* lowest and when the key hashes exactly onto a node.                     *)
LookupMatchesReference ==
    \A p \in ProbePos(ring) :
        /\ \A k \in 1 .. MaxK : GetNodesForPos(ring, p, k) = ReplicasRef(ring, p, k)
        /\ DOMAIN ring # {} => GetNodeForPos(ring, p) = ReplicasRef(ring, p, 1)[1]

=============================================================================
