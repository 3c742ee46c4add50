---------------------------- MODULE MCConsistentHash ----------------------------
(* Rings built from the addresses the repository's tools configure          *)
(* (127.0.0.1:800x, src/apps/main_performance_experiments.cpp:37-38) and    *)
(* a second host range, probed with real SHA-256 chunk digests.            *)
EXTENDS ConsistentHash

\* "127.0.0.1:8001"
A1 == <<49, 50, 55, 46, 48, 46, 48, 46, 49, 58, 56, 48, 48, 49>>
\* "127.0.0.1:8002"
A2 == <<49, 50, 55, 46, 48, 46, 48, 46, 49, 58, 56, 48, 48, 50>>
\* "127.0.0.1:8003"
A3 == <<49, 50, 55, 46, 48, 46, 48, 46, 49, 58, 56, 48, 48, 51>>
\* "127.0.0.1:8004"
A4 == <<49, 50, 55, 46, 48, 46, 48, 46, 49, 58, 56, 48, 48, 52>>
\* "10.0.0.5:8001"
A5 == <<49, 48, 46, 48, 46, 48, 46, 53, 58, 56, 48, 48, 49>>
\* "10.0.0.6:8001"
A6 == <<49, 48, 46, 48, 46, 48, 46, 54, 58, 56, 48, 48, 49>>
\* "10.0.0.7:8001"
A7 == <<49, 48, 46, 48, 46, 48, 46, 55, 58, 56, 48, 48, 49>>
\* SHA-256 digest "b18efa847f7a3fa48fe0aafd4a6250aa5129740e05126859377af20cedafdeee"
D0 == <<98, 49, 56, 101, 102, 97, 56, 52, 55, 102, 55, 97, 51, 102, 97, 52, 56, 102, 101, 48, 97, 97, 102, 100, 52, 97, 54, 50, 53, 48, 97, 97, 53, 49, 50, 57, 55, 52, 48, 101, 48, 53, 49, 50, 54, 56, 53, 57, 51, 55, 55, 97, 102, 50, 48, 99, 101, 100, 97, 102, 100, 101, 101, 101>>
\* SHA-256 digest "2725aea2d2dea736fbe38e41ecb518f6098cb68ac77362c5e34faafb356567c5"
D1 == <<50, 55, 50, 53, 97, 101, 97, 50, 100, 50, 100, 101, 97, 55, 51, 54, 102, 98, 101, 51, 56, 101, 52, 49, 101, 99, 98, 53, 49, 56, 102, 54, 48, 57, 56, 99, 98, 54, 56, 97, 99, 55, 55, 51, 54, 50, 99, 53, 101, 51, 52, 102, 97, 97, 102, 98, 51, 53, 54, 53, 54, 55, 99, 53>>
\* SHA-256 digest "b6f3c15844fe12f966ad90db59da8332a9a6d9dfd198ac83949be2045ec6dc1e"
D2 == <<98, 54, 102, 51, 99, 49, 53, 56, 52, 52, 102, 101, 49, 50, 102, 57, 54, 54, 97, 100, 57, 48, 100, 98, 53, 57, 100, 97, 56, 51, 51, 50, 97, 57, 97, 54, 100, 57, 100, 102, 100, 49, 57, 56, 97, 99, 56, 51, 57, 52, 57, 98, 101, 50, 48, 52, 53, 101, 99, 54, 100, 99, 49, 101>>

IpAddresses == {A1, A2, A3, A4, A5, A6, A7}
Digests == {D0, D1, D2}
=============================================================================
