------------------------------ MODULE MCChains ------------------------------
(***************************************************************************)
(* Competing chains of blocks, in two scenarios on the same genesis.       *)
(*                                                                         *)
(* Forks: three chains that overtake each other or tie, no conflict.       *)
(*                                                                         *)
(* Calls: nano contract transactions confirmed by competing chains in      *)
(* different orders: 14 needs the call of 13, so it succeeds in a chain    *)
(* and fails in the other, and a reorganisation executes both again.       *)
(***************************************************************************)
EXTENDS MCUniverse

Chains == GenesisSeq \o <<
    NewBlockOn(1, {2, 3}, 1, {3}),                     \* 4
    NewTxOn({2, 3}, {<<1, 0>>}, 2, {1}),               \* 5
    NewBlockOn(4, {2, 5}, 4, {3, 4}),                  \* 6
    NewBlockOn(4, {2, 3}, 5, {3, 4}),                  \* 7
    NewBlockOn(1, {2, 3}, 5, {3, 6}),                  \* 8
    NewBlockOn(6, {2, 3}, 8, {3}),                     \* 9
    NewBlockOn(7, {2, 5}, 9, {3, 4}),                  \* 10
    NewBlockOn(8, {2, 5}, 10, {4, 5}),                 \* 11
    NewBlockOn(1, {2, 3}, 11, {10}),                   \* 12
    NewNanoOn({2, 3}, {<<1, 0>>}, 12, {1, 2}, {}),     \* 13
    NewNanoOn({2, 3}, {<<1, 1>>}, 13, {2}, {13}),      \* 14  needs 13
    NewNanoOn({3, 14}, {<<14, 0>>}, 14, {1}, {}),      \* 15  spends 14
    NewTxOn({2, 3}, {<<1, 0>>}, 15, {1, 4}),           \* 16  in conflict with 13
    NewBlockOn(12, {2, 13}, 16, {20}),                 \* 17  confirms 13
    NewBlockOn(12, {3, 15}, 17, {40}),                 \* 18 confirms 14 and 15
    NewBlockOn(17, {2, 15}, 18, {30}),                 \* 19 confirms 14 and 15
    NewBlockOn(18, {2, 13}, 19, {80}),                 \* 20 confirms 13
    NewBlockOn(17, {2, 3}, 20, {15, 100})              \* 21
  >>

\* The chain where 14 fails is lighter than the block 21, where 14 is not confirmed.
LightFork == [Chains EXCEPT ![18].works = {15}]

Forks == 4 .. 11
Calls == 12 .. 21
NoSoftVoided == {}

ChainsNext == NextIn({Forks, Calls})
ChainsSpec == Init /\ [][ChainsNext]_vars

CallsNext == NextIn({Calls})
CallsSpec == Init /\ [][CallsNext]_vars

=============================================================================
