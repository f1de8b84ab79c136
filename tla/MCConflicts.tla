---------------------------- MODULE MCConflicts ----------------------------
(***************************************************************************)
(* Transactions that spend the same outputs, in two scenarios on the same  *)
(* genesis.                                                                *)
(*                                                                         *)
(* Rivals: conflicts confirmed by competing chains from the block where    *)
(* the chains part, so that the chain with the most work is also the one   *)
(* that carries the winner of every conflict.  The works of the blocks     *)
(* differ by more than all the transactions weigh: conflicts tie in the    *)
(* mempool but never between two chains.                                   *)
(*                                                                         *)
(* Rewards: 19 and 21 spend the reward of 15 once block 17 unlocks it; a   *)
(* shorter chain with more work locks it again.                            *)
(***************************************************************************)
EXTENDS MCUniverse

Conflicts == GenesisSeq \o <<
    NewBlockOn(1, {2, 3}, 1, {10}),                    \* 4
    NewBlockOn(4, {2, 3}, 2, {10}),                    \* 5
    NewTxOn({2, 3}, {<<1, 0>>}, 3, {1, 2}),            \* 6 in conflict with 7
    NewTxOn({2, 3}, {<<1, 0>>, <<1, 1>>}, 4, {1, 2}),  \* 7 in conflict with 6 and 8
    NewTxOn({2, 3}, {<<1, 1>>}, 5, {1, 2}),            \* 8 in conflict with 7
    NewTxOn({2, 6}, {<<6, 0>>}, 6, {1}),               \* 9 spends 6
    NewTxOn({3, 7}, {<<7, 0>>}, 7, {1}),               \* 10 spends 7
    NewBlockOn(5, {2, 6}, 8, {20}),                    \* 11 confirms 6
    NewBlockOn(5, {3, 7}, 9, {10, 40}),                \* 12 confirms 7
    NewBlockOn(12, {3, 10}, 10, {30}),                 \* 13 confirms 10
    NewBlockOn(11, {2, 9}, 11, {30}),                  \* 14 confirms 9
    NewBlockOn(1, {2, 3}, 12, {10}),                   \* 15 height 1
    NewBlockOn(15, {2, 3}, 13, {10}),                  \* 16 height 2
    NewBlockOn(16, {2, 3}, 14, {10}),                  \* 17 height 3
    NewTxOn({2, 3}, {<<1, 0>>}, 15, {1}),              \* 18
    NewTxOn({2, 18}, {<<15, 0>>}, 16, {1}),            \* 19 verifies 18, spends the reward of 15
    NewTxOn({18, 19}, {<<19, 0>>}, 17, {1}),           \* 20 verifies 18 and 19, spends 19
    NewTxOn({2, 3}, {<<15, 0>>}, 18, {1, 2}),          \* 21 in conflict with 19
    NewBlockOn(15, {2, 3}, 19, {15, 20, 30}),          \* 22 height 2
    NewBlockOn(22, {2, 18}, 20, {10}),                 \* 23 height 3, confirms 18
    NewBlockOn(17, {3, 19}, 21, {10})                  \* 24 height 4, confirms 19
  >>

Rivals == 4 .. 14
Rewards == 15 .. 24
NoSoftVoided == {}

ConflictsNext == NextIn({Rivals, Rewards})
ConflictsSpec == Init /\ [][ConflictsNext]_vars

=============================================================================
