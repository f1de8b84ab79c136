---------------------------- MODULE MCSoftVoided ----------------------------
(***************************************************************************)
(* A soft voided transaction (SOFT_VOIDED_TX_IDS): it is voided from the   *)
(* start, and so is what spends it, but not what only verifies it.         *)
(***************************************************************************)
EXTENDS MCUniverse

AroundSoftVoided == GenesisSeq \o <<
    NewBlockOn(1, {2, 3}, 1, {10}),                    \* 4
    NewTxOn({2, 3}, {<<1, 0>>}, 2, {1, 2}),            \* 5  soft voided
    NewTxOn({2, 3}, {<<1, 0>>}, 3, {1, 2}),            \* 6  in conflict with 5
    NewTxOn({2, 5}, {<<5, 0>>}, 4, {1}),               \* 7  spends 5
    NewTxOn({3, 5}, {<<1, 1>>}, 5, {1}),               \* 8  verifies 5
    NewTxOn({7, 8}, {<<8, 0>>}, 6, {1}),               \* 9  verifies 7, spends 8
    NewBlockOn(4, {3, 5}, 7, {20}),                    \* 10 verifies 5
    NewBlockOn(4, {2, 8}, 8, {20, 40}),                \* 11 verifies 8
    NewBlockOn(10, {2, 9}, 9, {30})                    \* 12 verifies 9
  >>

SoftVoided == {5}
=============================================================================
