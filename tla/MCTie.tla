------------------------------- MODULE MCTie -------------------------------
(***************************************************************************)
(* Two transactions in conflict, each confirmed by a block on the same     *)
(* parent: the two chains may reach the same score, and the accumulated    *)
(* weights of the two transactions may be the same.                        *)
(***************************************************************************)
EXTENDS MCUniverse

Rivals == GenesisSeq \o <<
    NewBlockOn(1, {2, 3}, 1, {5}),              \* 4
    NewTxOn({2, 3}, {<<1, 0>>}, 2, {1, 2}),     \* 5
    NewTxOn({2, 3}, {<<1, 0>>}, 3, {1, 2}),     \* 6  in conflict with 5
    NewTxOn({2, 5}, {<<5, 0>>}, 4, {1}),        \* 7  spends 5
    NewBlockOn(4, {2, 5}, 5, {5, 6}),           \* 8  confirms 5
    NewBlockOn(4, {3, 6}, 6, {5, 6})            \* 9  confirms 6
  >>

NoSoftVoided == {}
=============================================================================
