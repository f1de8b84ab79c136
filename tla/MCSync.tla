-------------------------------- MODULE MCSync --------------------------------
EXTENDS SyncV2

Block(parent, txs, ts, work) ==
    [kind |-> "block", block |-> parent, txs |-> txs, ins |-> {}, ts |-> ts, works |-> {work},
     needs |-> {}]
Tx(txs, spent, ts) ==
    [kind |-> "tx", block |-> None, txs |-> txs, ins |-> {<<spent, 0>>}, ts |-> ts, works |-> {1},
     needs |-> {}]
Genesis(kind) ==
    [kind |-> kind, block |-> None, txs |-> {}, ins |-> {}, ts |-> 0, works |-> {1}, needs |-> {}]

MCUniverse ==
    << Genesis("block"), Genesis("tx"), Genesis("tx"),
       Tx({2, 3}, 2, 1),             \* 4
       Tx({3, 4}, 4, 2),             \* 5
       Block(1, {2, 3}, 3, 10),      \* 6
       Block(1, {2, 3}, 3, 11),      \* 7, the other chain
       Block(7, {2, 3}, 4, 11),      \* 8
       Tx({3, 5}, 5, 4),             \* 9
       Block(6, {5, 9}, 5, 10),      \* 10, confirms 4, 5 and 9
       Tx({5, 9}, 9, 6),             \* 11
       Tx({9, 11}, 11, 7),           \* 12
       Block(10, {11, 12}, 8, 10),   \* 13, confirms 11 and 12
       Tx({11, 12}, 12, 9),          \* 14
       Tx({12, 14}, 14, 10),         \* 15
       Block(13, {14, 15}, 11, 10),  \* 16, confirms 14 and 15
       Tx({14, 15}, 15, 12) >>       \* 17

MCMine == {{1, 2, 3}, {1, 2, 3, 7, 8}}
MCPeers == {(1 .. 17) \ {7, 8}, (1 .. 15) \ {7, 8}, (1 .. 9) \ {6}}
MCElsewhere == {4, 5, 9, 10}
MCLater == {6, 10, 16}
==============================================================================
