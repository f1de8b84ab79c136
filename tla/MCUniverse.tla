----------------------------- MODULE MCUniverse -----------------------------
(***************************************************************************)
(* Constructors for the small universes that TLC explores.                 *)
(***************************************************************************)
EXTENDS Consensus

Genesis(kind) ==
    [kind |-> kind, block |-> None, txs |-> {}, ins |-> {}, ts |-> 0, works |-> {1}, needs |-> {}]

GenesisSeq == <<Genesis("block"), Genesis("tx"), Genesis("tx")>>

\* A block on top of parent, verifying txs, mined with one of the works.
NewBlockOn(parent, txs, ts, works) ==
    [kind |-> "block", block |-> parent, txs |-> txs, ins |-> {}, ts |-> ts, works |-> works,
     needs |-> {}]

\* A transaction that verifies txs and spends ins.
NewTxOn(txs, ins, ts, works) ==
    [kind |-> "tx", block |-> None, txs |-> txs, ins |-> ins, ts |-> ts, works |-> works,
     needs |-> {}]

\* A nano transaction that succeeds when the calls it needs have been executed.
NewNanoOn(txs, ins, ts, works, needs) ==
    [kind |-> "nano", block |-> None, txs |-> txs, ins |-> ins, ts |-> ts, works |-> works,
     needs |-> needs]

(***************************************************************************)
(* A universe may hold several scenarios on the same genesis: the vertices *)
(* that arrive in a behaviour are all of one of them.                      *)
(***************************************************************************)
InOneScenario(scenarios, v) ==
    \E s \in scenarios : (ledger.stored \ GenesisVertices) \cup {v} \subseteq s

NextIn(scenarios) ==
    \E v \in Vertices : \E work \in Universe[v].works, asc \in BOOLEAN :
        /\ InOneScenario(scenarios, v)
        /\ NewTx(v, work, asc) \/ NewBlock(v, work, asc)

=============================================================================
