-------------------------------- MODULE Dag --------------------------------
(***************************************************************************)
(* The immutable part of the ledger: the vertices (blocks, transactions    *)
(* and nano contract transactions), their parents, their inputs and their  *)
(* timestamps, and the walks that the node makes over them.                *)
(*                                                                         *)
(* Universe is a sequence of the vertices that may ever arrive.  A vertex  *)
(* is named by its position, which stands for its hash.  The first three   *)
(* entries are the genesis block and the two genesis transactions.  A      *)
(* vertex is a record:                                                     *)
(*   kind   "block", "tx" or "nano"                                        *)
(*   block  the block parent of a block                                    *)
(*   txs    the transaction parents                                        *)
(*   ins    the spent outputs, pairs <<vertex, output index>>              *)
(*   ts     the timestamp                                                  *)
(*   works  the works (2 ^ weight) the vertex may be mined with            *)
(*   needs  the nano transactions that must have been executed for this    *)
(*          one to succeed (the contract's own logic, external)            *)
(***************************************************************************)
EXTENDS Integers, Sequences, FiniteSets, FiniteSetsExt, SequencesExt

CONSTANTS
    Universe,
    SoftVoidedTxIds,     \* the transactions listed in settings.SOFT_VOIDED_TX_IDS
    RewardSpendMinBlocks \* settings.REWARD_SPEND_MIN_BLOCKS

Vertices == 1 .. Len(Universe)
GenesisBlock == 1
GenesisTxs == {2, 3}
GenesisVertices == {GenesisBlock} \cup GenesisTxs

\* Absence of a vertex, and the entries of voided_by that are not hashes.
None == 0
NcFailId == -1
SoftVoidedId == -2
PartiallyValidatedId == -3
Marks == {NcFailId, SoftVoidedId, PartiallyValidatedId}

IsBlock(v) == Universe[v].kind = "block"
IsNano(v) == Universe[v].kind = "nano"
Blocks == {v \in Vertices : IsBlock(v)}
Txs == Vertices \ Blocks

Timestamp(v) == Universe[v].ts
BlockParent(b) == Universe[b].block
TxParents(v) == Universe[v].txs
Inputs(v) == Universe[v].ins

ParentsOf == [v \in Vertices |-> TxParents(v) \cup ({BlockParent(v)} \ {None})]
InputTxsOf == [v \in Vertices |-> {i[1] : i \in Inputs(v)}]
Parents(v) == ParentsOf[v]
InputTxs(v) == InputTxsOf[v]
Dependencies(v) == Parents(v) \cup InputTxs(v)

\* The number of blocks between b and the genesis.
Height[b \in Vertices] ==
    IF ~IsBlock(b) \/ b = GenesisBlock THEN 0 ELSE Height[BlockParent(b)] + 1

\* The lowest height of a block that may confirm v.
MinHeight[v \in Vertices] ==
    IF v \in GenesisVertices THEN 0
    ELSE Max({0} \cup {MinHeight[u] : u \in TxParents(v) \cup (InputTxs(v) \ Blocks)}
                 \cup {Height[b] + RewardSpendMinBlocks + 1 : b \in InputTxs(v) \cap Blocks})

(***************************************************************************)
(* The universe is a ledger that the verifiers accept: parents of the      *)
(* right kinds, dependencies strictly older, no output spent twice by one  *)
(* transaction.  Positions follow the timestamps, so that the order by     *)
(* timestamp, ties broken by the hash, is the order of the positions.      *)
(***************************************************************************)
WellFormed(v) ==
    /\ \A u \in Dependencies(v) : u \in 1 .. v - 1 /\ Timestamp(u) < Timestamp(v)
    /\ TxParents(v) \subseteq Txs /\ Cardinality(TxParents(v)) = 2
    /\ IF IsBlock(v) THEN BlockParent(v) \in Blocks /\ Inputs(v) = {}
                          /\ Height[v] >= MinHeight[v]
                     ELSE BlockParent(v) = None /\ Inputs(v) # {}

ASSUME UniverseAssumption ==
    /\ IsBlock(GenesisBlock) /\ GenesisTxs \subseteq Txs
    /\ \A g \in GenesisVertices : Dependencies(g) = {}
    /\ \A v \in Vertices \ GenesisVertices : WellFormed(v) /\ Timestamp(v - 1) <= Timestamp(v)
    /\ SoftVoidedTxIds \subseteq Txs

-----------------------------------------------------------------------------
(***************************************************************************)
(* Neighbours and walks.  The stored vertices always contain the           *)
(* dependencies of each of them, so what a vertex reaches among them is    *)
(* what it reaches in the universe, restricted to them.                    *)
(***************************************************************************)
ChildrenOf == [v \in Vertices |-> {c \in Vertices : v \in Parents(c)}]
SpendersOf == [v \in Vertices |-> {c \in Vertices : v \in InputTxs(c)}]
Children(stored, v) == ChildrenOf[v] \cap stored
Spenders(stored, v) == SpendersOf[v] \cap stored
RightNeighbors(stored, v) == (ChildrenOf[v] \cup SpendersOf[v]) \cap stored

\* v with everything behind it; v with everything that follows it, or only what
\* follows it in the DAG of funds.
Behind[v \in Vertices] == {v} \cup UNION {Behind[u] : u \in Dependencies(v)}
AheadOf == [v \in Vertices |-> {c \in Vertices : v \in Behind[c]}]
FundsBehind[v \in Vertices] == {v} \cup UNION {FundsBehind[u] : u \in InputTxs(v)}
FundsAheadOf == [v \in Vertices |-> {c \in Vertices : v \in FundsBehind[c]}]

Ancestors(v) == Behind[v] \ {v}
Descendants(stored, v) == (AheadOf[v] \ {v}) \cap stored

\* The chain of blocks that ends in b.
Chain[b \in Vertices] ==
    IF ~IsBlock(b) THEN {}
    ELSE IF b = GenesisBlock THEN {b} ELSE {b} \cup Chain[BlockParent(b)]

(***************************************************************************)
(* BFSTimestampWalk keeps the vertices still to visit in a heap ordered by *)
(* timestamp, so a left-to-right walk visits the oldest first and a        *)
(* right-to-left walk the newest first.                                    *)
(***************************************************************************)
ByTimestamp == [v \in Vertices |-> v]
OldestFirst(set) == SelectSeq(ByTimestamp, LAMBDA v : v \in set)
NewestFirst(set) == Reverse(OldestFirst(set))

(***************************************************************************)
(* The vertices that a walk expands when it starts from the set start and  *)
(* skips the neighbours of what is not in the set within.                  *)
(***************************************************************************)
WalkLeft(start, within) ==
    FoldLeft(LAMBDA found, v :
                IF v \in start \/ \E u \in found : v \in Dependencies(u)
                THEN found \cup {v} ELSE found,
             {}, NewestFirst(within \cap UNION {Behind[v] : v \in start}))

WalkRight(start, within) ==
    FoldLeft(LAMBDA found, v :
                IF v \in start \/ Dependencies(v) \cap found # {}
                THEN found \cup {v} ELSE found,
             {}, OldestFirst(within \cap UNION {AheadOf[v] : v \in start}))

=============================================================================
