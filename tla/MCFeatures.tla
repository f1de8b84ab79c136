----------------------------- MODULE MCFeatures -----------------------------
(***************************************************************************)
(* Two features that are voted on at the same time, one of them locked in  *)
(* on timeout, with intervals of two blocks; and two features that use the *)
(* same bit one after the other.                                           *)
(***************************************************************************)
EXTENDS FeatureService

CONSTANTS A, B

Concurrent ==
    A :> [bit |-> 0, start |-> 2, timeout |-> 6, threshold |-> 2, minActivation |-> 0]
    @@ B :> [bit |-> 1, start |-> 4, timeout |-> 8, threshold |-> 1, minActivation |-> 8]

\* A waits for its minimum activation height when B starts.
Successive ==
    A :> [bit |-> 0, start |-> 2, timeout |-> 6, threshold |-> 1, minActivation |-> 12]
    @@ B :> [bit |-> 0, start |-> 8, timeout |-> 12, threshold |-> 1, minActivation |-> 0]

\* A signal makes a difference from height 2 to height 5.
SomeSignals ==
    [height \in 1 .. MaxHeight |->
        CASE height = 2 -> {Bits} [] height \in 3 .. 5 -> {{}, Bits} [] OTHER -> {{}}]
AllSignals == [height \in 1 .. MaxHeight |-> {Bits}]

=============================================================================
