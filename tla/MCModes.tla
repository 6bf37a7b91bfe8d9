------------------------------ MODULE MCModes ------------------------------
(* An instance of Modes for TLC.                                           *)
EXTENDS Modes, TLC

Owners == [i \in Items |-> CHOOSE s \in Sessions : TRUE]

\* The key that payment terms carry: every client that echoes it sends this one.
TermsKey == <<0>>
ClientKeys == {TermsKey}

\* All items belong to one session and are interchangeable, and so are references.
Symmetry == Permutations(Items) \cup Permutations(Refs)
=============================================================================
