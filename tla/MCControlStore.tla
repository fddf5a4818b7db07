-------------------------- MODULE MCControlStore --------------------------
(***************************************************************************)
(* Model-checking instances of ControlStore.                               *)
(***************************************************************************)
EXTENDS ControlStore, TLC

Symmetry == Permutations(Handles) \cup Permutations(Payloads)
                \cup Permutations(Tasks) \cup Permutations(Agents)

\* A file that OpenStore itself creates: no schema version yet, no rows.
FreshInit == Init /\ schema = 0

FreshSpec == FreshInit /\ [][Next]_vars
=============================================================================
