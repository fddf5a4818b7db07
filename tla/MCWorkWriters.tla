---------------------------- MODULE MCWorkWriters ----------------------------
EXTENDS WorkWriters, TLC

Symmetry == Permutations(Procs)

(* The last owner of the lock was killed.  A free lock is what is left    *)
(* once that one has been taken over and released.                        *)
DeadInit == Init /\ lock = Dead
DeadSpec == DeadInit /\ [][Next]_vars

(* Nothing but OneWriter is claimed of what follows a damage. *)
Unbroken == Intact
=============================================================================
