---------------------------- MODULE MCPoolClean ----------------------------
(* A VM with a disk on each kind of SR, a snapshot of it, a disk of nobody on
   each SR (one of them of a template in the run about templates), and a VM
   that someone creates meanwhile.                                         *)
EXTENDS PoolClean

CONSTANTS v, snap, new, t, vLocal, vShared, snapShared, newLocal, lost, others, loc, nfs

MCDisksOf == [x \in Vms \cup Templates |-> CASE x = v -> {vLocal, vShared} [] x = snap -> {snapShared}
                                             [] x = new -> {newLocal} [] x = t -> {lost}]
MCSrOf == [d \in Disks |-> IF d \in {vShared, snapShared, others} THEN nfs ELSE loc]
=============================================================================
