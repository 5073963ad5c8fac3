---------------------------- MODULE MCPoolUpdate ----------------------------
(***************************************************************************)
(* Two pools: m1 with s1, and m2 alone, a VM of a hosting pool as s1 is.   *)
(* Two threads for three hosts: one task waits in the queue.               *)
(***************************************************************************)
EXTENDS PoolUpdate

CONSTANTS m1, s1, m2

MCHost     == {m1, s1, m2}
MCMasterOf == [h \in MCHost |-> IF h = s1 THEN m1 ELSE h]
MCMasters  == <<m1, m2>>
MCOthers   == <<s1>>
MCHosts    == <<m1, s1, m2>>
MCNested   == {s1, m2}

=============================================================================
