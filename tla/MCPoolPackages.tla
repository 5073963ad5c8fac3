--------------------------- MODULE MCPoolPackages ---------------------------
(***************************************************************************)
(* Instances of PoolPackages for TLC: a pool of two hosts, the master h1   *)
(* and the second host h2.                                                 *)
(***************************************************************************)
EXTENDS PoolPackages

CONSTANTS h1, h2

MCHost   == {h1, h2}
MCMaster == h1
MCA2     == h2

\* The packages of a run
AllPackages == DOMAIN Fixtures
Migration == {"moosefs_to_xfs"}
Gluster   == {"glusterfs"}
Linstor   == {"linstor"}

=============================================================================
