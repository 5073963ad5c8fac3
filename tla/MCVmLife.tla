------------------------------ MODULE MCVmLife ------------------------------
(* Two hosts of a pool with a shared SR and a local one, and a second pool. *)
EXTENDS VmLife, TLC

MCHost      == {"h1", "h2", "h3"}
MCSR        == {"shared", "local", "other"}
MCPoolOf    == [h \in MCHost |-> IF h = "h3" THEN 2 ELSE 1]
MCSeenFrom  == [s \in MCSR |-> CASE s = "shared" -> {"h1", "h2"}
                                  [] s = "local"  -> {"h1"}
                                  [] s = "other"  -> {"h3"}]
MCDefaultSR == [p \in 1..2 |-> IF p = 1 THEN "shared" ELSE "other"]

\* Nothing distinguishes one address from another.
Leases == Permutations(Addr)

=============================================================================
