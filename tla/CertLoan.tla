------------------------------ MODULE CertLoan ------------------------------
(***************************************************************************)
(* What the owner of a pool is promised about its UEFI certificates: test  *)
(* modules borrow them, one at a time, and do what they like with them;    *)
(* unless a command failed at one of the few places where that loses them, *)
(* they are the owner's own whenever no module has them.                   *)
(***************************************************************************)
EXTENDS Naturals

VARIABLES
    certs,   \* the certificates of the pool
    own,     \* those its owner had given it
    home,    \* no test module is borrowing the pool
    lost     \* the promise is void

vars == <<certs, own, home, lost>>

Init == certs = own /\ home = TRUE /\ lost = FALSE

Lend == home /\ home' = FALSE /\ UNCHANGED <<certs, own, lost>>

Use  == ~home /\ UNCHANGED <<own, home, lost>>

Lose == ~home /\ lost' = TRUE /\ UNCHANGED own

GiveBack == /\ ~home /\ home' = TRUE /\ UNCHANGED <<own, lost>>
            /\ lost \/ certs' = own

Next == Lend \/ Use \/ Lose \/ GiveBack

Spec == Init /\ [][Next]_vars
=============================================================================
