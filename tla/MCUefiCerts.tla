---------------------------- MODULE MCUefiCerts -----------------------------
(***************************************************************************)
(* UefiCerts on two hosts, with a test of each kind of the cert flow and   *)
(* secure boot tests.                                                      *)
(***************************************************************************)
EXTENDS UefiCerts

T(p, d, v, l) == [pool |-> p, disks |-> d, vm |-> v, look |-> l]

MCTests == {
    T(Key,      {},            {},          "disk"),
    T(Key,      {"KEK", "dbx"},{},          "disk"),
    T({},       Key,           {},          "disk"),
    T(Required, Key,           {},          "disk"),
    T({},       {},            {},          "vm"),
    T(Key,      {},            Key,         "vm"),
    T(Required, {},            {"db", "dbx"}, "vm"),
    T(Required, {},            {},          "boots"),
    T({},       {},            Required,    "boots"),
    T({},       {},            {"PK", "KEK"}, "fails"),
    T({},       {},            {},          "exchange")}
=============================================================================
