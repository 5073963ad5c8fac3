------------------------------- MODULE FsDiff -------------------------------
(***************************************************************************)
(* scripts/xcpng-fs-diff.py: what two hosts have in their file systems, or *)
(* one host and a file saved from another, and the exit code that says     *)
(* whether they differ.                                                    *)
(*                                                                         *)
(* A host is the entries of its file system, of some kind each, with the   *)
(* hash of a content or the target of a link, and its packages.  None is a *)
(* host or a file that is not there.                                       *)
(***************************************************************************)
EXTENDS Integers

CONSTANTS Ignored,   \* the paths that match an ignored pattern
          None

DataType == {"file", "file_symlink", "dir_symlink", "broken_symlink", "package"}

ignore_file(filename) == filename \in Ignored

-----------------------------------------------------------------------------
(* What is read of a host: one dictionary for each type.                   *)

\* A link to a file is known by the content it leads to, any other link by
\* its target.  Directories and special files are in no list.
find_type(entry) == CASE entry.kind = "file"        -> "file"
                      [] entry.kind = "link_file"   -> "file_symlink"
                      [] entry.kind = "link_dir"    -> "dir_symlink"
                      [] entry.kind = "link_broken" -> "broken_symlink"
                      [] OTHER                      -> "none"

ssh_get_files(host, dtype) ==
    LET listed == {p \in DOMAIN host.files : find_type(host.files[p]) = dtype}
    IN  [p \in listed |-> host.files[p].value]

ssh_get_packages(host) == host.packages

get_data(host) == [dtype \in DataType |-> IF dtype = "package" THEN ssh_get_packages(host)
                                                               ELSE ssh_get_files(host, dtype)]

-----------------------------------------------------------------------------
(* The comparison.  What the test host has in common with the reference is *)
(* marked None there; what is not marked in the end is an orphan of it.    *)

\* Mutant: a path that differs is reported, and not marked.
UnmatchedIfEqual(ref, test, dtype) ==
    [f \in DOMAIN ref[dtype] |->
        IF f \in DOMAIN test[dtype] /\ ~ignore_file(f) /\ test[dtype][f] = ref[dtype][f] THEN None ELSE ref[dtype][f]]

Unmatched(ref, test, dtype) ==
    [f \in DOMAIN ref[dtype] |->
        IF f \in DOMAIN test[dtype] /\ ~ignore_file(f) THEN None ELSE ref[dtype][f]]

compare_data(ref, test) ==
    LET differs(dtype) == {f \in DOMAIN test[dtype] :
                              ~ignore_file(f) /\ f \in DOMAIN ref[dtype] /\ ref[dtype][f] # test[dtype][f]}
        only_test(dtype) == {f \in DOMAIN test[dtype] : ~ignore_file(f) /\ f \notin DOMAIN ref[dtype]}
        only_ref(dtype) == LET left == Unmatched(ref, test, dtype)
                           IN  {f \in DOMAIN left : ~ignore_file(f) /\ left[f] # None}
        results == [dtype \in DataType |-> [differs |-> differs(dtype), only_ref |-> only_ref(dtype),
                                            only_test |-> only_test(dtype)]]
    IN  [results |-> results,
         err |-> IF \E dtype \in DataType : \E part \in DOMAIN results[dtype] : results[dtype][part] # {}
                 THEN 1 ELSE 0]

-----------------------------------------------------------------------------
(* A run of the script: its exit code, the file it saves and what it       *)
(* reports.  An argument that is not given is None; a host that cannot be  *)
(* reached is Down, a file that cannot be read is Bad.                     *)

Down == [down |-> TRUE]
Bad  == [bad |-> TRUE]
Ended(code, saved, results) == [code |-> code, saved |-> saved, results |-> results]
Fatal == Ended(-1, None, None)

\* The reference: what was saved, or else the reference host.
Reference(args) == CASE args.load_ref # None -> args.load_ref
                     [] args.load_ref = None /\ args.ref_host = None -> None
                     [] OTHER -> IF args.ref_host = Down THEN Bad ELSE get_data(args.ref_host)

Saved(args) == IF args.save_ref /\ args.load_ref = None /\ args.ref_host # None THEN Reference(args) ELSE None

main(args) ==
    LET ref == Reference(args)
    IN  CASE args.ref_host = None /\ args.show_diff -> Fatal
          [] ~(args.ref_host = None /\ args.show_diff) /\ ref = Bad -> Fatal
          [] OTHER ->
               IF ref = None \/ args.test_host = None
               THEN Ended(IF args.save_ref THEN 0 ELSE -1, Saved(args), None)
               ELSE IF args.test_host = Down THEN Ended(-1, Saved(args), None)
               ELSE LET compared == compare_data(ref, get_data(args.test_host))
                    IN  Ended(compared.err, Saved(args), compared.results)

=============================================================================
