------------------------------ MODULE JobDefs ------------------------------
(***************************************************************************)
(* The jobs that split the tests of the repository (jobs.py): which tests  *)
(* a job selects, and the command it runs.                                 *)
(*                                                                         *)
(* A marker or name expression is kept as the sets of words of which one   *)
(* is needed, all are needed and none is allowed; a test, as its path,     *)
(* markers and the words of its name that some expression looks for.       *)
(***************************************************************************)
EXTENDS Naturals, Sequences, FiniteSets, TLC

-----------------------------------------------------------------------------
(* The definitions.                                                        *)

JobData == [pools |-> 1, vm |-> "none", large |-> FALSE, paths |-> {},
            any |-> {}, all |-> {}, none |-> {},         \* of markers
            named |-> {}, unnamed |-> {}]                \* of the name filter

small == "single/small_vm"
vm_targets == {"small_vm", "no_vm"}

main_jobs ==
    [x \in {"main"} |-> [pools |-> 2, vm |-> small, any |-> vm_targets,
        paths |-> {"misc", "security", "migration", "network", "snapshot", "system", "xapi", "xapi_plugins",
                   "install/test_fixtures.py"},
        none |-> {"flaky", "reboot", "complex_prerequisites"}] @@ JobData]
    @@ [x \in {"main-multi-unix", "main-multi-windows"} |-> [pools |-> 2, paths |-> {"misc", "migration"},
        vm |-> IF x = "main-multi-unix" THEN "multi/all_unix" ELSE "multi/all_windows",
        all |-> {"multi_vms"}, none |-> {"flaky", "reboot"}] @@ JobData]
    @@ [x \in {"network-advanced"} |-> [vm |-> small, paths |-> {"network"},
        all |-> {"complex_prerequisites"}] @@ JobData]
    @@ [x \in {"packages"} |-> [paths |-> {"packages"}] @@ JobData]

storage == [paths |-> {"storage"}, vm |-> small] @@ JobData

storage_main_jobs ==
    LET main == [any |-> vm_targets, none |-> {"reboot", "quicktest", "unused_4k_disks"},
                 unnamed |-> {"migration", "linstor"}] @@ storage
        Large(needed, excluded) == [large |-> TRUE, all |-> needed, none |-> main.none \cup excluded,
                                    unnamed |-> main.unnamed \cup {"gzip"}] @@ main
    IN  [x \in {"storage-main"} |-> main]
        @@ [x \in {"storage-main-large-thin"} |->
               Large({}, {"thick_provisioned", "disk_throughput_intensive"})]
        @@ [x \in {"storage-main-large-thick"} |->
               Large({"thick_provisioned"}, {"disk_throughput_intensive"})]
        @@ [x \in {"storage-main-large-full-write"} |-> Large({"disk_throughput_intensive"}, {})]

storage_other_jobs ==
    LET migrations == [pools |-> 2, none |-> {"unused_4k_disks"}, named |-> {"migration"},
                       unnamed |-> {"linstor"}] @@ storage
    IN  [x \in {"storage-migrations"} |-> [unnamed |-> {"linstor", "glusterfs"}] @@ migrations]
        @@ [x \in {"storage-migrations-large-thin"} |->
               [large |-> TRUE, none |-> {"unused_4k_disks", "thick_provisioned"}] @@ migrations]
        @@ [x \in {"storage-migrations-large-thick"} |->
               [large |-> TRUE, all |-> {"thick_provisioned"}] @@ migrations]
        @@ [x \in {"storage-reboots"} |-> [all |-> {"reboot"}, none |-> {"flaky", "unused_4k_disks"},
               unnamed |-> {"linstor"}] @@ storage]
        @@ [x \in {"storage-quicktest"} |-> [vm |-> "none", all |-> {"quicktest"}, none |-> {"unused_4k_disks"},
               unnamed |-> {"linstor", "zfsvol"}] @@ storage]
        @@ [x \in {"storage-benchmarks"} |-> [paths |-> {"storage/benchmarks"}] @@ storage]

linstor_jobs ==
    LET linstor == [paths |-> {"storage/linstor"}] @@ storage
    IN  [x \in {"linstor-main"} |-> [any |-> vm_targets, none |-> {"reboot", "quicktest"},
               unnamed |-> {"migration"}] @@ linstor]
        @@ [x \in {"linstor-migrations"} |-> [pools |-> 2, named |-> {"migration"}] @@ linstor]
        @@ [x \in {"linstor-reboots"} |-> [all |-> {"reboot"}] @@ linstor]
        @@ [x \in {"linstor-quicktest"} |-> [vm |-> "none", all |-> {"quicktest"}] @@ linstor]

largeblock_jobs ==
    LET Needs(m) == [all |-> m \cup {"unused_4k_disks"}] @@ storage
    IN  [x \in {"largeblock-main"} |-> [any |-> vm_targets, none |-> {"reboot", "quicktest"},
               unnamed |-> {"migration"}] @@ Needs({})]
        @@ [x \in {"largeblock-migrations"} |-> [pools |-> 2, named |-> {"migration"}] @@ Needs({})]
        @@ [x \in {"largeblock-reboots"} |-> Needs({"reboot"})]
        @@ [x \in {"largeblock-quicktest"} |-> [vm |-> "none"] @@ Needs({"quicktest"})]

sb_jobs ==
    LET sb == [paths |-> {"uefi_sb"}] @@ JobData
    IN  [x \in {"sb-main"} |-> [vm |-> "single/small_vm_efitools", none |-> {"windows_vm"},
               paths |-> {"uefi_sb/auth_var", "uefi_sb/sb", "uefi_sb/sb_state"}] @@ sb]
        @@ [x \in {"sb-certificates"} |-> [vm |-> "single/small_vm_efitools",
               paths |-> {"uefi_sb/cert_flow"}] @@ sb]
        @@ [x \in {"sb-windows"} |-> [vm |-> "single/small_vm_windows", all |-> {"windows_vm"}] @@ sb]
        @@ [x \in {"sb-unix-multi"} |-> [vm |-> "multi/uefi_unix", all |-> {"multi_vms", "unix_vm"}] @@ sb]
        @@ [x \in {"sb-windows-multi"} |-> [vm |-> "multi/uefi_windows", all |-> {"multi_vms", "windows_vm"}] @@ sb]

feature_jobs ==
    LET Only(path, vm) == [paths |-> {path}, vm |-> vm] @@ JobData
    IN  [x \in {"tools-unix"} |-> Only("guest_tools/unix", "single/small_vm_unix_tools")]
        @@ [x \in {"tools-unix-multi"} |-> [all |-> {"multi_vms"}] @@ Only("guest_tools/unix", "multi/tools_unix")]
        @@ [x \in {"tools-windows"} |-> [all |-> {"multi_vms"}] @@ Only("guest_tools/win", "multi/tools_windows")]
        @@ [x \in {"xen"} |-> Only("xen", small)]
        @@ [x \in {"vtpm"} |-> Only("vtpm", "single/debian_uefi_vm")]
        @@ [x \in {"flaky"} |-> [all |-> {"flaky"}] @@ Only("", small)]
        @@ [x \in {"xo"} |-> Only("xo", "none")]
        @@ [x \in {"pci-passthrough"} |-> Only("pci_passthrough", "none")]
        @@ [x \in {"fs-diff"} |-> Only("fs_diff", "none")]
        @@ [x \in {"pool-reboot"} |-> [pools |-> 2] @@ Only("misc/test_pool.py", "none")]
        @@ [x \in {"limit-tests"} |-> Only("limits", "multi/limits")]

JOBS == main_jobs @@ storage_main_jobs @@ storage_other_jobs @@ linstor_jobs @@ largeblock_jobs
            @@ sb_jobs @@ feature_jobs

-----------------------------------------------------------------------------
(* The tests.                                                              *)

\* dirs: the path of the test and of the directories above it.
Test(dirs, marks, words) == [dirs |-> dirs \cup {""}, marks |-> marks, words |-> words]

\* conftest.py marks a test that uses no VM, and adds small_vm to multi_vms.
Marked(marks) == marks \cup IF "multi_vms" \in marks THEN {"small_vm"} ELSE {}

\* pytest's selection by path, -m and -k.
Selects(j, t) ==
    /\ j.paths \cap t.dirs # {}
    /\ (j.any = {} \/ j.any \cap t.marks # {}) /\ j.all \subseteq t.marks /\ j.none \cap t.marks = {}
    /\ j.named \subseteq t.words /\ j.unnamed \cap t.words = {}

\* The entries of vm_data.py with several VMs ("--vm[]").
ManyVms == {"multi/all_unix", "multi/all_windows", "multi/uefi_unix", "multi/uefi_windows", "multi/tools_unix",
            "multi/tools_windows", "multi/limits"}

JobsFor(t) == {x \in DOMAIN JOBS : Selects(JOBS[x], t)}

-----------------------------------------------------------------------------
(* The command.  vm_data.py gives a name of a VM, a name with the version  *)
(* of the hosts it is for, or a list of these; arguments for pytest are    *)
(* tokens, "-m" and "-k" followed by an expression.                        *)

Exit == "exit"
Name(vm)     == [name |-> vm, for |-> ""]
For(vm, v)   == [name |-> vm, for |-> v]

\* Mutant: the version of the hosts is asked for and not compared.
FilterNot(vm, version) == IF vm.for # "" /\ version = "" THEN Exit ELSE vm.name

\* A VM for another version is None; without a version to compare, an error.
filter_vm(vm, version) == CASE vm.for = ""       -> vm.name
                            [] vm.for # "" /\ version = "" -> Exit
                            [] vm.for = version  -> vm.name
                            [] OTHER             -> "None"

\* A definition that is one tuple is neither a list nor a string: it yields
\* the list that vms was set to.
get_vm_or_vms_refs(def, version) ==
    IF def.list
    THEN LET found == {filter_vm(vm, version) : vm \in def.vms} \ {"None"}
         IN  IF found = {} \/ Exit \in found THEN {Exit} ELSE found
    ELSE {IF vm.for = "" THEN filter_vm(vm, version) ELSE "[]" : vm \in def.vms}

\* The values of an option, which are taken out of the arguments.
Values(args, option) == {args[i + 1] : i \in {k \in DOMAIN args : args[k] = option /\ k < Len(args)}}

\* The arguments "--vm=..." replace the parameter of the job.
build_pytest_cmd(j, def, version, args) ==
    LET given == {args[i].vm : i \in {k \in DOMAIN args : "vm" \in DOMAIN args[k]}}
    IN  [job |-> j, markers |-> Values(args, [option |-> "-m"]), names |-> Values(args, [option |-> "-k"]),
         vms |-> IF given # {} \/ j.vm = "none" THEN given ELSE get_vm_or_vms_refs(def, version)]

\* (job) and (first) and (second) ...
Runs(cmd, t) == Selects(cmd.job, t) /\ (\A e \in cmd.markers : e.mark \in t.marks)
                                    /\ (\A e \in cmd.names : e.word \in t.words)

\* action_run refuses to start with fewer masters than the job needs.
MayRun(x, hosts) == hosts >= JOBS[x].pools
=============================================================================
