------------------------------ MODULE MCTools ------------------------------
(* The sequential parts, each over its inputs: the first step chooses one.  *)
EXTENDS JobDefs, FsDiff, BlockDevices, SpanLayout

CONSTANT MaxSize   \* of a disk, in blocks of the span layout
VARIABLE input

-----------------------------------------------------------------------------
(* The tests of tests/ that some job may select.                           *)

Thick   == {"lvm", "lvmohba", "lvmoiscsi"}
Drivers == {"ext", "xfs", "nfs", "cephfs", "moosefs", "glusterfs", "zfs", "zfsvol", "largeblock", "linstor",
            "fsp", "iso"} \cup Thick

\* The kinds of tests of tests/storage/<driver>/, each with and without gzip.
StorageTest(d, marks, words) ==
    Test({"storage", "storage/" \o d},
         marks \cup (IF d \in Thick THEN {"thick_provisioned"} ELSE {})
               \cup (IF d = "largeblock" THEN {"unused_4k_disks"} ELSE {}),
         words \cup ({d} \cap {"glusterfs", "linstor", "zfsvol"}))

MainKinds    == {{"no_vm"}, {"small_vm"}, {"small_vm", "no_vm"}, {"small_vm", "disk_throughput_intensive"}}
StorageTests ==
    {StorageTest(d, k, w) : d \in Drivers, k \in MainKinds, w \in SUBSET {"gzip"}}
    \cup {StorageTest(d, k, {}) : d \in Drivers, k \in {{"no_vm", "quicktest"}}}
    \cup {StorageTest(d, k, {}) : d \in Drivers, k \in {{"no_vm", "reboot"}, {"small_vm", "reboot"},
                                                        {"small_vm", "reboot", "flaky"}}}
    \cup {StorageTest(d, k, {"migration"}) : d \in Drivers, k \in {{"small_vm"}, {"small_vm", "hostB1"}}}
    \cup {StorageTest("benchmarks", {"small_vm"}, {})}

FeatureTests ==
    {Test({d}, {"no_vm"}, {}) : d \in {"fs_diff", "install/test_fixtures.py", "misc", "network", "packages",
                                       "security", "system", "xapi", "xapi_plugins", "xen", "xo"}}
    \cup {Test({d}, {"small_vm"}, {}) : d \in {"migration", "misc", "network", "snapshot", "vtpm", "xen"}}
    \cup {Test({d}, {"no_vm", "reboot"}, {}) : d \in {"pci_passthrough", "xen"}}
    \cup {Test({"guest_tools/" \o d}, Marked({"multi_vms"}), {}) : d \in {"unix", "win"}}
    \cup {Test({"limits"}, m, {}) : m \in {Marked({"multi_vms"}), {"unix_vm"}}}
    \cup {Test({d}, {"complex_prerequisites", "small_vm"}, {}) : d \in {"migration", "network"}}
    \cup {Test({"migration"}, Marked({"multi_vms", "hostB1"}), {}), Test({"misc"}, Marked({"multi_vms"}), {}),
          Test({"system"}, {"flaky", "small_vm"}, {}), Test({"xen"}, {"reboot", "small_vm"}, {}),
          Test({"misc", "misc/test_pool.py"}, {"no_vm", "reboot", "hostB1"}, {})}
    \cup {Test({"uefi_sb", "uefi_sb/" \o d}, m, {}) :
             d \in {"auth_var", "sb_state", "cert_flow"}, m \in {{}, {"small_vm"}}}
    \cup {Test({"uefi_sb", "uefi_sb/sb"}, Marked({t, s}), {}) :
             t \in {"small_vm", "multi_vms"}, s \in {"unix_vm", "windows_vm"}}

Tests == StorageTests \cup FeatureTests

\* BROKEN_TESTS: quicktest on zfsvol, and TestHostEvacuateWithNetwork.
Broken == {StorageTest("zfsvol", {"no_vm", "quicktest"}, {}),
           Test({"migration"}, {"complex_prerequisites", "small_vm"}, {})}

-----------------------------------------------------------------------------
(* What vm_data.py may say of the VMs of a job, versions of hosts ("": not *)
(* known), and arguments for pytest.                                       *)

VmDefs == {[list |-> FALSE, vms |-> {Name("a")}], [list |-> FALSE, vms |-> {For("a", "8.3")}]}
              \cup {[list |-> TRUE, vms |-> s] : s \in SUBSET {Name("a"), For("b", "8.2"), For("c", "8.3")} \ {{}}}

M(mark)   == <<[option |-> "-m"], [mark |-> mark]>>
K(word)   == <<[option |-> "-k"], [word |-> word]>>
PytestArgs == {<<>>, <<[vm |-> "mine"]>>, M("reboot"), M("no_vm") \o K("gzip"),
               K("gzip") \o <<[vm |-> "mine"], [vm |-> "yours"]>> \o K("migration"), M("small_vm") \o M("flaky")}

-----------------------------------------------------------------------------
(* Volumes: how the kernel reaches one, what it is used for, and the rows  *)
(* of lsblk it makes.  Two paths to a LUN carry the same WWN; the members  *)
(* of an array do not.                                                     *)

Uses == {"empty", "part", "mounted", "mounted_part", "lvm"}
Free(use) == use \in {"empty", "part"}

Below(dev, use) ==
    CASE use = "part"         -> <<Row(Append(dev, "1"), dev, "part", FALSE, NoWwn)>>
      [] use = "mounted_part" -> <<Row(Append(dev, "1"), dev, "part", TRUE, NoWwn)>>
      [] use = "lvm"          -> <<Row(Append(dev, "1"), dev, "part", FALSE, NoWwn),
                                   Row(Append(dev, "lv"), Append(dev, "1"), "lvm", FALSE, NoWwn)>>
      [] OTHER                -> <<>>

\* The second of two paths that nothing joins shows no user.
Plain(dev, use, wwn)   == <<Row(dev, <<>>, "disk", use = "mounted", wwn)>> \o Below(dev, use)
Joined(m, dev, type, use, wwn, name) ==
    <<Row(m, <<>>, "disk", FALSE, wwn), Row(dev, m, type, use = "mounted", name)>> \o Below(dev, use)

RowsOf(dev, v) ==
    LET a == Append(dev, "a")
        b == Append(dev, "b")
    IN  CASE v.wiring = "absent" -> <<>>
          [] v.wiring = "plain"  -> Plain(dev, v.use, v.wwn)
          [] v.wiring = "paths"  -> Plain(a, v.use, v.wwn) \o Plain(b, IF v.use = "part" THEN "part" ELSE "empty", v.wwn)
          [] v.wiring = "mpath"  -> Joined(a, dev, "mpath", v.use, v.wwn, v.wwn)
                                        \o Joined(b, dev, "mpath", v.use, v.wwn, v.wwn)
          [] v.wiring = "raid"   -> Joined(a, dev, "raid1", v.use, v.wwn \o "a", NoWwn)
                                        \o Joined(b, dev, "raid1", v.use, v.wwn \o "b", NoWwn)

Volume(wiring, use, wwn) == [wiring |-> wiring, use |-> use, wwn |-> wwn]
Locals == {Volume(x[1], u, x[2]) : x \in {<<"plain", NoWwn>>, <<"plain", "uuid1">>, <<"raid", "own">>}, u \in Uses}
Luns   == {Volume("absent", "empty", "lun")} \cup {Volume(w, u, "lun") : w \in {"plain", "paths", "mpath"}, u \in Uses}
Nested == {"uuid1"}

Hosts == {"A1", "B1"}
HostRows(i) == [h \in Hosts |-> RowsOf(<<"local">>, i.local[h]) \o RowsOf(<<"lun">>, i.lun[h])]
Offered(i)  == unused_512B_disks(HostRows(i), i.cli, Nested)
\* The devices offered on h that are the volume.
OfferedOf(i, h, volume) == {d \in Offered(i)[h] : d[1] = volume}

-----------------------------------------------------------------------------
(* File systems with a path that is compared and one that is ignored.      *)

Entry(kind, value) == [kind |-> kind, value |-> value]
Files == {Entry("file", "x"), Entry("file", "y"), Entry("link_file", "x"), Entry("link_dir", "x"),
          Entry("link_broken", "x"), Entry("link_broken", "y"), Entry("dir", "x")}
Trees == {<<>>} \cup {[p \in {"etc"} |-> e] : e \in Files}
             \cup {[p \in {"etc", "skip"} |-> IF p = "etc" THEN e ELSE Entry("file", "z")] : e \in Files}
             \cup {[p \in {"skip"} |-> Entry("file", c)] : c \in {"y", "z"}}
Systems == {[files |-> t, packages |-> k] : t \in Trees,
               k \in {<<>>, [p \in {"kbd"} |-> "1"], [p \in {"kbd"} |-> "2"]}}

\* The arguments, with the host that the reference is of.
Args(of, ref, load, test, save, diff) ==
    [of |-> of, ref_host |-> ref, load_ref |-> load, test_host |-> test, save_ref |-> save, show_diff |-> diff]
AnySystem == [files |-> <<>>, packages |-> <<>>]
Compared  == {Args(a, a, None, b, FALSE, TRUE) : a \in Systems, b \in Systems}
                 \cup {Args(a, None, get_data(a), b, FALSE, FALSE) : a \in Systems, b \in Systems}
Partial   == {Args(AnySystem, a, l, b, s, d) : a \in {None, Down, AnySystem}, l \in {None, Bad, get_data(AnySystem)},
                                               b \in {None, Down, AnySystem}, s \in BOOLEAN, d \in BOOLEAN}

-----------------------------------------------------------------------------
(* The behaviours.                                                         *)

Init == input = None
Choose(kind, values) == input = None /\ \E v \in values : input' = [kind |-> kind, of |-> v]

ChooseTest    == Choose("test", Tests)
ChooseCommand == Choose("command", [job : DOMAIN JOBS, def : VmDefs, version : {"", "8.2", "8.3"}, args : PytestArgs])
\* What is local to B1 matters for the WWNs it shares with A1.
ChooseDisks   == Choose("disks", [local : {l \in [Hosts -> Locals] : l["B1"].use \in {"empty", "lvm"}}, lun : [Hosts -> Luns],
                                  cli : {[h \in Hosts |-> All], [h \in Hosts |-> IF h = "A1" THEN {<<"local">>} ELSE All]}])
ChooseDiff    == Choose("diff", Compared \cup Partial)
ChooseSpans   == \E n \in 1..4, b \in 1..4, dev \in 1..MaxSize :
                    Choose("spans", {[dev |-> dev, total |-> t, n |-> n, block |-> b] : t \in {x \in 1..dev : b <= x \div n}})

Next == ChooseTest \/ ChooseCommand \/ ChooseDisks \/ ChooseDiff \/ ChooseSpans
Spec == Init /\ [][Next]_input

Is(kind) == input # None /\ input.kind = kind

-----------------------------------------------------------------------------
(* Jobs.                                                                   *)

NeedsPool2(t) == "hostB1" \in t.marks
NeedsVm(t)    == "no_vm" \notin t.marks
LargeParts    == {"storage-main-large-thin", "storage-main-large-thick", "storage-main-large-full-write"}

\* Some job runs the test, one with several VMs if it is for several; a job
\* that selects it has the pools and the VM it needs; the jobs of the large
\* images share the main storage tests without running one twice.
TestIsServed(t) ==
    /\ t \notin Broken => JobsFor(t) # {} /\ ("multi_vms" \in t.marks => \E x \in JobsFor(t) : JOBS[x].vm \in ManyVms)
    /\ \A x \in JobsFor(t) : (NeedsPool2(t) => JOBS[x].pools >= 2) /\ (NeedsVm(t) => JOBS[x].vm # "none")
    /\ Selects(JOBS["storage-main"], t) /\ "gzip" \notin t.words => Cardinality(JobsFor(t) \cap LargeParts) = 1

Fits(vm, version) == vm.for \in {"", version}
Built(c)    == build_pytest_cmd(JOBS[c.job], c.def, c.version, c.args)
GivenVms(c) == {c.args[i].vm : i \in {k \in DOMAIN c.args : "vm" \in DOMAIN c.args[k]}}
SingleTuple(def) == ~def.list /\ \E vm \in def.vms : vm.for # ""

\* A command gives pytest the VMs of the caller, or else those of the job that
\* are for the version of the host, or stops when there is none or when the
\* version is not known; every argument narrows what the job selects.
CommandFits(c) ==
    /\ GivenVms(c) # {} => Built(c).vms = GivenVms(c)
    /\ GivenVms(c) = {} /\ JOBS[c.job].vm # "none" /\ ~SingleTuple(c.def) =>
          Built(c).vms = LET fitting == {vm.name : vm \in {x \in c.def.vms : Fits(x, c.version)}}
                         IN  IF fitting = {} \/ (c.version = "" /\ \E vm \in c.def.vms : vm.for # "")
                             THEN {Exit} ELSE fitting
    /\ \A t \in Tests : Runs(Built(c), t) => \A i \in DOMAIN c.args :
          /\ c.args[i] = [option |-> "-m"] => c.args[i + 1].mark \in t.marks
          /\ c.args[i] = [option |-> "-k"] => c.args[i + 1].word \in t.words

\* INVARIANT.  No test is left out by the jobs, none is run where it cannot,
\* and the command of a job runs it on the VMs that are meant (jobs.py:
\* 22-604, 609-735; action_check verifies the first part by hand).
JobsServeTheirTests == /\ Is("test") => TestIsServed(input.of)
                       /\ Is("command") => CommandFits(input.of)

\* A VM that a "single" entry restricts to a version is used on hosts of that
\* version (vm_data.py-dist:11-13).  The code gives pytest an empty list.
SingleVmForItsHost ==
    Is("command") => LET c == input.of
                     IN  SingleTuple(c.def) /\ JOBS[c.job].vm # "none" /\ GivenVms(c) = {} /\ c.version = "8.3"
                            => Built(c).vms = {"a"}

-----------------------------------------------------------------------------
(* Block devices.                                                          *)

Present(i, h, vol) == vol = "local" \/ i.lun[h].wiring # "absent"
Allowed(i, h, vol) == i.cli[h] = All \/ <<vol>> \in i.cli[h]
InUse(i, h, vol)   == IF vol = "local" THEN ~Free(i.local[h].use)
                      ELSE \E g \in Hosts : Allowed(i, g, vol) /\ ~Free(i.lun[g].use)
ByMultipath(i, vol) == vol = "lun" /\ \E g \in Hosts : Allowed(i, g, vol) /\ i.lun[g].wiring = "mpath"

\* INVARIANT.  Whatever the paths to it, the arrays and the partitions, a
\* volume that no host of the session uses is offered exactly once on each
\* host that sees it, and one in use nowhere (lib/host.py:736-869;
\* conftest.py:484-579).  A LUN by multipath is at most not offered.
FreeVolumesOfferedOnce ==
    Is("disks") => LET i == input.of IN \A h \in Hosts, vol \in {"local", "lun"} :
        LET offered == Cardinality(OfferedOf(i, h, vol))
            usable  == Present(i, h, vol) /\ Allowed(i, h, vol) /\ ~InUse(i, h, vol)
        IN  /\ ~usable => offered = 0
            /\ usable => offered = 1 \/ (ByMultipath(i, vol) /\ offered = 0)

\* A LUN by multipath that nobody uses is offered (lib/host.py:754-757).  The
\* code takes the disks of its paths, which are unavailable and have the same
\* WWN, for a use of it by a host.
FreeMultipathOffered ==
    Is("disks") => LET i == input.of IN \A h \in Hosts :
        i.lun[h].wiring = "mpath" /\ Allowed(i, h, "lun") /\ ~InUse(i, h, "lun") => OfferedOf(i, h, "lun") # {}

-----------------------------------------------------------------------------
(* The comparison of hosts, and spans.                                     *)

Facts(s) == {<<"entry", p, s.files[p]>> : p \in {q \in DOMAIN s.files : s.files[q].kind # "dir"} \ Ignored}
                \cup {<<"package", k, s.packages[k]>> : k \in DOMAIN s.packages}
Differing(a, b) == {f[2] : f \in (Facts(a) \ Facts(b)) \cup (Facts(b) \ Facts(a))}
Once(r) == r.differs \cap (r.only_ref \cup r.only_test) = {} /\ r.only_ref \cap r.only_test = {}
Reported(results) == UNION {results[d].differs \cup results[d].only_ref \cup results[d].only_test : d \in DataType}

\* INVARIANT.  The report names exactly the paths and packages that differ
\* and are not ignored, none of a type twice, whether the reference is read from its host or from a
\* file, and the script exits 0 only if it found none (or was asked to save a
\* reference and nothing else) (scripts/xcpng-fs-diff.py:73-135, 219-435).
DiffTellsTheTruth ==
    Is("diff") => LET args == input.of
                      run  == main(args)
                  IN  IF run.results = None THEN run.code = -1 \/ args.save_ref
                      ELSE LET differing == Differing(args.of, args.test_host)
                           IN  /\ Reported(run.results) = differing /\ \A d \in DataType : Once(run.results[d])
                               /\ run.code = IF differing = {} THEN 0 ELSE 1

\* INVARIANT.  When a span can hold a block, the spans are of positive size,
\* begin at multiples of the block, do not overlap, start at 0, end with the
\* disk (a single one may be shorter) and add up to what is to be written
\* (tests/storage/storage.py:388-443).
SpansFit ==
    Is("spans") => LET s    == input.of
                       span == compute_span_layout(s.dev, s.total, s.n, s.block)
                       end(i) == span[i].start + span[i].size
                   IN  /\ \A i \in DOMAIN span : span[i].size > 0 /\ span[i].start % s.block = 0
                       /\ \A i \in DOMAIN span \ {0} : end(i - 1) <= span[i].start
                       /\ span[0].start = 0
                       /\ s.n > 1 \/ s.total = s.dev => end(s.n - 1) = s.dev
                       /\ MapThenSumSet(LAMBDA i : span[i].size, DOMAIN span) = s.total
=============================================================================
