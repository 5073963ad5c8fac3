---------------------------- MODULE StorageTests ----------------------------
(***************************************************************************)
(* The storage tests that attach disks of an SR to a VM: coalesce_         *)
(* integrity, vdi_export_import and full_vdi_write, with the fixtures they *)
(* run on and the garbage collector of the SR running beside them.         *)
(*                                                                         *)
(* A test module has a VM (storage_test_vm, running, its own disk on       *)
(* another SR) and a disk (vdi_on_*_sr).  A test attaches disks to the VM, *)
(* registers cleanups with `defer`, which run in reverse order whatever    *)
(* happened, and leaves VM and disk to the next test.  The fixtures are    *)
(* then torn down and the SR, which belongs to the package, is destroyed.  *)
(*                                                                         *)
(* On the SR a snapshot or clone puts a hidden base copy between a disk    *)
(* and its parent; the collector removes hidden leaves and merges base     *)
(* copies, whenever it likes, as long as the SR is plugged.                *)
(***************************************************************************)
EXTENDS Naturals, Sequences, FiniteSets

CONSTANTS
    MaxVdi,     \* bound: VDIs on the SR at a time, base copies included
    MaxTests,   \* bound: tests of the module
    MaxFaults   \* bound: commands and checks that fail

ASSUME BoundAssumption == MaxVdi \in Nat \ {0} /\ MaxTests \in Nat /\ MaxFaults \in Nat

Vdi   == 1..MaxVdi
NoVdi == 0
Local == {"vdi", "new", "src", "dest"}

VARIABLES
    kind,       \* of each VDI: managed, hidden or free
    parent,     \* vhd-parent
    plugged,    \* VDIs with a VBD plugged in the VM
    unplugged,  \* how many unplugged VBDs of the VM a VDI has
    listed,     \* how many times a VDI is in VM.vdis
    sr,         \* its PBD is plugged, unplugged, or the SR is gone
    vm,         \* running, halted or gone
    reused,     \* the VM was given by uuid: imported_vm does not destroy it

    test, ip,   \* the test being run and its current statement
    defers,     \* registered cleanups, last one first
    local,      \* the disks the test knows
    seen,       \* previous_parent
    tail,       \* fixtures to tear down, in order
    tries,      \* attempts of SR.destroy
    pc,
    before,     \* how many base copies there were under the disk when the test started
    outcome,    \* of SR.destroy
    tests, faults,
    vbdFault    \* a command of connect_vdi or disconnect_vdi failed

store   == <<kind, parent>>
machine == <<plugged, unplugged, listed, vm, reused>>
program == <<test, ip, defers, local, seen, before>>
ending  == <<tail, tries, outcome, tests>>
failures == <<faults, vbdFault>>
vars    == <<store, machine, sr, program, pc, ending, failures>>

-----------------------------------------------------------------------------
\* mutant: the parent is read once the snapshot is destroyed
BodyParentLate == [
    coalesce |-> << <<"connect", "vdi", "disconnect">>, <<"check", "vdi", "">>,
                    <<"branch", "new", "destroy">>, <<"check", "vdi", "">>,
                    <<"destroy", "new", "">>, <<"parent", "vdi", "">>, <<"wait", "new", "">>,
                    <<"check", "vdi", "">> >>,
    write    |-> << <<"connect", "vdi", "disconnect">>, <<"check", "vdi", "">> >>,
    export   |-> << <<"create", "src", "destroy">>, <<"check", "src", "">> >> ]

\* What a test does, statement by statement: the operation, its disk, and the
\* cleanup it defers.  "check" stands for the commands run in the VM.
Body == [
    coalesce |-> << <<"connect", "vdi", "disconnect">>, <<"check", "vdi", "">>,
                    <<"branch", "new", "destroy">>, <<"check", "vdi", "">>,
                    <<"parent", "vdi", "">>, <<"destroy", "new", "">>, <<"wait", "new", "">>,
                    <<"check", "vdi", "">> >>,
    write    |-> << <<"connect", "vdi", "disconnect">>, <<"check", "vdi", "">> >>,
    export   |-> << <<"create", "src", "destroy">>, <<"connect", "src", "uuid in vm.vdis">>,
                    <<"check", "src", "">>, <<"disconnect", "src", "">>, <<"check", "src", "">>,
                    <<"destroy", "src", "">>, <<"check", "src", "">>,
                    <<"create", "dest", "destroy">>, <<"check", "dest", "">>,
                    <<"connect", "dest", "disconnect">>, <<"check", "dest", "">> >> ]

\* statement at which the test has waited for the coalesce
Coalesced == 8

Children(v) == {c \in Vdi : kind[c] # "free" /\ parent[c] = v}
Managed     == {v \in Vdi : kind[v] = "managed"}
Hidden      == {v \in Vdi : kind[v] = "hidden"}
Free        == {v \in Vdi : kind[v] = "free"}
Least(s)    == CHOOSE v \in s : \A w \in s : v <= w

\* the base copies under a VDI: what every set has that is closed under parent
Under(v, s) == \A w \in s \union {v} : parent[w] \in s \union {NoVdi}
Bases(v)    == {b \in Vdi : \A s \in SUBSET Vdi : Under(v, s) => b \in s}

\* the statement being executed: of the test or, when ip = 0, a cleanup
Op   == IF ip = 0 THEN Head(defers) ELSE Body[test][ip]
Disk == local[Op[2]]

\* XAPI: what vdi-destroy accepts, and a VDI that it never gave a uuid to
CanDestroy(v) == v \in Managed \ plugged
Fresh == {v \in Free : listed[v] = 0 /\ \A l \in Local : local[l] # v}

TypeOK ==
    /\ kind \in [Vdi -> {"free", "managed", "hidden"}]
    /\ parent \in [Vdi -> Vdi \union {NoVdi}]
    /\ \A v \in Vdi : parent[v] # NoVdi => kind[v] # "free" /\ kind[parent[v]] = "hidden"
    /\ plugged \subseteq Managed
    /\ unplugged \in [Vdi -> Nat] /\ listed \in [Vdi -> Nat]
    /\ sr \in {"plugged", "unplugged", "gone"}
    /\ vm \in {"running", "halted", "gone"} /\ reused \in BOOLEAN
    /\ test \in DOMAIN Body \union {"none"}
    /\ ip \in 0..11
    /\ defers \in Seq({"disconnect", "destroy", "uuid in vm.vdis"} \X Local)
    /\ local \in [Local -> Vdi \union {NoVdi}]
    /\ seen \in Vdi \union {NoVdi}
    /\ tail \in Seq({"vm", "vdi", "sr"})
    /\ tries \in 0..5
    /\ pc \in {"idle", "run", "plug", "named", "unconnect", "drop", "teardown", "disks",
               "attempt", "replug", "done"}
    /\ before \in Nat
    /\ outcome \in {"none", "destroyed", "not empty", "error"}
    /\ tests \in Nat /\ faults \in Nat /\ vbdFault \in BOOLEAN

\* The SR and the disk of the module exist, the VM runs.
Init ==
    /\ kind = [v \in Vdi |-> IF v = 1 THEN "managed" ELSE "free"]
    /\ parent = [v \in Vdi |-> NoVdi]
    /\ plugged = {} /\ unplugged = [v \in Vdi |-> 0] /\ listed = [v \in Vdi |-> 0]
    /\ sr = "plugged" /\ vm = "running" /\ reused \in BOOLEAN
    /\ test = "none" /\ ip = 0 /\ defers = <<>>
    /\ local = [l \in Local |-> IF l = "vdi" THEN 1 ELSE NoVdi]
    /\ seen = NoVdi /\ before = 0
    /\ tail = <<>> /\ tries = 0 /\ pc = "idle" /\ outcome = "none"
    /\ tests = 0 /\ faults = 0 /\ vbdFault = FALSE

-----------------------------------------------------------------------------
\* Control

\* mutant: the first cleanup registered runs first
DoneInOrder ==
    /\ pc' = "run"
    /\ IF ip = 0 THEN ip' = 0 /\ defers' = Tail(defers)
       ELSE /\ ip' = (IF ip = Len(Body[test]) THEN 0 ELSE ip + 1)
            /\ defers' = IF Op[3] = "" THEN defers ELSE Append(defers, <<Op[3], Op[2]>>)
    /\ UNCHANGED <<test, before>>

\* The statement is executed: its cleanup is registered.
Done ==
    /\ pc' = "run"
    /\ IF ip = 0 THEN ip' = 0 /\ defers' = Tail(defers)
       ELSE /\ ip' = (IF ip = Len(Body[test]) THEN 0 ELSE ip + 1)
            /\ defers' = IF Op[3] = "" THEN defers ELSE << <<Op[3], Op[2]>> >> \o defers
    /\ UNCHANGED <<test, before>>

\* mutant: only a test that succeeds is cleaned up after
FailedUncleaned ==
    /\ pc' = "run"
    /\ ip' = 0
    /\ defers' = IF ip = 0 THEN Tail(defers) ELSE <<>>
    /\ UNCHANGED <<test, before>>

\* It raises: the test is over, or the cleanup is.
Failed ==
    /\ pc' = "run"
    /\ ip' = 0
    /\ defers' = IF ip = 0 THEN Tail(defers) ELSE defers
    /\ UNCHANGED <<test, before>>

Goto(p) == pc' = p /\ UNCHANGED <<test, ip, defers, before>>

Executing(op) == pc = "run" /\ (ip > 0 \/ defers # <<>>) /\ Op[1] = op

StartTest(t) ==
    /\ pc = "idle" /\ tests < MaxTests
    /\ test' = t /\ ip' = 1 /\ pc' = "run"
    /\ before' = Cardinality(Bases(1))
    /\ tests' = tests + 1
    /\ UNCHANGED <<store, machine, sr, defers, local, seen, tail, tries, outcome, failures>>

EndTest ==
    /\ pc = "run" /\ ip = 0 /\ defers = <<>>
    /\ pc' = "idle" /\ test' = "none"
    /\ local' = [l \in Local |-> IF l = "vdi" THEN 1 ELSE NoVdi]
    /\ seen' = NoVdi /\ before' = 0
    /\ UNCHANGED <<store, machine, sr, ip, defers, ending, failures>>

-----------------------------------------------------------------------------
\* VDI and SR objects

Create ==
    /\ Executing("create") /\ Fresh # {}
    /\ LET v == Least(Fresh) IN /\ kind' = [kind EXCEPT ![v] = "managed"]
                                /\ local' = [local EXCEPT ![Op[2]] = v]
    /\ Done
    /\ UNCHANGED <<parent, machine, sr, seen, ending, failures>>

\* vdi.snapshot() or vdi.clone()
Branch ==
    /\ Executing("branch") /\ Cardinality(Fresh) > 1
    /\ LET base == Least(Fresh)
           new  == Least(Fresh \ {base})
       IN /\ kind' = [kind EXCEPT ![base] = "hidden", ![new] = "managed"]
          /\ parent' = [parent EXCEPT ![base] = parent[local["vdi"]], ![new] = base,
                                      ![local["vdi"]] = base]
          /\ local' = [local EXCEPT !["new"] = new]
    /\ Done
    /\ UNCHANGED <<machine, sr, seen, ending, failures>>

\* The VDI is no more, nor are its VBDs.  vdi-destroy refuses one in use.
Destroyed(v) == /\ kind' = [kind EXCEPT ![v] = "free"]
                /\ parent' = [parent EXCEPT ![v] = NoVdi]
                /\ unplugged' = [unplugged EXCEPT ![v] = 0]

DestroyVdi ==
    /\ Executing("destroy")
    /\ IF Disk # NoVdi /\ CanDestroy(Disk)
       THEN /\ Destroyed(Disk) /\ Done
            /\ local' = IF Op[2] = "src" THEN [local EXCEPT !["src"] = NoVdi] ELSE local
       ELSE /\ UNCHANGED <<kind, parent, unplugged, local>>
            /\ IF ip = 0 /\ Disk = NoVdi THEN Done ELSE Failed
    /\ UNCHANGED <<plugged, listed, vm, reused, sr, seen, ending, failures>>

\* wait_for_coalesce: the parent is read, the snapshot destroyed, and the
\* parent read until it is another one.
GetParent ==
    /\ Executing("parent")
    /\ seen' = parent[local["vdi"]]
    /\ Done
    /\ UNCHANGED <<store, machine, sr, local, ending, failures>>

\* mutant: one look is enough
WaitForNothing ==
    /\ Executing("wait")
    /\ local' = [local EXCEPT !["new"] = NoVdi]
    /\ Done
    /\ UNCHANGED <<store, machine, sr, seen, ending, failures>>

WaitForCoalesce ==
    /\ Executing("wait")
    /\ parent[local["vdi"]] # seen
    /\ local' = [local EXCEPT !["new"] = NoVdi]
    /\ Done
    /\ UNCHANGED <<store, machine, sr, seen, ending, failures>>

\* Commands run in the VM, and a cleanup whose condition is never true: it
\* looks for a uuid among the VDI objects of vm.vdis.
Check ==
    /\ Executing("check") \/ Executing("uuid in vm.vdis")
    /\ Done
    /\ UNCHANGED <<store, machine, sr, local, seen, ending, failures>>

-----------------------------------------------------------------------------
\* VM.connect_vdi and VM.disconnect_vdi, the VM being running

VbdCreate ==
    /\ Executing("connect")
    /\ unplugged' = [unplugged EXCEPT ![Disk] = @ + 1]
    /\ Goto("plug")
    /\ UNCHANGED <<store, plugged, listed, vm, reused, sr, local, seen, ending, failures>>

VbdPlug ==
    /\ pc = "plug"
    /\ IF Disk \in plugged
       THEN Goto("unconnect") /\ UNCHANGED <<plugged, unplugged, listed>>
       ELSE /\ plugged' = plugged \union {Disk}
            /\ unplugged' = [unplugged EXCEPT ![Disk] = @ - 1]
            /\ listed' = [listed EXCEPT ![Disk] = @ + 1]
            /\ Goto("named")
    /\ UNCHANGED <<store, vm, reused, sr, local, seen, ending, failures>>

\* the VBD object is named after the VDI
Named ==
    /\ pc = "named"
    /\ Done
    /\ UNCHANGED <<store, machine, sr, local, seen, ending, failures>>

\* mutant: the VDI is taken out of a list it was never put in
UnconnectListed ==
    /\ pc = "unconnect"
    /\ unplugged' = [unplugged EXCEPT ![Disk] = @ - 1]
    /\ listed' = [listed EXCEPT ![Disk] = @ - 1]
    /\ Failed
    /\ UNCHANGED <<store, plugged, vm, reused, sr, local, seen, ending, failures>>

\* vbd-plug failed: the VBD is destroyed again
Unconnect ==
    /\ pc = "unconnect"
    /\ unplugged' = [unplugged EXCEPT ![Disk] = @ - 1]
    /\ Failed
    /\ UNCHANGED <<store, plugged, listed, vm, reused, sr, local, seen, ending, failures>>

Vbds(v) == unplugged[v] + (IF v \in plugged THEN 1 ELSE 0)

\* The commands that follow vbd-list want one uuid.
VbdUnplug ==
    /\ Executing("disconnect")
    /\ IF listed[Disk] = 0 \/ Vbds(Disk) # 1
       THEN Failed /\ UNCHANGED <<plugged, unplugged>>
       ELSE /\ plugged' = plugged \ {Disk}
            /\ unplugged' = [unplugged EXCEPT ![Disk] = 1]
            /\ Goto("drop")
    /\ UNCHANGED <<store, listed, vm, reused, sr, local, seen, ending, failures>>

VbdDestroy ==
    /\ pc = "drop"
    /\ unplugged' = [unplugged EXCEPT ![Disk] = @ - 1]
    /\ listed' = [listed EXCEPT ![Disk] = @ - 1]
    /\ Done
    /\ UNCHANGED <<store, plugged, vm, reused, sr, local, seen, ending, failures>>

-----------------------------------------------------------------------------
\* Teardown of the fixtures

\* Module fixtures are torn down in the reverse order of their setup, which
\* depends on the tests that were selected; that of the package comes last.
EndModule ==
    /\ pc = "idle"
    /\ tail' \in {<<"vm", "vdi", "sr">>, <<"vdi", "vm", "sr">>}
    /\ pc' = "teardown"
    /\ UNCHANGED <<store, machine, sr, program, tries, outcome, tests, failures>>

Next1 == tail' = Tail(tail) /\ pc' = "teardown"

TeardownVdi ==
    /\ pc = "teardown" /\ Head(tail) = "vdi"
    /\ IF CanDestroy(1) THEN Destroyed(1) ELSE UNCHANGED <<kind, parent, unplugged>>
    /\ Next1
    /\ UNCHANGED <<plugged, listed, vm, reused, sr, program, tries, outcome, tests, failures>>

\* VM.destroy: forced shutdown, every listed disk the VM has, the VM.
TeardownVm ==
    /\ pc = "teardown" /\ Head(tail) = "vm"
    /\ IF reused
       THEN Next1 /\ UNCHANGED <<plugged, unplugged, vm>>
       ELSE /\ unplugged' = [v \in Vdi |-> Vbds(v)]
            /\ plugged' = {} /\ vm' = "halted"
            /\ pc' = "disks" /\ tail' = tail
    /\ UNCHANGED <<store, listed, reused, sr, program, tries, outcome, tests, failures>>

Disks == {v \in Vdi : unplugged[v] > 0 /\ listed[v] > 0}

VmDestroyVdi ==
    /\ pc = "disks" /\ Disks # {}
    /\ Destroyed(Least(Disks))
    /\ listed' = [listed EXCEPT ![Least(Disks)] = @ - 1]
    /\ UNCHANGED <<plugged, vm, reused, sr, program, pc, ending, failures>>

VmDestroy ==
    /\ pc = "disks" /\ Disks = {}
    /\ vm' = "gone"
    /\ unplugged' = [v \in Vdi |-> 0]
    /\ Next1
    /\ UNCHANGED <<store, plugged, listed, reused, sr, program, tries, outcome, tests, failures>>

\* mutant: sr-destroy is not tried again
OneTry == 1

\* SR.destroy
MaxTries == 5

TeardownSr ==
    /\ pc = "teardown" /\ Head(tail) = "sr"
    /\ tries' = 1 /\ pc' = "attempt"
    /\ UNCHANGED <<store, machine, sr, program, tail, outcome, tests, failures>>

GiveUp(why) == outcome' = why /\ pc' = "done"

\* The PBD cannot be unplugged while a VDI is in use.  sr-destroy collects the
\* hidden leaves there are, once, and refuses an SR that is not empty then.
SrDestroy ==
    /\ pc = "attempt"
    /\ IF plugged # {}
       THEN GiveUp("error") /\ UNCHANGED <<store, sr>>
       ELSE LET leaves == {v \in Hidden : Children(v) = {}}
            IN /\ kind' = [v \in Vdi |-> IF v \in leaves THEN "free" ELSE kind[v]]
               /\ parent' = [v \in Vdi |-> IF v \in leaves THEN NoVdi ELSE parent[v]]
               /\ IF Managed \union (Hidden \ leaves) = {}
                  THEN sr' = "gone" /\ GiveUp("destroyed")
                  ELSE sr' = "unplugged" /\ pc' = "replug" /\ UNCHANGED outcome
    /\ UNCHANGED <<machine, program, tail, tries, tests, failures>>

SrReplug ==
    /\ pc = "replug"
    /\ sr' = "plugged"
    /\ IF Managed # {} \/ tries = MaxTries
       THEN GiveUp("not empty") /\ UNCHANGED tries
       ELSE tries' = tries + 1 /\ pc' = "attempt" /\ UNCHANGED outcome
    /\ UNCHANGED <<store, machine, program, tail, tests, failures>>

-----------------------------------------------------------------------------
\* The garbage collector of the SR

CollectLeaf(b) ==
    /\ b \in Hidden /\ Children(b) = {}
    /\ kind' = [kind EXCEPT ![b] = "free"]
    /\ parent' = [parent EXCEPT ![b] = NoVdi]

\* a disk takes the place of its base copy
CoalesceLeaf(v) ==
    LET p == parent[v] IN
    /\ v \in Managed /\ p # NoVdi /\ Children(p) = {v}
    /\ kind' = [kind EXCEPT ![p] = "free"]
    /\ parent' = [parent EXCEPT ![v] = parent[p], ![p] = NoVdi]

\* a base copy is merged into its own parent
CoalesceBase(b) ==
    LET p == parent[b] IN
    /\ b \in Hidden /\ Children(b) # {} /\ p # NoVdi /\ Children(p) = {b}
    /\ kind' = [kind EXCEPT ![b] = "free"]
    /\ parent' = [v \in Vdi |-> IF v = b THEN NoVdi ELSE IF parent[v] = b THEN p ELSE parent[v]]

Collect ==
    /\ sr = "plugged"
    /\ \E v \in Vdi : CollectLeaf(v) \/ CoalesceLeaf(v) \/ CoalesceBase(v)
    /\ UNCHANGED <<machine, sr, program, pc, ending, failures>>

-----------------------------------------------------------------------------
\* A command or a check fails, or wait_for times out.

FailInTest ==
    /\ \/ pc = "run" /\ (ip > 0 \/ defers # <<>>) /\ Op[1] # "uuid in vm.vdis" /\ Failed
       \/ pc = "plug" /\ (Failed \/ Goto("unconnect"))
       \/ pc \in {"named", "unconnect", "drop"} /\ Failed
    /\ UNCHANGED <<store, machine, sr, local, seen, ending>>

\* VM.destroy_vdi forgets the VDI before it destroys it.
FailInTeardown ==
    /\ \/ /\ pc = "teardown" /\ Head(tail) # "sr"
          /\ Next1 /\ UNCHANGED <<listed, sr, outcome>>
       \/ /\ pc = "disks"
          /\ listed' = IF Disks = {} THEN listed ELSE [listed EXCEPT ![Least(Disks)] = @ - 1]
          /\ Next1 /\ UNCHANGED <<sr, outcome>>
       \/ /\ pc = "attempt" \/ (pc = "teardown" /\ Head(tail) = "sr")
          /\ sr' \in {sr} \union (IF pc = "attempt" /\ plugged = {} THEN {"unplugged"} ELSE {})
          /\ GiveUp("error") /\ UNCHANGED <<listed, tail>>
       \/ /\ pc = "replug"
          /\ sr' \in {"plugged", "unplugged"}
          /\ GiveUp("error") /\ UNCHANGED <<listed, tail>>
    /\ UNCHANGED <<store, plugged, unplugged, vm, reused, program, tries, tests>>

Fail ==
    /\ faults < MaxFaults /\ faults' = faults + 1
    /\ \/ /\ FailInTest
          /\ vbdFault' = (vbdFault \/ pc # "run" \/ Op[1] \in {"connect", "disconnect"})
       \/ FailInTeardown /\ UNCHANGED vbdFault

-----------------------------------------------------------------------------
Statement == \/ Create \/ Branch \/ DestroyVdi \/ GetParent \/ WaitForCoalesce \/ Check
             \/ VbdCreate \/ VbdPlug \/ Named \/ Unconnect \/ VbdUnplug \/ VbdDestroy

Teardown == \/ EndModule \/ TeardownVdi \/ TeardownVm \/ VmDestroyVdi \/ VmDestroy
            \/ TeardownSr \/ SrDestroy \/ SrReplug

Pytest == (\E t \in DOMAIN Body : StartTest(t)) \/ EndTest \/ Statement \/ Teardown

Next == Pytest \/ Collect \/ Fail

Spec == Init /\ [][Next]_vars

\* pytest goes on whatever fails; the collector, paused for minutes at times,
\* runs in the end.
FairSpec == Spec /\ WF_vars(Pytest) /\ WF_vars(Collect)

-----------------------------------------------------------------------------
\* Properties

\* Without a failure nothing is left: no VDI, no SR, no VM but one that was
\* given by uuid, and that one has no disk of the tests.
NoLeakWithoutFault ==
    pc = "done" /\ faults = 0 =>
        /\ Managed = {} /\ Hidden = {} /\ sr = "gone" /\ outcome = "destroyed"
        /\ vm = (IF reused THEN "running" ELSE "gone")
        /\ \A v \in Vdi : Vbds(v) = 0 /\ listed[v] = 0

\* "Coalesce done": when coalesce_integrity verifies its data, the base copy
\* that its snapshot put under the disk has been merged, whatever the state an
\* earlier test left the chain in and whenever the collector ran.
PassMeansCoalesced ==
    test = "coalesce" /\ ip = Coalesced => Cardinality(Bases(1)) <= before

\* SR.destroy gives up on an SR that is not empty only when there is a managed
\* VDI on it: five attempts are enough for the hidden ones that up to five
\* failures leave.  The SR stays plugged, for what has to be cleaned by hand.
GivesUpOnManagedOnly == outcome = "not empty" => Managed # {} /\ sr = "plugged"

\* However many tests follow, a failing command costs one disk at most.
OneDiskPerFault == pc = "done" => Cardinality(Managed) <= faults

\* The deferred functions, the fixtures and SR.destroy clean up together: fully
\* without a failure, all but one disk for each failure otherwise, and an SR is
\* given up for a disk that somebody has to remove only.
TeardownIsThorough == NoLeakWithoutFault /\ OneDiskPerFault /\ GivesUpOnManagedOnly

\* The tests and their teardown always come to an end: in particular
\* wait_for_coalesce never misses the coalesce it waits for.
TestsEnd == <>(pc = "done")

\* conftest.py, defer: "registers functions to be executed after the test
\* completes", whatever assertion failed.  When attaching and detaching work, a
\* test leaves no disk attached to the VM of the module.
CleanupsDetach == pc = "idle" /\ ~vbdFault => plugged = {}

=============================================================================
