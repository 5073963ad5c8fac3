---------------------------- MODULE WindowsTools ----------------------------
(***************************************************************************)
(* Installing and removing PV drivers in a Windows guest                   *)
(* (lib/windows/, with the fixtures of tests/guest_tools/win/).            *)
(*                                                                         *)
(* Without tools a guest has no agent: it is shut down by a command given  *)
(* over SSH that takes effect seconds later, an installer runs in the      *)
(* background and shuts the guest down when it is done, and the harness    *)
(* sees none of it but the power state, an SSH port and the CD drive.      *)
(* Tests share one VM: its unsealed state is kept in a snapshot, which the *)
(* teardown of each fixture reverts to.  A fixture or a test is here the   *)
(* sequence of statements that it runs one by one.                         *)
(***************************************************************************)
EXTENDS Naturals, Sequences, Functions

CONSTANTS
    TestSign,     \* the package needs test signing
    MaxTests,     \* bound: tests of the module
    MaxTrouble,   \* bound: commands that fail and waits that end too early
    MaxVanish     \* bound: boots after which the CD drive is missing

ASSUME WindowsAssumption ==
    TestSign \in BOOLEAN /\ {MaxTests, MaxTrouble, MaxVanish} \subseteq Nat

VARIABLES
    vm,           \* the VM and its guest, see Vms
    snapshot,     \* its unsealed state
    todo,         \* the statements still to run
    retries,      \* attempts left in insert_cd_safe
    phase,        \* a fixture's setup, the test, between tests, over
    raised,       \* an exception in this test
    yielded,      \* the setup is past the yield of the fixture that reverts
    botched,      \* a setup has failed before
    tests, trouble, vanished

program == <<snapshot, todo, retries, phase, raised, yielded>>
history == <<botched, tests, trouble, vanished>>
vars    == <<vm, program, history>>

\* The VM and its guest.
Vms ==
    [power: {"halted", "running"}, off: {"no", "given", "after msi"},
     ssh: BOOLEAN, cd: BOOLEAN,                    \* SSH answers; the ISO is in the drive
     drive: BOOLEAN,                               \* the guest has found the drive
     secureboot: BOOLEAN, vendor: BOOLEAN,         \* parameters of the VM
     cert: BOOLEAN, signing: {"off", "set", "on"},
     package: BOOLEAN,                             \* copied to C:\package.msi
     msi: {"none", "installing", "removing"},
     tools: {"none", "installed", "active", "removed", "gone"},
     offboarded: BOOLEAN]                          \* Copy-XenVifSettings is not scheduled

TypeOK ==
    /\ vm \in Vms
    /\ retries \in 0..2 /\ (todo # <<>> /\ Head(todo) = "drive?" => retries > 0)
    /\ phase \in {"between", "setup", "test", "over"}
    /\ {raised, yielded, botched} \subseteq BOOLEAN
    /\ tests \in 0..MaxTests /\ trouble \in 0..MaxTrouble /\ vanished \in 0..MaxVanish

\* Images come with secure boot on or off.
Unsealed == [power: {"halted"}, off: {"no"}, ssh: {FALSE}, cd: {FALSE}, drive: {TRUE}, secureboot: BOOLEAN,
             vendor: {FALSE}, cert: {FALSE}, signing: {"off"}, package: {FALSE}, msi: {"none"},
             tools: {"none"}, offboarded: {TRUE}]

Init ==
    /\ vm \in Unsealed /\ snapshot = vm /\ todo = <<>> /\ retries = 0 /\ phase = "between"
    /\ raised = FALSE /\ yielded = FALSE /\ botched = FALSE
    /\ tests = 0 /\ trouble = 0 /\ vanished = 0

Doing(s) == todo # <<>> /\ Head(todo) = s

-----------------------------------------------------------------------------
(* The programs.                                                           *)

vm_shutdown_without_tools == <<"shutdown.exe", "halted?">>
wait_for_vm_running_and_ssh_up_without_tools == <<"running?", "ssh?">>
StartAndWait == <<"vm-start">> \o wait_for_vm_running_and_ssh_up_without_tools

insert_cd_safe ==
    <<"eject", "insert", "start if off">> \o wait_for_vm_running_and_ssh_up_without_tools \o <<"drive?">>

\* mutant: the guest is not booted again once test signing is set
SetOnly == <<"certutil", "bcdedit">>

enable_testsign ==
    (IF vm.secureboot THEN vm_shutdown_without_tools \o <<"secureboot off">> \o StartAndWait ELSE <<>>)
        \o <<"certutil", "bcdedit", "halted?">> \o StartAndWait

\* mutant: the drive is not looked for after enable_testsign
SignOnly == insert_cd_safe \o IF TestSign THEN <<"enable_testsign">> ELSE <<>>

InsertAndSign == insert_cd_safe \o (IF TestSign THEN <<"enable_testsign", "drive still there?">> ELSE <<>>)

install_guest_tools(action) ==
    InsertAndSign \o <<"copy", "eject cd">>
        \o CASE action = "nothing"  -> <<"msiexec /i">>
             [] action = "shutdown" -> <<"msiexec /i &", "halted?">>
             [] action = "reboot"   -> <<"msiexec /i &", "halted?">> \o StartAndWait

uninstall_guest_tools == <<"msiexec /x &", "halted?">> \o StartAndWait \o <<"offboarded?">>
run_xenclean == insert_cd_safe \o <<"XenClean &", "halted?", "eject cd">> \o StartAndWait \o <<"offboarded?">>

install_other_drivers(type) ==
    <<"vendor device">> \o StartAndWait \o
    IF type = "none" THEN <<>>
    ELSE InsertAndSign \o <<"install-drivers.ps1 &", "halted?", "eject cd">> \o StartAndWait
             \o wait_for_vm_running_and_ssh_up_without_tools

\* running_unsealed_windows_vm, vm_install_test_tools_no_reboot on top of it,
\* vm_install_test_tools_per_test_class and vm_install_other_drivers.
Setups == {StartAndWait \o <<"yield">>,
           StartAndWait \o <<"yield">> \o install_guest_tools("nothing"),
           StartAndWait \o install_guest_tools("reboot") \o <<"working?", "yield">>,
           install_other_drivers("msi") \o <<"yield">>,
           install_other_drivers("none") \o <<"yield">>}

\* Of test_destructive.py, test_nondestructive.py and test_xenclean.py.
Bodies == {<<>>,
           install_guest_tools("reboot") \o <<"working?">>,
           install_guest_tools("shutdown") \o StartAndWait,
           run_xenclean \o <<"uninstalled?">>}
          \cup IF vm.package
               THEN {uninstall_guest_tools \o <<"uninstalled?">>,
                     vm_shutdown_without_tools \o StartAndWait \o uninstall_guest_tools \o <<"uninstalled?">>}
               ELSE {}

-----------------------------------------------------------------------------
(* One statement.                                                          *)

Proceed == todo' = Tail(todo) /\ UNCHANGED <<retries, raised>>
Raise   == todo' = <<>> /\ raised' = TRUE /\ UNCHANGED retries
Trouble == trouble < MaxTrouble /\ trouble' = trouble + 1 /\ UNCHANGED <<botched, tests, vanished>>
Step    == UNCHANGED <<snapshot, phase, yielded>>

\* A command: refused if it is not possible, else done unless it fails.
Try(s, possible, done) ==
    /\ Doing(s) /\ Step
    /\ \/ possible /\ vm' = done /\ Proceed /\ UNCHANGED history
       \/ ~possible /\ Raise /\ UNCHANGED <<vm, history>>
       \/ possible /\ Raise /\ Trouble /\ UNCHANGED vm

\* wait_for: it times out when the guest is too slow, or will never get there.
Await(s, condition, hopeless) ==
    /\ Doing(s) /\ Step /\ UNCHANGED vm
    /\ \/ condition /\ Proceed /\ UNCHANGED history
       \/ ~condition /\ Raise /\ IF hopeless THEN UNCHANGED history ELSE Trouble

\* Statements that only choose what runs next.
Goto(s, next) == Doing(s) /\ todo' = next /\ Step /\ UNCHANGED <<vm, raised, history>>

Up == vm.power = "running" /\ vm.ssh
SeesTheCd == Up /\ vm.cd /\ vm.drive

VmStart == Try("vm-start", vm.power = "halted", [vm EXCEPT !.power = "running", !.ssh = FALSE, !.off = "no"])
StartIfOff == UNCHANGED retries /\ Goto("start if off",
    IF vm.power = "running" THEN Tail(todo) ELSE <<"vm-start">> \o Tail(todo))

Running   == Await("running?", vm.power = "running", TRUE)
SshUp     == Await("ssh?", Up, vm.power # "running")
HaltedNow == Await("halted?", vm.power = "halted", vm.off = "no")

ShutdownExe ==
    IF vm.power = "running" THEN Try("shutdown.exe", Up, [vm EXCEPT !.off = "given"])
    ELSE UNCHANGED retries /\ Goto("shutdown.exe", Tail(Tail(todo)))

\* eject_cd refuses when the drive is empty, which insert_cd_safe ignores.
Eject   == Try("eject", TRUE, [vm EXCEPT !.cd = FALSE])
EjectCd == Try("eject cd", vm.cd, [vm EXCEPT !.cd = FALSE])
Insert  == Try("insert", ~vm.cd, [vm EXCEPT !.cd = TRUE])

\* mutant: one attempt too many
DriveAgain ==
    \/ Up /\ vm.drive /\ UNCHANGED retries /\ Goto("drive?", Tail(todo))
    \/ Up /\ ~vm.drive /\ retries' = retries - 1
          /\ Goto("drive?", vm_shutdown_without_tools \o
                     IF retries > 0 THEN insert_cd_safe \o Tail(todo) ELSE <<"TimeoutError">>)

\* The end of an attempt of insert_cd_safe: without a drive the VM is shut
\* down and the attempt repeated, or TimeoutError raised.
Drive ==
    \/ Up /\ vm.drive /\ UNCHANGED retries /\ Goto("drive?", Tail(todo))
    \/ Up /\ ~vm.drive /\ retries' = retries - 1
          /\ Goto("drive?", vm_shutdown_without_tools \o
                     IF retries > 1 THEN insert_cd_safe \o Tail(todo) ELSE <<"TimeoutError">>)

TimeoutError == Doing("TimeoutError") /\ Raise /\ Step /\ UNCHANGED <<vm, history>>

DriveStillThere ==
    IF vm.drive THEN UNCHANGED retries /\ Goto("drive still there?", Tail(todo))
    ELSE retries' = 2 /\ Goto("drive still there?", insert_cd_safe \o Tail(todo))

EnableTestsign == vm.power = "running" /\ UNCHANGED retries
                  /\ Goto("enable_testsign", enable_testsign \o Tail(todo))
SecureBootOff  == Try("secureboot off", TRUE, [vm EXCEPT !.secureboot = FALSE])
Certutil       == Try("certutil", SeesTheCd, [vm EXCEPT !.cert = TRUE])
Bcdedit        == Try("bcdedit", Up /\ ~vm.secureboot, [vm EXCEPT !.signing = IF @ = "on" THEN @ ELSE "set", !.off = "given"])
VendorDevice   == \/ Try("vendor device", ~vm.vendor, [vm EXCEPT !.vendor = TRUE])
                  \/ UNCHANGED retries /\ Goto("vendor device", Tail(todo))
Copy           == Try("copy", SeesTheCd, [vm EXCEPT !.package = TRUE])

\* mutant: Start-Process without -Wait
NoWait(s, possible, doing) == Try(s, possible, [vm EXCEPT !.msi = doing, !.off = "given"])

\* Start-Process -Wait: the shutdown command comes after msiexec.
Background(s, possible, doing) == Try(s, possible, [vm EXCEPT !.msi = doing, !.off = "after msi"])

Installs   == \/ Background("msiexec /i &", Up /\ vm.package, "installing")
              \/ Background("install-drivers.ps1 &", SeesTheCd, "installing")
Uninstalls == \/ Background("msiexec /x &", Up, "removing")
              \/ Background("XenClean &", SeesTheCd, "removing")
Msiexec    == Try("msiexec /i", Up /\ vm.package, [vm EXCEPT !.tools = "installed"])
Offboarded == Await("offboarded?", Up /\ vm.offboarded, ~Up)

\* The PV device is installed and PV-drivers-detected is set; or the drivers,
\* the services and the devices are gone.
Working     == Try("working?", Up /\ vm.tools = "active", vm)
Uninstalled == Try("uninstalled?", Up /\ vm.tools \in {"none", "gone"}, vm)

Yield == Doing("yield") /\ yielded' = TRUE /\ Proceed /\ UNCHANGED <<vm, snapshot, phase, history>>

Statement ==
    \/ VmStart \/ StartIfOff \/ Running \/ SshUp \/ HaltedNow \/ ShutdownExe
    \/ Eject \/ EjectCd \/ Insert \/ Drive \/ TimeoutError \/ DriveStillThere
    \/ EnableTestsign \/ SecureBootOff \/ Certutil \/ Bcdedit \/ VendorDevice \/ Copy
    \/ Installs \/ Uninstalls \/ Msiexec \/ Offboarded \/ Working \/ Uninstalled \/ Yield

-----------------------------------------------------------------------------
(* The guest.                                                              *)

Boots ==
    /\ vm.power = "running" /\ ~vm.ssh
    /\ \E found \in BOOLEAN :
          /\ found \/ (vm.cd /\ vanished < MaxVanish)
          /\ vanished' = IF found THEN vanished ELSE vanished + 1
          /\ vm' = [vm EXCEPT !.ssh = TRUE, !.drive = found,
                       !.signing = IF @ = "set" THEN "on" ELSE @,
                       !.tools = CASE @ = "installed" -> "active" [] @ = "removed" -> "gone" [] OTHER -> @]
    /\ UNCHANGED <<program, botched, tests, trouble>>

ShutsDown == /\ vm.power = "running" /\ vm.off = "given"
             /\ vm' = [vm EXCEPT !.power = "halted", !.off = "no", !.ssh = FALSE]
             /\ UNCHANGED <<program, history>>

MsiexecEnds ==
    /\ Up /\ vm.msi # "none" /\ UNCHANGED <<program, history>>
    /\ vm' = [vm EXCEPT !.msi = "none", !.off = IF @ = "after msi" THEN "given" ELSE @,
                 !.tools = IF vm.msi = "installing" THEN "installed" ELSE "removed",
                 !.offboarded = @ /\ vm.msi = "installing"]

\* Copy-XenVifSettings runs once the guest has booted without the drivers.
Offboards == /\ Up /\ vm.tools = "gone" /\ ~vm.offboarded
             /\ vm' = [vm EXCEPT !.offboarded = TRUE] /\ UNCHANGED <<program, history>>

-----------------------------------------------------------------------------
(* pytest: setup, test, teardown.                                          *)

Setup ==
    /\ phase = "between" /\ tests < MaxTests /\ tests' = tests + 1
    /\ phase' = "setup" /\ todo' \in Setups /\ retries' = 2 /\ raised' = FALSE /\ yielded' = FALSE
    /\ UNCHANGED <<vm, snapshot, botched, trouble, vanished>>

Body ==
    /\ phase = "setup" /\ todo = <<>> /\ ~raised /\ phase' = "test"
    /\ todo' \in Bodies /\ retries' = 2 /\ UNCHANGED <<vm, snapshot, raised, yielded, history>>

\* A fixture that raises before its yield has no teardown.
SetupFails ==
    /\ phase = "setup" /\ raised /\ ~yielded /\ phase' = "between" /\ botched' = TRUE
    /\ UNCHANGED <<vm, snapshot, todo, retries, raised, yielded, tests, trouble, vanished>>

\* The fixture that reverts is past its yield.
TornDown == phase = "test" \/ (phase = "setup" /\ raised /\ yielded)

\* mutant: reverted to after a test that passed
RevertPassed ==
    /\ TornDown /\ todo = <<>> /\ phase' = "between" /\ vm' = IF raised THEN vm ELSE snapshot
    /\ UNCHANGED <<snapshot, todo, retries, raised, yielded, history>>

Revert ==
    /\ TornDown /\ todo = <<>> /\ phase' = "between" /\ vm' = snapshot
    /\ UNCHANGED <<snapshot, todo, retries, raised, yielded, history>>

Over == phase = "between" /\ tests = MaxTests /\ phase' = "over"
        /\ UNCHANGED <<vm, snapshot, todo, retries, raised, yielded, history>>
Done == phase = "over" /\ UNCHANGED vars

Pytest == Setup \/ Body \/ SetupFails \/ Revert \/ Over \/ Done
Guest  == Boots \/ ShutsDown \/ MsiexecEnds \/ Offboards
Next   == Statement \/ Pytest \/ Guest

Spec == Init /\ [][Next]_vars

-----------------------------------------------------------------------------
(* Properties.                                                             *)

\* An installer is never cut short: the shutdown that ends an installation is
\* not given, by any of the nested programs, while msiexec still runs
\* (install_guest_tools, uninstall_guest_tools, install_other_drivers).
InstallerNotInterrupted == vm.msi # "none" => vm.power = "running" /\ vm.off # "given"

\* Unsigned drivers are installed only in a guest that has booted with test
\* signing on and trusts the certificate, however often the CD drive had to be
\* looked for (enable_testsign).
SignedWhenInstalled ==
    TestSign /\ (vm.msi = "installing" \/ vm.tools \in {"installed", "active"})
        => vm.cert /\ vm.signing = "on" /\ ~vm.secureboot

\* One boot after which the CD drive is missing never fails a test: an
\* exception has another cause, or the drive was missing twice (insert_cd_safe
\* and the check after enable_testsign).  Not so for an image that comes with
\* secure boot on, see RetriesOneMissingDrive.
SurvivesOneMissingDrive ==
    raised /\ ~botched /\ ~(snapshot.secureboot /\ TestSign) => trouble > 0 \/ vanished > 1

\* The comment in install_guest_tools: sometimes after rebooting the CD drive
\* vanishes, so it is checked for again.  But enable_testsign reads the
\* certificate from the CD after the reboot that switches secure boot off.
RetriesOneMissingDrive == raised /\ ~botched => trouble > 0 \/ vanished > 1

\* Every test starts from the unsealed guest, whatever the tests before did to
\* it and wherever they failed, unless a setup failed before its yield.
StartsUnsealed == phase = "between" /\ ~botched => vm = snapshot

\* Nothing but its own troubles fails a test: no single missing drive, and
\* nothing an earlier test left in the guest.
TroubleStaysInItsTest == SurvivesOneMissingDrive /\ StartsUnsealed
=============================================================================
