----------------------------- MODULE UefiCerts ------------------------------
(***************************************************************************)
(* The UEFI certificates of an XCP-ng 8.2 pool, which the tests of         *)
(* uefistored replace: the pool fixture saves those of XAPI in temporary   *)
(* files of the master, clears them in XAPI and on the disk of every host, *)
(* and restores them when the module ends.  Between two tests the VM is    *)
(* reverted and the certificates are cleared again.                        *)
(*                                                                         *)
(* uefistored is external: when a VM starts it copies the certificates of  *)
(* XAPI, if there are any, to the disk of the host, and gives the VM those *)
(* of the disk that it lacks; a VM with secure boot on and without PK, KEK *)
(* and db does not start.                                                  *)
(***************************************************************************)
EXTENDS Naturals

CONSTANTS
    Host,
    Tests,       \* where a test puts certificates, and what it then looks at
    MaxModules,  \* bound: test modules of the session
    MaxTests,    \* bound: tests of the session
    MaxFaults    \* bound: commands that fail

Key      == {"PK", "KEK", "db", "dbx"}
Required == {"PK", "KEK", "db"}
Look     == {"disk", "vm", "boots", "fails", "exchange"}

\* Either no certificate or at least the required ones.
Storable(K) == K = {} \/ Required \subseteq K

\* What a test looks at follows from the certificates it has put somewhere.
ASSUME TestAssumption ==
    \A t \in Tests : /\ t \in [pool : SUBSET Key, disks : SUBSET Key, vm : SUBSET Key, look : Look]
                     /\ Storable(t.pool)
                     /\ t.look = "exchange" => t.pool = {} /\ t.disks = {} /\ t.vm = {}
                     /\ t.look = "vm" => t.disks = {}
                     /\ t.look \in {"boots", "fails"} =>
                           (t.look = "boots") = (Required \subseteq t.pool \cup t.disks \cup t.vm)
ASSUME BoundAssumption == MaxModules \in Nat /\ MaxTests \in Nat /\ MaxFaults \in Nat

\* Certificates by key: of the user, generated by a test for the pool, the
\* disks or the VM, or what an empty file holds.
Cert      == {"none", "user", "pool", "disk", "vm", "junk"}
Certs     == [Key -> Cert]
None      == [k \in Key |-> "none"]
Having(c) == {k \in Key : c[k] # "none"}
Put(c, K, v) == [k \in Key |-> IF k \in K THEN v ELSE c[k]]

VARIABLES
    xapi,     \* certificates in XAPI
    disk,     \* certificates in the varstore directory of each host
    nvram,    \* certificates of the VM
    at,       \* the host the VM runs on, if it does

    saved,    \* contents of the files of saved_uefi_certs
    files,    \* temporary files that exist on the master
    pc, then, \* the current command; whom clear_uefi_certs returns to
    todo,     \* keys still to extract, or hosts still to reach
    test,     \* the test being run

    own,      \* history: the certificates the pool came with
    lost,     \*   a command failed where that may cost them
    spoilt,   \*   a command failed in the latest teardown
    wrong,    \*   the present test has seen what it did not expect
    modules, tests, faults

pool     == <<xapi, disk, nvram, at>>
session  == <<saved, files, pc, then, todo, test>>
history  == <<own, lost, spoilt, wrong>>
counters == <<modules, tests, faults>>
vars     == <<pool, session, history, counters>>

Init ==
    /\ \E K \in SUBSET Key : own = Put(None, K, "user")
    /\ xapi = own /\ disk \in [Host -> {own, None}] /\ nvram = None /\ at = {}
    /\ saved = None /\ files = {} /\ pc = "idle" /\ then = "setup" /\ todo = {}
    /\ test \in Tests
    /\ lost = FALSE /\ spoilt = FALSE /\ wrong = FALSE
    /\ modules = 0 /\ tests = 0 /\ faults = 0

-----------------------------------------------------------------------------
\* save_uefi_certs

\* Four times mktemp: the files exist, and are empty.
BeginModule ==
    /\ pc = "idle" /\ modules < MaxModules
    /\ modules' = modules + 1
    /\ saved' = [k \in Key |-> "junk"] /\ files' = Key
    /\ pc' = "extract" /\ todo' = Key
    /\ UNCHANGED <<pool, then, test, history, tests, faults>>

\* A certificate that "does not exist in XAPI pool DB" is not saved.
Extract(k) ==
    /\ pc = "extract" /\ k \in todo
    /\ todo' = todo \ {k}
    /\ saved' = [saved EXCEPT ![k] = xapi[k]]
    /\ files' = IF xapi[k] = "none" THEN files \ {k} ELSE files
    /\ UNCHANGED <<pool, pc, then, test, history, counters>>

\* mutant: whatever was extracted is taken
SaveAnything ==
    /\ pc = "extract" /\ todo = {}
    /\ pc' = "clear" /\ then' = "setup"
    /\ UNCHANGED <<pool, saved, files, todo, test, history, counters>>

\* What could not be restored as it is is refused, before anything changed.
EndSave ==
    /\ pc = "extract" /\ todo = {}
    /\ IF Storable(Having(saved))
       THEN pc' = "clear" /\ then' = "setup" /\ UNCHANGED files
       ELSE pc' = "idle" /\ files' = {} /\ UNCHANGED then
    /\ UNCHANGED <<pool, saved, todo, test, history, counters>>

-----------------------------------------------------------------------------
\* clear_uefi_certs: XAPI first, then the varstore directory of every host

\* mutant: the hosts are left alone
ClearOnlyXapi ==
    /\ pc = "clear"
    /\ xapi' = None
    /\ pc' = "wipe" /\ todo' = {}
    /\ UNCHANGED <<disk, nvram, at, saved, files, then, test, history, counters>>

ClearXapi ==
    /\ pc = "clear"
    /\ xapi' = None
    /\ pc' = "wipe" /\ todo' = Host
    /\ UNCHANGED <<disk, nvram, at, saved, files, then, test, history, counters>>

Wipe(h) ==
    /\ pc = "wipe" /\ h \in todo
    /\ disk' = [disk EXCEPT ![h] = None] /\ todo' = todo \ {h}
    /\ UNCHANGED <<xapi, nvram, at, saved, files, pc, then, test, history, counters>>

\* Setup then gets the VM in setup mode and its snapshot.
Cleared ==
    /\ pc = "wipe" /\ todo = {}
    /\ pc' = IF then = "restore" THEN "idle" ELSE "ready"
    /\ IF then = "setup" THEN nvram' = None /\ at' = {} ELSE UNCHANGED <<nvram, at>>
    /\ spoilt' = FALSE /\ wrong' = FALSE
    /\ UNCHANGED <<xapi, disk, saved, files, then, todo, test, own, lost, counters>>

-----------------------------------------------------------------------------
\* A test

BeginTest(t) ==
    /\ pc = "ready" /\ tests < MaxTests
    /\ tests' = tests + 1
    /\ test' = t /\ pc' = "install"
    /\ UNCHANGED <<pool, saved, files, then, todo, history, modules, faults>>

\* install_custom_uefi_certs: all the certificates of XAPI are replaced
Install ==
    /\ pc = "install"
    /\ xapi' = IF test.pool = {} THEN xapi ELSE Put(None, test.pool, "pool")
    /\ pc' = "disks" /\ todo' = Host
    /\ UNCHANGED <<disk, nvram, at, saved, files, then, test, history, counters>>

\* install_certs_to_disks
ToDisk(h) ==
    /\ pc = "disks" /\ h \in todo
    /\ disk' = [disk EXCEPT ![h] = Put(@, test.disks, "disk")] /\ todo' = todo \ {h}
    /\ UNCHANGED <<xapi, nvram, at, saved, files, pc, then, test, history, counters>>

\* VM.install_uefi_certs
ToVm ==
    /\ pc = "disks" /\ todo = {}
    /\ nvram' = Put(nvram, test.vm, "vm")
    /\ pc' = "start"
    /\ UNCHANGED <<xapi, disk, at, saved, files, then, todo, test, history, counters>>

\* What uefistored finds on host h, and gives to the VM
Synced(h)    == [k \in Key |-> IF xapi[k] # "none" THEN xapi[k] ELSE disk[h][k]]
Inherited(h) == [k \in Key |-> IF nvram[k] # "none" THEN nvram[k] ELSE Synced(h)[k]]

SecureBoot == test.look \in {"boots", "fails"}

\* The guest of a key exchange sets and clears its own PK, KEK and db.
Start(h) ==
    /\ pc = "start" /\ at = {}
    /\ disk' = [disk EXCEPT ![h] = Synced(h)]
    /\ nvram' = Inherited(h)
    /\ at' = IF SecureBoot /\ ~ Required \subseteq Having(Inherited(h)) THEN {} ELSE {h}
    /\ pc' = "look"
    /\ UNCHANGED <<xapi, saved, files, then, todo, test, history, counters>>

\* A VM that the last test left running does not start.
StartTwice ==
    /\ pc = "start" /\ at # {}
    /\ wrong' = TRUE /\ pc' = "revert"
    /\ UNCHANGED <<pool, saved, files, then, todo, test, own, lost, spoilt, counters>>

Expected ==
    CASE test.look = "disk" ->
           \E h \in at : \A k \in Key :
               CASE k \in test.pool   -> disk[h][k] = "pool"
                 [] test.pool # {}    -> TRUE
                 [] OTHER             -> disk[h][k] = Put(None, test.disks, "disk")[k]
      [] test.look = "vm" ->
           nvram = Put(Put(None, test.pool, "pool"), test.vm, "vm")
      [] test.look = "boots"    -> at # {}
      [] test.look = "fails"    -> at = {}
      [] test.look = "exchange" -> nvram = None

LookAt ==
    /\ pc = "look"
    /\ wrong' = ~Expected
    /\ nvram' = IF test.look = "exchange" THEN Put(nvram, {"PK", "KEK"}, "vm") ELSE nvram
    /\ pc' = "revert"
    /\ UNCHANGED <<xapi, disk, at, saved, files, then, todo, test, own, lost, spoilt, counters>>

\* mutant: no class clears the certificates
RevertOnly ==
    /\ pc = "revert"
    /\ nvram' = None /\ at' = {}
    /\ pc' = "ready" /\ wrong' = FALSE
    /\ UNCHANGED <<xapi, disk, saved, files, then, todo, test, own, lost, spoilt, counters>>

\* setup_and_cleanup after its yield; the class of the key exchange clears
\* nothing.
Revert ==
    /\ pc = "revert"
    /\ nvram' = None /\ at' = {}
    /\ IF test.look = "exchange"
       THEN pc' = "ready" /\ wrong' = FALSE /\ UNCHANGED then
       ELSE pc' = "clear" /\ then' = "teardown" /\ UNCHANGED wrong
    /\ UNCHANGED <<xapi, disk, saved, files, todo, test, own, lost, spoilt, counters>>

-----------------------------------------------------------------------------
\* restore_uefi_certs

EndModule ==
    /\ pc = "ready"
    /\ IF Having(saved) = {} THEN pc' = "clear" /\ then' = "restore"
                             ELSE pc' = "restore" /\ UNCHANGED then
    /\ UNCHANGED <<pool, saved, files, todo, test, history, counters>>

\* mutant: the temporary files are forgotten
RestoreOnly ==
    /\ pc = "restore"
    /\ pc' = "idle" /\ xapi' = saved
    /\ UNCHANGED <<disk, nvram, at, saved, files, then, todo, test, history, counters>>

\* mutant: "none" is always given for dbx
RestoreWithoutDbx ==
    /\ pc = "restore"
    /\ pc' = "idle" /\ xapi' = [saved EXCEPT !["dbx"] = "none"] /\ files' = {}
    /\ UNCHANGED <<disk, nvram, at, saved, then, todo, test, history, counters>>

\* An empty file is installed or refused.
Restore ==
    /\ pc = "restore"
    /\ pc' = "idle"
    /\ \/ xapi' = saved /\ files' = {}
       \/ (\E k \in Key : saved[k] = "junk") /\ UNCHANGED <<xapi, files>>
    /\ UNCHANGED <<disk, nvram, at, saved, then, todo, test, history, counters>>

-----------------------------------------------------------------------------
\* A command fails.  One that fails after it did what it is for leaves what
\* the failure of the next one leaves.

\* save_uefi_certs: whatever else went wrong with an extraction, the file is
\* kept as it is; mktemp and rm do raise.
FailToExtract ==
    /\ pc = "extract" /\ todo # {}
    /\ \/ \E k \in todo : todo' = todo \ {k}
          /\ lost' = TRUE /\ UNCHANGED pc
       \/ pc' = "idle" /\ UNCHANGED <<todo, lost>>
    /\ UNCHANGED <<xapi, spoilt, wrong>>

\* The module fixture: nothing is restored after a setup that failed, and
\* the temporary files stay.
FailOfModule ==
    /\ \/ pc = "clear" /\ then = "setup" /\ UNCHANGED <<xapi, lost>>
       \/ pc = "wipe"  /\ then = "setup" /\ lost' = TRUE /\ UNCHANGED xapi
       \/ pc \in {"clear", "wipe"} /\ then = "restore" /\ lost' = TRUE /\ UNCHANGED xapi
       \/ pc = "restore" /\ lost' = TRUE /\ UNCHANGED xapi
       \/ pc = "restore" /\ xapi' = saved /\ UNCHANGED lost
    /\ pc' = "idle"
    /\ UNCHANGED <<todo, spoilt, wrong>>

\* The test fails, and is torn down.
FailInTest ==
    /\ pc \in {"install", "disks", "start", "look"}
    /\ pc' = "revert"
    /\ UNCHANGED <<xapi, todo, lost, spoilt, wrong>>

\* The rest of the teardown is skipped, and the next test begins.
FailInTeardown ==
    /\ pc = "revert" \/ (pc \in {"clear", "wipe"} /\ then = "teardown")
    /\ pc' = "ready" /\ spoilt' = TRUE /\ wrong' = FALSE
    /\ UNCHANGED <<xapi, todo, lost>>

Fail ==
    /\ faults < MaxFaults /\ faults' = faults + 1
    /\ FailToExtract \/ FailOfModule \/ FailInTest \/ FailInTeardown
    /\ UNCHANGED <<disk, nvram, at, saved, files, then, test, own, modules, tests>>

-----------------------------------------------------------------------------
Save  == BeginModule \/ EndSave \/ \E k \in Key : Extract(k)
Clear == ClearXapi \/ Cleared \/ \E h \in Host : Wipe(h)
Test  == \/ \E t \in Tests : BeginTest(t)
         \/ Install \/ ToVm \/ StartTwice \/ LookAt \/ Revert
         \/ \E h \in Host : ToDisk(h) \/ Start(h)

Next == Save \/ Clear \/ Test \/ EndModule \/ Restore \/ Fail

Spec == Init /\ [][Next]_vars

-----------------------------------------------------------------------------
\* Properties

Phase == {"idle", "extract", "clear", "wipe", "ready", "install", "disks", "start", "look",
          "revert", "restore"}

\* Types; restore_uefi_certs asserts that PK, KEK and db were saved.
TypeOK ==
    /\ xapi \in Certs /\ disk \in [Host -> Certs] /\ nvram \in Certs /\ at \subseteq Host
    /\ saved \in Certs /\ files \subseteq Key
    /\ pc \in Phase /\ then \in {"setup", "teardown", "restore"}
    /\ pc = "extract" => todo \subseteq Key
    /\ pc \in {"wipe", "disks"} => todo \subseteq Host
    /\ pc = "restore" => Required \subseteq Having(saved)
    /\ test \in Tests
    /\ own \in [Key -> {"none", "user"}]
    /\ lost \in BOOLEAN /\ spoilt \in BOOLEAN /\ wrong \in BOOLEAN
    /\ modules \in Nat /\ tests \in Nat /\ faults \in Nat

\* "At this point we should have a VM with no certs, on a pool with no certs
\* either": whatever the tests before did and wherever they failed, a test
\* that follows a complete teardown starts from nothing, on any host.
CleanSlate == pc = "ready" /\ ~spoilt =>
    /\ xapi = None /\ nvram = None /\ at = {}
    /\ \A h \in Host : disk[h] = None

\* No test sees what another left, unless the teardown in between failed.
NoSpuriousFailure == wrong => spoilt

\* Where no command failed, a module leaves no temporary file on the master.
NoTraceWithoutFault == pc = "idle" /\ faults = 0 => files = {}

\* Neither a test nor a module leaves anything to the next, but for failures.
NothingInherited == NoSpuriousFailure /\ NoTraceWithoutFault

\* The pool's certificates, seen by their owner: save, clear, the tests and
\* restore are a loan.
Loan == INSTANCE CertLoan WITH certs <- xapi, home <- (pc = "idle")
Contract == Loan!Spec

\* What IInv adds.  As long as nothing was lost, the owner's certificates are
\* in XAPI or in the saved files.
LoanInv == ~lost =>
    /\ pc \in {"idle", "extract"} \/ (pc = "clear" /\ then = "setup") => xapi = own
    /\ pc = "extract" => \A k \in Key \ todo : saved[k] = own[k]
    /\ pc \notin {"idle", "extract"} => saved = own
    /\ pc \in {"clear", "wipe"} /\ then = "restore" => saved = None

\* What was saved can be installed.
SavedInv == pc \notin {"idle", "extract"} => Storable(Having(saved))

\* What is clean already, at each point of a teardown and in the test that
\* has none.
CleanInv ==
    /\ pc = "wipe" => xapi = None /\ \A h \in Host \ todo : disk[h] = None
    /\ pc \in {"clear", "wipe"} /\ then = "teardown" => nvram = None /\ at = {}
    /\ /\ pc \in {"install", "disks", "start", "look", "revert"}
       /\ test.look = "exchange" /\ ~spoilt
       => xapi = None /\ \A h \in Host : disk[h] = None

IInv == TypeOK /\ CleanSlate /\ LoanInv /\ SavedInv /\ CleanInv

\* "Save UEFI certificates in order to restore them later": what is cleared
\* next is what has been saved.
SavedIsExact == pc = "clear" /\ then = "setup" => saved = xapi
=============================================================================
