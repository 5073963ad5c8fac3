---------------------------- MODULE PoolPackages ----------------------------
(***************************************************************************)
(* What the test packages install on the hosts of a pool, and what is left *)
(* of it afterwards.                                                       *)
(*                                                                         *)
(* A test package sets up package-scoped fixtures one after the other, and *)
(* tears down those that yielded in the reverse order.  The first of them  *)
(* saves the yum state of the hosts (Host.yum_save_state), others install  *)
(* packages or change the configuration of every host of the pool through  *)
(* Pool.exec_on_hosts_on_error_rollback, the last one creates an SR.  The  *)
(* state a Host object saves outlives the package: one Python process runs *)
(* all the packages of a session.                                          *)
(*                                                                         *)
(* A fixture works on a set of hosts: `todo` holds those it still has to   *)
(* deal with, `at` the one it is dealing with.  pool.hosts lists the hosts *)
(* as XAPI does, in no order that matters here.                            *)
(***************************************************************************)
EXTENDS Naturals, Sequences, FiniteSets

CONSTANTS
    Host,         \* hosts of the pool
    Master, A2,   \* its master and its second host
    NoHost,
    Packages,     \* the test packages of the session
    MaxPackages,  \* bound: packages run over all sessions
    MaxFaults     \* bound: failing commands and killed sessions

\* Fixtures of a test package, in setup order.
Fixtures == [
    zfs       |-> <<"absent", "save_master", "zfs">>,
    cephfs    |-> <<"absent", "save_pool", "ceph">>,
    xfs       |-> <<"xfsprogs", "sr">>,
    glusterfs |-> <<"absent", "save_pool", "glusterfs", "sr">>,
    moosefs   |-> <<"save_pool", "moosefs">>,
    linstor   |-> <<"save_pool", "linstor", "sr">>,
    \* intra-pool migration from a MooseFS SR to an XFS SR of hostA2
    moosefs_to_xfs |-> <<"save_pool", "moosefs", "xfsprogs", "sr">> ]

\* The RPMs that matter: gpm-libs, xfsprogs and what each package is about.
Rpm == {"gpm-libs", "xfsprogs", "zfs", "ceph-common", "glusterfs-server", "moosefs-client",
        "xcp-ng-linstor"}

\* saved_packages_list is None: not a set of RPMs
NoList == {"no list"}

ASSUME HostAssumption == Master \in Host /\ A2 \in Host /\ NoHost \notin Host
ASSUME PackagesAssumption == Packages \subseteq DOMAIN Fixtures
ASSUME BoundAssumption == MaxPackages \in Nat /\ MaxFaults \in Nat

VARIABLES
    installed,  \* RPMs of each host
    history,    \* yum history of each host: the RPMs after each transaction
    altered,    \* <<fixture, host>>: configuration a fixture changed on a host
    srs,        \* packages whose SR exists

    savedPkgs,  \* Host.saved_packages_list
    savedTid,   \* Host.saved_rollback_id, 0 for None

    pkg,        \* the package being run
    depth,      \* how many of its fixtures have yielded
    pc,
    todo, at,
    keep,       \* uninstall_xfs, uninstall_glusterfs, uninstall_linstor are False
    errors,     \* errors of exec_on_hosts_on_error_continue

    baseline,   \* RPMs of each host when the session started
    inherited,  \* `altered` when the session started
    packages, faults

hosts   == <<installed, history, altered, srs>>
memory  == <<savedPkgs, savedTid>>
control == <<pkg, depth, pc, todo, at, keep, errors>>
origin  == <<baseline, inherited>>
bounds  == <<packages, faults>>
vars    == <<hosts, memory, control, origin, bounds>>

-----------------------------------------------------------------------------
Loops == {"save", "install", "rollback", "restore", "forget", "disable", "unconfigure", "remove"}
Phase == Loops \union {"idle", "setup", "test", "teardown", "tid", "gpm", "configure",
                       "verify", "create", "destroy"}

\* the hosts a fixture works on
HostsOf(f) == CASE f \in {"save_master", "zfs"} -> {Master}
                [] f = "xfsprogs" -> {A2}
                [] OTHER -> Host

\* the RPMs it installs
RpmsOf(f) == CASE f = "xfsprogs"  -> {"xfsprogs"}
               [] f = "zfs"       -> {"zfs"}
               [] f = "ceph"      -> {"ceph-common"}
               [] f = "glusterfs" -> {"glusterfs-server", "xfsprogs"}
               [] f = "moosefs"   -> {"moosefs-client"}
               [] f = "linstor"   -> {"xcp-ng-linstor"}
               [] OTHER           -> {}

\* the fixture being set up, the fixture being torn down, the one below the SR
Rising  == Fixtures[pkg][depth + 1]
Falling == Fixtures[pkg][depth]

TypeOK ==
    /\ installed \in [Host -> SUBSET Rpm]
    /\ history \in [Host -> Seq(SUBSET Rpm)]
    /\ altered \subseteq {"glusterfs", "moosefs"} \X Host
    /\ srs \subseteq DOMAIN Fixtures
    /\ savedPkgs \in [Host -> (SUBSET Rpm) \union {NoList}]
    /\ savedTid \in [Host -> Nat]
    /\ \A h \in Host : savedTid[h] <= Len(history[h])
    /\ pkg \in Packages \union {"none"}
    /\ depth \in Nat
    /\ pkg # "none" => depth <= Len(Fixtures[pkg])
    /\ pc \in Phase
    /\ todo \subseteq Host
    /\ at \in todo \union {NoHost}
    /\ keep \in BOOLEAN
    /\ errors \in BOOLEAN
    /\ baseline \in [Host -> SUBSET Rpm]
    /\ inherited \subseteq {"glusterfs", "moosefs"} \X Host
    /\ packages \in Nat
    /\ faults \in Nat

\* A freshly installed host has an empty yum history and no gpm-libs; any
\* other may have what earlier transactions brought.
Init ==
    /\ history \in [Host -> {<<>>, <<{}>>, <<{"gpm-libs"}>>}]
    /\ installed = [h \in Host |-> IF history[h] = <<>> THEN {} ELSE history[h][1]]
    /\ altered = {} /\ srs = {}
    /\ savedPkgs = [h \in Host |-> NoList]
    /\ savedTid = [h \in Host |-> 0]
    /\ pkg = "none" /\ depth = 0 /\ pc = "idle"
    /\ todo = {} /\ at = NoHost /\ keep = FALSE /\ errors = FALSE
    /\ baseline = installed /\ inherited = {}
    /\ packages = 0 /\ faults = 0

-----------------------------------------------------------------------------
\* Control

Goto(p) == pc' = p /\ UNCHANGED <<pkg, depth, todo, at, keep, errors>>

\* a loop over the hosts in hs
Loop(p, hs) == /\ pc' = p /\ todo' = hs /\ at' = NoHost /\ errors' = FALSE
               /\ UNCHANGED <<pkg, depth, keep>>

\* the loop is done with `at`
HostDone(p, failed) == /\ pc' = p /\ todo' = todo \ {at} /\ at' = NoHost
                       /\ errors' = (errors \/ failed)
                       /\ UNCHANGED <<pkg, depth, keep>>

FixtureUp == /\ depth' = depth + 1
             /\ pc' = IF depth' = Len(Fixtures[pkg]) THEN "test" ELSE "setup"
             /\ todo' = {} /\ at' = NoHost /\ errors' = FALSE
             /\ UNCHANGED <<pkg, keep>>

FixtureDown == /\ depth' = depth - 1
               /\ pc' = "teardown"
               /\ todo' = {} /\ at' = NoHost /\ errors' = FALSE
               /\ UNCHANGED <<pkg, keep>>

\* The fixture raises before it yields: it will not be torn down, those that
\* yielded will.
Raise == Loop("teardown", {})

\* A yum transaction on h that leaves it with the RPMs in s.
Yum(h, s) ==
    /\ installed' = [installed EXCEPT ![h] = s]
    /\ history' = IF s = installed[h] THEN history
                  ELSE [history EXCEPT ![h] = Append(@, s)]
    /\ UNCHANGED <<altered, srs>>

\* mutant: the host that failed is not rolled back
RollbackHostsDone == Host \ todo

\* hosts_done + [h]
RollbackHosts == (Host \ todo) \union {at}

\* The next host of a loop.
Take(h) ==
    /\ pc \in Loops /\ at = NoHost
    /\ h \in todo
    /\ at' = h
    /\ UNCHANGED <<hosts, memory, pkg, depth, pc, todo, keep, errors, origin, bounds>>

-----------------------------------------------------------------------------
\* Packages and sessions

StartPackage(p) ==
    /\ pc = "idle"
    /\ packages < MaxPackages
    /\ packages' = packages + 1
    /\ pkg' = p /\ depth' = 0 /\ keep' = FALSE
    /\ pc' = "setup"
    /\ UNCHANGED <<hosts, memory, todo, at, errors, origin, faults>>

EndPackage ==
    /\ pc = "teardown" /\ depth = 0
    /\ pkg' = "none" /\ pc' = "idle" /\ keep' = FALSE
    /\ UNCHANGED <<hosts, memory, depth, todo, at, errors, origin, bounds>>

\* A new pytest process: new Host objects.
Restart == /\ savedPkgs' = [h \in Host |-> NoList]
           /\ savedTid' = [h \in Host |-> 0]
           /\ baseline' = installed /\ inherited' = altered
           /\ pkg' = "none" /\ depth' = 0 /\ pc' = "idle"
           /\ todo' = {} /\ at' = NoHost /\ keep' = FALSE /\ errors' = FALSE
           /\ UNCHANGED <<hosts, packages>>

NewSession == pc = "idle" /\ Restart /\ UNCHANGED faults

Kill == /\ pc # "idle"
        /\ faults < MaxFaults /\ faults' = faults + 1
        /\ Restart

-----------------------------------------------------------------------------
\* Setup

\* What a fixture checks first, and the loop it starts with.  The one of
\* cephfs looks at the master as many times as there are hosts.
AlreadyThere ==
    \/ /\ Rising = "absent"
       /\ \/ pkg = "zfs" /\ "zfs" \in installed[Master]
          \/ pkg = "cephfs" /\ "ceph-common" \in installed[Master]
          \/ pkg = "glusterfs" /\ \E h \in Host : "glusterfs-server" \in installed[h]
    \/ Rising = "xfsprogs" /\ "xfsprogs" \in installed[A2]

BeginSetup ==
    /\ pc = "setup"
    /\ IF AlreadyThere THEN Raise
       ELSE CASE Rising = "absent" -> FixtureUp
              [] Rising \in {"save_master", "save_pool", "xfsprogs"} -> Loop("save", HostsOf(Rising))
              [] Rising = "sr" -> Goto("create")
              [] OTHER -> Loop("install", HostsOf(Rising))
    /\ UNCHANGED <<hosts, memory, origin, bounds>>

\* Host.yum_save_state: the list of RPMs, then the last transaction.
SaveList ==
    /\ pc = "save" /\ at # NoHost
    /\ savedPkgs[at] = NoList
    /\ savedPkgs' = [savedPkgs EXCEPT ![at] = installed[at]]
    /\ Goto("tid")
    /\ UNCHANGED <<hosts, savedTid, origin, bounds>>

SaveRefused ==
    /\ pc = "save" /\ at # NoHost
    /\ savedPkgs[at] # NoList
    /\ Raise
    /\ UNCHANGED <<hosts, memory, origin, bounds>>

\* Host.get_last_yum_history_tid: `yum history list` fails on an empty history.
GpmInstall ==
    /\ pc = "tid" /\ history[at] = <<>>
    /\ Yum(at, installed[at] \union {"gpm-libs"})
    /\ Goto("gpm")
    /\ UNCHANGED <<memory, origin, bounds>>

\* mutant: the list is not what the last transaction left
GpmKept ==
    /\ pc = "gpm"
    /\ Goto("tid")
    /\ UNCHANGED <<hosts, memory, origin, bounds>>

GpmRemove ==
    /\ pc = "gpm"
    /\ Yum(at, installed[at] \ {"gpm-libs"})
    /\ Goto("tid")
    /\ UNCHANGED <<memory, origin, bounds>>

\* mutant: the transaction that comes next
SaveNextTid ==
    /\ pc = "tid" /\ history[at] # <<>>
    /\ savedTid' = [savedTid EXCEPT ![at] = Len(history[at]) + 1]
    /\ HostDone("save", FALSE)
    /\ UNCHANGED <<hosts, savedPkgs, origin, bounds>>

SaveTid ==
    /\ pc = "tid" /\ history[at] # <<>>
    /\ savedTid' = [savedTid EXCEPT ![at] = Len(history[at])]
    /\ HostDone("save", FALSE)
    /\ UNCHANGED <<hosts, savedPkgs, origin, bounds>>

\* install_moosefs finds the client already there.
InstallRefused ==
    /\ pc = "install" /\ at # NoHost
    /\ Rising = "moosefs" /\ "moosefs-client" \in installed[at]
    /\ Loop("rollback", RollbackHosts)
    /\ UNCHANGED <<hosts, memory, origin, bounds>>

\* glusterfs installs first; moosefs adds its repository first.
Install ==
    /\ pc = "install" /\ at # NoHost
    /\ Rising = "moosefs" => <<"moosefs", at>> \in altered /\ "moosefs-client" \notin installed[at]
    /\ Yum(at, installed[at] \union RpmsOf(Rising))
    /\ IF Rising = "glusterfs" THEN Goto("configure") ELSE HostDone("install", FALSE)
    /\ UNCHANGED <<memory, origin, bounds>>

Configure ==
    /\ \/ /\ pc = "configure"
          /\ HostDone("install", FALSE)
       \/ /\ pc = "install" /\ Rising = "moosefs"
          /\ at # NoHost /\ <<Rising, at>> \notin altered
          /\ "moosefs-client" \notin installed[at]
          /\ UNCHANGED control
    /\ altered' = altered \union {<<Rising, at>>}
    /\ UNCHANGED <<installed, history, srs, memory, origin, bounds>>

\* sr_create fails when a host lacks the driver.
CreateSr ==
    /\ pc = "create"
    /\ IF \A h \in HostsOf(Fixtures[pkg][depth]) : RpmsOf(Fixtures[pkg][depth]) \subseteq installed[h]
       THEN srs' = srs \union {pkg} /\ FixtureUp
       ELSE srs' = srs /\ Raise
    /\ UNCHANGED <<installed, history, altered, memory, origin, bounds>>

SetupLoopDone ==
    /\ pc \in {"save", "install", "rollback"} /\ at = NoHost /\ todo = {}
    /\ CASE pc = "rollback" -> Raise
         [] pc = "save" /\ Rising = "xfsprogs" -> Loop("install", HostsOf(Rising))
         [] OTHER -> FixtureUp
    /\ UNCHANGED <<hosts, memory, origin, bounds>>

RunTests ==
    /\ pc = "test"
    /\ Goto("teardown")
    /\ UNCHANGED <<hosts, memory, origin, bounds>>

-----------------------------------------------------------------------------
\* Undoing what glusterfs and moosefs changed, host by host

\* rollback_func.  That of glusterfs disables the service, which fails when it
\* is not installed, and then restores iptables; that of moosefs removes files.
Rollback ==
    /\ pc = "rollback" /\ at # NoHost
    /\ \/ /\ Rising = "glusterfs" /\ "glusterfs-server" \notin installed[at]
          /\ HostDone("rollback", TRUE) /\ UNCHANGED altered
       \/ /\ Rising = "moosefs" \/ "glusterfs-server" \in installed[at]
          /\ HostDone("rollback", FALSE) /\ altered' = altered \ {<<Rising, at>>}
    /\ UNCHANGED <<installed, history, srs, memory, origin, bounds>>

\* Teardown of glusterfs: _uninstall_host_glusterfs on all hosts ...
Disable ==
    /\ pc = "disable" /\ at # NoHost
    /\ HostDone("disable", "glusterfs-server" \notin installed[at])
    /\ UNCHANGED <<hosts, memory, origin, bounds>>

\* ... then _restore_host_iptables; uninstall_moosefs_repo.
Unconfigure ==
    /\ pc = "unconfigure" /\ at # NoHost
    /\ altered' = altered \ {<<Falling, at>>}
    /\ HostDone("unconfigure", FALSE)
    /\ UNCHANGED <<installed, history, srs, memory, origin, bounds>>

-----------------------------------------------------------------------------
\* Teardown

BeginTeardown ==
    /\ pc = "teardown" /\ depth > 0
    /\ CASE Falling \in {"save_master", "save_pool"} -> Loop("restore", HostsOf(Falling))
         [] Falling = "xfsprogs" -> IF keep THEN FixtureDown ELSE Loop("restore", {A2})
         [] Falling = "glusterfs" -> Loop(IF keep THEN "forget" ELSE "disable", Host)
         [] Falling = "linstor" -> Loop(IF keep THEN "forget" ELSE "remove", Host)
         [] Falling = "moosefs" -> Loop("unconfigure", Host)
         [] Falling \in {"absent", "zfs", "ceph"} -> FixtureDown
         [] Falling = "sr" -> Goto("destroy")
    /\ UNCHANGED <<hosts, memory, origin, bounds>>

DestroySr ==
    /\ pc = "destroy"
    /\ srs' = srs \ {pkg}
    /\ FixtureDown
    /\ UNCHANGED <<installed, history, altered, memory, origin, bounds>>

\* mutant: the failure is not remembered
DestroySrFailsQuietly ==
    /\ pc = "destroy"
    /\ faults < MaxFaults /\ faults' = faults + 1
    /\ FixtureDown
    /\ UNCHANGED <<hosts, memory, origin, packages>>

\* "Could not destroy SR, leaving packages in place for manual cleanup"
DestroySrFails ==
    /\ pc = "destroy"
    /\ faults < MaxFaults /\ faults' = faults + 1
    /\ keep' = TRUE
    /\ depth' = depth - 1 /\ pc' = "teardown"
    /\ UNCHANGED <<hosts, memory, pkg, todo, at, errors, origin, packages>>

\* mutant: the list is forgotten too
ForgetAll ==
    /\ pc = "forget" /\ at # NoHost
    /\ savedTid' = [savedTid EXCEPT ![at] = 0]
    /\ savedPkgs' = [savedPkgs EXCEPT ![at] = NoList]
    /\ HostDone("forget", FALSE)
    /\ UNCHANGED <<hosts, origin, bounds>>

\* _disable_yum_rollback
Forget ==
    /\ pc = "forget" /\ at # NoHost
    /\ savedTid' = [savedTid EXCEPT ![at] = 0]
    /\ HostDone("forget", FALSE)
    /\ UNCHANGED <<hosts, savedPkgs, origin, bounds>>

\* remove_linstor, in threads whose exceptions nobody looks at
Remove ==
    /\ pc = "remove" /\ at # NoHost
    /\ Yum(at, installed[at] \ {"xcp-ng-linstor"})
    /\ HostDone("remove", FALSE)
    /\ UNCHANGED <<memory, origin, bounds>>

\* Host.yum_restore_saved_state
RestoreRefused ==
    /\ pc = "restore" /\ at # NoHost
    /\ savedPkgs[at] = NoList \/ savedTid[at] = 0
    /\ HostDone("restore", TRUE)
    /\ UNCHANGED <<hosts, memory, origin, bounds>>

YumRollback ==
    /\ pc = "restore" /\ at # NoHost
    /\ savedPkgs[at] # NoList /\ savedTid[at] # 0
    /\ Yum(at, history[at][savedTid[at]])
    /\ Goto("verify")
    /\ UNCHANGED <<memory, origin, bounds>>

Verify ==
    /\ pc = "verify"
    /\ IF installed[at] = savedPkgs[at]
       THEN /\ savedPkgs' = [savedPkgs EXCEPT ![at] = NoList]
            /\ savedTid' = [savedTid EXCEPT ![at] = 0]
            /\ HostDone("restore", FALSE)
       ELSE UNCHANGED memory /\ HostDone("restore", TRUE)
    /\ UNCHANGED <<hosts, origin, bounds>>

\* mutant: iptables are never restored
TeardownLoopOver ==
    /\ pc \in {"restore", "forget", "disable", "unconfigure", "remove"}
    /\ at = NoHost /\ todo = {}
    /\ FixtureDown
    /\ UNCHANGED <<hosts, memory, origin, bounds>>

\* exec_on_hosts_on_error_continue raises at its end when a host failed: the
\* lines of the fixture after it are not run.
TeardownLoopDone ==
    /\ pc \in {"restore", "forget", "disable", "unconfigure", "remove"}
    /\ at = NoHost /\ todo = {}
    /\ IF pc = "disable" /\ ~errors THEN Loop("unconfigure", Host) ELSE FixtureDown
    /\ UNCHANGED <<hosts, memory, origin, bounds>>

-----------------------------------------------------------------------------
\* A command fails: on host `at`, or while a fixture checks or creates.

Setting == pc \in {"save", "tid", "gpm", "install", "configure"}
Undoing == pc \in {"rollback", "disable", "unconfigure", "remove", "restore", "verify"}

Fail ==
    /\ faults < MaxFaults /\ faults' = faults + 1
    /\ at # NoHost \/ pc \in {"setup", "create"}
    /\ \/ /\ pc \in {"install", "configure"} /\ Rising \in {"glusterfs", "moosefs"}
          /\ altered' \in {altered} \union
                          (IF pc = "configure" THEN {altered \union {<<Rising, at>>}} ELSE {})
          /\ Loop("rollback", RollbackHosts)
       \/ /\ pc = "install" /\ Rising = "linstor"
          /\ HostDone("install", TRUE) /\ UNCHANGED altered
       \/ /\ pc \in {"setup", "create"}
          /\ Raise /\ UNCHANGED altered
       \/ /\ Setting
          /\ ~(pc \in {"install", "configure"} /\ Rising \in {"glusterfs", "moosefs", "linstor"})
          /\ Raise /\ UNCHANGED altered
       \/ /\ Undoing
          /\ HostDone(IF pc = "verify" THEN "restore" ELSE pc, TRUE) /\ UNCHANGED altered
    /\ UNCHANGED <<installed, history, srs, memory, origin, packages>>

-----------------------------------------------------------------------------
Session == EndPackage \/ NewSession \/ \E p \in Packages : StartPackage(p)

Setup == BeginSetup \/ SaveList \/ SaveRefused \/ GpmInstall \/ GpmRemove \/ SaveTid
         \/ Install \/ InstallRefused \/ Configure \/ CreateSr \/ SetupLoopDone

Teardown == BeginTeardown \/ DestroySr \/ DestroySrFails \/ Forget \/ Remove \/ Disable
            \/ Unconfigure \/ RestoreRefused \/ YumRollback \/ Verify \/ TeardownLoopDone

Next == \/ Session \/ Setup \/ RunTests \/ Rollback \/ Teardown
        \/ \E h \in Host : Take(h)
        \/ Fail \/ Kill

Spec == Init /\ [][Next]_vars

-----------------------------------------------------------------------------
\* Properties

\* Whatever failed, in whatever package, a host for which no state is saved
\* has the RPMs it had when the session started: no package ever saves, as the
\* state to come back to, what an earlier package left on a host.
UnsavedIsPristine ==
    \A h \in Host : IF savedPkgs[h] = NoList THEN installed[h] = baseline[h]
                                             ELSE savedPkgs[h] = baseline[h]

\* The transaction to roll back to left the host with exactly the RPMs of the
\* saved list, even when the history was empty and two transactions had to be
\* made between the one and the other: "Yum state badly restored" is never the
\* fault of yum_save_state.
RollbackTargetIsSaved ==
    /\ \A h \in Host : savedTid[h] # 0 =>
         savedPkgs[h] # NoList /\ history[h][savedTid[h]] = savedPkgs[h]
    /\ pc = "verify" => installed[at] = savedPkgs[at]

\* "leaving packages in place for manual cleanup": an XFS or GlusterFS SR that
\* could not be destroyed keeps the RPMs it needs on its hosts, whatever package
\* or session runs afterwards.  Not so for LINSTOR, whose packages a later
\* session may remove: see LinstorNotInstalledBefore.
KeptForManualCleanup ==
    /\ "xfs" \in srs => "xfsprogs" \in installed[A2]
    /\ "glusterfs" \in srs => \A h \in Host : RpmsOf("glusterfs") \subseteq installed[h]

\* exec_on_hosts_on_error_rollback: when the failure of one command of the
\* setup of one host is all that went wrong, no host keeps a trace of it.
RollbackLeavesNoHostBehind ==
    [][pc = "rollback" /\ pc' = "teardown" /\ faults <= 1 => altered' \subseteq inherited]_vars

\* A session in which no command failed leaves the pool as it found it.
NoTraceWithoutFault ==
    pc = "idle" /\ faults = 0 =>
        /\ installed = baseline
        /\ \A h \in Host : savedPkgs[h] = NoList /\ savedTid[h] = 0
        /\ altered = {} /\ srs = {}

\* What stays on the hosts after a package has a reason: an SR that needs it,
\* or a failure, and not the one that a rollback has made up for.
TracesHaveAReason ==
    [](KeptForManualCleanup /\ NoTraceWithoutFault) /\ RollbackLeavesNoHostBehind

\* host.py: assert self.saved_packages_list is None, "There is already a saved
\* package list set".  The fixtures of a package do not save a host twice.
SaveFindsNothingSaved ==
    pc = "save" /\ at # NoHost /\ faults = 0 => savedPkgs[at] = NoList

\* pool.py: "If something fails: store the exception but still attempt the
\* function on the next hosts": one failing command in a teardown costs the
\* cleanup of one host.
OneFailureOneHost == pc = "idle" => Cardinality(altered) <= faults

\* linstor/conftest.py: "xcp-ng-linstor is already installed on host.  This
\* should not be the case", raised before anything is installed.
LinstorNotInstalledBefore ==
    pc = "install" /\ Rising = "linstor" /\ todo = Host =>
        \A h \in Host : "xcp-ng-linstor" \notin installed[h]

-----------------------------------------------------------------------------
\* The inductive invariant behind UnsavedIsPristine and RollbackTargetIsSaved

Savers == {"save_master", "save_pool", "xfsprogs"}
Installers == {"zfs", "ceph", "xfsprogs", "glusterfs", "moosefs", "linstor"}

IsSaved(h) == savedPkgs[h] # NoList

\* The last transaction left the RPMs there are.
HistoryInv ==
    \A h \in Host : IF history[h] = <<>> THEN "gpm-libs" \notin installed[h]
                                         ELSE history[h][Len(history[h])] = installed[h]

\* Which fixture a phase belongs to.
PhaseInv ==
    /\ pc = "idle" <=> pkg = "none"
    /\ pc = "idle" => depth = 0
    /\ pc \in {"setup", "save", "tid", "gpm", "install", "configure", "rollback", "create"} =>
         depth < Len(Fixtures[pkg])
    /\ pc \in {"save", "tid", "gpm"} => Rising \in Savers /\ todo \subseteq HostsOf(Rising)
    /\ pc = "install" => Rising \in Installers /\ todo \subseteq HostsOf(Rising)
    /\ pc = "configure" => Rising = "glusterfs"
    /\ pc = "rollback" => Rising \in {"glusterfs", "moosefs"}
    /\ pc = "create" => Rising = "sr"
    /\ pc \in {"restore", "verify", "forget", "disable", "unconfigure", "remove", "destroy"} =>
         depth > 0
    /\ pc \in {"restore", "verify"} => Falling \in Savers
    /\ pc = "remove" => Falling = "linstor"
    /\ pc \in {"disable", "unconfigure"} => Falling \in {"glusterfs", "moosefs"}
    /\ pc \in {"tid", "gpm", "configure", "verify"} => at # NoHost

\* The hosts on which a package saves the state before it installs anything,
\* and how many of its fixtures have yielded by then.
SavedHosts(p) == CASE p = "zfs" -> {Master} [] p = "xfs" -> {} [] OTHER -> Host
SaveDepth(p)  == IF p \in {"moosefs", "linstor", "moosefs_to_xfs"} THEN 1 ELSE 2

\* yum_save_state halfway, and hosts already saved.
SavingInv ==
    /\ pc = "tid" => savedPkgs[at] = installed[at]
    /\ pc = "gpm" => savedPkgs[at] = installed[at] \ {"gpm-libs"} /\ history[at] # <<>>
    /\ pc \in {"save", "tid", "gpm"} => \A h \in HostsOf(Rising) \ todo : IsSaved(h)
    /\ pc = "install" /\ Rising = "xfsprogs" => IsSaved(A2)
    /\ pc = "verify" => installed[at] = savedPkgs[at]

\* Until its yum state is restored a host on which a package installs is saved.
SaverInv ==
    pkg \notin {"none", "xfs"} /\ depth >= SaveDepth(pkg)
    /\ ~(depth = SaveDepth(pkg) /\ pc \in {"restore", "verify"}) =>
        \A h \in SavedHosts(pkg) : IsSaved(h)

\* hostA2_with_xfsprogs never yields on a pool whose state is saved.
MigrationInv ==
    pkg = "moosefs_to_xfs" =>
        /\ depth <= 2
        /\ depth = 2 => /\ pc \notin {"tid", "gpm", "install", "configure", "create"}
                        /\ pc = "save" => todo = {A2}

IInv == TypeOK /\ UnsavedIsPristine /\ RollbackTargetIsSaved
        /\ HistoryInv /\ PhaseInv /\ SavingInv /\ SaverInv /\ MigrationInv

=============================================================================
