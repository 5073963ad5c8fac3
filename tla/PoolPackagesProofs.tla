------------------------- MODULE PoolPackagesProofs -------------------------
(***************************************************************************)
(* Proofs about PoolPackages, for pools of any size, any choice of test    *)
(* packages, any number of sessions and any faults.                        *)
(***************************************************************************)
EXTENDS PoolPackages, TLAPS

\* The table of the fixtures, one line per package.
LEMMA FixtureTable ==
  ASSUME NEW p \in DOMAIN Fixtures
  PROVE  /\ p \in {"zfs", "cephfs", "xfs", "glusterfs", "moosefs", "linstor", "moosefs_to_xfs"}
         /\ Len(Fixtures[p]) \in 1..4
         /\ p = "zfs" => Len(Fixtures[p]) = 3 /\ Fixtures[p][1] = "absent"
              /\ Fixtures[p][2] = "save_master" /\ Fixtures[p][3] = "zfs"
         /\ p = "cephfs" => Len(Fixtures[p]) = 3 /\ Fixtures[p][1] = "absent"
              /\ Fixtures[p][2] = "save_pool" /\ Fixtures[p][3] = "ceph"
         /\ p = "xfs" => Len(Fixtures[p]) = 2 /\ Fixtures[p][1] = "xfsprogs"
              /\ Fixtures[p][2] = "sr"
         /\ p = "glusterfs" => Len(Fixtures[p]) = 4 /\ Fixtures[p][1] = "absent"
              /\ Fixtures[p][2] = "save_pool" /\ Fixtures[p][3] = "glusterfs"
              /\ Fixtures[p][4] = "sr"
         /\ p = "moosefs" => Len(Fixtures[p]) = 2 /\ Fixtures[p][1] = "save_pool"
              /\ Fixtures[p][2] = "moosefs"
         /\ p = "linstor" => Len(Fixtures[p]) = 3 /\ Fixtures[p][1] = "save_pool"
              /\ Fixtures[p][2] = "linstor" /\ Fixtures[p][3] = "sr"
         /\ p = "moosefs_to_xfs" => Len(Fixtures[p]) = 4 /\ Fixtures[p][1] = "save_pool"
              /\ Fixtures[p][2] = "moosefs" /\ Fixtures[p][3] = "xfsprogs"
              /\ Fixtures[p][4] = "sr"
  BY DEF Fixtures

\* What is set up when: packages are installed above the fixture that saves.
LEMMA RisingFacts ==
  ASSUME pkg \in DOMAIN Fixtures, depth \in Nat, depth < Len(Fixtures[pkg])
  PROVE  /\ Rising \in Savers \union Installers \union {"absent", "sr"}
         /\ Rising \in {"zfs", "ceph", "glusterfs", "moosefs", "linstor"} =>
              pkg # "xfs" /\ depth = SaveDepth(pkg) /\ HostsOf(Rising) \subseteq SavedHosts(pkg)
         /\ Rising \in {"save_master", "save_pool"} =>
              pkg # "xfs" /\ depth + 1 = SaveDepth(pkg) /\ HostsOf(Rising) = SavedHosts(pkg)
         /\ Rising = "xfsprogs" => (pkg = "xfs" /\ depth = 0) \/ (pkg = "moosefs_to_xfs" /\ depth = 2)
         /\ Rising = "absent" => depth = 0 /\ SaveDepth(pkg) = 2
         /\ Rising = "sr" => (pkg = "xfs" /\ depth = 1) \/ depth > SaveDepth(pkg)
         /\ pkg = "moosefs_to_xfs" => (depth = 3 <=> Rising = "sr") /\ (depth = 2 <=> Rising = "xfsprogs")
<1> USE DEF Rising, SaveDepth, HostsOf, SavedHosts, Savers, Installers
<1>1. depth \in {0, 1, 2, 3}
  <2> DEFINE L == Len(Fixtures[pkg])
  <2>1. L \in 1..4 /\ depth <= L /\ depth # L
    BY FixtureTable
  <2> HIDE DEF L
  <2> QED
    BY <2>1
<1>2. CASE pkg \in {"zfs", "cephfs"}
  BY <1>1, <1>2, FixtureTable
<1>3. CASE pkg \in {"xfs", "glusterfs"}
  BY <1>1, <1>3, FixtureTable
<1>4. CASE pkg \in {"moosefs", "linstor"}
  BY <1>1, <1>4, FixtureTable
<1>5. CASE pkg = "moosefs_to_xfs"
  BY <1>1, <1>5, FixtureTable
<1> QED
  BY <1>2, <1>3, <1>4, <1>5, FixtureTable

\* What is torn down when.
LEMMA FallingFacts ==
  ASSUME pkg \in DOMAIN Fixtures, depth \in Nat, depth > 0, depth <= Len(Fixtures[pkg])
  PROVE  /\ Falling \in Savers \union Installers \union {"absent", "sr"}
         /\ Falling \in {"zfs", "ceph", "glusterfs", "moosefs", "linstor"} =>
              pkg # "xfs" /\ depth = SaveDepth(pkg) + 1
         /\ Falling \in {"save_master", "save_pool"} => pkg # "xfs" /\ depth = SaveDepth(pkg)
         /\ Falling = "xfsprogs" => (pkg = "xfs" /\ depth = 1) \/ (pkg = "moosefs_to_xfs" /\ depth = 3)
         /\ Falling = "absent" => depth = 1 /\ SaveDepth(pkg) = 2
         /\ Falling = "sr" => (pkg = "xfs" /\ depth = 2) \/ depth > SaveDepth(pkg) + 1
         /\ Falling = "linstor" => SavedHosts(pkg) = Host
<1> USE DEF Falling, SaveDepth, SavedHosts, Savers, Installers
<1>1. depth \in {1, 2, 3, 4}
  <2> DEFINE L == Len(Fixtures[pkg])
  <2>1. L \in 1..4 /\ depth <= L 
    BY FixtureTable
  <2> HIDE DEF L
  <2> QED
    BY <2>1
<1>2. CASE pkg \in {"zfs", "cephfs"}
  BY <1>1, <1>2, FixtureTable
<1>3. CASE pkg \in {"xfs", "glusterfs"}
  BY <1>1, <1>3, FixtureTable
<1>4. CASE pkg \in {"moosefs", "linstor"}
  BY <1>1, <1>4, FixtureTable
<1>5. CASE pkg = "moosefs_to_xfs"
  BY <1>1, <1>5, FixtureTable
<1> QED
  BY <1>2, <1>3, <1>4, <1>5, FixtureTable

\* A saved list is a set of RPMs: it is not NoList.
LEMMA NoListIsNoRpms == \A s \in SUBSET Rpm : s # NoList
  BY DEF Rpm, NoList

USE HostAssumption, PackagesAssumption, BoundAssumption
USE DEF vars, hosts, memory, control, origin, bounds, Phase, Loops, Savers, Installers, IsSaved,
        Goto, Loop, HostDone, FixtureUp, FixtureDown, Raise
USE DEF IInv, TypeOK, UnsavedIsPristine, RollbackTargetIsSaved, HistoryInv, PhaseInv,
        SavingInv, SaverInv, MigrationInv

\* Every host starts unsaved, as it is.
LEMMA InitIInv == Init => IInv
<1> SUFFICES ASSUME Init PROVE IInv
  OBVIOUS
<1>1. \A h \in Host : /\ history[h] \in {<<>>, <<{}>>, <<{"gpm-libs"}>>}
                      /\ installed[h] = IF history[h] = <<>> THEN {} ELSE history[h][1]
  BY DEF Init
<1>2. history \in [Host -> Seq(SUBSET Rpm)]
  <2>1. {} \in SUBSET Rpm /\ {"gpm-libs"} \in SUBSET Rpm
    BY DEF Rpm
  <2>2. {<<>>, <<{}>>, <<{"gpm-libs"}>>} \subseteq Seq(SUBSET Rpm)
    BY <2>1
  <2> QED
    BY <2>2 DEF Init
<1>3. installed \in [Host -> SUBSET Rpm]
  <2>1. \A h \in Host : installed[h] \in SUBSET Rpm
    BY <1>1 DEF Rpm
  <2> QED
    BY <2>1 DEF Init
<1>4. HistoryInv
  BY <1>1
<1>5. TypeOK
  <2>1. \A h \in Host : savedTid[h] = 0 /\ Len(history[h]) \in Nat
    BY <1>2 DEF Init
  <2>2. savedPkgs \in [Host -> (SUBSET Rpm) \union {NoList}] /\ savedTid \in [Host -> Nat]
    BY DEF Init
  <2>3. baseline \in [Host -> SUBSET Rpm]
    BY <1>3 DEF Init
  <2>4. \A h \in Host : savedTid[h] <= Len(history[h])
    BY <2>1
  <2>5. altered = {} /\ srs = {} /\ inherited = {} /\ pkg = "none" /\ depth = 0 /\ pc = "idle"
        /\ todo = {} /\ at = NoHost /\ packages = 0 /\ faults = 0
    BY DEF Init
  <2>6. keep \in BOOLEAN /\ errors \in BOOLEAN
    BY DEF Init
  <2> QED
    BY <1>2, <1>3, <2>2, <2>3, <2>4, <2>5, <2>6
<1>6. UnsavedIsPristine /\ RollbackTargetIsSaved
  BY DEF Init
<1>7. PhaseInv /\ SavingInv /\ SaverInv /\ MigrationInv
  BY DEF Init
<1> QED
  BY <1>4, <1>5, <1>6, <1>7

\* A yum transaction adds at most one state to the history of one host, the
\* state it leaves the host in; the states before it remain what they were.
YumEffect(h, s) ==
    /\ installed' \in [Host -> SUBSET Rpm]
    /\ history' \in [Host -> Seq(SUBSET Rpm)]
    /\ installed'[h] = s
    /\ \A g \in Host : g # h => installed'[g] = installed[g] /\ history'[g] = history[g]
    /\ \A g \in Host : /\ Len(history[g]) <= Len(history'[g])
                       /\ history[g] # <<>> => history'[g] # <<>>
                       /\ \A i \in 1..Len(history[g]) : history'[g][i] = history[g][i]
    /\ s # installed[h] => history'[h] # <<>>
    /\ HistoryInv'

LEMMA YumStep ==
  ASSUME TypeOK, HistoryInv, NEW h \in Host, NEW s \in SUBSET Rpm, Yum(h, s),
         history[h] = <<>> /\ s = installed[h] => "gpm-libs" \notin s
  PROVE  YumEffect(h, s)
<1> USE DEF YumEffect
<1>1. CASE s = installed[h]
  <2>1. installed' = installed /\ history' = history
    BY <1>1 DEF Yum
  <2>2. HistoryInv'
    BY <2>1
  <2>3. \A g \in Host : Len(history[g]) \in Nat
    OBVIOUS
  <2> QED
    BY <1>1, <2>1, <2>2, <2>3
<1>2. CASE s # installed[h]
  <2>1. history' = [history EXCEPT ![h] = Append(history[h], s)]
        /\ installed' = [installed EXCEPT ![h] = s]
    BY <1>2 DEF Yum
  <2>2. history[h] \in Seq(SUBSET Rpm) /\ Append(history[h], s) \in Seq(SUBSET Rpm)
    OBVIOUS
  <2> DEFINE H == Append(history[h], s)
  <2>3. /\ Len(H) = Len(history[h]) + 1
        /\ Len(history[h]) \in Nat
        /\ \A i \in 1..Len(history[h]) : H[i] = history[h][i]
        /\ H[Len(history[h]) + 1] = s
        /\ H # <<>>
    <3>1. H \in Seq(SUBSET Rpm) /\ Len(history[h]) \in Nat /\ Len(H) = Len(history[h]) + 1
      BY <2>2
    <3>2. \A i \in 1..Len(history[h]) : H[i] = history[h][i]
      BY <2>2
    <3>3. H[Len(history[h]) + 1] = s
      BY <2>2
    <3>4. Len(H) # 0 /\ Len(<<>>) = 0
      BY <3>1
    <3>5. H # <<>>
      BY <3>4
    <3> QED
      BY <3>1, <3>2, <3>3, <3>5
  <2>4. \A g \in Host : g # h => history'[g] = history[g] /\ installed'[g] = installed[g]
    BY <2>1
  <2>5. history'[h] = H /\ installed'[h] = s
    BY <2>1
  <2>6. installed' \in [Host -> SUBSET Rpm] /\ history' \in [Host -> Seq(SUBSET Rpm)]
    <3> HIDE DEF H
    <3>1. H \in Seq(SUBSET Rpm) /\ history' = [history EXCEPT ![h] = H]
      BY <2>1, <2>2 DEF H
    <3> QED
      BY <2>1, <3>1
  <2> HIDE DEF H
  <2>7. HistoryInv'
    <3>1. history'[h] # <<>> /\ history'[h][Len(history'[h])] = installed'[h]
      BY <2>3, <2>5
    <3> QED
      BY <2>4, <3>1
  <2>8. \A g \in Host : /\ Len(history[g]) <= Len(history'[g])
                        /\ history[g] # <<>> => history'[g] # <<>>
                        /\ \A i \in 1..Len(history[g]) : history'[g][i] = history[g][i]
    <3> TAKE g \in Host
    <3>1. Len(history[g]) \in Nat
      OBVIOUS
    <3>2. CASE g = h
      BY <2>3, <2>5, <3>2
    <3>3. CASE g # h
      BY <2>4, <3>1, <3>3
    <3> QED
      BY <3>2, <3>3
  <2> QED
    BY <1>2, <2>3, <2>4, <2>5, <2>6, <2>7, <2>8
<1> QED
  BY <1>1, <1>2

USE DEF HostsOf, Rising, Falling, SavedHosts, SaveDepth

\* Steps that touch neither RPMs nor saved states leave their invariants alone.
LEMMA QuietStep ==
  ASSUME IInv, UNCHANGED <<installed, history, memory, origin>>
  PROVE  /\ UnsavedIsPristine' /\ HistoryInv'
         /\ \A h \in Host : savedTid'[h] # 0 =>
              savedPkgs'[h] # NoList /\ history'[h][savedTid'[h]] = savedPkgs'[h]
  OBVIOUS

\* A fixture checks the hosts and starts its first loop.
LEMMA BeginSetupStep == ASSUME IInv, BeginSetup PROVE IInv'
<1>0. pkg \in DOMAIN Fixtures /\ depth \in Nat /\ depth < Len(Fixtures[pkg])
  BY DEF BeginSetup
<1>1. TypeOK'
  <2>1. keep' \in BOOLEAN /\ errors' \in BOOLEAN
    BY Zenon DEF BeginSetup
  <2>2. pc' \in Phase /\ todo' \subseteq Host /\ at' \in todo' \union {NoHost}
    BY <1>0, RisingFacts DEF BeginSetup
  <2>3. depth' \in Nat /\ pkg' = pkg /\ depth' <= Len(Fixtures[pkg'])
    BY <1>0, RisingFacts DEF BeginSetup
  <2> QED
    BY <1>0, <2>1, <2>2, <2>3 DEF BeginSetup
<1>2. PhaseInv'
  BY SMTT(30), <1>0, RisingFacts DEF BeginSetup
<1>3. SavingInv'
  BY <1>0, RisingFacts DEF BeginSetup
<1>4. SaverInv' /\ MigrationInv'
  BY SMTT(30), <1>0, RisingFacts DEF BeginSetup
<1> QED
  BY <1>1, <1>2, <1>3, <1>4, QuietStep DEF BeginSetup

\* The assertion of yum_save_state fails.
LEMMA SaveRefusedStep == ASSUME IInv, SaveRefused PROVE IInv'
<1>0. pkg \in DOMAIN Fixtures /\ depth \in Nat /\ depth < Len(Fixtures[pkg])
  BY DEF SaveRefused
<1>1. TypeOK'
  <2>1. keep' \in BOOLEAN /\ errors' \in BOOLEAN
    BY Zenon DEF SaveRefused
  <2>2. pc' \in Phase /\ todo' \subseteq Host /\ at' \in todo' \union {NoHost}
    BY <1>0, RisingFacts DEF SaveRefused
  <2>3. depth' \in Nat /\ pkg' = pkg /\ depth' <= Len(Fixtures[pkg'])
    BY <1>0, RisingFacts DEF SaveRefused
  <2> QED
    BY <1>0, <2>1, <2>2, <2>3 DEF SaveRefused
<1>2. PhaseInv'
  BY <1>0, RisingFacts DEF SaveRefused
<1>3. SavingInv'
  BY <1>0, RisingFacts DEF SaveRefused
<1>4. SaverInv' /\ MigrationInv'
  BY <1>0, RisingFacts DEF SaveRefused
<1> QED
  BY <1>1, <1>2, <1>3, <1>4, QuietStep DEF SaveRefused

\* The assertion of install_moosefs fails.
LEMMA InstallRefusedStep == ASSUME IInv, InstallRefused PROVE IInv'
<1>0. pkg \in DOMAIN Fixtures /\ depth \in Nat /\ depth < Len(Fixtures[pkg])
  BY DEF InstallRefused, RollbackHosts
<1>1. TypeOK'
  <2>1. keep' \in BOOLEAN /\ errors' \in BOOLEAN
    BY Zenon DEF InstallRefused, RollbackHosts
  <2>2. pc' \in Phase /\ todo' \subseteq Host /\ at' \in todo' \union {NoHost}
    BY <1>0, RisingFacts DEF InstallRefused, RollbackHosts
  <2>3. depth' \in Nat /\ pkg' = pkg /\ depth' <= Len(Fixtures[pkg'])
    BY <1>0, RisingFacts DEF InstallRefused, RollbackHosts
  <2> QED
    BY <1>0, <2>1, <2>2, <2>3 DEF InstallRefused, RollbackHosts
<1>2. PhaseInv'
  BY <1>0, RisingFacts DEF InstallRefused, RollbackHosts
<1>3. SavingInv'
  BY <1>0, RisingFacts DEF InstallRefused, RollbackHosts
<1>4. SaverInv' /\ MigrationInv'
  BY <1>0, RisingFacts DEF InstallRefused, RollbackHosts
<1> QED
  BY <1>1, <1>2, <1>3, <1>4, QuietStep DEF InstallRefused, RollbackHosts

\* A fixture has seen to all its hosts: it yields, or goes on to install.
LEMMA SetupLoopDoneStep == ASSUME IInv, SetupLoopDone PROVE IInv'
<1>0. pkg \in DOMAIN Fixtures /\ depth \in Nat /\ depth < Len(Fixtures[pkg])
  BY DEF SetupLoopDone
<1>1. TypeOK'
  <2>1. keep' \in BOOLEAN /\ errors' \in BOOLEAN
    BY Zenon DEF SetupLoopDone
  <2>2. pc' \in Phase /\ todo' \subseteq Host /\ at' \in todo' \union {NoHost}
    BY <1>0, RisingFacts DEF SetupLoopDone
  <2>3. depth' \in Nat /\ pkg' = pkg /\ depth' <= Len(Fixtures[pkg'])
    BY <1>0, RisingFacts DEF SetupLoopDone
  <2> QED
    BY <1>0, <2>1, <2>2, <2>3 DEF SetupLoopDone
<1>2. PhaseInv'
  BY SMTT(30), <1>0, RisingFacts DEF SetupLoopDone
<1>3. SavingInv'
  BY <1>0, RisingFacts DEF SetupLoopDone
<1>4. SaverInv' /\ MigrationInv'
  BY SMTT(30), <1>0, RisingFacts DEF SetupLoopDone
<1> QED
  BY <1>1, <1>2, <1>3, <1>4, QuietStep DEF SetupLoopDone

\* A host whose setup failed, or one set up before it, is rolled back.
LEMMA RollbackStep == ASSUME IInv, Rollback PROVE IInv'
<1>0. pkg \in DOMAIN Fixtures /\ depth \in Nat /\ depth < Len(Fixtures[pkg])
  BY DEF Rollback
<1>1. TypeOK'
  <2>1. keep' \in BOOLEAN /\ errors' \in BOOLEAN
    BY Zenon DEF Rollback
  <2>2. pc' \in Phase /\ todo' \subseteq Host /\ at' \in todo' \union {NoHost}
    BY <1>0, RisingFacts DEF Rollback
  <2>3. depth' \in Nat /\ pkg' = pkg /\ depth' <= Len(Fixtures[pkg'])
    BY <1>0, RisingFacts DEF Rollback
  <2> QED
    BY <1>0, <2>1, <2>2, <2>3 DEF Rollback
<1>2. PhaseInv'
  BY <1>0, RisingFacts DEF Rollback
<1>3. SavingInv'
  BY <1>0, RisingFacts DEF Rollback
<1>4. SaverInv' /\ MigrationInv'
  BY <1>0, RisingFacts DEF Rollback
<1> QED
  BY <1>1, <1>2, <1>3, <1>4, QuietStep DEF Rollback

\* The configuration of a host is changed.
LEMMA ConfigureStep == ASSUME IInv, Configure PROVE IInv'
<1>0. pkg \in DOMAIN Fixtures /\ depth \in Nat /\ depth < Len(Fixtures[pkg])
  BY DEF Configure
<1>1. TypeOK'
  <2>1. keep' \in BOOLEAN /\ errors' \in BOOLEAN
    BY Zenon DEF Configure
  <2>2. pc' \in Phase /\ todo' \subseteq Host /\ at' \in todo' \union {NoHost}
    BY <1>0, RisingFacts DEF Configure
  <2>3. depth' \in Nat /\ pkg' = pkg /\ depth' <= Len(Fixtures[pkg'])
    BY <1>0, RisingFacts DEF Configure
  <2>4. altered' \subseteq {"glusterfs", "moosefs"} \X Host
    BY SMTT(30), <1>0 DEF Configure
  <2> QED
    BY <1>0, <2>1, <2>2, <2>3, <2>4 DEF Configure
<1>2. PhaseInv'
  BY <1>0, RisingFacts DEF Configure
<1>3. SavingInv'
  BY <1>0, RisingFacts DEF Configure
<1>4. SaverInv' /\ MigrationInv'
  BY <1>0, RisingFacts DEF Configure
<1> QED
  BY <1>1, <1>2, <1>3, <1>4, QuietStep DEF Configure

\* The SR is created, or cannot be.
LEMMA CreateSrStep == ASSUME IInv, CreateSr PROVE IInv'
<1>0. pkg \in DOMAIN Fixtures /\ depth \in Nat /\ depth < Len(Fixtures[pkg])
  BY DEF CreateSr
<1>1. TypeOK'
  <2>1. keep' \in BOOLEAN /\ errors' \in BOOLEAN
    BY Zenon DEF CreateSr
  <2>2. pc' \in Phase /\ todo' \subseteq Host /\ at' \in todo' \union {NoHost}
    BY <1>0, RisingFacts DEF CreateSr
  <2>3. depth' \in Nat /\ pkg' = pkg /\ depth' <= Len(Fixtures[pkg'])
    BY SMTT(30), <1>0, RisingFacts DEF CreateSr
  <2> QED
    BY SMTT(30), <1>0, <2>1, <2>2, <2>3 DEF CreateSr
<1>2. PhaseInv'
  <2>1. Len(Fixtures[pkg]) \in Nat
    BY <1>0, FixtureTable
  <2>2. pkg' = pkg /\ pkg # "none" /\ pc' \in {"setup", "test", "teardown"}
    BY <1>0 DEF CreateSr
  <2>3. pc' = "setup" => depth' < Len(Fixtures[pkg])
    BY <1>0, <2>1 DEF CreateSr
  <2> QED
    BY <2>2, <2>3
<1>3. SavingInv'
  BY <1>0, RisingFacts DEF CreateSr
<1>4. SaverInv' /\ MigrationInv'
  BY <1>0, RisingFacts DEF CreateSr
<1> QED
  BY <1>1, <1>2, <1>3, <1>4, QuietStep DEF CreateSr

\* The service of glusterfs is disabled.
LEMMA DisableStep == ASSUME IInv, Disable PROVE IInv'
<1>0. pkg \in DOMAIN Fixtures /\ depth \in Nat /\ depth > 0 /\ depth <= Len(Fixtures[pkg])
  BY DEF Disable
<1>1. TypeOK'
  <2>1. keep' \in BOOLEAN /\ errors' \in BOOLEAN
    BY Zenon DEF Disable
  <2>2. pc' \in Phase /\ todo' \subseteq Host /\ at' \in todo' \union {NoHost}
    BY <1>0, FallingFacts DEF Disable
  <2>3. depth' \in Nat /\ pkg' = pkg /\ depth' <= Len(Fixtures[pkg'])
    BY <1>0, FallingFacts DEF Disable
  <2> QED
    BY <1>0, <2>1, <2>2, <2>3 DEF Disable
<1>2. PhaseInv'
  BY <1>0, FallingFacts DEF Disable
<1>3. SavingInv'
  BY <1>0, FallingFacts DEF Disable
<1>4. SaverInv'
  BY <1>0, FallingFacts DEF Disable
<1>5. MigrationInv'
  BY <1>0, FallingFacts DEF Disable
<1> QED
  BY <1>1, <1>2, <1>3, <1>4, <1>5, QuietStep DEF Disable

\* The configuration of a host is changed back.
LEMMA UnconfigureStep == ASSUME IInv, Unconfigure PROVE IInv'
<1>0. pkg \in DOMAIN Fixtures /\ depth \in Nat /\ depth > 0 /\ depth <= Len(Fixtures[pkg])
  BY DEF Unconfigure
<1>1. TypeOK'
  <2>1. keep' \in BOOLEAN /\ errors' \in BOOLEAN
    BY Zenon DEF Unconfigure
  <2>2. pc' \in Phase /\ todo' \subseteq Host /\ at' \in todo' \union {NoHost}
    BY <1>0, FallingFacts DEF Unconfigure
  <2>3. depth' \in Nat /\ pkg' = pkg /\ depth' <= Len(Fixtures[pkg'])
    BY <1>0, FallingFacts DEF Unconfigure
  <2> QED
    BY <1>0, <2>1, <2>2, <2>3 DEF Unconfigure
<1>2. PhaseInv'
  BY <1>0, FallingFacts DEF Unconfigure
<1>3. SavingInv'
  BY <1>0, FallingFacts DEF Unconfigure
<1>4. SaverInv'
  BY <1>0, FallingFacts DEF Unconfigure
<1>5. MigrationInv'
  BY <1>0, FallingFacts DEF Unconfigure
<1> QED
  BY <1>1, <1>2, <1>3, <1>4, <1>5, QuietStep DEF Unconfigure

\* A fixture that yielded starts its teardown.
LEMMA BeginTeardownStep == ASSUME IInv, BeginTeardown PROVE IInv'
<1>0. pkg \in DOMAIN Fixtures /\ depth \in Nat /\ depth > 0 /\ depth <= Len(Fixtures[pkg])
      /\ pc = "teardown" /\ UNCHANGED <<hosts, memory, origin, bounds>>
  BY DEF BeginTeardown
<1>1. \/ /\ Falling \in Savers /\ Loop("restore", HostsOf(Falling))
      \/ /\ Falling \in {"glusterfs", "linstor"} /\ Loop("forget", Host)
      \/ /\ Falling = "glusterfs" /\ Loop("disable", Host)
      \/ /\ Falling = "moosefs" /\ Loop("unconfigure", Host)
      \/ /\ Falling = "linstor" /\ Loop("remove", Host)
      \/ /\ Falling \in {"absent", "zfs", "ceph", "xfsprogs"} /\ FixtureDown
      \/ /\ Falling = "sr" /\ Goto("destroy")
  <2> HIDE DEF Loop, FixtureDown, Goto, Falling
  <2>1. Falling \in Savers \union Installers \union {"absent", "sr"}
    BY <1>0, FallingFacts
  <2> QED
    BY <2>1 DEF BeginTeardown
<1>2. TypeOK'
  <2>1. keep' \in BOOLEAN /\ errors' \in BOOLEAN
    <3> HIDE DEF Falling
    <3> QED
      BY Zenon, <1>1
  <2>2. pc' \in Phase /\ todo' \subseteq Host /\ at' \in todo' \union {NoHost}
    BY <1>0, <1>1
  <2>3. depth' \in Nat /\ pkg' = pkg /\ depth' <= Len(Fixtures[pkg'])
    <3>1. Len(Fixtures[pkg]) \in Nat
      BY <1>0, FixtureTable
    <3> QED
      BY <1>0, <1>1, <3>1
  <2> QED
    BY <1>0, <2>1, <2>2, <2>3
<1>3. PhaseInv'
  BY <1>0, <1>1
<1>4. SavingInv'
  BY <1>0, <1>1
<1>5. SaverInv'
  BY <1>0, <1>1, FallingFacts
<1>6. MigrationInv'
  BY SMTT(30), <1>0, <1>1
<1> QED
  BY <1>0, <1>2, <1>3, <1>4, <1>5, <1>6, QuietStep

\* The SR is destroyed.
LEMMA DestroySrStep == ASSUME IInv, DestroySr PROVE IInv'
<1>0. pkg \in DOMAIN Fixtures /\ depth \in Nat /\ depth > 0 /\ depth <= Len(Fixtures[pkg])
  BY DEF DestroySr
<1>1. TypeOK'
  <2>1. keep' \in BOOLEAN /\ errors' \in BOOLEAN
    BY Zenon DEF DestroySr
  <2>2. pc' \in Phase /\ todo' \subseteq Host /\ at' \in todo' \union {NoHost}
    BY <1>0, FallingFacts DEF DestroySr
  <2>3. depth' \in Nat /\ pkg' = pkg /\ depth' <= Len(Fixtures[pkg'])
    BY SMTT(30), <1>0, FallingFacts DEF DestroySr
  <2> QED
    BY <1>0, <2>1, <2>2, <2>3 DEF DestroySr
<1>2. PhaseInv'
  BY <1>0, FallingFacts DEF DestroySr
<1>3. SavingInv'
  BY <1>0, FallingFacts DEF DestroySr
<1>4. SaverInv'
  BY SMTT(30), <1>0, FallingFacts DEF DestroySr
<1>5. MigrationInv'
  BY <1>0, FallingFacts DEF DestroySr
<1> QED
  BY <1>1, <1>2, <1>3, <1>4, <1>5, QuietStep DEF DestroySr

\* The SR is left where it is.
LEMMA DestroySrFailsStep == ASSUME IInv, DestroySrFails PROVE IInv'
<1>0. pkg \in DOMAIN Fixtures /\ depth \in Nat /\ depth > 0 /\ depth <= Len(Fixtures[pkg])
  BY DEF DestroySrFails
<1>1. TypeOK'
  <2>1. keep' \in BOOLEAN /\ errors' \in BOOLEAN
    BY Zenon DEF DestroySrFails
  <2>2. pc' \in Phase /\ todo' \subseteq Host /\ at' \in todo' \union {NoHost}
    BY <1>0, FallingFacts DEF DestroySrFails
  <2>3. depth' \in Nat /\ pkg' = pkg /\ depth' <= Len(Fixtures[pkg'])
    BY SMTT(30), <1>0, FallingFacts DEF DestroySrFails
  <2>4. faults' \in Nat /\ packages' \in Nat /\ UNCHANGED <<hosts, memory, origin>>
    <3>1. faults' = faults + 1 /\ UNCHANGED <<hosts, memory, origin, packages>>
      BY Zenon DEF DestroySrFails
    <3> QED
      BY <3>1
  <2> QED
    BY <1>0, <2>1, <2>2, <2>3, <2>4
<1>2. PhaseInv'
  BY <1>0, FallingFacts DEF DestroySrFails
<1>3. SavingInv'
  BY <1>0, FallingFacts DEF DestroySrFails
<1>4. SaverInv'
  BY SMTT(30), <1>0, FallingFacts DEF DestroySrFails
<1>5. MigrationInv'
  BY <1>0, FallingFacts DEF DestroySrFails
<1> QED
  BY <1>1, <1>2, <1>3, <1>4, <1>5, QuietStep DEF DestroySrFails

\* An assertion of yum_restore_saved_state fails.
LEMMA RestoreRefusedStep == ASSUME IInv, RestoreRefused PROVE IInv'
<1>0. pkg \in DOMAIN Fixtures /\ depth \in Nat /\ depth > 0 /\ depth <= Len(Fixtures[pkg])
  BY DEF RestoreRefused
<1>1. TypeOK'
  <2>1. keep' \in BOOLEAN /\ errors' \in BOOLEAN
    BY Zenon DEF RestoreRefused
  <2>2. pc' \in Phase /\ todo' \subseteq Host /\ at' \in todo' \union {NoHost}
    BY <1>0, FallingFacts DEF RestoreRefused
  <2>3. depth' \in Nat /\ pkg' = pkg /\ depth' <= Len(Fixtures[pkg'])
    BY <1>0, FallingFacts DEF RestoreRefused
  <2> QED
    BY <1>0, <2>1, <2>2, <2>3 DEF RestoreRefused
<1>2. PhaseInv'
  BY <1>0, FallingFacts DEF RestoreRefused
<1>3. SavingInv'
  BY <1>0, FallingFacts DEF RestoreRefused
<1>4. SaverInv'
  BY <1>0, FallingFacts DEF RestoreRefused
<1>5. MigrationInv'
  BY <1>0, FallingFacts DEF RestoreRefused
<1> QED
  BY <1>1, <1>2, <1>3, <1>4, <1>5, QuietStep DEF RestoreRefused

\* A fixture has cleaned all its hosts.
LEMMA TeardownLoopDoneStep == ASSUME IInv, TeardownLoopDone PROVE IInv'
<1>0. pkg \in DOMAIN Fixtures /\ depth \in Nat /\ depth > 0 /\ depth <= Len(Fixtures[pkg])
  BY DEF TeardownLoopDone
<1>1. TypeOK'
  <2>1. keep' \in BOOLEAN /\ errors' \in BOOLEAN
    BY Zenon DEF TeardownLoopDone
  <2>2. pc' \in Phase /\ todo' \subseteq Host /\ at' \in todo' \union {NoHost}
    BY <1>0, FallingFacts DEF TeardownLoopDone
  <2>3. depth' \in Nat /\ pkg' = pkg /\ depth' <= Len(Fixtures[pkg'])
    BY <1>0, FallingFacts DEF TeardownLoopDone
  <2> QED
    BY <1>0, <2>1, <2>2, <2>3 DEF TeardownLoopDone
<1>2. PhaseInv'
  BY <1>0, FallingFacts DEF TeardownLoopDone
<1>3. SavingInv'
  BY <1>0, FallingFacts DEF TeardownLoopDone
<1>4. SaverInv'
  BY SMTT(30), <1>0, FallingFacts DEF TeardownLoopDone
<1>5. MigrationInv'
  BY <1>0, FallingFacts DEF TeardownLoopDone
<1> QED
  BY <1>1, <1>2, <1>3, <1>4, <1>5, QuietStep DEF TeardownLoopDone

\* The saved states of all hosts but one are those of before, and so are RPMs.
DataInv ==
    /\ UnsavedIsPristine /\ HistoryInv
    /\ \A g \in Host : savedTid[g] # 0 =>
         savedPkgs[g] # NoList /\ history[g][savedTid[g]] = savedPkgs[g]
    /\ \A g \in Host : savedTid[g] <= Len(history[g])
    /\ installed \in [Host -> SUBSET Rpm] /\ history \in [Host -> Seq(SUBSET Rpm)]

\* A yum transaction on a saved host, that moves neither what is saved nor the baseline.
YumOnSaved(h, s) ==
    /\ IInv /\ Yum(h, s) /\ IsSaved(h)
    /\ history[h] = <<>> /\ s = installed[h] => "gpm-libs" \notin s
    /\ UNCHANGED <<memory, origin>>

LEMMA MemoryKept ==
  ASSUME NEW h \in Host, NEW s \in SUBSET Rpm, YumOnSaved(h, s)
  PROVE  DataInv'
<1>1. /\ TypeOK /\ HistoryInv /\ UnsavedIsPristine /\ RollbackTargetIsSaved
      /\ Yum(h, s) /\ IsSaved(h)
      /\ history[h] = <<>> /\ s = installed[h] => "gpm-libs" \notin s
      /\ UNCHANGED <<memory, origin>>
  BY DEF YumOnSaved
<1> HIDE DEF IInv, PhaseInv, SavingInv, SaverInv, MigrationInv, UnsavedIsPristine, HistoryInv,
             RollbackTargetIsSaved, TypeOK, Phase, Loops
<1>2. YumEffect(h, s)
  BY <1>1, YumStep
<1>a. /\ \A g \in Host : Len(history[g]) <= Len(history'[g])
      /\ \A g \in Host : \A i \in 1..Len(history[g]) : history'[g][i] = history[g][i]
  BY Zenon, <1>2 DEF YumEffect
<1> USE DEF YumEffect
<1>3. UnsavedIsPristine'
  BY <1>1, <1>2 DEF UnsavedIsPristine, TypeOK
<1>4. \A g \in Host : /\ Len(history[g]) \in Nat /\ Len(history'[g]) \in Nat
                      /\ savedTid[g] \in Nat /\ savedTid[g] <= Len(history[g])
                      /\ Len(history[g]) <= Len(history'[g])
  <2>1. \A g \in Host : history[g] \in Seq(SUBSET Rpm) /\ history'[g] \in Seq(SUBSET Rpm)
    BY <1>1, <1>2 DEF TypeOK
  <2>2. \A g \in Host : Len(history[g]) \in Nat /\ Len(history'[g]) \in Nat
    BY <2>1
  <2>3. \A g \in Host : savedTid[g] \in Nat /\ savedTid[g] <= Len(history[g])
    BY <1>1 DEF TypeOK
  <2> QED
    BY Zenon, <1>a, <2>2, <2>3
<1>5. \A g \in Host : savedTid'[g] # 0 =>
        savedPkgs'[g] # NoList /\ history'[g][savedTid'[g]] = savedPkgs'[g]
  <2>1. \A g \in Host : savedTid[g] # 0 => /\ savedTid[g] \in 1..Len(history[g])
                                           /\ savedPkgs[g] # NoList
                                           /\ history[g][savedTid[g]] = savedPkgs[g]
    BY <1>1, <1>4 DEF RollbackTargetIsSaved
  <2>2. savedTid' = savedTid /\ savedPkgs' = savedPkgs
    BY <1>1
  <2> QED
    BY <1>a, <2>1, <2>2
<1>6. \A g \in Host : savedTid'[g] <= Len(history'[g])
  BY <1>1, <1>4
<1> QED
  BY <1>2, <1>3, <1>5, <1>6 DEF DataInv

\* The first of the two transactions that give a host a history.
LEMMA GpmInstallStep == ASSUME IInv, GpmInstall PROVE IInv'
<1> DEFINE s == installed[at] \union {"gpm-libs"}
<1>0. /\ pkg \in DOMAIN Fixtures /\ depth \in Nat /\ depth < Len(Fixtures[pkg])
      /\ at \in Host /\ at \in todo /\ Yum(at, s) /\ UNCHANGED <<memory, origin, bounds>>
      /\ savedPkgs' = savedPkgs /\ savedTid' = savedTid /\ baseline' = baseline
  BY DEF GpmInstall
<1>1. s \in SUBSET Rpm
  BY <1>0 DEF Rpm, RpmsOf, GpmInstall
<1>2. IsSaved(at)
  BY <1>0, RisingFacts, NoListIsNoRpms DEF GpmInstall
<1>3. history[at] = <<>> /\ s = installed[at] => "gpm-libs" \notin s
  BY <1>0
<1>4. DataInv'
  <2>1. YumOnSaved(at, s)
    BY <1>0, <1>2, <1>3 DEF YumOnSaved
  <2> HIDE DEF s, YumOnSaved, DataInv
  <2> QED
    BY <1>0, <1>1, <2>1, MemoryKept
<1>5. installed'[at] = s /\ altered' = altered /\ srs' = srs
      /\ (s # installed[at] \/ history[at] # <<>> => history'[at] # <<>>)
  <2> HIDE DEF s, IInv
  <2>1. TypeOK /\ HistoryInv
    BY DEF IInv
  <2> HIDE DEF TypeOK, HistoryInv
  <2>2. YumEffect(at, s)
    BY <1>0, <1>1, <1>3, <2>1, YumStep
  <2> QED
    BY <1>0, <2>2 DEF YumEffect, Yum
<1> HIDE DEF s
<1>6. TypeOK'
  <2>1. keep' \in BOOLEAN /\ errors' \in BOOLEAN
    BY Zenon DEF GpmInstall
  <2>2. pc' \in Phase /\ todo' \subseteq Host /\ at' \in todo' \union {NoHost}
        /\ depth' = depth /\ pkg' = pkg
    BY <1>0 DEF GpmInstall
  <2> QED
    BY <1>0, <1>4, <1>5, <2>1, <2>2 DEF DataInv
<1>7. PhaseInv'
  BY <1>0, RisingFacts DEF GpmInstall
<1>8. SavingInv'
  BY <1>0, <1>2, <1>5, RisingFacts DEF GpmInstall, s
<1>9. SaverInv' /\ MigrationInv'
  BY <1>0, RisingFacts DEF GpmInstall
<1>10. RollbackTargetIsSaved'
  BY <1>0, <1>4, <1>8 DEF DataInv, GpmInstall
<1> QED
  BY <1>4, <1>6, <1>7, <1>8, <1>9, <1>10 DEF DataInv

\* The second one: the RPMs are those of the saved list again.
LEMMA GpmRemoveStep == ASSUME IInv, GpmRemove PROVE IInv'
<1> DEFINE s == installed[at] \ {"gpm-libs"}
<1>0. /\ pkg \in DOMAIN Fixtures /\ depth \in Nat /\ depth < Len(Fixtures[pkg])
      /\ at \in Host /\ at \in todo /\ Yum(at, s) /\ UNCHANGED <<memory, origin, bounds>>
      /\ savedPkgs' = savedPkgs /\ savedTid' = savedTid /\ baseline' = baseline
  BY DEF GpmRemove
<1>1. s \in SUBSET Rpm
  BY <1>0 DEF Rpm, RpmsOf, GpmRemove
<1>2. IsSaved(at)
  BY <1>0, RisingFacts, NoListIsNoRpms DEF GpmRemove
<1>3. history[at] = <<>> /\ s = installed[at] => "gpm-libs" \notin s
  BY <1>0
<1>4. DataInv'
  <2>1. YumOnSaved(at, s)
    BY <1>0, <1>2, <1>3 DEF YumOnSaved
  <2> HIDE DEF s, YumOnSaved, DataInv
  <2> QED
    BY <1>0, <1>1, <2>1, MemoryKept
<1>5. installed'[at] = s /\ altered' = altered /\ srs' = srs
      /\ (s # installed[at] \/ history[at] # <<>> => history'[at] # <<>>)
  <2> HIDE DEF s, IInv
  <2>1. TypeOK /\ HistoryInv
    BY DEF IInv
  <2> HIDE DEF TypeOK, HistoryInv
  <2>2. YumEffect(at, s)
    BY <1>0, <1>1, <1>3, <2>1, YumStep
  <2> QED
    BY <1>0, <2>2 DEF YumEffect, Yum
<1> HIDE DEF s
<1>6. TypeOK'
  <2>1. keep' \in BOOLEAN /\ errors' \in BOOLEAN
    BY Zenon DEF GpmRemove
  <2>2. pc' \in Phase /\ todo' \subseteq Host /\ at' \in todo' \union {NoHost}
        /\ depth' = depth /\ pkg' = pkg
    BY <1>0 DEF GpmRemove
  <2> QED
    BY <1>0, <1>4, <1>5, <2>1, <2>2 DEF DataInv
<1>7. PhaseInv'
  BY <1>0, RisingFacts DEF GpmRemove
<1>8. SavingInv'
  BY <1>0, <1>2, <1>5, RisingFacts DEF GpmRemove, s
<1>9. SaverInv' /\ MigrationInv'
  BY <1>0, RisingFacts DEF GpmRemove
<1>10. RollbackTargetIsSaved'
  BY <1>0, <1>4, <1>8 DEF DataInv, GpmRemove
<1> QED
  BY <1>4, <1>6, <1>7, <1>8, <1>9, <1>10 DEF DataInv

\* A fixture installs its packages on a host that is saved.
LEMMA InstallStep == ASSUME IInv, Install PROVE IInv'
<1> DEFINE s == installed[at] \union RpmsOf(Rising)
<1>0. /\ pkg \in DOMAIN Fixtures /\ depth \in Nat /\ depth < Len(Fixtures[pkg])
      /\ at \in Host /\ at \in todo /\ Yum(at, s) /\ UNCHANGED <<memory, origin, bounds>>
      /\ savedPkgs' = savedPkgs /\ savedTid' = savedTid /\ baseline' = baseline
  BY DEF Install
<1>1. s \in SUBSET Rpm
  BY <1>0 DEF Rpm, RpmsOf, Install
<1>2. IsSaved(at)
  BY <1>0, RisingFacts, NoListIsNoRpms DEF Install
<1>3. history[at] = <<>> /\ s = installed[at] => "gpm-libs" \notin s
  BY <1>0
<1>4. DataInv'
  <2>1. YumOnSaved(at, s)
    BY <1>0, <1>2, <1>3 DEF YumOnSaved
  <2> HIDE DEF s, YumOnSaved, DataInv
  <2> QED
    BY <1>0, <1>1, <2>1, MemoryKept
<1>5. installed'[at] = s /\ altered' = altered /\ srs' = srs
      /\ (s # installed[at] \/ history[at] # <<>> => history'[at] # <<>>)
  <2> HIDE DEF s, IInv
  <2>1. TypeOK /\ HistoryInv
    BY DEF IInv
  <2> HIDE DEF TypeOK, HistoryInv
  <2>2. YumEffect(at, s)
    BY <1>0, <1>1, <1>3, <2>1, YumStep
  <2> QED
    BY <1>0, <2>2 DEF YumEffect, Yum
<1> HIDE DEF s
<1>6. TypeOK'
  <2>1. keep' \in BOOLEAN /\ errors' \in BOOLEAN
    BY Zenon DEF Install
  <2>2. pc' \in Phase /\ todo' \subseteq Host /\ at' \in todo' \union {NoHost}
        /\ depth' = depth /\ pkg' = pkg
    BY <1>0 DEF Install
  <2> QED
    BY <1>0, <1>4, <1>5, <2>1, <2>2 DEF DataInv
<1>7. PhaseInv'
  BY <1>0, RisingFacts DEF Install
<1>8. SavingInv'
  BY <1>0, <1>2, <1>5, RisingFacts DEF Install, s
<1>9. SaverInv' /\ MigrationInv'
  BY SMTT(30), <1>0, RisingFacts DEF Install
<1>10. RollbackTargetIsSaved'
  BY <1>0, <1>4, <1>8 DEF DataInv, Install
<1> QED
  BY <1>4, <1>6, <1>7, <1>8, <1>9, <1>10 DEF DataInv

\* linstor removes its packages from a host that is still saved.
LEMMA RemoveStep == ASSUME IInv, Remove PROVE IInv'
<1> DEFINE s == installed[at] \ {"xcp-ng-linstor"}
<1>0. /\ pkg \in DOMAIN Fixtures /\ depth \in Nat /\ depth > 0 /\ depth <= Len(Fixtures[pkg])
      /\ at \in Host /\ at \in todo /\ Yum(at, s) /\ UNCHANGED <<memory, origin, bounds>>
      /\ savedPkgs' = savedPkgs /\ savedTid' = savedTid /\ baseline' = baseline
  BY DEF Remove
<1>1. s \in SUBSET Rpm
  BY <1>0 DEF Rpm, RpmsOf, Remove
<1>2. IsSaved(at)
  BY <1>0, FallingFacts, NoListIsNoRpms DEF Remove
<1>3. history[at] = <<>> /\ s = installed[at] => "gpm-libs" \notin s
  BY <1>0
<1>4. DataInv'
  <2>1. YumOnSaved(at, s)
    BY <1>0, <1>2, <1>3 DEF YumOnSaved
  <2> HIDE DEF s, YumOnSaved, DataInv
  <2> QED
    BY <1>0, <1>1, <2>1, MemoryKept
<1>5. installed'[at] = s /\ altered' = altered /\ srs' = srs
      /\ (s # installed[at] \/ history[at] # <<>> => history'[at] # <<>>)
  <2> HIDE DEF s, IInv
  <2>1. TypeOK /\ HistoryInv
    BY DEF IInv
  <2> HIDE DEF TypeOK, HistoryInv
  <2>2. YumEffect(at, s)
    BY <1>0, <1>1, <1>3, <2>1, YumStep
  <2> QED
    BY <1>0, <2>2 DEF YumEffect, Yum
<1> HIDE DEF s
<1>6. TypeOK'
  <2>1. keep' \in BOOLEAN /\ errors' \in BOOLEAN
    BY Zenon DEF Remove
  <2>2. pc' \in Phase /\ todo' \subseteq Host /\ at' \in todo' \union {NoHost}
        /\ depth' = depth /\ pkg' = pkg
    BY <1>0 DEF Remove
  <2> QED
    BY <1>0, <1>4, <1>5, <2>1, <2>2 DEF DataInv
<1>7. PhaseInv'
  BY <1>0, FallingFacts DEF Remove
<1>8. SavingInv'
  BY <1>0, <1>2, <1>5, FallingFacts DEF Remove, s
<1>9. SaverInv' /\ MigrationInv'
  BY <1>0, FallingFacts DEF Remove
<1>10. RollbackTargetIsSaved'
  BY <1>0, <1>4, <1>8 DEF DataInv, Remove
<1> QED
  BY <1>4, <1>6, <1>7, <1>8, <1>9, <1>10 DEF DataInv

\* yum history rollback: the RPMs are those of the saved list.
LEMMA YumRollbackStep == ASSUME IInv, YumRollback PROVE IInv'
<1> DEFINE s == history[at][savedTid[at]]
<1>0. /\ pkg \in DOMAIN Fixtures /\ depth \in Nat /\ depth > 0 /\ depth <= Len(Fixtures[pkg])
      /\ at \in Host /\ at \in todo /\ Yum(at, s) /\ UNCHANGED <<memory, origin, bounds>>
      /\ savedPkgs' = savedPkgs /\ savedTid' = savedTid /\ baseline' = baseline
  BY DEF YumRollback
<1>1. s \in SUBSET Rpm
  BY <1>0 DEF Rpm, RpmsOf, YumRollback
<1>2. IsSaved(at)
  BY <1>0, FallingFacts, NoListIsNoRpms DEF YumRollback
<1>3. history[at] = <<>> /\ s = installed[at] => "gpm-libs" \notin s
  BY <1>0
<1>4. DataInv'
  <2>1. YumOnSaved(at, s)
    BY <1>0, <1>2, <1>3 DEF YumOnSaved
  <2> HIDE DEF s, YumOnSaved, DataInv
  <2> QED
    BY <1>0, <1>1, <2>1, MemoryKept
<1>5. installed'[at] = s /\ altered' = altered /\ srs' = srs
      /\ (s # installed[at] \/ history[at] # <<>> => history'[at] # <<>>)
  <2> HIDE DEF s, IInv
  <2>1. TypeOK /\ HistoryInv
    BY DEF IInv
  <2> HIDE DEF TypeOK, HistoryInv
  <2>2. YumEffect(at, s)
    BY <1>0, <1>1, <1>3, <2>1, YumStep
  <2> QED
    BY <1>0, <2>2 DEF YumEffect, Yum
<1> HIDE DEF s
<1>6. TypeOK'
  <2>1. keep' \in BOOLEAN /\ errors' \in BOOLEAN
    BY Zenon DEF YumRollback
  <2>2. pc' \in Phase /\ todo' \subseteq Host /\ at' \in todo' \union {NoHost}
        /\ depth' = depth /\ pkg' = pkg
    BY <1>0 DEF YumRollback
  <2> QED
    BY <1>0, <1>4, <1>5, <2>1, <2>2 DEF DataInv
<1>7. PhaseInv'
  BY <1>0, FallingFacts DEF YumRollback
<1>8. SavingInv'
  BY <1>0, <1>2, <1>5, FallingFacts DEF YumRollback, s
<1>9. SaverInv' /\ MigrationInv'
  BY <1>0, FallingFacts DEF YumRollback
<1>10. RollbackTargetIsSaved'
  BY <1>0, <1>4, <1>8 DEF DataInv, YumRollback
<1> QED
  BY <1>4, <1>6, <1>7, <1>8, <1>9, <1>10 DEF DataInv

\* yum_save_state, first half: the list of a host that is as the session found it.
LEMMA SaveListStep == ASSUME IInv, SaveList PROVE IInv'
<1>0. /\ pkg \in DOMAIN Fixtures /\ depth \in Nat /\ depth < Len(Fixtures[pkg])
      /\ at \in Host /\ at \in todo /\ pc = "save" /\ pc' = "tid"
      /\ UNCHANGED <<hosts, savedTid, origin, bounds, pkg, depth, todo, at, keep, errors>>
  BY DEF SaveList
<1>1. savedPkgs' = [savedPkgs EXCEPT ![at] = installed[at]] /\ installed[at] \in SUBSET Rpm
      /\ installed[at] # NoList /\ savedPkgs[at] = NoList
  BY <1>0, NoListIsNoRpms DEF SaveList
<1>2. TypeOK'
  <2>1. keep' \in BOOLEAN /\ errors' \in BOOLEAN
    BY Zenon DEF SaveList
  <2> QED
    BY <1>0, <1>1, <2>1
<1>3. UnsavedIsPristine' /\ HistoryInv'
  BY <1>0, <1>1
<1>4. RollbackTargetIsSaved'
  BY <1>0, <1>1
<1>5. \A h \in Host : IsSaved(h) => IsSaved(h)'
  BY <1>1
<1>6. PhaseInv'
  BY <1>0
<1>7. SavingInv'
  BY <1>0, <1>1, <1>5
<1>8. SaverInv'
  BY <1>0, <1>5, RisingFacts DEF SavedHosts
<1>9. MigrationInv'
  BY <1>0, <1>1, RisingFacts
<1> QED
  BY <1>2, <1>3, <1>4, <1>6, <1>7, <1>8, <1>9

\* yum_save_state, second half: the transaction that left what the list says.
LEMMA SaveTidStep == ASSUME IInv, SaveTid PROVE IInv'
<1>0. /\ pkg \in DOMAIN Fixtures /\ depth \in Nat /\ depth < Len(Fixtures[pkg])
      /\ at \in Host /\ at \in todo /\ pc = "tid" /\ pc' = "save"
      /\ todo' = todo \ {at} /\ at' = NoHost
      /\ UNCHANGED <<hosts, savedPkgs, origin, bounds, pkg, depth, keep>>
      /\ savedTid' = [savedTid EXCEPT ![at] = Len(history[at])]
  BY DEF SaveTid
<1>1. history[at] \in Seq(SUBSET Rpm) /\ Len(history[at]) \in Nat /\ history[at] # <<>>
  BY <1>0 DEF SaveTid
<1>2. TypeOK'
  <2>1. keep' \in BOOLEAN /\ errors' \in BOOLEAN
    BY Zenon DEF SaveTid
  <2>2. savedTid' \in [Host -> Nat] /\ \A h \in Host : savedTid'[h] <= Len(history'[h])
    BY <1>0, <1>1
  <2>3. pc' \in Phase /\ todo' \subseteq Host /\ at' \in todo' \union {NoHost}
    BY <1>0
  <2> QED
    BY <1>0, <2>1, <2>2, <2>3
<1>3. savedPkgs[at] = installed[at] /\ installed[at] # NoList
      /\ history[at][Len(history[at])] = installed[at]
  BY <1>0, <1>1, NoListIsNoRpms
<1>4. UnsavedIsPristine' /\ HistoryInv'
  BY <1>0
<1>5. RollbackTargetIsSaved'
  BY <1>0, <1>3
<1>6. PhaseInv'
  BY <1>0
<1>7. SavingInv'
  BY <1>0, <1>3
<1>8. SaverInv'
  BY <1>0, RisingFacts
<1>9. MigrationInv'
  BY <1>0, RisingFacts
<1> QED
  BY <1>2, <1>4, <1>5, <1>6, <1>7, <1>8, <1>9

\* _disable_yum_rollback: the list stays, the transaction is forgotten.
LEMMA ForgetStep == ASSUME IInv, Forget PROVE IInv'
<1>0. /\ pkg \in DOMAIN Fixtures /\ depth \in Nat /\ depth > 0 /\ depth <= Len(Fixtures[pkg])
      /\ at \in Host /\ at \in todo /\ pc = "forget" /\ pc' = "forget"
      /\ todo' = todo \ {at} /\ at' = NoHost
      /\ UNCHANGED <<hosts, savedPkgs, origin, bounds, pkg, depth, keep>>
      /\ savedTid' = [savedTid EXCEPT ![at] = 0]
  BY DEF Forget
<1>1. TypeOK'
  <2>1. keep' \in BOOLEAN /\ errors' \in BOOLEAN
    BY Zenon DEF Forget
  <2>2. Len(history[at]) \in Nat
    BY <1>0
  <2> QED
    BY SMTT(30), <1>0, <2>1, <2>2
<1>2. UnsavedIsPristine' /\ HistoryInv' /\ RollbackTargetIsSaved'
  BY <1>0
<1>3. PhaseInv' /\ SavingInv' /\ MigrationInv'
  BY <1>0
<1>4. SaverInv'
  BY <1>0
<1> QED
  BY <1>1, <1>2, <1>3, <1>4

\* yum_restore_saved_state compares the RPMs with the list, and forgets it.
LEMMA VerifyStep == ASSUME IInv, Verify PROVE IInv'
<1>0. /\ pkg \in DOMAIN Fixtures /\ depth \in Nat /\ depth > 0 /\ depth <= Len(Fixtures[pkg])
      /\ at \in Host /\ at \in todo /\ pc = "verify" /\ pc' = "restore"
      /\ todo' = todo \ {at} /\ at' = NoHost
      /\ UNCHANGED <<hosts, origin, bounds, pkg, depth, keep>>
      /\ installed[at] = savedPkgs[at] /\ savedPkgs[at] # NoList
      /\ savedPkgs' = [savedPkgs EXCEPT ![at] = NoList]
      /\ savedTid' = [savedTid EXCEPT ![at] = 0]
  BY NoListIsNoRpms DEF Verify
<1>1. TypeOK'
  <2>1. keep' \in BOOLEAN /\ errors' \in BOOLEAN
    BY Zenon DEF Verify
  <2>2. Len(history[at]) \in Nat
    BY <1>0
  <2> QED
    BY SMTT(30), <1>0, <2>1, <2>2
<1>2. installed[at] = baseline[at]
  BY <1>0
<1>3. UnsavedIsPristine' /\ HistoryInv'
  BY <1>0, <1>2
<1>4. RollbackTargetIsSaved'
  BY <1>0
<1>5. PhaseInv' /\ SavingInv'
  BY <1>0
<1>6. SaverInv'
  BY <1>0, FallingFacts
<1>7. MigrationInv'
  BY <1>0, FallingFacts
<1> QED
  BY <1>1, <1>3, <1>4, <1>5, <1>6, <1>7

\* A package starts: its pool may have hosts on which an earlier one left a saved state.
LEMMA StartPackageStep == ASSUME IInv, NEW p \in Packages, StartPackage(p) PROVE IInv'
<1>0. /\ p \in DOMAIN Fixtures /\ pc' = "setup" /\ pkg' = p /\ depth' = 0
      /\ UNCHANGED <<hosts, memory, todo, at, origin, faults>> /\ packages' = packages + 1
  BY DEF StartPackage
<1>1. p # "none" /\ Len(Fixtures[p]) \in Nat /\ Len(Fixtures[p]) > 0
  <2> DEFINE L == Len(Fixtures[p])
  <2>1. L \in 1..4
    BY <1>0, FixtureTable
  <2>2. p # "none"
    BY <1>0 DEF Fixtures
  <2> HIDE DEF L
  <2>3. L \in Nat /\ L > 0
    BY <2>1
  <2> USE DEF L
  <2> QED
    BY <2>2, <2>3
<1>2. TypeOK'
  <2>1. keep' \in BOOLEAN /\ errors' \in BOOLEAN
    BY Zenon DEF StartPackage
  <2>2. pkg' \in Packages \union {"none"} /\ depth' <= Len(Fixtures[pkg'])
    BY <1>0, <1>1
  <2>3. depth' \in Nat /\ packages' \in Nat /\ pc' \in Phase
    BY SMTT(30), <1>0
  <2> QED
    BY <1>0, <2>1, <2>2, <2>3
<1>3. UnsavedIsPristine' /\ HistoryInv' /\ RollbackTargetIsSaved'
  BY <1>0
<1>4. PhaseInv' /\ SavingInv' /\ MigrationInv'
  BY <1>0, <1>1
<1>5. SaverInv'
  BY <1>0, <1>1 DEF SaveDepth
<1> QED
  BY <1>2, <1>3, <1>4, <1>5

\* A package ends.
LEMMA EndPackageStep == ASSUME IInv, EndPackage PROVE IInv'
  BY DEF EndPackage

\* A new process knows nothing of what was saved, and takes the hosts as they are.
LEMMA RestartStep == ASSUME IInv, Restart, faults' \in Nat PROVE IInv'
<1>0. /\ pc' = "idle" /\ pkg' = "none" /\ depth' = 0 /\ todo' = {} /\ at' = NoHost
      /\ savedPkgs' = [h \in Host |-> NoList] /\ savedTid' = [h \in Host |-> 0]
      /\ baseline' = installed /\ inherited' = altered /\ UNCHANGED <<hosts, packages>>
  BY DEF Restart
<1>1. TypeOK'
  <2>1. keep' \in BOOLEAN /\ errors' \in BOOLEAN
    BY Zenon DEF Restart
  <2>2. \A h \in Host : Len(history[h]) \in Nat
    BY <1>0
  <2>3. /\ savedPkgs' \in [Host -> (SUBSET Rpm) \union {NoList}] /\ savedTid' \in [Host -> Nat]
        /\ \A h \in Host : savedTid'[h] <= Len(history'[h])
    BY <1>0, <2>2
  <2> QED
    BY <1>0, <2>1, <2>3
<1>2. UnsavedIsPristine' /\ HistoryInv' /\ RollbackTargetIsSaved'
  BY <1>0
<1>3. PhaseInv' /\ SavingInv' /\ SaverInv' /\ MigrationInv'
  BY <1>0
<1> QED
  BY <1>1, <1>2, <1>3

\* A loop goes on to its next host.
LEMMA TakeStep == ASSUME IInv, NEW h \in Host, Take(h) PROVE IInv'
<1>0. /\ pc \in Loops /\ at = NoHost /\ h \in todo /\ at' = h
      /\ UNCHANGED <<hosts, memory, pkg, depth, pc, todo, origin, bounds>>
  BY DEF Take
<1>1. TypeOK'
  <2>1. keep' \in BOOLEAN /\ errors' \in BOOLEAN
    BY Zenon DEF Take
  <2> QED
    BY <1>0, <2>1
<1>2. UnsavedIsPristine' /\ HistoryInv' /\ RollbackTargetIsSaved'
  BY <1>0
<1>3. PhaseInv' /\ SavingInv' /\ SaverInv' /\ MigrationInv'
  BY <1>0
<1> QED
  BY <1>1, <1>2, <1>3

\* The tests of a package run.
LEMMA RunTestsStep == ASSUME IInv, RunTests PROVE IInv'
  BY DEF RunTests

\* A command fails.
LEMMA FailStep == ASSUME IInv, Fail PROVE IInv'
<1>0. /\ UNCHANGED <<installed, history, srs, memory, origin, packages>> /\ faults' \in Nat
      /\ pkg' = pkg /\ depth' = depth /\ at' = NoHost
      /\ pkg \in DOMAIN Fixtures /\ depth \in Nat /\ pkg # "none" /\ pc # "idle"
      /\ (pc \in {"setup", "create"} \/ at \in todo)
  <2>1. /\ UNCHANGED <<installed, history, srs, memory, origin, packages>> /\ faults' \in Nat
        /\ pkg' = pkg /\ depth' = depth /\ at' = NoHost
    BY SMTT(30) DEF Fail, Setting, Undoing
  <2>2. pc # "idle"
    BY DEF Fail, Setting, Undoing
  <2>3. pc \in {"setup", "create"} \/ at \in todo
    BY DEF Fail
  <2> QED
    BY <2>1, <2>2, <2>3
<1>1. \/ /\ pc \in {"install", "configure"} /\ Rising \in {"glusterfs", "moosefs"}
         /\ pc' = "rollback" /\ todo' \subseteq Host
      \/ /\ pc = "install" /\ Rising = "linstor" /\ pc' = "install" /\ todo' = todo \ {at}
      \/ /\ pc \in {"setup", "create", "save", "tid", "gpm", "install"}
         /\ pc' = "teardown" /\ todo' = {}
      \/ /\ pc \in {"rollback", "disable", "unconfigure", "remove", "restore"}
         /\ pc' = pc /\ todo' = todo \ {at}
      \/ pc = "verify" /\ pc' = "restore" /\ todo' = todo \ {at}
  BY DEF Fail, Setting, Undoing, RollbackHosts
<1>2. altered' \subseteq {"glusterfs", "moosefs"} \X Host
  <2>1. altered' = altered \/ (pc = "configure" /\ altered' = altered \union {<<Rising, at>>})
    BY DEF Fail
  <2> QED
    BY <2>1
<1>3. TypeOK'
  <2>1. keep' \in BOOLEAN /\ errors' \in BOOLEAN
    BY Zenon DEF Fail
  <2>2. pc' \in Phase /\ todo' \subseteq Host
    BY <1>1
  <2> QED
    BY <1>0, <1>2, <2>1, <2>2
<1>4. UnsavedIsPristine' /\ HistoryInv'
  BY <1>0
<1>a. Rising' = Rising /\ Falling' = Falling
  BY <1>0
<1>5. PhaseInv'
  <2>1. pc' = "rollback" => depth < Len(Fixtures[pkg]) /\ Rising \in {"glusterfs", "moosefs"}
    BY <1>1
  <2>2. pc' = "install" => depth < Len(Fixtures[pkg]) /\ Rising = "linstor"
                           /\ todo' \subseteq HostsOf(Rising)
    BY <1>1
  <2>3. pc' \in {"restore", "disable", "unconfigure", "remove"} => depth > 0
    BY <1>1
  <2>4. /\ pc' = "restore" => Falling \in Savers
        /\ pc' = "remove" => Falling = "linstor"
        /\ pc' \in {"disable", "unconfigure"} => Falling \in {"glusterfs", "moosefs"}
    BY <1>1
  <2>5. pc' \in {"rollback", "install", "teardown", "disable", "unconfigure", "remove", "restore"}
    BY <1>1
  <2> HIDE DEF Rising, Falling
  <2> QED
    BY <1>0, <1>a, <2>1, <2>2, <2>3, <2>4, <2>5
<1>6. SavingInv' /\ RollbackTargetIsSaved'
  BY <1>0, <1>1
<1>7. SaverInv'
  <2>1. pc' \in {"restore", "verify"} <=> pc \in {"restore", "verify"}
    BY <1>1
  <2> QED
    BY <1>0, <2>1
<1>8. MigrationInv'
  BY <1>0, <1>1
<1> QED
  BY <1>3, <1>4, <1>5, <1>6, <1>7, <1>8

-----------------------------------------------------------------------------
\* Every step preserves the invariant.
LEMMA Inductive == IInv /\ [Next]_vars => IInv'
<1> SUFFICES ASSUME IInv, [Next]_vars PROVE IInv'
  OBVIOUS
<1> HIDE DEF IInv, Restart
<1>1. CASE Session
  <2>1. CASE NewSession
    <3>1. Restart /\ faults' \in Nat
      BY <2>1 DEF NewSession, IInv
    <3> QED
      BY <3>1, RestartStep
  <2> QED
    BY <1>1, <2>1, EndPackageStep, StartPackageStep DEF Session
<1>2. CASE Setup
  BY <1>2, BeginSetupStep, SaveListStep, SaveRefusedStep, GpmInstallStep, GpmRemoveStep,
     SaveTidStep, InstallStep, InstallRefusedStep, ConfigureStep, CreateSrStep,
     SetupLoopDoneStep DEF Setup
<1>3. CASE Teardown
  BY <1>3, BeginTeardownStep, DestroySrStep, DestroySrFailsStep, ForgetStep, RemoveStep,
     DisableStep, UnconfigureStep, RestoreRefusedStep, YumRollbackStep, VerifyStep,
     TeardownLoopDoneStep DEF Teardown
<1>4. CASE Kill
  <2>1. Restart /\ faults' \in Nat
    BY <1>4 DEF Kill, IInv
  <2> QED
    BY <2>1, RestartStep
<1>5. CASE UNCHANGED vars
  <2>1. TypeOK'
    <3>1. keep' \in BOOLEAN /\ errors' \in BOOLEAN
      BY Zenon, <1>5 DEF IInv
    <3> QED
      BY <1>5, <3>1 DEF IInv
  <2>2. PhaseInv' /\ SavingInv'
    BY <1>5 DEF IInv
  <2>3. UnsavedIsPristine' /\ RollbackTargetIsSaved' /\ HistoryInv'
    BY <1>5 DEF IInv
  <2>4. SaverInv' /\ MigrationInv'
    BY <1>5 DEF IInv
  <2> QED
    BY <2>1, <2>2, <2>3, <2>4 DEF IInv
<1>6. CASE RunTests \/ Rollback \/ Fail
  BY <1>6, RunTestsStep, RollbackStep, FailStep
<1>7. CASE \E h \in Host : Take(h)
  BY <1>7, TakeStep
<1> QED
  BY <1>1, <1>2, <1>3, <1>4, <1>5, <1>6, <1>7 DEF Next

LEMMA Invariant == Spec => []IInv
<1> HIDE DEF IInv, vars
<1> QED
  BY InitIInv, Inductive, PTL DEF Spec

\* The variables keep their types, and a rollback never names a transaction that
\* the history does not have (yum_save_state, get_last_yum_history_tid).
THEOREM TypeCorrect == Spec => []TypeOK
<1>1. IInv => TypeOK
  OBVIOUS
<1> HIDE DEF IInv, TypeOK
<1> QED
  BY <1>1, Invariant, PTL

\* No package saves, as the state to come back to, what an earlier package left
\* (yum_save_state, yum_restore_saved_state and the order of the fixtures).
THEOREM UnsavedAlwaysPristine == Spec => []UnsavedIsPristine
<1>1. IInv => UnsavedIsPristine
  OBVIOUS
<1> HIDE DEF IInv, UnsavedIsPristine
<1> QED
  BY <1>1, Invariant, PTL

\* yum history rollback always gives back the saved list: yum_save_state records
\* the transaction that left it, also on a host that had no history.
THEOREM RollbackAlwaysExact == Spec => []RollbackTargetIsSaved
<1>1. IInv => RollbackTargetIsSaved
  OBVIOUS
<1> HIDE DEF IInv, RollbackTargetIsSaved
<1> QED
  BY <1>1, Invariant, PTL

-----------------------------------------------------------------------------
(* What stays on the hosts.                                                *)

\* From here on definitions are expanded where they are needed only.
HIDE DEF vars, hosts, memory, control, origin, bounds, Phase, Loops, Savers, Installers, IsSaved,
         Goto, Loop, HostDone, FixtureUp, FixtureDown, Raise
HIDE DEF IInv, TypeOK, UnsavedIsPristine, RollbackTargetIsSaved, HistoryInv, PhaseInv,
         SavingInv, SaverInv, MigrationInv
HIDE DEF HostsOf, Rising, Falling, SavedHosts, SaveDepth

\* Where the fixtures that matter are.
LEMMA RisingPlace ==
  ASSUME pkg \in DOMAIN Fixtures, depth \in Nat, depth < Len(Fixtures[pkg])
  PROVE  /\ Rising = "glusterfs" <=> pkg = "glusterfs" /\ depth = 2
         /\ Rising = "moosefs" <=> pkg \in {"moosefs", "moosefs_to_xfs"} /\ depth = 1
         /\ Rising = "sr" => depth > 0 /\ depth + 1 = Len(Fixtures[pkg])
         /\ Rising = "sr" /\ pkg = "xfs" => depth = 1 /\ Fixtures[pkg][depth] = "xfsprogs"
         /\ Rising = "sr" /\ pkg = "glusterfs" => depth = 3 /\ Fixtures[pkg][depth] = "glusterfs"
         /\ Rising \in {"save_master", "save_pool"} =>
              (pkg \in {"moosefs", "moosefs_to_xfs"} => depth = 0) /\ (pkg = "glusterfs" => depth = 1)
         /\ Rising = "absent" => pkg \in {"zfs", "cephfs", "glusterfs"}
         /\ pkg = "glusterfs" /\ depth = 0 => Rising = "absent"
         /\ pkg = "xfs" /\ depth = 0 => Rising = "xfsprogs"
         /\ pkg = "xfs" /\ depth = 1 => Rising = "sr"
<1> USE DEF Rising
<1> DEFINE L == Len(Fixtures[pkg])
<1>1. L \in 1..4 /\ depth <= L /\ depth # L
  BY FixtureTable
<1> HIDE DEF L
<1>2. CASE pkg = "zfs"
  <2>l. L = 3
    BY <1>2, FixtureTable DEF L
  <2>0. depth \in {0, 1, 2}
    BY <1>1, <2>l
  <2>1. CASE depth = 0
    BY <1>2, <2>1, FixtureTable DEF L
  <2>2. CASE depth = 1
    BY <1>2, <2>2, FixtureTable DEF L
  <2>3. CASE depth = 2
    BY <1>2, <2>3, FixtureTable DEF L
  <2> QED BY <2>0, <2>1, <2>2, <2>3
<1>3. CASE pkg = "cephfs"
  <2>l. L = 3
    BY <1>3, FixtureTable DEF L
  <2>0. depth \in {0, 1, 2}
    BY <1>1, <2>l
  <2>1. CASE depth = 0
    BY <1>3, <2>1, FixtureTable DEF L
  <2>2. CASE depth = 1
    BY <1>3, <2>2, FixtureTable DEF L
  <2>3. CASE depth = 2
    BY <1>3, <2>3, FixtureTable DEF L
  <2> QED BY <2>0, <2>1, <2>2, <2>3
<1>4. CASE pkg = "xfs"
  <2>l. L = 2
    BY <1>4, FixtureTable DEF L
  <2>0. depth \in {0, 1}
    BY <1>1, <2>l
  <2>1. CASE depth = 0
    BY <1>4, <2>1, FixtureTable DEF L
  <2>2. CASE depth = 1
    BY <1>4, <2>2, FixtureTable DEF L
  <2> QED BY <2>0, <2>1, <2>2
<1>5. CASE pkg = "glusterfs"
  <2>l. L = 4
    BY <1>5, FixtureTable DEF L
  <2>0. depth \in {0, 1, 2, 3}
    BY <1>1, <2>l
  <2>1. CASE depth = 0
    BY <1>5, <2>1, FixtureTable DEF L
  <2>2. CASE depth = 1
    BY <1>5, <2>2, FixtureTable DEF L
  <2>3. CASE depth = 2
    BY <1>5, <2>3, FixtureTable DEF L
  <2>4. CASE depth = 3
    BY <1>5, <2>4, FixtureTable DEF L
  <2> QED BY <2>0, <2>1, <2>2, <2>3, <2>4
<1>6. CASE pkg = "moosefs"
  <2>l. L = 2
    BY <1>6, FixtureTable DEF L
  <2>0. depth \in {0, 1}
    BY <1>1, <2>l
  <2>1. CASE depth = 0
    BY <1>6, <2>1, FixtureTable DEF L
  <2>2. CASE depth = 1
    BY <1>6, <2>2, FixtureTable DEF L
  <2> QED BY <2>0, <2>1, <2>2
<1>7. CASE pkg = "linstor"
  <2>l. L = 3
    BY <1>7, FixtureTable DEF L
  <2>0. depth \in {0, 1, 2}
    BY <1>1, <2>l
  <2>1. CASE depth = 0
    BY <1>7, <2>1, FixtureTable DEF L
  <2>2. CASE depth = 1
    BY <1>7, <2>2, FixtureTable DEF L
  <2>3. CASE depth = 2
    BY <1>7, <2>3, FixtureTable DEF L
  <2> QED BY <2>0, <2>1, <2>2, <2>3
<1>8. CASE pkg = "moosefs_to_xfs"
  <2>l. L = 4
    BY <1>8, FixtureTable DEF L
  <2>0. depth \in {0, 1, 2, 3}
    BY <1>1, <2>l
  <2>1. CASE depth = 0
    BY <1>8, <2>1, FixtureTable DEF L
  <2>2. CASE depth = 1
    BY <1>8, <2>2, FixtureTable DEF L
  <2>3. CASE depth = 2
    BY <1>8, <2>3, FixtureTable DEF L
  <2>4. CASE depth = 3
    BY <1>8, <2>4, FixtureTable DEF L
  <2> QED BY <2>0, <2>1, <2>2, <2>3, <2>4
<1> QED
  BY <1>2, <1>3, <1>4, <1>5, <1>6, <1>7, <1>8, FixtureTable

LEMMA FallingPlace ==
  ASSUME pkg \in DOMAIN Fixtures, depth \in Nat, depth > 0, depth <= Len(Fixtures[pkg])
  PROVE  /\ Falling = "glusterfs" <=> pkg = "glusterfs" /\ depth = 3
         /\ Falling = "moosefs" <=> pkg \in {"moosefs", "moosefs_to_xfs"} /\ depth = 2
         /\ Falling = "linstor" => pkg = "linstor" /\ depth = 2
         /\ Falling = "sr" => depth = Len(Fixtures[pkg])
         /\ Falling = "sr" /\ pkg = "xfs" => depth = 2
         /\ Falling = "sr" /\ pkg = "glusterfs" => depth = 4
         /\ pkg = "xfs" => (Falling = "xfsprogs" /\ depth = 1) \/ (Falling = "sr" /\ depth = 2)
         /\ pkg = "glusterfs" => \/ Falling = "absent" /\ depth = 1
                                 \/ Falling = "save_pool" /\ depth = 2
                                 \/ Falling = "glusterfs" /\ depth = 3
                                 \/ Falling = "sr" /\ depth = 4
         /\ Falling \in {"save_master", "save_pool"} => HostsOf(Falling) = SavedHosts(pkg)
<1> USE DEF Falling, HostsOf, SavedHosts
<1> DEFINE L == Len(Fixtures[pkg])
<1>1. L \in 1..4 /\ depth <= L
  BY FixtureTable
<1> HIDE DEF L
<1>2. CASE pkg = "zfs"
  <2>l. L = 3
    BY <1>2, FixtureTable DEF L
  <2>0. depth \in {1, 2, 3}
    BY <1>1, <2>l
  <2>1. CASE depth = 1
    BY <1>2, <2>1, FixtureTable DEF L
  <2>2. CASE depth = 2
    BY <1>2, <2>2, FixtureTable DEF L
  <2>3. CASE depth = 3
    BY <1>2, <2>3, FixtureTable DEF L
  <2> QED BY <2>0, <2>1, <2>2, <2>3
<1>3. CASE pkg = "cephfs"
  <2>l. L = 3
    BY <1>3, FixtureTable DEF L
  <2>0. depth \in {1, 2, 3}
    BY <1>1, <2>l
  <2>1. CASE depth = 1
    BY <1>3, <2>1, FixtureTable DEF L
  <2>2. CASE depth = 2
    BY <1>3, <2>2, FixtureTable DEF L
  <2>3. CASE depth = 3
    BY <1>3, <2>3, FixtureTable DEF L
  <2> QED BY <2>0, <2>1, <2>2, <2>3
<1>4. CASE pkg = "xfs"
  <2>l. L = 2
    BY <1>4, FixtureTable DEF L
  <2>0. depth \in {1, 2}
    BY <1>1, <2>l
  <2>1. CASE depth = 1
    BY <1>4, <2>1, FixtureTable DEF L
  <2>2. CASE depth = 2
    BY <1>4, <2>2, FixtureTable DEF L
  <2> QED BY <2>0, <2>1, <2>2
<1>5. CASE pkg = "glusterfs"
  <2>l. L = 4
    BY <1>5, FixtureTable DEF L
  <2>0. depth \in {1, 2, 3, 4}
    BY <1>1, <2>l
  <2>1. CASE depth = 1
    BY <1>5, <2>1, FixtureTable DEF L
  <2>2. CASE depth = 2
    BY <1>5, <2>2, FixtureTable DEF L
  <2>3. CASE depth = 3
    BY <1>5, <2>3, FixtureTable DEF L
  <2>4. CASE depth = 4
    BY <1>5, <2>4, FixtureTable DEF L
  <2> QED BY <2>0, <2>1, <2>2, <2>3, <2>4
<1>6. CASE pkg = "moosefs"
  <2>l. L = 2
    BY <1>6, FixtureTable DEF L
  <2>0. depth \in {1, 2}
    BY <1>1, <2>l
  <2>1. CASE depth = 1
    BY <1>6, <2>1, FixtureTable DEF L
  <2>2. CASE depth = 2
    BY <1>6, <2>2, FixtureTable DEF L
  <2> QED BY <2>0, <2>1, <2>2
<1>7. CASE pkg = "linstor"
  <2>l. L = 3
    BY <1>7, FixtureTable DEF L
  <2>0. depth \in {1, 2, 3}
    BY <1>1, <2>l
  <2>1. CASE depth = 1
    BY <1>7, <2>1, FixtureTable DEF L
  <2>2. CASE depth = 2
    BY <1>7, <2>2, FixtureTable DEF L
  <2>3. CASE depth = 3
    BY <1>7, <2>3, FixtureTable DEF L
  <2> QED BY <2>0, <2>1, <2>2, <2>3
<1>8. CASE pkg = "moosefs_to_xfs"
  <2>l. L = 4
    BY <1>8, FixtureTable DEF L
  <2>0. depth \in {1, 2, 3, 4}
    BY <1>1, <2>l
  <2>1. CASE depth = 1
    BY <1>8, <2>1, FixtureTable DEF L
  <2>2. CASE depth = 2
    BY <1>8, <2>2, FixtureTable DEF L
  <2>3. CASE depth = 3
    BY <1>8, <2>3, FixtureTable DEF L
  <2>4. CASE depth = 4
    BY <1>8, <2>4, FixtureTable DEF L
  <2> QED BY <2>0, <2>1, <2>2, <2>3, <2>4
<1> QED
  BY <1>2, <1>3, <1>4, <1>5, <1>6, <1>7, <1>8, FixtureTable

\* The package being run, and how far it has got.
LEMMA Here ==
  ASSUME IInv, pc # "idle"
  PROVE  /\ pkg \in DOMAIN Fixtures /\ pkg # "none"
         /\ depth \in Nat /\ depth <= Len(Fixtures[pkg]) /\ Len(Fixtures[pkg]) \in 1..4
<1>1. pkg \in DOMAIN Fixtures /\ pkg # "none" /\ depth \in Nat /\ depth <= Len(Fixtures[pkg])
  BY DEF IInv, TypeOK, PhaseInv
<1> QED BY <1>1, FixtureTable

\* What the steps below need of the tables.
LEMMA Around ==
  ASSUME IInv
  PROVE  /\ pc # "idle" => /\ pkg \in DOMAIN Fixtures /\ pkg # "none" /\ depth \in Nat
                           /\ depth <= Len(Fixtures[pkg]) /\ Len(Fixtures[pkg]) \in 1..4
         /\ UNCHANGED <<pkg, depth>> => Rising' = Rising /\ Falling' = Falling
         /\ \A p : SaveDepth(p) \in {1, 2} /\ 0 < SaveDepth(p)
         /\ HostsOf("xfsprogs") = {A2} /\ SavedHosts("glusterfs") = Host /\ HostsOf("glusterfs") = Host
         /\ RpmsOf("glusterfs") = {"glusterfs-server", "xfsprogs"}
  BY Here DEF Rising, Falling, SaveDepth, HostsOf, SavedHosts, RpmsOf

\* The teardown of a fixture, case by case.
LEMMA Undo ==
  ASSUME IInv, BeginTeardown
  PROVE  /\ pc = "teardown" /\ depth > 0 /\ depth' \in {depth, depth - 1} /\ depth' \in Nat /\ depth' <= depth
         /\ UNCHANGED <<installed, history, altered, srs, memory, origin, bounds, pkg, keep>>
         /\ \/ /\ pc' = "restore" /\ depth' = depth /\ todo' = HostsOf(Falling) /\ at' = NoHost
               /\ Falling \in Savers /\ (Falling = "xfsprogs" => ~keep)
            \/ /\ pc' \in {"forget", "disable", "remove", "unconfigure"} /\ depth' = depth
               /\ todo' = Host /\ at' = NoHost /\ errors' = FALSE
               /\ Falling \in {"glusterfs", "moosefs", "linstor"}
               /\ (pc' = "forget" => keep /\ Falling # "moosefs")
               /\ (pc' = "disable" => ~keep /\ Falling = "glusterfs")
               /\ (pc' = "remove" => ~keep /\ Falling = "linstor")
               /\ (pc' = "unconfigure" => Falling = "moosefs")
            \/ pc' = "destroy" /\ depth' = depth /\ todo' = todo /\ at' = at /\ Falling = "sr"
            \/ /\ pc' = "teardown" /\ depth' = depth - 1 /\ todo' = {} /\ at' = NoHost
               /\ Falling \in {"absent", "zfs", "ceph"} \/ (Falling = "xfsprogs" /\ keep)
<1>1. pc = "teardown" /\ depth > 0 /\ Falling \in Savers \union Installers \union {"absent", "sr"}
  BY Here, FallingFacts DEF BeginTeardown
<1>2. depth' = depth \/ depth' = depth - 1
  BY <1>1 DEF BeginTeardown, Savers, Installers, Loop, FixtureDown, Goto
<1>3. depth' \in Nat /\ depth' <= depth
  <2>1. depth \in Nat /\ depth > 0
    BY <1>1, Here
  <2>2. CASE depth' = depth
    BY <2>1, <2>2
  <2>3. CASE depth' = depth - 1
    BY <2>1, <2>3
  <2> QED BY <1>2, <2>2, <2>3
<1>4. UNCHANGED <<installed, history, altered, srs, memory, origin, bounds, pkg, keep>>
  BY <1>1 DEF BeginTeardown, Savers, Installers, Loop, FixtureDown, Goto, hosts
<1> USE DEF BeginTeardown, Loop, FixtureDown, Goto
<1>5. CASE Falling \in Savers
  BY <1>1, <1>3, <1>4, <1>5 DEF Savers, HostsOf
<1>6. CASE Falling \in {"glusterfs", "moosefs", "linstor"}
  BY <1>1, <1>3, <1>4, <1>6
<1>7. CASE Falling \in {"absent", "zfs", "ceph", "sr"}
  BY <1>1, <1>3, <1>4, <1>7
<1> QED BY <1>1, <1>5, <1>6, <1>7 DEF Savers, Installers

\* The setup of a fixture, case by case.
LEMMA Begun ==
  ASSUME IInv, BeginSetup
  PROVE  /\ pc = "setup" /\ depth < Len(Fixtures[pkg])
         /\ UNCHANGED <<installed, history, altered, srs, memory, origin, bounds, pkg, keep>>
         /\ \/ /\ AlreadyThere /\ Rising \in {"absent", "xfsprogs"}
               /\ pc' = "teardown" /\ depth' = depth /\ todo' = {} /\ at' = NoHost
            \/ /\ ~AlreadyThere /\ Rising = "absent" /\ depth' = depth + 1 /\ todo' = {} /\ at' = NoHost
               /\ pc' = IF depth + 1 = Len(Fixtures[pkg]) THEN "test" ELSE "setup"
            \/ /\ ~AlreadyThere /\ Rising \in Savers /\ depth' = depth
               /\ pc' = "save" /\ todo' = HostsOf(Rising) /\ at' = NoHost
            \/ /\ ~AlreadyThere /\ Rising \in {"zfs", "ceph", "glusterfs", "moosefs", "linstor"} /\ depth' = depth
               /\ pc' = "install" /\ todo' = HostsOf(Rising) /\ at' = NoHost
            \/ ~AlreadyThere /\ Rising = "sr" /\ depth' = depth /\ pc' = "create" /\ todo' = todo /\ at' = at
<1>1. pc = "setup" /\ depth < Len(Fixtures[pkg]) /\ Rising \in Savers \union Installers \union {"absent", "sr"}
  <2>1. pc = "setup" /\ depth < Len(Fixtures[pkg])
    BY DEF BeginSetup, IInv, PhaseInv
  <2> QED BY <2>1, Here, RisingFacts
<1>2. AlreadyThere => Rising \in {"absent", "xfsprogs"}
  BY DEF AlreadyThere
<1> HIDE DEF AlreadyThere
<1> QED BY <1>1, <1>2 DEF BeginSetup, Savers, Installers, Loop, FixtureUp, Raise, Goto, hosts, memory, origin, bounds

\* A loop of a teardown is over.
LEMMA Undone ==
  ASSUME IInv, TeardownLoopDone
  PROVE  /\ pc \in {"restore", "forget", "disable", "unconfigure", "remove"} /\ at = NoHost /\ todo = {}
         /\ UNCHANGED <<installed, history, altered, srs, memory, origin, bounds, pkg, keep>>
         /\ depth > 0 /\ depth' \in Nat /\ depth' <= depth
         /\ \/ /\ pc = "disable" /\ ~errors /\ pc' = "unconfigure" /\ depth' = depth
               /\ todo' = Host /\ at' = NoHost
            \/ /\ pc = "disable" => errors
               /\ pc' = "teardown" /\ depth' = depth - 1 /\ todo' = {} /\ at' = NoHost
<1>1. pc # "idle" /\ depth > 0
  BY DEF TeardownLoopDone, IInv, PhaseInv
<1>2. depth \in Nat
  BY <1>1, Here
<1>3. depth' \in Nat /\ depth' <= depth
  <2>1. CASE depth' = depth
    BY <1>2, <2>1
  <2>2. CASE depth' = depth - 1
    BY <1>1, <1>2, <2>2
  <2> QED BY <2>1, <2>2 DEF TeardownLoopDone, Loop, FixtureDown
<1> QED BY <1>1, <1>3 DEF TeardownLoopDone, Loop, FixtureDown, hosts, memory, origin, bounds

\* No package has two fixtures that change the configuration.
LEMMA OneConfigures ==
  ASSUME NEW p \in DOMAIN Fixtures, NEW i \in 1..Len(Fixtures[p]), NEW j \in 1..Len(Fixtures[p]),
         Fixtures[p][i] \in {"glusterfs", "moosefs"}, Fixtures[p][j] \in {"glusterfs", "moosefs"}
  PROVE  i = j
<1> DEFINE L == Len(Fixtures[p])
<1>1. L \in 1..4 /\ i \in 1..L /\ j \in 1..L
  BY FixtureTable
<1> HIDE DEF L
<1>2. i \in 1..4 /\ j \in 1..4
  BY <1>1
<1>3. CASE p \in {"zfs", "cephfs", "xfs"}
  <2>1. L < 4
    BY <1>3, FixtureTable DEF L
  <2>2. i \in 1..3 /\ (L = 2 => i \in 1..2)
    BY <1>1, <2>1
  <2> QED BY <1>1, <1>3, <2>2, FixtureTable DEF L
<1>4. CASE p \in {"glusterfs", "moosefs_to_xfs"}
  BY <1>2, <1>4, FixtureTable
<1>5. CASE p = "moosefs"
  <2>1. i \in 1..2 /\ j \in 1..2
    BY <1>1, <1>5, FixtureTable DEF L
  <2> QED BY <1>5, <2>1, FixtureTable
<1>6. CASE p = "linstor"
  <2>1. i \in 1..3 /\ j \in 1..3
    BY <1>1, <1>6, FixtureTable DEF L
  <2> QED BY <1>6, <2>1, FixtureTable
<1> QED BY <1>3, <1>4, <1>5, <1>6, FixtureTable

\* A restore goes through the hosts of its fixture; only glusterfs disables a
\* service; packages are forgotten for manual cleanup only.
LoopInv ==
    /\ pc \in {"restore", "verify"} => todo \subseteq HostsOf(Falling)
    /\ pc = "disable" => Falling = "glusterfs"
    /\ pc = "destroy" => Falling = "sr"
    /\ pc = "forget" => keep /\ Falling \in {"glusterfs", "linstor"}

\* The SR of xfs stands: its package is over or on its way down, and no restore
\* that could take xfsprogs away will reach A2.
XfsInv ==
    "xfs" \in srs =>
        /\ "xfsprogs" \in installed[A2]
        /\ pkg = "xfs" => \/ depth = 2 /\ pc \in {"test", "teardown", "destroy"}
                          \/ depth = 1 /\ keep /\ pc = "teardown"
                          \/ depth = 0 /\ pc \in {"setup", "teardown"}
        /\ IsSaved(A2) /\ "xfsprogs" \notin savedPkgs[A2] =>
             /\ pkg \notin {"none", "xfs"} => depth < SaveDepth(pkg) \/ A2 \notin SavedHosts(pkg)
             /\ pc \in {"save", "tid", "gpm"} /\ A2 \in HostsOf(Rising) => A2 \in todo
             /\ pc \in {"tid", "gpm"} => at # A2

\* The SR of glusterfs stands: the transactions to go back to have been
\* forgotten, but on hosts whose saved list has its RPMs.
GlusterInv ==
    "glusterfs" \in srs =>
        /\ \A h \in Host : RpmsOf("glusterfs") \subseteq installed[h]
        /\ pkg = "glusterfs" => \/ depth = 4 /\ pc \in {"test", "teardown", "destroy"}
                                \/ depth = 3 /\ keep /\ pc \in {"teardown", "forget"}
                                \/ depth = 2 /\ pc \in {"teardown", "restore", "verify"}
                                \/ depth = 1 /\ pc = "teardown"
                                \/ depth = 0 /\ pc \in {"setup", "teardown"}
        /\ \A h \in Host : IsSaved(h) /\ ~(RpmsOf("glusterfs") \subseteq savedPkgs[h]) =>
             \/ savedTid[h] = 0 /\ ~(pc \in {"tid", "gpm"} /\ at = h)
             \/ pkg = "glusterfs" /\ depth >= 3 /\ (pc = "forget" => h \in todo)

\* Nothing has failed in this session: there was no fault before it, or one
\* that has left a MooseFS client on a host.
Quiet == faults = 0 \/ (faults <= 1 /\ \E h \in Host : "moosefs-client" \in baseline[h])

\* What fixtures have changed: those that have yielded, or the one being set up,
\* on the hosts it has been through.
Accounted(x) ==
    \/ x \in inherited
    \/ /\ \E i \in 1..depth : Fixtures[pkg][i] = x[1]
       /\ pc = "unconfigure" => x[2] \in todo
    \/ /\ pc \in {"install", "configure"} /\ Rising = x[1]
       /\ x[2] \notin todo \/ (x[2] = at /\ Rising = "moosefs")
    \/ pc = "rollback" /\ Rising = x[1] /\ x[2] \in todo

\* The service is there to be disabled.
GlusterUp ==
    pkg = "glusterfs" =>
        /\ depth > 2 => \A h \in Host : "glusterfs-server" \in installed[h]
        /\ depth = 2 /\ pc \in {"install", "configure"} =>
             \A h \in Host : h \notin todo \/ (pc = "configure" /\ h = at) => "glusterfs-server" \in installed[h]

\* Until then no SR is left, what is changed is accounted for, and no host fails.
QuietInv ==
    Quiet => /\ ~keep
             /\ \A x \in altered : Accounted(x)
             /\ GlusterUp
             /\ pc = "disable" => ~errors

\* The client is on the hosts that install_moosefs has not been through only if
\* the session began with it.
MooseInv ==
    /\ pkg \in {"moosefs", "moosefs_to_xfs"} =>
         /\ pc \in {"save", "tid", "gpm"} /\ depth = 0 =>
              \A h \in Host : h \notin todo \/ (pc # "save" /\ h = at) =>
                ("moosefs-client" \in installed[h] => "moosefs-client" \in baseline[h])
         /\ pc = "setup" /\ depth = 1 =>
              \A h \in Host : "moosefs-client" \in installed[h] => "moosefs-client" \in baseline[h]
    /\ pc = "install" /\ Rising = "moosefs" =>
         \A h \in todo : "moosefs-client" \in installed[h] => "moosefs-client" \in baseline[h]

\* One failure at most: a rollback makes up for it.
RollInv ==
    pc = "rollback" /\ faults <= 1 =>
        /\ faults = 1
        /\ \A x \in altered \ inherited :
             x[1] = Rising /\ x[2] \in todo /\ (Rising = "glusterfs" => "glusterfs-server" \in installed[x[2]])

\* Whose state is saved, as long as nothing has failed.
SavedNow(h) ==
    \/ /\ pkg \notin {"none", "xfs"} /\ h \in SavedHosts(pkg)
       /\ \/ depth >= SaveDepth(pkg) /\ (pc \in {"restore", "verify"} => h \in todo)
          \/ depth + 1 = SaveDepth(pkg) /\ pc \in {"save", "tid", "gpm"}
             /\ (h \notin todo \/ (h = at /\ pc # "save"))
    \/ /\ pkg = "xfs" /\ h = A2
       /\ \/ depth >= 1 /\ (pc \in {"restore", "verify"} => h \in todo)
          \/ depth = 0 /\ pc = "install"
          \/ depth = 0 /\ pc \in {"save", "tid", "gpm"} /\ (h \notin todo \/ (h = at /\ pc # "save"))

\* Nor is anything left over from earlier sessions or packages.
FreshInv ==
    faults = 0 =>
        /\ inherited = {}
        /\ \A h \in Host : "moosefs-client" \notin baseline[h]
        /\ srs # {} => srs = {pkg} /\ depth > 0 /\ Falling = "sr"
        /\ \A h \in Host : IsSaved(h) => SavedNow(h) /\ (savedTid[h] # 0 \/ (h = at /\ pc \in {"tid", "gpm"}))

\* All that TracesHaveAReason rests on besides IInv.
TInv == LoopInv /\ XfsInv /\ GlusterInv /\ QuietInv /\ MooseInv /\ RollInv /\ FreshInv

\* Every step preserves LoopInv ...
LEMMA LoopKept ==
  ASSUME IInv, LoopInv, Next
  PROVE  LoopInv'
<1> USE DEF hosts, memory, control, origin, bounds, Goto, Loop, HostDone, FixtureUp, FixtureDown, Raise
<1> USE DEF LoopInv
<1>i. TypeOK /\ PhaseInv
  BY DEF IInv
<1>1. CASE BeginSetup \/ SaveList \/ SaveRefused \/ SaveTid \/ InstallRefused \/ Configure
         \/ CreateSr \/ SetupLoopDone \/ RunTests \/ Rollback
  BY <1>1, Begun DEF SaveList, SaveRefused, SaveTid, InstallRefused, RollbackHosts, Configure,
     CreateSr, SetupLoopDone, RunTests, Rollback
<1>2. CASE GpmInstall
  BY <1>2 DEF GpmInstall, Yum
<1>3. CASE GpmRemove
  BY <1>3 DEF GpmRemove, Yum
<1>4. CASE Install
  BY <1>4 DEF Install, Yum
<1>5. CASE BeginTeardown
  BY Around, <1>5, Undo
<1>6. CASE DestroySr \/ DestroySrFails \/ Unconfigure \/ TeardownLoopDone
  BY <1>6, Undone DEF DestroySr, DestroySrFails, Unconfigure
<1>7. CASE Forget
  BY Around, <1>7 DEF Forget
<1>8. CASE Remove
  BY <1>8 DEF Remove, Yum
<1>9. CASE Disable
  BY Around, <1>9 DEF Disable
<1>10. CASE RestoreRefused
  BY Around, <1>10 DEF RestoreRefused
<1>11. CASE YumRollback
  BY Around, <1>11 DEF YumRollback, Yum
<1>12. CASE Verify
  BY Around, <1>12 DEF Verify
<1>13. CASE EndPackage \/ (\E p \in Packages : StartPackage(p)) \/ NewSession \/ Kill
  BY <1>13 DEF EndPackage, StartPackage, NewSession, Kill, Restart
<1>14. CASE (\E h \in Host : Take(h))
  BY Around, <1>14 DEF Take
<1>15. CASE Fail
  BY Around, <1>15 DEF Fail, RollbackHosts, Setting, Undoing
<1> QED BY <1>1, <1>2, <1>3, <1>4, <1>5, <1>6, <1>7, <1>8, <1>9, <1>10, <1>11, <1>12, <1>13, <1>14,
           <1>15 DEF Next, Session, Setup, Teardown

\* ... and XfsInv: what could take xfsprogs away from A2 is the restore of a
\* package that has saved A2 without it, and those come before the SR of xfs.
LEMMA XfsKept ==
  ASSUME IInv, LoopInv, XfsInv, Next
  PROVE  XfsInv'
<1> USE DEF hosts, memory, control, origin, bounds, Goto, Loop, HostDone, FixtureUp, FixtureDown, Raise
<1> USE DEF XfsInv, LoopInv, IsSaved
<1>i. TypeOK /\ PhaseInv /\ RollbackTargetIsSaved /\ MigrationInv
  BY DEF IInv
<1>1. CASE BeginSetup
  BY Around, <1>1, Begun, RisingFacts, RisingPlace DEF AlreadyThere
<1>2. CASE SaveList
  BY Around, <1>2 DEF SaveList
<1>3. CASE SaveRefused \/ InstallRefused \/ RunTests \/ Rollback
  BY <1>3 DEF SaveRefused, InstallRefused, RollbackHosts, RunTests, Rollback
<1>4. CASE GpmInstall
  BY Around, <1>4 DEF GpmInstall, Yum
<1>5. CASE GpmRemove
  BY Around, <1>5 DEF GpmRemove, Yum
<1>6. CASE SaveTid
  BY Around, <1>6 DEF SaveTid
<1>7. CASE Install
  BY <1>7 DEF Install, Yum
<1>8. CASE Configure
  <2>1. /\ UNCHANGED <<srs, installed, savedPkgs, pkg, depth, keep>>
        /\ pc' = "install" /\ pc \in {"install", "configure"} /\ Rising \in {"glusterfs", "moosefs"}
    BY <1>i, <1>8 DEF Configure, PhaseInv
  <2>2. pkg # "xfs"
    BY Around, <1>i, <2>1, RisingPlace DEF PhaseInv
  <2> QED BY Around, <2>1, <2>2
<1>9. CASE CreateSr
  <2>1. /\ UNCHANGED <<installed, savedPkgs, pkg, keep>> /\ pc' \in {"setup", "test", "teardown"}
        /\ pc = "create" /\ depth' \in {depth, depth + 1} /\ Rising = "sr" /\ depth < Len(Fixtures[pkg])
    BY <1>i, <1>9 DEF CreateSr, PhaseInv
  <2>2. CASE pkg = "xfs"
    <3>1. depth = 1 /\ Fixtures[pkg][depth] = "xfsprogs" /\ Len(Fixtures[pkg]) = 2 /\ "xfs" \notin srs
      BY Around, <2>1, <2>2, RisingPlace
    <3>2. "xfs" \in srs' => RpmsOf("xfsprogs") \subseteq installed[A2] /\ depth' = 2 /\ pc' = "test"
      BY <1>9, Around, <3>1 DEF CreateSr
    <3> QED BY <2>1, <2>2, <3>2 DEF RpmsOf
  <2>3. CASE pkg # "xfs"
    <3>1. depth > SaveDepth(pkg) /\ SaveDepth(pkg) \in {1, 2}
      BY Around, <2>1, <2>3, RisingFacts
    <3>2. "xfs" \in srs' => "xfs" \in srs
      BY <1>9, <2>3 DEF CreateSr
    <3> QED BY Around, <2>1, <2>3, <3>1, <3>2
  <2> QED BY <2>2, <2>3
<1>10. CASE SetupLoopDone
  BY Around, <1>i, <1>10, RisingFacts DEF SetupLoopDone, PhaseInv, Savers, Installers
<1>11. CASE BeginTeardown
  <2>1. CASE pkg = "xfs"
    <3>1. /\ (Falling = "xfsprogs" /\ depth = 1) \/ (Falling = "sr" /\ depth = 2)
          /\ pc = "teardown" /\ UNCHANGED <<installed, savedPkgs, srs, pkg, keep>>
      BY Around, <1>11, <2>1, Undo, FallingPlace
    <3>2. CASE depth = 2
      BY <3>1, <3>2, <1>11, Undo DEF Savers
    <3>3. CASE depth = 1 /\ "xfs" \in srs
      <4>1. keep /\ Falling = "xfsprogs"
        BY <2>1, <3>1, <3>3
      <4>2. pc' = "teardown" /\ depth' = 0
        BY <3>3, <4>1, <1>11, Undo
      <4> QED BY <2>1, <3>1, <3>3, <4>2
    <3> QED BY <3>1, <3>2, <3>3
  <2>2. CASE pkg # "xfs"
    <3>1. pkg' = pkg /\ depth' <= depth /\ depth' \in Nat /\ pc' \notin {"save", "tid", "gpm"}
          /\ UNCHANGED <<installed, savedPkgs, srs>> /\ depth \in Nat
      BY Around, <1>11, Undo
    <3> QED BY Around, <2>2, <3>1
  <2> QED BY <2>1, <2>2
<1>12. CASE DestroySr
  BY Around, <1>12 DEF DestroySr
<1>13. CASE DestroySrFails
  BY Around, <1>13 DEF DestroySrFails
<1>14. CASE Forget \/ Disable \/ Unconfigure \/ RestoreRefused
  BY <1>14 DEF Forget, Disable, Unconfigure, RestoreRefused
<1>15. CASE Remove
  BY <1>15 DEF Remove, Yum
<1>16. CASE YumRollback
  BY <1>i, <1>16, FallingPlace, FallingFacts DEF YumRollback, Yum, TypeOK, PhaseInv,
     RollbackTargetIsSaved, MigrationInv, Savers
<1>17. CASE Verify
  BY <1>i, <1>17 DEF Verify, TypeOK
<1>18. CASE TeardownLoopDone
  <2>1. "xfs" \in srs => pkg # "xfs"
    BY <1>18, Undone
  <2>2. /\ UNCHANGED <<installed, savedPkgs, srs, pkg>> /\ depth' \in Nat /\ depth \in Nat /\ depth' <= depth
        /\ pc' \in {"unconfigure", "teardown"}
    BY Around, <1>18, Undone
  <2> QED BY Around, <2>1, <2>2
<1>19. CASE EndPackage \/ Fail \/ NewSession \/ Kill
  BY <1>19 DEF EndPackage, Fail, RollbackHosts, Setting, Undoing, NewSession, Kill, Restart
<1>20. CASE (\E p \in Packages : StartPackage(p))
  <2>1. PICK p \in Packages : StartPackage(p)
    BY <1>20
  <2>2. depth' = 0 /\ pc' = "setup" /\ UNCHANGED <<installed, savedPkgs, srs>>
    BY <2>1 DEF StartPackage
  <2>3. 0 < SaveDepth(pkg')
    BY Around
  <2> QED BY <2>2, <2>3
<1>21. CASE (\E h \in Host : Take(h))
  BY Around, <1>i, <1>21 DEF Take, PhaseInv
<1> QED BY <1>1, <1>2, <1>3, <1>4, <1>5, <1>6, <1>7, <1>8, <1>9, <1>10, <1>11, <1>12, <1>13, <1>14,
           <1>15, <1>16, <1>17, <1>18, <1>19, <1>20, <1>21 DEF Next, Session, Setup, Teardown

\* GlusterInv: a host saved without the RPMs of glusterfs is not rolled back, as
\* its transaction is forgotten before the restore.
LEMMA GlusterKept ==
  ASSUME IInv, LoopInv, GlusterInv, Next
  PROVE  GlusterInv'
<1> USE DEF hosts, memory, control, origin, bounds, Goto, Loop, HostDone, FixtureUp, FixtureDown, Raise
<1> USE DEF GlusterInv, LoopInv, IsSaved
<1>i. TypeOK /\ PhaseInv /\ RollbackTargetIsSaved /\ SavingInv
  BY DEF IInv
<1>1. CASE BeginSetup
  <2>1. /\ UNCHANGED <<installed, savedPkgs, savedTid, srs, pkg, keep>>
        /\ pc = "setup" /\ pc' \notin {"tid", "gpm", "forget"} /\ depth < Len(Fixtures[pkg])
    BY <1>1, Begun DEF Savers
  <2>2. CASE pkg = "glusterfs" /\ "glusterfs" \in srs
    <3>1. depth = 0 /\ Rising = "absent" /\ "glusterfs-server" \in installed[Master]
      BY Around, <2>1, <2>2, RisingPlace
    <3>2. AlreadyThere
      BY <2>2, <3>1 DEF AlreadyThere
    <3>3. pc' = "teardown" /\ depth' = 0
      BY <1>1, <3>1, <3>2, Begun
    <3> QED BY <2>1, <2>2, <3>1, <3>3
  <2> QED BY <2>1, <2>2
<1>2. CASE SaveList
  BY <1>2 DEF SaveList
<1>3. CASE SaveRefused
  BY <1>3 DEF SaveRefused
<1>4. CASE GpmInstall
  BY <1>4 DEF GpmInstall, Yum
<1>5. CASE GpmRemove
  BY Around, <1>5 DEF GpmRemove, Yum
<1>6. CASE SaveTid
  BY <1>6 DEF SaveTid
<1>7. CASE Install
  BY <1>7 DEF Install, Yum
<1>8. CASE InstallRefused
  BY <1>8 DEF InstallRefused, RollbackHosts
<1>9. CASE Configure
  BY <1>9 DEF Configure
<1>10. CASE CreateSr
  <2>1. /\ UNCHANGED <<installed, savedPkgs, savedTid, pkg, keep>> /\ pc' \in {"setup", "test", "teardown"}
        /\ pc = "create" /\ Rising = "sr" /\ depth < Len(Fixtures[pkg])
    BY <1>i, <1>10 DEF CreateSr, PhaseInv
  <2>2. CASE pkg = "glusterfs"
    <3>1. depth = 3 /\ Fixtures[pkg][depth] = "glusterfs" /\ Len(Fixtures[pkg]) = 4 /\ "glusterfs" \notin srs
      BY Around, <2>1, <2>2, RisingPlace
    <3>2. "glusterfs" \in srs' => (\A h \in Host : RpmsOf("glusterfs") \subseteq installed[h]) /\ depth' = 4 /\ pc' = "test"
      BY <1>10, Around, <3>1 DEF CreateSr
    <3> QED BY <2>1, <2>2, <3>2
  <2>3. CASE pkg # "glusterfs"
    <3>1. "glusterfs" \in srs' => "glusterfs" \in srs
      BY <1>10, <2>3 DEF CreateSr
    <3> QED BY <2>1, <2>3, <3>1
  <2> QED BY <2>2, <2>3
<1>11. CASE SetupLoopDone
  BY <1>11 DEF SetupLoopDone
<1>12. CASE RunTests
  BY <1>12 DEF RunTests
<1>13. CASE Rollback
  BY <1>13 DEF Rollback
<1>14. CASE BeginTeardown
  <2>1. /\ UNCHANGED <<installed, savedPkgs, savedTid, srs, pkg, keep>>
        /\ pc = "teardown" /\ pc' \notin {"tid", "gpm"} /\ depth > 0
    BY <1>14, Undo
  <2>2. CASE pkg = "glusterfs" /\ "glusterfs" \in srs
    <3>1. CASE depth = 4
      <4>1. pc' = "destroy" /\ depth' = 4
        BY Around, <1>14, <2>1, <2>2, <3>1, Undo, FallingPlace DEF Savers
      <4> QED BY <2>1, <2>2, <3>1, <4>1
    <3>2. CASE depth = 3
      <4>1. Falling = "glusterfs" /\ keep
        BY Around, <2>1, <2>2, <3>2, FallingPlace
      <4>2. pc' = "forget" /\ depth' = 3 /\ todo' = Host
        BY <1>14, <3>2, <4>1, Undo DEF Savers
      <4> QED BY <2>1, <2>2, <3>2, <4>1, <4>2
    <3>3. CASE depth = 2
      <4>1. pc' = "restore" /\ depth' = 2
        BY Around, <1>14, <2>1, <2>2, <3>3, Undo, FallingPlace
      <4> QED BY <2>1, <2>2, <3>3, <4>1
    <3>4. CASE depth = 1
      <4>1. Falling = "absent"
        BY Around, <2>1, <2>2, <3>4, FallingPlace
      <4>2. pc' = "teardown" /\ depth' = 0
        BY <1>14, <3>4, <4>1, Undo DEF Savers
      <4> QED BY <2>1, <2>2, <3>4, <4>2
    <3> QED BY Around, <2>1, <2>2, <3>1, <3>2, <3>3, <3>4
  <2>3. CASE pkg # "glusterfs"
    BY <2>1, <2>3
  <2> QED BY <2>1, <2>2, <2>3
<1>15. CASE DestroySr \/ DestroySrFails \/ Disable \/ Unconfigure \/ RestoreRefused
         \/ TeardownLoopDone
  BY <1>15, Undone DEF DestroySr, DestroySrFails, Disable, Unconfigure, RestoreRefused
<1>16. CASE Forget
  BY <1>i, <1>16 DEF Forget, TypeOK
<1>17. CASE Remove
  BY Around, <1>17 DEF Remove, Yum
<1>18. CASE YumRollback
  BY <1>i, <1>18 DEF YumRollback, Yum, RollbackTargetIsSaved
<1>19. CASE Verify
  <2>1. /\ UNCHANGED <<installed, srs, pkg, depth, keep>> /\ pc = "verify" /\ pc' = "restore" /\ at \in Host
    BY <1>i, <1>19 DEF Verify, TypeOK, PhaseInv
  <2>2. \A h \in Host : savedPkgs'[h] = NoList \/ (savedPkgs'[h] = savedPkgs[h] /\ savedTid'[h] = savedTid[h])
    BY <1>i, <2>1, <1>19 DEF Verify, TypeOK
  <2> QED BY <2>1, <2>2
<1>20. CASE EndPackage \/ (\E p \in Packages : StartPackage(p)) \/ Fail \/ NewSession \/ Kill
  BY <1>20 DEF EndPackage, StartPackage, Fail, RollbackHosts, Setting, Undoing, NewSession, Kill,
     Restart
<1>21. CASE (\E h \in Host : Take(h))
  BY <1>i, <1>21 DEF Take, PhaseInv
<1> QED BY <1>1, <1>2, <1>3, <1>4, <1>5, <1>6, <1>7, <1>8, <1>9, <1>10, <1>11, <1>12, <1>13, <1>14,
           <1>15, <1>16, <1>17, <1>18, <1>19, <1>20, <1>21 DEF Next, Session, Setup, Teardown

\* MooseInv: a host that is saved now was not saved before, hence pristine.
LEMMA MooseKept ==
  ASSUME IInv, MooseInv, Next
  PROVE  MooseInv'
<1> USE DEF hosts, memory, control, origin, bounds, Goto, Loop, HostDone, FixtureUp, FixtureDown, Raise
<1> USE DEF MooseInv, IsSaved
<1>i. TypeOK /\ PhaseInv /\ UnsavedIsPristine
  BY DEF IInv
<1>1. CASE BeginSetup
  <2>1. /\ UNCHANGED <<installed, baseline, pkg>> /\ pc = "setup" /\ depth < Len(Fixtures[pkg])
        /\ depth \in Nat
        /\ pc' \notin {"tid", "gpm"}
    BY Around, <1>1, Begun
  <2>2. pc' = "save" => todo' = Host \/ pkg \notin {"moosefs", "moosefs_to_xfs"} \/ depth' # 0
    <3>1. ASSUME Rising = "save_pool" PROVE HostsOf(Rising) = Host
      BY <3>1 DEF HostsOf
    <3>2. Rising \in Savers /\ pkg \in {"moosefs", "moosefs_to_xfs"} /\ depth = 0 => Rising = "save_pool"
      BY Around, <2>1, FixtureTable DEF Rising
    <3> QED BY Around, <2>1, <3>1, <3>2, <1>1, Begun
  <2>3. pc' = "setup" /\ depth' = 1 => pkg \notin {"moosefs", "moosefs_to_xfs"}
    BY Around, <2>1, <1>1, Begun, RisingPlace
  <2>4. Rising' = "moosefs" /\ pc' = "install" =>
          depth = 1 /\ pkg \in {"moosefs", "moosefs_to_xfs"} /\ todo' \subseteq Host
    BY Around, <1>i, <2>1, <1>1, Begun, RisingPlace DEF HostsOf
  <2> QED BY <2>1, <2>2, <2>3, <2>4
<1>2. CASE SaveList
  BY <1>i, <1>2 DEF SaveList, UnsavedIsPristine
<1>3. CASE SaveRefused \/ SaveTid \/ InstallRefused \/ RunTests \/ Rollback
  BY <1>3 DEF SaveRefused, SaveTid, InstallRefused, RollbackHosts, RunTests, Rollback
<1>4. CASE GpmInstall
  BY <1>4 DEF GpmInstall, Yum
<1>5. CASE GpmRemove
  BY <1>5 DEF GpmRemove, Yum
<1>6. CASE Install
  BY Around, <1>6 DEF Install, Yum
<1>7. CASE Configure
  BY Around, <1>i, <1>7 DEF Configure, PhaseInv
<1>8. CASE CreateSr
  BY Around, <1>i, <1>8, RisingPlace DEF CreateSr, PhaseInv
<1>9. CASE SetupLoopDone
  BY Around, <1>i, <1>9, RisingFacts DEF SetupLoopDone, PhaseInv, Installers
<1>10. CASE BeginTeardown \/ DestroySr \/ DestroySrFails \/ Forget \/ Disable \/ Unconfigure
         \/ RestoreRefused \/ Verify \/ TeardownLoopDone
  BY <1>10, Undo, Undone DEF DestroySr, DestroySrFails, Forget, Disable, Unconfigure, RestoreRefused,
     Verify
<1>11. CASE Remove
  BY <1>11 DEF Remove, Yum
<1>12. CASE YumRollback
  BY <1>12 DEF YumRollback, Yum
<1>13. CASE EndPackage \/ (\E p \in Packages : StartPackage(p)) \/ NewSession \/ Kill
  BY <1>13 DEF EndPackage, StartPackage, NewSession, Kill, Restart
<1>14. CASE (\E h \in Host : Take(h))
  BY Around, <1>i, <1>14 DEF Take, PhaseInv
<1>15. CASE Fail
  BY Around, <1>15 DEF Fail, RollbackHosts, Setting, Undoing
<1> QED BY <1>1, <1>2, <1>3, <1>4, <1>5, <1>6, <1>7, <1>8, <1>9, <1>10, <1>11, <1>12, <1>13, <1>14,
           <1>15 DEF Next, Session, Setup, Teardown

\* QuietInv: the first failure of a session begun cleanly ends it; until then
\* a fixture that goes down puts back what it changed.
LEMMA QuietKept ==
  ASSUME IInv, LoopInv, QuietInv, FreshInv, RollInv, Next
  PROVE  QuietInv'
<1> USE DEF hosts, memory, control, origin, bounds, Goto, Loop, HostDone, FixtureUp, FixtureDown, Raise
<1> USE DEF QuietInv, Quiet, Accounted, GlusterUp, LoopInv
<1>i. TypeOK /\ PhaseInv /\ MigrationInv
  BY DEF IInv
<1>1. CASE BeginSetup
  BY Around, <1>1, Begun, RisingPlace
<1>2. CASE SaveList \/ SaveRefused \/ SaveTid \/ RunTests
  BY <1>2 DEF SaveList, SaveRefused, SaveTid, RunTests
<1>3. CASE GpmInstall
  BY <1>3 DEF GpmInstall, Yum
<1>4. CASE GpmRemove
  BY <1>4 DEF GpmRemove, Yum
<1>5. CASE Install
  <2> SUFFICES ASSUME Quiet' PROVE QuietInv'
    BY DEF QuietInv
  <2>1. /\ UNCHANGED <<pkg, depth, inherited, baseline, faults, keep, altered>>
        /\ pc = "install" /\ pc' \in {"install", "configure"} /\ Rising' = Rising /\ at \in Host
        /\ errors' \in BOOLEAN
    BY Around, <1>i, <1>5 DEF Install, Yum, TypeOK, PhaseInv
  <2>2. Quiet /\ ~keep /\ (\A x \in altered : Accounted(x)) /\ GlusterUp /\ (pc = "disable" => ~errors)
    BY <2>1
  <2> HIDE DEF Quiet
  <2>3. /\ installed' = [installed EXCEPT ![at] = installed[at] \union RpmsOf(Rising)]
        /\ \/ pc' = "configure" /\ Rising = "glusterfs" /\ todo' = todo /\ at' = at
           \/ pc' = "install" /\ Rising # "glusterfs" /\ todo' = todo \ {at}
    BY <2>1, <1>5 DEF Install, Yum
  <2>4. \A x \in altered' : Accounted(x)'
    BY <2>1, <2>2, <2>3
  <2>5. GlusterUp'
    <3>1. pkg = "glusterfs" /\ depth = 2 => Rising = "glusterfs"
      BY Around, <1>i, <2>1, RisingPlace DEF PhaseInv
    <3>2. \A h \in Host : installed[h] \subseteq installed'[h]
      BY <1>i, <2>1, <2>3 DEF TypeOK
    <3>3. Rising = "glusterfs" => "glusterfs-server" \in installed'[at]
      BY Around, <1>i, <2>1, <2>3 DEF TypeOK
    <3> QED BY <2>1, <2>2, <2>3, <3>1, <3>2, <3>3
  <2> QED BY <2>1, <2>2, <2>3, <2>4, <2>5
<1>6. CASE InstallRefused
  BY Around, <1>i, <1>6 DEF InstallRefused, RollbackHosts, TypeOK
<1>7. CASE Configure
  <2> SUFFICES ASSUME Quiet' PROVE QuietInv'
    BY DEF QuietInv
  <2>1. /\ UNCHANGED <<pkg, depth, inherited, baseline, faults, keep, installed>>
        /\ pc \in {"install", "configure"} /\ pc' = "install" /\ Rising \in {"glusterfs", "moosefs"}
        /\ at \in Host
    BY <1>i, <1>7 DEF Configure, TypeOK, PhaseInv
  <2>2. Quiet /\ ~keep /\ (\A x \in altered : Accounted(x)) /\ GlusterUp /\ (pc = "disable" => ~errors)
    BY <2>1
  <2> HIDE DEF Quiet
  <2>3. Rising' = Rising /\ altered' = altered \union {<<Rising, at>>}
        /\ \/ pc = "configure" /\ todo' = todo \ {at}
           \/ pc = "install" /\ Rising = "moosefs" /\ at' = at /\ todo' = todo
    BY Around, <2>1, <1>7 DEF Configure, control
  <2>4. \A x \in altered' : Accounted(x)'
    <3>1. ASSUME NEW x \in altered, Accounted(x) PROVE Accounted(x)'
      BY <2>1, <2>3, <3>1
    <3>2. ASSUME NEW x, x = <<Rising, at>> PROVE Accounted(x)'
      BY <2>1, <2>3, <3>2
    <3> QED BY <2>2, <2>3, <3>1, <3>2
  <2>5. GlusterUp'
    BY Around, <1>i, <2>1, <2>2, <2>3 DEF PhaseInv
  <2> QED BY <2>1, <2>2, <2>3, <2>4, <2>5
<1>8. CASE CreateSr
  <2> SUFFICES ASSUME Quiet' PROVE QuietInv'
    BY DEF QuietInv
  <2>1. /\ UNCHANGED <<pkg, inherited, baseline, faults, keep, installed, altered>>
        /\ pc = "create" /\ pc' \in {"setup", "test", "teardown"} /\ Rising = "sr"
        /\ depth < Len(Fixtures[pkg]) /\ depth \in Nat
    BY Around, <1>i, <1>8 DEF CreateSr, PhaseInv
  <2>2. Quiet /\ ~keep /\ (\A x \in altered : Accounted(x)) /\ GlusterUp /\ (pc = "disable" => ~errors)
    BY <2>1
  <2> HIDE DEF Quiet
  <2>3. depth' \in Nat /\ depth <= depth' /\ (pkg = "glusterfs" => depth = 3)
    BY Around, <2>1, RisingPlace, <1>8 DEF CreateSr
  <2>4. \A x \in altered' : Accounted(x)'
    BY Around, <2>1, <2>2, <2>3
  <2>5. GlusterUp'
    BY <2>1, <2>2, <2>3
  <2> QED BY <2>1, <2>2, <2>3, <2>4, <2>5
<1>9. CASE SetupLoopDone
  <2> SUFFICES ASSUME Quiet' PROVE QuietInv'
    BY DEF QuietInv
  <2>1. /\ UNCHANGED <<pkg, inherited, baseline, faults, keep, installed, altered>>
        /\ pc \in {"save", "install", "rollback"} /\ at = NoHost /\ at' = NoHost /\ todo = {}
        /\ depth < Len(Fixtures[pkg]) /\ depth \in Nat
    BY Around, <1>i, <1>9 DEF SetupLoopDone, PhaseInv
  <2>2. Quiet /\ ~keep /\ (\A x \in altered : Accounted(x)) /\ GlusterUp /\ (pc = "disable" => ~errors)
    BY <2>1
  <2> HIDE DEF Quiet
  <2>3. \/ pc = "rollback" /\ pc' = "teardown" /\ depth' = depth
        \/ pc = "save" /\ Rising = "xfsprogs" /\ pc' = "install" /\ depth' = depth /\ Rising' = Rising
        \/ pc # "rollback" /\ pc' \in {"setup", "test"} /\ depth' = depth + 1
    BY Around, <2>1, <1>9 DEF SetupLoopDone
  <2>a. depth' \in Nat /\ depth <= depth'
    BY <2>1, <2>3
  <2>4. ASSUME NEW x \in altered PROVE Accounted(x)'
    <3>1. x[1] \in {"glusterfs", "moosefs"}
      BY <1>i DEF TypeOK
    <3>2. CASE x \in inherited
      BY <2>1, <3>2
    <3>3. CASE \E i \in 1..depth : Fixtures[pkg][i] = x[1]
      BY <2>1, <2>3, <2>a, <3>3
    <3>4. CASE x \notin inherited /\ ~(\E i \in 1..depth : Fixtures[pkg][i] = x[1])
      <4>1. pc = "install" /\ Rising = x[1]
        BY <2>1, <2>2, <3>4
      <4>2. depth' = depth + 1 /\ pc' \in {"setup", "test"}
        BY <2>3, <4>1
      <4>3. Fixtures[pkg][depth'] = x[1] /\ depth' \in 1..depth'
        BY <2>1, <4>1, <4>2 DEF Rising
      <4> QED BY <2>1, <4>2, <4>3
    <3> QED BY <3>2, <3>3, <3>4
  <2>5. GlusterUp'
    <3>1. CASE pkg = "glusterfs"
      <4>1. depth' > 2 => depth > 2 \/ (pc = "install" /\ depth = 2)
        <5>1. CASE depth' = depth
          BY <5>1
        <5>2. CASE depth' = depth + 1
          <6>1. depth' > 2 => depth = 2 \/ depth > 2
            BY <2>1, <5>2
          <6>2. pc = "save" => depth = 1
            BY Around, <1>i, <2>1, <3>1, RisingPlace, RisingFacts DEF PhaseInv, Savers
          <6> QED BY <2>1, <2>3, <5>2, <6>1, <6>2
        <5> QED BY <2>3, <5>1, <5>2
      <4>2. depth' = 2 => pc' \notin {"install", "configure"}
        BY Around, <2>1, <2>3, <3>1, RisingPlace
      <4> QED BY <2>1, <2>2, <3>1, <4>1, <4>2
    <3>2. CASE pkg # "glusterfs"
      BY <2>1, <3>2
    <3> QED BY <3>1, <3>2
  <2> QED BY <2>1, <2>2, <2>3, <2>4, <2>5
<1>10. CASE Rollback
  <2> SUFFICES ASSUME Quiet' PROVE QuietInv'
    BY DEF QuietInv
  <2>1. /\ UNCHANGED <<pkg, depth, inherited, baseline, faults, keep, installed>>
        /\ pc = "rollback" /\ pc' = "rollback" /\ Rising \in {"glusterfs", "moosefs"} /\ at \in Host
        /\ todo' = todo \ {at} /\ Rising' = Rising
    BY Around, <1>i, <1>10 DEF Rollback, TypeOK, PhaseInv
  <2>2. Quiet /\ ~keep /\ (\A x \in altered : Accounted(x)) /\ GlusterUp /\ (pc = "disable" => ~errors)
    BY <2>1
  <2> HIDE DEF Quiet
  <2>3. faults <= 1
    BY <1>i, <2>2 DEF Quiet, TypeOK
  <2>4. ASSUME NEW x \in altered' PROVE Accounted(x)'
    <3>1. x \in altered /\ Accounted(x)
      BY <2>2, <1>10 DEF Rollback
    <3>2. CASE x \in inherited \/ \E i \in 1..depth : Fixtures[pkg][i] = x[1]
      BY <2>1, <3>2
    <3>3. CASE x \notin inherited /\ ~(\E i \in 1..depth : Fixtures[pkg][i] = x[1])
      <4>1. x[1] = Rising /\ x[2] \in todo
        BY <2>1, <3>1, <3>3
      <4>2. x[2] # at
        <5>1. ASSUME x[2] = at PROVE FALSE
          <6>1. x = <<Rising, at>>
            BY <1>i, <3>1, <4>1, <5>1 DEF TypeOK
          <6>2. Rising = "glusterfs" => "glusterfs-server" \in installed[at]
            BY <2>1, <2>3, <3>1, <3>3, <5>1, <4>1 DEF RollInv
          <6>3. altered' = altered \ {<<Rising, at>>}
            BY <2>1, <6>2, <1>10 DEF Rollback
          <6> QED BY <6>1, <6>3
        <5> QED BY <5>1
      <4> QED BY <2>1, <4>1, <4>2
    <3> QED BY <3>2, <3>3
  <2>5. GlusterUp'
    BY <2>1, <2>2
  <2> QED BY <2>1, <2>2, <2>3, <2>4, <2>5
<1>11. CASE BeginTeardown
  <2> SUFFICES ASSUME Quiet' PROVE QuietInv'
    BY DEF QuietInv
  <2>1. /\ UNCHANGED <<pkg, inherited, baseline, faults, keep, installed, altered>>
        /\ pc = "teardown" /\ depth > 0 /\ depth \in Nat /\ depth' \in Nat /\ depth' <= depth
    BY Around, <1>11, Undo DEF origin, bounds
  <2>2. Quiet /\ ~keep /\ (\A x \in altered : Accounted(x)) /\ GlusterUp /\ (pc = "disable" => ~errors)
    BY <2>1
  <2> HIDE DEF Quiet
  <2>3. /\ \/ depth' = depth
           \/ depth' = depth - 1 /\ Falling \notin {"glusterfs", "moosefs"}
        /\ pc' = "unconfigure" => todo' = Host
        /\ pc' = "disable" => errors' = FALSE
        /\ pc' \notin {"install", "configure"}
    BY <1>11, Undo DEF Savers
  <2>4. ASSUME NEW x \in altered PROVE Accounted(x)'
    <3>1. x[1] \in {"glusterfs", "moosefs"} /\ x[2] \in Host
      BY <1>i DEF TypeOK
    <3>2. CASE x \in inherited
      BY <2>1, <3>2
    <3>3. CASE x \notin inherited
      <4>1. PICK i \in 1..depth : Fixtures[pkg][i] = x[1]
        BY <2>1, <2>2, <3>3
      <4>2. i \in 1..depth'
        <5>1. CASE depth' = depth
          BY <4>1, <5>1
        <5>2. CASE depth' = depth - 1 /\ Falling \notin {"glusterfs", "moosefs"}
          <6>1. i # depth
            BY <3>1, <4>1, <5>2 DEF Falling
          <6> QED BY <2>1, <5>2, <6>1
        <5> QED BY <2>3, <5>1, <5>2
      <4> QED BY <2>1, <2>3, <3>1, <4>1, <4>2
    <3> QED BY <3>2, <3>3
  <2>5. GlusterUp'
    BY <2>1, <2>2, <2>3
  <2> QED BY <2>1, <2>2, <2>3, <2>4, <2>5
<1>12. CASE DestroySr
  <2> SUFFICES ASSUME Quiet' PROVE QuietInv'
    BY DEF QuietInv
  <2>1. /\ UNCHANGED <<pkg, inherited, baseline, faults, keep, installed, altered>>
        /\ pc = "destroy" /\ pc' = "teardown" /\ depth > 0 /\ depth \in Nat /\ depth' = depth - 1
        /\ Falling = "sr"
    BY Around, <1>i, <1>12 DEF DestroySr, PhaseInv, LoopInv
  <2>2. Quiet /\ ~keep /\ (\A x \in altered : Accounted(x)) /\ GlusterUp /\ (pc = "disable" => ~errors)
    BY <2>1
  <2> HIDE DEF Quiet
  <2>3. depth' \in Nat /\ depth' <= depth
    BY <2>1
  <2>4. ASSUME NEW x \in altered PROVE Accounted(x)'
    <3>1. x[1] \in {"glusterfs", "moosefs"}
      BY <1>i DEF TypeOK
    <3>2. CASE x \in inherited
      BY <2>1, <3>2
    <3>3. CASE x \notin inherited
      <4>1. PICK i \in 1..depth : Fixtures[pkg][i] = x[1]
        BY <2>1, <2>2, <3>3
      <4>2. i # depth
        BY <2>1, <3>1, <4>1 DEF Falling
      <4>3. i \in 1..depth'
        BY <2>1, <4>2
      <4> QED BY <2>1, <4>1, <4>3
    <3> QED BY <3>2, <3>3
  <2>5. GlusterUp'
    BY <2>1, <2>2, <2>3
  <2> QED BY <2>1, <2>2, <2>3, <2>4, <2>5
<1>13. CASE DestroySrFails
  <2>1. faults' = faults + 1 /\ UNCHANGED baseline /\ faults \in Nat
    BY <1>i, <1>13 DEF DestroySrFails, TypeOK
  <2>2. faults = 0 => ~Quiet'
    BY <2>1 DEF FreshInv
  <2>3. faults # 0 => ~Quiet'
    BY <2>1
  <2> QED BY <2>2, <2>3
<1>14. CASE Forget \/ RestoreRefused \/ Verify
  BY <1>14 DEF Forget, RestoreRefused, Verify
<1>15. CASE Remove
  BY <1>15 DEF Remove, Yum
<1>16. CASE Disable
  BY <1>i, <1>16, FallingPlace DEF Disable, TypeOK, PhaseInv
<1>17. CASE Unconfigure
  <2> SUFFICES ASSUME Quiet' PROVE QuietInv'
    BY DEF QuietInv
  <2>1. /\ UNCHANGED <<pkg, depth, inherited, baseline, faults, keep, installed>>
        /\ pc = "unconfigure" /\ pc' = "unconfigure" /\ depth > 0
        /\ Falling \in {"glusterfs", "moosefs"} /\ at \in Host /\ todo' = todo \ {at}
    BY Around, <1>i, <1>17 DEF Unconfigure, TypeOK, PhaseInv
  <2>2. Quiet /\ ~keep /\ (\A x \in altered : Accounted(x)) /\ GlusterUp /\ (pc = "disable" => ~errors)
    BY <2>1
  <2> HIDE DEF Quiet
  <2>3. altered' = altered \ {<<Falling, at>>}
    BY <1>17 DEF Unconfigure
  <2>4. ASSUME NEW x \in altered' PROVE Accounted(x)'
    <3>1. x \in altered /\ Accounted(x) /\ x # <<Falling, at>> /\ x[1] \in {"glusterfs", "moosefs"} /\ x = <<x[1], x[2]>>
      BY <1>i, <2>2, <2>3 DEF TypeOK
    <3>2. CASE x \in inherited
      BY <2>1, <3>2
    <3>3. CASE x \notin inherited
      <4>1. PICK i \in 1..depth : Fixtures[pkg][i] = x[1] /\ x[2] \in todo
        BY <2>1, <3>1, <3>3
      <4>2. i = depth
        <5>1. depth \in 1..Len(Fixtures[pkg]) /\ i \in 1..Len(Fixtures[pkg])
          BY Around, <2>1, <4>1
        <5> QED BY Around, <2>1, <3>1, <4>1, <5>1, OneConfigures DEF Falling
      <4>3. x[2] # at
        BY <3>1, <4>1, <4>2 DEF Falling
      <4> QED BY <2>1, <4>1, <4>3
    <3> QED BY <3>2, <3>3
  <2>5. GlusterUp'
    BY <2>1, <2>2
  <2> QED BY <2>1, <2>2, <2>3, <2>4, <2>5
<1>18. CASE YumRollback
  BY Around, <1>i, <1>18, FallingFacts DEF YumRollback, Yum, PhaseInv, Savers
<1>19. CASE TeardownLoopDone
  <2> SUFFICES ASSUME Quiet' PROVE QuietInv'
    BY DEF QuietInv
  <2>1. /\ UNCHANGED <<pkg, inherited, baseline, faults, keep, installed, altered>>
        /\ pc \in {"restore", "disable", "unconfigure", "remove", "forget"} /\ depth > 0
        /\ depth \in Nat /\ depth' \in Nat /\ depth' <= depth /\ todo = {}
    BY Around, <1>19, Undone DEF origin, bounds
  <2>2. Quiet /\ ~keep /\ (\A x \in altered : Accounted(x)) /\ GlusterUp /\ (pc = "disable" => ~errors)
    BY <2>1
  <2> HIDE DEF Quiet
  <2>3. \/ pc = "disable" /\ pc' = "unconfigure" /\ depth' = depth /\ todo' = Host
        \/ pc \notin {"disable", "forget"} /\ pc' = "teardown" /\ depth' = depth - 1
    BY <2>2, <1>19, Undone DEF LoopInv
  <2>4. ASSUME NEW x \in altered PROVE Accounted(x)'
    <3>1. x[1] \in {"glusterfs", "moosefs"} /\ x[2] \in Host
      BY <1>i DEF TypeOK
    <3>2. CASE x \in inherited
      BY <2>1, <3>2
    <3>3. CASE x \notin inherited
      <4>1. PICK i \in 1..depth : Fixtures[pkg][i] = x[1] /\ pc # "unconfigure"
        BY <2>1, <2>2, <3>3
      <4>2. CASE pc = "disable"
        BY <2>1, <2>3, <3>1, <4>1, <4>2
      <4>3. CASE pc # "disable"
        <5>1. pc \in {"restore", "remove"} /\ pc' = "teardown" /\ depth' = depth - 1
          BY <2>1, <2>3, <4>1, <4>3
        <5>2. i # depth
          BY <1>i, <3>1, <4>1, <5>1 DEF PhaseInv, Savers, Falling
        <5>3. i \in 1..depth'
          BY <2>1, <5>1, <5>2
        <5> QED BY <2>1, <4>1, <5>1, <5>3
      <4> QED BY <4>2, <4>3
    <3> QED BY <3>2, <3>3
  <2>5. GlusterUp'
    BY <2>1, <2>2, <2>3
  <2> QED BY <2>1, <2>2, <2>3, <2>4, <2>5
<1>20. CASE EndPackage \/ NewSession \/ Kill
  BY <1>20 DEF EndPackage, NewSession, Kill, Restart
<1>21. CASE (\E p \in Packages : StartPackage(p))
  BY <1>i, <1>21 DEF StartPackage, PhaseInv
<1>22. CASE (\E h \in Host : Take(h))
  BY Around, <1>i, <1>22 DEF Take, TypeOK, PhaseInv
<1>23. CASE Fail
  <2>1. faults' = faults + 1 /\ UNCHANGED baseline /\ faults \in Nat
    BY <1>i, <1>23 DEF Fail, TypeOK
  <2>2. faults = 0 => ~Quiet'
    BY <2>1 DEF FreshInv
  <2>3. faults # 0 => ~Quiet'
    BY <2>1
  <2> QED BY <2>2, <2>3
<1> QED BY <1>1, <1>2, <1>3, <1>4, <1>5, <1>6, <1>7, <1>8, <1>9, <1>10, <1>11, <1>12, <1>13, <1>14,
           <1>15, <1>16, <1>17, <1>18, <1>19, <1>20, <1>21, <1>22, <1>23 DEF Next, Session, Setup,
           Teardown

\* RollInv: the hosts to roll back are those the fixture has been through.
LEMMA RollKept ==
  ASSUME IInv, QuietInv, FreshInv, MooseInv, RollInv, Next
  PROVE  RollInv'
<1> USE DEF hosts, memory, control, origin, bounds, Goto, Loop, HostDone, FixtureUp, FixtureDown, Raise
<1> USE DEF RollInv
<1>i. TypeOK /\ PhaseInv
  BY DEF IInv
<1>1. CASE BeginSetup \/ SaveList \/ SaveRefused \/ SaveTid \/ Configure \/ CreateSr
         \/ SetupLoopDone \/ RunTests
  BY <1>1, Begun DEF SaveList, SaveRefused, SaveTid, Configure, CreateSr, SetupLoopDone, RunTests
<1>2. CASE GpmInstall
  BY <1>2 DEF GpmInstall, Yum
<1>3. CASE GpmRemove
  BY <1>3 DEF GpmRemove, Yum
<1>4. CASE Install
  BY <1>4 DEF Install, Yum
<1>5. CASE InstallRefused
  <2> SUFFICES ASSUME faults' <= 1 PROVE RollInv'
    BY DEF RollInv
  <2>1. /\ pc = "install" /\ Rising = "moosefs" /\ at \in Host /\ at \in todo
        /\ "moosefs-client" \in installed[at]
        /\ todo' = (Host \ todo) \union {at} /\ Rising' = Rising /\ depth < Len(Fixtures[pkg])
        /\ UNCHANGED <<altered, inherited, faults, baseline, installed>>
    BY Around, <1>i, <1>5 DEF InstallRefused, RollbackHosts, TypeOK, PhaseInv
  <2>2. "moosefs-client" \in baseline[at]
    BY <2>1 DEF MooseInv
  <2>3. faults = 1 /\ Quiet
    BY <1>i, <2>1, <2>2 DEF FreshInv, Quiet, TypeOK
  <2>4. ASSUME NEW x \in altered \ inherited, Quiet
        PROVE  x[1] = Rising /\ (x[2] \notin todo \/ (x[2] = at /\ Rising = "moosefs"))
    <3>1. x[1] \in {"glusterfs", "moosefs"} /\ Accounted(x)
      BY <1>i, <2>4 DEF TypeOK, QuietInv
    <3>2. ~\E i \in 1..depth : Fixtures[pkg][i] = x[1]
      <4>1. ASSUME NEW i \in 1..depth, Fixtures[pkg][i] = x[1] PROVE FALSE
        <5>1. depth + 1 \in 1..Len(Fixtures[pkg]) /\ i \in 1..Len(Fixtures[pkg]) /\ i # depth + 1
          BY Around, <2>1
        <5> QED BY Around, <2>1, <3>1, <4>1, <5>1, OneConfigures DEF Rising
      <4> QED BY <4>1
    <3> QED BY <2>1, <3>1, <3>2 DEF Accounted
  <2>5. \A x \in altered : x[2] \in Host
    BY <1>i DEF TypeOK
  <2> QED BY <2>1, <2>3, <2>4, <2>5 DEF RollInv
<1>6. CASE Rollback
  <2>1. /\ pc = "rollback" /\ at \in Host /\ todo' = todo \ {at} /\ Rising' = Rising
        /\ UNCHANGED <<inherited, installed, faults>> /\ altered' \subseteq altered
    BY Around, <1>i, <1>6 DEF Rollback, TypeOK
  <2> SUFFICES ASSUME faults <= 1 PROVE RollInv'
    BY <2>1 DEF RollInv
  <2>2. ASSUME NEW x \in altered' \ inherited' PROVE x[2] # at
    <3>1. x[1] = Rising /\ (x[2] = at => x = <<Rising, at>>) /\ x \in altered
      BY <1>i, <2>1, <2>2 DEF RollInv, TypeOK
    <3>2. x[2] = at => altered' = altered \ {<<Rising, at>>}
      BY <1>6, <2>1, <2>2, <3>1 DEF Rollback, RollInv
    <3> QED BY <2>2, <3>1, <3>2
  <2> QED BY <2>1, <2>2 DEF RollInv
<1>7. CASE BeginTeardown \/ DestroySr \/ DestroySrFails \/ Forget \/ Disable \/ Unconfigure
         \/ RestoreRefused \/ Verify \/ TeardownLoopDone
  BY <1>7, Undo, Undone DEF DestroySr, DestroySrFails, Forget, Disable, Unconfigure, RestoreRefused,
     Verify
<1>8. CASE Remove
  BY <1>8 DEF Remove, Yum
<1>9. CASE YumRollback
  BY <1>9 DEF YumRollback, Yum
<1>10. CASE EndPackage \/ (\E p \in Packages : StartPackage(p)) \/ NewSession \/ Kill
  BY <1>10 DEF EndPackage, StartPackage, NewSession, Kill, Restart
<1>11. CASE (\E h \in Host : Take(h))
  BY Around, <1>11 DEF Take
<1>12. CASE Fail
  <2> SUFFICES ASSUME faults' <= 1, pc' = "rollback" PROVE RollInv'
    BY DEF RollInv
  <2>0. faults = 0 /\ faults' = 1 /\ UNCHANGED <<inherited, installed>>
    BY <1>i, <1>12 DEF Fail, TypeOK
  <2>q. pc # "rollback" /\ Quiet
    BY <2>0 DEF RollInv, Quiet
  <2>1. /\ pc \in {"install", "configure"} /\ Rising \in {"glusterfs", "moosefs"}
        /\ depth < Len(Fixtures[pkg])
        /\ todo' = (Host \ todo) \union {at} /\ Rising' = Rising
        /\ altered' = altered \/ (pc = "configure" /\ altered' = altered \union {<<Rising, at>>})
        /\ pc = "configure" => Rising = "glusterfs"
    BY Around, <1>i, <2>q, <1>12 DEF Fail, RollbackHosts, PhaseInv, Undoing, Setting
  <2>2. ASSUME NEW x \in altered \ inherited, Quiet
        PROVE  x[1] = Rising /\ (x[2] \notin todo \/ (x[2] = at /\ Rising = "moosefs"))
    <3>1. x[1] \in {"glusterfs", "moosefs"} /\ Accounted(x)
      BY <1>i, <2>2 DEF TypeOK, QuietInv
    <3>2. ~\E i \in 1..depth : Fixtures[pkg][i] = x[1]
      <4>1. ASSUME NEW i \in 1..depth, Fixtures[pkg][i] = x[1] PROVE FALSE
        <5>1. depth + 1 \in 1..Len(Fixtures[pkg]) /\ i \in 1..Len(Fixtures[pkg]) /\ i # depth + 1
          BY Around, <2>1
        <5> QED BY Around, <2>1, <3>1, <4>1, <5>1, OneConfigures DEF Rising
      <4> QED BY <4>1
    <3> QED BY <2>1, <3>1, <3>2 DEF Accounted
  <2>3. Rising = "glusterfs" =>
          \A h \in Host : h \notin todo \/ (pc = "configure" /\ h = at) => "glusterfs-server" \in installed[h]
    BY Around, <2>1, <2>q, RisingPlace DEF QuietInv, GlusterUp
  <2>4. at \in Host
    BY <1>i, <1>12, <2>1 DEF Fail, TypeOK
  <2>5. ASSUME NEW x \in altered' \ inherited'
        PROVE  x[1] = Rising' /\ x[2] \in todo' /\ (Rising' = "glusterfs" => "glusterfs-server" \in installed'[x[2]])
    <3>1. CASE x \in altered
      <4>1. x[2] \in Host
        BY <1>i, <3>1 DEF TypeOK
      <4> QED BY <2>0, <2>1, <2>2, <2>3, <2>q, <2>5, <3>1, <4>1
    <3>2. CASE x = <<Rising, at>> /\ pc = "configure"
      <4>1. x[1] = Rising /\ x[2] = at
        BY <3>2
      <4> QED BY <2>0, <2>1, <2>3, <2>4, <3>2, <4>1
    <3> QED BY <2>1, <2>5, <3>1, <3>2
  <2> QED BY <2>0, <2>5 DEF RollInv
<1> QED BY <1>1, <1>2, <1>3, <1>4, <1>5, <1>6, <1>7, <1>8, <1>9, <1>10, <1>11, <1>12 DEF Next,
           Session, Setup, Teardown

\* FreshInv: without a failure every restore takes back what was saved, and what
\* is saved is restored by the end of its package.
LEMMA FreshKept ==
  ASSUME IInv, LoopInv, QuietInv, FreshInv, Next
  PROVE  FreshInv'
<1> USE DEF hosts, memory, control, origin, bounds, Goto, Loop, HostDone, FixtureUp, FixtureDown, Raise
<1> USE DEF FreshInv, SavedNow, LoopInv, IsSaved
<1>i. TypeOK /\ PhaseInv /\ RollbackTargetIsSaved /\ MigrationInv /\ UnsavedIsPristine
  BY DEF IInv
<1>q. faults = 0 => ~keep /\ \A x \in altered : Accounted(x)
  BY DEF QuietInv, Quiet
<1>1. CASE BeginSetup
  BY Around, <1>1, Begun, RisingFacts
<1>2. CASE SaveList
  <2>1. /\ UNCHANGED <<inherited, baseline, faults, pkg, depth, todo, srs, savedTid, at>>
        /\ pc = "save" /\ pc' = "tid"
        /\ at \in Host /\ at \in HostsOf(Rising) /\ Rising \in Savers /\ depth < Len(Fixtures[pkg])
        /\ \A h \in Host : h # at => savedPkgs'[h] = savedPkgs[h]
    BY <1>i, <1>2 DEF SaveList, TypeOK, PhaseInv
  <2>2. SavedNow(at)'
    <3>1. CASE pkg = "xfs"
      <4>1. Rising = "xfsprogs" /\ depth = 0
        BY Around, <2>1, <3>1, RisingFacts DEF Savers
      <4> QED BY Around, <2>1, <3>1, <4>1
    <3>2. CASE pkg # "xfs"
      <4>1. CASE Rising = "xfsprogs"
        BY Around, <2>1, <3>2, <4>1, RisingFacts DEF SavedHosts
      <4>2. CASE Rising # "xfsprogs"
        BY Around, <2>1, <3>2, <4>2, RisingFacts DEF Savers
      <4> QED BY <4>1, <4>2
    <3> QED BY <3>1, <3>2
  <2>3. \A h \in Host : SavedNow(h) => SavedNow(h)'
    BY <2>1
  <2>4. Falling' = Falling
    BY Around, <2>1
  <2> QED BY <2>1, <2>2, <2>3, <2>4
<1>3. CASE SaveRefused
  BY Around, <1>i, <1>3 DEF SaveRefused, TypeOK
<1>4. CASE GpmInstall
  BY Around, <1>4 DEF GpmInstall, Yum
<1>5. CASE GpmRemove
  BY Around, <1>5 DEF GpmRemove, Yum
<1>6. CASE SaveTid
  BY Around, <1>i, <1>6 DEF SaveTid, TypeOK
<1>7. CASE Install
  BY Around, <1>7, RisingPlace DEF Install, Yum, PhaseInv
<1>8. CASE InstallRefused
  BY Around, <1>i, <1>8, RisingPlace DEF InstallRefused, RollbackHosts
<1>9. CASE Configure
  BY Around, <1>9 DEF Configure
<1>10. CASE CreateSr
  <2>1. /\ UNCHANGED <<inherited, baseline, faults, savedPkgs, savedTid, pkg>>
        /\ pc' \notin {"restore", "verify"}
        /\ pc = "create" /\ Rising = "sr" /\ depth < Len(Fixtures[pkg]) /\ depth \in Nat
    BY Around, <1>i, <1>10 DEF CreateSr, PhaseInv
  <2>2. faults = 0 => srs = {}
    BY Around, <2>1, FallingPlace
  <2>3. \/ srs' = srs /\ depth' = depth
        \/ srs' = srs \union {pkg} /\ depth' = depth + 1
    BY <1>10 DEF CreateSr
  <2>4. \A h \in Host : SavedNow(h) => SavedNow(h)'
    BY Around, <2>1, <2>3
  <2>5. faults = 0 /\ srs' # {} => depth' > 0 /\ Falling' = "sr" /\ srs' = {pkg}
    <3>1. depth' = depth + 1 => Falling' = "sr"
      BY <2>1 DEF Falling, Rising
    <3> QED BY <2>1, <2>2, <2>3, <3>1
  <2> QED BY <2>1, <2>4, <2>5
<1>11. CASE SetupLoopDone
  BY Around, <1>i, <1>11, RisingFacts, FallingPlace DEF SetupLoopDone, PhaseInv, RollbackTargetIsSaved
<1>12. CASE RunTests
  BY Around, <1>12 DEF RunTests
<1>13. CASE Rollback
  BY Around, <1>13 DEF Rollback
<1>14. CASE BeginTeardown
  <2> SUFFICES ASSUME faults = 0 PROVE FreshInv'
    BY <1>14, Undo
  <2>1. /\ UNCHANGED <<inherited, baseline, faults, savedPkgs, savedTid, srs, pkg, keep>>
        /\ pc = "teardown" /\ pc' \notin {"tid", "gpm"} /\ depth > 0 /\ ~keep /\ depth' \in Nat
    BY <1>q, <1>14, Undo
  <2>2. ASSUME NEW h \in Host, SavedNow(h) PROVE SavedNow(h)'
    <3>1. CASE pkg = "xfs"
      <4>1. CASE depth = 1
        <5>1. Falling = "xfsprogs"
          BY Around, <2>1, <3>1, <4>1, FallingPlace
        <5>2. pc' = "restore" /\ depth' = 1 /\ todo' = {A2}
          BY Around, <1>14, <2>1, <4>1, <5>1, Undo
        <5> QED BY <2>1, <2>2, <3>1, <5>2
      <4>2. CASE depth = 2
        <5>1. Falling = "sr"
          BY Around, <2>1, <3>1, <4>2, FallingPlace
        <5>2. pc' = "destroy" /\ depth' = 2
          BY <1>14, <4>2, <5>1, Undo DEF Savers
        <5> QED BY <2>1, <2>2, <3>1, <5>2
      <4> QED BY Around, <2>1, <3>1, <4>1, <4>2, FallingPlace
    <3>2. CASE pkg # "xfs"
      <4>1. depth >= SaveDepth(pkg) /\ h \in SavedHosts(pkg) /\ pkg # "none"
        BY Around, <2>1, <2>2, <3>2
      <4>2. CASE Falling \in {"save_master", "save_pool"}
        <5>1. HostsOf(Falling) = SavedHosts(pkg) /\ todo' = HostsOf(Falling) /\ depth' = depth
          BY Around, <2>1, <4>2, <1>14, Undo, FallingPlace
        <5> QED BY <2>1, <3>2, <4>1, <5>1
      <4>3. CASE Falling = "xfsprogs"
        BY Around, <1>i, <2>1, <3>2, <4>3, FallingFacts DEF MigrationInv
      <4>4. CASE Falling \in {"absent", "zfs", "ceph"}
        <5>1. depth = SaveDepth(pkg) + 1
          BY Around, <2>1, <4>1, <4>4, FallingFacts
        <5>2. depth' = depth - 1 /\ pc' = "teardown"
          BY <1>14, <4>4, Undo DEF Savers
        <5>3. depth' >= SaveDepth(pkg)
          BY Around, <5>1, <5>2
        <5> QED BY <2>1, <3>2, <4>1, <5>2, <5>3
      <4>5. CASE Falling \in {"glusterfs", "moosefs", "linstor", "sr"}
        <5>1. depth' = depth /\ pc' \notin {"restore", "verify"}
          BY <1>14, <4>5, Undo DEF Savers
        <5> QED BY <2>1, <3>2, <4>1, <5>1
      <4> QED BY Around, <2>1, <4>2, <4>3, <4>4, <4>5, FallingFacts DEF Savers, Installers
    <3> QED BY <3>1, <3>2
  <2>3. srs # {} => depth' > 0 /\ Falling' = "sr"
    <3>1. Falling = "sr" => depth' = depth
      BY <1>14, Undo DEF Savers
    <3> QED BY Around, <2>1, <3>1
  <2> QED BY <2>1, <2>2, <2>3
<1>15. CASE DestroySr
  <2>1. /\ UNCHANGED <<inherited, baseline, faults, savedPkgs, savedTid, pkg>> /\ pc' = "teardown"
        /\ pc = "destroy" /\ Falling = "sr" /\ depth > 0 /\ depth \in Nat /\ depth' = depth - 1
    BY Around, <1>i, <1>15 DEF DestroySr, PhaseInv
  <2>2. faults = 0 => srs' = {}
    BY <1>15 DEF DestroySr
  <2>3. \A h \in Host : SavedNow(h) => SavedNow(h)'
    <3>1. CASE pkg = "xfs"
      <4>1. depth = 2
        BY Around, <2>1, <3>1, FallingPlace
      <4> QED BY <2>1, <3>1, <4>1
    <3>2. CASE pkg # "xfs"
      <4>1. depth > SaveDepth(pkg) + 1
        BY Around, <2>1, <3>2, FallingFacts
      <4>2. depth' >= SaveDepth(pkg)
        BY Around, <2>1, <4>1
      <4> QED BY <2>1, <3>2, <4>2
    <3> QED BY <3>1, <3>2
  <2> QED BY <2>1, <2>2, <2>3
<1>16. CASE DestroySrFails
  BY <1>i, <1>16 DEF DestroySrFails, TypeOK
<1>17. CASE Forget
  <2>1. faults # 0 /\ faults' = faults
    BY <1>q, <1>17 DEF Forget
  <2> QED BY <2>1
<1>18. CASE Remove
  BY <1>i, <1>18 DEF Remove, Yum, PhaseInv
<1>19. CASE Disable
  BY <1>19 DEF Disable
<1>20. CASE Unconfigure
  BY <1>i, <1>20 DEF Unconfigure, PhaseInv
<1>21. CASE RestoreRefused
  BY Around, <1>21 DEF RestoreRefused
<1>22. CASE YumRollback
  BY Around, <1>22 DEF YumRollback, Yum
<1>23. CASE Verify
  <2>1. /\ UNCHANGED <<inherited, baseline, faults, pkg, depth, srs>> /\ pc = "verify"
        /\ pc' = "restore" /\ at \in Host
        /\ installed[at] = savedPkgs[at] /\ todo' = todo \ {at}
    BY <1>i, <1>23 DEF Verify, TypeOK, PhaseInv, RollbackTargetIsSaved
  <2>2. savedPkgs'[at] = NoList /\ \A h \in Host : h # at => savedPkgs'[h] = savedPkgs[h] /\ savedTid'[h] = savedTid[h]
    BY <1>i, <2>1, <1>23 DEF Verify, TypeOK
  <2>3. \A h \in Host : h # at /\ SavedNow(h) => SavedNow(h)'
    BY <2>1
  <2>4. Falling' = Falling
    BY Around, <2>1
  <2> QED BY <2>1, <2>2, <2>3, <2>4
<1>24. CASE TeardownLoopDone
  <2> SUFFICES ASSUME faults = 0 PROVE FreshInv'
    BY <1>24, Undone
  <2>1. /\ UNCHANGED <<inherited, baseline, faults, savedPkgs, savedTid, srs, pkg>> /\ depth > 0
        /\ pc \in {"restore", "disable", "unconfigure", "remove"} /\ todo = {}
        /\ pc' \in {"teardown", "unconfigure"}
        /\ depth' \in Nat /\ (depth' = depth \/ depth' = depth - 1)
    BY <1>q, <1>24, Undone
  <2>2. srs = {}
    BY Around, <1>i, <2>1 DEF PhaseInv, Savers
  <2>3. ASSUME NEW h \in Host, SavedNow(h) PROVE SavedNow(h)'
    <3>1. pc # "restore" /\ depth = SaveDepth(pkg) + 1 /\ pkg \notin {"xfs", "none"}
      <4>1. pc # "restore"
        BY <2>1, <2>3
      <4>2. Falling \in {"glusterfs", "moosefs", "linstor"}
        BY <1>i, <2>1, <4>1 DEF PhaseInv
      <4> QED BY Around, <2>1, <4>1, <4>2, FallingFacts
    <3>2. depth' >= SaveDepth(pkg)
      BY Around, <2>1, <3>1
    <3> QED BY <2>1, <2>3, <3>1, <3>2
  <2> QED BY <2>1, <2>2, <2>3
<1>25. CASE EndPackage
  <2>1. /\ UNCHANGED <<inherited, baseline, faults, savedPkgs, savedTid, srs>> /\ depth = 0 /\ pc = "teardown"
    BY <1>25 DEF EndPackage
  <2>2. \A h \in Host : ~SavedNow(h)
    BY Around, <2>1
  <2> QED BY <2>1, <2>2
<1>26. CASE (\E p \in Packages : StartPackage(p))
  BY <1>i, <1>26 DEF StartPackage, PhaseInv
<1>27. CASE (\E h \in Host : Take(h))
  BY Around, <1>27 DEF Take
<1>28. CASE Fail
  BY <1>i, <1>28 DEF Fail, RollbackHosts, Setting, Undoing, TypeOK
<1>29. CASE NewSession \/ Kill
  <2>1. CASE Kill
    <3>1. faults' = faults + 1 /\ faults \in Nat
      BY <1>i, <2>1 DEF Kill, TypeOK
    <3>2. faults' # 0
      BY <3>1
    <3> QED BY <3>2
  <2>2. CASE NewSession /\ faults = 0
    <3>1. pkg = "none" /\ depth = 0 /\ pc = "idle"
      BY <1>i, <2>2 DEF NewSession, PhaseInv
    <3>2. altered = {}
      BY <1>q, <2>2, <3>1 DEF Accounted
    <3>3. srs = {} /\ \A h \in Host : ~IsSaved(h)
      BY <2>2, <3>1
    <3>4. installed = baseline
      BY <1>i, <3>3 DEF UnsavedIsPristine, TypeOK
    <3> QED BY <2>2, <3>2, <3>3, <3>4 DEF NewSession, Restart
  <2>3. CASE NewSession /\ faults # 0
    BY <2>3 DEF NewSession
  <2> QED BY <1>29, <2>1, <2>2, <2>3
<1> QED BY <1>1, <1>2, <1>3, <1>4, <1>5, <1>6, <1>7, <1>8, <1>9, <1>10, <1>11, <1>12, <1>13, <1>14,
           <1>15, <1>16, <1>17, <1>18, <1>19, <1>20, <1>21, <1>22, <1>23, <1>24, <1>25, <1>26, <1>27,
           <1>28, <1>29 DEF Next, Session, Setup, Teardown

\* A session begins with clean hosts.
LEMMA InitTInv == Init => TInv
<1> SUFFICES ASSUME Init PROVE TInv
  OBVIOUS
<1>1. /\ pc = "idle" /\ pkg = "none" /\ depth = 0 /\ todo = {} /\ srs = {} /\ altered = {} /\ inherited = {}
      /\ keep = FALSE /\ \A h \in Host : savedPkgs[h] = NoList
  BY DEF Init
<1>2. \A h \in Host : "moosefs-client" \notin baseline[h]
  <2>1. \A h \in Host : history[h] \in {<<>>, <<{}>>, <<{"gpm-libs"}>>}
                        /\ baseline[h] = IF history[h] = <<>> THEN {} ELSE history[h][1]
    BY DEF Init
  <2> QED BY <2>1
<1>3. LoopInv /\ XfsInv /\ GlusterInv
  BY <1>1 DEF LoopInv, XfsInv, GlusterInv
<1>4. QuietInv /\ MooseInv /\ RollInv
  BY <1>1 DEF QuietInv, GlusterUp, MooseInv, RollInv
<1>5. FreshInv
  BY <1>1, <1>2 DEF FreshInv, IsSaved
<1> QED BY <1>3, <1>4, <1>5 DEF TInv

\* A step that changes nothing.
LEMMA TInvStutter == ASSUME TInv, UNCHANGED vars PROVE TInv'
<1> USE DEF vars, hosts, memory, control, origin, bounds, Rising, Falling
<1>1. LoopInv'
  BY DEF TInv, LoopInv
<1>2. XfsInv'
  BY DEF TInv, XfsInv, IsSaved
<1>3. GlusterInv'
  BY DEF TInv, GlusterInv, IsSaved
<1>4. QuietInv'
  <2>1. Quiet' = Quiet /\ GlusterUp' = GlusterUp
    BY DEF Quiet, GlusterUp
  <2>2. \A x \in altered : Accounted(x) => Accounted(x)'
    BY DEF Accounted
  <2> QED BY <2>1, <2>2 DEF TInv, QuietInv
<1>5. MooseInv' /\ RollInv'
  BY DEF TInv, MooseInv, RollInv
<1>6. FreshInv'
  <2>1. \A h \in Host : SavedNow(h) => SavedNow(h)'
    BY DEF SavedNow
  <2> QED BY <2>1 DEF TInv, FreshInv, IsSaved
<1> QED BY <1>1, <1>2, <1>3, <1>4, <1>5, <1>6 DEF TInv

\* TInv is inductive under IInv.
LEMMA TInvInductive == IInv /\ TInv /\ [Next]_vars => TInv'
<1> SUFFICES ASSUME IInv, TInv, [Next]_vars PROVE TInv'
  OBVIOUS
<1>1. CASE Next
  BY <1>1, LoopKept, XfsKept, GlusterKept, QuietKept, MooseKept, RollKept, FreshKept DEF TInv
<1>2. CASE UNCHANGED vars
  BY <1>2, TInvStutter
<1> QED BY <1>1, <1>2

\* Between packages, as long as nothing has failed, the pool is as it was found.
LEMMA NothingLeft == IInv /\ TInv => KeptForManualCleanup /\ NoTraceWithoutFault
<1> SUFFICES ASSUME IInv, TInv PROVE KeptForManualCleanup /\ NoTraceWithoutFault
  OBVIOUS
<1>1. KeptForManualCleanup
  BY DEF TInv, XfsInv, GlusterInv, KeptForManualCleanup
<1>2. ASSUME pc = "idle", faults = 0
      PROVE  /\ installed = baseline /\ altered = {} /\ srs = {}
             /\ \A h \in Host : savedPkgs[h] = NoList /\ savedTid[h] = 0
  <2>1. pkg = "none" /\ depth = 0
    BY <1>2 DEF IInv, PhaseInv
  <2>2. srs = {} /\ inherited = {} /\ \A h \in Host : ~IsSaved(h)
    BY <1>2, <2>1 DEF TInv, FreshInv, SavedNow
  <2>3. \A h \in Host : savedPkgs[h] = NoList /\ savedTid[h] = 0
    BY <2>2 DEF IInv, RollbackTargetIsSaved, IsSaved
  <2>4. installed = baseline
    BY <2>3 DEF IInv, UnsavedIsPristine, TypeOK
  <2>5. altered = {}
    BY <1>2, <2>1, <2>2 DEF TInv, QuietInv, Quiet, Accounted
  <2> QED BY <2>2, <2>3, <2>4, <2>5
<1> QED BY <1>1, <1>2 DEF NoTraceWithoutFault

\* A rollback ends when it has gone through its hosts.
LEMMA RollbackUndoesAll ==
  ASSUME TInv, [Next]_vars, pc = "rollback", pc' = "teardown", faults <= 1
  PROVE  altered' \subseteq inherited
<1>1. SetupLoopDone \/ Kill
  <2> USE DEF Session, Setup, Teardown, Goto, Loop, HostDone, FixtureUp, FixtureDown, Raise, vars, control
  <2>1. Next
    OBVIOUS
  <2>2. ~Session
    BY DEF EndPackage, NewSession, StartPackage
  <2>3. ~(RunTests \/ Rollback \/ Fail \/ \E h \in Host : Take(h))
    BY DEF RunTests, Rollback, Fail, Take, Setting, Undoing
  <2>4. ~Teardown
    BY DEF BeginTeardown, DestroySr, DestroySrFails, Forget, Remove, Disable,
           Unconfigure, RestoreRefused, YumRollback, Verify, TeardownLoopDone
  <2>5. Setup => SetupLoopDone
    BY DEF BeginSetup, SaveList, SaveRefused, GpmInstall, GpmRemove, SaveTid,
           Install, InstallRefused, Configure, CreateSr
  <2> QED BY <2>1, <2>2, <2>3, <2>4, <2>5 DEF Next
<1>2. ~Kill
  BY DEF Kill, Restart
<1>3. todo = {} /\ altered' = altered
  BY <1>1, <1>2 DEF SetupLoopDone, hosts
<1> QED BY <1>3 DEF TInv, RollInv

\* What a package leaves on the hosts has a reason: an SR that could not be
\* destroyed and needs it (xfs, glusterfs), or a failure, and not the one that
\* exec_on_hosts_on_error_rollback has made up for.
THEOREM TracesAlwaysHaveAReason == Spec => TracesHaveAReason
<1>1. Spec => [](IInv /\ TInv)
  <2> HIDE DEF TInv
  <2> QED BY Invariant, InitTInv, TInvInductive, PTL DEF Spec
<1>2. (IInv /\ TInv) /\ [Next]_vars
        => [pc = "rollback" /\ pc' = "teardown" /\ faults <= 1 => altered' \subseteq inherited]_vars
  BY RollbackUndoesAll
<1>3. Spec => [](KeptForManualCleanup /\ NoTraceWithoutFault)
  <2> HIDE DEF KeptForManualCleanup, NoTraceWithoutFault, TInv
  <2> QED BY <1>1, NothingLeft, PTL
<1>4. Spec => [][pc = "rollback" /\ pc' = "teardown" /\ faults <= 1 => altered' \subseteq inherited]_vars
  <2> HIDE DEF TInv
  <2> QED BY <1>1, <1>2, PTL DEF Spec
<1> QED BY <1>3, <1>4 DEF TracesHaveAReason, RollbackLeavesNoHostBehind

=============================================================================
