---------------------------- MODULE VmCacheProofs ----------------------------
(***************************************************************************)
(* Proofs about VmCache, for any number of VMs, SRs, keys, fixtures and    *)
(* faults.  IInv is inductive: every command of a fixture, every exception *)
(* and every killed session preserves it.                                  *)
(***************************************************************************)
EXTENDS VmCache, TLAPS

\* A uuid that is handed to a new VM belonged to no VM and to no VDI.
LEMMA FreshIsFree == Free # {} => Fresh \in Free
  BY DEF Fresh

\* The SR of a VM that does not exist is some SR.
LEMMA AnySRInSR == sr \in SR => AnySR \in SR
  BY DEF AnySR

USE KeyAssumption, VmAssumption, BoundAssumption
USE DEF vars, pool, config, lists, cursors, destroy, counters,
        Key, Phase, Held, Registered, DisksOf, Matches,
        Goto, NotDying, Finish, DestroyBegins

\* The parts of the invariant, opened wherever a step is shown to preserve it.
USE DEF IInv, TypeOK, RegisteredVmsExist, ImportEntriesPristine, UserVmsSurvive,
        UserInv, KeyInv, CurInv, PhaseInv, DyingInv, DiskInv

\* The pool as the first session finds it satisfies the invariant.
LEMMA InitIInv == Init => IInv
<1> SUFFICES ASSUME Init PROVE IInv
  OBVIOUS
<1>1. AnySR \in SR
  BY AnySRInSR DEF Init
<1>2. TypeOK
  BY <1>1 DEF Init
<1>3. RegisteredVmsExist /\ ImportEntriesPristine /\ UserVmsSurvive
  BY DEF Init
<1>4. UserInv /\ KeyInv /\ CurInv /\ PhaseInv /\ DyingInv /\ DiskInv
  BY DEF Init
<1> QED
  BY <1>2, <1>3, <1>4

\* Sessions start with nothing registered and end by destroying nested hosts.
LEMMA SessionsStep == ASSUME IInv, Sessions PROVE IInv'
<1>1. CASE StartSession
  BY <1>1 DEF StartSession
<1>2. CASE HostsReady
  BY <1>2 DEF HostsReady
<1>3. CASE EndSession
  BY <1>3 DEF EndSession
<1> QED
  BY <1>1, <1>2, <1>3 DEF Sessions

\* An exception leaves the pool alone and forgets only what it may forget.
LEMMA RaiseStep ==
  ASSUME IInv, Raise, job # "none", faults' \in Nat, UNCHANGED <<pool, config, fixtures>>
  PROVE  IInv'
  BY DEF Raise

\* imported_vm with a uuid: the user's VM is yielded as it is, or cloned.
LEMMA SetupUserStep == ASSUME IInv, NEW u \in UserVM, SetupUser(u) PROVE IInv'
<1>1. TypeOK'
  <2> HIDE DEF RegisteredVmsExist, ImportEntriesPristine, UserVmsSurvive, UserInv, KeyInv,
             CurInv, PhaseInv, DyingInv, DiskInv, Held, Registered, DisksOf, Matches
  <2>1. keep' \in BOOLEAN /\ cache' \in BOOLEAN
    BY Zenon DEF SetupUser
  <2>2. fixtures' \in Nat /\ faults' \in Nat
    BY DEF SetupUser
  <2> QED
    BY <2>1, <2>2 DEF SetupUser
<1>2. RegisteredVmsExist' /\ ImportEntriesPristine' /\ UserVmsSurvive'
  BY DEF SetupUser
<1>3. UserInv' /\ KeyInv' /\ CurInv'
  BY DEF SetupUser
<1>4. PhaseInv' /\ DyingInv' /\ DiskInv'
  BY DEF SetupUser
<1> QED
  BY <1>1, <1>2, <1>3, <1>4

\* The imported VM is handed to the tests, or goes on to be marked.
LEMMA PrepareStep == ASSUME IInv, Prepare PROVE IInv'
<1>1. CASE cache
  BY <1>1 DEF Prepare
<1>2. CASE ~cache
  <2>1. RegisteredVmsExist'
    BY <1>2 DEF Prepare
  <2>4. TypeOK'
    <3> HIDE DEF RegisteredVmsExist, ImportEntriesPristine, UserVmsSurvive, UserInv, KeyInv,
               CurInv, PhaseInv, DyingInv, DiskInv, Held, Registered, DisksOf, Matches
    <3> QED
      BY <1>2 DEF Prepare
  <2>2. ImportEntriesPristine' /\ UserVmsSurvive' /\ UserInv' /\ KeyInv'
    BY <1>2 DEF Prepare
  <2>3. CurInv' /\ PhaseInv' /\ DyingInv' /\ DiskInv'
    BY <1>2 DEF Prepare
  <2> QED
    BY <2>1, <2>2, <2>3, <2>4
<1> QED
  BY <1>1, <1>2

\* A clone is registered in one list, and by then its cache key is gone.
LEMMA UnmarkStep == ASSUME IInv, Unmark PROVE IInv'
<1>1. TypeOK'
  BY DEF Unmark, Describe
<1>2. RegisteredVmsExist'
  BY DEF Unmark, Describe
<1>3. ImportEntriesPristine' /\ UserVmsSurvive'
  BY DEF Unmark, Describe
<1>4. UserInv' /\ KeyInv'
  BY DEF Unmark, Describe
<1>5. CurInv' /\ PhaseInv'
  BY DEF Unmark, Describe
<1>6. DyingInv' /\ DiskInv'
  BY DEF Unmark, Describe
<1> QED
  BY <1>1, <1>2, <1>3, <1>4, <1>5, <1>6

\* The commands that bring a VM out of the cache, or import it.
LEMMA FromCacheStep ==
  ASSUME IInv,
         \/ \E v \in VM : LookupHit(v)
         \/ LookupMiss \/ Import \/ Prepare \/ Mark \/ Clone \/ Unmark
  PROVE  IInv'
<1>1. ASSUME NEW v \in VM, LookupHit(v) PROVE IInv'
  BY <1>1 DEF LookupHit
<1>2. CASE LookupMiss
  BY <1>2 DEF LookupMiss, Raise
<1>3. CASE Import
  BY <1>3, FreshIsFree DEF Import, Create, Free
<1>4. CASE Prepare
  BY <1>4, PrepareStep
<1>5. CASE Mark
  BY <1>5 DEF Mark, Describe
<1>6. CASE Clone
  BY <1>6, FreshIsFree DEF Clone, CloneOf, Create, Free
<1>7. CASE Unmark
  BY <1>7, UnmarkStep
<1> QED
  BY <1>1, <1>2, <1>3, <1>4, <1>5, <1>6, <1>7

\* The commands of create_vms that build a VM from a template.
LEMMA TemplateStep ==
  ASSUME IInv,
         \/ DefTemplate \/ Template \/ Adopt \/ Filled \/ DefsDone
         \/ \E d \in Disk : CreateVdi(d)
         \/ \E x \in VM \X Disk : CreateVbd(x)
  PROVE  IInv'
<1>1. CASE DefTemplate
  BY <1>1 DEF DefTemplate
<1>2. CASE Template
  BY <1>2, FreshIsFree DEF Template, Create, Free
<1>3. CASE Adopt
  BY <1>3 DEF Adopt
<1>4. CASE Filled
  BY <1>4 DEF Filled
<1>5. CASE DefsDone
  BY <1>5 DEF DefsDone
<1>6. ASSUME NEW d \in Disk, CreateVdi(d) PROVE IInv'
  BY <1>6 DEF CreateVdi
<1>7. ASSUME NEW x \in VM \X Disk, CreateVbd(x) PROVE IInv'
  BY <1>7 DEF CreateVbd
<1> QED
  BY <1>1, <1>2, <1>3, <1>4, <1>5, <1>6, <1>7

\* Every way a fixture is set up.
LEMMA SetupStep == ASSUME IInv, Setup PROVE IInv'
<1>1. ASSUME NEW k \in ImageKey, SetupNested(k) PROVE IInv'
  BY <1>1 DEF SetupNested, Begin
<1>2. ASSUME NEW k \in ImageKey, DefImage(k) PROVE IInv'
  BY <1>2 DEF DefImage
<1>3. ASSUME NEW k \in ImportKey, SetupImported(k) PROVE IInv'
  BY <1>3 DEF SetupImported, Begin
<1>4. ASSUME NEW u \in UserVM, SetupUser(u) PROVE IInv'
  BY <1>4, SetupUserStep
<1>5. CASE SetupCreate
  BY <1>5 DEF SetupCreate, Begin
<1> QED
  BY <1>1, <1>2, <1>3, <1>4, <1>5, FromCacheStep, TemplateStep DEF Setup

\* Tests write to registered VMs only, and no registered VM has a cache key.
LEMMA TestsStep == ASSUME IInv, Tests PROVE IInv'
<1>1. CASE PlainTest
  BY <1>1 DEF PlainTest
<1>2. ASSUME NEW passed \in BOOLEAN, Test(passed) PROVE IInv'
  BY <1>2 DEF Test
<1> QED
  BY <1>1, <1>2 DEF Tests

\* VM.destroy takes away the disks of the VM it destroys, then that VM.
LEMMA DestroyStep == ASSUME IInv, Destroy PROVE IInv'
<1>1. CASE DestroyVm
  BY <1>1, AnySRInSR DEF DestroyVm
<1>2. ASSUME NEW x \in VM \X Disk, DestroyDisk(x) PROVE IInv'
  BY <1>2 DEF DestroyDisk
<1> QED
  BY <1>1, <1>2 DEF Destroy

\* save_to_cache evicts entries, which are never registered VMs.
LEMMA SaveStep == ASSUME IInv, SaveToCache PROVE IInv'
<1>1. ASSUME NEW v \in VM, NEW k \in ImageKey, SaveNext(v, k) PROVE IInv'
  BY <1>1 DEF SaveNext
<1>2. ASSUME NEW v \in VM, SaveEvict(v) PROVE IInv'
  BY <1>2 DEF SaveEvict
<1>3. CASE SaveEvicted
  BY <1>3 DEF SaveEvicted
<1>4. CASE SaveClone
  BY <1>4, FreshIsFree DEF SaveClone, CloneOf, Create, Free
<1>5. CASE SaveMark
  BY <1>5 DEF SaveMark, Describe
<1>6. CASE SaveDone
  BY <1>6 DEF SaveDone
<1> QED
  BY <1>1, <1>2, <1>3, <1>4, <1>5, <1>6 DEF SaveToCache

\* Teardowns work through the lists of the fixture they end.
LEMMA TeardownStep == ASSUME IInv, Teardown PROVE IInv'
<1>1. ASSUME NEW x \in VM \X Disk, DestroyVbd(x) PROVE IInv'
  BY <1>1 DEF DestroyVbd
<1>2. ASSUME NEW x \in VM \X Disk, DestroyVdi(x) PROVE IInv'
  BY <1>2 DEF DestroyVdi
<1>3. ASSUME NEW v \in VM, TeardownVm(v) PROVE IInv'
  BY <1>3 DEF TeardownVm
<1>4. ASSUME NEW v \in VM, CleanupNested(v) PROVE IInv'
  BY <1>4 DEF CleanupNested
<1>5. CASE TeardownDone
  BY <1>5 DEF TeardownDone
<1>6. CASE DropHeld
  BY <1>6 DEF DropHeld
<1>7. CASE CleanupDone
  BY <1>7 DEF CleanupDone
<1> QED
  BY <1>1, <1>2, <1>3, <1>4, <1>5, <1>6, <1>7 DEF Teardown

\* A failing command raises; a killed session forgets every list at once.
LEMMA FaultStep == ASSUME IInv, Fail \/ Kill PROVE IInv'
<1>1. CASE Fail
  BY <1>1 DEF Fail, Raise
<1>2. CASE Kill
  <2>1. TypeOK'
    <3> HIDE DEF RegisteredVmsExist, ImportEntriesPristine, UserVmsSurvive, UserInv, KeyInv,
               CurInv, PhaseInv, DyingInv, DiskInv, Held, Registered, DisksOf, Matches
    <3>1. keep' \in BOOLEAN /\ cache' \in BOOLEAN
      BY <1>2, Zenon DEF Kill
    <3>2. fixtures' \in Nat /\ faults' \in Nat
      BY <1>2 DEF Kill
    <3> QED
      BY <1>2, <3>1, <3>2 DEF Kill
  <2>2. RegisteredVmsExist' /\ ImportEntriesPristine' /\ UserVmsSurvive'
    BY <1>2 DEF Kill
  <2>3. UserInv' /\ KeyInv' /\ CurInv'
    BY <1>2 DEF Kill
  <2>4. PhaseInv' /\ DyingInv' /\ DiskInv'
    BY <1>2 DEF Kill
  <2> QED
    BY <2>1, <2>2, <2>3, <2>4
<1> QED
  BY <1>1, <1>2

-----------------------------------------------------------------------------
(* Nothing leaks unless a command fails.                                   *)

\* The VM that a command has just created, until its fixture registers it.
InFlight == IF pc \in {"prepare", "mark", "unmark", "adopt", "savemark"} THEN {cur} ELSE {}

\* Where no command failed, every VM is someone's, a VDI without VBD is in the
\* list of create_vms, and destroy() knows all disks of its VM.
LeakInv == faults = 0 =>
    /\ \A v \in alive : v \in UserVM \cup Registered \cup InFlight \/ key[v] \in Key
    /\ \A x \in vdi : x[1] \in alive
    /\ vdi \ att \subseteq vdis
    /\ vbds \subseteq vdis
    /\ dying # NoVm => DisksOf(dying) \subseteq todo
    /\ keep /\ held # NoVm => held \in UserVM

USE DEF InFlight, LeakInv

LEMMA InitLeakInv == Init => LeakInv
  BY DEF Init

\* Sessions and the fixtures' ways to a VM from the cache.
LEMMA SetupLeak ==
  ASSUME IInv, LeakInv,
         \/ Sessions \/ SetupCreate \/ LookupMiss \/ Import \/ Prepare \/ Mark \/ Clone \/ Unmark
         \/ \E k \in ImageKey : SetupNested(k) \/ DefImage(k)
         \/ \E k \in ImportKey : SetupImported(k)
         \/ \E u \in UserVM : SetupUser(u)
         \/ \E v \in VM : LookupHit(v)
  PROVE  LeakInv'
<1>1. CASE Sessions
  BY <1>1 DEF Sessions, StartSession, HostsReady, EndSession
<1>2. CASE SetupCreate
  BY <1>2 DEF SetupCreate, Begin
<1>3. CASE LookupMiss
  BY <1>3 DEF LookupMiss, Raise
<1>4. CASE Import
  BY <1>4, FreshIsFree DEF Import, Create, Free
<1>5. CASE Prepare
  BY <1>5 DEF Prepare
<1>6. CASE Mark
  BY <1>6 DEF Mark, Describe
<1>7. CASE Clone
  BY <1>7, FreshIsFree DEF Clone, CloneOf, Create, Free
<1>8. CASE Unmark
  BY <1>8 DEF Unmark, Describe
<1>9. ASSUME NEW k \in ImageKey, SetupNested(k) \/ DefImage(k) PROVE LeakInv'
  BY <1>9 DEF SetupNested, DefImage, Begin
<1>10. ASSUME NEW k \in ImportKey, SetupImported(k) PROVE LeakInv'
  BY <1>10 DEF SetupImported, Begin
<1>11. ASSUME NEW u \in UserVM, SetupUser(u) PROVE LeakInv'
  BY <1>11 DEF SetupUser
<1>12. ASSUME NEW v \in VM, LookupHit(v) PROVE LeakInv'
  BY <1>12 DEF LookupHit
<1> QED
  BY <1>1, <1>2, <1>3, <1>4, <1>5, <1>6, <1>7, <1>8, <1>9, <1>10, <1>11, <1>12

\* create_vms and the tests.
LEMMA CreateLeak ==
  ASSUME IInv, LeakInv,
         \/ DefTemplate \/ Template \/ Adopt \/ Filled \/ DefsDone \/ Tests
         \/ \E d \in Disk : CreateVdi(d)
         \/ \E x \in VM \X Disk : CreateVbd(x)
  PROVE  LeakInv'
<1>1. CASE DefTemplate \/ Filled \/ DefsDone
  BY <1>1 DEF DefTemplate, Filled, DefsDone
<1>2. CASE Template
  BY <1>2, FreshIsFree DEF Template, Create, Free
<1>3. CASE Adopt
  BY <1>3 DEF Adopt
<1>4. CASE Tests
  BY <1>4 DEF Tests, PlainTest, Test
<1>5. ASSUME NEW d \in Disk, CreateVdi(d) PROVE LeakInv'
  BY <1>5 DEF CreateVdi
<1>6. ASSUME NEW x \in VM \X Disk, CreateVbd(x) PROVE LeakInv'
  BY <1>6 DEF CreateVbd
<1> QED
  BY <1>1, <1>2, <1>3, <1>4, <1>5, <1>6

\* VM.destroy leaves no disk of its VM, save_to_cache no VM without a key.
LEMMA DestroyLeak == ASSUME IInv, LeakInv, Destroy \/ SaveToCache PROVE LeakInv'
<1>1. CASE DestroyVm
  BY <1>1 DEF DestroyVm
<1>2. ASSUME NEW x \in VM \X Disk, DestroyDisk(x) PROVE LeakInv'
  BY <1>2 DEF DestroyDisk
<1>3. ASSUME NEW v \in VM, SaveEvict(v) PROVE LeakInv'
  BY <1>3 DEF SaveEvict
<1>4. ASSUME NEW v \in VM, NEW k \in ImageKey, SaveNext(v, k) PROVE LeakInv'
  BY <1>4 DEF SaveNext
<1>5. CASE SaveEvicted \/ SaveDone
  BY <1>5 DEF SaveEvicted, SaveDone
<1>6. CASE SaveClone
  BY <1>6, FreshIsFree DEF SaveClone, CloneOf, Create, Free
<1>7. CASE SaveMark
  BY <1>7 DEF SaveMark, Describe
<1> QED
  BY <1>1, <1>2, <1>3, <1>4, <1>5, <1>6, <1>7 DEF Destroy, SaveToCache

\* Teardowns, and faults, after which nothing is claimed.
LEMMA TeardownLeak == ASSUME IInv, LeakInv, Teardown \/ Fail \/ Kill PROVE LeakInv'
<1>1. ASSUME NEW x \in VM \X Disk, DestroyVbd(x) PROVE LeakInv'
  BY <1>1 DEF DestroyVbd
<1>2. ASSUME NEW x \in VM \X Disk, DestroyVdi(x) PROVE LeakInv'
  BY <1>2 DEF DestroyVdi
<1>3. ASSUME NEW v \in VM, TeardownVm(v) \/ CleanupNested(v) PROVE LeakInv'
  BY <1>3 DEF TeardownVm, CleanupNested
<1>4. CASE TeardownDone \/ CleanupDone
  BY <1>4 DEF TeardownDone, CleanupDone
<1>5. CASE DropHeld
  BY <1>5 DEF DropHeld
<1>6. CASE Fail \/ Kill
  <2>1. faults' # 0
    BY <1>6 DEF Fail, Kill
  <2> QED
    BY <2>1
<1> QED
  BY <1>1, <1>2, <1>3, <1>4, <1>5, <1>6 DEF Teardown

HIDE DEF LeakInv, InFlight
HIDE DEF vars, pool, config, lists, cursors, destroy, counters, IInv
HIDE DEF TypeOK, RegisteredVmsExist, ImportEntriesPristine, UserVmsSurvive

\* IInv is an invariant.
LEMMA Inductive == Spec => []IInv
<1>1. IInv /\ [Next]_vars => IInv'
  <2>1. ASSUME IInv, UNCHANGED vars PROVE IInv'
    BY <2>1 DEF IInv, TypeOK, RegisteredVmsExist, ImportEntriesPristine, UserVmsSurvive,
       vars, pool, config, lists, cursors, destroy, counters
  <2>2. ASSUME IInv, Next PROVE IInv'
    BY <2>2, SessionsStep, SetupStep, TestsStep, DestroyStep, SaveStep, TeardownStep,
       FaultStep DEF Next
  <2> QED
    BY <2>1, <2>2
<1> QED
  BY InitIInv, <1>1, PTL DEF Spec

\* Type correctness, for every value of the constants.
THEOREM TypeCorrect == Spec => []TypeOK
<1>1. IInv => TypeOK
  BY DEF IInv
<1> QED
  BY Inductive, <1>1, PTL

\* What a fixture has yielded exists and is its own until it destroys it.
THEOREM RegisteredVmsAlwaysExist == Spec => []RegisteredVmsExist
<1>1. IInv => RegisteredVmsExist
  BY DEF IInv
<1> QED
  BY Inductive, <1>1, PTL

\* No cached import has ever been written to by a test.
THEOREM CacheNeverDirty == Spec => []ImportEntriesPristine
<1>1. IInv => ImportEntriesPristine
  BY DEF IInv
<1> QED
  BY Inductive, <1>1, PTL

\* No teardown reaches a VM that was given to pytest by uuid.
THEOREM UserVmsAlwaysSurvive == Spec => []UserVmsSurvive
<1>1. IInv => UserVmsSurvive
  BY DEF IInv
<1> QED
  BY Inductive, <1>1, PTL

\* Between two fixtures, if no command failed, every VM is a user's, an entry
\* of the cache or registered, and no VDI is without its VM: whichever tests
\* failed and whichever images were missing (create_vms, imported_vm, hosts).
THEOREM NothingLeaks == Spec => []NoLeakWithoutFault
<1>1. IInv /\ LeakInv /\ [Next]_vars => LeakInv'
  <2>1. ASSUME LeakInv, UNCHANGED vars PROVE LeakInv'
    BY <2>1 DEF LeakInv, InFlight, vars, pool, config, lists, cursors, destroy, counters
  <2>2. ASSUME IInv, LeakInv, Next PROVE LeakInv'
    BY <2>2, SetupLeak, CreateLeak, DestroyLeak, TeardownLeak DEF Next, Setup
  <2> QED
    BY <2>1, <2>2
<1>2. IInv /\ LeakInv => NoLeakWithoutFault
  BY DEF IInv, TypeOK, LeakInv, InFlight, NoLeakWithoutFault
<1> QED
  BY Inductive, InitLeakInv, <1>1, <1>2, PTL DEF Spec

\* From its last lookup to its mark, save_to_cache has no rival: nothing else on
\* this SR answers to the key.
NoRival == pc \in {"saveclone", "savemark"} => Matches(want, sr) = {}

\* Only save_to_cache comes near these phases.
LEMMA OthersStayAway ==
    ASSUME IInv, Sessions \/ Setup \/ Tests \/ Destroy \/ Teardown \/ Fail \/ Kill
    PROVE  pc' \notin {"saveclone", "savemark"} /\ ~(pc = "savemark" /\ pc' = "save")
<1> USE DEF cursors
<1>1. CASE Sessions
  BY <1>1 DEF Sessions, StartSession, HostsReady, EndSession
<1>2. CASE Setup
  <2>1. CASE \/ \E k \in ImageKey : SetupNested(k) \/ DefImage(k)
             \/ \E k \in ImportKey : SetupImported(k)
             \/ \E u \in UserVM : SetupUser(u)
             \/ SetupCreate \/ DefTemplate
    BY <2>1 DEF SetupNested, DefImage, SetupImported, SetupUser, SetupCreate, DefTemplate, Begin
  <2>2. CASE (\E v \in VM : LookupHit(v)) \/ LookupMiss \/ Import \/ Prepare \/ Mark \/ Clone \/ Unmark
    BY <2>2 DEF LookupHit, LookupMiss, Import, Prepare, Mark, Clone, Unmark, Raise
  <2>3. CASE \/ Template \/ Adopt \/ Filled \/ DefsDone
             \/ \E d \in Disk : CreateVdi(d)
             \/ \E x \in VM \X Disk : CreateVbd(x)
    BY <2>3 DEF Template, Adopt, Filled, DefsDone, CreateVdi, CreateVbd
  <2> QED BY <1>2, <2>1, <2>2, <2>3 DEF Setup
<1>3. CASE Tests
  BY <1>3 DEF Tests, PlainTest, Test
<1>4. CASE Destroy
  BY <1>4 DEF Destroy, DestroyVm, DestroyDisk, IInv, DyingInv
<1>5. CASE Teardown
  BY <1>5 DEF Teardown, DestroyVbd, DestroyVdi, TeardownVm, CleanupNested, TeardownDone, DropHeld, CleanupDone
<1>6. CASE Fail \/ Kill
  BY <1>6 DEF Fail, Kill, Raise
<1> QED BY <1>1, <1>2, <1>3, <1>4, <1>5, <1>6

LEMMA NoRivalStep == ASSUME IInv, NoRival, [Next]_vars PROVE NoRival'
<1> USE KeyAssumption, VmAssumption DEF NoRival, Matches, DisksOf
<1>1. CASE pc' \notin {"saveclone", "savemark"}
  BY <1>1
<1>2. CASE SaveEvicted
  BY <1>2 DEF SaveEvicted, vars, pool, config, lists, destroy, counters
<1>3. CASE SaveClone
  <2>1. key[base] = NoKey /\ want \in Key
    BY <1>3 DEF SaveClone, IInv, KeyInv, Registered, CurInv, PhaseInv, Key
  <2>2. Fresh \in VM \ alive /\ \A x \in vdi : x[1] # Fresh
    BY <1>3, FreshIsFree DEF SaveClone, CloneOf, Create, Free
  <2>3. /\ alive' = alive \union {Fresh} /\ key' = [key EXCEPT ![Fresh] = NoKey]
        /\ home' = [home EXCEPT ![Fresh] = home[base]]
        /\ \E ds : att' = att \union ({Fresh} \X ds)
        /\ want' = want /\ sr' = sr
    BY <1>3, <2>1 DEF SaveClone, CloneOf, Create, config
  <2>4. key \in [VM -> Key \union {NoKey}] /\ home \in [VM -> SR] /\ alive \subseteq VM
    BY DEF IInv, TypeOK
  <2>5. \A v \in alive : {x \in att' : x[1] = v} = {x \in att : x[1] = v}
    BY <2>2, <2>3
  <2>6. \A v \in alive' : key'[v] = want => v \in alive /\ key[v] = want /\ home'[v] = home[v]
    BY <2>1, <2>2, <2>3, <2>4, KeyAssumption
  <2> QED BY <1>3, <2>3, <2>5, <2>6 DEF SaveClone
<1>4. CASE UNCHANGED vars
  BY <1>4 DEF vars, pool, config, cursors
<1>5. CASE Sessions \/ Setup \/ Tests \/ Destroy \/ Teardown \/ Fail \/ Kill
  BY <1>1, <1>5, OthersStayAway
<1>6. CASE SaveToCache /\ ~SaveEvicted /\ ~SaveClone
  <2>1. pc' \notin {"saveclone", "savemark"}
    BY <1>6 DEF SaveToCache, SaveNext, SaveEvict, SaveMark, SaveDone, cursors
  <2> QED BY <1>1, <2>1
<1> QED BY <1>2, <1>3, <1>4, <1>5, <1>6 DEF Next

\* The clone that save_to_cache has just marked is the only VM of this SR with the
\* key, whatever was saved or leaked before (the loop of VM.save_to_cache).
THEOREM OnlyOneEntry == Spec => OneEntryAfterSave
<1>1. IInv /\ NoRival /\ [Next]_vars =>
        [pc = "savemark" /\ pc' = "save" =>
           \A v \in alive' : key'[v] = want /\ (DisksOf(v)' = {} \/ home'[v] = sr) => v = cur]_vars
  <2> SUFFICES ASSUME IInv, NoRival, Next, pc = "savemark", pc' = "save"
               PROVE  \A v \in alive' : key'[v] = want /\ (DisksOf(v)' = {} \/ home'[v] = sr) => v = cur
    OBVIOUS
  <2>1. SaveMark
    <3>1. SaveToCache
      BY OthersStayAway DEF Next
    <3> QED BY <3>1 DEF SaveToCache, SaveNext, SaveEvict, SaveEvicted, SaveClone, SaveDone
  <2> QED BY <2>1 DEF SaveMark, Describe, NoRival, Matches, DisksOf, IInv, TypeOK, config
<1>2. Init => NoRival
  BY DEF Init, NoRival
<1>3. IInv /\ NoRival /\ [Next]_vars => NoRival'
  BY NoRivalStep
<1> HIDE DEF DisksOf
<1> QED BY Inductive, <1>1, <1>2, <1>3, PTL DEF Spec, OneEntryAfterSave
=====
