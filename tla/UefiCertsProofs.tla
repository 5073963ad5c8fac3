--------------------------- MODULE UefiCertsProofs ---------------------------
(***************************************************************************)
(* Proofs about UefiCerts, for any hosts, tests and number of failures:    *)
(* its types, the clean slate a test starts from, and that it implements   *)
(* the loan of CertLoan.                                                   *)
(***************************************************************************)
EXTENDS UefiCerts, TLAPS

USE TestAssumption, BoundAssumption
USE DEF vars, pool, session, history, counters, Phase

\* Certificates that are absent under every key are None.
LEMMA AllAbsent == ASSUME NEW c \in Certs, Having(c) = {} PROVE c = None
  BY DEF Certs, Having, None

\* What is put somewhere, or nowhere, are certificates.
LEMMA NoneInCerts == None \in Certs
  BY DEF None, Certs, Cert

LEMMA PutInCerts ==
  ASSUME NEW c \in Certs, NEW K, NEW v \in Cert PROVE Put(c, K, v) \in Certs
  BY DEF Put, Certs, Cert

\* The certificates tests use, and those of empty files.
LEMMA CertTypes == /\ {"none", "user", "pool", "disk", "vm", "junk"} \subseteq Cert
                   /\ [k \in Key |-> "junk"] \in Certs
  BY DEF Cert, Certs

USE NoneInCerts, PutInCerts, CertTypes

\* What uefistored copies are certificates, and nothing where there is none.
LEMMA SyncedInCerts == ASSUME TypeOK, NEW h \in Host PROVE Synced(h) \in Certs
  BY DEF TypeOK, Synced, Certs

LEMMA InheritedInCerts == ASSUME TypeOK, NEW h \in Host PROVE Inherited(h) \in Certs
  BY SyncedInCerts DEF TypeOK, Inherited, Certs

LEMMA SyncedNone ==
  ASSUME NEW h \in Host, xapi = None, disk[h] = None PROVE Synced(h) = None
  BY DEF Synced, None

\* Certificates that agree under every key are the same.
LEMMA AllEqual ==
  ASSUME NEW c \in Certs, NEW d \in Certs, \A k \in Key : c[k] = d[k] PROVE c = d
  BY DEF Certs

\* Nothing more in nowhere leaves nothing.
LEMMA PutNothing == Put(None, {}, "disk") = None
  BY DEF Put, None

\* The pool as the session finds it.
LEMMA InitIInv == Init => IInv
<1> SUFFICES ASSUME Init PROVE IInv
  OBVIOUS
<1>1. own \in [Key -> {"none", "user"}]
  BY DEF Init, Put, None
<1>2. own \in Certs
  BY DEF Init
<1>3. TypeOK
  BY <1>1, <1>2 DEF Init, TypeOK
<1> QED
  BY <1>3 DEF Init, IInv, CleanSlate, LoanInv, SavedInv, CleanInv

\* save_uefi_certs: every certificate that is extracted is its owner's.
LEMMA SaveStep == ASSUME IInv, Save PROVE IInv'
<1> USE DEF IInv, TypeOK, CleanSlate, LoanInv, SavedInv, CleanInv
<1>1. CASE BeginModule
  BY <1>1 DEF BeginModule
<1>2. CASE EndSave
  BY <1>2, AllEqual DEF EndSave, Storable, Having, Certs
<1>3. ASSUME NEW k \in Key, Extract(k) PROVE IInv'
  BY <1>3 DEF Extract, Certs
<1> QED
  BY <1>1, <1>2, <1>3 DEF Save

\* clear_uefi_certs: XAPI, then one host after the other.
LEMMA ClearStep == ASSUME IInv, Clear PROVE IInv'
<1> USE DEF IInv, TypeOK, CleanSlate, LoanInv, SavedInv, CleanInv
<1>1. CASE ClearXapi
  BY <1>1 DEF ClearXapi
<1>2. CASE Cleared
  BY <1>2 DEF Cleared
<1>3. ASSUME NEW h \in Host, Wipe(h) PROVE IInv'
  BY <1>3 DEF Wipe
<1> QED
  BY <1>1, <1>2, <1>3 DEF Clear

\* A test may put certificates anywhere, its revert cleans the VM.
LEMMA TestStep == ASSUME IInv, Test PROVE IInv'
<1> USE DEF IInv, TypeOK, CleanSlate, LoanInv, SavedInv, CleanInv
<1>1. ASSUME NEW t \in Tests, BeginTest(t) PROVE IInv'
  BY <1>1 DEF BeginTest
<1>2. CASE Install
  BY <1>2 DEF Install
<1>3. CASE ToVm
  BY <1>3 DEF ToVm
<1>4. CASE StartTwice
  BY <1>4 DEF StartTwice
<1>5. CASE LookAt
  BY <1>5 DEF LookAt
<1>6. CASE Revert
  BY <1>6 DEF Revert
<1>7. ASSUME NEW h \in Host, ToDisk(h) PROVE IInv'
  BY <1>7, PutNothing DEF ToDisk
<1>8. ASSUME NEW h \in Host, Start(h) PROVE IInv'
  BY <1>8, SyncedInCerts, InheritedInCerts, SyncedNone DEF Start
<1> QED
  BY <1>1, <1>2, <1>3, <1>4, <1>5, <1>6, <1>7, <1>8 DEF Test

\* The end of a module, and the commands that fail.
LEMMA EndStep == ASSUME IInv, EndModule \/ Restore \/ Fail PROVE IInv'
<1> USE DEF IInv, TypeOK, CleanSlate, LoanInv, SavedInv, CleanInv
<1>1. CASE EndModule
  BY <1>1, AllAbsent DEF EndModule, Storable
<1>2. CASE Restore
  BY <1>2 DEF Restore
<1>3. CASE Fail /\ FailToExtract
  <2>1. TypeOK'
    <3>1. lost' \in BOOLEAN /\ spoilt' \in BOOLEAN /\ wrong' \in BOOLEAN
      BY <1>3, Zenon DEF Fail, FailToExtract
    <3>2. faults' \in Nat
      BY <1>3 DEF Fail
    <3> QED
      BY <1>3, <3>1, <3>2 DEF Fail, FailToExtract
  <2>2. CleanSlate'
    BY <1>3 DEF Fail, FailToExtract
  <2>3. LoanInv'
    BY <1>3 DEF Fail, FailToExtract
  <2>4. SavedInv'
    BY <1>3 DEF Fail, FailToExtract
  <2>5. CleanInv'
    BY <1>3 DEF Fail, FailToExtract
  <2> QED
    BY <2>1, <2>2, <2>3, <2>4, <2>5
<1>4. CASE Fail /\ FailOfModule
  <2>1. TypeOK'
    <3>1. lost' \in BOOLEAN /\ spoilt' \in BOOLEAN /\ wrong' \in BOOLEAN
      BY <1>4, Zenon DEF Fail, FailOfModule
    <3>2. faults' \in Nat
      BY <1>4 DEF Fail
    <3> QED
      BY <1>4, <3>1, <3>2 DEF Fail, FailOfModule
  <2>2. CleanSlate'
    BY <1>4 DEF Fail, FailOfModule
  <2>3. LoanInv'
    BY <1>4 DEF Fail, FailOfModule
  <2>4. SavedInv'
    BY <1>4 DEF Fail, FailOfModule
  <2>5. CleanInv'
    BY <1>4 DEF Fail, FailOfModule
  <2> QED
    BY <2>1, <2>2, <2>3, <2>4, <2>5
<1>5. CASE Fail /\ FailInTest
  BY <1>5 DEF Fail, FailInTest
<1>6. CASE Fail /\ FailInTeardown
  <2>1. TypeOK'
    <3>1. lost' \in BOOLEAN /\ spoilt' \in BOOLEAN /\ wrong' \in BOOLEAN
      BY <1>6, Zenon DEF Fail, FailInTeardown
    <3>2. faults' \in Nat
      BY <1>6 DEF Fail
    <3> QED
      BY <1>6, <3>1, <3>2 DEF Fail, FailInTeardown
  <2>2. CleanSlate'
    BY <1>6 DEF Fail, FailInTeardown
  <2>3. LoanInv'
    BY <1>6 DEF Fail, FailInTeardown
  <2>4. SavedInv'
    BY <1>6 DEF Fail, FailInTeardown
  <2>5. CleanInv'
    BY <1>6 DEF Fail, FailInTeardown
  <2> QED
    BY <2>1, <2>2, <2>3, <2>4, <2>5
<1> QED
  BY <1>1, <1>2, <1>3, <1>4, <1>5, <1>6 DEF Fail

LEMMA Inductive == Spec => []IInv
<1>1. IInv /\ [Next]_vars => IInv'
  <2>1. IInv /\ Next => IInv'
    BY SaveStep, ClearStep, TestStep, EndStep DEF Next
  <2>2. IInv /\ UNCHANGED vars => IInv'
    BY DEF IInv, TypeOK, CleanSlate, LoanInv, SavedInv, CleanInv
  <2> QED
    BY <2>1, <2>2
<1> QED
  BY InitIInv, <1>1, PTL DEF Spec

\* Type correctness, restore_uefi_certs' assertion included.
THEOREM TypeCorrect == Spec => []TypeOK
<1>1. IInv => TypeOK
  BY DEF IInv
<1> QED
  BY Inductive, <1>1, PTL

\* A test after a complete teardown finds no certificate anywhere.
THEOREM SlateAlwaysClean == Spec => []CleanSlate
<1>1. IInv => CleanSlate
  BY DEF IInv
<1> QED
  BY Inductive, <1>1, PTL

\* Borrowing, testing and giving back is a loan: every step is one of CertLoan
\* or leaves what the owner sees unchanged.
THEOREM Refinement == Spec => Contract
<1>1. Init => Loan!Init
  BY DEF Init, Loan!Init
<1>2. IInv /\ [Next]_vars => [Loan!Next]_(Loan!vars)
  <2> USE DEF Loan!vars, Loan!Next, Loan!Lend, Loan!Use, Loan!Lose, Loan!GiveBack
  <2> SUFFICES ASSUME IInv, [Next]_vars PROVE [Loan!Next]_(Loan!vars)
    OBVIOUS
  <2>1. CASE Save
    BY <2>1 DEF Save, BeginModule, EndSave, Extract, IInv, LoanInv, TypeOK
  <2>2. CASE Clear
    BY <2>2 DEF Clear, ClearXapi, Cleared, Wipe, IInv, LoanInv, CleanInv, TypeOK
  <2>3. CASE Test
    BY <2>3 DEF Test, BeginTest, Install, ToVm, StartTwice, LookAt, Revert, ToDisk, Start
  <2>4. CASE EndModule \/ Restore
    BY <2>4 DEF EndModule, Restore, IInv, LoanInv, TypeOK
  <2>5. CASE Fail
    BY <2>5 DEF Fail, FailToExtract, FailOfModule, FailInTest, FailInTeardown,
                IInv, LoanInv, TypeOK
  <2>6. CASE UNCHANGED vars
    BY <2>6
  <2> QED
    BY <2>1, <2>2, <2>3, <2>4, <2>5, <2>6 DEF Next
<1> QED
  BY Inductive, <1>1, <1>2, PTL DEF Spec, Contract, Loan!Spec

-----------------------------------------------------------------------------
(* Nothing inherited.                                                      *)

OnDisks(K) == Put(None, K, "disk")
InPool(K)  == Put(None, K, "pool")
InVm(K)    == Put(None, K, "vm")

\* After a complete teardown, what a test has put where so far; then, what it
\* will look at.
TestInv == ~spoilt =>
    /\ ~wrong
    /\ pc \in {"install", "disks"} => nvram = None
    /\ pc \in {"install", "disks", "start"} => at = {}
    /\ pc = "install" => xapi = None /\ \A h \in Host : disk[h] = None
    /\ pc \in {"disks", "start"} => xapi = InPool(test.pool)
    /\ pc = "disks" => \A h \in Host : disk[h] = IF h \in todo THEN None ELSE OnDisks(test.disks)
    /\ pc = "start" => nvram = InVm(test.vm) /\ \A h \in Host : disk[h] = OnDisks(test.disks)
    /\ pc = "look" => Expected

\* Where no command failed, nothing is lost, and the temporary files that are
\* left are those of the certificates that were saved.
TraceInv == faults = 0 =>
    /\ ~lost
    /\ pc = "idle" => files = {}
    /\ pc = "extract" => files \subseteq todo \cup Having(saved)
    /\ pc \notin {"idle", "extract"} => files \subseteq Having(saved)

KInv == TestInv /\ TraceInv

USE DEF OnDisks, InPool, InVm

LEMMA InitKInv == Init => KInv
  BY DEF Init, KInv, TestInv, TraceInv

\* What a VM finds that starts after its test has put certificates everywhere.
LEMMA Found ==
  ASSUME IInv, TestInv, ~spoilt, pc = "start", NEW h \in Host, NEW k \in Key
  PROVE  /\ Synced(h)[k] = IF k \in test.pool THEN "pool" ELSE IF k \in test.disks THEN "disk" ELSE "none"
         /\ Inherited(h)[k] = IF k \in test.vm THEN "vm" ELSE Synced(h)[k]
<1>1. xapi = Put(None, test.pool, "pool") /\ nvram = Put(None, test.vm, "vm") /\ disk[h] = Put(None, test.disks, "disk")
  BY DEF TestInv
<1>2. /\ xapi[k] = IF k \in test.pool THEN "pool" ELSE "none"
      /\ nvram[k] = IF k \in test.vm THEN "vm" ELSE "none"
      /\ disk[h][k] = IF k \in test.disks THEN "disk" ELSE "none"
  BY <1>1 DEF Put, None
<1> QED
  BY <1>2 DEF Synced, Inherited

\* The VM starts, and what the test looks at is as expected.
LEMMA StartExpected ==
  ASSUME IInv, TestInv, ~spoilt, NEW h \in Host, Start(h) PROVE Expected'
<1>0. test \in [pool : SUBSET Key, disks : SUBSET Key, vm : SUBSET Key, look : Look] /\ test \in Tests
  BY DEF IInv, TypeOK
<1>1. /\ pc = "start" /\ at = {} /\ disk' = [disk EXCEPT ![h] = Synced(h)] /\ nvram' = Inherited(h)
      /\ at' = IF SecureBoot /\ ~ Required \subseteq Having(Inherited(h)) THEN {} ELSE {h}
      /\ test' = test
  BY DEF Start
<1>2. /\ disk'[h] = Synced(h) /\ Synced(h) \in Certs /\ Inherited(h) \in Certs
  BY <1>1, SyncedInCerts, InheritedInCerts DEF IInv, TypeOK
<1>3. \A k \in Key : /\ Synced(h)[k] = IF k \in test.pool THEN "pool" ELSE IF k \in test.disks THEN "disk" ELSE "none"
                     /\ Inherited(h)[k] = IF k \in test.vm THEN "vm" ELSE Synced(h)[k]
  BY <1>1, Found
<1>4. CASE test.look = "disk"
  <2>1. at' = {h}
    BY <1>1, <1>4 DEF SecureBoot
  <2>2. \A k \in Key : Put(None, test.disks, "disk")[k] = IF k \in test.disks THEN "disk" ELSE "none"
    BY DEF Put, None
  <2>3. \A k \in Key : CASE k \in test.pool -> disk'[h][k] = "pool"
                          [] test.pool # {} -> TRUE
                          [] OTHER          -> disk'[h][k] = Put(None, test.disks, "disk")[k]
    BY <1>2, <1>3, <2>2
  <2> QED
    BY <1>1, <1>4, <2>1, <2>3 DEF Expected
<1>5. CASE test.look = "vm"
  <2>1. test.disks = {}
    BY <1>0, <1>5
  <2>2. Put(Put(None, test.pool, "pool"), test.vm, "vm") \in Certs
    BY DEF Cert
  <2>3. \A k \in Key : Put(Put(None, test.pool, "pool"), test.vm, "vm")[k]
                         = IF k \in test.vm THEN "vm" ELSE IF k \in test.pool THEN "pool" ELSE "none"
    BY DEF Put, None
  <2>4. Inherited(h) = Put(Put(None, test.pool, "pool"), test.vm, "vm")
    BY <1>2, <1>3, <2>1, <2>2, <2>3, AllEqual
  <2> QED
    BY <1>1, <1>5, <2>4 DEF Expected
<1>6. Having(Inherited(h)) = (test.pool \cup test.disks \cup test.vm)
  BY <1>0, <1>3 DEF Having
<1>7. CASE test.look = "boots"
  BY <1>0, <1>1, <1>6, <1>7 DEF Expected, SecureBoot
<1>8. CASE test.look = "fails"
  BY <1>0, <1>1, <1>6, <1>8 DEF Expected, SecureBoot
<1>9. CASE test.look = "exchange"
  BY <1>0, <1>1, <1>2, <1>6, <1>9, AllAbsent DEF Expected
<1> QED
  BY <1>0, <1>4, <1>5, <1>7, <1>8, <1>9 DEF Look

\* A test after a complete teardown meets what it has made itself.
LEMMA NextTestInv == ASSUME IInv, TestInv, Next PROVE TestInv'
<1> USE DEF TestInv
<1> SUFFICES ASSUME ~spoilt' PROVE TestInv'
  OBVIOUS
<1>1. CASE Save
  BY <1>1 DEF Save, BeginModule, EndSave, Extract
<1>2. CASE Clear
  BY <1>2 DEF Clear, ClearXapi, Cleared, Wipe
<1>3. ASSUME NEW t \in Tests, BeginTest(t) PROVE TestInv'
  BY <1>3 DEF BeginTest, IInv, CleanSlate
<1>4. CASE Install
  <2>1. Put(None, {}, "pool") = None
    BY DEF Put, None
  <2> QED
    BY <1>4, <2>1 DEF Install
<1>5. ASSUME NEW h \in Host, ToDisk(h) PROVE TestInv'
  BY <1>5 DEF ToDisk, IInv, TypeOK
<1>6. CASE ToVm
  BY <1>6 DEF ToVm
<1>7. ASSUME NEW h \in Host, Start(h) PROVE TestInv'
  <2>1. /\ pc' = "look" /\ ~spoilt /\ wrong' = wrong
    BY <1>7 DEF Start
  <2> QED
    BY <1>7, <2>1, StartExpected
<1>8. CASE StartTwice
  BY <1>8 DEF StartTwice
<1>9. CASE LookAt
  BY <1>9 DEF LookAt
<1>10. CASE Revert
  BY <1>10 DEF Revert
<1>11. CASE EndModule \/ Restore
  BY <1>11 DEF EndModule, Restore
<1>12. CASE Fail
  <2>1. pc' \in {"extract", "idle", "revert", "ready"} /\ ~spoilt /\ wrong' = wrong
    BY <1>12 DEF Fail, FailToExtract, FailOfModule, FailInTest, FailInTeardown
  <2> QED
    BY <2>1
<1> QED
  BY <1>1, <1>2, <1>3, <1>4, <1>5, <1>6, <1>7, <1>8, <1>9, <1>10, <1>11, <1>12 DEF Next, Test

\* The temporary files.
LEMMA NextTraceInv == ASSUME IInv, TraceInv, Next PROVE TraceInv'
<1> USE DEF TraceInv
<1> SUFFICES ASSUME faults' = 0 PROVE TraceInv'
  OBVIOUS
<1>1. CASE BeginModule
  BY <1>1 DEF BeginModule
<1>2. ASSUME NEW k \in Key, Extract(k) PROVE TraceInv'
  BY <1>2 DEF Extract, IInv, TypeOK, Certs, Having
<1>3. CASE EndSave
  BY <1>3 DEF EndSave
<1>4. CASE Clear
  BY <1>4 DEF Clear, ClearXapi, Cleared, Wipe, IInv, LoanInv, Having, None
<1>5. CASE Test
  BY <1>5 DEF Test, BeginTest, Install, ToVm, StartTwice, LookAt, Revert, ToDisk, Start
<1>6. CASE EndModule
  BY <1>6 DEF EndModule
<1>7. CASE Restore
  <2>1. saved = own
    BY <1>7 DEF Restore, IInv, LoanInv
  <2>2. \A k \in Key : saved[k] # "junk"
    BY <2>1 DEF IInv, TypeOK
  <2> QED
    BY <1>7, <2>2 DEF Restore
<1>8. ~Fail
  BY DEF Fail, IInv, TypeOK
<1> QED
  BY <1>1, <1>2, <1>3, <1>4, <1>5, <1>6, <1>7, <1>8 DEF Next, Save

\* No test sees what another has left behind, unless the teardown in between
\* failed, and no module leaves a file where no command failed
\* (setup_and_cleanup, save_uefi_certs, restore_uefi_certs).
THEOREM NothingEverInherited == Spec => []NothingInherited
<1>1. IInv /\ KInv /\ [Next]_vars => KInv'
  <2>1. IInv /\ KInv /\ Next => KInv'
    BY NextTestInv, NextTraceInv DEF KInv
  <2>2. ASSUME KInv, UNCHANGED vars PROVE KInv'
    <3>1. Expected <=> Expected'
      BY <2>2, Zenon DEF Expected
    <3>2. TestInv'
      BY <2>2, <3>1 DEF KInv, TestInv
    <3>3. TraceInv'
      BY <2>2 DEF KInv, TraceInv
    <3> QED
      BY <3>2, <3>3 DEF KInv
  <2> QED
    BY <2>1, <2>2
<1>2. KInv => NothingInherited
  BY DEF KInv, TestInv, TraceInv, NothingInherited, NoSpuriousFailure, NoTraceWithoutFault
<1> QED
  BY Inductive, InitKInv, <1>1, <1>2, PTL DEF Spec
=============================================================================
