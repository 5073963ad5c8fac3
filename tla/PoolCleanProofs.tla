-------------------------- MODULE PoolCleanProofs --------------------------
(***************************************************************************)
(* Proofs about PoolClean, for any entries, VMs, disks and SRs and for any *)
(* number of failing calls: what the command is not for it leaves alone,   *)
(* and a dry run changes nothing.                                          *)
(***************************************************************************)
EXTENDS PoolClean, TLAPS

USE CleanAssumption
USE DEF vars, pool, thread, main, At, Goto, Fault

\* The labels of destroy and of its handler.
Destroying == {"shutdown", "disks", "disk", "destroy", "verify", "handler"}

Label == Destroying \cup {"entry", "skipped", "ready", "list", "vm", "sr", "vdi", "wait",
                           "returned", "raised", "joined"}

\* What the threads hold.
Holds ==
    /\ vms \subseteq Vms /\ disks \subseteq Disks
    /\ pc \in [Entries -> Label] /\ todo \in [Entries -> SUBSET (Vms \cup Disks)]
    /\ srs \in [Entries -> SUBSET Local] /\ own \in [Entries -> SUBSET Disks]

\* A dry run never enters destroy.
Spared == dry => \A e \in Entries : pc[e] \notin Destroying

\* The disks a thread is about to destroy are of a VM, or on a local SR.
Aims == \A e \in Entries :
    /\ \A d \in own[e] : \E v \in Vms : d \in DisksOf[v]
    /\ pc[e] = "vdi" => \A d \in todo[e] : SrOf[d] \in Local

PInv == Holds /\ Spared /\ Aims /\ OthersDisksKept

\* The pool as the command finds it.
LEMMA InitPInv == Init => PInv
<1> SUFFICES ASSUME Init PROVE PInv
  OBVIOUS
<1>1. Holds
  <2>1. vms \subseteq Vms /\ disks \subseteq Disks
    BY DEF Init
  <2>2. pc \in [Entries -> Label]
    BY DEF Init, Label
  <2>3. todo \in [Entries -> SUBSET (Vms \cup Disks)]
    BY DEF Init
  <2>4. srs \in [Entries -> SUBSET Local] /\ own \in [Entries -> SUBSET Disks]
    BY DEF Init
  <2> QED
    BY <2>1, <2>2, <2>3, <2>4 DEF Holds
<1>2. Spared
  BY DEF Init, Spared, Destroying
<1>3. Aims
  BY DEF Init, Aims
<1>4. OthersDisksKept
  BY DEF Init, OthersDisksKept
<1> QED
  BY <1>1, <1>2, <1>3, <1>4 DEF PInv

\* A step of a thread keeps the invariant if what it holds afterwards is in
\* order, and what it has destroyed was of a VM or on a local SR.
LEMMA ThreadStep ==
  ASSUME PInv, NEW e \in Entries, Holds', dry' = dry, disks' \subseteq disks,
         \A d \in disks \ disks' : SrOf[d] \in Local \/ \E v \in Vms : d \in DisksOf[v],
         \A f \in Entries \ {e} : pc'[f] = pc[f] /\ todo'[f] = todo[f] /\ own'[f] = own[f],
         dry => pc'[e] \notin Destroying,
         \A d \in own'[e] : \E v \in Vms : d \in DisksOf[v],
         pc'[e] = "vdi" => \A d \in todo'[e] : SrOf[d] \in Local
  PROVE  PInv'
<1>1. Spared'
  BY DEF PInv, Spared
<1>2. Aims'
  BY DEF PInv, Aims
<1>3. OthersDisksKept'
  BY DEF PInv, OthersDisksKept
<1> QED
  BY <1>1, <1>2, <1>3 DEF PInv

\* The steps of a thread that ask the pool without changing it.
LEMMA AskStep ==
  ASSUME PInv, NEW e \in Entries,
         ListVms(e) \/ OpenVm(e) \/ DiskList(e) \/ Verify(e) \/ Handler(e) \/ LocalSrs(e)
         \/ ListVdis(e) \/ Wait(e) \/ Join(e) \/ Empty(e)
  PROVE  PInv'
<1> USE DEF Label, Destroying
<1>0. Holds /\ Spared /\ Aims
  BY DEF PInv
<1>1. CASE ListVms(e)
  <2>1. /\ UNCHANGED <<vms, disks, dry, srs, own>> /\ todo' = [todo EXCEPT ![e] = vms]
        /\ pc' = [pc EXCEPT ![e] = "vm"] \/ pc' = [pc EXCEPT ![e] = "raised"]
    BY <1>0, <1>1 DEF ListVms, Call, Holds
  <2>2. Holds'
    BY <1>0, <2>1 DEF Holds
  <2> QED
    BY <1>0, <2>1, <2>2, ThreadStep DEF Holds, Aims
<1>2. CASE OpenVm(e)
  <2>1. PICK v \in todo[e] \cap Vms :
        /\ UNCHANGED <<vms, disks, dry, srs>> /\ todo' = [todo EXCEPT ![e] = todo[e] \ {v}]
        /\ own' = [own EXCEPT ![e] = DisksOf[v] \cap disks]
        /\ \/ pc' = [pc EXCEPT ![e] = IF dry THEN "vm" ELSE "shutdown"]
           \/ pc' = [pc EXCEPT ![e] = "raised"]
    BY <1>0, <1>2 DEF OpenVm, Call, Holds
  <2>2. Holds'
    BY <1>0, <2>1 DEF Holds
  <2> QED
    BY <1>0, <2>1, <2>2, ThreadStep DEF Holds, Aims
<1>3. CASE DiskList(e)
  <2>1. /\ UNCHANGED <<vms, disks, dry, srs, todo>> /\ own' = [own EXCEPT ![e] = own[e] \cap disks]
        /\ pc' = [pc EXCEPT ![e] = "disk"] \/ pc' = [pc EXCEPT ![e] = "handler"]
        /\ pc[e] = "disks"
    BY <1>0, <1>3 DEF DiskList, Call, Holds
  <2>2. ~dry
    BY <1>0, <2>1 DEF Spared
  <2>3. Holds'
    BY <1>0, <2>1 DEF Holds
  <2> QED
    BY <1>0, <2>1, <2>2, <2>3, ThreadStep DEF Holds, Aims
<1>4. CASE Verify(e)
  <2>1. /\ UNCHANGED <<vms, disks, dry, srs, todo, own>> /\ pc[e] = "verify"
        /\ pc' = [pc EXCEPT ![e] = "vm"] \/ pc' = [pc EXCEPT ![e] = "handler"]
    BY <1>0, <1>4 DEF Verify, Call, Holds
  <2>2. ~dry
    BY <1>0, <2>1 DEF Spared
  <2>3. Holds'
    BY <1>0, <2>1 DEF Holds
  <2> QED
    BY <1>0, <2>1, <2>2, <2>3, ThreadStep DEF Holds, Aims
<1>5. CASE Handler(e)
  <2>1. /\ UNCHANGED <<vms, disks, dry, srs, todo, own>>
        /\ pc' = [pc EXCEPT ![e] = "vm"] \/ pc' = [pc EXCEPT ![e] = "raised"]
    BY <1>0, <1>5 DEF Handler, Call, Holds
  <2>2. Holds'
    BY <1>0, <2>1 DEF Holds
  <2> QED
    BY <1>0, <2>1, <2>2, ThreadStep DEF Holds, Aims
<1>6. CASE LocalSrs(e)
  <2>1. /\ UNCHANGED <<vms, disks, dry, todo, own>> /\ srs' = [srs EXCEPT ![e] = Local]
        /\ pc' = [pc EXCEPT ![e] = "sr"] \/ pc' = [pc EXCEPT ![e] = "raised"]
    BY <1>0, <1>6 DEF LocalSrs, local_sr_uuids, Call, Holds
  <2>2. Holds'
    BY <1>0, <2>1 DEF Holds
  <2> QED
    BY <1>0, <2>1, <2>2, ThreadStep DEF Holds, Aims
<1>7. CASE ListVdis(e)
  <2>1. PICK s \in srs[e] :
        /\ UNCHANGED <<vms, disks, dry, own>> /\ srs' = [srs EXCEPT ![e] = srs[e] \ {s}]
        /\ todo' = [todo EXCEPT ![e] = {d \in disks : SrOf[d] = s}]
        /\ pc' = [pc EXCEPT ![e] = "vdi"] \/ pc' = [pc EXCEPT ![e] = "raised"]
    BY <1>0, <1>7 DEF ListVdis, Call, Holds
  <2>2. Holds'
    BY <1>0, <2>1 DEF Holds
  <2> QED
    BY <1>0, <2>1, <2>2, ThreadStep DEF Holds, Aims
<1>8. CASE Wait(e)
  <2>1. /\ UNCHANGED <<vms, disks, dry, todo, own>>
        /\ \/ srs' = [srs EXCEPT ![e] = Local] /\ pc' = [pc EXCEPT ![e] = "wait"]
           \/ srs' = srs /\ pc' = [pc EXCEPT ![e] = "returned"]
    BY <1>0, <1>8 DEF Wait, local_sr_uuids, Holds
  <2>2. Holds'
    BY <1>0, <2>1 DEF Holds
  <2> QED
    BY <1>0, <2>1, <2>2, ThreadStep DEF Holds, Aims
<1>9. CASE Join(e)
  <2>1. /\ UNCHANGED <<vms, disks, dry, srs, todo, own>> /\ pc' = [pc EXCEPT ![e] = "joined"]
    BY <1>0, <1>9 DEF Join, Holds
  <2>2. Holds'
    BY <1>0, <2>1 DEF Holds
  <2> QED
    BY <1>0, <2>1, <2>2, ThreadStep DEF Holds, Aims
<1>10. CASE Empty(e)
  <2>1. /\ UNCHANGED <<vms, disks, dry, todo, own>>
        /\ pc' \in {pc, [pc EXCEPT ![e] = "returned"], [pc EXCEPT ![e] = "raised"]} /\ pc[e] = "wait"
        /\ srs' = srs \/ \E s \in srs[e] : srs' = [srs EXCEPT ![e] = srs[e] \ {s}]
    BY <1>0, <1>10 DEF Empty, Holds
  <2>2. Holds'
    BY <1>0, <2>1 DEF Holds
  <2> QED
    BY <1>0, <2>1, <2>2, ThreadStep DEF Holds, Aims
<1> QED
  BY <1>1, <1>2, <1>3, <1>4, <1>5, <1>6, <1>7, <1>8, <1>9, <1>10

\* The steps of a thread that stop or destroy something.
LEMMA DestroyStep ==
  ASSUME PInv, NEW e \in Entries,
         Shutdown(e) \/ DestroyDisk(e) \/ VmDestroy(e) \/ Vdi(e)
  PROVE  PInv'
<1> USE DEF Label, Destroying
<1>0. Holds /\ Spared /\ Aims
  BY DEF PInv
<1>1. CASE Shutdown(e)
  <2>1. /\ UNCHANGED <<vms, disks, dry, srs, todo, own>> /\ pc[e] = "shutdown"
        /\ pc' = [pc EXCEPT ![e] = "disks"] \/ pc' = [pc EXCEPT ![e] = "handler"]
    BY <1>0, <1>1 DEF Shutdown, Call, Holds
  <2>2. ~dry
    BY <1>0, <2>1 DEF Spared
  <2>3. Holds'
    BY <1>0, <2>1 DEF Holds
  <2> QED
    BY <1>0, <2>1, <2>2, <2>3, ThreadStep DEF Holds, Aims
<1>2. CASE DestroyDisk(e)
  <2>1. /\ UNCHANGED <<vms, dry, srs, todo>> /\ pc[e] = "disk"
        /\ \/ pc' = [pc EXCEPT ![e] = "disk"] \/ pc' = [pc EXCEPT ![e] = "handler"]
           \/ pc' = [pc EXCEPT ![e] = "destroy"]
        /\ \/ disks' = disks /\ own' = own
           \/ \E d \in own[e] : disks' \in {disks, disks \ {d}} /\ own' = [own EXCEPT ![e] = own[e] \ {d}]
    BY <1>0, <1>2 DEF DestroyDisk, Call, Holds
  <2>2. ~dry
    BY <1>0, <2>1 DEF Spared
  <2>3. Holds'
    BY <1>0, <2>1 DEF Holds
  <2> QED
    BY <1>0, <2>1, <2>2, <2>3, ThreadStep DEF Holds, Aims
<1>3. CASE VmDestroy(e)
  <2>1. /\ UNCHANGED <<disks, dry, srs, todo, own>> /\ pc[e] = "destroy" /\ vms' \subseteq vms
        /\ pc' = [pc EXCEPT ![e] = "verify"] \/ pc' = [pc EXCEPT ![e] = "handler"]
    BY <1>0, <1>3 DEF VmDestroy, Call, Holds
  <2>2. ~dry
    BY <1>0, <2>1 DEF Spared
  <2>3. Holds'
    BY <1>0, <2>1 DEF Holds
  <2> QED
    BY <1>0, <2>1, <2>2, <2>3, ThreadStep DEF Holds, Aims
<1>4. CASE Vdi(e)
  <2>1. /\ UNCHANGED <<vms, dry, srs, own>> /\ pc[e] = "vdi"
        /\ \/ /\ disks' = disks /\ pc' = [pc EXCEPT ![e] = "sr"] /\ todo' = todo
           \/ /\ pc' = pc /\ \E d \in todo[e] : /\ disks' \in {disks, disks \ {d}}
                                                /\ todo' = [todo EXCEPT ![e] = todo[e] \ {d}]
    BY <1>0, <1>4 DEF Vdi, Holds
  <2>2. Holds'
    BY <1>0, <2>1 DEF Holds
  <2> QED
    BY <1>0, <2>1, <2>2, ThreadStep DEF Holds, Aims
<1> QED
  BY <1>1, <1>2, <1>3, <1>4

\* The steps of the main thread.
LEMMA MainStep ==
  ASSUME PInv, Submit \/ Return \/ (\E e \in Entries : Connect(e)) PROVE PInv'
<1> USE DEF Label, Destroying
<1>0. Holds /\ Spared /\ Aims
  BY DEF PInv
<1>1. CASE Submit
  <2>1. /\ UNCHANGED <<vms, disks, todo, srs, own, dry>>
        /\ pc' = [e \in Entries |-> IF pc[e] = "ready" THEN "list" ELSE pc[e]]
    BY <1>1 DEF Submit
  <2>2. Holds'
    BY <1>0, <2>1 DEF Holds
  <2>3. Spared'
    BY <1>0, <2>1 DEF Spared
  <2>4. Aims'
    BY <1>0, <2>1 DEF Aims
  <2>5. OthersDisksKept'
    BY <2>1 DEF PInv, OthersDisksKept
  <2> QED
    BY <2>2, <2>3, <2>4, <2>5 DEF PInv
<1>2. CASE Return
  BY <1>2 DEF Return, PInv, Holds, Spared, Aims, OthersDisksKept
<1>3. ASSUME NEW e \in Entries, Connect(e) PROVE PInv'
  <2>1. /\ UNCHANGED <<vms, disks, todo, srs, own, dry>>
        /\ \E label \in {pc[e], "ready", "skipped"} : pc' = [pc EXCEPT ![e] = label]
    BY <1>0, <1>3 DEF Connect, Holds
  <2>2. Holds'
    BY <1>0, <2>1 DEF Holds
  <2> QED
    BY <1>0, <2>1, <2>2, ThreadStep DEF Holds, Spared, Aims
<1> QED
  BY <1>1, <1>2, <1>3

\* Every step.
LEMMA NextPInv == PInv /\ [Next]_vars => PInv'
<1> SUFFICES ASSUME PInv, [Next]_vars PROVE PInv'
  OBVIOUS
<1>1. CASE Clean
  BY <1>1, MainStep, AskStep, DestroyStep DEF Clean, Thread
<1>2. ASSUME NEW v \in Newcomers, Arrive(v) PROVE PInv'
  <2>1. /\ UNCHANGED <<dry, pc, todo, srs, own>> /\ vms' = vms \cup {v} /\ disks' = disks \cup DisksOf[v]
    BY <1>2 DEF Arrive
  <2>2. Holds'
    BY <2>1 DEF PInv, Holds
  <2>3. Spared' /\ Aims' /\ OthersDisksKept'
    BY <2>1 DEF PInv, Spared, Aims, OthersDisksKept
  <2> QED
    BY <2>2, <2>3 DEF PInv
<1>3. CASE UNCHANGED vars
  BY <1>3 DEF PInv, Holds, Spared, Aims, OthersDisksKept
<1> QED
  BY <1>1, <1>2, <1>3 DEF Next, Done

\* In a dry run the only steps that are left change nothing.
LEMMA DryStep ==
  PInv /\ [Next]_vars =>
      [dry => vms \subseteq vms' /\ running \subseteq running' /\ disks \subseteq disks']_vars
<1> SUFFICES ASSUME PInv, [Next]_vars, dry
             PROVE  vms \subseteq vms' /\ running \subseteq running' /\ disks \subseteq disks'
  OBVIOUS
<1>0. \A e \in Entries : pc[e] \notin Destroying
  BY DEF PInv, Spared
<1>1. CASE Submit \/ Return \/ \E e \in Entries : Connect(e) \/ Join(e)
  BY <1>1 DEF Submit, Return, Connect, Join
<1>2. ASSUME NEW e \in Entries, Thread(e) PROVE UNCHANGED pool
  <2>1. ~Shutdown(e) /\ ~DiskList(e) /\ ~DestroyDisk(e) /\ ~VmDestroy(e) /\ ~Verify(e) /\ ~Handler(e)
    BY <1>0 DEF Shutdown, DiskList, DestroyDisk, VmDestroy, Verify, Handler, Destroying
  <2>2. CASE ListVms(e) \/ OpenVm(e) \/ LocalSrs(e) \/ ListVdis(e)
    BY <2>2 DEF ListVms, OpenVm, LocalSrs, ListVdis, Call
  <2>3. CASE Vdi(e) \/ Wait(e) \/ Empty(e)
    BY <2>3 DEF Vdi, Wait, Empty
  <2> QED
    BY <1>2, <2>1, <2>2, <2>3 DEF Thread
<1>3. CASE \E v \in Newcomers : Arrive(v)
  BY <1>3 DEF Arrive
<1>4. CASE UNCHANGED vars
  BY <1>4
<1> QED
  BY <1>1, <1>2, <1>3, <1>4 DEF Next, Clean, Done

\* The command removes nothing but VMs, their disks and what lies on local SRs,
\* whatever fails, however many threads clean the same pool and whatever others
\* do there; and a dry run removes nothing and stops nothing
\* (clean_pool, VM.destroy).
THEOREM Leaves == Spec => RemovesNoMore
<1>1. Spec => []PInv
  BY InitPInv, NextPInv, PTL DEF Spec
<1>2. PInv => OthersDisksKept
  BY DEF PInv
<1> QED
  BY <1>1, <1>2, DryStep, PTL DEF Spec, RemovesNoMore, DryRunIsDry
-----------------------------------------------------------------------------
(* The exit code.                                                          *)

OldDisks == UNION {DisksOf[v] : v \in Found}
NewDisks == UNION {DisksOf[v] : v \in arrived}

\* What a thread knows of the pool and of the VM it destroys.
Hand(e) ==
    /\ pc[e] \in Destroying => vm[e] \in Vms
    /\ pc[e] \in {"shutdown", "disks", "disk"} => DisksOf[vm[e]] \cap disks \cap OldDisks \subseteq own[e]
    /\ pc[e] = "destroy" => DisksOf[vm[e]] \cap disks \cap OldDisks = {}
    /\ pc[e] = "wait" => ~dry
    /\ pc[e] = "skipped" => e \notin masters
    /\ pc[e] \notin {"entry", "skipped"} => e \in masters

\* The VMs there are, and the disks of one that is gone are gone.
Pool ==
    /\ vms \subseteq Found \cup arrived /\ arrived \subseteq Newcomers /\ running \subseteq vms
    /\ \A v \in Found \ vms : DisksOf[v] \cap disks = {}
    /\ \A e \in Entries : Hand(e)

\* The disks on local SRs are those of newcomers only.
LocalEmpty(S) == \A d \in disks : SrOf[d] \in Local \ S => d \in NewDisks

\* A thread that has counted no failure has left behind no VM it has looked at.
Progress(e) ==
    /\ pc[e] = "vm" => vms \cap Found \subseteq todo[e]
    /\ pc[e] \in Destroying \ {"handler"} => vms \cap Found \subseteq todo[e] \cup {vm[e]}
    /\ pc[e] \in {"sr", "vdi", "wait", "returned"} => vms \cap Found = {}
    /\ pc[e] = "wait" => LocalEmpty(srs[e])
    /\ pc[e] = "returned" => LocalEmpty({})

\* What the threads have counted is in the total, which is the result.
Truth ==
    /\ ~dry => \A e \in Entries :
          /\ failures[e] = 0 => Progress(e)
          /\ pc[e] = "joined" /\ total = 0 => vms \cap Found = {} /\ LocalEmpty({})
    /\ result # None => result = total /\ \A e \in Entries : pc[e] \in {"joined", "skipped"}

\* A command that has the pool for itself.
Alone == /\ faults = 0 /\ arrived = {} /\ \A e, f \in masters : e = f
         /\ \A v, w \in Vms : v # w => DisksOf[v] \cap DisksOf[w] = {}

\* What it is about to do can be done.
Able(e) ==
    /\ pc[e] = "vm" => todo[e] \cap Vms \subseteq vms
    /\ pc[e] \in Destroying => todo[e] \cap Vms \subseteq vms \ {vm[e]}
    /\ pc[e] \in Destroying \ {"verify"} => vm[e] \in vms
    /\ pc[e] = "verify" => vm[e] \notin vms
    /\ pc[e] \in {"disks", "disk", "destroy"} => vm[e] \notin running
    /\ pc[e] \in {"shutdown", "disks", "disk"} => own[e] \subseteq disks \cap DisksOf[vm[e]]
    /\ ~dry => /\ pc[e] = "sr"   => LocalEmpty(srs[e])
               /\ pc[e] = "vdi"  => /\ todo[e] \subseteq disks
                                    /\ \A d \in disks \ todo[e] : SrOf[d] \notin Local \ srs[e]
               /\ pc[e] = "wait" => LocalEmpty({})

Fine(e) == failures[e] = 0 /\ pc[e] \notin {"raised", "handler"} /\ Able(e)

Success == Alone => ~aborted /\ total = 0 /\ \A e \in Entries : Fine(e)

IInv == PInv /\ TypeOK /\ Pool /\ Truth /\ Success

\* What a step of the thread of e leaves alone, and what it never adds.
Frame(e) ==
    /\ UNCHANGED <<main, arrived>>
    /\ vms' \subseteq vms /\ disks' \subseteq disks /\ running' \subseteq running
    /\ \A f \in Entries \ {e} : /\ pc'[f] = pc[f] /\ todo'[f] = todo[f] /\ srs'[f] = srs[f]
                                /\ vm'[f] = vm[f] /\ own'[f] = own[f] /\ failures'[f] = failures[f]
    /\ vm' \in [Entries -> Vms \cup {None}] /\ failures' \in [Entries -> Nat]
    /\ faults' \in faults..MaxFaults

Labels == {"entry", "skipped", "ready", "list", "vm", "shutdown", "disks", "disk", "destroy",
           "verify", "handler", "sr", "vdi", "wait", "returned", "raised", "joined"}

\* A step of the thread of e, from what that thread then holds.
Kept(e) ==
    /\ Frame(e) /\ result = None
    /\ pc[e] \notin {"entry", "skipped", "joined"} /\ pc'[e] \notin {"entry", "skipped", "joined"}
    /\ running' \subseteq vms' /\ \A v \in Found \ vms' : DisksOf[v] \cap disks' = {}
    /\ Hand(e)' /\ (~dry /\ failures'[e] = 0 => Progress(e)') /\ (Alone' => Fine(e)')

\* Such a step keeps the invariant.
LEMMA Stepped == ASSUME IInv, PInv', NEW e \in Entries, Kept(e) PROVE IInv'
<1> USE DEF Kept
<1>1. TypeOK'
  <2>1. pc' \in [Entries -> Labels]
    BY DEF PInv, Holds, Label, Destroying, Labels
  <2>2. /\ vms' \subseteq Vms /\ disks' \subseteq Disks /\ todo' \in [Entries -> SUBSET (Vms \cup Disks)]
        /\ srs' \in [Entries -> SUBSET Local] /\ own' \in [Entries -> SUBSET Disks]
    BY DEF PInv, Holds
  <2>3. faults' \in 0..MaxFaults
    BY DEF IInv, TypeOK, Frame
  <2>4. /\ dry' \in BOOLEAN /\ masters' \subseteq Entries /\ total' \in Nat /\ result' \in Nat \cup {None}
        /\ aborted' \in BOOLEAN /\ arrived' \subseteq Newcomers
    BY DEF IInv, TypeOK, Frame
  <2>5. vm' \in [Entries -> Vms \cup {None}] /\ failures' \in [Entries -> Nat]
    BY DEF Frame
  <2> QED
    BY <2>1, <2>2, <2>3, <2>4, <2>5 DEF TypeOK, Labels
<1>2. Pool'
  <2>1. \A f \in Entries \ {e} : Hand(f)'
    BY DEF IInv, Pool, Hand, Frame
  <2> QED
    BY <2>1 DEF IInv, Pool, Frame, Found
<1>3. Truth'
  <2>1. UNCHANGED <<dry, total, result, NewDisks>>
    BY DEF Frame, NewDisks
  <2>2. ASSUME ~dry, NEW f \in Entries PROVE failures'[f] = 0 => Progress(f)'
    BY <2>1, <2>2 DEF IInv, Truth, Progress, LocalEmpty, Frame
  <2>3. ASSUME ~dry, NEW f \in Entries, pc'[f] = "joined", total' = 0
        PROVE  vms' \cap Found = {} /\ LocalEmpty({})'
    BY <2>1, <2>3 DEF IInv, Truth, LocalEmpty, Frame
  <2>4. result' = None
    BY <2>1
  <2> QED
    BY <2>1, <2>2, <2>3, <2>4 DEF Truth
<1>4. Success'
  <2>1. SUFFICES ASSUME Alone' PROVE ~aborted' /\ total' = 0 /\ \A f \in Entries : Fine(f)'
    BY DEF Success
  <2>2. Alone
    BY <2>1 DEF Alone, IInv, TypeOK, Frame
  <2>3. ASSUME NEW f \in Entries \ {e} PROVE Fine(f)'
    <3>1. e \in masters /\ f \notin masters
      BY <2>2, <2>3 DEF IInv, Pool, Hand, Alone, TypeOK
    <3>2. pc'[f] \in {"entry", "skipped"} /\ failures'[f] = 0
      BY <3>1, <2>2 DEF IInv, Pool, Hand, Success, Fine, Frame
    <3> QED
      BY <3>2 DEF Fine, Able, Destroying
  <2> QED
    BY <2>1, <2>2, <2>3 DEF IInv, Success, Frame
<1> QED
  BY <1>1, <1>2, <1>3, <1>4 DEF IInv

\* The list of VMs.
LEMMA ListVmsIInv == ASSUME IInv, NEW e \in Entries, ListVms(e) PROVE IInv'
<1>0. PInv /\ Holds /\ TypeOK /\ PInv'
  BY AskStep DEF IInv, PInv
<1>1. /\ UNCHANGED <<pool, main, arrived>> /\ pc[e] = "list" /\ result = None /\ ~aborted
      /\ UNCHANGED <<srs, vm, own, failures>> /\ todo' = [todo EXCEPT ![e] = vms]
      /\ faults' = faults \/ Fault
      /\ \/ pc' = [pc EXCEPT ![e] = "vm"]
         \/ pc' = [pc EXCEPT ![e] = "raised"] /\ (faults' = faults + 1)
  BY <1>0 DEF ListVms, Holds, TypeOK, Call
<1>2. Frame(e)
  BY <1>0, <1>1 DEF Frame, Holds, TypeOK
<1>3. Hand(e)'
  BY <1>0, <1>1 DEF IInv, Pool, Hand, Destroying, Holds, TypeOK
<1>4. ~dry /\ failures'[e] = 0 => Progress(e)'
  BY <1>0, <1>1 DEF IInv, Pool, Truth, Progress, Destroying, Holds, TypeOK
<1>5. Alone' => Fine(e)'
  BY <1>0, <1>1 DEF IInv, Pool, Success, Fine, Able, Alone, Destroying, Holds, TypeOK
<1>6. /\ pc[e] \notin {"entry", "skipped", "joined"} /\ pc'[e] \notin {"entry", "skipped", "joined"}
      /\ running' \subseteq vms' /\ result = None /\ \A v \in Found \ vms' : DisksOf[v] \cap disks' = {}
  BY <1>0, <1>1 DEF IInv, Pool, Holds
<1>7. Kept(e)
  BY <1>2, <1>3, <1>4, <1>5, <1>6 DEF Kept
<1> QED
  BY <1>0, <1>7, Stepped

\* A VM of the list is found.
LEMMA OpenVmIInv == ASSUME IInv, NEW e \in Entries, OpenVm(e) PROVE IInv'
<1>0. PInv /\ Holds /\ TypeOK /\ PInv'
  BY AskStep DEF IInv, PInv
<1>1. PICK v \in todo[e] \cap Vms :
      /\ UNCHANGED <<pool, main, arrived>> /\ pc[e] = "vm" /\ result = None /\ ~aborted
      /\ UNCHANGED <<srs, failures>> /\ vm' = [vm EXCEPT ![e] = v]
      /\ todo' = [todo EXCEPT ![e] = todo[e] \ {v}] /\ own' = [own EXCEPT ![e] = DisksOf[v] \cap disks]
      /\ faults' = faults \/ Fault
      /\ \/ pc' = [pc EXCEPT ![e] = IF dry THEN "vm" ELSE "shutdown"]
         \/ pc' = [pc EXCEPT ![e] = "raised"] /\ (faults' = faults + 1 \/ ~(v \in vms))
  BY <1>0 DEF OpenVm, Holds, TypeOK, Call
<1>2. Frame(e)
  BY <1>0, <1>1 DEF Frame, Holds, TypeOK
<1>3. Hand(e)'
  BY <1>0, <1>1 DEF IInv, Pool, Hand, Destroying, Holds, TypeOK
<1>4. ~dry /\ failures'[e] = 0 => Progress(e)'
  BY <1>0, <1>1 DEF IInv, Pool, Truth, Progress, Destroying, Holds, TypeOK
<1>5. Alone' => Fine(e)'
  BY <1>0, <1>1 DEF IInv, Pool, Success, Fine, Able, Alone, Destroying, Holds, TypeOK
<1>6. /\ pc[e] \notin {"entry", "skipped", "joined"} /\ pc'[e] \notin {"entry", "skipped", "joined"}
      /\ running' \subseteq vms' /\ result = None /\ \A w \in Found \ vms' : DisksOf[w] \cap disks' = {}
  BY <1>0, <1>1 DEF IInv, Pool, Holds
<1>7. Kept(e)
  BY <1>2, <1>3, <1>4, <1>5, <1>6 DEF Kept
<1> QED
  BY <1>0, <1>7, Stepped

\* The disks of the VM are listed once more.
LEMMA DiskListIInv == ASSUME IInv, NEW e \in Entries, DiskList(e) PROVE IInv'
<1>0. PInv /\ Holds /\ TypeOK /\ PInv'
  BY AskStep DEF IInv, PInv
<1>1. /\ UNCHANGED <<pool, main, arrived>> /\ pc[e] = "disks" /\ result = None /\ ~aborted
      /\ UNCHANGED <<todo, srs, vm, failures>> /\ own' = [own EXCEPT ![e] = own[e] \cap disks]
      /\ faults' = faults \/ Fault
      /\ \/ pc' = [pc EXCEPT ![e] = "disk"]
         \/ pc' = [pc EXCEPT ![e] = "handler"] /\ (faults' = faults + 1 \/ ~(vm[e] \in vms))
  BY <1>0 DEF DiskList, Holds, TypeOK, Call
<1>2. Frame(e)
  BY <1>0, <1>1 DEF Frame, Holds, TypeOK
<1>3. Hand(e)'
  BY <1>0, <1>1 DEF IInv, Pool, Hand, Destroying, Holds, TypeOK
<1>4. ~dry /\ failures'[e] = 0 => Progress(e)'
  BY <1>0, <1>1 DEF IInv, Pool, Truth, Progress, Destroying, Holds, TypeOK
<1>5. Alone' => Fine(e)'
  BY <1>0, <1>1 DEF IInv, Pool, Success, Fine, Able, Alone, Destroying, Holds, TypeOK
<1>6. /\ pc[e] \notin {"entry", "skipped", "joined"} /\ pc'[e] \notin {"entry", "skipped", "joined"}
      /\ running' \subseteq vms' /\ result = None /\ \A v \in Found \ vms' : DisksOf[v] \cap disks' = {}
  BY <1>0, <1>1 DEF IInv, Pool, Holds
<1>7. Kept(e)
  BY <1>2, <1>3, <1>4, <1>5, <1>6 DEF Kept
<1> QED
  BY <1>0, <1>7, Stepped

\* The VM is gone.
LEMMA VerifyIInv == ASSUME IInv, NEW e \in Entries, Verify(e) PROVE IInv'
<1>0. PInv /\ Holds /\ TypeOK /\ PInv'
  BY AskStep DEF IInv, PInv
<1>1. /\ UNCHANGED <<pool, main, arrived>> /\ pc[e] = "verify" /\ result = None /\ ~aborted
      /\ UNCHANGED <<todo, srs, vm, own, failures>> /\ vm[e] \notin vms
      /\ faults' = faults \/ Fault
      /\ \/ pc' = [pc EXCEPT ![e] = "vm"]
         \/ pc' = [pc EXCEPT ![e] = "handler"] /\ (faults' = faults + 1)
  BY <1>0 DEF Verify, Holds, TypeOK, Call
<1>2. Frame(e)
  BY <1>0, <1>1 DEF Frame, Holds, TypeOK
<1>3. Hand(e)'
  BY <1>0, <1>1 DEF IInv, Pool, Hand, Destroying, Holds, TypeOK
<1>4. ~dry /\ failures'[e] = 0 => Progress(e)'
  BY <1>0, <1>1 DEF IInv, Pool, Truth, Progress, Destroying, Holds, TypeOK
<1>5. Alone' => Fine(e)'
  BY <1>0, <1>1 DEF IInv, Pool, Success, Fine, Able, Alone, Destroying, Holds, TypeOK
<1>6. /\ pc[e] \notin {"entry", "skipped", "joined"} /\ pc'[e] \notin {"entry", "skipped", "joined"}
      /\ running' \subseteq vms' /\ result = None /\ \A v \in Found \ vms' : DisksOf[v] \cap disks' = {}
  BY <1>0, <1>1 DEF IInv, Pool, Holds
<1>7. Kept(e)
  BY <1>2, <1>3, <1>4, <1>5, <1>6 DEF Kept
<1> QED
  BY <1>0, <1>7, Stepped

\* A VM could not be destroyed.
LEMMA HandlerIInv == ASSUME IInv, NEW e \in Entries, Handler(e) PROVE IInv'
<1>0. PInv /\ Holds /\ TypeOK /\ PInv'
  BY AskStep DEF IInv, PInv
<1>1. /\ UNCHANGED <<pool, main, arrived>> /\ pc[e] = "handler" /\ result = None /\ ~aborted
      /\ UNCHANGED <<todo, srs, vm, own>> /\ (faults' = faults \/ Fault)
      /\ \/ pc' = [pc EXCEPT ![e] = "vm"] /\ failures' = [failures EXCEPT ![e] = failures[e] + 1]
         \/ pc' = [pc EXCEPT ![e] = "raised"] /\ failures' = failures
  BY <1>0 DEF Handler, Holds, TypeOK, Call
<1>2. Frame(e)
  BY <1>0, <1>1 DEF Frame, Holds, TypeOK
<1>3. Hand(e)'
  BY <1>0, <1>1 DEF IInv, Pool, Hand, Destroying, Holds, TypeOK
<1>4. ~dry /\ failures'[e] = 0 => Progress(e)'
  BY <1>0, <1>1 DEF IInv, Pool, Truth, Progress, Destroying, Holds, TypeOK
<1>5. Alone' => Fine(e)'
  BY <1>0, <1>1 DEF IInv, Pool, Success, Fine, Able, Alone, Destroying, Holds, TypeOK
<1>6. /\ pc[e] \notin {"entry", "skipped", "joined"} /\ pc'[e] \notin {"entry", "skipped", "joined"}
      /\ running' \subseteq vms' /\ result = None /\ \A v \in Found \ vms' : DisksOf[v] \cap disks' = {}
  BY <1>0, <1>1 DEF IInv, Pool, Holds
<1>7. Kept(e)
  BY <1>2, <1>3, <1>4, <1>5, <1>6 DEF Kept
<1> QED
  BY <1>0, <1>7, Stepped

\* All VMs have been looked at.
LEMMA LocalSrsIInv == ASSUME IInv, NEW e \in Entries, LocalSrs(e) PROVE IInv'
<1>0. PInv /\ Holds /\ TypeOK /\ PInv'
  BY AskStep DEF IInv, PInv
<1>1. /\ UNCHANGED <<pool, main, arrived>> /\ pc[e] = "vm" /\ result = None /\ ~aborted
      /\ UNCHANGED <<todo, vm, own, failures>> /\ srs' = [srs EXCEPT ![e] = Local] /\ todo[e] = {}
      /\ faults' = faults \/ Fault
      /\ \/ pc' = [pc EXCEPT ![e] = "sr"]
         \/ pc' = [pc EXCEPT ![e] = "raised"] /\ (faults' = faults + 1)
  BY <1>0 DEF LocalSrs, Holds, TypeOK, Call, local_sr_uuids
<1>2. Frame(e)
  BY <1>0, <1>1 DEF Frame, Holds, TypeOK
<1>3. Hand(e)'
  BY <1>0, <1>1 DEF IInv, Pool, Hand, Destroying, Holds, TypeOK
<1>4. ~dry /\ failures'[e] = 0 => Progress(e)'
  BY <1>0, <1>1 DEF IInv, Pool, Truth, Progress, Destroying, Holds, TypeOK
<1>5. Alone' => Fine(e)'
  BY <1>0, <1>1 DEF IInv, Pool, Success, Fine, Able, Alone, Destroying, Holds, TypeOK, LocalEmpty
<1>6. /\ pc[e] \notin {"entry", "skipped", "joined"} /\ pc'[e] \notin {"entry", "skipped", "joined"}
      /\ running' \subseteq vms' /\ result = None /\ \A v \in Found \ vms' : DisksOf[v] \cap disks' = {}
  BY <1>0, <1>1 DEF IInv, Pool, Holds
<1>7. Kept(e)
  BY <1>2, <1>3, <1>4, <1>5, <1>6 DEF Kept
<1> QED
  BY <1>0, <1>7, Stepped

\* The disks of a local SR.
LEMMA ListVdisIInv == ASSUME IInv, NEW e \in Entries, ListVdis(e) PROVE IInv'
<1>0. PInv /\ Holds /\ TypeOK /\ PInv'
  BY AskStep DEF IInv, PInv
<1>1. PICK s \in srs[e] :
      /\ UNCHANGED <<pool, main, arrived>> /\ pc[e] = "sr" /\ result = None /\ ~aborted
      /\ UNCHANGED <<vm, own, failures>> /\ srs' = [srs EXCEPT ![e] = srs[e] \ {s}]
      /\ todo' = [todo EXCEPT ![e] = {d \in disks : SrOf[d] = s}]
      /\ faults' = faults \/ Fault
      /\ \/ pc' = [pc EXCEPT ![e] = "vdi"]
         \/ pc' = [pc EXCEPT ![e] = "raised"] /\ (faults' = faults + 1)
  BY <1>0 DEF ListVdis, Holds, TypeOK, Call
<1>2. Frame(e)
  BY <1>0, <1>1 DEF Frame, Holds, TypeOK
<1>3. Hand(e)'
  BY <1>0, <1>1 DEF IInv, Pool, Hand, Destroying, Holds, TypeOK
<1>4. ~dry /\ failures'[e] = 0 => Progress(e)'
  BY <1>0, <1>1 DEF IInv, Pool, Truth, Progress, Destroying, Holds, TypeOK
<1>5. Alone' => Fine(e)'
  BY <1>0, <1>1 DEF IInv, Pool, Success, Fine, Able, Alone, Destroying, Holds, TypeOK, LocalEmpty, NewDisks
<1>6. /\ pc[e] \notin {"entry", "skipped", "joined"} /\ pc'[e] \notin {"entry", "skipped", "joined"}
      /\ running' \subseteq vms' /\ result = None /\ \A v \in Found \ vms' : DisksOf[v] \cap disks' = {}
  BY <1>0, <1>1 DEF IInv, Pool, Holds
<1>7. Kept(e)
  BY <1>2, <1>3, <1>4, <1>5, <1>6 DEF Kept
<1> QED
  BY <1>0, <1>7, Stepped

\* All local SRs have been looked at.
LEMMA WaitIInv == ASSUME IInv, NEW e \in Entries, Wait(e) PROVE IInv'
<1>0. PInv /\ Holds /\ TypeOK /\ PInv'
  BY AskStep DEF IInv, PInv
<1>1. /\ UNCHANGED <<pool, main, arrived>> /\ pc[e] = "sr" /\ result = None /\ ~aborted
      /\ UNCHANGED <<todo, vm, own, failures, faults>> /\ srs[e] = {}
      /\ IF ~dry /\ failures[e] = 0
         THEN pc' = [pc EXCEPT ![e] = "wait"] /\ srs' = [srs EXCEPT ![e] = Local]
         ELSE pc' = [pc EXCEPT ![e] = "returned"] /\ srs' = srs
  BY <1>0 DEF Wait, Holds, TypeOK, local_sr_uuids
<1>2. Frame(e)
  BY <1>0, <1>1 DEF Frame, Holds, TypeOK
<1>3. Hand(e)'
  BY <1>0, <1>1 DEF IInv, Pool, Hand, Destroying, Holds, TypeOK
<1>4. ~dry /\ failures'[e] = 0 => Progress(e)'
  BY <1>0, <1>1 DEF IInv, Pool, Truth, Progress, Destroying, Holds, TypeOK, LocalEmpty
<1>5. Alone' => Fine(e)'
  BY <1>0, <1>1 DEF IInv, Pool, Success, Fine, Able, Alone, Destroying, Holds, TypeOK, LocalEmpty, NewDisks
<1>6. /\ pc[e] \notin {"entry", "skipped", "joined"} /\ pc'[e] \notin {"entry", "skipped", "joined"}
      /\ running' \subseteq vms' /\ result = None /\ \A v \in Found \ vms' : DisksOf[v] \cap disks' = {}
  BY <1>0, <1>1 DEF IInv, Pool, Holds
<1>7. Kept(e)
  BY <1>2, <1>3, <1>4, <1>5, <1>6 DEF Kept
<1> QED
  BY <1>0, <1>7, Stepped

\* The VM is stopped.
LEMMA ShutdownIInv == ASSUME IInv, NEW e \in Entries, Shutdown(e) PROVE IInv'
<1>0. PInv /\ Holds /\ TypeOK /\ PInv'
  BY DestroyStep DEF IInv, PInv
<1>1. /\ UNCHANGED <<vms, disks, main, arrived>> /\ pc[e] = "shutdown" /\ result = None /\ ~aborted
      /\ UNCHANGED <<todo, srs, vm, own, failures>> /\ running' \subseteq running
      /\ faults' = faults \/ Fault
      /\ \/ pc' = [pc EXCEPT ![e] = "disks"] /\ running' = running \ {vm[e]}
         \/ pc' = [pc EXCEPT ![e] = "handler"] /\ (faults' = faults + 1 \/ vm[e] \notin vms)
  BY <1>0 DEF Shutdown, Holds, TypeOK, Call
<1>2. Frame(e)
  BY <1>0, <1>1 DEF Frame, Holds, TypeOK
<1>3. Hand(e)'
  BY <1>0, <1>1 DEF IInv, Pool, Hand, Destroying, Holds, TypeOK
<1>4. ~dry /\ failures'[e] = 0 => Progress(e)'
  BY <1>0, <1>1 DEF IInv, Pool, Truth, Progress, Destroying, Holds, TypeOK
<1>5. Alone' => Fine(e)'
  BY <1>0, <1>1 DEF IInv, Pool, Success, Fine, Able, Alone, Destroying, Holds, TypeOK
<1>6. /\ pc[e] \notin {"entry", "skipped", "joined"} /\ pc'[e] \notin {"entry", "skipped", "joined"}
      /\ running' \subseteq vms' /\ result = None /\ \A v \in Found \ vms' : DisksOf[v] \cap disks' = {}
  BY <1>0, <1>1 DEF IInv, Pool, Holds
<1>7. Kept(e)
  BY <1>2, <1>3, <1>4, <1>5, <1>6 DEF Kept
<1> QED
  BY <1>0, <1>7, Stepped

\* A disk of the VM is destroyed.
LEMMA DestroyDiskIInv == ASSUME IInv, NEW e \in Entries, DestroyDisk(e) PROVE IInv'
<1>0. PInv /\ Holds /\ TypeOK /\ PInv'
  BY DestroyStep DEF IInv, PInv
<1>1. /\ UNCHANGED <<vms, running, main, arrived>> /\ pc[e] = "disk" /\ result = None /\ ~aborted
      /\ UNCHANGED <<todo, srs, vm, failures>> /\ (faults' = faults \/ Fault)
      /\ \/ own[e] = {} /\ pc' = [pc EXCEPT ![e] = "destroy"] /\ UNCHANGED <<disks, own>>
         \/ \E d \in own[e] :
               /\ own' = [own EXCEPT ![e] = own[e] \ {d}]
               /\ \/ pc' = [pc EXCEPT ![e] = "disk"] /\ disks' = disks \ {d}
                  \/ /\ pc' = [pc EXCEPT ![e] = "handler"] /\ disks' \subseteq disks
                     /\ faults' = faults + 1 \/ d \notin disks \/ InUse(d)
  BY <1>0 DEF DestroyDisk, Holds, TypeOK, Call
<1>2. Frame(e)
  BY <1>0, <1>1 DEF Frame, Holds, TypeOK
<1>3. Hand(e)'
  BY <1>0, <1>1 DEF IInv, Pool, Hand, Destroying, Holds, TypeOK
<1>4. ~dry /\ failures'[e] = 0 => Progress(e)'
  BY <1>0, <1>1 DEF IInv, Pool, Truth, Progress, Destroying, Holds, TypeOK
<1>5. ASSUME Alone' PROVE Fine(e)'
  <2>1. Alone /\ faults' = faults
    BY <1>0, <1>1, <1>5 DEF Alone, TypeOK
  <2>2. Fine(e) /\ own[e] \subseteq disks \cap DisksOf[vm[e]] /\ vm[e] \in vms \ running
    BY <1>1, <2>1 DEF IInv, Success, Fine, Able, Destroying
  <2>3. \A d \in own[e] : ~InUse(d)
    BY <1>0, <2>1, <2>2 DEF InUse, Alone, TypeOK
  <2>4. pc'[e] # "handler"
    BY <1>0, <1>1, <2>1, <2>2, <2>3 DEF Holds, TypeOK
  <2> QED
    BY <1>0, <1>1, <2>2, <2>4 DEF Fine, Able, Destroying, Holds
<1>6. /\ pc[e] \notin {"entry", "skipped", "joined"} /\ pc'[e] \notin {"entry", "skipped", "joined"}
      /\ running' \subseteq vms' /\ result = None /\ \A v \in Found \ vms' : DisksOf[v] \cap disks' = {}
  BY <1>0, <1>1 DEF IInv, Pool, Holds
<1>7. Kept(e)
  BY <1>2, <1>3, <1>4, <1>5, <1>6 DEF Kept
<1> QED
  BY <1>0, <1>7, Stepped

\* The VM is destroyed, its disks are gone already.
LEMMA VmDestroyIInv == ASSUME IInv, NEW e \in Entries, VmDestroy(e) PROVE IInv'
<1>0. PInv /\ Holds /\ TypeOK /\ PInv'
  BY DestroyStep DEF IInv, PInv
<1>1. /\ UNCHANGED <<disks, running, main, arrived>> /\ pc[e] = "destroy" /\ result = None /\ ~aborted
      /\ UNCHANGED <<todo, srs, vm, own, failures>> /\ (faults' = faults \/ Fault)
      /\ \/ pc' = [pc EXCEPT ![e] = "verify"] /\ vms' = vms \ {vm[e]}
         \/ /\ pc' = [pc EXCEPT ![e] = "handler"] /\ vms' \in {vms, vms \ {vm[e]}}
            /\ faults' = faults + 1 \/ vm[e] \notin vms \ running
      /\ vms' = vms \/ vm[e] \notin running
  BY <1>0 DEF VmDestroy, Holds, TypeOK, Call
<1>2. Frame(e)
  BY <1>0, <1>1 DEF Frame, Holds, TypeOK
<1>3. Hand(e)'
  BY <1>0, <1>1 DEF IInv, Pool, Hand, Destroying, Holds, TypeOK
<1>4. ~dry /\ failures'[e] = 0 => Progress(e)'
  BY <1>0, <1>1 DEF IInv, Pool, Truth, Progress, Destroying, Holds, TypeOK
<1>5. Alone' => Fine(e)'
  BY <1>0, <1>1 DEF IInv, Pool, Success, Fine, Able, Alone, Destroying, Holds, TypeOK
<1>6. running' \subseteq vms' /\ \A v \in Found \ vms' : DisksOf[v] \cap disks' = {}
  <2>1. vm[e] \in Vms /\ DisksOf[vm[e]] \cap disks \cap OldDisks = {}
    BY <1>1 DEF IInv, Pool, Hand, Destroying
  <2>2. \A v \in Found : DisksOf[v] \subseteq OldDisks
    BY DEF OldDisks
  <2> QED
    BY <1>0, <1>1, <2>1, <2>2 DEF IInv, Pool
<1>7. pc[e] \notin {"entry", "skipped", "joined"} /\ pc'[e] \notin {"entry", "skipped", "joined"} /\ result = None
  BY <1>0, <1>1 DEF Holds
<1>8. Kept(e)
  BY <1>2, <1>3, <1>4, <1>5, <1>6, <1>7 DEF Kept
<1> QED
  BY <1>0, <1>8, Stepped

\* A disk left on a local SR.
LEMMA VdiIInv == ASSUME IInv, NEW e \in Entries, Vdi(e) PROVE IInv'
<1>0. PInv /\ Holds /\ TypeOK /\ PInv'
  BY DestroyStep DEF IInv, PInv
<1>1. /\ UNCHANGED <<vms, running, main, arrived>> /\ pc[e] = "vdi" /\ result = None /\ ~aborted
      /\ UNCHANGED <<srs, vm, own>> /\ disks' \subseteq disks /\ (faults' = faults \/ Fault)
      /\ failures' = failures \/ failures' = [failures EXCEPT ![e] = failures[e] + 1]
      /\ \/ todo[e] = {} /\ pc' = [pc EXCEPT ![e] = "sr"] /\ UNCHANGED <<todo, disks, failures>>
         \/ pc' = pc /\ \E d \in todo[e] :
               /\ todo' = [todo EXCEPT ![e] = todo[e] \ {d}]
               /\ disks' \in {disks, disks \ {d}} /\ (dry => failures' = failures)
               /\ \/ failures' = failures /\ (dry \/ disks' = disks \ {d})
                  \/ faults' = faults + 1 \/ d \notin disks \/ InUse(d)
  <2>1. CASE todo[e] = {} /\ Goto(e, "sr") /\ UNCHANGED <<pool, todo, failures, faults>>
    BY <1>0, <2>1 DEF Vdi, Holds, TypeOK
  <2>2. ASSUME NEW d \in todo[e], todo' = [todo EXCEPT ![e] = @ \ {d}], UNCHANGED <<vms, running, pc>>,
               IF dry THEN UNCHANGED <<disks, failures, faults>>
               ELSE \/ /\ d \in disks /\ ~InUse(d) /\ disks' = disks \ {d}
                       /\ UNCHANGED <<failures, faults>>
                    \/ /\ d \notin disks \/ InUse(d)
                       /\ failures' = [failures EXCEPT ![e] = @ + 1] /\ UNCHANGED <<disks, faults>>
                    \/ /\ Fault /\ disks' \in {disks, IF InUse(d) THEN disks ELSE disks \ {d}}
                       /\ failures' = [failures EXCEPT ![e] = @ + 1]
        PROVE  /\ todo' = [todo EXCEPT ![e] = todo[e] \ {d}] /\ disks' \in {disks, disks \ {d}}
               /\ faults' = faults \/ Fault
               /\ failures' = failures \/ failures' = [failures EXCEPT ![e] = failures[e] + 1]
               /\ dry => failures' = failures
               /\ \/ failures' = failures /\ (dry \/ disks' = disks \ {d})
                  \/ faults' = faults + 1 \/ d \notin disks \/ InUse(d)
    BY <1>0, <2>2 DEF Holds, TypeOK
  <2>3. UNCHANGED <<srs, vm, own, main, arrived>> /\ pc[e] = "vdi" /\ result = None /\ ~aborted
    BY DEF Vdi
  <2> QED
    BY <2>1, <2>2, <2>3 DEF Vdi
<1>2. Frame(e)
  BY <1>0, <1>1 DEF Frame, Holds, TypeOK
<1>3. Hand(e)'
  BY <1>0, <1>1 DEF IInv, Pool, Hand, Destroying, Holds, TypeOK
<1>4. ~dry /\ failures'[e] = 0 => Progress(e)'
  BY <1>0, <1>1 DEF IInv, Pool, Truth, Progress, Destroying, Holds, TypeOK
<1>5. ASSUME Alone' PROVE Fine(e)'
  <2>1. Alone /\ faults' = faults /\ Fine(e)
    BY <1>0, <1>1, <1>5 DEF Alone, TypeOK, IInv, Success
  <2>2. CASE dry
    BY <1>0, <1>1, <2>1, <2>2 DEF Fine, Able, Destroying, Holds
  <2>3. CASE ~dry
    <3>1. vms = {}
      BY <1>0, <1>1, <2>1, <2>3 DEF IInv, Truth, Pool, Fine, Progress, Alone
    <3>2. \A d \in todo[e] : d \in disks /\ ~InUse(d)
      BY <1>0, <1>1, <2>1, <2>3, <3>1 DEF InUse, Fine, Able, TypeOK
    <3>3. failures'[e] = 0
      BY <1>0, <1>1, <2>1, <3>2 DEF Fine, TypeOK
    <3>4. NewDisks = {} /\ NewDisks' = {}
      BY <1>1, <2>1 DEF NewDisks, Alone
    <3>5. CASE todo[e] = {} /\ pc' = [pc EXCEPT ![e] = "sr"] /\ UNCHANGED <<todo, disks, failures>>
      BY <1>0, <1>1, <2>1, <2>3, <3>3, <3>4, <3>5 DEF Fine, Able, LocalEmpty, Destroying, Holds
    <3>6. ASSUME pc' = pc, NEW d \in todo[e], todo' = [todo EXCEPT ![e] = todo[e] \ {d}],
                 disks' = disks \ {d}
          PROVE  Fine(e)'
      BY <1>0, <1>1, <2>1, <2>3, <3>3, <3>6 DEF Fine, Able, Destroying, Holds
    <3> QED
      BY <1>0, <1>1, <2>1, <2>3, <3>2, <3>3, <3>5, <3>6 DEF Fine, TypeOK
  <2> QED
    BY <2>2, <2>3
<1>6. /\ pc[e] \notin {"entry", "skipped", "joined"} /\ pc'[e] \notin {"entry", "skipped", "joined"}
      /\ running' \subseteq vms' /\ result = None /\ \A v \in Found \ vms' : DisksOf[v] \cap disks' = {}
  BY <1>0, <1>1 DEF IInv, Pool, Holds
<1>7. Kept(e)
  BY <1>2, <1>3, <1>4, <1>5, <1>6 DEF Kept
<1> QED
  BY <1>0, <1>7, Stepped

\* A local SR is seen empty, or the wait for it fails.
LEMMA EmptyIInv == ASSUME IInv, NEW e \in Entries, Empty(e) PROVE IInv'
<1>0. PInv /\ Holds /\ TypeOK /\ PInv'
  BY AskStep DEF IInv, PInv
<1>1. /\ UNCHANGED <<pool, main, arrived>> /\ pc[e] = "wait" /\ result = None /\ ~aborted
      /\ UNCHANGED <<todo, vm, own, failures>> /\ (faults' = faults \/ Fault)
      /\ \/ srs[e] = {} /\ pc' = [pc EXCEPT ![e] = "returned"] /\ srs' = srs
         \/ \E s \in srs[e] :
               \/ (\A d \in disks : SrOf[d] # s) /\ srs' = [srs EXCEPT ![e] = srs[e] \ {s}] /\ pc' = pc
               \/ /\ pc' = [pc EXCEPT ![e] = "raised"] /\ srs' = srs
                  /\ faults' = faults + 1 \/ \E d \in disks : SrOf[d] = s
  BY <1>0 DEF Empty, Holds, TypeOK
<1>2. Frame(e)
  BY <1>0, <1>1 DEF Frame, Holds, TypeOK
<1>3. Hand(e)'
  BY <1>0, <1>1 DEF IInv, Pool, Hand, Destroying, Holds, TypeOK
<1>4. ~dry /\ failures'[e] = 0 => Progress(e)'
  BY <1>0, <1>1 DEF IInv, Pool, Truth, Progress, LocalEmpty, NewDisks, Destroying, Holds, TypeOK
<1>5. ASSUME Alone' PROVE Fine(e)'
  <2>1. Alone /\ faults' = faults /\ Fine(e)
    BY <1>0, <1>1, <1>5 DEF Alone, TypeOK, IInv, Success
  <2>2. ~dry
    BY <1>0, <1>1 DEF IInv, Pool, Hand
  <2>3. \A d \in disks : SrOf[d] \notin Local
    BY <1>1, <2>1, <2>2 DEF Fine, Able, LocalEmpty, NewDisks, Alone
  <2>4. pc'[e] # "raised"
    BY <1>0, <1>1, <2>1, <2>3 DEF Holds, TypeOK
  <2> QED
    BY <1>0, <1>1, <2>1, <2>3, <2>4 DEF Fine, Able, LocalEmpty, Destroying, Holds
<1>6. /\ pc[e] \notin {"entry", "skipped", "joined"} /\ pc'[e] \notin {"entry", "skipped", "joined"}
      /\ running' \subseteq vms' /\ result = None /\ \A v \in Found \ vms' : DisksOf[v] \cap disks' = {}
  BY <1>0, <1>1 DEF IInv, Pool, Holds
<1>7. Kept(e)
  BY <1>2, <1>3, <1>4, <1>5, <1>6 DEF Kept
<1> QED
  BY <1>0, <1>7, Stepped

-----------------------------------------------------------------------------

\* The pool as the command finds it.
LEMMA InitIInv == Init => IInv
<1> SUFFICES ASSUME Init PROVE IInv
  OBVIOUS
<1>1. PInv
  BY InitPInv
<1>2. TypeOK
  <2>1. pc \in [Entries -> Labels]
    BY DEF Init, Labels
  <2>2. vms \subseteq Vms /\ running \subseteq vms /\ disks \subseteq Disks
    BY DEF Init
  <2>3. /\ todo \in [Entries -> SUBSET (Vms \cup Disks)] /\ srs \in [Entries -> SUBSET Local]
        /\ vm \in [Entries -> Vms \cup {None}] /\ own \in [Entries -> SUBSET Disks]
        /\ failures \in [Entries -> Nat]
    BY DEF Init
  <2>4. faults \in 0..MaxFaults /\ total \in Nat
    BY DEF Init
  <2>5. dry \in BOOLEAN /\ aborted \in BOOLEAN
    BY DEF Init
  <2>6. masters \subseteq Entries /\ result \in Nat \cup {None} /\ arrived \subseteq Newcomers
    BY DEF Init
  <2> QED
    BY <2>1, <2>2, <2>3, <2>4, <2>5, <2>6 DEF TypeOK, Labels
<1>3. Pool
  BY DEF Init, Pool, Hand, Found, Destroying
<1>4. Truth
  BY DEF Init, Truth, Progress, Destroying
<1>5. Success
  BY DEF Init, Success, Fine, Able, Destroying
<1> QED
  BY <1>1, <1>2, <1>3, <1>4, <1>5 DEF IInv

\* The first threads are waited for while the others still run.
LEMMA JoinIInv == ASSUME IInv, NEW e \in Entries, Join(e) PROVE IInv'
<1>0. PInv /\ Holds /\ TypeOK /\ PInv'
  BY AskStep DEF IInv, PInv
<1>1. /\ UNCHANGED <<pool, todo, srs, vm, own, failures, dry, masters, result, aborted, faults, arrived>>
      /\ pc[e] \in {"returned", "raised"} /\ pc' = [pc EXCEPT ![e] = "joined"] /\ result = None
      /\ Outcome(e) \in Nat /\ total' = total + Outcome(e)
      /\ Outcome(e) = 0 => pc[e] = "returned" /\ failures[e] = 0
      /\ failures[e] = 0 /\ pc[e] # "raised" => Outcome(e) = 0
  BY <1>0 DEF Join, Outcome, Holds, TypeOK
<1>2. TypeOK'
  <2>1. pc' \in [Entries -> Labels]
    BY <1>0 DEF PInv, Holds, Label, Destroying, Labels
  <2>2. total' \in Nat
    BY <1>0, <1>1 DEF TypeOK
  <2> QED
    BY <1>0, <1>1, <2>1, <2>2 DEF TypeOK, Labels
<1>3. Pool'
  BY <1>0, <1>1 DEF IInv, Pool, Hand, Destroying, Holds, Found
<1>4. Truth'
  <2>1. total' = 0 => total = 0 /\ Outcome(e) = 0
    BY <1>0, <1>1 DEF TypeOK
  <2>2. NewDisks' = NewDisks
    BY <1>1 DEF NewDisks
  <2>3. ASSUME ~dry, NEW f \in Entries PROVE failures'[f] = 0 => Progress(f)'
    BY <1>0, <1>1, <2>2, <2>3 DEF IInv, Truth, Progress, LocalEmpty, Destroying, Holds
  <2>4. ASSUME ~dry, NEW f \in Entries, pc'[f] = "joined", total' = 0
        PROVE  vms' \cap Found = {} /\ LocalEmpty({})'
    BY <1>0, <1>1, <2>1, <2>2, <2>4 DEF IInv, Truth, Progress, LocalEmpty, Holds
  <2>5. dry' = dry /\ result' = None
    BY <1>1
  <2> QED
    BY <2>3, <2>4, <2>5 DEF Truth
<1>5. Success'
  <2>1. SUFFICES ASSUME Alone' PROVE ~aborted' /\ total' = 0 /\ \A f \in Entries : Fine(f)'
    BY DEF Success
  <2>2. Alone
    BY <1>1, <2>1 DEF Alone
  <2>3. ~aborted' /\ total' = 0
    BY <1>0, <1>1, <2>2 DEF IInv, Success, Fine
  <2>4. ASSUME NEW f \in Entries PROVE Fine(f)'
    BY <1>0, <1>1, <2>2, <2>4 DEF IInv, Success, Fine, Able, LocalEmpty, NewDisks, Destroying, Holds
  <2> QED
    BY <2>3, <2>4
<1> QED
  BY <1>0, <1>2, <1>3, <1>4, <1>5 DEF IInv

\* The entries are connected to one after the other, before any thread runs.
LEMMA ConnectIInv == ASSUME IInv, NEW e \in Entries, Connect(e) PROVE IInv'
<1>0. PInv /\ Holds /\ TypeOK /\ PInv'
  BY MainStep DEF IInv, PInv
<1>1. /\ UNCHANGED <<pool, todo, srs, vm, own, failures, dry, masters, total, result, arrived>>
      /\ pc[e] = "entry" /\ result = None /\ ~aborted
      /\ \/ /\ pc' = [pc EXCEPT ![e] = IF e \in masters THEN "ready" ELSE "skipped"]
            /\ UNCHANGED <<faults, aborted>>
         \/ Fault /\ aborted' = TRUE /\ pc' = pc
  BY DEF Connect
<1>2. TypeOK'
  <2>1. pc' \in [Entries -> Labels]
    BY <1>0 DEF PInv, Holds, Label, Destroying, Labels
  <2>2. faults' \in 0..MaxFaults
    BY <1>0, <1>1 DEF TypeOK
  <2>3. aborted' \in BOOLEAN
    BY <1>0, <1>1 DEF TypeOK
  <2> QED
    BY <1>0, <1>1, <2>1, <2>2, <2>3 DEF TypeOK, Labels
<1>3. Pool'
  BY <1>0, <1>1 DEF IInv, Pool, Hand, Destroying, Holds, Found
<1>4. Truth'
  BY <1>0, <1>1 DEF IInv, Truth, Progress, LocalEmpty, NewDisks, Destroying, Holds
<1>5. Success'
  <2>1. SUFFICES ASSUME Alone' PROVE ~aborted' /\ total' = 0 /\ \A f \in Entries : Fine(f)'
    BY DEF Success
  <2>2. Alone /\ faults' = faults
    BY <1>0, <1>1, <2>1 DEF Alone, TypeOK
  <2>3. UNCHANGED aborted /\ pc' = [pc EXCEPT ![e] = IF e \in masters THEN "ready" ELSE "skipped"]
    BY <1>0, <1>1, <2>2 DEF TypeOK
  <2>4. ASSUME NEW f \in Entries PROVE Fine(f)'
    BY <1>0, <1>1, <2>2, <2>3, <2>4 DEF IInv, Success, Fine, Able, LocalEmpty, NewDisks, Destroying, Holds
  <2> QED
    BY <1>1, <2>2, <2>3, <2>4 DEF IInv, Success
<1> QED
  BY <1>0, <1>2, <1>3, <1>4, <1>5 DEF IInv

\* The threads start.
LEMMA SubmitIInv == ASSUME IInv, Submit PROVE IInv'
<1>0. PInv /\ Holds /\ TypeOK /\ PInv'
  BY MainStep DEF IInv, PInv
<1>1. /\ UNCHANGED <<pool, todo, srs, vm, own, failures, main, faults, arrived>> /\ result = None
      /\ pc' = [f \in Entries |-> IF pc[f] = "ready" THEN "list" ELSE pc[f]]
  BY DEF Submit
<1>2. TypeOK'
  <2>1. pc' \in [Entries -> Labels]
    BY <1>0 DEF PInv, Holds, Label, Destroying, Labels
  <2> QED
    BY <1>0, <1>1, <2>1 DEF TypeOK, Labels
<1>3. Pool'
  BY <1>0, <1>1 DEF IInv, Pool, Hand, Destroying, Holds, Found
<1>4. Truth'
  BY <1>0, <1>1 DEF IInv, Truth, Progress, LocalEmpty, NewDisks, Destroying, Holds
<1>5. Success'
  BY <1>0, <1>1 DEF IInv, Success, Alone, Fine, Able, LocalEmpty, NewDisks, Destroying, Holds
<1> QED
  BY <1>0, <1>2, <1>3, <1>4, <1>5 DEF IInv

\* clean_pools returns the sum.
LEMMA ReturnIInv == ASSUME IInv, Return PROVE IInv'
<1>0. PInv /\ TypeOK /\ PInv'
  BY MainStep DEF IInv
<1>1. /\ UNCHANGED <<pool, thread, dry, masters, total, aborted, faults, arrived>> /\ result' = total
      /\ \A f \in Entries : pc[f] \in {"joined", "skipped"}
  BY DEF Return
<1>2. TypeOK'
  BY <1>0, <1>1 DEF TypeOK
<1>3. Pool'
  BY <1>1 DEF IInv, Pool, Hand
<1>4. Truth'
  BY <1>1 DEF IInv, Truth, Progress, LocalEmpty, NewDisks
<1>5. Success'
  BY <1>1 DEF IInv, Success, Alone, Fine, Able, LocalEmpty, NewDisks
<1> QED
  BY <1>0, <1>2, <1>3, <1>4, <1>5 DEF IInv

\* What is the newcomers' own is not what the command has found.
LEMMA ArriveIInv == ASSUME IInv, NEW v \in Newcomers, Arrive(v) PROVE IInv'
<1>0. PInv /\ TypeOK /\ PInv'
  BY NextPInv DEF IInv, Next
<1>1. /\ v \notin arrived /\ arrived' = arrived \cup {v} /\ vms' = vms \cup {v}
      /\ disks' = disks \cup DisksOf[v] /\ running' \in {running, running \cup {v}}
      /\ UNCHANGED <<thread, main, faults>>
  BY DEF Arrive
<1>2. TypeOK'
  BY <1>0, <1>1 DEF TypeOK
<1>3. /\ vms' \cap Found = vms \cap Found /\ Found \ vms' = Found \ vms /\ NewDisks' = NewDisks \cup DisksOf[v]
      /\ DisksOf[v] \cap OldDisks = {}
  BY <1>0, <1>1 DEF Found, NewDisks, OldDisks, TypeOK
<1>4. Pool'
  <2>1. ASSUME NEW e \in Entries PROVE Hand(e)'
    BY <1>1, <1>3 DEF IInv, Pool, Hand
  <2>2. \A w \in Found \ vms' : DisksOf[w] \cap disks' = {}
    BY <1>1, <1>3 DEF IInv, Pool, Found
  <2>3. vms' \subseteq Found \cup arrived' /\ arrived' \subseteq Newcomers /\ running' \subseteq vms'
    BY <1>1 DEF IInv, Pool, Found
  <2> QED
    BY <2>1, <2>2, <2>3 DEF Pool
<1>5. Truth'
  <2>1. ASSUME ~dry, NEW e \in Entries PROVE failures'[e] = 0 => Progress(e)'
    BY <1>1, <1>3, <2>1 DEF IInv, Truth, Progress, LocalEmpty
  <2>2. ASSUME ~dry, NEW e \in Entries, pc'[e] = "joined", total' = 0
        PROVE  vms' \cap Found = {} /\ LocalEmpty({})'
    BY <1>1, <1>3, <2>2 DEF IInv, Truth, LocalEmpty
  <2>3. dry' = dry /\ (result' # None => result' = total' /\ \A e \in Entries : pc'[e] \in {"joined", "skipped"})
    BY <1>1 DEF IInv, Truth
  <2> QED
    BY <2>1, <2>2, <2>3 DEF Truth
<1>6. Success'
  BY <1>1 DEF Success, Alone
<1> QED
  BY <1>0, <1>2, <1>4, <1>5, <1>6 DEF IInv

\* Every step.
LEMMA NextIInv == IInv /\ [Next]_vars => IInv'
<1> SUFFICES ASSUME IInv, [Next]_vars PROVE IInv'
  OBVIOUS
<1>1. ASSUME NEW e \in Entries, Thread(e) PROVE IInv'
  BY <1>1, ListVmsIInv, OpenVmIInv, ShutdownIInv, DiskListIInv, DestroyDiskIInv, VmDestroyIInv,
     VerifyIInv, HandlerIInv, LocalSrsIInv, ListVdisIInv, VdiIInv, WaitIInv, EmptyIInv DEF Thread
<1>2. CASE Clean
  BY <1>1, <1>2, SubmitIInv, ReturnIInv, ConnectIInv, JoinIInv DEF Clean
<1>3. CASE \E v \in Newcomers : Arrive(v)
  BY <1>3, ArriveIInv
<1>4. CASE UNCHANGED vars
  <2>1. PInv'
    BY <1>4, NextPInv DEF IInv
  <2>2. TypeOK'
    BY <1>4 DEF IInv, TypeOK
  <2>3. Pool'
    BY <1>4 DEF IInv, Pool, Hand
  <2>4. Truth'
    BY <1>4 DEF IInv, Truth, Progress, LocalEmpty, NewDisks
  <2>5. Success'
    BY <1>4 DEF IInv, Success, Alone, Fine, Able, LocalEmpty, NewDisks
  <2> QED
    BY <2>1, <2>2, <2>3, <2>4, <2>5 DEF IInv
<1> QED
  BY <1>2, <1>3, <1>4 DEF Next, Done

\* The invariant and what it says of the exit code.
LEMMA IInvOutcome == IInv => OutcomeIsTrue
<1> SUFFICES ASSUME IInv PROVE CleanMeansEmpty /\ CleanSucceeds
  BY DEF OutcomeIsTrue
<1>1. CleanMeansEmpty
  <2> SUFFICES ASSUME result = 0, ~dry, NEW e \in masters
               PROVE  /\ vms \cap Found = {} /\ disks \cap OldDisks = {}
                      /\ \A d \in disks : SrOf[d] \in Local => d \in NewDisks
    BY DEF CleanMeansEmpty, OldDisks, NewDisks
  <2>1. e \in Entries /\ pc[e] = "joined" /\ total = 0
    BY DEF IInv, TypeOK, Truth, Pool, Hand
  <2>2. vms \cap Found = {} /\ LocalEmpty({})
    BY <2>1 DEF IInv, Truth
  <2>3. disks \cap OldDisks = {}
    BY <2>2 DEF IInv, Pool, OldDisks
  <2> QED
    BY <2>2, <2>3 DEF LocalEmpty
<1>2. CleanSucceeds
  <2> SUFFICES ASSUME (result # None /\ result > 0) \/ aborted,
                      \A v, w \in Vms : v # w => DisksOf[v] \cap DisksOf[w] = {},
                      ~(faults > 0), arrived = {}, \A e, f \in masters : e = f
               PROVE  FALSE
    BY DEF CleanSucceeds
  <2>1. Alone
    BY DEF IInv, TypeOK, Alone
  <2>2. ~aborted /\ (result # None => result = 0)
    BY <2>1 DEF IInv, Success, Truth
  <2> QED
    BY <2>2
<1> QED
  BY <1>1, <1>2

\* The type invariant of the command and of the pool it cleans.
THEOREM TypeCorrect == Spec => []TypeOK
<1>1. IInv => TypeOK
  BY DEF IInv
<1> QED
  BY <1>1, InitIInv, NextIInv, PTL DEF Spec

\* An exit code of zero means that all that was there is gone, whatever failed
\* and whoever else was at work; and a command that has the pool for itself,
\* with no failing call, does exit with zero (clean_pools, clean_pool).
THEOREM ExitCodeAlwaysTrue == Spec => []OutcomeIsTrue
  BY InitIInv, NextIInv, IInvOutcome, PTL DEF Spec
=============================================================================
