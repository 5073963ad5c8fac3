------------------------------ MODULE PoolClean ------------------------------
(***************************************************************************)
(* The clean command: remove every VM, every snapshot and the disks of the *)
(* local SRs of a pool (lib/tools/tasks/clean.py, VM.destroy).             *)
(*                                                                         *)
(* Every entry of the inventory that names a master gets a thread; pools   *)
(* share nothing, so one pool is modelled, which several entries may name  *)
(* (by its name and by its address).  Other people use the pool meanwhile. *)
(***************************************************************************)
EXTENDS Naturals, FiniteSets

CONSTANTS
    Entries,    \* entries of the inventory
    Vms,        \* VMs and snapshots
    Snapshots,  \* those that are snapshots, which do not run
    Newcomers,  \* VMs that other people create during the cleaning
    Templates,
    Disks, Srs,
    Local,      \* the SRs that are not shared
    DisksOf,    \* the disks of each VM and template
    SrOf,       \* the SR of each disk
    None,
    MaxFaults   \* bound: failing calls

ASSUME CleanAssumption ==
    /\ Newcomers \cup Snapshots \subseteq Vms /\ Local \subseteq Srs
    /\ Vms \cap Templates = {} /\ None \notin Vms \cup Nat
    /\ DisksOf \in [Vms \cup Templates -> SUBSET Disks] /\ SrOf \in [Disks -> Srs]
    /\ \A n \in Newcomers, v \in Vms \ Newcomers : DisksOf[n] \cap DisksOf[v] = {}
    /\ MaxFaults \in Nat

VARIABLES
    dry,        \* --dry-run
    masters,    \* the entries that name the master; the others name another host of a pool
    vms, running, disks,   \* the pool: what exists, and which VMs run
    pc,         \* where the thread of an entry is
    todo,       \* the VMs or the disks of an SR it still has to look at
    srs,        \* the SRs it still has to look at
    vm, own,    \* the VM it destroys; the disks of it left to destroy
    failures,   \* counted by the thread
    total,      \* failures of the threads whose result has been taken
    result,     \* of clean_pools: None until it returns
    aborted,    \* clean_pools has raised
    faults, arrived

pool   == <<vms, running, disks>>
thread == <<pc, todo, srs, vm, own, failures>>
main   == <<dry, masters, total, result, aborted>>
vars   == <<pool, thread, main, faults, arrived>>

TypeOK ==
    /\ dry \in BOOLEAN /\ masters \subseteq Entries
    /\ vms \subseteq Vms /\ running \subseteq vms /\ disks \subseteq Disks
    /\ pc \in [Entries -> {"entry", "skipped", "ready", "list", "vm", "shutdown", "disks", "disk", "destroy",
                           "verify", "handler", "sr", "vdi", "wait", "returned", "raised", "joined"}]
    /\ todo \in [Entries -> SUBSET (Vms \cup Disks)] /\ srs \in [Entries -> SUBSET Local]
    /\ vm \in [Entries -> Vms \cup {None}] /\ own \in [Entries -> SUBSET Disks]
    /\ failures \in [Entries -> Nat] /\ total \in Nat
    /\ result \in Nat \cup {None} /\ aborted \in BOOLEAN
    /\ faults \in 0..MaxFaults /\ arrived \subseteq Newcomers

Init ==
    /\ dry \in BOOLEAN /\ masters \in SUBSET Entries /\ vms = Vms \ Newcomers /\ running \in SUBSET (vms \ Snapshots)
    /\ disks = Disks \ UNION {DisksOf[v] : v \in Newcomers}
    /\ pc = [e \in Entries |-> "entry"] /\ todo = [e \in Entries |-> {}] /\ srs = [e \in Entries |-> {}]
    /\ vm = [e \in Entries |-> None] /\ own = [e \in Entries |-> {}] /\ failures = [e \in Entries |-> 0]
    /\ total = 0 /\ result = None /\ aborted = FALSE /\ faults = 0 /\ arrived = {}

At(e, label) == pc[e] = label /\ result = None /\ ~aborted
Goto(e, label) == pc' = [pc EXCEPT ![e] = label]
Fault == faults < MaxFaults /\ faults' = faults + 1

\* A call of xe: it is refused, or done, or it fails before or after it is
\* done.  What follows an exception is at `handler`.
Call(e, allowed, effect, next, handler) ==
    /\ \/ allowed /\ effect /\ Goto(e, next) /\ UNCHANGED faults
       \/ ~allowed /\ UNCHANGED <<pool, faults>> /\ Goto(e, handler)
       \/ allowed /\ effect /\ Goto(e, handler) /\ Fault
       \/ UNCHANGED pool /\ Goto(e, handler) /\ Fault
    /\ UNCHANGED <<main, arrived>>

-----------------------------------------------------------------------------
(* clean_pools.                                                            *)

Connect(e) ==
    /\ At(e, "entry") /\ UNCHANGED <<pool, todo, srs, vm, own, failures, dry, masters, total, result, arrived>>
    /\ \/ Goto(e, IF e \in masters THEN "ready" ELSE "skipped") /\ UNCHANGED <<faults, aborted>>
       \/ Fault /\ aborted' = TRUE /\ UNCHANGED pc

Submit == /\ ~aborted /\ result = None /\ \A e \in Entries : pc[e] \in {"ready", "skipped"}
          /\ \E e \in Entries : pc[e] = "ready"
          /\ pc' = [e \in Entries |-> IF pc[e] = "ready" THEN "list" ELSE pc[e]]
          /\ UNCHANGED <<pool, todo, srs, vm, own, failures, main, faults, arrived>>

\* A thread that has raised counts for one.
\* mutant: an exception of a thread is logged only
LoggedOnly(e) == IF pc[e] = "raised" THEN 0 ELSE failures[e]

Outcome(e) == IF pc[e] = "raised" THEN 1 ELSE failures[e]

\* future.result(), of one thread after the other, in whatever order.
Join(e) ==
    /\ pc[e] \in {"returned", "raised"} /\ ~aborted /\ result = None
    /\ total' = total + Outcome(e) /\ Goto(e, "joined")
    /\ UNCHANGED <<pool, todo, srs, vm, own, failures, dry, masters, result, aborted, faults, arrived>>

Return ==
    /\ ~aborted /\ result = None /\ \A e \in Entries : pc[e] \in {"joined", "skipped"}
    /\ result' = total
    /\ UNCHANGED <<pool, thread, dry, masters, total, aborted, faults, arrived>>

-----------------------------------------------------------------------------
(* clean_pool: the VMs.                                                    *)

ListVms(e) ==
    /\ At(e, "list") /\ Call(e, TRUE, UNCHANGED pool, "vm", "raised")
    /\ todo' = [todo EXCEPT ![e] = vms] /\ UNCHANGED <<srs, vm, own, failures>>

\* mutant: only VDIs are spared by a dry run
OpenAndDestroy(e) ==
    /\ At(e, "vm") /\ \E v \in todo[e] \cap Vms :
          /\ Call(e, v \in vms, UNCHANGED pool, "shutdown", "raised")
          /\ todo' = [todo EXCEPT ![e] = @ \ {v}] /\ vm' = [vm EXCEPT ![e] = v]
          /\ own' = [own EXCEPT ![e] = DisksOf[v] \cap disks]
          /\ UNCHANGED <<srs, failures>>

\* VM(uuid) and its name are read outside the try.
OpenVm(e) ==
    /\ At(e, "vm") /\ \E v \in todo[e] \cap Vms :
          /\ Call(e, v \in vms, UNCHANGED pool, IF dry THEN "vm" ELSE "shutdown", "raised")
          /\ todo' = [todo EXCEPT ![e] = @ \ {v}] /\ vm' = [vm EXCEPT ![e] = v]
          /\ own' = [own EXCEPT ![e] = DisksOf[v] \cap disks]
          /\ UNCHANGED <<srs, failures>>

\* mutant: destroy does not stop the VM
NoShutdown(e) == /\ At(e, "shutdown") /\ Call(e, vm[e] \in vms, UNCHANGED pool, "disks", "handler")
                 /\ UNCHANGED <<todo, srs, vm, own, failures>>

\* destroy: shutdown(force=True) unless it is halted.
Shutdown(e) ==
    /\ At(e, "shutdown")
    /\ Call(e, vm[e] \in vms, running' = running \ {vm[e]} /\ UNCHANGED <<vms, disks>>, "disks", "handler")
    /\ UNCHANGED <<todo, srs, vm, own, failures>>

\* vdi_uuids: destroy_vdi looks for them among the disks that VM() has found.
DiskList(e) ==
    /\ At(e, "disks") /\ Call(e, vm[e] \in vms, UNCHANGED pool, "disk", "handler")
    /\ own' = [own EXCEPT ![e] = @ \cap disks] /\ UNCHANGED <<todo, srs, vm, failures>>

InUse(d) == \E v \in running : d \in DisksOf[v]

DestroyDisk(e) ==
    /\ At(e, "disk") /\ UNCHANGED <<todo, srs, vm, failures>>
    /\ \/ \E d \in own[e] :
             /\ own' = [own EXCEPT ![e] = @ \ {d}]
             /\ Call(e, d \in disks /\ ~InUse(d), disks' = disks \ {d} /\ UNCHANGED <<vms, running>>,
                     "disk", "handler")
       \/ own[e] = {} /\ Goto(e, "destroy") /\ UNCHANGED <<pool, own, main, faults, arrived>>

VmDestroy(e) ==
    /\ At(e, "destroy") /\ UNCHANGED <<todo, srs, vm, own, failures>>
    /\ Call(e, vm[e] \in vms \ running, vms' = vms \ {vm[e]} /\ UNCHANGED <<running, disks>>, "verify", "handler")

\* wait_for_not(self.exists): the list of VMs answers at once.
Verify(e) ==
    /\ At(e, "verify") /\ vm[e] \notin vms /\ UNCHANGED <<todo, srs, vm, own, failures>>
    /\ Call(e, TRUE, UNCHANGED pool, "vm", "handler")

\* The handler counts the failure and writes the VM's name in the log: it
\* raises in its turn when the VM is gone.
Handler(e) ==
    /\ At(e, "handler") /\ UNCHANGED <<todo, srs, vm, own>>
    /\ Call(e, vm[e] \in vms, UNCHANGED pool, "vm", "raised")
    /\ failures' = IF pc'[e] = "vm" THEN [failures EXCEPT ![e] = @ + 1] ELSE failures

-----------------------------------------------------------------------------
(* clean_pool: the disks left on the local SRs.                            *)

\* mutant: shared SRs as well
AnySr == Srs

local_sr_uuids == Local

LocalSrs(e) ==
    /\ At(e, "vm") /\ todo[e] = {} /\ Call(e, TRUE, UNCHANGED pool, "sr", "raised")
    /\ srs' = [srs EXCEPT ![e] = local_sr_uuids] /\ UNCHANGED <<todo, vm, own, failures>>

ListVdis(e) ==
    /\ At(e, "sr") /\ \E s \in srs[e] :
          /\ Call(e, TRUE, UNCHANGED pool, "vdi", "raised")
          /\ srs' = [srs EXCEPT ![e] = @ \ {s}]
          /\ todo' = [todo EXCEPT ![e] = {d \in disks : SrOf[d] = s}]
    /\ UNCHANGED <<vm, own, failures>>

\* vdi.destroy(), whose failure is counted.
Vdi(e) ==
    /\ At(e, "vdi") /\ UNCHANGED <<srs, vm, own, main, arrived>>
    /\ \/ /\ todo[e] = {} /\ Goto(e, "sr") /\ UNCHANGED <<pool, todo, failures, faults>>
       \/ \E d \in todo[e] :
             /\ todo' = [todo EXCEPT ![e] = @ \ {d}] /\ UNCHANGED <<vms, running, pc>>
             /\ IF dry THEN UNCHANGED <<disks, failures, faults>>
                ELSE \/ /\ d \in disks /\ ~InUse(d) /\ disks' = disks \ {d}
                        /\ UNCHANGED <<failures, faults>>
                     \/ /\ d \notin disks \/ InUse(d)
                        /\ failures' = [failures EXCEPT ![e] = @ + 1] /\ UNCHANGED <<disks, faults>>
                     \/ /\ Fault /\ disks' \in {disks, IF InUse(d) THEN disks ELSE disks \ {d}}
                        /\ failures' = [failures EXCEPT ![e] = @ + 1]

\* mutant: the wait for an empty SR has no timeout
WaitForEver(e) ==
    /\ At(e, "wait") /\ UNCHANGED <<pool, todo, vm, own, failures, main, faults, arrived>>
    /\ \/ srs[e] = {} /\ Goto(e, "returned") /\ UNCHANGED srs
       \/ \E s \in srs[e] : (\A d \in disks : SrOf[d] # s)
                             /\ srs' = [srs EXCEPT ![e] = @ \ {s}] /\ UNCHANGED pc

\* wait_for_not: every local SR in turn has to be seen empty, or it times out.
Wait(e) ==
    /\ At(e, "sr") /\ srs[e] = {} /\ UNCHANGED <<todo, vm, own, failures>>
    /\ IF ~dry /\ failures[e] = 0
       THEN Goto(e, "wait") /\ srs' = [srs EXCEPT ![e] = local_sr_uuids]
       ELSE Goto(e, "returned") /\ UNCHANGED srs
    /\ UNCHANGED <<pool, main, faults, arrived>>

Empty(e) ==
    /\ At(e, "wait") /\ UNCHANGED <<pool, todo, vm, own, failures, main, arrived>>
    /\ \/ srs[e] = {} /\ Goto(e, "returned") /\ UNCHANGED <<srs, faults>>
       \/ \E s \in srs[e] :
             \/ /\ \A d \in disks : SrOf[d] # s
                /\ srs' = [srs EXCEPT ![e] = @ \ {s}] /\ UNCHANGED <<pc, faults>>
             \/ /\ Goto(e, "raised") /\ UNCHANGED srs
                /\ IF \E d \in disks : SrOf[d] = s THEN UNCHANGED faults ELSE Fault

Thread(e) == \/ ListVms(e) \/ OpenVm(e) \/ Shutdown(e) \/ DiskList(e) \/ DestroyDisk(e) \/ VmDestroy(e)
             \/ Verify(e) \/ Handler(e) \/ LocalSrs(e) \/ ListVdis(e) \/ Vdi(e) \/ Wait(e) \/ Empty(e)

-----------------------------------------------------------------------------

\* Someone creates a VM, which may be running.
Arrive(v) ==
    /\ v \notin arrived /\ arrived' = arrived \cup {v} /\ vms' = vms \cup {v}
    /\ disks' = disks \cup DisksOf[v] /\ running' \in {running, running \cup {v}}
    /\ UNCHANGED <<thread, main, faults>>

Clean == Submit \/ Return \/ (\E e \in Entries : Connect(e) \/ Thread(e) \/ Join(e))
Over  == result # None \/ aborted
Done  == Over /\ UNCHANGED vars
Next  == Clean \/ (\E v \in Newcomers : Arrive(v)) \/ Done

\* A thread never waits for anything but an answer or a timeout.
Spec == Init /\ [][Next]_vars /\ WF_vars(Clean)

-----------------------------------------------------------------------------
(* Properties.                                                             *)

Found == Vms \ Newcomers     \* the VMs and snapshots that were there

\* If nothing is reported, all that was there is gone, the disks on shared SRs
\* included: a failure is never lost on the way to the exit code, not even by
\* a handler that raises or by another thread on the same pool.
CleanMeansEmpty ==
    result = 0 /\ ~dry /\ masters # {} =>
        /\ vms \cap Found = {} /\ disks \cap UNION {DisksOf[v] : v \in Found} = {}
        /\ \A d \in disks : SrOf[d] \in Local => d \in UNION {DisksOf[v] : v \in arrived}

\* Nothing is destroyed on a shared SR but the disks of VMs: other pools may
\* use it too.
OthersDisksKept ==
    \A d \in Disks : SrOf[d] \notin Local /\ (\A v \in Vms : d \notin DisksOf[v]) => d \in disks

\* A dry run removes nothing and stops nothing, in whichever step it is.
DryRunIsDry == [][dry => vms \subseteq vms' /\ running \subseteq running' /\ disks \subseteq disks']_vars

\* Without a fault, with one entry for the pool and nobody else at work on it,
\* every VM and disk can be removed in the order chosen: running VMs, VMs with
\* snapshots and orphans alike.
CleanSucceeds ==
    /\ (result # None /\ result > 0) \/ aborted
    /\ \A v, w \in Vms : v # w => DisksOf[v] \cap DisksOf[w] = {}
    => faults > 0 \/ arrived # {} \/ \E e, f \in masters : e # f

\* The exit code tells the truth: no failure is hidden and none is made up.
OutcomeIsTrue == CleanMeansEmpty /\ CleanSucceeds

\* What the command is not for it leaves alone, and everything in a dry run.
RemovesNoMore == []OthersDisksKept /\ DryRunIsDry

\* The command ends, whatever fails.
CleanEnds == <>Over

\* The docstring of clean_pools: what is removed beside the VMs are orphan VDIs.
\* But the disks of a template on a local SR are removed too.
OnlyOrphans == [][\A d \in disks \ disks' : \A t \in Templates : d \notin DisksOf[t]]_vars
=============================================================================
