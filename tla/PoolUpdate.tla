----------------------------- MODULE PoolUpdate -----------------------------
(***************************************************************************)
(* The commands of the tools CLI that update the hosts of several pools    *)
(* (update_pools) or run a command on them (exec_pools), and reboot them.  *)
(*                                                                         *)
(* Both give one task per host to a ThreadPoolExecutor: the masters first, *)
(* then, when they are all done, the other hosts; or all at once with      *)
(* --parallel.  A task runs a command over SSH and follows the reboot of   *)
(* its host from outside: it pings the host until it is down, until it is  *)
(* up, waits for its SSH port, and for XAPI.  The hosts go through their   *)
(* reboots meanwhile, and a ping can be lost.                              *)
(*                                                                         *)
(* The CLI is run several times: what one run leaves the next one finds.   *)
(***************************************************************************)
EXTENDS Naturals, Sequences, FiniteSets, SequencesExt

CONSTANTS
    Host,
    MasterOf,   \* the master of the pool of each host
    PoolMasters, PoolOthers, PoolHosts,   \* lists: [p.master for p in pools], [h for p in pools
                \* for h in p.hosts[1:]], [h for p in pools for h in p.hosts]
    Nested,     \* hosts that are VMs of a hosting pool
    Workers,    \* threads of a ThreadPoolExecutor
    MaxRuns,    \* bound: runs of the CLI
    MaxFaults   \* bound: commands that fail, waits that time out, and pings that
                \* get no answer from a host that is up

IsListOf(s, S) == s \in Seq(S) /\ ToSet(s) = S /\ IsInjective(s)

ASSUME HostAssumption ==
    /\ MasterOf \in [Host -> Host] /\ \A h \in Host : MasterOf[MasterOf[h]] = MasterOf[h]
    /\ Nested \subseteq Host
ASSUME ListAssumption ==
    /\ IsListOf(PoolMasters, {h \in Host : MasterOf[h] = h})
    /\ IsListOf(PoolOthers, {h \in Host : MasterOf[h] # h})
    /\ IsListOf(PoolHosts, Host)
ASSUME BoundAssumption == /\ Workers \in Nat \ {0} /\ MaxRuns \in Nat /\ MaxFaults \in Nat

VARIABLES
    power,      \* of each host: up, going (to reboot), down, ssh (XAPI is not up yet)
    stale,      \* hosts whose repositories have newer packages
    pending,    \* hosts with packages installed since they booted

    tool, parallel, reboot,   \* the command line
    phase,      \* of the main thread
    queue,      \* tasks no thread has taken yet
    task,       \* how far the task of each host is
    seen,       \* futures as_completed has yielded
    error,      \* one of them raised, and the main thread with it
    todo,       \* snapshots to make
    outcome,    \* of the last run

    left,       \* hosts not up, or not rebooted since an update, when the run began
    unfit,      \* hosts snapshotted in such a state
    runs, faults, lost

machine == <<power, stale, pending>>
args    == <<tool, parallel, reboot>>
threads == <<queue, task, seen, error>>
main    == <<phase, todo, outcome, unfit>>
origin  == <<left, runs>>
vars    == <<machine, args, threads, main, origin, faults, lost>>

-----------------------------------------------------------------------------
IsMaster(h) == MasterOf[h] = h
Masters     == {h \in Host : IsMaster(h)}

\* A host whose reboot is scheduled is still up, for two seconds.
Reachable(h) == power[h] \in {"ssh", "up", "going"}
XapiUp(h)    == power[h] \in {"up", "going"}

Finished  == {h \in Host : task[h] \in {"done", "failed"}}
Submitted == {h \in Host : task[h] # "none"}
Active    == {h \in Submitted \ Finished : task[h] # "queued"}

TypeOK ==
    /\ power \in [Host -> {"up", "going", "down", "ssh"}]
    /\ stale \subseteq Host /\ pending \subseteq Host
    /\ tool \in {"update", "exec"} /\ parallel \in BOOLEAN /\ reboot \in BOOLEAN
    /\ phase \in {"idle", "begin", "masters", "others", "after", "snapshot"}
    /\ task \in [Host -> {"none", "queued", "work", "reboot", "down", "up", "xapi", "enabled",
                          "done", "failed"}]
    /\ queue \in Seq(Host) /\ IsInjective(queue)
    /\ ToSet(queue) = {h \in Host : task[h] = "queued"}
    /\ Cardinality(Active) <= Workers
    /\ seen \subseteq Finished /\ error \in BOOLEAN
    /\ todo \subseteq Nested
    /\ outcome \in {"none", "ok", "error"}
    /\ left \subseteq Host /\ unfit \subseteq Nested
    /\ runs \in Nat /\ faults \in Nat /\ lost \in Nat

Init ==
    /\ power = [h \in Host |-> "up"] /\ stale = Host /\ pending = {}
    /\ tool = "update" /\ parallel = FALSE /\ reboot = FALSE
    /\ phase = "idle" /\ todo = {} /\ outcome = "none" /\ unfit = {}
    /\ queue = <<>> /\ task = [h \in Host |-> "none"]
    /\ seen = {} /\ error = FALSE
    /\ left = {} /\ runs = 0 /\ faults = 0 /\ lost = 0

-----------------------------------------------------------------------------
\* The main thread

Start(t, p, r) ==
    /\ phase = "idle" /\ runs < MaxRuns
    /\ runs' = runs + 1
    /\ tool' = t /\ parallel' = p /\ reboot' = r
    /\ phase' = "begin" /\ outcome' = "none" /\ unfit' = {}
    /\ task' = [h \in Host |-> "none"] /\ seen' = {} /\ error' = FALSE
    /\ left' = pending \union {h \in Host : power[h] # "up"}
    /\ UNCHANGED <<power, stale, pending, queue, todo, faults, lost>>

End(o) == phase' = "idle" /\ outcome' = o

\* executor.submit, for each host in turn
Submit(hs) == /\ queue' = hs
              /\ task' = [h \in Host |-> IF h \in ToSet(hs) THEN "queued" ELSE task[h]]

\* mutant: the other hosts of a pool include its master
SubmitAll == Submit(PoolMasters \o (IF parallel THEN PoolHosts ELSE <<>>))

\* update_pools submits the masters, then the others; exec_pools all in order.
SubmitFirst == Submit(IF ~parallel THEN PoolMasters
                      ELSE IF tool = "exec" THEN PoolHosts
                      ELSE PoolMasters \o PoolOthers)

\* Pool() waits for the XAPI of the master and connects to every host.
Begin ==
    /\ phase = "begin"
    /\ \A m \in Masters : power[m] # "ssh"
    /\ IF \A h \in Host : Reachable(h) /\ XapiUp(MasterOf[h])
       THEN /\ phase' = "masters"
            /\ SubmitFirst
            /\ UNCHANGED outcome
       ELSE End("error") /\ UNCHANGED <<queue, task>>
    /\ UNCHANGED <<machine, args, seen, error, todo, unfit, origin, faults, lost>>

\* as_completed yields a future; result() raises what its task raised, which
\* ends the loop of update_pools and is counted by exec_pools.
Consume(h) ==
    /\ phase \in {"masters", "others"} /\ ~error
    /\ h \in Finished \ seen
    /\ seen' = seen \union {h}
    /\ error' = (tool = "update" /\ task[h] = "failed")
    /\ UNCHANGED <<machine, args, queue, task, main, origin, faults, lost>>

\* mutant: the executor is left without waiting for its threads
LeaveAtOnce == error \/ seen = Submitted

\* mutant: every future must have been consumed, after an error too
LeaveConsumed == Finished = Submitted /\ seen = Submitted

\* The executor is left when its threads have done every task it was given,
\* those still in the queue when the main thread raised included.
LeaveExecutor == Finished = Submitted /\ (error \/ seen = Submitted)

NextPool ==
    /\ phase \in {"masters", "others"}
    /\ LeaveExecutor
    /\ \/ /\ error
          /\ End("error") /\ UNCHANGED <<queue, task, todo>>
       \/ /\ ~error /\ phase = "masters" /\ ~parallel
          /\ phase' = "others" /\ Submit(PoolOthers)
          /\ UNCHANGED <<outcome, todo>>
       \/ /\ ~error /\ (phase = "others" \/ parallel) /\ tool = "exec"
          /\ End("ok") /\ UNCHANGED <<queue, task, todo>>
       \/ /\ ~error /\ (phase = "others" \/ parallel) /\ tool = "update"
          /\ phase' = "after" /\ UNCHANGED <<queue, task, outcome, todo>>
    /\ UNCHANGED <<machine, args, seen, error, unfit, origin, faults, lost>>

\* The packages of every host are listed again: they must all answer.
After ==
    /\ phase = "after"
    /\ IF \A h \in Host : Reachable(h)
       THEN phase' = "snapshot" /\ todo' = Nested /\ UNCHANGED outcome
       ELSE End("error") /\ UNCHANGED todo
    /\ UNCHANGED <<machine, args, threads, unfit, origin, faults, lost>>

\* create_snapshots: nobody looks at the futures, a failure goes unnoticed.
Snapshot(h) ==
    /\ phase = "snapshot" /\ h \in todo
    /\ todo' = todo \ {h}
    /\ \/ /\ unfit' = IF power[h] # "up" \/ h \in pending THEN unfit \union {h} ELSE unfit
          /\ UNCHANGED faults
       \/ /\ faults + lost < MaxFaults /\ faults' = faults + 1
          /\ UNCHANGED unfit
    /\ UNCHANGED <<machine, args, threads, phase, outcome, origin, lost>>

Updated ==
    /\ phase = "snapshot" /\ todo = {}
    /\ End("ok")
    /\ UNCHANGED <<machine, args, threads, todo, unfit, origin, faults, lost>>

-----------------------------------------------------------------------------
\* The threads: Host.update, _exec_on_host, Host.reboot

To(h, t) == task' = [task EXCEPT ![h] = t]

Take ==
    /\ queue # <<>> /\ Cardinality(Active) < Workers
    /\ queue' = Tail(queue)
    /\ To(Head(queue), "work")
    /\ UNCHANGED <<machine, args, seen, error, main, origin, faults, lost>>

\* A host is rebooted only when yum had something to do.
Update(h) ==
    /\ tool = "update" /\ task[h] = "work" /\ Reachable(h)
    /\ stale' = stale \ {h}
    /\ pending' = IF h \in stale THEN pending \union {h} ELSE pending
    /\ To(h, IF reboot /\ h \in stale THEN "reboot" ELSE "done")
    /\ UNCHANGED <<power, args, queue, seen, error, main, origin, faults, lost>>

\* It is rebooted whatever the exit code of the command.
Exec(h) ==
    /\ tool = "exec" /\ task[h] = "work" /\ Reachable(h)
    /\ To(h, IF reboot THEN "reboot" ELSE "done")
    /\ UNCHANGED <<machine, args, queue, seen, error, main, origin, faults, lost>>

\* mutant: the host is not waited for to go down
ScheduleReboot(h) ==
    /\ task[h] = "reboot" /\ Reachable(h)
    /\ power' = [power EXCEPT ![h] = "going"]
    /\ To(h, "up")
    /\ UNCHANGED <<stale, pending, args, queue, seen, error, main, origin, faults, lost>>

\* systemd-run --on-active=2s reboot
Reboot(h) ==
    /\ task[h] = "reboot" /\ Reachable(h)
    /\ power' = [power EXCEPT ![h] = "going"]
    /\ To(h, "down")
    /\ UNCHANGED <<stale, pending, args, queue, seen, error, main, origin, faults, lost>>

\* wait_for_host_down: a ping without an answer
AwaitDown(h) ==
    /\ task[h] = "down"
    /\ \/ power[h] = "down" /\ UNCHANGED lost
       \/ faults + lost < MaxFaults /\ lost' = lost + 1
    /\ To(h, "up")
    /\ UNCHANGED <<machine, args, queue, seen, error, main, origin, faults>>

\* wait_for_host_up, wait_for_ssh_reachable
AwaitUp(h) ==
    /\ task[h] = "up" /\ Reachable(h)
    /\ To(h, "xapi")
    /\ UNCHANGED <<machine, args, queue, seen, error, main, origin, faults, lost>>

\* mutant: XAPI is taken to be up with SSH
NoXapiWait(h) ==
    /\ task[h] = "xapi" /\ Reachable(h)
    /\ To(h, "enabled")
    /\ UNCHANGED <<machine, args, queue, seen, error, main, origin, faults, lost>>

\* wait_for_xapi_enabled: xapi-wait-init-complete on the host, then is_enabled,
\* for which the XAPI of a host that is not the master asks that of the master.
AwaitXapi(h) ==
    /\ task[h] = "xapi" /\ XapiUp(h)
    /\ To(h, "enabled")
    /\ UNCHANGED <<machine, args, queue, seen, error, main, origin, faults, lost>>

IsEnabled(h) ==
    /\ task[h] = "enabled"
    /\ To(h, IF XapiUp(h) /\ XapiUp(MasterOf[h]) THEN "done" ELSE "failed")
    /\ UNCHANGED <<machine, args, queue, seen, error, main, origin, faults, lost>>

\* An SSH command on a host that does not answer raises.
Unreachable(h) ==
    /\ task[h] \in {"work", "reboot", "xapi"} /\ ~Reachable(h)
    /\ To(h, "failed")
    /\ UNCHANGED <<machine, args, queue, seen, error, main, origin, faults, lost>>

\* A command fails, of yum before or after it installed anything, or a wait
\* times out.
Fail(h) ==
    /\ h \in Active
    /\ faults + lost < MaxFaults /\ faults' = faults + 1
    /\ To(h, "failed")
    /\ \/ UNCHANGED machine
       \/ /\ task[h] = "work" /\ tool = "update" /\ h \in stale
          /\ stale' = stale \ {h} /\ pending' = pending \union {h} /\ UNCHANGED power
       \/ /\ task[h] = "reboot" /\ Reachable(h)
          /\ power' = [power EXCEPT ![h] = "going"] /\ UNCHANGED <<stale, pending>>
    /\ UNCHANGED <<args, queue, seen, error, main, origin, lost>>

-----------------------------------------------------------------------------
\* The hosts.  A reboot takes longer than the two seconds between two pings of
\* wait_for_host_down.  The XAPI of a host initializes with that of its master.

GoDown(h)    == power[h] = "going" /\ power' = [power EXCEPT ![h] = "down"] /\ UNCHANGED pending
Boot(h)      == /\ power[h] = "down" /\ task[h] # "down"
                /\ power' = [power EXCEPT ![h] = "ssh"] /\ pending' = pending \ {h}
XapiStarts(h) == /\ power[h] = "ssh" /\ (IsMaster(h) \/ XapiUp(MasterOf[h]))
                 /\ power' = [power EXCEPT ![h] = "up"] /\ UNCHANGED pending

Machine(h) == /\ GoDown(h) \/ Boot(h) \/ XapiStarts(h)
              /\ UNCHANGED <<stale, args, threads, main, origin, faults, lost>>

-----------------------------------------------------------------------------
Main == Begin \/ NextPool \/ After \/ Updated \/ \E h \in Host : Consume(h) \/ Snapshot(h)

Thread(h) == \/ Update(h) \/ Exec(h)
             \/ Reboot(h) \/ AwaitDown(h) \/ AwaitUp(h) \/ AwaitXapi(h) \/ IsEnabled(h)
             \/ Unreachable(h)

Next == \/ \E t \in {"update", "exec"}, p, r \in BOOLEAN : Start(t, p, r)
        \/ Main \/ Take
        \/ \E h \in Host : Thread(h) \/ Fail(h) \/ Machine(h)

Spec == Init /\ [][Next]_vars

\* The main thread and the threads of the pool run; a host that is told to
\* reboot does, and comes back.
FairSpec == /\ Spec /\ WF_vars(Main) /\ WF_vars(Take)
            /\ \A h \in Host : WF_vars(Thread(h)) /\ WF_vars(Machine(h))

-----------------------------------------------------------------------------
\* Properties

\* update_pools, "Update each pool's master host declared in inventory first,
\* then, update other hosts for each pool": no other host is touched before
\* the masters of ALL pools are updated, and they have come back by then, if no
\* ping was lost and they were up when the run began.
MastersFirst ==
    phase = "others" /\ tool = "update" =>
        \A m \in Masters : task[m] = "done" /\ (lost = 0 => power[m] = "up" \/ m \in left)

\* A run that is not parallel fails only if a command or a wait did, or a ping
\* was lost: the hosts of a pool do not make each other fail by rebooting.
\* With --parallel they may: a host asks its master whether it is enabled.
NoSpuriousFailure ==
    faults = 0 /\ lost = 0 /\ ~parallel => outcome # "error" /\ \A h \in Host : task[h] # "failed"

\* When an update with reboots succeeds every host runs what it installed, but
\* for hosts that an earlier run left without a reboot and that had nothing
\* more to update.
RebootedWhenUpdated ==
    phase = "idle" /\ tool = "update" /\ reboot /\ outcome = "ok" /\ lost = 0 =>
        pending \subseteq left

\* Nor is a nested host snapshotted while it reboots, or before it does.
SnapshotsFit == reboot /\ lost = 0 => unfit \subseteq left

\* Success means that every host has been dealt with, and updated if that was
\* the task: no future is missed, whatever the order in which they complete.
OkMeansAll ==
    phase = "idle" /\ outcome = "ok" =>
        Finished = Host /\ (tool = "update" => \A h \in Host : task[h] = "done")

\* The outcome of a run tells the truth about the hosts: "error" comes from
\* something that failed, "ok" from every host updated, and rebooted into what
\* it installed before anything else is done to it.
OutcomeIsTrue == NoSpuriousFailure /\ OkMeansAll /\ RebootedWhenUpdated /\ SnapshotsFit

\* A run ends, whatever fails and whatever reboots.
RunEnds == phase # "idle" ~> phase = "idle"

\* "Due to previous error, the pool updating task will stop.  Waiting for
\* running updates to finish if any": no other update starts after that.
NothingStartsAfterError ==
    [][error => \A h \in Host : task[h] = "queued" => task'[h] # "work"]_vars

=============================================================================
