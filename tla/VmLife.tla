------------------------------- MODULE VmLife -------------------------------
(***************************************************************************)
(* A test's VM object (lib/vm.py, lib/snapshot.py, lib/basevm.py) against  *)
(* the VM that XAPI has and the guest that boots in it.                    *)
(*                                                                         *)
(* The object keeps what it cannot afford to ask again: the host it talks  *)
(* to, its VDI list, the guest's address.  Each of its methods is a        *)
(* sequence of xe commands; `todo` holds those of the method under way, so *)
(* that one step is one command and the guest moves between any two.  A    *)
(* method raises when a command is refused, when an assertion fails or     *)
(* when a wait ends; `handler` is what its except or finally then runs.    *)
(***************************************************************************)
EXTENDS Naturals, Sequences, FiniteSets, Functions

CONSTANTS
    Host, SR,
    PoolOf,       \* the pool of each host
    SeenFrom,     \* the hosts each SR is attached to
    DefaultSR,    \* the default SR of each pool
    Addr,         \* the addresses DHCP may give to the guest
    None,
    MaxDisk,      \* bound: disks that exist at a time
    MaxTrouble,   \* bound: commands that fail, waits that end too early, and times
                  \* the guest stops or reboots by itself
    SrAndNetwork  \* migrate is also called with both an SR and a network, as no
                  \* test of the repository does

ASSUME VmLifeAssumption ==
    /\ PoolOf \in [Host -> Nat] /\ SeenFrom \in [SR -> SUBSET Host]
    /\ \A s \in SR : \A g, h \in SeenFrom[s] : PoolOf[g] = PoolOf[h]   \* an SR is of one pool
    /\ {DefaultSR[PoolOf[h]] : h \in Host} \subseteq SR
    /\ None \notin Host \cup SR \cup Addr
    /\ MaxDisk \in Nat \ {0} /\ MaxTrouble \in Nat /\ SrAndNetwork \in BOOLEAN

Disk      == 1..MaxDisk
LinkLocal == "169.254"
NoHandler == [steps |-> <<>>, swallow |-> FALSE]
NoSnap    == [disks |-> {}, deferred |-> FALSE, file |-> FALSE, power |-> "none", boot |-> 0,
              addr |-> None]
NoArgs    == [target |-> None, sr |-> None, net |-> FALSE, live |-> FALSE,
              disk |-> 0, left |-> {}, want |-> None]

VARIABLES
    power, at,    \* XAPI: power state, and the host (for its pool) that has the VM
    sr,           \* XAPI: the SR of each disk, None if there is no such disk
    vbd,          \* XAPI: the disks attached to the VM
    unplugged,    \* XAPI: those whose VBD is not plugged though the VM is on
    snap,         \* XAPI: the snapshot, and whether the test defers its removal
    boot, addr,   \* the guest: 1 link-local address, 2 address, 3 agent, 4 SSH
    file,         \* the guest has the test's file
    host, vdis, ip,       \* VM.host, VM.vdis, VM.ip
    todo, args, handler,  \* the method under way
    phase, raised,    \* test, teardown or end; a method has raised
    struck, moves     \* the steps a fault struck, moves of the guest so far

xapi    == <<power, at, sr, vbd, unplugged, snap>>
guest   == <<boot, addr, file>>
object  == <<host, vdis, ip>>
call    == <<todo, args, handler>>
history == <<phase, raised, struck, moves>>
vars    == <<xapi, guest, object, call, history>>

Disks      == {d \in Disk : sr[d] # None}
Unused     == Disk \ (Disks \cup vdis)
Reachable  == power # "gone" /\ PoolOf[host] = PoolOf[at]
SeenBy(h)  == \A d \in vbd : h \in SeenFrom[sr[d]]
Doing(s)   == todo # <<>> /\ Head(todo) = s
Rank(S, d) == Cardinality({e \in S : e < d})

\* New disks get uuids that nothing knows: the n first of those unused.
Fresh(n)         == {d \in Unused : Rank(Unused, d) < n}
Room(n)          == Cardinality(Unused) >= n
CopyOf(old, new) == [d \in Disk |-> IF d \in new
                        THEN sr[CHOOSE e \in old : Rank(old, e) = Rank(new, d)] ELSE sr[d]]

WaitSsh    == <<"running", "ip?", "agent?", "ssh?">>
DropSnap   == <<"snapshot-uninstall", "snapshot-gone?">>
Destroy    == <<"halted-now?", "vm-disk-list", "vm-destroy", "gone?">>

Init ==
    /\ power = "halted" /\ at \in {h \in Host : PoolOf[h] = 1} /\ host = at
    /\ \E s \in SR : at \in SeenFrom[s] /\ sr = [d \in Disk |-> IF d = 1 THEN s ELSE None]
    /\ vbd = {1} /\ unplugged = {} /\ snap = NoSnap
    /\ boot = 0 /\ addr = None /\ file = FALSE
    /\ vdis = {1} /\ ip = None
    /\ todo = <<>> /\ args = NoArgs /\ handler = NoHandler
    /\ phase = "test" /\ raised = FALSE
    /\ struck = {} /\ moves = 0

-----------------------------------------------------------------------------
(* How a method goes on: to its next step, or into its handler.            *)

Continue(steps) == /\ todo' = steps /\ UNCHANGED raised
                   /\ handler' = IF steps = <<>> THEN NoHandler ELSE handler
Proceed         == Continue(Tail(todo))
Raise           == /\ todo' = handler.steps /\ handler' = NoHandler
                   /\ raised' = (raised \/ ~handler.swallow)
SameArgs        == args' = IF todo' = <<>> THEN NoArgs ELSE args
Quiet     == Cardinality(struck) + moves < MaxTrouble
Strike(s) == Quiet /\ struck' = struck \cup {s}

\* A step of the test that runs nothing on the pool.
Local(s, effect) ==
    Doing(s) /\ effect /\ UNCHANGED <<xapi, guest, phase, struck, moves>>

\* A command run by xe on VM.host.  It may be refused, and it may fail before
\* it did anything; all the test sees is an exception.
Xe(s, allowed, effect, rest) ==
    /\ Doing(s)
    /\ \/ Reachable /\ allowed /\ rest /\ effect /\ UNCHANGED <<phase, struck, moves>>
       \/ /\ Raise /\ SameArgs /\ UNCHANGED <<xapi, guest, object, phase, moves>>
          /\ IF Reachable /\ allowed THEN Strike(s) ELSE UNCHANGED struck

\* A command that changes something may also lose its answer once it is done.
Command(s, allowed, effect) ==
    \/ Xe(s, allowed, effect /\ SameArgs /\ UNCHANGED object, Proceed)
    \/ /\ Doing(s) /\ Reachable /\ allowed /\ effect /\ Raise /\ SameArgs /\ Strike(s)
       /\ UNCHANGED <<object, phase, moves>>

Read(s, rest) == Xe(s, TRUE, SameArgs /\ UNCHANGED <<xapi, guest, object>>, rest)

\* common.wait_for returns once it sees the condition and raises TimeoutError
\* when it did not in time, which a guest that is merely slow can cause.
Wait(s, condition, effect) ==
    /\ Doing(s)
    /\ \/ condition /\ effect /\ Proceed /\ UNCHANGED struck
       \/ /\ ~condition /\ Raise /\ UNCHANGED object
          /\ IF moves > 0 \/ ~Reachable THEN UNCHANGED struck ELSE Strike(s)
    /\ SameArgs /\ UNCHANGED <<xapi, guest, phase, moves>>

-----------------------------------------------------------------------------
(* The guest and the power state.                                          *)

Boots ==
    /\ power = "running" /\ boot < 4 /\ boot' = boot + 1
    /\ CASE boot = 0 -> addr' = LinkLocal
         [] boot = 1 -> addr' \in Addr
         [] OTHER    -> UNCHANGED addr
    /\ UNCHANGED <<xapi, file, object, call, history>>

\* The guest stops or reboots without being asked.
GuestMoves ==
    /\ power = "running" /\ phase # "end" /\ Quiet /\ moves' = moves + 1
    /\ power' \in {"running", "halted"} /\ boot' = 0 /\ addr' = None /\ unplugged' = {}
    /\ UNCHANGED <<at, sr, vbd, snap, file, object, call, phase, raised, struck>>

Power(s, allowed, to, stage) ==
    Command(s, allowed, /\ power' = to /\ boot' = stage
                        /\ addr' = (IF stage = 0 THEN None ELSE addr)
                        /\ unplugged' = (IF to = "halted" THEN {} ELSE unplugged)
                        /\ UNCHANGED <<at, sr, vbd, snap, file>>)

Start == Command("vm-start", power = "halted" /\ \E h \in Host : SeenBy(h),
    /\ power' = "running" /\ boot' = 0 /\ addr' = None
    /\ at' \in {h \in Host : /\ PoolOf[h] = PoolOf[at] /\ SeenBy(h)
                             /\ args.target \in {None, h}}
    /\ UNCHANGED <<sr, vbd, unplugged, snap, file>>)

Shutdown      == Power("vm-shutdown", power = "running" /\ boot >= 3, "halted", 0)
ForceShutdown == Power("vm-shutdown-force", power # "halted", "halted", 0)
Reboot        == Power("vm-reboot", power = "running" /\ boot >= 3, "running", 0)
Suspend       == Power("vm-suspend", power = "running" /\ boot >= 3, "suspended", boot)
Resume        == Power("vm-resume", power = "suspended", "running", boot)
Pause         == Power("vm-pause", power = "running", "paused", boot)
Unpause       == Power("vm-unpause", power = "paused", "running", boot)

WaitFor(state) == Wait(state, Reachable /\ power = state, UNCHANGED object)

\* mutant: the filter on link-local addresses is missing
AnyIp ==
    Wait("ip?", Reachable /\ addr # None, ip' = addr /\ UNCHANGED <<host, vdis>>)

\* mutant: an address that is already known is not asked again
IpOnce ==
    Wait("ip?", Reachable /\ (ip # None \/ addr \notin {None, LinkLocal}),
         ip' = (IF ip = None THEN addr ELSE ip) /\ UNCHANGED <<host, vdis>>)

try_get_and_store_ip ==
    Wait("ip?", Reachable /\ addr \notin {None, LinkLocal},
         ip' = addr /\ UNCHANGED <<host, vdis>>)

is_management_agent_up == Wait("agent?", Reachable /\ boot >= 3, UNCHANGED object)

Answers   == power = "running" /\ boot = 4 /\ ip = addr
is_ssh_up == Wait("ssh?", Answers, UNCHANGED object)

-----------------------------------------------------------------------------
(* Disks: connect_vdi, disconnect_vdi, destroy_vdi, create_vdis_list.      *)

VbdCreate == Command("vbd-create", args.disk \notin vbd,
    /\ vbd' = vbd \cup {args.disk}
    /\ unplugged' = (IF power = "halted" THEN {} ELSE unplugged \cup {args.disk})
    /\ UNCHANGED <<power, at, sr, snap, guest>>)

\* is_running decides whether the VBD has to be plugged; if that fails the
\* VBD is destroyed again and the exception goes on.
PlugNext == Read("plug?",
    IF power = "running"
       THEN /\ todo' = <<"vbd-plug">> \o Tail(todo) /\ UNCHANGED raised
            /\ handler' = [steps |-> <<"vbd-destroy">>, swallow |-> FALSE]
       ELSE Proceed)

VbdPlug == Command("vbd-plug", power = "running",
    unplugged' = unplugged \ {args.disk} /\ UNCHANGED <<power, at, sr, vbd, snap, guest>>)

\* mutant: the disk is connected and not remembered
NotAdded == Local("append", Proceed /\ SameArgs /\ UNCHANGED object)

AddToList == Local("append", /\ vdis' = vdis \cup {args.disk} /\ Proceed
                             /\ SameArgs /\ UNCHANGED <<host, ip>>)

InList == Local("in-vdis?", /\ IF args.disk \in vdis THEN Proceed ELSE Raise
                            /\ SameArgs /\ UNCHANGED object)

UnplugNext == Read("unplug?",
    Continue((IF power = "running" THEN <<"vbd-unplug">> ELSE <<>>) \o Tail(todo)))

\* "The device is not currently attached" is not an error.
VbdUnplug == Command("vbd-unplug", TRUE,
    /\ unplugged' = (IF power = "halted" THEN {} ELSE unplugged \cup {args.disk})
    /\ UNCHANGED <<power, at, sr, vbd, snap, guest>>)

VbdDestroy == Command("vbd-destroy",
    args.disk \in vbd /\ (power = "halted" \/ args.disk \in unplugged),
    vbd' = vbd \ {args.disk} /\ unplugged' = unplugged \ {args.disk}
    /\ UNCHANGED <<power, at, sr, snap, guest>>)

\* The disk is back in the hands of the fixture that made it, and out of sight.
Remove == /\ Doing("remove") /\ Proceed
          /\ vdis' = vdis \ {args.disk}
          /\ sr' = [sr EXCEPT ![args.disk] = None]
          /\ SameArgs /\ UNCHANGED <<power, at, vbd, unplugged, snap, guest, host, ip>>
          /\ UNCHANGED <<phase, struck, moves>>

\* mutant: the list is kept as it is when the disks change
OldList == Xe("create_vdis_list", TRUE, SameArgs /\ UNCHANGED <<xapi, guest, object>>, Proceed)

create_vdis_list == Xe("create_vdis_list", TRUE,
    vdis' = vbd /\ SameArgs /\ UNCHANGED <<xapi, guest, host, ip>>, Proceed)

\* destroy_vdi: the disk leaves the list before vdi-destroy is tried, and a
\* disk that is not in the list is not destroyed at all.
destroy_vdi ==
    LET d == CHOOSE x \in args.left : \A y \in args.left : x <= y
        allowed   == power = "halted" \/ d \in unplugged
        Destroyed == /\ sr' = [sr EXCEPT ![d] = None]
                     /\ vbd' = vbd \ {d} /\ unplugged' = unplugged \ {d}
        Kept      == UNCHANGED <<sr, vbd, unplugged>>
    IN  /\ Doing("vdi-destroy")
        /\ args' = [args EXCEPT !.left = @ \ {d}]
        /\ vdis' = vdis \ {d}
        /\ \/ d \notin vdis /\ Kept /\ Proceed /\ UNCHANGED struck
           \/ d \in vdis /\ allowed /\ Destroyed /\ Proceed /\ UNCHANGED struck
           \/ d \in vdis /\ allowed /\ (Destroyed \/ Kept) /\ Raise /\ Strike("vdi-destroy")
           \/ d \in vdis /\ ~allowed /\ Kept /\ Raise /\ UNCHANGED struck
        /\ UNCHANGED <<power, at, snap, guest, host, ip, phase, moves>>

-----------------------------------------------------------------------------
(* Snapshots, and the fragment test_snapshot_on_running_vm.                *)

InFragment == "finally" \in Range(todo)

Taken(returned) ==
    LET new == Fresh(Cardinality(vbd))
    IN  /\ snap' = [disks |-> new, deferred |-> returned /\ ~InFragment, file |-> file,
                    power |-> IF Head(todo) = "vm-snapshot" THEN "halted" ELSE "suspended",
                    boot  |-> IF Head(todo) = "vm-snapshot" THEN 0 ELSE boot,
                    addr  |-> IF Head(todo) = "vm-snapshot" THEN None ELSE addr]
        /\ sr' = CopyOf(vbd, new)
        /\ SameArgs /\ UNCHANGED <<power, at, vbd, unplugged, guest, object>>

\* Within the fragment the snapshot, once returned, is destroyed by a finally.
\* mutant: test_snapshot_on_running_vm has no finally
TakeOnly(s) == Xe(s, TRUE, Taken(TRUE), Proceed)

TakeSnapshot(s) ==
    \/ Xe(s, TRUE, Taken(TRUE),
          /\ todo' = Tail(todo) /\ UNCHANGED raised
          /\ handler' = IF InFragment THEN [steps |-> DropSnap, swallow |-> FALSE] ELSE NoHandler)
    \/ /\ Doing(s) /\ Reachable /\ Raise /\ Taken(FALSE) /\ Strike(s)
       /\ UNCHANGED <<phase, moves>>

Finally == Local("finally", /\ todo' = Tail(todo) /\ handler' = NoHandler
                            /\ UNCHANGED <<object, args, raised>>)

\* The VM's disks are replaced by copies of the snapshot's.
Revert == Command("snapshot-revert", TRUE,
    LET new == Fresh(Cardinality(snap.disks))
    IN  /\ power' = snap.power /\ boot' = snap.boot /\ addr' = snap.addr /\ file' = snap.file
        /\ vbd' = new /\ unplugged' = {}
        /\ sr' = [d \in Disk |-> IF d \in vbd THEN None ELSE CopyOf(snap.disks, new)[d]]
        /\ UNCHANGED <<at, snap>>)

SnapUninstall == Command("snapshot-uninstall", snap # NoSnap,
    /\ sr' = [d \in Disk |-> IF d \in snap.disks THEN None ELSE sr[d]] /\ snap' = NoSnap
    /\ UNCHANGED <<power, at, vbd, unplugged, guest>>)

SnapGone == Read("snapshot-gone?", IF snap = NoSnap THEN Proceed ELSE Raise)

\* ssh_touch_file, and the check that the file is gone once reverted
Touch    == Xe("touch", Answers, /\ file' = TRUE
                                 /\ SameArgs /\ UNCHANGED <<xapi, boot, addr, object>>, Proceed)
FileGone == Xe("no-file?", Answers /\ ~file, SameArgs /\ UNCHANGED <<xapi, guest, object>>, Proceed)

-----------------------------------------------------------------------------
(* migrate *)

LiveNext == Xe("live?", TRUE, /\ args' = [args EXCEPT !.live = (power = "running")]
                              /\ UNCHANGED <<xapi, guest, object>>, Proceed)

\* get_sr takes the SR of the first disk for the VM's.
same_sr(s, first) == IF sr[first] = s THEN None ELSE s

SameSrNext == \E first \in vbd :
    Xe("same-sr?", host \in SeenFrom[sr[first]],
       /\ args' = [args EXCEPT !.sr = same_sr(@, first)]
       /\ UNCHANGED <<xapi, guest, object>>, Proceed)

storage_motion(t, s, n) == PoolOf[host] # PoolOf[t] \/ s # None \/ n

\* mutant: the default SR of the target is used in any case
DefaultOnly(t, s) == DefaultSR[PoolOf[t]]

Destination(t, s) == IF s # None THEN s ELSE DefaultSR[PoolOf[t]]

\* What XAPI accepts: without storage motion the VM has to run and its disks
\* have to be visible from the target.
Movable(t, s, n, live) ==
    /\ power \in {"running", "halted"} /\ live = (power = "running")
    /\ IF storage_motion(t, s, n) THEN t \in SeenFrom[Destination(t, s)]
                                  ELSE power = "running" /\ SeenBy(t)

Migrate ==
    LET t == args.target
        s == args.sr
        new == Fresh(Cardinality(vbd))
    IN  Command("vm-migrate", Movable(t, s, args.net, args.live),
           /\ at' = t /\ UNCHANGED <<power, snap, guest>>
           /\ IF storage_motion(t, s, args.net)
                 THEN /\ vbd' = new /\ unplugged' = {}
                      /\ sr' = [d \in Disk |-> CASE d \in vbd -> None
                                                 [] d \in new -> Destination(t, s)
                                                 [] OTHER -> sr[d]]
                 ELSE UNCHANGED <<vbd, sr, unplugged>>)

Moved == Local("moved", host' = args.target /\ Proceed /\ SameArgs /\ UNCHANGED <<vdis, ip>>)

-----------------------------------------------------------------------------
(* destroy *)

\* mutant: the VM is shut down without looking whether it is halted
ForceAlways == Read("halted-now?", Continue(<<"vm-shutdown-force">> \o Tail(todo)))

DestroyBegins == Read("halted-now?",
    Continue((IF power = "halted" THEN <<>> ELSE <<"vm-shutdown-force">>) \o Tail(todo)))

ListDisks == Xe("vm-disk-list", TRUE,
    args' = [args EXCEPT !.left = vbd] /\ UNCHANGED <<xapi, guest, object>>,
    Continue([i \in 1..Cardinality(vbd) |-> "vdi-destroy"] \o Tail(todo)))

VmDestroy == Command("vm-destroy", power = "halted",
    power' = "gone" /\ vbd' = {} /\ UNCHANGED <<at, sr, unplugged, snap, guest>>)

Gone == Wait("gone?", power = "gone", UNCHANGED object)

-----------------------------------------------------------------------------
(* The tests: any method whose precondition holds, then the fixtures.      *)

Call(steps, a, h) ==
    /\ todo = <<>> /\ todo' = steps /\ args' = a /\ handler' = h
    /\ UNCHANGED <<guest, object, raised, struck, moves>>

Method(steps, a, h) ==
    phase = "test" /\ ~raised /\ Call(steps, a, h) /\ UNCHANGED <<xapi, phase>>

Ready == power = "running" /\ boot >= 3 /\ host \in Host
OneSr == \A d, e \in vbd : sr[d] = sr[e]

Starts    == /\ power = "halted"
             /\ \E t \in {h \in Host : PoolOf[h] = PoolOf[at] /\ SeenBy(h)} \cup {None} :
                    Method(<<"vm-start">> \o WaitSsh, [NoArgs EXCEPT !.target = t], NoHandler)
Stops     == Ready /\ \/ Method(<<"vm-shutdown", "halted">>, NoArgs, NoHandler)
                      \/ Method(<<"vm-shutdown-force", "halted">>, NoArgs, NoHandler)
                      \/ Method(<<"vm-reboot">> \o WaitSsh, NoArgs, NoHandler)
                      \/ Method(<<"vm-suspend", "suspended", "vm-resume">> \o WaitSsh, NoArgs, NoHandler)
                      \/ Method(<<"vm-pause", "paused", "vm-unpause">> \o WaitSsh, NoArgs, NoHandler)

\* shutdown(verify=True, force_if_fails=True), as the vTPM fixtures call it
StopsOrForces == power = "running" /\
    Method(<<"vm-shutdown", "halted">>, NoArgs,
           [steps |-> <<"vm-shutdown-force", "halted">>, swallow |-> TRUE])

Connects == /\ power \in {"running", "halted"} /\ Cardinality(vbd) < 2 /\ Room(1) /\ snap = NoSnap
            /\ \E d \in Fresh(1), s \in SR :
                /\ at \in SeenFrom[s] /\ host \in SeenFrom[s]
                /\ phase = "test" /\ ~raised
                /\ sr' = [sr EXCEPT ![d] = s]
                /\ Call(<<"vbd-create", "plug?", "append">>, [NoArgs EXCEPT !.disk = d], NoHandler)
                /\ UNCHANGED <<power, at, vbd, unplugged, snap, phase>>

Disconnects == /\ power \in {"running", "halted"}
               /\ \E d \in vdis : Method(<<"in-vdis?", "unplug?", "vbd-destroy", "remove">>,
                                        [NoArgs EXCEPT !.disk = d], NoHandler)

DestroysDisk == /\ power = "halted" /\ vbd # {}
                /\ \E d \in vdis :
                      Method(<<"vdi-destroy">>, [NoArgs EXCEPT !.left = {d}], NoHandler)

Snapshots == /\ power \in {"running", "halted"} /\ snap = NoSnap /\ vbd # {}
             /\ Room(Cardinality(vbd)) /\ Method(<<"vm-snapshot">>, NoArgs, NoHandler)
Checkpoints == Ready /\ snap = NoSnap /\ Room(Cardinality(vbd)) /\ Method(<<"vm-checkpoint">>, NoArgs, NoHandler)
Reverts == /\ snap # NoSnap /\ Room(Cardinality(snap.disks))
           /\ Method(<<"snapshot-revert", "create_vdis_list">> \o
                     (IF snap.power = "suspended" THEN <<"vm-resume">> \o WaitSsh ELSE <<>>),
                     NoArgs, NoHandler)
DropsSnapshot == snap # NoSnap /\ Method(DropSnap, NoArgs, NoHandler)

\* test_snapshot_on_running_vm
SnapshotTest ==
    /\ Ready /\ snap = NoSnap /\ Room(2 * Cardinality(vbd)) /\ phase = "test" /\ ~raised
    /\ Call(WaitSsh \o <<"vm-snapshot", "touch", "snapshot-revert", "create_vdis_list", "vm-start">>
                    \o WaitSsh \o <<"no-file?", "finally">> \o DropSnap, NoArgs, NoHandler)
    /\ UNCHANGED <<xapi, phase>>

Migrates ==
    /\ snap = NoSnap /\ vbd # {} /\ Room(Cardinality(vbd))
    /\ \E t \in Host, s \in SR \cup {None}, n \in BOOLEAN :
        /\ s # None => t \in SeenFrom[s] /\ (n => SrAndNetwork)
        /\ \A d \in vbd : Movable(t, same_sr(s, d), n, power = "running")
        /\ Method(<<"live?">> \o (IF s = None THEN <<>> ELSE <<"same-sr?">>) \o
                  <<"vm-migrate", "moved", "create_vdis_list">>,
                  [NoArgs EXCEPT !.target = t, !.sr = s, !.net = n,
                                 !.want = IF OneSr THEN s ELSE None], NoHandler)

\* The test is over: what it deferred runs, then imported_vm destroys the VM.
TestEnds == /\ phase = "test" /\ phase' = "defers" /\ UNCHANGED xapi
            /\ Call(IF snap # NoSnap /\ snap.deferred THEN DropSnap ELSE <<>>, NoArgs, NoHandler)
Teardown == /\ phase = "defers" /\ phase' = "teardown" /\ UNCHANGED xapi
            /\ Call(Destroy, NoArgs, NoHandler)
Over     == /\ phase = "teardown" /\ phase' = "end" /\ UNCHANGED xapi
            /\ Call(<<>>, NoArgs, NoHandler)
Done     == phase = "end" /\ UNCHANGED vars

Commands == \/ Start \/ Shutdown \/ ForceShutdown \/ Reboot \/ Suspend \/ Resume \/ Pause \/ Unpause
            \/ \E p \in {"running", "halted", "suspended", "paused"} : WaitFor(p)
            \/ try_get_and_store_ip \/ is_management_agent_up \/ is_ssh_up
            \/ VbdCreate \/ PlugNext \/ VbdPlug \/ AddToList
            \/ InList \/ UnplugNext \/ VbdUnplug \/ VbdDestroy \/ Remove
            \/ create_vdis_list \/ destroy_vdi
            \/ TakeSnapshot("vm-snapshot") \/ TakeSnapshot("vm-checkpoint") \/ Finally
            \/ Revert \/ SnapUninstall \/ SnapGone \/ Touch \/ FileGone
            \/ LiveNext \/ SameSrNext \/ Migrate \/ Moved
            \/ DestroyBegins \/ ListDisks \/ VmDestroy \/ Gone

Tests == \/ Starts \/ Stops \/ StopsOrForces \/ Connects \/ Disconnects \/ DestroysDisk
         \/ Snapshots \/ Checkpoints \/ Reverts \/ DropsSnapshot \/ SnapshotTest \/ Migrates
         \/ TestEnds \/ Teardown \/ Over \/ Done

Next == Commands \/ Tests \/ Boots \/ GuestMoves
Spec == Init /\ [][Next]_vars

-----------------------------------------------------------------------------
TypeOK ==
    /\ power \in {"halted", "running", "suspended", "paused", "gone"}
    /\ at \in Host /\ host \in Host
    /\ sr \in [Disk -> SR \cup {None}] /\ vbd \subseteq Disks /\ unplugged \subseteq vbd
    /\ snap = NoSnap \/ (snap.disks \subseteq Disks /\ snap.disks \cap vbd = {})
    /\ boot \in 0..4 /\ addr \in Addr \cup {None, LinkLocal} /\ file \in BOOLEAN /\ ip \in Addr \cup {None}
    /\ vdis \subseteq Disk
    /\ args.left \subseteq Disk /\ {args.target, args.sr, args.want} \subseteq Host \cup SR \cup {None}
    /\ handler.swallow \in BOOLEAN /\ raised \in BOOLEAN
    /\ phase \in {"test", "defers", "teardown", "end"}
    /\ Cardinality(struck) + moves <= MaxTrouble

\* As long as no method has raised, the object at rest is right about what it
\* remembers: it talks to the pool that has the VM, and its list is the VM's
\* disks (vm.py:259-341, 376-386).
ObjectIsRight ==
    phase = "test" /\ todo = <<>> /\ ~raised => Reachable /\ vdis = vbd

\* A migrate(sr=...) that succeeds has every disk of the VM on that SR, provided
\* they were on one SR before (vm.py:266-301).
DisksWhereAsked == Doing("moved") /\ args.want # None => \A d \in vbd : sr[d] = args.want

\* VM.destroy leaves a disk of the VM behind only after a method has raised:
\* it destroys what is in VM.vdis, whatever vm-disk-list says (vm.py:239-250, 361-386).
DestroyTakesTheDisks ==
    [][power # "gone" /\ power' = "gone" => vbd = {} \/ raised']_vars

\* Once the guest runs an SSH server, the wait for SSH asks at the address the
\* guest has, unless the guest rebooted by itself (vm.py:97-107, 195-206).
WaitsAtTheRightAddress ==
    Doing("ssh?") /\ power = "running" /\ boot = 4 /\ moves = 0 /\ Reachable => ip = addr

\* Methods called when their preconditions hold raise only if a command failed,
\* the guest was slow, or it stopped by itself.
NoSpuriousFailure == raised => struck # {} \/ moves > 0

\* At the end a snapshot is left only if the command that takes or removes one
\* failed (vm.py:570-582, snapshot.py:24-30).
NoSnapshotLeft ==
    phase = "end" /\ snap # NoSnap
        => struck \cap {"vm-snapshot", "vm-checkpoint", "snapshot-uninstall", "snapshot-gone?"} # {}

\* No method fails, and none leaves a snapshot, but for a command that failed.
FailuresHaveACause == NoSpuriousFailure /\ NoSnapshotLeft

=============================================================================
