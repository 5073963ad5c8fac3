------------------------------- MODULE VmCache -------------------------------
(***************************************************************************)
(* The VMs of one XCP-ng pool as successive pytest sessions create, cache, *)
(* clone and destroy them.                                                 *)
(*                                                                         *)
(* The pool outlives the sessions.  A VM is "in the cache" when its        *)
(* name-description is a cache key (Host.vm_cache_key): nothing else tells *)
(* a cached VM from any other.  Four users share the mechanism:            *)
(*   - the `hosts` fixture clones a cached VM per nested host,             *)
(*   - `imported_vm` imports a VM (through the cache or not) and hands it, *)
(*     or a clone of it, to the tests of a module,                         *)
(*   - `create_vms` creates VMs from templates or clones test images, and  *)
(*     saves their state in the cache when the test passed,                *)
(*   - VM.save_to_cache replaces the entries of a key by a new clone.      *)
(*                                                                         *)
(* One action per xe command that changes the pool.  Any command may fail  *)
(* (Fail: the exception runs the fixture's own handler) and the session    *)
(* may be killed anywhere (Kill: no handler runs).                         *)
(***************************************************************************)
EXTENDS Naturals, FiniteSets

CONSTANTS
    VM,          \* VM uuids
    UserVM,      \* VMs given to pytest by uuid (--vm=<uuid>); never ours to destroy
    Disk,        \* disk positions of a VM
    SR,          \* storage repositories a session may use as main SR
    ImportKey,   \* cache keys of imported images
    ImageKey,    \* cache keys of the outputs of tests
    NoKey,       \* any name-description that is not a cache key
    NoVm,
    MaxDefs,     \* bound: VM definitions of one test
    MaxFixtures, \* bound: fixtures set up over all sessions
    MaxFaults    \* bound: failing commands and killed sessions

Key == ImportKey \union ImageKey

ASSUME KeyAssumption  == NoKey \notin Key /\ ImportKey \intersect ImageKey = {}
ASSUME VmAssumption   == NoVm \notin VM /\ UserVM \subseteq VM
ASSUME BoundAssumption == MaxDefs \in Nat /\ MaxFixtures \in Nat /\ MaxFaults \in Nat

VARIABLES
    alive,    \* VMs that exist on the pool
    key,      \* their name-description
    home,     \* the SR their disks are on
    vdi,      \* disks that exist, <<vm, position>>
    att,      \* disks connected by a VBD to their VM
    used,     \* VMs a test, or an installation, has written to
    torn      \* VMs that a destroy() has already deprived of a disk

pool == <<alive, key, home, vdi, att, used, torn>>

VARIABLES
    sr,       \* host.main_sr_uuid() of the session
    cache,    \* CACHE_IMPORTED_VM of the session's data.py
    job,      \* the fixture being set up or torn down
    pc,       \* its next command
    want,     \* the cache key at hand
    base,     \* the VM about to be cloned
    cur,      \* the VM just created, not yet in any list
    held,     \* the VM imported_vm has yielded
    keep,     \* imported_vm will not destroy it
    nested,   \* nested_list of the hosts fixture
    vms,      \* vms, vdis, vbds of create_vms
    vdis,
    vbds,
    left,     \* VMs of create_vms still to be saved
    dying,    \* the VM whose destroy() is running
    todo      \* disks destroy() still has to destroy

config  == <<sr, cache>>
lists   == <<held, keep, nested, vms, vdis, vbds>>
cursors == <<job, pc, want, base, cur>>
destroy == <<dying, todo>>

VARIABLES fixtures, faults
counters == <<fixtures, faults>>

vars == <<pool, config, lists, cursors, destroy, left, counters>>

-----------------------------------------------------------------------------
\* What the pool answers

DisksOf(v) == {x \in att : x[1] = v}

\* Host.cached_vm: the VMs whose description is the key and whose first disk
\* is on the SR; a VM that has no disk at all counts as being on every SR.
\* xe lists them in no particular order and the first one is returned.
Matches(k, s) == {v \in alive : key[v] = k /\ (DisksOf(v) = {} \/ home[v] = s)}

\* uuids that were never given to a VM; uuids are not reused
Free  == {v \in VM : v \notin alive /\ \A x \in vdi : x[1] # v}
Fresh == CHOOSE v \in Free : TRUE

\* where a VM that does not exist "is"; user VMs are wherever the user put them
AnySR == CHOOSE s \in SR : TRUE

Phase == {"off", "hosts", "idle", "lookup", "import", "prepare", "mark", "clone", "unmark",
          "defs", "template", "adopt", "fill", "attach", "test",
          "save", "saveclone", "savemark", "finally", "drop", "cleanup"}

TypeOK ==
    /\ alive \subseteq VM
    /\ key \in [VM -> Key \union {NoKey}]
    /\ home \in [VM -> SR]
    /\ vdi \subseteq VM \X Disk
    /\ att \subseteq vdi
    /\ used \subseteq VM
    /\ torn \subseteq VM
    /\ sr \in SR
    /\ cache \in BOOLEAN
    /\ job \in {"none", "nested", "imported", "create"}
    /\ pc \in Phase
    /\ want \in Key \union {NoKey}
    /\ base \in VM \union {NoVm}
    /\ cur \in VM \union {NoVm}
    /\ held \in VM \union {NoVm}
    /\ keep \in BOOLEAN
    /\ nested \subseteq VM
    /\ vms \subseteq VM
    /\ vdis \subseteq VM \X Disk
    /\ vbds \subseteq VM \X Disk
    /\ left \subseteq VM
    /\ dying \in VM \union {NoVm}
    /\ todo \subseteq VM \X Disk
    /\ fixtures \in Nat
    /\ faults \in Nat

Init ==
    /\ alive = UserVM
    /\ key = [v \in VM |-> NoKey]
    /\ home = [v \in VM |-> AnySR]
    /\ vdi = UserVM \X Disk
    /\ att = vdi
    /\ used = {}
    /\ torn = {}
    /\ sr \in SR
    /\ cache \in BOOLEAN
    /\ job = "none" /\ pc = "off"
    /\ want = NoKey /\ base = NoVm /\ cur = NoVm
    /\ held = NoVm /\ keep = FALSE /\ nested = {}
    /\ vms = {} /\ vdis = {} /\ vbds = {} /\ left = {}
    /\ dying = NoVm /\ todo = {}
    /\ fixtures = 0 /\ faults = 0

-----------------------------------------------------------------------------
\* Control: where a step leads

Goto(p) == pc' = p /\ UNCHANGED <<job, want, base, cur>>

NotDying == dying = NoVm

\* The fixture is over: nothing of it is remembered but what it registered.
Finish(p) == /\ pc' = p /\ job' = "none" /\ want' = NoKey
             /\ base' = NoVm /\ cur' = NoVm

\* mutant: create_vms has no finally clause
RaiseWithoutFinally ==
    /\ dying' = NoVm /\ todo' = {} /\ left' = {}
    /\ pc' = (IF job = "nested" THEN "off" ELSE "idle") /\ job' = "none"
    /\ held' = (IF job = "imported" THEN NoVm ELSE held)
    /\ nested' = (IF job = "nested" THEN {} ELSE nested)
    /\ vms' = {} /\ vdis' = {} /\ vbds' = {}
    /\ UNCHANGED keep
    /\ want' = NoKey /\ base' = NoVm /\ cur' = NoVm

\* An exception.  create_vms has a finally clause, which an exception of the
\* finally clause itself leaves; hosts destroys nested_list before it raises
\* again; imported_vm has no handler.  What was in `cur` is forgotten.
Raise ==
    /\ dying' = NoVm /\ todo' = {} /\ left' = {}
    /\ \/ /\ job = "create" /\ pc # "finally"
          /\ pc' = "finally" /\ job' = job
          /\ UNCHANGED lists
       \/ /\ job = "create" /\ pc = "finally"
          /\ pc' = "idle" /\ job' = "none"
          /\ vms' = {} /\ vdis' = {} /\ vbds' = {}
          /\ UNCHANGED <<held, keep, nested>>
       \/ /\ job = "nested" /\ pc # "cleanup"
          /\ pc' = "cleanup" /\ job' = job
          /\ UNCHANGED lists
       \/ /\ job = "nested" /\ pc = "cleanup"
          /\ pc' = "off" /\ job' = "none" /\ nested' = {}
          /\ UNCHANGED <<held, keep, vms, vdis, vbds>>
       \/ /\ job = "imported"
          /\ pc' = "idle" /\ job' = "none" /\ held' = NoVm
          /\ UNCHANGED <<keep, nested, vms, vdis, vbds>>
    /\ want' = NoKey /\ base' = NoVm /\ cur' = NoVm

-----------------------------------------------------------------------------
\* What a command does to the pool

\* xe vm-import, vm-install, vm-clone: a new VM c with the disks in ds.
Create(c, k, s, ds, dirty, broken) ==
    /\ Free # {}
    /\ alive' = alive \union {c}
    /\ key' = [key EXCEPT ![c] = k]
    /\ home' = [home EXCEPT ![c] = s]
    /\ vdi' = vdi \union ({c} \X ds)
    /\ att' = att \union ({c} \X ds)
    /\ used' = IF dirty THEN used \union {c} ELSE used \ {c}
    /\ torn' = IF broken THEN torn \union {c} ELSE torn \ {c}

\* VM.clone: xe vm-clone copies the description and the disks as they are now.
CloneOf(c, v) ==
    Create(c, key[v], home[v], {x[2] : x \in DisksOf(v)}, v \in used, v \in torn)

\* param_set('name-description', k), and param_clear for NoKey
Describe(v, k) ==
    /\ key' = [key EXCEPT ![v] = k]
    /\ UNCHANGED <<alive, home, vdi, att, used, torn>>

-----------------------------------------------------------------------------
\* Sessions

\* pytest starts: main SR and CACHE_IMPORTED_VM are read from the configuration.
StartSession ==
    /\ pc = "off"
    /\ fixtures < MaxFixtures
    /\ sr' \in SR
    /\ cache' \in BOOLEAN
    /\ pc' = "hosts"
    /\ UNCHANGED <<pool, lists, job, want, base, cur, destroy, left, counters>>

\* The hosts fixture yields: session-scoped, it is set up before any other.
HostsReady ==
    /\ pc = "hosts"
    /\ Goto("idle")
    /\ UNCHANGED <<pool, config, lists, destroy, left, counters>>

\* The session ends: cleanup_hosts of the hosts fixture.
EndSession ==
    /\ pc = "idle" /\ held = NoVm
    /\ pc' = "cleanup" /\ job' = "nested"
    /\ UNCHANGED <<pool, config, lists, want, base, cur, destroy, left, counters>>

\* A fixture is set up; fixtures are counted to bound the behaviours.
Begin(p, j) ==
    /\ pc = p
    /\ fixtures < MaxFixtures
    /\ fixtures' = fixtures + 1
    /\ job' = j
    /\ cur' = NoVm
    /\ UNCHANGED <<pool, config, lists, destroy, left, faults>>

\* hosts: import_vm("clone:...") for a --hosts=cache:// argument.
SetupNested(k) == /\ Begin("hosts", "nested")
                  /\ pc' = "lookup" /\ want' = k /\ base' = NoVm

\* imported_vm when vm_ref names an image: import_vm(use_cache=CACHE_IMPORTED_VM).
SetupImported(k) == /\ Begin("idle", "imported") /\ held = NoVm
                    /\ pc' = IF cache THEN "lookup" ELSE "import"
                    /\ want' = k /\ base' = NoVm

\* imported_vm when vm_ref is a uuid: the VM itself, or a clone of it.
SetupUser(u) ==
    /\ pc = "idle" /\ held = NoVm
    /\ fixtures < MaxFixtures
    /\ fixtures' = fixtures + 1
    /\ \/ /\ cache
          /\ job' = "imported" /\ pc' = "clone" /\ base' = u
          /\ UNCHANGED <<held, keep>>
       \/ /\ ~cache
          /\ held' = u /\ keep' = TRUE
          /\ UNCHANGED <<job, pc, base>>
    /\ UNCHANGED <<pool, config, nested, vms, vdis, vbds, want, cur, destroy, left, faults>>

SetupCreate == Begin("idle", "create") /\ pc' = "defs" /\ UNCHANGED <<want, base>>

-----------------------------------------------------------------------------
\* From the cache: Host.cached_vm, Host.import_vm, imported_vm, _vm_from_cache

LookupHit(v) ==
    /\ pc = "lookup"
    /\ v \in Matches(want, sr)
    /\ base' = v /\ pc' = "clone"
    /\ UNCHANGED <<pool, config, lists, job, want, cur, destroy, left, counters>>

\* import_vm goes on to import; "No cache found" is an exception for the others.
LookupMiss ==
    /\ pc = "lookup"
    /\ Matches(want, sr) = {}
    /\ \/ /\ job = "imported"
          /\ Goto("import")
          /\ UNCHANGED <<lists, destroy, left>>
       \/ /\ job # "imported"
          /\ Raise
    /\ UNCHANGED <<pool, config, counters>>

Import ==
    /\ pc = "import"
    /\ Create(Fresh, NoKey, sr, Disk, FALSE, FALSE)
    /\ cur' = Fresh /\ pc' = "prepare"
    /\ UNCHANGED <<config, lists, job, want, base, destroy, left, counters>>

\* VM(), name-label, networks of the VIFs: nothing of it matters to the cache.
Prepare ==
    /\ pc = "prepare"
    /\ \/ /\ cache
          /\ Goto("mark")
          /\ UNCHANGED <<held, keep>>
       \/ /\ ~cache
          /\ held' = cur /\ keep' = FALSE
          /\ Finish("idle")
    /\ UNCHANGED <<pool, config, nested, vms, vdis, vbds, destroy, left, counters>>

\* mutant: the VM that was just cached is itself given to the tests
MarkWithoutClone ==
    /\ pc = "mark"
    /\ Describe(cur, want)
    /\ held' = cur /\ keep' = FALSE
    /\ Finish("idle")
    /\ UNCHANGED <<config, nested, vms, vdis, vbds, destroy, left, counters>>

Mark ==
    /\ pc = "mark"
    /\ Describe(cur, want)
    /\ base' = cur /\ cur' = NoVm /\ pc' = "clone"
    /\ UNCHANGED <<config, lists, job, want, destroy, left, counters>>

Clone ==
    /\ pc = "clone"
    /\ CloneOf(Fresh, base)
    /\ cur' = Fresh /\ pc' = "unmark"
    /\ UNCHANGED <<config, lists, job, want, base, destroy, left, counters>>

\* mutant: the description the clone inherited is kept
UnmarkForgotten ==
    /\ pc = "unmark"
    /\ \/ /\ job = "nested"
          /\ nested' = nested \union {cur}
          /\ Finish("hosts")
          /\ UNCHANGED <<held, keep, vms>>
       \/ /\ job = "imported"
          /\ held' = cur /\ keep' = FALSE
          /\ Finish("idle")
          /\ UNCHANGED <<nested, vms>>
       \/ /\ job = "create"
          /\ vms' = vms \union {cur}
          /\ pc' = "defs" /\ want' = NoKey /\ base' = NoVm /\ cur' = NoVm /\ job' = job
          /\ UNCHANGED <<held, keep, nested>>
    /\ UNCHANGED <<pool, config, vdis, vbds, destroy, left, counters>>

\* The clone loses the cache key it inherited, then its user registers it.
Unmark ==
    /\ pc = "unmark"
    /\ Describe(cur, NoKey)
    /\ \/ /\ job = "nested"
          /\ nested' = nested \union {cur}
          /\ Finish("hosts")
          /\ UNCHANGED <<held, keep, vms>>
       \/ /\ job = "imported"
          /\ held' = cur /\ keep' = FALSE
          /\ Finish("idle")
          /\ UNCHANGED <<nested, vms>>
       \/ /\ job = "create"
          /\ vms' = vms \union {cur}
          /\ pc' = "defs" /\ want' = NoKey /\ base' = NoVm /\ cur' = NoVm /\ job' = job
          /\ UNCHANGED <<held, keep, nested>>
    /\ UNCHANGED <<config, vdis, vbds, destroy, left, counters>>

-----------------------------------------------------------------------------
\* create_vms: one VM per definition of the test's vm_definitions marker

DefImage(k) ==
    /\ pc = "defs" /\ Cardinality(vms) < MaxDefs
    /\ pc' = "lookup" /\ want' = k
    /\ UNCHANGED <<pool, config, lists, job, base, cur, destroy, left, counters>>

DefTemplate ==
    /\ pc = "defs" /\ Cardinality(vms) < MaxDefs
    /\ Goto("template")
    /\ UNCHANGED <<pool, config, lists, destroy, left, counters>>

\* _create_vm: Host.vm_from_template, the VM is then registered ...
Template ==
    /\ pc = "template"
    /\ Create(Fresh, NoKey, sr, {}, FALSE, FALSE)
    /\ cur' = Fresh /\ pc' = "adopt"
    /\ UNCHANGED <<config, lists, job, want, base, destroy, left, counters>>

Adopt ==
    /\ pc = "adopt"
    /\ vms' = vms \union {cur}
    /\ Goto("fill")
    /\ UNCHANGED <<pool, config, held, keep, nested, vdis, vbds, destroy, left, counters>>

\* ... each VDI is created and registered, then connected and its VBD registered.
CreateVdi(d) ==
    /\ pc = "fill"
    /\ <<cur, d>> \notin vdi
    /\ vdi' = vdi \union {<<cur, d>>}
    /\ vdis' = vdis \union {<<cur, d>>}
    /\ Goto("attach")
    /\ UNCHANGED <<alive, key, home, att, used, torn, config,
                   held, keep, nested, vms, vbds, destroy, left, counters>>

CreateVbd(x) ==
    /\ pc = "attach"
    /\ x \in vdis \ att /\ x[1] = cur
    /\ att' = att \union {x}
    /\ vbds' = vbds \union {x}
    /\ Goto("fill")
    /\ UNCHANGED <<alive, key, home, vdi, used, torn, config,
                   held, keep, nested, vms, vdis, destroy, left, counters>>

\* The CD drive, VIFs and parameters of the definition leave the disks alone.
Filled ==
    /\ pc = "fill"
    /\ pc' = "defs" /\ cur' = NoVm
    /\ UNCHANGED <<pool, config, lists, job, want, base, destroy, left, counters>>

DefsDone ==
    /\ pc = "defs" /\ vms # {}
    /\ Goto("test")
    /\ UNCHANGED <<pool, config, lists, destroy, left, counters>>

\* The test writes to the VMs of create_vms, of imported_vm and nested hosts.
\* Only when its setup and call reports both passed are the VMs saved.
Test(passed) ==
    /\ pc = "test"
    /\ used' = used \union vms \union nested \union ({held} \ {NoVm})
    /\ left' = IF passed THEN vms ELSE {}
    /\ Goto(IF passed THEN "save" ELSE "finally")
    /\ UNCHANGED <<alive, key, home, vdi, att, torn, config, lists, destroy, counters>>

\* A test that only uses imported_vm or the nested hosts.
PlainTest ==
    /\ pc = "idle"
    /\ used' = used \union nested \union ({held} \ {NoVm})
    /\ UNCHANGED <<alive, key, home, vdi, att, torn, config, cursors, lists,
                   destroy, left, counters>>

-----------------------------------------------------------------------------
\* VM.destroy: a running VM is halted, each of its disks is destroyed, then
\* the VM.  The caller's pc does not move until the VM is gone.

DestroyBegins(v) == dying' = v /\ todo' = DisksOf(v)

DestroyDisk(x) ==
    /\ dying # NoVm
    /\ x \in todo
    /\ todo' = todo \ {x}
    /\ vdi' = vdi \ {x}
    /\ att' = att \ {x}
    /\ torn' = torn \union {dying}
    /\ UNCHANGED <<alive, key, home, used, dying, config, cursors, lists, left, counters>>

\* mutant: the disks go, the VM and its description stay
DestroyDisksOnly ==
    /\ dying # NoVm
    /\ todo = {}
    /\ dying' = NoVm
    /\ vms' = IF pc = "finally" THEN vms \ {dying} ELSE vms
    /\ nested' = IF pc = "cleanup" THEN nested \ {dying} ELSE nested
    /\ IF pc = "drop" THEN held' = NoVm /\ Finish("idle")
                      ELSE UNCHANGED <<held, cursors>>
    /\ UNCHANGED <<pool, todo, config, keep, vdis, vbds, left, counters>>

DestroyVm ==
    /\ dying # NoVm
    /\ todo = {}
    /\ alive' = alive \ {dying}
    /\ key' = [key EXCEPT ![dying] = NoKey]
    /\ home' = [home EXCEPT ![dying] = AnySR]
    /\ used' = used \ {dying}
    /\ torn' = torn \ {dying}
    /\ att' = att \ DisksOf(dying)
    /\ dying' = NoVm
    /\ vms' = IF pc = "finally" THEN vms \ {dying} ELSE vms
    /\ nested' = IF pc = "cleanup" THEN nested \ {dying} ELSE nested
    /\ IF pc = "drop" THEN held' = NoVm /\ Finish("idle")
                      ELSE UNCHANGED <<held, cursors>>
    /\ UNCHANGED <<vdi, todo, config, keep, vdis, vbds, left, counters>>

-----------------------------------------------------------------------------
\* VM.save_to_cache, for each VM of a test that passed

SaveNext(v, k) ==
    /\ pc = "save" /\ cur = NoVm
    /\ v \in left
    /\ left' = left \ {v}
    /\ cur' = v /\ want' = k
    /\ UNCHANGED <<pool, config, lists, job, pc, base, destroy, counters>>

\* while True: destroy an old entry of the key, ...
SaveEvict(v) ==
    /\ pc = "save" /\ cur # NoVm /\ NotDying
    /\ v \in Matches(want, sr)
    /\ DestroyBegins(v)
    /\ UNCHANGED <<pool, config, cursors, lists, left, counters>>

\* mutant: one lookup, no loop
SaveEvictedEarly ==
    /\ pc = "save" /\ cur # NoVm /\ NotDying
    /\ base' = cur /\ cur' = NoVm /\ pc' = "saveclone"
    /\ UNCHANGED <<pool, config, lists, job, want, destroy, left, counters>>

\* ... until there is none.
SaveEvicted ==
    /\ pc = "save" /\ cur # NoVm /\ NotDying
    /\ Matches(want, sr) = {}
    /\ base' = cur /\ cur' = NoVm /\ pc' = "saveclone"
    /\ UNCHANGED <<pool, config, lists, job, want, destroy, left, counters>>

SaveClone ==
    /\ pc = "saveclone"
    /\ CloneOf(Fresh, base)
    /\ cur' = Fresh /\ pc' = "savemark"
    /\ UNCHANGED <<config, lists, job, want, base, destroy, left, counters>>

SaveMark ==
    /\ pc = "savemark"
    /\ Describe(cur, want)
    /\ pc' = "save" /\ cur' = NoVm /\ base' = NoVm /\ want' = NoKey
    /\ UNCHANGED <<config, lists, job, destroy, left, counters>>

SaveDone ==
    /\ pc = "save" /\ cur = NoVm /\ left = {}
    /\ Goto("finally")
    /\ UNCHANGED <<pool, config, lists, destroy, left, counters>>

-----------------------------------------------------------------------------
\* Teardowns

\* finally clause of create_vms: all VBDs, then all VDIs, then all VMs.
DestroyVbd(x) ==
    /\ pc = "finally"
    /\ x \in vbds
    /\ vbds' = vbds \ {x}
    /\ att' = att \ {x}
    /\ UNCHANGED <<alive, key, home, vdi, used, torn, config, cursors,
                   held, keep, nested, vms, vdis, destroy, left, counters>>

\* mutant: the VDIs are destroyed before their VBDs
DestroyVdiFirst(x) ==
    /\ pc = "finally"
    /\ x \in vdis
    /\ vdis' = vdis \ {x}
    /\ vdi' = vdi \ {x}
    /\ UNCHANGED <<alive, key, home, att, used, torn, config, cursors,
                   held, keep, nested, vms, vbds, destroy, left, counters>>

DestroyVdi(x) ==
    /\ pc = "finally" /\ vbds = {}
    /\ x \in vdis
    /\ vdis' = vdis \ {x}
    /\ vdi' = vdi \ {x}
    /\ UNCHANGED <<alive, key, home, att, used, torn, config, cursors,
                   held, keep, nested, vms, vbds, destroy, left, counters>>

TeardownVm(v) ==
    /\ pc = "finally" /\ vbds = {} /\ vdis = {} /\ NotDying
    /\ v \in vms
    /\ DestroyBegins(v)
    /\ UNCHANGED <<pool, config, cursors, lists, left, counters>>

TeardownDone ==
    /\ pc = "finally" /\ vbds = {} /\ vdis = {} /\ vms = {} /\ NotDying
    /\ Finish("idle")
    /\ UNCHANGED <<pool, config, lists, destroy, left, counters>>

\* mutant: the teardown does not look at where the VM came from
DropAnyHeld ==
    /\ pc = "idle" /\ held # NoVm
    /\ pc' = "drop" /\ job' = "imported"
    /\ DestroyBegins(held)
    /\ UNCHANGED <<pool, config, want, base, cur, lists, left, counters>>

\* imported_vm: `if CACHE_IMPORTED_VM or not is_uuid(vm_ref)`
DropHeld ==
    /\ pc = "idle" /\ held # NoVm
    /\ \/ /\ ~keep
          /\ pc' = "drop" /\ job' = "imported"
          /\ DestroyBegins(held)
          /\ UNCHANGED held
       \/ /\ keep
          /\ held' = NoVm
          /\ UNCHANGED <<pc, job, destroy>>
    /\ UNCHANGED <<pool, config, want, base, cur, keep, nested, vms, vdis, vbds, left, counters>>

\* cleanup_hosts
CleanupNested(v) ==
    /\ pc = "cleanup" /\ NotDying
    /\ v \in nested
    /\ DestroyBegins(v)
    /\ UNCHANGED <<pool, config, cursors, lists, left, counters>>

CleanupDone ==
    /\ pc = "cleanup" /\ NotDying
    /\ nested = {}
    /\ Finish("off")
    /\ UNCHANGED <<pool, config, lists, destroy, left, counters>>

-----------------------------------------------------------------------------
\* Faults

Creating == pc \in {"import", "clone", "template", "saveclone"}

\* The command at hand fails and changes nothing.  A creation also fails when
\* the instance has no uuid left, as it would on a full SR.
Fail ==
    /\ pc \notin {"off", "hosts", "idle", "test"}
    /\ faults < MaxFaults \/ (Creating /\ Free = {})
    /\ faults' = faults + 1
    /\ Raise
    /\ UNCHANGED <<pool, config, fixtures>>

\* pytest is killed: the pool keeps everything, the session nothing.
Kill ==
    /\ pc # "off"
    /\ faults < MaxFaults
    /\ faults' = faults + 1
    /\ Finish("off")
    /\ held' = NoVm /\ keep' = FALSE /\ nested' = {}
    /\ vms' = {} /\ vdis' = {} /\ vbds' = {} /\ left' = {}
    /\ dying' = NoVm /\ todo' = {}
    /\ UNCHANGED <<pool, config, fixtures>>

-----------------------------------------------------------------------------
Sessions == StartSession \/ HostsReady \/ EndSession

Setup ==
    \/ \E k \in ImageKey : SetupNested(k) \/ DefImage(k)
    \/ \E k \in ImportKey : SetupImported(k)
    \/ \E u \in UserVM : SetupUser(u)
    \/ SetupCreate \/ DefTemplate
    \/ \E v \in VM : LookupHit(v)
    \/ LookupMiss \/ Import \/ Prepare \/ Mark \/ Clone \/ Unmark
    \/ Template \/ Adopt \/ Filled \/ DefsDone
    \/ \E d \in Disk : CreateVdi(d)
    \/ \E x \in VM \X Disk : CreateVbd(x)

Tests == PlainTest \/ \E passed \in BOOLEAN : Test(passed)

Destroy == DestroyVm \/ \E x \in VM \X Disk : DestroyDisk(x)

SaveToCache ==
    \/ \E v \in VM, k \in ImageKey : SaveNext(v, k)
    \/ \E v \in VM : SaveEvict(v)
    \/ SaveEvicted \/ SaveClone \/ SaveMark \/ SaveDone

Teardown ==
    \/ \E x \in VM \X Disk : DestroyVbd(x) \/ DestroyVdi(x)
    \/ \E v \in VM : TeardownVm(v) \/ CleanupNested(v)
    \/ TeardownDone \/ DropHeld \/ CleanupDone

Next == Sessions \/ Setup \/ Tests \/ Destroy \/ SaveToCache \/ Teardown \/ Fail \/ Kill

Spec == Init /\ [][Next]_vars

\* pytest is one thread: while it runs it does take its next command.
FairSpec == Spec /\ WF_vars(Destroy \/ SaveToCache)

-----------------------------------------------------------------------------
\* Properties

Held == {held} \ {NoVm}

\* The VMs that imported_vm, create_vms and hosts have handed to the tests
\* exist and are not shared between them: no eviction of a cache entry, and no
\* teardown of another fixture, ever destroys a VM a fixture still has to
\* destroy itself.
RegisteredVmsExist ==
    /\ Held \union vms \union nested \subseteq alive
    /\ Held \intersect vms = {} /\ Held \intersect nested = {} /\ vms \intersect nested = {}

\* conftest.py clones the cached VM "so that the original VM remains
\* untouched": what the cache holds for an image has never been written to by
\* a test, whatever failed and whatever was left behind by earlier sessions.
ImportEntriesPristine ==
    \A v \in alive : key[v] \in ImportKey => v \notin used

\* A VM that was given by uuid is neither destroyed nor deprived of a disk.
UserVmsSurvive == UserVM \subseteq alive /\ UserVM \X Disk \subseteq att

\* Between two fixtures, as long as no command failed, the pool holds nothing
\* but user VMs, cache entries and what live fixtures have registered, and no
\* VDI without its VM, even if tests failed or an image was missing.
NoLeakWithoutFault ==
    pc = "idle" /\ faults = 0 =>
        /\ \A v \in alive : v \in UserVM \union Held \union nested \/ key[v] \in Key
        /\ vdi = att
        /\ \A x \in vdi : x[1] \in alive

\* When save_to_cache has marked its clone, the clone is the only entry a
\* lookup of the key can return on this SR: the outcome of no earlier run, and
\* no clone leaked with the key, can be mistaken for it.
OneEntryAfterSave ==
    [][pc = "savemark" /\ pc' = "save" =>
         \A v \in alive' : key'[v] = want /\ (DisksOf(v)' = {} \/ home'[v] = sr) => v = cur]_vars

\* The `while True` of save_to_cache ends.
SaveTerminates == pc = "save" ~> pc # "save"

\* save_to_cache as a whole: it ends, and ends with a single entry.
SaveLeavesOneEntry == OneEntryAfterSave /\ SaveTerminates

\* tests/install/README.md: the description of a cached VM identifies the
\* output of a given test.  A lookup hands out a VM with all its disks.
EntryIsWholeOutput == pc = "clone" /\ want \in ImageKey => base \notin torn

-----------------------------------------------------------------------------
\* The inductive invariant behind RegisteredVmsExist, ImportEntriesPristine
\* and UserVmsSurvive: who may hold a VM, phase by phase.

Registered == Held \union vms \union nested

\* Nobody's VM but a user's has a user uuid, and no VM in use has a cache key.
UserInv ==
    /\ \A u \in UserVM : key[u] = NoKey
    /\ UserVM \intersect (vms \union nested) = {}
    /\ held \in UserVM => keep
    /\ \A x \in vdis \union vbds : x[1] \notin UserVM

KeyInv == \A v \in Registered : key[v] = NoKey

\* A VM just created is in no list until its fixture registers it.
CurInv ==
    /\ pc \in {"prepare", "mark", "unmark", "adopt", "savemark"} =>
         cur \in alive \ (Registered \union UserVM)
    /\ pc \in {"prepare", "adopt"} => key[cur] = NoKey
    /\ pc \in {"fill", "attach"} => cur \in vms
    /\ pc = "save" => cur \in vms \union {NoVm}
    /\ pc \in {"defs", "test"} => cur = NoVm
    /\ pc = "saveclone" => base \in vms
    /\ pc = "clone" => base \in alive
    /\ pc \in {"prepare", "mark"} => cur \notin used

\* Which key is at hand, and which job the phase belongs to.
PhaseInv ==
    /\ job = "imported" /\ pc \in {"lookup", "import", "prepare", "mark"} => want \in ImportKey
    /\ pc \in {"import", "prepare", "mark", "drop"} => job = "imported"
    /\ pc \in {"saveclone", "savemark"} => want \in ImageKey
    /\ pc = "save" /\ cur # NoVm => want \in ImageKey
    /\ pc = "cleanup" => job = "nested"
    /\ pc \in {"defs", "template", "adopt", "fill", "attach", "test",
               "save", "saveclone", "savemark", "finally"} => job = "create"
    /\ pc = "hosts" \/ job = "nested" => held = NoVm
    /\ job = "imported" /\ pc # "drop" => held = NoVm
    /\ job # "create" => vms = {} /\ vdis = {} /\ vbds = {}
    /\ pc = "off" => held = NoVm /\ nested = {} /\ vms = {}
    /\ left \subseteq vms
    /\ left # {} => pc \in {"save", "saveclone", "savemark"}
    /\ pc \in {"off", "idle", "hosts"} => dying = NoVm /\ job = "none"

\* destroy() runs on a VM of the list being torn down, or on a cache entry.
DyingInv ==
    dying # NoVm =>
        /\ dying \in alive \ UserVM
        /\ todo \subseteq DisksOf(dying)
        /\ pc \in {"save", "finally", "drop", "cleanup"}
        /\ pc = "save" => key[dying] \in Key /\ cur # NoVm
        /\ pc = "finally" => dying \in vms /\ vbds = {} /\ vdis = {}
        /\ pc = "drop" => dying = held
        /\ pc = "cleanup" => dying \in nested

\* The VDIs and VBDs of create_vms belong to its VMs, and a VDI of its list is
\* connected only through a VBD of its list.
DiskInv ==
    /\ vdis \subseteq vdi
    /\ vdis \intersect att \subseteq vbds
    /\ \A x \in vdis \union vbds : x[1] \in vms

IInv == TypeOK /\ RegisteredVmsExist /\ ImportEntriesPristine /\ UserVmsSurvive
        /\ UserInv /\ KeyInv /\ CurInv /\ PhaseInv /\ DyingInv /\ DiskInv

=============================================================================
