---------------------------- MODULE VmLifeProofs ----------------------------
(***************************************************************************)
(* Proofs about VmLife, for any hosts, pools, SRs, disks and troubles.     *)
(*                                                                         *)
(* A method is a sequence of statements, and what the VM, the guest and    *)
(* the object look like between two of them depends on which are left.  So *)
(* each rest of a method has a name, whose number says how many statements *)
(* are left, and the invariant says what is so at each: always, as long as *)
(* nothing has raised, and as long as nothing was in the way.              *)
(***************************************************************************)
EXTENDS VmLife, TLAPS, FiniteSetTheorems, SequenceTheorems, WellFoundedInduction

-----------------------------------------------------------------------------
(* What is left of each method.                                            *)

Boot1 == <<"ssh?">>
Boot2 == <<"agent?">> \o Boot1
Boot3 == <<"ip?">> \o Boot2
Boot4 == <<"running">> \o Boot3
Boot5 == <<"vm-start">> \o Boot4

Shut1    == <<"halted">>
Shut2    == <<"vm-shutdown">> \o Shut1
Force2   == <<"vm-shutdown-force">> \o Shut1
Reboot5  == <<"vm-reboot">> \o Boot4
Resume5  == <<"vm-resume">> \o Boot4
Suspend6 == <<"suspended">> \o Resume5
Suspend7 == <<"vm-suspend">> \o Suspend6
Unpause5 == <<"vm-unpause">> \o Boot4
Pause6   == <<"paused">> \o Unpause5
Pause7   == <<"vm-pause">> \o Pause6

Connect1 == <<"append">>
Connect2 == <<"plug?">> \o Connect1
Connect3 == <<"vbd-create">> \o Connect2
Plug2    == <<"vbd-plug">> \o Connect1
Undo1    == <<"vbd-destroy">>
Disconnect1 == <<"remove">>
Disconnect2 == <<"vbd-destroy">> \o Disconnect1
Disconnect3 == <<"unplug?">> \o Disconnect2
Disconnect4 == <<"in-vdis?">> \o Disconnect3
Unplug3     == <<"vbd-unplug">> \o Disconnect2
Vdi1        == <<"vdi-destroy">>

Snapshot1   == <<"vm-snapshot">>
Checkpoint1 == <<"vm-checkpoint">>
List1       == <<"create_vdis_list">>
Revert2     == <<"snapshot-revert">> \o List1
List6       == <<"create_vdis_list">> \o Resume5
Revert7     == <<"snapshot-revert">> \o List6
Drop1       == <<"snapshot-gone?">>
Drop2       == <<"snapshot-uninstall">> \o Drop1

\* test_snapshot_on_running_vm
Fragment3  == <<"finally">> \o Drop2
Fragment4  == <<"no-file?">> \o Fragment3
Fragment5  == <<"ssh?">> \o Fragment4
Fragment6  == <<"agent?">> \o Fragment5
Fragment7  == <<"ip?">> \o Fragment6
Fragment8  == <<"running">> \o Fragment7
Fragment9  == <<"vm-start">> \o Fragment8
Fragment10 == <<"create_vdis_list">> \o Fragment9
Fragment11 == <<"snapshot-revert">> \o Fragment10
Fragment12 == <<"touch">> \o Fragment11
Fragment13 == <<"vm-snapshot">> \o Fragment12
Fragment14 == <<"ssh?">> \o Fragment13
Fragment15 == <<"agent?">> \o Fragment14
Fragment16 == <<"ip?">> \o Fragment15
Fragment17 == <<"running">> \o Fragment16

Migrate2 == <<"moved">> \o List1
Migrate3 == <<"vm-migrate">> \o Migrate2
Migrate4 == <<"live?">> \o Migrate3
SameSr4  == <<"same-sr?">> \o Migrate3
SameSr5  == <<"live?">> \o SameSr4

\* VM.destroy, with n disks left to destroy
Gone1    == <<"gone?">>
Drops(n) == [i \in 1..n |-> "vdi-destroy"] \o <<"vm-destroy", "gone?">>
Destroy3 == <<"vm-disk-list">> \o Drops(0)
Destroy4 == <<"halted-now?">> \o Destroy3
Stop4    == <<"vm-shutdown-force">> \o Destroy3

\* With the snapshot of the fragment not yet taken, and taken.
Before == {Fragment17, Fragment16, Fragment15, Fragment14, Fragment13}
Taking == {Fragment12, Fragment11, Fragment10, Fragment9, Fragment8, Fragment7, Fragment6,
           Fragment5, Fragment4, Fragment3}

Powering  == {Boot1, Boot2, Boot3, Boot4, Boot5, Shut1, Shut2, Force2, Reboot5, Resume5,
              Suspend6, Suspend7, Unpause5, Pause6, Pause7}
Attaching == {Connect1, Connect2, Connect3, Plug2, Disconnect1, Disconnect2, Disconnect3,
              Disconnect4, Unplug3, Vdi1}
Reverting == {Snapshot1, Checkpoint1, List1, Revert2, List6, Revert7}
Dropping  == {Drop1, Drop2}
Migrating == {Migrate2, Migrate3, Migrate4, SameSr4, SameSr5}
Testing   == {<<>>} \cup Powering \cup Attaching \cup Reverting \cup Dropping \cup Migrating
                \cup Before \cup Taking

Idle == todo = <<>>
Undoing == [steps |-> Undo1, swallow |-> FALSE]
Forcing == [steps |-> Force2, swallow |-> TRUE]
Finally2 == [steps |-> Drop2, swallow |-> FALSE]

-----------------------------------------------------------------------------
(* What is always so.                                                      *)

Address == Addr \cup {None, LinkLocal}

\* The address of a guest goes by how far it has booted.
AddressAt(stage, a) ==
    /\ stage = 0 => a = None
    /\ stage = 1 => a = LinkLocal
    /\ stage > 1 => a \in Addr

Snaps == [disks : SUBSET Disk, deferred : BOOLEAN, file : BOOLEAN,
          power : {"none", "halted", "suspended"}, boot : 0..4, addr : Address]
Args  == [target : Host \cup {None}, sr : SR \cup {None}, net : BOOLEAN, live : BOOLEAN,
          disk : Disk \cup {0}, left : SUBSET Disk, want : SR \cup {None}]

Pool ==
    /\ power \in {"halted", "running", "suspended", "paused", "gone"} /\ at \in Host
    /\ sr \in [Disk -> SR \cup {None}] /\ vbd \subseteq Disks /\ unplugged \subseteq vbd
    /\ power = "halted" => unplugged = {}
    /\ snap \in Snaps /\ snap.disks \subseteq Disks /\ snap.disks \cap vbd = {}
    /\ snap # NoSnap => snap.power # "none"
    /\ boot \in 0..4 /\ addr \in Address /\ file \in BOOLEAN
    /\ AddressAt(boot, addr) /\ AddressAt(snap.boot, snap.addr)

Test ==
    /\ host \in Host /\ vdis \subseteq Disk /\ ip \in Addr \cup {None}
    /\ args \in Args /\ raised \in BOOLEAN
    /\ IsFiniteSet(struck) /\ moves \in Nat /\ Cardinality(struck) + moves <= MaxTrouble

\* The statements that are left, by phase, and what an exception leads to.
Where ==
    /\ phase \in {"test", "defers", "teardown", "end"}
    /\ phase = "test" => todo \in IF raised THEN {<<>>, Undo1} \cup Dropping ELSE Testing
    /\ phase = "defers" => todo \in {<<>>} \cup Dropping
    /\ phase = "teardown" =>
          \/ todo \in {<<>>, Destroy4, Stop4, Destroy3, Gone1}
          \/ todo = Drops(Cardinality(args.left)) /\ args.left \subseteq vbd
    /\ phase = "end" => Idle
    /\ todo = Vdi1 => args.left \subseteq vbd /\ \E d \in Disk : args.left = {d}
    /\ power = "gone" => phase \in {"teardown", "end"} /\ todo \in {<<>>, Gone1}

Handlers ==
    /\ handler \in {NoHandler, Undoing, Forcing, Finally2}
    /\ handler = Undoing => todo \in {Plug2, Connect1}
    /\ handler = Forcing => todo \in {Shut2, Shut1}
    /\ handler = Finally2 <=> todo \in Taking

\* A snapshot has somebody who removes it, and can, unless a command that takes
\* or removes one has failed.
SnapTrouble == struck \cap {"vm-snapshot", "vm-checkpoint", "snapshot-uninstall", "snapshot-gone?"} # {}
Kept ==
    snap # NoSnap /\ ~SnapTrouble =>
        /\ PoolOf[host] = PoolOf[at]
        /\ \/ phase = "test" /\ (snap.deferred \/ todo = Drop2 \/ todo \in Taking)
           \/ phase = "defers" /\ todo = Drop2

\* What is to be reverted to is there.
Held == todo \in {Revert2, Revert7} \cup Taking => snap # NoSnap

\* The address that has been asked for is the guest's.
Addressed ==
    todo \in {Boot2, Boot1, Fragment15, Fragment14, Fragment6, Fragment5} /\ moves = 0
        => boot > 1 /\ ip = addr

-----------------------------------------------------------------------------
(* What is so as long as no method has raised.                             *)

Sees(h, s) == \A d \in s : h \in SeenFrom[sr[d]]

Right ==
    ~raised =>
    /\ todo # Migrate2 => PoolOf[host] = PoolOf[at] /\ Sees(host, vbd)
    /\ Sees(host, snap.disks)
    /\ todo \in Migrating => snap = NoSnap /\ args.target \in Host
    /\ todo = Migrate2 => at = args.target /\ Sees(args.target, vbd)
    /\ todo = Connect3 => args.disk \in Disks \ vbd /\ snap = NoSnap /\ Sees(host, {args.disk})
    /\ todo \in {Connect2, Plug2, Connect1} => args.disk \in vbd /\ vbd = vdis \cup {args.disk}
    /\ todo \in {Disconnect4, Disconnect3, Unplug3, Disconnect2} => args.disk \in vbd
    /\ todo = Disconnect1 => /\ args.disk \in Disk \ (vbd \cup snap.disks)
                             /\ vdis = vbd \cup {args.disk}
    /\ todo \notin {Connect2, Plug2, Connect1, Disconnect1, Migrate2, List1, List6, Fragment10}
          => vdis = vbd
    /\ phase = "teardown" /\ todo \notin {<<>>, Destroy4, Stop4, Destroy3, Gone1} => args.left = vbd

\* What migrate has been asked for, and has done.
Asked ==
    ~raised /\ args.want # None =>
    /\ todo # Migrate4
    /\ todo \in {SameSr5, SameSr4} => /\ args.sr = args.want /\ ~args.net
                                      /\ args.target \in SeenFrom[args.want] /\ OneSr
    /\ todo = Migrate3 => /\ ~args.net
                          /\ \/ args.sr = args.want
                             \/ /\ args.sr = None /\ PoolOf[host] = PoolOf[args.target]
                                /\ \A d \in vbd : sr[d] = args.want
    /\ todo = Migrate2 => \A d \in vbd : sr[d] = args.want

-----------------------------------------------------------------------------
(* What is so as long as no fault has struck.                              *)

Calm == struck = {} /\ moves = 0

Powers ==
    /\ todo \in {Boot5, Fragment9, Fragment10} => power = "halted"
    /\ todo = Shut2 => power = "running" /\ (handler = Forcing \/ boot > 2)
    /\ todo \in {Force2, Stop4} => power # "halted"
    /\ todo \in {Reboot5, Suspend7} => power = "running" /\ boot > 2
    /\ todo \in {Pause7, Plug2} => power = "running"
    /\ todo \in {Resume5, List6} => power = "suspended"
    /\ todo = Unpause5 => power = "paused"
    /\ todo \in {Disconnect4, Disconnect3} => power \in {"running", "halted"}
    /\ todo = Disconnect2 => power = "halted" \/ args.disk \in unplugged
    /\ todo = Vdi1 => power = "halted"
    /\ phase = "teardown" /\ todo \notin {<<>>, Destroy4, Stop4, Gone1} => power = "halted"
    /\ todo = Gone1 => power = "gone"

Snapped ==
    /\ todo \in Taking \cup {Drop2} => snap # NoSnap
    /\ todo = Drop1 => snap = NoSnap
    /\ todo \in {Fragment13, Fragment12, Fragment4} => Answers
    /\ todo \in {Fragment12, Fragment11} => snap.power = "halted"
    /\ todo = Revert7 => snap.power = "suspended"
    /\ ~snap.file /\ (file => todo = Fragment11)

Moves ==
    /\ todo = Migrate4 => args.sr = None
    /\ todo \in {Migrate4, SameSr5, SameSr4} =>
          \A d \in vbd : Movable(args.target, same_sr(args.sr, d), args.net, power = "running")
    /\ todo \in {Migrate4, SameSr5, SameSr4} => vbd # {}
    /\ todo = SameSr4 => args.live = (power = "running")
    /\ todo = Migrate3 => Movable(args.target, args.sr, args.net, args.live)

Smooth == Calm => ~raised /\ Powers /\ Snapped /\ Moves

IInv == Pool /\ Test /\ Where /\ Handlers /\ Kept /\ Held /\ Addressed /\ Right /\ Smooth

-----------------------------------------------------------------------------
(* The first statement of each rest of a method, its length, and what      *)
(* follows it: no two have the same statement and length.                  *)

First(x) == Head(x)
Left(x)  == Len(x)
After(x) == Tail(x)
Step(x, s, n, y) == x # <<>> /\ First(x) = s /\ Left(x) = n /\ After(x) = y

Statement ==
    {"running", "ip?", "agent?", "ssh?", "vm-start", "vm-shutdown", "vm-shutdown-force", "halted",
     "vm-reboot", "vm-suspend", "suspended", "vm-resume", "vm-pause", "paused", "vm-unpause",
     "vbd-create", "plug?", "vbd-plug", "append", "in-vdis?", "unplug?", "vbd-unplug", "vbd-destroy",
     "remove", "vdi-destroy", "vm-snapshot", "vm-checkpoint", "create_vdis_list", "snapshot-revert",
     "snapshot-uninstall", "snapshot-gone?", "finally", "no-file?", "touch", "moved", "vm-migrate",
     "live?", "same-sr?", "gone?", "vm-destroy", "vm-disk-list", "halted-now?"}

LEMMA One ==
  ASSUME NEW S, NEW s \in S PROVE <<s>> \in Seq(S) /\ Step(<<s>>, s, 1, <<>>)
  BY DEF Step, First, Left, After

LEMMA Cons ==
  ASSUME NEW S, NEW s \in S, NEW r \in Seq(S),
         NEW a, NEW m, NEW y, Step(r, a, m, y), NEW n, m + 1 = n
  PROVE  <<s>> \o r \in Seq(S) /\ Step(<<s>> \o r, s, n, r)
<1> DEFINE t == <<s>> \o r
<1>1. <<s>> \in Seq(S) /\ Len(<<s>>) = 1 /\ <<s>>[1] = s /\ Len(r) \in Nat
  OBVIOUS
<1>2. /\ t \in Seq(S) /\ Len(t) = Len(r) + 1
      /\ \A i \in 1..Len(r) + 1 : t[i] = IF i <= 1 THEN s ELSE r[i - 1]
  <2>1. /\ t \in Seq(S) /\ Len(t) = 1 + Len(r)
        /\ \A i \in 1..1 + Len(r) : t[i] = IF i <= 1 THEN <<s>>[i] ELSE r[i - 1]
    BY <1>1, ConcatProperties
  <2> QED
    BY <1>1, <2>1
<1> HIDE DEF t
<1>3. t # <<>> /\ t[1] = s
  BY <1>1, <1>2
<1>4. /\ Tail(t) \in Seq(S) /\ Len(Tail(t)) = Len(r)
      /\ \A i \in 1..Len(Tail(t)) : Tail(t)[i] = t[i + 1]
  BY <1>1, <1>2, <1>3, HeadTailProperties
<1>5. \A i \in 1..Len(r) : Tail(t)[i] = r[i]
  BY <1>1, <1>2, <1>4
<1>6. Tail(t) = r
  BY <1>1, <1>4, <1>5, SeqEqual
<1>7. Head(t) = s
  BY <1>2, <1>3
<1>8. Len(t) = n
  BY <1>2 DEF Step, First, Left, After
<1> QED
  BY <1>2, <1>3, <1>6, <1>7, <1>8 DEF t, Step, First, Left, After

Filled(v, n, e) == [i \in 1..n |-> v] \o e

LEMMA Repeated ==
  ASSUME NEW S, NEW v \in S, NEW e \in Seq(S), NEW n \in Nat
  PROVE  /\ Filled(v, n, e) \in Seq(S) /\ Len(Filled(v, n, e)) = n + Len(e)
         /\ Filled(v, n + 1, e) = <<v>> \o Filled(v, n, e)
<1> DEFINE d == [i \in 1..n |-> v]
           f == [i \in 1..n + 1 |-> v]
<1>1. d \in Seq(S) /\ Len(d) = n /\ f \in Seq(S) /\ Len(f) = n + 1
  BY IsASeq
<1>2. <<v>> \in Seq(S) /\ Len(<<v>>) = 1 /\ <<v>>[1] = v
  OBVIOUS
<1>3. <<v>> \o d \in Seq(S) /\ Len(<<v>> \o d) = n + 1
  BY <1>1, <1>2, ConcatProperties
<1>4. \A i \in 1..n + 1 : (<<v>> \o d)[i] = v
  <2>1. \A i \in 1..1 + n : (<<v>> \o d)[i] = IF i <= 1 THEN <<v>>[i] ELSE d[i - 1]
    BY <1>1, <1>2, ConcatProperties
  <2> QED
    BY <1>2, <2>1
<1>5. \A i \in 1..n + 1 : f[i] = v
  OBVIOUS
<1> HIDE DEF d, f
<1>6. f = <<v>> \o d
  BY <1>1, <1>3, <1>4, <1>5, SeqEqual
<1>7. (<<v>> \o d) \o e = <<v>> \o (d \o e)
  BY <1>1, <1>2, ConcatAssociative
<1>8. d \o e \in Seq(S) /\ Len(d \o e) = n + Len(e)
  BY <1>1, ConcatProperties
<1> QED
  BY <1>6, <1>7, <1>8 DEF d, f, Filled

LEMMA Drops0 == Drops(0) \in Seq(Statement) /\ Step(Drops(0), "vm-destroy", 2, Gone1)
<1>1. Gone1 \in Seq(Statement) /\ Step(Gone1, "gone?", 1, <<>>)
  BY One, Zenon DEF Gone1, Statement
<1>2. [i \in 1..0 |-> "vdi-destroy"] = <<>>
  OBVIOUS
<1>3. <<"vm-destroy">> \o Gone1 \in Seq(Statement) /\ Step(<<"vm-destroy">> \o Gone1, "vm-destroy", 2, Gone1)
  <2>1. "vm-destroy" \in Statement
    BY DEF Statement
  <2>2. 1 + 1 = 2
    OBVIOUS
  <2> QED
    BY <1>1, <2>1, <2>2, Cons, Zenon
<1>4. <<"vm-destroy", "gone?">> = <<"vm-destroy">> \o Gone1
  BY DEF Gone1
<1>5. Drops(0) = <<"vm-destroy">> \o Gone1
  BY <1>2, <1>3, <1>4, ConcatEmptySeq, Zenon DEF Drops
<1> QED
  BY <1>3, <1>5

LEMMA DropsNext ==
  ASSUME NEW n \in Nat
  PROVE  Drops(n) \in Seq(Statement) /\ Step(Drops(n + 1), "vdi-destroy", n + 3, Drops(n))
<1> DEFINE e == <<"vm-destroy", "gone?">>
<1>1. "vdi-destroy" \in Statement /\ n + 1 \in Nat /\ n + 2 + 1 = n + 3
  BY DEF Statement
<1>2. e \in Seq(Statement) /\ Len(e) = 2
  <2>1. \A S : \A v, w \in S : <<v, w>> \in Seq(S) /\ Len(<<v, w>>) = 2
    OBVIOUS
  <2> QED
    BY <2>1, Zenon DEF Statement
<1>3. Drops(n) = Filled("vdi-destroy", n, e) /\ Drops(n + 1) = Filled("vdi-destroy", n + 1, e)
  BY Zenon DEF Drops, Filled
<1> HIDE DEF e
<1>4. /\ Drops(n) \in Seq(Statement) /\ Len(Drops(n)) = n + Len(e)
      /\ Drops(n + 1) = <<"vdi-destroy">> \o Drops(n)
  <2>1. e \in Seq(Statement) /\ "vdi-destroy" \in Statement
    BY <1>1, <1>2
  <2>2. /\ Filled("vdi-destroy", n, e) \in Seq(Statement)
        /\ Len(Filled("vdi-destroy", n, e)) = n + Len(e)
        /\ Filled("vdi-destroy", n + 1, e) = <<"vdi-destroy">> \o Filled("vdi-destroy", n, e)
    BY <2>1, Repeated, Zenon
  <2> QED
    BY <1>3, <2>2, Zenon
<1>5. Len(Drops(n)) = n + 2 /\ Drops(n) # <<>>
  <2>1. Len(Drops(n)) = n + 2
    BY <1>2, <1>4, Zenon
  <2> QED
    BY <2>1, <1>4
<1>6. Step(Drops(n), Head(Drops(n)), n + 2, Tail(Drops(n)))
  BY <1>5 DEF Step, First, Left, After
<1> QED
  BY <1>1, <1>4, <1>6, Cons, Zenon

LEMMA Booting ==
    /\ {Boot1, Boot2, Boot3, Boot4, Boot5} \subseteq Seq(Statement)
    /\ Step(Boot1, "ssh?", 1, <<>>) /\ Step(Boot2, "agent?", 2, Boot1)
    /\ Step(Boot3, "ip?", 3, Boot2) /\ Step(Boot4, "running", 4, Boot3)
    /\ Step(Boot5, "vm-start", 5, Boot4)
<1>1. /\ "ssh?" \in Statement /\ "agent?" \in Statement /\ "ip?" \in Statement
      /\ "running" \in Statement /\ "vm-start" \in Statement
  BY DEF Statement
<1>2. /\ 1 + 1 = 2 /\ 2 + 1 = 3 /\ 3 + 1 = 4 /\ 4 + 1 = 5
  OBVIOUS
<1>3. Boot1 \in Seq(Statement) /\ Step(Boot1, "ssh?", 1, <<>>)
  BY <1>1, One, Zenon DEF Boot1
<1>4. Boot2 \in Seq(Statement) /\ Step(Boot2, "agent?", 2, Boot1)
  BY <1>1, <1>2, <1>3, Cons, Zenon DEF Boot2
<1>5. Boot3 \in Seq(Statement) /\ Step(Boot3, "ip?", 3, Boot2)
  BY <1>1, <1>2, <1>4, Cons, Zenon DEF Boot3
<1>6. Boot4 \in Seq(Statement) /\ Step(Boot4, "running", 4, Boot3)
  BY <1>1, <1>2, <1>5, Cons, Zenon DEF Boot4
<1>7. Boot5 \in Seq(Statement) /\ Step(Boot5, "vm-start", 5, Boot4)
  BY <1>1, <1>2, <1>6, Cons, Zenon DEF Boot5
<1> QED
  BY <1>3, <1>4, <1>5, <1>6, <1>7

LEMMA Switching ==
    /\ {Shut1, Shut2, Force2, Reboot5, Resume5, Suspend6, Suspend7, Unpause5, Pause6, Pause7} \subseteq Seq(Statement)
    /\ Step(Shut1, "halted", 1, <<>>) /\ Step(Shut2, "vm-shutdown", 2, Shut1)
    /\ Step(Force2, "vm-shutdown-force", 2, Shut1) /\ Step(Reboot5, "vm-reboot", 5, Boot4)
    /\ Step(Resume5, "vm-resume", 5, Boot4) /\ Step(Suspend6, "suspended", 6, Resume5)
    /\ Step(Suspend7, "vm-suspend", 7, Suspend6) /\ Step(Unpause5, "vm-unpause", 5, Boot4)
    /\ Step(Pause6, "paused", 6, Unpause5) /\ Step(Pause7, "vm-pause", 7, Pause6)
<1>1. /\ "halted" \in Statement /\ "vm-shutdown" \in Statement
      /\ "vm-shutdown-force" \in Statement /\ "vm-reboot" \in Statement
      /\ "vm-resume" \in Statement /\ "suspended" \in Statement /\ "vm-suspend" \in Statement
      /\ "vm-unpause" \in Statement /\ "paused" \in Statement /\ "vm-pause" \in Statement
  BY DEF Statement
<1>2. /\ 1 + 1 = 2 /\ 4 + 1 = 5 /\ 5 + 1 = 6 /\ 6 + 1 = 7
  OBVIOUS
<1>3. Shut1 \in Seq(Statement) /\ Step(Shut1, "halted", 1, <<>>)
  BY <1>1, One, Zenon DEF Shut1
<1>4. Shut2 \in Seq(Statement) /\ Step(Shut2, "vm-shutdown", 2, Shut1)
  BY <1>1, <1>2, <1>3, Cons, Zenon DEF Shut2
<1>5. Force2 \in Seq(Statement) /\ Step(Force2, "vm-shutdown-force", 2, Shut1)
  BY <1>1, <1>2, <1>3, Cons, Zenon DEF Force2
<1>6. Reboot5 \in Seq(Statement) /\ Step(Reboot5, "vm-reboot", 5, Boot4)
  BY <1>1, <1>2, Booting, Cons, Zenon DEF Reboot5
<1>7. Resume5 \in Seq(Statement) /\ Step(Resume5, "vm-resume", 5, Boot4)
  BY <1>1, <1>2, Booting, Cons, Zenon DEF Resume5
<1>8. Suspend6 \in Seq(Statement) /\ Step(Suspend6, "suspended", 6, Resume5)
  BY <1>1, <1>2, <1>7, Cons, Zenon DEF Suspend6
<1>9. Suspend7 \in Seq(Statement) /\ Step(Suspend7, "vm-suspend", 7, Suspend6)
  BY <1>1, <1>2, <1>8, Cons, Zenon DEF Suspend7
<1>10. Unpause5 \in Seq(Statement) /\ Step(Unpause5, "vm-unpause", 5, Boot4)
  BY <1>1, <1>2, Booting, Cons, Zenon DEF Unpause5
<1>11. Pause6 \in Seq(Statement) /\ Step(Pause6, "paused", 6, Unpause5)
  BY <1>1, <1>2, <1>10, Cons, Zenon DEF Pause6
<1>12. Pause7 \in Seq(Statement) /\ Step(Pause7, "vm-pause", 7, Pause6)
  BY <1>1, <1>2, <1>11, Cons, Zenon DEF Pause7
<1> QED
  BY <1>3, <1>4, <1>5, <1>6, <1>7, <1>8, <1>9, <1>10, <1>11, <1>12

LEMMA Plugging ==
    /\ {Connect1, Connect2, Connect3, Plug2, Undo1, Disconnect1, Disconnect2, Disconnect3, Disconnect4, Unplug3, Vdi1} \subseteq Seq(Statement)
    /\ Step(Connect1, "append", 1, <<>>) /\ Step(Connect2, "plug?", 2, Connect1)
    /\ Step(Connect3, "vbd-create", 3, Connect2) /\ Step(Plug2, "vbd-plug", 2, Connect1)
    /\ Step(Undo1, "vbd-destroy", 1, <<>>) /\ Step(Disconnect1, "remove", 1, <<>>)
    /\ Step(Disconnect2, "vbd-destroy", 2, Disconnect1)
    /\ Step(Disconnect3, "unplug?", 3, Disconnect2) /\ Step(Disconnect4, "in-vdis?", 4, Disconnect3)
    /\ Step(Unplug3, "vbd-unplug", 3, Disconnect2) /\ Step(Vdi1, "vdi-destroy", 1, <<>>)
<1>1. /\ "append" \in Statement /\ "plug?" \in Statement /\ "vbd-create" \in Statement
      /\ "vbd-plug" \in Statement /\ "vbd-destroy" \in Statement /\ "remove" \in Statement
      /\ "unplug?" \in Statement /\ "in-vdis?" \in Statement /\ "vbd-unplug" \in Statement
      /\ "vdi-destroy" \in Statement
  BY DEF Statement
<1>2. /\ 1 + 1 = 2 /\ 2 + 1 = 3 /\ 3 + 1 = 4
  OBVIOUS
<1>3. Connect1 \in Seq(Statement) /\ Step(Connect1, "append", 1, <<>>)
  BY <1>1, One, Zenon DEF Connect1
<1>4. Connect2 \in Seq(Statement) /\ Step(Connect2, "plug?", 2, Connect1)
  BY <1>1, <1>2, <1>3, Cons, Zenon DEF Connect2
<1>5. Connect3 \in Seq(Statement) /\ Step(Connect3, "vbd-create", 3, Connect2)
  BY <1>1, <1>2, <1>4, Cons, Zenon DEF Connect3
<1>6. Plug2 \in Seq(Statement) /\ Step(Plug2, "vbd-plug", 2, Connect1)
  BY <1>1, <1>2, <1>3, Cons, Zenon DEF Plug2
<1>7. Undo1 \in Seq(Statement) /\ Step(Undo1, "vbd-destroy", 1, <<>>)
  BY <1>1, One, Zenon DEF Undo1
<1>8. Disconnect1 \in Seq(Statement) /\ Step(Disconnect1, "remove", 1, <<>>)
  BY <1>1, One, Zenon DEF Disconnect1
<1>9. Disconnect2 \in Seq(Statement) /\ Step(Disconnect2, "vbd-destroy", 2, Disconnect1)
  BY <1>1, <1>2, <1>8, Cons, Zenon DEF Disconnect2
<1>10. Disconnect3 \in Seq(Statement) /\ Step(Disconnect3, "unplug?", 3, Disconnect2)
  BY <1>1, <1>2, <1>9, Cons, Zenon DEF Disconnect3
<1>11. Disconnect4 \in Seq(Statement) /\ Step(Disconnect4, "in-vdis?", 4, Disconnect3)
  BY <1>1, <1>2, <1>10, Cons, Zenon DEF Disconnect4
<1>12. Unplug3 \in Seq(Statement) /\ Step(Unplug3, "vbd-unplug", 3, Disconnect2)
  BY <1>1, <1>2, <1>9, Cons, Zenon DEF Unplug3
<1>13. Vdi1 \in Seq(Statement) /\ Step(Vdi1, "vdi-destroy", 1, <<>>)
  BY <1>1, One, Zenon DEF Vdi1
<1> QED
  BY <1>3, <1>4, <1>5, <1>6, <1>7, <1>8, <1>9, <1>10, <1>11, <1>12, <1>13

LEMMA Snapshotting ==
    /\ {Snapshot1, Checkpoint1, List1, Revert2, List6, Revert7, Drop1, Drop2} \subseteq Seq(Statement)
    /\ Step(Snapshot1, "vm-snapshot", 1, <<>>) /\ Step(Checkpoint1, "vm-checkpoint", 1, <<>>)
    /\ Step(List1, "create_vdis_list", 1, <<>>) /\ Step(Revert2, "snapshot-revert", 2, List1)
    /\ Step(List6, "create_vdis_list", 6, Resume5) /\ Step(Revert7, "snapshot-revert", 7, List6)
    /\ Step(Drop1, "snapshot-gone?", 1, <<>>) /\ Step(Drop2, "snapshot-uninstall", 2, Drop1)
<1>1. /\ "vm-snapshot" \in Statement /\ "vm-checkpoint" \in Statement
      /\ "create_vdis_list" \in Statement /\ "snapshot-revert" \in Statement
      /\ "snapshot-gone?" \in Statement /\ "snapshot-uninstall" \in Statement
  BY DEF Statement
<1>2. /\ 1 + 1 = 2 /\ 5 + 1 = 6 /\ 6 + 1 = 7
  OBVIOUS
<1>3. Snapshot1 \in Seq(Statement) /\ Step(Snapshot1, "vm-snapshot", 1, <<>>)
  BY <1>1, One, Zenon DEF Snapshot1
<1>4. Checkpoint1 \in Seq(Statement) /\ Step(Checkpoint1, "vm-checkpoint", 1, <<>>)
  BY <1>1, One, Zenon DEF Checkpoint1
<1>5. List1 \in Seq(Statement) /\ Step(List1, "create_vdis_list", 1, <<>>)
  BY <1>1, One, Zenon DEF List1
<1>6. Revert2 \in Seq(Statement) /\ Step(Revert2, "snapshot-revert", 2, List1)
  BY <1>1, <1>2, <1>5, Cons, Zenon DEF Revert2
<1>7. List6 \in Seq(Statement) /\ Step(List6, "create_vdis_list", 6, Resume5)
  BY <1>1, <1>2, Switching, Cons, Zenon DEF List6
<1>8. Revert7 \in Seq(Statement) /\ Step(Revert7, "snapshot-revert", 7, List6)
  BY <1>1, <1>2, <1>7, Cons, Zenon DEF Revert7
<1>9. Drop1 \in Seq(Statement) /\ Step(Drop1, "snapshot-gone?", 1, <<>>)
  BY <1>1, One, Zenon DEF Drop1
<1>10. Drop2 \in Seq(Statement) /\ Step(Drop2, "snapshot-uninstall", 2, Drop1)
  BY <1>1, <1>2, <1>9, Cons, Zenon DEF Drop2
<1> QED
  BY <1>3, <1>4, <1>5, <1>6, <1>7, <1>8, <1>9, <1>10

LEMMA FragmentEnds ==
    /\ {Fragment3, Fragment4, Fragment5, Fragment6, Fragment7, Fragment8, Fragment9, Fragment10} \subseteq Seq(Statement)
    /\ Step(Fragment3, "finally", 3, Drop2) /\ Step(Fragment4, "no-file?", 4, Fragment3)
    /\ Step(Fragment5, "ssh?", 5, Fragment4) /\ Step(Fragment6, "agent?", 6, Fragment5)
    /\ Step(Fragment7, "ip?", 7, Fragment6) /\ Step(Fragment8, "running", 8, Fragment7)
    /\ Step(Fragment9, "vm-start", 9, Fragment8)
    /\ Step(Fragment10, "create_vdis_list", 10, Fragment9)
<1>1. /\ "finally" \in Statement /\ "no-file?" \in Statement /\ "ssh?" \in Statement
      /\ "agent?" \in Statement /\ "ip?" \in Statement /\ "running" \in Statement
      /\ "vm-start" \in Statement /\ "create_vdis_list" \in Statement
  BY DEF Statement
<1>2. /\ 2 + 1 = 3 /\ 3 + 1 = 4 /\ 4 + 1 = 5 /\ 5 + 1 = 6 /\ 6 + 1 = 7 /\ 7 + 1 = 8 /\ 8 + 1 = 9
      /\ 9 + 1 = 10
  OBVIOUS
<1>3. Fragment3 \in Seq(Statement) /\ Step(Fragment3, "finally", 3, Drop2)
  BY <1>1, <1>2, Snapshotting, Cons, Zenon DEF Fragment3
<1>4. Fragment4 \in Seq(Statement) /\ Step(Fragment4, "no-file?", 4, Fragment3)
  BY <1>1, <1>2, <1>3, Cons, Zenon DEF Fragment4
<1>5. Fragment5 \in Seq(Statement) /\ Step(Fragment5, "ssh?", 5, Fragment4)
  BY <1>1, <1>2, <1>4, Cons, Zenon DEF Fragment5
<1>6. Fragment6 \in Seq(Statement) /\ Step(Fragment6, "agent?", 6, Fragment5)
  BY <1>1, <1>2, <1>5, Cons, Zenon DEF Fragment6
<1>7. Fragment7 \in Seq(Statement) /\ Step(Fragment7, "ip?", 7, Fragment6)
  BY <1>1, <1>2, <1>6, Cons, Zenon DEF Fragment7
<1>8. Fragment8 \in Seq(Statement) /\ Step(Fragment8, "running", 8, Fragment7)
  BY <1>1, <1>2, <1>7, Cons, Zenon DEF Fragment8
<1>9. Fragment9 \in Seq(Statement) /\ Step(Fragment9, "vm-start", 9, Fragment8)
  BY <1>1, <1>2, <1>8, Cons, Zenon DEF Fragment9
<1>10. Fragment10 \in Seq(Statement) /\ Step(Fragment10, "create_vdis_list", 10, Fragment9)
  BY <1>1, <1>2, <1>9, Cons, Zenon DEF Fragment10
<1> QED
  BY <1>3, <1>4, <1>5, <1>6, <1>7, <1>8, <1>9, <1>10

LEMMA FragmentBegins ==
    /\ {Fragment11, Fragment12, Fragment13, Fragment14, Fragment15, Fragment16, Fragment17} \subseteq Seq(Statement)
    /\ Step(Fragment11, "snapshot-revert", 11, Fragment10)
    /\ Step(Fragment12, "touch", 12, Fragment11) /\ Step(Fragment13, "vm-snapshot", 13, Fragment12)
    /\ Step(Fragment14, "ssh?", 14, Fragment13) /\ Step(Fragment15, "agent?", 15, Fragment14)
    /\ Step(Fragment16, "ip?", 16, Fragment15) /\ Step(Fragment17, "running", 17, Fragment16)
<1>1. /\ "snapshot-revert" \in Statement /\ "touch" \in Statement /\ "vm-snapshot" \in Statement
      /\ "ssh?" \in Statement /\ "agent?" \in Statement /\ "ip?" \in Statement
      /\ "running" \in Statement
  BY DEF Statement
<1>2. /\ 10 + 1 = 11 /\ 11 + 1 = 12 /\ 12 + 1 = 13 /\ 13 + 1 = 14 /\ 14 + 1 = 15 /\ 15 + 1 = 16
      /\ 16 + 1 = 17
  OBVIOUS
<1>3. Fragment11 \in Seq(Statement) /\ Step(Fragment11, "snapshot-revert", 11, Fragment10)
  BY <1>1, <1>2, FragmentEnds, Cons, Zenon DEF Fragment11
<1>4. Fragment12 \in Seq(Statement) /\ Step(Fragment12, "touch", 12, Fragment11)
  BY <1>1, <1>2, <1>3, Cons, Zenon DEF Fragment12
<1>5. Fragment13 \in Seq(Statement) /\ Step(Fragment13, "vm-snapshot", 13, Fragment12)
  BY <1>1, <1>2, <1>4, Cons, Zenon DEF Fragment13
<1>6. Fragment14 \in Seq(Statement) /\ Step(Fragment14, "ssh?", 14, Fragment13)
  BY <1>1, <1>2, <1>5, Cons, Zenon DEF Fragment14
<1>7. Fragment15 \in Seq(Statement) /\ Step(Fragment15, "agent?", 15, Fragment14)
  BY <1>1, <1>2, <1>6, Cons, Zenon DEF Fragment15
<1>8. Fragment16 \in Seq(Statement) /\ Step(Fragment16, "ip?", 16, Fragment15)
  BY <1>1, <1>2, <1>7, Cons, Zenon DEF Fragment16
<1>9. Fragment17 \in Seq(Statement) /\ Step(Fragment17, "running", 17, Fragment16)
  BY <1>1, <1>2, <1>8, Cons, Zenon DEF Fragment17
<1> QED
  BY <1>3, <1>4, <1>5, <1>6, <1>7, <1>8, <1>9

LEMMA Moving ==
    /\ {Migrate2, Migrate3, Migrate4, SameSr4, SameSr5} \subseteq Seq(Statement)
    /\ Step(Migrate2, "moved", 2, List1) /\ Step(Migrate3, "vm-migrate", 3, Migrate2)
    /\ Step(Migrate4, "live?", 4, Migrate3) /\ Step(SameSr4, "same-sr?", 4, Migrate3)
    /\ Step(SameSr5, "live?", 5, SameSr4)
<1>1. /\ "moved" \in Statement /\ "vm-migrate" \in Statement /\ "live?" \in Statement
      /\ "same-sr?" \in Statement
  BY DEF Statement
<1>2. /\ 1 + 1 = 2 /\ 2 + 1 = 3 /\ 3 + 1 = 4 /\ 4 + 1 = 5
  OBVIOUS
<1>3. Migrate2 \in Seq(Statement) /\ Step(Migrate2, "moved", 2, List1)
  BY <1>1, <1>2, Snapshotting, Cons, Zenon DEF Migrate2
<1>4. Migrate3 \in Seq(Statement) /\ Step(Migrate3, "vm-migrate", 3, Migrate2)
  BY <1>1, <1>2, <1>3, Cons, Zenon DEF Migrate3
<1>5. Migrate4 \in Seq(Statement) /\ Step(Migrate4, "live?", 4, Migrate3)
  BY <1>1, <1>2, <1>4, Cons, Zenon DEF Migrate4
<1>6. SameSr4 \in Seq(Statement) /\ Step(SameSr4, "same-sr?", 4, Migrate3)
  BY <1>1, <1>2, <1>4, Cons, Zenon DEF SameSr4
<1>7. SameSr5 \in Seq(Statement) /\ Step(SameSr5, "live?", 5, SameSr4)
  BY <1>1, <1>2, <1>6, Cons, Zenon DEF SameSr5
<1> QED
  BY <1>3, <1>4, <1>5, <1>6, <1>7

LEMMA Destroying ==
    /\ {Gone1, Destroy3, Destroy4, Stop4} \subseteq Seq(Statement)
    /\ Step(Gone1, "gone?", 1, <<>>) /\ Step(Destroy3, "vm-disk-list", 3, Drops(0))
    /\ Step(Destroy4, "halted-now?", 4, Destroy3) /\ Step(Stop4, "vm-shutdown-force", 4, Destroy3)
<1>1. /\ "gone?" \in Statement /\ "vm-disk-list" \in Statement /\ "halted-now?" \in Statement
      /\ "vm-shutdown-force" \in Statement
  BY DEF Statement
<1>2. /\ 2 + 1 = 3 /\ 3 + 1 = 4
  OBVIOUS
<1>3. Gone1 \in Seq(Statement) /\ Step(Gone1, "gone?", 1, <<>>)
  BY <1>1, One, Zenon DEF Gone1
<1>4. Destroy3 \in Seq(Statement) /\ Step(Destroy3, "vm-disk-list", 3, Drops(0))
  BY <1>1, <1>2, Drops0, Cons, Zenon DEF Destroy3
<1>5. Destroy4 \in Seq(Statement) /\ Step(Destroy4, "halted-now?", 4, Destroy3)
  BY <1>1, <1>2, <1>4, Cons, Zenon DEF Destroy4
<1>6. Stop4 \in Seq(Statement) /\ Step(Stop4, "vm-shutdown-force", 4, Destroy3)
  BY <1>1, <1>2, <1>4, Cons, Zenon DEF Stop4
<1> QED
  BY <1>3, <1>4, <1>5, <1>6

Steps ==
    /\ Step(Boot1, "ssh?", 1, <<>>) /\ Step(Boot2, "agent?", 2, Boot1)
    /\ Step(Boot3, "ip?", 3, Boot2) /\ Step(Boot4, "running", 4, Boot3)
    /\ Step(Boot5, "vm-start", 5, Boot4) /\ Step(Shut1, "halted", 1, <<>>)
    /\ Step(Shut2, "vm-shutdown", 2, Shut1) /\ Step(Force2, "vm-shutdown-force", 2, Shut1)
    /\ Step(Reboot5, "vm-reboot", 5, Boot4) /\ Step(Resume5, "vm-resume", 5, Boot4)
    /\ Step(Suspend6, "suspended", 6, Resume5) /\ Step(Suspend7, "vm-suspend", 7, Suspend6)
    /\ Step(Unpause5, "vm-unpause", 5, Boot4) /\ Step(Pause6, "paused", 6, Unpause5)
    /\ Step(Pause7, "vm-pause", 7, Pause6) /\ Step(Connect1, "append", 1, <<>>)
    /\ Step(Connect2, "plug?", 2, Connect1) /\ Step(Connect3, "vbd-create", 3, Connect2)
    /\ Step(Plug2, "vbd-plug", 2, Connect1) /\ Step(Undo1, "vbd-destroy", 1, <<>>)
    /\ Step(Disconnect1, "remove", 1, <<>>) /\ Step(Disconnect2, "vbd-destroy", 2, Disconnect1)
    /\ Step(Disconnect3, "unplug?", 3, Disconnect2) /\ Step(Disconnect4, "in-vdis?", 4, Disconnect3)
    /\ Step(Unplug3, "vbd-unplug", 3, Disconnect2) /\ Step(Vdi1, "vdi-destroy", 1, <<>>)
    /\ Step(Snapshot1, "vm-snapshot", 1, <<>>) /\ Step(Checkpoint1, "vm-checkpoint", 1, <<>>)
    /\ Step(List1, "create_vdis_list", 1, <<>>) /\ Step(Revert2, "snapshot-revert", 2, List1)
    /\ Step(List6, "create_vdis_list", 6, Resume5) /\ Step(Revert7, "snapshot-revert", 7, List6)
    /\ Step(Drop1, "snapshot-gone?", 1, <<>>) /\ Step(Drop2, "snapshot-uninstall", 2, Drop1)
    /\ Step(Fragment3, "finally", 3, Drop2) /\ Step(Fragment4, "no-file?", 4, Fragment3)
    /\ Step(Fragment5, "ssh?", 5, Fragment4) /\ Step(Fragment6, "agent?", 6, Fragment5)
    /\ Step(Fragment7, "ip?", 7, Fragment6) /\ Step(Fragment8, "running", 8, Fragment7)
    /\ Step(Fragment9, "vm-start", 9, Fragment8)
    /\ Step(Fragment10, "create_vdis_list", 10, Fragment9)
    /\ Step(Fragment11, "snapshot-revert", 11, Fragment10)
    /\ Step(Fragment12, "touch", 12, Fragment11) /\ Step(Fragment13, "vm-snapshot", 13, Fragment12)
    /\ Step(Fragment14, "ssh?", 14, Fragment13) /\ Step(Fragment15, "agent?", 15, Fragment14)
    /\ Step(Fragment16, "ip?", 16, Fragment15) /\ Step(Fragment17, "running", 17, Fragment16)
    /\ Step(Migrate2, "moved", 2, List1) /\ Step(Migrate3, "vm-migrate", 3, Migrate2)
    /\ Step(Migrate4, "live?", 4, Migrate3) /\ Step(SameSr4, "same-sr?", 4, Migrate3)
    /\ Step(SameSr5, "live?", 5, SameSr4) /\ Step(Gone1, "gone?", 1, <<>>)
    /\ Step(Destroy3, "vm-disk-list", 3, Drops(0)) /\ Step(Destroy4, "halted-now?", 4, Destroy3)
    /\ Step(Stop4, "vm-shutdown-force", 4, Destroy3)

LEMMA Table == Steps
  BY Booting, Switching, Plugging, Snapshotting, FragmentEnds, FragmentBegins, Moving, Destroying
     DEF Steps

-----------------------------------------------------------------------------
(* Where a statement is.                                                   *)

Ending == {Undo1, Destroy4, Stop4, Destroy3, Gone1}

Places(x) ==
    /\ First(x) = "ssh?" => x \in {Boot1, Fragment5, Fragment14}
    /\ First(x) = "agent?" => x \in {Boot2, Fragment6, Fragment15}
    /\ First(x) = "ip?" => x \in {Boot3, Fragment7, Fragment16}
    /\ First(x) = "running" => x \in {Boot4, Fragment8, Fragment17}
    /\ First(x) = "vm-start" => x \in {Boot5, Fragment9}
    /\ First(x) = "halted" => x \in {Shut1}
    /\ First(x) = "vm-shutdown" => x \in {Shut2}
    /\ First(x) = "vm-shutdown-force" => x \in {Force2, Stop4}
    /\ First(x) = "vm-reboot" => x \in {Reboot5}
    /\ First(x) = "vm-resume" => x \in {Resume5}
    /\ First(x) = "suspended" => x \in {Suspend6}
    /\ First(x) = "vm-suspend" => x \in {Suspend7}
    /\ First(x) = "vm-unpause" => x \in {Unpause5}
    /\ First(x) = "paused" => x \in {Pause6}
    /\ First(x) = "vm-pause" => x \in {Pause7}
    /\ First(x) = "append" => x \in {Connect1}
    /\ First(x) = "plug?" => x \in {Connect2}
    /\ First(x) = "vbd-create" => x \in {Connect3}
    /\ First(x) = "vbd-plug" => x \in {Plug2}
    /\ First(x) = "vbd-destroy" => x \in {Undo1, Disconnect2}
    /\ First(x) = "remove" => x \in {Disconnect1}
    /\ First(x) = "unplug?" => x \in {Disconnect3}
    /\ First(x) = "in-vdis?" => x \in {Disconnect4}
    /\ First(x) = "vbd-unplug" => x \in {Unplug3}
    /\ First(x) = "vdi-destroy" => x \in {Vdi1}
    /\ First(x) = "vm-snapshot" => x \in {Snapshot1, Fragment13}
    /\ First(x) = "vm-checkpoint" => x \in {Checkpoint1}
    /\ First(x) = "create_vdis_list" => x \in {List1, List6, Fragment10}
    /\ First(x) = "snapshot-revert" => x \in {Revert2, Revert7, Fragment11}
    /\ First(x) = "snapshot-gone?" => x \in {Drop1}
    /\ First(x) = "snapshot-uninstall" => x \in {Drop2}
    /\ First(x) = "finally" => x \in {Fragment3}
    /\ First(x) = "no-file?" => x \in {Fragment4}
    /\ First(x) = "touch" => x \in {Fragment12}
    /\ First(x) = "moved" => x \in {Migrate2}
    /\ First(x) = "vm-migrate" => x \in {Migrate3}
    /\ First(x) = "live?" => x \in {Migrate4, SameSr5}
    /\ First(x) = "same-sr?" => x \in {SameSr4}
    /\ First(x) = "gone?" => x \in {Gone1}
    /\ First(x) = "vm-disk-list" => x \in {Destroy3}
    /\ First(x) = "halted-now?" => x \in {Destroy4}
    /\ First(x) # "vm-destroy"

LEMMA Placed == ASSUME NEW x \in Testing \cup Ending, x # <<>> PROVE Places(x)
  BY Table DEF Testing, Powering, Attaching, Reverting, Dropping, Migrating, Before, Taking, Ending,
     Places, Steps, Step

-----------------------------------------------------------------------------
(* Sets of disks.                                                          *)

LEMMA DisksFinite ==
  ASSUME NEW s \in SUBSET Disk PROVE IsFiniteSet(s) /\ Cardinality(s) \in Nat
<1>1. IsFiniteSet(1..MaxDisk)
  BY VmLifeAssumption, FS_Interval
<1> QED
  BY <1>1, FS_Subset, FS_CardinalityType DEF Disk

LEMMA DropsAre ==
  ASSUME NEW n \in Nat
  PROVE  /\ Drops(n) # <<>> /\ Left(Drops(n)) = n + 2
         /\ n = 0 => Step(Drops(n), "vm-destroy", 2, Gone1)
         /\ n > 0 => Step(Drops(n), "vdi-destroy", n + 2, Drops(n - 1))
<1>1. CASE n = 0
  BY <1>1, Drops0 DEF Step
<1>2. CASE n > 0
  <2>1. n - 1 \in Nat /\ (n - 1) + 1 = n /\ (n - 1) + 3 = n + 2
    BY <1>2
  <2>2. Step(Drops(n), "vdi-destroy", n + 2, Drops(n - 1))
    BY <2>1, DropsNext, Zenon
  <2> QED
    BY <1>2, <2>2 DEF Step
<1> QED
  BY <1>1, <1>2

-----------------------------------------------------------------------------
(* How a method goes on.                                                   *)

\* Nothing but the statement under way has moved on.
GoesOn == /\ todo' = Tail(todo) /\ UNCHANGED <<raised, phase>>
          /\ handler' = IF Tail(todo) = <<>> THEN NoHandler ELSE handler

\* The statements that end in a place of their own.
Turning == {"plug?", "unplug?", "finally", "vm-snapshot", "vm-checkpoint", "vdi-destroy",
            "vm-disk-list", "halted-now?"}

LEMMA Nexts ==
  ASSUME NEW x \in Testing, x # <<>>
  PROVE  /\ After(x) \in Testing \ {Vdi1} /\ (x \in Dropping => After(x) \in {<<>>, Drop1})
         /\ x \in Taking \ {Fragment3} => After(x) \in Taking
         /\ After(x) \in Taking => x \in Taking \cup {Fragment13}
         /\ x = Plug2 => After(x) = Connect1
         /\ x = Connect1 => After(x) = <<>>
         /\ x = Shut2 => After(x) = Shut1
         /\ x = Shut1 => After(x) = <<>>
<1> USE Table DEF Testing, Powering, Attaching, Reverting, Dropping, Migrating, Before, Taking, Steps, Step
<1>1. After(x) \in Testing
  OBVIOUS
<1>2. After(x) # Vdi1
  OBVIOUS
<1>3. x \in Dropping => After(x) \in {<<>>, Drop1}
  OBVIOUS
<1>4. x \in Taking \ {Fragment3} => After(x) \in Taking
  OBVIOUS
<1>5. After(x) \in Taking => x \in Taking \cup {Fragment13}
  OBVIOUS
<1>6. /\ x = Plug2 => After(x) = Connect1
      /\ x = Connect1 => After(x) = <<>>
      /\ x = Shut2 => After(x) = Shut1
      /\ x = Shut1 => After(x) = <<>>
  OBVIOUS
<1> QED
  BY <1>1, <1>2, <1>3, <1>4, <1>5, <1>6

LEMMA Apart ==
    /\ <<>> \notin Powering \cup Attaching \cup Reverting \cup Dropping \cup Migrating \cup Before
                    \cup Taking \cup Ending
    /\ Testing \cap Ending = {}
    /\ Drop1 \notin Taking /\ Drop2 \notin Taking
    /\ After(Drop2) = Drop1 /\ After(Drop1) = <<>> /\ After(Undo1) = <<>> /\ After(Gone1) = <<>>
    /\ After(Destroy4) = Destroy3 /\ After(Stop4) = Destroy3
<1> USE Table DEF Testing, Powering, Attaching, Reverting, Dropping, Migrating, Before, Taking, Ending, Steps, Step
<1>1. <<>> \notin Powering \cup Attaching \cup Reverting \cup Dropping \cup Migrating \cup Before
                    \cup Taking \cup Ending
  OBVIOUS
<1>2. Testing \cap Ending = {}
  OBVIOUS
<1>3. /\ Drop1 \notin Taking /\ Drop2 \notin Taking
    /\ After(Drop2) = Drop1 /\ After(Drop1) = <<>> /\ After(Undo1) = <<>> /\ After(Gone1) = <<>>
    /\ After(Destroy4) = Destroy3 /\ After(Stop4) = Destroy3
  OBVIOUS
<1> QED
  BY <1>1, <1>2, <1>3

LEMMA DropsApart ==
  ASSUME NEW n \in Nat PROVE Drops(n) \notin Testing \cup Ending
<1>1. Drops(n) # <<>> /\ Left(Drops(n)) = n + 2 /\ First(Drops(n)) \in {"vm-destroy", "vdi-destroy"}
  BY DropsAre DEF Step
<1>2. Left(Vdi1) = 1 /\ Left(Drops(n)) # 1
  BY <1>1, Table DEF Steps, Step
<1> QED
  BY <1>1, <1>2, Placed DEF Places

LEMMA Position ==
  ASSUME Pool, Where, todo # <<>>, First(todo) \notin {"vm-destroy", "vdi-destroy"}
  PROVE  todo \in Testing \cup Ending /\ Places(todo)
<1>1. todo \in Testing \cup Ending
  <2>1. CASE phase = "teardown" /\ todo = Drops(Cardinality(args.left)) /\ args.left \subseteq vbd
    <3>1. Cardinality(args.left) \in Nat
      BY <2>1, DisksFinite DEF Pool, Disks
    <3> QED
      BY <2>1, <3>1, DropsAre DEF Step
  <2> QED
    BY <2>1 DEF Where, Testing, Ending, Idle
<1> QED
  BY <1>1, Placed

LEMMA InTest ==
  ASSUME Pool, Where, todo \in Testing, todo # <<>>
  PROVE  /\ phase \in {"test", "defers"} /\ (todo \notin Dropping => phase = "test" /\ ~raised)
         /\ power # "gone"
<1>1. phase # "teardown"
  <2> SUFFICES ASSUME phase = "teardown" PROVE FALSE
    OBVIOUS
  <2>1. todo = Drops(Cardinality(args.left)) /\ args.left \subseteq vbd
    BY Apart DEF Where, Ending
  <2>2. Cardinality(args.left) \in Nat
    BY <2>1, DisksFinite DEF Pool, Disks
  <2> QED
    BY <2>1, <2>2, DropsApart
<1> QED
  BY <1>1, Apart DEF Where, Ending, Idle

LEMMA HandlersApart ==
    /\ NoHandler \notin {Undoing, Forcing, Finally2} /\ Undoing \notin {Forcing, Finally2}
    /\ Forcing # Finally2
    /\ NoHandler.steps = <<>> /\ ~NoHandler.swallow /\ Undoing.steps = Undo1 /\ ~Undoing.swallow
    /\ Forcing.steps = Force2 /\ Forcing.swallow /\ Finally2.steps = Drop2 /\ ~Finally2.swallow
<1>1. <<>> \notin {Undo1, Force2, Drop2} /\ Undo1 \notin {Force2, Drop2} /\ Force2 # Drop2
  BY Table DEF Steps, Step
<1> QED
  BY <1>1 DEF NoHandler, Undoing, Forcing, Finally2

LEMMA NotGone ==
  ASSUME Pool, Where, todo # <<>>, todo # Gone1 PROVE power # "gone"
  BY DEF Where

LEMMA Onwards ==
  ASSUME Pool, Where, Handlers, todo # <<>>, GoesOn,
         First(todo) \notin {"finally", "vm-snapshot", "vdi-destroy", "vm-disk-list"},
         power' = "gone" => power = "gone" \/ First(todo) = "vm-destroy"
  PROVE  Where' /\ Handlers'
<1>1. todo' = After(todo)
  BY DEF GoesOn, After
<1>2. CASE First(todo) = "vm-destroy"
  <2>1. todo \notin Testing \cup Ending
    BY <1>2, Placed DEF Places
  <2>2. phase = "teardown" /\ todo = Drops(Cardinality(args.left)) /\ args.left \subseteq vbd
    BY <2>1 DEF Where, Testing, Ending, Idle
  <2>3. Cardinality(args.left) \in Nat
    BY <2>2, DisksFinite DEF Pool, Disks
  <2>4. todo' = Gone1
    BY <1>1, <1>2, <2>2, <2>3, DropsAre DEF Step
  <2>5. handler = NoHandler /\ handler' = handler
    BY <2>1, <2>4, <1>1, Apart DEF GoesOn, Handlers, Testing, Ending, After, Powering, Attaching, Taking
  <2> QED
    BY <2>2, <2>4, <2>5, Apart, HandlersApart DEF GoesOn, Where, Handlers, Testing, Ending, Attaching
<1>3. CASE First(todo) # "vm-destroy"
  <2>1. todo \in Testing \cup Ending /\ Places(todo)
    BY <1>3, Position
  <2>2. CASE todo \in Ending
    <3>1. todo' \in {<<>>, Destroy3} /\ (todo \in {Undo1, Gone1} => todo' = <<>>)
      BY <1>1, <2>2, Apart, Table DEF Ending, Steps, Step
    <3>2. Where'
      BY <1>3, <2>2, <3>1, Apart DEF Where, Ending, GoesOn, Testing, Attaching, Idle
    <3>3. Handlers'
      BY <2>2, <3>1, Apart, HandlersApart DEF Handlers, GoesOn, Testing, Ending, Powering, Attaching, After
    <3> QED
      BY <3>2, <3>3
  <2>3. CASE todo \in Testing
    <3>1. /\ todo' \in Testing \ {Vdi1} /\ (todo \in Dropping => todo' \in {<<>>, Drop1})
          /\ todo \in Taking <=> todo' \in Taking
      BY <1>1, <2>1, <2>3, Nexts, Table DEF Places, Steps, Step
    <3>2. Where'
      BY <1>3, <2>3, <3>1, Apart, InTest DEF Where, GoesOn, Testing, Dropping
    <3>3. Handlers'
      BY <1>1, <2>3, <3>1, Nexts, Apart, HandlersApart DEF Handlers, GoesOn, After
    <3> QED
      BY <3>2, <3>3
  <2> QED
    BY <2>1, <2>2, <2>3
<1> QED
  BY <1>2, <1>3
\* Where an exception leads.
LEMMA RaiseLeads ==
  ASSUME Pool, Test, Where, Handlers, todo # <<>>, Raise, phase' = phase,
         power' = "gone" => phase = "teardown"
  PROVE  /\ Where' /\ Handlers' /\ handler' = NoHandler /\ phase # "end"
         /\ \/ handler = NoHandler /\ todo' = <<>> /\ raised'
            \/ handler = Undoing /\ todo' = Undo1 /\ raised'
            \/ handler = Finally2 /\ todo' = Drop2 /\ raised' /\ todo \in Taking
            \/ handler = Forcing /\ todo' = Force2 /\ raised' = raised /\ todo \in {Shut2, Shut1}
         /\ handler # NoHandler => phase = "test" /\ ~raised
<1>1. handler # NoHandler => phase = "test" /\ ~raised
  <2>1. handler # NoHandler => todo \in Testing \ Dropping
    BY Apart, Table DEF Handlers, Testing, Attaching, Powering, Dropping, Steps, Step
  <2> QED
    BY <2>1, InTest
<1>2. /\ handler' = NoHandler
      /\ \/ handler = NoHandler /\ todo' = <<>> /\ raised'
         \/ handler = Undoing /\ todo' = Undo1 /\ raised'
         \/ handler = Finally2 /\ todo' = Drop2 /\ raised' /\ todo \in Taking
         \/ handler = Forcing /\ todo' = Force2 /\ raised' = raised /\ todo \in {Shut2, Shut1}
  BY HandlersApart DEF Handlers, Raise, Test
<1>3. Handlers'
  BY <1>2, Apart, HandlersApart, Table DEF Handlers, Ending, Taking, Steps, Step
<1>4. phase # "end"
  BY DEF Where, Idle
<1>5. Where'
  <2>1. Force2 \in Testing /\ Drop2 \in Dropping /\ Vdi1 \notin {<<>>, Undo1, Force2, Drop2}
    BY Table DEF Testing, Powering, Dropping, Steps, Step
  <2>2. raised' \in BOOLEAN
    BY DEF Test, Raise
  <2> QED
    BY <1>1, <1>2, <1>4, <2>1, HandlersApart DEF Where, Testing
<1> QED
  BY <1>1, <1>2, <1>3, <1>4, <1>5

LEMMA Excepts ==
  ASSUME IInv, todo # <<>>, Raise, UNCHANGED <<host, phase, moves>>, Pool', Test',
         struck \subseteq struck', power' = "gone" => phase = "teardown",
         handler = Forcing => UNCHANGED <<at, sr, vbd, snap, vdis, args, file>>,
         Calm' => todo = Shut2 /\ handler = Forcing /\ power' = power,
         snap' # NoSnap /\ ~SnapTrouble' => snap' = snap /\ PoolOf[at'] = PoolOf[at] /\ todo # Drop2
  PROVE  IInv'
<1>1. /\ Where' /\ Handlers' /\ handler' = NoHandler /\ phase # "end"
      /\ \/ handler = NoHandler /\ todo' = <<>> /\ raised'
         \/ handler = Undoing /\ todo' = Undo1 /\ raised'
         \/ handler = Finally2 /\ todo' = Drop2 /\ raised' /\ todo \in Taking
         \/ handler = Forcing /\ todo' = Force2 /\ raised' = raised /\ todo \in {Shut2, Shut1}
      /\ handler # NoHandler => phase = "test" /\ ~raised
  BY RaiseLeads DEF IInv
<1>2. todo' \in {<<>>, Undo1, Drop2, Force2}
  BY <1>1
<1>3. Kept'
  <2> SUFFICES ASSUME snap' # NoSnap, ~SnapTrouble'
               PROVE  /\ PoolOf[host'] = PoolOf[at']
                      /\ \/ phase' = "test" /\ (snap'.deferred \/ todo' = Drop2)
                         \/ phase' = "defers" /\ todo' = Drop2
    BY DEF Kept
  <2>1. snap # NoSnap /\ ~SnapTrouble /\ snap' = snap /\ todo # Drop2
    BY DEF SnapTrouble
  <2>2. PoolOf[host'] = PoolOf[at'] /\ phase = "test" /\ (snap.deferred \/ todo \in Taking)
    BY <2>1 DEF IInv, Kept
  <2>3. todo \in Taking => handler = Finally2
    BY DEF IInv, Handlers
  <2> QED
    BY <1>1, <2>1, <2>2, <2>3, HandlersApart
<1>4. Addressed'
  BY <1>2, Table DEF Addressed, Steps, Step
<1>5. Right'
  <2> SUFFICES ASSUME ~raised' PROVE Right'
    BY DEF Right
  <2>1. /\ handler = Forcing /\ todo' = Force2 /\ ~raised /\ todo \in {Shut2, Shut1} /\ phase = "test"
        /\ UNCHANGED <<at, sr, vbd, snap, vdis, args>>
    BY <1>1, HandlersApart
  <2>2. PoolOf[host] = PoolOf[at] /\ Sees(host, vbd) /\ Sees(host, snap.disks) /\ vdis = vbd
    BY <2>1, Table DEF IInv, Right, Steps, Step
  <2> QED
    BY <2>1, <2>2, Table DEF Right, Migrating, Sees, Steps, Step
<1>6. Smooth'
  <2> SUFFICES ASSUME Calm' PROVE ~raised' /\ Powers' /\ Snapped' /\ Moves'
    BY DEF Smooth
  <2>1. /\ handler = Forcing /\ todo = Shut2 /\ power' = power /\ file' = file /\ snap' = snap
        /\ todo' = Force2 /\ ~raised' /\ phase' = "test"
    BY <1>1, HandlersApart
  <2>2. struck = {} /\ moves = 0
    BY DEF Calm
  <2>3. power = "running" /\ ~file /\ ~snap.file
    BY <2>1, <2>2, Table DEF IInv, Smooth, Calm, Powers, Snapped, Steps, Step
  <2>4. Powers'
    BY <2>1, <2>3, Table DEF Powers, Steps, Step
  <2>5. Snapped' /\ Moves'
    BY <2>1, <2>3, Table DEF Snapped, Moves, Taking, Steps, Step
  <2> QED
    BY <2>1, <2>4, <2>5
<1>7. Held'
  BY <1>2, Table DEF Held, Taking, Steps, Step
<1> QED
  BY <1>1, <1>3, <1>4, <1>5, <1>6, <1>7 DEF IInv

LEMMA StruckMore ==
  ASSUME Test, NEW s, Strike(s)
  PROVE  /\ IsFiniteSet(struck') /\ Cardinality(struck') + moves <= MaxTrouble
         /\ struck \subseteq struck' /\ s \in struck'
<1>1. IsFiniteSet(struck) /\ moves \in Nat /\ Cardinality(struck) + moves < MaxTrouble
      /\ struck' = struck \cup {s}
  BY DEF Test, Strike, Quiet
<1>2. Cardinality(struck) \in Nat /\ IsFiniteSet(struck') /\ Cardinality(struck') \in Nat
  BY <1>1, FS_AddElement, FS_CardinalityType
<1>3. Cardinality(struck') <= Cardinality(struck) + 1
  BY <1>1, <1>2, FS_AddElement
<1> QED
  BY <1>1, <1>2, <1>3, VmLifeAssumption

\* A step that raises before it did anything.
LEMMA Refuses ==
  ASSUME IInv, NEW s, Doing(s), Raise, SameArgs, UNCHANGED <<xapi, guest, object, phase, moves>>,
         Strike(s) \/ struck' = struck,
         struck' = struck /\ Calm => todo = Shut2 /\ handler = Forcing,
         struck' = struck /\ todo = Drop2 /\ snap # NoSnap => SnapTrouble
  PROVE  IInv'
<1>1. UNCHANGED <<power, at, sr, vbd, unplugged, snap, boot, addr, file, host, vdis, ip>> /\ todo # <<>>
      /\ First(todo) = s
  BY DEF xapi, guest, object, Doing, First
<1>2. Pool'
  BY <1>1 DEF IInv, Pool, Disks, AddressAt
<1>3. raised' \in BOOLEAN
  BY DEF Raise, IInv, Test
<1>4. /\ IsFiniteSet(struck') /\ Cardinality(struck') + moves <= MaxTrouble /\ struck \subseteq struck'
      /\ s \in struck' \/ struck' = struck
  BY StruckMore DEF IInv, Test
<1>5. Test'
  <2>1. args' \in Args
    BY DEF IInv, Test, SameArgs, Args, NoArgs
  <2> QED
    BY <1>1, <1>3, <1>4, <2>1 DEF IInv, Test
<1>6. power' = "gone" => phase = "teardown"
  BY <1>1 DEF IInv, Where, Idle
<1>7. handler = Forcing => args' = args
  <2>1. handler = Forcing => todo' # <<>>
    BY HandlersApart, Table DEF Raise, Steps, Step
  <2> QED
    BY <2>1 DEF SameArgs
<1>8. Calm' => todo = Shut2 /\ handler = Forcing
  BY <1>4 DEF Calm
<1>9. snap' # NoSnap /\ ~SnapTrouble' => todo # Drop2
  <2> SUFFICES ASSUME snap' # NoSnap, todo = Drop2 PROVE SnapTrouble'
    OBVIOUS
  <2>1. CASE struck' = struck
    BY <1>1, <2>1 DEF SnapTrouble
  <2>2. CASE s \in struck'
    BY <1>1, <2>2, Table DEF SnapTrouble, Steps, Step
  <2> QED
    BY <1>4, <2>1, <2>2
<1> QED
  BY <1>1, <1>2, <1>4, <1>5, <1>6, <1>7, <1>8, <1>9, Excepts

\* A command that raises when it is done.
LEMMA Loses ==
  ASSUME IInv, NEW s, Doing(s), Raise, SameArgs, Strike(s), UNCHANGED <<object, phase, moves>>, Pool',
         power' = "gone" => phase = "teardown",
         handler = Forcing => UNCHANGED <<at, sr, vbd, snap, file>>,
         snap' # NoSnap /\ ~SnapTrouble' => snap' = snap /\ PoolOf[at'] = PoolOf[at] /\ todo # Drop2
  PROVE  IInv'
<1>1. UNCHANGED <<host, vdis, ip>> /\ todo # <<>>
  BY DEF object, Doing
<1>2. raised' \in BOOLEAN
  BY DEF Raise, IInv, Test
<1>3. /\ IsFiniteSet(struck') /\ Cardinality(struck') + moves <= MaxTrouble /\ struck \subseteq struck'
      /\ s \in struck'
  BY StruckMore DEF IInv
<1>4. Test'
  <2>1. args' \in Args
    BY DEF IInv, Test, SameArgs, Args, NoArgs
  <2> QED
    BY <1>1, <1>2, <1>3, <2>1 DEF IInv, Test
<1>5. handler = Forcing => args' = args
  <2>1. handler = Forcing => todo' # <<>>
    BY HandlersApart, Table DEF Raise, Steps, Step
  <2> QED
    BY <2>1 DEF SameArgs
<1>6. ~Calm'
  BY <1>3 DEF Calm
<1> QED
  BY <1>1, <1>3, <1>4, <1>5, <1>6, Excepts

\* The statements that leave alone what the object remembers.
Plain == {"running", "halted", "suspended", "paused", "ip?", "agent?", "ssh?", "vm-start",
          "vm-shutdown", "vm-shutdown-force", "vm-reboot", "vm-suspend", "vm-resume", "vm-pause",
          "vm-unpause", "plug?", "vbd-plug", "in-vdis?", "vbd-unplug", "snapshot-gone?", "touch",
          "no-file?", "gone?", "live?", "same-sr?"}

LEMMA StillRight ==
  ASSUME Right, todo \in Testing \cup Ending, Places(todo), First(todo) \in Plain, todo' = After(todo),
         UNCHANGED <<raised, phase, host, vdis, sr, vbd, snap>>, PoolOf[at'] = PoolOf[at],
         todo \in Testing => phase # "teardown", todo' # <<>> => UNCHANGED <<args.target, args.disk>>
  PROVE  Right'
<1> SUFFICES ASSUME ~raised PROVE Right'
  BY DEF Right
<1>1. /\ todo \in {Disconnect4, Disconnect3, Unplug3, Connect2, Plug2} \cup (Migrating \ {Migrate3, Migrate2})
            => todo' # <<>>
      /\ todo' \notin {Migrate2, Connect3, Connect2, Disconnect1, List1, List6, Fragment10}
      /\ todo' \in Migrating => todo \in Migrating
      /\ todo' \in {Plug2, Connect1} => todo \in {Connect2, Plug2}
      /\ todo' \in {Disconnect4, Disconnect3, Unplug3, Disconnect2}
            => todo \in {Disconnect4, Disconnect3, Unplug3, Disconnect2}
      /\ todo \in {Connect2, Plug2} => todo' = Connect1
      /\ todo \notin {Migrate2, Connect1, Disconnect1, List1, List6, Fragment10}
      /\ todo \in Ending => todo' \in {<<>>, Destroy3}
  BY Table DEF Places, Plain, Testing, Ending, Powering, Attaching, Reverting, Dropping, Migrating, Before,
     Taking, Steps, Step
<1>2. /\ PoolOf[host] = PoolOf[at] /\ Sees(host, vbd) /\ Sees(host, snap.disks)
      /\ todo \in Migrating => snap = NoSnap /\ args.target \in Host
      /\ todo \in {Connect2, Plug2} => args.disk \in vbd /\ vbd = vdis \cup {args.disk}
      /\ todo \in {Disconnect4, Disconnect3, Unplug3, Disconnect2} => args.disk \in vbd
      /\ todo \notin {Connect2, Plug2} => vdis = vbd
  BY <1>1 DEF Right
<1>3. todo' \in Migrating \cup {Plug2, Connect1, Disconnect4, Disconnect3, Unplug3, Disconnect2}
         => todo' # <<>>
  BY Apart DEF Attaching
<1>4. /\ Sees(host, vbd)' /\ Sees(host, snap.disks)'
  BY <1>2 DEF Sees
<1>5. todo' \in Migrating => snap' = NoSnap /\ args'.target \in Host
  BY <1>1, <1>2, <1>3
<1>6. /\ todo' \in {Connect2, Plug2, Connect1} => args'.disk \in vbd' /\ vbd' = vdis' \cup {args'.disk}
      /\ todo' \in {Disconnect4, Disconnect3, Unplug3, Disconnect2} => args'.disk \in vbd'
  BY <1>1, <1>2, <1>3
<1>7. phase' = "teardown" => todo' \in {<<>>, Destroy3}
  BY <1>1
<1> QED
  BY <1>1, <1>2, <1>4, <1>5, <1>6, <1>7 DEF Right

LEMMA StillKept ==
  ASSUME Kept, todo \in Testing \cup Ending, todo # <<>>, todo # Drop2, todo' = After(todo),
         UNCHANGED <<snap, host, phase>>, PoolOf[at'] = PoolOf[at], struck \subseteq struck'
  PROVE  Kept'
<1>1. todo \in Taking => todo' \in Taking \cup {Drop2}
  BY Nexts, Table DEF Testing, Steps, Step
<1> QED
  BY <1>1 DEF Kept, SnapTrouble

LEMMA StillAddressed ==
  ASSUME Addressed, todo \in Testing \cup Ending, Places(todo), todo # <<>>, todo' = After(todo),
         First(todo) # "ip?", First(todo) = "agent?" => UNCHANGED <<boot, addr, ip, moves>>
  PROVE  Addressed'
<1>1. todo' \in {Boot2, Boot1, Fragment15, Fragment14, Fragment6, Fragment5}
         => First(todo) = "agent?"
  BY Drops0, Table DEF Testing, Ending, Powering, Attaching, Reverting, Dropping, Migrating, Before, Taking,
     Steps, Step
<1>2. First(todo) = "agent?" => todo \in {Boot2, Fragment15, Fragment6}
  BY DEF Places
<1> QED
  BY <1>1, <1>2 DEF Addressed

LEMMA SameArgsAre ==
  ASSUME Test, SameArgs
  PROVE  args' \in Args /\ (todo' # <<>> => args' = args)
  BY DEF Test, SameArgs, Args, NoArgs

\* A step that leaves alone what the object remembers.
LEMMA Goes ==
  ASSUME IInv, NEW s \in Plain, Doing(s), GoesOn, UNCHANGED <<host, vdis, struck, moves, sr, vbd, snap>>,
         args' \in Args, todo' # <<>> => UNCHANGED <<args.target, args.disk>>,
         PoolOf[at'] = PoolOf[at], Pool', ip' \in Addr \cup {None}, power' = "gone" => power = "gone",
         s = "agent?" => UNCHANGED <<boot, addr, ip>>, s = "ip?" => Addressed', Smooth'
  PROVE  IInv'
<1>1. todo # <<>> /\ First(todo) = s /\ todo' = After(todo) /\ UNCHANGED <<raised, phase>>
  BY DEF Doing, First, After, GoesOn
<1>2. s \notin {"vm-destroy", "vdi-destroy", "finally", "vm-snapshot", "vm-disk-list", "snapshot-uninstall"}
  BY DEF Plain
<1>3. todo \in Testing \cup Ending /\ Places(todo) /\ todo # Drop2
  BY <1>1, <1>2, Position, Table DEF IInv, Steps, Step
<1>4. Where' /\ Handlers'
  BY <1>1, <1>2, Onwards DEF IInv
<1>5. Kept'
  BY <1>1, <1>3, StillKept DEF IInv
<1>6. Addressed'
  BY <1>1, <1>3, StillAddressed DEF IInv
<1>7. todo \in Testing => phase # "teardown"
  BY <1>1, InTest DEF IInv
<1>8. Right'
  BY <1>1, <1>3, <1>7, StillRight DEF IInv
<1>9. Test'
  BY <1>1 DEF IInv, Test
<1>10. Held'
  <2>1. todo' \in {Revert2, Revert7} \cup Taking => todo \in Taking
    BY <1>1, <1>3, Table DEF Places, Plain, Testing, Ending, Powering, Attaching, Reverting, Dropping, Migrating, Before,
       Taking, Steps, Step
  <2> QED
    BY <2>1 DEF IInv, Held
<1> QED
  BY <1>4, <1>5, <1>6, <1>8, <1>9, <1>10 DEF IInv

-----------------------------------------------------------------------------
(* The waits.                                                              *)

LEMMA Calmly ==
  ASSUME IInv, Calm, todo # <<>>, todo \notin {Migrate2, Gone1}
  PROVE  Reachable /\ ~raised /\ Powers /\ Snapped /\ Moves
  BY NotGone DEF IInv, Smooth, Right, Reachable

LEMMA WaitFails ==
  ASSUME IInv, NEW s, s \notin {"moved", "gone?", "snapshot-uninstall"}, Doing(s), Raise, SameArgs,
         UNCHANGED <<xapi, guest, object, phase, moves>>,
         IF moves > 0 \/ ~Reachable THEN UNCHANGED struck ELSE Strike(s)
  PROVE  IInv'
<1>1. todo # <<>> /\ First(todo) = s
  BY DEF Doing, First
<1>2. todo \notin {Migrate2, Gone1, Drop2}
  BY <1>1, Table DEF Steps, Step
<1>3. Strike(s) => s \in struck'
  BY StruckMore DEF IInv
<1>4. ~(struck' = struck /\ Calm)
  BY <1>1, <1>2, <1>3, Calmly DEF Calm
<1> QED
  BY <1>2, <1>4, Refuses

LEMMA WaitForKeeps ==
  ASSUME IInv, NEW p \in {"running", "halted", "suspended", "paused"}, WaitFor(p) PROVE IInv'
<1>1. todo # <<>> /\ First(todo) = p
  BY DEF WaitFor, Wait, Doing, First
<1>2. CASE ~(Reachable /\ power = p)
  BY <1>2, WaitFails DEF WaitFor, Wait
<1>3. CASE Reachable /\ power = p
  <2>1. /\ Doing(p) /\ GoesOn /\ SameArgs /\ power = p /\ todo' = After(todo)
        /\ UNCHANGED <<host, vdis, ip, struck, moves, xapi, guest, phase, raised>>
    BY <1>3 DEF WaitFor, Wait, Proceed, Continue, GoesOn, object, After
  <2>2. todo \in Testing \cup Ending /\ Places(todo) /\ p \in Plain \ {"agent?", "ip?"}
    BY <1>1, Position DEF IInv, Plain
  <2>3. /\ p = "running" => todo' \in {Boot3, Fragment16, Fragment7}
                            /\ (todo' = Fragment7 => todo = Fragment8)
        /\ p = "halted" => todo' = <<>>
        /\ p = "suspended" => todo' = Resume5
        /\ p = "paused" => todo' = Unpause5
        /\ todo # Fragment11 /\ todo \notin {Migrate2, Gone1}
    BY <1>1, <2>1, <2>2, Table DEF Places, Steps, Step
  <2>4. Smooth'
    <3> SUFFICES ASSUME Calm' PROVE ~raised' /\ Powers' /\ Snapped' /\ Moves'
      BY DEF Smooth
    <3>1. ~raised /\ Snapped /\ phase # "teardown"
      BY <1>1, <2>1, <2>2, <2>3, Calmly, InTest, Table DEF Calm, IInv, Places, Testing, Powering, Before,
         Taking, Steps, Step
    <3>2. UNCHANGED <<power, snap, file>>
      BY <2>1 DEF xapi, guest
    <3>3. Powers'
      BY <2>1, <2>3, <3>1, <3>2, Table DEF Powers, Steps, Step
    <3>4. Snapped'
      BY <2>1, <2>3, <3>1, <3>2, Table DEF Snapped, Taking, Steps, Step
    <3>5. Moves'
      BY <2>1, <2>3, Table DEF Moves, Steps, Step
    <3> QED
      BY <2>1, <3>1, <3>3, <3>4, <3>5
  <2>5. Pool'
    BY <2>1 DEF IInv, Pool, Disks, AddressAt, xapi, guest
  <2> QED
    BY <2>1, <2>2, <2>4, <2>5, SameArgsAre, Goes DEF xapi, IInv, Test
<1> QED
  BY <1>2, <1>3

LEMMA GuestWaits ==
  ASSUME IInv, NEW s \in {"ip?", "agent?", "ssh?"}, Doing(s), GoesOn, SameArgs,
         UNCHANGED <<host, vdis, struck, moves, xapi, guest>>, ip' \in Addr \cup {None},
         s = "ip?" => boot > 1 /\ ip' = addr,
         s # "ip?" => ip' = ip, s = "ssh?" => Answers
  PROVE  IInv'
<1>1. todo # <<>> /\ First(todo) = s /\ todo' = After(todo) /\ UNCHANGED <<raised, phase>>
  BY DEF Doing, First, After, GoesOn
<1>2. todo \in Testing \cup Ending /\ Places(todo) /\ s \in Plain
  BY <1>1, Position DEF IInv, Plain
<1>3. /\ s = "ip?" => todo \in {Boot3, Fragment16, Fragment7}
      /\ s = "agent?" => todo \in {Boot2, Fragment15, Fragment6}
      /\ s = "ssh?" => todo \in {Boot1, Fragment14, Fragment5}
      /\ todo' \in IF s = "ip?" THEN {Boot2, Fragment15, Fragment6}
                   ELSE IF s = "agent?" THEN {Boot1, Fragment14, Fragment5}
                   ELSE {<<>>, Fragment13, Fragment4}
      /\ todo' \in {Fragment6, Fragment5, Fragment4} => todo \in {Fragment7, Fragment6, Fragment5}
  BY <1>1, <1>2, Table DEF Places, Steps, Step
<1>4. UNCHANGED <<power, at, sr, vbd, unplugged, snap, boot, addr, file>>
  BY DEF xapi, guest
<1>5. Smooth'
  <2> SUFFICES ASSUME Calm' PROVE ~raised' /\ Powers' /\ Snapped' /\ Moves'
    BY DEF Smooth
  <2>1. ~raised /\ Snapped /\ phase # "teardown"
    BY <1>1, <1>3, Calmly, InTest, Table DEF Calm, IInv, Testing, Powering, Before, Taking, Steps, Step
  <2>2. Powers'
    BY <1>1, <1>3, <1>4, <2>1, Table DEF Powers, Steps, Step
  <2>3. todo # Fragment11 /\ (todo' \in Taking \cup {Drop2} => todo \in Taking)
        /\ todo' \notin {Drop1, Fragment12, Fragment11, Revert7}
        /\ (todo' \in {Fragment13, Fragment4} => s = "ssh?")
    BY <1>3, Table DEF Taking, Steps, Step
  <2>4. s = "ssh?" => Answers'
    BY <1>4 DEF Answers
  <2>5. Snapped'
    BY <1>4, <2>1, <2>3, <2>4 DEF Snapped
  <2>6. Moves'
    BY <1>3, Table DEF Moves, Steps, Step
  <2> QED
    BY <1>1, <2>1, <2>2, <2>5, <2>6
<1>6. Pool'
  BY <1>4 DEF IInv, Pool, Disks, AddressAt
<1>7. s = "ip?" => Addressed'
  BY <1>4 DEF Addressed
<1> QED
  BY <1>2, <1>4, <1>5, <1>6, <1>7, SameArgsAre, Goes DEF IInv

LEMMA try_get_and_store_ipKeeps == ASSUME IInv, try_get_and_store_ip PROVE IInv'
<1>1. CASE ~(Reachable /\ addr \notin {None, LinkLocal})
  BY <1>1, WaitFails DEF try_get_and_store_ip, Wait
<1>2. CASE Reachable /\ addr \notin {None, LinkLocal}
  <2>1. boot > 1 /\ addr \in Addr
    BY <1>2 DEF IInv, Pool, AddressAt, Address
  <2> QED
    BY <1>2, <2>1, GuestWaits DEF try_get_and_store_ip, Wait, Proceed, Continue, GoesOn
<1> QED
  BY <1>1, <1>2

LEMMA is_management_agent_upKeeps == ASSUME IInv, is_management_agent_up PROVE IInv'
<1>1. CASE ~(Reachable /\ boot >= 3)
  BY <1>1, WaitFails DEF is_management_agent_up, Wait
<1>2. CASE Reachable /\ boot >= 3
  BY <1>2, GuestWaits DEF is_management_agent_up, Wait, Proceed, Continue, GoesOn, object, IInv, Test
<1> QED
  BY <1>1, <1>2

LEMMA is_ssh_upKeeps == ASSUME IInv, is_ssh_up PROVE IInv'
<1>1. CASE ~Answers
  BY <1>1, WaitFails DEF is_ssh_up, Wait
<1>2. CASE Answers
  BY <1>2, GuestWaits DEF is_ssh_up, Wait, Proceed, Continue, GoesOn, object, IInv, Test
<1> QED
  BY <1>1, <1>2

LEMMA GoneKeeps == ASSUME IInv, Gone PROVE IInv'
<1>1. todo # <<>> /\ First(todo) = "gone?" /\ SameArgs /\ UNCHANGED <<xapi, guest, phase, moves>>
  BY DEF Gone, Wait, Doing, First
<1>2. todo = Gone1
  BY <1>1, Position DEF IInv, Places
<1>3. CASE power # "gone"
  <2>1. Raise /\ UNCHANGED object /\ Doing("gone?") /\ (Strike("gone?") \/ struck' = struck)
    BY <1>3 DEF Gone, Wait
  <2>2. ~Calm /\ todo # Drop2
    BY <1>2, <1>3, Table DEF IInv, Smooth, Powers, Steps, Step
  <2> QED
    BY <1>1, <2>1, <2>2, Refuses
<1>4. CASE power = "gone"
  <2>1. Doing("gone?") /\ GoesOn /\ UNCHANGED <<host, vdis, ip, struck, moves, xapi, guest, phase, raised>>
        /\ todo' = After(todo)
    BY <1>1, <1>4 DEF Gone, Wait, Proceed, Continue, GoesOn, object, After
  <2>2. todo' = <<>> /\ phase = "teardown"
    BY <1>2, <1>4, <2>1, Apart DEF IInv, Where, Idle, Ending
  <2>3. Smooth'
    <3> SUFFICES ASSUME Calm' PROVE ~raised' /\ Powers' /\ Snapped' /\ Moves'
      BY DEF Smooth
    <3>1. ~raised /\ Snapped
      BY <2>1 DEF Calm, IInv, Smooth
    <3>2. Powers' /\ Moves'
      BY <2>2, Apart, Table DEF Powers, Moves, Steps, Step
    <3>3. Snapped'
      BY <1>2, <2>1, <2>2, <3>1, Apart, Table DEF Snapped, Taking, xapi, guest, Steps, Step
    <3> QED
      BY <2>1, <3>1, <3>2, <3>3
  <2>4. Pool'
    BY <2>1 DEF IInv, Pool, Disks, AddressAt, xapi, guest
  <2> QED
    BY <1>1, <2>1, <2>3, <2>4, SameArgsAre, Goes DEF Plain, xapi, IInv, Test
<1> QED
  BY <1>3, <1>4

-----------------------------------------------------------------------------
(* The power state.                                                        *)

Switches == {"vm-shutdown", "vm-shutdown-force", "vm-reboot", "vm-suspend", "vm-resume", "vm-pause",
             "vm-unpause"}
To(s) == CASE s \in {"vm-shutdown", "vm-shutdown-force"} -> "halted"
           [] s = "vm-suspend" -> "suspended"
           [] s = "vm-pause" -> "paused"
           [] OTHER -> "running"

LEMMA PowerPool ==
  ASSUME IInv, NEW to \in {"halted", "running", "suspended", "paused"}, NEW stage \in {0, boot},
         power' = to, boot' = stage, addr' = (IF stage = 0 THEN None ELSE addr),
         unplugged' = (IF to = "halted" THEN {} ELSE unplugged), UNCHANGED <<at, sr, vbd, snap, file>>
  PROVE  Pool'
<1>1. boot' \in 0..4 /\ addr' \in Address /\ AddressAt(boot', addr')
  BY DEF IInv, Pool, Address, AddressAt
<1>2. unplugged' \subseteq vbd'
  BY DEF IInv, Pool
<1> QED
  BY <1>1, <1>2 DEF IInv, Pool, Disks

LEMMA Switched ==
  ASSUME IInv, NEW s \in Switches, Doing(s), GoesOn, SameArgs, UNCHANGED <<object, struck, moves>>, Pool',
         power' = To(s), UNCHANGED <<at, sr, vbd, snap, file>>
  PROVE  IInv'
<1>1. todo # <<>> /\ First(todo) = s /\ todo' = After(todo) /\ UNCHANGED <<raised, phase>>
  BY DEF Doing, First, After, GoesOn
<1>2. todo \in Testing \cup Ending /\ Places(todo) /\ s \in Plain
  BY <1>1, Position DEF IInv, Plain, Switches
<1>3. /\ todo \in {Shut2, Force2, Stop4, Reboot5, Suspend7, Resume5, Pause7, Unpause5}
      /\ todo' \in {Shut1, Boot4, Suspend6, Pause6, Destroy3}
      /\ todo' = Destroy3 <=> todo = Stop4
      /\ todo = Stop4 => s = "vm-shutdown-force"
      /\ todo \notin {Migrate2, Gone1, Fragment11}
  BY <1>1, <1>2, Table DEF Places, Switches, Steps, Step
<1>4. Smooth'
  <2> SUFFICES ASSUME Calm' PROVE ~raised' /\ Powers' /\ Snapped' /\ Moves'
    BY DEF Smooth
  <2>1. ~raised /\ Snapped
    BY <1>1, <1>3, Calmly DEF Calm
  <2>2. todo # Stop4 => phase # "teardown"
    BY <1>1, <1>3, InTest DEF IInv, Testing, Powering, Dropping
  <2>3. todo' = Destroy3 => power' = "halted"
    BY <1>3 DEF To
  <2>4. Powers'
    BY <1>1, <1>3, <2>2, <2>3, Table DEF Powers, Steps, Step
  <2>5. Snapped'
    BY <1>3, <2>1, Table DEF Snapped, Taking, Steps, Step
  <2>6. Moves'
    BY <1>3, Table DEF Moves, Steps, Step
  <2> QED
    BY <1>1, <2>1, <2>4, <2>5, <2>6
<1>5. power' # "gone"
  BY DEF To
<1> QED
  BY <1>2, <1>4, <1>5, SameArgsAre, Goes DEF object, IInv, Test, Switches

LEMMA PowerKeeps ==
  ASSUME IInv, NEW s \in Switches, NEW allowed \in BOOLEAN, NEW stage \in {0, boot},
         Power(s, allowed, To(s), stage),
         Calm /\ Doing(s) => allowed \/ (todo = Shut2 /\ handler = Forcing)
  PROVE  IInv'
<1> DEFINE Effect == /\ power' = To(s) /\ boot' = stage
                     /\ addr' = (IF stage = 0 THEN None ELSE addr)
                     /\ unplugged' = (IF To(s) = "halted" THEN {} ELSE unplugged)
                     /\ UNCHANGED <<at, sr, vbd, snap, file>>
<1>1. Doing(s) /\ SameArgs /\ UNCHANGED <<object, phase, moves>>
  BY DEF Power, Command, Xe
<1>2. todo # <<>> /\ First(todo) = s /\ todo \notin {Migrate2, Gone1, Drop2}
  BY <1>1, Table DEF Doing, First, Switches, Steps, Step
<1>3. Effect => Pool'
  BY PowerPool DEF To
<1>4. Effect => power' # "gone"
  BY DEF To
<1>5. CASE Effect /\ Proceed /\ struck' = struck
  BY <1>1, <1>3, <1>5, Switched DEF Proceed, Continue, GoesOn
<1>6. CASE Effect /\ Raise /\ Strike(s)
  BY <1>1, <1>2, <1>3, <1>4, <1>6, Loses
<1>7. CASE /\ Raise /\ UNCHANGED <<xapi, guest>>
           /\ IF Reachable /\ allowed THEN Strike(s) ELSE UNCHANGED struck
  <2>1. Strike(s) => s \in struck'
    BY StruckMore DEF IInv
  <2>2. struck' = struck /\ Calm => todo = Shut2 /\ handler = Forcing
    BY <1>1, <1>2, <1>7, <2>1, Calmly DEF Calm
  <2> QED
    BY <1>1, <1>2, <1>7, <2>2, Refuses
<1> QED
  BY <1>5, <1>6, <1>7 DEF Power, Command, Xe

LEMMA PowerAllowed ==
  ASSUME IInv, Calm, todo # <<>>
  PROVE  /\ First(todo) = "vm-shutdown"
                => (power = "running" /\ boot >= 3) \/ (todo = Shut2 /\ handler = Forcing)
         /\ First(todo) = "vm-shutdown-force" => power # "halted"
         /\ First(todo) \in {"vm-reboot", "vm-suspend"} => power = "running" /\ boot >= 3
         /\ First(todo) = "vm-pause" => power = "running"
         /\ First(todo) = "vm-resume" => power = "suspended"
         /\ First(todo) = "vm-unpause" => power = "paused"
<1> SUFFICES ASSUME First(todo) \in Switches
             PROVE  /\ First(todo) = "vm-shutdown"
                          => (power = "running" /\ boot > 2) \/ (todo = Shut2 /\ handler = Forcing)
                    /\ First(todo) = "vm-shutdown-force" => power # "halted"
                    /\ First(todo) \in {"vm-reboot", "vm-suspend"} => power = "running" /\ boot > 2
                    /\ First(todo) = "vm-pause" => power = "running"
                    /\ First(todo) = "vm-resume" => power = "suspended"
                    /\ First(todo) = "vm-unpause" => power = "paused"
  BY DEF Switches, IInv, Pool
<1>1. Places(todo)
  BY Position DEF IInv, Switches
<1>2. Powers
  BY DEF IInv, Smooth
<1> QED
  BY <1>1, <1>2, Table DEF Places, Powers, Steps, Step

LEMMA ShutdownKeeps == ASSUME IInv, Shutdown PROVE IInv'
<1>1. Power("vm-shutdown", power = "running" /\ boot >= 3, To("vm-shutdown"), 0)
  BY DEF Shutdown, To
<1>2. Calm /\ Doing("vm-shutdown")
                => (power = "running" /\ boot >= 3) \/ (todo = Shut2 /\ handler = Forcing)
  BY PowerAllowed DEF Doing, First
<1> QED
  BY <1>1, <1>2, PowerKeeps DEF Switches

LEMMA ForceShutdownKeeps == ASSUME IInv, ForceShutdown PROVE IInv'
<1>1. Power("vm-shutdown-force", power # "halted", To("vm-shutdown-force"), 0)
  BY DEF ForceShutdown, To
<1>2. Calm /\ Doing("vm-shutdown-force") => (power # "halted") \/ (todo = Shut2 /\ handler = Forcing)
  BY PowerAllowed DEF Doing, First
<1> QED
  BY <1>1, <1>2, PowerKeeps DEF Switches

LEMMA RebootKeeps == ASSUME IInv, Reboot PROVE IInv'
<1>1. Power("vm-reboot", power = "running" /\ boot >= 3, To("vm-reboot"), 0)
  BY DEF Reboot, To
<1>2. Calm /\ Doing("vm-reboot") => (power = "running" /\ boot >= 3) \/ (todo = Shut2 /\ handler = Forcing)
  BY PowerAllowed DEF Doing, First
<1> QED
  BY <1>1, <1>2, PowerKeeps DEF Switches

LEMMA SuspendKeeps == ASSUME IInv, Suspend PROVE IInv'
<1>1. Power("vm-suspend", power = "running" /\ boot >= 3, To("vm-suspend"), boot)
  BY DEF Suspend, To
<1>2. Calm /\ Doing("vm-suspend") => (power = "running" /\ boot >= 3) \/ (todo = Shut2 /\ handler = Forcing)
  BY PowerAllowed DEF Doing, First
<1> QED
  BY <1>1, <1>2, PowerKeeps DEF Switches

LEMMA ResumeKeeps == ASSUME IInv, Resume PROVE IInv'
<1>1. Power("vm-resume", power = "suspended", To("vm-resume"), boot)
  BY DEF Resume, To
<1>2. Calm /\ Doing("vm-resume") => (power = "suspended") \/ (todo = Shut2 /\ handler = Forcing)
  BY PowerAllowed DEF Doing, First
<1> QED
  BY <1>1, <1>2, PowerKeeps DEF Switches

LEMMA PauseKeeps == ASSUME IInv, Pause PROVE IInv'
<1>1. Power("vm-pause", power = "running", To("vm-pause"), boot)
  BY DEF Pause, To
<1>2. Calm /\ Doing("vm-pause") => (power = "running") \/ (todo = Shut2 /\ handler = Forcing)
  BY PowerAllowed DEF Doing, First
<1> QED
  BY <1>1, <1>2, PowerKeeps DEF Switches

LEMMA UnpauseKeeps == ASSUME IInv, Unpause PROVE IInv'
<1>1. Power("vm-unpause", power = "paused", To("vm-unpause"), boot)
  BY DEF Unpause, To
<1>2. Calm /\ Doing("vm-unpause") => (power = "paused") \/ (todo = Shut2 /\ handler = Forcing)
  BY PowerAllowed DEF Doing, First
<1> QED
  BY <1>1, <1>2, PowerKeeps DEF Switches

LEMMA StartKeeps == ASSUME IInv, Start PROVE IInv'
<1> DEFINE Effect == /\ power' = "running" /\ boot' = 0 /\ addr' = None
                     /\ at' \in {h \in Host : /\ PoolOf[h] = PoolOf[at] /\ SeenBy(h)
                                              /\ args.target \in {None, h}}
                     /\ UNCHANGED <<sr, vbd, unplugged, snap, file>>
           Allowed == power = "halted" /\ \E h \in Host : SeenBy(h)
<1>1. Doing("vm-start") /\ SameArgs /\ UNCHANGED <<object, phase, moves>>
  BY DEF Start, Command, Xe
<1>2. /\ todo # <<>> /\ First(todo) = "vm-start" /\ todo \in {Boot5, Fragment9}
      /\ todo \notin {Migrate2, Gone1, Drop2, Fragment11}
      /\ todo \in Testing \ Dropping /\ "vm-start" \in Plain
  <2>1. todo # <<>> /\ First(todo) = "vm-start"
    BY <1>1 DEF Doing, First
  <2>2. todo \in {Boot5, Fragment9}
    BY <2>1, Position DEF IInv, Places
  <2> QED
    BY <2>1, <2>2, Table DEF Testing, Powering, Taking, Dropping, Plain, Steps, Step
<1>3. phase = "test" /\ ~raised
  BY <1>2, InTest DEF IInv
<1>4. Calm => Allowed /\ Reachable
  <2>1. Calm => Powers /\ Reachable
    BY <1>2, Calmly
  <2>2. Sees(host, vbd) /\ host \in Host
    BY <1>2, <1>3 DEF IInv, Right, Test
  <2> QED
    BY <1>2, <2>1, <2>2 DEF Powers, Sees, SeenBy
<1>5. Effect => Pool' /\ PoolOf[at'] = PoolOf[at]
  BY DEF IInv, Pool, Disks, AddressAt, Address
<1>6. CASE Effect /\ Proceed /\ struck' = struck
  <2>1. GoesOn /\ todo' = After(todo)
    BY <1>1, <1>6 DEF Proceed, Continue, GoesOn, After
  <2>2. todo' \in {Boot4, Fragment8} /\ (todo' = Fragment8 => todo = Fragment9)
    BY <1>2, <2>1, Table DEF Steps, Step
  <2>3. Smooth'
    <3> SUFFICES ASSUME Calm' PROVE ~raised' /\ Powers' /\ Snapped' /\ Moves'
      BY DEF Smooth
    <3>1. Snapped
      BY <1>1, <1>2, <1>6, Calmly DEF Calm
    <3>2. Powers' /\ Moves'
      BY <1>1, <1>3, <2>2, Table DEF Powers, Moves, Steps, Step
    <3>3. Snapped'
      BY <1>2, <1>6, <2>2, <3>1, Table DEF Snapped, Taking, Steps, Step
    <3> QED
      BY <1>3, <2>1, <3>2, <3>3 DEF GoesOn
  <2> QED
    BY <1>1, <1>2, <1>5, <1>6, <2>1, <2>3, SameArgsAre, Goes DEF object, IInv, Test
<1>7. CASE Effect /\ Raise /\ Strike("vm-start")
  <2>1. handler # Forcing
    BY <1>2, Table DEF IInv, Handlers, Steps, Step
  <2> QED
    BY <1>1, <1>2, <1>5, <1>7, <2>1, Loses
<1>8. CASE /\ Raise /\ UNCHANGED <<xapi, guest>>
           /\ IF Reachable /\ Allowed THEN Strike("vm-start") ELSE UNCHANGED struck
  <2>1. Strike("vm-start") => "vm-start" \in struck'
    BY StruckMore DEF IInv
  <2>2. ~(struck' = struck /\ Calm)
    BY <1>4, <1>8, <2>1 DEF Calm
  <2> QED
    BY <1>1, <1>2, <1>8, <2>1, <2>2, Refuses
<1> QED
  BY <1>6, <1>7, <1>8 DEF Start, Command, Xe

-----------------------------------------------------------------------------
(* Disks.                                                                  *)

\* A command that is refused, or fails before it did anything.
LEMMA CommandFails ==
  ASSUME IInv, NEW s, NEW allowed \in BOOLEAN, Doing(s), todo \notin {Migrate2, Gone1, Drop2}, SameArgs,
         Raise, UNCHANGED <<xapi, guest, object, phase, moves>>, Calm => allowed,
         IF Reachable /\ allowed THEN Strike(s) ELSE UNCHANGED struck
  PROVE  IInv'
<1>1. Strike(s) => s \in struck'
  BY StruckMore DEF IInv
<1>2. todo # <<>>
  BY DEF Doing
<1>3. ~(struck' = struck /\ Calm)
  BY <1>1, <1>2, Calmly DEF Calm
<1> QED
  BY <1>1, <1>3, Refuses

\* Where the methods that attach and detach disks are, and what is so there.
LEMMA AttachingAt ==
  ASSUME IInv, todo \in Attaching
  PROVE  /\ phase = "test" /\ ~raised /\ todo # <<>> /\ todo \in Testing \ (Dropping \cup Taking)
         /\ todo \notin {Migrate2, Gone1, Drop2, Drop1, Fragment11, Fragment13, Undo1}
         /\ handler \in {NoHandler, Undoing}
         /\ handler = Undoing => todo \in {Plug2, Connect1}
         /\ PoolOf[host] = PoolOf[at] /\ Sees(host, vbd) /\ Sees(host, snap.disks)
         /\ power # "gone" /\ (Calm => ~file /\ ~snap.file)
<1>1. /\ todo # <<>> /\ todo \in Testing \ (Dropping \cup Taking)
      /\ todo \notin {Migrate2, Gone1, Drop2, Drop1, Fragment11, Fragment13, Undo1, Shut2, Shut1}
  BY Table DEF Testing, Attaching, Dropping, Taking, Steps, Step
<1>2. phase = "test" /\ ~raised /\ power # "gone"
  BY <1>1, InTest DEF IInv
<1>3. /\ handler \in {NoHandler, Undoing}
      /\ handler = Undoing => todo \in {Plug2, Connect1}
  BY <1>1 DEF IInv, Handlers
<1>4. PoolOf[host] = PoolOf[at] /\ Sees(host, vbd) /\ Sees(host, snap.disks)
  BY <1>1, <1>2 DEF IInv, Right
<1>5. Calm => ~file /\ ~snap.file
  BY <1>1 DEF IInv, Smooth, Snapped
<1> QED
  BY <1>1, <1>2, <1>3, <1>4, <1>5

\* What is so at the end of each of their steps.
LEMMA AttachingGoes ==
  ASSUME IInv, todo \in Attaching, todo' \in Attaching \cup {<<>>}, todo' \notin {Connect3, Vdi1},
         UNCHANGED <<phase, raised, moves, struck, snap, guest, power, at, host>>,
         handler' \in {NoHandler, Undoing}, handler' = Undoing => todo' \in {Plug2, Connect1},
         Pool', Test', Sees(host, vbd)', Sees(host, snap.disks)',
         todo' = Plug2 => power = "running",
         todo' \in {Disconnect4, Disconnect3} => (Calm => power \in {"running", "halted"}),
         todo' = Disconnect2 => (Calm => power = "halted" \/ args'.disk \in unplugged'),
         todo' \in {Connect2, Plug2, Connect1} => args'.disk \in vbd' /\ vbd' = vdis' \cup {args'.disk},
         todo' \in {Disconnect4, Disconnect3, Unplug3, Disconnect2} => args'.disk \in vbd',
         todo' = Disconnect1 => /\ args'.disk \in Disk \ (vbd' \cup snap.disks)
                                /\ vdis' = vbd' \cup {args'.disk},
         todo' \notin {Connect2, Plug2, Connect1, Disconnect1} => vdis' = vbd'
  PROVE  IInv'
<1>1. /\ phase = "test" /\ ~raised /\ todo # <<>> /\ todo \in Testing \ (Dropping \cup Taking)
      /\ todo \notin {Migrate2, Gone1, Drop2, Drop1, Fragment11, Fragment13, Undo1}
      /\ PoolOf[host] = PoolOf[at] /\ power # "gone" /\ (Calm => ~file /\ ~snap.file)
  BY AttachingAt
<1>2. /\ todo' \in Testing \ (Dropping \cup Taking \cup Migrating)
      /\ todo' \notin {Migrate2, Drop2, Drop1, Vdi1, Undo1}
  BY Apart, Table DEF Testing, Attaching, Dropping, Taking, Migrating, Steps, Step
<1>3. UNCHANGED <<boot, addr, file>>
  BY DEF guest
<1>4. Where'
  BY <1>1, <1>2 DEF Where, IInv
<1>5. Handlers'
  BY <1>2, HandlersApart DEF Handlers
<1>6. Kept'
  BY <1>1 DEF IInv, Kept, SnapTrouble
<1>7. Addressed'
  BY Apart, Table DEF Addressed, Attaching, Steps, Step
<1>8. Right'
  BY <1>1, <1>2, <1>3 DEF Right
<1>9. Smooth'
  <2> SUFFICES ASSUME Calm' PROVE ~raised' /\ Powers' /\ Snapped' /\ Moves'
    BY DEF Smooth
  <2>1. Calm
    BY DEF Calm
  <2>2. Powers'
    BY <1>1, <2>1, Apart, Table DEF Powers, Attaching, Steps, Step
  <2>3. Snapped' /\ Moves'
    BY <1>1, <1>3, <2>1, Apart, Table DEF Snapped, Moves, Attaching, Taking, Steps, Step
  <2> QED
    BY <1>1, <2>2, <2>3
<1>10. Held'
  BY <1>2, Apart, Table DEF Held, Attaching, Steps, Step
<1> QED
  BY <1>4, <1>5, <1>6, <1>7, <1>8, <1>9, <1>10 DEF IInv

LEMMA VbdCreateKeeps == ASSUME IInv, VbdCreate PROVE IInv'
<1> DEFINE Effect == /\ vbd' = vbd \cup {args.disk}
                     /\ unplugged' = (IF power = "halted" THEN {} ELSE unplugged \cup {args.disk})
                     /\ UNCHANGED <<power, at, sr, snap, guest>>
<1>1. Doing("vbd-create") /\ SameArgs /\ UNCHANGED <<object, phase, moves>>
  BY DEF VbdCreate, Command, Xe
<1>2. todo = Connect3 /\ After(todo) = Connect2 /\ todo \in Attaching
  BY <1>1, Position, Table DEF IInv, Places, Doing, First, Attaching, Steps, Step
<1>3. /\ phase = "test" /\ ~raised /\ Sees(host, vbd) /\ Sees(host, snap.disks) /\ todo \notin {Migrate2, Gone1, Drop2}
      /\ handler = NoHandler /\ power # "gone"
  BY <1>2, AttachingAt, Table DEF Steps, Step
<1>4. /\ args.disk \in Disks \ vbd /\ snap = NoSnap /\ Sees(host, {args.disk}) /\ vdis = vbd
  BY <1>2, <1>3, Table DEF IInv, Right, Steps, Step
<1>5. Effect => Pool'
  BY <1>4 DEF IInv, Pool, Disks, NoSnap, guest, AddressAt
<1>6. CASE Effect /\ Proceed /\ struck' = struck
  <2>1. todo' = Connect2 /\ UNCHANGED raised /\ handler' = NoHandler
    BY <1>2, <1>3, <1>6 DEF Proceed, Continue, After
  <2>2. /\ todo' \in Attaching /\ todo' \in {Connect2, Plug2, Connect1} /\ todo' # <<>>
        /\ todo' \notin {Connect3, Vdi1, Plug2, Disconnect4, Disconnect3, Disconnect2, Unplug3, Disconnect1}
    BY <2>1, Table DEF Attaching, Steps, Step
  <2>3. args' = args /\ Test'
    BY <1>1, <1>6, <2>1, <2>2, SameArgsAre DEF object, IInv, Test
  <2>4. Sees(host, vbd)' /\ Sees(host, snap.disks)'
    BY <1>1, <1>3, <1>4, <1>6 DEF Sees, object
  <2> QED
    BY <1>1, <1>2, <1>3, <1>4, <1>5, <1>6, <2>1, <2>2, <2>3, <2>4, HandlersApart, AttachingGoes DEF object
<1>7. CASE Effect /\ Raise /\ Strike("vbd-create")
  BY <1>1, <1>2, <1>3, <1>4, <1>5, <1>7, HandlersApart, Loses DEF Doing
<1>8. CASE /\ Raise /\ UNCHANGED <<xapi, guest>>
           /\ IF Reachable /\ args.disk \notin vbd THEN Strike("vbd-create") ELSE UNCHANGED struck
  BY <1>1, <1>3, <1>4, <1>8, CommandFails
<1> QED
  BY <1>6, <1>7, <1>8 DEF VbdCreate, Command, Xe

LEMMA PlugNextKeeps == ASSUME IInv, PlugNext PROVE IInv'
<1>1. Doing("plug?") /\ SameArgs /\ UNCHANGED <<xapi, guest, object, phase, moves>>
  BY DEF PlugNext, Read, Xe
<1>2. todo = Connect2 /\ After(todo) = Connect1 /\ todo \in Attaching /\ Connect1 # <<>>
  BY <1>1, Position, Table DEF IInv, Places, Doing, First, Attaching, Steps, Step
<1>3. /\ phase = "test" /\ ~raised /\ Sees(host, vbd) /\ Sees(host, snap.disks) /\ todo \notin {Migrate2, Gone1, Drop2}
      /\ handler = NoHandler /\ power # "gone"
  BY <1>2, AttachingAt, Table DEF Steps, Step
<1>4. args.disk \in vbd /\ vbd = vdis \cup {args.disk}
  BY <1>2, <1>3 DEF IInv, Right
<1>5. CASE struck' = struck /\ IF power = "running"
                                  THEN /\ todo' = <<"vbd-plug">> \o Tail(todo) /\ UNCHANGED raised
                                       /\ handler' = [steps |-> <<"vbd-destroy">>, swallow |-> FALSE]
                                  ELSE Proceed
  <2>1. UNCHANGED raised /\ \/ power = "running" /\ todo' = Plug2 /\ handler' = Undoing
                            \/ todo' = Connect1 /\ handler' = NoHandler
    BY <1>2, <1>3, <1>5 DEF Proceed, Continue, Plug2, Undoing, Undo1, After
  <2>2. /\ todo' \in Attaching \cup {<<>>} /\ todo' \in {Connect2, Plug2, Connect1} /\ todo' # <<>>
        /\ todo' \notin {Connect3, Vdi1, Disconnect4, Disconnect3, Disconnect2, Unplug3, Disconnect1}
        /\ todo' = Plug2 => power = "running"
    BY <2>1, Table DEF Attaching, Steps, Step
  <2>3. args' = args /\ Test' /\ Pool'
    BY <1>1, <1>5, <2>1, <2>2, SameArgsAre DEF object, xapi, guest, IInv, Test, Pool, Disks, AddressAt
  <2>4. Sees(host, vbd)' /\ Sees(host, snap.disks)'
    BY <1>1, <1>3 DEF Sees, object, xapi
  <2>5. UNCHANGED <<power, at, snap, vbd, vdis, host>>
    BY <1>1 DEF xapi, object
  <2> QED
    BY <1>1, <1>2, <1>3, <1>4, <1>5, <2>1, <2>2, <2>3, <2>4, <2>5, HandlersApart, AttachingGoes
<1>6. CASE Raise /\ IF Reachable /\ TRUE THEN Strike("plug?") ELSE UNCHANGED struck
  BY <1>1, <1>3, <1>6, CommandFails
<1> QED
  BY <1>1, <1>5, <1>6 DEF PlugNext, Read, Xe

LEMMA VbdPlugKeeps == ASSUME IInv, VbdPlug PROVE IInv'
<1> DEFINE Effect == unplugged' = unplugged \ {args.disk} /\ UNCHANGED <<power, at, sr, vbd, snap, guest>>
<1>1. Doing("vbd-plug") /\ SameArgs /\ UNCHANGED <<object, phase, moves>>
  BY DEF VbdPlug, Command, Xe
<1>2. todo = Plug2 /\ After(todo) = Connect1 /\ todo \in Attaching /\ Connect1 # <<>>
  BY <1>1, Position, Table DEF IInv, Places, Doing, First, Attaching, Steps, Step
<1>3. /\ phase = "test" /\ ~raised /\ Sees(host, vbd) /\ Sees(host, snap.disks) /\ todo \notin {Migrate2, Gone1, Drop2}
      /\ handler \in {NoHandler, Undoing} /\ power # "gone"
  BY <1>2, AttachingAt, Table DEF Steps, Step
<1>4. args.disk \in vbd /\ vbd = vdis \cup {args.disk}
  BY <1>2, <1>3 DEF IInv, Right
<1>5. Effect => Pool'
  BY DEF IInv, Pool, Disks, guest, AddressAt
<1>6. CASE Effect /\ Proceed /\ struck' = struck
  <2>1. UNCHANGED raised /\ todo' = Connect1 /\ handler' = handler
    BY <1>2, <1>6 DEF Proceed, Continue, After
  <2>2. /\ todo' \in Attaching \cup {<<>>} /\ todo' \in {Connect2, Plug2, Connect1} /\ todo' # <<>>
        /\ todo' \notin {Connect3, Vdi1, Disconnect4, Disconnect3, Disconnect2, Unplug3, Disconnect1, Plug2}
    BY <2>1, Table DEF Attaching, Steps, Step
  <2>3. args' = args /\ Test'
    BY <1>1, <1>6, <2>1, <2>2, SameArgsAre DEF object, IInv, Test
  <2>4. Sees(host, vbd)' /\ Sees(host, snap.disks)'
    BY <1>1, <1>3, <1>6 DEF Sees, object
  <2> QED
    BY <1>1, <1>2, <1>3, <1>4, <1>5, <1>6, <2>1, <2>2, <2>3, <2>4, AttachingGoes DEF object
<1>7. CASE Effect /\ Raise /\ Strike("vbd-plug")
  BY <1>1, <1>2, <1>3, <1>5, <1>7, HandlersApart, Loses DEF Doing
<1>8. CASE /\ Raise /\ UNCHANGED <<xapi, guest>>
           /\ IF Reachable /\ power = "running" THEN Strike("vbd-plug") ELSE UNCHANGED struck
  <2>1. Calm => power = "running"
    BY <1>2 DEF IInv, Smooth, Powers
  <2> QED
    BY <1>1, <1>3, <1>8, <2>1, CommandFails
<1> QED
  BY <1>6, <1>7, <1>8 DEF VbdPlug, Command, Xe

LEMMA AddToListKeeps == ASSUME IInv, AddToList PROVE IInv'
<1>1. /\ Doing("append") /\ vdis' = vdis \cup {args.disk} /\ Proceed /\ SameArgs
      /\ UNCHANGED <<host, ip, xapi, guest, phase, struck, moves>>
  BY DEF AddToList, Local
<1>2. todo = Connect1 /\ After(todo) = <<>> /\ todo \in Attaching
  BY <1>1, Position, Table DEF IInv, Places, Doing, First, Attaching, Steps, Step
<1>3. ~raised /\ Sees(host, vbd) /\ Sees(host, snap.disks)
  BY <1>2, AttachingAt
<1>4. args.disk \in vbd /\ vbd = vdis \cup {args.disk}
  BY <1>2, <1>3 DEF IInv, Right
<1>5. todo' = <<>> /\ handler' = NoHandler /\ UNCHANGED raised
  BY <1>1, <1>2 DEF Proceed, Continue, After
<1>6. Pool' /\ UNCHANGED <<at, power, snap, vbd>>
  BY <1>1 DEF xapi, guest, IInv, Pool, Disks, AddressAt
<1>7. Test'
  BY <1>1, <1>4, <1>5, SameArgsAre DEF IInv, Test, Pool, Disks
<1>8. Sees(host, vbd)' /\ Sees(host, snap.disks)'
  BY <1>1, <1>3 DEF Sees, xapi
<1>9. todo' \notin Attaching /\ todo' \notin {Connect3, Vdi1, Plug2}
  BY <1>5, Apart DEF Attaching
<1> QED
  BY <1>1, <1>2, <1>4, <1>5, <1>6, <1>7, <1>8, <1>9, HandlersApart, AttachingGoes DEF Attaching


LEMMA InListKeeps == ASSUME IInv, InList PROVE IInv'
<1>1. Doing("in-vdis?") /\ SameArgs /\ UNCHANGED <<object, xapi, guest, phase, struck, moves>>
  BY DEF InList, Local
<1>2. todo = Disconnect4 /\ After(todo) = Disconnect3 /\ todo \in Attaching /\ Disconnect3 # <<>>
  BY <1>1, Position, Table DEF IInv, Places, Doing, First, Attaching, Steps, Step
<1>3. /\ phase = "test" /\ ~raised /\ Sees(host, vbd) /\ Sees(host, snap.disks)
      /\ handler = NoHandler
  BY <1>2, AttachingAt, Table DEF Steps, Step
<1>4. args.disk \in vbd /\ vdis = vbd
  BY <1>2, <1>3, Table DEF IInv, Right, Steps, Step
<1>5. UNCHANGED raised /\ todo' = Disconnect3 /\ handler' = NoHandler
  BY <1>2, <1>3, <1>4 DEF InList, Local, Proceed, Continue, After
<1>6. /\ todo' \in Attaching \cup {<<>>} /\ todo' = Disconnect3 /\ todo' # <<>>
      /\ todo' \notin {Connect3, Vdi1, Plug2, Disconnect4, Disconnect2, Unplug3, Connect2, Connect1, Disconnect1}
  BY <1>5, Table DEF Attaching, Steps, Step
<1>7. args' = args /\ Test' /\ Pool'
  BY <1>1, <1>5, <1>6, SameArgsAre DEF object, xapi, guest, IInv, Test, Pool, Disks, AddressAt
<1>8. Sees(host, vbd)' /\ Sees(host, snap.disks)'
  BY <1>1, <1>3 DEF Sees, object, xapi
<1>9. Calm => power \in {"running", "halted"}
  BY <1>2 DEF IInv, Smooth, Powers
<1>10. UNCHANGED <<power, at, snap, vbd, vdis, host>>
  BY <1>1 DEF xapi, object
<1> QED
  BY <1>1, <1>2, <1>3, <1>4, <1>5, <1>6, <1>7, <1>8, <1>9, <1>10, HandlersApart, AttachingGoes

LEMMA UnplugNextKeeps == ASSUME IInv, UnplugNext PROVE IInv'
<1>1. Doing("unplug?") /\ SameArgs /\ UNCHANGED <<xapi, guest, object, phase, moves>>
  BY DEF UnplugNext, Read, Xe
<1>2. todo = Disconnect3 /\ After(todo) = Disconnect2 /\ todo \in Attaching /\ Disconnect2 # <<>>
  BY <1>1, Position, Table DEF IInv, Places, Doing, First, Attaching, Steps, Step
<1>3. /\ phase = "test" /\ ~raised /\ Sees(host, vbd) /\ Sees(host, snap.disks)
      /\ todo \notin {Migrate2, Gone1, Drop2} /\ handler = NoHandler
  BY <1>2, AttachingAt, Table DEF Steps, Step
<1>4. args.disk \in vbd /\ vdis = vbd
  BY <1>2, <1>3, Table DEF IInv, Right, Steps, Step
<1>5. CASE /\ struck' = struck
           /\ Continue((IF power = "running" THEN <<"vbd-unplug">> ELSE <<>>) \o Tail(todo))
  <2>1. <<>> \o Disconnect2 = Disconnect2
    BY Plugging, ConcatEmptySeq
  <2>2. UNCHANGED raised /\ handler' = NoHandler
        /\ \/ todo' = Unplug3
           \/ todo' = Disconnect2 /\ power # "running"
    BY <1>2, <1>3, <1>5, <2>1 DEF Continue, Unplug3, After
  <2>3. /\ todo' \in Attaching \cup {<<>>} /\ todo' \in {Unplug3, Disconnect2} /\ todo' # <<>>
        /\ todo' \notin {Connect3, Vdi1, Plug2, Disconnect4, Disconnect3, Connect2, Connect1, Disconnect1}
        /\ todo' = Disconnect2 => power # "running"
    BY <2>2, Table DEF Attaching, Steps, Step
  <2>4. args' = args /\ Test' /\ Pool'
    BY <1>1, <1>5, <2>2, <2>3, SameArgsAre DEF object, xapi, guest, IInv, Test, Pool, Disks, AddressAt
  <2>5. Sees(host, vbd)' /\ Sees(host, snap.disks)'
    BY <1>1, <1>3 DEF Sees, object, xapi
  <2>6. Calm => power \in {"running", "halted"}
    BY <1>2 DEF IInv, Smooth, Powers
  <2>7. UNCHANGED <<power, at, snap, vbd, vdis, host>>
    BY <1>1 DEF xapi, object
  <2> QED
    BY <1>1, <1>2, <1>3, <1>4, <1>5, <2>2, <2>3, <2>4, <2>5, <2>6, <2>7, HandlersApart, AttachingGoes
<1>6. CASE Raise /\ IF Reachable /\ TRUE THEN Strike("unplug?") ELSE UNCHANGED struck
  BY <1>1, <1>3, <1>6, CommandFails
<1> QED
  BY <1>1, <1>5, <1>6 DEF UnplugNext, Read, Xe

LEMMA VbdUnplugKeeps == ASSUME IInv, VbdUnplug PROVE IInv'
<1> DEFINE Effect == /\ unplugged' = (IF power = "halted" THEN {} ELSE unplugged \cup {args.disk})
                     /\ UNCHANGED <<power, at, sr, vbd, snap, guest>>
<1>1. Doing("vbd-unplug") /\ SameArgs /\ UNCHANGED <<object, phase, moves>>
  BY DEF VbdUnplug, Command, Xe
<1>2. todo = Unplug3 /\ After(todo) = Disconnect2 /\ todo \in Attaching /\ Disconnect2 # <<>>
  BY <1>1, Position, Table DEF IInv, Places, Doing, First, Attaching, Steps, Step
<1>3. /\ phase = "test" /\ ~raised /\ Sees(host, vbd) /\ Sees(host, snap.disks)
      /\ todo \notin {Migrate2, Gone1, Drop2} /\ handler = NoHandler /\ power # "gone"
  BY <1>2, AttachingAt, Table DEF Steps, Step
<1>4. args.disk \in vbd /\ vdis = vbd
  BY <1>2, <1>3, Table DEF IInv, Right, Steps, Step
<1>5. Effect => Pool'
  BY <1>4 DEF IInv, Pool, Disks, guest, AddressAt
<1>6. CASE Effect /\ Proceed /\ struck' = struck
  <2>1. UNCHANGED raised /\ todo' = Disconnect2 /\ handler' = NoHandler
    BY <1>2, <1>3, <1>6 DEF Proceed, Continue, After
  <2>2. /\ todo' \in Attaching \cup {<<>>} /\ todo' = Disconnect2 /\ todo' # <<>>
        /\ todo' \notin {Connect3, Vdi1, Plug2, Disconnect4, Disconnect3, Unplug3, Connect2, Connect1, Disconnect1}
    BY <2>1, Table DEF Attaching, Steps, Step
  <2>3. args' = args /\ Test'
    BY <1>1, <1>6, <2>1, <2>2, SameArgsAre DEF object, IInv, Test
  <2>4. Sees(host, vbd)' /\ Sees(host, snap.disks)'
    BY <1>1, <1>3, <1>6 DEF Sees, object
  <2>5. power = "halted" \/ args'.disk \in unplugged'
    BY <1>6, <2>3
  <2> QED
    BY <1>1, <1>2, <1>3, <1>4, <1>5, <1>6, <2>1, <2>2, <2>3, <2>4, <2>5, HandlersApart, AttachingGoes DEF object
<1>7. CASE Effect /\ Raise /\ Strike("vbd-unplug")
  BY <1>1, <1>2, <1>3, <1>5, <1>7, HandlersApart, Loses DEF Doing
<1>8. CASE /\ Raise /\ UNCHANGED <<xapi, guest>>
           /\ IF Reachable /\ TRUE THEN Strike("vbd-unplug") ELSE UNCHANGED struck
  BY <1>1, <1>3, <1>8, CommandFails
<1> QED
  BY <1>6, <1>7, <1>8 DEF VbdUnplug, Command, Xe

\* connect_vdi failed to plug the disk: the test is over.
LEMMA UndoKeeps == ASSUME IInv, VbdDestroy, todo = Undo1 PROVE IInv'
<1> DEFINE Effect == /\ vbd' = vbd \ {args.disk} /\ unplugged' = unplugged \ {args.disk}
                     /\ UNCHANGED <<power, at, sr, snap, guest>>
<1>1. Doing("vbd-destroy") /\ SameArgs /\ UNCHANGED <<object, phase, moves>>
  BY DEF VbdDestroy, Command, Xe
<1>2. /\ todo # <<>> /\ todo \notin Testing \cup {Gone1, Destroy4, Stop4, Destroy3} /\ todo \notin Dropping
      /\ After(todo) = <<>>
  BY Apart, Table DEF Ending, Testing, Steps, Step
<1>3. phase = "test" /\ raised /\ power # "gone"
  <2>1. phase # "teardown"
    <3>1. todo # Drops(Cardinality(args.left)) \/ ~(args.left \subseteq vbd)
      BY DisksFinite, DropsApart DEF IInv, Pool, Disks, Ending
    <3> QED
      BY <1>2, <3>1 DEF IInv, Where
  <2> QED
    BY <1>2, <2>1 DEF IInv, Where, Idle
<1>4. handler = NoHandler
  BY <1>2 DEF IInv, Handlers, Testing, Attaching, Powering
<1>5. todo' = <<>> /\ handler' = NoHandler /\ raised' /\ args' = NoArgs
  BY <1>1, <1>2, <1>3, <1>4, HandlersApart DEF VbdDestroy, Command, Xe, Proceed, Continue, Raise, After, SameArgs
<1>6. Pool'
  <2>1. Effect \/ UNCHANGED <<xapi, guest>>
    BY DEF VbdDestroy, Command, Xe
  <2>2. CASE Effect
    BY <2>2 DEF IInv, Pool, Disks, guest, AddressAt
  <2>3. CASE UNCHANGED <<xapi, guest>>
    BY <2>3 DEF IInv, Pool, Disks, guest, xapi, AddressAt
  <2> QED
    BY <2>1, <2>2, <2>3
<1>7. struck \subseteq struck' /\ IsFiniteSet(struck') /\ Cardinality(struck') + moves <= MaxTrouble
  <2>1. struck' = struck \/ Strike("vbd-destroy")
    BY DEF VbdDestroy, Command, Xe
  <2> QED
    BY <2>1, StruckMore DEF IInv, Test
<1>8. Test'
  BY <1>1, <1>5, <1>7, SameArgsAre DEF IInv, Test, object
<1>9. UNCHANGED <<power, snap, at, host>>
  BY <1>1 DEF VbdDestroy, Command, Xe, xapi, object
<1>10. Where' /\ Handlers'
  BY <1>1, <1>3, <1>5, <1>9, HandlersApart, Apart DEF Where, Handlers, Attaching
<1>11. Kept'
  BY <1>1, <1>2, <1>3, <1>5, <1>7, <1>9 DEF IInv, Kept, SnapTrouble, Testing, Dropping
<1>12. Addressed'
  BY <1>5, Apart DEF Addressed, Powering, Before, Taking
<1>13. Right'
  BY <1>5 DEF Right
<1>14. Smooth'
  <2>1. ~Calm
    BY <1>3 DEF IInv, Smooth
  <2> QED
    BY <1>1, <1>7, <2>1 DEF Smooth, Calm
<1>15. Held'
  BY <1>5, Apart DEF Held, Reverting
<1> QED
  BY <1>6, <1>8, <1>10, <1>11, <1>12, <1>13, <1>14, <1>15 DEF IInv

LEMMA VbdDestroyKeeps == ASSUME IInv, VbdDestroy PROVE IInv'
<1> DEFINE Effect == /\ vbd' = vbd \ {args.disk} /\ unplugged' = unplugged \ {args.disk}
                     /\ UNCHANGED <<power, at, sr, snap, guest>>
<1>1. Doing("vbd-destroy") /\ SameArgs /\ UNCHANGED <<object, phase, moves>>
  BY DEF VbdDestroy, Command, Xe
<1>2. todo # Undo1 => todo = Disconnect2
  BY <1>1, Position DEF IInv, Places, Doing, First
<1> SUFFICES ASSUME todo = Disconnect2 PROVE IInv'
  BY <1>2, UndoKeeps
<1>3. After(todo) = Disconnect1 /\ todo \in Attaching /\ Disconnect1 # <<>>
  BY Table DEF Attaching, Steps, Step
<1>4. /\ phase = "test" /\ ~raised /\ Sees(host, vbd) /\ Sees(host, snap.disks)
      /\ todo \notin {Migrate2, Gone1, Drop2} /\ handler = NoHandler /\ power # "gone"
  BY <1>3, AttachingAt, Table DEF Steps, Step
<1>5. args.disk \in vbd /\ vdis = vbd
  BY <1>4, Table DEF IInv, Right, Steps, Step
<1>6. Effect => Pool'
  BY DEF IInv, Pool, Disks, guest, AddressAt
<1>7. CASE Effect /\ Proceed /\ struck' = struck
  <2>1. UNCHANGED raised /\ todo' = Disconnect1 /\ handler' = NoHandler
    BY <1>3, <1>4, <1>7 DEF Proceed, Continue, After
  <2>2. /\ todo' \in Attaching \cup {<<>>} /\ todo' = Disconnect1 /\ todo' # <<>>
        /\ todo' \notin {Connect3, Vdi1, Plug2, Disconnect4, Disconnect3, Disconnect2, Unplug3, Connect2, Connect1}
    BY <2>1, Table DEF Attaching, Steps, Step
  <2>3. args' = args /\ Test'
    BY <1>1, <1>7, <2>1, <2>2, SameArgsAre DEF object, IInv, Test
  <2>4. Sees(host, vbd)' /\ Sees(host, snap.disks)'
    BY <1>1, <1>4, <1>7 DEF Sees, object
  <2>5. args'.disk \in Disk \ (vbd' \cup snap.disks) /\ vdis' = vbd' \cup {args'.disk}
    BY <1>1, <1>5, <1>7, <2>3 DEF object, IInv, Pool, Disks
  <2> QED
    BY <1>1, <1>3, <1>4, <1>6, <1>7, <2>1, <2>2, <2>3, <2>4, <2>5, HandlersApart, AttachingGoes DEF object
<1>8. CASE Effect /\ Raise /\ Strike("vbd-destroy")
  BY <1>1, <1>3, <1>4, <1>6, <1>8, HandlersApart, Loses DEF Doing
<1>9. CASE /\ Raise /\ UNCHANGED <<xapi, guest>>
           /\ IF Reachable /\ args.disk \in vbd /\ (power = "halted" \/ args.disk \in unplugged)
                 THEN Strike("vbd-destroy") ELSE UNCHANGED struck
  <2>1. Calm => args.disk \in vbd /\ (power = "halted" \/ args.disk \in unplugged)
    BY <1>5 DEF IInv, Smooth, Powers
  <2> QED
    BY <1>1, <1>4, <1>9, <2>1, CommandFails
<1> QED
  BY <1>7, <1>8, <1>9 DEF VbdDestroy, Command, Xe

LEMMA RemoveKeeps == ASSUME IInv, Remove PROVE IInv'
<1>1. /\ Doing("remove") /\ Proceed /\ SameArgs /\ vdis' = vdis \ {args.disk}
      /\ sr' = [sr EXCEPT ![args.disk] = None]
      /\ UNCHANGED <<power, at, vbd, unplugged, snap, guest, host, ip, phase, struck, moves>>
  BY DEF Remove
<1>2. todo = Disconnect1 /\ After(todo) = <<>> /\ todo \in Attaching
  BY <1>1, Position, Table DEF IInv, Places, Doing, First, Attaching, Steps, Step
<1>3. ~raised /\ Sees(host, vbd) /\ Sees(host, snap.disks)
  BY <1>2, AttachingAt
<1>4. args.disk \in Disk \ (vbd \cup snap.disks) /\ vdis = vbd \cup {args.disk}
  BY <1>2, <1>3 DEF IInv, Right
<1>5. todo' = <<>> /\ handler' = NoHandler /\ UNCHANGED raised
  BY <1>1, <1>2 DEF Proceed, Continue, After
<1>6. sr' \in [Disk -> SR \cup {None}] /\ \A d \in Disk \ {args.disk} : sr'[d] = sr[d]
  BY <1>1 DEF IInv, Pool
<1>7. vbd \subseteq Disk \ {args.disk} /\ snap.disks \subseteq Disk \ {args.disk}
  BY <1>4 DEF IInv, Pool, Disks
<1>8. Pool'
  BY <1>1, <1>6, <1>7 DEF guest, IInv, Pool, Disks, AddressAt
<1>9. vdis' = vbd'
  BY <1>1, <1>4
<1>10. Test'
  BY <1>1, <1>4, <1>5, SameArgsAre DEF IInv, Test, Pool, Disks
<1>11. Sees(host, vbd)' /\ Sees(host, snap.disks)'
  BY <1>1, <1>3, <1>6, <1>7 DEF Sees
<1>12. todo' \notin Attaching /\ todo' \notin {Connect3, Vdi1, Plug2}
  BY <1>5, Apart DEF Attaching
<1> QED
  BY <1>1, <1>2, <1>5, <1>8, <1>9, <1>10, <1>11, <1>12, HandlersApart, AttachingGoes DEF Attaching

Least(s) == CHOOSE x \in s : \A y \in s : x <= y

LEMMA LeastIn ==
  ASSUME NEW s \in SUBSET Disk, s # {} PROVE Least(s) \in s
<1>1. s \in SUBSET Nat
  BY DEF Disk
<1>2. PICK v \in s : \A w \in s : ~(<<w, v>> \in OpToRel(<, Nat))
  BY <1>1, WFMin, NatLessThanWellFounded, Zenon
<1>3. \A w \in s : ~(w < v)
  BY <1>1, <1>2, Zenon DEF OpToRel
<1>4. \A w \in s : v <= w
  BY <1>1, <1>3
<1> QED
  BY <1>4 DEF Least

\* The places where a disk is destroyed: destroy_vdi called by a test, or by VM.destroy.
LEMMA DestroyingAt ==
  ASSUME IInv, Doing("vdi-destroy")
  PROVE  /\ todo # <<>> /\ todo \notin Migrating \cup Dropping \cup Taking \cup Ending /\ handler = NoHandler
         /\ todo \notin {Connect2, Plug2, Connect1, Disconnect1, List1, List6}
         /\ args.left \subseteq vbd /\ args.left # {} /\ power # "gone"
         /\ \/ phase = "test" /\ ~raised /\ After(todo) = <<>> /\ todo = Vdi1
            \/ /\ phase = "teardown" /\ Cardinality(args.left) - 1 \in Nat
               /\ After(todo) = Drops(Cardinality(args.left) - 1)
<1>1. todo # <<>> /\ First(todo) = "vdi-destroy"
  BY DEF Doing, First
<1>2. CASE todo = Vdi1
  <2>1. /\ todo \in Attaching /\ todo \notin Migrating \cup Ending /\ After(todo) = <<>>
        /\ todo \notin {Connect2, Plug2, Connect1, Disconnect1, List1, List6}
    BY <1>2, Table DEF Attaching, Migrating, Ending, Steps, Step
  <2>2. /\ phase = "test" /\ ~raised /\ todo \notin Dropping \cup Taking
        /\ handler = NoHandler /\ power # "gone"
    BY <1>2, <2>1, AttachingAt
  <2>3. args.left \subseteq vbd /\ args.left # {}
    BY <1>2 DEF IInv, Where
  <2> QED
    BY <1>2, <2>1, <2>2, <2>3, <1>1
<1>3. CASE todo # Vdi1
  <2>1. todo \notin Testing \cup Ending
    BY <1>1, <1>3, Placed DEF Places
  <2>2. phase = "teardown" /\ todo = Drops(Cardinality(args.left)) /\ args.left \subseteq vbd
    BY <2>1, <1>1 DEF IInv, Where, Testing, Ending, Idle
  <2>3. IsFiniteSet(args.left) /\ Cardinality(args.left) \in Nat
    BY <2>2, DisksFinite DEF IInv, Pool, Disks
  <2>4. Cardinality(args.left) # 0
    BY <1>1, <2>2, Drops0 DEF Step
  <2>5. args.left # {}
    BY <2>4, FS_EmptySet
  <2>6. /\ Cardinality(args.left) - 1 \in Nat
        /\ After(todo) = Drops(Cardinality(args.left) - 1)
    <3>1. Cardinality(args.left) > 0 /\ Cardinality(args.left) - 1 \in Nat
      BY <2>3, <2>4
    <3>2. Step(Drops(Cardinality(args.left)), "vdi-destroy", Cardinality(args.left) + 2,
               Drops(Cardinality(args.left) - 1))
      BY <2>3, <3>1, DropsAre
    <3> QED
      BY <2>2, <3>1, <3>2, Zenon DEF Step
  <2>7. handler = NoHandler
    BY <2>1 DEF IInv, Handlers, Testing, Attaching, Powering
  <2>8. power # "gone"
    BY <1>1, <2>1, NotGone DEF IInv, Ending
  <2> QED
    BY <1>1, <2>1, <2>2, <2>5, <2>6, <2>7, <2>8 DEF Testing, Attaching, Reverting
<1> QED
  BY <1>2, <1>3

LEMMA destroy_vdiKeeps == ASSUME IInv, destroy_vdi PROVE IInv'
<1> DEFINE d == Least(args.left)
           Destroyed == /\ sr' = [sr EXCEPT ![d] = None]
                        /\ vbd' = vbd \ {d} /\ unplugged' = unplugged \ {d}
           KeptAll   == UNCHANGED <<sr, vbd, unplugged>>
           allowed   == power = "halted" \/ d \in unplugged
<1>1. /\ Doing("vdi-destroy")
      /\ args' = [args EXCEPT !.left = @ \ {d}]
      /\ vdis' = vdis \ {d}
      /\ \/ d \notin vdis /\ KeptAll /\ Proceed /\ UNCHANGED struck
         \/ d \in vdis /\ allowed /\ Destroyed /\ Proceed /\ UNCHANGED struck
         \/ d \in vdis /\ allowed /\ (Destroyed \/ KeptAll) /\ Raise /\ Strike("vdi-destroy")
         \/ d \in vdis /\ ~allowed /\ KeptAll /\ Raise /\ UNCHANGED struck
      /\ UNCHANGED <<power, at, snap, guest, host, ip, phase, moves>>
  BY DEF destroy_vdi, Least
<1>2. /\ todo # <<>> /\ todo \notin Migrating \cup Dropping \cup Taking \cup Ending /\ handler = NoHandler
      /\ todo \notin {Connect2, Plug2, Connect1, Disconnect1, List1, List6}
      /\ args.left \subseteq vbd /\ args.left # {} /\ power # "gone"
      /\ \/ phase = "test" /\ ~raised /\ After(todo) = <<>> /\ todo = Vdi1
         \/ /\ phase = "teardown" /\ Cardinality(args.left) - 1 \in Nat
            /\ After(todo) = Drops(Cardinality(args.left) - 1)
  BY <1>1, DestroyingAt
<1>3. vbd \subseteq Disk /\ snap.disks \subseteq Disk /\ snap.disks \cap vbd = {}
  BY DEF IInv, Pool, Disks
<1>4. d \in args.left /\ d \in vbd /\ d \notin snap.disks
  BY <1>2, <1>3, LeastIn
<1> HIDE DEF d
<1>5. Pool'
  <2>1. CASE Destroyed
    <3>1. sr' \in [Disk -> SR \cup {None}] /\ \A e \in Disk \ {d} : sr'[e] = sr[e]
      BY <2>1 DEF IInv, Pool
    <3>2. vbd' \subseteq Disk \ {d} /\ snap.disks \subseteq Disk \ {d}
      BY <1>3, <1>4, <2>1
    <3> QED
      BY <1>1, <1>4, <2>1, <3>1, <3>2 DEF IInv, Pool, Disks, guest, AddressAt
  <2>2. CASE KeptAll
    BY <1>1, <2>2 DEF IInv, Pool, Disks, guest, AddressAt
  <2> QED
    BY <1>1, <2>1, <2>2
<1>6. struck \subseteq struck' /\ IsFiniteSet(struck') /\ Cardinality(struck') + moves <= MaxTrouble
  BY <1>1, StruckMore DEF IInv, Test
<1>7. /\ args' \in Args /\ args'.left = args.left \ {d}
  BY <1>1 DEF IInv, Test, Args
<1>8. /\ handler' = NoHandler
      /\ \/ todo' = <<>> /\ raised'
         \/ todo' = After(todo) /\ raised' = raised /\ struck' = struck
            /\ ((d \notin vdis /\ KeptAll) \/ (d \in vdis /\ allowed /\ Destroyed))
  BY <1>1, <1>2, HandlersApart DEF Proceed, Continue, Raise, After
<1>9. Test'
  BY <1>1, <1>6, <1>7, <1>8 DEF IInv, Test
<1>10. todo' \notin Testing \ {<<>>} /\ todo' \notin Ending
  BY <1>2, <1>8, Apart, DropsApart DEF Ending
<1>11. args'.left \subseteq vbd'
  BY <1>1, <1>2, <1>7
<1>12. phase = "teardown" => todo' \in {<<>>, Drops(Cardinality(args'.left))}
  <2>1. Cardinality(args'.left) = Cardinality(args.left) - 1
    BY <1>2, <1>4, <1>7, <1>3, DisksFinite, FS_RemoveElement
  <2> QED
    BY <1>2, <1>8, <2>1
<1>13. Where' /\ Handlers'
  <2>1. todo' \notin {Vdi1, Plug2, Connect1, Shut2, Shut1} /\ todo' \notin Taking
    BY <1>10, Apart DEF Testing, Attaching, Powering
  <2>2. phase \in {"test", "teardown"} /\ (phase = "test" => todo' = <<>>)
    BY <1>2, <1>8
  <2>3. Where'
    BY <1>1, <1>2, <1>11, <1>12, <2>1, <2>2 DEF Where, Testing
  <2> QED
    BY <1>8, <2>1, <2>3, HandlersApart DEF Handlers
<1>14. Kept'
  BY <1>1, <1>2, <1>6 DEF IInv, Kept, SnapTrouble, Dropping
<1>15. Addressed'
  BY <1>10, Apart DEF Addressed, Testing, Powering, Before, Taking
<1>16. ~raised => vdis = vbd /\ PoolOf[host] = PoolOf[at] /\ Sees(host, vbd) /\ Sees(host, snap.disks)
                  /\ (phase = "teardown" => args.left = vbd)
  BY <1>2, DestroyingAt, Apart DEF IInv, Right, Migrating, Taking, Ending
<1>17. Right'
  <2> SUFFICES ASSUME ~raised' PROVE Right'
    BY DEF Right
  <2>1. ~raised /\ Destroyed /\ d \in vdis /\ vdis = vbd
    BY <1>4, <1>8, <1>16
  <2>2. \A e \in Disk \ {d} : sr'[e] = sr[e]
    BY <2>1 DEF IInv, Pool
  <2>3. Sees(host, vbd)' /\ Sees(host, snap.disks)'
    BY <1>1, <1>3, <1>4, <1>16, <2>1, <2>2 DEF Sees
  <2>4. vdis' = vbd' /\ (phase' = "teardown" => args'.left = vbd')
    BY <1>1, <1>7, <1>16, <2>1
  <2>5. todo' \notin Migrating /\ todo' \notin {Migrate2, Connect3, Connect2, Plug2, Connect1,
                         Disconnect4, Disconnect3, Unplug3, Disconnect2, Disconnect1}
    BY <1>10, Apart DEF Testing, Attaching, Migrating
  <2> QED
    BY <1>1, <1>16, <2>1, <2>3, <2>4, <2>5 DEF Right
<1>18. Smooth'
  <2> SUFFICES ASSUME Calm' PROVE ~raised' /\ Powers' /\ Snapped' /\ Moves'
    BY DEF Smooth
  <2>1. Calm
    BY <1>1, <1>6 DEF Calm
  <2>2. ~raised /\ Powers /\ Snapped
    BY <2>1 DEF IInv, Smooth
  <2>3. power = "halted"
    BY <1>2, <2>2 DEF Powers, Ending
  <2>4. vdis = vbd
    BY <1>16, <2>2
  <2>5. ~Strike("vdi-destroy")
    BY StruckMore DEF IInv, Calm
  <2>6. ~raised'
    BY <1>1, <1>4, <2>2, <2>3, <2>4, <2>5 DEF Proceed, Continue
  <2>7. Powers' /\ Moves'
    BY <1>1, <2>3, <1>10, Apart DEF Powers, Moves, Testing, Powering, Attaching, Migrating, Reverting, Before, Taking, Ending
  <2>8. Snapped'
    <3>1. ~file /\ ~snap.file
      BY <1>2, <2>2 DEF Snapped, Taking
    <3>2. todo' \notin Taking \cup Before \cup {Drop2, Drop1, Revert7}
      BY <1>10, Apart DEF Testing, Dropping, Reverting
    <3> QED
      BY <1>1, <3>1, <3>2 DEF Snapped, guest, Before, Taking
  <2> QED
    BY <2>6, <2>7, <2>8
<1>19. Held'
  BY <1>10, Apart DEF Held, Testing, Reverting
<1> QED
  BY <1>5, <1>9, <1>13, <1>14, <1>15, <1>17, <1>18, <1>19 DEF IInv

-----------------------------------------------------------------------------
(* Copies of disks.                                                        *)

LEMMA RankIs ==
  ASSUME NEW s \in SUBSET Disk, NEW d \in s
  PROVE  Rank(s, d) \in 0..Cardinality(s) - 1
<1> DEFINE below == {e \in s : e < d}
<1>1. below \subseteq s \ {d} /\ below \in SUBSET Disk
  <2>1. s \subseteq Nat
    BY DEF Disk
  <2>2. \A e \in below : e # d
    BY <2>1
  <2> QED
    BY <2>2
<1>2. IsFiniteSet(s) /\ IsFiniteSet(s \ {d}) /\ Cardinality(s) \in Nat /\ Cardinality(s \ {d}) = Cardinality(s) - 1
  BY DisksFinite, FS_RemoveElement
<1>3. Cardinality(below) \in Nat /\ Cardinality(below) <= Cardinality(s \ {d})
  BY <1>1, <1>2, DisksFinite, FS_Subset
<1> QED
  BY <1>2, <1>3 DEF Rank

LEMMA RanksDiffer ==
  ASSUME NEW s \in SUBSET Disk, NEW d \in s, NEW e \in s, d # e
  PROVE  Rank(s, d) # Rank(s, e)
<1>1. \A x, y \in s : x < y => Rank(s, x) < Rank(s, y)
  <2> SUFFICES ASSUME NEW x \in s, NEW y \in s, x < y PROVE Rank(s, x) < Rank(s, y)
    OBVIOUS
  <2> DEFINE a == {z \in s : z < x}
             b == {z \in s : z < y}
  <2>1. a \subseteq b \ {x} /\ x \in b /\ a \in SUBSET Disk /\ b \in SUBSET Disk
    <3>1. s \subseteq Nat
      BY DEF Disk
    <3>2. \A z \in a : z \in b /\ z # x
      BY <3>1
    <3> QED
      BY <3>2
  <2> HIDE DEF a, b
  <2>2. IsFiniteSet(b) /\ Cardinality(b) \in Nat /\ Cardinality(a) \in Nat
        /\ IsFiniteSet(b \ {x}) /\ Cardinality(b \ {x}) = Cardinality(b) - 1
    BY <2>1, DisksFinite, FS_RemoveElement
  <2>3. Cardinality(a) <= Cardinality(b \ {x})
    BY <2>1, <2>2, FS_Subset
  <2>4. Cardinality(a) < Cardinality(b)
    BY <2>2, <2>3
  <2> QED
    BY <2>4 DEF a, b, Rank
<1>2. d < e \/ e < d
  BY DEF Disk
<1>3. Rank(s, d) \in Nat /\ Rank(s, e) \in Nat
  BY RankIs, DisksFinite
<1> QED
  BY <1>1, <1>2, <1>3

LEMMA RanksMeet ==
  ASSUME NEW s \in SUBSET Disk, NEW k \in Nat, k < Cardinality(s)
  PROVE  \E d \in s : Rank(s, d) = k
<1> DEFINE t == 0..Cardinality(s) - 1
           r == [d \in s |-> Rank(s, d)]
<1>1. IsFiniteSet(s) /\ Cardinality(s) \in Nat
  BY DisksFinite
<1>2. IsFiniteSet(t) /\ Cardinality(t) = Cardinality(s)
  <2>1. \A m \in Nat : IsFiniteSet(0..m - 1) /\ Cardinality(0..m - 1) = m
    <3> TAKE m \in Nat
    <3>1. 0 \in Int /\ m - 1 \in Int
      OBVIOUS
    <3>2. /\ IsFiniteSet(0..m - 1)
          /\ Cardinality(0..m - 1) = IF 0 > m - 1 THEN 0 ELSE m - 1 - 0 + 1
      BY <3>1, FS_Interval, Zenon
    <3> QED
      BY <3>2
  <2> QED
    BY <1>1, <2>1
<1>3. r \in [s -> t]
  BY RankIs
<1>4. r \in Injection(s, t)
  BY <1>3, RanksDiffer DEF Injection, IsInjective
<1> HIDE DEF r, t
<1>5. r \in Surjection(s, t)
  BY <1>1, <1>2, <1>4, FS_Injection
<1>6. k \in t
  BY <1>1 DEF t
<1>7. \E d \in s : r[d] = k
  BY <1>5, <1>6 DEF Surjection
<1> QED
  BY <1>7 DEF r

\* The new disks are not more than were asked for.
LEMMA FreshAre ==
  ASSUME NEW n \in Nat
  PROVE  /\ Fresh(n) \in SUBSET Disk /\ Fresh(n) \cap (Disks \cup vdis) = {}
         /\ Cardinality(Fresh(n)) <= n
<1> DEFINE s == Fresh(n)
           t == 0..n - 1
           r == [d \in s |-> Rank(Unused, d)]
<1>1. s \in SUBSET Disk /\ s \subseteq Unused /\ Unused \in SUBSET Disk /\ s \cap (Disks \cup vdis) = {}
  BY DEF Fresh, Unused
<1>2. IsFiniteSet(t) /\ Cardinality(t) = n
  BY FS_Interval
<1>3. r \in [s -> t]
  <2> SUFFICES ASSUME NEW d \in s PROVE Rank(Unused, d) \in t
    OBVIOUS
  <2>1. Rank(Unused, d) < n /\ d \in Unused
    BY DEF Fresh
  <2>2. Rank(Unused, d) \in Nat
    BY <1>1, <2>1, RankIs, DisksFinite
  <2> QED
    BY <2>1, <2>2
<1>4. r \in Injection(s, t)
  BY <1>1, <1>3, RanksDiffer DEF Injection, IsInjective
<1> HIDE DEF r, s, t
<1>5. Cardinality(s) <= n
  BY <1>2, <1>4, FS_Injection
<1> QED
  BY <1>1, <1>5 DEF s

\* A copy is on the SR of the disk it is a copy of.
LEMMA Copies ==
  ASSUME sr \in [Disk -> SR \cup {None}], NEW old \in SUBSET Disks
  PROVE  LET new == Fresh(Cardinality(old))
         IN  /\ new \in SUBSET Disk /\ new \cap (Disks \cup vdis) = {}
             /\ \A d \in new : \E e \in old : CopyOf(old, new)[d] = sr[e]
             /\ \A d \in Disk \ new : CopyOf(old, new)[d] = sr[d]
             /\ CopyOf(old, new) \in [Disk -> SR \cup {None}]
<1> DEFINE new == Fresh(Cardinality(old))
<1>1. old \in SUBSET Disk /\ Cardinality(old) \in Nat
  BY DisksFinite DEF Disks
<1>2. new \in SUBSET Disk /\ new \cap (Disks \cup vdis) = {} /\ Cardinality(new) <= Cardinality(old)
  BY <1>1, FreshAre
<1> HIDE DEF new
<1>3. \A d \in new : \E e \in old : CopyOf(old, new)[d] = sr[e]
  <2> SUFFICES ASSUME NEW d \in new PROVE \E e \in old : CopyOf(old, new)[d] = sr[e]
    OBVIOUS
  <2>1. Rank(new, d) \in Nat /\ Rank(new, d) < Cardinality(old)
    <3>1. Cardinality(new) \in Nat /\ Rank(new, d) \in 0..Cardinality(new) - 1
      BY <1>2, DisksFinite, RankIs
    <3> QED
      BY <1>1, <1>2, <3>1
  <2>2. \E e \in old : Rank(old, e) = Rank(new, d)
    BY <1>1, <2>1, RanksMeet
  <2> QED
    BY <1>2, <2>2 DEF CopyOf
<1>4. \A d \in Disk \ new : CopyOf(old, new)[d] = sr[d]
  BY DEF CopyOf
<1>5. CopyOf(old, new) \in [Disk -> SR \cup {None}]
  <2>1. \A d \in Disk : CopyOf(old, new)[d] \in SR \cup {None}
    BY <1>1, <1>3, <1>4 DEF Disks
  <2>2. CopyOf(old, new) = [d \in Disk |-> CopyOf(old, new)[d]]
    BY DEF CopyOf
  <2> QED
    BY <2>1, <2>2
<1> QED
  BY <1>2, <1>3, <1>4, <1>5 DEF new

-----------------------------------------------------------------------------
(* The list of the disks, snapshots, and the fragment.                     *)

LEMMA Advances ==
  ASSUME IInv, todo # <<>>, GoesOn, power' = "gone" => power = "gone",
         First(todo) \notin {"finally", "vm-snapshot", "vdi-destroy", "vm-disk-list", "vm-destroy", "ip?", "agent?"},
         Pool', Test', Kept', Held', Right', Smooth'
  PROVE  IInv'
<1>1. todo' = After(todo) /\ todo \in Testing \cup Ending /\ Places(todo)
  BY Position DEF GoesOn, After, IInv
<1>2. Where' /\ Handlers'
  BY Onwards DEF IInv
<1>3. Addressed'
  BY <1>1, StillAddressed DEF IInv
<1> QED
  BY <1>2, <1>3 DEF IInv

LEMMA RightAt ==
  ASSUME phase' # "teardown", todo' \notin Migrating \cup Attaching, PoolOf[host'] = PoolOf[at'],
         Sees(host, vbd)', Sees(host, snap.disks)', todo' \notin {List1, List6, Fragment10} => vdis' = vbd'
  PROVE  Right'
  BY DEF Right, Attaching, Migrating

LEMMA create_vdis_listKeeps == ASSUME IInv, create_vdis_list PROVE IInv'
<1>1. Doing("create_vdis_list") /\ SameArgs /\ UNCHANGED <<xapi, guest, host, ip, phase, moves>>
  BY DEF create_vdis_list, Xe, object
<1>2. /\ todo # <<>> /\ First(todo) = "create_vdis_list" /\ todo \in {List1, List6, Fragment10}
  BY <1>1, Position DEF IInv, Places, Doing, First
<1>3. /\ todo \in Testing \ Dropping /\ todo \notin {Migrate2, Gone1, Drop2, Fragment11} /\ todo \notin Ending
      /\ todo = List1 => After(todo) = <<>>
      /\ todo = List6 => After(todo) = Resume5
      /\ todo = Fragment10 => After(todo) = Fragment9
  BY <1>2, Table DEF Testing, Dropping, Reverting, Taking, Ending, Steps, Step
<1>4. phase = "test" /\ ~raised /\ power # "gone"
  BY <1>2, <1>3, InTest DEF IInv
<1>5. UNCHANGED <<power, at, sr, vbd, unplugged, snap, boot, addr, file>>
  BY <1>1 DEF xapi, guest
<1>6. CASE vdis' = vbd /\ Proceed /\ struck' = struck
  <2>1. GoesOn /\ todo' = After(todo) /\ todo' \in {<<>>, Resume5, Fragment9} /\ ~raised'
    BY <1>1, <1>2, <1>3, <1>4, <1>6 DEF GoesOn, Proceed, Continue, After
  <2>2. /\ todo' \notin Migrating \cup Attaching \cup {List1, List6, Fragment10, Revert2, Revert7}
        /\ todo' = Resume5 => todo = List6
        /\ todo' = Fragment9 => todo = Fragment10
        /\ todo' \in Taking => todo \in Taking
    BY <1>2, <1>3, <2>1, Apart, Table DEF Migrating, Attaching, Taking, Steps, Step
  <2>3. Pool'
    BY <1>5 DEF IInv, Pool, Disks, AddressAt
  <2>4. Test'
    BY <1>1, <1>6, <2>1, SameArgsAre DEF IInv, Test, Pool, Disks, GoesOn
  <2>5. Kept'
    BY <1>1, <1>2, <1>3, <1>5, <1>6, <2>1, StillKept DEF IInv
  <2>6. Held'
    BY <1>5, <2>2 DEF IInv, Held
  <2>7. Sees(host, vbd)' /\ Sees(host, snap.disks)' /\ PoolOf[host'] = PoolOf[at']
    BY <1>1, <1>3, <1>4, <1>5 DEF IInv, Right, Sees
  <2>8. Right'
    BY <1>1, <1>4, <1>5, <1>6, <2>2, <2>7, RightAt
  <2>9. Smooth'
    <3> SUFFICES ASSUME Calm' PROVE ~raised' /\ Powers' /\ Snapped' /\ Moves'
      BY DEF Smooth
    <3>1. Powers /\ Snapped
      BY <1>1, <1>2, <1>3, <1>6, Calmly DEF Calm
    <3>2. Powers' /\ Moves'
      BY <1>1, <1>4, <1>5, <2>1, <2>2, <3>1, Apart, Table DEF Powers, Moves, Steps, Step
    <3>3. Snapped'
      BY <1>3, <1>5, <2>1, <2>2, <3>1, Apart, Table DEF Snapped, Taking, Steps, Step
    <3> QED
      BY <2>1, <3>2, <3>3
  <2> QED
    BY <1>2, <1>5, <2>1, <2>3, <2>4, <2>5, <2>6, <2>8, <2>9, Advances
<1>7. CASE /\ Raise /\ UNCHANGED object
           /\ IF Reachable /\ TRUE THEN Strike("create_vdis_list") ELSE UNCHANGED struck
  BY <1>1, <1>3, <1>7, CommandFails
<1> QED
  BY <1>6, <1>7 DEF create_vdis_list, Xe

LEMMA SnapUninstallKeeps == ASSUME IInv, SnapUninstall PROVE IInv'
<1> DEFINE Effect == /\ sr' = [d \in Disk |-> IF d \in snap.disks THEN None ELSE sr[d]]
                     /\ snap' = NoSnap /\ UNCHANGED <<power, at, vbd, unplugged, guest>>
<1>1. Doing("snapshot-uninstall") /\ SameArgs /\ UNCHANGED <<object, phase, moves>>
  BY DEF SnapUninstall, Command, Xe
<1>2. /\ todo # <<>> /\ First(todo) = "snapshot-uninstall" /\ todo = Drop2 /\ After(todo) = Drop1
      /\ todo \in Testing \cap Dropping
  BY <1>1, Position, Table DEF IInv, Places, Doing, First, Testing, Dropping, Steps, Step
<1>3. phase \in {"test", "defers"} /\ power # "gone" /\ handler = NoHandler
  <2>1. todo \notin {Plug2, Connect1, Shut2, Shut1}
    BY <1>2, Table DEF Steps, Step
  <2> QED
    BY <1>2, <2>1, InTest, Apart DEF IInv, Handlers
<1>4. Effect => /\ Pool' /\ (\A d \in vbd : sr'[d] = sr[d]) /\ NoSnap.disks = {}
                /\ snap' = NoSnap /\ UNCHANGED <<power, at, vbd>>
  <2> SUFFICES ASSUME Effect PROVE Pool' /\ \A d \in vbd : sr'[d] = sr[d]
    BY DEF NoSnap
  <2>1. vbd \subseteq Disk /\ snap.disks \cap vbd = {}
    BY DEF IInv, Pool, Disks
  <2>2. \A d \in vbd : sr'[d] = sr[d]
    BY <2>1
  <2>3. sr' \in [Disk -> SR \cup {None}]
    BY DEF IInv, Pool
  <2>4. vbd \subseteq Disks'
    BY <2>1, <2>2 DEF IInv, Pool, Disks
  <2>5. /\ NoSnap \in Snaps /\ NoSnap.disks = {} /\ NoSnap.boot = 0 /\ NoSnap.addr = None
    BY DEF NoSnap, Snaps, Address
  <2>6. AddressAt(snap.boot, snap.addr)'
    BY <2>5 DEF AddressAt
  <2> QED
    BY <2>2, <2>3, <2>4, <2>5, <2>6 DEF IInv, Pool, guest, AddressAt
<1>5. CASE Effect /\ Proceed /\ struck' = struck
  <2>1. GoesOn /\ todo' = Drop1 /\ raised' = raised
    BY <1>1, <1>2, <1>5 DEF GoesOn, Proceed, Continue, After
  <2>2. todo' # <<>> /\ todo' \notin Migrating \cup Attaching \cup Taking
        \cup {List1, List6, Fragment10, Revert2, Revert7, Drop2}
    BY <2>1, Table DEF Migrating, Attaching, Taking, Steps, Step
  <2>3. Test'
    BY <1>1, <1>5, <2>1, SameArgsAre DEF IInv, Test, object
  <2>4. Kept' /\ Held'
    BY <1>4, <1>5, <2>2 DEF Kept, Held
  <2>5. Right'
    <3> SUFFICES ASSUME ~raised' PROVE Right'
      BY DEF Right
    <3>1. PoolOf[host] = PoolOf[at] /\ Sees(host, vbd) /\ vdis = vbd
      BY <1>2, <2>1, Table DEF IInv, Right, Steps, Step
    <3>2. Sees(host, vbd)' /\ Sees(host, snap.disks)'
      BY <1>1, <1>4, <1>5, <3>1 DEF Sees, object
    <3> QED
      BY <1>1, <1>3, <1>4, <1>5, <2>2, <3>1, <3>2, RightAt DEF object
  <2>6. Smooth'
    <3> SUFFICES ASSUME Calm' PROVE ~raised' /\ Powers' /\ Snapped' /\ Moves'
      BY DEF Smooth
    <3>1. ~raised /\ Snapped
      BY <1>1, <1>5 DEF Calm, IInv, Smooth
    <3>2. Powers' /\ Moves'
      BY <1>1, <1>3, <2>1, Table DEF Powers, Moves, Steps, Step
    <3>3. ~file' /\ ~snap'.file
      BY <1>2, <1>5, <3>1, Table DEF Snapped, NoSnap, guest, Steps, Step
    <3>4. Snapped'
      BY <1>4, <1>5, <2>1, <2>2, <3>3, Table DEF Snapped, Steps, Step
    <3> QED
      BY <2>1, <3>1, <3>2, <3>4
  <2> QED
    BY <1>2, <1>4, <1>5, <2>1, <2>3, <2>4, <2>5, <2>6, Advances
<1>6. CASE Effect /\ Raise /\ Strike("snapshot-uninstall")
  BY <1>1, <1>3, <1>4, <1>6, HandlersApart, Loses
<1>7. CASE /\ Raise /\ UNCHANGED <<xapi, guest>>
           /\ IF Reachable /\ snap # NoSnap THEN Strike("snapshot-uninstall") ELSE UNCHANGED struck
  <2>1. Strike("snapshot-uninstall") => "snapshot-uninstall" \in struck'
    BY StruckMore DEF IInv
  <2>2. struck' = struck /\ snap # NoSnap => SnapTrouble
    <3> SUFFICES ASSUME struck' = struck, snap # NoSnap, ~SnapTrouble PROVE FALSE
      OBVIOUS
    <3>1. Reachable
      BY <1>3 DEF IInv, Kept, Reachable
    <3> QED
      BY <1>7, <2>1, <3>1 DEF SnapTrouble
  <2>3. ~(struck' = struck /\ Calm)
    <3>1. Calm => snap # NoSnap
      BY <1>2 DEF IInv, Smooth, Snapped
    <3> QED
      BY <2>2, <3>1 DEF Calm, SnapTrouble
  <2> QED
    BY <1>1, <1>7, <2>1, <2>2, <2>3, Refuses
<1> QED
  BY <1>5, <1>6, <1>7 DEF SnapUninstall, Command, Xe

LEMMA SnapGoneKeeps == ASSUME IInv, SnapGone PROVE IInv'
<1>1. Doing("snapshot-gone?") /\ SameArgs /\ UNCHANGED <<xapi, guest, object, phase, moves>>
  BY DEF SnapGone, Read, Xe
<1>2. /\ todo # <<>> /\ First(todo) = "snapshot-gone?" /\ todo = Drop1 /\ After(todo) = <<>>
      /\ todo \in Testing \cap Dropping /\ todo # Drop2
  BY <1>1, Position, Table DEF IInv, Places, Doing, First, Testing, Dropping, Steps, Step
<1>3. phase \in {"test", "defers"}
  BY <1>2, InTest DEF IInv
<1>4. UNCHANGED <<power, at, sr, vbd, unplugged, snap, boot, addr, file>>
  BY <1>1 DEF xapi, guest
<1>5. CASE Proceed /\ struck' = struck
  <2>1. GoesOn /\ todo' = <<>> /\ raised' = raised
    BY <1>1, <1>2, <1>5 DEF GoesOn, Proceed, Continue, After
  <2>2. Pool'
    BY <1>4 DEF IInv, Pool, Disks, AddressAt
  <2>3. Smooth'
    <3> SUFFICES ASSUME Calm' PROVE ~raised' /\ Powers' /\ Snapped' /\ Moves'
      BY DEF Smooth
    <3>1. ~raised /\ Snapped
      BY <1>1, <1>5 DEF Calm, IInv, Smooth
    <3>2. Powers' /\ Moves'
      BY <1>1, <1>3, <2>1, Apart, Table DEF Powers, Moves, Steps, Step
    <3>3. Snapped'
      BY <1>2, <1>4, <2>1, <3>1, Apart, Table DEF Snapped, Taking, Steps, Step
    <3> QED
      BY <2>1, <3>1, <3>2, <3>3
  <2> QED
    BY <1>1, <1>4, <1>5, <2>1, <2>2, <2>3, SameArgsAre, Goes DEF Plain, object, IInv, Test
<1>6. CASE Raise /\ struck' = struck /\ snap # NoSnap
  <2>1. ~Calm
    BY <1>2, <1>6 DEF IInv, Smooth, Snapped
  <2> QED
    BY <1>1, <1>2, <1>6, <2>1, Refuses
<1>7. CASE Raise /\ IF Reachable /\ TRUE THEN Strike("snapshot-gone?") ELSE UNCHANGED struck
  <2>1. todo \notin {Migrate2, Gone1, Drop2}
    BY <1>2, Table DEF Steps, Step
  <2> QED
    BY <1>1, <1>7, <2>1, CommandFails
<1> QED
  BY <1>5, <1>6, <1>7 DEF SnapGone, Read, Xe

LEMMA TouchKeeps == ASSUME IInv, Touch PROVE IInv'
<1>1. Doing("touch") /\ SameArgs /\ UNCHANGED <<xapi, boot, addr, object, phase, moves>>
  BY DEF Touch, Xe, guest
<1>2. /\ todo # <<>> /\ First(todo) = "touch" /\ todo = Fragment12 /\ After(todo) = Fragment11
      /\ todo \in Taking \ {Fragment11} /\ todo \notin {Migrate2, Gone1, Drop2} /\ todo \in Testing \ Dropping
  BY <1>1, Position, Table DEF IInv, Places, Doing, First, Testing, Taking, Dropping, Steps, Step
<1>3. phase = "test" /\ ~raised
  BY <1>2, InTest DEF IInv
<1>4. UNCHANGED <<power, at, sr, vbd, unplugged, snap, boot, addr>>
  BY <1>1 DEF xapi
<1>5. CASE file' = TRUE /\ Proceed /\ struck' = struck
  <2>1. GoesOn /\ todo' = Fragment11 /\ raised' = raised
    BY <1>1, <1>2, <1>5 DEF GoesOn, Proceed, Continue, After
  <2>2. Pool'
    BY <1>4, <1>5 DEF IInv, Pool, Disks, AddressAt
  <2>3. Smooth'
    <3> SUFFICES ASSUME Calm' PROVE ~raised' /\ Powers' /\ Snapped' /\ Moves'
      BY DEF Smooth
    <3>1. ~raised /\ Snapped
      BY <1>1, <1>5 DEF Calm, IInv, Smooth
    <3>2. Powers' /\ Moves'
      BY <1>1, <1>3, <2>1, Table DEF Powers, Moves, Steps, Step
    <3>3. Snapped'
      BY <1>2, <1>4, <2>1, <3>1, Table DEF Snapped, Taking, Steps, Step
    <3> QED
      BY <2>1, <3>1, <3>2, <3>3
  <2> QED
    BY <1>1, <1>4, <1>5, <2>1, <2>2, <2>3, SameArgsAre, Goes DEF Plain, object, IInv, Test
<1>6. CASE Raise /\ UNCHANGED guest /\ IF Reachable /\ Answers THEN Strike("touch") ELSE UNCHANGED struck
  <2>1. Calm => Answers
    BY <1>2 DEF IInv, Smooth, Snapped
  <2>2. Answers \in BOOLEAN
    BY DEF Answers
  <2> QED
    BY <1>1, <1>2, <1>6, <2>1, <2>2, CommandFails
<1> QED
  BY <1>5, <1>6 DEF Touch, Xe

LEMMA FileGoneKeeps == ASSUME IInv, FileGone PROVE IInv'
<1>1. Doing("no-file?") /\ SameArgs /\ UNCHANGED <<xapi, guest, object, phase, moves>>
  BY DEF FileGone, Xe
<1>2. /\ todo # <<>> /\ First(todo) = "no-file?" /\ todo = Fragment4 /\ After(todo) = Fragment3
      /\ todo \in Taking \ {Fragment11} /\ todo \notin {Migrate2, Gone1, Drop2} /\ todo \in Testing \ Dropping
  BY <1>1, Position, Table DEF IInv, Places, Doing, First, Testing, Taking, Dropping, Steps, Step
<1>3. phase = "test" /\ ~raised
  BY <1>2, InTest DEF IInv
<1>4. UNCHANGED <<power, at, sr, vbd, unplugged, snap, boot, addr, file>>
  BY <1>1 DEF xapi, guest
<1>5. CASE Proceed /\ struck' = struck
  <2>1. GoesOn /\ todo' = Fragment3 /\ raised' = raised
    BY <1>1, <1>2, <1>5 DEF GoesOn, Proceed, Continue, After
  <2>2. Pool'
    BY <1>4, <1>5 DEF IInv, Pool, Disks, AddressAt
  <2>3. Smooth'
    <3> SUFFICES ASSUME Calm' PROVE ~raised' /\ Powers' /\ Snapped' /\ Moves'
      BY DEF Smooth
    <3>1. ~raised /\ Snapped
      BY <1>1, <1>5 DEF Calm, IInv, Smooth
    <3>2. Powers' /\ Moves'
      BY <1>1, <1>3, <2>1, Table DEF Powers, Moves, Steps, Step
    <3>3. Snapped'
      BY <1>2, <1>4, <2>1, <3>1, Table DEF Snapped, Taking, Steps, Step
    <3> QED
      BY <2>1, <3>1, <3>2, <3>3
  <2> QED
    BY <1>1, <1>4, <1>5, <2>1, <2>2, <2>3, SameArgsAre, Goes DEF Plain, object, IInv, Test
<1>6. CASE Raise /\ IF Reachable /\ Answers /\ ~file THEN Strike("no-file?") ELSE UNCHANGED struck
  <2>1. Calm => Answers /\ ~file
    BY <1>2 DEF IInv, Smooth, Snapped
  <2>2. (Answers /\ ~file) \in BOOLEAN
    BY DEF Answers
  <2> QED
    BY <1>1, <1>2, <1>6, <2>1, <2>2, CommandFails
<1> QED
  BY <1>5, <1>6 DEF FileGone, Xe

\* Drop2 is what is left, and what an exception would lead to.
LEMMA FinallyKeeps == ASSUME IInv, Finally PROVE IInv'
<1>1. /\ Doing("finally") /\ todo' = Tail(todo) /\ handler' = NoHandler
      /\ UNCHANGED <<object, args, raised, xapi, guest, phase, struck, moves>>
  BY DEF Finally, Local
<1>2. /\ todo # <<>> /\ todo = Fragment3 /\ todo' = Drop2
      /\ todo \in Taking \ {Fragment11} /\ todo \in Testing \ Dropping /\ todo # Drop2
      /\ todo \notin {Migrate2, List1, List6, Fragment10, Connect2, Plug2, Connect1, Disconnect1}
  <2>1. todo # <<>> /\ First(todo) = "finally" /\ todo' = After(todo)
    BY <1>1 DEF Doing, First, After
  <2>2. todo = Fragment3
    BY <2>1, Position DEF IInv, Places
  <2> QED
    BY <2>1, <2>2, Table DEF Testing, Taking, Dropping, Steps, Step
<1>3. phase = "test" /\ ~raised /\ power # "gone"
  BY <1>2, InTest DEF IInv
<1>4. UNCHANGED <<power, at, sr, vbd, unplugged, snap, boot, addr, file, host, vdis, ip>>
  BY <1>1 DEF xapi, guest, object
<1>5. /\ todo' \in Dropping /\ todo' \notin Taking \cup Migrating \cup Attaching
      /\ todo' \notin {<<>>, Revert2, Revert7, List1, List6, Fragment10}
  BY <1>2, Table DEF Dropping, Taking, Migrating, Attaching, Steps, Step
<1>6. Pool' /\ Test'
  BY <1>1, <1>4 DEF IInv, Pool, Test, Disks, AddressAt
<1>7. Where'
  BY <1>1, <1>3, <1>4, <1>5 DEF Where, Testing, Attaching
<1>8. Handlers' /\ Held'
  BY <1>1, <1>5, HandlersApart DEF Handlers, Held
<1>9. Kept'
  BY <1>1, <1>2, <1>3, <1>4 DEF IInv, Kept, SnapTrouble
<1>10. Addressed'
  BY <1>2, Table DEF Addressed, Steps, Step
<1>11. Right'
  <2>1. PoolOf[host] = PoolOf[at] /\ Sees(host, vbd) /\ Sees(host, snap.disks) /\ vdis = vbd
    BY <1>2, <1>3 DEF IInv, Right
  <2> QED
    BY <1>1, <1>3, <1>4, <1>5, <2>1, RightAt DEF Sees
<1>12. Smooth'
  <2> SUFFICES ASSUME Calm' PROVE ~raised' /\ Powers' /\ Snapped' /\ Moves'
    BY DEF Smooth
  <2>1. Snapped
    BY <1>1 DEF Calm, IInv, Smooth
  <2>2. Powers' /\ Moves'
    <3>1. todo' = Drop2 /\ phase' = "test"
      BY <1>1, <1>2, <1>3
    <3> QED
      BY <3>1, Table DEF Powers, Moves, Steps, Step
  <2>3. Snapped'
    BY <1>2, <1>4, <2>1, Table DEF Snapped, Taking, Steps, Step
  <2> QED
    BY <1>1, <1>3, <2>2, <2>3
<1> QED
  BY <1>6, <1>7, <1>8, <1>9, <1>10, <1>11, <1>12 DEF IInv

LEMMA RevertKeeps == ASSUME IInv, Revert PROVE IInv'
<1> DEFINE new == Fresh(Cardinality(snap.disks))
           Effect == /\ power' = snap.power /\ boot' = snap.boot /\ addr' = snap.addr /\ file' = snap.file
                     /\ vbd' = new /\ unplugged' = {}
                     /\ sr' = [d \in Disk |-> IF d \in vbd THEN None ELSE CopyOf(snap.disks, new)[d]]
                     /\ UNCHANGED <<at, snap>>
<1>1. Doing("snapshot-revert") /\ SameArgs /\ UNCHANGED <<object, phase, moves>>
  BY DEF Revert, Command, Xe
<1>2. /\ todo # <<>> /\ First(todo) = "snapshot-revert" /\ todo \in {Revert2, Revert7, Fragment11}
  BY <1>1, Position DEF IInv, Places, Doing, First
<1>3. /\ todo \in Testing \ Dropping /\ todo \notin {Migrate2, Gone1, Drop2, Shut2, Shut1} /\ todo \notin Ending
      /\ todo \in {Revert2, Revert7} \cup Taking
      /\ todo = Revert2 => After(todo) = List1
      /\ todo = Revert7 => After(todo) = List6
      /\ todo = Fragment11 => After(todo) = Fragment10
  BY <1>2, Table DEF Testing, Dropping, Reverting, Taking, Ending, Steps, Step
<1>4. phase = "test" /\ ~raised /\ power # "gone" /\ snap # NoSnap /\ handler # Forcing
  BY <1>2, <1>3, InTest DEF IInv, Held, Handlers
<1>5. /\ PoolOf[host] = PoolOf[at] /\ Sees(host, snap.disks)
  BY <1>3, <1>4 DEF IInv, Right
<1>6. /\ snap.disks \in SUBSET Disks /\ snap.disks \cap vbd = {} /\ snap \in Snaps
      /\ snap.power \in {"halted", "suspended"}
  BY <1>4 DEF IInv, Pool, Snaps
<1>7. Effect => /\ Pool' /\ power' \in {"halted", "suspended"}
                /\ \A d \in vbd' : \E e \in snap.disks : sr'[d] = sr[e]
                /\ \A d \in snap.disks : sr'[d] = sr[d]
  <2> SUFFICES ASSUME Effect
               PROVE  /\ Pool' /\ power' \in {"halted", "suspended"}
                      /\ \A d \in vbd' : \E e \in snap.disks : sr'[d] = sr[e]
                      /\ \A d \in snap.disks : sr'[d] = sr[d]
    OBVIOUS
  <2>1. /\ new \in SUBSET Disk /\ new \cap (Disks \cup vdis) = {}
        /\ \A d \in new : \E e \in snap.disks : CopyOf(snap.disks, new)[d] = sr[e]
        /\ \A d \in Disk \ new : CopyOf(snap.disks, new)[d] = sr[d]
        /\ CopyOf(snap.disks, new) \in [Disk -> SR \cup {None}]
    BY <1>6, Copies DEF IInv, Pool
  <2> HIDE DEF new
  <2>2. vbd \subseteq Disks /\ snap.disks \subseteq Disk
    BY <1>6 DEF IInv, Pool, Disks
  <2>3. sr' \in [Disk -> SR \cup {None}]
    BY <2>1
  <2>4. \A d \in vbd' : \E e \in snap.disks : sr'[d] = sr[e]
    BY <2>1, <2>2
  <2>5. \A d \in snap.disks : sr'[d] = sr[d]
    BY <1>6, <2>1, <2>2
  <2>6. vbd' \subseteq Disks' /\ snap'.disks \subseteq Disks' /\ snap'.disks \cap vbd' = {}
    BY <1>6, <2>1, <2>2, <2>4, <2>5 DEF Disks
  <2>7. boot' \in 0..4 /\ addr' \in Address /\ file' \in BOOLEAN /\ AddressAt(boot', addr')
    BY <1>6 DEF IInv, Pool, Snaps
  <2> QED
    BY <1>4, <1>6, <2>3, <2>4, <2>5, <2>6, <2>7 DEF IInv, Pool
<1> HIDE DEF new
<1>8. CASE Effect /\ Proceed /\ struck' = struck
  <2>1. GoesOn /\ todo' = After(todo) /\ todo' \in {List1, List6, Fragment10} /\ raised' = raised
    BY <1>1, <1>2, <1>3, <1>8, Table DEF GoesOn, Proceed, Continue, After
  <2>2. /\ todo' \notin Migrating \cup Attaching \cup {Revert2, Revert7} /\ todo' # <<>>
        /\ todo' = List6 => todo = Revert7
        /\ todo' = Fragment10 => todo = Fragment11
    BY <1>2, <1>3, <2>1, Table DEF Migrating, Attaching, Steps, Step
  <2>3. Test'
    BY <1>1, <1>8, <2>1, SameArgsAre DEF IInv, Test, object
  <2>4. Kept'
    BY <1>1, <1>2, <1>3, <1>8, <2>1, StillKept DEF IInv, object
  <2>5. Held'
    BY <1>4, <1>8 DEF Held
  <2>6. Sees(host, vbd)' /\ Sees(host, snap.disks)'
    BY <1>1, <1>5, <1>7, <1>8 DEF Sees, object
  <2>7. Right'
    BY <1>1, <1>4, <1>5, <1>8, <2>1, <2>2, <2>6, RightAt DEF object
  <2>8. Smooth'
    <3> SUFFICES ASSUME Calm' PROVE ~raised' /\ Powers' /\ Snapped' /\ Moves'
      BY DEF Smooth
    <3>1. Snapped
      BY <1>1, <1>2, <1>3, <1>8, Calmly DEF Calm
    <3>2. /\ todo' = List6 => power' = "suspended"
          /\ todo' = Fragment10 => power' = "halted"
      BY <1>8, <2>2, <3>1 DEF Snapped
    <3>3. Powers' /\ Moves'
      BY <1>1, <1>4, <2>1, <3>2, Table DEF Powers, Moves, Steps, Step
    <3>4. Snapped'
      BY <1>4, <1>8, <2>1, <3>1, Table DEF Snapped, Steps, Step
    <3> QED
      BY <1>4, <2>1, <3>3, <3>4
  <2> QED
    BY <1>2, <1>4, <1>7, <1>8, <2>1, <2>3, <2>4, <2>5, <2>7, <2>8, Advances
<1>9. CASE Effect /\ Raise /\ Strike("snapshot-revert")
  BY <1>1, <1>3, <1>4, <1>7, <1>9, Loses
<1>10. CASE /\ Raise /\ UNCHANGED <<xapi, guest>>
            /\ IF Reachable /\ TRUE THEN Strike("snapshot-revert") ELSE UNCHANGED struck
  BY <1>1, <1>3, <1>10, CommandFails
<1>11. Effect \/ UNCHANGED <<xapi, guest>>
  BY DEF Revert, Command, Xe, new
<1> QED
  BY <1>8, <1>9, <1>10 DEF Revert, Command, Xe, new

-----------------------------------------------------------------------------
(* migrate                                                                 *)

LEMMA MigratingAt ==
  ASSUME IInv, todo \in Migrating
  PROVE  /\ todo # <<>> /\ todo \in Testing \ (Dropping \cup Taking) /\ todo \notin Ending
         /\ todo \notin {Gone1, Drop2, Shut2, Shut1, Fragment11, List1, List6, Fragment10, Fragment13}
         /\ phase = "test" /\ ~raised /\ power # "gone" /\ handler = NoHandler
         /\ snap = NoSnap /\ args.target \in Host /\ Sees(host, snap.disks)
         /\ todo # Migrate2 => PoolOf[host] = PoolOf[at] /\ Sees(host, vbd) /\ vdis = vbd
<1>1. /\ todo # <<>> /\ todo \in Testing \ (Dropping \cup Taking) /\ todo \notin Ending
      /\ todo \notin {Gone1, Drop2, Shut2, Shut1, Fragment11, List1, List6, Fragment10, Fragment13}
      /\ todo \notin {Connect2, Plug2, Connect1, Disconnect1}
  BY Table DEF Testing, Migrating, Dropping, Taking, Ending, Steps, Step
<1>2. phase = "test" /\ ~raised /\ power # "gone"
  BY <1>1, InTest DEF IInv
<1>3. handler = NoHandler
  BY <1>1 DEF IInv, Handlers
<1>4. /\ snap = NoSnap /\ args.target \in Host /\ Sees(host, snap.disks)
      /\ todo # Migrate2 => PoolOf[host] = PoolOf[at] /\ Sees(host, vbd) /\ vdis = vbd
  BY <1>1, <1>2 DEF IInv, Right
<1> QED
  BY <1>1, <1>2, <1>3, <1>4

LEMMA LiveNextKeeps == ASSUME IInv, LiveNext PROVE IInv'
<1>1. Doing("live?") /\ UNCHANGED <<xapi, guest, object, phase, moves>>
  BY DEF LiveNext, Xe
<1>2. /\ First(todo) = "live?" /\ todo \in {Migrate4, SameSr5} /\ todo \in Migrating
      /\ todo \notin {Migrate2, Gone1, Drop2}
      /\ todo = Migrate4 => After(todo) = Migrate3
      /\ todo = SameSr5 => After(todo) = SameSr4
  BY <1>1, Position, Table DEF IInv, Places, Doing, First, Migrating, Steps, Step
<1>3. /\ todo # <<>> /\ todo \in Testing \ (Dropping \cup Taking) /\ todo # Fragment11
      /\ phase = "test" /\ ~raised /\ power # "gone" /\ handler = NoHandler
  BY <1>2, MigratingAt
<1>4. UNCHANGED <<power, at, sr, vbd, unplugged, snap, boot, addr, file, host, vdis, ip>>
  BY <1>1 DEF xapi, guest, object
<1>5. CASE args' = [args EXCEPT !.live = (power = "running")] /\ Proceed /\ struck' = struck
  <2>1. GoesOn /\ todo' = After(todo) /\ raised' = raised
    BY <1>1, <1>5 DEF GoesOn, Proceed, Continue, After
  <2>2. /\ todo' \in {Migrate3, SameSr4}
        /\ todo' = Migrate3 => todo = Migrate4
        /\ todo' = SameSr4 => todo = SameSr5
    BY <1>2, <2>1, Table DEF Steps, Step
  <2>3. /\ args' \in Args /\ args'.live = (power = "running")
        /\ UNCHANGED <<args.target, args.disk, args.sr, args.net, args.want>>
    BY <1>5 DEF IInv, Test, Args
  <2>4. Pool'
    BY <1>4 DEF IInv, Pool, Disks, AddressAt
  <2>5. Smooth'
    <3> SUFFICES ASSUME Calm' PROVE ~raised' /\ Powers' /\ Snapped' /\ Moves'
      BY DEF Smooth
    <3>1. Snapped /\ Moves
      BY <1>1, <1>5 DEF Calm, IInv, Smooth
    <3>2. Powers'
      BY <1>1, <1>3, <2>2, Table DEF Powers, Steps, Step
    <3>3. Snapped'
      BY <1>3, <1>4, <2>2, <3>1, Table DEF Snapped, Taking, Steps, Step
    <3>4. todo' = Migrate3 => Movable(args.target, args.sr, args.net, power = "running")
      <4> SUFFICES ASSUME todo = Migrate4 PROVE Movable(args.target, args.sr, args.net, power = "running")
        BY <2>2
      <4>1. /\ args.sr = None /\ vbd # {}
            /\ \A d \in vbd : Movable(args.target, same_sr(args.sr, d), args.net, power = "running")
        BY <3>1 DEF Moves
      <4>2. \A d \in vbd : same_sr(args.sr, d) = args.sr
        BY <4>1 DEF same_sr
      <4> QED
        BY <4>1, <4>2
    <3>7. todo' = Migrate3 => Movable(args.target, args.sr, args.net, args.live)'
      BY <1>4, <2>3, <3>4 DEF Movable, storage_motion, Destination, SeenBy
    <3>8. todo' = SameSr4 =>
             /\ vbd' # {}
             /\ \A d \in vbd' : Movable(args.target, same_sr(args.sr, d), args.net, power = "running")'
      <4> SUFFICES ASSUME todo = SameSr5
                   PROVE  /\ vbd' # {}
                          /\ \A d \in vbd' : Movable(args.target, same_sr(args.sr, d), args.net, power = "running")'
        BY <2>2
      <4>1. /\ vbd # {}
            /\ \A d \in vbd : Movable(args.target, same_sr(args.sr, d), args.net, power = "running")
        BY <3>1 DEF Moves
      <4> QED
        BY <1>4, <2>3, <4>1 DEF Movable, storage_motion, Destination, SeenBy, same_sr
    <3>9. Moves'
      BY <1>4, <2>2, <2>3, <3>7, <3>8, Table DEF Moves, Steps, Step
    <3> QED
      BY <1>3, <2>1, <3>2, <3>3, <3>9
  <2> QED
    BY <1>1, <1>3, <1>4, <1>5, <2>1, <2>3, <2>4, <2>5, Goes DEF Plain, IInv, Test
<1>6. CASE Raise /\ SameArgs /\ IF Reachable /\ TRUE THEN Strike("live?") ELSE UNCHANGED struck
  BY <1>1, <1>2, <1>6, CommandFails
<1> QED
  BY <1>5, <1>6 DEF LiveNext, Xe

LEMMA SameSrNextKeeps == ASSUME IInv, SameSrNext PROVE IInv'
<1>1. PICK first \in vbd :
        Xe("same-sr?", host \in SeenFrom[sr[first]],
           /\ args' = [args EXCEPT !.sr = same_sr(@, first)]
           /\ UNCHANGED <<xapi, guest, object>>, Proceed)
  BY DEF SameSrNext
<1>2. Doing("same-sr?") /\ UNCHANGED <<xapi, guest, object, phase, moves>>
  BY <1>1 DEF Xe
<1>3. /\ First(todo) = "same-sr?" /\ todo = SameSr4 /\ todo \in Migrating /\ After(todo) = Migrate3
      /\ todo \notin {Migrate2, Gone1, Drop2}
  BY <1>2, Position, Table DEF IInv, Places, Doing, First, Migrating, Steps, Step
<1>4. /\ todo # <<>> /\ todo \in Testing \ (Dropping \cup Taking) /\ todo # Fragment11
      /\ phase = "test" /\ ~raised /\ power # "gone" /\ handler = NoHandler /\ Sees(host, vbd)
  BY <1>3, MigratingAt
<1>5. UNCHANGED <<power, at, sr, vbd, unplugged, snap, boot, addr, file, host, vdis, ip>>
  BY <1>2 DEF xapi, guest, object
<1>6. CASE args' = [args EXCEPT !.sr = same_sr(@, first)] /\ Proceed /\ struck' = struck
  <2>1. GoesOn /\ todo' = Migrate3 /\ raised' = raised
    BY <1>2, <1>3, <1>6 DEF GoesOn, Proceed, Continue, After
  <2>2. same_sr(args.sr, first) \in SR \cup {None}
    BY DEF same_sr, IInv, Test, Args
  <2>3. /\ args' \in Args /\ args'.sr = same_sr(args.sr, first)
        /\ UNCHANGED <<args.target, args.disk, args.live, args.net, args.want>>
    BY <1>6, <2>2 DEF IInv, Test, Args
  <2>4. Pool'
    BY <1>5 DEF IInv, Pool, Disks, AddressAt
  <2>5. Smooth'
    <3> SUFFICES ASSUME Calm' PROVE ~raised' /\ Powers' /\ Snapped' /\ Moves'
      BY DEF Smooth
    <3>1. Snapped /\ Moves
      BY <1>2, <1>6 DEF Calm, IInv, Smooth
    <3>2. Powers'
      BY <1>2, <1>4, <2>1, Table DEF Powers, Steps, Step
    <3>3. Snapped'
      BY <1>4, <1>5, <2>1, <3>1, Table DEF Snapped, Taking, Steps, Step
    <3>4. Movable(args.target, same_sr(args.sr, first), args.net, args.live)
      BY <1>1, <1>3, <3>1 DEF Moves
    <3>5. Movable(args.target, args.sr, args.net, args.live)'
      BY <1>5, <2>3, <3>4 DEF Movable, storage_motion, Destination, SeenBy
    <3>6. Moves'
      BY <2>1, <3>5, Table DEF Moves, Steps, Step
    <3> QED
      BY <1>4, <2>1, <3>2, <3>3, <3>6
  <2> QED
    BY <1>2, <1>4, <1>5, <1>6, <2>1, <2>3, <2>4, <2>5, Goes DEF Plain, IInv, Test
<1>7. CASE /\ Raise /\ SameArgs
           /\ IF Reachable /\ host \in SeenFrom[sr[first]] THEN Strike("same-sr?") ELSE UNCHANGED struck
  <2>1. host \in SeenFrom[sr[first]]
    BY <1>1, <1>4 DEF Sees
  <2> QED
    BY <1>2, <1>3, <1>7, <2>1, CommandFails
<1> QED
  BY <1>1, <1>6, <1>7 DEF Xe

LEMMA MigrateKeeps == ASSUME IInv, Migrate PROVE IInv'
<1> DEFINE t == args.target
           s == args.sr
           new == Fresh(Cardinality(vbd))
           Moving2 == storage_motion(t, s, args.net)
           Effect == /\ at' = t /\ UNCHANGED <<power, snap, guest>>
                     /\ IF Moving2
                           THEN /\ vbd' = new /\ unplugged' = {}
                                /\ sr' = [d \in Disk |-> CASE d \in vbd -> None
                                                           [] d \in new -> Destination(t, s)
                                                           [] OTHER -> sr[d]]
                           ELSE UNCHANGED <<vbd, sr, unplugged>>
           allowed == Movable(t, s, args.net, args.live)
<1>1. Doing("vm-migrate") /\ SameArgs /\ UNCHANGED <<object, phase, moves>>
  BY DEF Migrate, Command, Xe
<1>2. /\ First(todo) = "vm-migrate" /\ todo = Migrate3 /\ todo \in Migrating /\ After(todo) = Migrate2
      /\ todo \notin {Migrate2, Gone1, Drop2, <<>>}
  BY <1>1, Position, Table DEF IInv, Places, Doing, First, Migrating, Steps, Step
<1>3. /\ todo # <<>> /\ todo \in Testing \ (Dropping \cup Taking) /\ todo # Fragment11 /\ todo \notin Ending
      /\ phase = "test" /\ ~raised /\ power # "gone" /\ handler = NoHandler
      /\ snap = NoSnap /\ t \in Host /\ vdis = vbd
  BY <1>2, MigratingAt
<1>4. Effect /\ allowed => Pool' /\ power' = power /\ \A d \in vbd' : t \in SeenFrom[sr'[d]]
  <2> SUFFICES ASSUME Effect, allowed PROVE Pool' /\ \A d \in vbd' : t \in SeenFrom[sr'[d]]
    OBVIOUS
  <2>1. vbd \subseteq Disks /\ IsFiniteSet(vbd) /\ Cardinality(vbd) \in Nat
    BY DisksFinite DEF IInv, Pool, Disks
  <2>2. new \in SUBSET Disk /\ new \cap (Disks \cup vdis) = {}
    BY <2>1, FreshAre
  <2> HIDE DEF new
  <2>3. snap' = NoSnap /\ NoSnap \in Snaps /\ NoSnap.disks = {} /\ AddressAt(NoSnap.boot, NoSnap.addr)
    BY <1>3 DEF NoSnap, Snaps, Address, AddressAt
  <2>4. CASE Moving2
    <3>1. t \in SeenFrom[Destination(t, s)]
      BY <2>4 DEF Movable
    <3>2. Destination(t, s) \in SR
      BY <1>3, VmLifeAssumption DEF Destination, IInv, Test, Args
    <3>3. /\ vbd' = new /\ unplugged' = {} /\ \A d \in new : sr'[d] = Destination(t, s)
          /\ sr' \in [Disk -> SR \cup {None}]
      BY <2>1, <2>2, <2>4, <3>2 DEF IInv, Pool
    <3>4. vbd' \subseteq Disks'
      BY <2>2, <3>2, <3>3, VmLifeAssumption DEF Disks
    <3>5. \A d \in vbd' : t \in SeenFrom[sr'[d]]
      BY <3>1, <3>3
    <3> QED
      BY <1>3, <2>3, <3>3, <3>4, <3>5 DEF IInv, Pool, guest, AddressAt
  <2>5. CASE ~Moving2
    <3>1. UNCHANGED <<vbd, sr, unplugged>> /\ SeenBy(t)
      BY <2>5 DEF Movable
    <3>2. \A d \in vbd' : t \in SeenFrom[sr'[d]]
      BY <3>1 DEF SeenBy
    <3> QED
      BY <1>3, <2>3, <3>1, <3>2 DEF IInv, Pool, guest, AddressAt, Disks
  <2> QED
    BY <2>4, <2>5
<1>5. CASE Effect /\ allowed /\ Proceed /\ struck' = struck
  <2>1. GoesOn /\ todo' = Migrate2 /\ raised' = raised
    BY <1>1, <1>2, <1>5 DEF GoesOn, Proceed, Continue, After
  <2>2. todo' # <<>> /\ todo' \in Migrating /\ todo' \notin Attaching \cup Taking
        \cup {List1, List6, Fragment10, Revert2, Revert7}
    BY <2>1, Table DEF Migrating, Attaching, Taking, Steps, Step
  <2>3. Test' /\ args' = args
    BY <1>1, <1>5, <2>1, <2>2, SameArgsAre DEF IInv, Test, object
  <2>4. Kept' /\ Held'
    BY <1>3, <1>5, <2>2 DEF Kept, Held
  <2>5. Right'
    <3>1. at' = args'.target /\ (\A d \in vbd' : args'.target \in SeenFrom[sr'[d]]) /\ snap' = NoSnap /\ args'.target \in Host
      BY <1>3, <1>4, <1>5, <2>3
    <3>2. Sees(host, snap.disks)'
      BY <3>1 DEF Sees, NoSnap
    <3> QED
      BY <1>1, <1>3, <2>1, <2>2, <3>1, <3>2 DEF Right, Attaching, Sees
  <2>6. Smooth'
    <3> SUFFICES ASSUME Calm' PROVE ~raised' /\ Powers' /\ Snapped' /\ Moves'
      BY DEF Smooth
    <3>1. Snapped
      BY <1>1, <1>5 DEF Calm, IInv, Smooth
    <3>2. Powers' /\ Moves'
      BY <1>1, <1>3, <2>1, Table DEF Powers, Moves, Steps, Step
    <3>3. Snapped'
      BY <1>3, <1>5, <2>1, <3>1, Table DEF Snapped, Taking, guest, Steps, Step
    <3> QED
      BY <1>3, <2>1, <3>2, <3>3
  <2> QED
    BY <1>2, <1>3, <1>4, <1>5, <2>1, <2>3, <2>4, <2>5, <2>6, Advances
<1>6. CASE Effect /\ allowed /\ Raise /\ Strike("vm-migrate")
  BY <1>1, <1>3, <1>4, <1>6, HandlersApart, Loses
<1>7. CASE /\ Raise /\ UNCHANGED <<xapi, guest>>
           /\ IF Reachable /\ allowed THEN Strike("vm-migrate") ELSE UNCHANGED struck
  <2>1. Calm => allowed
    BY <1>2 DEF IInv, Smooth, Moves
  <2>2. allowed \in BOOLEAN
    BY DEF Movable
  <2> HIDE DEF allowed
  <2> QED
    BY <1>1, <1>2, <1>7, <2>1, <2>2, CommandFails
<1> QED
  BY <1>5, <1>6, <1>7 DEF Migrate, Command, Xe

LEMMA MovedKeeps == ASSUME IInv, Moved PROVE IInv'
<1>1. /\ Doing("moved") /\ host' = args.target /\ Proceed /\ SameArgs
      /\ UNCHANGED <<vdis, ip, xapi, guest, phase, struck, moves>>
  BY DEF Moved, Local
<1>2. /\ First(todo) = "moved" /\ todo = Migrate2 /\ todo \in Migrating /\ After(todo) = List1
  BY <1>1, Position, Table DEF IInv, Places, Doing, First, Migrating, Steps, Step
<1>3. /\ todo # <<>> /\ todo \in Testing \ (Dropping \cup Taking) /\ todo # Fragment11
      /\ phase = "test" /\ ~raised /\ power # "gone" /\ handler = NoHandler
      /\ snap = NoSnap /\ args.target \in Host
  BY <1>2, MigratingAt
<1>4. UNCHANGED <<power, at, sr, vbd, unplugged, snap, boot, addr, file>>
  BY <1>1 DEF xapi, guest
<1>5. GoesOn /\ todo' = List1 /\ raised' = raised
  BY <1>1, <1>2 DEF GoesOn, Proceed, Continue, After
<1>6. todo' # <<>> /\ todo' \notin Migrating \cup Attaching \cup Taking \cup {Revert2, Revert7}
  BY <1>5, Table DEF Migrating, Attaching, Taking, Steps, Step
<1>7. Pool'
  BY <1>4 DEF IInv, Pool, Disks, AddressAt
<1>8. Test'
  BY <1>1, <1>3, <1>5, SameArgsAre DEF IInv, Test
<1>9. Kept' /\ Held'
  BY <1>3, <1>4, <1>6 DEF Kept, Held
<1>10. Right'
  <2>1. at = args.target /\ Sees(args.target, vbd)
    BY <1>2, <1>3 DEF IInv, Right
  <2>2. PoolOf[host'] = PoolOf[at'] /\ Sees(host, vbd)' /\ Sees(host, snap.disks)'
    BY <1>1, <1>3, <1>4, <2>1 DEF Sees, NoSnap
  <2> QED
    BY <1>1, <1>3, <1>5, <1>6, <2>2, RightAt
<1>11. Smooth'
  <2> SUFFICES ASSUME Calm' PROVE ~raised' /\ Powers' /\ Snapped' /\ Moves'
    BY DEF Smooth
  <2>1. Snapped
    BY <1>1 DEF Calm, IInv, Smooth
  <2>2. Powers' /\ Moves'
    BY <1>1, <1>3, <1>5, Table DEF Powers, Moves, Steps, Step
  <2>3. Snapped'
    BY <1>3, <1>4, <1>5, <2>1, Table DEF Snapped, Taking, Steps, Step
  <2> QED
    BY <1>3, <1>5, <2>2, <2>3
<1> QED
  BY <1>2, <1>3, <1>4, <1>5, <1>7, <1>8, <1>9, <1>10, <1>11, Advances

-----------------------------------------------------------------------------
(* Taking a snapshot                                                       *)

LEMMA InMore ==
  ASSUME NEW S, NEW s \in S, NEW r \in Seq(S), NEW v \in Range(r)
  PROVE  v \in Range(<<s>> \o r)
<1>1. PICK i \in 1..Len(r) : r[i] = v
  BY DEF Range
<1>2. <<s>> \in Seq(S) /\ Len(<<s>>) = 1 /\ Len(r) \in Nat
  OBVIOUS
<1>3. /\ <<s>> \o r \in Seq(S) /\ Len(<<s>> \o r) = 1 + Len(r)
      /\ \A j \in 1..1 + Len(r) : (<<s>> \o r)[j] = IF j <= 1 THEN <<s>>[j] ELSE r[j - 1]
  BY <1>2, ConcatProperties
<1> DEFINE u == <<s>> \o r
<1> HIDE DEF u
<1>4. u \in Seq(S) /\ Len(u) = 1 + Len(r)
      /\ \A j \in 1..1 + Len(r) : u[j] = IF j <= 1 THEN <<s>>[j] ELSE r[j - 1]
  BY <1>3 DEF u
<1>5. i + 1 \in 1..Len(u) /\ u[i + 1] = v
  BY <1>1, <1>2, <1>4
<1>6. v \in Range(u)
  BY <1>4, <1>5 DEF Range
<1> QED
  BY <1>6 DEF u

LEMMA InOne == \A s : Range(<<s>>) = {s}
  BY DEF Range

LEMMA FinallyIn ==
    /\ "finally" \in Range(Fragment13)
    /\ "finally" \notin Range(Snapshot1) /\ "finally" \notin Range(Checkpoint1)
<1>1. /\ {"finally", "no-file?", "ssh?", "agent?", "ip?", "running", "vm-start", "create_vdis_list",
          "snapshot-revert", "touch", "vm-snapshot"} \subseteq Statement
  BY DEF Statement
<1>2. /\ Drop2 \in Seq(Statement) /\ Fragment3 \in Seq(Statement) /\ Fragment4 \in Seq(Statement)
      /\ Fragment5 \in Seq(Statement) /\ Fragment6 \in Seq(Statement) /\ Fragment7 \in Seq(Statement)
      /\ Fragment8 \in Seq(Statement) /\ Fragment9 \in Seq(Statement) /\ Fragment10 \in Seq(Statement)
      /\ Fragment11 \in Seq(Statement) /\ Fragment12 \in Seq(Statement)
  BY Snapshotting, FragmentEnds, FragmentBegins
<1>3. "finally" \in Range(Fragment3)
  <2>1. <<"finally">> \in Seq(Statement) /\ Len(<<"finally">>) = 1 /\ <<"finally">>[1] = "finally"
    BY <1>1
  <2>2. Fragment3[1] = "finally" /\ Len(Fragment3) = 3
    BY <1>2, Table DEF Steps, Step, First, Left
  <2> QED
    BY <1>2, <2>2 DEF Range
<1>4. "finally" \in Range(Fragment4)
  BY <1>1, <1>2, <1>3, InMore, Zenon DEF Fragment4
<1>5. "finally" \in Range(Fragment5)
  BY <1>1, <1>2, <1>4, InMore, Zenon DEF Fragment5
<1>6. "finally" \in Range(Fragment6)
  BY <1>1, <1>2, <1>5, InMore, Zenon DEF Fragment6
<1>7. "finally" \in Range(Fragment7)
  BY <1>1, <1>2, <1>6, InMore, Zenon DEF Fragment7
<1>8. "finally" \in Range(Fragment8)
  BY <1>1, <1>2, <1>7, InMore, Zenon DEF Fragment8
<1>9. "finally" \in Range(Fragment9)
  BY <1>1, <1>2, <1>8, InMore, Zenon DEF Fragment9
<1>10. "finally" \in Range(Fragment10)
  BY <1>1, <1>2, <1>9, InMore, Zenon DEF Fragment10
<1>11. "finally" \in Range(Fragment11)
  BY <1>1, <1>2, <1>10, InMore, Zenon DEF Fragment11
<1>12. "finally" \in Range(Fragment12)
  BY <1>1, <1>2, <1>11, InMore, Zenon DEF Fragment12
<1>13. "finally" \in Range(Fragment13)
  BY <1>1, <1>2, <1>12, InMore, Zenon DEF Fragment13
<1>14. "finally" \notin Range(Snapshot1) /\ "finally" \notin Range(Checkpoint1)
  BY InOne DEF Snapshot1, Checkpoint1
<1> QED
  BY <1>13, <1>14

LEMMA TakenPool ==
  ASSUME IInv, Doing("vm-snapshot") \/ Doing("vm-checkpoint"), NEW returned \in BOOLEAN, Taken(returned)
  PROVE  /\ Pool' /\ snap' # NoSnap /\ ~(snap' = NoSnap) /\ snap'.file = file
         /\ snap'.deferred = (returned /\ ~InFragment)
         /\ Head(todo) = "vm-snapshot" => snap'.power = "halted"
         /\ \A d \in vbd : sr'[d] = sr[d]
         /\ \A d \in snap'.disks : \E e \in vbd : sr'[d] = sr[e]
<1> DEFINE new == Fresh(Cardinality(vbd))
           p == IF Head(todo) = "vm-snapshot" THEN "halted" ELSE "suspended"
           b == IF Head(todo) = "vm-snapshot" THEN 0 ELSE boot
           a == IF Head(todo) = "vm-snapshot" THEN None ELSE addr
           f == returned /\ ~InFragment
<1>1. /\ snap' = [disks |-> new, deferred |-> f, file |-> file, power |-> p, boot |-> b, addr |-> a]
      /\ sr' = CopyOf(vbd, new)
      /\ UNCHANGED <<power, at, vbd, unplugged, guest>>
  BY DEF Taken
<1>2. /\ new \in SUBSET Disk /\ new \cap (Disks \cup vdis) = {}
      /\ \A d \in new : \E e \in vbd : CopyOf(vbd, new)[d] = sr[e]
      /\ \A d \in Disk \ new : CopyOf(vbd, new)[d] = sr[d]
      /\ CopyOf(vbd, new) \in [Disk -> SR \cup {None}]
  BY Copies DEF IInv, Pool
<1> HIDE DEF new
<1>3. vbd \subseteq Disks /\ vbd \subseteq Disk
  BY DEF IInv, Pool, Disks
<1>4. /\ p \in {"halted", "suspended"} /\ b \in 0..4 /\ a \in Address /\ AddressAt(b, a) /\ f \in BOOLEAN
      /\ Head(todo) = "vm-snapshot" => p = "halted"
  <2>1. boot \in 0..4 /\ addr \in Address /\ AddressAt(boot, addr)
    BY DEF IInv, Pool
  <2>2. AddressAt(0, None) /\ None \in Address
    BY DEF AddressAt, Address
  <2> QED
    BY <2>1, <2>2 DEF InFragment
<1> HIDE DEF p, b, a, f
<1>5. /\ snap' \in Snaps /\ snap'.disks = new /\ snap'.power = p /\ snap'.boot = b /\ snap'.addr = a
      /\ snap'.file = file /\ snap'.deferred = f
  BY <1>1, <1>2, <1>4 DEF Snaps, IInv, Pool
<1>6. snap' # NoSnap
  BY <1>4, <1>5 DEF NoSnap
<1>7. \A d \in vbd : sr'[d] = sr[d]
  BY <1>1, <1>2, <1>3
<1>8. \A d \in new : \E e \in vbd : sr'[d] = sr[e]
  BY <1>1, <1>2
<1>9. vbd \subseteq Disks' /\ new \subseteq Disks' /\ new \cap vbd = {}
  BY <1>2, <1>3, <1>7, <1>8 DEF Disks
<1>10. Pool'
  BY <1>1, <1>2, <1>4, <1>5, <1>9 DEF IInv, Pool, guest, AddressAt
<1> QED
  BY <1>4, <1>5, <1>6, <1>7, <1>8, <1>10 DEF f

LEMMA TakeSnapshotKeeps ==
  ASSUME IInv, NEW s \in {"vm-snapshot", "vm-checkpoint"}, TakeSnapshot(s) PROVE IInv'
<1>1. Doing(s) /\ UNCHANGED <<phase, moves>>
  BY DEF TakeSnapshot, Xe
<1>2. /\ todo # <<>> /\ First(todo) = s /\ todo \in {Snapshot1, Fragment13, Checkpoint1}
  BY <1>1, Position DEF IInv, Places, Doing, First
<1>3. /\ todo \in Testing \ (Dropping \cup Taking) /\ todo \notin {Migrate2, Gone1, Drop2, Fragment11, Shut2, Shut1}
      /\ todo \notin Ending \cup Attaching \cup {List1, List6, Fragment10}
      /\ todo \in {Snapshot1, Checkpoint1} => After(todo) = <<>>
      /\ todo = Fragment13 => After(todo) = Fragment12 /\ s = "vm-snapshot"
  BY <1>2, Table DEF Testing, Dropping, Taking, Reverting, Before, Ending, Attaching, Steps, Step
<1>4. /\ phase = "test" /\ ~raised /\ power # "gone" /\ handler = NoHandler
      /\ PoolOf[host] = PoolOf[at] /\ Sees(host, vbd) /\ vdis = vbd
  <2>1. phase = "test" /\ ~raised /\ power # "gone"
    BY <1>2, <1>3, InTest DEF IInv
  <2>2. handler = NoHandler
    BY <1>3 DEF IInv, Handlers, Attaching
  <2> QED
    BY <1>3, <2>1, <2>2 DEF IInv, Right, Attaching
<1>5. InFragment <=> todo = Fragment13
  BY <1>2, FinallyIn DEF InFragment
<1>6. CASE /\ Taken(TRUE) /\ todo' = Tail(todo) /\ UNCHANGED <<raised, struck>>
           /\ handler' = IF InFragment THEN [steps |-> DropSnap, swallow |-> FALSE] ELSE NoHandler
  <2>1. /\ Pool' /\ snap' # NoSnap /\ snap'.file = file
        /\ snap'.deferred = ~InFragment
        /\ Head(todo) = "vm-snapshot" => snap'.power = "halted"
        /\ \A d \in vbd : sr'[d] = sr[d]
        /\ \A d \in snap'.disks : \E e \in vbd : sr'[d] = sr[e]
    BY <1>1, <1>6, TakenPool
  <2>2. SameArgs /\ UNCHANGED <<power, at, vbd, unplugged, boot, addr, file, host, vdis, ip>>
    BY <1>6 DEF Taken, guest, object
  <2>3. DropSnap = Drop2
    BY DEF DropSnap, Drop2, Drop1
  <2>4. \/ todo' = <<>> /\ handler' = NoHandler /\ snap'.deferred
        \/ todo' = Fragment12 /\ todo = Fragment13 /\ handler' = Finally2 /\ Head(todo) = "vm-snapshot"
    BY <1>2, <1>3, <1>5, <1>6, <2>1, <2>3 DEF After, Finally2, First
  <2>5. /\ todo' \in {<<>>} \cup Taking /\ (todo' \in Taking <=> todo' = Fragment12) /\ todo' \in Testing
        /\ todo' \notin Migrating \cup Attaching \cup {List1, List6, Fragment10, Drop2, Drop1, Fragment11,
                                                       Fragment13, Fragment4, Revert7, Shut2, Shut1}
    BY <2>4, Apart, Table DEF Migrating, Attaching, Taking, Testing, Powering, Reverting, Before, Dropping, Steps, Step
  <2>6. Test'
    BY <1>1, <1>6, <2>2, SameArgsAre DEF IInv, Test
  <2>7. Where'
    BY <1>1, <1>4, <1>6, <2>2, <2>5 DEF Where, Attaching
  <2>8. Handlers'
    BY <2>4, <2>5, HandlersApart, Apart DEF Handlers
  <2>9. Kept' /\ Held'
    BY <1>1, <1>4, <2>1, <2>2, <2>4, <2>5 DEF Kept, Held
  <2>10. Addressed'
    BY <2>4, Apart, Table DEF Addressed, Powering, Before, Taking, Steps, Step
  <2>11. Right'
    <3>1. Sees(host, vbd)' /\ Sees(host, snap.disks)'
      BY <1>4, <2>1, <2>2 DEF Sees
    <3> QED
      BY <1>1, <1>4, <2>2, <2>5, <3>1, RightAt
  <2>12. Smooth'
    <3> SUFFICES ASSUME Calm' PROVE ~raised' /\ Powers' /\ Snapped' /\ Moves'
      BY DEF Smooth
    <3>1. Snapped
      BY <1>1, <1>6 DEF Calm, IInv, Smooth
    <3>2. Powers' /\ Moves'
      BY <1>1, <1>4, <2>4, Apart, Table DEF Powers, Moves, Steps, Step
    <3>3. todo' = Fragment12 => Answers'
      BY <2>2, <2>4, <2>5, <3>1, Apart DEF Snapped, Answers, Taking
    <3>4. Snapped'
      BY <1>3, <2>1, <2>2, <2>4, <2>5, <3>1, <3>3, Apart DEF Snapped, Reverting, Dropping, Before
    <3> QED
      BY <1>4, <1>6, <3>2, <3>4
  <2> QED
    BY <2>1, <2>6, <2>7, <2>8, <2>9, <2>10, <2>11, <2>12 DEF IInv
<1>7. CASE Raise /\ Taken(FALSE) /\ Strike(s)
  <2>1. Pool' /\ SameArgs /\ UNCHANGED <<object, power>>
    BY <1>1, <1>7, TakenPool DEF Taken
  <2>2. SnapTrouble'
    BY <1>7, StruckMore DEF SnapTrouble, IInv
  <2> QED
    BY <1>1, <1>4, <1>7, <2>1, <2>2, HandlersApart, Loses
<1>8. CASE /\ Raise /\ SameArgs /\ UNCHANGED <<xapi, guest, object>>
           /\ IF Reachable /\ TRUE THEN Strike(s) ELSE UNCHANGED struck
  BY <1>1, <1>3, <1>8, CommandFails
<1> QED
  BY <1>6, <1>7, <1>8 DEF TakeSnapshot, Xe

-----------------------------------------------------------------------------
(* destroy                                                                 *)

LEMMA EndingAt ==
  ASSUME IInv, todo # <<>>, todo \notin Testing \cup {Undo1}
  PROVE  /\ phase = "teardown" /\ handler = NoHandler /\ todo \notin Taking \cup Migrating \cup Attaching
         /\ todo \notin {Drop2, Fragment11, List1, List6, Fragment10}
         /\ ~raised => /\ PoolOf[host] = PoolOf[at] /\ Sees(host, vbd) /\ Sees(host, snap.disks) /\ vdis = vbd
<1>1. phase = "teardown"
  BY DEF IInv, Where, Idle, Testing
<1>2. /\ todo \notin Taking \cup Migrating \cup Attaching \cup Powering
      /\ todo \notin {Drop2, Fragment11, List1, List6, Fragment10}
  BY Table DEF Testing, Dropping, Taking, Reverting, Steps, Step
<1>3. handler = NoHandler
  BY <1>2 DEF IInv, Handlers, Attaching, Powering
<1>4. ~raised => /\ PoolOf[host] = PoolOf[at] /\ Sees(host, vbd) /\ Sees(host, snap.disks) /\ vdis = vbd
  BY <1>2 DEF IInv, Right, Attaching, Migrating
<1> QED
  BY <1>1, <1>2, <1>3, <1>4

\* Where VM.destroy goes on to.
LEMMA EndingGoes ==
  ASSUME IInv, phase = "teardown", handler' = NoHandler, UNCHANGED <<phase, raised, moves, struck>>, Pool', Test',
         UNCHANGED <<at, snap, file, host, sr>>, vbd' \subseteq vbd, todo # Migrate2, todo # Fragment11,
         \/ todo' \in {Destroy4, Stop4, Destroy3, Gone1, <<>>}
         \/ todo' = Drops(Cardinality(args'.left)) /\ args'.left = vbd',
         power' = "gone" => todo' \in {Gone1, <<>>},
         vdis = vbd => vdis' = vbd',
         todo \notin {Connect2, Plug2, Connect1, Disconnect1, List1, List6, Fragment10},
         todo' = Stop4 => power' # "halted",
         todo' \notin {<<>>, Destroy4, Stop4, Gone1} => (Calm => power' = "halted"),
         todo' = Gone1 => power' = "gone"
  PROVE  IInv'
<1>1. todo' \notin Testing \ {<<>>} /\ todo' # Undo1
  <2>1. todo' \in {Destroy4, Stop4, Destroy3, Gone1} => todo' \notin Testing /\ todo' # Undo1
    BY Apart, Table DEF Ending, Steps, Step
  <2>2. args'.left \subseteq Disk => Drops(Cardinality(args'.left)) \notin Testing \cup Ending
    BY DisksFinite, DropsApart
  <2>3. vbd' \subseteq Disk
    BY DEF Pool, Disks
  <2> QED
    BY <2>1, <2>2, <2>3, Apart DEF Ending
<1>2. /\ todo' \notin Taking \cup Migrating \cup Attaching \cup Powering \cup Reverting \cup Before \cup Dropping
  BY <1>1, Apart DEF Testing
<1>3. Where'
  BY <1>1, <1>2 DEF Where, IInv, Attaching
<1>4. Handlers' /\ Held'
  BY <1>2, HandlersApart DEF Handlers, Held, Reverting
<1>5. Kept'
  BY DEF IInv, Kept, SnapTrouble
<1>6. Addressed'
  BY <1>2 DEF Addressed, Powering, Before, Taking
<1>7. Right'
  <2> SUFFICES ASSUME ~raised' PROVE Right'
    BY DEF Right
  <2>1. PoolOf[host] = PoolOf[at] /\ Sees(host, vbd) /\ Sees(host, snap.disks) /\ vdis = vbd
    BY DEF IInv, Right
  <2>2. Sees(host, vbd)' /\ Sees(host, snap.disks)'
    BY <2>1 DEF Sees
  <2> QED
    BY <1>2, <2>1, <2>2 DEF Right, Attaching, Migrating
<1>8. Smooth'
  <2> SUFFICES ASSUME Calm' PROVE ~raised' /\ Powers' /\ Snapped' /\ Moves'
    BY DEF Smooth
  <2>1. Calm /\ ~raised /\ Snapped
    BY DEF Calm, IInv, Smooth
  <2>2. Powers' /\ Moves'
    BY <1>2, <2>1 DEF Powers, Moves, Powering, Attaching, Migrating, Reverting, Before, Taking
  <2>3. Snapped'
    BY <1>2, <2>1 DEF Snapped, Taking, Before, Reverting, Dropping
  <2> QED
    BY <2>1, <2>2, <2>3
<1> QED
  BY <1>3, <1>4, <1>5, <1>6, <1>7, <1>8 DEF IInv

LEMMA DestroyBeginsKeeps == ASSUME IInv, DestroyBegins PROVE IInv'
<1>1. Doing("halted-now?") /\ SameArgs /\ UNCHANGED <<xapi, guest, object, phase, moves>>
  BY DEF DestroyBegins, Read, Xe
<1>2. /\ todo # <<>> /\ First(todo) = "halted-now?" /\ todo = Destroy4 /\ After(todo) = Destroy3
      /\ todo \notin Testing \cup {Undo1} /\ todo \notin {Gone1, Migrate2, Drop2}
      /\ todo \notin {Connect2, Plug2, Connect1, Disconnect1}
  BY <1>1, Position, Apart, Table DEF IInv, Places, Doing, First, Ending, Steps, Step
<1>3. /\ phase = "teardown" /\ handler = NoHandler /\ power # "gone"
      /\ todo \notin {Drop2, Fragment11, List1, List6, Fragment10}
  BY <1>2, EndingAt, NotGone DEF IInv
<1>4. UNCHANGED <<power, at, sr, vbd, unplugged, snap, boot, addr, file, host, vdis, ip>>
  BY <1>1 DEF xapi, guest, object
<1>5. CASE /\ struck' = struck
           /\ Continue((IF power = "halted" THEN <<>> ELSE <<"vm-shutdown-force">>) \o Tail(todo))
  <2>1. <<>> \o Destroy3 = Destroy3
    BY Destroying, ConcatEmptySeq
  <2>2. UNCHANGED raised /\ handler' = NoHandler
        /\ \/ todo' = Stop4 /\ power # "halted"
           \/ todo' = Destroy3 /\ power = "halted"
    BY <1>2, <1>3, <1>5, <2>1 DEF Continue, Stop4, After
  <2>3. Destroy3 # Stop4 /\ Gone1 \notin {Stop4, Destroy3} /\ <<>> \notin {Stop4, Destroy3}
    BY Table DEF Steps, Step
  <2>4. Pool'
    BY <1>4 DEF IInv, Pool, Disks, AddressAt
  <2>5. Test'
    BY <1>1, <1>4, <1>5, <2>2, SameArgsAre DEF IInv, Test
  <2> QED
    BY <1>1, <1>2, <1>3, <1>4, <1>5, <2>2, <2>3, <2>4, <2>5, EndingGoes
<1>6. CASE Raise /\ IF Reachable /\ TRUE THEN Strike("halted-now?") ELSE UNCHANGED struck
  BY <1>1, <1>2, <1>6, CommandFails
<1> QED
  BY <1>5, <1>6 DEF DestroyBegins, Read, Xe

LEMMA ListDisksKeeps == ASSUME IInv, ListDisks PROVE IInv'
<1>1. Doing("vm-disk-list") /\ UNCHANGED <<xapi, guest, object, phase, moves>>
  BY DEF ListDisks, Xe
<1>2. /\ todo # <<>> /\ First(todo) = "vm-disk-list" /\ todo = Destroy3 /\ After(todo) = Drops(0)
      /\ todo \notin Testing \cup {Undo1} /\ todo \notin {Gone1, Migrate2, Drop2, Destroy4, Stop4}
      /\ todo \notin {Connect2, Plug2, Connect1, Disconnect1}
  BY <1>1, Position, Apart, Table DEF IInv, Places, Doing, First, Ending, Steps, Step
<1>3. /\ phase = "teardown" /\ handler = NoHandler /\ power # "gone"
      /\ todo \notin {Drop2, Fragment11, List1, List6, Fragment10}
  BY <1>2, EndingAt, NotGone DEF IInv
<1>4. UNCHANGED <<power, at, sr, vbd, unplugged, snap, boot, addr, file, host, vdis, ip>>
  BY <1>1 DEF xapi, guest, object
<1>5. CASE /\ args' = [args EXCEPT !.left = vbd] /\ struck' = struck
           /\ Continue([i \in 1..Cardinality(vbd) |-> "vdi-destroy"] \o Tail(todo))
  <2>1. Drops(0) = <<"vm-destroy", "gone?">>
    <3>1. [i \in 1..0 |-> "vdi-destroy"] = <<>>
      OBVIOUS
    <3>2. <<"vm-destroy", "gone?">> \in Seq(Statement)
      <4>1. \A S : \A v, w \in S : <<v, w>> \in Seq(S)
        OBVIOUS
      <4> QED
        BY <4>1, Zenon DEF Statement
    <3> QED
      BY <3>1, <3>2, ConcatEmptySeq, Zenon DEF Drops
  <2>2. Tail(todo) = <<"vm-destroy", "gone?">>
    BY <1>2, <2>1 DEF After
  <2>3. todo' = Drops(Cardinality(vbd)) /\ UNCHANGED raised /\ handler' = NoHandler
    <3>1. todo' = [i \in 1..Cardinality(vbd) |-> "vdi-destroy"] \o Tail(todo)
      BY <1>5 DEF Continue
    <3>2. todo' = Drops(Cardinality(vbd))
      BY <2>2, <3>1, Zenon DEF Drops
    <3> QED
      BY <1>3, <1>5, <3>2 DEF Continue
  <2>4. args' \in Args /\ args'.left = vbd'
    BY <1>4, <1>5 DEF IInv, Test, Args, Pool, Disks
  <2>5. Pool'
    BY <1>4 DEF IInv, Pool, Disks, AddressAt
  <2>6. Test'
    BY <1>1, <1>4, <1>5, <2>3, <2>4 DEF IInv, Test
  <2>7. Drops(Cardinality(vbd)) \notin Testing \cup Ending
    BY DisksFinite, DropsApart DEF IInv, Pool, Disks
  <2>8. Calm => power = "halted"
    BY <1>2, <1>3 DEF IInv, Smooth, Powers
  <2> QED
    BY <1>1, <1>2, <1>3, <1>4, <1>5, <2>3, <2>4, <2>5, <2>6, <2>7, <2>8, EndingGoes DEF Ending
<1>6. CASE Raise /\ SameArgs /\ IF Reachable /\ TRUE THEN Strike("vm-disk-list") ELSE UNCHANGED struck
  BY <1>1, <1>2, <1>6, CommandFails
<1> QED
  BY <1>5, <1>6 DEF ListDisks, Xe

\* All the disks that were listed are destroyed by then.
LEMMA AllDestroyed ==
  ASSUME IInv, Doing("vm-destroy")
  PROVE  /\ todo # <<>> /\ First(todo) = "vm-destroy" /\ After(todo) = Gone1 /\ args.left = {}
         /\ todo \notin Testing \cup Ending /\ phase = "teardown"
<1>1. todo # <<>> /\ First(todo) = "vm-destroy"
  BY DEF Doing, First
<1>2. todo \notin Testing \cup Ending
  BY <1>1, Placed DEF Places
<1>3. phase = "teardown" /\ todo = Drops(Cardinality(args.left)) /\ args.left \subseteq vbd
  BY <1>1, <1>2 DEF IInv, Where, Testing, Ending, Idle
<1>4. IsFiniteSet(args.left) /\ Cardinality(args.left) \in Nat
  BY <1>3, DisksFinite DEF IInv, Pool, Disks
<1>5. Cardinality(args.left) = 0 /\ After(todo) = Gone1
  BY <1>1, <1>3, <1>4, DropsAre DEF Step
<1>6. args.left = {}
  BY <1>4, <1>5, FS_EmptySet
<1> QED
  BY <1>1, <1>2, <1>3, <1>5, <1>6

LEMMA VmDestroyKeeps == ASSUME IInv, VmDestroy PROVE IInv'
<1> DEFINE Effect == power' = "gone" /\ vbd' = {} /\ UNCHANGED <<at, sr, unplugged, snap, guest>>
<1>1. Doing("vm-destroy") /\ SameArgs /\ UNCHANGED <<object, phase, moves>>
  BY DEF VmDestroy, Command, Xe
<1>2. /\ todo # <<>> /\ First(todo) = "vm-destroy" /\ After(todo) = Gone1 /\ args.left = {}
      /\ todo \notin Testing \cup Ending /\ phase = "teardown"
  BY <1>1, AllDestroyed
<1>3. /\ handler = NoHandler /\ todo \notin Taking \cup Migrating \cup Attaching
      /\ todo \notin {Drop2, Fragment11, List1, List6, Fragment10}
      /\ ~raised => vdis = vbd /\ args.left = vbd
  BY <1>2, EndingAt DEF IInv, Right, Ending
<1>4. Effect /\ power = "halted" => Pool'
  BY DEF IInv, Pool, Disks, guest, AddressAt
<1>5. CASE Effect /\ power = "halted" /\ Proceed /\ struck' = struck
  <2>1. todo' = Gone1 /\ UNCHANGED raised /\ handler' = NoHandler
    BY <1>2, <1>3, <1>5 DEF Proceed, Continue, After
  <2>2. Test'
    BY <1>1, <1>5, <2>1, SameArgsAre DEF IInv, Test, object
  <2>3. Gone1 \notin {<<>>, Stop4, Destroy3, Destroy4}
    BY Table DEF Steps, Step
  <2>4. \/ raised
        \/ vdis = {}
    BY <1>2, <1>3
  <2>5. Right'
    <3> SUFFICES ASSUME ~raised' PROVE Right'
      BY DEF Right
    <3>1. ~raised
      BY <2>1
    <3>2. vdis' = vbd'
      BY <1>1, <1>5, <2>4, <3>1 DEF object
    <3>3. PoolOf[host] = PoolOf[at] /\ Sees(host, snap.disks)
      BY <1>2, <3>1, EndingAt DEF Ending
    <3>4. Sees(host, vbd)' /\ Sees(host, snap.disks)' /\ PoolOf[host'] = PoolOf[at']
      BY <1>1, <1>5, <3>3 DEF Sees, object
    <3>5. todo' \notin Migrating \cup Attaching
      BY <2>1, Table DEF Migrating, Attaching, Steps, Step
    <3> QED
      BY <2>1, <3>2, <3>4, <3>5 DEF Right, Migrating, Attaching
  <2>6. Where' /\ Handlers' /\ Held' /\ Addressed'
    <3>1. todo' \notin Testing \cup {Undo1}
      BY <2>1, Apart, Table DEF Ending, Steps, Step
    <3>2. todo' \notin Taking \cup Attaching \cup Powering \cup Reverting \cup Before
      BY <3>1 DEF Testing
    <3> QED
      BY <1>1, <1>2, <2>1, <3>2, HandlersApart
         DEF Where, Handlers, Held, Addressed, Attaching, Powering, Reverting, Before, Taking
  <2>7. Kept'
    BY <1>1, <1>2, <1>5 DEF IInv, Kept, SnapTrouble, object
  <2>8. Smooth'
    <3> SUFFICES ASSUME Calm' PROVE ~raised' /\ Powers' /\ Snapped' /\ Moves'
      BY DEF Smooth
    <3>1. ~raised /\ Snapped
      BY <1>1, <1>5 DEF Calm, IInv, Smooth
    <3>2. Powers' /\ Moves'
      BY <1>5, <2>1, Table DEF Powers, Moves, Steps, Step
    <3>3. Snapped'
      BY <1>3, <1>5, <2>1, <3>1, Table DEF Snapped, guest, Taking, Steps, Step
    <3> QED
      BY <2>1, <3>1, <3>2, <3>3
  <2> QED
    BY <1>4, <1>5, <2>2, <2>5, <2>6, <2>7, <2>8 DEF IInv
<1>6. CASE Effect /\ power = "halted" /\ Raise /\ Strike("vm-destroy")
  BY <1>1, <1>2, <1>3, <1>4, <1>6, HandlersApart, Loses
<1>7. CASE /\ Raise /\ UNCHANGED <<xapi, guest>>
           /\ IF Reachable /\ power = "halted" THEN Strike("vm-destroy") ELSE UNCHANGED struck
  <2>1. Calm => power = "halted"
    BY <1>2 DEF IInv, Smooth, Powers, Ending, Testing
  <2>2. todo \notin {Migrate2, Gone1, Drop2}
    BY <1>2, <1>3 DEF Ending, Migrating
  <2> QED
    BY <1>1, <1>7, <2>1, <2>2, CommandFails
<1> QED
  BY <1>5, <1>6, <1>7 DEF VmDestroy, Command, Xe

-----------------------------------------------------------------------------
(* The guest.                                                              *)

LEMMA RightStays ==
  ASSUME Right, UNCHANGED <<at, sr, vbd, snap, host, vdis, todo, args, phase, raised>> PROVE Right'
<1>1. /\ Sees(host, vbd)' <=> Sees(host, vbd)
      /\ Sees(host, snap.disks)' <=> Sees(host, snap.disks)
      /\ Sees(args.target, vbd)' <=> Sees(args.target, vbd)
      /\ Sees(host, {args.disk})' <=> Sees(host, {args.disk})
  BY DEF Sees
<1>2. Disks' = Disks
  BY DEF Disks
<1> QED
  BY <1>1, <1>2 DEF Right

LEMMA BootsKeeps == ASSUME IInv, Boots PROVE IInv'
<1>1. /\ power = "running" /\ boot < 4 /\ boot' = boot + 1 /\ boot \in 0..4
      /\ UNCHANGED <<power, at, sr, vbd, unplugged, snap, file, host, vdis, ip, todo, args, handler>>
      /\ UNCHANGED <<phase, raised, struck, moves>>
  BY DEF Boots, xapi, object, call, history, IInv, Pool
<1>2. /\ boot = 0 => addr' = LinkLocal
      /\ boot = 1 => addr' \in Addr
      /\ boot > 1 => addr' = addr
  BY <1>1 DEF Boots
<1>3. boot' \in 0..4 /\ addr' \in Address /\ AddressAt(boot', addr')
  BY <1>1, <1>2 DEF Address, AddressAt, IInv, Pool
<1>4. Pool' /\ Test'
  BY <1>1, <1>3 DEF IInv, Pool, Test, Disks, AddressAt
<1>5. Where' /\ Handlers' /\ Kept' /\ Held'
  <2>1. Where'
    BY <1>1 DEF IInv, Where, Idle
  <2>2. Handlers'
    BY <1>1 DEF IInv, Handlers
  <2>3. Kept'
    BY <1>1 DEF IInv, Kept, SnapTrouble
  <2>4. Held'
    BY <1>1 DEF IInv, Held
  <2> QED
    BY <2>1, <2>2, <2>3, <2>4
<1>6. Addressed'
  BY <1>1, <1>2 DEF IInv, Addressed
<1>7. Right'
  BY <1>1, RightStays DEF IInv
<1>8. Smooth'
  <2> SUFFICES ASSUME Calm' PROVE ~raised' /\ Powers' /\ Snapped' /\ Moves'
    BY DEF Smooth
  <2>1. ~raised /\ Powers /\ Snapped /\ Moves
    BY <1>1 DEF Calm, IInv, Smooth
  <2>2. Powers'
    BY <1>1, <2>1 DEF Powers
  <2>3. Snapped'
    BY <1>1, <2>1 DEF Snapped, Answers
  <2>4. Moves'
    BY <1>1, <2>1 DEF Moves, Movable, storage_motion, Destination, SeenBy, same_sr
  <2> QED
    BY <1>1, <2>1, <2>2, <2>3, <2>4
<1> QED
  BY <1>4, <1>5, <1>6, <1>7, <1>8 DEF IInv

LEMMA GuestMovesKeeps == ASSUME IInv, GuestMoves PROVE IInv'
<1>1. /\ power = "running" /\ moves' = moves + 1 /\ Cardinality(struck) + moves < MaxTrouble
      /\ power' \in {"running", "halted"} /\ boot' = 0 /\ addr' = None /\ unplugged' = {}
      /\ UNCHANGED <<at, sr, vbd, snap, file, host, vdis, ip, todo, args, handler, phase, raised, struck>>
  BY DEF GuestMoves, Quiet, object, call
<1>2. Pool'
  BY <1>1 DEF IInv, Pool, Disks, Address, AddressAt
<1>3. moves' \in Nat /\ moves' # 0 /\ Cardinality(struck') + moves' <= MaxTrouble
  <2>1. moves \in Nat /\ Cardinality(struck) \in Nat
    BY FS_CardinalityType DEF IInv, Test
  <2> QED
    BY <1>1, <2>1, VmLifeAssumption
<1>4. Test'
  BY <1>1, <1>3 DEF IInv, Test
<1>5. Where' /\ Handlers' /\ Kept' /\ Held'
  <2>1. Where'
    BY <1>1 DEF IInv, Where, Idle
  <2>2. Handlers'
    BY <1>1 DEF IInv, Handlers
  <2>3. Kept'
    BY <1>1 DEF IInv, Kept, SnapTrouble
  <2>4. Held'
    BY <1>1 DEF IInv, Held
  <2> QED
    BY <2>1, <2>2, <2>3, <2>4
<1>6. Addressed' /\ Smooth'
  BY <1>3 DEF Addressed, Smooth, Calm
<1>7. Right'
  BY <1>1, RightStays DEF IInv
<1> QED
  BY <1>2, <1>4, <1>5, <1>6, <1>7 DEF IInv

-----------------------------------------------------------------------------
(* The methods, as the tests call them.                                    *)

Two(a, b)           == <<a, b>>
Three(a, b, c)      == <<a, b, c>>
Four(a, b, c, d)    == <<a, b, c, d>>
Five(a, b, c, d, e) == <<a, b, c, d, e>>

Text(x)    == x \in Seq(Statement)
Then(x, r) == x \o r
Put(a, r)  == <<a>> \o r

LEMMA TwoSpelled ==
  ASSUME NEW a, NEW b PROVE Two(a, b) = <<a>> \o <<b>>
<1> DEFINE S == {a, b}
<1>1. <<a>> \in Seq(S) /\ <<b>> \in Seq(S) /\ <<a, b>> \in Seq(S)
  OBVIOUS
<1>2. Len(<<a>>) = 1 /\ Len(<<b>>) = 1 /\ Len(<<a, b>>) = 2
  OBVIOUS
<1> HIDE DEF S
<1>3. <<a>> \o <<b>> \in Seq(S) /\ Len(<<a>> \o <<b>>) = 2
  BY <1>1, <1>2, ConcatProperties
<1>4. \A i \in 1..2 : (<<a>> \o <<b>>)[i] = IF i <= 1 THEN <<a>>[i] ELSE <<b>>[i - 1]
  BY <1>1, <1>2, ConcatProperties
<1>5. \A i \in 1..2 : (<<a>> \o <<b>>)[i] = <<a, b>>[i]
  <2>1. \A i \in 1..2 : i = 1 \/ i = 2
    OBVIOUS
  <2> QED
    BY <1>4, <2>1
<1> QED
  BY <1>1, <1>2, <1>3, <1>5, SeqEqual, Zenon DEF Two

LEMMA ThreeSpelled ==
  ASSUME NEW a, NEW b, NEW c PROVE Three(a, b, c) = <<a>> \o Two(b, c)
<1> DEFINE S == {a, b, c}
<1>1. <<a>> \in Seq(S) /\ <<b, c>> \in Seq(S) /\ <<a, b, c>> \in Seq(S)
  OBVIOUS
<1>2. Len(<<a>>) = 1 /\ Len(<<b, c>>) = 2 /\ Len(<<a, b, c>>) = 3
  OBVIOUS
<1> HIDE DEF S
<1>3. <<a>> \o <<b, c>> \in Seq(S) /\ Len(<<a>> \o <<b, c>>) = 3
  BY <1>1, <1>2, ConcatProperties
<1>4. \A i \in 1..3 : (<<a>> \o <<b, c>>)[i] = IF i <= 1 THEN <<a>>[i] ELSE <<b, c>>[i - 1]
  BY <1>1, <1>2, ConcatProperties
<1>5. \A i \in 1..3 : (<<a>> \o <<b, c>>)[i] = <<a, b, c>>[i]
  <2>1. \A i \in 1..3 : i = 1 \/ i = 2 \/ i = 3
    OBVIOUS
  <2> QED
    BY <1>4, <2>1
<1> QED
  BY <1>1, <1>2, <1>3, <1>5, SeqEqual, Zenon DEF Three, Two

LEMMA FourSpelled ==
  ASSUME NEW a, NEW b, NEW c, NEW d PROVE Four(a, b, c, d) = <<a>> \o Three(b, c, d)
<1> DEFINE S == {a, b, c, d}
<1>1. <<a>> \in Seq(S) /\ <<b, c, d>> \in Seq(S) /\ <<a, b, c, d>> \in Seq(S)
  OBVIOUS
<1>2. Len(<<a>>) = 1 /\ Len(<<b, c, d>>) = 3 /\ Len(<<a, b, c, d>>) = 4
  OBVIOUS
<1> HIDE DEF S
<1>3. <<a>> \o <<b, c, d>> \in Seq(S) /\ Len(<<a>> \o <<b, c, d>>) = 4
  BY <1>1, <1>2, ConcatProperties
<1>4. \A i \in 1..4 : (<<a>> \o <<b, c, d>>)[i] = IF i <= 1 THEN <<a>>[i] ELSE <<b, c, d>>[i - 1]
  BY <1>1, <1>2, ConcatProperties
<1>5. \A i \in 1..4 : (<<a>> \o <<b, c, d>>)[i] = <<a, b, c, d>>[i]
  <2>1. \A i \in 1..4 : i = 1 \/ i = 2 \/ i = 3 \/ i = 4
    OBVIOUS
  <2> QED
    BY <1>4, <2>1
<1> QED
  BY <1>1, <1>2, <1>3, <1>5, SeqEqual, Zenon DEF Four, Three

LEMMA FiveSpelled ==
  ASSUME NEW a, NEW b, NEW c, NEW d, NEW e PROVE Five(a, b, c, d, e) = <<a>> \o Four(b, c, d, e)
<1> DEFINE S == {a, b, c, d, e}
<1>1. <<a>> \in Seq(S) /\ <<b, c, d, e>> \in Seq(S) /\ <<a, b, c, d, e>> \in Seq(S)
  OBVIOUS
<1>2. Len(<<a>>) = 1 /\ Len(<<b, c, d, e>>) = 4 /\ Len(<<a, b, c, d, e>>) = 5
  OBVIOUS
<1> HIDE DEF S
<1>3. <<a>> \o <<b, c, d, e>> \in Seq(S) /\ Len(<<a>> \o <<b, c, d, e>>) = 5
  BY <1>1, <1>2, ConcatProperties
<1>4. \A i \in 1..5 : (<<a>> \o <<b, c, d, e>>)[i] = IF i <= 1 THEN <<a>>[i] ELSE <<b, c, d, e>>[i - 1]
  BY <1>1, <1>2, ConcatProperties
<1>5. \A i \in 1..5 : (<<a>> \o <<b, c, d, e>>)[i] = <<a, b, c, d, e>>[i]
  <2>1. \A i \in 1..5 : i = 1 \/ i = 2 \/ i = 3 \/ i = 4 \/ i = 5
    OBVIOUS
  <2> QED
    BY <1>4, <2>1
<1> QED
  BY <1>1, <1>2, <1>3, <1>5, SeqEqual, Zenon DEF Five, Four

LEMMA Onto ==
  \A p, q, r : Text(p) /\ Text(q) /\ Text(r)
                  => p \o q \o r = p \o (q \o r) /\ Text(p \o q) /\ Text(q \o r)
  BY ConcatAssociative, ConcatProperties DEF Text

LEMMA TwoOnto ==
  \A a, b, r : Text(Two(a, b)) /\ Text(r) => Then(Two(a, b), r) = Put(a, Put(b, r))
<1> TAKE a, b, r
<1> HAVE Text(Two(a, b)) /\ Text(r)
<1>1. a \in Statement /\ b \in Statement
  <2>1. Len(<<a, b>>) = 2 /\ <<a, b>>[1] = a /\ <<a, b>>[2] = b
    OBVIOUS
  <2>2. \A i \in 1..2 : <<a, b>>[i] \in Statement
    BY <2>1, ElementOfSeq DEF Text, Two
  <2> QED
    BY <2>1, <2>2
<1>2. Text(<<a>>) /\ Text(<<b>>)
  BY <1>1 DEF Text
<1>3. Two(a, b) = <<a>> \o <<b>>
  BY TwoSpelled
<1>4. Two(a, b) \o r = <<a>> \o (<<b>> \o r)
  BY <1>2, <1>3, Onto
<1> QED
  BY <1>4 DEF Then, Put

LEMMA ThreeOnto ==
  \A a, b, c, r : Text(Three(a, b, c)) /\ Text(r) => Then(Three(a, b, c), r) = Put(a, Put(b, Put(c, r)))
<1> TAKE a, b, c, r
<1> HAVE Text(Three(a, b, c)) /\ Text(r)
<1>1. a \in Statement /\ b \in Statement /\ c \in Statement
  <2>1. Len(<<a, b, c>>) = 3 /\ <<a, b, c>>[1] = a /\ <<a, b, c>>[2] = b /\ <<a, b, c>>[3] = c
    OBVIOUS
  <2>2. \A i \in 1..3 : <<a, b, c>>[i] \in Statement
    BY <2>1, ElementOfSeq DEF Text, Three
  <2> QED
    BY <2>1, <2>2
<1>2. Text(<<a>>) /\ Text(Two(b, c))
  BY <1>1 DEF Text, Two
<1>3. Three(a, b, c) = <<a>> \o Two(b, c)
  BY ThreeSpelled
<1>4. Three(a, b, c) \o r = <<a>> \o (Two(b, c) \o r)
  BY <1>2, <1>3, Onto
<1>5. Then(Three(a, b, c), r) = Put(a, Then(Two(b, c), r))
  BY <1>4 DEF Then, Put
<1> QED
  BY <1>2, <1>5, TwoOnto

LEMMA FourOnto ==
  \A a, b, c, d, r : Text(Four(a, b, c, d)) /\ Text(r) => Then(Four(a, b, c, d), r) = Put(a, Put(b, Put(c, Put(d, r))))
<1> TAKE a, b, c, d, r
<1> HAVE Text(Four(a, b, c, d)) /\ Text(r)
<1>1. a \in Statement /\ b \in Statement /\ c \in Statement /\ d \in Statement
  <2>1. Len(<<a, b, c, d>>) = 4 /\ <<a, b, c, d>>[1] = a /\ <<a, b, c, d>>[2] = b /\ <<a, b, c, d>>[3] = c /\ <<a, b, c, d>>[4] = d
    OBVIOUS
  <2>2. \A i \in 1..4 : <<a, b, c, d>>[i] \in Statement
    BY <2>1, ElementOfSeq DEF Text, Four
  <2> QED
    BY <2>1, <2>2
<1>2. Text(<<a>>) /\ Text(Three(b, c, d))
  BY <1>1 DEF Text, Three
<1>3. Four(a, b, c, d) = <<a>> \o Three(b, c, d)
  BY FourSpelled
<1>4. Four(a, b, c, d) \o r = <<a>> \o (Three(b, c, d) \o r)
  BY <1>2, <1>3, Onto
<1>5. Then(Four(a, b, c, d), r) = Put(a, Then(Three(b, c, d), r))
  BY <1>4 DEF Then, Put
<1> QED
  BY <1>2, <1>5, ThreeOnto

LEMMA FiveOnto ==
  \A a, b, c, d, e, r : Text(Five(a, b, c, d, e)) /\ Text(r) => Then(Five(a, b, c, d, e), r) = Put(a, Put(b, Put(c, Put(d, Put(e, r)))))
<1> TAKE a, b, c, d, e, r
<1> HAVE Text(Five(a, b, c, d, e)) /\ Text(r)
<1>1. a \in Statement /\ b \in Statement /\ c \in Statement /\ d \in Statement /\ e \in Statement
  <2>1. Len(<<a, b, c, d, e>>) = 5 /\ <<a, b, c, d, e>>[1] = a /\ <<a, b, c, d, e>>[2] = b /\ <<a, b, c, d, e>>[3] = c /\ <<a, b, c, d, e>>[4] = d /\ <<a, b, c, d, e>>[5] = e
    OBVIOUS
  <2>2. \A i \in 1..5 : <<a, b, c, d, e>>[i] \in Statement
    BY <2>1, ElementOfSeq DEF Text, Five
  <2> QED
    BY <2>1, <2>2
<1>2. Text(<<a>>) /\ Text(Four(b, c, d, e))
  BY <1>1 DEF Text, Four
<1>3. Five(a, b, c, d, e) = <<a>> \o Four(b, c, d, e)
  BY FiveSpelled
<1>4. Five(a, b, c, d, e) \o r = <<a>> \o (Four(b, c, d, e) \o r)
  BY <1>2, <1>3, Onto
<1>5. Then(Five(a, b, c, d, e), r) = Put(a, Then(Four(b, c, d, e), r))
  BY <1>4 DEF Then, Put
<1> QED
  BY <1>2, <1>5, FourOnto

LEMMA Called ==
    /\ WaitSsh = Boot4 /\ <<"vm-start">> \o WaitSsh = Boot5
    /\ <<"vm-shutdown", "halted">> = Shut2 /\ <<"vm-shutdown-force", "halted">> = Force2
    /\ <<"vm-reboot">> \o WaitSsh = Reboot5
    /\ <<"vm-suspend", "suspended", "vm-resume">> \o WaitSsh = Suspend7
    /\ <<"vm-pause", "paused", "vm-unpause">> \o WaitSsh = Pause7
    /\ <<"vbd-create", "plug?", "append">> = Connect3
    /\ <<"in-vdis?", "unplug?", "vbd-destroy", "remove">> = Disconnect4
    /\ <<"vdi-destroy">> = Vdi1 /\ <<"vm-snapshot">> = Snapshot1 /\ <<"vm-checkpoint">> = Checkpoint1
    /\ DropSnap = Drop2 /\ Destroy = Destroy4
<1>1. \A s \in {"running", "ip?", "agent?", "ssh?", "vm-shutdown", "vm-shutdown-force", "halted",
                "vm-suspend", "suspended", "vm-resume", "vm-pause", "paused", "vm-unpause"} : s \in Statement
  BY DEF Statement
<1>2. \A s \in {"vbd-create", "plug?", "append", "in-vdis?", "unplug?", "vbd-destroy", "remove",
                "snapshot-uninstall", "snapshot-gone?", "halted-now?", "vm-disk-list", "vm-destroy",
                "gone?"} : s \in Statement
  BY DEF Statement
<1>3. WaitSsh = Boot4
  <2>1. Two("agent?", "ssh?") = Boot2
    BY TwoSpelled DEF Boot2, Boot1
  <2>2. Three("ip?", "agent?", "ssh?") = Boot3
    BY <2>1, ThreeSpelled DEF Boot3
  <2>3. Four("running", "ip?", "agent?", "ssh?") = Boot4
    BY <2>2, FourSpelled DEF Boot4
  <2> QED
    BY <2>3 DEF WaitSsh, Four
<1>4. <<"vm-start">> \o WaitSsh = Boot5 /\ <<"vm-reboot">> \o WaitSsh = Reboot5
  BY <1>3 DEF Boot5, Reboot5
<1>5. Text(Boot4)
  BY Booting DEF Text
<1>6. <<"vm-suspend", "suspended", "vm-resume">> \o WaitSsh = Suspend7
  <2>1. Text(Three("vm-suspend", "suspended", "vm-resume"))
    BY <1>1 DEF Text, Three
  <2>2. Then(Three("vm-suspend", "suspended", "vm-resume"), Boot4)
          = Put("vm-suspend", Put("suspended", Put("vm-resume", Boot4)))
    BY <1>5, <2>1, ThreeOnto
  <2> QED
    BY <1>3, <2>2, Zenon DEF Three, Then, Put, Suspend7, Suspend6, Resume5
<1>7. <<"vm-pause", "paused", "vm-unpause">> \o WaitSsh = Pause7
  <2>1. Text(Three("vm-pause", "paused", "vm-unpause"))
    BY <1>1 DEF Text, Three
  <2>2. Then(Three("vm-pause", "paused", "vm-unpause"), Boot4)
          = Put("vm-pause", Put("paused", Put("vm-unpause", Boot4)))
    BY <1>5, <2>1, ThreeOnto
  <2> QED
    BY <1>3, <2>2, Zenon DEF Three, Then, Put, Pause7, Pause6, Unpause5
<1>8. <<"vm-shutdown", "halted">> = Shut2 /\ <<"vm-shutdown-force", "halted">> = Force2
  <2>1. Two("vm-shutdown", "halted") = Shut2 /\ Two("vm-shutdown-force", "halted") = Force2
    BY TwoSpelled DEF Shut2, Force2, Shut1
  <2> QED
    BY <2>1 DEF Two
<1>9. <<"vbd-create", "plug?", "append">> = Connect3
  <2>1. Two("plug?", "append") = Connect2
    BY TwoSpelled DEF Connect2, Connect1
  <2>2. Three("vbd-create", "plug?", "append") = Connect3
    BY <2>1, ThreeSpelled DEF Connect3
  <2> QED
    BY <2>2 DEF Three
<1>10. <<"in-vdis?", "unplug?", "vbd-destroy", "remove">> = Disconnect4
  <2>1. Two("vbd-destroy", "remove") = Disconnect2
    BY TwoSpelled DEF Disconnect2, Disconnect1
  <2>2. Three("unplug?", "vbd-destroy", "remove") = Disconnect3
    BY <2>1, ThreeSpelled DEF Disconnect3
  <2>3. Four("in-vdis?", "unplug?", "vbd-destroy", "remove") = Disconnect4
    BY <2>2, FourSpelled DEF Disconnect4
  <2> QED
    BY <2>3 DEF Four
<1>11. <<"vdi-destroy">> = Vdi1 /\ <<"vm-snapshot">> = Snapshot1 /\ <<"vm-checkpoint">> = Checkpoint1
  BY DEF Vdi1, Snapshot1, Checkpoint1
<1>12. DropSnap = Drop2
  <2>1. Two("snapshot-uninstall", "snapshot-gone?") = Drop2
    BY TwoSpelled DEF Drop2, Drop1
  <2> QED
    BY <2>1 DEF DropSnap, Two
<1>13. Destroy = Destroy4
  <2>1. Drops(0) = Two("vm-destroy", "gone?")
    <3>1. [i \in 1..0 |-> "vdi-destroy"] = <<>>
      OBVIOUS
    <3>2. Two("vm-destroy", "gone?") \in Seq(Statement)
      BY <1>2 DEF Two
    <3> QED
      BY <3>1, <3>2, ConcatEmptySeq, Zenon DEF Drops, Two
  <2>2. Three("vm-disk-list", "vm-destroy", "gone?") = Destroy3
    BY <2>1, ThreeSpelled DEF Destroy3
  <2>3. Four("halted-now?", "vm-disk-list", "vm-destroy", "gone?") = Destroy4
    BY <2>2, FourSpelled DEF Destroy4
  <2> QED
    BY <2>3 DEF Destroy, Four
<1> QED
  BY <1>3, <1>4, <1>6, <1>7, <1>8, <1>9, <1>10, <1>11, <1>12, <1>13, Zenon

LEMMA CalledToRevert ==
    /\ <<"snapshot-revert", "create_vdis_list">> \o (<<"vm-resume">> \o WaitSsh) = Revert7
    /\ <<"snapshot-revert", "create_vdis_list">> \o <<>> = Revert2
<1>1. "snapshot-revert" \in Statement /\ "create_vdis_list" \in Statement
  BY DEF Statement
<1>2. Text(Resume5) /\ Resume5 = <<"vm-resume">> \o WaitSsh /\ Revert2 \in Seq(Statement)
  BY Switching, Snapshotting, Called DEF Text, Resume5
<1>3. Two("snapshot-revert", "create_vdis_list") \o Resume5 = Revert7
  <2>1. Text(Two("snapshot-revert", "create_vdis_list"))
    BY <1>1 DEF Text, Two
  <2>2. Then(Two("snapshot-revert", "create_vdis_list"), Resume5)
          = Put("snapshot-revert", Put("create_vdis_list", Resume5))
    BY <1>2, <2>1, TwoOnto
  <2> QED
    BY <2>2, Zenon DEF Then, Put, Revert7, List6
<1>4. Two("snapshot-revert", "create_vdis_list") = Revert2
  BY TwoSpelled DEF Revert2, List1
<1>5. Revert2 \o <<>> = Revert2
  BY <1>2, ConcatEmptySeq
<1> QED
  BY <1>2, <1>3, <1>4, <1>5, Zenon DEF Two

LEMMA CalledToMigrate ==
    /\ <<"live?">> \o <<>> \o <<"vm-migrate", "moved", "create_vdis_list">> = Migrate4
    /\ <<"live?">> \o <<"same-sr?">> \o <<"vm-migrate", "moved", "create_vdis_list">> = SameSr5
<1>1. \A s \in {"live?", "same-sr?", "vm-migrate", "moved", "create_vdis_list"} : s \in Statement
  BY DEF Statement
<1>2. Three("vm-migrate", "moved", "create_vdis_list") = Migrate3
  <2>1. Two("moved", "create_vdis_list") = Migrate2
    BY TwoSpelled DEF Migrate2, List1
  <2> QED
    BY <2>1, ThreeSpelled DEF Migrate3
<1>3. Text(Migrate3)
  BY Moving DEF Text
<1>4. <<"live?">> \o <<>> = <<"live?">>
  OBVIOUS
<1>5. <<"live?">> \o <<"same-sr?">> \o Migrate3 = <<"live?">> \o (<<"same-sr?">> \o Migrate3)
  <2>1. Text(<<"live?">>) /\ Text(<<"same-sr?">>)
    BY <1>1 DEF Text
  <2> QED
    BY <1>3, <2>1, Onto
<1> QED
  BY <1>2, <1>4, <1>5, Zenon DEF Three, Migrate4, SameSr5, SameSr4

LEMMA CalledToSnapshot ==
  WaitSsh \o <<"vm-snapshot", "touch", "snapshot-revert", "create_vdis_list", "vm-start">>
     \o WaitSsh \o <<"no-file?", "finally">> \o DropSnap = Fragment17
<1> DEFINE f == Five("vm-snapshot", "touch", "snapshot-revert", "create_vdis_list", "vm-start")
           n == Two("no-file?", "finally")
           w == Four("running", "ip?", "agent?", "ssh?")
           d == Drop2
<1>1. \A s \in {"running", "ip?", "agent?", "ssh?", "vm-snapshot", "touch", "snapshot-revert",
                "create_vdis_list", "vm-start", "no-file?", "finally"} : s \in Statement
  BY DEF Statement
<1>2. Text(d) /\ Text(Fragment4) /\ Text(Fragment8) /\ Text(Fragment13)
  BY Snapshotting, FragmentEnds, FragmentBegins DEF Text
<1>3. Text(f) /\ Text(n) /\ Text(w)
  <2>1. Text(f)
    BY <1>1 DEF Text, Five
  <2>2. Text(n)
    BY <1>1 DEF Text, Two
  <2>3. Text(w)
    BY <1>1 DEF Text, Four
  <2> QED
    BY <2>1, <2>2, <2>3
<1>4. n \o d = Fragment4
  <2>1. Then(n, d) = Put("no-file?", Put("finally", d))
    BY <1>2, <1>3, TwoOnto
  <2> QED
    BY <2>1, Zenon DEF Then, Put, Fragment4, Fragment3
<1>5. w \o Fragment4 = Fragment8
  <2>1. Then(w, Fragment4) = Put("running", Put("ip?", Put("agent?", Put("ssh?", Fragment4))))
    BY <1>2, <1>3, FourOnto
  <2> QED
    BY <2>1, Zenon DEF Then, Put, Fragment8, Fragment7, Fragment6, Fragment5
<1>6. f \o Fragment8 = Fragment13
  <2>1. Then(f, Fragment8) = Put("vm-snapshot", Put("touch", Put("snapshot-revert", Put("create_vdis_list", Put("vm-start", Fragment8)))))
    BY <1>2, <1>3, FiveOnto
  <2> QED
    BY <2>1, Zenon DEF Then, Put, Fragment13, Fragment12, Fragment11, Fragment10, Fragment9
<1>7. w \o Fragment13 = Fragment17
  <2>1. Then(w, Fragment13) = Put("running", Put("ip?", Put("agent?", Put("ssh?", Fragment13))))
    BY <1>2, <1>3, FourOnto
  <2> QED
    BY <2>1, Zenon DEF Then, Put, Fragment17, Fragment16, Fragment15, Fragment14
<1> HIDE DEF f, n, w, d
<1>8. Text(w \o f) /\ Text(w \o f \o w)
  BY <1>3, Onto
<1>9. w \o f \o w \o n \o d = w \o f \o w \o (n \o d)
  BY <1>2, <1>3, <1>8, Onto
<1>10. w \o f \o w \o Fragment4 = w \o f \o (w \o Fragment4)
  BY <1>2, <1>3, <1>8, Onto
<1>11. w \o f \o Fragment8 = w \o (f \o Fragment8)
  BY <1>2, <1>3, Onto
<1>12. w \o f \o w \o n \o d = Fragment17
  BY <1>4, <1>5, <1>6, <1>7, <1>9, <1>10, <1>11, Zenon
<1>13. WaitSsh = w /\ DropSnap = d
  BY Called DEF w, d, WaitSsh, Four
<1> QED
  BY <1>12, <1>13, Zenon DEF f, n, Two, Five

\* What a test calls first.
Entries == {Boot5, Shut2, Force2, Reboot5, Suspend7, Pause7, Connect3, Disconnect4, Vdi1, Snapshot1,
            Checkpoint1, Revert2, Revert7, Drop2, Fragment17, Migrate4, SameSr5}

LEMMA EntriesAre ==
    /\ Entries \subseteq Testing /\ Entries \cap (Taking \cup Ending \cup {<<>>}) = {}
    /\ Entries \cap Migrating = {Migrate4, SameSr5}
    /\ Entries \cap {Boot2, Boot1, Fragment15, Fragment14, Fragment6, Fragment5, Migrate2, Connect2, Plug2,
                     Connect1, Disconnect3, Unplug3, Disconnect2, Disconnect1, List1, List6, Fragment10,
                     Fragment13, Fragment12, Fragment4, Fragment11, Drop1} = {}
    /\ Disconnect4 # Connect3 /\ Drop2 \notin {Revert2, Revert7} /\ Revert2 # Revert7
    /\ Vdi1 # Connect3
<1> USE Table DEF Entries, Steps, Step
<1>1. Entries \subseteq Testing
  BY DEF Testing, Powering, Attaching, Reverting, Dropping, Migrating, Before
<1>2. Entries \cap (Taking \cup Ending \cup {<<>>}) = {}
  BY DEF Taking, Ending
<1>3. Entries \cap Migrating = {Migrate4, SameSr5}
  BY DEF Migrating
<1>4. Entries \cap {Boot2, Boot1, Fragment15, Fragment14, Fragment6, Fragment5, Migrate2, Connect2, Plug2,
                     Connect1, Disconnect3, Unplug3, Disconnect2, Disconnect1, List1, List6, Fragment10,
                     Fragment13, Fragment12, Fragment4, Fragment11, Drop1} = {}
  OBVIOUS
<1>5. Disconnect4 # Connect3 /\ Drop2 \notin {Revert2, Revert7} /\ Revert2 # Revert7 /\ Vdi1 # Connect3
  OBVIOUS
<1> QED
  BY <1>1, <1>2, <1>3, <1>4, <1>5, Zenon

\* At rest, in a test in which nothing has raised.
LEMMA AtRest ==
  ASSUME IInv, todo = <<>>, phase = "test", ~raised
  PROVE  /\ PoolOf[host] = PoolOf[at] /\ Sees(host, vbd) /\ Sees(host, snap.disks) /\ vdis = vbd
         /\ snap # NoSnap /\ ~SnapTrouble => snap.deferred
         /\ Calm => ~file /\ ~snap.file
         /\ power # "gone" /\ vbd \subseteq Disks /\ snap.disks \subseteq Disks
<1>1. <<>> \notin {Migrate2, Connect2, Plug2, Connect1, Disconnect1, List1, List6, Fragment10, Drop2, Fragment11}
  BY Table DEF Steps, Step
<1>2. PoolOf[host] = PoolOf[at] /\ Sees(host, vbd) /\ Sees(host, snap.disks) /\ vdis = vbd
  BY <1>1 DEF IInv, Right
<1>3. snap # NoSnap /\ ~SnapTrouble => snap.deferred
  BY <1>1, Apart DEF IInv, Kept
<1>4. Calm => ~file /\ ~snap.file
  BY <1>1 DEF IInv, Smooth, Snapped
<1> QED
  BY <1>2, <1>3, <1>4 DEF IInv, Where, Pool

LEMMA Entered ==
  ASSUME IInv, todo = <<>>, phase = "test", ~raised, todo' \in Entries,
         UNCHANGED <<power, at, vbd, unplugged, snap, boot, addr, file, host, vdis, ip, phase, raised,
                     struck, moves>>,
         sr' \in [Disk -> SR \cup {None}], \A d \in Disks : sr'[d] = sr[d], args' \in Args,
         handler' \in {NoHandler, Forcing}, handler' = Forcing => todo' = Shut2,
         todo' \in {Revert2, Revert7, Drop2} => snap # NoSnap,
         todo' = Revert7 => snap.power = "suspended",
         todo' \in {Migrate4, SameSr5} => snap = NoSnap /\ args'.target \in Host,
         todo' = Disconnect4 => args'.disk \in vbd,
         todo' = Vdi1 => \E d \in vbd : args'.left = {d},
         todo' = Connect3 => /\ args'.disk \in Disks' \ vbd /\ snap = NoSnap
                             /\ host \in SeenFrom[sr'[args'.disk]],
         Calm => Powers' /\ Moves'
  PROVE  IInv'
<1>1. /\ PoolOf[host] = PoolOf[at] /\ Sees(host, vbd) /\ Sees(host, snap.disks) /\ vdis = vbd
      /\ snap # NoSnap /\ ~SnapTrouble => snap.deferred
      /\ Calm => ~file /\ ~snap.file
      /\ power # "gone" /\ vbd \subseteq Disks /\ snap.disks \subseteq Disks
  BY AtRest
<1>2. Disks \subseteq Disks'
  BY DEF Disks
<1>3. Sees(host, vbd)' /\ Sees(host, snap.disks)'
  BY <1>1 DEF Sees
<1>4. Pool'
  BY <1>1, <1>2 DEF IInv, Pool, AddressAt
<1>5. Test'
  BY DEF IInv, Test
<1>6. Where'
  <2>1. todo' \in Testing /\ todo' \notin {<<>>, Gone1}
    BY EntriesAre DEF Ending
  <2>2. todo' = Vdi1 => args'.left \subseteq vbd' /\ \E d \in Disk : args'.left = {d}
    BY <1>1 DEF Disks
  <2> QED
    BY <1>1, <2>1, <2>2 DEF Where
<1>7. Handlers'
  BY EntriesAre, HandlersApart DEF Handlers
<1>8. Kept'
  BY <1>1 DEF Kept, SnapTrouble
<1>9. Held' /\ Addressed'
  BY EntriesAre DEF Held, Addressed
<1>10. Right'
  <2>1. todo' # Migrate2 /\ todo' \notin {Connect2, Plug2, Connect1} /\ todo' # Disconnect1
        /\ todo' \notin {Disconnect3, Unplug3, Disconnect2}
    BY EntriesAre
  <2>2. todo' \in Migrating => snap = NoSnap /\ args'.target \in Host
    BY EntriesAre
  <2>3. todo' = Connect3 => /\ args'.disk \in Disks' \ vbd' /\ snap' = NoSnap /\ Sees(host, {args.disk})'
    BY DEF Sees
  <2> QED
    BY <1>1, <1>3, <2>1, <2>2, <2>3 DEF Right
<1>11. Smooth'
  <2>1. todo' \notin Taking \cup {Drop1, Fragment13, Fragment12, Fragment4, Fragment11}
    BY EntriesAre
  <2>2. Calm => Snapped'
    BY <1>1, <2>1 DEF Snapped
  <2> QED
    BY <2>2 DEF Smooth, Calm
<1> QED
  BY <1>4, <1>5, <1>6, <1>7, <1>8, <1>9, <1>10, <1>11 DEF IInv

\* Args of a call.
LEMMA NoArgsAre ==
    /\ NoArgs \in Args
    /\ \A h \in Host \cup {None} : /\ [NoArgs EXCEPT !.target = h] \in Args
                                   /\ [NoArgs EXCEPT !.target = h].target = h
    /\ \A d \in Disk : /\ [NoArgs EXCEPT !.disk = d] \in Args /\ [NoArgs EXCEPT !.disk = d].disk = d
                       /\ [NoArgs EXCEPT !.left = {d}] \in Args /\ [NoArgs EXCEPT !.left = {d}].left = {d}
  BY DEF NoArgs, Args

\* What a call of a method changes.
CallsMethod(s, a, h) ==
    /\ todo = <<>> /\ phase = "test" /\ ~raised /\ todo' = s /\ args' = a /\ handler' = h
    /\ UNCHANGED <<power, at, vbd, unplugged, snap, boot, addr, file, host, vdis, ip, phase, raised,
                   struck, moves>>

LEMMA MethodEnters ==
  ASSUME IInv, NEW s, NEW a, NEW h, Method(s, a, h)
  PROVE  /\ CallsMethod(s, a, h) /\ sr' = sr
         /\ sr' \in [Disk -> SR \cup {None}] /\ \A d \in Disks : sr'[d] = sr[d]
  BY DEF Method, Call, CallsMethod, xapi, guest, object, IInv, Pool

\* A method that is neither a connection nor a migration.
LEMMA Begins ==
  ASSUME IInv, NEW s, NEW a, NEW h, Method(s, a, h), a \in Args,
         s \in Entries \ {Connect3, Migrate4, SameSr5},
         h \in {NoHandler, Forcing}, h = Forcing => s = Shut2,
         s \in {Revert2, Revert7, Drop2} => snap # NoSnap,
         s = Revert7 => snap.power = "suspended",
         s = Disconnect4 => a.disk \in vbd,
         s = Vdi1 => \E d \in vbd : a.left = {d},
         Powers'
  PROVE  IInv'
<1>1. /\ CallsMethod(s, a, h) /\ sr' \in [Disk -> SR \cup {None}]
      /\ \A d \in Disks : sr'[d] = sr[d]
  BY MethodEnters
<1>2. Moves'
  <2>1. todo' \notin {Migrate4, SameSr5, SameSr4, Migrate3}
    BY <1>1, EntriesAre DEF CallsMethod, Migrating
  <2> QED
    BY <2>1 DEF Moves
<1> QED
  BY <1>1, <1>2, Entered, SMT DEF CallsMethod

LEMMA StartsKeeps == ASSUME IInv, Starts PROVE IInv'
<1>1. PICK t \in Host \cup {None} :
         power = "halted" /\ Method(Boot5, [NoArgs EXCEPT !.target = t], NoHandler)
  BY Called DEF Starts
<1> DEFINE a == [NoArgs EXCEPT !.target = t]
<1>2. a \in Args
  BY NoArgsAre
<1> HIDE DEF a
<1>3. CallsMethod(Boot5, a, NoHandler)
  BY <1>1, MethodEnters DEF a
<1>4. Powers'
  BY <1>1, <1>3, Table DEF Powers, CallsMethod, Steps, Step
<1>5. Boot5 \in Entries \ {Connect3, Migrate4, SameSr5, Revert2, Revert7, Drop2, Disconnect4, Vdi1}
  BY Table DEF Entries, Steps, Step
<1>6. Method(Boot5, a, NoHandler)
  BY <1>1 DEF a
<1> QED
  BY <1>2, <1>4, <1>5, <1>6, HandlersApart, Begins

LEMMA StopsKeeps == ASSUME IInv, Stops PROVE IInv'
<1>1. power = "running" /\ boot > 2
  BY DEF Stops, Ready, IInv, Pool
<1>2. PICK s \in {Shut2, Force2, Reboot5, Suspend7, Pause7} : Method(s, NoArgs, NoHandler)
  BY Called, Zenon DEF Stops
<1>3. CallsMethod(s, NoArgs, NoHandler)
  BY <1>2, MethodEnters
<1>4. Powers'
  BY <1>1, <1>2, <1>3, Table DEF Powers, CallsMethod, Steps, Step
<1>5. s \in Entries \ {Connect3, Migrate4, SameSr5, Revert2, Revert7, Drop2, Disconnect4, Vdi1}
  BY Table DEF Entries, Steps, Step
<1> QED
  BY <1>2, <1>4, <1>5, HandlersApart, NoArgsAre, Begins

LEMMA StopsOrForcesKeeps == ASSUME IInv, StopsOrForces PROVE IInv'
<1>1. power = "running" /\ Method(Shut2, NoArgs, Forcing)
  BY Called, Zenon DEF StopsOrForces, Forcing
<1>2. CallsMethod(Shut2, NoArgs, Forcing)
  BY <1>1, MethodEnters
<1>3. Powers'
  BY <1>1, <1>2, Table DEF Powers, CallsMethod, Steps, Step
<1>4. Shut2 \in Entries \ {Connect3, Migrate4, SameSr5, Revert2, Revert7, Drop2, Disconnect4, Vdi1}
  BY Table DEF Entries, Steps, Step
<1> QED
  BY <1>1, <1>3, <1>4, NoArgsAre, Begins

LEMMA DisconnectsKeeps == ASSUME IInv, Disconnects PROVE IInv'
<1>1. PICK d \in vdis : /\ power \in {"running", "halted"}
                        /\ Method(Disconnect4, [NoArgs EXCEPT !.disk = d], NoHandler)
  BY Called, Zenon DEF Disconnects
<1> DEFINE a == [NoArgs EXCEPT !.disk = d]
<1>2. d \in vbd
  BY <1>1, AtRest, MethodEnters DEF CallsMethod
<1>3. a \in Args /\ a.disk = d
  BY <1>1, NoArgsAre DEF IInv, Test
<1> HIDE DEF a
<1>4. Method(Disconnect4, a, NoHandler)
  BY <1>1 DEF a
<1>5. CallsMethod(Disconnect4, a, NoHandler)
  BY <1>4, MethodEnters
<1>6. Powers'
  BY <1>1, <1>5, Table DEF Powers, CallsMethod, Steps, Step
<1>7. Disconnect4 \in Entries \ {Connect3, Migrate4, SameSr5, Revert2, Revert7, Drop2, Vdi1}
  BY Table DEF Entries, Steps, Step
<1> QED
  BY <1>2, <1>3, <1>4, <1>6, <1>7, HandlersApart, Begins

LEMMA DestroysDiskKeeps == ASSUME IInv, DestroysDisk PROVE IInv'
<1>1. PICK d \in vdis : power = "halted" /\ Method(Vdi1, [NoArgs EXCEPT !.left = {d}], NoHandler)
  BY Called, Zenon DEF DestroysDisk
<1> DEFINE a == [NoArgs EXCEPT !.left = {d}]
<1>2. d \in vbd
  BY <1>1, AtRest, MethodEnters DEF CallsMethod
<1>3. a \in Args /\ a.left = {d}
  BY <1>1, NoArgsAre DEF IInv, Test
<1> HIDE DEF a
<1>4. Method(Vdi1, a, NoHandler)
  BY <1>1 DEF a
<1>5. CallsMethod(Vdi1, a, NoHandler)
  BY <1>4, MethodEnters
<1>6. Powers'
  BY <1>1, <1>5, Table DEF Powers, CallsMethod, Steps, Step
<1>7. Vdi1 \in Entries \ {Connect3, Migrate4, SameSr5, Revert2, Revert7, Drop2, Disconnect4}
  BY Table DEF Entries, Steps, Step
<1> QED
  BY <1>2, <1>3, <1>4, <1>6, <1>7, HandlersApart, Begins

LEMMA SnapshotsKeeps == ASSUME IInv, Snapshots \/ Checkpoints \/ Reverts \/ DropsSnapshot PROVE IInv'
<1>1. PICK s \in {Snapshot1, Checkpoint1, Revert2, Revert7, Drop2} :
         /\ Method(s, NoArgs, NoHandler)
         /\ s \in {Revert2, Revert7, Drop2} => snap # NoSnap
         /\ s = Revert7 => snap.power = "suspended"
  <2>1. CASE Snapshots \/ Checkpoints
    <3>1. \E s \in {Snapshot1, Checkpoint1} : Method(s, NoArgs, NoHandler)
      BY <2>1, Called, Zenon DEF Snapshots, Checkpoints
    <3>2. {Snapshot1, Checkpoint1} \cap {Revert2, Revert7, Drop2} = {}
      BY Table DEF Steps, Step
    <3> QED
      BY <3>1, <3>2
  <2>2. CASE Reverts
    <3>1. snap # NoSnap
      BY <2>2 DEF Reverts
    <3>2. CASE snap.power = "suspended"
      <4>1. Method(Revert7, NoArgs, NoHandler)
        BY <2>2, <3>2, CalledToRevert, Zenon DEF Reverts
      <4> QED
        BY <3>1, <3>2, <4>1
    <3>3. CASE snap.power # "suspended"
      <4>1. Method(Revert2, NoArgs, NoHandler)
        BY <2>2, <3>3, CalledToRevert, Zenon DEF Reverts
      <4> QED
        BY <3>1, <4>1, EntriesAre
    <3> QED
      BY <3>2, <3>3
  <2>3. CASE DropsSnapshot
    <3>1. snap # NoSnap /\ Method(Drop2, NoArgs, NoHandler)
      BY <2>3, Called, Zenon DEF DropsSnapshot
    <3> QED
      BY <3>1, EntriesAre
  <2> QED
    BY <2>1, <2>2, <2>3
<1>2. CallsMethod(s, NoArgs, NoHandler)
  BY <1>1, MethodEnters
<1>3. Powers'
  BY <1>1, <1>2, Table DEF Powers, CallsMethod, Steps, Step
<1>4. s \in Entries \ {Connect3, Migrate4, SameSr5, Disconnect4, Vdi1}
  BY Table DEF Entries, Steps, Step
<1> QED
  BY <1>1, <1>3, <1>4, HandlersApart, NoArgsAre, Begins

LEMMA SnapshotTestKeeps == ASSUME IInv, SnapshotTest PROVE IInv'
<1>1. Method(Fragment17, NoArgs, NoHandler)
  BY CalledToSnapshot, Zenon DEF SnapshotTest, Method
<1>2. CallsMethod(Fragment17, NoArgs, NoHandler)
  BY <1>1, MethodEnters
<1>3. Powers'
  BY <1>2, Table DEF Powers, CallsMethod, Steps, Step
<1>4. Fragment17 \in Entries \ {Connect3, Migrate4, SameSr5, Revert2, Revert7, Drop2, Disconnect4, Vdi1}
  BY Table DEF Entries, Steps, Step
<1> QED
  BY <1>1, <1>3, <1>4, HandlersApart, NoArgsAre, Begins

LEMMA ConnectsKeeps == ASSUME IInv, Connects PROVE IInv'
<1>1. PICK d \in Fresh(1), s \in SR :
         /\ power \in {"running", "halted"} /\ snap = NoSnap /\ phase = "test" /\ ~raised
         /\ host \in SeenFrom[s] /\ sr' = [sr EXCEPT ![d] = s]
         /\ Call(<<"vbd-create", "plug?", "append">>, [NoArgs EXCEPT !.disk = d], NoHandler)
         /\ UNCHANGED <<power, at, vbd, unplugged, snap, phase>>
  BY DEF Connects
<1> DEFINE a == [NoArgs EXCEPT !.disk = d]
<1>2. d \in Disk /\ d \notin Disks /\ vbd \subseteq Disks
  BY DEF Fresh, Unused, IInv, Pool
<1>3. a \in Args /\ a.disk = d
  BY <1>2, NoArgsAre
<1> HIDE DEF a
<1>4. /\ CallsMethod(Connect3, a, NoHandler)
      /\ UNCHANGED <<power, at, vbd, unplugged, snap, boot, addr, file, host, vdis, ip, phase, raised,
                     struck, moves>>
  BY <1>1, Called, Zenon DEF Call, CallsMethod, guest, object, a
<1>5. sr \in [Disk -> SR \cup {None}] /\ None \notin SR
  BY VmLifeAssumption DEF IInv, Pool
<1>6. /\ sr' \in [Disk -> SR \cup {None}] /\ \A e \in Disks : sr'[e] = sr[e]
      /\ d \in Disks' \ vbd /\ sr'[d] = s
  BY <1>1, <1>2, <1>5 DEF Disks
<1>7. Powers'
  BY <1>4, Table DEF Powers, CallsMethod, Steps, Step
<1>8. /\ Connect3 \in Entries
      /\ Connect3 \notin {Migrate4, SameSr5, SameSr4, Migrate3, Revert2, Revert7, Drop2, Disconnect4, Vdi1}
  BY Table DEF Entries, Steps, Step
<1>9. Moves'
  BY <1>4, <1>8 DEF Moves, CallsMethod
<1> QED
  BY <1>1, <1>3, <1>4, <1>6, <1>7, <1>8, <1>9, HandlersApart, Entered DEF CallsMethod

LEMMA MigratesKeeps == ASSUME IInv, Migrates PROVE IInv'
<1>1. PICK t \in Host, s \in SR \cup {None}, n \in BOOLEAN :
         /\ snap = NoSnap /\ vbd # {}
         /\ \A d \in vbd : Movable(t, same_sr(s, d), n, power = "running")
         /\ Method(<<"live?">> \o (IF s = None THEN <<>> ELSE <<"same-sr?">>) \o
                     <<"vm-migrate", "moved", "create_vdis_list">>,
                   [NoArgs EXCEPT !.target = t, !.sr = s, !.net = n,
                                  !.want = IF OneSr THEN s ELSE None], NoHandler)
  BY DEF Migrates
<1> DEFINE a == [NoArgs EXCEPT !.target = t, !.sr = s, !.net = n, !.want = IF OneSr THEN s ELSE None]
           e == IF s = None THEN Migrate4 ELSE SameSr5
<1>2. a \in Args /\ a.target = t /\ a.sr = s /\ a.net = n
  BY DEF NoArgs, Args
<1> HIDE DEF a
<1>3. Method(e, a, NoHandler)
  <2>1. CASE s = None
    BY <1>1, <2>1, CalledToMigrate, Zenon DEF a
  <2>2. CASE s # None
    BY <1>1, <2>2, CalledToMigrate, Zenon DEF a
  <2> QED
    BY <2>1, <2>2
<1>4. e \in {Migrate4, SameSr5} /\ (e = Migrate4 => s = None)
  BY Table DEF Steps, Step
<1> HIDE DEF e
<1>5. /\ CallsMethod(e, a, NoHandler) /\ sr' = sr
      /\ sr' \in [Disk -> SR \cup {None}] /\ \A d \in Disks : sr'[d] = sr[d]
  BY <1>3, MethodEnters
<1>6. Powers'
  BY <1>4, <1>5, Table DEF Powers, CallsMethod, Steps, Step
<1>7. e \in Entries /\ e \notin {SameSr4, Migrate3, Revert2, Revert7, Drop2, Disconnect4, Vdi1, Connect3}
  BY <1>4, Table DEF Entries, Steps, Step
<1>8. Moves'
  <2>1. \A d \in vbd : Movable(args.target, same_sr(args.sr, d), args.net, power = "running")'
    BY <1>1, <1>2, <1>5 DEF CallsMethod, Movable, same_sr, storage_motion, Destination, SeenBy
  <2> QED
    BY <1>1, <1>2, <1>4, <1>5, <1>7, <2>1 DEF Moves, CallsMethod
<1> QED
  BY <1>1, <1>2, <1>4, <1>5, <1>6, <1>7, <1>8, HandlersApart, Entered DEF CallsMethod

-----------------------------------------------------------------------------
(* The end of a test.                                                      *)

\* Between two methods, after the test or in the teardown.
LEMMA Closes ==
  ASSUME IInv, todo = <<>>, UNCHANGED <<power, at, sr, vbd, unplugged, snap, boot, addr, file>>,
         UNCHANGED <<host, vdis, ip, raised, struck, moves>>,
         phase' \in {"defers", "teardown", "end"}, todo' \in {<<>>, Drop2, Destroy4},
         todo' = Drop2 => phase' = "defers" /\ snap # NoSnap,
         todo' = Destroy4 => phase' = "teardown",
         phase = "end" => phase' = "end",
         power = "gone" => phase' = "end",
         snap # NoSnap /\ ~SnapTrouble => phase' = "defers" /\ todo' = Drop2,
         args' = NoArgs, handler' = NoHandler
  PROVE  IInv'
<1>1. Pool'
  BY DEF IInv, Pool, Disks, AddressAt
<1>2. Test'
  BY NoArgsAre DEF IInv, Test
<1>3. Drop2 \in Dropping /\ Drop2 # <<>> /\ Destroy4 \notin {<<>>, Drop2, Vdi1} /\ Vdi1 \notin {<<>>, Drop2}
  BY Table DEF Dropping, Steps, Step
<1>4. Where'
  BY <1>3 DEF Where, Idle
<1>5. {<<>>, Drop2, Destroy4} \cap (Taking \cup {Plug2, Connect1, Shut2, Shut1}) = {}
  BY Table DEF Taking, Steps, Step
<1>6. Handlers'
  BY <1>5, HandlersApart DEF Handlers
<1>7. Kept'
  <2>1. snap' # NoSnap /\ ~SnapTrouble' => phase' = "defers" /\ todo' = Drop2
    BY DEF SnapTrouble
  <2>2. snap # NoSnap /\ ~SnapTrouble => PoolOf[host] = PoolOf[at]
    BY DEF IInv, Kept
  <2> QED
    BY <2>1, <2>2 DEF Kept, SnapTrouble
<1>8. Held' /\ Addressed'
  BY Table DEF Held, Addressed, Taking, Steps, Step
<1>9. Right'
  <2> SUFFICES ASSUME ~raised' PROVE Right'
    BY DEF Right
  <2>1. {<<>>, Drop2, Destroy4} \cap ({Migrate2, Connect2, Plug2, Connect1, Disconnect1, List1, List6, Fragment10,
          Connect3, Disconnect4, Disconnect3, Unplug3, Disconnect2} \cup Migrating) = {}
    BY Table DEF Migrating, Steps, Step
  <2>2. PoolOf[host] = PoolOf[at] /\ Sees(host, vbd) /\ Sees(host, snap.disks) /\ vdis = vbd
    BY <2>1 DEF IInv, Right
  <2>3. Sees(host, vbd)' /\ Sees(host, snap.disks)'
    BY <2>2 DEF Sees
  <2> QED
    BY <2>1, <2>2, <2>3 DEF Right
<1>10. Smooth'
  <2> SUFFICES ASSUME Calm' PROVE ~raised' /\ Powers' /\ Snapped' /\ Moves'
    BY DEF Smooth
  <2>1. ~raised /\ ~file /\ ~snap.file
    <3>1. <<>> # Fragment11
      BY Table DEF Steps, Step
    <3> QED
      BY <3>1 DEF Calm, IInv, Smooth, Snapped
  <2>2. Powers' /\ Moves'
    <3>1. todo' \in {<<>>, Drop2, Destroy4}
      OBVIOUS
    <3>2. Powers'
      BY Table DEF Powers, Steps, Step
    <3>3. Moves'
      BY Table DEF Moves, Steps, Step
    <3> QED
      BY <3>2, <3>3
  <2>3. Snapped'
    <3>1. todo' \notin Taking \cup {Drop1, Fragment13, Fragment12, Fragment4, Fragment11, Revert7}
      BY Table DEF Taking, Steps, Step
    <3> QED
      BY <2>1, <3>1 DEF Snapped
  <2> QED
    BY <2>1, <2>2, <2>3
<1> QED
  BY <1>1, <1>2, <1>4, <1>6, <1>7, <1>8, <1>9, <1>10 DEF IInv

LEMMA TestEndsKeeps == ASSUME IInv, TestEnds PROVE IInv'
<1>1. /\ todo = <<>> /\ phase = "test" /\ phase' = "defers"
      /\ UNCHANGED <<power, at, sr, vbd, unplugged, snap, boot, addr, file, host, vdis, ip>>
      /\ UNCHANGED <<raised, struck, moves>> /\ args' = NoArgs /\ handler' = NoHandler
      /\ todo' = IF snap # NoSnap /\ snap.deferred THEN Drop2 ELSE <<>>
  BY Called, Zenon DEF TestEnds, Call, xapi, guest, object
<1>2. <<>> # Drop2 /\ Drop2 # Destroy4 /\ <<>> # Destroy4
  BY Table DEF Steps, Step
<1>3. snap # NoSnap /\ ~SnapTrouble => snap.deferred
  BY <1>1, <1>2, Apart DEF IInv, Kept
<1>4. power # "gone"
  BY <1>1 DEF IInv, Where
<1> QED
  BY <1>1, <1>2, <1>3, <1>4, Closes

LEMMA TeardownKeeps == ASSUME IInv, Teardown PROVE IInv'
<1>1. /\ todo = <<>> /\ phase = "defers" /\ phase' = "teardown" /\ todo' = Destroy4
      /\ UNCHANGED <<power, at, sr, vbd, unplugged, snap, boot, addr, file, host, vdis, ip>>
      /\ UNCHANGED <<raised, struck, moves>> /\ args' = NoArgs /\ handler' = NoHandler
  BY Called, Zenon DEF Teardown, Call, xapi, guest, object
<1>2. <<>> # Drop2 /\ Drop2 # Destroy4 /\ <<>> # Destroy4
  BY Table DEF Steps, Step
<1>3. ~(snap # NoSnap /\ ~SnapTrouble) /\ power # "gone"
  BY <1>1, <1>2 DEF IInv, Kept, Where
<1> QED
  BY <1>1, <1>2, <1>3, Closes

LEMMA OverKeeps == ASSUME IInv, Over PROVE IInv'
<1>1. /\ todo = <<>> /\ phase = "teardown" /\ phase' = "end" /\ todo' = <<>>
      /\ UNCHANGED <<power, at, sr, vbd, unplugged, snap, boot, addr, file, host, vdis, ip>>
      /\ UNCHANGED <<raised, struck, moves>> /\ args' = NoArgs /\ handler' = NoHandler
  BY DEF Over, Call, xapi, guest, object
<1>2. <<>> # Drop2 /\ <<>> # Destroy4
  BY Table DEF Steps, Step
<1>3. ~(snap # NoSnap /\ ~SnapTrouble)
  BY <1>1 DEF IInv, Kept
<1> QED
  BY <1>1, <1>2, <1>3, Closes

LEMMA Stutters == ASSUME IInv, UNCHANGED vars PROVE IInv'
<1>1. /\ UNCHANGED <<power, at, sr, vbd, unplugged, snap, boot, addr, file, host, vdis, ip, todo, args>>
      /\ UNCHANGED <<handler, phase, raised, struck, moves>>
  BY DEF vars, xapi, guest, object, call, history
<1>2. Pool' /\ Test' /\ Where' /\ Handlers'
  BY <1>1 DEF IInv, Pool, Test, Where, Handlers, Disks, AddressAt, Idle
<1>3. Kept' /\ Held' /\ Addressed'
  BY <1>1 DEF IInv, Kept, Held, Addressed, SnapTrouble
<1>4. Right'
  BY <1>1, RightStays DEF IInv
<1>5. Smooth'
  BY <1>1 DEF IInv, Smooth, Calm, Powers, Snapped, Moves, Answers, Movable, storage_motion, Destination,
              SeenBy, same_sr
<1> QED
  BY <1>2, <1>3, <1>4, <1>5 DEF IInv

-----------------------------------------------------------------------------
(* The invariant, and what follows from it.                                *)

LEMMA Starting == Init => IInv
<1> SUFFICES ASSUME Init PROVE IInv
  OBVIOUS
<1>1. 1 \in Disk /\ None \notin SR /\ MaxTrouble \in Nat
  BY VmLifeAssumption DEF Disk
<1>2. PICK s \in SR : at \in SeenFrom[s] /\ sr = [d \in Disk |-> IF d = 1 THEN s ELSE None]
  BY DEF Init
<1>3. sr \in [Disk -> SR \cup {None}] /\ Disks = {1} /\ sr[1] = s
  BY <1>1, <1>2 DEF Disks
<1>4. /\ NoSnap \in Snaps /\ NoSnap.disks = {} /\ AddressAt(NoSnap.boot, NoSnap.addr) /\ ~NoSnap.file
      /\ LinkLocal \in Address /\ None \in Address
  BY DEF NoSnap, Snaps, Address, AddressAt
<1>5. Pool
  <2>1. AddressAt(boot, addr) /\ boot \in 0..4 /\ addr \in Address
    BY <1>4 DEF Init, AddressAt
  <2> QED
    BY <1>3, <1>4, <2>1 DEF Init, Pool
<1>6. Test
  <2>1. IsFiniteSet(struck) /\ Cardinality(struck) = 0
    BY FS_EmptySet DEF Init
  <2>2. Cardinality(struck) + moves <= MaxTrouble /\ moves \in Nat
    BY <1>1, <2>1 DEF Init
  <2>3. host \in Host /\ vdis \subseteq Disk /\ ip \in Addr \cup {None} /\ raised \in BOOLEAN
    BY <1>1 DEF Init
  <2>4. args \in Args
    BY NoArgsAre DEF Init
  <2> QED
    BY <2>1, <2>2, <2>3, <2>4 DEF Test
<1>7. <<>> \notin {Vdi1, Migrate2, Connect3, Connect2, Plug2, Connect1, Disconnect4, Disconnect3, Unplug3, Disconnect2,
                   Disconnect1, Drop1, Drop2, Boot5, Fragment9, Fragment10, Shut2, Force2, Stop4, Reboot5,
                   Suspend7, Pause7, Resume5, List6, Unpause5, Gone1, Fragment13, Fragment12, Fragment4,
                   Fragment11, Revert2, Revert7, Migrate4, SameSr5, SameSr4, Migrate3, Boot2, Boot1,
                   Fragment15, Fragment14, Fragment6, Fragment5} \cup Migrating \cup Taking
  BY Table DEF Migrating, Taking, Steps, Step
<1>8. Where
  BY <1>7 DEF Init, Where, Testing
<1>9. Handlers
  BY <1>7, HandlersApart DEF Init, Handlers
<1>10. Kept /\ Held /\ Addressed
  BY <1>7 DEF Init, Kept, Held, Addressed
<1>11. Right
  <2>1. Sees(host, vbd) /\ Sees(host, snap.disks)
    BY <1>2, <1>3, <1>4 DEF Init, Sees
  <2> QED
    BY <1>7, <2>1 DEF Init, Right
<1>12. Smooth
  <2>1. Powers
    BY <1>7 DEF Init, Powers
  <2>2. Snapped
    BY <1>4, <1>7 DEF Init, Snapped
  <2>3. Moves
    BY <1>7 DEF Init, Moves
  <2> QED
    BY <2>1, <2>2, <2>3 DEF Init, Smooth
<1> QED
  BY <1>5, <1>6, <1>8, <1>9, <1>10, <1>11, <1>12 DEF IInv

LEMMA CommandsKeep == ASSUME IInv, Commands PROVE IInv'
<1>1. CASE Start \/ Shutdown \/ ForceShutdown \/ Reboot \/ Suspend \/ Resume \/ Pause \/ Unpause
  BY <1>1, StartKeeps, ShutdownKeeps, ForceShutdownKeeps, RebootKeeps, SuspendKeeps, ResumeKeeps, PauseKeeps,
     UnpauseKeeps
<1>2. CASE (\E p \in {"running", "halted", "suspended", "paused"} : WaitFor(p))
              \/ try_get_and_store_ip \/ is_management_agent_up \/ is_ssh_up \/ Gone
  BY <1>2, WaitForKeeps, try_get_and_store_ipKeeps, is_management_agent_upKeeps, is_ssh_upKeeps, GoneKeeps
<1>3. CASE VbdCreate \/ PlugNext \/ VbdPlug \/ AddToList \/ InList \/ UnplugNext \/ VbdUnplug \/ VbdDestroy \/ Remove
  BY <1>3, VbdCreateKeeps, PlugNextKeeps, VbdPlugKeeps, AddToListKeeps, InListKeeps, UnplugNextKeeps,
     VbdUnplugKeeps, VbdDestroyKeeps, RemoveKeeps
<1>4. CASE create_vdis_list \/ destroy_vdi \/ TakeSnapshot("vm-snapshot") \/ TakeSnapshot("vm-checkpoint")
              \/ Finally \/ Revert \/ SnapUninstall \/ SnapGone \/ Touch \/ FileGone
  BY <1>4, create_vdis_listKeeps, destroy_vdiKeeps, TakeSnapshotKeeps, FinallyKeeps, RevertKeeps,
     SnapUninstallKeeps, SnapGoneKeeps, TouchKeeps, FileGoneKeeps
<1>5. CASE LiveNext \/ SameSrNext \/ Migrate \/ Moved \/ DestroyBegins \/ ListDisks \/ VmDestroy
  BY <1>5, LiveNextKeeps, SameSrNextKeeps, MigrateKeeps, MovedKeeps, DestroyBeginsKeeps, ListDisksKeeps,
     VmDestroyKeeps
<1> QED
  BY <1>1, <1>2, <1>3, <1>4, <1>5, Zenon DEF Commands

LEMMA Keeps == IInv /\ [Next]_vars => IInv'
<1> SUFFICES ASSUME IInv, [Next]_vars PROVE IInv'
  OBVIOUS
<1>1. CASE Commands
  BY <1>1, CommandsKeep
<1>2. CASE Starts \/ Stops \/ StopsOrForces \/ Connects \/ Disconnects \/ DestroysDisk
  BY <1>2, StartsKeeps, StopsKeeps, StopsOrForcesKeeps, ConnectsKeeps, DisconnectsKeeps, DestroysDiskKeeps
<1>3. CASE Snapshots \/ Checkpoints \/ Reverts \/ DropsSnapshot \/ SnapshotTest \/ Migrates
  BY <1>3, SnapshotsKeeps, SnapshotTestKeeps, MigratesKeeps
<1>4. CASE TestEnds \/ Teardown \/ Over
  BY <1>4, TestEndsKeeps, TeardownKeeps, OverKeeps
<1>5. CASE Boots \/ GuestMoves
  BY <1>5, BootsKeeps, GuestMovesKeeps
<1>6. CASE Done \/ UNCHANGED vars
  BY <1>6, Stutters DEF Done
<1> QED
  BY <1>1, <1>2, <1>3, <1>4, <1>5, <1>6, Zenon DEF Next, Tests

LEMMA Invariance == Spec => []IInv
  BY Starting, Keeps, PTL DEF Spec

\* Types: the VM, the pool, the object and the method under way stay what they are,
\* and the faults within their bound.
THEOREM TypeCorrect == Spec => []TypeOK
<1>1. IInv => TypeOK
  <2> SUFFICES ASSUME IInv PROVE TypeOK
    OBVIOUS
  <2>1. handler.swallow \in BOOLEAN
    <3>1. /\ NoHandler.swallow = FALSE /\ Undoing.swallow = FALSE
          /\ Forcing.swallow = TRUE /\ Finally2.swallow = FALSE
      BY Zenon DEF NoHandler, Undoing, Forcing, Finally2
    <3>2. handler \in {NoHandler, Undoing, Forcing, Finally2}
      BY DEF IInv, Handlers
    <3> QED
      BY <3>1, <3>2, Zenon
  <2>2. args.left \subseteq Disk /\ {args.target, args.sr, args.want} \subseteq Host \cup SR \cup {None}
    BY DEF IInv, Test, Args
  <2> QED
    BY <2>1, <2>2 DEF IInv, Pool, Test, Where, Address, TypeOK
<1> QED
  BY <1>1, Invariance, PTL

\* As long as no method has raised, a VM object at rest talks to the pool that has
\* the VM, and its list is the disks of the VM, whatever methods the test has
\* called, in whatever order (vm.py:259-341, 376-386; snapshot.py:24-42).
THEOREM ObjectStaysRight == Spec => []ObjectIsRight
<1>1. IInv => ObjectIsRight
  BY AtRest DEF ObjectIsRight, Reachable
<1> QED
  BY <1>1, Invariance, PTL

\* Once the guest runs an SSH server, the wait for SSH asks at the address the
\* guest has, unless the guest moved by itself (vm.py:97-107, 195-206).
THEOREM WaitsAtTheAddress == Spec => []WaitsAtTheRightAddress
<1>1. IInv => WaitsAtTheRightAddress
  <2> SUFFICES ASSUME IInv, Doing("ssh?"), boot = 4, moves = 0 PROVE ip = addr
    BY DEF WaitsAtTheRightAddress
  <2>1. todo \in {Boot1, Fragment5, Fragment14}
    BY Position DEF IInv, Places, Doing, First
  <2> QED
    BY <2>1 DEF IInv, Addressed
<1> QED
  BY <1>1, Invariance, PTL

\* A method called when its precondition holds raises only if a command failed, a
\* wait ended too early or the guest moved by itself; and a snapshot is left at the
\* end only if a command that takes or removes one failed
\* (vm.py:570-582, snapshot.py:24-30).
THEOREM FailuresAreCaused == Spec => []FailuresHaveACause
<1>1. IInv => FailuresHaveACause
  <2> SUFFICES ASSUME IInv PROVE NoSpuriousFailure /\ NoSnapshotLeft
    BY DEF FailuresHaveACause
  <2>1. NoSpuriousFailure
    BY DEF NoSpuriousFailure, IInv, Smooth, Calm, Test
  <2>2. NoSnapshotLeft
    BY DEF NoSnapshotLeft, IInv, Kept, SnapTrouble
  <2> QED
    BY <2>1, <2>2
<1> QED
  BY <1>1, Invariance, PTL

-----------------------------------------------------------------------------
(* What only migrate and only destroy do.                                  *)

\* A statement that leads to the next one or into the handler.
Plainly(s) == Doing(s) /\ (todo' = Tail(todo) \/ todo' = handler.steps)

LEMMA NotInto ==
  ASSUME IInv, NEW s, s \notin {"live?", "same-sr?", "vm-migrate"}, Plainly(s)
  PROVE  todo' \notin Migrating
<1>1. todo # <<>> /\ First(todo) = s /\ (todo' = After(todo) \/ todo' = handler.steps)
  BY DEF Plainly, Doing, First, After
<1>2. {<<>>, Undo1, Force2, Drop2, Gone1} \cap Migrating = {} /\ Migrating \subseteq Testing
  BY Table DEF Migrating, Testing, Steps, Step
<1>3. handler.steps \notin Migrating
  BY <1>2, HandlersApart DEF IInv, Handlers
<1>4. After(todo) \notin Migrating
  <2>1. CASE todo \in Testing \cup Ending
    <3>1. todo \notin {SameSr5, SameSr4, Migrate4, Migrate3}
      BY <1>1, Table DEF Steps, Step
    <3>2. CASE todo \in Testing
      BY <1>1, <3>1, <3>2, Table DEF Testing, Powering, Attaching, Reverting, Dropping, Migrating, Before,
         Taking, Steps, Step
    <3>3. CASE todo \in Ending
      <4>1. Drops(0) \notin Migrating
        BY <1>2, DropsApart
      <4>2. CASE todo = Destroy3
        BY <4>1, <4>2, Table DEF Steps, Step
      <4>3. CASE todo # Destroy3
        BY <3>3, <4>3, Table DEF Ending, Migrating, Steps, Step
      <4> QED
        BY <4>2, <4>3
    <3> QED
      BY <2>1, <3>2, <3>3
  <2>2. CASE todo \notin Testing \cup Ending
    <3>1. todo = Drops(Cardinality(args.left)) /\ args.left \subseteq vbd
      BY <1>1, <2>2 DEF IInv, Where, Testing, Ending, Idle
    <3>2. Cardinality(args.left) \in Nat
      BY <3>1, DisksFinite DEF IInv, Pool, Disks
    <3> DEFINE n == Cardinality(args.left)
    <3> HIDE DEF n
    <3>3. n \in Nat /\ todo = Drops(n)
      BY <3>1, <3>2 DEF n
    <3>4. CASE n = 0
      BY <1>2, <3>3, <3>4, DropsAre DEF Step
    <3>5. CASE n > 0
      <4>1. n - 1 \in Nat /\ After(todo) = Drops(n - 1)
        BY <3>3, <3>5, DropsAre DEF Step
      <4> QED
        BY <1>2, <4>1, DropsApart
    <3> QED
      BY <3>3, <3>4, <3>5
  <2> QED
    BY <2>1, <2>2
<1> QED
  BY <1>1, <1>3, <1>4

LEMMA Elsewhere ==
  ASSUME IInv, Commands, ~LiveNext, ~SameSrNext, ~Migrate PROVE todo' \notin Migrating
<1> USE DEF Plainly, Command, Xe, Read, Wait, Local, Proceed, Continue, Raise
<1>1. CASE Start
  <2>1. Plainly("vm-start")
    BY <1>1 DEF Start
  <2> QED
    BY <2>1, NotInto
<1>2. CASE Shutdown \/ ForceShutdown \/ Reboot \/ Suspend \/ Resume \/ Pause \/ Unpause
  <2>1. \E s \in {"vm-shutdown", "vm-shutdown-force", "vm-reboot", "vm-suspend", "vm-resume", "vm-pause",
                  "vm-unpause"} : Plainly(s)
    BY <1>2 DEF Shutdown, ForceShutdown, Reboot, Suspend, Resume, Pause, Unpause, Power
  <2> QED
    BY <2>1, NotInto
<1>3. CASE \/ \E p \in {"running", "halted", "suspended", "paused"} : WaitFor(p)
           \/ try_get_and_store_ip \/ is_management_agent_up \/ is_ssh_up \/ Gone
  <2>1. \E s \in {"running", "halted", "suspended", "paused", "ip?", "agent?", "ssh?", "gone?"} : Plainly(s)
    BY <1>3 DEF WaitFor, try_get_and_store_ip, is_management_agent_up, is_ssh_up, Gone
  <2> QED
    BY <2>1, NotInto
<1>4. CASE VbdCreate \/ VbdPlug \/ AddToList \/ InList \/ VbdUnplug \/ VbdDestroy \/ Remove
  <2>1. \E s \in {"vbd-create", "vbd-plug", "append", "in-vdis?", "vbd-unplug", "vbd-destroy", "remove"} :
           Plainly(s)
    BY <1>4 DEF VbdCreate, VbdPlug, AddToList, InList, VbdUnplug, VbdDestroy, Remove
  <2> QED
    BY <2>1, NotInto
<1>5. CASE create_vdis_list \/ destroy_vdi
  <2>1. \E s \in {"create_vdis_list", "vdi-destroy"} : Plainly(s)
    BY <1>5 DEF create_vdis_list, destroy_vdi
  <2> QED
    BY <2>1, NotInto
<1>6. CASE TakeSnapshot("vm-snapshot") \/ TakeSnapshot("vm-checkpoint") \/ Finally
  <2>1. \E s \in {"vm-snapshot", "vm-checkpoint", "finally"} : Plainly(s)
    BY <1>6 DEF TakeSnapshot, Finally
  <2> QED
    BY <2>1, NotInto
<1>7. CASE Revert \/ SnapUninstall \/ SnapGone \/ Touch \/ FileGone
  <2>1. \E s \in {"snapshot-revert", "snapshot-uninstall", "snapshot-gone?", "touch", "no-file?"} : Plainly(s)
    BY <1>7 DEF Revert, SnapUninstall, SnapGone, Touch, FileGone
  <2> QED
    BY <2>1, NotInto
<1>8. CASE Moved \/ VmDestroy
  <2>1. \E s \in {"moved", "vm-destroy"} : Plainly(s)
    BY <1>8 DEF Moved, VmDestroy
  <2> QED
    BY <2>1, NotInto
<1>9. CASE PlugNext
  <2>1. Plainly("plug?") \/ (Doing("plug?") /\ todo' = <<"vbd-plug">> \o Tail(todo))
    <3> HIDE DEF Plainly, Proceed, Continue, Raise
    <3>1. Doing("plug?") /\ (todo' = <<"vbd-plug">> \o Tail(todo) \/ Proceed \/ Raise)
      BY <1>9 DEF PlugNext
    <3>2. Proceed \/ Raise => todo' = Tail(todo) \/ todo' = handler.steps
      BY DEF Proceed, Continue, Raise
    <3> QED
      BY <3>1, <3>2, Zenon DEF Plainly
  <2>2. CASE Doing("plug?") /\ todo' = <<"vbd-plug">> \o Tail(todo)
    <3>1. todo = Connect2 /\ After(todo) = Connect1
      BY <2>2, Position, Table DEF IInv, Places, Doing, First, Steps, Step
    <3>2. todo' = Plug2
      BY <2>2, <3>1, Zenon DEF After, Plug2
    <3> QED
      BY <3>2, Table DEF Migrating, Steps, Step
  <2> QED
    BY <2>1, <2>2, NotInto
<1>10. CASE UnplugNext \/ DestroyBegins \/ ListDisks
  <2>1. CASE UnplugNext
    <3>1. Doing("unplug?")
      BY <2>1 DEF UnplugNext
    <3>2. todo \in Testing /\ First(todo) = "unplug?" /\ todo = Disconnect3 /\ After(todo) = Disconnect2
      BY <3>1, Position, Table DEF IInv, Places, Doing, First, Testing, Attaching, Steps, Step
    <3>3. Plainly("unplug?") \/ todo' = <<"vbd-unplug">> \o Tail(todo) \/ todo' = <<>> \o Tail(todo)
      BY <2>1 DEF UnplugNext
    <3>4. Disconnect2 \in Seq(Statement)
      BY Plugging
    <3>5. <<>> \o Disconnect2 = Disconnect2
      BY <3>4, ConcatEmptySeq
    <3>6. CASE todo' \in {Unplug3, Disconnect2}
      BY <3>6, Table DEF Migrating, Steps, Step
    <3> QED
      BY <3>2, <3>3, <3>5, <3>6, NotInto, Zenon DEF After, Unplug3
  <2>2. CASE DestroyBegins \/ ListDisks
    <3>1. Doing("halted-now?") \/ Doing("vm-disk-list")
      BY <2>2 DEF DestroyBegins, ListDisks
    <3>2. todo \in {Destroy4, Destroy3} /\ todo # <<>>
      BY <3>1, Position DEF IInv, Places, Doing, First
    <3>3. todo \notin Testing \cup {Undo1}
      BY <3>2, Table DEF Testing, Powering, Attaching, Reverting, Dropping, Migrating, Before, Taking, Steps, Step
    <3>4. phase = "teardown" /\ phase' = phase
      BY <2>2, <3>2, <3>3, EndingAt DEF DestroyBegins, ListDisks
    <3>5. Where'
      BY <2>2, DestroyBeginsKeeps, ListDisksKeeps DEF IInv
    <3>6. phase' = "teardown" => todo' \in {<<>>, Destroy4, Stop4, Destroy3, Gone1}
                                  \/ (todo' = Drops(Cardinality(args'.left)) /\ args'.left \subseteq vbd')
      BY <3>5 DEF Where
    <3>7. {<<>>, Destroy4, Stop4, Destroy3, Gone1} \cap Migrating = {} /\ Migrating \subseteq Testing
      BY Table DEF Migrating, Testing, Steps, Step
    <3>8. CASE todo' = Drops(Cardinality(args'.left)) /\ args'.left \subseteq vbd'
      <4>1. args'.left \in SUBSET Disk
        BY <2>2, DestroyBeginsKeeps, ListDisksKeeps DEF IInv, Test, Args
      <4>2. Cardinality(args'.left) \in Nat
        BY <4>1, DisksFinite
      <4> QED
        BY <3>7, <3>8, <4>2, DropsApart
    <3> QED
      BY <3>4, <3>6, <3>7, <3>8
  <2> QED
    BY <1>10, <2>1, <2>2
<1> QED
  BY <1>1, <1>2, <1>3, <1>4, <1>5, <1>6, <1>7, <1>8, <1>9, <1>10, Zenon DEF Commands

LEMMA MigratesAsks ==
  ASSUME IInv, Migrates, ~SrAndNetwork PROVE Asked'
<1>1. PICK t \in Host, s \in SR \cup {None}, n \in BOOLEAN :
         /\ s # None => t \in SeenFrom[s] /\ (n => SrAndNetwork)
         /\ Method(<<"live?">> \o (IF s = None THEN <<>> ELSE <<"same-sr?">>) \o
                     <<"vm-migrate", "moved", "create_vdis_list">>,
                   [NoArgs EXCEPT !.target = t, !.sr = s, !.net = n,
                                  !.want = IF OneSr THEN s ELSE None], NoHandler)
  BY DEF Migrates
<1> DEFINE a == [NoArgs EXCEPT !.target = t, !.sr = s, !.net = n, !.want = IF OneSr THEN s ELSE None]
<1>2. a.target = t /\ a.sr = s /\ a.net = n /\ a.want = IF OneSr THEN s ELSE None
  BY DEF NoArgs
<1> HIDE DEF a
<1> SUFFICES ASSUME args'.want # None PROVE Asked'
  BY DEF Asked
<1>3. args' = a
  BY <1>1 DEF Method, Call, a
<1>4. OneSr /\ s # None /\ args'.sr = s /\ args'.want = s /\ args'.target = t /\ args'.net = n /\ ~n
  BY <1>1, <1>2, <1>3
<1>5. Method(SameSr5, a, NoHandler)
  BY <1>1, <1>4, CalledToMigrate, Zenon DEF a
<1>6. CallsMethod(SameSr5, a, NoHandler) /\ sr' = sr
  BY <1>5, MethodEnters
<1>7. SameSr5 \notin {Migrate4, Migrate3, Migrate2}
  BY Table DEF Steps, Step
<1>8. OneSr'
  BY <1>4, <1>6 DEF CallsMethod, OneSr
<1> QED
  BY <1>1, <1>4, <1>6, <1>7, <1>8 DEF Asked, CallsMethod

LEMMA LiveNextAsks == ASSUME IInv, Asked, LiveNext PROVE Asked'
<1>1. Doing("live?") /\ UNCHANGED <<xapi, object>>
  BY DEF LiveNext, Xe
<1>2. todo \in {Migrate4, SameSr5} /\ todo \in Migrating /\ (todo = SameSr5 => After(todo) = SameSr4)
  BY <1>1, Position, Table DEF IInv, Places, Doing, First, Migrating, Steps, Step
<1>3. handler = NoHandler /\ ~raised
  BY <1>2, MigratingAt
<1>4. UNCHANGED <<sr, vbd, host>>
  BY <1>1 DEF xapi, object
<1>5. CASE args' = [args EXCEPT !.live = (power = "running")] /\ Proceed
  <2> SUFFICES ASSUME args'.want # None PROVE Asked'
    BY DEF Asked
  <2>1. UNCHANGED <<args.want, args.sr, args.net, args.target>>
    BY <1>5 DEF IInv, Test, Args
  <2>2. todo = SameSr5 /\ todo' = SameSr4
    BY <1>2, <1>3, <1>5, <2>1 DEF Asked, Proceed, Continue, After
  <2>3. args.sr = args.want /\ ~args.net /\ args.target \in SeenFrom[args.want] /\ OneSr
    BY <1>3, <2>1, <2>2 DEF Asked
  <2>4. SameSr4 \notin {Migrate4, Migrate3, Migrate2} /\ OneSr'
    BY <1>4, <2>3, Table DEF OneSr, Steps, Step
  <2> QED
    BY <2>1, <2>2, <2>3, <2>4 DEF Asked
<1>6. CASE Raise
  <2>1. raised'
    BY <1>3, <1>6, HandlersApart DEF Raise
  <2> QED
    BY <2>1 DEF Asked
<1> QED
  BY <1>5, <1>6 DEF LiveNext, Xe

LEMMA SameSrNextAsks == ASSUME IInv, Asked, SameSrNext PROVE Asked'
<1>1. PICK first \in vbd :
        Xe("same-sr?", host \in SeenFrom[sr[first]],
           /\ args' = [args EXCEPT !.sr = same_sr(@, first)]
           /\ UNCHANGED <<xapi, guest, object>>, Proceed)
  BY DEF SameSrNext
<1>2. Doing("same-sr?") /\ UNCHANGED <<xapi, object>>
  BY <1>1 DEF Xe
<1>3. todo = SameSr4 /\ todo \in Migrating /\ After(todo) = Migrate3
  BY <1>2, Position, Table DEF IInv, Places, Doing, First, Migrating, Steps, Step
<1>4. handler = NoHandler /\ ~raised /\ Sees(host, vbd) /\ args.target \in Host /\ host \in Host
  BY <1>3, MigratingAt, Table DEF IInv, Test, Steps, Step
<1>5. UNCHANGED <<sr, vbd, host>>
  BY <1>2 DEF xapi, object
<1>6. CASE args' = [args EXCEPT !.sr = same_sr(@, first)] /\ Proceed
  <2> SUFFICES ASSUME args'.want # None PROVE Asked'
    BY DEF Asked
  <2>1. UNCHANGED <<args.want, args.net, args.target>> /\ args'.sr = same_sr(args.sr, first)
    BY <1>6 DEF IInv, Test, Args
  <2>2. todo' = Migrate3
    BY <1>3, <1>6 DEF Proceed, Continue, After
  <2>3. args.sr = args.want /\ ~args.net /\ args.target \in SeenFrom[args.want] /\ OneSr
    BY <1>3, <1>4, <2>1 DEF Asked
  <2>4. CASE sr[first] = args.want
    <3>1. args'.sr = None
      BY <2>1, <2>3, <2>4 DEF same_sr
    <3>2. \A d \in vbd : sr[d] = args.want
      BY <1>1, <2>3, <2>4 DEF OneSr
    <3>3. host \in SeenFrom[args.want] /\ args.want \in SR
      <4>1. sr[first] \in SR
        BY <1>1 DEF IInv, Pool, Disks
      <4> QED
        BY <1>1, <1>4, <2>4, <4>1 DEF Sees
    <3>4. PoolOf[host] = PoolOf[args.target]
      BY <2>3, <3>3, VmLifeAssumption
    <3>5. Migrate3 \notin {Migrate4, SameSr5, SameSr4, Migrate2}
      BY Table DEF Steps, Step
    <3> QED
      BY <1>5, <2>1, <2>2, <2>3, <3>1, <3>2, <3>4, <3>5 DEF Asked
  <2>5. CASE sr[first] # args.want
    <3>1. args'.sr = args'.want /\ ~args'.net
      BY <2>1, <2>3, <2>5 DEF same_sr
    <3>2. Migrate3 \notin {Migrate4, SameSr5, SameSr4, Migrate2}
      BY Table DEF Steps, Step
    <3> QED
      BY <2>2, <3>1, <3>2 DEF Asked
  <2> QED
    BY <2>4, <2>5
<1>7. CASE Raise
  <2>1. raised'
    BY <1>4, <1>7, HandlersApart DEF Raise
  <2> QED
    BY <2>1 DEF Asked
<1> QED
  BY <1>1, <1>6, <1>7 DEF Xe

LEMMA MigrateAsks == ASSUME IInv, Asked, Migrate PROVE Asked'
<1> DEFINE t == args.target
           s == args.sr
           new == Fresh(Cardinality(vbd))
           Effect == /\ at' = t /\ UNCHANGED <<power, snap, guest>>
                     /\ IF storage_motion(t, s, args.net)
                           THEN /\ vbd' = new /\ unplugged' = {}
                                /\ sr' = [d \in Disk |-> CASE d \in vbd -> None
                                                           [] d \in new -> Destination(t, s)
                                                           [] OTHER -> sr[d]]
                           ELSE UNCHANGED <<vbd, sr, unplugged>>
<1>1. Doing("vm-migrate") /\ SameArgs
  BY DEF Migrate, Command, Xe
<1>2. todo = Migrate3 /\ todo \in Migrating /\ After(todo) = Migrate2
  BY <1>1, Position, Table DEF IInv, Places, Doing, First, Migrating, Steps, Step
<1>3. handler = NoHandler /\ ~raised
  BY <1>2, MigratingAt
<1>4. CASE Effect /\ Proceed
  <2>1. todo' = Migrate2 /\ Migrate2 # <<>>
    BY <1>2, <1>4, Table DEF Proceed, Continue, After, Steps, Step
  <2>2. args' = args
    BY <1>1, <2>1 DEF SameArgs
  <2> SUFFICES ASSUME args.want # None PROVE Asked'
    BY <2>2 DEF Asked
  <2>3. /\ ~args.net
        /\ \/ args.sr = args.want
           \/ args.sr = None /\ PoolOf[host] = PoolOf[args.target] /\ \A d \in vbd : sr[d] = args.want
    BY <1>2, <1>3 DEF Asked
  <2>4. \A d \in vbd' : sr'[d] = args.want
    <3>1. CASE args.sr = args.want
      <4>1. storage_motion(t, s, args.net) /\ Destination(t, s) = args.want
        BY <3>1 DEF storage_motion, Destination
      <4>2. vbd \subseteq Disks /\ IsFiniteSet(vbd) /\ Cardinality(vbd) \in Nat
        BY DisksFinite DEF IInv, Pool, Disks
      <4>3. new \in SUBSET Disk /\ new \cap (Disks \cup vdis) = {}
        BY <4>2, FreshAre
      <4> HIDE DEF new
      <4>4. vbd' = new /\ sr' = [d \in Disk |-> CASE d \in vbd -> None
                                                  [] d \in new -> args.want
                                                  [] OTHER -> sr[d]]
        BY <1>4, <4>1
      <4> QED
        BY <4>2, <4>3, <4>4
    <3>2. CASE args.sr = None /\ PoolOf[host] = PoolOf[args.target] /\ \A d \in vbd : sr[d] = args.want
      <4>1. ~storage_motion(t, s, args.net)
        BY <2>3, <3>2 DEF storage_motion
      <4> QED
        BY <1>4, <3>2, <4>1
    <3> QED
      BY <2>3, <3>1, <3>2
  <2>5. Migrate2 \notin {Migrate4, SameSr5, SameSr4, Migrate3}
    BY Table DEF Steps, Step
  <2> QED
    BY <2>1, <2>2, <2>4, <2>5 DEF Asked
<1>5. CASE Raise
  <2>1. raised'
    BY <1>3, <1>5, HandlersApart DEF Raise
  <2> QED
    BY <2>1 DEF Asked
<1> QED
  BY <1>4, <1>5 DEF Migrate, Command, Xe

LEMMA AskedStays == ASSUME ~SrAndNetwork PROVE IInv /\ Asked /\ [Next]_vars => Asked'
<1> SUFFICES ASSUME IInv, Asked, [Next]_vars PROVE Asked'
  OBVIOUS
<1>1. CASE Commands
  <2>1. CASE LiveNext \/ SameSrNext \/ Migrate
    BY <2>1, LiveNextAsks, SameSrNextAsks, MigrateAsks
  <2>2. CASE ~LiveNext /\ ~SameSrNext /\ ~Migrate
    <3>1. todo' \notin Migrating
      BY <1>1, <2>2, Elsewhere
    <3> QED
      BY <3>1 DEF Asked, Migrating
  <2> QED
    BY <2>1, <2>2
<1>2. CASE Migrates
  BY <1>2, MigratesAsks
<1>3. CASE \/ Starts \/ Stops \/ StopsOrForces \/ Connects \/ Disconnects \/ DestroysDisk
           \/ Snapshots \/ Checkpoints \/ Reverts \/ DropsSnapshot \/ SnapshotTest
           \/ TestEnds \/ Teardown \/ Over
  <2>1. \/ \E h \in Host \cup {None} : args' = [NoArgs EXCEPT !.target = h]
        \/ \E d \in Disk \cup Fresh(1) \cup vdis :
              args' \in {[NoArgs EXCEPT !.disk = d], [NoArgs EXCEPT !.left = {d}]}
        \/ args' = NoArgs
    BY <1>3, Zenon DEF Starts, Stops, StopsOrForces, Connects, Disconnects, DestroysDisk, Snapshots,
       Checkpoints, Reverts, DropsSnapshot, SnapshotTest, TestEnds, Teardown, Over, Method, Call
  <2>2. args'.want = None
    BY <2>1 DEF NoArgs
  <2> QED
    BY <2>2 DEF Asked
<1>4. CASE Boots \/ GuestMoves \/ Done \/ UNCHANGED vars
  <2>1. UNCHANGED <<sr, vbd, host, todo, args, raised>>
    BY <1>4 DEF Boots, GuestMoves, Done, vars, xapi, object, call, history
  <2> QED
    BY <2>1 DEF Asked, OneSr
<1> QED
  BY <1>1, <1>2, <1>3, <1>4, Zenon DEF Next, Tests

\* A migrate(sr=...) that succeeds has every disk of the VM on that SR, provided
\* they were on one SR before and no network is asked for with the SR, as no test
\* of the repository does (vm.py:266-301).
THEOREM DisksGoWhereAsked == ASSUME ~SrAndNetwork PROVE Spec => []DisksWhereAsked
<1>1. Init => Asked
  BY DEF Init, Asked, NoArgs
<1>2. IInv /\ Asked => DisksWhereAsked
  <2> SUFFICES ASSUME IInv, Asked, Doing("moved"), args.want # None PROVE \A d \in vbd : sr[d] = args.want
    BY DEF DisksWhereAsked
  <2>1. todo = Migrate2 /\ todo \in Migrating
    BY Position DEF IInv, Places, Doing, First, Migrating
  <2>2. ~raised
    BY <2>1, MigratingAt
  <2> QED
    BY <2>1, <2>2 DEF Asked
<1>3. IInv /\ Asked /\ [Next]_vars => Asked'
  BY AskedStays
<1> QED
  BY <1>1, <1>2, <1>3, Invariance, PTL DEF Spec

LEMMA Lives == ASSUME IInv, Next, ~VmDestroy, power # "gone" PROVE power' # "gone"
<1> USE DEF xapi, Command, Xe, Read, Wait, Local
<1>1. CASE Start \/ Shutdown \/ ForceShutdown \/ Reboot \/ Suspend \/ Resume \/ Pause \/ Unpause
  BY <1>1 DEF Start, Shutdown, ForceShutdown, Reboot, Suspend, Resume, Pause, Unpause, Power
<1>2. CASE \/ \E p \in {"running", "halted", "suspended", "paused"} : WaitFor(p)
           \/ try_get_and_store_ip \/ is_management_agent_up \/ is_ssh_up \/ Gone
  BY <1>2 DEF WaitFor, try_get_and_store_ip, is_management_agent_up, is_ssh_up, Gone
<1>3. CASE \/ VbdCreate \/ PlugNext \/ VbdPlug \/ AddToList \/ InList \/ UnplugNext \/ VbdUnplug
           \/ VbdDestroy \/ Remove
  BY <1>3 DEF VbdCreate, PlugNext, VbdPlug, AddToList, InList, UnplugNext, VbdUnplug, VbdDestroy, Remove
<1>4. CASE create_vdis_list \/ destroy_vdi \/ SnapUninstall \/ SnapGone \/ Touch \/ FileGone \/ Finally
  BY <1>4 DEF create_vdis_list, destroy_vdi, SnapUninstall, SnapGone, Touch, FileGone, Finally
<1>5. CASE TakeSnapshot("vm-snapshot") \/ TakeSnapshot("vm-checkpoint")
  BY <1>5 DEF TakeSnapshot, Taken
<1>6. CASE Revert
  BY <1>6 DEF Revert, IInv, Pool, Snaps
<1>7. CASE LiveNext \/ SameSrNext \/ Migrate \/ Moved \/ DestroyBegins \/ ListDisks
  BY <1>7 DEF LiveNext, SameSrNext, Migrate, Moved, DestroyBegins, ListDisks
<1>8. CASE Tests
  BY <1>8 DEF Tests, Starts, Stops, StopsOrForces, Connects, Disconnects, DestroysDisk, Snapshots,
     Checkpoints, Reverts, DropsSnapshot, SnapshotTest, Migrates, TestEnds, Teardown, Over, Done, Method, vars
<1>9. CASE Boots \/ GuestMoves
  BY <1>9 DEF Boots, GuestMoves
<1> QED
  BY <1>1, <1>2, <1>3, <1>4, <1>5, <1>6, <1>7, <1>8, <1>9, Zenon DEF Next, Commands

\* VM.destroy leaves a disk of the VM behind only after a method has raised: it
\* destroys what is in VM.vdis, and that is the VM's disks (vm.py:239-250, 361-386).
THEOREM DestroyTakesThem == Spec => DestroyTakesTheDisks
<1>1. IInv /\ [Next]_vars => [power # "gone" /\ power' = "gone" => vbd = {} \/ raised']_vars
  <2> SUFFICES ASSUME IInv, Next, power # "gone", power' = "gone", ~raised' PROVE vbd = {}
    OBVIOUS
  <2>1. VmDestroy
    BY Lives
  <2>2. Doing("vm-destroy") /\ ~raised
    <3>1. Doing("vm-destroy") /\ (Proceed \/ Raise)
      BY <2>1 DEF VmDestroy, Command, Xe
    <3>2. Proceed => (raised => raised')
      BY DEF Proceed, Continue
    <3>3. Raise => (raised => raised')
      BY Zenon DEF Raise
    <3> QED
      BY <3>1, <3>2, <3>3, Zenon
  <2>3. args.left = {} /\ todo \notin Testing \cup Ending /\ phase = "teardown"
    BY <2>2, AllDestroyed
  <2>4. args.left = vbd
    BY <2>2, <2>3 DEF IInv, Right, Testing, Ending
  <2> QED
    BY <2>3, <2>4
<1> QED
  BY <1>1, Invariance, PTL DEF Spec, DestroyTakesTheDisks
=============================================================================
