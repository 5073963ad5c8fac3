------------------------- MODULE StorageTestsProofs -------------------------
(***************************************************************************)
(* Proofs about StorageTests, for any number of VDIs, tests and failures:  *)
(* its types, that a coalesce is waited for, and that the teardown is      *)
(* thorough.                                                               *)
(*                                                                         *)
(* The accounts of the second are kept disk by disk.  A disk is owed when  *)
(* nobody is left to destroy it or its VBDs are not what its test thinks:  *)
(* a failure makes one disk owed at most, and every other step none.       *)
(***************************************************************************)
EXTENDS StorageTests, TLAPS, FiniteSetTheorems, WellFoundedInduction

Testing == {"idle", "run", "plug", "named", "unconnect", "drop"}
Midway  == {"plug", "named", "unconnect", "drop"}
InTest  == pc \in Midway \union {"run"}

\* The cleanups registered when a test is at a statement.
Push(c, l, d) == << <<c, l>> >> \o d

Detach == Push("disconnect", "vdi", <<>>)
Unsnap == Push("destroy", "new", Detach)
Drop1  == Push("destroy", "src", <<>>)
Drop2  == Push("uuid in vm.vdis", "src", Drop1)
Drop3  == Push("destroy", "dest", Drop2)
Drop4  == Push("disconnect", "dest", Drop3)

Planned(t, i) ==
    IF i = 1 THEN <<>>
    ELSE IF t = "write" THEN Detach
    ELSE IF t = "coalesce" THEN IF i <= 3 THEN Detach ELSE Unsnap
    ELSE IF i = 2 THEN Drop1 ELSE IF i <= 8 THEN Drop2 ELSE IF i <= 10 THEN Drop3 ELSE Drop4

Stacks(t) ==
    IF t = "write" THEN {<<>>, Detach}
    ELSE IF t = "coalesce" THEN {<<>>, Detach, Unsnap}
    ELSE {<<>>, Drop1, Drop2, Drop3, Drop4}

\* Statements of a test.
Size(t) == IF t = "write" THEN 2 ELSE IF t = "coalesce" THEN 8 ELSE 11

\* Where the test is, and what it has registered.
Place ==
    /\ IF InTest THEN test \in {"coalesce", "write", "export"}
                 ELSE test = "none" /\ ip = 0 /\ defers = <<>>
    /\ ip \in 0..11
    /\ ip > 0 => ip <= Size(test) /\ defers = Planned(test, ip)
    /\ InTest /\ ip = 0 => defers \in Stacks(test)
    /\ pc \in {"plug", "named", "unconnect"} => ip > 0 /\ Op[1] = "connect"
    /\ pc = "drop" => (ip > 0 \/ defers # <<>>) /\ Op[1] = "disconnect"

\* What of the module is left.
Left ==
    /\ pc \in Testing => /\ tail = <<>> /\ tries = 0 /\ outcome = "none" /\ sr = "plugged"
                         /\ vm = "running" /\ 1 \in Managed
    /\ pc = "teardown" => tail \in {<<"vm", "vdi", "sr">>, <<"vdi", "vm", "sr">>, <<"vm", "sr">>,
                                    <<"vdi", "sr">>, <<"sr">>}
    /\ pc = "disks" => ~reused /\ plugged = {} /\ tail \in {<<"vm", "vdi", "sr">>, <<"vm", "sr">>}
    /\ pc \in {"attempt", "replug", "done"} => tail = <<"sr">>
    /\ pc \in {"attempt", "replug"} => tries > 0

Among(x, s)  == \E i \in 1..Len(s) : s[i] = x
Has(d, c, l) == Among(<<c, l>>, d)
Deferred(d, c) == {l \in Local : Has(d, c, l)}

\* The disks that a test at statement i, with the cleanups d, is going to need,
\* is to create, and has attached.
NeedsAt(t, i, d) ==
    (IF t # "none" THEN {"vdi"} ELSE {})
      \union (IF t = "coalesce" /\ i \in 4..6 THEN {"new"} ELSE {})
      \union (IF t = "export" /\ i \in 2..6 THEN {"src"} ELSE {})
      \union (IF t = "export" /\ (i \in 9..11 \/ (i = 0 /\ d = Drop4)) THEN {"dest"} ELSE {})

LacksAt(t, i) ==
    (IF t # "export" THEN {"src", "dest"} ELSE {})
      \union (IF t # "coalesce" \/ i \in 1..3 THEN {"new"} ELSE {})
      \union (IF t = "export" /\ i \in {1, 7, 8, 9, 10, 11} THEN {"src"} ELSE {})
      \union (IF t = "export" /\ i \in 1..8 THEN {"dest"} ELSE {})

OnVmAt(t, i, d) ==
    Deferred(d, "disconnect") \union (IF t = "export" /\ i \in {3, 4} THEN {"src"} ELSE {})

Needs     == NeedsAt(test, ip, defers)
Lacks     == LacksAt(test, ip)
OnVm      == OnVmAt(test, ip, defers)
ToDestroy == Deferred(defers, "destroy")

Locals ==
    /\ local["vdi"] = 1
    /\ \A l, m \in Local : l # m => local[l] = NoVdi \/ local[l] # local[m]
    /\ \A l \in Needs : local[l] \in Managed
    /\ \A l \in Lacks : local[l] = NoVdi
    /\ local["new"] \notin plugged
    /\ test = "coalesce" /\ ip = 7 => local["new"] \notin Managed

Vbd ==
    /\ \A v \in Vdi : v \notin Managed => unplugged[v] = 0
    /\ pc \in {"plug", "unconnect", "drop"} => unplugged[Disk] > 0
    /\ pc = "drop" => listed[Disk] > 0

-----------------------------------------------------------------------------
\* Accounts

Attached(v) == \E l \in OnVm : local[l] = v

\* The VBDs of v are what the position of the test makes of them.
Calm(v) ==
    /\ v \in plugged <=> Attached(v)
    /\ unplugged[v] = 0
    /\ listed[v] = IF Attached(v) THEN 1 ELSE 0

Tidy(v) ==
    IF pc \in Midway /\ v = Disk
    THEN /\ v \in plugged <=> pc = "named"
         /\ unplugged[v] = IF pc = "named" THEN 0 ELSE 1
         /\ listed[v] = IF pc \in {"named", "drop"} THEN 1 ELSE 0
    ELSE Calm(v)

\* Somebody is to destroy v.
VdiLeft == pc \in Testing \/ Among("vdi", tail)
Pending(v) == (v = 1 /\ VdiLeft) \/ \E l \in ToDestroy : local[l] = v

Owed == {v \in Managed : ~Tidy(v) \/ ~Pending(v)}

Accounts ==
    /\ Cardinality(Owed) <= faults
    /\ faults = 0 => \A v \in Vdi : Tidy(v)

\* The base copies there may be beside those that failures left.
Extra == IF test = "coalesce" /\ (ip \in {4, 5} \/ (ip \in {6, 7} /\ parent[1] = seen)) THEN 1 ELSE 0

Hides == Cardinality(Hidden) <= faults + Extra

Leafs == \A s \in SUBSET Hidden : s # {} => \E b \in s : \A w \in s : parent[w] # b

\* Under the module's disk, while a coalesce is tested.
Chain ==
    test = "coalesce" /\ ip > 0 => Cardinality(Bases(1)) <= before + Extra

\* The SR and the VM at the end of the module.
Ending ==
    /\ faults = 0 => /\ pc # "replug"
                     /\ reused => vm = "running"
                     /\ pc \in {"attempt", "done"} /\ ~reused => vm = "gone"
                     /\ pc = "teardown" /\ ~reused =>
                            vm = IF Among("vm", tail) THEN "running" ELSE "gone"
                     /\ pc = "done" => sr = "gone" /\ outcome = "destroyed"
    /\ pc = "replug" => sr = "unplugged"
    /\ outcome # "none" <=> pc = "done"
    /\ MaxFaults <= MaxTries /\ Managed = {} =>
        /\ pc = "attempt" => Cardinality(Hidden) + tries <= MaxTries + 1
        /\ pc = "replug" => Hidden # {} /\ Cardinality(Hidden) + tries <= MaxTries
        /\ outcome # "not empty"
    /\ outcome = "not empty" => sr = "plugged"

Bounded == faults <= MaxFaults

\* The type invariant, but for what the position in the test tells.
Store ==
    /\ kind \in [Vdi -> {"free", "managed", "hidden"}]
    /\ parent \in [Vdi -> Vdi \union {NoVdi}]
    /\ \A v \in Vdi : parent[v] # NoVdi => kind[v] # "free" /\ kind[parent[v]] = "hidden"

Counts == plugged \subseteq Managed /\ unplugged \in [Vdi -> Nat] /\ listed \in [Vdi -> Nat]

Control ==
    /\ sr \in {"plugged", "unplugged", "gone"}
    /\ vm \in {"running", "halted", "gone"} /\ reused \in BOOLEAN
    /\ local \in [Local -> Vdi \union {NoVdi}]
    /\ seen \in Vdi \union {NoVdi}
    /\ tries \in 0..5
    /\ pc \in {"idle", "run", "plug", "named", "unconnect", "drop", "teardown", "disks",
               "attempt", "replug", "done"}
    /\ before \in Nat
    /\ outcome \in {"none", "destroyed", "not empty", "error"}
    /\ tests \in Nat /\ faults \in Nat /\ vbdFault \in BOOLEAN

IInv == /\ Store /\ Counts /\ Control /\ Place /\ Left /\ Locals /\ Vbd /\ Accounts
        /\ Hides /\ Leafs /\ Chain /\ Ending /\ Bounded

-----------------------------------------------------------------------------
\* Sets of VDIs

\* A set of natural numbers that is not empty has a least element.
LEMMA LeastIn ==
  ASSUME NEW s \in SUBSET Nat, s # {} PROVE Least(s) \in s /\ \A w \in s : Least(s) <= w
<1>1. PICK v \in s : \A w \in s : ~(<<w, v>> \in OpToRel(<, Nat))
  BY WFMin, NatLessThanWellFounded, Zenon
<1>2. \A w \in s : ~(w < v)
  BY <1>1, Zenon DEF OpToRel
<1>3. \A w \in s : v <= w
  BY <1>2
<1> QED
  BY <1>3 DEF Least

LEMMA VdiFinite == IsFiniteSet(Vdi) /\ 1 \in Vdi /\ NoVdi \notin Vdi /\ Vdi \subseteq Nat
<1>1. IsFiniteSet(1..MaxVdi)
  BY BoundAssumption, FS_Interval
<1> QED
  BY <1>1, BoundAssumption DEF Vdi, NoVdi

LEMMA SetOfVdis ==
  ASSUME NEW s \in SUBSET Vdi PROVE IsFiniteSet(s) /\ Cardinality(s) \in Nat
  BY VdiFinite, FS_Subset, FS_CardinalityType

LEMMA NoMore ==
  ASSUME NEW t \in SUBSET Vdi, NEW s \in SUBSET t PROVE Cardinality(s) <= Cardinality(t)
  BY SetOfVdis, FS_Subset

LEMMA OneMore ==
  ASSUME NEW t \in SUBSET Vdi, NEW d, NEW s \in SUBSET (t \union {d})
  PROVE  Cardinality(s) <= Cardinality(t) + 1
<1>1. IsFiniteSet(t \union {d}) /\ Cardinality(t \union {d}) <= Cardinality(t) + 1
  BY SetOfVdis, FS_AddElement
<1>2. Cardinality(s) <= Cardinality(t \union {d}) /\ Cardinality(s) \in Nat
      /\ Cardinality(t \union {d}) \in Nat
  BY <1>1, FS_Subset, FS_CardinalityType
<1> QED
  BY <1>1, <1>2, SetOfVdis

LEMMA OneLess ==
  ASSUME NEW t \in SUBSET Vdi, NEW d \in t, NEW s \in SUBSET (t \ {d})
  PROVE  Cardinality(s) <= Cardinality(t) - 1
<1>1. Cardinality(t \ {d}) = Cardinality(t) - 1
  BY SetOfVdis, FS_RemoveElement
<1>2. Cardinality(s) <= Cardinality(t \ {d})
  BY NoMore
<1> QED
  BY <1>1, <1>2

LEMMA Nothing == ASSUME NEW s \in SUBSET Vdi, Cardinality(s) <= 0 PROVE s = {}
  BY SetOfVdis, FS_EmptySet

-----------------------------------------------------------------------------
\* Where a test is

LEMMA Programs ==
    /\ DOMAIN Body = {"coalesce", "write", "export"}
    /\ \A t \in DOMAIN Body : Len(Body[t]) = Size(t)
<1>1. DOMAIN Body = {"coalesce", "write", "export"}
  BY DEF Body
<1>2. Len(Body["coalesce"]) = 8 /\ Len(Body["write"]) = 2 /\ Len(Body["export"]) = 11
  BY DEF Body
<1> QED
  BY <1>1, <1>2 DEF Size

LEMMA CoalesceProgram ==
    /\ Body["coalesce"][1] = <<"connect", "vdi", "disconnect">>
    /\ Body["coalesce"][2] = <<"check", "vdi", "">>
    /\ Body["coalesce"][3] = <<"branch", "new", "destroy">>
    /\ Body["coalesce"][4] = <<"check", "vdi", "">>
    /\ Body["coalesce"][5] = <<"parent", "vdi", "">>
    /\ Body["coalesce"][6] = <<"destroy", "new", "">>
    /\ Body["coalesce"][7] = <<"wait", "new", "">>
    /\ Body["coalesce"][8] = <<"check", "vdi", "">>
  BY DEF Body

LEMMA WriteProgram ==
    /\ Body["write"][1] = <<"connect", "vdi", "disconnect">>
    /\ Body["write"][2] = <<"check", "vdi", "">>
  BY DEF Body

LEMMA ExportProgram ==
    /\ Body["export"][1] = <<"create", "src", "destroy">>
    /\ Body["export"][2] = <<"connect", "src", "uuid in vm.vdis">>
    /\ Body["export"][3] = <<"check", "src", "">>
    /\ Body["export"][4] = <<"disconnect", "src", "">>
    /\ Body["export"][5] = <<"check", "src", "">>
    /\ Body["export"][6] = <<"destroy", "src", "">>
    /\ Body["export"][7] = <<"check", "src", "">>
    /\ Body["export"][8] = <<"create", "dest", "destroy">>
    /\ Body["export"][9] = <<"check", "dest", "">>
    /\ Body["export"][10] = <<"connect", "dest", "disconnect">>
    /\ Body["export"][11] = <<"check", "dest", "">>
  BY DEF Body

\* Cleanups that are deferred run first.
Cleanups == {"disconnect", "destroy", "uuid in vm.vdis"} \X Local

LEMMA First ==
  ASSUME NEW S, NEW e \in S, NEW d \in Seq(S), NEW s, s = <<e>> \o d
  PROVE  /\ s \in Seq(S) /\ s # <<>> /\ Head(s) = e /\ Tail(s) = d
         /\ \A x : Among(x, s) <=> x = e \/ Among(x, d)
<1>1. <<e>> \in Seq(S) /\ Len(<<e>>) = 1 /\ <<e>>[1] = e
  OBVIOUS
<1>2. s \in Seq(S) /\ Len(s) = Len(d) + 1
  BY <1>1
<1>3. s[1] = e /\ \A i \in 1..Len(d) : s[i + 1] = d[i]
  BY <1>1
<1>4. s # <<>> /\ Head(s) = e
  BY <1>2, <1>3
<1>5. Tail(s) = d
  <2>1. Tail(s) \in Seq(S) /\ Len(Tail(s)) = Len(d)
    BY <1>2, <1>4
  <2>2. \A i \in 1..Len(d) : Tail(s)[i] = d[i]
    BY <1>2, <1>3, <1>4
  <2> QED BY <2>1, <2>2
<1>6. ASSUME NEW x PROVE Among(x, s) <=> x = e \/ Among(x, d)
  <2>1. \A i \in 1..Len(s) : i = 1 \/ (i - 1 \in 1..Len(d) /\ s[i] = d[i - 1])
    BY <1>2, <1>3
  <2>2. \A i \in 1..Len(d) : i + 1 \in 1..Len(s)
    BY <1>2
  <2>3. 1 \in 1..Len(s)
    BY <1>2
  <2> QED BY <1>3, <2>1, <2>2, <2>3 DEF Among
<1> QED
  BY <1>2, <1>4, <1>5, <1>6

LEMMA Pushed ==
  ASSUME NEW c \in {"disconnect", "destroy", "uuid in vm.vdis"}, NEW l \in Local, NEW d \in Seq(Cleanups)
  PROVE  /\ Push(c, l, d) \in Seq(Cleanups) /\ Push(c, l, d) # <<>>
         /\ Head(Push(c, l, d)) = <<c, l>> /\ Tail(Push(c, l, d)) = d
         /\ Deferred(Push(c, l, d), c) = {l} \union Deferred(d, c)
         /\ \A a : a # c => Deferred(Push(c, l, d), a) = Deferred(d, a)
<1> DEFINE e == <<c, l>>
<1>1. e \in Cleanups /\ Push(c, l, d) = <<e>> \o d
  BY DEF Cleanups, Push
<1>2. \A a, m : <<a, m>> = e <=> a = c /\ m = l
  OBVIOUS
<1> HIDE DEF e
<1>3. /\ Push(c, l, d) \in Seq(Cleanups) /\ Push(c, l, d) # <<>>
      /\ Head(Push(c, l, d)) = e /\ Tail(Push(c, l, d)) = d
  BY <1>1, First
<1>4. \A x : Among(x, Push(c, l, d)) <=> x = e \/ Among(x, d)
  BY <1>1, First
<1> QED
  BY <1>2, <1>3, <1>4 DEF Has, Deferred, e

LEMMA NoneDeferred == <<>> \in Seq(Cleanups) /\ \A a : Deferred(<<>>, a) = {}
  BY DEF Deferred, Has, Among

LEMMA CleanupNames ==
    /\ "disconnect" \in {"disconnect", "destroy", "uuid in vm.vdis"}
    /\ "destroy" \in {"disconnect", "destroy", "uuid in vm.vdis"}
    /\ "uuid in vm.vdis" \in {"disconnect", "destroy", "uuid in vm.vdis"}
    /\ "vdi" \in Local /\ "new" \in Local /\ "src" \in Local /\ "dest" \in Local
    /\ "disconnect" # "destroy" /\ "uuid in vm.vdis" # "destroy" /\ "disconnect" # "uuid in vm.vdis"
  BY DEF Local

LEMMA DetachIs ==
    /\ Detach \in Seq(Cleanups) /\ Detach # <<>>
    /\ Head(Detach) = <<"disconnect", "vdi">> /\ Tail(Detach) = <<>>
    /\ Deferred(Detach, "disconnect") = {"vdi"} /\ Deferred(Detach, "destroy") = {}
<1>1. /\ Detach \in Seq(Cleanups) /\ Detach # <<>>
      /\ Head(Detach) = <<"disconnect", "vdi">> /\ Tail(Detach) = <<>>
      /\ Deferred(Detach, "disconnect") = {"vdi"} \union Deferred(<<>>, "disconnect")
      /\ \A a : a # "disconnect" => Deferred(Detach, a) = Deferred(<<>>, a)
  BY Pushed, NoneDeferred, CleanupNames DEF Detach
<1> QED
  BY <1>1, NoneDeferred, CleanupNames

LEMMA UnsnapIs ==
    /\ Unsnap \in Seq(Cleanups) /\ Unsnap # <<>>
    /\ Head(Unsnap) = <<"destroy", "new">> /\ Tail(Unsnap) = Detach
    /\ Deferred(Unsnap, "disconnect") = {"vdi"} /\ Deferred(Unsnap, "destroy") = {"new"}
<1>1. /\ Unsnap \in Seq(Cleanups) /\ Unsnap # <<>>
      /\ Head(Unsnap) = <<"destroy", "new">> /\ Tail(Unsnap) = Detach
      /\ Deferred(Unsnap, "destroy") = {"new"} \union Deferred(Detach, "destroy")
      /\ \A a : a # "destroy" => Deferred(Unsnap, a) = Deferred(Detach, a)
  BY Pushed, DetachIs, CleanupNames DEF Unsnap
<1> QED
  BY <1>1, DetachIs, CleanupNames

LEMMA Drop1Is ==
    /\ Drop1 \in Seq(Cleanups) /\ Drop1 # <<>>
    /\ Head(Drop1) = <<"destroy", "src">> /\ Tail(Drop1) = <<>>
    /\ Deferred(Drop1, "disconnect") = {} /\ Deferred(Drop1, "destroy") = {"src"}
<1>1. /\ Drop1 \in Seq(Cleanups) /\ Drop1 # <<>>
      /\ Head(Drop1) = <<"destroy", "src">> /\ Tail(Drop1) = <<>>
      /\ Deferred(Drop1, "destroy") = {"src"} \union Deferred(<<>>, "destroy")
      /\ \A a : a # "destroy" => Deferred(Drop1, a) = Deferred(<<>>, a)
  BY Pushed, NoneDeferred, CleanupNames DEF Drop1
<1> QED
  BY <1>1, NoneDeferred, CleanupNames

LEMMA Drop2Is ==
    /\ Drop2 \in Seq(Cleanups) /\ Drop2 # <<>>
    /\ Head(Drop2) = <<"uuid in vm.vdis", "src">> /\ Tail(Drop2) = Drop1
    /\ Deferred(Drop2, "disconnect") = {} /\ Deferred(Drop2, "destroy") = {"src"}
<1>1. /\ Drop2 \in Seq(Cleanups) /\ Drop2 # <<>>
      /\ Head(Drop2) = <<"uuid in vm.vdis", "src">> /\ Tail(Drop2) = Drop1
      /\ Deferred(Drop2, "uuid in vm.vdis") = {"src"} \union Deferred(Drop1, "uuid in vm.vdis")
      /\ \A a : a # "uuid in vm.vdis" => Deferred(Drop2, a) = Deferred(Drop1, a)
  BY Pushed, Drop1Is, CleanupNames DEF Drop2
<1> QED
  BY <1>1, Drop1Is, CleanupNames

LEMMA Drop3Is ==
    /\ Drop3 \in Seq(Cleanups) /\ Drop3 # <<>>
    /\ Head(Drop3) = <<"destroy", "dest">> /\ Tail(Drop3) = Drop2
    /\ Deferred(Drop3, "disconnect") = {} /\ Deferred(Drop3, "destroy") = {"src", "dest"}
<1>1. /\ Drop3 \in Seq(Cleanups) /\ Drop3 # <<>>
      /\ Head(Drop3) = <<"destroy", "dest">> /\ Tail(Drop3) = Drop2
      /\ Deferred(Drop3, "destroy") = {"dest"} \union Deferred(Drop2, "destroy")
      /\ \A a : a # "destroy" => Deferred(Drop3, a) = Deferred(Drop2, a)
  BY Pushed, Drop2Is, CleanupNames DEF Drop3
<1> QED
  BY <1>1, Drop2Is, CleanupNames

LEMMA Drop4Is ==
    /\ Drop4 \in Seq(Cleanups) /\ Drop4 # <<>>
    /\ Head(Drop4) = <<"disconnect", "dest">> /\ Tail(Drop4) = Drop3
    /\ Deferred(Drop4, "disconnect") = {"dest"} /\ Deferred(Drop4, "destroy") = {"src", "dest"}
<1>1. /\ Drop4 \in Seq(Cleanups) /\ Drop4 # <<>>
      /\ Head(Drop4) = <<"disconnect", "dest">> /\ Tail(Drop4) = Drop3
      /\ Deferred(Drop4, "disconnect") = {"dest"} \union Deferred(Drop3, "disconnect")
      /\ \A a : a # "disconnect" => Deferred(Drop4, a) = Deferred(Drop3, a)
  BY Pushed, Drop3Is, CleanupNames DEF Drop4
<1> QED
  BY <1>1, Drop3Is, CleanupNames

\* The test t is at statement i, which is the operation a on the disk l.
At(t, i, a, l, c) == test = t /\ ip = i /\ Op = <<a, l, c>>

LEMMA BodyPlaces ==
  ASSUME Place, InTest, ip > 0
  PROVE  \/ At("coalesce", 1, "connect", "vdi", "disconnect")
         \/ At("coalesce", 2, "check", "vdi", "")
         \/ At("coalesce", 3, "branch", "new", "destroy")
         \/ At("coalesce", 4, "check", "vdi", "")
         \/ At("coalesce", 5, "parent", "vdi", "")
         \/ At("coalesce", 6, "destroy", "new", "")
         \/ At("coalesce", 7, "wait", "new", "")
         \/ At("coalesce", 8, "check", "vdi", "")
         \/ At("write", 1, "connect", "vdi", "disconnect")
         \/ At("write", 2, "check", "vdi", "")
         \/ At("export", 1, "create", "src", "destroy")
         \/ At("export", 2, "connect", "src", "uuid in vm.vdis")
         \/ At("export", 3, "check", "src", "")
         \/ At("export", 4, "disconnect", "src", "")
         \/ At("export", 5, "check", "src", "")
         \/ At("export", 6, "destroy", "src", "")
         \/ At("export", 7, "check", "src", "")
         \/ At("export", 8, "create", "dest", "destroy")
         \/ At("export", 9, "check", "dest", "")
         \/ At("export", 10, "connect", "dest", "disconnect")
         \/ At("export", 11, "check", "dest", "")
<1>1. ip > 0 => Op = Body[test][ip]
  BY DEF Op
<1>2. test \in {"coalesce", "write", "export"} /\ ip \in 1..11 /\ ip <= Size(test)
  BY DEF Place
<1>3. CASE test = "coalesce"
  <2>1. ip \in 1..8
    BY <1>2, <1>3 DEF Size
  <2>2. \/ ip = 1 \/ ip = 2 \/ ip = 3 \/ ip = 4 \/ ip = 5 \/ ip = 6 \/ ip = 7 \/ ip = 8
    BY <2>1
  <2>3. Op = Body["coalesce"][ip]
    BY <1>1, <1>3
  <2> QED BY <1>3, <2>2, <2>3, CoalesceProgram DEF At
<1>4. CASE test = "write"
  <2>1. ip \in 1..2
    BY <1>2, <1>4 DEF Size
  <2>2. ip = 1 \/ ip = 2
    BY <2>1
  <2>3. Op = Body["write"][ip]
    BY <1>1, <1>4
  <2> QED BY <1>4, <2>2, <2>3, WriteProgram DEF At
<1>5. CASE test = "export"
  <2>2. \/ ip = 1 \/ ip = 2 \/ ip = 3 \/ ip = 4 \/ ip = 5 \/ ip = 6 \/ ip = 7 \/ ip = 8
        \/ ip = 9 \/ ip = 10 \/ ip = 11
    BY <1>2
  <2>3. Op = Body["export"][ip]
    BY <1>1, <1>5
  <2> QED BY <1>5, <2>2, <2>3, ExportProgram DEF At
<1> QED
  BY <1>2, <1>3, <1>4, <1>5

\* The cleanup c of the disk l is next, and then those of d.
Cleaning(c, l, d) == Op = <<c, l>> /\ Tail(defers) = d

LEMMA CleanupPlaces ==
  ASSUME Place, InTest, ip = 0, defers # <<>>
  PROVE  \/ defers = Detach /\ test \in {"coalesce", "write"} /\ Cleaning("disconnect", "vdi", <<>>)
         \/ defers = Unsnap /\ test = "coalesce" /\ Cleaning("destroy", "new", Detach)
         \/ defers = Drop1 /\ test = "export" /\ Cleaning("destroy", "src", <<>>)
         \/ defers = Drop2 /\ test = "export" /\ Cleaning("uuid in vm.vdis", "src", Drop1)
         \/ defers = Drop3 /\ test = "export" /\ Cleaning("destroy", "dest", Drop2)
         \/ defers = Drop4 /\ test = "export" /\ Cleaning("disconnect", "dest", Drop3)
<1>1. Op = Head(defers)
  BY DEF Op
<1> QED
  BY <1>1, DetachIs, UnsnapIs, Drop1Is, Drop2Is, Drop3Is, Drop4Is DEF Place, Stacks, Cleaning

-----------------------------------------------------------------------------
\* Steps of a test

\* Every plan is a stack of cleanups.
LEMMA PlansAreStacks ==
  ASSUME NEW t \in {"coalesce", "write", "export"}, NEW i \in 1..11, i <= Size(t)
  PROVE  Planned(t, i) \in Stacks(t)
  BY DEF Planned, Stacks, Size

LEMMA StacksTyped ==
  ASSUME NEW t \in {"coalesce", "write", "export"}, NEW d \in Stacks(t) PROVE d \in Seq(Cleanups)
  BY NoneDeferred, DetachIs, UnsnapIs, Drop1Is, Drop2Is, Drop3Is, Drop4Is DEF Stacks

\* What a statement has changed once it is executed.
Advances ==
    /\ test' = test /\ pc' = "run"
    /\ OnVm' = (IF Op[1] = "connect" THEN OnVm \union {Op[2]}
                ELSE IF Op[1] = "disconnect" THEN OnVm \ {Op[2]} ELSE OnVm)
    /\ ToDestroy' = (IF Op[1] \in {"create", "branch"} THEN ToDestroy \union {Op[2]}
                     ELSE IF Op[1] = "destroy" /\ ip = 0 THEN ToDestroy \ {Op[2]} ELSE ToDestroy)
    /\ Needs' \subseteq (IF Op[1] \in {"create", "branch"} THEN Needs \union {Op[2]}
                         ELSE IF Op[1] = "destroy" THEN Needs \ {Op[2]} ELSE Needs)
    /\ Lacks' \subseteq (IF Op[1] \in {"create", "branch"} THEN Lacks \ {Op[2]}
                         ELSE IF Op[1] = "destroy" /\ ip > 0 THEN Lacks \union ({Op[2]} \cap {"src"})
                         ELSE Lacks)

\* What the operations are used on.
Uses ==
    /\ Op[2] \in Local
    /\ Op[1] \in {"create", "branch"} => Op[2] \in Lacks
    /\ Op[1] = "create" => ip > 0 /\ Op[2] \in {"src", "dest"}
    /\ Op[1] = "branch" => ip > 0 /\ Op[2] = "new"
    /\ Op[1] = "connect" => ip > 0 /\ Op[2] \in Needs \ OnVm /\ Op[2] # "new"
    /\ Op[1] = "disconnect" => Op[2] \in Needs \cap OnVm /\ Op[2] # "new"
    /\ Op[1] = "destroy" => Op[2] # "vdi" /\ Op[2] \notin OnVm
    /\ Op[1] = "destroy" /\ ip > 0 => Op[2] \in Needs
    /\ Op[1] \in {"branch", "parent", "wait"} => test = "coalesce" /\ ip > 0
    /\ Op[1] \in {"create", "branch"} => Op[2] \notin OnVm
    /\ Op[1] \in {"connect", "destroy"} => "src" \notin OnVm
    /\ Op[1] = "disconnect" /\ ip > 0 => Op[2] = "src"
    /\ Op[1] \in {"connect", "disconnect"} /\ ip > 0 => test # "coalesce" \/ ip = 1
    /\ Op[1] = "destroy" /\ ip > 0 /\ test = "coalesce" => Op[2] = "new"
    /\ Op[1] = "wait" => "new" \notin OnVm \union Needs

\* What a test has attached and deferred when it is at a statement.
LEMMA PlanNames ==
  ASSUME NEW t \in {"coalesce", "write", "export"}, NEW i \in 1..11, i <= Size(t)
  PROVE  /\ OnVmAt(t, i, Planned(t, i)) =
               IF t = "export" THEN IF i \in {3, 4} THEN {"src"} ELSE IF i = 11 THEN {"dest"} ELSE {}
               ELSE IF i = 1 THEN {} ELSE {"vdi"}
         /\ Deferred(Planned(t, i), "destroy") =
               IF i = 1 \/ t = "write" THEN {}
               ELSE IF t = "coalesce" THEN IF i <= 3 THEN {} ELSE {"new"}
               ELSE IF i <= 8 THEN {"src"} ELSE {"src", "dest"}
<1>1. CASE i = 1
  <2>1. Planned(t, i) = <<>>
    BY <1>1 DEF Planned
  <2> QED BY <1>1, <2>1, NoneDeferred DEF OnVmAt
<1>2. CASE i > 1 /\ t = "write"
  <2>1. Planned(t, i) = Detach
    BY <1>2 DEF Planned
  <2> QED BY <1>2, <2>1, DetachIs DEF OnVmAt
<1>3. CASE i \in {2, 3} /\ t = "coalesce"
  <2>1. Planned(t, i) = Detach
    BY <1>3 DEF Planned
  <2> QED BY <1>3, <2>1, DetachIs DEF OnVmAt
<1>4. CASE i > 3 /\ t = "coalesce"
  <2>1. Planned(t, i) = Unsnap
    BY <1>4 DEF Planned
  <2> QED BY <1>4, <2>1, UnsnapIs DEF OnVmAt
<1>5. CASE i = 2 /\ t = "export"
  <2>1. Planned(t, i) = Drop1
    BY <1>5 DEF Planned
  <2> QED BY <1>5, <2>1, Drop1Is DEF OnVmAt
<1>6. CASE i \in 3..8 /\ t = "export"
  <2>1. Planned(t, i) = Drop2
    BY <1>6 DEF Planned
  <2>2. CASE i \in {3, 4}
    <3>1. OnVmAt(t, i, Drop2) = {"src"}
      BY <1>6, <2>2, Drop2Is DEF OnVmAt
    <3>2. Deferred(Drop2, "destroy") = {"src"}
      BY Drop2Is
    <3> QED BY <1>6, <2>1, <2>2, <3>1, <3>2
  <2>3. CASE i \in 5..8
    <3>0. i \notin {3, 4}
      BY <2>3
    <3>1. OnVmAt(t, i, Drop2) = {}
      BY <3>0, Drop2Is DEF OnVmAt
    <3>2. Deferred(Drop2, "destroy") = {"src"}
      BY Drop2Is
    <3> QED BY <1>6, <2>1, <2>3, <3>1, <3>2
  <2> QED BY <1>6, <2>2, <2>3
<1>7. CASE i \in {9, 10} /\ t = "export"
  <2>1. Planned(t, i) = Drop3
    BY <1>7 DEF Planned
  <2> QED BY <1>7, <2>1, Drop3Is DEF OnVmAt
<1>8. CASE i = 11 /\ t = "export"
  <2>1. Planned(t, i) = Drop4
    BY <1>8 DEF Planned
  <2> QED BY <1>8, <2>1, Drop4Is DEF OnVmAt
<1> QED
  BY <1>1, <1>2, <1>3, <1>4, <1>5, <1>6, <1>7, <1>8

LEMMA BodyNames ==
  ASSUME Place, InTest, ip > 0
  PROVE  /\ OnVm = IF test = "export" THEN IF ip \in {3, 4} THEN {"src"} ELSE IF ip = 11 THEN {"dest"} ELSE {}
                   ELSE IF ip = 1 THEN {} ELSE {"vdi"}
         /\ ToDestroy = IF ip = 1 \/ test = "write" THEN {}
                        ELSE IF test = "coalesce" THEN IF ip <= 3 THEN {} ELSE {"new"}
                        ELSE IF ip <= 8 THEN {"src"} ELSE {"src", "dest"}
  BY PlanNames DEF Place, OnVm, ToDestroy

\* A test at statement i, which is the operation a on the disk l.
OnOp(t, i, a, l) == test = t /\ ip = i /\ Op[1] = a /\ Op[2] = l

LEMMA AtOp == ASSUME NEW t, NEW i, NEW a, NEW l, NEW c, At(t, i, a, l, c) PROVE OnOp(t, i, a, l)
  BY DEF At, OnOp

LEMMA BodyUses == ASSUME Place, InTest, ip > 0 PROVE Uses
<1> USE DEF OnOp, Uses, Needs, NeedsAt, Lacks, LacksAt, Local
<1>1. OnOp("coalesce", 1, "connect", "vdi") => Uses
  BY BodyNames
<1>2. OnOp("coalesce", 2, "check", "vdi") => Uses
  BY BodyNames
<1>3. OnOp("coalesce", 3, "branch", "new") => Uses
  BY BodyNames
<1>4. OnOp("coalesce", 4, "check", "vdi") => Uses
  BY BodyNames
<1>5. OnOp("coalesce", 5, "parent", "vdi") => Uses
  BY BodyNames
<1>6. OnOp("coalesce", 6, "destroy", "new") => Uses
  BY BodyNames
<1>7. OnOp("coalesce", 7, "wait", "new") => Uses
  BY BodyNames
<1>8. OnOp("coalesce", 8, "check", "vdi") => Uses
  BY BodyNames
<1>9. OnOp("write", 1, "connect", "vdi") => Uses
  BY BodyNames
<1>10. OnOp("write", 2, "check", "vdi") => Uses
  BY BodyNames
<1>11. OnOp("export", 1, "create", "src") => Uses
  BY BodyNames
<1>12. OnOp("export", 2, "connect", "src") => Uses
  BY BodyNames
<1>13. OnOp("export", 3, "check", "src") => Uses
  BY BodyNames
<1>14. OnOp("export", 4, "disconnect", "src") => Uses
  BY BodyNames
<1>15. OnOp("export", 5, "check", "src") => Uses
  BY BodyNames
<1>16. OnOp("export", 6, "destroy", "src") => Uses
  BY BodyNames
<1>17. OnOp("export", 7, "check", "src") => Uses
  BY BodyNames
<1>18. OnOp("export", 8, "create", "dest") => Uses
  BY BodyNames
<1>19. OnOp("export", 9, "check", "dest") => Uses
  BY BodyNames
<1>20. OnOp("export", 10, "connect", "dest") => Uses
  BY BodyNames
<1>21. OnOp("export", 11, "check", "dest") => Uses
  BY BodyNames
<1> HIDE DEF OnOp, Uses
<1> QED
  BY BodyPlaces, AtOp, <1>1, <1>2, <1>3, <1>4, <1>5, <1>6, <1>7, <1>8, <1>9, <1>10, <1>11, <1>12, <1>13, <1>14, <1>15, <1>16, <1>17, <1>18, <1>19, <1>20, <1>21, Zenon

LEMMA CleanupUses == ASSUME Place, InTest, ip = 0, defers # <<>> PROVE Uses
<1>1. OnVm = Deferred(defers, "disconnect")
  BY DEF OnVm, OnVmAt
<1>2. \A c, l, d : Cleaning(c, l, d) => Op[1] = c /\ Op[2] = l
  BY DEF Cleaning
<1> USE DEF Needs, NeedsAt, Local, Uses
<1>3. CASE defers = Detach /\ test \in {"coalesce", "write"} /\ Op[1] = "disconnect" /\ Op[2] = "vdi"
  BY <1>1, <1>3, DetachIs
<1>4. CASE defers = Unsnap /\ test = "coalesce" /\ Op[1] = "destroy" /\ Op[2] = "new"
  BY <1>1, <1>4, UnsnapIs
<1>5. CASE defers = Drop1 /\ test = "export" /\ Op[1] = "destroy" /\ Op[2] = "src"
  BY <1>1, <1>5, Drop1Is
<1>6. CASE defers = Drop2 /\ test = "export" /\ Op[1] = "uuid in vm.vdis" /\ Op[2] = "src"
  BY <1>1, <1>6, Drop2Is
<1>7. CASE defers = Drop3 /\ test = "export" /\ Op[1] = "destroy" /\ Op[2] = "dest"
  BY <1>1, <1>7, Drop3Is
<1>8. CASE defers = Drop4 /\ test = "export" /\ Op[1] = "disconnect" /\ Op[2] = "dest"
  BY <1>1, <1>8, Drop4Is
<1> HIDE DEF Uses
<1> QED
  BY <1>2, <1>3, <1>4, <1>5, <1>6, <1>7, <1>8, CleanupPlaces

-----------------------------------------------------------------------------
\* From one statement to the next

\* A test at statement i, which defers the cleanup c of the disk l.
Defers(t, i, l, c) == test = t /\ ip = i /\ Op[2] = l /\ Op[3] = c

LEMMA AtDefers == ASSUME NEW t, NEW i, NEW a, NEW l, NEW c, At(t, i, a, l, c) PROVE Defers(t, i, l, c)
  BY DEF At, Defers

NextPlan == LET d == IF Op[3] = "" THEN defers ELSE Push(Op[3], Op[2], defers)
            IN  d = Planned(test, IF ip = Size(test) THEN ip ELSE ip + 1)

\* A statement adds its cleanup to the plan.
LEMMA PlanGoesOn == ASSUME Place, InTest, ip > 0 PROVE NextPlan
<1>0. defers = Planned(test, ip)
  BY DEF Place
<1>1. Defers("coalesce", 1, "vdi", "disconnect") => NextPlan
  <2>1. Planned("coalesce", 1) = <<>> /\ Planned("coalesce", IF 1 = Size("coalesce") THEN 1 ELSE 1 + 1) = Detach
    BY DEF Planned, Size
  <2>2. Detach = Push("disconnect", "vdi", <<>>)
    BY DEF Detach
  <2> QED BY <1>0, <2>1, <2>2 DEF Defers, NextPlan
<1>2. Defers("coalesce", 2, "vdi", "") => NextPlan
  <2>1. Planned("coalesce", 2) = Detach /\ Planned("coalesce", IF 2 = Size("coalesce") THEN 2 ELSE 2 + 1) = Detach
    BY DEF Planned, Size
  <2> QED BY <1>0, <2>1 DEF Defers, NextPlan
<1>3. Defers("coalesce", 3, "new", "destroy") => NextPlan
  <2>1. Planned("coalesce", 3) = Detach /\ Planned("coalesce", IF 3 = Size("coalesce") THEN 3 ELSE 3 + 1) = Unsnap
    BY DEF Planned, Size
  <2>2. Unsnap = Push("destroy", "new", Detach)
    BY DEF Unsnap
  <2> QED BY <1>0, <2>1, <2>2 DEF Defers, NextPlan
<1>4. Defers("coalesce", 4, "vdi", "") => NextPlan
  <2>1. Planned("coalesce", 4) = Unsnap /\ Planned("coalesce", IF 4 = Size("coalesce") THEN 4 ELSE 4 + 1) = Unsnap
    BY DEF Planned, Size
  <2> QED BY <1>0, <2>1 DEF Defers, NextPlan
<1>5. Defers("coalesce", 5, "vdi", "") => NextPlan
  <2>1. Planned("coalesce", 5) = Unsnap /\ Planned("coalesce", IF 5 = Size("coalesce") THEN 5 ELSE 5 + 1) = Unsnap
    BY DEF Planned, Size
  <2> QED BY <1>0, <2>1 DEF Defers, NextPlan
<1>6. Defers("coalesce", 6, "new", "") => NextPlan
  <2>1. Planned("coalesce", 6) = Unsnap /\ Planned("coalesce", IF 6 = Size("coalesce") THEN 6 ELSE 6 + 1) = Unsnap
    BY DEF Planned, Size
  <2> QED BY <1>0, <2>1 DEF Defers, NextPlan
<1>7. Defers("coalesce", 7, "new", "") => NextPlan
  <2>1. Planned("coalesce", 7) = Unsnap /\ Planned("coalesce", IF 7 = Size("coalesce") THEN 7 ELSE 7 + 1) = Unsnap
    BY DEF Planned, Size
  <2> QED BY <1>0, <2>1 DEF Defers, NextPlan
<1>8. Defers("coalesce", 8, "vdi", "") => NextPlan
  <2>1. Planned("coalesce", 8) = Unsnap /\ Planned("coalesce", IF 8 = Size("coalesce") THEN 8 ELSE 8 + 1) = Unsnap
    BY DEF Planned, Size
  <2> QED BY <1>0, <2>1 DEF Defers, NextPlan
<1>9. Defers("write", 1, "vdi", "disconnect") => NextPlan
  <2>1. Planned("write", 1) = <<>> /\ Planned("write", IF 1 = Size("write") THEN 1 ELSE 1 + 1) = Detach
    BY DEF Planned, Size
  <2>2. Detach = Push("disconnect", "vdi", <<>>)
    BY DEF Detach
  <2> QED BY <1>0, <2>1, <2>2 DEF Defers, NextPlan
<1>10. Defers("write", 2, "vdi", "") => NextPlan
  <2>1. Planned("write", 2) = Detach /\ Planned("write", IF 2 = Size("write") THEN 2 ELSE 2 + 1) = Detach
    BY DEF Planned, Size
  <2> QED BY <1>0, <2>1 DEF Defers, NextPlan
<1>11. Defers("export", 1, "src", "destroy") => NextPlan
  <2>1. Planned("export", 1) = <<>> /\ Planned("export", IF 1 = Size("export") THEN 1 ELSE 1 + 1) = Drop1
    BY DEF Planned, Size
  <2>2. Drop1 = Push("destroy", "src", <<>>)
    BY DEF Drop1
  <2> QED BY <1>0, <2>1, <2>2 DEF Defers, NextPlan
<1>12. Defers("export", 2, "src", "uuid in vm.vdis") => NextPlan
  <2>1. Planned("export", 2) = Drop1 /\ Planned("export", IF 2 = Size("export") THEN 2 ELSE 2 + 1) = Drop2
    BY DEF Planned, Size
  <2>2. Drop2 = Push("uuid in vm.vdis", "src", Drop1)
    BY DEF Drop2
  <2> QED BY <1>0, <2>1, <2>2 DEF Defers, NextPlan
<1>13. Defers("export", 3, "src", "") => NextPlan
  <2>1. Planned("export", 3) = Drop2 /\ Planned("export", IF 3 = Size("export") THEN 3 ELSE 3 + 1) = Drop2
    BY DEF Planned, Size
  <2> QED BY <1>0, <2>1 DEF Defers, NextPlan
<1>14. Defers("export", 4, "src", "") => NextPlan
  <2>1. Planned("export", 4) = Drop2 /\ Planned("export", IF 4 = Size("export") THEN 4 ELSE 4 + 1) = Drop2
    BY DEF Planned, Size
  <2> QED BY <1>0, <2>1 DEF Defers, NextPlan
<1>15. Defers("export", 5, "src", "") => NextPlan
  <2>1. Planned("export", 5) = Drop2 /\ Planned("export", IF 5 = Size("export") THEN 5 ELSE 5 + 1) = Drop2
    BY DEF Planned, Size
  <2> QED BY <1>0, <2>1 DEF Defers, NextPlan
<1>16. Defers("export", 6, "src", "") => NextPlan
  <2>1. Planned("export", 6) = Drop2 /\ Planned("export", IF 6 = Size("export") THEN 6 ELSE 6 + 1) = Drop2
    BY DEF Planned, Size
  <2> QED BY <1>0, <2>1 DEF Defers, NextPlan
<1>17. Defers("export", 7, "src", "") => NextPlan
  <2>1. Planned("export", 7) = Drop2 /\ Planned("export", IF 7 = Size("export") THEN 7 ELSE 7 + 1) = Drop2
    BY DEF Planned, Size
  <2> QED BY <1>0, <2>1 DEF Defers, NextPlan
<1>18. Defers("export", 8, "dest", "destroy") => NextPlan
  <2>1. Planned("export", 8) = Drop2 /\ Planned("export", IF 8 = Size("export") THEN 8 ELSE 8 + 1) = Drop3
    BY DEF Planned, Size
  <2>2. Drop3 = Push("destroy", "dest", Drop2)
    BY DEF Drop3
  <2> QED BY <1>0, <2>1, <2>2 DEF Defers, NextPlan
<1>19. Defers("export", 9, "dest", "") => NextPlan
  <2>1. Planned("export", 9) = Drop3 /\ Planned("export", IF 9 = Size("export") THEN 9 ELSE 9 + 1) = Drop3
    BY DEF Planned, Size
  <2> QED BY <1>0, <2>1 DEF Defers, NextPlan
<1>20. Defers("export", 10, "dest", "disconnect") => NextPlan
  <2>1. Planned("export", 10) = Drop3 /\ Planned("export", IF 10 = Size("export") THEN 10 ELSE 10 + 1) = Drop4
    BY DEF Planned, Size
  <2>2. Drop4 = Push("disconnect", "dest", Drop3)
    BY DEF Drop4
  <2> QED BY <1>0, <2>1, <2>2 DEF Defers, NextPlan
<1>21. Defers("export", 11, "dest", "") => NextPlan
  <2>1. Planned("export", 11) = Drop4 /\ Planned("export", IF 11 = Size("export") THEN 11 ELSE 11 + 1) = Drop4
    BY DEF Planned, Size
  <2> QED BY <1>0, <2>1 DEF Defers, NextPlan
<1> QED
  BY BodyPlaces, AtDefers, <1>1, <1>2, <1>3, <1>4, <1>5, <1>6, <1>7, <1>8, <1>9, <1>10, <1>11, <1>12, <1>13, <1>14, <1>15, <1>16, <1>17, <1>18, <1>19, <1>20, <1>21, Zenon

LEMMA DoneInBody ==
  ASSUME Place, InTest, ip > 0, Done
  PROVE  /\ test' = test /\ pc' = "run" /\ ip' = (IF ip = Size(test) THEN 0 ELSE ip + 1)
         /\ defers' = Planned(test, IF ip = Size(test) THEN ip ELSE ip + 1)
<1>1. test \in DOMAIN Body /\ Len(Body[test]) = Size(test) /\ ip # 0
  BY Programs DEF Place
<1>2. defers' = IF Op[3] = "" THEN defers ELSE Push(Op[3], Op[2], defers)
  BY <1>1 DEF Done, Push
<1> QED
  BY <1>1, <1>2, PlanGoesOn DEF Done, NextPlan

LEMMA PlaceAfterBody == ASSUME Place, InTest, ip > 0, Done PROVE Place'
<1>1. test \in {"coalesce", "write", "export"} /\ ip \in 1..11 /\ ip <= Size(test)
  BY DEF Place
<1>2. Size(test) \in 1..11
  BY <1>1 DEF Size
<1>3. CASE ip = Size(test)
  <2>1. ip' = 0 /\ defers' \in Stacks(test)
    BY <1>1, <1>3, DoneInBody, PlansAreStacks
  <2> QED BY <1>1, <2>1, DoneInBody DEF Place, InTest, Midway
<1>4. CASE ip # Size(test)
  <2>1. ip' = ip + 1 /\ ip' \in 1..11 /\ ip' <= Size(test) /\ defers' = Planned(test, ip')
    BY <1>1, <1>2, <1>4, DoneInBody
  <2> QED BY <1>1, <2>1, DoneInBody DEF Place, InTest, Midway
<1> QED
  BY <1>3, <1>4

LEMMA NamesAfterBody ==
  ASSUME Place, InTest, ip > 0, Done
  PROVE  /\ ip = Size(test) => OnVm' = OnVm /\ ToDestroy' = ToDestroy
         /\ ip # Size(test) =>
              /\ OnVm' = IF test = "export"
                         THEN IF ip \in {2, 3} THEN {"src"} ELSE IF ip = 10 THEN {"dest"} ELSE {}
                         ELSE {"vdi"}
              /\ ToDestroy' = IF test = "write" THEN {}
                              ELSE IF test = "coalesce" THEN IF ip <= 2 THEN {} ELSE {"new"}
                              ELSE IF ip <= 7 THEN {"src"} ELSE {"src", "dest"}
<1>1. test \in {"coalesce", "write", "export"} /\ ip \in 1..11 /\ ip <= Size(test)
  BY DEF Place
<1>2. Size(test) \in {2, 8, 11}
  BY <1>1 DEF Size
<1>3. CASE ip = Size(test)
  <2>1. ip \notin {3, 4} /\ ip' = 0 /\ 0 \notin {3, 4} /\ test' = test /\ defers' = defers
    BY <1>2, <1>3, DoneInBody DEF Place
  <2> QED BY <1>3, <2>1 DEF OnVm, OnVmAt, ToDestroy
<1>4. CASE ip # Size(test)
  <2> DEFINE i == ip + 1
  <2>1. i \in 2..11 /\ i <= Size(test) /\ test' = test /\ ip' = i /\ defers' = Planned(test, i)
    BY <1>1, <1>2, <1>4, DoneInBody
  <2>2. OnVm' = OnVmAt(test, i, Planned(test, i)) /\ ToDestroy' = Deferred(Planned(test, i), "destroy")
    BY <2>1 DEF OnVm, ToDestroy
  <2>3. (i \in {3, 4} <=> ip \in {2, 3}) /\ (i = 11 <=> ip = 10) /\ (i <= 3 <=> ip <= 2) /\ (i <= 8 <=> ip <= 7)
        /\ i # 1
    BY <1>1
  <2> HIDE DEF i
  <2>4. OnVm' = IF test = "export" THEN IF i \in {3, 4} THEN {"src"} ELSE IF i = 11 THEN {"dest"} ELSE {}
                ELSE {"vdi"}
    BY <1>1, <2>1, <2>2, <2>3, PlanNames
  <2>5. ToDestroy' = IF test = "write" THEN {}
                     ELSE IF test = "coalesce" THEN IF i <= 3 THEN {} ELSE {"new"}
                     ELSE IF i <= 8 THEN {"src"} ELSE {"src", "dest"}
    BY <1>1, <2>1, <2>2, <2>3, PlanNames
  <2> QED BY <1>4, <2>3, <2>4, <2>5
<1> QED
  BY <1>3, <1>4

LEMMA BodyAdvances == ASSUME Place, InTest, ip > 0, Done PROVE Advances
<1> USE DEF OnOp, Advances, Needs, NeedsAt, Lacks, LacksAt, Local
<1>0. ip = Size(test) => defers' = defers
  BY DoneInBody DEF Place
<1>1. OnOp("coalesce", 1, "connect", "vdi") => Advances
  BY <1>0, BodyNames, DoneInBody, NamesAfterBody DEF Size
<1>2. OnOp("coalesce", 2, "check", "vdi") => Advances
  BY <1>0, BodyNames, DoneInBody, NamesAfterBody DEF Size
<1>3. OnOp("coalesce", 3, "branch", "new") => Advances
  BY <1>0, BodyNames, DoneInBody, NamesAfterBody DEF Size
<1>4. OnOp("coalesce", 4, "check", "vdi") => Advances
  BY <1>0, BodyNames, DoneInBody, NamesAfterBody DEF Size
<1>5. OnOp("coalesce", 5, "parent", "vdi") => Advances
  BY <1>0, BodyNames, DoneInBody, NamesAfterBody DEF Size
<1>6. OnOp("coalesce", 6, "destroy", "new") => Advances
  BY <1>0, BodyNames, DoneInBody, NamesAfterBody DEF Size
<1>7. OnOp("coalesce", 7, "wait", "new") => Advances
  BY <1>0, BodyNames, DoneInBody, NamesAfterBody DEF Size
<1>8. OnOp("coalesce", 8, "check", "vdi") => Advances
  BY <1>0, BodyNames, DoneInBody, NamesAfterBody DEF Size
<1>9. OnOp("write", 1, "connect", "vdi") => Advances
  BY <1>0, BodyNames, DoneInBody, NamesAfterBody DEF Size
<1>10. OnOp("write", 2, "check", "vdi") => Advances
  BY <1>0, BodyNames, DoneInBody, NamesAfterBody DEF Size
<1>11. OnOp("export", 1, "create", "src") => Advances
  BY <1>0, BodyNames, DoneInBody, NamesAfterBody DEF Size
<1>12. OnOp("export", 2, "connect", "src") => Advances
  BY <1>0, BodyNames, DoneInBody, NamesAfterBody DEF Size
<1>13. OnOp("export", 3, "check", "src") => Advances
  BY <1>0, BodyNames, DoneInBody, NamesAfterBody DEF Size
<1>14. OnOp("export", 4, "disconnect", "src") => Advances
  BY <1>0, BodyNames, DoneInBody, NamesAfterBody DEF Size
<1>15. OnOp("export", 5, "check", "src") => Advances
  BY <1>0, BodyNames, DoneInBody, NamesAfterBody DEF Size
<1>16. OnOp("export", 6, "destroy", "src") => Advances
  BY <1>0, BodyNames, DoneInBody, NamesAfterBody DEF Size
<1>17. OnOp("export", 7, "check", "src") => Advances
  BY <1>0, BodyNames, DoneInBody, NamesAfterBody DEF Size
<1>18. OnOp("export", 8, "create", "dest") => Advances
  BY <1>0, BodyNames, DoneInBody, NamesAfterBody DEF Size
<1>19. OnOp("export", 9, "check", "dest") => Advances
  BY <1>0, BodyNames, DoneInBody, NamesAfterBody DEF Size
<1>20. OnOp("export", 10, "connect", "dest") => Advances
  BY <1>0, BodyNames, DoneInBody, NamesAfterBody DEF Size
<1>21. OnOp("export", 11, "check", "dest") => Advances
  BY <1>0, BodyNames, DoneInBody, NamesAfterBody DEF Size
<1> HIDE DEF OnOp, Advances
<1> QED
  BY BodyPlaces, AtOp, <1>1, <1>2, <1>3, <1>4, <1>5, <1>6, <1>7, <1>8, <1>9, <1>10, <1>11, <1>12, <1>13, <1>14, <1>15, <1>16, <1>17, <1>18, <1>19, <1>20, <1>21, Zenon

\* A cleanup is done with, whether it raised or not.
LEMMA CleanupStep ==
  ASSUME Place, InTest, ip = 0, defers # <<>>, Done \/ Failed
  PROVE  Advances /\ Place'
<1>1. test' = test /\ pc' = "run" /\ ip' = 0 /\ defers' = Tail(defers)
  BY DEF Done, Failed
<1>2. OnVm = Deferred(defers, "disconnect") /\ OnVm' = Deferred(defers', "disconnect")
  BY <1>1 DEF OnVm, OnVmAt
<1>3. \A c, l, d : Cleaning(c, l, d) => Op[1] = c /\ Op[2] = l /\ Tail(defers) = d
  BY DEF Cleaning
<1>4. pc' \notin Midway /\ InTest'
  BY <1>1 DEF Midway, InTest
<1>5. Lacks' = Lacks
  BY <1>1 DEF Lacks, LacksAt
<1> DEFINE Good == /\ defers' \in Stacks(test) /\ defers' # Drop4
                   /\ OnVm' = (IF Op[1] = "disconnect" THEN OnVm \ {Op[2]} ELSE OnVm)
                   /\ ToDestroy' = (IF Op[1] = "destroy" THEN ToDestroy \ {Op[2]} ELSE ToDestroy)
                   /\ Op[1] \notin {"connect", "create", "branch"} /\ (Op[1] = "destroy" => Op[2] # "vdi")
<1>6. ASSUME defers = Detach /\ test \in {"coalesce", "write"} /\ Op[1] = "disconnect" /\ Op[2] = "vdi" /\ Tail(defers) = <<>> PROVE Good
  <2>1. defers' \in Stacks(test) /\ defers' # Drop4
    BY <1>1, <1>6, DetachIs, NoneDeferred, Drop4Is DEF Stacks
  <2>2. OnVm' = OnVm \ {"vdi"}
    BY <1>1, <1>2, <1>6, DetachIs, NoneDeferred
  <2>3. ToDestroy' = ToDestroy
    BY <1>1, <1>6, DetachIs, NoneDeferred DEF ToDestroy
  <2> QED BY <1>6, <2>1, <2>2, <2>3
<1>7. ASSUME defers = Unsnap /\ test = "coalesce" /\ Op[1] = "destroy" /\ Op[2] = "new" /\ Tail(defers) = Detach PROVE Good
  <2>1. defers' \in Stacks(test) /\ defers' # Drop4
    BY <1>1, <1>7, UnsnapIs, DetachIs, Drop4Is DEF Stacks
  <2>2. OnVm' = OnVm
    BY <1>1, <1>2, <1>7, UnsnapIs, DetachIs
  <2>3. ToDestroy' = ToDestroy \ {"new"}
    BY <1>1, <1>7, UnsnapIs, DetachIs DEF ToDestroy
  <2> QED BY <1>7, <2>1, <2>2, <2>3
<1>8. ASSUME defers = Drop1 /\ test = "export" /\ Op[1] = "destroy" /\ Op[2] = "src" /\ Tail(defers) = <<>> PROVE Good
  <2>1. defers' \in Stacks(test) /\ defers' # Drop4
    BY <1>1, <1>8, Drop1Is, NoneDeferred, Drop4Is DEF Stacks
  <2>2. OnVm' = OnVm
    BY <1>1, <1>2, <1>8, Drop1Is, NoneDeferred
  <2>3. ToDestroy' = ToDestroy \ {"src"}
    BY <1>1, <1>8, Drop1Is, NoneDeferred DEF ToDestroy
  <2> QED BY <1>8, <2>1, <2>2, <2>3
<1>9. ASSUME defers = Drop2 /\ test = "export" /\ Op[1] = "uuid in vm.vdis" /\ Op[2] = "src" /\ Tail(defers) = Drop1 PROVE Good
  <2>1. defers' \in Stacks(test) /\ defers' # Drop4
    BY <1>1, <1>9, Drop2Is, Drop1Is, Drop4Is DEF Stacks
  <2>2. OnVm' = OnVm
    BY <1>1, <1>2, <1>9, Drop2Is, Drop1Is
  <2>3. ToDestroy' = ToDestroy
    BY <1>1, <1>9, Drop2Is, Drop1Is DEF ToDestroy
  <2> QED BY <1>9, <2>1, <2>2, <2>3
<1>10. ASSUME defers = Drop3 /\ test = "export" /\ Op[1] = "destroy" /\ Op[2] = "dest" /\ Tail(defers) = Drop2 PROVE Good
  <2>1. defers' \in Stacks(test) /\ defers' # Drop4
    BY <1>1, <1>10, Drop3Is, Drop2Is, Drop4Is DEF Stacks
  <2>2. OnVm' = OnVm
    BY <1>1, <1>2, <1>10, Drop3Is, Drop2Is
  <2>3. ToDestroy' = ToDestroy \ {"dest"}
    BY <1>1, <1>10, Drop3Is, Drop2Is DEF ToDestroy
  <2> QED BY <1>10, <2>1, <2>2, <2>3
<1>11. ASSUME defers = Drop4 /\ test = "export" /\ Op[1] = "disconnect" /\ Op[2] = "dest" /\ Tail(defers) = Drop3 PROVE Good
  <2>1. defers' \in Stacks(test) /\ defers' # Drop4
    BY <1>1, <1>11, Drop4Is, Drop3Is DEF Stacks
  <2>2. OnVm' = OnVm \ {"dest"}
    BY <1>1, <1>2, <1>11, Drop4Is, Drop3Is
  <2>3. ToDestroy' = ToDestroy
    BY <1>1, <1>11, Drop4Is, Drop3Is DEF ToDestroy
  <2> QED BY <1>11, <2>1, <2>2, <2>3
<1>12. Good
  <2> HIDE DEF Good
  <2> QED BY <1>3, <1>6, <1>7, <1>8, <1>9, <1>10, <1>11, CleanupPlaces
<1>13. Needs' \subseteq (IF Op[1] = "destroy" THEN Needs \ {Op[2]} ELSE Needs)
  <2>1. Needs' = {"vdi"} /\ "vdi" \in Needs
    BY <1>1, <1>12 DEF Needs, NeedsAt, Place
  <2> QED BY <1>12, <2>1
<1>14. Advances
  BY <1>1, <1>5, <1>12, <1>13 DEF Advances
<1>15. Place'
  BY <1>1, <1>4, <1>12 DEF Place
<1> QED
  BY <1>14, <1>15

\* A test that raises in its body goes on with its cleanups.
Abandons ==
    /\ test' = test /\ pc' = "run"
    /\ OnVm' = OnVm \ {"src"} /\ ToDestroy' = ToDestroy
    /\ Needs' \subseteq Needs /\ Lacks' \subseteq Lacks

LEMMA BodyFails == ASSUME Place, InTest, ip > 0, Failed PROVE Abandons /\ Place'
<1>1. test' = test /\ pc' = "run" /\ ip' = 0 /\ defers' = defers
  BY DEF Failed, Place
<1>2. test \in {"coalesce", "write", "export"} /\ ip \in 1..11 /\ ip <= Size(test) /\ defers = Planned(test, ip)
  BY DEF Place
<1>3. Place'
  <2>1. defers' \in Stacks(test)
    BY <1>1, <1>2, PlansAreStacks
  <2> QED BY <1>1, <1>2, <2>1 DEF Place, InTest, Midway
<1>4. ToDestroy' = ToDestroy
  BY <1>1 DEF ToDestroy
<1>5. OnVm' = OnVm \ {"src"}
  <2>1. OnVm' = Deferred(defers, "disconnect")
    BY <1>1 DEF OnVm, OnVmAt
  <2>2. OnVm = Deferred(defers, "disconnect") \union (IF test = "export" /\ ip \in {3, 4} THEN {"src"} ELSE {})
    BY DEF OnVm, OnVmAt
  <2>3. "src" \notin Deferred(defers, "disconnect")
    <3>1. defers \in {<<>>, Detach, Unsnap, Drop1, Drop2, Drop3, Drop4}
      BY <1>2 DEF Planned
    <3> QED BY <3>1, NoneDeferred, DetachIs, UnsnapIs, Drop1Is, Drop2Is, Drop3Is, Drop4Is
  <2> QED BY <2>1, <2>2, <2>3
<1>6. Lacks' \subseteq Lacks
  BY <1>1 DEF Lacks, LacksAt
<1>7. Needs' \subseteq Needs
  <2>1. ASSUME test = "export", ip # 11 PROVE defers # Drop4
    <3>1. defers \in {<<>>, Drop1, Drop2, Drop3}
      BY <1>2, <2>1 DEF Planned
    <3> QED BY <3>1, NoneDeferred, Drop1Is, Drop2Is, Drop3Is, Drop4Is
  <2> QED BY <1>1, <2>1 DEF Needs, NeedsAt
<1> QED
  BY <1>1, <1>3, <1>4, <1>5, <1>6, <1>7 DEF Abandons

\* In the middle of connect_vdi or disconnect_vdi.
Stays ==
    /\ Op' = Op /\ OnVm' = OnVm /\ ToDestroy' = ToDestroy /\ Needs' = Needs /\ Lacks' = Lacks
    /\ test' = test /\ ip' = ip /\ defers' = defers

LEMMA Stay == ASSUME UNCHANGED <<test, ip, defers>> PROVE Stays
  BY DEF Stays, Op, OnVm, ToDestroy, Needs, Lacks

LEMMA AllUses == ASSUME Place, InTest, ip > 0 \/ defers # <<>> PROVE Uses
  BY BodyUses, CleanupUses DEF Place

LEMMA AllAdvance ==
  ASSUME Place, InTest, ip > 0 \/ defers # <<>>, Done PROVE Advances /\ Place'
  BY BodyAdvances, PlaceAfterBody, CleanupStep DEF Place

-----------------------------------------------------------------------------
\* The store

\* The base copies are in every set closed under parent.
LEMMA NoMoreBases ==
  ASSUME \A s \in SUBSET Vdi : Under(1, s) => Under(1, s)' PROVE Bases(1)' \subseteq Bases(1)
  BY DEF Bases

LEMMA OneMoreBase ==
  ASSUME NEW d \in Vdi, \A s \in SUBSET Vdi : Under(1, s) => Under(1, s \union {d})'
  PROVE  Bases(1)' \subseteq Bases(1) \union {d}
<1> SUFFICES ASSUME NEW b \in Bases(1)', b # d PROVE b \in Bases(1)
  OBVIOUS
<1>1. b \in Vdi /\ \A s \in SUBSET Vdi : Under(1, s)' => b \in s
  BY DEF Bases
<1>2. ASSUME NEW s \in SUBSET Vdi, Under(1, s) PROVE b \in s
  <2>1. s \union {d} \in SUBSET Vdi /\ Under(1, s \union {d})'
    BY <1>2
  <2>2. b \in s \union {d}
    BY <1>1, <2>1
  <2> QED BY <2>2
<1> QED
  BY <1>1, <1>2 DEF Bases

LEMMA OneBaseLess ==
  ASSUME Store, NEW d \in Vdi, \A s \in SUBSET Vdi : Under(1, s) => Under(1, s \ {d})'
  PROVE  Bases(1)' \subseteq Bases(1) \ {d}
<1>1. Under(1, Vdi)
  BY VdiFinite DEF Store, Under
<1>2. ASSUME NEW b \in Bases(1)' PROVE b \in Bases(1) \ {d}
  <2>1. b \in Vdi /\ \A s \in SUBSET Vdi : Under(1, s)' => b \in s
    BY <1>2 DEF Bases
  <2>2. \A s \in SUBSET Vdi : Under(1, s) => b \in s \ {d}
    BY <2>1
  <2> QED BY <1>1, <2>1, <2>2 DEF Bases
<1> QED
  BY <1>2

LEMMA ParentIsBase == ASSUME Store, parent[1] # NoVdi PROVE parent[1] \in Bases(1)
<1>1. parent[1] \in Vdi
  BY VdiFinite DEF Store
<1>2. \A s \in SUBSET Vdi : Under(1, s) => parent[1] \in s
  BY DEF Under
<1> QED
  BY <1>1, <1>2 DEF Bases

\* Only base copies have children, and nothing is the child of itself.
LEMMA Childless == ASSUME Store, NEW v \in Vdi, v \notin Hidden PROVE Children(v) = {}
  BY VdiFinite DEF Store, Children, Hidden

LEMMA NotOwnChild == ASSUME Leafs, NEW v \in Hidden PROVE parent[v] # v
<1>1. {v} \in SUBSET Hidden /\ {v} # {}
  OBVIOUS
<1> QED
  BY <1>1 DEF Leafs

\* A VDI is created.
LEMMA Filled ==
  ASSUME Store, Leafs, NEW v \in Free, kind' = [kind EXCEPT ![v] = "managed"], parent' = parent
  PROVE  /\ Store' /\ Leafs' /\ Managed' = Managed \union {v} /\ Hidden' = Hidden
         /\ Bases(1)' \subseteq Bases(1)
<1>1. v \in Vdi /\ kind[v] = "free"
  BY DEF Free
<1>2. Managed' = Managed \union {v} /\ Hidden' = Hidden
  BY <1>1 DEF Store, Managed, Hidden
<1>3. Store'
  BY <1>1, VdiFinite DEF Store
<1>4. Leafs'
  BY <1>2 DEF Leafs
<1>5. Bases(1)' \subseteq Bases(1)
  BY NoMoreBases DEF Under
<1> QED
  BY <1>2, <1>3, <1>4, <1>5

\* VDIs that have no children are removed.
LEMMA Emptied ==
  ASSUME Store, Leafs, NEW s \in SUBSET Vdi, \A b \in s : Children(b) = {},
         kind' = [v \in Vdi |-> IF v \in s THEN "free" ELSE kind[v]],
         parent' = [v \in Vdi |-> IF v \in s THEN NoVdi ELSE parent[v]]
  PROVE  /\ Store' /\ Leafs' /\ Managed' = Managed \ s /\ Hidden' = Hidden \ s
         /\ Bases(1)' \subseteq Bases(1)
<1>1. Managed' = Managed \ s /\ Hidden' = Hidden \ s
  BY DEF Store, Managed, Hidden
<1>2. \A v \in Vdi : parent[v] # NoVdi => parent[v] \in Vdi \ s
  BY VdiFinite DEF Store, Children
<1>3. Store'
  BY <1>2, VdiFinite DEF Store
<1>4. \A v \in Vdi : parent'[v] \in {parent[v], NoVdi}
  OBVIOUS
<1>5. Leafs'
  <2> SUFFICES ASSUME NEW t \in SUBSET Hidden', t # {} PROVE \E b \in t : \A w \in t : parent'[w] # b
    BY DEF Leafs
  <2>1. PICK b \in t : \A w \in t : parent[w] # b
    BY <1>1 DEF Leafs
  <2>2. b # NoVdi /\ t \subseteq Vdi
    BY <1>1, VdiFinite DEF Hidden
  <2> QED BY <1>4, <2>1, <2>2
<1>6. Bases(1)' \subseteq Bases(1)
  <2>1. \A t \in SUBSET Vdi : Under(1, t) => Under(1, t)'
    BY <1>4, VdiFinite DEF Under
  <2> QED BY <2>1, NoMoreBases
<1> QED
  BY <1>1, <1>3, <1>5, <1>6

\* A snapshot or a clone is made of the disk 1.
LEMMA Branched ==
  ASSUME Store, Leafs, 1 \in Managed, NEW base \in Free, NEW new \in Free, base # new,
         kind' = [kind EXCEPT ![base] = "hidden", ![new] = "managed"],
         parent' = [parent EXCEPT ![base] = parent[1], ![new] = base, ![1] = base]
  PROVE  /\ Store' /\ Leafs' /\ Managed' = Managed \union {new} /\ Hidden' = Hidden \union {base}
         /\ Bases(1)' \subseteq Bases(1) \union {base}
<1>1. /\ base \in Vdi /\ kind[base] = "free" /\ new \in Vdi /\ kind[new] = "free"
      /\ 1 \in Vdi /\ kind[1] = "managed" /\ 1 # base /\ 1 # new
  BY DEF Free, Managed
<1>2. Managed' = Managed \union {new} /\ Hidden' = Hidden \union {base}
  BY <1>1 DEF Store, Managed, Hidden
<1>3. \A v \in Vdi : parent'[v] = IF v \in {1, new} THEN base ELSE IF v = base THEN parent[1] ELSE parent[v]
  BY <1>1 DEF Store
<1>4. \A v \in Vdi : kind'[v] = IF v = base THEN "hidden" ELSE IF v = new THEN "managed" ELSE kind[v]
  BY <1>1 DEF Store
<1>5. \A v \in Vdi : parent[v] # base /\ parent[v] # new
  BY <1>1, VdiFinite DEF Store
<1>6. Store'
  <2>1. kind' \in [Vdi -> {"free", "managed", "hidden"}] /\ parent' \in [Vdi -> Vdi \union {NoVdi}]
    BY <1>1 DEF Store
  <2>2. ASSUME NEW v \in Vdi, parent'[v] # NoVdi PROVE kind'[v] # "free" /\ kind'[parent'[v]] = "hidden"
    <3>1. parent[v] # NoVdi => parent[v] \in Vdi /\ kind[v] # "free" /\ kind[parent[v]] = "hidden"
      BY DEF Store
    <3>2. parent[1] # NoVdi => parent[1] \in Vdi /\ kind[parent[1]] = "hidden"
      BY <1>1 DEF Store
    <3>3. base # NoVdi /\ kind'[base] = "hidden"
      BY <1>1, <1>4, VdiFinite
    <3>4. \A x \in Vdi : kind[x] # "free" => kind'[x] = kind[x]
      BY <1>1, <1>4
    <3>5. CASE v \in {1, new}
      <4>1. parent'[v] = base
        BY <1>3, <3>5
      <4>2. kind'[v] # "free"
        BY <1>1, <1>4, <3>5
      <4> QED BY <3>3, <4>1, <4>2
    <3>6. CASE v = base
      <4>1. parent'[v] = parent[1]
        BY <1>1, <1>3, <3>6
      <4>2. parent[1] \in Vdi /\ kind[parent[1]] = "hidden"
        BY <2>2, <3>2, <4>1
      <4>3. kind'[parent[1]] = "hidden"
        BY <3>4, <4>2
      <4>4. kind'[v] # "free"
        BY <3>3, <3>6
      <4> QED BY <4>1, <4>3, <4>4
    <3>7. CASE v \notin {1, new, base}
      BY <1>3, <2>2, <3>1, <3>4, <3>7
    <3> QED BY <3>5, <3>6, <3>7
  <2> QED BY <2>1, <2>2 DEF Store
<1>7. Leafs'
  <2> SUFFICES ASSUME NEW t \in SUBSET Hidden', t # {} PROVE \E b \in t : \A w \in t : parent'[w] # b
    BY DEF Leafs
  <2>1. \A w \in t : w \in Vdi /\ w # 1 /\ w # new
    BY <1>1, <1>2 DEF Hidden
  <2>2. CASE base \in t
    <3>1. \A w \in t : parent'[w] # base
      BY <1>1, <1>3, <1>5, <2>1
    <3> QED BY <2>2, <3>1
  <2>3. CASE base \notin t
    <3>1. PICK b \in t : \A w \in t : parent[w] # b
      BY <1>2, <2>3 DEF Leafs
    <3>2. \A w \in t : parent'[w] = parent[w]
      BY <1>3, <2>1, <2>3
    <3> QED BY <3>1, <3>2
  <2> QED BY <2>2, <2>3
<1>8. Bases(1)' \subseteq Bases(1) \union {base}
  <2>1. \A s \in SUBSET Vdi : Under(1, s) => Under(1, s \union {base})'
    BY <1>1, <1>3 DEF Under
  <2> QED BY <1>1, <2>1, OneMoreBase
<1> QED
  BY <1>2, <1>6, <1>7, <1>8

\* The parent of the disk 1 is another one when it has one base copy less.
Merged ==
    /\ Bases(1)' \subseteq Bases(1)
    /\ parent'[1] # parent[1] => \E d \in Bases(1) : Bases(1)' \subseteq Bases(1) \ {d}

LEMMA LeafCollected ==
  ASSUME Store, Leafs, NEW b \in Vdi, CollectLeaf(b)
  PROVE  /\ Store' /\ Leafs' /\ Managed' = Managed /\ (\E d \in Hidden : Hidden' = Hidden \ {d})
         /\ 1 \in Managed => Merged
<1>1. /\ kind' = [v \in Vdi |-> IF v \in {b} THEN "free" ELSE kind[v]]
      /\ parent' = [v \in Vdi |-> IF v \in {b} THEN NoVdi ELSE parent[v]]
      /\ \A a \in {b} : Children(a) = {}
      /\ b \in Hidden
  BY DEF CollectLeaf, Store
<1>2. /\ Store' /\ Leafs' /\ Managed' = Managed \ {b} /\ Hidden' = Hidden \ {b}
      /\ Bases(1)' \subseteq Bases(1)
  BY <1>1, Emptied
<1>3. b \notin Managed
  BY <1>1 DEF Hidden, Managed
<1>4. 1 \in Managed => parent'[1] = parent[1]
  BY <1>1, <1>3, VdiFinite
<1> QED
  BY <1>1, <1>2, <1>3, <1>4 DEF Merged

LEMMA LeafCoalesced ==
  ASSUME Store, Leafs, NEW v \in Vdi, CoalesceLeaf(v)
  PROVE  /\ Store' /\ Leafs' /\ Managed' = Managed /\ (\E d \in Hidden : Hidden' = Hidden \ {d})
         /\ 1 \in Managed => Merged
<1>0. PICK p : p = parent[v]
  OBVIOUS
<1>1. /\ v \in Managed /\ p # NoVdi /\ Children(p) = {v}
      /\ kind' = [kind EXCEPT ![p] = "free"]
      /\ parent' = [parent EXCEPT ![v] = parent[p], ![p] = NoVdi]
  BY <1>0 DEF CoalesceLeaf
<1>2. p \in Vdi /\ kind[p] = "hidden" /\ kind[v] = "managed" /\ v # p
  BY <1>0, <1>1 DEF Store, Managed
<1>3. \A w \in Vdi : parent[w] = p => w = v
  BY <1>1, <1>2, VdiFinite DEF Children, Store
<1>4. p \in Vdi /\ parent[p] # p /\ parent[p] \in Vdi \union {NoVdi}
  BY <1>2, <1>3 DEF Store
<1>5. \A w \in Vdi : parent'[w] = IF w = p THEN NoVdi ELSE IF w = v THEN parent[p] ELSE parent[w]
  BY <1>1, <1>2 DEF Store
<1>6. \A w \in Vdi : kind'[w] = IF w = p THEN "free" ELSE kind[w]
  BY <1>1, <1>2 DEF Store
<1>7. Managed' = Managed /\ Hidden' = Hidden \ {p} /\ p \in Hidden
  BY <1>2, <1>6 DEF Managed, Hidden
<1>8. Store'
  <2>1. kind' \in [Vdi -> {"free", "managed", "hidden"}] /\ parent' \in [Vdi -> Vdi \union {NoVdi}]
    BY <1>1, <1>2, <1>4 DEF Store
  <2>2. ASSUME NEW w \in Vdi, parent'[w] # NoVdi PROVE kind'[w] # "free" /\ kind'[parent'[w]] = "hidden"
    <3>1. parent[w] # NoVdi => parent[w] \in Vdi /\ kind[w] # "free" /\ kind[parent[w]] = "hidden"
      BY DEF Store
    <3>2. parent[p] # NoVdi => parent[p] \in Vdi /\ kind[parent[p]] = "hidden"
      BY <1>2 DEF Store
    <3> QED BY <1>2, <1>3, <1>4, <1>5, <1>6, <2>2, <3>1, <3>2
  <2> QED BY <2>1, <2>2 DEF Store
<1>9. Leafs'
  <2> SUFFICES ASSUME NEW t \in SUBSET Hidden', t # {} PROVE \E b \in t : \A w \in t : parent'[w] # b
    BY DEF Leafs
  <2>1. PICK b \in t : \A w \in t : parent[w] # b
    BY <1>7 DEF Leafs
  <2>2. \A w \in t : w \in Vdi /\ w # v /\ w # p
    BY <1>2, <1>7 DEF Hidden
  <2> QED BY <1>5, <2>1, <2>2
<1>10. \A s \in SUBSET Vdi : Under(1, s) => \A w \in s \union {1} : parent'[w] \in s \union {NoVdi}
  <2> SUFFICES ASSUME NEW s \in SUBSET Vdi, Under(1, s), NEW w \in s \union {1} PROVE parent'[w] \in s \union {NoVdi}
    OBVIOUS
  <2>1. w \in Vdi /\ parent[w] \in s \union {NoVdi}
    BY VdiFinite DEF Under
  <2>2. w = v => p \in s
    BY <1>0, <1>1, <2>1
  <2>3. p \in s => parent[p] \in s \union {NoVdi}
    BY DEF Under
  <2> QED BY <1>5, <2>1, <2>2, <2>3
<1>11. Bases(1)' \subseteq Bases(1)
  BY <1>10, NoMoreBases DEF Under
<1>12. v = 1 => p \in Bases(1) /\ Bases(1)' \subseteq Bases(1) \ {p}
  <2> SUFFICES ASSUME v = 1 PROVE p \in Bases(1) /\ Bases(1)' \subseteq Bases(1) \ {p}
    OBVIOUS
  <2>1. \A w \in Vdi : parent'[w] # p
    BY <1>2, <1>3, <1>4, <1>5, VdiFinite
  <2>2. ASSUME NEW s \in SUBSET Vdi, Under(1, s) PROVE Under(1, s \ {p})'
    <3>1. \A w \in s \union {1} : parent'[w] \in s \union {NoVdi} /\ w \in Vdi
      BY <1>10, <2>2, VdiFinite
    <3>2. \A w \in (s \ {p}) \union {1} : parent'[w] \in (s \ {p}) \union {NoVdi}
      BY <2>1, <3>1
    <3> QED BY <3>2 DEF Under
  <2> QED BY <1>1, <1>2, <2>2, OneBaseLess, ParentIsBase, <1>0
<1>13. 1 \in Managed /\ v # 1 => parent'[1] = parent[1]
  BY <1>2, <1>5, VdiFinite DEF Managed
<1> QED
  BY <1>7, <1>8, <1>9, <1>11, <1>12, <1>13 DEF Merged

LEMMA BaseCoalesced ==
  ASSUME Store, Leafs, NEW b \in Vdi, CoalesceBase(b)
  PROVE  /\ Store' /\ Leafs' /\ Managed' = Managed /\ (\E d \in Hidden : Hidden' = Hidden \ {d})
         /\ 1 \in Managed => Merged
<1> DEFINE p == parent[b]
<1>1. /\ b \in Hidden /\ p # NoVdi /\ Children(p) = {b}
      /\ kind' = [kind EXCEPT ![b] = "free"]
      /\ parent' = [v \in Vdi |-> IF v = b THEN NoVdi ELSE IF parent[v] = b THEN p ELSE parent[v]]
  BY DEF CoalesceBase
<1>2. p \in Vdi /\ kind[p] = "hidden" /\ kind[b] = "hidden" /\ p # b
  BY <1>1, NotOwnChild DEF Store, Hidden
<1>3. Managed' = Managed /\ Hidden' = Hidden \ {b}
  BY <1>1, <1>2 DEF Store, Managed, Hidden
<1>4. \A s \in SUBSET Vdi : Under(1, s) => \A w \in s \union {1} : parent'[w] \in s \union {NoVdi}
  <2> SUFFICES ASSUME NEW s \in SUBSET Vdi, Under(1, s), NEW w \in s \union {1} PROVE parent'[w] \in s \union {NoVdi}
    OBVIOUS
  <2>1. w \in Vdi /\ parent[w] \in s \union {NoVdi}
    BY VdiFinite DEF Under
  <2>2. b \in s => p \in s
    BY <1>1 DEF Under
  <2> HIDE DEF p
  <2>3. b # NoVdi
    BY VdiFinite
  <2> QED BY <1>1, <2>1, <2>2, <2>3
<1> HIDE DEF p
<1>5. Store'
  <2>1. kind' \in [Vdi -> {"free", "managed", "hidden"}] /\ parent' \in [Vdi -> Vdi \union {NoVdi}]
    BY <1>1, <1>2 DEF Store
  <2>2. ASSUME NEW w \in Vdi, parent'[w] # NoVdi PROVE kind'[w] # "free" /\ kind'[parent'[w]] = "hidden"
    <3>1. parent[w] # NoVdi => parent[w] \in Vdi /\ kind[w] # "free" /\ kind[parent[w]] = "hidden"
      BY DEF Store
    <3>2. kind'[p] = "hidden" /\ \A x \in Vdi \ {b} : kind'[x] = kind[x]
      BY <1>1, <1>2 DEF Store
    <3>3. b # NoVdi
      BY VdiFinite
    <3>4. parent'[w] = IF w = b THEN NoVdi ELSE IF parent[w] = b THEN p ELSE parent[w]
      BY <1>1
    <3> QED BY <1>2, <2>2, <3>1, <3>2, <3>3, <3>4
  <2> QED BY <2>1, <2>2 DEF Store
<1>6. Leafs'
  <2> SUFFICES ASSUME NEW t \in SUBSET Hidden', t # {} PROVE \E x \in t : \A w \in t : parent'[w] # x
    BY DEF Leafs
  <2>1. t \union {b} \in SUBSET Hidden /\ t \in SUBSET Hidden /\ b \notin t /\ t \subseteq Vdi
    BY <1>1, <1>3 DEF Hidden
  <2>2. PICK y \in t \union {b} : \A w \in t \union {b} : parent[w] # y
    BY <2>1 DEF Leafs
  <2>3. PICK z \in t : \A w \in t : parent[w] # z
    BY <2>1 DEF Leafs
  <2>4. parent[b] = p
    BY DEF p
  <2>5. \A w \in t : parent'[w] = IF parent[w] = b THEN p ELSE parent[w]
    BY <1>1, <2>1
  <2>6. CASE y = b
    BY <2>2, <2>3, <2>5, <2>6
  <2>7. CASE y \in t
    BY <2>2, <2>4, <2>5, <2>7
  <2> QED BY <2>6, <2>7
<1>7. Bases(1)' \subseteq Bases(1)
  BY <1>4, NoMoreBases DEF Under
<1>8. parent[1] = b => b \in Bases(1) /\ Bases(1)' \subseteq Bases(1) \ {b}
  <2> SUFFICES ASSUME parent[1] = b PROVE b \in Bases(1) /\ Bases(1)' \subseteq Bases(1) \ {b}
    OBVIOUS
  <2>1. \A w \in Vdi : parent'[w] # b
    BY <1>1, <1>2, VdiFinite
  <2>2. \A s \in SUBSET Vdi : Under(1, s) => Under(1, s \ {b})'
    BY <1>4, <2>1, VdiFinite DEF Under
  <2>3. b # NoVdi
    BY VdiFinite
  <2> QED BY <2>2, <2>3, OneBaseLess, ParentIsBase
<1>9. 1 \in Managed /\ parent[1] # b => parent'[1] = parent[1]
  BY <1>1, <1>2, VdiFinite DEF Managed
<1> QED
  BY <1>1, <1>3, <1>5, <1>6, <1>7, <1>8, <1>9 DEF Merged

-----------------------------------------------------------------------------
\* What follows from the invariants

LEMMA TypeIs == ASSUME Store, Counts, Control, Place, Left PROVE TypeOK
<1>1. test \in DOMAIN Body \union {"none"} /\ ip \in 0..11
  BY Programs DEF Place
<1>2. defers \in Seq(Cleanups)
  <2>1. CASE ~InTest
    BY <2>1, NoneDeferred DEF Place
  <2>2. CASE InTest /\ ip = 0
    BY <2>2, StacksTyped DEF Place
  <2>3. CASE InTest /\ ip > 0
    <3>1. ip \in 1..11 /\ ip <= Size(test) /\ test \in {"coalesce", "write", "export"}
          /\ defers = Planned(test, ip)
      BY <2>3 DEF Place
    <3> QED BY <3>1, PlansAreStacks, StacksTyped
  <2> QED BY <1>1, <2>1, <2>2, <2>3
<1>3. tail \in Seq({"vm", "vdi", "sr"})
  <2>1. tail \in {<<>>, <<"vm", "vdi", "sr">>, <<"vdi", "vm", "sr">>, <<"vm", "sr">>, <<"vdi", "sr">>, <<"sr">>}
    BY DEF Left, Control, Testing
  <2> DEFINE S == {"vm", "vdi", "sr"}
  <2>2. <<>> \in Seq(S) /\ <<"sr">> \in Seq(S) /\ <<"vm", "sr">> \in Seq(S) /\ <<"vdi", "sr">> \in Seq(S)
    OBVIOUS
  <2>3. <<"vm", "vdi", "sr">> \in Seq(S) /\ <<"vdi", "vm", "sr">> \in Seq(S)
    OBVIOUS
  <2> HIDE DEF S
  <2>4. tail \in Seq(S)
    BY <2>1, <2>2, <2>3
  <2> QED BY <2>4 DEF S
<1> QED
  BY <1>1, <1>2, <1>3 DEF TypeOK, Store, Counts, Control, Cleanups

\* A disk goes by one name.
LEMMA OneName ==
  ASSUME Locals, NEW l \in Local, NEW m \in Local, local[l] = local[m], local[l] # NoVdi PROVE l = m
  BY DEF Locals

LEMMA NamesAreLocal ==
  ASSUME Place
  PROVE  ToDestroy \subseteq Local /\ OnVm \subseteq Local /\ Needs \subseteq Local /\ Lacks \subseteq Local
  BY DEF ToDestroy, Deferred, OnVm, OnVmAt, Needs, NeedsAt, Lacks, LacksAt, Local

\* Nothing is left to detach, and nothing but the disk of the module to destroy.
Quiet ==
    /\ OnVm = {} /\ ToDestroy = {} /\ Needs = {} /\ Lacks = {"src", "dest", "new"} /\ Extra = 0
    /\ pc \notin Midway /\ \A v : ~Attached(v) /\ (Pending(v) <=> v = 1 /\ VdiLeft)

LEMMA OutOfTest == ASSUME Place, ~InTest PROVE Quiet
<1>1. test = "none" /\ ip = 0 /\ defers = <<>> /\ pc \notin Midway
  BY DEF Place, InTest
<1>2. Deferred(defers, "disconnect") = {} /\ Deferred(defers, "destroy") = {}
  BY <1>1, NoneDeferred
<1>3. OnVm = {} /\ ToDestroy = {}
  BY <1>1, <1>2 DEF OnVm, OnVmAt, ToDestroy
<1>4. Needs = {} /\ Lacks = {"src", "dest", "new"} /\ Extra = 0
  BY <1>1 DEF Needs, NeedsAt, Lacks, LacksAt, Extra
<1> QED
  BY <1>1, <1>3, <1>4 DEF Attached, Pending, Quiet

LEMMA SameStore ==
  ASSUME UNCHANGED store, Store, Leafs
  PROVE  /\ Store' /\ Leafs' /\ Managed' = Managed /\ Hidden' = Hidden /\ Bases(1)' = Bases(1)
         /\ parent' = parent
<1>1. kind' = kind /\ parent' = parent
  BY DEF store
<1> QED
  BY <1>1 DEF Store, Leafs, Managed, Hidden, Bases, Under

\* No failure, and no disk is owed that was not.
LEMMA Steady ==
  ASSUME Accounts, faults' = faults, faults \in Nat,
         \A v \in Vdi : Tidy(v) => Tidy(v)',
         \A v \in Managed' : v \in Managed /\ Tidy(v) /\ Pending(v) => Pending(v)',
         \A v \in Managed' : v \notin Managed => Tidy(v)' /\ Pending(v)'
  PROVE  Accounts'
<1>1. Managed' \subseteq Vdi /\ Owed \subseteq Vdi
  BY DEF Managed, Owed
<1>2. Owed' \subseteq Owed
  BY <1>1 DEF Owed
<1>3. Cardinality(Owed') <= Cardinality(Owed) /\ Cardinality(Owed) \in Nat /\ Cardinality(Owed') \in Nat
  BY <1>1, <1>2, NoMore, SetOfVdis
<1>4. Cardinality(Owed') <= faults' /\ Cardinality(Owed)' = Cardinality(Owed')
  BY <1>3 DEF Accounts
<1> QED
  BY <1>4 DEF Accounts

\* A failure, and the disk d is owed.
LEMMA OneOwed ==
  ASSUME Accounts, faults \in Nat, faults' = faults + 1, NEW d, Managed' \subseteq Managed,
         \A v \in Managed : v # d /\ Tidy(v) /\ Pending(v) => Tidy(v)' /\ Pending(v)'
  PROVE  Accounts'
<1>1. Owed' \subseteq Owed \union {d} /\ Owed \subseteq Vdi
  BY DEF Owed, Managed
<1>2. Cardinality(Owed') <= Cardinality(Owed) + 1 /\ Cardinality(Owed) \in Nat
  BY <1>1, OneMore, SetOfVdis
<1>3. Cardinality(Owed') \in Nat
  <2>1. Owed' \subseteq Vdi
    BY <1>1 DEF Owed, Managed
  <2> QED BY <2>1, SetOfVdis
<1>4. Cardinality(Owed') <= faults' /\ faults' # 0
  BY <1>2, <1>3 DEF Accounts
<1> QED
  BY <1>4 DEF Accounts

\* A disk that a step does not touch is as tidy as it was.
LEMMA Untouched ==
  ASSUME NEW v \in Vdi, pc \in Midway => v # Disk, pc' \in Midway => v # Disk',
         v \in plugged' <=> v \in plugged, unplugged'[v] = unplugged[v], listed'[v] = listed[v],
         Attached(v)' <=> Attached(v)
  PROVE  Tidy(v)' <=> Tidy(v)
  BY DEF Tidy, Calm

\* The names by which the test knows v are on the lists they were on.
SameLists(v) ==
    /\ Attached(v)' <=> Attached(v)
    /\ Pending(v) => Pending(v)'

LEMMA OtherDisks ==
  ASSUME pc \in Testing, pc' \in Testing, UNCHANGED local, NEW v, NEW s, s = {} \/ (s = {Op[2]} /\ v # Disk),
         OnVm' \union s = OnVm \union s, ToDestroy \ s \subseteq ToDestroy'
  PROVE  SameLists(v)
<1>1. \A l : local[l] = v => (l \in OnVm' <=> l \in OnVm) /\ (l \in ToDestroy => l \in ToDestroy')
  BY DEF Disk
<1>2. VdiLeft'
  BY DEF VdiLeft
<1> QED
  BY <1>1, <1>2 DEF SameLists, Attached, Pending

\* The base copies, when nothing is created and the position tells the same.
LEMMA SameExtra ==
  ASSUME Hides, Chain, Hidden' = Hidden, Bases(1)' \subseteq Bases(1), faults' = faults, Extra' = Extra,
         test' = test, before' = before, ip' > 0 => ip > 0, before \in Nat, faults \in Nat
  PROVE  Hides' /\ Chain'
<1>1. Extra \in {0, 1}
  BY DEF Extra
<1>2. Bases(1) \subseteq Vdi /\ Hidden \subseteq Vdi
  BY DEF Bases, Hidden
<1>3. /\ Cardinality(Bases(1)') <= Cardinality(Bases(1)) /\ Cardinality(Bases(1)) \in Nat
      /\ Cardinality(Bases(1)') \in Nat
  BY <1>2, NoMore, SetOfVdis
<1>4. Hides'
  BY DEF Hides
<1>5. Chain'
  BY <1>1, <1>3 DEF Chain
<1> QED
  BY <1>4, <1>5

\* When a test is over, and when there is none.
LEMMA NoExtra ==
  ASSUME Hides, Hidden' \subseteq Hidden, ip' = 0, faults \in Nat, (faults' = faults /\ Extra = 0) \/ faults' = faults + 1
  PROVE  Hides' /\ Chain'
<1>1. Extra \in {0, 1} /\ Extra' = 0
  BY DEF Extra
<1>2. Hidden \subseteq Vdi
  BY DEF Hidden
<1>3. /\ Cardinality(Hidden') <= Cardinality(Hidden) /\ Cardinality(Hidden) \in Nat
      /\ Cardinality(Hidden') \in Nat
  BY <1>2, NoMore, SetOfVdis
<1>4. Hides'
  BY <1>1, <1>3 DEF Hides
<1>5. Chain'
  BY DEF Chain
<1> QED
  BY <1>4, <1>5

\* While the tests run.
LEMMA LeftInTests ==
  ASSUME Left, pc \in Testing, pc' \in Testing, UNCHANGED <<tail, tries, outcome, sr, vm>>, 1 \in Managed'
  PROVE  Left' /\ Ending'
<1>1. Left'
  BY DEF Left, Testing
<1>2. pc' \notin {"replug", "attempt", "done", "teardown"} /\ vm' = "running" /\ outcome' = "none"
  BY DEF Left, Testing
<1>3. Ending'
  BY <1>2 DEF Ending
<1> QED
  BY <1>1, <1>3

\* How a statement counts for Extra.
Turn ==
    /\ test = "coalesce" /\ ip' = 7 => Op[1] = "destroy" /\ Op[2] = "new"
    /\ Op[1] = "branch" => ip = 3 /\ ip' = 4
    /\ Op[1] = "parent" => ip = 5 /\ ip' = 6
    /\ Op[1] = "wait" => ip = 7 /\ ip' = 8
    /\ test = "coalesce" /\ Op[1] \notin {"branch", "parent", "wait"} =>
         (ip \in {4, 5} <=> ip' \in {4, 5}) /\ (ip \in {6, 7} <=> ip' \in {6, 7})

LEMMA Turns == ASSUME Place, InTest, ip > 0, Done PROVE Turn
<1> USE DEF OnOp, Turn
<1>1. OnOp("coalesce", 1, "connect", "vdi") => Turn
  BY DoneInBody DEF Size
<1>2. OnOp("coalesce", 2, "check", "vdi") => Turn
  BY DoneInBody DEF Size
<1>3. OnOp("coalesce", 3, "branch", "new") => Turn
  BY DoneInBody DEF Size
<1>4. OnOp("coalesce", 4, "check", "vdi") => Turn
  BY DoneInBody DEF Size
<1>5. OnOp("coalesce", 5, "parent", "vdi") => Turn
  BY DoneInBody DEF Size
<1>6. OnOp("coalesce", 6, "destroy", "new") => Turn
  BY DoneInBody DEF Size
<1>7. OnOp("coalesce", 7, "wait", "new") => Turn
  BY DoneInBody DEF Size
<1>8. OnOp("coalesce", 8, "check", "vdi") => Turn
  BY DoneInBody DEF Size
<1>9. test # "coalesce" => Turn
  BY BodyUses DEF Uses
<1> HIDE DEF OnOp, Turn
<1>11. \A t, i, a, l, c : At(t, i, a, l, c) => test = t
  BY DEF At
<1>10. test = "coalesce" => \/ OnOp("coalesce", 1, "connect", "vdi") \/ OnOp("coalesce", 2, "check", "vdi")
                            \/ OnOp("coalesce", 3, "branch", "new") \/ OnOp("coalesce", 4, "check", "vdi")
                            \/ OnOp("coalesce", 5, "parent", "vdi") \/ OnOp("coalesce", 6, "destroy", "new")
                            \/ OnOp("coalesce", 7, "wait", "new") \/ OnOp("coalesce", 8, "check", "vdi")
  BY BodyPlaces, AtOp, <1>11
<1> QED
  BY <1>1, <1>2, <1>3, <1>4, <1>5, <1>6, <1>7, <1>8, <1>9, <1>10, Zenon

\* A statement that is neither a snapshot nor the wait for it.
LEMMA ExtraAfter ==
  ASSUME Place, InTest, Done, ip > 0 \/ defers # <<>>, parent'[1] = parent[1],
         Op[1] \notin {"branch", "parent"}, seen' = seen, Op[1] = "wait" => parent[1] # seen
  PROVE  Extra' = Extra /\ (ip' > 0 => ip > 0) /\ test' = test /\ before' = before
<1>1. test' = test /\ before' = before
  BY DEF Done
<1>2. CASE ip > 0
  BY <1>1, <1>2, Turns DEF Turn, Extra
<1>3. CASE ip = 0
  <2>1. ip' = 0
    BY <1>3 DEF Done
  <2> QED BY <1>1, <1>3, <2>1 DEF Extra
<1> QED
  BY <1>1, <1>2, <1>3 DEF Place

\* Locals, when the test has no other disk.
LEMMA SameLocals ==
  ASSUME Locals, UNCHANGED local, Managed' = Managed, Needs' \subseteq Needs, Lacks' \subseteq Lacks,
         local["new"] \notin plugged', test' = "coalesce" /\ ip' = 7 => local["new"] \notin Managed
  PROVE  Locals'
  BY DEF Locals

-----------------------------------------------------------------------------
\* What all statements have in common

Rest == <<sr, vm, reused, tail, tries, outcome, tests>>

\* The parts of the invariant that are about the position only.
Position == Control /\ Place /\ Left /\ Ending /\ Bounded

LEMMA Executes ==
  ASSUME NEW op, Executing(op)
  PROVE  pc = "run" /\ InTest /\ (ip > 0 \/ defers # <<>>) /\ Op[1] = op /\ pc \in Testing /\ pc \notin Midway
  BY DEF Executing, InTest, Testing, Midway

LEMMA AfterDone ==
  ASSUME IInv, InTest, ip > 0 \/ defers # <<>>, Done, UNCHANGED <<Rest, faults, vbdFault>>, 1 \in Managed',
         local' \in [Local -> Vdi \union {NoVdi}], seen' \in Vdi \union {NoVdi}
  PROVE  /\ Position' /\ Uses /\ Advances /\ pc' = "run" /\ pc' \in Testing /\ pc' \notin Midway
         /\ test' = "coalesce" /\ ip' = 7 => Op[1] = "destroy" /\ Op[2] = "new"
<1>1. Uses /\ Advances /\ Place'
  BY AllUses, AllAdvance DEF IInv
<1>2. pc' = "run" /\ before' = before /\ test' = test
  BY DEF Done
<1>3. pc \in Testing /\ pc' \in Testing /\ pc' \notin Midway
  BY <1>2 DEF InTest, Testing, Midway
<1>4. UNCHANGED <<sr, vm, reused, tail, tries, outcome, tests, faults, vbdFault>>
  BY DEF Rest
<1>5. Left' /\ Ending'
  BY <1>3, <1>4, LeftInTests DEF IInv
<1>6. Control'
  BY <1>2, <1>4 DEF IInv, Control
<1>7. Bounded'
  BY <1>4 DEF IInv, Bounded
<1>8. test' = "coalesce" /\ ip' = 7 => Op[1] = "destroy" /\ Op[2] = "new"
  <2>1. CASE ip > 0
    BY <1>2, <2>1, Turns DEF Turn, IInv
  <2>2. CASE ~(ip > 0)
    <3>1. ip = 0
      BY <2>2 DEF IInv, Place
    <3> QED BY <3>1 DEF Done
  <2> QED BY <2>1, <2>2
<1> QED
  BY <1>1, <1>2, <1>3, <1>5, <1>6, <1>7, <1>8 DEF Position

\* A statement raises, or a cleanup does.
LEMMA AfterFailed ==
  ASSUME IInv, InTest, ip > 0 \/ defers # <<>>, Failed, UNCHANGED <<Rest, local, seen>>, 1 \in Managed',
         faults' \in Nat /\ faults' <= MaxFaults, vbdFault' \in BOOLEAN
  PROVE  /\ Position' /\ Uses /\ pc' = "run" /\ pc' \in Testing /\ pc' \notin Midway /\ ip' = 0
         /\ ip > 0 => Abandons
         /\ ip = 0 => Advances
<1>1. Uses
  BY AllUses DEF IInv
<1>2. Place' /\ (ip > 0 => Abandons) /\ (ip = 0 => Advances)
  BY BodyFails, CleanupStep DEF IInv, Place
<1>3. pc' = "run" /\ before' = before /\ ip' = 0
  BY DEF Failed
<1>4. pc \in Testing /\ pc' \in Testing /\ pc' \notin Midway
  BY <1>3 DEF InTest, Testing, Midway
<1>5. UNCHANGED <<sr, vm, reused, tail, tries, outcome, tests, local, seen>>
  BY DEF Rest
<1>6. Left' /\ Ending'
  BY <1>4, <1>5, LeftInTests DEF IInv
<1>7. Control'
  BY <1>3, <1>5 DEF IInv, Control
<1>8. Bounded'
  BY DEF Bounded
<1> QED
  BY <1>1, <1>2, <1>3, <1>4, <1>6, <1>7, <1>8 DEF Position

\* On to the next command of connect_vdi or disconnect_vdi.
LEMMA AfterGoto ==
  ASSUME IInv, InTest, ip > 0 \/ defers # <<>>, NEW p \in Midway, Goto(p), UNCHANGED <<Rest, local, seen>>,
         p # "drop" => ip > 0 /\ Op[1] = "connect", p = "drop" => Op[1] = "disconnect", 1 \in Managed',
         faults' \in Nat /\ faults' <= MaxFaults, vbdFault' \in BOOLEAN
  PROVE  /\ Position' /\ Uses /\ Stays /\ pc' = p /\ pc' \in Testing /\ Disk' = Disk
         /\ pc \in Testing /\ before' = before
<1>1. Uses
  BY AllUses DEF IInv
<1>2. pc' = p /\ UNCHANGED <<test, ip, defers, before>>
  BY DEF Goto
<1>3. Stays
  BY <1>2, Stay
<1>4. UNCHANGED <<sr, vm, reused, tail, tries, outcome, tests, local, seen>>
  BY DEF Rest
<1>5. Disk' = Disk
  BY <1>3, <1>4 DEF Stays, Disk
<1>6. InTest' /\ pc \in Testing /\ pc' \in Testing
  BY <1>2 DEF InTest, Testing, Midway
<1>7. Place'
  <2>1. Op' = Op
    BY <1>3 DEF Stays
  <2>2. p \in {"plug", "named", "unconnect"} => p # "drop"
    OBVIOUS
  <2> QED BY <1>2, <1>6, <2>1, <2>2 DEF IInv, Place
<1>8. Left' /\ Ending'
  BY <1>4, <1>6, LeftInTests DEF IInv
<1>9. Control'
  BY <1>2, <1>4 DEF IInv, Control, Midway
<1>10. Bounded'
  BY DEF Bounded
<1> QED
  BY <1>1, <1>2, <1>3, <1>5, <1>6, <1>7, <1>8, <1>9, <1>10 DEF Position

LEMMA Together ==
  ASSUME Position, Store, Counts, Locals, Vbd, Accounts, Hides, Leafs, Chain PROVE IInv
  BY DEF Position, IInv

-----------------------------------------------------------------------------
\* Statements that attach and destroy nothing

LEMMA CheckKeeps == ASSUME IInv, Check PROVE IInv'
<1>1. PICK op \in {"check", "uuid in vm.vdis"} : Executing(op)
  BY DEF Check
<1>2. pc = "run" /\ InTest /\ (ip > 0 \/ defers # <<>>) /\ Op[1] = op /\ pc \in Testing /\ pc \notin Midway
  BY <1>1, Executes
<1>3. Done /\ UNCHANGED <<store, plugged, unplugged, listed, Rest, local, seen, faults, vbdFault>>
  BY DEF Check, machine, ending, failures, Rest
<1>4. /\ Store' /\ Leafs' /\ Managed' = Managed /\ Hidden' = Hidden /\ Bases(1)' = Bases(1)
      /\ parent' = parent
  BY <1>3, SameStore DEF IInv
<1>5. 1 \in Managed
  BY <1>2 DEF IInv, Left
<1>6. /\ Position' /\ Uses /\ Advances /\ pc' = "run" /\ pc' \in Testing /\ pc' \notin Midway
      /\ test' = "coalesce" /\ ip' = 7 => Op[1] = "destroy" /\ Op[2] = "new"
  BY <1>2, <1>3, <1>4, <1>5, AfterDone DEF IInv, Control
<1>7. /\ OnVm' = OnVm /\ ToDestroy' = ToDestroy /\ Needs' \subseteq Needs /\ Lacks' \subseteq Lacks
  BY <1>2, <1>6 DEF Advances
<1>8. Counts' /\ Vbd'
  BY <1>3, <1>4, <1>6 DEF IInv, Counts, Vbd
<1>9. Locals'
  <2>1. local["new"] \notin plugged'
    BY <1>3 DEF IInv, Locals
  <2>2. test' = "coalesce" /\ ip' = 7 => local["new"] \notin Managed
    BY <1>2, <1>6
  <2> QED BY <1>3, <1>4, <1>7, <2>1, <2>2, SameLocals DEF IInv
<1>10. Accounts'
  <2>1. \A v : SameLists(v)
    BY <1>2, <1>3, <1>6, <1>7, OtherDisks
  <2>2. \A v \in Vdi : Tidy(v)' <=> Tidy(v)
    BY <1>2, <1>3, <1>6, <2>1, Untouched DEF SameLists
  <2> QED BY <1>3, <1>4, <2>1, <2>2, Steady DEF IInv, Control, SameLists
<1>11. Hides' /\ Chain'
  <2>1. Extra' = Extra /\ (ip' > 0 => ip > 0) /\ test' = test /\ before' = before
    BY <1>2, <1>3, <1>4, ExtraAfter DEF IInv
  <2> QED BY <1>3, <1>4, <2>1, SameExtra DEF IInv, Control
<1> QED
  BY <1>4, <1>6, <1>8, <1>9, <1>10, <1>11, Together, PTL

LEMMA GetParentKeeps == ASSUME IInv, GetParent PROVE IInv'
<1>1. Executing("parent")
  BY DEF GetParent
<1>2. /\ pc = "run" /\ InTest /\ (ip > 0 \/ defers # <<>>) /\ Op[1] = "parent" /\ pc \in Testing
      /\ pc \notin Midway
  BY <1>1, Executes
<1>3. Done /\ UNCHANGED <<store, plugged, unplugged, listed, Rest, local, faults, vbdFault>>
  BY DEF GetParent, machine, ending, failures, Rest
<1>4. /\ Store' /\ Leafs' /\ Managed' = Managed /\ Hidden' = Hidden /\ Bases(1)' = Bases(1)
      /\ parent' = parent
  BY <1>3, SameStore DEF IInv
<1>5. 1 \in Managed
  BY <1>2 DEF IInv, Left
<1>6. seen' = parent[1] /\ seen' \in Vdi \union {NoVdi}
  BY <1>5 DEF GetParent, IInv, Locals, Store, Managed
<1>7. /\ Position' /\ Uses /\ Advances /\ pc' = "run" /\ pc' \in Testing /\ pc' \notin Midway
      /\ test' = "coalesce" /\ ip' = 7 => Op[1] = "destroy" /\ Op[2] = "new"
  BY <1>2, <1>3, <1>4, <1>5, <1>6, AfterDone DEF IInv, Control
<1>8. /\ OnVm' = OnVm /\ ToDestroy' = ToDestroy /\ Needs' \subseteq Needs /\ Lacks' \subseteq Lacks
  BY <1>2, <1>7 DEF Advances
<1>9. Counts' /\ Vbd'
  BY <1>3, <1>4, <1>7 DEF IInv, Counts, Vbd
<1>10. Locals'
  <2>1. local["new"] \notin plugged'
    BY <1>3 DEF IInv, Locals
  <2>2. test' = "coalesce" /\ ip' = 7 => local["new"] \notin Managed
    BY <1>2, <1>7
  <2> QED BY <1>3, <1>4, <1>8, <2>1, <2>2, SameLocals DEF IInv
<1>11. Accounts'
  <2>1. \A v : SameLists(v)
    BY <1>2, <1>3, <1>7, <1>8, OtherDisks
  <2>2. \A v \in Vdi : Tidy(v)' <=> Tidy(v)
    BY <1>2, <1>3, <1>7, <2>1, Untouched DEF SameLists
  <2> QED BY <1>3, <1>4, <2>1, <2>2, Steady DEF IInv, Control, SameLists
<1>12. Hides' /\ Chain'
  <2>1. test = "coalesce" /\ ip = 5 /\ ip' = 6 /\ test' = test /\ before' = before
    BY <1>2, <1>3, <1>7, Turns DEF Turn, Uses, Done, IInv
  <2>2. Extra' = Extra
    BY <1>4, <1>6, <2>1 DEF Extra
  <2>3. ip' > 0 => ip > 0
    BY <2>1
  <2>4. Hides /\ Chain /\ before \in Nat /\ faults \in Nat
    BY DEF IInv, Control
  <2> QED BY <1>3, <1>4, <2>1, <2>2, <2>3, <2>4, SameExtra
<1> QED
  BY <1>4, <1>7, <1>9, <1>10, <1>11, <1>12, Together, PTL

-----------------------------------------------------------------------------
\* Statements that create and destroy VDIs

LEMMA WaitKeeps == ASSUME IInv, WaitForCoalesce PROVE IInv'
<1>1. Executing("wait")
  BY DEF WaitForCoalesce
<1>2. /\ pc = "run" /\ InTest /\ (ip > 0 \/ defers # <<>>) /\ Op[1] = "wait" /\ pc \in Testing
      /\ pc \notin Midway
  BY <1>1, Executes
<1>3. /\ Done /\ UNCHANGED <<store, plugged, unplugged, listed, Rest, seen, faults, vbdFault>>
      /\ local' = [local EXCEPT !["new"] = NoVdi] /\ parent[local["vdi"]] # seen
  BY DEF WaitForCoalesce, machine, ending, failures, Rest
<1>4. /\ Store' /\ Leafs' /\ Managed' = Managed /\ Hidden' = Hidden /\ Bases(1)' = Bases(1)
      /\ parent' = parent
  BY <1>3, SameStore DEF IInv
<1>5. 1 \in Managed /\ local["vdi"] = 1
  BY <1>2 DEF IInv, Left, Locals
<1>6. local \in [Local -> Vdi \union {NoVdi}] /\ local' \in [Local -> Vdi \union {NoVdi}]
      /\ seen \in Vdi \union {NoVdi}
  BY <1>3 DEF IInv, Control
<1>7. /\ Position' /\ Uses /\ Advances /\ pc' = "run" /\ pc' \in Testing /\ pc' \notin Midway
      /\ test' = "coalesce" /\ ip' = 7 => Op[1] = "destroy" /\ Op[2] = "new"
  BY <1>2, <1>3, <1>4, <1>5, <1>6, AfterDone
<1>8. /\ OnVm' = OnVm /\ ToDestroy' = ToDestroy /\ Needs' \subseteq Needs /\ Lacks' \subseteq Lacks
  BY <1>2, <1>7 DEF Advances
<1>9. Counts' /\ Vbd'
  BY <1>3, <1>4, <1>7 DEF IInv, Counts, Vbd
<1>10. /\ ToDestroy \subseteq Local /\ OnVm \subseteq Local /\ Needs \subseteq Local /\ Lacks \subseteq Local
       /\ "new" \notin OnVm /\ "new" \notin Needs /\ "new" \in Local /\ "vdi" \in Local
  BY <1>2, <1>7, NamesAreLocal DEF IInv, Uses, Local
<1>11. \A l \in Local : local'[l] = IF l = "new" THEN NoVdi ELSE local[l]
  BY <1>3, <1>6
<1>12. test = "coalesce" /\ ip = 7 /\ local["new"] \notin Managed /\ test' = test /\ before' = before
  BY <1>2, <1>3, <1>7, Turns DEF Turn, Uses, Done, IInv, Locals
<1>13. Locals'
  <2>1. local'["vdi"] = 1
    BY <1>5, <1>10, <1>11
  <2>2. \A l, m \in Local : l # m => local'[l] = NoVdi \/ local'[l] # local'[m]
    BY <1>11 DEF IInv, Locals
  <2>3. \A l \in Needs' : local'[l] \in Managed'
    BY <1>4, <1>8, <1>10, <1>11 DEF IInv, Locals
  <2>4. \A l \in Lacks' : local'[l] = NoVdi
    BY <1>8, <1>10, <1>11 DEF IInv, Locals
  <2>5. local'["new"] = NoVdi /\ NoVdi \notin plugged' /\ NoVdi \notin Managed'
    BY <1>10, <1>11, <1>9, <1>4, VdiFinite DEF Counts, Managed
  <2> QED BY <2>1, <2>2, <2>3, <2>4, <2>5 DEF Locals
<1>14. Accounts'
  <2>1. ASSUME NEW v \in Vdi PROVE Attached(v)' <=> Attached(v)
    BY <1>8, <1>10, <1>11 DEF Attached
  <2>2. \A v \in Vdi : Tidy(v)' <=> Tidy(v)
    BY <1>2, <1>3, <1>7, <2>1, Untouched
  <2>3. ASSUME NEW v \in Managed, Pending(v) PROVE Pending(v)'
    <3>1. VdiLeft'
      BY <1>7 DEF VdiLeft
    <3>2. \A l \in ToDestroy : local[l] = v => local'[l] = v
      BY <1>10, <1>11, <1>12
    <3> QED BY <1>8, <2>3, <3>1, <3>2 DEF Pending
  <2>4. Accounts /\ faults \in Nat
    BY DEF IInv, Control
  <2> QED BY <1>3, <1>4, <2>2, <2>3, <2>4, Steady
<1>15. Hides' /\ Chain'
  <2>1. Extra' = Extra /\ (ip' > 0 => ip > 0)
    BY <1>2, <1>3, <1>4, <1>5, ExtraAfter DEF IInv
  <2>2. Hides /\ Chain /\ before \in Nat /\ faults \in Nat
    BY DEF IInv, Control
  <2> QED BY <1>3, <1>4, <1>12, <2>1, <2>2, SameExtra
<1> QED
  BY <1>4, <1>7, <1>9, <1>13, <1>14, <1>15, Together, PTL

LEMMA FreshIs ==
  ASSUME IInv, NEW v \in Fresh
  PROVE  /\ v \in Free /\ v \in Vdi /\ v # NoVdi /\ v \notin Managed /\ v \notin plugged /\ unplugged[v] = 0
         /\ listed[v] = 0 /\ (\A l \in Local : local[l] # v)
<1>1. v \in Free /\ listed[v] = 0 /\ \A l \in Local : local[l] # v
  BY DEF Fresh
<1>2. v \in Vdi /\ v \notin Managed /\ v # NoVdi
  BY <1>1, VdiFinite DEF Free, Managed
<1>3. v \notin plugged /\ unplugged[v] = 0
  BY <1>2 DEF IInv, Counts, Vbd
<1> QED
  BY <1>1, <1>2, <1>3

\* A disk that the test creates is one it is to destroy.
LEMMA NewDisk ==
  ASSUME IInv, InTest, pc = "run", Uses, Advances, Op[1] \in {"create", "branch"}, NEW v \in Fresh,
         local' = [local EXCEPT ![Op[2]] = v], Managed' = Managed \union {v},
         UNCHANGED <<plugged, unplugged, listed, faults>>, ~(test' = "coalesce" /\ ip' = 7)
  PROVE  Counts' /\ Locals' /\ Vbd' /\ Accounts'
<1>1. /\ v \in Free /\ v \in Vdi /\ v # NoVdi /\ v \notin Managed /\ v \notin plugged /\ unplugged[v] = 0
      /\ listed[v] = 0 /\ (\A l \in Local : local[l] # v)
  BY FreshIs
<1>2. /\ OnVm' = OnVm /\ ToDestroy' = ToDestroy \union {Op[2]} /\ Needs' \subseteq Needs \union {Op[2]}
      /\ Lacks' \subseteq Lacks \ {Op[2]} /\ pc' = "run"
  BY DEF Advances
<1>3. /\ Op[2] \in Local /\ Op[2] \in Lacks /\ Op[2] \notin OnVm /\ Op[2] # "vdi"
      /\ ToDestroy \subseteq Local /\ OnVm \subseteq Local /\ Needs \subseteq Local /\ Lacks \subseteq Local
      /\ "new" \in Local /\ "vdi" \in Local
  BY NamesAreLocal DEF IInv, Uses, Local
<1>4. pc \notin Midway /\ pc' \notin Midway /\ pc' \in Testing
  BY <1>2 DEF Midway, Testing
<1>5. \A l \in Local : local'[l] = IF l = Op[2] THEN v ELSE local[l]
  BY DEF IInv, Control
<1>6. local[Op[2]] = NoVdi
  BY <1>3 DEF IInv, Locals
<1>7. Counts' /\ Vbd'
  BY <1>1, <1>2 DEF IInv, Counts, Vbd
<1>8. Locals'
  <2>1. local'["vdi"] = 1
    BY <1>3, <1>5 DEF IInv, Locals
  <2>2. \A l, m \in Local : l # m => local'[l] = NoVdi \/ local'[l] # local'[m]
    BY <1>1, <1>5 DEF IInv, Locals
  <2>3. \A l \in Needs' : local'[l] \in Managed'
    BY <1>2, <1>3, <1>5 DEF IInv, Locals
  <2>4. \A l \in Lacks' : local'[l] = NoVdi
    BY <1>2, <1>3, <1>5 DEF IInv, Locals
  <2>5. local'["new"] \notin plugged'
    BY <1>1, <1>3, <1>5 DEF IInv, Locals
  <2> QED BY <2>1, <2>2, <2>3, <2>4, <2>5 DEF Locals
<1>9. Accounts'
  <2>1. ASSUME NEW w \in Vdi, w # v PROVE \A l \in Local : local'[l] = w <=> local[l] = w
    BY <1>5, <1>6, <2>1, VdiFinite
  <2>2. ~Attached(v) /\ ~Attached(v)'
    BY <1>1, <1>2, <1>3, <1>5 DEF Attached
  <2>3. \A w \in Vdi : Attached(w)' <=> Attached(w)
    BY <1>2, <1>3, <2>1, <2>2 DEF Attached
  <2>4. \A w \in Vdi : Tidy(w)' <=> Tidy(w)
    BY <1>4, <2>3, Untouched
  <2>5. Tidy(v)
    BY <1>1, <1>4, <2>2 DEF Tidy, Calm
  <2>6. Pending(v)'
    BY <1>2, <1>3, <1>5 DEF Pending
  <2>7. ASSUME NEW w \in Managed, Pending(w) PROVE Pending(w)'
    <3>1. VdiLeft'
      BY <1>4 DEF VdiLeft
    <3>2. w \in Vdi /\ w # v
      BY <1>1 DEF Managed
    <3>3. \A l \in ToDestroy : local[l] = w => local'[l] = w
      BY <1>3, <2>1, <3>2
    <3> QED BY <1>2, <2>7, <3>1, <3>3 DEF Pending
  <2>8. Accounts /\ faults \in Nat
    BY DEF IInv, Control
  <2> QED BY <1>1, <2>4, <2>5, <2>6, <2>7, <2>8, Steady
<1> QED
  BY <1>7, <1>8, <1>9

LEMMA LeastFresh ==
  ASSUME NEW s \in SUBSET Fresh, s # {} PROVE Least(s) \in s
<1>1. s \in SUBSET Nat
  BY VdiFinite DEF Fresh, Free
<1> QED
  BY <1>1, LeastIn

LEMMA CreateKeeps == ASSUME IInv, Create PROVE IInv'
<1>1. Executing("create") /\ Fresh # {}
  BY DEF Create
<1>2. /\ pc = "run" /\ InTest /\ (ip > 0 \/ defers # <<>>) /\ Op[1] = "create" /\ pc \in Testing
      /\ pc \notin Midway
  BY <1>1, Executes
<1>3. PICK v \in Fresh : kind' = [kind EXCEPT ![v] = "managed"] /\ local' = [local EXCEPT ![Op[2]] = v]
  BY <1>1, LeastFresh DEF Create
<1>4. Done /\ UNCHANGED <<parent, plugged, unplugged, listed, Rest, seen, faults, vbdFault>>
  BY DEF Create, machine, ending, failures, Rest
<1>5. v \in Free /\ v \in Vdi /\ v \notin Managed
  BY FreshIs
<1>6. /\ Store' /\ Leafs' /\ Managed' = Managed \union {v} /\ Hidden' = Hidden
      /\ Bases(1)' \subseteq Bases(1)
  BY <1>3, <1>4, <1>5, Filled DEF IInv
<1>7. 1 \in Managed' /\ local' \in [Local -> Vdi \union {NoVdi}] /\ seen' \in Vdi \union {NoVdi}
  BY <1>2, <1>3, <1>4, <1>5, <1>6 DEF IInv, Left, Control
<1>8. /\ Position' /\ Uses /\ Advances /\ pc' = "run" /\ pc' \in Testing /\ pc' \notin Midway
      /\ test' = "coalesce" /\ ip' = 7 => Op[1] = "destroy" /\ Op[2] = "new"
  BY <1>2, <1>4, <1>7, AfterDone
<1>9. Counts' /\ Locals' /\ Vbd' /\ Accounts'
  BY <1>2, <1>3, <1>4, <1>6, <1>8, NewDisk
<1>10. Hides' /\ Chain'
  <2>1. Extra' = Extra /\ (ip' > 0 => ip > 0) /\ test' = test /\ before' = before
    BY <1>2, <1>4, ExtraAfter DEF IInv
  <2>2. Hides /\ Chain /\ before \in Nat /\ faults \in Nat
    BY DEF IInv, Control
  <2> QED BY <1>4, <1>6, <2>1, <2>2, SameExtra
<1> QED
  BY <1>6, <1>8, <1>9, <1>10, Together, PTL

LEMMA BranchKeeps == ASSUME IInv, Branch PROVE IInv'
<1>1. Executing("branch") /\ Cardinality(Fresh) > 1
  BY DEF Branch
<1>2. /\ pc = "run" /\ InTest /\ (ip > 0 \/ defers # <<>>) /\ Op[1] = "branch" /\ pc \in Testing
      /\ pc \notin Midway
  BY <1>1, Executes
<1>3. 1 \in Managed /\ local["vdi"] = 1
  BY <1>2 DEF IInv, Left, Locals
<1>4. Uses /\ Op[2] = "new"
  BY <1>2, AllUses DEF IInv, Uses
<1>5. PICK base \in Fresh, new \in Fresh :
        /\ base # new /\ kind' = [kind EXCEPT ![base] = "hidden", ![new] = "managed"]
        /\ parent' = [parent EXCEPT ![base] = parent[1], ![new] = base, ![1] = base]
        /\ local' = [local EXCEPT ![Op[2]] = new]
  <2>1. Fresh \subseteq Vdi
    BY DEF Fresh, Free
  <2>2. \A b \in Fresh : Fresh \ {b} # {} /\ Fresh # {}
    <3> SUFFICES ASSUME NEW b \in Fresh PROVE Fresh \ {b} # {}
      OBVIOUS
    <3>1. Cardinality(Fresh \ {b}) = Cardinality(Fresh) - 1 /\ Cardinality(Fresh) \in Nat
      BY <2>1, SetOfVdis, FS_RemoveElement
    <3>2. Cardinality({}) = 0
      BY FS_EmptySet
    <3> QED BY <1>1, <3>1, <3>2
  <2>3. Fresh # {}
    <3>1. Cardinality({}) = 0
      BY FS_EmptySet
    <3> QED BY <1>1, <3>1
  <2>4. Least(Fresh) \in Fresh /\ Least(Fresh \ {Least(Fresh)}) \in Fresh \ {Least(Fresh)}
    BY <2>2, <2>3, LeastFresh
  <2> QED BY <1>3, <1>4, <2>4 DEF Branch
<1>6. Done /\ UNCHANGED <<plugged, unplugged, listed, Rest, seen, faults, vbdFault>>
  BY DEF Branch, machine, ending, failures, Rest
<1>7. base \in Free /\ new \in Free /\ base \in Vdi /\ new \in Vdi
  BY FreshIs
<1>8. /\ Store' /\ Leafs' /\ Managed' = Managed \union {new} /\ Hidden' = Hidden \union {base}
      /\ Bases(1)' \subseteq Bases(1) \union {base}
  BY <1>3, <1>5, <1>7, Branched DEF IInv
<1>9. 1 \in Managed' /\ local' \in [Local -> Vdi \union {NoVdi}] /\ seen' \in Vdi \union {NoVdi}
  BY <1>3, <1>5, <1>6, <1>7, <1>8 DEF IInv, Control
<1>10. /\ Position' /\ Uses /\ Advances /\ pc' = "run" /\ pc' \in Testing /\ pc' \notin Midway
       /\ test' = "coalesce" /\ ip' = 7 => Op[1] = "destroy" /\ Op[2] = "new"
  BY <1>2, <1>6, <1>9, AfterDone
<1>11. Counts' /\ Locals' /\ Vbd' /\ Accounts'
  BY <1>2, <1>5, <1>6, <1>8, <1>10, NewDisk
<1>12. Hides' /\ Chain'
  <2>1. test = "coalesce" /\ ip = 3 /\ ip' = 4 /\ test' = test /\ before' = before
    BY <1>2, <1>4, <1>6, Turns DEF Turn, Uses, Done, IInv
  <2>2. Extra = 0 /\ Extra' = 1
    BY <2>1 DEF Extra
  <2>3. Bases(1) \subseteq Vdi /\ Hidden \subseteq Vdi /\ Bases(1)' \subseteq Vdi /\ Hidden' \subseteq Vdi
    BY DEF Bases, Hidden
  <2>4. /\ Cardinality(Hidden') <= Cardinality(Hidden) + 1
        /\ Cardinality(Bases(1)') <= Cardinality(Bases(1)) + 1
    BY <1>8, <2>3, OneMore
  <2>5. /\ Cardinality(Hidden) \in Nat /\ Cardinality(Bases(1)) \in Nat
        /\ Cardinality(Hidden') \in Nat /\ Cardinality(Bases(1)') \in Nat
    BY <2>3, SetOfVdis
  <2>6. /\ faults \in Nat /\ before \in Nat /\ faults' = faults
        /\ Cardinality(Hidden) <= faults /\ Cardinality(Bases(1)) <= before
    <3>1. faults \in Nat /\ before \in Nat /\ faults' = faults
      BY <1>6 DEF IInv, Control
    <3>2. Cardinality(Hidden) <= faults + Extra
      BY DEF IInv, Hides
    <3>3. Cardinality(Bases(1)) <= before + Extra
      BY <2>1 DEF IInv, Chain
    <3> QED BY <2>2, <3>1, <3>2, <3>3
  <2>7. Cardinality(Hidden') <= faults' + 1 /\ Cardinality(Bases(1)') <= before' + 1
    BY <2>1, <2>4, <2>5, <2>6
  <2> QED BY <2>2, <2>7 DEF Hides, Chain
<1> QED
  BY <1>8, <1>10, <1>11, <1>12, Together, PTL

LEMMA Freed ==
  ASSUME Store, Leafs, NEW v \in Managed, Destroyed(v), unplugged \in [Vdi -> Nat]
  PROVE  /\ Store' /\ Leafs' /\ Managed' = Managed \ {v} /\ Hidden' = Hidden /\ Bases(1)' \subseteq Bases(1)
         /\ v \in Vdi /\ (1 # v => parent'[1] = parent[1])
         /\ unplugged' \in [Vdi -> Nat] /\ unplugged'[v] = 0
         /\ \A w \in Vdi \ {v} : unplugged'[w] = unplugged[w]
<1>1. v \in Vdi /\ v \notin Hidden
  BY DEF Managed, Hidden
<1>2. /\ kind' = [w \in Vdi |-> IF w \in {v} THEN "free" ELSE kind[w]]
      /\ parent' = [w \in Vdi |-> IF w \in {v} THEN NoVdi ELSE parent[w]]
  BY <1>1 DEF Destroyed, Store
<1>3. \A b \in {v} : Children(b) = {}
  BY <1>1, Childless
<1>4. {v} \in SUBSET Vdi
  BY <1>1
<1>5. /\ Store' /\ Leafs' /\ Managed' = Managed \ {v} /\ Hidden' = Hidden \ {v}
      /\ Bases(1)' \subseteq Bases(1)
  BY <1>2, <1>3, <1>4, Emptied
<1>6. unplugged' = [unplugged EXCEPT ![v] = 0]
  BY DEF Destroyed
<1> QED
  BY <1>1, <1>2, <1>5, <1>6, VdiFinite

LEMMA DestroyDone ==
  ASSUME IInv, DestroyVdi, Disk # NoVdi, CanDestroy(Disk) PROVE IInv'
<1>1. Executing("destroy") /\ UNCHANGED <<plugged, listed, Rest, seen, faults, vbdFault>>
  BY DEF DestroyVdi, ending, failures, Rest
<1>2. /\ pc = "run" /\ InTest /\ (ip > 0 \/ defers # <<>>) /\ Op[1] = "destroy" /\ pc \in Testing
      /\ pc \notin Midway
  BY <1>1, Executes
<1>3. PICK v : v = Disk
  OBVIOUS
<1>4. /\ Destroyed(v) /\ Done /\ v \in Managed /\ v \notin plugged /\ v # NoVdi
      /\ local' = IF Op[2] = "src" THEN [local EXCEPT !["src"] = NoVdi] ELSE local
  BY <1>3 DEF DestroyVdi, CanDestroy
<1>5. Store /\ Leafs /\ unplugged \in [Vdi -> Nat] /\ faults \in Nat /\ before \in Nat
      /\ local \in [Local -> Vdi \union {NoVdi}] /\ seen \in Vdi \union {NoVdi}
  BY DEF IInv, Counts, Control
<1>6. /\ Store' /\ Leafs' /\ Managed' = Managed \ {v} /\ Hidden' = Hidden /\ Bases(1)' \subseteq Bases(1)
      /\ v \in Vdi /\ (1 # v => parent'[1] = parent[1])
      /\ unplugged' \in [Vdi -> Nat] /\ unplugged'[v] = 0
      /\ \A w \in Vdi \ {v} : unplugged'[w] = unplugged[w]
  BY <1>4, <1>5, Freed
<1>7. Uses /\ Op[2] \in Local /\ Op[2] # "vdi" /\ "vdi" \in Local /\ "new" \in Local /\ Op[2] \notin OnVm
  BY <1>2, AllUses DEF IInv, Uses, Local
<1>8. v = local[Op[2]] /\ \A l \in Local : local[l] = v => l = Op[2]
  BY <1>3, <1>4, <1>7, OneName DEF Disk, IInv
<1>9. 1 \in Managed /\ local["vdi"] = 1 /\ v # 1
  BY <1>2, <1>7, <1>8 DEF IInv, Left, Locals
<1>10. /\ local' \in [Local -> Vdi \union {NoVdi}]
       /\ \A l \in Local : local'[l] = IF l = Op[2] /\ l = "src" THEN NoVdi ELSE local[l]
  BY <1>4, <1>5
<1>11. /\ Position' /\ Uses /\ Advances /\ pc' = "run" /\ pc' \in Testing /\ pc' \notin Midway
       /\ test' = "coalesce" /\ ip' = 7 => Op[1] = "destroy" /\ Op[2] = "new"
  BY <1>1, <1>2, <1>4, <1>5, <1>6, <1>9, <1>10, AfterDone
<1>12. /\ OnVm' = OnVm /\ ToDestroy \ {Op[2]} \subseteq ToDestroy' /\ Needs' \subseteq Needs \ {Op[2]}
       /\ Lacks' \subseteq Lacks \union ({Op[2]} \cap {"src"})
  BY <1>2, <1>11 DEF Advances
<1>13. ToDestroy \subseteq Local /\ OnVm \subseteq Local /\ Needs \subseteq Local /\ Lacks \subseteq Local
  BY NamesAreLocal DEF IInv
<1>14. Counts' /\ Vbd'
  <2>1. Counts'
    BY <1>1, <1>4, <1>6 DEF IInv, Counts
  <2>2. Vbd'
    BY <1>6, <1>11 DEF IInv, Vbd
  <2> QED BY <2>1, <2>2
<1>15. Locals'
  <2>1. local'["vdi"] = 1
    BY <1>7, <1>9, <1>10
  <2>2. \A l, m \in Local : l # m => local'[l] = NoVdi \/ local'[l] # local'[m]
    BY <1>10 DEF IInv, Locals
  <2>3. \A l \in Needs' : local'[l] \in Managed'
    BY <1>6, <1>8, <1>10, <1>12, <1>13 DEF IInv, Locals
  <2>4. \A l \in Lacks' : local'[l] = NoVdi
    <3>1. \A l \in Lacks : local[l] = NoVdi
      BY DEF IInv, Locals
    <3> QED BY <1>7, <1>10, <1>12, <1>13, <3>1
  <2>5. local'["new"] \notin plugged'
    BY <1>1, <1>7, <1>10 DEF IInv, Locals
  <2>6. test' = "coalesce" /\ ip' = 7 => local'["new"] \notin Managed'
    BY <1>6, <1>7, <1>8, <1>10, <1>11
  <2> QED BY <2>1, <2>2, <2>3, <2>4, <2>5, <2>6 DEF Locals
<1>16. Accounts'
  <2>1. ASSUME NEW w \in Vdi, w # v PROVE \A l \in Local : local'[l] = w <=> local[l] = w
    BY <1>8, <1>10, <2>1, VdiFinite
  <2>2. ~Attached(v) /\ ~Attached(v)'
    BY <1>4, <1>7, <1>8, <1>10, <1>12, <1>13 DEF Attached
  <2>3. \A w \in Vdi \ {v} : Attached(w)' <=> Attached(w)
    BY <1>12, <1>13, <2>1 DEF Attached
  <2>4. \A w \in Vdi \ {v} : Tidy(w)' <=> Tidy(w)
    BY <1>1, <1>2, <1>6, <1>11, <2>3, Untouched
  <2>5. Tidy(v) => Tidy(v)'
    BY <1>1, <1>2, <1>6, <1>11, <2>2 DEF Tidy, Calm
  <2>6. ASSUME NEW w \in Managed', Pending(w) PROVE Pending(w)'
    <3>1. VdiLeft'
      BY <1>11 DEF VdiLeft
    <3>2. w \in Vdi /\ w # v
      BY <1>6 DEF Managed
    <3>3. \A l \in ToDestroy : local[l] = w => l \in ToDestroy' /\ local'[l] = w
      BY <1>8, <1>12, <1>13, <2>1, <3>2
    <3> QED BY <2>6, <3>1, <3>3 DEF Pending
  <2>7. Accounts /\ Managed' \subseteq Managed
    BY <1>6 DEF IInv
  <2>8. \A w \in Vdi : Tidy(w) => Tidy(w)'
    BY <2>4, <2>5
  <2> QED BY <1>1, <1>5, <2>6, <2>7, <2>8, Steady
<1>17. Hides' /\ Chain'
  <2>1. Extra' = Extra /\ (ip' > 0 => ip > 0) /\ test' = test /\ before' = before
    BY <1>1, <1>2, <1>4, <1>6, <1>9, ExtraAfter DEF IInv
  <2>2. Hides /\ Chain
    BY DEF IInv
  <2> QED BY <1>1, <1>5, <1>6, <2>1, <2>2, SameExtra
<1> QED
  BY <1>6, <1>11, <1>14, <1>15, <1>16, <1>17, Together, PTL

LEMMA DestroyRefused ==
  ASSUME IInv, DestroyVdi, ~(Disk # NoVdi /\ CanDestroy(Disk)) PROVE IInv'
<1>1. /\ Executing("destroy") /\ UNCHANGED <<store, plugged, listed, unplugged, Rest, local, seen, faults, vbdFault>>
      /\ IF ip = 0 /\ Disk = NoVdi THEN Done ELSE Failed
  BY DEF DestroyVdi, ending, failures, Rest, store
<1>2. /\ pc = "run" /\ InTest /\ (ip > 0 \/ defers # <<>>) /\ Op[1] = "destroy" /\ pc \in Testing
      /\ pc \notin Midway /\ ip \in 0..11
  BY <1>1, Executes DEF IInv, Place
<1>3. /\ Store' /\ Leafs' /\ Managed' = Managed /\ Hidden' = Hidden /\ Bases(1)' = Bases(1)
      /\ parent' = parent
  BY <1>1, SameStore DEF IInv
<1>4. 1 \in Managed /\ Disk \in Vdi \union {NoVdi} /\ faults \in Nat /\ before \in Nat
      /\ vbdFault \in BOOLEAN /\ local \in [Local -> Vdi \union {NoVdi}] /\ seen \in Vdi \union {NoVdi}
      /\ faults <= MaxFaults /\ Uses
  BY <1>2, AllUses DEF IInv, Left, Control, Bounded, Disk, Uses
<1>5. /\ Position' /\ pc' = "run" /\ pc' \in Testing /\ pc' \notin Midway /\ ip' = 0
      /\ OnVm' = OnVm /\ ToDestroy \ {Op[2]} \subseteq ToDestroy' /\ Needs' \subseteq Needs
      /\ Lacks' \subseteq Lacks
  <2>1. CASE ip = 0 /\ Disk = NoVdi
    <3>1. Done /\ ip' = 0
      BY <1>1, <2>1 DEF Done
    <3>2. Position' /\ Advances /\ pc' = "run" /\ pc' \in Testing /\ pc' \notin Midway
      BY <1>1, <1>2, <1>3, <1>4, <3>1, AfterDone
    <3> QED BY <1>2, <2>1, <3>1, <3>2 DEF Advances
  <2>2. CASE ~(ip = 0 /\ Disk = NoVdi)
    <3>1. Failed
      BY <1>1, <2>2
    <3>2. /\ Position' /\ pc' = "run" /\ pc' \in Testing /\ pc' \notin Midway /\ ip' = 0
          /\ ip > 0 => Abandons
          /\ ip = 0 => Advances
      BY <1>1, <1>2, <1>3, <1>4, <3>1, AfterFailed
    <3>3. CASE ip = 0
      BY <1>2, <3>2, <3>3 DEF Advances
    <3>4. CASE ip > 0
      BY <1>2, <1>4, <3>2, <3>4 DEF Abandons, Uses
    <3> QED BY <1>2, <3>3, <3>4
  <2> QED BY <2>1, <2>2
<1>6. Counts' /\ Vbd'
  BY <1>1, <1>3, <1>5 DEF IInv, Counts, Vbd
<1>7. Locals'
  <2>1. local["new"] \notin plugged'
    BY <1>1 DEF IInv, Locals
  <2>2. test' = "coalesce" /\ ip' = 7 => local["new"] \notin Managed
    BY <1>5
  <2> QED BY <1>1, <1>3, <1>5, <2>1, <2>2, SameLocals DEF IInv
<1>8. Accounts'
  <2>1. \A v \in Vdi : Attached(v)' <=> Attached(v)
    BY <1>1, <1>5 DEF Attached
  <2>2. \A v \in Vdi : Tidy(v)' <=> Tidy(v)
    BY <1>1, <1>2, <1>5, <2>1, Untouched
  <2>3. ASSUME NEW v \in Managed, Tidy(v), Pending(v) PROVE Pending(v)'
    <3>1. v # Disk
      <4> SUFFICES ASSUME v = Disk PROVE FALSE
        OBVIOUS
      <4>1. v \in Vdi /\ v # NoVdi
        BY VdiFinite DEF Managed
      <4>2. v \in plugged
        BY <4>1 DEF CanDestroy
      <4>3. PICK l \in OnVm : local[l] = v
        BY <1>2, <2>3, <4>2 DEF Tidy, Calm, Attached
      <4>4. l \in Local /\ Op[2] \in Local /\ local[Op[2]] = v /\ Op[2] \notin OnVm
        BY <1>2, <1>4, NamesAreLocal DEF IInv, Uses, Disk
      <4> QED BY <4>1, <4>3, <4>4, OneName DEF IInv
    <3>2. VdiLeft'
      BY <1>5 DEF VdiLeft
    <3>3. \A l \in ToDestroy : local[l] = v => l \in ToDestroy' /\ local'[l] = v
      BY <1>1, <1>5, <3>1 DEF Disk
    <3> QED BY <2>3, <3>2, <3>3 DEF Pending
  <2>4. Accounts
    BY DEF IInv
  <2> QED BY <1>1, <1>3, <1>4, <2>2, <2>3, <2>4, Steady
<1>9. Hides' /\ Chain'
  <2>1. Extra = 0
    <3>1. CASE ip > 0 /\ test = "coalesce"
      <4>1. Op[2] = "new" /\ Disk \in Managed
        BY <1>2, <1>4, <3>1 DEF Uses, IInv, Locals, Disk
      <4>2. Disk \notin plugged /\ Disk # NoVdi
        BY <4>1, VdiFinite DEF IInv, Locals, Disk, Managed
      <4> QED BY <4>1, <4>2 DEF CanDestroy
    <3>2. CASE ~(ip > 0 /\ test = "coalesce")
      BY <1>2, <3>2 DEF Extra
    <3> QED BY <3>1, <3>2
  <2>2. Hides /\ Hidden' \subseteq Hidden
    BY <1>3 DEF IInv
  <2> QED BY <1>1, <1>4, <1>5, <2>1, <2>2, NoExtra
<1> QED
  BY <1>3, <1>5, <1>6, <1>7, <1>8, <1>9, Together, PTL

LEMMA DestroyKeeps == ASSUME IInv, DestroyVdi PROVE IInv'
  BY DestroyDone, DestroyRefused

-----------------------------------------------------------------------------
\* VBDs

LEMMA OnDisk ==
  ASSUME IInv, InTest, ip > 0 \/ defers # <<>>, Op[1] \in {"connect", "disconnect"}
  PROVE  /\ Uses /\ Disk \in Managed /\ Disk \in Vdi /\ local["new"] # Disk /\ 1 \in Managed
         /\ Attached(Disk) <=> Op[1] = "disconnect"
         /\ ip > 0 => test # "coalesce" \/ ip = 1
         /\ test = "coalesce" => ip # 7
         /\ ip \in 0..11
<1>1. Uses /\ ip \in 0..11 /\ pc \in Testing
  BY AllUses DEF IInv, Place, InTest, Testing, Midway
<1>2. Op[2] \in Needs /\ Op[2] \in Local /\ Op[2] # "new" /\ "new" \in Local /\ (Op[2] \in OnVm <=> Op[1] = "disconnect")
  BY <1>1 DEF Uses, Local
<1>3. Disk \in Managed /\ Disk \in Vdi /\ Disk # NoVdi
  BY <1>2, VdiFinite DEF IInv, Locals, Disk, Managed
<1>4. \A l \in Local : local[l] = Disk => l = Op[2]
  BY <1>2, <1>3, OneName DEF IInv, Disk
<1>5. Attached(Disk) <=> Op[2] \in OnVm
  BY <1>4, NamesAreLocal DEF Attached, Disk, IInv
<1> QED
  BY <1>1, <1>2, <1>3, <1>4, <1>5 DEF Uses, IInv, Left

\* Only the VBDs of the disk that is attached or detached change.
LEMMA VbdStep ==
  ASSUME IInv, pc \in Testing, pc' \in Testing, UNCHANGED <<store, local, faults>>, NEW d \in Vdi, d = Disk,
         pc' \in Midway => Disk' = d,
         \A v \in Vdi : v # d => /\ v \in plugged' <=> v \in plugged
                                 /\ unplugged'[v] = unplugged[v] /\ listed'[v] = listed[v],
         \A v \in Vdi : v # d => SameLists(v),
         Tidy(d) => Tidy(d)', ToDestroy \subseteq ToDestroy'
  PROVE  Accounts'
<1>1. Managed' = Managed
  BY SameStore DEF IInv
<1>2. ASSUME NEW v \in Vdi, Tidy(v) PROVE Tidy(v)'
  <2>1. CASE v # d
    BY <1>2, <2>1, Untouched DEF SameLists
  <2>2. CASE v = d
    BY <1>2, <2>2
  <2> QED BY <2>1, <2>2
<1>3. ASSUME NEW v \in Managed, Pending(v) PROVE Pending(v)'
  <2>1. v \in Vdi /\ VdiLeft'
    BY DEF Managed, VdiLeft
  <2>2. CASE v # d
    BY <1>3, <2>1, <2>2 DEF SameLists
  <2>3. CASE v = d
    BY <1>3, <2>1, <2>3 DEF Pending
  <2> QED BY <2>2, <2>3
<1>4. Accounts /\ faults \in Nat
  BY DEF IInv, Control
<1> QED
  BY <1>1, <1>2, <1>3, <1>4, Steady

\* The next command runs: the position is the same.
LEMMA NextCommand ==
  ASSUME IInv, InTest, ip > 0 \/ defers # <<>>, Op[1] \in {"connect", "disconnect"}, Stays, pc' \in Testing,
         UNCHANGED <<store, local, seen, faults, before>>, NEW d \in Vdi, d = Disk, Disk' = d, Position',
         plugged' \subseteq plugged \union {d}, unplugged' \in [Vdi -> Nat], listed' \in [Vdi -> Nat],
         \A v \in Vdi : v # d => /\ v \in plugged' <=> v \in plugged
                                 /\ unplugged'[v] = unplugged[v] /\ listed'[v] = listed[v],
         pc' # "named" => unplugged'[d] > 0, pc' = "drop" => listed'[d] > 0,
         Tidy(d) => Tidy(d)'
  PROVE  IInv'
<1>1. /\ Uses /\ d \in Managed /\ local["new"] # d /\ 1 \in Managed
      /\ test = "coalesce" => ip # 7
  BY OnDisk
<1>2. /\ Store' /\ Leafs' /\ Managed' = Managed /\ Hidden' = Hidden /\ Bases(1)' = Bases(1)
      /\ parent' = parent
  BY SameStore DEF IInv
<1>3. Counts'
  BY <1>1, <1>2 DEF IInv, Counts
<1>4. Vbd'
  BY <1>1, <1>2 DEF IInv, Vbd
<1>5. Locals'
  <2>1. local["new"] \notin plugged'
    BY <1>1 DEF IInv, Locals
  <2>2. test' = "coalesce" /\ ip' = 7 => local["new"] \notin Managed
    BY <1>1 DEF Stays
  <2>3. Locals /\ Needs' \subseteq Needs /\ Lacks' \subseteq Lacks
    BY DEF Stays, IInv
  <2> QED BY <1>2, <2>1, <2>2, <2>3, SameLocals
<1>6. Accounts'
  <2>1. pc \in Testing
    BY DEF InTest, Testing, Midway
  <2>2. \A v : SameLists(v)
    BY <2>1, OtherDisks DEF Stays
  <2>3. ToDestroy \subseteq ToDestroy'
    BY DEF Stays
  <2> QED BY <2>1, <2>2, <2>3, VbdStep
<1>7. Hides' /\ Chain'
  <2>1. Extra' = Extra /\ test' = test /\ ip' = ip
    BY <1>2 DEF Extra, Stays
  <2>2. Hides /\ Chain /\ before \in Nat /\ faults \in Nat
    BY DEF IInv, Control
  <2> QED BY <1>2, <2>1, <2>2, SameExtra
<1> QED
  BY <1>2, <1>3, <1>4, <1>5, <1>6, <1>7, Together, PTL

LEMMA VbdCreateKeeps == ASSUME IInv, VbdCreate PROVE IInv'
<1>1. Executing("connect") /\ Goto("plug")
      /\ UNCHANGED <<store, plugged, listed, Rest, local, seen, faults, vbdFault>>
  BY DEF VbdCreate, Rest, ending, failures
<1>2. /\ pc = "run" /\ InTest /\ (ip > 0 \/ defers # <<>>) /\ Op[1] = "connect" /\ pc \in Testing
      /\ pc \notin Midway
  BY <1>1, Executes
<1>3. PICK d : d = Disk
  OBVIOUS
<1>4. d \in Vdi /\ d \in Managed /\ 1 \in Managed /\ ~Attached(d) /\ Uses
  BY <1>2, <1>3, OnDisk
<1>5. Managed' = Managed
  BY <1>1, SameStore DEF IInv
<1>6. unplugged \in [Vdi -> Nat] /\ listed \in [Vdi -> Nat] /\ faults \in Nat /\ faults <= MaxFaults
      /\ vbdFault \in BOOLEAN
  BY DEF IInv, Counts, Control, Bounded
<1>7. unplugged' = [unplugged EXCEPT ![d] = unplugged[d] + 1]
  BY <1>3 DEF VbdCreate
<1>8. unplugged' \in [Vdi -> Nat] /\ unplugged'[d] = unplugged[d] + 1 /\ unplugged'[d] > 0
      /\ \A v \in Vdi : v # d => unplugged'[v] = unplugged[v]
  BY <1>4, <1>6, <1>7
<1>9. Position' /\ Stays /\ pc' = "plug" /\ pc' \in Testing /\ Disk' = Disk /\ before' = before
  <2>1. "plug" \in Midway /\ ip > 0
    BY <1>2, <1>4 DEF Midway, Uses
  <2> QED BY <1>1, <1>2, <1>4, <1>5, <1>6, <2>1, AfterGoto
<1>10. Tidy(d) => Tidy(d)'
  BY <1>1, <1>2, <1>3, <1>4, <1>8, <1>9 DEF Tidy, Calm, Midway
<1> QED
  BY <1>1, <1>2, <1>3, <1>4, <1>6, <1>8, <1>9, <1>10, NextCommand

LEMMA VbdPlugKeeps == ASSUME IInv, VbdPlug PROVE IInv'
<1>1. pc = "plug" /\ UNCHANGED <<store, Rest, local, seen, faults, vbdFault>>
  BY DEF VbdPlug, Rest, ending, failures
<1>2. InTest /\ ip > 0 /\ Op[1] = "connect" /\ pc \in Midway /\ pc \in Testing
  BY <1>1 DEF IInv, Place, InTest, Midway, Testing
<1>3. PICK d : d = Disk
  OBVIOUS
<1>4. d \in Vdi /\ d \in Managed /\ 1 \in Managed
  BY <1>2, <1>3, OnDisk
<1>5. Managed' = Managed
  BY <1>1, SameStore DEF IInv
<1>6. unplugged \in [Vdi -> Nat] /\ listed \in [Vdi -> Nat] /\ faults \in Nat /\ faults <= MaxFaults
      /\ vbdFault \in BOOLEAN /\ unplugged[d] > 0
  BY <1>1, <1>3 DEF IInv, Counts, Control, Bounded, Vbd
<1>7. ASSUME NEW p \in {"unconnect", "named"}, Goto(p)
      PROVE  Position' /\ Stays /\ pc' = p /\ pc' \in Testing /\ Disk' = d /\ before' = before
  <2>1. p \in Midway /\ p # "drop"
    BY DEF Midway
  <2> QED BY <1>1, <1>2, <1>3, <1>4, <1>5, <1>6, <1>7, <2>1, AfterGoto
<1>8. CASE d \in plugged
  <2>1. Goto("unconnect") /\ UNCHANGED <<plugged, unplugged, listed>>
    BY <1>3, <1>8 DEF VbdPlug
  <2>2. Position' /\ Stays /\ pc' = "unconnect" /\ pc' \in Testing /\ Disk' = d /\ before' = before
    BY <1>7, <2>1
  <2>3. ~Tidy(d)
    BY <1>1, <1>2, <1>3, <1>8 DEF Tidy
  <2> QED BY <1>1, <1>2, <1>3, <1>4, <1>6, <2>1, <2>2, <2>3, NextCommand
<1>9. CASE d \notin plugged
  <2>1. /\ Goto("named") /\ plugged' = plugged \union {d}
        /\ unplugged' = [unplugged EXCEPT ![d] = unplugged[d] - 1]
        /\ listed' = [listed EXCEPT ![d] = listed[d] + 1]
    BY <1>3, <1>9 DEF VbdPlug
  <2>2. Position' /\ Stays /\ pc' = "named" /\ pc' \in Testing /\ Disk' = d /\ before' = before
    BY <1>7, <2>1
  <2>3. unplugged' \in [Vdi -> Nat] /\ listed' \in [Vdi -> Nat]
        /\ unplugged'[d] = unplugged[d] - 1 /\ listed'[d] = listed[d] + 1
        /\ \A v \in Vdi : v # d => unplugged'[v] = unplugged[v] /\ listed'[v] = listed[v]
    BY <1>4, <1>6, <2>1
  <2>4. Tidy(d) => Tidy(d)'
    <3>1. Tidy(d) => unplugged[d] = 1 /\ listed[d] = 0
      BY <1>1, <1>2, <1>3 DEF Tidy
    <3>2. d \in plugged' /\ (unplugged'[d] = 0 /\ listed'[d] = 1 => Tidy(d)')
      BY <2>1, <2>2 DEF Tidy, Midway
    <3> QED BY <2>3, <3>1, <3>2
  <2> QED BY <1>1, <1>2, <1>3, <1>4, <1>6, <2>1, <2>2, <2>3, <2>4, NextCommand
<1> QED
  BY <1>8, <1>9

\* connect_vdi or disconnect_vdi is over, well or not.
LEMMA LastCommand ==
  ASSUME IInv, InTest, ip > 0 \/ defers # <<>>, Op[1] \in {"connect", "disconnect"}, Done \/ Failed,
         UNCHANGED <<store, Rest, local, seen, faults, vbdFault>>, NEW d \in Vdi, d = Disk,
         plugged' = plugged, unplugged' \in [Vdi -> Nat], listed' \in [Vdi -> Nat],
         \A v \in Vdi : v # d => unplugged'[v] = unplugged[v] /\ listed'[v] = listed[v],
         (Attached(d)' <=> Done /\ Op[1] = "connect") /\ pc' \notin Midway /\ Tidy(d) => Calm(d)'
  PROVE  IInv'
<1>1. /\ Uses /\ d \in Managed /\ local["new"] # d /\ 1 \in Managed
      /\ ip > 0 => test # "coalesce" \/ ip = 1
      /\ ip \in 0..11
  BY OnDisk
<1>2. /\ Store' /\ Leafs' /\ Managed' = Managed /\ Hidden' = Hidden /\ Bases(1)' = Bases(1)
      /\ parent' = parent
  BY SameStore DEF IInv
<1>3. /\ faults \in Nat /\ before \in Nat /\ vbdFault \in BOOLEAN /\ faults <= MaxFaults
      /\ local \in [Local -> Vdi \union {NoVdi}] /\ seen \in Vdi \union {NoVdi}
  BY DEF IInv, Control, Bounded
<1>4. pc \in Testing
  BY DEF InTest, Testing, Midway
<1>5. Op[2] \in Local /\ \A l \in Local : local[l] = d => l = Op[2]
  <2>1. Op[2] \in Local /\ d # NoVdi
    BY <1>1, VdiFinite DEF Uses
  <2> QED BY <2>1, OneName DEF IInv, Disk
<1>6. /\ Position' /\ pc' \in Testing /\ pc' \notin Midway
      /\ Needs' \subseteq Needs /\ Lacks' \subseteq Lacks /\ ToDestroy' = ToDestroy
      /\ OnVm' \union {Op[2]} = OnVm \union {Op[2]}
      /\ Op[2] \in OnVm' <=> Done /\ Op[1] = "connect"
      /\ ~(test' = "coalesce" /\ ip' = 7) /\ Hides' /\ Chain'
  <2>1. Hides /\ Chain
    BY DEF IInv
  <2>2. CASE Done
    <3>1. /\ Position' /\ Advances /\ pc' \in Testing /\ pc' \notin Midway
          /\ test' = "coalesce" /\ ip' = 7 => Op[1] = "destroy" /\ Op[2] = "new"
      BY <1>1, <1>2, <1>3, <2>2, AfterDone
    <3>2. /\ Needs' \subseteq Needs /\ Lacks' \subseteq Lacks /\ ToDestroy' = ToDestroy
          /\ OnVm' \union {Op[2]} = OnVm \union {Op[2]}
          /\ Op[2] \in OnVm' <=> Op[1] = "connect"
      BY <3>1 DEF Advances
    <3>3. Extra' = Extra /\ (ip' > 0 => ip > 0) /\ test' = test /\ before' = before
      BY <1>2, <2>2, ExtraAfter DEF IInv
    <3>4. Hides' /\ Chain'
      BY <1>2, <1>3, <2>1, <3>3, SameExtra
    <3> QED BY <2>2, <3>1, <3>2, <3>4
  <2>3. CASE Failed /\ ~Done
    <3>1. /\ Position' /\ pc' \in Testing /\ pc' \notin Midway /\ ip' = 0
          /\ ip > 0 => Abandons
          /\ ip = 0 => Advances
      BY <1>1, <1>2, <1>3, <2>3, AfterFailed
    <3>2. /\ Needs' \subseteq Needs /\ Lacks' \subseteq Lacks /\ ToDestroy' = ToDestroy
          /\ OnVm' \union {Op[2]} = OnVm \union {Op[2]} /\ Op[2] \notin OnVm'
      <4>1. CASE ip = 0
        BY <1>1, <3>1, <4>1 DEF Advances, Uses
      <4>2. CASE ip > 0 /\ Op[1] = "connect"
        BY <1>1, <3>1, <4>2 DEF Abandons, Uses
      <4>3. CASE ip > 0 /\ Op[1] = "disconnect"
        BY <1>1, <3>1, <4>3 DEF Abandons, Uses
      <4> QED BY <1>1, <4>1, <4>2, <4>3
    <3>3. Extra = 0
      BY <1>1 DEF Extra
    <3>4. Hides' /\ Chain'
      BY <1>2, <1>3, <2>1, <3>1, <3>3, NoExtra
    <3> QED BY <2>3, <3>1, <3>2, <3>4
  <2> QED BY <2>2, <2>3
<1>7. Counts' /\ Vbd'
  BY <1>1, <1>2, <1>6 DEF IInv, Counts, Vbd, Midway
<1>8. Locals'
  <2>1. Locals /\ local["new"] \notin plugged'
    BY DEF IInv, Locals
  <2> QED BY <1>2, <1>6, <2>1, SameLocals
<1>9. Accounts'
  <2>1. \A v \in Vdi : v # d => SameLists(v)
    BY <1>4, <1>6, OtherDisks
  <2>2. Attached(d)' <=> Op[2] \in OnVm'
    <3>1. OnVm' \subseteq Local
      BY <1>5, <1>6, NamesAreLocal DEF IInv
    <3> QED BY <1>5, <3>1 DEF Attached, Disk
  <2>3. Tidy(d) => Tidy(d)'
    BY <1>6, <2>2 DEF Tidy
  <2> QED BY <1>4, <1>6, <2>1, <2>3, VbdStep
<1> QED
  BY <1>2, <1>6, <1>7, <1>8, <1>9, Together, PTL

LEMMA NamedKeeps == ASSUME IInv, Named PROVE IInv'
<1>1. pc = "named" /\ Done /\ UNCHANGED <<store, plugged, unplugged, listed, Rest, local, seen, faults, vbdFault>>
  BY DEF Named, Rest, machine, ending, failures
<1>2. InTest /\ ip > 0 /\ Op[1] = "connect" /\ pc \in Midway
  BY <1>1 DEF IInv, Place, InTest, Midway
<1>3. PICK d : d = Disk
  OBVIOUS
<1>4. d \in Vdi /\ unplugged \in [Vdi -> Nat] /\ listed \in [Vdi -> Nat]
  BY <1>2, <1>3, OnDisk DEF IInv, Counts
<1>5. ASSUME Attached(d)', Tidy(d) PROVE Calm(d)'
  BY <1>1, <1>2, <1>3, <1>5 DEF Tidy, Calm
<1> QED
  BY <1>1, <1>2, <1>3, <1>4, <1>5, LastCommand

LEMMA UnconnectKeeps == ASSUME IInv, Unconnect PROVE IInv'
<1>1. pc = "unconnect" /\ Failed /\ UNCHANGED <<store, plugged, listed, Rest, local, seen, faults, vbdFault>>
  BY DEF Unconnect, Rest, ending, failures
<1>2. InTest /\ ip > 0 /\ Op[1] = "connect" /\ pc \in Midway
  BY <1>1 DEF IInv, Place, InTest, Midway
<1>3. PICK d : d = Disk
  OBVIOUS
<1>4. d \in Vdi /\ unplugged \in [Vdi -> Nat] /\ listed \in [Vdi -> Nat] /\ unplugged[d] > 0
  BY <1>1, <1>2, <1>3, OnDisk DEF IInv, Counts, Vbd
<1>5. unplugged' = [unplugged EXCEPT ![d] = unplugged[d] - 1]
  BY <1>3 DEF Unconnect
<1>6. unplugged' \in [Vdi -> Nat] /\ unplugged'[d] = unplugged[d] - 1
      /\ \A v \in Vdi : v # d => unplugged'[v] = unplugged[v]
  BY <1>4, <1>5
<1>7. ~Done
  <2> SUFFICES ASSUME Done PROVE FALSE
    OBVIOUS
  <2>1. Advances /\ Abandons
    BY <1>1, <1>2, AllAdvance, BodyFails DEF IInv
  <2>2. Op[2] \notin OnVm
    BY <1>2, AllUses DEF IInv, Uses
  <2> QED BY <1>2, <2>1, <2>2 DEF Advances, Abandons
<1>8. ASSUME ~Attached(d)', Tidy(d) PROVE Calm(d)'
  BY <1>1, <1>2, <1>3, <1>6, <1>8 DEF Tidy, Calm
<1> QED
  BY <1>1, <1>2, <1>3, <1>4, <1>6, <1>7, <1>8, LastCommand

LEMMA VbdUnplugKeeps == ASSUME IInv, VbdUnplug PROVE IInv'
<1>1. Executing("disconnect") /\ UNCHANGED <<store, listed, Rest, local, seen, faults, vbdFault>>
  BY DEF VbdUnplug, Rest, ending, failures
<1>2. /\ pc = "run" /\ InTest /\ (ip > 0 \/ defers # <<>>) /\ Op[1] = "disconnect" /\ pc \in Testing
      /\ pc \notin Midway
  BY <1>1, Executes
<1>3. PICK d : d = Disk
  OBVIOUS
<1>4. /\ d \in Vdi /\ d \in Managed /\ 1 \in Managed /\ Attached(d)
      /\ unplugged \in [Vdi -> Nat] /\ listed \in [Vdi -> Nat]
      /\ faults \in Nat /\ faults <= MaxFaults /\ vbdFault \in BOOLEAN
  BY <1>2, <1>3, OnDisk DEF IInv, Counts, Control, Bounded
<1>5. CASE listed[d] = 0 \/ Vbds(d) # 1
  <2>1. Failed /\ UNCHANGED <<plugged, unplugged>>
    BY <1>3, <1>5 DEF VbdUnplug
  <2>2. ~Tidy(d)
    BY <1>2, <1>4, <1>5 DEF Tidy, Calm, Vbds
  <2> QED BY <1>1, <1>2, <1>3, <1>4, <2>1, <2>2, LastCommand
<1>6. CASE ~(listed[d] = 0 \/ Vbds(d) # 1)
  <2>1. plugged' = plugged \ {d} /\ unplugged' = [unplugged EXCEPT ![d] = 1] /\ Goto("drop")
    BY <1>3, <1>6 DEF VbdUnplug
  <2>2. Managed' = Managed
    BY <1>1, SameStore DEF IInv
  <2>3. Position' /\ Stays /\ pc' = "drop" /\ pc' \in Testing /\ Disk' = d /\ before' = before
    <3>1. "drop" \in Midway
      BY DEF Midway
    <3> QED BY <1>1, <1>2, <1>3, <1>4, <2>1, <2>2, <3>1, AfterGoto
  <2>4. unplugged' \in [Vdi -> Nat] /\ unplugged'[d] = 1 /\ listed[d] > 0
        /\ \A v \in Vdi : v # d => unplugged'[v] = unplugged[v]
    BY <1>4, <1>6, <2>1
  <2>5. Tidy(d) => Tidy(d)'
    BY <1>1, <1>2, <1>4, <2>1, <2>3, <2>4 DEF Tidy, Calm, Midway
  <2> QED BY <1>1, <1>2, <1>3, <1>4, <2>1, <2>3, <2>4, <2>5, NextCommand
<1> QED
  BY <1>5, <1>6

LEMMA VbdDestroyKeeps == ASSUME IInv, VbdDestroy PROVE IInv'
<1>1. pc = "drop" /\ Done /\ UNCHANGED <<store, plugged, Rest, local, seen, faults, vbdFault>>
  BY DEF VbdDestroy, Rest, ending, failures
<1>2. InTest /\ (ip > 0 \/ defers # <<>>) /\ Op[1] = "disconnect" /\ pc \in Midway
  BY <1>1 DEF IInv, Place, InTest, Midway
<1>3. PICK d : d = Disk
  OBVIOUS
<1>4. d \in Vdi /\ unplugged \in [Vdi -> Nat] /\ listed \in [Vdi -> Nat] /\ unplugged[d] > 0 /\ listed[d] > 0
  BY <1>1, <1>2, <1>3, OnDisk DEF IInv, Counts, Vbd
<1>5. unplugged' = [unplugged EXCEPT ![d] = unplugged[d] - 1] /\ listed' = [listed EXCEPT ![d] = listed[d] - 1]
  BY <1>3 DEF VbdDestroy
<1>6. unplugged' \in [Vdi -> Nat] /\ unplugged'[d] = unplugged[d] - 1
      /\ listed' \in [Vdi -> Nat] /\ listed'[d] = listed[d] - 1
      /\ \A v \in Vdi : v # d => unplugged'[v] = unplugged[v] /\ listed'[v] = listed[v]
  BY <1>4, <1>5
<1>7. ASSUME ~Attached(d)', Tidy(d) PROVE Calm(d)'
  BY <1>1, <1>2, <1>3, <1>6, <1>7 DEF Tidy, Calm
<1> QED
  BY <1>1, <1>2, <1>3, <1>4, <1>6, <1>7, LastCommand

-----------------------------------------------------------------------------
\* Between the tests

LEMMA StartKeeps == ASSUME IInv, NEW t \in DOMAIN Body, StartTest(t) PROVE IInv'
<1>1. /\ pc = "idle" /\ test' = t /\ ip' = 1 /\ pc' = "run" /\ before' = Cardinality(Bases(1)) /\ tests' = tests + 1
      /\ UNCHANGED <<store, plugged, unplugged, listed, vm, reused, sr, defers, local, seen, tail, tries, outcome,
                     faults, vbdFault>>
  BY DEF StartTest, machine, failures
<1>2. ~InTest /\ InTest' /\ pc \in Testing /\ pc' \in Testing /\ pc' \notin Midway
  BY <1>1 DEF InTest, Testing, Midway
<1>3. t \in {"coalesce", "write", "export"}
  BY Programs
<1>4. test = "none" /\ ip = 0 /\ defers = <<>>
  BY <1>2 DEF IInv, Place
<1>5. /\ OnVm = {} /\ ToDestroy = {} /\ Needs = {} /\ Lacks = {"src", "dest", "new"} /\ Extra = 0
      /\ pc \notin Midway /\ \A v : ~Attached(v) /\ (Pending(v) <=> v = 1 /\ VdiLeft)
  BY <1>2, OutOfTest DEF IInv, Quiet
<1>6. /\ Store' /\ Leafs' /\ Managed' = Managed /\ Hidden' = Hidden /\ Bases(1)' = Bases(1)
      /\ parent' = parent
  BY <1>1, SameStore DEF IInv
<1>7. 1 \in Managed
  BY <1>2 DEF IInv, Left
<1>8. Bases(1) \subseteq Vdi /\ Cardinality(Bases(1)) \in Nat
  <2>1. Bases(1) \subseteq Vdi
    BY DEF Bases
  <2> QED BY <2>1, SetOfVdis
<1>9. OnVm' = {} /\ ToDestroy' = {} /\ Needs' = {"vdi"} /\ Lacks' \subseteq {"src", "dest", "new"} /\ Extra' = 0
  <2>1. Deferred(defers, "disconnect") = {} /\ Deferred(defers, "destroy") = {}
    BY <1>4, NoneDeferred
  <2>2. OnVm' = {} /\ ToDestroy' = {}
    BY <1>1, <2>1 DEF OnVm, OnVmAt, ToDestroy
  <2>3. Needs' = {"vdi"} /\ Lacks' \subseteq {"src", "dest", "new"} /\ Extra' = 0
    BY <1>1, <1>3 DEF Needs, NeedsAt, Lacks, LacksAt, Extra
  <2> QED BY <2>2, <2>3
<1>10. Position'
  <2>1. Place'
    <3>1. Planned(t, 1) = <<>> /\ 1 <= Size(t)
      BY <1>3 DEF Planned, Size
    <3> QED BY <1>1, <1>2, <1>3, <1>4, <3>1 DEF Place, Midway
  <2>2. Left' /\ Ending'
    <3>1. UNCHANGED <<tail, tries, outcome, sr, vm>> /\ 1 \in Managed' /\ Left
      BY <1>1, <1>6, <1>7 DEF IInv
    <3> QED BY <1>2, <3>1, LeftInTests
  <2>3. Control'
    <3>1. before' \in Nat
      BY <1>1, <1>8
    <3>2. tests' \in Nat
      <4>1. tests \in Nat
        BY DEF IInv, Control
      <4>2. tests' = tests + 1
        BY <1>1
      <4> QED BY <4>1, <4>2
    <3>3. Control
      BY DEF IInv
    <3>4. pc' = "run" /\ UNCHANGED <<vm, reused, sr, local, seen, tries, outcome, faults, vbdFault>>
      BY <1>1
    <3> QED BY <3>1, <3>2, <3>3, <3>4 DEF Control
  <2>4. Bounded'
    BY <1>1 DEF IInv, Bounded
  <2> QED BY <2>1, <2>2, <2>3, <2>4 DEF Position
<1>11. Counts' /\ Vbd'
  BY <1>1, <1>6 DEF IInv, Counts, Vbd
<1>12. Locals'
  BY <1>1, <1>5, <1>6, <1>7, <1>9 DEF IInv, Locals
<1>13. Accounts'
  <2>1. \A v : ~Attached(v)'
    BY <1>9 DEF Attached
  <2>2. \A v \in Vdi : Tidy(v)' <=> Tidy(v)
    BY <1>1, <1>2, <1>5, <2>1, Untouched
  <2>3. \A v : Pending(v) => Pending(v)'
    BY <1>2, <1>5 DEF Pending, VdiLeft
  <2>4. Accounts /\ faults \in Nat
    BY DEF IInv, Control
  <2> QED BY <1>1, <1>6, <2>2, <2>3, <2>4, Steady
<1>14. Hides' /\ Chain'
  <2>1. Hides'
    BY <1>1, <1>5, <1>6, <1>9 DEF IInv, Hides
  <2>2. Chain'
    BY <1>1, <1>6, <1>8, <1>9 DEF Chain
  <2> QED BY <2>1, <2>2
<1> QED
  BY <1>6, <1>10, <1>11, <1>12, <1>13, <1>14, Together, PTL

LEMMA EndKeeps == ASSUME IInv, EndTest PROVE IInv'
<1>1. /\ pc = "run" /\ ip = 0 /\ defers = <<>> /\ pc' = "idle" /\ test' = "none" /\ before' = 0 /\ seen' = NoVdi
      /\ local' = [l \in Local |-> IF l = "vdi" THEN 1 ELSE NoVdi]
      /\ UNCHANGED <<store, plugged, unplugged, listed, Rest, ip, defers, faults, vbdFault>>
  BY DEF EndTest, machine, ending, failures, Rest
<1>2. InTest /\ ~InTest' /\ pc \in Testing /\ pc' \in Testing /\ pc \notin Midway /\ pc' \notin Midway
  BY <1>1 DEF InTest, Testing, Midway
<1>3. OnVm = {} /\ ToDestroy = {}
  <2>1. Deferred(defers, "disconnect") = {} /\ Deferred(defers, "destroy") = {}
    BY <1>1, NoneDeferred
  <2> QED BY <1>1, <2>1 DEF OnVm, OnVmAt, ToDestroy
<1>4. /\ Store' /\ Leafs' /\ Managed' = Managed /\ Hidden' = Hidden /\ Bases(1)' = Bases(1)
      /\ parent' = parent
  BY <1>1, SameStore DEF IInv
<1>5. 1 \in Managed /\ 1 \in Vdi
  BY <1>2 DEF IInv, Left, Managed
<1>6. Position'
  <2>1. Place'
    BY <1>1, <1>2 DEF Place, Midway
  <2>2. Left' /\ Ending'
    BY <1>1, <1>2, <1>4, <1>5, LeftInTests DEF IInv, Rest
  <2>3. Control'
    BY <1>1, <1>5 DEF IInv, Control, Rest
  <2>4. Bounded'
    BY <1>1 DEF IInv, Bounded
  <2> QED BY <2>1, <2>2, <2>3, <2>4 DEF Position
<1>7. /\ OnVm' = {} /\ ToDestroy' = {} /\ Needs' = {} /\ Lacks' = {"src", "dest", "new"} /\ Extra' = 0
      /\ \A v : ~Attached(v)' /\ (Pending(v)' <=> v = 1 /\ VdiLeft')
  <2>1. Place' /\ ~InTest'
    BY <1>2, <1>6 DEF Position
  <2>2. Quiet'
    BY <2>1, OutOfTest, PTL
  <2> QED BY <2>2 DEF Quiet
<1>8. Counts' /\ Vbd'
  BY <1>1, <1>4 DEF IInv, Counts, Vbd
<1>9. Locals'
  <2>1. NoVdi \notin plugged' /\ "new" \in Local /\ "vdi" \in Local
    BY <1>8, <1>4, VdiFinite DEF Counts, Managed, Local
  <2>2. \A l \in Local : local'[l] = IF l = "vdi" THEN 1 ELSE NoVdi
    BY <1>1
  <2>3. \A l \in Lacks' : local'[l] = NoVdi
    BY <1>7, <2>2 DEF Local
  <2> QED BY <1>1, <1>7, <2>1, <2>2, <2>3 DEF Locals
<1>10. Accounts'
  <2>1. \A v : ~Attached(v)
    BY <1>3 DEF Attached
  <2>2. \A v \in Vdi : Tidy(v)' <=> Tidy(v)
    BY <1>1, <1>2, <1>7, <2>1, Untouched
  <2>3. \A v : Pending(v) => Pending(v)'
    BY <1>2, <1>3, <1>7 DEF Pending, VdiLeft
  <2>4. Accounts /\ faults \in Nat
    BY DEF IInv, Control
  <2> QED BY <1>1, <1>4, <2>2, <2>3, <2>4, Steady
<1>11. Hides' /\ Chain'
  <2>1. Hides /\ faults \in Nat
    BY DEF IInv, Control
  <2>2. Extra = 0
    BY <1>1 DEF Extra
  <2> QED BY <1>1, <1>4, <2>1, <2>2, NoExtra
<1> QED
  BY <1>4, <1>6, <1>8, <1>9, <1>10, <1>11, Together, PTL

-----------------------------------------------------------------------------
\* The fixtures

LEMMA AmongAll ==
    /\ \A x, a : Among(x, <<a>>) <=> x = a
    /\ \A x, a, b : Among(x, <<a, b>>) <=> x = a \/ x = b
    /\ \A x, a, b, c : Among(x, <<a, b, c>>) <=> x = a \/ x = b \/ x = c
<1>1. ASSUME NEW x, NEW a PROVE Among(x, <<a>>) <=> x = a
  BY DEF Among
<1>2. ASSUME NEW x, NEW a, NEW b PROVE Among(x, <<a, b>>) <=> x = a \/ x = b
  <2>1. Len(<<a, b>>) = 2 /\ 1..2 = {1, 2}
    OBVIOUS
  <2> QED BY <2>1 DEF Among
<1>3. ASSUME NEW x, NEW a, NEW b, NEW c PROVE Among(x, <<a, b, c>>) <=> x = a \/ x = b \/ x = c
  <2>1. Len(<<a, b, c>>) = 3 /\ 1..3 = {1, 2, 3}
    OBVIOUS
  <2> QED BY <2>1 DEF Among
<1> QED
  BY <1>1, <1>2, <1>3

\* What is left to tear down, and in which order.
Tails == {<<"vm", "vdi", "sr">>, <<"vdi", "vm", "sr">>, <<"vm", "sr">>, <<"vdi", "sr">>, <<"sr">>}

NextTail(t) ==
    /\ Head(t) \in {"vm", "vdi", "sr"}
    /\ Head(t) = "vdi" => /\ Tail(t) \in {<<"vm", "sr">>, <<"sr">>}
                          /\ Among("vm", Tail(t)) <=> Among("vm", t)
                          /\ Among("vdi", t)
                          /\ ~Among("vdi", Tail(t))
    /\ Head(t) = "vm" => /\ t \in {<<"vm", "vdi", "sr">>, <<"vm", "sr">>}
                         /\ Tail(t) \in {<<"vdi", "sr">>, <<"sr">>}
                         /\ Among("vdi", Tail(t)) <=> Among("vdi", t)
                         /\ Among("vm", t)
                         /\ ~Among("vm", Tail(t))
    /\ Head(t) = "sr" => t = <<"sr">> /\ ~Among("vm", t) /\ ~Among("vdi", t)

LEMMA NextTails == ASSUME NEW t \in Tails PROVE NextTail(t)
<1>1. CASE t = <<"vm", "vdi", "sr">>
  <2>1. Head(t) = "vm" /\ Tail(t) = <<"vdi", "sr">>
    BY <1>1
  <2> QED BY <1>1, <2>1, AmongAll DEF NextTail
<1>2. CASE t = <<"vdi", "vm", "sr">>
  <2>1. Head(t) = "vdi" /\ Tail(t) = <<"vm", "sr">>
    BY <1>2
  <2> QED BY <1>2, <2>1, AmongAll DEF NextTail
<1>3. CASE t = <<"vm", "sr">>
  <2>1. Head(t) = "vm" /\ Tail(t) = <<"sr">>
    BY <1>3
  <2> QED BY <1>3, <2>1, AmongAll DEF NextTail
<1>4. CASE t = <<"vdi", "sr">>
  <2>1. Head(t) = "vdi" /\ Tail(t) = <<"sr">>
    BY <1>4
  <2> QED BY <1>4, <2>1, AmongAll DEF NextTail
<1>5. CASE t = <<"sr">>
  <2>1. Head(t) = "sr"
    BY <1>5
  <2> QED BY <1>5, <2>1, AmongAll DEF NextTail
<1> QED
  BY <1>1, <1>2, <1>3, <1>4, <1>5 DEF Tails

\* No test runs, before and after.
LEMMA Winds ==
  ASSUME IInv, ~InTest, pc' \notin Midway, pc' # "run", UNCHANGED program, plugged' \subseteq plugged,
         Hidden' \subseteq Hidden, faults' \in {faults, faults + 1}
  PROVE  /\ Place' /\ Locals' /\ Hides' /\ Chain' /\ pc \notin Midway
         /\ \A v : ~Attached(v) /\ ~Attached(v)'
         /\ \A v : (Pending(v) <=> v = 1 /\ VdiLeft) /\ (Pending(v)' <=> v = 1 /\ VdiLeft')
<1>1. UNCHANGED <<test, ip, defers, local, seen, before>> /\ ~InTest'
  BY DEF program, InTest
<1>2. test = "none" /\ ip = 0 /\ defers = <<>>
  BY DEF IInv, Place
<1>3. Place'
  BY <1>1, <1>2 DEF Place, Midway
<1>4. /\ OnVm = {} /\ ToDestroy = {} /\ Needs = {} /\ Lacks = {"src", "dest", "new"} /\ Extra = 0
      /\ pc \notin Midway /\ \A v : ~Attached(v) /\ (Pending(v) <=> v = 1 /\ VdiLeft)
  BY OutOfTest DEF IInv, Quiet
<1>5. /\ OnVm' = {} /\ ToDestroy' = {} /\ Needs' = {} /\ Lacks' = {"src", "dest", "new"} /\ Extra' = 0
      /\ \A v : ~Attached(v)' /\ (Pending(v)' <=> v = 1 /\ VdiLeft')
  <2>1. ~InTest'
    BY <1>1
  <2>2. Quiet'
    BY <1>3, <2>1, OutOfTest, PTL
  <2> QED BY <2>2 DEF Quiet
<1>6. Locals'
  BY <1>1, <1>2, <1>4, <1>5 DEF IInv, Locals
<1>7. Hides' /\ Chain'
  BY <1>1, <1>2, <1>4, NoExtra DEF IInv, Control
<1> QED
  BY <1>3, <1>4, <1>5, <1>6, <1>7

\* The accounts of the teardown: a disk that is left alone, or goes, is not owed.
LEMMA WindsSteady ==
  ASSUME IInv, ~InTest, pc \notin Midway, pc' \notin Midway, faults' = faults, Managed' \subseteq Managed,
         \A v : ~Attached(v) /\ ~Attached(v)',
         \A v : (Pending(v) <=> v = 1 /\ VdiLeft) /\ (Pending(v)' <=> v = 1 /\ VdiLeft'),
         \A v \in Vdi : v \notin plugged /\ unplugged[v] = 0 /\ listed[v] = 0 =>
                          v \notin plugged' /\ unplugged'[v] = 0 /\ listed'[v] = 0,
         1 \in Managed' /\ 1 \notin plugged /\ VdiLeft => VdiLeft'
  PROVE  Accounts'
<1>1. \A v \in Vdi : Tidy(v) <=> v \notin plugged /\ unplugged[v] = 0 /\ listed[v] = 0
  BY DEF Tidy, Calm
<1>2. \A v \in Vdi : Tidy(v)' <=> v \notin plugged' /\ unplugged'[v] = 0 /\ listed'[v] = 0
  BY DEF Tidy, Calm
<1>3. \A v \in Vdi : Tidy(v) => Tidy(v)'
  BY <1>1, <1>2
<1>4. \A v \in Managed' : v \in Managed /\ Tidy(v) /\ Pending(v) => Pending(v)'
  BY <1>1 DEF Managed
<1>5. Accounts /\ faults \in Nat
  BY DEF IInv, Control
<1> QED
  BY <1>3, <1>4, <1>5, Steady

LEMMA EndModuleKeeps == ASSUME IInv, EndModule PROVE IInv'
<1>1. /\ pc = "idle" /\ tail' \in {<<"vm", "vdi", "sr">>, <<"vdi", "vm", "sr">>} /\ pc' = "teardown"
      /\ UNCHANGED <<store, plugged, unplugged, listed, vm, reused, sr, program, tries, outcome, tests, faults, vbdFault>>
  BY DEF EndModule, machine, failures
<1>2. /\ ~InTest /\ pc' \notin Midway /\ pc' # "run" /\ pc \in Testing
      /\ pc' \notin Testing
  BY <1>1 DEF InTest, Midway, Testing
<1>3. /\ Store' /\ Leafs' /\ Managed' = Managed /\ Hidden' = Hidden /\ Bases(1)' = Bases(1)
      /\ parent' = parent
  BY <1>1, SameStore DEF IInv
<1>4. /\ Place' /\ Locals' /\ Hides' /\ Chain' /\ pc \notin Midway
      /\ \A v : ~Attached(v) /\ ~Attached(v)'
      /\ \A v : (Pending(v) <=> v = 1 /\ VdiLeft) /\ (Pending(v)' <=> v = 1 /\ VdiLeft')
  BY <1>1, <1>2, <1>3, Winds
<1>5. Among("vdi", tail') /\ Among("vm", tail')
  BY <1>1, AmongAll
<1>6. Left'
  BY <1>1, <1>2 DEF Left
<1>7. Ending'
  <2>1. vm = "running" /\ outcome = "none"
    BY <1>2 DEF IInv, Left
  <2> QED BY <1>1, <1>5, <2>1 DEF Ending
<1>8. Position'
  BY <1>1, <1>4, <1>6, <1>7 DEF IInv, Control, Bounded, Position, program
<1>9. Counts' /\ Vbd'
  BY <1>1, <1>3 DEF IInv, Counts, Vbd
<1>10. Accounts'
  BY <1>1, <1>2, <1>3, <1>4, <1>5, WindsSteady DEF VdiLeft
<1> QED
  BY <1>3, <1>4, <1>8, <1>9, <1>10, Together, PTL

\* The next fixture is torn down.
LEMMA OnToNext ==
  ASSUME IInv, Place', pc \in {"teardown", "disks"}, pc' = "teardown", tail' \in Tails,
         UNCHANGED <<sr, tries, outcome, tests, reused, program, faults, vbdFault>>,
         vm' \in {"running", "halted", "gone"},
         faults = 0 => /\ reused => vm' = "running"
                       /\ ~reused => vm' = IF Among("vm", tail') THEN "running" ELSE "gone"
  PROVE  Position'
<1>1. outcome = "none"
  BY DEF IInv, Ending
<1>2. Left'
  BY DEF Left, Testing, Tails
<1>3. Ending'
  BY <1>1 DEF Ending
<1>4. Control' /\ Bounded'
  <2>1. UNCHANGED <<local, seen, before>>
    BY DEF program
  <2> QED BY <2>1 DEF IInv, Control, Bounded
<1> QED
  BY <1>2, <1>3, <1>4 DEF Position

LEMMA InTeardown ==
  ASSUME IInv, pc \in {"teardown", "disks"}
  PROVE  /\ ~InTest /\ tail \in Tails /\ NextTail(tail) /\ pc \notin Testing
         /\ pc = "disks" => ~reused /\ plugged = {} /\ Head(tail) = "vm"
<1>1. ~InTest /\ tail \in Tails /\ pc \notin Testing
  BY DEF IInv, Left, InTest, Midway, Tails, Testing
<1>2. pc = "disks" => ~reused /\ plugged = {} /\ Head(tail) = "vm"
  BY DEF IInv, Left
<1> QED
  BY <1>1, <1>2, NextTails

LEMMA TeardownVdiKeeps == ASSUME IInv, TeardownVdi PROVE IInv'
<1>1. /\ pc = "teardown" /\ Head(tail) = "vdi" /\ tail' = Tail(tail) /\ pc' = "teardown"
      /\ UNCHANGED <<plugged, listed, vm, reused, sr, program, tries, outcome, tests, faults, vbdFault>>
      /\ IF CanDestroy(1) THEN Destroyed(1) ELSE UNCHANGED <<kind, parent, unplugged>>
  BY DEF TeardownVdi, Next1, failures
<1>2. ~InTest /\ NextTail(tail) /\ pc \notin Testing /\ pc' \notin Midway /\ pc' # "run" /\ pc' \notin Testing
  BY <1>1, InTeardown DEF Midway, Testing
<1>3. /\ tail' \in Tails /\ (Among("vm", tail') <=> Among("vm", tail)) /\ ~Among("vdi", tail')
  BY <1>1, <1>2 DEF NextTail, Tails
<1>4. unplugged \in [Vdi -> Nat] /\ plugged \subseteq Managed /\ listed \in [Vdi -> Nat] /\ Store /\ Leafs
  BY DEF IInv, Counts
<1>5. /\ Store' /\ Leafs' /\ Hidden' = Hidden /\ unplugged' \in [Vdi -> Nat]
      /\ Managed' = Managed \ (IF CanDestroy(1) THEN {1} ELSE {})
      /\ CanDestroy(1) => unplugged'[1] = 0
      /\ \A w \in Vdi : unplugged'[w] = unplugged[w] \/ unplugged'[w] = 0
  <2>1. CASE CanDestroy(1)
    <3>1. 1 \in Managed /\ Destroyed(1)
      BY <1>1, <2>1 DEF CanDestroy
    <3>2. /\ Store' /\ Leafs' /\ Managed' = Managed \ {1} /\ Hidden' = Hidden
          /\ unplugged' \in [Vdi -> Nat] /\ unplugged'[1] = 0
          /\ \A w \in Vdi \ {1} : unplugged'[w] = unplugged[w]
      BY <1>4, <3>1, Freed
    <3> QED BY <2>1, <3>2
  <2>2. CASE ~CanDestroy(1)
    <3>1. UNCHANGED store /\ unplugged' = unplugged
      BY <1>1, <2>2 DEF store
    <3> QED BY <1>4, <2>2, <3>1, SameStore
  <2> QED BY <2>1, <2>2
<1>6. /\ Place' /\ Locals' /\ Hides' /\ Chain' /\ pc \notin Midway
      /\ \A v : ~Attached(v) /\ ~Attached(v)'
      /\ \A v : (Pending(v) <=> v = 1 /\ VdiLeft) /\ (Pending(v)' <=> v = 1 /\ VdiLeft')
  BY <1>1, <1>2, <1>5, Winds
<1>7. Position'
  <2>1. /\ faults = 0 => /\ reused => vm = "running"
                         /\ ~reused => vm = IF Among("vm", tail) THEN "running" ELSE "gone"
        /\ vm \in {"running", "halted", "gone"}
    BY <1>1 DEF IInv, Ending, Control
  <2> QED BY <1>1, <1>3, <1>6, <2>1, OnToNext
<1>8. Counts'
  <2>1. plugged' \subseteq Managed'
    BY <1>1, <1>4, <1>5 DEF CanDestroy
  <2> QED BY <1>1, <1>4, <1>5, <2>1 DEF Counts
<1>9. Vbd'
  <2>1. \A v \in Vdi : v \notin Managed => unplugged[v] = 0
    BY DEF IInv, Vbd
  <2>2. \A v \in Vdi : v \notin Managed' => unplugged'[v] = 0
    BY <1>5, <2>1
  <2> QED BY <1>1, <2>2 DEF Vbd
<1>10. Accounts'
  <2>1. ~(1 \in Managed' /\ 1 \notin plugged)
    BY <1>5 DEF CanDestroy
  <2>2. Managed' \subseteq Managed
    BY <1>5
  <2>3. \A v \in Vdi : v \notin plugged /\ unplugged[v] = 0 /\ listed[v] = 0 =>
                          v \notin plugged' /\ unplugged'[v] = 0 /\ listed'[v] = 0
    BY <1>1, <1>5
  <2> QED BY <1>1, <1>2, <1>6, <2>1, <2>2, <2>3, WindsSteady
<1> QED
  BY <1>5, <1>6, <1>7, <1>8, <1>9, <1>10, Together, PTL

LEMMA TeardownVmKeeps == ASSUME IInv, TeardownVm PROVE IInv'
<1>1. /\ pc = "teardown" /\ Head(tail) = "vm"
      /\ UNCHANGED <<store, listed, reused, sr, program, tries, outcome, tests, faults, vbdFault>>
  BY DEF TeardownVm, failures
<1>2. ~InTest /\ NextTail(tail) /\ pc \notin Testing
  BY <1>1, InTeardown
<1>3. /\ Store' /\ Leafs' /\ Managed' = Managed /\ Hidden' = Hidden /\ Bases(1)' = Bases(1)
      /\ parent' = parent
  BY <1>1, SameStore DEF IInv
<1>4. unplugged \in [Vdi -> Nat] /\ plugged \subseteq Managed /\ listed \in [Vdi -> Nat]
      /\ \A v \in Vdi : v \notin Managed => unplugged[v] = 0
  BY DEF IInv, Counts, Vbd
<1>5. CASE reused
  <2>1. tail' = Tail(tail) /\ pc' = "teardown" /\ UNCHANGED <<plugged, unplugged, vm>>
    BY <1>5 DEF TeardownVm, Next1
  <2>2. tail' \in Tails /\ (Among("vdi", tail') <=> Among("vdi", tail)) /\ pc' \notin Midway /\ pc' # "run"
    BY <1>1, <1>2, <2>1 DEF NextTail, Tails, Midway
  <2>3. /\ Place' /\ Locals' /\ Hides' /\ Chain' /\ pc \notin Midway
        /\ \A v : ~Attached(v) /\ ~Attached(v)'
        /\ \A v : (Pending(v) <=> v = 1 /\ VdiLeft) /\ (Pending(v)' <=> v = 1 /\ VdiLeft')
    BY <1>1, <1>2, <1>3, <2>1, <2>2, Winds
  <2>4. Position'
    <3>1. (faults = 0 => vm = "running") /\ vm \in {"running", "halted", "gone"}
      BY <1>5 DEF IInv, Ending, Control
    <3> QED BY <1>1, <1>5, <2>1, <2>2, <2>3, <3>1, OnToNext
  <2>5. Counts' /\ Vbd'
    BY <1>1, <1>3, <1>4, <2>1 DEF Counts, Vbd
  <2>6. Accounts'
    <3>1. VdiLeft => VdiLeft'
      BY <1>2, <2>2 DEF VdiLeft
    <3>2. \A v \in Vdi : v \notin plugged /\ unplugged[v] = 0 /\ listed[v] = 0 =>
                            v \notin plugged' /\ unplugged'[v] = 0 /\ listed'[v] = 0
      BY <1>1, <2>1
    <3> QED BY <1>1, <1>2, <1>3, <2>2, <2>3, <3>1, <3>2, WindsSteady
  <2> QED BY <1>3, <2>3, <2>4, <2>5, <2>6, Together, PTL
<1>6. CASE ~reused
  <2>1. /\ unplugged' = [v \in Vdi |-> Vbds(v)] /\ plugged' = {} /\ vm' = "halted" /\ pc' = "disks" /\ tail' = tail
    BY <1>6 DEF TeardownVm
  <2>2. pc' \notin Midway /\ pc' # "run" /\ pc' \notin Testing
    BY <2>1 DEF Midway, Testing
  <2>3. /\ Place' /\ Locals' /\ Hides' /\ Chain' /\ pc \notin Midway
        /\ \A v : ~Attached(v) /\ ~Attached(v)'
        /\ \A v : (Pending(v) <=> v = 1 /\ VdiLeft) /\ (Pending(v)' <=> v = 1 /\ VdiLeft')
    BY <1>1, <1>2, <1>3, <2>1, <2>2, Winds
  <2>4. Position'
    <3>1. Left'
      BY <1>1, <1>2, <1>6, <2>1, <2>2 DEF NextTail, Left
    <3>2. Ending'
      <4>1. outcome = "none"
        BY <1>1 DEF IInv, Ending
      <4> QED BY <1>1, <1>6, <2>1, <4>1 DEF Ending
    <3>3. Control' /\ Bounded'
      BY <1>1, <2>1 DEF IInv, Control, Bounded, program
    <3> QED BY <2>3, <3>1, <3>2, <3>3 DEF Position
  <2>5. \A v \in Vdi : unplugged'[v] \in Nat /\ (v \notin plugged => unplugged'[v] = unplugged[v])
    BY <1>4, <2>1 DEF Vbds
  <2>6. Counts'
    BY <1>1, <1>4, <2>1, <2>5 DEF Counts
  <2>7. Vbd'
    BY <1>3, <1>4, <2>1, <2>5 DEF Vbd
  <2>8. Accounts'
    <3>1. VdiLeft => VdiLeft'
      BY <1>2, <2>1 DEF VdiLeft
    <3>2. \A v \in Vdi : v \notin plugged /\ unplugged[v] = 0 /\ listed[v] = 0 =>
                            v \notin plugged' /\ unplugged'[v] = 0 /\ listed'[v] = 0
      BY <1>1, <2>1, <2>5
    <3> QED BY <1>1, <1>2, <1>3, <2>2, <2>3, <3>1, <3>2, WindsSteady
  <2> QED BY <1>3, <2>3, <2>4, <2>6, <2>7, <2>8, Together, PTL
<1> QED
  BY <1>5, <1>6

LEMMA VmDestroyVdiKeeps == ASSUME IInv, VmDestroyVdi PROVE IInv'
<1>1. /\ pc = "disks" /\ Disks # {} /\ UNCHANGED <<plugged, vm, reused, sr, program, pc, Rest, faults, vbdFault>>
  BY DEF VmDestroyVdi, ending, failures, Rest
<1>2. ~InTest /\ pc \notin Testing /\ pc' \notin Midway /\ pc' # "run" /\ plugged = {}
  BY <1>1, InTeardown DEF Midway
<1>3. PICK d \in Disks : Destroyed(d) /\ listed' = [listed EXCEPT ![d] = listed[d] - 1]
  <2>1. Disks \in SUBSET Nat
    BY VdiFinite DEF Disks
  <2> QED BY <1>1, <2>1, LeastIn DEF VmDestroyVdi
<1>4. unplugged \in [Vdi -> Nat] /\ plugged \subseteq Managed /\ listed \in [Vdi -> Nat] /\ Store /\ Leafs
      /\ \A v \in Vdi : v \notin Managed => unplugged[v] = 0
  BY DEF IInv, Counts, Vbd
<1>5. d \in Vdi /\ unplugged[d] > 0 /\ listed[d] > 0 /\ d \in Managed
  BY <1>4 DEF Disks
<1>6. /\ Store' /\ Leafs' /\ Managed' = Managed \ {d} /\ Hidden' = Hidden
      /\ unplugged' \in [Vdi -> Nat] /\ unplugged'[d] = 0
      /\ \A w \in Vdi \ {d} : unplugged'[w] = unplugged[w]
  BY <1>3, <1>4, <1>5, Freed
<1>7. listed' \in [Vdi -> Nat] /\ \A w \in Vdi \ {d} : listed'[w] = listed[w]
  BY <1>3, <1>4, <1>5
<1>8. /\ Place' /\ Locals' /\ Hides' /\ Chain' /\ pc \notin Midway
      /\ \A v : ~Attached(v) /\ ~Attached(v)'
      /\ \A v : (Pending(v) <=> v = 1 /\ VdiLeft) /\ (Pending(v)' <=> v = 1 /\ VdiLeft')
  BY <1>1, <1>2, <1>6, Winds
<1>9. Position'
  <2>1. Left'
    BY <1>1, <1>2 DEF IInv, Left, Rest
  <2>2. Ending'
    BY <1>1 DEF IInv, Ending, Rest
  <2>3. Control' /\ Bounded'
    BY <1>1 DEF IInv, Control, Bounded, Rest, program
  <2> QED BY <1>8, <2>1, <2>2, <2>3 DEF Position
<1>10. Counts' /\ Vbd'
  <2>1. Counts'
    BY <1>1, <1>2, <1>6, <1>7 DEF Counts
  <2>2. Vbd'
    BY <1>1, <1>4, <1>6 DEF Vbd
  <2> QED BY <2>1, <2>2
<1>11. Accounts'
  <2>1. VdiLeft' = VdiLeft
    BY <1>1 DEF VdiLeft, Rest
  <2>2. \A v \in Vdi : v \notin plugged /\ unplugged[v] = 0 /\ listed[v] = 0 =>
                          v \notin plugged' /\ unplugged'[v] = 0 /\ listed'[v] = 0
    BY <1>1, <1>5, <1>6, <1>7
  <2>3. Managed' \subseteq Managed
    BY <1>6
  <2> QED BY <1>1, <1>2, <1>8, <2>1, <2>2, <2>3, WindsSteady
<1> QED
  BY <1>6, <1>8, <1>9, <1>10, <1>11, Together, PTL

LEMMA VmDestroyKeeps == ASSUME IInv, VmDestroy PROVE IInv'
<1>1. /\ pc = "disks" /\ vm' = "gone" /\ unplugged' = [v \in Vdi |-> 0] /\ tail' = Tail(tail) /\ pc' = "teardown"
      /\ UNCHANGED <<store, plugged, listed, reused, sr, program, tries, outcome, tests, faults, vbdFault>>
  BY DEF VmDestroy, Next1, failures
<1>2. /\ ~InTest /\ NextTail(tail) /\ pc \notin Testing /\ ~reused /\ Head(tail) = "vm"
      /\ pc' \notin Midway /\ pc' # "run"
  BY <1>1, InTeardown DEF Midway
<1>3. /\ Store' /\ Leafs' /\ Managed' = Managed /\ Hidden' = Hidden /\ Bases(1)' = Bases(1)
      /\ parent' = parent
  BY <1>1, SameStore DEF IInv
<1>4. /\ tail' \in Tails /\ (Among("vdi", tail') <=> Among("vdi", tail)) /\ ~Among("vm", tail')
  BY <1>1, <1>2 DEF NextTail, Tails
<1>5. /\ Place' /\ Locals' /\ Hides' /\ Chain' /\ pc \notin Midway
      /\ \A v : ~Attached(v) /\ ~Attached(v)'
      /\ \A v : (Pending(v) <=> v = 1 /\ VdiLeft) /\ (Pending(v)' <=> v = 1 /\ VdiLeft')
  BY <1>1, <1>2, <1>3, Winds
<1>6. Position'
  BY <1>1, <1>2, <1>4, <1>5, OnToNext
<1>7. Counts' /\ Vbd'
  BY <1>1, <1>3 DEF IInv, Counts, Vbd
<1>8. Accounts'
  <2>1. VdiLeft => VdiLeft'
    BY <1>2, <1>4 DEF VdiLeft
  <2>2. \A v \in Vdi : v \notin plugged /\ unplugged[v] = 0 /\ listed[v] = 0 =>
                          v \notin plugged' /\ unplugged'[v] = 0 /\ listed'[v] = 0
    BY <1>1
  <2> QED BY <1>1, <1>2, <1>3, <1>5, <2>1, <2>2, WindsSteady
<1> QED
  BY <1>3, <1>5, <1>6, <1>7, <1>8, Together, PTL

-----------------------------------------------------------------------------
\* SR.destroy

\* When the fixtures are torn down, the disks there are were owed.
LEMMA OnlyOwed ==
  ASSUME IInv, ~InTest, pc \notin Testing, tail = <<"sr">>
  PROVE  /\ Cardinality(Managed) <= faults /\ Cardinality(Hidden) <= faults
         /\ ~Among("vdi", tail) /\ ~Among("vm", tail)
         /\ faults = 0 => /\ Managed = {} /\ Hidden = {} /\ plugged = {}
                          /\ \A v \in Vdi : unplugged[v] = 0 /\ listed[v] = 0
<1>1. ~Among("vdi", tail) /\ ~Among("vm", tail)
  BY AmongAll
<1>2. /\ Extra = 0 /\ pc \notin Midway /\ \A v : ~Attached(v) /\ (Pending(v) <=> v = 1 /\ VdiLeft)
  BY OutOfTest DEF IInv, Quiet
<1>3. Owed = Managed
  BY <1>1, <1>2 DEF Owed, VdiLeft
<1>4. Cardinality(Managed) <= faults /\ faults \in Nat
  BY <1>3 DEF IInv, Accounts, Control
<1>5. Cardinality(Hidden) <= faults
  BY <1>2, <1>4 DEF IInv, Hides
<1>6. ASSUME faults = 0 PROVE Managed = {} /\ Hidden = {}
  <2>1. Managed \in SUBSET Vdi /\ Hidden \in SUBSET Vdi
    BY DEF Managed, Hidden
  <2> QED BY <1>4, <1>5, <1>6, <2>1, Nothing
<1>7. ASSUME faults = 0 PROVE plugged = {} /\ \A v \in Vdi : unplugged[v] = 0 /\ listed[v] = 0
  <2>1. \A v \in Vdi : Tidy(v)
    BY <1>7 DEF IInv, Accounts
  <2>2. \A v \in Vdi : v \notin plugged /\ unplugged[v] = 0 /\ listed[v] = 0
    BY <1>2, <2>1 DEF Tidy, Calm
  <2>3. plugged \subseteq Vdi
    BY DEF IInv, Counts, Managed
  <2> QED BY <2>2, <2>3
<1> QED
  BY <1>1, <1>4, <1>5, <1>6, <1>7

\* The state of the SR is all that changes.
LEMMA SrStep ==
  ASSUME IInv, ~InTest, pc \notin Testing, tail = <<"sr">>, pc' \in {"attempt", "replug", "done"}, tail' = tail,
         UNCHANGED <<plugged, unplugged, listed, vm, reused, program, tests, faults, vbdFault>>,
         Store', Leafs', Managed' = Managed, Hidden' \subseteq Hidden,
         sr' \in {"plugged", "unplugged", "gone"}, tries' \in 0..5, tries' > 0,
         outcome' \in {"none", "destroyed", "not empty", "error"}, Ending'
  PROVE  IInv'
<1>1. pc' \notin Midway /\ pc' # "run" /\ pc' \notin Testing
  BY DEF Midway, Testing
<1>2. /\ Place' /\ Locals' /\ Hides' /\ Chain' /\ pc \notin Midway
      /\ \A v : ~Attached(v) /\ ~Attached(v)'
      /\ \A v : (Pending(v) <=> v = 1 /\ VdiLeft) /\ (Pending(v)' <=> v = 1 /\ VdiLeft')
  BY <1>1, Winds
<1>3. Left'
  <2>1. tail' = <<"sr">> /\ tries' > 0 /\ pc' \notin {"teardown", "disks"}
    BY Zenon
  <2> QED BY <1>1, <2>1, Zenon DEF Left
<1>4. Position'
  <2>1. UNCHANGED <<local, seen, before>>
    BY DEF program
  <2>2. Control /\ Bounded
    BY DEF IInv
  <2>4. Control'
    BY <2>1, <2>2 DEF Control
  <2>5. Bounded'
    BY <2>2 DEF Bounded
  <2> QED BY <1>2, <1>3, <2>4, <2>5 DEF Position
<1>5. Counts' /\ Vbd'
  BY <1>1 DEF IInv, Counts, Vbd, Midway
<1>6. Accounts'
  <2>1. VdiLeft => VdiLeft'
    BY DEF VdiLeft
  <2>2. \A v \in Vdi : v \notin plugged /\ unplugged[v] = 0 /\ listed[v] = 0 =>
                          v \notin plugged' /\ unplugged'[v] = 0 /\ listed'[v] = 0
    OBVIOUS
  <2> QED BY <1>1, <1>2, <2>1, <2>2, WindsSteady
<1> QED
  BY <1>2, <1>4, <1>5, <1>6, Together, PTL

LEMMA TeardownSrKeeps == ASSUME IInv, TeardownSr PROVE IInv'
<1>1. /\ pc = "teardown" /\ Head(tail) = "sr" /\ tries' = 1 /\ pc' = "attempt"
      /\ UNCHANGED <<store, plugged, unplugged, listed, vm, reused, sr, program, tail, outcome, tests, faults, vbdFault>>
  BY DEF TeardownSr, machine, failures
<1>2. ~InTest /\ pc \notin Testing /\ tail = <<"sr">>
  BY <1>1, InTeardown DEF NextTail
<1>3. /\ Cardinality(Hidden) <= faults /\ ~Among("vm", tail) /\ faults \in Nat /\ faults <= MaxFaults
      /\ Cardinality(Hidden) \in Nat /\ MaxFaults \in Nat
  <2>1. Hidden \in SUBSET Vdi
    BY DEF Hidden
  <2> QED BY <1>2, <2>1, OnlyOwed, SetOfVdis, BoundAssumption DEF IInv, Control, Bounded
<1>4. /\ Store' /\ Leafs' /\ Managed' = Managed /\ Hidden' = Hidden
  BY <1>1, SameStore DEF IInv
<1>5. Ending'
  <2>1. outcome = "none" /\ (faults = 0 => IF reused THEN vm = "running" ELSE vm = "gone")
    BY <1>1, <1>3 DEF IInv, Ending
  <2>2. MaxFaults <= MaxTries => Cardinality(Hidden') + tries' <= MaxTries + 1
    BY <1>1, <1>3, <1>4 DEF MaxTries
  <2> QED BY <1>1, <2>1, <2>2 DEF Ending
<1>6. /\ sr' \in {"plugged", "unplugged", "gone"} /\ tries' \in 0..5 /\ tries' > 0
      /\ outcome' \in {"none", "destroyed", "not empty", "error"}
  <2>1. Control
    BY DEF IInv
  <2>2. sr' = sr /\ outcome' = outcome /\ tries' = 1
    BY <1>1
  <2>3. sr' \in {"plugged", "unplugged", "gone"} /\ outcome' \in {"none", "destroyed", "not empty", "error"}
    BY <2>1, <2>2, Zenon DEF Control
  <2>4. tries' \in 0..5 /\ tries' > 0
    BY <2>2
  <2> QED BY <2>3, <2>4, Zenon
<1> QED
  BY <1>1, <1>2, <1>4, <1>5, <1>6, SrStep

LEMMA InSrDestroy ==
  ASSUME IInv, pc \in {"attempt", "replug"}
  PROVE  /\ ~InTest /\ pc \notin Testing /\ tail = <<"sr">> /\ tries \in 0..5 /\ tries > 0 /\ outcome = "none"
         /\ Store /\ Leafs /\ sr \in {"plugged", "unplugged", "gone"}
         /\ Cardinality(Hidden) \in Nat /\ Hidden \subseteq Vdi /\ Managed \subseteq Vdi
<1>1. ~InTest /\ pc \notin Testing
  BY DEF InTest, Midway, Testing
<1>2. tail = <<"sr">> /\ tries \in 0..5 /\ tries > 0 /\ outcome = "none" /\ sr \in {"plugged", "unplugged", "gone"}
  <2>1. Left /\ Control /\ Ending
    BY DEF IInv
  <2>2. tail = <<"sr">>
    BY <2>1, Zenon DEF Left
  <2>3. tries > 0
    BY <2>1, Zenon DEF Left
  <2>4. tries \in 0..5 /\ sr \in {"plugged", "unplugged", "gone"}
    BY <2>1 DEF Control
  <2>5. outcome = "none"
    BY <2>1 DEF Ending
  <2> QED BY <2>2, <2>3, <2>4, <2>5, Zenon
<1>3. Hidden \in SUBSET Vdi /\ Managed \subseteq Vdi
  BY DEF Hidden, Managed
<1> QED
  BY <1>1, <1>2, <1>3, SetOfVdis DEF IInv

LEMMA SrDestroyKeeps == ASSUME IInv, SrDestroy PROVE IInv'
<1>1. /\ pc = "attempt"
      /\ UNCHANGED <<plugged, unplugged, listed, vm, reused, program, tail, tries, tests, faults, vbdFault>>
  BY DEF SrDestroy, machine, failures
<1>2. /\ ~InTest /\ pc \notin Testing /\ tail = <<"sr">> /\ tries \in 0..5 /\ tries > 0 /\ outcome = "none"
      /\ Store /\ Leafs /\ sr \in {"plugged", "unplugged", "gone"}
      /\ Cardinality(Hidden) \in Nat /\ Hidden \subseteq Vdi /\ Managed \subseteq Vdi
  BY <1>1, InSrDestroy
<1>3. faults = 0 => Managed = {} /\ Hidden = {} /\ plugged = {}
  BY <1>2, OnlyOwed
<1>4. /\ faults = 0 => IF reused THEN vm = "running" ELSE vm = "gone"
      /\ MaxFaults <= MaxTries /\ Managed = {} => Cardinality(Hidden) + tries <= MaxTries + 1
  BY <1>1 DEF IInv, Ending
<1>5. CASE plugged # {}
  <2>1. outcome' = "error" /\ pc' = "done" /\ UNCHANGED <<store, sr>>
    BY <1>5 DEF SrDestroy, GiveUp
  <2>2. /\ Store' /\ Leafs' /\ Managed' = Managed /\ Hidden' = Hidden
    BY <2>1, SameStore DEF IInv
  <2>3. Ending'
    BY <1>1, <1>3, <1>5, <2>1 DEF Ending
  <2> QED BY <1>1, <1>2, <2>1, <2>2, <2>3, SrStep
<1>6. CASE plugged = {}
  <2>1. PICK s : s = {v \in Hidden : Children(v) = {}}
    OBVIOUS
  <2>2. /\ kind' = [v \in Vdi |-> IF v \in s THEN "free" ELSE kind[v]]
        /\ parent' = [v \in Vdi |-> IF v \in s THEN NoVdi ELSE parent[v]]
        /\ IF Managed \union (Hidden \ s) = {}
           THEN sr' = "gone" /\ outcome' = "destroyed" /\ pc' = "done"
           ELSE sr' = "unplugged" /\ pc' = "replug" /\ outcome' = outcome
    BY <1>6, <2>1 DEF SrDestroy, GiveUp
  <2>3. s \in SUBSET Vdi /\ s \subseteq Hidden /\ \A b \in s : Children(b) = {}
    BY <1>2, <2>1
  <2>4. Store' /\ Leafs' /\ Managed' = Managed \ s /\ Hidden' = Hidden \ s
    BY <1>2, <2>2, <2>3, Emptied
  <2>5. Managed' = Managed
    BY <2>3, <2>4 DEF Managed, Hidden
  <2>6. ASSUME Managed = {}, Hidden # {} PROVE Cardinality(Hidden') <= Cardinality(Hidden) - 1
    <3>1. PICK b \in Hidden : \A w \in Hidden : parent[w] # b
      BY <1>2, <2>6 DEF Leafs
    <3>2. Children(b) = {}
      BY <2>6, <3>1 DEF Children, Managed, Hidden, IInv, Store
    <3>3. Hidden' \subseteq Hidden \ {b}
      BY <2>1, <2>4, <3>1, <3>2
    <3>4. Hidden \in SUBSET Vdi /\ Hidden' \in SUBSET (Hidden \ {b})
      BY <1>2, <3>3
    <3> HIDE DEF Hidden
    <3> QED BY <3>1, <3>4, OneLess
  <2>7. Cardinality(Hidden') \in Nat
    <3>1. Hidden' \in SUBSET Vdi
      BY <1>2, <2>4
    <3> QED BY <3>1, SetOfVdis
  <2>8. Ending'
    <3>1. CASE Managed \union (Hidden \ s) = {}
      BY <1>1, <1>4, <2>2, <3>1 DEF Ending
    <3>2. CASE Managed \union (Hidden \ s) # {}
      <4>1. faults # 0
        BY <1>3, <3>2
      <4>2. Managed = {} => Hidden' # {} /\ Hidden # {}
        BY <2>4, <3>2
      <4>3. MaxFaults <= MaxTries /\ Managed = {} => Cardinality(Hidden') + tries <= MaxTries
        BY <1>2, <1>4, <2>6, <2>7, <4>2 DEF MaxTries
      <4> QED BY <1>1, <1>2, <2>2, <2>5, <3>2, <4>1, <4>2, <4>3 DEF Ending
    <3> QED BY <3>1, <3>2
  <2>9. /\ pc' \in {"attempt", "replug", "done"} /\ sr' \in {"plugged", "unplugged", "gone"}
        /\ outcome' \in {"none", "destroyed", "not empty", "error"}
    BY <1>2, <2>2
  <2> QED BY <1>1, <1>2, <2>4, <2>5, <2>8, <2>9, SrStep
<1> QED
  BY <1>5, <1>6

LEMMA SrReplugKeeps == ASSUME IInv, SrReplug PROVE IInv'
<1>1. /\ pc = "replug" /\ sr' = "plugged"
      /\ UNCHANGED <<store, plugged, unplugged, listed, vm, reused, program, tail, tests, faults, vbdFault>>
  BY DEF SrReplug, machine, failures
<1>2. /\ ~InTest /\ pc \notin Testing /\ tail = <<"sr">> /\ tries \in 0..5 /\ tries > 0 /\ outcome = "none"
      /\ Cardinality(Hidden) \in Nat /\ Hidden \in SUBSET Vdi
  BY <1>1, InSrDestroy
<1>3. /\ Store' /\ Leafs' /\ Managed' = Managed /\ Hidden' = Hidden
  BY <1>1, SameStore DEF IInv
<1>4. /\ faults # 0
      /\ MaxFaults <= MaxTries /\ Managed = {} => Hidden # {} /\ Cardinality(Hidden) + tries <= MaxTries
  BY <1>1 DEF IInv, Ending
<1>5. Hidden # {} => Cardinality(Hidden) > 0
  BY <1>2, Nothing
<1>6. CASE Managed # {} \/ tries = MaxTries
  <2>1. outcome' = "not empty" /\ pc' = "done" /\ tries' = tries
    BY <1>6 DEF SrReplug, GiveUp
  <2>2. MaxFaults <= MaxTries => Managed # {}
    BY <1>2, <1>4, <1>5, <1>6 DEF MaxTries
  <2>3. Ending'
    BY <1>1, <1>3, <1>4, <2>1, <2>2 DEF Ending
  <2> QED BY <1>1, <1>2, <1>3, <2>1, <2>3, SrStep
<1>7. CASE ~(Managed # {} \/ tries = MaxTries)
  <2>1. tries' = tries + 1 /\ pc' = "attempt" /\ outcome' = outcome /\ tries' \in 0..5 /\ tries' > 0
    BY <1>2, <1>7 DEF SrReplug, MaxTries
  <2>2. MaxFaults <= MaxTries => Cardinality(Hidden') + tries' <= MaxTries + 1
    BY <1>2, <1>3, <1>4, <1>7, <2>1 DEF MaxTries
  <2>3. Ending'
    BY <1>1, <1>2, <1>4, <2>1, <2>2 DEF Ending
  <2> QED BY <1>1, <1>2, <1>3, <2>1, <2>3, SrStep
<1> QED
  BY <1>6, <1>7

-----------------------------------------------------------------------------
\* The garbage collector

LEMMA CollectKeeps == ASSUME IInv, Collect PROVE IInv'
<1>1. /\ sr = "plugged" /\ UNCHANGED <<plugged, unplugged, listed, Rest, program, pc, faults, vbdFault>>
      /\ \E v \in Vdi : CollectLeaf(v) \/ CoalesceLeaf(v) \/ CoalesceBase(v)
  BY DEF Collect, machine, ending, failures, Rest
<1>2. UNCHANGED <<test, ip, defers, local, seen, before, sr, vm, reused, tail, tries, outcome, tests>>
  BY <1>1 DEF program, Rest
<1>3. /\ Store' /\ Leafs' /\ Managed' = Managed /\ (\E d \in Hidden : Hidden' = Hidden \ {d})
      /\ 1 \in Managed => Merged
  <2>1. Store /\ Leafs
    BY DEF IInv
  <2> QED BY <1>1, <2>1, LeafCollected, LeafCoalesced, BaseCoalesced
<1>4. PICK d \in Hidden : Hidden' = Hidden \ {d}
  BY <1>3
<1>5. /\ Cardinality(Hidden') <= Cardinality(Hidden) - 1 /\ Cardinality(Hidden) \in Nat
      /\ Cardinality(Hidden') \in Nat
  <2>1. Hidden \in SUBSET Vdi /\ Hidden' \in SUBSET Vdi /\ Hidden' \in SUBSET (Hidden \ {d})
    BY <1>4 DEF Hidden
  <2> HIDE DEF Hidden
  <2> QED BY <1>4, <2>1, OneLess, SetOfVdis
<1>6. faults \in Nat /\ before \in Nat
  BY DEF IInv, Control
<1>7. Position'
  <2>1. Control' /\ Bounded'
    BY <1>1, <1>2 DEF IInv, Control, Bounded
  <2>2. Place'
    <3>1. Op' = Op
      BY <1>2 DEF Op
    <3>2. InTest' = InTest
      BY <1>1 DEF InTest
    <3> QED BY <1>1, <1>2, <3>1, <3>2 DEF IInv, Place
  <2>3. Left'
    BY <1>1, <1>2, <1>3 DEF IInv, Left
  <2>4. Ending'
    <3>1. pc' # "replug" /\ Ending
      BY <1>1 DEF IInv, Ending
    <3>2. pc = "attempt" /\ MaxFaults <= MaxTries /\ Managed = {} => Cardinality(Hidden') + tries <= MaxTries + 1
      <4>1. tries \in 0..5 /\ MaxTries \in Nat
        BY DEF IInv, Control, MaxTries
      <4> QED BY <1>5, <3>1, <4>1 DEF Ending
    <3> QED BY <1>1, <1>2, <1>3, <3>1, <3>2 DEF Ending
  <2> QED BY <2>1, <2>2, <2>3, <2>4 DEF Position
<1>8. Counts' /\ Vbd'
  <2>1. Disk' = Disk
    BY <1>2 DEF Disk, Op
  <2> QED BY <1>1, <1>3, <2>1 DEF IInv, Counts, Vbd
<1>9. Stays
  BY <1>2, Stay
<1>10. Locals'
  BY <1>1, <1>2, <1>3, <1>9 DEF IInv, Locals, Stays
<1>11. Accounts'
  <2>1. \A v : (Attached(v)' <=> Attached(v)) /\ (Pending(v)' <=> Pending(v))
    BY <1>1, <1>2, <1>9 DEF Attached, Pending, VdiLeft, Stays
  <2>2. Disk' = Disk
    BY <1>2 DEF Disk, Op
  <2>3. \A v \in Vdi : Tidy(v)' <=> Tidy(v)
    BY <1>1, <2>1, <2>2 DEF Tidy, Calm
  <2>4. Accounts
    BY DEF IInv
  <2> QED BY <1>1, <1>3, <1>6, <2>1, <2>3, <2>4, Steady
<1>12. Hides' /\ Chain'
  <2>1. Hides /\ Chain
    BY DEF IInv
  <2>2. CASE Extra' = Extra
    <3>1. Hides'
      BY <1>1, <1>5, <1>6, <2>1, <2>2 DEF Hides, Extra
    <3>2. Chain'
      <4> SUFFICES ASSUME test = "coalesce", ip > 0 PROVE Cardinality(Bases(1)') <= before + Extra
        BY <1>2, <2>2 DEF Chain
      <4>1. Bases(1)' \subseteq Bases(1)
        <5>1. InTest
          BY DEF IInv, Place
        <5> QED BY <1>3, <5>1 DEF IInv, Left, InTest, Midway, Testing, Merged
      <4>2. Bases(1) \in SUBSET Vdi /\ Bases(1)' \in SUBSET Bases(1)
        BY <4>1 DEF Bases
      <4>3. Bases(1)' \in SUBSET Vdi
        BY <4>2
      <4>4. /\ Cardinality(Bases(1)') <= Cardinality(Bases(1)) /\ Cardinality(Bases(1)) \in Nat
            /\ Cardinality(Bases(1)') \in Nat
        BY <4>2, <4>3, NoMore, SetOfVdis
      <4>5. Extra \in {0, 1}
        BY DEF Extra
      <4> QED BY <1>6, <2>1, <4>4, <4>5 DEF Chain
    <3> QED BY <3>1, <3>2
  <2>3. CASE Extra' # Extra
    <3>1. test = "coalesce" /\ ip \in {6, 7} /\ parent'[1] # parent[1]
      BY <1>2, <2>3 DEF Extra
    <3>2. InTest
      BY <3>1 DEF IInv, Place
    <3>3. Merged
      BY <1>3, <3>2 DEF IInv, Left, InTest, Midway, Testing
    <3>4. PICK b \in Bases(1) : Bases(1)' \subseteq Bases(1) \ {b}
      BY <3>1, <3>3 DEF Merged
    <3>5. Bases(1) \in SUBSET Vdi /\ Bases(1)' \in SUBSET (Bases(1) \ {b}) /\ Bases(1)' \in SUBSET Vdi
      BY <3>4 DEF Bases
    <3>6. /\ Cardinality(Bases(1)') <= Cardinality(Bases(1)) - 1 /\ Cardinality(Bases(1)) \in Nat
          /\ Cardinality(Bases(1)') \in Nat
      BY <3>4, <3>5, OneLess, SetOfVdis
    <3>7. Extra \in {0, 1} /\ Extra' \in {0, 1}
      BY DEF Extra
    <3>8. Hides'
      BY <1>1, <1>5, <1>6, <2>1, <3>7 DEF Hides
    <3>9. Chain'
      BY <1>2, <1>6, <2>1, <3>1, <3>6, <3>7 DEF Chain
    <3> QED BY <3>8, <3>9
  <2> QED BY <2>2, <2>3
<1> QED
  BY <1>3, <1>7, <1>8, <1>10, <1>11, <1>12, Together, PTL

-----------------------------------------------------------------------------
\* Failures

\* A test gives up what it does: the disk it does it on may be owed.
LEMMA AbandonKeeps ==
  ASSUME IInv, InTest, ip > 0 \/ defers # <<>>, Failed,
         UNCHANGED <<store, plugged, unplugged, listed, Rest, local, seen>>,
         faults < MaxFaults, faults' = faults + 1, vbdFault' \in BOOLEAN
  PROVE  IInv'
<1>1. /\ Store' /\ Leafs' /\ Managed' = Managed /\ Hidden' = Hidden /\ Bases(1)' = Bases(1)
      /\ parent' = parent
  BY SameStore DEF IInv
<1>2. faults \in Nat /\ faults' \in Nat /\ faults' <= MaxFaults /\ MaxFaults \in Nat
  <2>1. faults \in Nat
    BY DEF IInv, Control
  <2> QED BY <2>1, BoundAssumption
<1>3. pc \in Testing /\ 1 \in Managed /\ ip \in 0..11
  <2>1. pc \in Testing
    BY DEF InTest, Testing, Midway
  <2> QED BY <2>1 DEF IInv, Left, Place
<1>4. /\ Position' /\ Uses /\ pc' = "run" /\ pc' \in Testing /\ pc' \notin Midway /\ ip' = 0
      /\ ip > 0 => Abandons
      /\ ip = 0 => Advances
  BY <1>1, <1>2, <1>3, AfterFailed
<1>5. Needs' \subseteq Needs /\ Lacks' \subseteq Lacks
  <2>1. CASE ip > 0
    BY <1>4, <2>1 DEF Abandons
  <2>2. CASE ip = 0
    BY <1>4, <2>2 DEF Advances, Uses
  <2> QED BY <1>3, <2>1, <2>2
<1>6. \E m : /\ OnVm' \union {m} = OnVm \union {m} /\ ToDestroy \ {m} \subseteq ToDestroy'
             /\ pc \in Midway => m = Op[2]
  <2>1. CASE ip = 0
    <3>1. OnVm' \union {Op[2]} = OnVm \union {Op[2]} /\ ToDestroy \ {Op[2]} \subseteq ToDestroy'
      BY <1>4, <2>1 DEF Advances, Uses
    <3> QED BY <3>1
  <2>2. CASE ip > 0 /\ pc \notin Midway
    <3>1. OnVm' \union {"src"} = OnVm \union {"src"} /\ ToDestroy \ {"src"} \subseteq ToDestroy'
      BY <1>4, <2>2 DEF Abandons
    <3> QED BY <2>2, <3>1
  <2>3. CASE ip > 0 /\ pc \in Midway
    <3>1. Op[1] \in {"connect", "disconnect"}
      BY <2>3 DEF IInv, Place, Midway
    <3>2. "src" \notin OnVm \/ Op[2] = "src"
      BY <1>4, <2>3, <3>1 DEF Uses
    <3>3. OnVm' \union {Op[2]} = OnVm \union {Op[2]} /\ ToDestroy \ {Op[2]} \subseteq ToDestroy'
      BY <1>4, <2>3, <3>2 DEF Abandons
    <3> QED BY <3>3
  <2>4. ip = 0 \/ ip > 0
    BY <1>3
  <2> QED BY <2>1, <2>2, <2>3, <2>4, Zenon
<1>7. PICK m : /\ OnVm' \union {m} = OnVm \union {m} /\ ToDestroy \ {m} \subseteq ToDestroy'
               /\ pc \in Midway => m = Op[2]
  BY <1>6
<1>8. PICK d : d = local[m]
  OBVIOUS
<1>9. ASSUME NEW v \in Vdi, v # d
      PROVE  (Attached(v)' <=> Attached(v)) /\ (Pending(v) => Pending(v)') /\ (Tidy(v)' <=> Tidy(v))
  <2>1. \A l : local[l] = v => (l \in OnVm' <=> l \in OnVm) /\ (l \in ToDestroy => l \in ToDestroy')
    BY <1>7, <1>8, <1>9
  <2>2. Attached(v)' <=> Attached(v)
    BY <2>1 DEF Attached
  <2>3. Pending(v) => Pending(v)'
    BY <1>4, <2>1 DEF Pending, VdiLeft
  <2>4. pc \in Midway => v # Disk
    BY <1>7, <1>8, <1>9 DEF Disk
  <2>5. Tidy(v)' <=> Tidy(v)
    BY <1>4, <2>2, <2>4, Untouched
  <2> QED BY <2>2, <2>3, <2>5
<1>10. Accounts'
  <2>1. \A v \in Managed : v # d /\ Tidy(v) /\ Pending(v) => Tidy(v)' /\ Pending(v)'
    BY <1>9 DEF Managed
  <2>2. Accounts
    BY DEF IInv
  <2> QED BY <1>1, <1>2, <2>1, <2>2, OneOwed
<1>11. Counts' /\ Vbd'
  BY <1>1, <1>4 DEF IInv, Counts, Vbd, Midway
<1>12. Locals'
  <2>1. Locals /\ local["new"] \notin plugged'
    BY DEF IInv, Locals
  <2> QED BY <1>1, <1>4, <1>5, <2>1, SameLocals
<1>13. Hides' /\ Chain'
  <2>1. Hides
    BY DEF IInv
  <2> QED BY <1>1, <1>2, <1>4, <2>1, NoExtra
<1> QED
  BY <1>1, <1>4, <1>10, <1>11, <1>12, <1>13, Together, PTL

\* vbd-plug fails: its VBD is destroyed next.
LEMMA PlugFails ==
  ASSUME IInv, pc = "plug", Goto("unconnect"),
         UNCHANGED <<store, plugged, unplugged, listed, Rest, local, seen>>,
         faults < MaxFaults, faults' = faults + 1, vbdFault' \in BOOLEAN
  PROVE  IInv'
<1>1. InTest /\ ip > 0 /\ Op[1] = "connect" /\ pc \in Midway /\ pc \in Testing
  BY DEF IInv, Place, InTest, Midway, Testing
<1>2. PICK d : d = Disk
  OBVIOUS
<1>3. d \in Vdi /\ d \in Managed /\ 1 \in Managed /\ (test = "coalesce" => ip # 7)
  BY <1>1, <1>2, OnDisk
<1>4. /\ Store' /\ Leafs' /\ Managed' = Managed /\ Hidden' = Hidden /\ Bases(1)' = Bases(1)
      /\ parent' = parent
  BY SameStore DEF IInv
<1>5. faults \in Nat /\ faults' \in Nat /\ faults' <= MaxFaults /\ MaxFaults \in Nat
  <2>1. faults \in Nat
    BY DEF IInv, Control
  <2> QED BY <2>1, BoundAssumption
<1>6. Position' /\ Stays /\ pc' = "unconnect" /\ pc' \in Testing /\ Disk' = d /\ before' = before
  <2>1. "unconnect" \in Midway
    BY DEF Midway
  <2> QED BY <1>1, <1>2, <1>3, <1>4, <1>5, <2>1, AfterGoto
<1>7. Counts' /\ Vbd'
  BY <1>2, <1>4, <1>6 DEF IInv, Counts, Vbd
<1>8. Locals'
  <2>1. local["new"] \notin plugged'
    BY DEF IInv, Locals
  <2>2. test' = "coalesce" /\ ip' = 7 => local["new"] \notin Managed
    BY <1>3, <1>6 DEF Stays
  <2>3. Locals /\ Needs' \subseteq Needs /\ Lacks' \subseteq Lacks
    BY <1>6 DEF Stays, IInv
  <2> QED BY <1>4, <2>1, <2>2, <2>3, SameLocals
<1>9. Accounts'
  <2>1. \A v : SameLists(v)
    BY <1>1, <1>6, OtherDisks DEF Stays
  <2>2. \A v \in Vdi : v # d => (Tidy(v)' <=> Tidy(v))
    BY <1>2, <1>6, <2>1, Untouched DEF SameLists
  <2>3. \A v \in Managed : v # d /\ Tidy(v) /\ Pending(v) => Tidy(v)' /\ Pending(v)'
    BY <2>1, <2>2 DEF SameLists, Managed
  <2>4. Accounts
    BY DEF IInv
  <2> QED BY <1>4, <1>5, <2>3, <2>4, OneOwed
<1>10. Hides' /\ Chain'
  <2>1. Extra' = Extra /\ test' = test /\ ip' = ip /\ Extra \in {0, 1}
    BY <1>4, <1>6 DEF Extra, Stays
  <2>2. Cardinality(Hidden) \in Nat
    <3>1. Hidden \in SUBSET Vdi
      BY DEF Hidden
    <3> QED BY <3>1, SetOfVdis
  <2>3. Hides'
    BY <1>4, <1>5, <2>1, <2>2 DEF IInv, Hides
  <2>4. Chain'
    BY <1>4, <1>6, <2>1 DEF IInv, Chain
  <2> QED BY <2>3, <2>4
<1> QED
  BY <1>4, <1>6, <1>7, <1>8, <1>9, <1>10, Together, PTL

LEMMA FailInTestKeeps ==
  ASSUME IInv, FailInTest, faults < MaxFaults, faults' = faults + 1,
         vbdFault' = (vbdFault \/ pc # "run" \/ Op[1] \in {"connect", "disconnect"})
  PROVE  IInv'
<1>1. UNCHANGED <<store, plugged, unplugged, listed, Rest, local, seen>>
  BY DEF FailInTest, machine, ending, Rest
<1>2. vbdFault' \in BOOLEAN
  BY Zenon
<1>3. CASE pc = "run" /\ (ip > 0 \/ defers # <<>>) /\ Failed
  <2>1. InTest
    BY <1>3 DEF InTest
  <2> QED BY <1>1, <1>2, <1>3, <2>1, AbandonKeeps
<1>4. CASE pc = "plug" /\ Goto("unconnect")
  BY <1>1, <1>2, <1>4, PlugFails
<1>5. CASE pc \in Midway /\ Failed
  <2>1. InTest /\ (ip > 0 \/ defers # <<>>)
    BY <1>5 DEF IInv, Place, InTest, Midway
  <2> QED BY <1>1, <1>2, <1>5, <2>1, AbandonKeeps
<1> QED
  BY <1>3, <1>4, <1>5 DEF FailInTest, Midway

\* The disk of the module may be left: no other is to be destroyed.
LEMMA FailInTeardownKeeps ==
  ASSUME IInv, FailInTeardown, faults < MaxFaults, faults' = faults + 1, UNCHANGED vbdFault
  PROVE  IInv'
<1>1. UNCHANGED <<store, plugged, unplugged, vm, reused, program, tries, tests>>
  BY DEF FailInTeardown
<1>2. /\ Store' /\ Leafs' /\ Managed' = Managed /\ Hidden' = Hidden /\ Bases(1)' = Bases(1)
      /\ parent' = parent
  BY <1>1, SameStore DEF IInv
<1>3. faults \in Nat /\ faults' \in Nat /\ faults' <= MaxFaults /\ MaxFaults \in Nat /\ faults' # 0
  <2>1. faults \in Nat
    BY DEF IInv, Control
  <2> QED BY <2>1, BoundAssumption
<1>4. /\ pc \in {"teardown", "disks", "attempt", "replug"} /\ pc' \in {"teardown", "done"}
      /\ sr' \in {sr, "plugged", "unplugged"}
      /\ (pc' = "teardown" /\ tail' = Tail(tail) /\ outcome' = outcome /\ pc \in {"teardown", "disks"}
             /\ (pc = "teardown" => Head(tail) # "sr"))
         \/ (pc' = "done" /\ tail' = tail /\ outcome' = "error"
             /\ (pc \in {"attempt", "replug"} \/ (pc = "teardown" /\ Head(tail) = "sr")))
      /\ listed' = listed \/ (Disks # {} /\ listed' = [listed EXCEPT ![Least(Disks)] = @ - 1])
  BY DEF FailInTeardown, Next1, GiveUp
<1>5. ~InTest /\ pc \notin Testing /\ pc' \notin Midway /\ pc' # "run" /\ pc' \notin Testing
  BY <1>4 DEF InTest, Midway, Testing
<1>6. /\ Place' /\ Locals' /\ Hides' /\ Chain' /\ pc \notin Midway
      /\ \A v : ~Attached(v) /\ ~Attached(v)'
      /\ \A v : (Pending(v) <=> v = 1 /\ VdiLeft) /\ (Pending(v)' <=> v = 1 /\ VdiLeft')
  BY <1>1, <1>2, <1>3, <1>5, Winds
<1>7. Left'
  <2>1. CASE pc' = "teardown"
    <3>1. tail' \in {<<"vm", "sr">>, <<"vdi", "sr">>, <<"sr">>}
      BY <1>4, <2>1, InTeardown DEF NextTail
    <3> QED BY <2>1, <3>1 DEF Left, Testing
  <2>2. CASE pc' = "done"
    <3>1. tail' = <<"sr">>
      <4>1. CASE pc \in {"attempt", "replug"}
        BY <1>4, <2>2, <4>1, InSrDestroy
      <4>2. CASE pc = "teardown" /\ Head(tail) = "sr"
        BY <1>4, <2>2, <4>2, InTeardown DEF NextTail
      <4> QED BY <1>4, <2>2, <4>1, <4>2
    <3> QED BY <2>2, <3>1 DEF Left, Testing
  <2> QED BY <1>4, <2>1, <2>2
<1>8. outcome = "none"
  BY <1>4 DEF IInv, Ending
<1>9. Ending'
  BY <1>3, <1>4, <1>8 DEF Ending
<1>10. Position'
  <2>1. Control' /\ Bounded'
    <3>1. UNCHANGED <<local, seen, before>>
      BY <1>1 DEF program
    <3>2. outcome' \in {"none", "error"} /\ pc' \in {"teardown", "done"}
      BY <1>4, <1>8
    <3>3. sr' \in {"plugged", "unplugged", "gone"}
      BY <1>4 DEF IInv, Control
    <3> QED BY <1>1, <1>3, <3>1, <3>2, <3>3 DEF IInv, Control, Bounded
  <2> QED BY <1>6, <1>7, <1>9, <2>1 DEF Position
<1>11. listed' \in [Vdi -> Nat]
  <2>1. listed \in [Vdi -> Nat]
    BY DEF IInv, Counts
  <2>2. ASSUME Disks # {}, listed' = [listed EXCEPT ![Least(Disks)] = @ - 1] PROVE listed' \in [Vdi -> Nat]
    <3>1. Disks \in SUBSET Nat
      BY VdiFinite DEF Disks
    <3>2. PICK w \in Disks : w = Least(Disks)
      BY <2>2, <3>1, LeastIn
    <3>3. listed' = [listed EXCEPT ![w] = listed[w] - 1] /\ w \in Vdi /\ listed[w] > 0
      BY <2>2, <3>2 DEF Disks
    <3> QED BY <2>1, <3>3
  <2> QED BY <1>4, <2>1, <2>2
<1>12. Counts' /\ Vbd'
  BY <1>1, <1>2, <1>4, <1>11 DEF IInv, Counts, Vbd
<1>13. Accounts'
  <2>1. \A v \in Managed : v # 1 /\ Tidy(v) /\ Pending(v) => Tidy(v)' /\ Pending(v)'
    BY <1>6
  <2>2. Accounts
    BY DEF IInv
  <2> QED BY <1>2, <1>3, <2>1, <2>2, OneOwed
<1> QED
  BY <1>2, <1>6, <1>10, <1>12, <1>13, Together, PTL

-----------------------------------------------------------------------------
\* The module

LEMMA InitHolds == Init => IInv
<1> SUFFICES ASSUME Init PROVE IInv
  OBVIOUS
<1>1. /\ plugged = {} /\ unplugged = [v \in Vdi |-> 0] /\ listed = [v \in Vdi |-> 0]
      /\ sr = "plugged" /\ vm = "running" /\ reused \in BOOLEAN /\ test = "none" /\ ip = 0 /\ defers = <<>>
      /\ local = [l \in Local |-> IF l = "vdi" THEN 1 ELSE NoVdi]
      /\ seen = NoVdi /\ before = 0 /\ tail = <<>> /\ tries = 0 /\ pc = "idle" /\ outcome = "none"
      /\ tests = 0 /\ faults = 0 /\ vbdFault = FALSE
      /\ kind = [v \in Vdi |-> IF v = 1 THEN "managed" ELSE "free"] /\ parent = [v \in Vdi |-> NoVdi]
  BY DEF Init
<1>2. ~InTest /\ pc \in Testing /\ pc \notin Midway
  BY <1>1 DEF InTest, Testing, Midway
<1>3. 1 \in Managed /\ Hidden = {} /\ Managed = {1} /\ 1 \in Vdi /\ NoVdi \notin Vdi
  BY <1>1, VdiFinite DEF Managed, Hidden
<1>4. Store
  BY <1>1, <1>3 DEF Store
<1>5. Counts /\ Vbd
  BY <1>1, <1>3 DEF Counts, Vbd
<1>6. Control
  <2>1. local \in [Local -> Vdi \union {NoVdi}]
    BY <1>1, <1>3
  <2>2. vbdFault \in BOOLEAN
    BY <1>1, Zenon
  <2>3. tries \in 0..5
    BY <1>1
  <2> QED BY <1>1, <2>1, <2>2, <2>3 DEF Control
<1>7. Place
  BY <1>1, <1>2 DEF Place, Midway
<1>8. Left /\ Ending
  BY <1>1, <1>2, <1>3 DEF Left, Ending, Testing
<1>9. /\ OnVm = {} /\ ToDestroy = {} /\ Needs = {} /\ Lacks = {"src", "dest", "new"} /\ Extra = 0
      /\ \A v : ~Attached(v) /\ (Pending(v) <=> v = 1 /\ VdiLeft)
  BY <1>2, <1>7, OutOfTest DEF Quiet
<1>10. Locals
  <2>1. \A l \in Local : local[l] = IF l = "vdi" THEN 1 ELSE NoVdi
    BY <1>1
  <2> QED BY <1>1, <1>9, <2>1 DEF Locals, Local
<1>11. Accounts
  <2>1. \A v \in Vdi : Tidy(v)
    BY <1>1, <1>2, <1>9 DEF Tidy, Calm
  <2>2. Owed = {}
    BY <1>2, <1>3, <1>9, <2>1 DEF Owed, VdiLeft
  <2> QED BY <1>1, <2>1, <2>2, FS_EmptySet DEF Accounts
<1>12. Hides /\ Leafs
  <2>1. Cardinality(Hidden) = 0
    BY <1>3, FS_EmptySet
  <2> QED BY <1>1, <1>3, <1>9, <2>1 DEF Hides, Leafs
<1>13. Chain /\ Bounded
  BY <1>1, BoundAssumption DEF Chain, Bounded
<1> QED
  BY <1>4, <1>5, <1>6, <1>7, <1>8, <1>10, <1>11, <1>12, <1>13 DEF IInv

LEMMA StutterKeeps == ASSUME IInv, UNCHANGED vars PROVE IInv'
<1>1. /\ UNCHANGED <<store, plugged, unplugged, listed, vm, reused, sr, test, ip, defers, local, seen, before, pc,
                     tail, tries, outcome, tests, faults, vbdFault>>
  BY DEF vars, machine, program, ending, failures
<1>2. /\ Store' /\ Leafs' /\ Managed' = Managed /\ Hidden' = Hidden /\ Bases(1)' = Bases(1)
      /\ parent' = parent
  BY <1>1, SameStore DEF IInv
<1>3. Stays
  BY <1>1, Stay
<1>4. Disk' = Disk /\ InTest' = InTest
  BY <1>1, <1>3 DEF Stays, Disk, InTest
<1>5. Position'
  <2>1. Control' /\ Bounded'
    BY <1>1 DEF IInv, Control, Bounded
  <2>2. Place'
    BY <1>1, <1>3, <1>4 DEF IInv, Place, Stays
  <2>3. Left'
    BY <1>1, <1>2 DEF IInv, Left
  <2>4. Ending'
    BY <1>1, <1>2 DEF IInv, Ending
  <2> QED BY <2>1, <2>2, <2>3, <2>4 DEF Position
<1>6. Counts' /\ Vbd'
  BY <1>1, <1>2, <1>4 DEF IInv, Counts, Vbd
<1>7. Locals'
  BY <1>1, <1>2, <1>3 DEF IInv, Locals, Stays
<1>8. Accounts'
  <2>1. \A v : (Attached(v)' <=> Attached(v)) /\ (Pending(v)' <=> Pending(v))
    BY <1>1, <1>3 DEF Attached, Pending, VdiLeft, Stays
  <2>2. \A v \in Vdi : Tidy(v)' <=> Tidy(v)
    BY <1>1, <1>4, <2>1 DEF Tidy, Calm
  <2>3. Accounts /\ faults \in Nat
    BY DEF IInv, Control
  <2> QED BY <1>1, <1>2, <2>1, <2>2, <2>3, Steady
<1>9. Hides' /\ Chain'
  <2>1. Extra' = Extra
    BY <1>1, <1>2 DEF Extra
  <2> QED BY <1>1, <1>2, <2>1 DEF IInv, Hides, Chain
<1> QED
  BY <1>2, <1>5, <1>6, <1>7, <1>8, <1>9, Together, PTL

LEMMA NextKeeps == ASSUME IInv, Next PROVE IInv'
<1>1. CASE \E t \in DOMAIN Body : StartTest(t)
  BY <1>1, StartKeeps, Zenon
<1>2. CASE EndTest
  BY <1>2, EndKeeps
<1>3. CASE Statement
  BY <1>3, CreateKeeps, BranchKeeps, DestroyKeeps, GetParentKeeps, WaitKeeps, CheckKeeps, VbdCreateKeeps,
     VbdPlugKeeps, NamedKeeps, UnconnectKeeps, VbdUnplugKeeps, VbdDestroyKeeps, Zenon DEF Statement
<1>4. CASE Teardown
  BY <1>4, EndModuleKeeps, TeardownVdiKeeps, TeardownVmKeeps, VmDestroyVdiKeeps, VmDestroyKeeps, TeardownSrKeeps,
     SrDestroyKeeps, SrReplugKeeps, Zenon DEF Teardown
<1>5. CASE Collect
  BY <1>5, CollectKeeps
<1>6. CASE Fail
  BY <1>6, FailInTestKeeps, FailInTeardownKeeps, Zenon DEF Fail
<1> QED
  BY <1>1, <1>2, <1>3, <1>4, <1>5, <1>6, Zenon DEF Next, Pytest

LEMMA Inductive == Spec => []IInv
<1>1. IInv /\ [Next]_vars => IInv'
  BY NextKeeps, StutterKeeps
<1> QED
  BY InitHolds, <1>1, PTL DEF Spec

-----------------------------------------------------------------------------
\* Theorems

\* VDIs, VBDs and the SR, the statement and the cleanups of the test, and what is left of the module are always of
\* the types that storage.py, vdi.py and sr.py give them.
THEOREM TypeCorrect == Spec => []TypeOK
<1>1. IInv => TypeOK
  BY TypeIs DEF IInv
<1> QED
  BY Inductive, <1>1, PTL

\* wait_for_coalesce: when coalesce_integrity goes on to verify its data, the base copy that its snapshot put under
\* the disk has been merged, however many VDIs and failures there were before and whenever the collector ran.
THEOREM CoalesceAwaited == Spec => []PassMeansCoalesced
<1>1. ASSUME IInv, test = "coalesce", ip = Coalesced PROVE Cardinality(Bases(1)) <= before
  <2>1. ip = 8
    BY <1>1 DEF Coalesced
  <2>2. Extra = 0
    BY <2>1 DEF Extra
  <2>3. Bases(1) \in SUBSET Vdi /\ before \in Nat
    BY <1>1 DEF Bases, IInv, Control
  <2>4. Cardinality(Bases(1)) \in Nat
    BY <2>3, SetOfVdis
  <2> QED BY <1>1, <2>1, <2>2, <2>3, <2>4 DEF IInv, Chain
<1>2. IInv => PassMeansCoalesced
  BY <1>1 DEF PassMeansCoalesced
<1> QED
  BY Inductive, <1>2, PTL

LEMMA AtTheEnd ==
  ASSUME IInv, pc = "done"
  PROVE  /\ Cardinality(Managed) <= faults
         /\ faults = 0 => /\ Managed = {} /\ Hidden = {} /\ plugged = {}
                          /\ \A v \in Vdi : unplugged[v] = 0 /\ listed[v] = 0
<1>1. ~InTest /\ pc \notin Testing
  BY DEF InTest, Midway, Testing
<1>2. tail = <<"sr">>
  BY DEF IInv, Left
<1> QED
  BY <1>1, <1>2, OnlyOwed

\* The deferred cleanups, the fixtures and SR.destroy: when the module is over nothing is left if nothing failed.
THEOREM NothingLeaks == Spec => []NoLeakWithoutFault
<1>1. ASSUME IInv PROVE NoLeakWithoutFault
  <2> SUFFICES ASSUME pc = "done", faults = 0
               PROVE  /\ Managed = {} /\ Hidden = {} /\ sr = "gone" /\ outcome = "destroyed"
                      /\ vm = (IF reused THEN "running" ELSE "gone")
                      /\ \A v \in Vdi : Vbds(v) = 0 /\ listed[v] = 0
    BY DEF NoLeakWithoutFault
  <2>1. /\ Managed = {} /\ Hidden = {} /\ plugged = {}
        /\ \A v \in Vdi : unplugged[v] = 0 /\ listed[v] = 0
    BY <1>1, AtTheEnd
  <2>2. \A v \in Vdi : Vbds(v) = 0
    BY <2>1 DEF Vbds
  <2>3. sr = "gone" /\ outcome = "destroyed" /\ vm = IF reused THEN "running" ELSE "gone"
    BY <1>1 DEF IInv, Ending
  <2> QED BY <2>1, <2>2, <2>3
<1> QED
  BY Inductive, <1>1, PTL

\* Each command that failed leaves one disk at most, whatever ran after it.
THEOREM OneDiskEach == Spec => []OneDiskPerFault
<1>1. IInv => OneDiskPerFault
  BY AtTheEnd DEF OneDiskPerFault
<1> QED
  BY Inductive, <1>1, PTL

\* The whole of the teardown.  SR.destroy has MaxTries attempts, each of which frees a base copy at least: they are
\* enough for the base copies of as many failures.
THEOREM ThoroughTeardown == ASSUME MaxFaults <= MaxTries PROVE Spec => []TeardownIsThorough
<1>1. ASSUME IInv PROVE GivesUpOnManagedOnly
  BY <1>1 DEF IInv, Ending, GivesUpOnManagedOnly
<1> QED
  BY Inductive, NothingLeaks, OneDiskEach, <1>1, PTL DEF TeardownIsThorough

=============================================================================
