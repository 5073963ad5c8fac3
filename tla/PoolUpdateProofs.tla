-------------------------- MODULE PoolUpdateProofs --------------------------
(***************************************************************************)
(* Proofs about PoolUpdate, for any pools, threads, runs and faults: its   *)
(* types, that the masters come first, and that the outcome is true.       *)
(***************************************************************************)
EXTENDS PoolUpdate, FiniteSetTheorems, SequenceTheorems, TLAPS

USE HostAssumption, ListAssumption, BoundAssumption
USE DEF vars, machine, args, threads, main, origin, To, IsMaster, Masters

\* The executor has tasks only while the main thread is inside it.
Inside == phase \in {"masters", "others"}
Idle   == ~Inside => \A h \in Host : task[h] \in {"none", "done", "failed"}

\* What has been submitted in each phase, and what is over.
Submissions ==
    /\ phase = "begin" => \A h \in Host : task[h] = "none"
    /\ phase = "begin" => outcome = "none" /\ ~error /\ seen = {}
    /\ phase = "masters" =>
          IF parallel THEN \A h \in Host : task[h] # "none"
          ELSE /\ \A h \in Masters : task[h] # "none"
               /\ \A h \in Host \ Masters : task[h] = "none"
    /\ phase = "others" =>
          /\ ~parallel /\ \A h \in Host : task[h] # "none"
          /\ \A m \in Masters : task[m] \in {"done", "failed"}
          /\ tool = "update" => \A m \in Masters : task[m] = "done"
    /\ phase \in {"after", "snapshot"} => tool = "update" /\ \A h \in Host : task[h] = "done"

\* What an update has looked at is done, or it stops.
Consumed ==
    Inside /\ ~error /\ tool = "update" => \A h \in seen : task[h] = "done"

\* A host that was up when the run began is where its task believes it to be,
\* as long as no ping was lost.
Fits(h) ==
    /\ task[h] \in {"none", "queued", "work", "reboot", "enabled", "done"} => power[h] = "up"
    /\ task[h] = "down" => power[h] \in {"going", "down"}
    /\ task[h] = "up" => power[h] \in {"down", "ssh", "up"}
    /\ task[h] = "xapi" => power[h] \in {"ssh", "up"}
Powers == lost = 0 => \A h \in Host \ left : Fits(h)

\* Without a fault this is so of every host, in every run; and a run that is
\* not parallel does not fail.
FaultFree == faults = 0 /\ lost = 0
Smooth ==
    /\ FaultFree => \A h \in Host : Fits(h) /\ (task[h] = "failed" => power[h] = "up")
    /\ FaultFree /\ ~parallel =>
          outcome # "error" /\ ~error /\ \A h \in Host : task[h] # "failed"

\* A host that has installed something is on its way to its reboot.
Pendings ==
    lost = 0 /\ tool = "update" /\ reboot =>
        \A h \in pending \ left : \/ task[h] \in {"reboot", "down", "failed"}
                                  \/ task[h] = "up" /\ power[h] = "down"

IInv == TypeOK /\ Idle /\ Submissions /\ Consumed /\ Powers /\ Smooth /\ Pendings
        /\ SnapshotsFit /\ OkMeansAll

-----------------------------------------------------------------------------
(* Lists and counts.                                                       *)

LEMMA HostsFinite == IsFiniteSet(Host)
<1>0. PoolHosts \in Seq(Host) /\ ToSet(PoolHosts) = Host
  BY DEF IsListOf
<1>1. PoolHosts \in [1..Len(PoolHosts) -> Host] /\ DOMAIN PoolHosts = 1..Len(PoolHosts)
  BY <1>0, LenProperties
<1>2. PoolHosts \in Surjection(1..Len(PoolHosts), Host)
  BY <1>0, <1>1 DEF ToSet, Surjection
<1> QED
  BY <1>0, <1>2, FS_Interval, FS_Surjection, LenProperties

\* Taking the first of a list leaves a list of the others.
LEMMA TakeFirst ==
  ASSUME NEW S, NEW q \in Seq(Host), IsInjective(q), ToSet(q) = S, q # <<>>
  PROVE  /\ Head(q) \in S /\ Tail(q) \in Seq(Host) /\ IsInjective(Tail(q))
         /\ ToSet(Tail(q)) = S \ {Head(q)}
<1>1. /\ Len(q) \in Nat \ {0} /\ DOMAIN q = 1..Len(q) /\ Head(q) = q[1]
      /\ Tail(q) \in Seq(Host) /\ DOMAIN Tail(q) = 1..(Len(q) - 1)
      /\ \A i \in 1..(Len(q) - 1) : Tail(q)[i] = q[i+1]
  BY HeadTailProperties, EmptySeq, LenProperties
<1>2. IsInjective(Tail(q))
  BY <1>1 DEF IsInjective
<1>3. ASSUME NEW x \in ToSet(Tail(q)) PROVE x \in S \ {Head(q)}
  BY <1>1, <1>3 DEF IsInjective, ToSet
<1>4. ASSUME NEW x \in S \ {Head(q)} PROVE x \in ToSet(Tail(q))
  <2>1. PICK i \in 1..Len(q) : x = q[i]
    BY <1>1, <1>4 DEF ToSet
  <2>2. i - 1 \in 1..(Len(q) - 1) /\ Tail(q)[i-1] = x
    BY <1>1, <1>4, <2>1
  <2> QED
    BY <1>1, <2>2 DEF ToSet
<1> QED
  BY <1>1, <1>2, <1>3, <1>4 DEF ToSet

LEMMA EmptyList == ASSUME NEW q \in Seq(Host), ToSet(q) = {} PROVE q = <<>>
<1>1. Len(q) \in Nat /\ DOMAIN q = 1..Len(q)
  BY LenProperties
<1>2. ASSUME q # <<>> PROVE FALSE
  <2>1. 1 \in 1..Len(q)
    BY <1>1, <1>2, EmptySeq
  <2> QED
    BY <1>1, <2>1 DEF ToSet
<1> QED
  BY <1>2

\* The masters followed by the others are all hosts, each once.
LEMMA AllHosts == IsListOf(PoolMasters \o PoolOthers, Host)
<1> DEFINE q == PoolMasters \o PoolOthers
           m == Len(PoolMasters)
           n == Len(PoolOthers)
<1>0. PoolMasters \in Seq(Host) /\ PoolOthers \in Seq(Host)
  BY SeqMonotonic DEF IsListOf
<1>1. /\ m \in Nat /\ n \in Nat /\ q \in Seq(Host) /\ DOMAIN q = 1..(m + n)
      /\ DOMAIN PoolMasters = 1..m /\ DOMAIN PoolOthers = 1..n
      /\ \A i \in 1..(m + n) : q[i] = IF i <= m THEN PoolMasters[i] ELSE PoolOthers[i - m]
  BY <1>0, ConcatProperties, LenProperties
<1>2. /\ \A i \in 1..m : MasterOf[PoolMasters[i]] = PoolMasters[i]
      /\ \A i \in 1..n : MasterOf[PoolOthers[i]] # PoolOthers[i]
  BY <1>1 DEF IsListOf, ToSet
<1>3. /\ \A i, j \in 1..m : PoolMasters[i] = PoolMasters[j] => i = j
      /\ \A i, j \in 1..n : PoolOthers[i] = PoolOthers[j] => i = j
  BY <1>1 DEF IsListOf, IsInjective
<1> HIDE DEF q, m, n
<1>4. IsInjective(q)
  <2> SUFFICES ASSUME NEW i \in 1..(m + n), NEW j \in 1..(m + n), q[i] = q[j] PROVE i = j
    BY <1>1 DEF IsInjective
  <2>1. CASE i <= m /\ j <= m
    BY <1>1, <1>3, <2>1
  <2>2. CASE i > m /\ j > m
    <3>1. i - m \in 1..n /\ j - m \in 1..n /\ PoolOthers[i - m] = PoolOthers[j - m]
      BY <1>1, <2>2
    <3> QED
      BY <1>1, <1>3, <3>1
  <2>3. CASE ~(i <= m <=> j <= m)
    BY <1>1, <1>2, <2>3
  <2> QED
    BY <1>1, <2>1, <2>2, <2>3
<1>5. ToSet(q) = Host
  <2>1. ASSUME NEW h \in Host PROVE \E i \in 1..(m + n) : q[i] = h
    <3>1. CASE MasterOf[h] = h
      <4>1. PICK i \in 1..m : PoolMasters[i] = h
        BY <1>1, <3>1 DEF IsListOf, ToSet
      <4> QED
        BY <1>1, <4>1
    <3>2. CASE MasterOf[h] # h
      <4>1. PICK i \in 1..n : PoolOthers[i] = h
        BY <1>1, <3>2 DEF IsListOf, ToSet
      <4>2. i + m \in 1..(m + n) /\ ~(i + m <= m) /\ (i + m) - m = i
        BY <1>1
      <4> QED
        BY <1>1, <4>1, <4>2
    <3> QED
      BY <3>1, <3>2
  <2>2. \A i \in 1..(m + n) : q[i] \in Host
    BY <1>1, ElementOfSeq
  <2> QED
    BY <1>1, <2>1, <2>2 DEF ToSet
<1> QED
  BY <1>1, <1>4, <1>5 DEF IsListOf, q
-----------------------------------------------------------------------------
(* The invariant is inductive.                                             *)

Running == {"work", "reboot", "down", "up", "xapi", "enabled"}
Status  == Running \cup {"none", "queued", "done", "failed"}
State   == {"up", "going", "down", "ssh"}

\* What is said of the phases, without what depends on the hosts.
Control == TypeOK /\ Idle /\ Submissions /\ Consumed /\ SnapshotsFit /\ OkMeansAll

LEMMA Types == TypeOK => /\ task \in [Host -> Status] /\ power \in [Host -> State]
                         /\ Active = {h \in Host : task[h] \in Running}
  BY DEF TypeOK, Active, Submitted, Finished, Running, Status, State

\* The threads that are at work do not become too many when none begins.
LEMMA FewerActive ==
  ASSUME TypeOK, task' \in [Host -> Status],
         \A h \in Host : task'[h] \in Running => task[h] \in Running
  PROVE  Cardinality(Active') <= Workers
<1>1. Active = {h \in Host : task[h] \in Running} /\ Active' = {h \in Host : task'[h] \in Running}
  BY Types DEF Active, Submitted, Finished, Running, Status
<1>2. IsFiniteSet(Active) /\ Active' \in SUBSET Active
  BY <1>1, HostsFinite, FS_Subset
<1>3. Cardinality(Active') <= Cardinality(Active) /\ Cardinality(Active) \in Nat
  BY <1>2, FS_Subset, FS_CardinalityType
<1>4. Cardinality(Active') \in Nat /\ Cardinality(Active) <= Workers
  BY <1>2, FS_Subset, FS_CardinalityType DEF TypeOK
<1> QED
  BY <1>3, <1>4
\* A thread goes from one step of its task to another one.
LEMMA Advance ==
  ASSUME Control, NEW h \in Host, NEW t \in Running \cup {"done", "failed"},
         task[h] \in Running, task' = [task EXCEPT ![h] = t],
         UNCHANGED <<args, queue, seen, error, main, origin>>,
         power' \in [Host -> State], stale' \subseteq Host, pending' \subseteq Host,
         faults' \in Nat, lost' \in Nat, lost' = 0 => lost = 0
  PROVE  Control'
<1> USE DEF Control
<1>0. task \in [Host -> Status] /\ task' \in [Host -> Status]
  BY Types DEF Running, Status
<1>1. TypeOK'
  <2>1. Cardinality(Active') <= Workers
    BY <1>0, FewerActive
  <2>2. ToSet(queue') = {g \in Host : task'[g] = "queued"}
    BY <1>0 DEF TypeOK, Running
  <2>3. seen' \subseteq Finished'
    BY <1>0 DEF TypeOK, Finished, Running
  <2>4. power' \in [Host -> {"up", "going", "down", "ssh"}]
    BY DEF State
  <2>5. task' \in [Host -> {"none", "queued", "work", "reboot", "down", "up", "xapi", "enabled",
                           "done", "failed"}]
    BY <1>0 DEF Running, Status
  <2> QED
    BY <2>1, <2>2, <2>3, <2>4, <2>5 DEF TypeOK
<1>2. phase \in {"masters", "others"}
  BY DEF Idle, Inside, TypeOK, Running
<1>3. Idle'
  BY <1>2 DEF Idle, Inside
<1>4. Submissions'
  BY <1>0, <1>2 DEF Submissions, Running
<1>5. Consumed'
  BY <1>0, <1>2 DEF Consumed, Inside, TypeOK, Finished, Running
<1>6. SnapshotsFit' /\ OkMeansAll'
  BY <1>2 DEF SnapshotsFit, OkMeansAll
<1> QED
  BY <1>1, <1>3, <1>4, <1>5, <1>6

\* What is said of the hosts.
Hosts == Powers /\ Smooth /\ Pendings

LEMMA ThreadStep == ASSUME IInv, NEW h \in Host, Thread(h) PROVE IInv'
<1> USE DEF Running, State, FaultFree
<1>0. /\ Control /\ Hosts /\ TypeOK
      /\ task \in [Host -> Status] /\ power \in [Host -> State]
      /\ faults \in Nat /\ lost \in Nat
  BY Types DEF IInv, Control, Hosts, TypeOK
<1>1. CASE Update(h)
  <2>1. /\ tool = "update" /\ task[h] = "work" /\ stale' = stale \ {h}
        /\ task' = [task EXCEPT ![h] = IF reboot /\ h \in stale THEN "reboot" ELSE "done"]
        /\ pending' = IF h \in stale THEN pending \union {h} ELSE pending
        /\ UNCHANGED <<power, args, queue, seen, error, main, origin, faults, lost>>
    BY <1>1 DEF Update
  <2>2. Control'
    BY <1>0, <2>1, Advance DEF TypeOK
  <2>3. Powers'
    BY <1>0, <2>1 DEF Hosts, Powers, Fits
  <2>4. Smooth'
    BY <1>0, <2>1 DEF Hosts, Smooth, Fits
  <2>5. Pendings'
    BY <1>0, <2>1 DEF Hosts, Pendings, Powers, Fits
  <2> QED
    BY <2>2, <2>3, <2>4, <2>5 DEF IInv, Control
<1>2. CASE Exec(h)
  <2>1. /\ tool = "exec" /\ task[h] = "work"
        /\ task' = [task EXCEPT ![h] = IF reboot THEN "reboot" ELSE "done"]
        /\ UNCHANGED <<machine, args, queue, seen, error, main, origin, faults, lost>>
    BY <1>2 DEF Exec
  <2>2. Control'
    BY <1>0, <2>1, Advance DEF TypeOK
  <2>3. Powers'
    BY <1>0, <2>1 DEF Hosts, Powers, Fits
  <2>4. Smooth'
    BY <1>0, <2>1 DEF Hosts, Smooth, Fits
  <2>5. Pendings'
    BY <1>0, <2>1 DEF Hosts, Pendings, Powers, Fits
  <2> QED
    BY <2>2, <2>3, <2>4, <2>5 DEF IInv, Control
<1>3. CASE Reboot(h)
  <2>1. /\ task[h] = "reboot" /\ power' = [power EXCEPT ![h] = "going"]
        /\ task' = [task EXCEPT ![h] = "down"]
        /\ UNCHANGED <<stale, pending, args, queue, seen, error, main, origin, faults, lost>>
    BY <1>3 DEF Reboot
  <2>2. Control'
    BY <1>0, <2>1, Advance DEF TypeOK
  <2>3. Powers'
    BY <1>0, <2>1 DEF Hosts, Powers, Fits
  <2>4. Smooth'
    BY <1>0, <2>1 DEF Hosts, Smooth, Fits
  <2>5. Pendings'
    BY <1>0, <2>1 DEF Hosts, Pendings, Powers, Fits
  <2> QED
    BY <2>2, <2>3, <2>4, <2>5 DEF IInv, Control
<1>4. CASE AwaitDown(h)
  <2>1. /\ task[h] = "down" /\ task' = [task EXCEPT ![h] = "up"]
        /\ (lost' = lost /\ power[h] = "down") \/ lost' = lost + 1
        /\ UNCHANGED <<machine, args, queue, seen, error, main, origin, faults>>
    BY <1>4 DEF AwaitDown
  <2>2. Control'
    <3>1. lost' \in Nat /\ (lost' = 0 => lost = 0) /\ stale \subseteq Host /\ pending \subseteq Host
      BY <1>0, <2>1 DEF TypeOK
    <3> QED
      BY <1>0, <2>1, <3>1, Advance
  <2>3. Powers'
    BY <1>0, <2>1 DEF Hosts, Powers, Fits
  <2>4. Smooth'
    BY <1>0, <2>1 DEF Hosts, Smooth, Fits
  <2>5. Pendings'
    BY <1>0, <2>1 DEF Hosts, Pendings, Powers, Fits
  <2> QED
    BY <2>2, <2>3, <2>4, <2>5 DEF IInv, Control
<1>5. CASE AwaitUp(h)
  <2>1. /\ task[h] = "up" /\ power[h] \in {"ssh", "up", "going"} /\ task' = [task EXCEPT ![h] = "xapi"]
        /\ UNCHANGED <<machine, args, queue, seen, error, main, origin, faults, lost>>
    BY <1>5 DEF AwaitUp, Reachable
  <2>2. Control'
    BY <1>0, <2>1, Advance DEF TypeOK
  <2>3. Powers'
    BY <1>0, <2>1 DEF Hosts, Powers, Fits
  <2>4. Smooth'
    BY <1>0, <2>1 DEF Hosts, Smooth, Fits
  <2>5. Pendings'
    BY <1>0, <2>1 DEF Hosts, Pendings, Powers, Fits
  <2> QED
    BY <2>2, <2>3, <2>4, <2>5 DEF IInv, Control
<1>6. CASE AwaitXapi(h)
  <2>1. /\ task[h] = "xapi" /\ power[h] \in {"up", "going"} /\ task' = [task EXCEPT ![h] = "enabled"]
        /\ UNCHANGED <<machine, args, queue, seen, error, main, origin, faults, lost>>
    BY <1>6 DEF AwaitXapi, XapiUp
  <2>2. Control'
    BY <1>0, <2>1, Advance DEF TypeOK
  <2>3. Powers'
    BY <1>0, <2>1 DEF Hosts, Powers, Fits
  <2>4. Smooth'
    BY <1>0, <2>1 DEF Hosts, Smooth, Fits
  <2>5. Pendings'
    BY <1>0, <2>1 DEF Hosts, Pendings, Powers, Fits
  <2> QED
    BY <2>2, <2>3, <2>4, <2>5 DEF IInv, Control
<1>7. CASE IsEnabled(h)
  <2>1. /\ task[h] = "enabled"
        /\ task' = [task EXCEPT ![h] = IF XapiUp(h) /\ XapiUp(MasterOf[h]) THEN "done" ELSE "failed"]
        /\ UNCHANGED <<machine, args, queue, seen, error, main, origin, faults, lost>>
    BY <1>7 DEF IsEnabled
  <2>2. Control'
    BY <1>0, <2>1, Advance DEF TypeOK
  <2>3. Powers'
    BY <1>0, <2>1 DEF Hosts, Powers, Fits
  <2>4. Smooth'
    <3>1. FaultFree => power[h] = "up"
      BY <1>0, <2>1 DEF Hosts, Smooth, Fits
    <3>2. FaultFree /\ ~parallel => XapiUp(MasterOf[h])
      <4>1. CASE h \in Masters
        BY <3>1, <4>1 DEF XapiUp
      <4>2. CASE h \notin Masters
        <5>1. phase \in {"masters", "others"}
          BY <1>0, <2>1 DEF Control, Idle, Inside, TypeOK
        <5>2. ~parallel => task[MasterOf[h]] \in {"done", "failed"} /\ MasterOf[h] \in Host
          BY <1>0, <2>1, <4>2, <5>1 DEF Control, Submissions
        <5> QED
          BY <1>0, <5>2 DEF Hosts, Smooth, Fits, XapiUp
      <4> QED
        BY <4>1, <4>2
    <3> QED
      BY <1>0, <2>1, <3>1, <3>2 DEF Hosts, Smooth, Fits, XapiUp
  <2>5. Pendings'
    BY <1>0, <2>1 DEF Hosts, Pendings, Powers, Fits
  <2> QED
    BY <2>2, <2>3, <2>4, <2>5 DEF IInv, Control
<1>8. CASE Unreachable(h)
  <2>1. /\ task[h] \in {"work", "reboot", "xapi"} /\ ~(power[h] \in {"ssh", "up", "going"})
        /\ task' = [task EXCEPT ![h] = "failed"]
        /\ UNCHANGED <<machine, args, queue, seen, error, main, origin, faults, lost>>
    BY <1>8 DEF Unreachable, Reachable
  <2>2. Control'
    BY <1>0, <2>1, Advance DEF TypeOK
  <2>3. Powers'
    BY <1>0, <2>1 DEF Hosts, Powers, Fits
  <2>4. Smooth'
    BY <1>0, <2>1 DEF Hosts, Smooth, Fits
  <2>5. Pendings'
    BY <1>0, <2>1 DEF Hosts, Pendings, Powers, Fits
  <2> QED
    BY <2>2, <2>3, <2>4, <2>5 DEF IInv, Control
<1> QED
  BY <1>1, <1>2, <1>3, <1>4, <1>5, <1>6, <1>7, <1>8 DEF Thread
\* A failure touches the host of the task only, and is remembered.
LEMMA FailStep == ASSUME IInv, NEW h \in Host, Fail(h) PROVE IInv'
<1> USE DEF Running, State, FaultFree
<1>0. /\ Control /\ Hosts /\ TypeOK
      /\ task \in [Host -> Status] /\ power \in [Host -> State]
      /\ faults \in Nat /\ lost \in Nat
  BY Types DEF IInv, Control, Hosts, TypeOK
<1>1. /\ task[h] \in Running /\ task' = [task EXCEPT ![h] = "failed"] /\ faults' = faults + 1
      /\ UNCHANGED <<args, queue, seen, error, main, origin, lost>>
      /\ power' \in {power, [power EXCEPT ![h] = "going"]}
      /\ stale' \in {stale, stale \ {h}} /\ pending' \in {pending, pending \cup {h}}
  BY <1>0, Types DEF Fail
<1>2. /\ faults' \in Nat /\ faults' # 0
      /\ power' \in [Host -> State] /\ stale' \subseteq Host /\ pending' \subseteq Host
  BY <1>0, <1>1 DEF TypeOK
<1>3. Control'
  BY <1>0, <1>1, <1>2, Advance
<1>4. Powers'
  BY <1>0, <1>1 DEF Hosts, Powers, Fits
<1>5. Smooth'
  BY <1>2 DEF Smooth
<1>6. Pendings'
  <2>1. /\ task'[h] = "failed"
        /\ \A g \in Host \ {h} : /\ task'[g] = task[g] /\ power'[g] = power[g]
                                  /\ g \in pending' => g \in pending
    BY <1>0, <1>1
  <2>2. pending' \subseteq Host
    BY <1>2
  <2> QED
    BY <1>0, <1>1, <2>1, <2>2 DEF Hosts, Pendings
<1> QED
  BY <1>3, <1>4, <1>5, <1>6 DEF IInv, Control

\* A host goes through its reboot.
LEMMA MachineStep == ASSUME IInv, NEW h \in Host, Machine(h) PROVE IInv'
<1> USE DEF State, FaultFree
<1>0. /\ Control /\ Hosts /\ TypeOK
      /\ task \in [Host -> Status] /\ power \in [Host -> State]
  BY Types DEF IInv, Control, Hosts, TypeOK
<1>1. UNCHANGED <<stale, args, threads, main, origin, faults, lost>>
  BY DEF Machine
<1>2. /\ \E s \in State : power' = [power EXCEPT ![h] = s]
      /\ pending' \subseteq pending
  BY DEF Machine, GoDown, Boot, XapiStarts
<1>3. Control'
  <2>1. TypeOK'
    BY <1>0, <1>1, <1>2 DEF TypeOK, Active, Finished, Submitted
  <2>2. Idle' /\ Submissions' /\ Consumed'
    BY <1>0, <1>1 DEF Control, Idle, Inside, Submissions, Consumed
  <2>3. SnapshotsFit' /\ OkMeansAll'
    BY <1>0, <1>1 DEF Control, SnapshotsFit, OkMeansAll, Finished
  <2> QED
    BY <2>1, <2>2, <2>3 DEF Control
<1>4. /\ \A g \in Host \ {h} : power'[g] = power[g]
      /\ \/ power[h] = "going" /\ power'[h] = "down" /\ pending' = pending
         \/ power[h] = "down" /\ task[h] # "down" /\ power'[h] = "ssh" /\ pending' = pending \ {h}
         \/ power[h] = "ssh" /\ power'[h] = "up" /\ pending' = pending
  BY <1>0 DEF Machine, GoDown, Boot, XapiStarts
<1>5. Powers'
  BY <1>0, <1>1, <1>4 DEF Hosts, Powers, Fits
<1>6. Smooth'
  BY <1>0, <1>1, <1>4 DEF Hosts, Smooth, Fits
<1>7. Pendings'
  <2> SUFFICES ASSUME lost = 0, tool = "update", reboot, NEW g \in pending' \ left
               PROVE  \/ task[g] \in {"reboot", "down", "failed"}
                      \/ task[g] = "up" /\ power'[g] = "down"
    BY <1>1 DEF Pendings
  <2>1. /\ g \in Host /\ g \in pending
        /\ task[g] \in {"reboot", "down", "failed"} \/ (task[g] = "up" /\ power[g] = "down")
    BY <1>0, <1>2 DEF Hosts, Pendings, TypeOK
  <2>2. CASE g = h
    BY <1>4, <2>1, <2>2
  <2>3. CASE g # h
    BY <1>4, <2>1, <2>3
  <2> QED
    BY <2>2, <2>3
<1> QED
  BY <1>3, <1>5, <1>6, <1>7 DEF IInv, Control
\* A step that leaves the tasks, the hosts and the counts alone keeps what is
\* said of the hosts.
LEMMA HostsKept ==
  ASSUME Hosts, UNCHANGED <<machine, args, task, left, faults, lost>>,
         outcome' # "error" \/ outcome' = outcome \/ parallel \/ ~FaultFree,
         error' = error \/ ~error' \/ parallel \/ ~FaultFree
  PROVE  Hosts'
  BY DEF Hosts, Powers, Smooth, Pendings, Fits, FaultFree

\* A run starts with no task, and with every host not up in `left`.
LEMMA StartStep == ASSUME IInv, NEW t \in {"update", "exec"}, NEW p \in BOOLEAN, NEW r \in BOOLEAN,
                          Start(t, p, r) PROVE IInv'
<1>0. /\ TypeOK /\ Idle /\ Hosts /\ task \in [Host -> Status] /\ power \in [Host -> State]
  BY Types DEF IInv, Hosts
<1>1. /\ phase = "idle" /\ phase' = "begin" /\ outcome' = "none" /\ unfit' = {}
      /\ task' = [h \in Host |-> "none"] /\ seen' = {} /\ error' = FALSE
      /\ tool' = t /\ parallel' = p /\ reboot' = r /\ runs' = runs + 1
      /\ left' = pending \union {h \in Host : power[h] # "up"}
      /\ UNCHANGED <<power, stale, pending, queue, todo, faults, lost>>
  BY DEF Start
<1>2. TypeOK'
  <2>1. Cardinality(Active') <= Workers
    BY <1>0, <1>1, FewerActive DEF Status, Running
  <2>2. {h \in Host : task[h] = "queued"} = {} /\ {h \in Host : task'[h] = "queued"} = {}
    BY <1>0, <1>1 DEF Idle, Inside
  <2>3. task' \in [Host -> {"none", "queued", "work", "reboot", "down", "up", "xapi", "enabled",
                           "done", "failed"}]
    BY <1>1
  <2>4. left' \subseteq Host /\ runs' \in Nat /\ seen' \subseteq Finished'
    BY <1>0, <1>1 DEF TypeOK
  <2> QED
    BY <1>0, <1>1, <2>1, <2>2, <2>3, <2>4 DEF TypeOK
<1>3. Idle' /\ Submissions' /\ Consumed' /\ SnapshotsFit' /\ OkMeansAll'
  BY <1>1 DEF Idle, Inside, Submissions, Consumed, SnapshotsFit, OkMeansAll
<1>4. Powers' /\ Pendings'
  BY <1>1 DEF Powers, Pendings, Fits
<1>5. Smooth'
  <2> SUFFICES ASSUME FaultFree PROVE \A h \in Host : power[h] = "up"
    BY <1>1 DEF Smooth, Fits, FaultFree
  <2> QED
    BY <1>0, <1>1 DEF Idle, Inside, Hosts, Smooth, Fits
<1> QED
  BY <1>2, <1>3, <1>4, <1>5 DEF IInv

\* What the executor is given begins in the queue.
LEMMA Submitting ==
  ASSUME TypeOK, NEW S \in SUBSET Host, NEW q, IsListOf(q, S), Submit(q),
         \A h \in S : task[h] = "none",
         \A h \in Host : task[h] \in {"none", "done", "failed"},
         UNCHANGED <<machine, args, seen, error, origin, todo, unfit, outcome, faults, lost>>,
         phase' \in {"masters", "others"}
  PROVE  /\ TypeOK' /\ \A h \in Host : task'[h] = IF h \in S THEN "queued" ELSE task[h]
<1>0. task \in [Host -> Status]
  BY Types
<1>1. /\ queue' = q /\ task' = [h \in Host |-> IF h \in S THEN "queued" ELSE task[h]]
      /\ task' \in [Host -> Status]
  BY <1>0 DEF Submit, IsListOf, Status, Running
<1>2. q \in Seq(Host) /\ ToSet(q) = S /\ IsInjective(q)
  BY SeqMonotonic DEF IsListOf
<1>3. Cardinality(Active') <= Workers
  BY <1>0, <1>1, FewerActive DEF Running
<1>4. ToSet(queue') = {h \in Host : task'[h] = "queued"}
  BY <1>1, <1>2
<1>5. seen' \subseteq Finished'
  BY <1>1 DEF TypeOK, Finished
<1>6. TypeOK'
  BY <1>1, <1>2, <1>3, <1>4, <1>5 DEF TypeOK, Status, Running
<1> QED
  BY <1>1, <1>6

LEMMA BeginStep == ASSUME IInv, Begin PROVE IInv'
<1>0. /\ TypeOK /\ Submissions /\ Hosts /\ SnapshotsFit
      /\ phase = "begin" /\ outcome = "none" /\ ~error /\ seen = {} /\ \A h \in Host : task[h] = "none"
  BY DEF IInv, Hosts, Begin, Submissions
<1>1. UNCHANGED <<machine, args, seen, error, todo, unfit, origin, faults, lost>>
  BY DEF Begin
<1>2. CASE phase' = "masters" /\ SubmitFirst /\ UNCHANGED outcome
  <2> DEFINE S == IF parallel THEN Host ELSE Masters
             q == IF ~parallel THEN PoolMasters
                  ELSE IF tool = "exec" THEN PoolHosts ELSE PoolMasters \o PoolOthers
  <2>1. IsListOf(q, S) /\ S \in SUBSET Host /\ Submit(q)
    BY <1>2, AllHosts DEF SubmitFirst
  <2> HIDE DEF q
  <2>2. TypeOK' /\ \A h \in Host : task'[h] = IF h \in S THEN "queued" ELSE task[h]
    BY <1>0, <1>1, <1>2, <2>1, Submitting
  <2>3. Idle' /\ Consumed' /\ SnapshotsFit' /\ OkMeansAll'
    BY <1>0, <1>1, <1>2 DEF Idle, Inside, Consumed, SnapshotsFit, OkMeansAll
  <2>4. Submissions'
    BY <1>0, <1>1, <1>2, <2>2 DEF Submissions
  <2>5. \A h \in Host : task[h] = "none" /\ task'[h] \in {"none", "queued"}
    BY <1>0, <2>2
  <2>6. Powers'
    BY <1>0, <1>1, <2>5 DEF Hosts, Powers, Fits
  <2>7. Smooth'
    BY <1>0, <1>1, <1>2, <2>5 DEF Hosts, Smooth, Fits, FaultFree
  <2>8. Pendings'
    BY <1>0, <1>1, <2>5 DEF Hosts, Pendings, TypeOK
  <2> QED
    BY <2>2, <2>3, <2>4, <2>6, <2>7, <2>8 DEF IInv
<1>3. CASE /\ phase' = "idle" /\ outcome' = "error" /\ UNCHANGED <<queue, task>>
           /\ ~(\A h \in Host : Reachable(h) /\ XapiUp(MasterOf[h]))
  <2>1. TypeOK'
    BY <1>0, <1>1, <1>3 DEF TypeOK, Active, Submitted, Finished
  <2>2. Idle' /\ Consumed' /\ SnapshotsFit' /\ OkMeansAll' /\ Submissions'
    BY <1>0, <1>1, <1>3 DEF Idle, Inside, Consumed, SnapshotsFit, OkMeansAll, Submissions
  <2>3. ~FaultFree
    BY <1>0, <1>3 DEF Hosts, Smooth, Fits, Reachable, XapiUp
  <2>4. Hosts'
    BY <1>0, <1>1, <1>3, <2>3, HostsKept
  <2> QED
    BY <2>1, <2>2, <2>4 DEF IInv, Hosts
<1> QED
  BY <1>2, <1>3 DEF Begin, End

\* The main thread looks at what is over.
LEMMA ConsumeStep == ASSUME IInv, NEW h \in Host, Consume(h) PROVE IInv'
<1>0. /\ TypeOK /\ Idle /\ Submissions /\ Consumed /\ Hosts /\ SnapshotsFit /\ OkMeansAll
  BY DEF IInv, Hosts
<1>1. /\ phase \in {"masters", "others"} /\ ~error
      /\ h \in Finished \ seen /\ seen' = seen \union {h}
      /\ error' = (tool = "update" /\ task[h] = "failed")
      /\ UNCHANGED <<machine, args, queue, task, main, origin, faults, lost>>
  BY DEF Consume
<1>2. TypeOK'
  BY <1>0, <1>1 DEF TypeOK, Active, Submitted, Finished
<1>3. Idle' /\ Submissions' /\ SnapshotsFit' /\ OkMeansAll'
  BY <1>0, <1>1 DEF Idle, Inside, Submissions, SnapshotsFit, OkMeansAll
<1>4. Consumed'
  BY <1>0, <1>1 DEF Consumed, Inside, Finished
<1>5. Hosts'
  <2>1. error' => parallel \/ ~FaultFree
    BY <1>0, <1>1 DEF Hosts, Smooth
  <2> QED
    BY <1>0, <1>1, <2>1, HostsKept
<1> QED
  BY <1>2, <1>3, <1>4, <1>5 DEF IInv, Hosts
\* The executor is left when everything it was given is over.
LEMMA NextPoolStep == ASSUME IInv, NextPool PROVE IInv'
<1>0. /\ TypeOK /\ Idle /\ Submissions /\ Consumed /\ Hosts /\ SnapshotsFit /\ OkMeansAll
      /\ task \in [Host -> Status]
  BY Types DEF IInv, Hosts
<1>1. /\ phase \in {"masters", "others"} /\ Finished = Submitted /\ (error \/ seen = Submitted)
      /\ UNCHANGED <<machine, args, seen, error, unfit, origin, faults, lost>>
  BY DEF NextPool, LeaveExecutor
<1>2. \A h \in Host : task[h] \in {"none", "done", "failed"}
  BY <1>0, <1>1 DEF Finished, Submitted
<1>3. ~error /\ tool = "update" => \A h \in Submitted : task[h] = "done"
  BY <1>0, <1>1 DEF Consumed, Inside
<1>4. phase = "others" \/ parallel => \A h \in Host : task[h] # "none"
  BY <1>0, <1>1 DEF Submissions
<1>5. CASE error /\ End("error") /\ UNCHANGED <<queue, task, todo>>
  <2>1. TypeOK'
    BY <1>0, <1>1, <1>5 DEF TypeOK, End, Active, Submitted, Finished
  <2>2. Idle' /\ Consumed' /\ SnapshotsFit' /\ OkMeansAll' /\ Submissions'
    BY <1>0, <1>1, <1>2, <1>5 DEF Idle, Inside, Consumed, SnapshotsFit, OkMeansAll, Submissions, End
  <2>3. Hosts'
    <3>1. parallel \/ ~FaultFree
      BY <1>0, <1>5 DEF Hosts, Smooth
    <3> QED
      BY <1>0, <1>1, <1>5, <3>1, HostsKept
  <2> QED
    BY <2>1, <2>2, <2>3 DEF IInv, Hosts
<1>6. CASE /\ ~error /\ phase = "masters" /\ ~parallel
           /\ phase' = "others" /\ Submit(PoolOthers) /\ UNCHANGED <<outcome, todo>>
  <2> DEFINE S == Host \ Masters
  <2>1. IsListOf(PoolOthers, S) /\ S \in SUBSET Host /\ \A h \in S : task[h] = "none"
    <3>1. S = {h \in Host : MasterOf[h] # h}
      OBVIOUS
    <3> QED
      BY <1>0, <1>6, <3>1 DEF Submissions
  <2>2. TypeOK' /\ \A h \in Host : task'[h] = IF h \in S THEN "queued" ELSE task[h]
    BY <1>0, <1>1, <1>2, <1>6, <2>1, Submitting
  <2>3. \A m \in Masters : task[m] # "none" /\ task'[m] = task[m]
    BY <1>0, <1>6, <2>2 DEF Submissions
  <2>4. Idle' /\ SnapshotsFit' /\ OkMeansAll'
    BY <1>0, <1>1, <1>6 DEF Idle, Inside, SnapshotsFit, OkMeansAll
  <2>5. Consumed'
    BY <1>0, <1>1, <1>6, <2>1, <2>2 DEF Consumed, Inside, TypeOK, Finished
  <2>6. Submissions'
    BY <1>1, <1>2, <1>3, <1>6, <2>2, <2>3 DEF Submissions, Submitted
  <2>7. Powers'
    BY <1>0, <1>1, <2>1, <2>2 DEF Hosts, Powers, Fits
  <2>8. Smooth'
    BY <1>0, <1>1, <1>6, <2>1, <2>2 DEF Hosts, Smooth, Fits, FaultFree
  <2>9. Pendings'
    BY <1>0, <1>1, <2>1, <2>2 DEF Hosts, Pendings, TypeOK
  <2> QED
    BY <2>2, <2>4, <2>5, <2>6, <2>7, <2>8, <2>9 DEF IInv
<1>7. CASE /\ ~error /\ (phase = "others" \/ parallel)
           /\ \/ tool = "exec" /\ End("ok")
              \/ tool = "update" /\ phase' = "after" /\ UNCHANGED outcome
           /\ UNCHANGED <<queue, task, todo>>
  <2>1. TypeOK'
    BY <1>0, <1>1, <1>7 DEF TypeOK, End, Active, Submitted, Finished
  <2>2. Finished' = Host /\ (tool = "update" => \A h \in Host : task[h] = "done")
    BY <1>0, <1>1, <1>2, <1>3, <1>4, <1>7 DEF Finished, Submitted
  <2>3. Idle' /\ Consumed' /\ SnapshotsFit'
    BY <1>0, <1>1, <1>2, <1>7 DEF Idle, Inside, Consumed, SnapshotsFit, End
  <2>4. OkMeansAll' /\ Submissions'
    BY <1>1, <1>7, <2>2 DEF OkMeansAll, Submissions, End
  <2>5. Hosts'
    BY <1>0, <1>1, <1>7, HostsKept DEF End
  <2> QED
    BY <2>1, <2>3, <2>4, <2>5 DEF IInv, Hosts
<1> QED
  BY <1>1, <1>5, <1>6, <1>7 DEF NextPool

\* After the updates: the packages are listed, and the nested hosts snapshotted.
LEMMA AfterStep == ASSUME IInv, After \/ Updated \/ (\E h \in Host : Snapshot(h)) PROVE IInv'
<1>0. /\ TypeOK /\ Idle /\ Submissions /\ Consumed /\ Hosts /\ SnapshotsFit /\ OkMeansAll
  BY DEF IInv, Hosts
<1>1. /\ phase \in {"after", "snapshot"} /\ phase' \in {"snapshot", "idle"}
      /\ UNCHANGED <<machine, args, threads, origin, lost>>
      /\ tool = "update" /\ \A h \in Host : task[h] = "done"
  BY <1>0 DEF After, Updated, Snapshot, End, Submissions
<1>2. TypeOK'
  <2>1. phase' \in {"idle", "snapshot"} /\ todo' \subseteq Nested /\ unfit' \subseteq Nested
        /\ outcome' \in {"none", "ok", "error"} /\ faults' \in Nat
    BY <1>0, <1>1 DEF After, Updated, Snapshot, End, TypeOK
  <2> QED
    BY <1>0, <1>1, <2>1 DEF TypeOK, Active, Submitted, Finished
<1>3. Idle' /\ Submissions' /\ Consumed' /\ OkMeansAll'
  BY <1>1 DEF Idle, Inside, Submissions, Consumed, OkMeansAll, Finished
<1>4. SnapshotsFit'
  <2>1. CASE UNCHANGED unfit
    BY <1>0, <1>1, <2>1 DEF SnapshotsFit
  <2>2. CASE \E h \in Host :
                /\ h \in Nested
                /\ unfit' = IF power[h] # "up" \/ h \in pending THEN unfit \union {h} ELSE unfit
    BY <1>0, <1>1, <2>2 DEF SnapshotsFit, Hosts, Powers, Pendings, Fits, TypeOK
  <2> QED
    BY <1>0, <2>1, <2>2 DEF After, Updated, Snapshot, TypeOK
<1>5. Hosts'
  <2>1. CASE UNCHANGED <<outcome, faults>>
    BY <1>0, <1>1, <2>1, HostsKept
  <2>2. CASE outcome' = "ok" /\ UNCHANGED faults
    BY <1>0, <1>1, <2>2, HostsKept
  <2>3. CASE outcome' = "error" /\ UNCHANGED faults /\ ~(\A h \in Host : Reachable(h))
    <3>1. ~FaultFree
      BY <1>0, <1>1, <2>3 DEF Hosts, Smooth, Fits, Reachable
    <3> QED
      BY <1>0, <1>1, <2>3, <3>1, HostsKept
  <2>4. CASE faults' = faults + 1
    BY <1>0, <1>1, <2>4 DEF Hosts, Powers, Smooth, Pendings, Fits, FaultFree, TypeOK
  <2> QED
    BY <2>1, <2>2, <2>3, <2>4 DEF After, Updated, Snapshot, End
<1> QED
  BY <1>2, <1>3, <1>4, <1>5 DEF IInv, Hosts

\* A thread takes the first task of the queue.
LEMMA TakeStep == ASSUME IInv, Take PROVE IInv'
<1>0. /\ TypeOK /\ Idle /\ Submissions /\ Consumed /\ Hosts /\ SnapshotsFit /\ OkMeansAll
      /\ task \in [Host -> Status]
  BY Types DEF IInv, Hosts
<1> DEFINE h == Head(queue)
<1>1. /\ queue # <<>> /\ Cardinality(Active) < Workers /\ queue' = Tail(queue)
      /\ task' = [task EXCEPT ![h] = "work"]
      /\ UNCHANGED <<machine, args, seen, error, main, origin, faults, lost>>
  BY DEF Take
<1>2. /\ h \in Host /\ task[h] = "queued" /\ Tail(queue) \in Seq(Host) /\ IsInjective(Tail(queue))
      /\ ToSet(Tail(queue)) = {g \in Host : task[g] = "queued"} \ {h}
  BY <1>0, <1>1, TakeFirst DEF TypeOK
<1> HIDE DEF h
<1>3. task' \in [Host -> Status]
  BY <1>0, <1>1 DEF Status, Running
<1>4. Cardinality(Active') <= Workers
  <2>1. IsFiniteSet(Active) /\ Active' = Active \cup {h}
    <3>1. Active = {g \in Host : task[g] \in Running} /\ Active' = {g \in Host : task'[g] \in Running}
      BY <1>0, <1>3, Types DEF Active, Submitted, Finished, Running, Status
    <3> QED
      BY <1>0, <1>1, <1>2, <3>1, HostsFinite, FS_Subset DEF Running
  <2>2. Cardinality(Active) \in Nat
    BY <2>1, FS_CardinalityType
  <2>3. Cardinality(Active \cup {h}) = IF h \in Active THEN Cardinality(Active) ELSE Cardinality(Active) + 1
    BY <2>1, FS_AddElement
  <2>4. Cardinality(Active') <= Cardinality(Active) + 1
    BY <2>1, <2>2, <2>3
  <2>5. Cardinality(Active') \in Nat
    BY <2>1, <2>2, <2>3
  <2> QED
    BY <1>1, <2>2, <2>4, <2>5
<1>5. TypeOK'
  <2>1. ToSet(queue') = {g \in Host : task'[g] = "queued"}
    BY <1>0, <1>1, <1>2
  <2>2. seen' \subseteq Finished'
    BY <1>0, <1>1, <1>2 DEF TypeOK, Finished
  <2> QED
    BY <1>0, <1>1, <1>2, <1>3, <1>4, <2>1, <2>2 DEF TypeOK, Status, Running
<1>6. phase \in {"masters", "others"}
  BY <1>0, <1>2 DEF Idle, Inside
<1>7. Idle' /\ SnapshotsFit' /\ OkMeansAll'
  BY <1>0, <1>1, <1>6 DEF Idle, Inside, SnapshotsFit, OkMeansAll
<1>8. Submissions' /\ Consumed'
  BY <1>0, <1>1, <1>2, <1>6 DEF Submissions, Consumed, Inside, TypeOK, Finished
<1>9. Powers' /\ Smooth' /\ Pendings'
  BY <1>0, <1>1, <1>2 DEF Hosts, Powers, Smooth, Pendings, Fits, FaultFree
<1> QED
  BY <1>5, <1>7, <1>8, <1>9 DEF IInv

LEMMA InitIInv == Init => IInv
<1> SUFFICES ASSUME Init PROVE IInv
  OBVIOUS
<1>1. TypeOK
  <2>1. Active = {} /\ ToSet(<<>>) = {} /\ <<>> \in Seq(Host) /\ IsInjective(<<>>)
    BY EmptySeq DEF Init, Active, Submitted, ToSet, IsInjective
  <2>2. Cardinality(Active) <= Workers
    BY <2>1, FS_EmptySet
  <2> QED
    BY <2>1, <2>2 DEF Init, TypeOK
<1>2. Idle /\ Submissions /\ Consumed /\ SnapshotsFit /\ OkMeansAll
  BY DEF Init, Idle, Inside, Submissions, Consumed, SnapshotsFit, OkMeansAll
<1>3. Powers /\ Smooth /\ Pendings
  BY DEF Init, Powers, Smooth, Pendings, Fits
<1> QED
  BY <1>1, <1>2, <1>3 DEF IInv

LEMMA NextIInv == IInv /\ [Next]_vars => IInv'
<1> SUFFICES ASSUME IInv, [Next]_vars PROVE IInv'
  OBVIOUS
<1>1. CASE UNCHANGED vars
  BY <1>1 DEF IInv, TypeOK, Active, Submitted, Finished, Idle, Inside, Submissions, Consumed, Powers,
     Smooth, FaultFree, Pendings, Fits, SnapshotsFit, OkMeansAll
<1>2. CASE Main
  BY <1>2, BeginStep, NextPoolStep, AfterStep, ConsumeStep DEF Main
<1> QED
  BY <1>1, <1>2, StartStep, TakeStep, ThreadStep, FailStep, MachineStep DEF Next

LEMMA Invariance == Spec => []IInv
  BY InitIInv, NextIInv, PTL DEF Spec

\* In every run, with any number of threads: the tasks are those of the queue or
\* of a thread, and there are never more of them at work than threads.
THEOREM TypeCorrect == Spec => []TypeOK
<1>1. IInv => TypeOK
  BY DEF IInv
<1> QED
  BY <1>1, Invariance, PTL

\* No host that is not a master is updated before every master of every pool
\* is, and has come back (update_pools).
THEOREM MastersAlwaysFirst == Spec => []MastersFirst
<1>1. IInv => MastersFirst
  BY DEF IInv, MastersFirst, Submissions, Powers, Fits
<1> QED
  BY <1>1, Invariance, PTL

\* The outcome of every run is true: an error has a cause, a success has
\* updated every host, rebooted it and snapshotted it afterwards
\* (update_pools, exec_pools).
THEOREM OutcomeAlwaysTrue == Spec => []OutcomeIsTrue
<1>1. IInv => NoSpuriousFailure
  BY DEF IInv, NoSpuriousFailure, Smooth, FaultFree
<1>2. IInv => RebootedWhenUpdated
  BY DEF IInv, RebootedWhenUpdated, Pendings, OkMeansAll, TypeOK
<1>3. IInv => OutcomeIsTrue
  BY <1>1, <1>2 DEF IInv, OutcomeIsTrue
<1> QED
  BY <1>3, Invariance, PTL

=============================================================================
