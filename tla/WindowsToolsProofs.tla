------------------------- MODULE WindowsToolsProofs -------------------------
(***************************************************************************)
(* Proofs about WindowsTools, for every bound on tests, troubles and       *)
(* missing drives, and for packages that need test signing or not.         *)
(*                                                                         *)
(* What the guest does depends on the statements still to run, so the      *)
(* inductive invariant is mostly about them: a statement that makes the    *)
(* guest shut down is followed by the wait for it, and one that installs   *)
(* drivers comes after those that prepare the guest.  The second part      *)
(* outlines the rest of the program, mark by mark: with one missing drive  *)
(* at most, every statement finds the guest as it needs it.                *)
(***************************************************************************)
EXTENDS WindowsTools, TLAPS

\* Every statement of a program.
Statements ==
    {"vm-start", "start if off", "running?", "ssh?", "halted?", "shutdown.exe", "eject", "eject cd",
     "insert", "drive?", "TimeoutError", "drive still there?", "enable_testsign", "secureboot off",
     "certutil", "bcdedit", "vendor device", "copy", "msiexec /i &", "install-drivers.ps1 &",
     "msiexec /x &", "XenClean &", "msiexec /i", "offboarded?", "working?", "uninstalled?", "yield"}

\* The guest shuts down after these, now or when the installer is done.
GivesShutdown == {"shutdown.exe", "bcdedit", "msiexec /i &", "install-drivers.ps1 &", "msiexec /x &", "XenClean &"}

DriverInstalls == {"msiexec /i &", "install-drivers.ps1 &", "msiexec /i"}

\* The harness waits for every shutdown that it asks for.
Waits(s) ==
    \A i \in 1..Len(s) :
        /\ s[i] \in GivesShutdown => i < Len(s) /\ s[i + 1] = "halted?"
        /\ s[i] = "vendor device" => i < Len(s) /\ s[i + 1] = "vm-start"

Programs == {s \in Seq(Statements) : Waits(s)}

Before(s, i, x) == \E j \in 1..(i - 1) : s[j] = x

\* Before it installs, a program does what is missing in the guest v.
Ready(s, v) ==
    \A i \in 1..Len(s) : s[i] \in DriverInstalls =>
        \/ Before(s, i, "enable_testsign")
        \/ /\ v.cert \/ Before(s, i, "certutil")
           /\ ~v.secureboot \/ Before(s, i, "secureboot off")
           /\ v.signing # "off" \/ Before(s, i, "bcdedit")

Without(s, x) == \A i \in 1..Len(s) : s[i] # x

\* An installer runs, or test signing is set but the guest not booted again.
Busy == vm.msi # "none" \/ (vm.signing = "set" /\ vm.ssh)

\* The next statement waits for the shutdown, or is refused while the guest runs.
Guarded ==
    \/ todo # <<>> /\ Head(todo) \in {"halted?", "vm-start", "vendor device"}
    \/ todo = <<>> /\ (raised \/ phase \in {"between", "over"})

Shape ==
    /\ todo \in Programs /\ snapshot \in Unsealed
    /\ retries > 0 \/ Without(todo, "drive?")
    /\ raised \/ phase \in {"between", "over"} => todo = <<>>

Power ==
    /\ vm.power = "halted" => ~vm.ssh
    /\ vm.msi # "none" => vm.power = "running" /\ vm.off # "given"
    /\ Busy => Guarded

Signing == TestSign => Ready(todo, vm)

IInv == TypeOK /\ Shape /\ Power /\ Signing /\ SignedWhenInstalled /\ StartsUnsealed

-----------------------------------------------------------------------------
(* Programs.                                                               *)

\* No statement of the program installs drivers, or one before it does all
\* that test signing needs.
Contains(s, x) == \E i \in 1..Len(s) : s[i] = x
Plain(s)    == \A i \in 1..Len(s) : s[i] \notin DriverInstalls
Prepared(s) == \A i \in 1..Len(s) : s[i] \in DriverInstalls => Before(s, i, "enable_testsign")
Fit(s)      == s \in Programs /\ (TestSign => Prepared(s))

LEMMA Tails ==
    ASSUME NEW s \in Programs, s # <<>>
    PROVE  /\ Tail(s) \in Seq(Statements) /\ Len(s) \in Nat /\ Len(s) > 0 /\ Len(Tail(s)) = Len(s) - 1
           /\ Head(s) = s[1] /\ s[1] \in Statements
           /\ \A i \in 1..Len(Tail(s)) : Tail(s)[i] = s[i + 1] /\ i + 1 \in 1..Len(s)
BY DEF Programs

LEMMA TailIsProgram ==
    ASSUME NEW s \in Programs, s # <<>>
    PROVE  /\ Head(s) = s[1] /\ Tail(s) \in Programs /\ Head(s) \in Statements
           /\ Head(s) \in GivesShutdown => Tail(s) # <<>> /\ Head(Tail(s)) = "halted?"
           /\ Head(s) = "vendor device" => Tail(s) # <<>> /\ Head(Tail(s)) = "vm-start"
           /\ \A x : Without(s, x) => Without(Tail(s), x)
<1> DEFINE t == Tail(s)
<1>a. /\ t \in Seq(Statements) /\ Len(s) \in Nat /\ Len(s) > 0 /\ Len(t) = Len(s) - 1
      /\ Head(s) = s[1] /\ s[1] \in Statements
      /\ \A i \in 1..Len(t) : t[i] = s[i + 1]
  BY DEF Programs
<1>b. Len(s) > 1 => t # <<>> /\ Head(t) = s[1 + 1]
  BY DEF Programs
<1> HIDE DEF t
<1>1. \A i \in 1..Len(s) :
         /\ s[i] \in GivesShutdown => i < Len(s) /\ s[i + 1] = "halted?"
         /\ s[i] = "vendor device" => i < Len(s) /\ s[i + 1] = "vm-start"
  BY DEF Programs, Waits
<1>2. Waits(t)
  <2> SUFFICES ASSUME NEW i \in 1..Len(t)
               PROVE  /\ t[i] \in GivesShutdown => i < Len(t) /\ t[i + 1] = "halted?"
                      /\ t[i] = "vendor device" => i < Len(t) /\ t[i + 1] = "vm-start"
    BY DEF Waits
  <2>1. i + 1 \in 1..Len(s) /\ t[i] = s[i + 1]
    BY <1>a
  <2>2. i + 1 < Len(s) => i < Len(t) /\ t[i + 1] = s[(i + 1) + 1]
    <3> SUFFICES ASSUME i + 1 < Len(s) PROVE i < Len(t) /\ t[i + 1] = s[(i + 1) + 1]
      OBVIOUS
    <3>1. i < Len(t) /\ i + 1 \in 1..Len(t) BY <1>a
    <3> QED BY <3>1, <1>a
  <2> QED BY <2>1, <2>2, <1>1
<1>3. t \in Programs
  BY <1>a, <1>2 DEF Programs
<1>4. \A x : Without(s, x) => Without(t, x)
  <2>1. \A i \in 1..Len(t) : i + 1 \in 1..Len(s) BY <1>a
  <2> QED BY <2>1, <1>a DEF Without
<1>5. 1 \in 1..Len(s) /\ Head(s) = s[1]
  BY <1>a
<1>6. /\ Head(s) \in GivesShutdown => t # <<>> /\ Head(t) = "halted?"
      /\ Head(s) = "vendor device" => t # <<>> /\ Head(t) = "vm-start"
  BY <1>1, <1>5, <1>b
<1>7. Head(s) = s[1] /\ Head(s) \in Statements
  BY <1>a
<1> QED BY <1>3, <1>4, <1>6, <1>7 DEF t

LEMMA Concatenation ==
    ASSUME NEW s \in Programs, NEW t \in Programs
    PROVE  /\ s \o t \in Programs
           /\ Plain(s) /\ Plain(t) => Plain(s \o t)
           /\ Prepared(s) /\ Prepared(t) => Prepared(s \o t)
           /\ Contains(s, "enable_testsign") /\ Prepared(s) => Prepared(s \o t)
           /\ \A x : Contains(s, x) \/ Contains(t, x) => Contains(s \o t, x)
           /\ \A v : Plain(s) /\ Ready(t, v) => Ready(s \o t, v)
<1> DEFINE u == s \o t
<1>0. /\ u \in Seq(Statements) /\ Len(s) \in Nat /\ Len(t) \in Nat /\ Len(u) = Len(s) + Len(t)
      /\ \A i \in 1..Len(s) : i \in 1..Len(u) /\ u[i] = s[i]
      /\ \A i \in 1..Len(u) : i \notin 1..Len(s) => i - Len(s) \in 1..Len(t) /\ u[i] = t[i - Len(s)]
      /\ \A i \in 1..Len(t) : i + Len(s) \in 1..Len(u) /\ u[i + Len(s)] = t[i]
  BY DEF Programs
<1>1. \A x : \A i \in 1..Len(s) : Before(s, i, x) => Before(u, i, x)
  BY <1>0 DEF Before
<1>2. \A x : \A i \in 1..Len(t) : Before(t, i, x) => Before(u, i + Len(s), x)
  <2> SUFFICES ASSUME NEW x, NEW i \in 1..Len(t), NEW j \in 1..(i - 1), t[j] = x
               PROVE  Before(u, i + Len(s), x)
    BY DEF Before
  <2>1. j + Len(s) \in 1..(i + Len(s) - 1) /\ u[j + Len(s)] = x
    BY <1>0
  <2> QED BY <2>1 DEF Before
<1>3. u \in Programs
  <2> SUFFICES Waits(u) BY <1>0 DEF Programs
  <2> SUFFICES ASSUME NEW i \in 1..Len(u)
               PROVE  /\ u[i] \in GivesShutdown => i < Len(u) /\ u[i + 1] = "halted?"
                      /\ u[i] = "vendor device" => i < Len(u) /\ u[i + 1] = "vm-start"
    BY DEF Waits
  <2>1. CASE i \in 1..Len(s)
    <3>1. i < Len(s) => i + 1 \in 1..Len(s) /\ i < Len(u) BY <2>1, <1>0
    <3> QED BY <2>1, <3>1, <1>0 DEF Programs, Waits
  <2>2. CASE i \notin 1..Len(s)
    <3> DEFINE k == i - Len(s)
    <3>1. k \in 1..Len(t) /\ u[i] = t[k] BY <2>2, <1>0
    <3>2. k < Len(t) => k + 1 \in 1..Len(t) /\ u[i + 1] = t[k + 1] /\ i < Len(u)
      <4> SUFFICES ASSUME k < Len(t) PROVE k + 1 \in 1..Len(t) /\ u[i + 1] = t[k + 1] /\ i < Len(u)
        OBVIOUS
      <4>1. k + 1 \in 1..Len(t) /\ (k + 1) + Len(s) = i + 1 /\ i < Len(u) BY <3>1, <1>0
      <4> QED BY <4>1, <1>0
    <3> QED BY <3>1, <3>2 DEF Programs, Waits
  <2> QED BY <2>1, <2>2
<1>4. Plain(s) /\ Plain(t) => Plain(u)
  BY <1>0 DEF Plain
<1>5. Prepared(s) /\ Prepared(t) => Prepared(u)
  <2> SUFFICES ASSUME Prepared(s), Prepared(t), NEW i \in 1..Len(u), u[i] \in DriverInstalls
               PROVE  Before(u, i, "enable_testsign")
    BY DEF Prepared
  <2>1. CASE i \in 1..Len(s) BY <2>1, <1>0, <1>1 DEF Prepared
  <2>2. CASE i \notin 1..Len(s)
    <3>1. i - Len(s) \in 1..Len(t) /\ u[i] = t[i - Len(s)] /\ (i - Len(s)) + Len(s) = i BY <2>2, <1>0
    <3> QED BY <3>1, <1>2 DEF Prepared
  <2> QED BY <2>1, <2>2
<1>6. ASSUME NEW k \in 1..Len(s), s[k] = "enable_testsign", Prepared(s)
      PROVE  Prepared(u)
  <2> SUFFICES ASSUME NEW i \in 1..Len(u), u[i] \in DriverInstalls
               PROVE  Before(u, i, "enable_testsign")
    BY DEF Prepared
  <2>1. CASE i \in 1..Len(s) BY <2>1, <1>0, <1>1, <1>6 DEF Prepared
  <2>2. CASE i \notin 1..Len(s)
    <3>1. k \in 1..(i - 1) /\ u[k] = "enable_testsign" BY <2>2, <1>0, <1>6
    <3> QED BY <3>1 DEF Before
  <2> QED BY <2>1, <2>2
<1>7. ASSUME NEW v, Plain(s), Ready(t, v) PROVE Ready(u, v)
  <2> SUFFICES ASSUME NEW i \in 1..Len(u), u[i] \in DriverInstalls
               PROVE  \/ Before(u, i, "enable_testsign")
                      \/ /\ v.cert \/ Before(u, i, "certutil")
                         /\ ~v.secureboot \/ Before(u, i, "secureboot off")
                         /\ v.signing # "off" \/ Before(u, i, "bcdedit")
    BY DEF Ready
  <2>1. i \notin 1..Len(s) BY <1>0, <1>7 DEF Plain
  <2>2. i - Len(s) \in 1..Len(t) /\ u[i] = t[i - Len(s)] /\ (i - Len(s)) + Len(s) = i BY <2>1, <1>0
  <2>3. \A x : Before(t, i - Len(s), x) => Before(u, i, x) BY <2>2, <1>2
  <2> QED BY <2>2, <2>3, <1>7 DEF Ready
<1> HIDE DEF u
<1>8. \A x : Contains(s, x) \/ Contains(t, x) => Contains(u, x)
  BY <1>0 DEF Contains
<1>9. Contains(s, "enable_testsign") /\ Prepared(s) => Prepared(u)
  BY <1>6 DEF Contains
<1> QED BY <1>3, <1>4, <1>5, <1>7, <1>8, <1>9 DEF u

LEMMA PlainPrograms ==
    ASSUME NEW s \in Programs, NEW t \in Programs, Plain(s), Plain(t)
    PROVE  s \o t \in Programs /\ Plain(s \o t)
BY Concatenation

LEMMA StillContains ==
    ASSUME NEW s \in Programs, NEW t \in Programs, NEW x, Contains(s, x) \/ Contains(t, x)
    PROVE  Contains(s \o t, x)
BY Concatenation

LEMMA PreparedIsReady == \A s, v : Prepared(s) => Ready(s, v)
BY DEF Prepared, Ready

LEMMA PlainIsPrepared == \A s : Plain(s) => Prepared(s)
BY DEF Plain, Prepared

\* Statements that neither make the guest shut down nor install drivers.
Quiet == Statements \ (GivesShutdown \cup DriverInstalls \cup {"vendor device"})

LEMMA QuietProgram ==
    ASSUME NEW s \in Seq(Quiet)
    PROVE  s \in Programs /\ Plain(s)
<1>1. \A i \in 1..Len(s) : s[i] \in Quiet
  OBVIOUS
<1>2. s \in Seq(Statements)
  <2>1. \A S, T : S \subseteq T => \A q \in Seq(S) : q \in Seq(T)
    OBVIOUS
  <2>2. Quiet \subseteq Statements
    BY DEF Quiet
  <2> QED BY <2>1, <2>2
<1>3. Waits(s)
  BY <1>1 DEF Waits, Quiet
<1>4. Plain(s)
  BY <1>1 DEF Plain, Quiet
<1> QED BY <1>2, <1>3, <1>4 DEF Programs

\* A statement after which the guest shuts down, and the wait.
LEMMA ShutdownProgram ==
    ASSUME NEW x \in GivesShutdown
    PROVE  /\ <<x, "halted?">> \in Programs
           /\ x \notin DriverInstalls => Plain(<<x, "halted?">>)
<1> DEFINE s == <<x, "halted?">>
<1>1. x \in Statements /\ "halted?" \in Statements
      /\ "halted?" \notin GivesShutdown \cup DriverInstalls \cup {"vendor device"}
  BY DEF Statements, GivesShutdown, DriverInstalls
<1>2. s \in Seq(Statements) /\ Len(s) = 2 /\ s[1] = x /\ s[2] = "halted?" /\ \A i \in 1..Len(s) : i = 1 \/ i = 2
  BY <1>1
<1> HIDE DEF s
<1>3. x # "vendor device"
  BY DEF GivesShutdown
<1>4. Waits(s)
  <2> SUFFICES ASSUME NEW i \in 1..Len(s)
               PROVE  /\ s[i] \in GivesShutdown => i < Len(s) /\ s[i + 1] = "halted?"
                      /\ s[i] = "vendor device" => i < Len(s) /\ s[i + 1] = "vm-start"
    BY DEF Waits
  <2>0. 1 < Len(s) /\ s[1 + 1] = "halted?" BY <1>2
  <2>1. CASE i = 1 BY <2>0, <2>1, <1>2, <1>3
  <2>2. CASE i = 2 BY <2>2, <1>1, <1>2
  <2> QED BY <2>1, <2>2, <1>2
<1>5. x \notin DriverInstalls => Plain(s)
  BY <1>1, <1>2 DEF Plain
<1> QED BY <1>2, <1>4, <1>5 DEF Programs, s

LEMMA ShutdownThenProgram ==
    ASSUME NEW x \in GivesShutdown, NEW y \in Quiet
    PROVE  /\ <<x, "halted?", y>> \in Programs
           /\ x \notin DriverInstalls => Plain(<<x, "halted?", y>>)
<1> DEFINE s == <<x, "halted?", y>>
<1>0. x \in Statements /\ "halted?" \in Statements /\ y \in Statements
  BY DEF Statements, GivesShutdown, Quiet
<1>1. {"halted?", y} \cap (GivesShutdown \cup DriverInstalls \cup {"vendor device"}) = {}
  BY DEF Statements, GivesShutdown, DriverInstalls, Quiet
<1>2. /\ s \in Seq(Statements) /\ Len(s) = 3 /\ s[1] = x /\ s[2] = "halted?" /\ s[3] = y
      /\ \A i \in 1..Len(s) : i = 1 \/ i = 2 \/ i = 3
  BY <1>0
<1> HIDE DEF s
<1>3. x # "vendor device"
  BY DEF GivesShutdown
<1>4. Waits(s)
  <2> SUFFICES ASSUME NEW i \in 1..Len(s)
               PROVE  /\ s[i] \in GivesShutdown => i < Len(s) /\ s[i + 1] = "halted?"
                      /\ s[i] = "vendor device" => i < Len(s) /\ s[i + 1] = "vm-start"
    BY DEF Waits
  <2>0. 1 < Len(s) /\ s[1 + 1] = "halted?" BY <1>2
  <2>1. CASE i = 1 BY <2>0, <2>1, <1>2, <1>3
  <2>2. CASE i # 1 BY <2>2, <1>1, <1>2
  <2> QED BY <2>1, <2>2
<1>5. x \notin DriverInstalls => Plain(s)
  BY <1>1, <1>2 DEF Plain
<1> QED BY <1>2, <1>4, <1>5 DEF Programs, s

LEMMA Shutdown ==
    /\ vm_shutdown_without_tools \in Programs /\ Plain(vm_shutdown_without_tools)
    /\ Without(vm_shutdown_without_tools \o <<"TimeoutError">>, "drive?")
    /\ vm_shutdown_without_tools \o <<"TimeoutError">> \in Programs
    /\ Plain(vm_shutdown_without_tools \o <<"TimeoutError">>)
<1> DEFINE s == <<"shutdown.exe", "halted?">>
<1>1. s \in Programs /\ Plain(s)
  BY ShutdownProgram DEF GivesShutdown, DriverInstalls
<1>2. Without(s \o <<"TimeoutError">>, "drive?")
  BY DEF Without
<1>3. <<"TimeoutError">> \in Seq(Quiet)
  BY DEF Quiet, Statements, GivesShutdown, DriverInstalls
<1>4. s \o <<"TimeoutError">> \in Programs /\ Plain(s \o <<"TimeoutError">>)
  BY <1>1, <1>3, QuietProgram, Concatenation
<1> QED BY <1>1, <1>2, <1>4 DEF vm_shutdown_without_tools

LEMMA Starting ==
    /\ StartAndWait \in Programs /\ Plain(StartAndWait)
    /\ wait_for_vm_running_and_ssh_up_without_tools \in Programs
    /\ Plain(wait_for_vm_running_and_ssh_up_without_tools)
<1> DEFINE s == <<"running?", "ssh?">>
<1>1. s \in Seq(Quiet) /\ <<"vm-start">> \o s \in Seq(Quiet)
  BY DEF Quiet, Statements, GivesShutdown, DriverInstalls
<1> QED BY <1>1, QuietProgram DEF StartAndWait, wait_for_vm_running_and_ssh_up_without_tools

LEMMA Inserting == insert_cd_safe \in Programs /\ Plain(insert_cd_safe)
<1>1. insert_cd_safe \in Seq(Quiet)
  BY DEF insert_cd_safe, wait_for_vm_running_and_ssh_up_without_tools, Quiet, Statements, GivesShutdown, DriverInstalls
<1> QED BY <1>1, QuietProgram

\* enable_testsign does all that Ready asks for, whatever follows it.
LEMMA Enabling ==
    ASSUME NEW t \in Programs
    PROVE  enable_testsign \o t \in Programs /\ Ready(enable_testsign \o t, vm)
<1> DEFINE a == vm_shutdown_without_tools \o <<"secureboot off">> \o StartAndWait
           p == IF vm.secureboot THEN a ELSE <<>>
           c == <<"certutil", "bcdedit", "halted?">>
           e == p \o c \o StartAndWait
<1>0. <<"certutil">> \in Seq(Quiet) /\ <<"secureboot off">> \in Seq(Quiet) /\ <<>> \in Seq(Quiet)
  BY DEF Quiet, Statements, GivesShutdown, DriverInstalls
<1>1. c \in Programs /\ Plain(c) /\ Len(c) = 3 /\ c[1] = "certutil" /\ c[2] = "bcdedit"
  <2>1. /\ c \in Seq(Statements) /\ Len(c) = 3 /\ c[1] = "certutil" /\ c[2] = "bcdedit" /\ c[3] = "halted?"
        /\ \A i \in 1..Len(c) : i = 1 \/ i = 2 \/ i = 3
    BY DEF Statements
  <2>2. /\ "certutil" \notin GivesShutdown \cup DriverInstalls
        /\ "halted?" \notin GivesShutdown \cup DriverInstalls
        /\ "bcdedit" \notin DriverInstalls
    BY DEF GivesShutdown, DriverInstalls
  <2> HIDE DEF c
  <2>3. Waits(c)
    <3>1. 2 < Len(c) /\ c[2 + 1] = "halted?" BY <2>1
    <3> QED BY <2>1, <2>2, <3>1 DEF Waits
  <2>4. Plain(c)
    BY <2>1, <2>2 DEF Plain
  <2> QED BY <2>1, <2>3, <2>4 DEF Programs
<1>2. <<"secureboot off">> \in Programs /\ Plain(<<"secureboot off">>)
      /\ <<>> \in Programs /\ Plain(<<>>)
  BY <1>0, QuietProgram
<1> HIDE DEF c
<1>3. Contains(<<"secureboot off">>, "secureboot off") /\ Contains(c, "certutil") /\ Contains(c, "bcdedit")
  <2>1. Contains(<<"secureboot off">>, "secureboot off")
    <3>1. 1 \in 1..Len(<<"secureboot off">>) /\ <<"secureboot off">>[1] = "secureboot off"
      OBVIOUS
    <3> QED BY <3>1 DEF Contains
  <2>2. 1 \in 1..Len(c) /\ 2 \in 1..Len(c)
    BY <1>1
  <2> QED BY <1>1, <2>1, <2>2 DEF Contains
<1>4. a \in Programs /\ Plain(a) /\ Contains(a, "secureboot off")
  <2> DEFINE h == vm_shutdown_without_tools \o <<"secureboot off">>
  <2>1. h \in Programs /\ Plain(h)
    BY <1>2, Shutdown, PlainPrograms
  <2>2. Contains(h, "secureboot off")
    BY <1>2, <1>3, Shutdown, StillContains
  <2> HIDE DEF h
  <2>3. h \o StartAndWait \in Programs /\ Plain(h \o StartAndWait)
    BY <2>1, Starting, PlainPrograms
  <2>4. Contains(h \o StartAndWait, "secureboot off")
    BY <2>1, <2>2, Starting, StillContains
  <2> QED BY <2>3, <2>4 DEF h
<1> HIDE DEF a
<1>5. p \in Programs /\ Plain(p) /\ (vm.secureboot => Contains(p, "secureboot off"))
  BY <1>2, <1>4
<1> HIDE DEF p
<1> DEFINE g == p \o c
<1>6. g \in Programs /\ Plain(g)
  BY <1>1, <1>5, PlainPrograms
<1>7. \A x : Contains(p, x) \/ Contains(c, x) => Contains(g, x)
  BY <1>1, <1>5, StillContains
<1> HIDE DEF g
<1>8. g \o StartAndWait \in Programs /\ Plain(g \o StartAndWait)
  BY <1>6, Starting, PlainPrograms
<1>9. \A x : Contains(g, x) => Contains(g \o StartAndWait, x)
  BY <1>6, Starting, StillContains
<1>10. e \in Programs /\ Plain(e)
       /\ Contains(e, "certutil") /\ Contains(e, "bcdedit")
       /\ (vm.secureboot => Contains(e, "secureboot off"))
  BY <1>3, <1>5, <1>7, <1>8, <1>9 DEF g
<1>11. enable_testsign = e
  BY DEF enable_testsign, p, a, c
<1> HIDE DEF e
<1> SUFFICES e \o t \in Programs /\ Ready(e \o t, vm)
  BY <1>11
<1>12. e \o t \in Programs
  BY <1>10, Concatenation
<1>13. ASSUME NEW i \in 1..Len(e \o t), (e \o t)[i] \in DriverInstalls
       PROVE  Before(e \o t, i, "certutil") /\ Before(e \o t, i, "bcdedit")
              /\ (vm.secureboot => Before(e \o t, i, "secureboot off"))
  <2>1. /\ Len(e) \in Nat
        /\ \A j \in 1..Len(e) : (e \o t)[j] = e[j] /\ e[j] \notin DriverInstalls
    <3>1. e \in Seq(Statements) /\ t \in Seq(Statements)
      BY <1>10 DEF Programs
    <3>2. \A j \in 1..Len(e) : (e \o t)[j] = e[j]
      BY <3>1
    <3>3. \A j \in 1..Len(e) : e[j] \notin DriverInstalls
      BY <1>10 DEF Plain
    <3>4. Len(e) \in Nat
      BY <3>1
    <3> QED BY <3>2, <3>3, <3>4
  <2>2. \A j \in 1..Len(e) : j \in 1..(i - 1)
    BY <1>13, <2>1
  <2> QED BY <2>1, <2>2, <1>10 DEF Before, Contains
<1> QED BY <1>12, <1>13 DEF Ready

\* A program that installs nothing, and enables test signing where it must.
Signs(s) == s \in Programs /\ Plain(s) /\ (TestSign => Contains(s, "enable_testsign"))

LEMMA Fitting ==
    ASSUME NEW s \in Programs, NEW t \in Programs
    PROVE  /\ Plain(s) => Fit(s)
           /\ Fit(s) /\ Fit(t) => Fit(s \o t)
           /\ Signs(s) => Fit(s \o t)
           /\ Signs(s) /\ Plain(t) => Signs(s \o t)
           /\ Plain(s) /\ Signs(t) => Signs(s \o t)
<1>1. Plain(s) => Prepared(s)
  BY PlainIsPrepared
<1>2. s \o t \in Programs
  BY Concatenation
<1>3. Fit(s) /\ Fit(t) => Fit(s \o t)
  BY <1>2, Concatenation DEF Fit
<1>4. Signs(s) => Fit(s \o t)
  BY <1>1, <1>2, Concatenation DEF Fit, Signs
<1>5. Signs(s) /\ Plain(t) => Signs(s \o t)
  BY <1>2, PlainPrograms, StillContains DEF Signs
<1>6. Plain(s) /\ Signs(t) => Signs(s \o t)
  BY <1>2, PlainPrograms, StillContains DEF Signs
<1> QED BY <1>1, <1>3, <1>4, <1>5, <1>6 DEF Fit

LEMMA SigningProgram == Signs(InsertAndSign)
<1> DEFINE x == IF TestSign THEN <<"enable_testsign", "drive still there?">> ELSE <<>>
<1>1. <<"enable_testsign", "drive still there?">> \in Seq(Quiet) /\ <<>> \in Seq(Quiet)
  BY DEF Quiet, Statements, GivesShutdown, DriverInstalls
<1>2. TestSign => Contains(x, "enable_testsign")
  <2>1. TestSign => 1 \in 1..Len(x) /\ x[1] = "enable_testsign"
    OBVIOUS
  <2> QED BY <2>1 DEF Contains
<1>3. x \in Programs /\ Plain(x)
  BY <1>1, QuietProgram
<1> HIDE DEF x
<1>4. Signs(x)
  BY <1>2, <1>3 DEF Signs
<1>5. Signs(insert_cd_safe \o x)
  BY <1>3, <1>4, Inserting, Fitting
<1> QED BY <1>5 DEF InsertAndSign, x

LEMMA InstallingProgram ==
    \A action \in {"nothing", "shutdown", "reboot"} : Fit(install_guest_tools(action))
<1> DEFINE c == <<"copy", "eject cd">>
           n == <<"msiexec /i">>
           h == <<"msiexec /i &", "halted?">>
           i(x) == InsertAndSign \o c \o x
<1>1. c \in Programs /\ Plain(c)
  <2>1. c \in Seq(Quiet)
    BY DEF Quiet, Statements, GivesShutdown, DriverInstalls
  <2> QED BY <2>1, QuietProgram
<1>2. n \in Programs
  <2>1. n \in Seq(Statements)
    BY DEF Statements
  <2>2. "msiexec /i" \notin GivesShutdown \cup {"vendor device"}
    BY DEF GivesShutdown
  <2>3. \A j \in 1..Len(n) : n[j] = "msiexec /i"
    <3>1. \A x : \A j \in 1..Len(<<x>>) : <<x>>[j] = x
      OBVIOUS
    <3> QED BY <3>1
  <2> HIDE DEF n
  <2> QED BY <2>1, <2>2, <2>3 DEF Programs, Waits
<1>3. h \in Programs
  BY ShutdownProgram DEF GivesShutdown
<1> HIDE DEF c, n, h
<1>4. h \o StartAndWait \in Programs
  BY <1>3, Starting, Concatenation
<1>5. Signs(InsertAndSign \o c) /\ InsertAndSign \o c \in Programs
  BY <1>1, SigningProgram, Fitting DEF Signs
<1>6. Fit(i(n)) /\ Fit(i(h)) /\ Fit(i(h \o StartAndWait))
  BY <1>2, <1>3, <1>4, <1>5, Fitting
<1>7. /\ install_guest_tools("nothing") = i(n) /\ install_guest_tools("shutdown") = i(h)
      /\ install_guest_tools("reboot") = i(h \o StartAndWait)
  BY DEF install_guest_tools, c, n, h
<1> HIDE DEF i
<1> QED BY <1>6, <1>7

LEMMA RemovingProgram == uninstall_guest_tools \in Programs /\ Plain(uninstall_guest_tools)
<1> DEFINE x == <<"msiexec /x &", "halted?">>
           o == <<"offboarded?">>
<1>1. x \in Programs /\ Plain(x)
  BY ShutdownProgram DEF GivesShutdown, DriverInstalls
<1>2. o \in Programs /\ Plain(o)
  <2>1. o \in Seq(Quiet)
    BY DEF Quiet, Statements, GivesShutdown, DriverInstalls
  <2> QED BY <2>1, QuietProgram
<1> HIDE DEF x, o
<1>3. x \o StartAndWait \in Programs /\ Plain(x \o StartAndWait)
  BY <1>1, Starting, PlainPrograms
<1>4. x \o StartAndWait \o o \in Programs /\ Plain(x \o StartAndWait \o o)
  BY <1>2, <1>3, PlainPrograms
<1> QED BY <1>4 DEF uninstall_guest_tools, x, o

LEMMA CleaningProgram == run_xenclean \in Programs /\ Plain(run_xenclean)
<1> DEFINE x == <<"XenClean &", "halted?", "eject cd">>
           o == <<"offboarded?">>
<1>1. x \in Programs /\ Plain(x)
  BY ShutdownThenProgram DEF GivesShutdown, DriverInstalls, Quiet, Statements
<1>2. o \in Programs /\ Plain(o)
  <2>1. o \in Seq(Quiet)
    BY DEF Quiet, Statements, GivesShutdown, DriverInstalls
  <2> QED BY <2>1, QuietProgram
<1> HIDE DEF x, o
<1>3. insert_cd_safe \o x \in Programs /\ Plain(insert_cd_safe \o x)
  BY <1>1, Inserting, PlainPrograms
<1> DEFINE y == insert_cd_safe \o x
<1> HIDE DEF y
<1>4. y \o StartAndWait \in Programs /\ Plain(y \o StartAndWait)
  BY <1>3, Starting, PlainPrograms DEF y
<1>5. y \o StartAndWait \o o \in Programs /\ Plain(y \o StartAndWait \o o)
  BY <1>2, <1>4, PlainPrograms
<1> QED BY <1>5 DEF run_xenclean, x, o, y

LEMMA VendorDeviceProgram ==
    <<"vendor device">> \o StartAndWait \in Programs /\ Plain(<<"vendor device">> \o StartAndWait)
<1> DEFINE v == <<"vendor device">> \o StartAndWait
<1>1. /\ v \in Seq(Statements) /\ Len(v) = 4
      /\ v[1] = "vendor device" /\ v[2] = "vm-start" /\ v[3] = "running?" /\ v[4] = "ssh?"
      /\ \A i \in 1..Len(v) : i = 1 \/ i = 2 \/ i = 3 \/ i = 4
  BY DEF Statements, StartAndWait, wait_for_vm_running_and_ssh_up_without_tools
<1>2. {"vendor device", "vm-start", "running?", "ssh?"} \cap (GivesShutdown \cup DriverInstalls) = {}
  BY DEF GivesShutdown, DriverInstalls
<1> HIDE DEF v
<1>3. 1 < Len(v) /\ v[1 + 1] = "vm-start"
  <2>1. Len(v) = 4 /\ v[2] = "vm-start" BY <1>1
  <2> QED BY <2>1
<1>4. Waits(v)
  BY <1>1, <1>2, <1>3 DEF Waits
<1>5. Plain(v)
  BY <1>1, <1>2 DEF Plain
<1> QED BY <1>1, <1>4, <1>5 DEF Programs, v

LEMMA DriversProgram ==
    Fit(InsertAndSign \o <<"install-drivers.ps1 &", "halted?", "eject cd">> \o StartAndWait
            \o wait_for_vm_running_and_ssh_up_without_tools)
<1> DEFINE x == <<"install-drivers.ps1 &", "halted?", "eject cd">>
           w == wait_for_vm_running_and_ssh_up_without_tools
           y == InsertAndSign \o x
           z == y \o StartAndWait
<1>1. x \in Programs
  BY ShutdownThenProgram DEF GivesShutdown, DriverInstalls, Quiet, Statements
<1> HIDE DEF x
<1>2. y \in Programs /\ Fit(y)
  BY <1>1, SigningProgram, Fitting DEF Signs, Fit
<1> HIDE DEF y
<1>3. z \in Programs /\ Fit(z)
  BY <1>2, Starting, Fitting DEF Fit
<1> HIDE DEF z
<1>4. Fit(z \o w)
  BY <1>3, Starting, Fitting DEF Fit
<1> QED BY <1>4 DEF x, y, z

LEMMA OtherDriversProgram ==
    Fit(install_other_drivers("msi")) /\ Fit(install_other_drivers("none"))
<1> DEFINE v == <<"vendor device">> \o StartAndWait
           x == <<"install-drivers.ps1 &", "halted?", "eject cd">>
           z == InsertAndSign \o x \o StartAndWait \o wait_for_vm_running_and_ssh_up_without_tools
<1>1. v \in Programs /\ Plain(v)
  BY VendorDeviceProgram
<1>2. <<>> \in Programs /\ Plain(<<>>)
  <2>1. <<>> \in Seq(Quiet)
    OBVIOUS
  <2> QED BY <2>1, QuietProgram
<1>3. Fit(z)
  BY DriversProgram
<1>4. install_other_drivers("msi") = v \o z /\ install_other_drivers("none") = v \o <<>>
  BY DEF install_other_drivers
<1> HIDE DEF v, z
<1> QED BY <1>1, <1>2, <1>3, <1>4, Fitting DEF Fit

\* A program that a running guest refuses at once.
Begins(s) == s # <<>> /\ Head(s) \in {"vm-start", "vendor device"}

\* What a setup runs starts with a statement that a running guest refuses.
LEMMA SetupPrograms ==
    \A s \in Setups : Fit(s) /\ Begins(s)
<1> DEFINE y == <<"yield">>
           o == <<"working?", "yield">>
           g(a) == install_guest_tools(a)
           d(t) == install_other_drivers(t)
           b == StartAndWait \o y
<1>1. y \in Programs /\ Plain(y) /\ o \in Programs /\ Plain(o)
  <2>1. y \in Seq(Quiet) /\ o \in Seq(Quiet)
    BY DEF Quiet, Statements, GivesShutdown, DriverInstalls
  <2> QED BY <2>1, QuietProgram
<1>2. Fit(g("nothing")) /\ Fit(g("reboot")) /\ Fit(d("msi")) /\ Fit(d("none"))
  BY InstallingProgram, OtherDriversProgram
<1>3. Setups = {b, b \o g("nothing"), StartAndWait \o g("reboot") \o o, d("msi") \o y, d("none") \o y}
  BY DEF Setups
<1>4. \A s \in Programs, t \in Programs : Begins(s) => Begins(s \o t)
  <2> SUFFICES ASSUME NEW s \in Seq(Statements), NEW t \in Seq(Statements), s # <<>>
               PROVE  s \o t # <<>> /\ Head(s \o t) = Head(s)
    BY DEF Programs, Begins
  <2>1. Len(s) \in Nat \ {0} /\ Head(s) = s[1] /\ Len(t) \in Nat
    OBVIOUS
  <2>2. s \o t \in Seq(Statements) /\ Len(s \o t) = Len(s) + Len(t) /\ (s \o t)[1] = s[1]
    BY <2>1
  <2> QED BY <2>1, <2>2
<1>5. Begins(StartAndWait) /\ Begins(b)
  BY DEF StartAndWait, wait_for_vm_running_and_ssh_up_without_tools, Begins
<1>6. Begins(d("msi")) /\ Begins(d("none"))
  <2> DEFINE v == <<"vendor device">> \o StartAndWait
  <2>1. Begins(v)
    BY DEF StartAndWait, wait_for_vm_running_and_ssh_up_without_tools, Begins
  <2>2. v \in Programs
    BY VendorDeviceProgram
  <2> DEFINE x == <<"install-drivers.ps1 &", "halted?", "eject cd">>
             z == InsertAndSign \o x \o StartAndWait \o wait_for_vm_running_and_ssh_up_without_tools
  <2>3. z \in Programs
    BY DriversProgram DEF Fit
  <2>4. <<>> \in Programs
    <3>1. <<>> \in Seq(Quiet) OBVIOUS
    <3> QED BY <3>1, QuietProgram
  <2>5. d("msi") = v \o z /\ d("none") = v \o <<>>
    BY DEF install_other_drivers
  <2> HIDE DEF v, z, d
  <2> QED BY <1>4, <2>1, <2>2, <2>3, <2>4, <2>5
<1>7. Fit(StartAndWait) /\ Fit(y) /\ Fit(o)
  BY <1>1, Starting, Fitting
<1> HIDE DEF y, o, g, d
<1>8. Fit(b)
  BY <1>7, Fitting DEF Fit
<1> HIDE DEF b
<1>9. Fit(b \o g("nothing")) /\ Begins(b \o g("nothing"))
  BY <1>2, <1>4, <1>5, <1>8, Fitting DEF Fit
<1>10. Fit(StartAndWait \o g("reboot")) /\ Begins(StartAndWait \o g("reboot"))
  BY <1>2, <1>4, <1>5, <1>7, Fitting DEF Fit
<1> DEFINE h == StartAndWait \o g("reboot")
<1> HIDE DEF h
<1>11. Fit(h \o o) /\ Begins(h \o o)
  BY <1>4, <1>7, <1>10, Fitting DEF Fit, h
<1>12. \A t \in {"msi", "none"} : Fit(d(t) \o y) /\ Begins(d(t) \o y)
  BY <1>2, <1>4, <1>6, <1>7, Fitting DEF Fit
<1> QED BY <1>3, <1>5, <1>8, <1>9, <1>11, <1>12 DEF h

LEMMA BodyPrograms == \A s \in Bodies : Fit(s)
<1> DEFINE w == <<"working?">>
           n == <<"uninstalled?">>
           g(a) == install_guest_tools(a)
           u == uninstall_guest_tools \o n
           r == vm_shutdown_without_tools \o StartAndWait
<1>1. w \in Programs /\ Plain(w) /\ n \in Programs /\ Plain(n) /\ <<>> \in Programs /\ Plain(<<>>)
  <2>1. w \in Seq(Quiet) /\ n \in Seq(Quiet) /\ <<>> \in Seq(Quiet)
    BY DEF Quiet, Statements, GivesShutdown, DriverInstalls
  <2> QED BY <2>1, QuietProgram
<1>2. Fit(g("shutdown")) /\ Fit(g("reboot"))
  BY InstallingProgram
<1>3. Bodies \subseteq {<<>>, g("reboot") \o w, g("shutdown") \o StartAndWait, run_xenclean \o n,
                        u, r \o uninstall_guest_tools \o n}
  BY DEF Bodies
<1> HIDE DEF w, n, g
<1>4. Fit(g("reboot") \o w) /\ Fit(g("shutdown") \o StartAndWait) /\ Fit(<<>>)
  BY <1>1, <1>2, Starting, Fitting DEF Fit
<1>5. Fit(run_xenclean \o n)
  BY <1>1, CleaningProgram, PlainPrograms, Fitting
<1>6. Fit(u)
  BY <1>1, RemovingProgram, PlainPrograms, Fitting
<1>7. r \in Programs /\ Plain(r)
  BY Shutdown, Starting, PlainPrograms
<1> HIDE DEF u, r
<1>8. r \o uninstall_guest_tools \in Programs /\ Plain(r \o uninstall_guest_tools)
  BY <1>7, RemovingProgram, PlainPrograms
<1>9. Fit(r \o uninstall_guest_tools \o n)
  BY <1>1, <1>8, PlainPrograms, Fitting
<1> QED BY <1>3, <1>4, <1>5, <1>6, <1>9

\* A guest prepared as far as v stays prepared in the state w.
AsReady(v, w) ==
    /\ v.cert => w.cert
    /\ ~v.secureboot => ~w.secureboot
    /\ v.signing # "off" => w.signing # "off"

LEMMA StaysReady ==
    ASSUME NEW s, NEW v, NEW w, Ready(s, v), AsReady(v, w)
    PROVE  Ready(s, w)
BY DEF Ready, AsReady

LEMMA TailBefore ==
    ASSUME NEW s \in Programs, s # <<>>, NEW i \in 1..Len(Tail(s)), NEW x, Before(s, i + 1, x), Head(s) # x
    PROVE  Before(Tail(s), i, x)
<1> DEFINE t == Tail(s)
<1>1. t \in Seq(Statements) /\ Len(t) \in Nat /\ Head(s) = s[1]
  BY Tails
<1>2. \A k \in 1..Len(t) : t[k] = s[k + 1]
  BY Tails
<1> HIDE DEF t
<1>3. PICK j \in 1..((i + 1) - 1) : s[j] = x
  BY DEF Before
<1>4. i \in 1..Len(t)
  BY DEF t
<1>5. PICK k \in 1..(i - 1) : j = k + 1
  <2>1. j # 1
    BY <1>1, <1>3
  <2>2. i \in Nat /\ j \in 1..i
    BY <1>1, <1>4
  <2>3. j - 1 \in 1..(i - 1) /\ j = (j - 1) + 1
    BY <2>1, <2>2
  <2> QED BY <2>3
<1>6. k \in 1..Len(t)
  BY <1>1, <1>4, <1>5
<1>7. t[k] = x
  BY <1>2, <1>3, <1>5, <1>6
<1> QED BY <1>5, <1>7 DEF Before, t

LEMMA ReadyTail ==
    ASSUME NEW s \in Programs, s # <<>>, NEW v, NEW w, Ready(s, v), AsReady(v, w),
           Head(s) # "enable_testsign",
           Head(s) = "certutil" => w.cert,
           Head(s) = "secureboot off" => ~w.secureboot,
           Head(s) = "bcdedit" => w.signing # "off"
    PROVE  Ready(Tail(s), w)
<1> DEFINE t == Tail(s)
<1>1. /\ t \in Seq(Statements) /\ Len(s) \in Nat /\ Len(s) > 0 /\ Len(t) = Len(s) - 1
      /\ Head(s) = s[1]
      /\ \A i \in 1..Len(t) : t[i] = s[i + 1] /\ i + 1 \in 1..Len(s)
  BY Tails
<1> HIDE DEF t
<1> SUFFICES ASSUME NEW i \in 1..Len(t), t[i] \in DriverInstalls
             PROVE  \/ Before(t, i, "enable_testsign")
                    \/ /\ w.cert \/ Before(t, i, "certutil")
                       /\ ~w.secureboot \/ Before(t, i, "secureboot off")
                       /\ w.signing # "off" \/ Before(t, i, "bcdedit")
  BY DEF Ready, t
<1>2. i + 1 \in 1..Len(s) /\ s[i + 1] \in DriverInstalls
  BY <1>1
<1>3. \A x : Before(s, i + 1, x) => Head(s) = x \/ Before(t, i, x)
  BY TailBefore DEF t
<1>4. \/ Before(s, i + 1, "enable_testsign")
      \/ /\ v.cert \/ Before(s, i + 1, "certutil")
         /\ ~v.secureboot \/ Before(s, i + 1, "secureboot off")
         /\ v.signing # "off" \/ Before(s, i + 1, "bcdedit")
  BY <1>2 DEF Ready
<1> QED BY <1>3, <1>4 DEF AsReady

\* When the next statement installs, the guest is prepared.
LEMMA ReadyNow ==
    ASSUME NEW s \in Programs, s # <<>>, NEW v, Ready(s, v), Head(s) \in DriverInstalls
    PROVE  v.cert /\ ~v.secureboot /\ v.signing # "off"
<1>1. 1 \in 1..Len(s) /\ Head(s) = s[1]
  BY DEF Programs
<1>2. \A x : ~Before(s, 1, x)
  BY DEF Before
<1> QED BY <1>1, <1>2 DEF Ready

-----------------------------------------------------------------------------
(* The invariant.                                                          *)

LEMMA Inits == Init => IInv
<1> SUFFICES ASSUME Init PROVE IInv
  OBVIOUS
<1>1. vm \in Unsealed /\ snapshot = vm /\ todo = <<>> /\ retries = 0 /\ phase = "between"
      /\ raised = FALSE /\ yielded = FALSE /\ botched = FALSE /\ tests = 0 /\ trouble = 0 /\ vanished = 0
  BY DEF Init
<1>2. vm \in Vms /\ vm.power = "halted" /\ ~vm.ssh /\ vm.msi = "none" /\ vm.tools = "none"
  BY <1>1 DEF Unsealed, Vms
<1>3. <<>> \in Programs
  <2>1. <<>> \in Seq(Quiet) OBVIOUS
  <2> QED BY <2>1, QuietProgram
<1>4. TypeOK
  <2>1. 0 \in 0..MaxTests /\ 0 \in 0..MaxTrouble /\ 0 \in 0..MaxVanish
    BY WindowsAssumption
  <2>2. {raised, yielded, botched} \subseteq BOOLEAN
    BY <1>1
  <2> QED BY <1>1, <1>2, <2>1, <2>2 DEF TypeOK
<1>e. \A n \in 1..Len(<<>>) : FALSE
  OBVIOUS
<1>5. Shape
  BY <1>1, <1>3, <1>e DEF Shape, Without
<1>6. Power
  BY <1>1, <1>2 DEF Power, Busy
<1>7. Signing
  BY <1>1, <1>e DEF Signing, Ready
<1>8. SignedWhenInstalled /\ StartsUnsealed
  BY <1>1, <1>2 DEF SignedWhenInstalled, StartsUnsealed
<1> QED BY <1>4, <1>5, <1>6, <1>7, <1>8 DEF IInv

\* What the invariant says of a statement about to run.
LEMMA AtStatement ==
    ASSUME IInv, todo # <<>>
    PROVE  /\ vm \in Vms /\ snapshot \in Unsealed /\ todo \in Programs /\ retries \in 0..2
           /\ raised = FALSE /\ phase \in {"setup", "test"}
           /\ yielded \in BOOLEAN /\ botched \in BOOLEAN
           /\ tests \in 0..MaxTests /\ trouble \in 0..MaxTrouble /\ vanished \in 0..MaxVanish
           /\ vm.power = "halted" => ~vm.ssh
           /\ vm.msi # "none" => vm.power = "running" /\ vm.off # "given"
           /\ Busy => Head(todo) \in {"halted?", "vm-start", "vendor device"}
BY DEF IInv, TypeOK, Shape, Power, Guarded

\* A statement that does not raise.
LEMMA Continues ==
    ASSUME IInv, todo # <<>>, snapshot' = snapshot, phase' = phase, raised' = raised, yielded' \in BOOLEAN,
           botched' = botched, tests' = tests, vanished' = vanished, trouble' \in 0..MaxTrouble,
           vm' \in Vms, retries' \in 0..2, todo' \in Programs,
           retries' > 0 \/ Without(todo', "drive?"),
           Power', Signing', SignedWhenInstalled'
    PROVE  IInv'
<1>1. /\ snapshot \in Unsealed /\ raised = FALSE /\ phase \in {"setup", "test"} /\ botched \in BOOLEAN
      /\ tests \in 0..MaxTests /\ vanished \in 0..MaxVanish
  BY AtStatement
<1>2. todo' # <<>> /\ Head(todo)' = "drive?" => retries' > 0
  <2> SUFFICES ASSUME todo' # <<>>, Head(todo)' = "drive?", Without(todo', "drive?") PROVE FALSE
    OBVIOUS
  <2>1. 1 \in 1..Len(todo') /\ Head(todo)' = todo'[1]
    BY Tails
  <2> QED BY <2>1 DEF Without
<1>3. {raised', yielded', botched'} \subseteq BOOLEAN
  BY <1>1
<1>4. TypeOK'
  BY <1>1, <1>2, <1>3 DEF TypeOK
<1>5. Shape'
  BY <1>1 DEF Shape
<1>6. StartsUnsealed'
  BY <1>1 DEF StartsUnsealed
<1> QED BY <1>4, <1>5, <1>6 DEF IInv

LEMMA EmptyProgram == <<>> \in Programs /\ \A n \in 1..Len(<<>>) : FALSE
<1>1. <<>> \in Seq(Quiet) /\ \A n \in 1..Len(<<>>) : FALSE
  OBVIOUS
<1> QED BY <1>1, QuietProgram

\* A statement that raises.
LEMMA Raises ==
    ASSUME IInv, todo # <<>>, Raise, Step, vm' = vm,
           botched' = botched, tests' = tests, vanished' = vanished, trouble' \in 0..MaxTrouble
    PROVE  IInv'
<1>1. /\ todo' = <<>> /\ raised' = TRUE /\ retries' = retries
      /\ snapshot' = snapshot /\ phase' = phase /\ yielded' = yielded
  BY DEF Raise, Step
<1>2. /\ vm \in Vms /\ snapshot \in Unsealed /\ phase \in {"setup", "test"} /\ retries \in 0..2
      /\ yielded \in BOOLEAN /\ botched \in BOOLEAN
      /\ tests \in 0..MaxTests /\ vanished \in 0..MaxVanish
      /\ vm.power = "halted" => ~vm.ssh
      /\ vm.msi # "none" => vm.power = "running" /\ vm.off # "given"
  BY AtStatement
<1>3. {raised', yielded', botched'} \subseteq BOOLEAN
  BY <1>1, <1>2
<1>4. TypeOK'
  BY <1>1, <1>2, <1>3 DEF TypeOK
<1>5. Shape'
  BY <1>1, <1>2, EmptyProgram DEF Shape, Without
<1>6. Power'
  BY <1>1, <1>2 DEF Power, Guarded, Busy
<1>7. Signing'
  BY <1>1, EmptyProgram DEF Signing, Ready
<1>8. StartsUnsealed'
  BY <1>1, <1>2 DEF StartsUnsealed
<1>9. SignedWhenInstalled'
  BY DEF IInv, SignedWhenInstalled
<1> QED BY <1>4, <1>5, <1>6, <1>7, <1>8, <1>9 DEF IInv

\* A statement that proceeds to the next one, its effect in the guest such that
\* the invariant holds.
LEMMA Proceeds ==
    ASSUME IInv, todo # <<>>, todo' = Tail(todo), retries' = retries, raised' = raised,
           snapshot' = snapshot, phase' = phase, yielded' \in BOOLEAN,
           botched' = botched, tests' = tests, vanished' = vanished, trouble' \in 0..MaxTrouble,
           vm' \in Vms, AsReady(vm, vm'), Head(todo) # "enable_testsign",
           Head(todo) = "certutil" => vm'.cert,
           Head(todo) = "secureboot off" => ~vm'.secureboot,
           Head(todo) = "bcdedit" => vm'.signing # "off",
           Power', SignedWhenInstalled'
    PROVE  IInv'
<1>1. todo \in Programs /\ retries \in 0..2
  BY AtStatement
<1>2. todo' \in Programs /\ (Without(todo, "drive?") => Without(todo', "drive?"))
  BY <1>1, TailIsProgram
<1>3. retries' > 0 \/ Without(todo', "drive?")
  BY <1>2 DEF IInv, Shape
<1>4. Signing'
  <2> SUFFICES ASSUME TestSign PROVE Ready(todo', vm')
    BY DEF Signing
  <2>1. Ready(todo, vm)
    BY DEF IInv, Signing
  <2> QED BY <1>1, <2>1, ReadyTail
<1> QED BY <1>1, <1>2, <1>3, <1>4, Continues

\* A statement that leaves the guest alone.
LEMMA Passes ==
    ASSUME IInv, todo # <<>>, todo' = Tail(todo), retries' = retries, raised' = raised,
           snapshot' = snapshot, phase' = phase, yielded' \in BOOLEAN,
           botched' = botched, tests' = tests, vanished' = vanished, trouble' = trouble,
           vm' = vm, Head(todo) \notin {"enable_testsign", "certutil", "secureboot off", "bcdedit"},
           Busy => Head(todo) = "vendor device"
    PROVE  IInv'
<1>1. /\ vm \in Vms /\ todo \in Programs /\ trouble \in 0..MaxTrouble
      /\ vm.power = "halted" => ~vm.ssh
      /\ vm.msi # "none" => vm.power = "running" /\ vm.off # "given"
  BY AtStatement
<1>2. Busy => Guarded'
  BY <1>1, TailIsProgram DEF Guarded
<1>3. Power'
  BY <1>1, <1>2 DEF Power, Busy
<1>4. SignedWhenInstalled'
  BY DEF IInv, SignedWhenInstalled
<1>5. AsReady(vm, vm')
  BY DEF AsReady
<1> QED BY <1>1, <1>3, <1>4, <1>5, Proceeds

\* A command of the guest that changes a field the invariant does not read.
LEMMA ChangesElsewhere ==
    ASSUME IInv, todo # <<>>, todo' = Tail(todo), retries' = retries, raised' = raised, Step,
           UNCHANGED history, vm' \in Vms,
           vm'.power = vm.power, vm'.ssh = vm.ssh, vm'.off = vm.off, vm'.msi = vm.msi, vm'.tools = vm.tools,
           vm'.signing = vm.signing, vm.cert => vm'.cert, ~vm.secureboot => ~vm'.secureboot,
           Head(todo) \notin {"enable_testsign", "bcdedit"},
           Head(todo) = "certutil" => vm'.cert,
           Head(todo) = "secureboot off" => ~vm'.secureboot,
           Busy => Head(todo) = "vendor device"
    PROVE  IInv'
<1>1. /\ vm \in Vms /\ todo \in Programs /\ trouble \in 0..MaxTrouble /\ yielded \in BOOLEAN
      /\ vm.power = "halted" => ~vm.ssh
      /\ vm.msi # "none" => vm.power = "running" /\ vm.off # "given"
  BY AtStatement
<1>2. /\ snapshot' = snapshot /\ phase' = phase /\ yielded' = yielded
      /\ botched' = botched /\ tests' = tests /\ vanished' = vanished /\ trouble' = trouble
  BY DEF Step, history
<1>3. Busy => Guarded'
  BY <1>1, TailIsProgram DEF Guarded
<1>4. Power'
  BY <1>1, <1>3 DEF Power, Busy
<1>5. SignedWhenInstalled'
  BY DEF IInv, SignedWhenInstalled
<1>6. AsReady(vm, vm')
  BY DEF AsReady
<1> QED BY <1>1, <1>2, <1>4, <1>5, <1>6, Proceeds

-----------------------------------------------------------------------------
(* The statements.                                                         *)

\* A statement is refused, fails or times out.
LEMMA Fails ==
    ASSUME IInv, todo # <<>>, Step, Raise, vm' = vm, UNCHANGED history \/ Trouble
    PROVE  IInv'
<1>1. tests \in 0..MaxTests /\ trouble \in 0..MaxTrouble
  BY AtStatement
<1>2. botched' = botched /\ tests' = tests /\ vanished' = vanished /\ trouble' \in 0..MaxTrouble
  BY <1>1, WindowsAssumption DEF history, Trouble
<1> QED BY <1>2, Raises

LEMMA Unguarded ==
    ASSUME IInv, todo # <<>>, Head(todo) \notin {"halted?", "vm-start", "vendor device"}
    PROVE  vm.msi = "none" /\ ~(vm.signing = "set" /\ vm.ssh)
BY AtStatement DEF Busy

\* A wait that leaves the guest alone.
LEMMA Awaits ==
    ASSUME IInv, NEW s, Doing(s), Step, vm' = vm,
           s \notin {"enable_testsign", "certutil", "secureboot off", "bcdedit", "vendor device"},
           (Proceed /\ UNCHANGED history /\ (s \in {"halted?", "vm-start"} => ~Busy))
              \/ (Raise /\ (UNCHANGED history \/ Trouble))
    PROVE  IInv'
<1>1. todo # <<>> /\ Head(todo) = s
  BY DEF Doing
<1>2. CASE Proceed /\ UNCHANGED history /\ (s \in {"halted?", "vm-start"} => ~Busy)
  <2>1. Busy => s \in {"halted?", "vm-start"}
    BY <1>1, Unguarded DEF Busy
  <2>2. yielded \in BOOLEAN
    BY <1>1, AtStatement
  <2> QED BY <1>1, <1>2, <2>1, <2>2, Passes DEF Proceed, Step, history
<1>3. CASE Raise /\ (UNCHANGED history \/ Trouble)
  BY <1>1, <1>3, Fails
<1> QED BY <1>2, <1>3

LEMMA Waitings ==
    ASSUME IInv, Running \/ SshUp \/ HaltedNow \/ Offboarded \/ Working \/ Uninstalled
    PROVE  IInv'
<1>1. CASE Running
  BY <1>1, Awaits DEF Running, Await
<1>2. CASE SshUp
  BY <1>2, Awaits DEF SshUp, Await
<1>3. CASE HaltedNow
  <2>1. Doing("halted?") /\ Step /\ vm' = vm
        /\ \/ vm.power = "halted" /\ Proceed /\ UNCHANGED history
           \/ Raise /\ (UNCHANGED history \/ Trouble)
    BY <1>3 DEF HaltedNow, Await
  <2>2. vm.power = "halted" => ~Busy
    BY <2>1, AtStatement DEF Busy, Doing
  <2> QED BY <2>1, <2>2, Awaits
<1>4. CASE Offboarded
  BY <1>4, Awaits DEF Offboarded, Await
<1>5. CASE Working
  BY <1>5, Awaits DEF Working, Try
<1>6. CASE Uninstalled
  BY <1>6, Awaits DEF Uninstalled, Try
<1> QED BY <1>1, <1>2, <1>3, <1>4, <1>5, <1>6

LEMMA TimeoutErrors == ASSUME IInv, TimeoutError PROVE IInv'
BY Fails DEF TimeoutError, Doing

LEMMA VmStarts == ASSUME IInv, VmStart PROVE IInv'
<1> DEFINE done == [vm EXCEPT !.power = "running", !.ssh = FALSE, !.off = "no"]
<1>1. /\ todo # <<>> /\ Head(todo) = "vm-start" /\ Step
      /\ \/ vm.power = "halted" /\ vm' = done /\ Proceed /\ UNCHANGED history
         \/ vm' = vm /\ Raise /\ (UNCHANGED history \/ Trouble)
  BY DEF VmStart, Try, Doing
<1>2. CASE vm' = vm /\ Raise /\ (UNCHANGED history \/ Trouble)
  BY <1>1, <1>2, Fails
<1>3. CASE vm.power = "halted" /\ vm' = done /\ Proceed /\ UNCHANGED history
  <2>1. vm \in Vms /\ vm.msi = "none" /\ trouble \in 0..MaxTrouble /\ yielded \in BOOLEAN
    BY <1>1, <1>3, AtStatement
  <2>2. /\ vm' \in Vms /\ vm'.ssh = FALSE /\ vm'.off = "no" /\ vm'.power = "running" /\ vm'.msi = "none"
        /\ vm'.cert = vm.cert /\ vm'.secureboot = vm.secureboot /\ vm'.signing = vm.signing /\ vm'.tools = vm.tools
    BY <1>3, <2>1 DEF Vms
  <2>3. Power'
    BY <2>2 DEF Power, Busy
  <2>4. SignedWhenInstalled'
    BY <2>2 DEF IInv, SignedWhenInstalled
  <2>5. AsReady(vm, vm')
    BY <2>2 DEF AsReady
  <2>6. /\ todo' = Tail(todo) /\ retries' = retries /\ raised' = raised /\ snapshot' = snapshot
        /\ phase' = phase /\ yielded' = yielded /\ botched' = botched /\ tests' = tests
        /\ vanished' = vanished /\ trouble' = trouble
    BY <1>1, <1>3 DEF Proceed, Step, history
  <2> QED BY <1>1, <2>1, <2>2, <2>3, <2>4, <2>5, <2>6, Proceeds
<1> QED BY <1>1, <1>2, <1>3

\* Commands about the CD drive, the parameters of the VM and its files.
LEMMA Commands ==
    ASSUME IInv, Eject \/ EjectCd \/ Insert \/ SecureBootOff \/ Certutil \/ Copy
    PROVE  IInv'
<1>1. /\ todo # <<>> /\ Step
      /\ \/ Raise /\ vm' = vm /\ (UNCHANGED history \/ Trouble)
         \/ /\ Proceed /\ UNCHANGED history
            /\ \/ vm' = [vm EXCEPT !.cd = FALSE] /\ Head(todo) \in {"eject", "eject cd"}
               \/ vm' = [vm EXCEPT !.cd = TRUE] /\ Head(todo) = "insert"
               \/ vm' = [vm EXCEPT !.secureboot = FALSE] /\ Head(todo) = "secureboot off"
               \/ vm' = [vm EXCEPT !.cert = TRUE] /\ Head(todo) = "certutil"
               \/ vm' = [vm EXCEPT !.package = TRUE] /\ Head(todo) = "copy"
  BY DEF Eject, EjectCd, Insert, SecureBootOff, Certutil, Copy, Try, Doing
<1>2. CASE Raise /\ vm' = vm /\ (UNCHANGED history \/ Trouble)
  BY <1>1, <1>2, Fails
<1>3. CASE /\ Proceed /\ UNCHANGED history
           /\ \/ vm' = [vm EXCEPT !.cd = FALSE] /\ Head(todo) \in {"eject", "eject cd"}
              \/ vm' = [vm EXCEPT !.cd = TRUE] /\ Head(todo) = "insert"
              \/ vm' = [vm EXCEPT !.secureboot = FALSE] /\ Head(todo) = "secureboot off"
              \/ vm' = [vm EXCEPT !.cert = TRUE] /\ Head(todo) = "certutil"
              \/ vm' = [vm EXCEPT !.package = TRUE] /\ Head(todo) = "copy"
  <2>1. vm \in Vms
    BY <1>1, AtStatement
  <2>2. /\ vm' \in Vms /\ vm'.power = vm.power /\ vm'.ssh = vm.ssh /\ vm'.off = vm.off /\ vm'.msi = vm.msi
        /\ vm'.tools = vm.tools /\ vm'.signing = vm.signing
        /\ vm.cert => vm'.cert
        /\ ~vm.secureboot => ~vm'.secureboot
        /\ Head(todo) = "certutil" => vm'.cert
        /\ Head(todo) = "secureboot off" => ~vm'.secureboot
    BY <1>3, <2>1 DEF Vms
  <2>3. Head(todo) \notin {"enable_testsign", "bcdedit", "halted?", "vm-start", "vendor device"}
    BY <1>3
  <2>4. ~Busy
    BY <1>1, <2>3, Unguarded DEF Busy
  <2> QED BY <1>1, <1>3, <2>2, <2>3, <2>4, ChangesElsewhere DEF Proceed
<1> QED BY <1>1, <1>2, <1>3

LEMMA VendorDevices == ASSUME IInv, VendorDevice PROVE IInv'
<1>1. /\ todo # <<>> /\ Head(todo) = "vendor device" /\ Step
      /\ \/ Raise /\ vm' = vm /\ (UNCHANGED history \/ Trouble)
         \/ Proceed /\ UNCHANGED history /\ vm' = [vm EXCEPT !.vendor = TRUE]
         \/ Proceed /\ UNCHANGED history /\ vm' = vm
  BY DEF VendorDevice, Try, Doing, Goto, Proceed
<1>2. CASE Raise /\ vm' = vm /\ (UNCHANGED history \/ Trouble)
  BY <1>1, <1>2, Fails
<1>3. CASE /\ Proceed /\ UNCHANGED history
           /\ vm' = [vm EXCEPT !.vendor = TRUE] \/ vm' = vm
  <2>1. vm \in Vms
    BY <1>1, AtStatement
  <2>2. /\ vm' \in Vms /\ vm'.power = vm.power /\ vm'.ssh = vm.ssh /\ vm'.off = vm.off /\ vm'.msi = vm.msi
        /\ vm'.tools = vm.tools /\ vm'.signing = vm.signing
        /\ vm.cert => vm'.cert
        /\ ~vm.secureboot => ~vm'.secureboot
    BY <1>3, <2>1 DEF Vms
  <2> QED BY <1>1, <1>3, <2>2, ChangesElsewhere DEF Proceed
<1> QED BY <1>1, <1>2, <1>3

\* Commands that make the guest shut down, by themselves or once msiexec ends.
LEMMA GivesIt ==
    ASSUME IInv, todo # <<>>, Step, Proceed, UNCHANGED history, vm' \in Vms,
           Head(todo) \in GivesShutdown, vm.power = "running", vm'.power = "running",
           vm'.cert = vm.cert, vm'.secureboot = vm.secureboot,
           vm.signing # "off" => vm'.signing # "off",
           Head(todo) = "bcdedit" => vm'.signing # "off",
           vm'.msi # "none" => vm'.off # "given",
           SignedWhenInstalled'
    PROVE  IInv'
<1>1. /\ todo \in Programs /\ trouble \in 0..MaxTrouble /\ yielded \in BOOLEAN
  BY AtStatement
<1>2. /\ todo' = Tail(todo) /\ retries' = retries /\ raised' = raised /\ snapshot' = snapshot
      /\ phase' = phase /\ yielded' = yielded /\ botched' = botched /\ tests' = tests
      /\ vanished' = vanished /\ trouble' = trouble
  BY DEF Proceed, Step, history
<1>3. Guarded'
  BY <1>1, <1>2, TailIsProgram DEF Guarded
<1>4. Power'
  BY <1>3 DEF Power
<1>5. AsReady(vm, vm')
  BY DEF AsReady
<1>6. Head(todo) \notin {"enable_testsign", "certutil", "secureboot off"}
  BY DEF GivesShutdown
<1> QED BY <1>1, <1>2, <1>4, <1>5, <1>6, Proceeds

LEMMA Bcdedits == ASSUME IInv, Bcdedit PROVE IInv'
<1> DEFINE done == [vm EXCEPT !.signing = IF @ = "on" THEN @ ELSE "set", !.off = "given"]
<1>1. /\ todo # <<>> /\ Head(todo) = "bcdedit" /\ Step
      /\ \/ Up /\ vm' = done /\ Proceed /\ UNCHANGED history
         \/ Raise /\ vm' = vm /\ (UNCHANGED history \/ Trouble)
  BY DEF Bcdedit, Try, Doing
<1>2. CASE Raise /\ vm' = vm /\ (UNCHANGED history \/ Trouble)
  BY <1>1, <1>2, Fails
<1>3. CASE Up /\ vm' = done /\ Proceed /\ UNCHANGED history
  <2>1. vm \in Vms /\ vm.msi = "none"
    BY <1>1, AtStatement, Unguarded
  <2>2. /\ vm' \in Vms /\ vm'.power = vm.power /\ vm'.msi = "none" /\ vm'.tools = vm.tools
        /\ vm'.cert = vm.cert /\ vm'.secureboot = vm.secureboot
        /\ vm'.signing # "off"
        /\ vm.signing = "on" => vm'.signing = "on"
    BY <1>3, <2>1 DEF Vms
  <2>3. SignedWhenInstalled'
    BY <2>2 DEF IInv, SignedWhenInstalled
  <2> QED BY <1>1, <1>3, <2>2, <2>3, GivesIt DEF Up, GivesShutdown
<1> QED BY <1>1, <1>2, <1>3

LEMMA Backgrounds ==
    ASSUME IInv, Installs \/ Uninstalls
    PROVE  IInv'
<1>1. /\ todo # <<>> /\ Step
      /\ \/ Raise /\ vm' = vm /\ (UNCHANGED history \/ Trouble)
         \/ /\ Up /\ Proceed /\ UNCHANGED history
            /\ \/ /\ vm' = [vm EXCEPT !.msi = "installing", !.off = "after msi"]
                  /\ Head(todo) \in {"msiexec /i &", "install-drivers.ps1 &"}
               \/ /\ vm' = [vm EXCEPT !.msi = "removing", !.off = "after msi"]
                  /\ Head(todo) \in {"msiexec /x &", "XenClean &"}
  BY DEF Installs, Uninstalls, Background, Try, Doing, SeesTheCd
<1>2. CASE Raise /\ vm' = vm /\ (UNCHANGED history \/ Trouble)
  BY <1>1, <1>2, Fails
<1>3. CASE /\ Up /\ Proceed /\ UNCHANGED history
           /\ \/ /\ vm' = [vm EXCEPT !.msi = "installing", !.off = "after msi"]
                 /\ Head(todo) \in {"msiexec /i &", "install-drivers.ps1 &"}
              \/ /\ vm' = [vm EXCEPT !.msi = "removing", !.off = "after msi"]
                 /\ Head(todo) \in {"msiexec /x &", "XenClean &"}
  <2>1. vm \in Vms /\ todo \in Programs
    BY <1>1, AtStatement
  <2>2. Head(todo) \in GivesShutdown /\ Head(todo) \notin {"halted?", "vm-start", "vendor device", "bcdedit"}
    BY <1>3 DEF GivesShutdown
  <2>3. /\ vm' \in Vms /\ vm'.power = vm.power /\ vm'.off = "after msi" /\ vm'.tools = vm.tools
        /\ vm'.cert = vm.cert /\ vm'.secureboot = vm.secureboot /\ vm'.signing = vm.signing
        /\ vm'.msi = "installing" => Head(todo) \in DriverInstalls
    BY <1>3, <2>1 DEF Vms, DriverInstalls
  <2>4. vm.signing # "set"
    BY <1>1, <1>3, <2>2, Unguarded DEF Up
  <2>5. TestSign /\ Head(todo) \in DriverInstalls => vm.cert /\ ~vm.secureboot /\ vm.signing = "on"
    <3> SUFFICES ASSUME TestSign, Head(todo) \in DriverInstalls
                 PROVE  vm.cert /\ ~vm.secureboot /\ vm.signing = "on"
      OBVIOUS
    <3>1. Ready(todo, vm)
      BY DEF IInv, Signing
    <3>2. vm.cert /\ ~vm.secureboot /\ vm.signing # "off"
      BY <1>1, <2>1, <3>1, ReadyNow
    <3> QED BY <2>1, <2>4, <3>2 DEF Vms
  <2>6. SignedWhenInstalled'
    BY <2>3, <2>5 DEF IInv, SignedWhenInstalled
  <2> QED BY <1>1, <1>3, <2>2, <2>3, <2>6, GivesIt DEF Up
<1> QED BY <1>1, <1>2, <1>3

LEMMA Msiexecs == ASSUME IInv, Msiexec PROVE IInv'
<1>1. /\ todo # <<>> /\ Step /\ Head(todo) = "msiexec /i"
      /\ \/ Raise /\ vm' = vm /\ (UNCHANGED history \/ Trouble)
         \/ Up /\ Proceed /\ UNCHANGED history /\ vm' = [vm EXCEPT !.tools = "installed"]
  BY DEF Msiexec, Try, Doing
<1>2. CASE Raise /\ vm' = vm /\ (UNCHANGED history \/ Trouble)
  BY <1>1, <1>2, Fails
<1>3. CASE Up /\ Proceed /\ UNCHANGED history /\ vm' = [vm EXCEPT !.tools = "installed"]
  <2>1. vm \in Vms /\ todo \in Programs /\ trouble \in 0..MaxTrouble /\ yielded \in BOOLEAN
        /\ (vm.power = "halted" => ~vm.ssh)
    BY <1>1, AtStatement
  <2>2. /\ vm' \in Vms /\ vm'.power = vm.power /\ vm'.ssh = vm.ssh /\ vm'.msi = vm.msi
        /\ vm'.cert = vm.cert /\ vm'.secureboot = vm.secureboot /\ vm'.signing = vm.signing
    BY <1>3, <2>1 DEF Vms
  <2>3. vm.msi = "none" /\ vm.signing # "set"
    BY <1>1, <1>3, Unguarded DEF Up
  <2>4. TestSign => vm.cert /\ ~vm.secureboot /\ vm.signing = "on"
    <3> SUFFICES ASSUME TestSign
                 PROVE  vm.cert /\ ~vm.secureboot /\ vm.signing = "on"
      OBVIOUS
    <3>1. Ready(todo, vm)
      BY DEF IInv, Signing
    <3>2. vm.cert /\ ~vm.secureboot /\ vm.signing # "off"
      BY <1>1, <2>1, <3>1, ReadyNow DEF DriverInstalls
    <3> QED BY <2>1, <2>3, <3>2 DEF Vms
  <2>5. SignedWhenInstalled'
    BY <2>2, <2>4 DEF SignedWhenInstalled
  <2>6. Power'
    BY <2>1, <2>2, <2>3 DEF Power, Busy
  <2>7. AsReady(vm, vm')
    BY <2>2 DEF AsReady
  <2>8. /\ todo' = Tail(todo) /\ retries' = retries /\ raised' = raised /\ snapshot' = snapshot
        /\ phase' = phase /\ yielded' = yielded /\ botched' = botched /\ tests' = tests
        /\ vanished' = vanished /\ trouble' = trouble
    BY <1>1, <1>3 DEF Proceed, Step, history
  <2> QED BY <1>1, <2>1, <2>2, <2>5, <2>6, <2>7, <2>8, Proceeds
<1> QED BY <1>1, <1>2, <1>3

-----------------------------------------------------------------------------
(* Statements that choose what runs next.                                  *)

LEMMA WithoutBoth ==
    ASSUME NEW s \in Seq(Statements), NEW t \in Seq(Statements), NEW x, Without(s, x), Without(t, x)
    PROVE  s \o t \in Seq(Statements) /\ Without(s \o t, x)
<1>1. \A i \in 1..Len(s \o t) :
         \/ \E j \in 1..Len(s) : (s \o t)[i] = s[j]
         \/ \E j \in 1..Len(t) : (s \o t)[i] = t[j]
  <2> SUFFICES ASSUME NEW i \in 1..Len(s \o t), i \notin 1..Len(s)
               PROVE  i - Len(s) \in 1..Len(t) /\ (s \o t)[i] = t[i - Len(s)]
    OBVIOUS
  <2> QED OBVIOUS
<1> QED BY <1>1 DEF Without

LEMMA EnablingLooksForNoDrive == enable_testsign \in Seq(Statements) /\ Without(enable_testsign, "drive?")
<1> DEFINE o == <<"secureboot off">>
           a == vm_shutdown_without_tools \o o \o StartAndWait
           p == IF vm.secureboot THEN a ELSE <<>>
           c == <<"certutil", "bcdedit", "halted?">>
           W(s) == s \in Seq(Statements) /\ Without(s, "drive?")
<1>1. W(vm_shutdown_without_tools) /\ W(StartAndWait)
  BY DEF vm_shutdown_without_tools, StartAndWait, wait_for_vm_running_and_ssh_up_without_tools, Without, Statements
<1>2. W(o) /\ W(c) /\ W(<<>>)
  <2>1. o \in Seq(Statements) /\ c \in Seq(Statements) /\ <<>> \in Seq(Statements)
    BY DEF Statements
  <2>2. Without(o, "drive?") /\ Without(<<>>, "drive?")
    <3>1. \A x : \A i \in 1..Len(<<x>>) : <<x>>[i] = x
      OBVIOUS
    <3>2. \A i \in 1..Len(<<>>) : FALSE
      BY EmptyProgram
    <3>3. Without(o, "drive?")
      <4>1. \A i \in 1..Len(o) : o[i] = "secureboot off"
        BY <3>1
      <4> HIDE DEF o
      <4> QED BY <4>1 DEF Without
    <3>4. Without(<<>>, "drive?")
      BY <3>2 DEF Without
    <3> QED BY <3>3, <3>4
  <2>3. Without(c, "drive?")
    BY DEF Without
  <2> QED BY <2>1, <2>2, <2>3
<1>3. \A s, t : W(s) /\ W(t) => W(s \o t)
  BY WithoutBoth
<1> HIDE DEF o, c, W
<1>4. W(a)
  BY <1>1, <1>2, <1>3
<1>5. W(p)
  BY <1>2, <1>4
<1> HIDE DEF p
<1>6. W(p \o c \o StartAndWait)
  BY <1>1, <1>2, <1>3, <1>5
<1> QED BY <1>6 DEF enable_testsign, W, o, c, p

LEMMA Jumps ==
    ASSUME IInv, todo # <<>>, Step, vm' = vm, raised' = raised, UNCHANGED history,
           Head(todo) \notin {"halted?", "vm-start", "vendor device"},
           todo' \in Programs, retries' \in 0..2, retries' > 0 \/ Without(todo', "drive?"),
           TestSign => Ready(todo', vm)
    PROVE  IInv'
<1>1. /\ vm \in Vms /\ trouble \in 0..MaxTrouble /\ yielded \in BOOLEAN
      /\ vm.power = "halted" => ~vm.ssh
  BY AtStatement
<1>2. /\ snapshot' = snapshot /\ phase' = phase /\ yielded' = yielded
      /\ botched' = botched /\ tests' = tests /\ vanished' = vanished /\ trouble' = trouble
  BY DEF Step, history
<1>3. Power'
  BY <1>1, Unguarded DEF Power, Busy
<1>4. Signing'
  BY DEF Signing
<1>5. SignedWhenInstalled'
  BY DEF IInv, SignedWhenInstalled
<1> QED BY <1>1, <1>2, <1>3, <1>4, <1>5, Continues

\* The rest of the program, if the next statement is none that prepares the
\* guest for an installer.
LEMMA RestIsReady ==
    ASSUME IInv, todo # <<>>,
           Head(todo) \notin {"enable_testsign", "certutil", "secureboot off", "bcdedit"}
    PROVE  /\ Tail(todo) \in Programs
           /\ TestSign => Ready(Tail(todo), vm)
           /\ retries > 0 \/ Without(Tail(todo), "drive?")
<1>1. todo \in Programs
  BY AtStatement
<1>2. AsReady(vm, vm)
  BY DEF AsReady
<1>3. TestSign => Ready(Tail(todo), vm)
  <2> SUFFICES ASSUME TestSign PROVE Ready(Tail(todo), vm)
    OBVIOUS
  <2>1. Ready(todo, vm)
    BY DEF IInv, Signing
  <2> QED BY <1>1, <1>2, <2>1, ReadyTail
<1>4. retries > 0 \/ Without(todo, "drive?")
  BY DEF IInv, Shape
<1> QED BY <1>1, <1>3, <1>4, TailIsProgram

\* Statements put before a program.
LEMMA Prefix ==
    ASSUME NEW s \in Programs, Plain(s), NEW t \in Programs, TestSign => Ready(t, vm)
    PROVE  s \o t \in Programs /\ (TestSign => Ready(s \o t, vm))
BY Concatenation

LEMMA StartsIfOff == ASSUME IInv, StartIfOff PROVE IInv'
<1>1. /\ todo # <<>> /\ Head(todo) = "start if off" /\ Step /\ vm' = vm /\ raised' = raised
      /\ UNCHANGED history /\ retries' = retries
      /\ todo' = Tail(todo) \/ todo' = <<"vm-start">> \o Tail(todo)
  BY DEF StartIfOff, Goto, Doing
<1>2. /\ Tail(todo) \in Programs
      /\ TestSign => Ready(Tail(todo), vm)
      /\ retries > 0 \/ Without(Tail(todo), "drive?")
  BY <1>1, RestIsReady
<1>3. <<"vm-start">> \in Programs /\ Plain(<<"vm-start">>)
  <2>1. <<"vm-start">> \in Seq(Quiet)
    BY DEF Quiet, Statements, GivesShutdown, DriverInstalls
  <2> QED BY <2>1, QuietProgram
<1>4. <<"vm-start">> \o Tail(todo) \in Programs /\ (TestSign => Ready(<<"vm-start">> \o Tail(todo), vm))
  BY <1>2, <1>3, Prefix
<1>5. Without(Tail(todo), "drive?") => Without(<<"vm-start">> \o Tail(todo), "drive?")
  <2>1. <<"vm-start">> \in Seq(Statements) /\ Tail(todo) \in Seq(Statements)
    BY <1>2, <1>3 DEF Programs
  <2>2. Without(<<"vm-start">>, "drive?")
    BY DEF Without
  <2> QED BY <2>1, <2>2, WithoutBoth
<1>6. todo' \in Programs /\ (TestSign => Ready(todo', vm)) /\ (retries' > 0 \/ Without(todo', "drive?"))
  BY <1>1, <1>2, <1>4, <1>5
<1>7. retries \in 0..2
  BY <1>1, AtStatement
<1> QED BY <1>1, <1>6, <1>7, Jumps

LEMMA ShutdownExes == ASSUME IInv, ShutdownExe PROVE IInv'
<1> DEFINE done == [vm EXCEPT !.off = "given"]
<1>1. /\ todo # <<>> /\ Head(todo) = "shutdown.exe" /\ Step
      /\ \/ Raise /\ vm' = vm /\ (UNCHANGED history \/ Trouble)
         \/ Up /\ Proceed /\ UNCHANGED history /\ vm' = done
         \/ vm' = vm /\ raised' = raised /\ UNCHANGED history /\ retries' = retries /\ todo' = Tail(Tail(todo))
  BY DEF ShutdownExe, Try, Doing, Goto
<1>0. todo \in Programs /\ vm \in Vms /\ vm.msi = "none" /\ retries \in 0..2
  BY <1>1, AtStatement, Unguarded
<1>2. CASE Raise /\ vm' = vm /\ (UNCHANGED history \/ Trouble)
  BY <1>1, <1>2, Fails
<1>3. CASE Up /\ Proceed /\ UNCHANGED history /\ vm' = done
  <2>1. /\ vm' \in Vms /\ vm'.power = vm.power /\ vm'.msi = "none" /\ vm'.tools = vm.tools
        /\ vm'.cert = vm.cert /\ vm'.secureboot = vm.secureboot /\ vm'.signing = vm.signing
    BY <1>0, <1>3 DEF Vms
  <2>2. SignedWhenInstalled'
    BY <2>1 DEF IInv, SignedWhenInstalled
  <2> QED BY <1>1, <1>3, <2>1, <2>2, GivesIt DEF Up, GivesShutdown
<1>4. CASE vm' = vm /\ raised' = raised /\ UNCHANGED history /\ retries' = retries /\ todo' = Tail(Tail(todo))
  <2> DEFINE t == Tail(todo)
  <2>1. t \in Programs /\ (TestSign => Ready(t, vm)) /\ (retries > 0 \/ Without(t, "drive?"))
    BY <1>1, RestIsReady
  <2>2. t # <<>> /\ Head(t) = "halted?"
    BY <1>0, <1>1, TailIsProgram DEF GivesShutdown
  <2> HIDE DEF t
  <2>3. AsReady(vm, vm)
    BY DEF AsReady
  <2>4. TestSign => Ready(Tail(t), vm)
    BY <2>1, <2>2, <2>3, ReadyTail
  <2>5. Tail(t) \in Programs /\ (retries > 0 \/ Without(Tail(t), "drive?"))
    BY <2>1, <2>2, TailIsProgram
  <2> QED BY <1>0, <1>1, <1>4, <2>4, <2>5, Jumps DEF t
<1> QED BY <1>1, <1>2, <1>3, <1>4

LEMMA Inserts ==
    ASSUME IInv, todo # <<>>,
           Head(todo) \notin {"enable_testsign", "certutil", "secureboot off", "bcdedit"}
    PROVE  /\ insert_cd_safe \o Tail(todo) \in Programs
           /\ TestSign => Ready(insert_cd_safe \o Tail(todo), vm)
<1>1. Tail(todo) \in Programs /\ (TestSign => Ready(Tail(todo), vm))
  BY RestIsReady
<1> QED BY <1>1, Inserting, Prefix

LEMMA Drives == ASSUME IInv, Drive PROVE IInv'
<1> DEFINE e == vm_shutdown_without_tools \o <<"TimeoutError">>
           n == vm_shutdown_without_tools \o (insert_cd_safe \o Tail(todo))
<1>1. /\ todo # <<>> /\ Head(todo) = "drive?" /\ Step /\ vm' = vm /\ raised' = raised
      /\ UNCHANGED history
      /\ \/ todo' = Tail(todo) /\ retries' = retries
         \/ todo' = n /\ retries' = retries - 1 /\ retries > 1
         \/ todo' = e /\ retries' = retries - 1
  BY DEF Drive, Goto, Doing
<1>2. retries \in 0..2 /\ retries > 0
  BY <1>1 DEF IInv, TypeOK
<1>3. /\ Tail(todo) \in Programs
      /\ TestSign => Ready(Tail(todo), vm)
  BY <1>1, RestIsReady
<1>4. n \in Programs /\ (TestSign => Ready(n, vm))
  BY <1>1, Inserts, Shutdown, Prefix
<1>5. e \in Programs /\ Ready(e, vm) /\ Without(e, "drive?")
  BY Shutdown, PlainIsPrepared, PreparedIsReady
<1> HIDE DEF e, n
<1>6. todo' \in Programs /\ (TestSign => Ready(todo', vm))
  BY <1>1, <1>3, <1>4, <1>5 DEF e
<1>7. retries' > 0 \/ Without(todo', "drive?")
  <2>1. retries > 1 => retries - 1 > 0
    BY <1>2
  <2> QED BY <1>1, <1>2, <1>5, <2>1 DEF e
<1>8. retries' \in 0..2
  BY <1>1, <1>2
<1> QED BY <1>1, <1>6, <1>7, <1>8, Jumps

LEMMA DriveStillTheres == ASSUME IInv, DriveStillThere PROVE IInv'
<1>1. /\ todo # <<>> /\ Head(todo) = "drive still there?" /\ Step /\ vm' = vm /\ raised' = raised
      /\ UNCHANGED history
      /\ \/ todo' = Tail(todo) /\ retries' = retries
         \/ todo' = insert_cd_safe \o Tail(todo) /\ retries' = 2
  BY DEF DriveStillThere, Goto, Doing
<1>2. retries \in 0..2
  BY <1>1, AtStatement
<1>3. /\ Tail(todo) \in Programs
      /\ TestSign => Ready(Tail(todo), vm)
      /\ retries > 0 \/ Without(Tail(todo), "drive?")
  BY <1>1, RestIsReady
<1>4. /\ insert_cd_safe \o Tail(todo) \in Programs
      /\ TestSign => Ready(insert_cd_safe \o Tail(todo), vm)
  BY <1>1, Inserts
<1>5. todo' \in Programs /\ (TestSign => Ready(todo', vm))
  <2>1. CASE todo' = Tail(todo)
    BY <2>1, <1>3
  <2>2. CASE todo' = insert_cd_safe \o Tail(todo)
    BY <2>2, <1>4
  <2> QED BY <1>1, <2>1, <2>2
<1>6. retries' \in 0..2
  <2>1. 2 \in 0..2 OBVIOUS
  <2> QED BY <1>1, <1>2, <2>1
<1>7. retries' > 0 \/ Without(todo', "drive?")
  <2>1. 2 > 0 OBVIOUS
  <2> QED BY <1>1, <1>3, <2>1
<1> QED BY <1>1, <1>5, <1>6, <1>7, Jumps

LEMMA Yields == ASSUME IInv, Yield PROVE IInv'
<1>1. /\ todo # <<>> /\ Head(todo) = "yield" /\ todo' = Tail(todo) /\ retries' = retries /\ raised' = raised
      /\ yielded' = TRUE /\ vm' = vm /\ snapshot' = snapshot /\ phase' = phase
      /\ botched' = botched /\ tests' = tests /\ vanished' = vanished /\ trouble' = trouble
  BY DEF Yield, Doing, Proceed, history
<1>2. ~Busy
  BY <1>1, Unguarded DEF Busy
<1> QED BY <1>1, <1>2, Passes

LEMMA Enables == ASSUME IInv, EnableTestsign PROVE IInv'
<1>1. /\ todo # <<>> /\ Head(todo) = "enable_testsign" /\ Step /\ vm' = vm /\ raised' = raised
      /\ UNCHANGED history /\ retries' = retries /\ todo' = enable_testsign \o Tail(todo)
  BY DEF EnableTestsign, Goto, Doing
<1>2. todo \in Programs /\ retries \in 0..2
  BY <1>1, AtStatement
<1>3. Tail(todo) \in Programs /\ (Without(todo, "drive?") => Without(Tail(todo), "drive?"))
  BY <1>1, <1>2, TailIsProgram
<1>4. todo' \in Programs /\ Ready(todo', vm)
  BY <1>1, <1>3, Enabling
<1>5. retries' > 0 \/ Without(todo', "drive?")
  <2>1. retries > 0 \/ Without(Tail(todo), "drive?")
    BY <1>3 DEF IInv, Shape
  <2>2. enable_testsign \in Seq(Statements) /\ Without(enable_testsign, "drive?")
    BY EnablingLooksForNoDrive
  <2>3. Without(Tail(todo), "drive?") => Without(enable_testsign \o Tail(todo), "drive?")
    BY <1>3, <2>2, WithoutBoth DEF Programs
  <2> QED BY <1>1, <2>1, <2>3
<1> QED BY <1>1, <1>2, <1>4, <1>5, Jumps

LEMMA Statementing == ASSUME IInv, Statement PROVE IInv'
<1>1. CASE Running \/ SshUp \/ HaltedNow \/ Offboarded \/ Working \/ Uninstalled
  BY <1>1, Waitings
<1>2. CASE Eject \/ EjectCd \/ Insert \/ SecureBootOff \/ Certutil \/ Copy
  BY <1>2, Commands
<1>3. CASE Installs \/ Uninstalls
  BY <1>3, Backgrounds
<1> QED BY <1>1, <1>2, <1>3, VmStarts, StartsIfOff, ShutdownExes, Drives, TimeoutErrors, DriveStillTheres,
           Enables, Bcdedits, VendorDevices, Msiexecs, Yields DEF Statement

-----------------------------------------------------------------------------
(* The guest.                                                              *)

\* What the guest does by itself, while it runs.
LEMMA GuestMoves ==
    ASSUME IInv, UNCHANGED program, UNCHANGED <<botched, tests, trouble>>, vanished' \in 0..MaxVanish,
           vm.power = "running", vm' \in Vms, AsReady(vm, vm'),
           vm'.power = "halted" => ~vm'.ssh,
           vm'.msi # "none" => vm'.power = "running" /\ vm'.off # "given",
           vm'.msi # "none" \/ (vm'.signing = "set" /\ vm'.ssh) => Busy,
           SignedWhenInstalled'
    PROVE  IInv'
<1>1. /\ todo' = todo /\ snapshot' = snapshot /\ retries' = retries /\ phase' = phase /\ raised' = raised
      /\ yielded' = yielded /\ botched' = botched /\ tests' = tests /\ trouble' = trouble
  BY DEF program
<1>2. TypeOK'
  BY <1>1 DEF IInv, TypeOK
<1>3. Shape'
  BY <1>1 DEF IInv, Shape
<1>4. Power'
  <2>1. Busy => Guarded
    BY DEF IInv, Power
  <2>2. Guarded' <=> Guarded
    BY <1>1 DEF Guarded
  <2> QED BY <2>1, <2>2 DEF Power, Busy
<1>5. Signing'
  BY <1>1, StaysReady DEF IInv, Signing
<1>6. StartsUnsealed'
  <2>1. vm # snapshot
    BY DEF IInv, Shape, Unsealed
  <2> QED BY <1>1, <2>1 DEF IInv, StartsUnsealed
<1> QED BY <1>2, <1>3, <1>4, <1>5, <1>6 DEF IInv

LEMMA VmFacts ==
    ASSUME IInv
    PROVE  /\ vm \in Vms /\ vanished \in 0..MaxVanish
           /\ vm.power = "halted" => ~vm.ssh
           /\ vm.msi # "none" => vm.power = "running" /\ vm.off # "given"
BY DEF IInv, TypeOK, Power

LEMMA Booting == ASSUME IInv, Boots PROVE IInv'
<1>1. /\ vm.power = "running" /\ UNCHANGED program /\ UNCHANGED <<botched, tests, trouble>>
  BY DEF Boots
<1>2. PICK found \in BOOLEAN :
         /\ found \/ (vm.cd /\ vanished < MaxVanish)
         /\ vanished' = IF found THEN vanished ELSE vanished + 1
         /\ vm' = [vm EXCEPT !.ssh = TRUE, !.drive = found,
                       !.signing = IF @ = "set" THEN "on" ELSE @,
                       !.tools = CASE @ = "installed" -> "active" [] @ = "removed" -> "gone" [] OTHER -> @]
  BY DEF Boots
<1>3. vanished' \in 0..MaxVanish
  BY <1>2, VmFacts, WindowsAssumption
<1>4. /\ vm' \in Vms /\ vm'.power = vm.power /\ vm'.off = vm.off /\ vm'.msi = vm.msi
      /\ vm'.cert = vm.cert /\ vm'.secureboot = vm.secureboot
      /\ vm'.signing # "set" /\ (vm.signing # "off" => vm'.signing # "off")
      /\ vm.signing = "on" => vm'.signing = "on"
      /\ vm'.tools \in {"installed", "active"} => vm.tools \in {"installed", "active"}
  BY <1>2, VmFacts DEF Vms
<1>5. SignedWhenInstalled'
  BY <1>4 DEF IInv, SignedWhenInstalled
<1>6. AsReady(vm, vm')
  BY <1>4 DEF AsReady
<1> QED BY <1>1, <1>3, <1>4, <1>5, <1>6, VmFacts, GuestMoves DEF Busy

LEMMA ShuttingDown == ASSUME IInv, ShutsDown PROVE IInv'
<1>1. /\ vm.power = "running" /\ vm.off = "given" /\ UNCHANGED program
      /\ UNCHANGED <<botched, tests, trouble>> /\ vanished' = vanished
      /\ vm' = [vm EXCEPT !.power = "halted", !.off = "no", !.ssh = FALSE]
  BY DEF ShutsDown, history
<1>2. /\ vm' \in Vms /\ vm'.msi = "none" /\ vm'.ssh = FALSE /\ vm'.tools = vm.tools
      /\ vm'.cert = vm.cert /\ vm'.secureboot = vm.secureboot /\ vm'.signing = vm.signing
  BY <1>1, VmFacts DEF Vms
<1>3. SignedWhenInstalled'
  BY <1>2 DEF IInv, SignedWhenInstalled
<1>4. AsReady(vm, vm')
  BY <1>2 DEF AsReady
<1> QED BY <1>1, <1>2, <1>3, <1>4, VmFacts, GuestMoves

LEMMA EndingMsiexec == ASSUME IInv, MsiexecEnds PROVE IInv'
<1>1. /\ vm.power = "running" /\ vm.msi # "none" /\ UNCHANGED program
      /\ UNCHANGED <<botched, tests, trouble>> /\ vanished' = vanished
      /\ vm' = [vm EXCEPT !.msi = "none", !.off = IF @ = "after msi" THEN "given" ELSE @,
                       !.tools = IF vm.msi = "installing" THEN "installed" ELSE "removed",
                       !.offboarded = @ /\ vm.msi = "installing"]
  BY DEF MsiexecEnds, history, Up
<1>2. /\ vm' \in Vms /\ vm'.msi = "none" /\ vm'.power = vm.power /\ vm'.ssh = vm.ssh
      /\ vm'.tools \in {"installed", "active"} => vm.msi = "installing"
      /\ vm'.cert = vm.cert /\ vm'.secureboot = vm.secureboot /\ vm'.signing = vm.signing
  <2> DEFINE off == IF vm.off = "after msi" THEN "given" ELSE vm.off
             tools == IF vm.msi = "installing" THEN "installed" ELSE "removed"
             offboarded == vm.offboarded /\ vm.msi = "installing"
  <2>1. offboarded \in BOOLEAN
    BY Zenon
  <2>2. vm \in Vms /\ off \in {"no", "given", "after msi"} /\ tools \in {"installed", "removed"}
        /\ (tools = "installed" => vm.msi = "installing")
    BY VmFacts DEF Vms
  <2>3. vm' = [vm EXCEPT !.msi = "none", !.off = off, !.tools = tools, !.offboarded = offboarded]
    BY <1>1
  <2> HIDE DEF off, tools, offboarded
  <2> QED BY <2>1, <2>2, <2>3 DEF Vms
<1>3. SignedWhenInstalled'
  BY <1>2 DEF IInv, SignedWhenInstalled
<1>4. AsReady(vm, vm')
  BY <1>2 DEF AsReady
<1>5. vm'.signing = "set" /\ vm'.ssh => Busy
  BY <1>2 DEF Busy
<1> QED BY <1>1, <1>2, <1>3, <1>4, <1>5, VmFacts, GuestMoves

LEMMA Offboarding == ASSUME IInv, Offboards PROVE IInv'
<1>1. /\ vm.power = "running" /\ UNCHANGED program
      /\ UNCHANGED <<botched, tests, trouble>> /\ vanished' = vanished
      /\ vm' = [vm EXCEPT !.offboarded = TRUE]
  BY DEF Offboards, history, Up
<1>2. /\ vm' \in Vms /\ vm'.msi = vm.msi /\ vm'.power = vm.power /\ vm'.ssh = vm.ssh
      /\ vm'.off = vm.off /\ vm'.tools = vm.tools
      /\ vm'.cert = vm.cert /\ vm'.secureboot = vm.secureboot /\ vm'.signing = vm.signing
  BY <1>1, VmFacts DEF Vms
<1>3. SignedWhenInstalled'
  BY <1>2 DEF IInv, SignedWhenInstalled
<1>4. AsReady(vm, vm')
  BY <1>2 DEF AsReady
<1>5. vm'.msi # "none" \/ (vm'.signing = "set" /\ vm'.ssh) => Busy
  BY <1>2 DEF Busy
<1> QED BY <1>1, <1>2, <1>3, <1>4, <1>5, VmFacts, GuestMoves

-----------------------------------------------------------------------------
(* pytest.                                                                 *)

LEMMA SettingUp == ASSUME IInv, Setup PROVE IInv'
<1>1. /\ phase = "between" /\ tests < MaxTests /\ tests' = tests + 1
      /\ phase' = "setup" /\ todo' \in Setups /\ retries' = 2 /\ raised' = FALSE /\ yielded' = FALSE
      /\ vm' = vm /\ snapshot' = snapshot /\ botched' = botched /\ trouble' = trouble /\ vanished' = vanished
  BY DEF Setup
<1>2. todo' \in Programs /\ Begins(todo') /\ (TestSign => Prepared(todo'))
  BY <1>1, SetupPrograms DEF Fit
<1>3. tests' \in 0..MaxTests
  BY <1>1, WindowsAssumption DEF IInv, TypeOK
<1>4. {raised', yielded', botched'} \subseteq BOOLEAN
  BY <1>1 DEF IInv, TypeOK
<1>5. retries' \in 0..2 /\ retries' > 0
  BY <1>1
<1>6. TypeOK'
  BY <1>1, <1>3, <1>4, <1>5 DEF IInv, TypeOK
<1>7. Shape'
  BY <1>1, <1>2, <1>5 DEF IInv, Shape
<1>8. Power'
  <2>1. Guarded'
    BY <1>2 DEF Guarded, Begins
  <2> QED BY <1>1, <2>1, VmFacts DEF Power
<1>9. Signing'
  BY <1>2, PreparedIsReady DEF Signing
<1>10. SignedWhenInstalled' /\ StartsUnsealed'
  BY <1>1 DEF IInv, SignedWhenInstalled, StartsUnsealed
<1> QED BY <1>6, <1>7, <1>8, <1>9, <1>10 DEF IInv

LEMMA RunningBody == ASSUME IInv, Body PROVE IInv'
<1>1. /\ phase = "setup" /\ todo = <<>> /\ ~raised /\ phase' = "test"
      /\ todo' \in Bodies /\ retries' = 2 /\ raised' = raised /\ yielded' = yielded
      /\ vm' = vm /\ snapshot' = snapshot /\ botched' = botched /\ tests' = tests /\ trouble' = trouble
      /\ vanished' = vanished
  BY DEF Body, history
<1>2. todo' \in Programs /\ (TestSign => Prepared(todo'))
  BY <1>1, BodyPrograms DEF Fit
<1>3. raised = FALSE /\ {raised', yielded', botched'} \subseteq BOOLEAN
  BY <1>1 DEF IInv, TypeOK
<1>4. retries' \in 0..2 /\ retries' > 0
  BY <1>1
<1>5. TypeOK'
  BY <1>1, <1>3, <1>4 DEF IInv, TypeOK
<1>6. Shape'
  BY <1>1, <1>2, <1>3, <1>4 DEF IInv, Shape
<1>7. Power'
  <2>1. ~Busy
    BY <1>1 DEF IInv, Power, Guarded
  <2> QED BY <1>1, <2>1, VmFacts DEF Power, Busy
<1>8. Signing'
  BY <1>2, PreparedIsReady DEF Signing
<1>9. SignedWhenInstalled' /\ StartsUnsealed'
  BY <1>1 DEF IInv, SignedWhenInstalled, StartsUnsealed
<1> QED BY <1>5, <1>6, <1>7, <1>8, <1>9 DEF IInv

\* What pytest does with nothing left to run.
LEMMA Rests ==
    ASSUME IInv, todo = <<>>, UNCHANGED <<snapshot, todo, retries, raised, yielded, tests, trouble, vanished>>,
           botched' \in BOOLEAN, phase' \in {"between", "over"},
           vm' = vm \/ vm' = snapshot, botched' \/ vm' = snapshot \/ phase' = "over"
    PROVE  IInv'
<1>1. vm' \in Vms
  <2>1. \A v \in Unsealed : v \in Vms
    BY DEF Unsealed, Vms
  <2>2. vm \in Vms /\ snapshot \in Unsealed
    BY DEF IInv, TypeOK, Shape
  <2> QED BY <2>1, <2>2
<1>2. {raised', yielded', botched'} \subseteq BOOLEAN
  BY DEF IInv, TypeOK
<1>3. TypeOK'
  BY <1>1, <1>2 DEF IInv, TypeOK
<1>4. Shape'
  BY DEF IInv, Shape
<1>5. Power'
  <2>1. Guarded'
    BY DEF Guarded
  <2>2. /\ vm'.power = "halted" => ~vm'.ssh
        /\ vm'.msi # "none" => vm'.power = "running" /\ vm'.off # "given"
    BY VmFacts DEF IInv, Shape, Unsealed
  <2> QED BY <2>1, <2>2 DEF Power
<1>6. Signing'
  BY EmptyProgram DEF Signing, Ready
<1>7. SignedWhenInstalled'
  BY DEF IInv, SignedWhenInstalled, Shape, Unsealed
<1>8. StartsUnsealed'
  BY DEF StartsUnsealed
<1> QED BY <1>3, <1>4, <1>5, <1>6, <1>7, <1>8 DEF IInv

LEMMA Ending == ASSUME IInv, SetupFails \/ Revert \/ Over PROVE IInv'
<1>1. CASE SetupFails
  <2>1. todo = <<>>
    BY <1>1 DEF SetupFails, IInv, Shape
  <2> QED BY <1>1, <2>1, Rests DEF SetupFails
<1>2. CASE Revert
  <2>1. botched \in BOOLEAN
    BY DEF IInv, TypeOK
  <2> QED BY <1>2, <2>1, Rests DEF Revert, history
<1>3. CASE Over
  <2>1. todo = <<>> /\ botched \in BOOLEAN
    BY <1>3 DEF Over, IInv, Shape, TypeOK
  <2> QED BY <1>3, <2>1, Rests DEF Over, history
<1> QED BY <1>1, <1>2, <1>3

LEMMA Stuttering == ASSUME IInv, UNCHANGED vars PROVE IInv'
<1>1. /\ vm' = vm /\ snapshot' = snapshot /\ todo' = todo /\ retries' = retries /\ phase' = phase
      /\ raised' = raised /\ yielded' = yielded /\ botched' = botched /\ tests' = tests
      /\ trouble' = trouble /\ vanished' = vanished
  BY DEF vars, program, history
<1>2. TypeOK' /\ Shape' /\ SignedWhenInstalled' /\ StartsUnsealed' /\ Signing'
  BY <1>1 DEF IInv, TypeOK, Shape, SignedWhenInstalled, StartsUnsealed, Signing
<1>3. Power'
  BY <1>1 DEF IInv, Power, Busy, Guarded
<1> QED BY <1>2, <1>3 DEF IInv

THEOREM Inductive == Spec => []IInv
<1>1. IInv /\ [Next]_vars => IInv'
  <2> SUFFICES ASSUME IInv, [Next]_vars PROVE IInv'
    OBVIOUS
  <2>1. CASE Statement BY <2>1, Statementing
  <2>2. CASE Guest BY <2>2, Booting, ShuttingDown, EndingMsiexec, Offboarding DEF Guest
  <2>3. CASE SetupFails \/ Revert \/ Over BY <2>3, Ending
  <2>4. CASE Setup \/ Body BY <2>4, SettingUp, RunningBody
  <2>5. CASE Done \/ UNCHANGED vars BY <2>5, Stuttering DEF Done
  <2> QED BY <2>1, <2>2, <2>3, <2>4, <2>5 DEF Next, Pytest
<1> QED BY <1>1, Inits, PTL DEF Spec

\* The state of the guest, of the statements and of the retries is always as
\* declared; an attempt of insert_cd_safe never starts with none left.
THEOREM TypeCorrect == Spec => []TypeOK
<1>1. IInv => TypeOK
  BY DEF IInv
<1> QED BY <1>1, Inductive, PTL

\* An installer is never cut short by a shutdown, wherever a wait timed out, a
\* command failed or a test was given up (install_guest_tools and the others).
THEOREM NeverInterrupted == Spec => []InstallerNotInterrupted
<1>1. IInv => InstallerNotInterrupted
  BY DEF IInv, Power, InstallerNotInterrupted
<1> QED BY <1>1, Inductive, PTL

\* Drivers that need test signing are only ever installed in a guest that has
\* booted with it and trusts the certificate (enable_testsign).
THEOREM AlwaysSigned == Spec => []SignedWhenInstalled
<1>1. IInv => SignedWhenInstalled
  BY DEF IInv
<1> QED BY <1>1, Inductive, PTL

\* Every test starts from the unsealed guest unless a setup failed before its
\* yield (running_unsealed_windows_vm and the fixtures over it).
THEOREM AlwaysFromTheSnapshot == Spec => []StartsUnsealed
<1>1. IInv => StartsUnsealed
  BY DEF IInv
<1> QED BY <1>1, Inductive, PTL

-----------------------------------------------------------------------------
(* One missing drive.                                                      *)
(*                                                                         *)
(* A mark says what is known of the guest before a statement; an outline   *)
(* puts a mark before each statement of a program and one at its end, such *)
(* that every statement can do what it does.                               *)

Mark == [stage: {"new", "halted", "started", "up", "going"},   \* of the guest
         cd: {"any", "in", "out"},                             \* whether the ISO is in the drive
         sight: {"any", "again", "lost", "sure", "seen"},      \* whether the guest finds the drive
         package: BOOLEAN,                                     \* it has been copied
         drivers: {"any", "in", "out"}]                        \* on their way in or out

\* What a mark says.  "going": the guest shuts down, sooner or later; "again":
\* the drive may be looked for once more; "lost": it has been missing; "sure": it
\* is found, or will be when the guest has booted.
AtStage(a) ==
    CASE a.stage = "new"     -> vm.power = "halted" /\ ~vm.vendor
      [] a.stage = "halted"  -> vm.power = "halted"
      [] a.stage = "started" -> vm.power = "running" /\ vm.off = "no" /\ vm.msi = "none"
      [] a.stage = "up"      -> Up /\ vm.off = "no" /\ vm.msi = "none"
      [] a.stage = "going"   -> vm.power = "halted" \/ (vm.ssh /\ vm.off # "no")

InSight(a) ==
    /\ a.sight = "again" => retries = 2
    /\ a.sight \in {"lost", "sure"} => vanished = 1
    /\ a.sight = "sure" => vm.drive \/ ~vm.ssh
    /\ a.sight = "seen" => vm.drive /\ a.stage = "up"

WithDrivers(a, drivers, msi, pending, there) ==
    a.drivers = drivers =>
        IF a.stage \in {"started", "up"} THEN vm.tools = IF vm.ssh THEN there ELSE pending
        ELSE vm.msi = msi \/ (vm.msi = "none" /\ vm.tools = pending)

Holds(a) ==
    /\ AtStage(a) /\ InSight(a)
    /\ a.cd = "in" => vm.cd
    /\ a.cd = "out" => ~vm.cd
    /\ a.package => vm.package
    /\ WithDrivers(a, "in", "installing", "installed", "active")
    /\ WithDrivers(a, "out", "removing", "removed", "gone")

Installing == {"msiexec /i &", "install-drivers.ps1 &"}
Removing   == {"msiexec /x &", "XenClean &"}

\* What a statement needs to be done without an exception.
Needs(a, s) ==
    /\ s \in Statements \ {"TimeoutError", "secureboot off"}
    /\ s = "vendor device" => a.stage = "new"
    /\ s = "vm-start" => a.stage \in {"new", "halted"}
    /\ s \in {"start if off", "eject", "eject cd", "insert"} => a.stage \in {"halted", "up"}
    /\ s \in {"running?", "ssh?"} => a.stage \in {"started", "up"}
    /\ s = "halted?" => a.stage = "going"
    /\ s \in {"shutdown.exe", "drive?", "drive still there?", "enable_testsign", "certutil", "bcdedit",
              "copy", "msiexec /i", "offboarded?", "working?", "uninstalled?", "yield"}
             \cup Installing \cup Removing => a.stage = "up"
    /\ s = "insert" => a.cd = "out"
    /\ s \in {"drive?", "drive still there?", "enable_testsign", "certutil", "copy", "eject cd",
              "install-drivers.ps1 &", "XenClean &"} => a.cd = "in"
    /\ s \in {"start if off", "drive?"} => a.sight \in {"again", "sure"}
    /\ s \in {"enable_testsign", "certutil", "copy", "install-drivers.ps1 &", "XenClean &"} => a.sight = "seen"
    /\ s \in {"enable_testsign", "certutil", "bcdedit"} => TestSign
    /\ s \in {"msiexec /i", "msiexec /i &"} => a.package
    /\ s \in {"drive?", "drive still there?", "msiexec /i"} => a.drivers = "any"
    /\ s = "working?" => a.drivers = "in"
    /\ s = "uninstalled?" => a.drivers = "out"

\* The mark after it.
Then(a, s) ==
    [stage   |-> CASE s \in {"vm-start", "start if off"} -> "started"
                   [] s = "ssh?" -> "up"
                   [] s \in GivesShutdown -> "going"
                   [] s \in {"halted?", "vendor device"} -> "halted"
                   [] OTHER -> a.stage,
     cd      |-> CASE s \in {"eject", "eject cd"} -> "out" [] s = "insert" -> "in" [] OTHER -> a.cd,
     sight   |-> CASE s \in {"drive?", "drive still there?"} -> "seen"
                   [] s = "halted?" /\ a.sight = "lost" -> "sure"
                   [] s \in GivesShutdown \cup {"enable_testsign"} /\ a.sight = "seen" -> "any"
                   [] OTHER -> a.sight,
     package |-> a.package \/ s = "copy",
     drivers |-> CASE s \in Installing -> "in" [] s \in Removing -> "out"
                   [] s \in {"shutdown.exe", "bcdedit", "enable_testsign"} -> "any" [] OTHER -> a.drivers]

Outline(s, a, b) ==
    \E m \in [1..(Len(s) + 1) -> Mark] :
        /\ m[1] = a /\ m[Len(s) + 1] = b
        /\ \A i \in 1..Len(s) : Needs(m[i], s[i]) /\ m[i + 1] = Then(m[i], s[i])

\* One missing drive at most, and no other trouble.
Calm == ~botched /\ trouble = 0 /\ vanished <= 1 /\ ~(snapshot.secureboot /\ TestSign)

Outlined(s) == \E a, b \in Mark : Holds(a) /\ Outline(s, a, b) /\ (phase = "setup" => b.stage = "up")

Smooth ==
    Calm => /\ ~raised
            /\ vm.drive \/ vanished = 1
            /\ TestSign => ~vm.secureboot
            /\ phase \in {"setup", "test"} => Outlined(todo)

Goes(s, a, b) == a \in Mark /\ b \in Mark /\ Needs(a, s) /\ b = Then(a, s)

\* A mark, field by field.
M(stage, cd, sight, package, drivers) ==
    [stage |-> stage, cd |-> cd, sight |-> sight, package |-> package, drivers |-> drivers]

LEMMA ThenIsMark == ASSUME NEW a \in Mark, NEW s PROVE Then(a, s) \in Mark
<1> DEFINE c == Then(a, s)
<1>1. /\ a.stage \in {"new", "halted", "started", "up", "going"}
      /\ a.cd \in {"any", "in", "out"}
      /\ a.sight \in {"any", "again", "lost", "sure", "seen"}
      /\ a.drivers \in {"any", "in", "out"}
  BY DEF Mark
<1>2. c.stage \in {"new", "halted", "started", "up", "going"}
  BY <1>1 DEF Then
<1>3. c.cd \in {"any", "in", "out"}
  BY <1>1 DEF Then
<1>4. c.sight \in {"any", "again", "lost", "sure", "seen"}
  BY <1>1 DEF Then
<1>5. c.package \in BOOLEAN
  BY Zenon DEF Then
<1>6. c.drivers \in {"any", "in", "out"}
  BY <1>1 DEF Then
<1>7. c = [stage |-> c.stage, cd |-> c.cd, sight |-> c.sight, package |-> c.package, drivers |-> c.drivers]
  BY DEF Then
<1> HIDE DEF c
<1> QED BY <1>2, <1>3, <1>4, <1>5, <1>6, <1>7 DEF Mark, c

LEMMA EmptyOutline == ASSUME NEW a \in Mark, NEW b \in Mark PROVE Outline(<<>>, a, b) <=> a = b
<1>1. Len(<<>>) + 1 = 1 /\ 1..Len(<<>>) = {}
  OBVIOUS
<1>2. ASSUME a = b PROVE Outline(<<>>, a, b)
  <2> DEFINE m == [i \in 1..1 |-> a]
  <2>1. m \in [1..1 -> Mark] /\ m[1] = a
    OBVIOUS
  <2> QED BY <1>1, <1>2, <2>1 DEF Outline
<1>3. ASSUME Outline(<<>>, a, b) PROVE a = b
  BY <1>1, <1>3 DEF Outline
<1> QED BY <1>2, <1>3

LEMMA Single == ASSUME NEW s, NEW a, NEW b, Goes(s, a, b) PROVE Outline(<<s>>, a, b)
<1> DEFINE m == [i \in 1..2 |-> IF i = 1 THEN a ELSE b]
<1>1. m \in [1..2 -> Mark] /\ m[1] = a /\ m[2] = b
  BY DEF Goes
<1>2. Len(<<s>>) = 1 /\ <<s>>[1] = s /\ 1..Len(<<s>>) = {1} /\ Len(<<s>>) + 1 = 2 /\ 1 + 1 = 2
  OBVIOUS
<1>3. \A i \in 1..Len(<<s>>) : Needs(m[i], <<s>>[i]) /\ m[i + 1] = Then(m[i], <<s>>[i])
  BY <1>1, <1>2 DEF Goes
<1> HIDE DEF m
<1>4. m \in [1..(Len(<<s>>) + 1) -> Mark] /\ m[1] = a /\ m[Len(<<s>>) + 1] = b
  BY <1>1, <1>2
<1> QED BY <1>3, <1>4 DEF Outline

LEMMA Joined ==
    ASSUME NEW s \in Seq(Statements), NEW t \in Seq(Statements), NEW a, NEW b, NEW c,
           Outline(s, a, b), Outline(t, b, c)
    PROVE  s \o t \in Seq(Statements) /\ Outline(s \o t, a, c)
<1>1. PICK m \in [1..(Len(s) + 1) -> Mark] :
        /\ m[1] = a /\ m[Len(s) + 1] = b
        /\ \A i \in 1..Len(s) : Needs(m[i], s[i]) /\ m[i + 1] = Then(m[i], s[i])
  BY DEF Outline
<1>2. PICK n \in [1..(Len(t) + 1) -> Mark] :
        /\ n[1] = b /\ n[Len(t) + 1] = c
        /\ \A i \in 1..Len(t) : Needs(n[i], t[i]) /\ n[i + 1] = Then(n[i], t[i])
  BY DEF Outline
<1> DEFINE u == s \o t
           k == [i \in 1..(Len(u) + 1) |-> IF i <= Len(s) THEN m[i] ELSE n[i - Len(s)]]
<1>3. /\ u \in Seq(Statements) /\ Len(s) \in Nat /\ Len(t) \in Nat /\ Len(u) = Len(s) + Len(t)
      /\ \A i \in 1..Len(s) : u[i] = s[i]
      /\ \A i \in 1..Len(t) : u[i + Len(s)] = t[i]
  OBVIOUS
<1> HIDE DEF u
<1>4. k \in [1..(Len(u) + 1) -> Mark]
  <2> SUFFICES ASSUME NEW i \in 1..(Len(u) + 1) PROVE (IF i <= Len(s) THEN m[i] ELSE n[i - Len(s)]) \in Mark
    OBVIOUS
  <2>1. CASE i <= Len(s)
    <3>1. i \in 1..(Len(s) + 1) BY <1>3, <2>1
    <3> QED BY <2>1, <3>1
  <2>2. CASE ~(i <= Len(s))
    <3>1. i - Len(s) \in 1..(Len(t) + 1) BY <1>3, <2>2
    <3> QED BY <2>2, <3>1
  <2> QED BY <2>1, <2>2
<1>5. k[1] = a
  <2>1. 1 \in 1..(Len(u) + 1) BY <1>3
  <2>2. CASE Len(s) = 0 BY <2>1, <2>2, <1>1, <1>2
  <2>3. CASE Len(s) > 0 BY <2>1, <2>3, <1>1, <1>3
  <2> QED BY <1>3, <2>2, <2>3
<1>6. k[Len(u) + 1] = c
  <2>1. Len(u) + 1 \in 1..(Len(u) + 1) /\ ~(Len(u) + 1 <= Len(s)) /\ Len(u) + 1 - Len(s) = Len(t) + 1
    BY <1>3
  <2> QED BY <2>1, <1>2
<1>7. ASSUME NEW i \in 1..Len(u) PROVE Needs(k[i], u[i]) /\ k[i + 1] = Then(k[i], u[i])
  <2>1. i \in 1..(Len(u) + 1) /\ i + 1 \in 1..(Len(u) + 1) BY <1>3
  <2>2. CASE i < Len(s)
    <3>1. i \in 1..Len(s) /\ i <= Len(s) /\ i + 1 <= Len(s) /\ u[i] = s[i] BY <2>2, <1>3
    <3>2. k[i] = m[i] /\ k[i + 1] = m[i + 1] BY <2>1, <3>1
    <3> HIDE DEF k
    <3> QED BY <3>1, <3>2, <1>1
  <2>3. CASE i = Len(s)
    <3>1. i \in 1..Len(s) /\ i <= Len(s) /\ ~(i + 1 <= Len(s)) /\ u[i] = s[i] /\ i + 1 - Len(s) = 1 BY <2>3, <1>3
    <3>2. k[i] = m[i] /\ k[i + 1] = n[1] BY <2>1, <3>1
    <3> HIDE DEF k
    <3> QED BY <3>1, <3>2, <1>1, <1>2, <2>3
  <2>4. CASE i > Len(s)
    <3> DEFINE j == i - Len(s)
    <3>1. j \in 1..Len(t) /\ ~(i <= Len(s)) /\ ~(i + 1 <= Len(s)) /\ i + 1 - Len(s) = j + 1 /\ j + Len(s) = i
      BY <2>4, <1>3
    <3>2. u[i] = t[j] BY <3>1, <1>3
    <3>3. k[i] = n[j] /\ k[i + 1] = n[j + 1] BY <2>1, <3>1
    <3> HIDE DEF k, j
    <3> QED BY <3>1, <3>2, <3>3, <1>2
  <2> QED BY <1>3, <2>2, <2>3, <2>4
<1> HIDE DEF k
<1>8. Outline(u, a, c)
  BY <1>4, <1>5, <1>6, <1>7 DEF Outline
<1> QED BY <1>3, <1>8 DEF u

\* The first statement can do what it does, and the rest is outlined from there.
LEMMA Split ==
    ASSUME NEW s \in Programs, s # <<>>, NEW a \in Mark, NEW b \in Mark, Outline(s, a, b)
    PROVE  Goes(Head(s), a, Then(a, Head(s))) /\ Outline(Tail(s), Then(a, Head(s)), b)
<1>1. PICK m \in [1..(Len(s) + 1) -> Mark] :
        /\ m[1] = a /\ m[Len(s) + 1] = b
        /\ \A i \in 1..Len(s) : Needs(m[i], s[i]) /\ m[i + 1] = Then(m[i], s[i])
  BY DEF Outline
<1> DEFINE t == Tail(s)
           n == [i \in 1..(Len(t) + 1) |-> m[i + 1]]
<1>2. /\ t \in Seq(Statements) /\ Len(s) \in Nat /\ Len(s) > 0 /\ Len(t) = Len(s) - 1 /\ Head(s) = s[1]
      /\ \A i \in 1..Len(t) : t[i] = s[i + 1] /\ i + 1 \in 1..Len(s)
  BY Tails
<1> HIDE DEF t
<1>3. Needs(a, Head(s)) /\ m[2] = Then(a, Head(s))
  <2>1. 1 \in 1..Len(s) /\ 1 + 1 = 2 BY <1>2
  <2> QED BY <2>1, <1>1, <1>2
<1>4. \A i \in 1..(Len(t) + 1) : i + 1 \in 1..(Len(s) + 1)
  BY <1>2
<1>5. n \in [1..(Len(t) + 1) -> Mark]
  BY <1>4
<1>6. n[1] = Then(a, Head(s)) /\ n[Len(t) + 1] = b
  <2>1. 1 \in 1..(Len(t) + 1) /\ 1 + 1 = 2 /\ Len(t) + 1 \in 1..(Len(t) + 1) /\ Len(t) + 1 + 1 = Len(s) + 1
    BY <1>2
  <2> QED BY <2>1, <1>1, <1>3
<1>7. ASSUME NEW i \in 1..Len(t) PROVE Needs(n[i], t[i]) /\ n[i + 1] = Then(n[i], t[i])
  <2>1. i \in 1..(Len(t) + 1) /\ i + 1 \in 1..(Len(t) + 1) /\ i + 1 \in 1..Len(s) /\ t[i] = s[i + 1]
    BY <1>2
  <2>2. n[i] = m[i + 1] /\ n[i + 1] = m[(i + 1) + 1]
    BY <2>1
  <2> HIDE DEF n
  <2> QED BY <2>1, <2>2, <1>1
<1> HIDE DEF n
<1>8. Outline(t, Then(a, Head(s)), b)
  BY <1>5, <1>6, <1>7 DEF Outline
<1> QED BY <1>3, <1>8, ThenIsMark DEF t, Goes

\* Two and three statements in a row.
LEMMA Two ==
    ASSUME NEW s \in Statements, NEW t \in Statements, NEW a, NEW b, NEW c, Goes(s, a, b), Goes(t, b, c)
    PROVE  <<s, t>> \in Seq(Statements) /\ Outline(<<s, t>>, a, c)
<1> DEFINE q == <<s, t>>
           m == [i \in 1..3 |-> IF i = 1 THEN a ELSE IF i = 2 THEN b ELSE c]
<1>1. m \in [1..3 -> Mark] /\ m[1] = a /\ m[2] = b /\ m[3] = c
  BY DEF Goes
<1>2. /\ Len(q) = 2 /\ q[1] = s /\ q[2] = t /\ 1..Len(q) = {1, 2}
      /\ Len(q) + 1 = 3 /\ 1 + 1 = 2 /\ 2 + 1 = 3 /\ q \in Seq(Statements)
  OBVIOUS
<1> HIDE DEF m, q
<1>3. \A i \in 1..Len(q) : Needs(m[i], q[i]) /\ m[i + 1] = Then(m[i], q[i])
  BY <1>1, <1>2 DEF Goes
<1>4. m \in [1..(Len(q) + 1) -> Mark] /\ m[1] = a /\ m[Len(q) + 1] = c
  BY <1>1, <1>2
<1>5. Outline(q, a, c)
  BY <1>3, <1>4 DEF Outline
<1> QED BY <1>2, <1>5 DEF q

LEMMA Three ==
    ASSUME NEW s \in Statements, NEW t \in Statements, NEW u \in Statements,
           NEW a, NEW b, NEW c, NEW d, Goes(s, a, b), Goes(t, b, c), Goes(u, c, d)
    PROVE  <<s, t, u>> \in Seq(Statements) /\ Outline(<<s, t, u>>, a, d)
<1> DEFINE q == <<s, t, u>>
           m == [i \in 1..4 |-> IF i = 1 THEN a ELSE IF i = 2 THEN b ELSE IF i = 3 THEN c ELSE d]
<1>1. m \in [1..4 -> Mark] /\ m[1] = a /\ m[2] = b /\ m[3] = c /\ m[4] = d
  BY DEF Goes
<1>2. /\ Len(q) = 3 /\ q[1] = s /\ q[2] = t /\ q[3] = u /\ 1..Len(q) = {1, 2, 3}
      /\ Len(q) + 1 = 4 /\ 1 + 1 = 2 /\ 2 + 1 = 3 /\ 3 + 1 = 4 /\ q \in Seq(Statements)
  OBVIOUS
<1> HIDE DEF m, q
<1>3. \A i \in 1..Len(q) : Needs(m[i], q[i]) /\ m[i + 1] = Then(m[i], q[i])
  BY <1>1, <1>2 DEF Goes
<1>4. m \in [1..(Len(q) + 1) -> Mark] /\ m[1] = a /\ m[Len(q) + 1] = d
  BY <1>1, <1>2
<1>5. Outline(q, a, d)
  BY <1>3, <1>4 DEF Outline
<1> QED BY <1>2, <1>5 DEF q

Cd      == {"any", "in", "out"}
Sight   == {"any", "again", "lost", "sure", "seen"}
Drivers == {"any", "in", "out"}

LEMMA Values ==
    /\ "any" \in Cd /\ "in" \in Cd /\ "out" \in Cd
    /\ "any" \in Sight /\ "again" \in Sight /\ "lost" \in Sight /\ "sure" \in Sight /\ "seen" \in Sight
    /\ "any" \in Drivers /\ "in" \in Drivers /\ "out" \in Drivers
    /\ TRUE \in BOOLEAN
BY DEF Cd, Sight, Drivers

LEMMA Marks ==
    \A g \in {"new", "halted", "started", "up", "going"}, c \in Cd, i \in Sight, p \in BOOLEAN, d \in Drivers :
        M(g, c, i, p, d) \in Mark
BY DEF M, Mark, Cd, Sight, Drivers

\* What the statements that start the guest do to a mark.
LEMMA BootStatements ==
    \A c \in Cd, i \in Sight, p \in BOOLEAN, d \in Drivers :
        /\ Goes("vendor device", M("new", c, i, p, d), M("halted", c, i, p, d))
        /\ Goes("vm-start", M("new", c, i, p, d), M("started", c, i, p, d))
        /\ Goes("vm-start", M("halted", c, i, p, d), M("started", c, i, p, d))
        /\ (i \in {"again", "sure"} => Goes("start if off", M("halted", c, i, p, d), M("started", c, i, p, d)))
        /\ (i \in {"again", "sure"} => Goes("start if off", M("up", c, i, p, d), M("started", c, i, p, d)))
        /\ Goes("running?", M("started", c, i, p, d), M("started", c, i, p, d))
        /\ Goes("running?", M("up", c, i, p, d), M("up", c, i, p, d))
        /\ Goes("ssh?", M("started", c, i, p, d), M("up", c, i, p, d))
        /\ Goes("ssh?", M("up", c, i, p, d), M("up", c, i, p, d))
<1> SUFFICES ASSUME NEW c \in Cd, NEW i \in Sight, NEW p \in BOOLEAN, NEW d \in Drivers
    PROVE
        /\ Goes("vendor device", M("new", c, i, p, d), M("halted", c, i, p, d))
        /\ Goes("vm-start", M("new", c, i, p, d), M("started", c, i, p, d))
        /\ Goes("vm-start", M("halted", c, i, p, d), M("started", c, i, p, d))
        /\ (i \in {"again", "sure"} => Goes("start if off", M("halted", c, i, p, d), M("started", c, i, p, d)))
        /\ (i \in {"again", "sure"} => Goes("start if off", M("up", c, i, p, d), M("started", c, i, p, d)))
        /\ Goes("running?", M("started", c, i, p, d), M("started", c, i, p, d))
        /\ Goes("running?", M("up", c, i, p, d), M("up", c, i, p, d))
        /\ Goes("ssh?", M("started", c, i, p, d), M("up", c, i, p, d))
        /\ Goes("ssh?", M("up", c, i, p, d), M("up", c, i, p, d))
  OBVIOUS
<1>1. Goes("vendor device", M("new", c, i, p, d), M("halted", c, i, p, d))
  BY Marks, Values DEF Goes, M, Needs, Then, Statements, GivesShutdown, Installing, Removing
<1>2. Goes("vm-start", M("new", c, i, p, d), M("started", c, i, p, d))
  BY Marks, Values DEF Goes, M, Needs, Then, Statements, GivesShutdown, Installing, Removing
<1>3. Goes("vm-start", M("halted", c, i, p, d), M("started", c, i, p, d))
  BY Marks, Values DEF Goes, M, Needs, Then, Statements, GivesShutdown, Installing, Removing
<1>4. (i \in {"again", "sure"} => Goes("start if off", M("halted", c, i, p, d), M("started", c, i, p, d)))
  BY Marks, Values DEF Goes, M, Needs, Then, Statements, GivesShutdown, Installing, Removing
<1>5. (i \in {"again", "sure"} => Goes("start if off", M("up", c, i, p, d), M("started", c, i, p, d)))
  BY Marks, Values DEF Goes, M, Needs, Then, Statements, GivesShutdown, Installing, Removing
<1>6. Goes("running?", M("started", c, i, p, d), M("started", c, i, p, d))
  BY Marks, Values DEF Goes, M, Needs, Then, Statements, GivesShutdown, Installing, Removing
<1>7. Goes("running?", M("up", c, i, p, d), M("up", c, i, p, d))
  BY Marks, Values DEF Goes, M, Needs, Then, Statements, GivesShutdown, Installing, Removing
<1>8. Goes("ssh?", M("started", c, i, p, d), M("up", c, i, p, d))
  BY Marks, Values DEF Goes, M, Needs, Then, Statements, GivesShutdown, Installing, Removing
<1>9. Goes("ssh?", M("up", c, i, p, d), M("up", c, i, p, d))
  BY Marks, Values DEF Goes, M, Needs, Then, Statements, GivesShutdown, Installing, Removing
<1> QED BY <1>1, <1>2, <1>3, <1>4, <1>5, <1>6, <1>7, <1>8, <1>9

\* What those do that make it shut down, and the wait for it.
LEMMA StopStatements ==
    \A c \in Cd, i \in Sight, p \in BOOLEAN, d \in Drivers :
        /\ Goes("shutdown.exe", M("up", c, "again", p, d), M("going", c, "again", p, "any"))
        /\ Goes("shutdown.exe", M("up", c, "lost", p, d), M("going", c, "lost", p, "any"))
        /\ TestSign => Goes("bcdedit", M("up", c, "seen", p, d), M("going", c, "any", p, "any"))
        /\ Goes("msiexec /i &", M("up", c, "seen", TRUE, d), M("going", c, "any", TRUE, "in"))
        /\ Goes("install-drivers.ps1 &", M("up", "in", "seen", p, d), M("going", "in", "any", p, "in"))
        /\ Goes("msiexec /x &", M("up", c, "again", p, d), M("going", c, "again", p, "out"))
        /\ Goes("XenClean &", M("up", "in", "seen", p, d), M("going", "in", "any", p, "out"))
        /\ Goes("halted?", M("going", c, "again", p, d), M("halted", c, "again", p, d))
        /\ Goes("halted?", M("going", c, "any", p, d), M("halted", c, "any", p, d))
        /\ Goes("halted?", M("going", c, "lost", p, d), M("halted", c, "sure", p, d))
<1> SUFFICES ASSUME NEW c \in Cd, NEW i \in Sight, NEW p \in BOOLEAN, NEW d \in Drivers
    PROVE
        /\ Goes("shutdown.exe", M("up", c, "again", p, d), M("going", c, "again", p, "any"))
        /\ Goes("shutdown.exe", M("up", c, "lost", p, d), M("going", c, "lost", p, "any"))
        /\ TestSign => Goes("bcdedit", M("up", c, "seen", p, d), M("going", c, "any", p, "any"))
        /\ Goes("msiexec /i &", M("up", c, "seen", TRUE, d), M("going", c, "any", TRUE, "in"))
        /\ Goes("install-drivers.ps1 &", M("up", "in", "seen", p, d), M("going", "in", "any", p, "in"))
        /\ Goes("msiexec /x &", M("up", c, "again", p, d), M("going", c, "again", p, "out"))
        /\ Goes("XenClean &", M("up", "in", "seen", p, d), M("going", "in", "any", p, "out"))
        /\ Goes("halted?", M("going", c, "again", p, d), M("halted", c, "again", p, d))
        /\ Goes("halted?", M("going", c, "any", p, d), M("halted", c, "any", p, d))
        /\ Goes("halted?", M("going", c, "lost", p, d), M("halted", c, "sure", p, d))
  OBVIOUS
<1>1. Goes("shutdown.exe", M("up", c, "again", p, d), M("going", c, "again", p, "any"))
  BY Marks, Values DEF Goes, M, Needs, Then, Statements, GivesShutdown, Installing, Removing
<1>2. Goes("shutdown.exe", M("up", c, "lost", p, d), M("going", c, "lost", p, "any"))
  BY Marks, Values DEF Goes, M, Needs, Then, Statements, GivesShutdown, Installing, Removing
<1>3. TestSign => Goes("bcdedit", M("up", c, "seen", p, d), M("going", c, "any", p, "any"))
  BY Marks, Values DEF Goes, M, Needs, Then, Statements, GivesShutdown, Installing, Removing
<1>4. Goes("msiexec /i &", M("up", c, "seen", TRUE, d), M("going", c, "any", TRUE, "in"))
  BY Marks, Values DEF Goes, M, Needs, Then, Statements, GivesShutdown, Installing, Removing
<1>5. Goes("install-drivers.ps1 &", M("up", "in", "seen", p, d), M("going", "in", "any", p, "in"))
  BY Marks, Values DEF Goes, M, Needs, Then, Statements, GivesShutdown, Installing, Removing
<1>6. Goes("msiexec /x &", M("up", c, "again", p, d), M("going", c, "again", p, "out"))
  BY Marks, Values DEF Goes, M, Needs, Then, Statements, GivesShutdown, Installing, Removing
<1>7. Goes("XenClean &", M("up", "in", "seen", p, d), M("going", "in", "any", p, "out"))
  BY Marks, Values DEF Goes, M, Needs, Then, Statements, GivesShutdown, Installing, Removing
<1>8. Goes("halted?", M("going", c, "again", p, d), M("halted", c, "again", p, d))
  BY Marks, Values DEF Goes, M, Needs, Then, Statements, GivesShutdown, Installing, Removing
<1>9. Goes("halted?", M("going", c, "any", p, d), M("halted", c, "any", p, d))
  BY Marks, Values DEF Goes, M, Needs, Then, Statements, GivesShutdown, Installing, Removing
<1>10. Goes("halted?", M("going", c, "lost", p, d), M("halted", c, "sure", p, d))
  BY Marks, Values DEF Goes, M, Needs, Then, Statements, GivesShutdown, Installing, Removing
<1> QED BY <1>1, <1>2, <1>3, <1>4, <1>5, <1>6, <1>7, <1>8, <1>9, <1>10

\* What those do that need the CD drive.
LEMMA CdStatements ==
    \A c \in Cd, i \in Sight, p \in BOOLEAN, d \in Drivers :
        /\ Goes("eject", M("halted", c, i, p, d), M("halted", "out", i, p, d))
        /\ Goes("eject", M("up", c, i, p, d), M("up", "out", i, p, d))
        /\ Goes("insert", M("halted", "out", i, p, d), M("halted", "in", i, p, d))
        /\ Goes("insert", M("up", "out", i, p, d), M("up", "in", i, p, d))
        /\ Goes("eject cd", M("halted", "in", i, p, d), M("halted", "out", i, p, d))
        /\ Goes("eject cd", M("up", "in", i, p, d), M("up", "out", i, p, d))
        /\ Goes("drive?", M("up", "in", "again", p, "any"), M("up", "in", "seen", p, "any"))
        /\ Goes("drive?", M("up", "in", "sure", p, "any"), M("up", "in", "seen", p, "any"))
        /\ TestSign => Goes("enable_testsign", M("up", "in", "seen", p, "any"), M("up", "in", "any", p, "any"))
        /\ Goes("drive still there?", M("up", "in", "any", p, "any"), M("up", "in", "seen", p, "any"))
        /\ TestSign => Goes("certutil", M("up", "in", "seen", p, d), M("up", "in", "seen", p, d))
        /\ Goes("copy", M("up", "in", "seen", p, d), M("up", "in", "seen", TRUE, d))
<1> SUFFICES ASSUME NEW c \in Cd, NEW i \in Sight, NEW p \in BOOLEAN, NEW d \in Drivers
    PROVE
        /\ Goes("eject", M("halted", c, i, p, d), M("halted", "out", i, p, d))
        /\ Goes("eject", M("up", c, i, p, d), M("up", "out", i, p, d))
        /\ Goes("insert", M("halted", "out", i, p, d), M("halted", "in", i, p, d))
        /\ Goes("insert", M("up", "out", i, p, d), M("up", "in", i, p, d))
        /\ Goes("eject cd", M("halted", "in", i, p, d), M("halted", "out", i, p, d))
        /\ Goes("eject cd", M("up", "in", i, p, d), M("up", "out", i, p, d))
        /\ Goes("drive?", M("up", "in", "again", p, "any"), M("up", "in", "seen", p, "any"))
        /\ Goes("drive?", M("up", "in", "sure", p, "any"), M("up", "in", "seen", p, "any"))
        /\ TestSign => Goes("enable_testsign", M("up", "in", "seen", p, "any"), M("up", "in", "any", p, "any"))
        /\ Goes("drive still there?", M("up", "in", "any", p, "any"), M("up", "in", "seen", p, "any"))
        /\ TestSign => Goes("certutil", M("up", "in", "seen", p, d), M("up", "in", "seen", p, d))
        /\ Goes("copy", M("up", "in", "seen", p, d), M("up", "in", "seen", TRUE, d))
  OBVIOUS
<1>1. Goes("eject", M("halted", c, i, p, d), M("halted", "out", i, p, d))
  BY Marks, Values DEF Goes, M, Needs, Then, Statements, GivesShutdown, Installing, Removing
<1>2. Goes("eject", M("up", c, i, p, d), M("up", "out", i, p, d))
  BY Marks, Values DEF Goes, M, Needs, Then, Statements, GivesShutdown, Installing, Removing
<1>3. Goes("insert", M("halted", "out", i, p, d), M("halted", "in", i, p, d))
  BY Marks, Values DEF Goes, M, Needs, Then, Statements, GivesShutdown, Installing, Removing
<1>4. Goes("insert", M("up", "out", i, p, d), M("up", "in", i, p, d))
  BY Marks, Values DEF Goes, M, Needs, Then, Statements, GivesShutdown, Installing, Removing
<1>5. Goes("eject cd", M("halted", "in", i, p, d), M("halted", "out", i, p, d))
  BY Marks, Values DEF Goes, M, Needs, Then, Statements, GivesShutdown, Installing, Removing
<1>6. Goes("eject cd", M("up", "in", i, p, d), M("up", "out", i, p, d))
  BY Marks, Values DEF Goes, M, Needs, Then, Statements, GivesShutdown, Installing, Removing
<1>7. Goes("drive?", M("up", "in", "again", p, "any"), M("up", "in", "seen", p, "any"))
  BY Marks, Values DEF Goes, M, Needs, Then, Statements, GivesShutdown, Installing, Removing
<1>8. Goes("drive?", M("up", "in", "sure", p, "any"), M("up", "in", "seen", p, "any"))
  BY Marks, Values DEF Goes, M, Needs, Then, Statements, GivesShutdown, Installing, Removing
<1>9. TestSign => Goes("enable_testsign", M("up", "in", "seen", p, "any"), M("up", "in", "any", p, "any"))
  BY Marks, Values DEF Goes, M, Needs, Then, Statements, GivesShutdown, Installing, Removing
<1>10. Goes("drive still there?", M("up", "in", "any", p, "any"), M("up", "in", "seen", p, "any"))
  BY Marks, Values DEF Goes, M, Needs, Then, Statements, GivesShutdown, Installing, Removing
<1>11. TestSign => Goes("certutil", M("up", "in", "seen", p, d), M("up", "in", "seen", p, d))
  BY Marks, Values DEF Goes, M, Needs, Then, Statements, GivesShutdown, Installing, Removing
<1>12. Goes("copy", M("up", "in", "seen", p, d), M("up", "in", "seen", TRUE, d))
  BY Marks, Values DEF Goes, M, Needs, Then, Statements, GivesShutdown, Installing, Removing
<1> QED BY <1>1, <1>2, <1>3, <1>4, <1>5, <1>6, <1>7, <1>8, <1>9, <1>10, <1>11, <1>12

\* What those do that look at the drivers, and the rest.
LEMMA LastStatements ==
    \A c \in Cd, i \in Sight, p \in BOOLEAN, d \in Drivers :
        /\ Goes("msiexec /i", M("up", c, i, TRUE, "any"), M("up", c, i, TRUE, "any"))
        /\ Goes("offboarded?", M("up", c, i, p, d), M("up", c, i, p, d))
        /\ Goes("working?", M("up", c, i, p, "in"), M("up", c, i, p, "in"))
        /\ Goes("uninstalled?", M("up", c, i, p, "out"), M("up", c, i, p, "out"))
        /\ Goes("yield", M("up", c, i, p, d), M("up", c, i, p, d))
<1> SUFFICES ASSUME NEW c \in Cd, NEW i \in Sight, NEW p \in BOOLEAN, NEW d \in Drivers
    PROVE
        /\ Goes("msiexec /i", M("up", c, i, TRUE, "any"), M("up", c, i, TRUE, "any"))
        /\ Goes("offboarded?", M("up", c, i, p, d), M("up", c, i, p, d))
        /\ Goes("working?", M("up", c, i, p, "in"), M("up", c, i, p, "in"))
        /\ Goes("uninstalled?", M("up", c, i, p, "out"), M("up", c, i, p, "out"))
        /\ Goes("yield", M("up", c, i, p, d), M("up", c, i, p, d))
  OBVIOUS
<1>1. Goes("msiexec /i", M("up", c, i, TRUE, "any"), M("up", c, i, TRUE, "any"))
  BY Marks, Values DEF Goes, M, Needs, Then, Statements, GivesShutdown, Installing, Removing
<1>2. Goes("offboarded?", M("up", c, i, p, d), M("up", c, i, p, d))
  BY Marks, Values DEF Goes, M, Needs, Then, Statements, GivesShutdown, Installing, Removing
<1>3. Goes("working?", M("up", c, i, p, "in"), M("up", c, i, p, "in"))
  BY Marks, Values DEF Goes, M, Needs, Then, Statements, GivesShutdown, Installing, Removing
<1>4. Goes("uninstalled?", M("up", c, i, p, "out"), M("up", c, i, p, "out"))
  BY Marks, Values DEF Goes, M, Needs, Then, Statements, GivesShutdown, Installing, Removing
<1>5. Goes("yield", M("up", c, i, p, d), M("up", c, i, p, d))
  BY Marks, Values DEF Goes, M, Needs, Then, Statements, GivesShutdown, Installing, Removing
<1> QED BY <1>1, <1>2, <1>3, <1>4, <1>5

\* The program runs from one mark to the other.
Runs(s, a, b) == s \in Seq(Statements) /\ Outline(s, a, b)

LEMMA Chain ==
    ASSUME NEW s, NEW t, NEW a, NEW b, NEW c, Runs(s, a, b), Runs(t, b, c)
    PROVE  Runs(s \o t, a, c)
BY Joined DEF Runs

LEMMA RunsOne == ASSUME NEW s, NEW a, NEW b, Goes(s, a, b) PROVE Runs(<<s>>, a, b)
<1>1. s \in Statements
  BY DEF Goes, Needs
<1> QED BY <1>1, Single DEF Runs

LEMMA RunsTwo ==
    ASSUME NEW s, NEW t, NEW a, NEW b, NEW c, Goes(s, a, b), Goes(t, b, c)
    PROVE  Runs(<<s, t>>, a, c)
<1>1. s \in Statements /\ t \in Statements
  BY DEF Goes, Needs
<1> QED BY <1>1, Two DEF Runs

LEMMA RunsThree ==
    ASSUME NEW s, NEW t, NEW u, NEW a, NEW b, NEW c, NEW d, Goes(s, a, b), Goes(t, b, c), Goes(u, c, d)
    PROVE  Runs(<<s, t, u>>, a, d)
<1>1. s \in Statements /\ t \in Statements /\ u \in Statements
  BY DEF Goes, Needs
<1> QED BY <1>1, Three DEF Runs

LEMMA WaitRuns ==
    \A c \in Cd, i \in Sight, p \in BOOLEAN, d \in Drivers :
        /\ Runs(wait_for_vm_running_and_ssh_up_without_tools, M("started", c, i, p, d), M("up", c, i, p, d))
        /\ Runs(wait_for_vm_running_and_ssh_up_without_tools, M("up", c, i, p, d), M("up", c, i, p, d))
BY BootStatements, RunsTwo DEF wait_for_vm_running_and_ssh_up_without_tools

LEMMA StartRuns ==
    \A c \in Cd, i \in Sight, p \in BOOLEAN, d \in Drivers :
        /\ Runs(StartAndWait, M("new", c, i, p, d), M("up", c, i, p, d))
        /\ Runs(StartAndWait, M("halted", c, i, p, d), M("up", c, i, p, d))
<1> SUFFICES ASSUME NEW c \in Cd, NEW i \in Sight, NEW p \in BOOLEAN, NEW d \in Drivers
             PROVE  /\ Runs(StartAndWait, M("new", c, i, p, d), M("up", c, i, p, d))
                    /\ Runs(StartAndWait, M("halted", c, i, p, d), M("up", c, i, p, d))
  OBVIOUS
<1>1. /\ Runs(<<"vm-start">>, M("new", c, i, p, d), M("started", c, i, p, d))
      /\ Runs(<<"vm-start">>, M("halted", c, i, p, d), M("started", c, i, p, d))
  BY BootStatements, RunsOne
<1> QED BY <1>1, WaitRuns, Chain DEF StartAndWait

LEMMA ShutRuns ==
    \A c \in Cd, p \in BOOLEAN, d \in Drivers :
        /\ Runs(vm_shutdown_without_tools, M("up", c, "again", p, d), M("halted", c, "again", p, "any"))
        /\ Runs(vm_shutdown_without_tools, M("up", c, "lost", p, d), M("halted", c, "sure", p, "any"))
<1> SUFFICES ASSUME NEW c \in Cd, NEW p \in BOOLEAN, NEW d \in Drivers
             PROVE  /\ Runs(vm_shutdown_without_tools, M("up", c, "again", p, d), M("halted", c, "again", p, "any"))
                    /\ Runs(vm_shutdown_without_tools, M("up", c, "lost", p, d), M("halted", c, "sure", p, "any"))
  OBVIOUS
<1>1. /\ Goes("shutdown.exe", M("up", c, "again", p, d), M("going", c, "again", p, "any"))
      /\ Goes("shutdown.exe", M("up", c, "lost", p, d), M("going", c, "lost", p, "any"))
      /\ Goes("halted?", M("going", c, "again", p, "any"), M("halted", c, "again", p, "any"))
      /\ Goes("halted?", M("going", c, "lost", p, "any"), M("halted", c, "sure", p, "any"))
  BY StopStatements, Values
<1> QED BY <1>1, RunsTwo DEF vm_shutdown_without_tools

LEMMA InsertRuns ==
    \A g \in {"halted", "up"}, c \in Cd, i \in {"again", "sure"}, p \in BOOLEAN :
        Runs(insert_cd_safe, M(g, c, i, p, "any"), M("up", "in", "seen", p, "any"))
<1> SUFFICES ASSUME NEW g \in {"halted", "up"}, NEW c \in Cd, NEW i \in {"again", "sure"}, NEW p \in BOOLEAN
             PROVE  Runs(insert_cd_safe, M(g, c, i, p, "any"), M("up", "in", "seen", p, "any"))
  OBVIOUS
<1>1. i \in Sight
  BY Values
<1>2. /\ Goes("eject", M(g, c, i, p, "any"), M(g, "out", i, p, "any"))
      /\ Goes("insert", M(g, "out", i, p, "any"), M(g, "in", i, p, "any"))
  BY <1>1, CdStatements, Values
<1>3. Goes("start if off", M(g, "in", i, p, "any"), M("started", "in", i, p, "any"))
  BY <1>1, BootStatements, Values
<1>4. Goes("drive?", M("up", "in", i, p, "any"), M("up", "in", "seen", p, "any"))
  BY CdStatements, Values
<1>5. Runs(<<"eject", "insert", "start if off">>, M(g, c, i, p, "any"), M("started", "in", i, p, "any"))
  BY <1>2, <1>3, RunsThree
<1>6. Runs(<<"eject", "insert", "start if off">> \o wait_for_vm_running_and_ssh_up_without_tools,
           M(g, c, i, p, "any"), M("up", "in", i, p, "any"))
  BY <1>1, <1>5, WaitRuns, Values, Chain
<1>7. Runs(<<"drive?">>, M("up", "in", i, p, "any"), M("up", "in", "seen", p, "any"))
  BY <1>4, RunsOne
<1> QED BY <1>6, <1>7, Chain DEF insert_cd_safe

LEMMA EnableRuns ==
    ASSUME TestSign, ~vm.secureboot, NEW p \in BOOLEAN
    PROVE  Runs(enable_testsign, M("up", "in", "seen", p, "any"), M("up", "in", "any", p, "any"))
<1>1. /\ Goes("certutil", M("up", "in", "seen", p, "any"), M("up", "in", "seen", p, "any"))
      /\ Goes("bcdedit", M("up", "in", "seen", p, "any"), M("going", "in", "any", p, "any"))
      /\ Goes("halted?", M("going", "in", "any", p, "any"), M("halted", "in", "any", p, "any"))
  BY CdStatements, StopStatements, Values
<1>2. Runs(<<"certutil", "bcdedit", "halted?">>, M("up", "in", "seen", p, "any"), M("halted", "in", "any", p, "any"))
  BY <1>1, RunsThree
<1>3. Runs(<<"certutil", "bcdedit", "halted?">> \o StartAndWait,
           M("up", "in", "seen", p, "any"), M("up", "in", "any", p, "any"))
  BY <1>2, StartRuns, Values, Chain
<1>4. <<>> \o <<"certutil", "bcdedit", "halted?">> = <<"certutil", "bcdedit", "halted?">>
  OBVIOUS
<1> QED BY <1>3, <1>4 DEF enable_testsign

LEMMA SignRuns ==
    \A c \in Cd, p \in BOOLEAN :
        Runs(InsertAndSign, M("up", c, "again", p, "any"), M("up", "in", "seen", p, "any"))
<1> SUFFICES ASSUME NEW c \in Cd, NEW p \in BOOLEAN
             PROVE  Runs(InsertAndSign, M("up", c, "again", p, "any"), M("up", "in", "seen", p, "any"))
  OBVIOUS
<1> DEFINE x == IF TestSign THEN <<"enable_testsign", "drive still there?">> ELSE <<>>
<1>3. Runs(x, M("up", "in", "seen", p, "any"), M("up", "in", "seen", p, "any"))
  <2>1. CASE TestSign
    <3>1. Runs(<<"enable_testsign", "drive still there?">>, M("up", "in", "seen", p, "any"), M("up", "in", "seen", p, "any"))
      <4>1. /\ Goes("enable_testsign", M("up", "in", "seen", p, "any"), M("up", "in", "any", p, "any"))
            /\ Goes("drive still there?", M("up", "in", "any", p, "any"), M("up", "in", "seen", p, "any"))
        BY <2>1, CdStatements, Values
      <4> QED BY <4>1, RunsTwo
    <3> QED BY <2>1, <3>1
  <2>2. CASE ~TestSign
    <3>1. <<>> \in Seq(Statements) /\ M("up", "in", "seen", p, "any") \in Mark
      BY Marks, Values
    <3> QED BY <2>2, <3>1, EmptyOutline DEF Runs
  <2> QED BY <2>1, <2>2
<1> HIDE DEF x
<1>4. Runs(insert_cd_safe, M("up", c, "again", p, "any"), M("up", "in", "seen", p, "any"))
  BY InsertRuns
<1>5. Runs(insert_cd_safe \o x, M("up", c, "again", p, "any"), M("up", "in", "seen", p, "any"))
  BY <1>3, <1>4, Chain
<1> QED BY <1>5 DEF InsertAndSign, x

LEMMA InstallRuns ==
    ASSUME NEW c \in Cd, NEW p \in BOOLEAN
    PROVE  /\ Runs(install_guest_tools("nothing"), M("up", c, "again", p, "any"), M("up", "out", "seen", TRUE, "any"))
           /\ Runs(install_guest_tools("shutdown"), M("up", c, "again", p, "any"), M("halted", "out", "any", TRUE, "in"))
           /\ Runs(install_guest_tools("reboot"), M("up", c, "again", p, "any"), M("up", "out", "any", TRUE, "in"))
<1> DEFINE a == M("up", c, "again", p, "any")
           b == M("up", "out", "seen", TRUE, "any")
           e == M("halted", "out", "any", TRUE, "in")
           f == M("up", "out", "any", TRUE, "in")
           n == <<"msiexec /i">>
           h == <<"msiexec /i &", "halted?">>
           y == InsertAndSign \o <<"copy", "eject cd">>
<1>1. Runs(InsertAndSign, a, M("up", "in", "seen", p, "any"))
  BY SignRuns
<1>2. /\ Goes("copy", M("up", "in", "seen", p, "any"), M("up", "in", "seen", TRUE, "any"))
      /\ Goes("eject cd", M("up", "in", "seen", TRUE, "any"), b)
  BY CdStatements, Values
<1>3. Runs(<<"copy", "eject cd">>, M("up", "in", "seen", p, "any"), b)
  BY <1>2, RunsTwo
<1> HIDE DEF a, b
<1>4. Runs(y, a, b)
  BY <1>1, <1>3, Chain
<1>5. Goes("msiexec /i", b, b)
  BY LastStatements, Values DEF b
<1>6. /\ Goes("msiexec /i &", b, M("going", "out", "any", TRUE, "in"))
      /\ Goes("halted?", M("going", "out", "any", TRUE, "in"), e)
  BY StopStatements, Values DEF b
<1>7. Runs(n, b, b) /\ Runs(h, b, e)
  BY <1>5, <1>6, RunsOne, RunsTwo
<1>8. Runs(StartAndWait, e, f)
  BY StartRuns, Values
<1> HIDE DEF e, f, n, h, y
<1>9. Runs(h \o StartAndWait, b, f)
  BY <1>7, <1>8, Chain
<1>10. Runs(y \o n, a, b) /\ Runs(y \o h, a, e) /\ Runs(y \o (h \o StartAndWait), a, f)
  BY <1>4, <1>7, <1>9, Chain
<1>11. /\ install_guest_tools("nothing") = y \o n
       /\ install_guest_tools("shutdown") = y \o h
       /\ install_guest_tools("reboot") = y \o (h \o StartAndWait)
  BY DEF install_guest_tools, y, n, h
<1> QED BY <1>10, <1>11 DEF a, b, e, f

LEMMA UninstallRuns ==
    \A c \in Cd, p \in BOOLEAN :
        Runs(uninstall_guest_tools, M("up", c, "again", p, "any"), M("up", c, "again", p, "out"))
<1> SUFFICES ASSUME NEW c \in Cd, NEW p \in BOOLEAN
             PROVE  Runs(uninstall_guest_tools, M("up", c, "again", p, "any"), M("up", c, "again", p, "out"))
  OBVIOUS
<1>1. /\ Goes("msiexec /x &", M("up", c, "again", p, "any"), M("going", c, "again", p, "out"))
      /\ Goes("halted?", M("going", c, "again", p, "out"), M("halted", c, "again", p, "out"))
  BY StopStatements, Values
<1>2. Runs(<<"msiexec /x &", "halted?">>, M("up", c, "again", p, "any"), M("halted", c, "again", p, "out"))
  BY <1>1, RunsTwo
<1>3. Runs(<<"msiexec /x &", "halted?">> \o StartAndWait, M("up", c, "again", p, "any"), M("up", c, "again", p, "out"))
  BY <1>2, StartRuns, Values, Chain
<1>4. Runs(<<"offboarded?">>, M("up", c, "again", p, "out"), M("up", c, "again", p, "out"))
  BY LastStatements, Values, RunsOne
<1> QED BY <1>3, <1>4, Chain DEF uninstall_guest_tools

LEMMA XencleanRuns ==
    \A c \in Cd, p \in BOOLEAN :
        Runs(run_xenclean, M("up", c, "again", p, "any"), M("up", "out", "any", p, "out"))
<1> SUFFICES ASSUME NEW c \in Cd, NEW p \in BOOLEAN
             PROVE  Runs(run_xenclean, M("up", c, "again", p, "any"), M("up", "out", "any", p, "out"))
  OBVIOUS
<1> DEFINE a == M("up", c, "again", p, "any")
           x == <<"XenClean &", "halted?", "eject cd">>
           e == M("up", "out", "any", p, "out")
<1>1. /\ Goes("XenClean &", M("up", "in", "seen", p, "any"), M("going", "in", "any", p, "out"))
      /\ Goes("halted?", M("going", "in", "any", p, "out"), M("halted", "in", "any", p, "out"))
      /\ Goes("eject cd", M("halted", "in", "any", p, "out"), M("halted", "out", "any", p, "out"))
  BY StopStatements, CdStatements, Values
<1>2. Runs(x, M("up", "in", "seen", p, "any"), M("halted", "out", "any", p, "out"))
  BY <1>1, RunsThree
<1>3. Runs(insert_cd_safe, a, M("up", "in", "seen", p, "any"))
  BY InsertRuns
<1>4. Runs(StartAndWait, M("halted", "out", "any", p, "out"), e)
  BY StartRuns, Values
<1>5. Runs(<<"offboarded?">>, e, e)
  BY LastStatements, Values, RunsOne
<1> HIDE DEF a, x, e
<1>6. Runs(insert_cd_safe \o x, a, M("halted", "out", "any", p, "out"))
  BY <1>2, <1>3, Chain
<1>7. Runs(insert_cd_safe \o x \o StartAndWait, a, e)
  BY <1>4, <1>6, Chain
<1>8. Runs(insert_cd_safe \o x \o StartAndWait \o <<"offboarded?">>, a, e)
  BY <1>5, <1>7, Chain
<1> QED BY <1>8 DEF run_xenclean, a, x, e

LEMMA OtherRuns ==
    ASSUME NEW c \in Cd, NEW p \in BOOLEAN
    PROVE  /\ Runs(install_other_drivers("msi"), M("new", c, "again", p, "any"), M("up", "out", "any", p, "in"))
           /\ Runs(install_other_drivers("none"), M("new", c, "again", p, "any"), M("up", c, "again", p, "any"))
<1> DEFINE a == M("new", c, "again", p, "any")
           b == M("up", c, "again", p, "any")
           e == M("up", "out", "any", p, "in")
           v == <<"vendor device">> \o StartAndWait
           x == <<"install-drivers.ps1 &", "halted?", "eject cd">>
           w == wait_for_vm_running_and_ssh_up_without_tools
           z == InsertAndSign \o x \o StartAndWait \o w
<1>1. Runs(<<"vendor device">>, a, M("halted", c, "again", p, "any"))
  BY BootStatements, Values, RunsOne
<1>2. Runs(StartAndWait, M("halted", c, "again", p, "any"), b)
  BY StartRuns, Values
<1>3. /\ Goes("install-drivers.ps1 &", M("up", "in", "seen", p, "any"), M("going", "in", "any", p, "in"))
      /\ Goes("halted?", M("going", "in", "any", p, "in"), M("halted", "in", "any", p, "in"))
      /\ Goes("eject cd", M("halted", "in", "any", p, "in"), M("halted", "out", "any", p, "in"))
  BY StopStatements, CdStatements, Values
<1>4. Runs(x, M("up", "in", "seen", p, "any"), M("halted", "out", "any", p, "in"))
  BY <1>3, RunsThree
<1>5. Runs(InsertAndSign, b, M("up", "in", "seen", p, "any"))
  BY SignRuns
<1>6. Runs(StartAndWait, M("halted", "out", "any", p, "in"), e) /\ Runs(w, e, e)
  BY StartRuns, WaitRuns, Values
<1>7. b \in Mark
  BY Marks, Values
<1>8. Runs(<<>>, b, b)
  <2>1. <<>> \in Seq(Statements)
    OBVIOUS
  <2> QED BY <1>7, <2>1, EmptyOutline DEF Runs
<1> HIDE DEF a, b, e, x, w
<1>9. Runs(v, a, b)
  BY <1>1, <1>2, Chain
<1>10. Runs(InsertAndSign \o x, b, M("halted", "out", "any", p, "in"))
  BY <1>4, <1>5, Chain
<1>11. Runs(InsertAndSign \o x \o StartAndWait, b, e)
  BY <1>6, <1>10, Chain
<1>12. Runs(z, b, e)
  BY <1>6, <1>11, Chain
<1>13. install_other_drivers("msi") = v \o z /\ install_other_drivers("none") = v \o <<>>
  BY DEF install_other_drivers, x, w
<1> HIDE DEF v, z
<1>14. Runs(v \o z, a, e) /\ Runs(v \o <<>>, a, b)
  BY <1>8, <1>9, <1>12, Chain
<1> QED BY <1>13, <1>14 DEF a, b, e

\* What a setup and a body start from: nothing is known of the guest but that
\* it is halted, or up.
Unstarted == M("new", "any", "again", FALSE, "any")
Started == M("up", "any", "again", FALSE, "any")

LEMMA SetupsRun == \A s \in Setups : \E e \in Mark : e.stage = "up" /\ Runs(s, Unstarted, e)
<1> DEFINE b == Started
           g(x) == install_guest_tools(x)
           d(x) == install_other_drivers(x)
           e1 == M("up", "out", "seen", TRUE, "any")
           e2 == M("up", "out", "any", TRUE, "in")
           e3 == M("up", "out", "any", FALSE, "in")
           y == <<"yield">>
           o == <<"working?", "yield">>
<1>1. \A e \in {b, e1, e2, e3} : e \in Mark /\ e.stage = "up"
  <2>1. b \in Mark /\ e1 \in Mark /\ e2 \in Mark /\ e3 \in Mark
    BY Marks, Values DEF Started
  <2>2. b.stage = "up" /\ e1.stage = "up" /\ e2.stage = "up" /\ e3.stage = "up"
    BY DEF Started, M
  <2> HIDE DEF b, e1, e2, e3
  <2> QED BY <2>1, <2>2
<1>2. Runs(StartAndWait, Unstarted, b)
  BY StartRuns, Values DEF Unstarted, Started
<1>3. Runs(g("nothing"), b, e1) /\ Runs(g("reboot"), b, e2)
  BY InstallRuns, Values DEF Started
<1>4. Runs(d("msi"), Unstarted, e3) /\ Runs(d("none"), Unstarted, b)
  BY OtherRuns, Values DEF Unstarted, Started
<1>5. Runs(y, b, b) /\ Runs(y, e3, e3)
  BY LastStatements, Values, RunsOne DEF Started
<1>6. Runs(o, e2, e2)
  BY LastStatements, Values, RunsTwo
<1>7. Setups = {StartAndWait \o y, StartAndWait \o y \o g("nothing"), StartAndWait \o g("reboot") \o o,
                d("msi") \o y, d("none") \o y}
  BY DEF Setups
<1> HIDE DEF b, g, d, e1, e2, e3, y, o
<1>8. Runs(StartAndWait \o y, Unstarted, b)
  BY <1>2, <1>5, Chain
<1>9. Runs(StartAndWait \o y \o g("nothing"), Unstarted, e1)
  BY <1>3, <1>8, Chain
<1>10. Runs(StartAndWait \o g("reboot"), Unstarted, e2)
  BY <1>2, <1>3, Chain
<1>11. Runs(StartAndWait \o g("reboot") \o o, Unstarted, e2)
  BY <1>6, <1>10, Chain
<1>12. Runs(d("msi") \o y, Unstarted, e3) /\ Runs(d("none") \o y, Unstarted, b)
  BY <1>4, <1>5, Chain
<1> QED BY <1>1, <1>7, <1>8, <1>9, <1>11, <1>12

LEMMA BodiesRun == \A s \in Bodies : \E e \in Mark : Runs(s, Started, e)
<1> DEFINE b == Started
           g(x) == install_guest_tools(x)
           w == <<"working?">>
           n == <<"uninstalled?">>
           e1 == M("up", "out", "any", TRUE, "in")
           e2 == M("halted", "out", "any", TRUE, "in")
           e3 == M("up", "out", "any", FALSE, "out")
           e4 == M("up", "any", "again", FALSE, "out")
           h == M("halted", "any", "again", FALSE, "any")
<1>1. \A e \in {b, e1, e2, e3, e4, h} : e \in Mark
  <2>1. b \in Mark /\ e1 \in Mark /\ e2 \in Mark /\ e3 \in Mark /\ e4 \in Mark /\ h \in Mark
    BY Marks, Values DEF Started
  <2> QED BY <2>1
<1>2. Runs(g("reboot"), b, e1) /\ Runs(g("shutdown"), b, e2)
  BY InstallRuns, Values DEF Started
<1>3. Runs(w, e1, e1) /\ Runs(n, e3, e3) /\ Runs(n, e4, e4)
  BY LastStatements, Values, RunsOne
<1>4. Runs(StartAndWait, e2, e1) /\ Runs(StartAndWait, h, b)
  BY StartRuns, Values DEF Started
<1>5. Runs(run_xenclean, b, e3)
  BY XencleanRuns, Values DEF Started
<1>6. Runs(uninstall_guest_tools, b, e4)
  BY UninstallRuns, Values DEF Started
<1>7. Runs(vm_shutdown_without_tools, b, h)
  BY ShutRuns, Values DEF Started
<1>8. Bodies \subseteq {<<>>, g("reboot") \o w, g("shutdown") \o StartAndWait, run_xenclean \o n,
                        uninstall_guest_tools \o n,
                        vm_shutdown_without_tools \o StartAndWait \o uninstall_guest_tools \o n}
  BY DEF Bodies
<1>9. Runs(<<>>, b, b)
  <2>1. <<>> \in Seq(Statements)
    OBVIOUS
  <2> QED BY <1>1, <2>1, EmptyOutline DEF Runs
<1> HIDE DEF b, g, w, n, e1, e2, e3, e4, h
<1>10. Runs(g("reboot") \o w, b, e1) /\ Runs(g("shutdown") \o StartAndWait, b, e1)
  BY <1>2, <1>3, <1>4, Chain
<1>11. Runs(run_xenclean \o n, b, e3) /\ Runs(uninstall_guest_tools \o n, b, e4)
  BY <1>3, <1>5, <1>6, Chain
<1>12. Runs(vm_shutdown_without_tools \o StartAndWait, b, b)
  BY <1>4, <1>7, Chain
<1>13. Runs(vm_shutdown_without_tools \o StartAndWait \o uninstall_guest_tools, b, e4)
  BY <1>6, <1>12, Chain
<1>14. Runs(vm_shutdown_without_tools \o StartAndWait \o uninstall_guest_tools \o n, b, e4)
  BY <1>3, <1>13, Chain
<1>15. \A s \in Bodies : Runs(s, b, b) \/ Runs(s, b, e1) \/ Runs(s, b, e3) \/ Runs(s, b, e4)
  BY <1>8, <1>9, <1>10, <1>11, <1>14
<1> QED BY <1>1, <1>15 DEF b

-----------------------------------------------------------------------------
(* One missing drive: the statements.                                      *)

\* What is known before a statement, unless it makes for trouble.
LEMMA Known ==
    ASSUME IInv, Smooth, Calm', todo # <<>>, phase' = phase, snapshot' = snapshot, UNCHANGED history \/ Trouble
    PROVE  /\ Calm /\ UNCHANGED history /\ ~Trouble /\ ~raised /\ vanished \in Nat /\ vanished <= 1
           /\ vm.drive \/ vanished = 1
           /\ TestSign => ~vm.secureboot
           /\ vm \in Vms /\ (vm.power = "halted" => ~vm.ssh) /\ (vm.msi # "none" => vm.power = "running")
           /\ \E a, b \in Mark :
                /\ Holds(a) /\ Goes(Head(todo), a, Then(a, Head(todo)))
                /\ Then(a, Head(todo)) \in Mark
                /\ Outline(Tail(todo), Then(a, Head(todo)), b)
                /\ phase = "setup" => b.stage = "up"
<1>1. /\ vm \in Vms /\ todo \in Programs /\ vanished \in Nat /\ trouble \in Nat
      /\ phase \in {"setup", "test"}
      /\ (vm.power = "halted" => ~vm.ssh) /\ (vm.msi # "none" => vm.power = "running")
  BY WindowsAssumption DEF IInv, TypeOK, Shape, Power
<1>2. UNCHANGED history /\ ~Trouble
  BY <1>1 DEF Calm, Trouble, history
<1>3. Calm
  BY <1>2 DEF Calm, history
<1>4. /\ ~raised
      /\ vm.drive \/ vanished = 1
      /\ TestSign => ~vm.secureboot
  BY <1>3 DEF Smooth
<1>5. PICK a \in Mark, b \in Mark : Holds(a) /\ Outline(todo, a, b) /\ (phase = "setup" => b.stage = "up")
  BY <1>1, <1>3 DEF Smooth, Outlined
<1>6. Goes(Head(todo), a, Then(a, Head(todo))) /\ Outline(Tail(todo), Then(a, Head(todo)), b)
  BY <1>1, <1>5, Split
<1>7. Then(a, Head(todo)) \in Mark
  BY <1>6 DEF Goes
<1>8. \E c, d \in Mark :
        /\ Holds(c) /\ Goes(Head(todo), c, Then(c, Head(todo)))
        /\ Then(c, Head(todo)) \in Mark
        /\ Outline(Tail(todo), Then(c, Head(todo)), d)
        /\ phase = "setup" => d.stage = "up"
  BY <1>5, <1>6, <1>7, Zenon
<1>9. vanished <= 1
  BY <1>3 DEF Calm
<1> QED BY <1>1, <1>2, <1>3, <1>4, <1>8, <1>9, Zenon

LEMMA Goes1 ==
    ASSUME phase' = phase, ~raised, raised' = raised, vm'.drive \/ vanished' = 1, TestSign => ~vm'.secureboot,
           NEW a \in Mark, NEW b \in Mark, Holds(a)', Outline(todo', a, b), phase = "setup" => b.stage = "up"
    PROVE  Smooth'
<1>1. Outlined(todo)'
  BY DEF Outlined
<1> QED BY <1>1 DEF Smooth

LEMMA SameHolds ==
    ASSUME vm' = vm, retries' = retries, vanished' = vanished, NEW a \in Mark, Holds(a)
    PROVE  Holds(a)'
BY DEF Holds, AtStage, InSight, WithDrivers, Up

LEMMA CalmVmStart == ASSUME IInv, Smooth, Calm', VmStart PROVE Smooth'
<1>1. /\ todo # <<>> /\ Head(todo) = "vm-start" /\ phase' = phase /\ snapshot' = snapshot
      /\ \/ (vm.power = "halted") /\ vm' = [vm EXCEPT !.power = "running", !.ssh = FALSE, !.off = "no"] /\ Proceed /\ UNCHANGED history
         \/ ~(vm.power = "halted") /\ Raise /\ vm' = vm /\ UNCHANGED history
         \/ (vm.power = "halted") /\ Raise /\ vm' = vm /\ Trouble
  BY DEF VmStart, Try, Doing, Step
<1>2. /\ Calm /\ UNCHANGED history /\ ~Trouble /\ ~raised /\ vanished \in Nat /\ vanished <= 1
      /\ vm.drive \/ vanished = 1
      /\ TestSign => ~vm.secureboot
      /\ vm \in Vms /\ (vm.power = "halted" => ~vm.ssh) /\ (vm.msi # "none" => vm.power = "running")
  BY <1>1, Known
<1>3. PICK a \in Mark, b \in Mark :
        /\ Holds(a) /\ Goes("vm-start", a, Then(a, "vm-start")) /\ Then(a, "vm-start") \in Mark
        /\ Outline(Tail(todo), Then(a, "vm-start"), b)
        /\ phase = "setup" => b.stage = "up"
  BY <1>1, Known
<1>4. Needs(a, "vm-start")
  BY <1>3 DEF Goes
<1>5. vm.power = "halted"
  BY <1>2, <1>3, <1>4 DEF Needs, Holds, AtStage, InSight, WithDrivers, Up, SeesTheCd, Installing, Removing
<1>6. /\ vm' = [vm EXCEPT !.power = "running", !.ssh = FALSE, !.off = "no"] /\ todo' = Tail(todo)
      /\ raised' = raised /\ retries' = retries /\ vanished' = vanished
  BY <1>1, <1>2, <1>5 DEF Proceed, history
<1>7. /\ vm'.power = "running"
      /\ vm'.off = "no"
      /\ vm'.ssh = FALSE
      /\ vm'.cd = vm.cd
      /\ vm'.drive = vm.drive
      /\ vm'.secureboot = vm.secureboot
      /\ vm'.vendor = vm.vendor
      /\ vm'.package = vm.package
      /\ vm'.msi = vm.msi
      /\ vm'.tools = vm.tools
  BY <1>2, <1>6 DEF Vms
<1> DEFINE c == Then(a, "vm-start")
<1>8. /\ c.stage = "started"
      /\ c.cd = a.cd
      /\ c.sight = a.sight
      /\ c.package = a.package
      /\ c.drivers = a.drivers
  BY <1>4 DEF Then, Needs, GivesShutdown, Installing, Removing, Mark
<1> HIDE DEF c
<1>9. Holds(c)'
  <2>0. a.stage \in {"new", "halted"}
    BY <1>4 DEF Needs, Installing, Removing
  <2>1. AtStage(c)'
    BY <2>0, <1>2, <1>3, <1>7, <1>8 DEF Holds, AtStage, Up
  <2>2. InSight(c)'
    BY <1>2, <1>3, <1>4, <1>6, <1>7, <1>8 DEF Holds, AtStage, InSight, Up, Needs, Installing, Removing
  <2>3. (c.cd = "in" => vm'.cd) /\ (c.cd = "out" => ~vm'.cd) /\ (c.package => vm'.package)
    BY <1>3, <1>7, <1>8 DEF Holds
  <2>4. WithDrivers(c, "in", "installing", "installed", "active")'
    BY <1>2, <1>3, <1>4, <1>7, <1>8 DEF Holds, AtStage, WithDrivers, Up, Needs, Installing, Removing
  <2>5. WithDrivers(c, "out", "removing", "removed", "gone")'
    BY <1>2, <1>3, <1>4, <1>7, <1>8 DEF Holds, AtStage, WithDrivers, Up, Needs, Installing, Removing
  <2> QED BY <2>1, <2>2, <2>3, <2>4, <2>5 DEF Holds
<1>10. c \in Mark /\ Outline(todo', c, b)
  BY <1>3, <1>6 DEF c
<1> QED BY <1>1, <1>2, <1>3, <1>6, <1>7, <1>9, <1>10, Goes1

LEMMA CalmEject == ASSUME IInv, Smooth, Calm', Eject PROVE Smooth'
<1>1. /\ todo # <<>> /\ Head(todo) = "eject" /\ phase' = phase /\ snapshot' = snapshot
      /\ \/ (TRUE) /\ vm' = [vm EXCEPT !.cd = FALSE] /\ Proceed /\ UNCHANGED history
         \/ ~(TRUE) /\ Raise /\ vm' = vm /\ UNCHANGED history
         \/ (TRUE) /\ Raise /\ vm' = vm /\ Trouble
  BY DEF Eject, Try, Doing, Step
<1>2. /\ Calm /\ UNCHANGED history /\ ~Trouble /\ ~raised /\ vanished \in Nat /\ vanished <= 1
      /\ vm.drive \/ vanished = 1
      /\ TestSign => ~vm.secureboot
      /\ vm \in Vms /\ (vm.power = "halted" => ~vm.ssh) /\ (vm.msi # "none" => vm.power = "running")
  BY <1>1, Known
<1>3. PICK a \in Mark, b \in Mark :
        /\ Holds(a) /\ Goes("eject", a, Then(a, "eject")) /\ Then(a, "eject") \in Mark
        /\ Outline(Tail(todo), Then(a, "eject"), b)
        /\ phase = "setup" => b.stage = "up"
  BY <1>1, Known
<1>4. Needs(a, "eject")
  BY <1>3 DEF Goes
<1>5. TRUE
  BY <1>2, <1>3, <1>4 DEF Needs, Holds, AtStage, InSight, WithDrivers, Up, SeesTheCd, Installing, Removing
<1>6. /\ vm' = [vm EXCEPT !.cd = FALSE] /\ todo' = Tail(todo)
      /\ raised' = raised /\ retries' = retries /\ vanished' = vanished
  BY <1>1, <1>2, <1>5 DEF Proceed, history
<1>7. /\ vm'.power = vm.power
      /\ vm'.off = vm.off
      /\ vm'.ssh = vm.ssh
      /\ vm'.cd = FALSE
      /\ vm'.drive = vm.drive
      /\ vm'.secureboot = vm.secureboot
      /\ vm'.vendor = vm.vendor
      /\ vm'.package = vm.package
      /\ vm'.msi = vm.msi
      /\ vm'.tools = vm.tools
  BY <1>2, <1>6 DEF Vms
<1> DEFINE c == Then(a, "eject")
<1>8. /\ c.stage = a.stage
      /\ c.cd = "out"
      /\ c.sight = a.sight
      /\ c.package = a.package
      /\ c.drivers = a.drivers
  BY <1>4 DEF Then, Needs, GivesShutdown, Installing, Removing, Mark
<1> HIDE DEF c
<1>9. Holds(c)'
  <2>0. a.stage \in {"halted", "up"}
    BY <1>4 DEF Needs, Installing, Removing
  <2>1. AtStage(c)'
    BY <2>0, <1>2, <1>3, <1>7, <1>8 DEF Holds, AtStage, Up
  <2>2. InSight(c)'
    BY <1>2, <1>3, <1>4, <1>6, <1>7, <1>8 DEF Holds, AtStage, InSight, Up, Needs, Installing, Removing
  <2>3. (c.cd = "in" => vm'.cd) /\ (c.cd = "out" => ~vm'.cd) /\ (c.package => vm'.package)
    BY <1>3, <1>7, <1>8 DEF Holds
  <2>4. WithDrivers(c, "in", "installing", "installed", "active")'
    BY <1>2, <1>3, <1>4, <1>7, <1>8 DEF Holds, AtStage, WithDrivers, Up, Needs, Installing, Removing
  <2>5. WithDrivers(c, "out", "removing", "removed", "gone")'
    BY <1>2, <1>3, <1>4, <1>7, <1>8 DEF Holds, AtStage, WithDrivers, Up, Needs, Installing, Removing
  <2> QED BY <2>1, <2>2, <2>3, <2>4, <2>5 DEF Holds
<1>10. c \in Mark /\ Outline(todo', c, b)
  BY <1>3, <1>6 DEF c
<1> QED BY <1>1, <1>2, <1>3, <1>6, <1>7, <1>9, <1>10, Goes1

LEMMA CalmEjectCd == ASSUME IInv, Smooth, Calm', EjectCd PROVE Smooth'
<1>1. /\ todo # <<>> /\ Head(todo) = "eject cd" /\ phase' = phase /\ snapshot' = snapshot
      /\ \/ (vm.cd) /\ vm' = [vm EXCEPT !.cd = FALSE] /\ Proceed /\ UNCHANGED history
         \/ ~(vm.cd) /\ Raise /\ vm' = vm /\ UNCHANGED history
         \/ (vm.cd) /\ Raise /\ vm' = vm /\ Trouble
  BY DEF EjectCd, Try, Doing, Step
<1>2. /\ Calm /\ UNCHANGED history /\ ~Trouble /\ ~raised /\ vanished \in Nat /\ vanished <= 1
      /\ vm.drive \/ vanished = 1
      /\ TestSign => ~vm.secureboot
      /\ vm \in Vms /\ (vm.power = "halted" => ~vm.ssh) /\ (vm.msi # "none" => vm.power = "running")
  BY <1>1, Known
<1>3. PICK a \in Mark, b \in Mark :
        /\ Holds(a) /\ Goes("eject cd", a, Then(a, "eject cd")) /\ Then(a, "eject cd") \in Mark
        /\ Outline(Tail(todo), Then(a, "eject cd"), b)
        /\ phase = "setup" => b.stage = "up"
  BY <1>1, Known
<1>4. Needs(a, "eject cd")
  BY <1>3 DEF Goes
<1>5. vm.cd
  BY <1>2, <1>3, <1>4 DEF Needs, Holds, AtStage, InSight, WithDrivers, Up, SeesTheCd, Installing, Removing
<1>6. /\ vm' = [vm EXCEPT !.cd = FALSE] /\ todo' = Tail(todo)
      /\ raised' = raised /\ retries' = retries /\ vanished' = vanished
  BY <1>1, <1>2, <1>5 DEF Proceed, history
<1>7. /\ vm'.power = vm.power
      /\ vm'.off = vm.off
      /\ vm'.ssh = vm.ssh
      /\ vm'.cd = FALSE
      /\ vm'.drive = vm.drive
      /\ vm'.secureboot = vm.secureboot
      /\ vm'.vendor = vm.vendor
      /\ vm'.package = vm.package
      /\ vm'.msi = vm.msi
      /\ vm'.tools = vm.tools
  BY <1>2, <1>6 DEF Vms
<1> DEFINE c == Then(a, "eject cd")
<1>8. /\ c.stage = a.stage
      /\ c.cd = "out"
      /\ c.sight = a.sight
      /\ c.package = a.package
      /\ c.drivers = a.drivers
  BY <1>4 DEF Then, Needs, GivesShutdown, Installing, Removing, Mark
<1> HIDE DEF c
<1>9. Holds(c)'
  <2>0. a.stage \in {"halted", "up"}
    BY <1>4 DEF Needs, Installing, Removing
  <2>1. AtStage(c)'
    BY <2>0, <1>2, <1>3, <1>7, <1>8 DEF Holds, AtStage, Up
  <2>2. InSight(c)'
    BY <1>2, <1>3, <1>4, <1>6, <1>7, <1>8 DEF Holds, AtStage, InSight, Up, Needs, Installing, Removing
  <2>3. (c.cd = "in" => vm'.cd) /\ (c.cd = "out" => ~vm'.cd) /\ (c.package => vm'.package)
    BY <1>3, <1>7, <1>8 DEF Holds
  <2>4. WithDrivers(c, "in", "installing", "installed", "active")'
    BY <1>2, <1>3, <1>4, <1>7, <1>8 DEF Holds, AtStage, WithDrivers, Up, Needs, Installing, Removing
  <2>5. WithDrivers(c, "out", "removing", "removed", "gone")'
    BY <1>2, <1>3, <1>4, <1>7, <1>8 DEF Holds, AtStage, WithDrivers, Up, Needs, Installing, Removing
  <2> QED BY <2>1, <2>2, <2>3, <2>4, <2>5 DEF Holds
<1>10. c \in Mark /\ Outline(todo', c, b)
  BY <1>3, <1>6 DEF c
<1> QED BY <1>1, <1>2, <1>3, <1>6, <1>7, <1>9, <1>10, Goes1

LEMMA CalmInsert == ASSUME IInv, Smooth, Calm', Insert PROVE Smooth'
<1>1. /\ todo # <<>> /\ Head(todo) = "insert" /\ phase' = phase /\ snapshot' = snapshot
      /\ \/ (~vm.cd) /\ vm' = [vm EXCEPT !.cd = TRUE] /\ Proceed /\ UNCHANGED history
         \/ ~(~vm.cd) /\ Raise /\ vm' = vm /\ UNCHANGED history
         \/ (~vm.cd) /\ Raise /\ vm' = vm /\ Trouble
  BY DEF Insert, Try, Doing, Step
<1>2. /\ Calm /\ UNCHANGED history /\ ~Trouble /\ ~raised /\ vanished \in Nat /\ vanished <= 1
      /\ vm.drive \/ vanished = 1
      /\ TestSign => ~vm.secureboot
      /\ vm \in Vms /\ (vm.power = "halted" => ~vm.ssh) /\ (vm.msi # "none" => vm.power = "running")
  BY <1>1, Known
<1>3. PICK a \in Mark, b \in Mark :
        /\ Holds(a) /\ Goes("insert", a, Then(a, "insert")) /\ Then(a, "insert") \in Mark
        /\ Outline(Tail(todo), Then(a, "insert"), b)
        /\ phase = "setup" => b.stage = "up"
  BY <1>1, Known
<1>4. Needs(a, "insert")
  BY <1>3 DEF Goes
<1>5. ~vm.cd
  BY <1>2, <1>3, <1>4 DEF Needs, Holds, AtStage, InSight, WithDrivers, Up, SeesTheCd, Installing, Removing
<1>6. /\ vm' = [vm EXCEPT !.cd = TRUE] /\ todo' = Tail(todo)
      /\ raised' = raised /\ retries' = retries /\ vanished' = vanished
  BY <1>1, <1>2, <1>5 DEF Proceed, history
<1>7. /\ vm'.power = vm.power
      /\ vm'.off = vm.off
      /\ vm'.ssh = vm.ssh
      /\ vm'.cd = TRUE
      /\ vm'.drive = vm.drive
      /\ vm'.secureboot = vm.secureboot
      /\ vm'.vendor = vm.vendor
      /\ vm'.package = vm.package
      /\ vm'.msi = vm.msi
      /\ vm'.tools = vm.tools
  BY <1>2, <1>6 DEF Vms
<1> DEFINE c == Then(a, "insert")
<1>8. /\ c.stage = a.stage
      /\ c.cd = "in"
      /\ c.sight = a.sight
      /\ c.package = a.package
      /\ c.drivers = a.drivers
  BY <1>4 DEF Then, Needs, GivesShutdown, Installing, Removing, Mark
<1> HIDE DEF c
<1>9. Holds(c)'
  <2>0. a.stage \in {"halted", "up"}
    BY <1>4 DEF Needs, Installing, Removing
  <2>1. AtStage(c)'
    BY <2>0, <1>2, <1>3, <1>7, <1>8 DEF Holds, AtStage, Up
  <2>2. InSight(c)'
    BY <1>2, <1>3, <1>4, <1>6, <1>7, <1>8 DEF Holds, AtStage, InSight, Up, Needs, Installing, Removing
  <2>3. (c.cd = "in" => vm'.cd) /\ (c.cd = "out" => ~vm'.cd) /\ (c.package => vm'.package)
    BY <1>3, <1>7, <1>8 DEF Holds
  <2>4. WithDrivers(c, "in", "installing", "installed", "active")'
    BY <1>2, <1>3, <1>4, <1>7, <1>8 DEF Holds, AtStage, WithDrivers, Up, Needs, Installing, Removing
  <2>5. WithDrivers(c, "out", "removing", "removed", "gone")'
    BY <1>2, <1>3, <1>4, <1>7, <1>8 DEF Holds, AtStage, WithDrivers, Up, Needs, Installing, Removing
  <2> QED BY <2>1, <2>2, <2>3, <2>4, <2>5 DEF Holds
<1>10. c \in Mark /\ Outline(todo', c, b)
  BY <1>3, <1>6 DEF c
<1> QED BY <1>1, <1>2, <1>3, <1>6, <1>7, <1>9, <1>10, Goes1

LEMMA CalmCertutil == ASSUME IInv, Smooth, Calm', Certutil PROVE Smooth'
<1>1. /\ todo # <<>> /\ Head(todo) = "certutil" /\ phase' = phase /\ snapshot' = snapshot
      /\ \/ (SeesTheCd) /\ vm' = [vm EXCEPT !.cert = TRUE] /\ Proceed /\ UNCHANGED history
         \/ ~(SeesTheCd) /\ Raise /\ vm' = vm /\ UNCHANGED history
         \/ (SeesTheCd) /\ Raise /\ vm' = vm /\ Trouble
  BY DEF Certutil, Try, Doing, Step
<1>2. /\ Calm /\ UNCHANGED history /\ ~Trouble /\ ~raised /\ vanished \in Nat /\ vanished <= 1
      /\ vm.drive \/ vanished = 1
      /\ TestSign => ~vm.secureboot
      /\ vm \in Vms /\ (vm.power = "halted" => ~vm.ssh) /\ (vm.msi # "none" => vm.power = "running")
  BY <1>1, Known
<1>3. PICK a \in Mark, b \in Mark :
        /\ Holds(a) /\ Goes("certutil", a, Then(a, "certutil")) /\ Then(a, "certutil") \in Mark
        /\ Outline(Tail(todo), Then(a, "certutil"), b)
        /\ phase = "setup" => b.stage = "up"
  BY <1>1, Known
<1>4. Needs(a, "certutil")
  BY <1>3 DEF Goes
<1>5. SeesTheCd
  BY <1>2, <1>3, <1>4 DEF Needs, Holds, AtStage, InSight, WithDrivers, Up, SeesTheCd, Installing, Removing
<1>6. /\ vm' = [vm EXCEPT !.cert = TRUE] /\ todo' = Tail(todo)
      /\ raised' = raised /\ retries' = retries /\ vanished' = vanished
  BY <1>1, <1>2, <1>5 DEF Proceed, history
<1>7. /\ vm'.power = vm.power
      /\ vm'.off = vm.off
      /\ vm'.ssh = vm.ssh
      /\ vm'.cd = vm.cd
      /\ vm'.drive = vm.drive
      /\ vm'.secureboot = vm.secureboot
      /\ vm'.vendor = vm.vendor
      /\ vm'.package = vm.package
      /\ vm'.msi = vm.msi
      /\ vm'.tools = vm.tools
  BY <1>2, <1>6 DEF Vms
<1> DEFINE c == Then(a, "certutil")
<1>8. /\ c.stage = a.stage
      /\ c.cd = a.cd
      /\ c.sight = a.sight
      /\ c.package = a.package
      /\ c.drivers = a.drivers
  BY <1>4 DEF Then, Needs, GivesShutdown, Installing, Removing, Mark
<1> HIDE DEF c
<1>9. Holds(c)'
  <2>0. a.stage \in {"up"}
    BY <1>4 DEF Needs, Installing, Removing
  <2>1. AtStage(c)'
    BY <2>0, <1>2, <1>3, <1>7, <1>8 DEF Holds, AtStage, Up
  <2>2. InSight(c)'
    BY <1>2, <1>3, <1>4, <1>6, <1>7, <1>8 DEF Holds, AtStage, InSight, Up, Needs, Installing, Removing
  <2>3. (c.cd = "in" => vm'.cd) /\ (c.cd = "out" => ~vm'.cd) /\ (c.package => vm'.package)
    BY <1>3, <1>7, <1>8 DEF Holds
  <2>4. WithDrivers(c, "in", "installing", "installed", "active")'
    BY <1>2, <1>3, <1>4, <1>7, <1>8 DEF Holds, AtStage, WithDrivers, Up, Needs, Installing, Removing
  <2>5. WithDrivers(c, "out", "removing", "removed", "gone")'
    BY <1>2, <1>3, <1>4, <1>7, <1>8 DEF Holds, AtStage, WithDrivers, Up, Needs, Installing, Removing
  <2> QED BY <2>1, <2>2, <2>3, <2>4, <2>5 DEF Holds
<1>10. c \in Mark /\ Outline(todo', c, b)
  BY <1>3, <1>6 DEF c
<1> QED BY <1>1, <1>2, <1>3, <1>6, <1>7, <1>9, <1>10, Goes1

LEMMA CalmCopy == ASSUME IInv, Smooth, Calm', Copy PROVE Smooth'
<1>1. /\ todo # <<>> /\ Head(todo) = "copy" /\ phase' = phase /\ snapshot' = snapshot
      /\ \/ (SeesTheCd) /\ vm' = [vm EXCEPT !.package = TRUE] /\ Proceed /\ UNCHANGED history
         \/ ~(SeesTheCd) /\ Raise /\ vm' = vm /\ UNCHANGED history
         \/ (SeesTheCd) /\ Raise /\ vm' = vm /\ Trouble
  BY DEF Copy, Try, Doing, Step
<1>2. /\ Calm /\ UNCHANGED history /\ ~Trouble /\ ~raised /\ vanished \in Nat /\ vanished <= 1
      /\ vm.drive \/ vanished = 1
      /\ TestSign => ~vm.secureboot
      /\ vm \in Vms /\ (vm.power = "halted" => ~vm.ssh) /\ (vm.msi # "none" => vm.power = "running")
  BY <1>1, Known
<1>3. PICK a \in Mark, b \in Mark :
        /\ Holds(a) /\ Goes("copy", a, Then(a, "copy")) /\ Then(a, "copy") \in Mark
        /\ Outline(Tail(todo), Then(a, "copy"), b)
        /\ phase = "setup" => b.stage = "up"
  BY <1>1, Known
<1>4. Needs(a, "copy")
  BY <1>3 DEF Goes
<1>5. SeesTheCd
  BY <1>2, <1>3, <1>4 DEF Needs, Holds, AtStage, InSight, WithDrivers, Up, SeesTheCd, Installing, Removing
<1>6. /\ vm' = [vm EXCEPT !.package = TRUE] /\ todo' = Tail(todo)
      /\ raised' = raised /\ retries' = retries /\ vanished' = vanished
  BY <1>1, <1>2, <1>5 DEF Proceed, history
<1>7. /\ vm'.power = vm.power
      /\ vm'.off = vm.off
      /\ vm'.ssh = vm.ssh
      /\ vm'.cd = vm.cd
      /\ vm'.drive = vm.drive
      /\ vm'.secureboot = vm.secureboot
      /\ vm'.vendor = vm.vendor
      /\ vm'.package = TRUE
      /\ vm'.msi = vm.msi
      /\ vm'.tools = vm.tools
  BY <1>2, <1>6 DEF Vms
<1> DEFINE c == Then(a, "copy")
<1>8. /\ c.stage = a.stage
      /\ c.cd = a.cd
      /\ c.sight = a.sight
      /\ c.package = TRUE
      /\ c.drivers = a.drivers
  BY <1>4 DEF Then, Needs, GivesShutdown, Installing, Removing, Mark
<1> HIDE DEF c
<1>9. Holds(c)'
  <2>0. a.stage \in {"up"}
    BY <1>4 DEF Needs, Installing, Removing
  <2>1. AtStage(c)'
    BY <2>0, <1>2, <1>3, <1>7, <1>8 DEF Holds, AtStage, Up
  <2>2. InSight(c)'
    BY <1>2, <1>3, <1>4, <1>6, <1>7, <1>8 DEF Holds, AtStage, InSight, Up, Needs, Installing, Removing
  <2>3. (c.cd = "in" => vm'.cd) /\ (c.cd = "out" => ~vm'.cd) /\ (c.package => vm'.package)
    BY <1>3, <1>7, <1>8 DEF Holds
  <2>4. WithDrivers(c, "in", "installing", "installed", "active")'
    BY <1>2, <1>3, <1>4, <1>7, <1>8 DEF Holds, AtStage, WithDrivers, Up, Needs, Installing, Removing
  <2>5. WithDrivers(c, "out", "removing", "removed", "gone")'
    BY <1>2, <1>3, <1>4, <1>7, <1>8 DEF Holds, AtStage, WithDrivers, Up, Needs, Installing, Removing
  <2> QED BY <2>1, <2>2, <2>3, <2>4, <2>5 DEF Holds
<1>10. c \in Mark /\ Outline(todo', c, b)
  BY <1>3, <1>6 DEF c
<1> QED BY <1>1, <1>2, <1>3, <1>6, <1>7, <1>9, <1>10, Goes1

LEMMA CalmBcdedit == ASSUME IInv, Smooth, Calm', Bcdedit PROVE Smooth'
<1>1. /\ todo # <<>> /\ Head(todo) = "bcdedit" /\ phase' = phase /\ snapshot' = snapshot
      /\ \/ (Up /\ ~vm.secureboot) /\ vm' = [vm EXCEPT !.signing = IF @ = "on" THEN @ ELSE "set", !.off = "given"] /\ Proceed /\ UNCHANGED history
         \/ ~(Up /\ ~vm.secureboot) /\ Raise /\ vm' = vm /\ UNCHANGED history
         \/ (Up /\ ~vm.secureboot) /\ Raise /\ vm' = vm /\ Trouble
  BY DEF Bcdedit, Try, Doing, Step
<1>2. /\ Calm /\ UNCHANGED history /\ ~Trouble /\ ~raised /\ vanished \in Nat /\ vanished <= 1
      /\ vm.drive \/ vanished = 1
      /\ TestSign => ~vm.secureboot
      /\ vm \in Vms /\ (vm.power = "halted" => ~vm.ssh) /\ (vm.msi # "none" => vm.power = "running")
  BY <1>1, Known
<1>3. PICK a \in Mark, b \in Mark :
        /\ Holds(a) /\ Goes("bcdedit", a, Then(a, "bcdedit")) /\ Then(a, "bcdedit") \in Mark
        /\ Outline(Tail(todo), Then(a, "bcdedit"), b)
        /\ phase = "setup" => b.stage = "up"
  BY <1>1, Known
<1>4. Needs(a, "bcdedit")
  BY <1>3 DEF Goes
<1>5. Up /\ ~vm.secureboot
  BY <1>2, <1>3, <1>4 DEF Needs, Holds, AtStage, InSight, WithDrivers, Up, SeesTheCd, Installing, Removing
<1>6. /\ vm' = [vm EXCEPT !.signing = IF @ = "on" THEN @ ELSE "set", !.off = "given"] /\ todo' = Tail(todo)
      /\ raised' = raised /\ retries' = retries /\ vanished' = vanished
  BY <1>1, <1>2, <1>5 DEF Proceed, history
<1>7. /\ vm'.power = vm.power
      /\ vm'.off = "given"
      /\ vm'.ssh = vm.ssh
      /\ vm'.cd = vm.cd
      /\ vm'.drive = vm.drive
      /\ vm'.secureboot = vm.secureboot
      /\ vm'.vendor = vm.vendor
      /\ vm'.package = vm.package
      /\ vm'.msi = vm.msi
      /\ vm'.tools = vm.tools
  BY <1>2, <1>6 DEF Vms
<1> DEFINE c == Then(a, "bcdedit")
<1>8. /\ c.stage = "going"
      /\ c.cd = a.cd
      /\ c.sight = IF a.sight = "seen" THEN "any" ELSE a.sight
      /\ c.package = a.package
      /\ c.drivers = "any"
  BY <1>4 DEF Then, Needs, GivesShutdown, Installing, Removing, Mark
<1> HIDE DEF c
<1>9. Holds(c)'
  <2>0. a.stage \in {"up"}
    BY <1>4 DEF Needs, Installing, Removing
  <2>1. AtStage(c)'
    BY <2>0, <1>2, <1>3, <1>7, <1>8 DEF Holds, AtStage, Up
  <2>2. InSight(c)'
    BY <1>2, <1>3, <1>4, <1>6, <1>7, <1>8 DEF Holds, AtStage, InSight, Up, Needs, Installing, Removing
  <2>3. (c.cd = "in" => vm'.cd) /\ (c.cd = "out" => ~vm'.cd) /\ (c.package => vm'.package)
    BY <1>3, <1>7, <1>8 DEF Holds
  <2>4. WithDrivers(c, "in", "installing", "installed", "active")'
    BY <1>2, <1>3, <1>4, <1>7, <1>8 DEF Holds, AtStage, WithDrivers, Up, Needs, Installing, Removing
  <2>5. WithDrivers(c, "out", "removing", "removed", "gone")'
    BY <1>2, <1>3, <1>4, <1>7, <1>8 DEF Holds, AtStage, WithDrivers, Up, Needs, Installing, Removing
  <2> QED BY <2>1, <2>2, <2>3, <2>4, <2>5 DEF Holds
<1>10. c \in Mark /\ Outline(todo', c, b)
  BY <1>3, <1>6 DEF c
<1> QED BY <1>1, <1>2, <1>3, <1>6, <1>7, <1>9, <1>10, Goes1

LEMMA CalmMsiexec == ASSUME IInv, Smooth, Calm', Msiexec PROVE Smooth'
<1>1. /\ todo # <<>> /\ Head(todo) = "msiexec /i" /\ phase' = phase /\ snapshot' = snapshot
      /\ \/ (Up /\ vm.package) /\ vm' = [vm EXCEPT !.tools = "installed"] /\ Proceed /\ UNCHANGED history
         \/ ~(Up /\ vm.package) /\ Raise /\ vm' = vm /\ UNCHANGED history
         \/ (Up /\ vm.package) /\ Raise /\ vm' = vm /\ Trouble
  BY DEF Msiexec, Try, Doing, Step
<1>2. /\ Calm /\ UNCHANGED history /\ ~Trouble /\ ~raised /\ vanished \in Nat /\ vanished <= 1
      /\ vm.drive \/ vanished = 1
      /\ TestSign => ~vm.secureboot
      /\ vm \in Vms /\ (vm.power = "halted" => ~vm.ssh) /\ (vm.msi # "none" => vm.power = "running")
  BY <1>1, Known
<1>3. PICK a \in Mark, b \in Mark :
        /\ Holds(a) /\ Goes("msiexec /i", a, Then(a, "msiexec /i")) /\ Then(a, "msiexec /i") \in Mark
        /\ Outline(Tail(todo), Then(a, "msiexec /i"), b)
        /\ phase = "setup" => b.stage = "up"
  BY <1>1, Known
<1>4. Needs(a, "msiexec /i")
  BY <1>3 DEF Goes
<1>5. Up /\ vm.package
  BY <1>2, <1>3, <1>4 DEF Needs, Holds, AtStage, InSight, WithDrivers, Up, SeesTheCd, Installing, Removing
<1>6. /\ vm' = [vm EXCEPT !.tools = "installed"] /\ todo' = Tail(todo)
      /\ raised' = raised /\ retries' = retries /\ vanished' = vanished
  BY <1>1, <1>2, <1>5 DEF Proceed, history
<1>7. /\ vm'.power = vm.power
      /\ vm'.off = vm.off
      /\ vm'.ssh = vm.ssh
      /\ vm'.cd = vm.cd
      /\ vm'.drive = vm.drive
      /\ vm'.secureboot = vm.secureboot
      /\ vm'.vendor = vm.vendor
      /\ vm'.package = vm.package
      /\ vm'.msi = vm.msi
      /\ vm'.tools = "installed"
  BY <1>2, <1>6 DEF Vms
<1> DEFINE c == Then(a, "msiexec /i")
<1>8. /\ c.stage = a.stage
      /\ c.cd = a.cd
      /\ c.sight = a.sight
      /\ c.package = a.package
      /\ c.drivers = a.drivers
  BY <1>4 DEF Then, Needs, GivesShutdown, Installing, Removing, Mark
<1> HIDE DEF c
<1>9. Holds(c)'
  <2>0. a.stage \in {"up"}
    BY <1>4 DEF Needs, Installing, Removing
  <2>1. AtStage(c)'
    BY <2>0, <1>2, <1>3, <1>7, <1>8 DEF Holds, AtStage, Up
  <2>2. InSight(c)'
    BY <1>2, <1>3, <1>4, <1>6, <1>7, <1>8 DEF Holds, AtStage, InSight, Up, Needs, Installing, Removing
  <2>3. (c.cd = "in" => vm'.cd) /\ (c.cd = "out" => ~vm'.cd) /\ (c.package => vm'.package)
    BY <1>3, <1>7, <1>8 DEF Holds
  <2>4. WithDrivers(c, "in", "installing", "installed", "active")'
    BY <1>2, <1>3, <1>4, <1>7, <1>8 DEF Holds, AtStage, WithDrivers, Up, Needs, Installing, Removing
  <2>5. WithDrivers(c, "out", "removing", "removed", "gone")'
    BY <1>2, <1>3, <1>4, <1>7, <1>8 DEF Holds, AtStage, WithDrivers, Up, Needs, Installing, Removing
  <2> QED BY <2>1, <2>2, <2>3, <2>4, <2>5 DEF Holds
<1>10. c \in Mark /\ Outline(todo', c, b)
  BY <1>3, <1>6 DEF c
<1> QED BY <1>1, <1>2, <1>3, <1>6, <1>7, <1>9, <1>10, Goes1

LEMMA CalmWorking == ASSUME IInv, Smooth, Calm', Working PROVE Smooth'
<1>1. /\ todo # <<>> /\ Head(todo) = "working?" /\ phase' = phase /\ snapshot' = snapshot
      /\ \/ (Up /\ vm.tools = "active") /\ vm' = vm /\ Proceed /\ UNCHANGED history
         \/ ~(Up /\ vm.tools = "active") /\ Raise /\ vm' = vm /\ UNCHANGED history
         \/ (Up /\ vm.tools = "active") /\ Raise /\ vm' = vm /\ Trouble
  BY DEF Working, Try, Doing, Step
<1>2. /\ Calm /\ UNCHANGED history /\ ~Trouble /\ ~raised /\ vanished \in Nat /\ vanished <= 1
      /\ vm.drive \/ vanished = 1
      /\ TestSign => ~vm.secureboot
      /\ vm \in Vms /\ (vm.power = "halted" => ~vm.ssh) /\ (vm.msi # "none" => vm.power = "running")
  BY <1>1, Known
<1>3. PICK a \in Mark, b \in Mark :
        /\ Holds(a) /\ Goes("working?", a, Then(a, "working?")) /\ Then(a, "working?") \in Mark
        /\ Outline(Tail(todo), Then(a, "working?"), b)
        /\ phase = "setup" => b.stage = "up"
  BY <1>1, Known
<1>4. Needs(a, "working?")
  BY <1>3 DEF Goes
<1>5. Up /\ vm.tools = "active"
  BY <1>2, <1>3, <1>4 DEF Needs, Holds, AtStage, InSight, WithDrivers, Up, SeesTheCd, Installing, Removing
<1>6. /\ vm' = vm /\ todo' = Tail(todo)
      /\ raised' = raised /\ retries' = retries /\ vanished' = vanished
  BY <1>1, <1>2, <1>5 DEF Proceed, history
<1>7. /\ vm'.power = vm.power
      /\ vm'.off = vm.off
      /\ vm'.ssh = vm.ssh
      /\ vm'.cd = vm.cd
      /\ vm'.drive = vm.drive
      /\ vm'.secureboot = vm.secureboot
      /\ vm'.vendor = vm.vendor
      /\ vm'.package = vm.package
      /\ vm'.msi = vm.msi
      /\ vm'.tools = vm.tools
  BY <1>2, <1>6 DEF Vms
<1> DEFINE c == Then(a, "working?")
<1>8. /\ c.stage = a.stage
      /\ c.cd = a.cd
      /\ c.sight = a.sight
      /\ c.package = a.package
      /\ c.drivers = a.drivers
  BY <1>4 DEF Then, Needs, GivesShutdown, Installing, Removing, Mark
<1> HIDE DEF c
<1>9. Holds(c)'
  <2>0. a.stage \in {"up"}
    BY <1>4 DEF Needs, Installing, Removing
  <2>1. AtStage(c)'
    BY <2>0, <1>2, <1>3, <1>7, <1>8 DEF Holds, AtStage, Up
  <2>2. InSight(c)'
    BY <1>2, <1>3, <1>4, <1>6, <1>7, <1>8 DEF Holds, AtStage, InSight, Up, Needs, Installing, Removing
  <2>3. (c.cd = "in" => vm'.cd) /\ (c.cd = "out" => ~vm'.cd) /\ (c.package => vm'.package)
    BY <1>3, <1>7, <1>8 DEF Holds
  <2>4. WithDrivers(c, "in", "installing", "installed", "active")'
    BY <1>2, <1>3, <1>4, <1>7, <1>8 DEF Holds, AtStage, WithDrivers, Up, Needs, Installing, Removing
  <2>5. WithDrivers(c, "out", "removing", "removed", "gone")'
    BY <1>2, <1>3, <1>4, <1>7, <1>8 DEF Holds, AtStage, WithDrivers, Up, Needs, Installing, Removing
  <2> QED BY <2>1, <2>2, <2>3, <2>4, <2>5 DEF Holds
<1>10. c \in Mark /\ Outline(todo', c, b)
  BY <1>3, <1>6 DEF c
<1> QED BY <1>1, <1>2, <1>3, <1>6, <1>7, <1>9, <1>10, Goes1

LEMMA CalmUninstalled == ASSUME IInv, Smooth, Calm', Uninstalled PROVE Smooth'
<1>1. /\ todo # <<>> /\ Head(todo) = "uninstalled?" /\ phase' = phase /\ snapshot' = snapshot
      /\ \/ (Up /\ vm.tools \in {"none", "gone"}) /\ vm' = vm /\ Proceed /\ UNCHANGED history
         \/ ~(Up /\ vm.tools \in {"none", "gone"}) /\ Raise /\ vm' = vm /\ UNCHANGED history
         \/ (Up /\ vm.tools \in {"none", "gone"}) /\ Raise /\ vm' = vm /\ Trouble
  BY DEF Uninstalled, Try, Doing, Step
<1>2. /\ Calm /\ UNCHANGED history /\ ~Trouble /\ ~raised /\ vanished \in Nat /\ vanished <= 1
      /\ vm.drive \/ vanished = 1
      /\ TestSign => ~vm.secureboot
      /\ vm \in Vms /\ (vm.power = "halted" => ~vm.ssh) /\ (vm.msi # "none" => vm.power = "running")
  BY <1>1, Known
<1>3. PICK a \in Mark, b \in Mark :
        /\ Holds(a) /\ Goes("uninstalled?", a, Then(a, "uninstalled?")) /\ Then(a, "uninstalled?") \in Mark
        /\ Outline(Tail(todo), Then(a, "uninstalled?"), b)
        /\ phase = "setup" => b.stage = "up"
  BY <1>1, Known
<1>4. Needs(a, "uninstalled?")
  BY <1>3 DEF Goes
<1>5. Up /\ vm.tools \in {"none", "gone"}
  BY <1>2, <1>3, <1>4 DEF Needs, Holds, AtStage, InSight, WithDrivers, Up, SeesTheCd, Installing, Removing
<1>6. /\ vm' = vm /\ todo' = Tail(todo)
      /\ raised' = raised /\ retries' = retries /\ vanished' = vanished
  BY <1>1, <1>2, <1>5 DEF Proceed, history
<1>7. /\ vm'.power = vm.power
      /\ vm'.off = vm.off
      /\ vm'.ssh = vm.ssh
      /\ vm'.cd = vm.cd
      /\ vm'.drive = vm.drive
      /\ vm'.secureboot = vm.secureboot
      /\ vm'.vendor = vm.vendor
      /\ vm'.package = vm.package
      /\ vm'.msi = vm.msi
      /\ vm'.tools = vm.tools
  BY <1>2, <1>6 DEF Vms
<1> DEFINE c == Then(a, "uninstalled?")
<1>8. /\ c.stage = a.stage
      /\ c.cd = a.cd
      /\ c.sight = a.sight
      /\ c.package = a.package
      /\ c.drivers = a.drivers
  BY <1>4 DEF Then, Needs, GivesShutdown, Installing, Removing, Mark
<1> HIDE DEF c
<1>9. Holds(c)'
  <2>0. a.stage \in {"up"}
    BY <1>4 DEF Needs, Installing, Removing
  <2>1. AtStage(c)'
    BY <2>0, <1>2, <1>3, <1>7, <1>8 DEF Holds, AtStage, Up
  <2>2. InSight(c)'
    BY <1>2, <1>3, <1>4, <1>6, <1>7, <1>8 DEF Holds, AtStage, InSight, Up, Needs, Installing, Removing
  <2>3. (c.cd = "in" => vm'.cd) /\ (c.cd = "out" => ~vm'.cd) /\ (c.package => vm'.package)
    BY <1>3, <1>7, <1>8 DEF Holds
  <2>4. WithDrivers(c, "in", "installing", "installed", "active")'
    BY <1>2, <1>3, <1>4, <1>7, <1>8 DEF Holds, AtStage, WithDrivers, Up, Needs, Installing, Removing
  <2>5. WithDrivers(c, "out", "removing", "removed", "gone")'
    BY <1>2, <1>3, <1>4, <1>7, <1>8 DEF Holds, AtStage, WithDrivers, Up, Needs, Installing, Removing
  <2> QED BY <2>1, <2>2, <2>3, <2>4, <2>5 DEF Holds
<1>10. c \in Mark /\ Outline(todo', c, b)
  BY <1>3, <1>6 DEF c
<1> QED BY <1>1, <1>2, <1>3, <1>6, <1>7, <1>9, <1>10, Goes1

LEMMA CalmInstall == ASSUME IInv, Smooth, Calm', Background("msiexec /i &", Up /\ vm.package, "installing") PROVE Smooth'
<1>1. /\ todo # <<>> /\ Head(todo) = "msiexec /i &" /\ phase' = phase /\ snapshot' = snapshot
      /\ \/ (Up /\ vm.package) /\ vm' = [vm EXCEPT !.msi = "installing", !.off = "after msi"] /\ Proceed /\ UNCHANGED history
         \/ ~(Up /\ vm.package) /\ Raise /\ vm' = vm /\ UNCHANGED history
         \/ (Up /\ vm.package) /\ Raise /\ vm' = vm /\ Trouble
  BY DEF Background, Try, Doing, Step
<1>2. /\ Calm /\ UNCHANGED history /\ ~Trouble /\ ~raised /\ vanished \in Nat /\ vanished <= 1
      /\ vm.drive \/ vanished = 1
      /\ TestSign => ~vm.secureboot
      /\ vm \in Vms /\ (vm.power = "halted" => ~vm.ssh) /\ (vm.msi # "none" => vm.power = "running")
  BY <1>1, Known
<1>3. PICK a \in Mark, b \in Mark :
        /\ Holds(a) /\ Goes("msiexec /i &", a, Then(a, "msiexec /i &")) /\ Then(a, "msiexec /i &") \in Mark
        /\ Outline(Tail(todo), Then(a, "msiexec /i &"), b)
        /\ phase = "setup" => b.stage = "up"
  BY <1>1, Known
<1>4. Needs(a, "msiexec /i &")
  BY <1>3 DEF Goes
<1>5. Up /\ vm.package
  BY <1>2, <1>3, <1>4 DEF Needs, Holds, AtStage, InSight, WithDrivers, Up, SeesTheCd, Installing, Removing
<1>6. /\ vm' = [vm EXCEPT !.msi = "installing", !.off = "after msi"] /\ todo' = Tail(todo)
      /\ raised' = raised /\ retries' = retries /\ vanished' = vanished
  BY <1>1, <1>2, <1>5 DEF Proceed, history
<1>7. /\ vm'.power = vm.power
      /\ vm'.off = "after msi"
      /\ vm'.ssh = vm.ssh
      /\ vm'.cd = vm.cd
      /\ vm'.drive = vm.drive
      /\ vm'.secureboot = vm.secureboot
      /\ vm'.vendor = vm.vendor
      /\ vm'.package = vm.package
      /\ vm'.msi = "installing"
      /\ vm'.tools = vm.tools
  BY <1>2, <1>6 DEF Vms
<1> DEFINE c == Then(a, "msiexec /i &")
<1>8. /\ c.stage = "going"
      /\ c.cd = a.cd
      /\ c.sight = IF a.sight = "seen" THEN "any" ELSE a.sight
      /\ c.package = a.package
      /\ c.drivers = "in"
  BY <1>4 DEF Then, Needs, GivesShutdown, Installing, Removing, Mark
<1> HIDE DEF c
<1>9. Holds(c)'
  <2>0. a.stage \in {"up"}
    BY <1>4 DEF Needs, Installing, Removing
  <2>1. AtStage(c)'
    BY <2>0, <1>2, <1>3, <1>7, <1>8 DEF Holds, AtStage, Up
  <2>2. InSight(c)'
    BY <1>2, <1>3, <1>4, <1>6, <1>7, <1>8 DEF Holds, AtStage, InSight, Up, Needs, Installing, Removing
  <2>3. (c.cd = "in" => vm'.cd) /\ (c.cd = "out" => ~vm'.cd) /\ (c.package => vm'.package)
    BY <1>3, <1>7, <1>8 DEF Holds
  <2>4. WithDrivers(c, "in", "installing", "installed", "active")'
    BY <1>2, <1>3, <1>4, <1>7, <1>8 DEF Holds, AtStage, WithDrivers, Up, Needs, Installing, Removing
  <2>5. WithDrivers(c, "out", "removing", "removed", "gone")'
    BY <1>2, <1>3, <1>4, <1>7, <1>8 DEF Holds, AtStage, WithDrivers, Up, Needs, Installing, Removing
  <2> QED BY <2>1, <2>2, <2>3, <2>4, <2>5 DEF Holds
<1>10. c \in Mark /\ Outline(todo', c, b)
  BY <1>3, <1>6 DEF c
<1> QED BY <1>1, <1>2, <1>3, <1>6, <1>7, <1>9, <1>10, Goes1

LEMMA CalmDrivers == ASSUME IInv, Smooth, Calm', Background("install-drivers.ps1 &", SeesTheCd, "installing") PROVE Smooth'
<1>1. /\ todo # <<>> /\ Head(todo) = "install-drivers.ps1 &" /\ phase' = phase /\ snapshot' = snapshot
      /\ \/ (SeesTheCd) /\ vm' = [vm EXCEPT !.msi = "installing", !.off = "after msi"] /\ Proceed /\ UNCHANGED history
         \/ ~(SeesTheCd) /\ Raise /\ vm' = vm /\ UNCHANGED history
         \/ (SeesTheCd) /\ Raise /\ vm' = vm /\ Trouble
  BY DEF Background, Try, Doing, Step
<1>2. /\ Calm /\ UNCHANGED history /\ ~Trouble /\ ~raised /\ vanished \in Nat /\ vanished <= 1
      /\ vm.drive \/ vanished = 1
      /\ TestSign => ~vm.secureboot
      /\ vm \in Vms /\ (vm.power = "halted" => ~vm.ssh) /\ (vm.msi # "none" => vm.power = "running")
  BY <1>1, Known
<1>3. PICK a \in Mark, b \in Mark :
        /\ Holds(a) /\ Goes("install-drivers.ps1 &", a, Then(a, "install-drivers.ps1 &")) /\ Then(a, "install-drivers.ps1 &") \in Mark
        /\ Outline(Tail(todo), Then(a, "install-drivers.ps1 &"), b)
        /\ phase = "setup" => b.stage = "up"
  BY <1>1, Known
<1>4. Needs(a, "install-drivers.ps1 &")
  BY <1>3 DEF Goes
<1>5. SeesTheCd
  BY <1>2, <1>3, <1>4 DEF Needs, Holds, AtStage, InSight, WithDrivers, Up, SeesTheCd, Installing, Removing
<1>6. /\ vm' = [vm EXCEPT !.msi = "installing", !.off = "after msi"] /\ todo' = Tail(todo)
      /\ raised' = raised /\ retries' = retries /\ vanished' = vanished
  BY <1>1, <1>2, <1>5 DEF Proceed, history
<1>7. /\ vm'.power = vm.power
      /\ vm'.off = "after msi"
      /\ vm'.ssh = vm.ssh
      /\ vm'.cd = vm.cd
      /\ vm'.drive = vm.drive
      /\ vm'.secureboot = vm.secureboot
      /\ vm'.vendor = vm.vendor
      /\ vm'.package = vm.package
      /\ vm'.msi = "installing"
      /\ vm'.tools = vm.tools
  BY <1>2, <1>6 DEF Vms
<1> DEFINE c == Then(a, "install-drivers.ps1 &")
<1>8. /\ c.stage = "going"
      /\ c.cd = a.cd
      /\ c.sight = IF a.sight = "seen" THEN "any" ELSE a.sight
      /\ c.package = a.package
      /\ c.drivers = "in"
  BY <1>4 DEF Then, Needs, GivesShutdown, Installing, Removing, Mark
<1> HIDE DEF c
<1>9. Holds(c)'
  <2>0. a.stage \in {"up"}
    BY <1>4 DEF Needs, Installing, Removing
  <2>1. AtStage(c)'
    BY <2>0, <1>2, <1>3, <1>7, <1>8 DEF Holds, AtStage, Up
  <2>2. InSight(c)'
    BY <1>2, <1>3, <1>4, <1>6, <1>7, <1>8 DEF Holds, AtStage, InSight, Up, Needs, Installing, Removing
  <2>3. (c.cd = "in" => vm'.cd) /\ (c.cd = "out" => ~vm'.cd) /\ (c.package => vm'.package)
    BY <1>3, <1>7, <1>8 DEF Holds
  <2>4. WithDrivers(c, "in", "installing", "installed", "active")'
    BY <1>2, <1>3, <1>4, <1>7, <1>8 DEF Holds, AtStage, WithDrivers, Up, Needs, Installing, Removing
  <2>5. WithDrivers(c, "out", "removing", "removed", "gone")'
    BY <1>2, <1>3, <1>4, <1>7, <1>8 DEF Holds, AtStage, WithDrivers, Up, Needs, Installing, Removing
  <2> QED BY <2>1, <2>2, <2>3, <2>4, <2>5 DEF Holds
<1>10. c \in Mark /\ Outline(todo', c, b)
  BY <1>3, <1>6 DEF c
<1> QED BY <1>1, <1>2, <1>3, <1>6, <1>7, <1>9, <1>10, Goes1

LEMMA CalmUninstall == ASSUME IInv, Smooth, Calm', Background("msiexec /x &", Up, "removing") PROVE Smooth'
<1>1. /\ todo # <<>> /\ Head(todo) = "msiexec /x &" /\ phase' = phase /\ snapshot' = snapshot
      /\ \/ (Up) /\ vm' = [vm EXCEPT !.msi = "removing", !.off = "after msi"] /\ Proceed /\ UNCHANGED history
         \/ ~(Up) /\ Raise /\ vm' = vm /\ UNCHANGED history
         \/ (Up) /\ Raise /\ vm' = vm /\ Trouble
  BY DEF Background, Try, Doing, Step
<1>2. /\ Calm /\ UNCHANGED history /\ ~Trouble /\ ~raised /\ vanished \in Nat /\ vanished <= 1
      /\ vm.drive \/ vanished = 1
      /\ TestSign => ~vm.secureboot
      /\ vm \in Vms /\ (vm.power = "halted" => ~vm.ssh) /\ (vm.msi # "none" => vm.power = "running")
  BY <1>1, Known
<1>3. PICK a \in Mark, b \in Mark :
        /\ Holds(a) /\ Goes("msiexec /x &", a, Then(a, "msiexec /x &")) /\ Then(a, "msiexec /x &") \in Mark
        /\ Outline(Tail(todo), Then(a, "msiexec /x &"), b)
        /\ phase = "setup" => b.stage = "up"
  BY <1>1, Known
<1>4. Needs(a, "msiexec /x &")
  BY <1>3 DEF Goes
<1>5. Up
  BY <1>2, <1>3, <1>4 DEF Needs, Holds, AtStage, InSight, WithDrivers, Up, SeesTheCd, Installing, Removing
<1>6. /\ vm' = [vm EXCEPT !.msi = "removing", !.off = "after msi"] /\ todo' = Tail(todo)
      /\ raised' = raised /\ retries' = retries /\ vanished' = vanished
  BY <1>1, <1>2, <1>5 DEF Proceed, history
<1>7. /\ vm'.power = vm.power
      /\ vm'.off = "after msi"
      /\ vm'.ssh = vm.ssh
      /\ vm'.cd = vm.cd
      /\ vm'.drive = vm.drive
      /\ vm'.secureboot = vm.secureboot
      /\ vm'.vendor = vm.vendor
      /\ vm'.package = vm.package
      /\ vm'.msi = "removing"
      /\ vm'.tools = vm.tools
  BY <1>2, <1>6 DEF Vms
<1> DEFINE c == Then(a, "msiexec /x &")
<1>8. /\ c.stage = "going"
      /\ c.cd = a.cd
      /\ c.sight = IF a.sight = "seen" THEN "any" ELSE a.sight
      /\ c.package = a.package
      /\ c.drivers = "out"
  BY <1>4 DEF Then, Needs, GivesShutdown, Installing, Removing, Mark
<1> HIDE DEF c
<1>9. Holds(c)'
  <2>0. a.stage \in {"up"}
    BY <1>4 DEF Needs, Installing, Removing
  <2>1. AtStage(c)'
    BY <2>0, <1>2, <1>3, <1>7, <1>8 DEF Holds, AtStage, Up
  <2>2. InSight(c)'
    BY <1>2, <1>3, <1>4, <1>6, <1>7, <1>8 DEF Holds, AtStage, InSight, Up, Needs, Installing, Removing
  <2>3. (c.cd = "in" => vm'.cd) /\ (c.cd = "out" => ~vm'.cd) /\ (c.package => vm'.package)
    BY <1>3, <1>7, <1>8 DEF Holds
  <2>4. WithDrivers(c, "in", "installing", "installed", "active")'
    BY <1>2, <1>3, <1>4, <1>7, <1>8 DEF Holds, AtStage, WithDrivers, Up, Needs, Installing, Removing
  <2>5. WithDrivers(c, "out", "removing", "removed", "gone")'
    BY <1>2, <1>3, <1>4, <1>7, <1>8 DEF Holds, AtStage, WithDrivers, Up, Needs, Installing, Removing
  <2> QED BY <2>1, <2>2, <2>3, <2>4, <2>5 DEF Holds
<1>10. c \in Mark /\ Outline(todo', c, b)
  BY <1>3, <1>6 DEF c
<1> QED BY <1>1, <1>2, <1>3, <1>6, <1>7, <1>9, <1>10, Goes1

LEMMA CalmXenclean == ASSUME IInv, Smooth, Calm', Background("XenClean &", SeesTheCd, "removing") PROVE Smooth'
<1>1. /\ todo # <<>> /\ Head(todo) = "XenClean &" /\ phase' = phase /\ snapshot' = snapshot
      /\ \/ (SeesTheCd) /\ vm' = [vm EXCEPT !.msi = "removing", !.off = "after msi"] /\ Proceed /\ UNCHANGED history
         \/ ~(SeesTheCd) /\ Raise /\ vm' = vm /\ UNCHANGED history
         \/ (SeesTheCd) /\ Raise /\ vm' = vm /\ Trouble
  BY DEF Background, Try, Doing, Step
<1>2. /\ Calm /\ UNCHANGED history /\ ~Trouble /\ ~raised /\ vanished \in Nat /\ vanished <= 1
      /\ vm.drive \/ vanished = 1
      /\ TestSign => ~vm.secureboot
      /\ vm \in Vms /\ (vm.power = "halted" => ~vm.ssh) /\ (vm.msi # "none" => vm.power = "running")
  BY <1>1, Known
<1>3. PICK a \in Mark, b \in Mark :
        /\ Holds(a) /\ Goes("XenClean &", a, Then(a, "XenClean &")) /\ Then(a, "XenClean &") \in Mark
        /\ Outline(Tail(todo), Then(a, "XenClean &"), b)
        /\ phase = "setup" => b.stage = "up"
  BY <1>1, Known
<1>4. Needs(a, "XenClean &")
  BY <1>3 DEF Goes
<1>5. SeesTheCd
  BY <1>2, <1>3, <1>4 DEF Needs, Holds, AtStage, InSight, WithDrivers, Up, SeesTheCd, Installing, Removing
<1>6. /\ vm' = [vm EXCEPT !.msi = "removing", !.off = "after msi"] /\ todo' = Tail(todo)
      /\ raised' = raised /\ retries' = retries /\ vanished' = vanished
  BY <1>1, <1>2, <1>5 DEF Proceed, history
<1>7. /\ vm'.power = vm.power
      /\ vm'.off = "after msi"
      /\ vm'.ssh = vm.ssh
      /\ vm'.cd = vm.cd
      /\ vm'.drive = vm.drive
      /\ vm'.secureboot = vm.secureboot
      /\ vm'.vendor = vm.vendor
      /\ vm'.package = vm.package
      /\ vm'.msi = "removing"
      /\ vm'.tools = vm.tools
  BY <1>2, <1>6 DEF Vms
<1> DEFINE c == Then(a, "XenClean &")
<1>8. /\ c.stage = "going"
      /\ c.cd = a.cd
      /\ c.sight = IF a.sight = "seen" THEN "any" ELSE a.sight
      /\ c.package = a.package
      /\ c.drivers = "out"
  BY <1>4 DEF Then, Needs, GivesShutdown, Installing, Removing, Mark
<1> HIDE DEF c
<1>9. Holds(c)'
  <2>0. a.stage \in {"up"}
    BY <1>4 DEF Needs, Installing, Removing
  <2>1. AtStage(c)'
    BY <2>0, <1>2, <1>3, <1>7, <1>8 DEF Holds, AtStage, Up
  <2>2. InSight(c)'
    BY <1>2, <1>3, <1>4, <1>6, <1>7, <1>8 DEF Holds, AtStage, InSight, Up, Needs, Installing, Removing
  <2>3. (c.cd = "in" => vm'.cd) /\ (c.cd = "out" => ~vm'.cd) /\ (c.package => vm'.package)
    BY <1>3, <1>7, <1>8 DEF Holds
  <2>4. WithDrivers(c, "in", "installing", "installed", "active")'
    BY <1>2, <1>3, <1>4, <1>7, <1>8 DEF Holds, AtStage, WithDrivers, Up, Needs, Installing, Removing
  <2>5. WithDrivers(c, "out", "removing", "removed", "gone")'
    BY <1>2, <1>3, <1>4, <1>7, <1>8 DEF Holds, AtStage, WithDrivers, Up, Needs, Installing, Removing
  <2> QED BY <2>1, <2>2, <2>3, <2>4, <2>5 DEF Holds
<1>10. c \in Mark /\ Outline(todo', c, b)
  BY <1>3, <1>6 DEF c
<1> QED BY <1>1, <1>2, <1>3, <1>6, <1>7, <1>9, <1>10, Goes1

LEMMA CalmShutdown == ASSUME IInv, Smooth, Calm', Try("shutdown.exe", Up, [vm EXCEPT !.off = "given"]) PROVE Smooth'
<1>1. /\ todo # <<>> /\ Head(todo) = "shutdown.exe" /\ phase' = phase /\ snapshot' = snapshot
      /\ \/ (Up) /\ vm' = [vm EXCEPT !.off = "given"] /\ Proceed /\ UNCHANGED history
         \/ ~(Up) /\ Raise /\ vm' = vm /\ UNCHANGED history
         \/ (Up) /\ Raise /\ vm' = vm /\ Trouble
  BY DEF Try, Doing, Step
<1>2. /\ Calm /\ UNCHANGED history /\ ~Trouble /\ ~raised /\ vanished \in Nat /\ vanished <= 1
      /\ vm.drive \/ vanished = 1
      /\ TestSign => ~vm.secureboot
      /\ vm \in Vms /\ (vm.power = "halted" => ~vm.ssh) /\ (vm.msi # "none" => vm.power = "running")
  BY <1>1, Known
<1>3. PICK a \in Mark, b \in Mark :
        /\ Holds(a) /\ Goes("shutdown.exe", a, Then(a, "shutdown.exe")) /\ Then(a, "shutdown.exe") \in Mark
        /\ Outline(Tail(todo), Then(a, "shutdown.exe"), b)
        /\ phase = "setup" => b.stage = "up"
  BY <1>1, Known
<1>4. Needs(a, "shutdown.exe")
  BY <1>3 DEF Goes
<1>5. Up
  BY <1>2, <1>3, <1>4 DEF Needs, Holds, AtStage, InSight, WithDrivers, Up, SeesTheCd, Installing, Removing
<1>6. /\ vm' = [vm EXCEPT !.off = "given"] /\ todo' = Tail(todo)
      /\ raised' = raised /\ retries' = retries /\ vanished' = vanished
  BY <1>1, <1>2, <1>5 DEF Proceed, history
<1>7. /\ vm'.power = vm.power
      /\ vm'.off = "given"
      /\ vm'.ssh = vm.ssh
      /\ vm'.cd = vm.cd
      /\ vm'.drive = vm.drive
      /\ vm'.secureboot = vm.secureboot
      /\ vm'.vendor = vm.vendor
      /\ vm'.package = vm.package
      /\ vm'.msi = vm.msi
      /\ vm'.tools = vm.tools
  BY <1>2, <1>6 DEF Vms
<1> DEFINE c == Then(a, "shutdown.exe")
<1>8. /\ c.stage = "going"
      /\ c.cd = a.cd
      /\ c.sight = IF a.sight = "seen" THEN "any" ELSE a.sight
      /\ c.package = a.package
      /\ c.drivers = "any"
  BY <1>4 DEF Then, Needs, GivesShutdown, Installing, Removing, Mark
<1> HIDE DEF c
<1>9. Holds(c)'
  <2>0. a.stage \in {"up"}
    BY <1>4 DEF Needs, Installing, Removing
  <2>1. AtStage(c)'
    BY <2>0, <1>2, <1>3, <1>7, <1>8 DEF Holds, AtStage, Up
  <2>2. InSight(c)'
    BY <1>2, <1>3, <1>4, <1>6, <1>7, <1>8 DEF Holds, AtStage, InSight, Up, Needs, Installing, Removing
  <2>3. (c.cd = "in" => vm'.cd) /\ (c.cd = "out" => ~vm'.cd) /\ (c.package => vm'.package)
    BY <1>3, <1>7, <1>8 DEF Holds
  <2>4. WithDrivers(c, "in", "installing", "installed", "active")'
    BY <1>2, <1>3, <1>4, <1>7, <1>8 DEF Holds, AtStage, WithDrivers, Up, Needs, Installing, Removing
  <2>5. WithDrivers(c, "out", "removing", "removed", "gone")'
    BY <1>2, <1>3, <1>4, <1>7, <1>8 DEF Holds, AtStage, WithDrivers, Up, Needs, Installing, Removing
  <2> QED BY <2>1, <2>2, <2>3, <2>4, <2>5 DEF Holds
<1>10. c \in Mark /\ Outline(todo', c, b)
  BY <1>3, <1>6 DEF c
<1> QED BY <1>1, <1>2, <1>3, <1>6, <1>7, <1>9, <1>10, Goes1

LEMMA CalmVendor == ASSUME IInv, Smooth, Calm', Try("vendor device", ~vm.vendor, [vm EXCEPT !.vendor = TRUE]) PROVE Smooth'
<1>1. /\ todo # <<>> /\ Head(todo) = "vendor device" /\ phase' = phase /\ snapshot' = snapshot
      /\ \/ (~vm.vendor) /\ vm' = [vm EXCEPT !.vendor = TRUE] /\ Proceed /\ UNCHANGED history
         \/ ~(~vm.vendor) /\ Raise /\ vm' = vm /\ UNCHANGED history
         \/ (~vm.vendor) /\ Raise /\ vm' = vm /\ Trouble
  BY DEF Try, Doing, Step
<1>2. /\ Calm /\ UNCHANGED history /\ ~Trouble /\ ~raised /\ vanished \in Nat /\ vanished <= 1
      /\ vm.drive \/ vanished = 1
      /\ TestSign => ~vm.secureboot
      /\ vm \in Vms /\ (vm.power = "halted" => ~vm.ssh) /\ (vm.msi # "none" => vm.power = "running")
  BY <1>1, Known
<1>3. PICK a \in Mark, b \in Mark :
        /\ Holds(a) /\ Goes("vendor device", a, Then(a, "vendor device")) /\ Then(a, "vendor device") \in Mark
        /\ Outline(Tail(todo), Then(a, "vendor device"), b)
        /\ phase = "setup" => b.stage = "up"
  BY <1>1, Known
<1>4. Needs(a, "vendor device")
  BY <1>3 DEF Goes
<1>5. ~vm.vendor
  BY <1>2, <1>3, <1>4 DEF Needs, Holds, AtStage, InSight, WithDrivers, Up, SeesTheCd, Installing, Removing
<1>6. /\ vm' = [vm EXCEPT !.vendor = TRUE] /\ todo' = Tail(todo)
      /\ raised' = raised /\ retries' = retries /\ vanished' = vanished
  BY <1>1, <1>2, <1>5 DEF Proceed, history
<1>7. /\ vm'.power = vm.power
      /\ vm'.off = vm.off
      /\ vm'.ssh = vm.ssh
      /\ vm'.cd = vm.cd
      /\ vm'.drive = vm.drive
      /\ vm'.secureboot = vm.secureboot
      /\ vm'.vendor = TRUE
      /\ vm'.package = vm.package
      /\ vm'.msi = vm.msi
      /\ vm'.tools = vm.tools
  BY <1>2, <1>6 DEF Vms
<1> DEFINE c == Then(a, "vendor device")
<1>8. /\ c.stage = "halted"
      /\ c.cd = a.cd
      /\ c.sight = a.sight
      /\ c.package = a.package
      /\ c.drivers = a.drivers
  BY <1>4 DEF Then, Needs, GivesShutdown, Installing, Removing, Mark
<1> HIDE DEF c
<1>9. Holds(c)'
  <2>0. a.stage \in {"new"}
    BY <1>4 DEF Needs, Installing, Removing
  <2>1. AtStage(c)'
    BY <2>0, <1>2, <1>3, <1>7, <1>8 DEF Holds, AtStage, Up
  <2>2. InSight(c)'
    BY <1>2, <1>3, <1>4, <1>6, <1>7, <1>8 DEF Holds, AtStage, InSight, Up, Needs, Installing, Removing
  <2>3. (c.cd = "in" => vm'.cd) /\ (c.cd = "out" => ~vm'.cd) /\ (c.package => vm'.package)
    BY <1>3, <1>7, <1>8 DEF Holds
  <2>4. WithDrivers(c, "in", "installing", "installed", "active")'
    BY <1>2, <1>3, <1>4, <1>7, <1>8 DEF Holds, AtStage, WithDrivers, Up, Needs, Installing, Removing
  <2>5. WithDrivers(c, "out", "removing", "removed", "gone")'
    BY <1>2, <1>3, <1>4, <1>7, <1>8 DEF Holds, AtStage, WithDrivers, Up, Needs, Installing, Removing
  <2> QED BY <2>1, <2>2, <2>3, <2>4, <2>5 DEF Holds
<1>10. c \in Mark /\ Outline(todo', c, b)
  BY <1>3, <1>6 DEF c
<1> QED BY <1>1, <1>2, <1>3, <1>6, <1>7, <1>9, <1>10, Goes1

LEMMA CalmRunning == ASSUME IInv, Smooth, Calm', Running PROVE Smooth'
<1>1. /\ todo # <<>> /\ Head(todo) = "running?" /\ phase' = phase /\ snapshot' = snapshot /\ vm' = vm
      /\ \/ (vm.power = "running") /\ Proceed /\ UNCHANGED history
         \/ (vm.power # "running") /\ Raise /\ UNCHANGED history
         \/ Raise /\ Trouble
  BY DEF Running, Await, Doing, Step
<1>2. /\ Calm /\ UNCHANGED history /\ ~Trouble /\ ~raised /\ vanished \in Nat /\ vanished <= 1
      /\ vm.drive \/ vanished = 1
      /\ TestSign => ~vm.secureboot
      /\ vm \in Vms /\ (vm.power = "halted" => ~vm.ssh) /\ (vm.msi # "none" => vm.power = "running")
  BY <1>1, Known
<1>3. PICK a \in Mark, b \in Mark :
        /\ Holds(a) /\ Goes("running?", a, Then(a, "running?")) /\ Then(a, "running?") \in Mark
        /\ Outline(Tail(todo), Then(a, "running?"), b)
        /\ phase = "setup" => b.stage = "up"
  BY <1>1, Known
<1>4. Needs(a, "running?")
  BY <1>3 DEF Goes
<1>5. ~(vm.power # "running")
  BY <1>2, <1>3, <1>4 DEF Needs, Holds, AtStage, Up
<1>6. (vm.power = "running") /\ todo' = Tail(todo)
      /\ raised' = raised /\ retries' = retries /\ vanished' = vanished
  BY <1>1, <1>2, <1>5 DEF Proceed, history
<1>7. vm' = vm
  BY <1>1
<1> DEFINE c == Then(a, "running?")
<1>8. /\ c.stage = a.stage
      /\ c.cd = a.cd
      /\ c.sight = a.sight
      /\ c.package = a.package
      /\ c.drivers = a.drivers
  BY <1>4 DEF Then, Needs, GivesShutdown, Installing, Removing, Mark
<1> HIDE DEF c
<1>9. Holds(c)'
  <2>0. a.stage \in {"started", "up"}
    BY <1>4 DEF Needs, Installing, Removing
  <2>1. AtStage(c)'
    BY <2>0, <1>2, <1>3, <1>6, <1>7, <1>8 DEF Holds, AtStage, Up
  <2>2. InSight(c)'
    BY <1>2, <1>3, <1>4, <1>6, <1>7, <1>8 DEF Holds, AtStage, InSight, Up, Needs, Installing, Removing
  <2>3. (c.cd = "in" => vm'.cd) /\ (c.cd = "out" => ~vm'.cd) /\ (c.package => vm'.package)
    BY <1>3, <1>7, <1>8 DEF Holds
  <2>4. WithDrivers(c, "in", "installing", "installed", "active")'
    BY <2>0, <1>2, <1>3, <1>6, <1>7, <1>8 DEF Holds, AtStage, WithDrivers, Up, Needs, Installing, Removing
  <2>5. WithDrivers(c, "out", "removing", "removed", "gone")'
    BY <2>0, <1>2, <1>3, <1>6, <1>7, <1>8 DEF Holds, AtStage, WithDrivers, Up, Needs, Installing, Removing
  <2> QED BY <2>1, <2>2, <2>3, <2>4, <2>5 DEF Holds
<1>10. c \in Mark /\ Outline(todo', c, b)
  BY <1>3, <1>6 DEF c
<1> QED BY <1>1, <1>2, <1>3, <1>6, <1>7, <1>9, <1>10, Goes1

LEMMA CalmSshUp == ASSUME IInv, Smooth, Calm', SshUp PROVE Smooth'
<1>1. /\ todo # <<>> /\ Head(todo) = "ssh?" /\ phase' = phase /\ snapshot' = snapshot /\ vm' = vm
      /\ \/ (Up) /\ Proceed /\ UNCHANGED history
         \/ (vm.power # "running") /\ Raise /\ UNCHANGED history
         \/ Raise /\ Trouble
  BY DEF SshUp, Await, Doing, Step
<1>2. /\ Calm /\ UNCHANGED history /\ ~Trouble /\ ~raised /\ vanished \in Nat /\ vanished <= 1
      /\ vm.drive \/ vanished = 1
      /\ TestSign => ~vm.secureboot
      /\ vm \in Vms /\ (vm.power = "halted" => ~vm.ssh) /\ (vm.msi # "none" => vm.power = "running")
  BY <1>1, Known
<1>3. PICK a \in Mark, b \in Mark :
        /\ Holds(a) /\ Goes("ssh?", a, Then(a, "ssh?")) /\ Then(a, "ssh?") \in Mark
        /\ Outline(Tail(todo), Then(a, "ssh?"), b)
        /\ phase = "setup" => b.stage = "up"
  BY <1>1, Known
<1>4. Needs(a, "ssh?")
  BY <1>3 DEF Goes
<1>5. ~(vm.power # "running")
  BY <1>2, <1>3, <1>4 DEF Needs, Holds, AtStage, Up
<1>6. (Up) /\ todo' = Tail(todo)
      /\ raised' = raised /\ retries' = retries /\ vanished' = vanished
  BY <1>1, <1>2, <1>5 DEF Proceed, history
<1>7. vm' = vm
  BY <1>1
<1> DEFINE c == Then(a, "ssh?")
<1>8. /\ c.stage = "up"
      /\ c.cd = a.cd
      /\ c.sight = a.sight
      /\ c.package = a.package
      /\ c.drivers = a.drivers
  BY <1>4 DEF Then, Needs, GivesShutdown, Installing, Removing, Mark
<1> HIDE DEF c
<1>9. Holds(c)'
  <2>0. a.stage \in {"started", "up"}
    BY <1>4 DEF Needs, Installing, Removing
  <2>1. AtStage(c)'
    BY <2>0, <1>2, <1>3, <1>6, <1>7, <1>8 DEF Holds, AtStage, Up
  <2>2. InSight(c)'
    BY <1>2, <1>3, <1>4, <1>6, <1>7, <1>8 DEF Holds, AtStage, InSight, Up, Needs, Installing, Removing
  <2>3. (c.cd = "in" => vm'.cd) /\ (c.cd = "out" => ~vm'.cd) /\ (c.package => vm'.package)
    BY <1>3, <1>7, <1>8 DEF Holds
  <2>4. WithDrivers(c, "in", "installing", "installed", "active")'
    BY <2>0, <1>2, <1>3, <1>6, <1>7, <1>8 DEF Holds, AtStage, WithDrivers, Up, Needs, Installing, Removing
  <2>5. WithDrivers(c, "out", "removing", "removed", "gone")'
    BY <2>0, <1>2, <1>3, <1>6, <1>7, <1>8 DEF Holds, AtStage, WithDrivers, Up, Needs, Installing, Removing
  <2> QED BY <2>1, <2>2, <2>3, <2>4, <2>5 DEF Holds
<1>10. c \in Mark /\ Outline(todo', c, b)
  BY <1>3, <1>6 DEF c
<1> QED BY <1>1, <1>2, <1>3, <1>6, <1>7, <1>9, <1>10, Goes1

LEMMA CalmHalted == ASSUME IInv, Smooth, Calm', HaltedNow PROVE Smooth'
<1>1. /\ todo # <<>> /\ Head(todo) = "halted?" /\ phase' = phase /\ snapshot' = snapshot /\ vm' = vm
      /\ \/ (vm.power = "halted") /\ Proceed /\ UNCHANGED history
         \/ (vm.power # "halted" /\ vm.off = "no") /\ Raise /\ UNCHANGED history
         \/ Raise /\ Trouble
  BY DEF HaltedNow, Await, Doing, Step
<1>2. /\ Calm /\ UNCHANGED history /\ ~Trouble /\ ~raised /\ vanished \in Nat /\ vanished <= 1
      /\ vm.drive \/ vanished = 1
      /\ TestSign => ~vm.secureboot
      /\ vm \in Vms /\ (vm.power = "halted" => ~vm.ssh) /\ (vm.msi # "none" => vm.power = "running")
  BY <1>1, Known
<1>3. PICK a \in Mark, b \in Mark :
        /\ Holds(a) /\ Goes("halted?", a, Then(a, "halted?")) /\ Then(a, "halted?") \in Mark
        /\ Outline(Tail(todo), Then(a, "halted?"), b)
        /\ phase = "setup" => b.stage = "up"
  BY <1>1, Known
<1>4. Needs(a, "halted?")
  BY <1>3 DEF Goes
<1>5. ~(vm.power # "halted" /\ vm.off = "no")
  BY <1>2, <1>3, <1>4 DEF Needs, Holds, AtStage, Up
<1>6. (vm.power = "halted") /\ todo' = Tail(todo)
      /\ raised' = raised /\ retries' = retries /\ vanished' = vanished
  BY <1>1, <1>2, <1>5 DEF Proceed, history
<1>7. vm' = vm
  BY <1>1
<1> DEFINE c == Then(a, "halted?")
<1>8. /\ c.stage = "halted"
      /\ c.cd = a.cd
      /\ c.sight = IF a.sight = "lost" THEN "sure" ELSE a.sight
      /\ c.package = a.package
      /\ c.drivers = a.drivers
  BY <1>4 DEF Then, Needs, GivesShutdown, Installing, Removing, Mark
<1> HIDE DEF c
<1>9. Holds(c)'
  <2>0. a.stage \in {"going"}
    BY <1>4 DEF Needs, Installing, Removing
  <2>1. AtStage(c)'
    BY <2>0, <1>2, <1>3, <1>6, <1>7, <1>8 DEF Holds, AtStage, Up
  <2>2. InSight(c)'
    BY <1>2, <1>3, <1>4, <1>6, <1>7, <1>8 DEF Holds, AtStage, InSight, Up, Needs, Installing, Removing
  <2>3. (c.cd = "in" => vm'.cd) /\ (c.cd = "out" => ~vm'.cd) /\ (c.package => vm'.package)
    BY <1>3, <1>7, <1>8 DEF Holds
  <2>4. WithDrivers(c, "in", "installing", "installed", "active")'
    BY <2>0, <1>2, <1>3, <1>6, <1>7, <1>8 DEF Holds, AtStage, WithDrivers, Up, Needs, Installing, Removing
  <2>5. WithDrivers(c, "out", "removing", "removed", "gone")'
    BY <2>0, <1>2, <1>3, <1>6, <1>7, <1>8 DEF Holds, AtStage, WithDrivers, Up, Needs, Installing, Removing
  <2> QED BY <2>1, <2>2, <2>3, <2>4, <2>5 DEF Holds
<1>10. c \in Mark /\ Outline(todo', c, b)
  BY <1>3, <1>6 DEF c
<1> QED BY <1>1, <1>2, <1>3, <1>6, <1>7, <1>9, <1>10, Goes1

LEMMA CalmOffboarded == ASSUME IInv, Smooth, Calm', Offboarded PROVE Smooth'
<1>1. /\ todo # <<>> /\ Head(todo) = "offboarded?" /\ phase' = phase /\ snapshot' = snapshot /\ vm' = vm
      /\ \/ (Up /\ vm.offboarded) /\ Proceed /\ UNCHANGED history
         \/ (~Up) /\ Raise /\ UNCHANGED history
         \/ Raise /\ Trouble
  BY DEF Offboarded, Await, Doing, Step
<1>2. /\ Calm /\ UNCHANGED history /\ ~Trouble /\ ~raised /\ vanished \in Nat /\ vanished <= 1
      /\ vm.drive \/ vanished = 1
      /\ TestSign => ~vm.secureboot
      /\ vm \in Vms /\ (vm.power = "halted" => ~vm.ssh) /\ (vm.msi # "none" => vm.power = "running")
  BY <1>1, Known
<1>3. PICK a \in Mark, b \in Mark :
        /\ Holds(a) /\ Goes("offboarded?", a, Then(a, "offboarded?")) /\ Then(a, "offboarded?") \in Mark
        /\ Outline(Tail(todo), Then(a, "offboarded?"), b)
        /\ phase = "setup" => b.stage = "up"
  BY <1>1, Known
<1>4. Needs(a, "offboarded?")
  BY <1>3 DEF Goes
<1>5. ~(~Up)
  BY <1>2, <1>3, <1>4 DEF Needs, Holds, AtStage, Up
<1>6. (Up /\ vm.offboarded) /\ todo' = Tail(todo)
      /\ raised' = raised /\ retries' = retries /\ vanished' = vanished
  BY <1>1, <1>2, <1>5 DEF Proceed, history
<1>7. vm' = vm
  BY <1>1
<1> DEFINE c == Then(a, "offboarded?")
<1>8. /\ c.stage = a.stage
      /\ c.cd = a.cd
      /\ c.sight = a.sight
      /\ c.package = a.package
      /\ c.drivers = a.drivers
  BY <1>4 DEF Then, Needs, GivesShutdown, Installing, Removing, Mark
<1> HIDE DEF c
<1>9. Holds(c)'
  <2>0. a.stage \in {"up"}
    BY <1>4 DEF Needs, Installing, Removing
  <2>1. AtStage(c)'
    BY <2>0, <1>2, <1>3, <1>6, <1>7, <1>8 DEF Holds, AtStage, Up
  <2>2. InSight(c)'
    BY <1>2, <1>3, <1>4, <1>6, <1>7, <1>8 DEF Holds, AtStage, InSight, Up, Needs, Installing, Removing
  <2>3. (c.cd = "in" => vm'.cd) /\ (c.cd = "out" => ~vm'.cd) /\ (c.package => vm'.package)
    BY <1>3, <1>7, <1>8 DEF Holds
  <2>4. WithDrivers(c, "in", "installing", "installed", "active")'
    BY <2>0, <1>2, <1>3, <1>6, <1>7, <1>8 DEF Holds, AtStage, WithDrivers, Up, Needs, Installing, Removing
  <2>5. WithDrivers(c, "out", "removing", "removed", "gone")'
    BY <2>0, <1>2, <1>3, <1>6, <1>7, <1>8 DEF Holds, AtStage, WithDrivers, Up, Needs, Installing, Removing
  <2> QED BY <2>1, <2>2, <2>3, <2>4, <2>5 DEF Holds
<1>10. c \in Mark /\ Outline(todo', c, b)
  BY <1>3, <1>6 DEF c
<1> QED BY <1>1, <1>2, <1>3, <1>6, <1>7, <1>9, <1>10, Goes1

\* Those of a program that has no outline.
LEMMA CalmRaisers ==
    ASSUME IInv, Smooth, Calm', SecureBootOff \/ TimeoutError
    PROVE  Smooth'
<1>1. /\ todo # <<>> /\ Head(todo) \in {"secureboot off", "TimeoutError"}
      /\ phase' = phase /\ snapshot' = snapshot /\ (UNCHANGED history \/ Trouble)
  BY DEF SecureBootOff, TimeoutError, Try, Doing, Step
<1>2. PICK a \in Mark : Goes(Head(todo), a, Then(a, Head(todo)))
  BY <1>1, Known
<1> QED BY <1>1, <1>2 DEF Goes, Needs

\* A statement that only chooses what runs next.
LEMMA Chooses ==
    ASSUME IInv, Smooth, Calm', todo # <<>>, phase' = phase, snapshot' = snapshot,
           vm' = vm, raised' = raised, UNCHANGED history
    PROVE  /\ Calm /\ ~raised /\ ~raised' /\ vanished' = vanished /\ vanished \in Nat /\ vanished <= 1
           /\ vm.drive \/ vanished = 1
           /\ TestSign => ~vm.secureboot
           /\ vm \in Vms /\ (vm.power = "halted" => ~vm.ssh)
           /\ todo \in Programs /\ Tail(todo) \in Seq(Statements)
           /\ \E a, b \in Mark :
                /\ Holds(a) /\ Goes(Head(todo), a, Then(a, Head(todo)))
                /\ Then(a, Head(todo)) \in Mark
                /\ Outline(Tail(todo), Then(a, Head(todo)), b)
                /\ phase = "setup" => b.stage = "up"
                /\ \A c \in Mark : Holds(c)' /\ Outline(todo', c, b) => Smooth'
<1>1. todo \in Programs /\ Tail(todo) \in Seq(Statements)
  BY Tails DEF IInv, Shape
<1>2. /\ Calm /\ ~raised /\ vanished \in Nat /\ vanished <= 1
      /\ vm.drive \/ vanished = 1
      /\ TestSign => ~vm.secureboot
      /\ vm \in Vms /\ (vm.power = "halted" => ~vm.ssh)
  BY Known
<1>3. PICK a \in Mark, b \in Mark :
        /\ Holds(a) /\ Goes(Head(todo), a, Then(a, Head(todo)))
        /\ Then(a, Head(todo)) \in Mark
        /\ Outline(Tail(todo), Then(a, Head(todo)), b)
        /\ phase = "setup" => b.stage = "up"
  BY Known
<1>4. vanished' = vanished
  BY DEF history
<1>5. \A c \in Mark : Holds(c)' /\ Outline(todo', c, b) => Smooth'
  BY <1>2, <1>3, <1>4, Goes1
<1>6. \E c, d \in Mark :
        /\ Holds(c) /\ Goes(Head(todo), c, Then(c, Head(todo)))
        /\ Then(c, Head(todo)) \in Mark
        /\ Outline(Tail(todo), Then(c, Head(todo)), d)
        /\ phase = "setup" => d.stage = "up"
        /\ \A e \in Mark : Holds(e)' /\ Outline(todo', e, d) => Smooth'
  BY <1>3, <1>5, Zenon
<1> QED BY <1>1, <1>2, <1>4, <1>6, Zenon

LEMMA CalmStartIfOff == ASSUME IInv, Smooth, Calm', StartIfOff PROVE Smooth'
<1>1. /\ todo # <<>> /\ Head(todo) = "start if off" /\ phase' = phase /\ snapshot' = snapshot
      /\ vm' = vm /\ raised' = raised /\ retries' = retries /\ UNCHANGED history
      /\ todo' = IF vm.power = "running" THEN Tail(todo) ELSE <<"vm-start">> \o Tail(todo)
  BY DEF StartIfOff, Goto, Doing, Step
<1>2. /\ vanished' = vanished /\ vm \in Vms /\ Tail(todo) \in Seq(Statements)
  BY <1>1, Chooses
<1>3. PICK a \in Mark, b \in Mark :
        /\ Holds(a) /\ Goes("start if off", a, Then(a, "start if off")) /\ Then(a, "start if off") \in Mark
        /\ Outline(Tail(todo), Then(a, "start if off"), b)
        /\ \A c \in Mark : Holds(c)' /\ Outline(todo', c, b) => Smooth'
  BY <1>1, Chooses
<1>4. Needs(a, "start if off")
  BY <1>3 DEF Goes
<1>5. Holds(a)'
  BY <1>1, <1>2, <1>3, SameHolds
<1>6. a.stage \in {"halted", "up"} /\ a.sight \in {"again", "sure"}
  BY <1>4 DEF Needs
<1> DEFINE c == Then(a, "start if off")
<1>7. c.stage = "started" /\ c.cd = a.cd /\ c.sight = a.sight /\ c.package = a.package /\ c.drivers = a.drivers
  BY DEF Then, Mark, GivesShutdown, Installing, Removing
<1>8. CASE vm.power = "running"
  <2>1. a.stage = "up"
    BY <1>3, <1>6, <1>8 DEF Holds, AtStage
  <2> HIDE DEF c
  <2>2. Holds(c)'
    BY <1>5, <1>6, <1>7, <2>1 DEF Holds, AtStage, InSight, WithDrivers, Up
  <2> QED BY <1>1, <1>3, <1>8, <2>2 DEF c
<1>9. CASE vm.power # "running"
  <2>1. a.stage = "halted"
    BY <1>3, <1>6, <1>9 DEF Holds, AtStage, Up
  <2>2. Then(a, "vm-start") = c
    BY DEF Then, GivesShutdown, Installing, Removing
  <2>3. Goes("vm-start", a, c)
    BY <2>1, <2>2, <1>3 DEF Goes, Needs, Statements, Installing, Removing
  <2>4. Runs(<<"vm-start">>, a, c)
    BY <2>3, RunsOne
  <2>5. Runs(Tail(todo), c, b)
    BY <1>2, <1>3 DEF Runs
  <2> HIDE DEF c
  <2>6. Outline(todo', a, b)
    BY <1>1, <1>9, <2>4, <2>5, Chain DEF Runs
  <2> QED BY <1>3, <1>5, <2>6
<1> QED BY <1>8, <1>9

\* The same guest, of which less is known but that its drive has been missing,
\* or may be looked for again.
LEMMA Restarts ==
    ASSUME NEW a \in Mark, Holds(a)', a.stage = "up", a.cd = "in", NEW i \in {"lost", "again", "seen"},
           i = "lost" => vanished' = 1, i = "again" => retries' = 2, i = "seen" => vm'.drive
    PROVE  Holds(M("up", "in", i, a.package, "any"))' /\ M("up", "in", i, a.package, "any") \in Mark
<1> DEFINE c == M("up", "in", i, a.package, "any")
<1>1. c.stage = "up" /\ c.cd = "in" /\ c.sight = i /\ c.package = a.package /\ c.drivers = "any"
  BY DEF M
<1>2. a.package \in BOOLEAN
  BY DEF Mark
<1>3. c \in Mark
  BY <1>2, Marks, Values
<1> HIDE DEF c
<1>4. Holds(c)'
  BY <1>1 DEF Holds, AtStage, InSight, WithDrivers, Up
<1> QED BY <1>3, <1>4 DEF c

LEMMA CalmDrive == ASSUME IInv, Smooth, Calm', Drive PROVE Smooth'
<1>1. /\ todo # <<>> /\ Head(todo) = "drive?" /\ phase' = phase /\ snapshot' = snapshot
      /\ vm' = vm /\ raised' = raised /\ UNCHANGED history /\ Up
      /\ \/ vm.drive /\ retries' = retries /\ todo' = Tail(todo)
         \/ ~vm.drive /\ retries' = retries - 1
            /\ todo' = vm_shutdown_without_tools \o
                          IF retries > 1 THEN insert_cd_safe \o Tail(todo) ELSE <<"TimeoutError">>
  BY DEF Drive, Goto, Doing, Step
<1>2. /\ vanished' = vanished /\ vm \in Vms /\ Tail(todo) \in Seq(Statements)
      /\ vm.drive \/ vanished = 1
  BY <1>1, Chooses
<1>3. PICK a \in Mark, b \in Mark :
        /\ Holds(a) /\ Goes("drive?", a, Then(a, "drive?")) /\ Then(a, "drive?") \in Mark
        /\ Outline(Tail(todo), Then(a, "drive?"), b)
        /\ \A c \in Mark : Holds(c)' /\ Outline(todo', c, b) => Smooth'
  BY <1>1, Chooses
<1>4. a.stage = "up" /\ a.cd = "in" /\ a.sight \in {"again", "sure"} /\ a.drivers = "any" /\ a.package \in BOOLEAN
  BY <1>3 DEF Goes, Needs, Mark
<1> DEFINE c == M("up", "in", "seen", a.package, "any")
           e == M("up", "in", "lost", a.package, "any")
<1>5. Then(a, "drive?") = c
  BY <1>4 DEF Then, M, GivesShutdown, Installing, Removing
<1>6. CASE vm.drive
  <2>1. Holds(a)'
    BY <1>1, <1>2, <1>3, <1>6, SameHolds
  <2>2. Holds(c)' /\ c \in Mark
    BY <1>1, <1>4, <1>6, <2>1, Restarts
  <2> HIDE DEF c
  <2> QED BY <1>1, <1>3, <1>5, <1>6, <2>2
<1>7. CASE ~vm.drive
  <2>1. a.sight = "again" /\ retries = 2
    BY <1>1, <1>3, <1>4, <1>7 DEF Holds, InSight, Up
  <2>2. todo' = vm_shutdown_without_tools \o (insert_cd_safe \o Tail(todo))
    BY <1>1, <1>7, <2>1
  <2>3. Holds(e)' /\ e \in Mark
    <3>1. e.stage = "up" /\ e.cd = "in" /\ e.sight = "lost" /\ e.package = a.package /\ e.drivers = "any"
      BY DEF M
    <3>2. e \in Mark
      BY <1>4, Marks, Values
    <3> HIDE DEF e
    <3>3. Holds(e)'
      BY <1>1, <1>2, <1>3, <1>4, <1>7, <3>1 DEF Holds, AtStage, InSight, WithDrivers, Up
    <3> QED BY <3>2, <3>3
  <2>4. Runs(vm_shutdown_without_tools, e, M("halted", "in", "sure", a.package, "any"))
    BY <1>4, ShutRuns, Values
  <2>5. Runs(insert_cd_safe, M("halted", "in", "sure", a.package, "any"), c)
    BY <1>4, InsertRuns, Values
  <2>6. Runs(Tail(todo), c, b)
    BY <1>2, <1>3, <1>5 DEF Runs
  <2> HIDE DEF c, e
  <2>7. Runs(insert_cd_safe \o Tail(todo), M("halted", "in", "sure", a.package, "any"), b)
    BY <2>5, <2>6, Chain
  <2>8. Outline(todo', e, b)
    BY <2>2, <2>4, <2>7, Chain DEF Runs
  <2> QED BY <1>3, <2>3, <2>8
<1> QED BY <1>6, <1>7

LEMMA CalmStillThere == ASSUME IInv, Smooth, Calm', DriveStillThere PROVE Smooth'
<1>1. /\ todo # <<>> /\ Head(todo) = "drive still there?" /\ phase' = phase /\ snapshot' = snapshot
      /\ vm' = vm /\ raised' = raised /\ UNCHANGED history
      /\ \/ vm.drive /\ retries' = retries /\ todo' = Tail(todo)
         \/ ~vm.drive /\ retries' = 2 /\ todo' = insert_cd_safe \o Tail(todo)
  BY DEF DriveStillThere, Goto, Doing, Step
<1>2. /\ vanished' = vanished /\ vm \in Vms /\ Tail(todo) \in Seq(Statements)
      /\ vm.drive \/ vanished = 1
  BY <1>1, Chooses
<1>3. PICK a \in Mark, b \in Mark :
        /\ Holds(a) /\ Goes("drive still there?", a, Then(a, "drive still there?"))
        /\ Then(a, "drive still there?") \in Mark
        /\ Outline(Tail(todo), Then(a, "drive still there?"), b)
        /\ \A c \in Mark : Holds(c)' /\ Outline(todo', c, b) => Smooth'
  BY <1>1, Chooses
<1>4. a.stage = "up" /\ a.cd = "in" /\ a.drivers = "any" /\ a.package \in BOOLEAN
  BY <1>3 DEF Goes, Needs, Mark
<1> DEFINE c == M("up", "in", "seen", a.package, "any")
           e == M("up", "in", "again", a.package, "any")
<1>5. Then(a, "drive still there?") = c
  BY <1>4 DEF Then, M, GivesShutdown, Installing, Removing
<1>6. CASE vm.drive /\ retries' = retries /\ todo' = Tail(todo)
  <2>1. Holds(a)'
    BY <1>1, <1>2, <1>3, <1>6, SameHolds
  <2>2. Holds(c)' /\ c \in Mark
    BY <1>1, <1>4, <1>6, <2>1, Restarts
  <2> HIDE DEF c
  <2> QED BY <1>1, <1>3, <1>5, <1>6, <2>2
<1>7. CASE ~vm.drive /\ retries' = 2 /\ todo' = insert_cd_safe \o Tail(todo)
  <2>1. Holds(e)' /\ e \in Mark
    <3>1. e.stage = "up" /\ e.cd = "in" /\ e.sight = "again" /\ e.package = a.package /\ e.drivers = "any"
      BY DEF M
    <3>2. e \in Mark
      BY <1>4, Marks, Values
    <3> HIDE DEF e
    <3>3. Holds(e)'
      BY <1>1, <1>3, <1>4, <1>7, <3>1 DEF Holds, AtStage, InSight, WithDrivers, Up
    <3> QED BY <3>2, <3>3
  <2>2. Runs(insert_cd_safe, e, c)
    BY <1>4, InsertRuns, Values
  <2>3. Runs(Tail(todo), c, b)
    BY <1>2, <1>3, <1>5 DEF Runs
  <2> HIDE DEF c, e
  <2>4. Outline(todo', e, b)
    BY <1>7, <2>2, <2>3, Chain DEF Runs
  <2> QED BY <1>3, <2>1, <2>4
<1> QED BY <1>1, <1>6, <1>7

LEMMA CalmEnable == ASSUME IInv, Smooth, Calm', EnableTestsign PROVE Smooth'
<1>1. /\ todo # <<>> /\ Head(todo) = "enable_testsign" /\ phase' = phase /\ snapshot' = snapshot
      /\ vm' = vm /\ raised' = raised /\ retries' = retries /\ UNCHANGED history
      /\ todo' = enable_testsign \o Tail(todo)
  BY DEF EnableTestsign, Goto, Doing, Step
<1>2. /\ vanished' = vanished /\ vm \in Vms /\ Tail(todo) \in Seq(Statements)
      /\ TestSign => ~vm.secureboot
  BY <1>1, Chooses
<1>3. PICK a \in Mark, b \in Mark :
        /\ Holds(a) /\ Goes("enable_testsign", a, Then(a, "enable_testsign"))
        /\ Then(a, "enable_testsign") \in Mark
        /\ Outline(Tail(todo), Then(a, "enable_testsign"), b)
        /\ \A c \in Mark : Holds(c)' /\ Outline(todo', c, b) => Smooth'
  BY <1>1, Chooses
<1>4. a.stage = "up" /\ a.cd = "in" /\ a.sight = "seen" /\ a.package \in BOOLEAN /\ TestSign
  BY <1>3 DEF Goes, Needs, Mark
<1> DEFINE c == M("up", "in", "any", a.package, "any")
           e == M("up", "in", "seen", a.package, "any")
<1>5. Then(a, "enable_testsign") = c
  BY <1>4 DEF Then, M, GivesShutdown, Installing, Removing
<1>6. Holds(e)' /\ e \in Mark
  <2>1. Holds(a)'
    BY <1>1, <1>2, <1>3, SameHolds
  <2>2. vm'.drive
    BY <1>1, <1>3, <1>4 DEF Holds, InSight
  <2> QED BY <1>4, <2>1, <2>2, Restarts
<1>7. Runs(enable_testsign, e, c)
  BY <1>2, <1>4, EnableRuns
<1>8. Runs(Tail(todo), c, b)
  BY <1>2, <1>3, <1>5 DEF Runs
<1> HIDE DEF c, e
<1>9. Outline(todo', e, b)
  BY <1>1, <1>7, <1>8, Chain DEF Runs
<1> QED BY <1>3, <1>6, <1>9

LEMMA CalmYield == ASSUME IInv, Smooth, Calm', Yield PROVE Smooth'
<1>1. /\ todo # <<>> /\ Head(todo) = "yield" /\ phase' = phase /\ snapshot' = snapshot
      /\ vm' = vm /\ raised' = raised /\ retries' = retries /\ UNCHANGED history /\ todo' = Tail(todo)
  BY DEF Yield, Doing, Proceed
<1>2. vanished' = vanished
  BY <1>1, Chooses
<1>3. PICK a \in Mark, b \in Mark :
        /\ Holds(a) /\ Goes("yield", a, Then(a, "yield"))
        /\ Outline(Tail(todo), Then(a, "yield"), b)
        /\ \A c \in Mark : Holds(c)' /\ Outline(todo', c, b) => Smooth'
  BY <1>1, Chooses
<1>4. Then(a, "yield") = a
  BY DEF Then, Mark, GivesShutdown, Installing, Removing
<1>5. Holds(a)'
  BY <1>1, <1>2, <1>3, SameHolds
<1> QED BY <1>1, <1>3, <1>4, <1>5

LEMMA CalmShutdownExe == ASSUME IInv, Smooth, Calm', ShutdownExe PROVE Smooth'
<1>1. CASE vm.power = "running"
  BY <1>1, CalmShutdown DEF ShutdownExe
<1>2. CASE vm.power # "running"
  <2>1. /\ todo # <<>> /\ Head(todo) = "shutdown.exe" /\ phase' = phase /\ snapshot' = snapshot
        /\ UNCHANGED history
    BY <1>2 DEF ShutdownExe, Goto, Doing, Step
  <2>2. PICK a \in Mark : Holds(a) /\ Goes("shutdown.exe", a, Then(a, "shutdown.exe"))
    BY <2>1, Known
  <2>3. a.stage = "up"
    BY <2>2 DEF Goes, Needs
  <2> QED BY <1>2, <2>2, <2>3 DEF Holds, AtStage, Up
<1> QED BY <1>1, <1>2

LEMMA CalmVendorDevice == ASSUME IInv, Smooth, Calm', VendorDevice PROVE Smooth'
<1>1. CASE Try("vendor device", ~vm.vendor, [vm EXCEPT !.vendor = TRUE])
  BY <1>1, CalmVendor
<1>2. CASE retries' = retries /\ Goto("vendor device", Tail(todo))
  <2>1. /\ todo # <<>> /\ Head(todo) = "vendor device" /\ phase' = phase /\ snapshot' = snapshot
        /\ vm' = vm /\ raised' = raised /\ retries' = retries /\ UNCHANGED history /\ todo' = Tail(todo)
    BY <1>2 DEF Goto, Doing, Step
  <2>2. vanished' = vanished
    BY <2>1, Chooses
  <2>3. PICK a \in Mark, b \in Mark :
          /\ Holds(a) /\ Goes("vendor device", a, Then(a, "vendor device")) /\ Then(a, "vendor device") \in Mark
          /\ Outline(Tail(todo), Then(a, "vendor device"), b)
          /\ \A c \in Mark : Holds(c)' /\ Outline(todo', c, b) => Smooth'
    BY <2>1, Chooses
  <2> DEFINE c == Then(a, "vendor device")
  <2>4. a.stage = "new" /\ c.stage = "halted" /\ c.cd = a.cd /\ c.sight = a.sight /\ c.package = a.package
        /\ c.drivers = a.drivers
    BY <2>3 DEF Goes, Needs, Then, Mark, GivesShutdown, Installing, Removing
  <2>5. Holds(a)'
    BY <2>1, <2>2, <2>3, SameHolds
  <2> HIDE DEF c
  <2>6. Holds(c)'
    BY <2>4, <2>5 DEF Holds, AtStage, InSight, WithDrivers, Up
  <2> QED BY <2>1, <2>3, <2>6 DEF c
<1> QED BY <1>1, <1>2 DEF VendorDevice

LEMMA CalmStatement == ASSUME IInv, Smooth, Calm', Statement PROVE Smooth'
<1>1. CASE Installs
  BY <1>1, CalmInstall, CalmDrivers DEF Installs
<1>2. CASE Uninstalls
  BY <1>2, CalmUninstall, CalmXenclean DEF Uninstalls
<1>3. CASE Running \/ SshUp \/ HaltedNow \/ Offboarded \/ Working \/ Uninstalled
  BY <1>3, CalmRunning, CalmSshUp, CalmHalted, CalmOffboarded, CalmWorking, CalmUninstalled
<1>4. CASE Eject \/ EjectCd \/ Insert \/ SecureBootOff \/ Certutil \/ Copy \/ TimeoutError
  BY <1>4, CalmEject, CalmEjectCd, CalmInsert, CalmRaisers, CalmCertutil, CalmCopy
<1> QED BY <1>1, <1>2, <1>3, <1>4, CalmVmStart, CalmStartIfOff, CalmShutdownExe, CalmDrive, CalmStillThere,
           CalmEnable, CalmBcdedit, CalmVendorDevice, CalmMsiexec, CalmYield DEF Statement

-----------------------------------------------------------------------------
(* One missing drive: the guest and pytest.                                *)

\* The guest moves by itself: what the mark says stays true.
LEMMA GuestSmooth ==
    ASSUME Smooth, Calm, UNCHANGED program, vm'.drive \/ vanished' = 1,
           ~vm.secureboot => ~vm'.secureboot,
           \A a \in Mark : Holds(a) => Holds(a)'
    PROVE  Smooth'
<1>1. /\ ~raised' /\ phase' = phase /\ todo' = todo
      /\ TestSign => ~vm'.secureboot
      /\ phase \in {"setup", "test"} => Outlined(todo)
  BY DEF Smooth, program
<1>2. Outlined(todo) => Outlined(todo)'
  <2> SUFFICES ASSUME NEW a \in Mark, NEW b \in Mark, Holds(a), Outline(todo, a, b),
                      phase = "setup" => b.stage = "up"
               PROVE  Outlined(todo)'
    BY DEF Outlined
  <2>1. Holds(a)' /\ Outline(todo', a, b)
    BY <1>1
  <2> QED BY <1>1, <2>1 DEF Outlined
<1> QED BY <1>1, <1>2 DEF Smooth

LEMMA CalmBoots == ASSUME IInv, Smooth, Calm, Calm', Boots PROVE Smooth'
<1>1. PICK found \in BOOLEAN :
         /\ vanished' = IF found THEN vanished ELSE vanished + 1
         /\ vm' = [vm EXCEPT !.ssh = TRUE, !.drive = found,
                       !.signing = IF @ = "set" THEN "on" ELSE @,
                       !.tools = CASE @ = "installed" -> "active" [] @ = "removed" -> "gone" [] OTHER -> @]
  BY DEF Boots
<1>2. vanished \in Nat /\ vanished <= 1 /\ vanished' <= 1 /\ vm \in Vms
      /\ vm.power = "running" /\ ~vm.ssh /\ retries' = retries
  BY WindowsAssumption DEF IInv, TypeOK, Calm, Boots, program
<1>3. /\ vm'.ssh = TRUE /\ vm'.drive = found /\ vm'.power = vm.power /\ vm'.off = vm.off /\ vm'.msi = vm.msi
      /\ vm'.cd = vm.cd /\ vm'.vendor = vm.vendor /\ vm'.package = vm.package
      /\ vm'.secureboot = vm.secureboot
      /\ vm.tools = "installed" => vm'.tools = "active"
      /\ vm.tools = "removed" => vm'.tools = "gone"
  BY <1>1, <1>2 DEF Vms
<1>4. found \/ (vanished = 0 /\ vanished' = 1)
  BY <1>1, <1>2
<1>5. ASSUME NEW a \in Mark, Holds(a) PROVE Holds(a)'
  <2>1. a.stage = "started"
    BY <1>2, <1>5 DEF Holds, AtStage, Mark, Up
  <2>2. AtStage(a)'
    BY <1>2, <1>3, <1>5, <2>1 DEF Holds, AtStage
  <2>3. InSight(a)'
    BY <1>1, <1>2, <1>3, <1>4, <1>5, <2>1 DEF Holds, InSight
  <2>4. WithDrivers(a, "in", "installing", "installed", "active")'
    BY <1>2, <1>3, <1>5, <2>1 DEF Holds, WithDrivers
  <2>5. WithDrivers(a, "out", "removing", "removed", "gone")'
    BY <1>2, <1>3, <1>5, <2>1 DEF Holds, WithDrivers
  <2> QED BY <1>3, <1>5, <2>2, <2>3, <2>4, <2>5 DEF Holds
<1>6. UNCHANGED program /\ (vm'.drive \/ vanished' = 1)
  BY <1>3, <1>4 DEF Boots
<1> QED BY <1>3, <1>5, <1>6, GuestSmooth

LEMMA CalmGuest ==
    ASSUME IInv, Smooth, Calm, ShutsDown \/ MsiexecEnds \/ Offboards
    PROVE  Smooth'
<1>1. /\ vm \in Vms /\ UNCHANGED program /\ vanished' = vanished /\ retries' = retries
      /\ vm.drive \/ vanished = 1
      /\ vm.power = "halted" => ~vm.ssh
      /\ vm.msi # "none" => vm.power = "running" /\ vm.off # "given"
  BY VmFacts DEF ShutsDown, MsiexecEnds, Offboards, program, history, Smooth
<1>2. CASE ShutsDown
  <2>1. /\ vm.power = "running" /\ vm.off = "given" /\ vm'.power = "halted" /\ vm'.off = "no" /\ vm'.ssh = FALSE
        /\ vm'.msi = vm.msi /\ vm'.tools = vm.tools /\ vm'.drive = vm.drive
        /\ vm'.cd = vm.cd /\ vm'.vendor = vm.vendor /\ vm'.package = vm.package /\ vm'.secureboot = vm.secureboot
    BY <1>1, <1>2 DEF ShutsDown, Vms
  <2>2. ASSUME NEW a \in Mark, Holds(a) PROVE Holds(a)'
    <3>1. a.stage = "going"
      BY <2>1, <2>2 DEF Holds, AtStage, Mark, Up
    <3>2. AtStage(a)' /\ InSight(a)'
      BY <1>1, <2>1, <2>2, <3>1 DEF Holds, AtStage, InSight
    <3>3. /\ WithDrivers(a, "in", "installing", "installed", "active")'
          /\ WithDrivers(a, "out", "removing", "removed", "gone")'
      BY <2>1, <2>2, <3>1 DEF Holds, WithDrivers
    <3> QED BY <2>1, <2>2, <3>2, <3>3 DEF Holds
  <2> QED BY <1>1, <2>1, <2>2, GuestSmooth
<1>3. CASE MsiexecEnds
  <2>1. /\ vm.power = "running" /\ vm.ssh /\ vm.msi # "none"
        /\ vm'.power = vm.power /\ vm'.ssh = vm.ssh
        /\ vm.off # "no" => vm'.off # "no"
        /\ vm'.msi = "none" /\ vm'.tools = (IF vm.msi = "installing" THEN "installed" ELSE "removed")
        /\ vm'.drive = vm.drive
        /\ vm'.cd = vm.cd /\ vm'.vendor = vm.vendor /\ vm'.package = vm.package /\ vm'.secureboot = vm.secureboot
    BY <1>1, <1>3 DEF MsiexecEnds, Vms, Up
  <2>2. ASSUME NEW a \in Mark, Holds(a) PROVE Holds(a)'
    <3>1. a.stage = "going"
      BY <2>1, <2>2 DEF Holds, AtStage, Mark, Up
    <3>2. AtStage(a)' /\ InSight(a)'
      BY <1>1, <2>1, <2>2, <3>1 DEF Holds, AtStage, InSight
    <3>3. /\ WithDrivers(a, "in", "installing", "installed", "active")'
          /\ WithDrivers(a, "out", "removing", "removed", "gone")'
      BY <2>1, <2>2, <3>1 DEF Holds, WithDrivers
    <3> QED BY <2>1, <2>2, <3>2, <3>3 DEF Holds
  <2> QED BY <1>1, <2>1, <2>2, GuestSmooth
<1>4. CASE Offboards
  <2>1. /\ vm'.power = vm.power /\ vm'.off = vm.off /\ vm'.ssh = vm.ssh
        /\ vm'.msi = vm.msi /\ vm'.tools = vm.tools /\ vm'.drive = vm.drive
        /\ vm'.cd = vm.cd /\ vm'.vendor = vm.vendor /\ vm'.package = vm.package /\ vm'.secureboot = vm.secureboot
    BY <1>1, <1>4 DEF Offboards, Vms
  <2>2. ASSUME NEW a \in Mark, Holds(a) PROVE Holds(a)'
    BY <1>1, <2>1, <2>2 DEF Holds, AtStage, InSight, WithDrivers, Up
  <2> QED BY <1>1, <2>1, <2>2, GuestSmooth
<1> QED BY <1>2, <1>3, <1>4

LEMMA CalmSetup == ASSUME IInv, Smooth, Calm, Setup PROVE Smooth'
<1>1. /\ phase = "between" /\ phase' = "setup" /\ todo' \in Setups /\ retries' = 2 /\ raised' = FALSE
      /\ vm' = vm /\ vanished' = vanished
  BY DEF Setup
<1>2. vm = snapshot /\ vm \in Unsealed
  BY <1>1 DEF Calm, IInv, StartsUnsealed, Shape
<1>3. vm.power = "halted" /\ ~vm.vendor
  BY <1>2 DEF Unsealed
<1>4. PICK e \in Mark : e.stage = "up" /\ Runs(todo', Unstarted, e)
  BY <1>1, SetupsRun
<1>5. Unstarted.stage = "new" /\ Unstarted.cd = "any" /\ Unstarted.sight = "again" /\ ~Unstarted.package
      /\ Unstarted.drivers = "any"
  BY DEF Unstarted, M
<1>6. Unstarted \in Mark
  BY Marks, Values DEF Unstarted
<1>7. Holds(Unstarted)'
  BY <1>1, <1>3, <1>5 DEF Holds, AtStage, InSight, WithDrivers
<1>8. Outlined(todo)'
  BY <1>4, <1>6, <1>7 DEF Outlined, Runs
<1> QED BY <1>1, <1>8 DEF Smooth

LEMMA CalmBody == ASSUME IInv, Smooth, Calm, Body PROVE Smooth'
<1>1. /\ phase = "setup" /\ todo = <<>> /\ ~raised /\ phase' = "test" /\ todo' \in Bodies /\ retries' = 2
      /\ raised' = raised /\ vm' = vm /\ vanished' = vanished
  BY DEF Body, history
<1>2. PICK a \in Mark, b \in Mark : Holds(a) /\ Outline(todo, a, b) /\ b.stage = "up"
  BY <1>1 DEF Smooth, Outlined
<1>3. a.stage = "up"
  BY <1>1, <1>2, EmptyOutline
<1>4. Up /\ vm.off = "no" /\ vm.msi = "none"
  BY <1>2, <1>3 DEF Holds, AtStage
<1>5. PICK e \in Mark : Runs(todo', Started, e)
  BY <1>1, BodiesRun
<1>6. Started.stage = "up" /\ Started.cd = "any" /\ Started.sight = "again" /\ ~Started.package
      /\ Started.drivers = "any"
  BY DEF Started, M
<1>7. Started \in Mark
  BY Marks, Values DEF Started
<1>8. Holds(Started)'
  BY <1>1, <1>4, <1>6 DEF Holds, AtStage, InSight, WithDrivers, Up
<1>9. Outlined(todo)'
  BY <1>1, <1>5, <1>7, <1>8 DEF Outlined, Runs
<1> QED BY <1>1, <1>9 DEF Smooth

LEMMA CalmEnds == ASSUME IInv, Smooth, Calm, Revert \/ Over PROVE Smooth'
<1>1. /\ phase' \in {"between", "over"} /\ raised' = raised /\ vanished' = vanished
      /\ vm' = vm \/ vm' = snapshot
  BY DEF Revert, Over, history
<1>2. snapshot.drive /\ (TestSign => ~snapshot.secureboot)
  BY DEF IInv, Shape, Unsealed, Calm
<1> QED BY <1>1, <1>2 DEF Smooth

LEMMA CalmStutters == ASSUME Smooth, UNCHANGED vars PROVE Smooth'
<1>1. /\ vm' = vm /\ todo' = todo /\ retries' = retries /\ phase' = phase /\ raised' = raised
      /\ botched' = botched /\ trouble' = trouble /\ vanished' = vanished /\ snapshot' = snapshot
  BY DEF vars, program, history
<1>2. Calm' => Calm
  BY <1>1 DEF Calm
<1>3. CASE Calm
  <2>1. UNCHANGED program
    BY DEF vars
  <2>2. \A a \in Mark : Holds(a) => Holds(a)'
    BY <1>1, SameHolds
  <2>3. vm'.drive \/ vanished' = 1
    BY <1>1, <1>3 DEF Smooth
  <2> QED BY <1>1, <1>3, <2>1, <2>2, <2>3, GuestSmooth
<1> QED BY <1>2, <1>3 DEF Smooth

\* Faults are not forgotten.
LEMMA CalmBefore == ASSUME IInv, Calm', Guest \/ Setup \/ Body \/ Revert \/ Over PROVE Calm
<1>1. /\ trouble' = trouble /\ botched' = botched /\ snapshot' = snapshot
      /\ vanished' = vanished \/ vanished' = vanished + 1
  BY DEF Guest, Boots, ShutsDown, MsiexecEnds, Offboards, Setup, Body, Revert, Over, program, history
<1>2. vanished \in Nat
  BY WindowsAssumption DEF IInv, TypeOK
<1> QED BY <1>1, <1>2 DEF Calm

LEMMA SmoothInductive ==
    ASSUME IInv, Smooth, [Next]_vars PROVE Smooth'
<1> SUFFICES ASSUME Calm' PROVE Smooth'
  BY DEF Smooth
<1>1. CASE Statement
  BY <1>1, CalmStatement
<1>2. CASE Guest
  BY <1>2, CalmBefore, CalmBoots, CalmGuest DEF Guest
<1>3. CASE Setup \/ Body \/ Revert \/ Over
  BY <1>3, CalmBefore, CalmSetup, CalmBody, CalmEnds
<1>4. CASE SetupFails
  BY <1>4 DEF SetupFails, Calm
<1>5. CASE Done \/ UNCHANGED vars
  BY <1>5, CalmStutters DEF Done
<1> QED BY <1>1, <1>2, <1>3, <1>4, <1>5 DEF Next, Pytest

\* As long as one drive was missing at most and nothing else went wrong, no
\* statement raises, and there is an outline of the rest of the program from what
\* is known of the guest now.
THEOREM SmoothAlways == Spec => []Smooth
<1>1. Init => Smooth
  BY DEF Init, Smooth, Unsealed, Calm
<1>2. IInv /\ Smooth /\ [Next]_vars => Smooth'
  BY SmoothInductive
<1> QED BY <1>1, <1>2, Inductive, PTL DEF Spec

\* Nothing but its own troubles fails a test, over any number of tests: no
\* single boot that misses the CD drive, wherever it hits, unless the image has
\* secure boot on and the drivers need test signing; and no state that an
\* earlier test left in the guest (insert_cd_safe, install_guest_tools,
\* enable_testsign and the fixtures of tests/guest_tools/win).
THEOREM TroubleAlwaysStays == Spec => []TroubleStaysInItsTest
<1>1. IInv /\ Smooth => SurvivesOneMissingDrive
  <2> SUFFICES ASSUME IInv, Smooth, raised, ~botched, ~(snapshot.secureboot /\ TestSign), trouble <= 0, vanished <= 1
               PROVE  FALSE
    BY WindowsAssumption DEF SurvivesOneMissingDrive, IInv, TypeOK
  <2>1. trouble = 0
    BY WindowsAssumption DEF IInv, TypeOK
  <2> QED BY <2>1 DEF Smooth, Calm
<1>2. IInv => StartsUnsealed
  BY DEF IInv
<1>3. IInv /\ Smooth => TroubleStaysInItsTest
  BY <1>1, <1>2 DEF TroubleStaysInItsTest
<1> QED BY <1>3, Inductive, SmoothAlways, PTL

=============================================================================
