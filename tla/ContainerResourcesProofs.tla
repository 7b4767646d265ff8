---------------------- MODULE ContainerResourcesProofs ----------------------
(***************************************************************************)
(* Proofs about ContainerResources, and so about Cgroups and SpecDevices:  *)
(* the limits StatsContainer answers with, the cpus of containers, and the *)
(* devices they may use.                                                   *)
(*                                                                         *)
(* The operators of the model go through lists with FoldLeft and           *)
(* FlattenSeq.  The first half opens these folds: for each of them there   *)
(* is a function from the positions of the list to the results so far      *)
(* (Writes, Applies, Renumbers, Adds), and an argument by the least        *)
(* position at which something is wrong takes the place of induction.      *)
(***************************************************************************)
EXTENDS ContainerResources, WellFoundedInduction, TLAPS

-----------------------------------------------------------------------------
(* Lists.                                                                  *)

\* A set of numbers has a least one.
LEMMA HasMin ==
    ASSUME NEW S \in SUBSET Nat, S # {} PROVE \E x \in S : \A y \in S : x <= y
  <1> DEFINE R == OpToRel(<, Nat)
  <1>1. IsWellFoundedOn(R, Nat)
    BY NatLessThanWellFounded
  <1>2. \A x, y \in Nat : <<y, x>> \in R <=> y < x
    BY DEF OpToRel
  <1> HIDE DEF R
  <1>3. PICK x \in S : \A y \in S : ~ (<<y, x>> \in R)
    BY <1>1, WFMin
  <1>4. \A y \in S : ~ (y < x)
    BY <1>2, <1>3
  <1> QED
    BY <1>4

\* A sequence is a list, and a list a sequence.
LEMMA SeqIsList ==
    ASSUME NEW S, NEW s \in Seq(S)
    PROVE  IsList(s) /\ DOMAIN s = 1..Len(s) /\ \A i \in 1..Len(s) : s[i] \in S
  BY DEF IsList

\* A list is a sequence of its own elements.
LEMMA ListIsSeq ==
    ASSUME NEW s, IsList(s) PROVE s \in Seq({s[i] : i \in 1..Len(s)}) /\ DOMAIN s = 1..Len(s)
  <1> DEFINE S == {s[i] : i \in 1..Len(s)}
  <1>1. s \in [1..Len(s) -> S] /\ Len(s) \in Nat
    BY DEF IsList
  <1> HIDE DEF S
  <1>2. s \in Seq(S)
    BY <1>1
  <1> QED
    BY <1>2 DEF S

\* A function on 1..n is a list.
LEMMA FunctionIsList ==
    ASSUME NEW n \in Nat, NEW f, f = [i \in 1..n |-> f[i]]
    PROVE  IsList(f) /\ Len(f) = n /\ DOMAIN f = 1..n
  <1>1. f \in [1..n -> {f[i] : i \in 1..n}]
    OBVIOUS
  <1>2. f \in Seq({f[i] : i \in 1..n}) /\ DOMAIN f = 1..n
    BY <1>1
  <1>3. IsList(f) /\ DOMAIN f = 1..Len(f) /\ Len(f) \in Nat
    BY <1>2, SeqIsList DEF IsList
  <1>4. Len(f) = n
    BY <1>2
  <1> QED
    BY <1>2, <1>3, <1>4

\* Two lists in a row.
LEMMA ListsInARow ==
    ASSUME NEW s, NEW t, IsList(s), IsList(t)
    PROVE  /\ IsList(s \o t)
           /\ Len(s \o t) = Len(s) + Len(t)
           /\ \A i \in 1..Len(s) : (s \o t)[i] = s[i]
           /\ \A i \in 1..Len(t) : (s \o t)[Len(s) + i] = t[i]
           /\ \A i \in 1..Len(s \o t) : \/ i \in 1..Len(s)
                                        \/ i - Len(s) \in 1..Len(t) /\ (s \o t)[i] = t[i - Len(s)]
  <1> DEFINE S == {s[i] : i \in 1..Len(s)} \cup {t[i] : i \in 1..Len(t)}
  <1>1. s \in Seq(S) /\ t \in Seq(S)
    <2>1. s \in Seq({s[i] : i \in 1..Len(s)}) /\ t \in Seq({t[i] : i \in 1..Len(t)})
      BY ListIsSeq
    <2> QED
      BY <2>1
  <1> HIDE DEF S
  <1>2. s \o t \in Seq(S) /\ Len(s) \in Nat /\ Len(t) \in Nat
    BY <1>1
  <1>3. IsList(s \o t)
    BY <1>2, SeqIsList
  <1>4. /\ Len(s \o t) = Len(s) + Len(t)
        /\ \A i \in 1..Len(s) : (s \o t)[i] = s[i]
        /\ \A i \in 1..Len(t) : (s \o t)[Len(s) + i] = t[i]
    BY <1>1
  <1>5. ASSUME NEW i \in 1..Len(s \o t), i \notin 1..Len(s)
        PROVE  i - Len(s) \in 1..Len(t) /\ (s \o t)[i] = t[i - Len(s)]
    <2>1. i - Len(s) \in 1..Len(t) /\ Len(s) + (i - Len(s)) = i
      BY <1>2, <1>4, <1>5
    <2> QED
      BY <1>4, <2>1
  <1> QED
    BY <1>3, <1>4, <1>5

\* The one of FlattenSeq.
Flattening(f, s, n) ==
    f = [i \in 1..n |-> IF i = 1 THEN s[i] ELSE f[i - 1] \o s[i]]

\* FlattenSeq is defined by a function that calls itself; there is one.
LEMMA FlatteningExists == ASSUME NEW s, NEW n \in Nat PROVE \E f : Flattening(f, s, n)
  <1> DEFINE Bad == {k \in Nat : ~ \E f : Flattening(f, s, k)}
  <1>1. SUFFICES ASSUME Bad # {} PROVE FALSE
    OBVIOUS
  <1>2. PICK k \in Bad : \A l \in Bad : k <= l
    BY <1>1, HasMin
  <1>3. CASE k <= 1
    <2> DEFINE g == [i \in 1..k |-> s[i]]
    <2>1. Flattening(g, s, k)
      BY <1>3 DEF Flattening
    <2> QED
      BY <2>1
  <1>4. CASE k > 1
    <2>1. k - 1 \in Nat /\ k - 1 \notin Bad /\ k \in Nat
      BY <1>2, <1>4
    <2>2. PICK f : Flattening(f, s, k - 1)
      BY <2>1
    <2> DEFINE g == [i \in 1..k |-> IF i = k THEN f[k - 1] \o s[k] ELSE f[i]]
    <2>3. ASSUME NEW i \in 1..k
          PROVE  g[i] = IF i = 1 THEN s[i] ELSE g[i - 1] \o s[i]
      <3>1. CASE i = k
        <4>1. k - 1 \in 1..k /\ k \in 1..k /\ k - 1 # k /\ i # 1
          BY <1>4, <2>1, <3>1
        <4>2. g[k - 1] = f[k - 1] /\ g[k] = f[k - 1] \o s[k]
          BY <4>1
        <4> QED
          BY <3>1, <4>1, <4>2
      <3>2. CASE i # k
        <4>1. i \in 1..(k - 1) /\ g[i] = f[i] /\ (i # 1 => g[i - 1] = f[i - 1])
          BY <2>1, <3>2
        <4> QED
          BY <2>2, <4>1 DEF Flattening
      <3> QED
        BY <3>1, <3>2
    <2>4. Flattening(g, s, k)
      <3> HIDE DEF g
      <3>1. g = [i \in 1..k |-> g[i]]
        BY DEF g
      <3> QED
        BY <2>3, <3>1 DEF Flattening
    <2> QED
      BY <2>4
  <1> QED
    BY <1>2, <1>3, <1>4

\* FlattenSeq, step by step.
LEMMA FlattenSteps ==
    ASSUME NEW s, IsList(s), Len(s) # 0
    PROVE  \E f : /\ Flattening(f, s, Len(s)) /\ FlattenSeq(s) = f[Len(s)]
                  /\ f[1] = s[1]
                  /\ \A i \in 2..Len(s) : f[i] = f[i - 1] \o s[i]
  <1> DEFINE n == Len(s)
             f == CHOOSE f : Flattening(f, s, n)
  <1>1. FlattenSeq(s) = f[n] /\ n \in Nat
    BY DEF FlattenSeq, Flattening, IsList
  <1>2. Flattening(f, s, n)
    BY <1>1, FlatteningExists
  <1> HIDE DEF f
  <1> HIDE DEF n
  <1>3. \A i \in 1..n : f[i] = IF i = 1 THEN s[i] ELSE f[i - 1] \o s[i]
    BY <1>2 DEF Flattening
  <1>4. n # 0
    BY DEF n
  <1>5. f[1] = s[1] /\ \A i \in 2..n : f[i] = f[i - 1] \o s[i]
    <2>1. 1 \in 1..n /\ \A i \in 2..n : i \in 1..n /\ i # 1
      BY <1>1, <1>4
    <2> QED
      BY <1>3, <2>1
  <1> QED
    BY <1>1, <1>2, <1>5 DEF n

-----------------------------------------------------------------------------
(* Lists of writes.                                                        *)

\* The writes of a list are to files of fs.
OnFiles(ws, fs) == IsList(ws) /\ \A i \in 1..Len(ws) : ws[i].file \in fs

\* None, one, and two lists of them.
LEMMA FewWrites ==
    ASSUME NEW fs
    PROVE  /\ OnFiles(<<>>, fs)
           /\ \A f \in fs : \A v, p : OnFiles(W(f, v, p), fs)
           /\ \A f \in fs : \A v :
                 /\ OnFiles(Must(f, v), fs) /\ OnFiles(Nonzero(f, v), fs)
                 /\ OnFiles(TryNonzero(f, v), fs) /\ OnFiles(Try(f, v), fs)
                 /\ OnFiles(TryValid(f, v), fs) /\ OnFiles(BlkioDevice(f, v), fs)
  <1>1. OnFiles(<<>>, fs)
    BY DEF OnFiles, IsList
  <1>2. ASSUME NEW f \in fs, NEW v, NEW p PROVE OnFiles(W(f, v, p), fs)
    <2> DEFINE w == [file |-> f, value |-> v, passes |-> p]
    <2>1. w.file = f /\ W(f, v, p) = <<w>>
      BY DEF W
    <2> HIDE DEF w
    <2>2. <<w>> \in Seq({w}) /\ Len(<<w>>) = 1 /\ <<w>>[1] = w
      OBVIOUS
    <2>3. IsList(<<w>>)
      BY <2>2, SeqIsList
    <2> QED
      BY <2>1, <2>2, <2>3 DEF OnFiles
  <1> QED
    BY <1>1, <1>2 DEF Must, Nonzero, TryNonzero, Try, TryValid, BlkioDevice

\* The writes of two lists in a row.
LEMMA MoreWrites ==
    ASSUME NEW fs, NEW s, NEW t, OnFiles(s, fs), OnFiles(t, fs) PROVE OnFiles(s \o t, fs)
  <1>1. /\ IsList(s \o t)
        /\ \A i \in 1..Len(s) : (s \o t)[i] = s[i]
        /\ \A i \in 1..Len(s \o t) : \/ i \in 1..Len(s)
                                     \/ i - Len(s) \in 1..Len(t) /\ (s \o t)[i] = t[i - Len(s)]
    BY ListsInARow DEF OnFiles
  <1> QED
    BY <1>1 DEF OnFiles

\* One list for every request.
LEMMA PartsAreList ==
    ASSUME NEW s, IsList(s), NEW f, f = [i \in DOMAIN s |-> f[i]]
    PROVE  IsList(f) /\ Len(f) = Len(s) /\ DOMAIN s = 1..Len(f) /\ Len(s) \in Nat
  <1>1. DOMAIN s = 1..Len(s) /\ Len(s) \in Nat
    BY DEF IsList
  <1> QED
    BY <1>1, FunctionIsList

\* A write for each element of a list.
LEMMA WritesForEach ==
    ASSUME NEW fs, NEW s, IsList(s), \A i \in 1..Len(s) : OnFiles(s[i], fs)
    PROVE  OnFiles(FlattenSeq(s), fs)
  <1>1. CASE Len(s) = 0
    BY <1>1 DEF FlattenSeq, OnFiles
  <1>2. CASE Len(s) # 0
    <2>0. Len(s) \in Nat
      BY DEF IsList
    <2>1. PICK f : /\ FlattenSeq(s) = f[Len(s)]
                   /\ f[1] = s[1]
                   /\ \A i \in 2..Len(s) : f[i] = f[i - 1] \o s[i]
      BY <1>2, FlattenSteps
    <2> DEFINE Bad == {i \in 1..Len(s) : ~ OnFiles(f[i], fs)}
    <2>2. ASSUME Bad # {} PROVE FALSE
      <3>0. Bad \in SUBSET Nat
        BY <2>0
      <3>1. PICK i \in Bad : \A j \in Bad : i <= j
        <4> HIDE DEF Bad
        <4> QED
          BY <2>2, <3>0, HasMin
      <3>2. i # 1 => i - 1 \in 1..Len(s) /\ i - 1 \notin Bad /\ i \in 2..Len(s)
        BY <2>0, <3>1
      <3>3. OnFiles(f[i], fs)
        BY <2>1, <3>1, <3>2, MoreWrites
      <3> QED
        BY <3>1, <3>3
    <2> QED
      BY <1>2, <2>0, <2>1, <2>2
  <1> QED
    BY <1>1, <1>2

\* The files of each subsystem.
FilesOf(name) ==
    CASE name = "cpuset" -> CpusetFiles
      [] name = "cpu" -> {"cpu.rt_period_us", "cpu.rt_runtime_us", "cpu.shares",
                          "cpu.cfs_quota_us", "cpu.cfs_period_us"}
      [] name = "devices" -> {"devices"}
      [] name = "memory" -> {"memory.kmem.limit_in_bytes", "memory.limit_in_bytes",
                             "memory.soft_limit_in_bytes", "memory.memsw.limit_in_bytes",
                             "memory.kmem.tcp.limit_in_bytes", "memory.swappiness",
                             "memory.oom_control"}
      [] name = "pids" -> {"pids.max"}
      [] name = "blkio" -> {"blkio.weight", "blkio.leaf_weight", "blkio.weight_device",
                            "blkio.leaf_weight_device"} \cup Range(ThrottleFiles)
      [] name = "hugetlb" -> Range(HugetlbFile)
      [] name = "net_cls" -> {"net_cls.classid"}
      [] name = "net_prio" -> {"net_prio.ifpriomap"}
      [] OTHER -> {}

\* The subsystem of a file somebody asks about.
Tracked == {"cpuset.cpus", "devices"} \cup LimitFiles
Owner(file) ==
    CASE file = "cpuset.cpus" -> "cpuset"
      [] file = "devices" -> "devices"
      [] file = "pids.max" -> "pids"
      [] file \in {"memory.limit_in_bytes", "memory.memsw.limit_in_bytes"} -> "memory"

\* The subsystem of such a file is one that is known.
LEMMA OwnerOfTracked ==
    /\ Owner("cpuset.cpus") = "cpuset" /\ Owner("devices") = "devices"
    /\ Owner("pids.max") = "pids"
    /\ Owner("memory.limit_in_bytes") = "memory" /\ Owner("memory.memsw.limit_in_bytes") = "memory"
  BY DEF Owner

\* No other subsystem has it.
LEMMA NoOthers ==
    ASSUME NEW name, NEW file \in Tracked \cap FilesOf(name) PROVE name = Owner(file)
  <1>1. CASE name = "cpuset"
    BY <1>1, OwnerOfTracked DEF FilesOf, Tracked, LimitFiles, CpusetFiles
  <1>2. CASE name = "cpu"
    BY <1>2, OwnerOfTracked DEF FilesOf, Tracked, LimitFiles
  <1>3. CASE name = "devices"
    BY <1>3, OwnerOfTracked DEF FilesOf, Tracked, LimitFiles
  <1>4. CASE name = "memory"
    BY <1>4, OwnerOfTracked DEF FilesOf, Tracked, LimitFiles
  <1>5. CASE name = "pids"
    BY <1>5, OwnerOfTracked DEF FilesOf, Tracked, LimitFiles
  <1>6. CASE name = "blkio"
    <2>1. FilesOf(name) = {"blkio.weight", "blkio.leaf_weight", "blkio.weight_device",
                           "blkio.leaf_weight_device"} \cup Range(ThrottleFiles)
      BY <1>6 DEF FilesOf
    <2>2. Range(ThrottleFiles) \subseteq
              {"blkio.throttle.read_bps_device", "blkio.throttle.write_bps_device",
               "blkio.throttle.read_iops_device", "blkio.throttle.write_iops_device"}
      BY DEF Range, ThrottleFiles
    <2> QED
      BY <2>1, <2>2 DEF Tracked, LimitFiles
  <1>7. CASE name = "hugetlb"
    BY <1>7, HugetlbAssumption DEF FilesOf, Tracked, LimitFiles, CpusetFiles
  <1>8. CASE name = "net_cls"
    BY <1>8, OwnerOfTracked DEF FilesOf, Tracked, LimitFiles
  <1>9. CASE name = "net_prio"
    BY <1>9, OwnerOfTracked DEF FilesOf, Tracked, LimitFiles
  <1>10. CASE name \notin {"cpuset", "cpu", "devices", "memory", "pids", "blkio", "hugetlb",
                           "net_cls", "net_prio"}
    BY <1>10 DEF FilesOf
  <1> QED
    BY <1>1, <1>2, <1>3, <1>4, <1>5, <1>6, <1>7, <1>8, <1>9, <1>10

\* What set() of each of them writes.
LEMMA CpuSetFiles == ASSUME NEW r PROVE OnFiles(CpuSetWrites(r), CpusetFiles)
  <1>1. OnFiles(IF r.CPU.Cpus = {} THEN <<>> ELSE TryValid("cpuset.cpus", r.CPU.Cpus), CpusetFiles)
    BY FewWrites DEF CpusetFiles
  <1>2. OnFiles(IF r.CPU.Mems = {} THEN <<>> ELSE TryValid("cpuset.mems", r.CPU.Mems), CpusetFiles)
    BY FewWrites DEF CpusetFiles
  <1> QED
    BY <1>1, <1>2, FewWrites, MoreWrites DEF CpuSetWrites

\* CpuWrites: the files of the cpu subsystem.
LEMMA CpuFiles == ASSUME NEW r PROVE OnFiles(CpuWrites(r), FilesOf("cpu"))
  <1> DEFINE fs == FilesOf("cpu")
  <1>1. fs = {"cpu.rt_period_us", "cpu.rt_runtime_us", "cpu.shares",
              "cpu.cfs_quota_us", "cpu.cfs_period_us"}
    BY DEF FilesOf
  <1>2. /\ OnFiles(TryNonzero("cpu.rt_period_us", r.CPU.RealtimePeriod), fs)
        /\ OnFiles(TryNonzero("cpu.rt_runtime_us", r.CPU.RealtimeRuntime), fs)
        /\ OnFiles(Nonzero("cpu.shares", r.CPU.Shares), fs)
        /\ OnFiles(Nonzero("cpu.cfs_quota_us", r.CPU.Quota), fs)
        /\ OnFiles(Nonzero("cpu.cfs_period_us", r.CPU.Period), fs)
    BY <1>1, FewWrites
  <1> HIDE DEF fs
  <1>3. OnFiles(<<>>, fs)
    BY FewWrites
  <1>4. OnFiles(CpuWrites(r), fs)
    BY <1>2, <1>3, MoreWrites DEF CpuWrites
  <1> QED
    BY <1>4 DEF fs

\* MemoryWrites, in either order of the limit and the swap limit.
LEMMA MemoryFiles == ASSUME NEW r, NEW update PROVE OnFiles(MemoryWrites(r, update), FilesOf("memory"))
  <1> DEFINE fs == FilesOf("memory")
             kmem == IF update THEN <<>>
                     ELSE Try("memory.kmem.limit_in_bytes", 1) \o Try("memory.kmem.limit_in_bytes", -1)
             limit == Nonzero("memory.limit_in_bytes", r.Memory.Limit)
             soft == Nonzero("memory.soft_limit_in_bytes", r.Memory.Reservation)
             swap == TryNonzero("memory.memsw.limit_in_bytes", r.Memory.Swap)
             kern == TryNonzero("memory.kmem.limit_in_bytes", r.Memory.Kernel)
             tcp == Nonzero("memory.kmem.tcp.limit_in_bytes", r.Memory.KernelTCP)
             swappiness == IF r.Memory.Swappiness <= 100
                           THEN Must("memory.swappiness", r.Memory.Swappiness) ELSE <<>>
             oom == IF r.Memory.DisableOOMKiller THEN Must("memory.oom_control", 1) ELSE <<>>
  <1>1. fs = {"memory.kmem.limit_in_bytes", "memory.limit_in_bytes",
              "memory.soft_limit_in_bytes", "memory.memsw.limit_in_bytes",
              "memory.kmem.tcp.limit_in_bytes", "memory.swappiness", "memory.oom_control"}
    BY DEF FilesOf
  <1>2. OnFiles(kmem, fs)
    <2> HIDE DEF fs
    <2>1. "memory.kmem.limit_in_bytes" \in fs
      BY <1>1
    <2>2. /\ OnFiles(Try("memory.kmem.limit_in_bytes", 1), fs)
          /\ OnFiles(Try("memory.kmem.limit_in_bytes", -1), fs) /\ OnFiles(<<>>, fs)
      BY <2>1, FewWrites
    <2> QED
      BY <2>2, MoreWrites
  <1>3. OnFiles(limit, fs) /\ OnFiles(soft, fs) /\ OnFiles(swap, fs) /\ OnFiles(kern, fs)
    BY <1>1, FewWrites
  <1>4. OnFiles(tcp, fs) /\ OnFiles(swappiness, fs) /\ OnFiles(oom, fs)
    BY <1>1, FewWrites
  <1>5. MemoryWrites(r, update) =
            IF r.Memory = NoValue THEN <<>>
            ELSE kmem \o limit \o soft \o swap \o kern \o tcp \o swappiness \o oom
    BY DEF MemoryWrites
  <1>6. OnFiles(<<>>, fs)
    BY FewWrites
  <1> HIDE DEF fs, kmem, limit, soft, swap, kern, tcp, swappiness, oom
  <1>7. OnFiles(MemoryWrites(r, update), fs)
    BY <1>2, <1>3, <1>4, <1>5, <1>6, MoreWrites
  <1> QED
    BY <1>7 DEF fs

\* PidsWrites: one file.
LEMMA PidsFiles == ASSUME NEW r PROVE OnFiles(PidsWrites(r), {"pids.max"})
  BY FewWrites DEF PidsWrites

\* DevicesWrites: a write for each rule, all to one file.
LEMMA DevicesFiles ==
    ASSUME NEW r, IsResources(r) PROVE OnFiles(DevicesWrites(r), {"devices"}) /\ IsList(DefaultRules)
  <1>1. IsList(DefaultRules)
    <2> DEFINE d == [i \in DOMAIN DefaultNumbers |->
                       [allow |-> TRUE, type |-> "c", num |-> DefaultNumbers[i], access |-> Access]]
               m == [i \in 1..2 |-> [allow |-> TRUE, type |-> <<"c", "b">>[i], num |-> WILDCARD,
                                     access |-> {"m"}]]
    <2>1. DOMAIN DefaultNumbers = 1..Len(DefaultNumbers) /\ Len(DefaultNumbers) \in Nat
      BY NumbersAssumption
    <2>2. IsList(d) /\ IsList(m)
      <3>1. d = [i \in 1..Len(DefaultNumbers) |-> d[i]]
        BY <2>1
      <3>2. m = [i \in 1..2 |-> m[i]]
        OBVIOUS
      <3> HIDE DEF d, m
      <3> QED
        BY <2>1, <3>1, <3>2, FunctionIsList
    <2>3. DefaultRules = d \o m
      BY DEF DefaultRules
    <2> HIDE DEF d, m
    <2> QED
      BY <2>2, <2>3, ListsInARow
  <1> DEFINE rules == r.Devices \o DefaultRules
             parts == [i \in DOMAIN rules |-> Must("devices", rules[i])]
  <1>2. IsList(rules)
    BY <1>1, ListsInARow DEF IsResources
  <1>3. DevicesWrites(r) = FlattenSeq(parts)
    BY DEF DevicesWrites, ForEach
  <1> HIDE DEF rules
  <1>4. IsList(parts) /\ DOMAIN rules = 1..Len(parts)
    <2>1. parts = [i \in DOMAIN rules |-> parts[i]]
      OBVIOUS
    <2> HIDE DEF parts
    <2> QED
      BY <1>2, <2>1, PartsAreList
  <1>5. \A i \in 1..Len(parts) : OnFiles(parts[i], {"devices"})
    BY <1>4, FewWrites
  <1> HIDE DEF parts
  <1> QED
    BY <1>1, <1>3, <1>4, <1>5, WritesForEach

\* HugeTLBWrites: a file for each page size.
LEMMA HugeTLBFiles ==
    ASSUME NEW r, IsResources(r) PROVE OnFiles(HugeTLBWrites(r), Range(HugetlbFile))
  <1> DEFINE s == r.HugepageLimits
             parts == [i \in DOMAIN s |-> Must(HugetlbFile[s[i].Pagesize], s[i].Limit)]
  <1>1. HugeTLBWrites(r) = FlattenSeq(parts)
    BY DEF HugeTLBWrites, ForEach
  <1>2. IsList(s) /\ \A i \in DOMAIN s : HugetlbFile[s[i].Pagesize] \in Range(HugetlbFile)
    BY DEF IsResources, Range
  <1>3. parts = [i \in DOMAIN s |-> parts[i]]
    OBVIOUS
  <1>4. \A i \in DOMAIN s : OnFiles(parts[i], Range(HugetlbFile))
    BY <1>2, FewWrites
  <1> HIDE DEF parts, s
  <1>5. IsList(parts) /\ DOMAIN s = 1..Len(parts)
    BY <1>2, <1>3, PartsAreList
  <1> QED
    BY <1>1, <1>4, <1>5, WritesForEach

\* NetPrioWrites: one file.
LEMMA NetPrioFiles ==
    ASSUME NEW r, IsResources(r) PROVE OnFiles(NetPrioWrites(r), {"net_prio.ifpriomap"})
  <1> DEFINE s == r.Network.Priorities
             parts == [i \in DOMAIN s |-> TryValid("net_prio.ifpriomap", s[i])]
             fs == {"net_prio.ifpriomap"}
  <1>1. NetPrioWrites(r) = IF r.Network = NoValue THEN <<>> ELSE FlattenSeq(parts)
    BY DEF NetPrioWrites, ForEach
  <1>2. CASE r.Network = NoValue
    BY <1>1, <1>2, FewWrites
  <1>3. CASE r.Network # NoValue
    <2>1. IsList(s)
      BY <1>3 DEF IsResources
    <2>2. parts = [i \in DOMAIN s |-> parts[i]]
      OBVIOUS
    <2>3. \A i \in DOMAIN s : OnFiles(parts[i], fs)
      BY FewWrites
    <2> HIDE DEF parts, s
    <2>4. IsList(parts) /\ DOMAIN s = 1..Len(parts)
      BY <2>1, <2>2, PartsAreList
    <2> QED
      BY <1>1, <1>3, <2>3, <2>4, WritesForEach
  <1> QED
    BY <1>2, <1>3

\* BlkioWrites: weights and throttles.
LEMMA BlkioFiles ==
    ASSUME NEW r, IsResources(r) PROVE OnFiles(BlkioWrites(r), FilesOf("blkio"))
  <1> DEFINE fs == FilesOf("blkio")
             weight == Nonzero("blkio.weight", r.BlockIO.Weight)
             leaf == Nonzero("blkio.leaf_weight", r.BlockIO.LeafWeight)
             s == r.BlockIO.WeightDevice
             ws == [i \in DOMAIN s |->
                       BlkioDevice("blkio.weight_device", <<s[i].num, s[i].Weight>>)
                       \o BlkioDevice("blkio.leaf_weight_device", <<s[i].num, s[i].LeafWeight>>)]
             rates(f) == [i \in DOMAIN r.BlockIO.Throttle[f] |->
                             BlkioDevice(f, r.BlockIO.Throttle[f][i])]
             ts == [i \in DOMAIN ThrottleFiles |-> FlattenSeq(rates(ThrottleFiles[i]))]
  <1>1. fs = {"blkio.weight", "blkio.leaf_weight", "blkio.weight_device",
              "blkio.leaf_weight_device"} \cup Range(ThrottleFiles)
    BY DEF FilesOf
  <1>2. BlkioWrites(r) = IF r.BlockIO = NoValue THEN <<>>
                         ELSE weight \o leaf \o FlattenSeq(ws) \o FlattenSeq(ts)
    BY DEF BlkioWrites, ForEach
  <1>3. OnFiles(weight, fs) /\ OnFiles(leaf, fs) /\ OnFiles(<<>>, fs)
    BY <1>1, FewWrites
  <1>4. ASSUME r.BlockIO # NoValue PROVE OnFiles(FlattenSeq(ws), fs)
    <2>1. IsList(s)
      BY <1>4 DEF IsResources
    <2>2. ws = [i \in DOMAIN s |-> ws[i]]
      OBVIOUS
    <2>3. ASSUME NEW i \in DOMAIN s PROVE OnFiles(ws[i], fs)
      <3>1. /\ OnFiles(BlkioDevice("blkio.weight_device", <<s[i].num, s[i].Weight>>), fs)
            /\ OnFiles(BlkioDevice("blkio.leaf_weight_device", <<s[i].num, s[i].LeafWeight>>), fs)
        BY <1>1, FewWrites
      <3> HIDE DEF fs
      <3> QED
        BY <3>1, MoreWrites
    <2> HIDE DEF ws, s, fs
    <2>4. IsList(ws) /\ DOMAIN s = 1..Len(ws)
      BY <2>1, <2>2, PartsAreList
    <2> QED
      BY <2>3, <2>4, WritesForEach
  <1>5. ASSUME r.BlockIO # NoValue, NEW f \in Range(ThrottleFiles)
        PROVE  OnFiles(FlattenSeq(rates(f)), fs)
    <2> DEFINE x == r.BlockIO.Throttle[f]
               p == rates(f)
    <2>1. IsList(x)
      BY <1>5 DEF IsResources
    <2>2. p = [i \in DOMAIN x |-> p[i]]
      OBVIOUS
    <2>3. \A i \in DOMAIN x : OnFiles(p[i], fs)
      BY <1>1, FewWrites
    <2>4. OnFiles(FlattenSeq(p), fs)
      <3> HIDE DEF p, x, fs
      <3>1. IsList(p) /\ DOMAIN x = 1..Len(p)
        BY <2>1, <2>2, PartsAreList
      <3> QED
        BY <2>3, <3>1, WritesForEach
    <2> QED
      BY <2>4
  <1>6. ASSUME r.BlockIO # NoValue PROVE OnFiles(FlattenSeq(ts), fs)
    <2>1. IsList(ThrottleFiles) /\ \A i \in DOMAIN ThrottleFiles : ThrottleFiles[i] \in Range(ThrottleFiles)
      <3>1. \A a, b, c, d : <<a, b, c, d>> \in Seq({a, b, c, d})
        OBVIOUS
      <3>2. \E S : ThrottleFiles \in Seq(S)
        BY <3>1, Zenon DEF ThrottleFiles
      <3> QED
        BY <3>2, SeqIsList DEF Range
    <2>2. ts = [i \in DOMAIN ThrottleFiles |-> ts[i]]
      OBVIOUS
    <2>3. \A i \in DOMAIN ThrottleFiles : OnFiles(ts[i], fs)
      <3> HIDE DEF rates, fs
      <3> QED
        BY <1>5, <1>6, <2>1
    <2> HIDE DEF ts, fs
    <2>4. IsList(ts) /\ DOMAIN ThrottleFiles = 1..Len(ts)
      BY <2>1, <2>2, PartsAreList
    <2> QED
      BY <2>3, <2>4, WritesForEach
  <1> HIDE DEF fs, weight, leaf, ws, ts
  <1>7. OnFiles(BlkioWrites(r), fs)
    BY <1>2, <1>3, <1>4, <1>6, MoreWrites
  <1> QED
    BY <1>7 DEF fs

\* Each subsystem writes to its own files only.
LEMMA SubsystemFiles ==
    ASSUME NEW r, IsResources(r), NEW name, NEW update
    PROVE  OnFiles(SubsystemWrites(name, r, update), FilesOf(name))
  <1>1. CASE name = "cpuset"
    BY <1>1, CpuSetFiles DEF SubsystemWrites, FilesOf
  <1>2. CASE name = "cpu"
    BY <1>2, CpuFiles DEF SubsystemWrites
  <1>3. CASE name = "devices"
    BY <1>3, DevicesFiles DEF SubsystemWrites, FilesOf
  <1>4. CASE name = "memory"
    BY <1>4, MemoryFiles DEF SubsystemWrites
  <1>5. CASE name = "pids"
    BY <1>5, PidsFiles DEF SubsystemWrites, FilesOf
  <1>6. CASE name = "blkio"
    BY <1>6, BlkioFiles DEF SubsystemWrites
  <1>7. CASE name = "hugetlb"
    BY <1>7, HugeTLBFiles DEF SubsystemWrites, FilesOf
  <1>8. CASE name = "net_cls"
    BY <1>8, FewWrites DEF SubsystemWrites, FilesOf, NetClsWrites
  <1>9. CASE name = "net_prio"
    BY <1>9, NetPrioFiles DEF SubsystemWrites, FilesOf
  <1>10. CASE name \notin {"cpuset", "cpu", "devices", "memory", "pids", "blkio", "hugetlb",
                           "net_cls", "net_prio"}
    BY <1>10, FewWrites DEF SubsystemWrites
  <1> QED
    BY <1>1, <1>2, <1>3, <1>4, <1>5, <1>6, <1>7, <1>8, <1>9, <1>10

-----------------------------------------------------------------------------
(* Folds.  FoldLeft takes the greatest position of a set of them last.     *)

\* The last of n positions is the greatest; without it n - 1 are left.
LEMMA GreatestPosition ==
    ASSUME NEW n \in Nat, n # 0
    PROVE  /\ \A s \in SUBSET (1..n) : n \in s => Max(s) = n
           /\ \A s \in SUBSET (1..n) : n \notin s => s \in SUBSET (1..(n - 1))
           /\ \A s \in SUBSET (1..n) : n \in s => s \ {n} \in SUBSET (1..(n - 1))
           /\ Max(1..n) = n /\ (1..n) \ {n} = 1..(n - 1) /\ n - 1 \in Nat
  <1>1. ASSUME NEW s \in SUBSET (1..n), n \in s PROVE Max(s) = n
    <2>1. n \in s /\ \A y \in s : n >= y
      BY <1>1
    <2>2. Max(s) \in s /\ \A y \in s : Max(s) >= y
      BY <2>1 DEF Max
    <2> DEFINE m == Max(s)
    <2> HIDE DEF m
    <2>3. m \in s /\ m >= n /\ n >= m
      BY <2>1, <2>2 DEF m
    <2>4. m \in 1..n
      BY <2>3
    <2>5. m = n
      BY <2>3, <2>4
    <2> QED
      BY <2>5 DEF m
  <1>2. n \in 1..n /\ 1..n \in SUBSET (1..n)
    OBVIOUS
  <1> QED
    BY <1>1, <1>2

\* A nonempty set of positions has a greatest one, which is in it.
LEMMA GreatestIn ==
    ASSUME NEW n \in Nat, NEW s \in SUBSET (1..n), s # {} PROVE Max(s) \in s
  <1> DEFINE T == {n - i : i \in s}
  <1>0. \A i \in s : i \in Nat /\ n - i \in Nat
    OBVIOUS
  <1>1. T \in SUBSET Nat /\ T # {}
    BY <1>0
  <1>2. PICK x \in T : \A y \in T : x <= y
    <2> HIDE DEF T
    <2> QED
      BY <1>1, HasMin
  <1>3. PICK i \in s : x = n - i
    BY <1>2
  <1>4. \A j \in s : i >= j
    <2> TAKE j \in s
    <2>1. n - j \in T
      OBVIOUS
    <2>2. n - i <= n - j /\ i \in Nat /\ j \in Nat
      BY <1>0, <1>2, <1>3, <2>1
    <2> HIDE DEF T
    <2> QED
      BY <2>2
  <1> QED
    BY <1>3, <1>4 DEF Max

\* The writes of WriteAll.
Writing(g, base, ws, above, top, refused, n) ==
    g = [s \in SUBSET (1..n) |->
            IF s = {} THEN base
            ELSE WriteOne(g[s \ {Max(s)}], ws[Max(s)], above, top, refused)]

\* FoldLeft of WriteAll as a function of how far it has come.
LEMMA WritingExists ==
    ASSUME NEW base, NEW ws, NEW above, NEW top, NEW refused, NEW n \in Nat
    PROVE  \E g : Writing(g, base, ws, above, top, refused, n)
  <1> DEFINE Good(k) == \E g : Writing(g, base, ws, above, top, refused, k)
             Bad == {k \in Nat : ~ Good(k)}
  <1>1. SUFFICES ASSUME Bad # {} PROVE FALSE
    OBVIOUS
  <1>2. PICK k \in Bad : \A l \in Bad : k <= l
    BY <1>1, HasMin
  <1>3. CASE k = 0
    <2> DEFINE g == [s \in SUBSET (1..0) |-> base]
    <2>1. SUBSET (1..0) = {{}}
      OBVIOUS
    <2>2. Writing(g, base, ws, above, top, refused, 0)
      BY <2>1 DEF Writing
    <2> QED
      BY <1>2, <1>3, <2>2
  <1>4. CASE k # 0
    <2>1. k \in Nat /\ k - 1 \in Nat /\ k - 1 \notin Bad
      BY <1>2, <1>4
    <2>2. PICK f : Writing(f, base, ws, above, top, refused, k - 1)
      BY <2>1
    <2> HIDE DEF Bad
    <2> DEFINE g == [s \in SUBSET (1..k) |->
                        IF k \in s THEN WriteOne(f[s \ {k}], ws[k], above, top, refused) ELSE f[s]]
    <2>3. ASSUME NEW s \in SUBSET (1..k)
          PROVE  g[s] = IF s = {} THEN base
                        ELSE WriteOne(g[s \ {Max(s)}], ws[Max(s)], above, top, refused)
      <3>1. CASE k \in s
        <4>1. Max(s) = k /\ s \ {k} \in SUBSET (1..(k - 1)) /\ s # {}
          BY <1>4, <2>1, <3>1, GreatestPosition
        <4>2. s \ {k} \in SUBSET (1..k) /\ k \notin s \ {k}
          OBVIOUS
        <4>3. g[s] = WriteOne(f[s \ {k}], ws[k], above, top, refused) /\ g[s \ {k}] = f[s \ {k}]
          BY <3>1, <4>2
        <4> QED
          BY <4>1, <4>3
      <3>2. CASE k \notin s
        <4>1. s \in SUBSET (1..(k - 1)) /\ g[s] = f[s]
          BY <1>4, <2>1, <3>2, GreatestPosition
        <4>2. f[s] = IF s = {} THEN base
                     ELSE WriteOne(f[s \ {Max(s)}], ws[Max(s)], above, top, refused)
          BY <2>2, <4>1 DEF Writing
        <4>3. s \ {Max(s)} \in SUBSET (1..k) /\ k \notin s \ {Max(s)}
          BY <3>2
        <4>4. g[s \ {Max(s)}] = f[s \ {Max(s)}]
          BY <4>3
        <4> QED
          BY <4>1, <4>2, <4>4
      <3> QED
        BY <3>1, <3>2
    <2>4. g = [s \in SUBSET (1..k) |-> g[s]]
      OBVIOUS
    <2> HIDE DEF g
    <2>5. Writing(g, base, ws, above, top, refused, k)
      BY <2>3, <2>4 DEF Writing
    <2> QED
      BY <1>2, <2>5 DEF Bad
  <1> QED
    BY <1>3, <1>4

\* WriteAll, step by step.
Writes(h, dir, ws, above, top, refused) ==
    /\ h[0] = [ok |-> TRUE, dir |-> dir]
    /\ \A i \in 1..Len(ws) : h[i] = WriteOne(h[i - 1], ws[i], above, top, refused)
    /\ WriteAll(dir, ws, above, top, refused) = h[Len(ws)]

\* There is such a function, and it ends in the result of WriteAll.
LEMMA WriteAllSteps ==
    ASSUME NEW dir, NEW ws, IsList(ws), NEW above, NEW top, NEW refused
    PROVE  \E h : Writes(h, dir, ws, above, top, refused)
  <1> DEFINE n == Len(ws)
             base == [ok |-> TRUE, dir |-> dir]
             g == CHOOSE g : Writing(g, base, ws, above, top, refused, n)
             h == [i \in 0..n |-> g[1..i]]
  <1>1. n \in Nat /\ DOMAIN ws = 1..n
    BY ListIsSeq DEF IsList
  <1>2. WriteAll(dir, ws, above, top, refused) = g[1..n]
    BY <1>1 DEF WriteAll, FoldLeft, MapThenFoldSet, Writing
  <1>3. Writing(g, base, ws, above, top, refused, n)
    BY <1>1, WritingExists
  <1> HIDE DEF g, n, base
  <1>4. \A s \in SUBSET (1..n) :
            g[s] = IF s = {} THEN base
                   ELSE WriteOne(g[s \ {Max(s)}], ws[Max(s)], above, top, refused)
    BY <1>3 DEF Writing
  <1>5. h[0] = base
    <2>1. 1..0 = {} /\ {} \in SUBSET (1..n) /\ 0 \in 0..n
      BY <1>1
    <2> QED
      BY <1>4, <2>1
  <1>6. ASSUME NEW i \in 1..n PROVE h[i] = WriteOne(h[i - 1], ws[i], above, top, refused)
    <2>1. i \in Nat /\ i # 0 /\ i \in 0..n /\ i - 1 \in 0..n /\ 1..i \in SUBSET (1..n) /\ 1..i # {}
      BY <1>1
    <2>2. Max(1..i) = i /\ (1..i) \ {i} = 1..(i - 1)
      BY <2>1, GreatestPosition
    <2> QED
      BY <1>4, <2>1, <2>2
  <1>7. h[n] = g[1..n]
    BY <1>1
  <1> HIDE DEF h
  <1>8. Writes(h, dir, ws, above, top, refused)
    BY <1>2, <1>5, <1>6, <1>7 DEF Writes, n, base
  <1> QED
    BY <1>8

-----------------------------------------------------------------------------
(* What a write changes.                                                   *)

\* A file is the same in two directories.
Same(d, e, file) ==
    /\ file \in DOMAIN d <=> file \in DOMAIN e
    /\ file \in DOMAIN d => d[file] = e[file]

\* Being the same is transitive.
LEMMA SameIsTransitive ==
    ASSUME NEW d, NEW e, NEW f, NEW file, Same(d, e, file), Same(e, f, file) PROVE Same(d, f, file)
  BY DEF Same

\* One file over a directory.
LEMMA OneOver ==
    ASSUME NEW file, NEW v, NEW d, NEW e, e = Over(File(file, v), d)
    PROVE  /\ DOMAIN e = DOMAIN d \cup {file} /\ e[file] = v
           /\ \A f : f # file => Same(d, e, f)
  <1> DEFINE p == File(file, v)
  <1>1. p = [x \in {file} |-> v]
    BY DEF File
  <1>2. DOMAIN p = {file} /\ p[file] = v
    BY <1>1
  <1>3. e = [x \in DOMAIN p \cup DOMAIN d |-> IF x \in DOMAIN p THEN p[x] ELSE d[x]]
    BY DEF Over
  <1> HIDE DEF p
  <1>4. /\ DOMAIN e = {file} \cup DOMAIN d /\ e[file] = v
        /\ \A f \in DOMAIN d : f # file => e[f] = d[f]
    BY <1>2, <1>3
  <1>5. \A f : f # file => Same(d, e, f)
    BY <1>4 DEF Same
  <1> QED
    BY <1>4, <1>5

\* Put changes its file only: rules are applied, anything else is the value.
LEMMA PutOne ==
    ASSUME NEW d, NEW w, NEW e, e = Put(d, w)
    PROVE  /\ DOMAIN e = DOMAIN d \cup {w.file}
           /\ \A f : f # w.file => Same(d, e, f)
           /\ w.file # "devices" => e[w.file] = w.value
           /\ w.file = "devices" => e["devices"] =
                  Permitted(Content(d, "devices", Permissions), <<w.value>>)
  <1>1. CASE w.file = "devices"
    <2> DEFINE v == Permitted(Content(d, "devices", Permissions), <<w.value>>)
    <2>1. e = Over(File("devices", v), d)
      BY <1>1 DEF Put
    <2> HIDE DEF v
    <2>2. /\ DOMAIN e = DOMAIN d \cup {"devices"} /\ e["devices"] = v
          /\ \A f : f # "devices" => Same(d, e, f)
      BY <2>1, OneOver
    <2> QED
      BY <1>1, <2>2 DEF v
  <1>2. CASE w.file # "devices"
    <2> DEFINE file == w.file
               v == w.value
    <2>1. e = Over(File(file, v), d)
      BY <1>2 DEF Put
    <2> HIDE DEF file, v
    <2>2. /\ DOMAIN e = DOMAIN d \cup {file} /\ e[file] = v
          /\ \A f : f # file => Same(d, e, f)
      BY <2>1, OneOver
    <2> QED
      BY <1>2, <2>2 DEF v, file
  <1> QED
    BY <1>1, <1>2

\* Any file but that of the devices has the value written.
LEMMA PutValue ==
    ASSUME NEW d, NEW w, NEW e, e = Put(d, w), w.file # "devices"
    PROVE  w.file \in DOMAIN e /\ e[w.file] = w.value
  <1>1. w.file \in DOMAIN e
    <2>1. DOMAIN e = DOMAIN d \cup {w.file}
      BY PutOne, Zenon
    <2> QED
      BY <2>1
  <1>2. e[w.file] = w.value
    BY PutOne, Zenon
  <1> QED
    BY <1>1, <1>2

\* A write, done or refused, changes its file at most.
LEMMA PutOrNot ==
    ASSUME NEW d, NEW w, NEW e, e = d \/ e = Put(d, w)
    PROVE  DOMAIN d \subseteq DOMAIN e /\ \A f : f # w.file => Same(d, e, f)
  <1>1. CASE e = d
    BY <1>1 DEF Same
  <1>2. CASE e = Put(d, w)
    <2>1. DOMAIN e = DOMAIN d \cup {w.file}
      BY <1>2, PutOne, Zenon
    <2>2. \A f : f # w.file => Same(d, e, f)
      BY <1>2, PutOne, Zenon
    <2> QED
      BY <2>1, <2>2
  <1> QED
    BY <1>1, <1>2

\* What WriteAll goes through.
IsState(s) == s.ok \in BOOLEAN /\ s = [ok |-> s.ok, dir |-> s.dir]

\* One write: its file alone changes, and only if all went well before.
LEMMA OneWrite ==
    ASSUME NEW s, IsState(s), NEW w, NEW above, NEW top, NEW refused,
           NEW t, t = WriteOne(s, w, above, top, refused)
    PROVE  /\ IsState(t)
           /\ t.ok => s.ok
           /\ t.dir = s.dir \/ t.dir = Put(s.dir, w)
           /\ t.ok => \/ Answer(s.dir, w, above, top, refused) = "ok" /\ t.dir = Put(s.dir, w)
                      \/ Answer(s.dir, w, above, top, refused) \in w.passes /\ t.dir = s.dir
           /\ ~s.ok => t = s
  <1> DEFINE a == Answer(s.dir, w, above, top, refused)
  <1>1. t = IF ~s.ok THEN s
            ELSE IF a = "ok" THEN [s EXCEPT !.dir = Put(s.dir, w)]
            ELSE [s EXCEPT !.ok = a \in w.passes]
    BY DEF WriteOne
  <1> HIDE DEF a
  <1>2. CASE ~s.ok
    BY <1>1, <1>2
  <1>3. CASE s.ok /\ a = "ok"
    <2>1. t = [ok |-> s.ok, dir |-> Put(s.dir, w)]
      BY <1>1, <1>3 DEF IsState
    <2> QED
      BY <1>3, <2>1 DEF IsState, a
  <1>4. CASE s.ok /\ a # "ok"
    <2>1. t = [ok |-> a \in w.passes, dir |-> s.dir]
      BY <1>1, <1>4 DEF IsState
    <2>2. t.ok <=> a \in w.passes
      <3>1. t.ok = (a \in w.passes)
        BY <2>1
      <3> QED
        BY <3>1
    <2>3. IsState(t)
      BY <2>1 DEF IsState
    <2> QED
      BY <1>4, <2>1, <2>2, <2>3 DEF a
  <1> QED
    BY <1>2, <1>3, <1>4 DEF IsState

\* The states of WriteAll and what all of its writes leave alone.
LEMMA WriteAllStates ==
    ASSUME NEW dir, NEW ws, IsList(ws), NEW above, NEW top, NEW refused,
           NEW h, Writes(h, dir, ws, above, top, refused)
    PROVE  \A i \in 0..Len(ws) :
               /\ IsState(h[i]) /\ DOMAIN dir \subseteq DOMAIN h[i].dir
               /\ \A j \in i..Len(ws) : h[j].ok => h[i].ok
               /\ \A f : (\A j \in 1..i : ws[j].file # f) => Same(dir, h[i].dir, f)
  <1> DEFINE n == Len(ws)
             Good(i) == /\ IsState(h[i]) /\ DOMAIN dir \subseteq DOMAIN h[i].dir
                        /\ \A f : (\A j \in 1..i : ws[j].file # f) => Same(dir, h[i].dir, f)
             Bad == {i \in 0..n : ~ Good(i)}
  <1>0. n \in Nat
    BY DEF IsList
  <1>1. ASSUME Bad # {} PROVE FALSE
    <2>0. Bad \in SUBSET Nat /\ Bad \subseteq 0..n
      BY <1>0
    <2>1. PICK i \in Bad : \A j \in Bad : i <= j
      <3> HIDE DEF Bad
      <3> QED
        BY <1>1, <2>0, HasMin
    <2>2. CASE i = 0
      <3>1. h[0] = [ok |-> TRUE, dir |-> dir]
        BY DEF Writes
      <3>2. Good(0)
        BY <3>1 DEF IsState, Same
      <3> QED
        BY <2>1, <2>2, <3>2
    <2>3. CASE i # 0
      <3>0. i \in 1..n /\ i - 1 \in 0..n /\ i - 1 \notin Bad
        <4> HIDE DEF Bad
        <4> QED
          BY <1>0, <2>0, <2>1, <2>3
      <3>1. i \in 1..n /\ i - 1 \in 0..n /\ Good(i - 1)
        BY <3>0
      <3>2. h[i] = WriteOne(h[i - 1], ws[i], above, top, refused)
        BY <3>1 DEF Writes
      <3>3. IsState(h[i]) /\ (h[i].dir = h[i - 1].dir \/ h[i].dir = Put(h[i - 1].dir, ws[i]))
        BY <3>1, <3>2, OneWrite
      <3>4. DOMAIN h[i - 1].dir \subseteq DOMAIN h[i].dir
            /\ \A f : f # ws[i].file => Same(h[i - 1].dir, h[i].dir, f)
        BY <3>3, PutOrNot
      <3>6. ASSUME NEW f, \A j \in 1..i : ws[j].file # f PROVE Same(dir, h[i].dir, f)
        <4>1. ws[i].file # f /\ \A j \in 1..(i - 1) : ws[j].file # f
          BY <1>0, <3>1, <3>6
        <4> QED
          BY <3>1, <3>4, <4>1, SameIsTransitive
      <3>7. Good(i)
        BY <3>1, <3>3, <3>4, <3>6
      <3> QED
        BY <2>1, <3>7
    <2> QED
      BY <2>2, <2>3
  <1>2. \A i \in 0..n : Good(i)
    BY <1>1
  <1>3. ASSUME NEW i \in 0..n PROVE \A j \in i..n : h[j].ok => h[i].ok
    <2> DEFINE Late == {j \in i..n : h[j].ok /\ ~ h[i].ok}
    <2>1. ASSUME Late # {} PROVE FALSE
      <3>0. Late \in SUBSET Nat
        BY <1>0
      <3>1. PICK j \in Late : \A l \in Late : j <= l
        <4> HIDE DEF Late
        <4> QED
          BY <2>1, <3>0, HasMin
      <3>2. j \in 1..n /\ j - 1 \in i..n /\ j - 1 \in 0..n /\ j - 1 \notin Late
        BY <1>0, <3>0, <3>1
      <3>3. h[j] = WriteOne(h[j - 1], ws[j], above, top, refused) /\ IsState(h[j - 1])
        BY <1>2, <3>2 DEF Writes
      <3>4. h[j - 1].ok
        BY <3>1, <3>3, OneWrite
      <3> QED
        BY <3>1, <3>2, <3>4
    <2> QED
      BY <2>1
  <1> QED
    BY <1>2, <1>3

\* Files nobody writes to stay as they are; a directory keeps its files.
LEMMA WriteAllElsewhere ==
    ASSUME NEW dir, NEW ws, IsList(ws), NEW above, NEW top, NEW refused,
           NEW res, res = WriteAll(dir, ws, above, top, refused)
    PROVE  /\ IsState(res) /\ DOMAIN dir \subseteq DOMAIN res.dir
           /\ \A f : (\A i \in 1..Len(ws) : ws[i].file # f) => Same(dir, res.dir, f)
  <1>1. PICK h : Writes(h, dir, ws, above, top, refused)
    BY WriteAllSteps
  <1>2. Len(ws) \in 0..Len(ws)
    BY DEF IsList
  <1>3. res = h[Len(ws)]
    BY <1>1 DEF Writes
  <1>4. /\ IsState(h[Len(ws)]) /\ DOMAIN dir \subseteq DOMAIN h[Len(ws)].dir
        /\ \A f : (\A j \in 1..Len(ws) : ws[j].file # f) => Same(dir, h[Len(ws)].dir, f)
    BY <1>1, <1>2, WriteAllStates
  <1> QED
    BY <1>3, <1>4

\* A file that one write is to, which is not passed over, has its value if
\* all went well.
LEMMA WriteAllOnce ==
    ASSUME NEW dir, NEW ws, IsList(ws), NEW above, NEW top, NEW refused,
           NEW i \in 1..Len(ws), ws[i].file # "devices",
           \A j \in 1..Len(ws) : ws[j].file = ws[i].file => j = i,
           \A d : Answer(d, ws[i], above, top, refused) \notin ws[i].passes,
           NEW res, res = WriteAll(dir, ws, above, top, refused), res.ok
    PROVE  ws[i].file \in DOMAIN res.dir /\ res.dir[ws[i].file] = ws[i].value
  <1> DEFINE n == Len(ws)
             f == ws[i].file
  <1>0. n \in Nat
    BY DEF IsList
  <1>1. PICK h : Writes(h, dir, ws, above, top, refused)
    BY WriteAllSteps
  <1>2. \A j \in 0..n : IsState(h[j]) /\ h[j].ok
    <2>1. h[n].ok /\ n \in 0..n /\ \A j \in 0..n : n \in j..n
      BY <1>0, <1>1 DEF Writes
    <2> QED
      BY <1>1, <2>1, WriteAllStates
  <1> DEFINE Late == {j \in i..n : ~ (f \in DOMAIN h[j].dir /\ h[j].dir[f] = ws[i].value)}
  <1>3. ASSUME Late # {} PROVE FALSE
    <2>0. Late \in SUBSET Nat
      BY <1>0
    <2>1. PICK j \in Late : \A l \in Late : j <= l
      <3> HIDE DEF Late
      <3> QED
        BY <1>3, <2>0, HasMin
    <2>2. j \in 1..n /\ j - 1 \in 0..n /\ j \in 0..n
      BY <1>0, <2>0, <2>1
    <2>3. h[j] = WriteOne(h[j - 1], ws[j], above, top, refused) /\ IsState(h[j - 1]) /\ h[j].ok
      BY <1>1, <1>2, <2>2 DEF Writes
    <2>4. CASE j = i
      <3>1. h[j].dir = Put(h[j - 1].dir, ws[i])
        <4> DEFINE d == h[j - 1].dir
        <4>1. Answer(d, ws[i], above, top, refused) \notin ws[i].passes
          OBVIOUS
        <4> QED
          BY <2>3, <2>4, <4>1, OneWrite
      <3> QED
        <4>1. f \in DOMAIN h[j].dir /\ h[j].dir[f] = ws[i].value
          BY <3>1, PutValue
        <4> QED
          BY <2>1, <4>1
    <2>5. CASE j # i
      <3>1. j - 1 \in i..n /\ j - 1 \notin Late /\ ws[j].file # f
        BY <1>0, <2>0, <2>1, <2>2, <2>5
      <3>2. h[j].dir = h[j - 1].dir \/ h[j].dir = Put(h[j - 1].dir, ws[j])
        BY <2>3, OneWrite
      <3>3. Same(h[j - 1].dir, h[j].dir, f)
        BY <3>1, <3>2, PutOrNot
      <3> QED
        BY <2>1, <3>1, <3>3 DEF Same
    <2> QED
      BY <2>4, <2>5
  <1>4. n \in i..n
    BY <1>0
  <1> QED
    BY <1>1, <1>3, <1>4 DEF Writes

-----------------------------------------------------------------------------
(* Manager::set.                                                           *)

\* A subsystem changes no file somebody asks about but its own.
LEMMA SubsystemElsewhere ==
    ASSUME NEW r, IsResources(r), NEW name, NEW dir, NEW update, NEW refused,
           NEW x, x = SetSubsystem(name, dir, r, update, refused)
    PROVE  /\ IsState(x) /\ DOMAIN dir \subseteq DOMAIN x.dir
           /\ \A file \in Tracked : name # Owner(file) => Same(dir, x.dir, file)
  <1> DEFINE copied == name = "cpuset" /\ ~update
             start == IF copied THEN CopiedFromParent(dir) ELSE dir
             above == IF update THEN parent ELSE ParentAfterCopy
             ws == SubsystemWrites(name, r, update)
  <1>1. /\ DOMAIN dir \subseteq DOMAIN start
        /\ \A file \in Tracked : name # Owner(file) => Same(dir, start, file)
    <2>1. CASE copied
      <3>1. DOMAIN ParentAfterCopy = CpusetFiles
        BY DEF ParentAfterCopy
      <3>2. start = [f \in CpusetFiles \cup DOMAIN dir |->
                        IF f \in CpusetFiles THEN ParentAfterCopy[f] ELSE dir[f]]
        BY <2>1, <3>1 DEF CopiedFromParent, Over
      <3>3. \A file \in Tracked : file \in CpusetFiles => name = Owner(file)
        BY <2>1, OwnerOfTracked DEF Tracked, LimitFiles, CpusetFiles
      <3> HIDE DEF start
      <3> QED
        BY <3>2, <3>3 DEF Same
    <2>2. CASE ~copied
      BY <2>2 DEF Same
    <2> QED
      BY <2>1, <2>2
  <1>2. CASE name \notin KnownSubsystems
    <2>1. x = [ok |-> FALSE, dir |-> dir]
      BY <1>2 DEF SetSubsystem
    <2> QED
      BY <2>1 DEF IsState, Same
  <1>3. CASE name \in KnownSubsystems
    <2>1. x = WriteAll(start, ws, above, Top, refused)
      BY <1>3 DEF SetSubsystem
    <2>2. OnFiles(ws, FilesOf(name))
      BY SubsystemFiles
    <2> HIDE DEF start, ws, above
    <2>3. IsList(ws)
      BY <2>2 DEF OnFiles
    <2>4. /\ IsState(x) /\ DOMAIN start \subseteq DOMAIN x.dir
          /\ \A f : (\A i \in 1..Len(ws) : ws[i].file # f) => Same(start, x.dir, f)
      BY <2>1, <2>3, WriteAllElsewhere
    <2>5. ASSUME NEW file \in Tracked, name # Owner(file) PROVE Same(dir, x.dir, file)
      <3>1. \A i \in 1..Len(ws) : ws[i].file # file
        BY <2>2, <2>5, NoOthers DEF OnFiles
      <3> QED
        BY <1>1, <2>4, <2>5, <3>1, SameIsTransitive
    <2> QED
      BY <1>1, <2>4, <2>5
  <1> QED
    BY <1>2, <1>3

\* set(): of such a file a success leaves what its subsystem left, a failure
\* that or what there was.
LEMMA SetOne ==
    ASSUME NEW r, IsResources(r), NEW dir, NEW update, NEW refused,
           NEW had, NEW res \in SetResults(had, dir, r, update, refused), NEW file \in Tracked,
           NEW x, x = SetSubsystem(Owner(file), dir, r, update, refused)
    PROVE  /\ Owner(file) \notin Subsystems => Same(dir, res.dir, file)
           /\ Owner(file) \in Subsystems /\ res.ok => x.ok /\ Same(x.dir, res.dir, file)
           /\ Same(dir, res.dir, file) \/ Same(x.dir, res.dir, file)
           /\ res.ok \in BOOLEAN
  <1> DEFINE sub == [n \in Subsystems |-> SetSubsystem(n, dir, r, update, refused)]
             new(n) == {f \in DOMAIN sub[n].dir : f \notin DOMAIN dir \/ sub[n].dir[f] # dir[f]}
             changes == UNION {{[name |-> n, file |-> f, value |-> sub[n].dir[f]] : f \in new(n)} :
                                  n \in Subsystems}
             by(ns) == {w \in changes : w.name \in ns}
             after(ns) == Over([f \in {w.file : w \in by(ns)} |->
                                   (CHOOSE w \in by(ns) : w.file = f).value], dir)
             fails == {n \in Subsystems : ~sub[n].ok}
             others == {n \in Subsystems \ fails : n \notin had \/ by({n}) # {}}
             o == Owner(file)
  <1>1. SetResults(had, dir, r, update, refused) =
            IF fails = {} THEN {[ok |-> TRUE, dir |-> after(Subsystems), made |-> Subsystems]}
            ELSE {[ok |-> FALSE, dir |-> after(done), made |-> had \cup done] :
                     done \in {d \in SUBSET (others \cup fails) : \E f \in fails : d \cap fails = {f}}}
    BY DEF SetResults
  <1>2. PICK ns \in SUBSET Subsystems :
            /\ res.dir = after(ns) /\ res.ok \in BOOLEAN
            /\ res.ok => ns = Subsystems /\ fails = {}
    <2> HIDE DEF sub, new, after, by
    <2>1. CASE fails = {}
      <3>1. res = [ok |-> TRUE, dir |-> after(Subsystems), made |-> Subsystems]
        BY <1>1, <2>1
      <3> QED
        BY <2>1, <3>1
    <2>2. CASE fails # {}
      <3>1. PICK done \in SUBSET (others \cup fails) : res = [ok |-> FALSE, dir |-> after(done), made |-> had \cup done]
        BY <1>1, <2>2
      <3> QED
        BY <3>1
    <2> QED
      BY <2>1, <2>2
  <1>3. ASSUME NEW n \in Subsystems
        PROVE  /\ IsState(sub[n]) /\ DOMAIN dir \subseteq DOMAIN sub[n].dir
               /\ n # o => file \notin new(n)
    <2>1. sub[n] = SetSubsystem(n, dir, r, update, refused)
      OBVIOUS
    <2> HIDE DEF sub
    <2>2. /\ IsState(sub[n]) /\ DOMAIN dir \subseteq DOMAIN sub[n].dir
          /\ n # o => Same(dir, sub[n].dir, file)
      BY <2>1, SubsystemElsewhere
    <2> QED
      BY <2>2 DEF Same
  <1>4. o \in Subsystems => sub[o] = x
    OBVIOUS
  <1> DEFINE E == [f \in {w.file : w \in by(ns)} |-> (CHOOSE w \in by(ns) : w.file = f).value]
  <1>5. /\ DOMAIN res.dir = {w.file : w \in by(ns)} \cup DOMAIN dir
        /\ file \in DOMAIN res.dir => res.dir[file] = IF file \in DOMAIN E THEN E[file] ELSE dir[file]
    <2> HIDE DEF by
    <2> QED
      BY <1>2 DEF Over
  <1>6. ASSUME NEW w \in by(ns), w.file = file
        PROVE  o \in ns /\ file \in new(o) /\ w.value = sub[o].dir[file]
    <2>1. PICK n \in Subsystems : \E f \in new(n) : w = [name |-> n, file |-> f, value |-> sub[n].dir[f]]
      <3> HIDE DEF new, sub
      <3> QED
        BY <1>6
    <2> HIDE DEF new, sub
    <2>2. w.name = n /\ file \in new(n) /\ w.value = sub[n].dir[file]
      BY <1>6, <2>1
    <2>3. n \in ns
      BY <1>6, <2>2
    <2> QED
      BY <1>3, <2>2, <2>3
  <1>7. CASE o \in ns /\ file \in new(o)
    <2> DEFINE v == [name |-> o, file |-> file, value |-> sub[o].dir[file]]
    <2>1. v \in by(ns) /\ v.file = file
      <3> HIDE DEF new, sub, o
      <3> QED
        BY <1>2, <1>7
    <2> HIDE DEF v
    <2>2. file \in DOMAIN E /\ E[file] = sub[o].dir[file]
      <3> HIDE DEF by, new, sub, o
      <3> DEFINE w == CHOOSE w \in by(ns) : w.file = file
      <3>1. w \in by(ns) /\ w.file = file
        BY <2>1
      <3>2. file \in DOMAIN E /\ E[file] = w.value
        BY <2>1
      <3> HIDE DEF w
      <3> QED
        BY <1>6, <3>1, <3>2
    <2>3. file \in DOMAIN res.dir /\ res.dir[file] = sub[o].dir[file]
      <3> HIDE DEF by, new, sub, o
      <3> QED
        BY <1>5, <2>2
    <2>3a. file \in DOMAIN sub[o].dir
      BY <1>7
    <2>4. Same(x.dir, res.dir, file)
      BY <1>2, <1>4, <1>7, <2>3, <2>3a DEF Same
    <2> QED
      BY <1>2, <1>4, <1>7, <2>4
  <1>8. CASE ~(o \in ns /\ file \in new(o))
    <2>1. file \notin {w.file : w \in by(ns)}
      <3> HIDE DEF by, new, sub, o
      <3> QED
        BY <1>6, <1>8
    <2>2. Same(dir, res.dir, file)
      <3> HIDE DEF by
      <3> QED
        BY <1>5, <2>1 DEF Same
    <2>3. ASSUME o \in Subsystems, res.ok PROVE x.ok /\ Same(x.dir, res.dir, file)
      <3>1. o \in ns /\ o \notin fails /\ file \notin new(o)
        BY <1>2, <1>8, <2>3
      <3>2. sub[o].ok /\ sub[o] = x
        BY <1>4, <2>3, <3>1
      <3>3. Same(x.dir, dir, file)
        <4>1. DOMAIN dir \subseteq DOMAIN sub[o].dir
          BY <1>3, <2>3
        <4> QED
          BY <3>1, <3>2, <4>1 DEF Same
      <3> QED
        BY <2>2, <3>2, <3>3, SameIsTransitive
    <2> QED
      BY <1>2, <2>2, <2>3
  <1> QED
    BY <1>7, <1>8

-----------------------------------------------------------------------------
(* What a request asks for, and what it gets.                              *)

\* Such a file, but for that of the devices, and its subsystem.
LEMMA TrackedNames ==
    ASSUME NEW file \in Tracked, file # "devices"
    PROVE  Owner(file) # "devices" /\ Owner(file) \in KnownSubsystems
           /\ (file # "cpuset.cpus" => Owner(file) # "cpuset")
  BY OwnerOfTracked DEF Tracked, LimitFiles, KnownSubsystems

\* A file is wanted if its subsystem writes it; the value is that of a write.
LEMMA WantedFile ==
    ASSUME NEW r, IsResources(r), NEW update, NEW file \in Tracked, file # "devices",
           NEW ws, ws = SubsystemWrites(Owner(file), r, update)
    PROVE  /\ file \in DOMAIN Wanted(r, update) <=>
                  Owner(file) \in Subsystems /\ \E i \in 1..Len(ws) : ws[i].file = file
           /\ file \in DOMAIN Wanted(r, update) =>
                  \E i \in 1..Len(ws) : ws[i].file = file /\ Wanted(r, update)[file] = ws[i].value
  <1> DEFINE all == UNION {Range(SubsystemWrites(n, r, update)) : n \in Subsystems \ {"devices"}}
             o == Owner(file)
  <1>1. Wanted(r, update) = [f \in {w.file : w \in all} |-> (CHOOSE w \in all : w.file = f).value]
    BY DEF Wanted
  <1>2. OnFiles(ws, FilesOf(o)) /\ DOMAIN ws = 1..Len(ws)
    BY SubsystemFiles, ListIsSeq DEF OnFiles
  <1>3. ASSUME NEW w \in all, w.file = file
        PROVE  o \in Subsystems /\ \E i \in 1..Len(ws) : w = ws[i]
    <2>1. PICK n \in Subsystems \ {"devices"} : w \in Range(SubsystemWrites(n, r, update))
      BY <1>3
    <2> DEFINE vs == SubsystemWrites(n, r, update)
    <2>2. OnFiles(vs, FilesOf(n)) /\ DOMAIN vs = 1..Len(vs)
      BY SubsystemFiles, ListIsSeq DEF OnFiles
    <2>3. PICK i \in 1..Len(vs) : w = vs[i]
      <3> HIDE DEF vs
      <3>1. w \in Range(vs)
        BY <2>1 DEF vs
      <3> QED
        BY <2>2, <3>1 DEF Range
    <2>4. file \in FilesOf(n)
      <3> HIDE DEF vs
      <3> QED
        BY <1>3, <2>2, <2>3 DEF OnFiles
    <2>5. n = o
      BY <2>4, NoOthers
    <2> QED
      BY <2>3, <2>5
  <1>4. ASSUME o \in Subsystems, NEW i \in 1..Len(ws) PROVE ws[i] \in all
    <2>1. o \in Subsystems \ {"devices"}
      BY <1>4, TrackedNames
    <2>2. ws[i] \in Range(ws)
      BY <1>2, <1>4 DEF Range
    <2> HIDE DEF o
    <2>3. Range(ws) = Range(SubsystemWrites(o, r, update))
      BY DEF o
    <2> QED
      BY <2>1, <2>2, <2>3
  <1> HIDE DEF all, o
  <1>5. file \in DOMAIN Wanted(r, update) <=> \E w \in all : w.file = file
    BY <1>1
  <1>6. ASSUME file \in DOMAIN Wanted(r, update)
        PROVE  \E w \in all : w.file = file /\ Wanted(r, update)[file] = w.value
    <2> DEFINE w == CHOOSE w \in all : w.file = file
    <2>1. w \in all /\ w.file = file
      BY <1>5, <1>6
    <2>2. Wanted(r, update)[file] = w.value
      BY <1>1, <1>6
    <2> QED
      BY <2>1, <2>2
  <1> QED
    BY <1>3, <1>4, <1>5, <1>6 DEF o

\* What is not wanted stays as it is; the cpus are the parent's at first.
LEMMA NotWanted ==
    ASSUME NEW r, IsResources(r), NEW dir, NEW update, NEW refused,
           NEW had, NEW res \in SetResults(had, dir, r, update, refused),
           NEW file \in Tracked, file # "devices", file \notin DOMAIN Wanted(r, update)
    PROVE  /\ update \/ file # "cpuset.cpus" => Same(dir, res.dir, file)
           /\ ~update /\ file = "cpuset.cpus" /\ res.ok =>
                  file \in DOMAIN res.dir /\ res.dir[file] = ParentAfterCopy[file]
  <1> DEFINE o == Owner(file)
             ws == SubsystemWrites(o, r, update)
             x == SetSubsystem(o, dir, r, update, refused)
             start == IF o = "cpuset" /\ ~update THEN CopiedFromParent(dir) ELSE dir
             above == IF update THEN parent ELSE ParentAfterCopy
  <1>1. /\ o \notin Subsystems => Same(dir, res.dir, file)
        /\ o \in Subsystems /\ res.ok => x.ok /\ Same(x.dir, res.dir, file)
        /\ Same(dir, res.dir, file) \/ Same(x.dir, res.dir, file)
    BY SetOne
  <1>2. x = WriteAll(start, ws, above, Top, refused)
    BY TrackedNames DEF SetSubsystem
  <1>3. IsList(ws)
    BY SubsystemFiles DEF OnFiles
  <1>4. ASSUME o \in Subsystems PROVE Same(start, x.dir, file)
    <2>1. \A i \in 1..Len(ws) : ws[i].file # file
      BY <1>4, WantedFile
    <2> HIDE DEF ws, x, start, above
    <2> QED
      BY <1>2, <1>3, <2>1, WriteAllElsewhere
  <1>5. ASSUME update \/ file # "cpuset.cpus" PROVE Same(dir, res.dir, file)
    <2>1. start = dir
      BY <1>5, TrackedNames
    <2> HIDE DEF x, start
    <2> QED
      BY <1>1, <1>4, <2>1, SameIsTransitive
  <1>6. ASSUME ~update, file = "cpuset.cpus", res.ok
        PROVE  file \in DOMAIN res.dir /\ res.dir[file] = ParentAfterCopy[file]
    <2>1. o = "cpuset" /\ o \in Subsystems
      BY <1>6, OwnerOfTracked, GuestAssumption
    <2>2. start = CopiedFromParent(dir)
      BY <1>6, <2>1
    <2>3. file \in DOMAIN start /\ start[file] = ParentAfterCopy[file]
      <3> DEFINE p == ParentAfterCopy
      <3>1. DOMAIN p = CpusetFiles /\ file \in CpusetFiles
        BY <1>6 DEF ParentAfterCopy, CpusetFiles
      <3> HIDE DEF p
      <3>2. start = [f \in DOMAIN p \cup DOMAIN dir |-> IF f \in DOMAIN p THEN p[f] ELSE dir[f]]
        BY <2>2 DEF CopiedFromParent, Over, p
      <3> HIDE DEF start
      <3>3. file \in DOMAIN start /\ start[file] = p[file]
        BY <3>1, <3>2
      <3> QED
        BY <3>3 DEF p
    <2>4. Same(start, res.dir, file)
      <3> HIDE DEF x, start
      <3> QED
        BY <1>1, <1>4, <1>6, <2>1, SameIsTransitive
    <2> QED
      BY <2>3, <2>4 DEF Same
  <1> QED
    BY <1>5, <1>6

-----------------------------------------------------------------------------
(* Limits.                                                                 *)

\* No write of the list, at most one, is to the file.
NoneFor(ws, file) == IsList(ws) /\ \A i \in 1..Len(ws) : ws[i].file # file
OneFor(ws, file, passes) ==
    /\ IsList(ws)
    /\ \A i, j \in 1..Len(ws) : ws[i].file = file /\ ws[j].file = file => i = j
    /\ \A i \in 1..Len(ws) : ws[i].file = file => ws[i].passes = passes

\* No write is at most one.
LEMMA NoneIsOne ==
    ASSUME NEW ws, NEW file, NoneFor(ws, file), NEW passes PROVE OneFor(ws, file, passes)
  BY DEF NoneFor, OneFor

\* Lists of no write and of one.
LEMMA SingleWrites ==
    ASSUME NEW file
    PROVE  /\ NoneFor(<<>>, file)
           /\ \A f, v, p : f # file => NoneFor(W(f, v, p), file)
           /\ \A v, p : OneFor(W(file, v, p), file, p)
  <1>1. NoneFor(<<>>, file)
    BY FewWrites DEF NoneFor, OnFiles
  <1>2. ASSUME NEW f, NEW v, NEW p
        PROVE  /\ IsList(W(f, v, p)) /\ Len(W(f, v, p)) = 1
               /\ W(f, v, p)[1].file = f /\ W(f, v, p)[1].passes = p
    <2>1. IsList(W(f, v, p))
      BY FewWrites DEF OnFiles
    <2> QED
      BY <2>1 DEF W
  <1>3. \A f, v, p : f # file => NoneFor(W(f, v, p), file)
    BY <1>2 DEF NoneFor
  <1>4. \A v, p : OneFor(W(file, v, p), file, p)
    BY <1>2 DEF OneFor
  <1> QED
    BY <1>1, <1>3, <1>4

\* Two lists without a write to the file.
LEMMA NoneInARow ==
    ASSUME NEW s, NEW t, NEW file, NoneFor(s, file), NoneFor(t, file) PROVE NoneFor(s \o t, file)
  <1>1. /\ IsList(s \o t)
        /\ \A i \in 1..Len(s) : (s \o t)[i] = s[i]
        /\ \A i \in 1..Len(s \o t) : \/ i \in 1..Len(s)
                                     \/ i - Len(s) \in 1..Len(t) /\ (s \o t)[i] = t[i - Len(s)]
    BY ListsInARow DEF NoneFor
  <1> QED
    BY <1>1 DEF NoneFor

\* Two lists, one of them without a write to the file.
LEMMA OneInARow ==
    ASSUME NEW s, NEW t, NEW file, NEW passes,
           \/ OneFor(s, file, passes) /\ NoneFor(t, file)
           \/ NoneFor(s, file) /\ OneFor(t, file, passes)
    PROVE  OneFor(s \o t, file, passes)
  <1>1. /\ IsList(s \o t)
        /\ \A i \in 1..Len(s) : (s \o t)[i] = s[i]
        /\ \A i \in 1..Len(s \o t) : \/ i \in 1..Len(s)
                                     \/ i - Len(s) \in 1..Len(t) /\ (s \o t)[i] = t[i - Len(s)]
    BY ListsInARow DEF NoneFor, OneFor
  <1>2. Len(s) \in Nat /\ Len(s \o t) \in Nat
    BY <1>1 DEF NoneFor, OneFor, IsList
  <1>3. CASE OneFor(s, file, passes) /\ NoneFor(t, file)
    <2>1. \A i \in 1..Len(s \o t) : (s \o t)[i].file = file => i \in 1..Len(s)
      BY <1>1, <1>3 DEF NoneFor
    <2> QED
      BY <1>1, <1>3, <2>1 DEF OneFor
  <1>4. CASE NoneFor(s, file) /\ OneFor(t, file, passes)
    <2>1. \A i \in 1..Len(s \o t) : (s \o t)[i].file = file =>
              i - Len(s) \in 1..Len(t) /\ (s \o t)[i] = t[i - Len(s)]
      BY <1>1, <1>4 DEF NoneFor
    <2>2. ASSUME NEW i \in 1..Len(s \o t), NEW j \in 1..Len(s \o t),
                 (s \o t)[i].file = file, (s \o t)[j].file = file
          PROVE  i = j
      <3>1. i - Len(s) = j - Len(s)
        BY <1>4, <2>1, <2>2 DEF OneFor
      <3> QED
        BY <1>2, <3>1
    <2> QED
      BY <1>1, <1>4, <2>1, <2>2 DEF OneFor
  <1> QED
    BY <1>3, <1>4

\* The limit and the swap limit are written once.
LEMMA MemoryLimitsOnce ==
    ASSUME NEW r, NEW update, NEW ws, ws = MemoryWrites(r, update)
    PROVE  /\ OneFor(ws, "memory.limit_in_bytes", {})
           /\ OneFor(ws, "memory.memsw.limit_in_bytes", {"EACCES"})
  <1> DEFINE kmem == IF update THEN <<>>
                     ELSE Try("memory.kmem.limit_in_bytes", 1) \o Try("memory.kmem.limit_in_bytes", -1)
             limit == Nonzero("memory.limit_in_bytes", r.Memory.Limit)
             soft == Nonzero("memory.soft_limit_in_bytes", r.Memory.Reservation)
             swap == TryNonzero("memory.memsw.limit_in_bytes", r.Memory.Swap)
             kern == TryNonzero("memory.kmem.limit_in_bytes", r.Memory.Kernel)
             tcp == Nonzero("memory.kmem.tcp.limit_in_bytes", r.Memory.KernelTCP)
             swappiness == IF r.Memory.Swappiness <= 100
                           THEN Must("memory.swappiness", r.Memory.Swappiness) ELSE <<>>
             oom == IF r.Memory.DisableOOMKiller THEN Must("memory.oom_control", 1) ELSE <<>>
  <1>1. ws = IF r.Memory = NoValue THEN <<>>
             ELSE kmem \o limit \o soft \o swap \o kern \o tcp \o swappiness \o oom
    BY DEF MemoryWrites
  <1>2. ASSUME NEW file \in {"memory.limit_in_bytes", "memory.memsw.limit_in_bytes"}
        PROVE  /\ NoneFor(kmem, file) /\ NoneFor(soft, file) /\ NoneFor(kern, file)
               /\ NoneFor(tcp, file) /\ NoneFor(swappiness, file) /\ NoneFor(oom, file)
    <2>1. /\ NoneFor(soft, file) /\ NoneFor(kern, file) /\ NoneFor(tcp, file)
          /\ NoneFor(swappiness, file) /\ NoneFor(oom, file)
      BY <1>2, SingleWrites DEF Nonzero, TryNonzero, Must
    <2>2. NoneFor(Try("memory.kmem.limit_in_bytes", 1), file)
          /\ NoneFor(Try("memory.kmem.limit_in_bytes", -1), file)
      BY <1>2, SingleWrites DEF Try
    <2>3. NoneFor(kmem, file)
      BY <2>2, SingleWrites, NoneInARow
    <2> QED
      BY <2>1, <2>3
  <1>3. OneFor(limit, "memory.limit_in_bytes", {}) /\ NoneFor(limit, "memory.memsw.limit_in_bytes")
    BY SingleWrites, NoneIsOne DEF Nonzero, Must
  <1>4. /\ OneFor(swap, "memory.memsw.limit_in_bytes", {"EACCES"})
        /\ NoneFor(swap, "memory.limit_in_bytes")
    BY SingleWrites, NoneIsOne DEF TryNonzero
  <1> HIDE DEF kmem, limit, soft, swap, kern, tcp, swappiness, oom
  <1>5. OneFor(kmem \o limit \o soft \o swap \o kern \o tcp \o swappiness \o oom,
               "memory.limit_in_bytes", {})
    <2> DEFINE f == "memory.limit_in_bytes"
    <2>1. OneFor(kmem \o limit \o soft, f, {})
      BY <1>2, <1>3, OneInARow
    <2>2. OneFor(kmem \o limit \o soft \o swap \o kern, f, {})
      BY <1>2, <1>4, <2>1, OneInARow
    <2> QED
      BY <1>2, <2>2, OneInARow
  <1>6. OneFor(kmem \o limit \o soft \o swap \o kern \o tcp \o swappiness \o oom,
               "memory.memsw.limit_in_bytes", {"EACCES"})
    <2> DEFINE f == "memory.memsw.limit_in_bytes"
    <2>1. NoneFor(kmem \o limit \o soft, f)
      BY <1>2, <1>3, NoneInARow
    <2>2. OneFor(kmem \o limit \o soft \o swap \o kern, f, {"EACCES"})
      BY <1>2, <1>4, <2>1, OneInARow
    <2> QED
      BY <1>2, <2>2, OneInARow
  <1>7. OneFor(<<>>, "memory.limit_in_bytes", {})
        /\ OneFor(<<>>, "memory.memsw.limit_in_bytes", {"EACCES"})
    BY SingleWrites, NoneIsOne
  <1> QED
    BY <1>1, <1>5, <1>6, <1>7

\* Every limit is written once.
LEMMA LimitsOnce ==
    ASSUME NEW r, NEW update, NEW file \in LimitFiles
    PROVE  OneFor(SubsystemWrites(Owner(file), r, update), file,
                  IF file = "memory.memsw.limit_in_bytes" THEN {"EACCES"} ELSE {})
  <1>1. CASE file = "pids.max"
    <2>1. SubsystemWrites(Owner(file), r, update) = PidsWrites(r)
      BY <1>1, OwnerOfTracked DEF SubsystemWrites
    <2>2. OneFor(PidsWrites(r), file, {})
      BY <1>1, SingleWrites, NoneIsOne DEF PidsWrites, Must
    <2> QED
      BY <1>1, <2>1, <2>2
  <1>2. CASE file # "pids.max"
    <2>1. file \in {"memory.limit_in_bytes", "memory.memsw.limit_in_bytes"} /\ Owner(file) = "memory"
      BY <1>2, OwnerOfTracked DEF LimitFiles
    <2>2. SubsystemWrites(Owner(file), r, update) = MemoryWrites(r, update)
      BY <2>1 DEF SubsystemWrites
    <2> QED
      BY <2>1, <2>2, MemoryLimitsOnce
  <1> QED
    BY <1>1, <1>2

\* A success has set the limits that were asked for.
LEMMA LimitsSet ==
    ASSUME NEW r, IsResources(r), NEW dir, NEW update, NEW refused \in SUBSET Refusals,
           NEW had, NEW res \in SetResults(had, dir, r, update, refused), res.ok,
           NEW file \in LimitFiles, file \in DOMAIN Wanted(r, update),
           file = "memory.memsw.limit_in_bytes" => SwapAccounting
    PROVE  file \in DOMAIN res.dir /\ res.dir[file] = Wanted(r, update)[file]
  <1> DEFINE o == Owner(file)
             ws == SubsystemWrites(o, r, update)
             x == SetSubsystem(o, dir, r, update, refused)
             above == IF update THEN parent ELSE ParentAfterCopy
  <1>1. file \in Tracked /\ file # "devices" /\ file # "cpuset.cpus"
    BY DEF Tracked, LimitFiles
  <1>2. PICK i \in 1..Len(ws) : ws[i].file = file /\ Wanted(r, update)[file] = ws[i].value
    BY <1>1, WantedFile
  <1>3. x.ok /\ Same(x.dir, res.dir, file)
    <2>1. o \in Subsystems
      BY <1>1, WantedFile
    <2> QED
      BY <1>1, <2>1, SetOne
  <1>4. x = WriteAll(dir, ws, above, Top, refused)
    BY <1>1, TrackedNames DEF SetSubsystem
  <1>5. OneFor(ws, file, IF file = "memory.memsw.limit_in_bytes" THEN {"EACCES"} ELSE {})
    BY LimitsOnce
  <1>6. IsList(ws) /\ \A j \in 1..Len(ws) : ws[j].file = ws[i].file => j = i
    BY <1>2, <1>5 DEF OneFor
  <1>7. ws[i].passes = IF file = "memory.memsw.limit_in_bytes" THEN {"EACCES"} ELSE {}
    BY <1>2, <1>5 DEF OneFor
  <1>8. \A d : Answer(d, ws[i], above, Top, refused) \notin ws[i].passes
    <2> SUFFICES ASSUME file = "memory.memsw.limit_in_bytes", NEW d
                 PROVE  Answer(d, ws[i], above, Top, refused) # "EACCES"
      BY <1>7
    <2> HIDE DEF ws, above
    <2>1. \/ Answer(d, ws[i], above, Top, refused) \in {"EINVAL", "ok"}
          \/ /\ \E e \in refused : e[1] = file
             /\ Answer(d, ws[i], above, Top, refused) = (CHOOSE e \in refused : e[1] = file)[2]
      BY <1>2 DEF Answer, CpusetFiles
    <2>2. \A e \in refused : e[1] = file => e[2] # "EACCES"
      <3>1. \A e \in refused : e = <<e[1], e[2]>>
        BY KernelAssumption
      <3> QED
        BY <3>1, KernelAssumption
    <2> QED
      BY <2>1, <2>2
  <1> HIDE DEF ws, x, above
  <1>9. file \in DOMAIN x.dir /\ x.dir[file] = ws[i].value
    BY <1>1, <1>2, <1>3, <1>4, <1>6, <1>8, WriteAllOnce
  <1> QED
    BY <1>2, <1>3, <1>9 DEF Same

-----------------------------------------------------------------------------
(* Devices.                                                                *)

Positions(spec) == [i \in DOMAIN spec.devices |-> i]

\* The rules of Permitted, one after another.
Applying(g, p, rules, n) ==
    g = [s \in SUBSET (1..n) |->
            IF s = {} THEN p ELSE Apply(g[s \ {Max(s)}], rules[Max(s)])]

\* FoldLeft of Permitted as a function of the number of rules applied.
LEMMA ApplyingExists ==
    ASSUME NEW p, NEW rules, NEW n \in Nat
    PROVE  \E g : Applying(g, p, rules, n)
  <1> DEFINE Good(k) == \E g : Applying(g, p, rules, k)
             Bad == {k \in Nat : ~ Good(k)}
  <1>1. SUFFICES ASSUME Bad # {} PROVE FALSE
    OBVIOUS
  <1>2. PICK k \in Bad : \A l \in Bad : k <= l
    BY <1>1, HasMin
  <1>3. CASE k = 0
    <2> DEFINE g == [s \in SUBSET (1..0) |-> p]
    <2>1. SUBSET (1..0) = {{}}
      OBVIOUS
    <2>2. Applying(g, p, rules, 0)
      BY <2>1 DEF Applying
    <2> QED
      BY <1>2, <1>3, <2>2
  <1>4. CASE k # 0
    <2>1. k \in Nat /\ k - 1 \in Nat /\ k - 1 \notin Bad
      BY <1>2, <1>4
    <2>2. PICK f : Applying(f, p, rules, k - 1)
      BY <2>1
    <2> HIDE DEF Bad
    <2> DEFINE g == [s \in SUBSET (1..k) |->
                        IF k \in s THEN Apply(f[s \ {k}], rules[k]) ELSE f[s]]
    <2>3. ASSUME NEW s \in SUBSET (1..k)
          PROVE  g[s] = IF s = {} THEN p
                        ELSE Apply(g[s \ {Max(s)}], rules[Max(s)])
      <3>1. CASE k \in s
        <4>1. Max(s) = k /\ s \ {k} \in SUBSET (1..(k - 1)) /\ s # {}
          BY <1>4, <2>1, <3>1, GreatestPosition
        <4>2. s \ {k} \in SUBSET (1..k) /\ k \notin s \ {k}
          OBVIOUS
        <4>3. g[s] = Apply(f[s \ {k}], rules[k]) /\ g[s \ {k}] = f[s \ {k}]
          BY <3>1, <4>2
        <4> QED
          BY <4>1, <4>3
      <3>2. CASE k \notin s
        <4>1. s \in SUBSET (1..(k - 1)) /\ g[s] = f[s]
          BY <1>4, <2>1, <3>2, GreatestPosition
        <4>2. f[s] = IF s = {} THEN p ELSE Apply(f[s \ {Max(s)}], rules[Max(s)])
          BY <2>2, <4>1 DEF Applying
        <4>3. s \ {Max(s)} \in SUBSET (1..k) /\ k \notin s \ {Max(s)}
          BY <3>2
        <4>4. g[s \ {Max(s)}] = f[s \ {Max(s)}]
          BY <4>3
        <4> QED
          BY <4>1, <4>2, <4>4
      <3> QED
        BY <3>1, <3>2
    <2>4. g = [s \in SUBSET (1..k) |-> g[s]]
      OBVIOUS
    <2> HIDE DEF g
    <2>5. Applying(g, p, rules, k)
      BY <2>3, <2>4 DEF Applying
    <2> QED
      BY <1>2, <2>5 DEF Bad
  <1> QED
    BY <1>3, <1>4

\* Permitted, step by step.
Applies(h, p, rules, n) ==
    /\ h[0] = p
    /\ \A i \in 1..n : h[i] = Apply(h[i - 1], rules[i])

\* There is such a function, and it ends in what Permitted says.
LEMMA AppliesExist ==
    ASSUME NEW p, NEW rules, IsList(rules)
    PROVE  \E h : Applies(h, p, rules, Len(rules)) /\ Permitted(p, rules) = h[Len(rules)]
  <1> DEFINE n == Len(rules)
             g == CHOOSE g : Applying(g, p, rules, n)
             h == [i \in 0..n |-> g[1..i]]
  <1>1. n \in Nat /\ DOMAIN rules = 1..n
    BY ListIsSeq DEF IsList
  <1>2. Permitted(p, rules) = g[1..n]
    BY <1>1 DEF Permitted, FoldLeft, MapThenFoldSet, Applying
  <1>3. Applying(g, p, rules, n)
    BY <1>1, ApplyingExists
  <1> HIDE DEF g, n
  <1>4. \A s \in SUBSET (1..n) :
            g[s] = IF s = {} THEN p ELSE Apply(g[s \ {Max(s)}], rules[Max(s)])
    BY <1>3 DEF Applying
  <1>5. h[0] = p
    <2>1. 1..0 = {} /\ {} \in SUBSET (1..n) /\ 0 \in 0..n
      BY <1>1
    <2> QED
      BY <1>4, <2>1
  <1>6. ASSUME NEW i \in 1..n PROVE h[i] = Apply(h[i - 1], rules[i])
    <2>1. i \in Nat /\ i # 0 /\ i \in 0..n /\ i - 1 \in 0..n /\ 1..i \in SUBSET (1..n) /\ 1..i # {}
      <3>1. n \in Nat
        BY <1>1
      <3> QED
        BY <3>1
    <2>2. Max(1..i) = i /\ (1..i) \ {i} = 1..(i - 1)
      BY <2>1, GreatestPosition
    <2> QED
      BY <1>4, <2>1, <2>2
  <1>7. h[n] = g[1..n]
    BY <1>1
  <1> HIDE DEF h
  <1>8. Applies(h, p, rules, n)
    BY <1>5, <1>6 DEF Applies
  <1> QED
    BY <1>2, <1>7, <1>8 DEF n

\* The devices of a spec, one after another.
Renumbering(g, spec, path, num, n) ==
    g = [s \in SUBSET (1..n) |->
            IF s = {} THEN spec ELSE RenumberAt(g[s \ {Max(s)}], Positions(spec)[Max(s)], path, num)]

\* FoldLeft of RenumberAll as a function of the number of devices seen.
LEMMA RenumberingExists ==
    ASSUME NEW spec, NEW path, NEW num, NEW n \in Nat
    PROVE  \E g : Renumbering(g, spec, path, num, n)
  <1> DEFINE Good(k) == \E g : Renumbering(g, spec, path, num, k)
             Bad == {k \in Nat : ~ Good(k)}
  <1>1. SUFFICES ASSUME Bad # {} PROVE FALSE
    OBVIOUS
  <1>2. PICK k \in Bad : \A l \in Bad : k <= l
    BY <1>1, HasMin
  <1>3. CASE k = 0
    <2> DEFINE g == [s \in SUBSET (1..0) |-> spec]
    <2>1. SUBSET (1..0) = {{}}
      OBVIOUS
    <2>2. Renumbering(g, spec, path, num, 0)
      BY <2>1 DEF Renumbering
    <2> QED
      BY <1>2, <1>3, <2>2
  <1>4. CASE k # 0
    <2>1. k \in Nat /\ k - 1 \in Nat /\ k - 1 \notin Bad
      BY <1>2, <1>4
    <2>2. PICK f : Renumbering(f, spec, path, num, k - 1)
      BY <2>1
    <2> HIDE DEF Bad
    <2> DEFINE g == [s \in SUBSET (1..k) |->
                        IF k \in s THEN RenumberAt(f[s \ {k}], Positions(spec)[k], path, num) ELSE f[s]]
    <2>3. ASSUME NEW s \in SUBSET (1..k)
          PROVE  g[s] = IF s = {} THEN spec
                        ELSE RenumberAt(g[s \ {Max(s)}], Positions(spec)[Max(s)], path, num)
      <3>1. CASE k \in s
        <4>1. Max(s) = k /\ s \ {k} \in SUBSET (1..(k - 1)) /\ s # {}
          BY <1>4, <2>1, <3>1, GreatestPosition
        <4>2. s \ {k} \in SUBSET (1..k) /\ k \notin s \ {k}
          OBVIOUS
        <4>3. g[s] = RenumberAt(f[s \ {k}], Positions(spec)[k], path, num) /\ g[s \ {k}] = f[s \ {k}]
          BY <3>1, <4>2
        <4> QED
          BY <4>1, <4>3
      <3>2. CASE k \notin s
        <4>1. s \in SUBSET (1..(k - 1)) /\ g[s] = f[s]
          BY <1>4, <2>1, <3>2, GreatestPosition
        <4>2. f[s] = IF s = {} THEN spec ELSE RenumberAt(f[s \ {Max(s)}], Positions(spec)[Max(s)], path, num)
          BY <2>2, <4>1 DEF Renumbering
        <4>3. s \ {Max(s)} \in SUBSET (1..k) /\ k \notin s \ {Max(s)}
          BY <3>2
        <4>4. g[s \ {Max(s)}] = f[s \ {Max(s)}]
          BY <4>3
        <4> QED
          BY <4>1, <4>2, <4>4
      <3> QED
        BY <3>1, <3>2
    <2>4. g = [s \in SUBSET (1..k) |-> g[s]]
      OBVIOUS
    <2> HIDE DEF g
    <2>5. Renumbering(g, spec, path, num, k)
      BY <2>3, <2>4 DEF Renumbering
    <2> QED
      BY <1>2, <2>5 DEF Bad
  <1> QED
    BY <1>3, <1>4

\* update_spec_device_list, step by step.
Renumbers(h, spec, path, num, n) ==
    /\ h[0] = spec
    /\ \A i \in 1..n : h[i] = RenumberAt(h[i - 1], Positions(spec)[i], path, num)

\* There is such a function, and it ends in the result of RenumberAll.
LEMMA RenumbersExist ==
    ASSUME NEW spec, NEW path, NEW num, IsList(spec.devices)
    PROVE  \E h : Renumbers(h, spec, path, num, Len(spec.devices)) /\ RenumberAll(spec, path, num) = h[Len(spec.devices)]
  <1> DEFINE n == Len(spec.devices)
             g == CHOOSE g : Renumbering(g, spec, path, num, n)
             h == [i \in 0..n |-> g[1..i]]
  <1>1. n \in Nat /\ DOMAIN Positions(spec) = 1..n
    BY ListIsSeq DEF IsList, Positions
  <1>2. RenumberAll(spec, path, num) = g[1..n]
    BY <1>1 DEF RenumberAll, Positions, FoldLeft, MapThenFoldSet, Renumbering
  <1>3. Renumbering(g, spec, path, num, n)
    BY <1>1, RenumberingExists
  <1> HIDE DEF g, n
  <1>4. \A s \in SUBSET (1..n) :
            g[s] = IF s = {} THEN spec ELSE RenumberAt(g[s \ {Max(s)}], Positions(spec)[Max(s)], path, num)
    BY <1>3 DEF Renumbering
  <1>5. h[0] = spec
    <2>1. 1..0 = {} /\ {} \in SUBSET (1..n) /\ 0 \in 0..n
      BY <1>1
    <2> QED
      BY <1>4, <2>1
  <1>6. ASSUME NEW i \in 1..n PROVE h[i] = RenumberAt(h[i - 1], Positions(spec)[i], path, num)
    <2>1. i \in Nat /\ i # 0 /\ i \in 0..n /\ i - 1 \in 0..n /\ 1..i \in SUBSET (1..n) /\ 1..i # {}
      <3>1. n \in Nat
        BY <1>1
      <3> QED
        BY <3>1
    <2>2. Max(1..i) = i /\ (1..i) \ {i} = 1..(i - 1)
      BY <2>1, GreatestPosition
    <2> QED
      BY <1>4, <2>1, <2>2
  <1>7. h[n] = g[1..n]
    BY <1>1
  <1> HIDE DEF h
  <1>8. Renumbers(h, spec, path, num, n)
    BY <1>5, <1>6 DEF Renumbers
  <1> QED
    BY <1>2, <1>7, <1>8 DEF n

\* The devices of a request, one after another.
Adding(g, ds, spec, hotplug, ns, n) ==
    g = [s \in SUBSET (1..n) |->
            IF s = {} THEN Done(spec) ELSE add_next(g[s \ {Max(s)}], ds[Max(s)], hotplug, ns)]

\* FoldLeft of add_devices as a function of the number of devices added.
LEMMA AddingExists ==
    ASSUME NEW ds, NEW spec, NEW hotplug, NEW ns, NEW n \in Nat
    PROVE  \E g : Adding(g, ds, spec, hotplug, ns, n)
  <1> DEFINE Good(k) == \E g : Adding(g, ds, spec, hotplug, ns, k)
             Bad == {k \in Nat : ~ Good(k)}
  <1>1. SUFFICES ASSUME Bad # {} PROVE FALSE
    OBVIOUS
  <1>2. PICK k \in Bad : \A l \in Bad : k <= l
    BY <1>1, HasMin
  <1>3. CASE k = 0
    <2> DEFINE g == [s \in SUBSET (1..0) |-> Done(spec)]
    <2>1. SUBSET (1..0) = {{}}
      OBVIOUS
    <2>2. Adding(g, ds, spec, hotplug, ns, 0)
      BY <2>1 DEF Adding
    <2> QED
      BY <1>2, <1>3, <2>2
  <1>4. CASE k # 0
    <2>1. k \in Nat /\ k - 1 \in Nat /\ k - 1 \notin Bad
      BY <1>2, <1>4
    <2>2. PICK f : Adding(f, ds, spec, hotplug, ns, k - 1)
      BY <2>1
    <2> HIDE DEF Bad
    <2> DEFINE g == [s \in SUBSET (1..k) |->
                        IF k \in s THEN add_next(f[s \ {k}], ds[k], hotplug, ns) ELSE f[s]]
    <2>3. ASSUME NEW s \in SUBSET (1..k)
          PROVE  g[s] = IF s = {} THEN Done(spec)
                        ELSE add_next(g[s \ {Max(s)}], ds[Max(s)], hotplug, ns)
      <3>1. CASE k \in s
        <4>1. Max(s) = k /\ s \ {k} \in SUBSET (1..(k - 1)) /\ s # {}
          BY <1>4, <2>1, <3>1, GreatestPosition
        <4>2. s \ {k} \in SUBSET (1..k) /\ k \notin s \ {k}
          OBVIOUS
        <4>3. g[s] = add_next(f[s \ {k}], ds[k], hotplug, ns) /\ g[s \ {k}] = f[s \ {k}]
          BY <3>1, <4>2
        <4> QED
          BY <4>1, <4>3
      <3>2. CASE k \notin s
        <4>1. s \in SUBSET (1..(k - 1)) /\ g[s] = f[s]
          BY <1>4, <2>1, <3>2, GreatestPosition
        <4>2. f[s] = IF s = {} THEN Done(spec) ELSE add_next(f[s \ {Max(s)}], ds[Max(s)], hotplug, ns)
          BY <2>2, <4>1 DEF Adding
        <4>3. s \ {Max(s)} \in SUBSET (1..k) /\ k \notin s \ {Max(s)}
          BY <3>2
        <4>4. g[s \ {Max(s)}] = f[s \ {Max(s)}]
          BY <4>3
        <4> QED
          BY <4>1, <4>2, <4>4
      <3> QED
        BY <3>1, <3>2
    <2>4. g = [s \in SUBSET (1..k) |-> g[s]]
      OBVIOUS
    <2> HIDE DEF g
    <2>5. Adding(g, ds, spec, hotplug, ns, k)
      BY <2>3, <2>4 DEF Adding
    <2> QED
      BY <1>2, <2>5 DEF Bad
  <1> QED
    BY <1>3, <1>4

\* add_devices, step by step.
Adds(h, ds, spec, hotplug, ns, n) ==
    /\ h[0] = Done(spec)
    /\ \A i \in 1..n : h[i] = add_next(h[i - 1], ds[i], hotplug, ns)

\* There is such a function, and it ends in the answer of add_devices.
LEMMA AddsExist ==
    ASSUME NEW ds, NEW spec, NEW hotplug, NEW ns, IsList(ds)
    PROVE  \E h : Adds(h, ds, spec, hotplug, ns, Len(ds)) /\ add_devices(ds, spec, hotplug, ns) = h[Len(ds)]
  <1> DEFINE n == Len(ds)
             g == CHOOSE g : Adding(g, ds, spec, hotplug, ns, n)
             h == [i \in 0..n |-> g[1..i]]
  <1>1. n \in Nat /\ DOMAIN ds = 1..n
    BY ListIsSeq DEF IsList
  <1>2. add_devices(ds, spec, hotplug, ns) = g[1..n]
    BY <1>1 DEF add_devices, FoldLeft, MapThenFoldSet, Adding
  <1>3. Adding(g, ds, spec, hotplug, ns, n)
    BY <1>1, AddingExists
  <1> HIDE DEF g, n
  <1>4. \A s \in SUBSET (1..n) :
            g[s] = IF s = {} THEN Done(spec) ELSE add_next(g[s \ {Max(s)}], ds[Max(s)], hotplug, ns)
    BY <1>3 DEF Adding
  <1>5. h[0] = Done(spec)
    <2>1. 1..0 = {} /\ {} \in SUBSET (1..n) /\ 0 \in 0..n
      BY <1>1
    <2> QED
      BY <1>4, <2>1
  <1>6. ASSUME NEW i \in 1..n PROVE h[i] = add_next(h[i - 1], ds[i], hotplug, ns)
    <2>1. i \in Nat /\ i # 0 /\ i \in 0..n /\ i - 1 \in 0..n /\ 1..i \in SUBSET (1..n) /\ 1..i # {}
      <3>1. n \in Nat
        BY <1>1
      <3> QED
        BY <3>1
    <2>2. Max(1..i) = i /\ (1..i) \ {i} = 1..(i - 1)
      BY <2>1, GreatestPosition
    <2> QED
      BY <1>4, <2>1, <2>2
  <1>7. h[n] = g[1..n]
    BY <1>1
  <1> HIDE DEF h
  <1>8. Adds(h, ds, spec, hotplug, ns, n)
    BY <1>5, <1>6 DEF Adds
  <1> QED
    BY <1>2, <1>7, <1>8 DEF n

\* A spec with its lists.
IsSpec(t) == t = [devices |-> t.devices, rules |-> t.rules] /\ IsList(t.devices) /\ IsList(t.rules)
DeviceRecords == [id : STRING, type : STRING, vm_path : STRING, container_path : STRING]

\* A device is added by its node, whichever handler its type has, or not at all.
LEMMA AddDevice ==
    ASSUME NEW d \in DeviceRecords, NEW t, NEW hotplug, NEW ns, NEW u, u = add_device(d, t, hotplug, ns)
    PROVE  \/ u = Error
           \/ u = Done(RenumberAll(t, d.container_path,
                                   ns[IF d.type \in {"blk", "scsi"} THEN hotplug[d.id] ELSE d.vm_path]))
              /\ (IF d.type \in {"blk", "scsi"} THEN hotplug[d.id] ELSE d.vm_path) \in DOMAIN ns
  <1>1. \/ u = Error
        \/ d.type \in {"blk", "scsi"} /\ u = virtio_blk_device_handler(d, t, hotplug, ns)
        \/ d.type = "mmioblk" /\ u = virtiommio_blk_device_handler(d, t, ns)
        \/ d.type = "nvdimm" /\ u = update_spec_device_list(d, t, ns)
    <2>1. ASSUME u # Error PROVE d.type \in {"blk", "scsi", "mmioblk", "nvdimm"}
      BY <2>1 DEF add_device, DEVICEHANDLERLIST
    <2>2. ASSUME u # Error
          PROVE  u = CASE d.type \in {"blk", "scsi"} -> virtio_blk_device_handler(d, t, hotplug, ns)
                       [] d.type = "mmioblk" -> virtiommio_blk_device_handler(d, t, ns)
                       [] d.type = "nvdimm" -> update_spec_device_list(d, t, ns)
      BY <2>2, Zenon DEF add_device
    <2> QED
      BY <2>1, <2>2, Zenon
  <1>2. CASE d.type \in {"blk", "scsi"} /\ u = virtio_blk_device_handler(d, t, hotplug, ns)
    <2> DEFINE e == [d EXCEPT !.vm_path = hotplug[d.id]]
    <2>1. e.vm_path = hotplug[d.id] /\ e.container_path = d.container_path
      BY DEF DeviceRecords
    <2>2. u = Error \/ u = update_spec_device_list(e, t, ns)
      BY <1>2 DEF virtio_blk_device_handler
    <2> HIDE DEF e
    <2>3. \/ u = Error
          \/ u = Done(RenumberAll(t, d.container_path, ns[hotplug[d.id]])) /\ hotplug[d.id] \in DOMAIN ns
      BY <2>1, <2>2 DEF update_spec_device_list
    <2> QED
      BY <1>2, <2>3
  <1>3. CASE d.type \in {"mmioblk", "nvdimm"} /\ (u = Error \/ u = update_spec_device_list(d, t, ns))
    <2>1. \/ u = Error
          \/ u = Done(RenumberAll(t, d.container_path, ns[d.vm_path])) /\ d.vm_path \in DOMAIN ns
      BY <1>3 DEF update_spec_device_list
    <2>2. d.type \notin {"blk", "scsi"}
      BY <1>3
    <2> QED
      BY <2>1, <2>2
  <1> QED
    BY <1>1, <1>2, <1>3 DEF virtiommio_blk_device_handler

\* Renumbering changes the shape of nothing.
LEMMA RenumberIsSpec ==
    ASSUME NEW t, IsSpec(t), NEW i, NEW path, NEW num PROVE IsSpec(RenumberAt(t, i, path, num))
  <1> DEFINE ds == [t.devices EXCEPT ![i].num = num]
             rs == [j \in DOMAIN t.rules |->
                       IF t.rules[j].num = t.devices[i].num
                       THEN [t.rules[j] EXCEPT !.num = num] ELSE t.rules[j]]
  <1>1. RenumberAt(t, i, path, num) = t \/ RenumberAt(t, i, path, num) = [devices |-> ds, rules |-> rs]
    BY DEF RenumberAt, Renumber
  <1>2. DOMAIN t.devices = 1..Len(t.devices) /\ DOMAIN t.rules = 1..Len(t.rules)
        /\ Len(t.devices) \in Nat /\ Len(t.rules) \in Nat
    BY DEF IsSpec, IsList
  <1>3. IsList(ds) /\ IsList(rs)
    <2>1. ds = [j \in 1..Len(t.devices) |-> ds[j]] /\ rs = [j \in 1..Len(t.rules) |-> rs[j]]
      BY <1>2
    <2> HIDE DEF ds, rs
    <2> QED
      BY <1>2, <2>1, FunctionIsList
  <1> HIDE DEF ds, rs
  <1> QED
    BY <1>1, <1>3 DEF IsSpec

\* The same of all the devices with a path.
LEMMA RenumberAllIsSpec ==
    ASSUME NEW t, IsSpec(t), NEW path, NEW num PROVE IsSpec(RenumberAll(t, path, num))
  <1> DEFINE n == Len(t.devices)
  <1>1. n \in Nat
    BY DEF IsSpec, IsList
  <1>2. PICK h : Renumbers(h, t, path, num, n) /\ RenumberAll(t, path, num) = h[n]
    BY RenumbersExist DEF IsSpec
  <1> HIDE DEF n
  <1> DEFINE Bad == {i \in 0..n : ~ IsSpec(h[i])}
  <1>3. ASSUME Bad # {} PROVE FALSE
    <2>0. Bad \in SUBSET Nat
      BY <1>1
    <2>1. PICK i \in Bad : \A j \in Bad : i <= j
      <3> HIDE DEF Bad
      <3> QED
        BY <1>3, <2>0, HasMin
    <2>2. i # 0
      BY <1>2, <2>1 DEF Renumbers
    <2>3. i \in 1..n /\ i - 1 \in 0..n /\ i - 1 \notin Bad
      BY <1>1, <2>0, <2>1, <2>2
    <2>4. IsSpec(h[i])
      BY <1>2, <2>3, RenumberIsSpec DEF Renumbers
    <2> QED
      BY <2>1, <2>4
  <1>4. n \in 0..n
    BY <1>1
  <1> QED
    BY <1>2, <1>3, <1>4

\* An answer: an error, or a spec.
IsAnswer(u) == u = Error \/ (u = Done(u.spec) /\ IsSpec(u.spec))

\* Error is one and Done is none.
LEMMA ErrorsOrNot == Error.error = TRUE /\ \A t : Done(t).error = FALSE /\ Done(t).spec = t
  BY DEF Error, Done

\* After each device of a request there is an answer.
LEMMA AddDevicesIsAnswer ==
    ASSUME NEW t, IsSpec(t), NEW ds \in Seq(DeviceRecords), NEW hotplug, NEW ns,
           NEW h, Adds(h, ds, t, hotplug, ns, Len(ds))
    PROVE  /\ \A i \in 0..Len(ds) : IsAnswer(h[i])
           /\ \A i \in 1..Len(ds) : h[i - 1].error => h[i].error
  <1> DEFINE n == Len(ds)
             Bad == {i \in 0..n : ~ IsAnswer(h[i])}
  <1>1. n \in Nat
    OBVIOUS
  <1>2. ASSUME Bad # {} PROVE FALSE
    <2>0. Bad \in SUBSET Nat
      BY <1>1
    <2>1. PICK i \in Bad : \A j \in Bad : i <= j
      <3> HIDE DEF Bad
      <3> QED
        BY <1>2, <2>0, HasMin
    <2>2. CASE i = 0
      BY <2>1, <2>2, ErrorsOrNot DEF Adds, IsAnswer
    <2>3. CASE i # 0
      <3>1. i \in 1..n /\ i - 1 \in 0..n /\ i - 1 \notin Bad
        BY <1>1, <2>0, <2>1, <2>3
      <3>2. h[i] = add_next(h[i - 1], ds[i], hotplug, ns) /\ IsAnswer(h[i - 1]) /\ ds[i] \in DeviceRecords
        BY <3>1 DEF Adds
      <3>3. CASE h[i - 1].error
        BY <2>1, <3>2, <3>3 DEF add_next
      <3>4. CASE ~ h[i - 1].error
        <4>1. IsSpec(h[i - 1].spec) /\ h[i] = add_device(ds[i], h[i - 1].spec, hotplug, ns)
          BY <3>2, <3>4, ErrorsOrNot DEF add_next, IsAnswer
        <4>2. \/ h[i] = Error
              \/ \E path, num : h[i] = Done(RenumberAll(h[i - 1].spec, path, num))
          BY <3>2, <4>1, AddDevice
        <4>3. IsAnswer(h[i])
          BY <4>1, <4>2, RenumberAllIsSpec, ErrorsOrNot DEF IsAnswer
        <4> QED
          BY <2>1, <4>3
      <3> QED
        BY <3>3, <3>4
    <2> QED
      BY <2>2, <2>3
  <1>3. \A i \in 1..n : h[i - 1].error => h[i].error
    BY DEF Adds, add_next
  <1> QED
    BY <1>2, <1>3

\* What add_devices answers with, if it is no error, is a spec.
LEMMA AddDevicesIsSpec ==
    ASSUME NEW t, IsSpec(t), NEW ds \in Seq(DeviceRecords), NEW hotplug, NEW ns,
           NEW u, u = add_devices(ds, t, hotplug, ns), ~ u.error
    PROVE  u = Done(u.spec) /\ IsSpec(u.spec)
  <1>1. IsList(ds) /\ Len(ds) \in 0..Len(ds)
    BY SeqIsList
  <1>2. PICK h : Adds(h, ds, t, hotplug, ns, Len(ds)) /\ u = h[Len(ds)]
    BY <1>1, AddsExist
  <1>3. IsAnswer(u)
    BY <1>1, <1>2, AddDevicesIsAnswer
  <1> QED
    BY <1>3, ErrorsOrNot DEF IsAnswer

-----------------------------------------------------------------------------
(* The devices file.                                                       *)

\* A list of one element.
LEMMA OneIsList == ASSUME NEW x PROVE IsList(<<x>>) /\ Len(<<x>>) = 1 /\ <<x>>[1] = x
  <1> DEFINE e == <<x>>
  <1>1. e \in Seq({x}) /\ Len(e) = 1 /\ e[1] = x
    OBVIOUS
  <1> HIDE DEF e
  <1>2. IsList(e)
    BY <1>1, SeqIsList
  <1> QED
    BY <1>1, <1>2 DEF e

\* Lists of one element each, in a row.
LEMMA FlattenOnes ==
    ASSUME NEW v, IsList(v), NEW s, IsList(s), Len(s) = Len(v), Len(s) # 0,
           \A i \in 1..Len(s) : s[i] = <<v[i]>>
    PROVE  LET t == FlattenSeq(s) IN IsList(t) /\ Len(t) = Len(v) /\ \A i \in 1..Len(v) : t[i] = v[i]
  <1> DEFINE n == Len(s)
  <1>1. n \in Nat /\ n # 0 /\ n \in 1..n /\ 1 \in 1..n
    BY DEF IsList
  <1>2. PICK f : /\ FlattenSeq(s) = f[n]
                 /\ f[1] = s[1]
                 /\ \A i \in 2..n : f[i] = f[i - 1] \o s[i]
    BY FlattenSteps
  <1> DEFINE Upto(i) == IsList(f[i]) /\ Len(f[i]) = i /\ \A j \in 1..i : f[i][j] = v[j]
             Bad == {i \in 1..n : ~ Upto(i)}
  <1>3. ASSUME Bad # {} PROVE FALSE
    <2>0. Bad \in SUBSET Nat
      BY <1>1
    <2>1. PICK i \in Bad : \A j \in Bad : i <= j
      <3> HIDE DEF Bad
      <3> QED
        BY <1>3, <2>0, HasMin
    <2>2. CASE i = 1
      <3> DEFINE e == <<v[1]>>
      <3>1. f[1] = e
        BY <1>1, <1>2
      <3>2. e \in Seq({v[1]}) /\ Len(e) = 1 /\ e[1] = v[1]
        OBVIOUS
      <3>3. IsList(e)
        BY <3>2, SeqIsList
      <3> HIDE DEF e
      <3>4. Upto(1)
        BY <3>1, <3>2, <3>3
      <3> QED
        BY <2>1, <2>2, <3>4
    <2>3. CASE i # 1
      <3>1. i \in 1..n /\ i - 1 \in 1..n /\ i - 1 \notin Bad /\ i \in 2..n /\ i \in Nat
        BY <1>1, <2>0, <2>1, <2>3
      <3>2. Upto(i - 1)
        BY <3>1
      <3>3. f[i] = f[i - 1] \o <<v[i]>>
        BY <1>2, <3>1
      <3> DEFINE g == f[i - 1]
                 t == f[i]
      <3>4. IsList(g) /\ Len(g) = i - 1 /\ \A j \in 1..(i - 1) : g[j] = v[j]
        BY <3>2
      <3>5. t = g \o <<v[i]>>
        BY <3>3
      <3> HIDE DEF g, t
      <3> DEFINE o == <<v[i]>>
      <3>5a. t = g \o o /\ IsList(o) /\ Len(o) = 1 /\ o[1] = v[i]
        BY <3>5, OneIsList
      <3> HIDE DEF o
      <3>5b. /\ IsList(g \o o)
             /\ Len(g \o o) = Len(g) + Len(o)
             /\ \A j \in 1..Len(g) : (g \o o)[j] = g[j]
             /\ \A j \in 1..Len(o) : (g \o o)[Len(g) + j] = o[j]
        <4>1. IsList(g)
          BY <3>4
        <4>2. IsList(o)
          BY <3>5a
        <4> QED
          BY <4>1, <4>2, ListsInARow
      <3>6. /\ IsList(t) /\ Len(t) = Len(g) + 1 /\ t[Len(g) + 1] = v[i]
            /\ \A j \in 1..Len(g) : t[j] = g[j]
        BY <3>5a, <3>5b
      <3>7. Len(t) = i /\ t[i] = v[i] /\ \A j \in 1..i : j \in 1..(i - 1) \/ j = i
        BY <3>1, <3>4, <3>6
      <3>8. IsList(t) /\ Len(t) = i /\ \A j \in 1..i : t[j] = v[j]
        BY <3>4, <3>6, <3>7
      <3>9. Upto(i)
        BY <3>8 DEF t
      <3> QED
        BY <2>1, <3>9
    <2> QED
      BY <2>2, <2>3
  <1>4. Upto(n)
    BY <1>1, <1>3
  <1> QED
    BY <1>2, <1>4

\* The default rules allow something each.
LEMMA DefaultRulesAllow ==
    /\ IsList(DefaultRules) /\ Len(DefaultRules) = Len(DefaultNumbers) + 2
    /\ Len(DefaultNumbers) \in Nat
    /\ \A i \in 1..Len(DefaultNumbers) :
          DefaultRules[i] = [allow |-> TRUE, type |-> "c", num |-> DefaultNumbers[i], access |-> Access]
    /\ DefaultRules[Len(DefaultNumbers) + 1] =
          [allow |-> TRUE, type |-> "c", num |-> WILDCARD, access |-> {"m"}]
    /\ DefaultRules[Len(DefaultNumbers) + 2] =
          [allow |-> TRUE, type |-> "b", num |-> WILDCARD, access |-> {"m"}]
    /\ \A i \in 1..Len(DefaultRules) : DefaultRules[i].allow
  <1> DEFINE d == [i \in DOMAIN DefaultNumbers |->
                       [allow |-> TRUE, type |-> "c", num |-> DefaultNumbers[i], access |-> Access]]
             m == [i \in 1..2 |-> [allow |-> TRUE, type |-> <<"c", "b">>[i], num |-> WILDCARD,
                                   access |-> {"m"}]]
             n == Len(DefaultNumbers)
  <1>1. DOMAIN DefaultNumbers = 1..n /\ n \in Nat
    BY NumbersAssumption
  <1>2. IsList(d) /\ Len(d) = n /\ IsList(m) /\ Len(m) = 2
    <2>1. d = [i \in 1..n |-> d[i]]
      BY <1>1
    <2>2. m = [i \in 1..2 |-> m[i]]
      OBVIOUS
    <2> HIDE DEF d, m
    <2> QED
      BY <1>1, <2>1, <2>2, FunctionIsList
  <1>3. DefaultRules = d \o m
    BY DEF DefaultRules
  <1>4. /\ \A i \in 1..n : d[i] = [allow |-> TRUE, type |-> "c", num |-> DefaultNumbers[i], access |-> Access]
        /\ m[1] = [allow |-> TRUE, type |-> "c", num |-> WILDCARD, access |-> {"m"}]
        /\ m[2] = [allow |-> TRUE, type |-> "b", num |-> WILDCARD, access |-> {"m"}]
    <2>1. \A i \in 1..n : d[i] = [allow |-> TRUE, type |-> "c", num |-> DefaultNumbers[i], access |-> Access]
      BY <1>1
    <2>2. <<"c", "b">>[1] = "c" /\ <<"c", "b">>[2] = "b"
      OBVIOUS
    <2> HIDE DEF d
    <2>2a. /\ m[1] = [allow |-> TRUE, type |-> <<"c", "b">>[1], num |-> WILDCARD, access |-> {"m"}]
           /\ m[2] = [allow |-> TRUE, type |-> <<"c", "b">>[2], num |-> WILDCARD, access |-> {"m"}]
      <3>1. 1 \in 1..2 /\ 2 \in 1..2
        OBVIOUS
      <3> QED
        BY <3>1, Zenon
    <2>3. /\ m[1] = [allow |-> TRUE, type |-> "c", num |-> WILDCARD, access |-> {"m"}]
          /\ m[2] = [allow |-> TRUE, type |-> "b", num |-> WILDCARD, access |-> {"m"}]
      <3> HIDE DEF m
      <3> QED
        BY <2>2, <2>2a, Zenon
    <2> QED
      BY <2>1, <2>3
  <1>4b. m[1].allow /\ m[2].allow /\ \A i \in DOMAIN DefaultNumbers : d[i].allow
    OBVIOUS
  <1> HIDE DEF d, m
  <1>5. /\ IsList(DefaultRules) /\ Len(DefaultRules) = n + 2
        /\ \A i \in 1..n : DefaultRules[i] = d[i]
        /\ \A i \in 1..2 : DefaultRules[n + i] = m[i]
        /\ \A i \in 1..Len(DefaultRules) : i \in 1..n \/ (i - n \in 1..2 /\ DefaultRules[i] = m[i - n])
    <2>1. /\ IsList(DefaultRules)
          /\ Len(DefaultRules) = Len(d) + Len(m)
          /\ \A i \in 1..Len(d) : DefaultRules[i] = d[i]
          /\ \A i \in 1..Len(m) : DefaultRules[Len(d) + i] = m[i]
          /\ \A i \in 1..Len(DefaultRules) :
                \/ i \in 1..Len(d)
                \/ i - Len(d) \in 1..Len(m) /\ DefaultRules[i] = m[i - Len(d)]
      <3>1. IsList(d) /\ IsList(m)
        BY <1>2
      <3> QED
        BY <3>1, <1>3, ListsInARow
    <2> QED
      BY <1>2, <2>1
  <1>6. DefaultRules[n + 1] = m[1] /\ DefaultRules[n + 2] = m[2]
    BY <1>5
  <1>7. \A i \in 1..Len(DefaultRules) : DefaultRules[i].allow
    <2>1. m[1].allow /\ m[2].allow /\ \A i \in 1..n : d[i].allow
      BY <1>1, <1>4b
    <2>2. \A i \in 1..2 : m[i].allow
      BY <2>1
    <2> QED
      BY <1>5, <2>1, <2>2
  <1> QED
    BY <1>1, <1>4, <1>5, <1>6, <1>7

\* One write for every rule.
RuleWrites(ws, rules) ==
    /\ IsList(rules) /\ Len(rules) > 0
    /\ IsList(ws) /\ Len(ws) = Len(rules)
    /\ \A i \in 1..Len(rules) : ws[i].file = "devices" /\ ws[i].value = rules[i] /\ ws[i].passes = {}

\* DevicesWrites writes the rules of the request and then the default ones.
LEMMA RulesWritten ==
    ASSUME NEW r, IsResources(r)
    PROVE  RuleWrites(DevicesWrites(r), r.Devices \o DefaultRules)
  <1> DEFINE rules == r.Devices \o DefaultRules
             ws == DevicesWrites(r)
             n == Len(rules)
             v == [i \in 1..n |-> [file |-> "devices", value |-> rules[i], passes |-> {}]]
             s == [i \in 1..n |-> <<v[i]>>]
  <1>1. /\ IsList(rules) /\ Len(rules) = Len(r.Devices) + Len(DefaultRules)
        /\ Len(r.Devices) \in Nat /\ Len(DefaultRules) \in Nat /\ Len(DefaultRules) > 0
    <2>1. IsList(r.Devices) /\ IsList(DefaultRules) /\ Len(DefaultRules) > 0
      <3>1. IsList(r.Devices) /\ IsList(DefaultRules)
        BY DefaultRulesAllow DEF IsResources
      <3>2. Len(DefaultRules) > 0
        BY DefaultRulesAllow
      <3> QED
        BY <3>1, <3>2
    <2>2. IsList(rules) /\ Len(rules) = Len(r.Devices) + Len(DefaultRules)
      BY <2>1, ListsInARow
    <2> QED
      BY <2>1, <2>2 DEF IsList
  <1>2. n \in Nat /\ n > 0 /\ DOMAIN rules = 1..n
    BY <1>1 DEF IsList
  <1>3. ws = FlattenSeq(s)
    <2>1. s = [i \in DOMAIN rules |-> Must("devices", rules[i])]
      BY <1>2 DEF Must, W
    <2>2. ws = FlattenSeq([i \in DOMAIN rules |-> Must("devices", rules[i])])
      BY DEF DevicesWrites, ForEach
    <2> QED
      BY <2>1, <2>2
  <1>4. IsList(v) /\ Len(v) = n /\ IsList(s) /\ Len(s) = n
    <2>1. v = [i \in 1..n |-> v[i]] /\ s = [i \in 1..n |-> s[i]]
      OBVIOUS
    <2> HIDE DEF v, s
    <2> QED
      BY <1>2, <2>1, FunctionIsList
  <1>5. \A i \in 1..n : s[i] = <<v[i]>>
    OBVIOUS
  <1>6. \A i \in 1..n : v[i].file = "devices" /\ v[i].value = rules[i] /\ v[i].passes = {}
    OBVIOUS
  <1> HIDE DEF s, v, n, rules, ws
  <1>7. IsList(ws) /\ Len(ws) = n /\ \A i \in 1..n : ws[i] = v[i]
    <2>1. n # 0
      BY <1>2
    <2> QED
      BY <1>3, <1>4, <1>5, <2>1, FlattenOnes
  <1>8. RuleWrites(ws, rules)
    <2>1. \A i \in 1..n : ws[i].file = "devices" /\ ws[i].value = rules[i] /\ ws[i].passes = {}
      BY <1>6, <1>7
    <2> QED
      BY <1>1, <1>2, <1>7, <2>1 DEF RuleWrites, n
  <1> QED
    BY <1>8 DEF ws, rules

\* One rule.
LEMMA PermittedOne == ASSUME NEW p, NEW rule PROVE Permitted(p, <<rule>>) = Apply(p, rule)
  <1> DEFINE s == <<rule>>
  <1>1. s \in Seq({rule}) /\ Len(s) = 1 /\ s[1] = rule
    OBVIOUS
  <1>2. IsList(s)
    BY <1>1, SeqIsList
  <1> HIDE DEF s
  <1>3. PICK h : Applies(h, p, s, Len(s)) /\ Permitted(p, s) = h[Len(s)]
    BY <1>2, AppliesExist
  <1>4. h[0] = p /\ h[1] = Apply(h[1 - 1], s[1])
    BY <1>1, <1>3 DEF Applies
  <1> QED
    BY <1>1, <1>3, <1>4 DEF s

\* One write of a rule.
LEMMA DevicePut ==
    ASSUME NEW d, NEW w, w.file = "devices", NEW e, e = Put(d, w)
    PROVE  "devices" \in DOMAIN e
           /\ e["devices"] = Apply(Content(d, "devices", Permissions), w.value)
  <1>1. DOMAIN e = DOMAIN d \cup {w.file}
    BY PutOne, Zenon
  <1>2. e["devices"] = Permitted(Content(d, "devices", Permissions), <<w.value>>)
    BY PutOne, Zenon
  <1> QED
    BY <1>1, <1>2, PermittedOne

\* A success has applied all the rules to what was permitted.
LEMMA DevicesSet ==
    ASSUME NEW r, IsResources(r), NEW dir, NEW update, NEW refused,
           NEW had, NEW res \in SetResults(had, dir, r, update, refused), res.ok,
           NEW rules, rules = r.Devices \o DefaultRules
    PROVE  /\ "devices" \in DOMAIN res.dir
           /\ res.dir["devices"] = Permitted(Content(dir, "devices", Permissions), rules)
  <1> DEFINE ws == DevicesWrites(r)
             x == SetSubsystem("devices", dir, r, update, refused)
             above == IF update THEN parent ELSE ParentAfterCopy
             n == Len(rules)
             p == Content(dir, "devices", Permissions)
  <1>0. RuleWrites(ws, rules)
    BY RulesWritten
  <1>1. IsList(rules) /\ n > 0 /\ IsList(ws) /\ Len(ws) = n
    BY <1>0 DEF RuleWrites
  <1>2. x.ok /\ Same(x.dir, res.dir, "devices")
    <2>1. "devices" \in Tracked /\ Owner("devices") = "devices" /\ "devices" \in Subsystems
      BY OwnerOfTracked, GuestAssumption DEF Tracked
    <2> QED
      BY <2>1, SetOne
  <1>3. x = WriteAll(dir, ws, above, Top, refused)
    <2>1. SubsystemWrites("devices", r, update) = ws
      BY DEF SubsystemWrites
    <2> QED
      BY <2>1 DEF SetSubsystem, KnownSubsystems
  <1> HIDE DEF ws, x, above, p
  <1>4. n \in Nat
    BY <1>1 DEF IsList
  <1>5. PICK h : Writes(h, dir, ws, above, Top, refused)
    BY <1>1, WriteAllSteps
  <1>6. \A j \in 0..n : IsState(h[j]) /\ h[j].ok
    <2>1. h[n].ok /\ n \in 0..n /\ \A j \in 0..n : n \in j..n
      BY <1>1, <1>2, <1>3, <1>4, <1>5 DEF Writes
    <2> QED
      BY <1>1, <1>4, <1>5, <2>1, WriteAllStates
  <1>7. PICK g : Applies(g, p, rules, n) /\ Permitted(p, rules) = g[n]
    BY <1>1, AppliesExist
  <1> DEFINE Upto(i) == /\ Content(h[i].dir, "devices", Permissions) = g[i]
                        /\ i # 0 => "devices" \in DOMAIN h[i].dir
             Bad == {i \in 0..n : ~ Upto(i)}
  <1>8. ASSUME Bad # {} PROVE FALSE
    <2>0. Bad \in SUBSET Nat
      BY <1>4
    <2>1. PICK i \in Bad : \A j \in Bad : i <= j
      <3> HIDE DEF Bad
      <3> QED
        BY <1>8, <2>0, HasMin
    <2>2. CASE i = 0
      BY <1>5, <1>7, <2>1, <2>2 DEF Writes, Applies, p
    <2>3. CASE i # 0
      <3>1. i \in 1..n /\ i - 1 \in 0..n /\ i \in 0..n /\ i - 1 \notin Bad
        BY <1>4, <2>0, <2>1, <2>3
      <3> DEFINE d == h[i - 1].dir
                 w == ws[i]
                 e == h[i].dir
      <3>2. w.file = "devices" /\ w.value = rules[i] /\ w.passes = {}
        <4>1. i \in 1..n
          BY <3>1
        <4> HIDE DEF Bad, Upto
        <4> QED
          BY <1>0, <4>1 DEF RuleWrites
      <3>3. e = Put(d, w)
        <4>1. h[i] = WriteOne(h[i - 1], w, above, Top, refused) /\ IsState(h[i - 1]) /\ h[i].ok
          BY <1>1, <1>5, <1>6, <3>1 DEF Writes
        <4> HIDE DEF w
        <4> QED
          BY <3>2, <4>1, OneWrite
      <3>4. Content(d, "devices", Permissions) = g[i - 1] /\ g[i] = Apply(g[i - 1], rules[i])
        BY <1>7, <3>1 DEF Applies
      <3> HIDE DEF d, w, e
      <3>5. "devices" \in DOMAIN e /\ e["devices"] = g[i]
        <4>1. "devices" \in DOMAIN e /\ e["devices"] = Apply(Content(d, "devices", Permissions), w.value)
          BY <3>2, <3>3, DevicePut
        <4> QED
          BY <3>2, <3>4, <4>1
      <3>6. Upto(i)
        BY <3>5 DEF e, Content
      <3> QED
        BY <2>1, <3>6
    <2> QED
      BY <2>2, <2>3
  <1>9. Upto(n) /\ n # 0
    BY <1>1, <1>4, <1>8
  <1>10. x = h[n]
    BY <1>1, <1>3, <1>5 DEF Writes
  <1> QED
    BY <1>2, <1>7, <1>9, <1>10 DEF Same, Content, p

\* The default rules change nothing.
Idle(p) == \A i \in 1..Len(DefaultRules) : Apply(p, DefaultRules[i]) = p

\* Default rules that change nothing leave it alone, whether or not all went well.
DevicesAre(dir, p) == "devices" \in DOMAIN dir /\ dir["devices"] = p

\* An update without rules of its own leaves the permissions as they are.
LEMMA DevicesLeft ==
    ASSUME NEW r, IsResources(r), r.Devices \o DefaultRules = DefaultRules, NEW dir, NEW update, NEW refused,
           NEW had, NEW res \in SetResults(had, dir, r, update, refused),
           NEW p, DevicesAre(dir, p), Idle(p)
    PROVE  DevicesAre(res.dir, p)
  <1> DEFINE ws == DevicesWrites(r)
             x == SetSubsystem("devices", dir, r, update, refused)
             above == IF update THEN parent ELSE ParentAfterCopy
             rules == DefaultRules
             n == Len(rules)
  <1>0. RuleWrites(ws, rules)
    BY RulesWritten
  <1>1. IsList(rules) /\ n > 0 /\ IsList(ws) /\ Len(ws) = n
    BY <1>0 DEF RuleWrites
  <1>2. Same(dir, res.dir, "devices") \/ Same(x.dir, res.dir, "devices")
    <2>1. "devices" \in Tracked /\ Owner("devices") = "devices"
      BY OwnerOfTracked DEF Tracked
    <2> QED
      BY <2>1, SetOne
  <1>3. x = WriteAll(dir, ws, above, Top, refused)
    <2>1. SubsystemWrites("devices", r, update) = ws
      BY DEF SubsystemWrites
    <2> QED
      BY <2>1 DEF SetSubsystem, KnownSubsystems
  <1> HIDE DEF ws, x, above, rules
  <1>4. n \in Nat
    BY <1>1 DEF IsList
  <1>5. PICK h : Writes(h, dir, ws, above, Top, refused)
    BY <1>1, WriteAllSteps
  <1>6. \A j \in 0..n : IsState(h[j])
    BY <1>1, <1>5, WriteAllStates
  <1> DEFINE Upto(i) == "devices" \in DOMAIN h[i].dir /\ h[i].dir["devices"] = p
             Bad == {i \in 0..n : ~ Upto(i)}
  <1>7. ASSUME Bad # {} PROVE FALSE
    <2>0. Bad \in SUBSET Nat
      BY <1>4
    <2>1. PICK i \in Bad : \A j \in Bad : i <= j
      <3> HIDE DEF Bad
      <3> QED
        BY <1>7, <2>0, HasMin
    <2>2. CASE i = 0
      BY <1>5, <2>1, <2>2 DEF Writes, DevicesAre
    <2>3. CASE i # 0
      <3>1. i \in 1..n /\ i - 1 \in 0..n /\ i \in 0..n /\ i - 1 \notin Bad
        BY <1>4, <2>0, <2>1, <2>3
      <3> DEFINE d == h[i - 1].dir
                 w == ws[i]
                 e == h[i].dir
      <3>2. w.file = "devices" /\ w.value = rules[i]
        <4>1. i \in 1..n
          BY <3>1
        <4> HIDE DEF Bad, Upto
        <4> QED
          BY <1>0, <4>1 DEF RuleWrites
      <3>3. e = d \/ e = Put(d, w)
        <4>1. h[i] = WriteOne(h[i - 1], w, above, Top, refused) /\ IsState(h[i - 1])
          BY <1>1, <1>5, <1>6, <3>1 DEF Writes
        <4> HIDE DEF w
        <4> QED
          BY <4>1, OneWrite
      <3>4. "devices" \in DOMAIN d /\ d["devices"] = p /\ Apply(p, rules[i]) = p
        BY <3>1 DEF rules, Idle
      <3> HIDE DEF d, w, e
      <3>5. "devices" \in DOMAIN e /\ e["devices"] = p
        <4>1. CASE e = d
          BY <3>4, <4>1
        <4>2. CASE e = Put(d, w)
          <5>1. "devices" \in DOMAIN e /\ e["devices"] = Apply(Content(d, "devices", Permissions), w.value)
            BY <3>2, <4>2, DevicePut
          <5>2. Content(d, "devices", Permissions) = p
            BY <3>4 DEF Content
          <5> QED
            BY <3>2, <3>4, <5>1, <5>2
        <4> QED
          BY <3>3, <4>1, <4>2
      <3>6. Upto(i)
        BY <3>5 DEF e
      <3> QED
        BY <2>1, <3>6
    <2> QED
      BY <2>2, <2>3
  <1>8. Upto(n)
    BY <1>4, <1>7
  <1>9. x = h[n]
    BY <1>1, <1>3, <1>5 DEF Writes
  <1> QED
    BY <1>2, <1>8, <1>9 DEF Same, DevicesAre

\* The same rules from the same permissions.
LEMMA AppliesAgree ==
    ASSUME NEW n \in Nat, NEW p, NEW s, NEW t, \A i \in 1..n : s[i] = t[i],
           NEW g, Applies(g, p, s, n), NEW h, Applies(h, p, t, n)
    PROVE  \A i \in 0..n : g[i] = h[i]
  <1> DEFINE Bad == {i \in 0..n : g[i] # h[i]}
  <1>1. ASSUME Bad # {} PROVE FALSE
    <2>0. Bad \in SUBSET Nat
      OBVIOUS
    <2>1. PICK i \in Bad : \A j \in Bad : i <= j
      <3> HIDE DEF Bad
      <3> QED
        BY <1>1, <2>0, HasMin
    <2>2. i # 0
      BY <2>1 DEF Applies
    <2>3. i \in 1..n /\ i - 1 \in 0..n /\ i - 1 \notin Bad
      BY <2>0, <2>1, <2>2
    <2>4. g[i] = Apply(g[i - 1], s[i]) /\ h[i] = Apply(h[i - 1], t[i])
      BY <2>3 DEF Applies
    <2> QED
      BY <2>1, <2>3, <2>4
  <1> QED
    BY <1>1

\* Rules after others.
LEMMA PermittedInARow ==
    ASSUME NEW p, NEW s, IsList(s), NEW t, IsList(t)
    PROVE  Permitted(p, s \o t) = Permitted(Permitted(p, s), t)
  <1> DEFINE u == s \o t
             m == Len(s)
             n == Len(t)
  <1>1. /\ IsList(u) /\ Len(u) = m + n
        /\ \A i \in 1..m : u[i] = s[i]
        /\ \A i \in 1..n : u[m + i] = t[i]
    BY ListsInARow
  <1>2. m \in Nat /\ n \in Nat
    BY DEF IsList
  <1> HIDE DEF u, m, n
  <1>3. PICK h : Applies(h, p, u, Len(u)) /\ Permitted(p, u) = h[Len(u)]
    BY <1>1, AppliesExist
  <1>4. PICK g : Applies(g, p, s, m) /\ Permitted(p, s) = g[m]
    BY AppliesExist DEF m
  <1>5. PICK f : Applies(f, g[m], t, n) /\ Permitted(g[m], t) = f[n]
    BY AppliesExist DEF n
  <1>6. h[m] = g[m]
    <2>1. Applies(h, p, u, m)
      BY <1>1, <1>2, <1>3 DEF Applies
    <2>2. \A i \in 0..m : h[i] = g[i]
      <3>1. m \in Nat /\ \A i \in 1..m : u[i] = s[i]
        BY <1>1, <1>2
      <3>2. Applies(g, p, s, m)
        BY <1>4
      <3> QED
        BY <2>1, <3>1, <3>2, AppliesAgree
    <2> QED
      BY <1>2, <2>2
  <1> DEFINE k == [i \in 0..n |-> h[m + i]]
  <1>7. Applies(k, g[m], t, n)
    <2>1. k[0] = g[m]
      BY <1>2, <1>6
    <2>2. ASSUME NEW i \in 1..n PROVE k[i] = Apply(k[i - 1], t[i])
      <3>1. i \in 0..n /\ i - 1 \in 0..n /\ m + i \in 1..Len(u) /\ (m + i) - 1 = m + (i - 1)
        BY <1>1, <1>2
      <3>2. h[m + i] = Apply(h[(m + i) - 1], u[m + i]) /\ u[m + i] = t[i]
        BY <1>1, <1>3, <3>1 DEF Applies
      <3> QED
        BY <3>1, <3>2
    <2> HIDE DEF k
    <2> QED
      BY <2>1, <2>2 DEF Applies
  <1>8. k[n] = f[n]
    <2> HIDE DEF k
    <2>1. \A i \in 1..n : t[i] = t[i]
      OBVIOUS
    <2>2. \A i \in 0..n : k[i] = f[i]
      BY <1>2, <1>5, <1>7, <2>1, AppliesAgree
    <2> QED
      BY <1>2, <2>2
  <1>9. k[n] = h[Len(u)]
    BY <1>1, <1>2
  <1> HIDE DEF k
  <1>10. Permitted(p, u) = Permitted(Permitted(p, s), t)
    BY <1>3, <1>4, <1>5, <1>8, <1>9
  <1> QED
    BY <1>10 DEF u

\* Rules that allow add what they cover.
LEMMA PermittedAllows ==
    ASSUME NEW p, NEW s, IsList(s), \A i \in 1..Len(s) : s[i].allow
    PROVE  Permitted(p, s) = p \cup UNION {Covered(s[i]) : i \in 1..Len(s)}
  <1> DEFINE n == Len(s)
             All(i) == p \cup UNION {Covered(s[j]) : j \in 1..i}
             Bad(h) == {i \in 0..n : h[i] # All(i)}
  <1>1. n \in Nat
    BY DEF IsList
  <1>2. PICK h : Applies(h, p, s, n) /\ Permitted(p, s) = h[n]
    BY AppliesExist
  <1>3. ASSUME Bad(h) # {} PROVE FALSE
    <2>0. Bad(h) \in SUBSET Nat
      BY <1>1
    <2>1. PICK i \in Bad(h) : \A j \in Bad(h) : i <= j
      <3> HIDE DEF Bad
      <3> QED
        BY <1>3, <2>0, HasMin
    <2>2. CASE i = 0
      <3>1. h[0] = p
        BY <1>2 DEF Applies
      <3>2. All(0) = p
        OBVIOUS
      <3> QED
        BY <2>1, <2>2, <3>1, <3>2
    <2>3. CASE i # 0
      <3>1. i \in 1..n /\ i - 1 \in 0..n /\ i - 1 \notin Bad(h)
        BY <1>1, <2>0, <2>1, <2>3
      <3>2. h[i] = Apply(h[i - 1], s[i]) /\ s[i].allow
        BY <1>2, <3>1 DEF Applies
      <3>3. h[i] = h[i - 1] \cup Covered(s[i])
        BY <3>2 DEF Apply
      <3>4. h[i - 1] = All(i - 1)
        BY <3>1
      <3>5. 1..i = 1..(i - 1) \cup {i}
        BY <3>1
      <3>6. All(i) = All(i - 1) \cup Covered(s[i])
        BY <3>5
      <3> HIDE DEF All
      <3>7. h[i] = All(i)
        BY <3>3, <3>4, <3>6
      <3> QED
        BY <2>1, <3>7
    <2> QED
      BY <2>2, <2>3
  <1>4. n \in 0..n
    BY <1>1
  <1>5. h[n] = All(n)
    <2> HIDE DEF All
    <2> QED
      BY <1>3, <1>4
  <1> QED
    BY <1>2, <1>5

\* The default rules change nothing a second time.
LEMMA DefaultsAgain ==
    ASSUME NEW rules, IsList(rules), NEW p, p = Permitted(Permissions, rules \o DefaultRules)
    PROVE  Idle(p)
  <1> DEFINE q == Permitted(Permissions, rules)
             all == UNION {Covered(DefaultRules[i]) : i \in 1..Len(DefaultRules)}
  <1>1. IsList(DefaultRules) /\ \A i \in 1..Len(DefaultRules) : DefaultRules[i].allow
    BY DefaultRulesAllow
  <1>2. p = Permitted(q, DefaultRules)
    BY <1>1, PermittedInARow
  <1>3. Permitted(q, DefaultRules) = q \cup all
    <2> HIDE DEF q
    <2> QED
      BY <1>1, PermittedAllows
  <1>4. ASSUME NEW i \in 1..Len(DefaultRules) PROVE Covered(DefaultRules[i]) \subseteq all
    OBVIOUS
  <1> HIDE DEF q, all
  <1>5. ASSUME NEW i \in 1..Len(DefaultRules) PROVE Apply(p, DefaultRules[i]) = p
    <2>1. Covered(DefaultRules[i]) \subseteq p
      BY <1>2, <1>3, <1>4
    <2>2. Apply(p, DefaultRules[i]) = p \cup Covered(DefaultRules[i])
      BY <1>1 DEF Apply
    <2> QED
      BY <2>1, <2>2
  <1> QED
    BY <1>5 DEF Idle

-----------------------------------------------------------------------------
(* The invariant.                                                          *)

\* The functions of the state have their domains.
Functions ==
    /\ DOMAIN dirs = Containers /\ DOMAIN origin = Containers /\ DOMAIN asked = Containers
    /\ DOMAIN parent = CpusetFiles
    /\ nodes \in Nodes /\ kernel \in Kernels
    /\ DOMAIN made = Containers
    /\ io # {} => "blkio" \in Subsystems

\* The sandbox container is the first and the last one; what a container was
\* created with is one of the requests for it.
Lifetimes ==
    /\ known \subseteq created /\ created \subseteq Containers
    /\ known # {} => SandboxContainer \in known
    /\ SandboxContainer \notin created => created = {} /\ parent["cpuset.cpus"] = {}
    /\ \A c \in Containers \ created : asked[c] = NoFiles
    /\ \A c \in known : /\ origin[c] \in Creations[c]
                        /\ origin[c].resources # NoValue => "cpuset" \in made[c]
    /\ \A c \in Containers : made[c] \subseteq Subsystems

\* GuestCpusReached, and why: the parent has the cpus of the guest, or none yet.
CpusFollow ==
    synced =>
        /\ known # {} => parent["cpuset.cpus"] \in {{}, online}
        /\ \A c \in known \ pinned : origin[c].resources # NoValue =>
              "cpuset.cpus" \in DOMAIN dirs[c] /\ dirs[c]["cpuset.cpus"] = online

\* A limit that was asked for is in its file.
LimitsKept ==
    \A c \in known, file \in LimitFiles :
        file \in DOMAIN asked[c] /\ (file = "memory.memsw.limit_in_bytes" => SwapAccounting) =>
            file \in DOMAIN dirs[c] /\ dirs[c][file] = asked[c][file]

\* A container's devices are those of its spec with the numbers of the guest.
GuestSpec(q) == add_devices(q.devices, q.spec, Hotplug, nodes)
DevicesKept ==
    \A c \in known : origin[c].resources # NoValue =>
        /\ ~ GuestSpec(origin[c]).error
        /\ "devices" \in DOMAIN dirs[c]
        /\ dirs[c]["devices"] = Permitted(Permissions, GuestSpec(origin[c]).spec.rules \o DefaultRules)

Inv == Functions /\ Lifetimes /\ CpusFollow /\ LimitsKept /\ DevicesKept /\ StatsTrue

\* Before any request.
LEMMA InitInv == Init => Inv
  <1> SUFFICES ASSUME Init PROVE Inv
    OBVIOUS
  <1> USE DEF Init
  <1>1. Functions /\ Lifetimes /\ CpusFollow /\ LimitsKept /\ DevicesKept
    BY DEF Functions, Lifetimes, CpusFollow, LimitsKept, DevicesKept, CpusetFiles, Kernels, Nodes
  <1>2. StatsTrue
    BY DEF StatsTrue, NoStats
  <1> QED
    BY <1>1, <1>2 DEF Inv

-----------------------------------------------------------------------------
(* CreateContainer.                                                        *)

\* The spec of a request, and what add_devices makes of it.
LEMMA CreationsSpec ==
    ASSUME NEW c \in Containers, NEW q \in Creations[c]
    PROVE  /\ IsSpec(q.spec)
           /\ q.devices \in Seq(DeviceRecords)
  <1>1. q.devices \in Seq(DeviceRecords)
    BY RequestsAssumption DEF DeviceRecords
  <1>2. /\ q.spec = [devices |-> q.spec.devices, rules |-> q.spec.rules]
        /\ IsList(q.spec.devices) /\ IsList(q.spec.rules)
    <2> DEFINE D == [path : STRING, type : {"b", "c"}, num : Numbers]
               R == [allow : BOOLEAN, type : {"b", "c", Empty},
                     num : Numbers \cup Range(DefaultNumbers) \cup {WILDCARD, 0},
                     access : SUBSET Access]
    <2>1. q.spec \in [devices : Seq(D), rules : Seq(R)]
      BY RequestsAssumption
    <2> HIDE DEF D, R
    <2> QED
      BY <2>1, SeqIsList
  <1> QED
    BY <1>1, <1>2 DEF IsSpec

\* The limits of a request are in their files.
HasLimits(r, update, dir) ==
    \A file \in LimitFiles :
        file \in DOMAIN Wanted(r, update) /\ (file = "memory.memsw.limit_in_bytes" => SwapAccounting) =>
            file \in DOMAIN dir /\ dir[file] = Wanted(r, update)[file]

\* A success has set all the limits that were asked for.
LEMMA AllLimitsSet ==
    ASSUME NEW r, IsResources(r), NEW dir, NEW update, NEW refused \in SUBSET Refusals,
           NEW had, NEW res \in SetResults(had, dir, r, update, refused), res.ok
    PROVE  HasLimits(r, update, res.dir)
  <1> SUFFICES ASSUME NEW file \in LimitFiles, file \in DOMAIN Wanted(r, update),
                      file = "memory.memsw.limit_in_bytes" => SwapAccounting
               PROVE  file \in DOMAIN res.dir /\ res.dir[file] = Wanted(r, update)[file]
    BY DEF HasLimits
  <1> QED
    BY LimitsSet

\* The request of start(): the resources with the rules of the spec.
LEMMA CreationResources ==
    ASSUME NEW x, IsResources(x), NEW rules, IsList(rules), NEW r, r = [x EXCEPT !.Devices = rules]
    PROVE  IsResources(r) /\ r.Devices = rules
  <1>1. DOMAIN r = DOMAIN x /\ r.Devices = rules
    BY DEF IsResources
  <1>2. r.HugepageLimits = x.HugepageLimits /\ r.BlockIO = x.BlockIO /\ r.Network = x.Network
    BY DEF IsResources
  <1> QED
    BY <1>1, <1>2 DEF IsResources

\* The set() of a creation.
LEMMA CreationSet ==
    ASSUME NEW r, IsResources(r), NEW refused \in SUBSET Refusals,
           NEW had, NEW res \in SetResults(had, NoFiles, r, FALSE, refused), res.ok
    PROVE  /\ \A file \in LimitFiles :
                 file \in DOMAIN Wanted(r, FALSE) /\ (file = "memory.memsw.limit_in_bytes" => SwapAccounting) =>
                     file \in DOMAIN res.dir /\ res.dir[file] = Wanted(r, FALSE)[file]
           /\ "cpuset.cpus" \notin DOMAIN Wanted(r, FALSE) =>
                 "cpuset.cpus" \in DOMAIN res.dir
                 /\ res.dir["cpuset.cpus"] = ParentAfterCopy["cpuset.cpus"]
           /\ "devices" \in DOMAIN res.dir
           /\ res.dir["devices"] = Permitted(Permissions, r.Devices \o DefaultRules)
  <1>1. ASSUME NEW file \in LimitFiles, file \in DOMAIN Wanted(r, FALSE),
               file = "memory.memsw.limit_in_bytes" => SwapAccounting
        PROVE  file \in DOMAIN res.dir /\ res.dir[file] = Wanted(r, FALSE)[file]
    <2>1. HasLimits(r, FALSE, res.dir)
      BY AllLimitsSet
    <2> QED
      BY <1>1, <2>1 DEF HasLimits
  <1>2. ASSUME "cpuset.cpus" \notin DOMAIN Wanted(r, FALSE)
        PROVE  "cpuset.cpus" \in DOMAIN res.dir
               /\ res.dir["cpuset.cpus"] = ParentAfterCopy["cpuset.cpus"]
    <2>1. "cpuset.cpus" \in Tracked
      BY DEF Tracked
    <2> QED
      BY <1>2, <2>1, NotWanted
  <1>3. /\ "devices" \in DOMAIN res.dir
        /\ res.dir["devices"] = Permitted(Content(NoFiles, "devices", Permissions), r.Devices \o DefaultRules)
    BY DevicesSet
  <1>4. Content(NoFiles, "devices", Permissions) = Permissions
    BY DEF Content, NoFiles
  <1> QED
    BY <1>1, <1>2, <1>3, <1>4

\* The directories that there are after it.
LEMMA MadeOf ==
    ASSUME NEW r, NEW had, had \subseteq Subsystems, NEW dir, NEW update, NEW refused,
           NEW res \in SetResults(had, dir, r, update, refused)
    PROVE  had \subseteq res.made /\ res.made \subseteq Subsystems
           /\ (res.ok => res.made = Subsystems)
  <1> DEFINE sub == [n \in Subsystems |-> SetSubsystem(n, dir, r, update, refused)]
             new(n) == {f \in DOMAIN sub[n].dir : f \notin DOMAIN dir \/ sub[n].dir[f] # dir[f]}
             changes == UNION {{[name |-> n, file |-> f, value |-> sub[n].dir[f]] : f \in new(n)} :
                                  n \in Subsystems}
             by(ns) == {w \in changes : w.name \in ns}
             after(ns) == Over([f \in {w.file : w \in by(ns)} |->
                                   (CHOOSE w \in by(ns) : w.file = f).value], dir)
             fails == {n \in Subsystems : ~sub[n].ok}
             others == {n \in Subsystems \ fails : n \notin had \/ by({n}) # {}}
  <1>1. SetResults(had, dir, r, update, refused) =
            IF fails = {} THEN {[ok |-> TRUE, dir |-> after(Subsystems), made |-> Subsystems]}
            ELSE {[ok |-> FALSE, dir |-> after(done), made |-> had \cup done] :
                     done \in {d \in SUBSET (others \cup fails) : \E f \in fails : d \cap fails = {f}}}
    BY DEF SetResults
  <1>2. others \cup fails \subseteq Subsystems
    OBVIOUS
  <1> HIDE DEF after, fails, others
  <1>3. CASE fails = {}
    <2>1. res = [ok |-> TRUE, dir |-> after(Subsystems), made |-> Subsystems]
      BY <1>1, <1>3
    <2> QED
      BY <2>1
  <1>4. CASE fails # {}
    <2>1. PICK done \in SUBSET (others \cup fails) :
              res = [ok |-> FALSE, dir |-> after(done), made |-> had \cup done]
      BY <1>1, <1>4
    <2> QED
      BY <1>2, <2>1
  <1> QED
    BY <1>3, <1>4

\* What a set() that ended with res leaves of a container that is created.
Created(c, r, res) ==
    /\ parent' = IF "cpuset.cpus" \in DOMAIN res.dir THEN ParentAfterCopy ELSE parent
    /\ made' = [made EXCEPT ![c] = IF res.ok THEN res.made ELSE res.made \cap {"cpuset"}]
    /\ IF res.ok
       THEN /\ known' = known \cup {c}
            /\ dirs' = [dirs EXCEPT ![c] = res.dir]
            /\ asked' = [asked EXCEPT ![c] = Wanted(r, FALSE)]
            /\ pinned' = IF "cpuset.cpus" \in DOMAIN Wanted(r, FALSE)
                         THEN pinned \cup {c} ELSE pinned
       ELSE UNCHANGED <<known, dirs, asked, pinned>>

\* CreateContainer keeps the invariant.
LEMMA CreateInv ==
    ASSUME Inv, NEW c \in Containers, NEW q \in Creations[c], CreateContainer(c, q)
    PROVE  Inv'
  <1> DEFINE s == GuestSpec(q)
             r == [q.resources EXCEPT !.Devices = s.spec.rules]
  <1>0. Functions /\ Lifetimes /\ CpusFollow /\ LimitsKept /\ DevicesKept
    BY DEF Inv
  <1>1. /\ c \notin created /\ c \notin known
        /\ c # SandboxContainer => SandboxContainer \in known
        /\ created' = created \cup {c}
        /\ origin' = [origin EXCEPT ![c] = q]
        /\ stats' = NoStats /\ nodes' = nodes /\ kernel' = kernel /\ io' = io
        /\ online' = online /\ synced' = synced
    BY <1>0 DEF CreateContainer, Lifetimes, guestVars
  <1>2. origin'[c] = q /\ DOMAIN origin' = Containers
        /\ \A d \in Containers \ {c} : origin'[d] = origin[d]
    BY <1>0, <1>1 DEF Functions
  <1>3. \/ /\ s.error \/ q.resources = NoValue
           /\ UNCHANGED <<parent, made, dirs, asked, pinned>>
           /\ known' = IF s.error THEN known ELSE known \cup {c}
        \/ /\ ~s.error /\ q.resources # NoValue
           /\ \E refused \in SUBSET Refusals : \E res \in SetResults({}, NoFiles, r, FALSE, refused) :
                 Created(c, r, res)
    BY DEF CreateContainer, GuestSpec, Created
  <1> HIDE DEF s, r
  <1>4. \* What the request does to the other containers, and to all of them.
        /\ known \subseteq known' /\ known' \subseteq known \cup {c}
        /\ pinned \subseteq pinned'
        /\ DOMAIN made' = Containers
        /\ \A d \in Containers : made'[d] \subseteq Subsystems
        /\ \A d \in Containers \ {c} : made'[d] = made[d]
        /\ DOMAIN dirs' = Containers /\ DOMAIN asked' = Containers
        /\ \A d \in Containers \ {c} : dirs'[d] = dirs[d] /\ asked'[d] = asked[d]
        /\ DOMAIN parent' = CpusetFiles
        /\ parent'["cpuset.cpus"] \in {parent["cpuset.cpus"], ParentAfterCopy["cpuset.cpus"]}
    <2>1. CASE UNCHANGED <<parent, made, dirs, asked, pinned>> /\ known' = IF s.error THEN known ELSE known \cup {c}
      BY <1>0, <2>1 DEF Functions, Lifetimes
    <2>2. CASE \E refused \in SUBSET Refusals : \E res \in SetResults({}, NoFiles, r, FALSE, refused) :
                   Created(c, r, res)
      <3>1. PICK refused \in SUBSET Refusals : \E res \in SetResults({}, NoFiles, r, FALSE, refused) :
                   Created(c, r, res)
        BY <2>2
      <3>1a. PICK res \in SetResults({}, NoFiles, r, FALSE, refused) : Created(c, r, res)
        BY <3>1
      <3>1b. res.made \subseteq Subsystems
        BY MadeOf
      <3>2. DOMAIN ParentAfterCopy = CpusetFiles
        BY DEF ParentAfterCopy
      <3>3. DOMAIN parent' = CpusetFiles
            /\ parent'["cpuset.cpus"] \in {parent["cpuset.cpus"], ParentAfterCopy["cpuset.cpus"]}
        BY <1>0, <3>1a, <3>2 DEF Functions, Created
      <3>4. /\ known \subseteq known' /\ known' \subseteq known \cup {c} /\ pinned \subseteq pinned'
        BY <3>1a DEF Created
      <3>5. /\ DOMAIN dirs' = Containers /\ DOMAIN asked' = Containers
            /\ \A d \in Containers \ {c} : dirs'[d] = dirs[d] /\ asked'[d] = asked[d]
        BY <1>0, <3>1a DEF Functions, Created
      <3>6. /\ DOMAIN made' = Containers
            /\ \A d \in Containers : made'[d] \subseteq Subsystems
            /\ \A d \in Containers \ {c} : made'[d] = made[d]
        BY <1>0, <3>1a, <3>1b DEF Functions, Lifetimes, Created
      <3> QED
        BY <3>3, <3>4, <3>5, <3>6
    <2> QED
      BY <1>3, <2>1, <2>2
  <1>5. \* The new one's files.
        ASSUME c \in known', q.resources # NoValue
        PROVE  /\ ~s.error /\ "cpuset" \in made'[c]
               /\ \A file \in LimitFiles :
                     file \in DOMAIN asked'[c] /\ (file = "memory.memsw.limit_in_bytes" => SwapAccounting) =>
                         file \in DOMAIN dirs'[c] /\ dirs'[c][file] = asked'[c][file]
               /\ c \notin pinned' => /\ "cpuset.cpus" \in DOMAIN dirs'[c]
                                     /\ dirs'[c]["cpuset.cpus"] = ParentAfterCopy["cpuset.cpus"]
               /\ "devices" \in DOMAIN dirs'[c]
               /\ dirs'[c]["devices"] = Permitted(Permissions, s.spec.rules \o DefaultRules)
    <2>1. /\ ~s.error
          /\ \E refused \in SUBSET Refusals : \E res \in SetResults({}, NoFiles, r, FALSE, refused) :
                Created(c, r, res)
      BY <1>1, <1>3, <1>5
    <2>1a. PICK refused \in SUBSET Refusals : \E res \in SetResults({}, NoFiles, r, FALSE, refused) :
                Created(c, r, res)
      BY <2>1
    <2>2. PICK res \in SetResults({}, NoFiles, r, FALSE, refused) : Created(c, r, res)
      BY <2>1a
    <2>3. res.ok
      BY <1>1, <1>5, <2>2 DEF Created
    <2>3a. "cpuset" \in made'[c]
      <3>1. res.made = Subsystems
        BY <2>3, MadeOf
      <3> QED
        BY <1>0, <2>2, <2>3, <3>1, GuestAssumption DEF Functions, Created
    <2>4. IsResources(r) /\ r.Devices = s.spec.rules
      <3>1. IsSpec(s.spec)
        BY <2>1, CreationsSpec, AddDevicesIsSpec DEF s, GuestSpec
      <3>2. IsResources(q.resources) /\ IsList(s.spec.rules)
        BY <1>5, <3>1, RequestsAssumption DEF IsSpec
      <3> QED
        BY <3>2, CreationResources DEF r
    <2>5. /\ \A file \in LimitFiles :
                 file \in DOMAIN Wanted(r, FALSE) /\ (file = "memory.memsw.limit_in_bytes" => SwapAccounting) =>
                     file \in DOMAIN res.dir /\ res.dir[file] = Wanted(r, FALSE)[file]
          /\ "cpuset.cpus" \notin DOMAIN Wanted(r, FALSE) =>
                 "cpuset.cpus" \in DOMAIN res.dir
                 /\ res.dir["cpuset.cpus"] = ParentAfterCopy["cpuset.cpus"]
          /\ "devices" \in DOMAIN res.dir
          /\ res.dir["devices"] = Permitted(Permissions, r.Devices \o DefaultRules)
      BY <2>3, <2>4, CreationSet
    <2>6. dirs'[c] = res.dir /\ asked'[c] = Wanted(r, FALSE)
      BY <1>0, <2>2, <2>3 DEF Functions, Created
    <2>7. c \notin pinned' => "cpuset.cpus" \notin DOMAIN Wanted(r, FALSE)
      BY <2>2, <2>3 DEF Created
    <2> QED
      BY <2>1, <2>3a, <2>4, <2>5, <2>6, <2>7
  <1>6. ASSUME c \in known', q.resources = NoValue
        PROVE  DOMAIN asked'[c] = {}
    <2>1. asked[c] = NoFiles
      BY <1>0, <1>1 DEF Lifetimes
    <2>2. asked' = asked
      BY <1>3, <1>6
    <2> QED
      BY <2>1, <2>2 DEF NoFiles
  <1>7. Functions'
    BY <1>0, <1>1, <1>2, <1>4 DEF Functions
  <1>8. Lifetimes'
    <2>1. known' \subseteq created' /\ created' \subseteq Containers
      BY <1>0, <1>1, <1>4 DEF Lifetimes
    <2>2. known' # {} => SandboxContainer \in known'
      BY <1>0, <1>1, <1>4 DEF Lifetimes
    <2>3. SandboxContainer \in created'
      BY <1>0, <1>1 DEF Lifetimes
    <2>4. \A d \in Containers \ created' : asked'[d] = NoFiles
      BY <1>0, <1>1, <1>4 DEF Lifetimes
    <2>5. ASSUME NEW d \in known'
          PROVE  origin'[d] \in Creations[d] /\ (origin'[d].resources # NoValue => "cpuset" \in made'[d])
      <3>1. CASE d = c
        BY <1>2, <1>5, <2>5, <3>1
      <3>2. CASE d # c
        BY <1>0, <1>2, <1>4, <2>1, <2>5, <3>2 DEF Lifetimes
      <3> QED
        BY <3>1, <3>2
    <2> QED
      BY <1>4, <2>1, <2>2, <2>3, <2>4, <2>5 DEF Lifetimes
  <1>9. CpusFollow'
    <2> SUFFICES ASSUME synced
                 PROVE  /\ known' # {} => parent'["cpuset.cpus"] \in {{}, online}
                        /\ \A d \in known' \ pinned' : origin'[d].resources # NoValue =>
                              "cpuset.cpus" \in DOMAIN dirs'[d] /\ dirs'[d]["cpuset.cpus"] = online
      BY <1>1 DEF CpusFollow
    <2>1. parent["cpuset.cpus"] \in {{}, online}
      <3>1. CASE known # {}
        BY <1>0, <3>1 DEF CpusFollow
      <3>2. CASE known = {}
        BY <1>0, <1>1, <3>2 DEF Lifetimes
      <3> QED
        BY <3>1, <3>2
    <2>2. ParentAfterCopy["cpuset.cpus"] = online
      <3>1. ParentAfterCopy["cpuset.cpus"] =
                IF parent["cpuset.cpus"] = {} THEN Top["cpuset.cpus"] ELSE parent["cpuset.cpus"]
        BY DEF ParentAfterCopy, CpusetFiles
      <3>2. Top["cpuset.cpus"] = online
        BY OneOver DEF Top
      <3> QED
        BY <2>1, <3>1, <3>2
    <2>3. ASSUME NEW d \in known' \ pinned', origin'[d].resources # NoValue
          PROVE  "cpuset.cpus" \in DOMAIN dirs'[d] /\ dirs'[d]["cpuset.cpus"] = online
      <3>1. CASE d = c
        BY <1>2, <1>5, <2>2, <2>3, <3>1
      <3>2. CASE d # c
        <4>1. d \in known \ pinned /\ d \in Containers \ {c}
          BY <1>0, <1>4, <2>3, <3>2 DEF Lifetimes
        <4> QED
          BY <1>0, <1>2, <1>4, <2>3, <4>1 DEF CpusFollow
      <3> QED
        BY <3>1, <3>2
    <2> QED
      BY <1>4, <2>1, <2>2, <2>3
  <1>10. LimitsKept'
    <2> SUFFICES ASSUME NEW d \in known', NEW file \in LimitFiles, file \in DOMAIN asked'[d],
                        file = "memory.memsw.limit_in_bytes" => SwapAccounting
                 PROVE  file \in DOMAIN dirs'[d] /\ dirs'[d][file] = asked'[d][file]
      BY DEF LimitsKept
    <2>1. CASE d = c
      BY <1>5, <1>6, <2>1
    <2>2. CASE d # c
      <3>1. d \in known /\ d \in Containers \ {c}
        BY <1>0, <1>4, <2>2 DEF Lifetimes
      <3> QED
        BY <1>0, <1>4, <3>1 DEF LimitsKept
    <2> QED
      BY <2>1, <2>2
  <1>11. DevicesKept'
    <2> SUFFICES ASSUME NEW d \in known', origin'[d].resources # NoValue
                 PROVE  /\ ~ GuestSpec(origin'[d]).error
                        /\ "devices" \in DOMAIN dirs'[d]
                        /\ dirs'[d]["devices"] = Permitted(Permissions, GuestSpec(origin'[d]).spec.rules \o DefaultRules)
      BY <1>1 DEF DevicesKept, GuestSpec
    <2>1. CASE d = c
      BY <1>2, <1>5, <2>1 DEF s
    <2>2. CASE d # c
      <3>1. d \in known /\ d \in Containers \ {c}
        BY <1>0, <1>4, <2>2 DEF Lifetimes
      <3> QED
        BY <1>0, <1>2, <1>4, <3>1 DEF DevicesKept
    <2> QED
      BY <2>1, <2>2
  <1>12. StatsTrue'
    BY <1>1 DEF StatsTrue, NoStats
  <1> QED
    BY <1>7, <1>8, <1>9, <1>10, <1>11, <1>12 DEF Inv

-----------------------------------------------------------------------------
(* The other requests.                                                     *)

\* What a set() that ended with res leaves of a container that is updated.
Updated(c, r, res) ==
    /\ made' = [made EXCEPT ![c] = res.made]
    /\ dirs' = [dirs EXCEPT ![c] = res.dir]
    /\ asked' = [asked EXCEPT ![c] =
           IF res.ok THEN Over(Wanted(r, TRUE), @) ELSE Forget(DOMAIN Wanted(r, TRUE), @)]

\* UpdateContainer keeps it, whether set() succeeds or fails half-way.
LEMMA UpdateInv ==
    ASSUME Inv, NEW c \in Containers, NEW r \in Updates, UpdateContainer(c, r)
    PROVE  Inv'
  <1>0. Functions /\ Lifetimes /\ CpusFollow /\ LimitsKept /\ DevicesKept
    BY DEF Inv
  <1>1. /\ stats' = NoStats /\ known' = known /\ created' = created
        /\ nodes' = nodes /\ kernel' = kernel /\ io' = io
        /\ online' = online /\ parent' = parent /\ origin' = origin /\ synced' = synced
    BY DEF UpdateContainer, guestVars
  <1>2. StatsTrue'
    BY <1>1 DEF StatsTrue, NoStats
  <1>3. CASE c \notin known
    <2>1. UNCHANGED <<made, dirs, asked, pinned>>
      BY <1>3 DEF UpdateContainer
    <2>2. Functions' /\ Lifetimes' /\ CpusFollow' /\ LimitsKept' /\ DevicesKept'
      BY <1>0, <1>1, <2>1 DEF Functions, Lifetimes, CpusFollow, LimitsKept, DevicesKept, GuestSpec
    <2> QED
      BY <1>2, <2>2 DEF Inv
  <1>4. CASE c \in known
    <2>1. /\ pinned' = IF "cpuset.cpus" \in DOMAIN Wanted(r, TRUE) THEN pinned \cup {c} ELSE pinned
          /\ \E refused \in SUBSET Refusals : \E res \in SetResults(made[c], dirs[c], r, TRUE, refused) :
                Updated(c, r, res)
      BY <1>4 DEF UpdateContainer, Updated
    <2>2. PICK refused \in SUBSET Refusals : \E res \in SetResults(made[c], dirs[c], r, TRUE, refused) :
                Updated(c, r, res)
      BY <2>1
    <2>3. PICK res \in SetResults(made[c], dirs[c], r, TRUE, refused) : Updated(c, r, res)
      BY <2>2
    <2>4. /\ DOMAIN dirs' = Containers /\ DOMAIN asked' = Containers
          /\ dirs'[c] = res.dir
          /\ asked'[c] = IF res.ok THEN Over(Wanted(r, TRUE), asked[c])
                         ELSE Forget(DOMAIN Wanted(r, TRUE), asked[c])
          /\ \A d \in Containers \ {c} : dirs'[d] = dirs[d] /\ asked'[d] = asked[d]
      BY <1>0, <2>3 DEF Functions, Updated
    <2>4a. /\ DOMAIN made' = Containers
           /\ \A d \in Containers : made[d] \subseteq made'[d] /\ made'[d] \subseteq Subsystems
      <3>1. made[c] \subseteq res.made /\ res.made \subseteq Subsystems
        BY <1>0, MadeOf DEF Lifetimes
      <3> QED
        BY <1>0, <2>3, <3>1 DEF Functions, Lifetimes, Updated
    <2>5. known \subseteq Containers /\ known \subseteq created
      BY <1>0 DEF Lifetimes
    <2>6. IsResources(r) /\ r.Devices = <<>>
      BY RequestsAssumption
    <2>7. Functions' /\ Lifetimes'
      <3>1. Functions'
        BY <1>0, <1>1, <2>4, <2>4a DEF Functions
      <3>2. \A d \in Containers \ created : asked'[d] = NoFiles
        BY <1>0, <1>4, <2>4, <2>5 DEF Lifetimes
      <3>3. \A d \in known : origin[d] \in Creations[d] /\ (origin[d].resources # NoValue => "cpuset" \in made'[d])
        BY <1>0, <2>4a, <2>5 DEF Lifetimes
      <3> QED
        BY <1>0, <1>1, <2>4a, <3>1, <3>2, <3>3 DEF Lifetimes
    <2>8. \A file \in Tracked : file # "devices" /\ file \notin DOMAIN Wanted(r, TRUE) =>
              Same(dirs[c], res.dir, file)
      BY <2>6, NotWanted
    <2>9. CpusFollow'
      <3> SUFFICES ASSUME synced, NEW d \in known \ pinned', origin[d].resources # NoValue
                   PROVE  "cpuset.cpus" \in DOMAIN dirs'[d] /\ dirs'[d]["cpuset.cpus"] = online
        BY <1>0, <1>1 DEF CpusFollow
      <3>1. d \notin pinned
        BY <2>1
      <3>2. "cpuset.cpus" \in DOMAIN dirs[d] /\ dirs[d]["cpuset.cpus"] = online
        BY <1>0, <3>1 DEF CpusFollow
      <3>3. CASE d = c
        <4>1. "cpuset.cpus" \notin DOMAIN Wanted(r, TRUE) /\ "cpuset.cpus" \in Tracked
          BY <2>1, <3>3 DEF Tracked
        <4>2. Same(dirs[c], res.dir, "cpuset.cpus")
          BY <2>8, <4>1
        <4> QED
          BY <2>4, <3>2, <3>3, <4>2 DEF Same
      <3>4. CASE d # c
        BY <2>4, <2>5, <3>2, <3>4
      <3> QED
        BY <3>3, <3>4
    <2>10. LimitsKept'
      <3> SUFFICES ASSUME NEW d \in known, NEW file \in LimitFiles, file \in DOMAIN asked'[d],
                          file = "memory.memsw.limit_in_bytes" => SwapAccounting
                   PROVE  file \in DOMAIN dirs'[d] /\ dirs'[d][file] = asked'[d][file]
        BY <1>1 DEF LimitsKept
      <3>1. CASE d = c /\ file \in DOMAIN Wanted(r, TRUE)
        <4>1. res.ok
          <5>1. file \notin DOMAIN Forget(DOMAIN Wanted(r, TRUE), asked[c])
            BY <3>1 DEF Forget
          <5> QED
            BY <2>4, <3>1, <5>1
        <4>2. asked'[c][file] = Wanted(r, TRUE)[file]
          <5> DEFINE w == Wanted(r, TRUE)
                     g == asked[c]
          <5>1. asked'[c] = [f \in DOMAIN w \cup DOMAIN g |-> IF f \in DOMAIN w THEN w[f] ELSE g[f]]
            BY <2>4, <4>1 DEF Over
          <5> HIDE DEF w
          <5>2. file \in DOMAIN w
            BY <3>1 DEF w
          <5>3. asked'[c][file] = w[file]
            BY <5>1, <5>2
          <5> QED
            BY <5>3 DEF w
        <4>3. file \in DOMAIN res.dir /\ res.dir[file] = Wanted(r, TRUE)[file]
          <5>1. HasLimits(r, TRUE, res.dir)
            BY <2>6, <4>1, AllLimitsSet
          <5> QED
            BY <3>1, <5>1 DEF HasLimits
        <4> QED
          BY <2>4, <3>1, <4>2, <4>3
      <3>2. CASE d = c /\ file \notin DOMAIN Wanted(r, TRUE)
        <4> DEFINE w == Wanted(r, TRUE)
                   g == asked[c]
        <4>1. file \in DOMAIN g /\ asked'[c][file] = g[file]
          <5>1. \/ asked'[c] = [f \in DOMAIN w \cup DOMAIN g |-> IF f \in DOMAIN w THEN w[f] ELSE g[f]]
                \/ asked'[c] = [f \in DOMAIN g \ DOMAIN w |-> g[f]]
            BY <2>4 DEF Over, Forget
          <5>2. file \notin DOMAIN w /\ file \in DOMAIN asked'[c]
            BY <3>2
          <5> HIDE DEF w, g
          <5> QED
            BY <5>1, <5>2
        <4>2. file \in DOMAIN dirs[c] /\ dirs[c][file] = asked[c][file]
          BY <1>0, <3>2, <4>1 DEF LimitsKept
        <4>3. Same(dirs[c], res.dir, file)
          <5>1. file \in Tracked /\ file # "devices"
            BY DEF Tracked, LimitFiles
          <5> QED
            BY <2>8, <3>2, <5>1
        <4> QED
          BY <2>4, <3>2, <4>1, <4>2, <4>3 DEF Same
      <3>3. CASE d # c
        BY <1>0, <2>4, <2>5, <3>3 DEF LimitsKept
      <3> QED
        BY <3>1, <3>2, <3>3
    <2>11. DevicesKept'
      <3> SUFFICES ASSUME NEW d \in known, origin[d].resources # NoValue
                   PROVE  /\ ~ GuestSpec(origin[d]).error
                          /\ "devices" \in DOMAIN dirs'[d]
                          /\ dirs'[d]["devices"] = Permitted(Permissions, GuestSpec(origin[d]).spec.rules \o DefaultRules)
        BY <1>1 DEF DevicesKept, GuestSpec
      <3> DEFINE s == GuestSpec(origin[d])
                 p == Permitted(Permissions, s.spec.rules \o DefaultRules)
      <3>1. ~ s.error /\ "devices" \in DOMAIN dirs[d] /\ dirs[d]["devices"] = p
        BY <1>0 DEF DevicesKept
      <3>2. CASE d = c
        <4>1. IsList(s.spec.rules)
          <5>1. origin[d] \in Creations[d] /\ d \in Containers
            BY <1>0, <2>5 DEF Lifetimes
          <5>2. IsSpec(s.spec)
            BY <3>1, <5>1, CreationsSpec, AddDevicesIsSpec DEF GuestSpec
          <5> QED
            BY <5>2 DEF IsSpec
        <4>2. Idle(p)
          BY <4>1, DefaultsAgain
        <4> HIDE DEF p, s
        <4>4. "devices" \in DOMAIN res.dir /\ res.dir["devices"] = p
          <5> DEFINE dir == dirs[c]
          <5>0. IsResources(r) /\ r.Devices \o DefaultRules = DefaultRules
            <6>1. DefaultRules \in Seq({DefaultRules[i] : i \in 1..Len(DefaultRules)})
              BY DefaultRulesAllow, ListIsSeq
            <6> QED
              BY <2>6, <6>1
          <5>1. DevicesAre(dir, p)
            BY <3>1, <3>2 DEF DevicesAre
          <5>2. res \in SetResults(made[c], dir, r, TRUE, refused)
            OBVIOUS
          <5> HIDE DEF dir
          <5>3. DevicesAre(res.dir, p)
            BY <4>2, <5>0, <5>1, <5>2, DevicesLeft
          <5> QED
            BY <5>3 DEF DevicesAre
        <4> QED
          BY <2>4, <3>1, <3>2, <4>4 DEF p, s
      <3>3. CASE d # c
        BY <2>4, <2>5, <3>1, <3>3
      <3> QED
        BY <3>2, <3>3
    <2> QED
      BY <1>2, <2>7, <2>9, <2>10, <2>11 DEF Inv
  <1> QED
    BY <1>3, <1>4

\* RemoveContainer keeps it.
LEMMA RemoveInv ==
    ASSUME Inv, NEW c \in Containers, RemoveContainer(c)
    PROVE  Inv'
  <1>0. Functions /\ Lifetimes /\ CpusFollow /\ LimitsKept /\ DevicesKept
    BY DEF Inv
  <1>1. /\ known' = known \ {c} /\ c \in known /\ (c = SandboxContainer => known = {c})
        /\ stats' = NoStats
        /\ UNCHANGED <<created, nodes, kernel, io, online, parent, made, dirs, origin, asked, pinned, synced>>
    BY DEF RemoveContainer, guestVars
  <1>2. Functions' /\ Lifetimes'
    BY <1>0, <1>1 DEF Functions, Lifetimes
  <1>3. CpusFollow' /\ LimitsKept' /\ DevicesKept'
    BY <1>0, <1>1 DEF CpusFollow, LimitsKept, DevicesKept, GuestSpec
  <1>4. StatsTrue'
    BY <1>1 DEF StatsTrue, NoStats
  <1> QED
    BY <1>2, <1>3, <1>4 DEF Inv

\* OnlineCPUMem keeps it, with some, all or none of the cpusets updated.
LEMMA OnlineInv ==
    ASSUME Inv, NEW n, OnlineCPUMem(n)
    PROVE  Inv'
  <1>0. Functions /\ Lifetimes /\ CpusFollow /\ LimitsKept /\ DevicesKept
    BY DEF Inv
  <1>1. /\ UNCHANGED <<known, created, nodes, kernel, io, made, origin>>
        /\ stats' = NoStats
        /\ UpdateCpusets(online') \/ (synced' = FALSE /\ UNCHANGED <<parent, dirs, asked, pinned>>)
    BY DEF OnlineCPUMem, guestVars
  <1>2. StatsTrue'
    BY <1>1 DEF StatsTrue, NoStats
  <1>3. CASE synced' = FALSE /\ UNCHANGED <<parent, dirs, asked, pinned>>
    <2>1. Functions' /\ Lifetimes' /\ LimitsKept' /\ DevicesKept'
      BY <1>0, <1>1, <1>3 DEF Functions, Lifetimes, LimitsKept, DevicesKept, GuestSpec
    <2>2. CpusFollow'
      BY <1>3 DEF CpusFollow
    <2> QED
      BY <1>2, <2>1, <2>2 DEF Inv
  <1>4. CASE UpdateCpusets(online')
    <2> DEFINE on == online'
               bad == {d \in known : "cpuset" \notin made[d]}
    <2>1. PICK done \in SUBSET (known \ bad) :
             /\ bad = {} => done = known
             /\ dirs' = [d \in Containers |->
                           IF d \in done THEN Over(File("cpuset.cpus", on), dirs[d]) ELSE dirs[d]]
             /\ asked' = [d \in Containers |-> IF d \in done
                             THEN Forget({"cpuset.cpus"}, asked[d]) ELSE asked[d]]
             /\ pinned' = pinned \ done
             /\ parent' = IF known # {} /\ \E d \in Containers : "cpuset" \in made[d]
                          THEN [parent EXCEPT !["cpuset.cpus"] = on] ELSE parent
      BY <1>4 DEF UpdateCpusets
    <2>2. synced' => bad = {}
      BY <1>4 DEF UpdateCpusets
    <2> HIDE DEF on
    <2>3. known \subseteq Containers /\ known \subseteq created /\ done \subseteq known
      BY <1>0, <2>1 DEF Lifetimes
    <2>4. ASSUME NEW d \in Containers
          PROVE  /\ d \in done => "cpuset.cpus" \in DOMAIN dirs'[d] /\ dirs'[d]["cpuset.cpus"] = on
                 /\ \A f : f # "cpuset.cpus" => Same(dirs[d], dirs'[d], f)
      <3>1. CASE d \in done
        <4> DEFINE e == Over(File("cpuset.cpus", on), dirs[d])
        <4>1. DOMAIN e = DOMAIN dirs[d] \cup {"cpuset.cpus"} /\ e["cpuset.cpus"] = on
              /\ \A f : f # "cpuset.cpus" => Same(dirs[d], e, f)
          BY OneOver
        <4>2. dirs'[d] = e
          BY <2>1, <3>1
        <4> HIDE DEF e
        <4> QED
          BY <3>1, <4>1, <4>2
      <3>2. CASE d \notin done
        <4>1. dirs'[d] = dirs[d]
          BY <2>1, <3>2
        <4> QED
          BY <3>2, <4>1 DEF Same
      <3> QED
        BY <3>1, <3>2
    <2>5. ASSUME NEW d \in Containers, NEW f, f # "cpuset.cpus", f \in DOMAIN asked'[d]
          PROVE  f \in DOMAIN asked[d] /\ asked'[d][f] = asked[d][f]
      <3>1. asked'[d] = [g \in DOMAIN asked[d] \ {"cpuset.cpus"} |-> asked[d][g]] \/ asked'[d] = asked[d]
        BY <2>1 DEF Forget
      <3> QED
        BY <2>5, <3>1
    <2>6. Functions'
      BY <1>0, <1>1, <2>1 DEF Functions
    <2>7. Lifetimes'
      <3>1. \A d \in Containers \ created : asked'[d] = NoFiles
        BY <1>0, <2>1, <2>3 DEF Lifetimes
      <3>2. SandboxContainer \notin created => parent' = parent
        BY <1>0, <2>1 DEF Lifetimes
      <3> QED
        BY <1>0, <1>1, <3>1, <3>2 DEF Lifetimes
    <2>8. CpusFollow'
      <3> SUFFICES ASSUME synced'
                   PROVE  /\ known # {} => parent'["cpuset.cpus"] = on
                          /\ \A d \in known : "cpuset.cpus" \in DOMAIN dirs'[d] /\ dirs'[d]["cpuset.cpus"] = on
        BY <1>1 DEF CpusFollow, on
      <3>1. bad = {} /\ done = known
        BY <2>1, <2>2
      <3>2. known # {} => \E d \in Containers : "cpuset" \in made[d]
        BY <2>3, <3>1
      <3>3. known # {} => parent'["cpuset.cpus"] = on
        BY <1>0, <2>1, <3>2 DEF Functions, CpusetFiles
      <3> QED
        BY <2>3, <2>4, <3>1, <3>3
    <2>9. LimitsKept'
      <3> SUFFICES ASSUME NEW d \in known, NEW file \in LimitFiles, file \in DOMAIN asked'[d],
                          file = "memory.memsw.limit_in_bytes" => SwapAccounting
                   PROVE  file \in DOMAIN dirs'[d] /\ dirs'[d][file] = asked'[d][file]
        BY <1>1 DEF LimitsKept
      <3>1. file # "cpuset.cpus" /\ d \in Containers
        BY <2>3 DEF LimitFiles
      <3>2. file \in DOMAIN asked[d] /\ asked'[d][file] = asked[d][file]
        BY <2>5, <3>1
      <3>3. file \in DOMAIN dirs[d] /\ dirs[d][file] = asked[d][file]
        BY <1>0, <3>2 DEF LimitsKept
      <3>4. Same(dirs[d], dirs'[d], file)
        BY <2>4, <3>1
      <3> QED
        BY <3>2, <3>3, <3>4 DEF Same
    <2>10. DevicesKept'
      <3> SUFFICES ASSUME NEW d \in known, origin[d].resources # NoValue
                   PROVE  /\ ~ GuestSpec(origin[d]).error
                          /\ "devices" \in DOMAIN dirs'[d]
                          /\ dirs'[d]["devices"] = Permitted(Permissions, GuestSpec(origin[d]).spec.rules \o DefaultRules)
        BY <1>1 DEF DevicesKept, GuestSpec
      <3>1. Same(dirs[d], dirs'[d], "devices")
        BY <2>3, <2>4
      <3> QED
        BY <1>0, <3>1 DEF DevicesKept, Same
    <2> QED
      BY <1>2, <2>6, <2>7, <2>8, <2>9, <2>10 DEF Inv
  <1> QED
    BY <1>1, <1>3, <1>4

\* get_stats finds the files of all page sizes but two.
LEMMA PageNames == ASSUME NEW e \in 11..40 PROVE custom_size(e) = KernelPageName(e) <=> e \notin {20, 30}
  <1> DEFINE Unit(i) == i \in 0..8 /\ e - 10 * i <= 10 /\ \A j \in 0..(i - 1) : e - 10 * j > 10
             u == CHOOSE i \in 0..8 : e - 10 * i <= 10 /\ \A j \in 0..(i - 1) : e - 10 * j > 10
  <1>1. custom_size(e) = <<e - 10 * u, u>>
    BY DEF custom_size
  <1>2. ASSUME NEW k \in 1..3, 10 * k + 1 <= e, e <= 10 * k + 10 PROVE u = k
    <2>1. Unit(k)
      BY <1>2
    <2>2. Unit(u)
      BY <2>1, Zenon
    <2> HIDE DEF u
    <2>3. \A j \in 0..(u - 1) : e - 10 * j > 10
      BY <2>2
    <2>4. u \in 0..8 /\ e - 10 * u <= 10
      BY <2>2
    <2>5. u >= k
      BY <1>2, <2>4
    <2>6. ~(u > k)
      <3> SUFFICES ASSUME u > k PROVE FALSE
        OBVIOUS
      <3>1. k \in 0..(u - 1)
        BY <2>4
      <3> QED
        BY <1>2, <2>3, <3>1
    <2> QED
      BY <2>4, <2>5, <2>6
  <1> HIDE DEF u
  <1>3. CASE e <= 20
    <2>1. u = 1
      BY <1>2, <1>3
    <2>2. custom_size(e) = <<e - 10, 1>>
      BY <1>1, <2>1
    <2>3. KernelPageName(e) = IF e = 20 THEN <<0, 2>> ELSE <<e - 10, 1>>
      BY <1>3 DEF KernelPageName
    <2> QED
      BY <1>3, <2>2, <2>3
  <1>4. CASE e > 20 /\ e <= 30
    <2>1. u = 2
      BY <1>2, <1>4
    <2>2. custom_size(e) = <<e - 20, 2>>
      BY <1>1, <2>1
    <2>3. KernelPageName(e) = IF e = 30 THEN <<0, 3>> ELSE <<e - 20, 2>>
      BY <1>4 DEF KernelPageName
    <2> QED
      BY <1>4, <2>2, <2>3
  <1>5. CASE e > 30
    <2>1. u = 3
      BY <1>2, <1>5
    <2>2. custom_size(e) = <<e - 30, 3>>
      BY <1>1, <2>1
    <2>3. KernelPageName(e) = <<e - 30, 3>>
      BY <1>5 DEF KernelPageName
    <2> QED
      BY <1>5, <2>2, <2>3
  <1> QED
    BY <1>3, <1>4, <1>5

\* get_stats misses the files of the pages of 1 MiB and 1 GiB only.
LEMMA PagesRead == kernel \in Kernels => (HugePagesRead(kernel.pages) <=> kernel.pages \cap {20, 30} = {})
  <1> SUFFICES ASSUME kernel \in Kernels
               PROVE  HugePagesRead(kernel.pages) <=> kernel.pages \cap {20, 30} = {}
    OBVIOUS
  <1>1. \A e \in kernel.pages : custom_size(e) = KernelPageName(e) <=> e \notin {20, 30}
    BY PageNames, GuestAssumption
  <1> QED
    BY <1>1 DEF HugePagesRead

\* What is read of the hierarchies in their order, as get_stats has it.
Reads(i, c) == ReadHierarchy(StatsOrder[i], StatsOrder[i] \in made[c], c \in io, kernel)
Read(i, c) == StatsOrder[i] \notin Subsystems \/ Reads(i, c) = "ok"

\* The first that is not read is the outcome.
LEMMA FirstUnread ==
    ASSUME NEW c
    PROVE  LET o == ReadStats(Subsystems, made[c], c \in io, kernel) IN
           /\ o = "ok" => \A i \in DOMAIN StatsOrder : Read(i, c)
           /\ o = "ok" \/ \E i \in DOMAIN StatsOrder : StatsOrder[i] \in Subsystems /\ o = Reads(i, c)
  <1> DEFINE o == ReadStats(Subsystems, made[c], c \in io, kernel)
             bad == {i \in DOMAIN StatsOrder : StatsOrder[i] \in Subsystems /\ Reads(i, c) # "ok"}
             k == CHOOSE i \in bad : \A j \in bad : i <= j
  <1>1. o = IF bad = {} THEN "ok" ELSE Reads(k, c)
    BY DEF ReadStats, Reads
  <1>2. bad = {} => \A i \in DOMAIN StatsOrder : Read(i, c)
    BY DEF Read
  <1>3. ASSUME bad # {} PROVE k \in bad
    <2>1. bad \in SUBSET (1..6)
      BY DEF StatsOrder
    <2>2. \E i \in bad : \A j \in bad : i <= j
      <3> HIDE DEF bad
      <3>1. bad \in SUBSET Nat
        BY <2>1
      <3> QED
        BY <1>3, <3>1, HasMin
    <2> HIDE DEF bad
    <2> QED
      BY <2>2
  <1> HIDE DEF k
  <1>4. bad # {} => /\ Reads(k, c) # "ok"
                    /\ \E i \in DOMAIN StatsOrder : StatsOrder[i] \in Subsystems /\ Reads(k, c) = Reads(i, c)
    BY <1>3
  <1> HIDE DEF bad
  <1> QED
    BY <1>1, <1>2, <1>4

\* What is read of one hierarchy: all its files, or that of one of them.
LEMMA ReadFiles ==
    ASSUME NEW c, NEW i, NEW name, name = StatsOrder[i], name # "hugetlb", NEW k, k = kernel,
           NEW x, x = Reads(i, c), NEW fs, fs = StatFiles(name, c \in io),
           Len(fs) \in Nat, DOMAIN fs = 1..Len(fs)
    PROVE  /\ name \notin made[c] => x = "error"
           /\ x = "ok" => \A j \in DOMAIN fs : ReadStat(fs[j], k) = "ok"
           /\ x # "ok" => name \notin made[c] \/ \E j \in DOMAIN fs : ReadStat(fs[j], k) = x
  <1> DEFINE bad == {j \in DOMAIN fs : ReadStat(fs[j], k) # "ok"}
             m == CHOOSE j \in bad : \A l \in bad : j <= l
  <1>1. x = IF name \notin made[c] THEN "error" ELSE IF bad = {} THEN "ok" ELSE ReadStat(fs[m], k)
    BY DEF ReadHierarchy, Reads
  <1>2. ASSUME bad # {} PROVE m \in bad
    <2>1. bad \in SUBSET Nat
      OBVIOUS
    <2>2. \E l \in bad : \A j \in bad : l <= j
      <3> HIDE DEF bad
      <3> QED
        BY <1>2, <2>1, HasMin
    <2> HIDE DEF bad
    <2> QED
      BY <2>2
  <1>3. m \in bad => m \in DOMAIN fs /\ ReadStat(fs[m], k) # "ok"
    OBVIOUS
  <1>4. bad = {} => \A l \in DOMAIN fs : ReadStat(fs[l], k) = "ok"
    OBVIOUS
  <1> HIDE DEF bad, m
  <1> QED
    BY <1>1, <1>2, <1>3, <1>4

\* The files of the hierarchies are lists; only those of blkio have the file
\* that is not parsed, and only with statistics of CFQ.
LEMMA StatFilesOf ==
    ASSUME NEW name \in {"cpuacct", "cpu", "memory", "pids", "blkio"}, NEW cfq \in BOOLEAN,
           NEW fs, fs = StatFiles(name, cfq)
    PROVE  /\ Len(fs) \in Nat /\ DOMAIN fs = 1..Len(fs)
           /\ \A i \in DOMAIN fs : fs[i] = "blkio.sectors_recursive" => name = "blkio" /\ cfq
           /\ name = "blkio" /\ cfq => \E i \in DOMAIN fs : fs[i] = "blkio.sectors_recursive"
  <1>1. CASE name = "cpuacct"
    BY <1>1 DEF StatFiles
  <1>2. CASE name = "cpu"
    BY <1>2 DEF StatFiles
  <1>3. CASE name = "memory"
    BY <1>3 DEF StatFiles
  <1>4. CASE name = "pids"
    BY <1>4 DEF StatFiles
  <1>5. CASE name = "blkio" /\ cfq
    <2>1. fs = <<"blkio.io_serviced_recursive", "blkio.sectors_recursive">>
      BY <1>5 DEF StatFiles
    <2>2. Len(fs) \in Nat /\ DOMAIN fs = 1..Len(fs) /\ 2 \in DOMAIN fs
      BY <2>1
    <2>3. fs[2] = "blkio.sectors_recursive"
      BY <2>1
    <2> QED
      BY <1>5, <2>2, <2>3
  <1>6. CASE name = "blkio" /\ ~cfq
    <2>1. fs = <<"blkio.io_serviced_recursive", "blkio.throttle.io_service_bytes",
                 "blkio.throttle.io_serviced">>
      BY <1>6 DEF StatFiles
    <2> QED
      BY <1>6, <2>1
  <1> QED
    BY <1>1, <1>2, <1>3, <1>4, <1>5, <1>6

\* A file that is not read is missing, or the one with two fields in a line.
LEMMA UnreadFile ==
    ASSUME NEW f, NEW k, ReadStat(f, k) = "error"
    PROVE  f \notin DOMAIN k.files \/ f = "blkio.sectors_recursive"
  BY DEF ReadStat

\* Why a hierarchy cannot be read.
LEMMA WhyItFails ==
    ASSUME kernel \in Kernels, NEW c, NEW i \in DOMAIN StatsOrder, StatsOrder[i] \in Subsystems,
           Reads(i, c) = "error"
    PROVE  StatsMayFail(c)
  <1> DEFINE name == StatsOrder[i]
             fs == StatFiles(name, c \in io)
  <1>1. name \in Range(StatsOrder) \cap Subsystems
    BY DEF Range
  <1>2. name \in {"cpuacct", "cpu", "memory", "pids", "blkio", "hugetlb"}
    BY DEF StatsOrder
  <1>3. CASE name = "hugetlb"
    <2>1. name \notin made[c] \/ (kernel.pages # {} /\ ~HugePagesRead(kernel.pages))
      BY <1>3 DEF Reads, ReadHierarchy
    <2> HIDE DEF name
    <2> QED
      BY <1>1, <1>3, <2>1, PagesRead DEF StatsMayFail
  <1>4. CASE name # "hugetlb" /\ name \notin made[c]
    <2> HIDE DEF name
    <2> QED
      BY <1>1, <1>4 DEF StatsMayFail
  <1>5. CASE name # "hugetlb" /\ name \in made[c]
    <2>1. /\ Len(fs) \in Nat /\ DOMAIN fs = 1..Len(fs)
          /\ \A j \in DOMAIN fs : fs[j] = "blkio.sectors_recursive" => name = "blkio" /\ c \in io
      <3>1. name \in {"cpuacct", "cpu", "memory", "pids", "blkio"} /\ (c \in io) \in BOOLEAN
        BY <1>2, <1>5
      <3> HIDE DEF name
      <3> QED
        BY <3>1, StatFilesOf
    <2>3. PICK j \in DOMAIN fs : ReadStat(fs[j], kernel) = "error"
      <3>1. name = StatsOrder[i] /\ fs = StatFiles(name, c \in io)
        OBVIOUS
      <3> HIDE DEF name, fs
      <3> QED
        BY <1>5, <2>1, <3>1, ReadFiles
    <2>4. fs[j] \notin DOMAIN kernel.files \/ (name = "blkio" /\ c \in io)
      BY <2>1, <2>3, UnreadFile
    <2>5. fs[j] \in Range(fs)
      BY DEF Range
    <2> HIDE DEF name
    <2>6. CASE fs[j] \notin DOMAIN kernel.files
      <3>1. name \in (Range(StatsOrder) \cap Subsystems) \ {"hugetlb"}
        BY <1>1, <1>5
      <3>2. ~(Range(fs) \subseteq DOMAIN kernel.files)
        BY <2>5, <2>6
      <3> QED
        BY <3>1, <3>2 DEF StatsMayFail
    <2>7. CASE name = "blkio" /\ c \in io
      BY <1>1, <2>7 DEF StatsMayFail
    <2> QED
      BY <2>4, <2>6, <2>7
  <1> QED
    BY <1>3, <1>4, <1>5

\* With statistics of CFQ that of blkio is an error.
LEMMA CFQIsNotRead ==
    ASSUME NEW c, c \in io, NEW k \in DOMAIN StatsOrder, StatsOrder[k] = "blkio"
    PROVE  Reads(k, c) # "ok"
  <1> DEFINE fs == StatFiles(StatsOrder[k], c \in io)
  <1>2. /\ Len(fs) \in Nat /\ DOMAIN fs = 1..Len(fs)
        /\ \E i \in DOMAIN fs : fs[i] = "blkio.sectors_recursive"
    BY StatFilesOf
  <1>3. PICK i \in DOMAIN fs : ReadStat(fs[i], kernel) # "ok"
    BY <1>2 DEF ReadStat
  <1> DEFINE name == StatsOrder[k]
  <1>4. fs = StatFiles(name, c \in io) /\ name = StatsOrder[k] /\ name # "hugetlb"
    OBVIOUS
  <1> HIDE DEF fs, name
  <1>5. Reads(k, c) = "ok" => \A j \in DOMAIN fs : ReadStat(fs[j], kernel) = "ok"
    BY <1>2, <1>4, ReadFiles
  <1> QED
    BY <1>3, <1>5

\* The first I/O of a container.
LEMMA DoesIOInv ==
    ASSUME Inv, NEW c \in Containers, DoesIO(c)
    PROVE  Inv'
  <1>0. Functions /\ Lifetimes /\ CpusFollow /\ LimitsKept /\ DevicesKept
    BY DEF Inv
  <1>1. /\ UNCHANGED <<known, created, nodes, kernel, online, parent, made, dirs, origin, asked, pinned, synced>>
        /\ stats' = NoStats /\ "blkio" \in made[c]
    BY DEF DoesIO
  <1>2. "blkio" \in Subsystems
    BY <1>0, <1>1 DEF Lifetimes
  <1>3. Functions' /\ Lifetimes' /\ CpusFollow' /\ LimitsKept' /\ DevicesKept'
    BY <1>0, <1>1, <1>2 DEF Functions, Lifetimes, CpusFollow, LimitsKept, DevicesKept, GuestSpec
  <1>4. StatsTrue'
    BY <1>1 DEF StatsTrue, NoStats
  <1> QED
    BY <1>3, <1>4 DEF Inv

\* StatsContainer keeps it, and its answer is true.
LEMMA StatsInv ==
    ASSUME Inv, NEW c \in Containers, StatsContainer(c)
    PROVE  Inv'
  <1> DEFINE o == ReadStats(Subsystems, made[c], c \in io, kernel)
  <1>0. Functions /\ Lifetimes /\ CpusFollow /\ LimitsKept /\ DevicesKept /\ StatsTrue
    BY DEF Inv
  <1>1. UNCHANGED <<known, created, nodes, kernel, io, online, parent, made, dirs, origin, asked, pinned, synced>>
    BY DEF StatsContainer, guestVars
  <1>2. Functions' /\ Lifetimes' /\ CpusFollow' /\ LimitsKept' /\ DevicesKept'
    BY <1>0, <1>1 DEF Functions, Lifetimes, CpusFollow, LimitsKept, DevicesKept, GuestSpec
  <1>3. \/ stats' = stats
        \/ c \in known /\ o = "error" /\ stats' = [of |-> c, ok |-> FALSE]
        \/ c \in known /\ o = "ok" /\ stats' = [of |-> c, ok |-> TRUE, values |-> get_stats(dirs[c])]
    BY DEF StatsContainer
  <1> HIDE DEF o
  <1>4. CASE stats' = stats
    <2>1. StatsTrue'
      BY <1>0, <1>1, <1>4 DEF StatsTrue, StatsMayFail
    <2> QED
      BY <1>2, <2>1 DEF Inv
  <1>5. CASE c \in known /\ o = "error" /\ stats' = [of |-> c, ok |-> FALSE]
    <2>1. stats'.of = c /\ stats'.ok = FALSE
      BY <1>5
    <2>2. StatsMayFail(c)
      <3>1. PICK i \in DOMAIN StatsOrder : StatsOrder[i] \in Subsystems /\ Reads(i, c) = "error"
        BY <1>5, FirstUnread DEF o
      <3>2. kernel \in Kernels
        BY <1>0 DEF Functions
      <3> QED
        BY <3>1, <3>2, WhyItFails
    <2>3. StatsMayFail(c)'
      BY <1>1, <2>2 DEF StatsMayFail
    <2>4. StatsTrue'
      BY <2>1, <2>3 DEF StatsTrue
    <2> QED
      BY <1>2, <2>4 DEF Inv
  <1>6. CASE c \in known /\ o = "ok" /\ stats' = [of |-> c, ok |-> TRUE, values |-> get_stats(dirs[c])]
    <2> DEFINE a == asked[c]
               d == dirs[c]
    <2>2. stats'.of = c /\ stats'.ok = TRUE /\ stats'.values = get_stats(d)
      BY <1>6
    <2>3. /\ stats'.values.limit = Limit(d)
          /\ SwapAccounting => stats'.values.swap = SwapLimit(d)
          /\ stats'.values.pids = PidsLimit(d)
      BY <2>2 DEF get_stats
    <2>4. \A file \in LimitFiles :
              file \in DOMAIN a /\ (file = "memory.memsw.limit_in_bytes" => SwapAccounting) =>
                  file \in DOMAIN d /\ d[file] = a[file]
      BY <1>0, <1>6 DEF LimitsKept
    <2>5. asked'[c] = a
      BY <1>1
    <2>5a. c \notin io
      <3> SUFFICES ASSUME c \in io PROVE FALSE
        OBVIOUS
      <3>1. "blkio" \in Subsystems
        BY <1>0 DEF Functions
      <3>2. \A i \in DOMAIN StatsOrder : Read(i, c)
        BY <1>6, FirstUnread DEF o
      <3>3. 5 \in DOMAIN StatsOrder /\ StatsOrder[5] = "blkio"
        BY DEF StatsOrder
      <3>4. Reads(5, c) = "ok"
        BY <3>1, <3>2, <3>3 DEF Read
      <3> QED
        BY <3>3, <3>4, CFQIsNotRead
    <2> HIDE DEF a, d
    <2>6. "memory.limit_in_bytes" \in DOMAIN a => stats'.values.limit = InPages(a["memory.limit_in_bytes"])
      BY <2>3, <2>4 DEF Limit, Content, LimitFiles
    <2>7. "memory.memsw.limit_in_bytes" \in DOMAIN a /\ SwapAccounting =>
              stats'.values.swap = InPages(a["memory.memsw.limit_in_bytes"])
      BY <2>3, <2>4 DEF SwapLimit, Content, LimitFiles
    <2>8. "pids.max" \in DOMAIN a =>
              stats'.values.pids = IF a["pids.max"] = -1 THEN 0 ELSE a["pids.max"]
      BY <2>3, <2>4 DEF PidsLimit, Content, LimitFiles
    <2>9. StatsTrue'
      BY <1>1, <2>2, <2>5, <2>5a, <2>6, <2>7, <2>8 DEF StatsTrue
    <2> QED
      BY <1>2, <2>9 DEF Inv
  <1> QED
    BY <1>3, <1>4, <1>5, <1>6

-----------------------------------------------------------------------------
\* Every request keeps the invariant, and so does none.
LEMMA NextInv == Inv /\ [Next]_vars => Inv'
  <1> SUFFICES ASSUME Inv, [Next]_vars PROVE Inv'
    OBVIOUS
  <1>1. CASE UNCHANGED vars
    <2>1. UNCHANGED <<known, created, nodes, kernel, io, online, parent, made, dirs, origin, asked, pinned,
                      synced, stats>>
      BY <1>1 DEF vars
    <2> QED
      BY <2>1 DEF Inv, Functions, Lifetimes, CpusFollow, LimitsKept, DevicesKept, GuestSpec, StatsTrue, StatsMayFail
  <1>2. CASE Next
    BY <1>2, CreateInv, UpdateInv, StatsInv, RemoveInv, OnlineInv, DoesIOInv DEF Next
  <1> QED
    BY <1>1, <1>2

\* The functions of the state, the lifetimes of containers, and what dirs has
\* of cpus, limits and devices, in every state: set() writes the files of its
\* own subsystem only, so each part is kept by a request that fails half-way.
THEOREM Invariant == Spec => []Inv
  BY InitInv, NextInv, PTL DEF Spec

\* After an OnlineCPUMem that succeeded a container whose cpus nobody has set
\* since has every cpu of the guest, and so has one created later: the parent
\* it copies its cpuset from (copy_parent) has them, or is empty and has them
\* from the root.
THEOREM CpusReached == Spec => []GuestCpusReached
  <1>1. Inv => GuestCpusReached
    BY DEF Inv, CpusFollow, GuestCpusReached
  <1> QED
    BY <1>1, Invariant, PTL

\* StatsContainer answers with the limits that the creation and the updates
\* that succeeded have asked for, in whole pages and -1 as none, and never for
\* a container with statistics of CFQ; it fails only for a directory, a file or
\* a page size that get_stats does not find, or for those statistics.
THEOREM StatsAreTrue == Spec => []StatsTrue
  <1>1. Inv => StatsTrue
    BY DEF Inv
  <1> QED
    BY <1>1, Invariant, PTL

-----------------------------------------------------------------------------
(* DevicesFollow.                                                          *)

\* The rules s treat x as the rules t treat y.
Alike(s, t, x, y) ==
    \A i \in 1..Len(s) : /\ s[i].allow <=> t[i].allow
                         /\ x \in Covered(s[i]) <=> y \in Covered(t[i])

\* Rules that treat two permissions alike leave both or none of them.
LEMMA AlikePermitted ==
    ASSUME NEW base, NEW s, IsList(s), NEW t, IsList(t), Len(s) = Len(t),
           NEW x, NEW y, x \in base <=> y \in base, Alike(s, t, x, y)
    PROVE  x \in Permitted(base, s) <=> y \in Permitted(base, t)
  <1> DEFINE n == Len(s)
  <1>1. n \in Nat /\ n = Len(t)
    BY DEF IsList
  <1>2. PICK g : Applies(g, base, s, n) /\ Permitted(base, s) = g[n]
    BY AppliesExist
  <1>3. PICK h : Applies(h, base, t, n) /\ Permitted(base, t) = h[n]
    BY <1>1, AppliesExist
  <1> DEFINE Bad == {i \in 0..n : ~ (x \in g[i] <=> y \in h[i])}
  <1>4. ASSUME Bad # {} PROVE FALSE
    <2>0. Bad \in SUBSET Nat
      BY <1>1
    <2>1. PICK i \in Bad : \A j \in Bad : i <= j
      <3> HIDE DEF Bad
      <3> QED
        BY <1>4, <2>0, HasMin
    <2>2. i # 0
      BY <1>2, <1>3, <2>1 DEF Applies
    <2>3. i \in 1..n /\ i - 1 \in 0..n /\ i - 1 \notin Bad
      BY <1>1, <2>0, <2>1, <2>2
    <2>4. /\ g[i] = Apply(g[i - 1], s[i]) /\ h[i] = Apply(h[i - 1], t[i])
          /\ x \in g[i - 1] <=> y \in h[i - 1]
      BY <1>2, <1>3, <2>3 DEF Applies
    <2>5. /\ s[i].allow <=> t[i].allow
          /\ x \in Covered(s[i]) <=> y \in Covered(t[i])
      BY <2>3 DEF Alike
    <2>6. x \in g[i] <=> y \in h[i]
      BY <2>4, <2>5 DEF Apply
    <2> QED
      BY <2>1, <2>6
  <1>5. n \in 0..n
    BY <1>1
  <1> QED
    BY <1>2, <1>3, <1>4, <1>5

\* What a rule covers.
LEMMA CoveredIff ==
    ASSUME NEW ty \in {"b", "c"}, NEW num \in Numbers, NEW a \in Access, NEW rule
    PROVE  <<ty, num, a>> \in Covered(rule) <=>
               \/ rule.type = Empty
               \/ rule.type = ty /\ rule.num \in {WILDCARD, num} /\ a \in rule.access
  <1>1. <<ty, num, a>> \in Permissions
    BY DEF Permissions
  <1> QED
    BY <1>1 DEF Covered

\* The default rules allow mknod of every device, and nothing else.
LEMMA DefaultsAllow ==
    ASSUME NEW ty \in {"b", "c"}, NEW num \in Numbers, NEW a \in Access, NEW rules, IsList(rules)
    PROVE  <<ty, num, a>> \in Permitted(Permissions, rules \o DefaultRules) <=>
               a = "m" \/ <<ty, num, a>> \in Permitted(Permissions, rules)
  <1> DEFINE q == Permitted(Permissions, rules)
             n == Len(DefaultNumbers)
             x == <<ty, num, a>>
             all == UNION {Covered(DefaultRules[i]) : i \in 1..Len(DefaultRules)}
  <1>1. Permitted(Permissions, rules \o DefaultRules) = q \cup all
    <2>1. IsList(DefaultRules) /\ \A i \in 1..Len(DefaultRules) : DefaultRules[i].allow
      BY DefaultRulesAllow
    <2>2. Permitted(Permissions, rules \o DefaultRules) = Permitted(q, DefaultRules)
      BY <2>1, PermittedInARow
    <2> HIDE DEF q
    <2> QED
      BY <2>1, <2>2, PermittedAllows
  <1> HIDE DEF x, q
  <1>2. n \in Nat /\ Len(DefaultRules) = n + 2
    BY DefaultRulesAllow
  <1>3. ASSUME NEW i \in 1..n PROVE x \notin Covered(DefaultRules[i])
    <2>1. DefaultRules[i].num = DefaultNumbers[i] /\ DefaultRules[i].type = "c"
      <3>1. DefaultRules[i] = [allow |-> TRUE, type |-> "c", num |-> DefaultNumbers[i], access |-> Access]
        BY DefaultRulesAllow
      <3> QED
        BY <3>1
    <2>2. DefaultNumbers[i] \in Range(DefaultNumbers) /\ DefaultNumbers[i] \in Nat
      BY NumbersAssumption DEF Range
    <2>3. DefaultNumbers[i] # num /\ DefaultNumbers[i] # WILDCARD
      BY <2>2, NumbersAssumption DEF WILDCARD
    <2>4. DefaultRules[i].type # Empty
      BY <2>1 DEF Empty
    <2> QED
      BY <2>1, <2>3, <2>4, CoveredIff DEF x
  <1>4. x \in Covered(DefaultRules[n + 1]) <=> ty = "c" /\ a = "m"
    <2> DEFINE r == DefaultRules[n + 1]
    <2>1. r.type = "c" /\ r.num = WILDCARD /\ r.access = {"m"}
      BY DefaultRulesAllow
    <2> HIDE DEF r
    <2>2. x \in Covered(r) <=> ty = "c" /\ a = "m"
      BY <2>1, CoveredIff DEF x, Empty
    <2> QED
      BY <2>2 DEF r
  <1>5. x \in Covered(DefaultRules[n + 2]) <=> ty = "b" /\ a = "m"
    <2> DEFINE r == DefaultRules[n + 2]
    <2>1. r.type = "b" /\ r.num = WILDCARD /\ r.access = {"m"}
      BY DefaultRulesAllow
    <2> HIDE DEF r
    <2>2. x \in Covered(r) <=> ty = "b" /\ a = "m"
      BY <2>1, CoveredIff DEF x, Empty
    <2> QED
      BY <2>2 DEF r
  <1>6. x \in all <=> a = "m"
    <2>1. \A i \in 1..Len(DefaultRules) : i \in 1..n \/ i = n + 1 \/ i = n + 2
      BY <1>2
    <2>2. n + 1 \in 1..Len(DefaultRules) /\ n + 2 \in 1..Len(DefaultRules)
      BY <1>2
    <2>3. x \in all <=> \E i \in 1..Len(DefaultRules) : x \in Covered(DefaultRules[i])
      OBVIOUS
    <2> HIDE DEF all
    <2> QED
      BY <1>3, <1>4, <1>5, <2>1, <2>2, <2>3
  <1> HIDE DEF all
  <1> QED
    BY <1>1, <1>6 DEF x, q

\* t is the spec sp but for numbers.
Shape(t, sp) ==
    /\ IsSpec(t) /\ Len(t.devices) = Len(sp.devices) /\ Len(t.rules) = Len(sp.rules)
    /\ \A i \in 1..Len(sp.devices) :
          t.devices[i] = [path |-> sp.devices[i].path, type |-> sp.devices[i].type,
                          num |-> t.devices[i].num]
    /\ \A j \in 1..Len(sp.rules) :
          t.rules[j] = [allow |-> sp.rules[j].allow, type |-> sp.rules[j].type,
                        num |-> t.rules[j].num, access |-> sp.rules[j].access]

\* The devices done have the numbers g, and so have the rules of their own.
Nums(t, sp, g, done) ==
    /\ \A i \in 1..Len(sp.devices) :
          t.devices[i].num = IF i \in done THEN g[i] ELSE sp.devices[i].num
    /\ \A j \in 1..Len(sp.rules) :
          /\ \A i \in done : sp.rules[j].num = sp.devices[i].num => t.rules[j].num = g[i]
          /\ (\A i \in done : sp.rules[j].num # sp.devices[i].num) => t.rules[j].num = sp.rules[j].num

\* NoClash of the numbers g.
Distinct(sp, g) ==
    /\ \A i \in 1..Len(sp.devices) : g[i] # sp.devices[i].num =>
          /\ \A k \in 1..Len(sp.devices) : g[i] # sp.devices[k].num
          /\ \A j \in 1..Len(sp.rules) : g[i] # sp.rules[j].num
    /\ \A i, k \in 1..Len(sp.devices) :
          i # k => sp.devices[i].num # sp.devices[k].num /\ g[i] # g[k]

\* One device more.
LEMMA RenumberOne ==
    ASSUME NEW sp, NEW g, Distinct(sp, g), NEW t, Shape(t, sp),
           NEW done \in SUBSET (1..Len(sp.devices)), Nums(t, sp, g, done),
           NEW i \in (1..Len(sp.devices)) \ done,
           NEW u, u = Renumber(t, i, g[i])
    PROVE  Shape(u, sp) /\ Nums(u, sp, g, done \cup {i})
  <1> DEFINE m == Len(sp.devices)
             n == Len(sp.rules)
             ds == [t.devices EXCEPT ![i].num = g[i]]
             rs == [j \in DOMAIN t.rules |->
                       IF t.rules[j].num = t.devices[i].num
                       THEN [t.rules[j] EXCEPT !.num = g[i]] ELSE t.rules[j]]
  <1>1. u = [devices |-> ds, rules |-> rs]
    BY DEF Renumber
  <1>2. /\ m \in Nat /\ n \in Nat
        /\ DOMAIN t.devices = 1..m /\ DOMAIN t.rules = 1..n
    BY DEF Shape, IsSpec, IsList
  <1>3. IsList(ds) /\ Len(ds) = m /\ IsList(rs) /\ Len(rs) = n
    <2>1. ds = [k \in 1..m |-> ds[k]] /\ rs = [j \in 1..n |-> rs[j]]
      BY <1>2
    <2> HIDE DEF ds, rs
    <2> QED
      BY <1>2, <2>1, FunctionIsList
  <1>4. ASSUME NEW k \in 1..m
        PROVE  /\ ds[k] = [path |-> sp.devices[k].path, type |-> sp.devices[k].type, num |-> ds[k].num]
               /\ ds[k].num = IF k = i THEN g[i] ELSE t.devices[k].num
    <2>1. t.devices[k] = [path |-> sp.devices[k].path, type |-> sp.devices[k].type,
                          num |-> t.devices[k].num]
      BY DEF Shape
    <2>2. CASE k = i
      <3>1. ds[k] = [t.devices[k] EXCEPT !.num = g[i]]
        BY <1>2, <2>2
      <3> HIDE DEF ds
      <3> QED
        BY <2>1, <2>2, <3>1
    <2>3. CASE k # i
      <3>1. ds[k] = t.devices[k]
        BY <1>2, <2>3
      <3> HIDE DEF ds
      <3> QED
        BY <2>1, <2>3, <3>1
    <2> QED
      BY <2>2, <2>3
  <1>5. ASSUME NEW j \in 1..n
        PROVE  /\ rs[j] = [allow |-> sp.rules[j].allow, type |-> sp.rules[j].type,
                           num |-> rs[j].num, access |-> sp.rules[j].access]
               /\ rs[j].num = IF t.rules[j].num = t.devices[i].num THEN g[i] ELSE t.rules[j].num
    <2>1. t.rules[j] = [allow |-> sp.rules[j].allow, type |-> sp.rules[j].type,
                        num |-> t.rules[j].num, access |-> sp.rules[j].access]
      BY DEF Shape
    <2>2. rs[j] = IF t.rules[j].num = t.devices[i].num
                  THEN [t.rules[j] EXCEPT !.num = g[i]] ELSE t.rules[j]
      BY <1>2
    <2> HIDE DEF rs
    <2>3. CASE t.rules[j].num = t.devices[i].num
      BY <2>1, <2>2, <2>3
    <2>4. CASE t.rules[j].num # t.devices[i].num
      BY <2>1, <2>2, <2>4
    <2> QED
      BY <2>3, <2>4
  <1> HIDE DEF ds, rs
  <1>6. u = [devices |-> u.devices, rules |-> u.rules] /\ u.devices = ds /\ u.rules = rs
    BY <1>1
  <1>7. \A k \in 1..m : ds[k].num = IF k = i THEN g[i] ELSE t.devices[k].num
    BY <1>4
  <1>8. \A j \in 1..n : rs[j].num = IF t.rules[j].num = sp.devices[i].num THEN g[i] ELSE t.rules[j].num
    <2>1. t.devices[i].num = sp.devices[i].num
      BY DEF Nums
    <2> QED
      BY <1>5, <2>1
  <1>9. Shape(u, sp)
    <2>1. \A k \in 1..m : ds[k] = [path |-> sp.devices[k].path, type |-> sp.devices[k].type, num |-> ds[k].num]
      BY <1>4
    <2>2. \A j \in 1..n : rs[j] = [allow |-> sp.rules[j].allow, type |-> sp.rules[j].type,
                                   num |-> rs[j].num, access |-> sp.rules[j].access]
      BY <1>5
    <2> QED
      BY <1>3, <1>6, <2>1, <2>2 DEF Shape, IsSpec
  <1>10. Nums(u, sp, g, done \cup {i})
    <2>1. \A k \in 1..m : u.devices[k].num = IF k \in done \cup {i} THEN g[k] ELSE sp.devices[k].num
      BY <1>6, <1>7 DEF Nums
    <2>2. ASSUME NEW j \in 1..n, NEW k \in done \cup {i}, sp.rules[j].num = sp.devices[k].num
          PROVE  rs[j].num = g[k]
      <3>1. CASE k = i
        <4>1. \A l \in done : sp.rules[j].num # sp.devices[l].num
          BY <2>2, <3>1 DEF Distinct
        <4>2. t.rules[j].num = sp.rules[j].num
          BY <4>1 DEF Nums
        <4> QED
          BY <1>8, <2>2, <3>1, <4>2
      <3>2. CASE k \in done
        <4>1. t.rules[j].num = g[k]
          BY <2>2, <3>2 DEF Nums
        <4>2. g[k] # sp.devices[i].num
          BY <3>2 DEF Distinct
        <4> QED
          BY <1>8, <4>1, <4>2
      <3> QED
        BY <3>1, <3>2
    <2>3. ASSUME NEW j \in 1..n, \A k \in done \cup {i} : sp.rules[j].num # sp.devices[k].num
          PROVE  rs[j].num = sp.rules[j].num
      <3>1. t.rules[j].num = sp.rules[j].num
        BY <2>3 DEF Nums
      <3> QED
        BY <1>8, <2>3, <3>1
    <2> QED
      BY <1>6, <2>1, <2>2, <2>3 DEF Nums
  <1> QED
    BY <1>9, <1>10

\* The devices of the spec with a path; they are not done and get the number.
WithPath(sp, path) == {i \in 1..Len(sp.devices) : sp.devices[i].path = path}
Fresh(sp, g, done, path, num) == \A i \in WithPath(sp, path) : i \notin done /\ g[i] = num

\* One device of the request.
LEMMA RenumberDevice ==
    ASSUME NEW sp, NEW g, Distinct(sp, g), NEW t, Shape(t, sp), IsSpec(sp),
           NEW done \in SUBSET (1..Len(sp.devices)), Nums(t, sp, g, done),
           NEW path, NEW num, Fresh(sp, g, done, path, num)
    PROVE  /\ Shape(RenumberAll(t, path, num), sp)
           /\ Nums(RenumberAll(t, path, num), sp, g, done \cup WithPath(sp, path))
  <1> DEFINE m == Len(sp.devices)
             u == RenumberAll(t, path, num)
             Done_(i) == done \cup {k \in 1..i : sp.devices[k].path = path}
  <1>1. m \in Nat /\ IsList(t.devices) /\ Len(t.devices) = m /\ DOMAIN t.devices = 1..m
    BY DEF Shape, IsSpec, IsList
  <1>2. PICK h : Renumbers(h, t, path, num, m) /\ u = h[m]
    BY <1>1, RenumbersExist
  <1> HIDE DEF m
  <1> DEFINE Good(i) == Shape(h[i], sp) /\ Nums(h[i], sp, g, Done_(i))
             Bad == {i \in 0..m : ~ Good(i)}
  <1> HIDE DEF Good, u
  <1>3. ASSUME Bad # {} PROVE FALSE
    <2>0. Bad \in SUBSET Nat
      BY <1>1
    <2>1. PICK i \in Bad : \A j \in Bad : i <= j
      <3> HIDE DEF Bad
      <3> QED
        BY <1>3, <2>0, HasMin
    <2>2. CASE i = 0
      <3>1. h[0] = t
        BY <1>2 DEF Renumbers
      <3>2. Done_(0) = done
        OBVIOUS
      <3> HIDE DEF Done_
      <3>3. Good(0)
        BY <3>1, <3>2 DEF Good
      <3> QED
        BY <2>1, <2>2, <3>3
    <2>3. CASE i # 0
      <3>1. i \in 1..m /\ i - 1 \in 0..m /\ i - 1 \notin Bad /\ i \in Nat
        BY <1>1, <2>0, <2>1, <2>3
      <3>2. Shape(h[i - 1], sp) /\ Nums(h[i - 1], sp, g, Done_(i - 1))
        BY <3>1 DEF Good
      <3>3. Positions(t)[i] = i
        BY <1>1, <3>1 DEF Positions
      <3>4. h[i] = RenumberAt(h[i - 1], i, path, num)
        BY <1>2, <3>1, <3>3 DEF Renumbers
      <3>5. h[i - 1].devices[i].path = sp.devices[i].path
        <4>1. h[i - 1].devices[i] = [path |-> sp.devices[i].path, type |-> sp.devices[i].type,
                                     num |-> h[i - 1].devices[i].num]
          BY <3>1, <3>2 DEF Shape, m
        <4> QED
          BY <4>1
      <3>6. CASE sp.devices[i].path = path
        <4>1. Done_(i) = Done_(i - 1) \cup {i}
          BY <3>1, <3>6
        <4>2. i \notin done /\ g[i] = num
          BY <3>1, <3>6 DEF m, Fresh, WithPath
        <4>3. Done_(i - 1) \in SUBSET (1..m) /\ i \in (1..m) \ Done_(i - 1)
          <5>1. \A k \in 1..(i - 1) : k \in 1..m /\ k # i
            BY <1>1, <3>1
          <5>2. done \in SUBSET (1..m)
            BY DEF m
          <5> QED
            BY <3>1, <4>2, <5>1, <5>2
        <4>4. h[i] = Renumber(h[i - 1], i, g[i])
          BY <3>4, <3>5, <3>6, <4>2 DEF RenumberAt
        <4> HIDE DEF Done_
        <4>5. Shape(h[i], sp) /\ Nums(h[i], sp, g, Done_(i - 1) \cup {i})
          BY <3>2, <4>3, <4>4, RenumberOne DEF m
        <4>6. Good(i)
          BY <4>1, <4>5 DEF Good
        <4> QED
          BY <2>1, <4>6
      <3>7. CASE sp.devices[i].path # path
        <4>1. Done_(i) = Done_(i - 1)
          BY <3>1, <3>7
        <4>2. h[i] = h[i - 1]
          BY <3>4, <3>5, <3>7 DEF RenumberAt
        <4> HIDE DEF Done_
        <4>3. Good(i)
          BY <3>2, <4>1, <4>2 DEF Good
        <4> QED
          BY <2>1, <4>3
      <3> QED
        BY <3>6, <3>7
    <2> QED
      BY <2>2, <2>3
  <1>4. Good(m)
    <2>1. m \in 0..m
      BY <1>1
    <2> QED
      BY <1>3, <2>1
  <1>5. Done_(m) = done \cup WithPath(sp, path)
    BY DEF m, WithPath
  <1> HIDE DEF Done_
  <1> QED
    BY <1>2, <1>4, <1>5 DEF Good, u

\* The devices of the spec that the first k of a request are.
DoneBy(sp, ds, k) ==
    {i \in 1..Len(sp.devices) : \E j \in 1..k : sp.devices[i].path = ds[j].container_path}

\* The numbers g are those of the nodes of the devices of the request.
Looked(sp, ds, g, hotplug, ns) ==
    \A j \in 1..Len(ds), i \in 1..Len(sp.devices) : sp.devices[i].path = ds[j].container_path =>
        g[i] = ns[IF ds[j].type \in {"blk", "scsi"} THEN hotplug[ds[j].id] ELSE ds[j].vm_path]

\* All the devices of the request.
LEMMA RenumberDevices ==
    ASSUME NEW sp, IsSpec(sp), NEW g, Distinct(sp, g), NEW ds \in Seq(DeviceRecords),
           Shape(sp, sp),
           \A j, k \in 1..Len(ds) : j # k => ds[j].container_path # ds[k].container_path,
           NEW hotplug, NEW ns, Looked(sp, ds, g, hotplug, ns),
           NEW u, u = add_devices(ds, sp, hotplug, ns), ~ u.error
    PROVE  /\ Shape(u.spec, sp) /\ Nums(u.spec, sp, g, DoneBy(sp, ds, Len(ds)))
           /\ \A i \in DoneBy(sp, ds, Len(ds)) : g[i] \in Range(ns)
  <1> DEFINE n == Len(ds)
             m == Len(sp.devices)
  <1>1. n \in Nat /\ IsList(ds) /\ m \in Nat
    BY SeqIsList DEF IsSpec, IsList
  <1>2. PICK h : Adds(h, ds, sp, hotplug, ns, n) /\ u = h[n]
    BY <1>1, AddsExist
  <1>3. \A i \in 0..n : IsAnswer(h[i])
    BY <1>2, AddDevicesIsAnswer
  <1> DEFINE Good(k) == ~ h[k].error =>
                 /\ Shape(h[k].spec, sp) /\ Nums(h[k].spec, sp, g, DoneBy(sp, ds, k))
                 /\ \A i \in DoneBy(sp, ds, k) : g[i] \in Range(ns)
             Bad == {k \in 0..n : ~ Good(k)}
  <1>4. ASSUME Bad # {} PROVE FALSE
    <2>0. Bad \in SUBSET Nat
      BY <1>1
    <2>1. PICK k \in Bad : \A j \in Bad : k <= j
      <3> HIDE DEF Bad
      <3> QED
        BY <1>4, <2>0, HasMin
    <2>2. CASE k = 0
      <3>1. h[0].spec = sp
        BY <1>2, ErrorsOrNot DEF Adds
      <3>2. DoneBy(sp, ds, 0) = {}
        BY DEF DoneBy
      <3>3. Nums(sp, sp, g, {})
        BY DEF Nums
      <3>4. Good(0)
        BY <3>1, <3>2, <3>3
      <3> QED
        BY <2>1, <2>2, <3>4
    <2>3. CASE k # 0
      <3>1. k \in 1..n /\ k - 1 \in 0..n /\ k - 1 \notin Bad /\ k \in Nat
        BY <1>1, <2>0, <2>1, <2>3
      <3>2. h[k] = add_next(h[k - 1], ds[k], hotplug, ns) /\ ds[k] \in DeviceRecords
        BY <1>2, <3>1 DEF Adds
      <3> DEFINE d == ds[k]
                 node == IF d.type \in {"blk", "scsi"} THEN hotplug[d.id] ELSE d.vm_path
                 t == h[k - 1].spec
                 done == DoneBy(sp, ds, k - 1)
                 more == DoneBy(sp, ds, k)
      <3>3. ~ h[k].error /\ ~ Good(k)
        BY <2>1
      <3>4. ~ h[k - 1].error
        BY <3>2, <3>3 DEF add_next
      <3>5. /\ Shape(t, sp) /\ Nums(t, sp, g, done)
            /\ \A i \in done : g[i] \in Range(ns)
        BY <3>1, <3>4
      <3>6. h[k].spec = RenumberAll(t, d.container_path, ns[node]) /\ node \in DOMAIN ns
        <4>1. h[k] = add_device(d, t, hotplug, ns)
          BY <3>2, <3>4 DEF add_next
        <4>2. h[k] = Error \/ (h[k] = Done(RenumberAll(t, d.container_path, ns[node])) /\ node \in DOMAIN ns)
          BY <3>2, <4>1, AddDevice
        <4> QED
          BY <3>3, <4>2, ErrorsOrNot
      <3>7. Fresh(sp, g, done, d.container_path, ns[node])
        <4> SUFFICES ASSUME NEW i \in 1..m, sp.devices[i].path = d.container_path
                     PROVE  i \notin done /\ g[i] = ns[node]
          BY DEF Fresh, WithPath
        <4>1. \A j \in 1..(k - 1) : j \in 1..n /\ j # k
          BY <3>1
        <4>2. i \notin done
          BY <3>1, <4>1 DEF DoneBy
        <4>3. g[i] = ns[node]
          BY <3>1 DEF Looked
        <4> QED
          BY <4>2, <4>3
      <3>8. more = done \cup WithPath(sp, d.container_path)
        <4>1. 1..k = 1..(k - 1) \cup {k}
          BY <3>1
        <4> QED
          BY <4>1 DEF DoneBy, WithPath
      <3>9. \A i \in more : g[i] \in Range(ns)
        BY <3>5, <3>6, <3>7, <3>8 DEF Range, Fresh
      <3>10. done \in SUBSET (1..m)
        BY DEF DoneBy
      <3> HIDE DEF d, node, t, done, more
      <3>11. Shape(h[k].spec, sp) /\ Nums(h[k].spec, sp, g, more)
        <4>1. Shape(t, sp) /\ Nums(t, sp, g, done) /\ done \in SUBSET (1..Len(sp.devices))
          BY <3>5, <3>10
        <4> QED
          BY <3>6, <3>7, <3>8, <4>1, RenumberDevice
      <3>12. Good(k)
        BY <3>9, <3>11 DEF more
      <3> QED
        BY <3>3, <3>12
    <2> QED
      BY <2>2, <2>3
  <1>5. Good(n)
    BY <1>1, <1>4
  <1> QED
    BY <1>2, <1>5

\* All the devices have their numbers, and all the rules.
Numbered(t, sp, g) ==
    /\ \A i \in 1..Len(sp.devices) : g[i] \in Numbers /\ sp.devices[i].num \in Numbers
    /\ \A j \in 1..Len(sp.rules), i \in 1..Len(sp.devices) :
          sp.rules[j].num = sp.devices[i].num => t.rules[j].num = g[i]
    /\ \A j \in 1..Len(sp.rules) :
          (\A i \in 1..Len(sp.devices) : sp.rules[j].num # sp.devices[i].num) =>
              t.rules[j].num = sp.rules[j].num

\* "*" is the number of no device.
LEMMA WildcardIsNoNumber == WILDCARD \notin Numbers
  BY NumbersAssumption DEF WILDCARD

\* A rule that is renumbered, seen from a device.
LEMMA RuleNumber ==
    ASSUME NEW sp, NEW g, Distinct(sp, g), NEW t, Numbered(t, sp, g),
           NEW i \in 1..Len(sp.devices), NEW j \in 1..Len(sp.rules)
    PROVE  /\ t.rules[j].num = WILDCARD <=> sp.rules[j].num = WILDCARD
           /\ t.rules[j].num = g[i] <=> sp.rules[j].num = sp.devices[i].num
           /\ g[i] # sp.devices[i].num => t.rules[j].num # sp.devices[i].num
  <1> DEFINE x == sp.rules[j].num
             y == t.rules[j].num
             o == sp.devices[i].num
  <1>1. \/ \E k \in 1..Len(sp.devices) : x = sp.devices[k].num /\ y = g[k]
        \/ (\A k \in 1..Len(sp.devices) : x # sp.devices[k].num) /\ y = x
    BY DEF Numbered
  <1>2. /\ \A k \in 1..Len(sp.devices) : g[k] # WILDCARD /\ sp.devices[k].num # WILDCARD
        /\ \A k \in 1..Len(sp.devices) : k # i => g[k] # g[i] /\ sp.devices[k].num # o
        /\ \A k \in 1..Len(sp.devices) : g[k] # sp.devices[k].num => g[k] # o /\ g[k] # x
    BY WildcardIsNoNumber DEF Numbered, Distinct
  <1> HIDE DEF x, y, o
  <1>3. CASE \E k \in 1..Len(sp.devices) : x = sp.devices[k].num /\ y = g[k]
    <2>1. PICK k \in 1..Len(sp.devices) : x = sp.devices[k].num /\ y = g[k]
      BY <1>3
    <2>2. CASE k = i
      BY <1>2, <2>1, <2>2 DEF x, y, o
    <2>3. CASE k # i
      BY <1>2, <2>1, <2>3 DEF x, y, o
    <2> QED
      BY <2>2, <2>3
  <1>4. CASE (\A k \in 1..Len(sp.devices) : x # sp.devices[k].num) /\ y = x
    BY <1>2, <1>4 DEF x, y, o
  <1> QED
    BY <1>1, <1>3, <1>4

\* What the rules say of a device, before and after.
LEMMA NumbersFollow ==
    ASSUME NEW sp, IsSpec(sp), NEW g, Distinct(sp, g), Shape(sp, sp),
           NEW t, Shape(t, sp), Numbered(t, sp, g),
           NEW i \in 1..Len(sp.devices), NEW ty \in {"b", "c"}, NEW a \in Access
    PROVE  /\ <<ty, g[i], a>> \in Permitted(Permissions, t.rules)
                 <=> <<ty, sp.devices[i].num, a>> \in Permitted(Permissions, sp.rules)
           /\ g[i] # sp.devices[i].num =>
                 (<<ty, sp.devices[i].num, a>> \in Permitted(Permissions, t.rules)
                    <=> <<ty, sp.devices[i].num, a>> \in
                          Permitted(Permissions, Without(sp.rules, sp.devices[i].num)))
  <1> DEFINE o == sp.devices[i].num
             x == <<ty, g[i], a>>
             y == <<ty, o, a>>
             n == Len(sp.rules)
             w == Without(sp.rules, o)
  <1>1. /\ IsList(t.rules) /\ Len(t.rules) = n
        /\ IsList(sp.rules) /\ n \in Nat /\ DOMAIN sp.rules = 1..n
    BY DEF Shape, IsSpec, IsList
  <1>2. g[i] \in Numbers /\ o \in Numbers
    BY DEF Numbered
  <1>3. x \in Permissions /\ y \in Permissions
    BY <1>2 DEF Permissions
  <1>4. ASSUME NEW j \in 1..n
        PROVE  /\ t.rules[j].allow = sp.rules[j].allow /\ t.rules[j].type = sp.rules[j].type
               /\ t.rules[j].access = sp.rules[j].access
    <2>1. t.rules[j] = [allow |-> sp.rules[j].allow, type |-> sp.rules[j].type,
                        num |-> t.rules[j].num, access |-> sp.rules[j].access]
      BY DEF Shape
    <2> QED
      BY <2>1
  <1>5. ASSUME NEW j \in 1..n
        PROVE  /\ t.rules[j].num = WILDCARD <=> sp.rules[j].num = WILDCARD
               /\ t.rules[j].num = g[i] <=> sp.rules[j].num = o
               /\ g[i] # o => t.rules[j].num # o
    BY RuleNumber
  <1>6. ASSUME NEW j \in 1..n PROVE y \in Covered(sp.rules[j]) <=> x \in Covered(t.rules[j])
    <2>1. y \in Covered(sp.rules[j]) <=>
              \/ sp.rules[j].type = Empty
              \/ sp.rules[j].type = ty /\ sp.rules[j].num \in {WILDCARD, o} /\ a \in sp.rules[j].access
      BY <1>2, CoveredIff
    <2>2. x \in Covered(t.rules[j]) <=>
              \/ t.rules[j].type = Empty
              \/ t.rules[j].type = ty /\ t.rules[j].num \in {WILDCARD, g[i]} /\ a \in t.rules[j].access
      BY <1>2, CoveredIff
    <2> HIDE DEF x, y, o
    <2> QED
      BY <1>4, <1>5, <2>1, <2>2
  <1>7. x \in Permitted(Permissions, t.rules) <=> y \in Permitted(Permissions, sp.rules)
    <2> HIDE DEF x, y
    <2>1. Alike(sp.rules, t.rules, y, x)
      BY <1>4, <1>6 DEF Alike
    <2> QED
      BY <1>1, <1>3, <2>1, AlikePermitted
  <1>8. IsList(w) /\ Len(w) = n
    <2>1. w = [j \in 1..n |-> w[j]]
      BY <1>1 DEF Without
    <2> HIDE DEF w
    <2> QED
      BY <1>1, <2>1, FunctionIsList
  <1>9. ASSUME NEW j \in 1..n
        PROVE  /\ w[j].allow = sp.rules[j].allow /\ w[j].type = sp.rules[j].type
               /\ w[j].num = sp.rules[j].num
               /\ w[j].access = IF sp.rules[j].num = o /\ sp.rules[j].type # Empty THEN {} ELSE sp.rules[j].access
    <2>1. w[j] = IF sp.rules[j].num = o /\ sp.rules[j].type # Empty
                 THEN [sp.rules[j] EXCEPT !.access = {}] ELSE sp.rules[j]
      BY <1>1 DEF Without
    <2>2. sp.rules[j] = [allow |-> sp.rules[j].allow, type |-> sp.rules[j].type,
                         num |-> sp.rules[j].num, access |-> sp.rules[j].access]
      BY DEF Shape
    <2> HIDE DEF w, o
    <2> QED
      BY <2>1, <2>2
  <1>10. ASSUME g[i] # o, NEW j \in 1..n PROVE y \in Covered(w[j]) <=> y \in Covered(t.rules[j])
    <2>1. y \in Covered(w[j]) <=>
              \/ w[j].type = Empty
              \/ w[j].type = ty /\ w[j].num \in {WILDCARD, o} /\ a \in w[j].access
      BY <1>2, CoveredIff
    <2>2. y \in Covered(t.rules[j]) <=>
              \/ t.rules[j].type = Empty
              \/ t.rules[j].type = ty /\ t.rules[j].num \in {WILDCARD, o} /\ a \in t.rules[j].access
      BY <1>2, CoveredIff
    <2>3. o # WILDCARD
      BY <1>2, WildcardIsNoNumber
    <2> HIDE DEF y, o, w
    <2> QED
      BY <1>4, <1>5, <1>9, <1>10, <2>1, <2>2, <2>3
  <1>11. ASSUME g[i] # o PROVE y \in Permitted(Permissions, w) <=> y \in Permitted(Permissions, t.rules)
    <2> HIDE DEF y, o, w
    <2>1. Alike(w, t.rules, y, y)
      BY <1>4, <1>8, <1>9, <1>10, <1>11 DEF Alike
    <2> QED
      BY <1>1, <1>3, <1>8, <2>1, AlikePermitted
  <1> QED
    BY <1>7, <1>11

\* The spec of a request as the lemmas above want it.
LEMMA CreationsShape ==
    ASSUME NEW c \in Containers, NEW q \in Creations[c]
    PROVE  /\ Shape(q.spec, q.spec)
           /\ \A i \in 1..Len(q.spec.devices) : q.spec.devices[i].type \in {"b", "c"}
                                               /\ q.spec.devices[i].num \in Numbers
  <1> DEFINE D == [path : STRING, type : {"b", "c"}, num : Numbers]
             R == [allow : BOOLEAN, type : {"b", "c", Empty},
                   num : Numbers \cup Range(DefaultNumbers) \cup {WILDCARD, 0},
                   access : SUBSET Access]
             ds == q.spec.devices
             rs == q.spec.rules
  <1>1. q.spec \in [devices : Seq(D), rules : Seq(R)]
    BY RequestsAssumption
  <1> HIDE DEF D, R
  <1>2. ds \in Seq(D) /\ rs \in Seq(R)
    BY <1>1
  <1> HIDE DEF ds, rs
  <1>3. ASSUME NEW i \in 1..Len(ds)
        PROVE  /\ ds[i] = [path |-> ds[i].path, type |-> ds[i].type, num |-> ds[i].num]
               /\ ds[i].type \in {"b", "c"} /\ ds[i].num \in Numbers
    <2>1. ds[i] \in D
      BY <1>2
    <2> QED
      BY <2>1 DEF D
  <1>4. ASSUME NEW j \in 1..Len(rs)
        PROVE  rs[j] = [allow |-> rs[j].allow, type |-> rs[j].type,
                        num |-> rs[j].num, access |-> rs[j].access]
    <2>1. rs[j] \in R
      BY <1>2
    <2> QED
      BY <2>1 DEF R
  <1>5. IsSpec(q.spec)
    BY CreationsSpec
  <1> QED
    BY <1>3, <1>4, <1>5 DEF Shape, ds, rs

\* A device of the spec that none of the request is keeps its number.
LEMMA OthersKeepNumbers ==
    ASSUME NEW q, IsList(q.devices), IsList(q.spec.devices), NEW i \in 1..Len(q.spec.devices),
           i \notin DoneBy(q.spec, q.devices, Len(q.devices))
    PROVE  GuestNumber(q, i) = q.spec.devices[i].num
  <1>1. DOMAIN q.devices = 1..Len(q.devices)
    BY DEF IsList
  <1>2. {j \in DOMAIN q.devices : q.devices[j].container_path = q.spec.devices[i].path} = {}
    BY <1>1 DEF DoneBy
  <1> QED
    BY <1>2 DEF GuestNumber

\* The number of one that a device of the request is, is that of its node.
LEMMA GuestNumbersLooked ==
    ASSUME NEW q, IsList(q.devices),
           \A j, k \in 1..Len(q.devices) :
              j # k => q.devices[j].container_path # q.devices[k].container_path,
           NEW m \in Nat, m = Len(q.spec.devices),
           NEW g, g = [i \in 1..m |-> GuestNumber(q, i)]
    PROVE  Looked(q.spec, q.devices, g, Hotplug, nodes)
  <1> SUFFICES ASSUME NEW j \in 1..Len(q.devices), NEW i \in 1..m,
                      q.spec.devices[i].path = q.devices[j].container_path
               PROVE  g[i] = nodes[IF q.devices[j].type \in {"blk", "scsi"}
                                   THEN Hotplug[q.devices[j].id] ELSE q.devices[j].vm_path]
    BY DEF Looked
  <1> DEFINE S == {k \in DOMAIN q.devices : q.devices[k].container_path = q.spec.devices[i].path}
  <1>1. S = {j}
    BY DEF IsList
  <1>2. (CHOOSE k \in S : TRUE) = j
    BY <1>1
  <1> DEFINE d == q.devices[CHOOSE k \in S : TRUE]
             node(e) == IF e.type \in {"blk", "scsi"} THEN Hotplug[e.id] ELSE e.vm_path
  <1>3. GuestNumber(q, i) = IF S = {} THEN q.spec.devices[i].num ELSE nodes[node(d)]
    BY Zenon DEF GuestNumber
  <1>4. d = q.devices[j]
    BY <1>2
  <1>5. g[i] = GuestNumber(q, i)
    OBVIOUS
  <1>6. S # {}
    BY <1>1
  <1> HIDE DEF S, d
  <1> QED
    BY <1>3, <1>4, <1>5, <1>6

\* The numbers that a spec has in the end are those of the guest.
LEMMA AllNumbered ==
    ASSUME NEW sp, NEW g, NEW t, Distinct(sp, g), NEW done, Nums(t, sp, g, done),
           done \in SUBSET (1..Len(sp.devices)),
           \A i \in 1..Len(sp.devices) : sp.devices[i].num \in Numbers,
           \A i \in done : g[i] \in Numbers,
           \A i \in (1..Len(sp.devices)) \ done : g[i] = sp.devices[i].num
    PROVE  Numbered(t, sp, g)
  <1> DEFINE m == Len(sp.devices)
             n == Len(sp.rules)
  <1>1. \A i \in 1..m : g[i] \in Numbers /\ sp.devices[i].num \in Numbers
    OBVIOUS
  <1>2. ASSUME NEW j \in 1..n, NEW i \in 1..m, sp.rules[j].num = sp.devices[i].num
        PROVE  t.rules[j].num = g[i]
    <2>1. CASE i \in done
      BY <1>2, <2>1 DEF Nums
    <2>2. CASE i \notin done
      <3>1. \A k \in done : sp.rules[j].num # sp.devices[k].num
        BY <1>2, <2>2 DEF Distinct
      <3>2. t.rules[j].num = sp.rules[j].num
        BY <3>1 DEF Nums
      <3> QED
        BY <1>2, <2>2, <3>2
    <2> QED
      BY <2>1, <2>2
  <1>3. ASSUME NEW j \in 1..n, \A i \in 1..m : sp.rules[j].num # sp.devices[i].num
        PROVE  t.rules[j].num = sp.rules[j].num
    BY <1>3 DEF Nums
  <1> QED
    BY <1>1, <1>2, <1>3 DEF Numbered

\* What a container that has what add_devices made of its spec may do.
LEMMA GuestAccess ==
    ASSUME NEW c \in Containers, NEW q \in Creations[c], nodes \in Nodes, NoClash(q),
           ~ GuestSpec(q).error,
           NEW i \in DOMAIN q.spec.devices, NEW a \in Access,
           NEW perms, perms = Permitted(Permissions, GuestSpec(q).spec.rules \o DefaultRules),
           NEW ty, ty = q.spec.devices[i].type,
           NEW num, num = q.spec.devices[i].num
    PROVE  /\ <<ty, GuestNumber(q, i), a>> \in perms
                 <=> a = "m" \/ <<ty, num, a>> \in Permitted(Permissions, q.spec.rules)
           /\ GuestNumber(q, i) # num /\ a # "m" =>
                 (<<ty, num, a>> \in perms
                    <=> <<ty, num, a>> \in Permitted(Permissions, Without(q.spec.rules, num)))
  <1> DEFINE sp == q.spec
             ds == q.devices
             m == Len(sp.devices)
             g == [k \in 1..m |-> GuestNumber(q, k)]
             u == GuestSpec(q)
             t == u.spec
             done == DoneBy(sp, ds, Len(ds))
  <1>1. IsSpec(sp) /\ ds \in Seq(DeviceRecords)
    BY CreationsSpec
  <1>2. /\ Shape(sp, sp)
        /\ \A k \in 1..m : sp.devices[k].type \in {"b", "c"} /\ sp.devices[k].num \in Numbers
    BY CreationsShape
  <1>3. /\ IsList(ds) /\ DOMAIN ds = 1..Len(ds)
        /\ IsList(sp.devices) /\ DOMAIN sp.devices = 1..m /\ m \in Nat
        /\ IsList(sp.rules) /\ DOMAIN sp.rules = 1..Len(sp.rules)
    BY <1>1, SeqIsList DEF IsSpec, IsList
  <1>4. \A j, k \in 1..Len(ds) : j # k => ds[j].container_path # ds[k].container_path
    BY <1>3 DEF NoClash
  <1>5. \A k \in 1..m : g[k] = GuestNumber(q, k)
    OBVIOUS
  <1>6. Distinct(sp, g)
    <2>1. \A k \in 1..m : GuestNumber(q, k) # sp.devices[k].num =>
             /\ \A l \in 1..m : GuestNumber(q, k) # sp.devices[l].num
             /\ \A j \in 1..Len(sp.rules) : GuestNumber(q, k) # sp.rules[j].num
      BY <1>3 DEF NoClash
    <2>2. \A k, l \in 1..m : k # l => /\ sp.devices[k].num # sp.devices[l].num
                                      /\ GuestNumber(q, k) # GuestNumber(q, l)
      BY <1>3 DEF NoClash
    <2> HIDE DEF g
    <2> QED
      BY <1>5, <2>1, <2>2 DEF Distinct
  <1>7. Looked(sp, ds, g, Hotplug, nodes)
    BY <1>3, <1>4, GuestNumbersLooked
  <1>8. done \in SUBSET (1..m)
    BY DEF DoneBy
  <1>9. \A k \in (1..m) \ done : g[k] = sp.devices[k].num
    BY <1>3, <1>5, OthersKeepNumbers
  <1>10. u = add_devices(ds, sp, Hotplug, nodes) /\ ~ u.error
    BY DEF GuestSpec
  <1> HIDE DEF g, u
  <1>11. /\ Shape(t, sp) /\ Nums(t, sp, g, done)
         /\ \A k \in done : g[k] \in Range(nodes)
    BY <1>1, <1>2, <1>4, <1>6, <1>7, <1>10, RenumberDevices
  <1>12. \A k \in done : g[k] \in Numbers
    BY <1>11, GuestAssumption
  <1> HIDE DEF t, done, sp, ds
  <1>13. Numbered(t, sp, g)
    BY <1>2, <1>6, <1>8, <1>9, <1>11, <1>12, AllNumbered
  <1>14. /\ i \in 1..m /\ ty \in {"b", "c"} /\ num \in Numbers
         /\ g[i] \in Numbers /\ g[i] = GuestNumber(q, i) /\ num = sp.devices[i].num
    BY <1>2, <1>3, <1>5, <1>13 DEF sp, Numbered
  <1>15. IsList(t.rules)
    BY <1>11 DEF Shape, IsSpec
  <1>16. /\ <<ty, g[i], a>> \in Permitted(Permissions, t.rules)
               <=> <<ty, num, a>> \in Permitted(Permissions, sp.rules)
         /\ g[i] # num =>
               (<<ty, num, a>> \in Permitted(Permissions, t.rules)
                  <=> <<ty, num, a>> \in Permitted(Permissions, Without(sp.rules, num)))
    <2>1. IsSpec(sp)
      BY <1>1
    <2> QED
      BY <2>1, <1>2, <1>6, <1>11, <1>13, <1>14, NumbersFollow
  <1>17. perms = Permitted(Permissions, t.rules \o DefaultRules)
    BY DEF t, u
  <1>18. <<ty, g[i], a>> \in perms <=> a = "m" \/ <<ty, g[i], a>> \in Permitted(Permissions, t.rules)
    BY <1>14, <1>15, <1>17, DefaultsAllow
  <1>19. <<ty, num, a>> \in perms <=> a = "m" \/ <<ty, num, a>> \in Permitted(Permissions, t.rules)
    BY <1>14, <1>15, <1>17, DefaultsAllow
  <1> QED
    BY <1>14, <1>16, <1>18, <1>19 DEF sp

\* What a container may do to a device of the guest is what the rules of its
\* spec say of the device on the host: update_spec_device_list changes devices
\* and rules alike, the default devices add mknod, and updates change nothing.
THEOREM DevicesOfSpec == Spec => []DevicesFollow
  <1>1. Inv => DevicesFollow
    <2> SUFFICES ASSUME Inv, NEW c \in known, origin[c].resources # NoValue, NoClash(origin[c]),
                        NEW i \in DOMAIN origin[c].spec.devices, NEW a \in Access
                 PROVE  LET q == origin[c]
                            d == q.spec.devices[i] IN
                        /\ <<d.type, GuestNumber(q, i), a>> \in dirs[c]["devices"]
                              <=> a = "m" \/ <<d.type, d.num, a>> \in Permitted(Permissions, q.spec.rules)
                        /\ GuestNumber(q, i) # d.num /\ a # "m" =>
                              (<<d.type, d.num, a>> \in dirs[c]["devices"]
                                 <=> <<d.type, d.num, a>> \in
                                       Permitted(Permissions, Without(q.spec.rules, d.num)))
      BY DEF DevicesFollow
    <2>1. c \in Containers /\ origin[c] \in Creations[c] /\ nodes \in Nodes
      BY DEF Inv, Lifetimes, Functions
    <2>2. /\ ~ GuestSpec(origin[c]).error
          /\ dirs[c]["devices"] = Permitted(Permissions, GuestSpec(origin[c]).spec.rules \o DefaultRules)
      BY DEF Inv, DevicesKept
    <2> QED
      BY <2>1, <2>2, GuestAccess
  <1> QED
    BY <1>1, Invariant, PTL
=============================================================================
