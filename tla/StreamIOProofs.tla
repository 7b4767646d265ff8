---------------------------- MODULE StreamIOProofs ----------------------------
(***************************************************************************)
(* Proofs about StreamIO, for any number of processes and threads.         *)
(*                                                                         *)
(* The argument.  The numbers of descriptors in a Process are open and its *)
(* own because whatever closes one resets the field in the same critical   *)
(* section, and because there are enough numbers for all processes: what a *)
(* failed start or a removal leaves open is never closed, and no end of a  *)
(* process is opened twice.  A read uses its number without the mutex; but *)
(* the process cannot leave while a stream of it has not been seen to its  *)
(* end, and a terminal is not closed under a read, so the number still     *)
(* stands for the stream.  What has been received and what is in the pipe  *)
(* then are together what was written.  A write keeps the mutex, so what   *)
(* it has put into the pipe is what is missing in the answers until it     *)
(* returns.                                                                *)
(***************************************************************************)
EXTENDS StreamIO, SequenceTheorems, FiniteSetTheorems, TLAPS

Bytes == Procs \X {"stdin", "stdout", "stderr"} \X Nat
EndsOfProcs == (Procs \X Ends) \cup {Closed}
FdOrNone == Fds \cup {None}
Jobs == [proc : Procs \cup {NoProc}, stream : Streams, fd : FdOrNone, end : EndsOfProcs,
         left : Seq(Bytes), done : Seq(Bytes)]
Lives == {"none", "run", "exited", "gone", "lost"}
Controls == {"idle", "taken", "reading", "writing"}

TypeOK ==
    /\ lock \in Threads \cup {Free} /\ poisoned \in BOOLEAN
    /\ life \in [Procs -> Lives]
    /\ heirs \in [Procs -> BOOLEAN]
    /\ fields \in [Procs -> [Ends -> FdOrNone]]
    /\ open \in [Fds -> EndsOfProcs]
    /\ input \in [Procs -> Seq(Bytes)]
    /\ output \in [Procs -> [Streams -> Seq(Bytes)]]
    /\ written \in [Procs -> [Streams -> Nat]]
    /\ consumed \in [Procs -> Seq(Bytes)]
    /\ sent \in [Procs -> Seq(Bytes)]
    /\ got \in [Procs -> [Streams -> Seq(Bytes)]]
    /\ eof \in [Procs -> SUBSET Streams]
    /\ wpc \in [Threads -> Controls]
    /\ job \in [Threads -> Jobs]

\* A process has its descriptors as long as it is in the table.
FieldsInv ==
    \A p \in Procs :
        /\ ~ Known(p) => fields[p] = NoFields
        /\ Known(p) => fields[p]["stdout"] # None /\ fields[p]["stderr"] # None
        /\ p \notin Terminals => fields[p]["term"] = None

\* An end is opened once, when its process is started.
OnceInv ==
    \A f \in Fds : open[f] # Closed =>
        /\ life[open[f][1]] # "none"
        /\ \A g \in Fds : open[g] = open[f] => g = f

FdInv == OwnDescriptors /\ FieldsInv /\ OnceInv

\* A read is for a stream that has not been seen to its end, of a process
\* that has not been waited for.
OnStream(w) ==
    /\ job[w].proc \in Procs /\ life[job[w].proc] \in {"run", "exited", "lost"}
    /\ job[w].stream \in Reads(job[w].proc) \ eof[job[w].proc]

\* What an open descriptor or a read stands for.
IsStream(w, end) ==
    \/ end = <<job[w].proc, job[w].stream>>
    \/ end = <<job[w].proc, "term">> /\ job[w].proc \in Terminals

TakenOK(w) == OnStream(w) /\ job[w].fd \in Fds /\ IsStream(w, open[job[w].fd])
ReadingOK(w) == OnStream(w) /\ IsStream(w, job[w].end)

\* The bytes in the pipe that have not been answered.
WritingOK(w) ==
    /\ job[w].proc \in Procs /\ Known(job[w].proc)
    /\ lock = w
    /\ job[w].fd = StdinFd(job[w].proc) /\ job[w].fd # None
    /\ sent[job[w].proc] \o job[w].done = consumed[job[w].proc] \o input[job[w].proc]

WorkerOK(w) ==
    /\ wpc[w] = "taken" => TakenOK(w)
    /\ wpc[w] = "reading" => ReadingOK(w)
    /\ wpc[w] = "writing" => WritingOK(w)

\* One read of a stream at a time, and one write of the whole sandbox.
InTurn ==
    \A v, w \in Threads :
        v # w /\ {wpc[v], wpc[w]} \subseteq {"taken", "reading"} =>
            job[v].proc # job[w].proc \/ job[v].stream # job[w].stream
LockInv == \A w \in Threads : lock = w => wpc[w] = "writing"

WorkerInv == (\A w \in Threads : WorkerOK(w)) /\ InTurn /\ LockInv

\* What has been received and what is on its way are what was written.
StreamInv ==
    \A p \in Procs, s \in Streams :
        /\ got[p][s] \o output[p][s] = Whole(p, s)
        /\ s \in eof[p] /\ p \notin Terminals => ~ Held(p) /\ output[p][s] = <<>>
        /\ life[p] = "none" => eof[p] = {} /\ ~ heirs[p]

Inv == TypeOK /\ FdInv /\ WorkerInv /\ InputExact /\ StreamInv

-----------------------------------------------------------------------------
(* Free numbers.                                                           *)

\* A set of numbers has a least one: the kernel hands out the lowest descriptor.
LEMMA HasMin ==
    ASSUME NEW S \in SUBSET Nat, S # {} PROVE \E x \in S : \A y \in S : x <= y
  <1> DEFINE R == OpToRel(<, Nat)
  <1>1. IsWellFoundedOn(R, Nat)
    BY NatLessThanWellFounded
  <1>2. \A x, y \in Nat : <<y, x>> \in R <=> y < x
    BY DEF OpToRel
  <1> HIDE DEF R
  <1>3. PICK x \in S : \A y \in S : ~ (<<y, x>> \in R)
    BY <1>1, WFMin
  <1>4. \A y \in S : ~ (y < x)
    BY <1>2, <1>3
  <1> QED
    BY <1>4

\* One end of each process but p: there are fewer than processes.
LEMMA FewOfOneEnd ==
    ASSUME TypeOK, OnceInv, NEW p \in Procs, life[p] = "none", NEW e \in Ends
    PROVE  LET U == {f \in Fds : open[f] # Closed /\ open[f][2] = e}
           IN  IsFiniteSet(U) /\ Cardinality(U) <= Cardinality(Procs) - 1
  <1> DEFINE U == {f \in Fds : open[f] # Closed /\ open[f][2] = e}
             h == [f \in U |-> open[f][1]]
  <1>1. \A f \in U : open[f][1] \in Procs /\ open[f] = <<open[f][1], e>>
    BY DEF TypeOK, EndsOfProcs
  <1>2. \A f \in U : open[f][1] # p /\ \A g \in U : open[g][1] = open[f][1] => g = f
    BY <1>1 DEF OnceInv
  <1>3. h \in Injection(U, Procs \ {p})
    BY <1>1, <1>2 DEF Injection, IsInjective
  <1>4. IsFiniteSet(Procs \ {p}) /\ Cardinality(Procs \ {p}) = Cardinality(Procs) - 1
    BY BoundsAssumption, FS_RemoveElement
  <1> HIDE DEF U, h
  <1>5. IsFiniteSet(U) /\ Cardinality(U) <= Cardinality(Procs) - 1
    BY <1>3, <1>4, FS_Injection
  <1> QED
    BY <1>5 DEF U

\* There is room for a process that has not been started.
LEMMA FourFree ==
    ASSUME TypeOK, OnceInv, NEW p \in Procs, life[p] = "none"
    PROVE  IsFiniteSet(FreeFds) /\ Cardinality(FreeFds) >= 4
  <1> DEFINE U(e) == {f \in Fds : open[f] # Closed /\ open[f][2] = e}
             In == U("stdin") \cup U("stdout")
             Out == U("stderr") \cup U("term")
             Used == In \cup Out
             N == Cardinality(Procs)
  <1>1. \A e \in Ends : IsFiniteSet(U(e)) /\ Cardinality(U(e)) <= N - 1
    BY FewOfOneEnd
  <1>2. \A e \in Ends : Cardinality(U(e)) \in Nat
    BY <1>1, FS_CardinalityType
  <1>3. Used = Fds \ FreeFds
    BY DEF FreeFds, TypeOK, EndsOfProcs, Ends
  <1>4. N \in Nat
    BY BoundsAssumption, FS_CardinalityType
  <1> HIDE DEF U, N
  <1>5. /\ IsFiniteSet(In) /\ Cardinality(In) \in Nat /\ Cardinality(In) <= 2 * (N - 1)
    <2>1. /\ IsFiniteSet(U("stdin") \cap U("stdout"))
          /\ Cardinality(U("stdin") \cap U("stdout")) \in Nat
      BY <1>1, FS_Intersection, FS_CardinalityType DEF Ends
    <2>2. /\ IsFiniteSet(In)
          /\ Cardinality(In) = Cardinality(U("stdin")) + Cardinality(U("stdout"))
                               - Cardinality(U("stdin") \cap U("stdout"))
      BY <1>1, FS_Union DEF Ends
    <2>3. Cardinality(In) \in Nat
      BY <2>2, FS_CardinalityType
    <2> QED
      BY <1>1, <1>2, <1>4, <2>1, <2>2, <2>3 DEF Ends
  <1>6. /\ IsFiniteSet(Out) /\ Cardinality(Out) \in Nat /\ Cardinality(Out) <= 2 * (N - 1)
    <2>1. /\ IsFiniteSet(U("stderr") \cap U("term"))
          /\ Cardinality(U("stderr") \cap U("term")) \in Nat
      BY <1>1, FS_Intersection, FS_CardinalityType DEF Ends
    <2>2. /\ IsFiniteSet(Out)
          /\ Cardinality(Out) = Cardinality(U("stderr")) + Cardinality(U("term"))
                               - Cardinality(U("stderr") \cap U("term"))
      BY <1>1, FS_Union DEF Ends
    <2>3. Cardinality(Out) \in Nat
      BY <2>2, FS_CardinalityType
    <2> QED
      BY <1>1, <1>2, <1>4, <2>1, <2>2, <2>3 DEF Ends
  <1> HIDE DEF In, Out
  <1>7. /\ IsFiniteSet(Used) /\ Cardinality(Used) \in Nat /\ Cardinality(Used) <= 4 * (N - 1)
    <2>1. IsFiniteSet(In \cap Out) /\ Cardinality(In \cap Out) \in Nat
      BY <1>5, FS_Intersection, FS_CardinalityType
    <2>2. /\ IsFiniteSet(Used)
          /\ Cardinality(Used) = Cardinality(In) + Cardinality(Out) - Cardinality(In \cap Out)
      BY <1>5, <1>6, FS_Union
    <2>3. Cardinality(Used) \in Nat
      BY <2>2, FS_CardinalityType
    <2> QED
      BY <1>4, <1>5, <1>6, <2>1, <2>2, <2>3
  <1>8. IsFiniteSet(Fds) /\ Cardinality(Fds) = MaxFd
    BY BoundsAssumption, FS_Interval DEF Fds
  <1> HIDE DEF Used
  <1>9. FreeFds = Fds \ Used /\ Fds \cap Used = Used
    BY <1>3 DEF FreeFds
  <1>10. IsFiniteSet(FreeFds) /\ Cardinality(FreeFds) = MaxFd - Cardinality(Used)
    BY <1>8, <1>9, FS_Difference
  <1> QED
    BY <1>4, <1>7, <1>10, BoundsAssumption DEF N

\* The next ones are found in what remains.
LEMMA LeastAndRest ==
    ASSUME NEW S \in SUBSET Nat, IsFiniteSet(S), NEW k \in Nat, Cardinality(S) >= k + 1
    PROVE  \E x \in S :
               /\ \A y \in S : x <= y
               /\ S \ {x} \in SUBSET Nat /\ IsFiniteSet(S \ {x})
               /\ Cardinality(S \ {x}) >= k
  <1>1. Cardinality(S) \in Nat /\ S # {}
    BY FS_CardinalityType, FS_EmptySet
  <1>2. PICK x \in S : \A y \in S : x <= y
    BY <1>1, HasMin
  <1>3. IsFiniteSet(S \ {x}) /\ Cardinality(S \ {x}) = Cardinality(S) - 1
    BY FS_RemoveElement
  <1> QED
    BY <1>1, <1>2, <1>3

\* The kernel finds the lowest numbers: the least one, the least of the
\* others, and so on.
LEMMA LowestIs ==
    ASSUME FreeFds \in SUBSET Nat, IsFiniteSet(FreeFds), Cardinality(FreeFds) >= 4,
           NEW n \in 1..4
    PROVE  /\ Lowest(n) \in [1..n -> FreeFds]
           /\ \A i, j \in 1..n : i # j => Lowest(n)[i] # Lowest(n)[j]
  <1> DEFINE Ordered(s) ==
                 /\ \A i, j \in 1..n : i < j => s[i] < s[j]
                 /\ \A f \in FreeFds : f < s[n] => \E i \in 1..n : s[i] = f
  <1>1. \E s \in [1..n -> FreeFds] : Ordered(s)
    <2>2. PICK a \in FreeFds :
              /\ \A y \in FreeFds : a <= y
              /\ FreeFds \ {a} \in SUBSET Nat /\ IsFiniteSet(FreeFds \ {a})
              /\ Cardinality(FreeFds \ {a}) >= 3
      <3>1. Cardinality(FreeFds) >= 3 + 1
        OBVIOUS
      <3> QED
        BY <3>1, LeastAndRest
    <2> DEFINE A == FreeFds \ {a}
    <2> HIDE DEF A
    <2>3. PICK b \in A :
              /\ \A y \in A : b <= y
              /\ A \ {b} \in SUBSET Nat /\ IsFiniteSet(A \ {b})
              /\ Cardinality(A \ {b}) >= 2
      <3>1. A \in SUBSET Nat /\ IsFiniteSet(A) /\ Cardinality(A) >= 2 + 1
        BY <2>2 DEF A
      <3> QED
        BY <3>1, LeastAndRest
    <2> DEFINE B == A \ {b}
    <2> HIDE DEF B
    <2>4. PICK c \in B :
              /\ \A y \in B : c <= y
              /\ B \ {c} \in SUBSET Nat /\ IsFiniteSet(B \ {c})
              /\ Cardinality(B \ {c}) >= 1
      <3>1. B \in SUBSET Nat /\ IsFiniteSet(B) /\ Cardinality(B) >= 1 + 1
        BY <2>3 DEF B
      <3> QED
        BY <3>1, LeastAndRest
    <2> DEFINE C == B \ {c}
    <2> HIDE DEF C
    <2>5. PICK d \in C : \A y \in C : d <= y
      <3>1. C \in SUBSET Nat /\ IsFiniteSet(C) /\ Cardinality(C) >= 0 + 1
        BY <2>4 DEF C
      <3> QED
        BY <3>1, LeastAndRest
    <2>6. /\ a \in FreeFds /\ b \in FreeFds /\ c \in FreeFds /\ d \in FreeFds
          /\ a \in Nat /\ b \in Nat /\ c \in Nat /\ d \in Nat
          /\ a < b /\ b < c /\ c < d
      <3>1. b \in FreeFds /\ b # a
        BY DEF A
      <3>2. c \in A /\ c # b /\ c \in FreeFds
        BY DEF A, B
      <3>3. d \in B /\ d # c /\ d \in FreeFds
        BY DEF A, B, C
      <3>4. a <= b /\ b <= c /\ c <= d
        BY <2>2, <2>3, <2>4, <3>1, <3>2, <3>3
      <3> QED
        BY <3>1, <3>2, <3>3, <3>4
    <2>7. \A f \in FreeFds :
              /\ ~ (f < a) /\ (f < b => f = a)
              /\ f < c => f \in {a, b}
              /\ f < d => f \in {a, b, c}
      <3> SUFFICES ASSUME NEW f \in FreeFds
                   PROVE  /\ ~ (f < a) /\ (f < b => f = a)
                          /\ f < c => f \in {a, b}
                          /\ f < d => f \in {a, b, c}
        OBVIOUS
      <3>0. a <= f /\ (f = a \/ b <= f)
        BY <2>2, <2>3 DEF A
      <3>1. f \in {a, b} \/ c <= f
        BY <2>4 DEF A, B
      <3>2. f \in {a, b, c} \/ d <= f
        BY <2>5 DEF A, B, C
      <3> QED
        BY <2>6, <3>0, <3>1, <3>2
    <2> DEFINE s == [i \in 1..n |-> IF i = 1 THEN a ELSE IF i = 2 THEN b ELSE IF i = 3 THEN c ELSE d]
    <2>8. /\ s \in [1..n -> FreeFds]
          /\ \A i, j \in 1..n : i < j => s[i] < s[j]
      <3>1. \A i \in 1..n : i \in {1, 2, 3, 4}
        OBVIOUS
      <3> QED
        BY <2>6, <3>1
    <2>9. /\ s[1] = a /\ (n >= 2 => s[2] = b) /\ (n >= 3 => s[3] = c) /\ (n = 4 => s[4] = d)
          /\ 1 \in 1..n /\ (n >= 2 => 2 \in 1..n) /\ (n >= 3 => 3 \in 1..n)
      OBVIOUS
    <2> HIDE DEF s
    <2>10. \A f \in FreeFds : f < s[n] => \E i \in 1..n : s[i] = f
      <3> SUFFICES ASSUME NEW f \in FreeFds, f < s[n] PROVE \E i \in 1..n : s[i] = f
        OBVIOUS
      <3>1. n = 1 \/ n = 2 \/ n = 3 \/ n = 4
        OBVIOUS
      <3>2. n # 1
        BY <2>7, <2>9
      <3>3. n = 2 => f = a
        BY <2>7, <2>9
      <3>4. n = 3 => f \in {a, b}
        BY <2>7, <2>9
      <3>5. n = 4 => f \in {a, b, c}
        BY <2>7, <2>9
      <3> QED
        BY <2>9, <3>1, <3>2, <3>3, <3>4, <3>5
    <2> QED
      BY <2>8, <2>10
  <1>2. Lowest(n) = CHOOSE s \in [1..n -> FreeFds] : Ordered(s)
    BY DEF Lowest
  <1>3. Lowest(n) \in [1..n -> FreeFds] /\ Ordered(Lowest(n))
    BY <1>1, <1>2
  <1>4. \A i, j \in 1..n : i # j => Lowest(n)[i] # Lowest(n)[j]
    <2> SUFFICES ASSUME NEW i \in 1..n, NEW j \in 1..n, i # j
                 PROVE  Lowest(n)[i] # Lowest(n)[j]
      OBVIOUS
    <2>1. Lowest(n)[i] \in Nat /\ Lowest(n)[j] \in Nat
      BY <1>3
    <2>2. i < j \/ j < i
      OBVIOUS
    <2>3. (i < j => Lowest(n)[i] < Lowest(n)[j]) /\ (j < i => Lowest(n)[j] < Lowest(n)[i])
      BY <1>3
    <2> QED
      BY <2>1, <2>2, <2>3
  <1> QED
    BY <1>3, <1>4

\* The first n ends that start() makes, and what opening them does.
SomeEnds(ends, n) ==
    /\ n \in 1..4 /\ ends \in [1..n -> Ends] /\ Len(ends) = n
    /\ \A i, j \in 1..n : i # j => ends[i] # ends[j]
OwnNumbers(p, ends, n) ==
    /\ open' \in [Fds -> EndsOfProcs]
    /\ \A i \in 1..n : /\ Lowest(n)[i] \in Fds /\ Lowest(n)[i] # None
                       /\ open[Lowest(n)[i]] = Closed
                       /\ open'[Lowest(n)[i]] = <<p, ends[i]>>
    /\ \A f \in Fds : (\A i \in 1..n : Lowest(n)[i] # f) => open'[f] = open[f]

\* The ends of a process that starts get numbers of their own.
LEMMA OpensOwn ==
    ASSUME TypeOK, OnceInv, NEW p \in Procs, life[p] = "none",
           NEW n, NEW ends, SomeEnds(ends, n), Opens(p, ends)
    PROVE  OwnNumbers(p, ends, n)
  <1>0. /\ n \in 1..4 /\ ends \in [1..n -> Ends] /\ Len(ends) = n
        /\ \A i, j \in 1..n : i # j => ends[i] # ends[j]
    BY DEF SomeEnds
  <1> DEFINE fd == Lowest(n)
             At(f) == CHOOSE i \in 1..n : fd[i] = f
  <1>1. /\ fd \in [1..n -> FreeFds]
        /\ \A i, j \in 1..n : i # j => fd[i] # fd[j]
    <2>1. FreeFds \in SUBSET Nat
      BY DEF FreeFds, Fds
    <2> QED
      BY <1>0, <2>1, FourFree, LowestIs
  <1>2. open' = [f \in Fds |-> IF \E i \in 1..n : fd[i] = f THEN <<p, ends[At(f)]>> ELSE open[f]]
    <2>1. DOMAIN ends = 1..n
      BY <1>0
    <2> QED
      BY <1>0, <2>1 DEF Opens
  <1> HIDE DEF fd
  <1>3. \A i \in 1..n : At(fd[i]) = i
    BY <1>1
  <1>4. \A i \in 1..n : fd[i] \in Fds /\ fd[i] # None /\ open[fd[i]] = Closed
    BY <1>1 DEF FreeFds, Fds, None
  <1>5. /\ \A i \in 1..n : open'[fd[i]] = <<p, ends[i]>>
        /\ \A f \in Fds : (\A i \in 1..n : fd[i] # f) => open'[f] = open[f]
    BY <1>2, <1>3, <1>4
  <1>6. open' \in [Fds -> EndsOfProcs]
    <2>1. \A i \in 1..n : <<p, ends[i]>> \in EndsOfProcs
      BY <1>0 DEF EndsOfProcs
    <2>2. ASSUME NEW f \in Fds PROVE open'[f] \in EndsOfProcs
      <3>1. CASE \E i \in 1..n : fd[i] = f
        <4>1. PICK i \in 1..n : fd[i] = f
          BY <3>1
        <4>2. open'[f] = <<p, ends[i]>>
          BY <1>5, <4>1
        <4> QED
          BY <2>1, <4>2
      <3>2. CASE \A i \in 1..n : fd[i] # f
        BY <1>5, <3>2 DEF TypeOK
      <3> QED
        BY <3>1, <3>2
    <2>3. open' = [f \in Fds |-> open'[f]]
      BY <1>2
    <2> QED
      BY <2>2, <2>3
  <1> QED
    BY <1>4, <1>5, <1>6 DEF fd, OwnNumbers

\* What is open then is open once.
LEMMA OpensOnce ==
    ASSUME TypeOK, OnceInv, NEW p \in Procs, life[p] = "none", life'[p] # "none",
           \A q \in Procs \ {p} : life'[q] = life[q],
           NEW n, NEW ends, SomeEnds(ends, n), Opens(p, ends)
    PROVE  OnceInv'
  <1>0. OwnNumbers(p, ends, n)
    BY OpensOwn
  <1> DEFINE fd == Lowest(n)
             New == {fd[i] : i \in 1..n}
  <1>1. /\ \A i \in 1..n : open'[fd[i]] = <<p, ends[i]>>
        /\ \A f \in Fds : f \notin New => open'[f] = open[f]
        /\ \A i, j \in 1..n : i # j => ends[i] # ends[j]
    BY <1>0 DEF OwnNumbers, SomeEnds
  <1> HIDE DEF fd
  <1>b. \A f \in Fds : f \in New => \E i \in 1..n : fd[i] = f
    OBVIOUS
  <1> HIDE DEF New
  <1>2. ASSUME NEW f \in Fds, f \in New PROVE open'[f] # Closed /\ open'[f][1] = p
    <2>1. PICK i \in 1..n : fd[i] = f
      BY <1>2, <1>b
    <2>2. open'[f] = <<p, ends[i]>>
      BY <1>1, <2>1
    <2>3. <<p, ends[i]>> # Closed
      BY ProcsAssumption DEF Closed
    <2> QED
      BY <2>2, <2>3
  <1>3. \A f \in Fds : f \notin New /\ open'[f] # Closed =>
            open'[f] = open[f] /\ open'[f][1] \in Procs \ {p} /\ life[open[f][1]] # "none"
    <2> SUFFICES ASSUME NEW f \in Fds, f \notin New, open'[f] # Closed
                 PROVE  /\ open'[f] = open[f] /\ open'[f][1] \in Procs \ {p}
                        /\ life[open[f][1]] # "none"
      OBVIOUS
    <2>1. open'[f] = open[f] /\ open[f] # Closed
      BY <1>1
    <2>2. open[f][1] \in Procs /\ life[open[f][1]] # "none"
      BY <2>1 DEF TypeOK, EndsOfProcs, OnceInv
    <2> QED
      BY <2>1, <2>2
  <1>4. ASSUME NEW f \in Fds, NEW g \in Fds, open'[f] # Closed, open'[g] = open'[f]
        PROVE  g = f
    <2>1. CASE f \in New /\ g \in New
      <3>1. PICK i \in 1..n, j \in 1..n : fd[i] = f /\ fd[j] = g
        BY <2>1, <1>b
      <3>2. open'[f] = <<p, ends[i]>> /\ open'[g] = <<p, ends[j]>>
        BY <1>1, <3>1
      <3>3. ends[i] = ends[j]
        BY <1>4, <3>2
      <3> QED
        BY <1>1, <3>1, <3>3
    <2>2. CASE f \notin New /\ g \notin New
      BY <1>3, <1>4, <2>2 DEF OnceInv
    <2>3. CASE (f \in New /\ g \notin New) \/ (f \notin New /\ g \in New)
      BY <1>2, <1>3, <1>4, <2>3
    <2> QED
      BY <2>1, <2>2, <2>3
  <1>5. \A f \in Fds : open'[f] # Closed => life'[open'[f][1]] # "none"
    <2> SUFFICES ASSUME NEW f \in Fds, open'[f] # Closed PROVE life'[open'[f][1]] # "none"
      OBVIOUS
    <2>1. CASE f \in New
      BY <1>2, <2>1
    <2>2. CASE f \notin New
      BY <1>3, <2>2
    <2> QED
      BY <2>1, <2>2
  <1> QED
    BY <1>4, <1>5 DEF OnceInv

\* The ends of a process that has started are in its Process.
LEMMA OpenedOwn ==
    ASSUME TypeOK, FdInv, NEW p \in Procs, life[p] = "none", life'[p] # "none",
           \A q \in Procs \ {p} : life'[q] = life[q],
           NEW n, NEW ends, SomeEnds(ends, n), Opened(p, ends)
    PROVE  /\ open' \in [Fds -> EndsOfProcs] /\ fields' \in [Procs -> [Ends -> FdOrNone]]
           /\ OwnDescriptors'
           /\ \A q \in Procs \ {p} : fields'[q] = fields[q]
           /\ \A e \in Ends : fields'[p][e] = None <=> \A i \in 1..n : ends[i] # e
  <1>0. OwnNumbers(p, ends, n)
    <2>1. OnceInv /\ Opens(p, ends)
      BY DEF Opened, FdInv
    <2> QED
      BY <2>1, OpensOwn
  <1> DEFINE fd == Lowest(n)
             Of(e) == CHOOSE i \in 1..n : ends[i] = e
  <1>a. /\ n \in 1..4 /\ ends \in [1..n -> Ends] /\ Len(ends) = n
        /\ \A i, j \in 1..n : i # j => ends[i] # ends[j]
    BY DEF SomeEnds
  <1>1. /\ open' \in [Fds -> EndsOfProcs]
        /\ \A i \in 1..n : /\ fd[i] \in Fds /\ fd[i] # None /\ open[fd[i]] = Closed
                           /\ open'[fd[i]] = <<p, ends[i]>>
        /\ \A f \in Fds : (\A i \in 1..n : fd[i] # f) => open'[f] = open[f]
    BY <1>0 DEF OwnNumbers
  <1>2. fields' = [fields EXCEPT ![p] =
               [e \in Ends |-> IF \E i \in 1..n : ends[i] = e THEN fd[Of(e)] ELSE None]]
    <2>1. DOMAIN ends = 1..n
      BY <1>a
    <2> QED
      BY <1>a, <2>1 DEF Opened
  <1> HIDE DEF fd
  <1>3. \A i \in 1..n : Of(ends[i]) = i
    BY <1>a
  <1>4. /\ \A i \in 1..n : fields'[p][ends[i]] = fd[i]
        /\ \A e \in Ends : (\A i \in 1..n : ends[i] # e) => fields'[p][e] = None
        /\ \A q \in Procs \ {p} : fields'[q] = fields[q]
    <2>1. fields'[p] = [e \in Ends |-> IF \E i \in 1..n : ends[i] = e THEN fd[Of(e)] ELSE None]
      BY <1>2 DEF TypeOK
    <2>2. ASSUME NEW i \in 1..n PROVE fields'[p][ends[i]] = fd[i]
      <3>1. ends[i] \in Ends /\ Of(ends[i]) = i
        BY <1>3, <1>a
      <3> QED
        BY <2>1, <3>1
    <2>3. \A e \in Ends : (\A i \in 1..n : ends[i] # e) => fields'[p][e] = None
      BY <2>1
    <2>4. \A q \in Procs \ {p} : fields'[q] = fields[q]
      BY <1>2 DEF TypeOK
    <2> QED
      BY <2>2, <2>3, <2>4
  <1>5. \A i \in 1..n : fd[i] \in Fds /\ fd[i] # None /\ open[fd[i]] = Closed
    BY <1>1
  <1>6. fields' \in [Procs -> [Ends -> FdOrNone]]
    <2>1. \A i \in 1..n : fd[i] \in FdOrNone /\ None \in FdOrNone
      BY <1>5 DEF FdOrNone
    <2>2. None \in FdOrNone
      BY DEF FdOrNone
    <2>3. \A e \in Ends : fields'[p][e] \in FdOrNone
      BY <1>4, <2>1, <2>2
    <2>4. ASSUME NEW q \in Procs, NEW e \in Ends PROVE fields'[q][e] \in FdOrNone
      <3>1. CASE q # p
        BY <1>4, <3>1 DEF TypeOK
      <3> QED
        BY <2>3, <3>1
    <2>5. \A q \in Procs : fields'[q] = [e \in Ends |-> fields'[q][e]]
      BY <1>2 DEF TypeOK
    <2>6. fields' = [q \in Procs |-> fields'[q]]
      BY <1>2 DEF TypeOK
    <2> QED
      BY <2>4, <2>5, <2>6
  <1>7. \A e \in Ends : fields'[p][e] = None <=> \A i \in 1..n : ends[i] # e
    BY <1>4, <1>5
  <1>8. ASSUME NEW q \in Procs, NEW e \in Ends, fields'[q][e] # None
        PROVE  open'[fields'[q][e]] = <<q, e>>
    <2>1. CASE q = p
      <3>1. PICK i \in 1..n : ends[i] = e
        BY <1>7, <1>8, <2>1
      <3> QED
        BY <1>1, <1>4, <2>1, <3>1
    <2>2. CASE q # p
      <3>1. fields[q][e] # None /\ open[fields[q][e]] = <<q, e>> /\ fields[q][e] \in Fds
        BY <1>4, <1>8, <2>2 DEF FdInv, OwnDescriptors, TypeOK, FdOrNone
      <3>2. <<q, e>> # Closed
        BY ProcsAssumption DEF Closed
      <3>3. \A i \in 1..n : fd[i] # fields[q][e]
        BY <1>5, <3>1, <3>2
      <3>4. fields'[q][e] = fields[q][e]
        BY <1>4, <2>2
      <3> QED
        BY <1>1, <3>1, <3>3, <3>4
    <2> QED
      BY <2>1, <2>2
  <1>9. ASSUME NEW f \in Fds, open'[f] # Closed
        PROVE  \/ fields'[open'[f][1]][open'[f][2]] = f
               \/ life'[open'[f][1]] = "lost"
    <2>1. CASE \E i \in 1..n : fd[i] = f
      <3>1. PICK i \in 1..n : fd[i] = f
        BY <2>1
      <3>2. open'[f] = <<p, ends[i]>>
        BY <1>1, <3>1
      <3> QED
        BY <1>4, <3>1, <3>2
    <2>2. CASE \A i \in 1..n : fd[i] # f
      <3>1. open'[f] = open[f] /\ open[f] # Closed
        BY <1>1, <1>9, <2>2
      <3>2. open[f] \in Procs \X Ends /\ life[open[f][1]] # "none"
        BY <3>1 DEF TypeOK, EndsOfProcs, FdInv, OnceInv
      <3>3. fields[open[f][1]][open[f][2]] = f \/ life[open[f][1]] = "lost"
        BY <3>1 DEF FdInv, OwnDescriptors
      <3>4. open[f][1] \in Procs \ {p}
        BY <3>2
      <3> QED
        BY <1>4, <3>1, <3>3, <3>4
    <2> QED
      BY <2>1, <2>2
  <1> QED
    BY <1>1, <1>4, <1>6, <1>7, <1>8, <1>9 DEF OwnDescriptors

\* What is closed is forgotten, and nothing else is.
LEMMA ClosedOwn ==
    ASSUME TypeOK, OwnDescriptors, OnceInv, NEW p \in Procs, NEW ends \in SUBSET Ends,
           CloseFds(HeldBy(p, ends)),
           \/ life' = life
           \/ life[p] # "lost" /\ life' = [life EXCEPT ![p] = "gone"],
           fields' \in [Procs -> [Ends -> FdOrNone]],
           \A q \in Procs, e \in Ends :
               fields'[q][e] = IF q = p /\ e \in ends THEN None ELSE fields[q][e]
    PROVE  open' \in [Fds -> EndsOfProcs] /\ OwnDescriptors' /\ OnceInv'
  <1> DEFINE H == HeldBy(p, ends)
  <1>1. H = {fields[p][e] : e \in ends} \ {None}
    BY DEF HeldBy
  <1>2. /\ open' = [f \in Fds |-> open'[f]]
        /\ \A f \in Fds : open'[f] = IF f \in H THEN Closed ELSE open[f]
    BY DEF CloseFds
  <1>3. open' \in [Fds -> EndsOfProcs]
    BY <1>2 DEF TypeOK, EndsOfProcs
  <1>4. ASSUME NEW q \in Procs, NEW e \in Ends, fields'[q][e] # None
        PROVE  open'[fields'[q][e]] = <<q, e>>
    <2>1. /\ ~ (q = p /\ e \in ends)
          /\ fields'[q][e] = fields[q][e] /\ fields[q][e] \in Fds
          /\ open[fields[q][e]] = <<q, e>>
      BY <1>4 DEF OwnDescriptors, TypeOK, FdOrNone
    <2>2. fields[q][e] \notin H
      <3> SUFFICES ASSUME NEW d \in ends, fields[p][d] = fields[q][e], fields[p][d] # None
                   PROVE  FALSE
        BY <1>1
      <3>1. open[fields[p][d]] = <<p, d>>
        BY DEF OwnDescriptors
      <3> QED
        BY <2>1, <3>1
    <2> QED
      BY <1>2, <2>1, <2>2
  <1>5. ASSUME NEW f \in Fds, open'[f] # Closed
        PROVE  \/ fields'[open'[f][1]][open'[f][2]] = f
               \/ life'[open'[f][1]] = "lost"
    <2>1. f \notin H /\ open'[f] = open[f] /\ open[f] # Closed
      BY <1>2, <1>5
    <2>2. open[f] \in Procs \X Ends
      BY <2>1 DEF TypeOK, EndsOfProcs
    <2>3. CASE fields[open[f][1]][open[f][2]] = f
      <3>1. f # None
        BY DEF Fds, None
      <3>2. ~ (open[f][1] = p /\ open[f][2] \in ends)
        BY <1>1, <2>1, <2>3, <3>1
      <3> QED
        BY <2>1, <2>2, <2>3, <3>2
    <2>4. CASE life[open[f][1]] = "lost"
      BY <2>1, <2>2, <2>4 DEF TypeOK
    <2> QED
      BY <2>1, <2>3, <2>4 DEF OwnDescriptors
  <1>6. OnceInv'
    <2>1. \A f \in Fds : open'[f] # Closed => open'[f] = open[f]
      BY <1>2
    <2>2. \A q \in Procs : life[q] # "none" => life'[q] # "none"
      BY DEF TypeOK
    <2>3. \A f \in Fds : open[f] # Closed => open[f][1] \in Procs
      BY DEF TypeOK, EndsOfProcs
    <2> QED
      BY <2>1, <2>2, <2>3 DEF OnceInv
  <1> QED
    BY <1>3, <1>4, <1>5, <1>6 DEF OwnDescriptors

-----------------------------------------------------------------------------
(* The descriptors.                                                        *)

\* A step that opens and closes nothing.
LEMMA FdUnchanged ==
    ASSUME TypeOK, FdInv, UNCHANGED fdVars,
           \A p \in Procs : \/ life'[p] = life[p]
                            \/ {life[p], life'[p]} \subseteq {"run", "exited"}
    PROVE  FdInv'
  <1>1. \A p \in Procs : /\ Known(p)' <=> Known(p)
                         /\ life[p] = "lost" => life'[p] = "lost"
                         /\ life[p] # "none" => life'[p] # "none"
    BY DEF Known
  <1>2. \A f \in Fds : open[f] # Closed => open[f][1] \in Procs
    BY DEF TypeOK, EndsOfProcs
  <1> QED
    BY <1>1, <1>2 DEF FdInv, OwnDescriptors, FieldsInv, OnceInv, fdVars

\* Those that have been made when something fails are distinct as well.
LEMMA PrefixEnds ==
    ASSUME NEW n \in 1..4, NEW s \in Seq(Ends), Len(s) = n,
           \A i, j \in 1..n : i # j => s[i] # s[j]
    PROVE  /\ SomeEnds(s, n) /\ s = SubSeq(s, 1, n) /\ DOMAIN s = 1..n
           /\ \A k \in 1..n : SomeEnds(SubSeq(s, 1, k), k)
  <1>1. DOMAIN s = 1..n /\ s \in [1..n -> Ends]
    OBVIOUS
  <1>2. SomeEnds(s, n)
    BY <1>1 DEF SomeEnds
  <1>3. s = SubSeq(s, 1, n)
    OBVIOUS
  <1>4. ASSUME NEW k \in 1..n PROVE SomeEnds(SubSeq(s, 1, k), k)
    <2> DEFINE x == SubSeq(s, 1, k)
    <2>1. k \in 1..4 /\ k <= n
      OBVIOUS
    <2>2. x \in Seq(Ends) /\ Len(x) = k /\ \A i \in 1..k : x[i] = s[i]
      OBVIOUS
    <2> HIDE DEF x
    <2>3. x \in [1..k -> Ends]
      BY <2>1, <2>2
    <2>4. \A i, j \in 1..k : i # j => x[i] # x[j]
      BY <2>1, <2>2
    <2>5. SomeEnds(x, k)
      BY <2>1, <2>2, <2>3, <2>4 DEF SomeEnds
    <2> QED
      BY <2>5 DEF x
  <1> QED
    BY <1>1, <1>2, <1>3, <1>4

\* Process::new and start() make the ends in this order.
LEMMA EndsOfIs ==
    ASSUME NEW p \in Procs
    PROVE  \E n \in {3, 4} :
               /\ SomeEnds(EndsOf(p), n) /\ EndsOf(p) = SubSeq(EndsOf(p), 1, n)
               /\ \A k \in 1..n : SomeEnds(SubSeq(EndsOf(p), 1, k), k)
               /\ DOMAIN EndsOf(p) = 1..n
               /\ EndsOf(p)[2] = "stdout" /\ EndsOf(p)[3] = "stderr"
               /\ p \notin Terminals => \A i \in 1..n : EndsOf(p)[i] # "term"
  <1> DEFINE Pipes == <<"stdin", "stdout", "stderr">>
             Tty == <<"stdin", "stdout", "stderr", "term">>
  <1>1. CASE p \in Terminals
    <2>1. EndsOf(p) = Tty
      BY <1>1 DEF EndsOf
    <2>2. /\ Tty \in [1..4 -> Ends] /\ Len(Tty) = 4 /\ Tty \in Seq(Ends)
          /\ \A i, j \in 1..4 : i # j => Tty[i] # Tty[j]
          /\ Tty[2] = "stdout" /\ Tty[3] = "stderr"
      BY DEF Ends
    <2> HIDE DEF Tty
    <2>3. /\ SomeEnds(Tty, 4) /\ Tty = SubSeq(Tty, 1, 4) /\ DOMAIN Tty = 1..4
          /\ \A k \in 1..4 : SomeEnds(SubSeq(Tty, 1, k), k)
      BY <2>2, PrefixEnds
    <2> QED
      BY <1>1, <2>1, <2>2, <2>3
  <1>2. CASE p \notin Terminals
    <2>1. EndsOf(p) = Pipes
      BY <1>2 DEF EndsOf
    <2>2. /\ Pipes \in [1..3 -> Ends] /\ Len(Pipes) = 3 /\ Pipes \in Seq(Ends)
          /\ \A i, j \in 1..3 : i # j => Pipes[i] # Pipes[j]
          /\ Pipes[2] = "stdout" /\ Pipes[3] = "stderr"
          /\ \A i \in 1..3 : Pipes[i] # "term"
      BY DEF Ends
    <2> HIDE DEF Pipes
    <2>3. /\ SomeEnds(Pipes, 3) /\ Pipes = SubSeq(Pipes, 1, 3) /\ DOMAIN Pipes = 1..3
          /\ \A k \in 1..3 : SomeEnds(SubSeq(Pipes, 1, k), k)
      BY <2>2, PrefixEnds
    <2> QED
      BY <2>1, <2>2, <2>3
  <1> QED
    BY <1>1, <1>2

\* start().
LEMMA StartFds ==
    ASSUME TypeOK, FdInv, NEW p \in Procs, Start(p)
    PROVE  /\ open' \in [Fds -> EndsOfProcs] /\ fields' \in [Procs -> [Ends -> FdOrNone]]
           /\ FdInv'
  <1> DEFINE ends == EndsOf(p)
  <1>1. /\ life[p] = "none" /\ life' = [life EXCEPT ![p] = "run"] /\ life \in [Procs -> Lives]
        /\ Opened(p, ends)
    BY DEF Start, TypeOK
  <1>2. /\ \A q \in Procs \ {p} : life'[q] = life[q] /\ (Known(q)' <=> Known(q))
        /\ Known(p)' /\ life'[p] # "none"
    BY <1>1 DEF Known
  <1>3. PICK n \in {3, 4} :
            /\ SomeEnds(ends, n) /\ DOMAIN ends = 1..n
            /\ ends[2] = "stdout" /\ ends[3] = "stderr"
            /\ p \notin Terminals => \A i \in 1..n : ends[i] # "term"
    BY EndsOfIs
  <1> HIDE DEF ends
  <1>5. /\ open' \in [Fds -> EndsOfProcs] /\ fields' \in [Procs -> [Ends -> FdOrNone]]
        /\ OwnDescriptors'
        /\ \A q \in Procs \ {p} : fields'[q] = fields[q]
        /\ \A e \in Ends : fields'[p][e] = None <=> \A i \in 1..n : ends[i] # e
    BY <1>1, <1>2, <1>3, OpenedOwn
  <1>6. OnceInv'
    <2>1. OnceInv /\ Opens(p, ends)
      BY <1>1 DEF FdInv, Opened
    <2> QED
      BY <1>1, <1>2, <1>3, <2>1, OpensOnce
  <1>7. /\ fields'[p]["stdout"] # None /\ fields'[p]["stderr"] # None
        /\ p \notin Terminals => fields'[p]["term"] = None
    BY <1>3, <1>5 DEF Ends
  <1>8. FieldsInv'
    BY <1>2, <1>5, <1>7 DEF FdInv, FieldsInv
  <1> QED
    BY <1>5, <1>6, <1>8 DEF FdInv

\* A start that fails.
LEMMA StartFailsFds ==
    ASSUME TypeOK, FdInv, NEW p \in Procs, StartFails(p)
    PROVE  open' \in [Fds -> EndsOfProcs] /\ FdInv'
  <1>1. /\ life[p] = "none" /\ life' = [life EXCEPT ![p] = "lost"] /\ life \in [Procs -> Lives]
        /\ fields' = fields
        /\ \E n \in DOMAIN EndsOf(p) : Opens(p, SubSeq(EndsOf(p), 1, n))
    BY DEF StartFails, TypeOK
  <1>2. /\ \A q \in Procs \ {p} : life'[q] = life[q] /\ (Known(q)' <=> Known(q))
        /\ ~ Known(p) /\ ~ Known(p)' /\ life'[p] = "lost"
    BY <1>1 DEF Known
  <1>3. PICK m \in {3, 4} :
            /\ DOMAIN EndsOf(p) = 1..m
            /\ \A k \in 1..m : SomeEnds(SubSeq(EndsOf(p), 1, k), k)
    BY EndsOfIs
  <1>4. PICK n \in 1..m : Opens(p, SubSeq(EndsOf(p), 1, n))
    BY <1>1, <1>3
  <1> DEFINE ends == SubSeq(EndsOf(p), 1, n)
  <1>5. SomeEnds(ends, n) /\ Opens(p, ends)
    BY <1>3, <1>4
  <1> HIDE DEF ends
  <1>6. OnceInv
    BY DEF FdInv
  <1>8. OnceInv'
    BY <1>1, <1>2, <1>5, <1>6, OpensOnce
  <1>7. OwnNumbers(p, ends, n)
    BY <1>1, <1>5, <1>6, OpensOwn
  <1>9. /\ open' \in [Fds -> EndsOfProcs]
        /\ \A i \in 1..n : /\ Lowest(n)[i] \in Fds /\ open[Lowest(n)[i]] = Closed
                           /\ open'[Lowest(n)[i]] = <<p, ends[i]>>
        /\ \A f \in Fds : (\A i \in 1..n : Lowest(n)[i] # f) => open'[f] = open[f]
    BY <1>7 DEF OwnNumbers
  <1> DEFINE fd == Lowest(n)
  <1> HIDE DEF fd
  <1>10. /\ \A i \in 1..n : open[fd[i]] = Closed /\ open'[fd[i]] = <<p, ends[i]>>
         /\ \A f \in Fds : (\A i \in 1..n : fd[i] # f) => open'[f] = open[f]
    BY <1>9 DEF fd
  <1>11. ASSUME NEW q \in Procs, NEW e \in Ends, fields'[q][e] # None
         PROVE  open'[fields'[q][e]] = <<q, e>>
    <2>1. open[fields[q][e]] = <<q, e>> /\ fields[q][e] \in Fds /\ <<q, e>> # Closed
      BY <1>1, <1>11, ProcsAssumption DEF FdInv, OwnDescriptors, TypeOK, FdOrNone, Closed
    <2>2. \A i \in 1..n : fd[i] # fields[q][e]
      BY <1>10, <2>1
    <2> QED
      BY <1>1, <1>10, <2>1, <2>2
  <1>12. ASSUME NEW f \in Fds, open'[f] # Closed
         PROVE  \/ fields'[open'[f][1]][open'[f][2]] = f
                \/ life'[open'[f][1]] = "lost"
    <2>1. CASE \E i \in 1..n : fd[i] = f
      BY <1>2, <1>10, <2>1
    <2>2. CASE \A i \in 1..n : fd[i] # f
      <3>1. open'[f] = open[f] /\ open[f] # Closed
        BY <1>10, <1>12, <2>2
      <3>2. open[f][1] \in Procs /\ life[open[f][1]] # "none"
        BY <3>1 DEF TypeOK, EndsOfProcs, FdInv, OnceInv
      <3>3. fields[open[f][1]][open[f][2]] = f \/ life[open[f][1]] = "lost"
        BY <3>1 DEF FdInv, OwnDescriptors
      <3> QED
        BY <1>1, <1>2, <3>1, <3>2, <3>3
    <2> QED
      BY <2>1, <2>2
  <1>13. FieldsInv'
    BY <1>1, <1>2 DEF FdInv, FieldsInv
  <1> QED
    BY <1>8, <1>9, <1>11, <1>12, <1>13 DEF FdInv, OwnDescriptors

\* do_remove_container: the processes in the table are lost, and what they
\* have open with them.
LEMMA RemoveFds ==
    ASSUME TypeOK, FdInv, RemoveContainer
    PROVE  fields' \in [Procs -> [Ends -> FdOrNone]] /\ FdInv'
  <1>1. /\ life' = [p \in Procs |-> IF Known(p) THEN "lost" ELSE life[p]]
        /\ fields' = [p \in Procs |-> IF Known(p) THEN NoFields ELSE fields[p]]
        /\ open' = open
    BY DEF RemoveContainer
  <1>2. NoFields \in [Ends -> FdOrNone] /\ \A e \in Ends : NoFields[e] = None
    BY DEF NoFields, FdOrNone
  <1>3. fields' \in [Procs -> [Ends -> FdOrNone]]
    BY <1>1, <1>2 DEF TypeOK
  <1>4. \A p \in Procs : fields'[p] = NoFields /\ ~ Known(p)'
    BY <1>1 DEF FdInv, FieldsInv, Known
  <1>5. \A p \in Procs, e \in Ends : fields[p][e] # None => Known(p)
    BY <1>2 DEF FdInv, FieldsInv
  <1>6. ASSUME NEW f \in Fds, open[f] # Closed PROVE life'[open[f][1]] = "lost"
    <2>1. open[f] \in Procs \X Ends
      BY <1>6 DEF TypeOK, EndsOfProcs
    <2>3. f # None
      BY DEF Fds, None
    <2>2. Known(open[f][1]) \/ life[open[f][1]] = "lost"
      BY <1>5, <1>6, <2>1, <2>3 DEF FdInv, OwnDescriptors
    <2> QED
      BY <1>1, <2>1, <2>2
  <1>7. OwnDescriptors'
    BY <1>1, <1>2, <1>4, <1>6 DEF OwnDescriptors
  <1>8. OnceInv'
    BY <1>1, <1>6 DEF FdInv, OnceInv
  <1>9. FieldsInv'
    <2>1. \A p \in Procs : p \notin Terminals => fields'[p]["term"] = None
      BY <1>2, <1>4 DEF Ends
    <2> QED
      BY <1>4, <2>1 DEF FieldsInv
  <1> QED
    BY <1>3, <1>7, <1>8, <1>9 DEF FdInv

\* do_wait_process.
LEMMA WaitFds ==
    ASSUME TypeOK, FdInv, NEW p \in Procs, WaitReturns(p)
    PROVE  /\ open' \in [Fds -> EndsOfProcs] /\ fields' \in [Procs -> [Ends -> FdOrNone]]
           /\ FdInv'
  <1>1. /\ CloseFds(HeldBy(p, Ends)) /\ fields' = [fields EXCEPT ![p] = NoFields]
        /\ life' = [life EXCEPT ![p] = "gone"] /\ life \in [Procs -> Lives]
    BY DEF WaitReturns, TypeOK
  <1>2. NoFields \in [Ends -> FdOrNone] /\ \A e \in Ends : NoFields[e] = None
    BY DEF NoFields, FdOrNone
  <1>3. /\ fields' \in [Procs -> [Ends -> FdOrNone]]
        /\ \A q \in Procs, e \in Ends :
              fields'[q][e] = IF q = p /\ e \in Ends THEN None ELSE fields[q][e]
    BY <1>1, <1>2 DEF TypeOK
  <1>4. open' \in [Fds -> EndsOfProcs] /\ OwnDescriptors' /\ OnceInv'
    <2>1. life[p] # "lost"
      BY DEF WaitReturns
    <2> QED
      BY <1>1, <1>3, <2>1, ClosedOwn DEF FdInv
  <1>5. FieldsInv'
    <2>1. /\ fields'[p] = NoFields /\ ~ Known(p)'
          /\ \A q \in Procs \ {p} : fields'[q] = fields[q] /\ (Known(q)' <=> Known(q))
      BY <1>1 DEF Known, TypeOK
    <2> QED
      BY <1>2, <2>1 DEF FdInv, FieldsInv, Ends
  <1> QED
    BY <1>3, <1>4, <1>5 DEF FdInv

\* close_stdin.
LEMMA CloseStdinFds ==
    ASSUME TypeOK, FdInv, NEW w \in Threads, NEW p \in Procs, CloseStdin(w, p)
    PROVE  /\ open' \in [Fds -> EndsOfProcs] /\ fields' \in [Procs -> [Ends -> FdOrNone]]
           /\ FdInv'
  <1>1. /\ CloseFds(HeldBy(p, {"term", "stdin"})) /\ Known(p) /\ life' = life
        /\ fields' = [fields EXCEPT ![p]["term"] = None, ![p]["stdin"] = None]
    BY DEF CloseStdin, processVars
  <1>2. /\ fields' \in [Procs -> [Ends -> FdOrNone]]
        /\ \A q \in Procs, e \in Ends :
              fields'[q][e] = IF q = p /\ e \in {"term", "stdin"} THEN None ELSE fields[q][e]
    BY <1>1 DEF TypeOK, FdOrNone, Ends
  <1>3. open' \in [Fds -> EndsOfProcs] /\ OwnDescriptors' /\ OnceInv'
    <2>1. {"term", "stdin"} \in SUBSET Ends
      BY DEF Ends
    <2> QED
      BY <1>1, <1>2, <2>1, ClosedOwn DEF FdInv
  <1>4. FieldsInv'
    <2>1. \A q \in Procs \ {p} : fields'[q] = fields[q]
      BY <1>1 DEF TypeOK
    <2> QED
      BY <1>1, <1>2, <2>1 DEF FdInv, FieldsInv, Known, Ends
  <1> QED
    BY <1>2, <1>3, <1>4 DEF FdInv

-----------------------------------------------------------------------------
(* Types.                                                                  *)

\* Sequences of bytes are closed under what read and write do.
LEMMA ByteSeqs ==
    /\ <<>> \in Seq(Bytes)
    /\ \A s \in Seq(Bytes), b \in Bytes : Append(s, b) \in Seq(Bytes)
    /\ \A s, t \in Seq(Bytes) : s \o t \in Seq(Bytes)
    /\ \A s \in Seq(Bytes) : s # <<>> => Head(s) \in Bytes /\ Tail(s) \in Seq(Bytes)
  OBVIOUS

\* An idle thread has a job too.
LEMMA NoJobType == NoJob \in Jobs
  BY ByteSeqs DEF NoJob, Jobs, Streams, FdOrNone, EndsOfProcs

\* Nothing is written at first.
LEMMA OutputType == NoOutput \in [Streams -> Seq(Bytes)] /\ NoBytes \in [Streams -> Nat]
  BY ByteSeqs DEF NoOutput, NoBytes

\* What processes do keeps the types.
LEMMA ProcessType ==
    ASSUME TypeOK, FdInv, NEW p \in Procs, Process(p) PROVE TypeOK'
  <1> USE DEF TypeOK, mutexVars, runtimeVars, workerVars, fdVars
  <1>1. CASE Start(p)
    <2>1. open' \in [Fds -> EndsOfProcs] /\ fields' \in [Procs -> [Ends -> FdOrNone]]
      BY <1>1, StartFds
    <2> QED
      BY <1>1, <2>1 DEF Start, Lives
  <1>2. CASE ProcessReads(p)
    <2>1. Append(consumed[p], Head(input[p])) \in Seq(Bytes) /\ Tail(input[p]) \in Seq(Bytes)
      BY <1>2, ByteSeqs DEF ProcessReads
    <2> QED
      BY <1>2, <2>1 DEF ProcessReads
  <1>3. CASE ProcessExits(p)
    BY <1>3 DEF ProcessExits, LeaveHeirs, Lives
  <1>6. CASE StartFails(p)
    <2>1. open' \in [Fds -> EndsOfProcs]
      BY <1>6, StartFailsFds
    <2> QED
      BY <1>6, <2>1 DEF StartFails, Lives
  <1>7. CASE HeirsExit(p)
    BY <1>7 DEF HeirsExit
  <1>4. CASE WaitReturns(p)
    <2>1. open' \in [Fds -> EndsOfProcs] /\ fields' \in [Procs -> [Ends -> FdOrNone]]
      BY <1>4, WaitFds
    <2> QED
      BY <1>4, <2>1, ByteSeqs, OutputType DEF WaitReturns, ForgetHistory, Lives
  <1>5. ASSUME NEW s \in Streams, ProcessWrites(p, s) PROVE TypeOK'
    <2>1. written[p][s] + 1 \in Nat
      OBVIOUS
    <2>2. Byte(p, s, written[p][s] + 1) \in Bytes
      BY <2>1 DEF Byte, Bytes, Streams
    <2>3. Append(output[p][s], Byte(p, s, written[p][s] + 1)) \in Seq(Bytes)
      BY <2>2, ByteSeqs
    <2> QED
      BY <1>5, <2>1, <2>3 DEF ProcessWrites
  <1> QED
    BY <1>1, <1>2, <1>3, <1>4, <1>5, <1>6, <1>7 DEF Process

\* So does a removal.
LEMMA RemoveType == ASSUME TypeOK, FdInv, RemoveContainer PROVE TypeOK'
  <1>1. fields' \in [Procs -> [Ends -> FdOrNone]]
    BY RemoveFds
  <1>2. life' \in [Procs -> Lives] /\ heirs' \in [Procs -> BOOLEAN]
    BY DEF RemoveContainer, LeaveHeirs, TypeOK, Lives
  <1> QED
    BY <1>1, <1>2 DEF RemoveContainer, TypeOK, mutexVars, runtimeVars, workerVars

\* The descriptors that requests take.
LEMMA FdType ==
    ASSUME TypeOK, NEW p \in Procs
    PROVE  /\ StdinFd(p) \in FdOrNone
           /\ \A s \in Streams : StreamFd(p, s) \in FdOrNone
  BY DEF TypeOK, StdinFd, StreamFd, Ends, Streams

\* A reply frees the thread.
LEMMA RepliesType ==
    ASSUME TypeOK, NEW w \in Threads, Replies(w)
    PROVE  wpc' \in [Threads -> Controls] /\ job' \in [Threads -> Jobs]
  BY NoJobType DEF TypeOK, Replies, Controls

\* What a request has in its hands is well typed.
LEMMA JobType ==
    ASSUME TypeOK, NEW w \in Threads
    PROVE  /\ job[w].proc \in Procs \cup {NoProc} /\ job[w].stream \in Streams
           /\ job[w].fd \in FdOrNone /\ job[w].end \in EndsOfProcs
           /\ job[w].left \in Seq(Bytes) /\ job[w].done \in Seq(Bytes)
  BY DEF TypeOK, Jobs

\* The descriptor of a stream stands for it.
LEMMA StreamFdIs ==
    ASSUME TypeOK, FdInv, NEW p \in Procs, Known(p), NEW s \in Streams
    PROVE  /\ StreamFd(p, s) \in Fds
           /\ \/ open[StreamFd(p, s)] = <<p, s>>
              \/ open[StreamFd(p, s)] = <<p, "term">> /\ p \in Terminals
  <1>1. CASE fields[p]["term"] # None
    BY <1>1 DEF StreamFd, FdInv, FieldsInv, OwnDescriptors, TypeOK, FdOrNone, Ends
  <1>2. CASE fields[p]["term"] = None
    BY <1>2 DEF StreamFd, FdInv, FieldsInv, OwnDescriptors, TypeOK, FdOrNone, Ends, Streams
  <1> QED
    BY <1>1, <1>2

\* Who writes has a descriptor of the process it writes to.
LEMMA WritingFd ==
    ASSUME TypeOK, FdInv, NEW w \in Threads, WritingOK(w)
    PROVE  job[w].fd \in Fds /\ open[job[w].fd][1] = job[w].proc
  <1> DEFINE p == job[w].proc
  <1>1. p \in Procs /\ job[w].fd = StdinFd(p) /\ job[w].fd # None
    BY DEF WritingOK
  <1> HIDE DEF p
  <1>2. PICK e \in Ends : job[w].fd = fields[p][e]
    BY <1>1 DEF StdinFd, Ends
  <1>3. fields[p][e] \in Fds /\ open[fields[p][e]] = <<p, e>>
    BY <1>1, <1>2 DEF FdInv, OwnDescriptors, TypeOK, FdOrNone
  <1> QED
    BY <1>2, <1>3 DEF p

\* What a read brings is for the stream of its request.
LEMMA ReadingEnd ==
    ASSUME TypeOK, NEW w \in Threads, ReadingOK(w), ReadReturns(w)
    PROVE  /\ job[w].proc \in Procs /\ job[w].stream \in Streams
           /\ output[job[w].proc][job[w].stream] # <<>>
           /\ got' = [got EXCEPT ![job[w].proc][job[w].stream] =
                         @ \o output[job[w].proc][job[w].stream]]
           /\ output' = [output EXCEPT ![job[w].proc][job[w].stream] = <<>>]
  <1> DEFINE p == job[w].end[1]
             s == IF job[w].end[2] = "term" THEN "stdout" ELSE job[w].end[2]
  <1>1. p = job[w].proc /\ s = job[w].stream
    BY DEF ReadingOK, OnStream, IsStream, Reads, Streams
  <1>2. /\ output[p][s] # <<>>
        /\ got' = [got EXCEPT ![job[w].proc][job[w].stream] = @ \o output[p][s]]
        /\ output' = [output EXCEPT ![p][s] = <<>>]
    BY DEF ReadReturns
  <1> HIDE DEF p, s
  <1>3. job[w].proc \in Procs /\ job[w].stream \in Streams
    BY JobType DEF ReadingOK, OnStream
  <1> QED
    BY <1>1, <1>2, <1>3

\* A request that goes on keeps the types.
LEMMA ContinuesType ==
    ASSUME TypeOK, FdInv, NEW w \in Threads, WorkerOK(w), Continues(w) PROVE TypeOK'
  <1> USE DEF TypeOK, mutexVars, processVars, runtimeVars, fdVars
  <1>1. CASE WriteProceeds(w)
    <2> DEFINE p == job[w].proc
               r == [job[w] EXCEPT !.left = Tail(@), !.done = Append(@, Head(job[w].left))]
    <2>1. p \in Procs /\ job[w].left # <<>> /\ open[job[w].fd][1] = p
      BY <1>1, WritingFd DEF WriteProceeds, WorkerOK, WritingOK
    <2>2. Tail(job[w].left) \in Seq(Bytes) /\ Head(job[w].left) \in Bytes
      BY <2>1, ByteSeqs, JobType
    <2>3. r \in Jobs
      <3>1. Append(job[w].done, Head(job[w].left)) \in Seq(Bytes)
        BY <2>2, ByteSeqs, JobType
      <3> QED
        BY <2>2, <3>1 DEF Jobs
    <2>4. Append(input[p], Head(job[w].left)) \in Seq(Bytes)
      BY <2>1, <2>2, ByteSeqs
    <2>5. job' = [job EXCEPT ![w] = r] /\ input' = [input EXCEPT ![p] = Append(@, Head(job[w].left))]
      BY <1>1, <2>1 DEF WriteProceeds
    <2> HIDE DEF p, r
    <2>6. input' \in [Procs -> Seq(Bytes)] /\ job' \in [Threads -> Jobs]
      BY <2>1, <2>3, <2>4, <2>5
    <2> QED
      BY <1>1, <2>6 DEF WriteProceeds
  <1>2. CASE WriteReturns(w)
    <2>1. sent[job[w].proc] \o job[w].done \in Seq(Bytes)
      BY <1>2, ByteSeqs, JobType DEF WriteReturns, WorkerOK, WritingOK
    <2> QED
      BY <1>2, <2>1, RepliesType DEF WriteReturns
  <1>3. CASE ReadEnters(w)
    <2>1. open[job[w].fd] \in EndsOfProcs /\ None \in FdOrNone
      BY <1>3 DEF ReadEnters, WorkerOK, TakenOK, FdOrNone
    <2>2. [job[w] EXCEPT !.end = open[job[w].fd], !.fd = None] \in Jobs
      BY <2>1 DEF Jobs
    <2>3. job' = [job EXCEPT ![w] = [job[w] EXCEPT !.end = open[job[w].fd], !.fd = None]]
      BY <1>3 DEF ReadEnters
    <2> QED
      BY <1>3, <2>2, <2>3 DEF ReadEnters, Controls
  <1>4. CASE ReadReturns(w)
    <2> DEFINE p == job[w].proc
               s == job[w].stream
    <2>1. /\ p \in Procs /\ s \in Streams
          /\ got' = [got EXCEPT ![p][s] = @ \o output[p][s]]
          /\ output' = [output EXCEPT ![p][s] = <<>>]
      BY <1>4, ReadingEnd DEF WorkerOK, ReadReturns
    <2> HIDE DEF p, s
    <2>2. got[p][s] \o output[p][s] \in Seq(Bytes) /\ <<>> \in Seq(Bytes)
      BY <2>1, ByteSeqs
    <2>3. /\ got' \in [Procs -> [Streams -> Seq(Bytes)]]
          /\ output' \in [Procs -> [Streams -> Seq(Bytes)]]
      BY <2>1, <2>2
    <2> QED
      BY <1>4, <2>3, RepliesType DEF ReadReturns
  <1>5. CASE ReadEnds(w)
    <2>1. eof[job[w].proc] \cup {job[w].stream} \in SUBSET Streams
      BY <1>5, JobType DEF ReadEnds, WorkerOK, ReadingOK, OnStream
    <2> QED
      BY <1>5, <2>1, RepliesType DEF ReadEnds
  <1> QED
    BY <1>1, <1>2, <1>3, <1>4, <1>5 DEF Continues

\* Every step keeps the types.
LEMMA TypeStep == Inv /\ [Next]_vars => TypeOK'
  <1> SUFFICES ASSUME Inv, [Next]_vars PROVE TypeOK'
    OBVIOUS
  <1>1. CASE UNCHANGED vars
    BY <1>1 DEF vars, Inv, TypeOK
  <1>2. ASSUME NEW p \in Procs, Process(p) PROVE TypeOK'
    BY <1>2, ProcessType DEF Inv
  <1>3. ASSUME NEW w \in Threads, Continues(w) PROVE TypeOK'
    BY <1>3, ContinuesType DEF Inv, WorkerInv
  <1>4. ASSUME NEW w \in Threads, NEW p \in Procs, CloseStdin(w, p) PROVE TypeOK'
    <2>1. open' \in [Fds -> EndsOfProcs] /\ fields' \in [Procs -> [Ends -> FdOrNone]]
      BY <1>4, CloseStdinFds DEF Inv
    <2> QED
      BY <1>4, <2>1 DEF CloseStdin, Inv, TypeOK, mutexVars, processVars, runtimeVars, workerVars
  <1>5. ASSUME NEW w \in Threads, NEW p \in Procs, WritePanics(w, p) \/ TtyWinResize(w, p)
        PROVE  TypeOK'
    BY <1>5 DEF WritePanics, TtyWinResize, Panics, Inv, TypeOK, processVars, runtimeVars,
                workerVars, fdVars
  <1>6. ASSUME NEW w \in Threads, NEW p \in Procs, NEW n \in 1..MaxIn[p], WriteBegins(w, p, n)
        PROVE  TypeOK'
    <2> DEFINE r == [NoJob EXCEPT !.proc = p, !.fd = StdinFd(p),
                         !.left = [i \in 1..n |-> Byte(p, "stdin", Len(sent[p]) + i)]]
    <2>1. r \in Jobs
      <3>1. n \in Nat /\ Len(sent[p]) \in Nat
        BY BoundsAssumption DEF Inv, TypeOK
      <3>2. [i \in 1..n |-> Byte(p, "stdin", Len(sent[p]) + i)] \in Seq(Bytes)
        BY <3>1 DEF Byte, Bytes
      <3>3. StdinFd(p) \in FdOrNone
        BY FdType DEF Inv
      <3> QED
        BY <3>2, <3>3, NoJobType DEF Jobs
    <2>2. job' = [job EXCEPT ![w] = r] /\ wpc' = [wpc EXCEPT ![w] = "writing"] /\ lock' = w
      BY <1>6 DEF WriteBegins
    <2> HIDE DEF r
    <2>3. job' \in [Threads -> Jobs] /\ wpc' \in [Threads -> Controls]
      BY <2>1, <2>2 DEF Inv, TypeOK, Controls
    <2> QED
      BY <1>6, <2>2, <2>3 DEF WriteBegins, Inv, TypeOK, processVars, runtimeVars, fdVars
  <1>7. ASSUME NEW w \in Threads, NEW p \in Procs, NEW s \in Streams, ReadTakesFd(w, p, s)
        PROVE  TypeOK'
    <2> DEFINE r == [NoJob EXCEPT !.proc = p, !.stream = s, !.fd = StreamFd(p, s)]
    <2>1. r \in Jobs
      <3>1. StreamFd(p, s) \in FdOrNone
        BY FdType DEF Inv
      <3> QED
        BY <3>1, NoJobType DEF Jobs
    <2>2. job' = [job EXCEPT ![w] = r] /\ wpc' = [wpc EXCEPT ![w] = "taken"]
      BY <1>7 DEF ReadTakesFd
    <2> HIDE DEF r
    <2>3. job' \in [Threads -> Jobs] /\ wpc' \in [Threads -> Controls]
      BY <2>1, <2>2 DEF Inv, TypeOK, Controls
    <2> QED
      BY <1>7, <2>3 DEF ReadTakesFd, Inv, TypeOK, mutexVars, processVars, runtimeVars, fdVars
  <1> QED
    BY <1>1, <1>2, <1>3, <1>4, <1>5, <1>6, <1>7, RemoveType DEF Next, Worker, Inv

\* Every step keeps the descriptors in order.
LEMMA FdStep == Inv /\ [Next]_vars => FdInv'
  <1> SUFFICES ASSUME Inv, [Next]_vars PROVE FdInv'
    OBVIOUS
  <1>1. CASE RemoveContainer \/ \E p \in Procs : Start(p) \/ StartFails(p) \/ WaitReturns(p)
    BY <1>1, StartFds, StartFailsFds, WaitFds, RemoveFds DEF Inv
  <1>2. CASE \E w \in Threads, p \in Procs : CloseStdin(w, p)
    BY <1>2, CloseStdinFds DEF Inv
  <1>3. ASSUME UNCHANGED fdVars, life' = life PROVE FdInv'
    BY <1>3, FdUnchanged DEF Inv, Known
  <1>4. ASSUME NEW p \in Procs, ProcessExits(p) PROVE FdInv'
    <2>1. \A q \in Procs : \/ life'[q] = life[q]
                           \/ {life[q], life'[q]} \subseteq {"run", "exited"}
      BY <1>4 DEF ProcessExits, Inv, TypeOK
    <2> QED
      BY <1>4, <2>1, FdUnchanged DEF ProcessExits, Inv
  <1>5. ASSUME NEW w \in Threads, Continues(w) PROVE FdInv'
    BY <1>3, <1>5 DEF Continues, WriteProceeds, WriteReturns, ReadEnters, ReadReturns, ReadEnds,
                      processVars
  <1>6. ASSUME NEW w \in Threads, NEW p \in Procs,
               \/ WritePanics(w, p) \/ TtyWinResize(w, p)
               \/ \E n \in 1..MaxIn[p] : WriteBegins(w, p, n)
               \/ \E s \in Streams : ReadTakesFd(w, p, s)
        PROVE  FdInv'
    BY <1>3, <1>6 DEF WritePanics, TtyWinResize, WriteBegins, ReadTakesFd, processVars
  <1>7. ASSUME NEW p \in Procs,
               ProcessReads(p) \/ HeirsExit(p) \/ \E s \in Streams : ProcessWrites(p, s)
        PROVE  FdInv'
    BY <1>3, <1>7 DEF ProcessReads, HeirsExit, ProcessWrites
  <1>8. CASE UNCHANGED vars
    BY <1>3, <1>8 DEF vars, fdVars
  <1> QED
    BY <1>1, <1>2, <1>4, <1>5, <1>6, <1>7, <1>8 DEF Next, Process, Worker

-----------------------------------------------------------------------------
(* The requests under way.                                                 *)

\* Opening does not touch what is open.
LEMMA OpensKeeps ==
    ASSUME TypeOK, FdInv, NEW p \in Procs, Start(p) \/ StartFails(p),
           NEW f \in Fds, open[f] # Closed
    PROVE  open'[f] = open[f]
  <1>1. PICK m \in {3, 4} :
            /\ DOMAIN EndsOf(p) = 1..m /\ EndsOf(p) = SubSeq(EndsOf(p), 1, m)
            /\ \A k \in 1..m : SomeEnds(SubSeq(EndsOf(p), 1, k), k)
    BY EndsOfIs
  <1>2. PICK n \in 1..m : Opens(p, SubSeq(EndsOf(p), 1, n))
    <2>1. CASE Start(p)
      <3>1. Opens(p, EndsOf(p)) /\ m \in 1..m
        BY <2>1 DEF Start, Opened
      <3>2. Opens(p, SubSeq(EndsOf(p), 1, m))
        BY <1>1, <3>1
      <3> QED
        BY <3>1, <3>2
    <2>2. CASE StartFails(p)
      BY <1>1, <2>2 DEF StartFails
    <2> QED
      BY <2>1, <2>2
  <1> DEFINE ends == SubSeq(EndsOf(p), 1, n)
  <1>3. SomeEnds(ends, n) /\ Opens(p, ends)
    BY <1>1, <1>2
  <1> HIDE DEF ends
  <1>4. life[p] = "none" /\ OnceInv
    BY DEF Start, StartFails, FdInv
  <1>5. OwnNumbers(p, ends, n)
    BY <1>3, <1>4, OpensOwn
  <1>6. /\ \A i \in 1..n : open[Lowest(n)[i]] = Closed
        /\ \A g \in Fds : (\A i \in 1..n : Lowest(n)[i] # g) => open'[g] = open[g]
    BY <1>5 DEF OwnNumbers
  <1> QED
    BY <1>6

\* Closing some ends of a process touches no other end.
LEMMA ClosesKeep ==
    ASSUME OwnDescriptors, NEW p \in Procs, NEW ends \in SUBSET Ends,
           CloseFds(HeldBy(p, ends)),
           NEW f \in Fds, NEW q, NEW e, open[f] = <<q, e>>, ~ (q = p /\ e \in ends)
    PROVE  open'[f] = open[f]
  <1>1. ASSUME NEW d \in ends, fields[p][d] = f, fields[p][d] # None PROVE FALSE
    <2>1. open[fields[p][d]] = <<p, d>>
      BY <1>1 DEF OwnDescriptors
    <2> QED
      BY <1>1, <2>1
  <1>2. f \notin HeldBy(p, ends)
    BY <1>1 DEF HeldBy
  <1> QED
    BY <1>2 DEF CloseFds

\* A request is not disturbed as long as its descriptor stands for the same.
LEMMA WorkerKeeps ==
    ASSUME NEW w \in Threads, WorkerOK(w), wpc'[w] = wpc[w], job'[w] = job[w],
           wpc[w] \in {"taken", "reading"} =>
               /\ life'[job[w].proc] \in {"run", "exited", "lost"}
               /\ job[w].stream \notin eof'[job[w].proc],
           wpc[w] = "taken" => open'[job[w].fd] = open[job[w].fd],
           wpc[w] = "writing" =>
               /\ life'[job[w].proc] \in {"run", "exited"}
               /\ fields'[job[w].proc] = fields[job[w].proc]
               /\ lock' = lock /\ sent'[job[w].proc] = sent[job[w].proc]
               /\ consumed'[job[w].proc] \o input'[job[w].proc]
                      = consumed[job[w].proc] \o input[job[w].proc]
    PROVE  WorkerOK(w)'
  <1>1. CASE wpc[w] = "taken"
    BY <1>1 DEF WorkerOK, TakenOK, OnStream, IsStream
  <1>2. CASE wpc[w] = "reading"
    BY <1>2 DEF WorkerOK, ReadingOK, OnStream, IsStream
  <1>3. CASE wpc[w] = "writing"
    BY <1>3 DEF WorkerOK, WritingOK, StdinFd, Known
  <1> QED
    BY <1>1, <1>2, <1>3 DEF WorkerOK

\* A byte that is read moves from the pipe to the process.
LEMMA Consumes ==
    ASSUME NEW c \in Seq(Bytes), NEW i \in Seq(Bytes), i # <<>>
    PROVE  Append(c, Head(i)) \o Tail(i) = c \o i
  <1>1. /\ Head(i) \in Bytes /\ Tail(i) \in Seq(Bytes) /\ Append(c, Head(i)) \in Seq(Bytes)
        /\ Append(c, Head(i)) \o Tail(i) \in Seq(Bytes) /\ c \o i \in Seq(Bytes)
    BY ByteSeqs
  <1>2. Len(Append(c, Head(i)) \o Tail(i)) = Len(c \o i)
    BY <1>1
  <1>3. \A k \in 1..Len(c \o i) : (Append(c, Head(i)) \o Tail(i))[k] = (c \o i)[k]
    BY <1>1
  <1> QED
    BY <1>1, <1>2, <1>3, SeqEqual

\* Concatenation is associative.
LEMMA Assoc == \A x, y, z \in Seq(Bytes) : (x \o y) \o z = x \o (y \o z)
  <1> SUFFICES ASSUME NEW x \in Seq(Bytes), NEW y \in Seq(Bytes), NEW z \in Seq(Bytes)
               PROVE  (x \o y) \o z = x \o (y \o z)
    OBVIOUS
  <1> QED
    BY ConcatAssociative

\* A byte appended to what was sent last.
LEMMA AppendOut == \A s, d \in Seq(Bytes), b \in Bytes : s \o Append(d, b) = (s \o d) \o <<b>>
  <1> SUFFICES ASSUME NEW s \in Seq(Bytes), NEW d \in Seq(Bytes), NEW b \in Bytes
               PROVE  s \o Append(d, b) = (s \o d) \o <<b>>
    OBVIOUS
  <1>1. <<b>> \in Seq(Bytes) /\ Append(d, b) = d \o <<b>>
    BY AppendIsConcat
  <1>2. s \o (d \o <<b>>) = (s \o d) \o <<b>>
    BY <1>1, ConcatAssociative
  <1> QED
    BY <1>1, <1>2

\* What the requests under way are about.
LEMMA Requests ==
    ASSUME Inv, NEW w \in Threads
    PROVE  /\ wpc[w] \in {"taken", "reading"} =>
                  /\ job[w].proc \in Procs /\ life[job[w].proc] \in {"run", "exited", "lost"}
                  /\ job[w].stream \in Reads(job[w].proc) \ eof[job[w].proc]
           /\ wpc[w] = "taken" => job[w].fd \in Fds /\ IsStream(w, open[job[w].fd])
           /\ wpc[w] = "writing" =>
                  /\ job[w].proc \in Procs /\ life[job[w].proc] \in {"run", "exited"}
                  /\ lock = w
  BY DEF Inv, WorkerInv, WorkerOK, TakenOK, ReadingOK, WritingOK, OnStream, Known

\* What a thread has taken is open.
LEMMA TakenOpen ==
    ASSUME Inv, NEW w \in Threads, wpc[w] = "taken"
    PROVE  open[job[w].fd] # Closed
  <1>1. \E e \in Streams \cup {"term"} : open[job[w].fd] = <<job[w].proc, e>>
    BY Requests, JobType DEF IsStream, Inv
  <1>2. job[w].proc \in Procs
    BY Requests
  <1> QED
    BY <1>1, <1>2, ProcsAssumption DEF Closed

\* Of the processes.
LEMMA ProcessWorkers ==
    ASSUME Inv, NEW p \in Procs, Process(p) PROVE WorkerInv'
  <1> USE DEF mutexVars, runtimeVars, workerVars, fdVars
  <1>0. UNCHANGED <<lock, wpc, job>>
    BY DEF Process, Start, StartFails, ProcessReads, ProcessWrites, ProcessExits, HeirsExit,
           WaitReturns
  <1> SUFFICES ASSUME NEW w \in Threads PROVE WorkerOK(w)'
    BY <1>0 DEF Inv, WorkerInv, InTurn, LockInv
  <1>a. WorkerOK(w) /\ TypeOK /\ FdInv
    BY DEF Inv, WorkerInv
  <1>b. /\ wpc[w] \in {"taken", "reading"} =>
              /\ job[w].proc \in Procs /\ life[job[w].proc] \in {"run", "exited", "lost"}
              /\ job[w].stream \in Reads(job[w].proc) \ eof[job[w].proc]
        /\ wpc[w] = "writing" =>
              job[w].proc \in Procs /\ life[job[w].proc] \in {"run", "exited"}
    BY Requests
  <1>1. CASE Start(p) \/ StartFails(p)
    <2>1. /\ \A q \in Procs \ {p} : fields'[q] = fields[q] /\ life'[q] = life[q]
          /\ life[p] = "none" /\ UNCHANGED <<sent, eof, consumed, input>>
      BY <1>1, <1>a DEF Start, StartFails, Opened, TypeOK
    <2>2. wpc[w] = "taken" => open'[job[w].fd] = open[job[w].fd]
      BY <1>1, <1>a, Requests, TakenOpen, OpensKeeps
    <2> QED
      BY <1>0, <1>a, <1>b, <2>1, <2>2, WorkerKeeps
  <1>2. CASE ProcessReads(p)
    <2>1. \A q \in Procs : consumed'[q] \o input'[q] = consumed[q] \o input[q]
      BY <1>2, <1>a, Consumes DEF ProcessReads, TypeOK
    <2>2. UNCHANGED <<life, fields, open, sent, eof>>
      BY <1>2 DEF ProcessReads
    <2> QED
      BY <1>0, <1>a, <1>b, <2>1, <2>2, WorkerKeeps
  <1>3. CASE ProcessExits(p) \/ HeirsExit(p)
    <2>1. \A q \in Procs : life'[q] = life[q] \/ {life[q], life'[q]} \subseteq {"run", "exited"}
      BY <1>3, <1>a DEF ProcessExits, HeirsExit, TypeOK
    <2>2. UNCHANGED <<fields, open, sent, eof, consumed, input>>
      BY <1>3 DEF ProcessExits, HeirsExit
    <2> QED
      BY <1>0, <1>a, <1>b, <2>1, <2>2, WorkerKeeps
  <1>4. CASE WaitReturns(p)
    <2>1. wpc[w] # "writing"
      <3>1. lock = Free /\ w # Free
        BY <1>4 DEF WaitReturns, Unlocked, Free, Threads
      <3> QED
        BY <3>1, Requests
    <2>2. wpc[w] \in {"taken", "reading"} => job[w].proc # p
      BY <1>4, <1>b DEF WaitReturns
    <2>3. \A q \in Procs \ {p} : life'[q] = life[q] /\ eof'[q] = eof[q]
      BY <1>4, <1>a DEF WaitReturns, ForgetHistory, TypeOK
    <2>4. wpc[w] = "taken" => open'[job[w].fd] = open[job[w].fd]
      <3> SUFFICES ASSUME wpc[w] = "taken" PROVE open'[job[w].fd] = open[job[w].fd]
        OBVIOUS
      <3>1. job[w].fd \in Fds /\ \E e : open[job[w].fd] = <<job[w].proc, e>>
        BY Requests DEF IsStream
      <3>2. CloseFds(HeldBy(p, Ends)) /\ OwnDescriptors /\ job[w].proc # p
        BY <1>4, <1>a, <2>2 DEF WaitReturns, FdInv
      <3> QED
        BY <3>1, <3>2, ClosesKeep
    <2> QED
      BY <1>0, <1>a, <1>b, <2>1, <2>2, <2>3, <2>4, WorkerKeeps
  <1>5. ASSUME NEW s \in Streams, ProcessWrites(p, s) PROVE WorkerOK(w)'
    <2>1. UNCHANGED <<life, fields, open, sent, eof, consumed, input>>
      BY <1>5 DEF ProcessWrites
    <2> QED
      BY <1>0, <1>a, <1>b, <2>1, WorkerKeeps
  <1> QED
    BY <1>1, <1>2, <1>3, <1>4, <1>5 DEF Process

\* A removal closes nothing under a read, and waits for a write.
LEMMA RemoveWorkers == ASSUME Inv, RemoveContainer PROVE WorkerInv'
  <1> USE DEF mutexVars, runtimeVars, workerVars
  <1>1. UNCHANGED <<lock, wpc, job, open, eof>> /\ lock = Free
    BY DEF RemoveContainer, Unlocked
  <1> SUFFICES ASSUME NEW w \in Threads PROVE WorkerOK(w)'
    BY <1>1 DEF Inv, WorkerInv, InTurn, LockInv
  <1>2. wpc[w] # "writing"
    <2>1. w # Free
      BY DEF Threads, Free
    <2> QED
      BY <1>1, <2>1, Requests
  <1>3. \A p \in Procs : life[p] \in {"run", "exited", "lost"} => life'[p] = "lost"
    BY DEF RemoveContainer, Known
  <1>4. WorkerOK(w)
    BY DEF Inv, WorkerInv
  <1> QED
    BY <1>1, <1>2, <1>3, <1>4, Requests, WorkerKeeps

\* A thread that was idle begins a request; the others go on.
LEMMA BeginsInTurn ==
    ASSUME Inv, NEW w \in Threads, wpc[w] = "idle",
           \A v \in Threads \ {w} : wpc'[v] = wpc[v] /\ job'[v] = job[v],
           wpc'[w] \in {"taken", "reading"} =>
               \A v \in Threads : wpc[v] \in {"taken", "reading"} =>
                   job[v].proc # job'[w].proc \/ job[v].stream # job'[w].stream
    PROVE  InTurn'
  BY DEF Inv, WorkerInv, InTurn

\* A request that goes on, or is answered, is for the stream it was for.
LEMMA ContinuesInTurn ==
    ASSUME Inv, NEW w \in Threads,
           \A v \in Threads \ {w} : wpc'[v] = wpc[v] /\ job'[v] = job[v],
           \/ wpc'[w] \notin {"taken", "reading"}
           \/ /\ wpc[w] \in {"taken", "reading"}
              /\ job'[w].proc = job[w].proc /\ job'[w].stream = job[w].stream
    PROVE  InTurn'
  BY DEF Inv, WorkerInv, InTurn

\* A request that goes on keeps every request in order.
LEMMA ContinuesWorkers ==
    ASSUME Inv, NEW w \in Threads, Continues(w) PROVE WorkerInv'
  <1> USE DEF mutexVars, processVars, runtimeVars, fdVars
  <1> DEFINE p == job[w].proc
             Others == \A v \in Threads \ {w} : wpc'[v] = wpc[v] /\ job'[v] = job[v]
  <1>a. /\ TypeOK /\ FdInv /\ WorkerOK(w) /\ InTurn /\ LockInv
        /\ UNCHANGED <<life, fields, open, consumed>>
    BY DEF Inv, WorkerInv, Continues, WriteProceeds, WriteReturns, ReadEnters, ReadReturns, ReadEnds
  <1>b. \A v \in Threads : WorkerOK(v)
    BY DEF Inv, WorkerInv
  <1>c. \A v \in Threads :
            /\ wpc[v] \in {"taken", "reading"} =>
                  job[v].proc \in Procs /\ life'[job[v].proc] \in {"run", "exited", "lost"}
            /\ wpc[v] = "writing" =>
                  /\ job[v].proc \in Procs /\ life'[job[v].proc] \in {"run", "exited"}
                  /\ fields'[job[v].proc] = fields[job[v].proc]
            /\ open'[job[v].fd] = open[job[v].fd]
    BY <1>a, Requests
  <1>d. \A v \in Threads : wpc[v] \in {"taken", "reading"} => job[v].stream \notin eof[job[v].proc]
    BY Requests
  <1>e. \A v \in Threads : wpc[v] = "writing" => lock = v
    BY Requests
  <1>1. CASE WriteProceeds(w)
    <2> DEFINE r == [job[w] EXCEPT !.left = Tail(@), !.done = Append(@, Head(job[w].left))]
    <2>1. /\ wpc[w] = "writing" /\ UNCHANGED <<lock, wpc, sent, eof>> /\ WritingOK(w)
          /\ p \in Procs /\ job[w].left # <<>> /\ open[job[w].fd][1] = p
      BY <1>1, <1>a, WritingFd DEF WriteProceeds, WorkerOK, WritingOK
    <2>2. /\ job' = [job EXCEPT ![w] = r]
          /\ input' = [input EXCEPT ![p] = Append(@, Head(job[w].left))]
      BY <1>1, <2>1 DEF WriteProceeds
    <2>3. /\ r.proc = p /\ r.fd = job[w].fd /\ r.stream = job[w].stream
          /\ r.done = Append(job[w].done, Head(job[w].left))
      BY <1>a, JobType DEF Jobs, TypeOK
    <2>4. Others /\ job'[w] = r
      BY <2>1, <2>2, <1>a DEF TypeOK
    <2>5. sent[p] \o r.done = consumed[p] \o input'[p]
      <3>1. /\ sent[p] \in Seq(Bytes) /\ job[w].done \in Seq(Bytes) /\ consumed[p] \in Seq(Bytes)
            /\ input[p] \in Seq(Bytes) /\ Head(job[w].left) \in Bytes
        BY <1>a, <2>1, JobType, ByteSeqs DEF TypeOK
      <3>2. sent[p] \o job[w].done = consumed[p] \o input[p]
        BY <2>1 DEF WritingOK
      <3>3. input'[p] = Append(input[p], Head(job[w].left))
        BY <2>1, <2>2, <1>a DEF TypeOK
      <3>4. sent[p] \o Append(job[w].done, Head(job[w].left))
                = (sent[p] \o job[w].done) \o <<Head(job[w].left)>>
        BY <3>1, AppendOut
      <3>5. consumed[p] \o Append(input[p], Head(job[w].left))
                = (consumed[p] \o input[p]) \o <<Head(job[w].left)>>
        BY <3>1, AppendOut
      <3> HIDE DEF r
      <3> QED
        BY <2>3, <3>2, <3>3, <3>4, <3>5
    <2> HIDE DEF r
    <2>6. WorkerOK(w)'
      BY <1>a, <1>c, <2>1, <2>3, <2>4, <2>5 DEF WorkerOK, WritingOK, StdinFd, Known
    <2>7. ASSUME NEW v \in Threads \ {w} PROVE WorkerOK(v)'
      BY <1>b, <1>c, <1>d, <1>e, <2>1, <2>4, <2>7, WorkerKeeps
    <2>8. InTurn'
      BY <2>1, <2>4, ContinuesInTurn
    <2> QED
      BY <1>a, <2>1, <2>6, <2>7, <2>8 DEF WorkerInv, LockInv
  <1>2. CASE WriteReturns(w)
    <2>1. /\ wpc[w] = "writing" /\ UNCHANGED <<input, eof>> /\ lock' = Free /\ Others
          /\ wpc'[w] = "idle"
      BY <1>2, <1>a DEF WriteReturns, Replies, TypeOK
    <2>2. \A v \in Threads \ {w} : wpc[v] # "writing"
      BY <1>e, <2>1
    <2>3. ASSUME NEW v \in Threads \ {w} PROVE WorkerOK(v)'
      BY <1>b, <1>c, <1>d, <2>1, <2>2, <2>3, WorkerKeeps
    <2>4. InTurn'
      BY <2>1, ContinuesInTurn
    <2>5. LockInv'
      BY <2>1 DEF LockInv, Free, Threads
    <2> QED
      BY <2>1, <2>3, <2>4, <2>5 DEF WorkerInv, WorkerOK
  <1>3. CASE ReadEnters(w)
    <2>1. /\ wpc[w] = "taken" /\ wpc'[w] = "reading" /\ UNCHANGED <<lock, sent, eof, input>>
          /\ Others /\ TakenOK(w)
      BY <1>3, <1>a DEF ReadEnters, TypeOK, WorkerOK
    <2>2. job'[w].proc = p /\ job'[w].stream = job[w].stream /\ job'[w].end = open[job[w].fd]
      BY <1>3, <1>a DEF ReadEnters, TypeOK, Jobs
    <2>3. WorkerOK(w)'
      BY <1>a, <2>1, <2>2 DEF WorkerOK, TakenOK, ReadingOK, OnStream, IsStream
    <2>4. ASSUME NEW v \in Threads \ {w} PROVE WorkerOK(v)'
      BY <1>a, <1>b, <1>c, <1>d, <2>1, <2>4, WorkerKeeps
    <2>5. InTurn'
      BY <2>1, <2>2, ContinuesInTurn
    <2>6. LockInv'
      BY <1>a, <2>1 DEF LockInv
    <2> QED
      BY <2>3, <2>4, <2>5, <2>6 DEF WorkerInv
  <1>4. CASE ReadReturns(w) \/ ReadEnds(w)
    <2>1. /\ wpc[w] = "reading" /\ wpc'[w] = "idle" /\ UNCHANGED <<lock, sent, input>> /\ Others
      BY <1>4, <1>a DEF ReadReturns, ReadEnds, Replies, TypeOK
    <2>2. \A v \in Threads \ {w} :
              wpc[v] \in {"taken", "reading"} => job[v].stream \notin eof'[job[v].proc]
      <3> SUFFICES ASSUME NEW v \in Threads \ {w}, wpc[v] \in {"taken", "reading"}
                   PROVE  job[v].stream \notin eof'[job[v].proc]
        OBVIOUS
      <3>1. job[v].stream \notin eof[job[v].proc] /\ job[v].proc \in Procs /\ p \in Procs
        BY <1>c, <1>d, <2>1
      <3>2. job[v].proc # p \/ job[v].stream # job[w].stream
        BY <1>a, <2>1 DEF InTurn
      <3>3. \/ eof' = eof
            \/ eof' = [eof EXCEPT ![p] = @ \cup {job[w].stream}]
        BY <1>4 DEF ReadReturns, ReadEnds
      <3>4. eof \in [Procs -> SUBSET Streams]
        BY <1>a DEF TypeOK
      <3> HIDE DEF p
      <3> QED
        BY <3>1, <3>2, <3>3, <3>4
    <2>3. ASSUME NEW v \in Threads \ {w} PROVE WorkerOK(v)'
      BY <1>a, <1>b, <1>c, <2>1, <2>2, <2>3, WorkerKeeps
    <2>4. InTurn'
      BY <2>1, ContinuesInTurn
    <2>5. LockInv'
      BY <1>a, <2>1 DEF LockInv
    <2> QED
      BY <2>1, <2>3, <2>4, <2>5 DEF WorkerInv, WorkerOK
  <1> QED
    BY <1>1, <1>2, <1>3, <1>4 DEF Continues

\* Requests that begin, or are over at once.
LEMMA BeginsWorkers ==
    ASSUME Inv, NEW w \in Threads, NEW p \in Procs,
           \/ WritePanics(w, p) \/ CloseStdin(w, p) \/ TtyWinResize(w, p)
           \/ \E n \in 1..MaxIn[p] : WriteBegins(w, p, n)
           \/ \E s \in Streams : ReadTakesFd(w, p, s)
    PROVE  WorkerInv'
  <1> USE DEF mutexVars, processVars, runtimeVars, workerVars, fdVars
  <1> DEFINE Others == \A v \in Threads \ {w} : wpc'[v] = wpc[v] /\ job'[v] = job[v]
  <1>a. TypeOK /\ FdInv /\ InTurn /\ LockInv
    BY DEF Inv, WorkerInv
  <1>b. \A v \in Threads : WorkerOK(v)
    BY DEF Inv, WorkerInv
  <1>c. \A v \in Threads : wpc[v] \in {"taken", "reading"} =>
            /\ job[v].proc \in Procs /\ life[job[v].proc] \in {"run", "exited", "lost"}
            /\ job[v].stream \in Reads(job[v].proc) \ eof[job[v].proc]
    BY Requests
  <1>e. lock = Free /\ (\A v \in Threads : v # Free /\ wpc[v] # "writing")
    <2>1. lock = Free
      BY DEF WritePanics, CloseStdin, TtyWinResize, WriteBegins, ReadTakesFd, Unlocked
    <2>2. \A v \in Threads : v # Free
      BY DEF Free, Threads
    <2> QED
      BY <1>b, <2>1, <2>2 DEF WorkerOK, WritingOK
  <1>1. CASE WritePanics(w, p) \/ TtyWinResize(w, p)
    <2>1. UNCHANGED <<lock, wpc, job, life, fields, open, eof, sent, consumed, input>>
      BY <1>1 DEF WritePanics, TtyWinResize, Panics
    <2>2. ASSUME NEW v \in Threads PROVE WorkerOK(v)'
      <3>1. /\ WorkerOK(v) /\ wpc'[v] = wpc[v] /\ job'[v] = job[v] /\ wpc[v] # "writing"
            /\ open'[job[v].fd] = open[job[v].fd]
            /\ wpc[v] \in {"taken", "reading"} =>
                   /\ life'[job[v].proc] \in {"run", "exited", "lost"}
                   /\ job[v].stream \notin eof'[job[v].proc]
        BY <1>b, <1>c, <1>e, <2>1
      <3> QED
        BY <3>1, WorkerKeeps
    <2> QED
      BY <1>a, <2>1, <2>2 DEF WorkerInv, InTurn, LockInv
  <1>2. CASE CloseStdin(w, p)
    <2>1. /\ UNCHANGED <<lock, wpc, job, life, eof, sent, consumed, input>>
          /\ p \in Terminals => ReadsInTurn(p, "stdout")
          /\ fields' = [fields EXCEPT ![p]["term"] = None, ![p]["stdin"] = None]
      BY <1>2 DEF CloseStdin
    <2>2. ASSUME NEW v \in Threads PROVE WorkerOK(v)'
      <3>1. CASE wpc[v] \notin {"taken", "reading"}
        BY <1>b, <1>e, <2>1, <3>1 DEF WorkerOK
      <3>2. CASE wpc[v] \in {"taken", "reading"}
        <4>1. wpc[v] = "taken" => open'[job[v].fd] = open[job[v].fd]
          <5> SUFFICES ASSUME wpc[v] = "taken" PROVE open'[job[v].fd] = open[job[v].fd]
            OBVIOUS
          <5>1. job[v].fd \in Fds /\ IsStream(v, open[job[v].fd])
            BY Requests
          <5>2. job[v].proc = p => p \notin Terminals /\ job[v].stream \in Streams
            BY <1>c, <2>1, JobType, <1>a DEF ReadsInTurn, Reads
          <5>3. \E e : open[job[v].fd] = <<job[v].proc, e>>
                      /\ ~ (job[v].proc = p /\ e \in {"term", "stdin"})
            BY <5>1, <5>2 DEF IsStream, Streams
          <5>4. CloseFds(HeldBy(p, {"term", "stdin"})) /\ OwnDescriptors
                /\ {"term", "stdin"} \in SUBSET Ends
            BY <1>2, <1>a DEF CloseStdin, FdInv, Ends
          <5> QED
            BY <5>1, <5>3, <5>4, ClosesKeep
        <4> QED
          BY <1>b, <1>c, <2>1, <3>2, <4>1, WorkerKeeps
      <3> QED
        BY <3>1, <3>2
    <2> QED
      BY <1>a, <2>1, <2>2 DEF WorkerInv, InTurn, LockInv
  <1>3. ASSUME NEW n \in 1..MaxIn[p], WriteBegins(w, p, n) PROVE WorkerInv'
    <2>1. /\ wpc[w] = "idle" /\ wpc'[w] = "writing" /\ Others /\ lock' = w
          /\ Known(p) /\ StdinFd(p) # None
          /\ UNCHANGED <<life, fields, open, eof, sent, consumed, input>>
          /\ job'[w].proc = p /\ job'[w].fd = StdinFd(p) /\ job'[w].done = <<>>
      BY <1>3, <1>a DEF WriteBegins, TypeOK, Idle, NoJob
    <2>2. sent[p] \o <<>> = consumed[p] \o input[p]
      <3>1. sent[p] = consumed[p] \o input[p] /\ sent[p] \in Seq(Bytes)
        BY <1>a, <1>e DEF Inv, InputExact, TypeOK
      <3> QED
        BY <3>1, ConcatEmptySeq
    <2>3. WorkerOK(w)'
      BY <2>1, <2>2 DEF WorkerOK, WritingOK, StdinFd, Known
    <2>4. ASSUME NEW v \in Threads \ {w} PROVE WorkerOK(v)'
      BY <1>b, <1>c, <1>e, <2>1, <2>4, WorkerKeeps
    <2>5. InTurn'
      BY <2>1, BeginsInTurn
    <2> QED
      BY <2>1, <2>3, <2>4, <2>5 DEF WorkerInv, LockInv
  <1>4. ASSUME NEW s \in Streams, ReadTakesFd(w, p, s) PROVE WorkerInv'
    <2>1. /\ wpc[w] = "idle" /\ wpc'[w] = "taken" /\ Others
          /\ Known(p) /\ s \in Reads(p) \ eof[p] /\ ReadsInTurn(p, s)
          /\ UNCHANGED <<lock, life, fields, open, eof, sent, consumed, input>>
          /\ job'[w].proc = p /\ job'[w].stream = s /\ job'[w].fd = StreamFd(p, s)
      BY <1>4, <1>a DEF ReadTakesFd, TypeOK, Idle, NoJob
    <2>2. WorkerOK(w)'
      <3>1. s \in Streams /\ Known(p) /\ TypeOK /\ FdInv
        BY <1>a, <2>1
      <3>2. StreamFd(p, s) \in Fds /\ (open[StreamFd(p, s)] = <<p, s>>
                \/ (open[StreamFd(p, s)] = <<p, "term">> /\ p \in Terminals))
        BY <3>1, StreamFdIs
      <3> QED
        BY <2>1, <3>2 DEF WorkerOK, TakenOK, OnStream, IsStream, Known
    <2>3. ASSUME NEW v \in Threads \ {w} PROVE WorkerOK(v)'
      BY <1>b, <1>c, <1>e, <2>1, <2>3, WorkerKeeps
    <2>4. InTurn'
      BY <2>1, BeginsInTurn DEF ReadsInTurn
    <2> QED
      BY <1>e, <2>1, <2>2, <2>3, <2>4 DEF WorkerInv, LockInv
  <1> QED
    BY <1>1, <1>2, <1>3, <1>4

\* So does every step.
LEMMA WorkerStep == Inv /\ [Next]_vars => WorkerInv'
  <1>1. ASSUME Inv, UNCHANGED vars PROVE WorkerInv'
    BY <1>1
    DEF vars, Inv, WorkerInv, WorkerOK, TakenOK, ReadingOK, WritingOK, OnStream, IsStream,
        StdinFd, Known, InTurn, LockInv
  <1> QED
    BY <1>1, ProcessWorkers, RemoveWorkers, ContinuesWorkers, BeginsWorkers DEF Next, Worker

-----------------------------------------------------------------------------
(* Input.                                                                  *)

\* A step that writes nothing keeps the input exact.
LEMMA InputKeeps ==
    ASSUME Inv, UNCHANGED <<lock, sent>>,
           \A p \in Procs : consumed'[p] \o input'[p] = consumed[p] \o input[p],
           \A w \in Threads : lock = w => job'[w].proc = job[w].proc
    PROVE  InputExact'
  BY DEF Inv, InputExact

\* So does every step.
LEMMA InputStep == Inv /\ [Next]_vars => InputExact'
  <1> SUFFICES ASSUME Inv, [Next]_vars PROVE InputExact'
    OBVIOUS
  <1> USE DEF mutexVars, processVars, runtimeVars, workerVars, fdVars
  <1>a. TypeOK /\ FdInv /\ LockInv /\ (\A w \in Threads : WorkerOK(w) /\ w # Free)
    BY DEF Inv, WorkerInv, Threads, Free
  <1>0. ASSUME UNCHANGED <<lock, job, sent, input, consumed>> PROVE InputExact'
    BY <1>0, InputKeeps
  <1>1. ASSUME NEW p \in Procs, Process(p) PROVE InputExact'
    <2>1. CASE ProcessReads(p)
      <3>1. \A q \in Procs : consumed'[q] \o input'[q] = consumed[q] \o input[q]
        BY <2>1, <1>a, Consumes DEF ProcessReads, TypeOK
      <3> QED
        BY <2>1, <3>1, InputKeeps DEF ProcessReads
    <2>2. CASE WaitReturns(p)
      <3>1. /\ UNCHANGED <<lock, job>> /\ sent'[p] = <<>> /\ consumed'[p] = <<>> /\ input'[p] = <<>>
            /\ \A q \in Procs \ {p} : sent'[q] = sent[q] /\ consumed'[q] = consumed[q]
                                      /\ input'[q] = input[q]
        BY <2>2, <1>a DEF WaitReturns, ForgetHistory, TypeOK
      <3>2. <<>> \o <<>> = <<>>
        OBVIOUS
      <3> QED
        BY <3>1, <3>2 DEF Inv, InputExact
    <2>3. CASE \/ Start(p) \/ StartFails(p) \/ ProcessExits(p) \/ HeirsExit(p)
               \/ \E s \in Streams : ProcessWrites(p, s)
      BY <1>0, <2>3 DEF Start, StartFails, ProcessExits, HeirsExit, ProcessWrites
    <2> QED
      BY <1>1, <2>1, <2>2, <2>3 DEF Process
  <1>2. ASSUME NEW w \in Threads, WriteProceeds(w) PROVE InputExact'
    <2>1. /\ wpc[w] = "writing" /\ UNCHANGED <<lock, sent, consumed>>
          /\ lock = w /\ job[w].proc \in Procs
      BY <1>2, <1>a DEF WriteProceeds, WorkerOK, WritingOK
    <2>2. \A q \in Procs : q # job[w].proc => input'[q] = input[q]
      <3>1. open[job[w].fd][1] = job[w].proc
        BY <1>a, <2>1, WritingFd DEF WorkerOK
      <3> QED
        BY <1>2, <1>a, <3>1 DEF WriteProceeds, TypeOK
    <2>3. job'[w].proc = job[w].proc
      BY <1>2, <1>a DEF WriteProceeds, TypeOK, Jobs
    <2> QED
      BY <2>1, <2>2, <2>3 DEF Inv, InputExact
  <1>3. ASSUME NEW w \in Threads, WriteReturns(w) PROVE InputExact'
    <2>1. /\ wpc[w] = "writing" /\ UNCHANGED <<input, consumed>> /\ lock = w
          /\ job[w].proc \in Procs
          /\ sent[job[w].proc] \o job[w].done = consumed[job[w].proc] \o input[job[w].proc]
          /\ sent' = [sent EXCEPT ![job[w].proc] = @ \o job[w].done]
      BY <1>3, <1>a DEF WriteReturns, WorkerOK, WritingOK
    <2> QED
      BY <1>a, <2>1 DEF Inv, InputExact, TypeOK
  <1>4. ASSUME NEW w \in Threads, ReadEnters(w) \/ ReadReturns(w) \/ ReadEnds(w)
        PROVE  InputExact'
    <2>1. /\ wpc[w] \in {"taken", "reading"} /\ UNCHANGED <<lock, sent, input, consumed>>
          /\ \A v \in Threads \ {w} : job'[v] = job[v]
      BY <1>4, <1>a DEF ReadEnters, ReadReturns, ReadEnds, Replies, TypeOK
    <2>2. lock # w
      BY <1>a, <2>1 DEF LockInv
    <2> QED
      BY <2>1, <2>2, InputKeeps
  <1>5. ASSUME NEW w \in Threads, NEW p \in Procs,
               WritePanics(w, p) \/ TtyWinResize(w, p) \/ CloseStdin(w, p)
        PROVE  InputExact'
    BY <1>0, <1>5 DEF WritePanics, TtyWinResize, CloseStdin, Panics
  <1>6. ASSUME NEW w \in Threads, NEW p \in Procs, NEW s \in Streams, ReadTakesFd(w, p, s)
        PROVE  InputExact'
    <2>1. lock = Free /\ UNCHANGED <<lock, sent, input, consumed>>
      BY <1>6 DEF ReadTakesFd, Unlocked
    <2> QED
      BY <1>a, <2>1, InputKeeps
  <1>7. ASSUME NEW w \in Threads, NEW p \in Procs, NEW n \in 1..MaxIn[p], WriteBegins(w, p, n)
        PROVE  InputExact'
    <2>1. lock = Free /\ UNCHANGED <<sent, input, consumed>>
      BY <1>7 DEF WriteBegins, Unlocked
    <2>2. \A q \in Procs : sent[q] = consumed[q] \o input[q]
      BY <1>a, <2>1 DEF Inv, InputExact
    <2> QED
      BY <2>1, <2>2 DEF InputExact
  <1>8. CASE UNCHANGED vars \/ RemoveContainer
    BY <1>0, <1>8 DEF vars, RemoveContainer
  <1> QED
    BY <1>1, <1>2, <1>3, <1>4, <1>5, <1>6, <1>7, <1>8 DEF Next, Worker, Continues

-----------------------------------------------------------------------------
(* Output.                                                                 *)

Bytewise(p, s, n) == [i \in 1..n |-> Byte(p, s, i)]

\* One byte more of the output of a process.
LEMMA WholeGrows ==
    ASSUME NEW p \in Procs, NEW s \in Streams, NEW n \in Nat
    PROVE  /\ Bytewise(p, s, n) \in Seq(Bytes) /\ Byte(p, s, n + 1) \in Bytes
           /\ Bytewise(p, s, n + 1) = Bytewise(p, s, n) \o <<Byte(p, s, n + 1)>>
  <1>1. \A i \in Nat : Byte(p, s, i) \in Bytes
    BY DEF Byte, Bytes, Streams
  <1>2. \A m \in Nat : /\ Bytewise(p, s, m) \in Seq(Bytes)
                       /\ Len(Bytewise(p, s, m)) = m
                       /\ \A i \in 1..m : Bytewise(p, s, m)[i] = Byte(p, s, i)
    BY <1>1 DEF Bytewise
  <1> DEFINE b == Byte(p, s, n + 1)
             l == Bytewise(p, s, n)
             r == Bytewise(p, s, n + 1)
  <1>3. /\ l \in Seq(Bytes) /\ Len(l) = n /\ r \in Seq(Bytes) /\ Len(r) = n + 1 /\ b \in Bytes
        /\ \A i \in 1..n : r[i] = l[i]
        /\ r[n + 1] = b
    BY <1>1, <1>2
  <1> HIDE DEF b, l, r
  <1>4. l \o <<b>> \in Seq(Bytes) /\ Len(l \o <<b>>) = n + 1
    BY <1>3
  <1>5. \A i \in 1..(n + 1) : (l \o <<b>>)[i] = IF i <= n THEN l[i] ELSE b
    BY <1>3
  <1>6. \A i \in 1..(n + 1) : r[i] = (l \o <<b>>)[i]
    BY <1>3, <1>5
  <1>7. r = l \o <<b>>
    BY <1>3, <1>4, <1>6, SeqEqual
  <1> QED
    BY <1>3, <1>7 DEF b, l, r

\* A step that reads and writes no output.
LEMMA StreamKeeps ==
    ASSUME Inv, UNCHANGED <<got, output, written>>,
           \A p \in Procs, s \in Streams :
               /\ s \in eof'[p] /\ p \notin Terminals => ~ Held(p)' /\ output[p][s] = <<>>
               /\ life'[p] = "none" => eof'[p] = {} /\ ~ heirs'[p]
    PROVE  StreamInv'
  BY DEF Inv, StreamInv, Whole

\* What processes do keeps the output exact.
LEMMA ProcessStreams ==
    ASSUME Inv, NEW p \in Procs, Process(p) PROVE StreamInv'
  <1> USE DEF mutexVars, runtimeVars, workerVars, fdVars
  <1>a. TypeOK /\ StreamInv
    BY DEF Inv
  <1>1. CASE \/ Start(p) \/ StartFails(p) \/ ProcessExits(p) \/ HeirsExit(p)
             \/ ProcessReads(p)
    <2>1. /\ UNCHANGED <<got, output, written, eof>>
          /\ \A q \in Procs : /\ Held(q)' => eof[q] = {} \/ Held(q)
                              /\ life'[q] = "none" => life[q] = "none" /\ (heirs'[q] => heirs[q])
      <3>1. CASE Start(p) \/ StartFails(p)
        BY <1>a, <3>1 DEF Start, StartFails, StreamInv, TypeOK, Streams, Held
      <3>2. CASE ProcessExits(p)
        BY <1>a, <3>2 DEF ProcessExits, LeaveHeirs, TypeOK, Held
      <3>3. CASE HeirsExit(p) \/ ProcessReads(p)
        BY <1>a, <3>3 DEF HeirsExit, ProcessReads, TypeOK, Held
      <3> QED
        BY <1>1, <3>1, <3>2, <3>3 DEF Start, StartFails, ProcessExits, HeirsExit, ProcessReads
    <2> QED
      BY <1>a, <2>1, StreamKeeps DEF StreamInv
  <1>2. ASSUME NEW s \in Streams, ProcessWrites(p, s) PROVE StreamInv'
    <2> DEFINE n == written[p][s]
               b == Byte(p, s, n + 1)
    <2>1. /\ Held(p) /\ UNCHANGED <<life, heirs, got, eof>>
          /\ written' = [written EXCEPT ![p][s] = n + 1]
          /\ output' = [output EXCEPT ![p][s] = Append(@, b)]
      BY <1>2, <1>a DEF ProcessWrites, TypeOK
    <2>2. n \in Nat /\ output[p][s] \in Seq(Bytes) /\ got[p][s] \in Seq(Bytes)
      BY <1>a DEF TypeOK
    <2>3. got[p][s] \o output[p][s] = Bytewise(p, s, n)
      BY <1>a DEF StreamInv, Whole, Bytewise
    <2>4. b \in Bytes /\ Bytewise(p, s, n + 1) = Bytewise(p, s, n) \o <<b>>
      BY <2>2, WholeGrows
    <2> HIDE DEF n, b
    <2>5. got[p][s] \o Append(output[p][s], b) = (got[p][s] \o output[p][s]) \o <<b>>
      BY <2>2, <2>4, AppendOut
    <2>6. got'[p][s] \o output'[p][s] = Bytewise(p, s, n + 1) /\ written'[p][s] = n + 1
      BY <1>a, <2>1, <2>3, <2>4, <2>5 DEF TypeOK
    <2>7. Whole(p, s)' = Bytewise(p, s, n + 1)
      BY <2>6 DEF Whole, Bytewise
    <2>8. ASSUME NEW q \in Procs, NEW t \in Streams, q # p \/ t # s
          PROVE  /\ got'[q][t] \o output'[q][t] = Whole(q, t)'
                 /\ output'[q][t] = output[q][t]
      <3>1. output'[q][t] = output[q][t] /\ written'[q][t] = written[q][t]
        BY <1>a, <2>1, <2>8 DEF TypeOK
      <3> QED
        BY <1>a, <2>1, <3>1 DEF StreamInv, Whole
    <2>9. p \notin Terminals => s \notin eof[p]
      BY <1>a, <2>1 DEF StreamInv
    <2>10. \A q \in Procs : Held(q)' <=> Held(q)
      BY <2>1 DEF Held
    <2>11. \A q \in Procs, t \in Streams : got'[q][t] \o output'[q][t] = Whole(q, t)'
      BY <2>6, <2>7, <2>8
    <2>12. \A q \in Procs, t \in Streams :
               t \in eof'[q] /\ q \notin Terminals => ~ Held(q)' /\ output'[q][t] = <<>>
      BY <1>a, <2>1, <2>8, <2>9, <2>10 DEF StreamInv
    <2>13. \A q \in Procs : life'[q] = "none" => eof'[q] = {} /\ ~ heirs'[q]
      BY <1>a, <2>1 DEF StreamInv, Streams
    <2> QED
      BY <2>11, <2>12, <2>13 DEF StreamInv
  <1>3. CASE WaitReturns(p)
    <2>1. /\ written'[p] = NoBytes /\ output'[p] = NoOutput /\ got'[p] = NoOutput /\ eof'[p] = {}
          /\ life'[p] = "gone"
      BY <1>3, <1>a DEF WaitReturns, ForgetHistory, TypeOK
    <2>2. \A q \in Procs \ {p} :
              /\ written'[q] = written[q] /\ output'[q] = output[q] /\ got'[q] = got[q]
              /\ eof'[q] = eof[q] /\ life'[q] = life[q] /\ heirs'[q] = heirs[q]
      BY <1>3, <1>a DEF WaitReturns, ForgetHistory, TypeOK
    <2>3. \A s \in Streams : got'[p][s] \o output'[p][s] = <<>> /\ Whole(p, s)' = <<>>
      BY <2>1 DEF NoBytes, NoOutput, Whole
    <2>4. \A q \in Procs \ {p}, s \in Streams : Whole(q, s)' = Whole(q, s)
      BY <2>2 DEF Whole
    <2>5. ASSUME NEW q \in Procs, q # p, NEW s \in Streams
          PROVE  /\ got'[q][s] \o output'[q][s] = Whole(q, s)'
                 /\ s \in eof'[q] /\ q \notin Terminals =>
                        ~ Held(q)' /\ output'[q][s] = <<>>
                 /\ life'[q] = "none" => eof'[q] = {} /\ ~ heirs'[q]
      <3>1. /\ got[q][s] \o output[q][s] = Whole(q, s)
            /\ s \in eof[q] /\ q \notin Terminals => ~ Held(q) /\ output[q][s] = <<>>
            /\ life[q] = "none" => eof[q] = {} /\ ~ heirs[q]
        BY <1>a, <2>5 DEF StreamInv
      <3>2. /\ got'[q] = got[q] /\ output'[q] = output[q] /\ eof'[q] = eof[q]
            /\ life'[q] = life[q] /\ (Held(q)' <=> Held(q)) /\ (heirs'[q] <=> heirs[q])
            /\ Whole(q, s)' = Whole(q, s)
        BY <2>2, <2>4, <2>5 DEF Held
      <3> QED
        BY <3>1, <3>2
    <2> QED
      BY <2>1, <2>3, <2>5 DEF StreamInv
  <1> QED
    BY <1>1, <1>2, <1>3 DEF Process

\* So does a read that goes on.
LEMMA ContinuesStreams ==
    ASSUME Inv, NEW w \in Threads, Continues(w) PROVE StreamInv'
  <1> USE DEF mutexVars, processVars, runtimeVars, fdVars
  <1> DEFINE p == job[w].proc
             s == job[w].stream
  <1>a. TypeOK /\ StreamInv /\ WorkerOK(w)
    BY DEF Inv, WorkerInv
  <1>1. CASE WriteProceeds(w) \/ WriteReturns(w) \/ ReadEnters(w)
    <2>1. UNCHANGED <<got, output, written, eof, life, heirs>>
      BY <1>1 DEF WriteProceeds, WriteReturns, ReadEnters
    <2> QED
      BY <1>a, <2>1, StreamKeeps DEF StreamInv, Held
  <1>2. CASE ReadReturns(w)
    <2>1. /\ p \in Procs /\ s \in Streams /\ UNCHANGED <<written, eof, life, heirs>>
          /\ got' = [got EXCEPT ![p][s] = @ \o output[p][s]]
          /\ output' = [output EXCEPT ![p][s] = <<>>]
      BY <1>2, <1>a, ReadingEnd DEF WorkerOK, ReadReturns
    <2> HIDE DEF p, s
    <2>2. got[p][s] \in Seq(Bytes) /\ output[p][s] \in Seq(Bytes)
      BY <1>a, <2>1 DEF TypeOK
    <2>3. (got[p][s] \o output[p][s]) \o <<>> = got[p][s] \o output[p][s]
      BY <2>2, ByteSeqs, ConcatEmptySeq
    <2>4. got'[p][s] = got[p][s] \o output[p][s] /\ output'[p][s] = <<>>
      BY <1>a, <2>1 DEF TypeOK
    <2>5. \A q \in Procs, t \in Streams : q # p \/ t # s =>
              got'[q][t] = got[q][t] /\ output'[q][t] = output[q][t]
      BY <1>a, <2>1 DEF TypeOK
    <2>6. \A q \in Procs, t \in Streams : got'[q][t] \o output'[q][t] = got[q][t] \o output[q][t]
      BY <2>3, <2>4, <2>5
    <2>7. \A q \in Procs, t \in Streams : output[q][t] = <<>> => output'[q][t] = <<>>
      BY <2>4, <2>5
    <2>8. \A q \in Procs, t \in Streams : Whole(q, t)' = Whole(q, t)
      BY <2>1 DEF Whole
    <2>9. ASSUME NEW q \in Procs, NEW t \in Streams
          PROVE  /\ got'[q][t] \o output'[q][t] = Whole(q, t)'
                 /\ t \in eof'[q] /\ q \notin Terminals =>
                        ~ Held(q)' /\ output'[q][t] = <<>>
                 /\ life'[q] = "none" => eof'[q] = {} /\ ~ heirs'[q]
      <3>1. /\ got[q][t] \o output[q][t] = Whole(q, t)
            /\ t \in eof[q] /\ q \notin Terminals => ~ Held(q) /\ output[q][t] = <<>>
            /\ life[q] = "none" => eof[q] = {} /\ ~ heirs[q]
        BY <1>a DEF StreamInv
      <3>2. /\ got'[q][t] \o output'[q][t] = got[q][t] \o output[q][t]
            /\ output[q][t] = <<>> => output'[q][t] = <<>>
            /\ Whole(q, t)' = Whole(q, t) /\ eof' = eof /\ life' = life /\ heirs' = heirs
            /\ (Held(q)' <=> Held(q))
        BY <2>1, <2>6, <2>7, <2>8 DEF Held
      <3> QED
        BY <3>1, <3>2
    <2> QED
      BY <2>9 DEF StreamInv
  <1>3. CASE ReadEnds(w)
    <2>1. /\ ReadingOK(w) /\ AtEnd(job[w].end) /\ UNCHANGED <<got, output, written, life, heirs>>
          /\ eof' = [eof EXCEPT ![p] = @ \cup {s}]
      BY <1>3, <1>a DEF ReadEnds, WorkerOK
    <2>2. p \in Procs /\ life[p] # "none" /\ s \in Streams
      BY <2>1, <1>a, JobType DEF ReadingOK, OnStream
    <2>3. p \notin Terminals => ~ Held(p) /\ output[p][s] = <<>>
      <3> SUFFICES ASSUME p \notin Terminals PROVE ~ Held(p) /\ output[p][s] = <<>>
        OBVIOUS
      <3>1. job[w].end = <<p, s>> /\ s # "term" /\ <<p, s>> # Closed
        BY <2>1, <2>2, ProcsAssumption DEF ReadingOK, IsStream, Streams, Closed
      <3> QED
        BY <2>1, <3>1 DEF AtEnd
    <2> HIDE DEF p, s
    <2> QED
      BY <1>a, <2>1, <2>2, <2>3, StreamKeeps DEF StreamInv, TypeOK, Held
  <1> QED
    BY <1>1, <1>2, <1>3 DEF Continues

\* So does every step.
LEMMA StreamStep == Inv /\ [Next]_vars => StreamInv'
  <1> SUFFICES ASSUME Inv, [Next]_vars PROVE StreamInv'
    OBVIOUS
  <1>1. ASSUME UNCHANGED <<got, output, written, eof, life, heirs>> PROVE StreamInv'
    BY <1>1, StreamKeeps DEF Inv, StreamInv, Held
  <1>2. ASSUME NEW w \in Threads, NEW p \in Procs,
               \/ WritePanics(w, p) \/ CloseStdin(w, p) \/ TtyWinResize(w, p)
               \/ \E n \in 1..MaxIn[p] : WriteBegins(w, p, n)
               \/ \E s \in Streams : ReadTakesFd(w, p, s)
        PROVE  StreamInv'
    BY <1>1, <1>2 DEF WritePanics, CloseStdin, TtyWinResize, WriteBegins, ReadTakesFd,
                      processVars, runtimeVars
  <1>3. CASE UNCHANGED vars
    BY <1>1, <1>3 DEF vars
  <1>4. CASE RemoveContainer
    <2>1. /\ UNCHANGED <<got, output, written, eof>>
          /\ \A q \in Procs : /\ Held(q)' => Held(q)
                              /\ life'[q] = "none" => life[q] = "none" /\ (heirs'[q] => heirs[q])
      BY <1>4 DEF RemoveContainer, LeaveHeirs, Held, Known, runtimeVars, Inv, TypeOK
    <2> QED
      BY <2>1, StreamKeeps DEF Inv, StreamInv
  <1> QED
    BY <1>2, <1>3, <1>4, ProcessStreams, ContinuesStreams DEF Next, Worker

\* Nothing has run at first.
LEMMA InvInit == Init => Inv
  <1> SUFFICES ASSUME Init PROVE Inv
    OBVIOUS
  <1>1. TypeOK
    BY ByteSeqs, OutputType, NoJobType
    DEF Init, TypeOK, Lives, Controls, NoFields, FdOrNone, EndsOfProcs
  <1>2. FdInv
    BY DEF Init, FdInv, OwnDescriptors, FieldsInv, OnceInv, Known, NoFields, None, Ends
  <1>3. WorkerInv
    BY DEF Init, WorkerInv, WorkerOK, InTurn, LockInv, Free, Threads
  <1>4. InputExact
    BY DEF Init, InputExact
  <1>5. StreamInv
    BY DEF Init, StreamInv, NoOutput, NoBytes, Whole
  <1> QED
    BY <1>1, <1>2, <1>3, <1>4, <1>5 DEF Inv

(***************************************************************************)
(* A request under way works on a descriptor of its process, and what the  *)
(* runtime has received and what is in a pipe are what was written, for    *)
(* any number of processes, terminals and threads (do_read_stream,         *)
(* do_write_stream).                                                       *)
(***************************************************************************)
THEOREM StreamInvariant == Spec => []Inv
  <1>1. Inv /\ [Next]_vars => Inv'
    BY TypeStep, FdStep, WorkerStep, InputStep, StreamStep DEF Inv
  <1> QED
    BY <1>1, InvInit, PTL DEF Spec

(***************************************************************************)
(* The descriptors in a Process are its own, and no open one is forgotten  *)
(* but by a start that fails and by the removal of a process that has not  *)
(* been waited for.                                                        *)
(***************************************************************************)
THEOREM DescriptorsOwn == Spec => []OwnDescriptors
  <1>1. Inv => OwnDescriptors
    BY DEF Inv, FdInv
  <1> QED
    BY <1>1, StreamInvariant, PTL

(***************************************************************************)
(* ReadStdout and ReadStderr return what the process wrote to the stream,  *)
(* in order, and at its end that was all.                                  *)
(***************************************************************************)
THEOREM OutputIsExact == Spec => []OutputExact
  <1>1. ASSUME Inv PROVE OutputExact
    <2> SUFFICES ASSUME NEW p \in Procs, NEW s \in Streams
                 PROVE  /\ IsPrefix(got[p][s], Whole(p, s))
                        /\ s \in eof[p] /\ p \notin Terminals => got[p][s] = Whole(p, s)
      BY DEF OutputExact
    <2> DEFINE g == got[p][s]
               o == output[p][s]
    <2>1. /\ g \in Seq(Bytes) /\ o \in Seq(Bytes) /\ Whole(p, s) = g \o o
          /\ s \in eof[p] /\ p \notin Terminals => o = <<>>
      BY <1>1 DEF Inv, TypeOK, StreamInv
    <2> HIDE DEF g, o
    <2>2. g \o <<>> = g
      BY <2>1, ConcatEmptySeq
    <2>3. IsPrefix(g, g \o o)
      <3>1. Len(g) \in Nat /\ Len(o) \in Nat /\ Len(g \o o) = Len(g) + Len(o)
        BY <2>1
      <3>2. SubSeq(g \o o, 1, Len(g)) = SubSeq(g, 1, Len(g))
        <4>1. CASE Len(g) = 0
          BY <4>1, SubSeqEmpty
        <4>2. CASE Len(g) # 0
          BY <2>1, <3>1, <4>2, SubSeqOfConcat1
        <4> QED
          BY <4>1, <4>2
      <3> QED
        BY <3>1, <3>2 DEF IsPrefix
    <2> QED
      BY <2>1, <2>2, <2>3 DEF g
  <1> QED
    BY <1>1, StreamInvariant, PTL

(***************************************************************************)
(* The lengths that WriteStdin has answered add up to what the process has *)
(* read or finds in the pipe.                                              *)
(***************************************************************************)
THEOREM InputIsExact == Spec => []InputExact
  <1>1. Inv => InputExact
    BY DEF Inv
  <1> QED
    BY <1>1, StreamInvariant, PTL
=============================================================================
