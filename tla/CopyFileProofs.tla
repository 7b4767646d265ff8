--------------------------- MODULE CopyFileProofs ---------------------------
(***************************************************************************)
(* Proofs about CopyFile, for any number of files of any size.             *)
(*                                                                         *)
(* The argument.  The chunks of an attempt overwrite what earlier ones     *)
(* have left in the temporary file, in order.  If that was shorter than    *)
(* the content of the attempt, it becomes complete only with the last      *)
(* chunk, and then nothing of an earlier attempt is left in it.            *)
(***************************************************************************)
EXTENDS CopyFile, SequenceTheorems, TLAPS

Chunks == {Hole, Torn} \cup (Files \X Nat \X Nat)
Controls == {"ready", "open", "write", "stat", "rename", "failed", "copied"}

TypeOK ==
    /\ dest \in [Files -> Seq(Chunks)]
    /\ tmp \in [{Tmp[f] : f \in Files} -> Seq(Chunks)]
    /\ pc \in [Files -> Controls]
    /\ attempt \in [Files -> Nat]
    /\ size \in [Files -> Nat \ {0}]
    /\ left \in [Files -> Nat]
    /\ chunk \in [Files -> Nat \ {0}]

\* The first n chunks of the temporary file of f are those of this attempt.
Begins(f, n) ==
    /\ n <= Len(tmp[Tmp[f]])
    /\ \A i \in 1..n : tmp[Tmp[f]][i] = Chunk(f, i)

\* How far an attempt is, by the control of its request.
Progress(f) ==
    /\ pc[f] \in {"ready", "open", "write"} =>
           Begins(f, chunk[f] - 1) /\ Len(tmp[Tmp[f]]) < size[f]
    /\ pc[f] = "stat" =>
           /\ Begins(f, chunk[f])
           /\ Len(tmp[Tmp[f]]) <= size[f]
           /\ Len(tmp[Tmp[f]]) = size[f] => chunk[f] = size[f]
    /\ pc[f] = "rename" =>
           /\ Begins(f, size[f])
           /\ Len(tmp[Tmp[f]]) = size[f]
           /\ chunk[f] = size[f]

\* Of an attempt that began with a shorter temporary file.
FileInv(f) == left[f] < size[f] => Progress(f)

Inv == TypeOK /\ \A f \in Files : FileInv(f)

-----------------------------------------------------------------------------
\* A complete attempt is a file of its size, each chunk in its place.
LEMMA WholeIsFile ==
    ASSUME TypeOK, NEW f \in Files
    PROVE  /\ Whole(f) \in Seq(Chunks)
           /\ Len(Whole(f)) = size[f]
           /\ \A i \in 1..size[f] : Whole(f)[i] = Chunk(f, i)
  <1>1. size[f] \in Nat /\ \A i \in 1..size[f] : Chunk(f, i) \in Chunks
    BY DEF Chunks, Chunk, TypeOK
  <1> QED
    BY <1>1 DEF Whole

\* What write_all_at makes of the file.
LEMMA WrittenIsFile ==
    ASSUME NEW s \in Seq(Chunks), NEW n \in Nat \ {0}, NEW x \in Chunks
    PROVE  /\ Written(s, n, x) \in Seq(Chunks)
           /\ Len(Written(s, n, x)) = IF Len(s) < n THEN n ELSE Len(s)
           /\ Written(s, n, x)[n] = x
           /\ \A i \in 1..Len(s) : i # n => Written(s, n, x)[i] = s[i]
  <1> DEFINE l == IF Len(s) < n THEN n ELSE Len(s)
  <1>1. l \in Nat /\ Hole \in Chunks
    BY DEF Chunks
  <1>2. \A i \in 1..l : (IF i = n THEN x ELSE IF i <= Len(s) THEN s[i] ELSE Hole) \in Chunks
    BY <1>1
  <1> QED
    BY <1>1, <1>2 DEF Written

\* The types at first.
LEMMA TypeInit == Init => TypeOK
  <1> SUFFICES ASSUME Init PROVE TypeOK
    OBVIOUS
  <1>1. Absent \in Seq(Chunks)
    BY DEF Absent
  <1>2. \A f \in Files : Before(f) \in Seq(Chunks)
    BY DEF Before, Chunks
  <1>3. \A f \in Files : size[f] \in Nat \ {0}
    BY SizesAssumption DEF Init
  <1>4. size \in [Files -> Nat \ {0}]
    BY <1>3 DEF Init
  <1> QED
    BY <1>1, <1>2, <1>4 DEF Init, TypeOK, Controls

\* An answered request moves on to the next chunk or stays.
LEMMA AnsweredType ==
    ASSUME TypeOK, NEW f \in Files, Answered(f)
    PROVE  pc' \in [Files -> Controls] /\ chunk' \in [Files -> Nat \ {0}]
  <1>1. chunk[f] + 1 \in Nat \ {0}
    BY DEF TypeOK
  <1> QED
    BY <1>1 DEF TypeOK, Answered, Goto, Controls

\* do_copy_file and the runtime keep the types.
LEMMA TypeStep == TypeOK /\ [Next]_vars => TypeOK'
  <1> SUFFICES ASSUME TypeOK, [Next]_vars PROVE TypeOK'
    OBVIOUS
  <1>0. CASE UNCHANGED vars
    BY <1>0 DEF vars, TypeOK
  <1> SUFFICES ASSUME NEW f \in Files,
                      \/ Begin(f) \/ BeginFails(f) \/ Open(f) \/ Write(f) \/ WriteFails(f)
                      \/ StatFails(f) \/ StatOther(f) \/ StatComplete(f)
                      \/ Rename(f) \/ RenameFails(f) \/ Retry(f)
               PROVE  TypeOK'
    BY <1>0 DEF Next
  <1>t. /\ tmp[Tmp[f]] \in Seq(Chunks) /\ Len(tmp[Tmp[f]]) \in Nat
        /\ chunk[f] \in Nat \ {0}
    BY DEF TypeOK
  <1>w. \A c \in Chunks : Written(tmp[Tmp[f]], chunk[f], c) \in Seq(Chunks)
    BY <1>t, WrittenIsFile
  <1> USE DEF TypeOK, Controls, Goto, Fails
  <1>1. CASE Begin(f) \/ BeginFails(f) \/ Open(f) \/ StatFails(f) \/ RenameFails(f)
    BY <1>1 DEF Begin, BeginFails, Open, StatFails, RenameFails
  <1>2. CASE Write(f)
    <2>1. Chunk(f, chunk[f]) \in Chunks
      BY DEF Chunks, Chunk
    <2>2. Written(tmp[Tmp[f]], chunk[f], Chunk(f, chunk[f])) \in Seq(Chunks)
      BY <2>1, <1>w
    <2> QED
      BY <1>2, <2>2 DEF Write
  <1>3. CASE StatOther(f) \/ StatComplete(f)
    BY <1>3, AnsweredType DEF StatOther, StatComplete
  <1>4. CASE Rename(f)
    <2>1. Absent \in Seq(Chunks)
      BY DEF Absent
    <2> QED
      BY <1>4, <2>1, AnsweredType DEF Rename
  <1>5. CASE WriteFails(f)
    <2>1. Torn \in Chunks
      BY DEF Chunks
    <2>2. Written(tmp[Tmp[f]], chunk[f], Torn) \in Seq(Chunks)
      BY <2>1, <1>w
    <2> QED
      BY <1>5, <2>2 DEF WriteFails
  <1>6. CASE Retry(f)
    <2>1. PICK n \in Sizes[f] : size' = [size EXCEPT ![f] = n]
      BY <1>6 DEF Retry
    <2>2. n \in Nat \ {0} /\ Len(tmp[Tmp[f]]) \in Nat
      BY <1>t, SizesAssumption
    <2> QED
      BY <1>6, <2>1, <2>2 DEF Retry
  <1> QED
    BY <1>1, <1>2, <1>3, <1>4, <1>5, <1>6

-----------------------------------------------------------------------------
\* The requests for other files leave a file alone, and its temporary file.
LEMMA OthersKeep ==
    ASSUME Inv, NEW f \in Files, NEW g \in Files \ {f},
           \/ Begin(g) \/ BeginFails(g) \/ Open(g) \/ Write(g) \/ WriteFails(g)
           \/ StatFails(g) \/ StatOther(g) \/ StatComplete(g)
           \/ Rename(g) \/ RenameFails(g) \/ Retry(g)
    PROVE  /\ dest'[f] = dest[f] /\ tmp'[Tmp[f]] = tmp[Tmp[f]] /\ pc'[f] = pc[f]
           /\ attempt'[f] = attempt[f] /\ size'[f] = size[f]
           /\ chunk'[f] = chunk[f] /\ left'[f] = left[f]
  <1>1. Tmp[g] # Tmp[f]
    BY TmpAssumption
  <1> USE DEF Inv, TypeOK, Goto, Fails, Answered
  <1>2. CASE Begin(g) \/ BeginFails(g) \/ Open(g) \/ StatFails(g) \/ RenameFails(g)
    BY <1>2 DEF Begin, BeginFails, Open, StatFails, RenameFails
  <1>3. CASE Write(g) \/ WriteFails(g)
    <2>1. tmp' = tmp \/ \E x : tmp' = [tmp EXCEPT ![Tmp[g]] = x]
      BY <1>3 DEF Write, WriteFails
    <2>2. tmp'[Tmp[f]] = tmp[Tmp[f]]
      BY <1>1, <2>1
    <2>3. /\ UNCHANGED <<dest, attempt, size, chunk, left>>
          /\ pc' = [pc EXCEPT ![g] = "stat"] \/ pc' = [pc EXCEPT ![g] = "failed"]
      BY <1>3 DEF Write, WriteFails
    <2> QED
      BY <2>2, <2>3
  <1>4. CASE StatOther(g) \/ StatComplete(g)
    BY <1>4 DEF StatOther, StatComplete
  <1>5. CASE Rename(g)
    BY <1>1, <1>5 DEF Rename
  <1>6. CASE Retry(g)
    BY <1>6 DEF Retry
  <1> QED
    BY <1>2, <1>3, <1>4, <1>5, <1>6

\* The temporary file becomes complete with the last chunk.
LEMMA WriteKeeps ==
    ASSUME Inv, NEW f \in Files, Write(f) PROVE FileInv(f)'
  <1> SUFFICES ASSUME (left[f] < size[f])' PROVE Progress(f)'
    BY DEF FileInv
  <1> DEFINE t == tmp[Tmp[f]]
             n == chunk[f]
  <1>1. /\ Progress(f) /\ t \in Seq(Chunks) /\ n \in Nat \ {0}
        /\ pc[f] = "write" /\ pc'[f] = "stat" /\ Chunk(f, n) \in Chunks
        /\ attempt' = attempt /\ size' = size /\ chunk' = chunk
        /\ tmp'[Tmp[f]] = Written(t, n, Chunk(f, n))
    BY DEF Write, Inv, FileInv, TypeOK, Goto, Chunks, Chunk
  <1>2. n - 1 <= Len(t) /\ Len(t) < size[f] /\ \A i \in 1..(n - 1) : t[i] = Chunk(f, i)
    BY <1>1 DEF Progress, Begins
  <1> HIDE DEF t, n
  <1>3. /\ Len(tmp'[Tmp[f]]) = IF Len(t) < n THEN n ELSE Len(t)
        /\ \A i \in 1..n : tmp'[Tmp[f]][i] = Chunk(f, i)
    <2> DEFINE s == Written(t, n, Chunk(f, n))
    <2>1. /\ Len(s) = IF Len(t) < n THEN n ELSE Len(t)
          /\ s[n] = Chunk(f, n)
          /\ \A i \in 1..Len(t) : i # n => s[i] = t[i]
      BY <1>1, WrittenIsFile
    <2> HIDE DEF s
    <2>2. Len(t) \in Nat
      BY <1>1
    <2>3. \A i \in 1..n : s[i] = Chunk(f, i)
      <3> SUFFICES ASSUME NEW i \in 1..n, i # n PROVE s[i] = Chunk(f, i)
        BY <2>1
      <3>1. i \in 1..(n - 1) /\ i \in 1..Len(t)
        BY <1>1, <1>2, <2>2
      <3> QED
        BY <1>2, <2>1, <3>1
    <2> QED
      BY <1>1, <2>1, <2>3 DEF s
  <1>4. Begins(f, n)' /\ Len(tmp'[Tmp[f]]) <= size[f]
        /\ (Len(tmp'[Tmp[f]]) = size[f] => n = size[f])
    <2>1. size[f] \in Nat /\ Len(t) \in Nat /\ n \in Nat /\ n <= size[f]
      BY <1>1, <1>2 DEF Inv, TypeOK
    <2>2. n' = n
      BY <1>1 DEF n
    <2>3. \A i \in 1..n : tmp'[Tmp[f]][i] = Chunk(f, i)'
      BY <1>1, <1>3 DEF Chunk
    <2>4. Begins(f, n)'
      BY <1>3, <2>1, <2>2, <2>3 DEF Begins
    <2> QED
      BY <1>2, <1>3, <2>1, <2>4
  <1> QED
    BY <1>1, <1>4 DEF Progress, n

\* The comparison of the sizes keeps what is known of the file.
LEMMA StatKeeps ==
    ASSUME Inv, NEW f \in Files, StatOther(f) \/ StatComplete(f) PROVE FileInv(f)'
  <1> SUFFICES ASSUME (left[f] < size[f])' PROVE Progress(f)'
    BY DEF FileInv
  <1>1. /\ Progress(f) /\ size[f] \in Nat
        /\ pc[f] = "stat" /\ tmp[Tmp[f]] \in Seq(Chunks) /\ chunk[f] \in Nat \ {0}
        /\ UNCHANGED <<tmp, attempt, size>>
    BY DEF StatOther, StatComplete, Inv, FileInv, TypeOK
  <1>2. CASE StatComplete(f)
    BY <1>1, <1>2 DEF StatComplete, Inv, TypeOK, Progress, Begins, Chunk, Goto
  <1>3. CASE StatOther(f)
    <2>1. /\ chunk[f] # size[f] /\ pc'[f] = "ready" /\ chunk'[f] = chunk[f] + 1
      BY <1>1, <1>3 DEF StatOther, Inv, TypeOK, Progress, Begins, Goto, Answered
    <2> QED
      BY <1>1, <1>3, <2>1 DEF StatOther, Progress, Begins, Chunk
  <1> QED
    BY <1>2, <1>3

\* rename() puts a complete temporary file in the place of the old one.
LEMMA RenameIsWhole ==
    ASSUME Inv, NEW f \in Files, Rename(f), left[f] < size[f]
    PROVE  dest'[f] = Whole(f) /\ pc'[f] = "copied"
  <1>1. /\ Progress(f) /\ tmp[Tmp[f]] \in Seq(Chunks)
        /\ pc[f] = "rename" /\ dest'[f] = tmp[Tmp[f]]
    BY DEF Rename, Inv, FileInv, TypeOK
  <1>2. Begins(f, size[f]) /\ Len(tmp[Tmp[f]]) = size[f] /\ chunk[f] = size[f]
    BY <1>1 DEF Progress
  <1>3. dest'[f] = Whole(f)
    <2> DEFINE t == tmp[Tmp[f]]
               w == Whole(f)
    <2>1. /\ w \in Seq(Chunks) /\ Len(w) = size[f]
          /\ \A i \in 1..size[f] : w[i] = Chunk(f, i)
      BY WholeIsFile DEF Inv
    <2>2. /\ t \in Seq(Chunks) /\ Len(t) = size[f]
          /\ \A i \in 1..size[f] : t[i] = Chunk(f, i)
      BY <1>1, <1>2 DEF Begins
    <2> HIDE DEF t, w
    <2>3. t = w
      BY <2>1, <2>2, SeqEqual
    <2> QED
      BY <1>1, <2>3 DEF t, w
  <1> QED
    BY <1>2, <1>3 DEF Rename, Answered, Goto, Inv, TypeOK

\* An attempt begins with what is left.
LEMMA RetryKeeps ==
    ASSUME Inv, NEW f \in Files, Retry(f) PROVE FileInv(f)'
  <1> SUFFICES ASSUME (left[f] < size[f])' PROVE Progress(f)'
    BY DEF FileInv
  <1>1. /\ pc'[f] = "ready" /\ chunk'[f] = 1 /\ tmp' = tmp
        /\ left'[f] = Len(tmp[Tmp[f]]) /\ Len(tmp[Tmp[f]]) \in Nat
    BY DEF Retry, Inv, TypeOK, Goto
  <1> QED
    BY <1>1 DEF Progress, Begins

\* Every step keeps what is known of each file, those of other files too.
LEMMA FileStep == Inv /\ [Next]_vars => \A f \in Files : FileInv(f)'
  <1> SUFFICES ASSUME Inv, [Next]_vars, NEW f \in Files PROVE FileInv(f)'
    OBVIOUS
  <1>0. CASE UNCHANGED vars
    BY <1>0 DEF vars, Inv, FileInv, Progress, Begins, Chunk
  <1> SUFFICES ASSUME NEW g \in Files,
                      \/ Begin(g) \/ BeginFails(g) \/ Open(g) \/ Write(g) \/ WriteFails(g)
                      \/ StatFails(g) \/ StatOther(g) \/ StatComplete(g)
                      \/ Rename(g) \/ RenameFails(g) \/ Retry(g)
               PROVE  FileInv(f)'
    BY <1>0 DEF Next
  <1>1. CASE g # f
    <2>1. /\ tmp'[Tmp[f]] = tmp[Tmp[f]] /\ pc'[f] = pc[f] /\ attempt'[f] = attempt[f]
          /\ size'[f] = size[f] /\ chunk'[f] = chunk[f] /\ left'[f] = left[f]
      BY <1>1, OthersKeep
    <2> QED
      BY <2>1 DEF Inv, FileInv, Progress, Begins, Chunk
  <1>2. CASE g = f
    <2>1. CASE Begin(f) \/ Open(f)
      BY <2>1 DEF Begin, Open, Inv, TypeOK, FileInv, Progress, Begins, Chunk, Goto
    <2>2. CASE BeginFails(f) \/ WriteFails(f) \/ StatFails(f) \/ RenameFails(f)
      <3>1. pc'[f] = "failed"
        BY <2>2 DEF BeginFails, WriteFails, StatFails, RenameFails, Fails, Goto, Inv, TypeOK
      <3> QED
        BY <3>1 DEF FileInv, Progress
    <2>3. CASE Rename(f)
      <3>1. left'[f] < size'[f] => pc'[f] = "copied"
        BY <2>3, RenameIsWhole DEF Rename
      <3> QED
        BY <3>1 DEF FileInv, Progress
    <2> QED
      BY <1>2, <2>1, <2>2, <2>3, WriteKeeps, StatKeeps, RetryKeeps
  <1> QED
    BY <1>1, <1>2

\* Nothing is copied at first.
LEMMA InvInit == Init => Inv
  <1> SUFFICES ASSUME Init PROVE Inv
    OBVIOUS
  <1> SUFFICES ASSUME NEW f \in Files PROVE Progress(f)
    BY TypeInit DEF Inv, FileInv
  <1>1. pc[f] = "ready" /\ chunk[f] = 1 /\ tmp[Tmp[f]] = Absent
    BY DEF Init
  <1>2. Len(Absent) = 0
    BY DEF Absent
  <1>3. size[f] \in Nat \ {0}
    BY TypeInit DEF TypeOK
  <1> QED
    BY <1>1, <1>2, <1>3 DEF Progress, Begins

(***************************************************************************)
(* The temporary file of an attempt that began with one shorter than its   *)
(* content becomes complete with the last chunk (do_copy_file), whatever   *)
(* earlier attempts have left in it.                                       *)
(***************************************************************************)
THEOREM CopyInvariant == Spec => []Inv
  <1>1. Inv /\ [Next]_vars => Inv'
    BY TypeStep, FileStep DEF Inv
  <1> QED
    BY <1>1, InvInit, PTL DEF Spec

\* What a step may do to the destinations.
LEMMA StepIsWhole ==
    ASSUME Inv, Next, NEW f \in Files, left[f] < size[f]
    PROVE  /\ dest'[f] # dest[f] => dest'[f] = Whole(f)
           /\ pc[f] # "copied" /\ pc'[f] = "copied" => dest'[f] = Whole(f)
  <1> SUFFICES ASSUME NEW g \in Files,
                      \/ Begin(g) \/ BeginFails(g) \/ Open(g) \/ Write(g) \/ WriteFails(g)
                      \/ StatFails(g) \/ StatOther(g) \/ StatComplete(g)
                      \/ Rename(g) \/ RenameFails(g) \/ Retry(g)
               PROVE  /\ dest'[f] # dest[f] => dest'[f] = Whole(f)
                      /\ pc[f] # "copied" /\ pc'[f] = "copied" => dest'[f] = Whole(f)
    BY DEF Next
  <1>1. CASE g # f
    BY <1>1, OthersKeep
  <1>2. CASE g = f
    <2>1. CASE Rename(f)
      BY <2>1, RenameIsWhole
    <2>2. CASE StatOther(f)
      <3>1. chunk[f] # size[f]
        <4> DEFINE l == Len(tmp[Tmp[f]])
        <4>0. tmp[Tmp[f]] \in Seq(Chunks)
          BY DEF Inv, TypeOK
        <4>1. /\ l \in Nat /\ chunk[f] \in Nat /\ size[f] \in Nat
              /\ pc[f] = "stat" /\ l # size[f]
          <5>1. l \in Nat
            BY <4>0
          <5>2. chunk[f] \in Nat /\ size[f] \in Nat
            BY DEF Inv, TypeOK
          <5> QED
            BY <2>2, <5>1, <5>2 DEF StatOther
        <4>2. Progress(f)
          BY DEF Inv, FileInv
        <4>3. chunk[f] <= l /\ l <= size[f]
          BY <4>1, <4>2 DEF Progress, Begins
        <4> QED
          BY <4>1, <4>3
      <3> QED
        BY <2>2, <3>1 DEF StatOther, Answered, Goto, Inv, TypeOK
    <2>3. CASE ~Rename(f) /\ ~StatOther(f)
      BY <1>2, <2>3 DEF Begin, BeginFails, Open, Write, WriteFails, StatFails, StatComplete,
                        RenameFails, Retry, Fails, Goto, Inv, TypeOK
    <2> QED
      BY <2>1, <2>2, <2>3
  <1> QED
    BY <1>1, <1>2

(***************************************************************************)
(* An attempt that began with a temporary file shorter than its content    *)
(* replaces the destination by the whole of it and by nothing else, for    *)
(* any number of attempts to copy any number of files, of any sizes that   *)
(* may change from one attempt to the next, and with failures anywhere.    *)
(***************************************************************************)
THEOREM WholeFiles == Spec => CopiesWhole
  <1> DEFINE A == \A f \in Files : left[f] < size[f] =>
                    /\ dest'[f] # dest[f] => dest'[f] = Whole(f)
                    /\ pc[f] # "copied" /\ pc'[f] = "copied" => dest'[f] = Whole(f)
  <1>1. Inv /\ [Next]_vars => [A]_vars
    BY StepIsWhole
  <1> HIDE DEF A
  <1>2. Spec => [][A]_vars
    BY <1>1, CopyInvariant, PTL DEF Spec
  <1> QED
    BY <1>2 DEF CopiesWhole, A
=============================================================================
