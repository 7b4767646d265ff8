------------------------ MODULE SandboxStorageProofs ------------------------
(***************************************************************************)
(* Proofs about SandboxStorage, for any number of containers, threads and  *)
(* mount points, and any lists of storages.                                *)
(*                                                                         *)
(* The argument.  A shared ephemeral storage is mounted when its entry is  *)
(* made, so without an entry it is not mounted; a removal that gives back  *)
(* a count has unmounted it just before.  It is therefore on the stack of  *)
(* mounts once at most, and a removal can give back one count at most.     *)
(* The count covers the containers that use the storage and the requests   *)
(* that have counted it and have not registered their container yet.       *)
(* For a mount point that one container alone asks for, what is mounted is *)
(* what the list of the request, and later that of the container, names.   *)
(***************************************************************************)
EXTENDS SandboxStorage, FiniteSetTheorems, TLAPS

In(m, list) == \E i \in 1..Len(list) : list[i] = m
Times(m, list) == Cardinality({i \in 1..Len(list) : list[i] = m})

\* The mount points that a request for c may bring.
Wants(c, m) == IF c = SandboxId THEN In(m, SandboxPoints) ELSE Asks(c, m)

\* A thread between two requests has nothing left of the last one.
WorkersInv ==
    \A w \in Workers :
        /\ wpc[w] = "idle" => wcid[w] = NoCid /\ todo[w] = <<>> /\ acc[w] = <<>>
        /\ wpc[w] = "adding" => wcid[w] # NoCid
        /\ \A m \in Points : In(m, todo[w]) => Wants(wcid[w], m)
        /\ \A m \in Points :
              In(m, acc[w]) => Wants(wcid[w], m) /\ Driver[m] # "local"

\* What is listed for a container is what it asked for and has mounted.
ListsInv ==
    \A c \in Cids, m \in Points :
        In(m, mounts[c]) => Asks(c, m) /\ Driver[m] # "local"

PlainInv == \A m \in Points : Driver[m] = "plain" => storages[m] = 0

\* A request for a container that has counted m.
HasCounted(w, m) ==
    /\ wpc[w] = "adding" /\ wcid[w] \in Cids
    /\ Asks(wcid[w], m) /\ ~ In(m, todo[w])
Pending(m) == {w \in Workers : HasCounted(w, m)}

CountInv ==
    /\ IsFiniteSet(containers)
    /\ \A m \in Counted :
          Driver[m] = "local" \/ ~ Retried(m)
              => storages[m] >= Cardinality(Users(m)) + Cardinality(Pending(m))

\* As long as nobody who asks for m is removed, its entry means a mount.
MountInv ==
    \A m \in Ephemeral \ failed :
        ~ Removed(m) /\ storages[m] > 0 => mounted[m] = 1

\* A container that is created once.
OnceInv ==
    \A c \in Cids :
        /\ creates[c] = 0 => \A w \in Workers : wcid[w] # c
        /\ creates[c] <= 1 =>
              \A v, w \in Workers : wcid[v] = c /\ wcid[w] = c => v = w
        /\ creates[c] = 0 \/ (creates[c] = 1 /\ \E w \in Workers : wcid[w] = c)
              => c \notin containers /\ tries[c] = 0

\* m is a volume of c and of nobody else.
Own(c, m) ==
    /\ Asks(c, m) /\ Driver[m] = "plain"
    /\ \A d \in Cids \ {c} : ~ Asks(d, m)
    /\ ~ In(m, SandboxPoints)

OwnInv ==
    \A c \in Cids, m \in Points :
        Own(c, m) =>
            /\ creates[c] = 0 => mounted[m] = 0
            /\ creates[c] = 1 =>
                  /\ \A w \in Workers :
                        wcid[w] = c => mounted[m] <= Times(m, acc[w])
                  /\ c \in containers => mounted[m] <= Times(m, mounts[c])
                  /\ c \notin containers /\ tries[c] > 0 => mounted[m] = 0

StorageInv ==
    /\ TypeOK
    /\ WorkersInv /\ ListsInv /\ PlainInv
    /\ MountedOnce /\ CountInv /\ MountInv
    /\ OnceInv /\ OwnInv

-----------------------------------------------------------------------------
(* Lists of mount points.                                                  *)

\* An empty list mentions nothing.
LEMMA InNone == \A m : ~ In(m, <<>>)
BY DEF In

\* What a list mentions is its head or in its tail.
LEMMA InHeadOrTail ==
    ASSUME NEW s \in Seq(Points), s # <<>>
    PROVE  /\ Head(s) \in Points /\ Tail(s) \in Seq(Points)
           /\ In(Head(s), s)
           /\ \A m : In(m, s) <=> m = Head(s) \/ In(m, Tail(s))
<1>1. Head(s) \in Points /\ Tail(s) \in Seq(Points) /\ Head(s) = s[1] /\ Len(s) \in Nat \ {0}
  OBVIOUS
<1>2. In(Head(s), s)
  BY <1>1 DEF In
<1>3. ASSUME NEW m PROVE In(m, s) <=> m = Head(s) \/ In(m, Tail(s))
  <2>1. ASSUME In(m, s), m # Head(s) PROVE In(m, Tail(s))
    <3>1. PICK i \in 1..Len(s) : s[i] = m
      BY <2>1 DEF In
    <3>2. i - 1 \in 1..Len(Tail(s)) /\ Tail(s)[i - 1] = m
      BY <1>1, <2>1, <3>1
    <3>. QED  BY <3>2 DEF In
  <2>2. ASSUME In(m, Tail(s)) PROVE In(m, s)
    <3>1. PICK i \in 1..Len(Tail(s)) : Tail(s)[i] = m
      BY <2>2 DEF In
    <3>2. i + 1 \in 1..Len(s) /\ s[i + 1] = m
      BY <3>1
    <3>. QED  BY <3>2 DEF In
  <2>. QED  BY <1>2, <2>1, <2>2
<1>. QED  BY <1>1, <1>2, <1>3

\* What a longer list mentions.
LEMMA InAppended ==
    ASSUME NEW s \in Seq(Points), NEW x \in Points
    PROVE  /\ Append(s, x) \in Seq(Points)
           /\ \A m : In(m, Append(s, x)) <=> In(m, s) \/ m = x
<1>1. /\ Append(s, x) \in Seq(Points) /\ Len(Append(s, x)) = Len(s) + 1 /\ Len(s) \in Nat
      /\ Append(s, x)[Len(s) + 1] = x
      /\ \A i \in 1..Len(s) : Append(s, x)[i] = s[i]
  OBVIOUS
<1>2. ASSUME NEW m, In(m, Append(s, x)), m # x PROVE In(m, s)
  <2>1. PICK i \in 1..Len(Append(s, x)) : Append(s, x)[i] = m
    BY <1>2 DEF In
  <2>2. i \in 1..Len(s)
    BY <1>1, <1>2, <2>1
  <2>. QED  BY <1>1, <2>1, <2>2 DEF In
<1>3. ASSUME NEW m, In(m, s) \/ m = x PROVE In(m, Append(s, x))
  <2>1. CASE m = x
    <3>1. Len(s) + 1 \in 1..Len(Append(s, x))
      BY <1>1
    <3>. QED  BY <1>1, <2>1, <3>1 DEF In
  <2>2. CASE In(m, s)
    <3>1. PICK i \in 1..Len(s) : s[i] = m
      BY <2>2 DEF In
    <3>2. i \in 1..Len(Append(s, x))
      BY <1>1
    <3>. QED  BY <1>1, <3>1, <3>2 DEF In
  <2>. QED  BY <1>3, <2>1, <2>2
<1>. QED  BY <1>1, <1>2, <1>3

\* How often is a number, and 0 for what is not mentioned.
LEMMA TimesType ==
    ASSUME NEW s \in Seq(Points), NEW m
    PROVE  Times(m, s) \in Nat /\ (Times(m, s) = 0 <=> ~ In(m, s))
<1>. DEFINE T == {i \in 1..Len(s) : s[i] = m}
<1>1. IsFiniteSet(T)
  BY FS_Interval, FS_Subset, T \in SUBSET (1..Len(s)), Len(s) \in Int
<1>. QED  BY <1>1, FS_CardinalityType, FS_EmptySet DEF Times, In

\* An appended mount point counts once.
LEMMA TimesAppended ==
    ASSUME NEW s \in Seq(Points), NEW x \in Points, NEW m
    PROVE  Times(m, Append(s, x)) = Times(m, s) + IF m = x THEN 1 ELSE 0
<1>. DEFINE S == {i \in 1..Len(s) : s[i] = m}
            T == {i \in 1..Len(Append(s, x)) : Append(s, x)[i] = m}
            n == Len(s) + 1
<1>1. IsFiniteSet(S)
  BY FS_Interval, FS_Subset, S \in SUBSET (1..Len(s)), Len(s) \in Int
<1>2. n \notin S
  OBVIOUS
<1>3. T = IF m = x THEN S \cup {n} ELSE S
  OBVIOUS
<1>4. Cardinality(S) \in Nat
  BY <1>1, FS_CardinalityType
<1>5. Cardinality(T) = Cardinality(S) + IF m = x THEN 1 ELSE 0
  <2>. HIDE DEF S, T, n
  <2>1. Cardinality(S \cup {n}) = Cardinality(S) + 1
    BY <1>1, <1>2, FS_AddElement
  <2>. QED  BY <1>3, <1>4, <2>1
<1>. QED  BY <1>5 DEF Times

-----------------------------------------------------------------------------
(* The steps of a removal.                                                 *)

\* Counting the steps that unmount m.
LEMMA HitsCount ==
    ASSUME NEW s \in Seq(Points), NEW m, NEW a \in Nat, NEW b \in Nat
    PROVE  /\ Hits(s, m, a, b) \in Nat
           /\ Hits(s, m, a, b) > 0 =>
                 \E i \in Unmounts(s) : a <= i /\ i <= b /\ Target(s, i) = m
           /\ \A i \in Unmounts(s) :
                 a <= i /\ i <= b /\ Target(s, i) = m => Hits(s, m, a, b) > 0
           /\ \A i, j \in Unmounts(s) :
                 /\ a <= i /\ i <= b /\ Target(s, i) = m
                 /\ a <= j /\ j <= b /\ Target(s, j) = m
                 /\ i # j
                 => Hits(s, m, a, b) > 1
<1>. DEFINE H == {i \in Unmounts(s) : a <= i /\ i <= b /\ Target(s, i) = m}
<1>1. IsFiniteSet(H)
  <2>1. H \in SUBSET (1..2 * Len(s))
    BY DEF Unmounts
  <2>2. IsFiniteSet(1..2 * Len(s))
    BY FS_Interval, 2 * Len(s) \in Int
  <2>. QED  BY <2>1, <2>2, FS_Subset
<1>2. Cardinality(H) \in Nat /\ (Cardinality(H) = 0 <=> H = {})
  BY <1>1, FS_CardinalityType, FS_EmptySet
<1>3. Cardinality(H) = 1 => \E x : H = {x}
  BY <1>1, FS_Singleton
<1>. HIDE DEF H
<1>4. Hits(s, m, a, b) = Cardinality(H)
  BY DEF H, Hits
<1>5. \A i : i \in H <=> i \in Unmounts(s) /\ a <= i /\ i <= b /\ Target(s, i) = m
  BY DEF H
<1>. QED  BY <1>2, <1>3, <1>4, <1>5

\* The first half unmounts what the list names, whatever is counted.
LEMMA FirstHalf ==
    ASSUME NEW s \in Seq(Points), NEW i \in 1..Len(s)
    PROVE  i \in Unmounts(s) /\ Target(s, i) = s[i] /\ Len(s) \in Nat /\ i <= 2 * Len(s)
BY DEF Unmounts, Target

\* The second half of the unmounts is the decrement, for storages with a count.
LEMMA SecondHalf ==
    ASSUME NEW s \in Seq(Points), NEW i \in Unmounts(s), i > Len(s)
    PROVE  /\ i - Len(s) \in 1..Len(s)
           /\ s[i - Len(s)] = Target(s, i)
           /\ storages[Target(s, i)] > 0
BY DEF Unmounts, Target

\* Only what is listed is unmounted.
LEMMA HitsListed ==
    ASSUME NEW s \in Seq(Points), NEW m, NEW a \in Nat, NEW b \in Nat,
           Hits(s, m, a, b) > 0
    PROVE  In(m, s)
<1>1. PICK i \in Unmounts(s) : Target(s, i) = m
  <2>1. \E i \in Unmounts(s) : a <= i /\ i <= b /\ Target(s, i) = m
    BY HitsCount
  <2>. QED  BY <2>1
<1>2. CASE i <= Len(s)
  <2>1. i \in 1..Len(s)
    BY <1>2 DEF Unmounts
  <2>. QED  BY <1>1, <2>1, FirstHalf DEF In
<1>3. CASE ~ (i <= Len(s))
  <2>1. i > Len(s)
    BY <1>3 DEF Unmounts
  <2>. QED  BY <1>1, <2>1, SecondHalf DEF In
<1>. QED  BY <1>2, <1>3

\* A plain mount point is unmounted as often as it is listed.
LEMMA HitsPlain ==
    ASSUME NEW s \in Seq(Points), NEW m \in Points, storages[m] = 0
    PROVE  Hits(s, m, 1, 2 * Len(s)) = Times(m, s)
<1>. DEFINE H == {i \in Unmounts(s) : 1 <= i /\ i <= 2 * Len(s) /\ Target(s, i) = m}
            T == {i \in 1..Len(s) : s[i] = m}
<1>1. ASSUME NEW i \in T PROVE i \in H
  BY FirstHalf
<1>2. ASSUME NEW i \in H PROVE i \in T
  <2>1. i \in 1..Len(s)
    BY SecondHalf DEF Unmounts
  <2>. QED  BY <2>1, FirstHalf
<1>3. H = T
  <2>. HIDE DEF H, T
  <2>. QED  BY <1>1, <1>2
<1>. QED  BY <1>3 DEF Hits, Times

\* The umounts up to step n, and the counts given back up to step k, which
\* is n or the step after it.
LEMMA HalvesFacts ==
    ASSUME TypeOK, MountedOnce, PlainInv,
           NEW s \in Seq(Points),
           \A m \in Points : In(m, s) => Driver[m] # "local",
           NEW n \in Nat, NEW k \in {n, n + 1}, CanUnmount(s, n),
           NEW m \in Points
    PROVE  LET down == Hits(s, m, 1, n)
               back == Hits(s, m, Len(s) + 1, k)
           IN  /\ down \in Nat /\ down <= mounted[m] /\ back \in {0, 1}
               /\ back = 1 => /\ In(m, s) /\ Driver[m] = "ephemeral"
                              /\ storages[m] > 0 /\ mounted[m] = 1 /\ down = 1
<1>. DEFINE down == Hits(s, m, 1, n)
            back == Hits(s, m, Len(s) + 1, k)
<1>0. Len(s) \in Nat /\ Len(s) + 1 \in Nat /\ k \in Nat /\ mounted[m] \in Nat /\ storages[m] \in Nat
  BY DEF TypeOK
<1>1. down \in Nat /\ down <= mounted[m]
  BY HitsCount DEF CanUnmount
<1>2. /\ back \in Nat
      /\ back > 0 =>
            \E i \in Unmounts(s) : Len(s) + 1 <= i /\ i <= k /\ Target(s, i) = m
  BY <1>0, HitsCount
<1>3. ASSUME back > 0
      PROVE  /\ In(m, s) /\ Driver[m] = "ephemeral" /\ storages[m] > 0
             /\ mounted[m] = 1 /\ down = 1 /\ back = 1
  <2>1. PICK i \in Unmounts(s) : Len(s) + 1 <= i /\ i <= k /\ Target(s, i) = m
    BY <1>2, <1>3
  <2>2. i \in Nat /\ i > Len(s) /\ Len(s) <= n
    BY <1>0, <2>1 DEF Unmounts
  <2>3. i - Len(s) \in 1..Len(s) /\ s[i - Len(s)] = m /\ storages[m] > 0
    BY <2>1, <2>2, SecondHalf
  <2>4. In(m, s)
    BY <2>3 DEF In
  <2>5. Driver[m] = "ephemeral"
    BY <2>3, <2>4, StorageAssumption DEF PlainInv
  <2>6. mounted[m] \in {0, 1}
    BY <2>5 DEF MountedOnce, Ephemeral
  <2>7. ASSUME NEW j \in Unmounts(s), Len(s) + 1 <= j, j <= k, Target(s, j) = m, i # j
        PROVE  FALSE
    <3>. DEFINE x == i - Len(s)
                y == j - Len(s)
    <3>1. j \in Nat /\ j > Len(s)
      BY <1>0, <2>7 DEF Unmounts
    <3>2. y \in 1..Len(s) /\ s[y] = m
      BY <2>7, <3>1, SecondHalf
    <3>3. x \in 1..Len(s) /\ s[x] = m
      BY <2>3
    <3>4. x \in Unmounts(s) /\ Target(s, x) = m /\ y \in Unmounts(s) /\ Target(s, y) = m
      BY <3>2, <3>3, FirstHalf
    <3>5. x # y /\ 1 <= x /\ x <= n /\ 1 <= y /\ y <= n
      BY <1>0, <2>2, <2>7, <3>1, <3>2, <3>3
    <3>6. down > 1
      <4>. HIDE DEF x, y
      <4>. QED  BY <3>4, <3>5, HitsCount
    <3>. QED  BY <1>1, <2>6, <3>6
  <2>8. down > 0
    <3>. DEFINE x == i - Len(s)
    <3>1. x \in Unmounts(s) /\ Target(s, x) = m
      BY <2>3, FirstHalf
    <3>2. 1 <= x /\ x <= n
      BY <1>0, <2>2, <2>3
    <3>. QED  
      <4>. HIDE DEF x
      <4>. QED  BY <3>1, <3>2, HitsCount
  <2>9. back = 1
    <3>. DEFINE H == {j \in Unmounts(s) :
                         Len(s) + 1 <= j /\ j <= k /\ Target(s, j) = m}
    <3>1. H = {i}
      BY <2>1, <2>7
    <3>2. back = Cardinality(H)
      BY DEF Hits
    <3>. QED  BY <3>1, <3>2, FS_Singleton
  <2>. QED  BY <1>1, <2>3, <2>4, <2>5, <2>6, <2>8, <2>9
<1>. HIDE DEF down, back
<1>4. back \in {0, 1}
  BY <1>2, <1>3
<1>5. QED
  <2>1. back = 1 => /\ In(m, s) /\ Driver[m] = "ephemeral"
                    /\ storages[m] > 0 /\ mounted[m] = 1 /\ down = 1
    BY <1>3
  <2>. QED  BY <1>1, <1>4, <2>1 DEF down, back

\* What a removal of c may change of the state of a mount point.
Lowered(c, m) ==
    /\ mounted'[m] \in Nat /\ mounted'[m] <= mounted[m]
    /\ storages'[m] \in Nat
    /\ mounted'[m] # mounted[m] => In(m, mounts[c])
    /\ \/ storages'[m] = storages[m]
       \/ /\ In(m, mounts[c]) /\ Driver[m] = "ephemeral"
          /\ storages'[m] + 1 = storages[m] /\ mounted'[m] = 0

\* What a removal, complete or stopped, does to the counts and the mounts.
LEMMA RemovalFacts ==
    ASSUME TypeOK, MountedOnce, PlainInv, ListsInv, NEW c \in Cids,
           RemoveSucceeds(c) \/ RemoveStops(c)
    PROVE  /\ storages' \in [Points -> Nat] /\ mounted' \in [Points -> Nat]
           /\ \A m \in Points : Lowered(c, m)
           /\ \/ /\ mounts' = [mounts EXCEPT ![c] = <<>>]
                 /\ containers' = containers \ {c}
                 /\ \A m \in Points :
                       Driver[m] = "plain"
                           => mounted'[m] = mounted[m] - Times(m, mounts[c])
              \/ UNCHANGED <<mounts, containers>>
<1>. DEFINE s == mounts[c]
<1>1. /\ s \in Seq(Points) /\ Len(s) \in Nat
      /\ \A m \in Points : In(m, s) => Driver[m] # "local"
      /\ storages \in [Points -> Nat] /\ mounted \in [Points -> Nat]
  BY DEF TypeOK, ListsInv
<1>2. ASSUME NEW n \in Nat, NEW k \in {n, n + 1}, CanUnmount(s, n),
             mounted' = Unmounted(s, n), storages' = UnsetSandboxStorage(s, k)
      PROVE  /\ storages' \in [Points -> Nat] /\ mounted' \in [Points -> Nat]
             /\ \A m \in Points : Lowered(c, m)
  <2>1. ASSUME NEW m \in Points PROVE Lowered(c, m)
    <3>. DEFINE down == Hits(s, m, 1, n)
                back == Hits(s, m, Len(s) + 1, k)
    <3>1. mounted'[m] = mounted[m] - down /\ storages'[m] = storages[m] - back
      BY <1>2 DEF Unmounted, UnsetSandboxStorage
    <3>2. /\ down \in Nat /\ down <= mounted[m] /\ back \in {0, 1}
          /\ back = 1 => /\ In(m, s) /\ Driver[m] = "ephemeral"
                         /\ storages[m] > 0 /\ mounted[m] = 1 /\ down = 1
      BY <1>1, <1>2, HalvesFacts
    <3>3. down > 0 => In(m, s)
      BY <1>1, HitsListed
    <3>4. mounted[m] \in Nat /\ storages[m] \in Nat
      BY <1>1
    <3>. HIDE DEF down, back
    <3>. QED  BY <3>1, <3>2, <3>3, <3>4 DEF Lowered
  <2>2. /\ DOMAIN mounted' = Points /\ DOMAIN storages' = Points
        /\ mounted' = [m \in Points |-> mounted'[m]]
        /\ storages' = [m \in Points |-> storages'[m]]
    BY <1>2 DEF Unmounted, UnsetSandboxStorage
  <2>. QED  BY <2>1, <2>2 DEF Lowered
<1>3. CASE RemoveSucceeds(c)
  <2>1. ASSUME NEW m \in Points, Driver[m] = "plain"
        PROVE  mounted'[m] = mounted[m] - Times(m, s)
    <3>1. mounted'[m] = mounted[m] - Hits(s, m, 1, 2 * Len(s))
      BY <1>3 DEF RemoveSucceeds, Unmounted
    <3>2. storages[m] = 0
      BY <2>1 DEF PlainInv
    <3>. QED  BY <1>1, <3>1, <3>2, HitsPlain
  <2>2. 2 * Len(s) \in Nat /\ 2 * Len(s) \in {2 * Len(s), 2 * Len(s) + 1}
    BY <1>1
  <2>3. /\ CanUnmount(s, 2 * Len(s)) /\ mounted' = Unmounted(s, 2 * Len(s))
        /\ storages' = UnsetSandboxStorage(s, 2 * Len(s))
        /\ mounts' = [mounts EXCEPT ![c] = <<>>]
        /\ containers' = containers \ {c}
    BY <1>3 DEF RemoveSucceeds
  <2>4. /\ storages' \in [Points -> Nat] /\ mounted' \in [Points -> Nat]
        /\ \A m \in Points : Lowered(c, m)
    BY <1>2, <2>2, <2>3
  <2>. QED  BY <2>1, <2>3, <2>4
<1>4. CASE RemoveStops(c)
  <2>1. PICK k \in 1..2 * Len(s) :
            /\ CanUnmount(s, k - 1) /\ mounted' = Unmounted(s, k - 1)
            /\ storages' = UnsetSandboxStorage(s, k)
            /\ UNCHANGED <<mounts, containers>>
    BY <1>4 DEF RemoveStops
  <2>2. k - 1 \in Nat /\ k \in {k - 1, (k - 1) + 1}
    BY <1>1
  <2>3. /\ storages' \in [Points -> Nat] /\ mounted' \in [Points -> Nat]
        /\ \A m \in Points : Lowered(c, m)
    BY <1>2, <2>1, <2>2
  <2>. QED  BY <2>1, <2>3
<1>. QED  BY <1>3, <1>4

-----------------------------------------------------------------------------
(* The handlers of storages.                                               *)

\* What the three handlers have in common: the storage at the head of the
\* list is mounted, skipped, or fails.
Handles(w, m) ==
    /\ wpc[w] = "adding" /\ todo[w] # <<>> /\ m = Head(todo[w])
    /\ storages' = IF Driver[m] = "plain" THEN storages ELSE SetSandboxStorage(m)
    /\ \/ /\ Mounts(w, m) /\ Driver[m] # "local"
          /\ Driver[m] = "ephemeral" => storages[m] = 0
       \/ /\ Skips(w) /\ Driver[m] # "plain"
          /\ Driver[m] = "ephemeral" => storages[m] # 0
       \/ Fails(w)
    /\ UNCHANGED <<mounts, sandboxMounts, containers, fifo, creates, tries>>

\* Each of the three handlers takes the next storage of its request.
LEMMA HandlersHandle ==
    ASSUME TypeOK, NEW w \in Workers,
           \/ EphemeralStorageHandler(w) \/ LocalStorageHandler(w)
           \/ CommonStorageHandler(w)
    PROVE  \E m \in Points : Handles(w, m)
<1>. DEFINE m == Head(todo[w])
<1>1. wpc[w] = "adding" /\ todo[w] # <<>>
  BY DEF EphemeralStorageHandler, LocalStorageHandler, CommonStorageHandler, Handling
<1>2. m \in Points
  BY <1>1, InHeadOrTail DEF TypeOK
<1>3. CASE EphemeralStorageHandler(w)
  <2>1. Driver[m] = "ephemeral"
    BY <1>3 DEF EphemeralStorageHandler, Handling
  <2>. QED  BY <1>1, <1>2, <1>3, <2>1 DEF EphemeralStorageHandler, Handles, IsNew
<1>4. CASE LocalStorageHandler(w)
  <2>1. Driver[m] = "local"
    BY <1>4 DEF LocalStorageHandler, Handling
  <2>. QED  BY <1>1, <1>2, <1>4, <2>1 DEF LocalStorageHandler, Handles
<1>5. CASE CommonStorageHandler(w)
  <2>1. Driver[m] = "plain"
    BY <1>5 DEF CommonStorageHandler, Handling
  <2>. QED  BY <1>1, <1>2, <1>5, <2>1 DEF CommonStorageHandler, Handles
<1>. QED  BY <1>3, <1>4, <1>5

-----------------------------------------------------------------------------
(* The invariant.                                                          *)

\* Nothing is mounted at first.
LEMMA StorageInit == Init => StorageInv
<1>. SUFFICES ASSUME Init PROVE StorageInv
  OBVIOUS
<1>1. TypeOK
  BY DEF Init, TypeOK
<1>2. WorkersInv /\ ListsInv
  BY InNone DEF Init, WorkersInv, ListsInv
<1>3. PlainInv /\ MountedOnce
  BY DEF Init, PlainInv, MountedOnce, Ephemeral
<1>4. CountInv
  <2>1. ASSUME NEW m \in Counted
        PROVE  storages[m] >= Cardinality(Users(m)) + Cardinality(Pending(m))
    <3>1. Users(m) = {} /\ Pending(m) = {} /\ storages[m] = 0
      BY <2>1 DEF Init, Users, Pending, HasCounted, Counted
    <3>. QED  BY <3>1, FS_EmptySet
  <2>2. IsFiniteSet(containers)
    BY FS_EmptySet DEF Init
  <2>. QED  BY <2>1, <2>2 DEF CountInv
<1>5. MountInv
  BY DEF Init, MountInv, Ephemeral
<1>6. OnceInv
  BY StorageAssumption DEF Init, OnceInv
<1>7. OwnInv
  BY DEF Init, OwnInv
<1>. QED  BY <1>1, <1>2, <1>3, <1>4, <1>5, <1>6, <1>7 DEF StorageInv

\* A request for c begins, and c is a container or the sandbox.
LEMMA BeginKeeps ==
    ASSUME StorageInv, NEW w \in Workers, NEW c, NEW points \in Seq(Points),
           Begin(w, c, points),
           \A m : In(m, points) <=> Wants(c, m),
           \/ c \in Cids /\ creates' = [creates EXCEPT ![c] = @ + 1]
           \/ c = SandboxId /\ UNCHANGED creates
    PROVE  StorageInv'
<1>. USE DEF StorageInv
<1>0. /\ wpc' = [wpc EXCEPT ![w] = "adding"] /\ wcid' = [wcid EXCEPT ![w] = c]
      /\ todo' = [todo EXCEPT ![w] = points] /\ acc' = [acc EXCEPT ![w] = <<>>]
      /\ UNCHANGED <<storages, mounts, sandboxMounts, containers, fifo, mounted,
                     failed, tries>>
      /\ wpc[w] = "idle"
  BY DEF Begin
<1>1. TypeOK'
  <2>1. creates' \in [Cids -> Nat]
    <3>1. creates \in [Cids -> Nat]
      BY DEF TypeOK
    <3>. QED  BY <3>1
  <2>2. wcid' \in [Workers -> Cids \cup {SandboxId, NoCid}]
    BY <1>0 DEF TypeOK
  <2>3. todo' \in [Workers -> Seq(Points)] /\ acc' \in [Workers -> Seq(Points)]
    BY <1>0 DEF TypeOK
  <2>4. wpc' \in [Workers -> {"idle", "adding"}]
    BY <1>0 DEF TypeOK
  <2>. QED  BY <1>0, <2>1, <2>2, <2>3, <2>4 DEF TypeOK
<1>2. /\ wpc'[w] = "adding" /\ wcid'[w] = c /\ todo'[w] = points /\ acc'[w] = <<>>
      /\ \A v \in Workers \ {w} : /\ wpc'[v] = wpc[v] /\ wcid'[v] = wcid[v]
                                  /\ todo'[v] = todo[v] /\ acc'[v] = acc[v]
  BY <1>0 DEF TypeOK
<1>3. c # NoCid /\ SandboxId \notin Cids
  BY StorageAssumption
<1>4. WorkersInv'
  <2>1. ASSUME NEW v \in Workers
        PROVE  /\ wpc'[v] = "idle" => wcid'[v] = NoCid /\ todo'[v] = <<>> /\ acc'[v] = <<>>
               /\ wpc'[v] = "adding" => wcid'[v] # NoCid
               /\ \A m \in Points : In(m, todo'[v]) => Wants(wcid'[v], m)
               /\ \A m \in Points :
                     In(m, acc'[v]) => Wants(wcid'[v], m) /\ Driver[m] # "local"
    <3>1. CASE v = w
      BY <1>2, <1>3, <3>1, InNone
    <3>2. CASE v # w
      BY <1>2, <3>2 DEF WorkersInv
    <3>. QED  BY <3>1, <3>2
  <2>. QED  BY <2>1 DEF WorkersInv
<1>5. (ListsInv /\ PlainInv /\ MountedOnce /\ MountInv)'
  BY <1>0 DEF ListsInv, PlainInv, MountedOnce, MountInv, Removed
<1>6. CountInv'
  <2>1. ASSUME NEW m \in Counted
        PROVE  /\ storages'[m] = storages[m] /\ Users(m)' = Users(m)
               /\ Retried(m)' = Retried(m) /\ Pending(m)' = Pending(m)
    <3>1. storages'[m] = storages[m] /\ Users(m)' = Users(m) /\ Retried(m)' = Retried(m)
      BY <1>0 DEF Users, Retried
    <3>2. \A v \in Workers \ {w} : HasCounted(v, m)' = HasCounted(v, m)
      BY <1>2 DEF HasCounted
    <3>3. ~ HasCounted(w, m)
      BY <1>0 DEF HasCounted
    <3>4. ~ HasCounted(w, m)'
      BY <1>2, <1>3 DEF HasCounted, Wants
    <3>. QED  BY <3>1, <3>2, <3>3, <3>4 DEF Pending
  <2>. QED  BY <1>0, <2>1 DEF CountInv
<1>7. wcid[w] = NoCid
  BY <1>0 DEF WorkersInv
<1>8. OnceInv'
  <2>. SUFFICES ASSUME NEW d \in Cids
                PROVE  /\ creates'[d] = 0 => \A v \in Workers : wcid'[v] # d
                       /\ creates'[d] <= 1 =>
                             \A u, v \in Workers : wcid'[u] = d /\ wcid'[v] = d => u = v
                       /\ creates'[d] = 0
                            \/ (creates'[d] = 1 /\ \E v \in Workers : wcid'[v] = d)
                             => d \notin containers' /\ tries'[d] = 0
    BY DEF OnceInv
  <2>1. creates[d] \in Nat /\ creates'[d] = IF d = c THEN creates[d] + 1 ELSE creates[d]
    BY <1>3 DEF TypeOK
  <2>2. containers' = containers /\ tries'[d] = tries[d]
    BY <1>0
  <2>3. CASE d = c
    <3>1. creates'[d] # 0 /\ (creates'[d] <= 1 => creates[d] = 0)
      BY <2>1, <2>3
    <3>2. creates[d] = 0 => /\ \A v \in Workers : wcid[v] # d
                            /\ d \notin containers /\ tries[d] = 0
      BY DEF OnceInv
    <3>3. creates[d] = 0 => \A v \in Workers : wcid'[v] = d => v = w
      BY <1>2, <3>2
    <3>. QED  BY <2>1, <2>2, <3>1, <3>2, <3>3
  <2>4. CASE d # c
    <3>1. creates'[d] = creates[d]
      BY <2>1, <2>4
    <3>2. d # NoCid
      BY StorageAssumption
    <3>3. \A v \in Workers : wcid'[v] = d => wcid[v] = d
      BY <1>2, <2>4
    <3>. QED  BY <2>2, <3>1, <3>3 DEF OnceInv
  <2>. QED  BY <2>3, <2>4
<1>9. OwnInv'
  <2>. SUFFICES ASSUME NEW d \in Cids, NEW m \in Points, Own(d, m)
                PROVE  /\ creates'[d] = 0 => mounted'[m] = 0
                       /\ creates'[d] = 1 =>
                             /\ \A v \in Workers :
                                   wcid'[v] = d => mounted'[m] <= Times(m, acc'[v])
                             /\ d \in containers' => mounted'[m] <= Times(m, mounts'[d])
                             /\ d \notin containers' /\ tries'[d] > 0 => mounted'[m] = 0
    BY DEF OwnInv, Own
  <2>1. creates[d] \in Nat /\ creates'[d] = IF d = c THEN creates[d] + 1 ELSE creates[d]
    BY <1>3 DEF TypeOK
  <2>2. /\ containers' = containers /\ tries'[d] = tries[d] /\ mounted' = mounted
        /\ mounts' = mounts
    BY <1>0
  <2>3. CASE d = c
    <3>1. creates'[d] # 0 /\ (creates'[d] = 1 => creates[d] = 0)
      BY <2>1, <2>3
    <3>2. creates[d] = 0 => /\ \A v \in Workers : wcid[v] # d
                            /\ d \notin containers /\ tries[d] = 0 /\ mounted[m] = 0
      BY DEF OnceInv, OwnInv
    <3>3. creates[d] = 0 => \A v \in Workers : wcid'[v] = d => acc'[v] = <<>>
      BY <1>2, <3>2
    <3>4. Times(m, <<>>) \in Nat
      BY <<>> \in Seq(Points), TimesType
    <3>. QED  BY <2>2, <3>1, <3>2, <3>3, <3>4
  <2>4. CASE d # c
    <3>1. creates'[d] = creates[d]
      BY <2>1, <2>4
    <3>2. \A v \in Workers : wcid'[v] = d => wcid[v] = d /\ acc'[v] = acc[v]
      BY <1>2, <2>4
    <3>. QED  BY <2>2, <3>1, <3>2 DEF OwnInv
  <2>. QED  BY <2>3, <2>4
<1>. QED  BY <1>1, <1>4, <1>5, <1>6, <1>8, <1>9

\* What a handler does to its own thread and to the storage m.
LEMMA HandlesFacts ==
    ASSUME TypeOK, NEW w \in Workers, NEW m \in Points, Handles(w, m)
    PROVE  /\ wpc[w] = "adding" /\ todo[w] # <<>> /\ m = Head(todo[w])
           /\ storages'[m] = IF Driver[m] = "plain" THEN storages[m] ELSE storages[m] + 1
           /\ \A x \in Points \ {m} : storages'[x] = storages[x] /\ mounted'[x] = mounted[x]
           /\ \A v \in Workers \ {w} : /\ wpc'[v] = wpc[v] /\ wcid'[v] = wcid[v]
                                       /\ todo'[v] = todo[v] /\ acc'[v] = acc[v]
           /\ \/ /\ mounted'[m] = mounted[m] + 1 /\ failed' = failed
                 /\ acc'[w] = Append(acc[w], m) /\ todo'[w] = Tail(todo[w])
                 /\ wpc'[w] = "adding" /\ wcid'[w] = wcid[w]
                 /\ Driver[m] # "local" /\ (Driver[m] = "ephemeral" => storages[m] = 0)
              \/ /\ mounted'[m] = mounted[m] /\ failed' = failed
                 /\ acc'[w] = acc[w] /\ todo'[w] = Tail(todo[w])
                 /\ wpc'[w] = "adding" /\ wcid'[w] = wcid[w]
                 /\ Driver[m] # "plain" /\ (Driver[m] = "ephemeral" => storages[m] # 0)
              \/ /\ mounted'[m] = mounted[m] /\ failed' = failed \cup {m}
                 /\ acc'[w] = <<>> /\ todo'[w] = <<>>
                 /\ wpc'[w] = "idle" /\ wcid'[w] = NoCid
           /\ UNCHANGED <<mounts, sandboxMounts, containers, fifo, creates, tries>>
<1>1. /\ wpc[w] = "adding" /\ todo[w] # <<>> /\ m = Head(todo[w])
      /\ UNCHANGED <<mounts, sandboxMounts, containers, fifo, creates, tries>>
  BY DEF Handles
<1>2. /\ storages'[m] = IF Driver[m] = "plain" THEN storages[m] ELSE storages[m] + 1
      /\ \A x \in Points \ {m} : storages'[x] = storages[x]
  BY DEF Handles, SetSandboxStorage, TypeOK
<1>3. CASE Mounts(w, m) /\ Driver[m] # "local" /\ (Driver[m] = "ephemeral" => storages[m] = 0)
  BY <1>1, <1>2, <1>3 DEF Mounts, TypeOK
<1>4. CASE Skips(w) /\ Driver[m] # "plain" /\ (Driver[m] = "ephemeral" => storages[m] # 0)
  BY <1>1, <1>2, <1>4 DEF Skips, TypeOK
<1>5. CASE Fails(w)
  BY <1>1, <1>2, <1>5 DEF Fails, TypeOK
<1>. QED  BY <1>3, <1>4, <1>5 DEF Handles

\* A handler keeps the types.
LEMMA HandlesType ==
    ASSUME TypeOK, NEW w \in Workers, NEW m \in Points, Handles(w, m)
    PROVE  TypeOK'
<1>1. storages' \in [Points -> Nat]
  BY DEF Handles, SetSandboxStorage, TypeOK
<1>2. Tail(todo[w]) \in Seq(Points) /\ Append(acc[w], m) \in Seq(Points)
  BY InHeadOrTail, InAppended DEF Handles, TypeOK
<1>3. /\ mounted' \in [Points -> Nat] /\ failed' \subseteq Points
      /\ wpc' \in [Workers -> {"idle", "adding"}]
      /\ wcid' \in [Workers -> Cids \cup {SandboxId, NoCid}]
      /\ todo' \in [Workers -> Seq(Points)] /\ acc' \in [Workers -> Seq(Points)]
  <2>1. CASE Mounts(w, m)
    BY <1>2, <2>1 DEF Mounts, TypeOK
  <2>2. CASE Skips(w)
    BY <1>2, <2>2 DEF Skips, TypeOK
  <2>3. CASE Fails(w)
    BY <2>3 DEF Fails, Handles, TypeOK
  <2>. QED  BY <2>1, <2>2, <2>3 DEF Handles
<1>. QED  BY <1>1, <1>3 DEF Handles, TypeOK

\* Requests in progress are finitely many ...
LEMMA PendingFinite ==
    \A m : IsFiniteSet(Pending(m)) /\ Cardinality(Pending(m)) \in Nat
<1>. SUFFICES ASSUME NEW m PROVE IsFiniteSet(Pending(m)) /\ Cardinality(Pending(m)) \in Nat
  OBVIOUS
<1>1. Pending(m) \in SUBSET Workers /\ IsFiniteSet(Workers)
  BY StorageAssumption DEF Pending
<1>2. IsFiniteSet(Pending(m))
  BY <1>1, FS_Subset
<1>. QED  BY <1>2, FS_CardinalityType

\* ... and so are the users of a mount point.
LEMMA UsersFinite ==
    ASSUME CountInv
    PROVE  \A m : IsFiniteSet(Users(m)) /\ Cardinality(Users(m)) \in Nat
<1>. SUFFICES ASSUME NEW m PROVE IsFiniteSet(Users(m)) /\ Cardinality(Users(m)) \in Nat
  OBVIOUS
<1>1. Users(m) \in SUBSET containers /\ IsFiniteSet(containers)
  BY DEF Users, CountInv
<1>2. IsFiniteSet(Users(m))
  BY <1>1, FS_Subset
<1>. QED  BY <1>2, FS_CardinalityType

\* add_storages, one storage at a time.
LEMMA HandlesKeeps ==
    ASSUME StorageInv, NEW w \in Workers, NEW m \in Points, Handles(w, m)
    PROVE  StorageInv'
<1>. USE DEF StorageInv
<1>. DEFINE A == /\ mounted'[m] = mounted[m] + 1 /\ failed' = failed
                 /\ acc'[w] = Append(acc[w], m) /\ todo'[w] = Tail(todo[w])
                 /\ wpc'[w] = "adding" /\ wcid'[w] = wcid[w]
                 /\ Driver[m] # "local" /\ (Driver[m] = "ephemeral" => storages[m] = 0)
            B == /\ mounted'[m] = mounted[m] /\ failed' = failed
                 /\ acc'[w] = acc[w] /\ todo'[w] = Tail(todo[w])
                 /\ wpc'[w] = "adding" /\ wcid'[w] = wcid[w]
                 /\ Driver[m] # "plain" /\ (Driver[m] = "ephemeral" => storages[m] # 0)
            C == /\ mounted'[m] = mounted[m] /\ failed' = failed \cup {m}
                 /\ acc'[w] = <<>> /\ todo'[w] = <<>>
                 /\ wpc'[w] = "idle" /\ wcid'[w] = NoCid
<1>1. /\ wpc[w] = "adding" /\ todo[w] # <<>> /\ m = Head(todo[w])
      /\ UNCHANGED <<mounts, sandboxMounts, containers, fifo, creates, tries>>
      /\ A \/ B \/ C
  BY HandlesFacts
<1>2. /\ storages'[m] = IF Driver[m] = "plain" THEN storages[m] ELSE storages[m] + 1
      /\ \A x \in Points \ {m} : storages'[x] = storages[x] /\ mounted'[x] = mounted[x]
  BY HandlesFacts
<1>3. \A v \in Workers \ {w} : /\ wpc'[v] = wpc[v] /\ wcid'[v] = wcid[v]
                               /\ todo'[v] = todo[v] /\ acc'[v] = acc[v]
  BY HandlesFacts
<1>4. TypeOK'
  BY HandlesType
<1>5. /\ storages \in [Points -> Nat] /\ mounted \in [Points -> Nat]
      /\ todo[w] \in Seq(Points) /\ acc[w] \in Seq(Points)
      /\ wcid[w] \in Cids \cup {SandboxId}
  BY <1>1 DEF TypeOK, WorkersInv
<1>6. /\ \A x : In(x, todo[w]) <=> x = m \/ In(x, Tail(todo[w]))
      /\ \A x : In(x, Append(acc[w], m)) <=> In(x, acc[w]) \/ x = m
      /\ Wants(wcid[w], m)
  <2>1. \A x : In(x, todo[w]) <=> x = m \/ In(x, Tail(todo[w]))
    BY <1>1, <1>5, InHeadOrTail
  <2>2. \A x : In(x, Append(acc[w], m)) <=> In(x, acc[w]) \/ x = m
    BY <1>5, InAppended
  <2>. QED  BY <2>1, <2>2 DEF WorkersInv
<1>7. NoCid \notin Cids /\ NoCid # SandboxId /\ SandboxId \notin Cids
  BY StorageAssumption
<1>8. WorkersInv'
  <2>1. ASSUME NEW v \in Workers
        PROVE  /\ wpc'[v] = "idle" => wcid'[v] = NoCid /\ todo'[v] = <<>> /\ acc'[v] = <<>>
               /\ wpc'[v] = "adding" => wcid'[v] # NoCid
               /\ \A x \in Points : In(x, todo'[v]) => Wants(wcid'[v], x)
               /\ \A x \in Points :
                     In(x, acc'[v]) => Wants(wcid'[v], x) /\ Driver[x] # "local"
    <3>0. CASE v # w
      BY <1>3, <3>0 DEF WorkersInv
    <3>1. CASE v = w /\ A
      BY <1>5, <1>6, <1>7, <3>1 DEF WorkersInv
    <3>2. CASE v = w /\ B
      BY <1>5, <1>6, <1>7, <3>2 DEF WorkersInv
    <3>3. CASE v = w /\ C
      BY <3>3, InNone DEF WorkersInv
    <3>. QED  BY <1>1, <3>0, <3>1, <3>2, <3>3
  <2>. QED  BY <2>1 DEF WorkersInv
<1>9. (ListsInv /\ PlainInv)'
  BY <1>1, <1>2 DEF ListsInv, PlainInv
<1>10. MountedOnce'
  <2>1. ASSUME NEW x \in Points, Driver[x] = "ephemeral"
        PROVE  mounted'[x] \in {0, 1} /\ (mounted'[x] = 1 => storages'[x] > 0)
    <3>1. mounted[x] \in {0, 1} /\ (mounted[x] = 1 => storages[x] > 0)
      BY <2>1 DEF MountedOnce, Ephemeral
    <3>. QED  BY <1>1, <1>2, <1>5, <2>1, <3>1
  <2>. QED  BY <2>1 DEF MountedOnce, Ephemeral
<1>11. MountInv'
  <2>1. ASSUME NEW x \in Points, Driver[x] = "ephemeral", x \notin failed',
               ~ Removed(x), storages'[x] > 0
        PROVE  mounted'[x] = 1
    <3>1. x \notin failed
      BY <1>1, <2>1
    <3>2. /\ storages[x] > 0 => mounted[x] = 1
          /\ mounted[x] \in {0, 1} /\ (mounted[x] = 1 => storages[x] > 0)
      BY <2>1, <3>1 DEF MountedOnce, MountInv, Ephemeral
    <3>. QED  BY <1>1, <1>2, <1>5, <2>1, <3>2
  <2>. QED  BY <1>1, <2>1 DEF MountInv, Ephemeral, Removed
<1>12. CountInv'
  <2>1. ASSUME NEW x \in Counted, Driver[x] = "local" \/ ~ Retried(x)
        PROVE  storages'[x] >= Cardinality(Users(x)) + Cardinality(Pending(x)')
    <3>. DEFINE P == Pending(x)
                Q == Pending(x)'
                u == Cardinality(Users(x))
    <3>1. u \in Nat /\ IsFiniteSet(P) /\ Cardinality(P) \in Nat
      BY UsersFinite, PendingFinite
    <3>2. storages[x] >= u + Cardinality(P) /\ x \in Points /\ Driver[x] # "plain"
      BY <2>1 DEF CountInv, Counted
    <3>3. \A v \in Workers \ {w} : HasCounted(v, x)' = HasCounted(v, x)
      BY <1>3 DEF HasCounted
    <3>4. Q \subseteq P \cup {w}
      BY <3>3 DEF Pending
    <3>5. CASE x = m
      <4>1. IsFiniteSet(P \cup {w}) /\ Cardinality(P \cup {w}) <= Cardinality(P) + 1
        <5>1. /\ IsFiniteSet(P \cup {w})
              /\ Cardinality(P \cup {w}) =
                    IF w \in P THEN Cardinality(P) ELSE Cardinality(P) + 1
          BY <3>1, FS_AddElement
        <5>. HIDE DEF P
        <5>. QED  BY <3>1, <5>1
      <4>2. IsFiniteSet(Q) /\ Cardinality(Q) <= Cardinality(P \cup {w})
        BY <3>4, <4>1, FS_Subset
      <4>3. storages'[x] = storages[x] + 1 /\ storages[x] \in Nat
        BY <1>2, <1>5, <3>2, <3>5
      <4>4. Cardinality(Q) \in Nat /\ Cardinality(P \cup {w}) \in Nat
        BY <4>1, <4>2, FS_CardinalityType
      <4>. HIDE DEF P, Q, u
      <4>5. storages'[x] >= u + Cardinality(Q)
        BY <3>1, <3>2, <4>1, <4>2, <4>3, <4>4
      <4>. QED  BY <4>5 DEF P, Q, u
    <3>6. CASE x # m
      <4>1. HasCounted(w, x)' => HasCounted(w, x)
        <5>1. wpc'[w] = "adding" => wcid'[w] = wcid[w] /\ todo'[w] = Tail(todo[w])
          BY <1>1
        <5>. QED  BY <1>1, <1>6, <3>6, <5>1 DEF HasCounted
      <4>2. Q \subseteq P
        BY <3>3, <4>1 DEF Pending
      <4>3. Cardinality(Q) <= Cardinality(P) /\ IsFiniteSet(Q)
        BY <3>1, <4>2, FS_Subset
      <4>4. Cardinality(Q) \in Nat
        BY <4>3, FS_CardinalityType
      <4>5. storages'[x] = storages[x] /\ storages[x] \in Nat
        BY <1>2, <1>5, <3>2, <3>6
      <4>. HIDE DEF P, Q, u
      <4>6. storages'[x] >= u + Cardinality(Q)
        BY <3>1, <3>2, <4>3, <4>4, <4>5
      <4>. QED  BY <4>6 DEF P, Q, u
    <3>. QED  BY <3>5, <3>6
  <2>2. ASSUME NEW x \in Counted PROVE Users(x)' = Users(x) /\ Retried(x)' = Retried(x)
    BY <1>1 DEF Users, Retried
  <2>3. IsFiniteSet(containers')
    BY <1>1 DEF CountInv
  <2>. QED  BY <2>1, <2>2, <2>3 DEF CountInv
<1>13. \A v \in Workers, d \in Cids : wcid'[v] = d => wcid[v] = d
  BY <1>1, <1>3, <1>7
<1>14. OnceInv'
  BY <1>1, <1>13 DEF OnceInv
<1>15. OwnInv'
  <2>. SUFFICES ASSUME NEW d \in Cids, NEW x \in Points, Own(d, x)
                PROVE  /\ creates[d] = 0 => mounted'[x] = 0
                       /\ creates[d] = 1 =>
                             /\ \A v \in Workers :
                                   wcid'[v] = d => mounted'[x] <= Times(x, acc'[v])
                             /\ d \in containers => mounted'[x] <= Times(x, mounts[d])
                             /\ d \notin containers /\ tries[d] > 0 => mounted'[x] = 0
    BY <1>1 DEF OwnInv, Own
  <2>1. /\ creates[d] = 0 => mounted[x] = 0
        /\ creates[d] = 1 =>
              /\ \A v \in Workers : wcid[v] = d => mounted[x] <= Times(x, acc[v])
              /\ d \in containers => mounted[x] <= Times(x, mounts[d])
              /\ d \notin containers /\ tries[d] > 0 => mounted[x] = 0
    BY DEF OwnInv
  <2>2. Times(x, Append(acc[w], m)) = Times(x, acc[w]) + IF x = m THEN 1 ELSE 0
    BY <1>5, TimesAppended
  <2>3. Times(x, acc[w]) \in Nat /\ mounted[x] \in Nat
    BY <1>5, TimesType
  <2>4. CASE x # m
    <3>1. mounted'[x] = mounted[x]
      BY <1>2, <2>4
    <3>2. ASSUME NEW v \in Workers, wcid'[v] = d PROVE Times(x, acc'[v]) = Times(x, acc[v])
      <4>1. CASE v # w
        BY <1>3, <4>1
      <4>2. CASE v = w
        <5>1. ~ C
          BY <1>7, <3>2, <4>2
        <5>2. acc'[w] = Append(acc[w], m) \/ acc'[w] = acc[w]
          BY <1>1, <5>1
        <5>3. Times(x, Append(acc[w], m)) = Times(x, acc[w])
          BY <2>2, <2>3, <2>4
        <5>. QED  BY <4>2, <5>2, <5>3
      <4>. QED  BY <4>1, <4>2
    <3>. QED  BY <1>13, <2>1, <3>1, <3>2
  <2>5. CASE x = m
    <3>1. Driver[m] = "plain"
      BY <2>5 DEF Own
    <3>2. wcid[w] = d
      BY <1>5, <1>6, <2>5 DEF Own, Wants
    <3>3. creates[d] # 0
      BY <3>2 DEF OnceInv
    <3>4. creates[d] = 1 => /\ \A v \in Workers : wcid[v] = d => v = w
                            /\ d \notin containers /\ tries[d] = 0
      BY <3>2 DEF OnceInv
    <3>5. CASE A
      <4>1. Times(x, acc'[w]) = Times(x, acc[w]) + 1 /\ mounted'[x] = mounted[x] + 1
        BY <2>2, <2>5, <3>5
      <4>2. creates[d] = 1 => mounted[x] <= Times(x, acc[w])
        BY <2>1, <3>2
      <4>. QED  BY <1>13, <2>3, <3>3, <3>4, <4>1, <4>2
    <3>6. CASE C
      <4>1. creates[d] = 1 => \A v \in Workers : wcid'[v] # d
        BY <1>7, <1>13, <3>4, <3>6
      <4>. QED  BY <3>3, <3>4, <4>1
    <3>. QED  BY <1>1, <3>1, <3>5, <3>6
  <2>. QED  BY <2>4, <2>5
<1>. QED  BY <1>4, <1>8, <1>9, <1>10, <1>11, <1>12, <1>14, <1>15

\* The mounts of a request are recorded with its container.
LEMMA RegisterKeeps ==
    ASSUME StorageInv, NEW w \in Workers, Register(w)
    PROVE  StorageInv'
<1>. USE DEF StorageInv
<1>. DEFINE c == wcid[w]
<1>1. /\ wpc[w] = "adding" /\ todo[w] = <<>>
      /\ mounts' = [mounts EXCEPT ![c] = acc[w]]
      /\ containers' \in {containers, containers \cup {c}}
      /\ wpc' = [wpc EXCEPT ![w] = "idle"] /\ wcid' = [wcid EXCEPT ![w] = NoCid]
      /\ acc' = [acc EXCEPT ![w] = <<>>]
      /\ UNCHANGED <<storages, sandboxMounts, mounted, failed, creates, tries, todo>>
  BY DEF Register
<1>2. c \in Cids /\ NoCid \notin Cids /\ SandboxId \notin Cids
  BY <1>1, StorageAssumption DEF Register, TypeOK, WorkersInv
<1>3. /\ wpc'[w] = "idle" /\ wcid'[w] = NoCid /\ acc'[w] = <<>>
      /\ \A v \in Workers \ {w} : /\ wpc'[v] = wpc[v] /\ wcid'[v] = wcid[v]
                                  /\ acc'[v] = acc[v]
      /\ mounts'[c] = acc[w] /\ \A d \in Cids \ {c} : mounts'[d] = mounts[d]
  BY <1>1, <1>2 DEF TypeOK
<1>4. TypeOK'
  <2>1. fifo' \subseteq Cids /\ containers' \subseteq Cids
    BY <1>1, <1>2 DEF Register, TypeOK
  <2>2. mounts' \in [Cids -> Seq(Points)]
    BY <1>1, <1>2 DEF TypeOK
  <2>3. /\ wpc' \in [Workers -> {"idle", "adding"}]
        /\ wcid' \in [Workers -> Cids \cup {SandboxId, NoCid}]
        /\ acc' \in [Workers -> Seq(Points)]
    BY <1>1 DEF TypeOK
  <2>. QED  BY <1>1, <2>1, <2>2, <2>3 DEF TypeOK
<1>5. WorkersInv'
  <2>1. ASSUME NEW v \in Workers
        PROVE  /\ wpc'[v] = "idle" => wcid'[v] = NoCid /\ todo[v] = <<>> /\ acc'[v] = <<>>
               /\ wpc'[v] = "adding" => wcid'[v] # NoCid
               /\ \A x \in Points : In(x, todo[v]) => Wants(wcid'[v], x)
               /\ \A x \in Points :
                     In(x, acc'[v]) => Wants(wcid'[v], x) /\ Driver[x] # "local"
    <3>1. CASE v # w
      BY <1>3, <3>1 DEF WorkersInv
    <3>2. CASE v = w
      BY <1>1, <1>3, <3>2, InNone
    <3>. QED  BY <3>1, <3>2
  <2>. QED  BY <1>1, <2>1 DEF WorkersInv
<1>6. ListsInv'
  <2>1. ASSUME NEW d \in Cids, NEW x \in Points, In(x, mounts'[d])
        PROVE  Asks(d, x) /\ Driver[x] # "local"
    <3>1. CASE d = c
      BY <1>2, <1>3, <2>1, <3>1 DEF WorkersInv, Wants
    <3>2. CASE d # c
      BY <1>3, <2>1, <3>2 DEF ListsInv
    <3>. QED  BY <3>1, <3>2
  <2>. QED  BY <2>1 DEF ListsInv
<1>7. (PlainInv /\ MountedOnce /\ MountInv)'
  BY <1>1 DEF PlainInv, MountedOnce, MountInv, Removed
<1>8. CountInv'
  <2>1. ASSUME NEW x \in Counted, Driver[x] = "local" \/ ~ Retried(x)
        PROVE  storages[x] >= Cardinality(Users(x)') + Cardinality(Pending(x)')
    <3>. DEFINE P == Pending(x)
                Q == Pending(x)'
                U == Users(x)
                V == Users(x)'
    <3>1. /\ IsFiniteSet(U) /\ Cardinality(U) \in Nat
          /\ IsFiniteSet(P) /\ Cardinality(P) \in Nat
      BY UsersFinite, PendingFinite
    <3>2. storages[x] >= Cardinality(U) + Cardinality(P) /\ storages[x] \in Nat
      BY <2>1 DEF CountInv, Counted, TypeOK
    <3>3. Q = P \ {w}
      <4>1. \A v \in Workers \ {w} : HasCounted(v, x)' = HasCounted(v, x)
        BY <1>1, <1>3 DEF HasCounted
      <4>2. ~ HasCounted(w, x)'
        BY <1>3 DEF HasCounted
      <4>. QED  BY <4>1, <4>2 DEF Pending
    <3>4. V \subseteq U \cup {c}
      BY <1>1 DEF Users
    <3>5. CASE Asks(c, x)
      <4>1. w \in P
        BY <1>1, <1>2, <3>5, InNone DEF Pending, HasCounted
      <4>2. Cardinality(Q) = Cardinality(P) - 1
        BY <3>1, <3>3, <4>1, FS_RemoveElement
      <4>3. /\ IsFiniteSet(U \cup {c})
            /\ Cardinality(U \cup {c}) =
                  IF c \in U THEN Cardinality(U) ELSE Cardinality(U) + 1
        BY <3>1, FS_AddElement
      <4>4. IsFiniteSet(V) /\ Cardinality(V) <= Cardinality(U \cup {c})
        BY <3>4, <4>3, FS_Subset
      <4>5. Cardinality(V) \in Nat
        BY <4>4, FS_CardinalityType
      <4>. HIDE DEF P, Q, U, V, c
      <4>6. storages[x] >= Cardinality(V) + Cardinality(Q)
        BY <3>1, <3>2, <4>2, <4>3, <4>4, <4>5
      <4>. QED  BY <4>6 DEF P, Q, U, V
    <3>6. CASE ~ Asks(c, x)
      <4>1. V = U
        BY <1>1, <3>6 DEF Users
      <4>2. IsFiniteSet(Q) /\ Cardinality(Q) <= Cardinality(P)
        BY <3>1, <3>3, FS_Subset
      <4>3. Cardinality(Q) \in Nat
        BY <4>2, FS_CardinalityType
      <4>. HIDE DEF P, Q, U, V, c
      <4>4. storages[x] >= Cardinality(V) + Cardinality(Q)
        BY <3>1, <3>2, <4>1, <4>2, <4>3
      <4>. QED  BY <4>4 DEF P, Q, U, V
    <3>. QED  BY <3>5, <3>6
  <2>2. IsFiniteSet(containers')
    BY <1>1, FS_AddElement DEF CountInv
  <2>3. ASSUME NEW x \in Counted PROVE Retried(x)' = Retried(x)
    BY <1>1 DEF Retried
  <2>. QED  BY <1>1, <2>1, <2>2, <2>3 DEF CountInv
<1>9. \A v \in Workers, d \in Cids : wcid'[v] = d => wcid[v] = d /\ v # w
  BY <1>2, <1>3
<1>10. \A d \in Cids : d # c => (d \in containers' <=> d \in containers)
  BY <1>1
<1>11. OnceInv'
  <2>1. ASSUME NEW d \in Cids, creates[d] = 0 PROVE d # c
    BY <2>1 DEF OnceInv
  <2>2. ASSUME NEW d \in Cids, creates[d] = 1, NEW v \in Workers, wcid'[v] = d PROVE d # c
    <3>1. wcid[v] = d /\ v # w /\ creates[d] <= 1
      BY <1>9, <2>2
    <3>. QED  BY <3>1 DEF OnceInv
  <2>3. ASSUME NEW d \in Cids,
               creates[d] = 0 \/ (creates[d] = 1 /\ \E v \in Workers : wcid'[v] = d)
        PROVE  d \notin containers' /\ tries[d] = 0
    BY <1>9, <1>10, <2>1, <2>2, <2>3 DEF OnceInv
  <2>4. ASSUME NEW d \in Cids
        PROVE  /\ creates[d] = 0 => \A v \in Workers : wcid'[v] # d
               /\ creates[d] <= 1 =>
                     \A u, v \in Workers : wcid'[u] = d /\ wcid'[v] = d => u = v
    BY <1>9 DEF OnceInv
  <2>. QED  BY <1>1, <2>3, <2>4 DEF OnceInv
<1>12. OwnInv'
  <2>. SUFFICES ASSUME NEW d \in Cids, NEW x \in Points, Own(d, x)
                PROVE  /\ creates[d] = 0 => mounted[x] = 0
                       /\ creates[d] = 1 =>
                             /\ \A v \in Workers :
                                   wcid'[v] = d => mounted[x] <= Times(x, acc'[v])
                             /\ d \in containers' => mounted[x] <= Times(x, mounts'[d])
                             /\ d \notin containers' /\ tries[d] > 0 => mounted[x] = 0
    BY <1>1 DEF OwnInv, Own
  <2>1. /\ creates[d] = 0 => mounted[x] = 0
        /\ creates[d] = 1 =>
              /\ \A v \in Workers : wcid[v] = d => mounted[x] <= Times(x, acc[v])
              /\ d \in containers => mounted[x] <= Times(x, mounts[d])
              /\ d \notin containers /\ tries[d] > 0 => mounted[x] = 0
    BY DEF OwnInv
  <2>2. \A v \in Workers : wcid'[v] = d => wcid[v] = d /\ acc'[v] = acc[v]
    BY <1>3, <1>9
  <2>3. CASE d # c
    BY <1>3, <1>10, <2>1, <2>2, <2>3
  <2>4. CASE d = c
    <3>1. creates[d] = 1 => tries[d] = 0
      BY <2>4 DEF OnceInv
    <3>2. mounts'[d] = acc[w] /\ wcid[w] = d
      BY <1>3, <2>4
    <3>. QED  BY <2>1, <2>2, <3>1, <3>2
  <2>. QED  BY <2>3, <2>4
<1>. QED  BY <1>4, <1>5, <1>6, <1>7, <1>8, <1>11, <1>12

\* The mounts of CreateSandbox are recorded with the sandbox.
LEMMA RegisterSandboxKeeps ==
    ASSUME StorageInv, NEW w \in Workers, RegisterSandbox(w)
    PROVE  StorageInv'
<1>. USE DEF StorageInv
<1>1. /\ wpc[w] = "adding" /\ todo[w] = <<>> /\ wcid[w] = SandboxId
      /\ sandboxMounts' = acc[w]
      /\ wpc' = [wpc EXCEPT ![w] = "idle"] /\ wcid' = [wcid EXCEPT ![w] = NoCid]
      /\ acc' = [acc EXCEPT ![w] = <<>>]
      /\ UNCHANGED <<storages, mounts, containers, fifo, mounted, failed, creates, tries,
                     todo>>
  BY DEF RegisterSandbox
<1>2. NoCid \notin Cids /\ SandboxId \notin Cids
  BY StorageAssumption
<1>3. /\ wpc'[w] = "idle" /\ wcid'[w] = NoCid /\ acc'[w] = <<>>
      /\ \A v \in Workers \ {w} : /\ wpc'[v] = wpc[v] /\ wcid'[v] = wcid[v]
                                  /\ acc'[v] = acc[v]
  BY <1>1 DEF TypeOK
<1>4. TypeOK'
  <2>1. /\ wpc' \in [Workers -> {"idle", "adding"}]
        /\ wcid' \in [Workers -> Cids \cup {SandboxId, NoCid}]
        /\ acc' \in [Workers -> Seq(Points)] /\ sandboxMounts' \in Seq(Points)
    BY <1>1 DEF TypeOK
  <2>. QED  BY <1>1, <2>1 DEF TypeOK
<1>5. WorkersInv'
  <2>1. ASSUME NEW v \in Workers
        PROVE  /\ wpc'[v] = "idle" => wcid'[v] = NoCid /\ todo[v] = <<>> /\ acc'[v] = <<>>
               /\ wpc'[v] = "adding" => wcid'[v] # NoCid
               /\ \A x \in Points : In(x, todo[v]) => Wants(wcid'[v], x)
               /\ \A x \in Points :
                     In(x, acc'[v]) => Wants(wcid'[v], x) /\ Driver[x] # "local"
    <3>1. CASE v # w
      BY <1>3, <3>1 DEF WorkersInv
    <3>2. CASE v = w
      BY <1>1, <1>3, <3>2, InNone
    <3>. QED  BY <3>1, <3>2
  <2>. QED  BY <1>1, <2>1 DEF WorkersInv
<1>6. (ListsInv /\ PlainInv /\ MountedOnce /\ MountInv)'
  BY <1>1 DEF ListsInv, PlainInv, MountedOnce, MountInv, Removed
<1>7. CountInv'
  <2>1. ASSUME NEW x \in Counted
        PROVE  Users(x)' = Users(x) /\ Retried(x)' = Retried(x) /\ Pending(x)' = Pending(x)
    <3>1. Users(x)' = Users(x) /\ Retried(x)' = Retried(x)
      BY <1>1 DEF Users, Retried
    <3>2. \A v \in Workers \ {w} : HasCounted(v, x)' = HasCounted(v, x)
      BY <1>1, <1>3 DEF HasCounted
    <3>3. ~ HasCounted(w, x) /\ ~ HasCounted(w, x)'
      BY <1>1, <1>2, <1>3 DEF HasCounted
    <3>. QED  BY <3>1, <3>2, <3>3 DEF Pending
  <2>. QED  BY <1>1, <2>1 DEF CountInv
<1>8. \A v \in Workers, d \in Cids : wcid'[v] = d => wcid[v] = d /\ acc'[v] = acc[v]
  BY <1>2, <1>3
<1>9. OnceInv'
  BY <1>1, <1>8 DEF OnceInv
<1>10. OwnInv'
  <2>. SUFFICES ASSUME NEW d \in Cids, NEW x \in Points, Own(d, x)
                PROVE  /\ creates[d] = 0 => mounted[x] = 0
                       /\ creates[d] = 1 =>
                             /\ \A v \in Workers :
                                   wcid'[v] = d => mounted[x] <= Times(x, acc'[v])
                             /\ d \in containers => mounted[x] <= Times(x, mounts[d])
                             /\ d \notin containers /\ tries[d] > 0 => mounted[x] = 0
    BY <1>1 DEF OwnInv, Own
  <2>. QED  BY <1>8 DEF OwnInv
<1>. QED  BY <1>4, <1>5, <1>6, <1>7, <1>9, <1>10

\* do_remove_container, whole or in part.
LEMMA RemoveKeeps ==
    ASSUME StorageInv, NEW c \in Cids, RemoveContainer(c)
    PROVE  StorageInv'
<1>. USE DEF StorageInv
<1>1. /\ c \in containers /\ tries' = [tries EXCEPT ![c] = @ + 1]
      /\ UNCHANGED <<sandboxMounts, fifo, failed, creates, wpc, wcid, todo, acc>>
      /\ RemoveSucceeds(c) \/ RemoveStops(c)
  BY DEF RemoveContainer
<1>2. /\ storages' \in [Points -> Nat] /\ mounted' \in [Points -> Nat]
      /\ \A m \in Points : Lowered(c, m)
      /\ \/ /\ mounts' = [mounts EXCEPT ![c] = <<>>]
            /\ containers' = containers \ {c}
            /\ \A m \in Points :
                  Driver[m] = "plain"
                      => mounted'[m] = mounted[m] - Times(m, mounts[c])
         \/ UNCHANGED <<mounts, containers>>
  BY <1>1, RemovalFacts
<1>3. /\ tries'[c] = tries[c] + 1 /\ tries[c] \in Nat
      /\ \A d \in Cids \ {c} : tries'[d] = tries[d]
  BY <1>1 DEF TypeOK
<1>0. /\ containers' \in {containers, containers \ {c}}
      /\ mounts' \in {mounts, [mounts EXCEPT ![c] = <<>>]}
  BY <1>2
<1>4. TypeOK'
  <2>1. tries' \in [Cids -> Nat]
    BY <1>1 DEF TypeOK
  <2>2. mounts' \in [Cids -> Seq(Points)] /\ containers' \subseteq Cids
    <3>1. mounts \in [Cids -> Seq(Points)] /\ <<>> \in Seq(Points)
      BY DEF TypeOK
    <3>. QED  BY <1>0, <3>1 DEF TypeOK
  <2>. QED  BY <1>1, <1>2, <2>1, <2>2 DEF TypeOK
<1>5. WorkersInv'
  BY <1>1 DEF WorkersInv
<1>6. ListsInv'
  <2>1. ASSUME NEW d \in Cids PROVE mounts'[d] = mounts[d] \/ mounts'[d] = <<>>
    BY <1>2 DEF TypeOK
  <2>. QED  BY <2>1, InNone DEF ListsInv
<1>7. PlainInv'
  BY <1>2 DEF PlainInv, Lowered
<1>8. MountedOnce'
  <2>1. ASSUME NEW m \in Points, Driver[m] = "ephemeral"
        PROVE  mounted'[m] \in {0, 1} /\ (mounted'[m] = 1 => storages'[m] > 0)
    <3>1. mounted[m] \in {0, 1} /\ (mounted[m] = 1 => storages[m] > 0)
      BY <2>1 DEF MountedOnce, Ephemeral
    <3>2. Lowered(c, m)
      BY <1>2
    <3>. QED  BY <3>1, <3>2 DEF Lowered
  <2>. QED  BY <2>1 DEF MountedOnce, Ephemeral
<1>9. MountInv'
  <2>1. ASSUME NEW m \in Points, ~ Removed(m)'
        PROVE  ~ Removed(m) /\ storages'[m] = storages[m] /\ mounted'[m] = mounted[m]
    <3>1. ~ Asks(c, m)
      BY <1>3, <2>1 DEF Removed
    <3>2. ~ Removed(m)
      BY <1>3, <2>1 DEF Removed
    <3>3. ~ In(m, mounts[c])
      BY <3>1 DEF ListsInv
    <3>. QED  BY <1>2, <3>2, <3>3 DEF Lowered
  <2>. QED  BY <1>1, <2>1 DEF MountInv, Ephemeral
<1>10. CountInv'
  <2>1. ASSUME NEW x \in Counted, Driver[x] = "local" \/ ~ Retried(x)'
        PROVE  storages'[x] >= Cardinality(Users(x)') + Cardinality(Pending(x))
    <3>. DEFINE P == Pending(x)
                U == Users(x)
                V == Users(x)'
    <3>1. /\ IsFiniteSet(U) /\ Cardinality(U) \in Nat /\ Cardinality(P) \in Nat
      BY UsersFinite, PendingFinite
    <3>2. Driver[x] = "local" \/ ~ Retried(x)
      BY <1>3, <2>1 DEF Retried
    <3>3. storages[x] >= Cardinality(U) + Cardinality(P) /\ storages[x] \in Nat
      BY <2>1, <3>2 DEF CountInv, Counted, TypeOK
    <3>4. V \subseteq U \ {c}
      BY <1>0, <1>3 DEF Users, TypeOK
    <3>5. IsFiniteSet(V) /\ Cardinality(V) <= Cardinality(U \ {c})
      BY <3>1, <3>4, FS_RemoveElement, FS_Subset
    <3>6. /\ Cardinality(V) \in Nat
          /\ Cardinality(U \ {c}) = IF c \in U THEN Cardinality(U) - 1 ELSE Cardinality(U)
      BY <3>1, <3>5, FS_CardinalityType, FS_RemoveElement
    <3>7. CASE storages'[x] = storages[x]
      <4>. HIDE DEF P, U, V
      <4>1. storages'[x] >= Cardinality(V) + Cardinality(P)
        BY <3>1, <3>3, <3>5, <3>6, <3>7
      <4>. QED  BY <4>1 DEF P, V
    <3>8. CASE storages'[x] + 1 = storages[x] /\ In(x, mounts[c]) /\ Driver[x] = "ephemeral"
      <4>1. Asks(c, x)
        BY <2>1, <3>8 DEF ListsInv, Counted
      <4>2. tries[c] = 0
        BY <1>3, <2>1, <3>8, <4>1 DEF Retried
      <4>3. c \in U
        BY <1>1, <4>1, <4>2 DEF Users
      <4>4. storages'[x] \in Nat
        BY <1>2, <2>1 DEF Counted
      <4>. HIDE DEF P, U, V
      <4>5. storages'[x] >= Cardinality(V) + Cardinality(P)
        BY <3>1, <3>3, <3>5, <3>6, <3>8, <4>3, <4>4
      <4>. QED  BY <4>5 DEF P, V
    <3>. QED  BY <1>2, <2>1, <3>7, <3>8 DEF Lowered, Counted
  <2>2. ASSUME NEW x \in Counted PROVE Pending(x)' = Pending(x)
    BY <1>1 DEF Pending, HasCounted
  <2>3. IsFiniteSet(containers')
    BY <1>0, FS_RemoveElement DEF CountInv
  <2>. QED  BY <2>1, <2>2, <2>3 DEF CountInv
<1>11. OnceInv'
  <2>1. ASSUME NEW d \in Cids,
               creates[d] = 0 \/ (creates[d] = 1 /\ \E v \in Workers : wcid[v] = d)
        PROVE  d \notin containers' /\ tries'[d] = 0
    <3>1. d \notin containers /\ tries[d] = 0
      BY <2>1 DEF OnceInv
    <3>. QED  BY <1>1, <1>2, <1>3, <3>1
  <2>. QED  BY <1>1, <2>1 DEF OnceInv
<1>12. OwnInv'
  <2>. SUFFICES ASSUME NEW d \in Cids, NEW x \in Points, Own(d, x)
                PROVE  /\ creates[d] = 0 => mounted'[x] = 0
                       /\ creates[d] = 1 =>
                             /\ \A v \in Workers :
                                   wcid[v] = d => mounted'[x] <= Times(x, acc[v])
                             /\ d \in containers' => mounted'[x] <= Times(x, mounts'[d])
                             /\ d \notin containers' /\ tries'[d] > 0 => mounted'[x] = 0
    BY <1>1 DEF OwnInv, Own
  <2>1. /\ creates[d] = 0 => mounted[x] = 0
        /\ creates[d] = 1 =>
              /\ \A v \in Workers : wcid[v] = d => mounted[x] <= Times(x, acc[v])
              /\ d \in containers => mounted[x] <= Times(x, mounts[d])
              /\ d \notin containers /\ tries[d] > 0 => mounted[x] = 0
    BY DEF OwnInv
  <2>2. mounted'[x] <= mounted[x] /\ mounted'[x] \in Nat /\ mounted[x] \in Nat
    BY <1>2 DEF Lowered, TypeOK
  <2>3. /\ \A v \in Workers : Times(x, acc[v]) \in Nat
        /\ \A e \in Cids : Times(x, mounts[e]) \in Nat
    BY TimesType DEF TypeOK
  <2>4. d \in containers' => d \in containers /\ mounts'[d] = mounts[d]
    BY <1>2 DEF TypeOK
  <2>5. ASSUME creates[d] = 1, d \notin containers', tries'[d] > 0 PROVE mounted'[x] = 0
    <3>1. CASE d # c
      BY <1>2, <1>3, <2>1, <2>2, <2>5, <3>1
    <3>2. CASE d = c
      <4>1. mounted'[x] = mounted[x] - Times(x, mounts[c])
        BY <1>1, <1>2, <2>5, <3>2 DEF Own
      <4>. QED  BY <1>1, <2>1, <2>2, <2>3, <2>5, <3>2, <4>1
    <3>. QED  BY <3>1, <3>2
  <2>. QED  BY <2>1, <2>2, <2>3, <2>4, <2>5
<1>. QED  BY <1>4, <1>5, <1>6, <1>7, <1>8, <1>9, <1>10, <1>11, <1>12

\* Every step keeps the invariant.
LEMMA StorageStep == StorageInv /\ [Next]_vars => StorageInv'
<1>. SUFFICES ASSUME StorageInv, [Next]_vars PROVE StorageInv'
  OBVIOUS
<1>1. ASSUME NEW w \in Workers, NEW c \in Cids, CreateContainer(w, c) PROVE StorageInv'
  <2>1. Request[c] \in Seq(Points) /\ c # SandboxId
    BY StorageAssumption
  <2>2. \A m : In(m, Request[c]) <=> Wants(c, m)
    BY <2>1 DEF Wants, In, Asks
  <2>. QED  BY <1>1, <2>1, <2>2, BeginKeeps DEF CreateContainer
<1>2. ASSUME NEW w \in Workers, CreateSandbox(w) PROVE StorageInv'
  <2>1. SandboxPoints \in Seq(Points)
    BY StorageAssumption
  <2>2. \A m : In(m, SandboxPoints) <=> Wants(SandboxId, m)
    BY DEF Wants
  <2>. QED  BY <1>2, <2>1, <2>2, BeginKeeps DEF CreateSandbox
<1>3. ASSUME NEW w \in Workers,
             \/ EphemeralStorageHandler(w) \/ LocalStorageHandler(w)
             \/ CommonStorageHandler(w)
      PROVE  StorageInv'
  BY <1>3, HandlersHandle, HandlesKeeps DEF StorageInv
<1>4. ASSUME NEW w \in Workers, Register(w) \/ RegisterSandbox(w) PROVE StorageInv'
  BY <1>4, RegisterKeeps, RegisterSandboxKeeps
<1>5. ASSUME NEW c \in Cids, RemoveContainer(c) PROVE StorageInv'
  BY <1>5, RemoveKeeps
<1>6. CASE UNCHANGED vars
  <2>1. UNCHANGED <<storages, mounts, sandboxMounts, containers, fifo, mounted, failed,
                    creates, tries, wpc, wcid, todo, acc>>
    BY <1>6 DEF vars
  <2>2. (TypeOK /\ WorkersInv /\ ListsInv /\ PlainInv /\ MountedOnce)'
    BY <2>1 DEF StorageInv, TypeOK, WorkersInv, ListsInv, PlainInv, MountedOnce
  <2>3. (CountInv /\ MountInv)'
    BY <2>1 DEF StorageInv, CountInv, MountInv, Users, Retried, Pending, HasCounted, Removed
  <2>4. (OnceInv /\ OwnInv)'
    BY <2>1 DEF StorageInv, OnceInv, OwnInv
  <2>. QED  BY <2>2, <2>3, <2>4 DEF StorageInv
<1>. QED  BY <1>1, <1>2, <1>3, <1>4, <1>5, <1>6 DEF Next

(***************************************************************************)
(* The inductive invariant holds in every state: the types of the fields   *)
(* of Sandbox, and what ties the counts, the mounts and the lists of       *)
(* add_storages and do_remove_container together.                          *)
(***************************************************************************)
THEOREM StorageInvariant == Spec => []StorageInv
<1>. QED  BY StorageInit, StorageStep, PTL DEF Spec

(***************************************************************************)
(* ephemeral_storage_handler mounts a shared storage at most once, and     *)
(* unset_sandbox_storage gives a count back only after the umount.         *)
(***************************************************************************)
THEOREM SharedMountedOnce == Spec => []MountedOnce
<1>1. StorageInv => MountedOnce
  BY DEF StorageInv
<1>. QED  BY <1>1, StorageInvariant, PTL

(***************************************************************************)
(* set_sandbox_storage counts at least the containers that use a storage,  *)
(* as long as no removal of one of them is tried again.                    *)
(***************************************************************************)
THEOREM UsersAreCounted == Spec => []CountCoversUsers
<1>1. StorageInv => CountCoversUsers
  <2>. SUFFICES ASSUME StorageInv, NEW m \in Counted, Driver[m] = "local" \/ ~ Retried(m)
                PROVE  storages[m] >= Cardinality(Users(m))
    BY DEF CountCoversUsers
  <2>1. storages[m] >= Cardinality(Users(m)) + Cardinality(Pending(m)) /\ storages[m] \in Nat
    BY DEF StorageInv, CountInv, TypeOK, Counted
  <2>2. Cardinality(Users(m)) \in Nat /\ Cardinality(Pending(m)) \in Nat
    BY UsersFinite, PendingFinite DEF StorageInv
  <2>. QED  BY <2>1, <2>2
<1>. QED  BY <1>1, StorageInvariant, PTL

(***************************************************************************)
(* ephemeral_storage_handler mounts before another request finds the       *)
(* entry, so a container that uses the storage has it.                     *)
(***************************************************************************)
THEOREM UsersHaveTheMount == Spec => []MountedForUsers
<1>1. StorageInv => MountedForUsers
  <2>. SUFFICES ASSUME StorageInv, NEW m \in Ephemeral \ failed, Users(m) # {}, ~ Removed(m)
                PROVE  mounted[m] = 1
    BY DEF MountedForUsers
  <2>1. ~ Retried(m)
    BY DEF Removed, Retried, StorageInv, TypeOK
  <2>2. storages[m] >= Cardinality(Users(m)) + Cardinality(Pending(m)) /\ storages[m] \in Nat
    BY <2>1 DEF StorageInv, CountInv, TypeOK, Counted, Ephemeral
  <2>3. Cardinality(Users(m)) \in Nat /\ Cardinality(Pending(m)) \in Nat
    BY UsersFinite, PendingFinite DEF StorageInv
  <2>4. Cardinality(Users(m)) # 0
    BY UsersFinite, FS_EmptySet DEF StorageInv
  <2>5. storages[m] > 0
    BY <2>2, <2>3, <2>4
  <2>. QED  BY <2>5 DEF StorageInv, MountInv
<1>. QED  BY <1>1, StorageInvariant, PTL

(***************************************************************************)
(* remove_mounts leaves nothing on the mount points of a container that    *)
(* was created once and has been removed.                                  *)
(***************************************************************************)
THEOREM NothingLeftOver == Spec => []NoLeftover
<1>1. StorageInv => NoLeftover
  BY DEF StorageInv, NoLeftover, OwnInv, Own, In
<1>. QED  BY <1>1, StorageInvariant, PTL
=============================================================================
