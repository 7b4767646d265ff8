------------------------ MODULE NetworkConfigProofs ------------------------
(***************************************************************************)
(* Proofs about NetworkConfig, for any links, addresses and requests, any  *)
(* number of calls and any interference.                                   *)
(*                                                                         *)
(* The argument.  Each request begins its changes with a dump, which       *)
(* leaves nothing of the kernel's in the socket; from then on rtnl_talk    *)
(* reads its own answer, or gives up.  What is still to be deleted and     *)
(* added is therefore what the kernel has not yet been asked: the          *)
(* addresses that remain on a link belong to the subnets left to delete,   *)
(* and then the list grows into the one of the request; the routes that    *)
(* remain are the kernel's, the loopback's, those left to delete, and      *)
(* those added so far.                                                     *)
(***************************************************************************)
EXTENDS NetworkConfig, FiniteSetTheorems, FunctionTheorems, TLAPS

WantedRoutes == [dest : Dests, gw : Gateways, dev : Names]
Messages == {"foreign", "data", "done", "ack", "err", "link"}

Updating == {"down", "dumpAddrs", "addrs", "up"}
Deleting == {"routes", "delete"}

\* Which request is where, and what its lists hold.
ControlAt(at, s, t) ==
    /\ at \in Updating => op = "UpdateInterface" /\ iface.link \in Links
    /\ at \in {"dumpList", "names"} => op \in {"UpdateRoutes", "ListRoutes"}
    /\ at \in Deleting => op = "UpdateRoutes"
    /\ at = "dumpAllAddrs" => op = "ListInterfaces"
    /\ at = "dumpLinks" => op \in {"UpdateInterface", "ListInterfaces"}
    /\ at = "addrs" => s \in Seq(Addrs) /\ t \in Seq(Addrs)
    /\ at \in Deleting => s \in Seq(Routes) /\ t \in Seq(WantedRoutes)
    /\ at = "names" => s \in Seq(Routes)
    /\ at = "delete" => s # <<>>

ControlInv == ControlAt(pc, snap, todo)

\* A message that is not the kernel's is remembered as long as it is unread.
StrayInv == pc # "idle" /\ ~strayed => "foreign" \notin ToSet(queue)

HandleInv == TypeOK /\ ControlInv /\ OwnAnswers /\ StrayInv

\* The addresses of the link on the way from the old to the new ones.
AddrsInv ==
    ~ touched =>
        /\ pc = "addrs" /\ snap # <<>> =>
              /\ todo = iface.addrs
              /\ \A i \in DOMAIN addrs[iface.link] : \E j \in DOMAIN snap :
                     Subnet[addrs[iface.link][i]] = Subnet[snap[j]]
              /\ \A j \in DOMAIN snap : \E i \in DOMAIN addrs[iface.link] :
                     Subnet[addrs[iface.link][i]] = Subnet[snap[j]]
              /\ \A i, j \in DOMAIN snap : Subnet[snap[i]] = Subnet[snap[j]] => i = j
        /\ pc = "addrs" /\ snap = <<>> => addrs[iface.link] \o todo = iface.addrs
        /\ pc = "up" =>
              addrs[iface.link] = iface.addrs /\ name[iface.link] = iface.name

Kept(r) == r.kernel \/ name[r.dev] \in LoNames
Order == AddOrder(wanted)
\* The number of routes added so far.
Added == Len(Order) - Len(todo)
AddedRoutes == {RouteOn(Order[i], l) : i \in 1..Added, l \in Links}

\* The table on the way from the old to the new routes.
RoutesInv ==
    pc \in Deleting /\ ~ touched =>
        /\ Len(todo) <= Len(Order) /\ \A i \in DOMAIN todo : todo[i] = Order[Added + i]
        /\ snap # <<>> => Added = 0
        /\ \A i \in 1..Added : \E l \in FindLinkByName(Order[i].dev) :
               RouteOn(Order[i], l) \in routes
        /\ \A r \in routes :
               Kept(r) \/ (\E i \in DOMAIN snap : snap[i] = r) \/ r \in AddedRoutes
        /\ \A i \in DOMAIN snap : snap[i] \in routes
        /\ IsInjective(snap)
        /\ pc = "delete" => ~ Kept(Head(snap))

\* What the kernel can grant, when nobody interferes.
Undisturbed == fits /\ ~ touched /\ ~ strayed

\* A link for the i-th route of the request, and the way to its gateway.
Reachable(i) ==
    \E l \in Links :
        /\ name[l] = wanted[i].dev /\ up[l]
        /\ \/ wanted[i].gw = NoGw
           \/ \E r \in routes : /\ Kept(r) /\ r.dest = Subnet[wanted[i].gw]
                                /\ r.gw = NoGw /\ r.dev = l
           \/ \E o \in OnLink(wanted) : /\ o.dest = Subnet[wanted[i].gw]
                                        /\ o.dev = wanted[i].dev

SameDests(w) == \A i, j \in DOMAIN w : w[i].dest = w[j].dest => i = j

\* The routes still to add are to different destinations, each reachable, and
\* what has such a destination is still to be deleted, or added by the request.
Grantable ==
    /\ SameDests(wanted)
    /\ \A i \in DOMAIN wanted : Reachable(i)
    /\ \A r \in routes : \/ ~ Kept(r) /\ \E i \in DOMAIN snap : snap[i] = r
                         \/ \A i \in DOMAIN wanted : wanted[i].dest # r.dest
                         \/ r \in AddedRoutes

FitsInv ==
    Undisturbed =>
        /\ pc # "poisoned"
        /\ pc = "idle" => outcome = "ok"
        /\ op = "UpdateInterface" /\ pc \in {"dumpLinks", "down", "dumpAddrs", "addrs"} =>
              FitsInterface(iface)
        /\ pc \in {"dumpAddrs", "addrs"} => ~ up[iface.link]
        /\ op = "UpdateRoutes" /\ pc \in {"dumpList", "names"} => FitsRoutes(wanted)
        /\ pc \in Deleting => Grantable

NetworkInv ==
    /\ HandleInv /\ AddrsInv /\ InterfaceReplaced /\ RoutesInv /\ RoutesReplaced /\ FitsInv
-----------------------------------------------------------------------------
(* Lemmas about the operators.                                             *)

Rank(I, i) == Cardinality({j \in I : j <= i})

\* Ranks in a finite set of numbers: they grow with the number, and each one
\* up to the size of the set is taken.
LEMMA Ranks ==
    ASSUME NEW n \in Nat, NEW I \in SUBSET (1..n)
    PROVE  /\ IsFiniteSet(I) /\ Cardinality(I) \in Nat
           /\ \A i \in I : Rank(I, i) \in 1..Cardinality(I)
           /\ \A i, j \in I : i < j => Rank(I, i) < Rank(I, j)
           /\ \A k \in 1..Cardinality(I) : \E i \in I : Rank(I, i) = k
<1>1. IsFiniteSet(I) /\ Cardinality(I) \in Nat
  <2>1. IsFiniteSet(1..n)
    BY FS_Interval
  <2>2. IsFiniteSet(I)
    BY <2>1, FS_Subset
  <2> QED  BY <2>2, FS_CardinalityType
<1>2. \A i \in I : IsFiniteSet({j \in I : j <= i})
  BY <1>1, FS_Subset
<1>3. ASSUME NEW i \in I  PROVE Rank(I, i) \in 1..Cardinality(I)
  <2> DEFINE B == {j \in I : j <= i}
  <2>1. B \in SUBSET I /\ i \in B
    OBVIOUS
  <2>2. Cardinality(B) \in Nat /\ Cardinality(B) <= Cardinality(I)
    BY <1>1, <1>2, <2>1, FS_Subset, FS_CardinalityType
  <2>3. Cardinality(B) # 0
    BY <1>2, <2>1, FS_EmptySet
  <2> QED  BY <1>1, <2>2, <2>3 DEF Rank
<1>4. ASSUME NEW i \in I, NEW j \in I, i < j  PROVE Rank(I, i) < Rank(I, j)
  <2> DEFINE B == {k \in I : k <= i}  C == {k \in I : k <= j}
  <2>0. I \subseteq Nat
    OBVIOUS
  <2>1. B \in SUBSET C /\ j \in C /\ j \notin B
    <3>1. i \in Nat /\ j \in Nat /\ i <= j /\ ~ (j <= i) /\ j <= j
      BY <1>4, <2>0
    <3>2. \A k \in I : k <= i => k <= j
      <4> TAKE k \in I
      <4>1. k \in Nat
        BY <2>0
      <4> QED  BY <3>1, <4>1
    <3> QED  BY <3>1, <3>2
  <2>2. /\ IsFiniteSet(B) /\ IsFiniteSet(C)
        /\ Cardinality(B) \in Nat /\ Cardinality(C) \in Nat
    BY <1>2, FS_CardinalityType
  <2>3. Cardinality(B) <= Cardinality(C) /\ (Cardinality(C) = Cardinality(B) => C = B)
    BY <2>1, <2>2, FS_Subset
  <2> QED  BY <2>1, <2>2, <2>3 DEF Rank
<1>5. ASSUME NEW k \in 1..Cardinality(I)  PROVE \E i \in I : Rank(I, i) = k
  <2> DEFINE T == 1..Cardinality(I)
             f == [i \in I |-> Rank(I, i)]
  <2>1. f \in [I -> T]
    BY <1>3
  <2>2. \A a, b \in I : f[a] = f[b] => a = b
    <3> SUFFICES ASSUME NEW a \in I, NEW b \in I, f[a] = f[b], a # b PROVE FALSE
      OBVIOUS
    <3>1. Rank(I, a) \in Nat /\ Rank(I, b) \in Nat /\ Rank(I, a) = Rank(I, b)
      BY <1>3
    <3>2. a < b \/ b < a
      OBVIOUS
    <3> QED  BY <1>4, <3>1, <3>2
  <2>3. f \in Injection(I, T)
    BY <2>1, <2>2, Fun_IsInj
  <2>4. IsFiniteSet(T) /\ Cardinality(T) = Cardinality(I)
    BY <1>1, FS_Interval
  <2>5. f \in Surjection(I, T)
    BY <2>3, <2>4, FS_Injection
  <2>6. \E i \in I : f[i] = k
    BY <2>5 DEF Surjection
  <2> QED  BY <2>6
<1> QED  BY <1>1, <1>3, <1>4, <1>5

\* The elements of p are those of s at the positions of I, each taken once.
TakenAt(at, p, s, I) ==
    /\ at \in [DOMAIN p -> I]
    /\ \A k \in DOMAIN p : p[k] = s[at[k]]
    /\ \A k, m \in DOMAIN p : at[k] = at[m] => k = m
    /\ \A i \in I : \E k \in DOMAIN p : at[k] = i

\* Pick takes the elements at the given positions.
LEMMA Picks ==
    ASSUME NEW S, NEW s \in Seq(S), NEW I \in SUBSET (DOMAIN s)
    PROVE  /\ Pick(s, I) \in Seq(S)
           /\ \E at : TakenAt(at, Pick(s, I), s, I)
<1> DEFINE n == Cardinality(I)
           pos(k) == CHOOSE i \in I : Rank(I, i) = k
           at == [k \in 1..n |-> pos(k)]
<1>1. Len(s) \in Nat /\ I \in SUBSET (1..Len(s))
  OBVIOUS
<1>2. /\ n \in Nat
      /\ \A i \in I : Rank(I, i) \in 1..n
      /\ \A i, j \in I : i < j => Rank(I, i) < Rank(I, j)
      /\ \A k \in 1..n : \E i \in I : Rank(I, i) = k
  BY <1>1, Ranks
<1>3. \A k \in 1..n : pos(k) \in I /\ Rank(I, pos(k)) = k
  BY <1>2
<1>4. Pick(s, I) = [k \in 1..n |-> s[pos(k)]]
  BY DEF Pick, Rank
<1>5. \A k \in 1..n : s[pos(k)] \in S
  BY <1>1, <1>3
<1>6. Pick(s, I) \in Seq(S) /\ Len(Pick(s, I)) = n
  <2> HIDE DEF pos, n
  <2> QED  BY <1>2, <1>4, <1>5
<1>7. at \in [1..n -> I]
  BY <1>3
<1>8. \A k \in 1..n : Pick(s, I)[k] = s[at[k]]
  BY <1>4
<1>9. \A k, m \in 1..n : at[k] = at[m] => k = m
  BY <1>3
<1>10. ASSUME NEW i \in I PROVE \E k \in 1..n : at[k] = i
  <2>1. Rank(I, i) \in 1..n
    BY <1>2
  <2> DEFINE j == pos(Rank(I, i))
  <2>2. j \in I /\ Rank(I, j) = Rank(I, i)
    BY <1>3, <2>1
  <2>3. i \in Nat /\ j \in Nat
    BY <1>1, <2>2
  <2>4. Rank(I, j) \in Nat /\ Rank(I, i) \in Nat
    BY <2>1, <2>2
  <2>5. i < j => Rank(I, i) < Rank(I, j)
    BY <1>2, <2>2
  <2>6. j < i => Rank(I, j) < Rank(I, i)
    BY <1>2, <2>2
  <2>7. j = i
    <3> HIDE DEF j
    <3> QED  BY <2>2, <2>3, <2>4, <2>5, <2>6
  <2> QED  BY <2>1, <2>7
<1>11. DOMAIN Pick(s, I) = 1..n
  BY <1>4
<1>12. TakenAt(at, Pick(s, I), s, I)
  <2> HIDE DEF at, n
  <2> QED  BY <1>7, <1>8, <1>9, <1>10, <1>11 DEF TakenAt
<1> QED  BY <1>6, <1>12

\* SetToSeq lists a finite set, each element once.
LEMMA Listing ==
    ASSUME NEW S, IsFiniteSet(S)
    PROVE  /\ SetToSeq(S) \in Seq(S) /\ IsInjective(SetToSeq(S))
           /\ \A x \in S : \E i \in DOMAIN SetToSeq(S) : SetToSeq(S)[i] = x
<1> DEFINE n == Cardinality(S)
           f == SetToSeq(S)
<1>1. n \in Nat /\ ExistsBijection(1..n, S)
  BY FS_CardinalityType
<1>2. \E g \in [1..n -> S] : IsInjective(g)
  <2>1. PICK g \in Bijection(1..n, S) : TRUE
    BY <1>1 DEF ExistsBijection
  <2>2. g \in [1..n -> S] /\ \A a, b \in 1..n : g[a] = g[b] => a = b
    BY Fun_BijectionProperties
  <2> QED  BY <2>2 DEF IsInjective
<1>3. f \in [1..n -> S] /\ IsInjective(f)
  BY <1>2 DEF SetToSeq
<1>4. f \in Seq(S)
  BY <1>1, <1>3
<1>5. f \in Injection(1..n, S)
  <2>1. \A a, b \in 1..n : f[a] = f[b] => a = b
    BY <1>3 DEF IsInjective
  <2> QED  BY <1>3, <2>1, Fun_IsInj
<1>6. Cardinality(1..n) = n
  BY <1>1, FS_Interval
<1>7. f \in Surjection(1..n, S)
  BY <1>5, <1>6, FS_Injection
<1>8. \A x \in S : \E i \in 1..n : f[i] = x
  BY <1>7 DEF Surjection
<1> QED  BY <1>3, <1>4, <1>8
\* A sequence over a set is one over a larger set.
LEMMA Wider ==
    ASSUME NEW S, NEW T, S \subseteq T, NEW s \in Seq(S)  PROVE s \in Seq(T)
  OBVIOUS

\* A set of positions has a least one.
LEMMA Least ==
    ASSUME NEW n \in Nat, NEW I \in SUBSET (1..n), I # {}
    PROVE  \E j \in I : \A k \in I : j <= k
<1>1. /\ IsFiniteSet(I) /\ Cardinality(I) \in Nat
      /\ \A j \in I : Rank(I, j) \in 1..Cardinality(I)
      /\ \A j, k \in I : j < k => Rank(I, j) < Rank(I, k)
      /\ \A k \in 1..Cardinality(I) : \E j \in I : Rank(I, j) = k
  BY Ranks
<1>2. Cardinality(I) # 0
  BY <1>1, FS_EmptySet
<1>3. 1 \in 1..Cardinality(I)
  BY <1>1, <1>2
<1>4. PICK j \in I : Rank(I, j) = 1
  BY <1>1, <1>3
<1>5. ASSUME NEW k \in I  PROVE j <= k
  <2>1. j \in Nat /\ k \in Nat
    OBVIOUS
  <2>2. Rank(I, k) \in 1..Cardinality(I) /\ (k < j => Rank(I, k) < Rank(I, j))
    BY <1>1
  <2> QED  BY <1>4, <2>1, <2>2
<1> QED  BY <1>5

\* What is left after the first message of a kind is a sequence of messages.
LEMMA LeftIsSeq ==
    ASSUME NEW S, NEW s \in Seq(S), NEW kinds, NEW i \in 1..Len(s), s[i] \in kinds
    PROVE  LeftAfter(s, kinds) \in Seq(S)
<1> DEFINE hits == {j \in 1..Len(s) : s[j] \in kinds}
           first == CHOOSE j \in hits : \A k \in hits : j <= k
<1>1. Len(s) \in Nat /\ i \in hits /\ hits \in SUBSET (1..Len(s))
  OBVIOUS
<1>2. first \in hits
  <2> HIDE DEF hits
  <2>1. \E j \in hits : \A k \in hits : j <= k
    BY <1>1, Least
  <2> QED  BY <2>1
<1>3. LeftAfter(s, kinds) = SubSeq(s, first + 1, Len(s))
  BY DEF LeftAfter
<1> HIDE DEF first
<1>4. SubSeq(s, first + 1, Len(s)) \in Seq(S)
  BY <1>1, <1>2
<1> QED  BY <1>3, <1>4

\* A message at the end of the socket's queue, and what is read first.
LEMMA QueueIs ==
    ASSUME NEW S, NEW s \in Seq(S), NEW m \in S
    PROVE  /\ Append(s, m) \in Seq(S) /\ Append(s, m) # <<>>
           /\ Head(Append(s, m)) \in S /\ Tail(Append(s, m)) \in Seq(S)
           /\ s = <<>> => Head(Append(s, m)) = m /\ Tail(Append(s, m)) = <<>>
           /\ s # <<>> => Head(Append(s, m)) = s[1] /\ s[1] \in ToSet(s)
           /\ ToSet(Append(s, m)) = ToSet(s) \cup {m}
           /\ ToSet(Tail(Append(s, m))) \subseteq ToSet(s) \cup {m}
<1>1. /\ Append(s, m) \in Seq(S) /\ Append(s, m) # <<>>
      /\ Head(Append(s, m)) \in S /\ Tail(Append(s, m)) \in Seq(S)
  <2> DEFINE t == Append(s, m)
  <2>1. t \in Seq(S) /\ Len(t) = Len(s) + 1 /\ Len(s) \in Nat
    OBVIOUS
  <2> HIDE DEF t
  <2>2. t # <<>> /\ 1 \in 1..Len(t)
    BY <2>1
  <2>3. Head(t) \in S /\ Tail(t) \in Seq(S)
    BY <2>1, <2>2
  <2> QED  BY <2>1, <2>2, <2>3 DEF t
<1>2. s = <<>> => Head(Append(s, m)) = m /\ Tail(Append(s, m)) = <<>>
  OBVIOUS
<1>3. s # <<>> => Head(Append(s, m)) = s[1] /\ s[1] \in ToSet(s)
  BY DEF ToSet
<1>4. ToSet(Append(s, m)) = ToSet(s) \cup {m}
  <2>1. /\ Len(s) \in Nat /\ DOMAIN s = 1..Len(s) /\ DOMAIN Append(s, m) = 1..(Len(s) + 1)
        /\ Append(s, m)[Len(s) + 1] = m /\ \A i \in 1..Len(s) : Append(s, m)[i] = s[i]
    OBVIOUS
  <2> QED  BY <2>1 DEF ToSet
<1>5. ToSet(Tail(Append(s, m))) \subseteq ToSet(Append(s, m))
  <2> DEFINE t == Append(s, m)
  <2>1. t \in Seq(S) /\ t # <<>>
    BY <1>1
  <2> HIDE DEF t
  <2>2. /\ Len(t) \in Nat /\ DOMAIN t = 1..Len(t) /\ DOMAIN Tail(t) = 1..(Len(t) - 1)
        /\ \A i \in 1..(Len(t) - 1) : Tail(t)[i] = t[i + 1] /\ i + 1 \in 1..Len(t)
    BY <2>1
  <2>3. ToSet(Tail(t)) \subseteq ToSet(t)
    BY <2>2 DEF ToSet
  <2> QED  BY <2>3 DEF t
<1> QED  BY <1>1, <1>2, <1>3, <1>4, <1>5

\* rtnl_talk: what it leaves; with nothing of the kernel's in the socket it
\* goes on only if the socket is empty and the kernel has granted the message.
LEMMA Talking ==
    ASSUME TypeOK, NEW own \in {"ack", "err", "link"}
    PROVE  /\ Left(own) \in Seq(Messages)
           /\ "foreign" \in ToSet(Left(own)) => "foreign" \in ToSet(queue)
           /\ ToSet(queue) \subseteq {"foreign"} /\ ~ Refused(own)
                 => queue = <<>> /\ own # "err" /\ Left(own) = <<>>
           /\ ToSet(queue) \subseteq {"foreign"} /\ "foreign" \notin ToSet(queue)
                 => (Refused(own) <=> own = "err")
<1>1. queue \in Seq(Messages) /\ own \in Messages
  BY DEF TypeOK, Messages
<1> USE DEF Left, Taken, Refused
<1>2. Left(own) \in Seq(Messages)
  BY <1>1, QueueIs
<1>3. "foreign" \in ToSet(Left(own)) => "foreign" \in ToSet(queue)
  <2>1. ToSet(Left(own)) \subseteq ToSet(queue) \cup {own}
    BY <1>1, QueueIs
  <2> QED  BY <2>1
<1>4. ASSUME ToSet(queue) \subseteq {"foreign"}, queue # <<>>
      PROVE  Refused(own) /\ "foreign" \in ToSet(queue)
  <2>1. Taken(own) = queue[1] /\ queue[1] \in ToSet(queue)
    BY <1>1, <1>4, QueueIs
  <2> QED  BY <1>4, <2>1
<1>5. ASSUME queue = <<>>
      PROVE  (Refused(own) <=> own = "err") /\ Left(own) = <<>>
  <2>1. Taken(own) = own /\ Left(own) = <<>>
    BY <1>1, <1>5, QueueIs
  <2> QED  BY <2>1
<1> QED  BY <1>2, <1>3, <1>4, <1>5

\* A dump that gives up leaves messages.
LEMMA GivingUp ==
    ASSUME TypeOK, "foreign" \in ToSet(queue)
    PROVE  LeftAfter(queue \o DumpAnswer, {"foreign"}) \in Seq(Messages)
<1>1. queue \in Seq(Messages) /\ DumpAnswer \in Seq(Messages)
  BY DEF TypeOK, Messages, DumpAnswer
<1>2. PICK i \in DOMAIN queue : queue[i] = "foreign"
  BY DEF ToSet
<1>3. /\ queue \o DumpAnswer \in Seq(Messages)
      /\ i \in 1..Len(queue \o DumpAnswer) /\ (queue \o DumpAnswer)[i] = "foreign"
  <2>1. Len(queue) \in Nat /\ Len(DumpAnswer) \in Nat /\ i \in 1..Len(queue)
    BY <1>1
  <2> QED  BY <1>1, <1>2, <2>1
<1>4. (queue \o DumpAnswer)[i] \in {"foreign"}
  BY <1>3
<1> QED  BY <1>3, <1>4, LeftIsSeq
-----------------------------------------------------------------------------
(* Types, and the answers in the socket.                                   *)

KernelOK ==
    /\ name \in [Links -> Names] /\ IsInjective(name)
    /\ up \in [Links -> BOOLEAN]
    /\ addrs \in [Links -> Seq(Addrs)]
    /\ routes \subseteq Routes /\ IsFiniteSet(routes)

CountersOK ==
    /\ {strayed, touched, fits} \subseteq BOOLEAN
    /\ calls \in 0..MaxCalls /\ strays \in 0..MaxStrays /\ meddles \in 0..MaxMeddles

RequestOK ==
    /\ queue \in Seq(Messages)
    /\ pc \in {"idle", "poisoned", "dumpLinks", "down", "dumpAddrs", "addrs",
               "up", "dumpAllAddrs", "dumpList", "names", "routes", "delete"}
    /\ op \in {"none", "UpdateInterface", "UpdateRoutes", "ListInterfaces",
               "ListRoutes"}
    /\ iface \in IfaceRequests /\ wanted \in RouteRequests
    /\ snap \in Seq(Routes \cup Addrs)
    /\ todo \in Seq(WantedRoutes \cup Addrs)
    /\ outcome \in {"none", "ok", "old", "error"}

\* The types fall apart into the kernel's, the request's and the bounds'.
LEMMA TypeParts == TypeOK <=> KernelOK /\ RequestOK /\ CountersOK
  BY DEF TypeOK, KernelOK, RequestOK, CountersOK, Messages, WantedRoutes

\* An address brings one route for each subnet, so finitely many.
LEMMA ConnectedIs ==
    ASSUME NEW l \in Links, NEW q \in Seq(Addrs)
    PROVE  Connected(l, q) \subseteq Routes /\ IsFiniteSet(Connected(l, q))
<1>1. Len(q) \in Nat /\ \A i \in 1..Len(q) : q[i] \in Addrs
  OBVIOUS
<1>2. ToSet(q) = {q[i] : i \in 1..Len(q)}
  BY DEF ToSet
<1>3. Connected(l, q) \subseteq Routes
  <2>1. \A a \in ToSet(q) : a \in Addrs /\ Subnet[a] \in Dests
    BY <1>1, <1>2, NetworkAssumption
  <2>2. TRUE \in BOOLEAN /\ NoGw \in Gateways
    BY DEF Gateways
  <2> SUFFICES ASSUME NEW r \in Connected(l, q)  PROVE r \in Routes
    OBVIOUS
  <2>3. PICK a \in ToSet(q) :
            r = [dest |-> Subnet[a], gw |-> NoGw, dev |-> l, kernel |-> TRUE]
    BY DEF Connected
  <2> QED  BY <2>1, <2>2, <2>3 DEF Routes
<1> DEFINE route(a) == [dest |-> Subnet[a], gw |-> NoGw, dev |-> l, kernel |-> TRUE]
           f == [i \in 1..Len(q) |-> route(q[i])]
<1>4. f \in [1..Len(q) -> Connected(l, q)]
  BY <1>2 DEF Connected
<1>5. \A r \in Connected(l, q) : \E i \in 1..Len(q) : f[i] = r
  BY <1>2 DEF Connected
<1> HIDE DEF f
<1>6. IsFiniteSet(1..Len(q))
  BY <1>1, FS_Interval
<1>7. f \in Surjection(1..Len(q), Connected(l, q))
  BY <1>4, <1>5, Fun_IsSurj
<1> QED  BY <1>3, <1>6, <1>7, FS_Surjection

\* The initial table is that of finitely many links with finite lists.
LEMMA KernelInit ==
    ASSUME Init  PROVE KernelOK
<1>1. name \in [Links -> Names] /\ IsInjective(name)
  BY NetworkAssumption DEF Init, IsInjective
<1>2. up \in [Links -> BOOLEAN] /\ addrs \in [Links -> Seq(Addrs)]
  BY NetworkAssumption DEF Init
<1> DEFINE U == {k \in Links : up[k]}
           C(l) == Connected(l, InitAddrs[l])
           T == {C(l) : l \in U}
           f == [l \in U |-> C(l)]
<1>3. \A l \in U : C(l) \subseteq Routes /\ IsFiniteSet(C(l))
  BY NetworkAssumption, ConnectedIs
<1>4. IsFiniteSet(U)
  BY NetworkAssumption, FS_Subset
<1>5. f \in Surjection(U, T)
  <2>1. f \in [U -> T] /\ \A t \in T : \E l \in U : f[l] = t
    OBVIOUS
  <2> QED  BY <2>1, Fun_IsSurj
<1>6. IsFiniteSet(T)
  BY <1>4, <1>5, FS_Surjection
<1>7. routes = UNION T
  BY DEF Init
<1>8. IsFiniteSet(routes)
  BY <1>3, <1>6, <1>7, FS_UNION
<1>9. routes \subseteq Routes
  BY <1>3, <1>7
<1> QED  BY <1>1, <1>2, <1>8, <1>9 DEF KernelOK

\* Dropping the addresses of a subnet, and bringing a link up.
LEMMA Dropping ==
    ASSUME KernelOK, NEW l \in Links, NEW d, DropSubnet(l, d)
    PROVE  addrs' \in [Links -> Seq(Addrs)] /\ routes' \subseteq Routes
           /\ IsFiniteSet(routes') /\ up' = up
<1>1. addrs[l] \in Seq(Addrs)
  BY DEF KernelOK
<1>2. Pick(addrs[l], {i \in DOMAIN addrs[l] : Subnet[addrs[l][i]] # d}) \in Seq(Addrs)
  BY <1>1, Picks
<1>3. addrs' \in [Links -> Seq(Addrs)]
  BY <1>2 DEF DropSubnet, KernelOK
<1>4. routes' \subseteq routes /\ up' = up
  BY DEF DropSubnet
<1> QED  BY <1>3, <1>4, FS_Subset DEF KernelOK

\* Bringing a link up adds the routes of its addresses.
LEMMA BringingUp ==
    ASSUME KernelOK, NEW l \in Links, BringUp(l)
    PROVE  up' \in [Links -> BOOLEAN] /\ routes' \subseteq Routes
           /\ IsFiniteSet(routes') /\ addrs' = addrs
<1>1. addrs[l] \in Seq(Addrs)
  BY DEF KernelOK
<1>2. Connected(l, addrs[l]) \subseteq Routes /\ IsFiniteSet(Connected(l, addrs[l]))
  BY <1>1, ConnectedIs
<1>3. routes' = routes \cup Connected(l, addrs[l]) /\ addrs' = addrs
  BY DEF BringUp
<1>4. up' \in [Links -> BOOLEAN]
  BY DEF BringUp, KernelOK
<1> QED  BY <1>2, <1>3, <1>4, FS_Union DEF KernelOK

\* The kernel's state keeps its types, whoever changes it.
LEMMA KernelStep ==
    ASSUME TypeOK, ControlInv, Next  PROVE KernelOK'
<1>1. KernelOK /\ RequestOK
  BY TypeParts
<1> USE <1>1
<1>2. ASSUME UNCHANGED kernelVars  PROVE KernelOK'
  BY <1>2 DEF KernelOK, kernelVars
<1>3. CASE Meddle
  <2>1. UNCHANGED name
    BY <1>3 DEF Meddle
  <2>2. CASE \E l \in Links : \E a \in ToSet(addrs[l]) : DropSubnet(l, Subnet[a])
    <3>1. PICK l \in Links : \E a \in ToSet(addrs[l]) : DropSubnet(l, Subnet[a])
      BY <2>2
    <3> QED  BY <2>1, <3>1, Dropping DEF KernelOK
  <2>3. CASE \E r \in routes : routes' = routes \ {r} /\ UNCHANGED <<addrs, up>>
    <3>1. routes' \subseteq routes /\ UNCHANGED <<addrs, up>>
      BY <2>3
    <3>2. IsFiniteSet(routes')
      BY <3>1, FS_Subset DEF KernelOK
    <3> QED  BY <2>1, <3>1, <3>2 DEF KernelOK
  <2>4. CASE \E l \in Links : ~ up[l] /\ BringUp(l)
    <3>1. PICK l \in Links : BringUp(l)
      BY <2>4
    <3> QED  BY <2>1, <3>1, BringingUp DEF KernelOK
  <2> QED  BY <1>3, <2>2, <2>3, <2>4 DEF Meddle
<1>4. CASE SetDown
  <2>1. iface.link \in Links /\ UNCHANGED <<name, addrs>>
    BY <1>4 DEF SetDown, ControlInv, ControlAt, Updating
  <2>2. up' \in [Links -> BOOLEAN] /\ routes' \subseteq routes
    BY <1>4, <2>1 DEF SetDown, KernelOK
  <2> QED  BY <2>1, <2>2, FS_Subset DEF KernelOK
<1>5. CASE DeleteAddr
  <2>1. iface.link \in Links /\ UNCHANGED name /\ DropSubnet(iface.link, Subnet[Head(snap)])
    BY <1>5 DEF DeleteAddr, ControlInv, ControlAt, Updating
  <2> QED  BY <2>1, Dropping DEF KernelOK
<1>6. CASE AddAddr
  <2> DEFINE l == iface.link  a == Head(todo)
  <2>1. l \in Links /\ UNCHANGED <<name, up>>
    BY <1>6 DEF AddAddr, ControlInv, ControlAt, Updating
  <2>2. a \in Addrs /\ addrs[l] \in Seq(Addrs)
    BY <1>6, <2>1 DEF AddAddr, ControlInv, ControlAt, KernelOK
  <2>3. addrs' = addrs \/ addrs' = [addrs EXCEPT ![l] = Append(@, a)]
    BY <1>6 DEF AddAddr
  <2>4. addrs' \in [Links -> Seq(Addrs)]
    <3>1. Append(addrs[l], a) \in Seq(Addrs)
      BY <2>2
    <3> QED  BY <2>3, <3>1 DEF KernelOK
  <2>5. routes' = routes \/ routes' = routes \cup Connected(l, <<a>>)
    BY <1>6 DEF AddAddr
  <2>6. Connected(l, <<a>>) \subseteq Routes /\ IsFiniteSet(Connected(l, <<a>>))
    <3>1. <<a>> \in Seq(Addrs)
      BY <2>2
    <3> QED  BY <2>1, <3>1, ConnectedIs
  <2>7. routes' \subseteq Routes /\ IsFiniteSet(routes')
    BY <2>5, <2>6, FS_Union DEF KernelOK
  <2> QED  BY <2>1, <2>4, <2>7 DEF KernelOK
<1>7. CASE Rename
  <2>1. iface.link \in Links /\ UNCHANGED <<up, addrs, routes>>
    BY <1>7 DEF Rename, ControlInv, ControlAt, Updating
  <2>2. iface.name \in Names
    BY NetworkAssumption DEF RequestOK
  <2>3. \/ name' = name
        \/ /\ name' = [name EXCEPT ![iface.link] = iface.name]
           /\ \A k \in Links : name[k] = iface.name => k = iface.link
    BY <1>7 DEF Rename
  <2>4. name' \in [Links -> Names]
    BY <2>2, <2>3 DEF KernelOK
  <2>5. IsInjective(name')
    <3>1. CASE name' = name
      BY <3>1 DEF KernelOK
    <3>2. CASE /\ name' = [name EXCEPT ![iface.link] = iface.name]
               /\ \A k \in Links : name[k] = iface.name => k = iface.link
      <4>1. \A k \in Links : name'[k] = IF k = iface.link THEN iface.name ELSE name[k]
        BY <3>2 DEF KernelOK
      <4>2. \A j, k \in Links : name[j] = name[k] => j = k
        BY DEF KernelOK, IsInjective
      <4>3. \A j, k \in Links : name'[j] = name'[k] => j = k
        BY <3>2, <4>1, <4>2
      <4>4. DOMAIN name' = Links
        BY <2>4
      <4> QED  BY <4>3, <4>4 DEF IsInjective
    <3> QED  BY <2>3, <3>1, <3>2
  <2> QED  BY <2>1, <2>4, <2>5 DEF KernelOK
<1>8. CASE SetUp
  <2>1. iface.link \in Links /\ UNCHANGED name
    BY <1>8 DEF SetUp, ControlInv, ControlAt, Updating
  <2>2. BringUp(iface.link) \/ UNCHANGED <<up, addrs, routes>>
    BY <1>8 DEF SetUp
  <2> QED  BY <2>1, <2>2, BringingUp DEF KernelOK
<1>9. CASE DeleteRoute
  <2>1. UNCHANGED <<name, up, addrs>> /\ routes' \subseteq routes
    BY <1>9 DEF DeleteRoute
  <2> QED  BY <2>1, FS_Subset DEF KernelOK
<1>10. CASE AddRoute
  <2>1. UNCHANGED <<name, up, addrs>>
    BY <1>10 DEF AddRoute
  <2>2. CASE routes' = routes
    BY <2>1, <2>2 DEF KernelOK
  <2>3. CASE routes' # routes
    <3>1. PICK l \in Links : routes' = routes \cup {RouteOn(Head(todo), l)}
      BY <1>10, <2>3 DEF AddRoute, AddFor, FindLinkByName
    <3>2. Head(todo) \in WantedRoutes
      BY <1>10 DEF AddRoute, ControlInv, ControlAt, Deleting
    <3>3. RouteOn(Head(todo), l) \in Routes
      BY <3>2 DEF RouteOn, Routes, WantedRoutes
    <3>4. IsFiniteSet(routes')
      BY <3>1, FS_AddElement DEF KernelOK
    <3> QED  BY <2>1, <3>1, <3>3, <3>4 DEF KernelOK
  <2> QED  BY <2>2, <2>3
<1>11. CASE \/ Stray
            \/ \E i \in IfaceRequests : UpdateInterface(i)
            \/ \E w \in RouteRequests : UpdateRoutes(w)
            \/ ListInterfaces \/ ListRoutes
  BY <1>2, <1>11 DEF Stray, UpdateInterface, UpdateRoutes, ListInterfaces, ListRoutes, Begin
<1>12. CASE \/ FindLink \/ GetLinkAddresses \/ ListLinks \/ ListAddrs \/ ListTable
            \/ NameListed \/ ReplyRoutes \/ GetAllRoutes \/ NameRoute \/ ReplyUpdated
  BY <1>2, <1>12 DEF FindLink, GetLinkAddresses, ListLinks, ListAddrs, ListTable,
                     NameListed, ReplyRoutes, GetAllRoutes, NameRoute, ReplyUpdated
<1> QED
  BY <1>3, <1>4, <1>5, <1>6, <1>7, <1>8, <1>9, <1>10, <1>11, <1>12 DEF Next
RequestInv == RequestOK /\ ControlInv /\ OwnAnswers /\ StrayInv

\* A request that ends leaves the handle to the next one, which begins with a
\* dump; one that goes on after an answer of its own leaves the socket empty.
LEMMA Ending ==
    ASSUME RequestOK, NEW r \in {"ok", "old", "error"}, Finish(r),
           queue' \in Seq(Messages), Internal
    PROVE  RequestInv'
<1>1. RequestOK'
  <2>1. <<>> \in Seq(Routes \cup Addrs) /\ <<>> \in Seq(WantedRoutes \cup Addrs)
    OBVIOUS
  <2> QED  BY <2>1 DEF RequestOK, Finish, Internal, callVars
<1>2. pc' = "idle"
  BY DEF Finish
<1> QED
  BY <1>1, <1>2 DEF RequestInv, ControlInv, ControlAt, OwnAnswers, StrayInv, Updating, Deleting

\* A failing request ends with an error, or replies the old routes.
LEMMA FailureIs == Failure \in {"old", "error"}
  BY DEF Failure

\* A dump that meets a message of another process ends the request.
LEMMA DumpFails ==
    ASSUME TypeOK, "foreign" \in ToSet(queue), Finish(Failure), Internal,
           queue' = LeftAfter(queue \o DumpAnswer, {"foreign"})
    PROVE  RequestInv'
  BY TypeParts, GivingUp, FailureIs, Ending

\* So does a talk that is refused.
LEMMA TalkFails ==
    ASSUME TypeOK, NEW own \in {"ack", "err", "link"}, queue' = Left(own),
           Finish(Failure), Internal
    PROVE  RequestInv'
  BY TypeParts, Talking, FailureIs, Ending

Controls == {"idle", "poisoned", "dumpLinks", "down", "dumpAddrs", "addrs",
             "up", "dumpAllAddrs", "dumpList", "names", "routes", "delete"}

\* A request that goes on does so with an empty socket.
LEMMA Onward ==
    ASSUME RequestOK, NEW at \in Controls,
           NEW s \in Seq(Routes \cup Addrs), NEW t \in Seq(WantedRoutes \cup Addrs),
           GoOn(at, s, t), ControlAt(at, s, t), queue' = <<>>, Internal
    PROVE  RequestInv'
<1>1. RequestOK'
  <2>1. <<>> \in Seq(Messages)
    OBVIOUS
  <2> QED  BY <2>1 DEF RequestOK, GoOn, Internal, callVars, Controls
<1>2. ControlInv'
  BY DEF ControlInv, ControlAt, GoOn, Internal, callVars
<1>3. ToSet(queue') = {}
  BY DEF ToSet
<1> QED  BY <1>1, <1>2, <1>3 DEF RequestInv, OwnAnswers, StrayInv

\* snap and todo hold addresses for one request and routes for another.
LEMMA MixedSeq ==
    /\ \A s \in Seq(Routes) : s \in Seq(Routes \cup Addrs)
    /\ \A s \in Seq(Addrs) : s \in Seq(Routes \cup Addrs)
    /\ \A s \in Seq(Addrs) : s \in Seq(WantedRoutes \cup Addrs)
    /\ \A s \in Seq(WantedRoutes) : s \in Seq(WantedRoutes \cup Addrs)
    /\ \A S : <<>> \in Seq(S)
<1>1. \A s \in Seq(Routes) : s \in Seq(Routes \cup Addrs)
  BY Wider
<1>2. \A s \in Seq(Addrs) : s \in Seq(Routes \cup Addrs)
  BY Wider
<1>3. \A s \in Seq(Addrs) : s \in Seq(WantedRoutes \cup Addrs)
  BY Wider
<1>4. \A s \in Seq(WantedRoutes) : s \in Seq(WantedRoutes \cup Addrs)
  BY Wider
<1> QED  BY <1>1, <1>2, <1>3, <1>4

\* The order of adding is a list of the routes of a request.
LEMMA OrderIsSeq ==
    ASSUME RequestOK
    PROVE  wanted \in Seq(WantedRoutes) /\ Order \in Seq(WantedRoutes)
<1>1. wanted \in Seq(WantedRoutes)
  BY NetworkAssumption DEF RequestOK, WantedRoutes
<1>2. Pick(wanted, {i \in DOMAIN wanted : wanted[i].gw = NoGw}) \in Seq(WantedRoutes)
  BY <1>1, Picks
<1>3. Pick(wanted, {i \in DOMAIN wanted : wanted[i].gw # NoGw}) \in Seq(WantedRoutes)
  BY <1>1, Picks
<1>4. \A a, b \in Seq(WantedRoutes) : a \o b \in Seq(WantedRoutes)
  OBVIOUS
<1> QED  BY <1>1, <1>2, <1>3, <1>4 DEF Order, AddOrder

\* Every step keeps the types of the request and the answers its own.
LEMMA RequestStep ==
    ASSUME HandleInv, Next  PROVE RequestInv'
<1>0. TypeOK /\ RequestOK /\ KernelOK /\ CountersOK /\ ControlInv /\ OwnAnswers /\ StrayInv
  BY TypeParts DEF HandleInv
<1> USE <1>0
<1>a. ASSUME NEW own \in {"ack", "err", "link"}, ~ Refused(own), queue' = Left(own),
             pc \in {"down", "addrs", "up", "routes", "delete"}
      PROVE  queue' = <<>>
  BY <1>a, Talking DEF OwnAnswers
<1>b. ASSUME Finish("ok") \/ Finish("error"), queue' \in Seq(Messages), Internal
      PROVE  RequestInv'
  BY <1>b, Ending
<1>1. CASE Stray
  <2>1. queue' = Append(queue, "foreign") /\ strayed' = TRUE
        /\ UNCHANGED <<pc, callVars, snap, todo, outcome>>
    BY <1>1 DEF Stray
  <2>2. queue' \in Seq(Messages) /\ ToSet(queue') = ToSet(queue) \cup {"foreign"}
    <3>1. queue \in Seq(Messages) /\ "foreign" \in Messages
      BY DEF RequestOK, Messages
    <3> QED  BY <2>1, <3>1, QueueIs
  <2> QED
    BY <2>1, <2>2 DEF RequestInv, RequestOK, ControlInv, ControlAt, OwnAnswers, StrayInv,
                      callVars
<1>2. CASE Meddle
  BY <1>2 DEF Meddle, RequestInv, RequestOK, ControlInv, ControlAt, OwnAnswers, StrayInv,
              callVars
<1>3. CASE \/ \E i \in IfaceRequests : UpdateInterface(i)
           \/ \E w \in RouteRequests : UpdateRoutes(w)
           \/ ListInterfaces \/ ListRoutes
  <2>1. /\ UNCHANGED <<queue, snap, todo>> /\ outcome' = "none"
        /\ strayed' = ("foreign" \in ToSet(queue))
        /\ \/ pc' = "dumpLinks" /\ op' \in {"UpdateInterface", "ListInterfaces"}
           \/ pc' = "dumpList" /\ op' \in {"UpdateRoutes", "ListRoutes"}
        /\ iface' \in IfaceRequests /\ wanted' \in RouteRequests
    BY <1>3 DEF UpdateInterface, UpdateRoutes, ListInterfaces, ListRoutes, Begin, RequestOK
  <2>2. RequestOK'
    BY <2>1 DEF RequestOK
  <2> QED
    BY <2>1, <2>2 DEF RequestInv, ControlInv, ControlAt, OwnAnswers, StrayInv, Updating,
                      Deleting
<1>4. CASE FindLink \/ GetLinkAddresses \/ ListLinks \/ ListAddrs \/ ListTable \/ GetAllRoutes
  <2>0. Internal
    BY <1>4 DEF FindLink, GetLinkAddresses, ListLinks, ListAddrs, ListTable, GetAllRoutes
  <2>1. CASE "foreign" \in ToSet(queue)
    <3>1. queue' = LeftAfter(queue \o DumpAnswer, {"foreign"}) /\ Finish(Failure)
      BY <1>4, <2>1 DEF FindLink, GetLinkAddresses, ListLinks, ListAddrs, ListTable,
                        GetAllRoutes, Dump
    <3> QED  BY <2>0, <2>1, <3>1, DumpFails
  <2>2. CASE "foreign" \notin ToSet(queue)
    <3>1. queue' = <<>>
      BY <1>4, <2>2 DEF FindLink, GetLinkAddresses, ListLinks, ListAddrs, ListTable,
                        GetAllRoutes, Dump
    <3>2. <<>> \in Seq(Messages) /\ <<>> \in Seq(Routes \cup Addrs)
          /\ <<>> \in Seq(WantedRoutes \cup Addrs)
      OBVIOUS
    <3>a. CASE Finish("ok") \/ Finish("error")
      BY <1>b, <2>0, <3>1, <3>2, <3>a
    <3>3. CASE FindLink
      <4>1. CASE iface.link \notin Links
        BY <2>2, <3>3, <3>a, <4>1 DEF FindLink, Dump
      <4>2. CASE iface.link \in Links
        <5>1. PICK at \in {"down", "dumpAddrs"} : GoOn(at, <<>>, <<>>)
          BY <2>2, <3>3, <4>2 DEF FindLink, Dump
        <5>2. ControlAt(at, <<>>, <<>>) /\ at \in Controls
          BY <3>3, <4>2 DEF ControlAt, FindLink, Deleting, Controls
        <5> QED  BY <2>0, <3>1, <3>2, <5>1, <5>2, Onward
      <4> QED  BY <4>1, <4>2
    <3>4. CASE GetLinkAddresses
      <4> DEFINE s == Primaries(addrs[iface.link])
                 t == iface.addrs
      <4>1. GoOn("addrs", s, t) /\ pc = "dumpAddrs"
        BY <2>2, <3>4 DEF GetLinkAddresses, Dump
      <4>2. op = "UpdateInterface" /\ iface.link \in Links
        BY <4>1 DEF ControlInv, ControlAt, Updating
      <4>3. s \in Seq(Addrs)
        <5>1. addrs[iface.link] \in Seq(Addrs)
          BY <4>2 DEF KernelOK
        <5> QED  BY <5>1, Picks DEF Primaries
      <4>4. t \in Seq(Addrs)
        BY NetworkAssumption DEF RequestOK
      <4> HIDE DEF s, t
      <4>5. ControlAt("addrs", s, t) /\ "addrs" \in Controls
        BY <4>2, <4>3, <4>4 DEF ControlAt, Updating, Deleting, Controls
      <4> QED  BY <2>0, <3>1, <4>1, <4>3, <4>4, <4>5, MixedSeq, Onward
    <3>5. CASE ListLinks
      <4>1. GoOn("dumpAllAddrs", <<>>, <<>>) /\ op = "ListInterfaces"
        BY <2>2, <3>5 DEF ListLinks, Dump
      <4>2. ControlAt("dumpAllAddrs", <<>>, <<>>) /\ "dumpAllAddrs" \in Controls
        BY <4>1 DEF ControlAt, Updating, Deleting, Controls
      <4> QED  BY <2>0, <3>1, <3>2, <4>1, <4>2, Onward
    <3>6. CASE ListAddrs
      BY <2>2, <3>6, <3>a DEF ListAddrs, Dump
    <3>7. CASE ListTable \/ GetAllRoutes
      <4> DEFINE s == SetToSeq(routes)
      <4>1. s \in Seq(Routes)
        <5>1. s \in Seq(routes) /\ routes \subseteq Routes
          BY Listing DEF KernelOK
        <5> HIDE DEF s
        <5> QED  BY <5>1, Wider
      <4> HIDE DEF s
      <4>2. CASE ListTable
        <5>1. GoOn("names", s, <<>>) /\ pc = "dumpList"
          BY <2>2, <4>2 DEF ListTable, Dump, s
        <5>2. ControlAt("names", s, <<>>) /\ "names" \in Controls
          BY <4>1, <5>1 DEF ControlInv, ControlAt, Updating, Deleting, Controls
        <5> QED  BY <2>0, <3>1, <3>2, <4>1, <5>1, <5>2, MixedSeq, Onward
      <4>3. CASE GetAllRoutes
        <5>1. GoOn("routes", s, Order) /\ op = "UpdateRoutes"
          BY <2>2, <4>3 DEF GetAllRoutes, Dump, s, Order
        <5>2. Order \in Seq(WantedRoutes)
          BY OrderIsSeq
        <5>3. ControlAt("routes", s, Order) /\ "routes" \in Controls
          BY <4>1, <5>1, <5>2 DEF ControlAt, Updating, Deleting, Controls
        <5> QED  BY <2>0, <3>1, <4>1, <5>1, <5>2, <5>3, MixedSeq, Onward
      <4> QED  BY <3>7, <4>2, <4>3
    <3> QED  BY <1>4, <3>3, <3>4, <3>5, <3>6, <3>7
  <2> QED  BY <2>1, <2>2
<1>c. ASSUME NEW own \in {"ack", "err", "link"}, Refused(own), queue' = Left(own),
             Finish(Failure), Internal
      PROVE  RequestInv'
  BY <1>c, TalkFails
<1>5. CASE SetDown
  <2>0. Internal /\ queue' = Left("ack")
    BY <1>5 DEF SetDown, Talk
  <2>1. CASE Refused("ack")
    <3>1. Finish(Failure)
      BY <1>5, <2>1 DEF SetDown, Talk
    <3> QED  BY <1>c, <2>0, <2>1, <3>1
  <2>2. CASE ~ Refused("ack")
    <3>1. GoOn("dumpAddrs", <<>>, <<>>) /\ pc = "down"
      BY <1>5, <2>2 DEF SetDown, Talk
    <3>2. queue' = <<>>
      BY <1>a, <2>0, <2>2, <3>1
    <3>3. ControlAt("dumpAddrs", <<>>, <<>>) /\ "dumpAddrs" \in Controls
      BY <3>1 DEF ControlInv, ControlAt, Updating, Deleting, Controls
    <3> QED  BY <2>0, <3>1, <3>2, <3>3, MixedSeq, Onward
  <2> QED  BY <2>1, <2>2
<1>6. CASE DeleteAddr
  <2>1. PICK own \in {"ack", "err"} : Talk(own, GoOn("addrs", Tail(snap), todo))
    BY <1>6 DEF DeleteAddr
  <2>2. Internal /\ queue' = Left(own) /\ pc = "addrs" /\ snap # <<>>
    BY <1>6, <2>1 DEF DeleteAddr, Talk
  <2>3. CASE Refused(own)
    <3>1. Finish(Failure)
      BY <2>1, <2>3 DEF Talk
    <3> QED  BY <1>c, <2>2, <2>3, <3>1
  <2>4. CASE ~ Refused(own)
    <3>1. GoOn("addrs", Tail(snap), todo)
      BY <2>1, <2>4 DEF Talk
    <3>2. queue' = <<>>
      BY <1>a, <2>2, <2>4
    <3>3. Tail(snap) \in Seq(Addrs) /\ todo \in Seq(Addrs)
      BY <2>2 DEF ControlInv, ControlAt
    <3>4. ControlAt("addrs", Tail(snap), todo) /\ "addrs" \in Controls
      BY <2>2, <3>3 DEF ControlInv, ControlAt, Updating, Deleting, Controls
    <3> QED  BY <2>2, <3>1, <3>2, <3>3, <3>4, MixedSeq, Onward
  <2> QED  BY <2>3, <2>4
<1>7. CASE AddAddr
  <2>1. PICK own \in {"ack", "err"} : Talk(own, GoOn("addrs", <<>>, Tail(todo)))
    BY <1>7 DEF AddAddr
  <2>2. Internal /\ queue' = Left(own) /\ pc = "addrs" /\ todo # <<>>
    BY <1>7, <2>1 DEF AddAddr, Talk
  <2>3. CASE Refused(own)
    <3>1. Finish(Failure)
      BY <2>1, <2>3 DEF Talk
    <3> QED  BY <1>c, <2>2, <2>3, <3>1
  <2>4. CASE ~ Refused(own)
    <3>1. GoOn("addrs", <<>>, Tail(todo))
      BY <2>1, <2>4 DEF Talk
    <3>2. queue' = <<>>
      BY <1>a, <2>2, <2>4
    <3>3. Tail(todo) \in Seq(Addrs) /\ <<>> \in Seq(Addrs)
      BY <2>2 DEF ControlInv, ControlAt
    <3>4. ControlAt("addrs", <<>>, Tail(todo)) /\ "addrs" \in Controls
      BY <2>2, <3>3 DEF ControlInv, ControlAt, Updating, Deleting, Controls
    <3> QED  BY <2>2, <3>1, <3>2, <3>3, <3>4, MixedSeq, Onward
  <2> QED  BY <2>3, <2>4
<1>8. CASE Rename
  <2>1. PICK own \in {"ack", "err"} : Talk(own, GoOn("up", <<>>, <<>>))
    BY <1>8 DEF Rename
  <2>2. Internal /\ queue' = Left(own) /\ pc = "addrs"
    BY <1>8, <2>1 DEF Rename, Talk
  <2>3. CASE Refused(own)
    <3>1. Finish(Failure)
      BY <2>1, <2>3 DEF Talk
    <3> QED  BY <1>c, <2>2, <2>3, <3>1
  <2>4. CASE ~ Refused(own)
    <3>1. GoOn("up", <<>>, <<>>)
      BY <2>1, <2>4 DEF Talk
    <3>2. queue' = <<>>
      BY <1>a, <2>2, <2>4
    <3>3. ControlAt("up", <<>>, <<>>) /\ "up" \in Controls
      BY <2>2 DEF ControlInv, ControlAt, Updating, Deleting, Controls
    <3> QED  BY <2>2, <3>1, <3>2, <3>3, MixedSeq, Onward
  <2> QED  BY <2>3, <2>4
<1>9. CASE SetUp
  <2>1. Internal /\ Finish("ok") /\ (queue' = Left("ack") \/ queue' = Left("err"))
    BY <1>9 DEF SetUp
  <2>2. queue' \in Seq(Messages)
    BY <2>1, Talking
  <2> QED  BY <1>b, <2>1, <2>2
<1>10. CASE NameListed
  <2>1. /\ Internal /\ queue' = Left("link") /\ GoOn("names", Tail(snap), <<>>)
        /\ pc = "names" /\ snap # <<>>
    BY <1>10 DEF NameListed
  <2>2. Tail(snap) \in Seq(Routes)
    BY <2>1 DEF ControlInv, ControlAt
  <2>3. queue' \in Seq(Messages) /\ ("foreign" \in ToSet(queue') => "foreign" \in ToSet(queue))
    BY <2>1, Talking
  <2>4. RequestOK'
    BY <2>1, <2>2, <2>3, MixedSeq DEF RequestOK, GoOn, Internal, callVars
  <2> QED
    BY <2>1, <2>2, <2>3, <2>4 DEF RequestInv, ControlInv, ControlAt, OwnAnswers, StrayInv,
         GoOn, Internal, callVars, ghostVars, Updating, Deleting
<1>11. CASE ReplyRoutes \/ ReplyUpdated
  <2>1. Internal /\ Finish("ok") /\ queue' = queue
    BY <1>11 DEF ReplyRoutes, ReplyUpdated
  <2> QED  BY <1>b, <2>1 DEF RequestOK
<1>12. CASE NameRoute
  <2> DEFINE keep == name[Head(snap).dev] \in LoNames \/ Head(snap).kernel
  <2>1. Internal /\ queue' = Left("link") /\ pc = "routes" /\ snap # <<>>
    BY <1>12 DEF NameRoute, Talk
  <2>2. CASE Refused("link")
    <3>1. Finish(Failure)
      BY <1>12, <2>2 DEF NameRoute, Talk
    <3> QED  BY <1>c, <2>1, <2>2, <3>1
  <2>3. CASE ~ Refused("link")
    <3>1. GoOn("routes", Tail(snap), todo) \/ GoOn("delete", snap, todo)
      BY <1>12, <2>3 DEF NameRoute, Talk
    <3>2. queue' = <<>>
      BY <1>a, <2>1, <2>3
    <3>3. snap \in Seq(Routes) /\ Tail(snap) \in Seq(Routes) /\ todo \in Seq(WantedRoutes)
      BY <2>1 DEF ControlInv, ControlAt, Deleting
    <3>4. /\ ControlAt("routes", Tail(snap), todo) /\ ControlAt("delete", snap, todo)
          /\ "routes" \in Controls /\ "delete" \in Controls
      BY <2>1, <3>3 DEF ControlInv, ControlAt, Updating, Deleting, Controls
    <3>5. CASE GoOn("routes", Tail(snap), todo)
      BY <2>1, <3>2, <3>3, <3>4, <3>5, MixedSeq, Onward
    <3>6. CASE GoOn("delete", snap, todo)
      BY <2>1, <3>2, <3>3, <3>4, <3>6, MixedSeq, Onward
    <3> QED  BY <3>1, <3>5, <3>6
  <2> QED  BY <2>2, <2>3
<1>13. CASE DeleteRoute
  <2>1. PICK own \in {"ack", "err"} : Talk(own, GoOn("routes", Tail(snap), todo))
    BY <1>13 DEF DeleteRoute
  <2>2. Internal /\ queue' = Left(own) /\ pc = "delete"
    BY <1>13, <2>1 DEF DeleteRoute, Talk
  <2>3. CASE Refused(own)
    <3>1. Finish(Failure)
      BY <2>1, <2>3 DEF Talk
    <3> QED  BY <1>c, <2>2, <2>3, <3>1
  <2>4. CASE ~ Refused(own)
    <3>1. GoOn("routes", Tail(snap), todo)
      BY <2>1, <2>4 DEF Talk
    <3>2. queue' = <<>>
      BY <1>a, <2>2, <2>4
    <3>3. snap \in Seq(Routes) /\ snap # <<>> /\ todo \in Seq(WantedRoutes)
      BY <2>2 DEF ControlInv, ControlAt, Deleting
    <3>4. Tail(snap) \in Seq(Routes)
      BY <3>3
    <3>5. ControlAt("routes", Tail(snap), todo) /\ "routes" \in Controls
      BY <2>2, <3>3, <3>4 DEF ControlInv, ControlAt, Updating, Deleting, Controls
    <3> QED  BY <2>2, <3>1, <3>2, <3>3, <3>4, <3>5, MixedSeq, Onward
  <2> QED  BY <2>3, <2>4
<1>14. CASE AddRoute
  <2>0. pc = "routes" /\ snap = <<>> /\ todo # <<>> /\ Internal
    BY <1>14 DEF AddRoute
  <2>1. CASE pc' = "poisoned" /\ UNCHANGED <<queue, snap, todo, outcome>>
    <3>1. RequestOK'
      BY <2>0, <2>1 DEF RequestOK, Internal, callVars
    <3> QED
      BY <2>0, <2>1, <3>1 DEF RequestInv, ControlInv, ControlAt, OwnAnswers, StrayInv,
           Internal, callVars, ghostVars, Updating, Deleting
  <2>2. CASE \E l \in FindLinkByName(Head(todo).dev) : AddFor(RouteOn(Head(todo), l))
    <3>1. PICK own \in {"ack", "err"} : Talk(own, GoOn("routes", <<>>, Tail(todo)))
      BY <2>2 DEF AddFor
    <3>2. queue' = Left(own)
      BY <3>1 DEF Talk
    <3>3. CASE Refused(own)
      <4>1. Finish(Failure)
        BY <3>1, <3>3 DEF Talk
      <4> QED  BY <1>c, <2>0, <3>2, <3>3, <4>1
    <3>4. CASE ~ Refused(own)
      <4>1. GoOn("routes", <<>>, Tail(todo))
        BY <3>1, <3>4 DEF Talk
      <4>2. queue' = <<>>
        BY <1>a, <2>0, <3>2, <3>4
      <4>3. Tail(todo) \in Seq(WantedRoutes) /\ <<>> \in Seq(Routes)
        BY <2>0 DEF ControlInv, ControlAt, Deleting
      <4>4. ControlAt("routes", <<>>, Tail(todo)) /\ "routes" \in Controls
        BY <2>0, <4>3 DEF ControlInv, ControlAt, Updating, Deleting, Controls
      <4> QED  BY <2>0, <4>1, <4>2, <4>3, <4>4, MixedSeq, Onward
    <3> QED  BY <3>3, <3>4
  <2> QED  BY <1>14, <2>1, <2>2 DEF AddRoute
<1> QED
  BY <1>1, <1>2, <1>3, <1>4, <1>5, <1>6, <1>7, <1>8, <1>9, <1>10, <1>11, <1>12, <1>13, <1>14
     DEF Next

\* Every step keeps the bounds.
LEMMA CountersStep ==
    ASSUME CountersOK, Next  PROVE CountersOK'
<1>1. CASE Stray
  BY <1>1, NetworkAssumption DEF CountersOK, Stray
<1>2. CASE Meddle
  BY <1>2, NetworkAssumption DEF CountersOK, Meddle
<1>3. ASSUME NEW o, NEW at, NEW fit \in BOOLEAN, Begin(o, at, fit)  PROVE CountersOK'
  <2>1. MaxCalls \in Nat
    BY NetworkAssumption
  <2>2. calls' \in 0..MaxCalls /\ UNCHANGED <<strays, meddles>>
    BY <1>3, <2>1 DEF CountersOK, Begin
  <2>3. strayed' \in BOOLEAN /\ touched' \in BOOLEAN /\ fits' \in BOOLEAN
    <3>1. strayed' = ("foreign" \in ToSet(queue)) /\ touched' = FALSE /\ fits' = fit
      BY <1>3 DEF Begin
    <3>2. ("foreign" \in ToSet(queue)) \in BOOLEAN
      OBVIOUS
    <3> QED  BY <1>3, <3>1, <3>2
  <2> QED  BY <2>2, <2>3 DEF CountersOK
<1>4. CASE \/ \E i \in IfaceRequests : UpdateInterface(i)
           \/ \E w \in RouteRequests : UpdateRoutes(w)
           \/ ListInterfaces \/ ListRoutes
  <2>1. \A i : FitsInterface(i) \in BOOLEAN
    BY DEF FitsInterface
  <2>2. \A w : FitsRoutes(w) \in BOOLEAN
    BY DEF FitsRoutes
  <2> QED  BY <1>3, <1>4, <2>1, <2>2 DEF UpdateInterface, UpdateRoutes, ListInterfaces, ListRoutes
<1>5. CASE UNCHANGED ghostVars
  BY <1>5 DEF CountersOK, ghostVars
<1>6. CASE \/ FindLink \/ SetDown \/ GetLinkAddresses
           \/ DeleteAddr \/ AddAddr \/ Rename \/ SetUp
           \/ ListLinks \/ ListAddrs
           \/ ListTable \/ NameListed \/ ReplyRoutes
           \/ GetAllRoutes \/ NameRoute \/ DeleteRoute \/ AddRoute \/ ReplyUpdated
  BY <1>5, <1>6 DEF FindLink, SetDown, GetLinkAddresses, DeleteAddr, AddAddr, Rename, SetUp,
       ListLinks, ListAddrs, ListTable, NameListed, ReplyRoutes, GetAllRoutes, NameRoute,
       DeleteRoute, AddRoute, ReplyUpdated, Internal
<1> QED  BY <1>1, <1>2, <1>4, <1>6 DEF Next

\* Every step, or none, keeps the invariant of the handle.
LEMMA HandleStep ==
    ASSUME HandleInv, [Next]_vars  PROVE HandleInv'
<1>1. CASE Next
  <2>1. KernelOK' /\ RequestInv' /\ CountersOK'
    BY <1>1, KernelStep, RequestStep, CountersStep, TypeParts DEF HandleInv
  <2>2. TypeOK'
    BY <2>1 DEF RequestInv, TypeOK, KernelOK, RequestOK, CountersOK, Messages, WantedRoutes
  <2> QED  BY <2>1, <2>2 DEF HandleInv, RequestInv
<1>2. CASE UNCHANGED vars
  BY <1>2 DEF vars, kernelVars, callVars, ghostVars, HandleInv, TypeOK, ControlInv, ControlAt,
              OwnAnswers, StrayInv
<1> QED  BY <1>1, <1>2

\* The invariant of the handle holds initially.
LEMMA HandleInit ==
    ASSUME Init  PROVE HandleInv
<1>1. KernelOK
  BY KernelInit
<1>2. RequestOK
  <2>1. iface \in IfaceRequests /\ wanted \in RouteRequests
    BY NetworkAssumption DEF Init
  <2> QED  BY <2>1, MixedSeq DEF Init, RequestOK
<1>3. CountersOK
  <2>1. MaxCalls \in Nat /\ MaxStrays \in Nat /\ MaxMeddles \in Nat
    BY NetworkAssumption
  <2>2. calls = 0 /\ strays = 0 /\ meddles = 0
    BY DEF Init
  <2>3. strayed = FALSE /\ touched = FALSE /\ fits = FALSE
    BY DEF Init
  <2>4. 0 \in 0..MaxCalls /\ 0 \in 0..MaxStrays /\ 0 \in 0..MaxMeddles
    BY <2>1
  <2> QED  BY <2>2, <2>3, <2>4 DEF CountersOK
<1>4. ControlInv /\ OwnAnswers /\ StrayInv
  BY DEF Init, ControlInv, ControlAt, OwnAnswers, StrayInv, Updating, Deleting
<1> QED  BY <1>1, <1>2, <1>3, <1>4, TypeParts DEF HandleInv
-----------------------------------------------------------------------------
(* The addresses of an interface.                                          *)

\* The listed addresses are one for each subnet of the link's.
LEMMA PrimariesAre ==
    ASSUME NEW s \in Seq(Addrs)
    PROVE  LET p == Primaries(s)
           IN  /\ p \in Seq(Addrs)
               /\ \A i \in DOMAIN s : \E j \in DOMAIN p : Subnet[s[i]] = Subnet[p[j]]
               /\ \A j \in DOMAIN p : \E i \in DOMAIN s : Subnet[s[i]] = Subnet[p[j]]
               /\ \A i, j \in DOMAIN p : Subnet[p[i]] = Subnet[p[j]] => i = j
<1> DEFINE I == {i \in DOMAIN s : \A j \in 1..(i - 1) : Subnet[s[j]] # Subnet[s[i]]}
           p == Primaries(s)
<1>1. Len(s) \in Nat /\ DOMAIN s = 1..Len(s) /\ I \in SUBSET (DOMAIN s)
  OBVIOUS
<1>2. ASSUME NEW i \in DOMAIN s  PROVE \E k \in I : Subnet[s[k]] = Subnet[s[i]]
  <2> DEFINE hits == {k \in DOMAIN s : Subnet[s[k]] = Subnet[s[i]]}
  <2>1. hits \in SUBSET (1..Len(s)) /\ i \in hits
    OBVIOUS
  <2>2. PICK k \in hits : \A m \in hits : k <= m
    <3> HIDE DEF hits
    <3> QED  BY <1>1, <2>1, Least
  <2>3. \A m \in 1..(k - 1) : m \in DOMAIN s /\ ~ (k <= m)
    BY <1>1
  <2>4. k \in I
    BY <2>2, <2>3
  <2> QED  BY <2>4
<1>3. ASSUME NEW a \in I, NEW b \in I, Subnet[s[a]] = Subnet[s[b]]  PROVE a = b
  <2>1. a \in Nat /\ b \in Nat /\ a >= 1 /\ b >= 1
    BY <1>1
  <2>2. a < b => a \in 1..(b - 1)
    BY <2>1
  <2>3. b < a => b \in 1..(a - 1)
    BY <2>1
  <2> QED  BY <1>3, <2>1, <2>2, <2>3
<1>4. p = Pick(s, I)
  BY DEF Primaries
<1> HIDE DEF I, p
<1>5. p \in Seq(Addrs)
  BY <1>1, <1>4, Picks
<1>6. PICK at : TakenAt(at, p, s, I)
  BY <1>1, <1>4, Picks
<1>7. /\ at \in [DOMAIN p -> I] /\ \A k \in DOMAIN p : p[k] = s[at[k]]
      /\ \A k, m \in DOMAIN p : at[k] = at[m] => k = m
      /\ \A i \in I : \E k \in DOMAIN p : at[k] = i
  BY <1>6 DEF TakenAt
<1>8. \A i \in DOMAIN s : \E j \in DOMAIN p : Subnet[s[i]] = Subnet[p[j]]
  BY <1>2, <1>7
<1>9. \A j \in DOMAIN p : \E i \in DOMAIN s : Subnet[s[i]] = Subnet[p[j]]
  BY <1>1, <1>7
<1>10. \A i, j \in DOMAIN p : Subnet[p[i]] = Subnet[p[j]] => i = j
  BY <1>3, <1>7
<1> QED  BY <1>5, <1>8, <1>9, <1>10 DEF p

\* What a filter of addresses leaves.
LEMMA Filtered ==
    ASSUME NEW S, NEW s \in Seq(S), NEW I \in SUBSET (DOMAIN s)
    PROVE  /\ \A k \in DOMAIN Pick(s, I) : \E i \in I : Pick(s, I)[k] = s[i]
           /\ \A i \in I : \E k \in DOMAIN Pick(s, I) : Pick(s, I)[k] = s[i]
<1>1. PICK at : TakenAt(at, Pick(s, I), s, I)
  BY Picks
<1> QED  BY <1>1 DEF TakenAt

\* A list grows by what is taken off the other.
LEMMA Moving ==
    ASSUME NEW S, NEW s \in Seq(S), NEW t \in Seq(S), t # <<>>
    PROVE  Append(s, Head(t)) \o Tail(t) = s \o t
  OBVIOUS

\* The empty list.
LEMMA Nothing ==
    ASSUME NEW S, NEW t \in Seq(S)
    PROVE  /\ <<>> \o t = t /\ t \o <<>> = t
           /\ t = <<>> <=> DOMAIN t = {}
           /\ t = <<>> <=> Len(t) = 0
  OBVIOUS
AddrsGoal == AddrsInv /\ InterfaceReplaced

\* A step that neither works on addresses nor ends an UpdateInterface well.
LEMMA AddrsElsewhere ==
    ASSUME pc' \notin {"addrs", "up"},
           pc' # "idle" \/ op' # "UpdateInterface" \/ outcome' # "ok"
    PROVE  AddrsGoal'
  BY DEF AddrsGoal, AddrsInv, InterfaceReplaced

\* Every step keeps what AddrsInv says of the addresses.
LEMMA AddrsStep ==
    ASSUME HandleInv, AddrsGoal, Next  PROVE AddrsGoal'
<1>0. TypeOK /\ RequestOK /\ KernelOK /\ ControlInv /\ OwnAnswers
  BY TypeParts DEF HandleInv
<1> USE <1>0
<1>f. Failure # "ok"
  BY DEF Failure
<1>1. CASE Stray
  BY <1>1 DEF Stray, kernelVars, callVars, AddrsGoal, AddrsInv, InterfaceReplaced
<1>2. CASE Meddle
  BY <1>2 DEF Meddle, AddrsGoal, AddrsInv, InterfaceReplaced
<1>3. CASE \/ \E i \in IfaceRequests : UpdateInterface(i)
           \/ \E w \in RouteRequests : UpdateRoutes(w)
           \/ ListInterfaces \/ ListRoutes
  <2>1. pc' \in {"dumpLinks", "dumpList"}
    BY <1>3 DEF UpdateInterface, UpdateRoutes, ListInterfaces, ListRoutes, Begin
  <2> QED  BY <2>1, AddrsElsewhere
<1>4. CASE FindLink \/ SetDown
  <2>1. pc' \in {"down", "dumpAddrs"} \/ (pc' = "idle" /\ outcome' # "ok")
    <3>1. CASE FindLink
      <4>1. \/ Finish(Failure) \/ Finish("error")
            \/ \E at \in {"down", "dumpAddrs"} : GoOn(at, <<>>, <<>>)
        BY <3>1 DEF FindLink, Dump
      <4> QED  BY <1>f, <4>1 DEF GoOn, Finish
    <3>2. CASE SetDown
      <4>1. Finish(Failure) \/ GoOn("dumpAddrs", <<>>, <<>>)
        BY <3>2 DEF SetDown, Talk
      <4> QED  BY <1>f, <4>1 DEF GoOn, Finish
    <3> QED  BY <1>4, <3>1, <3>2
  <2> QED  BY <2>1, AddrsElsewhere
<1>5. CASE ListLinks \/ ListTable \/ NameListed \/ GetAllRoutes \/ NameRoute \/ DeleteRoute
  <2>1. \/ pc' \in {"dumpAllAddrs", "names", "routes", "delete"}
        \/ pc' = "idle" /\ outcome' # "ok"
    BY <1>5, <1>f DEF ListLinks, ListTable, NameListed, GetAllRoutes, NameRoute, DeleteRoute,
                      Dump, Talk, GoOn, Finish
  <2> QED  BY <2>1, AddrsElsewhere
<1>6. CASE ListAddrs \/ ReplyRoutes \/ ReplyUpdated
  <2>1. pc' = "idle" /\ op' = op /\ op # "UpdateInterface"
    BY <1>6 DEF ListAddrs, ReplyRoutes, ReplyUpdated, Dump, Finish, Internal, callVars,
                ControlInv, ControlAt, Deleting
  <2> QED  BY <2>1, AddrsElsewhere
<1>7. CASE AddRoute
  <2>1. pc' \in {"poisoned", "routes"} \/ (pc' = "idle" /\ outcome' # "ok")
    <3>1. \/ pc' = "poisoned"
          \/ Finish(Failure) \/ GoOn("routes", <<>>, Tail(todo))
      BY <1>7 DEF AddRoute, AddFor, Talk
    <3> QED  BY <1>f, <3>1 DEF GoOn, Finish
  <2> QED  BY <2>1, AddrsElsewhere
<1>8. CASE GetLinkAddresses
  <2> DEFINE l == iface.link
             s == addrs[l]
             p == Primaries(s)
  <2>1. CASE "foreign" \in ToSet(queue)
    <3>1. pc' = "idle" /\ outcome' # "ok"
      BY <1>8, <1>f, <2>1 DEF GetLinkAddresses, Dump, Finish
    <3> QED  BY <3>1, AddrsElsewhere
  <2>2. CASE "foreign" \notin ToSet(queue)
    <3>1. /\ pc' = "addrs" /\ snap' = p /\ todo' = iface.addrs
          /\ UNCHANGED <<addrs, iface, touched>> /\ pc = "dumpAddrs"
      BY <1>8, <2>2 DEF GetLinkAddresses, Dump, GoOn, Internal, callVars, ghostVars, kernelVars
    <3>2. l \in Links /\ s \in Seq(Addrs)
      BY <3>1 DEF ControlInv, ControlAt, Updating, KernelOK
    <3>3. /\ p \in Seq(Addrs)
          /\ \A i \in DOMAIN s : \E j \in DOMAIN p : Subnet[s[i]] = Subnet[p[j]]
          /\ \A j \in DOMAIN p : \E i \in DOMAIN s : Subnet[s[i]] = Subnet[p[j]]
          /\ \A i, j \in DOMAIN p : Subnet[p[i]] = Subnet[p[j]] => i = j
      BY <3>2, PrimariesAre
    <3>4. ASSUME p = <<>>  PROVE addrs'[iface'.link] \o todo' = iface'.addrs
      <4>1. DOMAIN s = {}
        BY <3>3, <3>4
      <4>2. s = <<>>
        BY <3>2, <4>1, Nothing
      <4>3. iface.addrs \in Seq(Addrs)
        BY NetworkAssumption DEF RequestOK
      <4> QED  BY <3>1, <4>2, <4>3, Nothing
    <3>5. addrs'[iface'.link] = s
      BY <3>1
    <3> HIDE DEF p, s
    <3> QED  BY <3>1, <3>3, <3>4, <3>5 DEF AddrsGoal, AddrsInv, InterfaceReplaced
  <2> QED  BY <2>1, <2>2
<1>9. CASE DeleteAddr
  <2> DEFINE l == iface.link
             d == Subnet[Head(snap)]
             s == addrs[l]
             I == {i \in DOMAIN s : Subnet[s[i]] # d}
             p == Pick(s, I)
  <2>1. /\ pc = "addrs" /\ snap # <<>> /\ UNCHANGED <<iface, touched, op>>
        /\ \/ pc' = "idle" /\ outcome' # "ok"
           \/ pc' = "addrs" /\ snap' = Tail(snap) /\ todo' = todo
        /\ addrs' = [addrs EXCEPT ![l] = p]
    BY <1>9, <1>f DEF DeleteAddr, Talk, GoOn, Finish, DropSubnet, Internal, callVars, ghostVars
  <2>2. l \in Links /\ s \in Seq(Addrs) /\ snap \in Seq(Addrs)
    BY <2>1 DEF ControlInv, ControlAt, Updating, KernelOK
  <2>3. CASE touched \/ pc' = "idle"
    BY <2>1, <2>3, AddrsElsewhere DEF AddrsGoal, AddrsInv, InterfaceReplaced
  <2>4. CASE ~ touched /\ pc' = "addrs"
    <3>1. addrs'[iface'.link] = p
      BY <2>1, <2>2 DEF KernelOK
    <3>2. /\ p \in Seq(Addrs) /\ I \in SUBSET (DOMAIN s)
          /\ \A k \in DOMAIN p : \E i \in I : p[k] = s[i]
          /\ \A i \in I : \E k \in DOMAIN p : p[k] = s[i]
      <4>1. I \in SUBSET (DOMAIN s)
        OBVIOUS
      <4> HIDE DEF I, s
      <4> QED  BY <2>2, <4>1, Picks, Filtered
    <3>3. /\ todo = iface.addrs
          /\ \A i \in DOMAIN s : \E j \in DOMAIN snap : Subnet[s[i]] = Subnet[snap[j]]
          /\ \A j \in DOMAIN snap : \E i \in DOMAIN s : Subnet[s[i]] = Subnet[snap[j]]
          /\ \A i, j \in DOMAIN snap : Subnet[snap[i]] = Subnet[snap[j]] => i = j
      BY <2>1, <2>4 DEF AddrsGoal, AddrsInv
    <3> HIDE DEF p
    <3>4. /\ Len(snap) \in Nat /\ 1 \in DOMAIN snap /\ DOMAIN snap = 1..Len(snap)
          /\ d = Subnet[snap[1]] /\ DOMAIN Tail(snap) = 1..(Len(snap) - 1)
          /\ \A j \in 1..(Len(snap) - 1) : Tail(snap)[j] = snap[j + 1]
      BY <2>1, <2>2
    <3>5. \A k \in DOMAIN p : \E j \in DOMAIN Tail(snap) : Subnet[p[k]] = Subnet[Tail(snap)[j]]
      <4> TAKE k \in DOMAIN p
      <4>1. PICK i \in I : p[k] = s[i]
        BY <3>2
      <4>2. PICK j \in DOMAIN snap : Subnet[s[i]] = Subnet[snap[j]]
        BY <3>3
      <4>3. j # 1
        BY <3>4, <4>2
      <4>4. j - 1 \in 1..(Len(snap) - 1) /\ (j - 1) + 1 = j
        BY <3>4, <4>3
      <4> QED  BY <3>4, <4>1, <4>2, <4>4
    <3>6. \A j \in DOMAIN Tail(snap) : \E k \in DOMAIN p : Subnet[p[k]] = Subnet[Tail(snap)[j]]
      <4> TAKE j \in DOMAIN Tail(snap)
      <4>1. j + 1 \in DOMAIN snap /\ j + 1 # 1 /\ Tail(snap)[j] = snap[j + 1]
        BY <3>4
      <4>2. PICK i \in DOMAIN s : Subnet[s[i]] = Subnet[snap[j + 1]]
        BY <3>3, <4>1
      <4>3. i \in I
        BY <3>3, <3>4, <4>1, <4>2
      <4> QED  BY <3>2, <4>1, <4>2, <4>3
    <3>7. \A i, j \in DOMAIN Tail(snap) : Subnet[Tail(snap)[i]] = Subnet[Tail(snap)[j]] => i = j
      <4> TAKE i, j \in DOMAIN Tail(snap)
      <4>1. i + 1 \in DOMAIN snap /\ Tail(snap)[i] = snap[i + 1] /\ i \in Nat
        BY <3>4
      <4>2. j + 1 \in DOMAIN snap /\ Tail(snap)[j] = snap[j + 1] /\ j \in Nat
        BY <3>4
      <4>3. Subnet[snap[i + 1]] = Subnet[snap[j + 1]] => i + 1 = j + 1
        BY <3>3, <4>1, <4>2
      <4> QED  BY <4>1, <4>2, <4>3
    <3>8. ASSUME Tail(snap) = <<>>  PROVE p \o todo = iface.addrs
      <4>1. DOMAIN p = {}
        <5>1. DOMAIN Tail(snap) = {}
          BY <3>8
        <5> QED  BY <3>5, <5>1
      <4>2. p = <<>>
        BY <3>2, <4>1, Nothing
      <4>3. iface.addrs \in Seq(Addrs)
        BY NetworkAssumption DEF RequestOK
      <4> QED  BY <3>3, <4>2, <4>3, Nothing
    <3>9. snap' = Tail(snap) /\ todo' = todo /\ iface' = iface
      BY <2>1, <2>4
    <3> QED
      BY <2>4, <3>1, <3>3, <3>5, <3>6, <3>7, <3>8, <3>9 DEF AddrsGoal, AddrsInv, InterfaceReplaced
  <2> QED  BY <2>1, <2>3, <2>4
<1>10. CASE AddAddr
  <2> DEFINE l == iface.link
             a == Head(todo)
             new == a \notin ToSet(addrs[l])
             own == IF new THEN "ack" ELSE "err"
  <2>1. /\ pc = "addrs" /\ snap = <<>> /\ todo # <<>> /\ UNCHANGED <<iface, touched, op>>
        /\ queue' = Left(own)
        /\ \/ pc' = "idle" /\ outcome' # "ok"
           \/ pc' = "addrs" /\ snap' = <<>> /\ todo' = Tail(todo) /\ ~ Refused(own)
        /\ addrs' = IF new THEN [addrs EXCEPT ![l] = Append(@, a)] ELSE addrs
    BY <1>10, <1>f DEF AddAddr, Talk, GoOn, Finish, Internal, callVars, ghostVars
  <2>2. l \in Links /\ addrs[l] \in Seq(Addrs) /\ todo \in Seq(Addrs)
    BY <2>1 DEF ControlInv, ControlAt, Updating, KernelOK
  <2>3. CASE touched \/ pc' = "idle"
    BY <2>1, <2>3, AddrsElsewhere DEF AddrsGoal, AddrsInv, InterfaceReplaced
  <2>4. CASE ~ touched /\ pc' = "addrs"
    <3>1. own \in {"ack", "err"} /\ ~ Refused(own) /\ ToSet(queue) \subseteq {"foreign"}
      BY <2>1, <2>4 DEF OwnAnswers
    <3>2. new
      <4>1. own # "err"
        <5> HIDE DEF own
        <5> QED  BY <3>1, Talking
      <4> QED  BY <4>1
    <3>3. addrs'[l] = Append(addrs[l], a)
      BY <2>1, <2>2, <3>2 DEF KernelOK
    <3>4. addrs[l] \o todo = iface.addrs
      BY <2>1, <2>4 DEF AddrsGoal, AddrsInv
    <3>5. Append(addrs[l], a) \o Tail(todo) = addrs[l] \o todo
      BY <2>1, <2>2, Moving
    <3> QED
      BY <2>1, <2>4, <3>3, <3>4, <3>5 DEF AddrsGoal, AddrsInv, InterfaceReplaced
  <2> QED  BY <2>1, <2>3, <2>4
<1>11. CASE Rename
  <2> DEFINE l == iface.link
             able == ~ up[l] /\ \A k \in Links : name[k] = iface.name => k = l
             own == IF able THEN "ack" ELSE "err"
  <2>1. /\ pc = "addrs" /\ snap = <<>> /\ todo = <<>>
        /\ UNCHANGED <<iface, touched, op, addrs>>
        /\ queue' = Left(own)
        /\ \/ pc' = "idle" /\ outcome' # "ok"
           \/ pc' = "up" /\ ~ Refused(own)
        /\ name' = IF able THEN [name EXCEPT ![l] = iface.name] ELSE name
    BY <1>11, <1>f DEF Rename, Talk, GoOn, Finish, Internal, callVars, ghostVars
  <2>2. l \in Links /\ addrs[l] \in Seq(Addrs)
    BY <2>1 DEF ControlInv, ControlAt, Updating, KernelOK
  <2>3. CASE touched \/ pc' = "idle"
    BY <2>1, <2>3, AddrsElsewhere DEF AddrsGoal, AddrsInv, InterfaceReplaced
  <2>4. CASE ~ touched /\ pc' = "up"
    <3>1. own \in {"ack", "err"} /\ ~ Refused(own) /\ ToSet(queue) \subseteq {"foreign"}
      BY <2>1, <2>4 DEF OwnAnswers
    <3>2. able
      <4>1. own # "err"
        <5> HIDE DEF own
        <5> QED  BY <3>1, Talking
      <4> QED  BY <4>1
    <3>3. name'[l] = iface.name
      BY <2>1, <2>2, <3>2 DEF KernelOK
    <3>4. addrs[l] \o todo = iface.addrs
      BY <2>1, <2>4 DEF AddrsGoal, AddrsInv
    <3>5. addrs[l] = iface.addrs
      BY <2>1, <2>2, <3>4, Nothing
    <3> QED
      BY <2>1, <2>4, <3>3, <3>5 DEF AddrsGoal, AddrsInv, InterfaceReplaced
  <2> QED  BY <2>1, <2>3, <2>4
<1>12. CASE SetUp
  <2>1. pc = "up" /\ pc' = "idle" /\ UNCHANGED <<iface, touched, op, addrs, name>>
    BY <1>12 DEF SetUp, Finish, BringUp, Internal, callVars, ghostVars
  <2> QED  BY <2>1 DEF AddrsGoal, AddrsInv, InterfaceReplaced
<1> QED
  BY <1>1, <1>2, <1>3, <1>4, <1>5, <1>6, <1>7, <1>8, <1>9, <1>10, <1>11, <1>12 DEF Next
-----------------------------------------------------------------------------
(* The routes.                                                             *)

\* The elements of two lists put together.
LEMMA Joined ==
    ASSUME NEW S, NEW p \in Seq(S), NEW q \in Seq(S)
    PROVE  /\ p \o q \in Seq(S) /\ Len(p) \in Nat /\ Len(q) \in Nat
           /\ DOMAIN p = 1..Len(p) /\ DOMAIN q = 1..Len(q)
           /\ DOMAIN (p \o q) = 1..(Len(p) + Len(q))
           /\ \A i \in 1..Len(p) : (p \o q)[i] = p[i]
           /\ \A i \in 1..Len(q) : (p \o q)[Len(p) + i] = q[i]
           /\ \A i \in (Len(p) + 1)..(Len(p) + Len(q)) : (p \o q)[i] = q[i - Len(p)]
  OBVIOUS

\* The order of adding has the routes of the request, each once, and those
\* without a gateway first.
LEMMA Orders ==
    ASSUME NEW w \in Seq(WantedRoutes)
    PROVE  LET o == AddOrder(w)
           IN  /\ o \in Seq(WantedRoutes)
               /\ \A k \in DOMAIN o : \E i \in DOMAIN w : o[k] = w[i]
               /\ \A i \in DOMAIN w : \E k \in DOMAIN o : o[k] = w[i]
               /\ SameDests(w) => SameDests(o)
               /\ \A j, k \in DOMAIN o : o[j].gw = NoGw /\ o[k].gw # NoGw => j < k
<1> DEFINE I == {i \in DOMAIN w : w[i].gw = NoGw}
           J == {i \in DOMAIN w : w[i].gw # NoGw}
           p == Pick(w, I)  m == Len(p)
           q == Pick(w, J)  n == Len(q)
           o == AddOrder(w)
<1>1. I \in SUBSET (DOMAIN w) /\ J \in SUBSET (DOMAIN w)
  OBVIOUS
<1>2. \A i \in DOMAIN w : i \in I \/ i \in J
  OBVIOUS
<1>3. (\A i \in I : w[i].gw = NoGw) /\ (\A j \in J : w[j].gw # NoGw)
  OBVIOUS
<1>4. o = p \o q
  BY DEF AddOrder
<1> HIDE DEF I, J, o
<1>5. p \in Seq(WantedRoutes) /\ q \in Seq(WantedRoutes)
  BY <1>1, Picks
<1>6. PICK at : TakenAt(at, p, w, I)
  BY <1>1, Picks
<1>7. PICK bt : TakenAt(bt, q, w, J)
  BY <1>1, Picks
<1> HIDE DEF p, q
<1>8. /\ m \in Nat /\ n \in Nat /\ DOMAIN p = 1..m /\ DOMAIN q = 1..n
      /\ at \in [1..m -> I] /\ \A k \in 1..m : p[k] = w[at[k]]
      /\ \A j, k \in 1..m : at[j] = at[k] => j = k
      /\ \A i \in I : \E k \in 1..m : at[k] = i
      /\ bt \in [1..n -> J] /\ \A k \in 1..n : q[k] = w[bt[k]]
      /\ \A j, k \in 1..n : bt[j] = bt[k] => j = k
      /\ \A i \in J : \E k \in 1..n : bt[k] = i
  <2>1. m \in Nat /\ n \in Nat /\ DOMAIN p = 1..m /\ DOMAIN q = 1..n
    BY <1>5, Joined
  <2>2. /\ at \in [1..m -> I] /\ \A k \in 1..m : p[k] = w[at[k]]
        /\ \A j, k \in 1..m : at[j] = at[k] => j = k
        /\ \A i \in I : \E k \in 1..m : at[k] = i
    BY <1>6, <2>1 DEF TakenAt
  <2>3. /\ bt \in [1..n -> J] /\ \A k \in 1..n : q[k] = w[bt[k]]
        /\ \A j, k \in 1..n : bt[j] = bt[k] => j = k
        /\ \A i \in J : \E k \in 1..n : bt[k] = i
    BY <1>7, <2>1 DEF TakenAt
  <2> QED  BY <2>1, <2>2, <2>3
<1>9. /\ o \in Seq(WantedRoutes) /\ DOMAIN o = 1..(m + n)
      /\ \A i \in 1..m : o[i] = p[i]
      /\ \A i \in 1..n : o[m + i] = q[i]
      /\ \A i \in (m + 1)..(m + n) : o[i] = q[i - m]
  BY <1>4, <1>5, Joined
<1> HIDE DEF m, n
<1>10. \A k \in DOMAIN o : k \in 1..m \/ (k \in (m + 1)..(m + n) /\ k - m \in 1..n)
  BY <1>8, <1>9
<1> DEFINE ct == [k \in DOMAIN o |-> IF k <= m THEN at[k] ELSE bt[k - m]]
<1>11. \A k \in DOMAIN o : /\ ct[k] \in DOMAIN w /\ o[k] = w[ct[k]]
                           /\ k <= m => ct[k] \in I
                           /\ k > m => ct[k] \in J
  <2> TAKE k \in DOMAIN o
  <2>1. CASE k \in 1..m
    <3>1. k <= m /\ ~ (k > m)
      BY <1>8, <2>1
    <3> QED  BY <1>1, <1>8, <1>9, <2>1, <3>1
  <2>2. CASE k \in (m + 1)..(m + n) /\ k - m \in 1..n
    <3>1. ~ (k <= m) /\ k > m
      BY <1>8, <2>2
    <3> QED  BY <1>1, <1>8, <1>9, <2>2, <3>1
  <2> QED  BY <1>10, <2>1, <2>2
<1>12. \A j, k \in DOMAIN o : ct[j] = ct[k] => j = k
  <2> SUFFICES ASSUME NEW j \in DOMAIN o, NEW k \in DOMAIN o, ct[j] = ct[k]  PROVE j = k
    OBVIOUS
  <2>1. j \in Nat /\ k \in Nat
    BY <1>8, <1>9
  <2>2. CASE j <= m /\ k <= m
    <3>1. j \in 1..m /\ k \in 1..m
      BY <1>8, <1>9, <2>2
    <3> QED  BY <1>8, <2>2, <3>1
  <2>3. CASE j > m /\ k > m
    <3>1. j - m \in 1..n /\ k - m \in 1..n /\ ~ (j <= m) /\ ~ (k <= m)
      BY <1>8, <1>10, <2>1, <2>3
    <3>2. j - m = k - m
      BY <1>8, <3>1
    <3> QED  BY <1>8, <2>1, <3>2
  <2>4. CASE (j <= m /\ k > m) \/ (j > m /\ k <= m)
    <3>1. (ct[j] \in I /\ ct[k] \in J) \/ (ct[j] \in J /\ ct[k] \in I)
      <4> HIDE DEF ct
      <4> QED  BY <1>11, <2>4
    <3> QED  BY <1>3, <3>1
  <2> QED  BY <1>8, <2>1, <2>2, <2>3, <2>4
<1>13. \A i \in DOMAIN w : \E k \in DOMAIN o : o[k] = w[i]
  <2> TAKE i \in DOMAIN w
  <2>1. CASE i \in I
    <3>1. PICK k \in 1..m : at[k] = i
      BY <1>8, <2>1
    <3>2. k \in DOMAIN o /\ o[k] = w[i]
      BY <1>8, <1>9, <3>1
    <3> QED  BY <3>2
  <2>2. CASE i \in J
    <3>1. PICK k \in 1..n : bt[k] = i
      BY <1>8, <2>2
    <3>2. m + k \in DOMAIN o /\ o[m + k] = w[i]
      BY <1>8, <1>9, <3>1
    <3> QED  BY <3>2
  <2> QED  BY <1>2, <2>1, <2>2
<1> HIDE DEF ct
<1>14. SameDests(w) => SameDests(o)
  <2> SUFFICES ASSUME SameDests(w), NEW j \in DOMAIN o, NEW k \in DOMAIN o,
                      o[j].dest = o[k].dest
               PROVE  j = k
    BY DEF SameDests
  <2>1. w[ct[j]].dest = w[ct[k]].dest /\ ct[j] \in DOMAIN w /\ ct[k] \in DOMAIN w
    BY <1>11
  <2>2. ct[j] = ct[k]
    BY <2>1 DEF SameDests
  <2> QED  BY <1>12, <2>2
<1>15. \A j, k \in DOMAIN o : o[j].gw = NoGw /\ o[k].gw # NoGw => j < k
  <2> TAKE j, k \in DOMAIN o
  <2> HAVE o[j].gw = NoGw /\ o[k].gw # NoGw
  <2>1. j \in Nat /\ k \in Nat
    BY <1>8, <1>9
  <2>2. o[j] = w[ct[j]] /\ o[k] = w[ct[k]]
    BY <1>11
  <2>3. j > m => FALSE
    BY <1>3, <1>11, <2>2
  <2>4. k <= m => FALSE
    BY <1>3, <1>11, <2>2
  <2> QED  BY <1>8, <2>1, <2>3, <2>4
<1> QED  BY <1>9, <1>11, <1>13, <1>14, <1>15 DEF o
RoutesGoal == RoutesInv /\ RoutesReplaced

\* A step that neither works on routes nor ends an UpdateRoutes well.
LEMMA RoutesElsewhere ==
    ASSUME pc' \notin Deleting,
           pc' # "idle" \/ op' # "UpdateRoutes" \/ outcome' # "ok"
    PROVE  RoutesGoal'
  BY DEF RoutesGoal, RoutesInv, RoutesReplaced

\* The first of a list, and the rest.
LEMMA HeadTail ==
    ASSUME NEW S, NEW s \in Seq(S), s # <<>>
    PROVE  /\ Len(s) \in Nat /\ DOMAIN s = 1..Len(s) /\ 1 \in DOMAIN s
           /\ Head(s) = s[1] /\ Head(s) \in S
           /\ Tail(s) \in Seq(S) /\ DOMAIN Tail(s) = 1..(Len(s) - 1)
           /\ Len(Tail(s)) = Len(s) - 1
           /\ \A j \in DOMAIN Tail(s) : Tail(s)[j] = s[j + 1] /\ j + 1 \in DOMAIN s
           /\ \A j \in DOMAIN s : j # 1 => j - 1 \in DOMAIN Tail(s) /\ s[j] = Tail(s)[j - 1]
<1>1. Len(s) \in Nat /\ DOMAIN s = 1..Len(s) /\ 1 \in DOMAIN s /\ Head(s) = s[1]
      /\ Head(s) \in S /\ Tail(s) \in Seq(S)
  OBVIOUS
<1>2. DOMAIN Tail(s) = 1..(Len(s) - 1) /\ Len(Tail(s)) = Len(s) - 1
      /\ \A j \in 1..(Len(s) - 1) : Tail(s)[j] = s[j + 1]
  BY <1>1
<1>3. \A j \in DOMAIN Tail(s) : Tail(s)[j] = s[j + 1] /\ j + 1 \in DOMAIN s
  BY <1>1, <1>2
<1>4. \A j \in DOMAIN s : j # 1 => j - 1 \in DOMAIN Tail(s) /\ s[j] = Tail(s)[j - 1]
  <2> TAKE j \in DOMAIN s
  <2> HAVE j # 1
  <2>1. j - 1 \in 1..(Len(s) - 1) /\ (j - 1) + 1 = j
    BY <1>1
  <2> QED  BY <1>2, <2>1
<1> QED  BY <1>1, <1>2, <1>3, <1>4

\* Of a list without duplicates the rest does not have the first.
LEMMA TailInjective ==
    ASSUME NEW S, NEW s \in Seq(S), s # <<>>, IsInjective(s)
    PROVE  /\ IsInjective(Tail(s)) /\ \A j \in DOMAIN Tail(s) : Tail(s)[j] # Head(s)
           /\ \A j \in DOMAIN s : s[j] # Head(s) => \E i \in DOMAIN Tail(s) : Tail(s)[i] = s[j]
<1>1. /\ Len(s) \in Nat /\ DOMAIN s = 1..Len(s) /\ 1 \in DOMAIN s /\ Head(s) = s[1]
      /\ DOMAIN Tail(s) = 1..(Len(s) - 1)
      /\ \A j \in DOMAIN Tail(s) : Tail(s)[j] = s[j + 1] /\ j + 1 \in DOMAIN s
      /\ \A j \in DOMAIN s : j # 1 => j - 1 \in DOMAIN Tail(s) /\ s[j] = Tail(s)[j - 1]
  BY HeadTail
<1>2. \A i, j \in DOMAIN s : s[i] = s[j] => i = j
  BY DEF IsInjective
<1>3. \A i, j \in DOMAIN Tail(s) : Tail(s)[i] = Tail(s)[j] => i = j
  <2> SUFFICES ASSUME NEW i \in DOMAIN Tail(s), NEW j \in DOMAIN Tail(s),
                      Tail(s)[i] = Tail(s)[j]
               PROVE  i = j
    OBVIOUS
  <2>1. i \in Nat /\ j \in Nat /\ i + 1 = j + 1
    BY <1>1, <1>2
  <2> QED  BY <2>1
<1>4. ASSUME NEW j \in DOMAIN Tail(s)  PROVE Tail(s)[j] # Head(s)
  <2>1. j \in Nat /\ j + 1 # 1 /\ j + 1 \in DOMAIN s
    BY <1>1
  <2> QED  BY <1>1, <1>2, <2>1
<1>5. ASSUME NEW j \in DOMAIN s, s[j] # Head(s)
      PROVE  \E i \in DOMAIN Tail(s) : Tail(s)[i] = s[j]
  BY <1>1, <1>5
<1> QED  BY <1>3, <1>4, <1>5 DEF IsInjective

\* A request that works on routes leaves its arguments and the names alone.
RoutesFrame == UNCHANGED <<name, op, wanted, touched>>

\* Every step keeps what RoutesInv says of the table.
LEMMA RoutesStep ==
    ASSUME HandleInv, RoutesGoal, Next  PROVE RoutesGoal'
<1>0. TypeOK /\ RequestOK /\ KernelOK /\ ControlInv /\ OwnAnswers
  BY TypeParts DEF HandleInv
<1> USE <1>0
<1>f. Failure # "ok"
  BY DEF Failure
<1>o. /\ wanted \in Seq(WantedRoutes) /\ Order \in Seq(WantedRoutes)
      /\ \A k \in DOMAIN Order : Order[k] \in ToSet(wanted)
      /\ \A w \in ToSet(wanted) : \E k \in DOMAIN Order : Order[k] = w
      /\ Len(Order) \in Nat /\ DOMAIN Order = 1..Len(Order)
  <2>1. wanted \in Seq(WantedRoutes) /\ Order \in Seq(WantedRoutes)
    BY OrderIsSeq
  <2>2. /\ \A k \in DOMAIN Order : \E i \in DOMAIN wanted : Order[k] = wanted[i]
        /\ \A i \in DOMAIN wanted : \E k \in DOMAIN Order : Order[k] = wanted[i]
    BY <2>1, Orders DEF Order
  <2>3. Len(Order) \in Nat /\ DOMAIN Order = 1..Len(Order)
    BY <2>1
  <2>4. ToSet(wanted) = {wanted[i] : i \in DOMAIN wanted}
    BY DEF ToSet
  <2> QED  BY <2>1, <2>2, <2>3, <2>4
<1>1. CASE Stray
  BY <1>1 DEF Stray, kernelVars, callVars, RoutesGoal, RoutesInv, RoutesReplaced, Order, Added,
              AddedRoutes, Kept, FindLinkByName, Staying
<1>2. CASE Meddle
  BY <1>2 DEF Meddle, RoutesGoal, RoutesInv, RoutesReplaced
<1>3. CASE \/ \E i \in IfaceRequests : UpdateInterface(i)
           \/ \E w \in RouteRequests : UpdateRoutes(w)
           \/ ListInterfaces \/ ListRoutes
  <2>1. pc' \in {"dumpLinks", "dumpList"}
    BY <1>3 DEF UpdateInterface, UpdateRoutes, ListInterfaces, ListRoutes, Begin
  <2> QED  BY <2>1, RoutesElsewhere DEF Deleting
<1>4. CASE FindLink \/ SetDown \/ GetLinkAddresses \/ DeleteAddr \/ AddAddr \/ Rename
           \/ SetUp \/ ListLinks \/ ListAddrs \/ ReplyRoutes
  <2>1. op \in {"UpdateInterface", "ListInterfaces", "ListRoutes"} /\ op' = op
    BY <1>4 DEF FindLink, SetDown, GetLinkAddresses, DeleteAddr, AddAddr, Rename, SetUp,
         ListLinks, ListAddrs, ReplyRoutes, Internal, callVars, ControlInv, ControlAt, Updating
  <2>2. CASE FindLink
    <3>1. Finish(Failure) \/ Finish("error") \/ \E at \in {"down", "dumpAddrs"} : GoOn(at, <<>>, <<>>)
      BY <2>2 DEF FindLink, Dump
    <3> QED  BY <2>1, <3>1, RoutesElsewhere DEF GoOn, Finish, Deleting
  <2>3. CASE SetDown
    <3>1. Finish(Failure) \/ GoOn("dumpAddrs", <<>>, <<>>)
      BY <2>3 DEF SetDown, Talk
    <3> QED  BY <2>1, <3>1, RoutesElsewhere DEF GoOn, Finish, Deleting
  <2>4. CASE GetLinkAddresses \/ DeleteAddr \/ AddAddr \/ Rename \/ SetUp
             \/ ListLinks \/ ListAddrs \/ ReplyRoutes
    <3>1. pc' \in {"addrs", "up", "dumpAllAddrs", "idle"}
      BY <2>4 DEF GetLinkAddresses, DeleteAddr, AddAddr, Rename, SetUp, ListLinks, ListAddrs,
                  ReplyRoutes, Dump, Talk, GoOn, Finish
    <3> QED  BY <2>1, <3>1, RoutesElsewhere DEF Deleting
  <2> QED  BY <1>4, <2>2, <2>3, <2>4
<1>5. CASE ListTable \/ NameListed
  <2>1. pc' = "names" \/ (pc' = "idle" /\ outcome' # "ok")
    BY <1>5, <1>f DEF ListTable, NameListed, Dump, GoOn, Finish
  <2> QED  BY <2>1, RoutesElsewhere DEF Deleting
<1>6. CASE GetAllRoutes
  <2>1. CASE Finish(Failure)
    BY <1>f, <2>1, RoutesElsewhere DEF Finish, Deleting
  <2>2. CASE GoOn("routes", SetToSeq(routes), Order)
    <3> DEFINE s == SetToSeq(routes)
    <3>1. pc' = "routes" /\ snap' = s /\ todo' = Order /\ UNCHANGED routes /\ RoutesFrame
      BY <1>6, <2>2 DEF GoOn, GetAllRoutes, Internal, callVars, ghostVars, kernelVars,
                        RoutesFrame
    <3>2. s \in Seq(routes) /\ IsInjective(s) /\ \A r \in routes : \E i \in DOMAIN s : s[i] = r
      BY Listing DEF KernelOK
    <3>3. Order' = Order
      BY <3>1 DEF Order, RoutesFrame
    <3>4. Added' = 0
      BY <1>o, <3>1, <3>3 DEF Added
    <3> HIDE DEF s
    <3>5. \A i \in DOMAIN s : s[i] \in routes
      BY <3>2
    <3>6. RoutesInv'
      BY <1>o, <3>1, <3>2, <3>3, <3>4, <3>5 DEF RoutesInv
    <3>7. RoutesReplaced'
      BY <3>1 DEF RoutesReplaced
    <3> QED  BY <3>6, <3>7 DEF RoutesGoal
  <2> QED  BY <1>6, <2>1, <2>2 DEF GetAllRoutes, Dump, Order
<1>7. CASE NameRoute
  <2> DEFINE r == Head(snap)
  <2>1. /\ pc = "routes" /\ snap # <<>> /\ UNCHANGED routes /\ RoutesFrame
        /\ \/ Finish(Failure)
           \/ Kept(r) /\ GoOn("routes", Tail(snap), todo)
           \/ ~ Kept(r) /\ GoOn("delete", snap, todo)
    BY <1>7 DEF NameRoute, Talk, Internal, callVars, ghostVars, kernelVars, RoutesFrame, Kept
  <2>2. snap \in Seq(Routes) /\ op = "UpdateRoutes"
    BY <2>1 DEF ControlInv, ControlAt, Deleting
  <2>3. CASE Finish(Failure)
    BY <1>f, <2>3, RoutesElsewhere DEF Finish, Deleting
  <2>4. CASE touched
    <3>1. touched' /\ (pc' = "idle" => outcome' # "ok")
      BY <1>f, <2>1, <2>4 DEF RoutesFrame, GoOn, Finish
    <3> QED  BY <3>1 DEF RoutesGoal, RoutesInv, RoutesReplaced
  <2>5. CASE Kept(r) /\ GoOn("routes", Tail(snap), todo) /\ ~ touched
    <3>1. /\ Head(snap) = snap[1]
          /\ \A j \in DOMAIN Tail(snap) : Tail(snap)[j] = snap[j + 1] /\ j + 1 \in DOMAIN snap
          /\ \A j \in DOMAIN snap : j # 1 => j - 1 \in DOMAIN Tail(snap)
                                             /\ snap[j] = Tail(snap)[j - 1]
      BY <2>1, <2>2, HeadTail
    <3>2. RoutesInv
      BY DEF RoutesGoal
    <3>3. /\ pc \in Deleting /\ pc' = "routes" /\ snap' = Tail(snap) /\ todo' = todo
          /\ name' = name /\ wanted' = wanted
      BY <2>1, <2>5 DEF Deleting, GoOn, RoutesFrame
    <3>4. Order' = Order /\ Added' = Added
      BY <3>3 DEF Order, Added
    <3>5. AddedRoutes' = AddedRoutes /\ \A n : FindLinkByName(n)' = FindLinkByName(n)
      BY <3>3, <3>4 DEF AddedRoutes, FindLinkByName
    <3>6. \A q : Kept(q)' <=> Kept(q)
      BY <3>3 DEF Kept
    <3>7. IsInjective(Tail(snap))
      BY <2>1, <2>2, <2>5, <3>2, <3>3, TailInjective DEF RoutesInv
    <3>8. \A q \in routes : Kept(q) \/ (\E i \in DOMAIN Tail(snap) : Tail(snap)[i] = q)
                            \/ q \in AddedRoutes
      BY <2>1, <2>5, <3>1, <3>2, <3>3 DEF RoutesInv
    <3>9. \A i \in DOMAIN Tail(snap) : Tail(snap)[i] \in routes
      BY <2>5, <3>1, <3>2, <3>3 DEF RoutesInv
    <3>10. /\ Len(todo) <= Len(Order) /\ \A i \in DOMAIN todo : todo[i] = Order[Added + i]
           /\ Added = 0
           /\ \A i \in 1..Added : \E l \in FindLinkByName(Order[i].dev) :
                  RouteOn(Order[i], l) \in routes
      BY <2>1, <2>5, <3>2, <3>3 DEF RoutesInv
    <3>11. RoutesInv'
      BY <2>1, <3>3, <3>4, <3>5, <3>6, <3>7, <3>8, <3>9, <3>10 DEF RoutesInv
    <3> QED  BY <3>3, <3>11 DEF RoutesGoal, RoutesReplaced
  <2>6. CASE ~ Kept(r) /\ GoOn("delete", snap, todo) /\ ~ touched
    <3>1. /\ pc \in Deleting /\ pc' = "delete" /\ snap' = snap /\ todo' = todo
          /\ name' = name /\ wanted' = wanted
      BY <2>1, <2>6 DEF Deleting, GoOn, RoutesFrame
    <3>2. Order' = Order /\ Added' = Added
      BY <3>1 DEF Order, Added
    <3>3. AddedRoutes' = AddedRoutes /\ \A n : FindLinkByName(n)' = FindLinkByName(n)
      BY <3>1, <3>2 DEF AddedRoutes, FindLinkByName
    <3>4. \A q : Kept(q)' <=> Kept(q)
      BY <3>1 DEF Kept
    <3>5. ~ Kept(Head(snap))'
      BY <2>6, <3>1 DEF Kept
    <3>6. RoutesInv'
      BY <2>1, <2>6, <3>1, <3>2, <3>3, <3>4, <3>5 DEF RoutesInv, RoutesGoal
    <3> QED  BY <3>1, <3>6 DEF RoutesGoal, RoutesReplaced
  <2> QED  BY <2>1, <2>3, <2>4, <2>5, <2>6
<1>8. CASE DeleteRoute
  <2> DEFINE r == Head(snap)
  <2>1. /\ pc = "delete" /\ routes' = routes \ {r} /\ RoutesFrame
        /\ \/ Finish(Failure)
           \/ GoOn("routes", Tail(snap), todo)
    BY <1>8 DEF DeleteRoute, Talk, Internal, callVars, ghostVars, kernelVars, RoutesFrame
  <2>2. snap \in Seq(Routes) /\ op = "UpdateRoutes" /\ snap # <<>>
    BY <2>1 DEF ControlInv, ControlAt, Deleting
  <2>3. CASE Finish(Failure)
    BY <1>f, <2>3, RoutesElsewhere DEF Finish, Deleting
  <2>4. CASE touched
    <3>1. touched' /\ (pc' = "idle" => outcome' # "ok")
      BY <1>f, <2>1, <2>4 DEF RoutesFrame, GoOn, Finish
    <3> QED  BY <3>1 DEF RoutesGoal, RoutesInv, RoutesReplaced
  <2>5. CASE GoOn("routes", Tail(snap), todo) /\ ~ touched
    <3>1. /\ pc \in Deleting /\ pc' = "routes" /\ snap' = Tail(snap) /\ todo' = todo
          /\ name' = name /\ wanted' = wanted
      BY <2>1, <2>5 DEF Deleting, GoOn, RoutesFrame
    <3>2. /\ Len(todo) <= Len(Order) /\ \A i \in DOMAIN todo : todo[i] = Order[Added + i]
          /\ Added = 0 /\ IsInjective(snap)
          /\ \A i \in DOMAIN snap : snap[i] \in routes
          /\ \A q \in routes :
                 Kept(q) \/ (\E i \in DOMAIN snap : snap[i] = q) \/ q \in AddedRoutes
      BY <2>2, <2>5, <3>1 DEF RoutesInv, RoutesGoal
    <3>3. /\ \A j \in DOMAIN Tail(snap) : Tail(snap)[j] = snap[j + 1] /\ j + 1 \in DOMAIN snap
          /\ IsInjective(Tail(snap)) /\ \A j \in DOMAIN Tail(snap) : Tail(snap)[j] # r
          /\ \A j \in DOMAIN snap :
                 snap[j] # r => \E i \in DOMAIN Tail(snap) : Tail(snap)[i] = snap[j]
      BY <2>2, <3>2, HeadTail, TailInjective
    <3>4. Order' = Order /\ Added' = Added
      BY <3>1 DEF Order, Added
    <3>5. AddedRoutes' = AddedRoutes
      BY <3>1, <3>4 DEF AddedRoutes
    <3>6. \A q : Kept(q)' <=> Kept(q)
      BY <3>1 DEF Kept
    <3>7. \A q \in routes' : Kept(q) \/ (\E i \in DOMAIN Tail(snap) : Tail(snap)[i] = q)
                             \/ q \in AddedRoutes
      BY <2>1, <3>2, <3>3
    <3>8. \A i \in DOMAIN Tail(snap) : Tail(snap)[i] \in routes'
      BY <2>1, <3>2, <3>3
    <3>9. RoutesInv'
      BY <3>1, <3>2, <3>3, <3>4, <3>5, <3>6, <3>7, <3>8 DEF RoutesInv
    <3> QED  BY <3>1, <3>9 DEF RoutesGoal, RoutesReplaced
  <2> QED  BY <2>1, <2>3, <2>4, <2>5
<1>9. CASE AddRoute
  <2>1. /\ pc = "routes" /\ snap = <<>> /\ todo # <<>> /\ RoutesFrame
        /\ \/ pc' = "poisoned"
           \/ \E l \in FindLinkByName(Head(todo).dev) : AddFor(RouteOn(Head(todo), l))
    BY <1>9 DEF AddRoute, Internal, callVars, ghostVars, RoutesFrame
  <2>2. todo \in Seq(WantedRoutes) /\ op = "UpdateRoutes"
    BY <2>1 DEF ControlInv, ControlAt, Deleting
  <2>3. CASE pc' = "poisoned"
    BY <2>3, RoutesElsewhere DEF Deleting
  <2>4. CASE \E l \in FindLinkByName(Head(todo).dev) : AddFor(RouteOn(Head(todo), l))
    <3>1. PICK l \in FindLinkByName(Head(todo).dev) : AddFor(RouteOn(Head(todo), l))
      BY <2>4
    <3> DEFINE r == RouteOn(Head(todo), l)
               own == IF Grants(r) THEN "ack" ELSE "err"
    <3>2. /\ \/ Finish(Failure)
             \/ ~ Refused(own) /\ GoOn("routes", <<>>, Tail(todo))
          /\ routes' = IF Grants(r) THEN routes \cup {r} ELSE routes
      BY <3>1 DEF AddFor, Talk
    <3>3. CASE Finish(Failure)
      BY <1>f, <3>3, RoutesElsewhere DEF Finish, Deleting
    <3>4. CASE touched
      <4>1. touched' /\ (pc' = "idle" => outcome' # "ok")
        BY <1>f, <2>1, <3>2, <3>4 DEF RoutesFrame, GoOn, Finish
      <4> QED  BY <4>1 DEF RoutesGoal, RoutesInv, RoutesReplaced
    <3>5. CASE ~ Refused(own) /\ GoOn("routes", <<>>, Tail(todo)) /\ ~ touched
      <4>1. Grants(r)
        <5>1. own # "err"
          <6>1. own \in {"ack", "err"} /\ ToSet(queue) \subseteq {"foreign"}
            BY <2>1 DEF OwnAnswers
          <6> HIDE DEF own
          <6> QED  BY <3>5, <6>1, Talking
        <5> QED  BY <5>1
      <4>2. routes' = routes \cup {r}
        BY <3>2, <4>1
      <4>3. /\ pc \in Deleting /\ pc' = "routes" /\ snap' = <<>> /\ todo' = Tail(todo)
            /\ name' = name /\ wanted' = wanted
        BY <2>1, <3>5 DEF Deleting, GoOn, RoutesFrame
      <4>4. /\ Len(todo) <= Len(Order) /\ \A i \in DOMAIN todo : todo[i] = Order[Added + i]
            /\ \A i \in 1..Added : \E k \in FindLinkByName(Order[i].dev) :
                   RouteOn(Order[i], k) \in routes
            /\ \A q \in routes : Kept(q) \/ q \in AddedRoutes
        <5>1. DOMAIN snap = {}
          BY <2>1
        <5> QED  BY <3>5, <4>3, <5>1 DEF RoutesInv, RoutesGoal
      <4>5. /\ Len(todo) \in Nat /\ DOMAIN todo = 1..Len(todo) /\ 1 \in DOMAIN todo
            /\ Head(todo) = todo[1] /\ Tail(todo) \in Seq(WantedRoutes)
            /\ Len(Tail(todo)) = Len(todo) - 1 /\ DOMAIN Tail(todo) = 1..(Len(todo) - 1)
            /\ \A j \in DOMAIN Tail(todo) : Tail(todo)[j] = todo[j + 1] /\ j + 1 \in DOMAIN todo
        BY <2>1, <2>2, HeadTail
      <4>6. Order' = Order
        BY <4>3 DEF Order
      <4>7. Added \in Nat /\ Added' = Added + 1 /\ Added + 1 <= Len(Order)
        BY <1>o, <4>3, <4>4, <4>5, <4>6 DEF Added
      <4>8. Head(todo) = Order[Added + 1]
        BY <4>4, <4>5
      <4>9. \A n : FindLinkByName(n)' = FindLinkByName(n)
        BY <4>3 DEF FindLinkByName
      <4>10. \A q : Kept(q)' <=> Kept(q)
        BY <4>3 DEF Kept
      <4>11. AddedRoutes \subseteq AddedRoutes' /\ r \in AddedRoutes'
        <5>1. 1..Added \subseteq 1..(Added + 1) /\ Added + 1 \in 1..(Added + 1)
          BY <4>7
        <5>2. l \in Links
          BY <3>1 DEF FindLinkByName
        <5> QED  BY <4>6, <4>7, <4>8, <5>1, <5>2 DEF AddedRoutes
      <4>12. \A i \in 1..(Added + 1) : \E k \in FindLinkByName(Order[i].dev) :
                 RouteOn(Order[i], k) \in routes'
        <5> TAKE i \in 1..(Added + 1)
        <5>1. CASE i = Added + 1
          BY <3>1, <4>2, <4>8, <5>1
        <5>2. CASE i # Added + 1
          <6>1. i \in 1..Added
            BY <4>7, <5>2
          <6> QED  BY <4>2, <4>4, <6>1
        <5> QED  BY <5>1, <5>2
      <4>13. \A i \in DOMAIN Tail(todo) : Tail(todo)[i] = Order[(Added + 1) + i]
        <5> TAKE i \in DOMAIN Tail(todo)
        <5>1. i \in Nat /\ Added + (i + 1) = (Added + 1) + i
          BY <4>5, <4>7
        <5> QED  BY <4>4, <4>5, <5>1
      <4>14. Len(Tail(todo)) <= Len(Order)
        BY <1>o, <4>4, <4>5
      <4>15. \A q \in routes' : Kept(q) \/ q \in AddedRoutes'
        BY <4>2, <4>4, <4>11
      <4>16. DOMAIN snap' = {} /\ IsInjective(snap')
        BY <4>3 DEF IsInjective
      <4>17. RoutesInv'
        BY <4>3, <4>6, <4>7, <4>9, <4>10, <4>12, <4>13, <4>14, <4>15, <4>16 DEF RoutesInv
      <4> QED  BY <4>3, <4>17 DEF RoutesGoal, RoutesReplaced
    <3> QED  BY <3>2, <3>3, <3>4, <3>5
  <2> QED  BY <2>1, <2>3, <2>4
<1>10. CASE ReplyUpdated
  <2>1. /\ pc = "routes" /\ snap = <<>> /\ todo = <<>> /\ UNCHANGED routes /\ RoutesFrame
        /\ pc' = "idle"
    BY <1>10 DEF ReplyUpdated, Finish, Internal, callVars, ghostVars, kernelVars, RoutesFrame
  <2>2. RoutesInv'
    BY <2>1 DEF RoutesInv, Deleting
  <2>3. CASE touched
    BY <2>1, <2>2, <2>3 DEF RoutesGoal, RoutesReplaced, RoutesFrame
  <2>4. CASE ~ touched
    <3>1. /\ \A i \in 1..Added : \E l \in FindLinkByName(Order[i].dev) :
                 RouteOn(Order[i], l) \in routes
          /\ \A r \in routes : Kept(r) \/ r \in AddedRoutes
      <4>1. pc \in Deleting /\ DOMAIN snap = {}
        BY <2>1 DEF Deleting
      <4> QED  BY <2>4, <4>1 DEF RoutesInv, RoutesGoal
    <3>2. Added = Len(Order)
      <4>1. Len(todo) = 0
        BY <2>1
      <4> QED  BY <1>o, <4>1 DEF Added
    <3> DEFINE Asked == {RouteOn(w, l) : w \in ToSet(wanted), l \in Links}
    <3>3. \A w \in ToSet(wanted) : \E l \in FindLinkByName(w.dev) : RouteOn(w, l) \in routes
      BY <1>o, <3>1, <3>2
    <3>4. AddedRoutes \subseteq Asked
      BY <1>o, <3>2 DEF AddedRoutes
    <3>5. \A r \in routes : r \in Asked \/ r \in Staying
      BY <3>1, <3>4 DEF Kept, Staying
    <3>6. name' = name /\ wanted' = wanted /\ routes' = routes
      BY <2>1 DEF RoutesFrame
    <3>7. Staying' = Staying /\ \A n : FindLinkByName(n)' = FindLinkByName(n)
      BY <3>6 DEF Staying, FindLinkByName
    <3> QED  BY <2>2, <3>3, <3>5, <3>6, <3>7 DEF RoutesGoal, RoutesReplaced
  <2> QED  BY <2>3, <2>4
<1> QED
  BY <1>1, <1>2, <1>3, <1>4, <1>5, <1>6, <1>7, <1>8, <1>9, <1>10 DEF Next
-----------------------------------------------------------------------------
(* Requests that the kernel can grant.                                     *)

\* Requests of other kinds, and steps after which nothing is left to fit.
LEMMA FitsElsewhere ==
    ASSUME pc' \in {"up", "dumpAllAddrs"} \/ (pc' = "idle" /\ outcome' = "ok")
    PROVE  FitsInv'
  BY DEF FitsInv, Deleting

\* An address of a list without duplicates is not among those before it.
LEMMA NotYet ==
    ASSUME NEW S, NEW s \in Seq(S), NEW t \in Seq(S), t # <<>>, IsInjective(s \o t)
    PROVE  Head(t) \notin ToSet(s)
<1>1. /\ Len(s) \in Nat /\ Len(t) \in Nat /\ DOMAIN s = 1..Len(s) /\ DOMAIN t = 1..Len(t)
      /\ DOMAIN (s \o t) = 1..(Len(s) + Len(t))
      /\ \A i \in 1..Len(s) : (s \o t)[i] = s[i]
      /\ \A i \in 1..Len(t) : (s \o t)[Len(s) + i] = t[i]
  BY Joined
<1>2. 1 \in 1..Len(t) /\ Head(t) = t[1]
  BY HeadTail
<1> SUFFICES ASSUME NEW i \in 1..Len(s), s[i] = t[1]  PROVE FALSE
  BY <1>1, <1>2 DEF ToSet
<1>3. (s \o t)[i] = (s \o t)[Len(s) + 1]
  BY <1>1, <1>2
<1>4. i \in DOMAIN (s \o t) /\ Len(s) + 1 \in DOMAIN (s \o t) /\ i # Len(s) + 1
  BY <1>1, <1>2
<1> QED  BY <1>3, <1>4 DEF IsInjective

\* A request that nobody disturbs gets its data, and no error but the kernel's.
LEMMA Undisturbing ==
    ASSUME HandleInv, Undisturbed, pc # "idle"
    PROVE  /\ "foreign" \notin ToSet(queue)
           /\ pc \in {"down", "addrs", "up", "routes", "delete"} =>
                 \A own \in {"ack", "link"} : ~ Refused(own)
<1>1. TypeOK /\ OwnAnswers /\ StrayInv
  BY DEF HandleInv
<1>2. "foreign" \notin ToSet(queue)
  BY <1>1 DEF StrayInv, Undisturbed
<1>3. ASSUME pc \in {"down", "addrs", "up", "routes", "delete"}, NEW own \in {"ack", "link"}
      PROVE  ~ Refused(own)
  <2>1. ToSet(queue) \subseteq {"foreign"}
    BY <1>1, <1>3 DEF OwnAnswers
  <2> QED  BY <1>1, <1>2, <2>1, Talking
<1> QED  BY <1>2, <1>3

\* The next route to add.
LEMMA NextRoute ==
    ASSUME HandleInv, RoutesGoal, pc = "routes", snap = <<>>, todo # <<>>, ~ touched
    PROVE  /\ Added \in Nat /\ Added + 1 \in DOMAIN Order /\ Head(todo) = Order[Added + 1]
           /\ \A j \in DOMAIN Order : j \in Nat /\ (j < Added + 1 => j \in 1..Added)
           /\ \A i \in 1..Added : i \in DOMAIN Order /\ i < Added + 1
           /\ \A i \in 1..Added : \E l \in FindLinkByName(Order[i].dev) :
                  RouteOn(Order[i], l) \in routes
<1>1. TypeOK /\ RequestOK /\ ControlInv
  BY TypeParts DEF HandleInv
<1>2. Order \in Seq(WantedRoutes) /\ Len(Order) \in Nat /\ DOMAIN Order = 1..Len(Order)
  BY <1>1, OrderIsSeq
<1>3. todo \in Seq(WantedRoutes)
  BY <1>1 DEF ControlInv, ControlAt, Deleting
<1>4. Len(todo) \in Nat /\ 1 \in DOMAIN todo /\ DOMAIN todo = 1..Len(todo) /\ Head(todo) = todo[1]
  BY <1>3, HeadTail
<1>5. /\ Len(todo) <= Len(Order) /\ \A i \in DOMAIN todo : todo[i] = Order[Added + i]
      /\ \A i \in 1..Added : \E l \in FindLinkByName(Order[i].dev) :
             RouteOn(Order[i], l) \in routes
  BY DEF RoutesGoal, RoutesInv, Deleting
<1>6. Added \in Nat /\ Added + 1 \in DOMAIN Order
  BY <1>2, <1>4, <1>5 DEF Added
<1>7. \A j \in DOMAIN Order : j \in Nat /\ (j < Added + 1 => j \in 1..Added)
  BY <1>2, <1>6
<1>8. \A i \in 1..Added : i \in DOMAIN Order /\ i < Added + 1
  BY <1>2, <1>6
<1> QED  BY <1>4, <1>5, <1>6, <1>7, <1>8

\* The kernel grants it, on the one link that has the name.
LEMMA IsGranted ==
    ASSUME HandleInv, RoutesGoal, pc = "routes", snap = <<>>, todo # <<>>, ~ touched,
           Grantable
    PROVE  /\ FindLinkByName(Head(todo).dev) # {}
           /\ \A l \in FindLinkByName(Head(todo).dev) : Grants(RouteOn(Head(todo), l))
<1> DEFINE w == Head(todo)
           k == Added + 1
<1>1. TypeOK /\ RequestOK /\ KernelOK
  BY TypeParts DEF HandleInv
<1>2. /\ Added \in Nat /\ k \in DOMAIN Order /\ w = Order[k]
      /\ \A j \in DOMAIN Order : j \in Nat /\ (j < k => j \in 1..Added)
      /\ \A i \in 1..Added : i \in DOMAIN Order /\ i < k
      /\ \A i \in 1..Added : \E l \in FindLinkByName(Order[i].dev) :
             RouteOn(Order[i], l) \in routes
  BY NextRoute
<1>3. /\ \A j \in DOMAIN Order : \E i \in DOMAIN wanted : Order[j] = wanted[i]
      /\ \A i \in DOMAIN wanted : \E j \in DOMAIN Order : Order[j] = wanted[i]
      /\ SameDests(wanted) => SameDests(Order)
      /\ \A i, j \in DOMAIN Order : Order[i].gw = NoGw /\ Order[j].gw # NoGw => i < j
  <2>1. wanted \in Seq(WantedRoutes)
    BY <1>1, OrderIsSeq
  <2> QED  BY <2>1, Orders DEF Order
<1> HIDE DEF w, k
<1>4. PICK i \in DOMAIN wanted : wanted[i] = w
  BY <1>2, <1>3
<1>5. PICK l \in Links :
          /\ name[l] = w.dev /\ up[l]
          /\ \/ w.gw = NoGw
             \/ \E r \in routes : /\ Kept(r) /\ r.dest = Subnet[w.gw]
                                  /\ r.gw = NoGw /\ r.dev = l
             \/ \E o \in OnLink(wanted) : /\ o.dest = Subnet[w.gw]
                                          /\ o.dev = w.dev
  BY <1>4 DEF Grantable, Reachable
<1>6. \A m, n \in Links : name[m] = name[n] => m = n
  BY <1>1 DEF KernelOK, IsInjective
<1>7. FindLinkByName(w.dev) = {l}
  BY <1>5, <1>6 DEF FindLinkByName
<1> DEFINE r == RouteOn(w, l)
<1>8. r.dest = w.dest /\ r.gw = w.gw /\ r.dev = l
  BY DEF RouteOn
<1>9. ASSUME NEW q \in routes  PROVE q.dest # r.dest
  <2>1. DOMAIN snap = {}
    OBVIOUS
  <2>2. CASE \A j \in DOMAIN wanted : wanted[j].dest # q.dest
    BY <1>4, <1>8, <2>2
  <2>3. CASE q \in AddedRoutes
    <3>1. PICK j \in 1..Added, m \in Links : q = RouteOn(Order[j], m)
      BY <2>3 DEF AddedRoutes
    <3>2. q.dest = Order[j].dest
      BY <3>1 DEF RouteOn
    <3>3. j \in DOMAIN Order /\ j # k
      BY <1>2
    <3>4. Order[j].dest # Order[k].dest
      BY <1>2, <1>3, <3>3 DEF Grantable, SameDests
    <3> QED  BY <1>2, <1>8, <3>2, <3>4
  <2> QED  BY <2>1, <2>2, <2>3 DEF Grantable
<1>10. ASSUME w.gw # NoGw
       PROVE  \E q \in routes : q.dest = Subnet[w.gw] /\ q.gw = NoGw /\ q.dev = l
  <2>1. CASE \E o \in OnLink(wanted) : o.dest = Subnet[w.gw] /\ o.dev = w.dev
    <3>1. PICK o \in OnLink(wanted) : o.dest = Subnet[w.gw] /\ o.dev = w.dev
      BY <2>1
    <3>2. PICK m \in DOMAIN wanted : o = wanted[m] /\ o.gw = NoGw
      BY <3>1 DEF OnLink
    <3>3. PICK j \in DOMAIN Order : Order[j] = o
      BY <1>3, <3>2
    <3>4. j < k
      BY <1>2, <1>3, <1>10, <3>2, <3>3
    <3>5. PICK n \in FindLinkByName(o.dev) : RouteOn(o, n) \in routes
      BY <1>2, <3>3, <3>4
    <3>6. n = l
      BY <1>7, <3>1, <3>5
    <3>7. LET q == RouteOn(o, l) IN q.dest = o.dest /\ q.gw = o.gw /\ q.dev = l
      BY DEF RouteOn
    <3> QED  BY <3>1, <3>2, <3>5, <3>6, <3>7
  <2> QED  BY <1>5, <1>10, <2>1
<1>11. Grants(r)
  <2> HIDE DEF r
  <2> QED  BY <1>5, <1>8, <1>9, <1>10 DEF Grants
<1> QED  BY <1>7, <1>11 DEF w
\* A link's way to a gateway stays as long as its kept routes do.
LEMMA StaysReachable ==
    ASSUME NEW i \in DOMAIN wanted, Reachable(i), UNCHANGED <<name, up, wanted>>,
           \A r \in routes : Kept(r) => r \in routes'
    PROVE  Reachable(i)'
<1>1. \A r : Kept(r)' <=> Kept(r)
  BY DEF Kept
<1>2. OnLink(wanted)' = OnLink(wanted)
  BY DEF OnLink
<1> QED  BY <1>1, <1>2 DEF Reachable

\* A route taken off the list is one more added.
LEMMA OneMore ==
    ASSUME TypeOK, ControlInv, pc = "routes", todo # <<>>, todo' = Tail(todo),
           wanted' = wanted
    PROVE  Added' = Added + 1
<1>1. todo \in Seq(WantedRoutes) /\ Len(Order) \in Nat
  BY TypeParts, OrderIsSeq DEF ControlInv, ControlAt, Deleting
<1>2. Len(todo) \in Nat /\ Len(Tail(todo)) = Len(todo) - 1
  BY <1>1, HeadTail
<1>3. Order' = Order
  BY DEF Order
<1> QED  BY <1>1, <1>2, <1>3 DEF Added

\* A step of a request that fits leaves one that fits, or one that is done.
LEMMA FitsStep ==
    ASSUME HandleInv, AddrsGoal, RoutesGoal, FitsInv, Next  PROVE FitsInv'
<1>0. TypeOK /\ RequestOK /\ KernelOK /\ ControlInv /\ OwnAnswers
  BY TypeParts DEF HandleInv
<1> USE <1>0
<1>s. SUFFICES ASSUME Undisturbed'  PROVE FitsInv'
  BY DEF FitsInv
<1>u. ASSUME Internal, pc # "idle"
      PROVE  /\ Undisturbed /\ op' = op /\ iface' = iface /\ wanted' = wanted
             /\ "foreign" \notin ToSet(queue) /\ ~ touched
             /\ pc \in {"down", "addrs", "up", "routes", "delete"} =>
                   \A own \in {"ack", "link"} : ~ Refused(own)
  <2>1. Undisturbed /\ op' = op /\ iface' = iface /\ wanted' = wanted
    BY <1>s, <1>u DEF Internal, callVars, ghostVars, Undisturbed
  <2> QED  BY <1>u, <2>1, Undisturbing DEF Undisturbed
<1>1. CASE Stray
  BY <1>1, <1>s DEF Stray, Undisturbed
<1>2. CASE Meddle
  BY <1>2, <1>s DEF Meddle, Undisturbed
<1>3. CASE \E i \in IfaceRequests : UpdateInterface(i)
  <2>1. PICK i \in IfaceRequests : UpdateInterface(i)
    BY <1>3
  <2>2. /\ fits' = FitsInterface(i) /\ iface' = i /\ pc' = "dumpLinks" /\ name' = name
        /\ op' = "UpdateInterface"
    BY <2>1 DEF UpdateInterface, Begin, kernelVars
  <2>3. FitsInterface(iface)'
    BY <1>s, <2>2 DEF FitsInterface, Undisturbed
  <2> QED  BY <2>2, <2>3 DEF FitsInv, Deleting
<1>4. CASE \E w \in RouteRequests : UpdateRoutes(w)
  <2>1. PICK w \in RouteRequests : UpdateRoutes(w)
    BY <1>4
  <2>2. /\ fits' = FitsRoutes(w) /\ wanted' = w /\ pc' = "dumpList" /\ op' = "UpdateRoutes"
        /\ UNCHANGED <<name, up, routes>>
    BY <2>1 DEF UpdateRoutes, Begin, kernelVars
  <2>3. Staying' = Staying /\ OnLink(wanted)' = OnLink(w)
    BY <2>2 DEF Staying, OnLink
  <2>4. FitsRoutes(wanted)'
    <3>1. FitsRoutes(w)
      BY <1>s, <2>2 DEF Undisturbed
    <3> QED  BY <2>2, <2>3, <3>1 DEF FitsRoutes
  <2> QED  BY <2>2, <2>4 DEF FitsInv, Deleting
<1>5. CASE ListInterfaces \/ ListRoutes
  <2>1. pc' \in {"dumpLinks", "dumpList"} /\ op' \in {"ListInterfaces", "ListRoutes"}
    BY <1>5 DEF ListInterfaces, ListRoutes, Begin
  <2> QED  BY <2>1 DEF FitsInv, Deleting
<1>6. CASE FindLink
  <2>1. pc = "dumpLinks" /\ op = "UpdateInterface" /\ Internal /\ UNCHANGED <<name, up>>
    BY <1>6 DEF FindLink, kernelVars
  <2>2. Undisturbed /\ op' = op /\ iface' = iface /\ "foreign" \notin ToSet(queue)
    BY <1>u, <2>1
  <2>3. FitsInterface(iface)
    BY <2>1, <2>2 DEF FitsInv
  <2>4. iface.link \in Links
    BY <2>3 DEF FitsInterface
  <2>5. GoOn(IF up[iface.link] THEN "down" ELSE "dumpAddrs", <<>>, <<>>)
    BY <1>6, <2>2, <2>4 DEF FindLink, Dump
  <2>6. FitsInterface(iface)'
    BY <2>1, <2>2, <2>3 DEF FitsInterface
  <2>7. pc' = "down" \/ (pc' = "dumpAddrs" /\ ~ up'[iface'.link])
    BY <2>1, <2>2, <2>5 DEF GoOn
  <2> QED  BY <2>6, <2>7 DEF FitsInv, Deleting
<1>7. CASE SetDown
  <2>1. /\ pc = "down" /\ Internal /\ name' = name /\ Talk("ack", GoOn("dumpAddrs", <<>>, <<>>))
        /\ up' = [up EXCEPT ![iface.link] = FALSE]
    BY <1>7 DEF SetDown
  <2>2. Undisturbed /\ op' = op /\ iface' = iface /\ ~ Refused("ack")
    BY <1>u, <2>1
  <2>3. op = "UpdateInterface" /\ iface.link \in Links
    BY <2>1 DEF ControlInv, ControlAt, Updating
  <2>4. FitsInterface(iface)
    BY <2>1, <2>2, <2>3 DEF FitsInv
  <2>5. FitsInterface(iface)'
    BY <2>1, <2>2, <2>4 DEF FitsInterface
  <2>6. pc' = "dumpAddrs"
    BY <2>1, <2>2 DEF Talk, GoOn
  <2>7. ~ up'[iface'.link]
    BY <2>1, <2>2, <2>3 DEF KernelOK
  <2> QED  BY <2>5, <2>6, <2>7 DEF FitsInv, Deleting
<1>8. CASE GetLinkAddresses
  <2>1. pc = "dumpAddrs" /\ Internal /\ UNCHANGED <<name, up>>
    BY <1>8 DEF GetLinkAddresses, kernelVars
  <2>2. Undisturbed /\ op' = op /\ iface' = iface /\ "foreign" \notin ToSet(queue)
    BY <1>u, <2>1
  <2>3. op = "UpdateInterface"
    BY <2>1 DEF ControlInv, ControlAt, Updating
  <2>4. FitsInterface(iface) /\ ~ up[iface.link]
    BY <2>1, <2>2, <2>3 DEF FitsInv
  <2>5. FitsInterface(iface)' /\ ~ up'[iface'.link]
    BY <2>1, <2>2, <2>4 DEF FitsInterface
  <2>6. pc' = "addrs"
    BY <1>8, <2>2 DEF GetLinkAddresses, Dump, GoOn
  <2> QED  BY <2>5, <2>6 DEF FitsInv, Deleting
<1>a. ASSUME pc = "addrs", Internal, UNCHANGED <<name, up>>, pc' = "addrs"
      PROVE  FitsInv'
  <2>1. Undisturbed /\ op' = op /\ iface' = iface
    BY <1>a, <1>u
  <2>2. op = "UpdateInterface"
    BY <1>a DEF ControlInv, ControlAt, Updating
  <2>3. FitsInterface(iface) /\ ~ up[iface.link]
    BY <1>a, <2>1, <2>2 DEF FitsInv
  <2>4. FitsInterface(iface)' /\ ~ up'[iface'.link]
    BY <1>a, <2>1, <2>3 DEF FitsInterface
  <2> QED  BY <1>a, <2>4 DEF FitsInv, Deleting
<1>9. CASE DeleteAddr
  <2> DEFINE s == addrs[iface.link]
             d == Subnet[Head(snap)]
  <2>1. pc = "addrs" /\ snap # <<>> /\ Internal /\ UNCHANGED <<name, up>>
    BY <1>9 DEF DeleteAddr, DropSubnet
  <2>2. ~ touched /\ \A own \in {"ack", "link"} : ~ Refused(own)
    BY <1>u, <2>1
  <2>3. snap \in Seq(Addrs) /\ iface.link \in Links
    BY <2>1 DEF ControlInv, ControlAt, Updating
  <2>4. 1 \in DOMAIN snap /\ Head(snap) = snap[1]
    BY <2>1, <2>3, HeadTail
  <2>5. \E i \in DOMAIN s : Subnet[s[i]] = d
    BY <2>1, <2>2, <2>4 DEF AddrsGoal, AddrsInv
  <2>6. \E b \in ToSet(s) : Subnet[b] = d
    BY <2>5 DEF ToSet
  <2>7. Talk("ack", GoOn("addrs", Tail(snap), todo))
    BY <1>9, <2>6 DEF DeleteAddr
  <2>8. pc' = "addrs"
    BY <2>2, <2>7 DEF Talk, GoOn
  <2> QED  BY <1>a, <2>1, <2>8
<1>10. CASE AddAddr
  <2> DEFINE s == addrs[iface.link]
  <2>1. pc = "addrs" /\ snap = <<>> /\ todo # <<>> /\ Internal /\ UNCHANGED <<name, up>>
    BY <1>10 DEF AddAddr
  <2>2. Undisturbed /\ ~ touched /\ \A own \in {"ack", "link"} : ~ Refused(own)
    BY <1>u, <2>1
  <2>3. /\ op = "UpdateInterface" /\ iface.link \in Links /\ todo \in Seq(Addrs)
        /\ s \in Seq(Addrs)
    BY <2>1 DEF ControlInv, ControlAt, Updating, KernelOK
  <2>4. FitsInterface(iface)
    BY <2>1, <2>2, <2>3 DEF FitsInv
  <2>5. IsInjective(s \o todo)
    BY <2>1, <2>2, <2>4 DEF AddrsGoal, AddrsInv, FitsInterface
  <2>6. Head(todo) \notin ToSet(s)
    <3> HIDE DEF s
    <3> QED  BY <2>1, <2>3, <2>5, NotYet
  <2>7. Talk("ack", GoOn("addrs", <<>>, Tail(todo)))
    BY <1>10, <2>6 DEF AddAddr
  <2>8. pc' = "addrs"
    BY <2>2, <2>7 DEF Talk, GoOn
  <2> QED  BY <1>a, <2>1, <2>8
<1>11. CASE Rename
  <2>1. pc = "addrs" /\ Internal
    BY <1>11 DEF Rename
  <2>2. Undisturbed /\ \A own \in {"ack", "link"} : ~ Refused(own)
    BY <1>u, <2>1
  <2>3. op = "UpdateInterface"
    BY <2>1 DEF ControlInv, ControlAt, Updating
  <2>4. FitsInterface(iface) /\ ~ up[iface.link]
    BY <2>1, <2>2, <2>3 DEF FitsInv
  <2>5. \A k \in Links : name[k] = iface.name => k = iface.link
    BY <2>4 DEF FitsInterface
  <2>6. Talk("ack", GoOn("up", <<>>, <<>>))
    BY <1>11, <2>4, <2>5 DEF Rename
  <2>7. pc' = "up"
    BY <2>2, <2>6 DEF Talk, GoOn
  <2> QED  BY <2>7, FitsElsewhere
<1>12. CASE SetUp \/ ReplyRoutes \/ ReplyUpdated
  <2>1. pc' = "idle" /\ outcome' = "ok"
    BY <1>12 DEF SetUp, ReplyRoutes, ReplyUpdated, Finish
  <2> QED  BY <2>1, FitsElsewhere
<1>13. CASE ListLinks \/ ListAddrs
  <2>1. pc # "idle" /\ Internal
    BY <1>13 DEF ListLinks, ListAddrs
  <2>2. "foreign" \notin ToSet(queue)
    BY <1>u, <2>1
  <2>3. pc' = "dumpAllAddrs" \/ (pc' = "idle" /\ outcome' = "ok")
    BY <1>13, <2>2 DEF ListLinks, ListAddrs, Dump, GoOn, Finish
  <2> QED  BY <2>3, FitsElsewhere
<1>14. CASE ListTable \/ NameListed
  <2>1. pc \in {"dumpList", "names"} /\ Internal /\ UNCHANGED <<name, up, routes>>
    BY <1>14 DEF ListTable, NameListed, kernelVars
  <2>2. Undisturbed /\ op' = op /\ wanted' = wanted /\ "foreign" \notin ToSet(queue)
    BY <1>u, <2>1
  <2>3. op = "UpdateRoutes" => FitsRoutes(wanted)
    BY <2>1, <2>2 DEF FitsInv
  <2>4. Staying' = Staying /\ OnLink(wanted)' = OnLink(wanted)
    BY <2>1, <2>2 DEF Staying, OnLink
  <2>5. op' = "UpdateRoutes" => FitsRoutes(wanted)'
    BY <2>1, <2>2, <2>3, <2>4 DEF FitsRoutes
  <2>6. pc' = "names"
    BY <1>14, <2>2 DEF ListTable, NameListed, Dump, GoOn
  <2> QED  BY <2>5, <2>6 DEF FitsInv, Deleting
<1>15. CASE GetAllRoutes
  <2> DEFINE s == SetToSeq(routes)
  <2>1. /\ pc = "names" /\ op = "UpdateRoutes" /\ Internal /\ UNCHANGED <<name, up, routes>>
        /\ Dump(GoOn("routes", s, AddOrder(wanted)))
    BY <1>15 DEF GetAllRoutes, kernelVars
  <2>2. Undisturbed /\ wanted' = wanted /\ "foreign" \notin ToSet(queue)
    BY <1>u, <2>1
  <2>3. pc' = "routes" /\ snap' = s
    BY <2>1, <2>2 DEF Dump, GoOn
  <2>4. FitsRoutes(wanted)
    BY <2>1, <2>2 DEF FitsInv
  <2>5. \A r \in routes : \E i \in DOMAIN s : s[i] = r
    BY Listing DEF KernelOK
  <2> HIDE DEF s
  <2>6. SameDests(wanted)
    BY <2>4 DEF FitsRoutes, SameDests
  <2>7. \A r \in routes : r \in Staying <=> Kept(r)
    BY DEF Staying, Kept
  <2>8. ASSUME NEW i \in DOMAIN wanted  PROVE Reachable(i)
    <3>1. PICK l \in Links :
              /\ name[l] = wanted[i].dev /\ up[l]
              /\ \/ wanted[i].gw = NoGw
                 \/ \E r \in Staying : /\ r.dest = Subnet[wanted[i].gw]
                                       /\ r.gw = NoGw /\ r.dev = l
                 \/ \E o \in OnLink(wanted) : /\ o.dest = Subnet[wanted[i].gw]
                                              /\ o.dev = wanted[i].dev
      BY <2>4 DEF FitsRoutes
    <3>2. \A r \in Staying : r \in routes /\ Kept(r)
      BY DEF Staying, Kept
    <3> QED  BY <3>1, <3>2 DEF Reachable
  <2>9. \A r \in routes : Kept(r) => \A i \in DOMAIN wanted : wanted[i].dest # r.dest
    BY <2>4, <2>7 DEF FitsRoutes
  <2>10. SameDests(wanted)' /\ \A i \in DOMAIN wanted' : Reachable(i)'
    BY <2>1, <2>2, <2>6, <2>8, StaysReachable DEF SameDests
  <2>11. \A r : Kept(r)' <=> Kept(r)
    BY <2>1 DEF Kept
  <2>12. Grantable'
    BY <2>1, <2>2, <2>3, <2>5, <2>9, <2>10, <2>11 DEF Grantable
  <2> QED  BY <2>3, <2>12 DEF FitsInv, Deleting
<1>16. CASE NameRoute
  <2> DEFINE r == Head(snap)
  <2>1. /\ pc = "routes" /\ snap # <<>> /\ Internal /\ UNCHANGED <<name, up, routes>>
        /\ \/ Refused("link")
           \/ Kept(r) /\ GoOn("routes", Tail(snap), todo)
           \/ ~ Kept(r) /\ GoOn("delete", snap, todo)
    BY <1>16 DEF NameRoute, Talk, kernelVars, Kept
  <2>2. Undisturbed /\ wanted' = wanted /\ \A own \in {"ack", "link"} : ~ Refused(own)
    BY <1>u, <2>1
  <2>3. /\ pc' \in {"routes", "delete"} /\ todo' = todo
        /\ snap' = snap \/ (Kept(r) /\ snap' = Tail(snap))
    BY <2>1, <2>2 DEF GoOn
  <2>4. Grantable
    BY <2>1, <2>2 DEF FitsInv, Deleting
  <2>5. snap \in Seq(Routes)
    BY <2>1 DEF ControlInv, ControlAt, Deleting
  <2>6. /\ r = snap[1]
        /\ \A j \in DOMAIN snap : j # 1 => j - 1 \in DOMAIN Tail(snap)
                                           /\ snap[j] = Tail(snap)[j - 1]
    BY <2>1, <2>5, HeadTail
  <2> HIDE DEF r
  <2>7. \A q \in routes : ~ Kept(q) /\ (\E i \in DOMAIN snap : snap[i] = q)
                              => \E i \in DOMAIN snap' : snap'[i] = q
    BY <2>3, <2>6
  <2>8. SameDests(wanted)' /\ \A i \in DOMAIN wanted' : Reachable(i)'
    BY <2>1, <2>2, <2>4, StaysReachable DEF Grantable, SameDests
  <2>9. (\A q : Kept(q)' <=> Kept(q)) /\ AddedRoutes' = AddedRoutes
    BY <2>1, <2>2, <2>3 DEF Kept, AddedRoutes, Added, Order
  <2>10. Grantable'
    BY <2>1, <2>2, <2>4, <2>7, <2>8, <2>9 DEF Grantable
  <2> QED  BY <2>3, <2>10 DEF FitsInv, Deleting
<1>17. CASE DeleteRoute
  <2> DEFINE r == Head(snap)
  <2>1. /\ pc = "delete" /\ Internal /\ UNCHANGED <<name, up>> /\ routes' = routes \ {r}
        /\ Talk(IF r \in routes THEN "ack" ELSE "err", GoOn("routes", Tail(snap), todo))
    BY <1>17 DEF DeleteRoute
  <2>2. /\ Undisturbed /\ wanted' = wanted /\ ~ touched
        /\ \A own \in {"ack", "link"} : ~ Refused(own)
    BY <1>u, <2>1
  <2>3. snap \in Seq(Routes) /\ snap # <<>>
    BY <2>1 DEF ControlInv, ControlAt, Deleting
  <2>4. /\ r = snap[1] /\ 1 \in DOMAIN snap
        /\ \A j \in DOMAIN snap : j # 1 => j - 1 \in DOMAIN Tail(snap)
                                           /\ snap[j] = Tail(snap)[j - 1]
    BY <2>3, HeadTail
  <2>5. (\A i \in DOMAIN snap : snap[i] \in routes) /\ ~ Kept(r)
    BY <2>1, <2>2 DEF RoutesGoal, RoutesInv, Deleting
  <2>6. r \in routes
    BY <2>4, <2>5
  <2>7. pc' = "routes" /\ snap' = Tail(snap) /\ todo' = todo
    BY <2>1, <2>2, <2>6 DEF Talk, GoOn
  <2>8. Grantable
    BY <2>1, <2>2 DEF FitsInv, Deleting
  <2> HIDE DEF r
  <2>9. \A q \in routes' : (\E i \in DOMAIN snap : snap[i] = q)
                              => \E i \in DOMAIN snap' : snap'[i] = q
    BY <2>1, <2>4, <2>7
  <2>10. SameDests(wanted)' /\ \A i \in DOMAIN wanted' : Reachable(i)'
    <3>1. \A q \in routes : Kept(q) => q \in routes'
      BY <2>1, <2>5
    <3> QED  BY <2>1, <2>2, <2>8, <3>1, StaysReachable DEF Grantable, SameDests
  <2>11. (\A q : Kept(q)' <=> Kept(q)) /\ AddedRoutes' = AddedRoutes
    BY <2>1, <2>2, <2>7 DEF Kept, AddedRoutes, Added, Order
  <2>12. routes' \subseteq routes
    BY <2>1
  <2>13. Grantable'
    BY <2>2, <2>8, <2>9, <2>10, <2>11, <2>12 DEF Grantable
  <2> QED  BY <2>7, <2>13 DEF FitsInv, Deleting
<1>18. CASE AddRoute
  <2>1. pc = "routes" /\ snap = <<>> /\ todo # <<>> /\ Internal /\ UNCHANGED <<name, up>>
    BY <1>18 DEF AddRoute
  <2>2. /\ Undisturbed /\ wanted' = wanted /\ ~ touched
        /\ \A own \in {"ack", "link"} : ~ Refused(own)
    BY <1>u, <2>1
  <2>3. Grantable
    BY <2>1, <2>2 DEF FitsInv, Deleting
  <2>4. /\ FindLinkByName(Head(todo).dev) # {}
        /\ \A l \in FindLinkByName(Head(todo).dev) : Grants(RouteOn(Head(todo), l))
    BY <2>1, <2>2, <2>3, IsGranted DEF HandleInv
  <2>5. PICK l \in FindLinkByName(Head(todo).dev) : AddFor(RouteOn(Head(todo), l))
    BY <1>18, <2>4 DEF AddRoute
  <2> DEFINE r == RouteOn(Head(todo), l)
  <2>6. Talk("ack", GoOn("routes", <<>>, Tail(todo))) /\ routes' = routes \cup {r}
    BY <2>4, <2>5 DEF AddFor
  <2>7. pc' = "routes" /\ snap' = <<>> /\ todo' = Tail(todo)
    BY <2>2, <2>6 DEF Talk, GoOn
  <2>8. Order' = Order
    BY <2>2 DEF Order
  <2>9. Added \in Nat /\ Head(todo) = Order[Added + 1]
    BY <2>1, <2>2, NextRoute DEF HandleInv
  <2>10. Added' = Added + 1
    BY <2>1, <2>2, <2>7, OneMore DEF HandleInv
  <2>11. AddedRoutes \subseteq AddedRoutes' /\ r \in AddedRoutes'
    <3>1. 1..Added \subseteq 1..(Added + 1) /\ Added + 1 \in 1..(Added + 1)
      BY <2>9
    <3>2. l \in Links
      BY DEF FindLinkByName
    <3> QED  BY <2>8, <2>9, <2>10, <3>1, <3>2 DEF AddedRoutes
  <2>12. SameDests(wanted)' /\ \A i \in DOMAIN wanted' : Reachable(i)'
    BY <2>1, <2>2, <2>3, <2>6, StaysReachable DEF Grantable, SameDests
  <2>13. \A q \in routes' : \/ \A i \in DOMAIN wanted' : wanted'[i].dest # q.dest
                            \/ q \in AddedRoutes'
    <3>1. DOMAIN snap = {}
      BY <2>1
    <3> HIDE DEF r
    <3> QED  BY <2>2, <2>3, <2>6, <2>11, <3>1 DEF Grantable
  <2>14. Grantable'
    BY <2>12, <2>13 DEF Grantable
  <2> QED  BY <2>7, <2>14 DEF FitsInv, Deleting
<1> QED
  BY <1>1, <1>2, <1>3, <1>4, <1>5, <1>6, <1>7, <1>8, <1>9, <1>10, <1>11, <1>12, <1>13, <1>14,
     <1>15, <1>16, <1>17, <1>18 DEF Next

-----------------------------------------------------------------------------
(* Theorems.                                                               *)

\* The invariant holds initially.
LEMMA NetworkInit == ASSUME Init  PROVE NetworkInv
<1>1. HandleInv
  BY HandleInit
<1>2. pc = "idle" /\ op = "none" /\ ~ fits
  BY DEF Init
<1> QED
  BY <1>1, <1>2 DEF NetworkInv, AddrsInv, InterfaceReplaced, RoutesInv, RoutesReplaced, FitsInv,
                    Undisturbed, Deleting

\* Every step, or none, keeps the invariant.
LEMMA NetworkStep == ASSUME NetworkInv, [Next]_vars  PROVE NetworkInv'
<1>1. CASE Next
  <2>1. HandleInv /\ AddrsGoal /\ RoutesGoal /\ FitsInv
    BY DEF NetworkInv, AddrsGoal, RoutesGoal
  <2>2. HandleInv' /\ AddrsGoal' /\ RoutesGoal' /\ FitsInv'
    BY <1>1, <2>1, HandleStep, AddrsStep, RoutesStep, FitsStep
  <2> QED  BY <2>2 DEF NetworkInv, AddrsGoal, RoutesGoal
<1>2. CASE UNCHANGED vars
  <2>1. HandleInv'
    BY <1>2, HandleStep DEF NetworkInv
  <2>2. AddrsInv' /\ InterfaceReplaced'
    BY <1>2 DEF NetworkInv, AddrsInv, InterfaceReplaced, vars, kernelVars, callVars, ghostVars
  <2>3. RoutesInv' /\ RoutesReplaced'
    BY <1>2 DEF NetworkInv, RoutesInv, RoutesReplaced, vars, kernelVars, callVars, ghostVars,
                Order, Added, AddedRoutes, Kept, FindLinkByName, Staying
  <2>4. FitsInv'
    BY <1>2 DEF NetworkInv, FitsInv, vars, kernelVars, callVars, ghostVars, Undisturbed,
                FitsInterface, FitsRoutes, Staying, OnLink, Grantable, SameDests, Reachable,
                Kept, AddedRoutes, Added, Order
  <2> QED  BY <2>1, <2>2, <2>3, <2>4 DEF NetworkInv
<1> QED  BY <1>1, <1>2

\* For any links, addresses, requests and interference, the state of the
\* kernel, of the handle and of the request that holds the sandbox mutex is
\* as the invariants above say.
THEOREM NetworkInvariant == Spec => []NetworkInv
  BY NetworkInit, NetworkStep, PTL DEF Spec

\* rtnl_talk, which does not look at the sequence number of an answer, is
\* never given the answer to an earlier message where it matters.
THEOREM AnswersAreOwn == Spec => []OwnAnswers
<1>1. NetworkInv => OwnAnswers
  BY DEF NetworkInv, HandleInv
<1> QED  BY <1>1, NetworkInvariant, PTL

\* A successful update_interface has replaced the addresses and the name of
\* the link by those of the request.
THEOREM InterfaceIsReplaced == Spec => []InterfaceReplaced
<1>1. NetworkInv => InterfaceReplaced
  BY DEF NetworkInv
<1> QED  BY <1>1, NetworkInvariant, PTL

\* A successful update_routes has replaced the routes by those of the request.
THEOREM RoutesAreReplaced == Spec => []RoutesReplaced
<1>1. NetworkInv => RoutesReplaced
  BY DEF NetworkInv
<1> QED  BY <1>1, NetworkInvariant, PTL

\* No step of update_interface or update_routes gets in the way of a later
\* one: what the kernel could grant at the beginning, it does.
THEOREM ConsistentRequestsSucceed == Spec => []ConsistentSucceeds
<1>1. NetworkInv => ConsistentSucceeds
  BY DEF NetworkInv, FitsInv, Undisturbed, ConsistentSucceeds
<1> QED  BY <1>1, NetworkInvariant, PTL
=============================================================================
