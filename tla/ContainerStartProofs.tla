-------------------------- MODULE ContainerStartProofs --------------------------
(***************************************************************************)
(* Proofs about the handshake of StartHandshake and about the start of a   *)
(* process in ContainerStart, which is composed with it.                   *)
(*                                                                         *)
(* The argument.  Nothing in a word says whom it is from, but at any time  *)
(* at most one word is under way: whoever has written one waits for the    *)
(* answer.  So the parent's control, which counts the words it has read,   *)
(* tells how far the other two are, and with that what the next word       *)
(* means and who reads it.  Phase says this, one line for each value of    *)
(* ppc.                                                                    *)
(*                                                                         *)
(* The names of the host are those of other namespaces than the agent's    *)
(* because the specification has been validated (Validated) and because    *)
(* whoever writes them has entered its namespaces (Entered).               *)
(*                                                                         *)
(* The content of the root file system.  A mount table grows: what is      *)
(* mounted changes what is seen at the mount point and below (Grows,       *)
(* GrowsElsewhere), and there it shows what it was made of (BindShows,     *)
(* AppendShows).  So what is found at a path in the end is decided by the  *)
(* last call that covers it (Puts), or by none (Leaves).  Coming says      *)
(* which of the two is still ahead at any point between two calls.         *)
(***************************************************************************)
EXTENDS ContainerStart, SequenceTheorems, FiniteSetTheorems, TLAPS

\* The words under way.
Pipes(p, c, f) == toParent = p /\ toChild = c /\ toFinal = f
Quiet == Pipes(<<>>, <<>>, <<>>)

\* The child has not been let into its namespaces.
Early ==
    /\ ppid = Child /\ hooks = <<>> /\ cgroup = {} /\ fpc = "none"
    /\ \/ cpc \in {"start", "dead"} /\ Quiet
       \/ cpc = "waitMapped" /\ Pipes(<<0>>, <<>>, <<>>)

\* Ids are mapped, and the cgroup has all processes there are.
Mapped ==
    /\ mapped = req.userns
    /\ cgroup = IF ~ req.resources THEN {}
                ELSE IF req.pidns /\ fpc # "none" THEN {Child, Grandchild}
                ELSE {Child}

\* The child enters its namespaces.
Entering ==
    /\ Mapped /\ hooks = <<>> /\ fpc = "none"
    /\ \/ cpc = "waitMapped" /\ Pipes(<<>>, <<0>>, <<>>)
       \/ cpc \in {"joined", "dead"} /\ Quiet

\* It has forked and hands the pid over.
Handing ==
    /\ Mapped /\ hooks = <<>> /\ req.pidns
    /\ fpc \in {"rootfs", "dead"}
    /\ \/ cpc \in {"sendPid", "dead"} /\ Quiet
       \/ cpc = "waitResume" /\ Pipes(<<Grandchild>>, <<>>, <<>>)

\* The parent has the pid, and the final process does not yet know it.
HandedOver ==
    /\ Mapped /\ hooks = <<>> /\ req.pidns
    /\ fpc \in {"rootfs", "dead"}
    /\ \/ cpc = "waitResume" /\ Pipes(<<>>, <<0>>, <<>>)
       \/ cpc = "exited" /\ Pipes(<<>>, <<>>, <<0>>)

\* The child is through and the final process goes on alone.
Alone ==
    /\ Mapped /\ ppid = Final
    /\ cpc = IF req.pidns THEN "exited" ELSE "isFinal"

BeforeHooks ==
    /\ Alone /\ req.init /\ hooks = <<>>
    /\ \/ /\ fpc \in {"rootfs", "askPrestart", "dead"} /\ Quiet
          /\ req.pidns => fpc # "rootfs"
       \/ fpc = "waitPrestart" /\ Pipes(<<0>>, <<>>, <<>>)

AfterHooks ==
    /\ Alone /\ req.init /\ hooks = <<"prestart">>
    /\ \/ fpc = "waitPrestart" /\ Pipes(<<>>, <<0>>, <<>>)
       \/ fpc \in {"stdio", "askPoststart", "stray", "dead"} /\ Quiet
       \/ fpc \in {"fifo", "stray"} /\ Pipes(<<0>>, <<>>, <<>>)

\* No word is to come.
Through ==
    /\ Alone /\ Quiet
    /\ IF req.init
       THEN hooks = <<"prestart", "poststart">> /\ fpc \in {"fifo", "stray"}
       ELSE /\ hooks = <<>>
            /\ fpc \in {"rootfs", "stdio", "exec", "dead", "stray"}
            /\ req.pidns => fpc # "rootfs"

\* The parent has given up before the child was let go, or at a hook.
GivenUp ==
    \/ /\ fpc = "none" /\ hooks = <<>>
       /\ \/ cpc \in {"start", "waitMapped", "dead"} /\ Quiet
          \/ cpc = "waitMapped" /\ Pipes(<<0>>, <<>>, <<>>)
    \/ /\ Alone /\ req.init /\ Quiet
       /\ \/ fpc = "waitPrestart" /\ hooks = <<>>
          \/ fpc \in {"fifo", "stray"} /\ hooks = <<"prestart">>

EnteringAlone == ~ req.pidns /\ ppid = Final /\ Entering

Phase ==
    /\ ppc = "waitUser" => Early
    /\ ppc = "waitPid" => req.pidns /\ (Entering \/ Handing)
    /\ ppc = "waitPrestart" =>
          /\ req.init /\ ppid = Final
          /\ EnteringAlone \/ HandedOver \/ BeforeHooks
    /\ ppc = "waitPoststart" => AfterHooks
    /\ ppc \in {"return", "done"} =>
          \/ Through
          \/ ~ req.init /\ ppid = Final /\ (EnteringAlone \/ HandedOver)
    /\ ppc = "failed" => GivenUp

HandshakeInv == TypeOK /\ Phase

-----------------------------------------------------------------------------
(* The handshake.                                                          *)

\* A pipe with one word in it.
LEMMA OneWord ==
    ASSUME NEW x
    PROVE  /\ Append(<<>>, x) = <<x>>
           /\ Head(<<x>>) = x /\ Tail(<<x>>) = <<>>
           /\ <<x>> # <<>>
  OBVIOUS

\* Two hooks in a row.
LEMMA TwoHooks == ASSUME NEW x, NEW y PROVE Append(<<x>>, y) = <<x, y>>
  <1>1. /\ Append(<<x>>, y) \in Seq({x, y}) /\ Len(Append(<<x>>, y)) = 2
        /\ <<x, y>> \in Seq({x, y}) /\ Len(<<x, y>>) = 2
    OBVIOUS
  <1>2. \A i \in 1..2 : Append(<<x>>, y)[i] = <<x, y>>[i]
    OBVIOUS
  <1> QED
    BY <1>1, <1>2, SeqEqual

\* Pipes keep their type.
LEMMA PipeType ==
    ASSUME NEW s \in Seq(Words), NEW x \in Words
    PROVE  /\ Append(s, x) \in Seq(Words)
           /\ s # <<>> => Head(s) \in Words /\ Tail(s) \in Seq(Words)
  OBVIOUS

\* A hook that has run is recorded.
LEMMA HooksType ==
    ASSUME NEW s \in Seq(HookNames), NEW x \in HookNames
    PROVE  Append(s, x) \in Seq(HookNames)
  OBVIOUS

\* The pipes are empty at first.
LEMMA NoWords == <<>> \in Seq(Words) /\ <<>> \in Seq(HookNames)
  OBVIOUS

\* What the three processes say is a word, and what runs is a hook.
LEMMA WordsAre ==
    /\ 0 \in Words /\ Child \in Words /\ Grandchild \in Words
    /\ "prestart" \in HookNames /\ "poststart" \in HookNames
  BY DEF Words, HookNames

\* The handshake starts in order ...
LEMMA HandshakeInit == Init => HandshakeInv
  <1> SUFFICES ASSUME Init PROVE HandshakeInv
    OBVIOUS
  <1>1. TypeOK
    BY NoWords, WordsAre DEF Init, TypeOK
  <1>2. Phase
    BY DEF Init, Phase, Early, Pipes, Quiet
  <1> QED
    BY <1>1, <1>2 DEF HandshakeInv

\* The parent's steps.
LEMMA ParentKeeps == HandshakeInv /\ (ParentStep \/ ParentFails) => Phase'
  <1> SUFFICES ASSUME HandshakeInv, ParentStep \/ ParentFails PROVE Phase'
    OBVIOUS
  <1> USE OneWord DEF HandshakeInv, TypeOK, Phase, Pipes, Quiet, Mapped, Requests, Child,
                      Grandchild, Final, Early, Entering, EnteringAlone, Handing, HandedOver,
                      BeforeHooks, AfterHooks, Through, Alone, GivenUp
  <1>1. CASE ParentMaps
    BY <1>1 DEF ParentMaps, AfterPid
  <1>2. CASE ParentGetsPid
    BY <1>2 DEF ParentGetsPid, AfterPid
  <1>3. CASE ParentPrestart
    BY <1>3 DEF ParentPrestart
  <1>4. CASE ParentPoststart
    BY <1>4, TwoHooks DEF ParentPoststart
  <1>5. CASE ParentReturns
    BY <1>5 DEF ParentReturns
  <1>6. CASE ParentFails
    BY <1>6 DEF ParentFails
  <1> QED
    BY <1>1, <1>2, <1>3, <1>4, <1>5, <1>6 DEF ParentStep

\* The child's.
LEMMA ChildKeeps == HandshakeInv /\ (ChildStep \/ ChildFails) => Phase'
  <1> SUFFICES ASSUME HandshakeInv, ChildStep \/ ChildFails PROVE Phase'
    OBVIOUS
  <1> USE OneWord DEF HandshakeInv, TypeOK, Phase, Pipes, Quiet, Mapped, Requests, Child,
                      Grandchild, Final, Early, Entering, EnteringAlone, Handing, HandedOver,
                      BeforeHooks, AfterHooks, Through, Alone, GivenUp
  <1>1. CASE ChildSetsUp
    BY <1>1 DEF ChildSetsUp
  <1>2. CASE ChildJoins
    BY <1>2 DEF ChildJoins
  <1>3. CASE ChildForks
    BY <1>3 DEF ChildForks, pipes
  <1>4. CASE ChildSendsPid
    BY <1>4 DEF ChildSendsPid
  <1>5. CASE ChildNotifies
    BY <1>5 DEF ChildNotifies
  <1>6. CASE ChildFails
    BY <1>6 DEF ChildFails, pipes
  <1> QED
    BY <1>1, <1>2, <1>3, <1>4, <1>5, <1>6 DEF ChildStep

\* The final process's.
LEMMA FinalKeeps == HandshakeInv /\ (FinalStep \/ FinalFails \/ FinalStrays) => Phase'
  <1> SUFFICES ASSUME HandshakeInv, FinalStep \/ FinalFails \/ FinalStrays PROVE Phase'
    OBVIOUS
  <1> USE OneWord DEF HandshakeInv, TypeOK, Phase, Pipes, Quiet, Mapped, Requests, Child,
                      Grandchild, Final, Early, Entering, EnteringAlone, Handing, HandedOver,
                      BeforeHooks, AfterHooks, Through, Alone, GivenUp
  <1>1. CASE FinalMountsRootfs
    BY <1>1 DEF FinalMountsRootfs
  <1>2. CASE FinalAsksPrestart
    BY <1>2 DEF FinalAsksPrestart
  <1>3. CASE FinalPivots
    BY <1>3 DEF FinalPivots
  <1>4. CASE FinalSetsStdio
    BY <1>4 DEF FinalSetsStdio
  <1>5. CASE FinalAsksPoststart
    BY <1>5 DEF FinalAsksPoststart
  <1>6. CASE FinalFails
    BY <1>6 DEF FinalFails
  <1>7. CASE FinalStrays
    BY <1>7 DEF FinalStrays, pipes
  <1> QED
    BY <1>1, <1>2, <1>3, <1>4, <1>5, <1>6, <1>7 DEF FinalStep

\* Every variable keeps its type.
LEMMA StepType == TypeOK /\ Next => TypeOK'
  <1> SUFFICES ASSUME TypeOK, Next PROVE TypeOK'
    OBVIOUS
  <1>r. req.userns \in BOOLEAN /\ req.tty \in BOOLEAN
    BY DEF TypeOK, Requests
  <1> USE PipeType, HooksType, WordsAre DEF TypeOK, pipes
  <1>1. CASE ParentStep
    BY <1>1, <1>r DEF ParentStep, ParentMaps, ParentGetsPid, ParentPrestart, ParentPoststart,
                ParentReturns, AfterPid
  <1>2. CASE ParentFails
    BY <1>2, <1>r DEF ParentFails
  <1>3. CASE ChildStep
    BY <1>3 DEF ChildStep, ChildSetsUp, ChildJoins, ChildForks, ChildSendsPid, ChildNotifies
  <1>4. CASE ChildFails
    BY <1>4 DEF ChildFails
  <1>5. CASE FinalStep
    BY <1>5, <1>r DEF FinalStep, FinalMountsRootfs, FinalAsksPrestart, FinalPivots,
                FinalSetsStdio, FinalAsksPoststart
  <1>6. CASE FinalFails \/ FinalStrays
    BY <1>6 DEF FinalFails, FinalStrays
  <1> QED
    BY <1>1, <1>2, <1>3, <1>4, <1>5, <1>6 DEF Next

\* ... and every step of it keeps the order.
LEMMA HandshakeStep == HandshakeInv /\ [Next]_vars => HandshakeInv'
  <1> SUFFICES ASSUME HandshakeInv, [Next]_vars PROVE HandshakeInv'
    OBVIOUS
  <1>1. CASE Next
    BY <1>1, StepType, ParentKeeps, ChildKeeps, FinalKeeps DEF Next, HandshakeInv
  <1>2. CASE UNCHANGED vars
    BY <1>2 DEF vars, HandshakeInv, TypeOK, Phase, Early, Entering, EnteringAlone, Handing,
                HandedOver, BeforeHooks, AfterHooks, Through, Alone, GivenUp, Mapped, Pipes,
                Quiet, Final
  <1> QED
    BY <1>1, <1>2

-----------------------------------------------------------------------------
(* The start.                                                              *)

\* Nothing has happened before the specification is accepted.
Untried ==
    stage = "asked" => ppc = "waitUser" /\ cpc = "start" /\ Early

StartInv == HandshakeInv /\ Untried

\* A step of the start is one of the handshake, one that does not touch it,
\* or the refusal of the specification.
LEMMA StartSteps ==
    [StartNext]_allVars => [Next]_vars \/ Refuse
  BY DEF StartNext, allVars, Accept, Refuse, SetsUp, Joins, Forks, ChildGoesOn, MakesCall,
         MountsRootfs, Pivots, Fails, AsksPoststart, Next, ChildStep, FinalStep

\* A container that is refused before the fork does not start the handshake.
LEMMA RefuseKeeps == StartInv /\ Refuse => HandshakeInv'
  BY DEF StartInv, Untried, Refuse, HandshakeInv, TypeOK, Phase, Early, GivenUp, Pipes, Quiet,
         pipes

\* Only an accepted specification gets further than the beginning.
LEMMA UntriedKept == StartInv /\ [StartNext]_allVars => Untried'
  <1> SUFFICES ASSUME StartInv, [StartNext]_allVars, stage' = "asked"
               PROVE  Untried'
    BY DEF Untried
  <1>1. UNCHANGED vars /\ stage = "asked"
    BY DEF StartNext, allVars, own, Accept, Refuse, SetsUp, Joins, Forks, MakesCall,
           MountsRootfs, Pivots, Fails, AsksPoststart
  <1> QED
    BY <1>1 DEF StartInv, Untried, Early, Pipes, Quiet, vars

\* The inductive invariant of the composition.
THEOREM StartInvariant == StartSpec => []StartInv
  <1>1. StartInit => StartInv
    BY HandshakeInit DEF StartInit, StartInv, Untried, Init, Early, Pipes, Quiet
  <1>2. StartInv /\ [StartNext]_allVars => StartInv'
    BY StartSteps, HandshakeStep, RefuseKeeps, UntriedKept DEF StartInv
  <1> QED
    BY <1>1, <1>2, PTL DEF StartSpec

(***************************************************************************)
(* start() keeps the pid of the process that will run the program          *)
(* (join_namespaces).                                                      *)
(***************************************************************************)
THEOREM PidIsRight == StartSpec => []RightPid
  <1>1. StartInv => RightPid
    BY DEF StartInv, HandshakeInv, Phase, RightPid, AfterHooks, Through, Alone
  <1> QED
    BY <1>1, StartInvariant, PTL

(***************************************************************************)
(* No word is taken by the wrong reader, and the hooks run once and in     *)
(* order (join_namespaces, and start on both sides of the pipes).          *)
(***************************************************************************)
THEOREM WordsInOrder == StartSpec => []WordsNotMixedUp
  <1>1. StartInv => WordsNotMixedUp
    <2> SUFFICES ASSUME TypeOK, Phase PROVE WordsNotMixedUp
      BY DEF StartInv, HandshakeInv
    <2> USE DEF TypeOK, Phase, Early, Entering, EnteringAlone, Handing, HandedOver,
                BeforeHooks, AfterHooks, Through, Alone, GivenUp, Mapped
    <2>1. cpc \in {"joined", "sendPid", "waitResume", "exited", "isFinal"} =>
              mapped = req.userns
      OBVIOUS
    <2>2. fpc \in {"stdio", "askPoststart", "fifo"} /\ req.init =>
              hooks \in {<<"prestart">>, <<"prestart", "poststart">>}
      OBVIOUS
    <2>3. hooks \in {<<>>, <<"prestart">>, <<"prestart", "poststart">>}
      OBVIOUS
    <2>4. hooks = <<"prestart", "poststart">> => fpc \in {"fifo", "stray"}
      OBVIOUS
    <2>5. /\ <<"prestart">> # <<>> /\ <<"prestart", "poststart">> # <<>>
          /\ Len(<<>>) # 2 /\ Len(<<"prestart">>) # 2
      OBVIOUS
    <2> QED
      BY <2>1, <2>2, <2>3, <2>4, <2>5 DEF WordsNotMixedUp
  <1> QED
    BY <1>1, StartInvariant, PTL

(***************************************************************************)
(* The final process is in the container's cgroup from its first           *)
(* instruction on, though only the pid of the child is written there.      *)
(***************************************************************************)
THEOREM InCgroup == StartSpec => []AlwaysInCgroup
  <1>1. StartInv => AlwaysInCgroup
    BY DEF StartInv, HandshakeInv, TypeOK, Phase, AlwaysInCgroup, Early, Entering, EnteringAlone,
           Handing, HandedOver, BeforeHooks, AfterHooks, Through, Alone, GivenUp, Mapped, Final
  <1> QED
    BY <1>1, StartInvariant, PTL

-----------------------------------------------------------------------------
(* The names of the host.                                                  *)

\* The process that is set up has entered its namespaces, all but the mount
\* namespace.
Entered ==
    cpc \in {"joined", "sendPid", "waitResume", "exited", "isFinal"} =>
        \A t \in NsTypes :
            /\ t \in ToNew => proc[t] = "own"
            /\ t \in ToJoin \ {"mount"} => proc[t] = InitNamespaces[t]

\* The specification is valid; that of a container that runs was when it
\* was created.
Validated ==
    stage = "run" \/ (stage = "asked" /\ ~ req.init) => validate(spec, Namespaces)

NamesInv ==
    /\ Entered /\ Validated /\ AgentNamesUntouched
    /\ proc = [t \in NsTypes |-> proc[t]]

\* Where set_sysctls writes once the namespaces are entered.
LEMMA SysctlsElsewhere ==
    ASSUME NamesInv, stage = "run", cpc \in {"exited", "isFinal"}
    PROVE  \A t \in NsTypes : <<t, "agent">> \notin Sysctls
  <1> SUFFICES ASSUME NewMounts, NEW k \in spec.sysctls PROVE proc[NsOfSysctl(k)] # "agent"
    BY DEF Sysctls
  <1>1. req.init /\ ToNew = {t \in NsTypes : Namespaces[t] = "new"}
        /\ ToJoin = {t \in NsTypes : Namespaces[t] \notin {"none", "new"}}
    BY DEF NewMounts, ToNew, ToJoin
  <1>2. \/ k = "ipc" /\ Namespaces.ipc # "none"
        \/ k = "net" /\ Namespaces.network = "new"
        \/ k = "domainname" /\ Namespaces.uts # "none"
    BY DEF NamesInv, Validated, validate, sysctl, contain_namespace
  <1>3. \A t \in {"ipc", "uts"} :
            Namespaces[t] # "none" => Namespaces[t] \in {"new", "sandbox"}
    BY DEF Namespaces, update_container_namespaces, NsTypes
  <1>4. \A t \in NsTypes : InitNamespaces[t] = "sandbox" \/ Namespaces[t] # "sandbox"
    BY DEF InitNamespaces
  <1>5. \A t \in {"ipc", "uts"} : Namespaces[t] # "none" => proc[t] \in {"own", "sandbox"}
    BY <1>1, <1>3, <1>4 DEF NamesInv, Entered, NsTypes
  <1>6. Namespaces.network = "new" => proc["network"] = "own"
    BY <1>1 DEF NamesInv, Entered, NsTypes
  <1> QED
    BY <1>2, <1>5, <1>6 DEF NsOfSysctl

\* Where sethostname writes.
LEMMA HostnameElsewhere ==
    ASSUME NamesInv, cpc = "joined"
    PROVE  \A t \in NsTypes : <<t, "agent">> \notin Hostname
  BY DEF NamesInv, Entered, Hostname, NsTypes, ToNew

\* No step of the set-up or of the handshake touches the names of the agent.
LEMMA NamesStep == StartInv /\ NamesInv /\ [StartNext]_allVars => NamesInv'
  <1> SUFFICES ASSUME StartInv, NamesInv, [StartNext]_allVars PROVE NamesInv'
    OBVIOUS
  <1> USE DEF NamesInv, AgentNamesUntouched
  \* What a specification asks for does not change.
  <1> DEFINE Asked == <<req, spec, Namespaces, InitNamespaces, ToNew, ToJoin>>
  <1>f. req' = req /\ spec' = spec /\ guest' = guest => Asked' = Asked
    BY DEF Namespaces, InitNamespaces, ToNew, ToJoin
  \* Steps that leave the namespaces, and what is written in them, alone.
  <1> DEFINE Elsewhere ==
          /\ UNCHANGED <<req, spec, guest, stage, proc, touched>>
          /\ cpc' \in {"joined", "sendPid", "waitResume", "exited", "isFinal"} =>
                 cpc \in {"joined", "sendPid", "waitResume", "exited", "isFinal"}
  <1>e. ASSUME Elsewhere PROVE NamesInv'
    BY <1>e, <1>f DEF Entered, Validated
  <1>1. CASE Accept
    BY <1>1, <1>f DEF Accept, vars, Entered, Validated
  <1>2. CASE Refuse
    BY <1>2, <1>f DEF Refuse, Entered, Validated
  <1>3. CASE stage = "run" /\ SetsUp
    BY <1>3, <1>f DEF SetsUp, ChildSetsUp, Entered, Validated
  <1>4. CASE stage = "run" /\ Joins
    <2>1. Asked' = Asked /\ touched' = touched /\ stage' = stage
      BY <1>4, <1>f DEF Joins, ChildJoins
    <2>2. ToJoin \cap ToNew = {}
      BY DEF ToJoin, ToNew
    <2>3. Entered'
      BY <1>4, <2>1, <2>2 DEF Joins, Entered
    <2> QED
      BY <1>4, <2>1, <2>3 DEF Joins, Validated
  <1>5. CASE stage = "run" /\ Forks
    <2>1. Asked' = Asked /\ proc' = proc /\ stage' = stage /\ cpc = "joined"
      BY <1>5, <1>f DEF Forks, ChildForks
    <2>2. AgentNamesUntouched'
      BY <1>5, <2>1, HostnameElsewhere DEF Forks
    <2> QED
      BY <2>1, <2>2 DEF Entered, Validated
  <1>6. CASE stage = "run" /\ (MountsRootfs \/ Pivots)
    <2>1. Asked' = Asked /\ stage' = stage /\ cpc' = cpc
      BY <1>6, <1>f DEF MountsRootfs, Pivots, FinalMountsRootfs, FinalPivots
    <2>2. /\ \A t \in NsTypes \ {"mount"} : proc'[t] = proc[t]
          /\ "mount" \in ToNew => proc' = proc
          /\ proc' = [t \in NsTypes |-> proc'[t]]
      BY <1>6 DEF MountsRootfs, Pivots, MountJoined, ToJoin, ToNew
    <2>3. Entered'
      BY <2>1, <2>2 DEF Entered
    <2>4. CASE MountsRootfs
      BY <2>1, <2>2, <2>3, <2>4 DEF Validated, MountsRootfs
    <2>5. CASE Pivots
      <3>1. cpc \in {"exited", "isFinal"}
        BY <2>5 DEF Pivots, FinalPivots, StartInv, HandshakeInv, TypeOK, Phase, Early, Entering,
                    EnteringAlone, Handing, HandedOver, BeforeHooks, AfterHooks, Through, Alone,
                    GivenUp
      <3>2. AgentNamesUntouched'
        BY <1>6, <2>5, <3>1, SysctlsElsewhere DEF Pivots
      <3> QED
        BY <2>1, <2>2, <2>3, <3>2 DEF Validated
    <2> QED
      BY <1>6, <2>4, <2>5
  <1>7. CASE stage = "run" /\ Fails
    <2>1. Asked' = Asked /\ proc' = proc /\ stage' = stage /\ cpc' = cpc
      BY <1>7, <1>f DEF Fails, FinalFails
    <2>2. AgentNamesUntouched'
      <3>1. fpc = "waitPrestart" => cpc \in {"exited", "isFinal"}
        BY DEF StartInv, HandshakeInv, TypeOK, Phase, Early, Entering,
               EnteringAlone, Handing, HandedOver, BeforeHooks, AfterHooks, Through, Alone,
               GivenUp
      <3> QED
        BY <1>7, <3>1, SysctlsElsewhere DEF Fails
    <2> QED
      BY <2>1, <2>2 DEF Entered, Validated
  <1>8. CASE stage = "run" /\ ((ChildGoesOn \/ ChildFails) /\ UNCHANGED own)
    <2>1. Elsewhere
      BY <1>8 DEF ChildGoesOn, ChildSendsPid, ChildNotifies, ChildFails, own
    <2> QED
      BY <2>1, <1>e
  <1>9. CASE \/ stage = "run" /\ MakesCall
             \/ UNCHANGED allVars
    <2>1. Elsewhere
      BY <1>9 DEF MakesCall, allVars, vars, own
    <2> QED
      BY <2>1, <1>e
  <1>10. CASE /\ stage = "run"
              /\ \/ (ParentStep \/ ParentFails) /\ UNCHANGED own
                 \/ (FinalAsksPrestart \/ FinalSetsStdio \/ FinalStrays) /\ UNCHANGED own
                 \/ AsksPoststart
    <2>1. Elsewhere
      BY <1>10 DEF ParentStep, ParentMaps, ParentGetsPid, ParentPrestart, ParentPoststart,
                   ParentReturns, ParentFails, FinalAsksPrestart, FinalSetsStdio, FinalStrays,
                   AsksPoststart, FinalAsksPoststart, own
    <2> QED
      BY <2>1, <1>e
  <1> QED
    BY <1>1, <1>2, <1>3, <1>4, <1>5, <1>6, <1>7, <1>8, <1>9, <1>10 DEF StartNext

(***************************************************************************)
(* What validate lets through is written in other namespaces than the      *)
(* agent's (sethostname in start, set_sysctls), also when the start fails  *)
(* half-way.                                                               *)
(***************************************************************************)
THEOREM NamesUntouched == StartSpec => []AgentNamesUntouched
  <1>1. StartInit => NamesInv
    BY DEF StartInit, Init, NamesInv, Entered, Validated, AgentNamesUntouched
  <1>2. NamesInv => AgentNamesUntouched
    BY DEF NamesInv
  <1> QED
    BY <1>1, <1>2, NamesStep, StartInvariant, PTL DEF StartSpec

-----------------------------------------------------------------------------
(* Lists of calls.                                                         *)

\* s is a sequence.
IsList(s) == \E S : s \in Seq(S)

\* A set of numbers has a least one.
LEMMA HasMin ==
    ASSUME NEW S \in SUBSET Nat, S # {} PROVE \E x \in S : \A y \in S : x <= y
  <1> DEFINE R == OpToRel(<, Nat)
  <1>1. IsWellFoundedOn(R, Nat)
    BY NatLessThanWellFounded
  <1>2. \A x, y \in Nat : <<y, x>> \in R <=> y < x
    BY DEF OpToRel
  <1> HIDE DEF R
  <1>3. PICK x \in S : \A y \in S : ~ (<<y, x>> \in R)
    BY <1>1, WFMin
  <1>4. \A y \in S : ~ (y < x)
    BY <1>2, <1>3
  <1> QED
    BY <1>4

\* What two sequences in a row begin with.
LEMMA ListsInARow ==
    ASSUME NEW s, NEW t, IsList(s), IsList(t)
    PROVE  /\ IsList(s \o t)
           /\ \A i \in 1..Len(s) : (s \o t)[i] = s[i]
           /\ Len(s \o t) = Len(s) + Len(t) /\ Len(s) \in Nat
  <1>1. PICK S : s \in Seq(S)
    BY DEF IsList
  <1>2. PICK T : t \in Seq(T)
    BY DEF IsList
  <1>3. s \in Seq(S \cup T) /\ t \in Seq(S \cup T)
    BY <1>1, <1>2
  <1>4. s \o t \in Seq(S \cup T)
    BY <1>3
  <1> QED
    BY <1>3, <1>4 DEF IsList

\* A function on 1..n is a sequence.
LEMMA FunctionIsList ==
    ASSUME NEW n \in Nat, NEW f, f = [i \in 1..n |-> f[i]] PROVE IsList(f)
  <1>1. f \in [1..n -> {f[i] : i \in 1..n}]
    OBVIOUS
  <1>2. f \in Seq({f[i] : i \in 1..n})
    BY <1>1
  <1> QED
    BY <1>2 DEF IsList

\* The one of FlattenSeq.
Flattening(f, s, n) ==
    f = [i \in 1..n |-> IF i = 1 THEN s[i] ELSE f[i - 1] \o s[i]]

\* FlattenSeq is defined by a function that calls itself; there is one.
LEMMA FlatteningExists == ASSUME NEW s, NEW n \in Nat PROVE \E f : Flattening(f, s, n)
  <1> DEFINE Bad == {k \in Nat : ~ \E f : Flattening(f, s, k)}
  <1>1. SUFFICES ASSUME Bad # {} PROVE FALSE
    OBVIOUS
  <1>2. PICK k \in Bad : \A l \in Bad : k <= l
    BY <1>1, HasMin
  <1>3. CASE k <= 1
    <2> DEFINE g == [i \in 1..k |-> s[i]]
    <2>1. Flattening(g, s, k)
      BY <1>3 DEF Flattening
    <2> QED
      BY <2>1
  <1>4. CASE k > 1
    <2>1. k - 1 \in Nat /\ k - 1 \notin Bad /\ k \in Nat
      BY <1>2, <1>4
    <2>2. PICK f : Flattening(f, s, k - 1)
      BY <2>1
    <2> DEFINE g == [i \in 1..k |-> IF i = k THEN f[k - 1] \o s[k] ELSE f[i]]
    <2>3. ASSUME NEW i \in 1..k
          PROVE  g[i] = IF i = 1 THEN s[i] ELSE g[i - 1] \o s[i]
      <3>1. CASE i = k
        <4>1. k - 1 \in 1..k /\ k \in 1..k /\ k - 1 # k /\ i # 1
          BY <1>4, <2>1, <3>1
        <4>2. g[k - 1] = f[k - 1] /\ g[k] = f[k - 1] \o s[k]
          BY <4>1
        <4> QED
          BY <3>1, <4>1, <4>2
      <3>2. CASE i # k
        <4>1. i \in 1..(k - 1) /\ g[i] = f[i] /\ (i # 1 => g[i - 1] = f[i - 1])
          BY <2>1, <3>2
        <4> QED
          BY <2>2, <4>1 DEF Flattening
      <3> QED
        BY <3>1, <3>2
    <2>4. Flattening(g, s, k)
      <3> HIDE DEF g
      <3>1. g = [i \in 1..k |-> g[i]]
        BY DEF g
      <3> QED
        BY <2>3, <3>1 DEF Flattening
    <2> QED
      BY <2>4
  <1> QED
    BY <1>2, <1>3, <1>4

\* The parts of a flattened list follow each other.
LEMMA FlattenIsList ==
    ASSUME NEW s, IsList(s), \A i \in 1..Len(s) : IsList(s[i])
    PROVE  IsList(FlattenSeq(s))
  <1>0. Len(s) \in Nat
    BY DEF IsList
  <1>1. CASE Len(s) = 0
    BY <1>1 DEF FlattenSeq
  <1>2. CASE Len(s) # 0
    <2> DEFINE n == Len(s)
               f == CHOOSE f : Flattening(f, s, n)
    <2>1. FlattenSeq(s) = f[n]
      BY <1>2 DEF FlattenSeq, Flattening
    <2>2. Flattening(f, s, n)
      BY <1>0, FlatteningExists
    <2> HIDE DEF f
    <2> DEFINE Bad == {i \in 1..n : ~ IsList(f[i])}
    <2>3. ASSUME Bad # {} PROVE FALSE
      <3>0. Bad \in SUBSET Nat
        BY <1>0
      <3>1. PICK i \in Bad : \A j \in Bad : i <= j
        <4> HIDE DEF Bad
        <4> QED
          BY <2>3, <3>0, HasMin
      <3>2. i # 1 => i - 1 \in 1..n /\ i - 1 \notin Bad
        BY <1>0, <3>1
      <3>3. f[i] = IF i = 1 THEN s[i] ELSE f[i - 1] \o s[i]
        BY <2>2, <3>1 DEF Flattening
      <3>4. IsList(f[i])
        BY <3>1, <3>2, <3>3, ListsInARow
      <3> QED
        BY <3>1, <3>4
    <2> QED
      BY <1>0, <1>2, <2>1, <2>3
  <1> QED
    BY <1>1, <1>2

\* Lists of one call and of two.
LEMMA ShortLists ==
    /\ IsList(<<>>)
    /\ \A x : IsList(<<x>>)
    /\ \A x, y : IsList(<<x, y>>) /\ Len(<<x, y>>) = 2 /\ <<x, y>>[1] = x
  <1>1. <<>> \in Seq({})
    OBVIOUS
  <1>2. \A x : <<x>> \in Seq({x})
    OBVIOUS
  <1>3. \A x, y : <<x, y>> \in Seq({x, y})
    OBVIOUS
  <1> QED
    BY <1>1, <1>2, <1>3 DEF IsList

\* The calls of mount_from are a list.
LEMMA MountFromIsList == ASSUME NEW m, NEW flags PROVE IsList(mount_from(m, flags))
  BY ShortLists, ListsInARow DEF mount_from

\* Each hierarchy has its place in the list of them.
LEMMA HierarchiesInOrder == IsList(SetToSeq(Hierarchies))
  <1> DEFINE n == Cardinality(Hierarchies)
  <1>1. n \in Nat /\ ExistsBijection(1..n, Hierarchies)
    BY SpecsAssumption, FS_CardinalityType
  <1>2. PICK f : f \in [1..n -> Hierarchies] /\ IsInjective(f)
    BY <1>1 DEF ExistsBijection, Bijection, Injection, IsInjective
  <1>3. SetToSeq(Hierarchies) \in [1..n -> Hierarchies]
    BY <1>2 DEF SetToSeq
  <1> QED
    BY <1>1, <1>3, FunctionIsList

\* Those of mount_cgroups, too.
LEMMA MountCgroupsIsList == ASSUME NEW m, NEW flags PROVE IsList(mount_cgroups(m, flags))
  <1> DEFINE one(h) == mount_from([type |-> "bind", source |-> CgroupOf[h],
                                   destination |-> Append(m.destination, h)],
                                  flags \cup {"REC", "BIND"})
             all    == SetToSeq(Hierarchies)
             parts  == [i \in DOMAIN all |-> one(all[i])]
             tmpfs  == [type |-> "tmpfs", destination |-> m.destination]
             last   == IF "RDONLY" \in flags THEN <<remount(Root \o m.destination, TRUE)>>
                       ELSE <<>>
  <1>1. mount_cgroups(m, flags) = mount_from(tmpfs, {}) \o FlattenSeq(parts) \o last
    BY DEF mount_cgroups
  <1>2. Len(all) \in Nat /\ DOMAIN all = 1..Len(all)
    BY HierarchiesInOrder DEF IsList
  <1>3. IsList(parts) /\ DOMAIN parts = 1..Len(parts) /\ Len(parts) = Len(all)
    <2> HIDE DEF all, one
    <2>1. IsList(parts) /\ DOMAIN parts = 1..Len(all)
      BY <1>2, FunctionIsList
    <2> HIDE DEF parts
    <2> QED
      BY <1>2, <2>1 DEF IsList
  <1>4. \A i \in 1..Len(parts) : IsList(parts[i])
    <2> HIDE DEF all
    <2> QED
      BY <1>3, MountFromIsList
  <1>5. IsList(FlattenSeq(parts))
    <2> HIDE DEF parts
    <2> QED
      BY <1>3, <1>4, FlattenIsList
  <1>6. IsList(mount_from(tmpfs, {})) /\ IsList(last)
    BY MountFromIsList, ShortLists
  <1> HIDE DEF parts, tmpfs, last
  <1> QED
    BY <1>1, <1>5, <1>6, ListsInARow

\* And those of any mount of a specification.
LEMMA MountOfIsList == ASSUME NEW m PROVE IsList(mount_of(m))
  <1> DEFINE flags == parse_mount(m.options)
  <1>1. \/ mount_of(m) = <<refuse>>
        \/ mount_of(m) = mount_cgroups(m, flags)
        \/ mount_of(m) = mount_from(m, flags \ {"RDONLY"})
        \/ mount_of(m) = mount_from(m, flags)
    BY Zenon DEF mount_of
  <1> HIDE DEF flags
  <1> QED
    BY <1>1, MountFromIsList, MountCgroupsIsList, ShortLists

\* init_rootfs begins with the propagation.
LEMMA PropagationFirst ==
    ASSUME NEW s \in Specs, NEW b
    PROVE  /\ IsList(init_rootfs(s, b)) /\ init_rootfs(s, b) # <<>>
           /\ Head(init_rootfs(s, b)) = propagation(s.propagation)
  <1> DEFINE first   == <<propagation(s.propagation), bind(Root, Root, TRUE)>>
             parts   == [i \in DOMAIN s.mounts |-> mount_of(s.mounts[i])]
             devices == create_devices(s.devices, b)
  <1>1. init_rootfs(s, b) = first \o FlattenSeq(parts) \o devices
    BY DEF init_rootfs
  <1>2. s.mounts \in Seq(MountEntries) /\ s.devices \in Seq(PathEntries)
    BY SpecsAssumption
  <1>3. IsList(FlattenSeq(parts))
    <2>1. IsList(parts) /\ Len(s.mounts) \in Nat /\ DOMAIN parts = 1..Len(s.mounts)
      BY <1>2, FunctionIsList
    <2>2. DOMAIN parts = 1..Len(parts)
      <3> HIDE DEF parts
      <3> QED
        BY <2>1 DEF IsList
    <2>3. \A i \in 1..Len(parts) : IsList(parts[i])
      BY <2>2, MountOfIsList
    <2> HIDE DEF parts
    <2> QED
      BY <2>1, <2>3, FlattenIsList
  <1>4. IsList(devices)
    <2> DEFINE all == DEFAULT_DEVICES \o s.devices
    <2>1. IsList(all)
      BY <1>2, ShortLists, ListsInARow DEF DEFAULT_DEVICES, IsList
    <2>2. Len(all) \in Nat /\ DOMAIN all = 1..Len(all)
      <3> HIDE DEF all
      <3> QED
        BY <2>1 DEF IsList
    <2>3. devices = [i \in 1..Len(all) |-> devices[i]]
      BY <2>2 DEF create_devices
    <2> HIDE DEF all, devices
    <2> QED
      BY <2>2, <2>3, FunctionIsList
  <1>5. IsList(first) /\ Len(first) = 2 /\ first[1] = propagation(s.propagation)
    BY ShortLists
  <1> HIDE DEF first, parts, devices
  <1>6. /\ IsList(first \o FlattenSeq(parts)) /\ Len(first \o FlattenSeq(parts)) >= 2
        /\ (first \o FlattenSeq(parts))[1] = propagation(s.propagation)
    <2>1. Len(FlattenSeq(parts)) \in Nat
      BY <1>3 DEF IsList
    <2>2. 1 \in 1..Len(first)
      BY <1>5
    <2>3. /\ IsList(first \o FlattenSeq(parts))
          /\ Len(first \o FlattenSeq(parts)) = Len(first) + Len(FlattenSeq(parts))
          /\ (first \o FlattenSeq(parts))[1] = first[1]
      BY <1>3, <1>5, <2>2, ListsInARow
    <2> QED
      BY <1>5, <2>1, <2>3
  <1>7. Len(devices) \in Nat
    BY <1>4 DEF IsList
  <1>8. /\ IsList(init_rootfs(s, b)) /\ Len(init_rootfs(s, b)) >= 2
        /\ init_rootfs(s, b)[1] = propagation(s.propagation)
    BY <1>1, <1>4, <1>6, <1>7, ListsInARow
  <1> QED
    BY <1>8 DEF IsList

-----------------------------------------------------------------------------
(* The mounts of the agent.                                                *)

\* As long as the mounts are peers of the agent's, the next call is the one
\* that changes that.
PeersInv ==
    world.shared =>
        /\ guest.shared
        /\ \/ spec.propagation = "shared"
           \/ todo = <<>>
           \/ Head(todo) = propagation(spec.propagation)

MountsInv ==
    /\ spec \in Specs
    /\ world = [table |-> world.table, agent |-> world.agent,
                shared |-> world.shared, nodes |-> world.nodes]
    /\ world.shared \in BOOLEAN
    /\ AgentMountsUntouched /\ PeersInv

\* The next call reaches the agent's table only if the mounts may be shared.
LEMMA CallKeepsMounts == MountsInv /\ MakesCall => MountsInv'
  <1> SUFFICES ASSUME MountsInv, MakesCall PROVE MountsInv'
    OBVIOUS
  <1> DEFINE c == Head(todo)
  <1>1. /\ world' = Call(world, c) /\ todo # <<>>
        /\ spec' = spec /\ guest' = guest
    BY DEF MakesCall
  <1>2. /\ world'.agent = IF world.shared /\ Propagates(c) THEN OnTable(world.agent, c)
                          ELSE world.agent
        /\ world'.shared = (world.shared /\ (c.op = "propagation" => c.how = "shared"))
        /\ world' = [table |-> world'.table, agent |-> world'.agent,
                     shared |-> world'.shared, nodes |-> world'.nodes]
    BY <1>1 DEF Call
  <1>3. ASSUME world.shared, spec.propagation # "shared"
        PROVE  ~ world'.shared /\ ~ Propagates(c)
    <2>1. c = propagation(spec.propagation)
      BY <1>1, <1>3 DEF MountsInv, PeersInv
    <2>2. c.op = "propagation" /\ c.how = spec.propagation
      BY <2>1 DEF propagation
    <2> QED
      BY <1>2, <1>3, <2>2 DEF Propagates
  <1>4. (guest.shared /\ spec.propagation = "shared") \/ world'.agent = world.agent
    BY <1>2, <1>3 DEF MountsInv, PeersInv
  <1>5. AgentMountsUntouched'
    BY <1>1, <1>4 DEF MountsInv, AgentMountsUntouched
  <1>6. PeersInv' /\ world'.shared \in BOOLEAN
    BY <1>1, <1>2, <1>3 DEF MountsInv, PeersInv
  <1> QED
    BY <1>1, <1>2, <1>5, <1>6 DEF MountsInv

\* No other step of the start mounts anything.
LEMMA MountsStep == MountsInv /\ [StartNext]_allVars => MountsInv'
  <1> SUFFICES ASSUME MountsInv, [StartNext]_allVars PROVE MountsInv'
    OBVIOUS
  <1> USE DEF MountsInv, PeersInv, AgentMountsUntouched
  <1>1. CASE MakesCall
    BY <1>1, CallKeepsMounts
  <1>2. CASE Joins
    BY <1>2 DEF Joins
  <1>3. CASE Forks
    <2>1. todo' = <<>> \/ todo' = init_rootfs(spec, BindDevice)
      BY <1>3 DEF Forks
    <2>2. todo' = <<>> \/ Head(todo') = propagation(spec.propagation)
      BY <2>1, PropagationFirst
    <2> QED
      BY <1>3, <2>2 DEF Forks
  <1>4. CASE Pivots
    <2>1. /\ world.shared' = world.shared /\ world.agent' = world.agent
          /\ world' = [table |-> world'.table, agent |-> world'.agent,
                       shared |-> world'.shared, nodes |-> world'.nodes]
      BY <1>4 DEF Pivots, pivot_rootfs
    <2>2. world.shared => todo' = <<>>
      BY <1>4 DEF Pivots
    <2> QED
      BY <1>4, <2>1, <2>2 DEF Pivots
  <1>5. CASE UNCHANGED <<world, spec, guest, todo>>
    BY <1>5
  <1> QED
    BY <1>1, <1>2, <1>3, <1>4, <1>5
       DEF StartNext, allVars, own, Accept, Refuse, SetsUp, MountsRootfs, Fails, AsksPoststart

(***************************************************************************)
(* The agent keeps its own mounts, hostname and sysctls, whatever          *)
(* specification is accepted and wherever the start fails: init_rootfs     *)
(* ends the propagation before it mounts anything.                         *)
(***************************************************************************)
THEOREM AgentKeepsItsOwn == StartSpec => []AgentUntouched
  <1>1. StartInit => MountsInv
    BY DEF StartInit, MountsInv, PeersInv, AgentMountsUntouched
  <1>2. MountsInv => AgentMountsUntouched
    BY DEF MountsInv
  <1>3. StartSpec => []AgentMountsUntouched
    BY <1>1, <1>2, MountsStep, PTL DEF StartSpec
  <1> QED
    BY <1>3, NamesUntouched, PTL DEF AgentUntouched

-----------------------------------------------------------------------------
(* The namespaces of the program.                                          *)

\* The mount namespace is joined last.
InRootfs == fpc \in {"stdio", "askPoststart", "fifo", "exec"}

JoinedInv ==
    /\ req.userns => "user" \in ToNew
    /\ \A t \in NsTypes : t \notin ToNew \cup ToJoin => proc[t] = "agent"
    /\ InRootfs /\ "mount" \in ToJoin => proc["mount"] = InitNamespaces["mount"]

\* Namespaces are entered in the order of join_namespaces, and none is left.
LEMMA JoinedStep == NamesInv /\ JoinedInv /\ [StartNext]_allVars => JoinedInv'
  <1> SUFFICES ASSUME NamesInv, JoinedInv, [StartNext]_allVars PROVE JoinedInv'
    OBVIOUS
  <1> USE DEF JoinedInv
  <1>0. req' = req /\ spec' = spec /\ guest' = guest
    BY DEF StartNext, allVars, vars, own, Accept, Refuse, SetsUp, ChildSetsUp, Joins,
           ChildJoins, Forks, ChildForks, ChildGoesOn, ChildSendsPid, ChildNotifies, ChildFails,
           MakesCall, MountsRootfs, FinalMountsRootfs, Pivots, FinalPivots, Fails, FinalFails,
           AsksPoststart, FinalAsksPoststart, ParentStep, ParentMaps, ParentGetsPid,
           ParentPrestart, ParentPoststart, ParentReturns, ParentFails, FinalAsksPrestart,
           FinalSetsStdio, FinalStrays
  <1>1. UNCHANGED <<ToNew, ToJoin, InitNamespaces>>
    BY <1>0 DEF Namespaces, InitNamespaces, ToNew, ToJoin
  <1>2. /\ proc = [t \in NsTypes |-> proc[t]] /\ "mount" \in NsTypes
        /\ \A t \in NsTypes : t \in ToNew => t \notin ToJoin
    BY DEF NamesInv, NsTypes, ToNew, ToJoin
  <1>3. CASE SetsUp
    BY <1>0, <1>1, <1>2, <1>3 DEF SetsUp, ChildSetsUp, InRootfs
  <1>4. CASE Joins
    <2>1. fpc' = fpc /\ "mount" \in ToJoin => proc'["mount"] = proc["mount"]
      BY <1>2, <1>4 DEF Joins, ChildJoins
    <2>2. \A t \in NsTypes : t \notin ToNew \cup ToJoin => proc'[t] = proc[t]
      BY <1>4 DEF Joins
    <2> QED
      BY <1>0, <1>1, <1>4, <2>1, <2>2 DEF Joins, ChildJoins, InRootfs
  <1>5. CASE MountsRootfs \/ Pivots
    <2>1. proc' = proc \/ proc' = MountJoined
      BY <1>5 DEF MountsRootfs, Pivots
    <2>2. \A t \in NsTypes : t \notin ToJoin => proc'[t] = proc[t]
      BY <1>2, <2>1 DEF MountJoined
    <2>3. InRootfs' => proc' = MountJoined
      BY <1>5 DEF MountsRootfs, FinalMountsRootfs, Pivots, InRootfs
    <2>4. InRootfs' /\ "mount" \in ToJoin => proc'["mount"] = InitNamespaces["mount"]
      BY <1>2, <2>3 DEF MountJoined
    <2> QED
      BY <1>0, <1>1, <2>2, <2>4
  <1>6. CASE proc' = proc /\ (InRootfs' => InRootfs)
    BY <1>0, <1>1, <1>6
  <1>7. \/ SetsUp \/ Joins \/ MountsRootfs \/ Pivots
        \/ proc' = proc /\ (InRootfs' => InRootfs)
    BY DEF StartNext, allVars, vars, own, Accept, Refuse, Forks, ChildForks, ChildGoesOn,
           ChildSendsPid, ChildNotifies, ChildFails, MakesCall, Fails, FinalFails,
           AsksPoststart, FinalAsksPoststart, ParentStep, ParentMaps, ParentGetsPid,
           ParentPrestart, ParentPoststart, ParentReturns, ParentFails, FinalAsksPrestart,
           FinalSetsStdio, FinalStrays, InRootfs
  <1> QED
    BY <1>3, <1>4, <1>5, <1>6, <1>7

\* Where the init process is to be is what the specification says, with the
\* namespaces of the sandbox in the place of some.
LEMMA InitNamespacesAsSpecified ==
    ASSUME NEW t \in NsTypes
    PROVE  InitNamespaces[t] =
             CASE t = "pid" /\ spec.ns[t] = "none" -> "own"
               [] t # "pid" /\ spec.ns[t] = "none" -> "agent"
               [] t \in {"ipc", "uts"} /\ spec.ns[t] # "none" ->
                    IF guest.sandboxed THEN "sandbox" ELSE "own"
               [] t \notin {"ipc", "uts"} /\ spec.ns[t] = "new" -> "own"
               [] OTHER -> spec.ns[t]
  <1>1. Namespaces[t] =
          CASE t \in {"ipc", "uts"} /\ spec.ns[t] # "none" ->
                 IF guest.sandboxed THEN "sandbox" ELSE "new"
            [] t = "pid" /\ spec.ns[t] = "none" -> "new"
            [] OTHER -> spec.ns[t]
    BY DEF Namespaces, update_container_namespaces
  <1>2. InitNamespaces[t] = CASE Namespaces[t] = "none" -> "agent"
                              [] Namespaces[t] = "new"  -> "own"
                              [] OTHER                  -> Namespaces[t]
    BY DEF InitNamespaces
  <1> QED
    BY <1>1, <1>2

(***************************************************************************)
(* The program is in the namespaces its specification names, an exec'ed    *)
(* one in those of the init process (join_namespaces).                     *)
(***************************************************************************)
THEOREM NamespacesEntered ==
    StartSpec => [](fpc \in {"fifo", "exec"} => NamespacesAsSpecified)
  <1> DEFINE Goal == fpc \in {"fifo", "exec"} => NamespacesAsSpecified
  <1>1. StartInit => NamesInv /\ JoinedInv
    <2> SUFFICES ASSUME StartInit PROVE NamesInv /\ JoinedInv
      OBVIOUS
    <2>1. NamesInv
      BY DEF StartInit, Init, NamesInv, Entered, Validated, AgentNamesUntouched
    <2>2. req.userns <=> "user" \in ToNew
      <3>1. req = RequestOf(req.init)
        BY DEF StartInit
      <3>2. RequestOf(req.init).userns = ("user" \in ToNew)
        BY DEF RequestOf
      <3> QED
        BY <3>1, <3>2
    <2>3. fpc = "none" /\ \A t \in NsTypes : proc[t] = "agent"
      BY DEF StartInit, Init
    <2> QED
      BY <2>1, <2>2, <2>3 DEF JoinedInv, InRootfs
  <1>2. StartInv /\ NamesInv /\ JoinedInv => Goal
    <2> SUFFICES ASSUME StartInv, NamesInv, JoinedInv, fpc \in {"fifo", "exec"},
                        NEW t \in NsTypes
                 PROVE  proc[t] = InitNamespaces[t]
      BY InitNamespacesAsSpecified DEF NamespacesAsSpecified
    <2>1. cpc \in {"exited", "isFinal"}
      BY DEF StartInv, HandshakeInv, TypeOK, Phase, Early, Entering, EnteringAlone, Handing,
             HandedOver, BeforeHooks, AfterHooks, Through, Alone, GivenUp
    <2>2. CASE t \in ToNew
      <3>1. Namespaces[t] = "new" /\ proc[t] = "own"
        BY <2>1, <2>2 DEF NamesInv, Entered, ToNew
      <3> QED
        BY <3>1 DEF InitNamespaces
    <2>3. CASE t \in ToJoin
      BY <2>1, <2>3 DEF NamesInv, Entered, JoinedInv, InRootfs
    <2>4. CASE t \notin ToNew \cup ToJoin
      <3>1. proc[t] = "agent"
        BY <2>4 DEF JoinedInv
      <3>2. InitNamespaces[t] = "agent"
        BY <2>4 DEF ToNew, ToJoin, InitNamespaces
      <3> QED
        BY <3>1, <3>2
    <2> QED
      BY <2>2, <2>3, <2>4
  <1> HIDE DEF Goal
  <1>3. StartSpec => []Goal
    BY <1>1, <1>2, NamesStep, JoinedStep, StartInvariant, PTL DEF StartSpec
  <1> QED
    BY <1>3 DEF Goal

-----------------------------------------------------------------------------
(* Paths.                                                                  *)

\* That these literals are strings the provers do not know.
Names == STRING \cup {"dev", "null", "zero"}

Paths == Seq(Names)

\* What a prefix is, and the path below it.
LEMMA PrefixNames ==
    ASSUME NEW a \in Paths, NEW p \in Paths
    PROVE  IsPrefix(a, p) <=> Len(a) <= Len(p) /\ \A i \in 1..Len(a) : a[i] = p[i]
  <1>1. ASSUME Len(a) <= Len(p)
        PROVE  SubSeq(a, 1, Len(a)) = SubSeq(p, 1, Len(a)) <=> \A i \in 1..Len(a) : a[i] = p[i]
    <2>1. SubSeq(a, 1, Len(a)) = a
      BY SubSeqFull DEF Paths
    <2>2. /\ SubSeq(p, 1, Len(a)) \in Paths /\ Len(SubSeq(p, 1, Len(a))) = Len(a)
          /\ \A i \in 1..Len(a) : SubSeq(p, 1, Len(a))[i] = p[i]
      BY <1>1 DEF Paths
    <2>3. a = SubSeq(p, 1, Len(a)) <=> \A i \in 1..Len(a) : a[i] = SubSeq(p, 1, Len(a))[i]
      <3> DEFINE b == SubSeq(p, 1, Len(a))
      <3> HIDE DEF b
      <3> QED
        BY <2>2, SeqEqual DEF Paths, b
    <2> QED
      BY <2>1, <2>2, <2>3
  <1> QED
    BY <1>1 DEF IsPrefix

\* The names of the path below a prefix.
LEMMA BelowNames ==
    ASSUME NEW a \in Paths, NEW p \in Paths, Len(a) <= Len(p)
    PROVE  /\ Below(a, p) \in Paths /\ Len(Below(a, p)) = Len(p) - Len(a)
           /\ \A i \in 1..(Len(p) - Len(a)) : Below(a, p)[i] = p[i + Len(a)]
  BY DEF Paths, Below

\* A path in a row with another.
LEMMA PathsInARow ==
    ASSUME NEW a \in Paths, NEW r \in Paths
    PROVE  /\ a \o r \in Paths /\ Len(a \o r) = Len(a) + Len(r)
           /\ IsPrefix(a, a \o r) /\ Below(a, a \o r) = r
  <1>1. /\ a \o r \in Paths /\ Len(a \o r) = Len(a) + Len(r)
        /\ \A i \in 1..Len(a) : (a \o r)[i] = a[i]
        /\ \A i \in 1..Len(r) : (a \o r)[i + Len(a)] = r[i]
    BY DEF Paths
  <1>2. Len(a) \in Nat /\ Len(r) \in Nat
    BY DEF Paths
  <1> DEFINE p == a \o r
  <1>a. p \in Paths /\ Len(p) = Len(a) + Len(r) /\ \A i \in 1..Len(a) : p[i] = a[i]
    BY <1>1
  <1>b. \A i \in 1..Len(r) : p[i + Len(a)] = r[i]
    BY <1>1
  <1> HIDE DEF p
  <1>c. Len(a) <= Len(p) /\ Len(p) - Len(a) = Len(r)
    BY <1>2, <1>a
  <1>3. IsPrefix(a, p)
    BY <1>a, <1>c, PrefixNames
  <1>4. /\ Below(a, p) \in Paths /\ Len(Below(a, p)) = Len(r)
        /\ \A i \in 1..Len(r) : Below(a, p)[i] = p[i + Len(a)]
    BY <1>a, <1>c, BelowNames
  <1>5. Below(a, p) = r
    <2> DEFINE b == Below(a, p)
    <2> HIDE DEF b
    <2> QED
      BY <1>4, <1>b, SeqEqual DEF Paths, b
  <1> QED
    BY <1>1, <1>3, <1>5 DEF p

\* A path is its prefix with what is below.
LEMMA PrefixAndBelow ==
    ASSUME NEW a \in Paths, NEW p \in Paths, IsPrefix(a, p)
    PROVE  Below(a, p) \in Paths /\ p = a \o Below(a, p)
  <1>1. Len(a) <= Len(p) /\ \A i \in 1..Len(a) : a[i] = p[i]
    BY PrefixNames
  <1>2. Len(a) \in Nat /\ Len(p) \in Nat
    BY DEF Paths
  <1> DEFINE b == Below(a, p)
             q == a \o b
  <1>3. /\ b \in Paths /\ Len(b) = Len(p) - Len(a)
        /\ \A i \in 1..(Len(p) - Len(a)) : b[i] = p[i + Len(a)]
    BY <1>1, BelowNames
  <1> HIDE DEF b
  <1>4. /\ q \in Paths /\ Len(q) = Len(p)
        /\ \A i \in 1..Len(a) : q[i] = a[i]
        /\ \A i \in 1..Len(b) : q[i + Len(a)] = b[i]
    BY <1>2, <1>3 DEF Paths
  <1> HIDE DEF q
  <1>5. ASSUME NEW i \in 1..Len(p) PROVE q[i] = p[i]
    <2>1. CASE i <= Len(a)
      BY <1>1, <1>2, <1>4, <2>1
    <2>2. CASE i > Len(a)
      <3>1. i - Len(a) \in 1..Len(b) /\ (i - Len(a)) + Len(a) = i
        BY <1>2, <1>3, <2>2
      <3> QED
        BY <1>3, <1>4, <3>1
    <2> QED
      BY <1>2, <2>1, <2>2
  <1>6. q = p
    BY <1>4, <1>5, SeqEqual DEF Paths
  <1> QED
    BY <1>3, <1>6 DEF b, q

\* The order of paths.
LEMMA PrefixOrder ==
    ASSUME NEW a \in Paths, NEW b \in Paths, NEW p \in Paths
    PROVE  /\ IsPrefix(a, a) /\ IsPrefix(<<>>, a)
           /\ IsPrefix(a, b) /\ IsPrefix(b, p) => IsPrefix(a, p)
           /\ IsPrefix(a, b) /\ IsPrefix(b, a) => a = b
           /\ IsPrefix(a, p) /\ IsPrefix(b, p) => IsPrefix(a, b) \/ IsPrefix(b, a)
  <1>1. Len(a) \in Nat /\ Len(b) \in Nat /\ Len(p) \in Nat /\ <<>> \in Paths /\ Len(<<>>) = 0
    BY DEF Paths
  <1>2. IsPrefix(a, a) /\ IsPrefix(<<>>, a)
    BY <1>1, PrefixNames
  <1>3. IsPrefix(a, b) /\ IsPrefix(b, p) => IsPrefix(a, p)
    BY <1>1, PrefixNames
  <1>4. IsPrefix(a, b) /\ IsPrefix(b, a) => a = b
    BY <1>1, PrefixNames, SeqEqual DEF Paths
  <1>5. IsPrefix(a, p) /\ IsPrefix(b, p) => IsPrefix(a, b) \/ IsPrefix(b, a)
    BY <1>1, PrefixNames
  <1> QED
    BY <1>2, <1>3, <1>4, <1>5

\* The same below a directory.
LEMMA PrefixBelow ==
    ASSUME NEW d \in Paths, NEW a \in Paths, NEW p \in Paths
    PROVE  /\ IsPrefix(d \o a, d \o p) <=> IsPrefix(a, p)
           /\ IsPrefix(a, p) => Below(d \o a, d \o p) = Below(a, p)
  <1> DEFINE x == d \o a
             y == d \o p
  <1>1. Len(d) \in Nat /\ Len(a) \in Nat /\ Len(p) \in Nat
    BY DEF Paths
  <1>2. /\ x \in Paths /\ Len(x) = Len(d) + Len(a)
        /\ \A i \in 1..Len(d) : x[i] = d[i]
        /\ \A i \in 1..Len(a) : x[i + Len(d)] = a[i]
    BY DEF Paths
  <1>3. /\ y \in Paths /\ Len(y) = Len(d) + Len(p)
        /\ \A i \in 1..Len(d) : y[i] = d[i]
        /\ \A i \in 1..Len(p) : y[i + Len(d)] = p[i]
    BY DEF Paths
  <1> HIDE DEF x, y
  <1>4. ASSUME IsPrefix(x, y) PROVE IsPrefix(a, p)
    <2>1. Len(x) <= Len(y) /\ \A i \in 1..Len(x) : x[i] = y[i]
      BY <1>2, <1>3, <1>4, PrefixNames
    <2>2. Len(a) <= Len(p)
      BY <1>1, <1>2, <1>3, <2>1
    <2>3. ASSUME NEW i \in 1..Len(a) PROVE a[i] = p[i]
      <3>1. i + Len(d) \in 1..Len(x) /\ i \in 1..Len(p)
        BY <1>1, <1>2, <2>2
      <3> QED
        BY <1>2, <1>3, <2>1, <3>1
    <2> QED
      BY <2>2, <2>3, PrefixNames
  <1>5. ASSUME IsPrefix(a, p) PROVE IsPrefix(x, y)
    <2>1. Len(a) <= Len(p) /\ \A i \in 1..Len(a) : a[i] = p[i]
      BY <1>5, PrefixNames
    <2>2. Len(x) <= Len(y)
      BY <1>1, <1>2, <1>3, <2>1
    <2>3. ASSUME NEW i \in 1..Len(x) PROVE x[i] = y[i]
      <3>1. CASE i <= Len(d)
        BY <1>1, <1>2, <1>3, <3>1
      <3>2. CASE i > Len(d)
        <4>1. i - Len(d) \in 1..Len(a) /\ i - Len(d) \in 1..Len(p) /\ (i - Len(d)) + Len(d) = i
          BY <1>1, <1>2, <2>1, <3>2
        <4> QED
          BY <1>2, <1>3, <2>1, <4>1
      <3> QED
        BY <1>1, <1>2, <3>1, <3>2
    <2> QED
      BY <1>2, <1>3, <2>2, <2>3, PrefixNames
  <1>6. ASSUME IsPrefix(a, p) PROVE Below(x, y) = Below(a, p)
    <2>1. Len(a) <= Len(p)
      BY <1>6, PrefixNames
    <2> DEFINE u == Below(x, y)
               v == Below(a, p)
               n == Len(p) - Len(a)
    <2>2. /\ u \in Paths /\ Len(u) = n
          /\ \A i \in 1..n : u[i] = y[i + Len(x)]
      <3>1. Len(x) <= Len(y) /\ Len(y) - Len(x) = n
        BY <1>1, <1>2, <1>3, <2>1
      <3> HIDE DEF n
      <3> QED
        BY <1>2, <1>3, <3>1, BelowNames
    <2>3. /\ v \in Paths /\ Len(v) = n
          /\ \A i \in 1..n : v[i] = p[i + Len(a)]
      BY <2>1, BelowNames
    <2>4. ASSUME NEW i \in 1..n PROVE y[i + Len(x)] = p[i + Len(a)]
      <3>1. i + Len(a) \in 1..Len(p) /\ (i + Len(a)) + Len(d) = i + Len(x)
        BY <1>1, <1>2, <2>1
      <3> QED
        BY <1>3, <3>1
    <2> HIDE DEF u, v
    <2>5. \A i \in 1..Len(u) : u[i] = v[i]
      <3> HIDE DEF n
      <3> QED
        BY <2>2, <2>3, <2>4
    <2> QED
      BY <2>2, <2>3, <2>5, SeqEqual DEF Paths, u, v
  <1> QED
    BY <1>4, <1>5, <1>6 DEF x, y

\* Associativity, and what is below a path further down.
LEMMA BelowInARow ==
    ASSUME NEW a \in Paths, NEW p \in Paths, NEW r \in Paths, IsPrefix(a, p)
    PROVE  IsPrefix(a, p \o r) /\ Below(a, p \o r) = Below(a, p) \o r
  <1>1. Below(a, p) \in Paths /\ p = a \o Below(a, p)
    BY PrefixAndBelow
  <1> DEFINE b == Below(a, p)
  <1> HIDE DEF b
  <1>2. (a \o b) \o r = a \o (b \o r) /\ b \o r \in Paths
    BY <1>1, ConcatAssociative DEF Paths, b
  <1>3. p \o r = a \o (b \o r)
    BY <1>1, <1>2 DEF b
  <1> DEFINE c == b \o r
  <1>4. c \in Paths /\ p \o r = a \o c
    BY <1>2, <1>3
  <1> HIDE DEF c
  <1>5. IsPrefix(a, a \o c) /\ Below(a, a \o c) = c
    BY <1>4, PathsInARow
  <1> QED
    BY <1>4, <1>5 DEF b, c

-----------------------------------------------------------------------------
(* Mount tables.                                                           *)

FileSystems == STRING \cup {"tmpfs"}

Mounts == [at : Paths, fs : FileSystems, root : Paths, ro : BOOLEAN]

\* A mount table: a list of mounts, one of them that of the root.
Table(t) == t \in Seq(Mounts) /\ \E i \in DOMAIN t : t[i].at = <<>>

\* The i-th mount is the last of a table that covers a path.
Topmost(t, q, i) ==
    /\ i \in DOMAIN t /\ IsPrefix(t[i].at, q)
    /\ \A j \in DOMAIN t : IsPrefix(t[j].at, q) => j <= i

\* A nonempty set of positions has a greatest one.
LEMMA GreatestIn ==
    ASSUME NEW n \in Nat, NEW s \in SUBSET (1..n), s # {}
    PROVE  Max(s) \in s /\ \A y \in s : Max(s) >= y
  <1> DEFINE T == {n - i : i \in s}
  <1>0. \A i \in s : i \in Nat /\ n - i \in Nat
    OBVIOUS
  <1>1. T \in SUBSET Nat /\ T # {}
    BY <1>0
  <1>2. PICK x \in T : \A y \in T : x <= y
    <2> HIDE DEF T
    <2> QED
      BY <1>1, HasMin
  <1>3. PICK i \in s : x = n - i
    BY <1>2
  <1>4. \A j \in s : i >= j
    <2> TAKE j \in s
    <2>1. n - j \in T
      OBVIOUS
    <2>2. n - i <= n - j /\ i \in Nat /\ j \in Nat
      BY <1>0, <1>2, <1>3, <2>1
    <2> HIDE DEF T
    <2> QED
      BY <2>2
  <1> QED
    BY <1>3, <1>4 DEF Max

\* What is in a list of mounts.
LEMMA MountsAre ==
    ASSUME NEW t \in Seq(Mounts)
    PROVE  /\ Len(t) \in Nat /\ DOMAIN t = 1..Len(t)
           /\ \A i \in DOMAIN t :
                 /\ t[i] \in Mounts
                 /\ t[i].at \in Paths /\ t[i].root \in Paths
                 /\ t[i].fs \in FileSystems /\ t[i].ro \in BOOLEAN
  <1>1. Len(t) \in Nat /\ DOMAIN t = 1..Len(t) /\ \A i \in DOMAIN t : t[i] \in Mounts
    OBVIOUS
  <1>2. \A m \in Mounts : m.at \in Paths /\ m.root \in Paths /\ m.fs \in FileSystems /\ m.ro \in BOOLEAN
    BY DEF Mounts
  <1> QED
    BY <1>1, <1>2

\* Every path is covered, and Covering is the last mount that covers it.
LEMMA LastExists ==
    ASSUME NEW t, Table(t), NEW q \in Paths PROVE \E i : Topmost(t, q, i)
  <1>1. t \in Seq(Mounts)
    BY DEF Table
  <1>2. Len(t) \in Nat /\ DOMAIN t = 1..Len(t)
    BY <1>1, MountsAre
  <1> DEFINE C == {i \in DOMAIN t : IsPrefix(t[i].at, q)}
  <1>3. C \in SUBSET (1..Len(t)) /\ C # {}
    <2>1. PICK i \in DOMAIN t : t[i].at = <<>>
      BY DEF Table
    <2>2. <<>> \in Paths
      BY DEF Paths
    <2> QED
      BY <1>2, <2>1, <2>2, PrefixOrder
  <1>4. Max(C) \in C /\ \A y \in C : Max(C) >= y
    <2> HIDE DEF C
    <2> QED
      BY <1>2, <1>3, GreatestIn
  <1> DEFINE m == Max(C)
  <1>5. m \in C /\ \A y \in C : m >= y
    BY <1>4
  <1> HIDE DEF m
  <1>6. \A j \in DOMAIN t : IsPrefix(t[j].at, q) => j \in C /\ j <= m
    BY <1>2, <1>5
  <1>7. Topmost(t, q, m)
    BY <1>5, <1>6 DEF Topmost
  <1> QED
    BY <1>7

\* The topmost mount over a path is the one that covers it.
LEMMA LastCovers ==
    ASSUME NEW t \in Seq(Mounts), NEW q, NEW i, Topmost(t, q, i) PROVE Covering(t, q) = t[i]
  <1>1. Len(t) \in Nat /\ DOMAIN t = 1..Len(t)
    BY MountsAre
  <1> DEFINE C == {j \in DOMAIN t : IsPrefix(t[j].at, q)}
             m == Max(C)
  <1>2. C \in SUBSET (1..Len(t)) /\ C # {} /\ i \in C /\ \A j \in C : j <= i
    BY <1>1 DEF Topmost
  <1>3. m \in C /\ \A y \in C : m >= y
    <2> HIDE DEF C
    <2> QED
      BY <1>1, <1>2, GreatestIn
  <1>4. Covering(t, q) = t[m]
    BY DEF Covering
  <1> HIDE DEF m, C
  <1>5. m >= i /\ m <= i /\ m \in Nat /\ i \in Nat
    BY <1>1, <1>2, <1>3
  <1> QED
    BY <1>4, <1>5

\* What is seen through the mount that covers a path.
LEMMA SeenLast ==
    ASSUME NEW t, Table(t), NEW q \in Paths
    PROVE  \E i \in DOMAIN t :
              /\ Topmost(t, q, i) /\ Covering(t, q) = t[i] /\ t[i] \in Mounts
              /\ IsPrefix(t[i].at, q) /\ Below(t[i].at, q) \in Paths
              /\ Seen(t, q) = <<t[i].fs, t[i].root \o Below(t[i].at, q)>>
              /\ Seen(t, q)[1] = t[i].fs /\ Seen(t, q)[2] = t[i].root \o Below(t[i].at, q)
              /\ Seen(t, q)[1] \in FileSystems /\ Seen(t, q)[2] \in Paths
  <1>1. t \in Seq(Mounts)
    BY DEF Table
  <1>2. PICK i : Topmost(t, q, i)
    BY LastExists
  <1>3. i \in DOMAIN t /\ Covering(t, q) = t[i] /\ IsPrefix(t[i].at, q)
    BY <1>1, <1>2, LastCovers DEF Topmost
  <1>4. t[i].at \in Paths /\ t[i].root \in Paths /\ t[i].fs \in FileSystems /\ t[i] \in Mounts
    BY <1>1, <1>3, MountsAre
  <1>5. Below(t[i].at, q) \in Paths
    BY <1>3, <1>4, PrefixAndBelow
  <1>6. Seen(t, q) = <<t[i].fs, t[i].root \o Below(t[i].at, q)>>
    BY <1>3 DEF Seen
  <1>7. t[i].root \o Below(t[i].at, q) \in Paths
    BY <1>4, <1>5, PathsInARow
  <1>8. /\ Seen(t, q)[1] = t[i].fs /\ Seen(t, q)[2] = t[i].root \o Below(t[i].at, q)
        /\ Seen(t, q)[1] \in FileSystems /\ Seen(t, q)[2] \in Paths
    <2> DEFINE s == Seen(t, q)
               x == t[i].fs
               y == t[i].root \o Below(t[i].at, q)
    <2>1. s = <<x, y>>
      BY <1>6
    <2> HIDE DEF s, x, y
    <2>2. s[1] = x /\ s[2] = y
      BY <2>1
    <2> USE DEF s, x, y
    <2> QED
      BY Zenon, <1>4, <1>7, <2>2
  <1> QED
    BY <1>2, <1>3, <1>4, <1>5, <1>6, <1>8

\* A list of mounts that begins like another, as far as content goes, and
\* goes on with mounts at or below a path.
Same(m, n) == m.at = n.at /\ m.fs = n.fs /\ m.root = n.root

Grows(t, u, to) ==
    /\ u \in Seq(Mounts) /\ Len(t) <= Len(u)
    /\ \A i \in 1..Len(t) : Same(u[i], t[i])
    /\ \A i \in (Len(t) + 1)..Len(u) : IsPrefix(to, u[i].at)

\* It is a table as well.
LEMMA GrowsTable ==
    ASSUME NEW t, Table(t), NEW u, NEW to, Grows(t, u, to) PROVE Table(u)
  <1>1. t \in Seq(Mounts) /\ u \in Seq(Mounts)
    BY DEF Table, Grows
  <1>2. /\ Len(t) \in Nat /\ DOMAIN t = 1..Len(t)
        /\ Len(u) \in Nat /\ DOMAIN u = 1..Len(u)
    BY <1>1, MountsAre
  <1>3. PICK i \in DOMAIN t : t[i].at = <<>>
    BY DEF Table
  <1>4. i \in DOMAIN u /\ u[i].at = <<>>
    BY <1>2, <1>3 DEF Grows, Same
  <1> QED
    BY <1>1, <1>4 DEF Table

\* Elsewhere all is seen as before.
LEMMA GrowsSeen ==
    ASSUME NEW t, Table(t), NEW u, NEW to \in Paths, Grows(t, u, to),
           NEW q \in Paths,
           \A i \in (Len(t) + 1)..Len(u) : ~ IsPrefix(u[i].at, q)
    PROVE  Seen(u, q) = Seen(t, q)
  <1>1. t \in Seq(Mounts) /\ u \in Seq(Mounts)
    BY DEF Table, Grows
  <1>2. /\ Len(t) \in Nat /\ DOMAIN t = 1..Len(t)
        /\ Len(u) \in Nat /\ DOMAIN u = 1..Len(u)
    BY <1>1, MountsAre
  <1>3. PICK i \in DOMAIN t :
           Topmost(t, q, i) /\ Seen(t, q) = <<t[i].fs, t[i].root \o Below(t[i].at, q)>>
    BY SeenLast
  <1>4. Len(t) <= Len(u) /\ \A j \in 1..Len(t) : u[j].at = t[j].at /\ u[j].fs = t[j].fs
                                                /\ u[j].root = t[j].root
    BY DEF Grows, Same
  <1>5. \A j \in DOMAIN u : IsPrefix(u[j].at, q) => j \in DOMAIN t /\ IsPrefix(t[j].at, q)
    <2> TAKE j \in DOMAIN u
    <2>1. j \in 1..Len(t) \/ j \in (Len(t) + 1)..Len(u)
      BY <1>2, <1>4
    <2> QED
      BY <1>2, <1>4, <2>1
  <1>6. Topmost(u, q, i)
    <2>1. i \in DOMAIN u
      BY <1>2, <1>4
    <2> QED
      BY <1>2, <1>3, <1>4, <1>5, <2>1 DEF Topmost
  <1>7. Covering(u, q) = u[i]
    BY <1>1, <1>6, LastCovers
  <1>8. u[i].at = t[i].at /\ u[i].fs = t[i].fs /\ u[i].root = t[i].root
    BY <1>2, <1>3, <1>4
  <1>9. Seen(u, q) = <<u[i].fs, u[i].root \o Below(u[i].at, q)>>
    BY <1>7 DEF Seen
  <1> QED
    BY <1>3, <1>8, <1>9

\* In particular at the paths that are not below the new mounts.
LEMMA GrowsElsewhere ==
    ASSUME NEW t, Table(t), NEW u, NEW to \in Paths, Grows(t, u, to),
           NEW q \in Paths, ~ IsPrefix(to, q)
    PROVE  Seen(u, q) = Seen(t, q)
  <1>1. u \in Seq(Mounts) /\ Len(t) \in Nat /\ t \in Seq(Mounts)
    BY DEF Table, Grows
  <1>2. ASSUME NEW i \in (Len(t) + 1)..Len(u) PROVE ~ IsPrefix(u[i].at, q)
    <2>1. IsPrefix(to, u[i].at)
      BY DEF Grows
    <2>2. i \in DOMAIN u
      BY <1>1, MountsAre
    <2>3. u[i].at \in Paths
      BY <1>1, <2>2, MountsAre
    <2> QED
      BY <2>1, <2>3, PrefixOrder
  <1> QED
    BY <1>2, GrowsSeen

-----------------------------------------------------------------------------
(* Mounts that come along.                                                 *)

\* A mount that has come along.
Moved(from, to, m) == [m EXCEPT !.at = to \o Below(from, m.at)]

\* What u shows at r below "to": the first k mounts of ms that are in S have
\* come along to t from "from".
Shows(u, S, from, to, t, ms, k, r) ==
    /\ u \in Seq(Mounts) /\ Len(t) <= Len(u)
    /\ \A i \in 1..Len(t) : u[i] = t[i]
    /\ \A i \in (Len(t) + 1)..Len(u) : IsPrefix(to, u[i].at)
    /\ (\A i \in 1..k : ms[i] \in S => ~ IsPrefix(ms[i].at, from \o r)) =>
          \A j \in (Len(t) + 1)..Len(u) : ~ IsPrefix(u[j].at, to \o r)
    /\ \A i \in 1..k :
          /\ ms[i] \in S /\ IsPrefix(ms[i].at, from \o r)
          /\ \A j \in 1..k : j > i /\ ms[j] \in S => ~ IsPrefix(ms[j].at, from \o r)
          => \E j \in (Len(t) + 1)..Len(u) :
                Topmost(u, to \o r, j) /\ u[j] = Moved(from, to, ms[i])

\* A mount that comes along covers what it covered.
LEMMA MovedCovers ==
    ASSUME NEW from \in Paths, NEW to \in Paths, NEW m \in Mounts, IsPrefix(from, m.at),
           NEW r \in Paths
    PROVE  /\ Moved(from, to, m) \in Mounts
           /\ Moved(from, to, m).at = to \o Below(from, m.at)
           /\ Moved(from, to, m).fs = m.fs /\ Moved(from, to, m).root = m.root
           /\ IsPrefix(to, Moved(from, to, m).at)
           /\ IsPrefix(Moved(from, to, m).at, to \o r) <=> IsPrefix(m.at, from \o r)
  <1> DEFINE b == Below(from, m.at)
             n == Moved(from, to, m)
  <1>1. m.at \in Paths
    BY DEF Mounts
  <1>2. b \in Paths /\ m.at = from \o b
    BY <1>1, PrefixAndBelow
  <1>3. to \o b \in Paths /\ IsPrefix(to, to \o b)
    BY <1>2, PathsInARow
  <1>4. n \in Mounts /\ n.at = to \o b /\ n.fs = m.fs /\ n.root = m.root
    BY <1>3 DEF Mounts, Moved
  <1>5. IsPrefix(to \o b, to \o r) <=> IsPrefix(b, r)
    BY <1>2, PrefixBelow
  <1>6. IsPrefix(from \o b, from \o r) <=> IsPrefix(b, r)
    BY <1>2, PrefixBelow
  <1>7. IsPrefix(n.at, to \o r) <=> IsPrefix(m.at, from \o r)
    BY <1>2, <1>4, <1>5, <1>6
  <1> QED
    BY <1>3, <1>4, <1>7

\* One mount more.
LEMMA ShowsOneMore ==
    ASSUME NEW from \in Paths, NEW to \in Paths, NEW t \in Seq(Mounts), NEW ms \in Seq(Mounts),
           NEW S, \A m \in S : IsPrefix(from, m.at), NEW r \in Paths,
           NEW k \in 1..Len(ms), NEW u, Shows(u, S, from, to, t, ms, k - 1, r)
    PROVE  Shows(AddOne(S, from, to, u, ms[k]), S, from, to, t, ms, k, r)
  <1>1. u \in Seq(Mounts) /\ Len(u) \in Nat /\ Len(t) \in Nat /\ Len(t) <= Len(u)
        /\ DOMAIN u = 1..Len(u)
    <2>1. u \in Seq(Mounts) /\ Len(t) <= Len(u)
      BY DEF Shows
    <2> QED
      BY <2>1, MountsAre
  <1>2. Len(ms) \in Nat /\ ms[k] \in Mounts
    BY MountsAre
  <1>3. k \in Nat /\ \A i \in 1..k : i = k \/ i \in 1..(k - 1)
    BY <1>2
  <1>a. \A i \in 1..(k - 1) : i \in 1..k /\ i < k /\ i # k
    BY <1>2
  <1> DEFINE m == ms[k]
             n == Moved(from, to, m)
             v == AddOne(S, from, to, u, m)
             q == to \o r
             Hit(i) == ms[i] \in S /\ IsPrefix(ms[i].at, from \o r)
  <1>4. CASE m \notin S
    <2>1. v = u
      BY <1>4 DEF AddOne
    <2>2. \A i \in 1..k : Hit(i) => i \in 1..(k - 1)
      BY <1>3, <1>4
    <2> QED
      BY <1>a, <2>1, <2>2 DEF Shows
  <1>5. CASE m \in S
    <2>1. v = Append(u, n)
      BY <1>5 DEF AddOne, Moved
    <2>2. n \in Mounts /\ IsPrefix(to, n.at) /\ (IsPrefix(n.at, q) <=> IsPrefix(m.at, from \o r))
      BY <1>2, <1>5, MovedCovers
    <2> HIDE DEF n, v, q, m
    <2>3. /\ v \in Seq(Mounts) /\ Len(v) = Len(u) + 1 /\ v[Len(u) + 1] = n
          /\ \A i \in 1..Len(u) : v[i] = u[i]
      BY <1>1, <2>1, <2>2
    <2>4. DOMAIN v = 1..Len(v)
      BY <2>3
    <2>5. /\ Len(t) <= Len(v) /\ Len(u) + 1 \in (Len(t) + 1)..Len(v)
          /\ \A i \in 1..Len(t) : i \in 1..Len(u)
          /\ \A i \in (Len(t) + 1)..Len(v) : i = Len(u) + 1 \/ i \in (Len(t) + 1)..Len(u)
          /\ \A i \in (Len(t) + 1)..Len(u) : i \in 1..Len(u) /\ i \in (Len(t) + 1)..Len(v)
      BY <1>1, <2>3
    <2>6. /\ \A i \in 1..Len(t) : v[i] = t[i]
          /\ \A i \in (Len(t) + 1)..Len(v) : IsPrefix(to, v[i].at)
      BY <2>2, <2>3, <2>5 DEF Shows
    <2>7. ASSUME \A i \in 1..k : ~ Hit(i), NEW j \in (Len(t) + 1)..Len(v)
          PROVE  ~ IsPrefix(v[j].at, q)
      <3>1. ~ IsPrefix(n.at, q)
        BY <1>2, <1>5, <2>2, <2>7 DEF m
      <3>2. \A i \in (Len(t) + 1)..Len(u) : ~ IsPrefix(u[i].at, q)
        BY <1>a, <2>7 DEF Shows, q
      <3> QED
        BY <2>3, <2>5, <3>1, <3>2
    <2>8. ASSUME NEW i \in 1..k, Hit(i), \A j \in 1..k : j > i => ~ Hit(j)
          PROVE  \E j \in (Len(t) + 1)..Len(v) :
                    Topmost(v, q, j) /\ v[j] = Moved(from, to, ms[i])
      <3>1. CASE i = k
        <4>1. IsPrefix(n.at, q) /\ n = Moved(from, to, ms[i])
          BY <2>2, <2>8, <3>1 DEF n, m
        <4>2. Topmost(v, q, Len(u) + 1)
          BY <1>1, <2>3, <2>4, <4>1 DEF Topmost
        <4> QED
          BY <2>3, <2>5, <4>1, <4>2
      <3>2. CASE i # k
        <4>1. i \in 1..(k - 1) /\ k \in 1..k /\ k > i
          BY <1>2, <1>3, <3>2
        <4>2. ~ IsPrefix(n.at, q)
          BY <1>5, <2>2, <2>8, <4>1 DEF m
        <4>3. PICK j \in (Len(t) + 1)..Len(u) :
                 Topmost(u, q, j) /\ u[j] = Moved(from, to, ms[i])
          BY <1>a, <2>8, <4>1 DEF Shows, q
        <4>4. j \in (Len(t) + 1)..Len(v) /\ j \in 1..Len(u) /\ v[j] = u[j]
          BY <2>3, <2>5
        <4>5. Topmost(v, q, j)
          <5>1. j \in DOMAIN v /\ IsPrefix(v[j].at, q)
            BY <1>1, <2>3, <2>4, <4>3, <4>4 DEF Topmost
          <5>2. ASSUME NEW l \in DOMAIN v, IsPrefix(v[l].at, q) PROVE l <= j
            <6>a. l \in 1..Len(v) /\ Len(v) = Len(u) + 1 /\ Len(u) \in Nat
              BY <1>1, <2>3, <2>4
            <6>1. l \in 1..Len(u) \/ l = Len(u) + 1
              BY <6>a
            <6>2. l \in DOMAIN u /\ IsPrefix(u[l].at, q)
              BY <1>1, <2>3, <4>2, <5>2, <6>1
            <6> QED
              BY <4>3, <6>2 DEF Topmost
          <5> QED
            BY <5>1, <5>2 DEF Topmost
        <4> QED
          BY <4>3, <4>4, <4>5
      <3> QED
        BY <3>1, <3>2
    <2>9. Len(t) <= Len(v) /\ v \in Seq(Mounts)
      BY <2>3, <2>5
    <2>10. Shows(v, S, from, to, t, ms, k, r)
      BY <2>6, <2>7, <2>8, <2>9 DEF Shows, q
    <2> QED
      BY <2>10 DEF v, m
  <1> QED
    BY <1>4, <1>5

\* AddAll, mount by mount.
Adding(g, S, from, to, t, ms, n) ==
    g = [s \in SUBSET (1..n) |->
            IF s = {} THEN t ELSE AddOne(S, from, to, g[s \ {Max(s)}], ms[Max(s)])]

\* The last of n positions is the greatest; without it n - 1 are left.
LEMMA GreatestPosition ==
    ASSUME NEW n \in Nat, n # 0
    PROVE  /\ \A s \in SUBSET (1..n) : n \in s => Max(s) = n
           /\ \A s \in SUBSET (1..n) : n \notin s => s \in SUBSET (1..(n - 1))
           /\ \A s \in SUBSET (1..n) : n \in s => s \ {n} \in SUBSET (1..(n - 1))
           /\ Max(1..n) = n /\ (1..n) \ {n} = 1..(n - 1) /\ n - 1 \in Nat
  <1>1. ASSUME NEW s \in SUBSET (1..n), n \in s PROVE Max(s) = n
    <2> DEFINE m == Max(s)
    <2>1. m \in s /\ \A y \in s : m >= y
      BY <1>1, GreatestIn
    <2> HIDE DEF m
    <2>2. m >= n /\ m \in 1..n
      BY <1>1, <2>1
    <2>3. m = n
      BY <2>2
    <2> QED
      BY <2>3 DEF m
  <1>2. n \in 1..n /\ 1..n \in SUBSET (1..n)
    OBVIOUS
  <1> QED
    BY <1>1, <1>2

\* FoldLeft of AddAll as a function of the mounts that have been looked at.
LEMMA AddingExists ==
    ASSUME NEW S, NEW from, NEW to, NEW t, NEW ms, NEW n \in Nat
    PROVE  \E g : Adding(g, S, from, to, t, ms, n)
  <1> DEFINE Good(k) == \E g : Adding(g, S, from, to, t, ms, k)
             Bad == {k \in Nat : ~ Good(k)}
  <1>1. SUFFICES ASSUME Bad # {} PROVE FALSE
    OBVIOUS
  <1>2. PICK k \in Bad : \A l \in Bad : k <= l
    BY <1>1, HasMin
  <1>3. CASE k = 0
    <2> DEFINE g == [s \in SUBSET (1..0) |-> t]
    <2>1. SUBSET (1..0) = {{}}
      OBVIOUS
    <2>2. Adding(g, S, from, to, t, ms, 0)
      BY <2>1 DEF Adding
    <2> QED
      BY <1>2, <1>3, <2>2
  <1>4. CASE k # 0
    <2>1. k \in Nat /\ k - 1 \in Nat /\ k - 1 \notin Bad
      BY <1>2, <1>4
    <2>2. PICK f : Adding(f, S, from, to, t, ms, k - 1)
      BY <2>1
    <2> HIDE DEF Bad
    <2> DEFINE g == [s \in SUBSET (1..k) |->
                        IF k \in s THEN AddOne(S, from, to, f[s \ {k}], ms[k]) ELSE f[s]]
    <2>3. ASSUME NEW s \in SUBSET (1..k)
          PROVE  g[s] = IF s = {} THEN t
                        ELSE AddOne(S, from, to, g[s \ {Max(s)}], ms[Max(s)])
      <3>1. CASE k \in s
        <4>1. Max(s) = k /\ s \ {k} \in SUBSET (1..(k - 1)) /\ s # {}
          BY <1>4, <2>1, <3>1, GreatestPosition
        <4>2. s \ {k} \in SUBSET (1..k) /\ k \notin s \ {k}
          OBVIOUS
        <4>3. g[s] = AddOne(S, from, to, f[s \ {k}], ms[k]) /\ g[s \ {k}] = f[s \ {k}]
          BY <3>1, <4>2
        <4> QED
          BY <4>1, <4>3
      <3>2. CASE k \notin s
        <4>1. s \in SUBSET (1..(k - 1)) /\ g[s] = f[s]
          BY <1>4, <2>1, <3>2, GreatestPosition
        <4>2. f[s] = IF s = {} THEN t ELSE AddOne(S, from, to, f[s \ {Max(s)}], ms[Max(s)])
          BY <2>2, <4>1 DEF Adding
        <4>3. s \ {Max(s)} \in SUBSET (1..k) /\ k \notin s \ {Max(s)}
          BY <3>2
        <4>4. g[s \ {Max(s)}] = f[s \ {Max(s)}]
          BY <4>3
        <4> QED
          BY <4>1, <4>2, <4>4
      <3> QED
        BY <3>1, <3>2
    <2>4. g = [s \in SUBSET (1..k) |-> g[s]]
      OBVIOUS
    <2> HIDE DEF g
    <2>5. Adding(g, S, from, to, t, ms, k)
      BY <2>3, <2>4 DEF Adding
    <2> QED
      BY <1>2, <2>5 DEF Bad
  <1> QED
    BY <1>3, <1>4

\* What AddAll shows.
LEMMA AddAllShows ==
    ASSUME NEW from \in Paths, NEW to \in Paths, NEW t \in Seq(Mounts), NEW ms \in Seq(Mounts),
           NEW S, \A m \in S : IsPrefix(from, m.at), NEW r \in Paths
    PROVE  Shows(AddAll(S, from, to, t, ms), S, from, to, t, ms, Len(ms), r)
  <1> DEFINE n == Len(ms)
             g == CHOOSE g : Adding(g, S, from, to, t, ms, n)
  <1>1. n \in Nat /\ DOMAIN ms = 1..n
    BY MountsAre
  <1>2. AddAll(S, from, to, t, ms) = g[1..n]
    BY <1>1 DEF AddAll, FoldLeft, MapThenFoldSet, Adding
  <1>3. Adding(g, S, from, to, t, ms, n)
    BY <1>1, AddingExists
  <1> HIDE DEF g
  <1>4. \A s \in SUBSET (1..n) :
            g[s] = IF s = {} THEN t ELSE AddOne(S, from, to, g[s \ {Max(s)}], ms[Max(s)])
    BY <1>3 DEF Adding
  <1> DEFINE Fine(k) == Shows(g[1..k], S, from, to, t, ms, k, r)
             Bad == {k \in 0..n : ~ Fine(k)}
  <1>5. Fine(0)
    <2>1. 1..0 = {} /\ {} \in SUBSET (1..n)
      OBVIOUS
    <2>2. g[1..0] = t
      BY <1>4, <2>1
    <2>3. Len(t) \in Nat
      BY MountsAre
    <2>4. Shows(t, S, from, to, t, ms, 0, r)
      BY <2>3 DEF Shows
    <2> QED
      BY <2>2, <2>4
  <1>6. ASSUME Bad # {} PROVE FALSE
    <2>1. Bad \in SUBSET Nat
      BY <1>1
    <2>2. PICK k \in Bad : \A l \in Bad : k <= l
      <3> HIDE DEF Bad
      <3> QED
        BY <1>6, <2>1, HasMin
    <2> HIDE DEF Fine
    <2>3. k \in 0..n /\ k # 0 /\ ~ Fine(k)
      BY <1>5, <2>2
    <2>4. k \in 1..n /\ k \in Nat /\ k - 1 \in 0..n /\ ~ (k <= k - 1)
      BY <1>1, <2>3
    <2>5. Fine(k - 1)
      BY <2>2, <2>4
    <2> USE DEF Fine
    <2> HIDE DEF Bad
    <2>6. Max(1..k) = k /\ (1..k) \ {k} = 1..(k - 1)
      BY <2>3, <2>4, GreatestPosition
    <2>7. 1..k \in SUBSET (1..n) /\ 1..k # {}
      <3> HIDE DEF n
      <3>1. n \in Nat /\ k \in 1..n
        BY <1>1, <2>4
      <3>2. \A i \in 1..k : i \in 1..n
        BY <3>1
      <3>3. 1 \in 1..k
        BY <3>1
      <3> QED
        BY <3>2, <3>3
    <2>8. g[1..k] = AddOne(S, from, to, g[1..(k - 1)], ms[k])
      BY <1>4, <2>6, <2>7
    <2> DEFINE u == g[1..(k - 1)]
    <2>9. Shows(u, S, from, to, t, ms, k - 1, r)
      BY <2>5
    <2> HIDE DEF u
    <2>10. Shows(AddOne(S, from, to, u, ms[k]), S, from, to, t, ms, k, r)
      BY <2>4, <2>9, ShowsOneMore
    <2> QED
      BY <2>3, <2>8, <2>10 DEF u
  <1>7. n \in 0..n
    BY <1>1
  <1>8. Fine(n)
    BY <1>6, <1>7
  <1> QED
    BY <1>2, <1>8

\* The parts of a pair.
LEMMA PairParts == ASSUME NEW s, NEW x, NEW y, s = <<x, y>> PROVE s[1] = x /\ s[2] = y
  OBVIOUS

\* What is further below, when no mount lies between.
Further(s, r) == <<s[1], s[2] \o r>>

\* What is seen further below the mount that covers a path.
LEMMA SeenFurther ==
    ASSUME NEW t, Table(t), NEW from \in Paths, NEW r \in Paths,
           NEW i, Topmost(t, from \o r, i), IsPrefix(t[i].at, from)
    PROVE  Seen(t, from \o r) = Further(Seen(t, from), r)
  <1>1. t \in Seq(Mounts) /\ i \in DOMAIN t
    BY DEF Table, Topmost
  <1>2. t[i].at \in Paths /\ t[i].root \in Paths
    BY <1>1, MountsAre
  <1>3. \A j \in DOMAIN t : t[j].at \in Paths
    BY <1>1, MountsAre
  <1>4. from \o r \in Paths /\ IsPrefix(from, from \o r)
    BY PathsInARow
  <1>5. \A j \in DOMAIN t : IsPrefix(t[j].at, from) => IsPrefix(t[j].at, from \o r)
    BY <1>3, <1>4, PrefixOrder
  <1>6. Topmost(t, from, i)
    BY <1>1, <1>5 DEF Topmost
  <1>7. Covering(t, from) = t[i] /\ Covering(t, from \o r) = t[i]
    BY <1>1, <1>6, LastCovers
  <1>8. Below(t[i].at, from \o r) = Below(t[i].at, from) \o r
    BY <1>2, BelowInARow
  <1>9. Below(t[i].at, from) \in Paths
    BY <1>2, PrefixAndBelow
  <1>10. t[i].root \o (Below(t[i].at, from) \o r) = (t[i].root \o Below(t[i].at, from)) \o r
    <2> DEFINE a == t[i].root
               b == Below(t[i].at, from)
    <2> HIDE DEF a, b
    <2>1. a \in Seq(Names) /\ b \in Seq(Names) /\ r \in Seq(Names)
      BY <1>2, <1>9 DEF a, b, Paths
    <2>2. a \o (b \o r) = (a \o b) \o r
      BY <2>1, ConcatAssociative
    <2> QED
      BY <2>2 DEF a, b
  <1> DEFINE f == t[i].fs
             x == t[i].root \o Below(t[i].at, from)
  <1>11. Seen(t, from) = <<f, x>>
    BY <1>7 DEF Seen
  <1>12. Seen(t, from \o r) = <<f, x \o r>>
    BY <1>7, <1>8, <1>10 DEF Seen
  <1> HIDE DEF f, x
  <1>13. Seen(t, from)[1] = f /\ Seen(t, from)[2] = x
    BY <1>11, PairParts
  <1> QED
    BY <1>12, <1>13 DEF Further

\* A mount that is added.
LEMMA AppendShows ==
    ASSUME NEW t, Table(t), NEW n \in Mounts, NEW r \in Paths
    PROVE  /\ Grows(t, Append(t, n), n.at) /\ Len(Append(t, n)) = Len(t) + 1
           /\ Append(t, n)[Len(t) + 1] = n
           /\ Seen(Append(t, n), n.at \o r) = <<n.fs, n.root \o r>>
  <1>1. t \in Seq(Mounts) /\ n.at \in Paths
    BY DEF Table, Mounts
  <1>2. Len(t) \in Nat /\ DOMAIN t = 1..Len(t)
    BY <1>1, MountsAre
  <1> DEFINE u == Append(t, n)
             q == n.at \o r
  <1>3. /\ u \in Seq(Mounts) /\ Len(u) = Len(t) + 1 /\ u[Len(t) + 1] = n
        /\ \A i \in 1..Len(t) : u[i] = t[i]
    BY <1>1
  <1>4. IsPrefix(n.at, n.at) /\ IsPrefix(n.at, q) /\ Below(n.at, q) = r
    BY <1>1, PrefixOrder, PathsInARow
  <1> HIDE DEF u, q
  <1>5. Len(t) <= Len(u) /\ \A i \in (Len(t) + 1)..Len(u) : i = Len(t) + 1
    BY <1>2, <1>3
  <1>6. Grows(t, u, n.at)
    BY <1>3, <1>4, <1>5 DEF Grows, Same
  <1>7. Topmost(u, q, Len(t) + 1)
    <2>1. DOMAIN u = 1..(Len(t) + 1)
      BY <1>3
    <2>2. Len(t) + 1 \in DOMAIN u /\ \A j \in DOMAIN u : j <= Len(t) + 1
      BY <1>2, <2>1
    <2> QED
      BY <1>3, <1>4, <2>2 DEF Topmost
  <1>8. Covering(u, q) = n
    BY <1>3, <1>7, LastCovers
  <1>9. Seen(u, q) = <<n.fs, n.root \o r>>
    BY <1>4, <1>8 DEF Seen
  <1> QED
    BY <1>3, <1>6, <1>9 DEF u, q

\* The mount of Bind itself.
LEMMA BoundShows ==
    ASSUME NEW t, Table(t), NEW from \in Paths, NEW to \in Paths, NEW r \in Paths,
           NEW n, n = [at |-> to, fs |-> Seen(t, from)[1], root |-> Seen(t, from)[2],
                       ro |-> ReadOnly(t, from)]
    PROVE  /\ n \in Mounts /\ n.at = to
           /\ Grows(t, Append(t, n), to) /\ Len(Append(t, n)) = Len(t) + 1
           /\ Append(t, n)[Len(t) + 1] = n
           /\ Seen(Append(t, n), to \o r) = Further(Seen(t, from), r)
  <1>1. /\ Seen(t, from)[1] \in FileSystems /\ Seen(t, from)[2] \in Paths
        /\ Covering(t, from) \in Mounts
    BY SeenLast
  <1>2. ReadOnly(t, from) \in BOOLEAN
    BY <1>1 DEF ReadOnly, Mounts
  <1>3. n \in Mounts /\ n.at = to /\ n.fs = Seen(t, from)[1] /\ n.root = Seen(t, from)[2]
    <2> DEFINE x == Seen(t, from)[1]
               y == Seen(t, from)[2]
               z == ReadOnly(t, from)
    <2>1. x \in FileSystems /\ y \in Paths /\ z \in BOOLEAN /\ n = [at |-> to, fs |-> x, root |-> y, ro |-> z]
      BY <1>1, <1>2
    <2> HIDE DEF x, y, z
    <2>2. n \in Mounts /\ n.at = to /\ n.fs = x /\ n.root = y
      BY <2>1 DEF Mounts
    <2> QED
      BY <2>2 DEF x, y
  <1> QED
    BY <1>3, AppendShows DEF Further

\* What a bind mount shows: what was there, at a single mount no more than
\* the mount that was seen at the source.
LEMMA BindShows ==
    ASSUME NEW t, Table(t), NEW from \in Paths, NEW to \in Paths, NEW rec \in BOOLEAN,
           NEW r \in Paths
    PROVE  /\ Grows(t, Bind(t, from, to, rec), to)
           /\ Len(t) + 1 \in DOMAIN Bind(t, from, to, rec)
           /\ Bind(t, from, to, rec)[Len(t) + 1].at = to
           /\ Seen(Bind(t, from, to, rec), to \o r) =
                 IF rec THEN Seen(t, from \o r) ELSE Further(Seen(t, from), r)
  <1> DEFINE n == [at |-> to, fs |-> Seen(t, from)[1], root |-> Seen(t, from)[2],
                   ro |-> ReadOnly(t, from)]
             b == Append(t, n)
             S == Reached(t, from)
             u == AddAll(S, from, to, b, t)
             q == to \o r
             p == from \o r
  <1>1. Bind(t, from, to, rec) = IF rec THEN u ELSE b
    BY DEF Bind
  <1>2. /\ n \in Mounts /\ n.at = to /\ Grows(t, b, to) /\ Len(b) = Len(t) + 1
        /\ b[Len(t) + 1] = n
        /\ Seen(b, q) = Further(Seen(t, from), r)
    BY BoundShows
  <1>3. t \in Seq(Mounts) /\ b \in Seq(Mounts) /\ Len(t) \in Nat /\ DOMAIN t = 1..Len(t)
        /\ DOMAIN b = 1..Len(b)
    <2>1. t \in Seq(Mounts) /\ b \in Seq(Mounts)
      BY <1>2 DEF Table, Grows
    <2> QED
      BY <2>1, MountsAre
  <1> HIDE DEF b, n
  <1>4. CASE ~ rec
    <2>1. Len(t) + 1 \in DOMAIN b
      BY <1>2, <1>3
    <2> QED
      BY <1>1, <1>2, <1>4, <2>1
  <1>5. CASE rec
    <2>1. \A m \in S : IsPrefix(from, m.at)
      BY DEF Reached, IsStrictPrefix
    <2>2. Shows(u, S, from, to, b, t, Len(t), r)
      BY <1>3, <2>1, AddAllShows
    <2> HIDE DEF u, S
    <2>3. /\ u \in Seq(Mounts) /\ Len(b) <= Len(u) /\ Len(u) \in Nat /\ DOMAIN u = 1..Len(u)
          /\ \A i \in 1..Len(b) : u[i] = b[i]
          /\ \A i \in (Len(b) + 1)..Len(u) : IsPrefix(to, u[i].at)
      <3>1. /\ u \in Seq(Mounts) /\ Len(b) <= Len(u)
            /\ \A i \in 1..Len(b) : u[i] = b[i]
            /\ \A i \in (Len(b) + 1)..Len(u) : IsPrefix(to, u[i].at)
        BY <2>2 DEF Shows
      <3> QED
        BY <3>1, MountsAre
    <2>4. Grows(b, u, to)
      BY <2>3 DEF Grows, Same
    <2>5. Table(b) /\ Table(u)
      BY <1>2, <2>4, GrowsTable
    <2>6. Grows(t, u, to)
      <3>1. IsPrefix(to, to)
        BY PrefixOrder
      <3>2. Len(t) <= Len(u) /\ \A i \in 1..Len(t) : i \in 1..Len(b)
        BY <1>2, <1>3, <2>3
      <3>3. \A i \in (Len(t) + 1)..Len(u) :
               i = Len(t) + 1 \/ i \in (Len(b) + 1)..Len(u)
        BY <1>2, <1>3, <2>3
      <3>4. Len(t) + 1 \in 1..Len(b)
        BY <1>2, <1>3
      <3>5. \A i \in (Len(t) + 1)..Len(u) : IsPrefix(to, u[i].at)
        BY <1>2, <2>3, <3>1, <3>3, <3>4
      <3>6. \A i \in 1..Len(t) : Same(u[i], t[i])
        BY <1>2, <2>3, <3>2 DEF Grows, Same
      <3> QED
        BY <2>3, <3>2, <3>5, <3>6 DEF Grows
    <2>7. Len(t) + 1 \in DOMAIN u /\ u[Len(t) + 1].at = to
      <3>1. Len(t) + 1 \in 1..Len(b) /\ Len(t) + 1 \in 1..Len(u)
        BY <1>2, <1>3, <2>3
      <3> QED
        BY <1>2, <2>3, <3>1
    <2>8. p \in Paths /\ q \in Paths /\ IsPrefix(from, p)
      BY PathsInARow
    <2>9. PICK i \in DOMAIN t :
             /\ Topmost(t, p, i) /\ t[i] \in Mounts /\ IsPrefix(t[i].at, p)
             /\ Seen(t, p) = <<t[i].fs, t[i].root \o Below(t[i].at, p)>>
      BY <2>8, SeenLast
    <2>10. \A j \in DOMAIN t : t[j].at \in Paths /\ t[j] \in Mounts
      BY <1>3, MountsAre
    \* Who covers a path above p at which the i-th mount is, too.
    <2>11. ASSUME NEW a \in Paths, IsPrefix(a, p), IsPrefix(t[i].at, a)
           PROVE  Covering(t, a) = t[i]
      <3>1. \A j \in DOMAIN t : IsPrefix(t[j].at, a) => IsPrefix(t[j].at, p)
        BY <2>8, <2>10, <2>11, PrefixOrder
      <3>2. Topmost(t, a, i)
        BY <2>9, <2>11, <3>1 DEF Topmost
      <3> QED
        BY <1>3, <3>2, LastCovers
    <2>12. ASSUME IsStrictPrefix(from, t[i].at) PROVE Seen(u, q) = Seen(t, p)
      <3>1. IsPrefix(t[i].at, t[i].at)
        BY <2>10, PrefixOrder
      <3>2. t[i] \in S
        <4>1. Covering(t, t[i].at) = t[i]
          BY <2>9, <2>10, <2>11, <3>1
        <4> QED
          BY <2>12, <4>1 DEF S, Reached, ToSet
      <3>3. \A j \in 1..Len(t) : j > i /\ t[j] \in S => ~ IsPrefix(t[j].at, p)
        BY <1>3, <2>9 DEF Topmost
      <3>4. PICK j \in (Len(b) + 1)..Len(u) :
               Topmost(u, q, j) /\ u[j] = Moved(from, to, t[i])
        BY <1>3, <2>2, <2>9, <3>2, <3>3 DEF Shows
      <3>5. Covering(u, q) = u[j]
        BY <2>3, <3>4, LastCovers
      <3>6. IsPrefix(from, t[i].at)
        BY <2>12 DEF IsStrictPrefix
      <3> DEFINE c == Below(from, t[i].at)
      <3>7. c \in Paths /\ t[i].at = from \o c
        BY <2>10, <3>6, PrefixAndBelow
      <3>8. /\ u[j].at = to \o c /\ u[j].fs = t[i].fs /\ u[j].root = t[i].root
        BY <2>9, <3>4, <3>6, MovedCovers
      <3> HIDE DEF c
      <3>9. IsPrefix(c, r)
        BY <2>9, <3>7, PrefixBelow
      <3>10. Below(to \o c, q) = Below(c, r) /\ Below(from \o c, p) = Below(c, r)
        BY <3>7, <3>9, PrefixBelow
      <3> HIDE DEF q, p
      <3> QED
        BY <2>9, <3>5, <3>7, <3>8, <3>10 DEF Seen
    <2>13. ASSUME ~ IsStrictPrefix(from, t[i].at) PROVE Seen(u, q) = Seen(t, p)
      <3>1. IsPrefix(t[i].at, from)
        BY <2>8, <2>9, <2>10, <2>13, PrefixOrder DEF IsStrictPrefix
      <3>2. ASSUME NEW j \in 1..Len(t), t[j] \in S PROVE ~ IsPrefix(t[j].at, p)
        <4>1. IsStrictPrefix(from, t[j].at) /\ Covering(t, t[j].at) = t[j]
          BY <3>2 DEF S, Reached
        <4>2. t[j].at \in Paths /\ t[i].at \in Paths
          BY <1>3, <2>10
        <4>3. IsPrefix(t[i].at, t[j].at)
          BY <3>1, <4>1, <4>2, PrefixOrder DEF IsStrictPrefix
        <4>4. IsPrefix(t[j].at, p) => t[i] = t[j]
          BY <2>11, <4>1, <4>2, <4>3
        <4> QED
          BY <2>13, <4>1, <4>4
      <3>3. \A j \in (Len(b) + 1)..Len(u) : ~ IsPrefix(u[j].at, q)
        BY <2>2, <3>2 DEF Shows
      <3>4. Seen(u, q) = Seen(b, q)
        BY <2>4, <2>5, <2>8, <3>3, GrowsSeen
      <3>5. Seen(t, p) = Further(Seen(t, from), r)
        BY <2>9, <3>1, SeenFurther
      <3> QED
        BY <1>2, <3>4, <3>5
    <2> QED
      BY <1>1, <1>5, <2>6, <2>7, <2>12, <2>13
  <1> QED
    BY <1>4, <1>5

\* A bind mount of a directory with nothing mounted below shows just that.
LEMMA NothingBetween ==
    ASSUME NEW t, Table(t), NEW from \in Paths, NEW r \in Paths,
           \A i \in DOMAIN t : ~ IsStrictPrefix(from, t[i].at)
    PROVE  Seen(t, from \o r) = Further(Seen(t, from), r)
  <1>1. from \o r \in Paths /\ IsPrefix(from, from \o r)
    BY PathsInARow
  <1>2. PICK i \in DOMAIN t : Topmost(t, from \o r, i) /\ IsPrefix(t[i].at, from \o r) /\ t[i] \in Mounts
    BY <1>1, SeenLast
  <1>3. t[i].at \in Paths
    BY <1>2 DEF Mounts
  <1>4. IsPrefix(t[i].at, from)
    BY <1>1, <1>2, <1>3, PrefixOrder DEF IsStrictPrefix
  <1> QED
    BY <1>2, <1>4, SeenFurther

\* A mount that is mounted again shows what it did.
LEMMA RemountShows ==
    ASSUME NEW t, Table(t), NEW at, NEW ro \in BOOLEAN, NEW to \in Paths
    PROVE  /\ Grows(t, Remount(t, at, ro), to) /\ Len(Remount(t, at, ro)) = Len(t)
           /\ \A q \in Paths : Seen(Remount(t, at, ro), q) = Seen(t, q)
  <1>1. t \in Seq(Mounts) /\ Len(t) \in Nat /\ DOMAIN t = 1..Len(t)
    BY MountsAre DEF Table
  <1> DEFINE i == Max({j \in DOMAIN t : t[j].at = at})
             u == Remount(t, at, ro)
  <1>2. u = [j \in DOMAIN t |-> IF j = i THEN [t[j] EXCEPT !.ro = ro] ELSE t[j]]
    BY DEF Remount
  <1> HIDE DEF i, u
  <1>3. ASSUME NEW j \in DOMAIN t PROVE u[j] \in Mounts /\ Same(u[j], t[j])
    <2>1. t[j] \in Mounts
      BY <1>1
    <2>2. [t[j] EXCEPT !.ro = ro] \in Mounts /\ Same([t[j] EXCEPT !.ro = ro], t[j])
      BY <2>1 DEF Mounts, Same
    <2>3. Same(t[j], t[j])
      BY DEF Same
    <2>4. u[j] = [t[j] EXCEPT !.ro = ro] \/ u[j] = t[j]
      BY <1>2
    <2> QED
      BY <2>1, <2>2, <2>3, <2>4
  <1>4. u \in [1..Len(t) -> Mounts]
    BY <1>1, <1>2, <1>3
  <1>5. u \in Seq(Mounts) /\ Len(u) = Len(t)
    BY <1>1, <1>4
  <1>6. Grows(t, u, to)
    BY <1>1, <1>3, <1>5 DEF Grows
  <1>7. ASSUME NEW q \in Paths PROVE Seen(u, q) = Seen(t, q)
    <2>1. \A k \in (Len(t) + 1)..Len(u) : ~ IsPrefix(u[k].at, q)
      BY <1>1, <1>5
    <2> QED
      BY <1>6, <2>1, GrowsSeen
  <1> QED
    BY <1>5, <1>6, <1>7 DEF u

\* All mounts after the first l are at the root or below, and one is there.
RootedAfter(t, l) ==
    /\ \A i \in DOMAIN t : i > l => IsPrefix(Root, t[i].at)
    /\ \E i \in DOMAIN t : i > l /\ t[i].at = Root

\* What is seen below the root is what is seen once the root is pivoted.
LEMMA PivotShows ==
    ASSUME NEW t, Table(t), Root \in Paths, NEW l \in Nat, RootedAfter(t, l)
    PROVE  /\ Table(Pivot(t, Root))
           /\ \A p \in Paths : Seen(Pivot(t, Root), p) = Seen(t, Root \o p)
  <1>1. t \in Seq(Mounts) /\ Len(t) \in Nat /\ DOMAIN t = 1..Len(t)
    BY MountsAre DEF Table
  <1> DEFINE T == {i \in DOMAIN t : t[i].at = Root}
             top == Max(T)
             ms == SubSeq(t, top, Len(t))
             S == {m \in ToSet(t) : IsPrefix(Root, m.at)}
             u == AddAll(S, Root, <<>>, <<>>, ms)
  <1>2. Pivot(t, Root) = u
    BY DEF Pivot
  <1>3. T \in SUBSET (1..Len(t)) /\ T # {} /\ \E i \in T : i > l
    BY <1>1 DEF RootedAfter
  <1>4. top \in T /\ \A y \in T : top >= y
    <2> HIDE DEF T
    <2> QED
      BY <1>1, <1>3, GreatestIn
  <1> HIDE DEF top
  <1>5. top \in 1..Len(t) /\ t[top].at = Root /\ top > l
    <2>1. top \in Nat
      BY <1>1, <1>4
    <2> QED
      BY <1>1, <1>3, <1>4, <2>1
  <1>6. /\ ms \in Seq(Mounts) /\ Len(ms) = Len(t) - top + 1
        /\ \A k \in 1..Len(ms) : ms[k] = t[top + k - 1]
    <2> HIDE DEF T
    <2> QED
      BY <1>1, <1>5
  <1>7. \A k \in 1..Len(ms) : top + k - 1 \in DOMAIN t /\ top + k - 1 >= top
    BY <1>1, <1>5, <1>6
  <1>8. \A i \in DOMAIN t : i >= top => IsPrefix(Root, t[i].at) /\ t[i] \in S
    BY <1>1, <1>5 DEF RootedAfter, ToSet
  <1>9. \A m \in S : IsPrefix(Root, m.at)
    OBVIOUS
  <1>10. <<>> \in Paths /\ <<>> \in Seq(Mounts) /\ Len(<<>>) = 0 /\ \A p \in Paths : <<>> \o p = p
    BY DEF Paths
  <1> HIDE DEF T, ms, u, S
  <1>11. ASSUME NEW p \in Paths
         PROVE  Shows(u, S, Root, <<>>, <<>>, ms, Len(ms), p)
    BY <1>6, <1>9, <1>10, AddAllShows DEF u
  <1>12. u \in Seq(Mounts) /\ Len(u) \in Nat /\ DOMAIN u = 1..Len(u)
    <2>1. u \in Seq(Mounts)
      BY <1>10, <1>11 DEF Shows
    <2> QED
      BY <2>1, MountsAre
  <1>13. ASSUME NEW p \in Paths
         PROVE  \E j \in DOMAIN u : Topmost(u, p, j) /\ Seen(u, p) = Seen(t, Root \o p)
    <2> DEFINE q == Root \o p
    <2>1. q \in Paths /\ IsPrefix(Root, q)
      BY PathsInARow
    <2>2. PICK i \in DOMAIN t :
             /\ Topmost(t, q, i) /\ t[i] \in Mounts /\ IsPrefix(t[i].at, q)
             /\ Seen(t, q) = <<t[i].fs, t[i].root \o Below(t[i].at, q)>>
      BY <2>1, SeenLast
    <2>3. i >= top
      BY <1>1, <1>5, <2>1, <2>2 DEF Topmost
    <2>4. IsPrefix(Root, t[i].at) /\ t[i] \in S
      BY <1>8, <2>3
    <2> DEFINE k == i - top + 1
    <2>5. k \in 1..Len(ms) /\ top + k - 1 = i
      BY <1>1, <1>5, <1>6, <2>3
    <2> HIDE DEF k
    <2>6. ms[k] = t[i]
      BY <1>6, <2>5
    <2>7. \A j \in 1..Len(ms) : j > k => ~ IsPrefix(ms[j].at, q)
      <3> TAKE j \in 1..Len(ms)
      <3>1. j > k => top + j - 1 > i
        BY <1>1, <1>5, <1>6, <2>5
      <3>2. top + j - 1 \in DOMAIN t /\ ms[j] = t[top + j - 1]
        BY <1>6, <1>7
      <3>3. IsPrefix(ms[j].at, q) => top + j - 1 <= i
        BY <2>2, <3>2 DEF Topmost
      <3>4. i \in Nat /\ top + j - 1 \in Nat
        BY <1>1, <3>2
      <3> QED
        BY <3>1, <3>3, <3>4
    <2>8. PICK j \in (Len(<<>>) + 1)..Len(u) :
             Topmost(u, <<>> \o p, j) /\ u[j] = Moved(Root, <<>>, ms[k])
      BY <1>11, <2>2, <2>4, <2>5, <2>6, <2>7 DEF Shows
    <2>9. Topmost(u, p, j) /\ u[j] = Moved(Root, <<>>, t[i]) /\ j \in DOMAIN u
      BY <1>10, <2>6, <2>8 DEF Topmost
    <2>10. Covering(u, p) = u[j]
      BY <1>12, <2>9, LastCovers
    <2> DEFINE c == Below(Root, t[i].at)
    <2>11. t[i].at \in Paths
      BY <2>2 DEF Mounts
    <2>12. c \in Paths /\ t[i].at = Root \o c
      BY <2>4, <2>11, PrefixAndBelow
    <2>13. u[j].at = c /\ u[j].fs = t[i].fs /\ u[j].root = t[i].root
      <3>1. <<>> \o c = c
        BY <1>10, <2>12
      <3>2. <<>> \in Paths /\ p \in Paths
        BY <1>10
      <3> DEFINE e == Moved(Root, <<>>, t[i])
      <3>3. e.at = <<>> \o c /\ e.fs = t[i].fs /\ e.root = t[i].root
        BY <2>2, <2>4, <3>2, MovedCovers
      <3> QED
        BY <2>9, <3>1, <3>3
    <2> HIDE DEF c
    <2>14. IsPrefix(c, p)
      BY <2>2, <2>12, PrefixBelow
    <2>15. Below(Root \o c, q) = Below(c, p)
      BY <2>12, <2>14, PrefixBelow
    <2> HIDE DEF q
    <2>16. Seen(u, p) = Seen(t, q)
      BY <2>2, <2>10, <2>12, <2>13, <2>15 DEF Seen
    <2> QED
      BY <2>9, <2>16 DEF q
  <1>14. Table(u)
    <2>1. PICK j \in DOMAIN u : Topmost(u, <<>>, j)
      BY <1>10, <1>13
    <2>2. u[j].at \in Paths /\ IsPrefix(u[j].at, <<>>)
      BY <1>12, <2>1, MountsAre DEF Topmost
    <2>3. u[j].at = <<>>
      BY <1>10, <2>2, PrefixOrder
    <2> QED
      BY <1>12, <2>3 DEF Table
  <1> QED
    BY <1>2, <1>13, <1>14

-----------------------------------------------------------------------------
(* What the calls of init_rootfs put where.                                *)

\* The calls of init_rootfs: all that is mounted is mounted below the root.
RootfsCalls ==
    {c \in [op : {"bind"}, from : Paths, to : Paths, rec : BOOLEAN] : IsPrefix(Root, c.to)}
    \cup {c \in [op : {"mount"}, fs : FileSystems, to : Paths, ro : BOOLEAN] : IsPrefix(Root, c.to)}
    \cup [op : {"remount"}, at : Paths, ro : BOOLEAN]
    \cup [op : {"mknod"}, at : Paths]
    \cup {propagation(s.propagation) : s \in Specs}
    \cup {refuse}

\* Whether something else is found at a path after a call.  Nothing comes
\* after one that is refused.
Covers(c, q) ==
    \/ c.op = "refuse"
    \/ c.op = "mount" /\ IsPrefix(c.to, q)
    \/ c.op = "bind" /\ IsPrefix(c.to, q) /\ ~ (c.from = c.to /\ c.rec)

\* And that v is.
Gives(c, q, v) ==
    \/ c.op = "refuse"
    \/ c.op = "mount" /\ v = <<c.fs, Below(c.to, q)>>
    \/ /\ c.op = "bind" /\ v = Further(Seen(AgentMounts, c.from), Below(c.to, q))
       /\ Apart(c.from, Root) /\ (c.rec => NothingBelow(c.from))

Leaves(cs, q) == \A i \in DOMAIN cs : ~ Covers(cs[i], q)

Puts(cs, q, v) ==
    \E i \in DOMAIN cs :
       /\ Covers(cs[i], q) /\ Gives(cs[i], q, v)
       /\ \A j \in DOMAIN cs : j > i => ~ Covers(cs[j], q)

Tends(cs, q, v) == Leaves(cs, q) \/ Puts(cs, q, v)

\* Calls in a row.
LEMMA CallsInARow ==
    ASSUME NEW S, NEW a \in Seq(S), NEW b \in Seq(S)
    PROVE  /\ a \o b \in Seq(S)
           /\ Len(a) \in Nat /\ Len(b) \in Nat
           /\ DOMAIN a = 1..Len(a) /\ DOMAIN b = 1..Len(b)
           /\ Len(a \o b) = Len(a) + Len(b) /\ DOMAIN (a \o b) = 1..(Len(a) + Len(b))
           /\ \A i \in DOMAIN a : i \in DOMAIN (a \o b) /\ (a \o b)[i] = a[i]
           /\ \A i \in DOMAIN b : i + Len(a) \in DOMAIN (a \o b) /\ (a \o b)[i + Len(a)] = b[i]
  OBVIOUS

\* What two lists of calls put, one after the other.
LEMMA TendsInARow ==
    ASSUME NEW S, NEW a \in Seq(S), NEW b \in Seq(S), NEW q, NEW v
    PROVE  /\ Leaves(a, q) /\ Leaves(b, q) => Leaves(a \o b, q)
           /\ Puts(a, q, v) /\ Leaves(b, q) => Puts(a \o b, q, v)
           /\ Puts(b, q, v) => Puts(a \o b, q, v)
           /\ Tends(a, q, v) /\ Tends(b, q, v) => Tends(a \o b, q, v)
  <1> DEFINE c == a \o b
             m == Len(a)
             n == Len(b)
  <1>1. /\ m \in Nat /\ n \in Nat /\ DOMAIN a = 1..m /\ DOMAIN b = 1..n /\ DOMAIN c = 1..(m + n)
        /\ \A i \in 1..m : i \in DOMAIN c /\ c[i] = a[i]
        /\ \A i \in 1..n : i + m \in DOMAIN c /\ c[i + m] = b[i]
    BY CallsInARow
  <1> HIDE DEF c, m, n
  <1>2. \A j \in DOMAIN c : j \in 1..m \/ (j - m \in 1..n /\ (j - m) + m = j /\ c[j] = b[j - m])
    <2> TAKE j \in DOMAIN c
    <2>1. j \in 1..m \/ (j - m \in 1..n /\ (j - m) + m = j)
      BY <1>1
    <2> QED
      BY <1>1, <2>1
  <1>3. Leaves(a, q) /\ Leaves(b, q) => Leaves(c, q)
    BY <1>1, <1>2 DEF Leaves
  <1>4. ASSUME Puts(a, q, v), Leaves(b, q) PROVE Puts(c, q, v)
    <2>1. PICK i \in 1..m : /\ Covers(a[i], q) /\ Gives(a[i], q, v)
                            /\ \A j \in 1..m : j > i => ~ Covers(a[j], q)
      BY <1>1, <1>4 DEF Puts
    <2>2. c[i] = a[i] /\ i \in DOMAIN c
      BY <1>1
    <2>3. \A j \in DOMAIN c : j > i => ~ Covers(c[j], q)
      BY <1>1, <1>2, <1>4, <2>1 DEF Leaves
    <2> QED
      BY <2>1, <2>2, <2>3 DEF Puts
  <1>5. ASSUME Puts(b, q, v) PROVE Puts(c, q, v)
    <2>1. PICK i \in 1..n : /\ Covers(b[i], q) /\ Gives(b[i], q, v)
                            /\ \A j \in 1..n : j > i => ~ Covers(b[j], q)
      BY <1>1, <1>5 DEF Puts
    <2>2. c[i + m] = b[i] /\ i + m \in DOMAIN c
      BY <1>1
    <2>3. ASSUME NEW j \in DOMAIN c, j > i + m PROVE ~ Covers(c[j], q)
      <3>1. j \notin 1..m
        BY <1>1, <2>3
      <3>2. j - m \in 1..n /\ c[j] = b[j - m] /\ j - m > i
        BY <1>1, <1>2, <2>3, <3>1
      <3> QED
        BY <2>1, <3>2
    <2> QED
      BY <2>1, <2>2, <2>3 DEF Puts
  <1>6. Tends(a, q, v) /\ Tends(b, q, v) => Tends(c, q, v)
    BY <1>3, <1>4, <1>5 DEF Tends
  <1> QED
    BY <1>3, <1>4, <1>5, <1>6 DEF c

\* Lists of calls in a row.
LEMMA FlattenTends ==
    ASSUME NEW S, NEW s, NEW n \in Nat, DOMAIN s = 1..n, Len(s) = n,
           \A i \in 1..n : s[i] \in Seq(S)
    PROVE  /\ FlattenSeq(s) \in Seq(S)
           /\ \A q, v :
                 /\ (\A i \in 1..n : Tends(s[i], q, v)) => Tends(FlattenSeq(s), q, v)
                 /\ (\A i \in 1..n : Leaves(s[i], q)) => Leaves(FlattenSeq(s), q)
                 /\ \A l \in 1..n :
                       Puts(s[l], q, v) /\ (\A i \in 1..n : i > l => Tends(s[i], q, v))
                       => Puts(FlattenSeq(s), q, v)
  <1> DEFINE Fine(k, f) ==
                /\ f \in Seq(S)
                /\ \A q, v :
                      /\ (\A i \in 1..k : Tends(s[i], q, v)) => Tends(f, q, v)
                      /\ (\A i \in 1..k : Leaves(s[i], q)) => Leaves(f, q)
                      /\ \A l \in 1..k :
                            Puts(s[l], q, v) /\ (\A i \in 1..k : i > l => Tends(s[i], q, v))
                            => Puts(f, q, v)
  <1>1. SUFFICES Fine(n, FlattenSeq(s))
    OBVIOUS
  <1>2. CASE n = 0
    <2>1. FlattenSeq(s) = <<>>
      BY <1>2 DEF FlattenSeq
    <2>2. <<>> \in Seq(S) /\ \A q : Leaves(<<>>, q)
      BY DEF Leaves
    <2>3. 1..n = {}
      BY <1>2
    <2> QED
      BY <2>1, <2>2, <2>3 DEF Tends
  <1>3. CASE n # 0
    <2> DEFINE f == CHOOSE f : Flattening(f, s, n)
    <2>1. FlattenSeq(s) = f[n]
      BY <1>3 DEF FlattenSeq, Flattening
    <2>2. Flattening(f, s, n)
      BY FlatteningExists
    <2> HIDE DEF f
    <2>3. \A i \in 1..n : f[i] = IF i = 1 THEN s[i] ELSE f[i - 1] \o s[i]
      BY <2>2 DEF Flattening
    <2>4. Fine(1, f[1])
      <3>1. 1 \in 1..n /\ \A i \in 1..1 : i = 1
        BY <1>3
      <3>2. f[1] = s[1] /\ 1 \in 1..1
        BY <2>3, <3>1
      <3> QED
        BY <3>1, <3>2 DEF Tends
    <2>5. ASSUME NEW k \in 1..n, k # 1, Fine(k - 1, f[k - 1]) PROVE Fine(k, f[k])
      <3> DEFINE a == f[k - 1]
                 b == s[k]
                 c == a \o b
      <3>1. f[k] = c
        BY <2>3, <2>5
      <3>2. a \in Seq(S) /\ b \in Seq(S)
        BY <2>5
      <3>3. \A i \in 1..k : i = k \/ i \in 1..(k - 1)
        OBVIOUS
      <3>4. \A i \in 1..(k - 1) : i \in 1..k /\ k > i
        OBVIOUS
      <3>5. k \in 1..k
        OBVIOUS
      <3>6. /\ \A q, v :
                 /\ (\A i \in 1..(k - 1) : Tends(s[i], q, v)) => Tends(a, q, v)
                 /\ (\A i \in 1..(k - 1) : Leaves(s[i], q)) => Leaves(a, q)
                 /\ \A l \in 1..(k - 1) :
                       Puts(s[l], q, v) /\ (\A i \in 1..(k - 1) : i > l => Tends(s[i], q, v))
                       => Puts(a, q, v)
        BY <2>5
      <3>7. \A q, v :
               /\ Leaves(a, q) /\ Leaves(b, q) => Leaves(c, q)
               /\ Puts(a, q, v) /\ Leaves(b, q) => Puts(c, q, v)
               /\ Puts(b, q, v) => Puts(c, q, v)
               /\ Tends(a, q, v) /\ Tends(b, q, v) => Tends(c, q, v)
        BY <3>2, TendsInARow
      <3>8. c \in Seq(S)
        BY <3>2
      <3> HIDE DEF Fine, a, c
      <3> SUFFICES ASSUME NEW q, NEW v
                   PROVE  /\ (\A i \in 1..k : Tends(s[i], q, v)) => Tends(c, q, v)
                          /\ (\A i \in 1..k : Leaves(s[i], q)) => Leaves(c, q)
                          /\ \A l \in 1..k :
                                Puts(s[l], q, v) /\ (\A i \in 1..k : i > l => Tends(s[i], q, v))
                                => Puts(c, q, v)
        BY <3>1, <3>8 DEF Fine
      <3>9. (\A i \in 1..k : Tends(s[i], q, v)) => Tends(c, q, v)
        BY <3>4, <3>5, <3>6, <3>7
      <3>10. (\A i \in 1..k : Leaves(s[i], q)) => Leaves(c, q)
        BY <3>4, <3>5, <3>6, <3>7
      <3>11. ASSUME NEW l \in 1..k, Puts(s[l], q, v),
                    \A i \in 1..k : i > l => Tends(s[i], q, v)
             PROVE  Puts(c, q, v)
        <4>1. CASE l = k
          BY <3>7, <3>11, <4>1
        <4>2. CASE l # k
          <5>1. l \in 1..(k - 1)
            BY <3>3, <4>2
          <5>2. Puts(a, q, v)
            BY <3>4, <3>6, <3>11, <5>1
          <5>3. Tends(b, q, v)
            BY <3>4, <3>5, <3>11, <5>1
          <5> QED
            BY <3>7, <5>2, <5>3 DEF Tends
        <4> QED
          BY <4>1, <4>2
      <3> QED
        BY <3>9, <3>10, <3>11
    <2>6. \A k \in 1..n : Fine(k, f[k])
      <3> DEFINE Bad == {k \in 1..n : ~ Fine(k, f[k])}
      <3> HIDE DEF Fine
      <3>1. ASSUME Bad # {} PROVE FALSE
        <4>1. Bad \in SUBSET Nat
          OBVIOUS
        <4>2. PICK k \in Bad : \A l \in Bad : k <= l
          <5> HIDE DEF Bad
          <5> QED
            BY <3>1, <4>1, HasMin
        <4>3. k \in 1..n /\ k # 1
          BY <2>4, <4>2
        <4>4. k - 1 \in 1..n /\ ~ (k <= k - 1)
          BY <4>3
        <4>5. Fine(k - 1, f[k - 1])
          BY <4>2, <4>4
        <4> QED
          BY <2>5, <4>2, <4>3, <4>5
      <3> QED
        BY <3>1
    <2> HIDE DEF Fine
    <2>7. n \in 1..n
      BY <1>3
    <2> QED
      BY <2>1, <2>6, <2>7
  <1> QED
    BY <1>2, <1>3

\* The guest, as it is assumed.
LEMMA GuestIs ==
    /\ AgentMounts \in Seq(Mounts) /\ Table(AgentMounts) /\ Root \in Paths
    /\ \A h \in Hierarchies :
          /\ h \in Names /\ CgroupOf[h] \in Paths
          /\ Apart(CgroupOf[h], Root) /\ NothingBelow(CgroupOf[h])
  <1> DEFINE Ms == [at : Seq(STRING), fs : STRING, root : Seq(STRING), ro : BOOLEAN]
  <1>1. \A S, T : S \subseteq T => Seq(S) \subseteq Seq(T)
    OBVIOUS
  <1>2. Seq(STRING) \subseteq Paths
    BY <1>1 DEF Paths, Names
  <1>3. Ms \subseteq Mounts
    BY <1>2 DEF Mounts, FileSystems
  <1>4. Seq(Ms) \subseteq Seq(Mounts)
    BY <1>1, <1>3
  <1> HIDE DEF Ms
  <1>5. /\ AgentMounts \in Seq(Ms) /\ \E i \in DOMAIN AgentMounts : AgentMounts[i].at = <<>>
        /\ Root \in Seq(STRING)
        /\ \A h \in Hierarchies :
             /\ h \in STRING /\ CgroupOf[h] \in Seq(STRING)
             /\ Apart(CgroupOf[h], Root) /\ NothingBelow(CgroupOf[h])
    BY GuestAssumption DEF Ms
  <1>6. AgentMounts \in Seq(Mounts) /\ Root \in Paths
    BY <1>2, <1>4, <1>5
  <1>7. \A h \in Hierarchies : h \in Names /\ CgroupOf[h] \in Paths
    BY <1>2, <1>5 DEF Names
  <1>8. Table(AgentMounts)
    BY <1>5, <1>6 DEF Table
  <1> QED
    BY <1>5, <1>6, <1>7, <1>8

\* A directory and one in it.
LEMMA NextName ==
    ASSUME NEW d \in Paths, NEW h \in Names, NEW p \in Paths
    PROVE  /\ Append(d, h) \in Paths /\ IsPrefix(d, Append(d, h))
           /\ ~ IsPrefix(d, p) => ~ IsPrefix(Append(d, h), p)
           /\ IsPrefix(d, p) =>
                 /\ IsPrefix(Append(d, h), p) <=> Below(d, p) # <<>> /\ Below(d, p)[1] = h
                 /\ Below(d, p) # <<>> /\ Below(d, p)[1] = h =>
                       Below(Append(d, h), p) = Tail(Below(d, p))
  <1> DEFINE e == <<h>>
             a == d \o e
  <1>1. e \in Paths /\ Len(e) = 1 /\ e[1] = h
    <2>1. \A S : \A x \in S : <<x>> \in Seq(S) /\ Len(<<x>>) = 1 /\ <<x>>[1] = x
      OBVIOUS
    <2> QED
      BY <2>1 DEF Paths
  <1>2. Append(d, h) = a
    <2>1. \A S : \A s \in Seq(S), x \in S : Append(s, x) = s \o <<x>>
      BY AppendIsConcat
    <2> QED
      BY <2>1 DEF Paths
  <1> HIDE DEF e
  <1>3. a \in Paths /\ IsPrefix(d, a)
    BY <1>1, PathsInARow
  <1>4. IsPrefix(a, p) => IsPrefix(d, p)
    <2> HIDE DEF a
    <2> QED
      BY <1>3, PrefixOrder
  <1>5. ASSUME IsPrefix(d, p)
        PROVE  /\ IsPrefix(a, p) <=> Below(d, p) # <<>> /\ Below(d, p)[1] = h
               /\ Below(d, p) # <<>> /\ Below(d, p)[1] = h => Below(a, p) = Tail(Below(d, p))
    <2> DEFINE r == Below(d, p)
    <2>1. r \in Paths /\ p = d \o r
      BY <1>5, PrefixAndBelow
    <2> HIDE DEF r
    <2>2. IsPrefix(a, d \o r) <=> IsPrefix(e, r)
      BY <1>1, <2>1, PrefixBelow
    <2>3. IsPrefix(e, r) => Below(a, d \o r) = Below(e, r)
      BY <1>1, <2>1, PrefixBelow
    <2>4. IsPrefix(e, r) <=> Len(e) <= Len(r) /\ \A i \in 1..Len(e) : e[i] = r[i]
      BY <1>1, <2>1, PrefixNames
    <2>5. Len(r) \in Nat /\ (r # <<>> <=> 1 <= Len(r))
      BY <2>1 DEF Paths
    <2>6. IsPrefix(e, r) <=> r # <<>> /\ r[1] = h
      <3>1. 1..Len(e) = {1}
        BY <1>1
      <3>2. (\A i \in 1..Len(e) : e[i] = r[i]) <=> r[1] = h
        BY <1>1, <3>1
      <3> QED
        BY <1>1, <2>4, <2>5, <3>2
    <2>7. r # <<>> => Below(e, r) = Tail(r)
      BY <1>1, <2>1 DEF Paths, Below
    <2> HIDE DEF a
    <2> QED
      BY <2>1, <2>2, <2>3, <2>6, <2>7 DEF r
  <1> HIDE DEF a
  <1> QED
    BY <1>2, <1>3, <1>4, <1>5

\* One call.
LEMMA OneCall ==
    ASSUME NEW c, NEW q, NEW v
    PROVE  /\ ~ Covers(c, q) => Leaves(<<c>>, q)
           /\ Covers(c, q) /\ Gives(c, q, v) => Puts(<<c>>, q, v)
           /\ Leaves(<<>>, q)
  <1>1. DOMAIN <<c>> = {1} /\ <<c>>[1] = c /\ DOMAIN <<>> = {} /\ ~ (1 > 1)
    OBVIOUS
  <1> QED
    BY <1>1 DEF Leaves, Puts

\* A remount covers nothing.
LEMMA RemountLeaves ==
    ASSUME NEW at \in Paths, NEW ro \in BOOLEAN, NEW q
    PROVE  <<remount(at, ro)>> \in Seq(RootfsCalls) /\ Leaves(<<remount(at, ro)>>, q)
  <1> DEFINE c == remount(at, ro)
  <1>1. c \in RootfsCalls /\ c.op = "remount"
    BY DEF remount, RootfsCalls
  <1> HIDE DEF c
  <1>2. ~ Covers(c, q)
    BY <1>1 DEF Covers
  <1>3. <<c>> \in Seq(RootfsCalls)
    BY <1>1
  <1> QED
    BY <1>2, <1>3, OneCall DEF c

\* What a single bind or mount puts below the root.
LEMMA BindPuts ==
    ASSUME NEW from \in Paths, NEW to \in Paths, NEW rec \in BOOLEAN, NEW p \in Paths
    PROVE  LET cs == <<bind(from, Root \o to, rec)>> IN
           /\ cs \in Seq(RootfsCalls)
           /\ ~ IsPrefix(to, p) => Leaves(cs, Root \o p)
           /\ IsPrefix(to, p) /\ Apart(from, Root) /\ (rec => NothingBelow(from)) =>
                 Puts(cs, Root \o p, ContentIn(from, Below(to, p)))
  <1> DEFINE d == Root \o to
             q == Root \o p
             c == bind(from, d, rec)
             v == ContentIn(from, Below(to, p))
  <1>1. Root \in Paths
    BY GuestIs
  <1>2. d \in Paths /\ IsPrefix(Root, d)
    BY <1>1, PathsInARow
  <1>3. (IsPrefix(d, q) <=> IsPrefix(to, p)) /\ (IsPrefix(to, p) => Below(d, q) = Below(to, p))
    BY <1>1, PrefixBelow
  <1> HIDE DEF d, q
  <1>4. c \in RootfsCalls /\ c.op = "bind" /\ c.from = from /\ c.to = d /\ c.rec = rec
    BY <1>2 DEF bind, RootfsCalls
  <1> HIDE DEF c
  <1>5. ~ IsPrefix(to, p) => ~ Covers(c, q)
    BY <1>3, <1>4 DEF Covers
  <1>6. ASSUME IsPrefix(to, p), Apart(from, Root), rec => NothingBelow(from)
        PROVE  Covers(c, q) /\ Gives(c, q, v)
    <2>1. from # d
      BY <1>2, <1>6 DEF Apart
    <2>2. v = Further(Seen(AgentMounts, from), Below(d, q))
      BY <1>3, <1>6 DEF Further, ContentIn
    <2> HIDE DEF v
    <2> QED
      BY <1>3, <1>4, <1>6, <2>1, <2>2 DEF Covers, Gives
  <1>7. <<c>> \in Seq(RootfsCalls)
    BY <1>4
  <1> HIDE DEF v
  <1> QED
    BY <1>5, <1>6, <1>7, OneCall DEF c, d, q, v

\* A file system that is mounted is found there.
LEMMA MountPuts ==
    ASSUME NEW fs \in FileSystems, NEW to \in Paths, NEW ro \in BOOLEAN, NEW p \in Paths
    PROVE  LET cs == <<mount(fs, Root \o to, ro)>> IN
           /\ cs \in Seq(RootfsCalls)
           /\ ~ IsPrefix(to, p) => Leaves(cs, Root \o p)
           /\ IsPrefix(to, p) => Puts(cs, Root \o p, <<fs, Below(to, p)>>)
  <1> DEFINE d == Root \o to
             q == Root \o p
             c == mount(fs, d, ro)
  <1>1. Root \in Paths
    BY GuestIs
  <1>2. d \in Paths /\ IsPrefix(Root, d)
    BY <1>1, PathsInARow
  <1>3. (IsPrefix(d, q) <=> IsPrefix(to, p)) /\ (IsPrefix(to, p) => Below(d, q) = Below(to, p))
    BY <1>1, PrefixBelow
  <1> HIDE DEF d, q
  <1>4. c \in RootfsCalls /\ c.op = "mount" /\ c.fs = fs /\ c.to = d
    BY <1>2 DEF mount, RootfsCalls
  <1> HIDE DEF c
  <1>5. ~ IsPrefix(to, p) => ~ Covers(c, q)
    BY <1>3, <1>4 DEF Covers
  <1>6. IsPrefix(to, p) => Covers(c, q) /\ Gives(c, q, <<fs, Below(to, p)>>)
    BY <1>3, <1>4 DEF Covers, Gives
  <1>7. <<c>> \in Seq(RootfsCalls)
    BY <1>4
  <1> QED
    BY <1>5, <1>6, <1>7, OneCall DEF c, d, q

\* Where a mount leads, with its flags.
MountContent(m, flags, rest) ==
    IF "BIND" \in flags THEN ContentIn(m.source, rest) ELSE <<m.type, rest>>

BindsGuest(m, flags) ==
    "BIND" \in flags => Apart(m.source, Root) /\ ("REC" \in flags => NothingBelow(m.source))

\* What mount_from puts below the destination.
LEMMA MountFromPuts ==
    ASSUME NEW m, NEW flags, m.destination \in Paths,
           "BIND" \in flags => m.source \in Paths,
           "BIND" \notin flags => m.type \in FileSystems,
           NEW p \in Paths
    PROVE  /\ mount_from(m, flags) \in Seq(RootfsCalls)
           /\ ~ IsPrefix(m.destination, p) => Leaves(mount_from(m, flags), Root \o p)
           /\ IsPrefix(m.destination, p) /\ BindsGuest(m, flags) =>
                 Puts(mount_from(m, flags), Root \o p,
                      MountContent(m, flags, Below(m.destination, p)))
  <1> DEFINE q == Root \o p
             d == m.destination
             ro == "RDONLY" \in flags
             rec == "REC" \in flags
             cs == mount_from(m, flags)
             v == MountContent(m, flags, Below(d, p))
  <1>1. Root \o d \in Paths
    BY GuestIs, PathsInARow
  <1>2. ro \in BOOLEAN /\ rec \in BOOLEAN
    OBVIOUS
  <1>3. CASE "BIND" \notin flags
    <2>1. cs = <<mount(m.type, Root \o d, ro)>>
      BY <1>3 DEF mount_from
    <2>2. v = <<m.type, Below(d, p)>>
      BY <1>3 DEF MountContent
    <2> HIDE DEF d, ro, cs, v
    <2> QED
      BY <1>2, <1>3, <2>1, <2>2, MountPuts DEF d, cs, v
  <1>4. CASE "BIND" \in flags
    <2> DEFINE first == <<bind(m.source, Root \o d, rec)>>
    <2>1. cs = first \o <<>> \/ cs = first \o <<remount(Root \o d, ro)>>
      BY <1>4 DEF mount_from
    <2>2. v = ContentIn(m.source, Below(d, p))
      BY <1>4 DEF MountContent
    <2>3. /\ first \in Seq(RootfsCalls)
          /\ ~ IsPrefix(d, p) => Leaves(first, q)
          /\ IsPrefix(d, p) /\ BindsGuest(m, flags) => Puts(first, q, v)
      BY <1>2, <1>4, <2>2, BindPuts DEF BindsGuest
    <2>4. PICK last \in Seq(RootfsCalls) : cs = first \o last /\ Leaves(last, q)
      <3> DEFINE x == <<remount(Root \o d, ro)>>
      <3>1. x \in Seq(RootfsCalls) /\ Leaves(x, q)
        BY <1>1, <1>2, RemountLeaves
      <3>2. <<>> \in Seq(RootfsCalls)
        OBVIOUS
      <3>3. Leaves(<<>>, q)
        BY OneCall
      <3> HIDE DEF x, first, q, cs
      <3> QED
        BY <2>1, <3>1, <3>2, <3>3 DEF x
    <2> HIDE DEF first, q, cs, v, d
    <2>5. first \o last \in Seq(RootfsCalls)
      BY <2>3
    <2>6. /\ Leaves(first, q) => Leaves(first \o last, q)
          /\ Puts(first, q, v) => Puts(first \o last, q, v)
      BY <2>3, <2>4, TendsInARow
    <2> QED
      BY <2>3, <2>4, <2>5, <2>6 DEF q, cs, v, d
  <1> QED
    BY <1>3, <1>4

\* Each hierarchy has one place in the list of them.
LEMMA HierarchiesPlaced ==
    LET all == SetToSeq(Hierarchies) IN
    /\ IsList(all) /\ Len(all) \in Nat /\ DOMAIN all = 1..Len(all)
    /\ \A i \in DOMAIN all : all[i] \in Hierarchies
    /\ \A i, j \in DOMAIN all : all[i] = all[j] => i = j
    /\ \A h \in Hierarchies : \E i \in DOMAIN all : all[i] = h
  <1> DEFINE n == Cardinality(Hierarchies)
             all == SetToSeq(Hierarchies)
  <1>1. n \in Nat /\ ExistsBijection(1..n, Hierarchies) /\ IsFiniteSet(Hierarchies)
    BY SpecsAssumption, FS_CardinalityType
  <1>2. PICK f : f \in [1..n -> Hierarchies] /\ IsInjective(f)
    BY <1>1 DEF ExistsBijection, Bijection, Injection, IsInjective
  <1>3. all \in [1..n -> Hierarchies] /\ IsInjective(all)
    BY <1>2 DEF SetToSeq
  <1>4. IsList(all)
    BY HierarchiesInOrder
  <1>5. Cardinality(1..n) = n
    <2>1. IF 1 > n THEN n = 0 ELSE n - 1 + 1 = n
      BY <1>1
    <2>2. 1 \in Int /\ n \in Int
      BY <1>1
    <2> HIDE DEF n
    <2> QED
      BY <2>1, <2>2, FS_Interval
  <1> HIDE DEF all
  <1>6. all \in Injection(1..n, Hierarchies)
    BY <1>3 DEF Injection, IsInjective
  <1>7. all \in Surjection(1..n, Hierarchies)
    BY <1>1, <1>5, <1>6, FS_Injection
  <1>8. DOMAIN all = 1..n /\ Len(all) = n
    BY <1>1, <1>3, <1>4 DEF IsList
  <1> QED
    BY <1>1, <1>3, <1>4, <1>7, <1>8 DEF IsInjective, Surjection, all

\* A cgroup mount puts a tmpfs, with the container's cgroups in it.
LEMMA MountCgroupsPuts ==
    ASSUME NEW m, NEW flags, m.destination \in Paths, NEW p \in Paths
    PROVE  LET cs   == mount_cgroups(m, flags)
               rest == Below(m.destination, p)
           IN  /\ cs \in Seq(RootfsCalls)
               /\ ~ IsPrefix(m.destination, p) => Leaves(cs, Root \o p)
               /\ IsPrefix(m.destination, p) /\ rest = <<>> =>
                     Puts(cs, Root \o p, <<"tmpfs", rest>>)
               /\ IsPrefix(m.destination, p) /\ rest # <<>> /\ rest[1] \in Hierarchies =>
                     Puts(cs, Root \o p, ContentIn(CgroupOf[rest[1]], Tail(rest)))
  <1> DEFINE one(h) == mount_from([type |-> "bind", source |-> CgroupOf[h],
                                   destination |-> Append(m.destination, h)],
                                  flags \cup {"REC", "BIND"})
             all    == SetToSeq(Hierarchies)
             parts  == [i \in DOMAIN all |-> one(all[i])]
             tmpfs  == [type |-> "tmpfs", destination |-> m.destination]
             first  == mount_from(tmpfs, {})
             last   == IF "RDONLY" \in flags THEN <<remount(Root \o m.destination, TRUE)>>
                       ELSE <<>>
             q      == Root \o p
             d      == m.destination
             rest   == Below(d, p)
             flat   == FlattenSeq(parts)
             n      == Len(all)
  <1>1. mount_cgroups(m, flags) = first \o flat \o last
    BY DEF mount_cgroups
  <1>2. first \in Seq(RootfsCalls) /\ (~ IsPrefix(d, p) => Leaves(first, q))
        /\ (IsPrefix(d, p) => Puts(first, q, <<"tmpfs", rest>>))
    <2>1. tmpfs.destination = d /\ tmpfs.type = "tmpfs" /\ tmpfs.destination \in Paths
          /\ tmpfs.type \in FileSystems /\ "BIND" \notin {}
      <3>1. tmpfs.destination = d /\ tmpfs.type = "tmpfs"
        OBVIOUS
      <3>2. d \in Paths /\ "BIND" \notin {}
        OBVIOUS
      <3>3. "tmpfs" \in FileSystems
        BY DEF FileSystems
      <3> HIDE DEF tmpfs
      <3> QED
        BY <3>1, <3>2, <3>3
    <2>2. BindsGuest(tmpfs, {}) /\ MountContent(tmpfs, {}, rest) = <<"tmpfs", rest>>
      BY <2>1 DEF BindsGuest, MountContent
    <2> HIDE DEF tmpfs, q, d, rest
    <2>3. /\ mount_from(tmpfs, {}) \in Seq(RootfsCalls)
          /\ ~ IsPrefix(tmpfs.destination, p) => Leaves(mount_from(tmpfs, {}), Root \o p)
          /\ IsPrefix(tmpfs.destination, p) /\ BindsGuest(tmpfs, {}) =>
                Puts(mount_from(tmpfs, {}), Root \o p,
                     MountContent(tmpfs, {}, Below(tmpfs.destination, p)))
      BY <2>1, MountFromPuts
    <2> QED
      BY <2>1, <2>2, <2>3 DEF q, rest
  <1>3. \A h \in Hierarchies :
           /\ one(h) \in Seq(RootfsCalls)
           /\ ~ IsPrefix(d, p) => Leaves(one(h), q)
           /\ IsPrefix(d, p) /\ ~ (rest # <<>> /\ rest[1] = h) => Leaves(one(h), q)
           /\ IsPrefix(d, p) /\ rest # <<>> /\ rest[1] = h =>
                 Puts(one(h), q, ContentIn(CgroupOf[h], Tail(rest)))
    <2> TAKE h \in Hierarchies
    <2> DEFINE b == [type |-> "bind", source |-> CgroupOf[h], destination |-> Append(d, h)]
               fl == flags \cup {"REC", "BIND"}
               e == Append(d, h)
    <2>1. /\ h \in Names /\ CgroupOf[h] \in Paths
          /\ Apart(CgroupOf[h], Root) /\ NothingBelow(CgroupOf[h])
      BY GuestIs
    <2>2. /\ e \in Paths /\ (~ IsPrefix(d, p) => ~ IsPrefix(e, p))
          /\ IsPrefix(d, p) =>
                /\ IsPrefix(e, p) <=> rest # <<>> /\ rest[1] = h
                /\ rest # <<>> /\ rest[1] = h => Below(e, p) = Tail(rest)
      BY <2>1, NextName
    <2>3. b.destination = e /\ b.source = CgroupOf[h] /\ "BIND" \in fl
      OBVIOUS
    <2>4. BindsGuest(b, fl) /\ MountContent(b, fl, Below(e, p)) = ContentIn(CgroupOf[h], Below(e, p))
      BY <2>1, <2>3 DEF BindsGuest, MountContent
    <2>5. b.destination \in Paths /\ ("BIND" \in fl => b.source \in Paths)
          /\ ("BIND" \notin fl => b.type \in FileSystems)
      BY <2>1, <2>2, <2>3
    <2>6. one(h) = mount_from(b, fl)
      OBVIOUS
    <2> HIDE DEF one, b, fl, e, rest, q, d
    <2>7. /\ mount_from(b, fl) \in Seq(RootfsCalls)
          /\ ~ IsPrefix(b.destination, p) => Leaves(mount_from(b, fl), Root \o p)
          /\ IsPrefix(b.destination, p) /\ BindsGuest(b, fl) =>
                Puts(mount_from(b, fl), Root \o p,
                     MountContent(b, fl, Below(b.destination, p)))
      BY <2>5, MountFromPuts
    <2> QED
      BY <2>2, <2>3, <2>4, <2>6, <2>7 DEF q
  <1>4. /\ n \in Nat /\ DOMAIN all = 1..n
        /\ \A i \in DOMAIN all : all[i] \in Hierarchies
        /\ \A i, j \in DOMAIN all : all[i] = all[j] => i = j
        /\ \A h \in Hierarchies : \E i \in DOMAIN all : all[i] = h
    BY HierarchiesPlaced
  <1>5. last \in Seq(RootfsCalls) /\ Leaves(last, q)
    <2>1. Root \o d \in Paths
      BY GuestIs, PathsInARow
    <2>2. <<remount(Root \o d, TRUE)>> \in Seq(RootfsCalls) /\ Leaves(<<remount(Root \o d, TRUE)>>, q)
      BY <2>1, RemountLeaves
    <2>3. <<>> \in Seq(RootfsCalls)
      OBVIOUS
    <2>4. Leaves(<<>>, q)
      BY OneCall
    <2> QED
      BY <2>2, <2>3, <2>4
  <1> HIDE DEF one, all, first, last, q, d, rest, n
  <1>6. /\ DOMAIN parts = 1..n /\ \A i \in 1..n : parts[i] = one(all[i])
        /\ Len(parts) = n
    <2>1. DOMAIN parts = 1..n /\ \A i \in 1..n : parts[i] = one(all[i])
      BY <1>4
    <2>2. parts \in Seq({one(all[i]) : i \in 1..n})
      BY <1>4
    <2> HIDE DEF parts
    <2> QED
      BY <1>4, <2>1, <2>2
  <1> HIDE DEF parts
  <1>7. \A i \in 1..n : parts[i] \in Seq(RootfsCalls)
    BY <1>3, <1>4, <1>6
  <1>8. /\ flat \in Seq(RootfsCalls)
        /\ \A x, v :
              /\ (\A i \in 1..n : Leaves(parts[i], x)) => Leaves(flat, x)
              /\ \A l \in 1..n :
                    Puts(parts[l], x, v) /\ (\A i \in 1..n : i > l => Tends(parts[i], x, v))
                    => Puts(flat, x, v)
    BY <1>4, <1>6, <1>7, FlattenTends
  <1> HIDE DEF flat
  <1> DEFINE cs == first \o flat \o last
             v1 == <<"tmpfs", rest>>
             v2 == ContentIn(CgroupOf[rest[1]], Tail(rest))
  <1>9. first \o flat \in Seq(RootfsCalls) /\ cs \in Seq(RootfsCalls)
    BY <1>2, <1>5, <1>8
  <1>10. ASSUME NEW v
         PROVE  /\ Leaves(first, q) /\ Leaves(flat, q) => Leaves(cs, q)
                /\ Puts(first, q, v) /\ Leaves(flat, q) => Puts(cs, q, v)
                /\ Puts(flat, q, v) => Puts(cs, q, v)
    <2> DEFINE a == first \o flat
    <2>1. /\ Leaves(first, q) /\ Leaves(flat, q) => Leaves(a, q)
          /\ Puts(first, q, v) /\ Leaves(flat, q) => Puts(a, q, v)
          /\ Puts(flat, q, v) => Puts(a, q, v)
      BY <1>2, <1>8, TendsInARow
    <2>2. a \in Seq(RootfsCalls)
      BY <1>9
    <2> HIDE DEF a
    <2>3. /\ Leaves(a, q) => Leaves(a \o last, q)
          /\ Puts(a, q, v) => Puts(a \o last, q, v)
      BY <1>5, <2>2, TendsInARow
    <2> QED
      BY <2>1, <2>3 DEF a
  <1>11. ~ IsPrefix(d, p) => Leaves(cs, q)
    <2>1. ~ IsPrefix(d, p) => \A i \in 1..n : Leaves(parts[i], q)
      BY <1>3, <1>4, <1>6
    <2> QED
      BY <1>2, <1>8, <1>10, <2>1
  <1>12. ASSUME IsPrefix(d, p), rest = <<>> PROVE Puts(cs, q, v1)
    <2>1. \A i \in 1..n : Leaves(parts[i], q)
      BY <1>3, <1>4, <1>6, <1>12
    <2> HIDE DEF cs
    <2> QED
      BY <1>2, <1>8, <1>10, <1>12, <2>1
  <1>13. ASSUME IsPrefix(d, p), rest # <<>>, rest[1] \in Hierarchies PROVE Puts(cs, q, v2)
    <2>1. PICK l \in 1..n : all[l] = rest[1]
      BY <1>4, <1>13
    <2>2. Puts(parts[l], q, v2)
      BY <1>3, <1>6, <1>13, <2>1
    <2>3. \A i \in 1..n : i # l => Leaves(parts[i], q)
      BY <1>3, <1>4, <1>6, <1>13, <2>1
    <2>4. \A i \in 1..n : i > l => i # l
      BY <1>4
    <2> HIDE DEF cs, v2
    <2>5. Puts(flat, q, v2)
      BY <1>8, <2>2, <2>3, <2>4 DEF Tends
    <2> QED
      BY <1>10, <2>5
  <1> HIDE DEF cs, flat
  <1> QED
    BY <1>1, <1>9, <1>11, <1>12, <1>13 DEF cs, q, d, rest

\* A mount of a specification takes its content from the guest, and is a
\* bind mount by its type if and only if it is one by its options.
FromGuest(m) ==
    m.type # "cgroup" =>
        LET flags == parse_mount(m.options) IN
        /\ m.type = "bind" <=> "BIND" \in flags
        /\ BindsGuest(m, flags)

\* What the specification says of a path that the mount m leads to.
ContentOf(m, rest) ==
    CASE m.type = "bind"                  -> ContentIn(m.source, rest)
      [] m.type = "cgroup" /\ rest # <<>> -> ContentIn(CgroupOf[rest[1]], Tail(rest))
      [] m.type = "cgroup" /\ rest = <<>> -> <<"tmpfs", rest>>
      [] OTHER                            -> <<m.type, rest>>

\* What is refused puts anything.
LEMMA RefusePuts ==
    /\ <<refuse>> \in Seq(RootfsCalls)
    /\ \A q, v : Puts(<<refuse>>, q, v)
  <1>1. refuse \in RootfsCalls /\ refuse.op = "refuse"
    BY DEF RootfsCalls, refuse
  <1> DEFINE c == refuse
  <1>2. \A q, v : Covers(c, q) /\ Gives(c, q, v)
    BY <1>1 DEF Covers, Gives
  <1>3. <<c>> \in Seq(RootfsCalls)
    BY <1>1
  <1> HIDE DEF c
  <1>4. \A q, v : Puts(<<c>>, q, v)
    BY <1>2, OneCall
  <1> QED
    BY <1>3, <1>4 DEF c

\* A mount of the specification puts what the specification says, and nothing elsewhere.
LEMMA MountOfPuts ==
    ASSUME NEW m \in MountEntries, FromGuest(m), NEW p \in Paths
    PROVE  LET rest == Below(m.destination, p) IN
           /\ mount_of(m) \in Seq(RootfsCalls)
           /\ ~ IsPrefix(m.destination, p) => \A v : Tends(mount_of(m), Root \o p, v)
           /\ /\ IsPrefix(m.destination, p)
              /\ m.type = "cgroup" /\ rest # <<>> => rest[1] \in Hierarchies
              => Puts(mount_of(m), Root \o p, ContentOf(m, rest))
  <1> DEFINE flags == parse_mount(m.options)
             d     == m.destination
             q     == Root \o p
             rest  == Below(d, p)
  <1>1. /\ m.destination \in Paths /\ m.source \in Paths /\ m.type \in FileSystems
        /\ m.valid \in BOOLEAN
    <2>1. Seq(STRING) \subseteq Paths
      BY DEF Paths, Names
    <2>2. /\ m.destination \in Seq(STRING) /\ m.source \in Seq(STRING) /\ m.type \in STRING
          /\ m.valid \in BOOLEAN
      BY DEF MountEntries
    <2> QED
      BY <2>1, <2>2 DEF FileSystems
  <1>2. CASE ~ m.valid
    <2>1. mount_of(m) = <<refuse>>
      BY Zenon, <1>2 DEF mount_of
    <2> QED
      BY <2>1, RefusePuts DEF Tends
  <1>3. CASE m.valid /\ m.type = "cgroup"
    <2>1. mount_of(m) = mount_cgroups(m, flags)
      BY Zenon, <1>3 DEF mount_of
    <2>2. m.type # "bind"
      BY <1>3
    <2>3. /\ rest # <<>> => ContentOf(m, rest) = ContentIn(CgroupOf[rest[1]], Tail(rest))
          /\ rest = <<>> => ContentOf(m, rest) = <<"tmpfs", rest>>
      <3> HIDE DEF rest
      <3> QED
        BY Zenon, <1>3, <2>2 DEF ContentOf
    <2> DEFINE cs == mount_cgroups(m, flags)
    <2>4. /\ cs \in Seq(RootfsCalls)
          /\ ~ IsPrefix(d, p) => Leaves(cs, q)
          /\ IsPrefix(d, p) /\ rest = <<>> => Puts(cs, q, <<"tmpfs", rest>>)
          /\ IsPrefix(d, p) /\ rest # <<>> /\ rest[1] \in Hierarchies =>
                Puts(cs, q, ContentIn(CgroupOf[rest[1]], Tail(rest)))
      <3> HIDE DEF flags
      <3> QED
        BY <1>1, MountCgroupsPuts
    <2> HIDE DEF cs, q, rest, d
    <2>5. mount_of(m) = cs
      BY <2>1 DEF cs
    <2>6. ~ IsPrefix(d, p) => \A v : Tends(cs, q, v)
      BY <2>4 DEF Tends
    <2>7. IsPrefix(d, p) /\ (rest # <<>> => rest[1] \in Hierarchies) =>
             Puts(cs, q, ContentOf(m, rest))
      BY <2>3, <2>4
    <2> QED
      BY <1>3, <2>4, <2>5, <2>6, <2>7 DEF q, rest, d
  <1>4. CASE m.valid /\ m.type # "cgroup"
    <2> DEFINE fl == IF d = Dev THEN flags \ {"RDONLY"} ELSE flags
    <2>1. mount_of(m) = mount_from(m, fl)
      BY Zenon, <1>4 DEF mount_of
    <2>2. ("BIND" \in fl <=> "BIND" \in flags) /\ ("REC" \in fl <=> "REC" \in flags)
      OBVIOUS
    <2>3. (m.type = "bind" <=> "BIND" \in flags) /\ BindsGuest(m, flags)
      BY <1>4 DEF FromGuest
    <2> HIDE DEF flags, fl
    <2>4. BindsGuest(m, fl)
      BY <2>2, <2>3 DEF BindsGuest
    <2>5. MountContent(m, fl, rest) = ContentOf(m, rest)
      <3> HIDE DEF rest
      <3>1. m.type = "bind" => ContentOf(m, rest) = ContentIn(m.source, rest)
        BY Zenon DEF ContentOf
      <3>2. m.type # "bind" => ContentOf(m, rest) = <<m.type, rest>>
        BY Zenon, <1>4 DEF ContentOf
      <3> QED
        BY <2>2, <2>3, <3>1, <3>2 DEF MountContent
    <2>6. /\ mount_from(m, fl) \in Seq(RootfsCalls)
          /\ ~ IsPrefix(d, p) => Leaves(mount_from(m, fl), q)
          /\ IsPrefix(d, p) /\ BindsGuest(m, fl) =>
                Puts(mount_from(m, fl), q, MountContent(m, fl, rest))
      BY <1>1, MountFromPuts
    <2> HIDE DEF q, rest, d
    <2> QED
      BY <2>1, <2>4, <2>5, <2>6 DEF Tends, q, rest, d
  <1> QED
    BY <1>1, <1>2, <1>3, <1>4

\* Calls of which none covers a path but one that is refused.
LEMMA NoneCovers ==
    ASSUME NEW cs \in Seq(RootfsCalls), NEW q, NEW v,
           \A i \in DOMAIN cs : Covers(cs[i], q) => cs[i].op = "refuse"
    PROVE  Tends(cs, q, v)
  <1> DEFINE C == {i \in DOMAIN cs : Covers(cs[i], q)}
             m == Max(C)
  <1>1. Len(cs) \in Nat /\ DOMAIN cs = 1..Len(cs)
    OBVIOUS
  <1>2. CASE C = {}
    BY <1>2 DEF Tends, Leaves
  <1>3. CASE C # {}
    <2>1. C \in SUBSET (1..Len(cs))
      BY <1>1
    <2>2. m \in C /\ \A y \in C : m >= y
      <3> HIDE DEF C
      <3> QED
        BY <1>1, <1>3, <2>1, GreatestIn
    <2> HIDE DEF m
    <2>3. \A j \in DOMAIN cs : j > m => ~ Covers(cs[j], q)
      BY <1>1, <2>2
    <2>4. Gives(cs[m], q, v)
      BY <2>2 DEF Gives
    <2> QED
      BY <2>2, <2>3, <2>4 DEF Tends, Puts
  <1> QED
    BY <1>2, <1>3

\* The devices are where they are.
LEMMA DevicesTend ==
    ASSUME NEW ds \in Seq(PathEntries), NEW b, NEW p \in Paths
    PROVE  /\ create_devices(ds, b) \in Seq(RootfsCalls)
           /\ (\A i \in DOMAIN (DEFAULT_DEVICES \o ds) :
                   ~ IsPrefix((DEFAULT_DEVICES \o ds)[i].path, p))
              => \A v : Tends(create_devices(ds, b), Root \o p, v)
  <1> DEFINE all == DEFAULT_DEVICES \o ds
             one(e) == CASE ~ e.valid       -> refuse
                         [] e.valid /\ b    -> bind(e.path, Root \o e.path, FALSE)
                         [] OTHER           -> mknod(Root \o e.path)
             cs == create_devices(ds, b)
             q == Root \o p
             Entries == [path : Paths, valid : BOOLEAN]
  <1>1. all \in Seq(Entries)
    <2>1. PathEntries \subseteq Entries
      <3>1. Seq(STRING) \subseteq Paths
        BY DEF Paths, Names
      <3> QED
        BY <3>1 DEF PathEntries
    <2>2. ds \in Seq(Entries)
      <3>1. \A S, T : S \subseteq T => Seq(S) \subseteq Seq(T)
        OBVIOUS
      <3> HIDE DEF Entries
      <3>2. Seq(PathEntries) \subseteq Seq(Entries)
        BY <2>1, <3>1
      <3> QED
        BY <3>2
    <2>3. DevNull \in Paths /\ <<"dev", "zero">> \in Paths
      BY DEF DevNull, Paths, Names
    <2> DEFINE x == [path |-> DevNull, valid |-> TRUE]
               y == [path |-> <<"dev", "zero">>, valid |-> TRUE]
    <2>4. x \in Entries /\ y \in Entries
      BY <2>3
    <2> HIDE DEF x, y, Entries
    <2>5. <<x, y>> \in Seq(Entries)
      BY <2>4
    <2>6. DEFAULT_DEVICES = <<x, y>>
      BY DEF DEFAULT_DEVICES, x, y
    <2> QED
      BY <2>2, <2>5, <2>6
  <1>2. Len(all) \in Nat /\ DOMAIN all = 1..Len(all) /\ \A i \in DOMAIN all : all[i] \in Entries
    <2> HIDE DEF all, Entries
    <2> QED
      BY <1>1
  <1>3. cs = [i \in DOMAIN all |-> one(all[i])]
    BY DEF create_devices
  <1>4. ASSUME NEW e \in Entries
        PROVE  /\ one(e) \in RootfsCalls
               /\ ~ IsPrefix(e.path, p) /\ Covers(one(e), q) => one(e).op = "refuse"
    <2> DEFINE to == Root \o e.path
    <2>1. e.path \in Paths /\ Root \in Paths
      BY GuestIs
    <2>2. to \in Paths /\ IsPrefix(Root, to) /\ (IsPrefix(to, q) => IsPrefix(e.path, p))
      BY <2>1, PathsInARow, PrefixBelow
    <2>3. one(e) \in {refuse, bind(e.path, to, FALSE), mknod(to)}
      BY Zenon
    <2> HIDE DEF to, one, q
    <2>4. refuse \in RootfsCalls /\ refuse.op = "refuse"
      BY DEF refuse, RootfsCalls
    <2> DEFINE c == bind(e.path, to, FALSE)
               k == mknod(to)
    <2>5. c \in RootfsCalls /\ c.op = "bind" /\ c.to = to
      BY <2>1, <2>2 DEF bind, RootfsCalls
    <2>6. k \in RootfsCalls /\ k.op = "mknod"
      BY <2>2 DEF mknod, RootfsCalls
    <2> HIDE DEF c, k
    <2>7. ~ IsPrefix(e.path, p) => ~ Covers(c, q) /\ ~ Covers(k, q)
      BY <2>2, <2>5, <2>6 DEF Covers
    <2> QED
      BY <2>3, <2>4, <2>5, <2>6, <2>7 DEF c, k
  <1> HIDE DEF all, one, q, Entries, cs
  <1>5. \A i \in 1..Len(all) : one(all[i]) \in RootfsCalls
    BY <1>2, <1>4
  <1>6. cs \in [1..Len(all) -> RootfsCalls] /\ \A i \in 1..Len(all) : cs[i] = one(all[i])
    BY <1>2, <1>3, <1>5
  <1>7. cs \in Seq(RootfsCalls) /\ DOMAIN cs = 1..Len(all)
    BY <1>2, <1>6
  <1>8. ASSUME \A i \in DOMAIN all : ~ IsPrefix(all[i].path, p)
        PROVE  \A v : Tends(cs, q, v)
    <2>1. \A i \in DOMAIN cs : Covers(cs[i], q) => cs[i].op = "refuse"
      BY <1>2, <1>4, <1>6, <1>7, <1>8
    <2> QED
      BY <1>7, <2>1, NoneCovers
  <1> QED
    BY <1>7, <1>8 DEF all, cs, q

\* All mounts of the specification are taken from the guest.
SourcesOutside == \A i \in DOMAIN spec.mounts : FromGuest(spec.mounts[i])

\* A path that is not a device or below one, not masked, and not the place of
\* a hierarchy that the guest does not have.
Ordinary(p) ==
    LET devices == DEFAULT_DEVICES \o spec.devices IN
    /\ \A i \in DOMAIN devices : ~ IsPrefix(devices[i].path, p)
    /\ \A i \in DOMAIN spec.masked : ~ IsPrefix(spec.masked[i].path, p)
    /\ MountsOver(p) # {} /\ LastOver(p).type = "cgroup" =>
          LET rest == Below(LastOver(p).destination, p)
          IN  rest # <<>> => rest[1] \in Hierarchies

\* v is found at a path once the calls are made.
Coming(t, cs, q, v) == Puts(cs, q, v) \/ (Leaves(cs, q) /\ Seen(t, q) = v)

\* The content that is specified is that of the last mount over a path.
LEMMA ContentOfLast ==
    ASSUME spec \in Specs, NEW p \in Paths
    PROVE  /\ MountsOver(p) = {} => SpecifiedContent(p) = Seen(AgentMounts, Root \o p)
           /\ MountsOver(p) # {} =>
                 \E l \in DOMAIN spec.mounts :
                    /\ IsPrefix(spec.mounts[l].destination, p)
                    /\ \A i \in DOMAIN spec.mounts :
                          IsPrefix(spec.mounts[i].destination, p) => i <= l
                    /\ LastOver(p) = spec.mounts[l]
                    /\ SpecifiedContent(p) =
                          ContentOf(spec.mounts[l], Below(spec.mounts[l].destination, p))
  <1>1. MountsOver(p) = {} => SpecifiedContent(p) = Seen(AgentMounts, Root \o p)
    BY DEF SpecifiedContent
  <1>2. ASSUME MountsOver(p) # {}
        PROVE  \E l \in DOMAIN spec.mounts :
                    /\ IsPrefix(spec.mounts[l].destination, p)
                    /\ \A i \in DOMAIN spec.mounts :
                          IsPrefix(spec.mounts[i].destination, p) => i <= l
                    /\ LastOver(p) = spec.mounts[l]
                    /\ SpecifiedContent(p) =
                          ContentOf(spec.mounts[l], Below(spec.mounts[l].destination, p))
    <2> DEFINE C == MountsOver(p)
               l == CHOOSE i \in C : \A j \in C : j <= i
    <2>1. spec.mounts \in Seq(MountEntries)
      BY SpecsAssumption
    <2>2. Len(spec.mounts) \in Nat /\ DOMAIN spec.mounts = 1..Len(spec.mounts)
      BY <2>1
    <2>3. C \in SUBSET (1..Len(spec.mounts)) /\ C # {}
      BY <1>2, <2>2 DEF MountsOver
    <2>4. \E i \in C : \A j \in C : j <= i
      <3> DEFINE m == Max(C)
      <3> HIDE DEF C
      <3>1. m \in C /\ \A y \in C : m >= y
        BY <2>2, <2>3, GreatestIn
      <3> HIDE DEF m
      <3>2. \A y \in C : y <= m
        BY <2>2, <2>3, <3>1
      <3> QED
        BY <3>1, <3>2
    <2>5. l \in C /\ \A j \in C : j <= l
      BY <2>4
    <2>6. LastOver(p) = spec.mounts[l]
      BY DEF LastOver
    <2> HIDE DEF l
    <2>7. /\ l \in DOMAIN spec.mounts /\ IsPrefix(spec.mounts[l].destination, p)
          /\ \A i \in DOMAIN spec.mounts : IsPrefix(spec.mounts[i].destination, p) => i <= l
      BY <2>5 DEF MountsOver
    <2>8. SpecifiedContent(p) = ContentOf(spec.mounts[l], Below(spec.mounts[l].destination, p))
      BY <1>2, <2>6 DEF SpecifiedContent, ContentOf
    <2> QED
      BY <2>6, <2>7, <2>8
  <1> QED
    BY <1>1, <1>2

\* What init_rootfs does to the paths below the root.
LEMMA InitRootfsComes ==
    ASSUME spec \in Specs, SourcesOutside, NEW b
    PROVE  /\ init_rootfs(spec, b) \in Seq(RootfsCalls)
           /\ \E i \in DOMAIN init_rootfs(spec, b) : init_rootfs(spec, b)[i] = bind(Root, Root, TRUE)
           /\ \A p \in Paths :
                 Ordinary(p) =>
                    Coming(AgentMounts, init_rootfs(spec, b), Root \o p, SpecifiedContent(p))
  <1> DEFINE x == propagation(spec.propagation)
             y == bind(Root, Root, TRUE)
             first == <<x, y>>
             parts == [i \in DOMAIN spec.mounts |-> mount_of(spec.mounts[i])]
             flat == FlattenSeq(parts)
             last == create_devices(spec.devices, b)
             n == Len(spec.mounts)
             cs == init_rootfs(spec, b)
  <1>1. cs = first \o flat \o last
    BY DEF init_rootfs
  <1>2. spec.mounts \in Seq(MountEntries) /\ spec.devices \in Seq(PathEntries)
    BY SpecsAssumption
  <1>3. n \in Nat /\ DOMAIN spec.mounts = 1..n /\ \A i \in 1..n : spec.mounts[i] \in MountEntries
    BY <1>2
  <1>4. Root \in Paths /\ IsPrefix(Root, Root)
    BY GuestIs, PrefixOrder
  <1>5. /\ x \in RootfsCalls /\ x.op = "propagation"
        /\ y \in RootfsCalls /\ y.op = "bind" /\ y.from = Root /\ y.to = Root /\ y.rec = TRUE
    BY <1>4 DEF propagation, bind, RootfsCalls
  <1> HIDE DEF x, y
  <1>6. \A q : ~ Covers(x, q) /\ ~ Covers(y, q)
    BY <1>5 DEF Covers
  <1>7. /\ first \in Seq(RootfsCalls) /\ DOMAIN first = 1..2 /\ first[1] = x /\ first[2] = y
    BY <1>5
  <1> HIDE DEF first
  <1>8. \A q : Leaves(first, q)
    <2>1. \A i \in 1..2 : i = 1 \/ i = 2
      OBVIOUS
    <2> QED
      BY <1>6, <1>7, <2>1 DEF Leaves
  <1>9. /\ DOMAIN parts = 1..n /\ \A i \in 1..n : parts[i] = mount_of(spec.mounts[i])
        /\ Len(parts) = n
    <2>1. DOMAIN parts = 1..n /\ \A i \in 1..n : parts[i] = mount_of(spec.mounts[i])
      BY <1>3
    <2>2. parts \in Seq({mount_of(spec.mounts[i]) : i \in 1..n})
      BY <1>3
    <2> HIDE DEF parts
    <2> QED
      BY <1>3, <2>1, <2>2
  <1> HIDE DEF parts, n
  <1>10. ASSUME NEW i \in 1..n, NEW p \in Paths
         PROVE  LET m    == spec.mounts[i]
                    rest == Below(m.destination, p)
                IN  /\ parts[i] \in Seq(RootfsCalls)
                    /\ ~ IsPrefix(m.destination, p) => \A v : Tends(parts[i], Root \o p, v)
                    /\ /\ IsPrefix(m.destination, p)
                       /\ m.type = "cgroup" /\ rest # <<>> => rest[1] \in Hierarchies
                       => Puts(parts[i], Root \o p, ContentOf(m, rest))
    <2>1. spec.mounts[i] \in MountEntries /\ FromGuest(spec.mounts[i])
      BY <1>3 DEF SourcesOutside
    <2> QED
      BY <1>9, <2>1, MountOfPuts
  <1>11. \A i \in 1..n : parts[i] \in Seq(RootfsCalls)
    <2>1. <<>> \in Paths
      BY DEF Paths
    <2> QED
      BY <1>10, <2>1
  <1>12. /\ flat \in Seq(RootfsCalls)
         /\ \A q, v :
               /\ (\A i \in 1..n : Tends(parts[i], q, v)) => Tends(flat, q, v)
               /\ \A l \in 1..n :
                     Puts(parts[l], q, v) /\ (\A i \in 1..n : i > l => Tends(parts[i], q, v))
                     => Puts(flat, q, v)
    BY <1>3, <1>9, <1>11, FlattenTends
  <1> HIDE DEF flat
  <1>13. ASSUME NEW p \in Paths
         PROVE  /\ last \in Seq(RootfsCalls)
                /\ Ordinary(p) => \A v : Tends(last, Root \o p, v)
    <2>1. /\ create_devices(spec.devices, b) \in Seq(RootfsCalls)
          /\ (\A i \in DOMAIN (DEFAULT_DEVICES \o spec.devices) :
                  ~ IsPrefix((DEFAULT_DEVICES \o spec.devices)[i].path, p))
             => \A v : Tends(create_devices(spec.devices, b), Root \o p, v)
      BY <1>2, DevicesTend
    <2> QED
      BY <2>1 DEF Ordinary
  <1> HIDE DEF last
  <1>14. last \in Seq(RootfsCalls)
    <2>1. <<>> \in Paths
      BY DEF Paths
    <2> QED
      BY <1>13, <2>1
  <1> DEFINE a == first \o flat
  <1>15. a \in Seq(RootfsCalls) /\ cs = a \o last
    BY <1>1, <1>7, <1>12, <1>14
  <1> HIDE DEF cs
  <1>16. \A q, v : Tends(flat, q, v) => Tends(a, q, v)
    BY <1>7, <1>8, <1>12, TendsInARow DEF Tends
  <1>17. \A q, v : Puts(flat, q, v) => Puts(a, q, v)
    BY <1>7, <1>8, <1>12, TendsInARow
  <1>18. 2 \in DOMAIN a /\ a[2] = y
    BY <1>7, <1>12, CallsInARow
  <1> HIDE DEF a
  <1>19. cs \in Seq(RootfsCalls) /\ 2 \in DOMAIN cs /\ cs[2] = y
    BY <1>14, <1>15, <1>18, CallsInARow
  <1>20. \A q, v : Tends(a, q, v) /\ Tends(last, q, v) => Tends(cs, q, v)
    BY <1>14, <1>15, TendsInARow
  <1>21. \A q, v : Puts(a, q, v) /\ Tends(last, q, v) => Puts(cs, q, v)
    BY <1>14, <1>15, TendsInARow DEF Tends
  <1>22. ASSUME NEW p \in Paths, Ordinary(p)
         PROVE  Coming(AgentMounts, cs, Root \o p, SpecifiedContent(p))
    <2> DEFINE q == Root \o p
               v == SpecifiedContent(p)
    <2>1. Tends(last, q, v)
      BY <1>13, <1>22
    <2>2. CASE MountsOver(p) = {}
      <3>1. \A i \in 1..n : ~ IsPrefix(spec.mounts[i].destination, p)
        BY <1>3, <2>2 DEF MountsOver
      <3>2. Tends(cs, q, v)
        BY <1>10, <1>12, <1>16, <1>20, <2>1, <3>1
      <3>3. Seen(AgentMounts, q) = v
        BY <2>2, ContentOfLast
      <3> QED
        BY <3>2, <3>3 DEF Tends, Coming
    <2>3. CASE MountsOver(p) # {}
      <3>1. PICK l \in DOMAIN spec.mounts :
                    /\ IsPrefix(spec.mounts[l].destination, p)
                    /\ \A i \in DOMAIN spec.mounts :
                          IsPrefix(spec.mounts[i].destination, p) => i <= l
                    /\ LastOver(p) = spec.mounts[l]
                    /\ v = ContentOf(spec.mounts[l], Below(spec.mounts[l].destination, p))
        BY <2>3, ContentOfLast
      <3>2. l \in 1..n /\ \A i \in 1..n : i > l => ~ IsPrefix(spec.mounts[i].destination, p)
        BY <1>3, <3>1
      <3>3. LET rest == Below(spec.mounts[l].destination, p)
            IN  spec.mounts[l].type = "cgroup" /\ rest # <<>> => rest[1] \in Hierarchies
        BY <1>22, <2>3, <3>1 DEF Ordinary
      <3>4. Puts(parts[l], q, v)
        BY <1>10, <3>1, <3>2, <3>3
      <3>5. \A i \in 1..n : i > l => Tends(parts[i], q, v)
        BY <1>10, <3>2
      <3>6. Puts(cs, q, v)
        BY <1>12, <1>17, <1>21, <2>1, <3>2, <3>4, <3>5
      <3> QED
        BY <3>6 DEF Coming
    <2> QED
      BY <2>2, <2>3
  <1> QED
    BY <1>19, <1>22 DEF cs, y

-----------------------------------------------------------------------------
(* What the calls of init_rootfs do to the table.                          *)

\* A list of mounts that grows on below the root.
LEMMA GrowsOn ==
    ASSUME NEW t, Table(t), NEW u, Grows(t, u, Root), NEW to \in Paths, IsPrefix(Root, to),
           NEW v, Grows(u, v, to)
    PROVE  Grows(t, v, Root)
  <1>1. Root \in Paths
    BY GuestIs
  <1>2. u \in Seq(Mounts) /\ v \in Seq(Mounts)
    BY DEF Grows
  <1>3. t \in Seq(Mounts)
    BY DEF Table
  <1>4. Len(t) \in Nat /\ Len(u) \in Nat /\ Len(v) \in Nat /\ DOMAIN v = 1..Len(v)
    BY <1>2, <1>3, MountsAre
  <1>5. Len(t) <= Len(u) /\ Len(u) <= Len(v)
    BY DEF Grows
  <1>6. ASSUME NEW i \in 1..Len(t) PROVE Same(v[i], t[i])
    <2>1. i \in 1..Len(u)
      BY <1>4, <1>5
    <2> QED
      BY <2>1 DEF Grows, Same
  <1>7. ASSUME NEW i \in (Len(t) + 1)..Len(v) PROVE IsPrefix(Root, v[i].at)
    <2>1. CASE i \in 1..Len(u)
      <3>1. i \in (Len(t) + 1)..Len(u)
        BY <1>4, <2>1
      <3> QED
        BY <2>1, <3>1 DEF Grows, Same
    <2>2. CASE i \notin 1..Len(u)
      <3>1. i \in (Len(u) + 1)..Len(v) /\ i \in DOMAIN v
        BY <1>4, <1>5, <2>2
      <3>2. IsPrefix(to, v[i].at) /\ v[i].at \in Paths
        BY <1>2, <3>1, MountsAre DEF Grows
      <3> QED
        BY <1>1, <3>2, PrefixOrder
    <2> QED
      BY <2>1, <2>2
  <1>8. Len(t) <= Len(v)
    BY <1>4, <1>5
  <1> QED
    BY <1>2, <1>6, <1>7, <1>8 DEF Grows

\* The mount points stay.
LEMMA GrowsKeeps ==
    ASSUME NEW t \in Seq(Mounts), NEW u, NEW to, Grows(t, u, to), NEW i \in DOMAIN t
    PROVE  i \in DOMAIN u /\ u[i].at = t[i].at
  <1>1. Len(t) \in Nat /\ DOMAIN t = 1..Len(t)
    BY MountsAre
  <1>2. u \in Seq(Mounts) /\ Len(t) <= Len(u)
    BY DEF Grows
  <1>3. Len(u) \in Nat /\ DOMAIN u = 1..Len(u)
    BY <1>2, MountsAre
  <1>4. i \in DOMAIN u
    BY <1>1, <1>2, <1>3
  <1> QED
    BY <1>1, <1>4 DEF Grows, Same

\* Outside the root the process sees what the agent sees.
LEMMA GuestSeen ==
    ASSUME NEW t, Grows(AgentMounts, t, Root), NEW from \in Paths, Apart(from, Root),
           NEW r \in Paths
    PROVE  /\ Seen(t, from \o r) = Seen(AgentMounts, from \o r)
           /\ Seen(t, from) = Seen(AgentMounts, from)
           /\ NothingBelow(from) =>
                 Seen(AgentMounts, from \o r) = Further(Seen(AgentMounts, from), r)
  <1>1. Table(AgentMounts) /\ Root \in Paths
    BY GuestIs
  <1>2. from \o r \in Paths /\ IsPrefix(from, from \o r)
    BY PathsInARow
  <1>3. ~ IsPrefix(Root, from) /\ ~ IsPrefix(from, Root)
    BY DEF Apart
  <1>4. ~ IsPrefix(Root, from \o r)
    BY <1>1, <1>2, <1>3, PrefixOrder
  <1>5. Seen(t, from \o r) = Seen(AgentMounts, from \o r)
    BY <1>1, <1>2, <1>4, GrowsElsewhere
  <1>6. Seen(t, from) = Seen(AgentMounts, from)
    BY <1>1, <1>3, GrowsElsewhere
  <1>7. NothingBelow(from) =>
           Seen(AgentMounts, from \o r) = Further(Seen(AgentMounts, from), r)
    BY <1>1, NothingBetween DEF NothingBelow
  <1> QED
    BY <1>5, <1>6, <1>7

\* What one call does to what is seen.
Done(t, u, c) ==
    /\ Grows(AgentMounts, u, Root)
    /\ \A i \in DOMAIN t : i \in DOMAIN u /\ u[i].at = t[i].at
    /\ c = bind(Root, Root, TRUE) => \E i \in DOMAIN u : i > Len(AgentMounts) /\ u[i].at = Root
    /\ \A p \in Paths :
          LET q == Root \o p IN
          /\ ~ Covers(c, q) => Seen(u, q) = Seen(t, q)
          /\ Covers(c, q) => \A v : Gives(c, q, v) => Seen(u, q) = v

\* A bind mount does what Covers and Gives say.
LEMMA BindDone ==
    ASSUME NEW t, Grows(AgentMounts, t, Root), NEW c, c.op = "bind", c.from \in Paths,
           c.to \in Paths, c.rec \in BOOLEAN, IsPrefix(Root, c.to)
    PROVE  Done(t, Bind(t, c.from, c.to, c.rec), c)
  <1> DEFINE from == c.from
             to == c.to
             rec == c.rec
             u == Bind(t, from, to, rec)
  <1>1. Table(AgentMounts) /\ Root \in Paths /\ AgentMounts \in Seq(Mounts)
    BY GuestIs
  <1>2. Table(t) /\ t \in Seq(Mounts)
    BY <1>1, GrowsTable DEF Table
  <1>3. from \in Paths /\ to \in Paths /\ rec \in BOOLEAN /\ IsPrefix(Root, to)
    OBVIOUS
  <1> HIDE DEF from, to, rec
  <1>4. ASSUME NEW r \in Paths
        PROVE  /\ Grows(t, u, to) /\ Len(t) + 1 \in DOMAIN u /\ u[Len(t) + 1].at = to
               /\ Seen(u, to \o r) = IF rec THEN Seen(t, from \o r) ELSE Further(Seen(t, from), r)
    BY <1>2, <1>3, BindShows
  <1>5. Grows(t, u, to) /\ Len(t) + 1 \in DOMAIN u /\ u[Len(t) + 1].at = to
    <2>1. <<>> \in Paths
      BY DEF Paths
    <2> QED
      BY <1>4, <2>1
  <1> HIDE DEF u
  <1>6. Grows(AgentMounts, u, Root)
    BY <1>1, <1>3, <1>5, GrowsOn
  <1>7. \A i \in DOMAIN t : i \in DOMAIN u /\ u[i].at = t[i].at
    BY <1>2, <1>5, GrowsKeeps
  <1>8. c = bind(Root, Root, TRUE) => \E i \in DOMAIN u : i > Len(AgentMounts) /\ u[i].at = Root
    <2>1. c = bind(Root, Root, TRUE) => to = Root
      BY DEF bind, to
    <2>2. Len(AgentMounts) \in Nat /\ Len(t) \in Nat /\ Len(AgentMounts) <= Len(t)
      BY <1>1, <1>2, MountsAre DEF Grows
    <2>3. Len(t) + 1 > Len(AgentMounts)
      BY <2>2
    <2> QED
      BY <1>5, <2>1, <2>3
  <1>9. ASSUME NEW q \in Paths, ~ Covers(c, q)
        PROVE  Seen(u, q) = Seen(t, q)
    <2>1. ~ IsPrefix(to, q) \/ (from = to /\ rec)
      BY <1>9 DEF Covers, from, to, rec
    <2>2. CASE ~ IsPrefix(to, q)
      BY <1>2, <1>3, <1>5, <2>2, GrowsElsewhere
    <2>3. CASE IsPrefix(to, q) /\ from = to /\ rec
      <3>1. Below(to, q) \in Paths /\ q = to \o Below(to, q)
        BY <1>3, <2>3, PrefixAndBelow
      <3>2. Seen(u, to \o Below(to, q)) = Seen(t, from \o Below(to, q))
        BY <1>4, <2>3, <3>1
      <3> QED
        BY <2>3, <3>1, <3>2
    <2> QED
      BY <2>1, <2>2, <2>3
  <1>10. ASSUME NEW q \in Paths, Covers(c, q), NEW v, Gives(c, q, v)
         PROVE  Seen(u, q) = v
    <2> DEFINE r == Below(to, q)
    <2>1. IsPrefix(to, q)
      BY <1>10 DEF Covers, to
    <2>2. r \in Paths /\ q = to \o r
      BY <1>3, <2>1, PrefixAndBelow
    <2>3. /\ v = Further(Seen(AgentMounts, from), r)
          /\ Apart(from, Root) /\ (rec => NothingBelow(from))
      BY <1>10 DEF Gives, from, to, rec
    <2> HIDE DEF r
    <2>4. Seen(u, to \o r) = IF rec THEN Seen(t, from \o r) ELSE Further(Seen(t, from), r)
      BY <1>4, <2>2
    <2>5. /\ Seen(t, from \o r) = Seen(AgentMounts, from \o r)
          /\ Seen(t, from) = Seen(AgentMounts, from)
          /\ NothingBelow(from) =>
                Seen(AgentMounts, from \o r) = Further(Seen(AgentMounts, from), r)
      BY <1>3, <2>2, <2>3, GuestSeen
    <2>6. CASE rec
      BY <2>2, <2>3, <2>4, <2>5, <2>6
    <2>7. CASE ~ rec
      BY <2>2, <2>3, <2>4, <2>5, <2>7
    <2> QED
      BY <2>6, <2>7
  <1>11. \A p \in Paths : Root \o p \in Paths
    BY <1>1, PathsInARow
  <1>12. \A p \in Paths :
            LET q == Root \o p IN
            /\ ~ Covers(c, q) => Seen(u, q) = Seen(t, q)
            /\ Covers(c, q) => \A v : Gives(c, q, v) => Seen(u, q) = v
    BY <1>9, <1>10, <1>11
  <1> QED
    BY <1>6, <1>7, <1>8, <1>12 DEF Done, u, from, to, rec

\* So does the mount of a file system.
LEMMA MountDone ==
    ASSUME NEW t, Grows(AgentMounts, t, Root), NEW c, c.op = "mount", c.fs \in FileSystems,
           c.to \in Paths, c.ro \in BOOLEAN, IsPrefix(Root, c.to)
    PROVE  Done(t, Append(t, MountOf(c.fs, c.to, c.ro)), c)
  <1> DEFINE to == c.to
             n == MountOf(c.fs, c.to, c.ro)
             u == Append(t, n)
  <1>1. Table(AgentMounts) /\ Root \in Paths /\ AgentMounts \in Seq(Mounts)
    BY GuestIs
  <1>2. Table(t) /\ t \in Seq(Mounts)
    BY <1>1, GrowsTable DEF Table
  <1>3. to \in Paths /\ IsPrefix(Root, to)
    OBVIOUS
  <1>4. n \in Mounts /\ n.at = to /\ n.fs = c.fs /\ n.root = <<>>
    <2>1. <<>> \in Paths
      BY DEF Paths
    <2> QED
      BY <2>1 DEF Mounts, MountOf
  <1> HIDE DEF to, n
  <1>5. ASSUME NEW r \in Paths
        PROVE  Grows(t, u, to) /\ Seen(u, to \o r) = <<c.fs, r>>
    <2>1. Grows(t, u, n.at) /\ Seen(u, n.at \o r) = <<n.fs, n.root \o r>>
      BY <1>2, <1>4, AppendShows
    <2>2. <<>> \o r = r
      BY DEF Paths
    <2> QED
      BY <1>4, <2>1, <2>2
  <1>6. Grows(t, u, to)
    <2>1. <<>> \in Paths
      BY DEF Paths
    <2> QED
      BY <1>5, <2>1
  <1> HIDE DEF u
  <1>7. Grows(AgentMounts, u, Root)
    BY <1>1, <1>3, <1>6, GrowsOn
  <1>8. \A i \in DOMAIN t : i \in DOMAIN u /\ u[i].at = t[i].at
    BY <1>2, <1>6, GrowsKeeps
  <1>9. c # bind(Root, Root, TRUE)
    BY DEF bind
  <1>10. ASSUME NEW q \in Paths, ~ Covers(c, q)
         PROVE  Seen(u, q) = Seen(t, q)
    <2>1. ~ IsPrefix(to, q)
      BY <1>10 DEF Covers, to
    <2> QED
      BY <1>2, <1>3, <1>6, <2>1, GrowsElsewhere
  <1>11. ASSUME NEW q \in Paths, Covers(c, q), NEW v, Gives(c, q, v)
         PROVE  Seen(u, q) = v
    <2>1. IsPrefix(to, q) /\ v = <<c.fs, Below(to, q)>>
      BY <1>11 DEF Covers, Gives, to
    <2>2. Below(to, q) \in Paths /\ q = to \o Below(to, q)
      BY <1>3, <2>1, PrefixAndBelow
    <2>3. Seen(u, to \o Below(to, q)) = <<c.fs, Below(to, q)>>
      BY <1>5, <2>2
    <2> QED
      BY <2>1, <2>2, <2>3
  <1>12. \A p \in Paths : Root \o p \in Paths
    BY <1>1, PathsInARow
  <1>13. \A p \in Paths :
            LET q == Root \o p IN
            /\ ~ Covers(c, q) => Seen(u, q) = Seen(t, q)
            /\ Covers(c, q) => \A v : Gives(c, q, v) => Seen(u, q) = v
    BY <1>10, <1>11, <1>12
  <1> QED
    BY <1>7, <1>8, <1>9, <1>13 DEF Done, u, n

\* And each of the other calls, which change nothing that is seen.
LEMMA CallDone ==
    ASSUME NEW t, Grows(AgentMounts, t, Root), NEW c \in RootfsCalls, c.op # "refuse"
    PROVE  Done(t, OnTable(t, c), c)
  <1>1. Table(AgentMounts) /\ Root \in Paths
    BY GuestIs
  <1>2. Table(t) /\ t \in Seq(Mounts)
    BY <1>1, GrowsTable DEF Table
  <1>3. CASE c \in {x \in [op : {"bind"}, from : Paths, to : Paths, rec : BOOLEAN] :
                       IsPrefix(Root, x.to)}
    <2>1. /\ c.op = "bind" /\ c.from \in Paths /\ c.to \in Paths /\ c.rec \in BOOLEAN
          /\ IsPrefix(Root, c.to)
      BY <1>3
    <2>2. OnTable(t, c) = Bind(t, c.from, c.to, c.rec)
      BY Zenon, <2>1 DEF OnTable
    <2> QED
      BY <2>1, <2>2, BindDone
  <1>4. CASE c \in {x \in [op : {"mount"}, fs : FileSystems, to : Paths, ro : BOOLEAN] :
                       IsPrefix(Root, x.to)}
    <2>1. /\ c.op = "mount" /\ c.fs \in FileSystems /\ c.to \in Paths /\ c.ro \in BOOLEAN
          /\ IsPrefix(Root, c.to)
      BY <1>4
    <2>2. OnTable(t, c) = Append(t, MountOf(c.fs, c.to, c.ro))
      BY Zenon, <2>1 DEF OnTable
    <2> QED
      BY <2>1, <2>2, MountDone
  <1> DEFINE u == OnTable(t, c)
  <1>5. ASSUME c.op \notin {"bind", "mount", "refuse"}, Grows(t, u, Root),
               \A q \in Paths : Seen(u, q) = Seen(t, q)
        PROVE  Done(t, u, c)
    <2> HIDE DEF u
    <2>1. IsPrefix(Root, Root)
      BY <1>1, PrefixOrder
    <2>2. Grows(AgentMounts, u, Root)
      BY <1>1, <1>5, <2>1, GrowsOn
    <2>3. \A i \in DOMAIN t : i \in DOMAIN u /\ u[i].at = t[i].at
      BY <1>2, <1>5, GrowsKeeps
    <2>4. c # bind(Root, Root, TRUE)
      BY <1>5 DEF bind
    <2>5. \A q : ~ Covers(c, q)
      BY <1>5 DEF Covers
    <2>6. \A p \in Paths : Seen(u, Root \o p) = Seen(t, Root \o p)
      BY <1>1, <1>5, PathsInARow
    <2> QED
      BY <2>2, <2>3, <2>4, <2>5, <2>6 DEF Done
  <1>6. CASE c \in [op : {"remount"}, at : Paths, ro : BOOLEAN]
    <2>1. c.op = "remount" /\ c.at \in Paths /\ c.ro \in BOOLEAN
      BY <1>6
    <2>2. u = Remount(t, c.at, c.ro)
      BY Zenon, <2>1 DEF OnTable
    <2>3. Grows(t, u, Root) /\ \A q \in Paths : Seen(u, q) = Seen(t, q)
      BY <1>1, <1>2, <2>1, <2>2, RemountShows
    <2> QED
      BY <1>5, <2>1, <2>3
  <1>7. CASE c.op \in {"mknod", "propagation"}
    <2>1. u = t
      BY Zenon, <1>7 DEF OnTable
    <2>2. Grows(t, t, Root)
      <3>1. Len(t) \in Nat
        BY <1>2, MountsAre
      <3>2. (Len(t) + 1)..Len(t) = {} /\ Len(t) <= Len(t)
        BY <3>1
      <3> QED
        BY <1>2, <3>2 DEF Grows, Same
    <2> QED
      BY <1>5, <1>7, <2>1, <2>2
  <1>8. c \in [op : {"mknod"}, at : Paths] \/ (\E s \in Specs : c = propagation(s.propagation))
        => c.op \in {"mknod", "propagation"}
    BY DEF propagation
  <1>9. c \notin {refuse}
    BY DEF refuse
  <1> QED
    BY <1>3, <1>4, <1>6, <1>7, <1>8, <1>9 DEF RootfsCalls

\* The root is mounted on itself, or will be.
RootMounted(t, cs) ==
    \/ \E i \in DOMAIN t : i > Len(AgentMounts) /\ t[i].at = Root
    \/ \E i \in DOMAIN cs : cs[i] = bind(Root, Root, TRUE)

\* The root file system is being made, with calls that are to come.
Making(t, cs) ==
    /\ cs \in Seq(RootfsCalls) /\ Grows(AgentMounts, t, Root) /\ RootMounted(t, cs)
    /\ \A p \in Paths : Ordinary(p) => Coming(t, cs, Root \o p, SpecifiedContent(p))

\* The first of a list of calls and the others.
LEMMA FirstCall ==
    ASSUME NEW S, NEW cs \in Seq(S), cs # <<>>
    PROVE  /\ Head(cs) \in S /\ Tail(cs) \in Seq(S) /\ 1 \in DOMAIN cs /\ Head(cs) = cs[1]
           /\ \A i \in DOMAIN cs : i = 1 \/ (i - 1 \in DOMAIN Tail(cs) /\ Tail(cs)[i - 1] = cs[i])
           /\ \A i \in DOMAIN Tail(cs) : i + 1 \in DOMAIN cs /\ Tail(cs)[i] = cs[i + 1]
           /\ DOMAIN cs \subseteq Nat /\ DOMAIN Tail(cs) \subseteq Nat
           /\ \A i \in DOMAIN cs : i >= 1
  <1>1. Len(cs) \in Nat \ {0} /\ DOMAIN cs = 1..Len(cs)
    OBVIOUS
  <1>2. /\ Tail(cs) \in Seq(S) /\ DOMAIN Tail(cs) = 1..(Len(cs) - 1)
        /\ \A i \in 1..(Len(cs) - 1) : Tail(cs)[i] = cs[i + 1]
    OBVIOUS
  <1>3. Head(cs) = cs[1] /\ cs[1] \in S
    BY <1>1
  <1>4. \A i \in 1..Len(cs) : i = 1 \/ (i - 1 \in 1..(Len(cs) - 1) /\ (i - 1) + 1 = i)
    BY <1>1
  <1>5. \A i \in 1..(Len(cs) - 1) : i + 1 \in 1..Len(cs)
    BY <1>1
  <1>6. \A i \in DOMAIN cs : i = 1 \/ (i - 1 \in DOMAIN Tail(cs) /\ Tail(cs)[i - 1] = cs[i])
    BY <1>1, <1>2, <1>4
  <1> QED
    BY <1>1, <1>2, <1>3, <1>5, <1>6

\* What is coming is coming still, or there, after the next call.
LEMMA ComingStep ==
    ASSUME NEW t, NEW u, NEW cs \in Seq(RootfsCalls), cs # <<>>, NEW q, NEW v,
           ~ Covers(Head(cs), q) => Seen(u, q) = Seen(t, q),
           Covers(Head(cs), q) => \A w : Gives(Head(cs), q, w) => Seen(u, q) = w,
           Coming(t, cs, q, v)
    PROVE  Coming(u, Tail(cs), q, v)
  <1> DEFINE c == Head(cs)
             r == Tail(cs)
  <1>1. /\ 1 \in DOMAIN cs /\ c = cs[1]
        /\ \A i \in DOMAIN cs : i = 1 \/ (i - 1 \in DOMAIN r /\ r[i - 1] = cs[i])
        /\ \A i \in DOMAIN r : i + 1 \in DOMAIN cs /\ r[i] = cs[i + 1]
        /\ DOMAIN cs \subseteq Nat /\ DOMAIN r \subseteq Nat
        /\ \A i \in DOMAIN cs : i >= 1
    BY FirstCall
  <1>2. ~ Covers(c, q) => Seen(u, q) = Seen(t, q)
    OBVIOUS
  <1>3. \A w : Covers(c, q) /\ Gives(c, q, w) => Seen(u, q) = w
    OBVIOUS
  <1> HIDE DEF c, r
  <1>4. CASE Leaves(cs, q) /\ Seen(t, q) = v
    <2>1. Leaves(r, q) /\ ~ Covers(c, q)
      BY <1>1, <1>4 DEF Leaves
    <2> QED
      BY <1>2, <1>4, <2>1 DEF Coming, r
  <1>5. CASE Puts(cs, q, v)
    <2>1. PICK i \in DOMAIN cs :
             /\ Covers(cs[i], q) /\ Gives(cs[i], q, v)
             /\ \A j \in DOMAIN cs : j > i => ~ Covers(cs[j], q)
      BY <1>5 DEF Puts
    <2>2. CASE i = 1
      <3>1. Seen(u, q) = v
        BY <1>1, <1>3, <2>1, <2>2
      <3>2. \A j \in DOMAIN r : j + 1 > 1 /\ j >= 1
        <4>1. \A j \in DOMAIN r : j \in Nat /\ j + 1 \in DOMAIN cs
          BY <1>1
        <4>2. \A j \in DOMAIN r : j # 0
          <5> SUFFICES ASSUME 0 \in DOMAIN r PROVE FALSE
            OBVIOUS
          <5>1. Len(cs) \in Nat /\ r \in Seq(RootfsCalls)
            BY FirstCall DEF r
          <5> QED
            BY <5>1
        <4> QED
          BY <4>1, <4>2
      <3>3. Leaves(r, q)
        BY <1>1, <2>1, <2>2, <3>2 DEF Leaves
      <3> QED
        BY <3>1, <3>3 DEF Coming, r
    <2>3. CASE i # 1
      <3>1. i - 1 \in DOMAIN r /\ r[i - 1] = cs[i]
        BY <1>1, <2>3
      <3>2. ASSUME NEW j \in DOMAIN r, j > i - 1 PROVE ~ Covers(r[j], q)
        <4>1. j + 1 \in DOMAIN cs /\ r[j] = cs[j + 1] /\ j \in Nat /\ i \in Nat
          BY <1>1
        <4>2. j + 1 > i
          BY <3>2, <4>1
        <4> QED
          BY <2>1, <4>1, <4>2
      <3> QED
        BY <2>1, <3>1, <3>2 DEF Coming, Puts, r
    <2> QED
      BY <2>2, <2>3
  <1> QED
    BY <1>4, <1>5 DEF Coming

\* One call after the other, as long as none is refused.
LEMMA MakingStep ==
    ASSUME NEW t, NEW cs, Making(t, cs), cs # <<>>, Head(cs).op # "refuse"
    PROVE  Making(OnTable(t, Head(cs)), Tail(cs))
  <1> DEFINE c == Head(cs)
             u == OnTable(t, c)
  <1>1. cs \in Seq(RootfsCalls) /\ Grows(AgentMounts, t, Root) /\ RootMounted(t, cs)
    BY DEF Making
  <1>2. /\ c \in RootfsCalls /\ Tail(cs) \in Seq(RootfsCalls) /\ c = cs[1]
        /\ \A i \in DOMAIN cs : i = 1 \/ (i - 1 \in DOMAIN Tail(cs) /\ Tail(cs)[i - 1] = cs[i])
    BY <1>1, FirstCall
  <1>3. Done(t, u, c)
    BY <1>1, <1>2, CallDone
  <1> HIDE DEF c, u
  <1>4. RootMounted(u, Tail(cs))
    BY <1>1, <1>2, <1>3 DEF Done, RootMounted
  <1>5. ASSUME NEW p \in Paths, Ordinary(p)
        PROVE  Coming(u, Tail(cs), Root \o p, SpecifiedContent(p))
    <2> DEFINE q == Root \o p
    <2>1. /\ ~ Covers(c, q) => Seen(u, q) = Seen(t, q)
          /\ Covers(c, q) => \A w : Gives(c, q, w) => Seen(u, q) = w
      BY <1>3 DEF Done
    <2>2. Coming(t, cs, q, SpecifiedContent(p))
      BY <1>5 DEF Making
    <2> HIDE DEF q
    <2>3. Coming(u, Tail(cs), q, SpecifiedContent(p))
      BY <1>1, <2>1, <2>2, ComingStep DEF c
    <2> QED
      BY <2>3 DEF q
  <1>6. Grows(AgentMounts, u, Root)
    BY <1>3 DEF Done
  <1> QED
    BY <1>2, <1>4, <1>5, <1>6 DEF Making, u, c

\* Once all are made the root can be pivoted, and what is there is specified.
LEMMA MadePivots ==
    ASSUME NEW t, Making(t, <<>>)
    PROVE  /\ Table(Pivot(t, Root))
           /\ \A p \in Paths : Ordinary(p) => Seen(Pivot(t, Root), p) = SpecifiedContent(p)
  <1>1. Table(AgentMounts) /\ AgentMounts \in Seq(Mounts) /\ Root \in Paths
    BY GuestIs
  <1>2. Grows(AgentMounts, t, Root) /\ RootMounted(t, <<>>)
    BY DEF Making
  <1>3. Table(t) /\ t \in Seq(Mounts) /\ Len(AgentMounts) \in Nat
    BY <1>1, <1>2, GrowsTable, MountsAre DEF Grows
  <1>4. Len(t) \in Nat /\ DOMAIN t = 1..Len(t)
    BY <1>3, MountsAre
  <1>5. DOMAIN <<>> = {}
    OBVIOUS
  <1>6. \E i \in DOMAIN t : i > Len(AgentMounts) /\ t[i].at = Root
    BY <1>2, <1>5 DEF RootMounted
  <1>7. \A i \in DOMAIN t : i > Len(AgentMounts) => i \in (Len(AgentMounts) + 1)..Len(t)
    BY <1>3, <1>4
  <1>8. RootedAfter(t, Len(AgentMounts))
    BY <1>2, <1>6, <1>7 DEF RootedAfter, Grows
  <1>9. /\ Table(Pivot(t, Root))
        /\ \A p \in Paths : Seen(Pivot(t, Root), p) = Seen(t, Root \o p)
    BY <1>1, <1>3, <1>8, PivotShows
  <1>10. ASSUME NEW p \in Paths, Ordinary(p) PROVE Seen(t, Root \o p) = SpecifiedContent(p)
    <2>1. Coming(t, <<>>, Root \o p, SpecifiedContent(p))
      BY <1>10 DEF Making
    <2> QED
      BY <1>5, <2>1 DEF Coming, Puts
  <1> QED
    BY <1>9, <1>10

-----------------------------------------------------------------------------
(* The calls of finish_rootfs.                                             *)

FinishCalls ==
    {mask(spec.masked[i].path) : i \in DOMAIN spec.masked}
    \cup [op : {"readonly"}, at : Paths]
    \cup [op : {"remount"}, at : Paths, ro : BOOLEAN]
    \cup {refuse}

\* The root has been pivoted and is made read-only, with calls to come.
Finishing(t, cs) ==
    /\ cs \in Seq(FinishCalls) /\ Table(t)
    /\ \A p \in Paths : Ordinary(p) => Seen(t, p) = SpecifiedContent(p)

\* The paths of a specification are paths.
LEMMA PathsOfSpec ==
    ASSUME spec \in Specs
    PROVE  /\ Len(spec.masked) \in Nat /\ DOMAIN spec.masked = 1..Len(spec.masked)
           /\ \A i \in DOMAIN spec.masked :
                 spec.masked[i].path \in Paths /\ spec.masked[i].valid \in BOOLEAN
           /\ Len(spec.readonly) \in Nat /\ DOMAIN spec.readonly = 1..Len(spec.readonly)
           /\ \A i \in DOMAIN spec.readonly :
                 spec.readonly[i].path \in Paths /\ spec.readonly[i].valid \in BOOLEAN
           /\ Len(spec.mounts) \in Nat /\ DOMAIN spec.mounts = 1..Len(spec.mounts)
  <1>1. /\ spec.masked \in Seq(PathEntries) /\ spec.readonly \in Seq(PathEntries)
        /\ spec.mounts \in Seq(MountEntries)
    BY SpecsAssumption
  <1>2. \A s \in Seq(PathEntries) :
           Len(s) \in Nat /\ DOMAIN s = 1..Len(s) /\ \A i \in DOMAIN s : s[i] \in PathEntries
    OBVIOUS
  <1>3. Seq(STRING) \subseteq Paths
    BY DEF Paths, Names
  <1>4. \A e \in PathEntries : e.path \in Paths /\ e.valid \in BOOLEAN
    BY <1>3 DEF PathEntries
  <1>5. Len(spec.mounts) \in Nat /\ DOMAIN spec.mounts = 1..Len(spec.mounts)
    BY <1>1
  <1> QED
    BY <1>1, <1>2, <1>4, <1>5

\* What finish_rootfs calls.
LEMMA FinishCallsAre ==
    ASSUME spec \in Specs PROVE finish_rootfs(spec) \in Seq(FinishCalls)
  <1> DEFINE IsReadOnlyDev(m) == m.destination = Dev /\ "RDONLY" \in parse_mount(m.options)
             one(m) == IF IsReadOnlyDev(m) THEN <<remount(Dev, TRUE)>> ELSE <<>>
             a == [i \in DOMAIN spec.masked |-> mask_path(spec.masked[i])]
             b == [i \in DOMAIN spec.readonly |-> readonly_path(spec.readonly[i])]
             s == [i \in DOMAIN spec.mounts |-> one(spec.mounts[i])]
             d == IF spec.rootReadonly THEN <<remount(<<>>, TRUE)>> ELSE <<>>
  <1>1. finish_rootfs(spec) = a \o b \o FlattenSeq(s) \o d
    BY DEF finish_rootfs
  <1>2. refuse \in FinishCalls
    BY DEF FinishCalls
  <1>3. Dev \in Paths /\ <<>> \in Paths
    BY DEF Dev, Paths, Names
  <1> DEFINE x == remount(Dev, TRUE)
             y == remount(<<>>, TRUE)
  <1>4. x \in FinishCalls /\ y \in FinishCalls
    BY <1>3 DEF remount, FinishCalls
  <1> HIDE DEF x, y
  <1>5. <<x>> \in Seq(FinishCalls) /\ <<y>> \in Seq(FinishCalls) /\ <<>> \in Seq(FinishCalls)
    BY <1>4
  <1>6. a \in Seq(FinishCalls)
    <2>1. \A i \in DOMAIN spec.masked : mask_path(spec.masked[i]) \in FinishCalls
      BY <1>2 DEF mask_path, FinishCalls
    <2> HIDE DEF FinishCalls
    <2>2. a \in [1..Len(spec.masked) -> FinishCalls]
      BY <2>1, PathsOfSpec
    <2> QED
      BY <2>2, PathsOfSpec
  <1>7. b \in Seq(FinishCalls)
    <2>1. \A i \in DOMAIN spec.readonly : readonly_path(spec.readonly[i]) \in FinishCalls
      BY <1>2, PathsOfSpec DEF readonly_path, readonly, FinishCalls
    <2> HIDE DEF FinishCalls
    <2>2. b \in [1..Len(spec.readonly) -> FinishCalls]
      BY <2>1, PathsOfSpec
    <2> QED
      BY <2>2, PathsOfSpec
  <1>8. FlattenSeq(s) \in Seq(FinishCalls)
    <2> DEFINE n == Len(spec.mounts)
    <2>1. n \in Nat /\ DOMAIN s = 1..n
      BY PathsOfSpec
    <2>2. \A i \in 1..n : s[i] \in Seq(FinishCalls)
      BY <1>5, <2>1 DEF x
    <2> HIDE DEF s
    <2>3. Len(s) = n
      BY <2>1
    <2> QED
      BY <2>1, <2>2, <2>3, FlattenTends
  <1>9. d \in Seq(FinishCalls)
    BY <1>5 DEF y
  <1> HIDE DEF a, b, s, d
  <1> QED
    BY <1>1, <1>6, <1>7, <1>8, <1>9

\* What finish_rootfs does leaves what is seen at the paths that are not masked.
LEMMA FinishingStep ==
    ASSUME spec \in Specs, NEW t, NEW cs, Finishing(t, cs), cs # <<>>, Head(cs).op # "refuse"
    PROVE  Finishing(OnTable(t, Head(cs)), Tail(cs))
  <1> DEFINE c == Head(cs)
             u == OnTable(t, c)
  <1>1. cs \in Seq(FinishCalls) /\ Table(t)
    BY DEF Finishing
  <1>2. c \in FinishCalls /\ Tail(cs) \in Seq(FinishCalls)
    BY <1>1, FirstCall
  <1>3. c.op # "refuse"
    OBVIOUS
  <1> HIDE DEF c, u
  <1>4. ASSUME NEW i \in DOMAIN spec.masked, c = mask(spec.masked[i].path)
        PROVE  Table(u) /\ \A p \in Paths : Ordinary(p) => Seen(u, p) = Seen(t, p)
    <2> DEFINE at == spec.masked[i].path
    <2>1. at \in Paths /\ DevNull \in Paths /\ <<>> \in Paths
      BY PathsOfSpec DEF DevNull, Paths, Names
    <2>2. \A p \in Paths : Ordinary(p) => ~ IsPrefix(at, p)
      BY DEF Ordinary
    <2>3. c.op = "mask" /\ c.at = at
      BY <1>4 DEF mask
    <2> HIDE DEF at
    <2>4. u = IF Seen(t, c.at) \in Files THEN Bind(t, DevNull, c.at, FALSE) ELSE t
      BY Zenon, <2>3 DEF OnTable, u
    <2>5. u = t \/ u = Bind(t, DevNull, at, FALSE)
      BY <2>3, <2>4
    <2>6. Grows(t, Bind(t, DevNull, at, FALSE), at)
      <3> DEFINE n == [at |-> at, fs |-> Seen(t, DevNull)[1], root |-> Seen(t, DevNull)[2],
                       ro |-> ReadOnly(t, DevNull)]
      <3>1. Bind(t, DevNull, at, FALSE) = Append(t, n)
        BY DEF Bind
      <3>2. ASSUME NEW r \in Paths
            PROVE  Grows(t, Append(t, n), at)
                   /\ Seen(Append(t, n), at \o r) = Further(Seen(t, DevNull), r)
        BY <1>1, <2>1, BoundShows
      <3> HIDE DEF n
      <3> QED
        BY <2>1, <3>1, <3>2
    <2>7. u = t \/ Grows(t, u, at)
      BY <2>5, <2>6
    <2>8. Table(u)
      BY <1>1, <2>7, GrowsTable
    <2> QED
      BY <1>1, <2>1, <2>2, <2>7, <2>8, GrowsElsewhere
  <1>5. ASSUME c \in [op : {"readonly"}, at : Paths]
        PROVE  Table(u) /\ \A p \in Paths : Seen(u, p) = Seen(t, p)
    <2> DEFINE at == c.at
               b == Bind(t, at, at, TRUE)
    <2>1. c.op = "readonly" /\ at \in Paths
      BY <1>5
    <2>2. u = IF Seen(t, c.at) \in Absent THEN t
              ELSE Remount(Bind(t, c.at, c.at, TRUE), c.at, TRUE)
      BY Zenon, <2>1 DEF OnTable, u
    <2>3. u = t \/ u = Remount(b, at, TRUE)
      BY <2>2
    <2> HIDE DEF at
    <2>4. ASSUME NEW r \in Paths
          PROVE  Grows(t, b, at) /\ Seen(b, at \o r) = Seen(t, at \o r)
      <3> DEFINE rec == TRUE
      <3>1. rec \in BOOLEAN /\ b = Bind(t, at, at, rec)
        OBVIOUS
      <3>2. rec
        OBVIOUS
      <3> HIDE DEF rec, b
      <3>3. /\ Grows(t, Bind(t, at, at, rec), at)
            /\ Seen(Bind(t, at, at, rec), at \o r) =
                  IF rec THEN Seen(t, at \o r) ELSE Further(Seen(t, at), r)
        BY <1>1, <2>1, <3>1, BindShows
      <3> QED
        BY <3>1, <3>2, <3>3
    <2>5. Grows(t, b, at)
      <3>1. <<>> \in Paths
        BY DEF Paths
      <3> QED
        BY <2>4, <3>1
    <2> HIDE DEF b
    <2>6. Table(b)
      BY <1>1, <2>5, GrowsTable
    <2>7. ASSUME NEW p \in Paths PROVE Seen(b, p) = Seen(t, p)
      <3>1. CASE IsPrefix(at, p)
        <4>1. Below(at, p) \in Paths /\ p = at \o Below(at, p)
          BY <2>1, <3>1, PrefixAndBelow
        <4>2. Seen(b, at \o Below(at, p)) = Seen(t, at \o Below(at, p))
          BY <2>4, <4>1
        <4> QED
          BY <4>1, <4>2
      <3>2. CASE ~ IsPrefix(at, p)
        BY <1>1, <2>1, <2>5, <3>2, GrowsElsewhere
      <3> QED
        BY <3>1, <3>2
    <2>8. /\ Grows(b, Remount(b, at, TRUE), at)
          /\ \A q \in Paths : Seen(Remount(b, at, TRUE), q) = Seen(b, q)
      BY <2>1, <2>6, RemountShows
    <2>9. Table(Remount(b, at, TRUE))
      BY <2>6, <2>8, GrowsTable
    <2> QED
      BY <1>1, <2>3, <2>7, <2>8, <2>9
  <1>6. ASSUME c \in [op : {"remount"}, at : Paths, ro : BOOLEAN]
        PROVE  Table(u) /\ \A p \in Paths : Seen(u, p) = Seen(t, p)
    <2>1. c.op = "remount" /\ c.at \in Paths /\ c.ro \in BOOLEAN
      BY <1>6
    <2>2. u = Remount(t, c.at, c.ro)
      BY Zenon, <2>1 DEF OnTable, u
    <2>3. Grows(t, u, c.at) /\ \A q \in Paths : Seen(u, q) = Seen(t, q)
      BY <1>1, <2>1, <2>2, RemountShows
    <2> QED
      BY <1>1, <2>3, GrowsTable
  <1>7. c # refuse
    BY <1>3 DEF refuse
  <1>8. Table(u) /\ \A p \in Paths : Ordinary(p) => Seen(u, p) = Seen(t, p)
    BY <1>2, <1>4, <1>5, <1>6, <1>7 DEF FinishCalls
  <1>9. \A p \in Paths : Ordinary(p) => Seen(u, p) = SpecifiedContent(p)
    BY <1>8 DEF Finishing
  <1> QED
    BY <1>2, <1>8, <1>9 DEF Finishing, u, c

\* How far the root file system is.
BeforePivot == fpc \in {"rootfs", "askPrestart", "waitPrestart"}
AfterPivot == fpc \in {"stdio", "askPoststart", "fifo"}

RootfsInv ==
    /\ BeforePivot => Making(world.table, todo)
    /\ BeforePivot /\ fpc # "rootfs" => todo = <<>>
    /\ AfterPivot => Finishing(world.table, todo)

ContentInv ==
    /\ NewMounts => req.init
    /\ fpc = "none" => world.table = AgentMounts
    /\ NewMounts /\ SourcesOutside => fpc # "exec" /\ RootfsInv

\* What is specified does not change.
LEMMA SpecifiedKept ==
    ASSUME spec' = spec
    PROVE  /\ SourcesOutside' = SourcesOutside
           /\ \A t, cs : Making(t, cs)' = Making(t, cs)
           /\ \A t, cs : Finishing(t, cs)' = Finishing(t, cs)
  <1>1. SourcesOutside' = SourcesOutside
    BY DEF SourcesOutside
  <1>2. \A t, cs : Making(t, cs)' = Making(t, cs)
    BY DEF Making, Ordinary, SpecifiedContent, MountsOver, LastOver
  <1>3. \A t, cs : Finishing(t, cs)' = Finishing(t, cs)
    BY DEF Finishing, FinishCalls, Ordinary, SpecifiedContent, MountsOver, LastOver
  <1> QED
    BY <1>1, <1>2, <1>3

\* A process that has mounts of its own to make begins with those of the agent.
LEMMA MakingBegins ==
    ASSUME spec \in Specs, SourcesOutside, NEW b
    PROVE  Making(AgentMounts, init_rootfs(spec, b))
  <1>1. /\ init_rootfs(spec, b) \in Seq(RootfsCalls)
        /\ \E i \in DOMAIN init_rootfs(spec, b) : init_rootfs(spec, b)[i] = bind(Root, Root, TRUE)
        /\ \A p \in Paths :
              Ordinary(p) =>
                 Coming(AgentMounts, init_rootfs(spec, b), Root \o p, SpecifiedContent(p))
    BY InitRootfsComes
  <1>2. Grows(AgentMounts, AgentMounts, Root)
    <2>1. AgentMounts \in Seq(Mounts) /\ Len(AgentMounts) \in Nat
      BY GuestIs, MountsAre
    <2>2. /\ (Len(AgentMounts) + 1)..Len(AgentMounts) = {}
          /\ Len(AgentMounts) <= Len(AgentMounts)
      BY <2>1
    <2> QED
      BY <2>1, <2>2 DEF Grows, Same
  <1> QED
    BY <1>1, <1>2 DEF Making, RootMounted

\* Each step keeps what has been made and what is to come.
LEMMA ContentStep ==
    StartInv /\ MountsInv /\ ContentInv /\ [StartNext]_allVars => ContentInv'
  <1> SUFFICES ASSUME StartInv, MountsInv, ContentInv, [StartNext]_allVars PROVE ContentInv'
    OBVIOUS
  <1>0. req' = req /\ spec' = spec /\ guest' = guest
    BY DEF StartNext, allVars, vars, own, Accept, Refuse, SetsUp, ChildSetsUp, Joins,
           ChildJoins, Forks, ChildForks, ChildGoesOn, ChildSendsPid, ChildNotifies, ChildFails,
           MakesCall, MountsRootfs, FinalMountsRootfs, Pivots, FinalPivots, Fails, FinalFails,
           AsksPoststart, FinalAsksPoststart, ParentStep, ParentMaps, ParentGetsPid,
           ParentPrestart, ParentPoststart, ParentReturns, ParentFails, FinalAsksPrestart,
           FinalSetsStdio, FinalStrays
  <1>1. NewMounts' = NewMounts /\ SourcesOutside' = SourcesOutside
    BY <1>0, SpecifiedKept DEF NewMounts, Namespaces, ToNew
  <1>2. /\ \A t, cs : Making(t, cs)' = Making(t, cs)
        /\ \A t, cs : Finishing(t, cs)' = Finishing(t, cs)
    BY <1>0, SpecifiedKept
  <1>3. /\ NewMounts => req.init
        /\ fpc = "none" => world.table = AgentMounts
        /\ NewMounts /\ SourcesOutside => fpc # "exec" /\ RootfsInv
    BY DEF ContentInv
  <1>4. spec \in Specs
    BY DEF MountsInv
  <1>5. SUFFICES /\ fpc' = "none" => world.table' = AgentMounts
                 /\ NewMounts /\ SourcesOutside => fpc' # "exec" /\ RootfsInv'
    BY <1>0, <1>1, <1>3 DEF ContentInv
  <1>6. CASE Forks
    <2>1. fpc = "none" /\ fpc' = "rootfs" /\ world' = world
      BY <1>6 DEF Forks, ChildForks, StartInv, HandshakeInv, Phase, Early, Entering, Handing,
                  HandedOver, BeforeHooks, AfterHooks, Through, Alone, GivenUp, EnteringAlone,
                  TypeOK
    <2>2. ASSUME NewMounts, SourcesOutside PROVE Making(world'.table, todo')
      <3>1. world'.table = AgentMounts /\ todo' = init_rootfs(spec, BindDevice)
        BY <1>3, <1>6, <2>1, <2>2 DEF Forks
      <3> QED
        BY <1>4, <2>2, <3>1, MakingBegins
    <2> QED
      BY <1>2, <2>1, <2>2 DEF RootfsInv, BeforePivot, AfterPivot
  <1>7. CASE MakesCall
    <2>1. /\ fpc \in {"rootfs", "askPoststart"} /\ fpc' = fpc
          /\ todo # <<>> /\ todo' = Tail(todo)
          /\ Head(todo).op # "refuse" /\ world'.table = OnTable(world.table, Head(todo))
      BY <1>7 DEF MakesCall, vars, Refused, Call
    <2>2. ASSUME NewMounts, SourcesOutside, fpc = "rootfs" PROVE Making(world'.table, todo')
      <3>1. Making(world.table, todo)
        BY <1>3, <2>2 DEF RootfsInv, BeforePivot
      <3> QED
        BY <2>1, <3>1, MakingStep
    <2>3. ASSUME NewMounts, SourcesOutside, fpc = "askPoststart"
          PROVE  Finishing(world'.table, todo')
      <3>1. Finishing(world.table, todo)
        BY <1>3, <2>3 DEF RootfsInv, AfterPivot
      <3> QED
        BY <1>4, <2>1, <3>1, FinishingStep
    <2> QED
      BY <1>2, <2>1, <2>2, <2>3 DEF RootfsInv, BeforePivot, AfterPivot
  <1>8. CASE MountsRootfs
    <2>1. /\ fpc = "rootfs" /\ fpc' = (IF req.init THEN "askPrestart" ELSE "stdio")
          /\ todo = <<>> /\ todo' = todo /\ world' = world
      BY <1>8 DEF MountsRootfs, FinalMountsRootfs
    <2>2. NewMounts => fpc' = "askPrestart"
      BY <1>3, <2>1
    <2>3. ASSUME NewMounts, SourcesOutside PROVE Making(world'.table, todo')
      BY <1>3, <2>1, <2>3 DEF RootfsInv, BeforePivot
    <2> QED
      BY <1>2, <2>1, <2>2, <2>3 DEF RootfsInv, BeforePivot, AfterPivot
  <1>9. CASE Pivots
    <2>1. fpc = "waitPrestart" /\ fpc' = "stdio"
      BY <1>9 DEF Pivots, FinalPivots
    <2>2. ASSUME NewMounts, SourcesOutside PROVE Finishing(world'.table, todo')
      <3>1. world'.table = Pivot(world.table, Root) /\ todo' = finish_rootfs(spec)
        <4>1. world' = pivot_rootfs(world) /\ todo' = finish_rootfs(spec)
          BY <1>9, <2>2 DEF Pivots
        <4>2. world = [table |-> world.table, agent |-> world.agent,
                       shared |-> world.shared, nodes |-> world.nodes]
          BY DEF MountsInv
        <4> QED
          BY <4>1, <4>2 DEF pivot_rootfs
      <3>2. Making(world.table, <<>>)
        BY <1>3, <2>1, <2>2 DEF RootfsInv, BeforePivot
      <3>3. /\ Table(Pivot(world.table, Root))
            /\ \A p \in Paths :
                  Ordinary(p) => Seen(Pivot(world.table, Root), p) = SpecifiedContent(p)
        BY <3>2, MadePivots
      <3>4. finish_rootfs(spec) \in Seq(FinishCalls)
        BY <1>4, FinishCallsAre
      <3> QED
        BY <3>1, <3>3, <3>4 DEF Finishing
    <2> QED
      BY <1>2, <2>1, <2>2 DEF RootfsInv, BeforePivot, AfterPivot
  <1>10. CASE UNCHANGED <<todo, fpc>> /\ world'.table = world.table
    <2>1. ASSUME NewMounts, SourcesOutside
          PROVE  fpc' # "exec" /\ RootfsInv'
      <3>1. /\ fpc' = fpc /\ todo' = todo /\ world'.table = world.table
            /\ fpc # "exec" /\ RootfsInv
        BY <1>3, <1>10, <2>1
      <3> QED
        BY <1>2, <3>1 DEF RootfsInv, BeforePivot, AfterPivot
    <2> QED
      BY <1>3, <1>10, <2>1
  \* The steps that take the final process further and make no call.
  <1>11. CASE /\ UNCHANGED <<world, todo>>
              /\ \/ fpc = "askPrestart" /\ fpc' = "waitPrestart"
                 \/ fpc = "stdio" /\ fpc' = (IF req.init THEN "askPoststart" ELSE "exec")
                 \/ fpc = "askPoststart" /\ fpc' = "fifo"
                 \/ fpc' \in {"dead", "stray"}
    <2>1. world' = world /\ todo' = todo /\ fpc' # "none"
      BY <1>11
    <2>2. ASSUME NewMounts, SourcesOutside PROVE fpc' # "exec" /\ RootfsInv'
      <3>1. /\ RootfsInv
            /\ \/ fpc = "askPrestart" /\ fpc' = "waitPrestart"
               \/ fpc = "stdio" /\ fpc' = "askPoststart"
               \/ fpc = "askPoststart" /\ fpc' = "fifo"
               \/ fpc' \in {"dead", "stray"}
        BY <1>3, <1>11, <2>2
      <3> QED
        BY <1>2, <2>1, <3>1 DEF RootfsInv, BeforePivot, AfterPivot
    <2> QED
      BY <2>1, <2>2
  <1>12. CASE Joins
    <2>1. /\ todo' = todo /\ fpc' = fpc
          /\ world' = [world EXCEPT !.shared = @ /\ ~ req.userns]
      BY <1>12 DEF Joins, ChildJoins
    <2>2. world = [table |-> world.table, agent |-> world.agent,
                   shared |-> world.shared, nodes |-> world.nodes]
      BY DEF MountsInv
    <2>3. world'.table = world.table
      BY <2>1, <2>2
    <2> QED
      BY <1>10, <2>1, <2>3
  <1>13. \/ Forks \/ MakesCall \/ MountsRootfs \/ Pivots \/ Joins
         \/ UNCHANGED <<todo, fpc>> /\ world'.table = world.table
         \/ /\ UNCHANGED <<world, todo>>
            /\ \/ fpc = "askPrestart" /\ fpc' = "waitPrestart"
               \/ fpc = "stdio" /\ fpc' = (IF req.init THEN "askPoststart" ELSE "exec")
               \/ fpc = "askPoststart" /\ fpc' = "fifo"
               \/ fpc' \in {"dead", "stray"}
    BY DEF StartNext, allVars, vars, own, Accept, Refuse, SetsUp, ChildSetsUp, ChildGoesOn,
           ChildSendsPid, ChildNotifies, ChildFails, Fails, FinalFails,
           AsksPoststart, FinalAsksPoststart, ParentStep, ParentMaps, ParentGetsPid,
           ParentPrestart, ParentPoststart, ParentReturns, ParentFails, FinalAsksPrestart,
           FinalSetsStdio, FinalStrays
  <1> QED
    BY <1>6, <1>7, <1>8, <1>9, <1>10, <1>11, <1>12, <1>13

(***************************************************************************)
(* The container sees what its specification says: at every path - of any  *)
(* length, below any list of mounts - is what the last mount of the        *)
(* specification over it puts there, or else what is in the root file      *)
(* system.  This is for the mounts that are taken from the guest outside   *)
(* the container's root, and for the paths that are not those of devices   *)
(* or masked (init_rootfs, pivot_rootfs, finish_rootfs).                   *)
(***************************************************************************)
THEOREM ContentAsSpecified ==
    StartSpec =>
      [](fpc \in {"fifo", "exec"} /\ NewMounts /\ SourcesOutside =>
            \A p \in Seq(STRING) :
               Ordinary(p) => Seen(world.table, p) = SpecifiedContent(p))
  <1> DEFINE Goal == fpc \in {"fifo", "exec"} /\ NewMounts /\ SourcesOutside =>
                        \A p \in Seq(STRING) :
                           Ordinary(p) => Seen(world.table, p) = SpecifiedContent(p)
  <1>1. StartInit => MountsInv /\ ContentInv
    <2> SUFFICES ASSUME StartInit PROVE MountsInv /\ ContentInv
      OBVIOUS
    <2>1. MountsInv
      BY DEF StartInit, MountsInv, PeersInv, AgentMountsUntouched
    <2>2. fpc = "none" /\ world.table = AgentMounts
      BY DEF StartInit, Init
    <2>3. NewMounts => req.init
      BY DEF NewMounts, ToNew
    <2> QED
      BY <2>1, <2>2, <2>3 DEF ContentInv, RootfsInv, BeforePivot, AfterPivot
  <1>2. ContentInv => Goal
    <2> SUFFICES ASSUME ContentInv, fpc \in {"fifo", "exec"}, NewMounts, SourcesOutside,
                        NEW p \in Seq(STRING), Ordinary(p)
                 PROVE  Seen(world.table, p) = SpecifiedContent(p)
      OBVIOUS
    <2>1. Finishing(world.table, todo)
      BY DEF ContentInv, RootfsInv, AfterPivot
    <2>2. p \in Paths
      BY DEF Paths, Names
    <2> QED
      BY <2>1, <2>2 DEF Finishing
  <1> HIDE DEF Goal
  <1>3. StartSpec => []Goal
    BY <1>1, <1>2, ContentStep, MountsStep, StartInvariant, PTL DEF StartSpec
  <1> QED
    BY <1>3 DEF Goal
=============================================================================
