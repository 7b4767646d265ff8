--------------------------- MODULE StartHandshake ---------------------------
(***************************************************************************)
(* How the agent and the processes it forks set up one process of a        *)
(* container: LinuxContainer::start and join_namespaces                    *)
(* (src/rustjail/src/container.rs).                                        *)
(*                                                                         *)
(* The agent ("parent") forks a child.  When the process is to enter a pid *)
(* namespace the child forks the final process and exits; otherwise the    *)
(* child is the final process.  They talk over pipes of pid-sized words:   *)
(*   toParent   cfd -> pfd     from the child and from the final process   *)
(*   toChild    pwfd -> crfd   to whoever of the two reads first           *)
(*   toFinal    phfd -> chfd   from the child to the final process         *)
(* Nothing in a word says whom it is from or for: order is everything.     *)
(* Each of the three may fail at any of its steps.                         *)
(***************************************************************************)
EXTENDS Naturals, Sequences

Child == 1
Grandchild == 2

VARIABLES
    req,        \* what is started: init?, pidns?, userns?, tty?, resources?
    ppc, ppid,  \* parent: control, and the pid it takes for the process
    cpc,        \* child: control
    fpc,        \* final process: control
    toParent, toChild, toFinal,
    console,    \* the pty master is on its way to the parent
    mapped,     \* uid and gid mappings are written
    cgroup,     \* processes in the container's cgroup
    hooks       \* hooks that have been run, in order

vars == <<req, ppc, ppid, cpc, fpc, toParent, toChild, toFinal, console,
          mapped, cgroup, hooks>>
pipes == <<toParent, toChild, toFinal, console>>

Requests ==
    [init : BOOLEAN, pidns : BOOLEAN, userns : BOOLEAN, tty : BOOLEAN,
     resources : BOOLEAN]

Final == IF req.pidns THEN Grandchild ELSE Child

Init ==
    /\ req \in Requests
    /\ ppc = "waitUser" /\ ppid = Child
    /\ cpc = "start"
    /\ fpc = "none"
    /\ toParent = <<>> /\ toChild = <<>> /\ toFinal = <<>>
    /\ console = FALSE
    /\ mapped = FALSE
    /\ cgroup = {}
    /\ hooks = <<>>

-----------------------------------------------------------------------------
(* The parent, join_namespaces and then start.                             *)

\* What follows the exchange of the pid.
AfterPid == IF req.init THEN "waitPrestart" ELSE "return"

\* Mutation: the cgroup is applied after the child is let go.
ParentMapsLate ==
    /\ ppc = "waitUser"
    /\ toParent # <<>>
    /\ toParent' = Tail(toParent)
    /\ mapped' = req.userns
    /\ toChild' = Append(toChild, 0)
    /\ ppc' = IF req.pidns THEN "waitPid" ELSE AfterPid
    /\ UNCHANGED <<req, ppid, cpc, fpc, toFinal, console, cgroup, hooks>>

\* The child is in its user namespace: write the mappings, put it into the
\* cgroup and let it go on.
ParentMaps ==
    /\ ppc = "waitUser"
    /\ toParent # <<>>
    /\ toParent' = Tail(toParent)
    /\ mapped' = req.userns
    /\ cgroup' = IF req.resources THEN {Child} ELSE {}
    /\ toChild' = Append(toChild, 0)
    /\ ppc' = IF req.pidns THEN "waitPid" ELSE AfterPid
    /\ UNCHANGED <<req, ppid, cpc, fpc, toFinal, console, hooks>>

\* The pid of the final process arrives; the child may finish.
ParentGetsPid ==
    /\ ppc = "waitPid"
    /\ toParent # <<>>
    /\ ppid' = Head(toParent)
    /\ toParent' = Tail(toParent)
    /\ toChild' = Append(toChild, 0)
    /\ ppc' = AfterPid
    /\ UNCHANGED <<req, cpc, fpc, toFinal, console, mapped, cgroup, hooks>>

\* The final process asks for the prestart hooks ...
ParentPrestart ==
    /\ ppc = "waitPrestart"
    /\ toParent # <<>>
    /\ toParent' = Tail(toParent)
    /\ hooks' = Append(hooks, "prestart")
    /\ toChild' = Append(toChild, 0)
    /\ ppc' = "waitPoststart"
    /\ UNCHANGED <<req, ppid, cpc, fpc, toFinal, console, mapped, cgroup>>

\* ... and for the poststart hooks.
ParentPoststart ==
    /\ ppc = "waitPoststart"
    /\ toParent # <<>>
    /\ toParent' = Tail(toParent)
    /\ hooks' = Append(hooks, "poststart")
    /\ ppc' = "return"
    /\ UNCHANGED <<req, ppid, cpc, fpc, toChild, toFinal, console, mapped,
                   cgroup>>

\* start() goes on in the parent: with a terminal it waits for the master.
ParentReturns ==
    /\ ppc = "return"
    /\ req.tty => console
    /\ console' = FALSE
    /\ ppc' = "done"
    /\ UNCHANGED <<req, ppid, cpc, fpc, toParent, toChild, toFinal, mapped,
                   cgroup, hooks>>

\* A mapping, the cgroup or a hook fails after the word has been read: the
\* error is returned and the pipes stay open, so the children see no end
\* of file.
ParentFails ==
    /\ ppc \in {"waitUser", "waitPrestart", "waitPoststart"}
    /\ toParent # <<>>
    /\ toParent' = Tail(toParent)
    /\ mapped' \in {mapped, req.userns}
    /\ ppc' = "failed"
    /\ UNCHANGED <<req, ppid, cpc, fpc, toChild, toFinal, console, cgroup,
                   hooks>>

-----------------------------------------------------------------------------
(* The child.                                                              *)

\* Resource limits, the user namespace, then a word to the parent.
ChildSetsUp ==
    /\ cpc = "start"
    /\ toParent' = Append(toParent, 0)
    /\ cpc' = "waitMapped"
    /\ UNCHANGED <<req, ppc, ppid, fpc, toChild, toFinal, console, mapped,
                   cgroup, hooks>>

\* The mappings are there: enter the namespaces.
ChildJoins ==
    /\ cpc = "waitMapped"
    /\ toChild # <<>>
    /\ toChild' = Tail(toChild)
    /\ cpc' = "joined"
    /\ UNCHANGED <<req, ppc, ppid, fpc, toParent, toFinal, console, mapped,
                   cgroup, hooks>>

\* With a pid namespace, fork the final process, which inherits the
\* cgroup; without, be it.
ChildForks ==
    /\ cpc = "joined"
    /\ fpc' = "rootfs"
    /\ IF req.pidns
       THEN /\ cpc' = "sendPid"
            /\ cgroup' = IF Child \in cgroup THEN cgroup \cup {Grandchild}
                                             ELSE cgroup
       ELSE cpc' = "isFinal" /\ UNCHANGED cgroup
    /\ UNCHANGED <<req, ppc, ppid, pipes, mapped, hooks>>

\* Mutation: the child does not report the pid.
ChildKeepsPid ==
    /\ cpc = "sendPid"
    /\ cpc' = "waitResume"
    /\ UNCHANGED <<req, ppc, ppid, fpc, pipes, mapped, cgroup, hooks>>

ChildSendsPid ==
    /\ cpc = "sendPid"
    /\ toParent' = Append(toParent, Grandchild)
    /\ cpc' = "waitResume"
    /\ UNCHANGED <<req, ppc, ppid, fpc, toChild, toFinal, console, mapped,
                   cgroup, hooks>>

\* Mutation: the child exits without a word to the final process.
ChildExitsSilently ==
    /\ cpc = "waitResume"
    /\ toChild # <<>>
    /\ toChild' = Tail(toChild)
    /\ cpc' = "exited"
    /\ UNCHANGED <<req, ppc, ppid, fpc, toParent, toFinal, console, mapped,
                   cgroup, hooks>>

\* The parent has the pid: notify the final process and exit.
ChildNotifies ==
    /\ cpc = "waitResume"
    /\ toChild # <<>>
    /\ toChild' = Tail(toChild)
    /\ toFinal' = Append(toFinal, 0)
    /\ cpc' = "exited"
    /\ UNCHANGED <<req, ppc, ppid, fpc, toParent, console, mapped, cgroup,
                   hooks>>

\* An error in the child: exit(-1).
ChildFails ==
    /\ cpc \in {"start", "joined", "sendPid"}
    /\ cpc' = "dead"
    /\ UNCHANGED <<req, ppc, ppid, fpc, pipes, mapped, cgroup, hooks>>

-----------------------------------------------------------------------------
(* The final process.                                                      *)

\* Mutation: the final process does not wait for the child.
FinalDoesNotWait ==
    /\ fpc = "rootfs"
    /\ fpc' = IF req.init THEN "askPrestart" ELSE "stdio"
    /\ UNCHANGED <<req, ppc, ppid, cpc, pipes, mapped, cgroup, hooks>>

\* The root file system is mounted; with a pid namespace, wait until the
\* child has handed the pid over.
FinalMountsRootfs ==
    /\ fpc = "rootfs"
    /\ req.pidns => toFinal # <<>>
    /\ toFinal' = IF req.pidns THEN Tail(toFinal) ELSE toFinal
    /\ fpc' = IF req.init THEN "askPrestart" ELSE "stdio"
    /\ UNCHANGED <<req, ppc, ppid, cpc, toParent, toChild, console, mapped,
                   cgroup, hooks>>

FinalAsksPrestart ==
    /\ fpc = "askPrestart"
    /\ toParent' = Append(toParent, 0)
    /\ fpc' = "waitPrestart"
    /\ UNCHANGED <<req, ppc, ppid, cpc, toChild, toFinal, console, mapped,
                   cgroup, hooks>>

\* Mutation: the final process does not wait for the hooks.
FinalPivotsAtOnce ==
    /\ fpc = "waitPrestart"
    /\ fpc' = "stdio"
    /\ UNCHANGED <<req, ppc, ppid, cpc, pipes, mapped, cgroup, hooks>>

\* The hooks are through: pivot into the root file system.
FinalPivots ==
    /\ fpc = "waitPrestart"
    /\ toChild # <<>>
    /\ toChild' = Tail(toChild)
    /\ fpc' = "stdio"
    /\ UNCHANGED <<req, ppc, ppid, cpc, toParent, toFinal, console, mapped,
                   cgroup, hooks>>

\* setup_stdio sends the pty master, then user and capabilities are set.
FinalSetsStdio ==
    /\ fpc = "stdio"
    /\ console' = req.tty
    /\ fpc' = IF req.init THEN "askPoststart" ELSE "exec"
    /\ UNCHANGED <<req, ppc, ppid, cpc, toParent, toChild, toFinal, mapped,
                   cgroup, hooks>>

\* The poststart hooks are asked for, and the exec fifo is opened without
\* waiting for them.
FinalAsksPoststart ==
    /\ fpc = "askPoststart"
    /\ toParent' = Append(toParent, 0)
    /\ fpc' = "fifo"
    /\ UNCHANGED <<req, ppc, ppid, cpc, toChild, toFinal, console, mapped,
                   cgroup, hooks>>

\* An error in the final process, in join_namespaces: exit.
FinalFails ==
    /\ \/ fpc \in {"rootfs", "askPrestart"} /\ UNCHANGED toChild
       \/ /\ fpc = "waitPrestart" /\ toChild # <<>>
          /\ toChild' = Tail(toChild)
    /\ fpc' = "dead"
    /\ UNCHANGED <<req, ppc, ppid, cpc, toParent, toFinal, console, mapped,
                   cgroup, hooks>>

\* An error in the final process after join_namespaces: start() returns it,
\* in the final process, to the request handler it is a copy of.
FinalStrays ==
    /\ fpc \in {"stdio", "askPoststart", "fifo"}
    /\ fpc' = "stray"
    /\ UNCHANGED <<req, ppc, ppid, cpc, pipes, mapped, cgroup, hooks>>

-----------------------------------------------------------------------------
ParentStep ==
    \/ ParentMaps \/ ParentGetsPid \/ ParentPrestart \/ ParentPoststart
    \/ ParentReturns
ChildStep ==
    ChildSetsUp \/ ChildJoins \/ ChildForks \/ ChildSendsPid \/ ChildNotifies
FinalStep ==
    \/ FinalMountsRootfs \/ FinalAsksPrestart \/ FinalPivots
    \/ FinalSetsStdio \/ FinalAsksPoststart

Next ==
    \/ ParentStep \/ ParentFails
    \/ ChildStep \/ ChildFails
    \/ FinalStep \/ FinalFails \/ FinalStrays

Spec == Init /\ [][Next]_vars

\* Each process keeps running.
Fairness == WF_vars(ParentStep) /\ WF_vars(ChildStep) /\ WF_vars(FinalStep)
FairSpec == Spec /\ Fairness

-----------------------------------------------------------------------------
(* Properties.                                                             *)

Words == {0, Child, Grandchild}
HookNames == {"prestart", "poststart"}

\* Every variable has its type (the locals of start and join_namespaces and
\* the pipes between the processes).
TypeOK ==
    /\ req \in Requests
    /\ ppc \in {"waitUser", "waitPid", "waitPrestart", "waitPoststart",
                "return", "done", "failed"}
    /\ ppid \in Words
    /\ cpc \in {"start", "waitMapped", "joined", "sendPid", "waitResume",
                "exited", "isFinal", "dead"}
    /\ fpc \in {"none", "rootfs", "askPrestart", "waitPrestart", "stdio",
                "askPoststart", "fifo", "exec", "dead", "stray"}
    /\ toParent \in Seq(Words) /\ toChild \in Seq(Words) /\ toFinal \in Seq(Words)
    /\ console \in BOOLEAN /\ mapped \in BOOLEAN
    /\ cgroup \subseteq {Child, Grandchild}
    /\ hooks \in Seq(HookNames)

(***************************************************************************)
(* start() keeps the pid of the process that will run the program: "make   *)
(* sure the parent return pid before the child notify grand parent to run  *)
(* hooks, otherwise both of the parent and his child would write cfd at    *)
(* the same time" (container.rs).                                          *)
(***************************************************************************)
RightPid ==
    ppc \in {"waitPrestart", "waitPoststart", "return", "done"} => ppid = Final

(***************************************************************************)
(* No word is taken by the wrong reader: the child enters namespaces after *)
(* its ids are mapped, the final process changes its root after the        *)
(* prestart hooks, and the poststart hooks run once the final process is   *)
(* set up; each hook runs once, in order.                                  *)
(***************************************************************************)
WordsNotMixedUp ==
    /\ cpc \in {"joined", "sendPid", "waitResume", "exited", "isFinal"} =>
           mapped = req.userns
    /\ fpc \in {"stdio", "askPoststart", "fifo"} /\ req.init =>
           hooks # <<>>
    /\ hooks \in {<<>>, <<"prestart">>, <<"prestart", "poststart">>}
    /\ Len(hooks) = 2 => fpc \in {"fifo", "stray"}

(***************************************************************************)
(* The final process is in the container's cgroup from its first           *)
(* instruction on, though only the pid of the child is written there.      *)
(***************************************************************************)
AlwaysInCgroup == req.resources /\ fpc # "none" => Final \in cgroup

\* A child that dies leaves the parent waiting: it holds no promise.
ChildrenFail == cpc = "dead" \/ fpc \in {"dead", "stray"}

(***************************************************************************)
(* Unless a child fails, start() returns to the parent, with an error or   *)
(* with the process it has started: the parent never waits for a word that *)
(* the other two do not write (join_namespaces).                           *)
(***************************************************************************)
StartReturns == <>(ppc \in {"done", "failed"} \/ ChildrenFail)

(***************************************************************************)
(* Unless one of the three gives up, the final process gets to its program *)
(* or to the exec fifo, through all the words it and the child wait for    *)
(* (join_namespaces).                                                      *)
(***************************************************************************)
FinalGetsThere ==
    <>(fpc \in {"fifo", "exec"} \/ ppc = "failed" \/ ChildrenFail)
=============================================================================
