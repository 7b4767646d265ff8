------------------------ MODULE AgentProcessesProofs ------------------------
(***************************************************************************)
(* Proofs about AgentProcesses, for any number of containers, processes    *)
(* and gRPC threads.                                                       *)
(*                                                                         *)
(* The argument.  A process is Accounted for while the agent holds a write *)
(* end of its exit pipe, or after the reaper has stored its exit code.     *)
(* start() makes the pipe and fills the table in one critical section, and *)
(* the reaper, which may have collected the process before that, needs the *)
(* mutex to record it: it then finds the process in the table.  So the     *)
(* only processes of a table that are collected and not recorded are the   *)
(* one in the reaper's hands, and a waiter that reads the end of the pipe  *)
(* finds the exit code, even when it has meanwhile left the table.         *)
(***************************************************************************)
EXTENDS AgentWaitService, TLAPS

\* The reaper has stored the exit code of p.
Recorded(p) == run[p] = "gone" /\ exitCode[p] = died[p]
Accounted(p) == Agent \in writers[p] \/ Recorded(p)

\* What a request in progress has in its hands.
WorkerOK(w) ==
    /\ wpc[w] \in {"spawn", "opening", "ps"} => lock = w
    /\ wpc[w] = "spawn" =>
          /\ wpid[w] \in Pids
          /\ run[wpid[w]] # "none"
          /\ who[wpid[w]].role \in {"init", "exec"}
          /\ run[wpid[w]] = "gone" => rpid = wpid[w]
    /\ wpc[w] = "ps" =>
          /\ wpid[w] \in Pids
          /\ run[wpid[w]] # "none"
          /\ who[wpid[w]].role = "ps"
    /\ wpc[w] \in {"reading", "waited"} =>
          wpid[w] \in Pids /\ Accounted(wpid[w])
    /\ wpc[w] = "waited" => Recorded(wpid[w])

WorkerInv == \A w \in Workers : WorkerOK(w)

\* What is in the process tables.
TableInv ==
    \A p \in table :
        /\ run[p] # "none"
        /\ who[p].role \in {"init", "exec"}
        /\ Accounted(p)
        /\ run[p] = "gone" /\ rpid # p =>
              exitCode[p] = died[p] /\ Agent \notin writers[p]

\* What the reaper has in its hands.
ReaperInv ==
    rpid \in Pids => rpc \in {"record", "dead"} /\ run[rpid] = "gone"

Inv == TypeOK /\ WorkerInv /\ TableInv /\ ReaperInv

-----------------------------------------------------------------------------
(* Types.                                                                  *)

\* The steps of children keep the types.
LEMMA KernelType == TypeOK /\ Kernel => TypeOK'
  <1> SUFFICES ASSUME TypeOK, NEW p \in Pids,
                      \/ ChildAtFifo(p) \/ ChildExec(p)
                      \/ \E code \in Codes : ChildDies(p, code)
               PROVE  TypeOK'
    BY DEF Kernel
  <1> USE DEF TypeOK, sandboxVars, reaperVars, workerVars, requestVars
  <1>1. CASE ChildAtFifo(p)
    BY <1>1 DEF ChildAtFifo, Live
  <1>2. CASE ChildExec(p)
    BY <1>2 DEF ChildExec, Without, Live
  <1>3. ASSUME NEW code \in Codes, ChildDies(p, code) PROVE TypeOK'
    BY <1>3 DEF ChildDies, Without
  <1> QED
    BY <1>1, <1>2, <1>3

\* So do those of the reaper.
LEMMA ReaperType == TypeOK /\ Reaper => TypeOK'
  <1> SUFFICES ASSUME TypeOK, Reaper PROVE TypeOK'
    OBVIOUS
  <1> USE DEF TypeOK, sandboxVars, kernelVars, workerVars, requestVars
  <1>1. CASE ReaperWakes
    BY <1>1 DEF ReaperWakes
  <1>2. CASE ReaperSleeps
    BY <1>2 DEF ReaperSleeps
  <1>3. CASE ReaperRecords
    BY <1>3 DEF ReaperRecords
  <1>4. CASE ReaperPanics
    BY <1>4 DEF ReaperPanics
  <1>5. ASSUME NEW p \in Pids, ReaperCollects(p) PROVE TypeOK'
    BY <1>5 DEF ReaperCollects
  <1> QED
    BY <1>1, <1>2, <1>3, <1>4, <1>5 DEF Reaper

\* KillSent and Effect are maps of pending signals.
LEMMA PendingType ==
    ASSUME pending \in [Pids -> {0, SIGKILL, SIGTERM}]
    PROVE  /\ \A ps : KillSent(ps) \in [Pids -> {0, SIGKILL, SIGTERM}]
           /\ \A p, h : \A sig \in {SIGTERM, SIGKILL} :
                 Effect(p, sig, h) \in [Pids -> {0, SIGKILL, SIGTERM}]
  BY DEF KillSent, Effect

\* A fork keeps the types of what it changes.
LEMMA ForkType ==
    ASSUME TypeOK, NEW q \in Pids, NEW c \in Cids,
           NEW e \in Eids \cup {InitEid}, NEW role \in Roles,
           Fork(q, c, e, role)
    PROVE  /\ run' \in [Pids -> Live \cup {"none", "zombie", "gone"}]
           /\ who' \in [Pids -> [cid : Cids \cup {NoCid},
                                 eid : Eids \cup {InitEid}, role : Roles]]
           /\ writers' \in [Pids -> SUBSET (Pids \cup {Agent})]
  BY DEF Fork, Inherited, TypeOK, Live

\* A request that panics before it has changed anything.
PanicsAtOnce(w) ==
    /\ wpc[w] = "idle"
    /\ Panics(w)
    /\ UNCHANGED <<lock, sandboxVars, kernelVars, reaperVars, helper>>

\* The unwraps of setup_bundle and do_signal_process are such requests.
LEMMA UnwrapsPanic ==
    ASSUME NEW w \in Workers, CreatePanics(w) \/ \E ps : SignalPanics(w, ps)
    PROVE  PanicsAtOnce(w)
  BY DEF CreatePanics, SignalPanics, Idle, PanicsAtOnce

\* A request that begins keeps the types.
LEMMA BeginsType ==
    ASSUME TypeOK, NEW w \in Workers, Begins(w) PROVE TypeOK'
  <1>p. /\ pending \in [Pids -> {0, SIGKILL, SIGTERM}]
        /\ \A ps : KillSent(ps) \in [Pids -> {0, SIGKILL, SIGTERM}]
        /\ \A p, h : \A sig \in {SIGTERM, SIGKILL} :
              Effect(p, sig, h) \in [Pids -> {0, SIGKILL, SIGTERM}]
    BY PendingType DEF TypeOK
  <1> DEFINE Group1(c) == \/ CreateRefused(w, c) \/ CreateFails(w, c)
                          \/ ExecRefused(w, c)
                          \/ StartRefused(w, c) \/ StartOpens(w, c)
                          \/ ListPanics(w, c) \/ RemovePanics(w, c)
                          \/ RemoveSpawns(w, c)
             Group2(c) == \/ RemoveFails(w, c) \/ RemoveUnmountFails(w, c)
                          \/ RemoveSucceeds(w, c)
  <1>1. CASE CreateSandbox(w)
    BY <1>1 DEF CreateSandbox, Replies, Ends, TypeOK, kernelVars, reaperVars,
                WorkerPcs
  <1>11. CASE CreatePanics(w) \/ \E ps : SignalPanics(w, ps)
    BY <1>11, UnwrapsPanic DEF PanicsAtOnce, Panics, Ends, TypeOK, sandboxVars,
                kernelVars, reaperVars, WorkerPcs
  <1>2. CASE DestroySandbox(w)
    <2>1. pending' \in [Pids -> {0, SIGKILL, SIGTERM}]
      BY <1>2, <1>p DEF DestroySandbox
    <2>2. \A cs : Stopped(cs) \in
              [Cids -> {"absent", "created", "running", "stopped"}]
      BY DEF Stopped, TypeOK
    <2>3. status' \in [Cids -> {"absent", "created", "running", "stopped"}]
      BY <1>2, <2>2 DEF DestroySandbox
    <2>4. /\ Panics(w) \/ (Replies(w) /\ UNCHANGED poisoned)
          /\ sender' \in BOOLEAN
          /\ UNCHANGED <<lock, initPid, fifo, table, exitCode, who, run, died,
                         writers, sigchld, rpc, rpid, helper>>
      BY <1>2 DEF DestroySandbox, TypeOK, reaperVars
    <2> QED
      BY <2>1, <2>3, <2>4 DEF Panics, Replies, Ends, TypeOK, WorkerPcs
  <1>3. ASSUME NEW c \in Cids, Group1(c) PROVE TypeOK'
    <2> USE DEF TypeOK, sandboxVars, kernelVars, reaperVars, WorkerPcs,
                Replies, Panics, Ends
    <2>1. CASE CreateRefused(w, c)
      BY <2>1 DEF CreateRefused
    <2>2. CASE ExecRefused(w, c)
      BY <2>2 DEF ExecRefused
    <2>8. CASE CreateFails(w, c)
      BY <2>8 DEF CreateFails
    <2>3. CASE StartRefused(w, c)
      BY <2>3 DEF StartRefused
    <2>4. CASE StartOpens(w, c)
      BY <2>4 DEF StartOpens
    <2>5. CASE ListPanics(w, c)
      BY <2>5 DEF ListPanics
    <2>6. CASE RemovePanics(w, c)
      BY <2>6 DEF RemovePanics
    <2>7. CASE RemoveSpawns(w, c)
      BY <2>7 DEF RemoveSpawns
    <2> QED
      BY <1>3, <2>1, <2>2, <2>3, <2>4, <2>5, <2>6, <2>7, <2>8
  <1>4. ASSUME NEW c \in Cids, Group2(c) PROVE TypeOK'
    <2>1. pending' \in [Pids -> {0, SIGKILL, SIGTERM}]
      BY <1>4, <1>p DEF RemoveFails, RemoveUnmountFails, RemoveSucceeds,
                        DestroyFails, DestroySucceeds
    <2> QED
      BY <1>4, <2>1 DEF RemoveFails, RemoveUnmountFails, RemoveSucceeds,
            Replies, Ends, TypeOK, sandboxVars, reaperVars, WorkerPcs
  <1>5. ASSUME NEW ps, SignalFinds(w, ps) PROVE TypeOK'
    <2>1. pending' \in [Pids -> {0, SIGKILL, SIGTERM}]
      BY <1>5, <1>p DEF SignalFinds
    <2> QED
      BY <1>5, <2>1 DEF SignalFinds, Replies, Ends, TypeOK, sandboxVars,
                        reaperVars, WorkerPcs
  <1>6. ASSUME NEW c \in Cids, NEW e \in Eids \cup {InitEid},
               WaitRefused(w, c, e)
        PROVE  TypeOK'
    BY <1>6 DEF WaitRefused, Replies, Ends, TypeOK, sandboxVars, kernelVars,
                reaperVars, WorkerPcs
  <1>7. ASSUME NEW c \in Cids, NEW p \in Pids, WaitFinds(w, c, p)
        PROVE  TypeOK'
    BY <1>7 DEF WaitFinds, TypeOK, sandboxVars, kernelVars, reaperVars,
                WorkerPcs
  <1>8. ASSUME NEW c \in Cids, NEW p \in Pids, CreateForks(w, c, p)
        PROVE  TypeOK'
    <2>1. Fork(p, c, InitEid, "init") /\ "init" \in Roles
      BY <1>8 DEF CreateForks, Roles
    <2> QED
      BY <1>8, <2>1, ForkType DEF CreateForks, TypeOK, reaperVars, WorkerPcs
  <1>9. ASSUME NEW c \in Cids, NEW p \in Pids, ListForks(w, c, p)
        PROVE  TypeOK'
    <2>1. Fork(p, c, InitEid, "ps") /\ "ps" \in Roles
      BY <1>9 DEF ListForks, Roles
    <2> QED
      BY <1>9, <2>1, ForkType
      DEF ListForks, TypeOK, sandboxVars, reaperVars, WorkerPcs
  <1>10. ASSUME NEW c \in Cids, NEW e \in Eids, NEW p \in Pids,
                ExecForks(w, c, e, p)
         PROVE  TypeOK'
    <2>1. Fork(p, c, e, "exec") /\ "exec" \in Roles
      BY <1>10 DEF ExecForks, Roles
    <2> QED
      BY <1>10, <2>1, ForkType
      DEF ExecForks, TypeOK, sandboxVars, reaperVars, WorkerPcs
  <1> QED
    BY <1>1, <1>2, <1>3, <1>4, <1>5, <1>6, <1>7, <1>8, <1>9, <1>10,
       <1>11
    DEF Begins, SignalAll, SignalProcess

\* A request that goes on keeps the types.
LEMMA ContinuesType ==
    ASSUME TypeOK, WorkerInv, NEW w \in Workers, Continues(w) PROVE TypeOK'
  <1> USE DEF TypeOK, sandboxVars, kernelVars, reaperVars, requestVars,
              WorkerPcs, Replies, Panics, Ends
  <1>1. CASE SpawnSucceeds(w)
    <2>1. wpid[w] \in Pids
      BY <1>1 DEF SpawnSucceeds, WorkerInv, WorkerOK
    <2> QED
      BY <1>1, <2>1 DEF SpawnSucceeds
  <1>2. CASE SpawnFails(w)
    BY <1>2 DEF SpawnFails, Live
  <1>3. CASE StartWrites(w)
    BY <1>3 DEF StartWrites, Live
  <1>4. CASE WaitReads(w)
    BY <1>4 DEF WaitReads
  <1>5. CASE WaitReturns(w)
    BY <1>5 DEF WaitReturns
  <1>6. CASE ListCollects(w)
    BY <1>6 DEF ListCollects
  <1>7. CASE ListLosesRace(w)
    BY <1>7 DEF ListLosesRace
  <1>8. CASE RemoveTimesOut(w)
    BY <1>8 DEF RemoveTimesOut
  <1>9. CASE RemoveAfterJoin(w)
    BY <1>9 DEF RemoveAfterJoin
  <1>10. CASE LockPanics(w)
    BY <1>10 DEF LockPanics
  <1> QED
    BY <1>1, <1>2, <1>3, <1>4, <1>5, <1>6, <1>7, <1>8, <1>9, <1>10
    DEF Continues

\* So does the thread that destroys a container for a timed removal.
LEMMA HelperType ==
    ASSUME TypeOK, NEW w \in Workers, HelperDestroys(w) \/ HelperPanics(w)
    PROVE  TypeOK'
  <1>1. pending' \in [Pids -> {0, SIGKILL, SIGTERM}]
    BY PendingType DEF HelperDestroys, HelperPanics, DestroySucceeds,
                       DestroyFails, TypeOK
  <1>2. CASE HelperDestroys(w)
    BY <1>1, <1>2 DEF HelperDestroys, TypeOK, reaperVars, WorkerPcs
  <1>3. CASE HelperPanics(w)
    BY <1>1, <1>3 DEF HelperPanics, TypeOK, sandboxVars, reaperVars
  <1> QED
    BY <1>2, <1>3

-----------------------------------------------------------------------------
(* Steps that collect nobody, record nothing and fill no table.            *)

Frame ==
    /\ \A p \in Pids :
          /\ run'[p] = "gone" <=> run[p] = "gone"
          /\ run[p] # "none" => run'[p] # "none" /\ who'[p] = who[p]
          /\ run[p] = "gone" => died'[p] = died[p]
          /\ Agent \in writers'[p] <=> Agent \in writers[p]
    /\ exitCode' = exitCode
    /\ table' \subseteq table
    /\ rpid' = rpid
    /\ rpid \in Pids /\ rpc \in {"record", "dead"} =>
          rpc' \in {"record", "dead"}

\* The step is not one of worker v.
Uninvolved(v) ==
    wpc'[v] = wpc[v] /\ wpid'[v] = wpid[v] /\ (lock = v => lock' = v)

\* Such a step keeps the tables, the reaper and the requests it is not of.
LEMMA FrameKeeps ==
    ASSUME Inv, Frame
    PROVE  /\ TableInv' /\ ReaperInv'
           /\ \A v \in Workers : Uninvolved(v) => WorkerOK(v)'
  <1> USE DEF Inv, TypeOK, Frame
  <1>1. TableInv'
    BY DEF TableInv, Accounted, Recorded
  <1>2. ReaperInv'
    BY DEF ReaperInv
  <1>3. ASSUME NEW v \in Workers, Uninvolved(v) PROVE WorkerOK(v)'
    <2>1. WorkerOK(v)
      BY DEF WorkerInv
    <2> QED
      BY <1>3, <2>1 DEF WorkerOK, Uninvolved, Accounted, Recorded
  <1> QED
    BY <1>1, <1>2, <1>3

\* A fork is such a step, and what it forks is a process the reaper does not
\* have.
LEMMA ForkFrame ==
    ASSUME TypeOK, NEW q \in Pids, NEW c, NEW e, NEW role,
           Fork(q, c, e, role), died' = died
    PROVE  /\ \A p \in Pids :
                 /\ run'[p] = "gone" <=> run[p] = "gone"
                 /\ run[p] # "none" => run'[p] # "none" /\ who'[p] = who[p]
                 /\ run[p] = "gone" => died'[p] = died[p]
                 /\ Agent \in writers'[p] <=> Agent \in writers[p]
           /\ run'[q] = "setup" /\ who'[q].role = role
  <1>1. Agent # q
    BY MarkersAssumption
  <1> QED
    BY <1>1 DEF Fork, Inherited, TypeOK

\* The steps of children.
LEMMA KernelKeeps ==
    ASSUME Inv, Kernel PROVE WorkerInv' /\ TableInv' /\ ReaperInv'
  <1> USE DEF Inv, TypeOK
  <1>1. PICK p \in Pids : \/ ChildAtFifo(p) \/ ChildExec(p)
                          \/ \E code \in Codes : ChildDies(p, code)
    BY DEF Kernel
  <1>2. Agent # p
    BY MarkersAssumption
  <1>3. Frame
    <2>1. CASE ChildAtFifo(p)
      BY <2>1 DEF ChildAtFifo, Frame, sandboxVars, reaperVars
    <2>2. CASE ChildExec(p)
      BY <1>2, <2>2 DEF ChildExec, Without, Frame, sandboxVars, reaperVars
    <2>3. ASSUME NEW code \in Codes, ChildDies(p, code) PROVE Frame
      BY <1>2, <2>3
      DEF ChildDies, Without, Frame, Live, sandboxVars, reaperVars
    <2> QED
      BY <1>1, <2>1, <2>2, <2>3
  <1>4. \A v \in Workers : Uninvolved(v)
    BY <1>1 DEF ChildAtFifo, ChildExec, ChildDies, Uninvolved, workerVars,
                requestVars
  <1> QED
    BY <1>3, <1>4, FrameKeeps DEF WorkerInv

-----------------------------------------------------------------------------
(* The reaper.                                                             *)

\* A process the reaper collects is in its hands.
LEMMA CollectKeeps ==
    ASSUME Inv, NEW p \in Pids, ReaperCollects(p)
    PROVE  WorkerInv' /\ TableInv' /\ ReaperInv'
  <1> USE DEF Inv, TypeOK
  <1>1. /\ run[p] = "zombie" /\ run' = [run EXCEPT ![p] = "gone"]
        /\ rpc = "loop" /\ rpid' = p /\ rpc' = "record"
        /\ UNCHANGED <<lock, who, died, writers, table, exitCode, wpc, wpid>>
    BY DEF ReaperCollects, sandboxVars, workerVars, requestVars
  <1>2. rpid \notin Pids
    BY <1>1 DEF ReaperInv
  <1>3. \A q \in Pids : Accounted(q) => Accounted(q)'
    BY <1>1 DEF Accounted, Recorded
  <1>4. \A q \in Pids : Recorded(q) => Recorded(q)'
    BY <1>1 DEF Recorded
  <1>5. TableInv'
    BY <1>1, <1>2, <1>3 DEF TableInv
  <1>6. ReaperInv'
    BY <1>1 DEF ReaperInv
  <1>7. ASSUME NEW v \in Workers PROVE WorkerOK(v)'
    <2>1. WorkerOK(v)
      BY DEF WorkerInv
    <2> QED
      BY <1>1, <1>2, <1>3, <1>4, <2>1 DEF WorkerOK
  <1> QED
    BY <1>5, <1>6, <1>7 DEF WorkerInv

\* What the reaper records is right, and nobody is between the fork and the
\* table meanwhile.
LEMMA RecordKeeps ==
    ASSUME Inv, ReaperRecords PROVE WorkerInv' /\ TableInv' /\ ReaperInv'
  <1> USE DEF Inv, TypeOK
  <1>1. /\ lock = Free /\ rpid' = NoPid
        /\ exitCode' = IF rpid \in table
                       THEN [exitCode EXCEPT ![rpid] = died[rpid]]
                       ELSE exitCode
        /\ writers' = IF rpid \in table
                      THEN [writers EXCEPT ![rpid] = @ \ {Agent}] ELSE writers
        /\ UNCHANGED <<lock, who, run, died, table, wpc, wpid>>
    BY DEF ReaperRecords, workerVars, requestVars
  <1>2. NoPid \notin Pids /\ Free \notin Workers
    BY MarkersAssumption
  <1>3. rpid \in table => run[rpid] = "gone"
    BY DEF ReaperInv
  <1>4. \A q \in Pids : Recorded(q) => Recorded(q)'
    BY <1>1 DEF Recorded
  <1>5. \A q \in Pids : Accounted(q) => Accounted(q)'
    BY <1>1, <1>3, <1>4 DEF Accounted, Recorded
  <1>6. TableInv'
    <2> SUFFICES ASSUME NEW q \in table
                 PROVE  /\ run[q] # "none"
                        /\ who[q].role \in {"init", "exec"}
                        /\ Accounted(q)'
                        /\ run[q] = "gone" =>
                              exitCode'[q] = died[q] /\ Agent \notin writers'[q]
      BY <1>1 DEF TableInv
    <2>1. q \in Pids
      OBVIOUS
    <2>2. CASE q = rpid
      BY <1>1, <1>5, <2>1, <2>2 DEF TableInv
    <2>3. CASE q # rpid
      BY <1>1, <1>5, <2>1, <2>3 DEF TableInv
    <2> QED
      BY <2>2, <2>3
  <1>7. ReaperInv'
    BY <1>1, <1>2 DEF ReaperInv
  <1>8. ASSUME NEW v \in Workers PROVE WorkerOK(v)'
    <2>1. WorkerOK(v)
      BY DEF WorkerInv
    <2> QED
      BY <1>1, <1>2, <1>4, <1>5, <2>1 DEF WorkerOK
  <1> QED
    BY <1>6, <1>7, <1>8 DEF WorkerInv

\* The steps of the reaper.
LEMMA ReaperKeeps ==
    ASSUME Inv, Reaper PROVE WorkerInv' /\ TableInv' /\ ReaperInv'
  <1>1. CASE ReaperWakes \/ ReaperSleeps \/ ReaperPanics
    <2>1. Frame
      BY <1>1 DEF ReaperWakes, ReaperSleeps, ReaperPanics, Frame, Inv,
                  ReaperInv, kernelVars, sandboxVars
    <2>2. \A v \in Workers : Uninvolved(v)
      BY <1>1 DEF ReaperWakes, ReaperSleeps, ReaperPanics, Uninvolved,
                  workerVars, requestVars
    <2> QED
      BY <2>1, <2>2, FrameKeeps DEF WorkerInv
  <1> QED
    BY <1>1, CollectKeeps, RecordKeeps DEF Reaper

-----------------------------------------------------------------------------
(* Requests.                                                               *)

\* The step is one of worker w alone.
OnlyOf(w) == \A v \in Workers \ {w} : Uninvolved(v)

\* A frame step of w keeps the invariant if it leaves w in order.
LEMMA OwnStep ==
    ASSUME Inv, Frame, NEW w \in Workers, OnlyOf(w), WorkerOK(w)'
    PROVE  WorkerInv' /\ TableInv' /\ ReaperInv'
  BY FrameKeeps DEF WorkerInv, OnlyOf

\* A request that has nothing in its hands afterwards is in order.
Done(w) == wpc'[w] \in {"idle", "dead", "joining", "joined"}

\* Nothing is asked of such a request.
LEMMA DoneOK == ASSUME NEW w, Done(w) PROVE WorkerOK(w)'
  BY DEF Done, WorkerOK

\* Requests of one step, refusals and panics.
LEMMA QuietKeeps ==
    ASSUME Inv, NEW w \in Workers,
           UNCHANGED <<lock, exitCode, who, run, died, writers, rpc, rpid>>,
           table' \subseteq table,
           \A v \in Workers \ {w} : wpc'[v] = wpc[v] /\ wpid'[v] = wpid[v],
           Done(w)
    PROVE  WorkerInv' /\ TableInv' /\ ReaperInv'
  <1>1. Frame
    BY DEF Frame
  <1>2. OnlyOf(w)
    BY DEF OnlyOf, Uninvolved
  <1> QED
    BY <1>1, <1>2, OwnStep, DoneOK

\* A request forks, takes the mutex and keeps it.
Forks(w, p, c, e, role, at) ==
    /\ Fork(p, c, e, role)
    /\ \/ at = "spawn" /\ role \in {"init", "exec"}
       \/ at = "ps" /\ role = "ps"
    /\ wpc' = [wpc EXCEPT ![w] = at]
    /\ wpid' = [wpid EXCEPT ![w] = p]
    /\ lock = Free /\ lock' = w
    /\ UNCHANGED <<died, exitCode, table, rpc, rpid>>

\* It then has a process in its hands that is in no other.
LEMMA ForksKeeps ==
    ASSUME Inv, NEW w \in Workers, NEW p \in Pids, NEW c, NEW e, NEW role,
           NEW at, Forks(w, p, c, e, role, at)
    PROVE  WorkerInv' /\ TableInv' /\ ReaperInv'
  <1> USE DEF Forks
  <1>t. /\ wpc \in [Workers -> WorkerPcs]
        /\ wpid \in [Workers -> Pids \cup {NoPid}]
    BY DEF Inv, TypeOK
  <1>1. Frame /\ run'[p] = "setup" /\ who'[p].role = role
    BY ForkFrame DEF Frame, Inv
  <1>2. OnlyOf(w)
    BY <1>t, MarkersAssumption DEF OnlyOf, Uninvolved
  <1>3. WorkerOK(w)'
    BY <1>t, <1>1 DEF WorkerOK
  <1> QED
    BY <1>1, <1>2, <1>3, OwnStep

\* A request that begins.
LEMMA BeginsKeeps ==
    ASSUME Inv, NEW w \in Workers, Begins(w)
    PROVE  WorkerInv' /\ TableInv' /\ ReaperInv'
  <1> DEFINE
        Quiet ==
            /\ UNCHANGED <<lock, exitCode, who, run, died, writers, rpc, rpid>>
            /\ table' \subseteq table
            /\ \A v \in Workers \ {w} : wpc'[v] = wpc[v] /\ wpid'[v] = wpid[v]
            /\ Done(w)
        Goal == WorkerInv' /\ TableInv' /\ ReaperInv'
  <1> USE DEF Replies, Panics, Ends, Done
  <1>t. /\ wpc \in [Workers -> WorkerPcs]
        /\ wpid \in [Workers -> Pids \cup {NoPid}]
    BY DEF Inv, TypeOK
  <1>q. Quiet => Goal
    BY QuietKeeps
  <1>1. CreateSandbox(w) \/ DestroySandbox(w) => Quiet
    BY <1>t DEF CreateSandbox, DestroySandbox, kernelVars, reaperVars
  <1>u. (CreatePanics(w) \/ \E ps : SignalPanics(w, ps)) => Quiet
    BY <1>t, UnwrapsPanic DEF PanicsAtOnce, kernelVars, reaperVars, sandboxVars
  <1>2. ASSUME NEW c \in Cids PROVE
           CreateRefused(w, c) \/ CreateFails(w, c) \/ ExecRefused(w, c)
             \/ StartRefused(w, c) \/ ListPanics(w, c) \/ RemovePanics(w, c)
             \/ RemoveSpawns(w, c)
           => Quiet
    BY <1>t DEF CreateRefused, CreateFails, ExecRefused, StartRefused,
                ListPanics, RemovePanics, RemoveSpawns, sandboxVars,
                kernelVars, reaperVars
  <1>3. ASSUME NEW c \in Cids PROVE
           RemoveFails(w, c) \/ RemoveUnmountFails(w, c) \/ RemoveSucceeds(w, c)
           => Quiet
    BY <1>t DEF RemoveFails, RemoveUnmountFails, RemoveSucceeds, sandboxVars,
                reaperVars
  <1>4. \A ps : SignalFinds(w, ps) => Quiet
    BY <1>t DEF SignalFinds, sandboxVars, reaperVars
  <1>5. \A c, e : WaitRefused(w, c, e) => Quiet
    BY <1>t DEF WaitRefused, sandboxVars, kernelVars, reaperVars
  <1>l. \A v \in Workers : v # Free
    BY MarkersAssumption
  <1>6. ASSUME NEW c \in Cids, StartOpens(w, c) PROVE Goal
    <2>1. Frame /\ OnlyOf(w)
      BY <1>6, <1>l, <1>t DEF StartOpens, Unlocked, Frame, OnlyOf, Uninvolved,
                        sandboxVars, kernelVars, reaperVars
    <2>2. WorkerOK(w)'
      BY <1>6, <1>t DEF StartOpens, WorkerOK
    <2> QED
      BY <2>1, <2>2, OwnStep
  <1>7. ASSUME NEW c \in Cids, NEW p \in Pids, WaitFinds(w, c, p) PROVE Goal
    <2>1. Frame /\ OnlyOf(w)
      BY <1>7, <1>t DEF WaitFinds, Frame, OnlyOf, Uninvolved, sandboxVars,
                        kernelVars, reaperVars
    <2>2. p \in table
      BY <1>7 DEF WaitFinds, Named, Procs
    <2>3. Accounted(p)'
      BY <1>7, <2>2 DEF WaitFinds, Inv, TableInv, Accounted, Recorded,
                        sandboxVars, kernelVars
    <2>4. WorkerOK(w)'
      BY <1>7, <1>t, <2>3 DEF WaitFinds, WorkerOK
    <2> QED
      BY <2>1, <2>4, OwnStep
  <1>8. ASSUME NEW c \in Cids, NEW p \in Pids,
               CreateForks(w, c, p) \/ ListForks(w, c, p)
                 \/ \E e \in Eids : ExecForks(w, c, e, p)
        PROVE  Goal
    <2>1. CASE CreateForks(w, c, p)
      <3>1. Forks(w, p, c, InitEid, "init", "spawn")
        BY <2>1 DEF CreateForks, Forks, Unlocked, reaperVars
      <3> QED
        BY <3>1, ForksKeeps
    <2>2. CASE ListForks(w, c, p)
      <3>1. Forks(w, p, c, InitEid, "ps", "ps")
        BY <2>2 DEF ListForks, Forks, Unlocked, sandboxVars, reaperVars
      <3> QED
        BY <3>1, ForksKeeps
    <2>3. ASSUME NEW e \in Eids, ExecForks(w, c, e, p) PROVE Goal
      <3>1. Forks(w, p, c, e, "exec", "spawn")
        BY <2>3 DEF ExecForks, Forks, Unlocked, sandboxVars, reaperVars
      <3> QED
        BY <3>1, ForksKeeps
    <2> QED
      BY <1>8, <2>1, <2>2, <2>3
  <1> HIDE DEF Goal, Quiet
  <1>9. Goal
    BY <1>q, <1>u, <1>1, <1>2, <1>3, <1>4, <1>5, <1>6, <1>7, <1>8
    DEF Begins, SignalAll, SignalProcess
  <1> QED
    BY <1>9 DEF Goal

\* The table is filled with a process that is accounted for, and that the
\* reaper has not yet recorded.
LEMMA SpawnKeeps ==
    ASSUME Inv, NEW w \in Workers, SpawnSucceeds(w)
    PROVE  WorkerInv' /\ TableInv' /\ ReaperInv'
  <1> USE DEF Inv, TypeOK
  <1> DEFINE p == wpid[w]
  <1>1. WorkerOK(w) /\ wpc[w] = "spawn"
    BY DEF WorkerInv, SpawnSucceeds
  <1>2. /\ p \in Pids /\ run[p] # "none" /\ lock = w
        /\ who[p].role \in {"init", "exec"}
        /\ run[p] = "gone" => rpid = p
    BY <1>1 DEF WorkerOK
  <1>3. /\ table' \subseteq table \cup {p}
        /\ writers' = [writers EXCEPT ![p] = @ \cup {Agent}]
        /\ wpc' = [wpc EXCEPT ![w] = "idle"]
        /\ wpid' = [wpid EXCEPT ![w] = NoPid]
        /\ UNCHANGED <<exitCode, who, run, died, rpc, rpid>>
    BY DEF SpawnSucceeds, Replies, Ends, reaperVars
  <1> HIDE DEF p
  <1>4. \A q \in Pids : Recorded(q) => Recorded(q)'
    BY <1>3 DEF Recorded
  <1>5. \A q \in Pids : q = p \/ Accounted(q) => Accounted(q)'
    BY <1>2, <1>3, <1>4 DEF Accounted
  <1>6. TableInv'
    BY <1>2, <1>3, <1>5 DEF TableInv
  <1>7. ReaperInv'
    BY <1>3 DEF ReaperInv
  <1>8. ASSUME NEW v \in Workers PROVE WorkerOK(v)'
    <2>1. CASE v = w
      BY <1>3, <2>1 DEF WorkerOK
    <2>2. CASE v # w
      <3>1. WorkerOK(v) /\ lock # v
        BY <1>2, <2>2 DEF WorkerInv
      <3> QED
        BY <1>3, <1>4, <1>5, <2>2, <3>1 DEF WorkerOK
    <2> QED
      BY <2>1, <2>2
  <1> QED
    BY <1>6, <1>7, <1>8 DEF WorkerInv

\* The ps that list_processes collects is in no table.
LEMMA ListKeeps ==
    ASSUME Inv, NEW w \in Workers, ListCollects(w)
    PROVE  WorkerInv' /\ TableInv' /\ ReaperInv'
  <1> USE DEF Inv, TypeOK
  <1> DEFINE p == wpid[w]
  <1>1. WorkerOK(w) /\ wpc[w] = "ps"
    BY DEF WorkerInv, ListCollects
  <1>2. p \in Pids /\ who[p].role = "ps" /\ lock = w
    BY <1>1 DEF WorkerOK
  <1>3. /\ run[p] = "zombie" /\ run' = [run EXCEPT ![p] = "gone"]
        /\ wpc' = [wpc EXCEPT ![w] = "idle"]
        /\ wpid' = [wpid EXCEPT ![w] = NoPid]
        /\ UNCHANGED <<table, writers, exitCode, who, died, rpc, rpid>>
    BY DEF ListCollects, Replies, Ends, sandboxVars, reaperVars
  <1> HIDE DEF p
  <1>4. \A q \in Pids : Recorded(q) => Recorded(q)'
    BY <1>3 DEF Recorded
  <1>5. \A q \in Pids : Accounted(q) => Accounted(q)'
    BY <1>3, <1>4 DEF Accounted
  <1>6. TableInv'
    BY <1>2, <1>3, <1>5 DEF TableInv
  <1>7. ReaperInv'
    BY <1>3 DEF ReaperInv
  <1>8. ASSUME NEW v \in Workers PROVE WorkerOK(v)'
    <2>1. CASE v = w
      BY <1>3, <2>1 DEF WorkerOK
    <2>2. CASE v # w
      <3>1. WorkerOK(v) /\ lock # v
        BY <1>2, <2>2 DEF WorkerInv
      <3> QED
        BY <1>3, <1>4, <1>5, <2>2, <3>1 DEF WorkerOK
    <2> QED
      BY <2>1, <2>2
  <1> QED
    BY <1>6, <1>7, <1>8 DEF WorkerInv

\* A request that goes on.
LEMMA ContinuesKeeps ==
    ASSUME Inv, NEW w \in Workers, Continues(w)
    PROVE  WorkerInv' /\ TableInv' /\ ReaperInv'
  <1> DEFINE Goal == WorkerInv' /\ TableInv' /\ ReaperInv'
  <1>t. /\ wpc \in [Workers -> WorkerPcs]
        /\ wpid \in [Workers -> Pids \cup {NoPid}]
        /\ run \in [Pids -> Live \cup {"none", "zombie", "gone"}]
    BY DEF Inv, TypeOK
  <1>w. WorkerOK(w)
    BY DEF Inv, WorkerInv
  <1> USE DEF Replies, Panics, Ends
  <1>1. ASSUME SpawnFails(w) \/ StartWrites(w) \/ ListLosesRace(w) PROVE Goal
    <2>1. lock = w
      BY <1>1, <1>w DEF SpawnFails, StartWrites, ListLosesRace, WorkerOK
    <2>2. OnlyOf(w) /\ Done(w)
      BY <1>1, <1>t, <2>1 DEF SpawnFails, StartWrites, ListLosesRace, OnlyOf,
                              Uninvolved, Done
    <2>3. Frame
      BY <1>1, <1>t DEF SpawnFails, StartWrites, ListLosesRace, Frame,
                        sandboxVars, kernelVars, reaperVars
    <2> QED
      BY <2>2, <2>3, OwnStep, DoneOK
  <1>2. ASSUME WaitReads(w) PROVE Goal
    <2>1. Frame /\ OnlyOf(w)
      BY <1>2, <1>t DEF WaitReads, Frame, OnlyOf, Uninvolved, sandboxVars,
                        kernelVars, reaperVars, requestVars
    <2>2. wpid[w] \in Pids /\ Recorded(wpid[w])
      BY <1>2, <1>w DEF WaitReads, WorkerOK, Accounted
    <2>3. WorkerOK(w)'
      BY <1>2, <1>t, <2>2 DEF WaitReads, WorkerOK, Accounted, Recorded,
             sandboxVars, kernelVars, requestVars
    <2> QED
      BY <2>1, <2>3, OwnStep
  <1>3. ASSUME WaitReturns(w) \/ RemoveTimesOut(w) \/ RemoveAfterJoin(w)
                 \/ LockPanics(w)
        PROVE  Goal
    <2>1. /\ UNCHANGED <<lock, exitCode, who, run, died, writers, rpc, rpid>>
          /\ table' \subseteq table
          /\ \A v \in Workers \ {w} : wpc'[v] = wpc[v] /\ wpid'[v] = wpid[v]
          /\ Done(w)
      BY <1>3, <1>t DEF WaitReturns, RemoveTimesOut, RemoveAfterJoin,
             LockPanics, Done, sandboxVars, kernelVars, reaperVars
    <2> QED
      BY <2>1, QuietKeeps
  <1> QED
    BY <1>1, <1>2, <1>3, SpawnKeeps, ListKeeps DEF Continues

\* The thread of a timed removal.
LEMMA HelperKeeps ==
    ASSUME Inv, NEW w \in Workers, HelperDestroys(w) \/ HelperPanics(w)
    PROVE  WorkerInv' /\ TableInv' /\ ReaperInv'
  <1>t. wpc \in [Workers -> WorkerPcs]
    BY DEF Inv, TypeOK
  <1>1. Frame /\ OnlyOf(w)
    BY <1>t DEF HelperDestroys, HelperPanics, Frame, OnlyOf, Uninvolved,
                sandboxVars, reaperVars
  <1>2. WorkerOK(w)'
    <2>1. CASE Done(w)
      BY <2>1, DoneOK
    <2>2. CASE ~Done(w)
      <3>1. Uninvolved(w)
        BY <1>t, <2>2 DEF HelperDestroys, HelperPanics, Uninvolved, Done
      <3> QED
        BY <1>1, <3>1, FrameKeeps
    <2> QED
      BY <2>1, <2>2
  <1> QED
    BY <1>1, <1>2, OwnStep

-----------------------------------------------------------------------------
\* The invariant holds at first ...
LEMMA InvInit == Init => Inv
  <1> SUFFICES ASSUME Init PROVE Inv
    OBVIOUS
  <1>1. TypeOK
    BY DEF Init, TypeOK, NoProcess, Roles, Codes, WorkerPcs
  <1>2. WorkerInv /\ TableInv /\ ReaperInv
    BY MarkersAssumption
    DEF Init, WorkerInv, WorkerOK, TableInv, ReaperInv
  <1> QED
    BY <1>1, <1>2 DEF Inv

\* ... and every step keeps it.
LEMMA InvStep == Inv /\ [Next]_vars => Inv'
  <1> SUFFICES ASSUME Inv, [Next]_vars PROVE Inv'
    OBVIOUS
  <1>1. CASE Kernel
    BY <1>1, KernelType, KernelKeeps DEF Inv
  <1>2. CASE Reaper
    BY <1>2, ReaperType, ReaperKeeps DEF Inv
  <1>3. ASSUME NEW w \in Workers, Begins(w) PROVE Inv'
    BY <1>3, BeginsType, BeginsKeeps DEF Inv
  <1>4. ASSUME NEW w \in Workers, Continues(w) PROVE Inv'
    BY <1>4, ContinuesType, ContinuesKeeps DEF Inv
  <1>5. ASSUME NEW w \in Workers, HelperDestroys(w) \/ HelperPanics(w)
        PROVE  Inv'
    BY <1>5, HelperType, HelperKeeps DEF Inv
  <1>6. CASE UNCHANGED vars
    BY <1>6 DEF vars, Inv, TypeOK, WorkerInv, WorkerOK, TableInv, ReaperInv,
                Accounted, Recorded
  <1> QED
    BY <1>1, <1>2, <1>3, <1>4, <1>5, <1>6 DEF Next

\* So it holds in every reachable state.
THEOREM Invariance == Spec => []Inv
  BY InvInit, InvStep, PTL DEF Spec

\* Every variable keeps its type.
THEOREM TypeCorrect == Spec => []TypeOK
  BY Invariance, PTL DEF Inv

\* No exit is lost, though a process may exit before it is in the table and
\* the reaper may collect it then.
THEOREM NoExitLost == Spec => []ExitRecorded
  <1>1. Inv => ExitRecorded
    BY DEF Inv, TableInv, ExitRecorded
  <1> QED
    BY Invariance, <1>1, PTL

\* WaitProcess answers only after the process has been collected, and with
\* the code the kernel gave it.
THEOREM WaitIsExact == Spec => WaitExact
  <1> DEFINE Exact ==
               \A w \in Workers : wpc[w] = "waited" /\ wpc'[w] = "idle" =>
                 /\ run[wpid[w]] = "gone"
                 /\ Response(w) = died[wpid[w]]
  <1>1. Inv => Exact
    BY DEF Inv, WorkerInv, WorkerOK, Recorded, Response
  <1>2. Inv => [Exact]_vars
    BY <1>1
  <1> QED
    BY Invariance, <1>2, PTL DEF WaitExact

-----------------------------------------------------------------------------
(***************************************************************************)
(* Who owns the processes of the tables, what becomes of containers that   *)
(* are made again and of processes that are forgotten, when nothing        *)
(* panics, and the refinement of WaitService.                              *)
(*                                                                         *)
(* Most steps are Steady: no container and no process of a table comes or  *)
(* goes but for processes that have been collected, and who spawns goes on *)
(* spawning.  The few others need the mutex, so none comes between another *)
(* one's fork and its insertion.  As long as the directories are not       *)
(* emptied by another CreateSandbox, each known container has its exec     *)
(* fifo: a new init process finds neither an old container nor processes   *)
(* of one in the table, and a table entry only goes away when the process  *)
(* has been collected or killed.                                           *)
(*                                                                         *)
(* For the refinement every step is sorted by what a client of WaitService *)
(* sees of it; most are invisible, or take processes off the table.        *)
(***************************************************************************)

\* A process of a table belongs to a container that is there.
TableOwned ==
    \A p \in table : who[p].cid \in Cids /\ status[who[p].cid] # "absent"

\* What a request with the mutex relies on.
Relies(w) ==
    /\ wpc[w] = "opening" => wcid[w] \in Cids /\ status[wcid[w]] # "absent"
    /\ wpc[w] = "spawn" =>
          /\ wpid[w] \notin table
          /\ wcid[w] \in Cids /\ who[wpid[w]].cid = wcid[w]

OwnedInv == Inv /\ TableOwned /\ \A w \in Workers : Relies(w)

\* A container that is there, or is being made, has its exec fifo, and none is
\* made in the place of another.
FifoInv ==
    /\ \A c \in Cids : status[c] # "absent" => c \in fifo
    /\ \A w \in Workers :
          wpc[w] = "spawn" =>
              /\ wcid[w] \in fifo
              /\ who[wpid[w]].role = "init" => status[wcid[w]] = "absent"

-----------------------------------------------------------------------------
(* The kinds of steps.                                                     *)

Running == Live \ {"stuck"}

\* No container and no process of a table comes or goes, but for processes
\* that have been collected; who waits for a child goes on doing so.
Steady ==
    /\ initPid' = initPid
    /\ status' \in [Cids -> {"absent", "created", "running", "stopped"}]
    /\ \A c \in Cids : status'[c] = "absent" <=> status[c] = "absent"
    /\ table' \subseteq table
    /\ \A p \in table : p \notin table' => run[p] = "gone"
    /\ \A p \in Pids :
          /\ pending[p] = SIGKILL => pending'[p] = SIGKILL
          /\ run'[p] \in Running => run[p] \in Running \/ who'[p].role = "ps"
          /\ run[p] # "none" => who'[p] = who[p]
    /\ \A v \in Workers :
          /\ wpc'[v] \in {"spawn", "opening"} =>
                wpc'[v] = wpc[v] /\ wpid'[v] = wpid[v] /\ wcid'[v] = wcid[v]
          /\ wpc[v] = "spawn" /\ wpc'[v] # "spawn" => run'[wpid[v]] = "stuck"

\* Only the signals of living processes change.
LEMMA KilledStays ==
    ASSUME pending \in [Pids -> {0, SIGKILL, SIGTERM}], NEW p \in Pids,
           pending[p] = SIGKILL
    PROVE  /\ \A ps : KillSent(ps)[p] = SIGKILL
           /\ \A q, s, h : Effect(q, s, h)[p] = SIGKILL
BY DEF KillSent, Effect

\* Children that reach the fifo, exec or die change no table.
LEMMA KernelSteady == ASSUME OwnedInv, Kernel PROVE Steady
<1>. USE DEF OwnedInv, Inv, TypeOK
<1>1. UNCHANGED <<initPid, status, table, pending, who, wpc, wpid, wcid>>
  BY DEF Kernel, ChildAtFifo, ChildExec, ChildDies, sandboxVars, workerVars, requestVars
<1>2. \A p \in Pids : run'[p] \in Running => run[p] \in Running
  BY DEF Kernel, ChildAtFifo, ChildExec, ChildDies, Running, Live
<1>. QED  BY <1>1, <1>2 DEF Steady

\* The reaper of main.rs stores exit codes and leaves the tables alone.
LEMMA ReaperSteady == ASSUME OwnedInv, Reaper PROVE Steady
<1>. USE DEF OwnedInv, Inv, TypeOK
<1>1. UNCHANGED <<initPid, status, table, pending, who, wpc, wpid, wcid>>
  BY DEF Reaper, ReaperWakes, ReaperSleeps, ReaperRecords, ReaperPanics, ReaperCollects,
         sandboxVars, kernelVars, workerVars, requestVars
<1>2. \A p \in Pids : run'[p] \in Running => run[p] \in Running
  BY DEF Reaper, ReaperWakes, ReaperSleeps, ReaperRecords, ReaperPanics, ReaperCollects,
         kernelVars, Running, Live
<1>. QED  BY <1>1, <1>2 DEF Steady

\* The thread of a timed removal stops a container, and leaves it there.
LEMMA HelperSteady ==
    ASSUME OwnedInv, NEW w \in Workers, HelperDestroys(w) \/ HelperPanics(w)
    PROVE  Steady
<1>t. /\ wpc \in [Workers -> WorkerPcs] /\ pending \in [Pids -> {0, SIGKILL, SIGTERM}]
      /\ status \in [Cids -> {"absent", "created", "running", "stopped"}]
  BY DEF OwnedInv, Inv, TypeOK
<1>1. UNCHANGED <<initPid, table, run, who, wpid, wcid>>
  BY DEF HelperDestroys, HelperPanics, sandboxVars
<1>2. \A v \in Workers : wpc'[v] = wpc[v] \/ (wpc[v] = "joining" /\ wpc'[v] = "joined")
  BY <1>t DEF HelperDestroys, HelperPanics
<1>3. /\ status' \in [Cids -> {"absent", "created", "running", "stopped"}]
      /\ \A c \in Cids : status'[c] = "absent" <=> status[c] = "absent"
  BY <1>t DEF HelperDestroys, HelperPanics, sandboxVars
<1>4. \A p \in Pids : pending[p] = SIGKILL => pending'[p] = SIGKILL
  BY <1>t, KilledStays DEF HelperDestroys, HelperPanics, DestroySucceeds, DestroyFails
<1>. QED  BY <1>1, <1>2, <1>3, <1>4 DEF Steady

\* Requests of one step, and the ps of ListProcesses.
BeginsSteadily(w) ==
    \/ CreateSandbox(w) \/ DestroySandbox(w)
    \/ CreatePanics(w) \/ \E ps : SignalPanics(w, ps)
    \/ \E c \in Cids :
          \/ CreateRefused(w, c) \/ CreateFails(w, c) \/ ExecRefused(w, c)
          \/ StartRefused(w, c) \/ SignalAll(w, c) \/ ListPanics(w, c)
          \/ RemovePanics(w, c) \/ RemoveFails(w, c)
          \/ RemoveUnmountFails(w, c) \/ RemoveSpawns(w, c)
          \/ \E e \in Eids \cup {InitEid} : SignalProcess(w, c, e) \/ WaitRefused(w, c, e)
          \/ \E p \in Pids : ListForks(w, c, p) \/ WaitFinds(w, c, p)

\* A request leaves the processes alone, but for signals.
LEMMA OneStepSteady ==
    ASSUME OwnedInv, NEW w \in Workers,
           UNCHANGED <<initPid, table, run, who>>,
           status' \in [Cids -> {"absent", "created", "running", "stopped"}],
           \A c \in Cids : status'[c] = "absent" <=> status[c] = "absent",
           \A p \in Pids : pending[p] = SIGKILL => pending'[p] = SIGKILL,
           \A v \in Workers \ {w} :
               wpc'[v] = wpc[v] /\ wpid'[v] = wpid[v] /\ wcid'[v] = wcid[v],
           wpc[w] # "spawn", wpc'[w] \notin {"spawn", "opening"}
    PROVE  Steady
BY DEF Steady

\* Every request but those that make or remove something is steady.
LEMMA BeginsSteady ==
    ASSUME OwnedInv, NEW w \in Workers, BeginsSteadily(w) PROVE Steady
<1>t. /\ wpc \in [Workers -> WorkerPcs] /\ wpid \in [Workers -> Pids \cup {NoPid}]
      /\ wcid \in [Workers -> Cids \cup {NoCid}]
      /\ pending \in [Pids -> {0, SIGKILL, SIGTERM}]
      /\ status \in [Cids -> {"absent", "created", "running", "stopped"}]
  BY DEF OwnedInv, Inv, TypeOK
<1>k. \A p \in Pids :
         pending[p] = SIGKILL => /\ \A ps : KillSent(ps)[p] = SIGKILL
                                 /\ \A q, s, h : Effect(q, s, h)[p] = SIGKILL
  BY <1>t, KilledStays
<1>. DEFINE
      Others == \A v \in Workers \ {w} :
                    wpc'[v] = wpc[v] /\ wpid'[v] = wpid[v] /\ wcid'[v] = wcid[v]
      Controls == wpc[w] # "spawn" /\ wpc'[w] \notin {"spawn", "opening"}
      Quiet == /\ UNCHANGED <<initPid, table, run, who>> /\ Others /\ Controls
      Kills == \A p \in Pids : pending[p] = SIGKILL => pending'[p] = SIGKILL
      There == /\ status' \in [Cids -> {"absent", "created", "running", "stopped"}]
               /\ \A c \in Cids : status'[c] = "absent" <=> status[c] = "absent"
<1>q. ASSUME Quiet, Kills, There PROVE Steady
  BY <1>q, OneStepSteady
<1>s. status' = status => There
  BY <1>t
<1>p. pending' = pending => Kills
  OBVIOUS
<1>. USE DEF Replies, Ends, Panics, Idle
<1>1. ASSUME CreateSandbox(w) PROVE Quiet /\ status' = status /\ pending' = pending
  BY <1>1, <1>t DEF CreateSandbox, kernelVars
<1>u. ASSUME CreatePanics(w) \/ \E ps : SignalPanics(w, ps)
      PROVE  Quiet /\ status' = status /\ pending' = pending
  BY <1>u, <1>t, UnwrapsPanic DEF PanicsAtOnce, kernelVars, sandboxVars
<1>2. ASSUME NEW c \in Cids,
             CreateRefused(w, c) \/ CreateFails(w, c) \/ ExecRefused(w, c)
                 \/ StartRefused(w, c)
      PROVE  Quiet /\ status' = status /\ pending' = pending
  BY <1>2, <1>t DEF CreateRefused, CreateFails, ExecRefused, StartRefused, kernelVars,
         sandboxVars
<1>3. ASSUME NEW c \in Cids,
             ListPanics(w, c) \/ RemovePanics(w, c) \/ RemoveSpawns(w, c)
      PROVE  Quiet /\ status' = status /\ pending' = pending
  BY <1>3, <1>t DEF ListPanics, RemovePanics, RemoveSpawns, kernelVars, sandboxVars
<1>4. ASSUME NEW c \in Cids, NEW e,
             SignalAll(w, c) \/ SignalProcess(w, c, e)
      PROVE  Quiet /\ status' = status /\ Kills
  <2>1. PICK targets : SignalFinds(w, targets) /\ wpc[w] = "idle"
    BY <1>4 DEF SignalAll, SignalProcess
  <2>2. Quiet /\ status' = status
    BY <2>1, <1>t DEF SignalFinds, sandboxVars
  <2>3. Kills
    BY <2>1, <1>k DEF SignalFinds
  <2>. QED  BY <2>2, <2>3
<1>5. ASSUME NEW c \in Cids, (\E e : WaitRefused(w, c, e)) \/ \E p \in Pids : WaitFinds(w, c, p)
      PROVE  Quiet /\ status' = status /\ pending' = pending
  BY <1>5, <1>t DEF WaitRefused, WaitFinds, kernelVars, sandboxVars
<1>6. ASSUME NEW c \in Cids, RemoveFails(w, c) \/ RemoveUnmountFails(w, c)
      PROVE  Quiet /\ There /\ Kills
  <2>1. Quiet
    BY <1>6, <1>t DEF RemoveFails, RemoveUnmountFails, sandboxVars
  <2>2. There
    BY <1>6, <1>t DEF RemoveFails, RemoveUnmountFails, sandboxVars
  <2>3. Kills
    BY <1>6, <1>k DEF RemoveFails, RemoveUnmountFails, DestroyFails, DestroySucceeds
  <2>. QED  BY <2>1, <2>2, <2>3
<1>7. ASSUME DestroySandbox(w) PROVE Quiet /\ There /\ Kills
  <2>1. Quiet
    BY <1>7, <1>t DEF DestroySandbox
  <2>2. PICK cs \in SUBSET Present : status' = Stopped(cs)
    BY <1>7 DEF DestroySandbox
  <2>3. There
    BY <1>t, <2>2 DEF Stopped, Present
  <2>4. \E ps : pending' = KillSent(ps)
    BY <1>7 DEF DestroySandbox
  <2>. QED  BY <1>k, <2>1, <2>3, <2>4
<1>8. ASSUME NEW c \in Cids, NEW p \in Pids, ListForks(w, c, p) PROVE Steady
  <2>1. /\ Fork(p, c, InitEid, "ps") /\ wpc[w] = "idle"
        /\ wpc' = [wpc EXCEPT ![w] = "ps"]
        /\ wcid' = [wcid EXCEPT ![w] = c] /\ wpid' = [wpid EXCEPT ![w] = p]
        /\ UNCHANGED <<initPid, table, status, pending>>
    BY <1>8 DEF ListForks, sandboxVars
  <2>2. \A q \in Pids : /\ run'[q] \in Running => run[q] \in Running \/ who'[q].role = "ps"
                        /\ run[q] # "none" => who'[q] = who[q]
    BY <2>1 DEF Fork, Inv, OwnedInv, TypeOK
  <2>. QED  BY <1>t, <2>1, <2>2 DEF Steady
<1>. HIDE DEF Quiet, Kills, There
<1>9. CASE CreateSandbox(w) \/ DestroySandbox(w)
  BY <1>9, <1>q, <1>s, <1>p, <1>1, <1>7
<1>13. CASE CreatePanics(w) \/ \E ps : SignalPanics(w, ps)
  BY <1>13, <1>q, <1>s, <1>p, <1>u
<1>10. ASSUME NEW c \in Cids,
              \/ CreateRefused(w, c) \/ CreateFails(w, c) \/ ExecRefused(w, c)
              \/ StartRefused(w, c) \/ SignalAll(w, c) \/ ListPanics(w, c)
              \/ RemovePanics(w, c) \/ RemoveFails(w, c)
              \/ RemoveUnmountFails(w, c) \/ RemoveSpawns(w, c)
       PROVE  Steady
  BY <1>10, <1>q, <1>s, <1>p, <1>2, <1>3, <1>4, <1>6
<1>11. ASSUME NEW c \in Cids, NEW e, SignalProcess(w, c, e) \/ WaitRefused(w, c, e)
       PROVE  Steady
  BY <1>11, <1>q, <1>s, <1>p, <1>4, <1>5
<1>12. ASSUME NEW c \in Cids, NEW p \in Pids, ListForks(w, c, p) \/ WaitFinds(w, c, p)
       PROVE  Steady
  BY <1>12, <1>q, <1>s, <1>p, <1>5, <1>8
<1>. QED  BY <1>9, <1>10, <1>11, <1>12, <1>13 DEF BeginsSteadily

ContinuesSteadily(w) ==
    \/ SpawnFails(w) \/ StartWrites(w)
    \/ WaitReads(w) \/ WaitReturns(w) \/ ListCollects(w) \/ ListLosesRace(w)
    \/ RemoveTimesOut(w) \/ LockPanics(w)

\* So is its going on; WaitProcess takes only what has been collected.
LEMMA ContinuesSteady ==
    ASSUME OwnedInv, NEW w \in Workers, ContinuesSteadily(w) PROVE Steady
<1>t. /\ wpc \in [Workers -> WorkerPcs] /\ wpid \in [Workers -> Pids \cup {NoPid}]
      /\ wcid \in [Workers -> Cids \cup {NoCid}]
      /\ status \in [Cids -> {"absent", "created", "running", "stopped"}]
      /\ run \in [Pids -> Live \cup {"none", "zombie", "gone"}]
  BY DEF OwnedInv, Inv, TypeOK
<1>w. WorkerOK(w) /\ Relies(w)
  BY DEF OwnedInv, Inv, WorkerInv
<1>. USE DEF Replies, Ends, Panics
<1>1. /\ initPid' = initPid /\ pending' = pending /\ who' = who
      /\ \A v \in Workers \ {w} :
            wpc'[v] = wpc[v] /\ wpid'[v] = wpid[v] /\ wcid'[v] = wcid[v]
  BY <1>t DEF ContinuesSteadily, SpawnFails, StartWrites, WaitReads, WaitReturns,
         ListCollects, ListLosesRace, RemoveTimesOut, LockPanics, sandboxVars, kernelVars,
         requestVars
<1>2. wpc'[w] \notin {"spawn", "opening"}
  BY <1>t DEF ContinuesSteadily, SpawnFails, StartWrites, WaitReads, WaitReturns,
         ListCollects, ListLosesRace, RemoveTimesOut, LockPanics
<1>3. wpc[w] = "spawn" => run'[wpid[w]] = "stuck"
  BY <1>t, <1>w DEF ContinuesSteadily, SpawnFails, StartWrites, WaitReads, WaitReturns,
         ListCollects, ListLosesRace, RemoveTimesOut, LockPanics, WorkerOK
<1>4. \A p \in Pids : run'[p] \in Running => run[p] \in Running
  BY <1>t DEF ContinuesSteadily, SpawnFails, StartWrites, WaitReads, WaitReturns,
         ListCollects, ListLosesRace, RemoveTimesOut, LockPanics, kernelVars, Running, Live
<1>5. /\ status' \in [Cids -> {"absent", "created", "running", "stopped"}]
      /\ \A c \in Cids : status'[c] = "absent" <=> status[c] = "absent"
  BY <1>t, <1>w DEF ContinuesSteadily, SpawnFails, StartWrites, WaitReads, WaitReturns,
         ListCollects, ListLosesRace, RemoveTimesOut, LockPanics, sandboxVars, Relies
<1>6. table' \subseteq table /\ \A p \in table : p \notin table' => run[p] = "gone"
  BY <1>w DEF ContinuesSteadily, SpawnFails, StartWrites, WaitReads, WaitReturns,
         ListCollects, ListLosesRace, RemoveTimesOut, LockPanics, sandboxVars, WorkerOK,
         Recorded
<1>. QED  BY <1>1, <1>2, <1>3, <1>4, <1>5, <1>6 DEF Steady

\* Every step is steady, or one of the few that are not.
LEMMA StepKinds ==
    ASSUME OwnedInv, Next
    PROVE  \/ Steady
           \/ \E w \in Workers, c \in Cids : StartOpens(w, c) \/ RemoveSucceeds(w, c)
           \/ \E w \in Workers, c \in Cids, p \in Pids :
                 CreateForks(w, c, p) \/ \E e \in Eids : ExecForks(w, c, e, p)
           \/ \E w \in Workers : SpawnSucceeds(w) \/ RemoveAfterJoin(w)
<1>1. CASE Kernel \/ Reaper
  BY <1>1, KernelSteady, ReaperSteady
<1>2. ASSUME NEW w \in Workers, Begins(w)
      PROVE  \/ BeginsSteadily(w)
             \/ \E c \in Cids : StartOpens(w, c) \/ RemoveSucceeds(w, c)
             \/ \E c \in Cids, p \in Pids :
                   CreateForks(w, c, p) \/ \E e \in Eids : ExecForks(w, c, e, p)
  BY <1>2 DEF Begins, BeginsSteadily
<1>3. ASSUME NEW w \in Workers, Continues(w)
      PROVE  ContinuesSteadily(w) \/ SpawnSucceeds(w) \/ RemoveAfterJoin(w)
  BY <1>3 DEF Continues, ContinuesSteadily
<1>. QED  BY <1>1, <1>2, <1>3, BeginsSteady, ContinuesSteady, HelperSteady DEF Next

\* Who holds the mutex spawns or starts alone.
LEMMA Alone ==
    ASSUME Inv, NEW v \in Workers, wpc[v] \in {"spawn", "opening"} PROVE lock = v
BY DEF Inv, WorkerInv, WorkerOK

\* Nothing is owned at first ...
LEMMA OwnedInit == Init => OwnedInv
<1>. SUFFICES ASSUME Init PROVE OwnedInv
  OBVIOUS
<1>1. TableOwned /\ \A w \in Workers : Relies(w)
  BY DEF Init, TableOwned, Relies
<1>. QED  BY <1>1, InvInit DEF OwnedInv

\* A steady step keeps what requests rely on.
LEMMA SteadyOwned ==
    ASSUME OwnedInv, Steady PROVE TableOwned' /\ \A w \in Workers : Relies(w)'
<1>t. table \subseteq Pids
  BY DEF OwnedInv, Inv, TypeOK
<1>1. TableOwned'
  BY <1>t DEF OwnedInv, TableOwned, Steady, Inv, TableInv
<1>2. ASSUME NEW w \in Workers PROVE Relies(w)'
  <2>1. Relies(w) /\ WorkerOK(w)
    BY DEF OwnedInv, Inv, WorkerInv
  <2>2. CASE wpc'[w] = "opening"
    BY <2>1, <2>2 DEF Relies, Steady
  <2>3. CASE wpc'[w] = "spawn"
    <3>1. wpc[w] = "spawn" /\ wpid'[w] = wpid[w] /\ wcid'[w] = wcid[w]
      BY <2>3 DEF Steady
    <3>2. wpid[w] \in Pids /\ who'[wpid[w]] = who[wpid[w]]
      BY <2>1, <3>1 DEF WorkerOK, Steady
    <3>. QED  BY <2>1, <2>3, <3>1, <3>2 DEF Relies, Steady
  <2>. QED  BY <2>2, <2>3 DEF Relies
<1>. QED  BY <1>1, <1>2

\* Nobody else spawns or starts when the mutex is free, or is one's own.
LEMMA NobodyElse ==
    ASSUME OwnedInv, NEW w \in Workers, lock \in {Free, w},
           \A v \in Workers \ {w} : wpc'[v] = wpc[v],
           Relies(w)'
    PROVE  \A v \in Workers : Relies(v)'
<1>1. \A v \in Workers \ {w} : wpc[v] \notin {"spawn", "opening"}
  BY Alone, MarkersAssumption DEF OwnedInv
<1>. QED  BY <1>1 DEF Relies

\* ... and every step keeps it.
LEMMA OwnedStep == OwnedInv /\ [Next]_vars => OwnedInv'
<1>. SUFFICES ASSUME OwnedInv, [Next]_vars
              PROVE  TableOwned' /\ \A w \in Workers : Relies(w)'
  BY InvStep DEF OwnedInv
<1>t. /\ table \subseteq Pids /\ wpc \in [Workers -> WorkerPcs]
      /\ wpid \in [Workers -> Pids \cup {NoPid}] /\ wcid \in [Workers -> Cids \cup {NoCid}]
      /\ who \in [Pids -> [cid : Cids \cup {NoCid}, eid : Eids \cup {InitEid}, role : Roles]]
      /\ status \in [Cids -> {"absent", "created", "running", "stopped"}]
  BY DEF OwnedInv, Inv, TypeOK
<1>o. TableOwned /\ \A p \in table : run[p] # "none"
  BY DEF OwnedInv, Inv, TableInv
<1>. USE DEF Replies, Ends
<1>1. ASSUME NEW w \in Workers, NEW c \in Cids, StartOpens(w, c)
      PROVE  TableOwned' /\ \A v \in Workers : Relies(v)'
  <2>1. TableOwned'
    BY <1>1, <1>o DEF StartOpens, TableOwned, sandboxVars, kernelVars
  <2>2. Relies(w)'
    BY <1>1, <1>t DEF StartOpens, Relies, sandboxVars
  <2>3. lock = Free /\ \A v \in Workers \ {w} : wpc'[v] = wpc[v]
    BY <1>1, <1>t DEF StartOpens, Unlocked
  <2>. QED  BY <2>1, <2>2, <2>3, NobodyElse
<1>2. ASSUME NEW w \in Workers, NEW c \in Cids, RemoveSucceeds(w, c)
      PROVE  TableOwned' /\ \A v \in Workers : Relies(v)'
  <2>1. TableOwned'
    BY <1>2, <1>o, <1>t DEF RemoveSucceeds, TableOwned, Procs
  <2>2. Relies(w)'
    BY <1>2, <1>t DEF RemoveSucceeds, Relies
  <2>3. lock = Free /\ \A v \in Workers \ {w} : wpc'[v] = wpc[v]
    BY <1>2, <1>t DEF RemoveSucceeds, Unlocked
  <2>. QED  BY <2>1, <2>2, <2>3, NobodyElse
<1>3. ASSUME NEW w \in Workers, NEW c \in Cids, NEW p \in Pids,
             CreateForks(w, c, p) \/ \E e \in Eids : ExecForks(w, c, e, p)
      PROVE  TableOwned' /\ \A v \in Workers : Relies(v)'
  <2>1. /\ run[p] = "none" /\ lock = Free
        /\ \E id, r : who' = [who EXCEPT ![p] = [cid |-> c, eid |-> id, role |-> r]]
        /\ wpc' = [wpc EXCEPT ![w] = "spawn"] /\ wcid' = [wcid EXCEPT ![w] = c]
        /\ wpid' = [wpid EXCEPT ![w] = p] /\ UNCHANGED <<table, status>>
    BY <1>3 DEF CreateForks, ExecForks, Fork, Unlocked, sandboxVars
  <2>2. p \notin table /\ who'[p].cid = c /\ \A q \in table : who'[q] = who[q]
    BY <1>t, <1>o, <2>1
  <2>3. TableOwned'
    BY <1>o, <2>1, <2>2 DEF TableOwned
  <2>4. Relies(w)'
    BY <1>t, <2>1, <2>2 DEF Relies
  <2>5. \A v \in Workers \ {w} : wpc'[v] = wpc[v]
    BY <1>t, <2>1
  <2>. QED  BY <2>1, <2>3, <2>4, <2>5, NobodyElse
<1>4. ASSUME NEW w \in Workers, SpawnSucceeds(w)
      PROVE  TableOwned' /\ \A v \in Workers : Relies(v)'
  <2>1. /\ wpc[w] = "spawn" /\ Relies(w) /\ lock = w
    BY <1>4, Alone DEF SpawnSucceeds, OwnedInv
  <2>2. /\ table' \subseteq table \cup {wpid[w]} /\ who' = who
        /\ status' = [status EXCEPT ![wcid[w]] = "created"]
        /\ wpc' = [wpc EXCEPT ![w] = "idle"]
    BY <1>4 DEF SpawnSucceeds
  <2>3. TableOwned'
    BY <1>o, <1>t, <2>1, <2>2 DEF TableOwned, Relies
  <2>4. Relies(w)' /\ \A v \in Workers \ {w} : wpc'[v] = wpc[v]
    BY <1>t, <2>2 DEF Relies
  <2>. QED  BY <2>1, <2>3, <2>4, NobodyElse
<1>5. ASSUME NEW w \in Workers, RemoveAfterJoin(w)
      PROVE  TableOwned' /\ \A v \in Workers : Relies(v)'
  <2>1. TableOwned'
    BY <1>5, <1>o, <1>t DEF RemoveAfterJoin, TableOwned, Procs, kernelVars
  <2>2. Relies(w)'
    BY <1>5, <1>t DEF RemoveAfterJoin, Relies
  <2>3. lock = Free /\ \A v \in Workers \ {w} : wpc'[v] = wpc[v]
    BY <1>5, <1>t DEF RemoveAfterJoin, Unlocked
  <2>. QED  BY <2>1, <2>2, <2>3, NobodyElse
<1>6. CASE UNCHANGED vars
  BY <1>6 DEF vars, OwnedInv, TableOwned, Relies
<1>. QED  BY <1>1, <1>2, <1>3, <1>4, <1>5, <1>6, StepKinds, SteadyOwned

\* Every process of a process map belongs to a container of the sandbox, and
\* do_create_container, do_exec_process and do_start_container find the
\* container they began with still there when they come to it.
THEOREM Ownership == Spec => []OwnedInv
BY OwnedInit, OwnedStep, PTL DEF Spec

-----------------------------------------------------------------------------
(* WaitService.                                                            *)

Exited == [p \in Pids |-> IF run[p] \in {"zombie", "gone"} THEN died[p] ELSE -1]
Waiting == [w \in Workers |-> IF wpc[w] \in Waits THEN wpid[w] ELSE NoPid]
Answers == [w \in Workers |-> IF wpc[w] = "waited" THEN Response(w) ELSE -1]

\* Nobody begins or ends to wait.
SameWaits ==
    \A v \in Workers :
        wpc[v] \in Waits \/ wpc'[v] \in Waits => wpc'[v] = wpc[v] /\ wpid'[v] = wpid[v]
\* Nobody exits.
SameExits ==
    \A p \in Pids :
        /\ run'[p] \in {"zombie", "gone"} <=> run[p] \in {"zombie", "gone"}
        /\ run[p] \in {"zombie", "gone"} => died'[p] = died[p]
\* No answer changes.
SameCodes ==
    \A v \in Workers :
        wpc[v] = "waited" => exitCode'[wpid[v]] = exitCode[wpid[v]]

Silent == SameWaits /\ SameExits /\ SameCodes

\* What a client sees stays the same.
LEMMA SilentSame ==
    /\ SameExits => Exited' = Exited
    /\ SameWaits => Waiting' = Waiting
    /\ SameWaits /\ SameCodes => Answers' = Answers
<1>1. ASSUME SameExits PROVE Exited' = Exited
  BY <1>1 DEF SameExits, Exited
<1>2. ASSUME SameWaits PROVE Waiting' = Waiting
  BY <1>2 DEF SameWaits, Waiting
<1>3. ASSUME SameWaits, SameCodes PROVE Answers' = Answers
  <2>1. ASSUME NEW v \in Workers
        PROVE  (IF wpc'[v] = "waited" THEN exitCode'[wpid'[v]] ELSE -1)
                  = (IF wpc[v] = "waited" THEN exitCode[wpid[v]] ELSE -1)
    BY <1>3 DEF SameWaits, SameCodes, Waits
  <2>. QED  BY <2>1 DEF Answers, Response
<1>. QED  BY <1>1, <1>2, <1>3

\* Steps a client does not see, but for processes that are forgotten or the
\* mutex that is poisoned.
LEMMA SilentStep ==
    ASSUME Silent, \/ table' \subseteq table /\ poisoned' = poisoned
                   \/ table' = table /\ poisoned' = TRUE
    PROVE  Service!Next
<1>1. Exited' = Exited /\ Waiting' = Waiting /\ Answers' = Answers
  BY SilentSame DEF Silent
<1>2. CASE table' \subseteq table /\ poisoned' = poisoned
  <2>1. Service!Forget
    BY <1>1, <1>2 DEF Service!Forget, Exited, Waiting, Answers
  <2>. QED  BY <2>1 DEF Service!Next
<1>3. CASE table' = table /\ poisoned' = TRUE
  <2>1. Service!BreakDown
    BY <1>1, <1>3 DEF Service!BreakDown, Exited, Waiting, Answers
  <2>. QED  BY <2>1 DEF Service!Next
<1>. QED  BY <1>2, <1>3

\* The agent starts as the service does.
LEMMA ServiceInit == Init => Service!Init
<1>. SUFFICES ASSUME Init PROVE Service!Init
  OBVIOUS
<1>1. poisoned = FALSE /\ table = {}
  BY DEF Init
<1>2. /\ Exited = [p \in Pids |-> -1] /\ Waiting = [w \in Workers |-> NoPid]
      /\ Answers = [w \in Workers |-> -1]
  BY DEF Init, Exited, Waiting, Answers, Waits
<1>. QED  BY <1>1, <1>2 DEF Service!Init, Service!NoExit, Exited, Waiting, Answers

\* A child that dies is the service's Exit; its other steps are invisible.
LEMMA KernelService == ASSUME Inv, Kernel PROVE Service!Next
<1>. PICK p \in Pids :
        ChildAtFifo(p) \/ ChildExec(p) \/ \E code \in Codes : ChildDies(p, code)
  BY DEF Kernel
<1>t. run \in [Pids -> Live \cup {"none", "zombie", "gone"}] /\ died \in [Pids -> Codes]
  BY DEF Inv, TypeOK
<1>1. CASE ChildAtFifo(p) \/ ChildExec(p)
  <2>1. Silent
    BY <1>1, <1>t DEF ChildAtFifo, ChildExec, Silent, SameWaits, SameExits, SameCodes,
                      sandboxVars, workerVars, requestVars
  <2>2. table' = table /\ poisoned' = poisoned
    BY <1>1 DEF ChildAtFifo, ChildExec, sandboxVars
  <2>. QED  BY <2>1, <2>2, SilentStep
<1>2. ASSUME NEW code \in Codes, ChildDies(p, code) PROVE Service!Next
  <2>1. /\ run[p] \in Live /\ run' = [run EXCEPT ![p] = "zombie"]
        /\ died' = [died EXCEPT ![p] = code]
        /\ UNCHANGED <<poisoned, table, exitCode, wpc, wpid>>
    BY <1>2 DEF ChildDies, sandboxVars, workerVars, requestVars
  <2>2. SameWaits /\ SameCodes
    BY <2>1 DEF SameWaits, SameCodes
  <2>3. Waiting' = Waiting /\ Answers' = Answers
    BY <2>2, SilentSame
  <2>4. Exited[p] = -1 /\ Exited' = [Exited EXCEPT ![p] = code]
    BY <1>t, <2>1 DEF Exited, Live
  <2>5. Service!Exit(p, code)
    BY <2>1, <2>3, <2>4 DEF Service!Exit, Service!NoExit, Exited, Waiting, Answers
  <2>. QED  BY <2>5 DEF Service!Next
<1>. QED  BY <1>1, <1>2

\* The reaper is invisible: nobody who is about to be told a code has it changed.
LEMMA ReaperService == ASSUME Inv, Reaper PROVE Service!Next
<1>t. /\ run \in [Pids -> Live \cup {"none", "zombie", "gone"}]
      /\ exitCode \in [Pids -> Codes]
  BY DEF Inv, TypeOK
<1>w. \A v \in Workers : wpc[v] = "waited" => wpid[v] \in Pids /\ Recorded(wpid[v])
  BY DEF Inv, WorkerInv, WorkerOK
<1>1. table' = table /\ poisoned' = poisoned /\ SameWaits
  BY DEF Reaper, ReaperWakes, ReaperSleeps, ReaperRecords, ReaperPanics, ReaperCollects,
         sandboxVars, workerVars, requestVars, SameWaits
<1>2. SameExits
  BY <1>t DEF Reaper, ReaperWakes, ReaperSleeps, ReaperRecords, ReaperPanics, ReaperCollects,
         kernelVars, SameExits
<1>3. SameCodes
  <2>1. CASE ReaperRecords
    <3>1. exitCode' \in {exitCode, [exitCode EXCEPT ![rpid] = died[rpid]]}
      BY <2>1 DEF ReaperRecords
    <3>. QED  BY <1>t, <1>w, <3>1 DEF SameCodes, Recorded
  <2>2. CASE ~ ReaperRecords
    <3>1. exitCode' = exitCode
      BY <2>2 DEF Reaper, ReaperWakes, ReaperSleeps, ReaperPanics, ReaperCollects, sandboxVars
    <3>. QED  BY <3>1 DEF SameCodes
  <2>. QED  BY <2>1, <2>2
<1>. QED  BY <1>1, <1>2, <1>3, SilentStep DEF Silent

\* A request that neither begins nor ends to wait.
LEMMA QuietService ==
    ASSUME NEW w \in Workers,
           UNCHANGED <<run, died, exitCode>>,
           \A v \in Workers \ {w} : wpc'[v] = wpc[v] /\ wpid'[v] = wpid[v],
           wpc[w] \notin Waits, wpc'[w] \notin Waits,
           \/ table' \subseteq table /\ poisoned' = poisoned
           \/ table' = table /\ poisoned' = TRUE
    PROVE  Service!Next
<1>1. SameWaits /\ SameExits /\ SameCodes
  BY DEF SameWaits, SameExits, SameCodes
<1>. QED  BY <1>1, SilentStep DEF Silent

\* The first critical section of WaitProcess is the service's Wait; other
\* requests are invisible, forget processes or bring the service down.
LEMMA BeginsService == ASSUME Inv, NEW w \in Workers, Begins(w) PROVE Service!Next
<1>t. /\ run \in [Pids -> Live \cup {"none", "zombie", "gone"}]
      /\ wpc \in [Workers -> WorkerPcs] /\ wpid \in [Workers -> Pids \cup {NoPid}]
      /\ poisoned \in BOOLEAN
  BY DEF Inv, TypeOK
<1>. DEFINE
      Quiet ==
          /\ UNCHANGED <<run, died, exitCode>>
          /\ \A v \in Workers \ {w} : wpc'[v] = wpc[v] /\ wpid'[v] = wpid[v]
          /\ wpc[w] \notin Waits /\ wpc'[w] \notin Waits
          /\ \/ table' \subseteq table /\ poisoned' = poisoned
             \/ table' = table /\ poisoned' = TRUE
      Forking(p, at) ==
          /\ wpc[w] = "idle" /\ wpc' = [wpc EXCEPT ![w] = at]
          /\ wpid' = [wpid EXCEPT ![w] = p]
          /\ run[p] = "none" /\ run' = [run EXCEPT ![p] = "setup"]
          /\ UNCHANGED <<died, exitCode, table, poisoned>>
<1>q. Quiet => Service!Next
  BY QuietService
<1>f. ASSUME NEW p \in Pids, NEW at \in {"spawn", "ps"}, Forking(p, at) PROVE Service!Next
  <2>1. SameWaits
    BY <1>f, <1>t DEF SameWaits, Waits
  <2>2. SameExits /\ SameCodes
    BY <1>f, <1>t DEF SameExits, SameCodes
  <2>. QED  BY <1>f, <2>1, <2>2, SilentStep DEF Silent
<1>. USE DEF Replies, Ends, Panics, Idle
<1>1. ASSUME CreateSandbox(w) \/ DestroySandbox(w) PROVE Quiet
  BY <1>1, <1>t DEF CreateSandbox, DestroySandbox, kernelVars, Waits
<1>u. ASSUME CreatePanics(w) \/ \E ps : SignalPanics(w, ps) PROVE Quiet
  BY <1>u, <1>t, UnwrapsPanic DEF PanicsAtOnce, kernelVars, sandboxVars, Waits
<1>2. ASSUME NEW c \in Cids,
             CreateRefused(w, c) \/ CreateFails(w, c) \/ ExecRefused(w, c)
                 \/ StartRefused(w, c) \/ StartOpens(w, c)
      PROVE  Quiet
  BY <1>2, <1>t DEF CreateRefused, CreateFails, ExecRefused, StartRefused, StartOpens,
         kernelVars, sandboxVars, Waits
<1>3. ASSUME NEW c \in Cids, ListPanics(w, c) \/ RemovePanics(w, c) PROVE Quiet
  BY <1>3, <1>t DEF ListPanics, RemovePanics, kernelVars, sandboxVars, Waits
<1>4. ASSUME NEW c \in Cids,
             RemoveFails(w, c) \/ RemoveUnmountFails(w, c) \/ RemoveSucceeds(w, c)
                 \/ RemoveSpawns(w, c)
      PROVE  Quiet
  BY <1>4, <1>t DEF RemoveFails, RemoveUnmountFails, RemoveSucceeds, RemoveSpawns,
         kernelVars, sandboxVars, Waits
<1>5. ASSUME NEW c \in Cids,
             \/ SignalAll(w, c)
             \/ \E e \in Eids \cup {InitEid} : SignalProcess(w, c, e) \/ WaitRefused(w, c, e)
      PROVE  Quiet
  BY <1>5, <1>t DEF SignalAll, SignalProcess, SignalFinds, WaitRefused, kernelVars,
         sandboxVars, Waits
<1>6. ASSUME NEW c \in Cids, NEW p \in Pids, CreateForks(w, c, p) PROVE Service!Next
  BY <1>6, <1>f DEF CreateForks, Fork
<1>7. ASSUME NEW c \in Cids, NEW p \in Pids, NEW e \in Eids, ExecForks(w, c, e, p)
      PROVE  Service!Next
  BY <1>7, <1>f DEF ExecForks, Fork, sandboxVars
<1>8. ASSUME NEW c \in Cids, NEW p \in Pids, ListForks(w, c, p) PROVE Service!Next
  BY <1>8, <1>f DEF ListForks, Fork, sandboxVars
<1>9. ASSUME NEW c \in Cids, NEW p \in Pids, WaitFinds(w, c, p) PROVE Service!Next
  <2>1. /\ p \in table /\ wpc[w] = "idle" /\ ~ poisoned
        /\ wpc' = [wpc EXCEPT ![w] = "reading"] /\ wpid' = [wpid EXCEPT ![w] = p]
        /\ UNCHANGED <<poisoned, table, run, died, exitCode>>
    BY <1>9 DEF WaitFinds, Named, Procs, Unlocked, sandboxVars, kernelVars
  <2>2. Waiting[w] = NoPid /\ Waiting' = [Waiting EXCEPT ![w] = p]
    BY <1>t, <2>1 DEF Waiting, Waits
  <2>3. Exited' = Exited /\ Answers' = Answers
    BY <1>t, <2>1 DEF Exited, Answers, Response
  <2>4. Service!Wait(w, p)
    BY <2>1, <2>2, <2>3 DEF Service!Wait, Exited, Waiting, Answers
  <2>. QED  BY <2>4 DEF Service!Next
<1>. HIDE DEF Quiet
<1>. QED  BY <1>q, <1>u, <1>1, <1>2, <1>3, <1>4, <1>5, <1>6, <1>7, <1>8, <1>9 DEF Begins

\* The end of start() is Enter, the read of the exit pipe is Learn, and the
\* second critical section of WaitProcess is Answer or Abort.
LEMMA ContinuesService == ASSUME OwnedInv, NEW w \in Workers, Continues(w) PROVE Service!Next
<1>t. /\ run \in [Pids -> Live \cup {"none", "zombie", "gone"}]
      /\ wpc \in [Workers -> WorkerPcs] /\ wpid \in [Workers -> Pids \cup {NoPid}]
      /\ poisoned \in BOOLEAN /\ exitCode \in [Pids -> Codes] /\ died \in [Pids -> Codes]
  BY DEF OwnedInv, Inv, TypeOK
<1>c. \A n \in Codes : n \in Nat /\ n # -1
  BY CodesAssumption DEF Codes, SIGKILL, SIGTERM
<1>w. WorkerOK(w)
  BY DEF OwnedInv, Inv, WorkerInv
<1>. DEFINE
      Quiet ==
          /\ UNCHANGED <<run, died, exitCode>>
          /\ \A v \in Workers \ {w} : wpc'[v] = wpc[v] /\ wpid'[v] = wpid[v]
          /\ wpc[w] \notin Waits /\ wpc'[w] \notin Waits
          /\ \/ table' \subseteq table /\ poisoned' = poisoned
             \/ table' = table /\ poisoned' = TRUE
<1>q. Quiet => Service!Next
  BY QuietService
<1>. USE DEF Replies, Ends, Panics
<1>1. CASE SpawnSucceeds(w) /\ wpid[w] \notin table
  <2>1. /\ wpc[w] = "spawn" /\ wpid[w] \in Pids
        /\ wpc' = [wpc EXCEPT ![w] = "idle"] /\ wpid' = [wpid EXCEPT ![w] = NoPid]
        /\ UNCHANGED <<poisoned, run, died, exitCode>>
    BY <1>1, <1>w DEF SpawnSucceeds, WorkerOK
  <2>2. \E kept \in SUBSET table : table' = kept \cup {wpid[w]}
    BY <1>1 DEF SpawnSucceeds
  <2>3. SameWaits /\ SameExits /\ SameCodes
    BY <1>t, <2>1 DEF SameWaits, SameExits, SameCodes, Waits
  <2>4. Exited' = Exited /\ Waiting' = Waiting /\ Answers' = Answers
    BY <2>3, SilentSame
  <2>5. Service!Enter(wpid[w])
    BY <1>1, <2>1, <2>2, <2>4 DEF Service!Enter, Exited, Waiting, Answers
  <2>. QED  BY <2>1, <2>5 DEF Service!Next
<1>2. ASSUME SpawnFails(w) \/ StartWrites(w) PROVE Service!Next
  <2>1. SameWaits
    BY <1>2, <1>t DEF SpawnFails, StartWrites, SameWaits, Waits
  <2>2. SameExits /\ SameCodes
    BY <1>2, <1>t DEF SpawnFails, StartWrites, SameExits, SameCodes, sandboxVars, Live
  <2>3. table' = table /\ poisoned' = poisoned
    BY <1>2 DEF SpawnFails, StartWrites, sandboxVars
  <2>. QED  BY <2>1, <2>2, <2>3, SilentStep DEF Silent
<1>3. ASSUME ListCollects(w) PROVE Service!Next
  <2>1. SameWaits
    BY <1>3, <1>t DEF ListCollects, SameWaits, Waits
  <2>2. SameExits /\ SameCodes
    BY <1>3, <1>t DEF ListCollects, SameExits, SameCodes, sandboxVars
  <2>3. table' = table /\ poisoned' = poisoned
    BY <1>3 DEF ListCollects, sandboxVars
  <2>. QED  BY <2>1, <2>2, <2>3, SilentStep DEF Silent
<1>4. ASSUME ListLosesRace(w) \/ RemoveTimesOut(w) \/ RemoveAfterJoin(w) PROVE Quiet
  BY <1>4, <1>t DEF ListLosesRace, RemoveTimesOut, RemoveAfterJoin, kernelVars,
         sandboxVars, Waits
<1>5. ASSUME WaitReads(w) PROVE Service!Next
  <2>1. /\ wpc[w] = "reading" /\ wpc' = [wpc EXCEPT ![w] = "waited"]
        /\ UNCHANGED <<poisoned, table, run, died, exitCode, wpid>>
    BY <1>5 DEF WaitReads, sandboxVars, kernelVars, requestVars
  <2>2. wpid[w] \in Pids /\ run[wpid[w]] = "gone" /\ exitCode[wpid[w]] = died[wpid[w]]
    BY <1>5, <1>w DEF WaitReads, WorkerOK, Accounted, Recorded
  <2>3. Waiting' = Waiting /\ Exited' = Exited
    BY <1>t, <2>1 DEF Waiting, Exited, Waits
  <2>4. /\ Waiting[w] = wpid[w] /\ Waiting[w] # NoPid /\ Answers[w] = -1
        /\ Exited[wpid[w]] = died[wpid[w]] /\ died[wpid[w]] # -1
    BY <1>t, <1>c, <2>1, <2>2, MarkersAssumption DEF Waiting, Answers, Exited, Waits
  <2>5. Answers' = [Answers EXCEPT ![w] = Exited[Waiting[w]]]
    BY <1>t, <2>1, <2>2, <2>4 DEF Answers, Response
  <2>6. Service!Learn(w)
    BY <2>1, <2>3, <2>4, <2>5 DEF Service!Learn, Service!NoExit, Exited, Waiting, Answers
  <2>. QED  BY <2>6 DEF Service!Next
<1>6. ASSUME WaitReturns(w) \/ (LockPanics(w) /\ wpc[w] = "waited") PROVE Service!Next
  <2>1. /\ wpc[w] = "waited" /\ \E at \in {"idle", "dead"} : wpc' = [wpc EXCEPT ![w] = at]
        /\ wpid' = [wpid EXCEPT ![w] = NoPid]
        /\ UNCHANGED <<run, died, exitCode>>
    BY <1>6 DEF WaitReturns, LockPanics, sandboxVars, kernelVars
  <2>2. wpid[w] \in Pids
    BY <1>w, <2>1 DEF WorkerOK
  <2>3. Waiting' = [Waiting EXCEPT ![w] = NoPid] /\ Answers' = [Answers EXCEPT ![w] = -1]
    BY <1>t, <2>1 DEF Waiting, Answers, Response, Waits
  <2>4. Exited' = Exited
    BY <2>1 DEF Exited
  <2>5. Waiting[w] = wpid[w] /\ Answers[w] = exitCode[wpid[w]] /\ Answers[w] # -1
    BY <1>t, <1>c, <2>1, <2>2 DEF Waiting, Answers, Response, Waits
  <2>6. CASE WaitReturns(w) /\ wpid[w] \in table
    <3>1. ~ poisoned /\ table' = table \ {wpid[w]} /\ poisoned' = poisoned
      BY <2>6 DEF WaitReturns, Unlocked
    <3>2. Service!Answer(w)
      BY <2>3, <2>4, <2>5, <2>6, <3>1
      DEF Service!Answer, Service!NoExit, Exited, Waiting, Answers
    <3>. QED  BY <3>2 DEF Service!Next
  <2>7. CASE ~ (WaitReturns(w) /\ wpid[w] \in table)
    <3>1. poisoned' = TRUE /\ table' = table /\ (~ poisoned => wpid[w] \notin table)
      BY <1>6, <2>7 DEF WaitReturns, LockPanics, sandboxVars
    <3>2. Service!Abort(w)
      BY <2>3, <2>4, <2>5, <3>1
      DEF Service!Abort, Service!NoExit, Exited, Waiting, Answers
    <3>. QED  BY <3>2 DEF Service!Next
  <2>. QED  BY <2>6, <2>7
<1>7. ASSUME LockPanics(w), wpc[w] # "waited" PROVE Quiet
  BY <1>7, <1>t DEF LockPanics, kernelVars, sandboxVars, Waits
<1>8. SpawnSucceeds(w) => wpid[w] \notin table
  BY DEF OwnedInv, Relies, SpawnSucceeds
<1>. HIDE DEF Quiet
<1>. QED  BY <1>q, <1>1, <1>2, <1>3, <1>4, <1>5, <1>6, <1>7, <1>8 DEF Continues

\* The thread of a timed removal is invisible, but when it panics.
LEMMA HelperService ==
    ASSUME Inv, NEW w \in Workers, HelperDestroys(w) \/ HelperPanics(w)
    PROVE  Service!Next
<1>t. wpc \in [Workers -> WorkerPcs]
  BY DEF Inv, TypeOK
<1>1. Silent
  BY <1>t DEF HelperDestroys, HelperPanics, Silent, SameWaits, SameExits, SameCodes,
         sandboxVars, Waits
<1>2. table' = table /\ (poisoned' = poisoned \/ poisoned' = TRUE)
  BY DEF HelperDestroys, HelperPanics, sandboxVars
<1>. QED  BY <1>1, <1>2, SilentStep

\* do_wait_process, the reaper of setup_signal_handler and all other requests
\* together implement WaitService: whoever waits is told the code the process
\* exited with, once, whatever the others do meanwhile.
THEOREM Implementation == Spec => ImplementsWaitService
<1>1. OwnedInv /\ [Next]_vars => [Service!Next]_Service!vars
  <2>. SUFFICES ASSUME OwnedInv, [Next]_vars PROVE [Service!Next]_Service!vars
    OBVIOUS
  <2>1. CASE UNCHANGED vars
    <3>1. Silent /\ table' = table /\ poisoned' = poisoned
      BY <2>1 DEF vars, Silent, SameWaits, SameExits, SameCodes
    <3>. QED  BY <3>1, SilentStep
  <2>. QED
    BY <2>1, KernelService, ReaperService, BeginsService, ContinuesService, HelperService
    DEF Next, OwnedInv
<1>. QED  BY <1>1, ServiceInit, Ownership, PTL DEF Spec, ImplementsWaitService, Service!Spec

-----------------------------------------------------------------------------
(* Containers that are removed or made again.                              *)

\* An exec fifo that has been made stays, as only CreateSandbox empties the
\* directories.
LEMMA FifoGrows ==
    ASSUME "CreateSandbox" \notin Ops, OwnedInv, Next PROVE fifo \subseteq fifo'
<1>1. CASE Kernel \/ Reaper
  BY <1>1 DEF Kernel, ChildAtFifo, ChildExec, ChildDies, Reaper, ReaperWakes, ReaperSleeps,
         ReaperRecords, ReaperPanics, ReaperCollects, sandboxVars
<1>2. ASSUME NEW w \in Workers, Begins(w) PROVE fifo \subseteq fifo'
  <2>1. ~ CreateSandbox(w)
    BY DEF CreateSandbox, Idle
  <2>2. ASSUME NEW c \in Cids, NEW e, NEW p,
               \/ CreateRefused(w, c) \/ CreateFails(w, c) \/ ExecRefused(w, c)
               \/ StartRefused(w, c) \/ StartOpens(w, c) \/ SignalAll(w, c)
               \/ ListPanics(w, c) \/ RemovePanics(w, c) \/ RemoveFails(w, c)
               \/ RemoveUnmountFails(w, c) \/ RemoveSucceeds(w, c) \/ RemoveSpawns(w, c)
               \/ SignalProcess(w, c, e) \/ WaitRefused(w, c, e)
               \/ CreateForks(w, c, p) \/ ListForks(w, c, p) \/ WaitFinds(w, c, p)
               \/ ExecForks(w, c, e, p)
        PROVE  fifo \subseteq fifo'
    BY <2>2 DEF CreateRefused, CreateFails, ExecRefused, StartRefused, StartOpens,
           SignalAll, SignalProcess, SignalFinds, ListPanics, RemovePanics, RemoveFails,
           RemoveUnmountFails, RemoveSucceeds, RemoveSpawns, WaitRefused, CreateForks,
           ListForks, WaitFinds, ExecForks, sandboxVars
  <2>3. DestroySandbox(w) => fifo \subseteq fifo'
    BY DEF DestroySandbox
  <2>4. (CreatePanics(w) \/ \E ps : SignalPanics(w, ps)) => fifo \subseteq fifo'
    BY UnwrapsPanic DEF PanicsAtOnce, sandboxVars
  <2>. QED  BY <1>2, <2>1, <2>2, <2>3, <2>4 DEF Begins
<1>3. ASSUME NEW w \in Workers, Continues(w) \/ HelperDestroys(w) \/ HelperPanics(w)
      PROVE  fifo' = fifo
  BY <1>3 DEF Continues, SpawnSucceeds, SpawnFails, StartWrites, WaitReads, WaitReturns,
         ListCollects, ListLosesRace, RemoveTimesOut, RemoveAfterJoin, LockPanics,
         HelperDestroys, HelperPanics, sandboxVars
<1>. QED  BY <1>1, <1>2, <1>3 DEF Next

\* Nobody spawns after the step of a request that had the mutex, or found it
\* free, and does not spawn itself.
LEMMA NobodySpawns ==
    ASSUME OwnedInv, NEW w \in Workers, lock \in {Free, w},
           \A v \in Workers \ {w} : wpc'[v] = wpc[v], wpc'[w] # "spawn"
    PROVE  \A v \in Workers : wpc'[v] # "spawn"
BY Alone, MarkersAssumption DEF OwnedInv

\* As long as exec fifos stay, containers have theirs.
LEMMA FifoStep ==
    ASSUME OwnedInv, FifoInv, Next, fifo \subseteq fifo' PROVE FifoInv'
<1>t. /\ wpc \in [Workers -> WorkerPcs] /\ fifo \subseteq Cids
      /\ wpid \in [Workers -> Pids \cup {NoPid}] /\ wcid \in [Workers -> Cids \cup {NoCid}]
      /\ who \in [Pids -> [cid : Cids \cup {NoCid}, eid : Eids \cup {InitEid}, role : Roles]]
      /\ status \in [Cids -> {"absent", "created", "running", "stopped"}]
  BY DEF OwnedInv, Inv, TypeOK
<1>. USE DEF Replies, Ends
<1>1. CASE Steady
  <2>1. \A c \in Cids : status'[c] # "absent" => c \in fifo'
    BY <1>1 DEF FifoInv, Steady
  <2>2. ASSUME NEW w \in Workers, wpc'[w] = "spawn"
        PROVE  /\ wcid'[w] \in fifo'
               /\ who'[wpid'[w]].role = "init" => status'[wcid'[w]] = "absent"
    <3>1. wpc[w] = "spawn" /\ wpid'[w] = wpid[w] /\ wcid'[w] = wcid[w]
      BY <1>1, <2>2 DEF Steady
    <3>2. WorkerOK(w) /\ Relies(w)
      BY DEF OwnedInv, Inv, WorkerInv
    <3>3. wpid[w] \in Pids /\ run[wpid[w]] # "none" /\ wcid[w] \in Cids
      BY <3>1, <3>2 DEF WorkerOK, Relies
    <3>4. who'[wpid[w]] = who[wpid[w]]
      BY <1>1, <3>3 DEF Steady
    <3>. QED  BY <1>1, <3>1, <3>3, <3>4 DEF FifoInv, Steady
  <2>. QED  BY <2>1, <2>2 DEF FifoInv
<1>2. ASSUME NEW w \in Workers, NEW c \in Cids, StartOpens(w, c) \/ RemoveSucceeds(w, c)
      PROVE  FifoInv'
  <2>1. \A v \in Workers : wpc'[v] # "spawn"
    BY <1>2, <1>t, NobodySpawns DEF StartOpens, RemoveSucceeds, Unlocked
  <2>2. \A d \in Cids : status'[d] # "absent" => status[d] # "absent"
    BY <1>2, <1>t DEF StartOpens, RemoveSucceeds, sandboxVars
  <2>. QED  BY <2>1, <2>2 DEF FifoInv
<1>3. ASSUME NEW w \in Workers, NEW c \in Cids, NEW p \in Pids,
             CreateForks(w, c, p) \/ \E e \in Eids : ExecForks(w, c, e, p)
      PROVE  FifoInv'
  <2>1. /\ lock = Free /\ wpc' = [wpc EXCEPT ![w] = "spawn"] /\ status' = status
        /\ wcid' = [wcid EXCEPT ![w] = c] /\ wpid' = [wpid EXCEPT ![w] = p]
    BY <1>3 DEF CreateForks, ExecForks, Unlocked, sandboxVars
  <2>2. \A v \in Workers \ {w} : wpc'[v] # "spawn"
    BY <1>t, <2>1, Alone, MarkersAssumption DEF OwnedInv
  <2>3. c \in fifo' /\ (who'[p].role = "init" => status[c] = "absent")
    <3>1. CASE CreateForks(w, c, p)
      BY <3>1 DEF CreateForks, FifoInv
    <3>2. ASSUME NEW e \in Eids, ExecForks(w, c, e, p)
          PROVE  c \in fifo' /\ who'[p].role = "exec"
      BY <3>2, <1>t DEF ExecForks, Fork, FifoInv
    <3>. QED  BY <1>3, <3>1, <3>2
  <2>. QED  BY <1>t, <2>1, <2>2, <2>3 DEF FifoInv
<1>4. ASSUME NEW w \in Workers, SpawnSucceeds(w) PROVE FifoInv'
  <2>1. wpc[w] = "spawn" /\ lock = w
    BY <1>4, Alone DEF SpawnSucceeds, OwnedInv
  <2>2. \A v \in Workers : wpc'[v] # "spawn"
    BY <1>4, <1>t, <2>1, NobodySpawns DEF SpawnSucceeds
  <2>3. \A d \in Cids : status'[d] # "absent" => status[d] # "absent" \/ d = wcid[w]
    BY <1>4, <1>t DEF SpawnSucceeds
  <2>. QED  BY <2>1, <2>2, <2>3 DEF FifoInv
<1>5. ASSUME NEW w \in Workers, RemoveAfterJoin(w) PROVE FifoInv'
  <2>1. \A v \in Workers : wpc'[v] # "spawn"
    BY <1>5, <1>t, NobodySpawns DEF RemoveAfterJoin, Unlocked
  <2>2. \A d \in Cids : status'[d] # "absent" => status[d] # "absent"
    BY <1>5, <1>t DEF RemoveAfterJoin
  <2>. QED  BY <2>1, <2>2 DEF FifoInv
<1>. QED  BY <1>1, <1>2, <1>3, <1>4, <1>5, StepKinds

\* So each container has its exec fifo in every reachable state.
LEMMA FifoInvariant == ASSUME "CreateSandbox" \notin Ops PROVE Spec => []FifoInv
<1>1. Init => FifoInv
  BY DEF Init, FifoInv
<1>2. OwnedInv /\ FifoInv /\ [Next]_vars => FifoInv'
  <2>1. ASSUME UNCHANGED vars, FifoInv PROVE FifoInv'
    BY <2>1 DEF vars, FifoInv
  <2>. QED  BY <2>1, FifoGrows, FifoStep
<1>. QED  BY <1>1, <1>2, Ownership, PTL DEF Spec

\* do_create_container never replaces a container by another with its id,
\* which would drop its process map: start() refuses while the exec fifo of the
\* first one is there, and only create_sandbox removes it.
THEOREM ContainersStay ==
    ASSUME "CreateSandbox" \notin Ops PROVE Spec => NeverReplaced
<1>. DEFINE Kept == \A c \in Cids : status[c] # "absent" /\ status'[c] # "absent"
                                       => initPid'[c] = initPid[c]
<1>1. OwnedInv /\ FifoInv /\ [Next]_vars => [Kept]_vars
  <2>. SUFFICES ASSUME OwnedInv, FifoInv, Next PROVE Kept
    OBVIOUS
  <2>t. /\ initPid \in [Cids -> Pids \cup {NoPid}]
        /\ status \in [Cids -> {"absent", "created", "running", "stopped"}]
    BY DEF OwnedInv, Inv, TypeOK
  <2>1. CASE Steady
    BY <2>1 DEF Steady
  <2>2. ASSUME NEW w \in Workers, NEW c \in Cids,
               \/ StartOpens(w, c) \/ RemoveSucceeds(w, c)
               \/ \E p \in Pids : CreateForks(w, c, p) \/ \E e \in Eids : ExecForks(w, c, e, p)
        PROVE  Kept
    BY <2>2, <2>t DEF StartOpens, RemoveSucceeds, CreateForks, ExecForks, sandboxVars
  <2>3. ASSUME NEW w \in Workers, SpawnSucceeds(w) PROVE Kept
    BY <2>3, <2>t DEF SpawnSucceeds, FifoInv
  <2>4. ASSUME NEW w \in Workers, RemoveAfterJoin(w) PROVE Kept
    BY <2>4, <2>t DEF RemoveAfterJoin
  <2>. QED  BY <2>1, <2>2, <2>3, <2>4, StepKinds
<1>. QED  BY <1>1, Ownership, FifoInvariant, PTL DEF Spec, NeverReplaced

-----------------------------------------------------------------------------
(* Processes that are forgotten.                                           *)

\* Nobody removes with a timeout.
NoTimedRemoval == \A w \in Workers : wpc[w] \notin {"joining", "joined"}

\* Without timed removals no request is ever in one.
LEMMA NoTimedRemovalStep ==
    ASSUME "RemoveWithTimeout" \notin Ops, OwnedInv, NoTimedRemoval, Next
    PROVE  NoTimedRemoval'
<1>t. wpc \in [Workers -> WorkerPcs]
  BY DEF OwnedInv, Inv, TypeOK
<1>. USE DEF Replies, Ends, Panics, NoTimedRemoval
<1>1. CASE Kernel \/ Reaper
  BY <1>1 DEF Kernel, ChildAtFifo, ChildExec, ChildDies, Reaper, ReaperWakes, ReaperSleeps,
         ReaperRecords, ReaperPanics, ReaperCollects, workerVars
<1>2. ASSUME NEW w \in Workers, Begins(w) PROVE NoTimedRemoval'
  <2>1. CASE CreateSandbox(w) \/ DestroySandbox(w)
    BY <2>1, <1>t DEF CreateSandbox, DestroySandbox
  <2>2. ASSUME NEW c \in Cids, NEW e, NEW p,
               \/ CreateRefused(w, c) \/ CreateFails(w, c) \/ ExecRefused(w, c)
               \/ StartRefused(w, c) \/ StartOpens(w, c) \/ SignalAll(w, c)
               \/ ListPanics(w, c) \/ RemovePanics(w, c) \/ RemoveFails(w, c)
               \/ RemoveUnmountFails(w, c) \/ RemoveSucceeds(w, c)
               \/ SignalProcess(w, c, e) \/ WaitRefused(w, c, e)
               \/ CreateForks(w, c, p) \/ ListForks(w, c, p) \/ WaitFinds(w, c, p)
               \/ ExecForks(w, c, e, p)
        PROVE  NoTimedRemoval'
    BY <2>2, <1>t DEF CreateRefused, CreateFails, ExecRefused, StartRefused, StartOpens,
           SignalAll, SignalProcess, SignalFinds, ListPanics, RemovePanics, RemoveFails,
           RemoveUnmountFails, RemoveSucceeds, WaitRefused, CreateForks, ListForks,
           WaitFinds, ExecForks
  <2>3. \A c \in Cids : ~ RemoveSpawns(w, c)
    BY DEF RemoveSpawns, Idle
  <2>4. CASE CreatePanics(w) \/ \E ps : SignalPanics(w, ps)
    BY <2>4, <1>t, UnwrapsPanic DEF PanicsAtOnce
  <2>. QED  BY <1>2, <2>1, <2>2, <2>3, <2>4 DEF Begins
<1>3. ASSUME NEW w \in Workers, Continues(w) \/ HelperDestroys(w) \/ HelperPanics(w)
      PROVE  NoTimedRemoval'
  BY <1>3, <1>t DEF Continues, SpawnSucceeds, SpawnFails, StartWrites, WaitReads,
         WaitReturns, ListCollects, ListLosesRace, RemoveTimesOut, RemoveAfterJoin,
         LockPanics, HelperDestroys, HelperPanics
<1>. QED  BY <1>1, <1>2, <1>3 DEF Next

\* A process may only leave a table collected, or killed.
LEMMA SurvivorStep ==
    ASSUME OwnedInv, FifoInv, NoTimedRemoval, NoSurvivor, Next PROVE NoSurvivor'
<1>t. /\ wpc \in [Workers -> WorkerPcs] /\ wpid \in [Workers -> Pids \cup {NoPid}]
      /\ table \subseteq Pids
      /\ who \in [Pids -> [cid : Cids \cup {NoCid}, eid : Eids \cup {InitEid}, role : Roles]]
      /\ run \in [Pids -> Live \cup {"none", "zombie", "gone"}]
      /\ pending \in [Pids -> {0, SIGKILL, SIGTERM}]
  BY DEF OwnedInv, Inv, TypeOK
<1>. SUFFICES ASSUME NEW p \in Pids, p \notin table', run'[p] \in Running,
                     who'[p].role \in {"init", "exec"},
                     \A w \in Workers : wpc'[w] = "spawn" => wpid'[w] # p
              PROVE  pending'[p] = SIGKILL
  BY DEF NoSurvivor, Survivors, Running
<1>s. ASSUME p \notin table, run[p] \in Running, who[p].role \in {"init", "exec"},
             \A w \in Workers : wpc[w] = "spawn" => wpid[w] # p
      PROVE  pending[p] = SIGKILL
  BY <1>s DEF NoSurvivor, Survivors, Running
<1>. USE DEF Replies, Ends
<1>1. CASE Steady
  <2>1. run[p] \in Running /\ who'[p] = who[p]
    BY <1>1, <1>t DEF Steady, Running, Live
  <2>2. p \notin table
    BY <1>1, <2>1 DEF Steady, Running, Live
  <2>3. ASSUME NEW w \in Workers, wpc[w] = "spawn", wpid[w] = p PROVE FALSE
    BY <1>1, <2>3 DEF Steady, Running
  <2>4. pending[p] = SIGKILL
    BY <1>s, <2>1, <2>2, <2>3
  <2>. QED  BY <1>1, <2>4 DEF Steady
<1>2. ASSUME NEW w \in Workers, NEW c \in Cids, StartOpens(w, c)
      PROVE  pending'[p] = SIGKILL
  <2>1. /\ UNCHANGED <<table, run, who, pending, wpid>>
        /\ \A v \in Workers : wpc[v] = "spawn" => wpc'[v] = "spawn"
    BY <1>2, <1>t DEF StartOpens, Idle, sandboxVars, kernelVars
  <2>. QED  BY <1>s, <2>1
<1>3. ASSUME NEW w \in Workers, NEW c \in Cids, RemoveSucceeds(w, c)
      PROVE  pending'[p] = SIGKILL
  <2>1. /\ table' = table \ Procs(c) /\ UNCHANGED <<run, who>>
        /\ pending' = KillSent(Procs(c))
        /\ \A v \in Workers : wpc[v] = "spawn" => wpc'[v] = "spawn" /\ wpid'[v] = wpid[v]
    BY <1>3, <1>t DEF RemoveSucceeds, DestroySucceeds, Idle
  <2>2. CASE p \in table
    BY <2>1, <2>2 DEF KillSent, Running
  <2>3. CASE p \notin table
    <3>1. pending[p] = SIGKILL
      BY <1>s, <2>1, <2>3
    <3>. QED  BY <2>1, <3>1, <1>t, KilledStays
  <2>. QED  BY <2>2, <2>3
<1>4. ASSUME NEW w \in Workers, NEW c \in Cids, NEW q \in Pids,
             CreateForks(w, c, q) \/ \E e \in Eids : ExecForks(w, c, e, q)
      PROVE  pending'[p] = SIGKILL
  <2>1. /\ wpc[w] = "idle" /\ wpc' = [wpc EXCEPT ![w] = "spawn"]
        /\ wpid' = [wpid EXCEPT ![w] = q]
        /\ \E r : who' = [who EXCEPT ![q] = r]
        /\ run' = [run EXCEPT ![q] = "setup"] /\ UNCHANGED <<table, pending>>
    BY <1>4 DEF CreateForks, ExecForks, Fork, Idle, sandboxVars
  <2>2. p # q
    BY <1>t, <2>1
  <2>3. run'[p] = run[p] /\ who'[p] = who[p]
    BY <1>t, <2>1, <2>2
  <2>4. \A v \in Workers : wpc[v] = "spawn" => wpc'[v] = "spawn" /\ wpid'[v] = wpid[v]
    BY <1>t, <2>1
  <2>. QED  BY <1>s, <2>1, <2>3, <2>4
<1>5. ASSUME NEW w \in Workers, SpawnSucceeds(w) PROVE pending'[p] = SIGKILL
  <2>1. wpc[w] = "spawn" /\ Relies(w)
    BY <1>5 DEF SpawnSucceeds, OwnedInv
  <2>2. who[wpid[w]].role = "init" => Procs(wcid[w]) = {}
    BY <2>1 DEF FifoInv, OwnedInv, TableOwned, Procs
  <2>3. table' = table \cup {wpid[w]} /\ UNCHANGED <<run, who, pending>>
    BY <1>5, <2>2 DEF SpawnSucceeds
  <2>4. \A v \in Workers \ {w} : wpc'[v] = wpc[v] /\ wpid'[v] = wpid[v]
    BY <1>5, <1>t DEF SpawnSucceeds
  <2>. QED  BY <1>s, <2>3, <2>4
<1>6. ASSUME NEW w \in Workers, RemoveAfterJoin(w) PROVE FALSE
  BY <1>6 DEF RemoveAfterJoin, NoTimedRemoval
<1>. QED  BY <1>1, <1>2, <1>3, <1>4, <1>5, <1>6, StepKinds

\* A process that has left its process map and still runs has been sent SIGKILL
\* by destroy(), as do_remove_container without a timeout keeps the mutex
\* between the killing and the removal.  (With a timeout it does not, and a
\* process exec'ed in between survives.)
THEOREM ForgottenAreKilled ==
    ASSUME "CreateSandbox" \notin Ops, "RemoveWithTimeout" \notin Ops
    PROVE  Spec => []NoSurvivor
<1>. DEFINE NI == NoTimedRemoval /\ NoSurvivor
<1>1. Init => NI
  BY DEF Init, NoTimedRemoval, NoSurvivor, Survivors, Live
<1>2. OwnedInv /\ FifoInv /\ NI /\ [Next]_vars => NI'
  <2>1. ASSUME UNCHANGED vars, NI PROVE NI'
    BY <2>1 DEF vars, NoTimedRemoval, NoSurvivor, Survivors
  <2>. QED  BY <2>1, NoTimedRemovalStep, SurvivorStep
<1>3. NI => NoSurvivor
  OBVIOUS
<1>. HIDE DEF NI
<1>. QED  BY <1>1, <1>2, <1>3, Ownership, FifoInvariant, PTL DEF Spec

-----------------------------------------------------------------------------
(* A waiter finds its process again.                                       *)

\* Whoever waits for a process is the only one, and the process is there.
WaitersInv ==
    \A w \in Workers : wpc[w] \in Waits =>
        /\ wpid[w] \in table
        /\ \A v \in Workers \ {w} : wpc[v] \in Waits => wpid[v] # wpid[w]

\* A step of one worker that takes nothing from those who wait.
LEMMA OtherWaiters ==
    ASSUME WaitersInv, NEW w \in Workers,
           \A v \in Workers \ {w} : wpc'[v] = wpc[v] /\ wpid'[v] = wpid[v],
           table \subseteq table',
           wpc'[w] \in Waits =>
              /\ wpid'[w] \in table'
              /\ \A v \in Workers \ {w} : wpc[v] \in Waits => wpid[v] # wpid'[w]
    PROVE  WaitersInv'
<1>1. ASSUME NEW u \in Workers, wpc'[u] \in Waits
      PROVE  /\ wpid'[u] \in table'
             /\ \A v \in Workers \ {u} : wpc'[v] \in Waits => wpid'[v] # wpid'[u]
  <2>1. CASE u = w
    BY <1>1, <2>1
  <2>2. CASE u # w
    BY <1>1, <2>2 DEF WaitersInv
  <2>. QED  BY <2>1, <2>2
<1>. QED  BY <1>1 DEF WaitersInv

\* What no waiter notices.
Unnoticed(w) ==
    /\ table' = table
    /\ \A v \in Workers \ {w} : wpc'[v] = wpc[v] /\ wpid'[v] = wpid[v]
    /\ wpc'[w] \notin Waits

\* A request that begins and is not a wait, nor a removal, is not noticed.
LEMMA BeginsUnnoticed ==
    ASSUME OwnedInv, NEW w \in Workers, NEW c, NEW e, NEW p,
           \/ DestroySandbox(w) \/ CreatePanics(w) \/ SignalPanics(w, e)
           \/ CreateRefused(w, c) \/ CreateFails(w, c) \/ ExecRefused(w, c)
           \/ StartRefused(w, c) \/ StartOpens(w, c) \/ SignalAll(w, c)
           \/ SignalProcess(w, c, e) \/ WaitRefused(w, c, e)
           \/ CreateForks(w, c, p) \/ ExecForks(w, c, e, p)
           \/ ListPanics(w, c) \/ ListForks(w, c, p)
    PROVE  Unnoticed(w)
<1>t. wpc \in [Workers -> WorkerPcs] /\ wpid \in [Workers -> Pids \cup {NoPid}]
  BY DEF OwnedInv, Inv, TypeOK
<1>. USE DEF Replies, Panics, Ends, Waits, Unnoticed, sandboxVars
<1>1. CASE CreatePanics(w) \/ SignalPanics(w, e)
  BY <1>1, <1>t, UnwrapsPanic DEF PanicsAtOnce
<1>2. CASE DestroySandbox(w)
  BY <1>2, <1>t DEF DestroySandbox
<1>3. CASE \/ CreateForks(w, c, p) \/ ExecForks(w, c, e, p)
           \/ ListPanics(w, c) \/ ListForks(w, c, p)
  BY <1>3, <1>t DEF CreateForks, ExecForks, ListPanics, ListForks
<1>. QED  BY <1>1, <1>2, <1>3, <1>t DEF CreateRefused, CreateFails, ExecRefused,
              StartRefused, StartOpens, SignalAll, SignalProcess, SignalFinds, WaitRefused

\* Nor is a request that goes on, unless it is a wait or fills the table.
LEMMA ContinuesUnnoticed ==
    ASSUME OwnedInv, NEW w \in Workers,
           \/ SpawnFails(w) \/ StartWrites(w) \/ ListCollects(w) \/ ListLosesRace(w)
           \/ LockPanics(w)
    PROVE  Unnoticed(w)
<1>t. wpc \in [Workers -> WorkerPcs] /\ wpid \in [Workers -> Pids \cup {NoPid}]
  BY DEF OwnedInv, Inv, TypeOK
<1>. QED  BY <1>t DEF Replies, Panics, Ends, Waits, Unnoticed, sandboxVars, SpawnFails,
              StartWrites, ListCollects, ListLosesRace, LockPanics

\* Every step of an orderly runtime leaves the waiters their processes.
LEMMA WaitersStep ==
    ASSUME Orderly, Ops \cap {"CreateSandbox", "RemoveContainer", "RemoveWithTimeout"} = {},
           OwnedInv, FifoInv, NoTimedRemoval, WaitersInv, Next
    PROVE  WaitersInv'
<1>t. /\ wpc \in [Workers -> WorkerPcs] /\ wpid \in [Workers -> Pids \cup {NoPid}]
      /\ table \subseteq Pids
  BY DEF OwnedInv, Inv, TypeOK
<1>u. ASSUME NEW w \in Workers, Unnoticed(w) PROVE WaitersInv'
  BY <1>u, OtherWaiters DEF Unnoticed
<1>. USE DEF Replies, Ends
<1>1. CASE Kernel \/ Reaper
  <2>1. UNCHANGED <<wpc, wpid, table>>
    BY <1>1 DEF Kernel, ChildAtFifo, ChildExec, ChildDies, Reaper, ReaperWakes,
           ReaperSleeps, ReaperRecords, ReaperPanics, ReaperCollects, sandboxVars,
           workerVars, requestVars
  <2>. QED  BY <2>1 DEF WaitersInv
<1>2. ASSUME NEW w \in Workers, Begins(w) PROVE WaitersInv'
  <2>1. ASSUME NEW c, NEW e, NEW p,
               \/ DestroySandbox(w) \/ CreatePanics(w) \/ SignalPanics(w, e)
               \/ CreateRefused(w, c) \/ CreateFails(w, c) \/ ExecRefused(w, c)
               \/ StartRefused(w, c) \/ StartOpens(w, c) \/ SignalAll(w, c)
               \/ SignalProcess(w, c, e) \/ WaitRefused(w, c, e)
               \/ CreateForks(w, c, p) \/ ExecForks(w, c, e, p)
               \/ ListPanics(w, c) \/ ListForks(w, c, p)
        PROVE  WaitersInv'
    <3>1. Unnoticed(w)
      BY <2>1, BeginsUnnoticed
    <3>. QED  BY <3>1, <1>u
  <2>2. ASSUME NEW c \in Cids, NEW p \in Pids, WaitFinds(w, c, p) PROVE WaitersInv'
    <3>1. /\ table' = table
          /\ wpc' = [wpc EXCEPT ![w] = "reading"] /\ wpid' = [wpid EXCEPT ![w] = p]
          /\ p \in table
          /\ \A v \in Workers : wpc[v] \in Waits => wpid[v] # p
      BY <2>2 DEF WaitFinds, Named, Procs, Waits, sandboxVars
    <3>2. wpc'[w] \in Waits /\ wpid'[w] = p
      BY <3>1, <1>t DEF Waits
    <3>3. \A v \in Workers \ {w} : wpc'[v] = wpc[v] /\ wpid'[v] = wpid[v]
      BY <3>1, <1>t
    <3>. QED  BY <3>1, <3>2, <3>3, OtherWaiters
  <2>3. /\ ~ CreateSandbox(w)
        /\ \A c \in Cids :
              /\ ~ RemovePanics(w, c) /\ ~ RemoveFails(w, c)
              /\ ~ RemoveUnmountFails(w, c) /\ ~ RemoveSucceeds(w, c)
              /\ ~ RemoveSpawns(w, c)
    BY DEF Idle, CreateSandbox, RemovePanics, RemoveFails, RemoveUnmountFails,
           RemoveSucceeds, RemoveSpawns
  <2>. QED  BY <1>2, <2>1, <2>2, <2>3 DEF Begins
<1>3. ASSUME NEW w \in Workers, Continues(w) PROVE WaitersInv'
  <2>1. CASE SpawnSucceeds(w)
    <3>1. who[wpid[w]].role = "init" => Procs(wcid[w]) = {}
      BY <2>1 DEF SpawnSucceeds, FifoInv, OwnedInv, TableOwned, Relies, Procs
    <3>2. table \subseteq table'
      BY <2>1, <3>1 DEF SpawnSucceeds
    <3>3. /\ wpc'[w] = "idle"
          /\ \A v \in Workers \ {w} : wpc'[v] = wpc[v] /\ wpid'[v] = wpid[v]
      BY <2>1, <1>t DEF SpawnSucceeds
    <3>. QED  BY <3>2, <3>3, OtherWaiters DEF Waits
  <2>2. CASE SpawnFails(w) \/ StartWrites(w) \/ ListCollects(w) \/ ListLosesRace(w)
               \/ LockPanics(w)
    <3>1. Unnoticed(w)
      BY <2>2, ContinuesUnnoticed
    <3>. QED  BY <3>1, <1>u
  <2>3. CASE WaitReads(w)
    <3>1. /\ UNCHANGED <<table, wpid>>
          /\ wpc[w] = "reading" /\ wpc' = [wpc EXCEPT ![w] = "waited"]
      BY <2>3 DEF WaitReads, requestVars, sandboxVars
    <3>2. /\ wpid[w] \in table
          /\ \A v \in Workers \ {w} : wpc[v] \in Waits => wpid[v] # wpid[w]
      BY <3>1 DEF WaitersInv, Waits
    <3>3. wpc'[w] \in Waits /\ \A v \in Workers \ {w} : wpc'[v] = wpc[v]
      BY <3>1, <1>t DEF Waits
    <3>. QED  BY <3>1, <3>2, <3>3, OtherWaiters
  <2>4. CASE WaitReturns(w)
    <3>1. /\ wpc[w] \in Waits /\ wpid[w] \in table
          /\ \A v \in Workers \ {w} : wpc[v] \in Waits => wpid[v] # wpid[w]
      BY <2>4 DEF WaitReturns, WaitersInv, Waits
    <3>2. /\ table' = table \ {wpid[w]}
          /\ \A v \in Workers \ {w} : wpc'[v] = wpc[v] /\ wpid'[v] = wpid[v]
          /\ wpc'[w] = "idle"
      BY <2>4, <3>1, <1>t DEF WaitReturns
    <3>. QED  BY <3>1, <3>2 DEF WaitersInv, Waits
  <2>5. ~ RemoveTimesOut(w) /\ ~ RemoveAfterJoin(w)
    BY DEF RemoveTimesOut, RemoveAfterJoin, NoTimedRemoval
  <2>. QED  BY <1>3, <2>1, <2>2, <2>3, <2>4, <2>5 DEF Continues
<1>4. ASSUME NEW w \in Workers, HelperDestroys(w) \/ HelperPanics(w) PROVE WaitersInv'
  <2>1. UNCHANGED <<wpc, wpid, table>>
    BY <1>4 DEF HelperDestroys, HelperPanics, NoTimedRemoval, sandboxVars
  <2>. QED  BY <2>1 DEF WaitersInv
<1>. QED  BY <1>1, <1>2, <1>3, <1>4 DEF Next

\* Whatever is created, exec'ed, signalled, listed and destroyed meanwhile, and
\* whoever panics: do_wait_process finds the process it unwraps after the read of
\* the exit pipe, if processes are waited for once and containers not removed.
THEOREM WaitersFindAgain ==
    ASSUME Orderly, Ops \cap {"CreateSandbox", "RemoveContainer", "RemoveWithTimeout"} = {}
    PROVE  Spec => []WaitFindsAgain
<1>. DEFINE WI == NoTimedRemoval /\ WaitersInv
<1>1. Init => WI
  BY DEF Init, NoTimedRemoval, WaitersInv, Waits
<1>2. OwnedInv /\ FifoInv /\ WI /\ [Next]_vars => WI'
  <2>1. ASSUME UNCHANGED vars, WI PROVE WI'
    BY <2>1 DEF vars, NoTimedRemoval, WaitersInv
  <2>. QED  BY <2>1, NoTimedRemovalStep, WaitersStep
<1>3. WI => WaitFindsAgain
  BY DEF WaitersInv, WaitFindsAgain, Waits
<1>. HIDE DEF WI
<1>4. "CreateSandbox" \notin Ops
  OBVIOUS
<1>5. Spec => []FifoInv
  BY <1>4, FifoInvariant
<1>. QED  BY <1>1, <1>2, <1>3, <1>5, Ownership, PTL DEF Spec
=============================================================================
