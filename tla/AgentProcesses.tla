--------------------------- MODULE AgentProcesses ---------------------------
(***************************************************************************)
(* The life of containers and their processes in the agent.                *)
(*                                                                         *)
(* The threads of the gRPC server (src/src/grpc.rs) create, start, signal, *)
(* wait for and remove; a reaper thread (src/src/main.rs) collects exited  *)
(* children; all of them share one Sandbox behind one mutex.  The kernel   *)
(* side is kept as far as the agent sees it: the state of each child, the  *)
(* exec fifo an init process blocks on, and, for each process, who holds a *)
(* write end of its exit pipe, because a waiter is woken by the close of   *)
(* the last one.                                                           *)
(*                                                                         *)
(* A Rust thread that panics with the mutex held poisons it, and every     *)
(* later lock().unwrap() panics too.                                       *)
(*                                                                         *)
(* A request without blocking calls inside its critical section is one     *)
(* step; one that forks, blocks on the fifo or waits for a child with the  *)
(* mutex held is several.  Pids are not reused.                            *)
(***************************************************************************)
EXTENDS Naturals, FiniteSets

CONSTANTS
    Cids,        \* container ids
    Eids,        \* exec ids
    Pids,        \* process ids the kernel hands out, each once
    Workers,     \* threads of the gRPC server
    ExitCodes,   \* codes a program may exit with
    Ops,         \* requests the runtime sends
    Orderly,     \* the runtime starts a container once and waits for a
                 \* process once, removes containers that exist, no init
                 \* process dies before its start, and no set-up of a
                 \* process and no hook fails
    InitEid,     \* exec id of the init processes
    NoPid, NoCid

Agent == "agent"
Free == "free"

ASSUME MarkersAssumption ==
    /\ NoPid \notin Pids /\ NoCid \notin Cids /\ InitEid \notin Eids
    /\ Agent \notin Pids /\ Free \notin Workers
ASSUME CodesAssumption == ExitCodes \subseteq Nat
ASSUME OrderlyAssumption == Orderly \in BOOLEAN
ASSUME OpsAssumption ==
    Ops \subseteq {"CreateSandbox", "CreateContainer", "CreateIncomplete",
                   "StartContainer", "ExecProcess", "SignalProcess",
                   "SignalAll", "SignalUnknown", "WaitProcess",
                   "ListProcesses", "RemoveContainer", "RemoveWithTimeout",
                   "DestroySandbox"}

SIGKILL == 9
SIGTERM == 15
Codes == ExitCodes \cup {0, SIGKILL, SIGTERM}

VARIABLES
    lock,       \* the sandbox mutex: Free, or the worker that holds it
    poisoned,   \* did a thread panic with the mutex held?
    status,     \* container -> LinuxContainer.status, "absent" if not there
    initPid,    \* container -> LinuxContainer.init_process_pid
    fifo,       \* containers whose exec.fifo exists below CONTAINER_BASE
    sender,     \* Sandbox.sender is still set
    table,      \* pids in the processes map of their container
    who,        \* pid -> what it was forked as: container, exec id, role
    exitCode,   \* pid -> Process.exit_code
    run,        \* kernel: pid -> state of the process
    died,       \* kernel: pid -> code it exited with, or signal
    pending,    \* kernel: pid -> fatal signal sent to it, or 0
    writers,    \* kernel: pid -> holders of a write end of its exit pipe
    sigchld,    \* kernel: a SIGCHLD has not been consumed
    rpc, rpid,  \* reaper: control, and the child it has just collected
    wpc,        \* worker -> control
    wcid, wpid, \* worker -> container and process of its request
    helper      \* worker -> container its removal thread destroys, or NoCid

vars == <<lock, poisoned, status, initPid, fifo, sender, table, who, exitCode,
          run, died, pending, writers, sigchld, rpc, rpid, wpc, wcid, wpid,
          helper>>

sandboxVars == <<status, initPid, fifo, sender, table, exitCode>>
kernelVars == <<who, run, died, pending, writers, sigchld>>
reaperVars == <<rpc, rpid>>
requestVars == <<wcid, wpid, helper>>
workerVars == <<wpc, requestVars>>

Roles == {"none", "init", "exec", "ps"}
NoProcess == [cid |-> NoCid, eid |-> InitEid, role |-> "none"]
Live == {"setup", "stuck", "fifo", "go", "run"}

Init ==
    /\ lock = Free
    /\ poisoned = FALSE
    /\ status = [c \in Cids |-> "absent"]
    /\ initPid = [c \in Cids |-> NoPid]
    /\ fifo = {}
    /\ sender = TRUE
    /\ table = {}
    /\ who = [p \in Pids |-> NoProcess]
    /\ exitCode = [p \in Pids |-> 0]
    /\ run = [p \in Pids |-> "none"]
    /\ died = [p \in Pids |-> 0]
    /\ pending = [p \in Pids |-> 0]
    /\ writers = [p \in Pids |-> {}]
    /\ sigchld = FALSE
    /\ rpc = "idle"
    /\ rpid = NoPid
    /\ wpc = [w \in Workers |-> "idle"]
    /\ wcid = [w \in Workers |-> NoCid]
    /\ wpid = [w \in Workers |-> NoPid]
    /\ helper = [w \in Workers |-> NoCid]

-----------------------------------------------------------------------------
(* Children.                                                               *)

\* fork copies every descriptor the agent has, exit pipes of other
\* processes included; O_CLOEXEC closes them at exec only.
Inherited(q) ==
    [p \in Pids |-> IF Agent \in writers[p] THEN writers[p] \cup {q}
                                            ELSE writers[p]]

\* Write ends once p has exec'ed or died.
Without(p) == [q \in Pids |-> writers[q] \ {p}]

Fork(q, c, e, role) ==
    /\ run[q] = "none"
    /\ run' = [run EXCEPT ![q] = "setup"]
    /\ who' = [who EXCEPT ![q] = [cid |-> c, eid |-> e, role |-> role]]
    /\ writers' = Inherited(q)

\* An init process is set up and blocks on the exec fifo.
ChildAtFifo(p) ==
    /\ run[p] = "setup"
    /\ who[p].role = "init"
    /\ run' = [run EXCEPT ![p] = "fifo"]
    /\ UNCHANGED <<lock, poisoned, who, died, pending, writers, sigchld,
                   sandboxVars, reaperVars, workerVars>>

\* Mutation: an init process does not stop at the exec fifo.
ChildExecsAtOnce(p) ==
    /\ run[p] \in {"setup", "go"}
    /\ run' = [run EXCEPT ![p] = "run"]
    /\ writers' = Without(p)
    /\ UNCHANGED <<lock, poisoned, who, died, pending, sigchld,
                   sandboxVars, reaperVars, workerVars>>

\* do_exec: an init process once the fifo let it go, any other at once.
ChildExec(p) ==
    /\ \/ run[p] = "go"
       \/ run[p] = "setup" /\ who[p].role \in {"exec", "ps"}
    /\ run' = [run EXCEPT ![p] = "run"]
    /\ writers' = Without(p)
    /\ UNCHANGED <<lock, poisoned, who, died, pending, sigchld,
                   sandboxVars, reaperVars, workerVars>>

\* A child exits or is killed and is a zombie until it is waited for.  The
\* death of a child the parent still talks to is not modelled here.
ChildDies(p, code) ==
    /\ run[p] \in Live \ {"stuck"}
    /\ run[p] = "setup" => p \in table
    /\ pending[p] = 0 => code \in ExitCodes
    /\ pending[p] # 0 => code = pending[p]
    /\ Orderly /\ pending[p] = 0 => run[p] = "run"
    /\ run' = [run EXCEPT ![p] = "zombie"]
    /\ died' = [died EXCEPT ![p] = code]
    /\ writers' = Without(p)
    /\ sigchld' = TRUE
    /\ UNCHANGED <<lock, poisoned, who, pending, sandboxVars, reaperVars,
                   workerVars>>

-----------------------------------------------------------------------------
(* The reaper thread of setup_signal_handler.                              *)

ReaperWakes ==
    /\ rpc = "idle"
    /\ sigchld
    /\ sigchld' = FALSE
    /\ rpc' = "loop"
    /\ UNCHANGED <<lock, poisoned, who, run, died, pending, writers, rpid,
                   sandboxVars, workerVars>>

\* waitpid(-1, WNOHANG) collects any zombie, whoever forked it.
ReaperCollects(p) ==
    /\ rpc = "loop"
    /\ run[p] = "zombie"
    /\ run' = [run EXCEPT ![p] = "gone"]
    /\ rpid' = p
    /\ rpc' = "record"
    /\ UNCHANGED <<lock, poisoned, who, died, pending, writers, sigchld,
                   sandboxVars, workerVars>>

\* StillAlive or ECHILD: wait for the next signal.
ReaperSleeps ==
    /\ rpc = "loop"
    /\ \A p \in Pids : run[p] # "zombie"
    /\ rpc' = "idle"
    /\ UNCHANGED <<lock, poisoned, kernelVars, rpid, sandboxVars,
                   workerVars>>

\* Mutation: the reaper leaves the loop after one child.
ReaperRecordsOnce ==
    /\ rpc = "record"
    /\ lock = Free /\ ~poisoned
    /\ exitCode' = IF rpid \in table
                   THEN [exitCode EXCEPT ![rpid] = died[rpid]] ELSE exitCode
    /\ writers' = IF rpid \in table
                  THEN [writers EXCEPT ![rpid] = @ \ {Agent}] ELSE writers
    /\ rpid' = NoPid
    /\ rpc' = "idle"
    /\ UNCHANGED <<lock, poisoned, status, initPid, fifo, sender, table,
                   who, run, died, pending, sigchld, workerVars>>

\* Mutation: the exit code is stored, the exit pipe left open.
ReaperKeepsPipe ==
    /\ rpc = "record"
    /\ lock = Free /\ ~poisoned
    /\ exitCode' = IF rpid \in table
                   THEN [exitCode EXCEPT ![rpid] = died[rpid]] ELSE exitCode
    /\ rpid' = NoPid
    /\ rpc' = "loop"
    /\ UNCHANGED <<lock, poisoned, status, initPid, fifo, sender, table,
                   kernelVars, workerVars>>

\* Mutation: the reaper takes the process out of the table as well.
ReaperForgets ==
    /\ rpc = "record"
    /\ lock = Free /\ ~poisoned
    /\ table' = table \ {rpid}
    /\ exitCode' = IF rpid \in table
                   THEN [exitCode EXCEPT ![rpid] = died[rpid]] ELSE exitCode
    /\ writers' = IF rpid \in table
                  THEN [writers EXCEPT ![rpid] = @ \ {Agent}] ELSE writers
    /\ rpid' = NoPid
    /\ rpc' = "loop"
    /\ UNCHANGED <<lock, poisoned, status, initPid, fifo, sender,
                   who, run, died, pending, sigchld, workerVars>>

\* Under the mutex: the exit code of a process of some container is stored
\* and the agent's write end closed; another child is only logged.
ReaperRecords ==
    /\ rpc = "record"
    /\ lock = Free /\ ~poisoned
    /\ exitCode' = IF rpid \in table
                   THEN [exitCode EXCEPT ![rpid] = died[rpid]] ELSE exitCode
    /\ writers' = IF rpid \in table
                  THEN [writers EXCEPT ![rpid] = @ \ {Agent}] ELSE writers
    /\ rpid' = NoPid
    /\ rpc' = "loop"
    /\ UNCHANGED <<lock, poisoned, status, initPid, fifo, sender, table,
                   who, run, died, pending, sigchld, workerVars>>

\* lock().unwrap() on the poisoned mutex ends the thread.
ReaperPanics ==
    /\ rpc = "record"
    /\ poisoned
    /\ rpc' = "dead"
    /\ UNCHANGED <<lock, poisoned, kernelVars, rpid, sandboxVars,
                   workerVars>>

-----------------------------------------------------------------------------
(* Requests: how they begin and end.                                       *)

Idle(w, op) == op \in Ops /\ wpc[w] = "idle"
Unlocked == lock = Free /\ ~poisoned

\* Ok or an error: the thread is free for another request.
Ends(w, at) ==
    /\ wpc' = [wpc EXCEPT ![w] = at]
    /\ wcid' = [wcid EXCEPT ![w] = NoCid]
    /\ wpid' = [wpid EXCEPT ![w] = NoPid]
Replies(w) == Ends(w, "idle")

\* unwrap() of what is not there, with the mutex held: no reply, the
\* thread is gone.
Panics(w) == Ends(w, "dead") /\ poisoned' = TRUE

\* lock().unwrap() of the poisoned mutex, by any request that asks for it.
LockPanics(w) ==
    /\ wpc[w] \in {"idle", "waited", "joined"}
    /\ poisoned
    /\ Ends(w, "dead")
    /\ UNCHANGED <<lock, poisoned, sandboxVars, kernelVars, reaperVars,
                   helper>>

Procs(c) == {p \in table : who[p].cid = c}

\* create_sandbox: the directories of all containers are removed, their
\* fifos with them; the containers stay.
CreateSandbox(w) ==
    /\ Idle(w, "CreateSandbox")
    /\ Unlocked
    /\ fifo' = {}
    /\ Replies(w)
    /\ UNCHANGED <<lock, poisoned, status, initPid, sender, table,
                   exitCode, kernelVars, reaperVars, helper>>

-----------------------------------------------------------------------------
(* do_create_container and do_exec_process; both end in start().           *)

\* start() refuses an init process whose exec fifo exists.
CreateRefused(w, c) ==
    /\ Idle(w, "CreateContainer")
    /\ Unlocked
    /\ c \in fifo
    /\ Replies(w)
    /\ UNCHANGED <<lock, poisoned, sandboxVars, kernelVars, reaperVars,
                   helper>>

\* The request fails before the fork: the bundle, the spec or a namespace
\* is not in order.  An exec fifo that has been made stays.
CreateFails(w, c) ==
    /\ Idle(w, "CreateContainer")
    /\ Unlocked
    /\ ~Orderly
    /\ c \notin fifo
    /\ fifo' = fifo \cup {c}
    /\ Replies(w)
    /\ UNCHANGED <<lock, poisoned, status, initPid, sender, table, exitCode,
                   kernelVars, reaperVars, helper>>

\* A spec without a process, or whose root file system has no parent
\* directory: setup_bundle unwraps what is not there, before start().
CreatePanics(w) ==
    /\ Idle(w, "CreateIncomplete")
    /\ Unlocked
    /\ Panics(w)
    /\ UNCHANGED <<lock, sandboxVars, kernelVars, reaperVars, helper>>

\* Mutation: no test for the exec fifo.
CreateForksAnyway(w, c, q) ==
    /\ Idle(w, "CreateContainer")
    /\ Unlocked
    /\ fifo' = fifo \cup {c}
    /\ Fork(q, c, InitEid, "init")
    /\ lock' = w
    /\ wpc' = [wpc EXCEPT ![w] = "spawn"]
    /\ wcid' = [wcid EXCEPT ![w] = c]
    /\ wpid' = [wpid EXCEPT ![w] = q]
    /\ UNCHANGED <<poisoned, status, initPid, sender, table, exitCode,
                   died, pending, sigchld, reaperVars, helper>>

\* The fifo is made and the init process forked, with the mutex held from
\* here to the end of the request.
CreateForks(w, c, q) ==
    /\ Idle(w, "CreateContainer")
    /\ Unlocked
    /\ c \notin fifo
    /\ fifo' = fifo \cup {c}
    /\ Fork(q, c, InitEid, "init")
    /\ lock' = w
    /\ wpc' = [wpc EXCEPT ![w] = "spawn"]
    /\ wcid' = [wcid EXCEPT ![w] = c]
    /\ wpid' = [wpid EXCEPT ![w] = q]
    /\ UNCHANGED <<poisoned, status, initPid, sender, table, exitCode,
                   died, pending, sigchld, reaperVars, helper>>

\* The namespaces of the container are those of its init process; the
\* links to them are gone when it is.
InitAlive(c) == initPid[c] \in Pids /\ run[initPid[c]] \in Live

ExecRefused(w, c) ==
    /\ Idle(w, "ExecProcess")
    /\ Unlocked
    /\ status[c] = "absent" \/ ~InitAlive(c)
    /\ Replies(w)
    /\ UNCHANGED <<lock, poisoned, sandboxVars, kernelVars, reaperVars,
                   helper>>

\* An exec id that is in use already is not refused.
ExecForks(w, c, e, q) ==
    /\ Idle(w, "ExecProcess")
    /\ Unlocked
    /\ status[c] # "absent" /\ InitAlive(c)
    /\ Fork(q, c, e, "exec")
    /\ lock' = w
    /\ wpc' = [wpc EXCEPT ![w] = "spawn"]
    /\ wcid' = [wcid EXCEPT ![w] = c]
    /\ wpid' = [wpid EXCEPT ![w] = q]
    /\ UNCHANGED <<poisoned, sandboxVars, died, pending, sigchld,
                   reaperVars, helper>>

\* Mutation: the mutex is released after the fork and before the insertion.
SpawnUnlocks(w) ==
    /\ wpc[w] = "spawn"
    /\ lock = w
    /\ lock' = Free
    /\ wpc' = [wpc EXCEPT ![w] = "unlockedspawn"]
    /\ UNCHANGED <<poisoned, sandboxVars, kernelVars, reaperVars,
                   requestVars>>

SpawnInsertsLate(w) ==
    /\ wpc[w] = "unlockedspawn"
    /\ Unlocked
    /\ LET p == wpid[w] IN LET c == wcid[w] IN
       /\ table' = table \cup {p}
       /\ writers' = [writers EXCEPT ![p] = @ \cup {Agent}]
       /\ status' = [status EXCEPT ![c] = "created"]
       /\ initPid' = IF who[p].role = "init"
                     THEN [initPid EXCEPT ![c] = p] ELSE initPid
    /\ Replies(w)
    /\ UNCHANGED <<lock, poisoned, fifo, sender, exitCode, who, run, died,
                   pending, sigchld, reaperVars, helper>>

SpawnNotAtomic(w) == SpawnUnlocks(w) \/ SpawnInsertsLate(w)

\* start() returns to the parent: the exit pipe is made and the process
\* put in the table of its container, which is "created" again even when
\* this is an exec; a new container replaces one with the same id, whose
\* table is dropped.
SpawnSucceeds(w) ==
    /\ wpc[w] = "spawn"
    /\ LET p == wpid[w] IN LET c == wcid[w] IN
       /\ table' = {p} \cup (IF who[p].role = "init" THEN table \ Procs(c)
                                                     ELSE table)
       /\ writers' = [writers EXCEPT ![p] = @ \cup {Agent}]
       /\ status' = [status EXCEPT ![c] = "created"]
       /\ initPid' = IF who[p].role = "init"
                     THEN [initPid EXCEPT ![c] = p] ELSE initPid
    /\ lock' = Free
    /\ Replies(w)
    /\ UNCHANGED <<poisoned, fifo, sender, exitCode, who, run, died,
                   pending, sigchld, reaperVars, helper>>

\* The parent's part of the set-up fails (cgroup, id mapping, hook): the
\* error is returned, the fifo stays, and the child waits for ever for the
\* parent's next message.
SpawnFails(w) ==
    /\ wpc[w] = "spawn"
    /\ ~Orderly
    /\ run[wpid[w]] = "setup"
    /\ run' = [run EXCEPT ![wpid[w]] = "stuck"]
    /\ lock' = Free
    /\ Replies(w)
    /\ UNCHANGED <<poisoned, sandboxVars, who, died, pending, writers,
                   sigchld, reaperVars, helper>>

-----------------------------------------------------------------------------
(* do_start_container.                                                     *)

StartRefused(w, c) ==
    /\ Idle(w, "StartContainer")
    /\ Unlocked
    /\ \/ status[c] = "absent"
       \/ c \notin fifo          \* open() fails
    /\ Replies(w)
    /\ UNCHANGED <<lock, poisoned, sandboxVars, kernelVars, reaperVars,
                   helper>>

\* exec() opens the fifo for writing, which blocks until the init process
\* has it open for reading.  The mutex is held meanwhile.
StartOpens(w, c) ==
    /\ Idle(w, "StartContainer")
    /\ Unlocked
    /\ status[c] # "absent" /\ c \in fifo
    /\ Orderly => /\ run[initPid[c]] \in {"setup", "fifo"}
                  /\ pending[initPid[c]] = 0
    /\ lock' = w
    /\ wpc' = [wpc EXCEPT ![w] = "opening"]
    /\ wcid' = [wcid EXCEPT ![w] = c]
    /\ UNCHANGED <<poisoned, sandboxVars, kernelVars, reaperVars, wpid,
                   helper>>

StartWrites(w) ==
    /\ wpc[w] = "opening"
    /\ LET c == wcid[w] IN
       /\ run[initPid[c]] = "fifo"
       /\ run' = [run EXCEPT ![initPid[c]] = "go"]
       /\ status' = [status EXCEPT ![c] = "running"]
    /\ lock' = Free
    /\ Replies(w)
    /\ UNCHANGED <<poisoned, initPid, fifo, sender, table, exitCode, who,
                   died, pending, writers, sigchld, reaperVars, helper>>

-----------------------------------------------------------------------------
(* do_signal_process.                                                      *)

\* The processes an exec id may stand for, in the order of a HashMap; the
\* empty exec id stands for the init process.
Named(c, e) ==
    {p \in Procs(c) : who[p].role \in {"init", "exec"} /\ who[p].eid = e}
InitOf(c) == {p \in Procs(c) : p = initPid[c]}

\* A SIGTERM for which the init process has no handler becomes SIGKILL; a
\* handled signal, or one of a process that is a zombie, has no effect here.
Effect(p, sig, handled) ==
    LET s == IF p = initPid[who[p].cid] /\ sig = SIGTERM /\ ~handled
             THEN SIGKILL ELSE sig
    IN  IF run[p] \in Live /\ pending[p] # SIGKILL
           /\ (s = SIGKILL \/ ~handled)
        THEN [pending EXCEPT ![p] = s] ELSE pending

SignalFinds(w, targets) ==
    /\ Unlocked
    /\ \/ /\ targets = {} \/ \E p \in targets : run[p] = "gone"    \* ESRCH
          /\ Replies(w)
          /\ UNCHANGED pending
       \/ /\ \E p \in targets, sig \in {SIGTERM, SIGKILL}, h \in BOOLEAN :
                 run[p] # "gone" /\ pending' = Effect(p, sig, h)
          /\ Replies(w)
    /\ UNCHANGED <<lock, poisoned, sandboxVars, who, run, died, writers,
                   sigchld, reaperVars, helper>>

SignalProcess(w, c, e) ==
    Idle(w, "SignalProcess") /\ SignalFinds(w, Named(c, e))

\* SignalProcess with exec_id "".
SignalAll(w, c) == Idle(w, "SignalAll") /\ SignalFinds(w, InitOf(c))

\* Either of them with 0, a real-time signal or another number nix has no
\* Signal for: from_c_int(..).unwrap() panics once the process is found.
SignalPanics(w, targets) ==
    /\ Idle(w, "SignalUnknown")
    /\ Unlocked
    /\ targets # {}
    /\ Panics(w)
    /\ UNCHANGED <<lock, sandboxVars, kernelVars, reaperVars, helper>>

-----------------------------------------------------------------------------
(* do_wait_process.                                                        *)

WaitRefused(w, c, e) ==
    /\ Idle(w, "WaitProcess")
    /\ Unlocked
    /\ Named(c, e) = {}
    /\ Replies(w)
    /\ UNCHANGED <<lock, poisoned, sandboxVars, kernelVars, reaperVars,
                   helper>>

\* First critical section: the pid and the exit pipe are looked up.
WaitFinds(w, c, p) ==
    /\ Idle(w, "WaitProcess")
    /\ Unlocked
    /\ \E e \in Eids \cup {InitEid} : p \in Named(c, e)
    /\ Orderly => \A v \in Workers :
                      wpc[v] \in {"reading", "waited"} => wpid[v] # p
    /\ wpc' = [wpc EXCEPT ![w] = "reading"]
    /\ wcid' = [wcid EXCEPT ![w] = c]
    /\ wpid' = [wpid EXCEPT ![w] = p]
    /\ UNCHANGED <<lock, poisoned, sandboxVars, kernelVars, reaperVars,
                   helper>>

\* Mutation: the exit pipe is not read.
WaitSkipsRead(w) ==
    /\ wpc[w] = "reading"
    /\ wpc' = [wpc EXCEPT ![w] = "waited"]
    /\ UNCHANGED <<lock, poisoned, sandboxVars, kernelVars, reaperVars,
                   requestVars>>

\* read() returns at the end of file, when no write end is open.  (When
\* another waiter has closed the descriptor no write end is open either.)
WaitReads(w) ==
    /\ wpc[w] = "reading"
    /\ writers[wpid[w]] = {}
    /\ wpc' = [wpc EXCEPT ![w] = "waited"]
    /\ UNCHANGED <<lock, poisoned, sandboxVars, kernelVars, reaperVars,
                   requestVars>>

\* resp.status.
Response(w) == exitCode[wpid[w]]

\* Second critical section: the exit code is returned, the process leaves
\* the table; unwrap() panics when it has left it since.
WaitReturns(w) ==
    /\ wpc[w] = "waited"
    /\ Unlocked
    /\ \/ /\ wpid[w] \in table
          /\ Replies(w)
          /\ table' = table \ {wpid[w]}
          /\ UNCHANGED poisoned
       \/ /\ wpid[w] \notin table
          /\ Panics(w)
          /\ UNCHANGED table
    /\ UNCHANGED <<lock, status, initPid, fifo, sender, exitCode,
                   kernelVars, reaperVars, helper>>

-----------------------------------------------------------------------------
(* list_processes.                                                         *)

ListPanics(w, c) ==
    /\ Idle(w, "ListProcesses")
    /\ Unlocked
    /\ status[c] = "absent"
    /\ Panics(w)
    /\ UNCHANGED <<lock, sandboxVars, kernelVars, reaperVars, helper>>

\* Format "table": ps is run with the mutex held.  (Format "json" changes
\* nothing.)
ListForks(w, c, q) ==
    /\ Idle(w, "ListProcesses")
    /\ Unlocked
    /\ status[c] # "absent"
    /\ Fork(q, c, InitEid, "ps")
    /\ lock' = w
    /\ wpc' = [wpc EXCEPT ![w] = "ps"]
    /\ wcid' = [wcid EXCEPT ![w] = c]
    /\ wpid' = [wpid EXCEPT ![w] = q]
    /\ UNCHANGED <<poisoned, sandboxVars, died, pending, sigchld,
                   reaperVars, helper>>

\* output() waits for ps, and collects it before the reaper does.
ListCollects(w) ==
    /\ wpc[w] = "ps"
    /\ run[wpid[w]] = "zombie"
    /\ run' = [run EXCEPT ![wpid[w]] = "gone"]
    /\ lock' = Free
    /\ Replies(w)
    /\ UNCHANGED <<poisoned, sandboxVars, who, died, pending, writers,
                   sigchld, reaperVars, helper>>

\* The reaper was first: wait() fails with ECHILD and expect() panics.
ListLosesRace(w) ==
    /\ wpc[w] = "ps"
    /\ run[wpid[w]] = "gone"
    /\ lock' = Free
    /\ Panics(w)
    /\ UNCHANGED <<sandboxVars, kernelVars, reaperVars, helper>>

-----------------------------------------------------------------------------
(* do_remove_container and destroy_sandbox.                                *)

\* LinuxContainer::destroy kills every process of the table.
KillSent(ps) == [p \in Pids |-> IF p \in ps /\ run[p] \in Live
                                THEN SIGKILL ELSE pending[p]]

\* destroy() fails before it kills when the root file system is gone.
\* kill() of a process that has been collected and not been waited for
\* fails, after some of the others have been killed; a poststop hook fails
\* after all of them have.
CannotKill(c) == \E p \in Procs(c) : run[p] = "gone"
FailsAfterKilling(c, ps) ==
    \/ CannotKill(c) /\ ps \subseteq {p \in Procs(c) : run[p] # "gone"}
    \/ ~Orderly /\ ps = {}
    \/ ~Orderly /\ ~CannotKill(c) /\ ps = Procs(c)
DestroyFails(c) ==
    \E ps \in SUBSET Procs(c) :
        FailsAfterKilling(c, ps) /\ pending' = KillSent(ps)

\* Mutation: only the init process is killed.
DestroyKillsInit(c) ==
    /\ ~CannotKill(c)
    /\ pending' = KillSent(InitOf(c))

DestroySucceeds(c) ==
    /\ ~CannotKill(c)
    /\ pending' = KillSent(Procs(c))

RemovePanics(w, c) ==
    /\ Idle(w, "RemoveContainer")
    /\ Unlocked
    /\ status[c] = "absent"
    /\ Panics(w)
    /\ UNCHANGED <<lock, sandboxVars, kernelVars, reaperVars, helper>>

RemoveFails(w, c) ==
    /\ Idle(w, "RemoveContainer")
    /\ Unlocked
    /\ status[c] # "absent"
    /\ DestroyFails(c)
    /\ Replies(w)
    /\ UNCHANGED <<lock, poisoned, sandboxVars, who, run, died, writers,
                   sigchld, reaperVars, helper>>

\* The processes are killed, then an unmount fails: the container stays.
RemoveUnmountFails(w, c) ==
    /\ Idle(w, "RemoveContainer")
    /\ Unlocked
    /\ status[c] # "absent"
    /\ DestroySucceeds(c)
    /\ status' = [status EXCEPT ![c] = "stopped"]
    /\ Replies(w)
    /\ UNCHANGED <<lock, poisoned, initPid, fifo, sender, table, exitCode,
                   who, run, died, writers, sigchld, reaperVars, helper>>

\* The container leaves the sandbox with its process table.  Its directory
\* and fifo stay, the exit pipes stay open, and nobody waits for the
\* processes.
RemoveSucceeds(w, c) ==
    /\ Idle(w, "RemoveContainer")
    /\ Unlocked
    /\ status[c] # "absent"
    /\ DestroySucceeds(c)
    /\ status' = [status EXCEPT ![c] = "absent"]
    /\ initPid' = [initPid EXCEPT ![c] = NoPid]
    /\ table' = table \ Procs(c)
    /\ Replies(w)
    /\ UNCHANGED <<lock, poisoned, fifo, sender, exitCode, who, run, died,
                   writers, sigchld, reaperVars, helper>>

\* With a timeout, a thread of its own destroys ...
RemoveSpawns(w, c) ==
    /\ Idle(w, "RemoveWithTimeout")
    /\ helper[w] = NoCid
    /\ Orderly => status[c] # "absent"
    /\ helper' = [helper EXCEPT ![w] = c]
    /\ wpc' = [wpc EXCEPT ![w] = "joining"]
    /\ wcid' = [wcid EXCEPT ![w] = c]
    /\ UNCHANGED <<lock, poisoned, sandboxVars, kernelVars, reaperVars,
                   wpid>>

\* ... and sends to the request, if that still receives; otherwise the
\* unwrap() of send() panics with the mutex held.
HelperDestroys(w) ==
    /\ helper[w] # NoCid
    /\ Unlocked
    /\ status[helper[w]] # "absent"
    /\ DestroySucceeds(helper[w])
    /\ status' = [status EXCEPT ![helper[w]] = "stopped"]
    /\ \/ /\ wpc[w] = "joining"
          /\ wpc' = [wpc EXCEPT ![w] = "joined"]
          /\ UNCHANGED poisoned
       \/ /\ wpc[w] # "joining"
          /\ poisoned' = TRUE
          /\ UNCHANGED wpc
    /\ helper' = [helper EXCEPT ![w] = NoCid]
    /\ UNCHANGED <<lock, initPid, fifo, sender, table, exitCode, who, run,
                   died, writers, sigchld, reaperVars, wcid, wpid>>

\* So does every failure before that.
HelperPanics(w) ==
    /\ helper[w] # NoCid
    /\ lock = Free
    /\ \/ poisoned /\ UNCHANGED pending
       \/ ~poisoned /\ status[helper[w]] = "absent" /\ UNCHANGED pending
       \/ ~poisoned /\ status[helper[w]] # "absent" /\ DestroyFails(helper[w])
    /\ poisoned' = TRUE
    /\ helper' = [helper EXCEPT ![w] = NoCid]
    /\ UNCHANGED <<lock, sandboxVars, who, run, died, writers, sigchld,
                   reaperVars, wpc, wcid, wpid>>

\* recv_timeout: the time is up or the sender is gone, ETIME; the thread,
\* if it lives, goes on and destroys later.
RemoveTimesOut(w) ==
    /\ wpc[w] = "joining"
    /\ Replies(w)
    /\ UNCHANGED <<lock, poisoned, sandboxVars, kernelVars, reaperVars,
                   helper>>

\* The second critical section removes what is there by then, or fails to
\* unmount.
RemoveAfterJoin(w) ==
    /\ wpc[w] = "joined"
    /\ Unlocked
    /\ \/ /\ status' = [status EXCEPT ![wcid[w]] = "absent"]
          /\ initPid' = [initPid EXCEPT ![wcid[w]] = NoPid]
          /\ table' = table \ Procs(wcid[w])
          /\ Replies(w)
       \/ Replies(w) /\ UNCHANGED <<status, initPid, table>>
    /\ UNCHANGED <<lock, poisoned, fifo, sender, exitCode, kernelVars,
                   reaperVars, helper>>

ProcsOf(cs) == UNION {Procs(c) : c \in cs}
Present == {c \in Cids : status[c] # "absent"}
Stopped(cs) == [c \in Cids |-> IF c \in cs THEN "stopped" ELSE status[c]]

\* destroy_sandbox destroys one container after the other; an error of
\* destroy() or a second call panics.
DestroySandbox(w) ==
    /\ Idle(w, "DestroySandbox")
    /\ Unlocked
    /\ \/ /\ \E done \in SUBSET Present : \E c \in Present \ done :
                 /\ \A d \in done : ~CannotKill(d)
                 /\ \E ps \in SUBSET Procs(c) :
                       /\ FailsAfterKilling(c, ps)
                       /\ pending' = KillSent(ps \cup ProcsOf(done))
                 /\ status' = Stopped(done)
          /\ Panics(w)
          /\ UNCHANGED sender
       \/ /\ \A c \in Present : ~CannotKill(c)
          /\ pending' = KillSent(ProcsOf(Present))
          /\ status' = Stopped(Present)
          /\ \/ sender /\ sender' = FALSE /\ Replies(w) /\ UNCHANGED poisoned
             \/ ~sender /\ Panics(w) /\ UNCHANGED sender
    /\ UNCHANGED <<lock, initPid, fifo, table, exitCode, who, run, died,
                   writers, sigchld, reaperVars, helper>>

-----------------------------------------------------------------------------
Kernel ==
    \E p \in Pids :
        ChildAtFifo(p) \/ ChildExec(p) \/ \E code \in Codes : ChildDies(p, code)

Reaper ==
    \/ ReaperWakes \/ ReaperSleeps \/ ReaperRecords \/ ReaperPanics
    \/ \E p \in Pids : ReaperCollects(p)

\* What a worker does next in a request it has begun.
Continues(w) ==
    \/ SpawnSucceeds(w) \/ SpawnFails(w) \/ StartWrites(w)
    \/ WaitReads(w) \/ WaitReturns(w) \/ ListCollects(w) \/ ListLosesRace(w)
    \/ RemoveTimesOut(w) \/ RemoveAfterJoin(w)
    \/ LockPanics(w)

Begins(w) ==
    \/ CreateSandbox(w) \/ DestroySandbox(w) \/ CreatePanics(w)
    \/ \E c \in Cids :
          \/ CreateRefused(w, c) \/ CreateFails(w, c) \/ ExecRefused(w, c)
          \/ StartRefused(w, c) \/ StartOpens(w, c)
          \/ SignalAll(w, c) \/ SignalPanics(w, InitOf(c))
          \/ ListPanics(w, c)
          \/ RemovePanics(w, c) \/ RemoveFails(w, c)
          \/ RemoveUnmountFails(w, c) \/ RemoveSucceeds(w, c)
          \/ RemoveSpawns(w, c)
          \/ \E e \in Eids \cup {InitEid} :
                \/ SignalProcess(w, c, e) \/ SignalPanics(w, Named(c, e))
                \/ WaitRefused(w, c, e)
          \/ \E p \in Pids :
                \/ CreateForks(w, c, p) \/ ListForks(w, c, p)
                \/ WaitFinds(w, c, p)
                \/ \E e \in Eids : ExecForks(w, c, e, p)

Next ==
    \/ Kernel
    \/ Reaper
    \/ \E w \in Workers :
          Begins(w) \/ Continues(w) \/ HelperDestroys(w) \/ HelperPanics(w)

Spec == Init /\ [][Next]_vars

(***************************************************************************)
(* Threads and children keep running, a child that was sent a fatal signal *)
(* dies, and a thread that finds the mutex free again and again gets it.   *)
(* Nothing is assumed of the requests that come, nor of programs: they may *)
(* run for ever.                                                           *)
(***************************************************************************)
Fairness ==
    /\ WF_vars(ReaperWakes) /\ WF_vars(ReaperSleeps)
    /\ WF_vars(\E p \in Pids : ReaperCollects(p))
    /\ SF_vars(ReaperRecords)
    /\ \A p \in Pids :
          /\ WF_vars(ChildAtFifo(p)) /\ WF_vars(ChildExec(p))
          /\ WF_vars(pending[p] # 0 /\ ChildDies(p, pending[p]))
    /\ \A w \in Workers :
          /\ WF_vars(SpawnSucceeds(w)) /\ WF_vars(StartWrites(w))
          /\ WF_vars(WaitReads(w)) /\ SF_vars(WaitReturns(w))

FairSpec == Spec /\ Fairness

-----------------------------------------------------------------------------
(* Properties.                                                             *)

WorkerPcs == {"idle", "spawn", "opening", "reading", "waited", "ps",
              "joining", "joined", "dead"}

\* Every variable has its type (the state of Sandbox, LinuxContainer,
\* Process and of the threads of the agent).
TypeOK ==
    /\ lock \in Workers \cup {Free}
    /\ poisoned \in BOOLEAN
    /\ status \in [Cids -> {"absent", "created", "running", "stopped"}]
    /\ initPid \in [Cids -> Pids \cup {NoPid}]
    /\ fifo \subseteq Cids
    /\ sender \in BOOLEAN
    /\ table \subseteq Pids
    /\ who \in [Pids -> [cid : Cids \cup {NoCid}, eid : Eids \cup {InitEid},
                         role : Roles]]
    /\ exitCode \in [Pids -> Codes]
    /\ run \in [Pids -> Live \cup {"none", "zombie", "gone"}]
    /\ died \in [Pids -> Codes]
    /\ pending \in [Pids -> {0, SIGKILL, SIGTERM}]
    /\ writers \in [Pids -> SUBSET (Pids \cup {Agent})]
    /\ sigchld \in BOOLEAN
    /\ rpc \in {"idle", "loop", "record", "dead"}
    /\ rpid \in Pids \cup {NoPid}
    /\ wpc \in [Workers -> WorkerPcs]
    /\ wcid \in [Workers -> Cids \cup {NoCid}]
    /\ wpid \in [Workers -> Pids \cup {NoPid}]
    /\ helper \in [Workers -> Cids \cup {NoCid}]

(***************************************************************************)
(* No exit is lost: a process that is still in a table and has been        *)
(* collected, and that the reaper is done with, has its exit code stored   *)
(* and the agent's end of its exit pipe closed.  A process may exit before *)
(* start() has put it in the table; that the table, the exit pipe and the  *)
(* container are set up under the mutex the reaper needs is what saves it. *)
(***************************************************************************)
ExitRecorded ==
    \A p \in table : run[p] = "gone" /\ rpid # p =>
        exitCode[p] = died[p] /\ Agent \notin writers[p]

(***************************************************************************)
(* WaitProcess is not woken early, and answers with what the process       *)
(* really exited with, whatever other requests, forks and removals have    *)
(* done to the exit pipe and the table between its two critical sections.  *)
(***************************************************************************)
WaitExact ==
    [][\A w \in Workers : wpc[w] = "waited" /\ wpc'[w] = "idle" =>
          /\ run[wpid[w]] = "gone"
          /\ Response(w) = died[wpid[w]]]_vars

\* Processes that were put in a table, no longer are, and still run.
Survivors ==
    {p \in Pids \ table :
        /\ run[p] \in Live \ {"stuck"}
        /\ who[p].role \in {"init", "exec"}
        /\ \A w \in Workers : wpc[w] = "spawn" => wpid[w] # p}

(***************************************************************************)
(* RemoveContainer works "by forcibly terminating all processes running    *)
(* inside that container" (agent.proto): a process the agent has forgotten *)
(* has at least been sent SIGKILL.                                         *)
(***************************************************************************)
NoSurvivor == \A p \in Survivors : pending[p] = SIGKILL

(***************************************************************************)
(* A container is never replaced by another with the same id, which would  *)
(* drop its process table: the exec fifo in its directory is the only      *)
(* thing that makes start() refuse a second CreateContainer.               *)
(***************************************************************************)
NeverReplaced ==
    [][\A c \in Cids : status[c] # "absent" /\ status'[c] # "absent"
                           => initPid'[c] = initPid[c]]_vars

(***************************************************************************)
(* A WaitProcess whose process has been collected returns: the pipe made   *)
(* "for notify process exited" (container.rs) notifies.                    *)
(***************************************************************************)
WaiterWoken ==
    \A w \in Workers :
        (wpc[w] = "reading" /\ run[wpid[w]] = "gone") ~> wpc[w] # "reading"

\* Every child that exits is collected, though SIGCHLDs coalesce (main.rs).
ZombiesCollected == \A p \in Pids : run[p] = "zombie" ~> run[p] = "gone"

\* No request keeps the sandbox mutex for ever, though StartContainer and
\* the spawning of processes block with the mutex held.
MutexReleased == \A w \in Workers : lock = w ~> lock = Free

(***************************************************************************)
(* A WaitProcess that its exit pipe has let go on finds its process in the *)
(* table again, though the reaper and other requests had the mutex during  *)
(* the read: get_process(..).unwrap() in its second critical section does  *)
(* not panic.  This takes a runtime that waits for a process once and      *)
(* removes no container meanwhile.  (Other unwraps do panic: see           *)
(* SignalPanics, CreatePanics, ListPanics, ListLosesRace, RemovePanics,    *)
(* HelperPanics and DestroySandbox.)                                       *)
(***************************************************************************)
WaitFindsAgain ==
    \A w \in Workers : wpc[w] = "waited" => wpid[w] \in table
=============================================================================
