------------------------------ MODULE StreamIO ------------------------------
(***************************************************************************)
(* Input and output of the processes of a container: WriteStdin,           *)
(* ReadStdout, ReadStderr, CloseStdin, TtyWinResize, and what start(),     *)
(* WaitProcess and RemoveContainer do to the descriptors (src/src/grpc.rs).*)
(*                                                                         *)
(* The agent keeps numbers of descriptors in the Process of a process; the *)
(* kernel hands out the lowest free number and closes by number.  A read   *)
(* takes its number under the sandbox mutex and uses it after, a write     *)
(* holds the mutex while it blocks on a full pipe.  A pipe holds PipeSize  *)
(* bytes.  A process with a terminal reads and writes the terminal, whose  *)
(* master is one descriptor of the agent; its pipes are made all the same. *)
(*                                                                         *)
(* The numbers are plain integers, so dropping a Process closes nothing:   *)
(* what a failed start has made, and what a process that is removed before *)
(* it is waited for had, stays open.  The processes that a process leaves  *)
(* behind hold its pipes; its terminal is hung up when it exits, as start  *)
(* makes it the leader of its session.                                     *)
(*                                                                         *)
(* The runtime reads a stream with one request at a time, waits for a      *)
(* process when it has seen the end of both streams, and closes the stdin  *)
(* of a terminal when it is not reading.  Nothing else is assumed of it.   *)
(* All processes are of one container.  The child's ends of the pipes, the *)
(* sockets that pass a terminal and the exit pipe (AgentProcesses) are     *)
(* left out.                                                               *)
(***************************************************************************)
EXTENDS Naturals, FiniteSets, Sequences, SequencesExt

CONSTANTS
    Procs,       \* processes, named by their exec ids
    Terminals,   \* those with a terminal
    Workers,     \* number of threads of the gRPC server
    MaxFd,       \* descriptors are 1..MaxFd
    PipeSize,    \* bytes a pipe or a terminal holds in each direction
    MaxIn,       \* process -> bound on the bytes sent to it
    MaxOut,      \* bound on the bytes that the processes have written
    NoProc

ASSUME BoundsAssumption ==
    /\ PipeSize \in Nat \ {0} /\ Workers \in Nat \ {0}
    /\ MaxIn \in [Procs -> Nat] /\ MaxOut \in Nat
    /\ IsFiniteSet(Procs)
    /\ MaxFd \in Nat /\ MaxFd >= 4 * Cardinality(Procs)
ASSUME ProcsAssumption == Terminals \subseteq Procs /\ NoProc \notin Procs

Streams == {"stdout", "stderr"}
Ends == {"stdin", "stdout", "stderr", "term"}   \* of a process, held by the agent
Fds == 1..MaxFd
Threads == 1..Workers
None == 0
Free == 0
Closed == <<NoProc, "closed">>

VARIABLES
    lock,        \* the sandbox mutex: Free or the worker that holds it
    poisoned,    \* a thread has panicked with it
    life,        \* process -> "none", "run", "exited", "gone" when it has
                 \* been waited for, or "lost": it was never in the table, or
                 \* left it without a wait
    heirs,       \* process -> has it left others behind that hold its pipes?
    fields,      \* process -> parent_stdin, parent_stdout, parent_stderr and
                 \* term_master of its Process, None if not set
    open,        \* kernel: descriptor -> whose end it is, Closed if free
    input,       \* kernel: process -> what is in its stdin
    output,      \* kernel: process, stream -> what is in the pipe
    written,     \* process, stream -> how much it has written so far
    consumed,    \* process -> what it has read from its stdin
    sent,        \* process -> what the runtime was told had been written
    got,         \* process, stream -> what the runtime has received
    eof,         \* process -> streams of which the runtime has seen the end
    wpc,         \* worker -> control
    job          \* worker -> its request: process, stream, descriptor or end
                 \* of a pipe, bytes still to write and written

vars == <<lock, poisoned, life, heirs, fields, open, input, output, written,
          consumed, sent, got, eof, wpc, job>>

runtimeVars == <<sent, got, eof>>
processVars == <<life, heirs, written, consumed>>
fdVars == <<fields, open>>
workerVars == <<wpc, job>>
mutexVars == <<lock, poisoned>>

NoJob == [proc |-> NoProc, stream |-> "stdout", fd |-> None, end |-> Closed,
          left |-> <<>>, done |-> <<>>]
NoFields == [e \in Ends |-> None]
NoBytes == [s \in Streams |-> 0]
NoOutput == [s \in Streams |-> <<>>]

Init ==
    /\ lock = Free /\ poisoned = FALSE
    /\ life = [p \in Procs |-> "none"]
    /\ heirs = [p \in Procs |-> FALSE]
    /\ fields = [p \in Procs |-> NoFields]
    /\ open = [f \in Fds |-> Closed]
    /\ input = [p \in Procs |-> <<>>]
    /\ output = [p \in Procs |-> NoOutput]
    /\ written = [p \in Procs |-> NoBytes]
    /\ consumed = [p \in Procs |-> <<>>]
    /\ sent = [p \in Procs |-> <<>>]
    /\ got = [p \in Procs |-> NoOutput]
    /\ eof = [p \in Procs |-> {}]
    /\ wpc = [w \in Threads |-> "idle"]
    /\ job = [w \in Threads |-> NoJob]

Unlocked == lock = Free /\ ~poisoned
Known(p) == life[p] \in {"run", "exited"}
\* A request goes to the first idle thread: which one makes no difference.
Idle(w) == wpc[w] = "idle" /\ \A v \in 1..(w - 1) : wpc[v] # "idle"
Byte(p, s, n) == <<p, s, n>>
\* Someone has the child's ends of its pipes, or its terminal, open.
Held(p) == life[p] = "run" \/ heirs[p]

-----------------------------------------------------------------------------
(* The kernel's descriptors.                                               *)

FreeFds == {f \in Fds : open[f] = Closed}
Lowest(n) == CHOOSE s \in [1..n -> FreeFds] :
    /\ \A i, j \in 1..n : i < j => s[i] < s[j]
    /\ \A f \in FreeFds : f < s[n] => \E i \in 1..n : s[i] = f

\* Opens the ends of p, in the order in which start() makes them.
Opens(p, ends) ==
    LET fd == Lowest(Len(ends))
    IN  open' = [f \in Fds |-> IF \E i \in DOMAIN ends : fd[i] = f
                               THEN <<p, ends[CHOOSE i \in DOMAIN ends : fd[i] = f]>>
                               ELSE open[f]]

Opened(p, ends) ==
    LET fd == Lowest(Len(ends))
    IN  /\ Opens(p, ends)
        /\ fields' = [fields EXCEPT ![p] = [e \in Ends |->
               IF \E i \in DOMAIN ends : ends[i] = e
               THEN fd[CHOOSE i \in DOMAIN ends : ends[i] = e] ELSE None]]

\* close(2) of the numbers; what they stand for does not matter.
CloseFds(fds) == open' = [f \in Fds |-> IF f \in fds THEN Closed ELSE open[f]]
HeldBy(p, ends) == {fields[p][e] : e \in ends} \ {None}

-----------------------------------------------------------------------------
(* The processes.                                                          *)

\* Process::new makes three pipes, a terminal's master follows in start().
EndsOf(p) == IF p \in Terminals THEN <<"stdin", "stdout", "stderr", "term">>
             ELSE <<"stdin", "stdout", "stderr">>

Start(p) ==
    /\ Unlocked
    /\ life[p] = "none"
    /\ life' = [life EXCEPT ![p] = "run"]
    /\ Opened(p, EndsOf(p))
    /\ UNCHANGED <<mutexVars, heirs, input, output, written, consumed, runtimeVars,
                   workerVars>>

\* An error on the way (a pipe, clone, the handshake, the terminal's socket):
\* the Process is dropped, and what has been made by then stays open.
StartFails(p) ==
    /\ Unlocked
    /\ life[p] = "none"
    /\ life' = [life EXCEPT ![p] = "lost"]
    /\ \E n \in DOMAIN EndsOf(p) : Opens(p, SubSeq(EndsOf(p), 1, n))
    /\ UNCHANGED <<mutexVars, heirs, fields, input, output, written, consumed,
                   runtimeVars, workerVars>>

TotalWritten ==
    MapThenSumSet(LAMBDA o : written[o[1]][o[2]], Procs \X Streams)

\* Both streams of a terminal come out of its master.
ProcessWrites(p, s) ==
    /\ Held(p)
    /\ p \in Terminals => s = "stdout"
    /\ TotalWritten < MaxOut
    /\ Len(output[p][s]) < PipeSize
    /\ \E f \in Fds : open[f] = <<p, IF p \in Terminals THEN "term" ELSE s>>
    /\ written' = [written EXCEPT ![p][s] = @ + 1]
    /\ output' = [output EXCEPT ![p][s] = Append(@, Byte(p, s, written[p][s] + 1))]
    /\ UNCHANGED <<mutexVars, life, heirs, consumed, fdVars, input, runtimeVars,
                   workerVars>>

ProcessReads(p) ==
    /\ Held(p)
    /\ input[p] # <<>>
    /\ consumed' = [consumed EXCEPT ![p] = Append(@, Head(input[p]))]
    /\ input' = [input EXCEPT ![p] = Tail(@)]
    /\ UNCHANGED <<mutexVars, life, heirs, written, fdVars, output, runtimeVars,
                   workerVars>>

\* The processes of Dying end.  Some leave others behind in the background,
\* which hold their pipes and end some time or never.
LeaveHeirs(Dying) ==
    \E H \in SUBSET (Dying \ Terminals) :
        heirs' = [p \in Procs |-> heirs[p] \/ p \in H]

ProcessExits(p) ==
    /\ life[p] = "run"
    /\ life' = [life EXCEPT ![p] = "exited"]
    /\ LeaveHeirs({p})
    /\ UNCHANGED <<mutexVars, written, consumed, fdVars, input, output,
                   runtimeVars, workerVars>>

HeirsExit(p) ==
    /\ heirs[p]
    /\ heirs' = [heirs EXCEPT ![p] = FALSE]
    /\ UNCHANGED <<mutexVars, life, written, consumed, fdVars, input, output,
                   runtimeVars, workerVars>>

-----------------------------------------------------------------------------
(* do_write_stream.                                                        *)

Replies(w) ==
    /\ wpc' = [wpc EXCEPT ![w] = "idle"]
    /\ job' = [job EXCEPT ![w] = NoJob]

\* Every later lock().unwrap() panics as well.
Panics == poisoned' = TRUE /\ UNCHANGED workerVars

StdinFd(p) == IF fields[p]["term"] # None THEN fields[p]["term"] ELSE fields[p]["stdin"]

\* parent_stdin.unwrap() after CloseStdin.
WritePanics(w, p) ==
    /\ Idle(w) /\ Unlocked
    /\ Known(p) /\ StdinFd(p) = None
    /\ Panics
    /\ UNCHANGED <<lock, processVars, fdVars, input, output, runtimeVars>>

\* The mutex stays locked until write(2) has returned.
WriteBegins(w, p, n) ==
    /\ Idle(w) /\ Unlocked
    /\ Known(p) /\ StdinFd(p) # None
    /\ Len(sent[p]) + n <= MaxIn[p]
    /\ lock' = w
    /\ wpc' = [wpc EXCEPT ![w] = "writing"]
    /\ job' = [job EXCEPT ![w] =
           [NoJob EXCEPT !.proc = p, !.fd = StdinFd(p),
                         !.left = [i \in 1..n |-> Byte(p, "stdin", Len(sent[p]) + i)]]]
    /\ UNCHANGED <<poisoned, processVars, fdVars, input, output, runtimeVars>>

\* The pipe takes a byte when there is room.
WriteProceeds(w) ==
    /\ wpc[w] = "writing"
    /\ LET p == open[job[w].fd][1] IN
       /\ job[w].left # <<>>
       /\ Held(p)
       /\ Len(input[p]) < PipeSize
       /\ input' = [input EXCEPT ![p] = Append(@, Head(job[w].left))]
       /\ job' = [job EXCEPT ![w].left = Tail(@),
                             ![w].done = Append(@, Head(job[w].left))]
    /\ UNCHANGED <<mutexVars, processVars, fdVars, output, runtimeVars, wpc>>

\* Mutation: the length in the answer is that of the request.
WriteClaimsAll(w) ==
    /\ wpc[w] = "writing"
    /\ job[w].left = <<>> \/ ~Held(open[job[w].fd][1])
    /\ sent' = [sent EXCEPT ![job[w].proc] = @ \o job[w].done \o job[w].left]
    /\ lock' = Free
    /\ Replies(w)
    /\ UNCHANGED <<poisoned, processVars, fdVars, input, output, got, eof>>

\* All of it, or what was taken before nobody held the other end any more:
\* the answer has the length.  Nothing taken is EPIPE, an error.
WriteReturns(w) ==
    /\ wpc[w] = "writing"
    /\ job[w].left = <<>> \/ ~Held(open[job[w].fd][1])
    /\ sent' = [sent EXCEPT ![job[w].proc] = @ \o job[w].done]
    /\ lock' = Free
    /\ Replies(w)
    /\ UNCHANGED <<poisoned, processVars, fdVars, input, output, got, eof>>

-----------------------------------------------------------------------------
(* do_read_stream.                                                         *)

\* Mutation: both requests read stdout.
StdoutOnlyFd(p, s) == IF fields[p]["term"] # None THEN fields[p]["term"]
                      ELSE fields[p]["stdout"]

StreamFd(p, s) == IF fields[p]["term"] # None THEN fields[p]["term"] ELSE fields[p][s]

\* The runtime has no read of the stream under way.
ReadsInTurn(p, s) ==
    \A w \in Threads : wpc[w] \in {"taken", "reading"} =>
        job[w].proc # p \/ job[w].stream # s
\* Of a terminal it reads stdout only.
Reads(p) == IF p \in Terminals THEN {"stdout"} ELSE Streams

\* Under the mutex: the number of the descriptor.
ReadTakesFd(w, p, s) ==
    /\ Idle(w) /\ Unlocked
    /\ Known(p)
    /\ s \in Reads(p) \ eof[p] /\ ReadsInTurn(p, s)
    /\ wpc' = [wpc EXCEPT ![w] = "taken"]
    /\ job' = [job EXCEPT ![w] =
           [NoJob EXCEPT !.proc = p, !.stream = s, !.fd = StreamFd(p, s)]]
    /\ UNCHANGED <<mutexVars, processVars, fdVars, input, output, runtimeVars>>

\* Without it: read(2) looks the number up ...
ReadEnters(w) ==
    /\ wpc[w] = "taken"
    /\ wpc' = [wpc EXCEPT ![w] = "reading"]
    /\ job' = [job EXCEPT ![w].end = open[job[w].fd], ![w].fd = None]
    /\ UNCHANGED <<mutexVars, processVars, fdVars, input, output, runtimeVars>>

\* ... and blocks until there is something, which is all returned.
ReadReturns(w) ==
    /\ wpc[w] = "reading"
    /\ LET p == job[w].end[1] IN
       LET s == IF job[w].end[2] = "term" THEN "stdout" ELSE job[w].end[2] IN
       /\ p \in Procs
       /\ job[w].end[2] = "term" \/ p \notin Terminals
       /\ output[p][s] # <<>>
       /\ got' = [got EXCEPT ![job[w].proc][job[w].stream] = @ \o output[p][s]]
       /\ output' = [output EXCEPT ![p][s] = <<>>]
    /\ Replies(w)
    /\ UNCHANGED <<mutexVars, processVars, fdVars, input, sent, eof>>

\* Mutation: the exit of the process does not end a read.
AtEndIfClosed(end) ==
    \/ end = Closed
    \/ end[2] # "term" /\ end[1] \in Terminals

\* The end of the file: nobody has the child's end any more, be it the process
\* or one it has left behind (a pipe of a process with a terminal is always at
\* its end); or a descriptor that is not open: an error in either case.
AtEnd(end) ==
    \/ end = Closed
    \/ end[2] # "term" /\ end[1] \in Terminals
    \/ ~Held(end[1])
         /\ output[end[1]][IF end[2] = "term" THEN "stdout" ELSE end[2]] = <<>>

ReadEnds(w) ==
    /\ wpc[w] = "reading"
    /\ AtEnd(job[w].end)
    /\ eof' = [eof EXCEPT ![job[w].proc] = @ \cup {job[w].stream}]
    /\ Replies(w)
    /\ UNCHANGED <<mutexVars, processVars, fdVars, input, output, sent, got>>

-----------------------------------------------------------------------------
(* close_stdin, tty_win_resize and the end of do_wait_process.             *)

\* Mutation: the fields are not reset.
CloseStdinKeepsFields(w, p) ==
    /\ Idle(w) /\ Unlocked
    /\ Known(p)
    /\ p \in Terminals => ReadsInTurn(p, "stdout")
    /\ CloseFds(HeldBy(p, {"term", "stdin"}))
    /\ UNCHANGED <<mutexVars, processVars, fields, input, output, runtimeVars,
                   workerVars>>

CloseStdin(w, p) ==
    /\ Idle(w) /\ Unlocked
    /\ Known(p)
    /\ p \in Terminals => ReadsInTurn(p, "stdout")
    /\ CloseFds(HeldBy(p, {"term", "stdin"}))
    /\ fields' = [fields EXCEPT ![p]["term"] = None, ![p]["stdin"] = None]
    /\ UNCHANGED <<mutexVars, processVars, input, output, runtimeVars,
                   workerVars>>

\* find_process().unwrap(): a process that is not known is a panic with the
\* mutex held.  (Of one that is known nothing changes here.)
TtyWinResize(w, p) ==
    /\ Idle(w) /\ Unlocked
    /\ life[p] \in {"gone", "lost"}
    /\ Panics
    /\ UNCHANGED <<lock, processVars, fdVars, input, output, runtimeVars>>

\* What went through the streams of p matters no longer.
ForgetHistory(p) ==
    /\ written' = [written EXCEPT ![p] = NoBytes]
    /\ consumed' = [consumed EXCEPT ![p] = <<>>]
    /\ input' = [input EXCEPT ![p] = <<>>]
    /\ output' = [output EXCEPT ![p] = NoOutput]
    /\ sent' = [sent EXCEPT ![p] = <<>>]
    /\ got' = [got EXCEPT ![p] = NoOutput]
    /\ eof' = [eof EXCEPT ![p] = {}]

\* All descriptors are closed and the process leaves the table.
WaitReturns(p) ==
    /\ Unlocked
    /\ life[p] = "exited"
    /\ Reads(p) \subseteq eof[p]
    /\ CloseFds(HeldBy(p, Ends))
    /\ fields' = [fields EXCEPT ![p] = NoFields]
    /\ life' = [life EXCEPT ![p] = "gone"]
    /\ ForgetHistory(p)
    /\ UNCHANGED <<mutexVars, heirs, workerVars>>

\* RemoveContainer: destroy() kills the processes, and with the container the
\* table of them is dropped; nothing is closed.
RemoveContainer ==
    /\ Unlocked
    /\ \E p \in Procs : Known(p)
    /\ life' = [p \in Procs |-> IF Known(p) THEN "lost" ELSE life[p]]
    /\ fields' = [p \in Procs |-> IF Known(p) THEN NoFields ELSE fields[p]]
    /\ LeaveHeirs({p \in Procs : life[p] = "run"})
    /\ UNCHANGED <<mutexVars, written, consumed, open, input, output,
                   runtimeVars, workerVars>>

-----------------------------------------------------------------------------
Process(p) ==
    \/ Start(p) \/ StartFails(p) \/ ProcessReads(p)
    \/ ProcessExits(p) \/ HeirsExit(p) \/ WaitReturns(p)
    \/ \E s \in Streams : ProcessWrites(p, s)

\* The request under way.
Continues(w) ==
    \/ WriteProceeds(w) \/ WriteReturns(w)
    \/ ReadEnters(w) \/ ReadReturns(w) \/ ReadEnds(w)

Worker(w) ==
    \/ Continues(w)
    \/ \E p \in Procs :
          \/ WritePanics(w, p) \/ CloseStdin(w, p) \/ TtyWinResize(w, p)
          \/ \E n \in 1..MaxIn[p] : WriteBegins(w, p, n)
          \/ \E s \in Streams : ReadTakesFd(w, p, s)

Next ==
    \/ RemoveContainer
    \/ \E p \in Procs : Process(p)
    \/ \E w \in Threads : Worker(w)

Spec == Init /\ [][Next]_vars

(***************************************************************************)
(* Threads run.  Nothing is assumed of what processes do with their        *)
(* streams, nor of the requests that come.                                 *)
(***************************************************************************)
Fairness == \A w \in Threads : WF_vars(Continues(w))

FairSpec == Spec /\ Fairness

-----------------------------------------------------------------------------
(* Properties.                                                             *)

(***************************************************************************)
(* The descriptors in a Process are open and are its own: numbers are      *)
(* reused as soon as they are closed, so one that is kept too long is      *)
(* another process's (WaitProcess, CloseStdin).  And no open one is        *)
(* forgotten but those of a process that failed to start or that was       *)
(* removed before it was waited for, which the agent never closes; they    *)
(* are in nobody's way.                                                    *)
(***************************************************************************)
OwnDescriptors ==
    /\ \A p \in Procs, e \in Ends : fields[p][e] # None => open[fields[p][e]] = <<p, e>>
    /\ \A f \in Fds : open[f] # Closed =>
          \/ fields[open[f][1]][open[f][2]] = f
          \/ life[open[f][1]] = "lost"

Whole(p, s) == [i \in 1..written[p][s] |-> Byte(p, s, i)]

(***************************************************************************)
(* ReadStdout and ReadStderr return what the process wrote to that stream, *)
(* in order and nothing else, though the descriptor is used after the      *)
(* mutex is released; and at the end of the stream that was all, unless    *)
(* CloseStdin has taken the terminal away.                                 *)
(***************************************************************************)
OutputExact ==
    \A p \in Procs, s \in Streams :
        /\ IsPrefix(got[p][s], Whole(p, s))
        /\ (s \in eof[p] /\ p \notin Terminals) => got[p][s] = Whole(p, s)

(***************************************************************************)
(* The lengths WriteStdin has answered add up to what the process has read *)
(* or still finds in the pipe, also when it exits half-way.                *)
(***************************************************************************)
InputExact ==
    \A p \in Procs : ~ (\E w \in Threads : lock = w /\ job[w].proc = p) =>
        sent[p] = consumed[p] \o input[p]

(***************************************************************************)
(* A read that finds something, or whose stream nobody holds open any      *)
(* more, gets its answer (a process in the background that keeps the       *)
(* stream open keeps the read).  A write, and with it the sandbox mutex,   *)
(* ends if there is room in the pipe again and again, or nobody has the    *)
(* other end: what keeps the mutex of the whole sandbox from everyone is   *)
(* a living process that has stopped reading its stdin.                    *)
(***************************************************************************)
RequestsFinish ==
    /\ \A w \in Threads :
          LET p == job[w].proc  s == job[w].stream
          IN  (wpc[w] \in {"taken", "reading"} /\ (output[p][s] # <<>> \/ ~Held(p)))
                  ~> wpc[w] \notin {"taken", "reading"}
    /\ []<>(lock # Free => LET p == job[lock].proc
                           IN  Len(input[p]) < PipeSize \/ ~Held(p)) => []<>(lock = Free)
=============================================================================
