---------------------------- MODULE WaitService ----------------------------
(***************************************************************************)
(* What the agent promises those who wait for a process, without threads,  *)
(* pipes, reaper or mutex: an answer is the code the process has exited    *)
(* with, it is given once, and while the service is up everyone who waits  *)
(* for a process that has exited gets an answer or is told that the        *)
(* process is not known any more.                                          *)
(***************************************************************************)
EXTENDS Integers

CONSTANTS
    Pids, Clients,
    Codes,       \* what a process may exit with
    NoPid

NoExit == -1

VARIABLES
    up,          \* the service works
    known,       \* processes it answers for
    exit,        \* process -> the code it exited with, or NoExit
    waiting,     \* client -> the process it waits for, or NoPid
    answer       \* client -> the code it is about to be told, or NoExit

vars == <<up, known, exit, waiting, answer>>

Init ==
    /\ up = TRUE
    /\ known = {}
    /\ exit = [p \in Pids |-> NoExit]
    /\ waiting = [c \in Clients |-> NoPid]
    /\ answer = [c \in Clients |-> NoExit]

\* A process becomes known, perhaps after it has exited.  A container that
\* is made again takes the place of the processes of the old one.
Enter(p) ==
    /\ p \notin known
    /\ \E kept \in SUBSET known : known' = kept \cup {p}
    /\ UNCHANGED <<up, exit, waiting, answer>>

\* Processes are forgotten with their container.
Forget ==
    /\ known' \in SUBSET known
    /\ UNCHANGED <<up, exit, waiting, answer>>

Exit(p, code) ==
    /\ exit[p] = NoExit
    /\ exit' = [exit EXCEPT ![p] = code]
    /\ UNCHANGED <<up, known, waiting, answer>>

Wait(c, p) ==
    /\ up
    /\ waiting[c] = NoPid
    /\ p \in known
    /\ waiting' = [waiting EXCEPT ![c] = p]
    /\ UNCHANGED <<up, known, exit, answer>>

Learn(c) ==
    /\ waiting[c] # NoPid
    /\ answer[c] = NoExit
    /\ exit[waiting[c]] # NoExit
    /\ answer' = [answer EXCEPT ![c] = exit[waiting[c]]]
    /\ UNCHANGED <<up, known, exit, waiting>>

\* The process has been waited for and is not known any more.
Answer(c) ==
    /\ up
    /\ answer[c] # NoExit
    /\ waiting[c] \in known
    /\ known' = known \ {waiting[c]}
    /\ waiting' = [waiting EXCEPT ![c] = NoPid]
    /\ answer' = [answer EXCEPT ![c] = NoExit]
    /\ UNCHANGED <<up, exit>>

\* No answer: someone else had it, the process was forgotten, or the
\* service has broken down, at the latest with this.
Abort(c) ==
    /\ answer[c] # NoExit
    /\ up => waiting[c] \notin known
    /\ up' = FALSE
    /\ waiting' = [waiting EXCEPT ![c] = NoPid]
    /\ answer' = [answer EXCEPT ![c] = NoExit]
    /\ UNCHANGED <<known, exit>>

\* The pieces that handle other requests may bring the service down.
BreakDown ==
    /\ up' = FALSE
    /\ UNCHANGED <<known, exit, waiting, answer>>

Next ==
    \/ Forget \/ BreakDown
    \/ \E p \in Pids : Enter(p) \/ \E code \in Codes : Exit(p, code)
    \/ \E c \in Clients :
          Learn(c) \/ Answer(c) \/ Abort(c) \/ \E p \in Pids : Wait(c, p)

Spec == Init /\ [][Next]_vars

Fairness ==
    \A c \in Clients : WF_vars(Learn(c)) /\ WF_vars(Answer(c) \/ Abort(c))

FairSpec == Spec /\ Fairness
=============================================================================
