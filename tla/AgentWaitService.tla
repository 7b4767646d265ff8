-------------------------- MODULE AgentWaitService --------------------------
(***************************************************************************)
(* The agent implements WaitService.  The processes known are those in the *)
(* tables of the containers; a client waits from the first critical        *)
(* section of do_wait_process to the second; what it is about to be told   *)
(* is what the agent has stored, once the exit pipe has let it go on; and  *)
(* the service is down when the sandbox mutex is poisoned.                 *)
(***************************************************************************)
EXTENDS AgentProcesses, Integers

Waits == {"reading", "waited"}

Service ==
    INSTANCE WaitService WITH
        Clients <- Workers,
        up      <- ~poisoned,
        known   <- table,
        exit    <- [p \in Pids |-> IF run[p] \in {"zombie", "gone"}
                                   THEN died[p] ELSE -1],
        waiting <- [w \in Workers |-> IF wpc[w] \in Waits THEN wpid[w] ELSE NoPid],
        answer  <- [w \in Workers |-> IF wpc[w] = "waited" THEN Response(w) ELSE -1]

(***************************************************************************)
(* do_wait_process, the reaper of setup_signal_handler and every request   *)
(* that touches the process tables together do only what WaitService       *)
(* allows: a step of theirs is a step of it or changes nothing it sees.    *)
(***************************************************************************)
ImplementsWaitService == Service!Spec

\* No init process stays at its exec fifo for ever: it is started or killed.
AllStarted == \A p \in Pids : []<>(run[p] # "fifo")

(***************************************************************************)
(* With an orderly runtime that starts or kills what it has created, every *)
(* wait for a process that has exited is also answered: the fairness the   *)
(* service promises.  An init process that is left at its fifo may keep    *)
(* the exit pipe of another container open, and the wait with it (see      *)
(* WaiterWoken).                                                           *)
(***************************************************************************)
AnswersEveryWait == AllStarted => Service!Fairness
=============================================================================
