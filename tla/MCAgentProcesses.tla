-------------------------- MODULE MCAgentProcesses --------------------------
(***************************************************************************)
(* Instances of AgentProcesses: the requests each of them sends.           *)
(***************************************************************************)
EXTENDS AgentWaitService, TLC

\* Everything that creates, waits for or forgets a process.
ProcessTableOps ==
    {"CreateSandbox", "CreateContainer", "CreateIncomplete", "StartContainer",
     "ExecProcess", "SignalProcess", "SignalUnknown", "WaitProcess",
     "ListProcesses", "RemoveContainer", "RemoveWithTimeout"}

\* One sandbox, containers removed without a timeout.
RemovalOps == {"CreateContainer", "StartContainer", "ExecProcess",
               "WaitProcess", "RemoveContainer", "DestroySandbox"}

\* What an orderly runtime does with processes.
ProcessOps == {"CreateContainer", "StartContainer", "ExecProcess",
               "SignalProcess", "SignalAll", "WaitProcess"}

\* Processes, threads, containers and exec ids are interchangeable.
Interchangeable ==
    Permutations(Pids) \cup Permutations(Workers)
        \cup Permutations(Cids) \cup Permutations(Eids)
=============================================================================
