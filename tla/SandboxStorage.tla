--------------------------- MODULE SandboxStorage ---------------------------
(***************************************************************************)
(* Storages of containers: who mounts them, who counts them, who unmounts  *)
(* them.                                                                   *)
(*                                                                         *)
(* CreateContainer and CreateSandbox run add_storages (src/src/mount.rs)   *)
(* without the sandbox mutex; the handler of each storage takes it for     *)
(* itself when the storage is one the sandbox shares (drivers "ephemeral"  *)
(* and "local") and counts its users in Sandbox.storages                   *)
(* (src/src/sandbox.rs).  RemoveContainer (src/src/grpc.rs) unmounts what  *)
(* the container's list in Sandbox.container_mounts names, in one critical *)
(* section.                                                                *)
(***************************************************************************)
EXTENDS Integers, Sequences, FiniteSets

CONSTANTS
    Cids,         \* container ids
    Workers,      \* threads of the gRPC server
    Points,       \* mount points
    Driver,       \* mount point -> "ephemeral", "local" or "plain"
    Request,      \* container -> sequence of the mount points it asks for
    SandboxPoints,\* sequence of the mount points of CreateSandbox
    Faults,       \* may a mount, and a creation after its mounts, fail?
    Creates,      \* container -> bound on the CreateContainer requests
    Removals,     \* container -> bound on the RemoveContainer requests
    NoCid, SandboxId

ASSUME StorageAssumption ==
    /\ Driver \in [Points -> {"ephemeral", "local", "plain"}]
    /\ Request \in [Cids -> Seq(Points)]
    /\ SandboxPoints \in Seq(Points)
    /\ Faults \in BOOLEAN
    /\ IsFiniteSet(Workers)
    /\ Creates \in [Cids -> Nat] /\ Removals \in [Cids -> Nat]
    /\ SandboxId \notin Cids /\ NoCid \notin Cids \cup {SandboxId}

VARIABLES
    storages,     \* Sandbox.storages: mount point -> count, 0 if no entry
    mounts,       \* Sandbox.container_mounts: container -> list
    sandboxMounts,\* Sandbox.mounts
    containers,   \* keys of Sandbox.containers
    fifo,         \* containers whose exec fifo exists: a second creation fails
    mounted,      \* kernel: mount point -> mounts stacked on it
    failed,       \* mount points whose mount has failed
    creates,      \* container -> CreateContainer requests so far
    tries,        \* container -> RemoveContainer requests so far
    wpc, wcid,    \* worker -> control, container of its request
    todo,         \* worker -> storages add_storages has still to handle
    acc           \* worker -> mount_list of add_storages

vars == <<storages, mounts, sandboxMounts, containers, fifo, mounted, failed,
          creates, tries, wpc, wcid, todo, acc>>

Init ==
    /\ storages = [m \in Points |-> 0]
    /\ mounts = [c \in Cids |-> <<>>]
    /\ sandboxMounts = <<>>
    /\ containers = {}
    /\ fifo = {}
    /\ mounted = [m \in Points |-> 0]
    /\ failed = {}
    /\ creates = [c \in Cids |-> 0]
    /\ tries = [c \in Cids |-> 0]
    /\ wpc = [w \in Workers |-> "idle"]
    /\ wcid = [w \in Workers |-> NoCid]
    /\ todo = [w \in Workers |-> <<>>]
    /\ acc = [w \in Workers |-> <<>>]

-----------------------------------------------------------------------------
(* add_storages.                                                           *)

Begin(w, c, points) ==
    /\ wpc[w] = "idle"
    /\ wpc' = [wpc EXCEPT ![w] = "adding"]
    /\ wcid' = [wcid EXCEPT ![w] = c]
    /\ todo' = [todo EXCEPT ![w] = points]
    /\ acc' = [acc EXCEPT ![w] = <<>>]
    /\ UNCHANGED <<storages, mounts, sandboxMounts, containers, fifo, mounted,
                   failed, tries>>

CreateContainer(w, c) ==
    /\ creates[c] < Creates[c]
    /\ creates' = [creates EXCEPT ![c] = @ + 1]
    /\ Begin(w, c, Request[c])

\* The runtime creates the sandbox before anything else.
CreateSandbox(w) ==
    /\ \A c \in Cids : creates[c] = 0
    /\ sandboxMounts = <<>> /\ \A v \in Workers : wpc[v] = "idle"
    /\ SandboxPoints # <<>>
    /\ UNCHANGED creates
    /\ Begin(w, SandboxId, SandboxPoints)

Handling(w, driver) ==
    /\ wpc[w] = "adding"
    /\ todo[w] # <<>>
    /\ Driver[Head(todo[w])] = driver

\* Mutation: the count of an existing entry is not increased.
SetSandboxStorageOnce(m) == [storages EXCEPT ![m] = 1]

\* set_sandbox_storage.
SetSandboxStorage(m) == [storages EXCEPT ![m] = @ + 1]

\* Mutation: every user is told that the storage is new.
IsAlwaysNew(m) == TRUE

IsNew(m) == storages[m] = 0

\* The mount is done and the mount point goes to the list.
Mounts(w, m) ==
    /\ mounted' = [mounted EXCEPT ![m] = @ + 1]
    /\ acc' = [acc EXCEPT ![w] = Append(@, m)]
    /\ todo' = [todo EXCEPT ![w] = Tail(@)]
    /\ UNCHANGED <<failed, wpc, wcid>>

\* Nothing to mount: the handler returns "", which is not listed.
Skips(w) ==
    /\ todo' = [todo EXCEPT ![w] = Tail(@)]
    /\ UNCHANGED <<mounted, failed, acc, wpc, wcid>>

\* The error ends the request; what has been mounted and counted stays
\* ("Todo need to rollback the mounted storage if err met").
Fails(w) ==
    /\ Faults
    /\ failed' = failed \cup {Head(todo[w])}
    /\ wpc' = [wpc EXCEPT ![w] = "idle"]
    /\ wcid' = [wcid EXCEPT ![w] = NoCid]
    /\ todo' = [todo EXCEPT ![w] = <<>>]
    /\ acc' = [acc EXCEPT ![w] = <<>>]
    /\ UNCHANGED mounted

\* Mutation: the first user counts and leaves the mount to the next one.
EphemeralMountsLate(w) ==
    /\ Handling(w, "ephemeral")
    /\ LET m == Head(todo[w]) IN
       /\ storages' = SetSandboxStorage(m)
       /\ IF storages[m] = 1 THEN Mounts(w, m) ELSE Skips(w)
    /\ UNCHANGED <<mounts, sandboxMounts, containers, fifo, creates, tries>>

\* ephemeral_storage_handler, under the mutex as a whole: the first user
\* mounts, the others only count.
EphemeralStorageHandler(w) ==
    /\ Handling(w, "ephemeral")
    /\ LET m == Head(todo[w]) IN
       /\ storages' = SetSandboxStorage(m)
       /\ IF IsNew(m) THEN Mounts(w, m) \/ Fails(w) ELSE Skips(w)
    /\ UNCHANGED <<mounts, sandboxMounts, containers, fifo, creates, tries>>

\* local_storage_handler: a directory is made by the first user, nothing
\* is mounted and nothing listed.
LocalStorageHandler(w) ==
    /\ Handling(w, "local")
    /\ storages' = SetSandboxStorage(Head(todo[w]))
    /\ Skips(w) \/ (IsNew(Head(todo[w])) /\ Fails(w))
    /\ UNCHANGED <<mounts, sandboxMounts, containers, fifo, creates, tries>>

\* The other handlers mount without the mutex and count nothing.
CommonStorageHandler(w) ==
    /\ Handling(w, "plain")
    /\ Mounts(w, Head(todo[w])) \/ Fails(w)
    /\ UNCHANGED <<storages, mounts, sandboxMounts, containers, fifo, creates,
                   tries>>

\* Under the mutex, when all storages are handled: the list is stored,
\* then the container is created, or refused because its fifo exists, or
\* fails in some other way.  The list is stored in all cases.
Register(w) ==
    /\ wpc[w] = "adding" /\ todo[w] = <<>> /\ wcid[w] # SandboxId
    /\ LET c == wcid[w] IN
       /\ mounts' = [mounts EXCEPT ![c] = acc[w]]
       /\ \/ /\ c \notin fifo
             /\ containers' = containers \cup {c}
             /\ fifo' = fifo \cup {c}
          \/ /\ c \in fifo \/ Faults
             /\ UNCHANGED containers
             /\ fifo' \in {fifo, fifo \cup {c}}
    /\ wpc' = [wpc EXCEPT ![w] = "idle"]
    /\ wcid' = [wcid EXCEPT ![w] = NoCid]
    /\ acc' = [acc EXCEPT ![w] = <<>>]
    /\ UNCHANGED <<storages, sandboxMounts, mounted, failed, creates, tries,
                   todo>>

RegisterSandbox(w) ==
    /\ wpc[w] = "adding" /\ todo[w] = <<>> /\ wcid[w] = SandboxId
    /\ sandboxMounts' = acc[w]
    /\ wpc' = [wpc EXCEPT ![w] = "idle"]
    /\ wcid' = [wcid EXCEPT ![w] = NoCid]
    /\ acc' = [acc EXCEPT ![w] = <<>>]
    /\ UNCHANGED <<storages, mounts, containers, fifo, mounted, failed,
                   creates, tries, todo>>

-----------------------------------------------------------------------------
(* do_remove_container, after the processes have been killed.              *)

\* A removal goes through the list twice: remove_mounts unmounts every mount
\* point on it, and then each one that is a sandbox storage is unmounted once
\* more, whatever is left of its count, because unset_sandbox_storage returns
\* true while there is an entry.
Target(list, i) == IF i <= Len(list) THEN list[i] ELSE list[i - Len(list)]
Unmounts(list) ==
    {i \in 1..2 * Len(list) : i > Len(list) => storages[Target(list, i)] > 0}

\* How often the steps from a to b of a removal unmount m.
Hits(list, m, a, b) ==
    Cardinality({i \in Unmounts(list) :
                    a <= i /\ i <= b /\ Target(list, i) = m})

\* The umounts up to step n have something to unmount each time.
CanUnmount(list, n) == \A m \in Points : Hits(list, m, 1, n) <= mounted[m]

\* Mutation: the last one is forgotten.
UnmountedButLast(list, n) ==
    [m \in Points |-> mounted[m] - Hits(list, m, 1, Len(list) - 1)]

Unmounted(list, n) == [m \in Points |-> mounted[m] - Hits(list, m, 1, n)]

\* The count of a sandbox storage goes down before its umount is tried.
UnsetSandboxStorage(list, n) ==
    [m \in Points |-> storages[m] - Hits(list, m, Len(list) + 1, n)]

\* Everything is unmounted and the container is forgotten.
RemoveSucceeds(c) ==
    LET end == 2 * Len(mounts[c]) IN
    /\ CanUnmount(mounts[c], end)
    /\ mounted' = Unmounted(mounts[c], end)
    /\ storages' = UnsetSandboxStorage(mounts[c], end)
    /\ mounts' = [mounts EXCEPT ![c] = <<>>]
    /\ containers' = containers \ {c}

\* The umount of step n fails: what is before it is done, and the container
\* stays.
RemoveStops(c) ==
    \E n \in 1..2 * Len(mounts[c]) :
        /\ CanUnmount(mounts[c], n - 1) /\ ~CanUnmount(mounts[c], n)
        /\ mounted' = Unmounted(mounts[c], n - 1)
        /\ storages' = UnsetSandboxStorage(mounts[c], n)
        /\ UNCHANGED <<mounts, containers>>

RemoveContainer(c) ==
    /\ c \in containers
    /\ tries[c] < Removals[c]
    /\ tries' = [tries EXCEPT ![c] = @ + 1]
    /\ RemoveSucceeds(c) \/ RemoveStops(c)
    /\ UNCHANGED <<sandboxMounts, fifo, failed, creates, wpc, wcid, todo, acc>>

-----------------------------------------------------------------------------
Next ==
    \/ \E w \in Workers :
          \/ \E c \in Cids : CreateContainer(w, c)
          \/ CreateSandbox(w)
          \/ EphemeralStorageHandler(w) \/ LocalStorageHandler(w)
          \/ CommonStorageHandler(w)
          \/ Register(w) \/ RegisterSandbox(w)
    \/ \E c \in Cids : RemoveContainer(c)

Spec == Init /\ [][Next]_vars

-----------------------------------------------------------------------------
(* Properties.                                                             *)

Ephemeral == {m \in Points : Driver[m] = "ephemeral"}
Counted == {m \in Points : Driver[m] # "plain"}
Asks(c, m) == \E i \in 1..Len(Request[c]) : Request[c][i] = m

\* Every variable has its type (the fields of Sandbox and the locals of
\* add_storages).
TypeOK ==
    /\ storages \in [Points -> Nat]
    /\ mounts \in [Cids -> Seq(Points)]
    /\ sandboxMounts \in Seq(Points)
    /\ containers \subseteq Cids /\ fifo \subseteq Cids
    /\ mounted \in [Points -> Nat]
    /\ failed \subseteq Points
    /\ creates \in [Cids -> Nat] /\ tries \in [Cids -> Nat]
    /\ wpc \in [Workers -> {"idle", "adding"}]
    /\ wcid \in [Workers -> Cids \cup {SandboxId, NoCid}]
    /\ todo \in [Workers -> Seq(Points)]
    /\ acc \in [Workers -> Seq(Points)]

(***************************************************************************)
(* A shared ephemeral storage is mounted once at most, whatever requests   *)
(* for it race, fail, or are removed again: it is mounted by who finds no  *)
(* count, and a count goes away together with the mount.  This is also why *)
(* RemoveContainer finds nothing to unmount the second time.               *)
(***************************************************************************)
MountedOnce ==
    \A m \in Ephemeral :
        mounted[m] \in {0, 1} /\ (mounted[m] = 1 => storages[m] > 0)

\* Containers that use m and that nobody has tried to remove.
Users(m) == {c \in containers : tries[c] = 0 /\ Asks(c, m)}

\* The removal of a container that asks for m has been tried again.
Retried(m) == \E c \in Cids : tries[c] > 1 /\ Asks(c, m)

(***************************************************************************)
(* The reference counter never falls below the number of containers that   *)
(* use the storage (set_sandbox_storage and unset_sandbox_storage), so a   *)
(* storage in use keeps its entry.  A retry breaks this for an ephemeral   *)
(* storage: the list of a removal that has stopped is still there, and the *)
(* next try gives back a count that somebody else has taken since.         *)
(***************************************************************************)
CountCoversUsers ==
    \A m \in Counted :
        Driver[m] = "local" \/ ~Retried(m)
            => storages[m] >= Cardinality(Users(m))

\* The removal of a container that asks for m has been tried.
Removed(m) == \E c \in Cids : tries[c] > 0 /\ Asks(c, m)

(***************************************************************************)
(* A container that uses an ephemeral storage finds it mounted, whichever  *)
(* request came first: ephemeral_storage_handler mounts before it gives    *)
(* the mutex back.  Only a mount that failed, whose count stays, and the   *)
(* removal of another user of the storage break this.                      *)
(***************************************************************************)
MountedForUsers ==
    \A m \in Ephemeral \ failed :
        Users(m) # {} /\ ~Removed(m) => mounted[m] = 1

(***************************************************************************)
(* After RemoveContainer has succeeded nothing is left mounted on the      *)
(* mount points that only this container asked for (remove_mounts), if the *)
(* runtime has created it once.                                            *)
(***************************************************************************)
NoLeftover ==
    \A c \in Cids, m \in Points :
        /\ creates[c] = 1 /\ tries[c] > 0 /\ c \notin containers
        /\ Asks(c, m) /\ Driver[m] = "plain"
        /\ \A d \in Cids \ {c} : ~Asks(d, m)
        /\ \A i \in 1..Len(SandboxPoints) : SandboxPoints[i] # m
        => mounted[m] = 0
=============================================================================
