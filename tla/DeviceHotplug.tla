--------------------------- MODULE DeviceHotplug ---------------------------
(***************************************************************************)
(* How a request handler of the agent turns the bus address of a           *)
(* hotplugged disk into the name of its device node.                       *)
(*                                                                         *)
(* get_device_name (src/src/device.rs) runs in the thread of a             *)
(* CreateContainer or CreateSandbox request, the uevent listener           *)
(* (src/src/uevent.rs) in a thread of its own.  They share two mutexes,    *)
(* taken by both in the order watcher, sandbox:                            *)
(*   - GLOBAL_DEVICE_WATCHER: bus address -> sending half of the channel   *)
(*     of the request that waits for a device at that address;             *)
(*   - the sandbox, whose pci_device_map records the device nodes the      *)
(*     listener has heard of.                                              *)
(* The kernel, which adds and removes devices and queues a uevent for      *)
(* each, and the other requests, which hold the sandbox mutex while they   *)
(* work, are the environment.                                              *)
(***************************************************************************)
EXTENDS Naturals, Sequences, FiniteSets

CONSTANTS
    Handlers,     \* request threads of the gRPC server
    Addrs,        \* bus addresses the requests ask for
    Scsi,         \* those that end in SCSI_BLOCK_SUFFIX
    Paths,        \* sysfs paths of devices (DEVPATH of a uevent)
    BlockPaths,   \* those of block devices below ROOT_BUS_PATH
    Names,        \* names of device nodes (DEVNAME of a uevent)
    Contains,     \* <<p, a>>: the string p contains the string a
    UnderRoot,    \* <<p, a>>: p starts with ROOT_BUS_PATH/a
    SameAddr,     \* may two requests wait for one address at a time?
    QueueCap,     \* uevents the netlink socket holds
    MaxPlugs,     \* bound on the device changes of a behaviour
    NoOne, NoName

Listener == "listener"
Others == "others"
Free == "free"

(***************************************************************************)
(* A PCI address starts at a bridge of the root bus, so a path below       *)
(* ROOT_BUS_PATH that contains the address starts with it; a SCSI address  *)
(* may be anywhere in the path.  This is what makes the listener's test    *)
(* for "this device is the one waited for" as wide as the lookup's.        *)
(***************************************************************************)
ASSUME TopologyAssumption ==
    /\ Scsi \subseteq Addrs /\ BlockPaths \subseteq Paths
    /\ UnderRoot \subseteq Contains
    /\ \A p \in BlockPaths, a \in Addrs \ Scsi :
          <<p, a>> \in Contains => <<p, a>> \in UnderRoot
ASSUME BoundAssumption == QueueCap \in Nat \ {0} /\ MaxPlugs \in Nat
ASSUME MarkerAssumption ==
    /\ Addrs # {} /\ Paths # {} /\ Names # {}
    /\ {NoOne, Listener, Others, Free} \cap Handlers = {}
    /\ NoName \notin Names /\ SameAddr \in BOOLEAN

VARIABLES
    node,          \* kernel: path -> name of its device node, or NoName
    plugs,         \* kernel: how many device changes there have been
    queue,         \* netlink socket: uevents not yet received
    overrun,       \* netlink socket: a uevent was dropped, ENOBUFS is due
    watcherLock,   \* holder of GLOBAL_DEVICE_WATCHER
    sandboxLock,   \* holder of the sandbox mutex
    watchers,      \* address -> handler whose sender is registered
    pciMap,        \* Sandbox.pci_device_map: path -> name, or NoName
    lpc,           \* control of the listener thread
    event,         \* the uevent the listener handles
    pc,            \* handler -> control of get_device_name
    addr,          \* handler -> its argument dev_addr
    chan,          \* handler -> message in its channel, or NoName
    result         \* handler -> outcome of its last call

vars == <<node, plugs, queue, overrun, watcherLock, sandboxLock, watchers,
          pciMap, lpc, event, pc, addr, chan, result>>

kernelVars == <<node, plugs, queue, overrun>>
handlerVars == <<pc, addr, result>>

Uevents == [action : {"add", "remove"}, path : Paths, name : Names]

Init ==
    /\ node = [p \in Paths |-> NoName]
    /\ plugs = 0
    /\ queue = <<>>
    /\ overrun = FALSE
    /\ watcherLock = Free
    /\ sandboxLock = Free
    /\ watchers = [a \in Addrs |-> NoOne]
    /\ pciMap = [p \in Paths |-> NoName]
    /\ lpc = "recv"
    /\ event = CHOOSE e \in Uevents : TRUE
    /\ pc = [h \in Handlers |-> "idle"]
    /\ addr = [h \in Handlers |-> CHOOSE a \in Addrs : TRUE]
    /\ chan = [h \in Handlers |-> NoName]
    /\ result = [h \in Handlers |-> "none"]

-----------------------------------------------------------------------------
(* The kernel.                                                             *)

\* A uevent is queued on the socket, or dropped when the socket is full.
Broadcast(act, p, n) ==
    IF Len(queue) < QueueCap
    THEN /\ queue' = Append(queue, [action |-> act, path |-> p, name |-> n])
         /\ UNCHANGED overrun
    ELSE overrun' = TRUE /\ UNCHANGED queue

\* A device appears at p and gets a name no other device has.
Plug(p, n) ==
    /\ plugs < MaxPlugs
    /\ node[p] = NoName
    /\ \A q \in Paths : node[q] # n
    /\ node' = [node EXCEPT ![p] = n]
    /\ plugs' = plugs + 1
    /\ Broadcast("add", p, n)
    /\ UNCHANGED <<watcherLock, sandboxLock, watchers, pciMap, lpc, event,
                   chan, handlerVars>>

\* The device at p goes away; its uevent carries the same DEVPATH and
\* DEVNAME and another ACTION, which the listener parses and never tests.
Unplug(p) ==
    /\ plugs < MaxPlugs
    /\ node[p] # NoName
    /\ node' = [node EXCEPT ![p] = NoName]
    /\ plugs' = plugs + 1
    /\ Broadcast("remove", p, node[p])
    /\ UNCHANGED <<watcherLock, sandboxLock, watchers, pciMap, lpc, event,
                   chan, handlerVars>>

-----------------------------------------------------------------------------
(* The other requests, as far as they hold the sandbox mutex.  None of     *)
(* them asks for the watcher mutex while it holds the sandbox.             *)

OtherLock ==
    /\ sandboxLock = Free
    /\ sandboxLock' = Others
    /\ UNCHANGED <<kernelVars, watcherLock, watchers, pciMap, lpc, event,
                   chan, handlerVars>>

OtherUnlock ==
    /\ sandboxLock = Others
    /\ sandboxLock' = Free
    /\ UNCHANGED <<kernelVars, watcherLock, watchers, pciMap, lpc, event,
                   chan, handlerVars>>

-----------------------------------------------------------------------------
(* get_device_name.                                                        *)

\* The call has begun and its wait is not over.
Waiting(h) ==
    pc[h] \in {"lockWatcher", "lockSandbox", "lookup", "register", "recv",
               "giveUp"}

\* A request asks for the device at a.  The bus has been rescanned before
\* the call, which the kernel may answer with a Plug at any later time.
Call(h, a) ==
    /\ pc[h] = "idle"
    /\ SameAddr \/ \A g \in Handlers : Waiting(g) => addr[g] # a
    /\ pc' = [pc EXCEPT ![h] = "lockWatcher"]
    /\ addr' = [addr EXCEPT ![h] = a]
    /\ chan' = [chan EXCEPT ![h] = NoName]
    /\ result' = [result EXCEPT ![h] = "none"]
    /\ UNCHANGED <<kernelVars, watcherLock, sandboxLock, watchers, pciMap,
                   lpc, event>>

LockWatcher(h) ==
    /\ pc[h] = "lockWatcher"
    /\ watcherLock = Free
    /\ watcherLock' = h
    /\ pc' = [pc EXCEPT ![h] = "lockSandbox"]
    /\ UNCHANGED <<kernelVars, sandboxLock, watchers, pciMap, lpc, event,
                   addr, chan, result>>

\* Keys of pci_device_map that contain the address.
Known(a) == {p \in Paths : pciMap[p] # NoName /\ <<p, a>> \in Contains}

LockSandbox(h) ==
    /\ pc[h] = "lockSandbox"
    /\ sandboxLock = Free
    /\ sandboxLock' = h
    /\ pc' = [pc EXCEPT ![h] = "lookup"]
    /\ UNCHANGED <<kernelVars, watcherLock, watchers, pciMap, lpc, event, addr,
                   chan, result>>

\* The map knows the device, in some entry of it.
LookupHit(h) ==
    /\ pc[h] = "lookup"
    /\ \E p \in Known(addr[h]) : result' = [result EXCEPT ![h] = pciMap[p]]
    /\ watcherLock' = Free
    /\ sandboxLock' = Free
    /\ pc' = [pc EXCEPT ![h] = "done"]
    /\ UNCHANGED <<kernelVars, watchers, pciMap, lpc, event, addr, chan>>

\* Mutation: the mutexes are released after the lookup, before the
\* registration.
LookupMissUnlocks(h) ==
    /\ pc[h] = "lookup"
    /\ Known(addr[h]) = {}
    /\ watcherLock' = Free
    /\ sandboxLock' = Free
    /\ pc' = [pc EXCEPT ![h] = "register"]
    /\ UNCHANGED <<kernelVars, watchers, pciMap, lpc, event, addr, chan,
                   result>>

\* It does not.
LookupMiss(h) ==
    /\ pc[h] = "lookup"
    /\ Known(addr[h]) = {}
    /\ pc' = [pc EXCEPT ![h] = "register"]
    /\ UNCHANGED <<kernelVars, watcherLock, sandboxLock, watchers, pciMap, lpc,
                   event, addr, chan, result>>

\* The sender is registered and both mutexes released.  An entry of another
\* handler for the same address is overwritten, its sender dropped.
Register(h) ==
    /\ pc[h] = "register"
    /\ watchers' = [watchers EXCEPT ![addr[h]] = h]
    /\ watcherLock' = Free
    /\ sandboxLock' = Free
    /\ pc' = [pc EXCEPT ![h] = "recv"]
    /\ UNCHANGED <<kernelVars, pciMap, lpc, event, addr, chan, result>>

\* recv_timeout returns the message.
RecvName(h) ==
    /\ pc[h] = "recv"
    /\ chan[h] # NoName
    /\ result' = [result EXCEPT ![h] = chan[h]]
    /\ pc' = [pc EXCEPT ![h] = "done"]
    /\ UNCHANGED <<kernelVars, watcherLock, sandboxLock, watchers, pciMap,
                   lpc, event, addr, chan>>

\* recv_timeout fails: TIMEOUT_HOTPLUG is over, or the sender is gone.
\* Both happen at any time after the registration, as far as this model
\* tells time, and the code treats them alike.
RecvFails(h) ==
    /\ pc[h] = "recv"
    /\ chan[h] = NoName
    /\ pc' = [pc EXCEPT ![h] = "giveUp"]
    /\ UNCHANGED <<kernelVars, watcherLock, sandboxLock, watchers, pciMap,
                   lpc, event, addr, chan, result>>

\* Mutation: the timeout forgets remove_entry.
GiveUpKeepsEntry(h) ==
    /\ pc[h] = "giveUp"
    /\ watcherLock = Free
    /\ result' = [result EXCEPT ![h] = "error"]
    /\ pc' = [pc EXCEPT ![h] = "done"]
    /\ UNCHANGED <<kernelVars, watcherLock, sandboxLock, watchers, pciMap,
                   lpc, event, addr, chan>>

\* remove_entry under the watcher mutex, then Err: whoever's entry it is.
GiveUp(h) ==
    /\ pc[h] = "giveUp"
    /\ watcherLock = Free
    /\ watchers' = [watchers EXCEPT ![addr[h]] = NoOne]
    /\ result' = [result EXCEPT ![h] = "error"]
    /\ pc' = [pc EXCEPT ![h] = "done"]
    /\ UNCHANGED <<kernelVars, watcherLock, sandboxLock, pciMap, lpc, event,
                   addr, chan>>

\* The call returns and its channel is dropped.
Return(h) ==
    /\ pc[h] = "done"
    /\ pc' = [pc EXCEPT ![h] = "idle"]
    /\ UNCHANGED <<kernelVars, watcherLock, sandboxLock, watchers, pciMap,
                   lpc, event, addr, chan, result>>

-----------------------------------------------------------------------------
(* watch_uevents.                                                          *)

\* recv_message fails after an overrun: logged, and the loop goes on.
ListenerError ==
    /\ lpc = "recv"
    /\ overrun
    /\ overrun' = FALSE
    /\ UNCHANGED <<node, plugs, queue, watcherLock, sandboxLock, watchers,
                   pciMap, lpc, event, chan, handlerVars>>

\* A uevent is received.  One that is not about a block device node below
\* the root bus takes the branch that onlines memory, which touches no
\* state of the agent.
ListenerRecv ==
    /\ lpc = "recv"
    /\ ~overrun
    /\ queue # <<>>
    /\ event' = Head(queue)
    /\ queue' = Tail(queue)
    /\ lpc' = IF Head(queue).path \in BlockPaths THEN "lockWatcher" ELSE "recv"
    /\ UNCHANGED <<node, plugs, overrun, watcherLock, sandboxLock, watchers,
                   pciMap, chan, handlerVars>>

ListenerLockWatcher ==
    /\ lpc = "lockWatcher"
    /\ watcherLock = Free
    /\ watcherLock' = Listener
    /\ lpc' = "lockSandbox"
    /\ UNCHANGED <<kernelVars, sandboxLock, watchers, pciMap, event, chan,
                   handlerVars>>

\* The filter over the watchers: a PCI block device, or a SCSI one.
Interested(a, p) ==
    \/ <<p, a>> \in UnderRoot
    \/ a \in Scsi /\ <<p, a>> \in Contains

Notified == {a \in Addrs : watchers[a] # NoOne /\ Interested(a, event.path)}

\* Mutation: the sender stays registered after the notification.
OpenAfterNotify == watchers

\* Entries of the watchers map that are left: the channel is closed after
\* the notification.
ClosedAfterNotify ==
    [a \in Addrs |-> IF a \in Notified THEN NoOne ELSE watchers[a]]

ListenerLockSandbox ==
    /\ lpc = "lockSandbox"
    /\ sandboxLock = Free
    /\ sandboxLock' = Listener
    /\ lpc' = "record"
    /\ UNCHANGED <<kernelVars, watcherLock, watchers, pciMap, event, chan,
                   handlerVars>>

\* The device node name goes to the pci device map.
ListenerRecord ==
    /\ lpc = "record"
    /\ pciMap' = [pciMap EXCEPT ![event.path] = event.name]
    /\ lpc' = "notify"
    /\ UNCHANGED <<kernelVars, watcherLock, sandboxLock, watchers, event, chan,
                   handlerVars>>

\* Mutation: the listener does not release the watcher mutex.
ListenerNotifyKeepsLock ==
    /\ lpc = "notify"
    /\ chan' = [h \in Handlers |->
                  IF \E a \in Notified : watchers[a] = h
                  THEN event.name ELSE chan[h]]
    /\ watchers' = ClosedAfterNotify
    /\ sandboxLock' = Free
    /\ lpc' = "recv"
    /\ UNCHANGED <<kernelVars, watcherLock, pciMap, event, handlerVars>>

\* The watchers interested in the device are notified and forgotten, and
\* both mutexes released.
ListenerNotify ==
    /\ lpc = "notify"
    /\ chan' = [h \in Handlers |->
                  IF \E a \in Notified : watchers[a] = h
                  THEN event.name ELSE chan[h]]
    /\ watchers' = ClosedAfterNotify
    /\ watcherLock' = Free
    /\ sandboxLock' = Free
    /\ lpc' = "recv"
    /\ UNCHANGED <<kernelVars, pciMap, event, handlerVars>>

-----------------------------------------------------------------------------
Kernel == \E p \in Paths : Unplug(p) \/ \E n \in Names : Plug(p, n)

ListenerStep ==
    \/ ListenerError \/ ListenerRecv \/ ListenerLockWatcher
    \/ ListenerLockSandbox \/ ListenerRecord \/ ListenerNotify

HandlerStep(h) ==
    \/ LockWatcher(h) \/ LockSandbox(h)
    \/ LookupHit(h) \/ LookupMiss(h) \/ Register(h)
    \/ RecvName(h) \/ RecvFails(h) \/ GiveUp(h) \/ Return(h)

Next ==
    \/ Kernel
    \/ OtherLock \/ OtherUnlock
    \/ \E h \in Handlers : HandlerStep(h) \/ \E a \in Addrs : Call(h, a)
    \/ ListenerStep

Spec == Init /\ [][Next]_vars

(***************************************************************************)
(* Threads keep running and other requests give the sandbox mutex back.    *)
(* A step that takes a mutex is strongly fair: a thread that finds it free *)
(* again and again gets it in the end.  The message or the end of          *)
(* TIMEOUT_HOTPLUG comes for every waiting call.  The kernel owes nothing. *)
(***************************************************************************)
Fairness ==
    /\ WF_vars(OtherUnlock)
    /\ WF_vars(ListenerError) /\ WF_vars(ListenerRecv)
    /\ SF_vars(ListenerLockWatcher) /\ SF_vars(ListenerLockSandbox)
    /\ WF_vars(ListenerRecord) /\ WF_vars(ListenerNotify)
    /\ \A h \in Handlers :
          /\ SF_vars(LockWatcher(h)) /\ SF_vars(LockSandbox(h))
          /\ WF_vars(LookupHit(h) \/ LookupMiss(h)) /\ WF_vars(Register(h))
          /\ WF_vars(RecvName(h) \/ RecvFails(h))
          /\ SF_vars(GiveUp(h))
          /\ WF_vars(Return(h))

FairSpec == Spec /\ Fairness

-----------------------------------------------------------------------------
(* Properties.                                                             *)

HandlerPcs == {"idle", "lockWatcher", "lockSandbox", "lookup", "register",
               "recv", "giveUp", "done"}

\* Every variable has its type (the shared state of device.rs and uevent.rs).
TypeOK ==
    /\ node \in [Paths -> Names \cup {NoName}]
    /\ plugs \in Nat
    /\ queue \in Seq(Uevents)
    /\ overrun \in BOOLEAN
    /\ watcherLock \in {Free, Listener} \cup Handlers
    /\ sandboxLock \in {Free, Others, Listener} \cup Handlers
    /\ watchers \in [Addrs -> Handlers \cup {NoOne}]
    /\ pciMap \in [Paths -> Names \cup {NoName}]
    /\ lpc \in {"recv", "lockWatcher", "lockSandbox", "record", "notify"}
    /\ event \in Uevents
    /\ pc \in [Handlers -> HandlerPcs]
    /\ addr \in [Handlers -> Addrs]
    /\ chan \in [Handlers -> Names \cup {NoName}]
    /\ result \in [Handlers -> Names \cup {"none", "error"}]

(***************************************************************************)
(* get_device_name registers "inside the lock, not to miss any events from *)
(* the global udev listener" (device.rs): while a handler waits on an      *)
(* empty channel, and the listener is not just about to notify, the        *)
(* listener has not recorded any device at its address.  Were the lookup   *)
(* and the registration not in one critical section, an event could fall   *)
(* between them.                                                           *)
(***************************************************************************)
NoMissedEvent ==
    \A h \in Handlers :
        pc[h] = "recv" /\ chan[h] = NoName /\ lpc # "notify"
            => Known(addr[h]) = {}

(***************************************************************************)
(* A sender in the watchers map belongs to a call that still waits for     *)
(* that address: neither an answer nor a timeout leaves an entry behind    *)
(* that the listener would answer in vain.                                 *)
(***************************************************************************)
NoLeakedWatcher ==
    \A a \in Addrs : watchers[a] # NoOne =>
        pc[watchers[a]] \in {"recv", "giveUp"} /\ addr[watchers[a]] = a

(***************************************************************************)
(* "Close the channel after watcher has been notified" (uevent.rs): a call *)
(* is sent one name at most, though a disk and its partitions, or the      *)
(* addition and the removal of a disk, give uevents that all match.        *)
(***************************************************************************)
NotifiedOnce ==
    [][\A h \in Handlers : chan[h] # NoName =>
          chan'[h] = chan[h] \/ (pc[h] = "idle" /\ chan'[h] = NoName)]_vars

(***************************************************************************)
(* The two mutexes do not deadlock and TIMEOUT_HOTPLUG bounds the wait:    *)
(* every get_device_name returns, whether or not the device ever comes.    *)
(***************************************************************************)
CallReturns == \A h \in Handlers : pc[h] # "idle" ~> pc[h] = "idle"

=============================================================================
