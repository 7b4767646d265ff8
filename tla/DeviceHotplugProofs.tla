------------------------ MODULE DeviceHotplugProofs ------------------------
(***************************************************************************)
(* Proofs about DeviceHotplug, for any number of requests, addresses,      *)
(* devices and uevents.                                                    *)
(*                                                                         *)
(* The argument.  Both mutexes are held over the lookup in pci_device_map  *)
(* and the registration of the sender (Locks), and over the recording of a *)
(* device and the notification.  So a request that has found nothing still *)
(* has nothing to find when it registers (StillUnknown), and a request     *)
(* that waits can only have a device to find while the listener, which has *)
(* just recorded it, is about to notify (OnlyTheNew); it then finds the    *)
(* sender of the request (Registered), provided no other request has taken *)
(* the entry of the address (Distinct).                                    *)
(***************************************************************************)
EXTENDS DeviceHotplug, TLAPS

HandlerHolds == {"lockSandbox", "lookup", "register"}
ListenerHolds == {"lockSandbox", "record", "notify"}

\* Who holds a mutex is where he is in the code.
Locks ==
    /\ \A h \in Handlers : pc[h] \in HandlerHolds <=> watcherLock = h
    /\ \A h \in Handlers : pc[h] \in {"lookup", "register"} <=> sandboxLock = h
    /\ lpc \in ListenerHolds <=> watcherLock = Listener
    /\ lpc \in {"record", "notify"} <=> sandboxLock = Listener

\* A call whose sender is registered, or not yet, has been sent nothing.
Unanswered ==
    /\ \A a \in Addrs : watchers[a] # NoOne => chan[watchers[a]] = NoName
    /\ \A h \in Handlers :
          pc[h] \in {"lockWatcher"} \cup HandlerHolds => chan[h] = NoName

Inv == TypeOK /\ Locks /\ NoLeakedWatcher /\ Unanswered

-----------------------------------------------------------------------------
\* The invariant holds when the agent starts.
LEMMA InitInv == Init => Inv
  <1> SUFFICES ASSUME Init PROVE Inv
    OBVIOUS
  <1>1. Uevents # {}
    <2>1. PICK p \in Paths, n \in Names : TRUE
      BY MarkerAssumption
    <2>2. [action |-> "add", path |-> p, name |-> n] \in Uevents
      BY DEF Uevents
    <2> QED
      BY <2>2
  <1>2. event \in Uevents
    BY <1>1 DEF Init
  <1>3. addr \in [Handlers -> Addrs]
    BY MarkerAssumption DEF Init
  <1>4. TypeOK
    <2>1. queue \in Seq(Uevents)
      BY DEF Init
    <2> QED
      BY <1>2, <1>3, <2>1 DEF Init, TypeOK, HandlerPcs
  <1>5. Locks
    BY MarkerAssumption
    DEF Init, Locks, HandlerHolds, ListenerHolds, Free, Listener
  <1>6. NoLeakedWatcher /\ Unanswered
    BY DEF Init, NoLeakedWatcher, Unanswered, HandlerHolds
  <1> QED
    BY <1>4, <1>5, <1>6 DEF Inv

\* The queue of the netlink socket holds uevents.
LEMMA BroadcastType ==
    ASSUME queue \in Seq(Uevents), overrun \in BOOLEAN,
           NEW act, NEW p, NEW n, Broadcast(act, p, n),
           [action |-> act, path |-> p, name |-> n] \in Uevents
    PROVE  queue' \in Seq(Uevents) /\ overrun' \in BOOLEAN
  <1> DEFINE e == [action |-> act, path |-> p, name |-> n]
  <1> HIDE DEF e
  <1>1. e \in Uevents
    BY DEF e
  <1>2. CASE Len(queue) < QueueCap
    <2>1. queue' = Append(queue, e) /\ overrun' = overrun
      BY <1>2 DEF Broadcast, e
    <2> QED
      BY <1>1, <2>1
  <1>3. CASE ~(Len(queue) < QueueCap)
    BY <1>3 DEF Broadcast
  <1> QED
    BY <1>2, <1>3

\* Every step keeps the types.
LEMMA StepType == TypeOK /\ [Next]_vars => TypeOK'
  <1> SUFFICES ASSUME TypeOK, [Next]_vars PROVE TypeOK'
    OBVIOUS
  <1> USE DEF TypeOK, HandlerPcs
  <1>1. ASSUME NEW p \in Paths, Unplug(p) PROVE TypeOK'
    <2>1. node[p] \in Names
      BY <1>1 DEF Unplug
    <2>2. [action |-> "remove", path |-> p, name |-> node[p]] \in Uevents
      BY <2>1 DEF Uevents
    <2>3. queue' \in Seq(Uevents) /\ overrun' \in BOOLEAN
      BY <1>1, <2>2, BroadcastType DEF Unplug
    <2> QED
      BY <1>1, <2>3 DEF Unplug, handlerVars
  <1>2. ASSUME NEW p \in Paths, NEW n \in Names, Plug(p, n) PROVE TypeOK'
    <2>1. [action |-> "add", path |-> p, name |-> n] \in Uevents
      BY DEF Uevents
    <2>2. queue' \in Seq(Uevents) /\ overrun' \in BOOLEAN
      BY <1>2, <2>1, BroadcastType DEF Plug
    <2> QED
      BY <1>2, <2>2 DEF Plug, handlerVars
  <1>3. CASE OtherLock
    BY <1>3 DEF OtherLock, kernelVars, handlerVars
  <1>4. CASE OtherUnlock
    BY <1>4 DEF OtherUnlock, kernelVars, handlerVars
  <1>5. ASSUME NEW h \in Handlers, NEW a \in Addrs, Call(h, a) PROVE TypeOK'
    BY <1>5 DEF Call, kernelVars
  <1>6. ASSUME NEW h \in Handlers, HandlerStep(h) PROVE TypeOK'
    <2>1. CASE LockWatcher(h)
      BY <2>1 DEF LockWatcher, kernelVars
    <2>2. CASE LockSandbox(h)
      BY <2>2 DEF LockSandbox, kernelVars
    <2>3. CASE LookupHit(h)
      BY <2>3 DEF LookupHit, Known, kernelVars
    <2>4. CASE LookupMiss(h)
      BY <2>4 DEF LookupMiss, kernelVars
    <2>5. CASE Register(h)
      BY <2>5 DEF Register, kernelVars
    <2>6. CASE RecvName(h)
      BY <2>6 DEF RecvName, kernelVars
    <2>7. CASE RecvFails(h)
      BY <2>7 DEF RecvFails, kernelVars
    <2>8. CASE GiveUp(h)
      BY <2>8 DEF GiveUp, kernelVars
    <2>9. CASE Return(h)
      BY <2>9 DEF Return, kernelVars
    <2> QED
      BY <1>6, <2>1, <2>2, <2>3, <2>4, <2>5, <2>6, <2>7, <2>8, <2>9
      DEF HandlerStep
  <1>7. CASE ListenerStep
    <2>1. CASE ListenerError
      BY <2>1 DEF ListenerError, handlerVars
    <2>2. CASE ListenerRecv
      BY <2>2 DEF ListenerRecv, handlerVars
    <2>3. CASE ListenerLockWatcher
      BY <2>3 DEF ListenerLockWatcher, kernelVars, handlerVars
    <2>4. CASE ListenerLockSandbox
      BY <2>4 DEF ListenerLockSandbox, kernelVars, handlerVars
    <2>5. CASE ListenerRecord
      BY <2>5 DEF ListenerRecord, Uevents, kernelVars, handlerVars
    <2>6. CASE ListenerNotify
      BY <2>6 DEF ListenerNotify, ClosedAfterNotify, Uevents, kernelVars,
                  handlerVars
    <2> QED
      BY <1>7, <2>1, <2>2, <2>3, <2>4, <2>5, <2>6 DEF ListenerStep
  <1>8. CASE UNCHANGED vars
    BY <1>8 DEF vars
  <1> QED
    BY <1>1, <1>2, <1>3, <1>4, <1>5, <1>6, <1>7, <1>8 DEF Next, Kernel

\* Every step keeps the mutexes and the places in the code together.
LEMMA StepLocks == TypeOK /\ Locks /\ [Next]_vars => Locks'
  <1> SUFFICES ASSUME TypeOK, Locks, [Next]_vars PROVE Locks'
    OBVIOUS
  <1>m. {NoOne, Listener, Others, Free} \cap Handlers = {}
    BY MarkerAssumption
  <1> USE DEF TypeOK, Locks, HandlerHolds, ListenerHolds, Free, Listener,
              Others
  <1>1. ASSUME NEW p \in Paths, Unplug(p) PROVE Locks'
    BY <1>1 DEF Unplug, handlerVars
  <1>2. ASSUME NEW p \in Paths, NEW n \in Names, Plug(p, n) PROVE Locks'
    BY <1>2 DEF Plug, handlerVars
  <1>3. CASE OtherLock
    BY <1>m, <1>3 DEF OtherLock, kernelVars, handlerVars
  <1>4. CASE OtherUnlock
    BY <1>m, <1>4 DEF OtherUnlock, kernelVars, handlerVars
  <1>5. ASSUME NEW h \in Handlers, NEW a \in Addrs, Call(h, a) PROVE Locks'
    BY <1>5 DEF Call, kernelVars
  <1>6. ASSUME NEW h \in Handlers, HandlerStep(h) PROVE Locks'
    <2>1. CASE LockWatcher(h)
      BY <1>m, <2>1 DEF LockWatcher, kernelVars
    <2>2. CASE LockSandbox(h)
      BY <1>m, <2>2 DEF LockSandbox, kernelVars
    <2>3. CASE LookupHit(h)
      BY <1>m, <2>3 DEF LookupHit, kernelVars
    <2>4. CASE LookupMiss(h)
      BY <1>m, <2>4 DEF LookupMiss, kernelVars
    <2>5. CASE Register(h)
      BY <1>m, <2>5 DEF Register, kernelVars
    <2>6. CASE RecvName(h)
      BY <2>6 DEF RecvName, kernelVars
    <2>7. CASE RecvFails(h)
      BY <2>7 DEF RecvFails, kernelVars
    <2>8. CASE GiveUp(h)
      BY <2>8 DEF GiveUp, kernelVars
    <2>9. CASE Return(h)
      BY <2>9 DEF Return, kernelVars
    <2> QED
      BY <1>6, <2>1, <2>2, <2>3, <2>4, <2>5, <2>6, <2>7, <2>8, <2>9
      DEF HandlerStep
  <1>7. CASE ListenerStep
    <2>1. CASE ListenerError
      BY <2>1 DEF ListenerError, handlerVars
    <2>2. CASE ListenerRecv
      BY <2>2 DEF ListenerRecv, handlerVars
    <2>3. CASE ListenerLockWatcher
      BY <1>m, <2>3 DEF ListenerLockWatcher, kernelVars, handlerVars
    <2>4. CASE ListenerLockSandbox
      BY <1>m, <2>4 DEF ListenerLockSandbox, kernelVars, handlerVars
    <2>5. CASE ListenerRecord
      BY <2>5 DEF ListenerRecord, kernelVars, handlerVars
    <2>6. CASE ListenerNotify
      BY <1>m, <2>6 DEF ListenerNotify, kernelVars, handlerVars
    <2> QED
      BY <1>7, <2>1, <2>2, <2>3, <2>4, <2>5, <2>6 DEF ListenerStep
  <1>8. CASE UNCHANGED vars
    BY <1>8 DEF vars
  <1> QED
    BY <1>1, <1>2, <1>3, <1>4, <1>5, <1>6, <1>7, <1>8 DEF Next, Kernel

\* Notifying answers every entry it removes and no other.
LEMMA NotifyAnswers ==
    ASSUME TypeOK, NoLeakedWatcher, Unanswered, ListenerNotify
    PROVE  NoLeakedWatcher' /\ Unanswered'
  <1> USE DEF TypeOK
  <1>m. NoOne \notin Handlers
    BY MarkerAssumption
  <1>1. /\ pc' = pc /\ addr' = addr
        /\ chan' = [h \in Handlers |->
                      IF \E a \in Notified : watchers[a] = h
                      THEN event.name ELSE chan[h]]
        /\ watchers' = [a \in Addrs |->
                          IF a \in Notified THEN NoOne ELSE watchers[a]]
    BY DEF ListenerNotify, ClosedAfterNotify, handlerVars
  <1>2. Notified \subseteq Addrs
    BY DEF Notified
  <1>3. \A a \in Addrs : watchers'[a] # NoOne =>
            a \notin Notified /\ watchers'[a] = watchers[a]
    BY <1>1
  <1>4. NoLeakedWatcher'
    BY <1>1, <1>3 DEF NoLeakedWatcher
  <1>5. ASSUME NEW a \in Addrs, watchers'[a] # NoOne
        PROVE  chan'[watchers'[a]] = NoName
    <2>1. watchers[a] \in Handlers /\ a \notin Notified
          /\ watchers'[a] = watchers[a]
      BY <1>3, <1>5
    <2>2. \A b \in Notified : watchers[b] # watchers[a]
      BY <1>m, <1>2, <2>1 DEF NoLeakedWatcher
    <2>3. chan'[watchers[a]] = chan[watchers[a]]
      BY <1>1, <2>1, <2>2
    <2> QED
      BY <2>1, <2>3, <1>m DEF Unanswered
  <1>6. ASSUME NEW h \in Handlers,
               pc'[h] \in {"lockWatcher"} \cup HandlerHolds
        PROVE  chan'[h] = NoName
    <2>1. \A a \in Notified : watchers[a] # h
      BY <1>m, <1>1, <1>2, <1>6 DEF NoLeakedWatcher, HandlerHolds
    <2> QED
      BY <1>1, <1>6, <2>1 DEF Unanswered
  <1> QED
    BY <1>4, <1>5, <1>6 DEF Unanswered

\* Every step keeps the watchers map clean.
LEMMA StepWatchers ==
    TypeOK /\ NoLeakedWatcher /\ Unanswered /\ [Next]_vars
        => NoLeakedWatcher' /\ Unanswered'
  <1> SUFFICES ASSUME TypeOK, NoLeakedWatcher, Unanswered, [Next]_vars
               PROVE  NoLeakedWatcher' /\ Unanswered'
    OBVIOUS
  <1>m. NoOne \notin Handlers
    BY MarkerAssumption
  <1> DEFINE Goal == NoLeakedWatcher' /\ Unanswered'
  <1> USE DEF TypeOK, NoLeakedWatcher, Unanswered, HandlerHolds
  <1>1. ASSUME NEW p \in Paths, Unplug(p) PROVE Goal
    BY <1>1 DEF Unplug, handlerVars
  <1>2. ASSUME NEW p \in Paths, NEW n \in Names, Plug(p, n) PROVE Goal
    BY <1>2 DEF Plug, handlerVars
  <1>3. CASE OtherLock
    BY <1>3 DEF OtherLock, kernelVars, handlerVars
  <1>4. CASE OtherUnlock
    BY <1>4 DEF OtherUnlock, kernelVars, handlerVars
  <1>5. ASSUME NEW h \in Handlers, NEW a \in Addrs, Call(h, a) PROVE Goal
    BY <1>5, <1>m DEF Call, kernelVars
  <1>6. ASSUME NEW h \in Handlers, HandlerStep(h) PROVE Goal
    <2>1. CASE LockWatcher(h)
      BY <1>m, <2>1 DEF LockWatcher, kernelVars
    <2>2. CASE LockSandbox(h)
      BY <1>m, <2>2 DEF LockSandbox, kernelVars
    <2>3. CASE LookupHit(h)
      BY <1>m, <2>3 DEF LookupHit, kernelVars
    <2>4. CASE LookupMiss(h)
      BY <1>m, <2>4 DEF LookupMiss, kernelVars
    <2>5. CASE Register(h)
      BY <1>m, <2>5 DEF Register, kernelVars
    <2>6. CASE RecvName(h)
      BY <1>m, <2>6 DEF RecvName, kernelVars
    <2>7. CASE RecvFails(h)
      BY <1>m, <2>7 DEF RecvFails, kernelVars
    <2>8. CASE GiveUp(h)
      BY <1>m, <2>8 DEF GiveUp, kernelVars
    <2>9. CASE Return(h)
      BY <1>m, <2>9 DEF Return, kernelVars
    <2> QED
      BY <1>6, <2>1, <2>2, <2>3, <2>4, <2>5, <2>6, <2>7, <2>8, <2>9
      DEF HandlerStep
  <1>7. CASE ListenerStep
    <2>1. CASE ListenerError
      BY <2>1 DEF ListenerError, handlerVars
    <2>2. CASE ListenerRecv
      BY <2>2 DEF ListenerRecv, handlerVars
    <2>3. CASE ListenerLockWatcher
      BY <2>3 DEF ListenerLockWatcher, kernelVars, handlerVars
    <2>4. CASE ListenerLockSandbox
      BY <2>4 DEF ListenerLockSandbox, kernelVars, handlerVars
    <2>5. CASE ListenerRecord
      BY <2>5 DEF ListenerRecord, kernelVars, handlerVars
    <2>6. CASE ListenerNotify
      BY <2>6, NotifyAnswers
    <2> QED
      BY <1>7, <2>1, <2>2, <2>3, <2>4, <2>5, <2>6 DEF ListenerStep
  <1>8. CASE UNCHANGED vars
    BY <1>8 DEF vars
  <1> QED
    BY <1>1, <1>2, <1>3, <1>4, <1>5, <1>6, <1>7, <1>8 DEF Next, Kernel

\* The invariant holds in every reachable state, shared addresses or not.
THEOREM Invariance == Spec => []Inv
  <1>1. Inv /\ [Next]_vars => Inv'
    BY StepType, StepLocks, StepWatchers DEF Inv
  <1> QED
    BY InitInv, <1>1, PTL DEF Spec

\* Every variable keeps its type.
THEOREM TypeCorrect == Spec => []TypeOK
  BY Invariance, PTL DEF Inv

\* Neither an answer nor a timeout of get_device_name leaves a sender in
\* GLOBAL_DEVICE_WATCHER, even when requests share an address.
THEOREM NothingLeaked == Spec => []NoLeakedWatcher
  BY Invariance, PTL DEF Inv

-----------------------------------------------------------------------------
(* No missed events, when no two requests wait for one address at a time.  *)

\* Two waiting calls have different addresses.
Distinct ==
    \A g, h \in Handlers :
        g # h /\ Waiting(g) /\ Waiting(h) => addr[g] # addr[h]

\* A call that waits for its message is registered.
Registered ==
    \A h \in Handlers :
        pc[h] = "recv" /\ chan[h] = NoName => watchers[addr[h]] = h

\* What was not there at the lookup is not there at the registration.
StillUnknown ==
    \A h \in Handlers : pc[h] = "register" => Known(addr[h]) = {}

\* The listener handles block devices only.
BlockEvent == lpc # "recv" => event.path \in BlockPaths

\* All a waiting call could find is what the listener has just recorded.
OnlyTheNew ==
    \A h \in Handlers : pc[h] = "recv" /\ chan[h] = NoName =>
        \A p \in Known(addr[h]) : lpc = "notify" /\ p = event.path

NoMissedInv ==
    Distinct /\ Registered /\ StillUnknown /\ BlockEvent /\ OnlyTheNew

\* Requests keep to different addresses (the guard of Call).
LEMMA StepDistinct ==
    ASSUME SameAddr = FALSE, TypeOK, Distinct, [Next]_vars
    PROVE  Distinct'
  <1> USE DEF TypeOK, Distinct, Waiting
  <1>1. ASSUME NEW h \in Handlers, NEW a \in Addrs, Call(h, a)
        PROVE  Distinct'
    BY <1>1 DEF Call
  <1>2. ASSUME NEW h \in Handlers, HandlerStep(h) PROVE Distinct'
    <2>1. addr' = addr /\ \A g \in Handlers : Waiting(g)' => Waiting(g)
      BY <1>2 DEF HandlerStep, LockWatcher, LockSandbox, LookupHit,
                  LookupMiss, Register, RecvName, RecvFails, GiveUp, Return
    <2> QED
      BY <2>1
  <1>3. CASE UNCHANGED <<pc, addr>>
    BY <1>3
  <1>4. Kernel \/ OtherLock \/ OtherUnlock \/ ListenerStep
            \/ UNCHANGED vars => UNCHANGED <<pc, addr>>
    BY DEF Kernel, Plug, Unplug, OtherLock, OtherUnlock, ListenerStep,
           ListenerError, ListenerRecv, ListenerLockWatcher,
           ListenerLockSandbox, ListenerRecord, ListenerNotify, handlerVars,
           vars
  <1> QED
    BY <1>1, <1>2, <1>3, <1>4 DEF Next

\* The steps of requests keep what is said of waiting calls.
LEMMA HandlerKeeps ==
    ASSUME Inv, NoMissedInv, NEW h \in Handlers, HandlerStep(h)
    PROVE  Registered' /\ StillUnknown' /\ BlockEvent' /\ OnlyTheNew'
  <1> USE DEF Inv, NoMissedInv, TypeOK, Registered, StillUnknown, BlockEvent,
              OnlyTheNew, Known
  <1>1. CASE LockWatcher(h)
    BY <1>1 DEF LockWatcher, kernelVars
  <1>2. CASE LockSandbox(h)
    BY <1>2 DEF LockSandbox, kernelVars
  <1>3. CASE LookupHit(h)
    BY <1>3 DEF LookupHit, kernelVars
  <1>4. CASE LookupMiss(h)
    BY <1>4 DEF LookupMiss, kernelVars
  <1>5. CASE Register(h)
    <2>1. \A g \in Handlers \ {h} : Waiting(g) => addr[g] # addr[h]
      BY <1>5 DEF Register, Distinct, Waiting
    <2> QED
      BY <1>5, <2>1 DEF Register, Waiting, kernelVars
  <1>6. CASE RecvName(h)
    BY <1>6 DEF RecvName, kernelVars
  <1>7. CASE RecvFails(h)
    BY <1>7 DEF RecvFails, kernelVars
  <1>8. CASE GiveUp(h)
    <2>1. \A g \in Handlers \ {h} : Waiting(g) => addr[g] # addr[h]
      BY <1>8 DEF GiveUp, Distinct, Waiting
    <2> QED
      BY <1>8, <2>1 DEF GiveUp, Waiting, kernelVars
  <1>9. CASE Return(h)
    BY <1>9 DEF Return, kernelVars
  <1> QED
    BY <1>1, <1>2, <1>3, <1>4, <1>5, <1>6, <1>7, <1>8, <1>9 DEF HandlerStep

\* The listener's notification reaches a call that waits for the device.
LEMMA NotifyReaches ==
    ASSUME Inv, NoMissedInv, ListenerNotify
    PROVE  Registered' /\ StillUnknown' /\ BlockEvent' /\ OnlyTheNew'
  <1> USE DEF Inv, TypeOK
  <1>m. NoOne \notin Handlers
    BY MarkerAssumption
  <1>1. /\ pc' = pc /\ addr' = addr /\ pciMap' = pciMap /\ event' = event
        /\ lpc = "notify" /\ lpc' = "recv"
        /\ chan' = [h \in Handlers |->
                      IF \E a \in Notified : watchers[a] = h
                      THEN event.name ELSE chan[h]]
        /\ watchers' = [a \in Addrs |->
                          IF a \in Notified THEN NoOne ELSE watchers[a]]
    BY DEF ListenerNotify, ClosedAfterNotify, handlerVars
  <1>2. event.name \in Names /\ NoName \notin Names
    BY MarkerAssumption DEF Uevents
  <1>3. ASSUME NEW h \in Handlers, pc'[h] = "recv", chan'[h] = NoName
        PROVE  watchers'[addr[h]] = h /\ Known(addr[h])' = {}
    <2>1. chan[h] = NoName /\ \A a \in Notified : watchers[a] # h
      BY <1>1, <1>2, <1>3
    <2>2. watchers[addr[h]] = h
      BY <1>1, <1>3, <2>1 DEF NoMissedInv, Registered
    <2>3. addr[h] \notin Notified
      BY <2>1, <2>2
    <2>4. watchers'[addr[h]] = h
      BY <1>1, <2>2, <2>3
    <2>5. ASSUME NEW p \in Known(addr[h]) PROVE FALSE
      <3>1. p = event.path /\ <<p, addr[h]>> \in Contains
        BY <1>1, <1>3, <2>1 DEF NoMissedInv, OnlyTheNew, Known
      <3>2. p \in BlockPaths
        BY <1>1, <3>1 DEF NoMissedInv, BlockEvent
      <3>3. Interested(addr[h], event.path)
        BY <3>1, <3>2, TopologyAssumption DEF Interested
      <3> QED
        BY <1>m, <2>2, <2>3, <3>3 DEF Notified
    <2>6. Known(addr[h])' = Known(addr[h])
      BY <1>1 DEF Known
    <2> QED
      BY <2>4, <2>5, <2>6
  <1>4. StillUnknown'
    BY <1>1 DEF NoMissedInv, StillUnknown, Known
  <1>5. BlockEvent'
    BY <1>1 DEF BlockEvent
  <1>6. Registered'
    BY <1>1, <1>3 DEF Registered
  <1>7. OnlyTheNew'
    BY <1>1, <1>3 DEF OnlyTheNew, Known
  <1> QED
    BY <1>4, <1>5, <1>6, <1>7

\* The other steps of the listener: what it records is only known to calls
\* that are registered, because it holds the mutexes.
LEMMA ListenerKeeps ==
    ASSUME Inv, NoMissedInv, ListenerStep
    PROVE  Registered' /\ StillUnknown' /\ BlockEvent' /\ OnlyTheNew'
  <1> USE DEF Inv, NoMissedInv, TypeOK, Registered, StillUnknown, BlockEvent,
              OnlyTheNew, Known
  <1>1. CASE ListenerError
    BY <1>1 DEF ListenerError, handlerVars
  <1>2. CASE ListenerRecv
    BY <1>2 DEF ListenerRecv, handlerVars
  <1>3. CASE ListenerLockWatcher
    BY <1>3 DEF ListenerLockWatcher, kernelVars, handlerVars
  <1>4. CASE ListenerLockSandbox
    BY <1>4 DEF ListenerLockSandbox, kernelVars, handlerVars
  <1>5. CASE ListenerRecord
    <2>1. sandboxLock = Listener /\ Listener \notin Handlers
      BY <1>5, MarkerAssumption DEF ListenerRecord, Locks
    <2>2. \A h \in Handlers : pc[h] # "register"
      BY <2>1 DEF Locks
    <2> QED
      BY <1>5, <2>2 DEF ListenerRecord, kernelVars, handlerVars
  <1>6. CASE ListenerNotify
    BY <1>6, NotifyReaches
  <1> QED
    BY <1>1, <1>2, <1>3, <1>4, <1>5, <1>6 DEF ListenerStep

\* All of it is inductive.
LEMMA StepNoMissed ==
    ASSUME SameAddr = FALSE
    PROVE  Inv /\ NoMissedInv /\ [Next]_vars => NoMissedInv'
  <1> SUFFICES ASSUME Inv, NoMissedInv, [Next]_vars PROVE NoMissedInv'
    OBVIOUS
  <1>1. Distinct'
    BY StepDistinct DEF Inv, NoMissedInv
  <1> DEFINE Goal == Registered' /\ StillUnknown' /\ BlockEvent' /\ OnlyTheNew'
  <1>2. ASSUME UNCHANGED <<pc, addr, chan, watchers, pciMap, lpc, event>>
        PROVE  Goal
    BY <1>2 DEF NoMissedInv, Registered, StillUnknown, BlockEvent, OnlyTheNew,
                Known
  <1>3. Kernel \/ OtherLock \/ OtherUnlock \/ UNCHANGED vars
            => UNCHANGED <<pc, addr, chan, watchers, pciMap, lpc, event>>
    BY DEF Kernel, Plug, Unplug, OtherLock, OtherUnlock, handlerVars, vars
  <1>4. ASSUME NEW h \in Handlers, NEW a \in Addrs, Call(h, a) PROVE Goal
    BY <1>4 DEF Call, kernelVars, Inv, TypeOK, NoMissedInv, Registered,
                StillUnknown, BlockEvent, OnlyTheNew, Known
  <1>5. ASSUME NEW h \in Handlers, HandlerStep(h) PROVE Goal
    BY <1>5, HandlerKeeps
  <1>6. ASSUME ListenerStep PROVE Goal
    BY <1>6, ListenerKeeps
  <1> QED
    BY <1>1, <1>2, <1>3, <1>4, <1>5, <1>6 DEF Next, NoMissedInv

\* A request that waits for a device misses no event of the listener, as
\* long as no other request waits for the same address: what get_device_name
\* says of registering "inside the lock".
THEOREM NothingMissed ==
    ASSUME SameAddr = FALSE
    PROVE  Spec => []NoMissedEvent
  <1>1. Init => NoMissedInv
    BY DEF Init, NoMissedInv, Distinct, Registered, StillUnknown, BlockEvent,
           OnlyTheNew, Waiting
  <1>2. NoMissedInv => NoMissedEvent
    BY DEF NoMissedInv, OnlyTheNew, NoMissedEvent
  <1>3. Inv /\ NoMissedInv /\ [Next]_vars => NoMissedInv'
    BY StepNoMissed
  <1> QED
    BY Invariance, <1>1, <1>2, <1>3, PTL DEF Spec

\* A call is sent one name at most: a sender leaves the map with its first
\* message (watch_uevents).
THEOREM SentOnce == Spec => NotifiedOnce
  <1> DEFINE Once == \A h \in Handlers : chan[h] # NoName =>
                 chan'[h] = chan[h] \/ (pc[h] = "idle" /\ chan'[h] = NoName)
  <1>1. ASSUME Inv, [Next]_vars PROVE Once
    <2> USE DEF Inv, TypeOK
    <2>1. CASE ListenerNotify
      <3>1. ASSUME NEW h \in Handlers, chan[h] # NoName
            PROVE  \A a \in Notified : watchers[a] # h
        <4>1. NoOne \notin Handlers /\ Notified \subseteq Addrs
          BY MarkerAssumption DEF Notified
        <4>2. \A a \in Addrs : watchers[a] = h => chan[h] = NoName
          BY <1>1, <3>1, <4>1 DEF Unanswered
        <4> QED
          BY <3>1, <4>1, <4>2
      <3> QED
        BY <2>1, <3>1 DEF ListenerNotify
    <2>2. ASSUME NEW h \in Handlers, NEW a \in Addrs, Call(h, a) PROVE Once
      BY <2>2 DEF Call
    <2>3. ASSUME NEW h \in Handlers, HandlerStep(h) PROVE Once
      BY <2>3 DEF HandlerStep, LockWatcher, LockSandbox, LookupHit,
                  LookupMiss, Register, RecvName, RecvFails, GiveUp, Return
    <2>4. CASE Kernel \/ OtherLock \/ OtherUnlock \/ UNCHANGED vars
      BY <2>4 DEF Kernel, Plug, Unplug, OtherLock, OtherUnlock, vars
    <2>5. CASE ListenerStep
      BY <2>1, <2>5
      DEF ListenerStep, ListenerError, ListenerRecv, ListenerLockWatcher,
          ListenerLockSandbox, ListenerRecord
    <2> QED
      BY <1>1, <2>2, <2>3, <2>4, <2>5 DEF Next
  <1>2. Inv /\ [Next]_vars => [Once]_vars
    BY <1>1
  <1> QED
    BY Invariance, <1>2, PTL DEF Spec, NotifiedOnce

=============================================================================
