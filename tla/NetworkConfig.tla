---------------------------- MODULE NetworkConfig ----------------------------
(***************************************************************************)
(* Interfaces and routes of the guest: the requests UpdateInterface,       *)
(* UpdateRoutes, ListInterfaces and ListRoutes (src/src/grpc.rs) and the   *)
(* rtnetlink handle they share (src/src/netlink.rs).                       *)
(*                                                                         *)
(* A request holds the sandbox mutex from its first to its last netlink    *)
(* message, so there is one at a time; between two messages the kernel and *)
(* other processes of the guest may change the network, and a message that *)
(* is not from the kernel may come in on the handle's socket.              *)
(*                                                                         *)
(* The kernel answers a message before sendmsg() returns.  A dump is read  *)
(* up to its end and what carries another sequence number is skipped; any  *)
(* other request ("talk") takes the next message as its answer, whatever   *)
(* its sequence number, and gives up at a message that is not the kernel's.*)
(* Links are named by their hardware address, which is also their index.   *)
(***************************************************************************)
EXTENDS Naturals, Sequences, SequencesExt, FiniteSets

CONSTANTS
    Links,         \* network links
    Names,         \* names a link may have
    LoNames,       \* those that contain "lo"
    Addrs,         \* IP addresses, and gateways
    Dests,         \* destinations of routes
    Subnet,        \* address -> destination of its subnet
    IfaceRequests, \* UpdateInterface: [link, addrs, name]
    RouteRequests, \* UpdateRoutes: sequences of [dest, gw, dev]
    InitName, InitAddrs,
    MaxCalls,      \* bound on the requests of a behaviour
    MaxStrays,     \* bound on the messages that are not the kernel's
    MaxMeddles,    \* bound on the changes by others
    NoGw, NoLink

Gateways == Addrs \cup {NoGw}

ASSUME NetworkAssumption ==
    /\ IsFiniteSet(Links)
    /\ NoLink \notin Links /\ NoGw \notin Addrs /\ LoNames \subseteq Names
    /\ Subnet \in [Addrs -> Dests]
    /\ InitName \in [Links -> Names] /\ InitAddrs \in [Links -> Seq(Addrs)]
    /\ \A k, l \in Links : InitName[k] = InitName[l] => k = l
    /\ IfaceRequests \subseteq [link : Links \cup {NoLink}, addrs : Seq(Addrs),
                                name : Names]
    /\ IfaceRequests # {}
    /\ RouteRequests \subseteq Seq([dest : Dests, gw : Gateways, dev : Names])
    /\ RouteRequests # {}
    /\ {MaxCalls, MaxStrays, MaxMeddles} \subseteq Nat

VARIABLES
    name, up,     \* kernel: link -> its name; is it up?
    addrs,        \* kernel: link -> its addresses, in the order of adding
    routes,       \* kernel: the main table
    queue,        \* socket of Sandbox.rtnl: messages not yet received
    pc,           \* control of the request that holds the sandbox mutex
    op,           \* which request it is, or was
    iface, wanted,\* its arguments
    snap,         \* addresses or routes of a dump still to delete or name
    todo,         \* addresses or routes still to add
    outcome,      \* how the last request ended
    strayed,      \* has it met a message that is not the kernel's?
    touched,      \* has someone else changed the network meanwhile?
    fits,         \* could the kernel grant it as the network was?
    calls, strays, meddles

kernelVars == <<name, up, addrs, routes>>
callVars == <<op, iface, wanted>>
ghostVars == <<strayed, touched, fits, calls, strays, meddles>>
vars == <<kernelVars, queue, pc, callVars, snap, todo, outcome, ghostVars>>

Routes == [dest : Dests, gw : Gateways, dev : Links, kernel : BOOLEAN]

\* The elements of s at the positions of I, in their order.
Pick(s, I) ==
    [k \in 1..Cardinality(I) |->
        s[CHOOSE i \in I : Cardinality({j \in I : j <= i}) = k]]

\* The route to its subnet that comes with an address.
Connected(l, as) ==
    {[dest |-> Subnet[a], gw |-> NoGw, dev |-> l, kernel |-> TRUE] :
        a \in ToSet(as)}

DropSubnet(l, d) ==
    /\ addrs' = [addrs EXCEPT ![l] = Pick(@, {i \in DOMAIN @ : Subnet[@[i]] # d})]
    /\ routes' = {r \in routes : ~(r.kernel /\ r.dev = l /\ r.dest = d)}
    /\ UNCHANGED up

BringUp(l) ==
    /\ up' = [up EXCEPT ![l] = TRUE]
    /\ routes' = routes \cup Connected(l, addrs[l])
    /\ UNCHANGED addrs

Init ==
    /\ name = InitName
    /\ up \in [Links -> BOOLEAN]
    /\ addrs = InitAddrs
    /\ routes = UNION {Connected(l, InitAddrs[l]) : l \in {k \in Links : up[k]}}
    /\ queue = <<>>
    /\ pc = "idle"
    /\ op = "none"
    /\ iface = CHOOSE i \in IfaceRequests : TRUE
    /\ wanted = CHOOSE w \in RouteRequests : TRUE
    /\ snap = <<>> /\ todo = <<>>
    /\ outcome = "none"
    /\ strayed = FALSE /\ touched = FALSE /\ fits = FALSE
    /\ calls = 0 /\ strays = 0 /\ meddles = 0

-----------------------------------------------------------------------------
(* Others.                                                                 *)

Stray ==
    /\ strays < MaxStrays
    /\ strays' = strays + 1
    /\ queue' = Append(queue, "foreign")
    /\ strayed' = TRUE
    /\ UNCHANGED <<kernelVars, pc, callVars, snap, todo, outcome, touched,
                   fits, calls, meddles>>

\* Someone drops the addresses of a subnet or a route, or brings a link up.
Meddle ==
    /\ meddles < MaxMeddles
    /\ meddles' = meddles + 1
    /\ touched' = TRUE
    /\ \/ \E l \in Links : \E a \in ToSet(addrs[l]) : DropSubnet(l, Subnet[a])
       \/ \E r \in routes : routes' = routes \ {r} /\ UNCHANGED <<addrs, up>>
       \/ \E l \in Links : ~up[l] /\ BringUp(l)
    /\ UNCHANGED <<name, queue, pc, callVars, snap, todo, outcome, strayed,
                   fits, calls, strays>>

-----------------------------------------------------------------------------
(* The handle, and how a request ends.                                     *)

Finish(result) ==
    /\ pc' = "idle"
    /\ outcome' = result
    /\ snap' = <<>> /\ todo' = <<>>

GoOn(at, ns, nt) ==
    /\ pc' = at
    /\ snap' = ns /\ todo' = nt
    /\ UNCHANGED outcome

\* UpdateRoutes replies its listing of the old routes when update_routes fails.
Failure == IF op = "UpdateRoutes" /\ pc # "dumpList" THEN "old" ELSE "error"

Taken(own) == Head(Append(queue, own))
Left(own) == Tail(Append(queue, own))
Refused(own) == Taken(own) \in {"err", "foreign"}

\* Mutation: an error of the kernel does not end the request.
TalkGoesOn(own, Then) ==
    /\ queue' = Left(own)
    /\ IF Taken(own) = "foreign" THEN Finish(Failure) ELSE Then

\* rtnl_talk: the request ends with the error, or goes on.
Talk(own, Then) ==
    /\ queue' = Left(own)
    /\ IF Refused(own) THEN Finish(Failure) ELSE Then

\* The data of a dump and its end.
DumpAnswer == <<"data", "done">>

\* The messages left after the first one of the given kinds.
LeftAfter(msgs, kinds) ==
    LET hits == {i \in 1..Len(msgs) : msgs[i] \in kinds}
        first == CHOOSE i \in hits : \A j \in hits : i <= j
    IN  SubSeq(msgs, first + 1, Len(msgs))

\* Mutation: the dump is over with the first end of a dump it reads, be it
\* of an earlier one.
DumpIgnoresSeq(Then) ==
    LET all == queue \o DumpAnswer
    IN  IF "foreign" \in ToSet(queue)
        THEN queue' = LeftAfter(all, {"foreign"}) /\ Finish(Failure)
        ELSE queue' = LeftAfter(all, {"done"}) /\ Then

\* recv_dump_message: everything up to its own end is read, or up to the
\* first message that is not the kernel's, with which the request ends.
Dump(Then) ==
    IF "foreign" \in ToSet(queue)
    THEN queue' = LeftAfter(queue \o DumpAnswer, {"foreign"}) /\ Finish(Failure)
    ELSE queue' = <<>> /\ Then

-----------------------------------------------------------------------------
(* The requests.                                                           *)

\* The routes of a request without a gateway, and the routes that no request
\* deletes.
OnLink(w) == {w[i] : i \in {j \in DOMAIN w : w[j].gw = NoGw}}
Staying == {r \in routes : r.kernel \/ name[r.dev] \in LoNames}

FitsInterface(i) ==
    /\ i.link \in Links
    /\ \A l \in Links : name[l] = i.name => l = i.link
    /\ IsInjective(i.addrs)

FitsRoutes(w) ==
    /\ \A i, j \in DOMAIN w : w[i].dest = w[j].dest => i = j
    /\ \A i \in DOMAIN w :
          \E l \in Links :
             /\ name[l] = w[i].dev /\ up[l]
             /\ \A r \in Staying : r.dest # w[i].dest
             /\ \/ w[i].gw = NoGw
                \/ \E r \in Staying : /\ r.dest = Subnet[w[i].gw]
                                      /\ r.gw = NoGw /\ r.dev = l
                \/ \E o \in OnLink(w) : /\ o.dest = Subnet[w[i].gw]
                                        /\ o.dev = w[i].dev

\* The prologue the four handlers share: the sandbox mutex, and the handle.
Begin(o, at, fit) ==
    /\ pc = "idle"
    /\ calls < MaxCalls
    /\ calls' = calls + 1
    /\ op' = o
    /\ strayed' = ("foreign" \in ToSet(queue))
    /\ touched' = FALSE
    /\ fits' = fit
    /\ outcome' = "none"
    /\ pc' = at
    /\ UNCHANGED <<kernelVars, queue, snap, todo, strays, meddles>>

UpdateInterface(i) ==
    /\ Begin("UpdateInterface", "dumpLinks", FitsInterface(i))
    /\ iface' = i
    /\ UNCHANGED wanted
UpdateRoutes(w) ==
    /\ Begin("UpdateRoutes", "dumpList", FitsRoutes(w))
    /\ wanted' = w
    /\ UNCHANGED iface
ListInterfaces ==
    Begin("ListInterfaces", "dumpLinks", TRUE) /\ UNCHANGED <<iface, wanted>>
ListRoutes ==
    Begin("ListRoutes", "dumpList", TRUE) /\ UNCHANGED <<iface, wanted>>

Internal == UNCHANGED <<callVars, ghostVars>>

-----------------------------------------------------------------------------
(* update_interface and list_interfaces.                                   *)

\* find_link_by_hwaddr: the link, and whether it is up; ENODEV.
FindLink ==
    /\ pc = "dumpLinks" /\ op = "UpdateInterface"
    /\ IF iface.link \in Links
       THEN Dump(GoOn(IF up[iface.link] THEN "down" ELSE "dumpAddrs",
                      <<>>, <<>>))
       ELSE Dump(Finish("error"))
    /\ UNCHANGED kernelVars /\ Internal

\* set_link_status(false); the kernel drops the routes of a link that is down.
SetDown ==
    /\ pc = "down"
    /\ up' = [up EXCEPT ![iface.link] = FALSE]
    /\ routes' = {r \in routes : r.dev # iface.link}
    /\ Talk("ack", GoOn("dumpAddrs", <<>>, <<>>))
    /\ UNCHANGED <<name, addrs>> /\ Internal

\* get_link_addresses leaves out the secondary addresses.
Primaries(as) ==
    Pick(as, {i \in DOMAIN as : \A j \in 1..(i - 1) : Subnet[as[j]] # Subnet[as[i]]})

GetLinkAddresses ==
    /\ pc = "dumpAddrs"
    /\ Dump(GoOn("addrs", Primaries(addrs[iface.link]), iface.addrs))
    /\ UNCHANGED kernelVars /\ Internal

\* delete_one_addr: with a primary address go the secondary ones of its
\* subnet; EADDRNOTAVAIL.
DeleteAddr ==
    /\ pc = "addrs" /\ snap # <<>>
    /\ LET l == iface.link
           d == Subnet[Head(snap)]
           there == \E a \in ToSet(addrs[l]) : Subnet[a] = d
       IN  /\ Talk(IF there THEN "ack" ELSE "err",
                   GoOn("addrs", Tail(snap), todo))
           /\ DropSubnet(l, d)
    /\ UNCHANGED name /\ Internal

\* add_one_address; EEXIST.
AddAddr ==
    /\ pc = "addrs" /\ snap = <<>> /\ todo # <<>>
    /\ LET l == iface.link
           a == Head(todo)
           new == a \notin ToSet(addrs[l])
       IN  /\ Talk(IF new THEN "ack" ELSE "err", GoOn("addrs", <<>>, Tail(todo)))
           /\ addrs' = IF new THEN [addrs EXCEPT ![l] = Append(@, a)] ELSE addrs
           /\ routes' = IF new /\ up[l] THEN routes \cup Connected(l, <<a>>)
                                        ELSE routes
    /\ UNCHANGED <<name, up>> /\ Internal

\* Mutation: the kernel's error is ignored, as that of the next message is.
RenameUnchecked ==
    /\ pc = "addrs" /\ snap = <<>> /\ todo = <<>>
    /\ LET l == iface.link
           free == \A k \in Links : name[k] = iface.name => k = l
           able == ~up[l] /\ free
       IN  /\ TalkGoesOn(IF able THEN "ack" ELSE "err", GoOn("up", <<>>, <<>>))
           /\ name' = IF able THEN [name EXCEPT ![l] = iface.name] ELSE name
    /\ UNCHANGED <<up, addrs, routes>> /\ Internal

\* The name and the MTU in one message; EBUSY if the link is up, EEXIST if
\* another link has the name.
Rename ==
    /\ pc = "addrs" /\ snap = <<>> /\ todo = <<>>
    /\ LET l == iface.link
           free == \A k \in Links : name[k] = iface.name => k = l
           able == ~up[l] /\ free
       IN  /\ Talk(IF able THEN "ack" ELSE "err", GoOn("up", <<>>, <<>>))
           /\ name' = IF able THEN [name EXCEPT ![l] = iface.name] ELSE name
    /\ UNCHANGED <<up, addrs, routes>> /\ Internal

\* set_link_status(true), whose result is ignored: when the kernel refuses,
\* the link stays down and the request succeeds all the same.
SetUp ==
    /\ pc = "up"
    /\ \/ BringUp(iface.link) /\ queue' = Left("ack")
       \/ UNCHANGED <<up, addrs, routes>> /\ queue' = Left("err")
    /\ Finish("ok")
    /\ UNCHANGED name /\ Internal

\* list_interfaces: a dump of the links and one of the addresses.
ListLinks ==
    /\ pc = "dumpLinks" /\ op = "ListInterfaces"
    /\ Dump(GoOn("dumpAllAddrs", <<>>, <<>>))
    /\ UNCHANGED kernelVars /\ Internal

ListAddrs ==
    /\ pc = "dumpAllAddrs"
    /\ Dump(Finish("ok"))
    /\ UNCHANGED kernelVars /\ Internal

-----------------------------------------------------------------------------
(* list_routes, which UpdateRoutes begins with, and update_routes.         *)

ListTable ==
    /\ pc = "dumpList"
    /\ Dump(GoOn("names", SetToSeq(routes), <<>>))
    /\ UNCHANGED kernelVars /\ Internal

\* get_name_by_index for the listing; a failure is the name "unknown".
NameListed ==
    /\ pc = "names" /\ snap # <<>>
    /\ queue' = Left("link")
    /\ GoOn("names", Tail(snap), <<>>)
    /\ UNCHANGED kernelVars /\ Internal

ReplyRoutes ==
    /\ pc = "names" /\ snap = <<>> /\ op = "ListRoutes"
    /\ Finish("ok")
    /\ UNCHANGED <<kernelVars, queue>> /\ Internal

\* Mutation: the routes are added in the order of the request.
RequestOrder(w) == w

\* The order of adding: routes without a gateway first.
AddOrder(w) ==
    Pick(w, {i \in DOMAIN w : w[i].gw = NoGw}) \o Pick(w, {i \in DOMAIN w : w[i].gw # NoGw})

GetAllRoutes ==
    /\ pc = "names" /\ snap = <<>> /\ op = "UpdateRoutes"
    /\ Dump(GoOn("routes", SetToSeq(routes), AddOrder(wanted)))
    /\ UNCHANGED kernelVars /\ Internal

\* delete_all_routes passes over the routes of the kernel, and those of a
\* device whose name contains "lo".
NameRoute ==
    /\ pc = "routes" /\ snap # <<>>
    /\ LET r == Head(snap)
           keep == name[r.dev] \in LoNames \/ r.kernel
       IN  Talk("link", IF keep THEN GoOn("routes", Tail(snap), todo)
                                ELSE GoOn("delete", snap, todo))
    /\ UNCHANGED kernelVars /\ Internal

\* delete_one_route; ESRCH.
DeleteRoute ==
    /\ pc = "delete"
    /\ LET r == Head(snap)
       IN  /\ Talk(IF r \in routes THEN "ack" ELSE "err",
                   GoOn("routes", Tail(snap), todo))
           /\ routes' = routes \ {r}
    /\ UNCHANGED <<name, up, addrs>> /\ Internal

\* The kernel grants a route on a link that is up, to a destination without
\* one, through a gateway that is on the link.
Grants(r) ==
    /\ up[r.dev]
    /\ \A q \in routes : q.dest # r.dest
    /\ r.gw # NoGw => \E q \in routes : /\ q.dest = Subnet[r.gw] /\ q.gw = NoGw
                                        /\ q.dev = r.dev

AddFor(r) ==
    /\ Talk(IF Grants(r) THEN "ack" ELSE "err", GoOn("routes", <<>>, Tail(todo)))
    /\ routes' = IF Grants(r) THEN routes \cup {r} ELSE routes

\* find_link_by_name.
FindLinkByName(n) == {l \in Links : name[l] = n}

RouteOn(w, l) == [dest |-> w.dest, gw |-> w.gw, dev |-> l, kernel |-> FALSE]

\* RtRoute::from looks the device up on a handle of its own and panics when
\* it is not there, with the sandbox mutex held: no request gets it again.
\* Otherwise add_one_route; ENETDOWN, EEXIST, ENETUNREACH.
AddRoute ==
    /\ pc = "routes" /\ snap = <<>> /\ todo # <<>>
    /\ \/ /\ FindLinkByName(Head(todo).dev) = {}
          /\ pc' = "poisoned"
          /\ UNCHANGED <<queue, snap, todo, outcome, routes>>
       \/ \E l \in FindLinkByName(Head(todo).dev) : AddFor(RouteOn(Head(todo), l))
    /\ UNCHANGED <<name, up, addrs>> /\ Internal

ReplyUpdated ==
    /\ pc = "routes" /\ snap = <<>> /\ todo = <<>>
    /\ Finish("ok")
    /\ UNCHANGED <<kernelVars, queue>> /\ Internal

-----------------------------------------------------------------------------
Next ==
    \/ Stray \/ Meddle
    \/ \E i \in IfaceRequests : UpdateInterface(i)
    \/ \E w \in RouteRequests : UpdateRoutes(w)
    \/ ListInterfaces \/ ListRoutes
    \/ FindLink \/ SetDown \/ GetLinkAddresses
    \/ DeleteAddr \/ AddAddr \/ Rename \/ SetUp
    \/ ListLinks \/ ListAddrs
    \/ ListTable \/ NameListed \/ ReplyRoutes
    \/ GetAllRoutes \/ NameRoute \/ DeleteRoute \/ AddRoute \/ ReplyUpdated

Spec == Init /\ [][Next]_vars

-----------------------------------------------------------------------------
(* Properties.                                                             *)

\* Every variable has its type: among others, every route of the table goes
\* out on a link and the names of the links differ.
TypeOK ==
    /\ name \in [Links -> Names] /\ IsInjective(name)
    /\ up \in [Links -> BOOLEAN]
    /\ addrs \in [Links -> Seq(Addrs)]
    /\ routes \subseteq Routes /\ IsFiniteSet(routes)
    /\ queue \in Seq({"foreign", "data", "done", "ack", "err", "link"})
    /\ pc \in {"idle", "poisoned", "dumpLinks", "down", "dumpAddrs", "addrs",
               "up", "dumpAllAddrs", "dumpList", "names", "routes", "delete"}
    /\ op \in {"none", "UpdateInterface", "UpdateRoutes", "ListInterfaces",
               "ListRoutes"}
    /\ iface \in IfaceRequests /\ wanted \in RouteRequests
    /\ snap \in Seq(Routes \cup Addrs)
    /\ todo \in Seq([dest : Dests, gw : Gateways, dev : Names] \cup Addrs)
    /\ outcome \in {"none", "ok", "old", "error"}
    /\ {strayed, touched, fits} \subseteq BOOLEAN
    /\ calls \in 0..MaxCalls /\ strays \in 0..MaxStrays /\ meddles \in 0..MaxMeddles

\* Before a message that changes something, or whose answer decides whether
\* a route is deleted, no answer to an earlier message is left unread in the
\* socket: rtnl_talk, which takes the next answer whatever its sequence
\* number, reads its own.  A request that gives up at a message of another
\* process leaves its answer behind; the dump the next request begins with
\* reads it away.  The listing of the routes, which goes on after a failed
\* rtnl_talk, is the exception: only the names it replies can be wrong.
OwnAnswers ==
    pc \in {"down", "addrs", "up", "routes", "delete"} =>
        ToSet(queue) \subseteq {"foreign"}

\* UpdateInterface that succeeds has given the link exactly the addresses of
\* the request, in their order, and its name, though it never deletes a
\* secondary address itself; unless someone else changed the network
\* meanwhile.  It does not say that the link is up: the request ignores the
\* answer to the bring-up, and succeeds with the link down when the kernel
\* refuses it.
InterfaceReplaced ==
    pc = "idle" /\ op = "UpdateInterface" /\ outcome = "ok" /\ ~touched =>
        /\ addrs[iface.link] = iface.addrs
        /\ name[iface.link] = iface.name

\* UpdateRoutes that replies the routes of the request has added each of
\* them, and nothing else is left but routes of the kernel and of devices it
\* takes for the loopback; unless someone else changed the network meanwhile.
RoutesReplaced ==
    pc = "idle" /\ op = "UpdateRoutes" /\ outcome = "ok" /\ ~touched =>
        LET Asked == {RouteOn(w, l) : w \in ToSet(wanted), l \in Links}
        IN  /\ \A w \in ToSet(wanted) : \E l \in FindLinkByName(w.dev) :
                   RouteOn(w, l) \in routes
            /\ routes \subseteq Asked \cup Staying

\* A request the kernel could grant, as the network was when it began, is
\* granted: no step of it (a bring-down, a deletion, the order of adding) gets
\* in the way of a later one whose answer decides the reply.  This supposes
\* that nobody else changes the network and that no other process writes to the
\* socket meanwhile.
ConsistentSucceeds ==
    fits /\ ~touched /\ ~strayed =>
        /\ pc # "poisoned"
        /\ pc = "idle" => outcome = "ok"
=============================================================================
