------------------------------ MODULE IpcRight ------------------------------
(***************************************************************************)
(* ipc/ipc_right.c, with the parts of ipc_object.c, ipc_port.c,            *)
(* ipc_notify.c, ipc_space.c and mach_port.c it works with: the rights     *)
(* that spaces hold for ports, and the counts that ports keep of them.     *)
(*                                                                         *)
(* A space maps names to entries.  The operations of a space exclude each  *)
(* other by its write lock, and each looks at or changes a port in one     *)
(* section under the lock of the port, so that an operation is one step.   *)
(* A port can die under an operation of another space at any time before   *)
(* that section: the entries of a dead port are only converted to dead     *)
(* names when ipc_right_check comes across them.  What ipc_port_destroy    *)
(* does after it unlocks the dead port is a step per section.              *)
(*                                                                         *)
(* A right that is in no entry is naked: it is in the body of a message or *)
(* in the hands of the kernel.  Notifications are messages; of a message   *)
(* in the queue of a port only the right that it was sent with counts.     *)
(* Msg-accepted requests and port sets are left out, and so are the        *)
(* destinations of receive rights in transit.                              *)
(***************************************************************************)
EXTENDS Integers, FiniteSets, FiniteSetsExt

CONSTANTS
    Space, Name, Port,
    Null,               \* MACH_PORT_NULL, IP_NULL
    UREFS_MAX,          \* MACH_PORT_UREFS_MAX
    Slots,              \* the slots of a table of dead-name requests
    MaxLoose,           \* bound: naked and queued rights
    MaxSrights,         \* bound: ip_srights
    MaxEntries,         \* bound: entries in use
    MaxMade,            \* bound, per port: send rights made since the receiver changed
    Requests            \* per port, the kinds of requests that are registered

ASSUME IpcRightAssumption ==
    /\ IsFiniteSet(Space) /\ IsFiniteSet(Name) /\ IsFiniteSet(Port)
    /\ Null \notin Port /\ Null \notin Name /\ Null \notin Space \X Name
    /\ UREFS_MAX \in Nat /\ UREFS_MAX > 2
    /\ Slots \in Nat /\ MaxLoose \in Nat /\ MaxSrights \in Nat /\ MaxEntries \in Nat
    /\ MaxMade \in [Port -> Nat]
    /\ Requests \in [Port -> SUBSET {"dead name", "no senders", "port destroyed"}]

VARIABLES
    is_active,          \* of the spaces
    entry,              \* the entry of a name in a space
    is_reverse_map,     \* per space and port, the name of its pure send right
    port

vars == <<is_active, entry, is_reverse_map, port>>

RIGHTS == {"SEND", "RECEIVE", "SEND_ONCE", "DEAD_NAME"}
Slot == 1 .. Slots
Entries == Space \X Name

NoEntry == [type |-> {}, object |-> Null, urefs |-> 0, request |-> 0]
NoRequest == [name |-> Null, soright |-> Null]

(* The fields of a port, and how many of its rights are naked and in the   *)
(* messages of its queue.  Memory of references 0 is free.                 *)
FreePort ==
    [active |-> FALSE, references |-> 0, receiver |-> Null,
     mscount |-> 0, srights |-> 0, sorights |-> 0,
     nsrequest |-> Null, pdrequest |-> Null, dnrequests |-> [i \in Slot |-> NoRequest],
     send |-> 0, sonce |-> 0, receive |-> FALSE, qsend |-> 0, qsonce |-> 0,
     reap |-> "done"]

(* type is a set of RIGHTS, as in the bits of ie_bits.                     *)
TypeOK ==
    /\ is_active \in [Space -> BOOLEAN]
    /\ entry \in [Entries ->
          [type : SUBSET RIGHTS, object : Port \cup {Null},
           urefs : 0 .. UREFS_MAX, request : 0 .. Slots]]
    /\ is_reverse_map \in [Space -> [Port -> Name \cup {Null}]]
    /\ port \in [Port ->
          [active : BOOLEAN, references : Nat, receiver : Entries \cup {Null},
           mscount : Nat, srights : Nat, sorights : Nat,
           nsrequest : Port \cup {Null}, pdrequest : Port \cup {Null},
           dnrequests : [Slot -> [name : Name \cup {Null}, soright : Port \cup {Null}]],
           send : Nat, sonce : Nat, receive : BOOLEAN,
           qsend : Nat, qsonce : Nat,
           reap : {"done", "notify", "dnrequests"}]]

Init ==
    /\ is_active = [s \in Space |-> TRUE]
    /\ entry = [e \in Entries |-> NoEntry]
    /\ is_reverse_map = [s \in Space |-> [p \in Port |-> Null]]
    /\ port = [p \in Port |-> FreePort]

-----------------------------------------------------------------------------
(* Operations on ports: each takes the ports and returns them changed.     *)

ip_reference(ports, p) == [ports EXCEPT ![p].references = @ + 1]

ip_release(ports, p) ==
    IF ports[p].references = 1 THEN [ports EXCEPT ![p] = FreePort]
    ELSE [ports EXCEPT ![p].references = @ - 1]

(* A notification is a message that carries the send-once right it is sent *)
(* with.  It is queued whatever the limit of the queue, or, if the port is *)
(* dead, destroyed: only the reference of the right is left to drop.       *)
(* ikm_alloc is taken to find memory; where it does not, the notification  *)
(* is dropped and its right released.                                      *)
ipc_notify(ports, soright) ==
    IF soright = Null THEN ports
    ELSE IF ports[soright].active THEN [ports EXCEPT ![soright].qsonce = @ + 1]
    ELSE ip_release(ports, soright)

(* One send right of p, but not a reference, goes; a faulty form forgets   *)
(* the notification.                                                       *)
DropSend_silent(ports, p) == [ports EXCEPT ![p].srights = @ - 1]

DropSend(ports, p) ==
    LET less == [ports EXCEPT ![p].srights = @ - 1]
    IN  IF less[p].srights = 0
        THEN ipc_notify([less EXCEPT ![p].nsrequest = Null], less[p].nsrequest)
        ELSE less

ipc_port_dncancel(ports, p, request) ==
    IF request = 0 THEN ports ELSE [ports EXCEPT ![p].dnrequests[request] = NoRequest]

dnrequest(ports, p, request) ==
    IF request = 0 THEN Null ELSE ports[p].dnrequests[request].soright

(* A dead-name request is answered, since the right of the entry goes or   *)
(* the port has died; a faulty form forgets the notification.              *)
NotifyRequest_silent(ports, p, request) == ipc_port_dncancel(ports, p, request)

NotifyRequest(ports, p, request) ==
    ipc_notify(ipc_port_dncancel(ports, p, request), dnrequest(ports, p, request))

(* ip_receiver is left alone: the callers see to it.                       *)
ipc_port_clear_receiver(ports, p) == [ports EXCEPT ![p].mscount = 0]

(* The port has no receiver any more, or not yet another one; a faulty     *)
(* form forgets to say so.                                                 *)
Limbo_stale(ports, p) == ports

Limbo(ports, p) == [ports EXCEPT ![p].receiver = Null]

(* Up to the point where the dead port is unlocked.  The reference of the  *)
(* receive right is the destroyer's from now on, and the time of death     *)
(* overwrites ip_receiver.  The counts of rights are cleared: they are     *)
(* read again only by the assertion of ipc_port_release_sonce (line 1124), *)
(* which a dead port meets only where ipc_notify finds no memory.          *)
Kill(ports, p) ==
    [ports EXCEPT ![p].active = FALSE, ![p].receive = FALSE, ![p].reap = "notify",
                  ![p].receiver = Null, ![p].srights = 0, ![p].sorights = 0]

ipc_port_release_sonce(ports, p) ==
    ip_release([ports EXCEPT ![p].sorights = @ - 1], p)

(* A port with a port-destroyed request goes to the port of the request in *)
(* place of dying, unless that is dead or waits, in transit, in the queue  *)
(* of p itself, which ipc_port_check_circularity finds out.                *)
Circular(p) ==
    CASE port[p].pdrequest = Null -> {FALSE}
      [] port[p].pdrequest = p    -> {TRUE}
      [] OTHER -> IF port[port[p].pdrequest].receive THEN BOOLEAN ELSE {FALSE}

(* A faulty form drops the right of the request when the port dies.        *)
ipc_port_destroy_leaky(ports, p, circular) ==
    IF ports[p].pdrequest # Null /\ ports[ports[p].pdrequest].active /\ ~circular
    THEN ipc_notify([Limbo(ports, p) EXCEPT ![p].pdrequest = Null, ![p].receive = TRUE],
                    ports[p].pdrequest)
    ELSE Kill([ports EXCEPT ![p].pdrequest = Null], p)

ipc_port_destroy(ports, p, circular) ==
    LET backup == ports[p].pdrequest
        limbo == Limbo([ports EXCEPT ![p].pdrequest = Null], p)
    IN  CASE backup = Null             -> Kill(ports, p)
          [] backup # Null /\ circular -> Kill(ipc_port_release_sonce(limbo, backup), p)
          [] OTHER ->
               IF ports[backup].active
               THEN ipc_notify([limbo EXCEPT ![p].receive = TRUE], backup)
               ELSE Kill(ip_release(limbo, backup), p)

-----------------------------------------------------------------------------
(* Entries.                                                                *)

DeadPort(e) == e.type \cap {"SEND", "SEND_ONCE"} # {} /\ ~port[e.object].active

(* An entry whose port has died becomes a dead name.  If it had a request, *)
(* the notification that ipc_port_destroy sends holds a user reference.    *)
DeadName(e) ==
    [NoEntry EXCEPT !.type = {"DEAD_NAME"},
                    !.urefs = e.urefs + IF e.request # 0 THEN 1 ELSE 0]

(* ipc_right_check: what an operation sees and leaves at x if it checks    *)
(* for a dead port first: the entry, the ports and the reverse map.  A     *)
(* faulty form keeps the reference of the entry.                           *)
Seen(x) == IF DeadPort(entry[x]) THEN DeadName(entry[x]) ELSE entry[x]

CheckedPorts_leaky(x) == port

CheckedPorts(x) ==
    IF DeadPort(entry[x]) THEN ip_release(port, entry[x].object) ELSE port

CheckedMap(x) ==
    IF DeadPort(entry[x]) /\ "SEND" \in entry[x].type
    THEN [is_reverse_map EXCEPT ![x[1]][entry[x].object] = Null]
    ELSE is_reverse_map

(* The entry and the ports when k of the user references to a live send    *)
(* right go, and the right with the last one.  A faulty form takes each    *)
(* user reference for a right.                                             *)
LessUrefs(e, k) ==
    CASE e.urefs > k -> [e EXCEPT !.urefs = @ - k]
      [] e.urefs = k /\ "RECEIVE" \in e.type -> [e EXCEPT !.type = {"RECEIVE"}, !.urefs = 0]
      [] OTHER -> NoEntry

LessSend_each(ports, e, k) ==
    CASE e.urefs > k \/ (e.urefs = k /\ "RECEIVE" \in e.type) -> DropSend(ports, e.object)
      [] OTHER -> ip_release(NotifyRequest(DropSend(ports, e.object), e.object, e.request), e.object)

LessSend(ports, e, k) ==
    CASE e.urefs > k -> ports
      [] e.urefs = k /\ "RECEIVE" \in e.type -> DropSend(ports, e.object)
      [] OTHER -> ip_release(NotifyRequest(DropSend(ports, e.object), e.object, e.request), e.object)

(* The reverse map once e has become f at x.                               *)
Remapped(x, e, f) ==
    IF e.type = {"SEND"} /\ f.type # {"SEND"}
    THEN [is_reverse_map EXCEPT ![x[1]][e.object] = Null]
    ELSE is_reverse_map

(* Naked rights change hands: a send-once right is given to the user, or   *)
(* one that the user gave is taken.                                        *)
Give(ports, soright) ==
    IF soright = Null THEN ports ELSE [ports EXCEPT ![soright].sonce = @ + 1]

Take(ports, soright) ==
    IF soright = Null THEN ports ELSE [ports EXCEPT ![soright].sonce = @ - 1]

Offered == {q \in Port : port[q].sonce > 0}

(* The name by which a space knows a live port, if it does; a faulty form  *)
(* overlooks the receive right.                                            *)
ipc_right_reverse_map(s, p) == is_reverse_map[s][p]

ipc_right_reverse(s, p) ==
    IF port[p].receiver # Null /\ port[p].receiver[1] = s
    THEN port[p].receiver[2] ELSE is_reverse_map[s][p]

-----------------------------------------------------------------------------
(* Names and rights come into being.                                       *)

ipc_port_alloc(x, p) ==
    /\ is_active[x[1]] /\ entry[x] = NoEntry /\ port[p].references = 0
    /\ entry' = [entry EXCEPT ![x] = [NoEntry EXCEPT !.type = {"RECEIVE"}, !.object = p]]
    /\ port' = [port EXCEPT ![p] =
                   [FreePort EXCEPT !.active = TRUE, !.references = 1, !.receiver = x]]
    /\ UNCHANGED <<is_active, is_reverse_map>>

ipc_object_alloc_dead(x) ==
    /\ is_active[x[1]] /\ entry[x] = NoEntry
    /\ entry' = [entry EXCEPT ![x] = [NoEntry EXCEPT !.type = {"DEAD_NAME"}, !.urefs = 1]]
    /\ UNCHANGED <<is_active, is_reverse_map, port>>

(* ipc_right_copyin: rights of an entry become naked rights.               *)
copyin_make_send(x) ==
    LET p == entry[x].object IN
    /\ is_active[x[1]] /\ "RECEIVE" \in entry[x].type
    /\ port' = ip_reference([port EXCEPT ![p].mscount = @ + 1, ![p].srights = @ + 1,
                                         ![p].send = @ + 1], p)
    /\ UNCHANGED <<is_active, entry, is_reverse_map>>

copyin_make_send_once(x) ==
    LET p == entry[x].object IN
    /\ is_active[x[1]] /\ "RECEIVE" \in entry[x].type
    /\ port' = ip_reference([port EXCEPT ![p].sorights = @ + 1, ![p].sonce = @ + 1], p)
    /\ UNCHANGED <<is_active, entry, is_reverse_map>>

(* A send right that the entry has besides stays, with a reference.        *)
copyin_move_receive(x) ==
    LET e == entry[x]
        p == e.object
        cleared == [Limbo(ipc_port_clear_receiver(port, p), p) EXCEPT ![p].receive = TRUE]
    IN
    /\ is_active[x[1]] /\ "RECEIVE" \in e.type
    /\ IF "SEND" \in e.type
       THEN /\ entry' = [entry EXCEPT ![x].type = {"SEND"}]
            /\ is_reverse_map' = [is_reverse_map EXCEPT ![x[1]][p] = x[2]]
            /\ port' = ip_reference(cleared, p)
       ELSE /\ entry' = [entry EXCEPT ![x] = NoEntry]
            /\ port' = NotifyRequest(cleared, p, e.request)
            /\ UNCHANGED is_reverse_map
    /\ UNCHANGED is_active

(* Dead names and rights of dead ports copy as IO_DEAD.                    *)
copyin_copy_send(x) ==
    LET e == Seen(x) IN
    /\ is_active[x[1]] /\ e.type # {}
    /\ IF "SEND" \in e.type
       THEN port' = ip_reference([port EXCEPT ![e.object].srights = @ + 1,
                                              ![e.object].send = @ + 1], e.object)
       ELSE port' = CheckedPorts(x)
    /\ entry' = [entry EXCEPT ![x] = e]
    /\ is_reverse_map' = CheckedMap(x)
    /\ UNCHANGED is_active

(* A dead name loses k user references.                                    *)
LessDead(x, k) ==
    LET e == Seen(x) IN
    /\ "DEAD_NAME" \in e.type /\ k <= e.urefs
    /\ entry' = [entry EXCEPT ![x] = IF k = e.urefs THEN NoEntry ELSE [e EXCEPT !.urefs = @ - k]]
    /\ port' = CheckedPorts(x)
    /\ is_reverse_map' = CheckedMap(x)

(* An entry has one send right however many user references it has: but    *)
(* the last of them, moving k takes k new rights.                          *)
MoveSends(x, k) ==
    LET e == Seen(x)
        p == e.object
        f == LessUrefs(e, k)
        made == IF e.urefs > k THEN k ELSE k - 1
        refs == IF f.object = p THEN k ELSE k - 1
        moved == [port EXCEPT ![p].srights = @ + made, ![p].references = @ + refs,
                              ![p].send = @ + k]
    IN
    /\ "SEND" \in e.type /\ k <= e.urefs
    /\ entry' = [entry EXCEPT ![x] = f]
    /\ port' = IF f = NoEntry THEN NotifyRequest(moved, p, e.request) ELSE moved
    /\ is_reverse_map' = Remapped(x, e, f)

copyin_move_send(x) ==
    /\ is_active[x[1]]
    /\ MoveSends(x, 1) \/ LessDead(x, 1)
    /\ UNCHANGED is_active

ipc_right_copyin_two(x) ==
    /\ is_active[x[1]]
    /\ MoveSends(x, 2)
    /\ UNCHANGED is_active

copyin_move_send_once(x) ==
    LET e == Seen(x) IN
    /\ is_active[x[1]]
    /\ \/ LessDead(x, 1)
       \/ /\ e.type = {"SEND_ONCE"}
          /\ entry' = [entry EXCEPT ![x] = NoEntry]
          /\ port' = NotifyRequest([port EXCEPT ![e.object].sonce = @ + 1], e.object, e.request)
          /\ UNCHANGED is_reverse_map
    /\ UNCHANGED is_active

-----------------------------------------------------------------------------
(* ipc_object_copyout, ipc_object_copyout_name: naked rights of a live     *)
(* port become rights of an entry: the one that the space has for the      *)
(* port, or else a new one.                                                *)

(* Another send right is another user reference, up to the maximum.        *)
copyout_send(x, p, overflow) ==
    LET e == entry[x]
        merged == ip_release([port EXCEPT ![p].send = @ - 1, ![p].srights = @ - 1], p)
        known == ipc_right_reverse(x[1], p)
    IN
    /\ is_active[x[1]] /\ port[p].active /\ port[p].send > 0
    /\ IF known # Null THEN x[2] = known ELSE e = NoEntry
    /\ IF "SEND" \in e.type
       THEN /\ e.urefs + 1 < UREFS_MAX \/ overflow
            /\ port' = merged
            /\ entry' = IF e.urefs + 1 < UREFS_MAX
                        THEN [entry EXCEPT ![x].urefs = @ + 1] ELSE entry
            /\ UNCHANGED is_reverse_map
       ELSE /\ entry' = [entry EXCEPT ![x].type = @ \cup {"SEND"}, ![x].urefs = 1,
                                      ![x].object = p]
            /\ IF "RECEIVE" \in e.type
               THEN /\ port' = ip_release([port EXCEPT ![p].send = @ - 1], p)
                    /\ UNCHANGED is_reverse_map
               ELSE /\ port' = [port EXCEPT ![p].send = @ - 1]
                    /\ is_reverse_map' = [is_reverse_map EXCEPT ![x[1]][p] = x[2]]
    /\ UNCHANGED is_active

copyout_send_once(x, p) ==
    /\ is_active[x[1]] /\ port[p].active /\ port[p].sonce > 0 /\ entry[x] = NoEntry
    /\ entry' = [entry EXCEPT ![x] = [NoEntry EXCEPT !.type = {"SEND_ONCE"}, !.urefs = 1,
                                                     !.object = p]]
    /\ port' = [port EXCEPT ![p].sonce = @ - 1]
    /\ UNCHANGED <<is_active, is_reverse_map>>

copyout_receive(x, p) ==
    LET known == ipc_right_reverse(x[1], p)
        kept == [port EXCEPT ![p].receive = FALSE, ![p].receiver = x]
    IN
    /\ is_active[x[1]] /\ port[p].receive
    /\ IF known # Null THEN x[2] = known ELSE entry[x] = NoEntry
    /\ entry' = [entry EXCEPT ![x].type = @ \cup {"RECEIVE"}, ![x].object = p]
    /\ port' = IF known # Null THEN ip_release(kept, p) ELSE kept
    /\ is_reverse_map' = [is_reverse_map EXCEPT ![x[1]][p] = Null]
    /\ UNCHANGED is_active

-----------------------------------------------------------------------------
(* Rights go away.                                                         *)

(* ipc_object_destroy: naked rights.  A naked receive right takes the port *)
(* with it.                                                                *)
ipc_port_release_send(p) ==
    LET naked == [port EXCEPT ![p].send = @ - 1] IN
    /\ port[p].send > 0
    /\ port' = ip_release(IF port[p].active THEN DropSend(naked, p) ELSE naked, p)
    /\ UNCHANGED <<is_active, entry, is_reverse_map>>

ipc_notify_send_once(p) ==
    /\ port[p].sonce > 0
    /\ port' = ipc_notify([port EXCEPT ![p].sonce = @ - 1], p)
    /\ UNCHANGED <<is_active, entry, is_reverse_map>>

ipc_port_release_receive(p) ==
    /\ port[p].receive
    /\ \E circular \in Circular(p) :
          port' = ipc_port_destroy([port EXCEPT ![p].receive = FALSE], p, circular)
    /\ UNCHANGED <<is_active, entry, is_reverse_map>>

(* The ports after all the rights of an entry have gone: ipc_right_destroy *)
(* and ipc_right_clean.                                                    *)
AllGone(e, circular) ==
    LET p == e.object
        fewer == NotifyRequest(IF "SEND" \in e.type THEN DropSend(port, p) ELSE port, p, e.request)
    IN  CASE e.type = {"DEAD_NAME"} -> port
          [] DeadPort(e)            -> ip_release(port, p)
          [] ~DeadPort(e) /\ e.type = {"SEND_ONCE"} -> ipc_notify(fewer, p)
          [] ~DeadPort(e) /\ e.type = {"SEND"}      -> ip_release(fewer, p)
          [] OTHER -> ipc_port_destroy(ipc_port_clear_receiver(fewer, p), p, circular)

DestroyEntry(x) ==
    LET e == entry[x] IN
    /\ e.type # {}
    /\ entry' = [entry EXCEPT ![x] = NoEntry]
    /\ \E circular \in IF "RECEIVE" \in e.type THEN Circular(e.object) ELSE {FALSE} :
          port' = AllGone(e, circular)
    /\ is_reverse_map' = Remapped(x, e, NoEntry)

ipc_right_destroy(x) == is_active[x[1]] /\ DestroyEntry(x) /\ UNCHANGED is_active

(* A dead space: the entries are cleaned one after the other.              *)
ipc_space_destroy(s) ==
    /\ is_active[s]
    /\ is_active' = [is_active EXCEPT ![s] = FALSE]
    /\ UNCHANGED <<entry, is_reverse_map, port>>

ipc_right_clean(x) == ~is_active[x[1]] /\ DestroyEntry(x) /\ UNCHANGED is_active

(* A live send right loses k user references.                              *)
LessSends(x, k) ==
    LET e == Seen(x) IN
    /\ "SEND" \in e.type /\ k <= e.urefs
    /\ entry' = [entry EXCEPT ![x] = LessUrefs(e, k)]
    /\ port' = LessSend(port, e, k)
    /\ is_reverse_map' = Remapped(x, e, LessUrefs(e, k))

LessSendOnce(x) ==
    LET e == Seen(x) IN
    /\ e.type = {"SEND_ONCE"}
    /\ entry' = [entry EXCEPT ![x] = NoEntry]
    /\ port' = ipc_notify(NotifyRequest(port, e.object, e.request), e.object)
    /\ UNCHANGED is_reverse_map

ipc_right_dealloc(x) ==
    /\ is_active[x[1]]
    /\ LessSends(x, 1) \/ LessSendOnce(x) \/ LessDead(x, 1)
    /\ UNCHANGED is_active

(* ipc_right_delta.  Where it fails, or asks for no change, it leaves      *)
(* behind what ipc_right_check did.                                        *)
ipc_right_check(x) ==
    /\ is_active[x[1]] /\ DeadPort(entry[x])
    /\ entry' = [entry EXCEPT ![x] = Seen(x)]
    /\ port' = CheckedPorts(x)
    /\ is_reverse_map' = CheckedMap(x)
    /\ UNCHANGED is_active

(* The port is destroyed "first": a send right that the entry has besides  *)
(* becomes a dead name, and is not given back.                             *)
delta_receive(x) ==
    LET e == entry[x]
        p == e.object
        gone == IF "SEND" \in e.type THEN port ELSE NotifyRequest(port, p, e.request)
    IN
    /\ is_active[x[1]] /\ "RECEIVE" \in e.type
    /\ entry' = [entry EXCEPT ![x] = IF "SEND" \in e.type THEN DeadName(e) ELSE NoEntry]
    /\ \E circular \in Circular(p) :
          port' = ipc_port_destroy(ipc_port_clear_receiver(gone, p), p, circular)
    /\ UNCHANGED <<is_active, is_reverse_map>>

(* A faulty form forgets the room for the dead-name notification.          *)
delta_send_full(x, delta) ==
    LET e == Seen(x) IN
    /\ is_active[x[1]]
    /\ delta > 0 /\ "SEND" \in e.type /\ e.urefs + delta <= UREFS_MAX
    /\ entry' = [entry EXCEPT ![x].urefs = @ + delta]
    /\ UNCHANGED <<is_active, port, is_reverse_map>>

delta_send(x, delta) ==
    LET e == Seen(x) IN
    /\ is_active[x[1]]
    /\ \/ delta < 0 /\ LessSends(x, -delta)
       \/ /\ delta > 0 /\ "SEND" \in e.type /\ e.urefs + 1 + delta <= UREFS_MAX
          /\ entry' = [entry EXCEPT ![x].urefs = @ + delta]
          /\ UNCHANGED <<port, is_reverse_map>>
    /\ UNCHANGED is_active

delta_send_once(x) ==
    /\ is_active[x[1]]
    /\ LessSendOnce(x)
    /\ UNCHANGED is_active

delta_dead_name(x, delta) ==
    LET e == Seen(x) IN
    /\ is_active[x[1]]
    /\ \/ delta < 0 /\ LessDead(x, -delta)
       \/ /\ delta > 0 /\ "DEAD_NAME" \in e.type /\ e.urefs + delta <= UREFS_MAX
          /\ entry' = [entry EXCEPT ![x] = [e EXCEPT !.urefs = @ + delta]]
          /\ port' = CheckedPorts(x)
          /\ is_reverse_map' = CheckedMap(x)
    /\ UNCHANGED is_active

-----------------------------------------------------------------------------
(* mach_port_request_notification: notify is a naked send-once right of    *)
(* the user, or Null to cancel; the user gets the previous one back.       *)

(* The requests that this instance makes.                                  *)
Asked(kind, x) == entry[x].object # Null => kind \in Requests[entry[x].object]

(* The slot that ipc_port_dnrequest fills: the one just emptied, if the    *)
(* entry had a request, or else a free one, if the table can have it.      *)
FreeSlots(p, request) ==
    IF request # 0 THEN {request}
    ELSE {i \in Slot : /\ port[p].dnrequests[i] = NoRequest
                       /\ \A j \in 1 .. i - 1 : port[p].dnrequests[j] # NoRequest}

ipc_right_dnrequest(x, notify, immediate) ==
    LET e == Seen(x)
        p == e.object
        previous == dnrequest(port, p, e.request)
    IN
    /\ Asked("dead name", x)
    /\ is_active[x[1]]
    /\ \/ /\ e.type \cap {"SEND", "RECEIVE", "SEND_ONCE"} # {}
          /\ \/ /\ notify = Null
                /\ entry' = [entry EXCEPT ![x].request = 0]
                /\ port' = Give(ipc_port_dncancel(port, p, e.request), previous)
             \/ /\ notify # Null
                /\ \E i \in FreeSlots(p, e.request) :
                      /\ entry' = [entry EXCEPT ![x].request = i]
                      /\ port' = Give(Take([port EXCEPT
                            ![p].dnrequests[i] = [name |-> x[2], soright |-> notify]],
                            notify), previous)
          /\ UNCHANGED is_reverse_map
       \/ /\ e.type = {"DEAD_NAME"} /\ immediate /\ notify # Null
          /\ e.urefs < UREFS_MAX
          /\ entry' = [entry EXCEPT ![x] = [e EXCEPT !.urefs = @ + 1]]
          /\ port' = ipc_notify(Take(CheckedPorts(x), notify), notify)
          /\ is_reverse_map' = CheckedMap(x)
    /\ UNCHANGED is_active

(* A request that comes after the last send right has gone is answered at  *)
(* once, unless it is synchronised with a right still to be made.          *)
ipc_port_nsrequest(x, sync, notify) ==
    LET p == entry[x].object
        taken == Take(port, notify)
        previous == port[p].nsrequest
    IN
    /\ Asked("no senders", x)
    /\ is_active[x[1]] /\ "RECEIVE" \in entry[x].type
    /\ IF port[p].srights = 0 /\ sync <= port[p].mscount /\ notify # Null
       THEN port' = Give(ipc_notify([taken EXCEPT ![p].nsrequest = Null], notify), previous)
       ELSE port' = Give([taken EXCEPT ![p].nsrequest = notify], previous)
    /\ UNCHANGED <<is_active, entry, is_reverse_map>>

ipc_port_pdrequest(x, notify) ==
    LET p == entry[x].object IN
    /\ Asked("port destroyed", x)
    /\ is_active[x[1]] /\ "RECEIVE" \in entry[x].type
    /\ port' = Give([Take(port, notify) EXCEPT ![p].pdrequest = notify], port[p].pdrequest)
    /\ UNCHANGED <<is_active, entry, is_reverse_map>>

-----------------------------------------------------------------------------
ipc_port_dnrename_not(ports, p, request, nname) == ports

ipc_port_dnrename(ports, p, request, nname) ==
    IF request = 0 THEN ports
    ELSE [ports EXCEPT ![p].dnrequests[request].name = nname]

(* The request follows the entry to the new name.  An entry without one is *)
(* moved as it is, even if its port is dead.                               *)
ipc_right_rename(x, nname) ==
    LET y == <<x[1], nname>>
        e == IF entry[x].request # 0 THEN Seen(x) ELSE entry[x]
        p == e.object
        ports == IF entry[x].request # 0 THEN CheckedPorts(x) ELSE port
        named == ipc_port_dnrename(ports, p, e.request, nname)
    IN
    /\ is_active[x[1]] /\ entry[x].type # {} /\ entry[y] = NoEntry
    /\ entry' = [entry EXCEPT ![x] = NoEntry, ![y] = e]
    /\ port' = IF "RECEIVE" \in e.type THEN [named EXCEPT ![p].receiver = y] ELSE named
    /\ is_reverse_map' =
          CASE e.type = {"SEND"} -> [is_reverse_map EXCEPT ![x[1]][p] = nname]
            [] e.type # {"SEND"} /\ entry[x].request # 0 -> CheckedMap(x)
            [] OTHER -> is_reverse_map
    /\ UNCHANGED is_active

-----------------------------------------------------------------------------
(* Messages: a naked right becomes the destination of a message; a message *)
(* to a dead port is destroyed.                                            *)
ipc_mqueue_send(p) ==
    /\ \/ /\ port[p].send > 0
          /\ port' = IF port[p].active
                     THEN [port EXCEPT ![p].send = @ - 1, ![p].qsend = @ + 1]
                     ELSE ip_release([port EXCEPT ![p].send = @ - 1], p)
       \/ /\ port[p].sonce > 0
          /\ port' = IF port[p].active
                     THEN [port EXCEPT ![p].sonce = @ - 1, ![p].qsonce = @ + 1]
                     ELSE ip_release([port EXCEPT ![p].sonce = @ - 1], p)
    /\ UNCHANGED <<is_active, entry, is_reverse_map>>

(* The right that a message was sent with goes when it is received.        *)
(* Dequeueing the message and copying out its destination are one step: a  *)
(* space that loses the receive right in between drops a send right just   *)
(* the same, and turns a send-once right into a send-once notification,    *)
(* which leaves it queued.                                                 *)
ipc_object_copyout_dest(p) ==
    /\ port[p].receiver # Null
    /\ \/ /\ port[p].qsend > 0
          /\ port' = DropSend(ip_release([port EXCEPT ![p].qsend = @ - 1], p), p)
       \/ /\ port[p].qsonce > 0
          /\ port' = ipc_port_release_sonce([port EXCEPT ![p].qsonce = @ - 1], p)
    /\ UNCHANGED <<is_active, entry, is_reverse_map>>

(* The rest of ipc_port_destroy, with the dead port unlocked: the request  *)
(* for a no-senders notification and the queue, which nobody else uses any *)
(* more, then the dead-name requests.  The fields are cleared with their   *)
(* rights.                                                                 *)
destroy_notify(p) ==
    /\ port[p].reap = "notify"
    /\ port' = ipc_notify(
          [port EXCEPT ![p].references = @ - port[p].qsend - port[p].qsonce,
                       ![p].qsend = 0, ![p].qsonce = 0,
                       ![p].nsrequest = Null, ![p].reap = "dnrequests"],
          port[p].nsrequest)
    /\ UNCHANGED <<is_active, entry, is_reverse_map>>

destroy_dnrequest(p) ==
    /\ port[p].reap = "dnrequests"
    /\ \E i \in Slot :
          /\ port[p].dnrequests[i] # NoRequest
          /\ \A j \in 1 .. i - 1 : port[p].dnrequests[j] = NoRequest
          /\ port' = NotifyRequest(port, p, i)
    /\ UNCHANGED <<is_active, entry, is_reverse_map>>

destroy_release(p) ==
    /\ port[p].reap = "dnrequests" /\ \A i \in Slot : port[p].dnrequests[i] = NoRequest
    /\ port' = ip_release([port EXCEPT ![p].reap = "done"], p)
    /\ UNCHANGED <<is_active, entry, is_reverse_map>>

-----------------------------------------------------------------------------
Loose(p) == port[p].send + port[p].sonce + port[p].qsend + port[p].qsonce

Bounds ==
    /\ MapThenSumSet(Loose, Port) <= MaxLoose
    /\ \A p \in Port : port[p].mscount <= MaxMade[p] /\ port[p].srights <= MaxSrights
    /\ Cardinality({x \in Entries : entry[x] # NoEntry}) <= MaxEntries

EntryStep(x) ==
    \/ ipc_object_alloc_dead(x)
    \/ copyin_make_send(x) \/ copyin_make_send_once(x) \/ copyin_move_receive(x)
    \/ copyin_copy_send(x) \/ copyin_move_send(x) \/ copyin_move_send_once(x)
    \/ ipc_right_copyin_two(x)
    \/ ipc_right_destroy(x) \/ ipc_right_clean(x) \/ ipc_right_dealloc(x)
    \/ ipc_right_check(x) \/ delta_receive(x) \/ delta_send_once(x)
    \/ \E delta \in {-2, -1, 1} : delta_send(x, delta) \/ delta_dead_name(x, delta)
    \/ \E nname \in Name : ipc_right_rename(x, nname)
    \/ \E notify \in Offered \cup {Null} :
          \/ \E immediate \in BOOLEAN : ipc_right_dnrequest(x, notify, immediate)
          \/ \E sync \in 0 .. 1 : ipc_port_nsrequest(x, sync, notify)
          \/ ipc_port_pdrequest(x, notify)
    \/ \E p \in Port :
          \/ ipc_port_alloc(x, p)
          \/ \E overflow \in BOOLEAN : copyout_send(x, p, overflow)
          \/ copyout_send_once(x, p) \/ copyout_receive(x, p)

PortStep(p) ==
    \/ ipc_port_release_send(p) \/ ipc_notify_send_once(p) \/ ipc_port_release_receive(p)
    \/ ipc_mqueue_send(p) \/ ipc_object_copyout_dest(p)
    \/ destroy_notify(p) \/ destroy_dnrequest(p) \/ destroy_release(p)

Next ==
    /\ \/ \E x \in Entries : EntryStep(x)
       \/ \E p \in Port : PortStep(p)
       \/ \E s \in Space : ipc_space_destroy(s)
    /\ Bounds'

Spec == Init /\ [][Next]_vars

-----------------------------------------------------------------------------
SendEntries(p) == {x \in Entries : entry[x].object = p /\ "SEND" \in entry[x].type}
SendOnceEntries(p) == {x \in Entries : entry[x].object = p /\ "SEND_ONCE" \in entry[x].type}
EntriesOf(p) == {x \in Entries : entry[x].object = p}
NsRequests(q) == {p \in Port : port[p].nsrequest = q}
PdRequests(q) == {p \in Port : port[p].pdrequest = q}
DnRequests(q) == {r \in Port \X Slot : port[r[1]].dnrequests[r[2]].soright = q}
Held(q) == Cardinality(NsRequests(q)) + Cardinality(PdRequests(q)) + Cardinality(DnRequests(q))

Srights(p) == Cardinality(SendEntries(p)) + port[p].send + port[p].qsend

(* Every send right of a live port is counted: the no-senders notification *)
(* is never early (ip_srights, and the assertions that it is positive or   *)
(* above one).                                                             *)
SrightsCovered == \A p \in Port : port[p].active => port[p].srights >= Srights(p)

(* ... and nothing else is counted: it does come when the last goes.       *)
SrightsExact == \A p \in Port : port[p].active => port[p].srights = Srights(p)

(* Every send-once right of a live port is in one place: an entry, the     *)
(* kernel's or a message's hands, the queue, or a request.  So each is     *)
(* used for exactly one message or notification (ip_sorights).             *)
SorightsExact ==
    \A p \in Port : port[p].active =>
        port[p].sorights = Cardinality(SendOnceEntries(p)) + port[p].sonce + port[p].qsonce
                             + Held(p)

(* The references of a port are those of its entries, naked rights, queued *)
(* messages, requests and destroyer: its memory is freed with the last of  *)
(* them, neither before nor never (io_references, ip_release).             *)
ReferencesExact ==
    \A p \in Port :
        port[p].references = Cardinality(EntriesOf(p)) + port[p].send + port[p].sonce
                               + port[p].qsend + port[p].qsonce + Held(p)
                               + (IF port[p].receive THEN 1 ELSE 0)
                               + (IF port[p].reap # "done" THEN 1 ELSE 0)

(* A live port has one receive right, in the entry that ip_receiver and    *)
(* ip_receiver_name say or in transit; entries of dead ports have none     *)
(* (the assertions of ipc_right_reverse and ipc_right_check).              *)
OneReceiver ==
    /\ \A x \in Entries : "RECEIVE" \in entry[x].type =>
          port[entry[x].object].active /\ port[entry[x].object].receiver = x
    /\ \A p \in Port : port[p].active =>
          IF port[p].receive THEN port[p].receiver = Null /\ port[p].mscount = 0
          ELSE port[p].receiver # Null /\ entry[port[p].receiver].object = p
                  /\ "RECEIVE" \in entry[port[p].receiver].type

(* A space knows a live port by at most one name for send and receive      *)
(* rights, which ipc_right_reverse finds.                                  *)
OneName ==
    /\ \A s \in Space, p \in Port, n \in Name : is_active[s] =>
          (is_reverse_map[s][p] = n <=>
             entry[<<s, n>>].object = p /\ entry[<<s, n>>].type = {"SEND"})
    /\ \A x, y \in Entries :
          /\ x[1] = y[1] /\ entry[x].object = entry[y].object /\ entry[x].object # Null
          /\ "SEND_ONCE" \notin entry[x].type \cup entry[y].type
          => x = y

(* User references stay in range, with room for the one that a dead-name   *)
(* notification adds (the assertions on IE_BITS_UREFS).                    *)
UrefsInRange ==
    \A x \in Entries :
        LET e == entry[x] IN
        CASE "SEND" \in e.type       -> e.urefs \in 1 .. UREFS_MAX - 1
          [] e.type = {"SEND_ONCE"}  -> e.urefs = 1
          [] e.type = {"DEAD_NAME"}  -> e.urefs \in 1 .. UREFS_MAX
          [] OTHER                   -> e.urefs = 0

(* The request that an entry of a live port knows is its own (the          *)
(* assertions of ipc_port_dncancel and ipc_port_dnrename), and no other    *)
(* entry's.                                                                *)
RequestsMatch ==
    \A x \in Entries : entry[x].request # 0 /\ port[entry[x].object].active =>
        /\ port[entry[x].object].dnrequests[entry[x].request].name = x[2]
        /\ \A y \in EntriesOf(entry[x].object) : entry[y].request = entry[x].request => x = y

(* When the last send right of a live port goes, so does a pending         *)
(* no-senders request (ip_nsrequest).                                      *)
NoSendersTaken ==
    [][\A p \in Port :
         port[p].active /\ port[p].srights > 0 /\ port'[p].active /\ port'[p].srights = 0
            => port'[p].nsrequest = Null]_vars
=============================================================================
