----------------------------- MODULE DhcpLeases -----------------------------
(***************************************************************************)
(* The dashboard's table of DHCP leases (router.c), which three tasks      *)
(* share under a spinlock:                                                 *)
(*   - the default event loop records a lease for every IP-assigned event  *)
(*     the DHCP server has posted;                                         *)
(*   - the lwIP task, inside the server's state hook, removes the leases   *)
(*     of a client that released, declined or was refused;                 *)
(*   - httpd copies the table out for a page.                              *)
(* The first and the last read the tick counter before they take the lock. *)
(*                                                                         *)
(* Time is absolute here; the code sees it modulo TickMod, which is how    *)
(* every comparison below takes it.  The DHCP server itself is lwIP's: it  *)
(* is modelled by the bindings it may hold and the events it posts.        *)
(***************************************************************************)
EXTENDS Integers, Sequences, FiniteSetsExt

CONSTANTS
    NSlots,        \* ROUTER_MAX_DHCP_LEASES
    LeaseTicks,    \* dhcp_lease_duration_ticks()
    TickMod,       \* 2^32: the range of TickType_t
    MaxTime,       \* bound: ticks that pass
    MaxWait,       \* bound: ticks a task is held up between reading the tick
                   \* counter and taking the lock
    QueueLen,      \* room in the event loop's queue
    Macs,          \* the DHCP clients
    Port,          \* Port[mac]: the interface the client is on
    Pool,          \* Pool[iface]: the addresses its server hands out
    NoRow, NoCall

Slots == 0 .. NSlots - 1

ASSUME DhcpLeasesAssumption ==
    /\ NSlots \in Nat \ {0}
    /\ LeaseTicks \in Nat \ {0} /\ MaxTime \in Nat /\ MaxWait \in Nat /\ QueueLen \in Nat
    /\ TickMod \in Nat /\ LeaseTicks + MaxWait <= TickMod

VARIABLES
    table,     \* s_dhcp_leases: a row or NoRow (a slot that is not active)
    clock,     \* ticks since boot, without the wrap
    evq,       \* IP_EVENT_AP_STAIPASSIGNED events not yet handled
    rec,       \* record_dhcp_lease between reading the tick and the lock
    get,       \* router_get_dhcp_leases, likewise
    bound      \* DHCP server: what each client was last acknowledged and has
               \* not given up

vars == <<table, clock, evq, rec, get, bound>>

Addrs == UNION {Pool[Port[mac]] : mac \in Macs}
Event == [iface : {Port[mac] : mac \in Macs}, ip : Addrs, mac : Macs]
Row == [iface : {Port[mac] : mac \in Macs}, ip : Addrs, mac : Macs, at : 0 .. MaxTime]
-----------------------------------------------------------------------------
(* router.c, on a table t.  "at" is a row's last_seen. *)

elapsed(row, now) == ((now % TickMod) - (row.at % TickMod)) % TickMod
expired(row, now) == elapsed(row, now) >= LeaseTicks

prune(t, now) ==
    [i \in Slots |-> IF t[i] # NoRow /\ expired(t[i], now) THEN NoRow ELSE t[i]]

matches(row, e) ==
    row # NoRow /\ row.iface = e.iface /\ (row.ip = e.ip \/ row.mac = e.mac)

RowOf(e, now) == [iface |-> e.iface, ip |-> e.ip, mac |-> e.mac, at |-> now]

\* Faulty variant: without a match the last slot is used, free or not.
record_dhcp_lease_LastSlot(t, e, now) ==
    LET p == prune(t, now)
        slot == Min({i \in Slots : matches(p[i], e)} \cup {NSlots - 1})
    IN  [p EXCEPT ![slot] = RowOf(e, now)]

\* Faulty variant: a row is written although no slot was found.
record_dhcp_lease_Unchecked(t, e, now) ==
    LET p == prune(t, now)
        slot == Min({i \in Slots : p[i] = NoRow \/ matches(p[i], e)} \cup {NSlots})
    IN  [i \in Slots \cup {slot} |-> IF i = slot THEN RowOf(e, now) ELSE p[i]]

\* The first row of the interface with the address or with the client is
\* replaced; without one the first free slot is taken; without that the lease
\* is not listed.
record_dhcp_lease(t, e, now) ==
    LET p == prune(t, now)
        match == {i \in Slots : matches(p[i], e)}
        empty == {i \in Slots : p[i] = NoRow}
    IN  IF match # {} THEN [p EXCEPT ![Min(match)] = RowOf(e, now)]
        ELSE IF empty # {} THEN [p EXCEPT ![Min(empty)] = RowOf(e, now)]
        ELSE p

\* ciaddr is 0 in a message of a client that has no address yet, or no longer.
remove_dhcp_lease(t, ciaddr, mac) ==
    [i \in Slots |-> IF t[i] # NoRow /\ t[i].mac = mac /\ ciaddr \in {0, t[i].ip}
                     THEN NoRow ELSE t[i]]
-----------------------------------------------------------------------------
Init ==
    /\ table = [i \in Slots |-> NoRow]
    /\ clock = 0
    /\ evq = <<>> /\ rec = NoCall /\ get = NoCall
    /\ bound = [mac \in Macs |-> NoRow]

\* Time goes on wherever the tasks are.
Tick ==
    /\ clock < MaxTime
    /\ \A call \in {rec, get} \ {NoCall} : clock - call.now < MaxWait
    /\ clock' = clock + 1
    /\ UNCHANGED <<table, evq, rec, get, bound>>
-----------------------------------------------------------------------------
(* The DHCP server, in the lwIP task *)

Current(row) == row # NoRow /\ clock - row.at < LeaseTicks

\* A DHCPACK, first or renewed: the address is one of the pool that no other
\* client holds.  The event is lost when the queue is full.
Acknowledge(mac, ip) ==
    /\ ip \in Pool[Port[mac]]
    /\ \A m \in Macs \ {mac} : Current(bound[m]) => bound[m].ip # ip
    /\ LET e == [iface |-> Port[mac], ip |-> ip, mac |-> mac] IN
       /\ evq' = IF Len(evq) < QueueLen THEN Append(evq, e) ELSE evq
       /\ bound' = [bound EXCEPT ![mac] = RowOf(e, clock)]
    /\ UNCHANGED <<table, clock, rec, get>>

\* router_observe_dhcps_state: the client releases its address, which the
\* message names, or declines it or is refused it, when the message need not.  A
\* client without a lease may be refused any address.
GiveUp(mac, ciaddr) ==
    /\ bound[mac] # NoRow => ciaddr \in {0, bound[mac].ip}
    /\ table' = remove_dhcp_lease(table, ciaddr, mac)
    /\ bound' = [bound EXCEPT ![mac] = NoRow]
    /\ UNCHANGED <<clock, evq, rec, get>>
-----------------------------------------------------------------------------
(* dhcp_assigned_handler, in the event loop's task *)

RecordBegin ==
    /\ rec = NoCall /\ evq # <<>>
    /\ rec' = [event |-> Head(evq), now |-> clock]
    /\ evq' = Tail(evq)
    /\ UNCHANGED <<table, clock, get, bound>>

RecordCommit ==
    /\ rec # NoCall
    /\ table' = record_dhcp_lease(table, rec.event, rec.now)
    /\ rec' = NoCall
    /\ UNCHANGED <<clock, evq, get, bound>>
-----------------------------------------------------------------------------
(* router_get_dhcp_leases, in httpd's task *)

GetBegin ==
    /\ get = NoCall
    /\ get' = [now |-> clock]
    /\ UNCHANGED <<table, clock, evq, rec, bound>>

\* The rows of a table as the page shows them.
Shown(t, now) ==
    {[lease |-> t[i],
      remaining |-> IF expired(t[i], now) THEN 0 ELSE LeaseTicks - elapsed(t[i], now)]
        : i \in {j \in Slots : t[j] # NoRow}}

\* Faulty variant: the rows are copied without pruning.
GetCommit_Unpruned ==
    /\ get # NoCall
    /\ get' = NoCall
    /\ UNCHANGED <<table, clock, evq, rec, bound>>

\* The table is pruned, then its rows are copied out with what remains of each:
\* the page is Shown(table', get.now).
GetCommit ==
    /\ get # NoCall
    /\ table' = prune(table, get.now)
    /\ get' = NoCall
    /\ UNCHANGED <<clock, evq, rec, bound>>
-----------------------------------------------------------------------------
Next ==
    \/ Tick
    \/ \E mac \in Macs : \E ip \in Addrs : Acknowledge(mac, ip)
    \/ \E mac \in Macs : \E ciaddr \in Addrs \cup {0} : GiveUp(mac, ciaddr)
    \/ RecordBegin \/ RecordCommit
    \/ GetBegin \/ GetCommit

Spec == Init /\ [][Next]_vars
-----------------------------------------------------------------------------
(* Properties *)

\* Every variable has its type.
TypeOK ==
    /\ table \in [Slots -> Row \cup {NoRow}]
    /\ clock \in 0 .. MaxTime
    /\ evq \in Seq(Event) /\ Len(evq) <= QueueLen
    /\ rec \in [event : Event, now : 0 .. MaxTime] \cup {NoCall}
    /\ get \in [now : 0 .. MaxTime] \cup {NoCall}
    /\ bound \in [Macs -> Row \cup {NoRow}]

\* The server still holds the lease that a row shows or an event announces.
Stands(lease) ==
    lease # NoRow /\ Current(bound[lease.mac]) /\ bound[lease.mac].ip = lease.ip

\* Recording a lease that stands costs no other client the row of a lease that
\* stands, as long as that row has not run out: not when the table is full, not
\* when an address or a client moved, not when time went on before the lock.
RecordingKeepsOthers ==
    [][RecordCommit /\ Stands(rec.event) =>
         \A i \in Slots : /\ Stands(table[i]) /\ Current(table[i])
                          /\ table[i].mac # rec.event.mac
                          => table'[i] = table[i]]_vars

\* A page never shows a lease that had run out when the page was begun, and the
\* time it shows is the time that is left (configuration.md:46, "Lease time: 60
\* minutes"), across a wrap of the tick counter, except for a row that nobody
\* looked at for the counter's whole range.
ShownHaveNotRunOut ==
    [][GetCommit => \A r \in Shown(table', get.now) :
                       get.now - r.lease.at < TickMod =>
                          /\ r.remaining = LeaseTicks - (get.now - r.lease.at)
                          /\ r.remaining \in 1 .. LeaseTicks]_vars

\* "Lists all active leases" (docs/docs/web-interface.md:22): looking at the
\* dashboard does not remove a lease that has not run out.
LookingKeepsLeases ==
    [][GetCommit => \A i \in Slots : Current(table[i]) => table'[i] = table[i]]_vars
=============================================================================
