------------------------- MODULE DhcpLeases_proofs -------------------------
(***************************************************************************)
(* Proofs about DhcpLeases, for any size of the table, any clients and     *)
(* pools and a counter that wraps as often as it likes.                    *)
(***************************************************************************)
EXTENDS DhcpLeases, WellFoundedInduction, TLAPS

(* Slots and ticks *)

\* Min is one of the slots it chooses from.
LEMMA MinIsMember == ASSUME NEW S \in SUBSET Slots, S # {} PROVE Min(S) \in S
<1>1. S \in SUBSET Nat /\ S # {}
  BY DhcpLeasesAssumption DEF Slots
<1>2. PICK least \in S : \A y \in S : ~ (<<y, least>> \in OpToRel(<, Nat))
  BY <1>1, NatLessThanWellFounded, WFMin
<1>3. ASSUME NEW y \in S PROVE least <= y
  <2>1. y \in Nat /\ least \in Nat
    BY <1>1
  <2>2. ~ (y < least)
    BY <1>2, <2>1 DEF OpToRel
  <2> QED BY <2>1, <2>2
<1>4. \E x \in S : \A y \in S : x <= y
  BY <1>3
<1> QED BY <1>4 DEF Min

\* Division with remainder, for any modulus.
LEMMA Division ==
    ASSUME NEW a \in Int, NEW m \in Nat \ {0}
    PROVE  a % m \in 0 .. m - 1 /\ \E q \in Int : a = m * q + (a % m)
<1>1. a % m \in 0 .. m - 1 /\ a \div m \in Int /\ a = m * (a \div m) + (a % m)
  OBVIOUS
<1> QED BY <1>1

LEMMA RemainderIsUnique ==
    ASSUME NEW a \in Int, NEW m \in Nat \ {0}, NEW q \in Int, NEW r \in 0 .. m - 1,
           a = m * q + r
    PROVE  a % m = r
<1>1. PICK p \in Int : a = m * p + (a % m)
  BY Division
<1>2. a % m \in 0 .. m - 1
  BY Division
<1>3. m * (p - q) = r - (a % m)
  BY <1>1, <1>2
<1>4. p - q = 0
  <2>1. CASE p - q >= 1
    <3>1. m * (p - q) >= m
      BY <2>1
    <3> QED BY <1>2, <1>3, <3>1
  <2>2. CASE p - q <= -1
    <3>1. m * (p - q) <= -m
      BY <2>2
    <3> QED BY <1>2, <1>3, <3>1
  <2> QED BY <2>1, <2>2
<1> QED BY <1>1, <1>2, <1>4

\* The unsigned difference of two readings of the counter is the difference of the
\* times, up to the counter's range.
LEMMA ElapsedModulo ==
    ASSUME NEW row, NEW at \in Int, row.at = at, NEW now \in Int,
           NEW q \in Int, NEW r \in 0 .. TickMod - 1, now - at = TickMod * q + r
    PROVE  elapsed(row, now) = r
<1>1. PICK m \in Nat \ {0} : m = TickMod
  BY DhcpLeasesAssumption
<1>2. PICK p \in Int : now = m * p + (now % m)
  BY Division
<1>3. PICK s \in Int : at = m * s + (at % m)
  BY Division
<1>4. PICK x \in Int : x = (now % m) - (at % m)
  <2>1. now % m \in 0 .. m - 1 /\ at % m \in 0 .. m - 1
    OBVIOUS
  <2>2. now % m \in Int /\ at % m \in Int
    BY ONLY <2>1, m \in Int
  <2>3. (now % m) - (at % m) \in Int
    BY <2>2
  <2> QED BY <2>3, Zenon
<1>5. x = m * (q - p + s) + r
  BY <1>1, <1>2, <1>3, <1>4
<1>6. x % m = r
  BY <1>1, <1>5, RemainderIsUnique
<1> QED BY <1>1, <1>4, <1>6 DEF elapsed

\* It is the age of a row that was recorded before the counter was read, if that
\* is less than the counter's range, also across a wrap.
LEMMA ElapsedIsAge ==
    ASSUME NEW row, row.at \in Nat, NEW now \in Nat,
           row.at <= now, now - row.at < TickMod
    PROVE  elapsed(row, now) = now - row.at
<1>1. TickMod \in Nat \ {0}
  BY DhcpLeasesAssumption
<1>2. PICK r \in 0 .. TickMod - 1 : r = now - row.at
  BY <1>1
<1>3. now - row.at = TickMod * 0 + r
  BY <1>1, <1>2
<1> QED BY <1>2, <1>3, ElapsedModulo

\* A row recorded after the counter was read seems to be almost as old as the
\* counter's range.
LEMMA ElapsedOfLater ==
    ASSUME NEW row, row.at \in Nat, NEW now \in Nat,
           now < row.at, row.at - now < TickMod
    PROVE  elapsed(row, now) = TickMod - (row.at - now)
<1>1. TickMod \in Nat \ {0}
  BY DhcpLeasesAssumption
<1>2. PICK r \in 0 .. TickMod - 1 : r = TickMod - (row.at - now)
  BY <1>1
<1>3. now - row.at = TickMod * (-1) + r
  BY <1>1, <1>2
<1> QED BY <1>2, <1>3, ElapsedModulo
-----------------------------------------------------------------------------
(* The type invariant *)

Table == [Slots -> Row \cup {NoRow}]

\* An event becomes a row of the table at any time.
LEMMA RowOfEvent ==
    ASSUME NEW e \in Event, NEW now \in 0 .. MaxTime
    PROVE  RowOf(e, now) \in Row
BY DEF RowOf, Event, Row

\* Pruning, recording and removing keep a table a table.
LEMMA PruneKeepsTable ==
    ASSUME NEW t \in Table, NEW now \in Nat
    PROVE  prune(t, now) \in Table
BY DEF prune, Table

LEMMA RecordKeepsTable ==
    ASSUME NEW t \in Table, NEW e \in Event, NEW now \in 0 .. MaxTime
    PROVE  record_dhcp_lease(t, e, now) \in Table
<1> DEFINE p == prune(t, now)
           match == {i \in Slots : matches(p[i], e)}
           empty == {i \in Slots : p[i] = NoRow}
<1>1. now \in Nat
  BY DhcpLeasesAssumption
<1>2. p \in Table
  BY <1>1, PruneKeepsTable
<1>3. RowOf(e, now) \in Row
  BY RowOfEvent
<1>4. \A i \in Slots : [p EXCEPT ![i] = RowOf(e, now)] \in Table
  BY <1>2, <1>3 DEF Table
<1>5. \/ record_dhcp_lease(t, e, now) = p
      \/ match # {} /\ record_dhcp_lease(t, e, now) = [p EXCEPT ![Min(match)] = RowOf(e, now)]
      \/ empty # {} /\ record_dhcp_lease(t, e, now) = [p EXCEPT ![Min(empty)] = RowOf(e, now)]
  BY DEF record_dhcp_lease
<1>6. match # {} => Min(match) \in Slots
  <2>1. match \in SUBSET Slots
    OBVIOUS
  <2> QED BY <2>1, MinIsMember
<1>7. empty # {} => Min(empty) \in Slots
  <2>1. empty \in SUBSET Slots
    OBVIOUS
  <2> QED BY <2>1, MinIsMember
<1> HIDE DEF p, match, empty
<1> QED BY <1>2, <1>4, <1>5, <1>6, <1>7

LEMMA RemoveKeepsTable ==
    ASSUME NEW t \in Table, NEW ciaddr, NEW mac
    PROVE  remove_dhcp_lease(t, ciaddr, mac) \in Table
BY DEF remove_dhcp_lease, Table

LEMMA InitTypeOK == Init => TypeOK
BY DhcpLeasesAssumption DEF Init, TypeOK

LEMMA NextTypeOK == TypeOK /\ [Next]_vars => TypeOK'
<1> SUFFICES ASSUME TypeOK, [Next]_vars PROVE TypeOK'
  OBVIOUS
<1> USE DhcpLeasesAssumption
<1>0. table \in Table
  BY DEF TypeOK, Table
<1>1. CASE Tick
  BY <1>1 DEF Tick, TypeOK
<1>2. ASSUME NEW mac \in Macs, NEW ip \in Addrs, Acknowledge(mac, ip) PROVE TypeOK'
  <2>1. PICK e \in Event : e = [iface |-> Port[mac], ip |-> ip, mac |-> mac]
    BY DEF Event
  <2>2. RowOf(e, clock) \in Row
    BY RowOfEvent DEF TypeOK
  <2>3. bound' = [bound EXCEPT ![mac] = RowOf(e, clock)]
    BY <1>2, <2>1 DEF Acknowledge
  <2>4. bound' \in [Macs -> Row \cup {NoRow}]
    BY <2>2, <2>3 DEF TypeOK
  <2>5. evq' \in Seq(Event) /\ Len(evq') <= QueueLen
    <3>1. evq' = IF Len(evq) < QueueLen THEN Append(evq, e) ELSE evq
      BY <1>2, <2>1 DEF Acknowledge
    <3>2. evq \in Seq(Event) /\ Len(evq) <= QueueLen
      BY DEF TypeOK
    <3> QED BY <3>1, <3>2
  <2> QED BY <1>2, <2>4, <2>5 DEF Acknowledge, TypeOK
<1>3. ASSUME NEW mac \in Macs, NEW ciaddr \in Addrs \cup {0}, GiveUp(mac, ciaddr) PROVE TypeOK'
  <2>1. table' \in Table
    BY <1>0, <1>3, RemoveKeepsTable DEF GiveUp
  <2> QED BY <1>3, <2>1 DEF GiveUp, TypeOK, Table
<1>4. CASE RecordBegin
  BY <1>4 DEF RecordBegin, TypeOK
<1>5. CASE RecordCommit
  <2>1. rec.event \in Event /\ rec.now \in 0 .. MaxTime
    BY <1>5 DEF RecordCommit, TypeOK
  <2>2. table' \in Table
    BY <1>0, <1>5, <2>1, RecordKeepsTable DEF RecordCommit
  <2> QED BY <1>5, <2>2 DEF RecordCommit, TypeOK, Table
<1>6. CASE GetBegin
  BY <1>6 DEF GetBegin, TypeOK
<1>7. CASE GetCommit
  <2>1. get.now \in Nat
    BY <1>7 DEF GetCommit, TypeOK
  <2>2. table' \in Table
    BY <1>0, <1>7, <2>1, PruneKeepsTable DEF GetCommit
  <2> QED BY <1>7, <2>2 DEF GetCommit, TypeOK, Table
<1>8. CASE UNCHANGED vars
  BY <1>8 DEF vars, TypeOK
<1> QED BY <1>1, <1>2, <1>3, <1>4, <1>5, <1>6, <1>7, <1>8 DEF Next

\* The table has a row or none in every slot, and never a slot more, whatever
\* the number of its slots.
THEOREM TypeCorrect == Spec => []TypeOK
BY InitTypeOK, NextTypeOK, PTL DEF Spec
-----------------------------------------------------------------------------
(* What the action properties rest on: no row and no binding is from the   *)
(* future, httpd's task is held up for MaxWait at most, and the server has  *)
(* no two clients at one address.                                          *)

RowsArePast ==
    /\ \A i \in Slots : table[i] # NoRow => table[i].at <= clock
    /\ \A mac \in Macs : bound[mac] # NoRow => bound[mac].at <= clock

\* The event loop's task alone writes rows: all of them are from before it read
\* the counter for the next.
RecordIsPunctual ==
    rec # NoCall =>
       /\ rec.now <= clock
       /\ \A i \in Slots : table[i] # NoRow => table[i].at <= rec.now

GetIsPunctual ==
    get # NoCall => get.now <= clock /\ clock <= get.now + MaxWait

BoundDistinct ==
    \A m1, m2 \in Macs :
       m1 # m2 /\ Current(bound[m1]) /\ Current(bound[m2]) => bound[m1].ip # bound[m2].ip

LeaseInvariant ==
    TypeOK /\ RowsArePast /\ RecordIsPunctual /\ GetIsPunctual /\ BoundDistinct
\* What is in a table after an operation was in it before, or is the new row.
LEMMA PruneKeepsOrEmpties ==
    ASSUME NEW t, NEW now, NEW i \in Slots
    PROVE  prune(t, now)[i] \in {t[i], NoRow}
BY DEF prune

LEMMA RecordKeepsOrReplaces ==
    ASSUME NEW t \in Table, NEW e, NEW now, NEW i \in Slots
    PROVE  record_dhcp_lease(t, e, now)[i] \in {t[i], NoRow, RowOf(e, now)}
<1> DEFINE p == prune(t, now)
           match == {j \in Slots : matches(p[j], e)}
           empty == {j \in Slots : p[j] = NoRow}
<1>1. p[i] \in {t[i], NoRow} /\ DOMAIN p = Slots
  BY PruneKeepsOrEmpties DEF prune
<1>2. \A j : [p EXCEPT ![j] = RowOf(e, now)][i] \in {t[i], NoRow, RowOf(e, now)}
  BY <1>1 DEF prune
<1>3. \/ record_dhcp_lease(t, e, now) = p
      \/ record_dhcp_lease(t, e, now) = [p EXCEPT ![Min(match)] = RowOf(e, now)]
      \/ record_dhcp_lease(t, e, now) = [p EXCEPT ![Min(empty)] = RowOf(e, now)]
  BY DEF record_dhcp_lease
<1> HIDE DEF p, match, empty
<1> QED BY <1>1, <1>2, <1>3

LEMMA RemoveKeepsOrEmpties ==
    ASSUME NEW t, NEW ciaddr, NEW mac, NEW i \in Slots
    PROVE  remove_dhcp_lease(t, ciaddr, mac)[i] \in {t[i], NoRow}
BY DEF remove_dhcp_lease

LEMMA InitLeaseInvariant == Init => LeaseInvariant
<1> SUFFICES ASSUME Init PROVE LeaseInvariant
  OBVIOUS
<1>1. TypeOK
  BY InitTypeOK
<1>2. RowsArePast /\ RecordIsPunctual /\ GetIsPunctual /\ BoundDistinct
  BY DEF Init, RowsArePast, RecordIsPunctual, GetIsPunctual, BoundDistinct, Current
<1> QED BY <1>1, <1>2 DEF LeaseInvariant

LEMMA NextLeaseInvariant == LeaseInvariant /\ [Next]_vars => LeaseInvariant'
<1> SUFFICES ASSUME LeaseInvariant, [Next]_vars PROVE LeaseInvariant'
  OBVIOUS
<1> USE DhcpLeasesAssumption
<1>0. TypeOK /\ TypeOK'
  BY NextTypeOK DEF LeaseInvariant
<1>a. clock \in Nat /\ clock' \in Nat /\ table \in Table
  BY <1>0 DEF TypeOK, Table
<1>b. /\ \A i \in Slots : table[i] # NoRow => table[i].at \in Nat
      /\ \A mac \in Macs : bound[mac] # NoRow => bound[mac].at \in Nat
  BY <1>0 DEF TypeOK, Row
<1>c. (rec # NoCall => rec.now \in Nat) /\ (get # NoCall => get.now \in Nat)
  BY <1>0 DEF TypeOK
<1>d. RowsArePast /\ RecordIsPunctual /\ GetIsPunctual /\ BoundDistinct
  BY DEF LeaseInvariant
<1> SUFFICES RowsArePast' /\ RecordIsPunctual' /\ GetIsPunctual' /\ BoundDistinct'
  BY <1>0 DEF LeaseInvariant
<1>1. CASE Tick
  <2>1. clock' = clock + 1 /\ UNCHANGED <<table, evq, rec, get, bound>>
    BY <1>1 DEF Tick
  <2>2. RowsArePast' /\ RecordIsPunctual'
    BY <1>a, <1>b, <1>c, <1>d, <2>1 DEF RowsArePast, RecordIsPunctual
  <2>3. get # NoCall => clock - get.now < MaxWait
    BY <1>1 DEF Tick
  <2>4. GetIsPunctual'
    BY <1>a, <1>c, <1>d, <2>1, <2>3 DEF GetIsPunctual
  <2>5. \A mac \in Macs : Current(bound[mac])' => Current(bound[mac])
    BY <1>a, <1>b, <2>1 DEF Current
  <2>6. BoundDistinct'
    BY <1>d, <2>1, <2>5 DEF BoundDistinct
  <2> QED BY <2>2, <2>4, <2>6
<1>2. ASSUME NEW mac \in Macs, NEW ip \in Addrs, Acknowledge(mac, ip)
      PROVE  RowsArePast' /\ RecordIsPunctual' /\ GetIsPunctual' /\ BoundDistinct'
  <2>1. PICK row : row = RowOf([iface |-> Port[mac], ip |-> ip, mac |-> mac], clock)
    OBVIOUS
  <2>2. /\ bound' = [bound EXCEPT ![mac] = row]
        /\ UNCHANGED <<table, clock, rec, get>>
        /\ \A m \in Macs \ {mac} : Current(bound[m]) => bound[m].ip # ip
    BY <1>2, <2>1 DEF Acknowledge
  <2>3. row.at = clock /\ row.ip = ip
    BY <2>1 DEF RowOf
  <2>4. bound'[mac] = row /\ \A m \in Macs \ {mac} : bound'[m] = bound[m]
    BY <1>0, <2>2 DEF TypeOK
  <2>5. RowsArePast' /\ RecordIsPunctual' /\ GetIsPunctual'
    BY <1>a, <1>d, <2>2, <2>3, <2>4 DEF RowsArePast, RecordIsPunctual, GetIsPunctual
  <2>6. BoundDistinct'
    BY <1>d, <2>2, <2>3, <2>4 DEF BoundDistinct, Current
  <2> QED BY <2>5, <2>6
<1>3. ASSUME NEW mac \in Macs, NEW ciaddr \in Addrs \cup {0}, GiveUp(mac, ciaddr)
      PROVE  RowsArePast' /\ RecordIsPunctual' /\ GetIsPunctual' /\ BoundDistinct'
  <2>1. /\ bound' = [bound EXCEPT ![mac] = NoRow]
        /\ table' = remove_dhcp_lease(table, ciaddr, mac)
        /\ UNCHANGED <<clock, rec, get>>
    BY <1>3 DEF GiveUp
  <2>2. \A i \in Slots : table'[i] \in {table[i], NoRow}
    BY <2>1, RemoveKeepsOrEmpties
  <2>3. \A m \in Macs : bound'[m] \in {bound[m], NoRow}
    BY <1>0, <2>1 DEF TypeOK
  <2>4. RowsArePast' /\ RecordIsPunctual' /\ GetIsPunctual'
    BY <1>d, <2>1, <2>2, <2>3 DEF RowsArePast, RecordIsPunctual, GetIsPunctual
  <2>5. BoundDistinct'
    BY <1>d, <2>1, <2>3 DEF BoundDistinct, Current
  <2> QED BY <2>4, <2>5
<1>4. CASE RecordBegin
  <2>1. rec'.now = clock /\ UNCHANGED <<table, clock, get, bound>>
    BY <1>4 DEF RecordBegin
  <2> QED BY <1>a, <1>d, <2>1
          DEF RowsArePast, RecordIsPunctual, GetIsPunctual, BoundDistinct, Current
<1>5. CASE RecordCommit
  <2>1. /\ rec # NoCall /\ rec' = NoCall
        /\ table' = record_dhcp_lease(table, rec.event, rec.now)
        /\ UNCHANGED <<clock, get, bound>>
    BY <1>5 DEF RecordCommit
  <2>2. \A i \in Slots : table'[i] \in {table[i], NoRow, RowOf(rec.event, rec.now)}
    BY <1>a, <2>1, RecordKeepsOrReplaces
  <2>3. RowOf(rec.event, rec.now).at = rec.now /\ rec.now <= clock
    BY <1>d, <2>1 DEF RowOf, RecordIsPunctual
  <2>4. RowsArePast'
    BY <1>d, <2>1, <2>2, <2>3 DEF RowsArePast
  <2>5. RecordIsPunctual' /\ GetIsPunctual' /\ BoundDistinct'
    BY <1>d, <2>1 DEF RecordIsPunctual, GetIsPunctual, BoundDistinct, Current
  <2> QED BY <2>4, <2>5
<1>6. CASE GetBegin
  <2>1. get'.now = clock /\ UNCHANGED <<table, clock, rec, bound>>
    BY <1>6 DEF GetBegin
  <2> QED BY <1>a, <1>d, <2>1
          DEF RowsArePast, RecordIsPunctual, GetIsPunctual, BoundDistinct, Current
<1>7. CASE GetCommit
  <2>1. /\ get' = NoCall /\ table' = prune(table, get.now)
        /\ UNCHANGED <<clock, rec, bound>>
    BY <1>7 DEF GetCommit
  <2>2. \A i \in Slots : table'[i] \in {table[i], NoRow}
    BY <2>1, PruneKeepsOrEmpties
  <2> QED BY <1>d, <2>1, <2>2
          DEF RowsArePast, RecordIsPunctual, GetIsPunctual, BoundDistinct, Current
<1>8. CASE UNCHANGED vars
  BY <1>d, <1>8
     DEF vars, RowsArePast, RecordIsPunctual, GetIsPunctual, BoundDistinct, Current
<1> QED BY <1>1, <1>2, <1>3, <1>4, <1>5, <1>6, <1>7, <1>8 DEF Next

THEOREM LeaseInvariantHolds == Spec => []LeaseInvariant
BY InitLeaseInvariant, NextLeaseInvariant, PTL DEF Spec
-----------------------------------------------------------------------------
(* The action properties *)

\* A row that survives the pruning and matches nothing is left where it is.
LEMMA RecordKeepsSlot ==
    ASSUME NEW t \in Table, NEW e, NEW now, NEW i \in Slots,
           t[i] # NoRow, ~ expired(t[i], now), ~ matches(t[i], e)
    PROVE  record_dhcp_lease(t, e, now)[i] = t[i]
<1> DEFINE p == prune(t, now)
           match == {j \in Slots : matches(p[j], e)}
           empty == {j \in Slots : p[j] = NoRow}
<1>1. p[i] = t[i] /\ DOMAIN p = Slots
  BY DEF prune
<1>2. i \notin match /\ i \notin empty
  BY <1>1
<1>3. match # {} => Min(match) # i
  <2>1. match \in SUBSET Slots
    OBVIOUS
  <2> QED BY <1>2, <2>1, MinIsMember
<1>4. empty # {} => Min(empty) # i
  <2>1. empty \in SUBSET Slots
    OBVIOUS
  <2> QED BY <1>2, <2>1, MinIsMember
<1>5. \A j : j # i => [p EXCEPT ![j] = RowOf(e, now)][i] = t[i]
  BY <1>1 DEF prune
<1>6. \/ record_dhcp_lease(t, e, now) = p
      \/ match # {} /\ record_dhcp_lease(t, e, now) = [p EXCEPT ![Min(match)] = RowOf(e, now)]
      \/ empty # {} /\ record_dhcp_lease(t, e, now) = [p EXCEPT ![Min(empty)] = RowOf(e, now)]
  BY DEF record_dhcp_lease
<1> HIDE DEF p, match, empty
<1> QED BY <1>1, <1>3, <1>4, <1>5, <1>6

LEMMA NextRecordingKeepsOthers ==
    ASSUME LeaseInvariant, RecordCommit, Stands(rec.event),
           NEW i \in Slots, Stands(table[i]), Current(table[i]),
           table[i].mac # rec.event.mac
    PROVE  table'[i] = table[i]
<1>1. TypeOK /\ RecordIsPunctual /\ BoundDistinct
  BY DEF LeaseInvariant
<1>2. rec # NoCall /\ table' = record_dhcp_lease(table, rec.event, rec.now)
  BY DEF RecordCommit
<1>3. PICK e \in Event : e = rec.event
  BY <1>1, <1>2 DEF TypeOK
<1>4. PICK now \in Nat : now = rec.now
  BY <1>1, <1>2, DhcpLeasesAssumption DEF TypeOK
<1>5. PICK row \in Row : row = table[i] /\ row # NoRow
  BY <1>1 DEF TypeOK, Stands
<1>6. ~ expired(row, now)
  <2>1. row.at \in Nat /\ clock \in Nat /\ LeaseTicks \in Nat /\ TickMod \in Nat /\ LeaseTicks <= TickMod
    BY <1>1, DhcpLeasesAssumption DEF TypeOK, Row
  <2>2. row.at <= now /\ now <= clock
    BY <1>1, <1>2, <1>4, <1>5 DEF RecordIsPunctual
  <2>3. now - row.at < LeaseTicks
    BY <1>5, <2>1, <2>2 DEF Current
  <2>4. elapsed(row, now) = now - row.at
    BY <2>1, <2>2, <2>3, ElapsedIsAge
  <2> QED BY <2>1, <2>3, <2>4 DEF expired
<1>7. ~ matches(row, e)
  <2>1. row.mac \in Macs /\ e.mac \in Macs /\ row.mac # e.mac
    BY <1>3, <1>5 DEF Row, Event
  <2>2. /\ Current(bound[row.mac]) /\ bound[row.mac].ip = row.ip
        /\ Current(bound[e.mac]) /\ bound[e.mac].ip = e.ip
    BY <1>3, <1>5 DEF Stands
  <2>3. row.ip # e.ip
    BY <1>1, <2>1, <2>2 DEF BoundDistinct
  <2> QED BY <2>1, <2>3 DEF matches
<1>8. table \in Table
  BY <1>1 DEF TypeOK, Table
<1> QED BY <1>2, <1>3, <1>4, <1>5, <1>6, <1>7, <1>8, RecordKeepsSlot

\* Recording a lease never costs another client the row of a lease that stands,
\* whatever the size of the table and wherever the counter wraps.
THEOREM RecordingKeepsOthersHolds == Spec => RecordingKeepsOthers
<1>1. LeaseInvariant /\ [Next]_vars =>
        [RecordCommit /\ Stands(rec.event) =>
           \A i \in Slots : /\ Stands(table[i]) /\ Current(table[i])
                            /\ table[i].mac # rec.event.mac
                            => table'[i] = table[i]]_vars
  BY NextRecordingKeepsOthers
<1> QED BY <1>1, LeaseInvariantHolds, PTL DEF Spec, RecordingKeepsOthers

\* A row that is not pruned is younger than a lease, if it is younger than the
\* counter's range: one recorded after the counter was read is always pruned.
LEMMA UnprunedIsYoung ==
    ASSUME NEW row, row.at \in Nat, NEW now \in Nat,
           row.at <= now + MaxWait, now - row.at < TickMod, ~ expired(row, now)
    PROVE  elapsed(row, now) = now - row.at /\ now - row.at \in 0 .. LeaseTicks - 1
<1>1. /\ LeaseTicks \in Nat \ {0} /\ MaxWait \in Nat /\ TickMod \in Nat
      /\ LeaseTicks + MaxWait <= TickMod
  BY DhcpLeasesAssumption
<1>2. elapsed(row, now) < LeaseTicks
  <2>1. PICK el \in Int : el = elapsed(row, now)
    <3>1. CASE row.at <= now
      BY <3>1, ElapsedIsAge
    <3>2. CASE now < row.at
      <4>1. row.at - now < TickMod
        BY <1>1
      <4>2. elapsed(row, now) = TickMod - (row.at - now)
        BY <3>2, <4>1, ElapsedOfLater
      <4> QED BY <1>1, <4>2
    <3> QED BY <3>1, <3>2
  <2> QED BY <1>1, <2>1 DEF expired
<1>3. row.at <= now
  <2>1. SUFFICES ASSUME now < row.at PROVE FALSE
    OBVIOUS
  <2>2. row.at - now < TickMod
    BY <1>1
  <2>3. elapsed(row, now) = TickMod - (row.at - now)
    BY <2>1, <2>2, ElapsedOfLater
  <2> QED BY <1>1, <1>2, <2>3
<1>4. elapsed(row, now) = now - row.at
  BY <1>3, ElapsedIsAge
<1> QED BY <1>1, <1>2, <1>3, <1>4

LEMMA NextShownHaveNotRunOut ==
    ASSUME LeaseInvariant, GetCommit, NEW r \in Shown(table', get.now),
           get.now - r.lease.at < TickMod
    PROVE  /\ r.remaining = LeaseTicks - (get.now - r.lease.at)
           /\ r.remaining \in 1 .. LeaseTicks
<1>1. TypeOK /\ GetIsPunctual /\ RowsArePast
  BY DEF LeaseInvariant
<1>2. get # NoCall /\ table' = prune(table, get.now)
  BY DEF GetCommit
<1>3. PICK now \in Nat : now = get.now
  BY <1>1, <1>2, DhcpLeasesAssumption DEF TypeOK
<1>4. PICK i \in Slots :
        /\ table'[i] # NoRow
        /\ r = [lease |-> table'[i],
                remaining |-> IF expired(table'[i], now) THEN 0
                              ELSE LeaseTicks - elapsed(table'[i], now)]
  BY <1>3 DEF Shown
<1>5. table'[i] = table[i] /\ ~ expired(table[i], now)
  BY <1>2, <1>3, <1>4 DEF prune
<1>6. PICK row \in Row : row = table[i]
  BY <1>1, <1>4, <1>5 DEF TypeOK
<1>7. r.lease = row /\ r.remaining = LeaseTicks - elapsed(row, now)
  BY <1>4, <1>5, <1>6
<1>8. row.at \in Nat /\ row.at <= now + MaxWait
  <2>1. clock \in Nat /\ row.at \in Nat /\ MaxWait \in Nat
    BY <1>1, DhcpLeasesAssumption DEF TypeOK, Row
  <2>2. row.at <= clock /\ clock <= now + MaxWait
    BY <1>1, <1>2, <1>3, <1>4, <1>5, <1>6 DEF GetIsPunctual, RowsArePast
  <2> QED BY <2>1, <2>2
<1>9. elapsed(row, now) = now - row.at /\ now - row.at \in 0 .. LeaseTicks - 1
  BY <1>3, <1>5, <1>6, <1>7, <1>8, UnprunedIsYoung
<1> QED BY <1>3, <1>7, <1>8, <1>9, DhcpLeasesAssumption

\* A page shows no lease that had run out and the time that is left of the others,
\* whatever the counter stood at when it was read and however late the lock came.
THEOREM ShownHaveNotRunOutHolds == Spec => ShownHaveNotRunOut
<1>1. LeaseInvariant /\ [Next]_vars =>
        [GetCommit => \A r \in Shown(table', get.now) :
                        get.now - r.lease.at < TickMod =>
                           /\ r.remaining = LeaseTicks - (get.now - r.lease.at)
                           /\ r.remaining \in 1 .. LeaseTicks]_vars
  BY NextShownHaveNotRunOut
<1> QED BY <1>1, LeaseInvariantHolds, PTL DEF Spec, ShownHaveNotRunOut
=============================================================================
