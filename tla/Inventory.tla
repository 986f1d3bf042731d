------------------------------ MODULE Inventory ------------------------------
(***************************************************************************)
(* What the pages show of a device from the output a backup saved: the     *)
(* members of a stack (nccm/parsers/stack.py, _sync_stack_units and        *)
(* list_inventory_display of storage/index_db.py) and the neighbours with  *)
(* the devices they lead to (parsers/cdp_lldp.py, inventory/neighbors.py). *)
(*                                                                         *)
(* An output is a sequence of lines, a line what the patterns of the       *)
(* parsers tell apart: its shape and the names in it.  Beside what the     *)
(* parsers are given stands what the device meant (history).               *)
(***************************************************************************)
EXTENDS Integers, Sequences, FiniteSets, SequencesExt

CONSTANTS
    NDevices,       \* bound: devices, in the order of the list
    HostNames,      \* names up to the first dot; none has a part like an interface ("site1")
    LocalPorts,     \* interfaces of the device, and of its neighbours: what
    RemotePorts,    \* _IFACE_TOKEN recognises
    Slots,          \* numbers of the members of a stack
    Subjects,       \* bound: the devices that have neighbours or are stacks of switches
    MaxEntries      \* bound: neighbours of a device

ASSUME InventoryAssumption == NDevices \in Nat /\ MaxEntries \in Nat /\ Slots \subseteq Nat
                              /\ IsFiniteSet(Slots) /\ Subjects \subseteq 1..NDevices

VARIABLES
    catalog,    \* of each device: name, vendor, saved outputs, stack_units
    meant       \* of each device: the neighbours and the members it has (history)

inventoryVars == <<catalog, meant>>

NoName == "none"        \* System Name that is not advertised
Foreign == "foreign"    \* a port that is no interface name: eno1
Unknown == -1           \* no serial number
Devices == 1..NDevices

\* A neighbour; odd is the case its table has trouble with (see Lines).
Interfaces == LocalPorts \cup RemotePorts
Entries == [host : HostNames \cup {NoName}, local : LocalPorts,
            port : RemotePorts \cup {Foreign}, odd : BOOLEAN]
NoStack == [of |-> {}, first |-> 0, listed |-> {}, names |-> <<>>]
NoDevice == [vendor |-> "none", host |-> NoName, cdp |-> <<>>, lldp |-> <<>>, units |-> {}]
NoTruth == [cdp |-> <<>>, cdpForm |-> "missing", lldp |-> <<>>, lldpForm |-> "missing", stack |-> NoStack]

Known == {d \in Devices : catalog[d] # NoDevice}
-----------------------------------------------------------------------------
\* What the devices print.  In a CDP table a name too long for its column has a
\* line of its own; in an LLDP table the column of the capabilities may be empty;
\* in a Huawei table two columns may touch.  An LLDP block of IOS begins with a line of
\* dashes and names the local interface first, or after the port of the neighbour, as
\* tests/fixtures/cisco/lldp_neighbors_detail.txt does; one of NX-OS ends with a
\* blank line only.
Block(e) == <<[is |-> "Port id", iface |-> e.port], [is |-> "Local Port id", iface |-> e.local],
              [is |-> "System Name", host |-> e.host]>>
Lines(form, e) ==
    CASE form = "CDP table" /\ e.odd -> <<[is |-> "name", host |-> e.host],
                                          [is |-> "rest", local |-> e.local, port |-> e.port]>>
      [] form = "CDP detail" -> <<[is |-> "device", host |-> e.host], [is |-> "blank"],
                                  [is |-> "interface", local |-> e.local, port |-> e.port]>>
      [] form = "LLDP detail" /\ ~e.odd ->
            <<[is |-> "dashes"], [is |-> "Local Intf", iface |-> e.local],
              [is |-> "Port id", iface |-> e.port], [is |-> "System Name", host |-> e.host]>>
      [] form = "LLDP detail" /\ e.odd -> <<[is |-> "dashes"]>> \o Block(e)
      [] form = "NX-OS detail" -> Block(e)
      [] OTHER -> <<[is |-> form, host |-> e.host, local |-> e.local, port |-> e.port, odd |-> e.odd]>>

Printed(form, entries) ==
    CASE form = "missing" -> <<>>
      [] form = "error" -> <<[is |-> "error"]>>
      [] OTHER -> <<[is |-> "header", form |-> form]>>
                  \o FlattenSeq([i \in DOMAIN entries |-> Append(Lines(form, entries[i]), [is |-> "blank"])])
                  \o <<[is |-> "total"]>>
-----------------------------------------------------------------------------
\* _extract_iface_pair: the first and the last interface name of a line.
HasPair(l) == l.is \in {"CDP table", "rest", "LLDP table"} /\ l.local \in Interfaces /\ l.port \in Interfaces

Neighbor(host, l) == [host |-> host, local |-> l.local, port |-> l.port]
FirstWord(l) == IF l.is = "rest" THEN l.local ELSE l.host

\* The table ends at its total.
UpToTotal(text) == LET end == SelectInSeq(text, LAMBDA l : l.is = "total")
                   IN  IF end = 0 THEN text ELSE SubSeq(text, 1, end - 1)

\* Seeded fault: the rest of a name's entry is read again.
StepOne(text, i) == 1

\* A name alone and the line after it are one entry.
Step(text, i) == IF text[i].is = "name" THEN 2 ELSE 1

\* _parse_show_cdp_neighbors_brief.  A name alone without a pair after it is no
\* entry, nor is a line without a pair.
CdpTable(text) ==
    LET t == UpToTotal(text)
        from[i \in 1..Len(t) + 2] ==
          IF i > Len(t) THEN <<>>
          ELSE IF t[i].is = "name" /\ i < Len(t) /\ HasPair(t[i + 1])
               THEN <<Neighbor(t[i].host, t[i + 1])>> \o from[i + Step(t, i)]
          ELSE (IF HasPair(t[i]) THEN <<Neighbor(FirstWord(t[i]), t[i])>> ELSE <<>>) \o from[i + 1]
    IN  from[1]

\* What is not in the rows yet is added.
AddNew(rows, row) == IF row \in ToSet(rows) THEN rows ELSE Append(rows, row)

\* _parse_show_cdp_neighbors_detail: an interface belongs to the last device above it.
CdpDetail(text) ==
    LET Read(s, l) ==
          CASE l.is = "device" -> [s EXCEPT !.host = l.host]
            [] l.is = "interface" /\ s.host # NoName -> [s EXCEPT !.rows = AddNew(@, Neighbor(s.host, l))]
            [] OTHER -> s
    IN  FoldLeft(Read, [host |-> NoName, rows |-> <<>>], text).rows

\* parse_show_cdp_neighbors, parse_show_lldp_neighbors: the detailed form, and the table
\* when that gave nothing.
Either(detail, table) == IF detail # <<>> THEN detail ELSE table
Cdp(text) == Either(CdpDetail(text), CdpTable(text))

\* _parse_show_lldp_neighbors_brief: all columns, or else two interface names.
LldpTable(text) ==
    LET rows == SelectSeq(UpToTotal(text), LAMBDA l : l.is = "LLDP table" /\ (~l.odd \/ HasPair(l)))
    IN  [i \in DOMAIN rows |-> Neighbor(rows[i].host, rows[i])]

\* re.split: a line of dashes begins a block, and nothing else does.
Blocks(text) ==
    LET Read(blocks, l) == IF l.is = "dashes" THEN Append(blocks, <<>>)
                           ELSE [blocks EXCEPT ![Len(blocks)] = Append(@, l)]
    IN  FoldLeft(Read, << <<>> >>, text)

\* "Port id" is also found in "Local Port id", and passed over where no interface follows.
SaysPort(l) == l.is \in {"Port id", "Local Port id"} /\ l.iface \in Interfaces

\* _parse_show_lldp_neighbors_detail: of each block the first line that says the local
\* interface, the first that says a port and the first that says a name, if it has all.
LldpDetail(text) ==
    LET Add(rows, b) ==
          LET port  == SelectInSeq(b, SaysPort)
              name  == SelectInSeq(b, LAMBDA l : l.is = "System Name" /\ l.host # NoName)
              id    == SelectInSeq(b, LAMBDA l : l.is = "Local Port id")
              local == IF id # 0 THEN id ELSE SelectInSeq(b, LAMBDA l : l.is = "Local Intf")
          IN  IF 0 \in {local, port, name} THEN rows
              ELSE AddNew(rows, [host |-> b[name].host, local |-> b[local].iface,
                                 port |-> b[port].iface])
    IN  FoldLeft(Add, <<>>, Blocks(text))

Lldp(text) == Either(LldpDetail(text), LldpTable(text))

\* parse_huawei_lldp_neighbor_brief: the header says which columns follow; rows
\* that do not fit them, or have too few, are left out.
LldpHuawei(text) ==
    LET Read(s, l) ==
          CASE l.is = "header" -> [s EXCEPT !.layout = l.form]
            [] l.is = s.layout /\ ~l.odd -> [s EXCEPT !.rows = Append(@, Neighbor(l.host, l))]
            [] OTHER -> s
    IN  FoldLeft(Read, [layout |-> "dev first", rows |-> <<>>], UpToTotal(text)).rows
-----------------------------------------------------------------------------
Failed(text) == text = <<>> \/ text[1].is = "error"

\* neighbors_from_backup_snapshot.  Cisco's LLDP is not asked when its CDP is.
UsesCdp(c) == c.vendor # "huawei"
UsesLldp(c) == c.vendor # "cisco" \/ Failed(c.cdp)
NeighborRows(c) ==
    LET Tagged(protocol, rows) == [i \in DOMAIN rows |-> <<protocol, rows[i]>>]
        cdp == IF UsesCdp(c) /\ ~Failed(c.cdp) THEN Cdp(c.cdp) ELSE <<>>
        lldp == IF ~UsesLldp(c) \/ Failed(c.lldp) THEN <<>>
                ELSE IF c.vendor = "huawei" THEN LldpHuawei(c.lldp) ELSE Lldp(c.lldp)
    IN  FoldLeft(AddNew, <<>>, Tagged("CDP", cdp) \o Tagged("LLDP", lldp))
-----------------------------------------------------------------------------
\* What a stack prints: its members, the first among them, the members whose serial
\* number stands beside their own number, and the names members have in a cluster.
\* A serial number is the number of its member.
StacksOf(members, listed) ==
    [of : {members}, first : members, listed : listed, names : {<<>>}]
CiscoStacks ==
    UNION {{s \in StacksOf(m, SUBSET m) : m \ {s.first} \subseteq s.listed} :
              m \in {m \in SUBSET Slots : 0 \notin m /\ Cardinality(m) >= 2}}
HuaweiStacks ==
    UNION {StacksOf(m, SUBSET m) :
              m \in {m \in SUBSET Slots : Cardinality(m) >= 2 /\ m = Min(m)..Max(m)}}
Clusters == [of : {1..2}, first : {1}, listed : {1..2}, names : [1..2 -> HostNames]]
Stacks(vendor) == CASE vendor = "cisco" -> CiscoStacks [] vendor = "huawei" -> HuaweiStacks
                    [] OTHER -> {}

\* The place of a number among others, and the numbers by their places.
Position(S, n) == Cardinality({k \in S : k <= n})
Sorted(S) == [k \in 1..Cardinality(S) |-> CHOOSE n \in S : Position(S, n) = k]

Unit(num, role, serial, host) == [num |-> num, role |-> role, serial |-> serial, host |-> host]
RoleOf(s, n) == IF n = s.first THEN "Master" ELSE "Standby"

\* _backfill_stack_serials: a member without a block of its own gets the serial
\* number at its place in the order they are printed, the active member's before the
\* blocks.
Backfilled(s, n) ==
    LET printed == <<s.first>> \o Sorted(s.listed \ {s.first})
        i == Position(s.of, n)
    IN  CASE n \in s.listed -> n
          [] n \notin s.listed /\ i <= Len(printed) -> printed[i]
          [] n \notin s.listed /\ i > Len(printed) -> IF n = s.first THEN printed[1] ELSE Unknown

\* parse_cisco_stack_units: the row of the port table gives the role, the block of
\* the member its serial number.
CiscoUnits(s) == {Unit(n, RoleOf(s, n), Backfilled(s, n), NoName) : n \in s.of}

\* Numbers begin at 1: slots that begin at 0 are moved up.
Offset(slots) == IF Min(slots) >= 1 THEN 0 ELSE 1

\* Seeded fault: the slot is the number of the unit.
SlotAsNumbered(num, listed) == IF num \in listed THEN num ELSE Unknown

\* enrich_huawei_stack_with_manufacture: back from the number of a unit to its slot,
\* moved by what the rows of the manufacture table say.
SlotOf(num, listed) ==
    LET slot == num - (IF listed = {} THEN 0 ELSE Offset(listed))
    IN  CASE slot \in listed -> slot
          [] slot \notin listed /\ num \in listed -> num
          [] OTHER -> Unknown

\* parse_huawei_stack_units
HuaweiUnits(s) ==
    {LET num == n + Offset(s.of) IN Unit(num, RoleOf(s, n), SlotOf(num, s.listed), NoName) : n \in s.of}

\* parse_fortigate_ha_units: numbered with the primary first.
FortiUnits(s) ==
    {Unit(IF n = s.first THEN 1 ELSE 2, RoleOf(s, n), n, s.names[n]) : n \in s.of}

\* _sync_stack_units: a device that is no stack has no units.
Units(vendor, s) ==
    CASE vendor = "cisco" -> CiscoUnits(s)
      [] vendor = "huawei" -> HuaweiUnits(s)
      [] vendor = "fortinet" -> FortiUnits(s)
      [] OTHER -> {}
-----------------------------------------------------------------------------
\* The rows list_inventory_display makes of a device: the anchor, which is the
\* first with the role of a master, then the others by number.
Anchor(units) ==
    LET masters == {u \in units : u.role = "Master"}
        among == IF masters # {} THEN masters ELSE units
    IN  CHOOSE u \in among : \A v \in among : u.num <= v.num

\* member_display_hostname: a name of its own, or the name of the stack and a number.
Shown(d, u, anchor) ==
    [device |-> d, num |-> u.num, role |-> u.role, serial |-> u.serial, anchor |-> anchor,
     host |-> IF u.host # NoName THEN u.host ELSE <<catalog[d].host, u.num>>]

RowsOf(d) ==
    LET units == catalog[d].units
        others == units \ {Anchor(units)}
        nums == Sorted({u.num : u \in others})
    IN  IF units = {}
        THEN <<[device |-> d, num |-> 0, role |-> "-", serial |-> Unknown, anchor |-> TRUE,
                host |-> catalog[d].host]>>
        ELSE <<Shown(d, Anchor(units), TRUE)>>
             \o [i \in DOMAIN nums |-> Shown(d, CHOOSE u \in others : u.num = nums[i], FALSE)]

DisplayRows == FlattenSeq([d \in Devices |-> IF d \in Known THEN RowsOf(d) ELSE <<>>])

\* build_hostname_lookup, _resolve_remote_key: the first row of that name.
Resolved(host) ==
    LET i == SelectInSeq(DisplayRows, LAMBDA r : r.host = host)
    IN  IF i = 0 THEN <<>> ELSE <<DisplayRows[i]>>
-----------------------------------------------------------------------------
Count(t) == Len(t.cdp) + Len(t.lldp)

\* A backup saves the outputs of a device and indexes them; stack_units are written
\* anew.  Bounds: MaxEntries; a device has neighbours or is a stack.
Backup(d, vendor, host, t) ==
    /\ Count(t) <= MaxEntries /\ (t.stack = NoStack \/ Count(t) = 0)
    /\ meant' = [meant EXCEPT ![d] = t]
    /\ catalog' = [catalog EXCEPT ![d] =
          [vendor |-> vendor, host |-> host, cdp |-> Printed(t.cdpForm, t.cdp),
           lldp |-> Printed(t.lldpForm, t.lldp), units |-> Units(vendor, t.stack)]]

\* Retention removed its last snapshot.
Forget(d) ==
    /\ d \in Known
    /\ catalog' = [catalog EXCEPT ![d] = NoDevice]
    /\ meant' = [meant EXCEPT ![d] = NoTruth]
-----------------------------------------------------------------------------
CdpForms(vendor) == IF vendor = "huawei" THEN {"missing"} ELSE {"missing", "error", "CDP table", "CDP detail"}
LldpForms(vendor) ==
    {"missing", "error"} \cup (IF vendor = "huawei" THEN {"dev first", "exptime mid"}
                               ELSE {"LLDP table", "LLDP detail", "NX-OS detail"})

\* Only an LLDP block can lack a name; a block of CDP or NX-OS is never odd.
Prints(form, n) ==
    IF form \in {"missing", "error"} THEN {<<>>}
    ELSE SeqOf({e \in Entries : (e.host = NoName => form \in {"LLDP detail", "NX-OS detail"})
                                /\ (e.odd => form \notin {"CDP detail", "NX-OS detail"})}, n)

InventoryInit == catalog = [d \in Devices |-> NoDevice] /\ meant = [d \in Devices |-> NoTruth]

\* Bounds: only Subjects have neighbours or are stacks of switches, and only a device
\* that is new gets neighbours.
InventoryNext ==
    \/ \E d \in Devices, host \in HostNames :
          \/ Backup(d, "other", host, NoTruth)
          \/ \E s \in Clusters : Backup(d, "fortinet", host, [NoTruth EXCEPT !.stack = s])
    \/ \E d \in Subjects, vendor \in {"cisco", "huawei", "other"}, host \in HostNames :
          \/ /\ Count(meant[d]) = 0
             /\ \E s \in Stacks(vendor) : Backup(d, vendor, host, [NoTruth EXCEPT !.stack = s])
          \/ /\ d \notin Known
             /\ \E cf \in CdpForms(vendor), lf \in LldpForms(vendor) :
                \E cdp \in Prints(cf, MaxEntries) : \E lldp \in Prints(lf, MaxEntries - Len(cdp)) :
                   Backup(d, vendor, host, [NoTruth EXCEPT !.cdpForm = cf, !.cdp = cdp,
                                                           !.lldpForm = lf, !.lldp = lldp])
    \/ \E d \in Devices : Forget(d)

InventorySpec == InventoryInit /\ [][InventoryNext]_inventoryVars
-----------------------------------------------------------------------------
\* Types.
InventoryTypeOK ==
    \A d \in Known :
       /\ catalog[d].host \in HostNames
       /\ \A u \in catalog[d].units :
             u.num \in Nat /\ u.role \in {"Master", "Standby"} /\ u.serial \in Slots \cup 1..2 \cup {Unknown}
       /\ Cardinality(catalog[d].units) # 1
       /\ \A u, v \in catalog[d].units : u.num = v.num => u = v

\* What the device says of a neighbour can be read from its output.
Readable(form, e) ==
    CASE form = "CDP table" -> e.port \in Interfaces
      [] form = "CDP detail" -> TRUE
      [] form = "LLDP table" -> ~e.odd \/ e.port \in Interfaces
      [] form \in {"LLDP detail", "NX-OS detail"} -> e.host # NoName /\ e.port \in Interfaces
      [] OTHER -> ~e.odd

\* The port of a neighbour, or the local one where a block says no other.
PortShown(form, e) ==
    IF form \in {"LLDP detail", "NX-OS detail"} /\ e.port \notin Interfaces THEN e.local ELSE e.port

\* Entries are told apart: by their lines or by dashes, which NX-OS does not print.
Separated(form, entries) == form # "NX-OS detail" \/ Len(entries) <= 1

\* A device, or a member of a cluster, has this name on the pages.
Bears(d, name) ==
    IF catalog[d].units = {} THEN catalog[d].host = name
                             ELSE \E u \in catalog[d].units : u.host = name

\* The neighbours of a device are those it printed, in whatever form separates them,
\* each once and with its own ports: none is lost or repeated, and no line lends its name
\* or its port to another.  A neighbour is shown as the first device that bears its
\* name, whatever stands before that one in the list (cdp_lldp.py:88-580).
LinksAsPrinted ==
    \A d \in Known :
       LET rows == NeighborRows(catalog[d])
           Says(protocol, form, entries) ==
              Separated(form, entries) =>
                 \A e \in ToSet(entries) : Readable(form, e) =>
                    <<protocol, [host |-> e.host, local |-> e.local, port |-> e.port]>> \in ToSet(rows)
           Means(protocol, form, entries) ==
              Separated(form, entries) =>
                 \A i \in DOMAIN rows : rows[i][1] = protocol =>
                    \E e \in ToSet(entries) :
                       rows[i][2] = [host |-> e.host, local |-> e.local, port |-> PortShown(form, e)]
       IN  /\ UsesCdp(catalog[d]) => Says("CDP", meant[d].cdpForm, meant[d].cdp)
           /\ UsesLldp(catalog[d]) => Says("LLDP", meant[d].lldpForm, meant[d].lldp)
           /\ Means("CDP", meant[d].cdpForm, meant[d].cdp)
           /\ Means("LLDP", meant[d].lldpForm, meant[d].lldp)
           /\ \A i, j \in DOMAIN rows : rows[i] = rows[j] => i = j
           /\ \A i \in DOMAIN rows, x \in Known :
                 LET found == Resolved(rows[i][2].host)
                 IN  Bears(x, rows[i][2].host) => found # <<>> /\ found[1].device <= x

\* Serial numbers can be told apart: the active member comes first, or every member
\* has a block; the manufacture table has every slot, or slots begin at 1.
Attributable(vendor, s) ==
    s.listed = s.of \/ IF vendor = "cisco" THEN s.first = Min(s.of) ELSE 0 \notin s.of

\* A stack is shown with one row for each member, its own serial number in it or
\* none, and the master, which has the configuration, first (stack.py:109-149,
\* 307-343; index_db.py:507-612).
MembersAsPrinted ==
    \A d \in Known :
       LET s == meant[d].stack
           v == catalog[d].vendor
           rows == RowsOf(d)
           Member(r) == CASE v = "fortinet" -> r.serial
                          [] v = "huawei" -> r.num - (IF 0 \in s.of THEN 1 ELSE 0)
                          [] OTHER -> r.num
       IN  s # NoStack =>
              /\ {Member(rows[i]) : i \in DOMAIN rows} = s.of /\ Len(rows) = Cardinality(s.of)
              /\ \A i \in DOMAIN rows : rows[i].anchor <=> i = 1
              /\ Member(rows[1]) = s.first
              /\ Attributable(v, s) =>
                    \A i \in DOMAIN rows : rows[i].serial \in {Unknown, Member(rows[i])}
=============================================================================
