---------------------------- MODULE MCDeviceSync ----------------------------
(***************************************************************************)
(* Instances of DeviceSync for TLC: a port, a VLAN on it, one on that VLAN, *)
(* and two VDOMs.                                                          *)
(***************************************************************************)
EXTENDS DeviceSync

CONSTANTS wan, guest, inner, root, cust, d1, d2, x, lab, site

Plain == <<0, x>>
Port(vdom, ips) == [type |-> "port", vdom |-> vdom, parent |-> None, vlan |-> None,
                    access |-> "manage", text |-> Plain, ips |-> ips]
Vlan(vdom, id) == [type |-> "virtual", vdom |-> vdom, parent |-> wan, vlan |-> id,
                   access |-> "manage", text |-> Plain, ips |-> <<>>]
Tunnel == [Port(root, <<>>) EXCEPT !.type = "tunnel"]
PortRow(hosts) == [type |-> "port", parent |-> None, vlan |-> None, mode |-> None, text |-> Plain,
                   hosts |-> hosts]
VlanRow(parent, id) == [type |-> "virtual", parent |-> parent, vlan |-> id, mode |-> "tagged",
                        text |-> Plain, hosts |-> {}]
Rt(dest, gw, via, blackhole) ==
    [dest |-> dest, gateway |-> gw, via |-> via, blackhole |-> blackhole, text |-> Plain]

NoIfs == [i \in Ifaces |-> Absent]
NoRts == [s \in Seqs |-> Absent]
NoRows == [w \in Vdoms |-> NoRts]
IfTable3(a, b, c) == [i \in Ifaces |-> IF i = wan THEN a ELSE IF i = guest THEN b ELSE c]
IfTable(a, b) == IfTable3(a, b, Absent)
RtTable(low, high) == [s \in Seqs |-> IF s = 999 THEN low ELSE high]
RootRows(t) == [w \in Vdoms |-> IF w = root THEN t ELSE NoRts]
Ipam(one, two) == [h \in Hosts |-> IF h = 1 THEN one ELSE two]

\* Never pulled: addresses out of order, a route by hand and a higher one.
Fresh == [ifs |-> IfTable(Port(root, <<<<2, 24>>, <<1, 24>>>>), Vlan(root, 10)),
          rts |-> RtTable(Rt(d1, Gateway, wan, FALSE), Rt(None, None, guest, FALSE)),
          anchor |-> FALSE, scope |-> lab, rowIf |-> NoIfs, rowRt |-> NoRows,
          ipam |-> Ipam(16, Absent)]

\* Nautobot is ahead: the VLAN and its routes are to be pushed.
Ahead == [ifs |-> IfTable(Port(root, <<<<1, 24>>>>), Absent),
          rts |-> RtTable(Absent, Rt(d1, None, wan, TRUE)),
          anchor |-> TRUE, scope |-> lab, rowIf |-> IfTable(PortRow({1}), VlanRow(wan, 10)),
          rowRt |-> RootRows(RtTable(Rt(d2, Gateway, wan, FALSE), Rt(d2, Gateway, guest, FALSE))),
          ipam |-> Ipam(24, Absent)]

\* The VLAN belongs to the other VDOM; each VDOM has been pulled.
Split == [ifs |-> IfTable(Port(root, <<>>), Vlan(cust, 10)),
          rts |-> RtTable(Rt(d1, Gateway, wan, FALSE), Absent),
          anchor |-> TRUE, scope |-> lab, rowIf |-> IfTable(PortRow({}), VlanRow(None, 10)),
          rowRt |-> RootRows(RtTable(Rt(d1, Gateway, wan, FALSE), Absent)),
          ipam |-> Ipam(Absent, Absent)]

\* guest was a VLAN when it was pulled; now it is a port, and it has a route.
Retyped == [ifs |-> IfTable(Port(root, <<>>), Port(root, <<<<1, 24>>>>)),
            rts |-> RtTable(Absent, Rt(d1, Gateway, guest, FALSE)),
            anchor |-> TRUE, scope |-> lab, rowIf |-> IfTable(PortRow({}), VlanRow(wan, 10)),
            rowRt |-> RootRows(RtTable(Absent, Rt(d1, Gateway, None, FALSE))),
            ipam |-> Ipam(Absent, Absent)]

\* Only the device has the VLAN, and only it has the higher route.
Behind == [ifs |-> IfTable(Port(root, <<>>), Vlan(root, 10)),
           rts |-> RtTable(Absent, Rt(d1, Gateway, wan, FALSE)),
           anchor |-> TRUE, scope |-> lab, rowIf |-> IfTable(PortRow({}), Absent),
           rowRt |-> NoRows, ipam |-> Ipam(Absent, Absent)]

\* Nautobot has lost the port, which has a VLAN id, and the low route.
Lost == [ifs |-> IfTable([Port(root, <<>>) EXCEPT !.vlan = 20], Absent),
         rts |-> RtTable(Rt(d1, Gateway, wan, FALSE), Absent),
         anchor |-> TRUE, scope |-> lab, rowIf |-> NoIfs, rowRt |-> NoRows,
         ipam |-> Ipam(Absent, Absent)]

\* Rows nest twice; of the device's interfaces only the innermost is in root.
Nested == [ifs |-> IfTable3(Port(cust, <<>>), Vlan(cust, 10),
                            [Vlan(root, 20) EXCEPT !.parent = guest]),
           rts |-> RtTable(Absent, Rt(d1, Gateway, inner, FALSE)),
           anchor |-> TRUE, scope |-> lab,
           rowIf |-> IfTable3(PortRow({}), VlanRow(wan, 10), VlanRow(guest, 20)),
           rowRt |-> RootRows(RtTable(Absent, Rt(d1, Gateway, inner, FALSE))),
           ipam |-> Ipam(Absent, Absent)]

Worlds == {Fresh, Ahead, Split, Retyped, Behind, Lost, Nested}

OnDevice == {[name |-> wan, record |-> Absent], [name |-> guest, record |-> Vlan(root, 20)],
             [name |-> guest, record |-> Absent], [name |-> guest, record |-> Tunnel],
             [name |-> 1000, record |-> Rt(d2, Gateway, wan, FALSE)],
             [name |-> 1000, record |-> Absent]}
InNautobot == {[name |-> wan, record |-> PortRow({1})], [name |-> wan, record |-> Absent],
               [name |-> guest, record |-> [VlanRow(wan, 20) EXCEPT !.mode = "access"]],
               [name |-> guest, record |-> Absent],
               [name |-> 1000, record |-> Rt(d2, None, wan, FALSE)],
               [name |-> 1000, record |-> Absent]}
=============================================================================
