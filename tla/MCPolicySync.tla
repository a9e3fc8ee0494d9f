---------------------------- MODULE MCPolicySync ----------------------------
(***************************************************************************)
(* Instances of PolicySync for TLC: policies 1 and 2, an address that the  *)
(* device may hold in a type Nautobot cannot read, a group of addresses    *)
(* and a service.                                                          *)
(***************************************************************************)
EXTENDS PolicySync, TLC

CONSTANTS j1, j2, lan, mac, web, p1, p2, odd, vdomPolicy, dmzPolicy, n1, n2, t1, i1

Sets(a, s) == [side \in Sides |-> IF side = "srcaddr" THEN a ELSE s]
Pol(n, action, a) ==
    [name |-> n, action |-> action, log |-> TRUE, members |-> Sets(a, {web}),
     intfs |-> i1, comment |-> <<t1>>]
Row(n, action, a, links) ==
    [request |-> n, action |-> action, log |-> TRUE, members |-> Sets(a, {web}),
     text |-> <<n, t1>>, intfs |-> i1, linked |-> links]

OnDevice(a, b) == [id \in Ids |-> IF id = p1 THEN a ELSE b]
InTable(a, b, c) == [r \in Rules |-> IF r = p1 THEN a ELSE IF r = p2 THEN b ELSE c]
Kinds == <<{mac}, {lan}, {web}>>
Unread == [o \in Objects |-> IF o = mac THEN "unreadable" ELSE "readable"]
OneRow(d) == [c \in Containers |-> IF c = vdomPolicy THEN d ELSE Absent]
TwoRows == [c \in Containers |-> IF c = vdomPolicy THEN Generated ELSE Retyped]

\* Nothing pulled yet: a tunnel policy, and one with an unreadable member.
Fresh ==
    [obj |-> Unread,
     pol |-> OnDevice(Pol(n1, "ipsec", {lan}), Pol(n2, "other", {lan, mac})),
     objRow |-> {}, policy |-> OneRow(Absent), rule |-> InTable(Absent, Absent, Absent)]

\* Pulled long ago.  Since then the device has renamed policy 1; a user has
\* changed rule 1, made a rule of an odd name, and moved rule 2 to a Policy
\* row of their own.
Drifted ==
    [obj |-> Unread,
     pol |-> OnDevice(Pol(n2, "accept", {lan, mac}), Pol(n2, "deny", {lan})),
     objRow |-> {lan, web}, policy |-> TwoRows,
     rule |-> InTable(Row(n1, "drop", {}, {vdomPolicy}), Row(n2, "deny", {lan}, {dmzPolicy}),
                      Row(n1, "allow", {lan}, {vdomPolicy}))]

\* The device has lost policy 2 and the address mac; rule 1 hangs nowhere.
Lost ==
    [obj |-> [o \in Objects |-> IF o = mac THEN Absent ELSE "readable"],
     pol |-> OnDevice(Pol(n1, "deny", {lan}), Absent),
     objRow |-> {lan, mac, web}, policy |-> OneRow(Retyped),
     rule |-> InTable(Row(n2, "deny", {lan}, {}),
                      [Row(n2, "remark", {lan, mac}, {vdomPolicy}) EXCEPT !.intfs = NoIntf],
                      Absent)]

\* The device has an address more; rule 1 no longer needs it.
Spare ==
    [obj |-> [o \in Objects |-> "readable"],
     pol |-> OnDevice(Pol(n1, "accept", {lan, mac}), Absent),
     objRow |-> {lan, web}, policy |-> OneRow(Generated),
     rule |-> InTable(Row(n1, "allow", {lan}, {vdomPolicy}), Absent, Absent)]

Worlds == {Fresh, Drifted, Lost, Spare}

DeviceChanges ==
    {[key |-> p1, record |-> Pol(n2, "accept", {lan, mac})], [key |-> p2, record |-> Absent],
     [key |-> mac, record |-> "readable"], [key |-> mac, record |-> "unreadable"],
     [key |-> mac, record |-> Absent]}
RowChanges ==
    {[key |-> p1, record |-> Row(n1, "allow", {lan}, {vdomPolicy, dmzPolicy})],
     [key |-> p2, record |-> Absent],
     [key |-> vdomPolicy, record |-> Absent], [key |-> vdomPolicy, record |-> Retyped],
     [key |-> mac, record |-> Absent]}

Slots == {j1, j2}
Symmetry == Permutations(Slots)
=============================================================================
