------------------------------ MODULE MCNatSync ------------------------------
(***************************************************************************)
(* Instances of NatSync for TLC: one VIP, two IPs, a range and two ports.  *)
(***************************************************************************)
EXTENDS NatSync, TLC

CONSTANTS j1, j2, shop, x1, x2, r1, p1, p2, wan, t1, t2

VipOf(mappedIp, fwd) ==
    [ext |-> x1, mapped |-> mappedIp, forward |-> fwd, intf |-> wan, comment |-> t1,
     used |-> FALSE]
Fwd(a, b) == [ext |-> a, mapped |-> b]
OnlyVip(r) == [v \in Vips |-> r]
NoneOwn == [a \in Addresses |-> Absent]
RowIps(e, m) == [a \in Addresses |-> IF a[1] = "ext" THEN e ELSE m]
Keys(fwd) == IF fwd = None THEN {} ELSE {<<s, shop, fwd[s]>> : s \in Sides}
RuleOf(fwd, text) ==
    [lists |-> [addr |-> [s \in Sides |-> <<s, shop>>],
                serv |-> IF fwd = None THEN NoList ELSE [s \in Sides |-> <<s, shop, fwd[s]>>]],
     description |-> [text |-> text, intf |-> wan, forward |-> fwd], linked |-> TRUE]

World(v, a, s, ar, sr, pr, r) ==
    [vip |-> v, addr |-> a, serv |-> s, addrRow |-> ar, servRow |-> sr, policy |-> pr, rule |-> r]

\* Nothing pulled yet; the device's own address of the name differs.
Fresh ==
    World(OnlyVip(VipOf(x2, Fwd(p1, p2))), [NoneOwn EXCEPT ![<<"mapped", shop>>] = x1], NoneOwn,
          NoneOwn, {}, Absent, OnlyVip(Absent))

\* Pulled and unchanged since; a policy uses the VIP.
Pulled ==
    World(OnlyVip([VipOf(x2, Fwd(p1, p2)) EXCEPT !.used = TRUE]), NoneOwn, NoneOwn,
          RowIps(x1, x2), Keys(Fwd(p1, p2)), Generated, OnlyVip(RuleOf(Fwd(p1, p2), t1)))

\* Made in Nautobot and never pushed: the device has nothing.
Ahead ==
    World(OnlyVip(Absent), NoneOwn, NoneOwn,
          RowIps(r1, x2), Keys(Fwd(p1, p1)), Retyped,
          OnlyVip([RuleOf(Fwd(p1, p1), t2) EXCEPT !.description.intf = None]))

\* Pushed to the device, which thus has its own addresses; its ports have
\* changed since, and in Nautobot the rule lost them.
Pushed ==
    World(OnlyVip(VipOf(x2, Fwd(p2, p2))), RowIps(x1, x2), [NoneOwn EXCEPT ![<<"ext", shop>>] = p1],
          RowIps(x1, x2), Keys(Fwd(p1, p1)), Generated, OnlyVip(RuleOf(None, t1)))

Worlds == {Fresh, Pulled, Ahead, Pushed}
AfterPull == {Pulled}

DeviceChanges ==
    {[of |-> "vip", key |-> shop, record |-> VipOf(x1, Fwd(p2, p2))],
     [of |-> "vip", key |-> shop, record |-> [VipOf(r1, None) EXCEPT !.ext = r1]],
     [of |-> "vip", key |-> shop, record |-> VipOf(None, None)],
     [of |-> "vip", key |-> shop, record |-> VipOf(x2, None)],
     [of |-> "vip", key |-> shop, record |-> Absent],
     [of |-> "addr", key |-> <<"mapped", shop>>, record |-> x2],
     [of |-> "serv", key |-> <<"mapped", shop>>, record |-> p1]}
RowChanges ==
    {[of |-> "addr", key |-> <<"mapped", shop>>, record |-> x1],
     [of |-> "addr", key |-> <<"ext", shop>>, record |-> Absent],
     [of |-> "serv", key |-> <<"ext", shop, p1>>, record |-> p2],
     [of |-> "rule", key |-> shop, record |-> Absent],
     [of |-> "rule", key |-> shop,
      record |-> [RuleOf(None, t2) EXCEPT !.lists.addr["mapped"] = <<"ext", shop>>]],
     [of |-> "rule", key |-> shop,
      record |-> [RuleOf(Fwd(p1, p1), t1) EXCEPT !.lists.serv["mapped"] = None]],
     [of |-> "rule", key |-> shop,
      record |-> [RuleOf(Fwd(p1, p1), t1) EXCEPT !.lists.serv["mapped"] = <<"ext", shop, p1>>]],
     [of |-> "policy", key |-> None, record |-> Absent],
     [of |-> "policy", key |-> None, record |-> Retyped]}
IpEdit == {[of |-> "addr", key |-> <<"mapped", shop>>, record |-> x1]}
Slots == {j1, j2}
Symmetry == Permutations(Slots)
=============================================================================
