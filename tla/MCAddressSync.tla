---------------------------- MODULE MCAddressSync ----------------------------
(***************************************************************************)
(* Instances of AddressSync for TLC: names, and worlds to start from.      *)
(***************************************************************************)
EXTENDS AddressSync, TLC

CONSTANTS s1, s2, a1, a2, g1, g2, v1, v2, h1, w1, m1, c1, k1

Addr(v, c) == [value |-> v, comment |-> c]
Grp(m, c) == [members |-> m, comment |-> c]
Row(n, v, c) == [value |-> v, description |-> DescribeOnCreate(n, c)]
GrpRow(g, m, c) == [members |-> m, description |-> DescribeOnCreate(g, c)]
Only(f) == f @@ EmptyStore
In(s, names) == {s} \X names

World(s, device, rows) ==
    [fgt |-> (s :> device) @@ [t \in Scopes |-> EmptyStore],
     orm |-> (s :> rows) @@ [t \in Scopes |-> EmptyStore]]

\* A device nobody has pulled yet: a2 has a type the adapter cannot read.
Fresh == World(s1,
    Only((a1 :> Addr(v1, c1)) @@ (a2 :> Addr(Unsupported, NoComment))
         @@ (g1 :> Grp({a1, a2}, NoComment))),
    EmptyStore)

\* The same with a group inside a group.
Nested == World(s1,
    Only((a1 :> Addr(v1, NoComment)) @@ (g2 :> Grp({a1}, NoComment)) @@ (g1 :> Grp({a1, g2}, c1))),
    EmptyStore)

\* Both sides agree.
Synced == World(s1,
    Only((a1 :> Addr(v1, c1)) @@ (a2 :> Addr(v2, NoComment)) @@ (g1 :> Grp({a1, a2}, NoComment))),
    Only((a1 :> Row(a1, v1, c1)) @@ (a2 :> Row(a2, v2, NoComment))
         @@ (g1 :> GrpRow(g1, In(s1, {a1, a2}), NoComment))))

\* a2 has left the group and the device since the last pull.
Drifted == World(s1,
    Only((a1 :> Addr(v1, c1)) @@ (g1 :> Grp({a1}, NoComment))),
    Only((a1 :> Row(a1, v1, c1)) @@ (a2 :> Row(a2, v2, NoComment))
         @@ (g1 :> GrpRow(g1, In(s1, {a1, a2}), NoComment))))

\* a1 has become unreadable since the last pull.
Shadowed == World(s1,
    Only(a1 :> Addr(Unsupported, c1)),
    Only(a1 :> Row(a1, v1, c1)))

\* a1 is a mac address on the device; its row has another comment.
Masked == World(s1,
    Only(a1 :> Addr(m1, NoComment)),
    Only(a1 :> Row(a1, v1, c1)))

\* h1 is the Prefix of host v1, and w1 an IPv6 prefix.
HostsAsSubnets ==
    [v \in Values |-> CASE v = h1 -> v1 [] v = w1 -> Unsendable [] OTHER -> v]

\* a1 is a host's Prefix in Nautobot and differs from the device, a2 is new
\* there and cannot be sent; both are in a group.
Hosted == World(s1,
    Only((a1 :> Addr(v1, c1)) @@ (g1 :> Grp({a1}, NoComment))),
    Only((a1 :> Row(a1, h1, c1)) @@ (a2 :> Row(a2, w1, NoComment))
         @@ (g1 :> GrpRow(g1, In(s1, {a1, a2}), NoComment))))

OneScope == {Fresh, Synced, Drifted, Shadowed, Masked}
Placeholder == [m \in Opaque |-> v1]

\* k1 is any comment that carries an annotation.
Annotated == [m \in Opaque |-> [t \in Text |-> k1]]
WithNested == OneScope \cup {Nested, Hosted}

\* The jobs of both scopes reach s1: two VDOMs of one host.
OneHost == [s \in Scopes |-> s1]

\* Two scopes with the same names; a Nautobot user has put an address of s1
\* into a group of s2.
Foreign ==
    [fgt |-> (s1 :> EmptyStore) @@
             (s2 :> Only((a1 :> Addr(v2, c1)) @@ (g1 :> Grp({a1}, NoComment)))),
     orm |-> (s1 :> Only((a1 :> Row(a1, v1, c1)) @@ (g1 :> GrpRow(g1, {}, c1)))) @@
             (s2 :> Only((a1 :> Row(a1, v2, NoComment)) @@ (g1 :> GrpRow(g1, {s1, s2} \X {a1}, NoComment))))]

\* The same without the loan.
Twins ==
    [fgt |-> [s \in {s1, s2} |-> Only((a1 :> Addr(v1, c1)) @@ (g1 :> Grp({a1}, NoComment)))],
     orm |-> [s \in {s1, s2} |-> Only(a1 :> Row(a1, v2, NoComment))]]

TwoScopes == {Foreign, Twins}
==============================================================================
