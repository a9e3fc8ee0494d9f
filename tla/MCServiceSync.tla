---------------------------- MODULE MCServiceSync ----------------------------
(***************************************************************************)
(* Instances of ServiceSync for TLC: two FortiGates, and services named    *)
(* web and rsh.                                                            *)
(***************************************************************************)
EXTENDS ServiceSync, TLC

CONSTANTS j1, j2, f1, f2, web, rsh, web_grp, p1, p2, c1, c2

Tcp(port) == TcpUdp([port |-> port, source |-> FALSE], None)
TcpFrom(port) == TcpUdp([port |-> port, source |-> TRUE], None)
Udp(port) == TcpUdp(None, [port |-> port, source |-> FALSE])
Ip(number) == [protocol |-> "IP", number |-> number]
Svc(def, c) == [def |-> def, comment |-> c]

NoSvc == [n \in Names |-> Absent]
NoGrp == [g \in Groups |-> Absent]
NoRows == [k \in Keys |-> Absent]
OnFirst(a, b) == [h \in Hosts |-> IF h = f1 THEN a ELSE b]
Table(w, r) == [n \in Names |-> IF n = web THEN w ELSE r]
OneGroup(r) == [g \in Groups |-> r]
K(proto, port, n) == <<proto, port, n>>

\* Two FortiGates that agree about web, nothing pulled yet; one of them has a
\* service with source ports, the other one that cannot be read.
Fresh ==
    [svc |-> OnFirst(Table(Svc(Tcp(p1), c1), Svc(TcpFrom(p2), c1)),
                     Table(Svc(Tcp(p1), c2), Svc(Ip(Unmapped), c1))),
     grp |-> OnFirst(OneGroup([members |-> {web, rsh}, comment |-> c1]), NoGrp),
     pool |-> NoRows,
     rowGrp |-> [h \in Hosts |-> NoGrp]]

\* web was pulled from both; the first has moved it to another port since.
Moved ==
    [svc |-> OnFirst(Table(Svc(Tcp(p2), c1), Absent), Table(Svc(Tcp(p1), c1), Absent)),
     grp |-> OnFirst(OneGroup([members |-> {web}, comment |-> c2]), NoGrp),
     pool |-> [k \in Keys |-> IF k = K("TCP", p1, web) THEN c1 ELSE Absent],
     rowGrp |-> OnFirst(OneGroup([members |-> {K("TCP", p1, web)}, comment |-> c1]),
                        OneGroup([members |-> {}, comment |-> c1]))]

\* Rows for the devices: one by UDP, one for any protocol, one FortiOS has no
\* word for; the second FortiGate knows "any" by its other spelling.
Ahead ==
    [svc |-> OnFirst(NoSvc, Table(Svc([protocol |-> "ALL"], c1), Svc(TcpUdp(None, None), c1))),
     grp |-> [h \in Hosts |-> NoGrp],
     pool |-> [k \in Keys |-> IF k = K("UDP", p1, rsh) THEN c1
                              ELSE IF k = K("HOPOPT", NoPort, web) THEN c2
                              ELSE IF k = K(Foreign, NoPort, rsh) THEN c1 ELSE Absent],
     rowGrp |-> OnFirst(OneGroup([members |-> {K("UDP", p1, rsh)}, comment |-> c1]), NoGrp)]

\* Rows without a port: the first FortiGate knows one as IP protocol 17, and
\* another one by a protocol Nautobot does not have; the second has one of
\* protocol 6 under that name, nothing pulled yet.
Portless ==
    [svc |-> OnFirst(Table(Svc(Ip("UDP"), c2), Svc([protocol |-> Proxied], c1)),
                     Table(Absent, Svc(Ip("TCP"), c1))),
     grp |-> OnFirst(OneGroup([members |-> {web, rsh}, comment |-> c1]), NoGrp),
     pool |-> [k \in Keys |-> IF k = K("UDP", NoPort, web) THEN c1
                              ELSE IF k = K(Proxied, NoPort, rsh) THEN c2 ELSE Absent],
     rowGrp |-> OnFirst(OneGroup([members |-> {K("UDP", NoPort, web)}, comment |-> c1]), NoGrp)]

Worlds == {Fresh, Moved, Ahead, Portless}

OnDevice == {[name |-> rsh, record |-> Absent],
             [name |-> web_grp, record |-> Absent]}
InNautobot == {[key |-> K("TCP", p1, web), comment |-> c2, new |-> K(Foreign, NoPort, web)]}
Slots == {j1, j2}
Symmetry == Permutations(Slots)
=============================================================================
