------------------------- MODULE ServiceSyncProofs -------------------------
(***************************************************************************)
(* Theorems about ServiceSync, for every set of FortiGates, services,      *)
(* groups, ports and jobs.                                                 *)
(***************************************************************************)
EXTENDS ServiceSync, TLAPS

----------------------------------------------------------------------------
(* Keys and conversions.                                                   *)

LEMMA KeyShape ==
    ASSUME NEW k \in Keys
    PROVE  /\ k = <<k[1], k[2], k[3]>> /\ <<k[1], k[2]>> \in Kinds
           /\ k[3] \in Names /\ k \notin Groups /\ k \in Elements
<1>1. PICK kind \in Kinds, n \in Names : k = <<kind[1], kind[2], n>>
  BY DEF Keys
<1>2. kind = <<kind[1], kind[2]>>
  BY DEF Kinds
<1> QED
  BY <1>1, <1>2, NothingAssumption DEF Elements

\* What a device's service reads as is a key.
LEMMA ServicePortsTyped ==
    ASSUME NEW d \in Definition, ServicePorts(d) # None
    PROVE  /\ ServicePorts(d) \in Kinds /\ ServicePorts(d) = <<ServicePorts(d)[1], ServicePorts(d)[2]>>
<1>1. CASE d \in [protocol : {"TCP/UDP/SCTP"}, tcp : Range, udp : Range]
  <2>1. /\ ServicePorts(d) = IF d.tcp # None THEN <<"TCP", d.tcp.port>>
                             ELSE IF d.udp # None THEN <<"UDP", d.udp.port>>
                             ELSE <<"TCP", NoPort>>
        /\ d.tcp # None => d.tcp.port \in Ports
        /\ d.udp # None => d.udp.port \in Ports
    BY <1>1 DEF ServicePorts, PortOf, Range
  <2> QED
    BY <2>1, ConstantsAssumption DEF Kinds
<1>2. CASE d \in [protocol : {"IP"}, number : Protocols \cup {Unmapped, None}]
  <2>1. /\ d.number # Unmapped
        /\ ServicePorts(d) = <<IF d.number = None THEN "HOPOPT" ELSE d.number, NoPort>>
    BY <1>2 DEF ServicePorts
  <2> QED
    BY <1>2, <2>1, ConstantsAssumption DEF Kinds
<1>3. CASE d \in [protocol : {"ALL", Proxied}]
  <2>1. ServicePorts(d) \in {<<"HOPOPT", NoPort>>, <<Proxied, NoPort>>}
    BY <1>3, ConstantsAssumption DEF ServicePorts
  <2> QED
    BY <2>1, ConstantsAssumption DEF Kinds
<1> QED
  BY <1>1, <1>2, <1>3 DEF Definition

LEMMA KindOfKey ==
    ASSUME NEW kind \in Kinds, NEW n \in Names
    PROVE  Key(kind, n) \in Keys /\ Key(kind, n)[3] = n /\ Key(kind, n)[1] = kind[1]
BY DEF Key, Keys

LEMMA KeyOfTyped ==
    ASSUME svc \in [Hosts -> [Names -> Service \cup {Absent}]],
           NEW h \in Hosts, NEW n \in Names, KeyOf(h, n) # None
    PROVE  /\ KeyOf(h, n) \in Keys /\ KeyOf(h, n)[3] = n
           /\ svc[h][n] \in Service /\ svc[h][n] # Absent
           /\ KeyOf(h, n) = Key(ServicePorts(svc[h][n].def), n)
<1>1. /\ svc[h][n] \in Service /\ svc[h][n] # Absent
      /\ svc[h][n].def \in Definition /\ ServicePorts(svc[h][n].def) # None
      /\ KeyOf(h, n) = Key(ServicePorts(svc[h][n].def), n)
  BY DEF KeyOf, Service
<1> QED
  BY <1>1, ServicePortsTyped, KindOfKey

\* What the device's adapter loads as key k.
LEMMA FgtServicesRead ==
    ASSUME svc \in [Hosts -> [Names -> Service \cup {Absent}]], NEW h \in Hosts, NEW k \in Keys
    PROVE  /\ KeyOf(h, k[3]) = k =>
                 /\ FgtServices(h)[k] = svc[h][k[3]].comment /\ FgtServices(h)[k] \in Text
                 /\ FgtServices(h)[k] # Absent /\ svc[h][k[3]] # Absent
           /\ KeyOf(h, k[3]) # k => FgtServices(h)[k] = Absent
<1>0. k[3] \in Names /\ k # None
  BY KeyShape, NothingAssumption
<1>1. CASE KeyOf(h, k[3]) = k
  <2>1. svc[h][k[3]] \in Service /\ svc[h][k[3]] # Absent
    BY <1>0, <1>1, KeyOfTyped
  <2> QED
    BY <1>1, <2>1, NothingAssumption DEF FgtServices, Service
<1>2. CASE KeyOf(h, k[3]) # k
  BY <1>2 DEF FgtServices
<1> QED
  BY <1>1, <1>2

\* A definition sent for a row reads back as the row arrives: to a new service,
\* and to one that reads as the row already.
LEMMA DefineReadsBack ==
    ASSUME NEW k \in Keys, Pushable(k), NEW old,
           old = None \/ (old \in Definition /\ ServicePorts(old) = <<k[1], k[2]>>)
    PROVE  /\ Define(k, old) \in Definition
           /\ ServicePorts(Define(k, old)) = <<Arrived(k)[1], Arrived(k)[2]>>
<1>0. <<k[1], k[2]>> \in Kinds /\ k[1] \in Protocols
  BY KeyShape DEF Pushable
<1> DEFINE was == IF old # None /\ old.protocol = "TCP/UDP/SCTP" THEN old ELSE TcpUdp(None, None)
<1>1. was \in [protocol : {"TCP/UDP/SCTP"}, tcp : Range, udp : Range]
  BY ConstantsAssumption DEF Definition, TcpUdp, Range
<1>2. SentRange(k) = (IF k[2] = NoPort THEN None ELSE [port |-> k[2], source |-> FALSE])
  BY DEF SentRange
<1>a. k[1] # "UDP" \/ k[2] # NoPort => Arrived(k)[1] = k[1] /\ Arrived(k)[2] = k[2]
  BY DEF Arrived
<1>3. CASE k[1] = "TCP"
  <2>1. k[2] \in Ports \cup {NoPort}
    BY <1>0, <1>3 DEF Kinds
  <2>2. Define(k, old) = [was EXCEPT !.tcp = SentRange(k)]
    BY <1>3 DEF Define
  <2>3. SentRange(k) \in Range /\ (SentRange(k) = None <=> k[2] = NoPort)
    <3>1. [port |-> k[2], source |-> FALSE] \in [port : Ports, source : BOOLEAN] \/ k[2] = NoPort
      BY <2>1
    <3> QED
      BY <1>2, <3>1, NothingAssumption DEF Range
  <2>4. k[2] = NoPort => was.udp = None
    <3>1. old \in [protocol : {"TCP/UDP/SCTP"}, tcp : Range, udp : Range] =>
             (k[2] = NoPort => old.udp = None)
      BY <1>3, ConstantsAssumption, NothingAssumption DEF ServicePorts, PortOf, Range, Definition
    <3> QED
      BY <3>1, ConstantsAssumption DEF Definition, TcpUdp
  <2> HIDE DEF was
  <2>5. /\ Define(k, old) \in [protocol : {"TCP/UDP/SCTP"}, tcp : Range, udp : Range]
        /\ Define(k, old).tcp = SentRange(k) /\ Define(k, old).udp = was.udp
    BY <1>1, <2>2, <2>3
  <2> QED
    BY <1>2, <1>3, <1>a, <2>1, <2>3, <2>4, <2>5 DEF ServicePorts, PortOf, Definition
<1>4. CASE k[1] = "UDP" /\ k[2] # NoPort
  <2>1. k[2] \in Ports
    BY <1>0, <1>4 DEF Kinds
  <2>2. Define(k, old) = [was EXCEPT !.udp = SentRange(k)]
    BY <1>4 DEF Define
  <2>3. SentRange(k) \in Range /\ SentRange(k) # None /\ SentRange(k).port = k[2]
    <3>1. SentRange(k) = [port |-> k[2], source |-> FALSE]
      BY <1>2, <1>4
    <3>2. SentRange(k) \in [port : Ports, source : BOOLEAN]
      BY <2>1, <3>1
    <3>3. SentRange(k).port = k[2]
      BY <3>1
    <3>4. SentRange(k) # None
      BY <3>2, NothingAssumption
    <3> QED
      BY <3>2, <3>3, <3>4 DEF Range
  <2>4. was.tcp = None
    <3>1. old \in [protocol : {"TCP/UDP/SCTP"}, tcp : Range, udp : Range] => old.tcp = None \/ old = None
      BY <1>4, ConstantsAssumption, NothingAssumption DEF ServicePorts, PortOf, Range, Definition
    <3> QED
      BY <3>1, ConstantsAssumption DEF Definition, TcpUdp
  <2> HIDE DEF was
  <2>5. /\ Define(k, old) \in [protocol : {"TCP/UDP/SCTP"}, tcp : Range, udp : Range]
        /\ Define(k, old).tcp = None /\ Define(k, old).udp = SentRange(k)
    BY <1>1, <2>2, <2>3, <2>4
  <2> QED
    BY <1>4, <1>a, <2>3, <2>5 DEF ServicePorts, PortOf, Definition
<1>5. CASE k[1] = "UDP" /\ k[2] = NoPort
  <2>1. old \notin [protocol : {"TCP/UDP/SCTP"}, tcp : Range, udp : Range]
    <3> SUFFICES ASSUME old \in [protocol : {"TCP/UDP/SCTP"}, tcp : Range, udp : Range] PROVE FALSE
      OBVIOUS
    <3>1. ServicePorts(old) = <<k[1], k[2]>>
      BY NothingAssumption DEF Definition
    <3>2. old.udp # None => old.udp.port \in Ports
      BY DEF Range
    <3> QED
      BY <1>5, <3>1, <3>2, ConstantsAssumption DEF ServicePorts, PortOf
  <2>2. was = TcpUdp(None, None)
    BY <2>1, ConstantsAssumption DEF Definition
  <2>3. Define(k, old) = [was EXCEPT !.udp = SentRange(k)] /\ SentRange(k) = None
    BY <1>2, <1>5 DEF Define
  <2> HIDE DEF was
  <2>4. Define(k, old) = TcpUdp(None, None)
    BY <2>2, <2>3 DEF TcpUdp
  <2>5. TcpUdp(None, None) \in Definition /\ ServicePorts(TcpUdp(None, None)) = <<"TCP", NoPort>>
    BY DEF TcpUdp, ServicePorts, Definition, Range
  <2>6. Arrived(k)[1] = "TCP" /\ Arrived(k)[2] = NoPort
    BY <1>5 DEF Arrived, Key
  <2> QED
    BY <2>4, <2>5, <2>6
<1>6. CASE k[1] \notin {"TCP", "UDP"}
  <2>1. k[2] = NoPort /\ k[1] # None /\ k[1] # Unmapped
    BY <1>0, <1>6, ConstantsAssumption DEF Kinds
  <2>2. Define(k, old) = [protocol |-> "IP", number |-> k[1]]
    BY <1>0, <1>6 DEF Define
  <2> QED
    BY <1>0, <1>6, <1>a, <2>1, <2>2 DEF ServicePorts, Definition
<1> QED
  BY <1>3, <1>4, <1>5, <1>6

\* A row arrives as a row of its name.
LEMMA ArrivedTyped ==
    ASSUME NEW k \in Keys
    PROVE  Arrived(k) \in Keys /\ Arrived(k)[3] = k[3]
<1>1. <<"TCP", NoPort>> \in Kinds
  BY DEF Kinds
<1> QED
  BY <1>1, KeyShape, KindOfKey DEF Arrived

LEMMA PushedAsTyped ==
    ASSUME NEW j, NEW k \in Keys
    PROVE  /\ PushedAs(j, k) \in Keys /\ PushedAs(j, k)[3] = k[3]
           /\ k \in todo[j].write \/ src[j][k] = Absent => PushedAs(j, k) = k
BY ArrivedTyped DEF PushedAs, Writes

----------------------------------------------------------------------------
(* What the adapters load has its type.                                    *)

DevicesTyped ==
    /\ svc \in [Hosts -> [Names -> Service \cup {Absent}]]
    /\ grp \in [Hosts -> [Groups -> Group \cup {Absent}]]

LEMMA DevicesAreTyped == WorldTyped(svc, grp, pool, rowGrp) => DevicesTyped
BY DEF WorldTyped, DevicesTyped

\* A store of which one kind of element has been filled.
LEMMA WithReads ==
    ASSUME NEW store, NEW part
    PROVE  /\ DOMAIN part = Keys =>
                 /\ \A k \in Keys : With(store, part)[k] = part[k]
                 /\ \A g \in Groups : With(store, part)[g] = store[g]
           /\ DOMAIN part = Groups =>
                 /\ \A k \in Keys : With(store, part)[k] = store[k]
                 /\ \A g \in Groups : With(store, part)[g] = part[g]
           /\ With(store, part) = [e \in Elements |-> With(store, part)[e]]
BY NothingAssumption DEF With, Elements

LEMMA ServicesOfTyped ==
    ASSUME WorldTyped(svc, grp, pool, rowGrp), NEW h \in Hosts, NEW kind
    PROVE  /\ DOMAIN ServicesOf(kind, h) = Keys
           /\ \A k \in Keys : ServicesOf(kind, h)[k] \in Text \cup {Absent}
<1>1. \A k \in Keys : FgtServices(h)[k] \in Text \cup {Absent}
  BY FgtServicesRead DEF WorldTyped
<1> QED
  BY <1>1 DEF ServicesOf, FgtServices, WorldTyped

\* A group the device's adapter loads.
LEMMA FgtGroupsRead ==
    ASSUME DevicesTyped, NEW h \in Hosts, NEW store, NEW g \in Groups
    PROVE  /\ grp[h][g] = Absent => FgtGroups(h, store)[g] = Absent
           /\ grp[h][g] # Absent =>
                 /\ FgtGroups(h, store)[g] \in RowGroup /\ FgtGroups(h, store)[g] # Absent
                 /\ FgtGroups(h, store)[g].members =
                       {k \in Keys : store[k] # Absent /\ k[3] \in grp[h][g].members}
                 /\ FgtGroups(h, store)[g].comment = grp[h][g].comment
<1>1. CASE grp[h][g] = Absent
  BY <1>1 DEF FgtGroups
<1>2. CASE grp[h][g] # Absent
  <2>1. grp[h][g].comment \in Text
    BY <1>2 DEF DevicesTyped, Group
  <2> DEFINE loaded == {k \in Keys : store[k] # Absent /\ k[3] \in grp[h][g].members}
  <2>2. FgtGroups(h, store)[g] = [members |-> loaded, comment |-> grp[h][g].comment]
    BY <1>2 DEF FgtGroups
  <2>3. loaded \subseteq Keys
    OBVIOUS
  <2> HIDE DEF loaded
  <2>4. FgtGroups(h, store)[g] \in RowGroup /\ FgtGroups(h, store)[g] # Absent
    BY <2>1, <2>2, <2>3, NothingAssumption DEF RowGroup
  <2>5. FgtGroups(h, store)[g].members = loaded /\ FgtGroups(h, store)[g].comment = grp[h][g].comment
    BY <2>2
  <2> QED
    BY <1>2, <2>4, <2>5 DEF loaded
<1> QED
  BY <1>1, <1>2

LEMMA GroupsOfTyped ==
    ASSUME WorldTyped(svc, grp, pool, rowGrp), NEW h \in Hosts, NEW kind, NEW store
    PROVE  /\ DOMAIN GroupsOf(kind, h, store) = Groups
           /\ \A g \in Groups : GroupsOf(kind, h, store)[g] \in RowGroup \cup {Absent}
<1>1. \A g \in Groups : FgtGroups(h, store)[g] \in RowGroup \cup {Absent}
  BY FgtGroupsRead, DevicesAreTyped
<1> QED
  BY <1>1 DEF GroupsOf, FgtGroups, WorldTyped

LEMMA WithServicesLoaded ==
    ASSUME WorldTyped(svc, grp, pool, rowGrp), NEW h \in Hosts, NEW kind, NEW store, Loaded(store)
    PROVE  Loaded(With(store, ServicesOf(kind, h)))
BY ServicesOfTyped, WithReads DEF Loaded

LEMMA WithGroupsLoaded ==
    ASSUME WorldTyped(svc, grp, pool, rowGrp), NEW h \in Hosts, NEW kind, NEW store, NEW part,
           Loaded(store)
    PROVE  Loaded(With(store, GroupsOf(kind, h, part)))
BY GroupsOfTyped, WithReads DEF Loaded

LEMMA EmptyLoaded == Loaded(EmptyStore)
BY DEF Loaded, EmptyStore, Elements

----------------------------------------------------------------------------
(* Every way of writing a record keeps the world typed.                    *)

LEMMA PutRowTyped ==
    ASSUME WorldTyped(svc, grp, pool, rowGrp), NEW k \in Keys, NEW c \in Text, PutRow(k, c)
    PROVE  WorldTyped(svc, grp, pool, rowGrp)'
<1>1. /\ UNCHANGED <<svc, grp, rowGrp>> /\ pool' \in [Keys -> Text \cup {Absent}]
      /\ \A m \in Keys : pool'[m] = IF m = k THEN c ELSE pool[m]
  BY DEF WorldTyped, PutRow, deviceVars
<1>2. \A h \in Hosts, x \in Groups :
         rowGrp[h][x] # Absent => \A m \in rowGrp[h][x].members : m \in Keys /\ pool[m] # Absent
  BY DEF WorldTyped, RowGroup
<1> QED
  BY <1>1, <1>2, NothingAssumption DEF WorldTyped

LEMMA PutRowGroupTyped ==
    ASSUME WorldTyped(svc, grp, pool, rowGrp), NEW h \in Hosts, NEW g \in Groups,
           NEW r \in RowGroup \cup {Absent},
           r # Absent => \A k \in r.members : pool[k] # Absent,
           PutRowGroup(h, g, r)
    PROVE  WorldTyped(svc, grp, pool, rowGrp)'
<1>1. /\ UNCHANGED <<svc, grp, pool>> /\ rowGrp' \in [Hosts -> [Groups -> RowGroup \cup {Absent}]]
      /\ \A i \in Hosts, x \in Groups :
            rowGrp'[i][x] = IF i = h /\ x = g THEN r ELSE rowGrp[i][x]
  BY DEF WorldTyped, PutRowGroup, deviceVars
<1> QED
  BY <1>1 DEF WorldTyped

\* The rows that go leave every group.
LEMMA RemoveRowsReads ==
    ASSUME WorldTyped(svc, grp, pool, rowGrp), NEW ks \in SUBSET Keys, RemoveRows(ks)
    PROVE  /\ UNCHANGED <<svc, grp>>
           /\ pool' \in [Keys -> Text \cup {Absent}]
           /\ \A k \in Keys : pool'[k] = IF k \in ks THEN Absent ELSE pool[k]
           /\ rowGrp' \in [Hosts -> [Groups -> RowGroup \cup {Absent}]]
           /\ \A h \in Hosts, g \in Groups :
                 /\ rowGrp[h][g] = Absent => rowGrp'[h][g] = Absent
                 /\ rowGrp[h][g] # Absent =>
                       rowGrp'[h][g] = [members |-> rowGrp[h][g].members \ ks,
                                        comment |-> rowGrp[h][g].comment]
<1>1. /\ UNCHANGED <<svc, grp>>
      /\ pool' = [k \in Keys |-> IF k \in ks THEN Absent ELSE pool[k]]
      /\ rowGrp' = [h \in Hosts |-> [g \in Groups |->
            IF rowGrp[h][g] = Absent THEN Absent
            ELSE [rowGrp[h][g] EXCEPT !.members = @ \ ks]]]
  BY DEF RemoveRows, deviceVars
<1>2. ASSUME NEW h \in Hosts, NEW g \in Groups, rowGrp[h][g] # Absent
      PROVE  /\ [rowGrp[h][g] EXCEPT !.members = @ \ ks]
                  = [members |-> rowGrp[h][g].members \ ks, comment |-> rowGrp[h][g].comment]
             /\ [rowGrp[h][g] EXCEPT !.members = @ \ ks] \in RowGroup
  <2>1. rowGrp[h][g] \in RowGroup
    BY <1>2 DEF WorldTyped
  <2> QED
    BY <2>1 DEF RowGroup
<1>3. rowGrp' \in [Hosts -> [Groups -> RowGroup \cup {Absent}]]
  BY <1>1, <1>2
<1> QED
  BY <1>1, <1>2, <1>3 DEF WorldTyped

LEMMA RemoveRowsTyped ==
    ASSUME WorldTyped(svc, grp, pool, rowGrp), NEW ks \in SUBSET Keys, RemoveRows(ks)
    PROVE  WorldTyped(svc, grp, pool, rowGrp)'
<1>1. ASSUME NEW h \in Hosts, NEW g \in Groups, rowGrp'[h][g] # Absent,
             NEW k \in rowGrp'[h][g].members
      PROVE  pool'[k] # Absent
  <2>0. /\ rowGrp[h][g] # Absent
        /\ rowGrp'[h][g] = [members |-> rowGrp[h][g].members \ ks, comment |-> rowGrp[h][g].comment]
    BY <1>1, RemoveRowsReads
  <2>1. rowGrp[h][g] # Absent /\ k \in rowGrp[h][g].members /\ k \notin ks
    BY <2>0
  <2>2. rowGrp[h][g] \in RowGroup
    BY <2>1 DEF WorldTyped
  <2>3. k \in Keys
    BY <2>1, <2>2 DEF RowGroup
  <2>4. pool[k] # Absent
    BY <2>1 DEF WorldTyped
  <2> QED
    BY <2>1, <2>3, <2>4, RemoveRowsReads
<1> QED
  BY <1>1, RemoveRowsReads DEF WorldTyped

LEMMA PutServiceTyped ==
    ASSUME WorldTyped(svc, grp, pool, rowGrp), NEW h \in Hosts, NEW n \in Names,
           NEW r \in Service \cup {Absent}, PutService(h, n, r)
    PROVE  /\ WorldTyped(svc, grp, pool, rowGrp)'
           /\ \A i \in Hosts, m \in Names :
                 svc'[i][m] = IF i = h /\ m = n THEN r ELSE svc[i][m]
BY DEF WorldTyped, PutService, rowVars

LEMMA PutGroupTyped ==
    ASSUME WorldTyped(svc, grp, pool, rowGrp), NEW h \in Hosts, NEW g \in Groups,
           NEW r \in Group \cup {Absent}, PutGroup(h, g, r)
    PROVE  /\ WorldTyped(svc, grp, pool, rowGrp)'
           /\ \A i \in Hosts, x \in Groups :
                 grp'[i][x] = IF i = h /\ x = g THEN r ELSE grp[i][x]
BY DEF WorldTyped, PutGroup, rowVars

LEMMA SameWorldTyped ==
    ASSUME WorldTyped(svc, grp, pool, rowGrp), UNCHANGED worldVars
    PROVE  WorldTyped(svc, grp, pool, rowGrp)'
BY DEF WorldTyped, worldVars, deviceVars, rowVars

----------------------------------------------------------------------------
(* Type correctness of the job's steps.                                    *)

CourseOf(k) ==
    /\ PlanFollowsDiff(k) /\ SourceIsCurrent(k) /\ TargetIsCurrent(k)
    /\ PullIsOnCourse(k) /\ PushIsOnCourse(k)

LEMMA StartTyped ==
    ASSUME TypeOK, NEW j \in Jobs, Start(j)
    PROVE  TypeOK'
<1>1. WorldTyped(svc, grp, pool, rowGrp)'
  BY SameWorldTyped DEF TypeOK, Start
<1>2. /\ phase' \in [Jobs -> Idle \cup Running] /\ req' \in [Jobs -> Requests]
      /\ src' = [i \in Jobs |-> src'[i]] /\ dst' = [i \in Jobs |-> dst'[i]]
      /\ todo' \in [Jobs -> [write : SUBSET Elements, delete : SUBSET Elements]]
      /\ touched' \subseteq Jobs
  BY DEF TypeOK, Start, Advance, NoWork, Running
<1>3. \A i \in Jobs : Loaded(src'[i]) /\ Loaded(dst'[i])
  BY EmptyLoaded DEF TypeOK, Start
<1>4. edits' \in 0..MaxEdits /\ runs' \in 0..MaxRuns
  BY ConstantsAssumption DEF TypeOK, Start
<1> QED
  BY <1>1, <1>2, <1>3, <1>4 DEF TypeOK

LEMMA LoadTyped ==
    ASSUME TypeOK, NEW j \in Jobs, Load(j)
    PROVE  TypeOK'
<1>0. req[j].host \in Hosts /\ WorldTyped(svc, grp, pool, rowGrp)
  BY DEF TypeOK, Requests
<1>1. WorldTyped(svc, grp, pool, rowGrp)'
  BY <1>0, SameWorldTyped
     DEF Load, LoadSourceServices, LoadSourceGroups, LoadTargetServices, LoadTargetGroups
<1>2. /\ phase' \in [Jobs -> Idle \cup Running] /\ req' \in [Jobs -> Requests]
      /\ src' = [i \in Jobs |-> src'[i]] /\ dst' = [i \in Jobs |-> dst'[i]]
      /\ todo' \in [Jobs -> [write : SUBSET Elements, delete : SUBSET Elements]]
      /\ touched' \subseteq Jobs /\ edits' \in 0..MaxEdits /\ runs' \in 0..MaxRuns
  BY DEF TypeOK, Load, LoadSourceServices, LoadSourceGroups, LoadTargetServices, LoadTargetGroups,
         Advance, Running
<1>3. \A i \in Jobs : Loaded(src'[i]) /\ Loaded(dst'[i])
  <2>1. \A i \in Jobs : Loaded(src[i]) /\ Loaded(dst[i])
    BY DEF TypeOK
  <2>2. \A kind : Loaded(With(src[j], ServicesOf(kind, req[j].host)))
    BY <1>0, <2>1, WithServicesLoaded
  <2>3. \A kind : Loaded(With(dst[j], ServicesOf(kind, req[j].host)))
    BY <1>0, <2>1, WithServicesLoaded
  <2>4. \A kind : Loaded(With(src[j], GroupsOf(kind, req[j].host, src[j])))
    BY <1>0, <2>1, WithGroupsLoaded
  <2>5. \A kind : Loaded(With(dst[j], GroupsOf(kind, req[j].host, dst[j])))
    BY <1>0, <2>1, WithGroupsLoaded
  <2>6. CASE LoadSourceServices(j)
    BY <2>1, <2>2, <2>6 DEF TypeOK, LoadSourceServices
  <2>7. CASE LoadSourceGroups(j)
    BY <2>1, <2>4, <2>7 DEF TypeOK, LoadSourceGroups
  <2>8. CASE LoadTargetServices(j)
    BY <2>1, <2>3, <2>8 DEF TypeOK, LoadTargetServices
  <2>9. CASE LoadTargetGroups(j)
    BY <2>1, <2>5, <2>9 DEF TypeOK, LoadTargetGroups
  <2> QED
    BY <2>6, <2>7, <2>8, <2>9 DEF Load
<1> QED
  BY <1>1, <1>2, <1>3 DEF TypeOK

LEMMA ExecuteSyncTyped ==
    ASSUME TypeOK, NEW j \in Jobs, ExecuteSync(j)
    PROVE  TypeOK'
<1>1. WorldTyped(svc, grp, pool, rowGrp)'
  BY SameWorldTyped DEF TypeOK, ExecuteSync
<1>2. /\ phase' \in [Jobs -> Idle \cup Running]
      /\ todo' \in [Jobs -> [write : SUBSET Elements, delete : SUBSET Elements]]
  BY DEF TypeOK, ExecuteSync, Advance, Running, Writes, Deletes
<1> QED
  BY <1>1, <1>2 DEF TypeOK, ExecuteSync

LEMMA RestTyped ==
    ASSUME TypeOK, NEW j \in Jobs, Finish(j) \/ Crash(j) \/ Raised(j)
    PROVE  TypeOK'
<1>1. WorldTyped(svc, grp, pool, rowGrp)'
  BY SameWorldTyped DEF TypeOK, Finish, Crash, Raised
<1>2. phase' \in [Jobs -> Idle \cup Running]
  BY DEF TypeOK, Finish, Crash, Raised, Advance, Idle
<1> QED
  BY <1>1, <1>2 DEF TypeOK, Finish, Crash, Raised

LEMMA AppliedTyped ==
    ASSUME TypeOK, NEW j \in Jobs, NEW e, Applied(j, e), WorldTyped(svc, grp, pool, rowGrp)'
    PROVE  TypeOK'
<1>1. todo' \in [Jobs -> [write : SUBSET Elements, delete : SUBSET Elements]] /\ touched' \subseteq Jobs
  BY DEF TypeOK, Applied
<1> QED
  BY <1>1 DEF TypeOK, Applied

\* What the plan of a job names, it has to say something about.
LEMMA Planned ==
    ASSUME SyncInvariant, NEW j \in Jobs, phase[j] = "syncing"
    PROVE  /\ \A e \in todo[j].write :
                 e \in Elements /\ src[j][e] # Absent /\ src[j][e] # dst[j][e] /\ e \notin todo[j].delete
           /\ \A e \in todo[j].delete :
                 e \in Elements /\ src[j][e] = Absent /\ dst[j][e] # Absent /\ req[j].delete
           /\ \A k \in Keys : k \in todo[j].write => src[j][k] \in Text
           /\ \A g \in Groups : g \in todo[j].write => src[j][g] \in RowGroup
<1>1. /\ todo[j].write \subseteq Writes(src[j], dst[j])
      /\ todo[j].delete \subseteq Deletes(src[j], dst[j])
      /\ ~req[j].delete => todo[j].delete = {}
  BY DEF SyncInvariant, PlanFollowsDiff, Applying
<1>2. Loaded(src[j])
  BY DEF SyncInvariant, TypeOK
<1> QED
  BY <1>1, <1>2 DEF Writes, Deletes, Loaded

----------------------------------------------------------------------------
(* A call takes an element off the plan, or raises.                        *)

CallOn(j, e) ==
    /\ phase[j] = "syncing" /\ e \in Pending(j)
    /\ e \in Groups => ServicesDone(j)

LEMMA TurnIs ==
    ASSUME NEW j \in Jobs, NEW kind, NEW e,
           Turn(j, kind, "write", e) \/ Turn(j, kind, "delete", e)
    PROVE  CallOn(j, e) /\ req[j].kind = kind
BY DEF Turn, CallOn, Pending, ServicesDone

LEMMA PullCalls ==
    ASSUME NEW j \in Jobs, Pull(j)
    PROVE  /\ phase[j] = "syncing" /\ req[j].kind = "pull" /\ UNCHANGED deviceVars
           /\ Raised(j) \/ \E e \in Elements : CallOn(j, e) /\ Applied(j, e)
<1> DEFINE Called(e) ==
              /\ CallOn(j, e) /\ req[j].kind = "pull" /\ UNCHANGED deviceVars
              /\ Raised(j) \/ Applied(j, e)
<1>1. ASSUME NEW k \in Keys, PullServiceCreate(j, k) PROVE Called(k)
  BY <1>1, TurnIs DEF PullServiceCreate, Save, PutRow, Raised, worldVars
<1>2. ASSUME NEW k \in Keys, PullServiceUpdate(j, k) PROVE Called(k)
  BY <1>2, TurnIs DEF PullServiceUpdate, Save, PutRow, Raised, worldVars
<1>3. ASSUME NEW k \in Keys, PullServiceDelete(j, k) PROVE Called(k)
  BY <1>3, TurnIs DEF PullServiceDelete, RemoveRows, Raised, worldVars
<1>4. ASSUME NEW g \in Groups, PullGroupCreate(j, g) PROVE Called(g)
  BY <1>4, TurnIs DEF PullGroupCreate, PutRowGroup
<1>5. ASSUME NEW g \in Groups, PullGroupUpdate(j, g) PROVE Called(g)
  BY <1>5, TurnIs DEF PullGroupUpdate, PutRowGroup, worldVars
<1>6. ASSUME NEW g \in Groups, PullGroupDelete(j, g) PROVE Called(g)
  BY <1>6, TurnIs DEF PullGroupDelete, PutRowGroup
<1>7. \E e \in Elements : Called(e)
  BY <1>1, <1>2, <1>3, <1>4, <1>5, <1>6 DEF Pull, Elements
<1> QED
  BY <1>7 DEF CallOn

LEMMA PushCalls ==
    ASSUME NEW j \in Jobs, Push(j)
    PROVE  /\ phase[j] = "syncing" /\ req[j].kind = "push" /\ UNCHANGED rowVars
           /\ Raised(j) \/ \E e \in Elements : CallOn(j, e) /\ Applied(j, e)
<1> DEFINE Called(e) ==
              /\ CallOn(j, e) /\ req[j].kind = "push" /\ UNCHANGED rowVars
              /\ Raised(j) \/ Applied(j, e)
<1>1. ASSUME NEW k \in Keys, PushServiceCreate(j, k) PROVE Called(k)
  BY <1>1, TurnIs DEF PushServiceCreate, Skip, Call, PutService, Raised, worldVars
<1>2. ASSUME NEW k \in Keys, PushServiceUpdate(j, k) PROVE Called(k)
  BY <1>2, TurnIs DEF PushServiceUpdate, Skip, Call, PutService, Raised, worldVars
<1>3. ASSUME NEW k \in Keys, PushServiceDelete(j, k) PROVE Called(k)
  BY <1>3, TurnIs DEF PushServiceDelete, Call, PutService, Raised, worldVars
<1>4. ASSUME NEW g \in Groups, PushGroupCreate(j, g) PROVE Called(g)
  BY <1>4, TurnIs DEF PushGroupCreate, Call, PutGroup, Raised, worldVars
<1>5. ASSUME NEW g \in Groups, PushGroupUpdate(j, g) PROVE Called(g)
  BY <1>5, TurnIs DEF PushGroupUpdate, Call, PutGroup, Raised, worldVars
<1>6. ASSUME NEW g \in Groups, PushGroupDelete(j, g) PROVE Called(g)
  BY <1>6, TurnIs DEF PushGroupDelete, Call, PutGroup, Raised, worldVars
<1>7. \E e \in Elements : Called(e)
  BY <1>1, <1>2, <1>3, <1>4, <1>5, <1>6 DEF Push, Elements
<1> QED
  BY <1>7 DEF CallOn

----------------------------------------------------------------------------
(* Type correctness of what the calls write.                               *)

LEMMA PulledIsTyped ==
    ASSUME SyncInvariant, NEW j \in Jobs, Pull(j), ~Raised(j)
    PROVE  WorldTyped(svc, grp, pool, rowGrp)'
<1> DEFINE h == req[j].host
<1>0. h \in Hosts /\ WorldTyped(svc, grp, pool, rowGrp)
  BY DEF SyncInvariant, TypeOK, Requests
<1>1. /\ \A k \in Keys : k \in todo[j].write => src[j][k] \in Text
      /\ \A g \in Groups : g \in todo[j].write => src[j][g] \in RowGroup
  BY PullCalls, Planned
<1> HIDE DEF h
<1>2. \A g \in Groups : g \in todo[j].write =>
         /\ Found(src[j][g].members) \in SUBSET Keys
         /\ \A k \in Found(src[j][g].members) : pool[k] # Absent
         /\ [members |-> Found(src[j][g].members), comment |-> src[j][g].comment] \in RowGroup
  BY <1>1 DEF RowGroup, Found
<1>3. ASSUME NEW k \in Keys, PullServiceCreate(j, k) PROVE WorldTyped(svc, grp, pool, rowGrp)'
  BY <1>0, <1>1, <1>3, PutRowTyped DEF PullServiceCreate, Turn, Save
<1>4. ASSUME NEW k \in Keys, PullServiceUpdate(j, k) PROVE WorldTyped(svc, grp, pool, rowGrp)'
  BY <1>0, <1>1, <1>4, PutRowTyped, SameWorldTyped DEF PullServiceUpdate, Turn, Save
<1>5. ASSUME NEW k \in Keys, PullServiceDelete(j, k) PROVE WorldTyped(svc, grp, pool, rowGrp)'
  BY <1>0, <1>5, RemoveRowsTyped DEF PullServiceDelete, Deleted
<1>6. ASSUME NEW g \in Groups, PullGroupCreate(j, g) PROVE WorldTyped(svc, grp, pool, rowGrp)'
  <2>1. /\ g \in todo[j].write
        /\ PutRowGroup(h, g, [members |-> Found(src[j][g].members), comment |-> src[j][g].comment])
    BY <1>6 DEF PullGroupCreate, Turn, h
  <2> DEFINE r == [members |-> Found(src[j][g].members), comment |-> src[j][g].comment]
  <2>2. r \in RowGroup /\ \A k \in r.members : pool[k] # Absent
    BY <1>2, <2>1
  <2> HIDE DEF r
  <2>3. PutRowGroup(h, g, r)
    BY <2>1 DEF r
  <2> QED
    BY <1>0, <2>2, <2>3, PutRowGroupTyped
<1>7. ASSUME NEW g \in Groups, PullGroupUpdate(j, g) PROVE WorldTyped(svc, grp, pool, rowGrp)'
  <2>1. g \in todo[j].write
    BY <1>7 DEF PullGroupUpdate, Turn
  <2>2. CASE rowGrp[h][g] = Absent \/ src[j][g].members = dst[j][g].members
    BY <1>0, <1>7, <2>2, SameWorldTyped DEF PullGroupUpdate, h
  <2>3. CASE ~(rowGrp[h][g] = Absent \/ src[j][g].members = dst[j][g].members)
    <3> DEFINE r == [rowGrp[h][g] EXCEPT !.members = Found(src[j][g].members)]
    <3>1. PutRowGroup(h, g, r)
      BY <1>7, <2>3 DEF PullGroupUpdate, h
    <3>2. rowGrp[h][g] \in RowGroup
      BY <1>0, <2>3 DEF WorldTyped
    <3>3. r \in RowGroup /\ r.members = Found(src[j][g].members)
      BY <1>2, <2>1, <3>2 DEF RowGroup
    <3> HIDE DEF r
    <3>4. \A k \in r.members : pool[k] # Absent
      BY <1>2, <2>1, <3>3
    <3> QED
      BY <1>0, <3>1, <3>3, <3>4, PutRowGroupTyped
  <2> QED
    BY <2>2, <2>3
<1>8. ASSUME NEW g \in Groups, PullGroupDelete(j, g) PROVE WorldTyped(svc, grp, pool, rowGrp)'
  BY <1>0, <1>8, PutRowGroupTyped DEF PullGroupDelete, h
<1> QED
  BY <1>3, <1>4, <1>5, <1>6, <1>7, <1>8 DEF Pull

\* A payload defines a service, whatever the service was.
LEMMA DefineTyped ==
    ASSUME NEW k \in Keys, Pushable(k), NEW old \in Definition
    PROVE  Define(k, old) \in Definition
<1>0. <<k[1], k[2]>> \in Kinds /\ k[1] \in Protocols
  BY KeyShape DEF Pushable
<1> DEFINE was == IF old # None /\ old.protocol = "TCP/UDP/SCTP" THEN old ELSE TcpUdp(None, None)
<1>1. was \in [protocol : {"TCP/UDP/SCTP"}, tcp : Range, udp : Range]
  BY ConstantsAssumption DEF Definition, TcpUdp, Range
<1>2. k[1] \in {"TCP", "UDP"} => SentRange(k) \in Range
  <2>1. k[1] \in {"TCP", "UDP"} => k[2] \in Ports \cup {NoPort}
    BY <1>0 DEF Kinds
  <2> QED
    BY <2>1 DEF SentRange, Range
<1>3. /\ k[1] = "TCP" => Define(k, old) = [was EXCEPT !.tcp = SentRange(k)]
      /\ k[1] = "UDP" => Define(k, old) = [was EXCEPT !.udp = SentRange(k)]
      /\ k[1] \notin {"TCP", "UDP"} => Define(k, old) = [protocol |-> "IP", number |-> k[1]]
  BY <1>0 DEF Define
<1> HIDE DEF was
<1> QED
  BY <1>0, <1>1, <1>2, <1>3 DEF Definition

LEMMA PushedIsTyped ==
    ASSUME SyncInvariant, NEW j \in Jobs, Push(j), ~Raised(j)
    PROVE  WorldTyped(svc, grp, pool, rowGrp)'
<1> DEFINE h == req[j].host
<1>0. h \in Hosts /\ WorldTyped(svc, grp, pool, rowGrp)
  BY DEF SyncInvariant, TypeOK, Requests
<1>1. /\ \A k \in Keys : k \in todo[j].write => src[j][k] \in Text
      /\ \A g \in Groups : g \in todo[j].write => src[j][g] \in RowGroup
  BY PushCalls, Planned
<1> HIDE DEF h
<1>2. \A g \in Groups : g \in todo[j].write => GroupPayload(src[j][g]) \in Group
  BY <1>1, KeyShape DEF GroupPayload, RowGroup, Group
<1>3. ASSUME NEW k \in Keys, PushServiceCreate(j, k) PROVE WorldTyped(svc, grp, pool, rowGrp)'
  <2>1. CASE ~Pushable(k)
    BY <1>0, <1>3, <2>1, SameWorldTyped DEF PushServiceCreate, Skip
  <2>2. CASE Pushable(k)
    <3> DEFINE r == [def |-> Define(k, None), comment |-> src[j][k]]
    <3>1. k \in todo[j].write /\ PutService(h, k[3], r)
      BY <1>3, <2>2 DEF PushServiceCreate, Turn, Skip, Call, h
    <3>2. Define(k, None) \in Definition /\ k[3] \in Names
      BY <2>2, DefineReadsBack, KeyShape
    <3>3. r \in Service
      BY <1>1, <3>1, <3>2 DEF Service
    <3> HIDE DEF r
    <3> QED
      BY <1>0, <3>1, <3>2, <3>3, PutServiceTyped
  <2> QED
    BY <2>1, <2>2
<1>4. ASSUME NEW k \in Keys, PushServiceUpdate(j, k) PROVE WorldTyped(svc, grp, pool, rowGrp)'
  <2>1. CASE ~Pushable(k)
    BY <1>0, <1>4, <2>1, SameWorldTyped DEF PushServiceUpdate, Skip
  <2>2. CASE Pushable(k)
    <3> DEFINE r == [def |-> Define(k, svc[h][k[3]].def), comment |-> src[j][k]]
    <3>1. /\ k \in todo[j].write /\ svc[h][k[3]] # Absent
          /\ PutService(h, k[3], r) /\ k[3] \in Names
      BY <1>4, <2>2, KeyShape DEF PushServiceUpdate, Turn, Skip, Call, h
    <3>2. svc[h][k[3]].def \in Definition
      BY <1>0, <3>1 DEF WorldTyped, Service
    <3>3. r \in Service
      BY <1>1, <2>2, <3>1, <3>2, DefineTyped DEF Service
    <3> HIDE DEF r
    <3> QED
      BY <1>0, <3>1, <3>3, PutServiceTyped
  <2> QED
    BY <2>1, <2>2
<1>5. ASSUME NEW k \in Keys, PushServiceDelete(j, k) PROVE WorldTyped(svc, grp, pool, rowGrp)'
  BY <1>0, <1>5, PutServiceTyped, KeyShape DEF PushServiceDelete, Call, h
<1>6. ASSUME NEW g \in Groups, PushGroupCreate(j, g) PROVE WorldTyped(svc, grp, pool, rowGrp)'
  BY <1>0, <1>2, <1>6, PutGroupTyped DEF PushGroupCreate, Turn, Call, h
<1>7. ASSUME NEW g \in Groups, PushGroupUpdate(j, g) PROVE WorldTyped(svc, grp, pool, rowGrp)'
  BY <1>0, <1>2, <1>7, PutGroupTyped DEF PushGroupUpdate, Turn, Call, h
<1>8. ASSUME NEW g \in Groups, PushGroupDelete(j, g) PROVE WorldTyped(svc, grp, pool, rowGrp)'
  BY <1>0, <1>8, PutGroupTyped DEF PushGroupDelete, Call, h
<1> QED
  BY <1>3, <1>4, <1>5, <1>6, <1>7, <1>8 DEF Push

\* A row that gets another key keeps its place in the groups.
LEMMA RekeyTyped ==
    ASSUME WorldTyped(svc, grp, pool, rowGrp), NEW k \in Keys, NEW new \in Keys, RowRekey(k, new)
    PROVE  WorldTyped(svc, grp, pool, rowGrp)'
<1>1. /\ UNCHANGED <<svc, grp>> /\ pool[k] # Absent /\ pool[new] = Absent
      /\ pool' \in [Keys -> Text \cup {Absent}]
      /\ \A m \in Keys : pool'[m] = IF m = new THEN pool[k] ELSE IF m = k THEN Absent ELSE pool[m]
      /\ rowGrp' = [h \in Hosts |-> [g \in Groups |->
            IF rowGrp[h][g] = Absent \/ k \notin rowGrp[h][g].members THEN rowGrp[h][g]
            ELSE [rowGrp[h][g] EXCEPT !.members = (@ \ {k}) \cup {new}]]]
  BY DEF RowRekey, WorldTyped, deviceVars
<1>2. ASSUME NEW h \in Hosts, NEW g \in Groups
      PROVE  /\ rowGrp'[h][g] \in RowGroup \cup {Absent}
             /\ rowGrp'[h][g] # Absent => \A m \in rowGrp'[h][g].members : pool'[m] # Absent
  <2>1. CASE rowGrp[h][g] = Absent
    BY <1>1, <2>1
  <2>2. CASE rowGrp[h][g] # Absent
    <3>1. /\ rowGrp[h][g] \in RowGroup /\ rowGrp[h][g].members \subseteq Keys
          /\ \A m \in rowGrp[h][g].members : pool[m] # Absent
      BY <2>2 DEF WorldTyped, RowGroup
    <3>2. CASE k \notin rowGrp[h][g].members
      <4>1. rowGrp'[h][g] = rowGrp[h][g]
        BY <1>1, <3>2
      <4> QED
        BY <1>1, <3>1, <3>2, <4>1
    <3>3. CASE k \in rowGrp[h][g].members
      <4>1. rowGrp'[h][g] = [members |-> (rowGrp[h][g].members \ {k}) \cup {new},
                             comment |-> rowGrp[h][g].comment]
        BY <1>1, <2>2, <3>1, <3>3 DEF RowGroup
      <4>2. rowGrp'[h][g] \in RowGroup
        BY <3>1, <4>1 DEF RowGroup
      <4>3. rowGrp'[h][g].members = (rowGrp[h][g].members \ {k}) \cup {new}
        BY <4>1
      <4> QED
        BY <1>1, <3>1, <4>2, <4>3
    <3> QED
      BY <3>2, <3>3
  <2> QED
    BY <2>1, <2>2
<1> QED
  BY <1>1, <1>2 DEF WorldTyped

LEMMA OperatorsTyped ==
    ASSUME TypeOK, Operators
    PROVE  TypeOK'
<1>0. WorldTyped(svc, grp, pool, rowGrp)
  BY DEF TypeOK
<1>1. UNCHANGED <<phase, req, src, dst, todo, runs>> /\ touched' = Jobs /\ edits' \in 0..MaxEdits
  <2>1. Edited
    BY DEF Operators, DeviceServiceEdit, DeviceGroupEdit, RowEdit, RowRekey, RowDelete
  <2> QED
    BY <2>1, ConstantsAssumption DEF Edited, TypeOK
<1>2. WorldTyped(svc, grp, pool, rowGrp)'
  <2>1. ASSUME NEW e \in DeviceEdits, NEW h \in Hosts,
               e.name \in Names, DeviceServiceEdit(h, e.name, e.record)
        PROVE  WorldTyped(svc, grp, pool, rowGrp)'
    BY <1>0, <2>1, WorldsAssumption, PutServiceTyped DEF DeviceServiceEdit
  <2>2. ASSUME NEW e \in DeviceEdits, NEW h \in Hosts,
               e.name \in Groups, DeviceGroupEdit(h, e.name, e.record)
        PROVE  WorldTyped(svc, grp, pool, rowGrp)'
    BY <1>0, <2>2, WorldsAssumption, PutGroupTyped DEF DeviceGroupEdit
  <2>3. ASSUME NEW e \in RowEdits PROVE e.key \in Keys /\ e.new \in Keys /\ e.comment \in Text
    BY WorldsAssumption
  <2>4. ASSUME NEW e \in RowEdits, RowEdit(e.key, e.comment) PROVE WorldTyped(svc, grp, pool, rowGrp)'
    BY <1>0, <2>3, <2>4, PutRowTyped DEF RowEdit
  <2>5. ASSUME NEW e \in RowEdits, RowRekey(e.key, e.new) PROVE WorldTyped(svc, grp, pool, rowGrp)'
    BY <1>0, <2>3, <2>5, RekeyTyped
  <2>6. ASSUME NEW e \in RowEdits, RowDelete(e.key) PROVE WorldTyped(svc, grp, pool, rowGrp)'
    BY <1>0, <2>3, <2>6, RemoveRowsTyped DEF RowDelete
  <2> QED
    BY <2>1, <2>2, <2>4, <2>5, <2>6 DEF Operators
<1> QED
  BY <1>1, <1>2 DEF TypeOK

LEMMA StepTyped ==
    ASSUME SyncInvariant, [Next]_vars
    PROVE  TypeOK'
<1>0. TypeOK
  BY DEF SyncInvariant
<1>1. ASSUME NEW j \in Jobs, Start(j) \/ Load(j) \/ ExecuteSync(j) \/ Finish(j) \/ Crash(j) \/ Raised(j)
      PROVE  TypeOK'
  BY <1>0, <1>1, StartTyped, LoadTyped, ExecuteSyncTyped, RestTyped
<1>2. ASSUME NEW j \in Jobs, Pull(j) \/ Push(j), ~Raised(j) PROVE TypeOK'
  <2>1. \E e : Applied(j, e)
    BY <1>2, PullCalls, PushCalls
  <2>2. WorldTyped(svc, grp, pool, rowGrp)'
    BY <1>2, PulledIsTyped, PushedIsTyped
  <2> QED
    BY <1>0, <2>1, <2>2, AppliedTyped
<1>3. CASE UNCHANGED vars
  <2>1. WorldTyped(svc, grp, pool, rowGrp)'
    BY <1>0, <1>3, SameWorldTyped DEF vars, TypeOK, worldVars, deviceVars, rowVars
  <2> QED
    BY <1>0, <1>3, <2>1 DEF vars, TypeOK
<1> QED
  BY <1>0, <1>1, <1>2, <1>3, OperatorsTyped DEF Next, Work

----------------------------------------------------------------------------
(* Steps that are not the job's own.                                       *)

StepOf(k) ==
    Start(k) \/ Load(k) \/ ExecuteSync(k) \/ Pull(k) \/ Push(k) \/ Finish(k) \/ Crash(k)

\* What job k knows and has to do.
SameJob(k) ==
    /\ phase'[k] = phase[k] /\ req'[k] = req[k]
    /\ src'[k] = src[k] /\ dst'[k] = dst[k] /\ todo'[k] = todo[k]

\* Nobody else alters what a job knows; and if it still counts as undisturbed,
\* nobody else has altered a device or a row.
LEMMA OthersStep ==
    ASSUME SyncInvariant, [Next]_vars, NEW k \in Jobs, ~StepOf(k)
    PROVE  SameJob(k) /\ (k \notin touched' => k \notin touched /\ UNCHANGED worldVars)
<1> DEFINE Goal == SameJob(k) /\ (k \notin touched' => k \notin touched /\ UNCHANGED worldVars)
<1>0. /\ phase \in [Jobs -> Idle \cup Running] /\ req \in [Jobs -> Requests]
      /\ src = [j \in Jobs |-> src[j]] /\ dst = [j \in Jobs |-> dst[j]]
      /\ todo \in [Jobs -> [write : SUBSET Elements, delete : SUBSET Elements]]
  BY DEF SyncInvariant, TypeOK
<1>1. ASSUME NEW j \in Jobs, j # k, Start(j) PROVE Goal
  BY <1>0, <1>1 DEF Start, Advance, SameJob
<1>2. ASSUME NEW j \in Jobs, j # k, Load(j) PROVE Goal
  BY <1>0, <1>2 DEF Load, LoadSourceServices, LoadSourceGroups,
                    LoadTargetServices, LoadTargetGroups, Advance, SameJob
<1>3. ASSUME NEW j \in Jobs, j # k, ExecuteSync(j) \/ Finish(j) \/ Crash(j) \/ Raised(j) PROVE Goal
  BY <1>0, <1>3 DEF ExecuteSync, Finish, Crash, Raised, Advance, SameJob
<1>4. ASSUME NEW j \in Jobs, j # k, NEW e, Applied(j, e) PROVE Goal
  BY <1>0, <1>4 DEF Applied, SameJob
<1>5. ASSUME NEW j \in Jobs, Pull(j) \/ Push(j) PROVE Raised(j) \/ \E e : Applied(j, e)
  BY <1>5, PullCalls, PushCalls
<1>6. CASE Operators
  <2>1. Edited
    BY <1>6 DEF Operators, DeviceServiceEdit, DeviceGroupEdit, RowEdit, RowRekey, RowDelete
  <2> QED
    BY <2>1 DEF Edited, SameJob
<1>7. CASE UNCHANGED vars
  BY <1>7 DEF vars, worldVars, deviceVars, rowVars, SameJob
<1> QED
  BY <1>1, <1>2, <1>3, <1>4, <1>5, <1>6, <1>7 DEF Next, Work, StepOf

\* Two stores with the same services make the same groups of a device.
LEMMA GroupsOfServices ==
    ASSUME NEW h, NEW one, NEW two, \A k \in Keys : one[k] = two[k], NEW kind
    PROVE  GroupsOf(kind, h, one) = GroupsOf(kind, h, two)
<1>1. ASSUME NEW g \in Groups
      PROVE  {k \in Keys : one[k] # Absent /\ k[3] \in grp[h][g].members}
             = {k \in Keys : two[k] # Absent /\ k[3] \in grp[h][g].members}
  OBVIOUS
<1> QED
  BY <1>1 DEF GroupsOf, FgtGroups

LEMMA ReadIs ==
    ASSUME NEW kind, NEW h
    PROVE  /\ \A k \in Keys : Read(kind, h)[k] = ServicesOf(kind, h)[k]
           /\ \A g \in Groups : Read(kind, h)[g] = GroupsOf(kind, h, ServicesOf(kind, h))[g]
BY NothingAssumption DEF Read, Elements

LEMMA SameReads ==
    ASSUME NEW k \in Jobs, req'[k] = req[k], UNCHANGED worldVars
    PROVE  /\ FgtServices(req[k].host)' = FgtServices(req[k].host)
           /\ FgtGroups(req[k].host, dst[k])' = FgtGroups(req[k].host, dst'[k])
           /\ Read(SourceKind(k), req[k].host)' = Read(SourceKind(k), req[k].host)
           /\ Read(TargetKind(k), req[k].host)' = Read(TargetKind(k), req[k].host)
<1>0. UNCHANGED <<svc, grp, pool, rowGrp>>
  BY DEF worldVars, deviceVars, rowVars
<1>1. FgtServices(req[k].host)' = FgtServices(req[k].host)
  BY <1>0 DEF FgtServices, KeyOf
<1>2. FgtGroups(req[k].host, dst[k])' = FgtGroups(req[k].host, dst'[k])
  BY <1>0 DEF FgtGroups
<1> QED
  BY <1>0, <1>1, <1>2
     DEF Read, ServicesOf, GroupsOf, FgtGroups, FgtServices, KeyOf, SourceKind, TargetKind

\* What was pushed depends on the services the device reads, and on the plan.
LEMMA SamePlanPushed ==
    ASSUME NEW k \in Jobs, UNCHANGED <<req[k], src[k], dst[k], todo[k]>>,
           FgtServices(req[k].host)' = FgtServices(req[k].host), PushedServices(k)
    PROVE  PushedServices(k)'
<1>1. ASSUME NEW m PROVE PushOutcome(k, m)' = PushOutcome(k, m) /\ PushedAs(k, m)' = PushedAs(k, m)
  BY DEF PushOutcome, PushedAs, Outcome, Pending, Writes, Pushable, Arrived
<1> QED
  BY <1>1 DEF PushedServices

LEMMA SameCourse ==
    ASSUME NEW k \in Jobs, SameJob(k), CourseOf(k),
           k \notin touched' => k \notin touched /\ UNCHANGED worldVars
    PROVE  CourseOf(k)'
<1>1. PlanFollowsDiff(k)'
  BY DEF SameJob, CourseOf, PlanFollowsDiff, Writes, Deletes, ServicesDone, Pending, NoWork
<1>2. CASE k \in touched'
  BY <1>1, <1>2 DEF CourseOf, SourceIsCurrent, TargetIsCurrent, PullIsOnCourse, PushIsOnCourse
<1>3. CASE k \notin touched'
  <2> USE <1>3
  <2>0. /\ k \notin touched /\ UNCHANGED worldVars
        /\ phase'[k] = phase[k] /\ req'[k] = req[k]
        /\ src'[k] = src[k] /\ dst'[k] = dst[k] /\ todo'[k] = todo[k]
    BY DEF SameJob
  <2>1. /\ FgtServices(req[k].host)' = FgtServices(req[k].host)
        /\ FgtGroups(req[k].host, dst[k])' = FgtGroups(req[k].host, dst[k])
        /\ Read(SourceKind(k), req[k].host)' = Read(SourceKind(k), req[k].host)
        /\ Read(TargetKind(k), req[k].host)' = Read(TargetKind(k), req[k].host)
    BY <2>0, SameReads
  <2>2. \A e : Outcome(k, e)' = Outcome(k, e)
    BY <2>0 DEF Outcome, Pending
  <2>3. SourceIsCurrent(k)' /\ TargetIsCurrent(k)'
    BY <2>0, <2>1 DEF CourseOf, SourceIsCurrent, TargetIsCurrent, SourceNames, TargetNames
  <2>4. PullIsOnCourse(k)'
    <3>1. \A g \in Groups : PulledGroup(k, g)' = PulledGroup(k, g)
      BY <2>0, <2>2 DEF PulledGroup, worldVars, rowVars
    <3> QED
      BY <2>0, <2>2, <3>1 DEF CourseOf, PullIsOnCourse, worldVars, rowVars
  <2>5. PushIsOnCourse(k)'
    <3>1. \A g \in Groups : PushedGroup(k, g)' = PushedGroup(k, g)
      BY <2>0, <2>1 DEF PushedGroup, Writes, Deletes, worldVars, deviceVars
    <3>2. PushedServices(k) => PushedServices(k)'
      BY <2>0, <2>1, <2>2, SamePlanPushed
    <3> QED
      BY <2>0, <3>1, <3>2 DEF CourseOf, PushIsOnCourse
  <2> QED
    BY <1>1, <2>3, <2>4, <2>5 DEF CourseOf
<1> QED
  BY <1>2, <1>3

----------------------------------------------------------------------------
(* The job's own steps, up to the diff.                                    *)

LEMMA StartCourse ==
    ASSUME SyncInvariant, NEW k \in Jobs, Start(k)
    PROVE  CourseOf(k)'
<1>1. phase'[k] = "source"
  BY DEF SyncInvariant, TypeOK, Start, Advance
<1> QED
  BY <1>1 DEF CourseOf, PlanFollowsDiff, SourceIsCurrent, TargetIsCurrent, PullIsOnCourse,
                    PushIsOnCourse, Applying, SourceNames

LEMMA LoadCourse ==
    ASSUME SyncInvariant, NEW k \in Jobs, Load(k), CourseOf(k)
    PROVE  CourseOf(k)'
<1> DEFINE h == req[k].host
           source == Read(SourceKind(k), h)
           target == Read(TargetKind(k), h)
<1>0. /\ phase \in [Jobs -> Idle \cup Running]
      /\ src = [j \in Jobs |-> src[j]] /\ dst = [j \in Jobs |-> dst[j]]
      /\ WorldTyped(svc, grp, pool, rowGrp) /\ h \in Hosts
      /\ req[k].kind \in {"pull", "push"}
      /\ \A e \in Elements : e \in Keys \/ e \in Groups
  BY DEF SyncInvariant, TypeOK, Requests, Elements
<1>1. UNCHANGED worldVars /\ req' = req /\ touched' = touched
  BY DEF Load, LoadSourceServices, LoadSourceGroups, LoadTargetServices, LoadTargetGroups
<1>2. /\ Read(SourceKind(k), req[k].host)' = source
      /\ Read(TargetKind(k), req[k].host)' = target
  BY <1>1, SameReads
<1>3. phase'[k] \notin Applying \cup {"source", "idle", "crashed"}
  BY <1>0 DEF Load, LoadSourceServices, LoadSourceGroups, LoadTargetServices, LoadTargetGroups,
              Advance, Applying
<1>4. /\ LoadSourceServices(k) =>
            /\ phase[k] = "source" /\ phase'[k] = "sourceGroups" /\ dst'[k] = dst[k]
            /\ src'[k] = With(src[k], ServicesOf(SourceKind(k), h))
      /\ LoadSourceGroups(k) =>
            /\ phase[k] = "sourceGroups" /\ phase'[k] = "target" /\ dst'[k] = dst[k]
            /\ src'[k] = With(src[k], GroupsOf(SourceKind(k), h, src[k]))
      /\ LoadTargetServices(k) =>
            /\ phase[k] = "target" /\ phase'[k] = "targetGroups" /\ src'[k] = src[k]
            /\ dst'[k] = With(dst[k], ServicesOf(TargetKind(k), h))
      /\ LoadTargetGroups(k) =>
            /\ phase[k] = "targetGroups" /\ phase'[k] = "loaded" /\ src'[k] = src[k]
            /\ dst'[k] = With(dst[k], GroupsOf(TargetKind(k), h, dst[k]))
  BY <1>0 DEF LoadSourceServices, LoadSourceGroups, LoadTargetServices, LoadTargetGroups, Advance
<1>5. ASSUME NEW store, NEW kind
      PROVE  /\ \A e \in Keys : With(store, ServicesOf(kind, h))[e] = Read(kind, h)[e]
             /\ (\A e \in Keys : store[e] = Read(kind, h)[e]) =>
                   \A e \in Elements : With(store, GroupsOf(kind, h, store))[e] = Read(kind, h)[e]
             /\ \A e \in Keys : With(store, GroupsOf(kind, h, store))[e] = store[e]
  <2>1. \A e \in Keys : With(store, ServicesOf(kind, h))[e] = Read(kind, h)[e]
    BY <1>0, ReadIs, WithReads, ServicesOfTyped
  <2>2. DOMAIN GroupsOf(kind, h, store) = Groups
    BY <1>0, GroupsOfTyped
  <2>3. ASSUME \A e \in Keys : store[e] = Read(kind, h)[e]
        PROVE  GroupsOf(kind, h, store) = GroupsOf(kind, h, ServicesOf(kind, h))
    BY <2>3, ReadIs, GroupsOfServices
  <2> QED
    BY <1>0, <2>1, <2>2, <2>3, ReadIs, WithReads
<1>6. SourceIsCurrent(k)'
  <2> SUFFICES ASSUME k \notin touched, NEW e \in SourceNames(phase'[k])
               PROVE  src'[k][e] = source[e]
    BY <1>1, <1>2 DEF SourceIsCurrent, SourceNames
  <2>1. e \in Elements
    BY DEF SourceNames, Elements
  <2>2. CASE LoadSourceServices(k)
    BY <1>4, <1>5, <2>2 DEF SourceNames
  <2>3. CASE LoadSourceGroups(k)
    <3>1. \A i \in Keys : src[k][i] = source[i]
      BY <1>4, <2>3 DEF CourseOf, SourceIsCurrent, SourceNames
    <3> QED
      BY <1>4, <1>5, <2>1, <2>3, <3>1
  <2>4. CASE LoadTargetServices(k) \/ LoadTargetGroups(k)
    BY <1>4, <2>1, <2>4 DEF CourseOf, SourceIsCurrent, SourceNames
  <2> QED
    BY <2>2, <2>3, <2>4 DEF Load
<1>7. TargetIsCurrent(k)'
  <2> SUFFICES ASSUME k \notin touched, phase'[k] \in {"targetGroups", "loaded"},
                      NEW e \in TargetNames(phase'[k])
               PROVE  dst'[k][e] = target[e]
    BY <1>1, <1>2 DEF TargetIsCurrent, TargetNames
  <2>1. e \in Elements
    BY DEF TargetNames, Elements
  <2>2. CASE LoadTargetServices(k)
    BY <1>4, <1>5, <2>2 DEF TargetNames
  <2>3. CASE LoadTargetGroups(k)
    <3>1. \A i \in Keys : dst[k][i] = target[i]
      BY <1>4, <2>3 DEF CourseOf, TargetIsCurrent, TargetNames
    <3> QED
      BY <1>4, <1>5, <2>1, <2>3, <3>1
  <2> QED
    BY <1>4, <2>2, <2>3 DEF Load
<1> QED
  BY <1>3, <1>6, <1>7 DEF CourseOf, PlanFollowsDiff, PullIsOnCourse, PushIsOnCourse

LEMMA ExecuteSyncCourse ==
    ASSUME SyncInvariant, NEW k \in Jobs, ExecuteSync(k), CourseOf(k)
    PROVE  CourseOf(k)'
<1> DEFINE h == req[k].host
<1>0. /\ phase \in [Jobs -> Idle \cup Running]
      /\ todo \in [Jobs -> [write : SUBSET Elements, delete : SUBSET Elements]]
      /\ Loaded(dst[k]) /\ WorldTyped(svc, grp, pool, rowGrp) /\ h \in Hosts
      /\ Keys \subseteq Elements /\ Groups \subseteq Elements
  BY DEF SyncInvariant, TypeOK, Elements, Requests
<1>1. /\ UNCHANGED worldVars /\ req' = req /\ touched' = touched /\ src' = src /\ dst' = dst
      /\ phase[k] = "loaded" /\ phase'[k] = "syncing"
      /\ todo'[k] = [write |-> Writes(src[k], dst[k]),
                     delete |-> IF req[k].delete THEN Deletes(src[k], dst[k]) ELSE {}]
  BY <1>0 DEF ExecuteSync, Advance
<1>2. /\ FgtServices(req[k].host)' = FgtServices(h)
      /\ FgtGroups(req[k].host, dst[k])' = FgtGroups(h, dst[k])
      /\ Read(SourceKind(k), req[k].host)' = Read(SourceKind(k), h)
  BY <1>1, SameReads
<1>3. PlanFollowsDiff(k)'
  BY <1>1 DEF PlanFollowsDiff, Writes, Deletes
<1>4. SourceIsCurrent(k)'
  BY <1>1, <1>2 DEF CourseOf, SourceIsCurrent, SourceNames
<1>5. TargetIsCurrent(k)'
  BY <1>1 DEF TargetIsCurrent
<1>6. \A e \in Elements : Outcome(k, e)' = dst[k][e]
  BY <1>1 DEF Outcome, Pending, Writes, Deletes
<1>7. ASSUME k \notin touched
      PROVE  /\ \A e \in Keys : dst[k][e] = ServicesOf(TargetKind(k), h)[e]
             /\ \A g \in Groups : dst[k][g] = GroupsOf(TargetKind(k), h, ServicesOf(TargetKind(k), h))[g]
             /\ GroupsOf(TargetKind(k), h, ServicesOf(TargetKind(k), h)) = GroupsOf(TargetKind(k), h, dst[k])
  <2>1. \A e \in Elements : dst[k][e] = Read(TargetKind(k), h)[e]
    BY <1>1, <1>7 DEF CourseOf, TargetIsCurrent, TargetNames
  <2>2. \A e \in Keys : dst[k][e] = ServicesOf(TargetKind(k), h)[e]
    BY <1>0, <2>1, ReadIs
  <2>3. \A g \in Groups : dst[k][g] = GroupsOf(TargetKind(k), h, ServicesOf(TargetKind(k), h))[g]
    BY <1>0, <2>1, ReadIs
  <2> QED
    BY <2>2, <2>3, GroupsOfServices
<1>8. PushIsOnCourse(k)'
  <2> SUFFICES ASSUME k \notin touched, req[k].kind = "push"
               PROVE  PushedServices(k)' /\ \A g \in Groups : PushedGroup(k, g)'
    BY <1>1 DEF PushIsOnCourse
  <2>1. TargetKind(k) = "device"
    BY DEF TargetKind
  <2>2. /\ \A e \in Keys : dst[k][e] = FgtServices(h)[e]
        /\ \A g \in Groups : dst[k][g] = FgtGroups(h, dst[k])[g]
    BY <1>7, <2>1 DEF ServicesOf, GroupsOf
  <2>3. ASSUME NEW e \in Keys PROVE PushOutcome(k, e)' = dst[k][e] /\ PushedAs(k, e)' = e
    BY <1>0, <1>1, <1>6 DEF PushOutcome, PushedAs, Writes, Pushable
  <2>4. \A g \in Groups : PushedGroup(k, g)'
    <3>1. /\ Writes(src[k], dst[k])' \ todo'[k].write = {}
          /\ req[k].delete => Deletes(src[k], dst[k])' \ todo'[k].delete = {}
      BY <1>1 DEF Writes, Deletes
    <3> QED
      BY <1>1, <1>2, <2>2, <3>1 DEF PushedGroup
  <2>5. ASSUME NEW e \in Keys, FgtServices(h)[e] # Absent PROVE KeyOf(h, e[3]) = e
    BY <2>5 DEF FgtServices
  <2> QED
    BY <1>2, <2>2, <2>3, <2>4, <2>5 DEF PushedServices
<1>9. PullIsOnCourse(k)'
  <2> SUFFICES ASSUME k \notin touched, req[k].kind = "pull"
               PROVE  /\ \A e \in Keys : pool[e] = Outcome(k, e)'
                      /\ \A g \in Groups : rowGrp[h][g] = PulledGroup(k, g)'
                      /\ \A g \in Groups : dst[k][g] # Absent =>
                            \A e \in dst[k][g].members : dst[k][e] # Absent
    BY <1>1 DEF PullIsOnCourse, worldVars, rowVars
  <2>1. TargetKind(k) = "rows"
    BY DEF TargetKind
  <2>2. /\ \A e \in Keys : dst[k][e] = pool[e]
        /\ \A g \in Groups : dst[k][g] = rowGrp[h][g]
    BY <1>7, <2>1 DEF ServicesOf, GroupsOf
  <2>3. \A g \in Groups : rowGrp[h][g] # Absent =>
           /\ rowGrp[h][g] = [members |-> rowGrp[h][g].members, comment |-> rowGrp[h][g].comment]
           /\ rowGrp[h][g].members \subseteq Keys
           /\ \A e \in rowGrp[h][g].members : pool[e] # Absent
    BY <1>0 DEF WorldTyped, RowGroup
  <2>4. ASSUME NEW g \in Groups PROVE rowGrp[h][g] = PulledGroup(k, g)'
    <3>1. CASE rowGrp[h][g] = Absent
      BY <1>0, <1>6, <2>2, <3>1 DEF PulledGroup
    <3>2. CASE rowGrp[h][g] # Absent
      <4>1. PulledGroup(k, g)' = [members |-> {e \in rowGrp[h][g].members : pool[e] # Absent},
                                  comment |-> rowGrp[h][g].comment]
        BY <1>0, <1>1, <1>6, <2>2, <3>2 DEF PulledGroup, worldVars, rowVars
      <4>2. {e \in rowGrp[h][g].members : pool[e] # Absent} = rowGrp[h][g].members
        BY <2>3, <3>2
      <4> QED
        BY <2>3, <3>2, <4>1, <4>2
    <3> QED
      BY <3>1, <3>2
  <2>5. ASSUME NEW g \in Groups, dst[k][g] # Absent, NEW e \in dst[k][g].members
        PROVE  dst[k][e] # Absent
    <3>1. e \in Keys /\ pool[e] # Absent
      BY <2>2, <2>3, <2>5
    <3> QED
      BY <2>2, <3>1
  <2> QED
    BY <1>0, <1>6, <2>2, <2>4, <2>5
<1> QED
  BY <1>3, <1>4, <1>5, <1>8, <1>9 DEF CourseOf

LEMMA EndCourse ==
    ASSUME SyncInvariant, NEW k \in Jobs, CourseOf(k), Finish(k) \/ Crash(k) \/ Raised(k),
           Raised(k) => phase[k] = "syncing"
    PROVE  CourseOf(k)'
<1>1. /\ UNCHANGED worldVars /\ UNCHANGED <<req, src, dst, todo, touched>>
      /\ \/ phase'[k] = "crashed"
         \/ /\ phase[k] = "syncing" /\ phase'[k] \in {"done", "failed"}
            /\ phase'[k] = "done" => todo[k] = NoWork
  BY DEF SyncInvariant, TypeOK, Finish, Crash, Raised, Advance
<1>3. CASE phase'[k] = "crashed"
  BY <1>3 DEF CourseOf, PlanFollowsDiff, SourceIsCurrent, TargetIsCurrent, PullIsOnCourse,
                    PushIsOnCourse, Applying
<1>4. CASE phase[k] = "syncing" /\ phase'[k] \in {"done", "failed"}
  <2>1. /\ FgtServices(req[k].host)' = FgtServices(req[k].host)
        /\ FgtGroups(req[k].host, dst[k])' = FgtGroups(req[k].host, dst[k])
        /\ Read(SourceKind(k), req[k].host)' = Read(SourceKind(k), req[k].host)
    BY <1>1, SameReads
  <2>2. \A e : Outcome(k, e)' = Outcome(k, e)
    BY <1>1 DEF Outcome, Pending
  <2>3. PlanFollowsDiff(k)'
    BY <1>1, <1>4 DEF CourseOf, PlanFollowsDiff, Applying, Writes, Deletes, ServicesDone, Pending
  <2>4. SourceIsCurrent(k)' /\ TargetIsCurrent(k)'
    BY <1>1, <1>4, <2>1 DEF CourseOf, SourceIsCurrent, TargetIsCurrent, SourceNames
  <2>5. PullIsOnCourse(k)'
    <3>1. \A g \in Groups : PulledGroup(k, g)' = PulledGroup(k, g)
      BY <1>1, <2>2 DEF PulledGroup, worldVars, rowVars
    <3> QED
      BY <1>1, <1>4, <2>2, <3>1 DEF CourseOf, PullIsOnCourse, Applying, worldVars, rowVars
  <2>6. PushIsOnCourse(k)'
    <3>1. \A g \in Groups : PushedGroup(k, g)' = PushedGroup(k, g)
      BY <1>1, <2>1 DEF PushedGroup, Writes, Deletes, worldVars, deviceVars
    <3>2. PushedServices(k) => PushedServices(k)'
      BY <1>1, <2>1, SamePlanPushed
    <3> QED
      BY <1>1, <1>4, <3>1, <3>2 DEF CourseOf, PushIsOnCourse, Applying
  <2> QED
    BY <2>3, <2>4, <2>5, <2>6 DEF CourseOf
<1> QED
  BY <1>1, <1>3, <1>4

----------------------------------------------------------------------------
(* A CRUD call takes one element off the plan.                             *)

LEMMA AppliedPlan ==
    ASSUME SyncInvariant, NEW k \in Jobs, CourseOf(k), NEW e, CallOn(k, e), Applied(k, e)
    PROVE  PlanFollowsDiff(k)'
<1>1. /\ todo'[k] = [write |-> todo[k].write \ {e}, delete |-> todo[k].delete \ {e}]
      /\ UNCHANGED <<phase, src, dst, req>> /\ phase[k] = "syncing"
  BY DEF Applied, SyncInvariant, TypeOK, CallOn
<1>2. /\ todo[k].write \subseteq Writes(src[k], dst[k])
      /\ todo[k].delete \subseteq Deletes(src[k], dst[k])
      /\ ~req[k].delete => todo[k].delete = {}
      /\ ServicesDone(k) \/ Writes(src[k], dst[k]) \cap Groups \subseteq todo[k].write
  BY <1>1 DEF CourseOf, PlanFollowsDiff, Applying
<1>3. /\ Writes(src[k], dst[k])' = Writes(src[k], dst[k])
      /\ Deletes(src[k], dst[k])' = Deletes(src[k], dst[k])
  BY <1>1 DEF Writes, Deletes
<1>4. ServicesDone(k)' \/ Writes(src[k], dst[k]) \cap Groups \subseteq todo'[k].write
  BY <1>1, <1>2 DEF ServicesDone, Pending, CallOn
<1> QED
  BY <1>1, <1>2, <1>3, <1>4 DEF PlanFollowsDiff

\* The element worked off has its outcome now, the others keep theirs.
LEMMA AppliedOutcome ==
    ASSUME SyncInvariant, NEW k \in Jobs, NEW e, CallOn(k, e), Applied(k, e)
    PROVE  /\ e \in Elements /\ Outcome(k, e) = dst[k][e]
           /\ e \in todo[k].write => src[k][e] # Absent /\ Outcome(k, e)' = src[k][e]
           /\ e \in todo[k].delete =>
                 src[k][e] = Absent /\ dst[k][e] # Absent /\ req[k].delete /\ Outcome(k, e)' = Absent
           /\ \A d : d # e => Outcome(k, d)' = Outcome(k, d)
           /\ UNCHANGED <<phase, req, src, dst>> /\ (k \notin touched' => k \notin touched)
           /\ todo'[k] = [write |-> todo[k].write \ {e}, delete |-> todo[k].delete \ {e}]
<1>1. /\ todo'[k] = [write |-> todo[k].write \ {e}, delete |-> todo[k].delete \ {e}]
      /\ UNCHANGED <<phase, req, src, dst>> /\ (k \notin touched' => k \notin touched)
      /\ e \in Pending(k) /\ e \in Elements
  BY DEF Applied, SyncInvariant, TypeOK, Pending, CallOn
<1>2. /\ e \in todo[k].write => src[k][e] # Absent
      /\ e \in todo[k].delete => src[k][e] = Absent /\ dst[k][e] # Absent /\ req[k].delete
  BY Planned DEF CallOn
<1> QED
  BY <1>1, <1>2 DEF Outcome, Pending

----------------------------------------------------------------------------
(* Pushing.                                                                *)

\* The service a push writes is the only one that reads differently.
LEMMA PutServiceReads ==
    ASSUME WorldTyped(svc, grp, pool, rowGrp), NEW h \in Hosts, NEW n \in Names,
           NEW r \in Service \cup {Absent}, PutService(h, n, r),
           NEW a \in Keys, a[3] = n, r # Absent => ServicePorts(r.def) = <<a[1], a[2]>>
    PROVE  \A m \in Keys : FgtServices(h)'[m] =
              IF m[3] # n THEN FgtServices(h)[m]
              ELSE IF r # Absent /\ m = a THEN r.comment ELSE Absent
<1>0. /\ a = <<a[1], a[2], a[3]>> /\ <<a[1], a[2]>> \in Kinds
      /\ None \notin Kinds /\ \A m \in Keys : m # None /\ m[3] \in Names
  BY KeyShape, NothingAssumption
<1>1. \A i \in Names : svc'[h][i] = IF i = n THEN r ELSE svc[h][i]
  BY PutServiceTyped
<1> SUFFICES ASSUME NEW m \in Keys
             PROVE  FgtServices(h)'[m] =
                      IF m[3] # n THEN FgtServices(h)[m]
                      ELSE IF r # Absent /\ m = a THEN r.comment ELSE Absent
  OBVIOUS
<1>2. CASE m[3] # n
  BY <1>0, <1>1, <1>2 DEF FgtServices, KeyOf
<1>3. CASE m[3] = n
  <2>1. svc'[h][m[3]] = r
    BY <1>0, <1>1, <1>3
  <2>2. CASE r = Absent
    BY <1>0, <1>3, <2>1, <2>2 DEF FgtServices, KeyOf
  <2>3. CASE r # Absent
    <3>1. KeyOf(h, m[3])' = a
      <4>1. ServicePorts(r.def) = <<a[1], a[2]>> /\ ServicePorts(r.def) # None
        BY <1>0, <2>3
      <4> QED
        BY <1>0, <1>3, <2>1, <2>3, <4>1 DEF KeyOf, Key
    <3>2. FgtServices(h)'[m] = IF a = m THEN r.comment ELSE Absent
      BY <2>1, <3>1 DEF FgtServices
    <3> QED
      BY <1>3, <2>3, <3>2
  <2> QED
    BY <2>2, <2>3
<1> QED
  BY <1>2, <1>3

\* What an undisturbed push knows of its device.
LEMMA PushKnows ==
    ASSUME SyncInvariant, NEW k \in Jobs, CourseOf(k), phase[k] = "syncing", req[k].kind = "push",
           k \notin touched, NEW h \in Hosts, h = req[k].host
    PROVE  /\ PushedServices(k) /\ \A g \in Groups : PushedGroup(k, g)
           /\ \A e \in Keys : src[k][e] = pool[e]
           /\ \A g \in Groups : src[k][g] = rowGrp[h][g]
           /\ \A e \in Keys \cap Pending(k) :
                 PushOutcome(k, e) = dst[k][e] /\ PushedAs(k, e) = e
           /\ \A e \in Keys \cap Pending(k) : dst[k][e] # Absent =>
                 /\ KeyOf(h, e[3]) = e
                 /\ svc[h][e[3]] \in Service /\ svc[h][e[3]] # Absent
                 /\ ServicePorts(svc[h][e[3]].def) = <<e[1], e[2]>>
<1>1. PushedServices(k) /\ \A g \in Groups : PushedGroup(k, g)
  BY DEF CourseOf, PushIsOnCourse, Applying
<1>2. /\ \A e \in Keys : src[k][e] = pool[e]
      /\ \A g \in Groups : src[k][g] = rowGrp[h][g]
  <2>1. \A e \in Elements : src[k][e] = Read("rows", h)[e]
    BY DEF CourseOf, SourceIsCurrent, SourceNames, SourceKind
  <2> QED
    BY <2>1, ReadIs DEF ServicesOf, GroupsOf, Elements
<1>3. svc \in [Hosts -> [Names -> Service \cup {Absent}]]
  BY DEF SyncInvariant, TypeOK, WorldTyped
<1>4. ASSUME NEW e \in Keys, e \in Pending(k)
      PROVE  PushOutcome(k, e) = dst[k][e] /\ PushedAs(k, e) = e
  <2>1. Outcome(k, e) = dst[k][e]
    BY <1>4 DEF Outcome
  <2>2. e \in todo[k].write \/ src[k][e] = Absent
    BY <1>4, Planned DEF Pending
  <2> QED
    BY <2>1, <2>2, PushedAsTyped DEF PushOutcome
<1>5. ASSUME NEW e \in Keys, e \in Pending(k), dst[k][e] # Absent
      PROVE  /\ KeyOf(h, e[3]) = e
             /\ svc[h][e[3]] \in Service /\ svc[h][e[3]] # Absent
             /\ ServicePorts(svc[h][e[3]].def) = <<e[1], e[2]>>
  <2>1. FgtServices(h)[e] # Absent
    BY <1>1, <1>4, <1>5 DEF PushedServices
  <2>2. KeyOf(h, e[3]) = e
    BY <1>3, <2>1, FgtServicesRead
  <2>3. e[3] \in Names /\ e # None
    BY KeyShape, NothingAssumption
  <2>4. /\ svc[h][e[3]] \in Service /\ svc[h][e[3]] # Absent
        /\ e = Key(ServicePorts(svc[h][e[3]].def), e[3])
        /\ ServicePorts(svc[h][e[3]].def) # None /\ svc[h][e[3]].def \in Definition
    BY <1>3, <2>2, <2>3, KeyOfTyped DEF KeyOf, Service
  <2>5. ServicePorts(svc[h][e[3]].def)
          = <<ServicePorts(svc[h][e[3]].def)[1], ServicePorts(svc[h][e[3]].def)[2]>>
    BY <2>4, ServicePortsTyped
  <2>6. ServicePorts(svc[h][e[3]].def) = <<e[1], e[2]>>
    BY <2>4, <2>5 DEF Key
  <2> QED
    BY <2>2, <2>4, <2>6
<1> QED
  BY <1>1, <1>2, <1>4, <1>5

\* Working off a service leaves the groups where they are.
LEMMA ServiceStepCourse ==
    ASSUME SyncInvariant, NEW k \in Jobs, CourseOf(k), k \notin touched, req[k].kind = "push",
           NEW h \in Hosts, h = req[k].host, NEW e \in Keys, CallOn(k, e), Applied(k, e), UNCHANGED grp,
           PushedServices(k)'
    PROVE  PushIsOnCourse(k)'
<1>1. /\ UNCHANGED <<phase, req, src, dst>>
      /\ todo'[k] = [write |-> todo[k].write \ {e}, delete |-> todo[k].delete \ {e}]
      /\ e \notin Groups
  BY AppliedOutcome, KeyShape
<1>2. \A g \in Groups : PushedGroup(k, g)
  BY DEF CallOn, CourseOf, PushIsOnCourse, Applying
<1>3. /\ Writes(src[k], dst[k])' = Writes(src[k], dst[k])
      /\ Deletes(src[k], dst[k])' = Deletes(src[k], dst[k])
      /\ FgtGroups(req[k].host, dst[k])' = FgtGroups(req[k].host, dst[k])
  BY <1>1 DEF Writes, Deletes, FgtGroups
<1>4. \A g \in Groups : PushedGroup(k, g)'
  BY <1>1, <1>2, <1>3 DEF PushedGroup
<1> QED
  BY <1>4 DEF PushIsOnCourse

\* The element worked off is the only one whose outcome changes.
LEMMA PushStepOutcome ==
    ASSUME SyncInvariant, NEW k \in Jobs, CourseOf(k), NEW e \in Keys, CallOn(k, e), Applied(k, e)
    PROVE  /\ \A m \in Keys \ {e} :
                 PushOutcome(k, m)' = PushOutcome(k, m) /\ PushedAs(k, m)' = PushedAs(k, m)
           /\ e \in todo[k].write /\ Pushable(e) =>
                 PushOutcome(k, e)' = src[k][e] /\ PushedAs(k, e)' = Arrived(e)
           /\ e \in todo[k].write /\ ~Pushable(e) =>
                 PushOutcome(k, e)' = dst[k][e] /\ PushedAs(k, e)' = e
           /\ e \in todo[k].delete => PushOutcome(k, e)' = Absent
<1>1. /\ UNCHANGED <<phase, req, src, dst>>
      /\ todo'[k] = [write |-> todo[k].write \ {e}, delete |-> todo[k].delete \ {e}]
      /\ \A d : d # e => Outcome(k, d)' = Outcome(k, d)
  BY AppliedOutcome
<1>2. /\ e \in todo[k].write => src[k][e] # Absent /\ Outcome(k, e)' = src[k][e]
      /\ e \in todo[k].delete => src[k][e] = Absent /\ Outcome(k, e)' = Absent
  BY AppliedOutcome
<1>3. Writes(src[k], dst[k])' = Writes(src[k], dst[k])
  BY <1>1 DEF Writes
<1>4. e \in todo[k].write => e \in Writes(src[k], dst[k])
  BY DEF CourseOf, PlanFollowsDiff, Applying, CallOn
<1>5. ASSUME NEW m \in Keys, m # e
      PROVE  PushOutcome(k, m)' = PushOutcome(k, m) /\ PushedAs(k, m)' = PushedAs(k, m)
  BY <1>1, <1>3, <1>5 DEF PushOutcome, PushedAs, Pushable, Arrived
<1>6. /\ PushOutcome(k, e)' = IF Pushable(e) \/ src[k][e] = Absent THEN Outcome(k, e)' ELSE dst[k][e]
      /\ PushedAs(k, e)' = IF e \in Writes(src[k], dst[k]) /\ Pushable(e) THEN Arrived(e) ELSE e
  BY <1>1, <1>3 DEF PushOutcome, PushedAs, Pushable, Arrived
<1> QED
  BY <1>2, <1>4, <1>5, <1>6

\* Skipping a row FortiOS cannot express leaves the services as they are.
LEMMA SkippedPushed ==
    ASSUME SyncInvariant, NEW k \in Jobs, CourseOf(k), k \notin touched, req[k].kind = "push",
           NEW h \in Hosts, h = req[k].host, NEW e \in Keys, CallOn(k, e), Applied(k, e),
           e \in todo[k].write, ~Pushable(e), UNCHANGED worldVars
    PROVE  PushedServices(k)'
<1>1. /\ PushedServices(k) /\ PushOutcome(k, e) = dst[k][e] /\ PushedAs(k, e) = e
  BY PushKnows DEF CallOn
<1>2. \A m \in Keys : PushOutcome(k, m)' = PushOutcome(k, m) /\ PushedAs(k, m)' = PushedAs(k, m)
  BY <1>1, PushStepOutcome
<1>3. UNCHANGED req
  BY AppliedOutcome
<1>4. FgtServices(req[k].host)' = FgtServices(req[k].host)
  BY <1>3, SameReads
<1> QED
  BY <1>1, <1>2, <1>4 DEF PushedServices

\* A service is written where the row it is written for had none, or its own.
LEMMA WrittenPushed ==
    ASSUME SyncInvariant, NEW k \in Jobs, CourseOf(k), k \notin touched, req[k].kind = "push",
           NEW h \in Hosts, h = req[k].host, NEW e \in Keys, CallOn(k, e), Applied(k, e),
           e \in todo[k].write, Pushable(e), dst[k][e] # Absent \/ svc[h][e[3]] = Absent,
           NEW r \in Service, PutService(h, e[3], r), r.comment = src[k][e],
           ServicePorts(r.def) = <<Arrived(e)[1], Arrived(e)[2]>>
    PROVE  PushedServices(k)'
<1>0. /\ WorldTyped(svc, grp, pool, rowGrp) /\ UNCHANGED req /\ src[k][e] # Absent
      /\ r # Absent /\ e[3] \in Names
  <2>1. UNCHANGED req /\ src[k][e] # Absent
    BY AppliedOutcome
  <2>2. r # Absent /\ e[3] \in Names
    BY KeyShape, NothingAssumption
  <2> QED
    BY <2>1, <2>2 DEF SyncInvariant, TypeOK
<1>1. /\ PushedServices(k) /\ PushOutcome(k, e) = dst[k][e] /\ PushedAs(k, e) = e
      /\ dst[k][e] # Absent => KeyOf(h, e[3]) = e
  BY PushKnows DEF CallOn
<1>2. /\ PushOutcome(k, e)' = src[k][e] /\ PushedAs(k, e)' = Arrived(e)
      /\ \A m \in Keys \ {e} : PushOutcome(k, m)' = PushOutcome(k, m) /\ PushedAs(k, m)' = PushedAs(k, m)
  BY PushStepOutcome
<1>3. Arrived(e) \in Keys /\ Arrived(e)[3] = e[3]
  BY ArrivedTyped
<1>4. \A m \in Keys : FgtServices(h)'[m] =
         IF m[3] # e[3] THEN FgtServices(h)[m] ELSE IF m = Arrived(e) THEN src[k][e] ELSE Absent
  BY <1>0, <1>3, PutServiceReads
<1>5. FgtServices(req[k].host)' = FgtServices(h)'
  BY <1>0
<1>6. ASSUME NEW m \in Keys, m # e, m[3] = e[3], PushOutcome(k, m) # Absent PROVE FALSE
  <2>1. CASE dst[k][e] # Absent
    BY <1>1, <1>6, <2>1 DEF PushedServices
  <2>2. CASE svc[h][e[3]] = Absent
    <3>1. FgtServices(h)[PushedAs(k, m)] # Absent
      BY <1>1, <1>6 DEF PushedServices
    <3>2. PushedAs(k, m) \in Keys /\ PushedAs(k, m)[3] = e[3]
      BY <1>6, PushedAsTyped
    <3> QED
      BY <1>0, <2>2, <3>1, <3>2, FgtServicesRead DEF WorldTyped
  <2> QED
    BY <2>1, <2>2
<1>7. ASSUME NEW m \in Keys, PushOutcome(k, m)' # Absent
      PROVE  FgtServices(h)'[PushedAs(k, m)'] = PushOutcome(k, m)'
  <2>1. CASE m = e
    BY <1>2, <1>3, <1>4, <2>1
  <2>2. CASE m # e
    <3>1. m[3] # e[3]
      BY <1>2, <1>6, <1>7, <2>2
    <3>2. PushedAs(k, m) \in Keys /\ PushedAs(k, m)[3] = m[3]
      BY PushedAsTyped
    <3>3. FgtServices(h)[PushedAs(k, m)] = PushOutcome(k, m)
      BY <1>1, <1>2, <1>7, <2>2 DEF PushedServices
    <3> QED
      BY <1>2, <1>4, <2>2, <3>1, <3>2, <3>3
  <2> QED
    BY <2>1, <2>2
<1>8. ASSUME NEW m \in Keys, FgtServices(h)'[m] # Absent
      PROVE  \E d \in Keys : PushOutcome(k, d)' # Absent /\ PushedAs(k, d)' = m
  <2>1. CASE m[3] = e[3]
    BY <1>0, <1>2, <1>4, <1>8, <2>1
  <2>2. CASE m[3] # e[3]
    <3>1. PICK d \in Keys : PushOutcome(k, d) # Absent /\ PushedAs(k, d) = m
      BY <1>1, <1>4, <1>8, <2>2 DEF PushedServices
    <3>2. d # e
      BY <1>1, <2>2, <3>1
    <3> QED
      BY <1>2, <3>1, <3>2
  <2> QED
    BY <2>1, <2>2
<1>9. ASSUME NEW m \in Keys, NEW d \in Keys, PushOutcome(k, m)' # Absent, PushOutcome(k, d)' # Absent,
             m[3] = d[3]
      PROVE  m = d
  BY <1>1, <1>2, <1>6, <1>9 DEF PushedServices
<1> QED
  BY <1>5, <1>7, <1>8, <1>9 DEF PushedServices

\* A service that goes is the only one of its name.
LEMMA DeletedPushed ==
    ASSUME SyncInvariant, NEW k \in Jobs, CourseOf(k), k \notin touched, req[k].kind = "push",
           NEW h \in Hosts, h = req[k].host, NEW e \in Keys, CallOn(k, e), Applied(k, e),
           e \in todo[k].delete, PutService(h, e[3], Absent)
    PROVE  PushedServices(k)'
<1>0. /\ WorldTyped(svc, grp, pool, rowGrp) /\ UNCHANGED req /\ dst[k][e] # Absent
      /\ e[3] \in Names
  BY AppliedOutcome, KeyShape DEF SyncInvariant, TypeOK
<1>1. /\ PushedServices(k) /\ PushOutcome(k, e) = dst[k][e] /\ PushedAs(k, e) = e
  BY PushKnows DEF CallOn
<1>2. /\ PushOutcome(k, e)' = Absent
      /\ \A m \in Keys \ {e} : PushOutcome(k, m)' = PushOutcome(k, m) /\ PushedAs(k, m)' = PushedAs(k, m)
  BY PushStepOutcome
<1>3. \A m \in Keys : FgtServices(h)'[m] = IF m[3] # e[3] THEN FgtServices(h)[m] ELSE Absent
  BY <1>0, PutServiceReads
<1>4. FgtServices(req[k].host)' = FgtServices(h)'
  BY <1>0
<1>5. ASSUME NEW m \in Keys, PushOutcome(k, m)' # Absent
      PROVE  /\ m # e /\ m[3] # e[3] /\ PushOutcome(k, m)' = PushOutcome(k, m)
             /\ PushedAs(k, m)' = PushedAs(k, m)
  BY <1>0, <1>1, <1>2, <1>5 DEF PushedServices
<1>6. ASSUME NEW m \in Keys, PushOutcome(k, m)' # Absent
      PROVE  FgtServices(h)'[PushedAs(k, m)'] = PushOutcome(k, m)'
  <2>1. PushedAs(k, m) \in Keys /\ PushedAs(k, m)[3] = m[3]
    BY PushedAsTyped
  <2>2. FgtServices(h)[PushedAs(k, m)] = PushOutcome(k, m)
    BY <1>1, <1>5, <1>6 DEF PushedServices
  <2> QED
    BY <1>3, <1>5, <1>6, <2>1, <2>2
<1>7. ASSUME NEW m \in Keys, FgtServices(h)'[m] # Absent
      PROVE  \E d \in Keys : PushOutcome(k, d)' # Absent /\ PushedAs(k, d)' = m
  <2>1. m[3] # e[3] /\ FgtServices(h)[m] # Absent
    BY <1>3, <1>7
  <2>2. PICK d \in Keys : PushOutcome(k, d) # Absent /\ PushedAs(k, d) = m
    BY <1>1, <2>1 DEF PushedServices
  <2>3. d # e
    BY <1>1, <2>1, <2>2
  <2> QED
    BY <1>2, <2>2, <2>3
<1>8. ASSUME NEW m \in Keys, NEW d \in Keys, PushOutcome(k, m)' # Absent, PushOutcome(k, d)' # Absent,
             m[3] = d[3]
      PROVE  m = d
  BY <1>1, <1>5, <1>8 DEF PushedServices
<1> QED
  BY <1>4, <1>6, <1>7, <1>8 DEF PushedServices

\* A group is written whole, or deleted.
LEMMA GroupStepCourse ==
    ASSUME SyncInvariant, NEW k \in Jobs, CourseOf(k), k \notin touched, req[k].kind = "push",
           NEW h \in Hosts, h = req[k].host, NEW g \in Groups, CallOn(k, g), Applied(k, g),
           NEW r, PutGroup(h, g, r),
           g \in todo[k].write => r = GroupPayload(src[k][g]),
           g \notin todo[k].write => r = Absent
    PROVE  PushIsOnCourse(k)'
<1>0. /\ UNCHANGED <<phase, req, src, dst>>
      /\ todo'[k] = [write |-> todo[k].write \ {g}, delete |-> todo[k].delete \ {g}]
      /\ \A d : d # g => Outcome(k, d)' = Outcome(k, d)
      /\ phase[k] = "syncing" /\ g \in Pending(k)
  BY AppliedOutcome DEF CallOn
<1>1. /\ UNCHANGED svc /\ grp'[h][g] = r
      /\ \A x \in Groups : x # g => grp'[h][x] = grp[h][x]
  BY DEF SyncInvariant, TypeOK, WorldTyped, PutGroup
<1>2. PushedServices(k) /\ \A x \in Groups : PushedGroup(k, x)
  BY <1>0, PushKnows
<1>3. /\ Writes(src[k], dst[k])' = Writes(src[k], dst[k])
      /\ Deletes(src[k], dst[k])' = Deletes(src[k], dst[k])
  BY <1>0 DEF Writes, Deletes
<1>4. FgtServices(req[k].host)' = FgtServices(h)
  BY <1>0, <1>1 DEF FgtServices, KeyOf
<1>5. \A m \in Keys : m # g
  BY KeyShape
<1>6. ASSUME NEW x \in Groups PROVE PushedGroup(k, x)'
  <2>1. CASE x # g
    <3>1. FgtGroups(req[k].host, dst[k])'[x] = FgtGroups(req[k].host, dst[k])[x]
      BY <1>0, <1>1, <2>1 DEF FgtGroups
    <3> QED
      BY <1>0, <1>1, <1>2, <1>3, <2>1, <3>1 DEF PushedGroup
  <2>2. CASE x = g
    <3>1. /\ g \in todo[k].write => g \in Writes(src[k], dst[k])
          /\ g \in todo[k].delete => g \in Deletes(src[k], dst[k]) /\ req[k].delete
      BY <1>0 DEF CourseOf, PlanFollowsDiff, Applying
    <3>2. CASE g \in todo[k].write
      <4>1. grp'[req'[k].host][g] = GroupPayload(src'[k][g])
        BY <1>0, <1>1, <3>2
      <4>2. g \in Writes(src[k], dst[k])' \ todo'[k].write
        BY <1>0, <1>3, <3>1, <3>2
      <4> QED
        BY <2>2, <4>1, <4>2 DEF PushedGroup, GroupPayload
    <3>3. CASE g \notin todo[k].write
      <4>1. g \in todo[k].delete
        BY <1>0, <3>3 DEF Pending
      <4>2. g \notin Writes(src[k], dst[k])
        BY <3>1, <4>1 DEF Writes, Deletes
      <4> QED
        BY <1>0, <1>1, <1>3, <2>2, <3>1, <3>3, <4>1, <4>2 DEF PushedGroup
    <3> QED
      BY <3>2, <3>3
  <2> QED
    BY <2>1, <2>2
<1>7. ASSUME NEW m \in Keys
      PROVE  PushOutcome(k, m)' = PushOutcome(k, m) /\ PushedAs(k, m)' = PushedAs(k, m)
  <2>1. m \in todo'[k].write <=> m \in todo[k].write
    BY <1>0, <1>5
  <2> QED
    BY <1>0, <1>3, <1>5, <2>1 DEF PushOutcome, PushedAs, Pushable, Arrived
<1>8. PushedServices(k)'
  BY <1>2, <1>4, <1>7 DEF PushedServices
<1> QED
  BY <1>6, <1>8 DEF PushIsOnCourse

LEMMA PushOnCourse ==
    ASSUME SyncInvariant, NEW k \in Jobs, CourseOf(k), Push(k), ~Raised(k),
           k \notin touched, NEW h \in Hosts, h = req[k].host
    PROVE  PushIsOnCourse(k)'
<1>0. /\ WorldTyped(svc, grp, pool, rowGrp) /\ phase[k] = "syncing" /\ req[k].kind = "push"
      /\ \A e \in Keys : e[3] \in Names /\ e = <<e[1], e[2], e[3]>>
      /\ \A e \in Keys : e \in todo[k].write => src[k][e] \in Text /\ src[k][e] # Absent
  BY PushCalls, KeyShape, Planned DEF SyncInvariant, TypeOK
<1>k. \A e \in Keys \cap Pending(k) : dst[k][e] # Absent =>
            /\ svc[h][e[3]] \in Service /\ ServicePorts(svc[h][e[3]].def) = <<e[1], e[2]>>
  BY <1>0, PushKnows
<1>1. ASSUME NEW e \in Keys, PushServiceCreate(k, e) PROVE PushIsOnCourse(k)'
  <2>1. CallOn(k, e) /\ Applied(k, e) /\ e \in todo[k].write
    BY <1>1, TurnIs DEF PushServiceCreate, Turn, Skip, Call
  <2>2. CASE ~Pushable(e)
    <3>1. UNCHANGED worldVars
      BY <1>1, <2>2 DEF PushServiceCreate, Skip
    <3> QED
      BY <1>0, <2>1, <2>2, <3>1, SkippedPushed, ServiceStepCourse DEF worldVars, deviceVars
  <2>3. CASE Pushable(e)
    <3> DEFINE r == [def |-> Define(e, None), comment |-> src[k][e]]
    <3>1. svc[h][e[3]] = Absent /\ PutService(h, e[3], r)
      BY <1>1, <2>3 DEF PushServiceCreate, Skip, Call
    <3>2. Define(e, None) \in Definition /\ ServicePorts(Define(e, None)) = <<Arrived(e)[1], Arrived(e)[2]>>
      BY <2>3, DefineReadsBack
    <3>3. r \in Service /\ r.def = Define(e, None) /\ r.comment = src[k][e]
      BY <1>0, <2>1, <3>2 DEF Service
    <3> HIDE DEF r
    <3>4. PushedServices(k)'
      BY <1>0, <2>1, <2>3, <3>1, <3>2, <3>3, WrittenPushed
    <3> QED
      BY <1>0, <2>1, <3>1, <3>4, ServiceStepCourse DEF PutService
  <2> QED
    BY <2>2, <2>3
<1>2. ASSUME NEW e \in Keys, PushServiceUpdate(k, e) PROVE PushIsOnCourse(k)'
  <2>1. CallOn(k, e) /\ Applied(k, e) /\ e \in todo[k].write /\ dst[k][e] # Absent /\ e \in Pending(k)
    BY <1>2, TurnIs DEF PushServiceUpdate, Turn, Skip, Call, CallOn
  <2>2. CASE ~Pushable(e)
    <3>1. UNCHANGED worldVars
      BY <1>2, <2>2 DEF PushServiceUpdate, Skip
    <3> QED
      BY <1>0, <2>1, <2>2, <3>1, SkippedPushed, ServiceStepCourse DEF worldVars, deviceVars
  <2>3. CASE Pushable(e)
    <3> DEFINE d == Define(e, svc[h][e[3]].def)
               r == [def |-> d, comment |-> src[k][e]]
    <3>1. PutService(h, e[3], r)
      BY <1>2, <2>3 DEF PushServiceUpdate, Skip, Call
    <3>2. d \in Definition /\ ServicePorts(d) = <<Arrived(e)[1], Arrived(e)[2]>>
      BY <1>k, <2>1, <2>3, DefineReadsBack DEF Service
    <3> HIDE DEF d
    <3>3. r \in Service /\ r.def = d /\ r.comment = src[k][e]
      BY <1>0, <2>1, <3>2 DEF Service
    <3> HIDE DEF r
    <3>4. PushedServices(k)'
      BY <1>0, <2>1, <2>3, <3>1, <3>2, <3>3, WrittenPushed
    <3> QED
      BY <1>0, <2>1, <3>1, <3>4, ServiceStepCourse DEF PutService
  <2> QED
    BY <2>2, <2>3
<1>3. ASSUME NEW e \in Keys, PushServiceDelete(k, e) PROVE PushIsOnCourse(k)'
  <2>1. CallOn(k, e) /\ Applied(k, e) /\ e \in todo[k].delete /\ PutService(h, e[3], Absent)
    BY <1>3, TurnIs DEF PushServiceDelete, Turn, Call
  <2>2. PushedServices(k)'
    BY <1>0, <2>1, DeletedPushed
  <2> QED
    BY <1>0, <2>1, <2>2, ServiceStepCourse DEF PutService
<1>4. ASSUME NEW g \in Groups, PushGroupCreate(k, g) PROVE PushIsOnCourse(k)'
  <2>1. /\ CallOn(k, g) /\ Applied(k, g) /\ g \in todo[k].write
        /\ PutGroup(h, g, GroupPayload(src[k][g]))
    BY <1>4, TurnIs DEF PushGroupCreate, Turn, Call
  <2> QED
    BY <1>0, <2>1, GroupStepCourse
<1>5. ASSUME NEW g \in Groups, PushGroupUpdate(k, g) PROVE PushIsOnCourse(k)'
  <2>1. /\ CallOn(k, g) /\ Applied(k, g) /\ g \in todo[k].write
        /\ PutGroup(h, g, GroupPayload(src[k][g]))
    BY <1>5, TurnIs DEF PushGroupUpdate, Turn, Call
  <2> QED
    BY <1>0, <2>1, GroupStepCourse
<1>6. ASSUME NEW g \in Groups, PushGroupDelete(k, g) PROVE PushIsOnCourse(k)'
  <2>1. /\ CallOn(k, g) /\ Applied(k, g) /\ g \in todo[k].delete /\ PutGroup(h, g, Absent)
    BY <1>6, TurnIs DEF PushGroupDelete, Turn, Call
  <2>2. g \notin todo[k].write
    BY <1>0, <2>1, Planned
  <2> QED
    BY <1>0, <2>1, <2>2, GroupStepCourse
<1> QED
  BY <1>1, <1>2, <1>3, <1>4, <1>5, <1>6 DEF Push

LEMMA PushCourse ==
    ASSUME SyncInvariant, NEW k \in Jobs, CourseOf(k), Push(k)
    PROVE  CourseOf(k)'
<1>1. CASE Raised(k)
  BY <1>1, PushCalls, EndCourse
<1>2. CASE ~Raised(k)
  <2>1. PICK e \in Elements : CallOn(k, e) /\ Applied(k, e)
    BY <1>2, PushCalls
  <2>2. /\ phase[k] = "syncing" /\ req[k].kind = "push" /\ UNCHANGED <<pool, rowGrp>>
        /\ UNCHANGED <<phase, req, src, dst>> /\ (k \notin touched' => k \notin touched)
    BY <2>1, PushCalls, AppliedOutcome DEF rowVars
  <2>3. PlanFollowsDiff(k)'
    BY <2>1, AppliedPlan
  <2>4. SourceIsCurrent(k)'
    <3>1. Read("rows", req[k].host)' = Read("rows", req[k].host)
      BY <2>2 DEF Read, ServicesOf, GroupsOf
    <3> QED
      BY <2>2, <3>1 DEF CourseOf, SourceIsCurrent, SourceKind
  <2>5. PushIsOnCourse(k)'
    <3>1. CASE k \in touched
      BY <2>2, <3>1 DEF PushIsOnCourse
    <3>2. CASE k \notin touched
      <4>1. PICK h \in Hosts : h = req[k].host
        BY DEF SyncInvariant, TypeOK, Requests
      <4> QED
        BY <1>2, <3>2, <4>1, PushOnCourse
    <3> QED
      BY <3>1, <3>2
  <2> QED
    BY <2>2, <2>3, <2>4, <2>5 DEF CourseOf, TargetIsCurrent, PullIsOnCourse
<1> QED
  BY <1>1, <1>2

----------------------------------------------------------------------------
(* Pulling.                                                                *)

\* What an undisturbed pull knows of the rows.
LEMMA PullKnows ==
    ASSUME SyncInvariant, NEW k \in Jobs, CourseOf(k), phase[k] = "syncing", req[k].kind = "pull",
           k \notin touched
    PROVE  /\ \A e \in Keys : pool[e] = Outcome(k, e)
           /\ \A g \in Groups : rowGrp[req[k].host][g] = PulledGroup(k, g)
           /\ \A g \in Groups : dst[k][g] # Absent =>
                 \A e \in dst[k][g].members : dst[k][e] # Absent
           /\ \A e \in Keys \cap Pending(k), g \in Groups : Outcome(k, g) # Absent =>
                 Outcome(k, g) = dst[k][g] /\ dst[k][g] # Absent
<1>1. /\ \A e \in Keys : pool[e] = Outcome(k, e)
      /\ \A g \in Groups : rowGrp[req[k].host][g] = PulledGroup(k, g)
      /\ \A g \in Groups : dst[k][g] # Absent =>
            \A e \in dst[k][g].members : dst[k][e] # Absent
  BY DEF CourseOf, PullIsOnCourse, Applying
<1>2. ASSUME NEW e \in Keys \cap Pending(k), NEW g \in Groups, Outcome(k, g) # Absent
      PROVE  Outcome(k, g) = dst[k][g] /\ dst[k][g] # Absent
  <2>1. Writes(src[k], dst[k]) \cap Groups \subseteq todo[k].write /\ g \in Elements
    BY <1>2, KeyShape DEF CourseOf, PlanFollowsDiff, Applying, ServicesDone, Elements
  <2> QED
    BY <1>2, <2>1 DEF Outcome, Pending, Writes
<1> QED
  BY <1>1, <1>2

\* A row is written; the groups of the FortiGate keep their members.
LEMMA RowWrittenCourse ==
    ASSUME SyncInvariant, NEW k \in Jobs, CourseOf(k), k \notin touched, req[k].kind = "pull",
           NEW e \in Keys, CallOn(k, e), Applied(k, e), e \in todo[k].write, PutRow(e, src[k][e])
    PROVE  PullIsOnCourse(k)'
<1>c. phase[k] = "syncing" /\ e \in Pending(k)
  BY DEF CallOn
<1>d. src[k][e] # Absent /\ Outcome(k, e)' = src[k][e] /\ Outcome(k, e) = dst[k][e]
  BY AppliedOutcome
<1>e. UNCHANGED <<phase, req, src, dst>> /\ \A d : d # e => Outcome(k, d)' = Outcome(k, d)
  <2>1. /\ UNCHANGED <<phase, req, src, dst>>
        /\ todo'[k] = [write |-> todo[k].write \ {e}, delete |-> todo[k].delete \ {e}]
    BY AppliedOutcome
  <2> QED
    BY <2>1 DEF Outcome, Pending
<1>0. /\ UNCHANGED <<phase, req, src, dst>> /\ phase[k] = "syncing" /\ e \in Pending(k)
      /\ src[k][e] # Absent /\ Outcome(k, e)' = src[k][e]
      /\ Outcome(k, e) = dst[k][e]
      /\ \A d : d # e => Outcome(k, d)' = Outcome(k, d)
  BY <1>c, <1>d, <1>e
<1>1. /\ \A m \in Keys : pool'[m] = IF m = e THEN src[k][e] ELSE pool[m]
      /\ UNCHANGED rowGrp
  BY DEF SyncInvariant, TypeOK, WorldTyped, PutRow
<1>2. /\ \A m \in Keys : pool[m] = Outcome(k, m)
      /\ \A g \in Groups : rowGrp[req[k].host][g] = PulledGroup(k, g)
      /\ \A g \in Groups : dst[k][g] # Absent =>
            \A m \in dst[k][g].members : dst[k][m] # Absent
      /\ \A g \in Groups : Outcome(k, g) # Absent =>
            Outcome(k, g) = dst[k][g] /\ dst[k][g] # Absent
  BY <1>0, PullKnows
<1>3. ASSUME NEW g \in Groups PROVE rowGrp[req[k].host][g] = PulledGroup(k, g)'
  <2>1. Outcome(k, g)' = Outcome(k, g)
    BY <1>0, KeyShape
  <2>2. CASE Outcome(k, g) = Absent
    BY <1>2, <2>1, <2>2 DEF PulledGroup
  <2>3. CASE Outcome(k, g) # Absent
    <3>1. Outcome(k, g).members \subseteq Keys
      BY <1>2, <2>3 DEF SyncInvariant, TypeOK, Loaded, RowGroup
    <3>2. {m \in Outcome(k, g).members : pool'[m] # Absent}
          = {m \in Outcome(k, g).members : pool[m] # Absent}
      BY <1>0, <1>1, <1>2, <2>3, <3>1
    <3> QED
      BY <1>0, <1>2, <2>1, <2>3, <3>2 DEF PulledGroup
  <2> QED
    BY <2>2, <2>3
<1> QED
  BY <1>0, <1>1, <1>2, <1>3 DEF PullIsOnCourse

LEMMA RowDeletedCourse ==
    ASSUME SyncInvariant, NEW k \in Jobs, CourseOf(k), k \notin touched, req[k].kind = "pull",
           NEW h \in Hosts, h = req[k].host,
           NEW e \in Keys, CallOn(k, e), Applied(k, e), e \in todo[k].delete, RemoveRows({e})
    PROVE  PullIsOnCourse(k)'
<1>0. /\ UNCHANGED <<phase, req, src, dst>> /\ phase[k] = "syncing" /\ e \in Pending(k)
      /\ Outcome(k, e)' = Absent
      /\ \A d : d # e => Outcome(k, d)' = Outcome(k, d)
  BY AppliedOutcome DEF CallOn
<1>1. /\ \A m \in Keys : pool'[m] = IF m \in {e} THEN Absent ELSE pool[m]
      /\ \A g \in Groups :
            /\ rowGrp[h][g] = Absent => rowGrp'[h][g] = Absent
            /\ rowGrp[h][g] # Absent =>
                  rowGrp'[h][g] = [members |-> rowGrp[h][g].members \ {e},
                                   comment |-> rowGrp[h][g].comment]
  <2>1. WorldTyped(svc, grp, pool, rowGrp) /\ {e} \in SUBSET Keys
    BY DEF SyncInvariant, TypeOK
  <2> QED
    BY <2>1, RemoveRowsReads
<1>2. /\ \A m \in Keys : pool[m] = Outcome(k, m)
      /\ \A g \in Groups : rowGrp[h][g] = PulledGroup(k, g)
      /\ \A g \in Groups : dst[k][g] # Absent =>
            \A m \in dst[k][g].members : dst[k][m] # Absent
      /\ \A g \in Groups : Outcome(k, g) # Absent =>
            Outcome(k, g) = dst[k][g] /\ dst[k][g] # Absent
  BY <1>0, PullKnows
<1>3. ASSUME NEW g \in Groups PROVE rowGrp'[h][g] = PulledGroup(k, g)'
  <2>1. Outcome(k, g)' = Outcome(k, g)
    BY <1>0, KeyShape
  <2>2. CASE Outcome(k, g) = Absent
    BY <1>1, <1>2, <2>1, <2>2 DEF PulledGroup
  <2>3. CASE Outcome(k, g) # Absent
    <3>1. Outcome(k, g).members \subseteq Keys /\ dst[k][g].comment \in Text
      BY <1>2, <2>3 DEF SyncInvariant, TypeOK, Loaded, RowGroup
    <3>2. {m \in Outcome(k, g).members : pool'[m] # Absent}
          = {m \in Outcome(k, g).members : pool[m] # Absent} \ {e}
      BY <1>1, <3>1
    <3>3. rowGrp[h][g] = [members |-> {m \in Outcome(k, g).members : pool[m] # Absent},
                          comment |-> dst[k][g].comment]
      BY <1>2, <2>3 DEF PulledGroup
    <3>4. rowGrp[h][g] # Absent
      <4>1. rowGrp[h][g] \in RowGroup
        BY <3>1, <3>3 DEF RowGroup
      <4> QED
        BY <4>1, NothingAssumption
    <3>5. PulledGroup(k, g)' = [members |-> {m \in Outcome(k, g).members : pool'[m] # Absent},
                                comment |-> dst[k][g].comment]
      BY <1>0, <1>2, <2>1, <2>3 DEF PulledGroup
    <3> QED
      BY <1>1, <3>2, <3>3, <3>4, <3>5
  <2> QED
    BY <2>2, <2>3
<1>4. rowGrp'[req'[k].host] = rowGrp'[h]
  BY <1>0
<1> QED
  BY <1>0, <1>1, <1>2, <1>3, <1>4 DEF PullIsOnCourse

\* A group's row is written as the plan has it, or deleted.
LEMMA GroupRowCourse ==
    ASSUME SyncInvariant, NEW k \in Jobs, CourseOf(k), k \notin touched, req[k].kind = "pull",
           NEW h \in Hosts, h = req[k].host,
           NEW g \in Groups, CallOn(k, g), Applied(k, g), NEW r, UNCHANGED pool,
           rowGrp'[h][g] = r, \A x \in Groups : x # g => rowGrp'[h][x] = rowGrp[h][x],
           g \notin todo[k].write => r = Absent,
           g \in todo[k].write =>
              r = [members |-> {m \in src[k][g].members : pool[m] # Absent},
                   comment |-> IF dst[k][g] = Absent THEN src[k][g].comment ELSE dst[k][g].comment]
    PROVE  PullIsOnCourse(k)'
<1>c. phase[k] = "syncing" /\ g \in Pending(k)
  BY DEF CallOn
<1>d. /\ g \in todo[k].write => src[k][g] # Absent /\ Outcome(k, g)' = src[k][g]
      /\ g \in todo[k].delete => Outcome(k, g)' = Absent
  BY AppliedOutcome
<1>e. UNCHANGED <<phase, req, src, dst>> /\ \A d : d # g => Outcome(k, d)' = Outcome(k, d)
  BY AppliedOutcome
<1>0. /\ UNCHANGED <<phase, req, src, dst>> /\ phase[k] = "syncing" /\ g \in Pending(k)
      /\ g \in todo[k].write => src[k][g] # Absent /\ Outcome(k, g)' = src[k][g]
      /\ g \in todo[k].delete => Outcome(k, g)' = Absent
      /\ \A d : d # g => Outcome(k, d)' = Outcome(k, d)
  BY <1>c, <1>d, <1>e
<1>1. /\ \A m \in Keys : pool[m] = Outcome(k, m)
      /\ \A x \in Groups : rowGrp[h][x] = PulledGroup(k, x)
      /\ \A x \in Groups : dst[k][x] # Absent =>
            \A m \in dst[k][x].members : dst[k][m] # Absent
  BY <1>0, PullKnows
<1>2. \A m \in Keys : m # g
  BY KeyShape
<1>3. ASSUME NEW x \in Groups PROVE rowGrp'[h][x] = PulledGroup(k, x)'
  <2>1. CASE x # g
    BY <1>0, <1>1, <2>1 DEF PulledGroup
  <2>2. CASE x = g
    BY <1>0, <2>2 DEF PulledGroup, Pending
  <2> QED
    BY <2>1, <2>2
<1>4. rowGrp'[req'[k].host] = rowGrp'[h]
  BY <1>0
<1> QED
  BY <1>0, <1>1, <1>2, <1>3, <1>4 DEF PullIsOnCourse

LEMMA PutRowGroupReads ==
    ASSUME WorldTyped(svc, grp, pool, rowGrp), NEW h \in Hosts, NEW g \in Groups, NEW r,
           PutRowGroup(h, g, r)
    PROVE  /\ UNCHANGED pool /\ rowGrp'[h][g] = r
           /\ \A x \in Groups : x # g => rowGrp'[h][x] = rowGrp[h][x]
BY DEF WorldTyped, PutRowGroup

LEMMA PullOnCourse ==
    ASSUME SyncInvariant, NEW k \in Jobs, CourseOf(k), Pull(k), ~Raised(k),
           k \notin touched, NEW h \in Hosts, h = req[k].host
    PROVE  PullIsOnCourse(k)'
<1>0. /\ WorldTyped(svc, grp, pool, rowGrp) /\ phase[k] = "syncing" /\ req[k].kind = "pull"
  BY PullCalls DEF SyncInvariant, TypeOK
<1>1. ASSUME NEW e \in Keys, PullServiceCreate(k, e) PROVE PullIsOnCourse(k)'
  <2>1. CallOn(k, e) /\ Applied(k, e) /\ e \in todo[k].write /\ PutRow(e, src[k][e])
    BY <1>1, TurnIs DEF PullServiceCreate, Save, Turn
  <2> QED
    BY <1>0, <2>1, RowWrittenCourse
<1>2. ASSUME NEW e \in Keys, PullServiceUpdate(k, e) PROVE PullIsOnCourse(k)'
  <2>1. /\ CallOn(k, e) /\ Applied(k, e) /\ e \in todo[k].write /\ dst[k][e] # Absent
        /\ e \in Pending(k)
    BY <1>2, TurnIs DEF PullServiceUpdate, Save, Turn, CallOn
  <2>2. pool[e] # Absent
    BY <1>0, <2>1, PullKnows DEF Outcome
  <2> QED
    BY <1>0, <1>2, <2>1, <2>2, RowWrittenCourse DEF PullServiceUpdate, Save
<1>3. ASSUME NEW e \in Keys, PullServiceDelete(k, e) PROVE PullIsOnCourse(k)'
  <2>1. CallOn(k, e) /\ Applied(k, e) /\ e \in todo[k].delete /\ RemoveRows({e})
    BY <1>3, TurnIs DEF PullServiceDelete, Turn, Deleted
  <2> QED
    BY <1>0, <2>1, RowDeletedCourse
<1>4. ASSUME NEW g \in Groups, PullGroupCreate(k, g) PROVE PullIsOnCourse(k)'
  <2> DEFINE r == [members |-> {m \in src[k][g].members : pool[m] # Absent}, comment |-> src[k][g].comment]
  <2>1. /\ CallOn(k, g) /\ Applied(k, g) /\ g \in todo[k].write /\ dst[k][g] = Absent
        /\ PutRowGroup(h, g, r)
    BY <1>4, TurnIs DEF PullGroupCreate, Turn, Found
  <2> HIDE DEF r
  <2>2. /\ UNCHANGED pool /\ rowGrp'[h][g] = r
        /\ \A x \in Groups : x # g => rowGrp'[h][x] = rowGrp[h][x]
    BY <1>0, <2>1, PutRowGroupReads
  <2>3. r = [members |-> {m \in src[k][g].members : pool[m] # Absent},
             comment |-> IF dst[k][g] = Absent THEN src[k][g].comment ELSE dst[k][g].comment]
    BY <2>1 DEF r
  <2> QED
    BY <1>0, <2>1, <2>2, <2>3, GroupRowCourse
<1>5. ASSUME NEW g \in Groups, PullGroupUpdate(k, g) PROVE PullIsOnCourse(k)'
  <2> DEFINE r == [members |-> {m \in src[k][g].members : pool[m] # Absent}, comment |-> dst[k][g].comment]
  <2>1. /\ CallOn(k, g) /\ Applied(k, g) /\ g \in todo[k].write /\ dst[k][g] # Absent
        /\ g \in Pending(k)
    BY <1>5, TurnIs DEF PullGroupUpdate, Turn, CallOn
  <2>2. rowGrp[h][g] = [members |-> {m \in dst[k][g].members : pool[m] # Absent},
                        comment |-> dst[k][g].comment]
    BY <1>0, <2>1, PullKnows DEF PulledGroup, Outcome
  <2>3. rowGrp[h][g] # Absent
    <3>1. dst[k][g] \in RowGroup
      BY <2>1 DEF SyncInvariant, TypeOK, Loaded
    <3>2. rowGrp[h][g] \in RowGroup
      BY <2>2, <3>1 DEF RowGroup
    <3> QED
      BY <3>2, NothingAssumption
  <2>4. /\ UNCHANGED pool /\ rowGrp'[h][g] = r
        /\ \A x \in Groups : x # g => rowGrp'[h][x] = rowGrp[h][x]
    <3>1. CASE src[k][g].members = dst[k][g].members
      BY <1>5, <2>2, <3>1 DEF PullGroupUpdate, worldVars, rowVars
    <3>2. CASE src[k][g].members # dst[k][g].members
      <4>1. PutRowGroup(h, g, [rowGrp[h][g] EXCEPT !.members = Found(src[k][g].members)])
        BY <1>5, <2>3, <3>2 DEF PullGroupUpdate
      <4>2. [rowGrp[h][g] EXCEPT !.members = Found(src[k][g].members)] = r
        <5>1. r.members = Found(src[k][g].members)
          BY DEF Found
        <5>2. \A f : [rowGrp[h][g] EXCEPT !.members = f] = [members |-> f, comment |-> dst[k][g].comment]
          BY <2>2
        <5>3. r = [members |-> r.members, comment |-> dst[k][g].comment]
          OBVIOUS
        <5> QED
          BY <5>1, <5>2, <5>3
      <4> HIDE DEF r
      <4> QED
        BY <1>0, <4>1, <4>2, PutRowGroupReads
    <3> QED
      BY <3>1, <3>2
  <2> HIDE DEF r
  <2>5. r = [members |-> {m \in src[k][g].members : pool[m] # Absent},
             comment |-> IF dst[k][g] = Absent THEN src[k][g].comment ELSE dst[k][g].comment]
    BY <2>1 DEF r
  <2> QED
    BY <1>0, <2>1, <2>4, <2>5, GroupRowCourse
<1>6. ASSUME NEW g \in Groups, PullGroupDelete(k, g) PROVE PullIsOnCourse(k)'
  <2>1. CallOn(k, g) /\ Applied(k, g) /\ g \in todo[k].delete /\ PutRowGroup(h, g, Absent)
    BY <1>6, TurnIs DEF PullGroupDelete, Turn
  <2>2. g \notin todo[k].write
    BY <1>0, <2>1, Planned
  <2>3. /\ UNCHANGED pool /\ rowGrp'[h][g] = Absent
        /\ \A x \in Groups : x # g => rowGrp'[h][x] = rowGrp[h][x]
    BY <1>0, <2>1, PutRowGroupReads
  <2> QED
    BY <1>0, <2>1, <2>2, <2>3, GroupRowCourse
<1> QED
  BY <1>1, <1>2, <1>3, <1>4, <1>5, <1>6 DEF Pull

LEMMA PullCourse ==
    ASSUME SyncInvariant, NEW k \in Jobs, CourseOf(k), Pull(k)
    PROVE  CourseOf(k)'
<1>1. CASE Raised(k)
  BY <1>1, PullCalls, EndCourse
<1>2. CASE ~Raised(k)
  <2>1. PICK e \in Elements : CallOn(k, e) /\ Applied(k, e)
    BY <1>2, PullCalls
  <2>2. /\ phase[k] = "syncing" /\ req[k].kind = "pull" /\ UNCHANGED <<svc, grp>>
        /\ UNCHANGED <<phase, req, src, dst>> /\ (k \notin touched' => k \notin touched)
    BY <2>1, PullCalls, AppliedOutcome DEF deviceVars
  <2>3. PlanFollowsDiff(k)'
    BY <2>1, AppliedPlan
  <2>4. SourceIsCurrent(k)'
    <3>1. Read("device", req[k].host)' = Read("device", req[k].host)
      BY <2>2 DEF Read, ServicesOf, GroupsOf, FgtServices, FgtGroups, KeyOf
    <3> QED
      BY <2>2, <3>1 DEF CourseOf, SourceIsCurrent, SourceKind
  <2>5. PullIsOnCourse(k)'
    <3>1. CASE k \in touched
      BY <2>2, <3>1 DEF PullIsOnCourse
    <3>2. CASE k \notin touched
      <4>1. PICK h \in Hosts : h = req[k].host
        BY DEF SyncInvariant, TypeOK, Requests
      <4> QED
        BY <1>2, <3>2, <4>1, PullOnCourse
    <3> QED
      BY <3>1, <3>2
  <2> QED
    BY <2>2, <2>3, <2>4, <2>5 DEF CourseOf, TargetIsCurrent, PushIsOnCourse
<1> QED
  BY <1>1, <1>2

----------------------------------------------------------------------------
(* The invariant.                                                          *)

LEMMA InitTyped == Init => TypeOK
<1> SUFFICES ASSUME Init PROVE TypeOK
  OBVIOUS
<1>1. WorldTyped(svc, grp, pool, rowGrp)
  BY WorldsAssumption DEF Init
<1>2. (CHOOSE h \in Hosts : TRUE) \in Hosts
  BY ConstantsAssumption
<1>3. /\ phase \in [Jobs -> Idle \cup Running] /\ req \in [Jobs -> Requests]
      /\ src = [j \in Jobs |-> src[j]] /\ dst = [j \in Jobs |-> dst[j]]
      /\ todo \in [Jobs -> [write : SUBSET Elements, delete : SUBSET Elements]]
  BY <1>2 DEF Init, Idle, Requests, NoWork
<1>4. \A j \in Jobs : Loaded(src[j]) /\ Loaded(dst[j])
  BY EmptyLoaded DEF Init
<1>5. touched \subseteq Jobs /\ edits \in 0..MaxEdits /\ runs \in 0..MaxRuns
  BY ConstantsAssumption DEF Init
<1> QED
  BY <1>1, <1>3, <1>4, <1>5 DEF TypeOK

LEMMA OwnStepCourse ==
    ASSUME SyncInvariant, NEW k \in Jobs, CourseOf(k), StepOf(k)
    PROVE  CourseOf(k)'
<1>1. CASE Finish(k) \/ Crash(k)
  <2>1. ~Raised(k)
    BY <1>1 DEF SyncInvariant, TypeOK, Finish, Crash, Raised, Advance
  <2> QED
    BY <1>1, <2>1, EndCourse
<1> QED
  BY <1>1, StartCourse, LoadCourse, ExecuteSyncCourse, PullCourse, PushCourse DEF StepOf

\* In every behaviour, whatever jobs and operators do in between: the side an
\* undisturbed job writes reads as its adapters and the rest of its plan say,
\* and the groups of Nautobot hold rows that exist.
THEOREM SyncInvariantHolds == Spec => []SyncInvariant
<1>1. Init => SyncInvariant
  <2> SUFFICES ASSUME Init, NEW j \in Jobs PROVE CourseOf(j)
    BY InitTyped DEF SyncInvariant, CourseOf
  <2>1. phase[j] = "idle"
    BY DEF Init
  <2> QED
    BY <2>1 DEF CourseOf, PlanFollowsDiff, SourceIsCurrent, TargetIsCurrent, PullIsOnCourse,
                      PushIsOnCourse, Applying
<1>2. SyncInvariant /\ [Next]_vars => SyncInvariant'
  <2> SUFFICES ASSUME SyncInvariant, [Next]_vars, NEW k \in Jobs PROVE CourseOf(k)'
    BY StepTyped DEF SyncInvariant, CourseOf
  <2>0. CourseOf(k)
    BY DEF SyncInvariant, CourseOf
  <2>1. CASE StepOf(k)
    BY <2>0, <2>1, OwnStepCourse
  <2>2. CASE ~StepOf(k)
    BY <2>0, <2>2, OthersStep, SameCourse
  <2> QED
    BY <2>1, <2>2
<1> QED
  BY <1>1, <1>2, PTL DEF Spec

\* Every variable keeps its type, and no group row ever holds a row that does
\* not exist, whichever jobs and users delete or rename rows.
THEOREM TypesHold == Spec => []TypeOK
<1>1. SyncInvariant => TypeOK
  BY DEF SyncInvariant
<1> QED
  BY <1>1, SyncInvariantHolds, PTL

----------------------------------------------------------------------------
(* Why an undisturbed job dies.                                            *)

Explained(j) ==
    LET h == req[j].host IN
    \/ /\ req[j].kind = "pull"
       /\ \/ \E k \in todo[j].write \cap Keys : k[1] = Proxied
          \/ req[j].delete /\ \E k \in todo[j].delete \cap Keys : Protected(k)
    \/ /\ req[j].kind = "push"
       /\ \/ \E k \in todo[j].write \cap Keys :
                /\ svc[h][k[3]] # Absent
                /\ \/ KeyOf(h, k[3]) # k
                   \/ \E m \in Keys \ {k} : pool[m] # Absent /\ PushedAs(j, m) = k
          \/ \E g \in todo[j].write \cap Groups :
                \E k \in src[j][g].members : ~Pushable(k) /\ svc[h][k[3]] = Absent
          \/ /\ req[j].delete
             /\ \E e \in todo[j].delete : InUse(h, IF e \in Groups THEN e ELSE e[3])

LEMMA SameExplanation ==
    ASSUME NEW k \in Jobs, Explained(k), UNCHANGED worldVars,
           req'[k] = req[k], src'[k] = src[k], dst'[k] = dst[k], todo'[k] = todo[k]
    PROVE  Explained(k)'
<1>1. \A m : PushedAs(k, m)' = PushedAs(k, m)
  BY DEF PushedAs, Writes, Pushable, Arrived
<1>2. UNCHANGED <<svc, grp, pool, rowGrp>>
  BY DEF worldVars, deviceVars, rowVars
<1>3. /\ \A m : Protected(m)' <=> Protected(m)
      /\ \A h, n : (InUse(h, n)' <=> InUse(h, n)) /\ KeyOf(h, n)' = KeyOf(h, n)
      /\ \A m : Pushable(m)' <=> Pushable(m)
  BY <1>2 DEF Protected, InUse, KeyOf, Pushable
<1>4. CASE req[k].kind = "pull"
  BY <1>3, <1>4 DEF Explained
<1>5. CASE req[k].kind = "push"
  BY <1>1, <1>2, <1>3, <1>5 DEF Explained
<1> QED
  BY <1>4, <1>5 DEF Explained

\* A member that a group of the source sends is on the device, when all the
\* services are done, if FortiOS has a word for it.
LEMMA SentMembersExist ==
    ASSUME SyncInvariant, NEW k \in Jobs, CourseOf(k), phase[k] = "syncing", req[k].kind = "push",
           k \notin touched, NEW h \in Hosts, h = req[k].host, NEW g \in Groups,
           src[k][g] # Absent, ServicesDone(k), NEW m \in src[k][g].members, Pushable(m)
    PROVE  m \in Keys /\ svc[h][m[3]] # Absent
<1>1. src[k][g] = rowGrp[h][g] /\ \A e \in Keys : src[k][e] = pool[e]
  BY PushKnows
<1>2. rowGrp[h][g] \in RowGroup /\ WorldTyped(svc, grp, pool, rowGrp)
  BY <1>1 DEF SyncInvariant, TypeOK, WorldTyped
<1>3. m \in Keys
  BY <1>1, <1>2 DEF RowGroup
<1>4. src[k][m] # Absent
  BY <1>1, <1>2, <1>3 DEF WorldTyped
<1>5. m \notin Pending(k)
  BY <1>3, KeyShape DEF ServicesDone
<1>6. PushOutcome(k, m) # Absent
  BY <1>4, <1>5 DEF PushOutcome, Outcome
<1>7. FgtServices(h)[PushedAs(k, m)] # Absent
  BY <1>3, <1>6, PushKnows DEF PushedServices
<1> QED
  BY <1>2, <1>3, <1>7, PushedAsTyped, FgtServicesRead DEF WorldTyped

LEMMA RaisedIsExplained ==
    ASSUME SyncInvariant, NEW k \in Jobs, CourseOf(k), Pull(k) \/ Push(k), phase'[k] = "failed",
           k \notin touched
    PROVE  Raised(k) /\ Explained(k)
<1>0. phase[k] = "syncing"
  BY PullCalls, PushCalls
<1>1. Raised(k) /\ \A e : ~Applied(k, e)
  BY <1>0, PullCalls, PushCalls DEF Applied
<1>2. CASE Pull(k)
  <2>0. req[k].kind = "pull"
    BY <1>2, PullCalls
  <2>1. ASSUME NEW e \in Keys, PullServiceCreate(k, e) \/ PullServiceUpdate(k, e)
        PROVE  e \in todo[k].write /\ e[1] = Proxied
    BY <1>1, <2>1 DEF PullServiceCreate, PullServiceUpdate, Save, Turn
  <2>2. ASSUME NEW e \in Keys, PullServiceDelete(k, e)
        PROVE  e \in todo[k].delete /\ Protected(e) /\ req[k].delete
    BY <1>0, <1>1, <2>2, Planned DEF PullServiceDelete, Turn
  <2> QED
    BY <1>1, <1>2, <2>0, <2>1, <2>2 DEF Explained, Pull, PullGroupCreate, PullGroupUpdate, PullGroupDelete
<1>3. CASE Push(k)
  <2>1. PICK h \in Hosts : h = req[k].host
    BY DEF SyncInvariant, TypeOK, Requests
  <2>2. /\ req[k].kind = "push"
        /\ \A e \in todo[k].write : src[k][e] # Absent
        /\ \A e \in todo[k].delete : dst[k][e] # Absent /\ req[k].delete
    BY <1>0, <1>3, PushCalls, Planned
  <2>3. /\ \A e \in Keys \cap Pending(k) : dst[k][e] # Absent => svc[h][e[3]] # Absent
        /\ \A e \in Keys \cap Pending(k) : PushOutcome(k, e) = dst[k][e]
        /\ \A e \in Keys : src[k][e] = pool[e]
        /\ \A g \in Groups : PushedGroup(k, g)
        /\ PushedServices(k) /\ svc \in [Hosts -> [Names -> Service \cup {Absent}]]
    BY <1>0, <2>1, <2>2, PushKnows DEF SyncInvariant, TypeOK, WorldTyped
  <2>4. ASSUME NEW g \in Groups \cap Pending(k)
        PROVE  (dst[k][g] = Absent) <=> (grp[h][g] = Absent)
    <3>1. g \notin Writes(src[k], dst[k]) \ todo[k].write /\ g \notin Deletes(src[k], dst[k]) \ todo[k].delete
      BY <1>0, <2>4, Planned DEF Pending, Writes, Deletes
    <3>2. FgtGroups(h, dst[k])[g] = dst[k][g]
      BY <2>1, <2>3, <3>1 DEF PushedGroup
    <3>3. DevicesTyped
      BY DevicesAreTyped DEF SyncInvariant, TypeOK
    <3> QED
      BY <3>2, <3>3, FgtGroupsRead
  <2>5. ASSUME NEW g \in Groups, g \in todo[k].write, ServicesDone(k),
               ~MembersExist(h, GroupPayload(src[k][g]))
        PROVE  Explained(k)
    <3>1. src[k][g] \in RowGroup
      BY <1>0, <2>5, Planned
    <3>2. PICK m \in src[k][g].members : svc[h][m[3]] = Absent
      <4>1. \A m \in src[k][g].members : m[3] \in Names
        BY <3>1, KeyShape DEF RowGroup
      <4> QED
        BY <2>5, <4>1 DEF MembersExist, GroupPayload
    <3>3. ~Pushable(m)
      BY <1>0, <2>1, <2>2, <2>5, <3>2, SentMembersExist
    <3> QED
      BY <2>1, <2>2, <2>5, <3>2, <3>3 DEF Explained
  <2>6. ASSUME NEW e \in Keys, PushServiceCreate(k, e) PROVE Explained(k)
    <3>1. e \in todo[k].write /\ e \in Pending(k) /\ dst[k][e] = Absent /\ svc[h][e[3]] # Absent
      BY <1>1, <2>1, <2>6 DEF PushServiceCreate, Turn, Skip, Call, Pending
    <3>2. CASE KeyOf(h, e[3]) # e
      BY <2>1, <2>2, <3>1, <3>2 DEF Explained
    <3>3. CASE KeyOf(h, e[3]) = e
      <4>1. FgtServices(h)[e] # Absent /\ PushOutcome(k, e) = Absent
        BY <2>3, <3>1, <3>3, FgtServicesRead
      <4>2. PICK m \in Keys : PushOutcome(k, m) # Absent /\ PushedAs(k, m) = e
        BY <2>1, <2>3, <4>1 DEF PushedServices
      <4>3. m # e /\ src[k][m] # Absent
        BY <4>1, <4>2, PushedAsTyped
      <4> QED
        BY <2>1, <2>2, <2>3, <3>1, <4>2, <4>3 DEF Explained
    <3> QED
      BY <3>2, <3>3
  <2>7. ASSUME NEW e \in Keys, PushServiceUpdate(k, e) PROVE Explained(k)
    BY <1>1, <2>1, <2>3, <2>7 DEF PushServiceUpdate, Turn, Skip, Call, Pending
  <2>8. ASSUME NEW e \in Keys, PushServiceDelete(k, e) PROVE Explained(k)
    <3>1. e \in todo[k].delete /\ e \in Pending(k) /\ (svc[h][e[3]] = Absent \/ InUse(h, e[3]))
      BY <1>1, <2>1, <2>8 DEF PushServiceDelete, Turn, Call, Pending
    <3>2. e \notin Groups
      BY KeyShape
    <3> QED
      BY <2>1, <2>2, <2>3, <3>1, <3>2 DEF Explained
  <2>9. ASSUME NEW g \in Groups, PushGroupCreate(k, g) PROVE Explained(k)
    <3>1. /\ g \in todo[k].write /\ g \in Pending(k) /\ dst[k][g] = Absent /\ ServicesDone(k)
          /\ ~(grp[h][g] = Absent /\ MembersExist(h, GroupPayload(src[k][g])))
      BY <1>1, <2>1, <2>9, TurnIs DEF PushGroupCreate, Turn, Call, Pending, CallOn
    <3> QED
      BY <2>4, <2>5, <3>1
  <2>10. ASSUME NEW g \in Groups, PushGroupUpdate(k, g) PROVE Explained(k)
    <3>1. /\ g \in todo[k].write /\ g \in Pending(k) /\ dst[k][g] # Absent /\ ServicesDone(k)
          /\ ~(grp[h][g] # Absent /\ MembersExist(h, GroupPayload(src[k][g])))
      BY <1>1, <2>1, <2>10, TurnIs DEF PushGroupUpdate, Turn, Call, Pending, CallOn
    <3> QED
      BY <2>4, <2>5, <3>1
  <2>11. ASSUME NEW g \in Groups, PushGroupDelete(k, g) PROVE Explained(k)
    <3>1. g \in todo[k].delete /\ g \in Pending(k) /\ (grp[h][g] = Absent \/ InUse(h, g))
      BY <1>1, <2>1, <2>11 DEF PushGroupDelete, Turn, Call, Pending
    <3>2. InUse(h, g) /\ req[k].delete
      BY <2>2, <2>4, <3>1
    <3> QED
      BY <2>1, <2>2, <3>1, <3>2 DEF Explained
  <2> QED
    BY <1>1, <1>3, <2>6, <2>7, <2>8, <2>9, <2>10, <2>11 DEF Push
<1> QED
  BY <1>1, <1>2, <1>3

LEMMA OnlyCallsFail ==
    ASSUME SyncInvariant, NEW k \in Jobs, StepOf(k), phase'[k] = "failed"
    PROVE  Pull(k) \/ Push(k)
<1>1. phase \in [Jobs -> Idle \cup Running]
  BY DEF SyncInvariant, TypeOK
<1> QED
  BY <1>1 DEF StepOf, Start, Load, LoadSourceServices, LoadSourceGroups, LoadTargetServices,
              LoadTargetGroups, ExecuteSync, Finish, Crash, Advance

\* A job that nobody disturbed dies of a refused write only for the reasons
\* AbortsAreExplained lists: a protocol Nautobot does not have, a taken name, a
\* member FortiOS has no word for, a record in use, a protected row.
THEOREM AbortsHaveAReason == Spec => []AbortsAreExplained
<1>0. AbortsAreExplained <=> \A j \in Jobs : phase[j] = "failed" /\ j \notin touched => Explained(j)
  BY DEF AbortsAreExplained, Explained
<1>1. Init => AbortsAreExplained
  BY DEF Init, AbortsAreExplained
<1>2. SyncInvariant /\ AbortsAreExplained /\ [Next]_vars => AbortsAreExplained'
  <2>0. (\A j \in Jobs : phase'[j] = "failed" /\ j \notin touched' => Explained(j)') => AbortsAreExplained'
    BY DEF AbortsAreExplained, Explained
  <2> SUFFICES ASSUME SyncInvariant, AbortsAreExplained, [Next]_vars, NEW k \in Jobs,
                      phase'[k] = "failed", k \notin touched'
               PROVE  Explained(k)'
    BY <2>0
  <2>1. CourseOf(k)
    BY DEF SyncInvariant, CourseOf
  <2>2. CASE StepOf(k)
    <3>1. Pull(k) \/ Push(k)
      BY <2>2, OnlyCallsFail
    <3>2. k \notin touched
      BY <3>1, PullCalls, PushCalls DEF Applied, Raised
    <3>3. Raised(k) /\ Explained(k)
      BY <2>1, <3>1, <3>2, RaisedIsExplained
    <3> QED
      BY <3>3, SameExplanation DEF Raised
  <2>3. CASE ~StepOf(k)
    <3>1. SameJob(k) /\ k \notin touched /\ UNCHANGED worldVars
      BY <2>3, OthersStep
    <3> QED
      BY <1>0, <3>1, SameExplanation DEF SameJob
  <2> QED
    BY <2>2, <2>3
<1> QED
  BY <1>1, <1>2, SyncInvariantHolds, PTL DEF Spec

----------------------------------------------------------------------------
(* What follows for runs that nobody disturbs.                             *)

\* The end of a clean run in terms of its adapters: the plan is worked off.
LEMMA CleanRunEnds ==
    ASSUME SyncInvariant, NEW j \in Jobs, NEW kind, Clean(j, kind)
    PROVE  /\ \A e \in Elements : src[j][e] = Read(SourceKind(j), req[j].host)[e]
           /\ \A e \in Elements : Outcome(j, e) =
                 IF src[j][e] # Absent THEN src[j][e]
                 ELSE IF req[j].delete THEN Absent ELSE dst[j][e]
           /\ CourseOf(j) /\ req[j].host \in Hosts /\ WorldTyped(svc, grp, pool, rowGrp)
           /\ Loaded(src[j]) /\ Loaded(dst[j])
           /\ \A k \in Keys : k \in Elements
           /\ \A g \in Groups : g \in Elements
           /\ todo[j] = NoWork
<1>1. /\ CourseOf(j) /\ req[j].host \in Hosts /\ WorldTyped(svc, grp, pool, rowGrp)
      /\ Loaded(src[j]) /\ Loaded(dst[j])
  BY DEF CourseOf, SyncInvariant, TypeOK, Requests
<1>2. \A e \in Elements : src[j][e] = Read(SourceKind(j), req[j].host)[e]
  BY <1>1 DEF Clean, CourseOf, SourceIsCurrent, SourceNames
<1>3. todo[j] = NoWork
  BY <1>1 DEF Clean, CourseOf, PlanFollowsDiff, Applying
<1>4. \A e : e \notin Pending(j)
  BY <1>3 DEF Pending, NoWork
<1> QED
  BY <1>1, <1>2, <1>3, <1>4 DEF Outcome, Elements

\* After a clean pull the pool and the group rows of the FortiGate mirror what
\* its adapter can read, service by service and member by member.
THEOREM CleanPullMirrors == Spec => []PullMirrorsServices
<1>1. SyncInvariant => PullMirrorsServices
  <2> SUFFICES ASSUME SyncInvariant, NEW j \in Jobs, Clean(j, "pull")
               PROVE  LET h == req[j].host
                          services == FgtServices(h)
                          groups == FgtGroups(h, services)
                      IN
                      /\ \A k \in Keys :
                            /\ services[k] # Absent => pool[k] = services[k]
                            /\ services[k] = Absent /\ req[j].delete => pool[k] = Absent
                      /\ \A g \in Groups :
                            /\ groups[g] # Absent =>
                                  /\ rowGrp[h][g] # Absent
                                  /\ rowGrp[h][g].members = groups[g].members
                                  /\ rowGrp[h][g].comment =
                                        IF dst[j][g] = Absent THEN groups[g].comment ELSE dst[j][g].comment
                            /\ groups[g] = Absent /\ req[j].delete => rowGrp[h][g] = Absent
    BY DEF PullMirrorsServices
  <2> DEFINE h == req[j].host
             services == FgtServices(h)
             groups == FgtGroups(h, services)
  <2>0. /\ \A e \in Elements : Outcome(j, e) =
              IF src[j][e] # Absent THEN src[j][e]
              ELSE IF req[j].delete THEN Absent ELSE dst[j][e]
        /\ h \in Hosts /\ WorldTyped(svc, grp, pool, rowGrp) /\ Loaded(src[j]) /\ Loaded(dst[j])
        /\ \A k \in Keys : k \in Elements
        /\ \A g \in Groups : g \in Elements
    BY CleanRunEnds
  <2>1. /\ \A k \in Keys : src[j][k] = services[k]
        /\ \A g \in Groups : src[j][g] = groups[g]
    <3>1. SourceKind(j) = "device"
      BY DEF SourceKind, Clean
    <3>2. \A e \in Elements : src[j][e] = Read("device", h)[e]
      BY <3>1, CleanRunEnds
    <3> QED
      BY <2>0, <3>2, ReadIs DEF ServicesOf, GroupsOf
  <2>2. /\ \A k \in Keys : pool[k] = Outcome(j, k)
        /\ \A g \in Groups : rowGrp[h][g] = PulledGroup(j, g)
    BY CleanRunEnds DEF CourseOf, PullIsOnCourse, Clean, Applying
  <2> HIDE DEF h, services, groups
  <2>3. ASSUME NEW k \in Keys
        PROVE  /\ services[k] # Absent => pool[k] = services[k]
               /\ services[k] = Absent /\ req[j].delete => pool[k] = Absent
    BY <2>0, <2>1, <2>2
  <2>4. ASSUME NEW g \in Groups, groups[g] # Absent
        PROVE  /\ rowGrp[h][g] # Absent
               /\ rowGrp[h][g].members = groups[g].members
               /\ rowGrp[h][g].comment =
                     IF dst[j][g] = Absent THEN groups[g].comment ELSE dst[j][g].comment
    <3>1. Outcome(j, g) = groups[g]
      BY <2>0, <2>1, <2>4
    <3>2. rowGrp[h][g] = [members |-> {k \in groups[g].members : pool[k] # Absent},
                          comment |-> IF dst[j][g] = Absent THEN groups[g].comment ELSE dst[j][g].comment]
      BY <2>2, <2>4, <3>1 DEF PulledGroup
    <3>3. /\ groups[g] \in RowGroup
          /\ \A k \in groups[g].members : k \in Keys /\ services[k] # Absent
      BY <2>0, <2>4, DevicesAreTyped, FgtGroupsRead DEF groups
    <3>4. {k \in groups[g].members : pool[k] # Absent} = groups[g].members
      BY <2>3, <3>3
    <3>5. rowGrp[h][g] # Absent
      <4>1. dst[j][g] = Absent \/ dst[j][g] \in RowGroup
        BY <2>0 DEF Loaded
      <4>2. rowGrp[h][g] \in RowGroup
        BY <3>2, <3>3, <3>4, <4>1 DEF RowGroup
      <4> QED
        BY <4>2, NothingAssumption
    <3> QED
      BY <3>2, <3>4, <3>5
  <2>5. ASSUME NEW g \in Groups, groups[g] = Absent, req[j].delete PROVE rowGrp[h][g] = Absent
    BY <2>0, <2>1, <2>2, <2>5 DEF PulledGroup
  <2> QED
    BY <2>3, <2>4, <2>5 DEF h, services, groups
<1> QED
  BY <1>1, SyncInvariantHolds, PTL

\* After a clean push the device reads back every row of the pool that FortiOS
\* can express, a UDP row without a port as TCP, and no two of them share their
\* name.
THEOREM CleanPushMirrors == Spec => []PushMirrorsPool
<1>1. SyncInvariant => PushMirrorsPool
  <2> SUFFICES ASSUME SyncInvariant, NEW j \in Jobs, Clean(j, "push")
               PROVE  LET h == req[j].host
                          services == FgtServices(h)
                          groups == FgtGroups(h, services)
                      IN
                      /\ \A k \in Keys : pool[k] # Absent /\ Pushable(k) => services[PushedAs(j, k)] = pool[k]
                      /\ \A k, m \in Keys :
                            /\ pool[k] # Absent /\ Pushable(k)
                            /\ pool[m] # Absent /\ Pushable(m)
                            => k = m \/ k[3] # m[3]
                      /\ \A g \in Groups : rowGrp[h][g] # Absent =>
                            /\ groups[g] # Absent /\ groups[g].comment = rowGrp[h][g].comment
                            /\ {PushedAs(j, k) : k \in {m \in rowGrp[h][g].members : Pushable(m)}}
                                  \subseteq groups[g].members
                      /\ req[j].delete =>
                            /\ \A m \in Keys : services[m] # Absent =>
                                  \E k \in Keys : pool[k] # Absent /\ PushedAs(j, k) = m
                            /\ \A g \in Groups : groups[g] # Absent => rowGrp[h][g] # Absent
    BY DEF PushMirrorsPool
  <2> DEFINE h == req[j].host
             services == FgtServices(h)
             groups == FgtGroups(h, services)
  <2>0. /\ \A e \in Elements : Outcome(j, e) =
              IF src[j][e] # Absent THEN src[j][e]
              ELSE IF req[j].delete THEN Absent ELSE dst[j][e]
        /\ h \in Hosts /\ WorldTyped(svc, grp, pool, rowGrp) /\ Loaded(src[j]) /\ Loaded(dst[j])
        /\ DevicesTyped
        /\ \A k \in Keys : k \in Elements
        /\ \A g \in Groups : g \in Elements
        /\ todo[j].write = {} /\ todo[j].delete = {}
    BY CleanRunEnds, DevicesAreTyped DEF NoWork
  <2>1. /\ \A k \in Keys : src[j][k] = pool[k]
        /\ \A g \in Groups : src[j][g] = rowGrp[h][g]
    <3>1. SourceKind(j) = "rows"
      BY DEF SourceKind, Clean
    <3>2. \A e \in Elements : src[j][e] = Read("rows", h)[e]
      BY <3>1, CleanRunEnds
    <3> QED
      BY <2>0, <3>2, ReadIs DEF ServicesOf, GroupsOf
  <2>2. PushedServices(j) /\ \A g \in Groups : PushedGroup(j, g)
    BY CleanRunEnds DEF CourseOf, PushIsOnCourse, Clean, Applying
  <2>3. /\ \A g \in Groups : grp[h][g] = Absent => groups[g] = Absent
        /\ \A g \in Groups : grp[h][g] # Absent =>
              /\ groups[g] # Absent /\ groups[g].comment = grp[h][g].comment
              /\ groups[g].members = {k \in Keys : services[k] # Absent /\ k[3] \in grp[h][g].members}
    BY <2>0, FgtGroupsRead
  <2>4. ASSUME NEW g \in Groups
        PROVE  /\ g \in Writes(src[j], dst[j]) =>
                     grp[h][g] = [members |-> {k[3] : k \in src[j][g].members}, comment |-> src[j][g].comment]
               /\ req[j].delete /\ g \in Deletes(src[j], dst[j]) => grp[h][g] = Absent
               /\ g \notin Writes(src[j], dst[j]) /\ ~(req[j].delete /\ g \in Deletes(src[j], dst[j])) =>
                     FgtGroups(h, dst[j])[g] = dst[j][g]
    <3>1. PushedGroup(j, g)
      BY <2>2
    <3>2. Writes(src[j], dst[j]) \cap Deletes(src[j], dst[j]) = {}
      BY DEF Writes, Deletes
    <3> QED
      BY <2>0, <3>1, <3>2 DEF PushedGroup
  <2>p. /\ \A k \in Keys : PushOutcome(j, k) # Absent => services[PushedAs(j, k)] = PushOutcome(j, k)
        /\ \A m \in Keys : services[m] # Absent =>
              \E k \in Keys : PushOutcome(j, k) # Absent /\ PushedAs(j, k) = m
        /\ \A k, m \in Keys :
              PushOutcome(j, k) # Absent /\ PushOutcome(j, m) # Absent /\ k[3] = m[3] => k = m
    BY <2>2 DEF PushedServices
  <2> HIDE DEF h, services, groups
  <2>o. ASSUME NEW k \in Keys, pool[k] # Absent, Pushable(k) PROVE PushOutcome(j, k) = pool[k]
    BY <2>0, <2>1, <2>o DEF PushOutcome
  <2>5. /\ \A k \in Keys : pool[k] # Absent /\ Pushable(k) => services[PushedAs(j, k)] = pool[k]
        /\ \A k, m \in Keys :
              /\ pool[k] # Absent /\ Pushable(k)
              /\ pool[m] # Absent /\ Pushable(m)
              => k = m \/ k[3] # m[3]
    BY <2>p, <2>o
  <2>6. ASSUME NEW g \in Groups, rowGrp[h][g] # Absent
        PROVE  /\ groups[g] # Absent /\ groups[g].comment = rowGrp[h][g].comment
               /\ {PushedAs(j, k) : k \in {m \in rowGrp[h][g].members : Pushable(m)}}
                     \subseteq groups[g].members
    <3>0. /\ src[j][g] = rowGrp[h][g] /\ src[j][g] \in RowGroup /\ rowGrp[h][g].members \subseteq Keys
          /\ \A k \in rowGrp[h][g].members : pool[k] # Absent
      BY <2>0, <2>1, <2>6 DEF WorldTyped, RowGroup
    <3>1. /\ grp[h][g] # Absent /\ grp[h][g].comment = src[j][g].comment
          /\ \A k \in src[j][g].members : k[3] \in grp[h][g].members
      <4>1. CASE g \in Writes(src[j], dst[j])
        <5>1. grp[h][g] = [members |-> {k[3] : k \in src[j][g].members}, comment |-> src[j][g].comment]
          BY <2>4, <4>1
        <5>2. {k[3] : k \in src[j][g].members} \subseteq Names
          BY <3>0, KeyShape
        <5> DEFINE sent == {k[3] : k \in src[j][g].members}
        <5>3. sent \in SUBSET (Names \cup Groups) /\ \A k \in src[j][g].members : k[3] \in sent
          BY <5>2
        <5> HIDE DEF sent
        <5>4. grp[h][g] = [members |-> sent, comment |-> src[j][g].comment]
          BY <5>1 DEF sent
        <5>5. grp[h][g] \in Group
          BY <3>0, <5>3, <5>4 DEF Group, RowGroup
        <5>6. grp[h][g] # Absent
          BY <5>5, NothingAssumption
        <5> QED
          BY <5>3, <5>4, <5>6
      <4>2. CASE g \notin Writes(src[j], dst[j])
        <5>1. src[j][g] = dst[j][g] /\ dst[j][g] # Absent
          BY <2>0, <2>6, <3>0, <4>2 DEF Writes
        <5>2. FgtGroups(h, dst[j])[g] = dst[j][g]
          BY <2>4, <4>2, <5>1 DEF Deletes
        <5>3. grp[h][g] # Absent
          BY <2>0, <5>1, <5>2, FgtGroupsRead
        <5>4. /\ dst[j][g].members = {k \in Keys : dst[j][k] # Absent /\ k[3] \in grp[h][g].members}
              /\ dst[j][g].comment = grp[h][g].comment
          BY <2>0, <5>2, <5>3, FgtGroupsRead
        <5> QED
          BY <5>1, <5>3, <5>4
      <4> QED
        BY <4>1, <4>2
    <3>2. ASSUME NEW k \in rowGrp[h][g].members, Pushable(k)
          PROVE  PushedAs(j, k) \in groups[g].members
      <4>1. k \in Keys /\ services[PushedAs(j, k)] # Absent /\ k[3] \in grp[h][g].members
        BY <2>5, <3>0, <3>1, <3>2
      <4>2. PushedAs(j, k) \in Keys /\ PushedAs(j, k)[3] = k[3]
        BY <4>1, PushedAsTyped
      <4> QED
        BY <2>3, <3>1, <4>1, <4>2
    <3> QED
      BY <2>3, <3>0, <3>1, <3>2
  <2>7. ASSUME req[j].delete, NEW m \in Keys, services[m] # Absent
        PROVE  \E k \in Keys : pool[k] # Absent /\ PushedAs(j, k) = m
    <3>1. PICK k \in Keys : PushOutcome(j, k) # Absent /\ PushedAs(j, k) = m
      BY <2>p, <2>7
    <3>2. src[j][k] # Absent
      BY <2>0, <2>7, <3>1 DEF PushOutcome
    <3> QED
      BY <2>1, <3>1, <3>2
  <2>8. ASSUME req[j].delete, NEW g \in Groups, groups[g] # Absent PROVE rowGrp[h][g] # Absent
    <3>1. grp[h][g] # Absent
      BY <2>3, <2>8
    <3>2. src[j][g] # Absent
      <4> SUFFICES ASSUME src[j][g] = Absent PROVE FALSE
        OBVIOUS
      <4>1. dst[j][g] = Absent
        BY <2>0, <2>4, <2>8, <3>1 DEF Deletes
      <4>2. FgtGroups(h, dst[j])[g] = Absent
        BY <2>4, <4>1 DEF Writes, Deletes
      <4> QED
        BY <2>0, <3>1, <4>2, FgtGroupsRead
    <3> QED
      BY <2>1, <3>2
  <2> QED
    BY <2>5, <2>6, <2>7, <2>8 DEF h, services, groups
<1> QED
  BY <1>1, SyncInvariantHolds, PTL

----------------------------------------------------------------------------
(* What a step may never do.                                               *)

\* Only a call of a destructive pull takes a row out of the pool, a row the
\* FortiGate it pulls from did not have.
THEOREM OthersAreKept == Spec => PoolKeepsOthers
<1>1. SyncInvariant /\ [Next]_vars =>
        [\A j \in Jobs, k \in Keys :
          JobStep /\ todo'[j] # todo[j] /\ pool[k] # Absent /\ pool'[k] = Absent
          => /\ req[j].kind = "pull" /\ req[j].delete
             /\ src[j][k] = Absent
             /\ ~Protected(k)]_vars
  <2> SUFFICES ASSUME SyncInvariant, [Next]_vars,
                      NEW j \in Jobs, NEW k \in Keys,
                      JobStep, todo'[j] # todo[j], pool[k] # Absent, pool'[k] = Absent
               PROVE  /\ req[j].kind = "pull" /\ req[j].delete
                      /\ src[j][k] = Absent
                      /\ ~Protected(k)
    OBVIOUS
  <2>0. pool \in [Keys -> Text \cup {Absent}] /\ k \notin Groups
    BY NothingAssumption DEF SyncInvariant, TypeOK, WorldTyped
  <2>1. StepOf(j)
    BY OthersStep DEF SameJob
  <2>2. CASE Pull(j)
    <3>1. ASSUME NEW m \in Keys, NEW c, PutRow(m, c), c \in Text
          PROVE  FALSE
      BY <2>0, <3>1, NothingAssumption DEF PutRow
    <3>2. phase[j] = "syncing"
      BY <2>2, PullCalls
    <3>3. ASSUME NEW m \in Keys, PullServiceCreate(j, m) \/ PullServiceUpdate(j, m)
          PROVE  FALSE
      <4>1. m \in todo[j].write
        BY <3>3 DEF PullServiceCreate, PullServiceUpdate, Turn
      <4>2. src[j][m] \in Text
        BY <3>2, <4>1, Planned
      <4> QED
        BY <3>1, <3>3, <4>2 DEF PullServiceCreate, PullServiceUpdate, Save, Raised, worldVars, rowVars
    <3>4. ASSUME NEW m \in Keys, PullServiceDelete(j, m)
          PROVE  m = k /\ ~Protected(m) /\ m \in todo[j].delete /\ req[j].kind = "pull"
      BY <2>0, <3>4 DEF PullServiceDelete, RemoveRows, Deleted, Raised, worldVars, rowVars, Turn
    <3>5. ASSUME NEW g \in Groups,
                 PullGroupCreate(j, g) \/ PullGroupUpdate(j, g) \/ PullGroupDelete(j, g)
          PROVE  FALSE
      BY <3>5 DEF PullGroupCreate, PullGroupUpdate, PullGroupDelete, PutRowGroup, worldVars, rowVars
    <3> QED
      BY <2>2, <3>2, <3>3, <3>4, <3>5, Planned DEF Pull
  <2>3. CASE Push(j)
    BY <2>3, PushCalls DEF rowVars
  <2>4. CASE ~Push(j) /\ ~Pull(j)
    BY <2>1, <2>4 DEF StepOf, Start, Load, LoadSourceServices, LoadSourceGroups,
                  LoadTargetServices, LoadTargetGroups, ExecuteSync, Finish, Crash, worldVars, rowVars
  <2> QED
    BY <2>2, <2>3, <2>4
<1> QED
  BY <1>1, SyncInvariantHolds, PTL DEF Spec, PoolKeepsOthers

\* The change PushKeepsMeaning allows.
Kept(was, is) ==
    \/ is = was
    \/ ServicePorts(was) = <<"HOPOPT", NoPort>> /\ ServicePorts(is) = ServicePorts(was)
    \/ /\ was.protocol = "IP" /\ was.number \in {"TCP", "UDP"}
       /\ is = TcpUdp(None, None)
    \/ /\ was.protocol = "TCP/UDP/SCTP"
       /\ \/ was.tcp # None /\ is = [was EXCEPT !.tcp.source = FALSE]
          \/ was.tcp = None /\ is = [was EXCEPT !.udp.source = FALSE]

LEMMA WithSource ==
    ASSUME NEW r \in [port : Ports, source : BOOLEAN], NEW v \in BOOLEAN
    PROVE  [r EXCEPT !.source = v] = [port |-> r.port, source |-> v]
OBVIOUS

\* What a sent definition changes in one that reads as the row it is sent for.
LEMMA DefineKeepsMeaning ==
    ASSUME NEW k \in Keys, NEW was \in Definition, ServicePorts(was) = <<k[1], k[2]>>,
           Pushable(k), NEW is, is = Define(k, was)
    PROVE  Kept(was, is)
<1>0. <<k[1], k[2]>> \in Kinds /\ k[1] \in Protocols
  BY KeyShape DEF Pushable
<1>1. CASE was \in [protocol : {"TCP/UDP/SCTP"}, tcp : Range, udp : Range]
  <2>1. was.protocol = "TCP/UDP/SCTP" /\ was.tcp \in Range /\ was.udp \in Range /\ was # None
    BY <1>1, NothingAssumption
  <2>2. was = [protocol |-> "TCP/UDP/SCTP", tcp |-> was.tcp, udp |-> was.udp]
    BY <1>1
  <2>3. CASE was.tcp # None
    <3>1. k[1] = "TCP" /\ k[2] = was.tcp.port /\ k[2] \in Ports /\ k[2] # NoPort
      BY <2>1, <2>3, ConstantsAssumption DEF ServicePorts, PortOf, Range
    <3>2. is = [was EXCEPT !.tcp = [port |-> was.tcp.port, source |-> FALSE]]
      BY <2>1, <3>1, ConstantsAssumption DEF Define, SentRange
    <3>3. [was.tcp EXCEPT !.source = FALSE] = [port |-> was.tcp.port, source |-> FALSE]
      <4>1. was.tcp \in [port : Ports, source : BOOLEAN]
        BY <2>1, <2>3 DEF Range
      <4> QED
        BY <4>1, WithSource
    <3>4. is = [was EXCEPT !.tcp.source = FALSE]
      BY <2>2, <3>2, <3>3
    <3> QED
      BY <2>1, <2>3, <3>4 DEF Kept
  <2>4. CASE was.tcp = None /\ was.udp # None
    <3>1. k[1] = "UDP" /\ k[2] = was.udp.port /\ k[2] \in Ports /\ k[2] # NoPort
      BY <2>1, <2>4, ConstantsAssumption DEF ServicePorts, PortOf, Range
    <3>2. is = [was EXCEPT !.udp = [port |-> was.udp.port, source |-> FALSE]]
      BY <2>1, <3>1, ConstantsAssumption DEF Define, SentRange
    <3>3. [was.udp EXCEPT !.source = FALSE] = [port |-> was.udp.port, source |-> FALSE]
      <4>1. was.udp \in [port : Ports, source : BOOLEAN]
        BY <2>1, <2>4 DEF Range
      <4> QED
        BY <4>1, WithSource
    <3>4. is = [was EXCEPT !.udp.source = FALSE]
      BY <2>2, <3>2, <3>3
    <3> QED
      BY <2>1, <2>4, <3>4 DEF Kept
  <2>5. CASE was.tcp = None /\ was.udp = None
    <3>1. k[1] = "TCP" /\ k[2] = NoPort
      BY <2>1, <2>5, ConstantsAssumption DEF ServicePorts
    <3>2. is = [was EXCEPT !.tcp = None]
      BY <2>1, <3>1, ConstantsAssumption DEF Define, SentRange
    <3>3. is = was
      BY <2>2, <2>5, <3>2
    <3> QED
      BY <3>3 DEF Kept
  <2> QED
    BY <2>3, <2>4, <2>5
<1>2. CASE was \in [protocol : {"IP"}, number : Protocols \cup {Unmapped, None}]
  <2>1. was.protocol = "IP" /\ was.number # Unmapped /\ was # None
    BY <1>0, <1>2, NothingAssumption DEF ServicePorts, Definition
  <2>2. k[1] = (IF was.number = None THEN "HOPOPT" ELSE was.number) /\ k[2] = NoPort
    BY <1>2, <2>1 DEF ServicePorts
  <2>3. CASE k[1] \in {"TCP", "UDP"}
    <3>1. was.number = k[1]
      BY <2>2, <2>3
    <3>2. SentRange(k) = None
      BY <2>2 DEF SentRange
    <3>3. is = TcpUdp(None, None)
      BY <2>1, <2>3, <3>2 DEF Define, TcpUdp
    <3> QED
      BY <2>1, <2>3, <3>1, <3>3 DEF Kept
  <2>4. CASE k[1] \notin {"TCP", "UDP"}
    <3>1. is = [protocol |-> "IP", number |-> k[1]]
      BY <1>0, <2>4 DEF Define
    <3>2. CASE was.number = None
      <4>1. ServicePorts(is) = <<"HOPOPT", NoPort>>
        BY <2>2, <3>1, <3>2, ConstantsAssumption DEF ServicePorts
      <4>2. ServicePorts(was) = <<"HOPOPT", NoPort>>
        BY <2>2, <3>2
      <4> QED
        BY <4>1, <4>2 DEF Kept
    <3>3. CASE was.number # None
      <4>1. was = [protocol |-> "IP", number |-> was.number]
        BY <1>2
      <4> QED
        BY <2>2, <3>1, <3>3, <4>1 DEF Kept
    <3> QED
      BY <3>2, <3>3
  <2> QED
    BY <2>3, <2>4
<1>3. CASE was \in [protocol : {"ALL", Proxied}]
  <2>1. was.protocol # Proxied
    BY <1>0, <1>3, ConstantsAssumption DEF ServicePorts
  <2>2. ServicePorts(was) = <<"HOPOPT", NoPort>> /\ k[1] = "HOPOPT"
    BY <1>3, <2>1, ConstantsAssumption DEF ServicePorts
  <2>3. is = [protocol |-> "IP", number |-> "HOPOPT"]
    BY <2>2, ConstantsAssumption DEF Define
  <2>4. ServicePorts(is) = <<"HOPOPT", NoPort>>
    BY <2>3, ConstantsAssumption DEF ServicePorts
  <2> QED
    BY <2>2, <2>4 DEF Kept
<1> QED
  BY <1>1, <1>2, <1>3 DEF Definition

\* Whatever other FortiGates' services are in the pool, a push that nobody
\* disturbs leaves an existing service meaning what it meant, but for source
\* ports, unless it is the IP protocol 6 or 17.
THEOREM MeaningIsKept == Spec => PushKeepsMeaning
<1>1. SyncInvariant /\ [Next]_vars =>
        [\A j \in Jobs, h \in Hosts, n \in Names :
          JobStep /\ todo'[j] # todo[j] /\ j \notin touched
             /\ svc[h][n] # Absent /\ svc'[h][n] # Absent
          => LET was == svc[h][n].def
                 is == svc'[h][n].def
             IN  \/ is = was
                 \/ ServicePorts(was) = <<"HOPOPT", NoPort>> /\ ServicePorts(is) = ServicePorts(was)
                 \/ /\ was.protocol = "IP" /\ was.number \in {"TCP", "UDP"}
                    /\ is = TcpUdp(None, None)
                 \/ /\ was.protocol = "TCP/UDP/SCTP"
                    /\ \/ was.tcp # None /\ is = [was EXCEPT !.tcp.source = FALSE]
                       \/ was.tcp = None /\ is = [was EXCEPT !.udp.source = FALSE]]_vars
  <2> SUFFICES ASSUME SyncInvariant, [Next]_vars,
                      NEW j \in Jobs, NEW h \in Hosts, NEW n \in Names,
                      JobStep, todo'[j] # todo[j], j \notin touched,
                      svc[h][n] # Absent, svc'[h][n] # Absent,
                      svc'[h][n].def # svc[h][n].def
               PROVE  Kept(svc[h][n].def, svc'[h][n].def)
    BY DEF Kept
  <2>0. WorldTyped(svc, grp, pool, rowGrp) /\ CourseOf(j)
    BY DEF SyncInvariant, TypeOK, CourseOf
  <2>1. StepOf(j)
    BY OthersStep DEF SameJob
  <2>2. CASE Push(j)
    <3>0. phase[j] = "syncing" /\ req[j].kind = "push" /\ req[j].host \in Hosts
      BY <2>2, PushCalls DEF SyncInvariant, TypeOK, Requests
    <3>1. PICK d \in Hosts : d = req[j].host
      BY <3>0
    <3>2. ASSUME NEW k \in Keys, PushServiceUpdate(j, k)
          PROVE  h = d /\ n = k[3] /\ k \in Pending(j) /\ dst[j][k] # Absent /\ Pushable(k)
                 /\ svc'[h][n].def = Define(k, svc[h][n].def)
      <4>1. k \in Pending(j) /\ dst[j][k] # Absent /\ k[3] \in Names
        BY <3>2, KeyShape DEF PushServiceUpdate, Turn, Pending
      <4>2. \/ svc' = svc
            \/ /\ Pushable(k)
               /\ PutService(d, k[3], [def |-> Define(k, svc[d][k[3]].def), comment |-> src[j][k]])
        BY <3>1, <3>2 DEF PushServiceUpdate, Skip, Call, Raised, worldVars, deviceVars
      <4> QED
        BY <2>0, <4>1, <4>2 DEF PutService, WorldTyped
    <3>3. ASSUME NEW k \in Keys, PushServiceCreate(j, k) \/ PushServiceDelete(j, k)
          PROVE  FALSE
      <4>1. k[3] \in Names
        BY KeyShape
      <4>2. \/ svc' = svc
            \/ svc[d][k[3]] = Absent /\ \E r : PutService(d, k[3], r)
            \/ PutService(d, k[3], Absent)
        BY <3>1, <3>3 DEF PushServiceCreate, PushServiceDelete, Skip, Call, Raised, worldVars, deviceVars
      <4>3. \A r : PutService(d, k[3], r) =>
               IF h = d /\ n = k[3] THEN svc'[h][n] = r ELSE svc'[h][n] = svc[h][n]
        BY <2>0, <4>1 DEF PutService, WorldTyped
      <4> QED
        BY <4>2, <4>3
    <3>4. ASSUME NEW g \in Groups, PushGroupCreate(j, g) \/ PushGroupUpdate(j, g) \/ PushGroupDelete(j, g)
          PROVE  FALSE
      BY <3>4 DEF PushGroupCreate, PushGroupUpdate, PushGroupDelete, Call, PutGroup, Raised, worldVars, deviceVars
    <3>5. PICK k \in Keys : PushServiceUpdate(j, k)
      BY <2>2, <3>3, <3>4 DEF Push
    <3>6. /\ Pushable(k) /\ svc[h][n] \in Service
          /\ ServicePorts(svc[h][n].def) = <<k[1], k[2]>>
      BY <2>0, <3>0, <3>1, <3>2, <3>5, PushKnows
    <3>7. svc[h][n].def \in Definition /\ svc'[h][n].def = Define(k, svc[h][n].def)
      BY <3>2, <3>5, <3>6 DEF Service
    <3> QED
      BY <3>6, <3>7, DefineKeepsMeaning
  <2>3. CASE Pull(j)
    BY <2>3, PullCalls DEF deviceVars, Kept
  <2>4. CASE ~Push(j) /\ ~Pull(j)
    BY <2>1, <2>4 DEF StepOf, Start, Load, LoadSourceServices, LoadSourceGroups,
                  LoadTargetServices, LoadTargetGroups, ExecuteSync, Finish, Crash, worldVars, deviceVars, Kept
  <2> QED
    BY <2>2, <2>3, <2>4
<1> QED
  BY <1>1, SyncInvariantHolds, PTL DEF Spec, PushKeepsMeaning
=============================================================================
