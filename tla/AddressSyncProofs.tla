------------------------- MODULE AddressSyncProofs -------------------------
(***************************************************************************)
(* Theorems about AddressSync, for every set of scopes, names, values and  *)
(* jobs.                                                                   *)
(***************************************************************************)
EXTENDS AddressSync, TLAPS

----------------------------------------------------------------------------
(* The two directions of the description convention.                       *)

\* What create() and update() write into a description is what the Nautobot
\* adapter strips back out: the comment survives the round trip.
LEMMA StripInvertsDescribe ==
    ASSUME NEW n \in Names, NEW c \in Text
    PROVE  /\ Strip(n, DescribeOnCreate(n, c)) = c
           /\ Strip(n, DescribeOnUpdate(n, c)) = c
<1>1. n # c
  BY ConstantsAssumption DEF Names, Text
<1>2. Strip(n, <<n, c>>) = c
  BY DEF Strip
<1>3. Strip(n, <<n>>) = NoComment
  BY DEF Strip
<1> QED
  BY <1>2, <1>3 DEF DescribeOnCreate, DescribeOnUpdate

\* Stripping yields a comment, and describing yields a description.
LEMMA StripTyped ==
    ASSUME NEW n \in Names, NEW d \in Descriptions(n)
    PROVE  Strip(n, d) \in Text
<1>1. CASE d = <<n>>
  BY <1>1 DEF Strip, Text
<1>2. CASE d \in {n} \X Text
  BY <1>2 DEF Strip, Text
<1>3. CASE d # <<n>> /\ d \in {<<c>> : c \in Text}
  BY <1>3 DEF Strip, Text
<1> QED
  BY <1>1, <1>2, <1>3 DEF Descriptions

LEMMA DescribeTyped ==
    ASSUME NEW n \in Names, NEW c \in Text
    PROVE  /\ DescribeOnCreate(n, c) \in Descriptions(n)
           /\ DescribeOnUpdate(n, c) \in Descriptions(n)
           /\ <<c>> \in Descriptions(n)
BY DEF DescribeOnCreate, DescribeOnUpdate, Descriptions

----------------------------------------------------------------------------
(* Loading yields typed adapters.                                          *)

LEMMA ReadFgtTyped ==
    ASSUME NEW s \in Scopes, DeviceTyped(fgt[s])
    PROVE  LoadedTyped(ReadFgt(s))
<1>1. \A a \in AddrNames : ReadFgt(s)[a] \in [value : Values, comment : Text] \cup {Absent}
  BY ConstantsAssumption
     DEF DeviceTyped, ReadFgt, ReadAddress, AddressValue, Description, Readable, AddrRec, DeviceValues,
         Names, Text
<1>2. \A g \in GrpNames : ReadFgt(s)[g] \in GrpRec \cup {Absent}
  BY ConstantsAssumption DEF DeviceTyped, ReadFgt, Names
<1> QED
  BY <1>1, <1>2 DEF LoadedTyped, ReadFgt

LEMMA ReadOrmTyped ==
    ASSUME NEW s \in Scopes, RowsTyped(orm[s])
    PROVE  LoadedTyped(ReadOrm(s))
<1>1. \A a \in AddrNames : ReadOrm(s)[a] \in [value : Values, comment : Text] \cup {Absent}
  BY StripTyped DEF RowsTyped, ReadOrm, OrmAddr, Names
<1>2. \A g \in GrpNames : ReadOrm(s)[g] \in GrpRec \cup {Absent}
  BY StripTyped, ConstantsAssumption DEF RowsTyped, ReadOrm, OrmGrp, GrpRec, Names
<1> QED
  BY <1>1, <1>2 DEF LoadedTyped, ReadOrm

LEMMA HalfTyped ==
    ASSUME NEW half, NEW f, NEW g, LoadedTyped(f), LoadedTyped(g)
    PROVE  LoadedTyped(Half(half, f, g))
BY DEF LoadedTyped, Half, Names

LEMMA EmptyTyped == LoadedTyped(EmptyStore)
BY DEF LoadedTyped, EmptyStore, Names

----------------------------------------------------------------------------
(* Every way of writing a record keeps the world typed.                    *)

LEMMA PutDeviceTyped ==
    ASSUME WorldTyped(fgt, orm), NEW s \in Scopes, NEW n \in Names, NEW r,
           n \in AddrNames => r \in AddrRec \cup {Absent},
           n \in GrpNames => r \in GrpRec \cup {Absent},
           PutDevice(s, n, r)
    PROVE  WorldTyped(fgt, orm)'
<1>1. fgt' = [t \in Scopes |-> [m \in Names |->
                IF t = s /\ m = n THEN r ELSE fgt[t][m]]]
  BY DEF WorldTyped, DeviceTyped, PutDevice
<1>2. \A t \in Scopes : DeviceTyped(fgt'[t])
  <2> SUFFICES ASSUME NEW t \in Scopes PROVE DeviceTyped(fgt'[t])
    OBVIOUS
  <2>1. fgt'[t] = [m \in Names |-> IF t = s /\ m = n THEN r ELSE fgt[t][m]]
    BY <1>1
  <2> QED
    BY <2>1 DEF WorldTyped, DeviceTyped, Names
<1>3. fgt' = [t \in Scopes |-> fgt'[t]]
  BY <1>1
<1>4. orm' = orm
  BY DEF PutDevice
<1> QED
  BY <1>2, <1>3, <1>4 DEF WorldTyped

LEMMA PutRowTyped ==
    ASSUME WorldTyped(fgt, orm), NEW s \in Scopes, NEW n \in Names, NEW r,
           n \in AddrNames => r \in OrmAddr(n) \cup {Absent},
           n \in GrpNames => r \in OrmGrp(n) \cup {Absent},
           PutRow(s, n, r)
    PROVE  WorldTyped(fgt, orm)'
<1>1. orm' = [t \in Scopes |-> [m \in Names |->
                IF t = s /\ m = n THEN r ELSE orm[t][m]]]
  BY DEF WorldTyped, RowsTyped, PutRow
<1>2. \A t \in Scopes : RowsTyped(orm'[t])
  <2> SUFFICES ASSUME NEW t \in Scopes PROVE RowsTyped(orm'[t])
    OBVIOUS
  <2>1. orm'[t] = [m \in Names |-> IF t = s /\ m = n THEN r ELSE orm[t][m]]
    BY <1>1
  <2> QED
    BY <2>1 DEF WorldTyped, RowsTyped, Names
<1>3. orm' = [t \in Scopes |-> orm'[t]]
  BY <1>1
<1>4. fgt' = fgt
  BY DEF PutRow
<1> QED
  BY <1>2, <1>3, <1>4 DEF WorldTyped

LEMMA WithoutRowTyped ==
    ASSUME WorldTyped(fgt, orm), NEW s \in Scopes, NEW n \in Names,
           orm' = WithoutRow(s, n), UNCHANGED fgt
    PROVE  WorldTyped(fgt, orm)'
<1>1. \A t \in Scopes : RowsTyped(orm'[t])
  <2> SUFFICES ASSUME NEW t \in Scopes PROVE RowsTyped(orm'[t])
    OBVIOUS
  <2>1. RowsTyped(orm[t])
    BY DEF WorldTyped
  <2>2. orm'[t] = [m \in Names |->
            IF t = s /\ m = n THEN Absent
            ELSE IF m \in GrpNames /\ orm[t][m] # Absent
            THEN [orm[t][m] EXCEPT !.members = @ \ {<<s, n>>}]
            ELSE orm[t][m]]
    BY DEF WithoutRow
  <2>3. \A a \in AddrNames : orm'[t][a] \in OrmAddr(a) \cup {Absent}
    BY <2>1, <2>2, ConstantsAssumption DEF RowsTyped, Names
  <2>4. \A g \in GrpNames : orm'[t][g] \in OrmGrp(g) \cup {Absent}
    <3> SUFFICES ASSUME NEW g \in GrpNames PROVE orm'[t][g] \in OrmGrp(g) \cup {Absent}
      OBVIOUS
    <3>1. CASE orm[t][g] = Absent
      BY <2>2, <3>1 DEF Names
    <3>2. CASE orm[t][g] # Absent
      BY <2>1, <2>2, <3>2 DEF RowsTyped, OrmGrp, Names
    <3> QED
      BY <3>1, <3>2
  <2> QED
    BY <2>2, <2>3, <2>4 DEF RowsTyped
<1>2. orm' = [t \in Scopes |-> orm'[t]]
  BY DEF WithoutRow
<1> QED
  BY <1>1, <1>2 DEF WorldTyped

\* Writing or deleting a row leaves every group with members that exist.
LEMMA PutRowLinked ==
    ASSUME WorldTyped(fgt, orm), MembersHaveRows(orm), NEW s \in Scopes, NEW n \in Names, NEW r,
           PutRow(s, n, r),
           n \in AddrNames => r \in OrmAddr(n),
           n \in GrpNames /\ r # Absent => \A m \in r.members : orm[m[1]][m[2]] # Absent,
           n \in GrpNames /\ r # Absent => r \in OrmGrp(n)
    PROVE  MembersHaveRows(orm')
<1> SUFFICES ASSUME NEW t \in Scopes, NEW g \in GrpNames, orm'[t][g] # Absent,
                    NEW m \in orm'[t][g].members
             PROVE  orm'[m[1]][m[2]] # Absent
  BY DEF MembersHaveRows
<1>1. orm' = [u \in Scopes |-> [k \in Names |->
                IF u = s /\ k = n THEN r ELSE orm[u][k]]]
  BY DEF WorldTyped, RowsTyped, PutRow
<1>2. orm'[t][g] = IF t = s /\ g = n THEN r ELSE orm[t][g]
  BY <1>1 DEF Names
<1>3. m[1] \in Scopes /\ m[2] \in AddrNames /\ orm[m[1]][m[2]] # Absent
  <2>1. CASE t = s /\ g = n
    BY <1>2, <2>1 DEF OrmGrp
  <2>2. CASE ~(t = s /\ g = n)
    <3>1. orm[t][g] \in OrmGrp(g) /\ m \in orm[t][g].members
      BY <1>2, <2>2 DEF WorldTyped, RowsTyped
    <3> QED
      BY <1>2, <2>2, <3>1 DEF MembersHaveRows, OrmGrp
  <2> QED
    BY <2>1, <2>2
<1>4. orm'[m[1]][m[2]] = IF m[1] = s /\ m[2] = n THEN r ELSE orm[m[1]][m[2]]
  BY <1>1, <1>3 DEF Names
<1>5. n \in AddrNames => r # Absent
  BY AbsentAssumption
<1> QED
  BY <1>3, <1>4, <1>5

LEMMA WithoutRowLinked ==
    ASSUME WorldTyped(fgt, orm), MembersHaveRows(orm), NEW s \in Scopes, NEW n \in Names,
           orm' = WithoutRow(s, n)
    PROVE  MembersHaveRows(orm')
<1> SUFFICES ASSUME NEW t \in Scopes, NEW g \in GrpNames, orm'[t][g] # Absent,
                    NEW m \in orm'[t][g].members
             PROVE  orm'[m[1]][m[2]] # Absent
  BY DEF MembersHaveRows
<1>1. /\ ~(t = s /\ g = n) /\ orm[t][g] # Absent
      /\ orm'[t][g] = [orm[t][g] EXCEPT !.members = @ \ {<<s, n>>}]
  BY DEF WithoutRow, Names
<1>2. orm[t][g] \in OrmGrp(g)
  BY <1>1 DEF WorldTyped, RowsTyped
<1>3. m \in orm[t][g].members /\ m # <<s, n>>
  BY <1>1, <1>2 DEF OrmGrp
<1>4. /\ m[1] \in Scopes /\ m[2] \in AddrNames /\ m = <<m[1], m[2]>>
      /\ orm[m[1]][m[2]] # Absent
  BY <1>1, <1>2, <1>3 DEF OrmGrp, MembersHaveRows
<1>5. orm'[m[1]][m[2]] = orm[m[1]][m[2]]
  BY <1>3, <1>4, ConstantsAssumption DEF WithoutRow, Names
<1> QED
  BY <1>4, <1>5

----------------------------------------------------------------------------
(* What every step has in common.                                          *)

\* Adapters stay typed when one job's is replaced by a typed one.
LEMMA StoreTyped ==
    ASSUME NEW f, NEW j \in Jobs, NEW r, LoadedTyped(r),
           f = [k \in Jobs |-> f[k]], \A k \in Jobs : LoadedTyped(f[k]),
           NEW h, h = [f EXCEPT ![j] = r]
    PROVE  h = [k \in Jobs |-> h[k]] /\ \A k \in Jobs : LoadedTyped(h[k])
<1>1. h = [k \in Jobs |-> IF k = j THEN r ELSE f[k]]
  OBVIOUS
<1>2. \A k \in Jobs : h[k] = IF k = j THEN r ELSE f[k]
  BY <1>1
<1>3. \A k \in Jobs : LoadedTyped(h[k])
  <2> SUFFICES ASSUME NEW k \in Jobs PROVE LoadedTyped(h[k])
    OBVIOUS
  <2>1. CASE k = j
    BY <1>2, <2>1
  <2>2. CASE k # j
    <3>1. h[k] = f[k]
      BY <1>2, <2>2
    <3>2. LoadedTyped(f[k])
      OBVIOUS
    <3> QED
      BY <3>1, <3>2
  <2> QED
    BY <2>1, <2>2
<1> QED
  BY <1>1, <1>3

LEMMA InitTyped == Init => TypeOK
<1> SUFFICES ASSUME Init PROVE TypeOK
  OBVIOUS
<1>1. WorldTyped(fgt, orm)
  BY WorldsAssumption DEF Init
<1>2. phase \in [Jobs -> Idle \cup Running]
  BY DEF Init, Idle
<1>3. req \in [Jobs -> Requests]
  BY ConstantsAssumption DEF Init, Requests
<1>4. /\ src = [j \in Jobs |-> src[j]] /\ \A j \in Jobs : LoadedTyped(src[j])
      /\ dst = [j \in Jobs |-> dst[j]] /\ \A j \in Jobs : LoadedTyped(dst[j])
  BY EmptyTyped DEF Init
<1>5. todo \in [Jobs -> [write : SUBSET Names, delete : SUBSET Names]]
  BY DEF Init, NoWork
<1>6. touched \in SUBSET Jobs /\ edits \in 0..MaxEdits /\ runs \in 0..MaxRuns
  BY ConstantsAssumption DEF Init
<1> QED
  BY <1>1, <1>2, <1>3, <1>4, <1>5, <1>6 DEF TypeOK

\* A record was written and the element taken off the list.
LEMMA AppliedTyped ==
    ASSUME TypeOK, WorldTyped(fgt, orm)', NEW j \in Jobs, NEW n, Applied(j, n)
    PROVE  TypeOK'
<1>1. todo' \in [Jobs -> [write : SUBSET Names, delete : SUBSET Names]]
  BY DEF TypeOK, Applied
<1>2. touched' \in SUBSET Jobs
  BY DEF TypeOK, Applied
<1>3. UNCHANGED <<phase, req, src, dst, edits, runs>>
  BY DEF Applied
<1> QED
  BY <1>1, <1>2, <1>3 DEF TypeOK

\* A job came to one of its ends.
LEMMA PhaseTyped ==
    ASSUME TypeOK, NEW j \in Jobs, NEW p \in Idle \cup Running,
           phase' = [phase EXCEPT ![j] = p],
           UNCHANGED <<worldVars, req, src, dst, todo, touched, edits, runs>>
    PROVE  TypeOK'
<1>1. phase' \in [Jobs -> Idle \cup Running]
  BY DEF TypeOK
<1> QED
  BY <1>1 DEF TypeOK, worldVars

LEMMA EditedTyped ==
    ASSUME TypeOK, WorldTyped(fgt, orm)', Edited
    PROVE  TypeOK'
<1>1. edits' \in 0..MaxEdits
  BY ConstantsAssumption DEF TypeOK, Edited
<1>2. touched' \in SUBSET Jobs
  BY DEF Edited
<1>3. UNCHANGED <<phase, req, src, dst, todo, runs>>
  BY DEF Edited, jobVars
<1> QED
  BY <1>1, <1>2, <1>3 DEF TypeOK

----------------------------------------------------------------------------
(* Starting, loading and diffing.                                          *)

LEMMA StartTyped ==
    ASSUME TypeOK, NEW j \in Jobs, Start(j)
    PROVE  TypeOK'
<1>1. phase' \in [Jobs -> Idle \cup Running]
  BY DEF TypeOK, Start, Running, Loading
<1>2. req' \in [Jobs -> Requests]
  BY DEF TypeOK, Start
<1>3. src' = [k \in Jobs |-> src'[k]] /\ \A k \in Jobs : LoadedTyped(src'[k])
  <2>1. src' = [src EXCEPT ![j] = EmptyStore]
    BY DEF Start
  <2>2. src = [k \in Jobs |-> src[k]] /\ \A k \in Jobs : LoadedTyped(src[k])
    BY DEF TypeOK
  <2> QED
    BY <2>1, <2>2, EmptyTyped, StoreTyped
<1>4. dst' = [k \in Jobs |-> dst'[k]] /\ \A k \in Jobs : LoadedTyped(dst'[k])
  <2>1. dst' = [dst EXCEPT ![j] = EmptyStore]
    BY DEF Start
  <2>2. dst = [k \in Jobs |-> dst[k]] /\ \A k \in Jobs : LoadedTyped(dst[k])
    BY DEF TypeOK
  <2> QED
    BY <2>1, <2>2, EmptyTyped, StoreTyped
<1>5. todo' \in [Jobs -> [write : SUBSET Names, delete : SUBSET Names]]
  BY DEF TypeOK, Start, NoWork
<1>6. runs' \in 0..MaxRuns /\ touched' \in SUBSET Jobs
  BY ConstantsAssumption DEF TypeOK, Start
<1>7. WorldTyped(fgt, orm)' /\ edits' \in 0..MaxEdits
  BY DEF TypeOK, Start
<1> QED
  BY <1>1, <1>2, <1>3, <1>4, <1>5, <1>6, <1>7 DEF TypeOK
\* The client of a typed job talks to one of the VDOMs.
LEMMA DeviceInScopes ==
    ASSUME req \in [Jobs -> Requests], NEW j \in Jobs
    PROVE  Device(j) \in Scopes
BY ConstantsAssumption DEF Device, Requests

LEMMA SourceTargetTyped ==
    ASSUME TypeOK, NEW j \in Jobs
    PROVE  LoadedTyped(SourceRead(j)) /\ LoadedTyped(TargetRead(j))
<1>1. req[j].scope \in Scopes /\ Device(j) \in Scopes
  BY DeviceInScopes DEF TypeOK, Requests
<1>2. DeviceTyped(fgt[Device(j)]) /\ RowsTyped(orm[req[j].scope])
  BY <1>1 DEF TypeOK, WorldTyped
<1>3. LoadedTyped(ReadFgt(Device(j))) /\ LoadedTyped(ReadOrm(req[j].scope))
  BY <1>1, <1>2, ReadFgtTyped, ReadOrmTyped
<1> QED
  BY <1>3 DEF SourceRead, TargetRead

\* One of the four loading calls fills half of a store.
LEMMA LoadTyped ==
    ASSUME TypeOK, NEW j \in Jobs, Load(j)
    PROVE  TypeOK'
<1>1. src = [k \in Jobs |-> src[k]] /\ \A k \in Jobs : LoadedTyped(src[k])
  BY DEF TypeOK
<1>2. dst = [k \in Jobs |-> dst[k]] /\ \A k \in Jobs : LoadedTyped(dst[k])
  BY DEF TypeOK
<1>3. phase' \in [Jobs -> Idle \cup Running]
  BY DEF TypeOK, Load, LoadSourceAddresses, LoadSourceGroups,
         LoadTargetAddresses, LoadTargetGroups, Running, Loading
<1>4. UNCHANGED <<fgt, orm, req, todo, touched, edits, runs>>
  BY DEF Load, LoadSourceAddresses, LoadSourceGroups,
         LoadTargetAddresses, LoadTargetGroups, worldVars
<1>5. src' = [k \in Jobs |-> src'[k]] /\ \A k \in Jobs : LoadedTyped(src'[k])
  <2>1. CASE LoadSourceAddresses(j)
    <3>1. src' = [src EXCEPT ![j] = Half(AddrNames, SourceRead(j), src[j])]
      BY <1>1, <2>1 DEF LoadSourceAddresses
    <3>2. LoadedTyped(Half(AddrNames, SourceRead(j), src[j]))
      BY <1>1, SourceTargetTyped, HalfTyped
    <3> QED
      BY <1>1, <3>1, <3>2, StoreTyped
  <2>2. CASE LoadSourceGroups(j)
    <3>1. src' = [src EXCEPT ![j] = Half(GrpNames, SourceRead(j), src[j])]
      BY <1>1, <2>2 DEF LoadSourceGroups
    <3>2. LoadedTyped(Half(GrpNames, SourceRead(j), src[j]))
      BY <1>1, SourceTargetTyped, HalfTyped
    <3> QED
      BY <1>1, <3>1, <3>2, StoreTyped
  <2>3. CASE LoadTargetAddresses(j) \/ LoadTargetGroups(j)
    BY <1>1, <2>3 DEF LoadTargetAddresses, LoadTargetGroups
  <2> QED
    BY <2>1, <2>2, <2>3 DEF Load
<1>6. dst' = [k \in Jobs |-> dst'[k]] /\ \A k \in Jobs : LoadedTyped(dst'[k])
  <2>1. CASE LoadTargetAddresses(j)
    <3>1. dst' = [dst EXCEPT ![j] = Half(AddrNames, TargetRead(j), dst[j])]
      BY <1>2, <2>1 DEF LoadTargetAddresses
    <3>2. LoadedTyped(Half(AddrNames, TargetRead(j), dst[j]))
      BY <1>2, SourceTargetTyped, HalfTyped
    <3> QED
      BY <1>2, <3>1, <3>2, StoreTyped
  <2>2. CASE LoadTargetGroups(j)
    <3>1. dst' = [dst EXCEPT ![j] = Half(GrpNames, TargetRead(j), dst[j])]
      BY <1>2, <2>2 DEF LoadTargetGroups
    <3>2. LoadedTyped(Half(GrpNames, TargetRead(j), dst[j]))
      BY <1>2, SourceTargetTyped, HalfTyped
    <3> QED
      BY <1>2, <3>1, <3>2, StoreTyped
  <2>3. CASE LoadSourceAddresses(j) \/ LoadSourceGroups(j)
    BY <1>2, <2>3 DEF LoadSourceAddresses, LoadSourceGroups
  <2> QED
    BY <2>1, <2>2, <2>3 DEF Load
<1> QED
  BY <1>3, <1>4, <1>5, <1>6 DEF TypeOK

LEMMA ExecuteSyncTyped ==
    ASSUME TypeOK, NEW j \in Jobs, ExecuteSync(j)
    PROVE  TypeOK'
<1>1. phase' \in [Jobs -> Idle \cup Running]
  BY DEF TypeOK, ExecuteSync, Running
<1>2. todo' \in [Jobs -> [write : SUBSET Names, delete : SUBSET Names]]
  BY DEF TypeOK, ExecuteSync, Writes, Deletes
<1>3. UNCHANGED <<fgt, orm, req, src, dst, touched, edits, runs>>
  BY DEF ExecuteSync, worldVars
<1> QED
  BY <1>1, <1>2, <1>3 DEF TypeOK

----------------------------------------------------------------------------
(* Applying.                                                               *)

\* What a job is about to write is a typed record of its own scope.
LEMMA SourceRecordTyped ==
    ASSUME SyncInvariant, NEW j \in Jobs, phase[j] = "syncing", NEW n \in todo[j].write
    PROVE  /\ req[j].scope \in Scopes
           /\ n \in Names
           /\ src[j][n] # Absent
           /\ n \in AddrNames => src[j][n] \in [value : Values, comment : Text]
           /\ n \in GrpNames => src[j][n] \in GrpRec
<1>1. LoadedTyped(src[j]) /\ src[j][n] # Absent
  BY DEF SyncInvariant, TypeOK, PlanFromSource
<1> QED
  BY <1>1 DEF LoadedTyped, SyncInvariant, TypeOK, Requests

\* The members a pull gives a group are rows of the job's scope.
LEMMA FoundMembersTyped ==
    ASSUME NEW s \in Scopes, NEW members
    PROVE  /\ FoundMembers(s, members) \in SUBSET (Scopes \X AddrNames)
           /\ \A m \in FoundMembers(s, members) : orm[m[1]][m[2]] # Absent
BY DEF FoundMembers

\* The rows of name n.
OrmRow(n) == IF n \in AddrNames THEN OrmAddr(n) ELSE OrmGrp(n)

\* All that a CRUD call of a pull can do: leave the rows alone, write a row
\* whose members exist, delete a row, or end the job.
PullEffect(j) ==
    /\ phase[j] = "syncing" /\ req[j].kind = "pull"
    /\ \/ Raised(j)
       \/ \E n \in todo[j].write :
             /\ Applied(j, n)
             /\ \/ KeepRows
                \/ \E r \in OrmRow(n) :
                      /\ PutRow(req[j].scope, n, r)
                      /\ n \in GrpNames => \A m \in r.members : orm[m[1]][m[2]] # Absent
       \/ \E n \in todo[j].delete :
             /\ Applied(j, n)
             /\ \/ /\ n \in AddrNames /\ orm' = WithoutRow(req[j].scope, n) /\ UNCHANGED fgt
                   /\ ProtectOnDelete /\ orm[req[j].scope][n] # Absent => ~Referenced(req[j].scope, n)
                \/ n \in GrpNames /\ PutRow(req[j].scope, n, Absent)

LEMMA PullHasEffect ==
    ASSUME SyncInvariant, NEW j \in Jobs, Pull(j)
    PROVE  PullEffect(j)
<1> USE DEF SyncInvariant
<1> DEFINE s == req[j].scope
<1>0. s \in Scopes /\ RowsTyped(orm[s])
  BY DEF TypeOK, Requests, WorldTyped
<1>p. phase[j] = "syncing" /\ req[j].kind = "pull"
  BY DEF Pull, PullAddressCreate, PullAddressUpdate, PullAddressDelete,
         PullGroupCreate, PullGroupUpdate, PullGroupDelete, Turn
<1>1. ASSUME NEW a \in AddrNames, PullAddressCreate(j, a)
      PROVE  PullEffect(j)
  <2>1. src[j][a] \in [value : Values, comment : Text] /\ a \in Names /\ a \notin GrpNames
    BY <1>1, SourceRecordTyped, ConstantsAssumption DEF PullAddressCreate, Turn
  <2>2. [value |-> src[j][a].value,
         description |-> DescribeOnCreate(a, src[j][a].comment)] \in OrmRow(a)
    BY <2>1, DescribeTyped DEF OrmAddr, OrmRow
  <2> QED
    BY <1>p, <1>1, <2>1, <2>2 DEF PullAddressCreate, PullEffect, Turn
<1>2. ASSUME NEW a \in AddrNames, PullAddressUpdate(j, a)
      PROVE  PullEffect(j)
  <2>1. src[j][a] \in [value : Values, comment : Text] /\ a \in Names /\ a \notin GrpNames
    BY <1>2, SourceRecordTyped, ConstantsAssumption DEF PullAddressUpdate, Turn
  <2>2. CASE orm[s][a] = Absent \/ src[j][a].comment = dst[j][a].comment
    BY <1>p, <1>2, <2>2 DEF PullAddressUpdate, PullEffect, Turn
  <2>3. CASE ~(orm[s][a] = Absent \/ src[j][a].comment = dst[j][a].comment)
    <3> DEFINE row == [orm[s][a] EXCEPT !.description = DescribeOnUpdate(a, src[j][a].comment)]
    <3>1. orm[s][a] \in OrmAddr(a)
      BY <1>0, <2>3 DEF RowsTyped
    <3>2. row \in OrmRow(a)
      BY <2>1, <3>1, DescribeTyped DEF OrmAddr, OrmRow
    <3>3. PutRow(s, a, row) /\ Applied(j, a) /\ a \in todo[j].write
      BY <1>2, <2>3 DEF PullAddressUpdate, Turn
    <3> HIDE DEF row
    <3> QED
      BY <1>p, <2>1, <3>2, <3>3 DEF PullEffect
  <2> QED
    BY <2>2, <2>3
<1>3. ASSUME NEW a \in AddrNames, PullAddressDelete(j, a)
      PROVE  PullEffect(j)
  BY <1>p, <1>3 DEF PullAddressDelete, PullEffect, Turn
<1>4. ASSUME NEW g \in GrpNames, PullGroupCreate(j, g)
      PROVE  PullEffect(j)
  <2> DEFINE row == [members |-> FoundMembers(s, src[j][g].members),
                     description |-> DescribeOnCreate(g, src[j][g].comment)]
  <2>1. src[j][g] \in GrpRec /\ g \in Names /\ g \notin AddrNames
    BY <1>4, SourceRecordTyped, ConstantsAssumption DEF PullGroupCreate, Turn
  <2>2. row \in OrmRow(g) /\ \A m \in row.members : orm[m[1]][m[2]] # Absent
    BY <1>0, <2>1, DescribeTyped, FoundMembersTyped DEF OrmGrp, GrpRec, OrmRow
  <2>3. PutRow(s, g, row) /\ Applied(j, g) /\ g \in todo[j].write
    BY <1>4 DEF PullGroupCreate, Turn
  <2> HIDE DEF row
  <2> QED
    BY <1>p, <2>2, <2>3 DEF PullEffect
<1>5. ASSUME NEW g \in GrpNames, PullGroupUpdate(j, g)
      PROVE  PullEffect(j)
  <2>1. src[j][g] \in GrpRec /\ g \in Names /\ g \notin AddrNames
    BY <1>5, SourceRecordTyped, ConstantsAssumption DEF PullGroupUpdate, Turn
  <2>2. CASE orm[s][g] = Absent
    BY <1>p, <1>5, <2>2 DEF PullGroupUpdate, PullEffect, Turn
  <2>3. CASE orm[s][g] # Absent
    <3> DEFINE row == [members |-> IF src[j][g].members = dst[j][g].members THEN orm[s][g].members
                                   ELSE FoundMembers(s, src[j][g].members),
                       description |-> IF src[j][g].comment = dst[j][g].comment THEN orm[s][g].description
                                       ELSE DescribeOnUpdate(g, src[j][g].comment)]
    <3>1. orm[s][g] \in OrmGrp(g) /\ \A m \in orm[s][g].members : orm[m[1]][m[2]] # Absent
      BY <1>0, <2>3 DEF RowsTyped, MembersHaveRows
    <3>2. row \in OrmRow(g) /\ \A m \in row.members : orm[m[1]][m[2]] # Absent
      <4>1. /\ FoundMembers(s, src[j][g].members) \in SUBSET (Scopes \X AddrNames)
            /\ \A m \in FoundMembers(s, src[j][g].members) : orm[m[1]][m[2]] # Absent
        BY <1>0, FoundMembersTyped
      <4>2. DescribeOnUpdate(g, src[j][g].comment) \in Descriptions(g)
        BY <2>1, DescribeTyped DEF GrpRec
      <4> QED
        BY <2>1, <3>1, <4>1, <4>2 DEF OrmGrp, OrmRow
    <3>3. PutRow(s, g, row) /\ Applied(j, g) /\ g \in todo[j].write
      BY <1>5, <2>3 DEF PullGroupUpdate, Turn
    <3> HIDE DEF row
    <3> QED
      BY <1>p, <3>2, <3>3 DEF PullEffect
  <2> QED
    BY <2>2, <2>3
<1>6. ASSUME NEW g \in GrpNames, PullGroupDelete(j, g)
      PROVE  PullEffect(j)
  BY <1>p, <1>6 DEF PullGroupDelete, PullEffect, Turn
<1> QED
  BY <1>1, <1>2, <1>3, <1>4, <1>5, <1>6 DEF Pull

LEMMA PullTyped ==
    ASSUME SyncInvariant, NEW j \in Jobs, PullEffect(j)
    PROVE  TypeOK' /\ MembersHaveRows(orm')
<1> USE DEF SyncInvariant
<1> DEFINE s == req[j].scope
<1>0. /\ s \in Scopes /\ WorldTyped(fgt, orm) /\ MembersHaveRows(orm)
      /\ \A n \in todo[j].write \cup todo[j].delete : n \in Names
  BY DEF TypeOK, Requests
<1>1. CASE Raised(j)
  BY <1>1, <1>0, PhaseTyped DEF Raised, Idle, worldVars
<1>2. ASSUME NEW n \in todo[j].write, Applied(j, n), KeepRows
      PROVE  TypeOK' /\ MembersHaveRows(orm')
  BY <1>0, <1>2, AppliedTyped DEF KeepRows, worldVars
<1>3. ASSUME NEW n \in todo[j].write, Applied(j, n), NEW r \in OrmRow(n), PutRow(s, n, r),
             n \in GrpNames => \A m \in r.members : orm[m[1]][m[2]] # Absent
      PROVE  TypeOK' /\ MembersHaveRows(orm')
  <2>1. /\ n \in AddrNames => r \in OrmAddr(n)
        /\ n \in GrpNames => r \in OrmGrp(n)
    BY <1>3, ConstantsAssumption DEF OrmRow
  <2>2. WorldTyped(fgt, orm)'
    BY <1>0, <1>3, <2>1, PutRowTyped
  <2>3. MembersHaveRows(orm')
    BY <1>0, <1>3, <2>1, PutRowLinked
  <2> QED
    BY <1>3, <2>2, <2>3, AppliedTyped
<1>4. ASSUME NEW n \in todo[j].delete, n \in AddrNames, Applied(j, n),
             orm' = WithoutRow(s, n), UNCHANGED fgt
      PROVE  TypeOK' /\ MembersHaveRows(orm')
  BY <1>0, <1>4, WithoutRowTyped, WithoutRowLinked, AppliedTyped
<1>5. ASSUME NEW n \in todo[j].delete, n \in GrpNames, Applied(j, n), PutRow(s, n, Absent)
      PROVE  TypeOK' /\ MembersHaveRows(orm')
  <2>1. n \notin AddrNames
    BY <1>5, ConstantsAssumption
  <2>2. WorldTyped(fgt, orm)' /\ MembersHaveRows(orm')
    BY <1>0, <1>5, <2>1, PutRowTyped, PutRowLinked
  <2> QED
    BY <1>5, <2>2, AppliedTyped
<1> QED
  BY <1>1, <1>2, <1>3, <1>4, <1>5 DEF PullEffect

\* All that a CRUD call of a push can do: write or delete a record of the
\* VDOM its client talks to, or end the job.
PushEffect(j) ==
    /\ phase[j] = "syncing" /\ req[j].kind = "push"
    /\ \/ Raised(j)
       \/ \E n, r :
             /\ n \in todo[j].write
             /\ Applied(j, n) /\ PutDevice(Device(j), n, r)
             /\ n \in AddrNames => r \in AddrRec
             /\ n \in GrpNames => r \in GrpRec
       \/ \E n \in todo[j].delete : Applied(j, n) /\ PutDevice(Device(j), n, Absent)

\* What arrives of a record that can be sent is one a device can hold.
LEMMA ArrivedTyped ==
    ASSUME NEW n \in Names, NEW r, r # Absent, Sendable(n, r),
           n \in AddrNames => r \in [value : Values, comment : Text],
           n \in GrpNames => r \in GrpRec
    PROVE  /\ n \in AddrNames => Arrived(n, r) \in AddrRec
           /\ n \in GrpNames => Arrived(n, r) \in GrpRec
<1>1. CASE n \in AddrNames
  <2>1. Stored[r.value] \in DeviceValues
    BY <1>1, ConstantsAssumption DEF Sendable
  <2> QED
    BY <1>1, <2>1, ConstantsAssumption DEF Arrived, AddrRec
<1>2. CASE n \notin AddrNames
  BY <1>2 DEF Arrived, Names
<1> QED
  BY <1>1, <1>2

LEMMA PushHasEffect ==
    ASSUME SyncInvariant, NEW j \in Jobs, Push(j)
    PROVE  PushEffect(j)
<1>1. ASSUME NEW a \in AddrNames, PushAddressCreate(j, a) \/ PushAddressUpdate(j, a)
      PROVE  PushEffect(j)
  <2>1. /\ phase[j] = "syncing" /\ req[j].kind = "push" /\ a \in todo[j].write
        /\ a \in Names /\ a \notin GrpNames
        /\ src[j][a] \in [value : Values, comment : Text] /\ src[j][a] # Absent
    BY <1>1, SourceRecordTyped, ConstantsAssumption DEF PushAddressCreate, PushAddressUpdate, Turn, Names
  <2>2. \/ Raised(j)
        \/ /\ PutDevice(Device(j), a, Arrived(a, src[j][a])) /\ Applied(j, a)
           /\ Sendable(a, src[j][a])
    BY <1>1 DEF PushAddressCreate, PushAddressUpdate, Call, AcceptsCreate, AcceptsUpdate
  <2>3. CASE Raised(j)
    BY <2>1, <2>3 DEF PushEffect
  <2>4. CASE Sendable(a, src[j][a])
    <3>1. Arrived(a, src[j][a]) \in AddrRec
      BY <2>1, <2>4, ArrivedTyped
    <3> QED
      BY <2>1, <2>2, <3>1 DEF PushEffect
  <2> QED
    BY <2>2, <2>3, <2>4
<1>2. ASSUME NEW g \in GrpNames, PushGroupCreate(j, g) \/ PushGroupUpdate(j, g)
      PROVE  PushEffect(j)
  <2>1. /\ phase[j] = "syncing" /\ req[j].kind = "push" /\ g \in todo[j].write
        /\ src[j][g] \in GrpRec /\ g \notin AddrNames
        /\ Arrived(g, src[j][g]) = src[j][g]
    BY <1>2, SourceRecordTyped, ConstantsAssumption DEF PushGroupCreate, PushGroupUpdate, Turn, Arrived
  <2>2. Raised(j) \/ (PutDevice(Device(j), g, src[j][g]) /\ Applied(j, g))
    BY <1>2, <2>1 DEF PushGroupCreate, PushGroupUpdate, Call
  <2> QED
    BY <2>1, <2>2 DEF PushEffect
<1>3. ASSUME NEW n \in Names, PushAddressDelete(j, n) \/ PushGroupDelete(j, n)
      PROVE  PushEffect(j)
  <2>1. phase[j] = "syncing" /\ req[j].kind = "push" /\ n \in todo[j].delete
    BY <1>3 DEF PushAddressDelete, PushGroupDelete, Turn
  <2>2. Raised(j) \/ (PutDevice(Device(j), n, Absent) /\ Applied(j, n))
    BY <1>3 DEF PushAddressDelete, PushGroupDelete, Call, Arrived
  <2> QED
    BY <2>1, <2>2 DEF PushEffect
<1> QED
  BY <1>1, <1>2, <1>3 DEF Push, Names

LEMMA PushTyped ==
    ASSUME SyncInvariant, NEW j \in Jobs, PushEffect(j)
    PROVE  TypeOK' /\ MembersHaveRows(orm')
<1> USE DEF SyncInvariant
<1> DEFINE d == Device(j)
<1>0. /\ d \in Scopes /\ WorldTyped(fgt, orm) /\ MembersHaveRows(orm)
      /\ \A n \in todo[j].write \cup todo[j].delete : n \in Names
  BY DeviceInScopes DEF TypeOK
<1>1. CASE Raised(j)
  BY <1>1, <1>0, PhaseTyped DEF Raised, Idle, worldVars
<1>2. ASSUME NEW n \in Names, NEW r, Applied(j, n), PutDevice(d, n, r),
             n \in AddrNames => r \in AddrRec \cup {Absent},
             n \in GrpNames => r \in GrpRec \cup {Absent}
      PROVE  TypeOK' /\ MembersHaveRows(orm')
  <2>1. WorldTyped(fgt, orm)'
    BY <1>0, <1>2, PutDeviceTyped
  <2> QED
    BY <1>0, <1>2, <2>1, AppliedTyped DEF PutDevice
<1> QED
  BY <1>0, <1>1, <1>2 DEF PushEffect

----------------------------------------------------------------------------
(* Operators.                                                              *)

LEMMA OperatorsTyped ==
    ASSUME TypeOK, MembersHaveRows(orm), Operators
    PROVE  TypeOK' /\ MembersHaveRows(orm')
<1>0. WorldTyped(fgt, orm)
  BY DEF TypeOK
<1>1. ASSUME NEW s \in Scopes, NEW a \in AddrNames, DeviceAddressEdit(s, a)
      PROVE  TypeOK' /\ MembersHaveRows(orm')
  <2>1. WorldTyped(fgt, orm)'
    BY <1>0, <1>1, PutDeviceTyped, ConstantsAssumption DEF DeviceAddressEdit, Names
  <2> QED
    BY <1>1, <2>1, EditedTyped DEF DeviceAddressEdit, PutDevice
<1>2. ASSUME NEW s \in Scopes, NEW a \in AddrNames, RowAddressEdit(s, a)
      PROVE  TypeOK' /\ MembersHaveRows(orm')
  <2>1. PICK v \in Values, c \in Text : PutRow(s, a, [value |-> v, description |-> <<c>>])
    BY <1>2 DEF RowAddressEdit
  <2>2. a \in Names /\ a \notin GrpNames
    BY ConstantsAssumption DEF Names
  <2>3. [value |-> v, description |-> <<c>>] \in OrmAddr(a)
    BY <2>2, DescribeTyped DEF OrmAddr
  <2>4. WorldTyped(fgt, orm)' /\ MembersHaveRows(orm')
    BY <1>0, <2>1, <2>2, <2>3, PutRowTyped, PutRowLinked
  <2> QED
    BY <1>2, <2>4, EditedTyped DEF RowAddressEdit
<1>3. ASSUME NEW s \in Scopes, NEW g \in GrpNames, DeviceGroupEdit(s, g)
      PROVE  TypeOK' /\ MembersHaveRows(orm')
  <2>1. WorldTyped(fgt, orm)'
    BY <1>0, <1>3, PutDeviceTyped, ConstantsAssumption DEF DeviceGroupEdit, Names
  <2> QED
    BY <1>3, <2>1, EditedTyped DEF DeviceGroupEdit, PutDevice
<1>4. ASSUME NEW s \in Scopes, NEW g \in GrpNames, RowGroupEdit(s, g)
      PROVE  TypeOK' /\ MembersHaveRows(orm')
  <2>1. PICK members \in SUBSET (Scopes \X AddrNames), c \in Text :
            /\ \A m \in members : orm[m[1]][m[2]] # Absent
            /\ PutRow(s, g, [members |-> members, description |-> <<c>>])
    BY <1>4 DEF RowGroupEdit
  <2>2. g \in Names /\ g \notin AddrNames
    BY ConstantsAssumption DEF Names
  <2>3. [members |-> members, description |-> <<c>>] \in OrmGrp(g)
    BY <2>2, DescribeTyped DEF OrmGrp
  <2>4. WorldTyped(fgt, orm)' /\ MembersHaveRows(orm')
    BY <1>0, <2>1, <2>2, <2>3, PutRowTyped, PutRowLinked
  <2> QED
    BY <1>4, <2>4, EditedTyped DEF RowGroupEdit
<1>5. ASSUME NEW s \in Scopes, NEW n \in Names, DeviceDelete(s, n)
      PROVE  TypeOK' /\ MembersHaveRows(orm')
  <2>1. WorldTyped(fgt, orm)'
    BY <1>0, <1>5, PutDeviceTyped DEF DeviceDelete
  <2> QED
    BY <1>5, <2>1, EditedTyped DEF DeviceDelete, PutDevice
<1>6. ASSUME NEW s \in Scopes, NEW n \in Names, RowDelete(s, n)
      PROVE  TypeOK' /\ MembersHaveRows(orm')
  <2>1. WorldTyped(fgt, orm)' /\ MembersHaveRows(orm')
    BY <1>0, <1>6, WithoutRowTyped, WithoutRowLinked DEF RowDelete
  <2> QED
    BY <1>6, <2>1, EditedTyped DEF RowDelete
<1> QED
  BY <1>1, <1>2, <1>3, <1>4, <1>5, <1>6 DEF Operators

----------------------------------------------------------------------------
(* The inductive invariant.                                                *)

\* Every step of the system, in the terms the proofs below need.
Effects ==
    \/ \E j \in Jobs :
          \/ Start(j) \/ Load(j) \/ ExecuteSync(j)
          \/ PullEffect(j) \/ PushEffect(j)
          \/ Finish(j) \/ Crash(j)
    \/ Operators
    \/ UNCHANGED vars

LEMMA NextHasEffect == SyncInvariant /\ [Next]_vars => Effects
BY PullHasEffect, PushHasEffect DEF Next, Work, Effects

LEMMA EffectsTyped == SyncInvariant /\ Effects => TypeOK' /\ MembersHaveRows(orm')
<1> SUFFICES ASSUME SyncInvariant, Effects PROVE TypeOK' /\ MembersHaveRows(orm')
  OBVIOUS
<1> USE DEF SyncInvariant
<1>1. ASSUME NEW j \in Jobs, Start(j) PROVE TypeOK' /\ MembersHaveRows(orm')
  BY <1>1, StartTyped DEF Start
<1>2. ASSUME NEW j \in Jobs, Load(j) PROVE TypeOK' /\ MembersHaveRows(orm')
  <2>1. orm' = orm
    BY <1>2 DEF Load, LoadSourceAddresses, LoadSourceGroups,
                LoadTargetAddresses, LoadTargetGroups, worldVars
  <2> QED
    BY <1>2, <2>1, LoadTyped
<1>3. ASSUME NEW j \in Jobs, ExecuteSync(j) PROVE TypeOK' /\ MembersHaveRows(orm')
  BY <1>3, ExecuteSyncTyped DEF ExecuteSync, worldVars
<1>4. ASSUME NEW j \in Jobs, PullEffect(j) \/ PushEffect(j)
      PROVE  TypeOK' /\ MembersHaveRows(orm')
  BY <1>4, PullTyped, PushTyped
<1>5. ASSUME NEW j \in Jobs, Finish(j) \/ Crash(j) PROVE TypeOK' /\ MembersHaveRows(orm')
  <2>1. orm' = orm
    BY <1>5 DEF Finish, Crash, worldVars
  <2> QED
    BY <1>5, <2>1, PhaseTyped DEF Finish, Crash, Idle
<1>6. CASE Operators
  BY <1>6, OperatorsTyped
<1>7. CASE UNCHANGED vars
  <2>1. orm' = orm /\ TypeOK'
    BY <1>7 DEF TypeOK, vars
  <2> QED
    BY <2>1
<1> QED
  BY <1>1, <1>2, <1>3, <1>4, <1>5, <1>6, <1>7 DEF Effects

LEMMA OperatorsLeaveJobs == Operators => UNCHANGED jobVars
BY DEF Operators, DeviceAddressEdit, RowAddressEdit, DeviceGroupEdit, RowGroupEdit,
       DeviceDelete, RowDelete, Edited

\* A CRUD call takes its element off the job's list or ends the job.
LEMMA EffectOnJob ==
    ASSUME NEW j \in Jobs, PullEffect(j) \/ PushEffect(j)
    PROVE  (\E n : Applied(j, n)) \/ Raised(j)
<1>1. CASE PullEffect(j)
  BY <1>1 DEF PullEffect
<1>2. CASE PushEffect(j)
  BY <1>2 DEF PushEffect
<1> QED
  BY <1>1, <1>2

LEMMA EffectsLists == SyncInvariant /\ Effects => PlanFromSource' /\ DeletesOnRequest'
<1> SUFFICES ASSUME SyncInvariant, Effects, NEW k \in Jobs, phase'[k] = "syncing"
             PROVE  /\ \A n \in todo'[k].write : src'[k][n] # Absent
                    /\ \A n \in todo'[k].delete : src'[k][n] = Absent
                    /\ ~req'[k].delete => todo'[k].delete = {}
  BY DEF PlanFromSource, DeletesOnRequest
<1> DEFINE Goal == /\ \A n \in todo'[k].write : src'[k][n] # Absent
                   /\ \A n \in todo'[k].delete : src'[k][n] = Absent
                   /\ ~req'[k].delete => todo'[k].delete = {}
<1>0. /\ phase \in [Jobs -> Idle \cup Running]
      /\ req \in [Jobs -> Requests]
      /\ todo \in [Jobs -> [write : SUBSET Names, delete : SUBSET Names]]
      /\ src = [j \in Jobs |-> src[j]]
      /\ phase[k] = "syncing" => /\ \A n \in todo[k].write : src[k][n] # Absent
                                 /\ \A n \in todo[k].delete : src[k][n] = Absent
                                 /\ ~req[k].delete => todo[k].delete = {}
  BY DEF SyncInvariant, TypeOK, PlanFromSource, DeletesOnRequest
<1>1. ASSUME NEW j \in Jobs, Start(j) PROVE Goal
  BY <1>0, <1>1 DEF Start
<1>2. ASSUME NEW j \in Jobs, Load(j) PROVE Goal
  BY <1>0, <1>2 DEF Load, LoadSourceAddresses, LoadSourceGroups,
                    LoadTargetAddresses, LoadTargetGroups
<1>3. ASSUME NEW j \in Jobs, ExecuteSync(j) PROVE Goal
  BY <1>0, <1>3 DEF ExecuteSync, Writes, Deletes
<1>4. ASSUME NEW j \in Jobs, PullEffect(j) \/ PushEffect(j) PROVE Goal
  <2>1. CASE \E n : Applied(j, n)
    BY <1>0, <2>1 DEF Applied
  <2>2. CASE Raised(j)
    BY <1>0, <2>2 DEF Raised
  <2> QED
    BY <1>4, <2>1, <2>2, EffectOnJob
<1>5. ASSUME NEW j \in Jobs, Finish(j) \/ Crash(j) PROVE Goal
  BY <1>0, <1>5 DEF Finish, Crash
<1>6. CASE Operators
  BY <1>0, <1>6, OperatorsLeaveJobs DEF jobVars
<1>7. CASE UNCHANGED vars
  BY <1>0, <1>7 DEF vars
<1> QED
  BY <1>1, <1>2, <1>3, <1>4, <1>5, <1>6, <1>7 DEF Effects

\* In every behaviour, whatever jobs and operators do: the types hold, a job
\* writes only what its source holds and deletes only on request, and the
\* members of every group in Nautobot exist.
THEOREM SyncInvariantHolds == Spec => []SyncInvariant
<1>1. Init => SyncInvariant
  <2> SUFFICES ASSUME Init PROVE SyncInvariant
    OBVIOUS
  <2>1. PlanFromSource /\ DeletesOnRequest
    BY DEF Init, PlanFromSource, DeletesOnRequest
  <2>2. MembersHaveRows(orm)
    <3>1. PICK w \in InitialWorlds : fgt = w.fgt /\ orm = w.orm
      BY DEF Init
    <3>2. MembersHaveRows(w.orm)
      BY WorldsAssumption
    <3> QED
      BY <3>1, <3>2
  <2> QED
    BY <2>1, <2>2, InitTyped DEF SyncInvariant
<1>2. SyncInvariant /\ [Next]_vars => SyncInvariant'
  <2> SUFFICES ASSUME SyncInvariant, [Next]_vars PROVE SyncInvariant'
    OBVIOUS
  <2>1. TypeOK' /\ MembersHaveRows(orm') /\ PlanFromSource' /\ DeletesOnRequest'
    BY NextHasEffect, EffectsTyped, EffectsLists
  <2>2. MembersHaveRows(orm)'
    BY <2>1 DEF MembersHaveRows
  <2> QED
    BY <2>1, <2>2 DEF SyncInvariant
<1> QED
  BY <1>1, <1>2, PTL DEF Spec

\* Every variable keeps its type, in every behaviour: no job ever holds an
\* address it cannot express and no row describes another row.
THEOREM TypeCorrect == Spec => []TypeOK
<1>1. SyncInvariant => TypeOK
  BY DEF SyncInvariant
<1> QED
  BY <1>1, SyncInvariantHolds, PTL

----------------------------------------------------------------------------
(* What a job may never do.                                                *)

\* The list of a job changes only by its own steps, and of these only the
\* CRUD calls touch a device or the rows.
LEMMA WhoWrites ==
    ASSUME SyncInvariant, Effects, NEW j \in Jobs, JobStep, todo'[j] # todo[j]
    PROVE  \/ fgt' = fgt /\ orm' = orm /\ phase[j] # "syncing"
           \/ (PullEffect(j) \/ PushEffect(j)) /\ ~Raised(j) /\ \E n : Applied(j, n)
<1>0. /\ edits \in Nat
      /\ todo \in [Jobs -> [write : SUBSET Names, delete : SUBSET Names]]
  BY ConstantsAssumption DEF SyncInvariant, TypeOK
<1>1. ~Operators
  BY <1>0 DEF Operators, DeviceAddressEdit, RowAddressEdit, DeviceGroupEdit, RowGroupEdit,
              DeviceDelete, RowDelete, Edited, JobStep
<1>2. ASSUME NEW k \in Jobs, Start(k) \/ Load(k) \/ ExecuteSync(k) \/ Finish(k) \/ Crash(k)
      PROVE  fgt' = fgt /\ orm' = orm /\ phase[j] # "syncing"
  BY <1>0, <1>2 DEF Start, Load, LoadSourceAddresses, LoadSourceGroups, LoadTargetAddresses,
              LoadTargetGroups, ExecuteSync, Finish, Crash, worldVars, Idle
<1>3. ASSUME NEW k \in Jobs, PullEffect(k) \/ PushEffect(k)
      PROVE  k = j /\ ~Raised(j) /\ \E n : Applied(j, n)
  <2>1. ~Raised(k) /\ ~Raised(j)
    BY DEF Raised
  <2>2. PICK n : Applied(k, n)
    BY <1>3, <2>1, EffectOnJob
  <2>3. k = j
    BY <1>0, <2>2 DEF Applied
  <2> QED
    BY <2>1, <2>2, <2>3
<1>4. ~UNCHANGED vars
  BY DEF vars
<1> QED
  BY <1>1, <1>2, <1>3, <1>4 DEF Effects

\* What a row or record becomes when another one, or it, is written.
LEMMA PutRowReads ==
    ASSUME WorldTyped(fgt, orm), NEW s \in Scopes, NEW n \in Names, NEW r, PutRow(s, n, r),
           NEW t \in Scopes, NEW m \in Names
    PROVE  /\ orm'[t][m] = IF t = s /\ m = n THEN r ELSE orm[t][m]
           /\ t # s => orm'[t] = orm[t]
           /\ fgt' = fgt
BY DEF WorldTyped, RowsTyped, PutRow

LEMMA PutDeviceReads ==
    ASSUME WorldTyped(fgt, orm), NEW s \in Scopes, NEW n \in Names, NEW r, PutDevice(s, n, r),
           NEW t \in Scopes, NEW m \in Names
    PROVE  /\ fgt'[t][m] = IF t = s /\ m = n THEN r ELSE fgt[t][m]
           /\ t # s => fgt'[t] = fgt[t]
           /\ orm' = orm
BY DEF WorldTyped, DeviceTyped, PutDevice

\* A CRUD call of a job that may not delete keeps every record.
LEMMA AdditiveCall ==
    ASSUME SyncInvariant, NEW j \in Jobs, PullEffect(j) \/ PushEffect(j), ~Raised(j),
           ~req[j].delete, NEW s \in Scopes, NEW n \in Names
    PROVE  /\ fgt[s][n] # Absent => fgt'[s][n] # Absent
           /\ orm[s][n] # Absent => orm'[s][n] # Absent
<1>p. phase[j] = "syncing"
  BY DEF PullEffect, PushEffect
<1>0. /\ WorldTyped(fgt, orm) /\ req[j].scope \in Scopes /\ Device(j) \in Scopes
      /\ todo[j].delete = {} /\ todo[j].write \subseteq Names
  BY <1>p, DeviceInScopes DEF SyncInvariant, TypeOK, Requests, DeletesOnRequest
<1>1. CASE PullEffect(j)
  <2>1. CASE KeepRows
    BY <2>1 DEF KeepRows, worldVars
  <2>2. ASSUME NEW m \in todo[j].write, NEW r \in OrmRow(m), PutRow(req[j].scope, m, r)
        PROVE  /\ fgt[s][n] # Absent => fgt'[s][n] # Absent
               /\ orm[s][n] # Absent => orm'[s][n] # Absent
    <3>1. r # Absent
      BY <1>0, AbsentAssumption DEF OrmRow
    <3> QED
      BY <1>0, <2>2, <3>1, PutRowReads
  <2> QED
    BY <1>0, <1>1, <2>1, <2>2 DEF PullEffect
<1>2. CASE PushEffect(j)
  <2>1. PICK m, r :
            /\ m \in todo[j].write
            /\ PutDevice(Device(j), m, r)
            /\ m \in AddrNames => r \in AddrRec
            /\ m \in GrpNames => r \in GrpRec
    BY <1>0, <1>2 DEF PushEffect
  <2>2. m \in Names /\ r # Absent
    BY <1>0, <2>1, AbsentAssumption DEF Names
  <2> QED
    BY <1>0, <2>1, <2>2, PutDeviceReads
<1> QED
  BY <1>1, <1>2

\* In additive mode no step of a job removes a record from either side, for
\* any number of scopes, jobs and interleaved edits.
THEOREM AdditiveIsSafe == Spec => AdditiveKeepsRecords
<1>1. SyncInvariant /\ [Next]_vars =>
        [\A j \in Jobs, s \in Scopes, n \in Names :
            JobStep /\ todo'[j] # todo[j] /\ ~req[j].delete =>
               /\ fgt[s][n] # Absent => fgt'[s][n] # Absent
               /\ orm[s][n] # Absent => orm'[s][n] # Absent]_vars
  <2> SUFFICES ASSUME SyncInvariant, [Next]_vars,
                      NEW j \in Jobs, NEW s \in Scopes, NEW n \in Names,
                      JobStep, todo'[j] # todo[j], ~req[j].delete
               PROVE  /\ fgt[s][n] # Absent => fgt'[s][n] # Absent
                      /\ orm[s][n] # Absent => orm'[s][n] # Absent
    OBVIOUS
  <2> QED
    BY NextHasEffect, WhoWrites, AdditiveCall
<1> QED
  BY <1>1, SyncInvariantHolds, PTL DEF Spec, AdditiveKeepsRecords

\* Taking no member out of a group leaves it as it was.
LEMMA WithoutNone ==
    ASSUME NEW t \in Scopes, RowsTyped(orm[t]), NEW M,
           \A g \in GrpNames : orm[t][g] # Absent => orm[t][g].members \cap M = {}
    PROVE  \A g \in GrpNames : Without(orm[t][g], M) = orm[t][g]
<1> SUFFICES ASSUME NEW g \in GrpNames, orm[t][g] # Absent
             PROVE  [orm[t][g] EXCEPT !.members = @ \ M] = orm[t][g]
  BY DEF Without
<1>1. orm[t][g] \in OrmGrp(g)
  BY DEF RowsTyped
<1>2. orm[t][g].members \ M = orm[t][g].members
  OBVIOUS
<1> QED
  BY <1>1, <1>2 DEF OrmGrp

\* A CRUD call leaves every other scope alone, but for the memberships it ends.
LEMMA IsolatedCall ==
    ASSUME SyncInvariant, NEW j \in Jobs, PullEffect(j) \/ PushEffect(j), ~Raised(j),
           NEW t \in Scopes
    PROVE  /\ t # Device(j) => fgt'[t] = fgt[t]
           /\ t # req[j].scope =>
                 /\ \A a \in AddrNames : orm'[t][a] = orm[t][a]
                 /\ \A g \in GrpNames : orm'[t][g] = Without(orm[t][g], Ended(j))
<1> DEFINE s == req[j].scope
<1>0. /\ WorldTyped(fgt, orm) /\ MembersHaveRows(orm)
      /\ s \in Scopes /\ Device(j) \in Scopes
      /\ todo \in [Jobs -> [write : SUBSET Names, delete : SUBSET Names]]
      /\ RowsTyped(orm[t])
  BY DeviceInScopes DEF SyncInvariant, TypeOK, Requests, WorldTyped
<1>n. Ended(j) = {} => \A g \in GrpNames : Without(orm[t][g], Ended(j)) = orm[t][g]
  BY <1>0, WithoutNone
<1>1. CASE PullEffect(j)
  <2>d. \A n \in todo[j].write : n \notin todo[j].delete
    BY <1>1 DEF PullEffect, SyncInvariant, PlanFromSource
  <2>1. ASSUME NEW n \in todo[j].write, Applied(j, n), KeepRows \/ \E r : PutRow(s, n, r)
        PROVE  fgt' = fgt /\ Ended(j) = {} /\ (t # s => orm'[t] = orm[t])
    <3>1. Ended(j) = {}
      BY <1>0, <2>1, <2>d DEF Ended, Applied
    <3> QED
      BY <1>0, <2>1, <3>1, PutRowReads DEF KeepRows, worldVars
  <2>2. ASSUME NEW g \in todo[j].delete, g \in GrpNames, Applied(j, g), PutRow(s, g, Absent)
        PROVE  fgt' = fgt /\ Ended(j) = {} /\ (t # s => orm'[t] = orm[t])
    <3>1. Ended(j) = {}
      BY <1>0, <2>2, ConstantsAssumption DEF Ended, Applied
    <3> QED
      BY <1>0, <2>2, <3>1, PutRowReads
  <2>3. ASSUME NEW a \in todo[j].delete, a \in AddrNames, Applied(j, a),
               orm' = WithoutRow(s, a), UNCHANGED fgt, t # s,
               ProtectOnDelete /\ orm[s][a] # Absent => ~Referenced(s, a)
        PROVE  /\ \A b \in AddrNames : orm'[t][b] = orm[t][b]
               /\ \A g \in GrpNames : orm'[t][g] = Without(orm[t][g], Ended(j))
    <3>1. orm'[t] = [m \in Names |->
              IF m \in GrpNames /\ orm[t][m] # Absent
              THEN [orm[t][m] EXCEPT !.members = @ \ {<<s, a>>}]
              ELSE orm[t][m]]
      BY <2>3 DEF WithoutRow
    <3>2. \A b \in AddrNames : orm'[t][b] = orm[t][b]
      BY <3>1, ConstantsAssumption DEF Names
    <3>3. \A g \in GrpNames : orm'[t][g] = Without(orm[t][g], {<<s, a>>})
      BY <3>1 DEF Without, Names
    <3>4. CASE ~ProtectOnDelete
      <4>1. (todo[j].delete \ todo'[j].delete) \cap AddrNames = {a}
        BY <1>0, <2>3 DEF Applied
      <4>2. Ended(j) = {s} \X {a}
        BY <1>1, <3>4, <4>1 DEF Ended, PullEffect
      <4>3. {s} \X {a} = {<<s, a>>}
        OBVIOUS
      <4> QED
        BY <3>2, <3>3, <4>2, <4>3
    <3>5. CASE ProtectOnDelete
      <4>1. \A g \in GrpNames : orm[t][g] # Absent => orm[t][g].members \cap {<<s, a>>} = {}
        BY <1>0, <2>3, <3>5 DEF Referenced, MembersHaveRows
      <4>2. \A g \in GrpNames : Without(orm[t][g], {<<s, a>>}) = orm[t][g]
        BY <1>0, <4>1, WithoutNone
      <4>3. Ended(j) = {}
        BY <3>5 DEF Ended
      <4> QED
        BY <1>n, <3>2, <3>3, <4>2, <4>3
    <3> QED
      BY <3>4, <3>5
  <2>4. \/ \E n \in todo[j].write : Applied(j, n) /\ (KeepRows \/ \E r : PutRow(s, n, r))
        \/ \E g \in todo[j].delete : g \in GrpNames /\ Applied(j, g) /\ PutRow(s, g, Absent)
        \/ \E a \in todo[j].delete :
              /\ a \in AddrNames /\ Applied(j, a) /\ orm' = WithoutRow(s, a) /\ UNCHANGED fgt
              /\ ProtectOnDelete /\ orm[s][a] # Absent => ~Referenced(s, a)
    BY <1>1 DEF PullEffect
  <2> QED
    BY <1>n, <2>1, <2>2, <2>3, <2>4
<1>2. CASE PushEffect(j)
  <2>1. PICK m, r : m \in Names /\ PutDevice(Device(j), m, r)
    BY <1>0, <1>2 DEF PushEffect
  <2>2. Ended(j) = {}
    BY <1>2 DEF PushEffect, Ended
  <2> QED
    BY <1>0, <1>n, <2>1, <2>2, PutDeviceReads
<1> QED
  BY <1>1, <1>2

\* Whatever mixture of jobs runs, each stays in its own scope: it never
\* touches a VDOM its client does not talk to, nor another scope's rows, but
\* that the groups there lose the address row it deletes without protection.
THEOREM JobsAreIsolated == Spec => ScopeIsolation
<1>1. SyncInvariant /\ [Next]_vars =>
        [\A j \in Jobs, t \in Scopes :
            JobStep /\ todo'[j] # todo[j] =>
               /\ t # Device(j) => fgt'[t] = fgt[t]
               /\ t # req[j].scope =>
                     /\ \A a \in AddrNames : orm'[t][a] = orm[t][a]
                     /\ \A g \in GrpNames : orm'[t][g] = Without(orm[t][g], Ended(j))]_vars
  <2> SUFFICES ASSUME SyncInvariant, [Next]_vars, NEW j \in Jobs, NEW t \in Scopes,
                      JobStep, todo'[j] # todo[j]
               PROVE  /\ t # Device(j) => fgt'[t] = fgt[t]
                      /\ t # req[j].scope =>
                            /\ \A a \in AddrNames : orm'[t][a] = orm[t][a]
                            /\ \A g \in GrpNames : orm'[t][g] = Without(orm[t][g], Ended(j))
    OBVIOUS
  <2>1. CASE fgt' = fgt /\ orm' = orm /\ phase[j] # "syncing"
    <3>1. Ended(j) = {} /\ RowsTyped(orm[t])
      BY <2>1 DEF Ended, SyncInvariant, TypeOK, WorldTyped
    <3> QED
      BY <2>1, <3>1, WithoutNone
  <2> QED
    BY <2>1, NextHasEffect, WhoWrites, IsolatedCall
<1> QED
  BY <1>1, SyncInvariantHolds, PTL DEF Spec, ScopeIsolation
============================================================================
