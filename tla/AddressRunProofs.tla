-------------------------- MODULE AddressRunProofs --------------------------
(***************************************************************************)
(* What an undisturbed run of AddressSync achieves, for every set of       *)
(* scopes, names, values and jobs: RunsOnCourse is an invariant, and the   *)
(* properties of clean and of aborted runs follow from it.                 *)
(***************************************************************************)
EXTENDS AddressSyncProofs

----------------------------------------------------------------------------
(* Steps that are not the job's own.                                       *)

StepOf(k) ==
    Start(k) \/ Load(k) \/ ExecuteSync(k) \/ Pull(k) \/ Push(k) \/ Finish(k) \/ Crash(k)

\* What job k knows and has to do.
SameJob(k) ==
    /\ phase'[k] = phase[k] /\ req'[k] = req[k]
    /\ src'[k] = src[k] /\ dst'[k] = dst[k] /\ todo'[k] = todo[k]

\* Nobody else alters what a job knows; and if it still counts as undisturbed,
\* nobody else has altered a device or a row.
LEMMA OthersStep ==
    ASSUME SyncInvariant, [Next]_vars, NEW k \in Jobs, ~StepOf(k)
    PROVE  SameJob(k) /\ (k \notin touched' => k \notin touched /\ UNCHANGED worldVars)
<1> DEFINE Goal == SameJob(k) /\ (k \notin touched' => k \notin touched /\ UNCHANGED worldVars)
<1>0. /\ phase \in [Jobs -> Idle \cup Running] /\ req \in [Jobs -> Requests]
      /\ src = [j \in Jobs |-> src[j]] /\ dst = [j \in Jobs |-> dst[j]]
      /\ todo \in [Jobs -> [write : SUBSET Names, delete : SUBSET Names]]
  BY DEF SyncInvariant, TypeOK
<1>1. ASSUME NEW j \in Jobs, j # k, Start(j) PROVE Goal
  BY <1>0, <1>1 DEF Start, SameJob, worldVars
<1>2. ASSUME NEW j \in Jobs, j # k, Load(j) PROVE Goal
  BY <1>0, <1>2 DEF Load, LoadSourceAddresses, LoadSourceGroups,
                    LoadTargetAddresses, LoadTargetGroups, SameJob
<1>3. ASSUME NEW j \in Jobs, j # k, ExecuteSync(j) \/ Finish(j) \/ Crash(j) PROVE Goal
  BY <1>0, <1>3 DEF ExecuteSync, Finish, Crash, SameJob
<1>4. ASSUME NEW j \in Jobs, j # k, Pull(j) \/ Push(j) PROVE Goal
  <2>1. (\E n : Applied(j, n)) \/ Raised(j)
    BY <1>4, PullHasEffect, PushHasEffect, EffectOnJob
  <2>2. CASE \E n : Applied(j, n)
    BY <1>0, <1>4, <2>2 DEF Applied, SameJob
  <2>3. CASE Raised(j)
    BY <1>0, <1>4, <2>3 DEF Raised, SameJob
  <2> QED
    BY <2>1, <2>2, <2>3
<1>5. CASE Operators
  <2>1. UNCHANGED jobVars /\ touched' = Jobs
    BY <1>5, OperatorsLeaveJobs
       DEF Operators, DeviceAddressEdit, RowAddressEdit, DeviceGroupEdit, RowGroupEdit,
           DeviceDelete, RowDelete, Edited
  <2> QED
    BY <2>1 DEF jobVars, SameJob
<1>6. CASE UNCHANGED vars
  BY <1>6 DEF vars, worldVars, SameJob
<1> QED
  BY <1>1, <1>2, <1>3, <1>4, <1>5, <1>6 DEF Next, Work, StepOf

\* What a job expects of its target depends on what it knows and on the rows.
CourseOf(k) ==
    /\ PlanFollowsDiff(k) /\ SourceIsCurrent(k) /\ TargetIsCurrent(k)
    /\ PullIsOnCourse(k) /\ PushIsOnCourse(k)

LEMMA SamePlan ==
    ASSUME NEW k \in Jobs, SameJob(k), PlanFollowsDiff(k)
    PROVE  PlanFollowsDiff(k)'
BY DEF SameJob, PlanFollowsDiff, Writes, Deletes, AddressesDone, NoWork

LEMMA SameReads ==
    ASSUME NEW k \in Jobs, req'[k] = req[k], UNCHANGED worldVars
    PROVE  /\ Device(k)' = Device(k)
           /\ ReadFgt(Device(k))' = ReadFgt(Device(k))
           /\ ReadOrm(req[k].scope)' = ReadOrm(req[k].scope)
           /\ SourceRead(k)' = SourceRead(k) /\ TargetRead(k)' = TargetRead(k)
<1>1. Device(k)' = Device(k)
  BY DEF Device
<1>2. ReadFgt(Device(k))' = ReadFgt(Device(k))
  BY <1>1 DEF ReadFgt, Readable, worldVars
<1>3. ReadOrm(req[k].scope)' = ReadOrm(req[k].scope)
  BY DEF ReadOrm, worldVars
<1> QED
  BY <1>1, <1>2, <1>3 DEF SourceRead, TargetRead

LEMMA SameOutcome ==
    ASSUME NEW k \in Jobs, SameJob(k)
    PROVE  \A n \in Names : Outcome(k, n)' = Outcome(k, n)
BY DEF SameJob, Outcome, Pending

LEMMA SameCourse ==
    ASSUME NEW k \in Jobs, SameJob(k), CourseOf(k),
           k \notin touched' => k \notin touched /\ UNCHANGED worldVars
    PROVE  CourseOf(k)'
<1>1. PlanFollowsDiff(k)'
  BY SamePlan DEF CourseOf
<1>2. CASE k \in touched'
  BY <1>1, <1>2 DEF CourseOf, SourceIsCurrent, TargetIsCurrent, PullIsOnCourse, PushIsOnCourse
<1>3. CASE k \notin touched'
  <2> USE <1>3
  <2>0. /\ k \notin touched /\ UNCHANGED worldVars
        /\ phase'[k] = phase[k] /\ req'[k] = req[k]
        /\ src'[k] = src[k] /\ dst'[k] = dst[k]
    BY DEF SameJob
  <2>1. /\ Device(k)' = Device(k)
        /\ ReadFgt(Device(k))' = ReadFgt(Device(k))
        /\ ReadOrm(req[k].scope)' = ReadOrm(req[k].scope)
        /\ SourceRead(k)' = SourceRead(k) /\ TargetRead(k)' = TargetRead(k)
    BY <2>0, SameReads
  <2>2. \A n \in Names : Outcome(k, n)' = Outcome(k, n)
    BY SameOutcome
  <2>3. SourceIsCurrent(k)' /\ TargetIsCurrent(k)'
    BY <2>0, <2>1 DEF CourseOf, SourceIsCurrent, TargetIsCurrent, SourceNames, TargetNames
  <2>4. PullIsOnCourse(k)'
    <3>1. \A a \in AddrNames : PulledAddress(k, a)' = PulledAddress(k, a)
      BY <2>0, <2>2 DEF PulledAddress, Names
    <3>2. \A g \in GrpNames : PulledGroup(k, g)' = PulledGroup(k, g)
      BY <2>0, <2>2 DEF PulledGroup, worldVars, Names
    <3> QED
      BY <2>0, <2>1, <3>1, <3>2 DEF CourseOf, PullIsOnCourse
  <2>5. PushIsOnCourse(k)'
    BY <2>0, <2>1, <2>2 DEF CourseOf, PushIsOnCourse
  <2> QED
    BY <1>1, <2>3, <2>4, <2>5 DEF CourseOf
<1> QED
  BY <1>2, <1>3

----------------------------------------------------------------------------
(* The job's own steps, up to the diff.                                    *)

LEMMA StartCourse ==
    ASSUME SyncInvariant, NEW k \in Jobs, Start(k)
    PROVE  CourseOf(k)'
<1>1. phase'[k] = "source"
  BY DEF SyncInvariant, TypeOK, Start
<1> QED
  BY <1>1 DEF CourseOf, PlanFollowsDiff, SourceIsCurrent, TargetIsCurrent, PullIsOnCourse,
              PushIsOnCourse, Applying, SourceNames

\* A store of which half has been filled reads like what it was filled from.
LEMMA HalfReads ==
    ASSUME NEW half, NEW read, NEW store, NEW n \in Names
    PROVE  Half(half, read, store)[n] = IF n \in half THEN read[n] ELSE store[n]
BY DEF Half

LEMMA LoadCourse ==
    ASSUME SyncInvariant, NEW k \in Jobs, Load(k), CourseOf(k)
    PROVE  CourseOf(k)'
<1>0. /\ phase \in [Jobs -> Idle \cup Running]
      /\ src = [j \in Jobs |-> src[j]] /\ dst = [j \in Jobs |-> dst[j]]
      /\ AddrNames \subseteq Names /\ \A n \in Names : n \in AddrNames \/ n \in GrpNames
  BY DEF SyncInvariant, TypeOK, Names
<1>1. UNCHANGED worldVars /\ req' = req /\ touched' = touched
  BY DEF Load, LoadSourceAddresses, LoadSourceGroups, LoadTargetAddresses, LoadTargetGroups
<1>2. SourceRead(k)' = SourceRead(k) /\ TargetRead(k)' = TargetRead(k)
  BY <1>1, SameReads
<1>3. phase[k] \in Loading /\ phase'[k] \notin Applying \cup {"source", "idle", "crashed"}
  BY <1>0 DEF Load, LoadSourceAddresses, LoadSourceGroups, LoadTargetAddresses, LoadTargetGroups,
              Loading, Applying
<1>4. SourceIsCurrent(k)'
  <2> SUFFICES ASSUME k \notin touched, NEW n \in SourceNames(phase'[k])
               PROVE  src'[k][n] = SourceRead(k)[n]
    BY <1>1, <1>2 DEF SourceIsCurrent, SourceNames
  <2>1. n \in Names
    BY <1>0 DEF SourceNames
  <2>2. CASE LoadSourceAddresses(k)
    <3>1. src'[k] = Half(AddrNames, SourceRead(k), src[k]) /\ n \in AddrNames
      BY <1>0, <2>2 DEF LoadSourceAddresses, SourceNames
    <3> QED
      BY <2>1, <3>1, HalfReads
  <2>3. CASE LoadSourceGroups(k)
    <3>1. src'[k] = Half(GrpNames, SourceRead(k), src[k])
      BY <1>0, <2>3 DEF LoadSourceGroups
    <3>2. \A a \in AddrNames : src[k][a] = SourceRead(k)[a]
      BY <2>3 DEF CourseOf, SourceIsCurrent, SourceNames, LoadSourceGroups
    <3> QED
      BY <1>0, <2>1, <3>1, <3>2, HalfReads
  <2>4. CASE LoadTargetAddresses(k) \/ LoadTargetGroups(k)
    BY <2>1, <2>4 DEF LoadTargetAddresses, LoadTargetGroups, CourseOf, SourceIsCurrent, SourceNames
  <2> QED
    BY <2>2, <2>3, <2>4 DEF Load
<1>5. TargetIsCurrent(k)'
  <2> SUFFICES ASSUME k \notin touched, phase'[k] \in {"targetGroups", "loaded"},
                      NEW n \in TargetNames(phase'[k])
               PROVE  dst'[k][n] = TargetRead(k)[n]
    BY <1>1, <1>2 DEF TargetIsCurrent, TargetNames
  <2>1. n \in Names
    BY <1>0 DEF TargetNames
  <2>2. CASE LoadTargetAddresses(k)
    <3>1. dst'[k] = Half(AddrNames, TargetRead(k), dst[k]) /\ n \in AddrNames
      BY <1>0, <2>2 DEF LoadTargetAddresses, TargetNames
    <3> QED
      BY <2>1, <3>1, HalfReads
  <2>3. CASE LoadTargetGroups(k)
    <3>1. dst'[k] = Half(GrpNames, TargetRead(k), dst[k])
      BY <1>0, <2>3 DEF LoadTargetGroups
    <3>2. \A a \in AddrNames : dst[k][a] = TargetRead(k)[a]
      BY <2>3 DEF CourseOf, TargetIsCurrent, TargetNames, LoadTargetGroups
    <3> QED
      BY <1>0, <2>1, <3>1, <3>2, HalfReads
  <2>4. CASE LoadSourceAddresses(k) \/ LoadSourceGroups(k)
    BY <1>0, <2>4 DEF LoadSourceAddresses, LoadSourceGroups
  <2> QED
    BY <2>2, <2>3, <2>4 DEF Load
<1> QED
  BY <1>3, <1>4, <1>5 DEF CourseOf, PlanFollowsDiff, PullIsOnCourse, PushIsOnCourse

\* A group that the Nautobot adapter has loaded holds only members it has
\* loaded too.
LEMMA LoadedMembers ==
    ASSUME WorldTyped(fgt, orm), MembersHaveRows(orm), NEW s \in Scopes,
           NEW g \in GrpNames, ReadOrm(s)[g] # Absent
    PROVE  /\ orm[s][g] # Absent
           /\ \A m \in ReadOrm(s)[g].members : m \in AddrNames /\ orm[s][m] # Absent
<1>1. g \in Names /\ g \notin AddrNames
  BY ConstantsAssumption DEF Names
<1>2. orm[s][g] # Absent
  BY <1>1 DEF ReadOrm
<1>3. ReadOrm(s)[g].members = {a \in AddrNames : <<s, a>> \in orm[s][g].members}
  BY <1>1, <1>2 DEF ReadOrm
<1> QED
  BY <1>2, <1>3 DEF MembersHaveRows

\* The rows that the Nautobot adapter loads, and those it does not.
LEMMA ReadOrmAbsent ==
    ASSUME WorldTyped(fgt, orm), NEW s \in Scopes, NEW n \in Names
    PROVE  (ReadOrm(s)[n] = Absent) <=> (orm[s][n] = Absent)
<1>1. LoadedTyped(ReadOrm(s)) /\ RowsTyped(orm[s])
  BY ReadOrmTyped DEF WorldTyped
<1>2. CASE orm[s][n] = Absent
  BY <1>2 DEF ReadOrm
<1>3. CASE orm[s][n] # Absent /\ n \in AddrNames
  <2>1. ReadOrm(s)[n] = [value |-> orm[s][n].value, comment |-> Strip(n, orm[s][n].description)]
    BY <1>3 DEF ReadOrm
  <2>2. orm[s][n] \in OrmAddr(n)
    BY <1>1, <1>3 DEF RowsTyped
  <2>3. ReadOrm(s)[n] \in LoadedAddr
    BY <2>1, <2>2, StripTyped DEF OrmAddr, LoadedAddr
  <2> QED
    BY <1>3, <2>3, AbsentAssumption
<1>4. CASE orm[s][n] # Absent /\ n \notin AddrNames
  <2>1. ReadOrm(s)[n] = [members |-> {a \in AddrNames : <<s, a>> \in orm[s][n].members},
                         comment |-> Strip(n, orm[s][n].description)]
    BY <1>4 DEF ReadOrm
  <2>2. orm[s][n] \in OrmGrp(n)
    BY <1>1, <1>4 DEF RowsTyped, Names
  <2>3. ReadOrm(s)[n] \in GrpRec
    BY <2>1, <2>2, StripTyped DEF OrmGrp, GrpRec, Names
  <2> QED
    BY <1>4, <2>3, AbsentAssumption
<1> QED
  BY <1>2, <1>3, <1>4

\* What a device holds has arrived already, and what arrives is a record.
LEMMA ArrivedStays ==
    ASSUME WorldTyped(fgt, orm), NEW d \in Scopes, NEW n \in Names
    PROVE  Arrived(n, ReadFgt(d)[n]) = ReadFgt(d)[n]
<1>1. CASE n \in AddrNames /\ ReadFgt(d)[n] # Absent
  <2>1. fgt[d][n] \in AddrRec /\ fgt[d][n].value # Unsupported /\ ReadFgt(d)[n] = ReadAddress(fgt[d][n])
    BY <1>1, ConstantsAssumption DEF WorldTyped, DeviceTyped, ReadFgt, Readable
  <2>2. /\ ReadFgt(d)[n].value \in DeviceValues
        /\ ReadFgt(d)[n] = [value |-> ReadFgt(d)[n].value, comment |-> ReadFgt(d)[n].comment]
    BY <2>1, ConstantsAssumption DEF AddrRec, ReadAddress, AddressValue
  <2>3. Stored[ReadFgt(d)[n].value] = ReadFgt(d)[n].value
    BY <2>2 DEF DeviceValues
  <2> QED
    BY <1>1, <2>2, <2>3 DEF Arrived
<1>2. CASE n \notin AddrNames \/ ReadFgt(d)[n] = Absent
  BY <1>2 DEF Arrived
<1> QED
  BY <1>1, <1>2

LEMMA ArrivedAbsent ==
    ASSUME NEW n \in Names, NEW f, LoadedTyped(f)
    PROVE  (Arrived(n, f[n]) = Absent) <=> (f[n] = Absent)
<1>1. CASE n \in AddrNames /\ f[n] # Absent
  <2>1. f[n] \in [value : Values, comment : Text] /\ Stored[f[n].value] \in Values \cup {Unsendable}
    BY <1>1, ConstantsAssumption DEF LoadedTyped, DeviceValues
  <2>2. Arrived(n, f[n]) \in LoadedAddr
    BY <1>1, <2>1 DEF Arrived, LoadedAddr
  <2> QED
    BY <1>1, <2>2, AbsentAssumption
<1>2. CASE n \notin AddrNames \/ f[n] = Absent
  BY <1>2 DEF Arrived
<1> QED
  BY <1>1, <1>2

\* Where nothing of the plan has been done yet.
LEMMA ExecuteSyncCourse ==
    ASSUME SyncInvariant, NEW k \in Jobs, ExecuteSync(k), CourseOf(k)
    PROVE  CourseOf(k)'
<1> DEFINE s == req[k].scope
<1>0. /\ phase \in [Jobs -> Idle \cup Running]
      /\ todo \in [Jobs -> [write : SUBSET Names, delete : SUBSET Names]]
      /\ LoadedTyped(dst[k]) /\ LoadedTyped(src[k])
      /\ WorldTyped(fgt, orm) /\ MembersHaveRows(orm) /\ s \in Scopes
      /\ AddrNames \subseteq Names /\ GrpNames \subseteq Names
  BY DEF SyncInvariant, TypeOK, Names, Requests
<1>1. /\ UNCHANGED worldVars /\ req' = req /\ touched' = touched /\ src' = src /\ dst' = dst
      /\ phase[k] = "loaded" /\ phase'[k] = "syncing"
      /\ todo'[k] = [write |-> Writes(src[k], dst[k]),
                     delete |-> IF req[k].delete THEN Deletes(src[k], dst[k]) ELSE {}]
  BY <1>0 DEF ExecuteSync
<1>2. /\ SourceRead(k)' = SourceRead(k) /\ TargetRead(k)' = TargetRead(k)
      /\ ReadOrm(s)' = ReadOrm(s) /\ Device(k)' = Device(k)
      /\ ReadFgt(Device(k))' = ReadFgt(Device(k))
  BY <1>1, SameReads
<1>3. PlanFollowsDiff(k)'
  BY <1>1 DEF PlanFollowsDiff, Writes, Deletes
<1>4. SourceIsCurrent(k)'
  BY <1>1, <1>2 DEF CourseOf, SourceIsCurrent, SourceNames
<1>5. TargetIsCurrent(k)'
  BY <1>1 DEF TargetIsCurrent
<1>6. \A n \in Names : Outcome(k, n)' = dst[k][n]
  BY <1>1 DEF Outcome, Pending, Writes, Deletes
<1>7. ASSUME k \notin touched, NEW n \in Names PROVE dst[k][n] = TargetRead(k)[n]
  BY <1>1, <1>7 DEF CourseOf, TargetIsCurrent, TargetNames
<1>8. PushIsOnCourse(k)'
  <2> SUFFICES ASSUME k \notin touched, req[k].kind = "push", NEW n \in Names
               PROVE  ReadFgt(Device(k))'[n] = Arrived(n, Outcome(k, n)')
    BY <1>1, <1>2 DEF PushIsOnCourse, Arrived
  <2>1. Device(k) \in Scopes
    BY DeviceInScopes DEF SyncInvariant, TypeOK
  <2>2. dst[k][n] = ReadFgt(Device(k))[n]
    BY <1>7 DEF TargetRead
  <2> QED
    BY <1>0, <1>2, <1>6, <2>1, <2>2, ArrivedStays
<1>9. PullIsOnCourse(k)'
  <2> SUFFICES ASSUME k \notin touched, req[k].kind = "pull"
               PROVE  /\ \A a \in AddrNames : ReadOrm(s)[a] = PulledAddress(k, a)'
                      /\ \A g \in GrpNames : ReadOrm(s)[g] = PulledGroup(k, g)'
                      /\ \A g \in GrpNames : dst[k][g] # Absent =>
                            \A m \in dst[k][g].members : m \in AddrNames /\ dst[k][m] # Absent
    BY <1>1, <1>2 DEF PullIsOnCourse
  <2>1. \A n \in Names : dst[k][n] = ReadOrm(s)[n]
    BY <1>7 DEF TargetRead
  <2>2. ASSUME NEW a \in AddrNames PROVE ReadOrm(s)[a] = PulledAddress(k, a)'
    <3>1. dst[k][a] = Absent \/ dst[k][a] = [value |-> dst[k][a].value, comment |-> dst[k][a].comment]
      BY <1>0 DEF LoadedTyped
    <3> QED
      BY <1>0, <1>1, <1>6, <2>1, <3>1 DEF PulledAddress
  <2>3. ASSUME NEW g \in GrpNames, dst[k][g] # Absent
        PROVE  \A m \in dst[k][g].members : m \in AddrNames /\ orm[s][m] # Absent
    BY <1>0, <2>1, <2>3, LoadedMembers
  <2>4. ASSUME NEW g \in GrpNames PROVE ReadOrm(s)[g] = PulledGroup(k, g)'
    <3>1. CASE dst[k][g] = Absent
      BY <1>0, <1>6, <2>1, <3>1 DEF PulledGroup
    <3>2. CASE dst[k][g] # Absent
      <4>1. dst[k][g] = [members |-> dst[k][g].members, comment |-> dst[k][g].comment]
        BY <1>0, <3>2 DEF LoadedTyped, GrpRec
      <4>2. dst[k][g].members = {a \in dst[k][g].members \cap AddrNames : orm[s][a] # Absent}
        BY <2>3, <3>2
      <4>3. PulledGroup(k, g)' = [members |-> {a \in dst[k][g].members \cap AddrNames : orm[s][a] # Absent},
                                  comment |-> dst[k][g].comment]
        BY <1>0, <1>1, <1>6, <3>2 DEF PulledGroup, worldVars
      <4> QED
        BY <1>0, <2>1, <4>1, <4>2, <4>3
    <3> QED
      BY <3>1, <3>2
  <2> QED
    BY <1>0, <2>1, <2>2, <2>3, <2>4, ReadOrmAbsent
<1> QED
  BY <1>3, <1>4, <1>5, <1>8, <1>9 DEF CourseOf

LEMMA EndCourse ==
    ASSUME SyncInvariant, NEW k \in Jobs, CourseOf(k), Finish(k) \/ Crash(k) \/ Raised(k),
           Raised(k) => phase[k] = "syncing"
    PROVE  CourseOf(k)'
<1>1. /\ UNCHANGED worldVars /\ UNCHANGED <<req, src, dst, todo, touched>>
      /\ phase'[k] = "crashed" \/ (phase[k] = "syncing" /\ phase'[k] \in {"done", "failed"})
  BY DEF SyncInvariant, TypeOK, Finish, Crash, Raised
<1>2. CASE phase'[k] = "crashed"
  BY <1>2 DEF CourseOf, PlanFollowsDiff, SourceIsCurrent, TargetIsCurrent, PullIsOnCourse,
              PushIsOnCourse, Applying
<1>3. CASE phase[k] = "syncing" /\ phase'[k] \in {"done", "failed"}
  <2>1. /\ Device(k)' = Device(k)
        /\ ReadFgt(Device(k))' = ReadFgt(Device(k))
        /\ ReadOrm(req[k].scope)' = ReadOrm(req[k].scope)
        /\ SourceRead(k)' = SourceRead(k)
    BY <1>1, SameReads
  <2>2. \A n \in Names : Outcome(k, n)' = Outcome(k, n)
    BY <1>1 DEF Outcome, Pending
  <2>3. PlanFollowsDiff(k)'
    <3>1. phase'[k] = "done" => todo[k] = NoWork
      BY <1>1, <1>3 DEF Finish, Crash, Raised, SyncInvariant, TypeOK
    <3> QED
      BY <1>1, <1>3, <3>1 DEF CourseOf, PlanFollowsDiff, Applying, Writes, Deletes, AddressesDone
  <2>4. SourceIsCurrent(k)' /\ TargetIsCurrent(k)'
    BY <1>1, <1>3, <2>1 DEF CourseOf, SourceIsCurrent, TargetIsCurrent, SourceNames
  <2>5. PullIsOnCourse(k)'
    <3>1. /\ \A a \in AddrNames : PulledAddress(k, a)' = PulledAddress(k, a)
          /\ \A g \in GrpNames : PulledGroup(k, g)' = PulledGroup(k, g)
      BY <1>1, <2>2 DEF PulledAddress, PulledGroup, worldVars, Names
    <3> QED
      BY <1>1, <1>3, <2>1, <3>1 DEF CourseOf, PullIsOnCourse, Applying
  <2>6. PushIsOnCourse(k)'
    BY <1>1, <1>3, <2>1, <2>2 DEF CourseOf, PushIsOnCourse, Applying
  <2> QED
    BY <2>3, <2>4, <2>5, <2>6 DEF CourseOf
<1> QED
  BY <1>1, <1>2, <1>3

----------------------------------------------------------------------------
(* A CRUD call takes one element off the plan.                             *)

LEMMA AppliedPlan ==
    ASSUME SyncInvariant, NEW k \in Jobs, CourseOf(k), phase[k] = "syncing",
           NEW n \in Pending(k), n \in GrpNames => AddressesDone(k), Applied(k, n)
    PROVE  PlanFollowsDiff(k)'
<1>1. /\ todo'[k] = [write |-> todo[k].write \ {n}, delete |-> todo[k].delete \ {n}]
      /\ UNCHANGED <<phase, src, dst>> /\ n \in Names
  BY DEF Applied, SyncInvariant, TypeOK, Pending
<1>2. /\ todo[k].write \subseteq Writes(src[k], dst[k])
      /\ todo[k].delete \subseteq Deletes(src[k], dst[k])
      /\ AddressesDone(k) \/ Writes(src[k], dst[k]) \cap GrpNames \subseteq todo[k].write
  BY DEF CourseOf, PlanFollowsDiff, Applying
<1>3. /\ Writes(src[k], dst[k])' = Writes(src[k], dst[k])
      /\ Deletes(src[k], dst[k])' = Deletes(src[k], dst[k])
  BY <1>1 DEF Writes, Deletes
<1>4. AddressesDone(k)' \/ Writes(src[k], dst[k]) \cap GrpNames \subseteq todo'[k].write
  BY <1>1, <1>2 DEF AddressesDone
<1> QED
  BY <1>1, <1>2, <1>3, <1>4 DEF PlanFollowsDiff

\* The name worked off has its outcome now, the others keep theirs.
LEMMA AppliedOutcome ==
    ASSUME SyncInvariant, NEW k \in Jobs, CourseOf(k), phase[k] = "syncing",
           NEW n \in Pending(k), Applied(k, n)
    PROVE  /\ n \in Names
           /\ Outcome(k, n) = dst[k][n]
           /\ n \in todo[k].write => src[k][n] # Absent /\ Outcome(k, n)' = src[k][n]
           /\ n \in todo[k].delete =>
                 src[k][n] = Absent /\ dst[k][n] # Absent /\ req[k].delete /\ Outcome(k, n)' = Absent
           /\ \A m \in Names : m # n => Outcome(k, m)' = Outcome(k, m)
<1>1. /\ todo'[k] = [write |-> todo[k].write \ {n}, delete |-> todo[k].delete \ {n}]
      /\ UNCHANGED <<src, dst, req>> /\ n \in Names
  BY DEF Applied, SyncInvariant, TypeOK, Pending
<1>2. /\ todo[k].write \subseteq Writes(src[k], dst[k])
      /\ todo[k].delete \subseteq Deletes(src[k], dst[k])
      /\ todo[k].delete # {} => req[k].delete
  BY DEF CourseOf, PlanFollowsDiff, Applying, SyncInvariant, DeletesOnRequest
<1> QED
  BY <1>1, <1>2 DEF Outcome, Pending, Writes, Deletes

----------------------------------------------------------------------------
(* Pushing.                                                                *)

\* One call of a push: a record of the source is created or updated, or one
\* that only the target has is deleted; groups come after the addresses.
PushCall(k, n) ==
    /\ phase[k] = "syncing" /\ req[k].kind = "push"
    /\ n \in GrpNames => AddressesDone(k)
    /\ \/ /\ n \in todo[k].write /\ dst[k][n] = Absent
          /\ Call(k, n, AcceptsCreate(Device(k), n, src[k][n]), src[k][n])
       \/ /\ n \in todo[k].write /\ dst[k][n] # Absent
          /\ Call(k, n, AcceptsUpdate(Device(k), n, src[k][n]), src[k][n])
       \/ /\ n \in todo[k].delete
          /\ Call(k, n, AcceptsDelete(Device(k), n), Absent)

LEMMA PushIsACall ==
    ASSUME NEW k \in Jobs, Push(k)
    PROVE  \E n \in Names : PushCall(k, n)
BY DEF Push, PushAddressCreate, PushAddressUpdate, PushAddressDelete,
       PushGroupCreate, PushGroupUpdate, PushGroupDelete, Turn, PushCall, Names

\* What arrives at a device is read back as it arrived.
LEMMA SentReadsBack ==
    ASSUME WorldTyped(fgt, orm), NEW d \in Scopes, NEW n \in Names, NEW r,
           n \in AddrNames => r \in [value : Values, comment : Text] \cup {Absent},
           PutDevice(d, n, r)
    PROVE  \A m \in Names : ReadFgt(d)'[m] = IF m = n THEN r ELSE ReadFgt(d)[m]
<1> SUFFICES ASSUME NEW m \in Names
             PROVE  ReadFgt(d)'[m] = IF m = n THEN r ELSE ReadFgt(d)[m]
  OBVIOUS
<1>1. fgt'[d][m] = IF m = n THEN r ELSE fgt[d][m]
  BY PutDeviceReads
<1>2. CASE m # n
  BY <1>1, <1>2 DEF ReadFgt, Readable
<1>3. CASE m = n /\ n \in GrpNames
  BY <1>1, <1>3 DEF ReadFgt
<1>4. CASE m = n /\ n \notin GrpNames /\ r = Absent
  BY <1>1, <1>4 DEF ReadFgt, Readable
<1>5. CASE m = n /\ n \notin GrpNames /\ r # Absent
  <2>1. r \in [value : Values, comment : Text]
    BY <1>5 DEF Names
  <2>2. r.value # Unsupported /\ r.value \notin Opaque /\ r = [value |-> r.value, comment |-> r.comment]
    BY <2>1, ConstantsAssumption
  <2>3. ReadAddress(r) = r
    BY <2>2 DEF ReadAddress, AddressValue, Description
  <2> QED
    BY <1>1, <1>5, <2>2, <2>3 DEF ReadFgt, Readable
<1> QED
  BY <1>2, <1>3, <1>4, <1>5

LEMMA PushCourse ==
    ASSUME SyncInvariant, NEW k \in Jobs, CourseOf(k), Push(k)
    PROVE  CourseOf(k)'
<1>1. PICK n \in Names : PushCall(k, n)
  BY PushIsACall
<1>2. CASE Raised(k)
  BY <1>1, <1>2, EndCourse DEF PushCall
<1>3. CASE ~Raised(k)
  <2> DEFINE r == IF n \in todo[k].write THEN Arrived(n, src[k][n]) ELSE Absent
  <2>1. /\ phase[k] = "syncing" /\ req[k].kind = "push" /\ n \in Pending(k)
        /\ n \in GrpNames => AddressesDone(k)
        /\ Applied(k, n)
    BY <1>1, <1>3 DEF PushCall, Call, Pending
  <2>2. /\ n \in todo[k].write => src[k][n] # Absent /\ Outcome(k, n)' = src[k][n]
        /\ n \in todo[k].delete => src[k][n] = Absent /\ Outcome(k, n)' = Absent
        /\ \A m \in Names : m # n => Outcome(k, m)' = Outcome(k, m)
    BY <2>1, AppliedOutcome
  <2>3. PutDevice(Device(k), n, r)
    BY <1>1, <1>3, <2>2 DEF PushCall, Call, Arrived
  <2>4. /\ WorldTyped(fgt, orm) /\ Device(k) \in Scopes
        /\ n \in AddrNames => r \in [value : Values, comment : Text] \cup {Absent}
    <3>1. CASE n \in AddrNames /\ n \in todo[k].write
      <4>1. src[k][n] \in [value : Values, comment : Text]
        BY <2>1, <3>1, SourceRecordTyped
      <4>2. Sendable(n, src[k][n])
        BY <1>1, <1>3, <2>2, <3>1 DEF PushCall, Call, AcceptsCreate, AcceptsUpdate
      <4>3. Stored[src[k][n].value] \in Values
        BY <3>1, <4>1, <4>2, ConstantsAssumption DEF Sendable, DeviceValues
      <4> QED
        BY <3>1, <4>1, <4>3, DeviceInScopes DEF SyncInvariant, TypeOK, Arrived
    <3> QED
      BY <3>1, DeviceInScopes DEF SyncInvariant, TypeOK
  <2>5. Arrived(n, Outcome(k, n)') = r
    BY <2>1, <2>2 DEF Pending, Arrived
  <2> HIDE DEF r
  <2>6. \A m \in Names : ReadFgt(Device(k))'[m] = IF m = n THEN r ELSE ReadFgt(Device(k))[m]
    <3>1. PICK d \in Scopes : d = Device(k)
      BY <2>4
    <3>2. Device(k)' = d
      BY <2>1, <3>1 DEF Applied, Device
    <3>3. \A m \in Names : ReadFgt(d)'[m] = IF m = n THEN r ELSE ReadFgt(d)[m]
      BY <2>3, <2>4, <3>1, SentReadsBack
    <3>4. ReadFgt(Device(k))' = ReadFgt(d)'
      BY <3>2 DEF ReadFgt, Readable
    <3> QED
      BY <3>1, <3>3, <3>4
  <2>7. UNCHANGED <<phase, req, src, dst, orm>> /\ (k \notin touched' => k \notin touched)
    BY <2>1, <2>3 DEF Applied, PutDevice
  <2>8. PlanFollowsDiff(k)'
    BY <2>1, AppliedPlan
  <2>9. SourceIsCurrent(k)'
    <3>1. ReadOrm(req[k].scope)' = ReadOrm(req[k].scope)
      BY <2>7 DEF ReadOrm
    <3> QED
      BY <2>1, <2>7, <3>1 DEF CourseOf, SourceIsCurrent, SourceRead
  <2>10. PushIsOnCourse(k)'
    <3> SUFFICES ASSUME k \notin touched', NEW m \in Names
                 PROVE  ReadFgt(Device(k))'[m] = Arrived(m, Outcome(k, m)')
      BY DEF PushIsOnCourse, Arrived
    <3>1. ReadFgt(Device(k))[m] = Arrived(m, Outcome(k, m))
      BY <2>1, <2>7 DEF CourseOf, PushIsOnCourse, Applying
    <3> QED
      BY <2>2, <2>5, <2>6, <3>1
  <2> QED
    BY <2>1, <2>7, <2>8, <2>9, <2>10 DEF CourseOf, TargetIsCurrent, PullIsOnCourse
<1> QED
  BY <1>2, <1>3

----------------------------------------------------------------------------
(* Pulling: how the adapter reads the rows after one was written.          *)

LEMMA PutRowReadsBack ==
    ASSUME WorldTyped(fgt, orm), NEW s \in Scopes, NEW n \in Names, NEW r, PutRow(s, n, r)
    PROVE  /\ \A m \in Names : m # n => ReadOrm(s)'[m] = ReadOrm(s)[m]
           /\ r = Absent => ReadOrm(s)'[n] = Absent
           /\ r # Absent /\ n \in AddrNames =>
                 ReadOrm(s)'[n] = [value |-> r.value, comment |-> Strip(n, r.description)]
           /\ r # Absent /\ n \in GrpNames =>
                 ReadOrm(s)'[n] = [members |-> {a \in AddrNames : <<s, a>> \in r.members},
                                   comment |-> Strip(n, r.description)]
           /\ \A m \in Names : m # n => orm'[s][m] = orm[s][m]
           /\ orm'[s][n] = r
<1>1. \A m \in Names : orm'[s][m] = IF m = n THEN r ELSE orm[s][m]
  BY PutRowReads
<1>2. n \in GrpNames => n \notin AddrNames
  BY ConstantsAssumption
<1> QED
  BY <1>1, <1>2 DEF ReadOrm

\* An address row that goes takes itself out of the groups that held it.
LEMMA WithoutRowReadsBack ==
    ASSUME WorldTyped(fgt, orm), NEW s \in Scopes, NEW n \in AddrNames, orm' = WithoutRow(s, n)
    PROVE  /\ ReadOrm(s)'[n] = Absent /\ orm'[s][n] = Absent
           /\ \A a \in AddrNames : a # n => ReadOrm(s)'[a] = ReadOrm(s)[a] /\ orm'[s][a] = orm[s][a]
           /\ \A g \in GrpNames :
                 /\ ReadOrm(s)[g] = Absent => ReadOrm(s)'[g] = Absent
                 /\ ReadOrm(s)[g] # Absent =>
                       ReadOrm(s)'[g] = [members |-> ReadOrm(s)[g].members \ {n},
                                         comment |-> ReadOrm(s)[g].comment]
<1>0. RowsTyped(orm[s]) /\ n \in Names /\ n \notin GrpNames
  BY ConstantsAssumption DEF WorldTyped, Names
<1>1. \A m \in Names : orm'[s][m] =
         IF m = n THEN Absent
         ELSE IF m \in GrpNames /\ orm[s][m] # Absent
         THEN [orm[s][m] EXCEPT !.members = @ \ {<<s, n>>}]
         ELSE orm[s][m]
  BY DEF WithoutRow
<1>2. ReadOrm(s)'[n] = Absent /\ orm'[s][n] = Absent
  BY <1>0, <1>1 DEF ReadOrm
<1>3. ASSUME NEW a \in AddrNames, a # n
      PROVE  ReadOrm(s)'[a] = ReadOrm(s)[a] /\ orm'[s][a] = orm[s][a]
  <2>1. a \in Names /\ a \notin GrpNames
    BY ConstantsAssumption DEF Names
  <2> QED
    BY <1>1, <1>3, <2>1 DEF ReadOrm
<1>4. ASSUME NEW g \in GrpNames
      PROVE  /\ ReadOrm(s)[g] = Absent => ReadOrm(s)'[g] = Absent
             /\ ReadOrm(s)[g] # Absent =>
                   ReadOrm(s)'[g] = [members |-> ReadOrm(s)[g].members \ {n},
                                     comment |-> ReadOrm(s)[g].comment]
  <2>1. g \in Names /\ g \notin AddrNames /\ g # n
    BY <1>0, ConstantsAssumption DEF Names
  <2>2. CASE orm[s][g] = Absent
    BY <1>1, <2>1, <2>2 DEF ReadOrm
  <2>3. CASE orm[s][g] # Absent
    <3>1. orm[s][g] \in OrmGrp(g)
      BY <1>0, <2>3 DEF RowsTyped
    <3>2. orm'[s][g] = [members |-> orm[s][g].members \ {<<s, n>>}, description |-> orm[s][g].description]
      BY <1>1, <2>1, <2>3, <3>1 DEF OrmGrp
    <3>3. orm'[s][g] \in OrmGrp(g)
      BY <3>1, <3>2 DEF OrmGrp
    <3>4. orm'[s][g] # Absent
      BY <2>1, <3>3, AbsentAssumption
    <3>5. ReadOrm(s)'[g] = [members |-> {a \in AddrNames : <<s, a>> \in orm'[s][g].members},
                            comment |-> Strip(g, orm'[s][g].description)]
      BY <2>1, <3>4 DEF ReadOrm
    <3>6. ReadOrm(s)[g] = [members |-> {a \in AddrNames : <<s, a>> \in orm[s][g].members},
                           comment |-> Strip(g, orm[s][g].description)]
      BY <2>1, <2>3 DEF ReadOrm
    <3>7. /\ {a \in AddrNames : <<s, a>> \in orm'[s][g].members} = ReadOrm(s)[g].members \ {n}
          /\ Strip(g, orm'[s][g].description) = ReadOrm(s)[g].comment
      BY <3>2, <3>6
    <3>8. ReadOrm(s)[g] # Absent
      BY <2>1, <2>3, ReadOrmAbsent
    <3> QED
      BY <3>5, <3>7, <3>8
  <2> QED
    BY <2>2, <2>3
<1> QED
  BY <1>2, <1>3, <1>4

\* While addresses are being worked off, a group of the target still is what
\* was loaded, and has no member but addresses that were loaded with it.
LEMMA GroupsWait ==
    ASSUME SyncInvariant, NEW k \in Jobs, CourseOf(k), phase[k] = "syncing",
           k \notin touched, req[k].kind = "pull",
           NEW n \in Pending(k) \cap AddrNames, NEW g \in GrpNames, Outcome(k, g) # Absent
    PROVE  /\ Outcome(k, g) = dst[k][g] /\ dst[k][g] # Absent
           /\ \A m \in Outcome(k, g).members : m \in AddrNames /\ dst[k][m] # Absent
<1>1. Writes(src[k], dst[k]) \cap GrpNames \subseteq todo[k].write /\ g \in Names
  BY DEF CourseOf, PlanFollowsDiff, Applying, AddressesDone, Pending, Names
<1>2. Outcome(k, g) = dst[k][g]
  BY <1>1 DEF Outcome, Pending, Writes
<1> QED
  BY <1>2 DEF CourseOf, PullIsOnCourse, Applying

----------------------------------------------------------------------------
(* Pulling: a row is written, or deleted.                                  *)

\* A pull wrote row n (or deleted group n) as the plan has it.
LEMMA PutRowCourse ==
    ASSUME SyncInvariant, NEW k \in Jobs, CourseOf(k), phase[k] = "syncing",
           k \notin touched, req[k].kind = "pull", NEW s \in Scopes, s = req[k].scope,
           NEW n \in Pending(k), n \in GrpNames => AddressesDone(k), Applied(k, n),
           NEW r, PutRow(s, n, r),
           n \in AddrNames =>
              /\ n \in todo[k].write /\ r # Absent
              /\ r.value = IF dst[k][n] = Absent THEN src[k][n].value ELSE dst[k][n].value
              /\ Strip(n, r.description) = src[k][n].comment,
           n \in GrpNames /\ n \in todo[k].write =>
              /\ r # Absent
              /\ {a \in AddrNames : <<s, a>> \in r.members}
                   = {a \in src[k][n].members \cap AddrNames : orm[s][a] # Absent}
              /\ Strip(n, r.description) = src[k][n].comment,
           n \in GrpNames /\ n \notin todo[k].write => r = Absent
    PROVE  PullIsOnCourse(k)'
<1>0. /\ WorldTyped(fgt, orm) /\ n \in Names
      /\ \A a \in AddrNames : a \in Names /\ a \notin GrpNames
      /\ \A g \in GrpNames : g \in Names /\ g \notin AddrNames
      /\ n \in AddrNames \/ n \in GrpNames
  BY ConstantsAssumption DEF SyncInvariant, TypeOK, Names, Pending
<1>1. /\ n \in todo[k].write => src[k][n] # Absent /\ Outcome(k, n)' = src[k][n]
      /\ n \in todo[k].delete => Outcome(k, n)' = Absent
      /\ n \in todo[k].write \/ n \in todo[k].delete
      /\ Outcome(k, n) = dst[k][n]
      /\ \A m \in Names : m # n => Outcome(k, m)' = Outcome(k, m)
  BY AppliedOutcome DEF Pending
<1>2. UNCHANGED <<phase, req, src, dst>>
  BY DEF Applied
<1>3. /\ \A m \in Names : m # n => ReadOrm(s)'[m] = ReadOrm(s)[m]
      /\ r = Absent => ReadOrm(s)'[n] = Absent
      /\ r # Absent /\ n \in AddrNames =>
            ReadOrm(s)'[n] = [value |-> r.value, comment |-> Strip(n, r.description)]
      /\ r # Absent /\ n \in GrpNames =>
            ReadOrm(s)'[n] = [members |-> {a \in AddrNames : <<s, a>> \in r.members},
                              comment |-> Strip(n, r.description)]
      /\ \A m \in Names : m # n => orm'[s][m] = orm[s][m]
      /\ orm'[s][n] = r
  BY <1>0, PutRowReadsBack
<1>4. /\ \A a \in AddrNames : ReadOrm(s)[a] = PulledAddress(k, a)
      /\ \A g \in GrpNames : ReadOrm(s)[g] = PulledGroup(k, g)
      /\ \A g \in GrpNames : dst[k][g] # Absent =>
            \A m \in dst[k][g].members : m \in AddrNames /\ dst[k][m] # Absent
  BY DEF CourseOf, PullIsOnCourse, Applying
<1>5. ASSUME NEW a \in AddrNames PROVE ReadOrm(s)'[a] = PulledAddress(k, a)'
  <2>1. CASE a # n
    BY <1>0, <1>1, <1>2, <1>3, <1>4, <2>1 DEF PulledAddress
  <2>2. CASE a = n
    BY <1>0, <1>1, <1>2, <1>3, <2>2 DEF PulledAddress
  <2> QED
    BY <2>1, <2>2
<1>6. ASSUME NEW g \in GrpNames PROVE ReadOrm(s)'[g] = PulledGroup(k, g)'
  <2>1. CASE g = n
    <3>1. \A a \in AddrNames : orm'[s][a] = orm[s][a]
      BY <1>0, <1>3, <2>1
    <3>2. CASE n \in todo[k].write
      <4>1. {a \in AddrNames : <<s, a>> \in r.members}
            = {a \in src[k][n].members \cap AddrNames : orm'[s][a] # Absent}
        BY <2>1, <3>1, <3>2
      <4>2. PulledGroup(k, n)' = [members |-> {a \in src[k][n].members \cap AddrNames : orm'[s][a] # Absent},
                                  comment |-> src[k][n].comment]
        BY <1>1, <1>2, <3>2 DEF PulledGroup
      <4> QED
        BY <1>3, <2>1, <3>2, <4>1, <4>2
    <3>3. CASE n \notin todo[k].write
      BY <1>0, <1>1, <1>2, <1>3, <2>1, <3>3 DEF PulledGroup
    <3> QED
      BY <3>2, <3>3
  <2>2. CASE g # n
    <3>1. ReadOrm(s)'[g] = PulledGroup(k, g) /\ Outcome(k, g)' = Outcome(k, g)
      BY <1>0, <1>1, <1>3, <1>4, <2>2
    <3>2. CASE Outcome(k, g) = Absent
      BY <3>1, <3>2 DEF PulledGroup
    <3>3. CASE Outcome(k, g) # Absent
      <4>1. \A a \in Outcome(k, g).members \cap AddrNames : orm'[s][a] # Absent <=> orm[s][a] # Absent
        <5>1. CASE n \in GrpNames
          BY <1>0, <1>3, <5>1
        <5>2. CASE n \in AddrNames
          <6>1. n \in Outcome(k, g).members => dst[k][n] # Absent
            BY <3>3, <5>2, GroupsWait
          <6>2. dst[k][n] # Absent => orm[s][n] # Absent
            <7>1. (ReadOrm(s)[n] = Absent) <=> (orm[s][n] = Absent)
              BY <1>0, ReadOrmAbsent
            <7>2. dst[k][n] # Absent => ReadOrm(s)[n] = [value |-> dst[k][n].value, comment |-> dst[k][n].comment]
              BY <1>1, <1>4, <5>2 DEF PulledAddress
            <7>3. LoadedTyped(dst[k])
              BY DEF SyncInvariant, TypeOK
            <7>4. dst[k][n] # Absent => dst[k][n] = [value |-> dst[k][n].value, comment |-> dst[k][n].comment]
              BY <5>2, <7>3 DEF LoadedTyped
            <7> QED
              BY <7>1, <7>2, <7>4
          <6> QED
            BY <1>0, <1>3, <5>2, <6>1, <6>2
        <5> QED
          BY <1>0, <5>1, <5>2
      <4>2. {a \in Outcome(k, g).members \cap AddrNames : orm'[s][a] # Absent}
            = {a \in Outcome(k, g).members \cap AddrNames : orm[s][a] # Absent}
        BY <4>1
      <4> QED
        BY <1>2, <3>1, <3>3, <4>2 DEF PulledGroup
    <3> QED
      BY <3>2, <3>3
  <2> QED
    BY <2>1, <2>2
<1>7. ReadOrm(req[k].scope)' = ReadOrm(s)'
  BY <1>2 DEF ReadOrm
<1> QED
  BY <1>2, <1>4, <1>5, <1>6, <1>7 DEF PullIsOnCourse

\* A pull deleted the row of an address.
LEMMA WithoutRowCourse ==
    ASSUME SyncInvariant, NEW k \in Jobs, CourseOf(k), phase[k] = "syncing",
           k \notin touched, req[k].kind = "pull", NEW s \in Scopes, s = req[k].scope,
           NEW n \in AddrNames, n \in todo[k].delete, Applied(k, n),
           orm' = WithoutRow(s, n)
    PROVE  PullIsOnCourse(k)'
<1>0. /\ WorldTyped(fgt, orm) /\ n \in Names /\ n \in Pending(k)
      /\ \A a \in AddrNames : a \in Names /\ a \notin GrpNames
      /\ \A g \in GrpNames : g \in Names /\ g \notin AddrNames
  BY ConstantsAssumption DEF SyncInvariant, TypeOK, Names, Pending
<1>1. /\ Outcome(k, n)' = Absent
      /\ \A m \in Names : m # n => Outcome(k, m)' = Outcome(k, m)
  BY <1>0, AppliedOutcome
<1>2. UNCHANGED <<phase, req, src, dst>>
  BY DEF Applied
<1>3. /\ ReadOrm(s)'[n] = Absent /\ orm'[s][n] = Absent
      /\ \A a \in AddrNames : a # n => ReadOrm(s)'[a] = ReadOrm(s)[a] /\ orm'[s][a] = orm[s][a]
      /\ \A g \in GrpNames :
            /\ ReadOrm(s)[g] = Absent => ReadOrm(s)'[g] = Absent
            /\ ReadOrm(s)[g] # Absent =>
                  ReadOrm(s)'[g] = [members |-> ReadOrm(s)[g].members \ {n},
                                    comment |-> ReadOrm(s)[g].comment]
  BY <1>0, WithoutRowReadsBack
<1>4. /\ \A a \in AddrNames : ReadOrm(s)[a] = PulledAddress(k, a)
      /\ \A g \in GrpNames : ReadOrm(s)[g] = PulledGroup(k, g)
      /\ \A g \in GrpNames : dst[k][g] # Absent =>
            \A m \in dst[k][g].members : m \in AddrNames /\ dst[k][m] # Absent
  BY DEF CourseOf, PullIsOnCourse, Applying
<1>5. ASSUME NEW a \in AddrNames PROVE ReadOrm(s)'[a] = PulledAddress(k, a)'
  BY <1>0, <1>1, <1>2, <1>3, <1>4 DEF PulledAddress
<1>6. ASSUME NEW g \in GrpNames PROVE ReadOrm(s)'[g] = PulledGroup(k, g)'
  <2>1. Outcome(k, g)' = Outcome(k, g)
    BY <1>0, <1>1
  <2>2. CASE Outcome(k, g) = Absent
    BY <1>3, <1>4, <2>1, <2>2 DEF PulledGroup
  <2>3. CASE Outcome(k, g) # Absent
    <3>1. PulledGroup(k, g) = [members |-> {a \in Outcome(k, g).members \cap AddrNames : orm[s][a] # Absent},
                               comment |-> Outcome(k, g).comment]
      BY <2>3 DEF PulledGroup
    <3>2. PulledGroup(k, g)' = [members |-> {a \in Outcome(k, g).members \cap AddrNames : orm'[s][a] # Absent},
                                comment |-> Outcome(k, g).comment]
      BY <1>2, <2>1, <2>3 DEF PulledGroup
    <3>3. PulledGroup(k, g).members \ {n}
          = {a \in Outcome(k, g).members \cap AddrNames : orm'[s][a] # Absent}
      BY <1>3, <3>1
    <3>4. PulledGroup(k, g) # Absent
      <4>1. \E m, c : m \subseteq Names /\ c \in Text /\ PulledGroup(k, g) = [members |-> m, comment |-> c]
        <5>1. LoadedTyped(src[k]) /\ LoadedTyped(dst[k])
          BY DEF SyncInvariant, TypeOK
        <5>2. Outcome(k, g) \in GrpRec
          BY <2>3, <5>1 DEF Outcome, LoadedTyped
        <5> QED
          BY <3>1, <5>2 DEF GrpRec, Names
      <4> QED
        BY <1>0, <4>1, AbsentAssumption DEF GrpRec
    <3> QED
      BY <1>3, <1>4, <3>1, <3>2, <3>3, <3>4
  <2> QED
    BY <2>2, <2>3
<1>7. ReadOrm(req[k].scope)' = ReadOrm(s)'
  BY <1>2 DEF ReadOrm
<1> QED
  BY <1>2, <1>4, <1>5, <1>6, <1>7 DEF PullIsOnCourse

\* A row the job expects, because it loaded it or has written it, is there.
LEMMA ExpectedRow ==
    ASSUME SyncInvariant, NEW k \in Jobs, CourseOf(k), phase[k] = "syncing",
           k \notin touched, req[k].kind = "pull", NEW n \in Pending(k), dst[k][n] # Absent
    PROVE  /\ n \in Names /\ orm[req[k].scope][n] # Absent
           /\ n \in AddrNames =>
                 /\ orm[req[k].scope][n].value = dst[k][n].value
                 /\ Strip(n, orm[req[k].scope][n].description) = dst[k][n].comment
           /\ n \in GrpNames =>
                 /\ {a \in AddrNames : <<req[k].scope, a>> \in orm[req[k].scope][n].members}
                      = {a \in dst[k][n].members \cap AddrNames : orm[req[k].scope][a] # Absent}
                 /\ Strip(n, orm[req[k].scope][n].description) = dst[k][n].comment
<1> DEFINE s == req[k].scope
<1>0. /\ WorldTyped(fgt, orm) /\ s \in Scopes /\ n \in Names
      /\ n \in AddrNames => n \notin GrpNames
      /\ Outcome(k, n) = dst[k][n]
  BY ConstantsAssumption DEF SyncInvariant, TypeOK, Requests, Names, Pending, Outcome
<1>1. /\ \A a \in AddrNames : ReadOrm(s)[a] = PulledAddress(k, a)
      /\ \A g \in GrpNames : ReadOrm(s)[g] = PulledGroup(k, g)
  BY DEF CourseOf, PullIsOnCourse, Applying
<1>2. CASE n \in AddrNames
  <2>1. ReadOrm(s)[n] = [value |-> dst[k][n].value, comment |-> dst[k][n].comment]
    BY <1>0, <1>1, <1>2 DEF PulledAddress
  <2>2. [value |-> dst[k][n].value, comment |-> dst[k][n].comment] \in LoadedAddr
    BY <1>2, ConstantsAssumption DEF SyncInvariant, TypeOK, LoadedTyped, LoadedAddr
  <2>3. orm[s][n] # Absent
    <3>1. ReadOrm(s)[n] # Absent
      BY <1>0, <2>1, <2>2, AbsentAssumption
    <3> QED
      BY <1>0, <3>1 DEF ReadOrm
  <2>4. ReadOrm(s)[n] = [value |-> orm[s][n].value, comment |-> Strip(n, orm[s][n].description)]
    BY <1>0, <1>2, <2>3 DEF ReadOrm
  <2> QED
    BY <1>0, <1>2, <2>1, <2>3, <2>4
<1>3. CASE n \in GrpNames
  <2>1. ReadOrm(s)[n] = [members |-> {a \in dst[k][n].members \cap AddrNames : orm[s][a] # Absent},
                         comment |-> dst[k][n].comment]
    BY <1>0, <1>1, <1>3 DEF PulledGroup
  <2>2. [members |-> {a \in dst[k][n].members \cap AddrNames : orm[s][a] # Absent},
         comment |-> dst[k][n].comment] \in GrpRec
    BY <1>3, ConstantsAssumption DEF SyncInvariant, TypeOK, LoadedTyped, GrpRec, Names
  <2>3. orm[s][n] # Absent
    <3>1. ReadOrm(s)[n] # Absent
      BY <1>0, <2>1, <2>2, AbsentAssumption
    <3> QED
      BY <1>0, <3>1 DEF ReadOrm
  <2>4. ReadOrm(s)[n] = [members |-> {a \in AddrNames : <<s, a>> \in orm[s][n].members},
                         comment |-> Strip(n, orm[s][n].description)]
    BY <1>0, <1>3, <2>3 DEF ReadOrm
  <2> QED
    BY <1>0, <1>3, <2>1, <2>3, <2>4
<1> QED
  BY <1>0, <1>2, <1>3 DEF Names

\* To leave a row alone is to write it as it is.
LEMMA KeptRow ==
    ASSUME WorldTyped(fgt, orm), NEW s \in Scopes, NEW n \in Names, KeepRows
    PROVE  PutRow(s, n, orm[s][n])
BY DEF WorldTyped, RowsTyped, KeepRows, PutRow, worldVars

\* The members a pull looks up are those that have a row.
LEMMA FoundMembersAre ==
    ASSUME NEW s \in Scopes, NEW members
    PROVE  {a \in AddrNames : <<s, a>> \in FoundMembers(s, members)}
           = {a \in members \cap AddrNames : orm[s][a] # Absent}
BY DEF FoundMembers

LEMMA PullOnCourse ==
    ASSUME SyncInvariant, NEW k \in Jobs, CourseOf(k), Pull(k), ~Raised(k),
           k \notin touched, NEW s \in Scopes, s = req[k].scope
    PROVE  PullIsOnCourse(k)'
<1>0. /\ WorldTyped(fgt, orm)
      /\ \A a \in AddrNames : a \in Names /\ a \notin GrpNames
      /\ \A g \in GrpNames : g \in Names /\ g \notin AddrNames
      /\ LoadedTyped(src[k])
      /\ todo[k].write \cup todo[k].delete = Pending(k)
  BY ConstantsAssumption DEF SyncInvariant, TypeOK, Names, Pending
<1>d. ASSUME phase[k] = "syncing", NEW n \in todo[k].delete PROVE n \notin todo[k].write
  BY <1>d DEF CourseOf, PlanFollowsDiff, Applying, Writes, Deletes
<1>1. ASSUME NEW a \in AddrNames, PullAddressCreate(k, a) PROVE PullIsOnCourse(k)'
  <2> DEFINE r == [value |-> src[k][a].value, description |-> DescribeOnCreate(a, src[k][a].comment)]
  <2>1. /\ phase[k] = "syncing" /\ req[k].kind = "pull" /\ a \in todo[k].write
        /\ dst[k][a] = Absent /\ PutRow(s, a, r) /\ Applied(k, a)
    BY <1>1 DEF PullAddressCreate, Turn
  <2>2. src[k][a] \in [value : Values, comment : Text]
    BY <2>1, SourceRecordTyped
  <2>3. Strip(a, r.description) = src[k][a].comment
    BY <1>0, <2>2, StripInvertsDescribe
  <2>4. r # Absent
    <3>1. r \in OrmAddr(a)
      BY <1>0, <2>2, DescribeTyped DEF OrmAddr
    <3> QED
      BY <1>0, <3>1, AbsentAssumption
  <2>5. r.value = IF dst[k][a] = Absent THEN src[k][a].value ELSE dst[k][a].value
    BY <2>1
  <2> HIDE DEF r
  <2> QED
    BY <1>0, <2>1, <2>3, <2>4, <2>5, PutRowCourse
<1>2. ASSUME NEW a \in AddrNames, PullAddressUpdate(k, a) PROVE PullIsOnCourse(k)'
  <2>1. /\ phase[k] = "syncing" /\ req[k].kind = "pull" /\ a \in todo[k].write
        /\ dst[k][a] # Absent /\ Applied(k, a)
    BY <1>2 DEF PullAddressUpdate, Turn
  <2>2. /\ orm[s][a] # Absent /\ orm[s][a].value = dst[k][a].value
        /\ Strip(a, orm[s][a].description) = dst[k][a].comment
    BY <1>0, <2>1, ExpectedRow
  <2>3. src[k][a] \in [value : Values, comment : Text] /\ orm[s][a] \in OrmAddr(a)
    BY <1>0, <2>1, <2>2, SourceRecordTyped DEF WorldTyped, RowsTyped
  <2>4. CASE src[k][a].comment = dst[k][a].comment
    <3>1. KeepRows
      BY <1>2, <2>4 DEF PullAddressUpdate
    <3>2. PutRow(s, a, orm[s][a])
      BY <1>0, <3>1, KeptRow
    <3> QED
      BY <1>0, <2>1, <2>2, <2>4, <3>2, PutRowCourse
  <2>5. CASE src[k][a].comment # dst[k][a].comment
    <3> DEFINE r == [orm[s][a] EXCEPT !.description = DescribeOnUpdate(a, src[k][a].comment)]
    <3>1. PutRow(s, a, r)
      BY <1>2, <2>2, <2>5 DEF PullAddressUpdate
    <3>2. r.value = dst[k][a].value /\ r.description = DescribeOnUpdate(a, src[k][a].comment)
      BY <2>2, <2>3 DEF OrmAddr
    <3>3. Strip(a, r.description) = src[k][a].comment
      BY <1>0, <2>3, <3>2, StripInvertsDescribe
    <3>4. r # Absent
      <4>1. r \in OrmAddr(a)
        BY <1>0, <2>3, DescribeTyped DEF OrmAddr
      <4> QED
        BY <1>0, <4>1, AbsentAssumption
    <3> HIDE DEF r
    <3> QED
      BY <1>0, <2>1, <3>1, <3>2, <3>3, <3>4, PutRowCourse
  <2> QED
    BY <2>4, <2>5
<1>3. ASSUME NEW a \in AddrNames, PullAddressDelete(k, a) PROVE PullIsOnCourse(k)'
  BY <1>3, WithoutRowCourse DEF PullAddressDelete, Turn
<1>4. ASSUME NEW g \in GrpNames, PullGroupCreate(k, g) PROVE PullIsOnCourse(k)'
  <2> DEFINE r == [members |-> FoundMembers(s, src[k][g].members),
                   description |-> DescribeOnCreate(g, src[k][g].comment)]
  <2>1. /\ phase[k] = "syncing" /\ req[k].kind = "pull" /\ g \in todo[k].write
        /\ AddressesDone(k) /\ dst[k][g] = Absent /\ PutRow(s, g, r) /\ Applied(k, g)
    BY <1>4 DEF PullGroupCreate, Turn
  <2>2. src[k][g] \in GrpRec
    BY <2>1, SourceRecordTyped
  <2>3. Strip(g, r.description) = src[k][g].comment
    BY <1>0, <2>2, StripInvertsDescribe DEF GrpRec
  <2>4. r # Absent
    <3>1. r \in OrmGrp(g)
      BY <1>0, <2>2, DescribeTyped, FoundMembersTyped DEF OrmGrp, GrpRec
    <3> QED
      BY <1>0, <3>1, AbsentAssumption
  <2>5. {a \in AddrNames : <<s, a>> \in r.members}
        = {a \in src[k][g].members \cap AddrNames : orm[s][a] # Absent}
    BY FoundMembersAre
  <2> HIDE DEF r
  <2> QED
    BY <1>0, <2>1, <2>3, <2>4, <2>5, PutRowCourse
<1>5. ASSUME NEW g \in GrpNames, PullGroupUpdate(k, g) PROVE PullIsOnCourse(k)'
  <2> DEFINE r == [members |-> IF src[k][g].members = dst[k][g].members THEN orm[s][g].members
                               ELSE FoundMembers(s, src[k][g].members),
                   description |-> IF src[k][g].comment = dst[k][g].comment THEN orm[s][g].description
                                   ELSE DescribeOnUpdate(g, src[k][g].comment)]
  <2>1. /\ phase[k] = "syncing" /\ req[k].kind = "pull" /\ g \in todo[k].write
        /\ AddressesDone(k) /\ dst[k][g] # Absent /\ Applied(k, g)
    BY <1>5 DEF PullGroupUpdate, Turn
  <2>2. /\ orm[s][g] # Absent
        /\ {a \in AddrNames : <<s, a>> \in orm[s][g].members}
             = {a \in dst[k][g].members \cap AddrNames : orm[s][a] # Absent}
        /\ Strip(g, orm[s][g].description) = dst[k][g].comment
    BY <1>0, <2>1, ExpectedRow
  <2>3. PutRow(s, g, r)
    BY <1>5, <2>2 DEF PullGroupUpdate
  <2>4. src[k][g] \in GrpRec /\ orm[s][g] \in OrmGrp(g)
    BY <1>0, <2>1, <2>2, SourceRecordTyped DEF WorldTyped, RowsTyped
  <2>5. /\ Strip(g, DescribeOnUpdate(g, src[k][g].comment)) = src[k][g].comment
        /\ DescribeOnUpdate(g, src[k][g].comment) \in Descriptions(g)
    BY <1>0, <2>4, StripInvertsDescribe, DescribeTyped DEF GrpRec
  <2>6. Strip(g, r.description) = src[k][g].comment
    BY <2>2, <2>5
  <2>7. /\ {a \in AddrNames : <<s, a>> \in FoundMembers(s, src[k][g].members)}
             = {a \in src[k][g].members \cap AddrNames : orm[s][a] # Absent}
        /\ FoundMembers(s, src[k][g].members) \in SUBSET (Scopes \X AddrNames)
    BY FoundMembersAre, FoundMembersTyped
  <2>8. {a \in AddrNames : <<s, a>> \in r.members}
        = {a \in src[k][g].members \cap AddrNames : orm[s][a] # Absent}
    BY <2>2, <2>7
  <2>9. r # Absent
    <3>1. r \in OrmGrp(g)
      BY <2>4, <2>5, <2>7 DEF OrmGrp
    <3> QED
      BY <1>0, <3>1, AbsentAssumption
  <2> HIDE DEF r
  <2> QED
    BY <1>0, <2>1, <2>3, <2>6, <2>8, <2>9, PutRowCourse
<1>6. ASSUME NEW g \in GrpNames, PullGroupDelete(k, g) PROVE PullIsOnCourse(k)'
  <2>1. /\ phase[k] = "syncing" /\ req[k].kind = "pull" /\ g \in todo[k].delete
        /\ AddressesDone(k) /\ PutRow(s, g, Absent) /\ Applied(k, g)
    BY <1>6 DEF PullGroupDelete, Turn
  <2>2. g \notin todo[k].write
    BY <1>d, <2>1
  <2> QED
    BY <1>0, <2>1, <2>2, PutRowCourse
<1> QED
  BY <1>1, <1>2, <1>3, <1>4, <1>5, <1>6 DEF Pull

LEMMA PullTurn ==
    ASSUME SyncInvariant, NEW k \in Jobs, Pull(k)
    PROVE  /\ phase[k] = "syncing" /\ req[k].kind = "pull" /\ fgt' = fgt
           /\ \/ Raised(k)
              \/ \E n \in Pending(k) : Applied(k, n) /\ (n \in GrpNames => AddressesDone(k))
<1>1. /\ phase[k] = "syncing" /\ req[k].kind = "pull"
      /\ \/ Raised(k)
         \/ \E n \in Pending(k) : Applied(k, n) /\ (n \in GrpNames => AddressesDone(k))
  BY ConstantsAssumption
     DEF Pull, PullAddressCreate, PullAddressUpdate, PullAddressDelete,
         PullGroupCreate, PullGroupUpdate, PullGroupDelete, Turn, Pending
<1>2. fgt' = fgt
  <2>1. PullEffect(k)
    BY PullHasEffect
  <2> QED
    BY <2>1 DEF PullEffect, Raised, KeepRows, PutRow, worldVars
<1> QED
  BY <1>1, <1>2

LEMMA PullCourse ==
    ASSUME SyncInvariant, NEW k \in Jobs, CourseOf(k), Pull(k)
    PROVE  CourseOf(k)'
<1>1. CASE Raised(k)
  BY <1>1, PullTurn, EndCourse
<1>2. CASE ~Raised(k)
  <2>1. PICK n \in Pending(k) : Applied(k, n) /\ (n \in GrpNames => AddressesDone(k))
    BY <1>2, PullTurn
  <2>2. /\ phase[k] = "syncing" /\ req[k].kind = "pull" /\ fgt' = fgt
        /\ UNCHANGED <<phase, req, src, dst>> /\ (k \notin touched' => k \notin touched)
    BY <2>1, PullTurn DEF Applied
  <2>3. PlanFollowsDiff(k)'
    BY <2>1, <2>2, AppliedPlan
  <2>4. SourceIsCurrent(k)'
    <3>1. ReadFgt(Device(k))' = ReadFgt(Device(k))
      BY <2>2 DEF ReadFgt, Readable, Device
    <3> QED
      BY <2>2, <3>1 DEF CourseOf, SourceIsCurrent, SourceRead
  <2>5. PullIsOnCourse(k)'
    <3>1. CASE k \in touched
      BY <2>2, <3>1 DEF PullIsOnCourse
    <3>2. CASE k \notin touched
      <4>1. PICK s \in Scopes : s = req[k].scope
        BY DEF SyncInvariant, TypeOK, Requests
      <4> QED
        BY <1>2, <3>2, <4>1, PullOnCourse
    <3> QED
      BY <3>1, <3>2
  <2> QED
    BY <2>2, <2>3, <2>4, <2>5 DEF CourseOf, TargetIsCurrent, PushIsOnCourse
<1> QED
  BY <1>1, <1>2

----------------------------------------------------------------------------
(* Why an undisturbed job dies.                                            *)

Explained(j) ==
    \/ /\ req[j].kind = "pull" /\ req[j].delete /\ ProtectOnDelete
       /\ \E a \in todo[j].delete : Referenced(req[j].scope, a)
    \/ /\ req[j].kind = "push"
       /\ \/ \E a \in todo[j].write \cap AddrNames : Stored[orm[req[j].scope][a].value] = Unsendable
          \/ \E a \in AddrNames :
                /\ orm[req[j].scope][a] # Absent
                /\ fgt[Device(j)][a] # Absent /\ ~Readable(Device(j), a)
          \/ req[j].delete /\ \E n \in todo[j].delete : InUse(Device(j), n)

LEMMA AbortsByExplained ==
    AbortsAreExplained <=> \A j \in Jobs : phase[j] = "failed" /\ j \notin touched => Explained(j)
BY DEF AbortsAreExplained, Explained

LEMMA SameExplanation ==
    ASSUME NEW k \in Jobs, Explained(k), UNCHANGED worldVars, req'[k] = req[k], todo'[k] = todo[k]
    PROVE  Explained(k)'
BY DEF Explained, Referenced, InUse, Readable, Device, worldVars

\* When a push comes to a group, all the members it sends exist on the device.
LEMMA MembersAreThere ==
    ASSUME SyncInvariant, NEW k \in Jobs, CourseOf(k), phase[k] = "syncing", k \notin touched,
           req[k].kind = "push", NEW g \in GrpNames, src[k][g] # Absent, AddressesDone(k)
    PROVE  \A m \in src[k][g].members : fgt[Device(k)][m] # Absent
<1> DEFINE s == req[k].scope
<1>0. /\ WorldTyped(fgt, orm) /\ MembersHaveRows(orm) /\ s \in Scopes /\ g \in Names
      /\ \A a \in AddrNames : a \in Names /\ a \notin GrpNames
  BY ConstantsAssumption DEF SyncInvariant, TypeOK, Requests, Names
<1>1. \A n \in Names : src[k][n] = ReadOrm(s)[n] /\ ReadFgt(Device(k))[n] = Arrived(n, Outcome(k, n))
  BY DEF CourseOf, SourceIsCurrent, SourceNames, SourceRead, PushIsOnCourse, Applying
<1> SUFFICES ASSUME NEW m \in src[k][g].members PROVE fgt[Device(k)][m] # Absent
  OBVIOUS
<1>2. m \in AddrNames /\ orm[s][m] # Absent
  BY <1>0, <1>1, LoadedMembers
<1>3. src[k][m] # Absent
  BY <1>0, <1>1, <1>2, ReadOrmAbsent
<1>4. m \notin Pending(k)
  BY <1>2 DEF AddressesDone, Pending
<1>5. ReadFgt(Device(k))[m] # Absent
  <2>1. Outcome(k, m) = src[k][m] /\ LoadedTyped(src[k])
    BY <1>3, <1>4 DEF Outcome, SyncInvariant, TypeOK
  <2>2. Arrived(m, src[k][m]) # Absent
    BY <1>0, <1>2, <1>3, <2>1, ArrivedAbsent
  <2> QED
    BY <1>0, <1>1, <1>2, <2>1, <2>2
<1> QED
  BY <1>0, <1>2, <1>5 DEF ReadFgt, Readable

LEMMA DeathIsExplained ==
    ASSUME SyncInvariant, NEW k \in Jobs, CourseOf(k), Pull(k) \/ Push(k), phase'[k] = "failed",
           k \notin touched
    PROVE  Raised(k) /\ Explained(k)
<1>0. phase[k] = "syncing"
  BY PullTurn, PushIsACall DEF PushCall
<1>1. Raised(k)
  BY <1>0, PullHasEffect, PushHasEffect, EffectOnJob DEF Applied
<1>2. /\ todo[k].write \subseteq Writes(src[k], dst[k])
      /\ todo[k].delete \subseteq Deletes(src[k], dst[k])
      /\ todo[k].delete # {} => req[k].delete
  BY <1>0 DEF CourseOf, PlanFollowsDiff, Applying, SyncInvariant, DeletesOnRequest
<1>3. CASE Pull(k)
  <2>1. PICK a \in AddrNames : PullAddressDelete(k, a)
    BY <1>0, <1>3 DEF Pull, PullAddressCreate, PullAddressUpdate,
                      PullGroupCreate, PullGroupUpdate, PullGroupDelete, Applied
  <2>2. /\ req[k].kind = "pull" /\ a \in todo[k].delete
        /\ ProtectOnDelete /\ Referenced(req[k].scope, a)
    BY <1>0, <2>1 DEF PullAddressDelete, Turn, Applied
  <2> QED
    BY <1>1, <1>2, <2>2 DEF Explained
<1>4. CASE Push(k)
  <2> DEFINE d == Device(k)
  <2>1. PICK n \in Names : PushCall(k, n)
    BY <1>4, PushIsACall
  <2>2. /\ req[k].kind = "push" /\ (n \in GrpNames => AddressesDone(k))
        /\ n \in Pending(k)
    BY <2>1 DEF PushCall, Pending
  <2>3. /\ \A m \in Names : src[k][m] = ReadOrm(req[k].scope)[m]
        /\ ReadFgt(d)[n] = Arrived(n, dst[k][n])
        /\ (ReadFgt(d)[n] = Absent) <=> (dst[k][n] = Absent)
    <3>1. /\ \A m \in Names : src[k][m] = ReadOrm(req[k].scope)[m]
          /\ ReadFgt(d)[n] = Arrived(n, dst[k][n])
      BY <1>0, <2>2 DEF CourseOf, SourceIsCurrent, SourceNames, SourceRead, PushIsOnCourse, Applying,
                        Outcome
    <3>2. LoadedTyped(dst[k])
      BY DEF SyncInvariant, TypeOK
    <3>3. (Arrived(n, dst[k][n]) = Absent) <=> (dst[k][n] = Absent)
      BY <3>2, ArrivedAbsent
    <3> QED
      BY <3>1, <3>3
  <2>4. n \in todo[k].write => src[k][n] # Absent
    BY <1>2 DEF Writes
  <2>s. CASE n \in todo[k].write /\ ~Sendable(n, src[k][n])
    <3>1. n \in AddrNames /\ Stored[src[k][n].value] = Unsendable
      BY <2>s DEF Sendable
    <3>2. src[k][n].value = orm[req[k].scope][n].value
      <4>1. ReadOrm(req[k].scope)[n] # Absent /\ src[k][n] = ReadOrm(req[k].scope)[n]
        BY <2>3, <2>4, <2>s
      <4>2. ReadOrm(req[k].scope)[n] =
              [value |-> orm[req[k].scope][n].value,
               comment |-> Strip(n, orm[req[k].scope][n].description)]
        BY <3>1, <4>1 DEF ReadOrm
      <4> QED
        BY <4>1, <4>2
    <3> QED
      BY <1>1, <2>2, <2>s, <3>1, <3>2 DEF Explained
  <2>5. CASE /\ n \in todo[k].write /\ dst[k][n] = Absent /\ Sendable(n, src[k][n])
             /\ ~AcceptsCreate(d, n, src[k][n])
    <3>1. CASE n \in GrpNames
      <4>1. fgt[d][n] = Absent
        BY <2>3, <2>5, <3>1 DEF ReadFgt
      <4>2. MembersExist(d, n, src[k][n])
        BY <1>0, <2>2, <2>4, <2>5, <3>1, MembersAreThere DEF MembersExist
      <4> QED
        BY <2>5, <4>1, <4>2 DEF AcceptsCreate
    <3>2. CASE n \notin GrpNames
      <4>1. n \in AddrNames /\ fgt[d][n] # Absent
        BY <2>5, <3>2 DEF AcceptsCreate, MembersExist, Names
      <4>2. ~Readable(d, n)
        <5>1. ReadFgt(d)[n] = IF Readable(d, n) THEN ReadAddress(fgt[d][n]) ELSE Absent
          BY <3>2 DEF ReadFgt
        <5>2. ReadAddress(fgt[d][n]) \in [value : Values, comment : Text] \/ ~Readable(d, n)
          <6>1. fgt[d][n] \in AddrRec
            BY <4>1, DeviceInScopes DEF SyncInvariant, TypeOK, WorldTyped, DeviceTyped
          <6> QED
            BY <6>1, ConstantsAssumption
               DEF ReadAddress, AddressValue, Description, Readable, AddrRec, DeviceValues, Text
        <5>3. [value : Values, comment : Text] \subseteq LoadedAddr
          BY DEF LoadedAddr
        <5> QED
          BY <2>3, <2>5, <5>1, <5>2, <5>3, AbsentAssumption
      <4>3. orm[req[k].scope][n] # Absent
        BY <2>3, <2>4, <2>5 DEF ReadOrm
      <4> QED
        BY <1>1, <2>2, <4>1, <4>2, <4>3 DEF Explained
    <3> QED
      BY <3>1, <3>2
  <2>6. CASE /\ n \in todo[k].write /\ dst[k][n] # Absent /\ Sendable(n, src[k][n])
             /\ ~AcceptsUpdate(d, n, src[k][n])
    <3>1. fgt[d][n] # Absent
      BY <2>3, <2>6 DEF ReadFgt, Readable
    <3>2. MembersExist(d, n, src[k][n])
      BY <1>0, <2>2, <2>4, <2>6, MembersAreThere DEF MembersExist
    <3> QED
      BY <2>6, <3>1, <3>2 DEF AcceptsUpdate
  <2>7. CASE n \in todo[k].delete /\ ~AcceptsDelete(d, n)
    <3>1. dst[k][n] # Absent /\ req[k].delete
      BY <1>2, <2>7 DEF Deletes
    <3>2. fgt[d][n] # Absent
      BY <2>3, <3>1 DEF ReadFgt, Readable
    <3> QED
      BY <1>1, <2>2, <2>7, <3>1, <3>2 DEF AcceptsDelete, Explained
  <2> QED
    BY <1>0, <2>1, <2>s, <2>5, <2>6, <2>7 DEF PushCall, Call, Applied
<1> QED
  BY <1>3, <1>4

----------------------------------------------------------------------------
(* The invariant.                                                          *)

LEMMA OwnStepCourse ==
    ASSUME SyncInvariant, NEW k \in Jobs, CourseOf(k), StepOf(k)
    PROVE  CourseOf(k)'
<1>1. CASE Finish(k) \/ Crash(k)
  <2>1. ~Raised(k)
    BY <1>1 DEF SyncInvariant, TypeOK, Finish, Crash, Raised
  <2> QED
    BY <1>1, <2>1, EndCourse
<1> QED
  BY <1>1, StartCourse, LoadCourse, ExecuteSyncCourse, PullCourse, PushCourse DEF StepOf

LEMMA OnlyCallsFail ==
    ASSUME SyncInvariant, NEW k \in Jobs, StepOf(k), phase'[k] = "failed"
    PROVE  Pull(k) \/ Push(k)
<1>1. phase \in [Jobs -> Idle \cup Running]
  BY DEF SyncInvariant, TypeOK
<1> QED
  BY <1>1 DEF StepOf, Start, Load, LoadSourceAddresses, LoadSourceGroups, LoadTargetAddresses,
              LoadTargetGroups, ExecuteSync, Finish, Crash

\* In every behaviour, whatever jobs and operators do in between: the side an
\* undisturbed job writes reads as its adapters and the rest of its plan say,
\* and if it died, for one of the known reasons.
THEOREM RunsStayOnCourse == Spec => []RunsOnCourse
<1>1. Init => RunsOnCourse
  BY DEF Init, RunsOnCourse, PlanFollowsDiff, SourceIsCurrent, TargetIsCurrent, PullIsOnCourse,
         PushIsOnCourse, AbortsAreExplained, Applying
<1>2. SyncInvariant /\ RunsOnCourse /\ [Next]_vars => RunsOnCourse'
  <2> SUFFICES ASSUME SyncInvariant, RunsOnCourse, [Next]_vars, NEW k \in Jobs
               PROVE  /\ CourseOf(k)'
                      /\ phase'[k] = "failed" /\ k \notin touched' => Explained(k)'
    BY DEF RunsOnCourse, CourseOf, AbortsAreExplained, Explained
  <2>0. CourseOf(k) /\ (phase[k] = "failed" /\ k \notin touched => Explained(k))
    BY AbortsByExplained DEF RunsOnCourse, CourseOf
  <2>1. CASE StepOf(k)
    <3>1. CourseOf(k)'
      BY <2>0, <2>1, OwnStepCourse
    <3>2. ASSUME phase'[k] = "failed", k \notin touched' PROVE Explained(k)'
      <4>1. Pull(k) \/ Push(k)
        BY <2>1, <3>2, OnlyCallsFail
      <4>2. k \notin touched
        <5>1. (\E n : Applied(k, n)) \/ Raised(k)
          BY <4>1, PullHasEffect, PushHasEffect, EffectOnJob
        <5> QED
          BY <3>2, <5>1 DEF Applied, Raised
      <4>3. Raised(k) /\ Explained(k)
        BY <2>0, <3>2, <4>1, <4>2, DeathIsExplained
      <4> QED
        BY <4>3, SameExplanation DEF Raised
    <3> QED
      BY <3>1, <3>2
  <2>2. CASE ~StepOf(k)
    <3>1. SameJob(k) /\ (k \notin touched' => k \notin touched /\ UNCHANGED worldVars)
      BY <2>2, OthersStep
    <3>2. CourseOf(k)'
      BY <2>0, <3>1, SameCourse
    <3> QED
      BY <2>0, <3>1, <3>2, SameExplanation DEF SameJob
  <2> QED
    BY <2>1, <2>2
<1> QED
  BY <1>1, <1>2, SyncInvariantHolds, PTL DEF Spec

----------------------------------------------------------------------------
(* What follows for runs that nobody disturbs.                             *)

\* A job that nobody disturbed dies of a refused write only for the reasons
\* AbortsAreExplained lists.
THEOREM AbortsHaveAReason == Spec => []AbortsAreExplained
<1>1. RunsOnCourse => AbortsAreExplained
  BY DEF RunsOnCourse
<1> QED
  BY <1>1, RunsStayOnCourse, PTL

\* The end of a clean run in terms of its two adapters: the plan is worked off.
LEMMA CleanRunEnds ==
    ASSUME SyncInvariant, RunsOnCourse, NEW j \in Jobs, NEW kind, Clean(j, kind)
    PROVE  /\ \A n \in Names : src[j][n] = SourceRead(j)[n]
           /\ \A n \in Names : Outcome(j, n) =
                 IF src[j][n] # Absent THEN src[j][n]
                 ELSE IF req[j].delete THEN Absent ELSE dst[j][n]
           /\ CourseOf(j) /\ req[j].scope \in Scopes /\ Device(j) \in Scopes
<1>1. CourseOf(j) /\ req[j].scope \in Scopes /\ Device(j) \in Scopes
  BY DeviceInScopes DEF RunsOnCourse, CourseOf, SyncInvariant, TypeOK, Requests
<1>2. \A n \in Names : src[j][n] = SourceRead(j)[n]
  BY <1>1 DEF Clean, CourseOf, SourceIsCurrent, SourceNames
<1>3. todo[j] = NoWork
  BY <1>1 DEF Clean, CourseOf, PlanFollowsDiff, Applying
<1>4. \A n \in Names : n \notin Pending(j)
  BY <1>3 DEF Pending, NoWork
<1> QED
  BY <1>1, <1>2, <1>4 DEF Outcome

\* After a clean pull Nautobot mirrors what the adapter can read of the device,
\* record by record and member by member, for every device and every row.
THEOREM CleanPullMirrors == Spec => []PullMirrorsDevice
<1>1. SyncInvariant /\ RunsOnCourse => PullMirrorsDevice
  <2> SUFFICES ASSUME SyncInvariant, RunsOnCourse, NEW j \in Jobs, Clean(j, "pull")
               PROVE  LET s == req[j].scope
                          d == Device(j)
                      IN
                      /\ \A a \in AddrNames : Readable(d, a) =>
                            /\ orm[s][a] # Absent
                            /\ Strip(a, orm[s][a].description) = Description(fgt[d][a])
                            /\ dst[j][a] = Absent => orm[s][a].value = AddressValue(fgt[d][a].value)
                      /\ \A g \in GrpNames : fgt[d][g] # Absent =>
                            /\ orm[s][g] # Absent
                            /\ Strip(g, orm[s][g].description) = fgt[d][g].comment
                            /\ ReadOrm(s)[g].members =
                                  {a \in fgt[d][g].members \cap AddrNames : orm[s][a] # Absent}
                      /\ req[j].delete => \A n \in Names : ReadFgt(d)[n] = Absent => orm[s][n] = Absent
    BY DEF PullMirrorsDevice
  <2> DEFINE s == req[j].scope
             d == Device(j)
  <2>0. /\ WorldTyped(fgt, orm) /\ s \in Scopes /\ d \in Scopes
        /\ LoadedTyped(ReadFgt(d)) /\ LoadedTyped(ReadOrm(s))
        /\ \A a \in AddrNames : a \in Names /\ a \notin GrpNames
        /\ \A g \in GrpNames : g \in Names /\ g \notin AddrNames
    BY CleanRunEnds, ReadFgtTyped, ReadOrmTyped, ConstantsAssumption
       DEF SyncInvariant, TypeOK, WorldTyped, Names
  <2>1. \A n \in Names : Outcome(j, n) =
           IF ReadFgt(d)[n] # Absent THEN ReadFgt(d)[n]
           ELSE IF req[j].delete THEN Absent ELSE dst[j][n]
    BY CleanRunEnds DEF Clean, SourceRead
  <2>2. /\ \A a \in AddrNames : ReadOrm(s)[a] = PulledAddress(j, a)
        /\ \A g \in GrpNames : ReadOrm(s)[g] = PulledGroup(j, g)
    BY CleanRunEnds DEF CourseOf, Clean, PullIsOnCourse, Applying
  <2>3. ASSUME NEW a \in AddrNames, Readable(d, a)
        PROVE  /\ orm[s][a] # Absent
               /\ Strip(a, orm[s][a].description) = Description(fgt[d][a])
               /\ dst[j][a] = Absent => orm[s][a].value = AddressValue(fgt[d][a].value)
    <3>1. ReadFgt(d)[a] = [value |-> AddressValue(fgt[d][a].value), comment |-> Description(fgt[d][a])]
      BY <2>0, <2>3 DEF ReadFgt, ReadAddress
    <3>2. ReadFgt(d)[a] # Absent
      <4>1. fgt[d][a] \in AddrRec
        BY <2>0, <2>3 DEF WorldTyped, DeviceTyped, Readable
      <4>2. ReadFgt(d)[a] \in AddrRec
        BY <2>3, <3>1, <4>1, ConstantsAssumption DEF AddressValue, Description, Readable, AddrRec, Text
      <4> QED
        BY <2>0, <4>2, AbsentAssumption
    <3>3. ReadOrm(s)[a] =
            [value |-> IF dst[j][a] = Absent THEN AddressValue(fgt[d][a].value) ELSE dst[j][a].value,
             comment |-> Description(fgt[d][a])]
      BY <2>0, <2>1, <2>2, <3>1, <3>2 DEF PulledAddress
    <3>4. orm[s][a] # Absent
      <4>1. LoadedTyped(dst[j]) /\ LoadedTyped(ReadFgt(d))
        BY <2>0 DEF SyncInvariant, TypeOK
      <4>2. ReadOrm(s)[a] \in LoadedAddr
        BY <3>1, <3>2, <3>3, <4>1 DEF LoadedTyped, LoadedAddr
      <4> QED
        BY <2>0, <4>2, AbsentAssumption, ReadOrmAbsent
    <3>5. ReadOrm(s)[a] = [value |-> orm[s][a].value, comment |-> Strip(a, orm[s][a].description)]
      BY <2>0, <3>4 DEF ReadOrm
    <3> QED
      BY <3>3, <3>4, <3>5
  <2>4. ASSUME NEW g \in GrpNames, fgt[d][g] # Absent
        PROVE  /\ orm[s][g] # Absent
               /\ Strip(g, orm[s][g].description) = fgt[d][g].comment
               /\ ReadOrm(s)[g].members = {a \in fgt[d][g].members \cap AddrNames : orm[s][a] # Absent}
    <3>1. ReadFgt(d)[g] = fgt[d][g]
      BY <2>0 DEF ReadFgt
    <3>2. ReadOrm(s)[g] = [members |-> {a \in fgt[d][g].members \cap AddrNames : orm[s][a] # Absent},
                           comment |-> fgt[d][g].comment]
      BY <2>0, <2>1, <2>2, <2>4, <3>1 DEF PulledGroup
    <3>3. orm[s][g] # Absent
      <4>1. ReadOrm(s)[g] \in GrpRec
        BY <2>0, <2>4, <3>1, <3>2 DEF LoadedTyped, GrpRec, Names
      <4> QED
        BY <2>0, <4>1, AbsentAssumption, ReadOrmAbsent
    <3>4. ReadOrm(s)[g] = [members |-> {a \in AddrNames : <<s, a>> \in orm[s][g].members},
                           comment |-> Strip(g, orm[s][g].description)]
      BY <2>0, <3>3 DEF ReadOrm
    <3> QED
      BY <3>2, <3>3, <3>4
  <2>5. ASSUME req[j].delete, NEW n \in Names, ReadFgt(d)[n] = Absent PROVE orm[s][n] = Absent
    <3>1. Outcome(j, n) = Absent
      BY <2>1, <2>5
    <3>2. ReadOrm(s)[n] = Absent
      BY <2>2, <3>1 DEF PulledAddress, PulledGroup, Names
    <3> QED
      BY <2>0, <3>2, ReadOrmAbsent
  <2> QED
    BY <2>3, <2>4, <2>5
<1> QED
  BY <1>1, SyncInvariantHolds, RunsStayOnCourse, PTL

\* After a clean push the device holds every row as the Nautobot adapter reads
\* it, as far as its value arrives, and after a destructive one nothing else
\* that can be read.
THEOREM CleanPushMirrors == Spec => []PushMirrorsRows
<1>1. SyncInvariant /\ RunsOnCourse => PushMirrorsRows
  <2> SUFFICES ASSUME SyncInvariant, RunsOnCourse, NEW j \in Jobs, Clean(j, "push"), NEW n \in Names
               PROVE  LET s == req[j].scope
                          d == Device(j)
                      IN
                      /\ orm[s][n] # Absent => ReadFgt(d)[n] = Arrived(n, ReadOrm(s)[n])
                      /\ req[j].delete /\ orm[s][n] = Absent => ReadFgt(d)[n] = Absent
    BY DEF PushMirrorsRows
  <2>1. WorldTyped(fgt, orm) /\ req[j].scope \in Scopes
    BY CleanRunEnds DEF SyncInvariant, TypeOK
  <2>2. /\ ReadFgt(Device(j))[n] = Arrived(n, Outcome(j, n))
        /\ Outcome(j, n) =
             IF ReadOrm(req[j].scope)[n] # Absent THEN ReadOrm(req[j].scope)[n]
             ELSE IF req[j].delete THEN Absent ELSE dst[j][n]
    BY CleanRunEnds DEF CourseOf, Clean, PushIsOnCourse, Applying, SourceRead
  <2>3. req[j].delete /\ orm[req[j].scope][n] = Absent => Arrived(n, Outcome(j, n)) = Absent
    BY <2>1, <2>2, ReadOrmAbsent DEF Arrived
  <2> QED
    BY <2>1, <2>2, <2>3, ReadOrmAbsent
<1> QED
  BY <1>1, SyncInvariantHolds, RunsStayOnCourse, PTL

\* What a push right after a clean pull would still write is exactly what a
\* pull cannot carry.
THEOREM CleanPullLeavesResidue == Spec => []RoundTripResidue
<1>1. SyncInvariant /\ RunsOnCourse => RoundTripResidue
  <2> SUFFICES ASSUME SyncInvariant, RunsOnCourse, NEW j \in Jobs, Clean(j, "pull"),
                      NEW n \in Writes(ReadOrm(req[j].scope), ReadFgt(Device(j)))
               PROVE  LET s == req[j].scope
                          d == Device(j)
                          device == ReadFgt(d)
                      IN
                      \/ device[n] = Absent /\ ~req[j].delete
                      \/ /\ n \in AddrNames /\ dst[j][n] # Absent
                         /\ orm[s][n].value = dst[j][n].value /\ device[n].value # dst[j][n].value
                      \/ /\ n \in GrpNames
                         /\ \E m \in fgt[d][n].members : m \in GrpNames \/ orm[s][m] = Absent
    BY DEF RoundTripResidue
  <2> DEFINE s == req[j].scope
             d == Device(j)
  <2>0. /\ WorldTyped(fgt, orm) /\ s \in Scopes /\ d \in Scopes
        /\ LoadedTyped(ReadFgt(d)) /\ n \in Names
        /\ ReadOrm(s)[n] # Absent /\ ReadOrm(s)[n] # ReadFgt(d)[n]
        /\ n \in AddrNames => n \notin GrpNames
    BY CleanRunEnds, ReadFgtTyped, ConstantsAssumption
       DEF SyncInvariant, TypeOK, WorldTyped, Names, Writes
  <2>1. Outcome(j, n) =
           IF ReadFgt(d)[n] # Absent THEN ReadFgt(d)[n]
           ELSE IF req[j].delete THEN Absent ELSE dst[j][n]
    BY <2>0, CleanRunEnds DEF Clean, SourceRead
  <2>2. /\ n \in AddrNames => ReadOrm(s)[n] = PulledAddress(j, n)
        /\ n \in GrpNames => ReadOrm(s)[n] = PulledGroup(j, n)
    BY CleanRunEnds DEF CourseOf, Clean, PullIsOnCourse, Applying
  <2>3. CASE ReadFgt(d)[n] = Absent
    <3>1. ~req[j].delete
      BY <2>0, <2>1, <2>2, <2>3 DEF PulledAddress, PulledGroup, Names
    <3> QED
      BY <2>3, <3>1
  <2>4. CASE ReadFgt(d)[n] # Absent /\ n \in AddrNames
    <3>1. ReadOrm(s)[n] = [value |-> IF dst[j][n] = Absent THEN ReadFgt(d)[n].value ELSE dst[j][n].value,
                           comment |-> ReadFgt(d)[n].comment]
      BY <2>0, <2>1, <2>2, <2>4 DEF PulledAddress
    <3>2. ReadFgt(d)[n] = [value |-> ReadFgt(d)[n].value, comment |-> ReadFgt(d)[n].comment]
      BY <2>0, <2>4 DEF LoadedTyped
    <3>3. ReadOrm(s)[n].value = orm[s][n].value
      BY <2>0, <2>4 DEF ReadOrm
    <3> QED
      BY <2>0, <2>4, <3>1, <3>2, <3>3
  <2>5. CASE ReadFgt(d)[n] # Absent /\ n \in GrpNames
    <3>1. ReadFgt(d)[n] = fgt[d][n] /\ fgt[d][n] \in GrpRec
      BY <2>0, <2>5 DEF ReadFgt, LoadedTyped
    <3>2. ReadOrm(s)[n] = [members |-> {a \in fgt[d][n].members \cap AddrNames : orm[s][a] # Absent},
                           comment |-> fgt[d][n].comment]
      BY <2>1, <2>2, <2>5, <3>1 DEF PulledGroup
    <3>3. {a \in fgt[d][n].members \cap AddrNames : orm[s][a] # Absent} # fgt[d][n].members
      BY <2>0, <3>1, <3>2 DEF GrpRec
    <3>4. fgt[d][n].members \subseteq AddrNames \cup GrpNames
      BY <3>1 DEF GrpRec, Names
    <3> QED
      BY <2>5, <3>3, <3>4
  <2> QED
    BY <2>0, <2>3, <2>4, <2>5 DEF Names
<1> QED
  BY <1>1, SyncInvariantHolds, RunsStayOnCourse, PTL

\* Whatever other jobs run, a push that nobody disturbs never alters or
\* removes an address of a type its adapter skipped.
THEOREM UnreadableIsKept == Spec => PushKeepsUnreadable
<1>1. SyncInvariant /\ RunsOnCourse /\ [Next]_vars =>
        [\A j \in Jobs, s \in Scopes, a \in AddrNames :
            JobStep /\ todo'[j] # todo[j] /\ j \notin touched
               /\ fgt[s][a] # Absent /\ ~Readable(s, a)
            => fgt'[s][a] = fgt[s][a]]_vars
  <2> SUFFICES ASSUME SyncInvariant, RunsOnCourse, [Next]_vars,
                      NEW j \in Jobs, NEW s \in Scopes, NEW a \in AddrNames,
                      JobStep, todo'[j] # todo[j], j \notin touched,
                      fgt[s][a] # Absent, ~Readable(s, a)
               PROVE  fgt'[s][a] = fgt[s][a]
    OBVIOUS
  <2>0. /\ WorldTyped(fgt, orm) /\ CourseOf(j) /\ a \in Names /\ a \notin GrpNames
        /\ edits \in Nat
    BY ConstantsAssumption DEF RunsOnCourse, CourseOf, SyncInvariant, TypeOK, Names
  <2>1. StepOf(j)
    BY OthersStep DEF SameJob
  <2>2. CASE Push(j)
    <3>1. PICK n \in Names : PushCall(j, n)
      BY <2>2, PushIsACall
    <3>2. CASE s = Device(j) /\ n = a
      <4>1. ReadFgt(s)[a] = Absent
        BY <2>0 DEF ReadFgt
      <4>2. /\ dst[j][a] = Absent /\ a \notin todo[j].delete
        <5>1. phase[j] = "syncing" /\ req[j].kind = "push" /\ a \in Pending(j)
          BY <3>1, <3>2 DEF PushCall, Pending
        <5>2. /\ Outcome(j, a) = dst[j][a]
              /\ (Outcome(j, a) = Absent) <=> (ReadFgt(Device(j))[a] = Absent)
          <6>1. ReadFgt(Device(j))[a] = Arrived(a, Outcome(j, a)) /\ Outcome(j, a) = dst[j][a]
            BY <2>0, <5>1 DEF CourseOf, PushIsOnCourse, Applying, Outcome
          <6>2. (Arrived(a, dst[j][a]) = Absent) <=> (dst[j][a] = Absent)
            BY <2>0, ArrivedAbsent DEF SyncInvariant, TypeOK
          <6> QED
            BY <6>1, <6>2
        <5>3. todo[j].delete \subseteq Deletes(src[j], dst[j])
          BY <2>0, <5>1 DEF CourseOf, PlanFollowsDiff, Applying
        <5> QED
          BY <3>2, <4>1, <5>1, <5>2, <5>3 DEF Outcome, Deletes
      <4> QED
        BY <3>1, <3>2, <4>2 DEF PushCall, Call, AcceptsCreate, Raised, worldVars
    <3>3. CASE ~(s = Device(j) /\ n = a)
      <4>1. Device(j) \in Scopes
        BY DeviceInScopes DEF SyncInvariant, TypeOK
      <4>2. fgt' = fgt \/ \E r : PutDevice(Device(j), n, r)
        BY <3>1 DEF PushCall, Call, Raised, worldVars
      <4> QED
        BY <2>0, <3>3, <4>1, <4>2, PutDeviceReads
    <3> QED
      BY <3>2, <3>3
  <2>3. CASE Pull(j)
    BY <2>3, PullTurn
  <2>4. CASE ~Push(j) /\ ~Pull(j)
    BY <2>1, <2>4 DEF StepOf, Start, Load, LoadSourceAddresses, LoadSourceGroups, LoadTargetAddresses,
                  LoadTargetGroups, ExecuteSync, Finish, Crash, worldVars
  <2> QED
    BY <2>2, <2>3, <2>4
<1> QED
  BY <1>1, SyncInvariantHolds, RunsStayOnCourse, PTL DEF Spec, PushKeepsUnreadable
============================================================================
