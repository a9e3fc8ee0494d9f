------------------------- MODULE AddressRefinement -------------------------
(***************************************************************************)
(* AddressSync implements SyncJob, for every set of scopes, names, values  *)
(* and jobs.                                                               *)
(***************************************************************************)
EXTENDS AddressSyncProofs

----------------------------------------------------------------------------
(* What the mapped variables become.                                       *)

LEMMA HeldReads ==
    ASSUME NEW t \in Scopes, NEW m \in Names
    PROVE  /\ <<"device", t, m>> \in Held <=> fgt[t][m] # Absent
           /\ <<"rows", t, m>> \in Held <=> orm[t][m] # Absent
BY DEF Held

LEMMA HeldReadsNext ==
    ASSUME NEW t \in Scopes, NEW m \in Names
    PROVE  /\ <<"device", t, m>> \in Held' <=> fgt'[t][m] # Absent
           /\ <<"rows", t, m>> \in Held' <=> orm'[t][m] # Absent
BY DEF Held

\* Two sets of records are the same if they agree on both sides.
LEMMA SameRecords ==
    ASSUME NEW A \in SUBSET ({"device", "rows"} \X Scopes \X Names),
           NEW B \in SUBSET ({"device", "rows"} \X Scopes \X Names),
           \A t \in Scopes, m \in Names :
              /\ <<"device", t, m>> \in A <=> <<"device", t, m>> \in B
              /\ <<"rows", t, m>> \in A <=> <<"rows", t, m>> \in B
    PROVE  A = B
<1>1. ASSUME NEW r \in {"device", "rows"} \X Scopes \X Names PROVE r \in A <=> r \in B
  <2>1. PICK x \in {"device", "rows"}, t \in Scopes, m \in Names : r = <<x, t, m>>
    OBVIOUS
  <2> QED
    BY <2>1
<1> QED
  BY <1>1

LEMMA HeldTyped ==
    /\ Held \in SUBSET ({"device", "rows"} \X Scopes \X Names)
    /\ Held' \in SUBSET ({"device", "rows"} \X Scopes \X Names)
BY DEF Held

LEMMA HeldKept ==
    ASSUME UNCHANGED worldVars
    PROVE  Held' = Held
BY DEF Held, worldVars

LEMMA HeldAfterPutRow ==
    ASSUME WorldTyped(fgt, orm), NEW s \in Scopes, NEW n \in Names, NEW r, PutRow(s, n, r)
    PROVE  /\ r # Absent => Held' = Held \cup {<<"rows", s, n>>}
           /\ r = Absent => Held' = Held \ {<<"rows", s, n>>}
<1>1. ASSUME NEW t \in Scopes, NEW m \in Names
      PROVE  /\ orm'[t][m] = IF t = s /\ m = n THEN r ELSE orm[t][m]
             /\ fgt' = fgt
  BY PutRowReads
<1>2. ASSUME NEW t \in Scopes, NEW m \in Names
      PROVE  /\ <<"device", t, m>> \in Held' <=> <<"device", t, m>> \in Held
             /\ <<"rows", t, m>> \in Held' <=>
                   IF t = s /\ m = n THEN r # Absent ELSE <<"rows", t, m>> \in Held
  BY <1>1, HeldReads, HeldReadsNext
<1>3. CASE r # Absent
  <2> DEFINE K == Held \cup {<<"rows", s, n>>}
  <2>1. K \in SUBSET ({"device", "rows"} \X Scopes \X Names)
    BY HeldTyped
  <2>2. \A t \in Scopes, m \in Names :
          /\ <<"device", t, m>> \in Held' <=> <<"device", t, m>> \in K
          /\ <<"rows", t, m>> \in Held' <=> <<"rows", t, m>> \in K
    BY <1>2, <1>3
  <2>3. Held' = K
    <3> HIDE DEF K
    <3> QED
      BY <2>1, <2>2, SameRecords, HeldTyped
  <2> QED
    BY <1>3, <2>3
<1>4. CASE r = Absent
  <2> DEFINE K == Held \ {<<"rows", s, n>>}
  <2>1. K \in SUBSET ({"device", "rows"} \X Scopes \X Names)
    BY HeldTyped
  <2>2. \A t \in Scopes, m \in Names :
          /\ <<"device", t, m>> \in Held' <=> <<"device", t, m>> \in K
          /\ <<"rows", t, m>> \in Held' <=> <<"rows", t, m>> \in K
    BY <1>2, <1>4
  <2>3. Held' = K
    <3> HIDE DEF K
    <3> QED
      BY <2>1, <2>2, SameRecords, HeldTyped
  <2> QED
    BY <1>4, <2>3
<1> QED
  BY <1>3, <1>4

LEMMA HeldAfterPutDevice ==
    ASSUME WorldTyped(fgt, orm), NEW s \in Scopes, NEW n \in Names, NEW r, PutDevice(s, n, r)
    PROVE  /\ r # Absent => Held' = Held \cup {<<"device", s, n>>}
           /\ r = Absent => Held' = Held \ {<<"device", s, n>>}
<1>1. ASSUME NEW t \in Scopes, NEW m \in Names
      PROVE  /\ fgt'[t][m] = IF t = s /\ m = n THEN r ELSE fgt[t][m]
             /\ orm' = orm
  BY PutDeviceReads
<1>2. ASSUME NEW t \in Scopes, NEW m \in Names
      PROVE  /\ <<"rows", t, m>> \in Held' <=> <<"rows", t, m>> \in Held
             /\ <<"device", t, m>> \in Held' <=>
                   IF t = s /\ m = n THEN r # Absent ELSE <<"device", t, m>> \in Held
  BY <1>1, HeldReads, HeldReadsNext
<1>3. CASE r # Absent
  <2> DEFINE K == Held \cup {<<"device", s, n>>}
  <2>1. K \in SUBSET ({"device", "rows"} \X Scopes \X Names)
    BY HeldTyped
  <2>2. \A t \in Scopes, m \in Names :
          /\ <<"device", t, m>> \in Held' <=> <<"device", t, m>> \in K
          /\ <<"rows", t, m>> \in Held' <=> <<"rows", t, m>> \in K
    BY <1>2, <1>3
  <2>3. Held' = K
    <3> HIDE DEF K
    <3> QED
      BY <2>1, <2>2, SameRecords, HeldTyped
  <2> QED
    BY <1>3, <2>3
<1>4. CASE r = Absent
  <2> DEFINE K == Held \ {<<"device", s, n>>}
  <2>1. K \in SUBSET ({"device", "rows"} \X Scopes \X Names)
    BY HeldTyped
  <2>2. \A t \in Scopes, m \in Names :
          /\ <<"device", t, m>> \in Held' <=> <<"device", t, m>> \in K
          /\ <<"rows", t, m>> \in Held' <=> <<"rows", t, m>> \in K
    BY <1>2, <1>4
  <2>3. Held' = K
    <3> HIDE DEF K
    <3> QED
      BY <2>1, <2>2, SameRecords, HeldTyped
  <2> QED
    BY <1>4, <2>3
<1> QED
  BY <1>3, <1>4

\* A row that is deleted leaves groups, but no other row goes.
LEMMA HeldAfterWithoutRow ==
    ASSUME WorldTyped(fgt, orm), NEW s \in Scopes, NEW n \in Names,
           orm' = WithoutRow(s, n), UNCHANGED fgt
    PROVE  Held' = Held \ {<<"rows", s, n>>}
<1>1. ASSUME NEW t \in Scopes, NEW m \in Names
      PROVE  orm'[t][m] # Absent <=> orm[t][m] # Absent /\ ~(t = s /\ m = n)
  <2>1. orm'[t][m] = IF t = s /\ m = n THEN Absent
                     ELSE IF m \in GrpNames /\ orm[t][m] # Absent
                     THEN [orm[t][m] EXCEPT !.members = @ \ {<<s, n>>}]
                     ELSE orm[t][m]
    BY DEF WithoutRow
  <2>2. CASE m \in GrpNames /\ orm[t][m] # Absent /\ ~(t = s /\ m = n)
    <3>1. orm[t][m] \in OrmGrp(m)
      BY <2>2 DEF WorldTyped, RowsTyped
    <3>2. [orm[t][m] EXCEPT !.members = @ \ {<<s, n>>}] \in OrmGrp(m)
      BY <3>1 DEF OrmGrp
    <3> QED
      BY <2>1, <2>2, <3>2, AbsentAssumption
  <2> QED
    BY <2>1, <2>2
<1>2. ASSUME NEW t \in Scopes, NEW m \in Names
      PROVE  /\ <<"device", t, m>> \in Held' <=> <<"device", t, m>> \in Held
             /\ <<"rows", t, m>> \in Held' <=>
                   <<"rows", t, m>> \in Held /\ ~(t = s /\ m = n)
  BY <1>1, HeldReads, HeldReadsNext
<1> DEFINE K == Held \ {<<"rows", s, n>>}
<1>3. K \in SUBSET ({"device", "rows"} \X Scopes \X Names)
  BY HeldTyped
<1>4. \A t \in Scopes, m \in Names :
        /\ <<"device", t, m>> \in Held' <=> <<"device", t, m>> \in K
        /\ <<"rows", t, m>> \in Held' <=> <<"rows", t, m>> \in K
  BY <1>2
<1> HIDE DEF K
<1>5. Held' = K
  BY <1>3, <1>4, SameRecords, HeldTyped
<1> QED
  BY <1>5 DEF K

\* A job's step to phase p is a step to stage StageOf(p), and its other jobs'
\* stages stay.
LEMMA StageMoves ==
    ASSUME TypeOK, NEW j \in Jobs, NEW p, NEW q, StageOf(p) = q,
           phase' = [phase EXCEPT ![j] = p]
    PROVE  Stage' = [Stage EXCEPT ![j] = q]
<1>1. phase \in [Jobs -> Idle \cup Running]
  BY DEF TypeOK
<1> QED
  BY <1>1 DEF Stage

LEMMA StageReads ==
    ASSUME NEW j \in Jobs
    PROVE  /\ phase[j] \in Idle => Stage[j] \in {"idle", "done", "stopped"}
           /\ phase[j] \in Running => Stage[j] \in {"reading", "applying"}
           /\ phase[j] = "syncing" => Stage[j] = "applying"
           /\ phase[j] \in Loading \cup {"loaded"} => Stage[j] = "reading"
<1>1. Stage[j] = StageOf(phase[j])
  BY DEF Stage
<1>2. phase[j] \in Idle => StageOf(phase[j]) \in {"idle", "done", "stopped"}
  BY DEF StageOf, Idle, Loading
<1>3. phase[j] \in Loading \cup {"loaded"} => StageOf(phase[j]) = "reading"
  BY DEF StageOf
<1>4. phase[j] \in Running => StageOf(phase[j]) \in {"reading", "applying"}
  BY DEF StageOf, Running
<1>5. phase[j] = "syncing" => StageOf(phase[j]) = "applying"
  BY DEF StageOf, Loading
<1> QED
  BY <1>1, <1>2, <1>3, <1>4, <1>5

LEMMA OrderTyped ==
    ASSUME NEW r \in Requests
    PROVE  OrderOf(r) \in Job!Orders
BY ConstantsAssumption DEF OrderOf, Requests, Job!Orders, Job!Systems

LEMMA RecordsAre == Job!Records = {"device", "rows"} \X Scopes \X Names
BY DEF Job!Records, Job!Systems

----------------------------------------------------------------------------
(* Every step of AddressSync is one of SyncJob, or changes nothing there.  *)

LEMMA InitMaps == Init => Job!Init
<1> SUFFICES ASSUME Init PROVE Job!Init
  OBVIOUS
<1>1. Held \in SUBSET Job!Records
  BY HeldTyped, RecordsAre
<1>2. Stage = [j \in Jobs |-> "idle"]
  BY DEF Init, Stage, StageOf, Loading
<1>3. Order \in [Jobs -> Job!Orders]
  <2>1. \A j \in Jobs : req[j] \in Requests
    BY ConstantsAssumption DEF Init, Requests
  <2> QED
    BY <2>1, OrderTyped DEF Order
<1>4. todo = [j \in Jobs |-> Job!NoPlan] /\ edits = 0
  BY DEF Init, NoWork, Job!NoPlan
<1> QED
  BY <1>1, <1>2, <1>3, <1>4 DEF Job!Init

LEMMA StartMaps ==
    ASSUME TypeOK, NEW j \in Jobs, Start(j)
    PROVE  Job!Begin(j)
<1>1. Stage[j] \in Job!Resting
  BY StageReads DEF Start, Job!Resting
<1>2. Stage' = [Stage EXCEPT ![j] = "reading"]
  <2>1. StageOf("source") = "reading"
    BY DEF StageOf, Loading
  <2>2. phase' = [phase EXCEPT ![j] = "source"]
    BY DEF Start
  <2> QED
    BY <2>1, <2>2, StageMoves
<1>3. \E o \in Job!Orders : Order' = [Order EXCEPT ![j] = o]
  <2>1. PICK r \in Requests : req' = [req EXCEPT ![j] = r]
    BY DEF Start
  <2>2. Order' = [Order EXCEPT ![j] = OrderOf(r)]
    BY <2>1 DEF TypeOK, Order
  <2> QED
    BY <2>2, OrderTyped
<1>4. todo' = [todo EXCEPT ![j] = Job!NoPlan] /\ Held' = Held /\ edits' = edits
  BY HeldKept DEF Start, NoWork, Job!NoPlan, worldVars
<1> QED
  BY <1>1, <1>2, <1>3, <1>4 DEF Job!Begin, Job!Enter

LEMMA LoadMaps ==
    ASSUME TypeOK, NEW j \in Jobs, Load(j)
    PROVE  UNCHANGED Job!syncVars
<1>1. PICK p, q \in Loading \cup {"loaded"} :
        phase[j] = p /\ phase' = [phase EXCEPT ![j] = q] /\ p \in Loading
  BY DEF Load, LoadSourceAddresses, LoadSourceGroups, LoadTargetAddresses,
         LoadTargetGroups, Loading
<1>2. Stage' = Stage
  <2>1. StageOf(q) = "reading"
    BY DEF StageOf
  <2>2. Stage' = [Stage EXCEPT ![j] = "reading"]
    BY <1>1, <2>1, StageMoves
  <2>3. Stage[j] = "reading"
    BY <1>1, StageReads
  <2> QED
    BY <2>2, <2>3 DEF Stage
<1>3. UNCHANGED <<worldVars, req, todo, edits>>
  BY DEF Load, LoadSourceAddresses, LoadSourceGroups, LoadTargetAddresses, LoadTargetGroups
<1> QED
  BY <1>2, <1>3, HeldKept DEF Job!syncVars, Order

LEMMA ExecuteSyncMaps ==
    ASSUME TypeOK, NEW j \in Jobs, ExecuteSync(j)
    PROVE  Job!Decide(j)
<1>1. Stage[j] = "reading"
  BY StageReads DEF ExecuteSync, Loading
<1>2. Stage' = [Stage EXCEPT ![j] = "applying"]
  <2>1. StageOf("syncing") = "applying"
    BY DEF StageOf, Loading
  <2>2. phase' = [phase EXCEPT ![j] = "syncing"]
    BY DEF ExecuteSync
  <2> QED
    BY <2>1, <2>2, StageMoves
<1>3. \E p \in Job!Plans :
        /\ p.write \cap p.delete = {}
        /\ ~Order[j].delete => p.delete = {}
        /\ todo' = [todo EXCEPT ![j] = p]
  <2> DEFINE p == [write |-> Writes(src[j], dst[j]),
                   delete |-> IF req[j].delete THEN Deletes(src[j], dst[j]) ELSE {}]
  <2>1. p \in Job!Plans /\ p.write \cap p.delete = {}
    BY DEF Job!Plans, Writes, Deletes
  <2>2. ~Order[j].delete => p.delete = {}
    BY DEF Order, OrderOf
  <2>3. todo' = [todo EXCEPT ![j] = p]
    BY DEF ExecuteSync
  <2> HIDE DEF p
  <2> QED
    BY <2>1, <2>2, <2>3
<1>4. Held' = Held /\ Order' = Order /\ edits' = edits
  BY HeldKept DEF ExecuteSync, Order, worldVars
<1> QED
  BY <1>1, <1>2, <1>3, <1>4 DEF Job!Decide, Job!Enter

\* A call that raised wrote nothing.
LEMMA RaisedMaps ==
    ASSUME TypeOK, NEW j \in Jobs, phase[j] \in Running,
           \/ Raised(j)
           \/ Crash(j)
    PROVE  Job!Stop(j)
<1>1. Stage[j] \in Job!Active
  BY StageReads DEF Job!Active
<1>2. Stage' = [Stage EXCEPT ![j] = "stopped"]
  <2>1. PICK p \in {"failed", "crashed"} : phase' = [phase EXCEPT ![j] = p]
    BY DEF Raised, Crash
  <2>2. StageOf(p) = "stopped"
    BY DEF StageOf, Loading
  <2> QED
    BY <2>1, <2>2, StageMoves
<1>3. UNCHANGED <<Held, Order, todo, edits>>
  BY HeldKept DEF Raised, Crash, Order, worldVars
<1> QED
  BY <1>1, <1>2, <1>3 DEF Job!Stop, Job!Enter

\* Taking a name off the list changes nothing else that the map sees.
LEMMA AppliedMaps ==
    ASSUME NEW j \in Jobs, NEW n \in Names, phase[j] = "syncing", Applied(j, n),
           Job!Perform(j, n)
    PROVE  Job!Apply(j)
<1>1. Stage[j] = "applying"
  BY StageReads
<1>2. UNCHANGED <<Stage, Order, edits>>
  BY DEF Applied, Stage, Order
<1>3. todo' = [todo EXCEPT ![j] = [write |-> @.write \ {n}, delete |-> @.delete \ {n}]]
  BY DEF Applied
<1> QED
  BY <1>1, <1>2, <1>3 DEF Job!Apply

LEMMA PullMaps ==
    ASSUME SyncInvariant, NEW j \in Jobs, PullEffect(j), req[j].kind = "pull"
    PROVE  Job!Apply(j) \/ Job!Stop(j)
<1>p. phase[j] = "syncing" /\ phase[j] \in Running
  BY DEF PullEffect, Running
<1>0. /\ TypeOK /\ WorldTyped(fgt, orm) /\ req[j].scope \in Scopes
      /\ todo[j].write \cup todo[j].delete \subseteq Names
  BY DEF SyncInvariant, TypeOK, Requests
<1>r. \A n : Job!Record(j, n) = <<"rows", req[j].scope, n>>
  BY DEF Job!Record, Order, OrderOf
<1>1. CASE Raised(j)
  BY <1>0, <1>1, <1>p, RaisedMaps
<1>2. ASSUME NEW n \in todo[j].write, Applied(j, n), KeepRows
      PROVE  Job!Apply(j)
  <2>1. Job!Perform(j, n)
    BY <1>2, HeldKept DEF KeepRows, Job!Perform, Job!Written
  <2> QED
    BY <1>0, <1>2, <1>p, <2>1, AppliedMaps
<1>3. ASSUME NEW n \in todo[j].write, Applied(j, n), NEW r \in OrmRow(n),
             PutRow(req[j].scope, n, r)
      PROVE  Job!Apply(j)
  <2>1. r # Absent
    BY <1>0, AbsentAssumption DEF OrmRow
  <2>2. Held' = Held \cup {Job!Record(j, n)}
    BY <1>0, <1>3, <1>r, <2>1, HeldAfterPutRow
  <2>3. Job!Perform(j, n)
    BY <2>2 DEF Job!Perform, Job!Written
  <2> QED
    BY <1>0, <1>3, <1>p, <2>3, AppliedMaps
<1>4. ASSUME NEW n \in todo[j].delete, Applied(j, n),
             \/ orm' = WithoutRow(req[j].scope, n) /\ UNCHANGED fgt
             \/ PutRow(req[j].scope, n, Absent)
      PROVE  Job!Apply(j)
  <2>1. Held' = Held \ {Job!Record(j, n)}
    BY <1>0, <1>4, <1>r, HeldAfterPutRow, HeldAfterWithoutRow
  <2>2. Job!Perform(j, n)
    BY <2>1 DEF Job!Perform, Job!Deleted
  <2> QED
    BY <1>0, <1>4, <1>p, <2>2, AppliedMaps
<1> QED
  BY <1>1, <1>2, <1>3, <1>4 DEF PullEffect

LEMMA PushMaps ==
    ASSUME SyncInvariant, NEW j \in Jobs, PushEffect(j), req[j].kind = "push"
    PROVE  Job!Apply(j) \/ Job!Stop(j)
<1>p. phase[j] = "syncing" /\ phase[j] \in Running
  BY DEF PushEffect, Running
<1>0. /\ TypeOK /\ WorldTyped(fgt, orm) /\ Device(j) \in Scopes
      /\ todo[j].write \cup todo[j].delete \subseteq Names
  BY DeviceInScopes DEF SyncInvariant, TypeOK
<1>r. \A n : Job!Record(j, n) = <<"device", Device(j), n>>
  BY DEF Job!Record, Order, OrderOf, Device
<1>1. CASE Raised(j)
  BY <1>0, <1>1, <1>p, RaisedMaps
<1>2. ASSUME NEW n \in todo[j].write, NEW r, Applied(j, n), PutDevice(Device(j), n, r),
             n \in AddrNames => r \in AddrRec, n \in GrpNames => r \in GrpRec
      PROVE  Job!Apply(j)
  <2>1. r # Absent
    BY <1>0, <1>2, AbsentAssumption DEF Names
  <2>2. Held' = Held \cup {Job!Record(j, n)}
    BY <1>0, <1>2, <1>r, <2>1, HeldAfterPutDevice
  <2>3. Job!Perform(j, n)
    BY <2>2 DEF Job!Perform, Job!Written
  <2> QED
    BY <1>0, <1>2, <1>p, <2>3, AppliedMaps
<1>3. ASSUME NEW n \in todo[j].delete, Applied(j, n), PutDevice(Device(j), n, Absent)
      PROVE  Job!Apply(j)
  <2>1. Held' = Held \ {Job!Record(j, n)}
    BY <1>0, <1>3, <1>r, HeldAfterPutDevice
  <2>2. Job!Perform(j, n)
    BY <2>1 DEF Job!Perform, Job!Deleted
  <2> QED
    BY <1>0, <1>3, <1>p, <2>2, AppliedMaps
<1> QED
  BY <1>1, <1>2, <1>3 DEF PushEffect

LEMMA FinishMaps ==
    ASSUME TypeOK, NEW j \in Jobs, Finish(j)
    PROVE  Job!End(j)
<1>1. Stage[j] = "applying"
  BY StageReads DEF Finish, Loading
<1>2. Stage' = [Stage EXCEPT ![j] = "done"]
  <2>1. StageOf("done") = "done"
    BY DEF StageOf, Loading
  <2>2. phase' = [phase EXCEPT ![j] = "done"]
    BY DEF Finish
  <2> QED
    BY <2>1, <2>2, StageMoves
<1>3. todo[j] = Job!NoPlan /\ UNCHANGED <<Held, Order, todo, edits>>
  BY HeldKept DEF Finish, Order, NoWork, Job!NoPlan, worldVars
<1> QED
  BY <1>1, <1>2, <1>3 DEF Job!End, Job!Enter

LEMMA OperatorsMap ==
    ASSUME Operators
    PROVE  Job!Operate
<1>1. edits' = edits + 1
  BY DEF Operators, DeviceAddressEdit, RowAddressEdit, DeviceGroupEdit, RowGroupEdit,
         DeviceDelete, RowDelete, Edited
<1>2. UNCHANGED <<Stage, Order, todo>>
  BY OperatorsLeaveJobs DEF jobVars, Stage, Order
<1> QED
  BY <1>1, <1>2, HeldTyped, RecordsAre DEF Job!Operate

\* The kind of the job that a CRUD call belongs to.
LEMMA CallKinds ==
    ASSUME NEW j \in Jobs
    PROVE  /\ Pull(j) => req[j].kind = "pull"
           /\ Push(j) => req[j].kind = "push"
BY DEF Pull, PullAddressCreate, PullAddressUpdate, PullAddressDelete,
       PullGroupCreate, PullGroupUpdate, PullGroupDelete,
       Push, PushAddressCreate, PushAddressUpdate, PushAddressDelete,
       PushGroupCreate, PushGroupUpdate, PushGroupDelete, Turn

\* Pull and push implement the abstract job, whatever names, scopes and jobs
\* there are: each planned record is written or deleted once, on the side and
\* in the place that was ordered, and nothing is deleted that was not ordered.
THEOREM AddressImplementsSyncJob == Spec => ImplementsSyncJob
<1>1. Init => Job!Init
  BY InitMaps
<1>2. SyncInvariant /\ [Next]_vars => [Job!Next]_Job!syncVars
  <2> SUFFICES ASSUME SyncInvariant, [Next]_vars
               PROVE  Job!Next \/ UNCHANGED Job!syncVars
    OBVIOUS
  <2>0. TypeOK
    BY DEF SyncInvariant
  <2>1. ASSUME NEW j \in Jobs, Start(j) PROVE Job!Next
    BY <2>0, <2>1, StartMaps DEF Job!Next
  <2>2. ASSUME NEW j \in Jobs, Load(j) PROVE UNCHANGED Job!syncVars
    BY <2>0, <2>2, LoadMaps
  <2>3. ASSUME NEW j \in Jobs, ExecuteSync(j) PROVE Job!Next
    BY <2>0, <2>3, ExecuteSyncMaps DEF Job!Next
  <2>4. ASSUME NEW j \in Jobs, Pull(j) PROVE Job!Next
    BY <2>4, CallKinds, PullHasEffect, PullMaps DEF Job!Next
  <2>5. ASSUME NEW j \in Jobs, Push(j) PROVE Job!Next
    BY <2>5, CallKinds, PushHasEffect, PushMaps DEF Job!Next
  <2>6. ASSUME NEW j \in Jobs, Finish(j) PROVE Job!Next
    BY <2>0, <2>6, FinishMaps DEF Job!Next
  <2>7. ASSUME NEW j \in Jobs, Crash(j) PROVE Job!Next
    BY <2>0, <2>7, RaisedMaps DEF Job!Next, Crash
  <2>8. CASE Operators
    BY <2>8, OperatorsMap DEF Job!Next
  <2>9. CASE UNCHANGED vars
    BY <2>9, HeldKept DEF vars, worldVars, Job!syncVars, Stage, Order
  <2> QED
    BY <2>1, <2>2, <2>3, <2>4, <2>5, <2>6, <2>7, <2>8, <2>9 DEF Next, Work
<1> QED
  BY <1>1, <1>2, SyncInvariantHolds, PTL DEF Spec, ImplementsSyncJob, Job!Spec
=============================================================================
