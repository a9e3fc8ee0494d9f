------------------------------ MODULE SyncJob ------------------------------
(***************************************************************************)
(* What a synchronisation job promises about the records it may write,     *)
(* whatever they hold.  A job is ordered to write one side of one place;   *)
(* it reads, takes a plan of names to write and names to delete, and works *)
(* the plan off, each name once.  It never has the source's records or     *)
(* another place's change, deletes nothing unless its order says so, and   *)
(* is done only when nothing of the plan is left.  It may stop at any      *)
(* moment, with what it has written staying written.                       *)
(*                                                                         *)
(* Everything else that comes or goes is the work of an operator.          *)
(***************************************************************************)
EXTENDS Naturals

CONSTANTS Jobs, Places, Names

VARIABLES
    held,    \* the records that exist: <<side, place, name>>
    stage,   \* stage[j]: how far job j is
    order,   \* order[j]: what it was told
    plan,    \* plan[j]: the names it still has to write and to delete
    edits    \* steps of operators so far

syncVars == <<held, stage, order, plan, edits>>

Systems == {"device", "rows"}
Records == Systems \X Places \X Names
Orders == [side : Systems, place : Places, delete : BOOLEAN]
Plans == [write : SUBSET Names, delete : SUBSET Names]
NoPlan == [write |-> {}, delete |-> {}]

Resting == {"idle", "done", "stopped"}
Active == {"reading", "applying"}

Init ==
    /\ held \in SUBSET Records
    /\ stage = [j \in Jobs |-> "idle"]
    /\ order \in [Jobs -> Orders]
    /\ plan = [j \in Jobs |-> NoPlan]
    /\ edits = 0

Enter(j, s) == stage' = [stage EXCEPT ![j] = s]

Begin(j) ==
    /\ stage[j] \in Resting
    /\ Enter(j, "reading")
    /\ \E o \in Orders : order' = [order EXCEPT ![j] = o]
    /\ plan' = [plan EXCEPT ![j] = NoPlan]
    /\ UNCHANGED <<held, edits>>

\* A name is written or deleted, not both.
Decide(j) ==
    /\ stage[j] = "reading"
    /\ Enter(j, "applying")
    /\ \E p \in Plans :
          /\ p.write \cap p.delete = {}
          /\ ~order[j].delete => p.delete = {}
          /\ plan' = [plan EXCEPT ![j] = p]
    /\ UNCHANGED <<held, order, edits>>

Record(j, n) == <<order[j].side, order[j].place, n>>

\* A record written may have been there, and may have vanished meanwhile.
Written(j, n) == held' \in {held, held \cup {Record(j, n)}}
Deleted(j, n) == held' = held \ {Record(j, n)}

Perform(j, n) ==
    \/ n \in plan[j].write /\ Written(j, n)
    \/ n \in plan[j].delete /\ Deleted(j, n)

Apply(j) ==
    /\ stage[j] = "applying"
    /\ \E n \in Names :
          /\ Perform(j, n)
          /\ plan' = [plan EXCEPT ![j] = [write |-> @.write \ {n}, delete |-> @.delete \ {n}]]
    /\ UNCHANGED <<stage, order, edits>>

End(j) ==
    /\ stage[j] = "applying"
    /\ plan[j] = NoPlan
    /\ Enter(j, "done")
    /\ UNCHANGED <<held, order, plan, edits>>

\* An error, or the end of the worker, perhaps in the middle of a write.
Stop(j) ==
    /\ stage[j] \in Active
    /\ \/ UNCHANGED held
       \/ stage[j] = "applying" /\ \E n \in plan[j].write : Written(j, n)
    /\ Enter(j, "stopped")
    /\ UNCHANGED <<order, plan, edits>>

Operate ==
    /\ held' \in SUBSET Records
    /\ edits' = edits + 1
    /\ UNCHANGED <<stage, order, plan>>

Next ==
    \/ \E j \in Jobs : Begin(j) \/ Decide(j) \/ Apply(j) \/ End(j) \/ Stop(j)
    \/ Operate

Spec == Init /\ [][Next]_syncVars
=============================================================================
