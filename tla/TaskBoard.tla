----------------------------- MODULE TaskBoard ------------------------------
(***************************************************************************)
(* What the organisation, its volunteers and the elders rely on, with no   *)
(* devices, mirrors or callbacks: a board of tasks.  A task is free until  *)
(* it is assigned, its volunteer gives it back or accepts it, who accepts  *)
(* keeps it, and only an accepted task is finished.  Its elder may take it *)
(* down at any time.                                                       *)
(***************************************************************************)
CONSTANTS Task, Volunteers

VARIABLE task

Gone == [stage |-> "gone"]
Free == [stage |-> "free"]
Held(s, v) == [stage |-> s, volunteer |-> v]

Init == task \in [Task -> {Gone, Free} \cup {Held("accepted", v) : v \in Volunteers}]

Step(t, from, to) == task[t] = from /\ task' = [task EXCEPT ![t] = to]

Post(t) == Step(t, Gone, Free)
Assign(t, v) == Step(t, Free, Held("assigned", v))
GiveBack(t, v) == Step(t, Held("assigned", v), Free)
Accept(t, v) == Step(t, Held("assigned", v), Held("accepted", v))
Finish(t, v) == Step(t, Held("accepted", v), Held("finished", v))
TakeDown(t) == task[t] # Gone /\ task' = [task EXCEPT ![t] = Gone]

Next == \E t \in Task : \/ Post(t) \/ TakeDown(t)
                        \/ \E v \in Volunteers : \/ Assign(t, v) \/ GiveBack(t, v)
                                                 \/ Accept(t, v) \/ Finish(t, v)

Spec == Init /\ [][Next]_task
=============================================================================
