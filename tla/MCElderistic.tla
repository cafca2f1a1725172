---------------------------- MODULE MCElderistic ----------------------------
EXTENDS Elderistic

CONSTANTS e1, e2, v1, v2, o1, o2, shopping, lunch, walk

MCNone == <<>>
Ask(e, n) == [elder |-> e, name |-> n, status |-> Active, volunteer |-> NoUser]
Task(e, n, v) == [elder |-> e, name |-> n, status |-> Scheduled, volunteer |-> v]
MCOne == <<Ask(e1, shopping)>>
MCTwo == <<Ask(e1, shopping), Ask(e1, lunch)>>
MCTwins == <<Ask(e1, shopping), Ask(e2, shopping)>>
MCGraded == <<Task(e1, shopping, v1), Task(e1, lunch, v1), Task(e1, walk, v2)>>

MCSafeEmail == [u \in Account \cup {NoUser} |-> u]
=============================================================================
