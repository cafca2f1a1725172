--------------------------- MODULE DatabaseManager ---------------------------
(***************************************************************************)
(* The reads the app's handlers start and the callbacks that finish them.  *)
(* Each is served from the client's mirror: the event holds what the       *)
(* mirror showed when the read was registered, the callback runs later on  *)
(* the main queue and writes.  So a call in the queue is a write computed  *)
(* from data read earlier, except for a query that found nothing, which    *)
(* waits, and an event of a grade observer, which computes its rating when *)
(* it runs.                                                                *)
(***************************************************************************)
EXTENDS AppState

WriteCall(w) == [op |-> "write", put |-> w]

\* insertActivities, insertGrades, insertComments: read the list, write it back
\* one longer.
InsertAlone(d, u, field, item) ==   \* slip: the list read is dropped
  <<WriteCall(PutLeaf(<<SafeEmail[u], field>>, <<item>>))>>
Insert(d, u, field, item) ==
  LET l == <<SafeEmail[u], field>>
  IN  <<WriteCall(PutLeaf(l, Append(view[d][l], item)))>>

\* insertRating: an observer that stays, told the present grades first.
InsertRating(d, u) ==
  LET grades == view[d][<<SafeEmail[u], "grades">>]
  IN  IF grades = <<>> THEN <<>>
      ELSE <<[op |-> "rate", watch |-> Len(watches[d]) + 1, grades |-> grades]>>
NewWatch(u) == [path |-> SafeEmail[u], sum |-> 0, count |-> 0]

\* updateChildValues, one field at a time, on the record with key k.
UpdateCalls(k, puts) ==
  [i \in DOMAIN puts |-> WriteCall(PutField(k, puts[i][1], puts[i][2]))]

\* observeSingleEvent(of: .childAdded) on the requests named n: the first by key,
\* or, when there is none, the next one to come.
UpdateNamed(d, n, puts) ==
  IF Named(view[d], n) # {}
  THEN UpdateCalls(Min(Named(view[d], n)), puts)
  ELSE <<[op |-> "find", name |-> n, puts |-> puts]>>

\* Which request a by-name update of device d falls on.
Hit(d, n, v) == {<<k, v>> : k \in {k \in Named(view[d], n) :
                                     \A j \in Named(view[d], n) : k =< j}}
-----------------------------------------------------------------------------
\* The next callback of device d that has its event.
NextCall(d) == Min(Due(d))

RunWrite(d) ==
  LET i == NextCall(d)
  IN  /\ Due(d) # {} /\ calls[d][i].op = "write"
      /\ Emit(d, calls[d][i].put, RemoveAt(calls[d], i), screen[d])
      /\ UNCHANGED <<found, watches, taps, history>>

\* A waiting query reports its request: the updates follow in the same callback.
RunFind(d) ==
  LET i == NextCall(d)
      call == calls[d][i]
  IN  /\ Due(d) # {} /\ call.op = "find"
      /\ calls' = [calls EXCEPT ![d] =
                     SubSeq(@, 1, i - 1)
                       \o UpdateCalls(Min(Named(view[d], call.name)), call.puts)
                       \o SubSeq(@, i + 1, Len(@))]
      /\ assigned' = assigned \cup
           UNION {Hit(d, call.name, call.puts[j][2]) :
                    j \in {j \in DOMAIN call.puts : call.puts[j][1] = "volunteer"}}
      /\ Quietly
      /\ UNCHANGED <<found, screen, watches, taps, issued, chosen, accepted, saved>>

\* Slip: a new list counts as one grade.
RunRateCountsOne(d) ==
  LET i == NextCall(d)
      call == calls[d][i]
      watch == watches[d][call.watch]
      sum == watch.sum + Total(call.grades)
      count == watch.count + 1
  IN  /\ Due(d) # {} /\ call.op = "rate"
      /\ watches' = [watches EXCEPT ![d][call.watch].sum = sum,
                                    ![d][call.watch].count = count]
      /\ Sync!LocalWrite(d, PutLeaf(<<watch.path, "rating">>,
                                    [sum |-> sum, count |-> count]))
      /\ Observe(d, RemoveAt(calls[d], i), screen[d])
      /\ UNCHANGED <<found, taps, history>>

\* An observer of insertRating adds the whole list to what it summed before.
RunRate(d) ==
  LET i == NextCall(d)
      call == calls[d][i]
      watch == watches[d][call.watch]
      sum == watch.sum + Total(call.grades)
      count == watch.count + Len(call.grades)
  IN  /\ Due(d) # {} /\ call.op = "rate"
      /\ watches' = [watches EXCEPT ![d][call.watch].sum = sum,
                                    ![d][call.watch].count = count]
      /\ Sync!LocalWrite(d, PutLeaf(<<watch.path, "rating">>,
                                    [sum |-> sum, count |-> count]))
      /\ Observe(d, RemoveAt(calls[d], i), screen[d])
      /\ UNCHANGED <<found, taps, history>>

\* What remains to be done for a screen that was popped: it has no navigation
\* controller left to dismiss.
Popped(queue) == Sift(queue, {i \in DOMAIN queue : queue[i].op # "dismiss"})

\* Slip: the call is never taken off the queue.
RunDismissAgain(d) ==
  LET i == NextCall(d)
  IN  /\ Due(d) # {} /\ calls[d][i].op = "dismiss"
      /\ screen' = [screen EXCEPT ![d] = LoginScreen]
      /\ Quietly
      /\ UNCHANGED <<found, calls, watches, taps, history>>

\* rejectTapped's callback ends by dismissing everything down to the login screen.
RunDismiss(d) ==
  LET i == NextCall(d)
  IN  /\ Due(d) # {} /\ calls[d][i].op = "dismiss"
      /\ calls' = [calls EXCEPT ![d] = Popped(RemoveAt(@, i))]
      /\ screen' = [screen EXCEPT ![d] = LoginScreen]
      /\ Quietly
      /\ UNCHANGED <<found, watches, taps, history>>

RunCallback(d) == RunWrite(d) \/ RunFind(d) \/ RunRate(d) \/ RunDismiss(d)
=============================================================================
