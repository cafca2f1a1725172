---------------------------- MODULE FirebaseSync ----------------------------
(***************************************************************************)
(* The Firebase Realtime Database as the app's screens see it: one server  *)
(* tree and, on every device, a client that mirrors the part it listens to *)
(* (Pods/FirebaseDatabase; the server itself is outside the repository).   *)
(*                                                                         *)
(* The tree is its leaves.  setValue, updateChildValues and removeValue    *)
(* are one partial function from leaves to new values, an absent leaf      *)
(* being a value like any other.  A write takes effect in the writer's own *)
(* view at once, travels to the server in the order it was issued, and     *)
(* reaches every client that listens, and its writer, in server order.     *)
(* A client never lets older server data through where a write of its own  *)
(* is still unacknowledged.                                                *)
(*                                                                         *)
(* Bounds: MaxPending writes unsent per client, MaxInbox messages under    *)
(* way to a client, MaxReconnects and MaxRestarts in a behaviour.          *)
(***************************************************************************)
EXTENDS Naturals, Sequences, Lists

CONSTANTS Client,      \* the devices
          Leaf,        \* the leaves of the database tree
          Value,       \* what a leaf can hold, its absence included
          Blank,       \* the database at the start
          Listens,     \* the leaves each client has observers on
          MaxPending, MaxInbox, MaxReconnects, MaxRestarts

ASSUME BlankAssumption == Blank \in [Leaf -> Value]
ASSUME ListensAssumption == Listens \in [Client -> SUBSET Leaf]
ASSUME BoundAssumption == /\ MaxPending \in Nat
                          /\ MaxInbox \in Nat
                          /\ MaxReconnects \in Nat
                          /\ MaxRestarts \in Nat

VARIABLES server,   \* the database
          view,     \* what each client shows to its listeners
          pending,  \* each client's writes the server has not processed
          unheard,  \* those it processed and has not yet acknowledged
          inbox,    \* the server's messages under way to each client
          reconnects, restarts   \* how many so far

syncVars == <<server, view, pending, unheard, inbox, reconnects, restarts>>

Write == UNION {[S -> Value] : S \in (SUBSET Leaf) \ {{}}}
Message == [from : Client, put : Write]

TypeOK == /\ server \in [Leaf -> Value]
          /\ view \in [Client -> [Leaf -> Value]]
          /\ pending \in [Client -> Seq(Write)]
          /\ unheard \in [Client -> Seq(Write)]
          /\ inbox \in [Client -> Seq(Message)]
          /\ reconnects \in Nat
          /\ restarts \in Nat
-----------------------------------------------------------------------------
\* What client c shows of data, and of a write: what it listens to.
MirrorListenedOnly(c, data) == [l \in Listens[c] |-> data[l]]   \* slip: a smaller tree
Mirror(c, data) == [l \in Leaf |-> IF l \in Listens[c] THEN data[l] ELSE Blank[l]]
SeenWhole(c, w) == IF DOMAIN w \subseteq Listens[c] THEN DOMAIN w ELSE {}   \* slip
Seen(c, w) == DOMAIN w \cap Listens[c]

Overlay(w, data) == [l \in Leaf |-> IF l \in DOMAIN w THEN w[l] ELSE data[l]]

\* The largest of a set of positions, as a set: empty when there is none.
Latest(S) == {i \in S : \A j \in S : j =< i}

\* The positions at which a write touches leaf l: among the writes the server
\* has not processed, among the messages to come, and among those messages the
\* ones that echo a write of c's own.
Touching(ws, l) == {i \in DOMAIN ws : l \in DOMAIN ws[i]}
Unsent(c, l) == Touching(pending[c], l)
Coming(c, l) == {i \in DOMAIN inbox[c] : l \in DOMAIN inbox[c][i].put}
Echo(c, l) == {i \in Coming(c, l) : inbox[c][i].from = c}

\* A write of c's own on l is still unacknowledged: it hides the server's value.
ShadowedByUnsent(c, l) == Unsent(c, l) # {}   \* slip: forgotten once processed
Shadowed(c, l) == Unsent(c, l) # {} \/ Echo(c, l) # {}

\* What c has no acknowledgement of, in the order it was written.
Unacked(c) == unheard[c] \o pending[c]

\* The writes of ws applied to data in order.
ReplayNothing(ws, data) == data   \* slip: the server's data as it stands
Replay(ws, data) ==
  [l \in Leaf |-> IF Touching(ws, l) = {} THEN data[l]
                  ELSE ws[CHOOSE i \in Latest(Touching(ws, l)) : TRUE][l]]
-----------------------------------------------------------------------------
Init == /\ server = Blank
        /\ view = [c \in Client |-> Blank]
        /\ pending = [c \in Client |-> <<>>]
        /\ unheard = [c \in Client |-> <<>>]
        /\ inbox = [c \in Client |-> <<>>]
        /\ reconnects = 0
        /\ restarts = 0

\* A set, an update or a removal: seen locally at once, then on its way.
LocalWrite(c, w) ==
  /\ Len(pending[c]) < MaxPending
  /\ view' = [view EXCEPT ![c] = Mirror(c, Overlay(w, @))]
  /\ pending' = [pending EXCEPT ![c] = Append(@, w)]
  /\ UNCHANGED <<server, unheard, inbox, reconnects, restarts>>

\* The server processes the next write of c and tells every listener.
Commit(c) ==
  /\ pending[c] # <<>>
  /\ \A d \in Client : Len(inbox[d]) < MaxInbox
  /\ server' = Overlay(Head(pending[c]), server)
  /\ pending' = [pending EXCEPT ![c] = Tail(@)]
  /\ unheard' = [unheard EXCEPT ![c] = Append(@, Head(pending[c]))]
  /\ inbox' = [d \in Client |->
                 IF d = c \/ Seen(d, Head(pending[c])) # {}
                 THEN Append(inbox[d], [from |-> c, put |-> Head(pending[c])])
                 ELSE inbox[d]]
  /\ UNCHANGED <<view, reconnects, restarts>>

\* Client c receives the next message: the acknowledgement of a write of its
\* own changes nothing it shows, another client's write shows where c has no
\* unacknowledged write.
Deliver(c) ==
  /\ inbox[c] # <<>>
  /\ inbox' = [inbox EXCEPT ![c] = Tail(@)]
  /\ LET m == Head(inbox[c])
     IN  /\ view' = [view EXCEPT ![c] =
                       [l \in Leaf |->
                          IF m.from # c /\ l \in Seen(c, m.put) /\ ~Shadowed(c, l)
                          THEN m.put[l] ELSE @[l]]]
         /\ unheard' = IF m.from = c
                       THEN [unheard EXCEPT ![c] = SubSeq(@, 2, Len(@))]
                       ELSE unheard
  /\ UNCHANGED <<server, pending, reconnects, restarts>>

\* Slip: messages of the old connection are still read.
ReconnectKeepsInbox(c) ==
  /\ reconnects < MaxReconnects
  /\ reconnects' = reconnects + 1
  /\ Len(Unacked(c)) =< MaxPending
  /\ pending' = [pending EXCEPT ![c] = Unacked(c)]
  /\ unheard' = [unheard EXCEPT ![c] = <<>>]
  /\ view' = [view EXCEPT ![c] = Mirror(c, Replay(Unacked(c), server))]
  /\ UNCHANGED <<server, inbox, restarts>>

\* The connection is lost and restored: the client listens afresh and sends
\* again every write it has no acknowledgement of, processed or not.
Reconnect(c) ==
  /\ reconnects < MaxReconnects
  /\ reconnects' = reconnects + 1
  /\ Len(Unacked(c)) =< MaxPending
  /\ pending' = [pending EXCEPT ![c] = Unacked(c)]
  /\ unheard' = [unheard EXCEPT ![c] = <<>>]
  /\ inbox' = [inbox EXCEPT ![c] = <<>>]
  /\ view' = [view EXCEPT ![c] = Mirror(c, Replay(Unacked(c), server))]
  /\ UNCHANGED <<server, restarts>>

\* Slip: the view of the previous run is taken over.
RestartKeepsView(c) ==
  /\ restarts < MaxRestarts
  /\ restarts' = restarts + 1
  /\ pending' = [pending EXCEPT ![c] = <<>>]
  /\ unheard' = [unheard EXCEPT ![c] = <<>>]
  /\ inbox' = [inbox EXCEPT ![c] = <<>>]
  /\ UNCHANGED <<server, view, reconnects>>

\* The app is killed and started again.  Nothing is kept on the device, so the
\* writes not yet sent are lost.
Restart(c) ==
  /\ restarts < MaxRestarts
  /\ restarts' = restarts + 1
  /\ pending' = [pending EXCEPT ![c] = <<>>]
  /\ unheard' = [unheard EXCEPT ![c] = <<>>]
  /\ inbox' = [inbox EXCEPT ![c] = <<>>]
  /\ view' = [view EXCEPT ![c] = Mirror(c, server)]
  /\ UNCHANGED <<server, reconnects>>

Next == \E c \in Client : \/ \E w \in Write : LocalWrite(c, w)
                          \/ Commit(c)
                          \/ Deliver(c)
                          \/ Reconnect(c)
                          \/ Restart(c)

Spec == Init /\ [][Next]_syncVars
-----------------------------------------------------------------------------
\* The property of the mirror that every screen relies on: a device with nothing
\* under way in either direction shows the server's data.  Optimistic writes,
\* their echoes, resends and restarts leave no trace (FRepo, FWriteTree).
Converged ==
  \A c \in Client :
    (pending[c] = <<>> /\ inbox[c] = <<>>) => view[c] = Mirror(c, server)

\* Until its write is acknowledged a device shows what it wrote last, whatever
\* other devices' writes arrive meanwhile: a screen never flickers back.
ReadYourWrites ==
  \A c \in Client : \A l \in Listens[c] :
    /\ \A i \in Latest(Unsent(c, l)) : view[c][l] = pending[c][i][l]
    /\ Unsent(c, l) = {} =>
         \A i \in Latest(Echo(c, l)) : view[c][l] = inbox[c][i].put[l]

\* The last message under way that touches a leaf carries what the server holds:
\* nothing the server did is missing from, or late on, the way to a device.
NothingMissed ==
  \A c \in Client : \A l \in Listens[c] :
    \A i \in Latest(Coming(c, l)) : server[l] = inbox[c][i].put[l]

\* The acknowledgements under way to a device are those of its processed writes,
\* in order: a resend after a lost connection repeats exactly the unacknowledged.
EchoesInOrder ==
  \A c \in Client :
    LET own == Sift(inbox[c], {i \in DOMAIN inbox[c] : inbox[c][i].from = c})
    IN  unheard[c] = [i \in DOMAIN own |-> own[i].put]

\* A leaf with nothing under way that touches it is the server's: Converged, leaf
\* by leaf, which is what a step preserves.
LeafUpToDate ==
  \A c \in Client : \A l \in Listens[c] :
    (Unsent(c, l) = {} /\ Coming(c, l) = {}) => view[c][l] = server[l]

\* What a device does not listen to, it does not show.
Unobserved ==
  \A c \in Client : \A l \in Leaf \ Listens[c] : view[c][l] = Blank[l]

\* The inductive invariant behind Converged, with the two properties it needs on
\* the way: what hides the server's value, and what brings it.
IInv == TypeOK /\ ReadYourWrites /\ NothingMissed /\ LeafUpToDate /\ Unobserved
=============================================================================
