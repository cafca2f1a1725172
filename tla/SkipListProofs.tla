--------------------------- MODULE SkipListProofs ---------------------------
(***************************************************************************)
(* Readers of the skip list need no lock, whatever the keys, the heights   *)
(* and the readers: no link is loaded before it is set (LinksAreSet), and  *)
(* no entry known to a reader is passed over (NothingSkipped).             *)
(***************************************************************************)
EXTENDS SkipList, WellFoundedInduction, TLAPS

Stores == 1..Len(stores)

\* The store of a node's own link comes first of all to it; the head has none.
OwnLinkIsFirst ==
    \A i \in Stores : ~stores[i].release =>
        /\ stores[i].at[1] \in Keys
        /\ \A j \in Stores : stores[j].at = stores[i].at => i <= j

\* A link leads to a node whose own link on that level was set before.
TargetsAreSet ==
    \A i \in Stores : stores[i].val \in Keys =>
        \E j \in StoresTo(stores[i].val, stores[i].at[2]) : j < i

\* A node's links are set from below.
LowerIsSet ==
    \A i \in Stores : stores[i].at[1] \in Keys /\ stores[i].at[2] > 0 =>
        \E j \in StoresTo(stores[i].at[1], stores[i].at[2] - 1) : j < i

\* A node is in the list or on its way into it.
NodesAreLinked ==
    \A i \in Stores : stores[i].at[1] \in Keys =>
        Linked(stores[i].at[1], 0) # {} \/ insert.key = stores[i].at[1]

\* How far the insertion has come.
InsertionStands ==
    insert.key \in Keys =>
        /\ insert.level < insert.height
        /\ \A i \in Stores : stores[i].at[1] = insert.key =>
               \/ stores[i].at[2] < insert.level
               \/ insert.ready /\ stores[i].at[2] = insert.level
        /\ insert.ready => StoresTo(insert.key, insert.level) # {}
        /\ insert.level > 0 => /\ StoresTo(insert.key, insert.level - 1) # {}
                               /\ Linked(insert.key, 0) # {}

\* A reader knows of a store to the links it is about to load.
Reached(f, x, l) == x = HeadNode \/ \E j \in StoresTo(x, l) : j <= f
ReadersReach ==
    \A r \in Reader :
        /\ node[r] \in Keys => Reached(floor[r], node[r], 0)
        /\ search[r].kind # "none" => Reached(floor[r], search[r].node, search[r].level)

LinksInv == /\ TypeOK /\ OwnLinkIsFirst /\ TargetsAreSet /\ LowerIsSet
            /\ NodesAreLinked /\ InsertionStands /\ ReadersReach
-----------------------------------------------------------------------------
\* What is linked at i is the first of its keys there, and comes behind the last node
\* before it of those linked earlier.
PrevIsLast ==
    \A k \in Keys : \A d \in Linked(k, 0) :
        LET p == stores[d].at[1]
        IN  /\ p < k
            /\ p = HeadNode \/ \E e \in Linked(p, 0) : e < d
            /\ \A m \in Keys : \A e \in Linked(m, 0) : e < d => ~(p < m /\ m < k)

\* Between the store of a node's own link and that of the link to it nothing is linked.
LinkedAtOnce ==
    \A x \in Keys : \A i \in StoresTo(x, 0) : \A k \in Keys : \A d \in Linked(k, 0) :
        d > i => \E e \in Linked(x, 0) : e <= d

\* A link passed over no key linked before it was stored.
LinksAreTight ==
    \A i \in Stores : stores[i].at[2] = 0 =>
        \A k \in Keys : \A d \in Linked(k, 0) :
            d <= i => ~(stores[i].at[1] < k /\ k < stores[i].val)

SearchIsBehind ==
    \A r \in Reader : search[r].kind # "none" =>
        search[r].node = HeadNode \/ search[r].node < search[r].target

DueIsKnown ==
    \A r \in Reader : \A k \in due[r] : \E d \in Linked(k, 0) : d <= floor[r]

OrderInv == /\ LinksInv /\ PrevIsLast /\ LinkedAtOnce /\ LinksAreTight
            /\ SearchIsBehind /\ DueIsKnown /\ NothingSkipped
-----------------------------------------------------------------------------
(* Lemmas on sets of numbers, on stores and on loads.                      *)

LEMMA LeastExists ==
  ASSUME NEW S \in SUBSET Nat, S # {}
  PROVE  \E i \in S : \A j \in S : i <= j
<1>1. PICK i \in S : \A j \in S : <<j, i>> \notin OpToRel(<, Nat)
  BY NatLessThanWellFounded, WFMin
<1>2. \A j \in S : ~ (j < i)
  BY <1>1 DEF OpToRel
<1> QED
  BY <1>2

LEMMA GreatestExists ==
  ASSUME NEW n \in Nat, NEW S \in SUBSET (0..n), S # {}
  PROVE  \E i \in S : \A j \in S : j <= i
<1> DEFINE T == {m \in Nat : n - m \in S}
<1>1. T # {}
  <2>1. PICK i \in S : TRUE
    OBVIOUS
  <2>2. n - i \in Nat /\ n - (n - i) = i
    OBVIOUS
  <2> QED
    BY <2>1, <2>2
<1>2. PICK m \in T : \A j \in T : m <= j
  <2>1. T \in SUBSET Nat
    OBVIOUS
  <2> HIDE DEF T
  <2> QED
    BY <1>1, <2>1, LeastExists
<1>3. n - m \in S
  OBVIOUS
<1>4. ASSUME NEW j \in S PROVE j <= n - m
  <2>1. n - j \in T
    OBVIOUS
  <2>2. m <= n - j
    BY <1>2, <2>1
  <2> QED
    BY <2>2
<1> QED
  BY <1>3, <1>4

\* What TypeOK says of a store.
LEMMA StoreTypes ==
  ASSUME TypeOK
  PROVE  /\ Len(stores) \in Nat
         /\ \A i \in Stores : /\ stores[i] \in Store
                              /\ stores[i].at \in Link
                              /\ stores[i].at = <<stores[i].at[1], stores[i].at[2]>>
                              /\ stores[i].at[1] \in Keys \cup {HeadNode}
                              /\ stores[i].at[2] \in Level
                              /\ stores[i].val \in Keys \cup {Nil}
                              /\ stores[i].release \in BOOLEAN
<1>1. stores \in Seq(Store)
  BY DEF TypeOK
<1>2. Len(stores) \in Nat /\ \A i \in Stores : stores[i] \in Store
  BY <1>1 DEF Stores
<1> QED
  BY <1>2 DEF Store, Link

LEMMA KeyTypes == /\ Nil \notin Keys /\ HeadNode \notin Keys /\ Unset \notin Keys
                  /\ Nil # Unset /\ Keys \subseteq Nat /\ Nil \in Nat
                  /\ \A k \in Keys : 0 < k /\ k < Nil
                  /\ MaxHeight \in Nat \ {0} /\ Level \subseteq Nat /\ 0 \in Level
BY SkipListAssumption DEF HeadNode, Unset, Level

\* How a store changes what there is.
LEMMA Appended ==
  ASSUME TypeOK, NEW s \in Store, NEW new, new = Len(stores) + 1, stores' = Append(stores, s)
  PROVE  /\ stores' \in Seq(Store)
         /\ Len(stores') = new
         /\ \A i \in Stores : stores'[i] = stores[i]
         /\ stores'[new] = s
         /\ Stores' = Stores \cup {new} /\ new \notin Stores
         /\ \A x, l : StoresTo(x, l) \subseteq StoresTo(x, l)'
         /\ \A x, l : s.at = <<x, l>> => new \in StoresTo(x, l)'
         /\ \A x, l : \A i \in StoresTo(x, l)' : i \in StoresTo(x, l) \/ i = new
         /\ \A k, l : Linked(k, l) \subseteq Linked(k, l)'
         /\ \A k, l : s.release /\ s.at[2] = l /\ s.val = k => new \in Linked(k, l)'
         /\ \A k, l : \A i \in Linked(k, l)' :
                \/ i \in Linked(k, l)
                \/ i = new /\ s.release /\ s.at[2] = l /\ s.val = k
<1>1. stores \in Seq(Store) /\ Len(stores) \in Nat
  BY StoreTypes DEF TypeOK
<1>2. /\ stores' \in Seq(Store)
      /\ Len(stores') = new
      /\ \A i \in 1..Len(stores) : stores'[i] = stores[i]
      /\ stores'[new] = s
  BY <1>1
<1>3. /\ 1..Len(stores') = 1..Len(stores) \cup {new}
      /\ new \notin 1..Len(stores)
  BY <1>1, <1>2
<1>4. \A x, l : StoresTo(x, l)' = {i \in Stores' : stores'[i].at = <<x, l>>}
  BY DEF StoresTo, Stores
<1>5. \A k, l : Linked(k, l)' = {i \in Stores' : /\ stores'[i].release
                                               /\ stores'[i].at[2] = l /\ stores'[i].val = k}
  BY DEF Linked, Stores
<1>6. Stores' = Stores \cup {new} /\ new \notin Stores
  BY <1>3 DEF Stores
<1>7. \A x, l : StoresTo(x, l) = {i \in Stores : stores'[i].at = <<x, l>>}
  BY <1>2 DEF StoresTo, Stores
<1>8. \A k, l : Linked(k, l) = {i \in Stores : /\ stores'[i].release
                                              /\ stores'[i].at[2] = l /\ stores'[i].val = k}
  BY <1>2 DEF Linked, Stores
<1>9. \A x, l : StoresTo(x, l) \subseteq StoresTo(x, l)'
  BY <1>4, <1>6, <1>7
<1>10. \A x, l : s.at = <<x, l>> => new \in StoresTo(x, l)'
  BY <1>2, <1>4, <1>6
<1>11. ASSUME NEW x, NEW l, NEW i \in StoresTo(x, l)', i \notin StoresTo(x, l)
       PROVE  i = new
  <2>1. i \in Stores' /\ stores'[i].at = <<x, l>>
    BY <1>4
  <2>2. i \notin Stores
    BY <1>7, <1>11, <2>1
  <2> QED
    BY <1>6, <2>1, <2>2
<1>12. \A k, l : Linked(k, l) \subseteq Linked(k, l)'
  BY <1>5, <1>6, <1>8
<1>13. \A k, l : s.release /\ s.at[2] = l /\ s.val = k => new \in Linked(k, l)'
  BY <1>2, <1>5, <1>6
<1>14. ASSUME NEW k, NEW l, NEW i \in Linked(k, l)', i \notin Linked(k, l)
       PROVE  i = new /\ s.release /\ s.at[2] = l /\ s.val = k
  BY <1>2, <1>5, <1>6, <1>8, <1>14
<1>15. stores' \in Seq(Store) /\ Len(stores') = new /\ \A i \in Stores : stores'[i] = stores[i]
  BY <1>2 DEF Stores
<1> QED
  BY <1>2, <1>6, <1>9, <1>10, <1>11, <1>12, <1>13, <1>14, <1>15

\* prev[l] of an insertion.
LEMMA PrevFound ==
  ASSUME TypeOK, NEW k \in Keys, NEW l \in Level
  PROVE  /\ Prev(k, l) \in Before(k, l)
         /\ \A y \in Before(k, l) : y <= Prev(k, l)
         /\ Prev(k, l) \in Keys \cup {HeadNode} /\ Prev(k, l) < k
         /\ Prev(k, l) # HeadNode => Prev(k, l) \in Keys /\ Linked(Prev(k, l), l) # {}
<1>1. HeadNode \in Before(k, l)
  <2>1. HeadNode < k
    BY KeyTypes DEF HeadNode
  <2> QED
    BY <2>1 DEF Before
<1>2. Before(k, l) \in SUBSET (0..k) /\ k \in Nat
  <2>1. k \in Nat /\ \A x \in Keys \cup {HeadNode} : x \in Nat /\ (x < k => x \in 0..k)
    BY KeyTypes DEF HeadNode
  <2> QED
    BY <2>1 DEF Before
<1>3. \E x \in Before(k, l) : \A y \in Before(k, l) : y <= x
  BY <1>1, <1>2, GreatestExists
<1>4. Prev(k, l) \in Before(k, l) /\ \A y \in Before(k, l) : y <= Prev(k, l)
  BY <1>3 DEF Prev
<1> QED
  BY <1>4 DEF Before

\* A load returns something, and what it returns.
LEMMA LoadFinds ==
  ASSUME TypeOK, NEW x \in Keys \cup {HeadNode}, NEW l \in Level
  PROVE  Visible(Len(stores), x, l) # {}
<1>1. Len(stores) \in Nat /\ StoresTo(x, l) \subseteq 1..Len(stores)
  BY StoreTypes DEF StoresTo
<1>2. CASE StoresTo(x, l) = {}
  BY <1>2 DEF Visible
<1>3. CASE StoresTo(x, l) # {}
  <2>1. StoresTo(x, l) \in SUBSET (0..Len(stores))
    BY <1>1
  <2>2. PICK i \in StoresTo(x, l) : \A j \in StoresTo(x, l) : j <= i
    BY <1>1, <1>3, <2>1, GreatestExists
  <2> QED
    BY <2>2 DEF Visible
<1> QED
  BY <1>2, <1>3

LEMMA LoadReaches ==
  ASSUME TypeOK, OwnLinkIsFirst, TargetsAreSet,
         NEW f \in 0..Len(stores), NEW x \in Keys \cup {HeadNode}, NEW l \in Level,
         Reached(f, x, l), NEW i \in Visible(f, x, l)
  PROVE  /\ Loaded(i, x) \in Keys \cup {Nil}
         /\ AfterLoad(f, i) \in 0..Len(stores) /\ f <= AfterLoad(f, i)
         /\ Loaded(i, x) \in Keys => Reached(AfterLoad(f, i), Loaded(i, x), l)
<1>1. Len(stores) \in Nat /\ f \in Nat /\ f <= Len(stores)
  BY StoreTypes
<1>2. CASE i = 0
  <2>1. x = HeadNode
    <3>1. \A j \in StoresTo(x, l) : j \in Stores /\ j # 0
      BY <1>1 DEF StoresTo, Stores
    <3>2. \A j \in StoresTo(x, l) : j > f
      BY <1>2, <3>1 DEF Visible
    <3>3. ~ \E j \in StoresTo(x, l) : j <= f
      BY <1>1, <3>1, <3>2 DEF Stores
    <3> QED
      BY <3>3 DEF Reached
  <2>2. Loaded(i, x) = Nil /\ AfterLoad(f, i) = f
    BY <1>2, <2>1 DEF Loaded, AfterLoad
  <2> QED
    BY <1>1, <2>2, KeyTypes
<1>3. CASE i # 0
  <2>1. i \in StoresTo(x, l) /\ \A j \in StoresTo(x, l) : j <= f => j <= i
    BY <1>3 DEF Visible
  <2>2. i \in Stores /\ i \in 1..Len(stores) /\ stores[i].at = <<x, l>>
    BY <2>1 DEF StoresTo, Stores
  <2>3. Loaded(i, x) = stores[i].val
    BY <1>3 DEF Loaded
  <2>4. stores[i].val \in Keys \cup {Nil}
    BY <2>2, StoreTypes
  <2>5. AfterLoad(f, i) \in 0..Len(stores) /\ f <= AfterLoad(f, i)
    BY <1>1, <2>2 DEF AfterLoad
  <2>6. i <= AfterLoad(f, i)
    <3>1. CASE stores[i].release
      BY <1>1, <1>3, <2>2, <3>1 DEF AfterLoad
    <3>2. CASE ~stores[i].release
      <4>1. /\ x \in Keys
            /\ \A j \in Stores : stores[j].at = <<x, l>> => i <= j
        BY <2>2, <3>2 DEF OwnLinkIsFirst
      <4>2. PICK j \in StoresTo(x, l) : j <= f
        BY <4>1, KeyTypes DEF Reached
      <4>3. j \in Stores /\ stores[j].at = <<x, l>>
        BY DEF StoresTo, Stores
      <4>4. i <= j /\ j \in 1..Len(stores)
        BY <4>1, <4>3 DEF Stores
      <4> QED
        BY <1>1, <2>2, <2>5, <4>2, <4>4
    <3> QED
      BY <3>1, <3>2
  <2>7. ASSUME stores[i].val \in Keys
        PROVE  Reached(AfterLoad(f, i), stores[i].val, l)
    <3>1. PICK j \in StoresTo(stores[i].val, l) : j < i
      BY <2>2, <2>7 DEF TargetsAreSet
    <3>2. j \in 1..Len(stores)
      BY DEF StoresTo
    <3>3. j <= AfterLoad(f, i)
      BY <2>2, <2>5, <2>6, <3>1, <3>2
    <3> QED
      BY <3>3 DEF Reached
  <2> QED
    BY <2>3, <2>4, <2>5, <2>7
<1> QED
  BY <1>2, <1>3

LEMMA ReachedBelow ==
  ASSUME TypeOK, LowerIsSet, NEW f \in 0..Len(stores), NEW x \in Keys \cup {HeadNode},
         NEW l \in Level, l > 0, Reached(f, x, l)
  PROVE  Reached(f, x, l - 1)
<1>1. CASE x = HeadNode
  BY <1>1 DEF Reached
<1>2. CASE x # HeadNode
  <2>1. PICK j \in StoresTo(x, l) : j <= f
    BY <1>2 DEF Reached
  <2>2. j \in Stores /\ stores[j].at = <<x, l>> /\ j \in 1..Len(stores)
    BY DEF StoresTo, Stores
  <2>3. PICK i \in StoresTo(x, l - 1) : i < j
    <3>1. stores[j].at[1] = x /\ stores[j].at[2] = l /\ x \in Keys
      BY <1>2, <2>2
    <3> QED
      BY <2>2, <3>1 DEF LowerIsSet
  <2>4. i \in 1..Len(stores)
    BY DEF StoresTo
  <2>5. i <= f
    BY <2>1, <2>2, <2>3, <2>4, StoreTypes
  <2> QED
    BY <2>5 DEF Reached
<1> QED
  BY <1>1, <1>2
LEMMA PrevReached ==
  ASSUME TypeOK, TargetsAreSet, NEW k \in Keys, NEW l \in Level
  PROVE  Reached(Len(stores), Prev(k, l), l)
<1>1. CASE Prev(k, l) = HeadNode
  BY <1>1 DEF Reached
<1>2. CASE Prev(k, l) # HeadNode
  <2>1. Prev(k, l) \in Keys /\ Linked(Prev(k, l), l) # {}
    BY <1>2, PrevFound
  <2>2. PICK e \in Linked(Prev(k, l), l) : TRUE
    BY <2>1
  <2>3. e \in Stores /\ stores[e].val = Prev(k, l) /\ stores[e].at[2] = l
    BY DEF Linked, Stores
  <2>4. PICK j \in StoresTo(Prev(k, l), l) : j < e
    BY <2>1, <2>3 DEF TargetsAreSet
  <2>5. j \in 1..Len(stores)
    BY DEF StoresTo
  <2> QED
    BY <2>5, StoreTypes DEF Reached
<1> QED
  BY <1>1, <1>2

\* What an insertion reads of its prev[l].
LEMMA NextFound ==
  ASSUME TypeOK, OwnLinkIsFirst, TargetsAreSet, NEW k \in Keys, NEW l \in Level
  PROVE  /\ NextOf(Prev(k, l), l) \in Keys \cup {Nil}
         /\ NextOf(Prev(k, l), l) \in Keys => StoresTo(NextOf(Prev(k, l), l), l) # {}
         /\ \E i \in Visible(Len(stores), Prev(k, l), l) :
                NextOf(Prev(k, l), l) = Loaded(i, Prev(k, l))
<1> DEFINE x == Prev(k, l)
<1>1. x \in Keys \cup {HeadNode}
  BY PrevFound
<1>2. Visible(Len(stores), x, l) # {}
  BY <1>1, LoadFinds
<1>3. PICK i \in Visible(Len(stores), x, l) : NextOf(x, l) = Loaded(i, x)
  BY <1>2 DEF NextOf
<1>4. Len(stores) \in 0..Len(stores)
  BY StoreTypes
<1>5. Reached(Len(stores), x, l)
  BY PrevReached
<1>6. /\ Loaded(i, x) \in Keys \cup {Nil}
      /\ Loaded(i, x) \in Keys => Reached(AfterLoad(Len(stores), i), Loaded(i, x), l)
  <2> HIDE DEF x
  <2> QED
    BY <1>1, <1>4, <1>5, LoadReaches
<1>7. Loaded(i, x) \in Keys => StoresTo(Loaded(i, x), l) # {}
  BY <1>6, KeyTypes DEF Reached
<1> QED
  BY <1>3, <1>6, <1>7
-----------------------------------------------------------------------------
(* LinksInv holds at first and is kept by every action.                    *)

LEMMA LinksInit ==
  ASSUME Init
  PROVE  LinksInv
<1>1. stores = <<>> /\ Stores = {} /\ Len(stores) = 0
  BY DEF Init, Stores
<1>2. insert = NoInsertion /\ NoInsertion \in Insertion /\ insert.key \notin Keys
  BY KeyTypes DEF Init, NoInsertion, Insertion
<1>3. TypeOK
  <2>1. stores \in Seq(Store)
    BY <1>1
  <2>2. heights \subseteq 1..MaxHeight /\ known \in 0..Len(stores)
    BY <1>1, KeyTypes DEF Init
  <2>3. floor \in [Reader -> 0..Len(stores)]
    BY <1>1 DEF Init
  <2>4. node \in [Reader -> Keys \cup {Nil}] /\ due \in [Reader -> SUBSET Keys]
    BY DEF Init
  <2>5. NoSearch \in Search
    BY KeyTypes DEF NoSearch, Search
  <2>6. search \in [Reader -> Search]
    BY <2>5 DEF Init
  <2>7. gap \in [Reader -> [from : Int, to : Int]]
    BY DEF Init
  <2> QED
    BY <1>2, <2>1, <2>2, <2>3, <2>4, <2>6, <2>7 DEF TypeOK
<1>4. OwnLinkIsFirst /\ TargetsAreSet /\ LowerIsSet /\ NodesAreLinked
  BY <1>1 DEF OwnLinkIsFirst, TargetsAreSet, LowerIsSet, NodesAreLinked
<1>5. InsertionStands
  BY <1>2 DEF InsertionStands
<1>6. ReadersReach
  BY KeyTypes DEF Init, ReadersReach, NoSearch
<1> QED
  BY <1>3, <1>4, <1>5, <1>6 DEF LinksInv

\* What is said of the writer depends on nothing a reader does,
LEMMA WriterStays ==
  ASSUME LinksInv, UNCHANGED <<stores, insert>>
  PROVE  (OwnLinkIsFirst /\ TargetsAreSet /\ LowerIsSet /\ NodesAreLinked /\ InsertionStands)'
<1>1. Stores' = Stores /\ \A x, l : StoresTo(x, l)' = StoresTo(x, l) /\ Linked(x, l)' = Linked(x, l)
  BY DEF Stores, StoresTo, Linked
<1>2. (OwnLinkIsFirst /\ TargetsAreSet)'
  BY <1>1 DEF LinksInv, OwnLinkIsFirst, TargetsAreSet
<1>3. (LowerIsSet /\ NodesAreLinked)'
  BY <1>1 DEF LinksInv, LowerIsSet, NodesAreLinked
<1>4. InsertionStands'
  BY <1>1 DEF LinksInv, InsertionStands
<1> QED
  BY <1>2, <1>3, <1>4

\* and a reader knows of what it knew of when the writer stores more.
LEMMA ReadersStay ==
  ASSUME ReadersReach, UNCHANGED <<floor, node, search>>,
         \A x, l : StoresTo(x, l) \subseteq StoresTo(x, l)'
  PROVE  ReadersReach'
BY DEF ReadersReach, Reached

LEMMA InsertKeepsLinks ==
  ASSUME LinksInv, NEW k \in Keys, NEW h \in 1..MaxHeight, Insert(k, h)
  PROVE  LinksInv'
<1>1. /\ insert.key = Nil /\ Linked(k, 0) = {}
      /\ insert' = [key |-> k, height |-> h, level |-> 0, ready |-> FALSE]
      /\ heights' = heights \cup {g \in {h} : \A a \in heights : a < g}
      /\ UNCHANGED <<stores, known, floor, node, search, due, gap>>
  BY DEF Insert, readerVars
<1>2. TypeOK'
  BY <1>1, KeyTypes DEF LinksInv, TypeOK, Insertion
<1>3. Stores' = Stores /\ \A x, l : StoresTo(x, l)' = StoresTo(x, l) /\ Linked(x, l)' = Linked(x, l)
  BY <1>1 DEF Stores, StoresTo, Linked
<1>4. (OwnLinkIsFirst /\ TargetsAreSet)'
  BY <1>1, <1>3 DEF LinksInv, OwnLinkIsFirst, TargetsAreSet
<1>5. LowerIsSet'
  BY <1>1, <1>3 DEF LinksInv, LowerIsSet
<1>6. NodesAreLinked'
  BY <1>1, <1>3, KeyTypes DEF LinksInv, NodesAreLinked
<1>7. \A i \in Stores : stores[i].at[1] # k
  BY <1>1, KeyTypes DEF LinksInv, NodesAreLinked
<1>8. InsertionStands'
  <2>1. insert'.level = 0 /\ insert'.key = k /\ insert'.height = h /\ ~insert'.ready /\ 0 < h
    BY <1>1
  <2> QED
    BY <1>1, <1>3, <1>7, <2>1 DEF InsertionStands
<1>9. ReadersReach'
  BY <1>1, <1>3, ReadersStay DEF LinksInv
<1> QED
  BY <1>2, <1>4, <1>5, <1>6, <1>8, <1>9 DEF LinksInv

LEMMA TakeMutexKeepsLinks ==
  ASSUME LinksInv, TakeMutex
  PROVE  LinksInv'
<1>1. known' = Len(stores) /\ UNCHANGED <<stores, insert, heights, floor, node, search, due, gap>>
  BY DEF TakeMutex, readerVars
<1>2. TypeOK'
  BY <1>1, StoreTypes DEF LinksInv, TypeOK
<1>3. ReadersReach'
  <2>1. \A x, l : StoresTo(x, l) \subseteq StoresTo(x, l)'
    BY <1>1 DEF StoresTo
  <2> QED
    BY <1>1, <2>1, ReadersStay DEF LinksInv
<1> QED
  BY <1>1, <1>2, <1>3, WriterStays DEF LinksInv

LEMMA SetOwnLinkKeepsLinks ==
  ASSUME LinksInv, SetOwnLink
  PROVE  LinksInv'
<1>0. PICK x, l, n, s, new :
          /\ x = insert.key /\ l = insert.level /\ n = NextOf(Prev(x, l), l)
          /\ s = [at |-> <<x, l>>, val |-> n, release |-> FALSE]
          /\ new = Len(stores) + 1
  OBVIOUS
<1>1. /\ x # Nil /\ ~insert.ready /\ stores' = Append(stores, s)
      /\ insert' = [insert EXCEPT !.ready = TRUE]
      /\ UNCHANGED <<heights, known, floor, node, search, due, gap>>
  BY <1>0 DEF SetOwnLink, readerVars
<1>2. x \in Keys /\ l \in Level /\ insert \in Insertion
  BY <1>0, <1>1 DEF LinksInv, TypeOK, Insertion
<1>3. n \in Keys \cup {Nil} /\ (n \in Keys => StoresTo(n, l) # {})
  BY <1>0, <1>2, NextFound DEF LinksInv
<1>4. s \in Store /\ s.at[1] = x /\ s.at[2] = l /\ s.val = n /\ ~s.release /\ s.at = <<x, l>>
  BY <1>0, <1>2, <1>3 DEF Store, Link
<1>5. /\ insert'.key = x /\ insert'.level = l /\ insert'.height = insert.height
      /\ insert'.ready /\ insert' \in Insertion
  BY <1>0, <1>1, <1>2 DEF Insertion
<1>6. /\ stores' \in Seq(Store)
      /\ Len(stores') = new
      /\ \A i \in Stores : stores'[i] = stores[i]
      /\ stores'[new] = s
      /\ Stores' = Stores \cup {new} /\ new \notin Stores
      /\ \A y, m : StoresTo(y, m) \subseteq StoresTo(y, m)' /\ Linked(y, m) \subseteq Linked(y, m)'
      /\ new \in StoresTo(x, l)'
  BY <1>0, <1>1, <1>4, Appended DEF LinksInv
<1>7. Len(stores) \in Nat /\ \A i \in Stores : i \in Nat /\ i < new
  BY <1>0, StoreTypes DEF LinksInv, Stores
<1>8. TypeOK'
  <2>1. known \in 0..Len(stores') /\ floor \in [Reader -> 0..Len(stores')]
    <3>1. 0..Len(stores) \subseteq 0..Len(stores')
      BY <1>0, <1>6, <1>7
    <3> QED
      BY <3>1 DEF LinksInv, TypeOK
  <2> QED
    BY <1>1, <1>5, <1>6, <2>1 DEF LinksInv, TypeOK
<1>9. \A y, m : \A j \in StoresTo(y, m) : j \in Stores
  BY DEF StoresTo, Stores
<1>10. OwnLinkIsFirst'
  <2>1. ASSUME NEW i \in Stores, ~stores[i].release, NEW j \in Stores',
               stores'[j].at = stores[i].at
        PROVE  i <= j
    BY <1>6, <1>7, <2>1 DEF LinksInv, OwnLinkIsFirst
  <2>2. \A i \in Stores : stores[i].at # <<x, l>>
    <3>1. \A i \in Stores : stores[i].at = <<x, l>> => stores[i].at[1] = x /\ stores[i].at[2] = l
      OBVIOUS
    <3>2. \A i \in Stores : stores[i].at[1] = x => stores[i].at[2] < l
      BY <1>0, <1>1, <1>2 DEF LinksInv, InsertionStands
    <3> QED
      BY <1>2, <3>1, <3>2, KeyTypes
  <2>3. ASSUME NEW j \in Stores', stores'[j].at = s.at
        PROVE  new <= j
    BY <1>4, <1>6, <1>7, <2>2, <2>3
  <2>4. \A i \in Stores : ~stores[i].release => stores[i].at[1] \in Keys
    BY DEF LinksInv, OwnLinkIsFirst
  <2> QED
    BY <1>2, <1>4, <1>6, <2>1, <2>3, <2>4 DEF OwnLinkIsFirst
<1>11. TargetsAreSet'
  <2>1. ASSUME NEW i \in Stores, stores[i].val \in Keys
        PROVE  \E j \in StoresTo(stores[i].val, stores[i].at[2])' : j < i
    BY <1>6, <2>1 DEF LinksInv, TargetsAreSet
  <2>2. n \in Keys => \E j \in StoresTo(n, l)' : j < new
    BY <1>3, <1>6, <1>7, <1>9
  <2> QED
    BY <1>4, <1>6, <2>1, <2>2 DEF TargetsAreSet
<1>12. LowerIsSet'
  <2>1. ASSUME NEW i \in Stores, stores[i].at[1] \in Keys, stores[i].at[2] > 0
        PROVE  \E j \in StoresTo(stores[i].at[1], stores[i].at[2] - 1)' : j < i
    BY <1>6, <2>1 DEF LinksInv, LowerIsSet
  <2>2. l > 0 => \E j \in StoresTo(x, l - 1)' : j < new
    BY <1>0, <1>2, <1>6, <1>7, <1>9 DEF LinksInv, InsertionStands
  <2> QED
    BY <1>4, <1>6, <2>1, <2>2 DEF LowerIsSet
<1>13. NodesAreLinked'
  <2>1. ASSUME NEW i \in Stores, NEW y \in Keys, stores[i].at[1] = y
        PROVE  Linked(y, 0)' # {} \/ x = y
    BY <1>0, <1>6, <2>1 DEF LinksInv, NodesAreLinked
  <2> QED
    BY <1>4, <1>5, <1>6, <2>1 DEF NodesAreLinked
<1>14. InsertionStands'
  <2>1. l < insert.height
    BY <1>0, <1>2 DEF LinksInv, InsertionStands
  <2>2. \A i \in Stores : stores[i].at[1] = x => stores[i].at[2] < l
    BY <1>0, <1>1, <1>2 DEF LinksInv, InsertionStands
  <2>3. l > 0 => StoresTo(x, l - 1)' # {} /\ Linked(x, 0)' # {}
    BY <1>0, <1>2, <1>6 DEF LinksInv, InsertionStands
  <2> QED
    BY <1>4, <1>5, <1>6, <2>1, <2>2, <2>3 DEF InsertionStands
<1>15. ReadersReach'
  BY <1>1, <1>6, ReadersStay DEF LinksInv
<1> QED
  BY <1>8, <1>10, <1>11, <1>12, <1>13, <1>14, <1>15 DEF LinksInv

LEMMA LinkNodeKeepsLinks ==
  ASSUME LinksInv, LinkNode
  PROVE  LinksInv'
<1>0. PICK x, l, p, s, new :
          /\ x = insert.key /\ l = insert.level /\ p = Prev(x, l)
          /\ s = ReleasedLink(p, l, x) /\ new = Len(stores) + 1
  OBVIOUS
<1>1. /\ x # Nil /\ insert.ready /\ stores' = Append(stores, s)
      /\ insert' = IF l + 1 = insert.height THEN NoInsertion
                   ELSE [insert EXCEPT !.level = @ + 1, !.ready = FALSE]
      /\ UNCHANGED <<heights, known, floor, node, search, due, gap>>
  BY <1>0 DEF LinkNode, readerVars
<1>2. x \in Keys /\ l \in Level /\ insert \in Insertion
  BY <1>0, <1>1 DEF LinksInv, TypeOK, Insertion
<1>3. p \in Keys \cup {HeadNode} /\ p < x /\ p # x
  BY <1>0, <1>2, PrevFound, KeyTypes DEF LinksInv, HeadNode
<1>4. Reached(Len(stores), p, l)
  BY <1>0, <1>2, PrevReached DEF LinksInv
<1>5. s \in Store /\ s.at[1] = p /\ s.at[2] = l /\ s.val = x /\ s.release /\ s.at = <<p, l>>
  BY <1>0, <1>2, <1>3 DEF Store, Link, ReleasedLink
<1>6. /\ stores' \in Seq(Store)
      /\ Len(stores') = new
      /\ \A i \in Stores : stores'[i] = stores[i]
      /\ stores'[new] = s
      /\ Stores' = Stores \cup {new} /\ new \notin Stores
      /\ \A y, m : StoresTo(y, m) \subseteq StoresTo(y, m)' /\ Linked(y, m) \subseteq Linked(y, m)'
      /\ new \in Linked(x, l)'
  <2>1. /\ stores' \in Seq(Store)
        /\ Len(stores') = new
        /\ \A i \in Stores : stores'[i] = stores[i]
        /\ stores'[new] = s
        /\ Stores' = Stores \cup {new} /\ new \notin Stores
        /\ \A y, m : /\ StoresTo(y, m) \subseteq StoresTo(y, m)'
                      /\ Linked(y, m) \subseteq Linked(y, m)'
    <3>1. TypeOK /\ s \in Store /\ stores' = Append(stores, s) /\ new = Len(stores) + 1
      BY <1>0, <1>1, <1>5 DEF LinksInv
    <3> QED
      BY <3>1, Appended
  <2>2. new \in Linked(x, l)'
    <3>1. new \in 1..Len(stores')
      BY <2>1 DEF Stores
    <3>2. stores'[new].release /\ stores'[new].at[2] = l /\ stores'[new].val = x
      BY <1>5, <2>1
    <3> QED
      BY <3>1, <3>2 DEF Linked
  <2> QED
    BY <2>1, <2>2
<1>7. Len(stores) \in Nat /\ \A i \in Stores : i \in Nat /\ i < new
  BY <1>0, StoreTypes DEF LinksInv, Stores
<1>8. l < insert.height /\ StoresTo(x, l) # {} /\ Linked(x, 0)' # {}
  <2>1. /\ l < insert.height /\ StoresTo(x, l) # {}
        /\ l > 0 => Linked(x, 0) # {}
    BY <1>0, <1>1, <1>2 DEF LinksInv, InsertionStands
  <2> QED
    BY <1>2, <1>6, <2>1, KeyTypes
<1>9. \A y, m : \A j \in StoresTo(y, m) : j \in Stores
  BY DEF StoresTo, Stores
<1>10. \/ insert' = NoInsertion
       \/ /\ insert' \in Insertion /\ insert'.key = x /\ insert'.level = l + 1
          /\ insert'.height = insert.height /\ l + 1 < insert.height /\ ~insert'.ready
  <2>1. CASE l + 1 = insert.height
    BY <1>1, <2>1
  <2>2. CASE l + 1 # insert.height
    <3>1. /\ insert.height \in 1..MaxHeight /\ l \in 0..(MaxHeight - 1)
          /\ MaxHeight \in Nat /\ l < insert.height
      BY <1>0, <1>2, <1>8, KeyTypes DEF Insertion, Level
    <3>2. l + 1 < insert.height /\ l + 1 \in 0..(MaxHeight - 1)
      BY <2>2, <3>1
    <3>3. insert' = [insert EXCEPT !.level = l + 1, !.ready = FALSE]
      BY <1>0, <1>1, <2>2
    <3> QED
      BY <1>0, <1>2, <3>2, <3>3 DEF Insertion, Level
  <2> QED
    BY <2>1, <2>2
<1>11. TypeOK'
  <2>1. known \in 0..Len(stores') /\ floor \in [Reader -> 0..Len(stores')]
    <3>1. 0..Len(stores) \subseteq 0..Len(stores')
      BY <1>0, <1>6, <1>7
    <3> QED
      BY <3>1 DEF LinksInv, TypeOK
  <2>2. NoInsertion \in Insertion
    BY KeyTypes DEF NoInsertion, Insertion
  <2> QED
    BY <1>1, <1>6, <1>10, <2>1, <2>2 DEF LinksInv, TypeOK
<1>12. OwnLinkIsFirst'
  <2>1. ASSUME NEW i \in Stores, ~stores[i].release, NEW j \in Stores',
               stores'[j].at = stores[i].at
        PROVE  i <= j
    BY <1>6, <1>7, <2>1 DEF LinksInv, OwnLinkIsFirst
  <2>2. \A i \in Stores : ~stores[i].release => stores[i].at[1] \in Keys
    BY DEF LinksInv, OwnLinkIsFirst
  <2> QED
    BY <1>5, <1>6, <2>1, <2>2 DEF OwnLinkIsFirst
<1>13. TargetsAreSet'
  <2>1. ASSUME NEW i \in Stores, stores[i].val \in Keys
        PROVE  \E j \in StoresTo(stores[i].val, stores[i].at[2])' : j < i
    BY <1>6, <2>1 DEF LinksInv, TargetsAreSet
  <2>2. \E j \in StoresTo(x, l)' : j < new
    BY <1>6, <1>7, <1>8, <1>9
  <2> QED
    BY <1>5, <1>6, <2>1, <2>2 DEF TargetsAreSet
<1>14. LowerIsSet'
  <2>1. ASSUME NEW i \in Stores, stores[i].at[1] \in Keys, stores[i].at[2] > 0
        PROVE  \E j \in StoresTo(stores[i].at[1], stores[i].at[2] - 1)' : j < i
    BY <1>6, <2>1 DEF LinksInv, LowerIsSet
  <2>2. ASSUME p \in Keys, l > 0
        PROVE  \E j \in StoresTo(p, l - 1)' : j < new
    <3>1. Reached(Len(stores), p, l - 1)
      <4>1. Len(stores) \in 0..Len(stores)
        BY <1>7
      <4> QED
        BY <1>2, <1>3, <1>4, <2>2, <4>1, ReachedBelow DEF LinksInv
    <3> QED
      BY <1>6, <1>7, <1>9, <2>2, <3>1, KeyTypes DEF Reached
  <2> QED
    BY <1>5, <1>6, <2>1, <2>2 DEF LowerIsSet
<1>15. NodesAreLinked'
  <2>1. ASSUME NEW i \in Stores, NEW y \in Keys, stores[i].at[1] = y
        PROVE  Linked(y, 0)' # {}
    BY <1>0, <1>6, <1>8, <2>1 DEF LinksInv, NodesAreLinked
  <2>2. ASSUME p \in Keys
        PROVE  Linked(p, 0)' # {}
    <3>1. PICK j \in StoresTo(p, l) : TRUE
      BY <1>4, <2>2, KeyTypes DEF Reached
    <3>2. j \in Stores /\ stores[j].at = <<p, l>>
      BY DEF StoresTo, Stores
    <3>3. stores[j].at[1] = p
      BY <3>2
    <3> QED
      BY <2>1, <2>2, <3>2, <3>3
  <2> QED
    BY <1>5, <1>6, <2>1, <2>2 DEF NodesAreLinked
<1>16. InsertionStands'
  <2>1. CASE insert' = NoInsertion
    BY <2>1, KeyTypes DEF NoInsertion, InsertionStands
  <2>2. CASE insert' # NoInsertion
    <3>1. \A i \in Stores : stores[i].at[1] = x =>
              stores[i].at[2] < l \/ stores[i].at[2] = l
      BY <1>0, <1>1, <1>2 DEF LinksInv, InsertionStands
    <3>2. \A i \in Stores' : stores'[i].at[1] = x => stores'[i].at[2] < l + 1
      <4>1. \A i \in Stores : stores[i].at[2] \in Nat /\ l \in Nat
        BY <1>2, StoreTypes, KeyTypes DEF LinksInv
      <4> QED
        BY <1>3, <1>5, <1>6, <3>1, <4>1
    <3>3. (l + 1) - 1 = l /\ StoresTo(x, l)' # {}
      BY <1>2, <1>6, <1>8, KeyTypes
    <3> QED
      BY <1>8, <1>10, <2>2, <3>2, <3>3 DEF InsertionStands
  <2> QED
    BY <2>1, <2>2
<1>17. ReadersReach'
  BY <1>1, <1>6, ReadersStay DEF LinksInv
<1> QED
  BY <1>11, <1>12, <1>13, <1>14, <1>15, <1>16, <1>17 DEF LinksInv

LEMMA BeginKeepsLinks ==
  ASSUME LinksInv, NEW r \in Reader, Begin(r)
  PROVE  LinksInv'
<1>1. /\ search[r].kind = "none"
      /\ floor' = [floor EXCEPT ![r] = IF known > @ THEN known ELSE @]
      /\ node' = [node EXCEPT ![r] = Nil]
      /\ due' = [due EXCEPT ![r] = {}]
      /\ UNCHANGED <<stores, insert, heights, known, search, gap>>
  BY DEF Begin, writerVars
<1>2. known \in 0..Len(stores) /\ floor \in [Reader -> 0..Len(stores)] /\ Len(stores) \in Nat
  BY StoreTypes DEF LinksInv, TypeOK
<1>3. TypeOK'
  BY <1>1, <1>2 DEF LinksInv, TypeOK
<1>4. \A q \in Reader : floor[q] <= floor'[q] /\ floor[q] \in Nat /\ floor'[q] \in Nat
  BY <1>1, <1>2
<1>5. \A x, l : StoresTo(x, l)' = StoresTo(x, l)
  BY <1>1 DEF StoresTo
<1>6. \A q \in Reader : \A x, l :
          Reached(floor[q], x, l) => Reached(floor[q], x, l)' /\ Reached(floor'[q], x, l)
  <2>1. \A x, l : \A j \in StoresTo(x, l) : j \in Nat
    BY <1>2 DEF StoresTo
  <2> QED
    BY <1>4, <1>5, <2>1 DEF Reached
<1>7. ReadersReach'
  BY <1>1, <1>5, <1>6, KeyTypes DEF LinksInv, TypeOK, ReadersReach, Reached
<1> QED
  BY <1>1, <1>3, <1>7, WriterStays DEF LinksInv

LEMMA FollowKeepsLinks ==
  ASSUME LinksInv, NEW r \in Reader, NEW x \in Keys \cup {HeadNode}, Reached(floor[r], x, 0),
         Follow(r, x)
  PROVE  LinksInv'
<1>1. PICK i \in Visible(floor[r], x, 0) :
          /\ node' = [node EXCEPT ![r] = Loaded(i, x)]
          /\ floor' = [floor EXCEPT ![r] = AfterLoad(@, i)]
          /\ gap' = [gap EXCEPT ![r] = [from |-> x, to |-> Loaded(i, x)]]
          /\ due' = [due EXCEPT ![r] = DueTo(r)]
          /\ UNCHANGED <<stores, insert, heights, known, search>>
          /\ search[r].kind = "none"
  BY DEF Follow, writerVars
<1>2. PICK n, f : n = Loaded(i, x) /\ f = AfterLoad(floor[r], i)
  OBVIOUS
<1>3. /\ floor \in [Reader -> 0..Len(stores)] /\ Len(stores) \in Nat
      /\ node \in [Reader -> Keys \cup {Nil}]
  BY StoreTypes DEF LinksInv, TypeOK
<1>4. n \in Keys \cup {Nil} /\ f \in 0..Len(stores) /\ (n \in Keys => Reached(f, n, 0))
  BY <1>2, <1>3, KeyTypes, LoadReaches DEF LinksInv
<1>5. /\ node' = [node EXCEPT ![r] = n] /\ floor' = [floor EXCEPT ![r] = f]
      /\ gap' = [gap EXCEPT ![r] = [from |-> x, to |-> n]]
  BY <1>1, <1>2
<1>6. TypeOK'
  <2>1. DueTo(r) \subseteq Keys /\ x \in Int /\ n \in Int
    BY <1>4, KeyTypes DEF DueTo, HeadNode
  <2> QED
    BY <1>1, <1>4, <1>5, <2>1 DEF LinksInv, TypeOK
<1>7. \A y, l : StoresTo(y, l)' = StoresTo(y, l)
  BY <1>1 DEF StoresTo
<1>8. ReadersReach'
  <2>1. ASSUME NEW q \in Reader
        PROVE  /\ node'[q] \in Keys => Reached(floor'[q], node'[q], 0)
               /\ search[q].kind # "none" => Reached(floor'[q], search[q].node, search[q].level)
    BY <1>1, <1>3, <1>4, <1>5 DEF LinksInv, ReadersReach
  <2> QED
    BY <1>1, <1>7, <2>1 DEF ReadersReach, Reached
<1> QED
  BY <1>1, <1>6, <1>8, WriterStays DEF LinksInv

LEMMA FindKeepsLinks ==
  ASSUME LinksInv, NEW r \in Reader, NEW kind \in {"ge", "lt"}, NEW target \in Keys \cup {Nil},
         Find(r, kind, target)
  PROVE  LinksInv'
<1>1. PICK h \in heights :
          /\ search' = [search EXCEPT ![r] = [kind |-> kind, target |-> target,
                                              node |-> HeadNode, level |-> h - 1]]
          /\ due' = [due EXCEPT ![r] = DueTo(r)]
          /\ gap' = [gap EXCEPT ![r] = [from |-> 0, to |-> 0]]
          /\ UNCHANGED <<stores, insert, heights, known, floor, node>>
  BY DEF Find, writerVars
<1>2. [kind |-> kind, target |-> target, node |-> HeadNode, level |-> h - 1] \in Search
  <2>1. h \in 1..MaxHeight /\ h - 1 \in Level
    BY KeyTypes DEF LinksInv, TypeOK, Level
  <2> QED
    BY <2>1 DEF Search
<1>3. TypeOK'
  <2>1. DueTo(r) \subseteq Keys
    BY DEF DueTo
  <2> QED
    BY <1>1, <1>2, <2>1 DEF LinksInv, TypeOK
<1>4. \A y, l : StoresTo(y, l)' = StoresTo(y, l)
  BY <1>1 DEF StoresTo
<1>5. ReadersReach'
  BY <1>1, <1>4 DEF LinksInv, TypeOK, ReadersReach, Reached
<1> QED
  BY <1>1, <1>3, <1>5, WriterStays DEF LinksInv

LEMMA AdvanceKeepsLinks ==
  ASSUME LinksInv, NEW r \in Reader, Advance(r)
  PROVE  LinksInv'
<1>1. PICK s : s = search[r]
  OBVIOUS
<1>2. /\ s \in Search /\ s.kind # "none"
      /\ s.node \in Keys \cup {HeadNode} /\ s.level \in Level /\ s.target \in Keys \cup {Nil}
      /\ floor[r] \in 0..Len(stores) /\ Len(stores) \in Nat
  BY <1>1, StoreTypes DEF LinksInv, TypeOK, Advance, Search
<1>3. Reached(floor[r], s.node, s.level)
  BY <1>1, <1>2 DEF LinksInv, ReadersReach
<1>4. PICK i, n, f :
          /\ i \in Visible(floor[r], s.node, s.level)
          /\ n = Loaded(i, s.node) /\ f = AfterLoad(floor[r], i)
          /\ floor' = [floor EXCEPT ![r] = f]
          /\ \/ /\ KeyIsAfterNode(s.target, n)
                /\ search' = [search EXCEPT ![r].node = n]
                /\ UNCHANGED <<node, gap>>
             \/ /\ s.level > 0
                /\ search' = [search EXCEPT ![r].level = s.level - 1]
                /\ UNCHANGED <<node, gap>>
             \/ /\ s.level = 0
                /\ search' = [search EXCEPT ![r] = NoSearch]
                /\ node' = [node EXCEPT ![r] =
                              IF s.kind = "ge" THEN n
                              ELSE IF s.node = HeadNode THEN Nil ELSE s.node]
                /\ gap' = [gap EXCEPT ![r] =
                             IF s.kind = "ge" THEN [from |-> s.target - 1, to |-> n]
                             ELSE [from |-> s.node, to |-> s.target]]
          /\ UNCHANGED <<stores, insert, heights, known, due>>
  BY <1>1 DEF Advance, writerVars
<1>5. /\ n \in Keys \cup {Nil} /\ f \in 0..Len(stores) /\ floor[r] <= f
      /\ n \in Keys => Reached(f, n, s.level)
  BY <1>2, <1>3, <1>4, LoadReaches DEF LinksInv
<1>6. Reached(f, s.node, s.level) /\ (s.level > 0 => Reached(f, s.node, s.level - 1))
  <2>1. Reached(f, s.node, s.level)
    <3>1. \A j \in StoresTo(s.node, s.level) : j \in Nat
      BY <1>2 DEF StoresTo
    <3> QED
      BY <1>2, <1>3, <1>5, <3>1 DEF Reached
  <2> QED
    BY <1>2, <1>5, <2>1, ReachedBelow DEF LinksInv
<1>7. \A y, l : StoresTo(y, l)' = StoresTo(y, l)
  BY <1>4 DEF StoresTo
<1>9. floor' \in [Reader -> 0..Len(stores)]
  BY <1>4, <1>5 DEF LinksInv, TypeOK
<1>10. /\ floor'[r] = f
       /\ \A q \in Reader : q # r => /\ floor'[q] = floor[q] /\ search'[q] = search[q]
                                     /\ node'[q] = node[q]
  BY <1>4 DEF LinksInv, TypeOK
<1>11. ASSUME NEW q \in Reader, q # r
       PROVE  /\ node'[q] \in Keys => Reached(floor'[q], node'[q], 0)
              /\ search'[q].kind # "none" =>
                     Reached(floor'[q], search'[q].node, search'[q].level)
  BY <1>10, <1>11 DEF LinksInv, ReadersReach
<1>12. node[r] \in Keys => Reached(f, node[r], 0)
  <2>1. \A j \in StoresTo(node[r], 0) : j \in Nat
    BY <1>2 DEF StoresTo
  <2> QED
    BY <1>2, <1>5, <2>1 DEF LinksInv, ReadersReach, Reached
<1>13. CASE KeyIsAfterNode(s.target, n) /\ search' = [search EXCEPT ![r].node = n]
            /\ UNCHANGED <<node, gap>>
  <2>1. n \in Keys
    BY <1>2, <1>5, <1>13, KeyTypes DEF KeyIsAfterNode
  <2>2. search' \in [Reader -> Search] /\ search'[r].node = n /\ search'[r].level = s.level
    BY <1>1, <1>2, <1>13, <2>1 DEF LinksInv, TypeOK, Search
  <2>3. TypeOK'
    BY <1>4, <1>9, <1>13, <2>2 DEF LinksInv, TypeOK
  <2>4. ReadersReach'
    BY <1>5, <1>7, <1>10, <1>11, <1>12, <1>13, <2>1, <2>2 DEF ReadersReach, Reached
  <2> QED
    BY <1>4, <2>3, <2>4, WriterStays DEF LinksInv
<1>14. CASE s.level > 0 /\ search' = [search EXCEPT ![r].level = s.level - 1]
            /\ UNCHANGED <<node, gap>>
  <2>1. s.level - 1 \in Level
    BY <1>2, <1>14, KeyTypes DEF Level
  <2>2. search' \in [Reader -> Search] /\ search'[r].node = s.node /\ search'[r].level = s.level - 1
    BY <1>1, <1>2, <1>14, <2>1 DEF LinksInv, TypeOK, Search
  <2>3. TypeOK'
    BY <1>4, <1>9, <1>14, <2>2 DEF LinksInv, TypeOK
  <2>4. ReadersReach'
    BY <1>6, <1>7, <1>10, <1>11, <1>12, <1>14, <2>2 DEF ReadersReach, Reached
  <2> QED
    BY <1>4, <2>3, <2>4, WriterStays DEF LinksInv
<1>15. CASE /\ s.level = 0
            /\ search' = [search EXCEPT ![r] = NoSearch]
            /\ node' = [node EXCEPT ![r] =
                          IF s.kind = "ge" THEN n
                          ELSE IF s.node = HeadNode THEN Nil ELSE s.node]
            /\ gap' = [gap EXCEPT ![r] =
                         IF s.kind = "ge" THEN [from |-> s.target - 1, to |-> n]
                         ELSE [from |-> s.node, to |-> s.target]]
  <2>1. NoSearch \in Search /\ NoSearch.kind = "none"
    BY KeyTypes DEF NoSearch, Search
  <2>2. search' \in [Reader -> Search] /\ search'[r].kind = "none"
    BY <1>15, <2>1 DEF LinksInv, TypeOK
  <2>3. node' \in [Reader -> Keys \cup {Nil}] /\ (node'[r] \in Keys => node'[r] \in {n, s.node})
    BY <1>2, <1>5, <1>15, KeyTypes DEF LinksInv, TypeOK
  <2>4. gap' \in [Reader -> [from : Int, to : Int]]
    <3>1. s.target - 1 \in Int /\ s.target \in Int /\ n \in Int /\ s.node \in Int
      <4>1. Keys \cup {Nil} \subseteq Nat /\ Keys \cup {HeadNode} \subseteq Nat
        BY KeyTypes DEF HeadNode
      <4>2. s.target \in Nat /\ n \in Nat /\ s.node \in Nat
        BY <1>2, <1>5, <4>1
      <4> QED
        BY <4>2
    <3>2. PICK g : g = IF s.kind = "ge" THEN [from |-> s.target - 1, to |-> n]
                       ELSE [from |-> s.node, to |-> s.target]
      OBVIOUS
    <3>3. g \in [from : Int, to : Int]
      BY <3>1, <3>2
    <3>4. gap' = [gap EXCEPT ![r] = g]
      BY <1>15, <3>2
    <3> QED
      BY <3>3, <3>4 DEF LinksInv, TypeOK
  <2>5. TypeOK'
    BY <1>4, <1>9, <2>2, <2>3, <2>4 DEF LinksInv, TypeOK
  <2>6. ReadersReach'
    <3>1. node'[r] \in Keys => Reached(f, node'[r], 0)
      BY <1>5, <1>6, <1>15, <2>3, KeyTypes
    <3> QED
      BY <1>7, <1>10, <1>11, <2>2, <3>1 DEF ReadersReach, Reached
  <2> QED
    BY <1>4, <2>5, <2>6, WriterStays DEF LinksInv
<1> QED
  BY <1>4, <1>13, <1>14, <1>15

LEMMA LinksStep ==
  ASSUME LinksInv, [Next]_vars
  PROVE  LinksInv'
<1>1. CASE \E k \in Keys, h \in 1..MaxHeight : Insert(k, h)
  BY <1>1, InsertKeepsLinks
<1>2. CASE SetOwnLink \/ LinkNode \/ TakeMutex
  BY <1>2, SetOwnLinkKeepsLinks, LinkNodeKeepsLinks, TakeMutexKeepsLinks
<1>3. ASSUME NEW r \in Reader, Begin(r)
      PROVE  LinksInv'
  BY <1>3, BeginKeepsLinks
<1>4. ASSUME NEW r \in Reader, SeekToFirst(r)
      PROVE  LinksInv'
  BY <1>4, FollowKeepsLinks DEF SeekToFirst, Reached
<1>5. ASSUME NEW r \in Reader, IteratorNext(r)
      PROVE  LinksInv'
  <2>1. node[r] \in Keys /\ Reached(floor[r], node[r], 0) /\ Follow(r, node[r])
    BY <1>5 DEF IteratorNext, LinksInv, TypeOK, ReadersReach
  <2> QED
    BY <2>1, FollowKeepsLinks
<1>6. ASSUME NEW r \in Reader, NEW k \in Keys, Seek(r, k)
      PROVE  LinksInv'
  BY <1>6, FindKeepsLinks DEF Seek
<1>7. ASSUME NEW r \in Reader, SeekToLast(r)
      PROVE  LinksInv'
  BY <1>7, FindKeepsLinks DEF SeekToLast
<1>8. ASSUME NEW r \in Reader, IteratorPrev(r)
      PROVE  LinksInv'
  <2>1. node[r] \in Keys /\ Find(r, "lt", node[r])
    BY <1>8 DEF IteratorPrev, LinksInv, TypeOK
  <2> QED
    BY <2>1, FindKeepsLinks
<1>9. ASSUME NEW r \in Reader, Advance(r)
      PROVE  LinksInv'
  BY <1>9, AdvanceKeepsLinks
<1>10. CASE UNCHANGED vars
  <2>1. UNCHANGED <<stores, insert, heights, known, floor, node, search, due, gap>>
    BY <1>10 DEF vars, writerVars, readerVars
  <2>2. TypeOK' /\ \A x, l : StoresTo(x, l) \subseteq StoresTo(x, l)'
    BY <2>1 DEF LinksInv, TypeOK, StoresTo
  <2> QED
    BY <2>1, <2>2, WriterStays, ReadersStay DEF LinksInv
<1> QED
  BY <1>1, <1>2, <1>3, <1>4, <1>5, <1>6, <1>7, <1>8, <1>9, <1>10 DEF Next

(* The inductive invariant of the first theorem: types, the order of the   *)
(* writer's stores, and that every reader knows of one to what it is about *)
(* to load.                                                                *)
THEOREM LinksInvariant == Spec => []LinksInv
<1>1. Init => LinksInv
  BY LinksInit
<1>2. LinksInv /\ [Next]_vars => LinksInv'
  BY LinksStep
<1> QED
  BY <1>1, <1>2, PTL DEF Spec

(* No reader loads a link before it is set, without a lock, whatever the   *)
(* keys, the heights and the readers: the release store to prev[i] makes   *)
(* a node's own link visible to whoever finds the node by it.              *)
THEOREM LinksSet == Spec => []LinksAreSet
<1>1. ASSUME LinksInv
      PROVE  LinksAreSet
  <2>1. ASSUME NEW r \in Reader, NEW x \in Keys \cup {HeadNode}, NEW l \in Level,
               Reached(floor[r], x, l), NEW i \in Visible(floor[r], x, l)
        PROVE  Loaded(i, x) # Unset
    <3>1. floor[r] \in 0..Len(stores)
      BY <1>1 DEF LinksInv, TypeOK
    <3>2. Loaded(i, x) \in Keys \cup {Nil}
      BY <1>1, <2>1, <3>1, LoadReaches DEF LinksInv
    <3> QED
      BY <3>2, KeyTypes
  <2>2. ASSUME NEW r \in Reader, search[r].kind # "none",
               NEW i \in Visible(floor[r], search[r].node, search[r].level)
        PROVE  Loaded(i, search[r].node) # Unset
    <3>1. /\ search[r].node \in Keys \cup {HeadNode} /\ search[r].level \in Level
          /\ Reached(floor[r], search[r].node, search[r].level)
      BY <1>1, <2>2 DEF LinksInv, TypeOK, ReadersReach, Search
    <3> QED
      BY <2>1, <2>2, <3>1
  <2>3. ASSUME NEW r \in Reader, node[r] # Nil, NEW i \in Visible(floor[r], node[r], 0)
        PROVE  Loaded(i, node[r]) # Unset
    <3>1. node[r] \in Keys /\ Reached(floor[r], node[r], 0)
      BY <1>1, <2>3 DEF LinksInv, TypeOK, ReadersReach
    <3> QED
      BY <2>1, <2>3, <3>1, KeyTypes
  <2> QED
    BY <2>2, <2>3 DEF LinksAreSet
<1> QED
  BY <1>1, LinksInvariant, PTL
-----------------------------------------------------------------------------
(* What a reader finds at a link is the next of the keys it knows of.      *)

LEMMA LinkedPlaces ==
  ASSUME TypeOK
  PROVE  /\ \A k, l : \A d \in Linked(k, l) :
                /\ d \in Stores /\ d \in Nat /\ 1 <= d /\ d <= Len(stores)
                /\ stores[d].val = k /\ stores[d].release
                /\ stores[d].at = <<stores[d].at[1], l>>
         /\ \A x, l : \A d \in StoresTo(x, l) :
                /\ d \in Stores /\ d \in Nat /\ 1 <= d /\ d <= Len(stores)
                /\ stores[d].at = <<x, l>> /\ stores[d].at[1] = x /\ stores[d].at[2] = l
<1>1. Len(stores) \in Nat /\ \A i \in Stores : stores[i].at = <<stores[i].at[1], stores[i].at[2]>>
  BY StoreTypes
<1>2. \A d \in Stores : d \in Nat /\ 1 <= d /\ d <= Len(stores)
  BY <1>1 DEF Stores
<1>3. \A k, l : \A d \in Linked(k, l) : /\ d \in Stores /\ stores[d].release
                                        /\ stores[d].at[2] = l /\ stores[d].val = k
  BY DEF Linked, Stores
<1>4. \A x, l : \A d \in StoresTo(x, l) : d \in Stores /\ stores[d].at = <<x, l>>
  BY DEF StoresTo, Stores
<1> QED
  BY <1>1, <1>2, <1>3, <1>4

\* If a load passed over a known key, the node linked before the first of those would
\* be another one.
LEMMA LoadIsTight ==
  ASSUME TypeOK, PrevIsLast, LinkedAtOnce, LinksAreTight,
         NEW f \in 0..Len(stores), NEW x \in Keys \cup {HeadNode}, Reached(f, x, 0),
         NEW i \in Visible(f, x, 0)
  PROVE  \A k \in Keys : \A d \in Linked(k, 0) : d <= f => ~(x < k /\ k < Loaded(i, x))
<1>1. PICK n : n = Loaded(i, x)
  OBVIOUS
<1> DEFINE Bad == {d \in Nat : d <= f /\ \E k \in Keys : d \in Linked(k, 0) /\ x < k /\ k < n}
<1>2. SUFFICES ASSUME Bad # {}
               PROVE  FALSE
  BY <1>1, LinkedPlaces
<1>3. PICK d \in Bad : \A e \in Bad : d <= e
  <2>1. Bad \in SUBSET Nat
    OBVIOUS
  <2> HIDE DEF Bad
  <2> QED
    BY <1>2, <2>1, LeastExists
<1>4. PICK k \in Keys : d \in Linked(k, 0) /\ x < k /\ k < n
  BY <1>3
<1>5. PICK p : p = stores[d].at[1]
  OBVIOUS
<1>6. /\ d \in Stores /\ d \in Nat /\ 1 <= d /\ d <= f /\ stores[d].val = k
      /\ stores[d].at = <<p, 0>> /\ d \in StoresTo(p, 0)
  <2>1. /\ d \in Stores /\ d \in Nat /\ 1 <= d /\ d <= f
        /\ stores[d].val = k /\ stores[d].at = <<p, 0>>
    BY <1>3, <1>4, <1>5, LinkedPlaces
  <2> QED
    BY <2>1 DEF StoresTo, Stores
<1>7. /\ p < k /\ p \in Keys \cup {HeadNode}
      /\ p = HeadNode \/ \E e \in Linked(p, 0) : e < d
      /\ \A m \in Keys : \A e \in Linked(m, 0) : e < d => ~(p < m /\ m < k)
  BY <1>4, <1>5, <1>6, StoreTypes DEF PrevIsLast
<1>8. f \in Nat /\ x \in Nat /\ p \in Nat /\ k \in Nat /\ HeadNode = 0
  BY <1>7, StoreTypes, KeyTypes DEF HeadNode
<1>9. \/ i = 0 /\ \A j \in StoresTo(x, 0) : j > f
      \/ i \in StoresTo(x, 0) /\ \A j \in StoresTo(x, 0) : j <= f => j <= i
  BY DEF Visible
<1>10. i \in Nat /\ (i # 0 => i \in StoresTo(x, 0) /\ i \in Stores /\ n = stores[i].val)
  BY <1>1, <1>9, LinkedPlaces DEF Loaded
<1>11. CASE d <= i
  <2>1. i \in Stores /\ stores[i].at[1] = x /\ stores[i].at[2] = 0 /\ n = stores[i].val
    BY <1>6, <1>10, <1>11, LinkedPlaces
  <2> QED
    BY <1>4, <1>11, <2>1 DEF LinksAreTight
<1>12. CASE ~(d <= i)
  <2>1. p # x
    <3>1. SUFFICES ASSUME p = x
                   PROVE  FALSE
      OBVIOUS
    <3>2. d \in StoresTo(x, 0)
      BY <1>6, <3>1
    <3> QED
      BY <1>6, <1>8, <1>9, <1>12, <3>2
  <2>2. x < p
    <3>1. CASE x = HeadNode
      BY <1>7, <1>8, <2>1, <3>1, KeyTypes
    <3>2. CASE x # HeadNode
      <4>1. x \in Keys /\ i \in StoresTo(x, 0)
        <5>1. PICK j \in StoresTo(x, 0) : j <= f
          BY <3>2 DEF Reached
        <5>2. j \in Nat
          BY LinkedPlaces
        <5>3. ~(j > f)
          BY <1>8, <5>1, <5>2
        <5> QED
          BY <1>9, <3>2, <5>1, <5>3
      <4>2. d > i
        BY <1>6, <1>10, <1>12
      <4>3. PICK e \in Linked(x, 0) : e <= d
        BY <1>4, <4>1, <4>2 DEF LinkedAtOnce
      <4>4. e \in Nat /\ stores[e].val = x
        BY LinkedPlaces
      <4>5. x # k
        BY <1>4, <1>8
      <4>6. e < d
        BY <1>6, <4>3, <4>4, <4>5
      <4>7. ~(p < x /\ x < k)
        BY <1>7, <4>1, <4>3, <4>6
      <4> QED
        BY <1>4, <1>8, <2>1, <4>7
    <3> QED
      BY <3>1, <3>2
  <2>3. p \in Keys /\ p # HeadNode
    BY <1>7, <1>8, <2>2
  <2>4. PICK e \in Linked(p, 0) : e < d
    BY <1>7, <2>3
  <2>5. e \in Nat /\ e <= f
    BY <1>6, <1>8, <2>4, LinkedPlaces
  <2>6. n \in Nat
    <3>1. CASE i = 0
      <4>1. n = Nil \/ n = Unset
        BY <1>1, <3>1 DEF Loaded
      <4>2. Unset = -1
        BY DEF Unset
      <4> QED
        BY <1>4, <1>8, <4>1, <4>2, KeyTypes
    <3>2. CASE i # 0
      BY <1>10, <3>2, StoreTypes, KeyTypes
    <3> QED
      BY <3>1, <3>2
  <2>7. p < n
    BY <1>4, <1>7, <1>8, <2>6
  <2>8. e \in Bad
    BY <2>2, <2>3, <2>4, <2>5, <2>7
  <2> QED
    BY <1>3, <1>6, <2>4, <2>5, <2>8
<1> QED
  BY <1>11, <1>12
-----------------------------------------------------------------------------
(* OrderInv holds at first and is kept by every action.                    *)

OrderOfLinks == PrevIsLast /\ LinkedAtOnce /\ LinksAreTight
OrderOfReads == SearchIsBehind /\ DueIsKnown /\ NothingSkipped

LEMMA OrderInit ==
  ASSUME Init
  PROVE  OrderInv
<1>1. stores = <<>> /\ Stores = {} /\ Len(stores) = 0
  BY DEF Init, Stores
<1>2. \A x, l : StoresTo(x, l) = {} /\ Linked(x, l) = {}
  BY <1>1 DEF StoresTo, Linked
<1>3. PrevIsLast /\ LinkedAtOnce /\ LinksAreTight
  BY <1>1, <1>2 DEF PrevIsLast, LinkedAtOnce, LinksAreTight
<1>4. SearchIsBehind /\ DueIsKnown /\ NothingSkipped
  BY DEF Init, NoSearch, SearchIsBehind, DueIsKnown, NothingSkipped
<1> QED
  BY <1>3, <1>4, LinksInit DEF OrderInv

LEMMA OrderOfLinksStays ==
  ASSUME OrderInv, UNCHANGED stores
  PROVE  OrderOfLinks'
<1>1. Stores' = Stores /\ \A x, l : StoresTo(x, l)' = StoresTo(x, l) /\ Linked(x, l)' = Linked(x, l)
  BY DEF Stores, StoresTo, Linked
<1>2. PrevIsLast'
  BY <1>1 DEF OrderInv, PrevIsLast
<1>3. LinkedAtOnce'
  BY <1>1 DEF OrderInv, LinkedAtOnce
<1>4. LinksAreTight'
  BY <1>1 DEF OrderInv, LinksAreTight
<1> QED
  BY <1>2, <1>3, <1>4 DEF OrderOfLinks

LEMMA OrderOfReadsStays ==
  ASSUME OrderInv, UNCHANGED <<floor, search, due, gap>>,
         \A k, l : Linked(k, l) \subseteq Linked(k, l)'
  PROVE  OrderOfReads'
<1>1. SearchIsBehind' /\ NothingSkipped'
  BY DEF OrderInv, SearchIsBehind, NothingSkipped
<1>2. DueIsKnown'
  BY DEF OrderInv, DueIsKnown
<1> QED
  BY <1>1, <1>2 DEF OrderOfReads

LEMMA SetOwnLinkKeepsOrder ==
  ASSUME OrderInv, SetOwnLink
  PROVE  OrderOfLinks' /\ OrderOfReads'
<1>0. PICK x, l, p, n, s, new :
          /\ x = insert.key /\ l = insert.level /\ p = Prev(x, l) /\ n = NextOf(p, l)
          /\ s = [at |-> <<x, l>>, val |-> n, release |-> FALSE]
          /\ new = Len(stores) + 1
  OBVIOUS
<1>1. x # Nil /\ stores' = Append(stores, s) /\ UNCHANGED <<floor, search, due, gap>>
  BY <1>0 DEF SetOwnLink, readerVars
<1>2. x \in Keys /\ l \in Level /\ TypeOK /\ OwnLinkIsFirst /\ TargetsAreSet
  BY <1>0, <1>1 DEF OrderInv, LinksInv, TypeOK, Insertion
<1>3. n \in Keys \cup {Nil} /\ \E i \in Visible(Len(stores), p, l) : n = Loaded(i, p)
  BY <1>0, <1>2, NextFound
<1>4. s \in Store /\ s.at[1] = x /\ s.at[2] = l /\ s.val = n /\ ~s.release
  BY <1>0, <1>2, <1>3 DEF Store, Link
<1>5. /\ \A i \in Stores : stores'[i] = stores[i]
      /\ stores'[new] = s
      /\ Stores' = Stores \cup {new} /\ new \notin Stores
      /\ \A y, m : \A i \in StoresTo(y, m)' : i \in StoresTo(y, m) \/ i = new
      /\ \A k, m : Linked(k, m)' = Linked(k, m)
  <2>1. /\ \A i \in Stores : stores'[i] = stores[i]
        /\ stores'[new] = s
        /\ Stores' = Stores \cup {new} /\ new \notin Stores
        /\ \A y, m : \A i \in StoresTo(y, m)' : i \in StoresTo(y, m) \/ i = new
        /\ \A k, m : Linked(k, m) \subseteq Linked(k, m)'
    <3>1. s \in Store /\ stores' = Append(stores, s) /\ new = Len(stores) + 1
      BY <1>0, <1>1, <1>4
    <3> QED
      BY <1>2, <3>1, Appended
  <2>2. \A k, m : Linked(k, m)' = Linked(k, m)
    <3>1. s \in Store /\ stores' = Append(stores, s) /\ new = Len(stores) + 1
      BY <1>0, <1>1, <1>4
    <3>2. ASSUME NEW k, NEW m, NEW i \in Linked(k, m)', i \notin Linked(k, m)
          PROVE  s.release
      <4>1. \/ i \in Linked(k, m)
            \/ i = new /\ s.release /\ s.at[2] = m /\ s.val = k
        BY <1>2, <3>1, Appended
      <4> QED
        BY <3>2, <4>1
    <3>3. \A k, m : Linked(k, m) \subseteq Linked(k, m)'
      BY <2>1
    <3>4. \A k, m : Linked(k, m)' \subseteq Linked(k, m)
      BY <1>4, <3>2
    <3> QED
      BY <3>3, <3>4
  <2> QED
    BY <2>1, <2>2
<1>6. \A k, m : \A d \in Linked(k, m) : d \in Stores /\ d \in Nat /\ d < new /\ d <= Len(stores)
  BY <1>0, <1>2, LinkedPlaces, StoreTypes
<1>7. PrevIsLast'
  BY <1>5, <1>6 DEF OrderInv, PrevIsLast
<1>8. LinkedAtOnce'
  <2>1. ASSUME NEW y \in Keys, NEW i \in StoresTo(y, 0)', NEW k \in Keys,
               NEW d \in Linked(k, 0), d > i
        PROVE  \E e \in Linked(y, 0) : e <= d
    <3>1. i \in StoresTo(y, 0)
      BY <1>0, <1>5, <1>6, <2>1, StoreTypes, <1>2
    <3> QED
      BY <2>1, <3>1 DEF OrderInv, LinkedAtOnce
  <2> QED
    BY <1>5, <2>1 DEF LinkedAtOnce
<1>9. LinksAreTight'
  <2>1. ASSUME NEW i \in Stores, stores[i].at[2] = 0, NEW k \in Keys, NEW d \in Linked(k, 0), d <= i
        PROVE  ~(stores[i].at[1] < k /\ k < stores[i].val)
    BY <2>1 DEF OrderInv, LinksAreTight
  <2>2. ASSUME l = 0, NEW k \in Keys, NEW d \in Linked(k, 0)
        PROVE  ~(x < k /\ k < n)
    <3>1. PICK i \in Visible(Len(stores), p, 0) : n = Loaded(i, p)
      BY <1>3, <2>2
    <3>2. p \in Keys \cup {HeadNode} /\ p < x /\ Reached(Len(stores), p, 0)
      BY <1>0, <1>2, <2>2, PrevFound, PrevReached
    <3>3. Len(stores) \in 0..Len(stores)
      BY <1>2, StoreTypes
    <3>4. ~(p < k /\ k < n)
      BY <1>2, <1>6, <3>1, <3>2, <3>3, LoadIsTight DEF OrderInv
    <3>5. p \in Nat /\ x \in Nat /\ k \in Nat
      BY <1>2, <3>2, KeyTypes DEF HeadNode
    <3> QED
      BY <3>2, <3>4, <3>5
  <2> QED
    BY <1>4, <1>5, <2>1, <2>2 DEF LinksAreTight
<1>10. OrderOfReads'
  BY <1>1, <1>5, OrderOfReadsStays
<1> QED
  BY <1>7, <1>8, <1>9, <1>10 DEF OrderOfLinks

LEMMA LinkNodeKeepsOrder ==
  ASSUME OrderInv, LinkNode
  PROVE  OrderOfLinks' /\ OrderOfReads'
<1>0. PICK x, l, p, s, new :
          /\ x = insert.key /\ l = insert.level /\ p = Prev(x, l)
          /\ s = ReleasedLink(p, l, x) /\ new = Len(stores) + 1
  OBVIOUS
<1>1. x # Nil /\ stores' = Append(stores, s) /\ UNCHANGED <<floor, search, due, gap>>
  BY <1>0 DEF LinkNode, readerVars
<1>2. x \in Keys /\ l \in Level /\ TypeOK
  BY <1>0, <1>1 DEF OrderInv, LinksInv, TypeOK, Insertion
<1>3. /\ p \in Keys \cup {HeadNode} /\ p < x
      /\ p # HeadNode => p \in Keys /\ Linked(p, l) # {}
      /\ \A y \in Before(x, l) : y <= p
  BY <1>0, <1>2, PrevFound
<1>4. s \in Store /\ s.at[1] = p /\ s.at[2] = l /\ s.val = x /\ s.release
  BY <1>0, <1>2, <1>3 DEF Store, Link, ReleasedLink
<1>5. /\ \A i \in Stores : stores'[i] = stores[i]
      /\ stores'[new] = s
      /\ Stores' = Stores \cup {new} /\ new \notin Stores
      /\ \A y, m : \A i \in StoresTo(y, m)' : i \in StoresTo(y, m) \/ i = new
      /\ \A k, m : Linked(k, m) \subseteq Linked(k, m)'
      /\ \A k, m : \A i \in Linked(k, m)' : i \in Linked(k, m) \/ (i = new /\ k = x /\ m = l)
      /\ new \in Linked(x, l)'
  <2>1. s.release /\ s.at[2] = l /\ s.val = x /\ s \in Store /\ stores' = Append(stores, s)
        /\ new = Len(stores) + 1
    BY <1>0, <1>1, <1>4
  <2>2. /\ \A i \in Stores : stores'[i] = stores[i]
        /\ stores'[new] = s
        /\ Stores' = Stores \cup {new} /\ new \notin Stores
        /\ \A y, m : \A i \in StoresTo(y, m)' : i \in StoresTo(y, m) \/ i = new
    <3>1. s \in Store /\ stores' = Append(stores, s) /\ new = Len(stores) + 1
      BY <2>1
    <3> QED
      BY <1>2, <3>1, Appended
  <2>3. /\ \A k, m : Linked(k, m) \subseteq Linked(k, m)'
        /\ \A k, m : \A i \in Linked(k, m)' :
              i \in Linked(k, m) \/ (i = new /\ s.at[2] = m /\ s.val = k)
        /\ new \in Linked(x, l)'
    BY <1>2, <2>1, Appended
  <2> QED
    BY <2>1, <2>2, <2>3
<1>6. \A k, m : \A d \in Linked(k, m) : d \in Stores /\ d \in Nat /\ d < new
  BY <1>0, <1>2, LinkedPlaces, StoreTypes
<1>7. /\ new \in Nat
      /\ \A y, m : \A i \in StoresTo(y, m) : i \in Stores /\ i < new /\ stores[i].at[1] = y
  BY <1>0, <1>2, LinkedPlaces, StoreTypes
<1>8. \A m \in Keys : Linked(m, l) # {} /\ m < x => m <= p
  BY <1>3 DEF Before
<1>9. p \in Nat /\ x \in Nat /\ Keys \subseteq Nat
  BY <1>2, <1>3, KeyTypes DEF HeadNode
<1>10. PrevIsLast'
  <2>1. ASSUME NEW k \in Keys, NEW d \in Linked(k, 0), NEW q, q = stores[d].at[1]
        PROVE  /\ q < k
               /\ q = HeadNode \/ \E e \in Linked(q, 0)' : e < d
               /\ \A m \in Keys : \A e \in Linked(m, 0)' : e < d => ~(q < m /\ m < k)
    <3>1. /\ q < k
          /\ q = HeadNode \/ \E e \in Linked(q, 0) : e < d
          /\ \A m \in Keys : \A e \in Linked(m, 0) : e < d => ~(q < m /\ m < k)
      BY <2>1 DEF OrderInv, PrevIsLast
    <3>2. ~(new < d)
      BY <1>6, <1>7
    <3> QED
      BY <1>5, <3>1, <3>2
  <2>2. ASSUME l = 0
        PROVE  /\ p < x
               /\ p = HeadNode \/ \E e \in Linked(p, 0)' : e < new
               /\ \A m \in Keys : \A e \in Linked(m, 0)' : e < new => ~(p < m /\ m < x)
    <3>1. p = HeadNode \/ \E e \in Linked(p, 0) : e < new
      BY <1>3, <1>6, <2>2
    <3>2. p = HeadNode \/ \E e \in Linked(p, 0)' : e < new
      BY <1>5, <3>1
    <3>3. ASSUME NEW m \in Keys, NEW e \in Linked(m, 0)', e < new
          PROVE  ~(p < m /\ m < x)
      <4>1. e \in Linked(m, 0)
        <5>1. e # new
          BY <1>7, <3>3
        <5> QED
          BY <1>5, <5>1
      <4>2. m < x => m <= p
        BY <1>8, <2>2, <4>1
      <4> QED
        BY <1>9, <4>2
    <3> QED
      BY <1>3, <3>2, <3>3
  <2>3. ASSUME NEW k \in Keys, NEW d \in Linked(k, 0)', NEW q, q = stores'[d].at[1]
        PROVE  /\ q < k
               /\ q = HeadNode \/ \E e \in Linked(q, 0)' : e < d
               /\ \A m \in Keys : \A e \in Linked(m, 0)' : e < d => ~(q < m /\ m < k)
    <3>1. CASE d \in Linked(k, 0)
      <4>1. q = stores[d].at[1]
        BY <1>5, <1>6, <2>3, <3>1
      <4> QED
        BY <2>1, <3>1, <4>1
    <3>2. CASE d = new /\ k = x /\ l = 0
      <4>1. q = p
        BY <1>4, <1>5, <2>3, <3>2
      <4> QED
        BY <2>2, <3>2, <4>1
    <3> QED
      BY <1>5, <3>1, <3>2
  <2> QED
    BY <2>3 DEF PrevIsLast
<1>11. LinkedAtOnce'
  <2>1. ASSUME NEW y \in Keys, NEW i \in StoresTo(y, 0)', NEW k \in Keys,
               NEW d \in Linked(k, 0)', d > i
        PROVE  \E e \in Linked(y, 0)' : e <= d
    <3>1. CASE d \in Linked(k, 0)
      <4>1. i \in StoresTo(y, 0)
        BY <1>5, <1>6, <1>7, <2>1, <3>1
      <4> QED
        BY <1>5, <2>1, <3>1, <4>1 DEF OrderInv, LinkedAtOnce
    <3>2. CASE d = new /\ k = x /\ l = 0
      <4>1. i \in StoresTo(y, 0)
        BY <1>5, <1>7, <2>1, <3>2
      <4>2. Linked(y, 0) # {} \/ x = y
        BY <1>0, <1>7, <4>1 DEF OrderInv, LinksInv, NodesAreLinked
      <4>3. \A e \in Linked(y, 0) : e <= new
        BY <1>6, <1>7
      <4> QED
        <5>1. CASE Linked(y, 0) # {}
          BY <1>5, <3>2, <4>3, <5>1
        <5>2. CASE x = y
          BY <1>5, <1>7, <3>2, <5>2
        <5> QED
          BY <4>2, <5>1, <5>2
    <3> QED
      BY <1>5, <3>1, <3>2
  <2> QED
    BY <2>1 DEF LinkedAtOnce
<1>12. LinksAreTight'
  <2>1. ASSUME NEW i \in Stores, stores[i].at[2] = 0, NEW k \in Keys,
               NEW d \in Linked(k, 0)', d <= i
        PROVE  ~(stores[i].at[1] < k /\ k < stores[i].val)
    <3>1. i < new /\ i \in Nat
      BY <1>0, <1>2, StoreTypes DEF Stores
    <3>2. d \in Linked(k, 0)
      <4>1. d # new
        BY <1>7, <2>1, <3>1
      <4> QED
        BY <1>5, <4>1
    <3> QED
      BY <2>1, <3>2 DEF OrderInv, LinksAreTight
  <2>2. ASSUME l = 0, NEW k \in Keys, NEW d \in Linked(k, 0)'
        PROVE  ~(p < k /\ k < x)
    <3>1. CASE d \in Linked(k, 0)
      <4>1. k < x => k <= p
        BY <1>8, <2>2, <3>1
      <4> QED
        BY <1>9, <4>1
    <3>2. CASE k = x
      BY <1>9, <3>2
    <3> QED
      BY <1>5, <3>1, <3>2
  <2> QED
    BY <1>4, <1>5, <2>1, <2>2 DEF LinksAreTight
<1>13. OrderOfReads'
  BY <1>1, <1>5, OrderOfReadsStays
<1> QED
  BY <1>10, <1>11, <1>12, <1>13 DEF OrderOfLinks

\* The keys a read must not miss are known to its reader.
LEMMA DueToIsKnown ==
  ASSUME NEW r \in Reader, NEW k \in DueTo(r)
  PROVE  k \in Keys /\ \E d \in Linked(k, 0) : d <= floor[r]
BY DEF DueTo

LEMMA BeginKeepsOrder ==
  ASSUME OrderInv, NEW r \in Reader, Begin(r)
  PROVE  OrderOfLinks' /\ OrderOfReads'
<1>1. /\ floor' = [floor EXCEPT ![r] = IF known > @ THEN known ELSE @]
      /\ due' = [due EXCEPT ![r] = {}]
      /\ UNCHANGED <<stores, search, gap>>
  BY DEF Begin, writerVars
<1>2. TypeOK
  BY DEF OrderInv, LinksInv
<1>3. SearchIsBehind' /\ NothingSkipped'
  BY <1>1, <1>2 DEF OrderInv, TypeOK, SearchIsBehind, NothingSkipped
<1>4. DueIsKnown'
  <2>1. \A k, l : Linked(k, l)' = Linked(k, l)
    BY <1>1 DEF Linked
  <2>2. \A q \in Reader : q # r => due'[q] = due[q] /\ floor'[q] = floor[q]
    BY <1>1, <1>2 DEF TypeOK
  <2>3. due'[r] = {}
    BY <1>1, <1>2 DEF TypeOK
  <2> QED
    BY <2>1, <2>2, <2>3 DEF OrderInv, DueIsKnown
<1> QED
  BY <1>1, <1>3, <1>4, OrderOfLinksStays DEF OrderOfReads

LEMMA FollowKeepsOrder ==
  ASSUME OrderInv, NEW r \in Reader, NEW x \in Keys \cup {HeadNode}, Reached(floor[r], x, 0),
         Follow(r, x)
  PROVE  OrderOfLinks' /\ OrderOfReads'
<1>1. PICK i, n, f :
          /\ i \in Visible(floor[r], x, 0)
          /\ n = Loaded(i, x) /\ f = AfterLoad(floor[r], i)
          /\ floor' = [floor EXCEPT ![r] = f]
          /\ gap' = [gap EXCEPT ![r] = [from |-> x, to |-> n]]
          /\ due' = [due EXCEPT ![r] = DueTo(r)]
          /\ UNCHANGED <<stores, search>>
  BY DEF Follow, writerVars
<1>2. TypeOK /\ OwnLinkIsFirst /\ TargetsAreSet /\ floor[r] \in 0..Len(stores) /\ 0 \in Level
  BY KeyTypes DEF OrderInv, LinksInv, TypeOK
<1>3. f \in 0..Len(stores) /\ floor[r] <= f /\ Len(stores) \in Nat
  BY <1>1, <1>2, LoadReaches, StoreTypes
<1>4. \A k \in Keys : \A d \in Linked(k, 0) : d <= floor[r] => ~(x < k /\ k < n)
  BY <1>1, <1>2, LoadIsTight DEF OrderInv
<1>5. /\ due'[r] = DueTo(r) /\ floor'[r] = f /\ gap'[r].from = x /\ gap'[r].to = n
      /\ \A q \in Reader : q # r => /\ due'[q] = due[q] /\ floor'[q] = floor[q]
                                    /\ gap'[q] = gap[q]
  BY <1>1, <1>2 DEF TypeOK
<1>6. SearchIsBehind'
  BY <1>1 DEF OrderInv, SearchIsBehind
<1>7. NothingSkipped'
  <2>1. \A k \in DueTo(r) : ~(x < k /\ k < n)
    BY <1>4, DueToIsKnown
  <2> QED
    BY <1>5, <2>1 DEF OrderInv, NothingSkipped
<1>8. DueIsKnown'
  <2>1. \A k, l : Linked(k, l)' = Linked(k, l)
    BY <1>1 DEF Linked
  <2>2. ASSUME NEW k \in DueTo(r)
        PROVE  \E d \in Linked(k, 0) : d <= f
    <3>1. PICK d \in Linked(k, 0) : d <= floor[r]
      BY DueToIsKnown
    <3>2. d \in Nat
      BY <1>2, LinkedPlaces
    <3> QED
      BY <1>2, <1>3, <3>1, <3>2
  <2> QED
    BY <1>5, <2>1, <2>2 DEF OrderInv, DueIsKnown
<1> QED
  BY <1>1, <1>6, <1>7, <1>8, OrderOfLinksStays DEF OrderOfReads

LEMMA FindKeepsOrder ==
  ASSUME OrderInv, NEW r \in Reader, NEW kind, NEW target, Find(r, kind, target)
  PROVE  OrderOfLinks' /\ OrderOfReads'
<1>1. PICK h \in heights :
          /\ search' = [search EXCEPT ![r] = [kind |-> kind, target |-> target,
                                              node |-> HeadNode, level |-> h - 1]]
          /\ due' = [due EXCEPT ![r] = DueTo(r)]
          /\ gap' = [gap EXCEPT ![r] = [from |-> 0, to |-> 0]]
          /\ UNCHANGED <<stores, floor>>
  BY DEF Find, writerVars
<1>2. TypeOK
  BY DEF OrderInv, LinksInv
<1>3. SearchIsBehind'
  BY <1>1, <1>2 DEF OrderInv, TypeOK, SearchIsBehind
<1>4. /\ due'[r] = DueTo(r) /\ gap'[r].from = 0 /\ gap'[r].to = 0
      /\ \A q \in Reader : q # r => due'[q] = due[q] /\ gap'[q] = gap[q]
  BY <1>1, <1>2 DEF TypeOK
<1>5. NothingSkipped'
  <2>1. \A k \in DueTo(r) : ~(0 < k /\ k < 0)
    <3>1. \A k \in Keys : ~(0 < k /\ k < 0)
      <4>1. \A k \in Nat : ~(k < 0)
        OBVIOUS
      <4> QED
        BY <4>1, SkipListAssumption
    <3> QED
      BY <3>1, DueToIsKnown
  <2> QED
    BY <1>4, <2>1 DEF OrderInv, NothingSkipped
<1>6. DueIsKnown'
  <2>1. \A k, l : Linked(k, l)' = Linked(k, l)
    BY <1>1 DEF Linked
  <2> QED
    BY <1>1, <1>4, <2>1, DueToIsKnown DEF OrderInv, DueIsKnown
<1> QED
  BY <1>1, <1>3, <1>5, <1>6, OrderOfLinksStays DEF OrderOfReads

LEMMA AdvanceKeepsOrder ==
  ASSUME OrderInv, NEW r \in Reader, Advance(r)
  PROVE  OrderOfLinks' /\ OrderOfReads'
<1>1. PICK s : s = search[r]
  OBVIOUS
<1>2. /\ TypeOK /\ OwnLinkIsFirst /\ TargetsAreSet
      /\ s \in Search /\ s.kind \in {"ge", "lt"}
      /\ s.node \in Keys \cup {HeadNode} /\ s.level \in Level /\ s.target \in Keys \cup {Nil}
      /\ floor[r] \in 0..Len(stores) /\ Reached(floor[r], s.node, s.level)
      /\ s.node = HeadNode \/ s.node < s.target
  BY <1>1 DEF OrderInv, LinksInv, TypeOK, ReadersReach, SearchIsBehind, Advance, Search
<1>3. PICK i, n, f :
          /\ i \in Visible(floor[r], s.node, s.level)
          /\ n = Loaded(i, s.node) /\ f = AfterLoad(floor[r], i)
          /\ floor' = [floor EXCEPT ![r] = f]
          /\ \/ /\ KeyIsAfterNode(s.target, n)
                /\ search' = [search EXCEPT ![r].node = n]
                /\ UNCHANGED gap
             \/ /\ search' = [search EXCEPT ![r].level = s.level - 1]
                /\ UNCHANGED gap
             \/ /\ ~KeyIsAfterNode(s.target, n)
                /\ s.level = 0
                /\ search' = [search EXCEPT ![r] = NoSearch]
                /\ gap' = [gap EXCEPT ![r] =
                             IF s.kind = "ge" THEN [from |-> s.target - 1, to |-> n]
                             ELSE [from |-> s.node, to |-> s.target]]
          /\ UNCHANGED <<stores, due>>
  BY <1>1 DEF Advance, writerVars
<1>4. f \in 0..Len(stores) /\ floor[r] <= f /\ Len(stores) \in Nat /\ n \in Keys \cup {Nil}
  BY <1>2, <1>3, LoadReaches, StoreTypes
<1>5. SearchIsBehind'
  <2>1. \A q \in Reader : q # r => search'[q] = search[q]
    BY <1>2, <1>3 DEF TypeOK
  <2>2. search'[r].kind # "none" =>
            search'[r].node = HeadNode \/ search'[r].node < search'[r].target
    <3>1. CASE KeyIsAfterNode(s.target, n) /\ search' = [search EXCEPT ![r].node = n]
      <4>1. search'[r].node = n /\ search'[r].target = s.target
        BY <1>1, <1>2, <3>1 DEF TypeOK, Search
      <4> QED
        BY <3>1, <4>1 DEF KeyIsAfterNode
    <3>2. CASE search' = [search EXCEPT ![r].level = s.level - 1]
      <4>1. search'[r].node = s.node /\ search'[r].target = s.target
        BY <1>1, <1>2, <3>2 DEF TypeOK, Search
      <4> QED
        BY <1>2, <4>1
    <3>3. CASE search' = [search EXCEPT ![r] = NoSearch]
      BY <1>2, <3>3 DEF TypeOK, NoSearch
    <3> QED
      BY <1>3, <3>1, <3>2, <3>3
  <2> QED
    BY <2>1, <2>2 DEF OrderInv, SearchIsBehind
<1>6. DueIsKnown'
  <2>1. \A k, l : Linked(k, l)' = Linked(k, l)
    BY <1>3 DEF Linked
  <2>2. /\ floor'[r] = f /\ due' = due
        /\ \A q \in Reader : q # r => floor'[q] = floor[q]
    BY <1>2, <1>3 DEF TypeOK
  <2>3. ASSUME NEW k \in due[r]
        PROVE  \E d \in Linked(k, 0) : d <= f
    <3>1. PICK d \in Linked(k, 0) : d <= floor[r]
      BY DEF OrderInv, DueIsKnown
    <3>2. d \in Nat
      BY <1>2, LinkedPlaces
    <3> QED
      BY <1>2, <1>4, <3>1, <3>2
  <2> QED
    BY <2>1, <2>2, <2>3 DEF OrderInv, DueIsKnown
<1>7. NothingSkipped'
  <2>1. CASE UNCHANGED gap
    BY <1>3, <2>1 DEF OrderInv, NothingSkipped
  <2>2. CASE /\ ~KeyIsAfterNode(s.target, n)
             /\ s.level = 0
             /\ gap' = [gap EXCEPT ![r] =
                          IF s.kind = "ge" THEN [from |-> s.target - 1, to |-> n]
                          ELSE [from |-> s.node, to |-> s.target]]
    <3>1. \A k \in Keys : \A d \in Linked(k, 0) : d <= floor[r] => ~(s.node < k /\ k < n)
      BY <1>2, <1>3, <2>2, LoadIsTight DEF OrderInv
    <3>2. \A k \in due[r] : k \in Keys /\ ~(s.node < k /\ k < n)
      <4>1. \A k \in due[r] : k \in Keys /\ \E d \in Linked(k, 0) : d <= floor[r]
        BY <1>2 DEF OrderInv, DueIsKnown, TypeOK
      <4> QED
        BY <3>1, <4>1
    <3>3. /\ s.target \in Nat /\ n \in Nat /\ s.node \in Nat /\ ~(n < s.target)
          /\ s.node = 0 \/ s.node < s.target
          /\ \A k \in Keys : k \in Nat /\ 0 < k
      <4>1. Keys \cup {Nil} \subseteq Nat /\ Keys \cup {HeadNode} \subseteq Nat /\ HeadNode = 0
        BY KeyTypes DEF HeadNode
      <4> QED
        BY <1>2, <1>4, <2>2, <4>1, KeyTypes DEF KeyIsAfterNode
    <3>4. \A q \in Reader : q # r => gap'[q] = gap[q]
      BY <1>2, <2>2 DEF TypeOK
    <3>5. \A k \in due[r] : ~(gap'[r].from < k /\ k < gap'[r].to)
      <4>1. CASE s.kind = "ge"
        <5>1. gap'[r].from = s.target - 1 /\ gap'[r].to = n
          BY <1>2, <2>2, <4>1 DEF TypeOK
        <5>2. \A k \in Keys : s.target - 1 < k => s.node < k
          BY <3>3
        <5> QED
          BY <3>2, <5>1, <5>2
      <4>2. CASE s.kind # "ge"
        <5>1. gap'[r].from = s.node /\ gap'[r].to = s.target
          BY <1>2, <2>2, <4>2 DEF TypeOK
        <5>2. \A k \in Keys : k < s.target => k < n
          BY <3>3
        <5> QED
          BY <3>2, <5>1, <5>2
      <4> QED
        BY <4>1, <4>2
    <3> QED
      BY <1>3, <3>4, <3>5 DEF OrderInv, NothingSkipped
  <2> QED
    BY <1>3, <2>1, <2>2
<1> QED
  BY <1>3, <1>5, <1>6, <1>7, OrderOfLinksStays DEF OrderOfReads

LEMMA OrderStep ==
  ASSUME OrderInv, [Next]_vars
  PROVE  OrderInv'
<1>1. SUFFICES OrderOfLinks' /\ OrderOfReads'
  BY <1>1, LinksStep DEF OrderInv, OrderOfLinks, OrderOfReads
<1>2. ASSUME UNCHANGED <<stores, floor, search, due, gap>>
      PROVE  OrderOfLinks' /\ OrderOfReads'
  <2>1. \A k, l : Linked(k, l) \subseteq Linked(k, l)'
    BY <1>2 DEF Linked
  <2> QED
    BY <1>2, <2>1, OrderOfLinksStays, OrderOfReadsStays
<1>3. CASE \E k \in Keys, h \in 1..MaxHeight : Insert(k, h)
  BY <1>2, <1>3 DEF Insert, readerVars
<1>4. CASE TakeMutex
  BY <1>2, <1>4 DEF TakeMutex, readerVars
<1>5. CASE SetOwnLink \/ LinkNode
  BY <1>5, SetOwnLinkKeepsOrder, LinkNodeKeepsOrder
<1>6. ASSUME NEW r \in Reader, Begin(r)
      PROVE  OrderOfLinks' /\ OrderOfReads'
  BY <1>6, BeginKeepsOrder
<1>7. ASSUME NEW r \in Reader, SeekToFirst(r) \/ IteratorNext(r)
      PROVE  OrderOfLinks' /\ OrderOfReads'
  <2>1. PICK x \in Keys \cup {HeadNode} : Reached(floor[r], x, 0) /\ Follow(r, x)
    BY <1>7 DEF SeekToFirst, IteratorNext, OrderInv, LinksInv, TypeOK, ReadersReach, Reached
  <2> QED
    BY <2>1, FollowKeepsOrder
<1>8. ASSUME NEW r \in Reader,
             (\E k \in Keys : Seek(r, k)) \/ SeekToLast(r) \/ IteratorPrev(r)
      PROVE  OrderOfLinks' /\ OrderOfReads'
  BY <1>8, FindKeepsOrder DEF Seek, SeekToLast, IteratorPrev
<1>9. ASSUME NEW r \in Reader, Advance(r)
      PROVE  OrderOfLinks' /\ OrderOfReads'
  BY <1>9, AdvanceKeepsOrder
<1>10. CASE UNCHANGED vars
  BY <1>2, <1>10 DEF vars, writerVars, readerVars
<1> QED
  BY <1>3, <1>4, <1>5, <1>6, <1>7, <1>8, <1>9, <1>10 DEF Next

(* The inductive invariant of the second theorem: what each link passes    *)
(* over was linked after it, so what passes over a key known to a reader   *)
(* is a link the reader knows to be overwritten.                           *)
THEOREM OrderInvariant == Spec => []OrderInv
<1>1. Init => OrderInv
  BY OrderInit
<1>2. OrderInv /\ [Next]_vars => OrderInv'
  BY OrderStep
<1> QED
  BY <1>1, <1>2, PTL DEF Spec

(* No seek or step of an iterator passes over a key that its reader knows  *)
(* to be linked when it begins, whatever is inserted meanwhile and         *)
(* whichever stale links and heights it reads.                             *)
THEOREM ReadsSkipNothing == Spec => []NothingSkipped
<1>1. OrderInv => NothingSkipped
  BY DEF OrderInv
<1> QED
  BY <1>1, OrderInvariant, PTL
=============================================================================
