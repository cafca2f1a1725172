------------------------------ MODULE SkipList ------------------------------
(***************************************************************************)
(* LevelDB's memtable (leveldb-library: db/skiplist.h): one writer at a    *)
(* time inserts while readers, who hold no lock, walk the same links.      *)
(*                                                                         *)
(* Memory is what the C++ memory model makes of one writer: the sequence   *)
(* of its stores to links.  A load may return any store to its link but    *)
(* those the reader must know to be overwritten, which are what precedes,  *)
(* in that sequence, a release store it has read from, or what the mutex   *)
(* of the database has told it of.                                         *)
(*                                                                         *)
(* Keys are numbers: 0 stands for the head, and nullptr, which the code    *)
(* takes for infinite, is above all.  Equal keys are never inserted.       *)
(* Nodes are not freed before the list is.                                 *)
(***************************************************************************)
EXTENDS Integers, Sequences

CONSTANTS Keys, Nil,
          MaxHeight,   \* kMaxHeight
          Reader

ASSUME SkipListAssumption == /\ Keys \subseteq Nat \ {0}
                             /\ Nil \in Nat
                             /\ \A k \in Keys : k < Nil
                             /\ MaxHeight \in Nat \ {0}

HeadNode == 0
Unset == -1    \* what a link holds that nothing was stored in

VARIABLES stores,    \* the writer's stores to links, in its order
          insert,    \* the insertion under way
          heights,   \* the values max_height_ has had
          known,     \* the stores made before the writer last held the mutex
          floor,     \* the stores each reader knows of: all up to here
          node,      \* node_ of each reader's iterator, Nil when it is not valid
          search,    \* its search under way
          due, gap   \* history: see NothingSkipped

writerVars == <<stores, insert, heights, known>>
readerVars == <<floor, node, search, due, gap>>
vars == <<writerVars, readerVars>>

Level == 0..(MaxHeight - 1)
Link == (Keys \cup {HeadNode}) \X Level
Store == [at : Link, val : Keys \cup {Nil}, release : BOOLEAN]
Insertion == [key : Keys \cup {Nil}, height : 1..MaxHeight, level : Level, ready : BOOLEAN]
NoInsertion == [key |-> Nil, height |-> 1, level |-> 0, ready |-> FALSE]
NoSearch == [kind |-> "none", target |-> Nil, node |-> HeadNode, level |-> 0]
Search == [kind : {"none", "ge", "lt"}, target : Keys \cup {Nil},
           node : Keys \cup {HeadNode}, level : Level]

TypeOK == /\ stores \in Seq(Store)
          /\ insert \in Insertion
          /\ heights \subseteq 1..MaxHeight
          /\ known \in 0..Len(stores)
          /\ floor \in [Reader -> 0..Len(stores)]
          /\ node \in [Reader -> Keys \cup {Nil}]
          /\ search \in [Reader -> Search]
          /\ due \in [Reader -> SUBSET Keys]
          /\ gap \in [Reader -> [from : Int, to : Int]]
-----------------------------------------------------------------------------
StoresTo(x, l) == {i \in 1..Len(stores) : stores[i].at = <<x, l>>}

\* The stores that a load of a link may return when all up to f are known; 0 is what
\* the link held at first, for a node nothing, for the head what the constructor set.
Visible(f, x, l) ==
    {i \in StoresTo(x, l) : \A j \in StoresTo(x, l) : j <= f => j <= i}
    \cup {i \in {0} : \A j \in StoresTo(x, l) : j > f}
Loaded(i, x) == IF i # 0 THEN stores[i].val ELSE IF x = HeadNode THEN Nil ELSE Unset

\* Node::Next, an acquire load.
AfterLoad(f, i) == IF i # 0 /\ i > f /\ stores[i].release THEN i ELSE f

\* Where key k is linked at level l.
Linked(k, l) == {i \in 1..Len(stores) : /\ stores[i].release
                                        /\ stores[i].at[2] = l /\ stores[i].val = k}
-----------------------------------------------------------------------------
Init == /\ stores = <<>>
        /\ insert = NoInsertion
        /\ heights = {1}
        /\ known = 0
        /\ floor = [r \in Reader |-> 0]
        /\ node = [r \in Reader |-> Nil]
        /\ search = [r \in Reader |-> NoSearch]
        /\ due = [r \in Reader |-> {}]
        /\ gap = [r \in Reader |-> [from |-> 0, to |-> 0]]

\* Insert up to its loop; a height above all so far is a relaxed store.
Insert(k, h) ==
    /\ insert.key = Nil
    /\ Linked(k, 0) = {}
    /\ insert' = [key |-> k, height |-> h, level |-> 0, ready |-> FALSE]
    /\ heights' = heights \cup {g \in {h} : \A a \in heights : a < g}
    /\ UNCHANGED <<stores, known, readerVars>>

\* prev[l] of the writer's own search, which nobody disturbs: the last node before k.
Before(k, l) == {x \in {HeadNode} \cup Keys : x < k /\ (x = HeadNode \/ Linked(x, l) # {})}
Prev(k, l) == CHOOSE x \in Before(k, l) : \A y \in Before(k, l) : y <= x

\* What the writer itself reads there.
NextOf(x, l) == Loaded(CHOOSE i \in Visible(Len(stores), x, l) : TRUE, x)

\* x->NoBarrier_SetNext(i, prev[i]->NoBarrier_Next(i))
SetOwnLink ==
    /\ insert.key # Nil /\ ~insert.ready
    /\ stores' = Append(stores, [at |-> <<insert.key, insert.level>>,
                                 val |-> NextOf(Prev(insert.key, insert.level), insert.level),
                                 release |-> FALSE])
    /\ insert' = [insert EXCEPT !.ready = TRUE]
    /\ UNCHANGED <<heights, known, readerVars>>

RelaxedLink(x, l, k) == [at |-> <<x, l>>, val |-> k, release |-> FALSE]   \* slip
ReleasedLink(x, l, k) == [at |-> <<x, l>>, val |-> k, release |-> TRUE]

\* prev[i]->SetNext(i, x)
LinkNode ==
    /\ insert.key # Nil /\ insert.ready
    /\ stores' = Append(stores, ReleasedLink(Prev(insert.key, insert.level), insert.level,
                                             insert.key))
    /\ insert' = IF insert.level + 1 = insert.height THEN NoInsertion
                 ELSE [insert EXCEPT !.level = @ + 1, !.ready = FALSE]
    /\ UNCHANGED <<heights, known, readerVars>>

\* The batch is in: DBImpl::Write takes the mutex again.
TakeMutex == /\ insert.key = Nil
             /\ known' = Len(stores)
             /\ UNCHANGED <<stores, insert, heights, readerVars>>
-----------------------------------------------------------------------------
\* The keys a reader must not miss: those whose link it knows of.
DueTo(r) == {k \in Keys : \E i \in Linked(k, 0) : i <= floor[r]}

\* A read begins with the mutex held: an iterator that is not valid yet.
Begin(r) ==
    /\ search[r].kind = "none"
    /\ floor' = [floor EXCEPT ![r] = IF known > @ THEN known ELSE @]
    /\ node' = [node EXCEPT ![r] = Nil]
    /\ due' = [due EXCEPT ![r] = {}]
    /\ UNCHANGED <<writerVars, search, gap>>

\* One load of a link of level 0: SeekToFirst, Next.
Follow(r, x) ==
    /\ search[r].kind = "none"
    /\ \E i \in Visible(floor[r], x, 0) :
          /\ node' = [node EXCEPT ![r] = Loaded(i, x)]
          /\ floor' = [floor EXCEPT ![r] = AfterLoad(@, i)]
          /\ gap' = [gap EXCEPT ![r] = [from |-> x, to |-> Loaded(i, x)]]
    /\ due' = [due EXCEPT ![r] = DueTo(r)]
    /\ UNCHANGED <<writerVars, search>>

SeekToFirst(r) == Follow(r, HeadNode)
IteratorNext(r) == node[r] # Nil /\ Follow(r, node[r])

\* FindGreaterOrEqual, FindLessThan and FindLast (for a target that is infinite)
\* start at a height the list has or had.
Find(r, kind, target) ==
    /\ search[r].kind = "none"
    /\ \E h \in heights :
          search' = [search EXCEPT ![r] = [kind |-> kind, target |-> target,
                                           node |-> HeadNode, level |-> h - 1]]
    /\ due' = [due EXCEPT ![r] = DueTo(r)]
    /\ gap' = [gap EXCEPT ![r] = [from |-> 0, to |-> 0]]
    /\ UNCHANGED <<writerVars, floor, node>>

Seek(r, k) == Find(r, "ge", k)
SeekToLast(r) == Find(r, "lt", Nil)
IteratorPrev(r) == node[r] # Nil /\ Find(r, "lt", node[r])

KeyIsNotBeforeNode(key, n) == n <= key   \* slip
KeyIsAfterNode(key, n) == n < key

\* A step of a search on level l, and its end.
Advance(r) ==
    LET s == search[r]
    IN  /\ s.kind # "none"
        /\ \E i \in Visible(floor[r], s.node, s.level) :
              LET next == Loaded(i, s.node)
              IN  /\ floor' = [floor EXCEPT ![r] = AfterLoad(@, i)]
                  /\ \/ /\ KeyIsAfterNode(s.target, next)
                        /\ search' = [search EXCEPT ![r].node = next]
                        /\ UNCHANGED <<node, gap>>
                     \/ /\ ~KeyIsAfterNode(s.target, next)
                        /\ s.level > 0
                        /\ search' = [search EXCEPT ![r].level = @ - 1]
                        /\ UNCHANGED <<node, gap>>
                     \/ /\ ~KeyIsAfterNode(s.target, next)
                        /\ s.level = 0
                        /\ search' = [search EXCEPT ![r] = NoSearch]
                        /\ node' = [node EXCEPT ![r] =
                                      IF s.kind = "ge" THEN next
                                      ELSE IF s.node = HeadNode THEN Nil ELSE s.node]
                        /\ gap' = [gap EXCEPT ![r] =
                                     IF s.kind = "ge" THEN [from |-> s.target - 1, to |-> next]
                                     ELSE [from |-> s.node, to |-> s.target]]
        /\ UNCHANGED <<writerVars, due>>

Next == \/ \E k \in Keys, h \in 1..MaxHeight : Insert(k, h)
        \/ SetOwnLink \/ LinkNode \/ TakeMutex
        \/ \E r \in Reader : \/ Begin(r)
                             \/ SeekToFirst(r) \/ IteratorNext(r)
                             \/ \E k \in Keys : Seek(r, k)
                             \/ SeekToLast(r) \/ IteratorPrev(r)
                             \/ Advance(r)

Spec == Init /\ [][Next]_vars
-----------------------------------------------------------------------------
(* "We observe a fully initialized version of the returned Node"           *)
(* (skiplist.h:164): whatever the order in which stores become visible, a  *)
(* reader never loads a link before its node's own links are set, nor one  *)
(* that the node does not have.                                            *)
LinksAreSet ==
    \A r \in Reader :
        LET s == search[r]
        IN  IF s.kind # "none"
            THEN \A i \in Visible(floor[r], s.node, s.level) : Loaded(i, s.node) # Unset
            ELSE node[r] # Nil =>
                     \A i \in Visible(floor[r], node[r], 0) : Loaded(i, node[r]) # Unset

(* A seek or a step of an iterator passes over no key that was linked, as  *)
(* far as its reader knew, when it began: no read of the database misses   *)
(* an entry of an earlier write, though searches run over a list that      *)
(* grows under them and at heights they may know or not know of.           *)
NothingSkipped ==
    \A r \in Reader : \A k \in due[r] : ~(gap[r].from < k /\ k < gap[r].to)
=============================================================================
