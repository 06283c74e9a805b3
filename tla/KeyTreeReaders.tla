--------------------------- MODULE KeyTreeReaders ---------------------------
(***************************************************************************)
(* The operations of keyTree in server/storage/kv.go that only read the    *)
(* tree (KeyTree): the finders, and the walks SeekLevel and Range, which   *)
(* are recursive in the code and here.                                     *)
(***************************************************************************)
EXTENDS KeyTree

FindMin == IF Root \in Nodes THEN findMinNode(Root) ELSE {}

\* findNearbyLeftNode: the left child of the node where the search turns left,
\* if v lies above that child; else on from there.
NearbyLeftEnds(v, p) ==
  /\ p \in Nodes
  /\ \/ v <= tree[p] /\ Left(p) \notin Nodes
     \/ v > tree[p] /\ p # Root /\ p[Len(p)] = "left"
FindNearbyLeft(v) ==
  {p \in Nodes :
     /\ NearbyLeftEnds(v, p)
     /\ \A i \in 1 .. Len(p) :
          LET q == SubSeq(p, 1, i - 1)
          IN /\ p[i] = IF v <= tree[q] THEN "left" ELSE "right"
             /\ ~NearbyLeftEnds(v, q)}

\* SeekLevel: a queue of nodes, of which the first n are the rest of the level
\* that tmp collects.
Children(p) == SelectSeq(<<Left(p), Right(p)>>, LAMBDA q : q \in Nodes)
RECURSIVE Seek(_, _, _, _)
Seek(ans, tmp, queue, n) ==
  IF queue = <<>> THEN Append(ans, tmp)
  ELSE IF n = 0 THEN Seek(Append(ans, tmp), <<>>, queue, Len(queue))
  ELSE Seek(ans, Append(tmp, Head(queue)), Tail(queue) \o Children(Head(queue)), n - 1)
SeekLevel == IF Root \in Nodes THEN Seek(<<>>, <<>>, <<Root>>, 1) ELSE <<>>

\* rangeVal with a callback that returns an error for the keys of fails and
\* panics on those of panics.  An error ends the walk; a panic is recovered in
\* the frame of its node and leaves out what is below the node.
RECURSIVE RangeVal(_, _, _)
RangeVal(p, fails, panics) ==
  IF p \notin Nodes THEN [seen |-> <<>>, err |-> FALSE]
  ELSE IF tree[p] \in fails \cup panics THEN [seen |-> <<p>>, err |-> tree[p] \in fails]
  ELSE LET l == RangeVal(Left(p), fails, panics)
           r == IF l.err THEN [seen |-> <<>>, err |-> TRUE]
                ELSE RangeVal(Right(p), fails, panics)
       IN [seen |-> <<p>> \o l.seen \o r.seen, err |-> r.err]
RangeTree(fails, panics) == RangeVal(Root, fails, panics)

-----------------------------------------------------------------------------
(* Properties *)

\* Whatever is inserted and deleted, panics and lost subtrees included, the
\* nodes hang together and form a search tree without duplicates: every key
\* in it is found (insertVal, deleteVal).
Ordered ==
  \A p \in Nodes :
    /\ p # Root => SubSeq(p, 1, Len(p) - 1) \in Nodes
    /\ \A q \in Under(Left(p)) : tree[q] < tree[p]
    /\ \A q \in Under(Right(p)) : tree[q] > tree[p]

\* What a step may do to the keys.
LocalUpdate ==
  /\ last'.op = "insert" => Keys' = Keys \cup {last'.key}
  /\ last'.op = "delete" =>
       /\ last'.key \notin Keys' => Keys' = Keys \ {last'.key}
       /\ \A p \in Nodes :
            tree[p] = last'.key /\ last'.key \in Keys' =>
              /\ Keys \ Keys' \subseteq {tree[q] : q \in Under(p) \ {p}}
              /\ Left(p) \in Nodes /\ Right(p) \in Nodes => Keys' = Keys

NoRepeats(ps) == Cardinality({ps[i] : i \in DOMAIN ps}) = Len(ps)

\* The tree stays a search tree (Ordered), and the finders rest on it.
\* FindMin answers the least key or nil, never another key (findMinNode).
\* FindNearbyLeft answers one node at most, and a key that is not below v only
\* when nothing below v hangs under it (findNearbyLeftNode).
\* SeekLevel answers every node once, level by level.  Range calls back for
\* every node once; an error makes that node the last one, a panic leaves out
\* the nodes below and no others (rangeVal).
FindersAnswer ==
  /\ Ordered
  /\ \A p \in FindMin : \A k \in Keys : tree[p] <= k
  /\ \A v \in KeySet :
       /\ Cardinality(FindNearbyLeft(v)) <= 1
       /\ \A p \in FindNearbyLeft(v) :
            tree[p] >= v => \A q \in Under(p) : tree[q] >= v
  /\ \A i \in DOMAIN SeekLevel :
       /\ NoRepeats(SeekLevel[i])
       /\ {SeekLevel[i][j] : j \in DOMAIN SeekLevel[i]} = {p \in Nodes : Len(p) = i - 1}
  /\ \A p \in Nodes : Len(p) < Len(SeekLevel)
  /\ \A v \in KeySet :
       LET erring == RangeTree({v}, {})
           panicking == RangeTree({}, {v})
       IN /\ NoRepeats(erring.seen) /\ NoRepeats(panicking.seen)
          /\ erring.err <=> v \in Keys
          /\ erring.err => tree[erring.seen[Len(erring.seen)]] = v
          /\ ~erring.err => Len(erring.seen) = Cardinality(Nodes)
          /\ {panicking.seen[i] : i \in DOMAIN panicking.seen} =
               {p \in Nodes : \A q \in Nodes : tree[q] = v => p \notin Under(q) \ {q}}

\* After any inserts and deletes the tree can be searched and the finders
\* answer as they should (FindersAnswer).  Insert puts its key in and loses no
\* other, whatever shape earlier deletes have left (insertVal).  Whether it
\* panics or not, a Delete after which its key is gone has removed that key
\* alone: the successor that takes the place of a node with two children is
\* not lost.  A Delete whose key stays may lose the subtree below it, which the
\* code does, but nothing else, and nothing where the node has two children
\* (deleteVal).
TreeKeepsKeys == []FindersAnswer /\ [][LocalUpdate]_treeVars
=============================================================================
