------------------------------- MODULE KeyTree -------------------------------
(***************************************************************************)
(* The search tree of keys of server/storage/kv.go (keyTree).  A node is   *)
(* named by the path from the root that leads to it, a sequence of "left"  *)
(* and "right"; the tree maps the paths of its nodes to their keys.  Every *)
(* operation holds keyTree.lock from start to end, also when it panics, so *)
(* that each is one step.                                                  *)
(***************************************************************************)
EXTENDS Integers, Sequences, FiniteSets

CONSTANTS
  KeySet,    \* the keys, numbers in the order strings.Compare gives them
  MaxSize    \* bound on keyTree.size, in both directions

ASSUME KeyTreeAssumption == KeySet \subseteq Int /\ MaxSize \in Nat

VARIABLES
  tree,      \* keyTree.root and what hangs from it
  size,      \* keyTree.size
  last       \* the last operation, its key, and whether it panicked

treeVars == <<tree, size, last>>

-----------------------------------------------------------------------------
Root == <<>>
Nodes == DOMAIN tree
Keys == {tree[p] : p \in Nodes}
Left(p) == Append(p, "left")
Right(p) == Append(p, "right")
Under(p) == {q \in Nodes : Len(q) >= Len(p) /\ SubSeq(q, 1, Len(p)) = p}
Below(p, q) == SubSeq(q, Len(p) + 1, Len(q))
IsLeaf(p) == Left(p) \notin Nodes /\ Right(p) \notin Nodes

Without(P) == [q \in Nodes \ P |-> tree[q]]

\* The comparisons with the keys on the way to p lead to p.
Turn(v, q) == IF v < tree[q] THEN "left" ELSE "right"
LeadsTo(v, p) ==
  \A i \in 1 .. Len(p) :
    LET q == SubSeq(p, 1, i - 1)
    IN q \in Nodes /\ tree[q] # v /\ p[i] = Turn(v, q)

\* Where the recursion of insertVal and deleteVal ends: at the node of v, or
\* at the place where v is missing.
Place(v) ==
  CHOOSE p \in {Root} \cup Nodes \cup {Left(q) : q \in Nodes} \cup {Right(q) : q \in Nodes} :
    LeadsTo(v, p) /\ (p \in Nodes => tree[p] = v)

\* findMinNode: to the left until a leaf, or nil where there is no left child.
LeftSpine(p) == {q \in Under(p) : \A i \in DOMAIN Below(p, q) : Below(p, q)[i] = "left"}
findMinNode(p) == {q \in LeftSpine(p) : IsLeaf(q)}

-----------------------------------------------------------------------------
TreeInit ==
  /\ tree = <<>>
  /\ size = 0
  /\ last = [op |-> "new", key |-> 0, panicked |-> FALSE]

InsertVal(v) ==
  [q \in Nodes \cup {Place(v)} |-> IF q = Place(v) THEN v ELSE tree[q]]

Insert(v) ==
  /\ tree' = InsertVal(v)
  /\ size' = size + 1
  /\ last' = [op |-> "insert", key |-> v, panicked |-> FALSE]

\* The right child takes the place of p.
Lift(p) ==
  LET moved == {p \o Below(Right(p), q) : q \in Under(Right(p))}
  IN [q \in (Nodes \ Under(p)) \cup moved |->
        IF q \in moved THEN tree[Right(p) \o Below(p, q)] ELSE tree[q]]

\* A node with one child or none.  Without a left child the right one, or
\* nil, is returned to the caller, which below the root links it in place of
\* p; Delete drops the result for the root.  Otherwise p itself is returned.
\* In each case p's own links are cut.
CutSubtree(p) == Without(Under(p))
CutNode(p) ==
  IF Left(p) \in Nodes \/ p = Root
  THEN Without(Under(p) \ {p})
  ELSE Lift(p)

\* A node with two children takes the key of the node m that findMinNode
\* returns for the right subtree, and m, a leaf, is deleted there.
Replace(p, m) == [q \in Nodes \ {m} |-> IF q = p THEN tree[m] ELSE tree[q]]

HasBoth(p) == Left(p) \in Nodes /\ Right(p) \in Nodes

\* Each frame of deleteVal but the outermost one sets the parent of what the
\* frame below returned, and panics when that is nil.
DeleteVal(v) ==
  LET p == Place(v) IN
    IF p \notin Nodes THEN [tree |-> tree, panicked |-> p # Root]
    ELSE IF ~HasBoth(p)
      THEN [tree |-> CutNode(p), panicked |-> p # Root /\ IsLeaf(p)]
    ELSE IF findMinNode(Right(p)) = {}
      THEN [tree |-> tree, panicked |-> TRUE]
    ELSE LET m == CHOOSE q \in findMinNode(Right(p)) : TRUE
         IN [tree |-> Replace(p, m), panicked |-> m # Right(p)]

Delete(v) ==
  LET d == DeleteVal(v) IN
    /\ tree' = d.tree
    /\ size' = IF d.panicked THEN size ELSE size - 1
    /\ last' = [op |-> "delete", key |-> v, panicked |-> d.panicked]

\* The guards on size bound the runs: size counts inserts of present and
\* deletes of absent keys, and drifts without end.
TreeNext ==
  \/ \E v \in KeySet : size < MaxSize /\ Insert(v)
  \/ \E v \in KeySet : size > -MaxSize /\ Delete(v)

TreeSpec == TreeInit /\ [][TreeNext]_treeVars
=============================================================================
