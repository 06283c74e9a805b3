--------------------------- MODULE ConsistentHash ---------------------------
(***************************************************************************)
(* ConsistentHash of utils/consistency.go.  A key is its checksum; the     *)
(* checksums of nodes are any, equal ones included.  Each call holds the   *)
(* lock from its begin to its end and is one step, except an AddNode whose *)
(* inner loop finds its only position taken: it spins for ever, and nobody *)
(* gets the lock again.                                                    *)
(***************************************************************************)
EXTENDS Integers, Sequences, FiniteSets, TLC

CONSTANTS
  RingNodes,
  MaxCode      \* bound: checksums

Codes == 0 .. MaxCode

VARIABLES
  checksum,        \* crc32.ChecksumIEEE of each node
  virtualNodeNum,
  nodeMap,
  circleMap,       \* position -> node
  sortNode,        \* the positions
  spins            \* an AddNode holds the lock for ever

ringVars == <<checksum, virtualNodeNum, nodeMap, circleMap, sortNode, spins>>

NewConsistentHash ==
  /\ checksum \in [RingNodes -> Codes]
  /\ virtualNodeNum \in 0 .. 2
  /\ nodeMap = {}
  /\ circleMap = <<>>
  /\ sortNode = <<>>
  /\ spins = FALSE

Sorted(positions) == SortSeq(positions, <)

-----------------------------------------------------------------------------
\* A node that is known, or one without virtual nodes: only the sort.
AddNothing(n) ==
  /\ n \in nodeMap \/ virtualNodeNum = 0
  /\ sortNode' = Sorted(sortNode)
  /\ UNCHANGED <<circleMap, spins>>

\* All virtual nodes of n have the same position: the second one spins.
AddPosition(n) ==
  /\ n \notin nodeMap /\ virtualNodeNum > 0
  /\ checksum[n] \notin DOMAIN circleMap
  /\ circleMap' = circleMap @@ (checksum[n] :> n)
  /\ spins' = (virtualNodeNum > 1)
  /\ sortNode' = IF spins' THEN Append(sortNode, checksum[n])
                 ELSE Sorted(Append(sortNode, checksum[n]))

\* Another node has the position.
AddSpins(n) ==
  /\ n \notin nodeMap /\ virtualNodeNum > 0
  /\ checksum[n] \in DOMAIN circleMap
  /\ spins' = TRUE
  /\ UNCHANGED <<circleMap, sortNode>>

AddNode(n) ==
  /\ ~spins
  /\ AddNothing(n) \/ AddPosition(n) \/ AddSpins(n)
  /\ nodeMap' = nodeMap \cup {n}
  /\ UNCHANGED <<checksum, virtualNodeNum>>

\* The condition is the wrong way round: a node that is known stays, and one
\* that is not has no position to lose.
Removes(n) == n \notin nodeMap

RemoveNode(n) ==
  /\ ~spins
  /\ Removes(n)
  /\ nodeMap' = nodeMap \ {n}
  /\ LET kept == {p \in DOMAIN circleMap : circleMap[p] # n} IN
     /\ circleMap' = [p \in kept |-> circleMap[p]]
     /\ sortNode' = Sorted(SelectSeq(sortNode, LAMBDA p : p \in kept))
  /\ UNCHANGED <<checksum, virtualNodeNum, spins>>

\* sort.Search: how many positions are before code.
SearchBehind(code) == Cardinality({i \in DOMAIN sortNode : sortNode[i] <= code})
Search(code) == Cardinality({i \in DOMAIN sortNode : sortNode[i] < code})

\* GetNode, of a ring that is not empty: it panics on an empty one.  A code at
\* the last position is answered with the first node, one behind it with the
\* last.
GetNode(code) ==
  LET length == Len(sortNode)
      position == Search(code)
      p == IF position < length
           THEN IF position = length - 1 THEN 0 ELSE position
           ELSE length - 1
  IN circleMap[sortNode[p + 1]]

RingNext == \E n \in RingNodes : AddNode(n) \/ RemoveNode(n)

-----------------------------------------------------------------------------
(* Properties *)

\* The node at the first position from code on, as a consistent hash has it.
Successor(code) ==
  circleMap[CHOOSE p \in DOMAIN circleMap :
              p >= code /\ \A q \in DOMAIN circleMap : q >= code => p <= q]

\* code is before the last position but one, or at it.
Inner(code) == Len(sortNode) > 1 /\ code <= sortNode[Len(sortNode) - 1]

\* utils/consistency.go:33-98: of whatever AddNode and RemoveNode leave, GetNode
\* answers a code up to the last position but one with the next node on the
\* ring, and a call moves a code only to the node it adds, except that codes
\* beyond the last position but one also move when a node comes behind all
\* others.  No call takes a code from a node to one that was there before
\* otherwise, RemoveNode included.  An AddNode spins exactly for a second node
\* of the same checksum, or a second virtual node of any.
RingMovesLittle ==
  /\ [](/\ ~spins => \A code \in Codes : Inner(code) => GetNode(code) = Successor(code)
        /\ spins <=> \/ virtualNodeNum > 1 /\ nodeMap # {}
                     \/ virtualNodeNum = 1 /\ \E n, m \in nodeMap : n # m /\ checksum[n] = checksum[m])
  /\ [][sortNode # <<>> /\ ~spins' =>
          /\ DOMAIN circleMap \subseteq DOMAIN circleMap'
          /\ \A code \in Codes :
               \/ GetNode(code)' = GetNode(code)
               \/ GetNode(code)' \in nodeMap' \ nodeMap
               \/ ~Inner(code) /\ sortNode'[Len(sortNode')] # sortNode[Len(sortNode)]]_ringVars
=============================================================================
