-------------------------- MODULE MCClusterManager --------------------------
(* Instances of ClusterManager: this server and another member. *)
EXTENDS ClusterManager

CONSTANTS a, nil

\* Lists that grow, shrink and repeat a member, and one of MultiParse.
SmallLists == {<<>>, <<Self>>, <<Self, a>>, <<a, a>>, <<nil, a>>}
=============================================================================
