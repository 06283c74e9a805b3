---------------------------- MODULE MCConfigWatch ----------------------------
(* Instances of ConfigWatch for TLC: two namespaces, of which one has two *)
(* groups; one client asks twice, for groups that overlap.                *)
EXTENDS ConfigWatch, TLC

SmallAsks ==
  {[namespace |-> "n1", id |-> "c1", items |-> "g1" :> {"f1"}],
   [namespace |-> "n1", id |-> "c1",
    items |-> "g1" :> {"f2"} @@ "g2" :> {"f1"}],
   [namespace |-> "n1", id |-> "c2", items |-> "g1" :> {"f1", "f2"}],
   [namespace |-> "n2", id |-> "c1", items |-> "g1" :> {"f1"}]}

SmallChanges ==
  {[namespace |-> "n1", group |-> "g1", file |-> "f1"],
   [namespace |-> "n1", group |-> "g2", file |-> "f1"]}

SmallUnencodable == {[namespace |-> "n1", group |-> "g2", file |-> "f1"]}
=============================================================================
