-------------------------- MODULE MCEntityDirectory --------------------------
(* Two peers with one endpoint each.                                          *)
EXTENDS EntityDirectory, TLC

CONSTANTS light, button, cover

TwoSources    == {1, 2}
OneEndpoint   == {1}
TwoEntities   == {light, button}
ThreeEntities == {light, button, cover}

\* Any configuration, including both peers owning one entity.
AnyOwnership == [TwoSources -> [OneEndpoint -> Entities \cup {NoEntity}]]

\* Every entity has one owner that never changes.
FixedOwnership == {[n \in TwoSources |-> [p \in OneEndpoint |->
                     IF n = 1 THEN light ELSE button]]}

Symmetry == Permutations(TwoEntities)   \* the observed entities are alike
=============================================================================
