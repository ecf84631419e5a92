-------------------------- MODULE MCSiteLifecycle --------------------------
(* Values of SiteLifecycle's constants for TLC. *)
EXTENDS SiteLifecycle, TLC

\* One site at a time server-wide: a second launch needs the first to end.
OneAtATime == {<<Sites, 1>>}
AllRows == {Sites}
AllSites == Sites
None == {}

Symmetry == Permutations(Containers) \cup Permutations(Sites) \cup Permutations(Names)
=============================================================================
