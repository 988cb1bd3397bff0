----------------------------- MODULE MCSessions -----------------------------
(* Instances of Sessions for TLC.                                           *)
EXTENDS Sessions, TLC

Symmetry == Permutations(Calls) \cup Permutations(Tokens)

\* Everything may fail but the SET that follows the DEL of a rotation.
AllButStoreSession == Operations \ {"storeSession"}

\* A bound: with every pair issued, states with blacklist entries are checked
\* but not gone on from.  Rotations are explored with all pairs and without
\* entries, entries with all pairs but one.
PairsOrEntries == Fresh # {} \/ \A h \in Headers : blacklist[h] = 0
=============================================================================
