----------------------------- MODULE MCRecords -----------------------------
\* Instance of module Records for TLC.
EXTENDS Records, TLC

Interchangeable ==
  Permutations(Requests) \cup Permutations(Cells) \cup Permutations(Admins)
=============================================================================
