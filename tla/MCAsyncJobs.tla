----------------------------- MODULE MCAsyncJobs -----------------------------
EXTENDS AsyncJobs
CONSTANTS j1, j2, i1, i2, o1, o2
OneJob == {j1}
TwoJobs == {j1, j2}
OneId == {i1}
TwoIds == {i1, i2}
OneOwner == {o1}
TwoOwners == {o1, o2}
Symmetry == Permutations(Jobs) \cup Permutations(Ids) \cup Permutations(Owners)
==============================================================================
