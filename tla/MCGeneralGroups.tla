-------------------------- MODULE MCGeneralGroups --------------------------
\* Finite instances of GeneralGroups.
EXTENDS GeneralGroups, TLC
=============================================================================
