----------------------------- MODULE MCAiQuota -----------------------------
\* Finite instances of AiQuota.
EXTENDS AiQuota, TLC
=============================================================================
