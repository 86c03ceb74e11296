----------------------------- MODULE MCPipeline -----------------------------
\* Finite instances of Pipeline.
EXTENDS Pipeline, TLC
=============================================================================
