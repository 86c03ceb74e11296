----------------------------- MODULE MCStartup -----------------------------
\* Finite instances of Startup.
EXTENDS Startup, TLC

\* A first deployment in production during which nothing fails.
UndisturbedSpec ==
    /\ BootInit
    /\ production = TRUE /\ schema = {} /\ stray = FALSE /\ calm = TRUE
    /\ [][BootNext]_<<vars, bootVars>>
=============================================================================
