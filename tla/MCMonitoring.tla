--------------------------- MODULE MCMonitoring ---------------------------
EXTENDS Monitoring, TLC

CONSTANTS i1, i2

\* One issue with each of two providers.
MCProviderOf == (i1 :> 1) @@ (i2 :> 2)
=============================================================================
