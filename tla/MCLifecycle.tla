---------------------------- MODULE MCLifecycle ----------------------------
EXTENDS Lifecycle, TLC

CONSTANTS db, api, r1, r2, r3

OneWave == (db :> 0)
TwoWaves == (db :> 0) @@ (api :> 1)
Requests == Permutations(Request)
=============================================================================
