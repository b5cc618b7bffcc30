----------------------------- MODULE MCStartup -----------------------------
EXTENDS Startup, TLC

CONSTANTS db, migrate, api, c1, c2

Stack == (db :> {}) @@ (migrate :> {db}) @@ (api :> {migrate})
StackWaves == (db :> 0) @@ (migrate :> 1) @@ (api :> 2)
Flat == (db :> {}) @@ (migrate :> {}) @@ (api :> {db, migrate})
FlatWaves == (db :> 0) @@ (migrate :> 0) @@ (api :> 1)
=============================================================================
