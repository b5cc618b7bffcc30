------------------------------ MODULE MCWaves ------------------------------
EXTENDS Waves

CONSTANTS a, b, c, nobody

\* Every depends_on of up to two entries over three services and an unknown.
Lists == UNION {[1 .. k -> Name \cup {nobody}] : k \in 0 .. 2}
AllConfigs == [Name -> Lists]
=============================================================================
