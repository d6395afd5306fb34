------------------------------ MODULE MCMetabase ------------------------------
\* A small bucket for TLC.
EXTENDS Metabase

CONSTANTS k1

\* The uploads of the runs do not ask for an expiration.
MCTTLs == {NoTime}
=============================================================================
