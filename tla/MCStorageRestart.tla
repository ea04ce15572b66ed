--------------------------- MODULE MCStorageRestart ---------------------------
\* StorageRestart on a small instance: one X, so that liveness can be checked.
EXTENDS RestartInvariant
=============================================================================
