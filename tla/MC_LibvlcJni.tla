---------------------------- MODULE MC_LibvlcJni ----------------------------
EXTENDS LibvlcJni

CONSTANTS p1, p2, file, stream, next

\* The first player gets a file and a stream, the second a stream.
Owners == [m \in Media |-> IF m = next THEN p2 ELSE p1]
=============================================================================
