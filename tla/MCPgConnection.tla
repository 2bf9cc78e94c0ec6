--------------------------- MODULE MCPgConnection ---------------------------
\* The constants of the runs are in the .cfg files.
EXTENDS PgConnection
CONSTANTS c1, c2, s1, s2
=============================================================================
