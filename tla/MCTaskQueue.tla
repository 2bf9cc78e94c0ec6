---------------------------- MODULE MCTaskQueue ----------------------------
\* Two tasks, a before b; constants of the runs are in the .cfg files.
EXTENDS TaskQueue
CONSTANTS a, b, w1, w2
MCScheduledAt == [t \in Tasks |-> IF t = a THEN 0 ELSE 1]
=============================================================================
