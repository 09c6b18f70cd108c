--------------------------- MODULE MCScheduledJobs ---------------------------
(* A small instance of the scheduled jobs: two calls in one process.       *)
EXTENDS ScheduledJobs

CONSTANTS j1, c1, c2, p1

MCJobOf == [c \in Calls |-> j1]
MCProcOf == [c \in Calls |-> p1]
=============================================================================
