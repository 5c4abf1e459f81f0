----------------------------- MODULE MCPrintJobs -----------------------------
(* PrintJobs for TLC: rows and handler slots are interchangeable.           *)
EXTENDS PrintJobs, TLC

Symmetry == Permutations(Job) \cup Permutations(Task)

\* Bound for the runs about submissions: at most one row is ever dispatched.
OneRowDispatched == Cardinality({j \in Job : attempts[j] > 0}) <= 1
=============================================================================
