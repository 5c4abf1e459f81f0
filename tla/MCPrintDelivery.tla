--------------------------- MODULE MCPrintDelivery ---------------------------
(* PrintDelivery for TLC: rows and handler slots are interchangeable.       *)
EXTENDS PrintDelivery, TLC

Symmetry == Permutations(Job) \cup Permutations(Task) \cup Permutations(Agent)

InTransit(j) == inbox[j] + working[j] + answers[j]["validated"]
                  + answers[j]["printed"] + answers[j]["failed"]

\* Bounds: at most one payload is sent beyond those of the dispatches, to two
\* sockets of the device or to one that is in the job's room as well; few are
\* under way at once; and a run ends where handlers have raced over a job, or
\* where it has lost a dispatch and a result (the properties but the types say
\* next to nothing of it from there on).
Bounded ==
    /\ raced \cup (missed \cap lost) = {}
    /\ \A j \in Job : /\ extra[j] <= 1
                      /\ InTransit(j) <= 3
                      /\ Recipients(j) <= 2
                      /\ jobRoom[j] \subseteq deviceRoom
=============================================================================
