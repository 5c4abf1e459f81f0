---------------------------- MODULE PrintContract ----------------------------
(***************************************************************************)
(* What the print-job pipeline promises about deliveries, whatever handlers*)
(* it runs and however they interleave: a job that was handed to a printer *)
(* is eventually no longer left unanswered, and the timeouts grant it no   *)
(* more retries than its allowance and never one for a send that was not   *)
(* made.                                                                   *)
(***************************************************************************)
EXTENDS Integers

CONSTANTS
    Job,
    Budget   \* allowances a job may have

VARIABLES
    phase,      \* phase[j]: "none", "open", "awaiting" an answer, or "gone"
    sends,      \* sends[j]: times the job was handed to its printer
    retries,    \* retries[j]: retries granted
    allowance   \* allowance[j]: retries it may be granted

vars == <<phase, sends, retries, allowance>>

Init ==
    /\ phase = [j \in Job |-> "none"]
    /\ sends = [j \in Job |-> 0]
    /\ retries = [j \in Job |-> 0]
    /\ allowance = [j \in Job |-> 0]

Live(j) == phase[j] \in {"open", "awaiting"}

Accept(j) ==
    /\ phase[j] = "none"
    /\ phase' = [phase EXCEPT ![j] = "open"]
    /\ \E b \in Budget : allowance' = [allowance EXCEPT ![j] = b]
    /\ UNCHANGED <<sends, retries>>

\* Sending again while an answer is awaited is allowed: two dispatches may
\* both have read the job before either wrote it.
Send(j) ==
    /\ Live(j)
    /\ phase' = [phase EXCEPT ![j] = "awaiting"]
    /\ sends' = [sends EXCEPT ![j] = @ + 1]
    /\ UNCHANGED <<retries, allowance>>

Settle(j) ==
    /\ phase[j] = "awaiting"
    /\ phase' = [phase EXCEPT ![j] = "open"]
    /\ UNCHANGED <<sends, retries, allowance>>

Grant(j) ==
    /\ Live(j)
    /\ retries[j] < allowance[j]
    /\ retries[j] < sends[j]
    /\ retries' = [retries EXCEPT ![j] = @ + 1]
    /\ UNCHANGED <<phase, sends, allowance>>

Withdraw(j) ==
    /\ Live(j)
    /\ phase' = [phase EXCEPT ![j] = "gone"]
    /\ sends' = [sends EXCEPT ![j] = 0]
    /\ retries' = [retries EXCEPT ![j] = 0]
    /\ allowance' = [allowance EXCEPT ![j] = 0]

Next == \E j \in Job : Accept(j) \/ Send(j) \/ Settle(j) \/ Grant(j) \/ Withdraw(j)

SafeSpec == Init /\ [][Next]_vars
Spec == SafeSpec /\ \A j \in Job : WF_vars(Settle(j))
=============================================================================
