-------------------------- MODULE CredentialContract --------------------------
(***************************************************************************)
(* What a device's credentials promise, whatever handlers run, however they*)
(* interleave and fail, and whatever Redis remembers: a key or a session   *)
(* that was revoked stays so; a session is opened with a key that was      *)
(* issued, and belongs to it for good; a refresh token is given out once,  *)
(* and buys the next one only if it was presented while it was the token   *)
(* of a live session.                                                      *)
(***************************************************************************)
CONSTANTS Key, Session, Token, None

VARIABLES
    phase,    \* phase[k]: "absent", "active" or "revoked"
    session,  \* session[n]: "absent", "live" or "revoked"
    keyOf,    \* keyOf[n]: the key that session n was opened with
    tokenOf,  \* tokenOf[n]: its refresh token
    issued,   \* refresh tokens given out
    accepted  \* <<n, x>>: token x was accepted for n and has yet to be replaced

vars == <<phase, session, keyOf, tokenOf, issued, accepted>>

Init ==
    /\ phase = [k \in Key |-> "absent"]
    /\ session = [n \in Session |-> "absent"]
    /\ keyOf = [n \in Session |-> None]
    /\ tokenOf = [n \in Session |-> None]
    /\ issued = {}
    /\ accepted = {}

IssueKey(k) ==
    /\ phase[k] = "absent"
    /\ phase' = [phase EXCEPT ![k] = "active"]
    /\ UNCHANGED <<session, keyOf, tokenOf, issued, accepted>>

RevokeKeys(K) ==
    /\ \A k \in K : phase[k] # "absent"
    /\ phase' = [k \in Key |-> IF k \in K THEN "revoked" ELSE phase[k]]
    /\ UNCHANGED <<session, keyOf, tokenOf, issued, accepted>>

Open(n, k, x) ==
    /\ session[n] = "absent"
    /\ phase[k] # "absent"
    /\ x \notin issued
    /\ session' = [session EXCEPT ![n] = "live"]
    /\ keyOf' = [keyOf EXCEPT ![n] = k]
    /\ tokenOf' = [tokenOf EXCEPT ![n] = x]
    /\ issued' = issued \cup {x}
    /\ UNCHANGED <<phase, accepted>>

Accept(n) ==
    /\ session[n] = "live"
    /\ accepted' = accepted \cup {<<n, tokenOf[n]>>}
    /\ UNCHANGED <<phase, session, keyOf, tokenOf, issued>>

\* The token may have been accepted more than once.
Replace(n, x, y) ==
    /\ <<n, x>> \in accepted
    /\ y \notin issued
    /\ tokenOf' = [tokenOf EXCEPT ![n] = y]
    /\ issued' = issued \cup {y}
    /\ accepted' \in {accepted, accepted \ {<<n, x>>}}
    /\ UNCHANGED <<phase, session, keyOf>>

GiveUp(lost) ==
    /\ accepted' = accepted \ lost
    /\ UNCHANGED <<phase, session, keyOf, tokenOf, issued>>

RevokeSessions(N) ==
    /\ \A n \in N : session[n] # "absent"
    /\ session' = [n \in Session |-> IF n \in N THEN "revoked" ELSE session[n]]
    /\ UNCHANGED <<phase, keyOf, tokenOf, issued, accepted>>

Next ==
    \/ \E k \in Key : IssueKey(k)
    \/ \E K \in SUBSET Key : RevokeKeys(K)
    \/ \E n \in Session, k \in Key, x \in Token : Open(n, k, x)
    \/ \E n \in Session : Accept(n)
    \/ \E n \in Session, x, y \in Token : Replace(n, x, y)
    \/ \E lost \in SUBSET accepted : GiveUp(lost)
    \/ \E N \in SUBSET Session : RevokeSessions(N)

Spec == Init /\ [][Next]_vars
=============================================================================
