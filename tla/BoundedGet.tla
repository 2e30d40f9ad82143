----------------------------- MODULE BoundedGet -----------------------------
(***************************************************************************)
(* What a source client promises to the goroutines that share it: a call   *)
(* is queued, then admitted while fewer than MaxConcurrentRequests calls   *)
(* are, or refused because its context ended; an admitted call is answered *)
(* exactly once and keeps its place until it has left.                     *)
(***************************************************************************)
EXTENDS Integers, FiniteSets

CONSTANTS Callers, MaxConcurrentRequests, Results

VARIABLES
    phase,    \* "idle", "wait", "refused" or "admitted"
    outcome   \* what the call will return, or "none"

Init ==
    /\ phase = [c \in Callers |-> "idle"]
    /\ outcome = [c \in Callers |-> "none"]

AdmittedCalls == {c \in Callers : phase[c] = "admitted"}

Ask(c) ==
    /\ phase[c] = "idle"
    /\ phase' = [phase EXCEPT ![c] = "wait"]
    /\ UNCHANGED outcome

Admit(c) ==
    /\ phase[c] = "wait"
    /\ Cardinality(AdmittedCalls) < MaxConcurrentRequests
    /\ phase' = [phase EXCEPT ![c] = "admitted"]
    /\ UNCHANGED outcome

Refuse(c) ==
    /\ phase[c] = "wait"
    /\ phase' = [phase EXCEPT ![c] = "refused"]
    /\ \E r \in {"Canceled", "ErrSourceTimeout"} :
          outcome' = [outcome EXCEPT ![c] = r]

Answer(c) ==
    /\ phase[c] = "admitted" /\ outcome[c] = "none"
    /\ \E r \in Results : outcome' = [outcome EXCEPT ![c] = r]
    /\ UNCHANGED phase

Leave(c) ==
    /\ phase[c] \in {"refused", "admitted"} /\ outcome[c] # "none"
    /\ phase' = [phase EXCEPT ![c] = "idle"]
    /\ outcome' = [outcome EXCEPT ![c] = "none"]

Next == \E c \in Callers :
            Ask(c) \/ Admit(c) \/ Refuse(c) \/ Answer(c) \/ Leave(c)

SafeSpec == Init /\ [][Next]_<<phase, outcome>>

=============================================================================
