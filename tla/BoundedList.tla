---------------------------- MODULE BoundedList ----------------------------
(***************************************************************************)
(* What a list tool promises about objects that change while it looks at   *)
(* them, without saying how it looks.  An answer names at most limit       *)
(* objects, each of them unready at some moment of the observation; and an *)
(* answer that does not call itself truncated names every object that was  *)
(* unready all along.  Every request is answered or fails.                 *)
(***************************************************************************)
EXTENDS Integers, FiniteSets

CONSTANT Objects

VARIABLES
    condition,  \* object -> "absent", "ready" or "unready"
    request,    \* the selected objects and the limit, or NoRequest
    since,      \* object -> its conditions since the request was made
    answer      \* the named objects and the truncated flag, once answered

vars == <<condition, request, since, answer>>

Conditions == {"absent", "ready", "unready"}
NoRequest == [kind |-> "none"]
NoAnswer == [kind |-> "none"]
Failed == [kind |-> "error"]
IsRequest(r) ==
    r.kind = "request" /\ r.selected \subseteq Objects /\ r.limit \in Nat

Init ==
    /\ condition \in [Objects -> Conditions]
    /\ request = NoRequest
    /\ since = [o \in Objects |-> {}]
    /\ answer = NoAnswer

(* A request may be refused on the spot. *)
Ask ==
    /\ request = NoRequest
    /\ IsRequest(request')
    /\ since' = [o \in Objects |-> {condition[o]}]
    /\ answer' \in {NoAnswer, Failed}
    /\ UNCHANGED condition

Change(o, c) ==
    /\ condition' = [condition EXCEPT ![o] = c]
    /\ since' = IF request = NoRequest THEN since
                ELSE [since EXCEPT ![o] = @ \cup {c}]
    /\ UNCHANGED <<request, answer>>

Answer(named, truncated) ==
    /\ request # NoRequest /\ answer = NoAnswer
    /\ Cardinality(named) <= request.limit
    /\ \A o \in named : o \in request.selected /\ "unready" \in since[o]
    /\ ~truncated =>
          \A o \in request.selected : since[o] = {"unready"} => o \in named
    /\ answer' = [kind |-> "list", named |-> named, truncated |-> truncated]
    /\ UNCHANGED <<condition, request, since>>

Fail ==
    /\ request # NoRequest /\ answer = NoAnswer
    /\ answer' = Failed
    /\ UNCHANGED <<condition, request, since>>

Done ==
    /\ answer # NoAnswer
    /\ request' = NoRequest /\ answer' = NoAnswer
    /\ since' = [o \in Objects |-> {}]
    /\ UNCHANGED condition

Next ==
    \/ Ask \/ Fail \/ Done
    \/ \E o \in Objects, c \in Conditions : Change(o, c)
    \/ \E named \in SUBSET Objects, t \in BOOLEAN : Answer(named, t)

Answered == (request # NoRequest) ~> (answer # NoAnswer)

SafeSpec == Init /\ [][Next]_vars
Spec == SafeSpec /\ Answered

=============================================================================
