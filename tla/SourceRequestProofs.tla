------------------------ MODULE SourceRequestProofs ------------------------
(***************************************************************************)
(* Proofs about SourceRequest for every finite set of callers, every       *)
(* capacity of the slot channel, every body limit and either adapter.      *)
(***************************************************************************)
EXTENDS SourceRequest, FiniteSetTheorems, TLAPS

-----------------------------------------------------------------------------
(* The inductive invariant. *)

(* No call was admitted at a version that the token file has not reached.   *)
(* TokenFresh needs it at the step that reads the credential.               *)
AdmittedInPast == \A c \in Callers : admittedAt[c] <= tokenFile.version

(* A result is present exactly when the call is about to return: so no      *)
(* step of the request can disturb a result that was decided.               *)
ResultDecided ==
    \A c \in Callers : result[c] # "none" <=> pc[c] \in {"refused", "release"}

(* The parts that concern each caller alone. *)
CallerInv == AdmittedInPast /\ ResultDecided /\ TokenFresh /\ BodyComplete
             /\ OutcomeMatchesContext

IInv == TypeOK /\ SlotsMatchHolders /\ CallerInv

-----------------------------------------------------------------------------
(* The slot channel. *)

(* There are finitely many holders of a slot: Holders is a set of callers. *)
LEMMA HoldersFinite ==
    /\ IsFiniteSet(Holders)
    /\ Cardinality(Holders) \in Nat
<1>1. Holders \in SUBSET Callers
  BY DEF Holders
<1> QED
  BY <1>1, FS_Subset, FS_CardinalityType, ConstantsAssumption

(* A step that moves a caller inside Get, or outside it, and leaves the     *)
(* channel alone keeps the channel in accord with its holders.              *)
LEMMA SlotsKept ==
    ASSUME SlotsMatchHolders, requestSlots' = requestSlots,
           \A d \in Callers : pc'[d] \in Admitted <=> pc[d] \in Admitted
    PROVE  SlotsMatchHolders'
<1>1. Holders' = Holders
  BY DEF Holders
<1> QED
  BY <1>1 DEF SlotsMatchHolders

(* The send on requestSlots adds exactly the caller that performs it. *)
LEMMA AcquireSlotCounts ==
    ASSUME TypeOK, SlotsMatchHolders, NEW c \in Callers, AcquireSlot(c)
    PROVE  SlotsMatchHolders'
<1>1. Holders' = Holders \cup {c}
  BY DEF AcquireSlot, Goto, Holders, Admitted, TypeOK
<1>2. c \notin Holders
  BY DEF AcquireSlot, Goto, Holders, Admitted
<1>3. Cardinality(Holders') = Cardinality(Holders) + 1
  BY <1>1, <1>2, HoldersFinite, FS_AddElement
<1> QED
  BY <1>3 DEF SlotsMatchHolders, AcquireSlot

(* The deferred receive removes exactly the caller that performs it, and    *)
(* the channel is not empty then.                                           *)
LEMMA ReturnReleasingCounts ==
    ASSUME TypeOK, SlotsMatchHolders, NEW c \in Callers, ReturnReleasing(c)
    PROVE  SlotsMatchHolders' /\ requestSlots > 0
<1>1. Holders' = Holders \ {c}
  BY DEF ReturnReleasing, Goto, Holders, Admitted, TypeOK
<1>2. c \in Holders
  BY DEF ReturnReleasing, Goto, Holders, Admitted
<1>3. Cardinality(Holders') = Cardinality(Holders) - 1
  BY <1>1, <1>2, HoldersFinite, FS_RemoveElement
<1>4. Cardinality(Holders) > 0
  BY <1>2, HoldersFinite, FS_EmptySet
<1> QED
  BY <1>3, <1>4 DEF SlotsMatchHolders, ReturnReleasing

-----------------------------------------------------------------------------
(* Each step preserves the inductive invariant. *)

(* The initial state satisfies the inductive invariant. *)
LEMMA InitIInv == Init => IInv
<1> SUFFICES ASSUME Init PROVE IInv
  OBVIOUS
<1> USE ConstantsAssumption
<1>1. TypeOK
  BY DEF Init, TypeOK, PCs, Admitted, ContextErrors, NoToken, Lengths
<1>2. Holders = {}
  BY DEF Init, Holders, Admitted
<1>3. SlotsMatchHolders
  BY <1>2, FS_EmptySet DEF Init, SlotsMatchHolders
<1>4. CallerInv
  BY DEF Init, CallerInv, AdmittedInPast, ResultDecided, TokenFresh, HasCredential, Open,
         BodyComplete, OutcomeMatchesContext
<1> QED
  BY <1>1, <1>3, <1>4 DEF IInv

(* Calling Get preserves the inductive invariant. *)
LEMMA CallIInv ==
    ASSUME IInv, NEW c \in Callers, NEW parent \in {"nil", "Canceled"},
           Call(c, parent)
    PROVE  IInv'
<1> USE ConstantsAssumption DEF IInv, Call, Goto
<1>1. TypeOK'
  BY DEF TypeOK, PCs, ContextErrors
<1>2. SlotsMatchHolders'
  BY SlotsKept DEF TypeOK, Admitted
<1>3. CallerInv'
  BY DEF TypeOK, PCs, Admitted, CallerInv, AdmittedInPast, ResultDecided,
         TokenFresh, HasCredential, Open, BodyComplete, OutcomeMatchesContext
<1> QED
  BY <1>1, <1>2, <1>3

(* Taking a slot preserves the inductive invariant. *)
LEMMA AcquireSlotIInv ==
    ASSUME IInv, NEW c \in Callers, AcquireSlot(c)
    PROVE  IInv'
<1> USE ConstantsAssumption DEF IInv, AcquireSlot, Goto
<1>1. TypeOK'
  BY DEF TypeOK, PCs, Admitted, Lengths
<1>2. SlotsMatchHolders'
  BY AcquireSlotCounts
<1>3. CallerInv'
  BY DEF TypeOK, PCs, Admitted, CallerInv, AdmittedInPast, ResultDecided,
         TokenFresh, HasCredential, Open, BodyComplete, OutcomeMatchesContext
<1> QED
  BY <1>1, <1>2, <1>3

(* Giving up in the queue preserves the inductive invariant. *)
LEMMA GiveUpIInv ==
    ASSUME IInv, NEW c \in Callers, GiveUp(c)
    PROVE  IInv'
<1> USE ConstantsAssumption DEF IInv, GiveUp, Goto, Decide
<1>1. TypeOK'
  BY DEF TypeOK, PCs, Admitted, ContextErrors, Results, contextError
<1>2. SlotsMatchHolders'
  BY SlotsKept DEF TypeOK, Admitted
<1>3. CallerInv'
  BY DEF TypeOK, PCs, Admitted, ContextErrors, contextError, CallerInv, AdmittedInPast, ResultDecided,
         TokenFresh, HasCredential, Open, BodyComplete, OutcomeMatchesContext
<1> QED
  BY <1>1, <1>2, <1>3

(* Skipping the credential preserves the inductive invariant. *)
LEMMA NoCredentialIInv ==
    ASSUME IInv, NEW c \in Callers, NoCredential(c)
    PROVE  IInv'
<1> USE ConstantsAssumption DEF IInv, NoCredential, Goto
<1>1. TypeOK'
  BY DEF TypeOK, PCs, Admitted, Lengths
<1>2. SlotsMatchHolders'
  BY SlotsKept DEF TypeOK, Admitted
<1>3. CallerInv'
  BY DEF TypeOK, PCs, Admitted, CallerInv, AdmittedInPast, ResultDecided,
         TokenFresh, HasCredential, Open, BodyComplete, OutcomeMatchesContext
<1> QED
  BY <1>1, <1>2, <1>3

(* Reading the token preserves the inductive invariant: the version read is  *)
(* not older than the one seen at admission, by AdmittedInPast.              *)
LEMMA ReadCredentialIInv ==
    ASSUME IInv, NEW c \in Callers, ReadCredential(c)
    PROVE  IInv'
<1> USE ConstantsAssumption DEF IInv, ReadCredential, Goto
<1>1. TypeOK'
  BY DEF TypeOK, PCs, Admitted, BearerToken, NoToken
<1>2. SlotsMatchHolders'
  BY SlotsKept DEF TypeOK, Admitted
<1>3. CallerInv'
  BY DEF TypeOK, PCs, Admitted, BearerToken, NoToken, CallerInv, AdmittedInPast, ResultDecided,
         TokenFresh, HasCredential, Open, BodyComplete, OutcomeMatchesContext
<1> QED
  BY <1>1, <1>2, <1>3

(* The early return for a credential that cannot be read keeps the slot      *)
(* until the deferred release, so it preserves the inductive invariant.      *)
LEMMA CredentialFailsIInv ==
    ASSUME IInv, NEW c \in Callers, CredentialFails(c)
    PROVE  IInv'
<1> USE ConstantsAssumption DEF IInv, CredentialFails, Goto, Decide
<1>1. TypeOK'
  BY DEF TypeOK, PCs, Admitted, Results
<1>2. SlotsMatchHolders'
  BY SlotsKept DEF TypeOK, Admitted
<1>3. CallerInv'
  BY DEF TypeOK, PCs, Admitted, CallerInv, AdmittedInPast, ResultDecided,
         TokenFresh, HasCredential, Open, BodyComplete, OutcomeMatchesContext
<1> QED
  BY <1>1, <1>2, <1>3

(* A response preserves the inductive invariant, whatever its header says. *)
LEMMA DoReturnsIInv ==
    ASSUME IInv, NEW c \in Callers, NEW success \in BOOLEAN, NEW json \in BOOLEAN,
           NEW n \in Lengths, DoReturns(c, success, json, n)
    PROVE  IInv'
<1> USE ConstantsAssumption DEF IInv, DoReturns, Goto, Decide, Verdict, sourcehttpVerdict,
        kubernetesVerdict
<1>1. TypeOK'
  BY DEF TypeOK, PCs, Admitted, Results
<1>2. SlotsMatchHolders'
  BY SlotsKept DEF TypeOK, Admitted
<1>3. CallerInv'
  BY DEF TypeOK, PCs, Admitted, CallerInv, AdmittedInPast, ResultDecided,
         TokenFresh, HasCredential, Open, BodyComplete, OutcomeMatchesContext
<1> QED
  BY <1>1, <1>2, <1>3

(* A failed Do preserves the inductive invariant. *)
LEMMA DoFailsIInv ==
    ASSUME IInv, NEW c \in Callers, NEW e \in ContextErrors \cup {"transport"},
           DoFails(c, e)
    PROVE  IInv'
<1> USE ConstantsAssumption DEF IInv, DoFails, Goto
<1>1. TypeOK'
  BY DEF TypeOK, PCs, Admitted, ContextErrors
<1>2. SlotsMatchHolders'
  BY SlotsKept DEF TypeOK, Admitted
<1>3. CallerInv'
  BY DEF TypeOK, PCs, Admitted, CallerInv, AdmittedInPast, ResultDecided,
         TokenFresh, HasCredential, Open, BodyComplete, OutcomeMatchesContext
<1> QED
  BY <1>1, <1>2, <1>3

(* Classifying a failed Do preserves the inductive invariant. *)
LEMMA DoErrorReturnIInv ==
    ASSUME IInv, NEW c \in Callers, DoErrorReturn(c)
    PROVE  IInv'
<1> USE ConstantsAssumption DEF IInv, DoErrorReturn, Goto, Decide
<1>1. TypeOK'
  BY DEF TypeOK, PCs, Admitted, ContextErrors, Results, contextError
<1>2. SlotsMatchHolders'
  BY SlotsKept DEF TypeOK, Admitted
<1>3. CallerInv'
  BY DEF TypeOK, PCs, Admitted, ContextErrors, contextError, CallerInv, AdmittedInPast, ResultDecided,
         TokenFresh, HasCredential, Open, BodyComplete, OutcomeMatchesContext
<1> QED
  BY <1>1, <1>2, <1>3

(* Receiving a part of the body preserves the inductive invariant. *)
LEMMA ReadByteIInv ==
    ASSUME IInv, NEW c \in Callers, ReadByte(c)
    PROVE  IInv'
<1> USE ConstantsAssumption DEF IInv, ReadByte
<1>1. TypeOK'
  BY DEF TypeOK, PCs, Admitted, Lengths, LimitedRead
<1>2. SlotsMatchHolders'
  BY SlotsKept DEF TypeOK, Admitted
<1>3. CallerInv'
  BY DEF TypeOK, PCs, Admitted, Lengths, LimitedRead, CallerInv, AdmittedInPast, ResultDecided,
         TokenFresh, HasCredential, Open, BodyComplete, OutcomeMatchesContext
<1> QED
  BY <1>1, <1>2, <1>3

(* A failed ReadAll preserves the inductive invariant. *)
LEMMA ReadFailsIInv ==
    ASSUME IInv, NEW c \in Callers, NEW e \in ContextErrors \cup {"transport"},
           ReadFails(c, e)
    PROVE  IInv'
<1> USE ConstantsAssumption DEF IInv, ReadFails, Goto, Decide
<1>1. TypeOK'
  BY DEF TypeOK, PCs, Admitted, ContextErrors, Results
<1>2. SlotsMatchHolders'
  BY SlotsKept DEF TypeOK, Admitted
<1>3. CallerInv'
  BY DEF TypeOK, PCs, Admitted, CallerInv, AdmittedInPast, ResultDecided,
         TokenFresh, HasCredential, Open, BodyComplete, OutcomeMatchesContext
<1> QED
  BY <1>1, <1>2, <1>3

(* The end of the body preserves the inductive invariant: below the limit    *)
(* the reader stopped because the source had no more to send.                *)
LEMMA ReadEndsIInv ==
    ASSUME IInv, NEW c \in Callers, ReadEnds(c)
    PROVE  IInv'
<1> USE ConstantsAssumption DEF IInv, ReadEnds, Goto, Decide
<1>1. TypeOK'
  BY DEF TypeOK, PCs, Admitted, Results, BodyVerdict
<1>2. SlotsMatchHolders'
  BY SlotsKept DEF TypeOK, Admitted
<1>3. CallerInv'
  BY DEF TypeOK, PCs, Admitted, Lengths, LimitedRead, BodyVerdict, CallerInv, AdmittedInPast, ResultDecided,
         TokenFresh, HasCredential, Open, BodyComplete, OutcomeMatchesContext
<1> QED
  BY <1>1, <1>2, <1>3

(* Returning without a slot preserves the inductive invariant. *)
LEMMA ReturnRefusedIInv ==
    ASSUME IInv, NEW c \in Callers, ReturnRefused(c)
    PROVE  IInv'
<1> USE ConstantsAssumption DEF IInv, ReturnRefused, Goto, Forget
<1>1. TypeOK'
  BY DEF TypeOK, PCs, Admitted, Lengths, NoToken
<1>2. SlotsMatchHolders'
  BY SlotsKept DEF TypeOK, Admitted
<1>3. CallerInv'
  BY DEF TypeOK, PCs, Admitted, NoToken, CallerInv, AdmittedInPast, ResultDecided,
         TokenFresh, HasCredential, Open, BodyComplete, OutcomeMatchesContext
<1> QED
  BY <1>1, <1>2, <1>3

(* Returning with a slot preserves the inductive invariant. *)
LEMMA ReturnReleasingIInv ==
    ASSUME IInv, NEW c \in Callers, ReturnReleasing(c)
    PROVE  IInv'
<1> USE ConstantsAssumption DEF IInv, ReturnReleasing, Goto, Forget
<1>0. requestSlots > 0
  BY ReturnReleasingCounts
<1>1. TypeOK'
  BY <1>0 DEF TypeOK, PCs, Admitted, Lengths, NoToken
<1>2. SlotsMatchHolders'
  BY ReturnReleasingCounts
<1>3. CallerInv'
  BY DEF TypeOK, PCs, Admitted, NoToken, CallerInv, AdmittedInPast, ResultDecided,
         TokenFresh, HasCredential, Open, BodyComplete, OutcomeMatchesContext
<1> QED
  BY <1>1, <1>2, <1>3

(* The end of a context preserves the inductive invariant. *)
LEMMA ContextDoneIInv ==
    ASSUME IInv, NEW c \in Callers, NEW e \in ContextErrors,
           ContextDone(c, e)
    PROVE  IInv'
<1> USE ConstantsAssumption DEF IInv, ContextDone
<1>1. TypeOK'
  BY DEF TypeOK, PCs, Admitted, ContextErrors
<1>2. SlotsMatchHolders'
  BY SlotsKept DEF TypeOK, Admitted
<1>3. CallerInv'
  BY DEF TypeOK, PCs, Admitted, ContextErrors, CallerInv, AdmittedInPast, ResultDecided,
         TokenFresh, HasCredential, Open, BodyComplete, OutcomeMatchesContext
<1> QED
  BY <1>1, <1>2, <1>3

(* A rotation of the token file preserves the inductive invariant. *)
LEMMA RotateTokenIInv ==
    ASSUME IInv, NEW valid \in BOOLEAN, RotateToken(valid)
    PROVE  IInv'
<1> USE ConstantsAssumption DEF IInv, RotateToken
<1>1. TypeOK'
  BY DEF TypeOK, PCs, Admitted, Lengths
<1>2. SlotsMatchHolders'
  BY SlotsKept DEF TypeOK, Admitted
<1>3. CallerInv'
  BY DEF TypeOK, PCs, Admitted, NoToken, CallerInv, AdmittedInPast, ResultDecided,
         TokenFresh, HasCredential, Open, BodyComplete, OutcomeMatchesContext
<1> QED
  BY <1>1, <1>2, <1>3

(* Every step of the system preserves the inductive invariant. *)
LEMMA NextIInv == IInv /\ [Next]_vars => IInv'
<1> SUFFICES ASSUME IInv, [Next]_vars PROVE IInv'
  OBVIOUS
<1>1. CASE UNCHANGED vars
  BY <1>1 DEF IInv, vars, TypeOK, SlotsMatchHolders, Holders, CallerInv,
     AdmittedInPast, ResultDecided, TokenFresh, HasCredential, Open, BodyComplete,
     OutcomeMatchesContext
<1>2. ASSUME NEW c \in Callers, NEW parent \in {"nil", "Canceled"},
             Call(c, parent)
      PROVE  IInv'
  BY <1>2, CallIInv
<1>3. ASSUME NEW c \in Callers, GoroutineStep(c) PROVE IInv'
  <2>1. ctxErr[c] # "nil" => ctxErr[c] \in ContextErrors
    BY <1>3 DEF IInv, TypeOK
  <2> QED
    BY <1>3, <2>1, AcquireSlotIInv, GiveUpIInv, NoCredentialIInv,
       ReadCredentialIInv, CredentialFailsIInv, DoFailsIInv,
       DoErrorReturnIInv, ReadFailsIInv, ReadEndsIInv, ReturnRefusedIInv,
       ReturnReleasingIInv DEF GoroutineStep
<1>4. ASSUME NEW c \in Callers, SourceStep(c) PROVE IInv'
  BY <1>4, DoReturnsIInv, DoFailsIInv, ReadByteIInv, ReadFailsIInv
     DEF SourceStep
<1>5. ASSUME NEW c \in Callers, NEW e \in ContextErrors, ContextDone(c, e)
      PROVE  IInv'
  BY <1>5, ContextDoneIInv
<1>6. ASSUME NEW valid \in BOOLEAN, RotateToken(valid) PROVE IInv'
  BY <1>6, RotateTokenIInv
<1> QED
  BY <1>1, <1>2, <1>3, <1>4, <1>5, <1>6 DEF Next

-----------------------------------------------------------------------------
(* The theorems. *)

(* The inductive invariant holds in every reachable state of a client. *)
THEOREM Invariance == Spec => []IInv
BY InitIInv, NextIInv, PTL DEF Spec

(* The variables of the model stay in their types; in particular the number *)
(* of elements in the slot channel stays between 0 and its capacity.        *)
THEOREM TypeCorrect == Spec => []TypeOK
<1>1. IInv => TypeOK
  BY DEF IInv
<1> QED
  BY <1>1, Invariance, PTL

(* No path through Get, Get's early returns included, leaks a slot or       *)
(* releases one twice.                                                      *)
THEOREM NoSlotLeak == Spec => []SlotsMatchHolders
<1>1. IInv => SlotsMatchHolders
  BY DEF IInv
<1> QED
  BY <1>1, Invariance, PTL

(* At most maxConcurrentRequests requests of a client are open at a time,   *)
(* however many goroutines share the client.                                *)
THEOREM ConcurrencyBound == Spec => []BoundedConcurrency
<1>1. IInv => BoundedConcurrency
  <2> SUFFICES ASSUME IInv PROVE BoundedConcurrency
    OBVIOUS
  <2>1. Open \in SUBSET Holders
    BY DEF Open, Holders, Admitted
  <2>2. /\ Cardinality(Open) \in Nat
        /\ Cardinality(Open) <= Cardinality(Holders)
    BY <2>1, HoldersFinite, FS_Subset, FS_CardinalityType
  <2>3. Cardinality(Holders) <= MaxConcurrentRequests
    BY ConstantsAssumption DEF IInv, TypeOK, SlotsMatchHolders
  <2> QED
    BY <2>2, <2>3, HoldersFinite, ConstantsAssumption DEF BoundedConcurrency
<1> QED
  BY <1>1, Invariance, PTL

(* No request carries a token older than the file was when the request was  *)
(* admitted.                                                                *)
THEOREM TokenFreshness == Spec => []TokenFresh
<1>1. IInv => TokenFresh
  BY DEF IInv, CallerInv
<1> QED
  BY <1>1, Invariance, PTL

(* A body is returned whole and within the limit, or not at all. *)
THEOREM BodyIntegrity == Spec => []BodyComplete
<1>1. IInv => BodyComplete
  BY DEF IInv, CallerInv
<1> QED
  BY <1>1, Invariance, PTL

(* Cancellation and timeout are reported only where they happened. *)
THEOREM ContextHonesty == Spec => []OutcomeMatchesContext
<1>1. IInv => OutcomeMatchesContext
  BY DEF IInv, CallerInv
<1> QED
  BY <1>1, Invariance, PTL

-----------------------------------------------------------------------------
(* The refinement. *)

(* Deciding the result of an admitted call is the abstract answer. *)
LEMMA DecideIsAnswer ==
    ASSUME IInv, NEW c \in Callers, pc[c] \in Admitted \ {"release"},
           pc' = [pc EXCEPT ![c] = "release"],
           NEW r \in Results, Decide(c, r)
    PROVE  BG!Answer(c)
<1>1. phase' = phase
  BY DEF phase, Admitted, IInv, TypeOK
<1>2. phase[c] = "admitted"
  BY DEF phase
<1>3. result[c] = "none"
  BY DEF IInv, CallerInv, ResultDecided, Admitted
<1> QED
  BY <1>1, <1>2, <1>3 DEF BG!Answer, Decide

(* A step between two places inside Get that decides nothing is invisible. *)
LEMMA InternalStep ==
    ASSUME IInv, NEW c \in Callers, NEW to \in Admitted, pc[c] \in Admitted,
           pc' = [pc EXCEPT ![c] = to], result' = result
    PROVE  UNCHANGED <<phase, result>>
BY DEF phase, IInv, TypeOK

(* Each return is the abstract departure. *)
LEMMA ReturnIsLeave ==
    ASSUME IInv, NEW c \in Callers, ReturnRefused(c) \/ ReturnReleasing(c)
    PROVE  BG!Leave(c)
<1>1. pc[c] \in {"refused", "release"} /\ pc' = [pc EXCEPT ![c] = "idle"]
  BY DEF ReturnRefused, ReturnReleasing, Goto
<1>2. phase[c] \in {"refused", "admitted"} /\ result[c] # "none"
  BY <1>1 DEF phase, Admitted, IInv, CallerInv, ResultDecided
<1>3. phase' = [phase EXCEPT ![c] = "idle"]
  BY <1>1 DEF phase, Admitted, IInv, TypeOK
<1>4. result' = [result EXCEPT ![c] = "none"]
  BY DEF ReturnRefused, ReturnReleasing, Forget
<1> QED
  BY <1>2, <1>3, <1>4 DEF BG!Leave

(* Taking a slot is the abstract admission: the channel is not full, and it *)
(* has as many elements as there are admitted calls.                        *)
LEMMA AcquireIsAdmit ==
    ASSUME IInv, NEW c \in Callers, AcquireSlot(c)
    PROVE  BG!Admit(c)
<1>1. BG!AdmittedCalls = Holders
  BY DEF BG!AdmittedCalls, Holders, phase, Admitted, IInv, TypeOK, PCs
<1>2. BG!Cardinality(BG!AdmittedCalls) < MaxConcurrentRequests
  <2>1. BG!Cardinality(Holders) = Cardinality(Holders)
    BY DEF BG!Cardinality, Cardinality
  <2> QED
    BY <1>1, <2>1 DEF AcquireSlot, IInv, SlotsMatchHolders
<1>3. phase[c] = "wait" /\ phase' = [phase EXCEPT ![c] = "admitted"]
  BY DEF AcquireSlot, Goto, phase, Admitted, IInv, TypeOK
<1>4. result' = result
  BY DEF AcquireSlot
<1> QED
  BY <1>2, <1>3, <1>4 DEF BG!Admit

(* Every step of a caller's goroutine is an abstract step or invisible. *)
LEMMA GoroutineStepRefines ==
    ASSUME IInv, NEW c \in Callers, GoroutineStep(c)
    PROVE  [BG!Next]_<<phase, result>>
<1>1. CASE AcquireSlot(c)
  BY <1>1, AcquireIsAdmit DEF BG!Next
<1>2. CASE GiveUp(c)
  <2>1. phase[c] = "wait" /\ phase' = [phase EXCEPT ![c] = "refused"]
    BY <1>2 DEF GiveUp, Goto, phase, Admitted, IInv, TypeOK
  <2>2. contextError(ctxErr[c]) \in {"Canceled", "ErrSourceTimeout"}
    BY <1>2 DEF GiveUp, contextError, IInv, TypeOK, ContextErrors
  <2>3. BG!Refuse(c)
    BY <1>2, <2>1, <2>2 DEF GiveUp, Decide, BG!Refuse
  <2> QED
    BY <2>3 DEF BG!Next
<1>3. CASE NoCredential(c) \/ ReadCredential(c)
  BY <1>3, InternalStep DEF NoCredential, ReadCredential, Goto, Admitted
<1>4. CASE CredentialFails(c)
  <2>1. BG!Answer(c)
    BY <1>4, DecideIsAnswer DEF CredentialFails, Goto, Admitted, Results
  <2> QED
    BY <2>1 DEF BG!Next
<1>5. CASE DoFails(c, ctxErr[c])
  BY <1>5, InternalStep DEF DoFails, Goto, Admitted
<1>6. CASE DoErrorReturn(c)
  <2>1. contextError(ctxErr[c]) \in Results
    BY DEF contextError, Results
  <2>2. BG!Answer(c)
    BY <1>6, <2>1, DecideIsAnswer DEF DoErrorReturn, Goto, Admitted
  <2> QED
    BY <2>2 DEF BG!Next
<1>7. CASE ReadFails(c, ctxErr[c])
  <2>1. BG!Answer(c)
    BY <1>7, DecideIsAnswer DEF ReadFails, Goto, Admitted, Results
  <2> QED
    BY <2>1 DEF BG!Next
<1>8. CASE ReadEnds(c)
  <2>1. BodyVerdict(body[c]) \in Results
    BY DEF BodyVerdict, Results
  <2>2. BG!Answer(c)
    BY <1>8, <2>1, DecideIsAnswer DEF ReadEnds, Goto, Admitted
  <2> QED
    BY <2>2 DEF BG!Next
<1>9. CASE ReturnRefused(c) \/ ReturnReleasing(c)
  BY <1>9, ReturnIsLeave DEF BG!Next
<1> QED
  BY <1>1, <1>2, <1>3, <1>4, <1>5, <1>6, <1>7, <1>8, <1>9 DEF GoroutineStep

(* Every step that the source or the network causes is an abstract answer   *)
(* or invisible.                                                            *)
LEMMA SourceStepRefines ==
    ASSUME IInv, NEW c \in Callers, SourceStep(c)
    PROVE  [BG!Next]_<<phase, result>>
<1>1. ASSUME NEW success \in BOOLEAN, NEW json \in BOOLEAN, NEW n \in Lengths,
             DoReturns(c, success, json, n)
      PROVE  [BG!Next]_<<phase, result>>
  <2>1. Verdict(success, json) \in Results
    BY DEF Verdict, sourcehttpVerdict, kubernetesVerdict, Results
  <2>2. CASE Verdict(success, json) = "body"
    <3>1. result[c] = "none"
      BY <1>1 DEF DoReturns, Goto, IInv, CallerInv, ResultDecided
    <3>2. result' = result
      BY <1>1, <2>2, <3>1 DEF DoReturns, Decide, IInv, TypeOK
    <3> QED
      BY <1>1, <2>2, <3>2, InternalStep DEF DoReturns, Goto, Admitted
  <2>3. CASE Verdict(success, json) # "body"
    <3>1. BG!Answer(c)
      BY <1>1, <2>1, <2>3, DecideIsAnswer DEF DoReturns, Goto, Admitted
    <3> QED
      BY <3>1 DEF BG!Next
  <2> QED
    BY <2>2, <2>3
<1>2. CASE DoFails(c, "transport")
  BY <1>2, InternalStep DEF DoFails, Goto, Admitted
<1>3. CASE ReadByte(c)
  BY <1>3 DEF ReadByte, phase
<1>4. CASE ReadFails(c, "transport")
  <2>1. BG!Answer(c)
    BY <1>4, DecideIsAnswer DEF ReadFails, Goto, Admitted, Results
  <2> QED
    BY <2>1 DEF BG!Next
<1> QED
  BY <1>1, <1>2, <1>3, <1>4 DEF SourceStep

(* Get, with all its steps, failures and races, is an implementation of     *)
(* BoundedGet.                                                              *)
THEOREM Refinement == Spec => ImplementsBoundedGet
<1>1. Init => BG!Init
  BY DEF Init, BG!Init, phase, Admitted
<1>2. IInv /\ [Next]_vars => [BG!Next]_<<phase, result>>
  <2> SUFFICES ASSUME IInv, [Next]_vars PROVE [BG!Next]_<<phase, result>>
    OBVIOUS
  <2>1. CASE UNCHANGED vars
    BY <2>1 DEF vars, phase
  <2>2. ASSUME NEW c \in Callers, NEW parent \in {"nil", "Canceled"},
               Call(c, parent)
        PROVE  [BG!Next]_<<phase, result>>
    <3>1. BG!Ask(c)
      BY <2>2 DEF Call, Goto, BG!Ask, phase, Admitted, IInv, TypeOK
    <3> QED
      BY <3>1 DEF BG!Next
  <2>3. ASSUME NEW c \in Callers, NEW e \in ContextErrors, ContextDone(c, e)
        PROVE  [BG!Next]_<<phase, result>>
    BY <2>3 DEF ContextDone, phase
  <2>4. ASSUME NEW valid \in BOOLEAN, RotateToken(valid)
        PROVE  [BG!Next]_<<phase, result>>
    BY <2>4 DEF RotateToken, phase
  <2> QED
    BY <2>1, <2>2, <2>3, <2>4, GoroutineStepRefines, SourceStepRefines DEF Next
<1> QED
  BY <1>1, <1>2, Invariance, PTL DEF Spec, ImplementsBoundedGet, BG!SafeSpec

=============================================================================
