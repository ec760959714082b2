-------------------------- MODULE OptimizationProofs --------------------------
(***************************************************************************)
(* Theorems about Optimization, for every set of requests and fields and   *)
(* every bound on the requests in flight: type correctness, the human      *)
(* gate, one apply per row, and that what is shown as done was done.       *)
(***************************************************************************)
EXTENDS Optimization, FiniteSetTheorems, TLAPS

USE OptimizationAssumption

LEMMA OptFacts ==
    /\ \A o \in Opt : FieldOf(o) \in Field
    /\ NoTarget \in Opt
    /\ Unchanged \in [Field -> Value]
    /\ Opt \subseteq Value /\ Original \in Value
  BY DEF Opt, FieldOf, NoTarget, Unchanged, Value

-----------------------------------------------------------------------------
(***************************************************************************)
(* Type correctness.                                                       *)
(***************************************************************************)

LEMMA GotoType ==
    ASSUME TypeOK, NEW p \in Request, NEW l \in PC, Goto(p, l)
    PROVE  pc' \in [Request -> PC]
  BY DEF TypeOK, Goto

LEMMA EndedTypes ==
    ASSUME TypeOK, NEW p \in Request, Ended(p)
    PROVE  /\ pending' \in [Request -> SUBSET Field]
           /\ view' \in [Request -> [Field -> Value]]
           /\ viewHash' \in [Request -> [Field -> Value]]
  BY OptFacts DEF TypeOK, Ended

LEMMA UnlockTypes ==
    ASSUME TypeOK, NEW p \in Request, Unlock(p)
    PROVE  /\ lock' \in [Opt -> Request \cup {Nobody}]
           /\ listLock' \in Request \cup {Nobody}
  BY DEF TypeOK, Unlock

LEMMA MirrorType ==
    ASSUME TypeOK, NEW p \in Request
    PROVE  Mirror(p) \in [Field -> Value]
  BY OptFacts DEF TypeOK, Mirror

LEMMA BeginTypes ==
    ASSUME TypeOK, NEW p \in Request, Begin(p)
    PROVE  TypeOK'
  <1> USE DEF rowVars, listingVars, etsyVars, readVars
  <1>1. CASE CreateLoad(p)
    <2>1. {FieldOf(o) : o \in {q \in Opt : status[q] = "pending"}} \subseteq Field
      BY OptFacts
    <2>2. pc' \in [Request -> PC]
      BY <1>1, GotoType DEF CreateLoad, PC
    <2>3. QED
      BY <1>1, <2>1, <2>2 DEF CreateLoad, TypeOK, Kind
  <1>2. ASSUME NEW o \in Opt, ApplyLoad(p, o)
        PROVE  TypeOK'
    <2>1. pc' \in [Request -> PC]
      BY <1>2, GotoType DEF ApplyLoad, PC, Final
    <2>2. QED
      BY <1>2, <2>1 DEF ApplyLoad, TypeOK, Kind
  <1>3. ASSUME NEW o \in Opt, NEW k \in Decision, DecisionLoad(p, k, o)
        PROVE  TypeOK'
    <2>1. pc' \in [Request -> PC]
      BY <1>3, GotoType DEF DecisionLoad, PC, Final
    <2>2. QED
      BY <1>3, <2>1 DEF DecisionLoad, TypeOK, Kind
  <1>4. QED
    BY <1>1, <1>2, <1>3 DEF Begin

LEMMA StepTypes ==
    ASSUME TypeOK, NEW p \in Request, Step(p) \/ Dies(p)
    PROVE  TypeOK'
  <1> USE DEF rowVars, listingVars, etsyVars, readVars
  <1>t. target[p] \in Opt /\ FieldOf(target[p]) \in Field
    BY OptFacts DEF TypeOK
  <1>1. CASE CreateCommit(p)
    <2>1. status' \in [Opt -> OptStatus]
      BY <1>1 DEF CreateCommit, TypeOK, OptStatus
    <2>2. pc' \in [Request -> PC]
      BY <1>1, GotoType DEF CreateCommit, PC, Final
    <2>3. QED
      BY <1>1, <2>1, <2>2, EndedTypes DEF CreateCommit, TypeOK
  <1>2. CASE DecisionFlush(p)
    <2>1. pc' \in [Request -> PC]
      BY <1>2, GotoType DEF DecisionFlush, PC
    <2>2. QED
      BY <1>2, <1>t, <2>1 DEF DecisionFlush, LockRow, TypeOK
  <1>3. CASE DecisionCommit(p)
    <2>1. status' \in [Opt -> OptStatus] /\ approved' \in [Opt -> BOOLEAN]
      BY <1>3, <1>t DEF DecisionCommit, TypeOK, OptStatus
    <2>2. pc' \in [Request -> PC]
      BY <1>3, GotoType DEF DecisionCommit, PC, Final
    <2>3. QED
      BY <1>3, <2>1, <2>2, UnlockTypes DEF DecisionCommit, TypeOK
  <1>4. CASE ApplyValidate(p)
    <2>1. pc' \in [Request -> PC]
      BY <1>4, GotoType DEF ApplyValidate, PC, Final
    <2>2. \/ view' = [view EXCEPT ![p] = listing] /\ viewHash' = [viewHash EXCEPT ![p] = hash]
          \/ view' = view /\ viewHash' = viewHash
      BY <1>4 DEF ApplyValidate
    <2> DEFINE Content == [Field -> Value]
    <2>3. view' \in [Request -> Content] /\ viewHash' \in [Request -> Content]
      <3>1. /\ view \in [Request -> Content] /\ viewHash \in [Request -> Content]
            /\ listing \in Content /\ hash \in Content
        BY DEF TypeOK
      <3> HIDE DEF Content
      <3>2. QED
        BY <2>2, <3>1
    <2>4. QED
      BY <1>4, <2>1, <2>3 DEF ApplyValidate, TypeOK
  <1>5. CASE ApplyFlush(p)
    <2>1. pc' \in [Request -> PC]
      BY <1>5, GotoType DEF ApplyFlush, PC, InEtsyCall
    <2>2. QED
      BY <1>5, <1>t, <2>1 DEF ApplyFlush, LockRow, TypeOK
  <1>6. CASE GetToken(p)
    <2>1. pc' \in [Request -> PC]
      BY <1>6, GotoType DEF GetToken, PC, InEtsyCall
    <2>2. QED
      BY <1>6, <2>1 DEF GetToken, TypeOK
  <1>7. CASE Patch(p)
    <2>1. pc' \in [Request -> PC]
      BY <1>7, GotoType DEF Patch, PC, InEtsyCall
    <2>2. etsy' \in [Field -> Value] /\ written' \in [Opt -> BOOLEAN]
      BY <1>7, <1>t, OptFacts DEF Patch, TypeOK
    <2>3. QED
      BY <1>7, <2>1, <2>2 DEF Patch, TypeOK
  <1>8. CASE MirrorFlush(p)
    <2>1. pc' \in [Request -> PC]
      BY <1>8, GotoType DEF MirrorFlush, PC, InEtsyCall
    <2>2. listLock' \in Request \cup {Nobody}
      BY <1>8 DEF MirrorFlush, TypeOK
    <2>3. QED
      BY <1>8, <2>1, <2>2 DEF MirrorFlush, TypeOK
  <1>9. CASE ApplyCommit(p)
    <2>1. pc' \in [Request -> PC]
      BY <1>9, GotoType DEF ApplyCommit, PC, Final
    <2>2. listing' \in [Field -> Value] /\ hash' \in [Field -> Value]
      BY <1>9, MirrorType DEF ApplyCommit, TypeOK
    <2>3. status' \in [Opt -> OptStatus]
      BY <1>9, <1>t DEF ApplyCommit, TypeOK, OptStatus
    <2>4. QED
      BY <1>9, <2>1, <2>2, <2>3, UnlockTypes, EndedTypes DEF ApplyCommit, TypeOK
  <1>10. CASE MarkFailed(p)
    <2>1. pc' \in [Request -> PC]
      BY <1>10, GotoType DEF MarkFailed, PC, Final
    <2>2. status' \in [Opt -> OptStatus]
      BY <1>10, <1>t DEF MarkFailed, TypeOK, OptStatus
    <2>3. QED
      BY <1>10, <2>1, <2>2, UnlockTypes, EndedTypes DEF MarkFailed, TypeOK
  <1>11. CASE Dies(p)
    <2>1. pc' \in [Request -> PC]
      BY <1>11, GotoType DEF Dies, PC, Final
    <2>2. QED
      BY <1>11, <2>1, UnlockTypes, EndedTypes DEF Dies, TypeOK
  <1>12. QED
    BY <1>1, <1>2, <1>3, <1>4, <1>5, <1>6, <1>7, <1>8, <1>9, <1>10, <1>11 DEF Step

\* Every variable keeps its type (in particular "applying" is never committed).
THEOREM TypeCorrect == Spec => []TypeOK
  <1>1. Init => TypeOK
    BY OptFacts DEF Init, TypeOK, OptStatus, Kind, PC
  <1>2. TypeOK /\ [Next]_vars => TypeOK'
    <2> SUFFICES ASSUME TypeOK, [Next]_vars PROVE TypeOK'
      OBVIOUS
    <2>1. CASE UNCHANGED vars
      BY <2>1 DEF vars, rowVars, listingVars, etsyVars, readVars, TypeOK
    <2>2. ASSUME NEW p \in Request, Begin(p) \/ Step(p) \/ Dies(p)
          PROVE  TypeOK'
      BY <2>2, BeginTypes, StepTypes
    <2>3. QED
      BY <2>1, <2>2 DEF Next, AllAnswered
  <1>3. QED
    BY <1>1, <1>2, PTL DEF Spec
-----------------------------------------------------------------------------
(***************************************************************************)
(* The gate.  GateInv is inductive given the types: a request in the Etsy  *)
(* call has its row locked, so nobody else enters the call; what it loaded *)
(* was approved by a committed decision, and approvals are not forgotten.  *)
(***************************************************************************)

LEMMA GateInit == Init => GateInv
  BY OptFacts DEF Init, GateInv, CallHoldsRow, ApprovedByThen, ConfirmedIsWritten,
     WrittenWasApproved, ShownWasWritten, InEtsyCall, Unchanged

\* The histories only grow, and another request's locks stay.
LEMMA StepKeeps ==
    ASSUME TypeOK, NEW p \in Request, Begin(p) \/ Step(p) \/ Dies(p)
    PROVE  /\ \A o \in Opt : approved[o] => approved'[o]
           /\ \A o \in Opt : written[o] => written'[o]
           /\ \A o \in Opt, q \in Request : q # p /\ lock[o] = q => lock'[o] = q
           /\ \A q \in Request : q # p => pc'[q] = pc[q]
           /\ \A q \in Request : q # p => kind'[q] = kind[q]
           /\ \A q \in Request : q # p => target'[q] = target[q]
           /\ \A q \in Request : q # p => view'[q] = view[q]
  <1> USE DEF rowVars, listingVars, etsyVars, readVars, Goto
  <1>1. CASE Begin(p)
    BY <1>1 DEF Begin, CreateLoad, ApplyLoad, DecisionLoad, TypeOK
  <1>2. CASE CreateCommit(p) \/ ApplyValidate(p) \/ GetToken(p) \/ MirrorFlush(p)
    BY <1>2 DEF CreateCommit, ApplyValidate, GetToken, MirrorFlush, Ended, TypeOK
  <1>3. CASE DecisionFlush(p) \/ ApplyFlush(p)
    BY <1>3 DEF DecisionFlush, ApplyFlush, LockRow, TypeOK
  <1>4. CASE DecisionCommit(p) \/ Patch(p)
    BY <1>4 DEF DecisionCommit, Patch, Unlock, TypeOK
  <1>5. CASE ApplyCommit(p) \/ MarkFailed(p) \/ Dies(p)
    BY <1>5 DEF ApplyCommit, MarkFailed, Dies, Unlock, Ended, TypeOK
  <1>6. QED
    BY <1>1, <1>2, <1>3, <1>4, <1>5 DEF Step

LEMMA CallHoldsRowStep ==
    ASSUME TypeOK, CallHoldsRow, NEW p \in Request, Begin(p) \/ Step(p) \/ Dies(p)
    PROVE  CallHoldsRow'
  <1> SUFFICES ASSUME NEW q \in Request, pc'[q] \in InEtsyCall
               PROVE  lock'[target'[q]] = q
    BY DEF CallHoldsRow
  <1>1. CASE q # p
    BY <1>1, StepKeeps DEF CallHoldsRow, TypeOK
  <1>2. CASE q = p
    <2> USE DEF rowVars, listingVars, etsyVars, readVars, Goto, InEtsyCall, Final
    <2>1. CASE Begin(p)
      BY <1>2, <2>1 DEF Begin, CreateLoad, ApplyLoad, DecisionLoad, TypeOK
    <2>2. CASE ApplyFlush(p)
      BY <1>2, <2>2 DEF ApplyFlush, LockRow, TypeOK
    <2>3. CASE GetToken(p) \/ Patch(p) \/ MirrorFlush(p)
      BY <1>2, <2>3 DEF GetToken, Patch, MirrorFlush, CallHoldsRow, TypeOK
    <2>4. CASE CreateCommit(p) \/ DecisionFlush(p) \/ DecisionCommit(p) \/ ApplyValidate(p)
      BY <1>2, <2>4 DEF CreateCommit, DecisionFlush, DecisionCommit, ApplyValidate, TypeOK
    <2>5. CASE ApplyCommit(p) \/ MarkFailed(p) \/ Dies(p)
      BY <1>2, <2>5 DEF ApplyCommit, MarkFailed, Dies, TypeOK
    <2>6. QED
      BY <2>1, <2>2, <2>3, <2>4, <2>5 DEF Step
  <1>3. QED
    BY <1>1, <1>2

\* A request past the check of apply is about a row that was approved.
PastCheck(q) ==
    pc[q] \in {"validated"} \cup InEtsyCall \/ (pc[q] = "loaded" /\ kind[q] = "apply")

LEMMA ApprovedByThenStep ==
    ASSUME TypeOK, ApprovedByThen, NEW p \in Request, Begin(p) \/ Step(p) \/ Dies(p)
    PROVE  ApprovedByThen'
  <1> USE DEF rowVars, listingVars, etsyVars, readVars, Goto, InEtsyCall, Final
  <1>1. ASSUME NEW o \in Opt, status'[o] \in {"approved", "applied", "failed"}
        PROVE  approved'[o]
    <2>1. CASE CreateCommit(p)
      BY <1>1, <2>1 DEF CreateCommit, ApprovedByThen, TypeOK
    <2>2. CASE DecisionCommit(p)
      BY <1>1, <2>2 DEF DecisionCommit, ApprovedByThen, TypeOK
    <2>3. CASE ApplyCommit(p) \/ MarkFailed(p)
      BY <1>1, <2>3 DEF ApplyCommit, MarkFailed, ApprovedByThen, TypeOK
    <2>4. CASE Begin(p)
      BY <1>1, <2>4 DEF Begin, CreateLoad, ApplyLoad, DecisionLoad, ApprovedByThen
    <2>5. CASE DecisionFlush(p) \/ ApplyValidate(p) \/ ApplyFlush(p) \/ GetToken(p)
               \/ Patch(p) \/ MirrorFlush(p) \/ Dies(p)
      BY <1>1, <2>5 DEF DecisionFlush, ApplyValidate, ApplyFlush, GetToken, Patch,
         MirrorFlush, Dies, ApprovedByThen
    <2>6. QED
      BY <2>1, <2>2, <2>3, <2>4, <2>5 DEF Step
  <1>2. ASSUME NEW q \in Request, PastCheck(q)'
        PROVE  approved'[target'[q]]
    <2>1. CASE q # p
      BY <1>2, <2>1, StepKeeps DEF PastCheck, ApprovedByThen, TypeOK
    <2>2. CASE q = p
      <3>1. CASE Begin(p)
        BY <1>2, <2>2, <3>1 DEF Begin, CreateLoad, ApplyLoad, DecisionLoad, Decision,
           PastCheck, ApprovedByThen, TypeOK
      <3>2. CASE ApplyValidate(p) \/ ApplyFlush(p) \/ GetToken(p) \/ Patch(p) \/ MirrorFlush(p)
        <4>1. PastCheck(p) /\ target' = target /\ approved' = approved
          BY <3>2 DEF ApplyValidate, ApplyFlush, GetToken, Patch, MirrorFlush, PastCheck
        <4>2. QED
          BY <2>2, <4>1 DEF PastCheck, ApprovedByThen
      <3>3. CASE CreateCommit(p) \/ DecisionFlush(p) \/ DecisionCommit(p)
        BY <1>2, <2>2, <3>3 DEF CreateCommit, DecisionFlush, DecisionCommit, PastCheck, TypeOK
      <3>4. CASE ApplyCommit(p) \/ MarkFailed(p) \/ Dies(p)
        BY <1>2, <2>2, <3>4 DEF ApplyCommit, MarkFailed, Dies, PastCheck, TypeOK
      <3>5. QED
        BY <3>1, <3>2, <3>3, <3>4 DEF Step
    <2>3. QED
      BY <2>1, <2>2
  <1>3. QED
    BY <1>1, <1>2 DEF ApprovedByThen, PastCheck

\* A row is written only in a call, and there it is approved.
LEMMA WrittenWasApprovedStep ==
    ASSUME TypeOK, ApprovedByThen, WrittenWasApproved,
           NEW p \in Request, Begin(p) \/ Step(p) \/ Dies(p)
    PROVE  WrittenWasApproved'
  <1> SUFFICES ASSUME NEW o \in Opt, written'[o] PROVE approved'[o]
    BY DEF WrittenWasApproved
  <1>1. CASE written[o]
    BY <1>1, StepKeeps DEF WrittenWasApproved
  <1>2. CASE ~written[o]
    <2>1. Patch(p) /\ o = target[p]
      BY <1>2 DEF Begin, CreateLoad, ApplyLoad, DecisionLoad, Step, CreateCommit,
         DecisionFlush, DecisionCommit, ApplyValidate, ApplyFlush, GetToken, Patch,
         MirrorFlush, ApplyCommit, MarkFailed, Dies, etsyVars, TypeOK
    <2>2. approved[o]
      BY <2>1 DEF Patch, ApprovedByThen, InEtsyCall
    <2>3. approved[o] => approved'[o]
      BY StepKeeps
    <2>4. QED
      BY <2>2, <2>3
  <1>3. QED
    BY <1>1, <1>2

LEMMA ConfirmedIsWrittenStep ==
    ASSUME TypeOK, ConfirmedIsWritten, ShownWasWritten,
           NEW p \in Request, Begin(p) \/ Step(p) \/ Dies(p)
    PROVE  ConfirmedIsWritten'
  <1> USE DEF rowVars, listingVars, etsyVars, readVars, Goto, InEtsyCall, Final
  <1>1. ASSUME NEW q \in Request, pc'[q] \in {"written", "mirrored"}
        PROVE  written'[target'[q]]
    <2>1. CASE q # p
      BY <1>1, <2>1, StepKeeps DEF ConfirmedIsWritten, TypeOK
    <2>2. CASE q = p
      <3>1. CASE Patch(p)
        BY <1>1, <2>2, <3>1 DEF Patch, TypeOK
      <3>2. CASE MirrorFlush(p)
        BY <1>1, <2>2, <3>2 DEF MirrorFlush, ConfirmedIsWritten
      <3>3. CASE Begin(p)
        BY <1>1, <2>2, <3>3 DEF Begin, CreateLoad, ApplyLoad, DecisionLoad, TypeOK
      <3>4. CASE CreateCommit(p) \/ DecisionFlush(p) \/ DecisionCommit(p) \/ ApplyValidate(p)
                 \/ ApplyFlush(p) \/ GetToken(p)
        BY <1>1, <2>2, <3>4 DEF CreateCommit, DecisionFlush, DecisionCommit, ApplyValidate,
           ApplyFlush, GetToken, TypeOK
      <3>5. CASE ApplyCommit(p) \/ MarkFailed(p) \/ Dies(p)
        BY <1>1, <2>2, <3>5 DEF ApplyCommit, MarkFailed, Dies, TypeOK
      <3>6. QED
        BY <3>1, <3>2, <3>3, <3>4, <3>5 DEF Step
    <2>3. QED
      BY <2>1, <2>2
  <1>2. ASSUME NEW q \in Request, NEW f \in Field, view'[q][f] # Original
        PROVE  written'[view'[q][f]]
    <2>1. CASE view'[q] = view[q]
      <3>1. view[q][f] # Original /\ view'[q][f] = view[q][f]
        BY <1>2, <2>1
      <3>2. written[view[q][f]] /\ view[q][f] \in Opt
        BY <3>1 DEF ConfirmedIsWritten, TypeOK, Value
      <3>3. QED
        BY <3>1, <3>2, StepKeeps
    <2>2. CASE view'[q] # view[q]
      <3>1. q = p /\ view'[q] = IF ApplyValidate(p) THEN listing ELSE Unchanged
        <4>1. q = p
          BY <2>2, StepKeeps
        <4>2. CASE ApplyValidate(p)
          BY <2>2, <4>1, <4>2 DEF ApplyValidate, TypeOK
        <4>3. CASE CreateCommit(p) \/ ApplyCommit(p) \/ MarkFailed(p) \/ Dies(p)
          BY <4>1, <4>2, <4>3 DEF CreateCommit, ApplyCommit, MarkFailed, Dies, Ended, TypeOK
        <4>4. CASE Begin(p)
          BY <2>2, <4>4 DEF Begin, CreateLoad, ApplyLoad, DecisionLoad
        <4>5. CASE DecisionFlush(p) \/ DecisionCommit(p) \/ ApplyFlush(p) \/ GetToken(p)
                   \/ Patch(p) \/ MirrorFlush(p)
          BY <2>2, <4>5 DEF DecisionFlush, DecisionCommit, ApplyFlush, GetToken, Patch,
             MirrorFlush
        <4>6. QED
          BY <4>1, <4>2, <4>3, <4>4, <4>5 DEF Step
      <3>2. view'[q] = listing
        BY <1>2, <3>1 DEF Unchanged
      <3>3. listing[f] # Original /\ view'[q][f] = listing[f]
        BY <1>2, <3>2
      <3>4. written[listing[f]] /\ listing[f] \in Opt
        BY <3>3 DEF ShownWasWritten, TypeOK, Value
      <3>5. QED
        BY <3>3, <3>4, StepKeeps
    <2>3. QED
      BY <2>1, <2>2
  <1>3. QED
    BY <1>1, <1>2 DEF ConfirmedIsWritten

LEMMA ShownWasWrittenStep ==
    ASSUME TypeOK, ConfirmedIsWritten, ShownWasWritten,
           NEW p \in Request, Begin(p) \/ Step(p) \/ Dies(p)
    PROVE  ShownWasWritten'
  <1> USE DEF rowVars, listingVars, etsyVars, readVars, Goto
  <1>1. CASE ApplyCommit(p)
    <2>1. written[target[p]] /\ written' = written /\ target[p] \in Opt
      BY <1>1 DEF ApplyCommit, ConfirmedIsWritten, TypeOK
    <2>2. ASSUME NEW o \in Opt, status'[o] = "applied"
          PROVE  written'[o]
      BY <1>1, <2>1, <2>2 DEF ApplyCommit, ShownWasWritten, TypeOK
    <2>3. ASSUME NEW f \in Field, listing'[f] # Original
          PROVE  written'[listing'[f]]
      <3>1. listing'[f] \in {listing[f], Mirror(p)[f]}
        BY <1>1 DEF ApplyCommit
      <3>2. Mirror(p)[f] \in {view[p][f], target[p]}
        BY DEF Mirror, TypeOK
      <3>3. listing'[f] \in {listing[f], view[p][f], target[p]}
        BY <3>1, <3>2
      <3>4. QED
        BY <2>1, <2>3, <3>3 DEF ShownWasWritten, ConfirmedIsWritten
    <2>4. QED
      BY <2>2, <2>3 DEF ShownWasWritten
  <1>2. CASE ~ApplyCommit(p)
    <2>1. listing' = listing /\ \A o \in Opt : status'[o] = "applied" => status[o] = "applied"
      BY <1>2 DEF Begin, CreateLoad, ApplyLoad, DecisionLoad, Step, CreateCommit, DecisionFlush,
         DecisionCommit, ApplyValidate, ApplyFlush, GetToken, Patch, MirrorFlush, MarkFailed,
         Dies, TypeOK
    <2>2. ASSUME NEW f \in Field, listing'[f] # Original
          PROVE  written'[listing'[f]]
      <3>1. listing[f] \in Opt /\ written[listing[f]]
        BY <2>1, <2>2 DEF ShownWasWritten, TypeOK, Value
      <3>2. QED
        BY <2>1, <3>1, StepKeeps
    <2>3. ASSUME NEW o \in Opt, status'[o] = "applied"
          PROVE  written'[o]
      BY <2>1, <2>3, StepKeeps DEF ShownWasWritten
    <2>4. QED
      BY <2>2, <2>3 DEF ShownWasWritten
  <1>3. QED
    BY <1>1, <1>2

THEOREM Gate == Spec => []GateInv
  <1>1. TypeOK /\ GateInv /\ [Next]_vars => GateInv'
    <2> SUFFICES ASSUME TypeOK, GateInv, [Next]_vars PROVE GateInv'
      OBVIOUS
    <2>1. CASE UNCHANGED vars
      BY <2>1 DEF vars, rowVars, listingVars, etsyVars, readVars, GateInv, CallHoldsRow,
         ApprovedByThen, ConfirmedIsWritten, WrittenWasApproved, ShownWasWritten
    <2>2. ASSUME NEW p \in Request, Begin(p) \/ Step(p) \/ Dies(p)
          PROVE  GateInv'
      BY <2>2, CallHoldsRowStep, ApprovedByThenStep, WrittenWasApprovedStep,
         ConfirmedIsWrittenStep, ShownWasWrittenStep DEF GateInv
    <2>3. QED
      BY <2>1, <2>2 DEF Next, AllAnswered
  <1>2. QED
    BY <1>1, GateInit, TypeCorrect, PTL DEF Spec

\* The human gate holds for any number of racing requests.
THEOREM HumanGate == Spec => []WrittenWasApproved
  <1>1. GateInv => WrittenWasApproved
    BY DEF GateInv
  <1>2. QED
    BY <1>1, Gate, PTL

\* Two applies of one row exclude each other, because each holds its row.
THEOREM AppliesExclude == Spec => []OneApplyPerRow
  <1>1. TypeOK /\ GateInv => OneApplyPerRow
    BY DEF GateInv, CallHoldsRow, OneApplyPerRow
  <1>2. QED
    BY <1>1, Gate, TypeCorrect, PTL

\* What the interface shows as applied, and the values it mirrors, reached Etsy.
THEOREM ShownIsTrue == Spec => []ShownWasWritten
  <1>1. GateInv => ShownWasWritten
    BY DEF GateInv
  <1>2. QED
    BY <1>1, Gate, PTL

-----------------------------------------------------------------------------
(***************************************************************************)
(* The mirror, one request at a time.  MaxLive = 1 is what the property is *)
(* about: with two requests a stale view may overwrite the mirror.         *)
(***************************************************************************)

\* No answer was "timed out" and nothing died, so nothing is in doubt.
Quiet == \A p \in Request : pc[p] \notin {"unavailable", "dead"}

\* The one request in flight has the mirror as it is, and between Etsy's yes
\* and the commit Etsy is ahead by the field that was written.
MirrorInv ==
    /\ \A p, q \in Live : p = q
    /\ Quiet =>
         /\ Live = {} => listing = etsy
         /\ \A p \in Live :
              /\ pc[p] \notin {"written", "mirrored", "timed_out"} => listing = etsy
              /\ pc[p] \in {"validated"} \cup InEtsyCall => view[p] = listing
              /\ pc[p] \in {"written", "mirrored"} =>
                   etsy = [listing EXCEPT ![FieldOf(target[p])] = target[p]]

LEMMA AloneArrives ==
    ASSUME MaxLive = 1, MirrorInv, NEW p \in Request, Arrives(p)
    PROVE  Live = {}
  <1>1. SUFFICES ASSUME NEW q \in Live PROVE FALSE
    OBVIOUS
  <1>2. Live = {q}
    BY DEF MirrorInv
  <1>3. QED
    BY <1>2, FS_Singleton DEF Arrives

\* Where the requests are after a step of p that ends up at label.
LEMMA LiveStep ==
    ASSUME TypeOK, NEW p \in Request, NEW label \in PC, Goto(p, label)
    PROVE  /\ pc'[p] = label /\ \A q \in Request : q # p => pc'[q] = pc[q]
           /\ Live' = IF label \in Final \cup {"idle"} THEN Live \ {p} ELSE Live \cup {p}
  <1>1. pc'[p] = label /\ \A q \in Request : q # p => pc'[q] = pc[q]
    BY DEF Goto, TypeOK
  <1>2. QED
    BY <1>1 DEF Live

LEMMA MirrorBegin ==
    ASSUME TypeOK, MaxLive = 1, MirrorInv, NEW p \in Request, Begin(p)
    PROVE  MirrorInv'
  <1> USE DEF rowVars, listingVars, etsyVars, readVars
  <1>1. Live = {} /\ listing' = listing /\ etsy' = etsy
    BY AloneArrives DEF Begin, CreateLoad, ApplyLoad, DecisionLoad
  <1>2. PICK label \in {"loaded", "refused"} : Goto(p, label)
    BY DEF Begin, CreateLoad, ApplyLoad, DecisionLoad
  <1>3. /\ pc'[p] = label /\ \A q \in Request : q # p => pc'[q] = pc[q]
        /\ Live' \subseteq {p}
    BY <1>1, <1>2, LiveStep DEF PC, Final
  <1>4. Quiet' => Quiet
    BY <1>1, <1>2, <1>3 DEF Quiet, Live, Begin, Arrives, CreateLoad, ApplyLoad, DecisionLoad
  <1>5. QED
    BY <1>1, <1>2, <1>3, <1>4 DEF MirrorInv, InEtsyCall

LEMMA MirrorStep ==
    ASSUME TypeOK, MirrorInv, NEW p \in Request, Step(p) \/ Dies(p)
    PROVE  MirrorInv'
  <1> USE DEF rowVars, listingVars, etsyVars, readVars
  <1>1. Live = {p}
    <2>1. p \in Live
      BY DEF Step, CreateCommit, DecisionFlush, DecisionCommit, ApplyValidate, ApplyFlush,
         GetToken, Patch, MirrorFlush, ApplyCommit, MarkFailed, Dies, Live, Final
    <2>2. QED
      BY <2>1 DEF MirrorInv
  <1>2. PICK label \in PC \ {"idle"} : Goto(p, label)
    BY DEF Step, CreateCommit, DecisionFlush, DecisionCommit, ApplyValidate, ApplyFlush,
       GetToken, Patch, MirrorFlush, ApplyCommit, MarkFailed, Dies, PC, InEtsyCall, Final
  <1>3. /\ pc'[p] = label /\ \A q \in Request : q # p => pc'[q] = pc[q]
        /\ Live' = IF label \in Final THEN {} ELSE {p}
    BY <1>1, <1>2, LiveStep
  <1>4. Quiet' => Quiet /\ label \notin {"unavailable", "dead"}
    BY <1>1, <1>3 DEF Quiet, Live, Final
  <1>5. SUFFICES ASSUME Quiet'
                 PROVE  /\ label \in Final => listing' = etsy'
                        /\ label \notin Final =>
                             /\ label \notin {"written", "mirrored", "timed_out"} => listing' = etsy'
                             /\ label \in {"validated"} \cup InEtsyCall => view'[p] = listing'
                             /\ label \in {"written", "mirrored"} =>
                                  etsy' = [listing' EXCEPT ![FieldOf(target'[p])] = target'[p]]
    BY <1>3 DEF MirrorInv
  <1>6. /\ pc[p] \notin {"written", "mirrored", "timed_out"} => listing = etsy
        /\ pc[p] \in {"validated"} \cup InEtsyCall => view[p] = listing
        /\ pc[p] \in {"written", "mirrored"} =>
             etsy = [listing EXCEPT ![FieldOf(target[p])] = target[p]]
    BY <1>1, <1>4, <1>5 DEF MirrorInv
  <1>7. CASE CreateCommit(p) \/ DecisionFlush(p) \/ DecisionCommit(p)
    <2>1. /\ pc[p] \in {"loaded", "flushed"} /\ label \in {"flushed", "ok"}
          /\ listing' = listing /\ etsy' = etsy
      BY <1>3, <1>7 DEF CreateCommit, DecisionFlush, DecisionCommit, Goto, TypeOK
    <2>2. QED
      BY <1>6, <2>1 DEF InEtsyCall, Final
  <1>8. CASE ApplyValidate(p)
    <2>1. /\ listing' = listing /\ etsy' = etsy /\ label \in {"validated", "refused"}
          /\ label = "validated" => view'[p] = listing
      BY <1>3, <1>8 DEF ApplyValidate, Goto, TypeOK
    <2>2. listing = etsy
      BY <1>6, <1>8 DEF ApplyValidate
    <2>3. QED
      BY <2>1, <2>2 DEF InEtsyCall, Final
  <1>9. CASE ApplyFlush(p) \/ GetToken(p)
    <2>1. /\ pc[p] \in {"validated", "applying"}
          /\ label \in {"applying", "writing", "failing", "timed_out"}
          /\ listing' = listing /\ etsy' = etsy /\ view' = view
      BY <1>3, <1>9 DEF ApplyFlush, GetToken, Goto, TypeOK
    <2>2. QED
      BY <1>6, <2>1 DEF InEtsyCall, Final
  <1>10. CASE Patch(p)
    <2>1. /\ pc[p] = "writing" /\ label \in {"written", "failing", "timed_out"}
          /\ listing' = listing /\ view' = view /\ target' = target
          /\ label = "written" => etsy' = [etsy EXCEPT ![FieldOf(target[p])] = target[p]]
          /\ label = "failing" => etsy' = etsy
      BY <1>3, <1>10 DEF Patch, Goto, TypeOK
    <2>2. QED
      BY <1>6, <2>1 DEF InEtsyCall, Final
  <1>11. CASE MirrorFlush(p)
    <2>1. /\ pc[p] = "written" /\ label = "mirrored"
          /\ listing' = listing /\ etsy' = etsy /\ view' = view /\ target' = target
      BY <1>3, <1>11 DEF MirrorFlush, Goto, TypeOK
    <2>2. QED
      BY <1>6, <2>1 DEF InEtsyCall, Final
  <1>12. CASE ApplyCommit(p)
    <2>1. /\ pc[p] = "mirrored" /\ label = "ok" /\ etsy' = etsy
          /\ listing' = [f \in Field |-> IF Mirror(p)[f] = view[p][f]
                                         THEN listing[f] ELSE Mirror(p)[f]]
      BY <1>3, <1>12 DEF ApplyCommit, Goto, TypeOK
    <2>2. view[p] = listing /\ etsy = Mirror(p)
      BY <1>6, <2>1 DEF InEtsyCall, Mirror
    <2>3. listing \in [Field -> Value] /\ Mirror(p) \in [Field -> Value]
      BY MirrorType DEF TypeOK
    <2>4. listing' = Mirror(p)
      BY <2>1, <2>2, <2>3
    <2>5. QED
      BY <2>1, <2>2, <2>4 DEF Final
  <1>13. CASE MarkFailed(p)
    <2>1. /\ pc[p] \in {"failing", "timed_out"} /\ listing' = listing /\ etsy' = etsy
          /\ label = IF pc[p] = "timed_out" THEN "unavailable" ELSE "failed"
      BY <1>3, <1>13 DEF MarkFailed, Goto, TypeOK
    <2>2. QED
      BY <1>4, <1>5, <1>6, <2>1 DEF Final
  <1>14. CASE Dies(p)
    <2>1. label = "dead"
      BY <1>3, <1>14 DEF Dies, Goto, TypeOK
    <2>2. QED
      BY <1>4, <1>5, <2>1
  <1>15. QED
    BY <1>7, <1>8, <1>9, <1>10, <1>11, <1>12, <1>13, <1>14 DEF Step

\* One request at a time, the mirror is what Etsy has after every answer that
\* leaves nothing in doubt (apply_optimization's update of the listing row).
THEOREM MirrorIsTrue ==
    ASSUME MaxLive = 1
    PROVE  Spec => []MirrorAfterAnswer
  <1>1. Init => MirrorInv
    BY DEF Init, MirrorInv, Live
  <1>2. TypeOK /\ MirrorInv /\ [Next]_vars => MirrorInv'
    <2> SUFFICES ASSUME TypeOK, MirrorInv, [Next]_vars PROVE MirrorInv'
      OBVIOUS
    <2>1. CASE UNCHANGED vars
      BY <2>1 DEF vars, rowVars, listingVars, etsyVars, readVars, MirrorInv, Live, Quiet
    <2>2. ASSUME NEW p \in Request, Begin(p) \/ Step(p) \/ Dies(p)
          PROVE  MirrorInv'
      BY <2>2, MirrorBegin, MirrorStep
    <2>3. QED
      BY <2>1, <2>2 DEF Next, AllAnswered
  <1>3. MirrorInv => MirrorAfterAnswer
    BY DEF MirrorInv, MirrorAfterAnswer, Quiet
  <1>4. QED
    BY <1>1, <1>2, <1>3, TypeCorrect, PTL DEF Spec
=============================================================================
