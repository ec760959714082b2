-------------------------- MODULE SeoAnalysisProofs --------------------------
(***************************************************************************)
(* Theorems about SeoAnalysis, for every set of runs, every assignment of  *)
(* runs to stores, and every value of the bounds: type correctness, the    *)
(* mutual exclusion of the deliveries of one run, the life time of the     *)
(* account's counter, and that a run is charged at most once.              *)
(***************************************************************************)
EXTENDS SeoAnalysis, TLAPS

USE CreditAssumption, SeoAssumption

\* What the shape of a process identity gives: a request is never a delivery.
LEMMA ProcFacts ==
    /\ \A r \in Run : Request(r) \in Proc /\ Request(r)[1] = r /\ Request(r)[2] = 0
    /\ \A d \in Delivery : d \in Proc /\ d[1] \in Run /\ d[2] # 0 /\ d # NoProc
    /\ \A p \in Proc : p[1] \in Run /\ p # NoProc
    /\ \A r \in Run, d \in Delivery : Request(r) # d
    /\ \A r, q \in Run : Request(r) = Request(q) => r = q
  BY DEF Request, Delivery, Proc

-----------------------------------------------------------------------------
(***************************************************************************)
(* Type correctness.                                                       *)
(***************************************************************************)

LEMMA EndedTypes ==
    ASSUME TypeOK, NEW p \in Proc, Ended(p)
    PROVE  /\ bal' \in [Proc -> Nat] /\ seen' \in [Proc -> Nat]
           /\ mode' \in [Proc -> {"settle", "release"}]
           /\ victim' \in [Proc -> Run]
           /\ stale' \in [Run -> SUBSET Run] /\ todo' \in [Run -> SUBSET Run]
  BY ProcFacts DEF TypeOK, Ended

LEMMA UnlockedType ==
    ASSUME TypeOK, NEW p \in Proc
    PROVE  Unlocked(p) \in [Run -> Proc \cup {NoProc}]
  BY DEF TypeOK, Unlocked

LEMMA GotoType ==
    ASSUME TypeOK, NEW p \in Proc, NEW l \in RequestPC \cup WorkerPC, Goto(p, l)
    PROVE  pc' \in [Proc -> RequestPC \cup WorkerPC]
  BY DEF TypeOK, Goto

LEMMA RequestTypes ==
    ASSUME TypeOK, NEW r \in Run, Authenticate(r) \/ RequestStep(r) \/ RequestDies(r)
    PROVE  TypeOK'
  <1> USE ProcFacts DEF RequestPC, WorkerPC, RedisStep, RequestFinal, WorkerFinal
  <1> DEFINE p == Request(r)
  <1>p. p \in Proc
    OBVIOUS
  <1>1. CASE Authenticate(r)
    BY <1>1, <1>p, GotoType DEF Authenticate, TypeOK, CreditTypeOK, creditVars,
       dbVars, brokerVars
  <1>2. CASE RefuseInProgress(r)
    BY <1>2, <1>p, GotoType, EndedTypes DEF RefuseInProgress, TypeOK,
       CreditTypeOK, creditVars, dbVars, brokerVars
  <1>3. CASE FindStale(r)
    <2>1. RunsInProgress(r) \subseteq Run
      BY DEF RunsInProgress
    <2>2. QED
      BY <1>3, <2>1, <1>p, GotoType DEF FindStale, TypeOK, CreditTypeOK,
         creditVars, dbVars, brokerVars
  <1>4. CASE SupersedeNext(r)
    BY <1>4, <1>p, GotoType DEF SupersedeNext, TypeOK, CreditTypeOK, creditVars,
       dbVars, brokerVars
  <1>5. CASE FlushStale(r)
    BY <1>5, <1>p, GotoType DEF FlushStale, TypeOK, CreditTypeOK, creditVars,
       brokerVars, localVars
  <1>6. CASE ReserveGranted(r)
    BY <1>6, <1>p, GotoType DEF ReserveGranted, Reserve, RenewReserved, SetHold, Forever, TypeOK,
       CreditTypeOK, dbVars, brokerVars, localVars
  <1>7. CASE ReserveDenied(r)
    BY <1>7, <1>p, GotoType, EndedTypes, UnlockedType DEF ReserveDenied, Denied,
       TypeOK, CreditTypeOK, creditVars, brokerVars
  <1>8. CASE CommitRun(r)
    <2>1. status' \in [Run -> RunStatus]
      BY <1>8 DEF CommitRun, TypeOK, RunStatus
    <2>2. QED
      BY <1>8, <2>1, <1>p, GotoType, EndedTypes, UnlockedType DEF CommitRun,
         TypeOK, CreditTypeOK, creditVars, brokerVars
  <1>9. CASE Dispatch(r)
    BY <1>9, <1>p, GotoType DEF Dispatch, TypeOK, CreditTypeOK, creditVars,
       dbVars, localVars
  <1>10. CASE RequestDies(r)
    BY <1>10, <1>p, GotoType, EndedTypes, UnlockedType DEF RequestDies, TypeOK,
       CreditTypeOK, creditVars, brokerVars
  <1>11. QED
    BY <1>1, <1>2, <1>3, <1>4, <1>5, <1>6, <1>7, <1>8, <1>9, <1>10
       DEF RequestStep

LEMMA ReleaseTypes ==
    ASSUME TypeOK, NEW p \in Proc, ReleaseStep(p)
    PROVE  TypeOK'
  <1> USE ProcFacts DEF RequestPC, WorkerPC, RedisStep, RequestFinal, WorkerFinal
  <1>v. victim[p] \in Run /\ hold[victim[p]] \in Nat /\ seen[p] \in Nat
    BY DEF TypeOK, CreditTypeOK
  <1>1. CASE GetHold(p)
    BY <1>1, <1>v, GotoType DEF GetHold, TypeOK, CreditTypeOK, creditVars,
       dbVars, brokerVars
  <1>2. CASE Refund(p)
    BY <1>2, <1>v, GotoType DEF Refund, RefundDaily, TypeOK, CreditTypeOK,
       dbVars, brokerVars, localVars
  <1>3. CASE Decrement(p)
    BY <1>3, <1>v, GotoType DEF Decrement, DecrReserved, Forever, TypeOK,
       CreditTypeOK, dbVars, brokerVars, localVars
  <1>4. CASE Delete(p)
    BY <1>4, <1>v, GotoType DEF Delete, DeleteHold, AfterRelease, TypeOK,
       CreditTypeOK, dbVars, brokerVars, localVars
  <1>5. CASE RedisRaises(p)
    BY <1>5, <1>v, GotoType DEF RedisRaises, AfterRelease, TypeOK, CreditTypeOK,
       creditVars, dbVars, brokerVars
  <1>6. QED
    BY <1>1, <1>2, <1>3, <1>4, <1>5 DEF ReleaseStep

LEMMA WorkerTypes ==
    ASSUME TypeOK, NEW d \in Delivery, WorkerStep(d) \/ WorkerDies(d)
    PROVE  TypeOK'
  <1> USE ProcFacts DEF RequestPC, WorkerPC, RedisStep, RequestFinal, WorkerFinal
  <1>1. CASE Receive(d)
    BY <1>1, GotoType DEF Receive, TypeOK, CreditTypeOK, creditVars, dbVars,
       localVars
  <1>2. CASE FlushRunning(d)
    BY <1>2, GotoType DEF FlushRunning, TypeOK, CreditTypeOK, creditVars,
       brokerVars, localVars
  <1>3. CASE AnalysisSucceeds(d)
    BY <1>3, GotoType DEF AnalysisSucceeds, TypeOK, CreditTypeOK, creditVars,
       dbVars, brokerVars
  <1>4. CASE AnalysisFails(d)
    BY <1>4, GotoType DEF AnalysisFails, TypeOK, CreditTypeOK, creditVars,
       dbVars, brokerVars
  <1>5. CASE ReadUser(d)
    BY <1>5, GotoType DEF ReadUser, TypeOK, CreditTypeOK, creditVars, dbVars,
       brokerVars
  <1>6. CASE CommitResult(d)
    <2>1. bal[d] \in Nat /\ seen[d] \in Nat /\ charged[d[1]] \in Nat
      BY DEF TypeOK
    <2>2. Deducted(d) \in Nat
      BY <2>1 DEF Deducted
    <2>3. status' \in [Run -> RunStatus]
      BY <1>6 DEF CommitResult, TypeOK, RunStatus
    <2>4. charged' \in [Run -> Nat]
      <3>1. charged[d[1]] + seen[d] \in Nat
        BY <2>1
      <3>2. charged \in [Run -> Nat]
        BY DEF TypeOK
      <3>3. CASE mode[d] = "settle"
        BY <1>6, <3>1, <3>2, <3>3 DEF CommitResult
      <3>4. CASE mode[d] # "settle"
        BY <1>6, <3>2, <3>4 DEF CommitResult
      <3>5. QED
        BY <3>3, <3>4
    <2>5. balance' \in Nat
      BY <1>6, <2>1, <2>2 DEF CommitResult, TypeOK
    <2>6. QED
      BY <1>6, <2>3, <2>4, <2>5, GotoType, EndedTypes, UnlockedType DEF CommitResult, TypeOK,
         CreditTypeOK, creditVars, brokerVars
  <1>7. CASE Acknowledge(d)
    BY <1>7, GotoType DEF Acknowledge, TypeOK, CreditTypeOK, creditVars, dbVars,
       brokerVars, localVars
  <1>8. CASE WorkerDies(d)
    BY <1>8, GotoType, EndedTypes, UnlockedType DEF WorkerDies, TypeOK,
       CreditTypeOK, creditVars, brokerVars
  <1>9. QED
    BY <1>1, <1>2, <1>3, <1>4, <1>5, <1>6, <1>7, <1>8 DEF WorkerStep

LEMMA PassTimeTypes ==
    ASSUME CreditTypeOK, PassTime
    PROVE  CreditTypeOK'
  BY DEF PassTime, CreditTypeOK, Forever

LEMMA InitTypes == Init => TypeOK
  BY ProcFacts DEF Init, CreditInit, TypeOK, CreditTypeOK, Forever, RunStatus,
     RequestPC, WorkerPC

LEMMA StepTypes == TypeOK /\ [Next]_vars => TypeOK'
  <1> SUFFICES ASSUME TypeOK, [Next]_vars PROVE TypeOK'
    OBVIOUS
  <1>1. ASSUME NEW r \in Run,
               Authenticate(r) \/ RequestStep(r) \/ RequestDies(r)
        PROVE  TypeOK'
    BY <1>1, RequestTypes
  <1>2. ASSUME NEW r \in Run, Redeliver(r) PROVE TypeOK'
    BY <1>2 DEF Redeliver, TypeOK, CreditTypeOK, creditVars, dbVars, localVars
  <1>3. ASSUME NEW d \in Delivery, WorkerStep(d) \/ WorkerDies(d)
        PROVE  TypeOK'
    BY <1>3, WorkerTypes
  <1>4. ASSUME NEW p \in Proc, ReleaseStep(p) PROVE TypeOK'
    BY <1>4, ReleaseTypes
  <1>5. CASE Tick
    <2>1. CreditTypeOK'
      BY <1>5, PassTimeTypes DEF Tick, TypeOK
    <2>2. age' \in [Run -> 0 .. StaleAfter]
      BY <1>5 DEF Tick, TypeOK, Fresh
    <2>3. QED
      BY <1>5, <2>1, <2>2 DEF Tick, TypeOK, brokerVars, localVars
  <1>6. CASE Midnight
    BY <1>6 DEF Midnight, NewDay, TypeOK, CreditTypeOK, dbVars, localVars
  <1>7. CASE UNCHANGED vars
    BY <1>7 DEF vars, creditVars, dbVars, brokerVars, localVars, TypeOK,
       CreditTypeOK
  <1>8. QED
    BY <1>1, <1>2, <1>3, <1>4, <1>5, <1>6, <1>7 DEF Next, AllDone

\* Every variable keeps its type: in particular no counter of an account but
\* the reserved one can go below zero, whatever the interleaving.
THEOREM TypeCorrect == Spec => []TypeOK
  BY InitTypes, StepTypes, PTL DEF Spec

-----------------------------------------------------------------------------
(***************************************************************************)
(* Every step but the passing of time is a step of one process; the other  *)
(* processes keep their place and what they have read.                     *)
(***************************************************************************)
ProcStep(p) ==
    \/ p[2] = 0 /\ (Authenticate(p[1]) \/ RequestStep(p[1]) \/ RequestDies(p[1]))
    \/ p[2] # 0 /\ (WorkerStep(p) \/ WorkerDies(p))
    \/ ReleaseStep(p)

\* A step that belongs to no process.
OtherStep == (\E r \in Run : Redeliver(r)) \/ Tick \/ Midnight \/ UNCHANGED vars

LEMMA NextSplit ==
    ASSUME [Next]_vars
    PROVE  (\E p \in Proc : ProcStep(p)) \/ OtherStep
  <1>1. ASSUME NEW r \in Run, Authenticate(r) \/ RequestStep(r) \/ RequestDies(r)
        PROVE  ProcStep(Request(r))
    BY <1>1, ProcFacts DEF ProcStep
  <1>2. ASSUME NEW d \in Delivery, WorkerStep(d) \/ WorkerDies(d)
        PROVE  ProcStep(d)
    BY <1>2, ProcFacts DEF ProcStep
  <1>3. ASSUME NEW p \in Proc, ReleaseStep(p) PROVE ProcStep(p)
    BY <1>3 DEF ProcStep
  <1>4. QED
    BY <1>1, <1>2, <1>3, ProcFacts DEF Next, OtherStep, AllDone

LEMMA OthersUnmoved ==
    ASSUME TypeOK, NEW p \in Proc, ProcStep(p), NEW q \in Proc, q # p
    PROVE  /\ pc'[q] = pc[q] /\ mode'[q] = mode[q]
           /\ seen'[q] = seen[q] /\ victim'[q] = victim[q]
  <1>r. \A r \in Run : p[2] = 0 /\ p[1] = r => Request(r) = p
    BY DEF Request, Proc
  <1>1. CASE p[2] = 0 /\ (Authenticate(p[1]) \/ RequestStep(p[1]) \/ RequestDies(p[1]))
    <2>1. p = Request(p[1]) /\ p[1] \in Run
      BY <1>1, <1>r, ProcFacts
    <2>2. QED
      BY <1>1, <2>1 DEF TypeOK, Authenticate, RequestStep, RequestDies,
         RefuseInProgress, FindStale, SupersedeNext, FlushStale, ReserveGranted,
         ReserveDenied, CommitRun, Dispatch, Goto, Ended, localVars
  <1>2. CASE p[2] # 0 /\ (WorkerStep(p) \/ WorkerDies(p))
    BY <1>2 DEF TypeOK, WorkerStep, WorkerDies, Receive, FlushRunning,
       AnalysisSucceeds, AnalysisFails, ReadUser, CommitResult, Acknowledge,
       Goto, Ended, localVars
  <1>3. CASE ReleaseStep(p)
    BY <1>3 DEF TypeOK, ReleaseStep, GetHold, Refund, Decrement, Delete,
       RedisRaises, Goto, localVars
  <1>4. QED
    BY <1>1, <1>2, <1>3 DEF ProcStep

LEMMA OtherStepUnmoved ==
    ASSUME OtherStep
    PROVE  /\ UNCHANGED <<pc, mode, seen, victim, lock, charged, faulted, status>>
           /\ Tick \/ UNCHANGED <<hold, holdTTL>>
  BY DEF OtherStep, Redeliver, Tick, Midnight, NewDay, vars, creditVars, dbVars,
     localVars

-----------------------------------------------------------------------------
(***************************************************************************)
(* LockInv: only the process that locked a row unlocks it, and a delivery  *)
(* enters the analysis by locking its run's row.                           *)
(***************************************************************************)

LEMMA LockKept ==
    ASSUME TypeOK, NEW p \in Proc, ProcStep(p), NEW q \in Proc, q # p,
           NEW r \in Run, lock[r] = q
    PROVE  lock'[r] = q
  <1>1. q # NoProc
    BY ProcFacts
  <1>2. CASE p[2] = 0 /\ (Authenticate(p[1]) \/ RequestStep(p[1]) \/ RequestDies(p[1]))
    <2>1. p = Request(p[1]) /\ p[1] \in Run
      BY <1>2, ProcFacts DEF Request, Proc
    <2>2. QED
      BY <1>1, <1>2, <2>1 DEF TypeOK, Authenticate, RequestStep, RequestDies,
         RefuseInProgress, FindStale, SupersedeNext, FlushStale, ReserveGranted,
         ReserveDenied, CommitRun, Dispatch, Unlocked, dbVars
  <1>3. CASE p[2] # 0 /\ (WorkerStep(p) \/ WorkerDies(p))
    BY <1>1, <1>3, ProcFacts DEF TypeOK, WorkerStep, WorkerDies, Receive,
       FlushRunning, AnalysisSucceeds, AnalysisFails, ReadUser, CommitResult,
       Acknowledge, Unlocked, dbVars
  <1>4. CASE ReleaseStep(p)
    BY <1>4 DEF ReleaseStep, GetHold, Refund, Decrement, Delete, RedisRaises,
       dbVars
  <1>5. QED
    BY <1>2, <1>3, <1>4 DEF ProcStep

LEMMA LockOwnStep ==
    ASSUME TypeOK, LockInv, NEW d \in Delivery, ProcStep(d), Analysing(d)'
    PROVE  lock'[d[1]] = d
  <1>1. CASE WorkerStep(d) \/ WorkerDies(d)
    <2>1. CASE FlushRunning(d)
      BY <2>1, ProcFacts DEF FlushRunning, TypeOK
    <2>2. CASE AnalysisSucceeds(d) \/ AnalysisFails(d) \/ ReadUser(d)
      BY <2>2 DEF AnalysisSucceeds, AnalysisFails, ReadUser, LockInv, Analysing,
         dbVars
    <2>3. CASE Receive(d) \/ CommitResult(d) \/ Acknowledge(d) \/ WorkerDies(d)
      <3>1. pc'[d] \in {"received", "unacked"} \cup WorkerFinal
        BY <2>3, ProcFacts DEF Receive, CommitResult, Acknowledge, WorkerDies,
           Goto, TypeOK, WorkerFinal
      <3>2. QED
        BY <3>1 DEF Analysing, RedisStep, WorkerFinal
    <2>4. QED
      BY <1>1, <2>1, <2>2, <2>3 DEF WorkerStep
  <1>2. CASE ReleaseStep(d)
    BY <1>2 DEF ReleaseStep, GetHold, Refund, Decrement, Delete, RedisRaises,
       LockInv, Analysing, RedisStep, dbVars
  <1>3. QED
    BY <1>1, <1>2, ProcFacts DEF ProcStep

LEMMA LockStep ==
    ASSUME TypeOK, LockInv, [Next]_vars
    PROVE  LockInv'
  <1> SUFFICES ASSUME NEW d \in Delivery, Analysing(d)'
               PROVE  lock'[d[1]] = d
    BY DEF LockInv
  <1>1. ASSUME NEW p \in Proc, ProcStep(p), p # d PROVE lock'[d[1]] = d
    <2>1. Analysing(d)
      BY <1>1, OthersUnmoved, ProcFacts DEF Analysing
    <2>2. QED
      BY <1>1, <2>1, LockKept, ProcFacts DEF LockInv
  <1>2. CASE ProcStep(d)
    BY <1>2, LockOwnStep
  <1>3. CASE OtherStep
    BY <1>3, OtherStepUnmoved DEF LockInv, Analysing
  <1>4. QED
    BY <1>1, <1>2, <1>3, NextSplit

\* No two deliveries of one run analyse at the same time: the row lock the
\* flush of "running" takes is the mutual exclusion of tasks/seo.py.
THEOREM OneAnalysis == Spec => []OneAnalysisPerRun
  <1>1. Init => LockInv
    BY ProcFacts DEF Init, LockInv, Analysing, RedisStep
  <1>2. TypeOK /\ LockInv /\ [Next]_vars => LockInv'
    BY LockStep
  <1>3. LockInv => OneAnalysisPerRun
    BY DEF LockInv, OneAnalysisPerRun
  <1>4. QED
    BY <1>1, <1>2, <1>3, TypeCorrect, PTL DEF Spec

-----------------------------------------------------------------------------
(***************************************************************************)
(* The account's counter outlives the holds it counts.                     *)
(***************************************************************************)

\* What a process can do to the keys, whichever it is.
LEMMA CreditSteps ==
    ASSUME TypeOK, NEW p \in Proc, ProcStep(p)
    PROVE  \/ p[2] = 0 /\ pc[p] = "reserve" /\ ReserveGranted(p[1])
           \/ pc[p] = "refund" /\ RefundDaily(seen[p])
           \/ pc[p] = "decr" /\ DecrReserved(seen[p])
           \/ pc[p] = "del" /\ DeleteHold(victim[p])
           \/ UNCHANGED creditVars
  <1>1. CASE p[2] = 0 /\ (Authenticate(p[1]) \/ RequestStep(p[1]) \/ RequestDies(p[1]))
    <2>1. p = Request(p[1])
      BY <1>1 DEF Request, Proc
    <2>2. QED
      BY <1>1, <2>1 DEF Authenticate, RequestStep, RequestDies, RefuseInProgress,
         FindStale, SupersedeNext, FlushStale, ReserveGranted, ReserveDenied,
         Denied, CommitRun, Dispatch
  <1>2. CASE p[2] # 0 /\ (WorkerStep(p) \/ WorkerDies(p))
    BY <1>2 DEF WorkerStep, WorkerDies, Receive, FlushRunning, AnalysisSucceeds,
       AnalysisFails, ReadUser, CommitResult, Acknowledge
  <1>3. CASE ReleaseStep(p)
    BY <1>3 DEF ReleaseStep, GetHold, Refund, Decrement, Delete, RedisRaises
  <1>4. QED
    BY <1>1, <1>2, <1>3 DEF ProcStep

LEMMA CounterStep ==
    ASSUME TypeOK, CounterOutlivesHolds, [Next]_vars
    PROVE  CounterOutlivesHolds'
  <1> USE DEF CounterOutlivesHolds, TypeOK, CreditTypeOK
  <1>1. ASSUME NEW p \in Proc, ProcStep(p) PROVE CounterOutlivesHolds'
    <2>1. CASE p[2] = 0 /\ ReserveGranted(p[1])
      BY <2>1, ProcFacts DEF ReserveGranted, Reserve, RenewReserved, SetHold, Forever
    <2>2. CASE RefundDaily(seen[p])
      BY <2>2 DEF RefundDaily
    <2>3. CASE DecrReserved(seen[p])
      BY <2>3 DEF DecrReserved, Forever
    <2>4. CASE DeleteHold(victim[p])
      BY <2>4, ProcFacts DEF DeleteHold
    <2>5. CASE UNCHANGED creditVars
      BY <2>5 DEF creditVars
    <2>6. QED
      BY <1>1, <2>1, <2>2, <2>3, <2>4, <2>5, CreditSteps
  <1>2. CASE Tick
    BY <1>2 DEF Tick, PassTime, Forever
  <1>3. CASE (\E r \in Run : Redeliver(r)) \/ Midnight \/ UNCHANGED vars
    BY <1>3 DEF Redeliver, Midnight, NewDay, vars, creditVars
  <1>4. QED
    BY <1>1, <1>2, <1>3, NextSplit DEF OtherStep

\* The reserved counter never expires under a live hold, for any lifetime and
\* any interleaving of reserves, settlements and releases.
THEOREM CounterOutlives == Spec => []CounterOutlivesHolds
  <1>1. Init => CounterOutlivesHolds
    BY DEF Init, CreditInit, CounterOutlivesHolds
  <1>2. TypeOK /\ CounterOutlivesHolds /\ [Next]_vars => CounterOutlivesHolds'
    BY CounterStep
  <1>3. QED
    BY <1>1, <1>2, TypeCorrect, PTL DEF Spec

-----------------------------------------------------------------------------
(***************************************************************************)
(* DispatchInv: nothing happens to a run before its request has committed  *)
(* the row and dispatched the message.                                     *)
(***************************************************************************)

LEMMA DispatchRequest ==
    ASSUME TypeOK, DispatchInv, NEW r \in Run,
           Authenticate(r) \/ RequestStep(r) \/ RequestDies(r)
    PROVE  DispatchInv'
  <1> USE ProcFacts DEF DispatchInv, TypeOK
  <1>d. \A d \in Delivery : pc[d] # "idle" /\ d[1] = r => pc[Request(r)] = "accepted"
    OBVIOUS
  <1>1. CASE CommitRun(r)
    BY <1>1, <1>d DEF CommitRun, Goto, brokerVars
  <1>2. CASE Dispatch(r)
    BY <1>2, <1>d DEF Dispatch, Goto, dbVars
  <1>3. CASE RequestDies(r)
    BY <1>3, <1>d DEF RequestDies, Goto, brokerVars, RequestFinal
  <1>4. CASE Authenticate(r) \/ RefuseInProgress(r) \/ FindStale(r) \/ SupersedeNext(r)
    BY <1>4, <1>d DEF Authenticate, RefuseInProgress, FindStale, SupersedeNext,
       Goto, brokerVars, dbVars
  <1>5. CASE FlushStale(r) \/ ReserveGranted(r) \/ ReserveDenied(r)
    BY <1>5, <1>d DEF FlushStale, ReserveGranted, ReserveDenied, Goto,
       brokerVars, dbVars
  <1>6. QED
    BY <1>1, <1>2, <1>3, <1>4, <1>5 DEF RequestStep

LEMMA DispatchWorker ==
    ASSUME TypeOK, DispatchInv, NEW d \in Delivery, WorkerStep(d) \/ WorkerDies(d)
    PROVE  DispatchInv'
  <1> USE ProcFacts DEF DispatchInv, TypeOK
  <1>1. CASE Receive(d)
    BY <1>1 DEF Receive, Goto, dbVars
  <1>2. CASE CommitResult(d)
    <2>1. pc[Request(d[1])] = "accepted"
      BY <1>2 DEF CommitResult
    <2>2. \A r \in Run : status[r] # "none" => status'[r] # "none"
      BY <1>2 DEF CommitResult
    <2>3. \A r \in Run : charged'[r] # 0 => charged[r] # 0 \/ r = d[1]
      BY <1>2 DEF CommitResult
    <2>4. QED
      BY <1>2, <2>1, <2>2, <2>3 DEF CommitResult, Goto, brokerVars
  <1>3. CASE FlushRunning(d) \/ AnalysisSucceeds(d) \/ AnalysisFails(d)
    BY <1>3 DEF FlushRunning, AnalysisSucceeds, AnalysisFails, Goto, brokerVars,
       dbVars
  <1>4. CASE ReadUser(d)
    BY <1>4 DEF ReadUser, Goto, brokerVars, dbVars
  <1>5. CASE Acknowledge(d)
    BY <1>5 DEF Acknowledge, Goto, brokerVars, dbVars
  <1>6. CASE WorkerDies(d)
    BY <1>6 DEF WorkerDies, Goto, brokerVars, WorkerFinal
  <1>7. QED
    BY <1>1, <1>2, <1>3, <1>4, <1>5, <1>6 DEF WorkerStep

LEMMA DispatchRelease ==
    ASSUME TypeOK, DispatchInv, NEW p \in Proc, ReleaseStep(p)
    PROVE  DispatchInv'
  <1>1. /\ pc[p] \in RedisStep /\ UNCHANGED <<dbVars, brokerVars>>
        /\ \E l \in RedisStep \cup {"supersede", "commit"} : Goto(p, l)
    BY DEF ReleaseStep, GetHold, Refund, Decrement, Delete, RedisRaises,
       AfterRelease, RedisStep
  <1>2. QED
    BY <1>1, ProcFacts DEF DispatchInv, TypeOK, Goto, RedisStep, dbVars, brokerVars

LEMMA DispatchStep ==
    ASSUME TypeOK, DispatchInv, [Next]_vars
    PROVE  DispatchInv'
  <1>1. ASSUME NEW r \in Run, Redeliver(r) PROVE DispatchInv'
    <2>1. PICK d \in Delivery : d[1] = r /\ pc[d] # "idle"
      BY <1>1 DEF Redeliver, Unacked
    <2>2. pc[Request(r)] = "accepted"
      BY <2>1 DEF DispatchInv
    <2>3. \A q \in Run : queued'[q] => queued[q] \/ q = r
      BY <1>1 DEF Redeliver, TypeOK
    <2>4. QED
      BY <1>1, <2>2, <2>3 DEF Redeliver, DispatchInv, dbVars
  <1>2. CASE Tick
    BY <1>2 DEF Tick, DispatchInv, brokerVars
  <1>3. CASE Midnight \/ UNCHANGED vars
    BY <1>3 DEF Midnight, DispatchInv, vars, dbVars, brokerVars
  <1>4. QED
    BY <1>1, <1>2, <1>3, DispatchRequest, DispatchWorker, DispatchRelease
       DEF Next, AllDone

\* A worker always finds the row of the run it is asked to do: the order
\* "commit before dispatching" of trigger_seo_analysis.
THEOREM MessageFindsRow == Spec => []MessageHasRow
  <1>1. Init => DispatchInv
    BY ProcFacts DEF Init, DispatchInv
  <1>2. TypeOK /\ DispatchInv /\ [Next]_vars => DispatchInv'
    BY DispatchStep
  <1>3. DispatchInv => MessageHasRow
    BY DEF DispatchInv, MessageHasRow
  <1>4. QED
    BY <1>1, <1>2, <1>3, TypeCorrect, PTL DEF Spec

-----------------------------------------------------------------------------
(***************************************************************************)
(* ChargeInv: the hold is read, charged and deleted by one process.        *)
(***************************************************************************)

LEMMA VictimStep ==
    ASSUME TypeOK, VictimInv, [Next]_vars
    PROVE  VictimInv'
  <1>1. ASSUME NEW d \in Delivery, ProcStep(d) PROVE victim'[d] = d[1]
    BY <1>1, ProcFacts DEF ProcStep, WorkerStep, WorkerDies, Receive,
       FlushRunning, AnalysisSucceeds, AnalysisFails, ReadUser, CommitResult,
       Acknowledge, ReleaseStep, GetHold, Refund, Decrement, Delete,
       RedisRaises, Ended, localVars, VictimInv, TypeOK
  <1>2. ASSUME NEW d \in Delivery, NEW p \in Proc, ProcStep(p), p # d
        PROVE  victim'[d] = d[1]
    BY <1>2, OthersUnmoved, ProcFacts DEF VictimInv
  <1>3. QED
    BY <1>1, <1>2, NextSplit, OtherStepUnmoved DEF VictimInv

LEMMA HoldStep ==
    ASSUME TypeOK, HoldInv, [Next]_vars
    PROVE  HoldInv'
  <1> USE DEF HoldInv, TypeOK, CreditTypeOK
  <1>1. ASSUME NEW p \in Proc, ProcStep(p) PROVE HoldInv'
    BY <1>1, CreditSteps, ProcFacts DEF ReserveGranted, Reserve, SetHold, RefundDaily,
       DecrReserved, DeleteHold, creditVars
  <1>2. CASE OtherStep
    BY <1>2, OtherStepUnmoved DEF Tick, PassTime
  <1>3. QED
    BY <1>1, <1>2, NextSplit

\* A step that charges nobody, creates no hold and in which no delivery reads
\* a hold preserves OnceInv.
LEMMA OnceFrame ==
    ASSUME TypeOK, OnceInv, charged' = charged,
           \A r \in Run : hold'[r] \in {hold[r], 0},
           \A r \in Run : faulted[r] => faulted'[r],
           \A d \in Delivery : HasRead(d)' =>
               \/ /\ HasRead(d) /\ seen'[d] = seen[d]
                  /\ pc'[d] = "commit" =>
                       pc[d] = "commit" \/ hold'[d[1]] = 0 \/ faulted'[d[1]]
               \/ faulted'[d[1]] /\ seen'[d] = 0
    PROVE  OnceInv'
  <1>1. ChargeAtMostOnce'
    BY DEF OnceInv, ChargeAtMostOnce
  <1>2. (\A r \in Run : ~faulted[r] /\ charged[r] # 0 => hold[r] = 0)'
    BY DEF OnceInv
  <1>3. ASSUME NEW d \in Delivery, HasRead(d)'
        PROVE  /\ seen'[d] \in {0, Cost}
               /\ ~faulted'[d[1]] =>
                    /\ seen'[d] # 0 => charged'[d[1]] = 0
                    /\ pc'[d] = "commit" => hold'[d[1]] = 0
    <2>1. d[1] \in Run
      BY ProcFacts
    <2>2. QED
      BY <1>3, <2>1 DEF OnceInv
  <1>4. QED
    BY <1>1, <1>2, <1>3 DEF OnceInv

LEMMA OnceRequest ==
    ASSUME TypeOK, ChargeInv, NEW r \in Run,
           Authenticate(r) \/ RequestStep(r) \/ RequestDies(r)
    PROVE  OnceInv'
  <1>1. Request(r) \in Proc /\ ProcStep(Request(r))
    BY ProcFacts DEF ProcStep
  <1>2. charged' = charged /\ faulted' = faulted
    BY DEF RequestStep, Authenticate, RequestDies, RefuseInProgress, FindStale,
       SupersedeNext, FlushStale, ReserveGranted, ReserveDenied, CommitRun,
       Dispatch, dbVars
  <1>3. \A d \in Delivery :
           pc'[d] = pc[d] /\ mode'[d] = mode[d] /\ seen'[d] = seen[d]
    BY <1>1, OthersUnmoved, ProcFacts
  <1>4. CASE ReserveGranted(r)
    <2>1. charged[r] = 0 /\ \A d \in Delivery : d[1] = r => pc[d] = "idle"
      BY <1>4 DEF ReserveGranted, ChargeInv, DispatchInv
    <2>2. \A q \in Run : q # r => hold'[q] = hold[q]
      BY <1>4 DEF ReserveGranted, Reserve, SetHold, TypeOK, CreditTypeOK
    <2>3. QED
      BY <1>2, <1>3, <2>1, <2>2, ProcFacts DEF ChargeInv, OnceInv,
         ChargeAtMostOnce, HasRead
  <1>5. CASE ~ReserveGranted(r)
    <2>1. hold' = hold
      BY <1>5 DEF RequestStep, Authenticate, RequestDies, RefuseInProgress,
         FindStale, SupersedeNext, FlushStale, ReserveDenied, Denied, CommitRun,
         Dispatch, creditVars
    <2>2. QED
      BY <1>2, <1>3, <2>1, OnceFrame DEF ChargeInv, HasRead
  <1>6. QED
    BY <1>4, <1>5

LEMMA OnceRelease ==
    ASSUME TypeOK, ChargeInv, NEW p \in Proc, ReleaseStep(p)
    PROVE  OnceInv'
  <1>1. ProcStep(p)
    BY DEF ProcStep
  <1>2. charged' = charged
    BY DEF ReleaseStep, GetHold, Refund, Decrement, Delete, RedisRaises, dbVars
  <1>3. \A d \in Delivery : d # p =>
           pc'[d] = pc[d] /\ mode'[d] = mode[d] /\ seen'[d] = seen[d]
    BY <1>1, OthersUnmoved, ProcFacts
  <1>4. \A d \in Delivery : victim[d] = d[1] /\ AfterRelease(d) = "commit"
    BY ProcFacts DEF ChargeInv, VictimInv, AfterRelease
  <1>5. CASE GetHold(p)
    <2>1. /\ hold' = hold /\ faulted' = faulted /\ mode' = mode
          /\ seen'[p] = hold[victim[p]]
          /\ pc'[p] # "commit"
      BY <1>5 DEF GetHold, Goto, TypeOK, creditVars
    <2>2. p \in Delivery => seen'[p] \in {0, Cost} /\
             (~faulted[p[1]] /\ seen'[p] # 0 => charged[p[1]] = 0)
      BY <2>1, <1>4, ProcFacts DEF ChargeInv, HoldInv, OnceInv
    <2>3. QED
      BY <1>2, <1>3, <2>1, <2>2 DEF ChargeInv, OnceInv, ChargeAtMostOnce, HasRead
  <1>6. CASE Refund(p) \/ Decrement(p)
    <2>1. /\ hold' = hold /\ faulted' = faulted /\ mode' = mode /\ seen' = seen
          /\ pc[p] \in {"refund", "decr"} /\ pc'[p] \in {"decr", "del"}
      BY <1>6 DEF Refund, RefundDaily, Decrement, DecrReserved, Goto, TypeOK,
         localVars
    <2>2. QED
      BY <1>2, <1>3, <2>1, OnceFrame DEF ChargeInv, HasRead
  <1>7. CASE Delete(p)
    <2>1. /\ \A r \in Run : hold'[r] \in {hold[r], 0}
          /\ hold'[victim[p]] = 0
          /\ faulted' = faulted /\ mode' = mode /\ seen' = seen
          /\ pc[p] = "del"
      BY <1>7 DEF Delete, DeleteHold, TypeOK, CreditTypeOK, localVars
    <2>2. QED
      BY <1>2, <1>3, <1>4, <2>1, OnceFrame DEF ChargeInv, HasRead
  <1>8. CASE RedisRaises(p)
    <2>1. /\ hold' = hold /\ mode' = mode
          /\ \A r \in Run : faulted[r] => faulted'[r]
          /\ faulted'[victim[p]]
          /\ seen'[p] = IF pc[p] = "get" THEN 0 ELSE seen[p]
          /\ pc[p] \in RedisStep
      BY <1>8 DEF RedisRaises, TypeOK, creditVars
    <2>2. QED
      BY <1>2, <1>3, <1>4, <2>1, OnceFrame DEF ChargeInv, HasRead, RedisStep
  <1>9. QED
    BY <1>5, <1>6, <1>7, <1>8 DEF ReleaseStep

LEMMA OnceCommit ==
    ASSUME TypeOK, ChargeInv, NEW d \in Delivery, CommitResult(d)
    PROVE  OnceInv'
  <1> DEFINE r == d[1]
  <1>1. /\ r \in Run /\ ProcStep(d)
        /\ hold' = hold /\ faulted' = faulted
        /\ pc[d] = "commit" /\ pc'[d] = "unacked"
    BY ProcFacts DEF CommitResult, ProcStep, WorkerStep, Goto, TypeOK, creditVars
  <1>2. \A e \in Delivery : e # d =>
           pc'[e] = pc[e] /\ mode'[e] = mode[e] /\ seen'[e] = seen[e]
    BY <1>1, OthersUnmoved, ProcFacts
  <1>3. \A e \in Delivery : HasRead(e)' => HasRead(e) /\ e # d
    BY <1>1, <1>2 DEF HasRead
  <1>4. CASE mode[d] = "settle"
    <2>1. HasRead(d)
      BY <1>1, <1>4 DEF HasRead
    <2>2. seen[d] \in {0, Cost} /\
             (~faulted[r] => (seen[d] # 0 => charged[r] = 0) /\ hold[r] = 0)
      BY <1>1, <2>1 DEF ChargeInv, OnceInv
    <2>3. /\ charged'[r] = charged[r] + seen[d]
          /\ \A q \in Run : q # r => charged'[q] = charged[q]
      BY <1>1, <1>4 DEF CommitResult, TypeOK
    <2>4. ~faulted[r] => charged'[r] \in {0, Cost}
      BY <1>1, <2>2, <2>3 DEF ChargeInv, OnceInv, ChargeAtMostOnce, TypeOK
    <2>5. \A e \in Delivery : HasRead(e)' => e[1] # r
      <3>1. Analysing(d)
        BY <1>1 DEF Analysing
      <3>2. ASSUME NEW e \in Delivery, HasRead(e), e # d PROVE e[1] # r
        <4>1. Analysing(e)
          BY <3>2 DEF HasRead, Analysing, RedisStep
        <4>2. QED
          BY <3>1, <3>2, <4>1 DEF ChargeInv, LockInv
      <3>3. QED
        BY <1>3, <3>2
    <2>6. ChargeAtMostOnce'
      BY <1>1, <2>3, <2>4 DEF ChargeInv, OnceInv, ChargeAtMostOnce
    <2>7. (\A q \in Run : ~faulted[q] /\ charged[q] # 0 => hold[q] = 0)'
      BY <1>1, <2>2, <2>3 DEF ChargeInv, OnceInv
    <2>8. QED
      BY <1>1, <1>2, <1>3, <2>3, <2>5, <2>6, <2>7, ProcFacts
         DEF ChargeInv, OnceInv
  <1>5. CASE mode[d] # "settle"
    <2>1. charged' = charged
      BY <1>5 DEF CommitResult
    <2>2. QED
      BY <1>1, <1>2, <1>3, <2>1, OnceFrame DEF ChargeInv
  <1>6. QED
    BY <1>4, <1>5

LEMMA OnceWorker ==
    ASSUME TypeOK, ChargeInv, NEW d \in Delivery, WorkerStep(d) \/ WorkerDies(d)
    PROVE  OnceInv'
  <1>1. CASE CommitResult(d)
    BY <1>1, OnceCommit
  <1>2. CASE ~CommitResult(d)
    <2>1. ProcStep(d) /\ d \in Proc
      BY ProcFacts DEF ProcStep
    <2>2. \A e \in Delivery : e # d =>
             pc'[e] = pc[e] /\ mode'[e] = mode[e] /\ seen'[e] = seen[e]
      BY <2>1, OthersUnmoved, ProcFacts
    <2>3. hold' = hold /\ faulted' = faulted /\ charged' = charged
      BY <1>2 DEF WorkerStep, WorkerDies, Receive, FlushRunning,
         AnalysisSucceeds, AnalysisFails, ReadUser, Acknowledge, creditVars,
         dbVars
    <2>4. pc'[d] \notin {"refund", "decr", "del", "commit"}
      BY <1>2, <2>1 DEF WorkerStep, WorkerDies, Receive, FlushRunning,
         AnalysisSucceeds, AnalysisFails, ReadUser, Acknowledge, Goto, TypeOK
    <2>5. QED
      BY <2>2, <2>3, <2>4, OnceFrame DEF ChargeInv, HasRead
  <1>3. QED
    BY <1>1, <1>2

LEMMA ChargeStep ==
    ASSUME TypeOK, ChargeInv, [Next]_vars
    PROVE  ChargeInv'
  <1>1. LockInv' /\ DispatchInv' /\ VictimInv' /\ HoldInv'
    BY LockStep, DispatchStep, VictimStep, HoldStep DEF ChargeInv
  <1>2. OnceInv'
    <2>1. ASSUME OtherStep PROVE OnceInv'
      <3>1. \A r \in Run : hold'[r] \in {hold[r], 0}
        BY <2>1, OtherStepUnmoved DEF Tick, PassTime
      <3>2. QED
        BY <2>1, <3>1, OtherStepUnmoved, OnceFrame DEF ChargeInv, HasRead
    <2>2. ASSUME Next PROVE OnceInv'
      BY <2>1, <2>2, OnceRequest, OnceWorker, OnceRelease
         DEF Next, OtherStep, AllDone
    <2>3. QED
      BY <2>1, <2>2 DEF OtherStep
  <1>3. QED
    BY <1>1, <1>2 DEF ChargeInv

\* No interleaving of duplicate deliveries, crashes, superseding requests and
\* expiring holds charges a run twice, unless a Redis call of its own
\* settlement or release raised and was swallowed.
THEOREM ChargedOnce == Spec => []ChargeAtMostOnce
  <1>1. Init => ChargeInv
    BY ProcFacts DEF Init, CreditInit, ChargeInv, LockInv, DispatchInv,
       VictimInv, HoldInv, OnceInv, ChargeAtMostOnce, HasRead, Analysing,
       RedisStep
  <1>2. TypeOK /\ ChargeInv /\ [Next]_vars => ChargeInv'
    BY ChargeStep
  <1>3. ChargeInv => ChargeAtMostOnce
    BY DEF ChargeInv, OnceInv
  <1>4. QED
    BY <1>1, <1>2, <1>3, TypeCorrect, PTL DEF Spec

-----------------------------------------------------------------------------
(***************************************************************************)
(* OpeningInv: a run is nothing until its request has reserved.  A stalled *)
(* run that a request supersedes has a row, so it is another run.          *)
(***************************************************************************)

StaleInv == \A r, q \in Run : q \in stale[r] => status[q] # "none"

OpeningInv ==
    \A r \in Run : pc[Request(r)] \in Opening \cup {"refused"} =>
        hold[r] = 0 /\ status[r] = "none" /\ ~queued[r]

LEMMA StatusStep ==
    ASSUME TypeOK, DispatchInv, [Next]_vars, NEW r \in Run
    PROVE  \/ status'[r] = status[r]
           \/ /\ status'[r] # "none"
              /\ \/ pc[Request(r)] \in {"reserved", "accepted"}
                 \/ \E q \in Run : r \in stale[q]
  <1> USE DEF TypeOK
  <1>1. ASSUME NEW q \in Run, Authenticate(q) \/ RequestStep(q) \/ RequestDies(q), ~CommitRun(q)
        PROVE  status' = status
    BY <1>1 DEF Authenticate, RequestStep, RequestDies, RefuseInProgress, FindStale,
       SupersedeNext, FlushStale, ReserveGranted, ReserveDenied, Dispatch, dbVars
  <1>2. ASSUME NEW q \in Run, CommitRun(q)
        PROVE  status'[r] = status[r] \/ (status'[r] # "none" /\ (q = r \/ r \in stale[q]))
    BY <1>2 DEF CommitRun
  <1>3. ASSUME NEW d \in Delivery, WorkerStep(d) \/ WorkerDies(d)
        PROVE  status'[r] = status[r] \/ (status'[r] # "none" /\ pc[Request(r)] = "accepted")
    <2>1. CASE CommitResult(d)
      <3>1. pc[Request(d[1])] = "accepted"
        BY <2>1, ProcFacts DEF CommitResult, DispatchInv
      <3> QED BY <2>1, <3>1 DEF CommitResult
    <2>2. CASE ~CommitResult(d)
      BY <1>3, <2>2 DEF WorkerStep, WorkerDies, Receive, FlushRunning, AnalysisSucceeds,
         AnalysisFails, ReadUser, Acknowledge, dbVars
    <2> QED BY <2>1, <2>2
  <1>4. ASSUME NEW p \in Proc, ReleaseStep(p) PROVE status' = status
    BY <1>4 DEF ReleaseStep, GetHold, Refund, Decrement, Delete, RedisRaises, dbVars
  <1>5. CASE OtherStep
    BY <1>5, OtherStepUnmoved
  <1>6. ASSUME NEW q \in Run, CommitRun(q) PROVE pc[Request(q)] = "reserved"
    BY <1>6 DEF CommitRun
  <1> QED BY <1>1, <1>2, <1>3, <1>4, <1>5, <1>6 DEF Next, OtherStep, AllDone

LEMMA StaleStep ==
    ASSUME TypeOK, DispatchInv, StaleInv, [Next]_vars
    PROVE  StaleInv'
  <1>1. ASSUME NEW r \in Run, NEW q \in Run, q \in stale'[r]
        PROVE  q \in stale[r] \/ status[q] # "none"
    <2>1. CASE \E x \in Run : FindStale(x)
      BY <1>1, <2>1 DEF FindStale, RunsInProgress, InProgress, TypeOK
    <2>2. ASSUME NEW p \in Proc, ProcStep(p), ~\E x \in Run : FindStale(x)
          PROVE  stale'[r] \in {stale[r], {}}
      BY <2>2, ProcFacts DEF ProcStep, Authenticate, RequestStep, RequestDies,
         RefuseInProgress, SupersedeNext, FlushStale, ReserveGranted, ReserveDenied,
         CommitRun, Dispatch, WorkerStep, WorkerDies, Receive, FlushRunning,
         AnalysisSucceeds, AnalysisFails, ReadUser, CommitResult, Acknowledge, ReleaseStep,
         GetHold, Refund, Decrement, Delete, RedisRaises, Ended, localVars, TypeOK
    <2>3. CASE OtherStep
      BY <1>1, <2>3 DEF OtherStep, Redeliver, Tick, Midnight, vars, localVars
    <2> QED BY <1>1, <2>1, <2>2, <2>3, NextSplit
  <1>2. \A q \in Run : status[q] # "none" => status'[q] # "none"
    BY StatusStep
  <1> QED BY <1>1, <1>2 DEF StaleInv

\* What happens to the hold of a run: its own request sets it, or it goes.
LEMMA HoldMoves ==
    ASSUME TypeOK, [Next]_vars, NEW r \in Run
    PROVE  ReserveGranted(r) \/ hold'[r] = hold[r] \/ hold'[r] = 0
  <1> USE DEF TypeOK, CreditTypeOK
  <1>1. ASSUME NEW p \in Proc, ProcStep(p)
        PROVE  ReserveGranted(r) \/ hold'[r] = hold[r] \/ hold'[r] = 0
    BY <1>1, CreditSteps, ProcFacts DEF ReserveGranted, Reserve, SetHold, RefundDaily,
       DecrReserved, DeleteHold, creditVars
  <1>2. CASE OtherStep
    BY <1>2, OtherStepUnmoved DEF Tick, PassTime
  <1> QED BY <1>1, <1>2, NextSplit

\* What happens to its message.
LEMMA QueuedMoves ==
    ASSUME TypeOK, DispatchInv, [Next]_vars, NEW r \in Run, queued'[r]
    PROVE  queued[r] \/ pc[Request(r)] \in {"committed", "accepted"}
  <1> USE DEF TypeOK
  <1>1. ASSUME NEW p \in Proc, ProcStep(p)
        PROVE  queued[r] \/ pc[Request(r)] = "committed"
    BY <1>1, ProcFacts DEF ProcStep, Authenticate, RequestStep, RequestDies,
       RefuseInProgress, FindStale, SupersedeNext, FlushStale, ReserveGranted, ReserveDenied,
       CommitRun, Dispatch, WorkerStep, WorkerDies, Receive, FlushRunning,
       AnalysisSucceeds, AnalysisFails, ReadUser, CommitResult, Acknowledge, ReleaseStep,
       GetHold, Refund, Decrement, Delete, RedisRaises, brokerVars
  <1>2. ASSUME NEW q \in Run, Redeliver(q) PROVE queued[r] \/ pc[Request(r)] = "accepted"
    <2>1. PICK d \in Delivery : d[1] = q /\ pc[d] # "idle"
      BY <1>2 DEF Redeliver, Unacked
    <2> QED BY <1>2, <2>1 DEF Redeliver, DispatchInv
  <1>3. CASE Tick \/ Midnight \/ UNCHANGED vars
    BY <1>3 DEF Tick, Midnight, vars, brokerVars
  <1> QED BY <1>1, <1>2, <1>3, NextSplit DEF OtherStep

\* Where the request of a run goes.
LEMMA RequestMoves ==
    ASSUME TypeOK, [Next]_vars, NEW r \in Run
    PROVE  LET was == pc[Request(r)]  is == pc'[Request(r)] IN
           \/ is = was
           \/ was \in Opening /\ is \in Opening /\ ~ReserveGranted(r)
           \/ was \in Opening /\ is = "refused" /\ ~ReserveGranted(r)
           \/ was = "reserve" /\ is = "reserved" /\ ReserveGranted(r)
           \/ was = "reserved" /\ is = "committed"
           \/ was = "committed" /\ is = "accepted"
           \/ was \notin RequestFinal /\ is = "dead" /\ ~ReserveGranted(r)
  <1> DEFINE p == Request(r)
  <1>p. p \in Proc /\ p[1] = r /\ p[2] = 0
    BY ProcFacts
  <1>1. ASSUME NEW q \in Proc, ProcStep(q), q # p PROVE pc'[p] = pc[p]
    BY <1>1, <1>p, OthersUnmoved
  <1>2. CASE OtherStep
    BY <1>2, OtherStepUnmoved
  <1>3. CASE ReleaseStep(p)
    <2>1. /\ pc[p] \in RedisStep
          /\ \E l \in RedisStep \cup {"supersede"} : Goto(p, l)
      BY <1>3, <1>p DEF ReleaseStep, GetHold, Refund, Decrement, Delete, RedisRaises,
         AfterRelease, RedisStep
    <2> QED BY <1>p, <2>1 DEF TypeOK, Goto, Opening, RedisStep, ReserveGranted
  <1>4. CASE Authenticate(r) \/ RefuseInProgress(r) \/ FindStale(r) \/ SupersedeNext(r)
             \/ FlushStale(r) \/ ReserveDenied(r)
    BY <1>4, <1>p DEF TypeOK, Authenticate, RefuseInProgress, FindStale, SupersedeNext,
       FlushStale, ReserveDenied, ReserveGranted, Reserve, Denied, Goto, Opening, RedisStep
  <1>5. CASE ReserveGranted(r) \/ CommitRun(r) \/ Dispatch(r)
    BY <1>5, <1>p DEF TypeOK, ReserveGranted, CommitRun, Dispatch, Goto
  <1>6. CASE RequestDies(r)
    <2>1. pc[p] \notin RequestFinal /\ pc'[p] = "dead" /\ UNCHANGED creditVars
      BY <1>6, <1>p DEF TypeOK, RequestDies, Goto
    <2>2. ReserveGranted(r) => pc'[p] = "reserved"
      BY <1>p DEF TypeOK, ReserveGranted, Goto
    <2> QED BY <2>1, <2>2
  <1> QED BY <1>1, <1>2, <1>3, <1>4, <1>5, <1>6, <1>p, NextSplit DEF ProcStep, RequestStep

LEMMA OpeningStep ==
    ASSUME TypeOK, DispatchInv, StaleInv, OpeningInv, [Next]_vars
    PROVE  OpeningInv'
  <1> SUFFICES ASSUME NEW r \in Run, pc'[Request(r)] \in Opening \cup {"refused"}
               PROVE  hold'[r] = 0 /\ status'[r] = "none" /\ ~queued'[r]
    BY DEF OpeningInv
  <1>1. pc[Request(r)] \in Opening \cup {"refused"} /\ ~ReserveGranted(r)
    <2>1. ReserveGranted(r) => pc'[Request(r)] = "reserved"
      BY ProcFacts DEF ReserveGranted, Goto, TypeOK
    <2> QED BY <2>1, RequestMoves DEF Opening, RedisStep
  <1>2. hold[r] = 0 /\ status[r] = "none" /\ ~queued[r]
    BY <1>1 DEF OpeningInv
  <1>3. pc[Request(r)] \notin {"reserved", "committed", "accepted"}
    BY <1>1 DEF Opening, RedisStep
  <1>4. \A q \in Run : r \notin stale[q]
    BY <1>2 DEF StaleInv
  <1> QED BY <1>1, <1>2, <1>3, <1>4, HoldMoves, StatusStep, QueuedMoves

LEMMA OpeningAlways == Spec => []OpeningInv
  <1>1. Init => DispatchInv /\ StaleInv /\ OpeningInv
    BY ProcFacts DEF Init, CreditInit, DispatchInv, StaleInv, OpeningInv
  <1>2. TypeOK /\ DispatchInv /\ StaleInv /\ OpeningInv /\ [Next]_vars
          => DispatchInv' /\ StaleInv' /\ OpeningInv'
    BY DispatchStep, StaleStep, OpeningStep
  <1> QED BY <1>1, <1>2, TypeCorrect, PTL DEF Spec

\* A request answered 402, 409 or 429 holds no credits and leaves no run (seo.py
\* trigger_seo_analysis), for any interleaving with other requests and workers.
THEOREM NothingLeft == Spec => []RefusalLeavesNothing
  <1>1. OpeningInv => RefusalLeavesNothing
    BY DEF OpeningInv, RefusalLeavesNothing
  <1> QED BY <1>1, OpeningAlways, PTL

-----------------------------------------------------------------------------
(***************************************************************************)
(* KeepsThePromise: every step moves the phase of one run along an edge of *)
(* RunCharge, or frees the credits that expire, or moves nothing.          *)
(***************************************************************************)

PhaseInv == TypeOK /\ ChargeInv /\ StaleInv /\ OpeningInv

Phases == [r \in Run |-> PhaseOf(r)]

\* The edges of RunCharge.
Edge(from, to) ==
    \/ from = "new" /\ to = "held"
    \/ from = "held" /\ to = "gone"
    \/ from = "gone" /\ to = "charged"
    \/ from \in {"new", "held", "gone"} /\ to = "over"
    \/ from \in Charging!Phase /\ to = "faulted"

\* The phase of a run, one case each.
PhaseCase(r) ==
    /\ PhaseOf(r) \in Charging!Phase
    /\ faulted[r] => PhaseOf(r) = "faulted"
    /\ ~faulted[r] /\ charged[r] # 0 => PhaseOf(r) = "charged"
    /\ ~faulted[r] /\ charged[r] = 0 /\ hold[r] # 0 => PhaseOf(r) = "held"
    /\ ~faulted[r] /\ charged[r] = 0 /\ hold[r] = 0 =>
         PhaseOf(r) = IF pc[Request(r)] \in Opening THEN "new"
                      ELSE IF pc[Request(r)] \in {"refused", "dead"} THEN "over"
                      ELSE "gone"

LEMMA PhaseCases == PhaseInv => \A r \in Run : PhaseCase(r)
  <1> SUFFICES ASSUME PhaseInv, NEW r \in Run PROVE PhaseCase(r)
    OBVIOUS
  <1> USE DEF PhaseCase
  <1>1. ~faulted[r] => charged[r] \in {0, Cost}
    BY DEF PhaseInv, ChargeInv, OnceInv, ChargeAtMostOnce
  <1>2. Cost # 0 /\ faulted[r] \in BOOLEAN
    BY DEF PhaseInv, TypeOK
  <1>3. CASE faulted[r]
    BY <1>3 DEF PhaseOf, Charging!Phase
  <1>4. CASE ~faulted[r] /\ charged[r] # 0
    BY <1>1, <1>2, <1>4 DEF PhaseOf, Charging!Phase
  <1>5. CASE ~faulted[r] /\ charged[r] = 0 /\ hold[r] # 0
    BY <1>2, <1>5 DEF PhaseOf, Charging!Phase
  <1>6. CASE ~faulted[r] /\ charged[r] = 0 /\ hold[r] = 0
    BY <1>2, <1>6 DEF PhaseOf, Charging!Phase
  <1> QED BY <1>3, <1>4, <1>5, <1>6

\* An edge taken by one run is a step of RunCharge.
LEMMA EdgeIsStep ==
    ASSUME NEW r \in Run, Edge(PhaseOf(r), PhaseOf(r)') \/ PhaseOf(r)' = PhaseOf(r),
           \A q \in Run : q # r => PhaseOf(q)' = PhaseOf(q)
    PROVE  [Charging!Next]_Phases
  <1>1. CASE PhaseOf(r)' = PhaseOf(r)
    BY <1>1 DEF Phases
  <1>2. CASE Edge(PhaseOf(r), PhaseOf(r)')
    <2>1. Phases' = [Phases EXCEPT ![r] = PhaseOf(r)'] /\ Phases[r] = PhaseOf(r)
      BY DEF Phases
    <2>2. \/ Charging!Hold(r) \/ Charging!Free(r) \/ Charging!Charge(r)
          \/ Charging!Close(r) \/ Charging!Fault(r)
      BY <1>2, <2>1 DEF Edge, Phases, Charging!Hold, Charging!Free, Charging!Charge,
         Charging!Close, Charging!Fault, Charging!Move
    <2> QED BY <2>2 DEF Charging!Next
  <1> QED BY <1>1, <1>2

LEMMA PhaseCasesAfter == PhaseInv' => \A r \in Run : PhaseCase(r)'
  <1>1. PhaseInv' => (\A r \in Run : PhaseCase(r))'
    BY PhaseCases, PTL
  <1> QED BY <1>1

\* A run whose credits and request stay in place stays in its phase.
LEMMA PhaseStays ==
    ASSUME PhaseInv, PhaseInv', NEW r \in Run,
           faulted'[r] = faulted[r], charged'[r] = charged[r], hold'[r] = hold[r],
           pc'[Request(r)] \in Opening <=> pc[Request(r)] \in Opening,
           pc'[Request(r)] \in {"refused", "dead"} <=> pc[Request(r)] \in {"refused", "dead"}
    PROVE  PhaseOf(r)' = PhaseOf(r)
  BY PhaseCases, PhaseCasesAfter DEF PhaseCase

LEMMA PhaseInvStep == PhaseInv /\ [Next]_vars => PhaseInv'
  BY StepTypes, ChargeStep, StaleStep, OpeningStep DEF PhaseInv, ChargeInv

LEMMA PhaseRequest ==
    ASSUME PhaseInv, PhaseInv', [Next]_vars, NEW r \in Run,
           Authenticate(r) \/ RequestStep(r) \/ RequestDies(r)
    PROVE  [Charging!Next]_Phases
  <1> USE DEF PhaseInv
  <1>1. Request(r) \in Proc /\ ProcStep(Request(r))
    BY ProcFacts DEF ProcStep
  <1>2. charged' = charged /\ faulted' = faulted
    BY DEF RequestStep, Authenticate, RequestDies, RefuseInProgress, FindStale,
       SupersedeNext, FlushStale, ReserveGranted, ReserveDenied, CommitRun,
       Dispatch, dbVars
  <1>3. \A q \in Run : q # r => pc'[Request(q)] = pc[Request(q)] /\ hold'[q] = hold[q]
    <2>1. \A q \in Run : q # r => hold'[q] = hold[q]
      BY DEF RequestStep, Authenticate, RequestDies, RefuseInProgress, FindStale,
         SupersedeNext, FlushStale, ReserveGranted, Reserve, SetHold, ReserveDenied, Denied,
         CommitRun, Dispatch, creditVars, TypeOK, CreditTypeOK
    <2> QED BY <1>1, <2>1, OthersUnmoved, ProcFacts
  <1>4. \A q \in Run : q # r => PhaseOf(q)' = PhaseOf(q)
    BY <1>2, <1>3, PhaseStays
  <1>5. Edge(PhaseOf(r), PhaseOf(r)') \/ PhaseOf(r)' = PhaseOf(r)
    <2>1. PhaseCase(r) /\ PhaseCase(r)'
      BY PhaseCases, PhaseCasesAfter
    <2>2. CASE faulted[r]
      BY <1>2, <2>1, <2>2 DEF PhaseCase
    <2>3. CASE ~faulted[r] /\ ReserveGranted(r)
      <3>1. pc[Request(r)] = "reserve" /\ hold'[r] = Cost /\ Cost # 0
        BY <2>3 DEF ReserveGranted, Reserve, SetHold, TypeOK, CreditTypeOK
      <3>2. hold[r] = 0 /\ charged[r] = 0
        BY <3>1 DEF OpeningInv, Opening, ChargeInv, DispatchInv
      <3>3. PhaseOf(r) = "new" /\ PhaseOf(r)' = "held"
        BY <1>2, <2>1, <2>3, <3>1, <3>2 DEF PhaseCase, Opening
      <3> QED BY <3>3 DEF Edge
    <2>4. CASE ~faulted[r] /\ ~ReserveGranted(r)
      <3>1. hold' = hold
        BY <2>4 DEF RequestStep, Authenticate, RequestDies, RefuseInProgress,
           FindStale, SupersedeNext, FlushStale, ReserveDenied, Denied, CommitRun,
           Dispatch, creditVars
      <3>2. CASE charged[r] # 0 \/ hold[r] # 0
        BY <1>2, <2>1, <2>4, <3>1, <3>2 DEF PhaseCase
      <3>3. CASE charged[r] = 0 /\ hold[r] = 0
        <4> DEFINE phase == IF pc[Request(r)] \in Opening THEN "new"
                            ELSE IF pc[Request(r)] \in {"refused", "dead"} THEN "over"
                            ELSE "gone"
                   after == IF pc'[Request(r)] \in Opening THEN "new"
                            ELSE IF pc'[Request(r)] \in {"refused", "dead"} THEN "over"
                            ELSE "gone"
        <4>1. PhaseOf(r) = phase /\ PhaseOf(r)' = after
          BY <1>2, <2>1, <2>4, <3>1, <3>3 DEF PhaseCase
        <4>2. after = phase \/ (phase \in {"new", "gone"} /\ after = "over")
          BY <2>4, RequestMoves DEF Opening, RedisStep, RequestFinal
        <4> QED BY <4>1, <4>2 DEF Edge
      <3> QED BY <3>2, <3>3
    <2> QED BY <2>2, <2>3, <2>4 DEF TypeOK
  <1> QED BY <1>4, <1>5, EdgeIsStep

LEMMA PhaseWorker ==
    ASSUME PhaseInv, PhaseInv', NEW d \in Delivery, WorkerStep(d) \/ WorkerDies(d)
    PROVE  [Charging!Next]_Phases
  <1> USE DEF PhaseInv
  <1> DEFINE r == d[1]
  <1>1. r \in Run /\ d \in Proc /\ ProcStep(d)
    BY ProcFacts DEF ProcStep
  <1>2. \A q \in Run : pc'[Request(q)] = pc[Request(q)]
    BY <1>1, OthersUnmoved, ProcFacts
  <1>3. hold' = hold /\ faulted' = faulted
    BY DEF WorkerStep, WorkerDies, Receive, FlushRunning, AnalysisSucceeds, AnalysisFails,
       ReadUser, CommitResult, Acknowledge, creditVars
  <1>4. CASE charged' = charged
    <2>1. \A q \in Run : PhaseOf(q)' = PhaseOf(q)
      BY <1>2, <1>3, <1>4, PhaseStays
    <2> QED BY <1>1, <2>1, EdgeIsStep
  <1>5. CASE charged' # charged
    <2>1. CommitResult(d) /\ mode[d] = "settle"
      BY <1>5 DEF WorkerStep, WorkerDies, Receive, FlushRunning, AnalysisSucceeds,
         AnalysisFails, ReadUser, CommitResult, Acknowledge, dbVars
    <2>2. /\ pc[d] = "commit" /\ HasRead(d)
          /\ charged'[r] = charged[r] + seen[d] /\ charged[r] \in Nat /\ seen[d] \in Nat
          /\ \A q \in Run : q # r => charged'[q] = charged[q]
      BY <1>1, <2>1 DEF CommitResult, HasRead, TypeOK
    <2>3. \A q \in Run : q # r => PhaseOf(q)' = PhaseOf(q)
      BY <1>2, <1>3, <2>2, PhaseStays
    <2>4. CASE faulted[r] \/ seen[d] = 0
      <3>1. PhaseOf(r)' = PhaseOf(r)
        BY <1>1, <1>2, <1>3, <2>2, <2>4, PhaseStays, PhaseCases, PhaseCasesAfter DEF PhaseCase
      <3> QED BY <1>1, <2>3, <3>1, EdgeIsStep
    <2>5. CASE ~faulted[r] /\ seen[d] # 0
      <3>1. charged[r] = 0 /\ hold[r] = 0 /\ charged'[r] # 0
        BY <2>2, <2>5 DEF ChargeInv, OnceInv
      <3>2. pc[Request(r)] = "accepted"
        BY <2>2 DEF ChargeInv, DispatchInv
      <3>3. PhaseOf(r) = "gone" /\ PhaseOf(r)' = "charged"
        BY <1>1, <1>3, <2>5, <3>1, <3>2, PhaseCases, PhaseCasesAfter
           DEF PhaseCase, Opening, RedisStep
      <3> QED BY <1>1, <2>3, <3>3, EdgeIsStep DEF Edge
    <2> QED BY <2>4, <2>5
  <1> QED BY <1>4, <1>5

LEMMA PhaseRelease ==
    ASSUME PhaseInv, PhaseInv', NEW p \in Proc, ReleaseStep(p)
    PROVE  [Charging!Next]_Phases
  <1> USE DEF PhaseInv
  <1> PICK v \in Run : v = victim[p]
    BY DEF TypeOK
  <1>1. v \in Run /\ charged' = charged
    BY DEF ReleaseStep, GetHold, Refund, Decrement, Delete, RedisRaises, dbVars
  <1>2. ASSUME NEW q \in Run
        PROVE  /\ pc'[Request(q)] \in Opening <=> pc[Request(q)] \in Opening
               /\ pc'[Request(q)] \in {"refused", "dead"}
                    <=> pc[Request(q)] \in {"refused", "dead"}
    <2>1. CASE p = Request(q)
      <3>1. /\ pc[p] \in RedisStep
            /\ \E l \in RedisStep \cup {"supersede"} : Goto(p, l)
        BY <2>1, ProcFacts DEF ReleaseStep, GetHold, Refund, Decrement, Delete, RedisRaises,
           AfterRelease, RedisStep
      <3> QED BY <2>1, <3>1, ProcFacts DEF TypeOK, Goto, Opening, RedisStep
    <2>2. CASE p # Request(q)
      BY <2>2, OthersUnmoved, ProcFacts DEF ProcStep
    <2> QED BY <2>1, <2>2
  <1>3. /\ \A q \in Run : q # v => hold'[q] = hold[q] /\ faulted'[q] = faulted[q]
        /\ faulted'[v] = faulted[v] \/ faulted'[v]
        /\ hold'[v] \in {hold[v], 0}
    BY <1>1 DEF ReleaseStep, GetHold, Refund, RefundDaily, Decrement, DecrReserved, Delete,
       DeleteHold, RedisRaises, creditVars, TypeOK, CreditTypeOK
  <1>4. \A q \in Run : q # v => PhaseOf(q)' = PhaseOf(q)
    BY <1>1, <1>2, <1>3, PhaseStays
  <1>5. PhaseCase(v) /\ PhaseCase(v)'
    BY <1>1, PhaseCases, PhaseCasesAfter
  <1>6. CASE faulted'[v]
    BY <1>1, <1>4, <1>5, <1>6, EdgeIsStep DEF PhaseCase, Edge
  <1>7. CASE faulted'[v] = faulted[v] /\ hold'[v] = hold[v]
    BY <1>1, <1>2, <1>4, <1>7, PhaseStays, EdgeIsStep
  <1>8. CASE ~faulted'[v] /\ faulted'[v] = faulted[v] /\ hold[v] # 0 /\ hold'[v] = 0
    <2>1. charged[v] = 0 /\ pc[Request(v)] \notin Opening
      BY <1>1, <1>8 DEF ChargeInv, OnceInv, OpeningInv
    <2>2. PhaseOf(v) = "held" /\ PhaseOf(v)' \in {"gone", "over"}
      BY <1>1, <1>2, <1>5, <1>8, <2>1 DEF PhaseCase
    <2> QED BY <1>1, <1>4, <2>2, EdgeIsStep DEF Edge
  <1> QED BY <1>3, <1>6, <1>7, <1>8

LEMMA PhaseOther ==
    ASSUME PhaseInv, PhaseInv', OtherStep
    PROVE  [Charging!Next]_Phases
  <1> USE DEF PhaseInv
  <1>1. pc' = pc /\ charged' = charged /\ faulted' = faulted
    BY OtherStepUnmoved
  <1>2. \A r \in Run : hold'[r] \in {hold[r], 0}
    BY OtherStepUnmoved DEF Tick, PassTime
  <1> DEFINE S == {r \in Run : hold'[r] # hold[r] /\ PhaseOf(r) = "held"}
  <1>3. ASSUME NEW r \in Run
        PROVE  /\ r \in S => PhaseOf(r)' \in {"gone", "over"}
               /\ r \notin S => PhaseOf(r)' = PhaseOf(r)
    <2>1. PhaseCase(r) /\ PhaseCase(r)'
      BY PhaseCases, PhaseCasesAfter
    <2>2. CASE hold'[r] = hold[r]
      BY <1>1, <2>2, PhaseStays
    <2>3. CASE hold'[r] # hold[r]
      <3>1. hold[r] # 0 /\ hold'[r] = 0 /\ pc[Request(r)] \notin Opening
        BY <1>2, <2>3 DEF OpeningInv
      <3>2. faulted[r] \/ charged[r] = 0
        BY <3>1 DEF ChargeInv, OnceInv
      <3> QED BY <1>1, <2>1, <2>3, <3>1, <3>2 DEF PhaseCase
    <2> QED BY <2>2, <2>3
  <1>4. S \in SUBSET {r \in Run : Phases[r] = "held"}
    BY DEF Phases
  <1>5. Phases' \in {f \in [Run -> Charging!Phase] :
                       \A r \in Run : IF r \in S THEN f[r] \in {"gone", "over"}
                                      ELSE f[r] = Phases[r]}
    <2>1. Phases' \in [Run -> Charging!Phase]
      BY PhaseCasesAfter DEF Phases, PhaseCase
    <2>2. \A r \in Run : Phases'[r] = PhaseOf(r)' /\ Phases[r] = PhaseOf(r)
      BY DEF Phases
    <2> QED BY <1>3, <2>1, <2>2
  <1>6. Charging!Expire
    BY <1>4, <1>5 DEF Charging!Expire, Phases
  <1> QED BY <1>6 DEF Charging!Next

\* Seen through its phase every run behaves as RunCharge says: held at most
\* once, charged at most once and only when its hold is gone, never after a
\* refusal (credit_service.py, tasks/seo.py), for any number of runs,
\* deliveries and stores.
THEOREM KeepsPromise == Spec => KeepsThePromise
  <1>1. Init => Charging!Init
    <2> SUFFICES ASSUME Init PROVE Phases = [r \in Run |-> "new"]
      BY DEF Charging!Init, Phases
    <2>1. \A r \in Run : PhaseOf(r) = "new"
      BY ProcFacts DEF Init, CreditInit, PhaseOf, Opening
    <2> QED BY <2>1 DEF Phases
  <1>2. Spec => []PhaseInv
    <2>1. Init => PhaseInv
      <3>1. Init => ChargeInv
        BY ProcFacts DEF Init, CreditInit, ChargeInv, LockInv, DispatchInv,
           VictimInv, HoldInv, OnceInv, ChargeAtMostOnce, HasRead, Analysing,
           RedisStep
      <3>2. Init => StaleInv /\ OpeningInv
        BY ProcFacts DEF Init, CreditInit, StaleInv, OpeningInv
      <3> QED BY <3>1, <3>2, InitTypes DEF PhaseInv
    <2>2. PhaseInv /\ [Next]_vars => PhaseInv'
      BY PhaseInvStep
    <2> QED BY <2>1, <2>2, PTL DEF Spec
  <1>3. PhaseInv /\ PhaseInv' /\ [Next]_vars => [Charging!Next]_Phases
    BY PhaseRequest, PhaseWorker, PhaseRelease, PhaseOther DEF Next, OtherStep, AllDone
  <1> QED BY <1>1, <1>2, <1>3, PTL DEF Spec, KeepsThePromise, Charging!Spec, Phases
=============================================================================
