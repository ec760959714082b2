------------------------- MODULE PaddleWebhookProofs -------------------------
(***************************************************************************)
(* Theorems about PaddleWebhook, for every set of events, deliveries,      *)
(* servers and charges: type correctness, and that an event that never     *)
(* failed is applied exactly once if it is recorded, and never otherwise.  *)
(***************************************************************************)
EXTENDS PaddleWebhook, TLAPS

USE PaddleAssumption

-----------------------------------------------------------------------------
(***************************************************************************)
(* The handlers map rows to rows and never take credits away.              *)
(***************************************************************************)

LEMMA GrantType ==
    ASSUME NEW u \in UserRow, NEW a \in Int
    PROVE  Grant(u, a) \in UserRow /\ Grant(u, a).balance >= u.balance
  BY DEF Grant, UserRow

LEMMA ActivatedType ==
    ASSUME NEW u \in UserRow
    PROVE  Activated(u) \in UserRow /\ Activated(u).balance = u.balance
  BY DEF Activated, UserRow, Status

LEMMA CreatedType ==
    ASSUME NEW e \in Event, NEW u \in UserRow
    PROVE  Created(e, u) \in UserRow /\ Created(e, u).balance >= u.balance
  <1> DEFINE active == Activated(u)
             onPlan == [active EXCEPT !.tier = e.plan]
  <1>1. active \in UserRow /\ active.balance = u.balance
    BY ActivatedType
  <1>2. CASE e.plan = NoPlan
    <2>1. Created(e, u) = active
      BY <1>2 DEF Created
    <2> HIDE DEF active
    <2>2. active.balance >= u.balance
      BY <1>1 DEF UserRow
    <2>3. QED
      BY <1>1, <2>1, <2>2
  <1>3. CASE e.plan # NoPlan
    <2>1. e.plan \in Plan /\ Monthly[e.plan] \in Int
      BY <1>3
    <2>2. onPlan \in UserRow /\ onPlan.balance = u.balance
      BY <1>1, <2>1 DEF UserRow
    <2>3. Created(e, u) = Grant(onPlan, Monthly[e.plan])
      BY <1>3 DEF Created
    <2> HIDE DEF onPlan
    <2>4. QED
      BY <2>1, <2>2, <2>3, GrantType
  <1>4. QED
    BY <1>2, <1>3

LEMMA UpdatedType ==
    ASSUME NEW e \in Event, NEW u \in UserRow
    PROVE  Updated(e, u) \in UserRow /\ Updated(e, u).balance >= u.balance
  <1> DEFINE onPlan == [u EXCEPT !.tier = e.plan]
  <1>1. CASE e.plan \in {NoPlan, u.tier}
    BY <1>1 DEF Updated, UserRow
  <1>2. CASE e.plan \notin {NoPlan, u.tier}
    <2>1. e.plan \in Plan /\ Monthly[e.plan] - Monthly[u.tier] \in Int
      BY <1>2 DEF UserRow
    <2>2. onPlan \in UserRow /\ onPlan.balance = u.balance
      BY <2>1 DEF UserRow
    <2>3. Updated(e, u) = Grant(onPlan, Monthly[e.plan] - Monthly[u.tier])
      BY <1>2 DEF Updated
    <2> HIDE DEF onPlan
    <2>4. QED
      BY <2>1, <2>2, <2>3, GrantType
  <1>3. QED
    BY <1>1, <1>2

LEMMA AfterType ==
    ASSUME NEW e \in Event, NEW u \in UserRow
    PROVE  After(e, u) \in UserRow /\ After(e, u).balance >= u.balance
  <1>1. \A s \in Status : /\ [u EXCEPT !.status = s] \in UserRow
                          /\ [u EXCEPT !.status = s].balance >= u.balance
    BY DEF UserRow
  <1>2. u.balance >= u.balance
    BY DEF UserRow
  <1>3. Grant(u, e.credits) \in UserRow /\ Grant(u, e.credits).balance >= u.balance
    BY GrantType
  <1>4. Monthly[u.tier] \in Int
    BY DEF UserRow
  <1> DEFINE paid == Grant(u, Monthly[u.tier])
  <1>5. paid \in UserRow /\ paid.balance >= u.balance
    BY <1>4, GrantType
  <1>6. /\ [paid EXCEPT !.status = "active"] \in UserRow
        /\ [paid EXCEPT !.status = "active"].balance >= u.balance
    <2> HIDE DEF paid
    <2>1. QED
      BY <1>5 DEF UserRow, Status
  <1>7. e.type \in EventType
    OBVIOUS
  <1>8. CASE ~Resolves(e, u)
    <2>1. After(e, u) = u
      BY <1>8 DEF After
    <2>2. QED
      BY <1>2, <2>1
  <1>9. CASE Resolves(e, u)
    <2>1. CASE e.type \in {"created", "updated"}
      BY <1>9, <2>1, CreatedType, UpdatedType DEF After
    <2>2. CASE e.type \in {"cancelled", "paused", "resumed", "payment_failed"}
      <3>1. \E s \in Status : After(e, u) = [u EXCEPT !.status = s]
        BY <1>9, <2>2 DEF After, Status
      <3>2. QED
        BY <3>1, <1>1
    <2>3. CASE e.type = "topup"
      BY <1>9, <2>3, <1>3 DEF After
    <2>4. CASE e.type = "renewal"
      <3>1. After(e, u) = [paid EXCEPT !.status = "active"]
        BY <1>9, <2>4 DEF After
      <3>2. QED
        BY <3>1, <1>6
    <2>5. QED
      BY <1>7, <2>1, <2>2, <2>3, <2>4 DEF EventType
  <1>10. QED
    BY <1>8, <1>9

LEMMA BegunType ==
    ASSUME NEW e \in Event, NEW u \in UserRow, NEW w \in Begun(e, u)
    PROVE  w \in UserRow /\ w.balance >= u.balance
  <1>1. w = u \/ w = Activated(u)
    BY DEF Begun
  <1>2. w \in UserRow /\ w.balance = u.balance
    BY <1>1, ActivatedType
  <1>3. QED
    BY <1>2 DEF UserRow

LEMMA MergedType ==
    ASSUME TypeOK, NEW d \in Delivery
    PROVE  Merged(d) \in UserRow
  <1>1. user \in UserRow /\ new[d] \in UserRow /\ seen[d] \in UserRow
    BY DEF TypeOK
  <1>2. QED
    BY <1>1 DEF Merged, UserRow

LEMMA UnlockTypes ==
    ASSUME TypeOK, NEW d \in Delivery, Unlock(d)
    PROVE  /\ userLock' \in Delivery \cup {Nobody}
           /\ eventLock' \in [Event -> Delivery \cup {Nobody}]
  BY DEF TypeOK, Unlock

LEMMA GotoType ==
    ASSUME TypeOK, NEW d \in Delivery, NEW l \in PC, Goto(d, l)
    PROVE  pc' \in [Delivery -> PC]
  BY DEF TypeOK, Goto

LEMMA LeaveLoopType ==
    ASSUME TypeOK, NEW d \in Delivery, LeaveLoop(d)
    PROVE  loop' \in [Server -> Delivery \cup {Nobody}]
  BY DEF TypeOK, LeaveLoop

-----------------------------------------------------------------------------
(***************************************************************************)
(* Type correctness, with GrantsOnly: what a delivery adds to the ledger   *)
(* is not negative.                                                        *)
(***************************************************************************)

TypeInv == TypeOK /\ GrantsOnly

LEMMA ForgetTypes ==
    ASSUME TypeInv, NEW D \in SUBSET Delivery, Forget(D)
    PROVE  /\ seenRecord' \in [Delivery -> Record]
           /\ seen' \in [Delivery -> UserRow] /\ new' \in [Delivery -> UserRow]
           /\ GrantsOnly'
  <1>1. NewUser \in UserRow /\ NewUser.balance >= NewUser.balance
    BY DEF NewUser, UserRow, Status
  <1> HIDE DEF NewUser
  <1>2. ASSUME NEW d \in Delivery
        PROVE  new'[d].balance >= seen'[d].balance
    <2>1. CASE d \in D
      BY <1>1, <2>1 DEF Forget
    <2>2. CASE d \notin D
      BY <2>2 DEF Forget, TypeInv, GrantsOnly
    <2>3. QED
      BY <2>1, <2>2
  <1>3. QED
    BY <1>1, <1>2 DEF Forget, TypeInv, TypeOK, Record, GrantsOnly

LEMMA FlushTypes ==
    ASSUME TypeInv, NEW d \in Delivery,
           Receive(d) \/ CheckRecord(d) \/ Handle(d) \/ RecordFailure(d)
           \/ FlushUser(d) \/ FlushEvent(d) \/ StartCommit(d)
    PROVE  TypeInv'
  <1> USE DEF TypeInv, rowVars, lockVars, deliveryVars, chargeVars
  <1>e. event[d] \in Event /\ server[d] \in Server
    BY DEF TypeOK
  <1>1. CASE Receive(d)
    <2>1. pc' \in [Delivery -> PC]
      BY <1>1, GotoType DEF Receive, PC
    <2>2. QED
      BY <1>1, <2>1 DEF Receive, TypeOK, GrantsOnly
  <1>2. CASE CheckRecord(d)
    <2>1. pc' \in [Delivery -> PC]
      BY <1>2, GotoType DEF CheckRecord, PC, InHandler, Ended
    <2>2. seenRecord' \in [Delivery -> Record]
      BY <1>2, <1>e DEF CheckRecord, TypeOK
    <2>3. loop' \in [Server -> Delivery \cup {Nobody}]
      BY <1>2, <1>e DEF CheckRecord, TypeOK
    <2>4. QED
      BY <1>2, <2>1, <2>2, <2>3 DEF CheckRecord, TypeOK, GrantsOnly
  <1>3. CASE Handle(d)
    <2>1. pc' \in [Delivery -> PC]
      BY <1>3, GotoType DEF Handle, PC, InHandler
    <2>2. user \in UserRow /\ After(event[d], user) \in UserRow
          /\ After(event[d], user).balance >= user.balance
      BY <1>e, AfterType DEF TypeOK
    <2>3. PICK w \in UserRow : /\ seen' = [seen EXCEPT ![d] = user]
                               /\ new' = [new EXCEPT ![d] = w]
                               /\ w.balance >= user.balance
      <3>1. \A w \in Begun(event[d], user) : w \in UserRow /\ w.balance >= user.balance
        BY <1>e, <2>2, BegunType
      <3>2. QED
        BY <1>3, <2>2, <3>1 DEF Handle
    <2>4. seen' \in [Delivery -> UserRow] /\ new' \in [Delivery -> UserRow]
      BY <2>2, <2>3 DEF TypeOK
    <2>5. GrantsOnly'
      BY <2>3 DEF TypeOK, GrantsOnly
    <2>6. QED
      BY <1>3, <2>1, <2>4, <2>5 DEF Handle, TypeOK
  <1>4. CASE RecordFailure(d)
    <2>1. pc' \in [Delivery -> PC]
      BY <1>4, GotoType DEF RecordFailure, PC, Ended
    <2>2. record' \in [Event -> Record] /\ failed' \subseteq Event
      BY <1>4, <1>e DEF RecordFailure, TypeOK, Record
    <2>3. user' \in UserRow
      BY <1>4, MergedType DEF RecordFailure, TypeOK
    <2>4. /\ userLock' \in Delivery \cup {Nobody}
          /\ eventLock' \in [Event -> Delivery \cup {Nobody}]
          /\ loop' \in [Server -> Delivery \cup {Nobody}]
      BY <1>4, UnlockTypes, LeaveLoopType DEF RecordFailure
    <2>5. Forget({d})
      BY <1>4 DEF RecordFailure
    <2>6. QED
      BY <1>4, <2>1, <2>2, <2>3, <2>4, <2>5, ForgetTypes DEF RecordFailure, TypeOK
  <1>5. CASE FlushUser(d)
    <2>1. pc' \in [Delivery -> PC]
      BY <1>5, GotoType DEF FlushUser, PC, InHandler
    <2>2. QED
      BY <1>5, <2>1 DEF FlushUser, TypeOK, GrantsOnly
  <1>6. CASE FlushEvent(d)
    <2>1. pc' \in [Delivery -> PC]
      BY <1>6, GotoType DEF FlushEvent, PC, Open, Ended
    <2>2. /\ userLock' \in Delivery \cup {Nobody}
          /\ eventLock' \in [Event -> Delivery \cup {Nobody}]
      BY <1>6, UnlockTypes DEF FlushEvent, TypeOK
    <2>3. /\ seenRecord' \in [Delivery -> Record]
          /\ seen' \in [Delivery -> UserRow] /\ new' \in [Delivery -> UserRow]
          /\ GrantsOnly'
      <3>1. CASE KeyTaken(d)
        BY <1>6, <3>1, ForgetTypes DEF FlushEvent
      <3>2. CASE ~KeyTaken(d)
        BY <1>6, <3>2 DEF FlushEvent, TypeOK, GrantsOnly
      <3>3. QED
        BY <3>1, <3>2
    <2>4. QED
      BY <1>6, <2>1, <2>2, <2>3, LeaveLoopType DEF FlushEvent, TypeOK
  <1>7. CASE StartCommit(d)
    <2>1. pc' \in [Delivery -> PC]
      BY <1>7, GotoType DEF StartCommit, PC, Open
    <2>2. QED
      BY <1>7, <2>1 DEF StartCommit, TypeOK, GrantsOnly
  <1>8. QED
    BY <1>1, <1>2, <1>3, <1>4, <1>5, <1>6, <1>7

LEMMA CommitTypes ==
    ASSUME TypeInv, NEW d \in Delivery, Commit(d)
    PROVE  TypeInv'
  <1> USE DEF TypeInv, rowVars, lockVars, deliveryVars, chargeVars
  <1>1. pc' \in [Delivery -> PC]
    BY GotoType DEF Commit, PC, Ended
  <1>2. user' \in UserRow
    BY MergedType DEF Commit
  <1>3. Amount(d) \in Nat
    BY DEF Amount, GrantsOnly, TypeOK, UserRow
  <1>4. /\ ledger' \in [Event -> Nat] /\ applied' \in [Event -> Nat]
        /\ record' \in [Event -> Record]
    BY <1>3 DEF Commit, TypeOK, Record
  <1>5. Forget({d})
    BY DEF Commit
  <1>6. QED
    BY <1>1, <1>2, <1>4, <1>5, UnlockTypes, ForgetTypes DEF Commit, TypeOK

LEMMA OtherTypes ==
    ASSUME TypeInv,
           (\E c \in Charge : ChargeStep(c)) \/ (\E s \in Server : ServerDies(s))
    PROVE  TypeInv'
  <1> USE DEF TypeInv, rowVars, lockVars, deliveryVars, chargeVars
  <1>1. ASSUME NEW c \in Charge, LoadBalance(c)
        PROVE  TypeInv'
    BY <1>1 DEF LoadBalance, TypeOK, GrantsOnly, UserRow
  <1>2. ASSUME NEW c \in Charge, Settle(c)
        PROVE  TypeInv'
    <2> DEFINE left == IF seenBalance[c] > RunCost THEN seenBalance[c] - RunCost ELSE 0
    <2>1. left \in Nat /\ seenBalance[c] - left \in Nat
      BY DEF TypeOK
    <2>2. user' = IF left = seenBalance[c] THEN user ELSE [user EXCEPT !.balance = left]
      BY <1>2 DEF Settle
    <2>3. charged' = charged + (seenBalance[c] - left)
      BY <1>2 DEF Settle
    <2> HIDE DEF left
    <2>4. user' \in UserRow
      BY <2>1, <2>2 DEF TypeOK, UserRow
    <2>5. charged' \in Nat
      BY <2>1, <2>3 DEF TypeOK
    <2>6. QED
      BY <1>2, <2>4, <2>5 DEF Settle, TypeOK, GrantsOnly
  <1>3. ASSUME NEW s \in Server, ServerDies(s)
        PROVE  TypeInv'
    <2>1. pc' \in [Delivery -> PC]
      BY <1>3 DEF ServerDies, TypeOK, PC, Ended
    <2>2. PICK D \in SUBSET Delivery : Forget(D)
      BY <1>3 DEF ServerDies
    <2>3. QED
      BY <1>3, <2>1, <2>2, ForgetTypes DEF ServerDies, TypeOK
  <1>4. QED
    BY <1>1, <1>2, <1>3 DEF ChargeStep

LEMMA TypeInvInvariant == Spec => []TypeInv
  <1>1. Init => TypeInv
    <2>1. NewUser \in UserRow /\ NewUser.balance >= NewUser.balance
      BY DEF NewUser, UserRow, Status
    <2>2. (CHOOSE e \in Event : TRUE) \in Event /\ (CHOOSE s \in Server : TRUE) \in Server
      OBVIOUS
    <2>3. ASSUME Init
          PROVE  event \in [Delivery -> Event] /\ server \in [Delivery -> Server]
      BY <2>2, <2>3 DEF Init
    <2>4. ASSUME Init
          PROVE  GrantsOnly /\ seen \in [Delivery -> UserRow] /\ new \in [Delivery -> UserRow]
      BY <2>1, <2>4 DEF Init, GrantsOnly
    <2>5. ASSUME Init
          PROVE  /\ record \in [Event -> Record] /\ ledger \in [Event -> Nat]
                 /\ applied \in [Event -> Nat] /\ failed \subseteq Event
                 /\ userLock \in Delivery \cup {Nobody}
                 /\ eventLock \in [Event -> Delivery \cup {Nobody}]
                 /\ loop \in [Server -> Delivery \cup {Nobody}]
      BY <2>5 DEF Init, Record
    <2>6. ASSUME Init
          PROVE  /\ pc \in [Delivery -> PC] /\ seenRecord \in [Delivery -> Record]
                 /\ task \in [Charge -> {"idle", "read", "done"}]
                 /\ seenBalance \in [Charge -> Nat] /\ charged \in Nat
                 /\ user \in UserRow
      BY <2>1, <2>6 DEF Init, Record, PC
    <2>7. QED
      BY <2>3, <2>4, <2>5, <2>6 DEF TypeInv, TypeOK
  <1>2. TypeInv /\ [Next]_vars => TypeInv'
    <2> SUFFICES ASSUME TypeInv, [Next]_vars PROVE TypeInv'
      OBVIOUS
    <2>1. CASE UNCHANGED vars
      BY <2>1 DEF vars, rowVars, lockVars, deliveryVars, chargeVars, TypeInv, TypeOK,
         GrantsOnly
    <2>2. ASSUME NEW d \in Delivery, Receive(d) \/ DeliveryStep(d)
          PROVE  TypeInv'
      BY <2>2, FlushTypes, CommitTypes DEF DeliveryStep
    <2>3. QED
      BY <2>1, <2>2, OtherTypes DEF Next, AllEnded
  <1>3. QED
    BY <1>1, <1>2, PTL DEF Spec

\* Every variable keeps its type: no handler and no charge takes the balance
\* below zero, and the ledger only receives.
THEOREM TypeCorrect == Spec => []TypeOK
  <1>1. TypeInv => TypeOK
    BY DEF TypeInv
  <1>2. QED
    BY <1>1, TypeInvInvariant, PTL

-----------------------------------------------------------------------------
(***************************************************************************)
(* Applied once.  The flush of a first delivery takes the event's row for  *)
(* its transaction, and finds it absent; so when it commits, no other      *)
(* delivery has committed the event, and when it has, none will.           *)
(***************************************************************************)

LEMMA OnceInit == Init => OnceInv
  BY DEF Init, OnceInv, OpenHasRow, FirstSeenAbsent, NotFailedUnrecorded, AppliedOnce,
     Open, InHandler

\* What the deliveries other than d are doing stays.
OthersStay(d) ==
    \A q \in Delivery \ {d} :
        /\ pc'[q] = pc[q] /\ event'[q] = event[q] /\ seenRecord'[q] = seenRecord[q]
        /\ \A e \in Event : eventLock[e] = q => eventLock'[e] = q

\* Steps that commit nothing.
LEMMA OnceStep ==
    ASSUME TypeOK, OnceInv, NEW d \in Delivery,
           Receive(d) \/ CheckRecord(d) \/ Handle(d) \/ FlushUser(d) \/ FlushEvent(d)
           \/ StartCommit(d)
    PROVE  OnceInv'
  <1> USE DEF rowVars, lockVars, deliveryVars, chargeVars, Goto
  <1>e. event[d] \in Event
    BY DEF TypeOK
  <1>1. record' = record /\ applied' = applied /\ failed' = failed
    BY DEF Receive, CheckRecord, Handle, FlushUser, FlushEvent, StartCommit
  <1>2. OthersStay(d)
    <2>1. \A q \in Delivery \ {d} :
            pc'[q] = pc[q] /\ event'[q] = event[q] /\ seenRecord'[q] = seenRecord[q]
      BY DEF Receive, CheckRecord, Handle, FlushUser, FlushEvent, StartCommit, Forget, TypeOK
    <2>2. ASSUME NEW q \in Delivery \ {d}, NEW e \in Event, eventLock[e] = q
          PROVE  eventLock'[e] = q
      <3>1. CASE FlushEvent(d)
        <4>1. q # Nobody
          OBVIOUS
        <4>2. e = event[d] => ~EventRowFree(d)
          BY <2>2, <4>1 DEF EventRowFree
        <4>3. QED
          BY <2>2, <3>1, <4>2 DEF FlushEvent, Unlock, TypeOK
      <3>2. CASE ~FlushEvent(d)
        BY <2>2, <3>2 DEF Receive, CheckRecord, Handle, FlushUser, StartCommit
      <3>3. QED
        BY <3>1, <3>2
    <2>3. QED
      BY <2>1, <2>2 DEF OthersStay
  <1>3. NotFailedUnrecorded' /\ AppliedOnce'
    BY <1>1 DEF OnceInv, NotFailedUnrecorded, AppliedOnce
  <1>4. pc'[d] \in Open => eventLock'[event'[d]] = d
    BY <1>e DEF Receive, CheckRecord, Handle, FlushUser, FlushEvent, StartCommit, TypeOK,
       Open, InHandler, Ended, OnceInv, OpenHasRow
  <1>5. event'[d] \notin failed /\ pc'[d] \in InHandler => seenRecord'[d] = "none"
    <2>1. CASE CheckRecord(d)
      BY <2>1, <1>e DEF CheckRecord, TypeOK, InHandler, Ended, Record, OnceInv,
         NotFailedUnrecorded
    <2>2. CASE Receive(d) \/ StartCommit(d) \/ FlushEvent(d)
      BY <2>2 DEF Receive, StartCommit, FlushEvent, TypeOK, InHandler, Open, Ended
    <2>3. CASE Handle(d) \/ FlushUser(d)
      BY <2>3 DEF Handle, FlushUser, InHandler, OnceInv, FirstSeenAbsent
    <2>4. QED
      BY <2>1, <2>2, <2>3
  <1>6. event'[d] \notin failed /\ pc'[d] \in Open => record[event'[d]] = "none"
    <2>1. CASE FlushEvent(d)
      BY <2>1 DEF FlushEvent, KeyTaken, InHandler, TypeOK, Ended, Open, OnceInv,
         FirstSeenAbsent
    <2>2. CASE StartCommit(d)
      BY <2>2 DEF StartCommit, Open, OnceInv, FirstSeenAbsent
    <2>3. CASE Receive(d) \/ CheckRecord(d) \/ Handle(d) \/ FlushUser(d)
      BY <2>3 DEF Receive, CheckRecord, Handle, FlushUser, TypeOK, Open, InHandler, Ended
    <2>4. QED
      BY <2>1, <2>2, <2>3
  <1>7. OpenHasRow'
    BY <1>2, <1>4 DEF OthersStay, OnceInv, OpenHasRow, TypeOK
  <1>8. FirstSeenAbsent'
    BY <1>1, <1>2, <1>5, <1>6 DEF OthersStay, OnceInv, FirstSeenAbsent
  <1>9. QED
    BY <1>3, <1>7, <1>8 DEF OnceInv

LEMMA OnceFailure ==
    ASSUME TypeOK, OnceInv, NEW d \in Delivery, RecordFailure(d)
    PROVE  OnceInv'
  <1> USE DEF rowVars, lockVars, deliveryVars, chargeVars, Goto, RecordFailure
  <1>e. event[d] \in Event
    BY DEF TypeOK
  <1>1. \A e \in Event \ failed' : e \notin failed /\ record'[e] = record[e]
    BY <1>e DEF TypeOK, KeyTaken
  <1>2. NotFailedUnrecorded' /\ AppliedOnce'
    BY <1>1 DEF OnceInv, NotFailedUnrecorded, AppliedOnce
  <1>3. pc'[d] = "error" /\ \A q \in Delivery : q # d => pc'[q] = pc[q]
    BY DEF TypeOK
  <1>4. OthersStay(d)
    BY <1>3 DEF OthersStay, Unlock, Forget
  <1>5. OpenHasRow' /\ FirstSeenAbsent'
    BY <1>1, <1>3, <1>4 DEF OthersStay, OnceInv, OpenHasRow, FirstSeenAbsent, Open,
       InHandler, TypeOK
  <1>6. QED
    BY <1>2, <1>4, <1>5 DEF OnceInv

LEMMA OnceCommit ==
    ASSUME TypeOK, OnceInv, NEW d \in Delivery, Commit(d)
    PROVE  OnceInv'
  <1> USE DEF rowVars, lockVars, deliveryVars, chargeVars, Goto, Commit
  <1>e. event[d] \in Event
    BY DEF TypeOK
  <1>1. /\ pc'[d] = "ok" /\ \A q \in Delivery : q # d => pc'[q] = pc[q]
        /\ \A q \in Delivery : q # d => seenRecord'[q] = seenRecord[q]
        /\ event' = event /\ failed' = failed
    BY DEF TypeOK, Forget
  <1>2. \A q \in Delivery, e \in Event : q # d /\ eventLock[e] = q => eventLock'[e] = q
    BY DEF Unlock
  <1>3. \A e \in Event : e # event[d] => record'[e] = record[e] /\ applied'[e] = applied[e]
    BY DEF TypeOK
  <1>4. record'[event[d]] = "done" /\ applied'[event[d]] = applied[event[d]] + 1
    BY <1>e DEF TypeOK
  <1>5. event[d] \notin failed => applied[event[d]] = 0
    BY <1>e DEF OnceInv, FirstSeenAbsent, AppliedOnce, Open
  <1>6. NotFailedUnrecorded' /\ AppliedOnce'
    BY <1>1, <1>3, <1>4, <1>5 DEF OnceInv, NotFailedUnrecorded, AppliedOnce
  <1>7. OpenHasRow'
    BY <1>1, <1>2 DEF OnceInv, OpenHasRow, Open, TypeOK
  <1>8. FirstSeenAbsent'
    <2>1. ASSUME NEW q \in Delivery, event[q] \notin failed, pc'[q] \in Open
          PROVE  record'[event[q]] = "none"
      <3>1. q # d /\ pc[q] \in Open
        BY <1>1, <2>1 DEF Open
      <3>2. eventLock[event[q]] = q /\ eventLock[event[d]] = d
        BY <3>1 DEF OnceInv, OpenHasRow, Open
      <3>3. event[q] # event[d] /\ event[q] \in Event
        BY <3>1, <3>2 DEF TypeOK
      <3>4. QED
        BY <1>3, <2>1, <3>1, <3>3 DEF OnceInv, FirstSeenAbsent
    <2>2. ASSUME NEW q \in Delivery, event[q] \notin failed, pc'[q] \in InHandler
          PROVE  seenRecord'[q] = "none"
      BY <1>1, <2>2 DEF OnceInv, FirstSeenAbsent, InHandler
    <2>3. QED
      BY <1>1, <2>1, <2>2 DEF FirstSeenAbsent
  <1>9. QED
    BY <1>6, <1>7, <1>8 DEF OnceInv

LEMMA OnceOther ==
    ASSUME TypeOK, OnceInv,
           (\E c \in Charge : ChargeStep(c)) \/ (\E s \in Server : ServerDies(s))
    PROVE  OnceInv'
  <1> USE DEF rowVars, lockVars, deliveryVars, chargeVars, OnceInv, OpenHasRow,
          FirstSeenAbsent, NotFailedUnrecorded, AppliedOnce
  <1>1. ASSUME NEW c \in Charge, ChargeStep(c)
        PROVE  OnceInv'
    BY <1>1 DEF ChargeStep, LoadBalance, Settle
  <1>2. ASSUME NEW s \in Server, ServerDies(s)
        PROVE  OnceInv'
    <2>1. \A d \in Delivery : pc'[d] \in Open \cup InHandler =>
            /\ pc'[d] = pc[d] /\ seenRecord'[d] = seenRecord[d]
            /\ \A e \in Event : eventLock[e] = d => eventLock'[e] = d
      BY <1>2 DEF ServerDies, Forget, TypeOK, Open, InHandler, Ended
    <2>2. QED
      BY <1>2, <2>1 DEF ServerDies, TypeOK
  <1>3. QED
    BY <1>1, <1>2

\* An event that never failed is applied exactly when it is recorded, and then
\* once, whatever deliveries and servers race for it.
THEOREM Once == Spec => []OnceInv
  <1>1. TypeOK /\ OnceInv /\ [Next]_vars => OnceInv'
    <2> SUFFICES ASSUME TypeOK, OnceInv, [Next]_vars PROVE OnceInv'
      OBVIOUS
    <2>1. CASE UNCHANGED vars
      BY <2>1 DEF vars, rowVars, lockVars, deliveryVars, chargeVars, OnceInv, OpenHasRow,
         FirstSeenAbsent, NotFailedUnrecorded, AppliedOnce
    <2>2. ASSUME NEW d \in Delivery, Receive(d) \/ DeliveryStep(d)
          PROVE  OnceInv'
      BY <2>2, OnceStep, OnceFailure, OnceCommit DEF DeliveryStep
    <2>3. QED
      BY <2>1, <2>2, OnceOther DEF Next, AllEnded
  <1>2. QED
    BY <1>1, OnceInit, TypeCorrect, PTL DEF Spec

\* An event that never failed is applied at most once.
THEOREM NeverTwice == Spec => []AppliedOnce
  <1>1. OnceInv => AppliedOnce
    BY DEF OnceInv
  <1>2. QED
    BY <1>1, Once, PTL

\* No event is recorded as processed whose effects were not committed: the row
\* and the effects are one transaction.
THEOREM NoEmptyRecord == Spec => []RecordedIsApplied
  <1>1. Init => RecordedIsApplied
    BY DEF Init, RecordedIsApplied
  <1>2. TypeOK /\ RecordedIsApplied /\ [Next]_vars => RecordedIsApplied'
    <2> SUFFICES ASSUME TypeOK, RecordedIsApplied, [Next]_vars
                 PROVE  RecordedIsApplied'
      OBVIOUS
    <2> USE DEF rowVars, lockVars, deliveryVars, chargeVars
    <2>1. CASE UNCHANGED vars
      BY <2>1 DEF vars, RecordedIsApplied
    <2>2. ASSUME NEW d \in Delivery, RecordFailure(d)
          PROVE  RecordedIsApplied'
      BY <2>2 DEF RecordFailure, RecordedIsApplied, TypeOK
    <2>3. ASSUME NEW d \in Delivery, Commit(d)
          PROVE  RecordedIsApplied'
      BY <2>3 DEF Commit, RecordedIsApplied, TypeOK
    <2>4. ASSUME NEW d \in Delivery,
                 Receive(d) \/ CheckRecord(d) \/ Handle(d) \/ FlushUser(d)
                 \/ FlushEvent(d) \/ StartCommit(d)
          PROVE  RecordedIsApplied'
      BY <2>4 DEF Receive, CheckRecord, Handle, FlushUser, FlushEvent, StartCommit,
         RecordedIsApplied
    <2>5. CASE \E c \in Charge : ChargeStep(c)
      BY <2>5 DEF ChargeStep, LoadBalance, Settle, RecordedIsApplied
    <2>6. CASE \E s \in Server : ServerDies(s)
      BY <2>6 DEF ServerDies, RecordedIsApplied
    <2>7. QED
      BY <2>1, <2>2, <2>3, <2>4, <2>5, <2>6 DEF Next, AllEnded, DeliveryStep
  <1>3. QED
    BY <1>1, <1>2, TypeCorrect, PTL DEF Spec

-----------------------------------------------------------------------------
(***************************************************************************)
(* An event changes the columns it is about: StaleColumnsStay.             *)
(***************************************************************************)

Column == {"status", "tier", "linked", "balance"}

LEMMA GrantColumns ==
    ASSUME NEW u \in UserRow, NEW a \in Int, NEW c \in Column \ {"balance"}
    PROVE  Grant(u, a)[c] = u[c]
  BY DEF Grant, UserRow, Column

LEMMA UpdatedColumns ==
    ASSUME NEW e \in Event, NEW u \in UserRow, NEW c \in Column \ {"tier", "balance"}
    PROVE  Updated(e, u)[c] = u[c]
  <1> DEFINE onPlan == [u EXCEPT !.tier = e.plan]
  <1>1. CASE e.plan \in {NoPlan, u.tier}
    BY <1>1 DEF Updated
  <1>2. CASE e.plan \notin {NoPlan, u.tier}
    <2>1. e.plan \in Plan /\ Monthly[e.plan] - Monthly[u.tier] \in Int
      BY <1>2 DEF UserRow
    <2>2. onPlan \in UserRow /\ onPlan[c] = u[c]
      BY <2>1 DEF UserRow, Column
    <2>3. Updated(e, u) = Grant(onPlan, Monthly[e.plan] - Monthly[u.tier])
      BY <1>2 DEF Updated
    <2> HIDE DEF onPlan
    <2>4. QED
      BY <2>1, <2>2, <2>3, GrantColumns
  <1>3. QED
    BY <1>1, <1>2

LEMMA AfterColumns ==
    ASSUME NEW e \in Event, NEW u \in UserRow, NEW c \in Column \ Columns(e.type)
    PROVE  After(e, u)[c] = u[c]
  <1>1. e.type \in EventType
    OBVIOUS
  <1>2. CASE ~Resolves(e, u)
    BY <1>2 DEF After
  <1>3. CASE Resolves(e, u)
    <2>1. CASE e.type = "created"
      BY <2>1 DEF Columns, Column
    <2>2. CASE e.type = "updated"
      <3>1. After(e, u) = Updated(e, u) /\ c \in Column \ {"tier", "balance"}
        BY <1>3, <2>2 DEF After, Columns
      <3>2. QED
        BY <3>1, UpdatedColumns
    <2>3. CASE e.type \in {"cancelled", "paused", "resumed", "payment_failed"}
      <3>1. \E s \in Status : After(e, u) = [u EXCEPT !.status = s]
        BY <1>3, <2>3 DEF After, Status
      <3>2. c # "status"
        BY <2>3 DEF Columns
      <3>3. QED
        BY <3>1, <3>2 DEF UserRow, Column
    <2>4. CASE e.type = "topup"
      <3>1. After(e, u) = Grant(u, e.credits) /\ e.credits \in Int
        BY <1>3, <2>4 DEF After
      <3>2. c \in Column \ {"balance"}
        BY <2>4 DEF Columns
      <3>3. QED
        BY <3>1, <3>2, GrantColumns
    <2>5. CASE e.type = "renewal"
      <3> DEFINE paid == Grant(u, Monthly[u.tier])
      <3>1. After(e, u) = [paid EXCEPT !.status = "active"]
        BY <1>3, <2>5 DEF After
      <3>2. c \in Column \ {"status", "balance"}
        BY <2>5 DEF Columns
      <3>3. Monthly[u.tier] \in Int
        BY DEF UserRow
      <3>4. paid \in UserRow /\ paid[c] = u[c]
        BY <3>2, <3>3, GrantColumns, GrantType
      <3> HIDE DEF paid
      <3>5. QED
        BY <3>1, <3>2, <3>4 DEF UserRow, Column
    <2>6. QED
      BY <1>1, <2>1, <2>2, <2>3, <2>4, <2>5 DEF EventType
  <1>4. QED
    BY <1>2, <1>3

LEMMA BegunColumns ==
    ASSUME NEW e \in Event, NEW u \in UserRow, NEW w \in Begun(e, u),
           NEW c \in Column \ Columns(e.type)
    PROVE  w[c] = u[c]
  BY DEF Begun, Columns, Column

LEMMA NewIsAfterStep == TypeOK /\ NewIsAfter /\ [Next]_vars => NewIsAfter'
  <1> SUFFICES ASSUME TypeOK, NewIsAfter, [Next]_vars PROVE NewIsAfter'
    OBVIOUS
  <1> DEFINE raising == {"raised", "failing"}
  <1> USE DEF Handled, Open
  <1>1. CASE UNCHANGED vars
    BY <1>1 DEF vars, deliveryVars, NewIsAfter
  <1>2. ASSUME NEW d \in Delivery, Handle(d)
        PROVE  NewIsAfter'
    <2>1. \A q \in Delivery \ {d} :
            pc'[q] = pc[q] /\ new'[q] = new[q] /\ seen'[q] = seen[q] /\ event'[q] = event[q]
      BY <1>2 DEF Handle, Goto, TypeOK
    <2>2. /\ pc'[d] \in Handled => new'[d] = After(event'[d], seen'[d])
          /\ pc'[d] \in raising => new'[d] \in Begun(event'[d], seen'[d])
      BY <1>2 DEF Handle, Goto, TypeOK
    <2>3. QED
      BY <2>1, <2>2 DEF NewIsAfter
  <1>3. ASSUME NEW d \in Delivery,
               Receive(d) \/ CheckRecord(d) \/ RecordFailure(d) \/ FlushUser(d)
               \/ FlushEvent(d) \/ StartCommit(d) \/ Commit(d)
        PROVE  NewIsAfter'
    <2>1. \A q \in Delivery : pc'[q] \in Handled \cup raising =>
            new'[q] = new[q] /\ seen'[q] = seen[q] /\ event'[q] = event[q]
      BY <1>3 DEF Receive, CheckRecord, RecordFailure, FlushUser, FlushEvent,
         StartCommit, Commit, Goto, Forget, TypeOK
    <2>2. \A q \in Delivery :
            /\ pc'[q] \in Handled => pc[q] \in Handled
            /\ pc'[q] \in raising => pc[q] \in raising
      BY <1>3 DEF Receive, CheckRecord, RecordFailure, FlushUser, FlushEvent,
         StartCommit, Commit, Goto, TypeOK
    <2>3. QED
      BY <2>1, <2>2 DEF NewIsAfter
  <1>4. ASSUME NEW c \in Charge, ChargeStep(c)
        PROVE  NewIsAfter'
    BY <1>4 DEF ChargeStep, LoadBalance, Settle, deliveryVars, NewIsAfter
  <1>5. ASSUME NEW s \in Server, ServerDies(s)
        PROVE  NewIsAfter'
    <2>1. \A q \in Delivery : pc'[q] \in Handled \cup raising =>
            pc'[q] = pc[q] /\ new'[q] = new[q] /\ seen'[q] = seen[q] /\ event'[q] = event[q]
      BY <1>5 DEF ServerDies, Forget, TypeOK, Ended
    <2>2. QED
      BY <2>1 DEF NewIsAfter
  <1>6. QED
    BY <1>1, <1>2, <1>3, <1>4, <1>5 DEF Next, DeliveryStep, AllEnded

\* A delivery that loaded the row before another one changed it undoes nothing
\* but what its own event is about, when it commits a success or a failure, for
\* every mixture of events and charges.
THEOREM StaleStays == Spec => StaleColumnsStay
  <1> DEFINE Stay == \A d \in Delivery :
                       pc[d] \in {"committing", "failing"} /\ pc'[d] \in {"ok", "error"}
                       => \A c \in DOMAIN user \ Columns(event[d].type) : user'[c] = user[c]
  <1>1. TypeOK /\ NewIsAfter /\ [Next]_vars => [Stay]_vars
    <2> SUFFICES ASSUME TypeOK, NewIsAfter, [Next]_vars, NEW d \in Delivery,
                        pc[d] \in {"committing", "failing"}, pc'[d] \in {"ok", "error"},
                        NEW c \in DOMAIN user \ Columns(event[d].type)
                 PROVE  user'[c] = user[c]
      OBVIOUS
    <2>1. c \in Column \ Columns(event[d].type) /\ c \in DOMAIN user
      BY DEF TypeOK, UserRow, Column
    <2>2. new[d][c] = seen[d][c]
      <3>1. seen[d] \in UserRow /\ event[d] \in Event
        BY DEF TypeOK
      <3>2. CASE pc[d] = "committing"
        <4>1. new[d] = After(event[d], seen[d])
          BY <3>2 DEF NewIsAfter, Handled, Open
        <4>2. QED
          BY <2>1, <3>1, <4>1, AfterColumns
      <3>3. CASE pc[d] = "failing"
        <4>1. new[d] \in Begun(event[d], seen[d])
          BY <3>3 DEF NewIsAfter
        <4>2. QED
          BY <2>1, <3>1, <4>1, BegunColumns
      <3>4. QED
        BY <3>2, <3>3
    <2>3. Merged(d)[c] = user[c]
      BY <2>1, <2>2 DEF Merged
    <2>4. CASE Commit(d)
      BY <2>3, <2>4 DEF Commit
    <2>5. CASE RecordFailure(d)
      BY <2>3, <2>5 DEF RecordFailure
    <2>6. ~UNCHANGED pc
      OBVIOUS
    <2>7. ASSUME NEW q \in Delivery, Receive(q) \/ DeliveryStep(q),
                 ~Commit(d), ~RecordFailure(d)
          PROVE  FALSE
      BY <2>7 DEF DeliveryStep, Receive, CheckRecord, Handle, RecordFailure, FlushUser,
         FlushEvent, StartCommit, Commit, Goto, TypeOK
    <2>8. ASSUME NEW s \in Server, ServerDies(s)
          PROVE  FALSE
      BY <2>8 DEF ServerDies, TypeOK
    <2>9. ASSUME NEW k \in Charge, ChargeStep(k)
          PROVE  FALSE
      BY <2>6, <2>9 DEF ChargeStep, LoadBalance, Settle, deliveryVars
    <2>10. QED
      BY <2>4, <2>5, <2>6, <2>7, <2>8, <2>9 DEF Next, AllEnded, vars, deliveryVars
  <1>2. Init => NewIsAfter
    BY DEF Init, NewIsAfter, Handled, Open
  <1>3. Spec => []NewIsAfter
    BY <1>2, NewIsAfterStep, TypeCorrect, PTL DEF Spec
  <1>4. Spec => [][Stay]_vars
    BY <1>1, <1>3, TypeCorrect, PTL DEF Spec
  <1>5. QED
    BY <1>4 DEF StaleColumnsStay
=============================================================================
