---------------------------- MODULE PaddleWebhook ----------------------------
(***************************************************************************)
(* The Paddle webhook (api/routes/webhooks.py, services/paddle_service.py) *)
(* for one user: its subscription and credits_balance, the log of events   *)
(* already processed, the credit ledger, and the tasks that charge runs to *)
(* the same balance.                                                       *)
(*                                                                         *)
(* The handler is a coroutine with a synchronous session: from the first   *)
(* query to the last flush it has the server's event loop to itself, also  *)
(* while a flush waits for a row lock.  Its commit comes after the         *)
(* response, in a thread that the loop has to start.  Between the two the  *)
(* loop runs other deliveries.  The other processes see committed rows.    *)
(***************************************************************************)
EXTENDS Integers

CONSTANTS
    Event,      \* notifications: records [type, plan, byUser, credits]
    Delivery,   \* HTTP requests; each carries some notification
    Server,     \* server processes, each with one event loop
    Charge,     \* Celery tasks that settle a run against the balance
    Plan,       \* the plans whose price ids are configured
    Monthly,    \* Monthly[t]: credits_monthly of tier t
    RunCost,    \* what a run costs
    Trial,      \* the tier of a new user
    NoPlan,     \* a price id no plan has
    InitialBalance,
    Nobody

EventType == {"created", "updated", "cancelled", "paused", "resumed",
              "topup", "renewal", "payment_failed"}

ASSUME PaddleAssumption ==
    /\ Event # {} /\ Server # {}
    /\ Plan \cap {Trial, NoPlan} = {}
    /\ \A e \in Event :
         e.type \in EventType /\ e.plan \in Plan \cup {NoPlan}
         /\ e.byUser \in BOOLEAN /\ e.credits \in Nat
    /\ Monthly \in [Plan \cup {Trial} -> Nat]
    /\ RunCost \in Nat /\ InitialBalance \in Nat
    /\ Nobody \notin Delivery \cup Charge

VARIABLES
    user,       \* the committed users row
    record,     \* record[e]: the committed paddle_events row of e
    ledger,     \* ledger[e]: credits the committed credit_transactions give to e
    userLock,   \* who has updated the users row and not committed
    eventLock,  \* eventLock[e]: and the event's row (or its unique key)
    loop,       \* loop[s]: the delivery whose handler has s's event loop
    pc,         \* pc[d]: where delivery d is
    event,      \* event[d]: what it carries
    server,     \* server[d]: who received it
    seenRecord, \* seenRecord[d]: the event's row as d loaded it
    seen,       \* seen[d]: the users row as d loaded it
    new,        \* new[d]: the same object after the handler
    applied,    \* history: applied[e], how often e was committed as processed
    failed,     \* history: the events a failure was recorded of
    task,       \* task[c]: where charge c is
    seenBalance,\* seenBalance[c]: the balance it loaded
    charged     \* history: what the committed charges took

rowVars == <<user, record, ledger, applied, failed, charged>>
lockVars == <<userLock, eventLock>>
deliveryVars == <<loop, pc, event, server, seenRecord, seen, new>>
chargeVars == <<task, seenBalance>>
vars == <<rowVars, lockVars, deliveryVars, chargeVars>>

Status == {"trial", "active", "cancelling", "paused", "past_due"}
Record == {"none", "failed", "done"}
UserRow == [status : Status, tier : Plan \cup {Trial}, linked : BOOLEAN, balance : Nat]
InHandler == {"checked", "computed", "user_flushed", "raised", "failing"}
Open == {"flushed", "committing"}
Ended == {"ok", "already", "error", "dead"}
PC == {"idle", "received"} \cup InHandler \cup Open \cup Ended

TypeOK ==
    /\ user \in UserRow
    /\ record \in [Event -> Record]
    /\ ledger \in [Event -> Nat]
    /\ userLock \in Delivery \cup {Nobody}
    /\ eventLock \in [Event -> Delivery \cup {Nobody}]
    /\ loop \in [Server -> Delivery \cup {Nobody}]
    /\ pc \in [Delivery -> PC]
    /\ event \in [Delivery -> Event]
    /\ server \in [Delivery -> Server]
    /\ seenRecord \in [Delivery -> Record]
    /\ seen \in [Delivery -> UserRow]
    /\ new \in [Delivery -> UserRow]
    /\ applied \in [Event -> Nat]
    /\ failed \subseteq Event
    /\ task \in [Charge -> {"idle", "read", "done"}]
    /\ seenBalance \in [Charge -> Nat]
    /\ charged \in Nat

NewUser == [status |-> "trial", tier |-> Trial, linked |-> FALSE,
            balance |-> InitialBalance]

Init ==
    /\ user = NewUser
    /\ record = [e \in Event |-> "none"]
    /\ ledger = [e \in Event |-> 0]
    /\ userLock = Nobody
    /\ eventLock = [e \in Event |-> Nobody]
    /\ loop = [s \in Server |-> Nobody]
    /\ pc = [d \in Delivery |-> "idle"]
    /\ event = [d \in Delivery |-> CHOOSE e \in Event : TRUE]
    /\ server = [d \in Delivery |-> CHOOSE s \in Server : TRUE]
    /\ seenRecord = [d \in Delivery |-> "none"]
    /\ seen = [d \in Delivery |-> NewUser]
    /\ new = [d \in Delivery |-> NewUser]
    /\ applied = [e \in Event |-> 0]
    /\ failed = {}
    /\ task = [c \in Charge |-> "idle"]
    /\ seenBalance = [c \in Charge |-> 0]
    /\ charged = 0

Goto(d, label) == pc' = [pc EXCEPT ![d] = label]
LeaveLoop(d) == loop' = [s \in Server |-> IF loop[s] = d THEN Nobody ELSE loop[s]]
Unlock(d) ==
    /\ userLock' = IF userLock = d THEN Nobody ELSE userLock
    /\ eventLock' = [e \in Event |-> IF eventLock[e] = d THEN Nobody ELSE eventLock[e]]

\* The sessions of the deliveries D are closed: nothing reads what they loaded.
Forget(D) ==
    /\ seenRecord' = [d \in Delivery |-> IF d \in D THEN "none" ELSE seenRecord[d]]
    /\ seen' = [d \in Delivery |-> IF d \in D THEN NewUser ELSE seen[d]]
    /\ new' = [d \in Delivery |-> IF d \in D THEN NewUser ELSE new[d]]

-----------------------------------------------------------------------------
(***************************************************************************)
(* The handlers: the users row after event e, from the row u.              *)
(***************************************************************************)

Grant(u, amount) == [u EXCEPT !.balance = @ + (IF amount > 0 THEN amount ELSE 0)]

\* What the creation has set when it comes to the date, which may not parse.
Activated(u) == [u EXCEPT !.status = "active", !.linked = TRUE]

\* _on_subscription_created: activate, link, and the first allocation.
Created(e, u) ==
    IF e.plan = NoPlan THEN Activated(u)
    ELSE Grant([Activated(u) EXCEPT !.tier = e.plan], Monthly[e.plan])

\* _on_subscription_updated: on another plan, the difference if it is positive.
Updated(e, u) ==
    IF e.plan \in {NoPlan, u.tier} THEN u
    ELSE Grant([u EXCEPT !.tier = e.plan], Monthly[e.plan] - Monthly[u.tier])

\* The user an event is about is the one in custom_data or the one with its
\* subscription id; a top-up looks only at the first, a payment at the second.
Resolves(e, u) ==
    CASE e.type \in {"created", "topup"} -> e.byUser
      [] e.type \in {"renewal", "payment_failed"} -> u.linked
      [] OTHER -> e.byUser \/ u.linked

After(e, u) ==
    IF ~Resolves(e, u) THEN u
    ELSE CASE e.type = "created" -> Created(e, u)
           [] e.type = "updated" -> Updated(e, u)
           [] e.type = "cancelled" -> [u EXCEPT !.status = "cancelling"]
           [] e.type = "paused" -> [u EXCEPT !.status = "paused"]
           [] e.type = "resumed" -> [u EXCEPT !.status = "active"]
           [] e.type = "topup" -> Grant(u, e.credits)
           [] e.type = "renewal" -> [Grant(u, Monthly[u.tier]) EXCEPT !.status = "active"]
           [] e.type = "payment_failed" -> [u EXCEPT !.status = "past_due"]

\* The rows a handler that raises may leave: a creation has activated the
\* subscription before the date, the others have set nothing but a date.
Begun(e, u) == {u} \cup IF e.type = "created" /\ Resolves(e, u) THEN {Activated(u)} ELSE {}

\* Variant: the whole row is written back.
MergedWhole(d) == new[d]

\* What the UPDATE writes: the columns that differ from the row as loaded.
Merged(d) ==
    [c \in DOMAIN user |-> IF new[d][c] = seen[d][c] THEN user[c] ELSE new[d][c]]

\* created, cancelled and updated also set a date, which nothing here reads:
\* they update the row even when none of the columns above changes (updated
\* only if its date is another, and if they raise, only once it is set).
Dated(d) == {"created", "updated"} \cup IF pc[d] = "raised" THEN {} ELSE {"cancelled"}
MayUpdateUser(d) ==
    \/ new[d] # seen[d]
    \/ event[d].type \in Dated(d) /\ Resolves(event[d], seen[d])
MustUpdateUser(d) ==
    \/ new[d] # seen[d]
    \/ pc[d] # "raised" /\ MayUpdateUser(d) /\ event[d].type # "updated"

-----------------------------------------------------------------------------
(***************************************************************************)
(* A delivery.                                                             *)
(***************************************************************************)

\* Paddle sends a notification again until it is acknowledged, and may send it
\* twice.  The session is opened and the body read; the signature is good.
Receive(d) ==
    /\ pc[d] = "idle"
    /\ \E e \in Event : event' = [event EXCEPT ![d] = e]
    /\ \E s \in Server : server' = [server EXCEPT ![d] = s]
    /\ Goto(d, "received")
    /\ UNCHANGED <<rowVars, lockVars, chargeVars, loop, seenRecord, seen, new>>

\* Variant: the log of events is not consulted.
CheckRecordNot(d) ==
    /\ pc[d] = "received" /\ loop[server[d]] = Nobody
    /\ seenRecord' = [seenRecord EXCEPT ![d] = record[event[d]]]
    /\ Goto(d, "checked")
    /\ loop' = [loop EXCEPT ![server[d]] = d]
    /\ UNCHANGED <<rowVars, lockVars, chargeVars, event, server, seen, new>>

\* The handler takes the loop; an event processed before is only acknowledged.
CheckRecord(d) ==
    /\ pc[d] = "received" /\ loop[server[d]] = Nobody
    /\ seenRecord' = [seenRecord EXCEPT ![d] = record[event[d]]]
    /\ IF record[event[d]] = "done"
       THEN Goto(d, "already") /\ UNCHANGED loop
       ELSE Goto(d, "checked") /\ loop' = [loop EXCEPT ![server[d]] = d]
    /\ UNCHANGED <<rowVars, lockVars, chargeVars, event, server, seen, new>>

\* service.handle: it loads the users row and computes, or it raises on a field
\* of the event it cannot read, perhaps after its first changes.
Handle(d) ==
    /\ pc[d] = "checked"
    /\ seen' = [seen EXCEPT ![d] = user]
    /\ \/ /\ new' = [new EXCEPT ![d] = After(event[d], user)]
          /\ Goto(d, "computed")
       \/ /\ \E u \in Begun(event[d], user) : new' = [new EXCEPT ![d] = u]
          /\ Goto(d, "raised")
    /\ UNCHANGED <<rowVars, lockVars, chargeVars, loop, event, server, seenRecord>>

\* The flush writes the users row first, waiting for whoever has it; the commit
\* of a failure flushes what the handler had changed.
FlushUser(d) ==
    /\ pc[d] \in {"computed", "raised"}
    /\ \/ MayUpdateUser(d) /\ userLock = Nobody /\ userLock' = d
       \/ ~MustUpdateUser(d) /\ UNCHANGED userLock
    /\ Goto(d, IF pc[d] = "raised" THEN "failing" ELSE "user_flushed")
    /\ UNCHANGED <<rowVars, eventLock, chargeVars, loop, event, server, seenRecord,
                   seen, new>>

\* The event's row can be inserted, or updated, by d when nobody else has it.
\* An insert finds the key taken if another delivery committed it meanwhile.
EventRowFree(d) == eventLock[event[d]] = Nobody
KeyTaken(d) == seenRecord[d] = "none" /\ record[event[d]] # "none"

\* Variant: the failed event is recorded without its error message.
RecordFailureBlank(d) ==
    /\ pc[d] = "failing" /\ EventRowFree(d)
    /\ record' = IF KeyTaken(d) THEN record ELSE [record EXCEPT ![event[d]] = "done"]
    /\ failed' = IF KeyTaken(d) THEN failed ELSE failed \cup {event[d]}
    /\ user' = IF KeyTaken(d) THEN user ELSE Merged(d)
    /\ Unlock(d) /\ LeaveLoop(d) /\ Forget({d})
    /\ Goto(d, "error")
    /\ UNCHANGED <<ledger, applied, charged, chargeVars, event, server>>

\* The failure is recorded and committed, with what the handler had changed
\* before it raised; 500 asks Paddle to try again.  A message equal to the one
\* loaded is not written again.  A key taken meanwhile rolls everything back.
RecordFailure(d) ==
    /\ pc[d] = "failing" /\ EventRowFree(d)
    /\ \/ /\ KeyTaken(d)
          /\ UNCHANGED <<user, record, failed>>
       \/ /\ ~KeyTaken(d)
          /\ user' = Merged(d)
          /\ \/ record' = [record EXCEPT ![event[d]] = "failed"]
             \/ seenRecord[d] = "failed" /\ UNCHANGED record
          /\ failed' = failed \cup {event[d]}
    /\ Unlock(d) /\ LeaveLoop(d) /\ Forget({d})
    /\ Goto(d, "error")
    /\ UNCHANGED <<ledger, applied, charged, chargeVars, event, server>>

\* Variant: a key that is taken is waited for, not refused.
FlushEventWaits(d) ==
    /\ pc[d] = "user_flushed" /\ EventRowFree(d) /\ ~KeyTaken(d)
    /\ Goto(d, "flushed")
    /\ eventLock' = [eventLock EXCEPT ![event[d]] = d]
    /\ LeaveLoop(d)
    /\ UNCHANGED <<rowVars, userLock, chargeVars, event, server, seenRecord, seen, new>>

\* Then the event's row; 200 is sent and the loop is free again.  A key taken
\* meanwhile makes the flush raise: rollback and 500.
FlushEvent(d) ==
    /\ pc[d] = "user_flushed" /\ EventRowFree(d)
    /\ IF KeyTaken(d)
       THEN Goto(d, "error") /\ Unlock(d) /\ Forget({d})
       ELSE /\ Goto(d, "flushed")
            /\ eventLock' = [eventLock EXCEPT ![event[d]] = d]
            /\ UNCHANGED <<userLock, seenRecord, seen, new>>
    /\ LeaveLoop(d)
    /\ UNCHANGED <<rowVars, chargeVars, event, server>>

\* The loop hands the end of the session to a thread.
StartCommit(d) ==
    /\ pc[d] = "flushed" /\ loop[server[d]] = Nobody
    /\ Goto(d, "committing")
    /\ UNCHANGED <<rowVars, lockVars, chargeVars, loop, event, server, seenRecord,
                   seen, new>>

Amount(d) == new[d].balance - seen[d].balance

Commit(d) ==
    /\ pc[d] = "committing"
    /\ user' = Merged(d)
    /\ record' = [record EXCEPT ![event[d]] = "done"]
    /\ ledger' = [ledger EXCEPT ![event[d]] = @ + Amount(d)]
    /\ applied' = [applied EXCEPT ![event[d]] = @ + 1]
    /\ Unlock(d) /\ Forget({d})
    /\ Goto(d, "ok")
    /\ UNCHANGED <<failed, charged, chargeVars, loop, event, server>>

\* A server process is killed, and started again: its sessions roll back.
ServerDies(s) ==
    LET its == {d \in Delivery : server[d] = s /\ pc[d] \notin Ended \cup {"idle"}}
    IN  /\ its # {}
        /\ pc' = [d \in Delivery |-> IF d \in its THEN "dead" ELSE pc[d]]
        /\ userLock' = IF userLock \in its THEN Nobody ELSE userLock
        /\ eventLock' = [e \in Event |-> IF eventLock[e] \in its THEN Nobody
                                         ELSE eventLock[e]]
        /\ loop' = [loop EXCEPT ![s] = Nobody]
        /\ Forget(its)
        /\ UNCHANGED <<rowVars, chargeVars, event, server>>

-----------------------------------------------------------------------------
(***************************************************************************)
(* A charge: a task of another process loads the users row and, at the end *)
(* of its transaction, writes the balance less the cost (SeoAnalysis has   *)
(* the whole of it).                                                       *)
(***************************************************************************)

LoadBalance(c) ==
    /\ task[c] = "idle"
    /\ seenBalance' = [seenBalance EXCEPT ![c] = user.balance]
    /\ task' = [task EXCEPT ![c] = "read"]
    /\ UNCHANGED <<rowVars, lockVars, deliveryVars>>

\* Variant: the balance may go below zero.
SettleNoFloor(c) ==
    /\ task[c] = "read" /\ userLock = Nobody
    /\ user' = [user EXCEPT !.balance = seenBalance[c] - RunCost]
    /\ charged' = charged + RunCost
    /\ task' = [task EXCEPT ![c] = "done"]
    /\ UNCHANGED <<record, ledger, applied, failed, lockVars, deliveryVars, seenBalance>>

Settle(c) ==
    /\ task[c] = "read" /\ userLock = Nobody
    /\ LET left == IF seenBalance[c] > RunCost THEN seenBalance[c] - RunCost ELSE 0
       IN  /\ user' = IF left = seenBalance[c] THEN user ELSE [user EXCEPT !.balance = left]
           /\ charged' = charged + (seenBalance[c] - left)
    /\ task' = [task EXCEPT ![c] = "done"]
    /\ UNCHANGED <<record, ledger, applied, failed, lockVars, deliveryVars, seenBalance>>

-----------------------------------------------------------------------------
DeliveryStep(d) ==
    \/ CheckRecord(d) \/ Handle(d) \/ RecordFailure(d)
    \/ FlushUser(d) \/ FlushEvent(d) \/ StartCommit(d) \/ Commit(d)

ChargeStep(c) == LoadBalance(c) \/ Settle(c)

AllEnded ==
    /\ \A d \in Delivery : pc[d] \in Ended
    /\ \A c \in Charge : task[c] = "done"
    /\ UNCHANGED vars

Next ==
    \/ \E d \in Delivery : Receive(d) \/ DeliveryStep(d)
    \/ \E c \in Charge : ChargeStep(c)
    \/ \E s \in Server : ServerDies(s)
    \/ AllEnded

Spec == Init /\ [][Next]_vars

\* The loop runs what is ready, threads and tasks go on; nothing is obliged to
\* arrive or to be killed.
FairSpec ==
    /\ Spec
    /\ \A d \in Delivery : WF_vars(DeliveryStep(d))
    /\ \A c \in Charge : WF_vars(ChargeStep(c))

-----------------------------------------------------------------------------
(***************************************************************************)
(* Properties.                                                             *)
(***************************************************************************)

\* An event that never failed is applied at most once, and exactly when the
\* log says so, by however many servers its deliveries are handled at once:
\* the unique key of its row (the idempotency check of paddle_webhook).
AppliedOnce ==
    \A e \in Event \ failed : applied[e] = IF record[e] = "done" THEN 1 ELSE 0

\* No event is recorded as processed whose effects were not committed.
RecordedIsApplied == \A e \in Event : record[e] = "done" => applied[e] > 0

\* The columns an event of each type is about.
Columns(type) ==
    CASE type = "created" -> {"status", "tier", "linked", "balance"}
      [] type = "updated" -> {"tier", "balance"}
      [] type = "topup" -> {"balance"}
      [] type = "renewal" -> {"status", "balance"}
      [] OTHER -> {"status"}

\* A delivery that loaded the row before another one changed it does not undo
\* the change of a column its own event is not about (the ORM's UPDATE), when
\* it commits a success nor when it commits a failure.
StaleColumnsStay ==
    [][\A d \in Delivery :
         pc[d] \in {"committing", "failing"} /\ pc'[d] \in {"ok", "error"}
         => \A c \in DOMAIN user \ Columns(event[d].type) : user'[c] = user[c]]_vars

\* The loop of s is in a flush that waits for a lock of a delivery whose commit
\* waits for the loop of s.
Frozen(s) ==
    \E d, q \in Delivery :
        /\ loop[s] = d /\ pc[d] \in InHandler
        /\ server[q] = s /\ pc[q] = "flushed"
        /\ userLock = q \/ eventLock[event[d]] = q

\* Every delivery is answered and its session ended, unless its server's loop
\* waits for itself: there is no other way for deliveries to block each other.
EndsOrFreezes ==
    \A d \in Delivery : pc[d] = "received" ~> pc[d] \in Ended \/ Frozen(server[d])

-----------------------------------------------------------------------------
(***************************************************************************)
(* The invariant behind AppliedOnce: a delivery that has flushed has the   *)
(* event's row to itself, and of an event that never failed there was no   *)
(* row before.                                                             *)
(***************************************************************************)

\* No handler takes credits away.
GrantsOnly == \A d \in Delivery : new[d].balance >= seen[d].balance

OpenHasRow == \A d \in Delivery : pc[d] \in Open => eventLock[event[d]] = d

FirstSeenAbsent ==
    \A d \in Delivery :
        event[d] \notin failed =>
            /\ pc[d] \in InHandler => seenRecord[d] = "none"
            /\ pc[d] \in Open => record[event[d]] = "none"

NotFailedUnrecorded == \A e \in Event \ failed : record[e] # "failed"

OnceInv ==
    /\ OpenHasRow
    /\ FirstSeenAbsent
    /\ NotFailedUnrecorded
    /\ AppliedOnce

\* Behind StaleColumnsStay: what a delivery will write is what its event makes
\* of the row it loaded, or has made of it when the handler raised.
Handled == {"computed", "user_flushed"} \cup Open
NewIsAfter ==
    \A d \in Delivery :
        /\ pc[d] \in Handled => new[d] = After(event[d], seen[d])
        /\ pc[d] \in {"raised", "failing"} => new[d] \in Begun(event[d], seen[d])
=============================================================================
