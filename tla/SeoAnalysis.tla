----------------------------- MODULE SeoAnalysis -----------------------------
(***************************************************************************)
(* One account asking for SEO analyses: the route POST .../seo/analyze     *)
(* (api/routes/seo.py), the Celery task analyze_single (tasks/seo.py), the *)
(* broker that delivers it, the agent_runs rows and the users row in       *)
(* Postgres, and the credit keys in Redis (CreditStore).                   *)
(*                                                                         *)
(* A process is <<r, n>>: n = 0 is the HTTP request that asks for run r,   *)
(* n > 0 the n-th delivery of its task message to a worker.  Requests and  *)
(* deliveries run concurrently; each has its own database session, that    *)
(* is one READ COMMITTED transaction (db/session.py): it sees committed    *)
(* rows, an UPDATE it has flushed locks the row until it ends, and a crash *)
(* or an exception rolls it back.  Redis commands take effect at once and  *)
(* are never rolled back.                                                  *)
(*                                                                         *)
(* No code deletes a listing (both cascade from the store), so the branch  *)
(* "Listing not found" of the task is unreachable and has no action.       *)
(***************************************************************************)
EXTENDS CreditStore

CONSTANTS
    StoreOf,         \* StoreOf[r]: the store whose listing request r names
    Cost,            \* SEO_ANALYSIS_COST
    InitialBalance,  \* users.credits_balance at the start
    StaleAfter,      \* STALE_RUN_AFTER, in ticks
    MaxDeliveries,   \* bound: deliveries of one message
    Unlucky,         \* bound: runs whose workers die or messages are redelivered
    MaxMidnights,    \* bound: changes of the UTC date
    RedisMayFail,    \* BOOLEAN: do Redis calls raise?
    NoProc           \* nobody: the holder of a row that is not locked

Proc == Run \X (0 .. MaxDeliveries)

ASSUME SeoAssumption ==
    /\ Cost \in Nat \ {0}
    /\ InitialBalance \in Nat
    /\ StaleAfter \in Nat
    /\ MaxDeliveries \in Nat \ {0}
    /\ Unlucky \subseteq Run
    /\ MaxMidnights \in Nat
    /\ RedisMayFail \in BOOLEAN
    /\ NoProc \notin Proc

Request(r) == <<r, 0>>
Delivery == Run \X (1 .. MaxDeliveries)

VARIABLES
    status,     \* status[r]: committed agent_runs.status; "none" before the row
    age,        \* age[r]: ticks since created_at, counted up to StaleAfter
    lock,       \* lock[r]: the process whose open transaction updated row r
    balance,    \* committed users.credits_balance
    charged,    \* history: charged[r] is what committed settlements deducted
    queued,     \* queued[r]: the broker has a message for r to deliver
    midnights,  \* midnights passed
    faulted,    \* history: a Redis call settling or releasing r raised
    pc,         \* pc[p]: where process p is
    bal,        \* bal[p]: credits_balance as p's session loaded it
    seen,       \* seen[p]: the hold as p's settle() or release() read it
    mode,       \* mode[p]: which of the two p is in, "settle" or "release"
    victim,     \* victim[p]: the run p settles or releases
    stale,      \* stale[r]: stalled runs request r marks failed
    todo        \* todo[r]: those whose hold it has yet to release

dbVars == <<status, age, lock, balance, charged>>
brokerVars == <<queued, midnights>>
localVars == <<bal, seen, mode, victim, stale, todo>>
vars == <<creditVars, dbVars, brokerVars, faulted, pc, localVars>>

RunStatus == {"none", "pending", "completed", "failed"}
InProgress == {"pending", "running"}

\* The steps of settle() and release(), each one Redis command.
RedisStep == {"get", "refund", "decr", "del"}
RequestFinal == {"refused", "accepted", "dead"}
RequestPC == {"idle", "authenticated", "supersede", "reserve", "reserved",
              "committed"} \cup RedisStep \cup RequestFinal
WorkerFinal == {"acked", "skipped", "gone", "killed"}
WorkerPC == {"idle", "received", "analyzing", "read_user", "commit", "unacked"}
               \cup RedisStep \cup WorkerFinal

TypeOK ==
    /\ CreditTypeOK
    /\ status \in [Run -> RunStatus]
    /\ age \in [Run -> 0 .. StaleAfter]
    /\ lock \in [Run -> Proc \cup {NoProc}]
    /\ balance \in Nat
    /\ charged \in [Run -> Nat]
    /\ queued \in [Run -> BOOLEAN]
    /\ midnights \in 0 .. MaxMidnights
    /\ faulted \in [Run -> BOOLEAN]
    /\ pc \in [Proc -> RequestPC \cup WorkerPC]
    /\ bal \in [Proc -> Nat]
    /\ seen \in [Proc -> Nat]
    /\ mode \in [Proc -> {"settle", "release"}]
    /\ victim \in [Proc -> Run]
    /\ stale \in [Run -> SUBSET Run]
    /\ todo \in [Run -> SUBSET Run]

Init ==
    /\ CreditInit
    /\ status = [r \in Run |-> "none"]
    /\ age = [r \in Run |-> 0]
    /\ lock = [r \in Run |-> NoProc]
    /\ balance = InitialBalance
    /\ charged = [r \in Run |-> 0]
    /\ queued = [r \in Run |-> FALSE]
    /\ midnights = 0
    /\ faulted = [r \in Run |-> FALSE]
    /\ pc = [p \in Proc |-> "idle"]
    /\ bal = [p \in Proc |-> 0]
    /\ seen = [p \in Proc |-> 0]
    /\ mode = [p \in Proc |-> "release"]
    /\ victim = [p \in Proc |-> p[1]]
    /\ stale = [r \in Run |-> {}]
    /\ todo = [r \in Run |-> {}]

Goto(p, label) == pc' = [pc EXCEPT ![p] = label]

\* The end of p's transaction: every row it updated is unlocked.
Unlocked(p) == [r \in Run |-> IF lock[r] = p THEN NoProc ELSE lock[r]]

\* A process that has ended keeps nothing.
Ended(p) ==
    /\ bal' = [bal EXCEPT ![p] = 0]
    /\ seen' = [seen EXCEPT ![p] = 0]
    /\ mode' = [mode EXCEPT ![p] = "release"]
    /\ victim' = [victim EXCEPT ![p] = p[1]]
    /\ stale' = IF p[2] = 0 THEN [stale EXCEPT ![p[1]] = {}] ELSE stale
    /\ todo' = IF p[2] = 0 THEN [todo EXCEPT ![p[1]] = {}] ELSE todo

-----------------------------------------------------------------------------
(***************************************************************************)
(* The request: trigger_seo_analysis.                                      *)
(***************************************************************************)

\* get_current_user loads the user row; its balance is used at the reserve.
Authenticate(r) ==
    /\ pc[Request(r)] = "idle"
    /\ bal' = [bal EXCEPT ![Request(r)] = balance]
    /\ Goto(Request(r), "authenticated")
    /\ UNCHANGED <<creditVars, dbVars, brokerVars, faulted, seen, mode, victim,
                   stale, todo>>

RunsInProgress(r) ==
    {q \in Run : StoreOf[q] = StoreOf[r] /\ status[q] \in InProgress}

Fresh(q) == age[q] < StaleAfter

\* 409 if the store has a run that has not stalled.
RefuseInProgress(r) ==
    /\ pc[Request(r)] = "authenticated"
    /\ \E q \in RunsInProgress(r) : Fresh(q)
    /\ Goto(Request(r), "refused")
    /\ Ended(Request(r))
    /\ UNCHANGED <<creditVars, dbVars, brokerVars, faulted>>

FindStale(r) ==
    /\ pc[Request(r)] = "authenticated"
    /\ \A q \in RunsInProgress(r) : ~Fresh(q)
    /\ stale' = [stale EXCEPT ![r] = RunsInProgress(r)]
    /\ todo' = [todo EXCEPT ![r] = RunsInProgress(r)]
    /\ Goto(Request(r), "supersede")
    /\ UNCHANGED <<creditVars, dbVars, brokerVars, faulted, bal, seen, mode,
                   victim>>

\* "Stalled runs would block this store forever - fail them and free the hold."
SupersedeNext(r) ==
    /\ pc[Request(r)] = "supersede"
    /\ \E q \in todo[r] :
         /\ victim' = [victim EXCEPT ![Request(r)] = q]
         /\ todo' = [todo EXCEPT ![r] = todo[r] \ {q}]
    /\ Goto(Request(r), "get")
    /\ UNCHANGED <<creditVars, dbVars, brokerVars, faulted, bal, seen, mode,
                   stale>>

\* db.flush(): the UPDATE of each stalled row waits for whoever has it locked.
FlushStale(r) ==
    /\ pc[Request(r)] = "supersede"
    /\ todo[r] = {}
    /\ \A q \in stale[r] : lock[q] = NoProc
    /\ lock' = [q \in Run |-> IF q \in stale[r] THEN Request(r) ELSE lock[q]]
    /\ Goto(Request(r), "reserve")
    /\ UNCHANGED <<creditVars, status, age, balance, charged, brokerVars,
                   faulted, localVars>>

ReserveGranted(r) ==
    /\ pc[Request(r)] = "reserve"
    /\ Reserve(r, Cost, bal[Request(r)])
    /\ Goto(Request(r), "reserved")
    /\ UNCHANGED <<dbVars, brokerVars, faulted, localVars>>

\* Variant: the run's row was committed before the reserve was tried.
ReserveDeniedRowKept(r) ==
    /\ pc[Request(r)] = "reserve"
    /\ Denied(Cost, bal[Request(r)])
    /\ status' = [status EXCEPT ![r] = "pending"]
    /\ lock' = Unlocked(Request(r))
    /\ Goto(Request(r), "refused")
    /\ Ended(Request(r))
    /\ UNCHANGED <<age, balance, charged, brokerVars, faulted>>

\* 402 or 429: the exception rolls the transaction back.
ReserveDenied(r) ==
    /\ pc[Request(r)] = "reserve"
    /\ Denied(Cost, bal[Request(r)])
    /\ lock' = Unlocked(Request(r))
    /\ Goto(Request(r), "refused")
    /\ Ended(Request(r))
    /\ UNCHANGED <<status, age, balance, charged, brokerVars, faulted>>

\* db.add(run); db.commit(): "Commit before dispatching".
CommitRun(r) ==
    /\ pc[Request(r)] = "reserved"
    /\ status' = [q \in Run |-> IF q = r THEN "pending"
                                ELSE IF q \in stale[r] THEN "failed"
                                ELSE status[q]]
    /\ lock' = Unlocked(Request(r))
    /\ Goto(Request(r), "committed")
    /\ Ended(Request(r))
    /\ UNCHANGED <<creditVars, age, balance, charged, brokerVars, faulted>>

\* Variant: dispatch while the row is only flushed.
DispatchBeforeCommit(r) ==
    /\ pc[Request(r)] = "reserved"
    /\ queued' = [queued EXCEPT ![r] = TRUE]
    /\ UNCHANGED <<creditVars, dbVars, midnights, faulted, pc, localVars>>

\* analyze_single.apply_async(...)
Dispatch(r) ==
    /\ pc[Request(r)] = "committed"
    /\ queued' = [queued EXCEPT ![r] = TRUE]
    /\ Goto(Request(r), "accepted")
    /\ UNCHANGED <<creditVars, dbVars, midnights, faulted, localVars>>

(***************************************************************************)
(* The server process dies, or a call of the handler raises (Redis in      *)
(* reserve(), the broker in apply_async(), the database): the transaction  *)
(* is rolled back, what was sent to Redis stays.                           *)
(***************************************************************************)
RequestDies(r) ==
    /\ pc[Request(r)] \notin RequestFinal \cup {"idle"}
    /\ lock' = Unlocked(Request(r))
    /\ Goto(Request(r), "dead")
    /\ Ended(Request(r))
    /\ UNCHANGED <<creditVars, status, age, balance, charged, brokerVars,
                   faulted>>

-----------------------------------------------------------------------------
(***************************************************************************)
(* settle() and release(), command by command, for both kinds of process.  *)
(* victim[p] is the run, seen[p] the hold that was read for it.            *)
(***************************************************************************)

AfterRelease(p) == IF p[2] = 0 THEN "supersede" ELSE "commit"

GetHold(p) ==
    /\ pc[p] = "get"
    /\ seen' = [seen EXCEPT ![p] = hold[victim[p]]]
    /\ Goto(p, IF hold[victim[p]] = 0 THEN "del"
               ELSE IF mode[p] = "release" THEN "refund" ELSE "decr")
    /\ UNCHANGED <<creditVars, dbVars, brokerVars, faulted, bal, mode, victim,
                   stale, todo>>

Refund(p) ==
    /\ pc[p] = "refund"
    /\ RefundDaily(seen[p])
    /\ Goto(p, "decr")
    /\ UNCHANGED <<dbVars, brokerVars, faulted, localVars>>

Decrement(p) ==
    /\ pc[p] = "decr"
    /\ DecrReserved(seen[p])
    /\ Goto(p, "del")
    /\ UNCHANGED <<dbVars, brokerVars, faulted, localVars>>

Delete(p) ==
    /\ pc[p] = "del"
    /\ DeleteHold(victim[p])
    /\ Goto(p, AfterRelease(p))
    /\ UNCHANGED <<dbVars, brokerVars, faulted, localVars>>

\* A Redis call raises; both callers swallow the exception and go on.
RedisRaises(p) ==
    /\ RedisMayFail
    /\ pc[p] \in RedisStep
    /\ faulted' = [faulted EXCEPT ![victim[p]] = TRUE]
    /\ seen' = [seen EXCEPT ![p] = IF pc[p] = "get" THEN 0 ELSE seen[p]]
    /\ Goto(p, AfterRelease(p))
    /\ UNCHANGED <<creditVars, dbVars, brokerVars, bal, mode, victim, stale, todo>>

ReleaseStep(p) ==
    GetHold(p) \/ Refund(p) \/ Decrement(p) \/ Delete(p) \/ RedisRaises(p)

-----------------------------------------------------------------------------
(***************************************************************************)
(* A delivery of the task: analyze_single, one worker slot.                *)
(***************************************************************************)

Waiting(d) ==
    /\ pc[d] = "idle"
    /\ \A n \in 1 .. d[2] - 1 : pc[<<d[1], n>>] # "idle"

\* The worker takes the message; "skipped: run not found" if it sees no row ...
Receive(d) ==
    /\ queued[d[1]] /\ Waiting(d)
    /\ queued' = [queued EXCEPT ![d[1]] = FALSE]
    /\ Goto(d, IF status[d[1]] = "none" THEN "skipped" ELSE "received")
    /\ UNCHANGED <<creditVars, dbVars, midnights, faulted, localVars>>

\* Variant: the worker sets "running" without flushing it.
FlushRunningNot(d) ==
    /\ pc[d] = "received"
    /\ Goto(d, "analyzing")
    /\ UNCHANGED <<creditVars, dbVars, brokerVars, faulted, localVars>>

\* ... and goes on whatever the row's status: run.status = "running", flushed, never committed.
FlushRunning(d) ==
    /\ pc[d] = "received"
    /\ lock[d[1]] = NoProc
    /\ lock' = [lock EXCEPT ![d[1]] = d]
    /\ Goto(d, "analyzing")
    /\ UNCHANGED <<creditVars, status, age, balance, charged, brokerVars,
                   faulted, localVars>>

\* The analysis row is added, run.status = "completed", _settle_credits.
AnalysisSucceeds(d) ==
    /\ pc[d] = "analyzing"
    /\ mode' = [mode EXCEPT ![d] = "settle"]
    /\ Goto(d, "read_user")
    /\ UNCHANGED <<creditVars, dbVars, brokerVars, faulted, bal, seen, victim,
                   stale, todo>>

\* _fail_run: run.status = "failed", _release_credits.
AnalysisFails(d) ==
    /\ pc[d] = "analyzing"
    /\ mode' = [mode EXCEPT ![d] = "release"]
    /\ Goto(d, "get")
    /\ UNCHANGED <<creditVars, dbVars, brokerVars, faulted, bal, seen, victim,
                   stale, todo>>

\* db.query(User) in _settle_credits.
ReadUser(d) ==
    /\ pc[d] = "read_user"
    /\ bal' = [bal EXCEPT ![d] = balance]
    /\ Goto(d, "get")
    /\ UNCHANGED <<creditVars, dbVars, brokerVars, faulted, seen, mode, victim,
                   stale, todo>>

\* user.credits_balance = max(0, user.credits_balance - cost)
Deducted(d) == IF bal[d] < seen[d] THEN 0 ELSE bal[d] - seen[d]

(***************************************************************************)
(* The session's commit.  SQLAlchemy writes the column back only when the  *)
(* assignment changed the value the session had loaded.                    *)
(***************************************************************************)
CommitResult(d) ==
    /\ pc[d] = "commit"
    /\ IF mode[d] = "settle"
       THEN /\ status' = [status EXCEPT ![d[1]] = "completed"]
            /\ charged' = [charged EXCEPT ![d[1]] = charged[d[1]] + seen[d]]
            /\ balance' = IF Deducted(d) = bal[d] THEN balance ELSE Deducted(d)
       ELSE /\ status' = [status EXCEPT ![d[1]] = "failed"]
            /\ UNCHANGED <<charged, balance>>
    /\ lock' = Unlocked(d)
    /\ Goto(d, "unacked")
    /\ Ended(d)
    /\ UNCHANGED <<creditVars, age, brokerVars, faulted>>

\* task_acks_late: the message is acknowledged when the task has returned.
Acknowledge(d) ==
    /\ pc[d] = "unacked"
    /\ Goto(d, "acked")
    /\ UNCHANGED <<creditVars, dbVars, brokerVars, faulted, localVars>>

\* Variant: messages are acknowledged when they are received.
UnackedEarly(d) == FALSE

Unacked(d) == pc[d] \notin {"idle", "acked", "skipped", "killed"}

(***************************************************************************)
(* The worker process dies ("gone": its message is never acknowledged), or *)
(* its pool kills the task's child process ("killed": without              *)
(* task_reject_on_worker_lost Celery acknowledges the message).  The last  *)
(* delivery the bound allows does not die.                                 *)
(***************************************************************************)
WorkerDies(d) ==
    /\ pc[d] \notin WorkerFinal \cup {"idle"}
    /\ d[1] \in Unlucky /\ d[2] < MaxDeliveries
    /\ lock' = Unlocked(d)
    /\ \E end \in {"gone", "killed"} : Goto(d, end)
    /\ Ended(d)
    /\ UNCHANGED <<creditVars, status, age, balance, charged, brokerVars,
                   faulted>>

\* The broker delivers again what is not acknowledged: after a crash, or
\* while the first delivery is still running (connection lost, visibility).
Redeliver(r) ==
    /\ r \in Unlucky /\ ~queued[r]
    /\ \E d \in Delivery : d[1] = r /\ Unacked(d)
    /\ \E d \in Delivery : d[1] = r /\ pc[d] = "idle"
    /\ queued' = [queued EXCEPT ![r] = TRUE]
    /\ UNCHANGED <<creditVars, dbVars, midnights, faulted, pc, localVars>>

-----------------------------------------------------------------------------
Tick ==
    /\ SomethingExpires \/ \E r \in Run : status[r] = "pending" /\ Fresh(r)
    /\ PassTime
    /\ age' = [r \in Run |-> IF status[r] = "pending" /\ Fresh(r)
                             THEN age[r] + 1 ELSE age[r]]
    /\ UNCHANGED <<status, lock, balance, charged, brokerVars, faulted, pc,
                   localVars>>

Midnight ==
    /\ midnights < MaxMidnights
    /\ midnights' = midnights + 1
    /\ NewDay
    /\ UNCHANGED <<dbVars, queued, faulted, pc, localVars>>

RequestStep(r) ==
    \/ RefuseInProgress(r) \/ FindStale(r) \/ SupersedeNext(r) \/ FlushStale(r)
    \/ ReserveGranted(r) \/ ReserveDenied(r) \/ CommitRun(r) \/ Dispatch(r)

WorkerStep(d) ==
    \/ Receive(d) \/ FlushRunning(d) \/ AnalysisSucceeds(d) \/ AnalysisFails(d)
    \/ ReadUser(d) \/ CommitResult(d) \/ Acknowledge(d)

\* Nothing is left to do: every request was answered, every message is gone.
AllDone ==
    /\ \A r \in Run : pc[Request(r)] \in RequestFinal /\ ~queued[r]
    /\ \A d \in Delivery : pc[d] \in WorkerFinal \cup {"idle"}
    /\ UNCHANGED vars

Next ==
    \/ \E r \in Run : Authenticate(r) \/ RequestStep(r) \/ RequestDies(r)
                      \/ Redeliver(r)
    \/ \E d \in Delivery : WorkerStep(d) \/ WorkerDies(d)
    \/ \E p \in Proc : ReleaseStep(p)
    \/ Tick
    \/ Midnight
    \/ AllDone

Spec == Init /\ [][Next]_vars

(***************************************************************************)
(* The API server and the workers keep running the steps they have begun   *)
(* (the AI client's timeout ends every call), time passes, and the broker  *)
(* redelivers the message of a worker that is gone.  Nothing obliges a     *)
(* user to ask, a process to die, or a duplicate to be delivered.          *)
(***************************************************************************)
Restore(r) == Redeliver(r) /\ \E d \in Delivery : d[1] = r /\ pc[d] = "gone"

Fairness ==
    /\ WF_vars(Tick)
    /\ \A r \in Run : WF_vars(RequestStep(r)) /\ WF_vars(Restore(r))
    /\ \A d \in Delivery : WF_vars(WorkerStep(d))
    /\ \A p \in Proc : WF_vars(ReleaseStep(p))

FairSpec == Spec /\ Fairness

-----------------------------------------------------------------------------
(***************************************************************************)
(* Properties.                                                             *)
(***************************************************************************)

\* A run is charged its cost at most once, however often its message is
\* delivered, whoever supersedes it and wherever workers die, as long as no
\* Redis call of its own settlement or release raised: settle() charges what
\* the run's hold says and deletes the hold (credit_service.py settle).
ChargeAtMostOnce == \A r \in Run : ~faulted[r] => charged[r] \in {0, Cost}

\* Two deliveries of one run are never inside the analysis together: the
\* second waits for the row lock its flush of "running" needs (tasks/seo.py).
Analysing(d) ==
    pc[d] \in {"analyzing", "read_user", "commit"} \cup RedisStep

OneAnalysisPerRun ==
    \A d, e \in Delivery :
        d[1] = e[1] /\ Analysing(d) /\ Analysing(e) => d = e

\* No worker looks for a row that is not committed: the reason trigger commits
\* before it dispatches ("skipped: run not found").
MessageHasRow ==
    /\ \A r \in Run : queued[r] => status[r] # "none"
    /\ \A d \in Delivery : pc[d] # "skipped"

\* While a run's hold is live the account's counter is too, for at least as
\* long: the counter never forgets credits a run can still settle.  It rests
\* on every reserve renewing the counter's expiry (RESERVE_LUA).
CounterOutlivesHolds ==
    \A r \in Run : hold[r] > 0 => holdTTL[r] > 0 /\ holdTTL[r] <= resTTL

\* A request answered 402, 409 or 429 holds no credits and leaves no run.
RefusalLeavesNothing ==
    \A r \in Run : pc[Request(r)] = "refused" =>
        hold[r] = 0 /\ status[r] = "none" /\ ~queued[r]

\* "Reservations expire automatically so a crashed worker never locks credits
\* forever": every hold goes away, and so does the account's counter once the
\* account has stopped asking for runs.
HoldsExpire ==
    /\ \A r \in Run : hold[r] > 0 ~> hold[r] = 0
    /\ reserved > 0 ~> reserved <= 0

\* A dispatched run ends completed or failed, unless the pool killed its task.
RunFinishes ==
    \A r \in Run : queued[r] ~> \/ status[r] \in {"completed", "failed"}
                                \/ \E d \in Delivery : d[1] = r /\ pc[d] = "killed"

(***************************************************************************)
(* The invariant behind ChargeAtMostOnce.  None of its parts is inductive  *)
(* alone: the charge is safe because the hold is read, charged and deleted *)
(* under the row lock, and because only the request, before it dispatches, *)
(* ever creates the hold.                                                  *)
(***************************************************************************)

\* Inside the analysis a delivery owns its run's row.
LockInv == \A d \in Delivery : Analysing(d) => lock[d[1]] = d

\* Nothing is delivered or charged before the request has dispatched, and the
\* row is committed by then.
DispatchInv ==
    /\ \A r \in Run :
         /\ queued[r] \/ charged[r] # 0 => pc[Request(r)] = "accepted"
         /\ pc[Request(r)] \in {"committed", "accepted"} => status[r] # "none"
    /\ \A d \in Delivery :
         /\ pc[d] # "idle" => pc[Request(d[1])] = "accepted"
         /\ pc[d] # "skipped"

\* A delivery settles or releases its own run.
VictimInv == \A d \in Delivery : victim[d] = d[1]

HoldInv == \A r \in Run : hold[r] \in {0, Cost}

\* d has read the hold it is going to charge.
HasRead(d) ==
    mode[d] = "settle" /\ pc[d] \in {"refund", "decr", "del", "commit"}

\* Either the charge is still to come, or the hold is gone for good.
OnceInv ==
    /\ ChargeAtMostOnce
    /\ \A r \in Run : ~faulted[r] /\ charged[r] # 0 => hold[r] = 0
    /\ \A d \in Delivery : HasRead(d) =>
         /\ seen[d] \in {0, Cost}
         /\ ~faulted[d[1]] =>
              /\ seen[d] # 0 => charged[d[1]] = 0
              /\ pc[d] = "commit" => hold[d[1]] = 0

ChargeInv ==
    LockInv /\ DispatchInv /\ VictimInv /\ HoldInv /\ OnceInv

(***************************************************************************)
(* The abstract specification RunCharge, and what its phases are here.     *)
(***************************************************************************)
Opening == {"idle", "authenticated", "supersede", "reserve"} \cup RedisStep

PhaseOf(r) ==
    CASE faulted[r]                         -> "faulted"
      [] ~faulted[r] /\ charged[r] = Cost   -> "charged"
      [] ~faulted[r] /\ charged[r] \notin {0, Cost} -> "overcharged"
      [] ~faulted[r] /\ charged[r] = 0 /\ hold[r] # 0 -> "held"
      [] OTHER -> IF pc[Request(r)] \in Opening THEN "new"
                  ELSE IF pc[Request(r)] \in {"refused", "dead"} THEN "over"
                  ELSE "gone"

Charging == INSTANCE RunCharge WITH phase <- [r \in Run |-> PhaseOf(r)]

\* Seen through that mapping every step is a step of RunCharge: a run is never
\* held again after it was charged or refused, and the charge is committed only
\* when its hold is gone (tasks/seo.py, credit_service.py settle, release).
KeepsThePromise == Charging!Spec
=============================================================================
