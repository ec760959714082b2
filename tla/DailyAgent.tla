----------------------------- MODULE DailyAgent ------------------------------
(***************************************************************************)
(* The daily agent of one account (tasks/agent.py): Celery Beat queues a   *)
(* run per eligible store, and each run goes through the workflow          *)
(*                                                                         *)
(*   start -> sync -> fan_out -> analyze (a chord) -> synthesize -> notify *)
(*                                                                         *)
(* one Celery message per task.  A worker slot takes a message, opens one  *)
(* READ COMMITTED transaction, and dispatches what follows when it has     *)
(* committed.  SQLAlchemy writes a column of the run's row only if the     *)
(* task gave it another value than the session had loaded (Write), and a   *)
(* flushed UPDATE locks the row until the transaction ends (RowFree).      *)
(* The credits are those of CreditStore; the listing sync is one step here *)
(* and has a module of its own, StoreSync.                                 *)
(*                                                                         *)
(* No code deletes a run, a store or a user, so "run not found" and "user  *)
(* not found" are unreachable and have no action.                          *)
(***************************************************************************)
EXTENDS CreditStore, FiniteSets

CONSTANTS
    Worker,          \* worker slots
    Listing,         \* listings that may be active in the store
    ListingCap,      \* listing_analysis_cap, or DEFAULT_LISTING_CAP
    Cost,            \* DAILY_RUN_COST
    InitialBalance,  \* users.credits_balance at the start
    Threshold,       \* LOW_CREDIT_THRESHOLDS of the tier
    MaxFires,        \* bound: times Beat fires
    MaxFaults,       \* bound: crashes, redeliveries, Redis errors, expiries
    NoListing        \* the listing of a message that names none

ASSUME DailyAssumption ==
    /\ ListingCap \in Nat \ {0}
    /\ Cost \in Nat \ {0}
    /\ InitialBalance \in Nat
    /\ Threshold \in Nat
    /\ MaxFires \in Nat
    /\ MaxFaults \in Nat
    /\ NoListing \notin Listing
    /\ Run # {}

VARIABLES
    balance,   \* committed users.credits_balance
    row,       \* row[r]: the committed agent_runs row of r
    analysed,  \* analysed[r]: committed seo_analyses rows of r
    digests,   \* digests[r]: committed "daily_synthesis" log rows of r
    notices,   \* low-credit notifications committed this billing cycle
    flagged,   \* Redis: low_credit_notified:{user}:{cycle} exists
    lapsed,    \* its 30 days are over and the cycle is not
    queue,     \* messages the broker has to deliver
    chord,     \* chord[r][k]: parts of the chord of line k still to return
    work,      \* work[w]: the task slot w executes
    fired,     \* runs a start message was queued for
    faults,    \* crashes, redeliveries and Redis errors so far
    raised,    \* history: runs whose settlement met a Redis error
    broken,    \* history: runs whose workflow lost a message for good
    closed     \* history: runs a notify has committed

dailyDbVars == <<balance, row, analysed, digests, notices>>
queueVars == <<queue, chord, fired>>
histVars == <<faults, raised, broken, closed>>
flagVars == <<flagged, lapsed>>
agentVars == <<creditVars, dailyDbVars, flagVars, queueVars, work, histVars>>

Task == {"start", "sync", "fan_out", "analyze", "synthesize", "notify"}
RunStatus == {"none", "pending", "running", "completed", "cancelled"}
Locking == {"picking", "gather", "summarize"}
RedisStep == {"get", "decr", "del", "low", "flag"}
Label == Task \cup Locking \cup RedisStep
           \cup {"free", "reserve", "insert", "launch", "returned", "finish", "notice"}

(***************************************************************************)
(* A message.  The broker may deliver one twice; the copy carries the      *)
(* number of the fault that made it, and the workflow a copy starts is a   *)
(* line of its own, with its own chord.                                    *)
(***************************************************************************)
Message ==
    [task: Task, run: Run, listing: Listing \cup {NoListing},
     line: 0 .. MaxFaults, copy: 0 .. MaxFaults]

StartMessage(r, k) ==
    [task |-> "start", run |-> r, listing |-> NoListing, line |-> 0, copy |-> k]

Line(m) == IF m.task = "analyze" \/ m.copy = 0 THEN m.line ELSE m.copy

Follow(m, task, l) ==
    [m EXCEPT !.task = task, !.listing = l, !.line = Line(m), !.copy = 0]

\* progress_pct stands for current_phase too; summary is analyzed_count, or
\* -1 for NULL; total counts the AI calls whose tokens were added up.
Row == [status: RunStatus, progress: {0, 20, 80, 100}, summary: Nat \cup {-1},
        used: Nat, total: Nat]

NoRow == [status |-> "none", progress |-> 0, summary |-> -1, used |-> 0,
          total |-> 0]

\* A slot's session: the row as it loaded it, the balance as it loaded it, the
\* hold or the number of analyses it read, the value for credits_used.
Job == [at: Label, msg: Message, saw: Row, bal: Nat, got: Nat, used: Nat]

AnyRun == CHOOSE r \in Run : TRUE
Free == [at |-> "free", msg |-> StartMessage(AnyRun, 0), saw |-> NoRow,
         bal |-> 0, got |-> 0, used |-> 0]

DailyTypeOK ==
    /\ CreditTypeOK
    /\ balance \in Nat
    /\ row \in [Run -> Row]
    /\ analysed \in [Run -> Nat]
    /\ digests \in [Run -> Nat]
    /\ notices \in Nat
    /\ flagged \in BOOLEAN
    /\ lapsed \in BOOLEAN
    /\ queue \subseteq Message
    /\ chord \in [Run -> [0 .. MaxFaults -> SUBSET Listing]]
    /\ work \in [Worker -> Job]
    /\ fired \subseteq Run
    /\ faults \in 0 .. MaxFaults
    /\ raised \subseteq Run
    /\ broken \subseteq Run
    /\ closed \subseteq Run

DailyInit ==
    /\ CreditInit
    /\ balance = InitialBalance
    /\ row = [r \in Run |-> NoRow]
    /\ analysed = [r \in Run |-> 0]
    /\ digests = [r \in Run |-> 0]
    /\ notices = 0
    /\ flagged = FALSE
    /\ lapsed = FALSE
    /\ queue = {}
    /\ chord = [r \in Run |-> [k \in 0 .. MaxFaults |-> {}]]
    /\ work = [w \in Worker |-> Free]
    /\ fired = {}
    /\ faults = 0
    /\ raised = {}
    /\ broken = {}
    /\ closed = {}

At(w, label) == work[w].at = label
Doing(w, task) == work[w].msg.task = task
RunOf(w) == work[w].msg.run
Goto(w, label) == work' = [work EXCEPT ![w].at = label]
Done(w) == work' = [work EXCEPT ![w] = Free]

\* No other transaction has flushed an UPDATE of w's run.
RowFree(w) ==
    \A v \in Worker \ {w} : RunOf(v) = RunOf(w) => work[v].at \notin Locking

\* The UPDATE of w's run: the columns the session changed, and only those.
Write(w, new) ==
    LET r == RunOf(w)  saw == work[w].saw
    IN row' = [row EXCEPT ![r] =
                 [c \in DOMAIN NoRow |->
                    IF new[c] # saw[c] THEN new[c] ELSE row[r][c]]]

-----------------------------------------------------------------------------
(* Beat and the broker. *)

\* The ids of new runs are taken in one order.
NextRun == CHOOSE r \in Run : r \notin fired

\* daily_agent_fan_out: 07:00 UTC, for a store that is active and enabled.
Fire ==
    /\ fired # Run /\ Cardinality(fired) < MaxFires
    /\ queue' = queue \cup {StartMessage(NextRun, 0)}
    /\ fired' = fired \cup {NextRun}
    /\ UNCHANGED <<creditVars, dailyDbVars, flagVars, chord, work, histVars>>

\* A free slot takes a message; every task but sync begins by loading the run.
\* The slots are alike: one that is free is as good as another.
Take ==
    LET w == CHOOSE v \in Worker : At(v, "free")
    IN /\ \E v \in Worker : At(v, "free")
       /\ \E m \in queue :
            /\ queue' = queue \ {m}
            /\ work' = [work EXCEPT ![w] =
                 [Free EXCEPT !.at = m.task, !.msg = m,
                    !.saw = IF m.task = "sync" THEN NoRow ELSE row[m.run],
                    !.used = IF m.task = "notify" THEN row[m.run].used ELSE 0]]
       /\ UNCHANGED <<creditVars, dailyDbVars, flagVars, chord, fired, histVars>>

\* The message comes again.  A start message that comes again makes a new run.
Again(m) ==
    /\ m.task = "start" => fired # Run
    /\ queue' = queue \cup
         {IF m.task = "start" THEN StartMessage(NextRun, faults')
          ELSE [m EXCEPT !.copy = faults']}
    /\ fired' = IF m.task = "start" THEN fired \cup {NextRun} ELSE fired

Fault(w) == ~At(w, "free") /\ faults < MaxFaults /\ faults' = faults + 1

\* The broker delivers a message while its first delivery is being worked on.
Redeliver(w) ==
    /\ Fault(w)
    /\ Again(work[w].msg)
    /\ UNCHANGED <<creditVars, dailyDbVars, flagVars, chord, work, raised, broken,
                   closed>>

(***************************************************************************)
(* The worker dies and its message is delivered again, or the pool kills   *)
(* the task (or the task raises) and the message is acknowledged: then the *)
(* workflow ends there.  A start that has inserted its run and dies leaves *)
(* it for good: the message that comes again inserts another.              *)
(***************************************************************************)
Crash(w) ==
    /\ Fault(w)
    /\ Done(w)
    /\ \/ /\ Again(work[w].msg)
          /\ broken' = IF Doing(w, "start") THEN broken \cup {RunOf(w)} ELSE broken
       \/ /\ broken' = broken \cup {RunOf(w)}
          /\ UNCHANGED <<queue, fired>>
    /\ UNCHANGED <<creditVars, dailyDbVars, flagVars, chord, raised, closed>>

-----------------------------------------------------------------------------
(* run_daily_agent *)

\* "store not eligible": the owner has disabled the agent, or the store is no
\* longer active, since Beat saw it.
StartSkips(w) ==
    /\ At(w, "start")
    /\ Done(w)
    /\ UNCHANGED <<creditVars, dailyDbVars, flagVars, queueVars, histVars>>

StartLoads(w) ==
    /\ At(w, "start")
    /\ work' = [work EXCEPT ![w].at = "reserve", ![w].bal = balance]
    /\ UNCHANGED <<creditVars, dailyDbVars, flagVars, queueVars, histVars>>

ReserveGranted(w) ==
    /\ At(w, "reserve")
    /\ Reserve(RunOf(w), Cost, work[w].bal)
    /\ Goto(w, "insert")
    /\ UNCHANGED <<dailyDbVars, flagVars, queueVars, histVars>>

\* The run is committed as cancelled and no workflow is launched.
ReserveDenied(w) ==
    /\ At(w, "reserve")
    /\ Denied(Cost, work[w].bal)
    /\ Write(w, [NoRow EXCEPT !.status = "cancelled"])
    /\ Done(w)
    /\ UNCHANGED <<balance, analysed, digests, notices, flagVars,
                   queueVars, histVars>>

InsertRun(w) ==
    /\ At(w, "insert")
    /\ Write(w, [NoRow EXCEPT !.status = "pending"])
    /\ Goto(w, "launch")
    /\ UNCHANGED <<creditVars, balance, analysed, digests, notices,
                   flagVars, queueVars, histVars>>

\* The task is done and task `next` of the run's workflow is queued.
Proceed(w, next) ==
    /\ queue' = queue \cup {Follow(work[w].msg, next, NoListing)}
    /\ Done(w)
    /\ UNCHANGED <<creditVars, dailyDbVars, flagVars, fired, histVars>>

LaunchChain(w) ==
    At(w, "launch") /\ Doing(w, "start") /\ Proceed(w, "sync") /\ UNCHANGED chord

\* sync_store_listings returned: whatever it returned, the chain goes on.
SyncReturns(w) == At(w, "sync") /\ Proceed(w, "fan_out") /\ UNCHANGED chord

\* Its retries are exhausted: the chain ends and the run stays as it is.
SyncGivesUp(w) ==
    /\ At(w, "sync")
    /\ broken' = broken \cup {RunOf(w)}
    /\ Done(w)
    /\ UNCHANGED <<creditVars, dailyDbVars, flagVars, queueVars, faults, raised,
                   closed>>

-----------------------------------------------------------------------------
(* fan_out_seo *)

FanOutFlushes(w) ==
    /\ At(w, "fan_out") /\ RowFree(w)
    /\ Goto(w, "picking")
    /\ UNCHANGED <<creditVars, dailyDbVars, flagVars, queueVars, histVars>>

FanOutCommits(w) ==
    /\ At(w, "picking")
    /\ Write(w, [work[w].saw EXCEPT !.status = "running", !.progress = 20])
    /\ Goto(w, "launch")
    /\ UNCHANGED <<creditVars, balance, analysed, digests, notices,
                   flagVars, queueVars, histVars>>

NothingToAnalyze(w) ==
    At(w, "launch") /\ Doing(w, "fan_out") /\ Proceed(w, "synthesize")
                    /\ UNCHANGED chord

\* chord(header, finish): one part per active listing, up to the cap.
LaunchChord(w) ==
    LET m == work[w].msg
    IN /\ At(w, "launch") /\ Doing(w, "fan_out")
       /\ \E S \in SUBSET Listing \ {{}} :
            /\ Cardinality(S) <= ListingCap
            /\ chord' = [chord EXCEPT ![m.run][Line(m)] = S]
            /\ queue' = queue \cup {Follow(m, "analyze", l) : l \in S}
       /\ Done(w)
       /\ UNCHANGED <<creditVars, dailyDbVars, flagVars, fired, histVars>>

-----------------------------------------------------------------------------
(* analyze_for_daily *)

\* Variant: the exception leaves the task, and its part never returns.
AnalysisRaises(w) ==
    /\ At(w, "analyze")
    /\ Done(w)
    /\ UNCHANGED <<creditVars, dailyDbVars, flagVars, queueVars, histVars>>

\* "One bad listing must not abort the whole daily run".
AnalysisFails(w) ==
    /\ At(w, "analyze")
    /\ Goto(w, "returned")
    /\ UNCHANGED <<creditVars, dailyDbVars, flagVars, queueVars, histVars>>

\* Variant: the tokens are added once more.
AnalysisCountsTwice(w) ==
    /\ At(w, "analyze") /\ RowFree(w)
    /\ analysed' = [analysed EXCEPT ![RunOf(w)] = @ + 1]
    /\ Write(w, [work[w].saw EXCEPT !.total = @ + 2])
    /\ Goto(w, "returned")
    /\ UNCHANGED <<creditVars, balance, digests, notices, flagVars, queueVars,
                   histVars>>

\* The analysis, its log row and the run's totals are committed together; the
\* first flush locks the run.
AnalysisCommits(w) ==
    /\ At(w, "analyze") /\ RowFree(w)
    /\ analysed' = [analysed EXCEPT ![RunOf(w)] = @ + 1]
    /\ Write(w, [work[w].saw EXCEPT !.total = @ + 1])
    /\ Goto(w, "returned")
    /\ UNCHANGED <<creditVars, balance, digests, notices, flagVars,
                   queueVars, histVars>>

\* Variant: the callback is queued when the first part has returned.
AnyPartCompletes(m) == m.listing \in chord[m.run][m.line]

\* The last part of a chord to return queues its callback, once.
Completes(m) == chord[m.run][m.line] = {m.listing}

PartReturns(w) ==
    LET m == work[w].msg
    IN /\ At(w, "returned") /\ Doing(w, "analyze")
       /\ chord' = [chord EXCEPT ![m.run][m.line] = @ \ {m.listing}]
       /\ IF Completes(m) THEN Proceed(w, "synthesize")
          ELSE /\ Done(w)
               /\ UNCHANGED <<creditVars, dailyDbVars, flagVars, queue, fired, histVars>>

-----------------------------------------------------------------------------
(* synthesize_daily *)

SynthesisFlushes(w) ==
    /\ At(w, "synthesize") /\ RowFree(w)
    /\ Goto(w, "gather")
    /\ UNCHANGED <<creditVars, dailyDbVars, flagVars, queueVars, histVars>>

\* _gather_analyses reads what is committed now; then the AI is called.
Gather(w) ==
    /\ At(w, "gather")
    /\ work' = [work EXCEPT ![w].at = "summarize", ![w].got = analysed[RunOf(w)]]
    /\ UNCHANGED <<creditVars, dailyDbVars, flagVars, queueVars, histVars>>

\* No analyses and an AI that failed both give a summary without a log row.
SynthesisCommits(w) ==
    /\ At(w, "summarize")
    /\ \E ai \in IF work[w].got = 0 THEN {0} ELSE {0, 1} :
         /\ Write(w, [work[w].saw EXCEPT !.progress = 80, !.summary = work[w].got,
                                         !.total = @ + ai])
         /\ digests' = [digests EXCEPT ![RunOf(w)] = @ + ai]
    /\ Goto(w, "returned")
    /\ UNCHANGED <<creditVars, balance, analysed, notices, flagVars,
                   queueVars, histVars>>

SynthesisReturns(w) ==
    At(w, "returned") /\ Doing(w, "synthesize") /\ Proceed(w, "notify")
                      /\ UNCHANGED chord

-----------------------------------------------------------------------------
(* notify_daily_complete: settle(), command by command, with no row lock. *)

LoadUser(w) ==
    /\ At(w, "notify")
    /\ work' = [work EXCEPT ![w].at = "get", ![w].bal = balance]
    /\ UNCHANGED <<creditVars, dailyDbVars, flagVars, queueVars, histVars>>

GetHold(w) ==
    LET h == hold[RunOf(w)]
    IN /\ At(w, "get")
       /\ work' = [work EXCEPT ![w].at = IF h = 0 THEN "del" ELSE "decr", ![w].got = h]
       /\ UNCHANGED <<creditVars, dailyDbVars, flagVars, queueVars, histVars>>

Decrement(w) ==
    /\ At(w, "decr")
    /\ DecrReserved(work[w].got)
    /\ Goto(w, "del")
    /\ UNCHANGED <<dailyDbVars, flagVars, queueVars, histVars>>

\* run.credits_used = settle(...)
Delete(w) ==
    /\ At(w, "del")
    /\ DeleteHold(RunOf(w))
    /\ work' = [work EXCEPT ![w].at = "low", ![w].used = work[w].got]
    /\ UNCHANGED <<dailyDbVars, flagVars, queueVars, histVars>>

\* Variant: without the max.
DeductedInFull(w) == work[w].bal - work[w].got

\* max(0, credits_balance - cost)
Deducted(w) ==
    IF work[w].bal < work[w].got THEN 0 ELSE work[w].bal - work[w].got

\* check_and_notify_low_credits: nothing to do while enough is available.
CheckLow(w) ==
    /\ At(w, "low")
    /\ Goto(w, IF Deducted(w) - reserved >= Threshold THEN "finish" ELSE "flag")
    /\ UNCHANGED <<creditVars, dailyDbVars, flagVars, queueVars, histVars>>

\* Variant: SET without NX.
SetFlagAnyway(w) ==
    /\ At(w, "flag")
    /\ flagged' = TRUE
    /\ Goto(w, "notice")
    /\ UNCHANGED <<creditVars, dailyDbVars, lapsed, queueVars, histVars>>

\* SET NX "doubles as the once-per-cycle guard".
SetFlag(w) ==
    /\ At(w, "flag")
    /\ flagged' = TRUE
    /\ Goto(w, IF flagged THEN "finish" ELSE "notice")
    /\ UNCHANGED <<creditVars, dailyDbVars, lapsed, queueVars, histVars>>

\* NOTIFIED_FLAG_TTL_SECONDS is 30 days and the key's cycle a calendar month: in
\* a month of 31 days a flag set on the first expires on the last, long after
\* whoever set it has ended.  A second one outlives the month.
FlagExpires ==
    /\ flagged /\ ~lapsed
    /\ \A w \in Worker : ~At(w, "notice")
    /\ flagged' = FALSE
    /\ lapsed' = TRUE
    /\ UNCHANGED <<creditVars, dailyDbVars, queueVars, work, histVars>>

\* A Redis call raises; both blocks swallow it.  What settle() had done to the
\* balance before it raised is committed with the rest.
RedisRaises(w) ==
    LET settling == work[w].at \in {"get", "decr", "del"}
    IN /\ Fault(w) /\ work[w].at \in RedisStep
       /\ raised' = IF settling THEN raised \cup {RunOf(w)} ELSE raised
       /\ Goto(w, IF settling THEN "low" ELSE "finish")
       /\ UNCHANGED <<creditVars, dailyDbVars, flagVars, queueVars, broken, closed>>

NotifyCommits(w) ==
    /\ work[w].at \in {"finish", "notice"} /\ RowFree(w)
    /\ Write(w, [work[w].saw EXCEPT !.status = "completed", !.progress = 100,
                                    !.used = work[w].used])
    /\ balance' = IF Deducted(w) = work[w].bal THEN balance ELSE Deducted(w)
    /\ notices' = IF At(w, "notice") THEN notices + 1 ELSE notices
    /\ closed' = closed \cup {RunOf(w)}
    /\ Done(w)
    /\ UNCHANGED <<creditVars, analysed, digests, flagVars, queueVars,
                   faults, raised, broken>>

-----------------------------------------------------------------------------
Step(w) ==
    \/ StartSkips(w) \/ StartLoads(w) \/ ReserveGranted(w) \/ ReserveDenied(w) \/ InsertRun(w)
    \/ LaunchChain(w) \/ SyncReturns(w) \/ SyncGivesUp(w)
    \/ FanOutFlushes(w) \/ FanOutCommits(w) \/ NothingToAnalyze(w) \/ LaunchChord(w)
    \/ AnalysisFails(w) \/ AnalysisCommits(w) \/ PartReturns(w)
    \/ SynthesisFlushes(w) \/ Gather(w) \/ SynthesisCommits(w) \/ SynthesisReturns(w)
    \/ LoadUser(w) \/ GetHold(w) \/ Decrement(w) \/ Delete(w)
    \/ CheckLow(w) \/ SetFlag(w) \/ NotifyCommits(w)

\* RESERVATION_TTL_SECONDS pass while runs are in flight.
ExpireHolds ==
    /\ SomethingExpires
    /\ faults < MaxFaults /\ faults' = faults + 1
    /\ PassTime
    /\ UNCHANGED <<dailyDbVars, flagVars, queueVars, work, raised, broken, closed>>

Idle == queue = {} /\ \A w \in Worker : At(w, "free")

TasksNext ==
    \/ Fire \/ Take \/ ExpireHolds
    \/ \E w \in Worker : Step(w) \/ Redeliver(w) \/ Crash(w) \/ RedisRaises(w)

DailyNext == TasksNext \/ FlagExpires

\* Workers take what is queued and finish what they take: every AI call and
\* every request ends by its timeout, and a dead worker is replaced.
DailyFairness == WF_agentVars(Take) /\ \A w \in Worker : WF_agentVars(Step(w))

-----------------------------------------------------------------------------
(* Properties. *)

\* Daily runs cost the account at most DAILY_RUN_COST each, even when a notify
\* is delivered twice and both deliveries settle at once: each loads the
\* balance before it reads the hold, and the hold is deleted before the
\* deduction commits (tasks/agent.py notify, credit_service.py settle).
BalanceFallsOnce ==
    raised = {} => InitialBalance - balance <= Cost * Cardinality(closed)

\* The digest covers every analysis made for it: the callback runs after all
\* parts of its chord (of line k) have returned.  Only a line that a redelivery
\* began beside the first may still be analysing.
DigestIsComplete ==
    \A r \in Run : faults = 0 /\ row[r].summary # -1 => row[r].summary = analysed[r]

\* The totals of a run never claim more AI calls than its logs hold, whatever
\* is lost between tasks that add to them at once.
TotalsAreLogged == \A r \in Run : row[r].total <= analysed[r] + digests[r]

\* A flag lets one notification through, also when two deliveries settle at once
\* and a redelivered one finds the balance low again; so a cycle has at most the
\* two that its length and the flag's allow (check_and_notify_low_credits).
OneNoticePerFlag == notices <= IF lapsed THEN 2 ELSE 1

\* "one in-app notification ... per billing cycle" (notification_service.py).
OneNoticePerCycle == notices <= 1

\* A run whose workflow was launched completes, unless its sync gave up or a
\* worker's death took its message: no chord waits for a part for ever, and no
\* two tasks wait for one row.
RunCompletes ==
    \A r \in Run : row[r].status = "pending" ~>
                     row[r].status = "completed" \/ r \in broken
=============================================================================
