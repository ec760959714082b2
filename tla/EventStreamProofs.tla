------------------------- MODULE EventStreamProofs -------------------------
(***************************************************************************)
(* Theorems about the daily agent and the browsers that follow its runs,   *)
(* for any number of runs, workers and listings, and any bounds.  DailyInv *)
(* collects what makes the properties inductive, part by part.             *)
(***************************************************************************)
EXTENDS EventStream, FiniteSetTheorems, TLAPS

USE CreditAssumption, DailyAssumption, StreamAssumption DEF flagVars

Busy(w) == work[w].at # "free"
Runs(w, r) == Busy(w) /\ RunOf(w) = r

-----------------------------------------------------------------------------
(* What the model's operators do. *)

LEMMA StartFacts ==
    ASSUME NEW r \in Run, NEW k \in 0 .. MaxFaults
    PROVE  LET m == StartMessage(r, k)
           IN /\ m \in Message /\ m.task = "start" /\ m.run = r
              /\ m.line = 0 /\ m.copy = k /\ m.listing = NoListing
  BY DEF Message, StartMessage, Task

LEMMA FollowFacts ==
    ASSUME NEW m \in Message, NEW task \in Task, NEW l \in Listing \cup {NoListing}
    PROVE  LET n == Follow(m, task, l)
           IN /\ n \in Message /\ n.task = task /\ n.run = m.run
              /\ n.listing = l /\ n.line = Line(m) /\ n.copy = 0
              /\ Line(m) \in {m.line, m.copy}
  <1>1. Line(m) \in {m.line, m.copy} /\ m.line \in 0 .. MaxFaults /\ m.copy \in 0 .. MaxFaults
    BY DEF Message, Line
  <1>2. 0 \in 0 .. MaxFaults
    OBVIOUS
  <1> QED BY <1>1, <1>2 DEF Message, Follow

LEMMA CopyFacts ==
    ASSUME NEW m \in Message, NEW k \in 0 .. MaxFaults
    PROVE  LET n == [m EXCEPT !.copy = k]
           IN /\ n \in Message /\ n.task = m.task /\ n.run = m.run
              /\ n.listing = m.listing /\ n.line = m.line /\ n.copy = k
  BY DEF Message

LEMMA RowFacts ==
    /\ NoRow \in Row /\ NoRow.status = "none" /\ NoRow.progress = 0
    /\ NoRow.summary = -1 /\ NoRow.used = 0 /\ NoRow.total = 0
    /\ DOMAIN NoRow = {"status", "progress", "summary", "used", "total"}
  BY DEF NoRow, Row, RunStatus

LEMMA FreeFacts ==
    /\ Free \in Job /\ Free.at = "free" /\ Free.saw = NoRow
    /\ Free.bal = 0 /\ Free.got = 0 /\ Free.used = 0
  <1>1. AnyRun \in Run
    BY DEF AnyRun
  <1>2. StartMessage(AnyRun, 0) \in Message
    BY <1>1, StartFacts
  <1> QED BY <1>2, RowFacts DEF Free, Job, Label

LEMMA NextRunFacts == fired \subseteq Run /\ fired # Run => NextRun \in Run \ fired
  BY DEF NextRun

\* An UPDATE writes one row, and the columns the session has changed.
LEMMA WriteRow ==
    ASSUME DailyTypeOK, NEW w \in Worker, NEW new \in Row, Write(w, new)
    PROVE  LET r == RunOf(w)
               saw == work[w].saw
           IN /\ row' \in [Run -> Row]
              /\ \A q \in Run : q # r => row'[q] = row[q]
              /\ row'[r].status = IF new.status # saw.status THEN new.status
                                  ELSE row[r].status
              /\ row'[r].progress = IF new.progress # saw.progress THEN new.progress
                                    ELSE row[r].progress
              /\ row'[r].summary = IF new.summary # saw.summary THEN new.summary
                                   ELSE row[r].summary
              /\ row'[r].used = IF new.used # saw.used THEN new.used ELSE row[r].used
              /\ row'[r].total = IF new.total # saw.total THEN new.total ELSE row[r].total
  <1> DEFINE r == RunOf(w)
             saw == work[w].saw
             t == [c \in {"status", "progress", "summary", "used", "total"} |->
                     IF new[c] # saw[c] THEN new[c] ELSE row[r][c]]
  <1>1. r \in Run /\ saw \in Row /\ row[r] \in Row /\ row' = [row EXCEPT ![r] = t]
    BY RowFacts DEF DailyTypeOK, Job, Message, RunOf, Write
  <1>2. t = [status |-> t["status"], progress |-> t["progress"],
             summary |-> t["summary"], used |-> t["used"], total |-> t["total"]]
    OBVIOUS
  <1>3. t \in Row
    BY <1>1, <1>2 DEF Row
  <1> HIDE DEF r, saw
  <1>4. row' \in [Run -> Row] /\ (\A q \in Run : q # r => row'[q] = row[q]) /\ row'[r] = t
    BY <1>1, <1>3 DEF DailyTypeOK
  <1> QED BY <1>4 DEF r, saw

\* The rows a task writes.
LEMMA RowColumns ==
    ASSUME NEW saw \in Row, NEW n \in Nat
    PROVE  /\ \A st \in RunStatus : [NoRow EXCEPT !.status = st] \in Row
           /\ [saw EXCEPT !.status = "running", !.progress = 20] \in Row
           /\ [saw EXCEPT !.total = @ + 1] \in Row
           /\ [saw EXCEPT !.progress = 80, !.summary = n, !.total = @ + 0] \in Row
           /\ [saw EXCEPT !.progress = 80, !.summary = n, !.total = @ + 1] \in Row
           /\ [saw EXCEPT !.status = "completed", !.progress = 100, !.used = n] \in Row
  <1>1. saw.total + 0 \in Nat /\ saw.total + 1 \in Nat /\ n \in Nat \cup {-1}
    BY DEF Row
  <1>2. [saw EXCEPT !.total = @ + 1] \in Row
    BY <1>1 DEF Row
  <1>3. \A t \in Nat : [saw EXCEPT !.progress = 80, !.summary = n, !.total = t] \in Row
    BY <1>1 DEF Row
  <1>4. [saw EXCEPT !.status = "completed", !.progress = 100, !.used = n] \in Row
    BY DEF Row, RunStatus
  <1>5. [saw EXCEPT !.status = "running", !.progress = 20] \in Row
    BY DEF Row, RunStatus
  <1>6. \A st \in RunStatus : [NoRow EXCEPT !.status = st] \in Row
    BY DEF NoRow, Row, RunStatus
  <1> QED BY <1>1, <1>2, <1>3, <1>4, <1>5, <1>6

LEMMA GotoFacts ==
    ASSUME DailyTypeOK, NEW w \in Worker, NEW label \in Label, Goto(w, label)
    PROVE  /\ work' \in [Worker -> Job]
           /\ \A v \in Worker : v # w => work'[v] = work[v]
           /\ work'[w].at = label
           /\ work'[w].msg = work[w].msg /\ work'[w].saw = work[w].saw
           /\ work'[w].bal = work[w].bal /\ work'[w].got = work[w].got
           /\ work'[w].used = work[w].used
  <1> DEFINE j == [work[w] EXCEPT !.at = label]
  <1>1. work[w] \in Job /\ j \in Job
    BY DEF DailyTypeOK, Job
  <1>2. work' = [work EXCEPT ![w] = j]
    BY DEF Goto
  <1>3. /\ j.at = label /\ j.msg = work[w].msg /\ j.saw = work[w].saw
        /\ j.bal = work[w].bal /\ j.got = work[w].got /\ j.used = work[w].used
    BY <1>1 DEF Job
  <1> HIDE DEF j
  <1> QED BY <1>1, <1>2, <1>3 DEF DailyTypeOK

LEMMA DoneFacts ==
    ASSUME DailyTypeOK, NEW w \in Worker, Done(w)
    PROVE  /\ work' \in [Worker -> Job]
           /\ \A v \in Worker : v # w => work'[v] = work[v]
           /\ work'[w] = Free /\ work'[w].at = "free"
  BY FreeFacts DEF Done, DailyTypeOK

-----------------------------------------------------------------------------
(* The steps of a slot, by what they may change. *)

\* The slot goes on: its place, the credits and the flag.
MoveStep(w) ==
    \/ StartLoads(w) \/ ReserveGranted(w) \/ FanOutFlushes(w) \/ AnalysisFails(w)
    \/ SynthesisFlushes(w) \/ Gather(w) \/ LoadUser(w) \/ GetHold(w) \/ Decrement(w)
    \/ Delete(w) \/ CheckLow(w) \/ SetFlag(w) \/ RedisRaises(w)

\* The transaction commits: the database.
WriteStep(w) ==
    \/ ReserveDenied(w) \/ InsertRun(w) \/ FanOutCommits(w) \/ AnalysisCommits(w)
    \/ SynthesisCommits(w) \/ NotifyCommits(w)

\* The task ends: what it queues.
SendStep(w) ==
    \/ StartSkips(w) \/ LaunchChain(w) \/ SyncReturns(w) \/ SyncGivesUp(w)
    \/ NothingToAnalyze(w) \/ LaunchChord(w) \/ PartReturns(w) \/ SynthesisReturns(w)

LEMMA StepKinds ==
    ASSUME NEW w \in Worker, Step(w) \/ RedisRaises(w)
    PROVE  MoveStep(w) \/ WriteStep(w) \/ SendStep(w)
  BY DEF Step, MoveStep, WriteStep, SendStep

-----------------------------------------------------------------------------
(* The types. *)

\* A slot at work on a task is where that task can be.
LabelInv ==
    \A w \in Worker : Busy(w) =>
        /\ Doing(w, "start") => work[w].at \in {"start", "reserve", "insert", "launch"}
        /\ Doing(w, "sync") => At(w, "sync")
        /\ Doing(w, "fan_out") => work[w].at \in {"fan_out", "picking", "launch"}
        /\ Doing(w, "analyze") => work[w].at \in {"analyze", "returned"}
        /\ Doing(w, "synthesize") =>
             work[w].at \in {"synthesize", "gather", "summarize", "returned"}
        /\ Doing(w, "notify") =>
             work[w].at \in {"notify", "get", "decr", "del", "low", "flag", "finish", "notice"}

LEMMA TakeFacts ==
    ASSUME DailyTypeOK, Take
    PROVE  \E w \in Worker, m \in queue :
              /\ ~Busy(w) /\ queue' = queue \ {m}
              /\ work' \in [Worker -> Job]
              /\ \A v \in Worker : v # w => work'[v] = work[v]
              /\ work'[w].at = m.task /\ work'[w].msg = m
              /\ work'[w].saw = IF m.task = "sync" THEN NoRow ELSE row[m.run]
              /\ work'[w].bal = 0 /\ work'[w].got = 0
  <1> DEFINE w == CHOOSE v \in Worker : At(v, "free")
  <1>1. w \in Worker /\ At(w, "free")
    BY DEF Take
  <1>2. PICK m \in queue :
          /\ queue' = queue \ {m}
          /\ work' = [work EXCEPT ![w] =
                 [Free EXCEPT !.at = m.task, !.msg = m,
                    !.saw = IF m.task = "sync" THEN NoRow ELSE row[m.run],
                    !.used = IF m.task = "notify" THEN row[m.run].used ELSE 0]]
    BY DEF Take
  <1> DEFINE j == [Free EXCEPT !.at = m.task, !.msg = m,
                    !.saw = IF m.task = "sync" THEN NoRow ELSE row[m.run],
                    !.used = IF m.task = "notify" THEN row[m.run].used ELSE 0]
  <1>3. m \in Message /\ m.task \in Label /\ m.run \in Run
    BY DEF DailyTypeOK, Message, Label
  <1>4. row[m.run] \in Row /\ row[m.run].used \in Nat
    BY <1>3 DEF DailyTypeOK, Row
  <1>5. /\ j \in Job /\ j.at = m.task /\ j.msg = m
        /\ j.saw = IF m.task = "sync" THEN NoRow ELSE row[m.run]
        /\ j.bal = 0 /\ j.got = 0
    BY <1>3, <1>4, FreeFacts, RowFacts DEF Job
  <1> HIDE DEF w, j
  <1>6. /\ work' \in [Worker -> Job] /\ work'[w] = j
        /\ \A v \in Worker : v # w => work'[v] = work[v]
    BY <1>1, <1>2, <1>5 DEF DailyTypeOK, j
  <1> QED BY <1>1, <1>2, <1>5, <1>6 DEF Busy, At

\* Where a slot that goes on goes.
Edge(a, b) ==
    \/ a = "start" /\ b = "reserve"
    \/ a = "reserve" /\ b = "insert"
    \/ a = "fan_out" /\ b = "picking"
    \/ a = "analyze" /\ b = "returned"
    \/ a = "synthesize" /\ b = "gather"
    \/ a = "gather" /\ b = "summarize"
    \/ a = "notify" /\ b = "get"
    \/ a = "get" /\ b \in {"decr", "del", "low"}
    \/ a = "decr" /\ b \in {"del", "low"}
    \/ a = "del" /\ b = "low"
    \/ a = "low" /\ b \in {"flag", "finish"}
    \/ a = "flag" /\ b \in {"notice", "finish"}

LEMMA MoveFacts ==
    ASSUME DailyTypeOK, NEW w \in Worker, MoveStep(w)
    PROVE  /\ work' \in [Worker -> Job]
           /\ \A v \in Worker : v # w => work'[v] = work[v]
           /\ Edge(work[w].at, work'[w].at)
           /\ work'[w].msg = work[w].msg /\ work'[w].saw = work[w].saw
           /\ UNCHANGED <<dailyDbVars, queueVars, broken, closed>>
  <1>0. work[w] \in Job
    BY DEF DailyTypeOK
  <1>1. CASE \/ ReserveGranted(w) \/ FanOutFlushes(w) \/ AnalysisFails(w)
             \/ SynthesisFlushes(w) \/ Decrement(w) \/ CheckLow(w) \/ SetFlag(w)
             \/ RedisRaises(w)
    <2>1. UNCHANGED <<dailyDbVars, queueVars, broken, closed>>
      BY <1>1 DEF ReserveGranted, FanOutFlushes, AnalysisFails, SynthesisFlushes,
         Decrement, CheckLow, SetFlag, RedisRaises, histVars
    <2>2. \E label \in Label : Goto(w, label) /\ Edge(work[w].at, label)
      BY <1>1 DEF ReserveGranted, FanOutFlushes, AnalysisFails, SynthesisFlushes,
         Decrement, CheckLow, SetFlag, RedisRaises, At, Edge, RedisStep, Label, Locking
    <2> QED BY <2>1, <2>2, GotoFacts
  <1>2. CASE StartLoads(w) \/ Gather(w) \/ LoadUser(w) \/ GetHold(w) \/ Delete(w)
    <2>1. UNCHANGED <<dailyDbVars, queueVars, broken, closed>>
      BY <1>2 DEF StartLoads, Gather, LoadUser, GetHold, Delete, histVars
    <2>2. PICK j \in Job : /\ work' = [work EXCEPT ![w] = j]
                           /\ j.msg = work[w].msg /\ j.saw = work[w].saw
                           /\ Edge(work[w].at, j.at)
      <3>1. CASE StartLoads(w)
        <4> DEFINE j == [work[w] EXCEPT !.at = "reserve", !.bal = balance]
        <4>1. j \in Job /\ j.msg = work[w].msg /\ j.saw = work[w].saw /\ j.at = "reserve"
          BY <1>0 DEF DailyTypeOK, Job, Label
        <4> QED BY <3>1, <4>1 DEF StartLoads, At, Edge
      <3>2. CASE Gather(w)
        <4> DEFINE j == [work[w] EXCEPT !.at = "summarize", !.got = analysed[RunOf(w)]]
        <4>1. analysed[RunOf(w)] \in Nat
          BY <1>0 DEF DailyTypeOK, Job, Message, RunOf
        <4>2. j \in Job /\ j.msg = work[w].msg /\ j.saw = work[w].saw /\ j.at = "summarize"
          BY <1>0, <4>1 DEF Job, Label, Locking
        <4> QED BY <3>2, <4>2 DEF Gather, At, Edge
      <3>3. CASE LoadUser(w)
        <4> DEFINE j == [work[w] EXCEPT !.at = "get", !.bal = balance]
        <4>1. j \in Job /\ j.msg = work[w].msg /\ j.saw = work[w].saw /\ j.at = "get"
          BY <1>0 DEF DailyTypeOK, Job, Label, RedisStep
        <4> QED BY <3>3, <4>1 DEF LoadUser, At, Edge
      <3>4. CASE GetHold(w)
        <4> DEFINE h == hold[RunOf(w)]
                   l == IF h = 0 THEN "del" ELSE "decr"
                   j == [work[w] EXCEPT !.at = l, !.got = h]
        <4>1. h \in Nat /\ l \in {"del", "decr"}
          BY <1>0 DEF DailyTypeOK, CreditTypeOK, Job, Message, RunOf
        <4> HIDE DEF h, l
        <4>2. j \in Job /\ j.msg = work[w].msg /\ j.saw = work[w].saw /\ j.at = l
          BY <1>0, <4>1 DEF Job, Label, RedisStep
        <4>3. work' = [work EXCEPT ![w] = j] /\ work[w].at = "get"
          BY <3>4 DEF GetHold, At, h, l
        <4> QED BY <4>1, <4>2, <4>3 DEF Edge
      <3>5. CASE Delete(w)
        <4> DEFINE j == [work[w] EXCEPT !.at = "low", !.used = work[w].got]
        <4>1. j \in Job /\ j.msg = work[w].msg /\ j.saw = work[w].saw /\ j.at = "low"
          BY <1>0 DEF DailyTypeOK, Job, Label, RedisStep
        <4> QED BY <3>5, <4>1 DEF Delete, At, Edge
      <3> QED BY <1>2, <3>1, <3>2, <3>3, <3>4, <3>5
    <2> QED BY <2>1, <2>2 DEF DailyTypeOK
  <1> QED BY <1>1, <1>2 DEF MoveStep

LEMMA WriteFacts ==
    ASSUME DailyTypeOK, NEW w \in Worker, WriteStep(w)
    PROVE  /\ row' \in [Run -> Row] /\ \A q \in Run : q # RunOf(w) => row'[q] = row[q]
           /\ balance' \in Nat /\ notices' \in Nat
           /\ analysed' \in [Run -> Nat] /\ digests' \in [Run -> Nat]
           /\ UNCHANGED <<creditVars, flagVars, queueVars, faults, raised, broken>>
           /\ closed' \subseteq closed \cup {RunOf(w)}
           /\ work' \in [Worker -> Job]
           /\ \A v \in Worker : v # w => work'[v] = work[v]
           /\ \/ /\ work[w].at \in {"reserve", "finish", "notice"} /\ work'[w] = Free
              \/ /\ \/ work[w].at \in {"insert", "picking"} /\ work'[w].at = "launch"
                    \/ work[w].at \in {"analyze", "summarize"} /\ work'[w].at = "returned"
                 /\ work'[w].msg = work[w].msg /\ work'[w].saw = work[w].saw
  <1>0. /\ work[w] \in Job /\ RunOf(w) \in Run /\ work[w].saw \in Row
        /\ work[w].bal \in Nat /\ work[w].got \in Nat /\ work[w].used \in Nat
    BY DEF DailyTypeOK, Job, Message, RunOf
  <1>1. CASE ReserveDenied(w)
    <2>1. [NoRow EXCEPT !.status = "cancelled"] \in Row
      BY <1>0, RowColumns DEF RunStatus
    <2> QED BY <1>0, <1>1, <2>1, WriteRow, DoneFacts
            DEF ReserveDenied, Denied, DailyTypeOK, At, queueVars, histVars
  <1>2. CASE InsertRun(w)
    <2>1. [NoRow EXCEPT !.status = "pending"] \in Row
      BY <1>0, RowColumns DEF RunStatus
    <2> QED BY <1>0, <1>2, <2>1, WriteRow, GotoFacts
            DEF InsertRun, DailyTypeOK, At, queueVars, histVars, Label
  <1>3. CASE FanOutCommits(w)
    <2>1. [work[w].saw EXCEPT !.status = "running", !.progress = 20] \in Row
      BY <1>0, RowColumns
    <2> QED BY <1>0, <1>3, <2>1, WriteRow, GotoFacts
            DEF FanOutCommits, DailyTypeOK, At, queueVars, histVars, Label
  <1>4. CASE AnalysisCommits(w)
    <2>1. [work[w].saw EXCEPT !.total = @ + 1] \in Row
      BY <1>0, RowColumns
    <2>2. analysed' = [analysed EXCEPT ![RunOf(w)] = @ + 1]
      BY <1>4 DEF AnalysisCommits
    <2>3. analysed' \in [Run -> Nat]
      BY <1>0, <2>2 DEF DailyTypeOK
    <2> QED BY <1>0, <1>4, <2>1, <2>3, WriteRow, GotoFacts
            DEF AnalysisCommits, DailyTypeOK, At, queueVars, histVars, Label
  <1>5. CASE SynthesisCommits(w)
    <2>1. PICK ai \in {0, 1} :
            /\ Write(w, [work[w].saw EXCEPT !.progress = 80, !.summary = work[w].got,
                                            !.total = @ + ai])
            /\ digests' = [digests EXCEPT ![RunOf(w)] = @ + ai]
      BY <1>5 DEF SynthesisCommits
    <2>2. [work[w].saw EXCEPT !.progress = 80, !.summary = work[w].got,
                              !.total = @ + ai] \in Row
      BY <1>0, RowColumns
    <2>3. digests' \in [Run -> Nat]
      <3>1. digests[RunOf(w)] + ai \in Nat
        BY <1>0 DEF DailyTypeOK
      <3>2. digests' = [digests EXCEPT ![RunOf(w)] = digests[RunOf(w)] + ai]
        BY <2>1
      <3> QED BY <1>0, <3>1, <3>2 DEF DailyTypeOK
    <2>4. /\ UNCHANGED <<creditVars, balance, analysed, notices, flagVars, queueVars,
                         histVars>>
          /\ At(w, "summarize") /\ Goto(w, "returned")
      BY <1>5 DEF SynthesisCommits
    <2>5. /\ row' \in [Run -> Row] /\ \A q \in Run : q # RunOf(w) => row'[q] = row[q]
      BY <2>1, <2>2, WriteRow
    <2>6. /\ work' \in [Worker -> Job] /\ \A v \in Worker : v # w => work'[v] = work[v]
          /\ work'[w].at = "returned" /\ work'[w].msg = work[w].msg
          /\ work'[w].saw = work[w].saw
      BY <2>4, GotoFacts DEF Label
    <2>7. /\ balance' \in Nat /\ notices' \in Nat /\ analysed' \in [Run -> Nat]
          /\ UNCHANGED <<creditVars, flagVars, queueVars, faults, raised, broken>>
          /\ closed' \subseteq closed \cup {RunOf(w)}
      BY <2>4 DEF DailyTypeOK, queueVars, histVars
    <2> QED BY <2>3, <2>4, <2>5, <2>6, <2>7 DEF At
  <1>6. CASE NotifyCommits(w)
    <2>1. [work[w].saw EXCEPT !.status = "completed", !.progress = 100,
                              !.used = work[w].used] \in Row
      BY <1>0, RowColumns
    <2>2. Deducted(w) \in Nat
      BY <1>0 DEF Deducted
    <2>3. balance' \in Nat /\ notices' \in Nat
      BY <1>6, <2>2 DEF NotifyCommits, DailyTypeOK
    <2> QED BY <1>0, <1>6, <2>1, <2>3, WriteRow, DoneFacts
            DEF NotifyCommits, DailyTypeOK, At, queueVars, histVars, creditVars
  <1> QED BY <1>1, <1>2, <1>3, <1>4, <1>5, <1>6 DEF WriteStep

\* What a task that ends has queued.
Follows(a, b) ==
    \/ a = "start" /\ b = "sync"
    \/ a = "sync" /\ b = "fan_out"
    \/ a = "fan_out" /\ b \in {"analyze", "synthesize"}
    \/ a = "analyze" /\ b = "synthesize"
    \/ a = "synthesize" /\ b = "notify"

LEMMA SendFacts ==
    ASSUME DailyTypeOK, LabelInv, NEW w \in Worker, SendStep(w)
    PROVE  /\ Busy(w) /\ work' \in [Worker -> Job] /\ work'[w] = Free
           /\ \A v \in Worker : v # w => work'[v] = work[v]
           /\ UNCHANGED <<creditVars, dailyDbVars, flagVars, fired, faults, raised, closed>>
           /\ queue \subseteq queue' /\ queue' \subseteq Message
           /\ \A m \in queue' \ queue :
                /\ m.run = RunOf(w) /\ m.line = Line(work[w].msg) /\ m.copy = 0
                /\ Follows(work[w].msg.task, m.task)
                /\ work[w].at \in {"launch", "sync", "returned"}
           /\ chord' \in [Run -> [0 .. MaxFaults -> SUBSET Listing]]
           /\ broken' \subseteq Run
  <1> DEFINE m == work[w].msg
  <1>0. /\ m \in Message /\ m.run = RunOf(w) /\ RunOf(w) \in Run /\ Line(m) \in 0 .. MaxFaults
        /\ m.line \in 0 .. MaxFaults /\ m.task \in Task
    BY FollowFacts DEF DailyTypeOK, Job, Message, RunOf, Line
  <1>1. ASSUME NEW next \in Task, Proceed(w, next), Follows(m.task, next),
               work[w].at \in {"launch", "sync", "returned"},
               chord' \in [Run -> [0 .. MaxFaults -> SUBSET Listing]]
        PROVE  /\ Busy(w) /\ work' \in [Worker -> Job] /\ work'[w] = Free
               /\ \A v \in Worker : v # w => work'[v] = work[v]
               /\ UNCHANGED <<creditVars, dailyDbVars, flagVars, fired, faults, raised, closed>>
               /\ queue \subseteq queue' /\ queue' \subseteq Message
               /\ \A n \in queue' \ queue :
                    /\ n.run = RunOf(w) /\ n.line = Line(m) /\ n.copy = 0
                    /\ Follows(m.task, n.task)
               /\ broken' \subseteq Run
    <2>1. /\ queue' = queue \cup {Follow(m, next, NoListing)} /\ Done(w)
          /\ UNCHANGED <<creditVars, dailyDbVars, flagVars, fired, histVars>>
      BY <1>1 DEF Proceed
    <2> QED BY <1>0, <1>1, <2>1, FollowFacts, DoneFacts DEF Busy, histVars, DailyTypeOK
  <1>2. CASE LaunchChain(w)
    BY <1>1, <1>2 DEF LaunchChain, At, Doing, Follows, Task, DailyTypeOK
  <1>3. CASE SyncReturns(w)
    <2>1. Doing(w, "sync")
      BY <1>0, <1>3 DEF SyncReturns, LabelInv, Busy, At, Doing, Task
    <2> QED BY <1>1, <1>3, <2>1 DEF SyncReturns, At, Doing, Follows, Task, DailyTypeOK
  <1>4. CASE NothingToAnalyze(w)
    BY <1>1, <1>4 DEF NothingToAnalyze, At, Doing, Follows, Task, DailyTypeOK
  <1>5. CASE SynthesisReturns(w)
    BY <1>1, <1>5 DEF SynthesisReturns, At, Doing, Follows, Task, DailyTypeOK
  <1>6. CASE StartSkips(w) \/ SyncGivesUp(w)
    BY <1>0, <1>6, DoneFacts DEF StartSkips, SyncGivesUp, At, Busy, DailyTypeOK,
       queueVars, histVars
  <1>7. CASE LaunchChord(w)
    <2>1. PICK S \in SUBSET Listing :
            /\ chord' = [chord EXCEPT ![m.run][Line(m)] = S]
            /\ queue' = queue \cup {Follow(m, "analyze", l) : l \in S}
      BY <1>7 DEF LaunchChord
    <2>2. chord' \in [Run -> [0 .. MaxFaults -> SUBSET Listing]]
      BY <1>0, <2>1 DEF DailyTypeOK
    <2>3. ASSUME NEW l \in S
          PROVE  LET n == Follow(m, "analyze", l)
                 IN n \in Message /\ n.run = RunOf(w) /\ n.line = Line(m)
                    /\ n.copy = 0 /\ n.task = "analyze"
      <3>1. l \in Listing \cup {NoListing} /\ "analyze" \in Task
        BY DEF Task
      <3> QED BY <1>0, <3>1, FollowFacts
    <2>4. /\ queue \subseteq queue' /\ queue' \subseteq Message
          /\ \A n \in queue' \ queue : /\ n.run = RunOf(w) /\ n.line = Line(m)
                                       /\ n.copy = 0 /\ n.task = "analyze"
      BY <2>1, <2>3 DEF DailyTypeOK
    <2>5. /\ Done(w) /\ work[w].at = "launch" /\ m.task = "fan_out"
          /\ UNCHANGED <<creditVars, dailyDbVars, flagVars, fired, histVars>>
      BY <1>7 DEF LaunchChord, At, Doing
    <2> HIDE DEF m
    <2>6. Follows(m.task, "analyze")
      BY <2>5 DEF Follows
    <2> QED BY <2>2, <2>4, <2>5, <2>6, DoneFacts DEF Busy, DailyTypeOK, histVars, m
  <1>8. CASE PartReturns(w)
    <2>1. chord' \in [Run -> [0 .. MaxFaults -> SUBSET Listing]]
      BY <1>0, <1>8 DEF PartReturns, DailyTypeOK
    <2>2. CASE Completes(m)
      BY <1>1, <1>8, <2>1, <2>2 DEF PartReturns, At, Doing, Follows, Task
    <2>3. CASE ~Completes(m)
      BY <1>8, <2>1, <2>3, DoneFacts DEF PartReturns, At, Busy, DailyTypeOK, histVars
    <2> QED BY <2>2, <2>3
  <1> QED BY <1>2, <1>3, <1>4, <1>5, <1>6, <1>7, <1>8 DEF SendStep

LEMMA FaultFacts ==
    ASSUME DailyTypeOK, NEW w \in Worker, Redeliver(w) \/ Crash(w)
    PROVE  /\ Busy(w) /\ work' \in [Worker -> Job] /\ work'[w] \in {work[w], Free}
           /\ \A v \in Worker : v # w => work'[v] = work[v]
           /\ UNCHANGED <<creditVars, dailyDbVars, flagVars, chord, raised, closed>>
           /\ queue \subseteq queue' /\ queue' \subseteq Message
           /\ \A m \in queue' \ queue :
                /\ m.task = work[w].msg.task
                /\ m.task = "start" => m.run \in Run \ fired /\ fired' = fired \cup {m.run}
                /\ m.task # "start" => m.run = RunOf(w)
                /\ \A n \in queue' \ queue : n = m
           /\ fired \subseteq fired' /\ fired' \subseteq Run
           /\ broken' \subseteq Run /\ faults' = faults + 1 /\ faults' \in 0 .. MaxFaults
  <1> DEFINE m == work[w].msg
  <1>0. m \in Message /\ m.run = RunOf(w) /\ RunOf(w) \in Run
    BY DEF DailyTypeOK, Job, Message, RunOf
  <1>1. Busy(w) /\ faults' = faults + 1 /\ faults' \in 0 .. MaxFaults /\ 0 \in 0 .. MaxFaults
    BY DEF Redeliver, Crash, Fault, Busy, At, DailyTypeOK
  <1>2. /\ work' \in [Worker -> Job] /\ work'[w] \in {work[w], Free}
        /\ \A v \in Worker : v # w => work'[v] = work[v]
    BY DoneFacts DEF Redeliver, Crash, DailyTypeOK
  <1>3. /\ UNCHANGED <<creditVars, dailyDbVars, flagVars, chord, raised, closed>>
        /\ broken' \subseteq Run
    BY <1>0 DEF Redeliver, Crash, DailyTypeOK
  <1>4. CASE Again(m)
    <2>1. CASE m.task = "start"
      <3>1. /\ NextRun \in Run \ fired /\ fired' = fired \cup {NextRun}
            /\ queue' = queue \cup {StartMessage(NextRun, faults')}
        BY <1>4, <2>1, NextRunFacts DEF Again, DailyTypeOK
      <3> DEFINE n == StartMessage(NextRun, faults')
      <3>2. n \in Message /\ n.task = "start" /\ n.run = NextRun
        BY <1>1, <3>1, StartFacts
      <3> HIDE DEF n
      <3>3. /\ queue \subseteq queue' /\ queue' \subseteq Message /\ queue' \ queue \subseteq {n}
            /\ fired \subseteq fired' /\ fired' \subseteq Run
        BY <3>1, <3>2 DEF DailyTypeOK, n
      <3>4. \A k \in queue' \ queue : k = n
        BY <3>3
      <3> QED BY <1>0, <1>1, <1>2, <1>3, <2>1, <3>1, <3>2, <3>3, <3>4
    <2>2. CASE m.task # "start"
      <3>1. fired' = fired /\ queue' = queue \cup {[m EXCEPT !.copy = faults']}
        BY <1>4, <2>2 DEF Again
      <3> DEFINE n == [m EXCEPT !.copy = faults']
      <3>2. n \in Message /\ n.task = m.task /\ n.run = m.run
        BY <1>0, <1>1, CopyFacts
      <3> HIDE DEF n
      <3>3. queue \subseteq queue' /\ queue' \subseteq Message /\ queue' \ queue \subseteq {n}
        BY <3>1, <3>2 DEF DailyTypeOK, n
      <3>4. fired \subseteq fired' /\ fired' \subseteq Run
        BY <3>1 DEF DailyTypeOK
      <3>5. \A k \in queue' \ queue : k = n
        BY <3>3
      <3> QED BY <1>0, <1>1, <1>2, <1>3, <2>2, <3>2, <3>3, <3>4, <3>5
    <2> QED BY <2>1, <2>2
  <1>5. CASE Crash(w) /\ UNCHANGED <<queue, fired>>
    BY <1>0, <1>1, <1>5, <1>2, <1>3 DEF DailyTypeOK
  <1> QED BY <1>4, <1>5 DEF Redeliver, Crash

LEMMA FireFacts ==
    ASSUME DailyTypeOK, Fire
    PROVE  \E m \in Message :
              /\ m.task = "start" /\ m.run \in Run \ fired
              /\ m.line = 0 /\ m.copy = 0
              /\ queue' = queue \cup {m} /\ fired' = fired \cup {m.run}
              /\ UNCHANGED <<creditVars, dailyDbVars, flagVars, chord, work, histVars>>
  <1>1. NextRun \in Run \ fired /\ 0 \in 0 .. MaxFaults
    BY NextRunFacts DEF Fire, DailyTypeOK
  <1> QED BY <1>1, StartFacts DEF Fire

LEMMA MoveTypes ==
    ASSUME DailyTypeOK, NEW w \in Worker, MoveStep(w)
    PROVE  DailyTypeOK'
  <1>0. RunOf(w) \in Run /\ work[w].got \in Nat /\ hold[RunOf(w)] \in Nat
    BY DEF DailyTypeOK, CreditTypeOK, Job, Message, RunOf
  <1>1. CreditTypeOK'
    <2>1. CASE ReserveGranted(w)
      <3>1. Reserve(RunOf(w), Cost, work[w].bal)
        BY <2>1 DEF ReserveGranted
      <3>2. hold' = [hold EXCEPT ![RunOf(w)] = Cost] /\ holdTTL' = [holdTTL EXCEPT ![RunOf(w)] = TTL]
        BY <3>1 DEF Reserve, SetHold
      <3>3. hold' \in [Run -> Nat] /\ holdTTL' \in [Run -> 0 .. TTL]
        BY <1>0, <3>2 DEF DailyTypeOK, CreditTypeOK
      <3>4. reserved' \in Int /\ resTTL' \in 0 .. Forever /\ daily' \in Nat
        BY <3>1 DEF Reserve, RenewReserved, Forever, DailyTypeOK, CreditTypeOK
      <3> QED BY <3>3, <3>4 DEF CreditTypeOK, Forever
    <2>2. CASE Decrement(w)
      BY <1>0, <2>2 DEF Decrement, DecrReserved, Forever, DailyTypeOK, CreditTypeOK
    <2>3. CASE Delete(w)
      <3>1. /\ hold' = [hold EXCEPT ![RunOf(w)] = 0]
            /\ holdTTL' = [holdTTL EXCEPT ![RunOf(w)] = 0]
            /\ UNCHANGED <<reserved, resTTL, daily>>
        BY <2>3 DEF Delete, DeleteHold
      <3> QED BY <1>0, <3>1 DEF DailyTypeOK, CreditTypeOK
    <2>4. CASE UNCHANGED creditVars
      BY <2>4 DEF DailyTypeOK, CreditTypeOK, creditVars
    <2> QED BY <2>1, <2>2, <2>3, <2>4 DEF MoveStep, StartLoads, FanOutFlushes,
            AnalysisFails, SynthesisFlushes, Gather, LoadUser, GetHold, CheckLow,
            SetFlag, RedisRaises
  <1>2. /\ flagged' \in BOOLEAN /\ lapsed' \in BOOLEAN
        /\ faults' \in 0 .. MaxFaults /\ raised' \subseteq Run
    <2>1. CASE RedisRaises(w)
      BY <1>0, <2>1 DEF RedisRaises, Fault, DailyTypeOK
    <2>2. CASE UNCHANGED histVars
      BY <2>2 DEF MoveStep, StartLoads, ReserveGranted, FanOutFlushes, AnalysisFails,
         SynthesisFlushes, Gather, LoadUser, GetHold, Decrement, Delete, CheckLow, SetFlag,
         RedisRaises, histVars, DailyTypeOK
    <2> QED BY <2>1, <2>2 DEF MoveStep, StartLoads, ReserveGranted, FanOutFlushes,
            AnalysisFails, SynthesisFlushes, Gather, LoadUser, GetHold, Decrement, Delete,
            CheckLow, SetFlag
  <1> QED BY <1>1, <1>2, MoveFacts DEF DailyTypeOK, dailyDbVars, queueVars

LEMMA ExpiryTypes ==
    ASSUME DailyTypeOK, ExpireHolds
    PROVE  DailyTypeOK'
  <1>1. CreditTypeOK'
    BY DEF ExpireHolds, PassTime, Forever, DailyTypeOK, CreditTypeOK
  <1> QED BY <1>1 DEF ExpireHolds, DailyTypeOK, dailyDbVars, queueVars

LEMMA DailyTypes ==
    ASSUME DailyTypeOK, LabelInv, TasksNext
    PROVE  DailyTypeOK'
  <1>1. CASE Fire
    BY <1>1, FireFacts DEF DailyTypeOK, CreditTypeOK, creditVars, dailyDbVars, histVars
  <1>2. CASE Take
    <2>1. queue' \subseteq Message /\ work' \in [Worker -> Job]
      BY <1>2, TakeFacts DEF DailyTypeOK
    <2> QED BY <1>2, <2>1 DEF Take, DailyTypeOK, CreditTypeOK, creditVars, dailyDbVars, histVars
  <1>3. CASE ExpireHolds
    BY <1>3, ExpiryTypes
  <1>4. ASSUME NEW w \in Worker, Redeliver(w) \/ Crash(w) PROVE DailyTypeOK'
    BY <1>4, FaultFacts DEF DailyTypeOK, CreditTypeOK, creditVars, dailyDbVars
  <1>5. ASSUME NEW w \in Worker, MoveStep(w) PROVE DailyTypeOK'
    BY <1>5, MoveTypes
  <1>6. ASSUME NEW w \in Worker, WriteStep(w) PROVE DailyTypeOK'
    <2>1. RunOf(w) \in Run
      BY DEF DailyTypeOK, Job, Message, RunOf
    <2> QED BY <1>6, <2>1, WriteFacts DEF DailyTypeOK, CreditTypeOK, creditVars, queueVars
  <1>7. ASSUME NEW w \in Worker, SendStep(w) PROVE DailyTypeOK'
    BY <1>7, SendFacts DEF DailyTypeOK, CreditTypeOK, creditVars, dailyDbVars
  <1> QED BY <1>1, <1>2, <1>3, <1>4, <1>5, <1>6, <1>7, StepKinds DEF TasksNext

LEMMA LabelStep ==
    ASSUME DailyTypeOK, LabelInv, TasksNext
    PROVE  LabelInv'
  <1> USE DEF Busy, At, Doing
  <1>1. CASE Fire \/ ExpireHolds
    BY <1>1 DEF Fire, ExpireHolds, LabelInv
  <1>2. CASE Take
    <2>1. \A m \in queue : m.task \in Task
      BY DEF DailyTypeOK, Message
    <2> QED BY <1>2, <2>1, TakeFacts DEF LabelInv, Task
  <1>3. ASSUME NEW w \in Worker, Redeliver(w) \/ Crash(w) PROVE LabelInv'
    BY <1>3, FaultFacts, FreeFacts DEF LabelInv
  <1>4. ASSUME NEW w \in Worker, MoveStep(w) PROVE LabelInv'
    <2>1. work[w].msg.task \in Task
      BY DEF DailyTypeOK, Job, Message
    <2> QED BY <1>4, <2>1, MoveFacts DEF LabelInv, Edge, Task
  <1>5. ASSUME NEW w \in Worker, WriteStep(w) PROVE LabelInv'
    <2>1. work[w].msg.task \in Task
      BY DEF DailyTypeOK, Job, Message
    <2> QED BY <1>5, <2>1, WriteFacts, FreeFacts DEF LabelInv, Task
  <1>6. ASSUME NEW w \in Worker, SendStep(w) PROVE LabelInv'
    BY <1>6, SendFacts, FreeFacts DEF LabelInv
  <1> QED BY <1>1, <1>2, <1>3, <1>4, <1>5, <1>6, StepKinds DEF TasksNext

-----------------------------------------------------------------------------
(* Who works on a run. *)

\* Only a run that was fired has messages, work or a row.
FiredInv ==
    /\ \A m \in queue : m.run \in fired
    /\ \A w \in Worker : Busy(w) => RunOf(w) \in fired
    /\ \A r \in Run \ fired : row[r] = NoRow

\* A run's start is alone with it, and until it commits there is no row.
AloneInv ==
    /\ \A m \in queue : m.task = "start" =>
         /\ row[m.run] = NoRow
         /\ \A n \in queue : n.run = m.run => n = m
         /\ \A w \in Worker : ~Runs(w, m.run)
    /\ \A w \in Worker : Busy(w) /\ Doing(w, "start") =>
         /\ \A n \in queue : n.run # RunOf(w)
         /\ \A v \in Worker : Runs(v, RunOf(w)) => v = w
         /\ At(w, "launch") \/ (row[RunOf(w)] = NoRow /\ work[w].saw = NoRow)

LEMMA FiredStep ==
    ASSUME DailyTypeOK, LabelInv, FiredInv, TasksNext
    PROVE  FiredInv'
  <1> USE DEF Busy, RunOf
  <1>1. CASE Fire
    BY <1>1, FireFacts DEF FiredInv, dailyDbVars
  <1>2. CASE Take
    <2>1. UNCHANGED <<dailyDbVars, fired>>
      BY <1>2 DEF Take
    <2> QED BY <1>2, <2>1, TakeFacts DEF FiredInv, dailyDbVars
  <1>3. CASE ExpireHolds
    BY <1>3 DEF ExpireHolds, FiredInv, dailyDbVars, queueVars
  <1>4. ASSUME NEW w \in Worker, Redeliver(w) \/ Crash(w) PROVE FiredInv'
    <2>1. \A m \in queue' : m.run \in fired'
      BY <1>4, FaultFacts DEF FiredInv
    <2> QED BY <1>4, <2>1, FaultFacts, FreeFacts DEF FiredInv, dailyDbVars
  <1>5. ASSUME NEW w \in Worker, MoveStep(w) PROVE FiredInv'
    BY <1>5, MoveFacts DEF FiredInv, Edge, dailyDbVars, queueVars
  <1>6. ASSUME NEW w \in Worker, WriteStep(w) PROVE FiredInv'
    BY <1>6, WriteFacts, FreeFacts DEF FiredInv, queueVars
  <1>7. ASSUME NEW w \in Worker, SendStep(w) PROVE FiredInv'
    BY <1>7, SendFacts, FreeFacts DEF FiredInv, dailyDbVars
  <1> QED BY <1>1, <1>2, <1>3, <1>4, <1>5, <1>6, <1>7, StepKinds DEF TasksNext

LEMMA AloneStep ==
    ASSUME DailyTypeOK, LabelInv, FiredInv, AloneInv, TasksNext
    PROVE  AloneInv'
  <1> USE DEF Busy, RunOf, Runs, Doing, At
  <1>1. CASE Fire
    <2>1. PICK m \in Message :
              /\ m.task = "start" /\ m.run \in Run \ fired
              /\ queue' = queue \cup {m}
              /\ UNCHANGED <<dailyDbVars, work>>
      BY <1>1, FireFacts
    <2> QED BY <2>1 DEF AloneInv, FiredInv, dailyDbVars
  <1>2. CASE Take
    <2>1. UNCHANGED row
      BY <1>2 DEF Take, dailyDbVars
    <2>2. PICK w \in Worker, m \in queue :
              /\ ~Busy(w) /\ queue' = queue \ {m}
              /\ \A v \in Worker : v # w => work'[v] = work[v]
              /\ work'[w].at = m.task /\ work'[w].msg = m
              /\ work'[w].saw = IF m.task = "sync" THEN NoRow ELSE row[m.run]
      BY <1>2, TakeFacts
    <2>3. ASSUME NEW n \in queue', n.task = "start"
          PROVE  /\ row'[n.run] = NoRow
                 /\ \A k \in queue' : k.run = n.run => k = n
                 /\ \A v \in Worker : ~Runs(v, n.run)'
      BY <2>1, <2>2, <2>3 DEF AloneInv
    <2>4. ASSUME NEW v \in Worker, Busy(v)', Doing(v, "start")'
          PROVE  /\ \A n \in queue' : n.run # RunOf(v)'
                 /\ \A u \in Worker : Runs(u, RunOf(v))' => u = v
                 /\ At(v, "launch")' \/ (row[RunOf(v)] = NoRow /\ work[v].saw = NoRow)'
      <3>1. CASE v = w
        BY <2>1, <2>2, <2>4, <3>1 DEF AloneInv
      <3>2. CASE v # w
        BY <2>1, <2>2, <2>4, <3>2 DEF AloneInv
      <3> QED BY <3>1, <3>2
    <2> QED BY <2>3, <2>4 DEF AloneInv
  <1>3. CASE ExpireHolds
    BY <1>3 DEF ExpireHolds, AloneInv, dailyDbVars, queueVars
  <1>4. ASSUME NEW w \in Worker, Redeliver(w) \/ Crash(w) PROVE AloneInv'
    <2>1. /\ Busy(w) /\ work'[w] \in {work[w], Free}
          /\ \A v \in Worker : v # w => work'[v] = work[v]
          /\ row' = row /\ queue \subseteq queue'
          /\ \A m \in queue' \ queue :
                /\ m.task = work[w].msg.task
                /\ m.task = "start" => m.run \in Run \ fired
                /\ m.task # "start" => m.run = RunOf(w)
                /\ \A n \in queue' \ queue : n = m
      BY <1>4, FaultFacts DEF dailyDbVars
    <2>2. \A v \in Worker : Busy(v)' => Busy(v) /\ work'[v] = work[v]
      BY <2>1, FreeFacts
    <2>3. ASSUME NEW n \in queue', n.task = "start"
          PROVE  /\ row'[n.run] = NoRow
                 /\ \A k \in queue' : k.run = n.run => k = n
                 /\ \A v \in Worker : ~Runs(v, n.run)'
      <3>1. CASE n \in queue
        BY <2>1, <2>2, <2>3, <3>1 DEF AloneInv, FiredInv
      <3>2. CASE n \notin queue
        BY <2>1, <2>2, <2>3, <3>2 DEF FiredInv
      <3> QED BY <3>1, <3>2
    <2>4. ASSUME NEW v \in Worker, Busy(v)', Doing(v, "start")'
          PROVE  /\ \A n \in queue' : n.run # RunOf(v)'
                 /\ \A u \in Worker : Runs(u, RunOf(v))' => u = v
                 /\ At(v, "launch")' \/ (row[RunOf(v)] = NoRow /\ work[v].saw = NoRow)'
      BY <2>1, <2>2, <2>4 DEF AloneInv, FiredInv
    <2> QED BY <2>3, <2>4 DEF AloneInv
  <1>5. ASSUME NEW w \in Worker, MoveStep(w) PROVE AloneInv'
    <2>1. row' = row /\ queue' = queue
      BY <1>5, MoveFacts DEF dailyDbVars, queueVars
    <2> QED BY <1>5, <2>1, MoveFacts DEF AloneInv, Edge
  <1>6. ASSUME NEW w \in Worker, WriteStep(w) PROVE AloneInv'
    <2>1. /\ queue' = queue /\ Busy(w)
          /\ \A q \in Run : q # RunOf(w) => row'[q] = row[q]
          /\ \A v \in Worker : v # w => work'[v] = work[v]
          /\ \/ work'[w] = Free
             \/ /\ work'[w].msg = work[w].msg /\ work'[w].saw = work[w].saw
                /\ work'[w].at = "launch" \/ (work'[w].at = "returned" /\ work[w].at # "launch")
      BY <1>6, WriteFacts DEF queueVars
    <2>2. \A v \in Worker : RunOf(v) \in Run /\ work[v].msg.task \in Task
      BY DEF DailyTypeOK, Job, Message
    <2>3. \A m \in queue : m.run \in Run
      BY DEF DailyTypeOK, Message
    <2>4. work'[w].at = "returned" => ~Doing(w, "start")
      BY <1>6, <2>1, WriteFacts, FreeFacts DEF LabelInv
    <2> QED BY <2>1, <2>2, <2>3, <2>4, FreeFacts DEF AloneInv
  <1>7. ASSUME NEW w \in Worker, SendStep(w) PROVE AloneInv'
    <2>1. /\ Busy(w) /\ work'[w] = Free /\ row' = row
          /\ \A v \in Worker : v # w => work'[v] = work[v]
          /\ queue \subseteq queue'
          /\ \A m \in queue' \ queue : m.run = RunOf(w) /\ m.task # "start"
      BY <1>7, SendFacts DEF dailyDbVars, Follows
    <2> QED BY <2>1, FreeFacts DEF AloneInv
  <1> QED BY <1>1, <1>2, <1>3, <1>4, <1>5, <1>6, <1>7, StepKinds DEF TasksNext

-----------------------------------------------------------------------------
(* The row: totals and the digest. *)

\* What a session loaded claims no more calls than the logs hold.
TotalInv ==
    /\ TotalsAreLogged
    /\ \A w \in Worker : Busy(w) =>
         work[w].saw.total <= analysed[RunOf(w)] + digests[RunOf(w)]

Summed(r) == row[r].summary # -1

\* A run's summary, once written, stays; notify comes after it, and only
\* notify completes the run.
SummaryInv ==
    /\ \A w \in Worker : Busy(w) /\ work[w].saw.summary # -1 => Summed(RunOf(w))
    /\ \A m \in queue : m.task = "notify" => Summed(m.run)
    /\ \A w \in Worker : Busy(w) /\ Doing(w, "notify") => Summed(RunOf(w))
    /\ \A w \in Worker : Doing(w, "synthesize") /\ At(w, "returned") => Summed(RunOf(w))
    /\ \A r \in closed : Summed(r)
    /\ \A r \in Run : row[r].status = "completed" => r \in closed

\* What a commit does to the row of its run, log rows and summary.
LEMMA WriteEffects ==
    ASSUME DailyTypeOK, LabelInv, AloneInv, NEW w \in Worker, WriteStep(w),
           NEW r, r = RunOf(w), NEW saw, saw = work[w].saw
    PROVE  /\ \A q \in Run : q # r => analysed'[q] = analysed[q] /\ digests'[q] = digests[q]
           /\ \/ /\ analysed'[r] = analysed[r] /\ digests'[r] = digests[r]
                 /\ row'[r].total = row[r].total
              \/ \E k \in {0, 1} :
                   /\ analysed'[r] + digests'[r] = analysed[r] + digests[r] + k
                   /\ row'[r].total \in {row[r].total, saw.total + k}
           /\ IF SynthesisCommits(w)
              THEN row'[r].summary = IF work[w].got = saw.summary THEN row[r].summary
                                     ELSE work[w].got
              ELSE row'[r].summary = row[r].summary
           /\ row'[r].status = "completed" => row[r].status = "completed" \/ NotifyCommits(w)
           /\ analysed' = analysed \/ AnalysisCommits(w)
  <1>0. /\ r \in Run /\ saw \in Row /\ row[r] \in Row /\ saw.total \in Nat
        /\ analysed[r] \in Nat /\ digests[r] \in Nat /\ work[w].got \in Nat
        /\ work[w].used \in Nat
    BY DEF DailyTypeOK, Job, Message, RunOf, Row
  <1>1. CASE ReserveDenied(w) \/ InsertRun(w)
    <2>1. PICK st \in {"cancelled", "pending"} : Write(w, [NoRow EXCEPT !.status = st])
      BY <1>1 DEF ReserveDenied, InsertRun
    <2>2. saw = NoRow
      <3>1. Busy(w) /\ Doing(w, "start") /\ ~At(w, "launch")
        BY <1>1 DEF ReserveDenied, InsertRun, At, Busy, LabelInv, Doing, DailyTypeOK,
           Job, Message, Task
      <3> QED BY <3>1 DEF AloneInv
    <2> DEFINE new == [NoRow EXCEPT !.status = st]
    <2>3. new \in Row /\ new.total = 0 /\ new.summary = -1 /\ new.status = st
      BY RowFacts DEF Row, RunStatus, NoRow
    <2>4. UNCHANGED <<analysed, digests>> /\ ~SynthesisCommits(w)
      BY <1>1 DEF ReserveDenied, InsertRun, SynthesisCommits, At
    <2>5. Write(w, new)
      BY <2>1
    <2> HIDE DEF new
    <2>6. /\ row'[r].status = IF new.status # saw.status THEN new.status ELSE row[r].status
          /\ row'[r].summary = IF new.summary # saw.summary THEN new.summary
                               ELSE row[r].summary
          /\ row'[r].total = IF new.total # saw.total THEN new.total ELSE row[r].total
      BY <2>3, <2>5, WriteRow
    <2> QED BY <1>0, <2>2, <2>3, <2>4, <2>6, RowFacts
  <1>2. CASE FanOutCommits(w)
    <2> DEFINE new == [saw EXCEPT !.status = "running", !.progress = 20]
    <2>1. new \in Row /\ new.total = saw.total /\ new.summary = saw.summary
          /\ new.status = "running"
      BY <1>0 DEF Row, RunStatus
    <2>2. Write(w, new) /\ UNCHANGED <<analysed, digests>> /\ ~SynthesisCommits(w)
      BY <1>2 DEF FanOutCommits, SynthesisCommits, At
    <2> HIDE DEF new
    <2> QED BY <1>0, <2>1, <2>2, WriteRow
  <1>3. CASE AnalysisCommits(w)
    <2> DEFINE new == [saw EXCEPT !.total = @ + 1]
    <2>1. new \in Row /\ new.total = saw.total + 1 /\ new.summary = saw.summary
          /\ new.status = saw.status
      BY <1>0 DEF Row
    <2>2. /\ Write(w, new) /\ digests' = digests /\ ~SynthesisCommits(w)
          /\ analysed' = [analysed EXCEPT ![r] = @ + 1]
      BY <1>3 DEF AnalysisCommits, SynthesisCommits, At
    <2> HIDE DEF new
    <2>3. /\ analysed'[r] = analysed[r] + 1
          /\ \A q \in Run : q # r => analysed'[q] = analysed[q]
      BY <1>0, <2>2 DEF DailyTypeOK
    <2> QED BY <1>0, <1>3, <2>1, <2>2, <2>3, WriteRow
  <1>4. CASE SynthesisCommits(w)
    <2>1. PICK ai \in {0, 1} :
            /\ Write(w, [saw EXCEPT !.progress = 80, !.summary = work[w].got,
                                    !.total = @ + ai])
            /\ digests' = [digests EXCEPT ![r] = @ + ai] /\ analysed' = analysed
      BY <1>4 DEF SynthesisCommits
    <2> DEFINE new == [saw EXCEPT !.progress = 80, !.summary = work[w].got,
                                  !.total = @ + ai]
    <2>2. new \in Row /\ new.total = saw.total + ai /\ new.summary = work[w].got
          /\ new.status = saw.status
      <3>1. saw.total + ai \in Nat /\ work[w].got \in Nat \cup {-1}
        BY <1>0
      <3> QED BY <1>0, <3>1 DEF Row
    <2>3. Write(w, new)
      BY <2>1
    <2> HIDE DEF new
    <2>4. /\ digests'[r] = digests[r] + ai
          /\ \A q \in Run : q # r => digests'[q] = digests[q]
      BY <1>0, <2>1 DEF DailyTypeOK
    <2> QED BY <1>0, <1>4, <2>1, <2>2, <2>3, <2>4, WriteRow
  <1>5. CASE NotifyCommits(w)
    <2> DEFINE new == [saw EXCEPT !.status = "completed", !.progress = 100,
                                  !.used = work[w].used]
    <2>1. new \in Row /\ new.total = saw.total /\ new.summary = saw.summary
      BY <1>0 DEF Row, RunStatus
    <2>2. Write(w, new) /\ UNCHANGED <<analysed, digests>> /\ ~SynthesisCommits(w)
      BY <1>5 DEF NotifyCommits, SynthesisCommits, At
    <2> HIDE DEF new
    <2> QED BY <1>0, <1>5, <2>1, <2>2, WriteRow
  <1> QED BY <1>1, <1>2, <1>3, <1>4, <1>5 DEF WriteStep

LEMMA TotalStep ==
    ASSUME DailyTypeOK, LabelInv, AloneInv, TotalInv, TasksNext
    PROVE  TotalInv'
  <1> USE DEF Busy, RunOf
  <1>0. /\ \A w \in Worker : RunOf(w) \in Run /\ work[w].saw.total \in Nat
        /\ \A r \in Run : analysed[r] \in Nat /\ digests[r] \in Nat /\ row[r].total \in Nat
    BY DEF DailyTypeOK, Job, Message, Row
  <1>1. CASE Fire \/ ExpireHolds
    BY <1>1 DEF Fire, ExpireHolds, TotalInv, TotalsAreLogged, dailyDbVars
  <1>2. CASE Take
    <2>1. UNCHANGED <<row, analysed, digests>>
      BY <1>2 DEF Take, dailyDbVars
    <2>2. \A m \in queue : m.run \in Run
      BY DEF DailyTypeOK, Message
    <2>3. NoRow.total = 0
      BY RowFacts
    <2> QED BY <1>0, <1>2, <2>1, <2>2, <2>3, TakeFacts DEF TotalInv, TotalsAreLogged
  <1>3. ASSUME NEW w \in Worker, Redeliver(w) \/ Crash(w) PROVE TotalInv'
    BY <1>3, FaultFacts, FreeFacts DEF TotalInv, TotalsAreLogged, dailyDbVars
  <1>4. ASSUME NEW w \in Worker, MoveStep(w) PROVE TotalInv'
    BY <1>4, MoveFacts DEF TotalInv, TotalsAreLogged, dailyDbVars, Edge
  <1>5. ASSUME NEW w \in Worker, WriteStep(w) PROVE TotalInv'
    <2> DEFINE r == RunOf(w)
               saw == work[w].saw
    <2>1. /\ \A q \in Run : q # r => analysed'[q] = analysed[q] /\ digests'[q] = digests[q]
          /\ \/ /\ analysed'[r] = analysed[r] /\ digests'[r] = digests[r]
                /\ row'[r].total = row[r].total
             \/ \E k \in {0, 1} :
                  /\ analysed'[r] + digests'[r] = analysed[r] + digests[r] + k
                  /\ row'[r].total \in {row[r].total, saw.total + k}
      BY <1>5, WriteEffects
    <2>2. /\ \A q \in Run : q # r => row'[q] = row[q]
          /\ \A v \in Worker : Busy(v)' => Busy(v) /\ RunOf(v)' = RunOf(v)
                                            /\ work'[v].saw = work[v].saw
      BY <1>5, WriteFacts, FreeFacts
    <2>3. Busy(w)
      BY <1>5, WriteFacts
    <2>4. \A q \in Run : /\ analysed'[q] + digests'[q] >= analysed[q] + digests[q]
                         /\ row'[q].total <= analysed'[q] + digests'[q]
      <3>1. saw.total <= analysed[r] + digests[r] /\ row[r].total <= analysed[r] + digests[r]
        BY <1>0, <2>3 DEF TotalInv, TotalsAreLogged
      <3>2. /\ analysed'[r] + digests'[r] >= analysed[r] + digests[r]
            /\ row'[r].total <= analysed'[r] + digests'[r]
        <4> HIDE DEF r, saw
        <4> QED BY <1>0, <2>1, <3>1 DEF r, saw
      <3>3. ASSUME NEW q \in Run, q # r
            PROVE  /\ analysed'[q] + digests'[q] >= analysed[q] + digests[q]
                   /\ row'[q].total <= analysed'[q] + digests'[q]
        <4>1. /\ analysed'[q] = analysed[q] /\ digests'[q] = digests[q]
              /\ row'[q] = row[q]
          BY <2>1, <2>2, <3>3
        <4> QED BY <1>0, <4>1 DEF TotalInv, TotalsAreLogged
      <3> QED BY <3>2, <3>3
    <2>5. \A q \in Run : analysed'[q] + digests'[q] \in Nat
      BY <1>5, WriteFacts
    <2> QED BY <1>0, <2>2, <2>4, <2>5 DEF TotalInv, TotalsAreLogged
  <1>6. ASSUME NEW w \in Worker, SendStep(w) PROVE TotalInv'
    BY <1>6, SendFacts, FreeFacts DEF TotalInv, TotalsAreLogged, dailyDbVars
  <1> QED BY <1>1, <1>2, <1>3, <1>4, <1>5, <1>6, StepKinds DEF TasksNext

LEMMA SummaryStep ==
    ASSUME DailyTypeOK, LabelInv, AloneInv, SummaryInv, TasksNext
    PROVE  SummaryInv'
  <1> USE DEF Busy, RunOf, Doing, At, Summed
  <1>1. CASE Fire
    BY <1>1, FireFacts DEF SummaryInv, dailyDbVars, histVars
  <1>2. CASE ExpireHolds
    BY <1>2 DEF ExpireHolds, SummaryInv, dailyDbVars, queueVars
  <1>3. CASE Take
    <2>1. UNCHANGED <<row, closed>>
      BY <1>3 DEF Take, dailyDbVars, histVars
    <2>2. NoRow.summary = -1 /\ \A m \in queue : m.task \in Task
      BY RowFacts DEF DailyTypeOK, Message
    <2> QED BY <1>3, <2>1, <2>2, TakeFacts DEF SummaryInv, Task
  <1>4. ASSUME NEW w \in Worker, Redeliver(w) \/ Crash(w) PROVE SummaryInv'
    BY <1>4, FaultFacts, FreeFacts DEF SummaryInv, dailyDbVars
  <1>5. ASSUME NEW w \in Worker, MoveStep(w) PROVE SummaryInv'
    <2>1. Edge(work[w].at, work'[w].at) => (work'[w].at = "returned" => work[w].at = "analyze")
      BY DEF Edge
    <2>2. work[w].at = "analyze" => ~Doing(w, "synthesize")
      BY DEF LabelInv
    <2>3. Edge(work[w].at, work'[w].at) => Busy(w)
      BY DEF Edge
    <2> QED BY <1>5, <2>1, <2>2, <2>3, MoveFacts DEF SummaryInv, dailyDbVars, queueVars
  <1>6. ASSUME NEW w \in Worker, WriteStep(w) PROVE SummaryInv'
    <2> PICK r \in Run : r = RunOf(w)
      BY DEF DailyTypeOK, Job, Message
    <2>0. work[w].got \in Nat
      BY DEF DailyTypeOK, Job
    <2>1. /\ IF SynthesisCommits(w)
             THEN row'[r].summary = IF work[w].got = work[w].saw.summary THEN row[r].summary
                                    ELSE work[w].got
             ELSE row'[r].summary = row[r].summary
          /\ row'[r].status = "completed" => row[r].status = "completed" \/ NotifyCommits(w)
      BY <1>6, WriteEffects
    <2>2. /\ \A q \in Run : q # r => row'[q] = row[q]
          /\ queue' = queue /\ Busy(w)
          /\ \A v \in Worker : Busy(v)' => Busy(v) /\ RunOf(v)' = RunOf(v)
                                            /\ work'[v].saw = work[v].saw
                                            /\ work'[v].msg = work[v].msg
          /\ \A v \in Worker : v # w => work'[v] = work[v]
          /\ closed' \subseteq closed \cup {r}
      BY <1>6, WriteFacts, FreeFacts DEF queueVars
    <2>3. SynthesisCommits(w) => Summed(r)'
      BY <2>0, <2>1, <2>2 DEF SummaryInv
    <2>4. \A q \in Run : Summed(q) => Summed(q)'
      BY <2>1, <2>2, <2>3
    <2>5. work'[w].at = "returned" /\ Doing(w, "synthesize") => Summed(r)'
      <3>1. SUFFICES ASSUME work'[w].at = "returned", Doing(w, "synthesize")
                     PROVE  SynthesisCommits(w)
        BY <2>3
      <3>2. work[w].at = "summarize"
        BY <1>6, <3>1, WriteFacts, FreeFacts DEF LabelInv
      <3> QED BY <1>6, <3>2 DEF WriteStep, ReserveDenied, InsertRun, FanOutCommits,
              AnalysisCommits, NotifyCommits
    <2>6. NotifyCommits(w) => Doing(w, "notify") /\ closed' = closed \cup {r}
      BY DEF NotifyCommits, LabelInv, DailyTypeOK, Job, Message, Task
    <2>7. ~NotifyCommits(w) => closed' = closed
      BY <1>6 DEF WriteStep, ReserveDenied, InsertRun, FanOutCommits, AnalysisCommits,
         SynthesisCommits, histVars
    <2>8. \A v \in Worker : RunOf(v) \in Run
      BY DEF DailyTypeOK, Job, Message
    <2>9. (\A m \in queue : m.run \in Run) /\ closed \subseteq Run
      BY DEF DailyTypeOK, Message
    <2>10. \A q \in Run : row'[q].status = "completed" => q \in closed'
      BY <2>1, <2>2, <2>6, <2>7 DEF SummaryInv
    <2>11. \A q \in closed' : Summed(q)'
      BY <2>2, <2>4, <2>6, <2>7, <2>9 DEF SummaryInv
    <2>12. \A v \in Worker : Doing(v, "synthesize")' /\ At(v, "returned")' => Summed(RunOf(v))'
      BY <2>2, <2>4, <2>5, <2>8 DEF SummaryInv
    <2> QED BY <2>2, <2>4, <2>8, <2>9, <2>10, <2>11, <2>12 DEF SummaryInv
  <1>7. ASSUME NEW w \in Worker, SendStep(w) PROVE SummaryInv'
    <2>1. /\ Busy(w) /\ work'[w] = Free /\ UNCHANGED <<row, closed>>
          /\ \A v \in Worker : v # w => work'[v] = work[v]
          /\ \A m \in queue' \ queue :
               /\ m.run = RunOf(w)
               /\ m.task = "notify" => Doing(w, "synthesize")
               /\ work[w].at \in {"launch", "sync", "returned"}
      BY <1>7, SendFacts DEF dailyDbVars, Follows
    <2>2. Doing(w, "synthesize") /\ work[w].at \in {"launch", "sync", "returned"}
            => At(w, "returned")
      BY <2>1 DEF LabelInv
    <2>3. \A m \in queue' : m.task = "notify" => Summed(m.run)'
      BY <2>1, <2>2 DEF SummaryInv
    <2> QED BY <2>1, <2>3, FreeFacts DEF SummaryInv
  <1> QED BY <1>1, <1>2, <1>3, <1>4, <1>5, <1>6, <1>7, StepKinds DEF TasksNext

-----------------------------------------------------------------------------
(* The credits. *)

\* Where a notify has deleted the hold of its run.
Past == {"low", "flag", "finish", "notice"}

\* A run whose notify has committed, or is about to, holds nothing, unless its
\* settlement met an error of Redis.
SettledInv ==
    /\ \A r \in closed : r \in raised \/ hold[r] = 0
    /\ \A w \in Worker : work[w].at \in Past => RunOf(w) \in raised \/ hold[RunOf(w)] = 0

\* A hold, and what a settlement read of it, is worth the price of a run.
CostInv ==
    /\ \A r \in Run : hold[r] \in {0, Cost}
    /\ \A w \in Worker : Busy(w) /\ Doing(w, "notify") => work[w].got \in {0, Cost}

\* What the other runs may have taken off the balance.
Price(r) == Cost * Cardinality(closed \ {r})

\* A settlement that will deduct loaded a balance its run had not yet reduced.
BalanceInv ==
    /\ IsFiniteSet(closed)
    /\ BalanceFallsOnce
    /\ raised = {} => \A w \in Worker :
         /\ At(w, "get") => \/ hold[RunOf(w)] = 0
                            \/ InitialBalance - work[w].bal <= Price(RunOf(w))
         /\ work[w].at \in Past \cup {"decr", "del"} =>
              work[w].got = 0 \/ InitialBalance - work[w].bal <= Price(RunOf(w))

\* What a slot that goes on has read.
LEMMA MoveJobs ==
    ASSUME DailyTypeOK, NEW w \in Worker, MoveStep(w)
    PROVE  /\ GetHold(w) => /\ work'[w].got = hold[RunOf(w)]
                            /\ work'[w].bal = work[w].bal
                            /\ work'[w].at = IF hold[RunOf(w)] = 0 THEN "del" ELSE "decr"
           /\ LoadUser(w) => work'[w].bal = balance /\ work'[w].got = work[w].got
           /\ Gather(w) => work'[w].got = analysed[RunOf(w)]
           /\ Decrement(w) => work'[w].at = "del"
           /\ ~GetHold(w) /\ ~LoadUser(w) /\ ~Gather(w) /\ ~StartLoads(w) =>
                work'[w].got = work[w].got /\ work'[w].bal = work[w].bal
           /\ StartLoads(w) => work'[w].got = work[w].got
  <1>0. work[w] \in Job
    BY DEF DailyTypeOK
  <1>1. ASSUME NEW j, work' = [work EXCEPT ![w] = j] PROVE work'[w] = j
    BY <1>1 DEF DailyTypeOK
  <1>2. GetHold(w) => /\ work'[w].got = hold[RunOf(w)]
                      /\ work'[w].bal = work[w].bal
                      /\ work'[w].at = IF hold[RunOf(w)] = 0 THEN "del" ELSE "decr"
    <2> DEFINE h == hold[RunOf(w)]
               j == [work[w] EXCEPT !.at = IF h = 0 THEN "del" ELSE "decr", !.got = h]
    <2>1. j.got = h /\ j.bal = work[w].bal /\ j.at = IF h = 0 THEN "del" ELSE "decr"
      BY <1>0 DEF Job
    <2>2. GetHold(w) => work' = [work EXCEPT ![w] = j]
      BY DEF GetHold
    <2> HIDE DEF j
    <2> QED BY <1>1, <2>1, <2>2
  <1>3. LoadUser(w) => work'[w].bal = balance /\ work'[w].got = work[w].got
    <2> DEFINE j == [work[w] EXCEPT !.at = "get", !.bal = balance]
    <2>1. j.bal = balance /\ j.got = work[w].got
      BY <1>0 DEF Job
    <2>2. LoadUser(w) => work' = [work EXCEPT ![w] = j]
      BY DEF LoadUser
    <2> HIDE DEF j
    <2> QED BY <1>1, <2>1, <2>2
  <1>4. Gather(w) => work'[w].got = analysed[RunOf(w)]
    <2> DEFINE j == [work[w] EXCEPT !.at = "summarize", !.got = analysed[RunOf(w)]]
    <2>1. j.got = analysed[RunOf(w)]
      BY <1>0 DEF Job
    <2>2. Gather(w) => work' = [work EXCEPT ![w] = j]
      BY DEF Gather
    <2> HIDE DEF j
    <2> QED BY <1>1, <2>1, <2>2
  <1>5. StartLoads(w) => work'[w].got = work[w].got
    <2> DEFINE j == [work[w] EXCEPT !.at = "reserve", !.bal = balance]
    <2>1. j.got = work[w].got
      BY <1>0 DEF Job
    <2>2. StartLoads(w) => work' = [work EXCEPT ![w] = j]
      BY DEF StartLoads
    <2> HIDE DEF j
    <2> QED BY <1>1, <2>1, <2>2
  <1>6. Delete(w) => work'[w].got = work[w].got /\ work'[w].bal = work[w].bal
    <2> DEFINE j == [work[w] EXCEPT !.at = "low", !.used = work[w].got]
    <2>1. j.got = work[w].got /\ j.bal = work[w].bal
      BY <1>0 DEF Job
    <2>2. Delete(w) => work' = [work EXCEPT ![w] = j]
      BY DEF Delete
    <2> HIDE DEF j
    <2> QED BY <1>1, <2>1, <2>2
  <1>7. ASSUME ~GetHold(w), ~LoadUser(w), ~Gather(w), ~StartLoads(w), ~Delete(w)
        PROVE  work'[w].got = work[w].got /\ work'[w].bal = work[w].bal
    <2>1. \E label \in Label : Goto(w, label)
      BY <1>7 DEF MoveStep, ReserveGranted, FanOutFlushes, AnalysisFails,
         SynthesisFlushes, Decrement, CheckLow, SetFlag, RedisRaises, RedisStep, Label, Locking
    <2> QED BY <2>1, GotoFacts
  <1>8. Decrement(w) => work'[w].at = "del"
    <2>1. "del" \in Label
      BY DEF Label, RedisStep
    <2> QED BY <2>1, GotoFacts DEF Decrement
  <1> QED BY <1>2, <1>3, <1>4, <1>5, <1>6, <1>7, <1>8

\* What a slot that goes on does to the holds.
LEMMA MoveHolds ==
    ASSUME DailyTypeOK, LabelInv, NEW w \in Worker, MoveStep(w)
    PROVE  /\ \A q \in Run : q # RunOf(w) => hold'[q] = hold[q]
           /\ \/ hold'[RunOf(w)] = hold[RunOf(w)]
              \/ hold'[RunOf(w)] = Cost /\ Doing(w, "start") /\ At(w, "reserve")
              \/ hold'[RunOf(w)] = 0 /\ At(w, "del")
           /\ \/ raised' = raised
              \/ raised' = raised \cup {RunOf(w)} /\ work[w].at \in {"get", "decr", "del"}
           /\ At(w, "del") => hold'[RunOf(w)] = 0 \/ RunOf(w) \in raised'
  <1>0. RunOf(w) \in Run /\ work[w].msg.task \in Task
    BY DEF DailyTypeOK, Job, Message, RunOf
  <1>1. CASE ReserveGranted(w)
    <2>1. hold' = [hold EXCEPT ![RunOf(w)] = Cost] /\ raised' = raised /\ work[w].at = "reserve"
      BY <1>1 DEF ReserveGranted, Reserve, SetHold, histVars, At
    <2>2. Doing(w, "start")
      BY <1>0, <2>1 DEF LabelInv, Busy, Doing, At, Task
    <2> QED BY <1>0, <2>1, <2>2 DEF DailyTypeOK, CreditTypeOK, At
  <1>2. CASE Delete(w)
    <2>1. hold' = [hold EXCEPT ![RunOf(w)] = 0] /\ raised' = raised /\ work[w].at = "del"
      BY <1>2 DEF Delete, DeleteHold, histVars, At
    <2> QED BY <1>0, <2>1 DEF DailyTypeOK, CreditTypeOK, At
  <1>3. CASE RedisRaises(w)
    <2>1. /\ hold' = hold /\ work[w].at \in RedisStep
          /\ raised' = IF work[w].at \in {"get", "decr", "del"} THEN raised \cup {RunOf(w)}
                       ELSE raised
      BY <1>3 DEF RedisRaises, creditVars
    <2>2. RunOf(w) \in raised \cup {RunOf(w)}
      OBVIOUS
    <2> QED BY <2>1, <2>2 DEF At
  <1>4. CASE \/ StartLoads(w) \/ FanOutFlushes(w) \/ AnalysisFails(w) \/ SynthesisFlushes(w)
             \/ Gather(w) \/ LoadUser(w) \/ GetHold(w) \/ Decrement(w) \/ CheckLow(w)
             \/ SetFlag(w)
    BY <1>4 DEF StartLoads, FanOutFlushes, AnalysisFails, SynthesisFlushes, Gather,
       LoadUser, GetHold, Decrement, DecrReserved, CheckLow, SetFlag, creditVars, histVars, At
  <1> QED BY <1>1, <1>2, <1>3, <1>4 DEF MoveStep

LEMMA SettledStep ==
    ASSUME DailyTypeOK, LabelInv, AloneInv, SummaryInv, SettledInv, TasksNext
    PROVE  SettledInv'
  <1> USE DEF Busy, RunOf, Doing, At, Past
  <1>0. (\A w \in Worker : RunOf(w) \in Run) /\ closed \subseteq Run
    BY DEF DailyTypeOK, Job, Message
  <1>1. CASE Fire
    BY <1>1, FireFacts DEF SettledInv, creditVars, histVars
  <1>2. CASE ExpireHolds
    <2>1. (\A r \in Run : hold'[r] \in {hold[r], 0}) /\ UNCHANGED <<work, raised, closed>>
      BY <1>2 DEF ExpireHolds, PassTime
    <2> QED BY <1>0, <2>1 DEF SettledInv
  <1>3. CASE Take
    <2>1. UNCHANGED <<hold, raised, closed>>
      BY <1>3 DEF Take, creditVars, histVars
    <2>2. \A m \in queue : m.task \in Task
      BY DEF DailyTypeOK, Message
    <2> QED BY <1>3, <2>1, <2>2, TakeFacts DEF SettledInv, Task
  <1>4. ASSUME NEW w \in Worker, Redeliver(w) \/ Crash(w) PROVE SettledInv'
    BY <1>4, FaultFacts, FreeFacts DEF SettledInv, creditVars
  <1>5. ASSUME NEW w \in Worker, MoveStep(w) PROVE SettledInv'
    <2> PICK r \in Run : r = RunOf(w)
      BY <1>0
    <2>1. /\ \A q \in Run : q # r => hold'[q] = hold[q]
          /\ \/ hold'[r] = hold[r]
             \/ Doing(w, "start") /\ At(w, "reserve")
             \/ hold'[r] = 0
          /\ raised \subseteq raised'
          /\ At(w, "del") => hold'[r] = 0 \/ r \in raised'
          /\ work[w].at \in {"get", "decr"} => hold'[r] = hold[r]
          /\ work[w].at \in {"get", "decr"} /\ work'[w].at = "low" => r \in raised'
      <3>1. work[w].at \in {"get", "decr"} => hold'[r] = hold[r]
        BY <1>5, MoveHolds
      <3>2. ASSUME work[w].at \in {"get", "decr"}, work'[w].at = "low" PROVE r \in raised'
        <4>1. ~GetHold(w) /\ ~Decrement(w)
          BY <1>5, <3>2, MoveJobs
        <4>2. RedisRaises(w)
          BY <1>5, <3>2, <4>1 DEF MoveStep, StartLoads, ReserveGranted, FanOutFlushes,
             AnalysisFails, SynthesisFlushes, Gather, LoadUser, Delete, CheckLow, SetFlag
        <4> QED BY <3>2, <4>2 DEF RedisRaises
      <3> QED BY <1>5, <3>1, <3>2, MoveHolds
    <2>2. /\ \A v \in Worker : v # w => work'[v] = work[v]
          /\ Edge(work[w].at, work'[w].at) /\ work'[w].msg = work[w].msg
          /\ closed' = closed
      BY <1>5, MoveFacts
    <2>3. Doing(w, "start") /\ At(w, "reserve") =>
            r \notin closed /\ \A v \in Worker : work[v].at \in Past => RunOf(v) # r
      BY RowFacts DEF AloneInv, SummaryInv, Summed, Runs
    <2>4. \A q \in closed' : q \in raised' \/ hold'[q] = 0
      BY <1>0, <2>1, <2>2, <2>3 DEF SettledInv
    <2>5. ASSUME NEW v \in Worker, work'[v].at \in Past
          PROVE  RunOf(v)' \in raised' \/ hold'[RunOf(v)'] = 0
      <3>1. CASE v # w
        BY <1>0, <2>1, <2>2, <2>3, <2>5, <3>1 DEF SettledInv
      <3>2. CASE v = w
        BY <1>0, <2>1, <2>2, <2>5, <3>2 DEF SettledInv, Edge
      <3> QED BY <3>1, <3>2
    <2> QED BY <2>4, <2>5 DEF SettledInv
  <1>6. ASSUME NEW w \in Worker, WriteStep(w) PROVE SettledInv'
    <2>1. NotifyCommits(w) => work[w].at \in Past /\ closed' = closed \cup {RunOf(w)}
      BY DEF NotifyCommits
    <2>2. ~NotifyCommits(w) => closed' = closed
      BY <1>6 DEF WriteStep, ReserveDenied, InsertRun, FanOutCommits, AnalysisCommits,
         SynthesisCommits, histVars
    <2>3. /\ UNCHANGED <<hold, raised>>
          /\ \A v \in Worker : work'[v].at \in Past => work'[v] = work[v]
      BY <1>6, WriteFacts, FreeFacts DEF creditVars
    <2> QED BY <2>1, <2>2, <2>3 DEF SettledInv
  <1>7. ASSUME NEW w \in Worker, SendStep(w) PROVE SettledInv'
    BY <1>7, SendFacts, FreeFacts DEF SettledInv, creditVars
  <1> QED BY <1>1, <1>2, <1>3, <1>4, <1>5, <1>6, <1>7, StepKinds DEF TasksNext

LEMMA CostStep ==
    ASSUME DailyTypeOK, LabelInv, CostInv, TasksNext
    PROVE  CostInv'
  <1> USE DEF Busy, RunOf, Doing, At
  <1>0. \A w \in Worker : RunOf(w) \in Run
    BY DEF DailyTypeOK, Job, Message
  <1>1. CASE Fire
    BY <1>1, FireFacts DEF CostInv, creditVars
  <1>2. CASE ExpireHolds
    <2>1. (\A r \in Run : hold'[r] \in {hold[r], 0}) /\ work' = work
      BY <1>2 DEF ExpireHolds, PassTime
    <2> QED BY <2>1 DEF CostInv
  <1>3. CASE Take
    <2>1. hold' = hold
      BY <1>3 DEF Take, creditVars
    <2> QED BY <1>3, <2>1, TakeFacts DEF CostInv
  <1>4. ASSUME NEW w \in Worker, Redeliver(w) \/ Crash(w) PROVE CostInv'
    BY <1>4, FaultFacts, FreeFacts DEF CostInv, creditVars
  <1>5. ASSUME NEW w \in Worker, MoveStep(w) PROVE CostInv'
    <2>1. \A r \in Run : hold'[r] \in {0, Cost}
      BY <1>0, <1>5, MoveHolds DEF CostInv
    <2>2. /\ \A v \in Worker : v # w => work'[v] = work[v]
          /\ work'[w].msg = work[w].msg /\ Busy(w)
      BY <1>5, MoveFacts DEF Edge
    <2>3. ASSUME Doing(w, "notify") PROVE work'[w].got \in {0, Cost}
      <3>1. ~Gather(w)
        BY <2>2, <2>3 DEF Gather, LabelInv
      <3>2. work'[w].got \in {work[w].got, hold[RunOf(w)]}
        BY <1>5, <3>1, MoveJobs
      <3> QED BY <1>0, <2>2, <2>3, <3>2 DEF CostInv
    <2> QED BY <2>1, <2>2, <2>3 DEF CostInv
  <1>6. ASSUME NEW w \in Worker, WriteStep(w) PROVE CostInv'
    <2>1. ASSUME NEW v \in Worker, Busy(v)', Doing(v, "notify")'
          PROVE  Busy(v) /\ Doing(v, "notify") /\ v # w
      BY <1>6, <2>1, WriteFacts, FreeFacts DEF LabelInv
    <2>2. hold' = hold /\ \A v \in Worker : v # w => work'[v] = work[v]
      BY <1>6, WriteFacts DEF creditVars
    <2> QED BY <2>1, <2>2 DEF CostInv
  <1>7. ASSUME NEW w \in Worker, SendStep(w) PROVE CostInv'
    BY <1>7, SendFacts, FreeFacts DEF CostInv, creditVars
  <1> QED BY <1>1, <1>2, <1>3, <1>4, <1>5, <1>6, <1>7, StepKinds DEF TasksNext

LEMMA Dearer ==
    ASSUME NEW m \in Nat, NEW n \in Nat, m <= n
    PROVE  Cost * m <= Cost * n
  <1>1. PICK k \in Nat : n = m + k
    BY SMT
  <1>2. Cost * n = Cost * m + Cost * k /\ Cost * k \in Nat /\ Cost * m \in Nat
    BY <1>1
  <1> QED BY <1>2

\* The price of the runs that are settled, when one more is.
LEMMA PriceFacts ==
    ASSUME NEW S, IsFiniteSet(S), NEW r
    PROVE  /\ IsFiniteSet(S \cup {r}) /\ Cost * Cardinality(S) \in Nat
           /\ Cost * Cardinality(S \cup {r}) \in Nat
           /\ Cost * Cardinality(S) <= Cost * Cardinality(S \cup {r})
           /\ Cost * Cardinality(S \ {r}) + Cost = Cost * Cardinality(S \cup {r})
           /\ \A q : /\ Cost * Cardinality(S \ {q}) \in Nat
                     /\ Cost * Cardinality((S \cup {r}) \ {q}) \in Nat
                     /\ Cost * Cardinality(S \ {q}) <= Cost * Cardinality((S \cup {r}) \ {q})
  <1>1. ASSUME NEW A, NEW B, IsFiniteSet(B), A \subseteq B
        PROVE  /\ Cost * Cardinality(A) \in Nat /\ Cost * Cardinality(B) \in Nat
               /\ Cost * Cardinality(A) <= Cost * Cardinality(B)
    <2>1. IsFiniteSet(A) /\ Cardinality(A) <= Cardinality(B)
      BY <1>1, FS_Subset
    <2>2. Cardinality(A) \in Nat /\ Cardinality(B) \in Nat
      BY <1>1, <2>1, FS_CardinalityType
    <2> QED BY <2>1, <2>2, Dearer
  <1>2. IsFiniteSet(S \cup {r}) /\ IsFiniteSet(S \ {r})
    BY FS_AddElement, FS_RemoveElement
  <1>3. Cost * Cardinality(S \ {r}) + Cost = Cost * Cardinality(S \cup {r})
    <2>1. (S \ {r}) \cup {r} = S \cup {r} /\ r \notin S \ {r}
      OBVIOUS
    <2>2. Cardinality(S \cup {r}) = Cardinality(S \ {r}) + 1
      BY <1>2, <2>1, FS_AddElement
    <2>3. Cardinality(S \ {r}) \in Nat
      BY <1>2, FS_CardinalityType
    <2> QED BY <2>2, <2>3
  <1>4. \A q : IsFiniteSet((S \cup {r}) \ {q}) /\ S \ {q} \subseteq (S \cup {r}) \ {q}
    BY <1>2, FS_RemoveElement
  <1> QED BY <1>1, <1>2, <1>3, <1>4

LEMMA BalanceStep ==
    ASSUME DailyTypeOK, LabelInv, AloneInv, SettledInv, CostInv, BalanceInv, TasksNext
    PROVE  BalanceInv'
  <1> USE DEF Busy, RunOf, Doing, At
  <1>0. /\ \A w \in Worker : RunOf(w) \in Run /\ work[w].bal \in Nat /\ work[w].got \in Nat
        /\ balance \in Nat
    BY DEF DailyTypeOK, Job, Message
  <1>1. CASE Fire
    BY <1>1, FireFacts DEF BalanceInv, BalanceFallsOnce, Price, creditVars, dailyDbVars, histVars
  <1>2. CASE ExpireHolds
    <2>1. (\A r \in Run : hold'[r] \in {hold[r], 0}) /\ UNCHANGED <<work, raised, closed, balance>>
      BY <1>2 DEF ExpireHolds, PassTime, dailyDbVars
    <2> QED BY <1>0, <2>1 DEF BalanceInv, BalanceFallsOnce, Price
  <1>3. CASE Take
    <2>1. UNCHANGED <<hold, balance, raised, closed>>
      BY <1>3 DEF Take, creditVars, dailyDbVars, histVars
    <2>2. \A m \in queue : m.task \in Task
      BY DEF DailyTypeOK, Message
    <2> QED BY <1>3, <2>1, <2>2, TakeFacts
            DEF BalanceInv, BalanceFallsOnce, Price, Past, Task
  <1>4. ASSUME NEW w \in Worker, Redeliver(w) \/ Crash(w) PROVE BalanceInv'
    <2>1. UNCHANGED <<hold, balance, raised, closed>>
      BY <1>4, FaultFacts DEF creditVars, dailyDbVars
    <2> QED BY <1>4, <2>1, FaultFacts, FreeFacts
            DEF BalanceInv, BalanceFallsOnce, Price, Past
  <1>5. ASSUME NEW w \in Worker, MoveStep(w) PROVE BalanceInv'
    <2> PICK r \in Run : r = RunOf(w)
      BY <1>0
    <2>1. /\ UNCHANGED <<balance, closed>>
          /\ \A v \in Worker : v # w => work'[v] = work[v]
          /\ Edge(work[w].at, work'[w].at) /\ work'[w].msg = work[w].msg
      BY <1>5, MoveFacts DEF dailyDbVars
    <2>2. /\ \A q \in Run : q # r => hold'[q] = hold[q]
          /\ \/ hold'[r] = hold[r]
             \/ Doing(w, "start") /\ At(w, "reserve")
             \/ hold'[r] = 0
          /\ raised \subseteq raised'
      BY <1>5, MoveHolds
    <2>3. ASSUME raised' = {}, NEW v \in Worker
          PROVE  /\ At(v, "get")' => \/ hold'[RunOf(v)'] = 0
                                     \/ InitialBalance - work'[v].bal <= Price(RunOf(v))'
                 /\ work'[v].at \in Past \cup {"decr", "del"} =>
                      work'[v].got = 0 \/ InitialBalance - work'[v].bal <= Price(RunOf(v))'
      <3>0. raised = {}
        BY <2>2, <2>3
      <3>1. CASE v # w
        <4>1. Doing(w, "start") /\ At(w, "reserve") /\ Busy(v) => RunOf(v) # r
          BY <3>1 DEF AloneInv, Runs
        <4> QED BY <1>0, <2>1, <2>2, <3>0, <3>1, <4>1 DEF BalanceInv, Price, Past
      <3>2. CASE v = w
        <4>1. Price(RunOf(v))' = Price(r) /\ RunOf(v)' = r
          BY <2>1, <3>2 DEF Price
        <4>2. CASE At(w, "notify")
          <5>1. LoadUser(w)
            BY <1>5, <4>2 DEF MoveStep, StartLoads, ReserveGranted, FanOutFlushes,
               AnalysisFails, SynthesisFlushes, Gather, GetHold, Decrement, Delete, CheckLow,
               SetFlag, RedisRaises, RedisStep
          <5>2. work'[w].at = "get" /\ work'[w].bal = balance /\ hold'[r] = hold[r]
            BY <1>5, <2>1, <4>2, <5>1, MoveJobs, MoveHolds DEF Edge
          <5>3. hold[r] = 0 \/ InitialBalance - balance <= Price(r)
            <6>1. CASE r \in closed
              BY <3>0, <6>1 DEF SettledInv
            <6>2. CASE r \notin closed
              <7>1. closed \ {r} = closed
                BY <6>2
              <7> QED BY <3>0, <7>1 DEF BalanceInv, BalanceFallsOnce, Price
            <6> QED BY <6>1, <6>2
          <5> QED BY <3>2, <4>1, <5>2, <5>3 DEF Past
        <4>3. CASE At(w, "get")
          <5>1. GetHold(w)
            <6>1. ~RedisRaises(w)
              BY <2>3, <4>3 DEF RedisRaises
            <6> QED BY <1>5, <4>3, <6>1 DEF MoveStep, StartLoads, ReserveGranted, FanOutFlushes,
               AnalysisFails, SynthesisFlushes, Gather, LoadUser, Decrement, Delete, CheckLow,
               SetFlag
          <5>2. /\ work'[w].got = hold[r] /\ work'[w].bal = work[w].bal
                /\ work'[w].at # "get"
            BY <1>5, <2>1, <4>3, <5>1, MoveJobs DEF Edge
          <5> QED BY <3>0, <3>2, <4>1, <4>3, <5>2 DEF BalanceInv
        <4>4. CASE work[w].at \in Past \cup {"decr", "del"}
          <5>1. work'[w].got = work[w].got /\ work'[w].bal = work[w].bal
            BY <1>5, <4>4, MoveJobs DEF GetHold, LoadUser, Gather, StartLoads, Past
          <5>2. work'[w].at # "get"
            BY <2>1, <4>4 DEF Edge, Past
          <5> QED BY <3>0, <3>2, <4>1, <4>4, <5>1, <5>2 DEF BalanceInv
        <4>5. CASE ~At(w, "notify") /\ ~At(w, "get") /\ work[w].at \notin Past \cup {"decr", "del"}
          BY <2>1, <3>2, <4>5 DEF Edge, Past
        <4> QED BY <4>2, <4>3, <4>4, <4>5
      <3> QED BY <3>1, <3>2
    <2>4. IsFiniteSet(closed') /\ BalanceFallsOnce'
      BY <2>1, <2>2 DEF BalanceInv, BalanceFallsOnce
    <2> QED BY <2>3, <2>4 DEF BalanceInv
  <1>6. ASSUME NEW w \in Worker, WriteStep(w) PROVE BalanceInv'
    <2> PICK r \in Run : r = RunOf(w)
      BY <1>0
    <2>1. /\ UNCHANGED <<hold, raised>>
          /\ \A v \in Worker : work'[v].at \in Past \cup {"get", "decr", "del"} => work'[v] = work[v]
      BY <1>6, WriteFacts, FreeFacts DEF creditVars, Past
    <2>2. CASE NotifyCommits(w)
      <3>1. /\ closed' = closed \cup {r} /\ work[w].at \in {"finish", "notice"}
            /\ balance' = IF Deducted(w) = work[w].bal THEN balance ELSE Deducted(w)
        BY <2>2 DEF NotifyCommits
      <3>2. Doing(w, "notify")
        BY <3>1 DEF LabelInv, DailyTypeOK, Job, Message, Task
      <3>3. ASSUME raised = {}
            PROVE  InitialBalance - balance' <= Cost * Cardinality(closed')
        <4>1. InitialBalance - balance <= Cost * Cardinality(closed)
          BY <3>3 DEF BalanceInv, BalanceFallsOnce
        <4>2. Cost * Cardinality(closed) <= Cost * Cardinality(closed')
              /\ Cost * Cardinality(closed) \in Nat /\ Cost * Cardinality(closed') \in Nat
          BY <3>1, PriceFacts DEF BalanceInv
        <4>3. CASE Deducted(w) = work[w].bal
          BY <1>0, <3>1, <4>1, <4>2, <4>3
        <4>4. CASE Deducted(w) # work[w].bal
          <5>1. work[w].got = Cost
            BY <1>0, <3>1, <3>2, <4>4 DEF CostInv, Deducted
          <5>2. InitialBalance - work[w].bal <= Price(r)
            BY <3>1, <3>3, <5>1 DEF BalanceInv, Past
          <5>3. Price(r) + Cost = Cost * Cardinality(closed') /\ Price(r) \in Nat
            BY <3>1, PriceFacts DEF BalanceInv, Price
          <5>4. work[w].bal - Cost <= Deducted(w) /\ Deducted(w) \in Nat
            BY <1>0, <5>1 DEF Deducted
          <5>5. balance' = Deducted(w)
            BY <3>1, <4>4
          <5> QED BY <1>0, <4>2, <5>2, <5>3, <5>4, <5>5
        <4> QED BY <4>3, <4>4
      <3>4. IsFiniteSet(closed')
        BY <3>1, PriceFacts DEF BalanceInv
      <3>5. \A q \in Run : Price(q) \in Nat /\ Price(q)' \in Nat /\ Price(q) <= Price(q)'
        BY <3>1, PriceFacts DEF BalanceInv, Price
      <3>6. ASSUME raised = {}, NEW v \in Worker
            PROVE  /\ At(v, "get")' => \/ hold'[RunOf(v)'] = 0
                                       \/ InitialBalance - work'[v].bal <= Price(RunOf(v))'
                   /\ work'[v].at \in Past \cup {"decr", "del"} =>
                        work'[v].got = 0 \/ InitialBalance - work'[v].bal <= Price(RunOf(v))'
        <4> PICK q \in Run : q = RunOf(v)
          BY <1>0
        <4>1. work'[v].at \in Past \cup {"get", "decr", "del"} =>
                work'[v] = work[v] /\ Price(RunOf(v))' = Price(q)' /\ RunOf(v)' = q
          BY <2>1 DEF Price
        <4>2. /\ At(v, "get") => hold[q] = 0 \/ InitialBalance - work[v].bal <= Price(q)
              /\ work[v].at \in Past \cup {"decr", "del"} =>
                   work[v].got = 0 \/ InitialBalance - work[v].bal <= Price(q)
          BY <3>6 DEF BalanceInv
        <4>3. Price(q) \in Nat /\ Price(q)' \in Nat /\ Price(q) <= Price(q)'
          BY <3>5
        <4> QED BY <1>0, <2>1, <4>1, <4>2, <4>3
      <3> QED BY <2>1, <3>3, <3>4, <3>6 DEF BalanceInv, BalanceFallsOnce
    <2>3. CASE ~NotifyCommits(w)
      <3>1. UNCHANGED <<closed, balance>>
        BY <1>6, <2>3 DEF WriteStep, ReserveDenied, InsertRun, FanOutCommits, AnalysisCommits,
           SynthesisCommits, histVars
      <3> QED BY <2>1, <3>1 DEF BalanceInv, BalanceFallsOnce, Price, Past
    <2> QED BY <2>2, <2>3
  <1>7. ASSUME NEW w \in Worker, SendStep(w) PROVE BalanceInv'
    <2>1. UNCHANGED <<hold, balance, raised, closed>>
      BY <1>7, SendFacts DEF creditVars, dailyDbVars
    <2> QED BY <1>7, <2>1, SendFacts, FreeFacts
            DEF BalanceInv, BalanceFallsOnce, Price, Past
  <1> QED BY <1>1, <1>2, <1>3, <1>4, <1>5, <1>6, <1>7, StepKinds DEF TasksNext

-----------------------------------------------------------------------------
(* The notice. *)

\* The notice of a flag that is gone.
Earlier == IF lapsed THEN 1 ELSE 0

\* The flag comes before the notification, and one slot brings it.
NoticeInv ==
    /\ OneNoticePerFlag
    /\ notices > Earlier => flagged
    /\ \A w \in Worker : At(w, "notice") =>
         flagged /\ notices <= Earlier /\ \A v \in Worker : At(v, "notice") => v = w

\* No task takes the flag's time for over.
LEMMA LapsedStays ==
    ASSUME TasksNext
    PROVE  lapsed' = lapsed
  <1>1. CASE Fire \/ Take \/ ExpireHolds
    BY <1>1 DEF Fire, Take, ExpireHolds
  <1>2. ASSUME NEW w \in Worker, Redeliver(w) \/ Crash(w) PROVE lapsed' = lapsed
    BY <1>2 DEF Redeliver, Crash
  <1>3. ASSUME NEW w \in Worker, MoveStep(w) PROVE lapsed' = lapsed
    BY <1>3 DEF MoveStep, StartLoads, ReserveGranted, FanOutFlushes, AnalysisFails,
       SynthesisFlushes, Gather, LoadUser, GetHold, Decrement, Delete, CheckLow, SetFlag,
       RedisRaises
  <1>4. ASSUME NEW w \in Worker, WriteStep(w) PROVE lapsed' = lapsed
    BY <1>4 DEF WriteStep, ReserveDenied, InsertRun, FanOutCommits, AnalysisCommits,
       SynthesisCommits, NotifyCommits
  <1>5. ASSUME NEW w \in Worker, SendStep(w) PROVE lapsed' = lapsed
    BY <1>5 DEF SendStep, StartSkips, LaunchChain, SyncReturns, SyncGivesUp,
       NothingToAnalyze, LaunchChord, PartReturns, SynthesisReturns, Proceed
  <1> QED BY <1>1, <1>2, <1>3, <1>4, <1>5, StepKinds DEF TasksNext

LEMMA NoticeStep ==
    ASSUME DailyTypeOK, LabelInv, NoticeInv, TasksNext
    PROVE  NoticeInv'
  <1> USE DEF Busy, At, OneNoticePerFlag, Earlier
  <1>0. notices \in Nat /\ flagged \in BOOLEAN /\ lapsed \in BOOLEAN /\ lapsed' = lapsed
    BY LapsedStays DEF DailyTypeOK
  <1>1. CASE Fire \/ ExpireHolds
    BY <1>0, <1>1 DEF Fire, ExpireHolds, NoticeInv, dailyDbVars
  <1>2. CASE Take
    <2>1. UNCHANGED <<notices, flagVars>> /\ \A m \in queue : m.task \in Task
      BY <1>2 DEF Take, dailyDbVars, DailyTypeOK, Message
    <2> QED BY <1>0, <1>2, <2>1, TakeFacts DEF NoticeInv, Task
  <1>3. ASSUME NEW w \in Worker, Redeliver(w) \/ Crash(w) PROVE NoticeInv'
    BY <1>0, <1>3, FaultFacts, FreeFacts DEF NoticeInv, dailyDbVars
  <1>4. ASSUME NEW w \in Worker, MoveStep(w) PROVE NoticeInv'
    <2>1. /\ notices' = notices /\ Edge(work[w].at, work'[w].at)
          /\ \A v \in Worker : v # w => work'[v] = work[v]
      BY <1>4, MoveFacts DEF dailyDbVars
    <2>2. CASE SetFlag(w)
      <3>1. flagged' = TRUE /\ Goto(w, IF flagged THEN "finish" ELSE "notice") /\ At(w, "flag")
        BY <2>2 DEF SetFlag
      <3>2. work'[w].at = IF flagged THEN "finish" ELSE "notice"
        BY <3>1, GotoFacts DEF Label, RedisStep
      <3> QED BY <1>0, <2>1, <3>1, <3>2 DEF NoticeInv
    <2>3. CASE ~SetFlag(w)
      <3>1. flagged' = flagged
        BY <1>4, <2>3 DEF MoveStep, StartLoads, ReserveGranted, FanOutFlushes, AnalysisFails,
           SynthesisFlushes, Gather, LoadUser, GetHold, Decrement, Delete, CheckLow, RedisRaises
      <3>2. work'[w].at # "notice"
        <4>1. SUFFICES ASSUME At(w, "flag"), RedisRaises(w) PROVE work'[w].at # "notice"
          BY <1>4, <2>1, <2>3 DEF Edge, MoveStep, StartLoads, ReserveGranted, FanOutFlushes,
             AnalysisFails, SynthesisFlushes, Gather, LoadUser, GetHold, Decrement, Delete,
             CheckLow
        <4>2. Goto(w, "finish") /\ "finish" \in Label
          BY <4>1 DEF RedisRaises, Label
        <4> QED BY <4>2, GotoFacts
      <3> QED BY <1>0, <2>1, <3>1, <3>2 DEF NoticeInv
    <2> QED BY <2>2, <2>3
  <1>5. ASSUME NEW w \in Worker, WriteStep(w) PROVE NoticeInv'
    <2>1. /\ flagged' = flagged /\ work'[w].at # "notice"
          /\ \A v \in Worker : v # w => work'[v] = work[v]
      BY <1>5, WriteFacts, FreeFacts
    <2>2. notices' = IF At(w, "notice") THEN notices + 1 ELSE notices
      BY <1>5 DEF WriteStep, ReserveDenied, InsertRun, FanOutCommits, AnalysisCommits,
         SynthesisCommits, NotifyCommits
    <2> QED BY <1>0, <2>1, <2>2 DEF NoticeInv
  <1>6. ASSUME NEW w \in Worker, SendStep(w) PROVE NoticeInv'
    BY <1>0, <1>6, SendFacts, FreeFacts DEF NoticeInv, dailyDbVars
  <1> QED BY <1>1, <1>2, <1>3, <1>4, <1>5, <1>6, StepKinds DEF TasksNext

\* A flag that is over has brought its notice, or never will.
LEMMA NoticeExpires ==
    ASSUME DailyTypeOK, NoticeInv, FlagExpires
    PROVE  NoticeInv'
  <1>1. /\ notices' = notices /\ notices <= 1 /\ lapsed' = TRUE /\ notices \in Nat
        /\ \A w \in Worker : ~At(w, "notice")'
    BY DEF FlagExpires, NoticeInv, OneNoticePerFlag, DailyTypeOK, dailyDbVars, At
  <1> QED BY <1>1 DEF NoticeInv, OneNoticePerFlag, Earlier

-----------------------------------------------------------------------------
(* The digest, while nothing fails: one line per run. *)

LineInv ==
    faults = 0 =>
      /\ \A m \in queue : m.line = 0 /\ m.copy = 0
      /\ \A w \in Worker : Busy(w) => work[w].msg.line = 0 /\ work[w].msg.copy = 0

LEMMA LineStep ==
    ASSUME DailyTypeOK, LabelInv, LineInv, TasksNext
    PROVE  LineInv'
  <1> USE DEF Busy, RunOf
  <1>0. faults \in Nat
    BY DEF DailyTypeOK
  <1>1. CASE Fire
    BY <1>1, FireFacts DEF LineInv, histVars
  <1>2. CASE Take
    <2>1. faults' = faults
      BY <1>2 DEF Take, histVars
    <2> QED BY <1>2, <2>1, TakeFacts DEF LineInv
  <1>3. CASE ExpireHolds
    BY <1>0, <1>3 DEF ExpireHolds, LineInv
  <1>4. ASSUME NEW w \in Worker, Redeliver(w) \/ Crash(w) PROVE LineInv'
    BY <1>0, <1>4, FaultFacts DEF LineInv
  <1>5. ASSUME NEW w \in Worker, MoveStep(w) PROVE LineInv'
    <2>1. faults' = 0 => faults = 0
      BY <1>0, <1>5 DEF MoveStep, StartLoads, ReserveGranted, FanOutFlushes, AnalysisFails,
         SynthesisFlushes, Gather, LoadUser, GetHold, Decrement, Delete, CheckLow, SetFlag,
         RedisRaises, Fault, histVars
    <2> QED BY <1>5, <2>1, MoveFacts DEF LineInv, queueVars, Edge
  <1>6. ASSUME NEW w \in Worker, WriteStep(w) PROVE LineInv'
    BY <1>6, WriteFacts, FreeFacts DEF LineInv, queueVars
  <1>7. ASSUME NEW w \in Worker, SendStep(w) PROVE LineInv'
    <2>1. Line(work[w].msg) \in {work[w].msg.line, work[w].msg.copy}
      BY DEF Line
    <2> QED BY <1>7, <2>1, SendFacts, FreeFacts DEF LineInv
  <1> QED BY <1>1, <1>2, <1>3, <1>4, <1>5, <1>6, <1>7, StepKinds DEF TasksNext

\* No step of a slot takes a fault back.
LEMMA FaultsGrow ==
    ASSUME DailyTypeOK, TasksNext, faults' = 0
    PROVE  /\ faults = 0 /\ ~ExpireHolds
           /\ \A w \in Worker : ~Redeliver(w) /\ ~Crash(w) /\ ~RedisRaises(w)
  <1>1. faults \in Nat
    BY DEF DailyTypeOK
  <1>2. ~ExpireHolds /\ \A w \in Worker : ~Redeliver(w) /\ ~Crash(w) /\ ~RedisRaises(w)
    BY <1>1 DEF ExpireHolds, Redeliver, Crash, RedisRaises, Fault
  <1>3. ASSUME NEW w \in Worker, Step(w) PROVE faults' = faults
    BY <1>3 DEF Step, StartSkips, StartLoads, ReserveGranted, ReserveDenied, InsertRun,
       LaunchChain, SyncReturns, SyncGivesUp, FanOutFlushes, FanOutCommits, NothingToAnalyze,
       LaunchChord, AnalysisFails, AnalysisCommits, PartReturns, SynthesisFlushes, Gather,
       SynthesisCommits, SynthesisReturns, LoadUser, GetHold, Decrement, Delete, CheckLow,
       SetFlag, NotifyCommits, Proceed, histVars
  <1> QED BY <1>2, <1>3 DEF TasksNext, Fire, Take, histVars

\* Two things under way for one run are parts of its chord, and each part is
\* there once; the parts under way have yet to return.
SpreadInv ==
    faults = 0 =>
      /\ \A m, n \in queue : m # n /\ m.run = n.run =>
           m.task = "analyze" /\ n.task = "analyze" /\ m.listing # n.listing
      /\ \A m \in queue, w \in Worker : Runs(w, m.run) =>
           m.task = "analyze" /\ Doing(w, "analyze") /\ work[w].msg.listing # m.listing
      /\ \A v, w \in Worker : v # w /\ Busy(v) /\ Runs(w, RunOf(v)) =>
           Doing(v, "analyze") /\ Doing(w, "analyze")
             /\ work[w].msg.listing # work[v].msg.listing
      /\ \A m \in queue : m.task = "analyze" => m.listing \in chord[m.run][0]
      /\ \A w \in Worker : Busy(w) /\ Doing(w, "analyze") =>
           work[w].msg.listing \in chord[RunOf(w)][0]

\* What a task that ends adds to the queue of its run.
LEMMA SendQueue ==
    ASSUME DailyTypeOK, LabelInv, LineInv, faults = 0, NEW w \in Worker, SendStep(w),
           NEW r, r = RunOf(w)
    PROVE  /\ \A q \in Run : q # r => chord'[q] = chord[q]
           /\ \/ queue' = queue /\ chord' = chord
              \/ /\ ~Doing(w, "analyze") /\ chord' = chord
                 /\ \E n \in Message : /\ queue' = queue \cup {n}
                                       /\ n.run = r /\ n.task # "analyze"
              \/ /\ ~Doing(w, "analyze")
                 /\ \A n \in queue' \ queue :
                      /\ n.run = r /\ n.task = "analyze" /\ n.listing \in chord'[r][0]
                      /\ \A k \in queue' \ queue : k.listing = n.listing => k = n
              \/ /\ Doing(w, "analyze")
                 /\ chord'[r][0] = chord[r][0] \ {work[w].msg.listing}
                 /\ \/ queue' = queue
                    \/ /\ chord[r][0] = {work[w].msg.listing}
                       /\ \E n \in Message : /\ queue' = queue \cup {n}
                                             /\ n.run = r /\ n.task # "analyze"
  <1> USE DEF At, Doing
  <1> DEFINE m == work[w].msg
  <1>0. /\ m \in Message /\ m.run = r /\ r \in Run /\ m.task \in Task
        /\ chord[r] \in [0 .. MaxFaults -> SUBSET Listing] /\ 0 \in 0 .. MaxFaults
    BY DEF DailyTypeOK, Job, Message, RunOf
  <1>1. m.line = 0 /\ m.copy = 0 /\ Line(m) = 0
    BY SendFacts DEF LineInv, Line
  <1>2. ASSUME NEW next \in Task, next # "analyze", Proceed(w, next)
        PROVE  \E n \in Message : queue' = queue \cup {n} /\ n.run = r /\ n.task # "analyze"
    <2> DEFINE n == Follow(m, next, NoListing)
    <2>1. n \in Message /\ n.run = r /\ n.task = next
      BY <1>0, FollowFacts
    <2>2. queue' = queue \cup {n}
      BY <1>2 DEF Proceed
    <2> HIDE DEF n
    <2> QED BY <1>2, <2>1, <2>2
  <1>3. CASE StartSkips(w) \/ SyncGivesUp(w)
    BY <1>3 DEF StartSkips, SyncGivesUp, queueVars
  <1>4. CASE LaunchChain(w) \/ SyncReturns(w) \/ NothingToAnalyze(w) \/ SynthesisReturns(w)
    <2>1. chord' = chord /\ m.task # "analyze"
      BY <1>0, <1>4 DEF LaunchChain, SyncReturns, NothingToAnalyze, SynthesisReturns,
         LabelInv, Busy, Task
    <2>2. \E next \in Task : next # "analyze" /\ Proceed(w, next)
      BY <1>4 DEF LaunchChain, SyncReturns, NothingToAnalyze, SynthesisReturns, Task
    <2> QED BY <1>2, <2>1, <2>2
  <1>5. CASE LaunchChord(w)
    <2>1. PICK S \in SUBSET Listing :
            /\ chord' = [chord EXCEPT ![m.run][Line(m)] = S]
            /\ queue' = queue \cup {Follow(m, "analyze", l) : l \in S}
      BY <1>5 DEF LaunchChord
    <2>2. chord'[r][0] = S /\ \A q \in Run : q # r => chord'[q] = chord[q]
      BY <1>0, <1>1, <2>1 DEF DailyTypeOK
    <2>3. ASSUME NEW l \in S
          PROVE  LET n == Follow(m, "analyze", l)
                 IN n.run = r /\ n.task = "analyze" /\ n.listing = l
      <3>1. l \in Listing \cup {NoListing} /\ "analyze" \in Task
        BY DEF Task
      <3> QED BY <1>0, <3>1, FollowFacts
    <2>4. \A n \in queue' \ queue : \E l \in S : n = Follow(m, "analyze", l)
      BY <2>1
    <2>5. m.task # "analyze"
      BY <1>5 DEF LaunchChord
    <2>6. \A n \in queue' \ queue :
            /\ n.run = r /\ n.task = "analyze" /\ n.listing \in chord'[r][0]
            /\ n = Follow(m, "analyze", n.listing)
      BY <2>2, <2>3, <2>4
    <2> HIDE DEF m
    <2> QED BY <2>2, <2>5, <2>6 DEF m
  <1>6. CASE PartReturns(w)
    <2>1. /\ m.task = "analyze" /\ chord' = [chord EXCEPT ![m.run][m.line] = @ \ {m.listing}]
          /\ IF Completes(m) THEN Proceed(w, "synthesize") ELSE queue' = queue
      BY <1>6 DEF PartReturns
    <2>2. /\ chord'[r][0] = chord[r][0] \ {m.listing}
          /\ \A q \in Run : q # r => chord'[q] = chord[q]
      BY <1>0, <1>1, <2>1 DEF DailyTypeOK
    <2>3. Completes(m) => chord[r][0] = {m.listing}
      BY <1>0, <1>1 DEF Completes
    <2>4. "synthesize" \in Task
      BY DEF Task
    <2> QED BY <1>2, <2>1, <2>2, <2>3, <2>4
  <1> QED BY <1>3, <1>4, <1>5, <1>6 DEF SendStep

LEMMA SpreadStep ==
    ASSUME DailyTypeOK, LabelInv, FiredInv, LineInv, SpreadInv, TasksNext
    PROVE  SpreadInv'
  <1> USE DEF Busy, RunOf, Runs, Doing
  <1> SUFFICES ASSUME faults' = 0 PROVE SpreadInv'
    BY DEF SpreadInv
  <1>0. /\ faults = 0 /\ ~ExpireHolds
        /\ \A w \in Worker : ~Redeliver(w) /\ ~Crash(w) /\ ~RedisRaises(w)
    BY FaultsGrow
  <1>1. /\ \A w \in Worker : RunOf(w) \in Run
        /\ \A m \in queue : m.run \in Run
    BY DEF DailyTypeOK, Job, Message
  <1>2. CASE Fire
    <2>1. PICK m \in Message :
              /\ m.task = "start" /\ m.run \in Run \ fired
              /\ queue' = queue \cup {m} /\ UNCHANGED <<work, chord>>
      BY <1>2, FireFacts
    <2> QED BY <1>0, <2>1 DEF SpreadInv, FiredInv
  <1>3. CASE Take
    <2>1. UNCHANGED chord
      BY <1>3 DEF Take
    <2>2. PICK w \in Worker, m \in queue :
              /\ ~Busy(w) /\ queue' = queue \ {m}
              /\ \A v \in Worker : v # w => work'[v] = work[v]
              /\ work'[w].at = m.task /\ work'[w].msg = m
      BY <1>3, TakeFacts
    <2> QED BY <1>0, <2>1, <2>2 DEF SpreadInv
  <1>4. ASSUME NEW w \in Worker, MoveStep(w) PROVE SpreadInv'
    <2>1. /\ UNCHANGED <<queue, chord>> /\ Busy(w)
          /\ \A v \in Worker : work'[v].msg = work[v].msg
          /\ \A v \in Worker : v # w => work'[v] = work[v]
      BY <1>4, MoveFacts DEF queueVars, Edge
    <2> QED BY <1>0, <2>1 DEF SpreadInv
  <1>5. ASSUME NEW w \in Worker, WriteStep(w) PROVE SpreadInv'
    <2>1. /\ UNCHANGED <<queue, chord>>
          /\ \A v \in Worker : Busy(v)' => Busy(v) /\ work'[v].msg = work[v].msg
      BY <1>5, WriteFacts, FreeFacts DEF queueVars
    <2> QED BY <1>0, <2>1 DEF SpreadInv
  <1>6. ASSUME NEW w \in Worker, SendStep(w) PROVE SpreadInv'
    <2> PICK r \in Run : r = RunOf(w)
      BY <1>1
    <2>1. /\ Busy(w) /\ queue \subseteq queue'
          /\ \A v \in Worker : Busy(v)' => v # w /\ Busy(v) /\ work'[v] = work[v]
          /\ \A n \in queue' \ queue : n.run = r
      BY <1>6, SendFacts, FreeFacts
    <2>2. \A q \in Run : q # r => chord'[q] = chord[q]
      BY <1>0, <1>6, SendQueue
    <2>3. CASE ~Doing(w, "analyze")
      <3>1. /\ \A n \in queue : n.run # r
            /\ \A v \in Worker : Busy(v)' => RunOf(v)' # r
        BY <1>0, <2>1, <2>3 DEF SpreadInv
      <3>2. \A n \in queue' \ queue :
               /\ n.task = "analyze" => n.listing \in chord'[r][0]
               /\ \A k \in queue' \ queue : k # n =>
                    k.task = "analyze" /\ n.task = "analyze" /\ k.listing # n.listing
        BY <1>0, <1>6, <2>3, SendQueue
      <3>3. \A n \in queue' : n.run = r => n \in queue' \ queue
        BY <3>1
      <3>4. \A m, n \in queue' : m # n /\ m.run = n.run =>
               m.task = "analyze" /\ n.task = "analyze" /\ m.listing # n.listing
        BY <1>0, <2>1, <3>1, <3>2, <3>3 DEF SpreadInv
      <3>5. \A m \in queue' : m.task = "analyze" => m.listing \in chord'[m.run][0]
        BY <1>0, <1>1, <2>1, <2>2, <3>1, <3>2 DEF SpreadInv
      <3>6. \A m \in queue', v \in Worker : Runs(v, m.run)' =>
               m.task = "analyze" /\ Doing(v, "analyze")' /\ work'[v].msg.listing # m.listing
        BY <1>0, <2>1, <3>1 DEF SpreadInv
      <3>7. \A u, v \in Worker : u # v /\ Busy(u)' /\ Runs(v, RunOf(u))' =>
               Doing(u, "analyze")' /\ Doing(v, "analyze")'
                 /\ work'[v].msg.listing # work'[u].msg.listing
        BY <1>0, <2>1 DEF SpreadInv
      <3>8. \A v \in Worker : Busy(v)' /\ Doing(v, "analyze")' =>
               work'[v].msg.listing \in chord'[RunOf(v)'][0]
        BY <1>0, <1>1, <2>1, <2>2, <3>1 DEF SpreadInv
      <3> QED BY <3>4, <3>5, <3>6, <3>7, <3>8 DEF SpreadInv
    <2>4. CASE Doing(w, "analyze")
      <3>1. \/ queue' = queue
            \/ /\ chord[r][0] = {work[w].msg.listing}
               /\ \E n \in Message : queue' = queue \cup {n} /\ n.run = r /\ n.task # "analyze"
        BY <1>0, <1>6, <2>4, SendQueue
      <3>2. /\ \A n \in queue : n.run = r =>
                 n.listing \in chord[r][0] /\ n.listing # work[w].msg.listing
            /\ \A v \in Worker : Busy(v)' /\ RunOf(v)' = r =>
                 /\ work'[v].msg.listing \in chord[r][0]
                 /\ work'[v].msg.listing # work[w].msg.listing
        BY <1>0, <2>1 DEF SpreadInv
      <3>3. chord'[r][0] = chord[r][0] \ {work[w].msg.listing} \/ chord' = chord
        BY <1>0, <1>6, <2>4, SendQueue
      <3>4. /\ \A n \in queue : n.task = "analyze" => n.listing \in chord'[n.run][0]
            /\ \A v \in Worker : Busy(v)' /\ Doing(v, "analyze")' =>
                 work'[v].msg.listing \in chord'[RunOf(v)'][0]
        BY <1>0, <1>1, <2>1, <2>2, <3>2, <3>3 DEF SpreadInv
      <3>5. CASE queue' = queue
        BY <1>0, <2>1, <3>4, <3>5 DEF SpreadInv
      <3>6. CASE queue' # queue
        <4>1. /\ \A n \in queue : n.run # r
              /\ \A v \in Worker : Busy(v)' => RunOf(v)' # r
          BY <3>1, <3>2, <3>6
        <4>2. PICK n \in Message : queue' = queue \cup {n} /\ n.run = r /\ n.task # "analyze"
          BY <3>1, <3>6
        <4> QED BY <1>0, <2>1, <3>4, <4>1, <4>2 DEF SpreadInv
      <3> QED BY <3>5, <3>6
    <2> QED BY <2>3, <2>4
  <1> QED BY <1>0, <1>2, <1>3, <1>4, <1>5, <1>6, StepKinds DEF TasksNext

\* Until its synthesis commits a run has no summary, and from then on nobody
\* analyses for it.
DigestInv ==
    faults = 0 =>
      /\ \A r \in Run : Summed(r) => row[r].summary = analysed[r]
      /\ \A m \in queue : m.task # "notify" => ~Summed(m.run)
      /\ \A w \in Worker : Busy(w) /\ Summed(RunOf(w)) =>
           Doing(w, "notify") \/ (Doing(w, "synthesize") /\ At(w, "returned"))
      /\ \A w \in Worker : At(w, "summarize") => work[w].got = analysed[RunOf(w)]

LEMMA DigestStep ==
    ASSUME DailyTypeOK, LabelInv, FiredInv, AloneInv, SummaryInv, SpreadInv, DigestInv,
           TasksNext
    PROVE  DigestInv'
  <1> USE DEF Busy, RunOf, Doing, At
  <1> SUFFICES ASSUME faults' = 0 PROVE DigestInv'
    BY DEF DigestInv
  <1>0. /\ faults = 0 /\ ~ExpireHolds
        /\ \A w \in Worker : ~Redeliver(w) /\ ~Crash(w) /\ ~RedisRaises(w)
    BY FaultsGrow
  <1>1. /\ \A w \in Worker : RunOf(w) \in Run /\ work[w].got \in Nat /\ work[w].msg.task \in Task
        /\ \A m \in queue : m.run \in Run /\ m.task \in Task
    BY DEF DailyTypeOK, Job, Message
  <1>2. CASE Fire
    BY <1>0, <1>2, FireFacts, RowFacts DEF DigestInv, FiredInv, Summed, dailyDbVars
  <1>3. CASE Take
    <2>1. UNCHANGED <<row, analysed>>
      BY <1>3 DEF Take, dailyDbVars
    <2> QED BY <1>0, <1>1, <1>3, <2>1, TakeFacts DEF DigestInv, Summed, Task
  <1>4. ASSUME NEW w \in Worker, MoveStep(w) PROVE DigestInv'
    <2>1. /\ UNCHANGED <<row, analysed, queue>> /\ Busy(w)
          /\ Edge(work[w].at, work'[w].at) /\ work'[w].msg = work[w].msg
          /\ \A v \in Worker : v # w => work'[v] = work[v]
      BY <1>4, MoveFacts DEF queueVars, dailyDbVars, Edge
    <2>2. Summed(RunOf(w)) => Doing(w, "notify")
      BY <1>0, <2>1 DEF DigestInv, Edge
    <2>3. At(w, "summarize")' => work'[w].got = analysed[RunOf(w)]
      <3>1. SUFFICES ASSUME At(w, "gather") PROVE Gather(w)
        BY <1>4, <2>1, MoveJobs DEF Edge
      <3> QED BY <1>0, <1>4, <3>1 DEF MoveStep, StartLoads, ReserveGranted, FanOutFlushes,
              AnalysisFails, SynthesisFlushes, LoadUser, GetHold, Decrement, Delete, CheckLow,
              SetFlag
    <2> QED BY <1>0, <2>1, <2>2, <2>3 DEF DigestInv, Summed
  <1>5. ASSUME NEW w \in Worker, WriteStep(w) PROVE DigestInv'
    <2> PICK r \in Run : r = RunOf(w)
      BY <1>1
    <2>1. /\ \A q \in Run : q # r => analysed'[q] = analysed[q]
          /\ IF SynthesisCommits(w)
             THEN row'[r].summary = IF work[w].got = work[w].saw.summary THEN row[r].summary
                                    ELSE work[w].got
             ELSE row'[r].summary = row[r].summary
          /\ analysed' = analysed \/ AnalysisCommits(w)
      BY <1>5, WriteEffects
    <2>2. /\ \A q \in Run : q # r => row'[q] = row[q]
          /\ queue' = queue /\ Busy(w)
          /\ \A v \in Worker : v # w => work'[v] = work[v]
          /\ \A v \in Worker : Busy(v)' => Busy(v) /\ work'[v].msg = work[v].msg
          /\ work'[w].at # "summarize"
      BY <1>5, WriteFacts, FreeFacts DEF queueVars
    <2>3. CASE SynthesisCommits(w)
      <3>1. At(w, "summarize") /\ Doing(w, "synthesize")
        BY <1>1, <2>3 DEF SynthesisCommits, LabelInv, Task
      <3>2. ~Summed(r) /\ work[w].saw.summary = -1 /\ work[w].got = analysed[r]
        BY <1>0, <2>2, <3>1 DEF DigestInv, SummaryInv
      <3>3. row'[r].summary = analysed[r] /\ analysed' = analysed
        BY <1>1, <2>1, <2>3, <3>1, <3>2 DEF AnalysisCommits
      <3>4. /\ \A m \in queue : m.run # r
            /\ \A v \in Worker : v # w /\ Busy(v) => RunOf(v) # r
        BY <1>0, <2>2, <3>1 DEF SpreadInv, Runs
      <3>5. work'[w].at = "returned"
        BY <1>5, <3>1, WriteFacts
      <3> QED BY <1>0, <1>1, <2>2, <3>1, <3>3, <3>4, <3>5 DEF DigestInv, Summed
    <2>4. CASE AnalysisCommits(w)
      <3>1. Doing(w, "analyze") /\ At(w, "analyze") /\ ~SynthesisCommits(w)
        BY <1>1, <2>4 DEF AnalysisCommits, SynthesisCommits, LabelInv, Task
      <3>2. ~Summed(r) /\ row'[r].summary = row[r].summary
        BY <1>0, <2>1, <2>2, <3>1 DEF DigestInv
      <3>3. \A v \in Worker : v # w /\ At(v, "summarize") => RunOf(v) # r
        BY <1>0, <1>1, <2>2, <3>1 DEF SpreadInv, Runs, LabelInv, Task
      <3>4. \A q \in Run : Summed(q)' <=> Summed(q)
        BY <2>2, <3>2 DEF Summed
      <3> QED BY <1>0, <1>1, <2>1, <2>2, <3>2, <3>3, <3>4 DEF DigestInv, Summed
    <2>5. CASE ~SynthesisCommits(w) /\ ~AnalysisCommits(w)
      <3>1. analysed' = analysed /\ \A q \in Run : row'[q].summary = row[q].summary
        BY <2>1, <2>2, <2>5
      <3>2. Summed(r) /\ Busy(w)' => Doing(w, "notify")
        <4>1. work[w].at # "returned"
          BY <1>5, WriteFacts
        <4> QED BY <1>0, <2>2, <4>1 DEF DigestInv
      <3> QED BY <1>0, <1>1, <2>2, <3>1, <3>2 DEF DigestInv, Summed
    <2> QED BY <2>3, <2>4, <2>5
  <1>6. ASSUME NEW w \in Worker, SendStep(w) PROVE DigestInv'
    <2>1. /\ Busy(w) /\ UNCHANGED <<row, analysed>>
          /\ \A v \in Worker : Busy(v)' => v # w /\ Busy(v) /\ work'[v] = work[v]
          /\ work'[w].at = "free"
          /\ \A n \in queue' \ queue :
               /\ n.run = RunOf(w) /\ Follows(work[w].msg.task, n.task)
      BY <1>6, SendFacts, FreeFacts DEF dailyDbVars
    <2>2. \A n \in queue' \ queue : n.task # "notify" => ~Summed(n.run)
      BY <1>0, <2>1 DEF DigestInv, Follows
    <2>3. \A n \in queue' : n.task # "notify" => ~Summed(n.run)
      BY <1>0, <2>2 DEF DigestInv
    <2> QED BY <1>0, <2>1, <2>3 DEF DigestInv, Summed
  <1> QED BY <1>0, <1>2, <1>3, <1>4, <1>5, <1>6, StepKinds DEF TasksNext

-----------------------------------------------------------------------------
(* The invariant and the theorems. *)

DailyInv ==
    /\ DailyTypeOK /\ LabelInv /\ FiredInv /\ AloneInv
    /\ TotalInv /\ SummaryInv
    /\ SettledInv /\ CostInv /\ BalanceInv /\ NoticeInv
    /\ LineInv /\ SpreadInv /\ DigestInv

\* Who was told "completed" follows a run that a notify has closed.
ToldInv ==
    /\ stream \in [Watched -> StreamState]
    /\ \A r \in Watched : stream[r] = "completed" => r \in closed

Inv == DailyInv /\ ToldInv

LEMMA DailyStart == DailyInit => DailyInv
  <1> SUFFICES ASSUME DailyInit PROVE DailyInv
    OBVIOUS
  <1> USE DEF DailyInit, CreditInit
  <1>1. DailyTypeOK
    <2>1. CreditTypeOK
      BY DEF CreditTypeOK, Forever
    <2>2. work \in [Worker -> Job] /\ row \in [Run -> Row]
      BY FreeFacts, RowFacts
    <2>3. chord \in [Run -> [0 .. MaxFaults -> SUBSET Listing]]
      <3>1. [k \in 0 .. MaxFaults |-> {}] \in [0 .. MaxFaults -> SUBSET Listing]
        OBVIOUS
      <3> QED BY <3>1
    <2>4. balance \in Nat /\ faults \in 0 .. MaxFaults
      OBVIOUS
    <2> QED BY <2>1, <2>2, <2>3, <2>4 DEF DailyTypeOK
  <1>2. \A w \in Worker : work[w] = Free /\ work[w].at = "free"
    BY FreeFacts
  <1>3. LabelInv /\ FiredInv /\ AloneInv
    BY <1>2 DEF LabelInv, FiredInv, AloneInv, Busy
  <1>4. \A r \in Run : row[r].total = 0 /\ row[r].summary = -1 /\ row[r].status = "none"
    BY RowFacts
  <1>5. TotalInv /\ SummaryInv
    BY <1>2, <1>4 DEF TotalInv, TotalsAreLogged, SummaryInv, Busy, At
  <1>6. SettledInv /\ CostInv /\ NoticeInv
    BY <1>2 DEF SettledInv, CostInv, NoticeInv, OneNoticePerFlag, Earlier, Busy, At, Past
  <1>7. BalanceInv
    <2>1. IsFiniteSet({}) /\ Cardinality({}) = 0
      BY FS_EmptySet
    <2>2. InitialBalance - balance <= Cost * Cardinality(closed)
      BY <2>1
    <2> QED BY <1>2, <2>1, <2>2 DEF BalanceInv, BalanceFallsOnce, At, Past
  <1>8. LineInv /\ SpreadInv /\ DigestInv
    BY <1>2, <1>4 DEF LineInv, SpreadInv, DigestInv, Busy, Runs, At, Summed
  <1> QED BY <1>1, <1>3, <1>5, <1>6, <1>7, <1>8 DEF DailyInv

LEMMA TasksStep == DailyInv /\ TasksNext => DailyInv'
  BY DailyTypes, LabelStep, FiredStep, AloneStep, TotalStep, SummaryStep, SettledStep,
     CostStep, BalanceStep, NoticeStep, LineStep, SpreadStep, DigestStep DEF DailyInv

\* The flag's expiry disturbs nothing but what is said of the flag.
LEMMA FlagStep == DailyInv /\ FlagExpires => DailyInv'
  <1> SUFFICES ASSUME DailyInv, FlagExpires PROVE DailyInv'
    OBVIOUS
  <1>1. /\ UNCHANGED <<creditVars, dailyDbVars, queueVars, work, histVars>>
        /\ flagged' \in BOOLEAN /\ lapsed' \in BOOLEAN
    BY DEF FlagExpires
  <1> USE DEF creditVars, dailyDbVars, queueVars, histVars
  <1>2. DailyTypeOK'
    BY <1>1 DEF DailyInv, DailyTypeOK, CreditTypeOK
  <1>3. LabelInv' /\ FiredInv' /\ AloneInv'
    BY <1>1 DEF DailyInv, LabelInv, FiredInv, AloneInv, Busy, Runs, RunOf, Doing, At
  <1>4. TotalInv' /\ SummaryInv'
    BY <1>1 DEF DailyInv, TotalInv, TotalsAreLogged, SummaryInv, Busy, RunOf, Doing, At,
       Summed
  <1>5. SettledInv' /\ CostInv'
    BY <1>1 DEF DailyInv, SettledInv, CostInv, Busy, RunOf, Doing, At
  <1>6. BalanceInv'
    BY <1>1 DEF DailyInv, BalanceInv, BalanceFallsOnce, Price, RunOf, At
  <1>7. NoticeInv'
    BY NoticeExpires DEF DailyInv
  <1>8. LineInv' /\ SpreadInv' /\ DigestInv'
    BY <1>1 DEF DailyInv, LineInv, SpreadInv, DigestInv, Busy, Runs, RunOf, Doing, At, Summed
  <1> QED BY <1>2, <1>3, <1>4, <1>5, <1>6, <1>7, <1>8 DEF DailyInv

LEMMA DailyStep == DailyInv /\ DailyNext => DailyInv'
  BY TasksStep, FlagStep DEF DailyNext

\* A browser, and the idle system, leave the agent alone.
LEMMA DailyStutter == DailyInv /\ UNCHANGED agentVars => DailyInv'
  <1> SUFFICES ASSUME DailyInv, UNCHANGED agentVars PROVE DailyInv'
    OBVIOUS
  <1> USE DEF agentVars, creditVars, dailyDbVars, queueVars, histVars
  <1>1. DailyTypeOK'
    BY DEF DailyInv, DailyTypeOK, CreditTypeOK
  <1>2. LabelInv' /\ FiredInv' /\ AloneInv'
    BY DEF DailyInv, LabelInv, FiredInv, AloneInv, Busy, Runs, RunOf, Doing, At
  <1>3. TotalInv' /\ SummaryInv'
    BY DEF DailyInv, TotalInv, TotalsAreLogged, SummaryInv, Busy, RunOf, Doing, At, Summed
  <1>4. SettledInv' /\ CostInv' /\ NoticeInv'
    BY DEF DailyInv, SettledInv, CostInv, NoticeInv, OneNoticePerFlag, Earlier, Busy, RunOf,
       Doing, At
  <1>5. BalanceInv'
    BY DEF DailyInv, BalanceInv, BalanceFallsOnce, Price, RunOf, At
  <1>6. LineInv' /\ SpreadInv' /\ DigestInv'
    BY DEF DailyInv, LineInv, SpreadInv, DigestInv, Busy, Runs, RunOf, Doing, At, Summed
  <1> QED BY <1>1, <1>2, <1>3, <1>4, <1>5, <1>6 DEF DailyInv

\* No run is opened again.
LEMMA ClosedStays ==
    ASSUME DailyTypeOK, LabelInv, DailyNext
    PROVE  closed \subseteq closed'
  <1>1. CASE Fire \/ Take \/ ExpireHolds \/ FlagExpires
    BY <1>1 DEF Fire, Take, ExpireHolds, FlagExpires, histVars
  <1>2. ASSUME NEW w \in Worker, Redeliver(w) \/ Crash(w) PROVE closed \subseteq closed'
    BY <1>2, FaultFacts
  <1>3. ASSUME NEW w \in Worker, MoveStep(w) PROVE closed \subseteq closed'
    BY <1>3, MoveFacts
  <1>4. ASSUME NEW w \in Worker, WriteStep(w) PROVE closed \subseteq closed'
    BY <1>4 DEF WriteStep, ReserveDenied, InsertRun, FanOutCommits, AnalysisCommits,
       SynthesisCommits, NotifyCommits, histVars
  <1>5. ASSUME NEW w \in Worker, SendStep(w) PROVE closed \subseteq closed'
    BY <1>5, SendFacts
  <1> QED BY <1>1, <1>2, <1>3, <1>4, <1>5, StepKinds DEF DailyNext, TasksNext

LEMMA InvStep == Inv /\ [Next]_vars => Inv'
  <1> SUFFICES ASSUME Inv, [Next]_vars PROVE Inv'
    OBVIOUS
  <1>1. CASE DailyNext /\ UNCHANGED stream
    <2>1. DailyInv'
      BY <1>1, DailyStep DEF Inv
    <2>2. closed \subseteq closed'
      BY <1>1, ClosedStays DEF Inv, DailyInv
    <2> QED BY <1>1, <2>1, <2>2 DEF Inv, ToldInv
  <1>2. ASSUME NEW r \in Watched, Poll(r) PROVE Inv'
    <2>1. DailyInv' /\ closed' = closed
      BY <1>2, DailyStutter DEF Inv, Poll, TellCompleted, TellFailed, Tell, agentVars, histVars
    <2>2. TellCompleted(r) => r \in closed
      <3>1. r \in Run
        OBVIOUS
      <3> QED BY <3>1 DEF TellCompleted, Inv, DailyInv, SummaryInv
    <2>3. PICK event \in StreamState :
            /\ stream' = [stream EXCEPT ![r] = event]
            /\ event = "completed" => r \in closed
      BY <1>2, <2>2 DEF Poll, TellCompleted, TellFailed, Tell, StreamState
    <2>4. /\ stream' \in [Watched -> StreamState] /\ stream'[r] = event
          /\ \A q \in Watched : q # r => stream'[q] = stream[q]
      BY <2>3 DEF Inv, ToldInv
    <2>5. ToldInv'
      BY <2>1, <2>3, <2>4 DEF Inv, ToldInv
    <2> QED BY <2>1, <2>5 DEF Inv
  <1>3. CASE UNCHANGED vars
    <2>1. DailyInv' /\ UNCHANGED <<closed, stream>>
      BY <1>3, DailyStutter DEF Inv, vars, agentVars, histVars
    <2> QED BY <2>1 DEF Inv, ToldInv
  <1> QED BY <1>1, <1>2, <1>3 DEF Next

\* The inductive invariant of the daily run and of a browser that follows it:
\* what every message, slot, row and total owes to the others (tasks/agent.py).
THEOREM Inductive == Spec => []Inv
  <1>1. Init => Inv
    BY DailyStart DEF Init, Inv, ToldInv, StreamState
  <1> QED BY <1>1, InvStep, PTL DEF Spec

\* Type correctness: every message, every slot's session and every row is of
\* its kind, through crashes and redeliveries (tasks/agent.py).
THEOREM TypeCorrect == Spec => []TypeOK
  <1>1. Inv => TypeOK
    BY DEF Inv, DailyInv, ToldInv, TypeOK
  <1> QED BY <1>1, Inductive, PTL

\* SET NX lets one settlement through for each flag, and a cycle has at most two
\* flags (notification_service.py check_and_notify_low_credits).
THEOREM OneNotice == Spec => []OneNoticePerFlag
  <1>1. Inv => OneNoticePerFlag
    BY DEF Inv, DailyInv, NoticeInv
  <1> QED BY <1>1, Inductive, PTL

\* What the tasks of a run write over one another loses calls from its totals
\* and never adds one (tasks/agent.py).
THEOREM Totals == Spec => []TotalsAreLogged
  <1>1. Inv => TotalsAreLogged
    BY DEF Inv, DailyInv, TotalInv
  <1> QED BY <1>1, Inductive, PTL

\* While nothing is lost or repeated the digest counts every analysis of its
\* run: the chord's callback is queued by the last part (tasks/agent.py).
THEOREM Digest == Spec => []DigestIsComplete
  <1>1. Inv => DigestIsComplete
    BY DEF Inv, DailyInv, DigestInv, DigestIsComplete, Summed
  <1> QED BY <1>1, Inductive, PTL

\* However often its notify is delivered, a run takes its price off the
\* balance once (credit_service.py settle).
THEOREM ChargedOnce == Spec => []BalanceFallsOnce
  <1>1. Inv => BalanceFallsOnce
    BY DEF Inv, DailyInv, BalanceInv
  <1> QED BY <1>1, Inductive, PTL

\* A browser that was told "completed" finds the digest, and the credits
\* settled (api/routes/agent.py).
THEOREM ToldTheEnd == Spec => []ToldIsFinished
  <1>1. Inv => ToldIsFinished
    BY DEF Inv, DailyInv, ToldInv, SummaryInv, SettledInv, ToldIsFinished, Summed
  <1> QED BY <1>1, Inductive, PTL

=============================================================================
