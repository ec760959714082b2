----------------------------- MODULE EventStream -----------------------------
(***************************************************************************)
(* A browser that follows a run: GET /agent/runs/{id}/stream               *)
(* (api/routes/agent.py).  The generator polls the committed row until it  *)
(* has sent a last event.  last_state only spares the client an event it   *)
(* has had: the events that end the stream never repeat one, so it is left *)
(* out with the progress events.                                           *)
(***************************************************************************)
EXTENDS DailyAgent

CONSTANT Watched  \* bound: the runs somebody follows

ASSUME StreamAssumption == Watched \subseteq Run

VARIABLE stream   \* stream[r]: what the client that follows r was last told

vars == <<agentVars, stream>>

\* "open" until the last event: the stream is yet to be opened, is polling, or
\* has timed out (MAX_STREAM_SECONDS) and may be opened again.
StreamState == {"open", "completed", "failed"}

TypeOK == DailyTypeOK /\ stream \in [Watched -> StreamState]

Init == DailyInit /\ stream = [r \in Watched |-> "open"]

Tell(r, event) ==
    /\ stream[r] = "open"
    /\ stream' = [stream EXCEPT ![r] = event]
    /\ UNCHANGED agentVars

\* Variant: the end of the analyses is taken for the end of the run.
TellCompletedSoon(r) == row[r].progress = 80 /\ Tell(r, "completed")

TellCompleted(r) == row[r].status = "completed" /\ Tell(r, "completed")

TellFailed(r) == row[r].status \in {"failed", "cancelled"} /\ Tell(r, "failed")

Poll(r) == TellCompleted(r) \/ TellFailed(r)

Next ==
    \/ DailyNext /\ UNCHANGED stream
    \/ \E r \in Watched : Poll(r)
    \/ Idle /\ UNCHANGED vars

Spec == Init /\ [][Next]_vars

Fairness == DailyFairness /\ \A r \in Watched : WF_vars(Poll(r))

FairSpec == Spec /\ Fairness

\* A client that was told "completed" finds the digest and, unless Redis
\* failed, its credits settled: the stream never runs ahead of the workflow,
\* also when a redelivered task has set the run back to "running" since.
ToldIsFinished ==
    \A r \in Watched : stream[r] = "completed" =>
        row[r].summary # -1 /\ r \in closed /\ (r \notin raised => hold[r] = 0)
=============================================================================
