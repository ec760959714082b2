------------------------------ MODULE RunCharge ------------------------------
(***************************************************************************)
(* What the credit system promises for one run, and all that an owner can  *)
(* see of it: credits are held at most once, a run is charged at most      *)
(* once, what is charged was held before, and it is not held any more when *)
(* it is charged (services/credit_service.py: "held at start, settled on   *)
(* completion").  SeoAnalysis implements it with a counter and a key in    *)
(* Redis, a row in Postgres and messages that may come twice.              *)
(***************************************************************************)
CONSTANT Run

VARIABLE phase
    \* "new":     nothing held yet
    \* "held":    the run's credits are held
    \* "gone":    released, settled or expired; the charge may be on its way
    \* "charged": the account has paid the run's cost
    \* "over":    the request was refused or died: nothing held, nothing to come
    \* "faulted": Redis failed in the middle, and the promise is off

Phase == {"new", "held", "gone", "charged", "over", "faulted"}

Init == phase = [r \in Run |-> "new"]

Move(r, from, to) == phase[r] \in from /\ phase' = [phase EXCEPT ![r] = to]

Hold(r) == Move(r, {"new"}, "held")
Free(r) == Move(r, {"held"}, "gone")
Charge(r) == Move(r, {"gone"}, "charged")
Close(r) == Move(r, {"new", "held", "gone"}, "over")
Fault(r) == Move(r, Phase, "faulted")

\* Credits of several runs may expire at the same moment.
Expire ==
    \E S \in SUBSET {r \in Run : phase[r] = "held"} :
      phase' \in {f \in [Run -> Phase] :
                    \A r \in Run : IF r \in S THEN f[r] \in {"gone", "over"}
                                   ELSE f[r] = phase[r]}

Next == Expire \/ \E r \in Run : Hold(r) \/ Free(r) \/ Charge(r) \/ Close(r) \/ Fault(r)

Spec == Init /\ [][Next]_phase
=============================================================================
