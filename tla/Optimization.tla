---------------------------- MODULE Optimization ----------------------------
(***************************************************************************)
(* The approval gate in front of Etsy, for one listing: its                *)
(* listing_optimizations rows, the routes that create (api/routes/seo.py), *)
(* approve, reject and apply them (api/routes/optimizations.py), the       *)
(* listing row that mirrors Etsy, and the listing on Etsy itself.          *)
(*                                                                         *)
(* A request is a READ COMMITTED transaction: it decides on the committed  *)
(* row it loaded, its flush locks the row, waiting for whoever has it, and *)
(* then overwrites it without looking again.  "applying" is flushed and    *)
(* never committed: no other session ever reads it.                        *)
(*                                                                         *)
(* A value is named after the row that proposes it.                        *)
(***************************************************************************)
EXTENDS Integers, FiniteSets

CONSTANTS
    Request,    \* HTTP requests; each may become any of the four calls
    Field,      \* what a row changes: title, tags, description
    Existing,   \* the fields with a pending row at the start
    Earlier,    \* the request, long finished, that created those rows
    Original,   \* the value every field has at the start
    Nobody,     \* the holder of a row that is not locked
    MaxLive     \* bound: requests in flight at once

ASSUME OptimizationAssumption ==
    /\ Field # {} /\ Existing \subseteq Field
    /\ Earlier \notin Request
    /\ Nobody \notin Request
    /\ MaxLive \in Nat \ {0}

\* The row request p creates for field f; the rows that were there before.
Opt == (Request \cup {Earlier}) \X Field
FieldOf(o) == o[2]
Value == Opt \cup {Original}

VARIABLES
    status,     \* status[o]: committed listing_optimizations.status
    lock,       \* lock[o]: the request whose open transaction updated row o
    listing,    \* listing[f]: the committed mirror, listings.title and so on
    hash,       \* listings.content_hash, as the content it was computed from
    listLock,   \* the request whose open transaction updated the listing row
    etsy,       \* etsy[f]: the listing on Etsy
    approved,   \* history: approved[o], an approval of o was committed
    written,    \* history: written[o], a write of o reached Etsy
    kind,       \* kind[p]: which call request p is
    target,     \* target[p]: the row it is about
    pc,         \* pc[p]: where it is
    pending,    \* pending[p]: the fields p saw a pending row for
    view,       \* view[p]: the mirror as p's session loaded it
    viewHash    \* viewHash[p]: and its content_hash

rowVars == <<status, lock, approved>>
listingVars == <<listing, hash, listLock>>
etsyVars == <<etsy, written>>
readVars == <<pending, view, viewHash>>
vars == <<rowVars, listingVars, etsyVars, kind, target, pc, readVars>>

OptStatus == {"none", "pending", "approved", "rejected", "applied", "failed"}
Decision == {"approve", "reject"}
Kind == {"none", "create", "apply"} \cup Decision
Final == {"ok", "refused", "failed", "unavailable", "dead"}
InEtsyCall == {"applying", "writing", "written", "mirrored", "failing", "timed_out"}
PC == {"idle", "loaded", "validated", "flushed"} \cup InEtsyCall \cup Final

TypeOK ==
    /\ status \in [Opt -> OptStatus]
    /\ lock \in [Opt -> Request \cup {Nobody}]
    /\ listing \in [Field -> Value]
    /\ hash \in [Field -> Value]
    /\ listLock \in Request \cup {Nobody}
    /\ etsy \in [Field -> Value]
    /\ approved \in [Opt -> BOOLEAN]
    /\ written \in [Opt -> BOOLEAN]
    /\ kind \in [Request -> Kind]
    /\ target \in [Request -> Opt]
    /\ pc \in [Request -> PC]
    /\ pending \in [Request -> SUBSET Field]
    /\ view \in [Request -> [Field -> Value]]
    /\ viewHash \in [Request -> [Field -> Value]]

Unchanged == [f \in Field |-> Original]

\* What a request is said to be about before it has read anything.
NoTarget == <<Earlier, CHOOSE f \in Field : TRUE>>

Init ==
    /\ status = [o \in Opt |-> IF o[1] = Earlier /\ FieldOf(o) \in Existing
                               THEN "pending" ELSE "none"]
    /\ lock = [o \in Opt |-> Nobody]
    /\ listing = Unchanged
    /\ hash = Unchanged
    /\ listLock = Nobody
    /\ etsy = Unchanged
    /\ approved = [o \in Opt |-> FALSE]
    /\ written = [o \in Opt |-> FALSE]
    /\ kind = [p \in Request |-> "none"]
    /\ target = [p \in Request |-> NoTarget]
    /\ pc = [p \in Request |-> "idle"]
    /\ pending = [p \in Request |-> {}]
    /\ view = [p \in Request |-> Unchanged]
    /\ viewHash = [p \in Request |-> Unchanged]

Goto(p, label) == pc' = [pc EXCEPT ![p] = label]
Live == {p \in Request : pc[p] \notin Final \cup {"idle"}}

\* A new request may begin.
Arrives(p) == pc[p] = "idle" /\ Cardinality(Live) < MaxLive

\* What p's session loaded is gone when the request ends.
Ended(p) ==
    /\ pending' = [pending EXCEPT ![p] = {}]
    /\ view' = [view EXCEPT ![p] = Unchanged]
    /\ viewHash' = [viewHash EXCEPT ![p] = Unchanged]

\* The end of p's transaction releases its rows.
Unlock(p) ==
    /\ lock' = [o \in Opt |-> IF lock[o] = p THEN Nobody ELSE lock[o]]
    /\ listLock' = IF listLock = p THEN Nobody ELSE listLock

\* An UPDATE of row o by p waits while another transaction has it.
LockRow(p, o) ==
    /\ lock[o] = Nobody
    /\ lock' = [lock EXCEPT ![o] = p]

-----------------------------------------------------------------------------
(***************************************************************************)
(* POST /listings/{id}/seo/apply: turn an analysis into pending rows.      *)
(***************************************************************************)

CreateLoad(p) ==
    /\ Arrives(p)
    /\ kind' = [kind EXCEPT ![p] = "create"]
    /\ pending' = [pending EXCEPT ![p] =
                     {FieldOf(o) : o \in {q \in Opt : status[q] = "pending"}}]
    /\ Goto(p, "loaded")
    /\ UNCHANGED <<rowVars, listingVars, etsyVars, target, view, viewHash>>

\* Only fields that were asked for, that the analysis has a value for, and
\* that p saw no pending row of.
CreateCommit(p) ==
    /\ kind[p] = "create" /\ pc[p] = "loaded"
    /\ \E F \in SUBSET (Field \ pending[p]) :
         status' = [o \in Opt |-> IF o \in {p} \X F THEN "pending" ELSE status[o]]
    /\ Goto(p, "ok")
    /\ Ended(p)
    /\ UNCHANGED <<lock, approved, listingVars, etsyVars, kind, target>>

-----------------------------------------------------------------------------
(***************************************************************************)
(* POST /optimizations/{id}/approve and .../reject.                        *)
(***************************************************************************)

\* 409 unless the row is pending when it is loaded.
DecisionLoad(p, k, o) ==
    /\ Arrives(p) /\ status[o] # "none"
    /\ kind' = [kind EXCEPT ![p] = k]
    /\ target' = [target EXCEPT ![p] = o]
    /\ Goto(p, IF status[o] = "pending" THEN "loaded" ELSE "refused")
    /\ UNCHANGED <<rowVars, listingVars, etsyVars, readVars>>

DecisionFlush(p) ==
    /\ kind[p] \in Decision /\ pc[p] = "loaded"
    /\ LockRow(p, target[p])
    /\ Goto(p, "flushed")
    /\ UNCHANGED <<status, approved, listingVars, etsyVars, kind, target, readVars>>

DecisionCommit(p) ==
    /\ kind[p] \in Decision /\ pc[p] = "flushed"
    /\ status' = [status EXCEPT ![target[p]] =
                    IF kind[p] = "approve" THEN "approved" ELSE "rejected"]
    /\ approved' = [approved EXCEPT ![target[p]] = @ \/ kind[p] = "approve"]
    /\ Unlock(p)
    /\ Goto(p, "ok")
    /\ UNCHANGED <<listing, hash, etsyVars, kind, target, readVars>>

-----------------------------------------------------------------------------
(***************************************************************************)
(* POST /optimizations/{id}/apply, "the only endpoint that writes to Etsy".*)
(***************************************************************************)

\* Variant: anything not yet rejected or done may be applied.
ApplyLoadUngated(p, o) ==
    /\ Arrives(p) /\ status[o] # "none"
    /\ kind' = [kind EXCEPT ![p] = "apply"]
    /\ target' = [target EXCEPT ![p] = o]
    /\ Goto(p, IF status[o] \in {"pending", "approved"} THEN "loaded"
               ELSE "refused")
    /\ UNCHANGED <<rowVars, listingVars, etsyVars, readVars>>

\* 409 unless the row is approved when it is loaded.
ApplyLoad(p, o) ==
    /\ Arrives(p) /\ status[o] # "none"
    /\ kind' = [kind EXCEPT ![p] = "apply"]
    /\ target' = [target EXCEPT ![p] = o]
    /\ Goto(p, IF status[o] = "approved" THEN "loaded" ELSE "refused")
    /\ UNCHANGED <<rowVars, listingVars, etsyVars, readVars>>

\* The listing and the store are loaded, the value validated; 422 if it is
\* one Etsy would not take.
ApplyValidate(p) ==
    /\ kind[p] = "apply" /\ pc[p] = "loaded"
    /\ \/ /\ view' = [view EXCEPT ![p] = listing]
          /\ viewHash' = [viewHash EXCEPT ![p] = hash]
          /\ Goto(p, "validated")
       \/ /\ Goto(p, "refused")
          /\ UNCHANGED <<view, viewHash>>
    /\ UNCHANGED <<rowVars, listingVars, etsyVars, kind, target, pending>>

\* Variant: "applying" is set and not flushed.
ApplyFlushNot(p) ==
    /\ kind[p] = "apply" /\ pc[p] = "validated"
    /\ Goto(p, "applying")
    /\ UNCHANGED <<rowVars, listingVars, etsyVars, kind, target, readVars>>

\* Variant: "applying" is committed before the call.
ApplyFlushCommits(p) ==
    /\ kind[p] = "apply" /\ pc[p] = "validated"
    /\ lock[target[p]] = Nobody
    /\ status' = [status EXCEPT ![target[p]] = "applying"]
    /\ Goto(p, "applying")
    /\ UNCHANGED <<lock, approved, listingVars, etsyVars, kind, target, readVars>>

\* status = "applying", flushed: other requests for the row wait from here on.
ApplyFlush(p) ==
    /\ kind[p] = "apply" /\ pc[p] = "validated"
    /\ LockRow(p, target[p])
    /\ Goto(p, "applying")
    /\ UNCHANGED <<status, approved, listingVars, etsyVars, kind, target, readVars>>

\* get_valid_access_token: a token, no usable tokens, or a timeout.
GetToken(p) ==
    /\ pc[p] = "applying"
    /\ \E label \in {"writing", "failing", "timed_out"} : Goto(p, label)
    /\ UNCHANGED <<rowVars, listingVars, etsyVars, kind, target, readVars>>

\* Variant: the answer is not looked at.
PatchUnchecked(p) ==
    /\ pc[p] = "writing"
    /\ Goto(p, "written")
    /\ \/ /\ etsy' = [etsy EXCEPT ![FieldOf(target[p])] = target[p]]
          /\ written' = [written EXCEPT ![target[p]] = TRUE]
       \/ UNCHANGED etsyVars
    /\ UNCHANGED <<rowVars, listingVars, kind, target, readVars>>

\* update_listing: Etsy takes the value and says so, or takes it and the
\* answer is late, or does not take it (late, or with an error).
Patch(p) ==
    /\ pc[p] = "writing"
    /\ \/ /\ etsy' = [etsy EXCEPT ![FieldOf(target[p])] = target[p]]
          /\ written' = [written EXCEPT ![target[p]] = TRUE]
          /\ \E label \in {"written", "timed_out"} : Goto(p, label)
       \/ /\ \E label \in {"failing", "timed_out"} : Goto(p, label)
          /\ UNCHANGED etsyVars
    /\ UNCHANGED <<rowVars, listingVars, kind, target, readVars>>

\* The mirror p's session computes, and the hash over it.
Mirror(p) == [view[p] EXCEPT ![FieldOf(target[p])] = target[p]]

\* Variant: the result is recorded by a second session, as a helper that
\* opens its own would.
MirrorFlushElsewhere(p) ==
    /\ pc[p] = "written"
    /\ lock[target[p]] = Nobody
    /\ Goto(p, "mirrored")
    /\ UNCHANGED <<rowVars, listingVars, etsyVars, kind, target, readVars>>

\* The second flush updates the listing row if the session changed a column.
MirrorFlush(p) ==
    /\ pc[p] = "written"
    /\ IF Mirror(p) = view[p] /\ Mirror(p) = viewHash[p]
       THEN UNCHANGED listLock
       ELSE listLock = Nobody /\ listLock' = p
    /\ Goto(p, "mirrored")
    /\ UNCHANGED <<rowVars, listing, hash, etsyVars, kind, target, readVars>>

\* Variant: the mirror is left to the next sync.
ApplyCommitNoMirror(p) ==
    /\ pc[p] = "mirrored"
    /\ status' = [status EXCEPT ![target[p]] = "applied"]
    /\ Unlock(p)
    /\ Goto(p, "ok")
    /\ Ended(p)
    /\ UNCHANGED <<approved, listing, hash, etsyVars, kind, target>>

\* A column is written only if its value differs from the one loaded.
ApplyCommit(p) ==
    /\ pc[p] = "mirrored"
    /\ status' = [status EXCEPT ![target[p]] = "applied"]
    /\ listing' = [f \in Field |-> IF Mirror(p)[f] = view[p][f]
                                   THEN listing[f] ELSE Mirror(p)[f]]
    /\ hash' = IF Mirror(p) = viewHash[p] THEN hash ELSE Mirror(p)
    /\ Unlock(p)
    /\ Goto(p, "ok")
    /\ Ended(p)
    /\ UNCHANGED <<approved, etsyVars, kind, target>>

\* _mark_failed commits; the answer is 409, 424, or 503 "retry later".
MarkFailed(p) ==
    /\ pc[p] \in {"failing", "timed_out"}
    /\ status' = [status EXCEPT ![target[p]] = "failed"]
    /\ Unlock(p)
    /\ Goto(p, IF pc[p] = "timed_out" THEN "unavailable" ELSE "failed")
    /\ Ended(p)
    /\ UNCHANGED <<approved, listing, hash, etsyVars, kind, target>>

(***************************************************************************)
(* The server dies, or a call raises what no handler catches (no rate      *)
(* limit token, a broken connection, an answer that is no JSON): rollback. *)
(***************************************************************************)
Dies(p) ==
    /\ p \in Live
    /\ Unlock(p)
    /\ Goto(p, "dead")
    /\ Ended(p)
    /\ UNCHANGED <<status, approved, listing, hash, etsyVars, kind, target>>

-----------------------------------------------------------------------------
Begin(p) ==
    \/ CreateLoad(p)
    \/ \E o \in Opt : ApplyLoad(p, o) \/ \E k \in Decision : DecisionLoad(p, k, o)

Step(p) ==
    \/ CreateCommit(p)
    \/ DecisionFlush(p) \/ DecisionCommit(p)
    \/ ApplyValidate(p) \/ ApplyFlush(p) \/ GetToken(p) \/ Patch(p)
    \/ MirrorFlush(p) \/ ApplyCommit(p) \/ MarkFailed(p)

AllAnswered == (\A p \in Request : pc[p] \in Final) /\ UNCHANGED vars

Next ==
    \/ \E p \in Request : Begin(p) \/ Step(p) \/ Dies(p)
    \/ AllAnswered

Spec == Init /\ [][Next]_vars

\* The server's threads go on with the requests they have begun, and every
\* call to Etsy has a timeout.  No user is obliged to send a request.
FairSpec == Spec /\ \A p \in Request : WF_vars(Step(p))

-----------------------------------------------------------------------------
(***************************************************************************)
(* Properties.                                                             *)
(***************************************************************************)

\* The human gate: nothing reaches Etsy that no user approved, whatever
\* requests raced for the row (apply_optimization's status check).
WrittenWasApproved == \A o \in Opt : written[o] => approved[o]

\* Two applies of one row are never in the middle of the Etsy call together:
\* the flush of "applying" locks the row before the call.
OneApplyPerRow ==
    \A p, q \in Request :
        pc[p] \in InEtsyCall /\ pc[q] \in InEtsyCall /\ target[p] = target[q]
        => p = q

\* What the user interface shows as done was done: an applied row was written
\* to Etsy, and the mirror holds no proposal Etsy never got.
ShownWasWritten ==
    /\ \A o \in Opt : status[o] = "applied" => written[o]
    /\ \A f \in Field : listing[f] # Original => written[listing[f]]

\* Every request is answered: the row locks of requests waiting for each
\* other (row, then listing) never form a cycle.
EveryRequestAnswered == \A p \in Request : p \in Live ~> pc[p] \in Final

\* One request at a time, the mirror is what Etsy has after every answer that
\* was not "timed out" and every request that did not die.
MirrorAfterAnswer ==
    Live = {} /\ (\A p \in Request : pc[p] \notin {"unavailable", "dead"})
    => listing = etsy

-----------------------------------------------------------------------------
(***************************************************************************)
(* The invariant behind the first three: the row is locked during the      *)
(* call, and what its request loaded was committed by then.                *)
(***************************************************************************)

CallHoldsRow ==
    \A p \in Request : pc[p] \in InEtsyCall => lock[target[p]] = p

\* A row is, or was, approved when it has a status that says so, and when an
\* apply has got past its check.
ApprovedByThen ==
    /\ \A o \in Opt : status[o] \in {"approved", "applied", "failed"} => approved[o]
    /\ \A p \in Request :
         pc[p] \in {"validated"} \cup InEtsyCall \/ (pc[p] = "loaded" /\ kind[p] = "apply")
         => approved[target[p]]

\* A call that Etsy confirmed has written; a loaded mirror shows only what was.
ConfirmedIsWritten ==
    \A p \in Request :
        /\ pc[p] \in {"written", "mirrored"} => written[target[p]]
        /\ \A f \in Field : view[p][f] # Original => written[view[p][f]]

GateInv ==
    /\ CallHoldsRow
    /\ ApprovedByThen
    /\ ConfirmedIsWritten
    /\ WrittenWasApproved
    /\ ShownWasWritten
=============================================================================
