----------------------------- MODULE RateLimiter -----------------------------
(***************************************************************************)
(* The token bucket that every call to Etsy passes                         *)
(* (services/rate_limiter.py; etsy_client._throttle): one hash in Redis,   *)
(* one Lua script, and processes on several hosts that call it, each with  *)
(* the time of its own clock.  That time was read before the script runs   *)
(* and may be older than the time the bucket was last written with; the    *)
(* script writes it all the same.                                          *)
(*                                                                         *)
(* Time is counted in ticks of the fastest clock, the bucket in parts of a *)
(* token, so that a tick may bring less than one.                          *)
(***************************************************************************)
EXTENDS Integers

CONSTANTS
    Proc,      \* threads and worker slots
    Capacity,  \* parts the bucket holds
    Rate,      \* parts a tick brings
    One,       \* parts of one token
    Timeout,   \* acquire's timeout
    KeyLife,   \* the 60 seconds of EXPIRE
    MaxLag,    \* how old the time that p sends may be
    MaxTime,   \* bound: the last tick
    MaxBack    \* bound: ticks by which "last" goes back, in all

\* A bucket that Redis has forgotten would be full again by then.
ASSUME RateAssumption ==
    /\ {Capacity, Rate, One, Timeout, KeyLife, MaxLag, MaxTime, MaxBack} \subseteq Nat
    /\ One > 0
    /\ Rate * KeyLife >= Capacity + Rate * MaxLag

VARIABLES
    clock,     \* the time
    exists,    \* the key exists in Redis
    tokens,    \* its field "tokens"
    last,      \* its field "last"
    written,   \* when the key was written
    granted,   \* history: tokens granted
    back,      \* history: ticks by which "last" went back
    pc,        \* pc[p]: where p is
    deadline   \* deadline[p]: when p's acquire gives up

bucket == <<exists, tokens, last, written, granted, back>>
vars == <<clock, bucket, pc, deadline>>

TypeOK ==
    /\ clock \in 0 .. MaxTime /\ exists \in BOOLEAN
    /\ tokens \in 0 .. Capacity
    /\ last \in -MaxLag .. clock /\ written \in 0 .. clock
    /\ granted \in Nat /\ back \in Nat
    /\ pc \in [Proc -> {"idle", "ask", "denied", "timed_out"}]
    /\ deadline \in [Proc -> Nat]

Init ==
    /\ clock = 0 /\ exists = FALSE
    /\ tokens = Capacity /\ last = 0 /\ written = 0
    /\ granted = 0 /\ back = 0
    /\ pc = [p \in Proc |-> "idle"]
    /\ deadline = [p \in Proc |-> 0]

Goto(p, label) == pc' = [pc EXCEPT ![p] = label]

-----------------------------------------------------------------------------
Larger(a, b) == IF a > b THEN a ELSE b
Smaller(a, b) == IF a < b THEN a ELSE b

\* Variant: nothing keeps the bucket from overflowing.
RefilledWithoutEnd(t) ==
    IF exists THEN tokens + Larger(0, t - last) * Rate ELSE Capacity

\* The tokens at time t, as the script works them out: max(0, now - last).
Refilled(t) ==
    IF exists THEN Smaller(Capacity, tokens + Larger(0, t - last) * Rate) ELSE Capacity

\* Variant: only a grant moves "last".
StoreGrantOnly(t, left) ==
    /\ exists' = TRUE /\ tokens' = left /\ written' = clock
    /\ last' = IF left < Refilled(t) THEN t ELSE last
    /\ back' = back + Larger(0, last - last') /\ back' <= MaxBack

\* HSET tokens and last, EXPIRE.
Store(t, left) ==
    /\ exists' = TRUE /\ tokens' = left /\ written' = clock
    /\ last' = t
    /\ back' = back + Larger(0, last - t) /\ back' <= MaxBack

Times == (clock - MaxLag) .. clock

Begin(p) ==
    /\ pc[p] = "idle" /\ clock + Timeout < MaxTime
    /\ deadline' = [deadline EXCEPT ![p] = clock + Timeout]
    /\ Goto(p, "ask")
    /\ UNCHANGED <<clock, bucket>>

\* The script returns 1, and the call to Etsy is made.
Granted(p, t) ==
    /\ pc[p] = "ask" /\ Refilled(t) >= One
    /\ Store(t, Refilled(t) - One)
    /\ granted' = granted + 1
    /\ Goto(p, "idle") /\ deadline' = [deadline EXCEPT ![p] = 0]
    /\ UNCHANGED clock

\* Variant: the deadline is worked out inside the loop.
RefusedExtends(p, t) ==
    /\ pc[p] = "ask" /\ Refilled(t) < One
    /\ Store(t, Refilled(t))
    /\ Goto(p, "denied") /\ deadline' = [deadline EXCEPT ![p] = clock + Timeout]
    /\ UNCHANGED <<clock, granted>>

\* The script returns 0; it has stored what it worked out.
Refused(p, t) ==
    /\ pc[p] = "ask" /\ Refilled(t) < One
    /\ Store(t, Refilled(t))
    /\ Goto(p, "denied")
    /\ UNCHANGED <<clock, granted, deadline>>

\* RateLimitTimeout
GiveUp(p) ==
    /\ pc[p] = "denied" /\ clock >= deadline[p]
    /\ Goto(p, "timed_out") /\ deadline' = [deadline EXCEPT ![p] = 0]
    /\ UNCHANGED <<clock, bucket>>

\* time.sleep(0.1), and once more.
AskAgain(p) ==
    /\ pc[p] = "denied" /\ clock < deadline[p]
    /\ Goto(p, "ask")
    /\ UNCHANGED <<clock, bucket, deadline>>

\* Time passes; Redis deletes a key that was not written for KeyLife.
Tick ==
    /\ clock < MaxTime /\ clock' = clock + 1
    /\ exists' = (exists /\ clock' - written < KeyLife)
    /\ UNCHANGED <<tokens, last, written, granted, back, pc, deadline>>

Ask(p) == \E t \in Times : Granted(p, t) \/ Refused(p, t)
Step(p) == Ask(p) \/ GiveUp(p) \/ AskAgain(p)

Over == clock = MaxTime /\ UNCHANGED vars

Next == Tick \/ Over \/ \E p \in Proc : Begin(p) \/ Step(p)

Spec == Init /\ [][Next]_vars

\* Time passes, and a thread that asks goes on.
FairSpec == Spec /\ WF_vars(Tick) /\ \A p \in Proc : WF_vars(Step(p))

-----------------------------------------------------------------------------
(* Properties. *)

\* What the bucket holds and what it has granted was paid for by the time that
\* has passed, and by nothing else but steps of "last" backwards: each of them
\* lets the same ticks be counted again.
Paid == granted * One + (IF exists THEN tokens ELSE 0) <= Capacity + Rate * (last + back)

\* "Etsy allows ~10 req/s per application": as long as no process sends a time
\* older than the last one, the processes together never exceed the rate.
NeverTooFast == back = 0 => granted * One <= Capacity + Rate * clock

\* An acquire ends, with a token or with RateLimitTimeout, however many
\* processes compete for the bucket.
AcquireEnds == \A p \in Proc : pc[p] = "ask" ~> pc[p] \in {"idle", "timed_out"}

\* The same without the condition: false, since clocks differ.
NeverTooFastAtAll == granted * One <= Capacity + Rate * clock
=============================================================================
