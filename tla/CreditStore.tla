----------------------------- MODULE CreditStore -----------------------------
(***************************************************************************)
(* The Redis side of app/services/credit_service.py, for ONE account.      *)
(*                                                                         *)
(* Redis keys of the account and the variables that stand for them:        *)
(*   credits:reserved:{user}      reserved, resTTL                         *)
(*   credits:run:{run}            hold[r], holdTTL[r]                      *)
(*   credits:daily:{user}:{date}  daily (the key of the current UTC date)  *)
(*                                                                         *)
(* A counter that does not exist reads as 0 (_get_int), so an expired key  *)
(* is 0 with time-to-live 0.  Each operator below is one Redis command or  *)
(* one Lua script: the unit Redis executes atomically.  What the callers   *)
(* do between two of them is in the modules that use this one.             *)
(*                                                                         *)
(* Time is counted in ticks; TTL is RESERVATION_TTL_SECONDS in ticks.  The *)
(* daily key lives 48 hours and its name changes at midnight UTC, so its   *)
(* own expiry is never observed: a new day is a new key, worth 0.          *)
(***************************************************************************)
EXTENDS Integers

CONSTANTS
    Run,       \* the ids of agent runs
    DailyCap,  \* the tier's DAILY_CREDIT_CAP
    TTL        \* RESERVATION_TTL_SECONDS, in ticks

ASSUME CreditAssumption ==
    /\ DailyCap \in Nat
    /\ TTL \in Nat \ {0}

VARIABLES
    reserved,  \* credits held for all runs in flight
    resTTL,    \* ticks left to the reserved key; 0 absent, Forever no expiry
    hold,      \* hold[r]: credits held for run r
    holdTTL,   \* holdTTL[r]: ticks left to the hold of r; 0 absent
    daily      \* credits counted against today's cap

creditVars == <<reserved, resTTL, hold, holdTTL, daily>>

\* A key created by DECRBY has no expiry: it outlives every key that has one.
Forever == TTL + 1

CreditTypeOK ==
    /\ reserved \in Int
    /\ resTTL \in 0 .. Forever
    /\ hold \in [Run -> Nat]
    /\ holdTTL \in [Run -> 0 .. TTL]
    /\ daily \in Nat

CreditInit ==
    /\ reserved = 0
    /\ resTTL = 0
    /\ hold = [r \in Run |-> 0]
    /\ holdTTL = [r \in Run |-> 0]
    /\ daily = 0

-----------------------------------------------------------------------------
(***************************************************************************)
(* RESERVE_LUA.  The balance is the caller's: a number it read from the    *)
(* database some time ago.                                                 *)
(***************************************************************************)

\* balance - reserved < amount  =>  return 0
BalanceShort(amount, balance) == balance - reserved < amount

\* daily_used + amount > daily_cap  =>  return -1
CapHit(amount) == daily + amount > DailyCap

\* Variant: only the reserve that creates the counter gives it an expiry.
RenewReservedOnce == resTTL' = IF resTTL = 0 THEN TTL ELSE resTTL

\* EXPIRE credits:reserved:{user}, on every reserve.
RenewReserved == resTTL' = TTL

\* Variant: SET without EX.
SetHoldForever(r, amount) ==
    /\ hold' = [hold EXCEPT ![r] = amount]
    /\ UNCHANGED holdTTL

\* SET credits:run:{run} amount EX ttl
SetHold(r, amount) ==
    /\ hold' = [hold EXCEPT ![r] = amount]
    /\ holdTTL' = [holdTTL EXCEPT ![r] = TTL]

Reserve(r, amount, balance) ==
    /\ ~BalanceShort(amount, balance)
    /\ ~CapHit(amount)
    /\ reserved' = reserved + amount
    /\ RenewReserved
    /\ daily' = daily + amount
    /\ SetHold(r, amount)

Denied(amount, balance) ==
    /\ BalanceShort(amount, balance) \/ CapHit(amount)
    /\ UNCHANGED creditVars

(***************************************************************************)
(* The commands settle() and release() are made of.                        *)
(***************************************************************************)

\* Variant: a plain DECRBY.
RefundDailyNoFloor(amount) ==
    /\ daily' = daily - amount
    /\ UNCHANGED <<reserved, resTTL, hold, holdTTL>>

\* DECR_FLOOR_LUA on today's key: min(current, amount), never below zero.
RefundDaily(amount) ==
    /\ daily' = IF daily < amount THEN 0 ELSE daily - amount
    /\ UNCHANGED <<reserved, resTTL, hold, holdTTL>>

\* DECRBY keeps the expiry of a live key and creates a missing one without.
DecrReserved(amount) ==
    /\ reserved' = reserved - amount
    /\ resTTL' = IF resTTL = 0 THEN Forever ELSE resTTL
    /\ UNCHANGED <<hold, holdTTL, daily>>

\* Variant: the key is left to expire.
DeleteHoldNot(r) == UNCHANGED creditVars

\* DEL credits:run:{run}
DeleteHold(r) ==
    /\ hold' = [hold EXCEPT ![r] = 0]
    /\ holdTTL' = [holdTTL EXCEPT ![r] = 0]
    /\ UNCHANGED <<reserved, resTTL, daily>>

-----------------------------------------------------------------------------
(***************************************************************************)
(* Time.                                                                   *)
(***************************************************************************)

SomethingExpires == resTTL \in 1 .. TTL \/ \E r \in Run : holdTTL[r] > 0

PassTime ==
    /\ reserved' = IF resTTL = 1 THEN 0 ELSE reserved
    /\ resTTL' = IF resTTL \in 1 .. TTL THEN resTTL - 1 ELSE resTTL
    /\ hold' = [r \in Run |-> IF holdTTL[r] = 1 THEN 0 ELSE hold[r]]
    /\ holdTTL' = [r \in Run |->
                     IF holdTTL[r] > 0 THEN holdTTL[r] - 1 ELSE 0]
    /\ UNCHANGED daily

\* At midnight UTC _daily_key() names a key nothing has incremented yet.
NewDay ==
    /\ daily' = 0
    /\ UNCHANGED <<reserved, resTTL, hold, holdTTL>>
=============================================================================
