-------------------------- MODULE RateLimiterProofs --------------------------
(***************************************************************************)
(* For any number of processes, any capacity, rate and lag: the token      *)
(* bucket of RateLimiter grants no token that time has not paid for, and   *)
(* as long as "last" never goes back it keeps Etsy's rate.                 *)
(***************************************************************************)
EXTENDS RateLimiter, TLAPS

\* The bucket was written when "last" was not in the future; one that is gone
\* has either never been used or was not written for KeyLife.
WrittenInv ==
    /\ last <= written
    /\ ~exists => \/ granted = 0 /\ last = 0
                  \/ clock - written >= KeyLife

Inv == TypeOK /\ Paid /\ WrittenInv

\* A rate, which is not negative, keeps the order of two times.
LEMMA RateKeepsOrder ==
  ASSUME NEW r \in Nat, NEW a \in Int, NEW b \in Int, a <= b
  PROVE  r * a <= r * b
  <1>1. r * (b - a) >= 0
    BY Z3
  <1>2. r * (b - a) = r * b - r * a
    BY Z3
  <1> QED BY <1>1, <1>2

\* Refilled returns what the bucket can hold.
LEMMA RefilledType ==
  ASSUME TypeOK, NEW t \in Times
  PROVE  Refilled(t) \in 0 .. Capacity
  <1>1. t \in Int
    BY RateAssumption DEF Times, TypeOK
  <1>2. Larger(0, t - last) \in Nat /\ last \in Int
    BY <1>1, RateAssumption DEF Larger, TypeOK
  <1>3. Larger(0, t - last) * Rate \in Nat
    BY <1>2, RateAssumption
  <1>4. Capacity \in Nat /\ tokens \in 0 .. Capacity
    BY RateAssumption DEF TypeOK
  <1> QED BY <1>3, <1>4 DEF Refilled, Smaller

\* What the script finds in the bucket at time t was paid for by the time t, or
\* by the time "last" and the step back from it.
LEMMA RefilledIsPaid ==
  ASSUME Inv, NEW t \in Times
  PROVE  granted * One + Refilled(t)
           <= Capacity + Rate * (t + (back + Larger(0, last - t)))
  <1> DEFINE g == granted * One
             top == t + (back + Larger(0, last - t))
  <1>1. /\ Capacity \in Nat /\ Rate \in Nat /\ KeyLife \in Nat /\ MaxLag \in Nat /\ One \in Nat
        /\ Rate * KeyLife >= Capacity + Rate * MaxLag
    BY RateAssumption
  <1>2. /\ t \in Int /\ last \in Int /\ back \in Nat /\ granted \in Nat
        /\ clock \in Int /\ written \in Int /\ tokens \in 0 .. Capacity
        /\ t >= clock - MaxLag
    BY <1>1 DEF Inv, TypeOK, Times
  <1>3. g \in Nat
    BY <1>1, <1>2
  <1>4. top \in Int /\ top >= last + back /\ top >= t + back
    BY <1>2 DEF Larger
  <1> HIDE DEF g, top
  <1>5. CASE exists
    <2>1. g + tokens <= Capacity + Rate * (last + back)
      BY <1>5 DEF Inv, Paid, g
    <2>2. Refilled(t) <= tokens + Larger(0, t - last) * Rate
      <3>1. Larger(0, t - last) * Rate \in Nat
        BY <1>1, <1>2 DEF Larger
      <3> QED BY <1>1, <1>2, <1>5, <3>1 DEF Refilled, Smaller
    <2>3. CASE t <= last
      <3>1. Larger(0, t - last) = 0
        BY <1>2, <2>3 DEF Larger
      <3>2. Refilled(t) \in Int /\ Refilled(t) <= tokens
        BY <1>1, <1>2, <2>2, <3>1, RefilledType DEF Inv
      <3>3. Rate * (last + back) <= Rate * top
        BY <1>1, <1>2, <1>4, RateKeepsOrder
      <3>4. Rate * (last + back) \in Int /\ Rate * top \in Int
        BY <1>1, <1>2, <1>4
      <3> QED BY <1>1, <1>2, <1>3, <2>1, <3>2, <3>3, <3>4 DEF g, top
    <2>4. CASE t > last
      <3>1. Larger(0, t - last) = t - last
        BY <1>2, <2>4 DEF Larger
      <3>2. Refilled(t) \in Int /\ Refilled(t) <= tokens + (t - last) * Rate
        BY <2>2, <3>1, RefilledType DEF Inv
      <3>3. Rate * (last + back) + (t - last) * Rate = Rate * (t + back)
        BY <1>1, <1>2, Z3
      <3>4. Rate * (t + back) <= Rate * top
        BY <1>1, <1>2, <1>4, RateKeepsOrder
      <3>5. /\ Rate * (last + back) \in Int /\ (t - last) * Rate \in Int
            /\ Rate * (t + back) \in Int /\ Rate * top \in Int
        BY <1>1, <1>2, <1>4
      <3> QED BY <1>1, <1>2, <1>3, <2>1, <3>2, <3>3, <3>4, <3>5 DEF g, top
    <2> QED BY <1>2, <2>3, <2>4
  <1>6. CASE ~exists
    <2>1. Refilled(t) = Capacity
      BY <1>6 DEF Refilled
    <2>2. g <= Rate * top
      <3>1. CASE granted = 0 /\ last = 0
        <4>1. g = 0
          BY <1>1, <3>1 DEF g
        <4>2. top >= 0
          BY <1>2, <1>4, <3>1
        <4>3. Rate * 0 <= Rate * top
          BY <1>1, <1>4, <4>2, RateKeepsOrder
        <4> QED BY <1>1, <4>1, <4>3
      <3>2. CASE clock - written >= KeyLife
        <4>1. g <= Capacity + Rate * (last + back)
          <5>1. granted * One + 0 <= Capacity + Rate * (last + back)
            BY <1>6, Zenon DEF Inv, Paid
          <5> QED BY <1>3, <5>1 DEF g
        <4>2. t - last >= KeyLife - MaxLag
          BY <1>1, <1>2, <3>2 DEF Inv, WrittenInv
        <4>3. Rate * (KeyLife - MaxLag) <= Rate * (t - last)
          BY <1>1, <1>2, <4>2, RateKeepsOrder
        <4>4. Rate * (KeyLife - MaxLag) = Rate * KeyLife - Rate * MaxLag
          BY <1>1, Z3
        <4>5. Rate * (last + back) + Rate * (t - last) = Rate * (t + back)
          BY <1>1, <1>2, Z3
        <4>6. Rate * (t + back) <= Rate * top
          BY <1>1, <1>2, <1>4, RateKeepsOrder
        <4>7. /\ Rate * KeyLife \in Int /\ Rate * MaxLag \in Int
              /\ Rate * (last + back) \in Int /\ Rate * (t - last) \in Int
              /\ Rate * (t + back) \in Int /\ Rate * top \in Int
          BY <1>1, <1>2, <1>4
        <4> QED BY <1>1, <1>3, <4>1, <4>3, <4>4, <4>5, <4>6, <4>7
      <3> QED BY <1>6, <3>1, <3>2 DEF Inv, WrittenInv
    <2>3. Rate * top \in Int
      BY <1>1, <1>4
    <2> QED BY <1>1, <1>3, <2>1, <2>2, <2>3 DEF g, top
  <1> QED BY <1>5, <1>6

\* The script leaves the invariant in place, whether it grants or refuses.
LEMMA StoreKeeps ==
  ASSUME Inv, NEW t \in Times, NEW left \in 0 .. Capacity, NEW given \in {0, 1},
         Store(t, left), left + given * One = Refilled(t),
         granted' = granted + given, clock' = clock,
         pc' \in [Proc -> {"idle", "ask", "denied", "timed_out"}],
         deadline' \in [Proc -> Nat]
  PROVE  Inv'
  <1>1. /\ Capacity \in Nat /\ Rate \in Nat /\ MaxLag \in Nat /\ One \in Nat
        /\ t \in Int /\ last \in Int /\ back \in Nat /\ granted \in Nat /\ clock \in Nat
        /\ t >= -MaxLag /\ t <= clock
    BY RateAssumption DEF Inv, TypeOK, Times
  <1>2. /\ exists' = TRUE /\ tokens' = left /\ written' = clock /\ last' = t
        /\ back' = back + Larger(0, last - t)
    BY DEF Store
  <1>3. back' \in Nat
    BY <1>1, <1>2 DEF Larger
  <1>4. TypeOK'
    BY <1>1, <1>2, <1>3 DEF Inv, TypeOK
  <1>5. WrittenInv'
    BY <1>1, <1>2 DEF WrittenInv
  <1>6. Paid'
    <2>1. granted * One + Refilled(t) <= Capacity + Rate * (t + back')
      BY <1>2, RefilledIsPaid
    <2>2. granted' * One = granted * One + given * One
      BY <1>1, Z3
    <2>3. granted * One \in Int /\ given * One \in Int /\ Rate * (t + back') \in Int
      BY <1>1, <1>3
    <2>4. granted' * One + left <= Capacity + Rate * (t + back')
      BY <1>1, <2>1, <2>2, <2>3
    <2> QED BY <1>2, <2>4 DEF Paid
  <1> QED BY <1>4, <1>5, <1>6 DEF Inv

LEMMA InitInv == Init => Inv
  <1> SUFFICES ASSUME Init PROVE Inv
    OBVIOUS
  <1>1. TypeOK
    <2>1. /\ MaxTime \in Nat /\ MaxLag \in Nat /\ Capacity \in Nat
          /\ 0 \in 0 .. MaxTime /\ Capacity \in 0 .. Capacity /\ 0 \in -MaxLag .. 0
      BY RateAssumption
    <2>2. /\ pc \in [Proc -> {"idle", "ask", "denied", "timed_out"}]
          /\ deadline \in [Proc -> Nat]
      BY DEF Init
    <2>3. clock \in 0 .. MaxTime /\ exists \in BOOLEAN /\ tokens \in 0 .. Capacity
      BY <2>1 DEF Init
    <2>4. last \in -MaxLag .. clock /\ written \in 0 .. clock
      BY <2>1 DEF Init
    <2>5. granted \in Nat /\ back \in Nat
      BY DEF Init
    <2> QED BY <2>2, <2>3, <2>4, <2>5 DEF TypeOK
  <1>2. Paid
    BY RateAssumption DEF Init, Paid
  <1>3. WrittenInv
    BY DEF Init, WrittenInv
  <1> QED BY <1>1, <1>2, <1>3 DEF Inv

LEMMA StepInv == Inv /\ [Next]_vars => Inv'
  <1> SUFFICES ASSUME Inv, [Next]_vars PROVE Inv'
    OBVIOUS
  <1> USE RateAssumption DEF Inv
  <1>1. CASE Tick
    <2>1. TypeOK'
      BY <1>1 DEF Tick, TypeOK
    <2>2. Paid'
      <3>1. granted * One + tokens <= Capacity + Rate * (last + back) \/ ~exists
        BY DEF Paid
      <3>2. granted * One \in Int /\ tokens \in Nat /\ Rate * (last + back) \in Int
        BY DEF TypeOK
      <3>3. granted * One <= Capacity + Rate * (last + back)
        BY <3>2 DEF Paid
      <3>4. /\ granted' = granted /\ tokens' = tokens /\ last' = last /\ back' = back
            /\ exists' => exists
        BY <1>1 DEF Tick
      <3>5. granted * One + 0 = granted * One
        BY <3>2
      <3>6. CASE exists'
        BY <3>1, <3>4, <3>6, Zenon DEF Paid
      <3>7. CASE ~exists'
        BY <3>3, <3>4, <3>5, <3>7, Zenon DEF Paid
      <3> QED BY <3>6, <3>7
    <2>3. WrittenInv'
      BY <1>1 DEF Tick, TypeOK, WrittenInv
    <2> QED BY <2>1, <2>2, <2>3
  <1>2. ASSUME NEW p \in Proc, Begin(p) PROVE Inv'
    <2>1. TypeOK'
      BY <1>2 DEF Begin, Goto, bucket, TypeOK
    <2> QED BY <1>2, <2>1 DEF Begin, bucket, Paid, WrittenInv
  <1>3. ASSUME NEW p \in Proc, NEW t \in Times, Granted(p, t) PROVE Inv'
    <2>1. Refilled(t) \in 0 .. Capacity /\ Refilled(t) >= One
      BY <1>3, RefilledType DEF Granted
    <2>2. Refilled(t) - One \in 0 .. Capacity /\ (Refilled(t) - One) + 1 * One = Refilled(t)
      BY <2>1
    <2>3. /\ Store(t, Refilled(t) - One) /\ granted' = granted + 1 /\ clock' = clock
          /\ pc' \in [Proc -> {"idle", "ask", "denied", "timed_out"}]
          /\ deadline' \in [Proc -> Nat]
      BY <1>3 DEF Granted, Goto, TypeOK
    <2> QED BY <2>2, <2>3, StoreKeeps
  <1>4. ASSUME NEW p \in Proc, NEW t \in Times, Refused(p, t) PROVE Inv'
    <2>1. Refilled(t) \in 0 .. Capacity
      BY RefilledType
    <2>2. Refilled(t) + 0 * One = Refilled(t)
      BY <2>1
    <2>3. /\ Store(t, Refilled(t)) /\ granted' = granted + 0 /\ clock' = clock
          /\ pc' \in [Proc -> {"idle", "ask", "denied", "timed_out"}]
          /\ deadline' \in [Proc -> Nat]
      BY <1>4 DEF Refused, Goto, TypeOK
    <2> QED BY <2>1, <2>2, <2>3, StoreKeeps
  <1>5. ASSUME NEW p \in Proc, GiveUp(p) PROVE Inv'
    <2>1. TypeOK'
      BY <1>5 DEF GiveUp, Goto, bucket, TypeOK
    <2> QED BY <1>5, <2>1 DEF GiveUp, bucket, Paid, WrittenInv
  <1>6. ASSUME NEW p \in Proc, AskAgain(p) PROVE Inv'
    <2>1. TypeOK'
      BY <1>6 DEF AskAgain, Goto, bucket, TypeOK
    <2> QED BY <1>6, <2>1 DEF AskAgain, bucket, Paid, WrittenInv
  <1>7. CASE UNCHANGED vars
    <2>1. TypeOK'
      BY <1>7 DEF vars, bucket, TypeOK
    <2> QED BY <1>7, <2>1 DEF vars, bucket, Paid, WrittenInv
  <1> QED
    BY <1>1, <1>2, <1>3, <1>4, <1>5, <1>6, <1>7 DEF Next, Over, Step, Ask

\* Every variable keeps its type; the bucket never holds more than its capacity
\* or less than nothing.
THEOREM TypeCorrect == Spec => []TypeOK
  <1>1. Inv => TypeOK
    BY DEF Inv
  <1> QED BY <1>1, InitInv, StepInv, PTL DEF Spec

\* What was granted, and what is left, was paid for by time, or by steps of
\* "last" backwards (services/rate_limiter.py).
THEOREM AllPaid == Spec => []Paid
  <1>1. Inv => Paid
    BY DEF Inv
  <1> QED BY <1>1, InitInv, StepInv, PTL DEF Spec

\* "Etsy allows ~10 req/s per application": clocks that agree keep the rate.
THEOREM KeepsTheRate == Spec => []NeverTooFast
  <1>1. Inv => NeverTooFast
    <2> SUFFICES ASSUME Inv, back = 0
                 PROVE  granted * One <= Capacity + Rate * clock
      BY DEF NeverTooFast
    <2>1. /\ Capacity \in Nat /\ Rate \in Nat /\ One \in Nat /\ last \in Int /\ clock \in Int
          /\ last <= clock /\ tokens \in Nat /\ granted \in Nat
      BY RateAssumption DEF Inv, TypeOK
    <2>2. granted * One \in Int /\ Rate * last \in Int /\ Rate * clock \in Int
      BY <2>1
    <2>3. granted * One <= Capacity + Rate * last
      BY <2>1, <2>2 DEF Inv, Paid
    <2>4. Rate * last <= Rate * clock
      BY <2>1, RateKeepsOrder
    <2> QED BY <2>1, <2>2, <2>3, <2>4
  <1> QED BY <1>1, InitInv, StepInv, PTL DEF Spec
=============================================================================
