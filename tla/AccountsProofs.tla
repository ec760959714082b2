---------------------------- MODULE AccountsProofs ----------------------------
(***************************************************************************)
(* For any number of requests, addresses and lifetimes: no two accounts    *)
(* have one address, and a session that a logout has ended stays ended.    *)
(***************************************************************************)
EXTENDS Accounts, TLAPS

USE AccountsAssumption

\* r has inserted the row of its address and not committed it.
Holding(r) == op[r] = "register" /\ pc[r] \in {"flushed", "answered"}

\* Who is where: only a registration hashes, an account is a registration that
\* has committed, and who logs in or is authenticated has an account.
PlaceInv ==
    \A r \in Request :
      /\ pc[r] = "hashing" => op[r] = "register"
      /\ r \in accounts => op[r] = "register" /\ pc[r] = "done"
      /\ op[r] \in {"login", "onboard", "logout"} /\ pc[r] \in {"verifying", "flushed", "answered", "update"}
           => tok[r].user \in accounts
      /\ op[r] \in {"none", "refresh"} => pc[r] \notin {"flushed", "answered", "verifying", "update"}
      /\ pc[r] = "verifying" => op[r] = "login"
      /\ pc[r] = "update" => op[r] = "logout"

\* The unique key of users.email, on rows that are inserted and rows that are
\* committed.
KeyInv ==
    /\ \A r, q \in Request : Holding(r) /\ Holding(q) /\ email[r] = email[q] => r = q
    /\ \A r \in Request, a \in accounts : Holding(r) => email[a] # email[r]
    /\ OneAccountPerEmail

\* A session belongs to an account that is committed, and so does what a logout
\* has updated; the first session of an account is its registration's.
SessionInv ==
    /\ \A t \in Token : session[t] # "none" => t.user \in accounts
    /\ \A r \in Request, t \in Token : t \in cut[r] => t.user \in accounts
    /\ \A r \in Request : Holding(r) => tok[r].user = r

\* What a logout has ended is revoked, and nothing makes it live again.
RevokedInv ==
    \A r \in Request, t \in Token :
      op[r] = "logout" /\ pc[r] = "done" /\ t \in cut[r] => session[t] = "revoked"

Inv == TypeOK /\ PlaceInv /\ KeyInv /\ SessionInv /\ RevokedInv

-----------------------------------------------------------------------------
(***************************************************************************)
(* Types.                                                                  *)
(***************************************************************************)

LEMMA TokensSent == ASSUME TypeOK PROVE Handed \subseteq Token /\ Access \subseteq Token
  BY DEF TypeOK, Handed, Access

\* A token made now.
LEMMA NewToken ==
  ASSUME TypeOK, NEW a \in Request
  PROVE  [user |-> a, at |-> now] \in Token
  BY DEF TypeOK, Token

LEMMA ArrivalTypes ==
  ASSUME TypeOK, NEW r \in Request, Arrival(r)
  PROVE  TypeOK'
  <1> USE DEF TypeOK, Arrives, Goto, rows, Label, Final, Told, Op
  <1>1. CASE CheckEmail(r)
    BY <1>1 DEF CheckEmail
  <1>2. ASSUME NEW a \in accounts, FindUser(r, a) PROVE TypeOK'
    <2>1. [tok[r] EXCEPT !.user = a] \in Token
      BY DEF Token
    <2> QED BY <1>2, <2>1 DEF FindUser
  <1>3. ASSUME NEW t \in Handed, RefreshGranted(r, t) PROVE TypeOK'
    <2>1. [user |-> t.user, at |-> now] \in Token
      BY TokensSent, NewToken DEF Token
    <2> QED BY <1>3, <2>1 DEF RefreshGranted
  <1>4. ASSUME NEW t \in Handed, RefreshRefused(r, t) PROVE TypeOK'
    BY <1>4 DEF RefreshRefused
  <1>5. ASSUME NEW t \in Access, NEW what \in {"logout", "onboard"}, Authenticated(r, t, what)
        PROVE  TypeOK'
    BY <1>5, TokensSent DEF Authenticated
  <1>6. ASSUME NEW t \in Access, NEW what \in {"logout", "onboard"}, Unauthenticated(r, t, what)
        PROVE  TypeOK'
    BY <1>6 DEF Unauthenticated
  <1> QED BY <1>1, <1>2, <1>3, <1>4, <1>5, <1>6 DEF Arrival

LEMMA StepTypes ==
  ASSUME TypeOK, PlaceInv, NEW r \in Request, Step(r) \/ Dies(r)
  PROVE  TypeOK'
  <1> USE DEF TypeOK, Goto, rows, Label, Final, Told, Op
  <1>1. CASE FlushUser(r)
    BY <1>1, NewToken DEF FlushUser
  <1>2. CASE Verified(r)
    <2>1. [tok[r] EXCEPT !.at = now] \in Token
      BY DEF Token
    <2> QED BY <1>2, <2>1 DEF Verified
  <1>3. CASE UpdateSessions(r)
    BY <1>3 DEF UpdateSessions, Live
  <1>4. CASE Answer(r)
    BY <1>4 DEF Answer
  <1>5. CASE CommitRegister(r)
    BY <1>5 DEF CommitRegister
  <1>6. CASE CommitLogin(r)
    BY <1>6 DEF CommitLogin
  <1>7. CASE CommitLogout(r)
    BY <1>7 DEF CommitLogout
  <1>8. CASE CommitOnboarding(r)
    <2>1. tok[r].user \in accounts
      BY <1>8 DEF CommitOnboarding, PlaceInv
    <2> QED BY <1>8, <2>1 DEF CommitOnboarding
  <1>9. CASE Dies(r)
    BY <1>9 DEF Dies
  <1> QED BY <1>1, <1>2, <1>3, <1>4, <1>5, <1>6, <1>7, <1>8, <1>9 DEF Step

-----------------------------------------------------------------------------
(***************************************************************************)
(* Arrivals: a request that has just come holds nothing.                   *)
(***************************************************************************)

LEMMA ArrivalKeeps ==
  ASSUME Inv, NEW r \in Request, Arrival(r)
  PROVE  PlaceInv' /\ KeyInv' /\ SessionInv' /\ RevokedInv'
  <1> USE DEF Inv, TypeOK
  <1>1. /\ pc[r] = "idle" /\ UNCHANGED <<rows, email, cut>>
        /\ \A q \in Request : q # r => pc'[q] = pc[q] /\ op'[q] = op[q] /\ tok'[q] = tok[q]
    BY DEF Arrival, CheckEmail, FindUser, RefreshGranted, RefreshRefused, Authenticated,
       Unauthenticated, Arrives, Goto
  <1>2. /\ pc'[r] \in {"hashing", "refused", "verifying", "done", "update", "flushed"}
        /\ pc'[r] = "hashing" => op'[r] = "register"
        /\ op'[r] = "register" => pc'[r] \in {"hashing", "refused"}
        /\ pc'[r] = "done" => op'[r] = "refresh"
        /\ pc'[r] = "verifying" => op'[r] = "login"
        /\ pc'[r] = "update" => op'[r] = "logout"
        /\ pc'[r] = "flushed" => op'[r] = "onboard"
        /\ pc'[r] \in {"verifying", "update", "flushed"} => tok'[r].user \in accounts
    <2>1. CASE CheckEmail(r)
      BY <2>1 DEF CheckEmail, Arrives, Goto
    <2>2. ASSUME NEW a \in accounts, FindUser(r, a)
          PROVE  op'[r] = "login" /\ pc'[r] = "verifying" /\ tok'[r].user = a
      BY <2>2 DEF FindUser, Arrives, Goto, Token
    <2>3. ASSUME NEW t \in Handed, RefreshGranted(r, t) \/ RefreshRefused(r, t)
          PROVE  op'[r] = "refresh" /\ pc'[r] \in {"done", "refused"}
      BY <2>3 DEF RefreshGranted, RefreshRefused, Arrives, Goto
    <2>4. ASSUME NEW t \in Access, NEW what \in {"logout", "onboard"}, Authenticated(r, t, what)
          PROVE  /\ op'[r] = what /\ tok'[r] = t /\ t.user \in accounts
                 /\ pc'[r] = IF what = "logout" THEN "update" ELSE "flushed"
      BY <2>4 DEF Authenticated, Arrives, Goto
    <2>5. ASSUME NEW t \in Access, NEW what \in {"logout", "onboard"}, Unauthenticated(r, t, what)
          PROVE  op'[r] = what /\ pc'[r] = "refused"
      BY <2>5 DEF Unauthenticated, Arrives, Goto
    <2> QED BY <2>1, <2>2, <2>3, <2>4, <2>5 DEF Arrival
  <1>3. accounts' = accounts /\ session' = session /\ email' = email /\ cut' = cut
    BY <1>1 DEF rows
  <1>4. PlaceInv'
    BY <1>1, <1>2, <1>3 DEF PlaceInv
  <1>5. \A q \in Request : Holding(q)' => q # r /\ Holding(q) /\ tok'[q] = tok[q]
    BY <1>1, <1>2 DEF Holding
  <1>6. KeyInv'
    BY <1>3, <1>5 DEF KeyInv, OneAccountPerEmail
  <1>7. SessionInv'
    BY <1>3, <1>5 DEF SessionInv
  <1>8. RevokedInv'
    BY <1>1, <1>2, <1>3 DEF RevokedInv
  <1> QED BY <1>4, <1>6, <1>7, <1>8

-----------------------------------------------------------------------------
(***************************************************************************)
(* Steps of a request that has come.                                       *)
(***************************************************************************)

\* A step moves its own request and no other.
LEMMA OthersUnmoved ==
  ASSUME TypeOK, NEW r \in Request, Step(r) \/ Dies(r)
  PROVE  /\ op' = op /\ email' = email
         /\ \A q \in Request : q # r => /\ pc'[q] = pc[q] /\ tok'[q] = tok[q]
                                        /\ cut'[q] = cut[q]
  BY DEF TypeOK, Step, FlushUser, Verified, UpdateSessions, Answer, CommitRegister,
     CommitLogin, CommitLogout, CommitOnboarding, Dies, Goto

\* Only the commit of a registration makes an account, its own.
LEMMA AccountsGrow ==
  ASSUME TypeOK, NEW r \in Request, Step(r) \/ Dies(r)
  PROVE  \/ accounts' = accounts
         \/ CommitRegister(r) /\ accounts' = accounts \cup {r}
  BY DEF Step, FlushUser, Verified, UpdateSessions, Answer, CommitRegister, CommitLogin,
     CommitLogout, CommitOnboarding, Dies, rows

LEMMA PlaceStep ==
  ASSUME Inv, NEW r \in Request, Step(r) \/ Dies(r)
  PROVE  PlaceInv'
  <1> USE DEF Inv, TypeOK
  <1>1. CASE FlushUser(r)
    BY <1>1 DEF FlushUser, Goto, rows, PlaceInv
  <1>2. CASE Verified(r)
    <2>1. tok'[r].user = tok[r].user
      <3>1. CASE tok' = [tok EXCEPT ![r].at = now]
        BY <3>1 DEF Token
      <3> QED BY <1>2, <3>1 DEF Verified
    <2>2. pc[r] = "verifying" /\ pc'[r] \in {"refused", "flushed"} /\ accounts' = accounts
      BY <1>2 DEF Verified, Goto, rows
    <2> QED BY <2>1, <2>2, OthersUnmoved DEF PlaceInv
  <1>3. CASE UpdateSessions(r) \/ Answer(r)
    BY <1>3 DEF UpdateSessions, Answer, Goto, rows, PlaceInv
  <1>4. CASE CommitRegister(r)
    BY <1>4 DEF CommitRegister, Goto, PlaceInv
  <1>5. CASE CommitLogin(r) \/ CommitLogout(r) \/ CommitOnboarding(r)
    BY <1>5 DEF CommitLogin, CommitLogout, CommitOnboarding, Goto, PlaceInv
  <1>6. CASE Dies(r)
    BY <1>6 DEF Dies, Goto, rows, PlaceInv, Final
  <1> QED BY <1>1, <1>2, <1>3, <1>4, <1>5, <1>6 DEF Step

\* Who holds an address after a step held it before, or has just found it free.
LEMMA HoldingStep ==
  ASSUME Inv, NEW r \in Request, Step(r) \/ Dies(r), NEW q \in Request, Holding(q)'
  PROVE  \/ Holding(q) /\ tok'[q] = tok[q]
         \/ /\ q = r /\ tok'[q].user = q
            /\ \A a \in accounts : email[a] # email[r]
            /\ \A p \in Request \ {r} : Holding(p) => email[p] # email[r]
  <1> USE DEF Inv, TypeOK
  <1>1. CASE q # r
    BY <1>1, OthersUnmoved DEF Holding
  <1>2. CASE q = r /\ FlushUser(r)
    BY <1>2 DEF FlushUser, Goto, Holding, Registered
  <1>3. CASE q = r /\ ~FlushUser(r)
    BY <1>3 DEF Step, Verified, UpdateSessions, Answer, CommitRegister, CommitLogin,
       CommitLogout, CommitOnboarding, Dies, Final, Goto, Holding, PlaceInv
  <1> QED BY <1>1, <1>2, <1>3

LEMMA KeyStep ==
  ASSUME Inv, NEW r \in Request, Step(r) \/ Dies(r)
  PROVE  KeyInv'
  <1> USE DEF Inv
  <1>1. email' = email /\ op' = op
    BY OthersUnmoved
  <1>2. \A p, q \in Request : Holding(p)' /\ Holding(q)' /\ email[p] = email[q] => p = q
    BY HoldingStep DEF KeyInv
  <1>3. CASE accounts' = accounts
    BY <1>1, <1>2, <1>3, HoldingStep DEF KeyInv, OneAccountPerEmail
  <1>4. CASE CommitRegister(r) /\ accounts' = accounts \cup {r}
    <2>1. Holding(r)
      BY <1>4 DEF CommitRegister, Holding
    <2>2. \A q \in Request : Holding(q)' => q # r /\ Holding(q)
      BY <1>4, OthersUnmoved DEF CommitRegister, Goto, Holding, TypeOK
    <2>3. accounts \subseteq Request
      BY DEF TypeOK
    <2> QED BY <1>1, <1>2, <1>4, <2>1, <2>2, <2>3 DEF KeyInv, OneAccountPerEmail
  <1> QED BY <1>3, <1>4, AccountsGrow

LEMMA SessionStep ==
  ASSUME Inv, NEW r \in Request, Step(r) \/ Dies(r)
  PROVE  SessionInv'
  <1> USE DEF Inv, TypeOK
  <1>1. \A q \in Request : Holding(q)' => tok'[q].user = q
    BY HoldingStep DEF SessionInv
  <1>2. accounts \subseteq accounts'
    BY AccountsGrow
  <1>3. \A t \in Token : session'[t] # "none" => t.user \in accounts'
    <2>1. CASE CommitRegister(r)
      BY <2>1 DEF CommitRegister, Holding, SessionInv
    <2>2. CASE CommitLogin(r)
      BY <2>2 DEF CommitLogin, PlaceInv, SessionInv
    <2>3. CASE CommitLogout(r)
      BY <2>3 DEF CommitLogout, SessionInv
    <2>4. CASE ~CommitRegister(r) /\ ~CommitLogin(r) /\ ~CommitLogout(r)
      BY <2>4 DEF Step, FlushUser, Verified, UpdateSessions, Answer, CommitOnboarding,
         Dies, rows, SessionInv
    <2> QED BY <2>1, <2>2, <2>3, <2>4
  <1>4. \A q \in Request, t \in Token : t \in cut'[q] => t.user \in accounts'
    <2>1. CASE UpdateSessions(r)
      BY <2>1 DEF UpdateSessions, Live, rows, SessionInv
    <2>2. CASE ~UpdateSessions(r)
      <3>1. cut' = cut
        BY <2>2 DEF Step, FlushUser, Verified, Answer, CommitRegister, CommitLogin,
           CommitLogout, CommitOnboarding, Dies
      <3> QED BY <1>2, <3>1 DEF SessionInv
    <2> QED BY <2>1, <2>2
  <1> QED BY <1>1, <1>3, <1>4 DEF SessionInv

\* A session that is revoked stays so: a login in the same second makes the same
\* token, and its INSERT fails.
LEMMA RevokedStays ==
  ASSUME Inv, NEW r \in Request, Step(r) \/ Dies(r),
         NEW t \in Token, session[t] = "revoked"
  PROVE  session'[t] = "revoked"
  <1> USE DEF Inv, TypeOK
  <1>1. CASE CommitRegister(r)
    <2>1. tok[r].user = r /\ r \notin accounts
      BY <1>1 DEF CommitRegister, Holding, SessionInv, PlaceInv
    <2>2. t # tok[r]
      BY <2>1 DEF SessionInv
    <2> QED BY <1>1, <2>2 DEF CommitRegister
  <1>2. CASE CommitLogin(r)
    BY <1>2 DEF CommitLogin, Taken
  <1>3. CASE CommitLogout(r)
    BY <1>3 DEF CommitLogout
  <1>4. CASE ~CommitRegister(r) /\ ~CommitLogin(r) /\ ~CommitLogout(r)
    BY <1>4 DEF Step, FlushUser, Verified, UpdateSessions, Answer, CommitOnboarding,
       Dies, rows
  <1> QED BY <1>1, <1>2, <1>3, <1>4

LEMMA RevokedStep ==
  ASSUME Inv, NEW r \in Request, Step(r) \/ Dies(r)
  PROVE  RevokedInv'
  <1> SUFFICES ASSUME NEW q \in Request, NEW t \in Token,
                      op'[q] = "logout", pc'[q] = "done", t \in cut'[q]
               PROVE  session'[t] = "revoked"
    BY DEF RevokedInv
  <1> USE DEF Inv, TypeOK
  <1>1. CASE pc[q] = "done" /\ t \in cut[q]
    BY <1>1, OthersUnmoved, RevokedStays DEF RevokedInv
  <1>2. CASE q # r
    BY <1>1, <1>2, OthersUnmoved
  <1>3. CASE q = r /\ CommitLogout(r)
    BY <1>3 DEF CommitLogout
  <1>4. CASE q = r /\ ~CommitLogout(r)
    <2>1. op[r] = "logout"
      BY <1>4, OthersUnmoved
    <2>2. pc[r] = "done" /\ cut'[r] = cut[r]
      BY <1>4, <2>1 DEF Step, FlushUser, Verified, UpdateSessions, Answer, CommitRegister,
         CommitLogin, CommitOnboarding, Dies, Final, Goto, PlaceInv
    <2> QED BY <1>1, <1>4, <2>2
  <1> QED BY <1>2, <1>3, <1>4

-----------------------------------------------------------------------------
LEMMA InitInv == Init => Inv
  <1> SUFFICES ASSUME Init PROVE Inv
    OBVIOUS
  <1>1. 0 \in 0 .. MaxTime
    OBVIOUS
  <1>2. TypeOK
    BY <1>1 DEF Init, TypeOK, Token, Op, Label, Final, Told
  <1>3. PlaceInv /\ SessionInv /\ RevokedInv
    BY DEF Init, PlaceInv, SessionInv, RevokedInv, Holding
  <1>4. KeyInv
    BY DEF Init, KeyInv, OneAccountPerEmail, Holding
  <1> QED BY <1>2, <1>3, <1>4 DEF Inv

LEMMA StepInv == Inv /\ [Next]_vars => Inv'
  <1> SUFFICES ASSUME Inv, [Next]_vars PROVE Inv'
    OBVIOUS
  <1>1. ASSUME NEW r \in Request, Arrival(r) PROVE Inv'
    BY <1>1, ArrivalTypes, ArrivalKeeps DEF Inv
  <1>2. ASSUME NEW r \in Request, Step(r) \/ Dies(r) PROVE Inv'
    BY <1>2, StepTypes, PlaceStep, KeyStep, SessionStep, RevokedStep DEF Inv
  <1>3. CASE Tick
    <2>1. TypeOK'
      BY <1>3 DEF Tick, rows, Inv, TypeOK
    <2>2. PlaceInv' /\ SessionInv' /\ RevokedInv'
      BY <1>3 DEF Tick, rows, Inv, PlaceInv, SessionInv, RevokedInv, Holding
    <2>3. KeyInv'
      BY <1>3 DEF Tick, rows, Inv, KeyInv, OneAccountPerEmail, Holding
    <2> QED BY <2>1, <2>2, <2>3 DEF Inv
  <1>4. CASE UNCHANGED vars
    <2>1. TypeOK'
      BY <1>4 DEF vars, rows, Inv, TypeOK
    <2>2. PlaceInv' /\ SessionInv' /\ RevokedInv'
      BY <1>4 DEF vars, rows, Inv, PlaceInv, SessionInv, RevokedInv, Holding
    <2>3. KeyInv'
      BY <1>4 DEF vars, rows, Inv, KeyInv, OneAccountPerEmail, Holding
    <2> QED BY <2>1, <2>2, <2>3 DEF Inv
  <1> QED
    BY <1>1, <1>2, <1>3, <1>4 DEF Next, AllAnswered

\* Every variable keeps its type: only accounts have completed the onboarding,
\* whatever process dies between the response and the commit.
THEOREM TypeCorrect == Spec => []TypeOK
  <1>1. Inv => TypeOK
    BY DEF Inv
  <1> QED BY <1>1, InitInv, StepInv, PTL DEF Spec

\* Two registrations of one address never both succeed (auth.py register): both
\* may find it free, but the second INSERT waits for the first.
THEOREM OneAccount == Spec => []OneAccountPerEmail
  <1>1. Inv => OneAccountPerEmail
    BY DEF Inv, KeyInv
  <1> QED BY <1>1, InitInv, StepInv, PTL DEF Spec

\* A session that a logout has ended grants no access token again (auth.py
\* logout, refresh).
THEOREM EndedStaysEnded == Spec => LogoutIsFinal
  <1>1. Inv => (\A r, q \in Request, t \in Token :
                  op[q] = "logout" /\ pc[q] = "done" /\ t \in cut[q] => ~RefreshGranted(r, t))
    BY DEF Inv, RevokedInv, RefreshGranted
  <1> QED BY <1>1, InitInv, StepInv, PTL DEF Spec, LogoutIsFinal
=============================================================================
