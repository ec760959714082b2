------------------------------ MODULE Accounts -------------------------------
(***************************************************************************)
(* Accounts and sessions (api/routes/auth.py, core/security.py,            *)
(* api/dependencies.py): registration, login, refresh, logout and          *)
(* onboarding, each a request with a transaction of its own that is        *)
(* committed when the response has been sent.                              *)
(*                                                                         *)
(* Tokens are signed claims and nothing else: the user and the expiry, in  *)
(* whole seconds.  Two tokens of a user made within a second are the same  *)
(* token, so a token is a user and the second it was made in.  An account  *)
(* is named by the request that registered it.  No code sets deleted_at.   *)
(***************************************************************************)
EXTENDS Naturals, FiniteSets

CONSTANTS
    Request,      \* requests
    Email,        \* addresses, in lower case
    AccessLife,   \* JWT_EXPIRE_HOURS, in ticks of the clock
    RefreshLife,  \* 7 days
    MaxTime       \* bound: the last tick

ASSUME AccountsAssumption == {AccessLife, RefreshLife, MaxTime} \subseteq Nat

VARIABLES
    accounts,   \* committed users rows
    onboarded,  \* those with onboarding_completed
    session,    \* session[t]: the committed sessions row whose hash is t's
    now,        \* the second
    op,         \* op[r]: what r asks for
    pc,         \* pc[r]: where r is
    email,      \* email[r]: the address r registers
    tok,        \* tok[r]: the token r presents, or has made
    cut         \* cut[r]: the sessions that logout r has updated

rows == <<accounts, onboarded, session>>
vars == <<rows, now, op, pc, email, tok, cut>>

Token == [user: Request, at: 0 .. MaxTime]
Op == {"none", "register", "login", "refresh", "logout", "onboard"}
\* "collided" and "lost": the response was sent and the commit failed, or the
\* process died before it.
Told == {"answered", "done", "collided", "lost"}
Final == {"done", "collided", "lost", "refused", "failed", "dead"}
Label == Told \cup Final \cup {"idle", "hashing", "verifying", "flushed", "update"}

TypeOK ==
    /\ accounts \subseteq Request /\ onboarded \subseteq accounts
    /\ session \in [Token -> {"none", "live", "revoked"}]
    /\ now \in 0 .. MaxTime
    /\ op \in [Request -> Op]
    /\ pc \in [Request -> Label]
    /\ email \in [Request -> Email]
    /\ tok \in [Request -> Token]
    /\ cut \in [Request -> SUBSET Token]

Init ==
    /\ accounts = {} /\ onboarded = {}
    /\ session = [t \in Token |-> "none"]
    /\ now = 0
    /\ op = [r \in Request |-> "none"]
    /\ pc = [r \in Request |-> "idle"]
    /\ email \in [Request -> Email]
    /\ tok = [r \in Request |-> [user |-> r, at |-> 0]]
    /\ cut = [r \in Request |-> {}]

Goto(r, label) == pc' = [pc EXCEPT ![r] = label]

\* The requests that have not come yet are alike.
NextRequest == CHOOSE r \in Request : pc[r] = "idle"
Arrives(r, what) == pc[r] = "idle" /\ r = NextRequest /\ op' = [op EXCEPT ![r] = what]

\* What the clients have been sent: refresh tokens and access tokens.
Handed == {tok[r] : r \in {q \in Request : op[q] \in {"register", "login"} /\ pc[q] \in Told}}
Access == Handed \cup {tok[r] : r \in {q \in Request : op[q] = "refresh" /\ pc[q] = "done"}}

\* exp is cut to the second, expires_at is not: in the last second either holds.
Valid(t, life) == now <= t.at + life
Expired(t, life) == now >= t.at + life

-----------------------------------------------------------------------------
(* register *)

Registered(e) == \E a \in accounts : email[a] = e

CheckEmail(r) ==
    /\ Arrives(r, "register")
    /\ Goto(r, IF Registered(email[r]) THEN "refused" ELSE "hashing")
    /\ UNCHANGED <<rows, now, email, tok, cut>>

\* Variant: users.email is not unique.
FlushAnyUser(r) ==
    /\ pc[r] = "hashing"
    /\ Goto(r, "flushed") /\ tok' = [tok EXCEPT ![r] = [user |-> r, at |-> now]]
    /\ UNCHANGED <<rows, now, op, email, cut>>

\* Variant: the request waits until the address is free.
FlushWaits(r) ==
    /\ pc[r] = "hashing" /\ ~Registered(email[r])
    /\ Goto(r, "flushed") /\ tok' = [tok EXCEPT ![r] = [user |-> r, at |-> now]]
    /\ UNCHANGED <<rows, now, op, email, cut>>

\* db.flush(): the unique key makes r wait for an INSERT of the address that is
\* not committed, and fail if one is.
FlushUser(r) ==
    /\ pc[r] = "hashing"
    /\ \A q \in Request \ {r} :
         op[q] = "register" /\ email[q] = email[r] => pc[q] \notin {"flushed", "answered"}
    /\ IF Registered(email[r])
       THEN Goto(r, "failed") /\ UNCHANGED tok
       ELSE Goto(r, "flushed") /\ tok' = [tok EXCEPT ![r] = [user |-> r, at |-> now]]
    /\ UNCHANGED <<rows, now, op, email, cut>>

CommitRegister(r) ==
    /\ op[r] = "register" /\ pc[r] = "answered"
    /\ accounts' = accounts \cup {r}
    /\ session' = [session EXCEPT ![tok[r]] = "live"]
    /\ Goto(r, "done")
    /\ UNCHANGED <<onboarded, now, op, email, tok, cut>>

-----------------------------------------------------------------------------
(* login *)

\* The account is found by its address; verify_password takes a while.
FindUser(r, a) ==
    /\ Arrives(r, "login")
    /\ tok' = [tok EXCEPT ![r].user = a]
    /\ Goto(r, "verifying")
    /\ UNCHANGED <<rows, now, email, cut>>

\* INVALID_CREDENTIALS, or the tokens are made.
Verified(r) ==
    /\ pc[r] = "verifying"
    /\ \/ Goto(r, "refused") /\ UNCHANGED tok
       \/ Goto(r, "flushed") /\ tok' = [tok EXCEPT ![r].at = now]
    /\ UNCHANGED <<rows, now, op, email, cut>>

\* Variant: sessions.token_hash is not unique.
NeverTaken(t) == FALSE

\* sessions.token_hash is unique.
Taken(t) == session[t] # "none"

CommitLogin(r) ==
    /\ op[r] = "login" /\ pc[r] = "answered"
    /\ IF Taken(tok[r])
       THEN Goto(r, "collided") /\ UNCHANGED session
       ELSE Goto(r, "done") /\ session' = [session EXCEPT ![tok[r]] = "live"]
    /\ UNCHANGED <<accounts, onboarded, now, op, email, tok, cut>>

-----------------------------------------------------------------------------
(* refresh *)

\* One statement reads the session; nothing is written, so nothing can fail later.
RefreshGranted(r, t) ==
    /\ Arrives(r, "refresh")
    /\ session[t] = "live" /\ Valid(t, RefreshLife)
    /\ tok' = [tok EXCEPT ![r] = [user |-> t.user, at |-> now]]
    /\ Goto(r, "done")
    /\ UNCHANGED <<rows, now, email, cut>>

RefreshRefused(r, t) ==
    /\ Arrives(r, "refresh")
    /\ session[t] # "live" \/ Expired(t, RefreshLife)
    /\ Goto(r, "refused")
    /\ UNCHANGED <<rows, now, email, tok, cut>>

-----------------------------------------------------------------------------
(* logout and onboarding: get_current_user wants an access token that has not *)
(* expired and an account; it does not look at the sessions. *)

\* Variant: the token is trusted and its account not looked up.
AuthenticatedByToken(r, t, what) ==
    /\ Arrives(r, what)
    /\ Valid(t, AccessLife)
    /\ tok' = [tok EXCEPT ![r] = t]
    /\ Goto(r, IF what = "logout" THEN "update" ELSE "flushed")
    /\ UNCHANGED <<rows, now, email, cut>>

Authenticated(r, t, what) ==
    /\ Arrives(r, what)
    /\ t.user \in accounts /\ Valid(t, AccessLife)
    /\ tok' = [tok EXCEPT ![r] = t]
    /\ Goto(r, IF what = "logout" THEN "update" ELSE "flushed")
    /\ UNCHANGED <<rows, now, email, cut>>

Unauthenticated(r, t, what) ==
    /\ Arrives(r, what)
    /\ t.user \notin accounts \/ Expired(t, AccessLife)
    /\ Goto(r, "refused")
    /\ UNCHANGED <<rows, now, email, tok, cut>>

Live(a) == {t \in Token : t.user = a /\ session[t] = "live"}
\* Sessions whose rows another logout has locked.
Locked == UNION {cut[q] : q \in {p \in Request : pc[p] \in {"flushed", "answered"}}}

\* UPDATE sessions SET is_revoked: the rows committed by now.
UpdateSessions(r) ==
    /\ pc[r] = "update" /\ Live(tok[r].user) \cap Locked = {}
    /\ cut' = [cut EXCEPT ![r] = Live(tok[r].user)]
    /\ Goto(r, "flushed")
    /\ UNCHANGED <<rows, now, op, email, tok>>

CommitLogout(r) ==
    /\ op[r] = "logout" /\ pc[r] = "answered"
    /\ session' = [t \in Token |-> IF t \in cut[r] THEN "revoked" ELSE session[t]]
    /\ Goto(r, "done")
    /\ UNCHANGED <<accounts, onboarded, now, op, email, tok, cut>>

CommitOnboarding(r) ==
    /\ op[r] = "onboard" /\ pc[r] = "answered"
    /\ onboarded' \in {onboarded, onboarded \cup {tok[r].user}}
    /\ Goto(r, "done")
    /\ UNCHANGED <<accounts, session, now, op, email, tok, cut>>

-----------------------------------------------------------------------------
\* The response is sent; get_db commits after that.
Answer(r) ==
    /\ pc[r] = "flushed"
    /\ Goto(r, "answered")
    /\ UNCHANGED <<rows, now, op, email, tok, cut>>

\* The process dies and its transaction is rolled back.
Dies(r) ==
    /\ pc[r] \notin Final \cup {"idle"}
    /\ Goto(r, IF pc[r] = "answered" THEN "lost" ELSE "dead")
    /\ UNCHANGED <<rows, now, op, email, tok, cut>>

Tick ==
    /\ now < MaxTime /\ now' = now + 1
    /\ UNCHANGED <<rows, op, pc, email, tok, cut>>

Arrival(r) ==
    \/ CheckEmail(r)
    \/ \E a \in accounts : FindUser(r, a)
    \/ \E t \in Handed : RefreshGranted(r, t) \/ RefreshRefused(r, t)
    \/ \E t \in Access, what \in {"logout", "onboard"} :
         Authenticated(r, t, what) \/ Unauthenticated(r, t, what)

Step(r) ==
    \/ FlushUser(r) \/ Verified(r) \/ UpdateSessions(r) \/ Answer(r)
    \/ CommitRegister(r) \/ CommitLogin(r) \/ CommitLogout(r) \/ CommitOnboarding(r)

AllAnswered == (\A r \in Request : pc[r] \in Final) /\ UNCHANGED vars

Next == Tick \/ AllAnswered \/ \E r \in Request : Arrival(r) \/ Step(r) \/ Dies(r)

Spec == Init /\ [][Next]_vars

\* A thread that serves a request goes on with it.
FairSpec == Spec /\ \A r \in Request : WF_vars(Step(r))

-----------------------------------------------------------------------------
(* Properties. *)

\* Two registrations of one address never both succeed, though both may have
\* found it free (auth.py register, users.email).
OneAccountPerEmail == \A a, b \in accounts : email[a] = email[b] => a = b

\* A session that a logout has ended grants no access token again, not even
\* when a login in the same second makes the same refresh token.
LogoutIsFinal ==
    [][\A r, q \in Request, t \in Token :
         op[q] = "logout" /\ pc[q] = "done" /\ t \in cut[q] => ~RefreshGranted(r, t)]_vars

\* Every request that has begun is answered and committed, or fails: nobody
\* waits for ever for a key or a row that a dead process had.
RequestEnds == \A r \in Request : pc[r] # "idle" ~> pc[r] \in Final

\* A login that was answered leaves the client a session that is live until a
\* later logout.
LoginGivesSession ==
    [][\A r \in Request : op[r] = "login" /\ pc[r] = "answered" /\ pc'[r] \in Final \ {"lost"}
         => session'[tok[r]] = "live"]_vars
=============================================================================
