------------------------------ MODULE StoreSync ------------------------------
(***************************************************************************)
(* The Etsy tokens of stores and everyone who uses them: the OAuth         *)
(* callback that connects a store (api/routes/stores.py), the Celery task  *)
(* sync_store_listings (tasks/sync.py), the request that applies an        *)
(* optimization (api/routes/optimizations.py), and get_valid_access_token  *)
(* (services/etsy_token_service.py), which each of the last two calls      *)
(* inside its own transaction.                                             *)
(*                                                                         *)
(* A process loads the store's row, works with what it loaded, and writes  *)
(* the columns it changed.  The sync flushes "syncing" first and so keeps  *)
(* the row locked until it ends; nobody ever commits that value.           *)
(*                                                                         *)
(* Tokens are numbered as Etsy issues them; 0 is none.  One number stands  *)
(* for an access token and the refresh token issued with it.  Etsy is      *)
(* external: it takes a refresh token once, which is why the code stores   *)
(* the one that comes with each answer.                                    *)
(***************************************************************************)
EXTENDS Naturals, FiniteSets

CONSTANTS
    Sync,        \* sync messages
    Apply,       \* requests that apply an optimization
    Connect,     \* OAuth connections
    Shop,        \* Etsy shops, each with at most one row
    StoreLimit,  \* STORE_LIMITS of the owner's tier
    MaxRetries,  \* max_retries of the sync task
    MaxStale,    \* bound: tokens that expire, are dropped or are revoked
    MaxFaults    \* bound: deaths of a process, lost answers, uncaught exceptions

Proc == Sync \cup Apply \cup Connect

ASSUME SyncAssumption ==
    /\ Sync \cap Apply = {} /\ Sync \cap Connect = {} /\ Apply \cap Connect = {}
    /\ {StoreLimit, MaxRetries, MaxStale, MaxFaults} \subseteq Nat

VARIABLES
    row,       \* row[s]: the committed columns of shop s
    valid,     \* refresh tokens Etsy accepts
    issued,    \* tokens issued so far
    expired,   \* tokens whose token_expires_at is near or past
    rejected,  \* tokens whose access token Etsy refuses all the same
    revoked,   \* history: tokens the owner revoked
    lost,      \* history: tokens whose successor went with an answer or a process
    dropped,   \* history: tokens whose successor an uncaught exception rolled back
    pc,        \* pc[p]: where p is
    shop,      \* shop[p]: the shop p is about
    saw,       \* saw[p]: the row as p's session loaded it
    tok,       \* tok[p]: the token in p's session
    tries,     \* tries[s]: retries of sync s
    faults     \* deaths and unanswered calls so far

etsyVars == <<valid, issued, expired, rejected, revoked, dropped>>
procVars == <<pc, shop, saw, tok, tries>>
vars == <<row, etsyVars, lost, procVars, faults>>

Row == [exists: BOOLEAN, status: {"active", "disconnected"},
        sync: {"idle", "error"}, tok: Nat]
NoRow == [exists |-> FALSE, status |-> "active", sync |-> "idle", tok |-> 0]

\* Labels at which p's transaction has flushed an UPDATE (or INSERT) of the row.
Locking == {"token", "refresh", "rerefresh", "fetch", "refetch", "ok", "gone", "error",
            "patch_locked", "dispatch", "commit"}
Final == {"off", "done", "skipped", "failed", "raised", "dead", "connected", "refused"}
Label == Locking \cup Final \cup
         {"queued", "loaded", "patch", "write_refresh", "flush", "caught", "invited",
          "exchange", "fetch_shop", "insert"}

TypeOK ==
    /\ row \in [Shop -> Row]
    /\ valid \cup expired \cup rejected \cup revoked \cup lost \cup dropped \subseteq 1 .. issued
    /\ issued \in Nat
    /\ pc \in [Proc -> Label]
    /\ shop \in [Proc -> Shop]
    /\ saw \in [Proc -> Row]
    /\ tok \in [Proc -> 0 .. issued]
    /\ tries \in [Sync -> 0 .. MaxRetries]
    /\ faults \in 0 .. MaxFaults

\* No store yet, or one that was connected some time ago.
Init ==
    /\ \E known \in {{}} \cup {{s} : s \in Shop} :
         /\ row = [s \in Shop |-> IF s \in known
                                 THEN [NoRow EXCEPT !.exists = TRUE, !.tok = 1] ELSE NoRow]
         /\ issued = Cardinality(known)
         /\ valid = 1 .. issued
    /\ expired = {} /\ rejected = {} /\ revoked = {} /\ lost = {} /\ dropped = {}
    /\ pc = [p \in Proc |-> "off"]
    /\ shop \in [Proc -> Shop]
    /\ saw = [p \in Proc |-> NoRow]
    /\ tok = [p \in Proc |-> 0]
    /\ tries = [s \in Sync |-> 0]
    /\ faults = 0

Goto(p, label) == pc' = [pc EXCEPT ![p] = label]
RowOf(p) == row[shop[p]]
LockFree(p) == \A q \in Proc \ {p} : shop[q] = shop[p] => pc[q] \notin Locking
Refreshed(p) == tok[p] # saw[p].tok

\* The session loads the row.
Load(p, label) ==
    /\ saw' = [saw EXCEPT ![p] = RowOf(p)]
    /\ tok' = [tok EXCEPT ![p] = IF p \in Connect THEN @ ELSE RowOf(p).tok]
    /\ Goto(p, label)
    /\ UNCHANGED <<row, etsyVars, lost, shop, tries, faults>>

\* What the session believes the row to be.  A sync has flushed "syncing", so
\* that whatever its end makes of the column is a change.
Believed(p) == IF p \in Sync THEN [saw[p] EXCEPT !.sync = "syncing"] ELSE saw[p]

\* The session's UPDATE: the columns it changed, its token among them.
Write(p, new) ==
    row' = [row EXCEPT ![shop[p]] =
              [c \in DOMAIN NoRow |->
                 IF new[c] # Believed(p)[c] THEN new[c] ELSE RowOf(p)[c]]]

\* The session ends: what it held is forgotten.
End(p, label) ==
    /\ Goto(p, label)
    /\ saw' = [saw EXCEPT ![p] = NoRow]
    /\ tok' = [tok EXCEPT ![p] = 0]

\* The token whose successor goes with p's session when it is rolled back.
Wasted(p) == IF p \notin Connect /\ Refreshed(p) THEN {saw[p].tok} ELSE {}

Fault == faults < MaxFaults /\ faults' = faults + 1

-----------------------------------------------------------------------------
(* get_valid_access_token *)

\* refresh_access_token, and the label the caller goes on at.
Refreshing == {"refresh", "rerefresh", "write_refresh"}
Onward(p) == CASE pc[p] = "refresh" -> "fetch"
               [] pc[p] = "rerefresh" -> "refetch"
               [] OTHER -> "flush"

RefreshAccepted(p) ==
    /\ pc[p] \in Refreshing /\ tok[p] \in valid
    /\ issued' = issued + 1
    /\ valid' = (valid \ {tok[p]}) \cup {issued + 1}
    /\ tok' = [tok EXCEPT ![p] = issued + 1]
    /\ Goto(p, Onward(p))
    /\ UNCHANGED <<row, expired, rejected, revoked, dropped, lost, shop, saw, tries, faults>>

\* 400 or 401: StoreNotConnectedError.
RefreshRefused(p) ==
    /\ pc[p] \in Refreshing /\ tok[p] \notin valid
    /\ Goto(p, IF p \in Apply THEN "caught" ELSE "gone")
    /\ UNCHANGED <<row, etsyVars, lost, shop, saw, tok, tries, faults>>

\* No answer, or a 5xx: Etsy may have used the token up before.
RefreshRaises(p) ==
    /\ pc[p] \in Refreshing /\ Fault
    /\ \/ UNCHANGED <<valid, lost>>
       \/ /\ tok[p] \in valid
          /\ valid' = valid \ {tok[p]}
          /\ lost' = lost \cup {tok[p], saw[p].tok}
    /\ Goto(p, IF p \in Apply THEN "caught" ELSE "error")
    /\ UNCHANGED <<row, issued, expired, rejected, revoked, dropped, shop, saw, tok, tries>>

-----------------------------------------------------------------------------
(* sync_store_listings *)

\* The messages that are yet to be sent are alike: one of them is the next.
Unused(sh) == {s \in Sync : pc[s] = "off" /\ shop[s] = sh}
NextSync(sh) == CHOOSE s \in Unused(sh) : TRUE

\* POST /stores/{id}/sync, or the daily agent: a store with tokens.  The check
\* of sync_status finds "syncing" never.
Trigger(sh) ==
    /\ row[sh].exists /\ Unused(sh) # {}
    /\ Goto(NextSync(sh), "queued")
    /\ UNCHANGED <<row, etsyVars, lost, shop, saw, tok, tries, faults>>

TakeSync(s) == pc[s] = "queued" /\ RowOf(s).exists /\ Load(s, "loaded")

\* Variant: the message waits until the store is there.
SkipSyncWaits(s) == pc[s] = "queued" /\ ~RowOf(s).exists /\ UNCHANGED vars

\* "store not found"
SkipSync(s) ==
    /\ pc[s] = "queued" /\ ~RowOf(s).exists
    /\ Goto(s, "skipped")
    /\ UNCHANGED <<row, etsyVars, lost, shop, saw, tok, tries, faults>>

\* Variant: "syncing" is committed for others to see.
CommitSyncing(s) ==
    /\ pc[s] = "loaded" /\ LockFree(s)
    /\ row' = [row EXCEPT ![shop[s]].sync = "syncing"]
    /\ Goto(s, "token")
    /\ UNCHANGED <<etsyVars, lost, shop, saw, tok, tries, faults>>

\* store.sync_status = "syncing"; db.flush()
FlushSyncing(s) ==
    /\ pc[s] = "loaded" /\ LockFree(s)
    /\ Goto(s, "token")
    /\ UNCHANGED <<row, etsyVars, lost, shop, saw, tok, tries, faults>>

UseToken(s) ==
    /\ pc[s] = "token"
    /\ Goto(s, IF tok[s] \in expired THEN "refresh" ELSE "fetch")
    /\ UNCHANGED <<row, etsyVars, lost, shop, saw, tok, tries, faults>>

Accepts(g) == g \notin expired \cup rejected

\* A page of listings: more follow, or it was the last.
FetchPage(s) ==
    /\ pc[s] \in {"fetch", "refetch"} /\ Accepts(tok[s])
    /\ \E label \in {"fetch", "ok"} : pc[s] # label /\ Goto(s, label)
    /\ UNCHANGED <<row, etsyVars, lost, shop, saw, tok, tries, faults>>

\* "on 401, force-refresh the token and retry once"
FetchRejected(s) ==
    /\ pc[s] \in {"fetch", "refetch"} /\ ~Accepts(tok[s])
    /\ Goto(s, IF pc[s] = "fetch" THEN "rerefresh" ELSE "error")
    /\ UNCHANGED <<row, etsyVars, lost, shop, saw, tok, tries, faults>>

FetchRaises(s) ==
    /\ pc[s] \in {"fetch", "refetch"} /\ Fault
    /\ Goto(s, "error")
    /\ UNCHANGED <<row, etsyVars, lost, shop, saw, tok, tries>>

SyncSucceeds(s) ==
    /\ pc[s] = "ok"
    /\ Write(s, [saw[s] EXCEPT !.sync = "idle", !.tok = tok[s]])
    /\ End(s, "done")
    /\ UNCHANGED <<etsyVars, lost, shop, tries, faults>>

\* "retrying cannot help": the store is disconnected.
Disconnect(s) ==
    /\ pc[s] = "gone"
    /\ Write(s, [saw[s] EXCEPT !.status = "disconnected", !.sync = "error",
                               !.tok = tok[s]])
    /\ End(s, "done")
    /\ UNCHANGED <<etsyVars, lost, shop, tries, faults>>

\* self.retry: the message comes back after a minute, max_retries times.
Retry(s) ==
    /\ End(s, IF tries[s] < MaxRetries THEN "queued" ELSE "failed")
    /\ tries' = [tries EXCEPT ![s] = IF @ < MaxRetries THEN @ + 1 ELSE @]

\* Variant: the raise rolls back.
SyncErrorRollsBack(s) ==
    /\ pc[s] = "error"
    /\ Retry(s)
    /\ UNCHANGED <<row, etsyVars, lost, shop, faults>>

\* "commit now: the context manager would roll this back on raise"
SyncError(s) ==
    /\ pc[s] = "error"
    /\ Write(s, [saw[s] EXCEPT !.sync = "error", !.tok = tok[s]])
    /\ Retry(s)
    /\ UNCHANGED <<etsyVars, lost, shop, faults>>

-----------------------------------------------------------------------------
(* apply_optimization, as far as the store's row is concerned. *)

ApplyLoads(a) ==
    pc[a] = "off" /\ RowOf(a).exists
      /\ Load(a, IF RowOf(a).tok \in expired THEN "write_refresh" ELSE "patch")

\* db.flush() of the new tokens: after Etsy has issued them.
ApplyFlushes(a) ==
    /\ pc[a] = "flush" /\ LockFree(a)
    /\ Goto(a, "patch_locked")
    /\ UNCHANGED <<row, etsyVars, lost, shop, saw, tok, tries, faults>>

\* Applied, or failed in a way the handler catches: both commit.
ApplyCommits(a) ==
    /\ pc[a] \in {"patch", "patch_locked", "caught"}
    /\ Write(a, [saw[a] EXCEPT !.tok = tok[a]])
    /\ End(a, "done")
    /\ UNCHANGED <<etsyVars, lost, shop, tries, faults>>

-----------------------------------------------------------------------------
(* Exceptions that no handler catches: the session is rolled back. *)

\* A page may hold a listing that Postgres refuses.  The handler of sync does
\* catch that, but its commit raises too, the transaction being rolled back.
\* Of apply, the request may fail in another way than by a timeout or a status:
\* the rate limiter gives up, Etsy cannot be reached.
Exposed(p) == IF p \in Sync THEN {"fetch", "refetch", "ok"}
              ELSE IF p \in Apply THEN {"write_refresh", "patch", "patch_locked"} ELSE {}

Raises(p) ==
    /\ pc[p] \in Exposed(p) /\ Fault
    /\ End(p, IF p \in Sync THEN "failed" ELSE "raised")
    /\ dropped' = dropped \cup Wasted(p)
    /\ UNCHANGED <<row, valid, issued, expired, rejected, revoked, lost, shop, tries>>

-----------------------------------------------------------------------------
(* Connecting a store. *)

\* initiate_etsy_oauth: the limit is checked here and nowhere else, and counts
\* the store that is to be reconnected.
Stores == {s \in Shop : row[s].exists}
MayInitiate == Cardinality(Stores) < StoreLimit

Initiate(c) ==
    /\ pc[c] = "off" /\ MayInitiate
    /\ Goto(c, "invited")
    /\ UNCHANGED <<row, etsyVars, lost, shop, saw, tok, tries, faults>>

\* The state in Redis is found and deleted, or it has expired.
Callback(c) ==
    /\ pc[c] = "invited"
    /\ \E label \in {"exchange", "refused"} : Goto(c, label)
    /\ UNCHANGED <<row, etsyVars, lost, shop, saw, tok, tries, faults>>

Exchange(c) ==
    /\ pc[c] = "exchange"
    /\ issued' = issued + 1
    /\ valid' = valid \cup {issued + 1}
    /\ tok' = [tok EXCEPT ![c] = issued + 1]
    /\ Goto(c, "fetch_shop")
    /\ UNCHANGED <<row, expired, rejected, revoked, dropped, lost, shop, saw, tries, faults>>

\* OAUTH_FAILED: Etsy refused the code or did not answer.
ConnectFails(c) ==
    /\ pc[c] \in {"exchange", "fetch_shop"}
    /\ End(c, "refused")
    /\ UNCHANGED <<row, etsyVars, lost, shop, tries, faults>>

\* Etsy names the shop, and the store with its id is looked for.
FindStore(c) == pc[c] = "fetch_shop" /\ Load(c, "insert")

\* UPDATE waits for the lock; INSERT fails if the shop has got a row meanwhile.
FlushStore(c) ==
    /\ pc[c] = "insert" /\ LockFree(c)
    /\ IF saw[c].exists = RowOf(c).exists
       THEN Goto(c, "dispatch") /\ UNCHANGED <<saw, tok>>
       ELSE End(c, "dead")
    /\ UNCHANGED <<row, etsyVars, lost, shop, tries, faults>>

\* "Kick off the first listing sync", or not: queueing may fail.
DispatchFirst(c) ==
    /\ pc[c] = "dispatch"
    /\ \/ Goto(c, "commit")
       \/ /\ Unused(shop[c]) # {}
          /\ pc' = [pc EXCEPT ![c] = "commit", ![NextSync(shop[c])] = "queued"]
    /\ UNCHANGED <<row, etsyVars, lost, shop, saw, tok, tries, faults>>

\* status = "active" reaches the row only if the session had loaded another.
Connected(c) ==
    /\ pc[c] = "commit"
    /\ Write(c, [saw[c] EXCEPT !.exists = TRUE, !.status = "active", !.tok = tok[c]])
    /\ End(c, "connected")
    /\ UNCHANGED <<etsyVars, lost, shop, tries, faults>>

-----------------------------------------------------------------------------
(* Etsy, the owner and the processes that die. *)

\* A token comes within REFRESH_MARGIN of its expiry, or Etsy drops it.
TokenAges ==
    /\ Cardinality(expired \cup rejected) < MaxStale
    /\ \E g \in 1 .. issued : /\ Accepts(g)
                              /\ \/ expired' = expired \cup {g} /\ UNCHANGED rejected
                                 \/ rejected' = rejected \cup {g} /\ UNCHANGED expired
    /\ UNCHANGED <<row, valid, issued, revoked, dropped, lost, procVars, faults>>

\* The owner withdraws the application's access at Etsy, once.
Revoke ==
    /\ Cardinality(expired \cup rejected) < MaxStale
    /\ revoked = {} /\ valid # {}
    /\ revoked' = valid
    /\ rejected' = rejected \cup 1 .. issued
    /\ valid' = {}
    /\ UNCHANGED <<row, issued, expired, dropped, lost, procVars, faults>>

\* The process dies, and with it whatever its session held; a sync's message
\* comes again or is lost.
Dies(p) ==
    /\ pc[p] \notin Final \cup {"queued", "invited"} /\ Fault
    /\ \E end \in IF p \in Sync THEN {"queued", "dead"} ELSE {"dead"} : End(p, end)
    /\ lost' = lost \cup Wasted(p)
    /\ UNCHANGED <<row, etsyVars, shop, tries>>

SyncStep(s) ==
    \/ TakeSync(s) \/ SkipSync(s) \/ FlushSyncing(s) \/ UseToken(s)
    \/ FetchPage(s) \/ FetchRejected(s) \/ SyncSucceeds(s) \/ Disconnect(s) \/ SyncError(s)

ApplyStep(a) == ApplyFlushes(a) \/ ApplyCommits(a)

ConnectStep(c) ==
    \/ Exchange(c) \/ ConnectFails(c) \/ FindStore(c)
    \/ FlushStore(c) \/ DispatchFirst(c) \/ Connected(c)

RefreshStep(p) == RefreshAccepted(p) \/ RefreshRefused(p)

Quiet == (\A p \in Proc : pc[p] \in Final \cup {"invited"}) /\ UNCHANGED vars

Next ==
    \/ \E sh \in Shop : Trigger(sh)
    \/ \E s \in Sync : SyncStep(s) \/ FetchRaises(s)
    \/ \E a \in Apply : ApplyLoads(a) \/ ApplyStep(a)
    \/ \E c \in Connect : Initiate(c) \/ Callback(c) \/ ConnectStep(c)
    \/ \E p \in Proc : RefreshStep(p) \/ RefreshRaises(p) \/ Raises(p) \/ Dies(p)
    \/ TokenAges \/ Revoke \/ Quiet

Spec == Init /\ [][Next]_vars

\* Every call to Etsy ends by its timeout; workers and requests that have begun
\* go on.  A sync that is queued is taken.
Fairness ==
    /\ \A s \in Sync : WF_vars(SyncStep(s))
    /\ \A a \in Apply : WF_vars(ApplyStep(a))
    /\ \A c \in Connect : WF_vars(ConnectStep(c))
    /\ \A p \in Proc : WF_vars(RefreshStep(p))

FairSpec == Spec /\ Fairness

-----------------------------------------------------------------------------
(* Properties. *)

\* p's session holds the token that replaces g, and has yet to commit it.
Carries(p, g) == Refreshed(p) /\ saw[p].tok = g

\* Its successor is on the way to the row of s.
OnItsWay(s) == \E p \in Sync \cup Apply : shop[p] = s /\ Carries(p, row[s].tok)

\* The stored token of a connected store is good, was revoked by the owner, or
\* its successor is on the way to the row; otherwise an answer or a process was
\* lost, or one of the exceptions above rolled the successor back.  So every
\* end of a sync, of an application and of a connection that the code has a
\* handler for commits what was refreshed, whoever wrote the row meanwhile
\* (etsy_token_service.py, "commit now" in sync.py, _mark_failed).
TokenKept ==
    \A s \in Shop : row[s].exists =>
        row[s].tok \in valid \cup revoked \cup lost \cup dropped \/ OnItsWay(s)

\* A queued sync ends: done, skipped, out of retries, or lost with its worker.
\* Nobody waits for the store's row for ever.
SyncEnds == \A s \in Sync : pc[s] = "queued" ~> pc[s] \in {"done", "skipped", "failed", "dead"}

\* "Reconnect: same shop may be re-linked": once the callback has committed,
\* the store is active.
ReconnectActivates ==
    [][\A c \in Connect : pc[c] = "commit" /\ pc'[c] = "connected"
         => row'[shop[c]].status = "active"]_vars

\* "Refresh token is gone/revoked - retrying cannot help": a store is marked
\* disconnected only when its token is dead.
DisconnectedMeansRevoked ==
    [][\A s \in Shop : row[s].status = "active" /\ row'[s].status = "disconnected"
         => row[s].tok \in revoked \cup lost \cup dropped]_vars

\* "refreshing and persisting it if stale": a refreshed token is stored, unless
\* Etsy's answer or the process is lost.
RefreshIsPersisted ==
    \A s \in Shop : row[s].exists => row[s].tok \in valid \cup revoked \cup lost \/ OnItsWay(s)

\* "Sync already running": none is started while one has the store's row.
SyncInProgressIsRefused ==
    [][\A s \in Sync : pc[s] \in Locking => ~Trigger(shop[s])]_vars

\* A sync that was queued finds its store.
SyncFindsStore == \A s \in Sync : pc[s] # "skipped"

\* An account has no more stores than its tier supports.
WithinStoreLimit == Cardinality(Stores) <= StoreLimit

\* "the user has to reconnect the store via OAuth": the owner of a disconnected
\* store may start a connection.
DisconnectedCanReconnect ==
    (\E s \in Stores : row[s].status = "disconnected") => MayInitiate

=============================================================================
