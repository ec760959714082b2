-------------------------- MODULE StoreSyncProofs --------------------------
(***************************************************************************)
(* A connected store keeps its tokens, for any number of shops, syncs,     *)
(* requests and connections, and for any bounds.  TokenKept is not         *)
(* inductive: a token Etsy has just issued must be nobody's but the        *)
(* session's that asked for it (FreshInv), a stored token must be of one   *)
(* shop (ApartInv), and a session that has ended must carry nothing        *)
(* (LabelInv).  The row lock is not among the reasons: the columns of a    *)
(* session that refreshed win over the row whoever wrote it last.          *)
(***************************************************************************)
EXTENDS StoreSync, FiniteSetTheorems, TLAPS

\* The processes that may refresh a token, and the labels of a connection.
Session == Sync \cup Apply
Holding == {"fetch_shop", "insert", "dispatch", "commit"}
ConnectLabel == {"off", "invited", "exchange", "connected", "refused", "dead"} \cup Holding

\* p's session holds a token that Etsy issued to it.
Fresh(p) == IF p \in Connect THEN tok[p] # 0 ELSE Refreshed(p)

LabelInv ==
    /\ \A c \in Connect : pc[c] \in ConnectLabel /\ (pc[c] \in Holding => tok[c] # 0)
    /\ \A p \in Session : pc[p] \in {"off", "queued"} => ~Refreshed(p)

\* Every token in sight was issued; who has one got it for a stored one.
BoundInv ==
    /\ \A s \in Shop : row[s].tok <= issued
    /\ \A p \in Proc : saw[p].tok <= issued
    /\ \A p \in Session : tok[p] # 0 => saw[p].tok # 0

\* A fresh token is good and nobody else has it.
Private(p) ==
    /\ tok[p] # 0
    /\ tok[p] \in valid \cup revoked \cup lost
    /\ \A s \in Shop : row[s].tok # tok[p]
    /\ \A q \in Proc : saw[q].tok # tok[p] /\ (q # p => tok[q] # tok[p])

FreshInv == \A p \in Proc : Fresh(p) => Private(p)

\* Two shops have no token in common.
ApartInv ==
    /\ \A s, t \in Shop : row[s].tok = row[t].tok /\ row[s].tok # 0 => s = t
    /\ \A s \in Shop, p \in Proc : row[s].tok = saw[p].tok /\ row[s].tok # 0 => shop[p] = s

TokenInv == BoundInv /\ FreshInv /\ ApartInv /\ TokenKept

Inv == TypeOK /\ LabelInv /\ TokenInv

-----------------------------------------------------------------------------
(* What the model's operators do. *)

LEMMA NoRowFacts ==
    /\ NoRow \in Row /\ NoRow.tok = 0 /\ ~NoRow.exists
    /\ DOMAIN NoRow = {"exists", "status", "sync", "tok"}
  BY DEF NoRow, Row

LEMMA ProcFacts ==
    /\ \A p \in Proc : p \in Connect <=> p \notin Session
    /\ Session \subseteq Proc /\ Sync \subseteq Session /\ Apply \subseteq Session
    /\ Connect \subseteq Proc
    /\ \A p \in Sync : p \notin Apply
  BY SyncAssumption DEF Proc, Session

LEMMA NextSyncFacts ==
    ASSUME NEW sh, Unused(sh) # {}
    PROVE  NextSync(sh) \in Sync /\ pc[NextSync(sh)] = "off"
  BY DEF NextSync, Unused

\* A row with some columns changed is a row.
LEMMA RowColumns ==
    ASSUME NEW r \in Row, NEW g \in Nat
    PROVE  /\ \A st \in {"active", "disconnected"} :
                \A new \in {[r EXCEPT !.tok = g], [r EXCEPT !.sync = "idle", !.tok = g],
                            [r EXCEPT !.sync = "error", !.tok = g],
                            [r EXCEPT !.status = st, !.sync = "error", !.tok = g]} :
                  new \in Row /\ new.tok = g /\ new.exists = r.exists
           /\ \A new \in {[r EXCEPT !.exists = TRUE, !.status = "active", !.tok = g]} :
                  new \in Row /\ new.tok = g
  BY DEF Row

\* An UPDATE writes one row, and the columns the session has changed.
LEMMA WriteRow ==
    ASSUME NEW p \in Proc, NEW new \in Row, TypeOK, Write(p, new)
    PROVE  /\ row' \in [Shop -> Row]
           /\ \A s \in Shop : s # shop[p] => row'[s] = row[s]
           /\ row'[shop[p]].tok = IF new.tok # saw[p].tok THEN new.tok ELSE row[shop[p]].tok
           /\ row'[shop[p]].exists = IF new.exists # saw[p].exists THEN new.exists
                                     ELSE row[shop[p]].exists
  <1> DEFINE s == shop[p]
             b == Believed(p)
             t == [c \in {"exists", "status", "sync", "tok"} |->
                     IF new[c] # b[c] THEN new[c] ELSE row[s][c]]
  <1>0. b["tok"] = saw[p].tok /\ b["exists"] = saw[p].exists
    BY DEF TypeOK, Row, Believed
  <1>1. s \in Shop /\ saw[p] \in Row /\ row[s] \in Row /\ row' = [row EXCEPT ![s] = t]
    BY NoRowFacts DEF TypeOK, RowOf, Write
  <1> HIDE DEF b
  <1>2. t = [exists |-> t["exists"], status |-> t["status"], sync |-> t["sync"],
             tok |-> t["tok"]]
    OBVIOUS
  <1>3. t \in Row
    BY <1>1, <1>2 DEF Row
  <1> QED BY <1>0, <1>1, <1>3 DEF TypeOK

LEMMA LoadFacts ==
    ASSUME NEW p \in Proc, NEW label \in Label, TypeOK, BoundInv, Load(p, label)
    PROVE  /\ pc' = [pc EXCEPT ![p] = label] /\ saw' = [saw EXCEPT ![p] = row[shop[p]]]
           /\ tok' = [tok EXCEPT ![p] = IF p \in Connect THEN tok[p] ELSE row[shop[p]].tok]
           /\ saw' \in [Proc -> Row] /\ tok' \in [Proc -> 0 .. issued]
  BY DEF Load, Goto, RowOf, TypeOK, Row, BoundInv

LEMMA EndFacts ==
    ASSUME NEW p \in Proc, NEW label \in Label, TypeOK, End(p, label)
    PROVE  /\ pc' = [pc EXCEPT ![p] = label] /\ pc' \in [Proc -> Label]
           /\ saw' = [saw EXCEPT ![p] = NoRow] /\ saw' \in [Proc -> Row]
           /\ tok' = [tok EXCEPT ![p] = 0] /\ tok' \in [Proc -> 0 .. issued]
  BY NoRowFacts DEF End, Goto, TypeOK

-----------------------------------------------------------------------------
(* The types. *)

LEMMA RefreshTypes ==
    ASSUME Inv, NEW p \in Proc, RefreshStep(p) \/ RefreshRaises(p)
    PROVE  TypeOK'
  <1>1. Onward(p) \in Label
    BY DEF Onward, Label, Locking, Final
  <1>2. CASE RefreshAccepted(p)
    <2>1. issued' = issued + 1 /\ tok' = [tok EXCEPT ![p] = issued + 1]
      BY <1>2 DEF RefreshAccepted
    <2>2. tok' \in [Proc -> 0 .. issued']
      BY <2>1 DEF Inv, TypeOK
    <2>3. valid' \cup expired' \cup rejected' \cup revoked' \cup lost' \cup dropped'
          \subseteq 1 .. issued'
      BY <1>2, <2>1 DEF RefreshAccepted, Inv, TypeOK
    <2> QED BY <1>1, <1>2, <2>1, <2>2, <2>3 DEF RefreshAccepted, Goto, Inv, TypeOK
  <1>3. CASE RefreshRefused(p)
    BY <1>3 DEF RefreshRefused, Goto, Inv, TypeOK, etsyVars, Label, Locking
  <1>4. CASE RefreshRaises(p)
    <2>1. p \in Session
      BY <1>4, ProcFacts DEF RefreshRaises, Refreshing, Inv, LabelInv, ConnectLabel, Holding
    <2>2. tok[p] \in valid => saw[p].tok \in 1 .. issued
      BY <2>1, ProcFacts DEF Inv, TypeOK, TokenInv, BoundInv, Row
    <2>3. /\ lost' \subseteq 1 .. issued /\ valid' \subseteq 1 .. issued
          /\ faults' \in 0 .. MaxFaults
      BY <1>4, <2>2, SyncAssumption DEF RefreshRaises, Inv, TypeOK, Fault
    <2>4. pc' \in [Proc -> Label]
      BY <1>4 DEF RefreshRaises, Goto, Inv, TypeOK, Label, Locking
    <2> QED BY <1>4, <2>3, <2>4 DEF RefreshRaises, Inv, TypeOK
  <1> QED BY <1>2, <1>3, <1>4 DEF RefreshStep

LEMMA SyncTypes ==
    ASSUME Inv, NEW s \in Sync, SyncStep(s) \/ FetchRaises(s)
    PROVE  TypeOK'
  <1> USE DEF Inv
  <1>1. s \in Proc /\ s \notin Connect
    BY ProcFacts
  <1>2. CASE TakeSync(s)
    <2>1. pc' = [pc EXCEPT ![s] = "loaded"] /\ saw' \in [Proc -> Row]
          /\ tok' \in [Proc -> 0 .. issued]
      BY <1>1, <1>2, LoadFacts DEF TakeSync, Label, TokenInv
    <2> QED BY <1>2, <2>1 DEF TakeSync, Load, TypeOK, etsyVars, Label
  <1>3. CASE \/ SkipSync(s) \/ FlushSyncing(s) \/ UseToken(s) \/ FetchPage(s)
             \/ FetchRejected(s) \/ FetchRaises(s)
    BY <1>3, SyncAssumption DEF SkipSync, FlushSyncing, UseToken, FetchPage, FetchRejected,
       FetchRaises, Fault, Goto, TypeOK, etsyVars, Label, Locking, Final
  <1>4. CASE SyncSucceeds(s) \/ Disconnect(s) \/ SyncError(s)
    <2>1. saw[s] \in Row /\ tok[s] \in Nat
      BY <1>1 DEF TypeOK
    <2>2. row' \in [Shop -> Row]
      BY <1>1, <1>4, <2>1, RowColumns, WriteRow DEF SyncSucceeds, Disconnect, SyncError
    <2>3. \E label \in Label : End(s, label)
      BY <1>4 DEF SyncSucceeds, Disconnect, SyncError, Retry, Label, Final
    <2>4. pc' \in [Proc -> Label] /\ saw' \in [Proc -> Row] /\ tok' \in [Proc -> 0 .. issued]
      BY <1>1, <2>3, EndFacts
    <2>5. tries' \in [Sync -> 0 .. MaxRetries]
      BY <1>4, SyncAssumption DEF SyncSucceeds, Disconnect, SyncError, Retry, TypeOK
    <2> QED BY <1>4, <2>2, <2>4, <2>5 DEF SyncSucceeds, Disconnect, SyncError, TypeOK, etsyVars
  <1> QED BY <1>2, <1>3, <1>4 DEF SyncStep

LEMMA ApplyTypes ==
    ASSUME Inv, NEW a \in Apply, ApplyLoads(a) \/ ApplyStep(a)
    PROVE  TypeOK'
  <1> USE DEF Inv
  <1>1. a \in Proc /\ a \notin Connect
    BY ProcFacts
  <1>2. CASE ApplyLoads(a)
    <2>1. PICK label \in Label : Load(a, label)
      BY <1>2 DEF ApplyLoads, Label
    <2>2. pc' = [pc EXCEPT ![a] = label] /\ saw' \in [Proc -> Row]
          /\ tok' \in [Proc -> 0 .. issued]
      BY <1>1, <2>1, LoadFacts DEF TokenInv
    <2> QED BY <2>1, <2>2 DEF Load, TypeOK, etsyVars
  <1>3. CASE ApplyFlushes(a)
    BY <1>3 DEF ApplyFlushes, Goto, TypeOK, etsyVars, Label, Locking
  <1>4. CASE ApplyCommits(a)
    <2>1. saw[a] \in Row /\ tok[a] \in Nat
      BY <1>1 DEF TypeOK
    <2>2. row' \in [Shop -> Row]
      BY <1>1, <1>4, <2>1, RowColumns, WriteRow DEF ApplyCommits
    <2>3. pc' \in [Proc -> Label] /\ saw' \in [Proc -> Row] /\ tok' \in [Proc -> 0 .. issued]
      BY <1>1, <1>4, EndFacts DEF ApplyCommits, Label, Final
    <2> QED BY <1>4, <2>2, <2>3 DEF ApplyCommits, TypeOK, etsyVars
  <1> QED BY <1>2, <1>3, <1>4 DEF ApplyStep

LEMMA ConnectTypes ==
    ASSUME Inv, NEW c \in Connect, Initiate(c) \/ Callback(c) \/ ConnectStep(c)
    PROVE  TypeOK'
  <1> USE DEF Inv
  <1>1. c \in Proc
    BY ProcFacts
  <1>2. CASE Initiate(c) \/ Callback(c)
    BY <1>2 DEF Initiate, Callback, Goto, TypeOK, etsyVars, Label, Final
  <1>3. CASE Exchange(c)
    <2>1. issued' = issued + 1 /\ tok' = [tok EXCEPT ![c] = issued + 1]
      BY <1>3 DEF Exchange
    <2>2. tok' \in [Proc -> 0 .. issued']
      BY <1>1, <2>1 DEF TypeOK
    <2>3. valid' \cup expired' \cup rejected' \cup revoked' \cup lost' \cup dropped'
          \subseteq 1 .. issued'
      BY <1>3, <2>1 DEF Exchange, TypeOK
    <2> QED BY <1>3, <2>1, <2>2, <2>3 DEF Exchange, Goto, TypeOK, Label
  <1>4. CASE FindStore(c)
    <2>1. pc' = [pc EXCEPT ![c] = "insert"] /\ saw' \in [Proc -> Row]
          /\ tok' \in [Proc -> 0 .. issued]
      BY <1>1, <1>4, LoadFacts DEF FindStore, Label, TokenInv
    <2> QED BY <1>4, <2>1 DEF FindStore, Load, TypeOK, etsyVars, Label
  <1>5. CASE DispatchFirst(c)
    BY <1>5 DEF DispatchFirst, Goto, TypeOK, etsyVars, Label, Locking
  <1>6. CASE FlushStore(c) /\ saw[c].exists = RowOf(c).exists
    BY <1>6 DEF FlushStore, Goto, TypeOK, etsyVars, Label, Locking
  <1>7. CASE ConnectFails(c) \/ (FlushStore(c) /\ saw[c].exists # RowOf(c).exists)
    <2>1. \E label \in Label : End(c, label)
      BY <1>7 DEF ConnectFails, FlushStore, Label, Final
    <2>2. pc' \in [Proc -> Label] /\ saw' \in [Proc -> Row] /\ tok' \in [Proc -> 0 .. issued]
      BY <1>1, <2>1, EndFacts
    <2> QED BY <1>7, <2>2 DEF ConnectFails, FlushStore, TypeOK, etsyVars
  <1>8. CASE Connected(c)
    <2>1. saw[c] \in Row /\ tok[c] \in Nat
      BY <1>1 DEF TypeOK
    <2>2. row' \in [Shop -> Row]
      BY <1>1, <1>8, <2>1, RowColumns, WriteRow DEF Connected
    <2>3. pc' \in [Proc -> Label] /\ saw' \in [Proc -> Row] /\ tok' \in [Proc -> 0 .. issued]
      BY <1>1, <1>8, EndFacts DEF Connected, Label, Final
    <2> QED BY <1>8, <2>2, <2>3 DEF Connected, TypeOK, etsyVars
  <1> QED BY <1>2, <1>3, <1>4, <1>5, <1>6, <1>7, <1>8 DEF ConnectStep

\* A session that is rolled back, by an exception or by the death of its process.
LEMMA RollBackTypes ==
    ASSUME Inv, NEW p \in Proc, Raises(p) \/ Dies(p)
    PROVE  TypeOK'
  <1> USE DEF Inv
  <1>1. \E label \in Label : End(p, label)
    BY DEF Raises, Dies, Label, Final
  <1>2. pc' \in [Proc -> Label] /\ saw' \in [Proc -> Row] /\ tok' \in [Proc -> 0 .. issued]
    BY <1>1, EndFacts
  <1>3. Wasted(p) \subseteq 1 .. issued
    BY ProcFacts DEF Wasted, TypeOK, TokenInv, FreshInv, Fresh, Private, BoundInv, Row
  <1>4. lost' \cup dropped' \subseteq 1 .. issued
    BY <1>3 DEF Raises, Dies, TypeOK, etsyVars
  <1> QED BY <1>2, <1>4, SyncAssumption DEF Raises, Dies, Fault, TypeOK, etsyVars

LEMMA StepTypes == Inv /\ [Next]_vars => TypeOK'
  <1> SUFFICES ASSUME Inv, [Next]_vars PROVE TypeOK'
    OBVIOUS
  <1>1. CASE UNCHANGED vars \/ Quiet
    BY <1>1 DEF Quiet, Inv, TypeOK, vars, etsyVars, procVars
  <1>2. CASE \E sh \in Shop : Trigger(sh)
    BY <1>2 DEF Trigger, Goto, Inv, TypeOK, etsyVars, Label
  <1>3. CASE TokenAges \/ Revoke
    BY <1>3 DEF TokenAges, Revoke, Inv, TypeOK, procVars
  <1> QED BY <1>1, <1>2, <1>3, RefreshTypes, SyncTypes, ApplyTypes, ConnectTypes, RollBackTypes
         DEF Next

-----------------------------------------------------------------------------
(* The labels. *)

LEMMA SyncLabels ==
    ASSUME Inv, NEW s \in Sync, SyncStep(s) \/ FetchRaises(s)
    PROVE  LabelInv'
  <1> USE DEF Inv, TypeOK
  <1>1. s \in Proc /\ s \in Session /\ s \notin Connect
    BY ProcFacts
  <1>2. CASE TakeSync(s)
    BY <1>1, <1>2, ProcFacts DEF TakeSync, Load, Goto, LabelInv, Refreshed
  <1>3. CASE SkipSync(s) \/ FlushSyncing(s) \/ UseToken(s) \/ FetchPage(s)
             \/ FetchRejected(s) \/ FetchRaises(s)
    BY <1>1, <1>3, ProcFacts DEF SkipSync, FlushSyncing, UseToken, FetchPage, FetchRejected,
       FetchRaises, Goto, LabelInv, Refreshed
  <1>4. CASE SyncSucceeds(s) \/ Disconnect(s) \/ SyncError(s)
    <2>1. \E label \in Label : End(s, label)
      BY <1>4 DEF SyncSucceeds, Disconnect, SyncError, Retry, Label, Final
    <2> QED BY <1>1, <2>1, ProcFacts, NoRowFacts DEF End, Goto, LabelInv, Refreshed
  <1> QED BY <1>2, <1>3, <1>4 DEF SyncStep

LEMMA ApplyLabels ==
    ASSUME Inv, NEW a \in Apply, ApplyLoads(a) \/ ApplyStep(a)
    PROVE  LabelInv'
  <1> USE DEF Inv, TypeOK
  <1>1. a \in Proc /\ a \in Session /\ a \notin Connect
    BY ProcFacts
  <1>2. CASE ApplyLoads(a)
    BY <1>1, <1>2, ProcFacts DEF ApplyLoads, Load, Goto, LabelInv, Refreshed
  <1>3. CASE ApplyFlushes(a)
    BY <1>1, <1>3, ProcFacts DEF ApplyFlushes, Goto, LabelInv, Refreshed
  <1>4. CASE ApplyCommits(a)
    BY <1>1, <1>4, ProcFacts, NoRowFacts DEF ApplyCommits, End, Goto, LabelInv, Refreshed
  <1> QED BY <1>2, <1>3, <1>4 DEF ApplyStep

LEMMA ConnectLabels ==
    ASSUME Inv, NEW c \in Connect, Initiate(c) \/ Callback(c) \/ ConnectStep(c)
    PROVE  LabelInv'
  <1> USE DEF Inv, TypeOK
  <1>1. c \in Proc /\ c \notin Session
    BY ProcFacts
  <1>2. CASE Initiate(c) \/ Callback(c)
    BY <1>1, <1>2, ProcFacts DEF Initiate, Callback, Goto, LabelInv, Refreshed,
       ConnectLabel, Holding
  <1>3. CASE Exchange(c)
    BY <1>1, <1>3, ProcFacts DEF Exchange, Goto, LabelInv, Refreshed, ConnectLabel, Holding
  <1>4. CASE FindStore(c)
    BY <1>1, <1>4, ProcFacts DEF FindStore, Load, Goto, LabelInv, Refreshed,
       ConnectLabel, Holding
  <1>5. CASE ConnectFails(c) \/ FlushStore(c) \/ Connected(c)
    BY <1>1, <1>5, ProcFacts DEF ConnectFails, FlushStore, Connected, End, Goto, LabelInv,
       Refreshed, ConnectLabel, Holding
  <1>6. CASE DispatchFirst(c)
    <2>1. CASE Goto(c, "commit")
      BY <1>1, <1>6, <2>1, ProcFacts DEF DispatchFirst, Goto, LabelInv, Refreshed,
         ConnectLabel, Holding
    <2>2. CASE ~Goto(c, "commit")
      <3> DEFINE n == NextSync(shop[c])
      <3>1. /\ n \in Sync /\ pc[n] = "off" /\ n # c
            /\ pc' = [pc EXCEPT ![c] = "commit", ![n] = "queued"]
        BY <1>1, <1>6, <2>2, NextSyncFacts, ProcFacts DEF DispatchFirst
      <3> HIDE DEF n
      <3> QED BY <1>1, <1>6, <3>1, ProcFacts DEF DispatchFirst, LabelInv, Refreshed,
              ConnectLabel, Holding
    <2> QED BY <2>1, <2>2
  <1> QED BY <1>2, <1>3, <1>4, <1>5, <1>6 DEF ConnectStep

LEMMA LabelStep == Inv /\ [Next]_vars => LabelInv'
  <1> SUFFICES ASSUME Inv, [Next]_vars PROVE LabelInv'
    OBVIOUS
  <1> USE DEF Inv, TypeOK
  <1>1. CASE UNCHANGED vars \/ Quiet \/ TokenAges \/ Revoke
    BY <1>1 DEF Quiet, TokenAges, Revoke, LabelInv, Refreshed, vars, procVars
  <1>2. ASSUME NEW sh \in Shop, Trigger(sh) PROVE LabelInv'
    <2> DEFINE n == NextSync(sh)
    <2>1. n \in Sync /\ pc[n] = "off" /\ pc' = [pc EXCEPT ![n] = "queued"]
      BY <1>2, NextSyncFacts DEF Trigger, Goto
    <2> HIDE DEF n
    <2> QED BY <1>2, <2>1, ProcFacts DEF Trigger, LabelInv, Refreshed
  <1>3. ASSUME NEW p \in Proc, RefreshStep(p) \/ RefreshRaises(p) PROVE LabelInv'
    BY <1>3, ProcFacts DEF RefreshStep, RefreshAccepted, RefreshRefused, RefreshRaises,
       Refreshing, Onward, Goto, LabelInv, Refreshed, ConnectLabel, Holding
  <1>4. ASSUME NEW p \in Proc, Raises(p) \/ Dies(p) PROVE LabelInv'
    BY <1>4, ProcFacts, NoRowFacts DEF Raises, Exposed, Dies, End, Goto, LabelInv,
       Refreshed, ConnectLabel, Holding
  <1> QED BY <1>1, <1>2, <1>3, <1>4, SyncLabels, ApplyLabels, ConnectLabels DEF Next

-----------------------------------------------------------------------------
(* The tokens. *)

\* What each kind of step does to the tokens.  Still: nothing.
LEMMA StillKeeps ==
    ASSUME Inv, UNCHANGED <<row, valid, issued, revoked, lost, dropped, shop, saw, tok>>
    PROVE  TokenInv'
  BY DEF Inv, TokenInv, BoundInv, FreshInv, Fresh, Private, ApartInv, TokenKept, OnItsWay,
     Carries, Refreshed

LEMMA LoadKeeps ==
    ASSUME Inv, NEW p \in Proc, NEW label \in Label, Load(p, label),
           p \in Session => ~Refreshed(p)
    PROVE  TokenInv'
  <1> USE DEF Inv
  <1>1. /\ saw' = [saw EXCEPT ![p] = row[shop[p]]]
        /\ tok' = [tok EXCEPT ![p] = IF p \in Connect THEN tok[p] ELSE row[shop[p]].tok]
        /\ UNCHANGED <<row, valid, issued, revoked, lost, dropped, shop>> /\ shop[p] \in Shop
    BY LoadFacts DEF Load, TokenInv, etsyVars, TypeOK
  <1>2. BoundInv'
    BY <1>1, ProcFacts DEF TypeOK, TokenInv, BoundInv
  <1>3. \A q \in Proc : Fresh(q)' => Fresh(q) /\ tok'[q] = tok[q]
    BY <1>1, ProcFacts DEF TypeOK, Fresh, Refreshed
  <1>4. FreshInv'
    BY <1>1, <1>3 DEF TypeOK, TokenInv, FreshInv, Private
  <1>5. ApartInv'
    BY <1>1 DEF TypeOK, TokenInv, ApartInv
  <1>6. TokenKept'
    BY <1>1, ProcFacts DEF TypeOK, TokenInv, TokenKept, OnItsWay, Carries, Refreshed, Session
  <1> QED BY <1>2, <1>4, <1>5, <1>6 DEF TokenInv

\* An answer with new tokens: the old one is carried until it is written.
LEMMA AcceptKeeps ==
    ASSUME Inv, NEW p \in Session, RefreshAccepted(p)
    PROVE  TokenInv'
  <1> USE DEF Inv
  <1>1. /\ tok[p] \in valid /\ issued' = issued + 1
        /\ valid' = (valid \ {tok[p]}) \cup {issued + 1}
        /\ tok' = [tok EXCEPT ![p] = issued + 1]
        /\ UNCHANGED <<row, revoked, lost, dropped, shop, saw>> /\ p \in Proc
    BY ProcFacts DEF RefreshAccepted
  <1>2. /\ issued \in Nat /\ \A q \in Proc : tok[q] <= issued /\ tok[q] \in Nat
        /\ tok[p] # 0 /\ \A q \in Proc : saw[q].tok \in Nat /\ saw[q].tok <= issued
        /\ \A s \in Shop : row[s].tok \in Nat /\ row[s].tok <= issued
    BY <1>1 DEF TypeOK, Row, TokenInv, BoundInv
  <1>3. BoundInv'
    BY <1>1, <1>2, ProcFacts DEF TypeOK, TokenInv, BoundInv
  <1>4. ASSUME NEW q \in Proc, Fresh(q)' PROVE Private(q)'
    <2>1. CASE q = p
      BY <1>1, <1>2, <2>1 DEF TypeOK, Private
    <2>2. CASE q # p
      <3>1. Private(q) /\ tok'[q] = tok[q]
        BY <1>1, <1>4, <2>2 DEF TypeOK, TokenInv, FreshInv, Fresh, Refreshed
      <3> QED BY <1>1, <1>2, <2>2, <3>1 DEF TypeOK, Private
    <2> QED BY <2>1, <2>2
  <1>5. ApartInv'
    BY <1>1 DEF TokenInv, ApartInv
  <1>6. ASSUME NEW s \in Shop, row[s].exists
        PROVE  \/ row[s].tok \in valid' \cup revoked \cup lost \cup dropped
               \/ \E q \in Session : shop[q] = s /\ Carries(q, row[s].tok)'
    <2>1. CASE row[s].tok = tok[p]
      <3>1. saw[p].tok = tok[p]
        BY <1>1, <2>1, ProcFacts DEF TokenInv, FreshInv, Fresh, Private, Refreshed
      <3>2. shop[p] = s /\ Carries(p, row[s].tok)'
        BY <1>1, <1>2, <2>1, <3>1 DEF TypeOK, TokenInv, ApartInv, Carries, Refreshed
      <3> QED BY <3>2
    <2>2. CASE row[s].tok # tok[p] /\ row[s].tok \notin valid \cup revoked \cup lost \cup dropped
      <3>1. PICK q \in Session : shop[q] = s /\ Carries(q, row[s].tok)
        BY <1>6, <2>2 DEF TokenInv, TokenKept, OnItsWay, Session
      <3>2. Carries(q, row[s].tok)'
        BY <1>1, <1>2, <3>1, ProcFacts DEF TypeOK, Carries, Refreshed
      <3> QED BY <3>1, <3>2
    <2> QED BY <1>1, <2>1, <2>2
  <1>7. TokenKept'
    BY <1>1, <1>6 DEF TokenKept, OnItsWay, Session
  <1> QED BY <1>3, <1>4, <1>5, <1>7 DEF TokenInv, FreshInv

\* No answer: the token that was used up counts as lost.
LEMMA RaiseKeeps ==
    ASSUME Inv, NEW p \in Session, RefreshRaises(p)
    PROVE  TokenInv'
  <1>1. /\ UNCHANGED <<row, issued, revoked, dropped, shop, saw, tok>>
        /\ valid \cup lost \subseteq valid' \cup lost'
    BY DEF RefreshRaises
  <1> QED BY <1>1 DEF Inv, TokenInv, BoundInv, FreshInv, Fresh, Private, ApartInv, TokenKept, OnItsWay,
          Carries, Refreshed

LEMMA RevokeKeeps ==
    ASSUME Inv, Revoke
    PROVE  TokenInv'
  <1>1. /\ UNCHANGED <<row, issued, lost, dropped, shop, saw, tok>>
        /\ valid \cup revoked \subseteq valid' \cup revoked'
    BY DEF Revoke, procVars
  <1> QED BY <1>1 DEF Inv, TokenInv, BoundInv, FreshInv, Fresh, Private, ApartInv, TokenKept, OnItsWay,
          Carries, Refreshed

LEMMA ExchangeKeeps ==
    ASSUME Inv, NEW c \in Connect, Exchange(c)
    PROVE  TokenInv'
  <1> USE DEF Inv
  <1>1. /\ issued' = issued + 1 /\ valid' = valid \cup {issued + 1}
        /\ tok' = [tok EXCEPT ![c] = issued + 1]
        /\ UNCHANGED <<row, revoked, lost, dropped, shop, saw>> /\ c \in Proc /\ c \notin Session
    BY ProcFacts DEF Exchange
  <1>2. /\ issued \in Nat /\ \A q \in Proc : tok[q] <= issued /\ tok[q] \in Nat
        /\ \A q \in Proc : saw[q].tok \in Nat /\ saw[q].tok <= issued
        /\ \A s \in Shop : row[s].tok \in Nat /\ row[s].tok <= issued
    BY DEF TypeOK, Row, TokenInv, BoundInv
  <1>3. BoundInv'
    BY <1>1, <1>2, ProcFacts DEF TypeOK, TokenInv, BoundInv
  <1>4. ASSUME NEW q \in Proc, Fresh(q)' PROVE Private(q)'
    <2>1. CASE q = c
      BY <1>1, <1>2, <2>1 DEF TypeOK, Private
    <2>2. CASE q # c
      <3>1. Private(q) /\ tok'[q] = tok[q]
        BY <1>1, <1>4, <2>2 DEF TypeOK, TokenInv, FreshInv, Fresh, Refreshed
      <3> QED BY <1>1, <1>2, <2>2, <3>1 DEF TypeOK, Private
    <2> QED BY <2>1, <2>2
  <1>5. ApartInv'
    BY <1>1 DEF TokenInv, ApartInv
  <1>6. TokenKept'
    BY <1>1, ProcFacts DEF TypeOK, TokenInv, TokenKept, OnItsWay, Carries, Refreshed, Session
  <1> QED BY <1>3, <1>4, <1>5, <1>6 DEF TokenInv, FreshInv

\* A session ends: it had nothing fresh, gave it up, or has written it.
LEMMA EndKeeps ==
    ASSUME Inv, NEW p \in Proc, NEW label \in Label, End(p, label),
           UNCHANGED <<valid, issued, revoked, shop>>,
           lost \subseteq lost', dropped \subseteq dropped',
           \/ /\ \A s \in Shop : row'[s].tok = row[s].tok /\ row'[s].exists = row[s].exists
              /\ p \in Session /\ Refreshed(p) => saw[p].tok \in lost' \cup dropped'
           \/ /\ \A s \in Shop : s # shop[p] => row'[s] = row[s]
              /\ Fresh(p) /\ row'[shop[p]].tok = tok[p]
    PROVE  TokenInv'
  <1> USE DEF Inv
  <1>1. /\ saw' = [saw EXCEPT ![p] = NoRow] /\ tok' = [tok EXCEPT ![p] = 0]
        /\ shop[p] \in Shop
    BY EndFacts DEF TypeOK
  <1>2. BoundInv'
    BY <1>1, NoRowFacts, ProcFacts DEF TypeOK, TokenInv, BoundInv
  <1>3. ASSUME NEW q \in Proc, Fresh(q)'
        PROVE  Private(q)'
    <2>1. q # p /\ tok'[q] = tok[q] /\ Private(q)
      BY <1>1, <1>3, NoRowFacts, ProcFacts DEF TypeOK, TokenInv, FreshInv, Fresh, Refreshed
    <2>2. \A s \in Shop : row'[s].tok # tok[q]
      BY <2>1 DEF Private
    <2> QED BY <1>1, <2>1, <2>2, NoRowFacts DEF TypeOK, Private
  <1>4. ApartInv'
    <2>1. \A q \in Proc : saw'[q].tok \in {saw[q].tok, 0}
      BY <1>1, NoRowFacts DEF TypeOK
    <2>2. CASE \A s \in Shop : row'[s].tok = row[s].tok
      BY <2>1, <2>2 DEF TokenInv, ApartInv
    <2>3. CASE /\ \A s \in Shop : s # shop[p] => row'[s] = row[s]
               /\ Private(p) /\ row'[shop[p]].tok = tok[p]
      BY <1>1, <2>1, <2>3 DEF TokenInv, ApartInv, Private
    <2> QED BY <2>2, <2>3 DEF TokenInv, FreshInv
  <1>5. ASSUME NEW s \in Shop, row'[s].exists, NEW g, g = row'[s].tok
        PROVE  \/ g \in valid \cup revoked \cup lost' \cup dropped'
               \/ \E q \in Session : shop[q] = s /\ Carries(q, g)'
    <2>1. CASE g = row[s].tok /\ row[s].exists
      <3>1. CASE g \in valid \cup revoked \cup lost \cup dropped
        BY <2>1, <3>1
      <3>2. CASE g \notin valid \cup revoked \cup lost \cup dropped
        <4>1. PICK q \in Session : shop[q] = s /\ Carries(q, g)
          BY <2>1, <3>2 DEF TokenInv, TokenKept, OnItsWay, Session
        <4>2. CASE q = p
          <5>1. p \in Session /\ Refreshed(p) /\ saw[p].tok = g /\ shop[p] = s
            BY <4>1, <4>2 DEF Carries
          <5>2. saw[p].tok \in lost' \cup dropped' \/ (Fresh(p) /\ g = tok[p])
            BY <1>5, <5>1
          <5> QED BY <5>1, <5>2 DEF TokenInv, FreshInv, Private
        <4>3. CASE q # p
          <5>1. Carries(q, g)'
            BY <1>1, <2>1, <4>1, <4>3, ProcFacts DEF TypeOK, Carries, Refreshed
          <5> QED BY <4>1, <5>1
        <4> QED BY <4>2, <4>3
      <3> QED BY <3>1, <3>2
    <2>2. CASE s = shop[p] /\ Fresh(p) /\ g = tok[p]
      BY <2>2 DEF TokenInv, FreshInv, Private
    <2> QED BY <1>5, <2>1, <2>2
  <1>6. TokenKept'
    BY <1>1, <1>5 DEF TokenKept, OnItsWay, Session, Carries, Refreshed
  <1> QED BY <1>2, <1>3, <1>4, <1>6 DEF TokenInv, FreshInv

\* The UPDATE at the end of a session that refreshed or only read the row.
LEMMA WriteKeeps ==
    ASSUME Inv, NEW p \in Session, NEW label \in Label, End(p, label),
           NEW new \in Row, new.tok = tok[p], new.exists = saw[p].exists, Write(p, new),
           UNCHANGED <<valid, issued, revoked, lost, dropped, shop>>
    PROVE  TokenInv'
  <1>1. p \in Proc /\ p \notin Connect
    BY ProcFacts
  <1>2. /\ \A s \in Shop : s # shop[p] => row'[s] = row[s]
        /\ row'[shop[p]].tok = IF Refreshed(p) THEN tok[p] ELSE row[shop[p]].tok
        /\ row'[shop[p]].exists = row[shop[p]].exists
    BY <1>1, WriteRow DEF Inv, Refreshed
  <1>3. CASE Refreshed(p)
    BY <1>1, <1>2, <1>3, EndKeeps DEF Fresh
  <1>4. CASE ~Refreshed(p)
    BY <1>1, <1>2, <1>4, EndKeeps
  <1> QED BY <1>3, <1>4

LEMMA TokenStep == Inv /\ [Next]_vars => TokenInv'
  <1> SUFFICES ASSUME Inv, [Next]_vars PROVE TokenInv'
    OBVIOUS
  <1>1. CASE UNCHANGED vars \/ Quiet \/ TokenAges \/ \E sh \in Shop : Trigger(sh)
    BY <1>1, StillKeeps DEF Quiet, TokenAges, Trigger, vars, etsyVars, procVars
  <1>2. ASSUME NEW s \in Sync, SyncStep(s) \/ FetchRaises(s) PROVE TokenInv'
    <2>1. s \in Session /\ s \in Proc /\ saw[s] \in Row /\ tok[s] \in Nat
      BY <1>2, ProcFacts DEF Inv, TypeOK
    <2>2. CASE TakeSync(s)
      BY <2>1, <2>2, LoadKeeps DEF TakeSync, Inv, LabelInv, Label
    <2>3. CASE \/ SkipSync(s) \/ FlushSyncing(s) \/ UseToken(s) \/ FetchPage(s)
               \/ FetchRejected(s) \/ FetchRaises(s)
      BY <2>3, StillKeeps DEF SkipSync, FlushSyncing, UseToken, FetchPage, FetchRejected,
         FetchRaises, etsyVars
    <2>4. CASE SyncSucceeds(s) \/ Disconnect(s) \/ SyncError(s)
      <3>1. PICK label \in Label : End(s, label)
        BY <2>4 DEF SyncSucceeds, Disconnect, SyncError, Retry, Label, Final
      <3>2. PICK new \in Row : new.tok = tok[s] /\ new.exists = saw[s].exists /\ Write(s, new)
        <4>1. CASE SyncSucceeds(s)
          <5> DEFINE new == [saw[s] EXCEPT !.sync = "idle", !.tok = tok[s]]
          <5>1. new \in Row /\ new.tok = tok[s] /\ new.exists = saw[s].exists
            BY <2>1, RowColumns
          <5> QED BY <4>1, <5>1 DEF SyncSucceeds
        <4>2. CASE Disconnect(s)
          <5> DEFINE new == [saw[s] EXCEPT !.status = "disconnected", !.sync = "error",
                                           !.tok = tok[s]]
          <5>1. new \in Row /\ new.tok = tok[s] /\ new.exists = saw[s].exists
            BY <2>1, RowColumns
          <5> QED BY <4>2, <5>1 DEF Disconnect
        <4>3. CASE SyncError(s)
          <5> DEFINE new == [saw[s] EXCEPT !.sync = "error", !.tok = tok[s]]
          <5>1. new \in Row /\ new.tok = tok[s] /\ new.exists = saw[s].exists
            BY <2>1, RowColumns
          <5> QED BY <4>3, <5>1 DEF SyncError
        <4> QED BY <2>4, <4>1, <4>2, <4>3
      <3> QED BY <2>1, <2>4, <3>1, <3>2, WriteKeeps
              DEF SyncSucceeds, Disconnect, SyncError, etsyVars
    <2> QED BY <1>2, <2>2, <2>3, <2>4 DEF SyncStep
  <1>3. ASSUME NEW a \in Apply, ApplyLoads(a) \/ ApplyStep(a) PROVE TokenInv'
    <2>1. a \in Session /\ a \in Proc /\ saw[a] \in Row /\ tok[a] \in Nat
      BY <1>3, ProcFacts DEF Inv, TypeOK
    <2>2. CASE ApplyLoads(a)
      BY <2>1, <2>2, LoadKeeps DEF ApplyLoads, Inv, LabelInv, Label
    <2>3. CASE ApplyFlushes(a)
      BY <2>3, StillKeeps DEF ApplyFlushes, etsyVars
    <2>4. CASE ApplyCommits(a)
      <3>1. /\ [saw[a] EXCEPT !.tok = tok[a]] \in Row
            /\ [saw[a] EXCEPT !.tok = tok[a]].tok = tok[a]
            /\ [saw[a] EXCEPT !.tok = tok[a]].exists = saw[a].exists
        BY <2>1, RowColumns
      <3> QED BY <2>1, <2>4, <3>1, WriteKeeps DEF ApplyCommits, etsyVars, Label, Final
    <2> QED BY <1>3, <2>2, <2>3, <2>4 DEF ApplyStep
  <1>4. ASSUME NEW c \in Connect, Initiate(c) \/ Callback(c) \/ ConnectStep(c)
        PROVE  TokenInv'
    <2>1. c \in Proc /\ c \notin Session /\ saw[c] \in Row /\ tok[c] \in Nat
      BY <1>4, ProcFacts DEF Inv, TypeOK
    <2>2. CASE \/ Initiate(c) \/ Callback(c) \/ DispatchFirst(c)
               \/ (FlushStore(c) /\ saw[c].exists = RowOf(c).exists)
      BY <2>2, StillKeeps DEF Initiate, Callback, DispatchFirst, FlushStore, etsyVars
    <2>3. CASE Exchange(c)
      BY <2>3, ExchangeKeeps
    <2>4. CASE FindStore(c)
      BY <2>1, <2>4, LoadKeeps DEF FindStore, Label
    <2>5. CASE ConnectFails(c) \/ (FlushStore(c) /\ saw[c].exists # RowOf(c).exists)
      <3>1. PICK label \in Label : End(c, label)
        BY <2>5 DEF ConnectFails, FlushStore, Label, Final
      <3>2. UNCHANGED <<row, valid, issued, revoked, lost, dropped, shop>>
        BY <2>5 DEF ConnectFails, FlushStore, etsyVars
      <3> QED BY <2>1, <3>1, <3>2, EndKeeps
    <2>6. CASE Connected(c)
      <3> DEFINE new == [saw[c] EXCEPT !.exists = TRUE, !.status = "active", !.tok = tok[c]]
      <3>1. new \in Row /\ new.tok = tok[c] /\ Write(c, new)
        BY <2>1, <2>6, RowColumns DEF Connected
      <3>2. Fresh(c) /\ saw[c].tok # tok[c]
        BY <1>4, <2>1, <2>6 DEF Connected, Inv, LabelInv, Holding, TokenInv, FreshInv,
           Fresh, Private
      <3>3. /\ \A s \in Shop : s # shop[c] => row'[s] = row[s]
            /\ row'[shop[c]].tok = tok[c]
        BY <2>1, <3>1, <3>2, WriteRow DEF Inv
      <3> QED BY <2>1, <2>6, <3>2, <3>3, EndKeeps DEF Connected, etsyVars, Label, Final
    <2> QED BY <1>4, <2>2, <2>3, <2>4, <2>5, <2>6 DEF ConnectStep
  <1>5. ASSUME NEW p \in Proc, RefreshStep(p) \/ RefreshRaises(p) PROVE TokenInv'
    <2>1. p \in Session
      BY <1>5, ProcFacts DEF RefreshStep, RefreshAccepted, RefreshRefused, RefreshRaises,
         Refreshing, Inv, LabelInv, ConnectLabel, Holding
    <2>2. CASE RefreshRefused(p)
      BY <2>2, StillKeeps DEF RefreshRefused, etsyVars
    <2> QED BY <1>5, <2>1, <2>2, AcceptKeeps, RaiseKeeps DEF RefreshStep
  <1>6. ASSUME NEW p \in Proc, Raises(p) \/ Dies(p) PROVE TokenInv'
    <2>1. PICK label \in Label : End(p, label)
      BY <1>6 DEF Raises, Dies, Label, Final
    <2>2. /\ UNCHANGED <<row, valid, issued, revoked, shop>>
          /\ lost \subseteq lost' /\ dropped \subseteq dropped'
          /\ p \in Session /\ Refreshed(p) => saw[p].tok \in lost' \cup dropped'
      BY <1>6, ProcFacts DEF Raises, Dies, Wasted, etsyVars
    <2> QED BY <2>1, <2>2, EndKeeps
  <1>7. CASE Revoke
    BY <1>7, RevokeKeeps
  <1> QED BY <1>1, <1>2, <1>3, <1>4, <1>5, <1>6, <1>7 DEF Next

-----------------------------------------------------------------------------
(* The theorems. *)

LEMMA InitInv == Init => Inv
  <1> SUFFICES ASSUME Init PROVE Inv
    OBVIOUS
  <1>1. PICK known \in {{}} \cup {{s} : s \in Shop} :
          /\ row = [s \in Shop |-> IF s \in known
                                   THEN [NoRow EXCEPT !.exists = TRUE, !.tok = 1] ELSE NoRow]
          /\ issued = Cardinality(known) /\ valid = 1 .. issued
    BY DEF Init
  <1>2. issued = IF known = {} THEN 0 ELSE 1
    BY <1>1, FS_EmptySet, FS_Singleton
  <1>3. /\ [NoRow EXCEPT !.exists = TRUE, !.tok = 1] \in Row
        /\ [NoRow EXCEPT !.exists = TRUE, !.tok = 1].tok = 1
    BY DEF NoRow, Row
  <1>4. /\ \A s \in Shop : row[s] \in Row /\ row[s].tok = (IF s \in known THEN 1 ELSE 0)
                           /\ (row[s].exists => s \in known)
        /\ \A s, t \in known : s = t
        /\ row \in [Shop -> Row]
    BY <1>1, <1>3, NoRowFacts
  <1>5. TypeOK
    BY <1>1, <1>2, <1>4, NoRowFacts, SyncAssumption DEF Init, TypeOK, Label, Final
  <1>6. LabelInv
    BY NoRowFacts, ProcFacts DEF Init, LabelInv, Refreshed, ConnectLabel, Holding
  <1>7. TokenInv
    <2>1. BoundInv
      BY <1>1, <1>2, <1>4, NoRowFacts, ProcFacts DEF Init, BoundInv
    <2>2. FreshInv
      BY NoRowFacts, ProcFacts DEF Init, FreshInv, Fresh, Refreshed
    <2>3. ApartInv
      BY <1>4, NoRowFacts DEF Init, ApartInv
    <2>4. TokenKept
      BY <1>1, <1>2, <1>4 DEF TokenKept
    <2> QED BY <2>1, <2>2, <2>3, <2>4 DEF TokenInv
  <1> QED BY <1>5, <1>6, <1>7 DEF Inv

LEMMA InvAlways == Spec => []Inv
  <1>1. Inv /\ [Next]_vars => Inv'
    BY StepTypes, LabelStep, TokenStep DEF Inv
  <1> QED BY InitInv, <1>1, PTL DEF Spec

\* The columns, the tokens and the sessions keep their types: a session's
\* token was always issued by Etsy (etsy_token_service.py, sync.py, stores.py).
THEOREM TypeCorrect == Spec => []TypeOK
  <1>1. Inv => TypeOK
    BY DEF Inv
  <1> QED BY InvAlways, <1>1, PTL

\* However syncs, requests, reconnections, deaths and errors interleave, a
\* connected store's token is good, revoked, or its successor is in the session
\* that will write it; what else can become of it is that an answer or a process
\* is lost, or that an exception nobody catches rolls a session back
\* (etsy_token_service.py, tasks/sync.py, api/routes/stores.py).
THEOREM TokenIsKept == Spec => []TokenKept
  <1>1. Inv => TokenKept
    BY DEF Inv, TokenInv
  <1> QED BY InvAlways, <1>1, PTL

=============================================================================
