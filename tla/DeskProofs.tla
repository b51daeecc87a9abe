----------------------------- MODULE DeskProofs -----------------------------
(***************************************************************************)
(* Proofs about Desk for any rows, tabs, POSTs and clock constants.        *)
(***************************************************************************)
EXTENDS Desk, FiniteSetTheorems, TLAPS

-----------------------------------------------------------------------------
(* The inductive invariant                                                 *)

\* The phase of a document is there from the claim on.
DocShape ==
  \A a \in Approvals : doc[a].status = "used" <=> doc[a].phase # None

CacheOK ==
  \A a \in Approvals :
    settled[a] # None => settled[a] = doc[a] /\ IsTerminal(doc[a])

\* A row on its way to the worker was read, by this GET, after everything
\* the tab has been told, and was unsettled then.
GetOK ==
  \A t \in Tabs :
    /\ get[t].step # "idle" => get[t].row \in 1 .. Len(Rows)
    /\ get[t].step \in {"ask", "wait"} =>
         /\ get[t].rec \in Doc
         /\ get[t].rec.status = "used" /\ get[t].rec.phase # None
         /\ ~IsTerminal(get[t].rec)
         /\ told[t][Row(t)] # "final"
         /\ doc[Row(t)].status = "used"

ToldOK ==
  \A t \in Tabs, a \in Approvals :
    /\ told[t][a] = "final" => IsTerminal(doc[a])
    /\ told[t][a] = "spent" => doc[a].status = "used"

\* A tab shows what it was told, or that the row could not be read.
ShownOK ==
  \A t \in Tabs, a \in Approvals : shown[t][a] \in {told[t][a], "unavailable"}

\* The /execute that holds the worker waits on a young document.
SlotOK ==
  slot # None =>
    /\ post[slot].on \in Approvals
    /\ post[slot].call = "running"
    /\ doc[post[slot].on].phase \in {"claimed", "applying"}
    /\ doc[post[slot].on].phase = "applying" => age[post[slot].on] <= ExecuteCap

AskOK == \A t \in Tabs :
           get[t].step = "ask" /\ slot # None => post[slot].on # Row(t)

\* A claim is on record with its document, and a POST that saw a phase before
\* its call is not the one that claimed.
OwnerOK ==
  /\ \A a \in Approvals : owner[a] # None =>
       doc[a].status = "used" /\ post[owner[a]].on = a
  /\ \A p \in Posts :
       /\ post[p] # NoPost => post[p].on \in Approvals
       /\ post[p].call # "none" => post[p].on \in Approvals
       /\ post[p].answer # "none" => post[p].on \in Approvals
       /\ post[p].before # None =>
            /\ post[p].on \in Approvals
            /\ doc[post[p].on].status = "used"
            /\ owner[post[p].on] # p

IInv == /\ TypeOK
        /\ DocShape
        /\ CacheOK
        /\ GetOK
        /\ ToldOK
        /\ ShownOK
        /\ SlotOK
        /\ AskOK
        /\ OwnerOK

-----------------------------------------------------------------------------
(* The window of rows and the actions                                      *)

LEMMA WindowFacts ==
  /\ Len(Rows) \in Nat \ {0}
  /\ DOMAIN Rows = 1 .. Len(Rows)
  /\ \A i \in 1 .. Len(Rows) : Rows[i] \in Approvals
<1>1. Rows \in Seq(Approvals) /\ Rows # <<>>
  BY RowsAssumption DEF Approvals
<1> QED
  BY <1>1

LEMMA RowIsApproval ==
  ASSUME GetOK, NEW t \in Tabs, get[t].step # "idle"
  PROVE  get[t].row \in 1 .. Len(Rows) /\ Row(t) \in Approvals
BY WindowFacts DEF GetOK, Row

\* The actions that write no document.
Quiet ==
  \/ \E t \in Tabs : TabStep(t)
  \/ \E p \in Posts : PostStep(p)
  \/ \E p \in Posts : Refuse(p)
  \/ \E a \in Approvals : OpEnds(a)
  \/ WorkerDies \/ Restart \/ Tick
  \/ UNCHANGED vars

LEMMA NextCases ==
  ASSUME [Next]_vars
  PROVE  \/ Quiet
         \/ \E p \in Posts : Deny(p) \/ Claim(p) \/ StartUpdate(p) \/ EndWait(p)
         \/ \E t \in Tabs, a \in Approvals : Reconcile(t, a)
BY DEF Next, WorkerStep, Quiet

LEMMA QuietKeepsDocs ==
  ASSUME Quiet
  PROVE  doc' = doc
BY DEF Quiet, TabStep, StartGet, ReadRow, AskWorker, AfterAsk, PostStep,
       Approve, Reject, GiveUp, Respond, Refuse, OpEnds, WorkerDies, Restart,
       Tick, worker, vars

-----------------------------------------------------------------------------
(* Documents                                                               *)

\* What holds of a document before and after any step.
Moves(a) == /\ IsTerminal(doc[a]) => doc'[a] = doc[a]
            /\ doc[a].status = "used" => doc'[a].status = "used"

LEMMA UsedFacts ==
  ASSUME NEW phase \in Phases, NEW h \in BOOLEAN
  PROVE  /\ Used(phase, h) \in Doc
         /\ Used(phase, h).status = "used"
         /\ Used(phase, h).phase = phase
         /\ Used(phase, h).handle = h
BY DEF Used, Doc

LEMMA DeniedFacts ==
  /\ Denied \in Doc /\ Denied.status = "denied" /\ Denied.phase = None
  /\ Pending \in Doc /\ Pending.status = "pending" /\ Pending.phase = None
BY DEF Denied, Pending, Doc

\* A document is written while it is pending or unsettled only.
Writes(a, d) == /\ doc' = [doc EXCEPT ![a] = d]
                /\ age' = [age EXCEPT ![a] = 0]
                /\ d \in Doc
                /\ d.status = "used" <=> d.phase # None
                /\ ~IsTerminal(doc[a])
                /\ doc[a].status = "used" => d.status = "used"

LEMMA DenyWrites ==
  ASSUME IInv, NEW p \in Posts, Deny(p)
  PROVE  post[p].on \in Approvals /\ Writes(post[p].on, Denied)
<1>1. post[p].on \in Approvals /\ doc[post[p].on].status = "pending"
  BY DEF IInv, OwnerOK, Deny, Taken, IsPending
<1>2. doc[post[p].on].phase = None
  BY <1>1 DEF IInv, TypeOK, DocShape, Doc
<1>3. ~IsTerminal(doc[post[p].on])
  BY <1>1, <1>2, NoneAssumption DEF IsTerminal, Terminal, Phases
<1> QED
  BY <1>1, <1>3, DeniedFacts DEF Writes, Deny, Record

LEMMA ClaimWrites ==
  ASSUME IInv, NEW p \in Posts, Claim(p)
  PROVE  /\ post[p].on \in Approvals /\ doc[post[p].on].status = "pending"
         /\ Writes(post[p].on, Used("claimed", FALSE))
<1>1. post[p].on \in Approvals /\ doc[post[p].on].status = "pending"
  BY DEF IInv, OwnerOK, Claim, Taken, IsPending
<1>2. doc[post[p].on].phase = None
  BY <1>1 DEF IInv, TypeOK, DocShape, Doc
<1>3. ~IsTerminal(doc[post[p].on])
  BY <1>1, <1>2, NoneAssumption DEF IsTerminal, Terminal, Phases
<1>4. "claimed" \in Phases /\ "claimed" # None
  BY NoneAssumption DEF Phases
<1> QED
  BY <1>1, <1>3, <1>4, UsedFacts DEF Writes, Claim, Record

LEMMA StartWrites ==
  ASSUME IInv, NEW p \in Posts, StartUpdate(p)
  PROVE  /\ slot = p /\ post[p].on \in Approvals
         /\ \/ Writes(post[p].on, Used("failed", FALSE)) /\ slot' = None
            \/ Writes(post[p].on, Used("outcome_unknown", FALSE)) /\ slot' = None
            \/ Writes(post[p].on, Used("applying", TRUE)) /\ UNCHANGED <<slot, post>>
<1>1. slot = p /\ post[p].on \in Approvals /\ doc[post[p].on].phase = "claimed"
  BY NoneAssumption DEF IInv, SlotOK, StartUpdate
<1>2. doc[post[p].on].status = "used" /\ ~IsTerminal(doc[post[p].on])
  BY <1>1, NoneAssumption DEF IInv, DocShape, IsTerminal, Terminal, Phases
<1>3. /\ {"failed", "outcome_unknown", "applying"} \subseteq Phases
      /\ None \notin {"failed", "outcome_unknown", "applying"}
  BY NoneAssumption DEF Phases
<1> QED
  BY <1>1, <1>2, <1>3, UsedFacts DEF Writes, StartUpdate, Record

LEMMA EndWrites ==
  ASSUME IInv, NEW p \in Posts, EndWait(p)
  PROVE  /\ slot = p /\ post[p].on \in Approvals /\ slot' = None
         /\ \/ Writes(post[p].on, Used("applied", TRUE))
            \/ Writes(post[p].on, Used("failed", TRUE))
            \/ Writes(post[p].on, Used("outcome_unknown", TRUE))
<1>1. slot = p /\ post[p].on \in Approvals /\ doc[post[p].on].phase = "applying"
  BY NoneAssumption DEF IInv, SlotOK, EndWait
<1>2. doc[post[p].on].status = "used" /\ ~IsTerminal(doc[post[p].on])
  BY <1>1, NoneAssumption DEF IInv, DocShape, IsTerminal, Terminal, Phases
<1>3. /\ {"applied", "failed", "outcome_unknown"} \subseteq Phases
      /\ None \notin {"applied", "failed", "outcome_unknown"}
  BY NoneAssumption DEF Phases
<1> QED
  BY <1>1, <1>2, <1>3, UsedFacts DEF Writes, EndWait, Record

LEMMA ReconcileWrites ==
  ASSUME IInv, NEW t \in Tabs, NEW a \in Approvals, Reconcile(t, a)
  PROVE  \/ UNCHANGED <<doc, age>>
         \/ Writes(a, Used("applied", TRUE))
         \/ Writes(a, Used("failed", TRUE))
<1>1. CASE UNCHANGED <<doc, age>>
  BY <1>1
<1>2. CASE /\ doc[a].phase \in Reconcilable
           /\ Record(a, Used(IF op[a] = "ok" THEN "applied" ELSE "failed", TRUE))
  <2>1. doc[a].status = "used" /\ ~IsTerminal(doc[a])
    BY <1>2, NoneAssumption
    DEF IInv, DocShape, Reconcilable, IsTerminal, Terminal, Phases
  <2>2. {"applied", "failed"} \subseteq Phases /\ None \notin {"applied", "failed"}
    BY NoneAssumption DEF Phases
  <2> QED
    BY <1>2, <2>1, <2>2, UsedFacts DEF Writes, Record
<1> QED
  BY <1>1, <1>2 DEF Reconcile

\* Any step writes one document, or none.
LEMMA OneWrite ==
  ASSUME IInv, [Next]_vars
  PROVE  doc' = doc \/ \E a \in Approvals, d \in Doc : Writes(a, d)
<1>1. CASE Quiet
  BY <1>1, QuietKeepsDocs
<1>2. ASSUME NEW p \in Posts, Deny(p) PROVE \E a \in Approvals, d \in Doc : Writes(a, d)
  BY <1>2, DenyWrites, DeniedFacts
<1>3. ASSUME NEW p \in Posts, Claim(p) PROVE \E a \in Approvals, d \in Doc : Writes(a, d)
  BY <1>3, ClaimWrites DEF Writes
<1>4. ASSUME NEW p \in Posts, StartUpdate(p)
      PROVE  \E a \in Approvals, d \in Doc : Writes(a, d)
  BY <1>4, StartWrites DEF Writes
<1>5. ASSUME NEW p \in Posts, EndWait(p) PROVE \E a \in Approvals, d \in Doc : Writes(a, d)
  BY <1>5, EndWrites DEF Writes
<1>6. ASSUME NEW t \in Tabs, NEW a \in Approvals, Reconcile(t, a)
      PROVE  doc' = doc \/ \E x \in Approvals, d \in Doc : Writes(x, d)
  BY <1>6, ReconcileWrites DEF Writes
<1> QED
  BY <1>1, <1>2, <1>3, <1>4, <1>5, <1>6, NextCases

LEMMA DocStep ==
  ASSUME IInv, [Next]_vars
  PROVE  /\ doc' \in [Approvals -> Doc]
         /\ DocShape'
         /\ \A a \in Approvals : Moves(a)
<1>0. doc \in [Approvals -> Doc] /\ DocShape
  BY DEF IInv, TypeOK
<1>1. CASE doc' = doc
  BY <1>0, <1>1 DEF DocShape, Moves
<1>2. ASSUME NEW a \in Approvals, NEW d \in Doc, Writes(a, d)
      PROVE  /\ doc' \in [Approvals -> Doc]
             /\ DocShape'
             /\ \A x \in Approvals : Moves(x)
  <2>1. doc' \in [Approvals -> Doc]
    BY <1>0, <1>2 DEF Writes
  <2>2. ASSUME NEW x \in Approvals
        PROVE  /\ doc'[x].status = "used" <=> doc'[x].phase # None
               /\ Moves(x)
    <3>1. CASE x = a
      BY <1>0, <1>2, <3>1 DEF Writes, Moves
    <3>2. CASE x # a
      BY <1>0, <1>2, <3>2 DEF Writes, Moves, DocShape
    <3> QED
      BY <3>1, <3>2
  <2> QED
    BY <2>1, <2>2 DEF DocShape
<1> QED
  BY <1>1, <1>2, OneWrite

-----------------------------------------------------------------------------
(* Initially                                                               *)

LEMMA InitInv ==
  ASSUME Init
  PROVE  IInv
<1>1. TypeOK
  <2>1. NoGet \in Gets
    BY WindowFacts DEF NoGet, Gets
  <2>2. NoPost \in PostStates
    BY DEF NoPost, PostStates, Answers, Pages
  <2> QED
    BY <2>1, <2>2, DeniedFacts DEF Init, TypeOK, Views
<1>2. DocShape
  BY DeniedFacts DEF Init, DocShape
<1>3. CacheOK /\ GetOK /\ ToldOK /\ ShownOK /\ SlotOK /\ AskOK
  BY DEF Init, CacheOK, GetOK, ToldOK, ShownOK, SlotOK, AskOK, NoGet
<1>4. OwnerOK
  BY DEF Init, OwnerOK, NoPost
<1> QED
  BY <1>1, <1>2, <1>3, <1>4 DEF IInv

-----------------------------------------------------------------------------
(* A row is served                                                         *)

\* What tab t may make of its row: a record that is no older than anything
\* it has told of the row, and the document itself if it is final.
Faithful(t, d) ==
  /\ d \in Doc
  /\ d.status = "used" <=> d.phase # None
  /\ IsTerminal(d) => d = doc[Row(t)]
  /\ d.status = "used" => doc[Row(t)].status = "used"
  /\ told[t][Row(t)] = "final" => IsTerminal(d)
  /\ told[t][Row(t)] = "spent" => d.status = "used"

LEMMA TheDocIsFaithful ==
  ASSUME IInv, NEW t \in Tabs, get[t].step # "idle"
  PROVE  Faithful(t, doc[Row(t)])
<1>1. Row(t) \in Approvals
  BY RowIsApproval DEF IInv
<1> QED
  BY <1>1 DEF IInv, TypeOK, DocShape, ToldOK, Faithful

LEMMA TheCacheIsFaithful ==
  ASSUME IInv, NEW t \in Tabs, get[t].step # "idle", settled[Row(t)] # None
  PROVE  Faithful(t, settled[Row(t)])
<1>1. Row(t) \in Approvals
  BY RowIsApproval DEF IInv
<1> QED
  BY <1>1, TheDocIsFaithful DEF IInv, CacheOK

LEMMA TheRecordIsFaithful ==
  ASSUME IInv, NEW t \in Tabs, get[t].step \in {"ask", "wait"}
  PROVE  Faithful(t, get[t].rec)
<1>1. /\ get[t].rec \in Doc
      /\ get[t].rec.status = "used" /\ get[t].rec.phase # None
      /\ ~IsTerminal(get[t].rec)
      /\ told[t][Row(t)] # "final" /\ doc[Row(t)].status = "used"
  BY DEF IInv, GetOK
<1> QED
  BY <1>1 DEF Faithful

LEMMA NextRowFacts ==
  ASSUME IInv, NEW t \in Tabs, get[t].step # "idle", NEW left \in Nat,
         NextRow(t, left)
  PROVE  /\ get' \in [Tabs -> Gets] /\ polled' \in BOOLEAN
         /\ \A u \in Tabs \ {t} : get'[u] = get[u]
         /\ get'[t].step # "idle" => get'[t].row \in 1 .. Len(Rows)
         /\ get'[t].step \in {"idle", "read"}
<1>1. get[t].row \in 1 .. Len(Rows) /\ Len(Rows) \in Nat \ {0}
  BY RowIsApproval, WindowFacts DEF IInv
<1>2. get \in [Tabs -> Gets] /\ polled \in BOOLEAN
  BY DEF IInv, TypeOK
<1>3. CASE get[t].row = Len(Rows)
  <2>1. NoGet \in Gets /\ NoGet.step = "idle"
    BY <1>1 DEF NoGet, Gets
  <2> QED
    BY <1>2, <1>3, <2>1 DEF NextRow
<1>4. CASE get[t].row # Len(Rows)
  <2> DEFINE g == [row |-> get[t].row + 1, budget |-> left, rec |-> None,
                   step |-> "read"]
  <2>1. g \in Gets /\ g.row \in 1 .. Len(Rows) /\ g.step = "read"
    BY <1>1, <1>4 DEF Gets
  <2>2. get' = [get EXCEPT ![t] = g] /\ UNCHANGED polled
    BY <1>4 DEF NextRow
  <2> HIDE DEF g
  <2> QED
    BY <1>2, <2>1, <2>2
<1> QED
  BY <1>3, <1>4

\* Telling d keeps what ToldOK says and takes nothing back.
LEMMA JoinedFacts ==
  ASSUME IInv, NEW t \in Tabs, get[t].step # "idle", NEW d, Faithful(t, d),
         Joined(t, d), doc' = doc
  PROVE  /\ told' \in [Tabs -> [Approvals -> Views]]
         /\ ToldOK'
         /\ \A u \in Tabs \ {t} : told'[u] = told[u]
         /\ \A u \in Tabs, a \in Approvals :
              /\ told[u][a] = "final" => told'[u][a] = "final"
              /\ told[u][a] = "spent" => told'[u][a] # "offered"
<1>1. Row(t) \in Approvals
  BY RowIsApproval DEF IInv
<1>2. told \in [Tabs -> [Approvals -> Views]] /\ ToldOK
  BY DEF IInv, TypeOK
<1>3. told' = [told EXCEPT ![t][Row(t)] = View(d)]
  BY DEF Joined
<1>4. d \in Doc /\ d # None
  BY NoneAssumption DEF Faithful
<1>5. d.status = "pending" => ~IsTerminal(d)
  BY NoneAssumption DEF Faithful, IsTerminal, Terminal, Phases
<1>6. /\ View(d) \in Views
      /\ View(d) = "final" <=> IsTerminal(d)
      /\ View(d) = "offered" <=> d.status = "pending"
      /\ View(d) = "spent" => d.status = "used"
  BY <1>4, <1>5 DEF View, Views, Doc, IsTerminal
<1>7. told' \in [Tabs -> [Approvals -> Views]]
  BY <1>1, <1>2, <1>3, <1>6
<1>8. /\ \A u \in Tabs \ {t} : told'[u] = told[u]
      /\ \A a \in Approvals \ {Row(t)} : told'[t][a] = told[t][a]
      /\ told'[t][Row(t)] = View(d)
  BY <1>1, <1>2, <1>3
<1>9. /\ View(d) = "final" => IsTerminal(doc[Row(t)])
      /\ View(d) = "spent" => doc[Row(t)].status = "used"
      /\ told[t][Row(t)] = "final" => View(d) = "final"
      /\ told[t][Row(t)] = "spent" => View(d) # "offered"
  BY <1>6 DEF Faithful
<1>10. ToldOK'
  <2> SUFFICES ASSUME NEW u \in Tabs, NEW a \in Approvals
               PROVE  /\ told'[u][a] = "final" => IsTerminal(doc[a])
                      /\ told'[u][a] = "spent" => doc[a].status = "used"
    BY DEF ToldOK, IsTerminal
  <2> QED
    BY <1>2, <1>8, <1>9 DEF ToldOK
<1> QED
  BY <1>7, <1>8, <1>9, <1>10

\* A served row leaves the tab, what it has told and the cache in order.
LEMMA ServeFacts ==
  ASSUME IInv, NEW t \in Tabs, get[t].step # "idle", NEW d, Faithful(t, d),
         Serve(t, d), doc' = doc
  PROVE  /\ get' \in [Tabs -> Gets] /\ polled' \in BOOLEAN
         /\ settled' \in [Approvals -> Doc \cup {None}]
         /\ CacheOK'
         /\ told' \in [Tabs -> [Approvals -> Views]]
         /\ ToldOK'
         /\ \A u \in Tabs \ {t} : get'[u] = get[u] /\ told'[u] = told[u]
         /\ get'[t].step # "idle" => get'[t].row \in 1 .. Len(Rows)
         /\ get'[t].step \in {"idle", "read"}
         /\ \A u \in Tabs, a \in Approvals :
              /\ told[u][a] = "final" => told'[u][a] = "final"
              /\ told[u][a] = "spent" => told'[u][a] # "offered"
<1>1. Row(t) \in Approvals
  BY RowIsApproval DEF IInv
<1>2. get[t].budget \in Nat
  BY DEF IInv, TypeOK, Gets
<1>3. /\ settled' \in [Approvals -> Doc \cup {None}]
      /\ CacheOK'
  <2>1. settled \in [Approvals -> Doc \cup {None}] /\ CacheOK
    BY DEF IInv, TypeOK
  <2>2. d \in Doc /\ (IsTerminal(d) => d = doc[Row(t)])
    BY DEF Faithful
  <2>3. settled' \in [Approvals -> Doc \cup {None}]
    BY <1>1, <2>1, <2>2 DEF Serve
  <2>4. ASSUME NEW a \in Approvals, settled'[a] # None
        PROVE  settled'[a] = doc[a] /\ IsTerminal(doc[a])
    BY <1>1, <2>1, <2>2, <2>4 DEF Serve, CacheOK
  <2> QED
    BY <2>3, <2>4 DEF CacheOK, IsTerminal
<1> QED
  BY <1>2, <1>3, JoinedFacts, NextRowFacts DEF Serve

-----------------------------------------------------------------------------
(* The tabs                                                                *)

\* What a step of a tab leaves alone, and what it leaves in order.
TabKeeps ==
  /\ UNCHANGED <<worker, post, owner>>
  /\ get' \in [Tabs -> Gets] /\ polled' \in BOOLEAN
  /\ settled' \in [Approvals -> Doc \cup {None}]
  /\ told' \in [Tabs -> [Approvals -> Views]]
  /\ CacheOK' /\ GetOK' /\ ToldOK' /\ AskOK'
  /\ \A u \in Tabs, a \in Approvals :
       /\ told[u][a] = "final" => told'[u][a] = "final"
       /\ told[u][a] = "spent" => told'[u][a] # "offered"

LEMMA QuietTab ==
  ASSUME IInv, UNCHANGED <<worker, post, owner, settled, told>>,
         NEW t \in Tabs, get' \in [Tabs -> Gets], polled' \in BOOLEAN,
         \A u \in Tabs \ {t} : get'[u] = get[u],
         get'[t].step # "idle" => get'[t].row \in 1 .. Len(Rows),
         get'[t].step \in {"idle", "read"}
  PROVE  TabKeeps
<1>1. GetOK'
  <2>1. ASSUME NEW u \in Tabs \ {t}
        PROVE  /\ get'[u].step # "idle" => get'[u].row \in 1 .. Len(Rows)
               /\ get'[u].step \in {"ask", "wait"} =>
                    /\ get'[u].rec \in Doc
                    /\ get'[u].rec.status = "used" /\ get'[u].rec.phase # None
                    /\ ~IsTerminal(get'[u].rec)
                    /\ told'[u][Rows[get'[u].row]] # "final"
                    /\ doc'[Rows[get'[u].row]].status = "used"
    BY <2>1 DEF IInv, GetOK, Row, worker
  <2> QED
    BY <2>1 DEF GetOK, Row, IsTerminal
<1>2. AskOK'
  BY DEF IInv, AskOK, Row, worker
<1>3. CacheOK' /\ ToldOK'
  BY DEF IInv, CacheOK, ToldOK, IsTerminal, worker
<1> QED
  BY <1>1, <1>2, <1>3 DEF TabKeeps, IInv, TypeOK

LEMMA ServeTab ==
  ASSUME IInv, NEW t \in Tabs, get[t].step # "idle", NEW d, Faithful(t, d),
         Serve(t, d), UNCHANGED <<worker, post, owner>>
  PROVE  TabKeeps
<1>0. doc' = doc
  BY DEF worker
<1>1. /\ get' \in [Tabs -> Gets] /\ polled' \in BOOLEAN
      /\ settled' \in [Approvals -> Doc \cup {None}]
      /\ CacheOK'
      /\ told' \in [Tabs -> [Approvals -> Views]]
      /\ ToldOK'
      /\ \A u \in Tabs \ {t} : get'[u] = get[u] /\ told'[u] = told[u]
      /\ get'[t].step # "idle" => get'[t].row \in 1 .. Len(Rows)
      /\ get'[t].step \in {"idle", "read"}
      /\ \A u \in Tabs, a \in Approvals :
           /\ told[u][a] = "final" => told'[u][a] = "final"
           /\ told[u][a] = "spent" => told'[u][a] # "offered"
  BY <1>0, ServeFacts
<1>2. GetOK'
  <2>1. ASSUME NEW u \in Tabs \ {t}
        PROVE  /\ get'[u].step # "idle" => get'[u].row \in 1 .. Len(Rows)
               /\ get'[u].step \in {"ask", "wait"} =>
                    /\ get'[u].rec \in Doc
                    /\ get'[u].rec.status = "used" /\ get'[u].rec.phase # None
                    /\ ~IsTerminal(get'[u].rec)
                    /\ told'[u][Rows[get'[u].row]] # "final"
                    /\ doc'[Rows[get'[u].row]].status = "used"
    BY <1>0, <1>1, <2>1 DEF IInv, GetOK, Row
  <2> QED
    BY <1>1, <2>1 DEF GetOK, Row, IsTerminal
<1>3. AskOK'
  BY <1>1 DEF IInv, AskOK, Row, worker
<1> QED
  BY <1>1, <1>2, <1>3 DEF TabKeeps

LEMMA StartGetStep ==
  ASSUME IInv, NEW t \in Tabs, StartGet(t)
  PROVE  TabKeeps
<1> DEFINE g == [row |-> 1, budget |-> Budget, rec |-> None, step |-> "read"]
<1>1. g \in Gets /\ g.row \in 1 .. Len(Rows) /\ g.step = "read"
  BY WindowFacts, ClockAssumption DEF Gets
<1>2. /\ get' = [get EXCEPT ![t] = g]
      /\ UNCHANGED <<worker, post, owner, settled, told, polled>>
  BY DEF StartGet, caches
<1>3. get \in [Tabs -> Gets] /\ polled \in BOOLEAN
  BY DEF IInv, TypeOK
<1> HIDE DEF g
<1>4. /\ get' \in [Tabs -> Gets] /\ polled' \in BOOLEAN
      /\ \A u \in Tabs \ {t} : get'[u] = get[u]
      /\ get'[t] = g
  BY <1>1, <1>2, <1>3
<1> QED
  BY <1>1, <1>2, <1>4, QuietTab

\* A row goes on to its brakes, or to the worker.
LEMMA OnwardTab ==
  ASSUME IInv, UNCHANGED <<worker, post, owner, settled, told, polled>>,
         NEW t \in Tabs, get[t].step # "idle", NEW g \in Gets,
         get' = [get EXCEPT ![t] = g],
         g.row = get[t].row, g.step \in {"ask", "wait"},
         g.rec \in Doc, g.rec.status = "used", g.rec.phase # None,
         ~IsTerminal(g.rec), told[t][Row(t)] # "final",
         doc[Row(t)].status = "used",
         g.step = "ask" /\ slot # None => post[slot].on # Row(t)
  PROVE  TabKeeps
<1>1. get \in [Tabs -> Gets] /\ polled \in BOOLEAN
  BY DEF IInv, TypeOK
<1>2. /\ get' \in [Tabs -> Gets] /\ polled' \in BOOLEAN
      /\ \A u \in Tabs \ {t} : get'[u] = get[u]
      /\ get'[t] = g
  BY <1>1
<1>3. get[t].row \in 1 .. Len(Rows)
  BY RowIsApproval DEF IInv
<1>4. GetOK'
  <2>1. ASSUME NEW u \in Tabs
        PROVE  /\ get'[u].step # "idle" => get'[u].row \in 1 .. Len(Rows)
               /\ get'[u].step \in {"ask", "wait"} =>
                    /\ get'[u].rec \in Doc
                    /\ get'[u].rec.status = "used" /\ get'[u].rec.phase # None
                    /\ ~IsTerminal(get'[u].rec)
                    /\ told'[u][Rows[get'[u].row]] # "final"
                    /\ doc'[Rows[get'[u].row]].status = "used"
    <3>1. CASE u = t
      BY <1>2, <1>3, <3>1 DEF Row, worker
    <3>2. CASE u # t
      BY <1>2, <3>2 DEF IInv, GetOK, Row, worker
    <3> QED
      BY <3>1, <3>2
  <2> QED
    BY <2>1 DEF GetOK, Row, IsTerminal
<1>5. AskOK'
  <2>1. ASSUME NEW u \in Tabs, get'[u].step = "ask", slot # None
        PROVE  post[slot].on # Rows[get'[u].row]
    <3>1. CASE u = t
      BY <1>2, <2>1, <3>1 DEF Row
    <3>2. CASE u # t
      BY <1>2, <2>1, <3>2 DEF IInv, AskOK, Row
    <3> QED
      BY <3>1, <3>2
  <2> QED
    BY <2>1 DEF AskOK, Row, worker
<1>6. CacheOK' /\ ToldOK'
  BY DEF IInv, CacheOK, ToldOK, IsTerminal, worker
<1> QED
  BY <1>2, <1>4, <1>5, <1>6 DEF TabKeeps, IInv, TypeOK

LEMMA EligibleFacts ==
  ASSUME IInv, NEW a \in Approvals, Eligible(a)
  PROVE  /\ doc[a] \in Doc /\ doc[a].status = "used" /\ doc[a].phase # None
         /\ ~IsTerminal(doc[a])
         /\ slot # None => post[slot].on # a
<1>1. doc[a] \in Doc /\ age[a] \in Nat /\ doc[a].phase \in Reconcilable
  BY DEF IInv, TypeOK, Eligible
<1>2. doc[a].phase # None /\ doc[a].status = "used"
  BY <1>1, NoneAssumption DEF IInv, DocShape, Reconcilable, Phases
<1>3. ~IsTerminal(doc[a])
  BY <1>1, <1>2 DEF IsTerminal, Terminal, Reconcilable
<1>4. ASSUME slot # None, post[slot].on = a PROVE FALSE
  <2>1. doc[a].phase = "applying" /\ age[a] <= ExecuteCap
    BY <1>1, <1>4 DEF IInv, SlotOK, Reconcilable
  <2> QED
    BY <1>1, <2>1, ClockAssumption DEF Eligible
<1> QED
  BY <1>1, <1>2, <1>3, <1>4

LEMMA ReadRowStep ==
  ASSUME IInv, NEW t \in Tabs, ReadRow(t)
  PROVE  TabKeeps
<1>1. get[t].step = "read" /\ UNCHANGED <<worker, post, owner>>
  BY DEF ReadRow
<1>2. Row(t) \in Approvals /\ get[t].row \in 1 .. Len(Rows)
  BY <1>1, RowIsApproval DEF IInv
<1>3. CASE settled[Row(t)] # None /\ Serve(t, settled[Row(t)])
  BY <1>1, <1>3, TheCacheIsFaithful, ServeTab
<1>4. CASE Serve(t, doc[Row(t)])
  BY <1>1, <1>4, TheDocIsFaithful, ServeTab
<1>5. CASE /\ Eligible(Row(t))
           /\ get' = [get EXCEPT ![t].rec = doc[Row(t)], ![t].step = "ask"]
           /\ UNCHANGED <<told, settled, polled, faults>>
  <2> DEFINE g == [get[t] EXCEPT !.rec = doc[Row(t)], !.step = "ask"]
  <2>1. get[t] \in Gets /\ get' = [get EXCEPT ![t] = g]
    BY <1>5 DEF IInv, TypeOK
  <2>2. /\ doc[Row(t)] \in Doc /\ doc[Row(t)].status = "used"
        /\ doc[Row(t)].phase # None /\ ~IsTerminal(doc[Row(t)])
        /\ slot # None => post[slot].on # Row(t)
    BY <1>2, <1>5, EligibleFacts
  <2>3. /\ g \in Gets /\ g.row = get[t].row /\ g.step = "ask"
        /\ g.rec = doc[Row(t)]
    BY <2>1, <2>2 DEF Gets
  <2>4. told[t][Row(t)] # "final"
    BY <1>2, <2>2 DEF IInv, ToldOK
  <2> HIDE DEF g
  <2> QED
    BY <1>1, <1>5, <2>1, <2>2, <2>3, <2>4, OnwardTab
<1>6. CASE /\ RowUnavailable(t) /\ NextRow(t, get[t].budget)
           /\ UNCHANGED settled
  <2>1. get[t].budget \in Nat
    BY DEF IInv, TypeOK, Gets
  <2>2. /\ get' \in [Tabs -> Gets] /\ polled' \in BOOLEAN
        /\ \A u \in Tabs \ {t} : get'[u] = get[u]
        /\ get'[t].step # "idle" => get'[t].row \in 1 .. Len(Rows)
        /\ get'[t].step \in {"idle", "read"}
    BY <1>1, <1>6, <2>1, NextRowFacts
  <2>3. UNCHANGED <<worker, post, owner, settled, told>>
    BY <1>1, <1>6 DEF RowUnavailable
  <2> QED
    BY <2>2, <2>3, QuietTab
<1> QED
  BY <1>1, <1>3, <1>4, <1>5, <1>6 DEF ReadRow

LEMMA AskWorkerStep ==
  ASSUME IInv, NEW t \in Tabs, AskWorker(t)
  PROVE  TabKeeps
<1>1. get[t].step = "ask" /\ UNCHANGED <<worker, post, owner>>
  BY DEF AskWorker
<1>2. CASE PassOver(t)
  BY <1>1, <1>2, TheRecordIsFaithful, ServeTab DEF PassOver
<1>3. CASE /\ ~(CoolingDown(Row(t)) \/ get[t].budget = 0)
           /\ get' = [get EXCEPT ![t].budget = @ - 1, ![t].step = "wait"]
           /\ UNCHANGED <<told, settled, polled>>
  <2> DEFINE g == [get[t] EXCEPT !.budget = @ - 1, !.step = "wait"]
  <2>1. get[t] \in Gets /\ get' = [get EXCEPT ![t] = g]
    BY <1>3 DEF IInv, TypeOK
  <2>2. /\ g \in Gets /\ g.row = get[t].row /\ g.step = "wait"
        /\ g.rec = get[t].rec
    <3>1. get[t].budget \in Nat /\ get[t].budget # 0
      BY <1>3, <2>1 DEF Gets
    <3>2. get[t].budget - 1 \in Nat
      BY <3>1
    <3> QED
      BY <2>1, <3>2 DEF Gets
  <2>3. /\ get[t].rec \in Doc
        /\ get[t].rec.status = "used" /\ get[t].rec.phase # None
        /\ ~IsTerminal(get[t].rec)
        /\ told[t][Row(t)] # "final" /\ doc[Row(t)].status = "used"
    BY <1>1 DEF IInv, GetOK
  <2> HIDE DEF g
  <2>4. UNCHANGED <<worker, post, owner, settled, told, polled>>
    BY <1>1, <1>3
  <2>5. get[t].step # "idle" /\ g.step # "ask" /\ g.step \in {"ask", "wait"}
    BY <1>1, <2>2
  <2>6. /\ g.rec \in Doc
        /\ g.rec.status = "used" /\ g.rec.phase # None /\ ~IsTerminal(g.rec)
    BY <2>2, <2>3
  <2> QED
    BY <2>1, <2>2, <2>3, <2>4, <2>5, <2>6, OnwardTab
<1> QED
  BY <1>2, <1>3 DEF AskWorker

LEMMA AfterAskStep ==
  ASSUME IInv, NEW t \in Tabs, AfterAsk(t)
  PROVE  TabKeeps
<1>1. get[t].step = "wait" /\ UNCHANGED <<worker, post, owner>>
  BY DEF AfterAsk
<1> QED
  BY <1>1, TheDocIsFaithful, TheRecordIsFaithful, ServeTab DEF AfterAsk

LEMMA TabStepKeeps ==
  ASSUME IInv, NEW t \in Tabs, TabStep(t)
  PROVE  TabKeeps
BY StartGetStep, ReadRowStep, AskWorkerStep, AfterAskStep DEF TabStep

-----------------------------------------------------------------------------
(* The POSTs                                                               *)

\* A POST keeps what it is about and the phase it saw.
PostsKeep ==
  /\ post' \in [Posts -> PostStates]
  /\ \A p \in Posts :
       /\ post[p].on # None => post'[p].on = post[p].on
       /\ post[p].call = "running" /\ post'[p].call # "running" => slot' = None
       /\ post'[p] # NoPost => post'[p].on \in Approvals
       /\ post'[p].call # "none" => post'[p].on \in Approvals
       /\ post'[p].answer # "none" => post'[p].on \in Approvals
       /\ post'[p].before # None =>
            /\ post'[p].on \in Approvals
            /\ \/ post'[p].before = post[p].before /\ post[p].on # None
               \/ /\ post[p] = NoPost
                  /\ doc[post'[p].on].status = "used"

LEMMA PutKeeps ==
  ASSUME IInv, NEW p \in Posts, NEW r \in PostStates, Put(p, r),
         post[p].on \in Approvals => r.on = post[p].on,
         post[p].call = "running" /\ r.call # "running" => slot' = None,
         r.on \in Approvals,
         r.before # None =>
              \/ r.before = post[p].before /\ post[p].on # None
              \/ post[p] = NoPost /\ doc[r.on].status = "used"
  PROVE  PostsKeep
<1>1. post \in [Posts -> PostStates]
  BY DEF IInv, TypeOK
<1>2. post' = [post EXCEPT ![p] = r]
  BY DEF Put
<1>3. post' \in [Posts -> PostStates]
  BY <1>1, <1>2
<1>4. ASSUME NEW q \in Posts
      PROVE  /\ post[q].on # None => post'[q].on = post[q].on
             /\ post[q].call = "running" /\ post'[q].call # "running" => slot' = None
             /\ post'[q] # NoPost => post'[q].on \in Approvals
             /\ post'[q].call # "none" => post'[q].on \in Approvals
             /\ post'[q].answer # "none" => post'[q].on \in Approvals
             /\ post'[q].before # None =>
                  /\ post'[q].on \in Approvals
                  /\ \/ post'[q].before = post[q].before /\ post[q].on # None
                     \/ /\ post[q] = NoPost
                        /\ doc[post'[q].on].status = "used"
  <2>1. post[q] \in PostStates /\ post[q].on \in Approvals \cup {None}
    BY <1>1 DEF PostStates
  <2>2. CASE q = p
    BY <1>1, <1>2, <2>1, <2>2
  <2>3. CASE q # p
    BY <1>1, <1>2, <2>1, <2>3, NoneAssumption DEF IInv, OwnerOK
  <2> QED
    BY <2>2, <2>3
<1> QED
  BY <1>3, <1>4 DEF PostsKeep

LEMMA SamePosts ==
  ASSUME IInv, post' = post
  PROVE  PostsKeep
<1>1. post \in [Posts -> PostStates]
  BY DEF IInv, TypeOK
<1>2. ASSUME NEW p \in Posts, post[p].before # None
      PROVE  post[p].on \in Approvals /\ post[p].on # None
  BY <1>2, NoneAssumption DEF IInv, OwnerOK
<1> QED
  BY <1>1, <1>2 DEF PostsKeep, IInv, OwnerOK

LEMMA ReplyKeeps ==
  ASSUME IInv, NEW p \in Posts, post[p].call # "none", NEW r \in Answers,
         Reply(p, r), post[p].call = "running" => slot' = None
  PROVE  PostsKeep
<1> DEFINE s == [post[p] EXCEPT !.call = "over",
                                !.answer = IF Waiting(p) THEN r ELSE @]
<1>1. post[p] \in PostStates /\ post[p].on \in Approvals
  BY DEF IInv, TypeOK, OwnerOK
<1>2. /\ s \in PostStates /\ s.on = post[p].on /\ s.call = "over"
      /\ s.before = post[p].before
  BY <1>1 DEF PostStates
<1>3. Put(p, s)
  BY DEF Reply
<1> HIDE DEF s
<1> QED
  BY <1>1, <1>2, <1>3, NoneAssumption, PutKeeps

LEMMA ShowKeeps ==
  ASSUME IInv, NEW p \in Posts, post[p].answer # "none", NEW page \in Pages,
         Show(p, page)
  PROVE  PostsKeep
<1> DEFINE s == [post[p] EXCEPT !.page = page, !.before = None]
<1>1. post[p] \in PostStates /\ post[p].on \in Approvals
  BY DEF IInv, TypeOK, OwnerOK
<1>2. /\ s \in PostStates /\ s.on = post[p].on /\ s.call = post[p].call
      /\ s.before = None
  BY <1>1 DEF PostStates
<1>3. Put(p, s)
  BY DEF Show
<1> HIDE DEF s
<1> QED
  BY <1>1, <1>2, <1>3, PutKeeps

LEMMA SentKeeps ==
  ASSUME IInv, NEW p \in Posts, post[p] = NoPost, NEW a \in Approvals,
         NEW decision \in {"approve", "reject"},
         NEW before \in Phases \cup {None},
         before # None => doc[a].status = "used",
         Put(p, Sent(a, decision, before))
  PROVE  PostsKeep
<1>1. /\ Sent(a, decision, before) \in PostStates
      /\ Sent(a, decision, before).on = a
      /\ Sent(a, decision, before).call = "queued"
      /\ Sent(a, decision, before).before = before
  BY DEF Sent, NoPost, PostStates, Answers, Pages
<1>2. post[p].on = None /\ post[p].call = "none"
  BY DEF NoPost
<1> QED
  BY <1>1, <1>2, NoneAssumption, PutKeeps

LEMMA PostStepKeeps ==
  ASSUME IInv, NEW p \in Posts, PostStep(p)
  PROVE  PostsKeep
<1>1. ASSUME NEW a \in Approvals, Approve(p, a) PROVE PostsKeep
  <2>1. post[p] = NoPost
    BY <1>1 DEF Approve
  <2>2. doc[a].phase \in Phases \cup {None}
        /\ (doc[a].phase # None => doc[a].status = "used")
    BY DEF IInv, TypeOK, DocShape, Doc
  <2>3. CASE Put(p, Sent(a, "approve", doc[a].phase))
    BY <2>1, <2>2, <2>3, SentKeeps
  <2>4. CASE Put(p, Sent(a, "approve", None))
    BY <2>1, <2>4, SentKeeps
  <2> QED
    BY <1>1, <2>3, <2>4 DEF Approve
<1>2. ASSUME NEW a \in Approvals, Reject(p, a) PROVE PostsKeep
  BY <1>2, SentKeeps DEF Reject
<1>3. CASE GiveUp(p)
  <2> DEFINE s == [post[p] EXCEPT !.answer = "5xx"]
  <2>1. post[p] \in PostStates /\ post[p] # NoPost
    BY <1>3 DEF IInv, TypeOK, GiveUp, Waiting
  <2>2. /\ s \in PostStates /\ s.on = post[p].on /\ s.call = post[p].call
        /\ s.before = post[p].before
    BY <2>1 DEF PostStates, Answers
  <2>3. Put(p, s)
    BY <1>3 DEF GiveUp
  <2> HIDE DEF s
  <2>4. post[p].on \in Approvals
    BY <2>1 DEF IInv, OwnerOK
  <2> QED
    BY <2>2, <2>3, <2>4, NoneAssumption, PutKeeps
<1>4. CASE Respond(p)
  <2>1. post[p].answer # "none"
    BY <1>4 DEF Respond
  <2>2. \E page \in Pages : Show(p, page)
    BY <1>4 DEF Respond, ErrorPage, Pages
  <2> QED
    BY <2>1, <2>2, ShowKeeps
<1> QED
  BY <1>1, <1>2, <1>3, <1>4 DEF PostStep

LEMMA RestartKeepsPosts ==
  ASSUME IInv, Restart
  PROVE  PostsKeep
<1> DEFINE s(p) == IF post[p] = NoPost \/ post[p].page # "none" THEN post[p]
                   ELSE [post[p] EXCEPT !.page = "lost", !.before = None,
                           !.answer = IF @ = "none" THEN "5xx" ELSE @]
<1>1. post \in [Posts -> PostStates]
  BY DEF IInv, TypeOK
<1>2. post' = [p \in Posts |-> s(p)]
  BY DEF Restart
<1>3. ASSUME NEW p \in Posts
      PROVE  /\ s(p) \in PostStates
             /\ s(p).on = post[p].on /\ s(p).call = post[p].call
             /\ s(p) # NoPost => post[p] # NoPost
             /\ s(p).before # None => s(p) = post[p]
  BY <1>1 DEF PostStates, Answers, Pages
<1> HIDE DEF s
<1>4. \A p \in Posts : post'[p] = s(p)
  BY <1>2
<1>5. post' \in [Posts -> PostStates]
  BY <1>2, <1>3
<1>6. ASSUME NEW p \in Posts
      PROVE  /\ post[p].on # None => post'[p].on = post[p].on
             /\ post'[p].call = post[p].call
             /\ post'[p] # NoPost => post'[p].on \in Approvals
             /\ post'[p].call # "none" => post'[p].on \in Approvals
             /\ post'[p].answer # "none" => post'[p].on \in Approvals
             /\ post'[p].before # None =>
                  /\ post'[p].on \in Approvals
                  /\ post'[p].before = post[p].before /\ post[p].on # None
  <2>1. post[p] # NoPost => post[p].on \in Approvals
    BY DEF IInv, OwnerOK
  <2>2. post[p].before # None => post[p] # NoPost
    BY DEF NoPost
  <2>3. post'[p].answer # "none" => post'[p] # NoPost
    BY DEF NoPost
  <2>4. post'[p].call # "none" => post'[p] # NoPost
    BY DEF NoPost
  <2> QED
    BY <1>3, <1>4, <2>1, <2>2, <2>3, <2>4, NoneAssumption
<1> QED
  BY <1>5, <1>6 DEF PostsKeep

-----------------------------------------------------------------------------
(* The worker, the restart and the clock                                   *)

LEMMA DeskStill ==
  ASSUME IInv, UNCHANGED <<settled, get, told>>, \A a \in Approvals : Moves(a)
  PROVE  CacheOK' /\ GetOK' /\ ToldOK'
<1>1. CacheOK'
  BY DEF IInv, CacheOK, Moves, IsTerminal
<1>2. GetOK'
  <2>1. ASSUME NEW t \in Tabs
        PROVE  /\ get[t].step # "idle" => get[t].row \in 1 .. Len(Rows)
               /\ get[t].step \in {"ask", "wait"} =>
                    /\ get[t].rec \in Doc
                    /\ get[t].rec.status = "used" /\ get[t].rec.phase # None
                    /\ ~IsTerminal(get[t].rec)
                    /\ told[t][Row(t)] # "final"
                    /\ doc'[Row(t)].status = "used"
    <3>1. get[t].step # "idle" => Row(t) \in Approvals
      BY RowIsApproval DEF IInv
    <3> QED
      BY <3>1 DEF IInv, GetOK, Moves
  <2> QED
    BY <2>1 DEF GetOK, Row, IsTerminal
<1>3. ToldOK'
  BY DEF IInv, ToldOK, Moves, IsTerminal
<1> QED
  BY <1>1, <1>2, <1>3

LEMMA OwnersStand ==
  ASSUME IInv, PostsKeep, \A a \in Approvals : Moves(a), owner' = owner
  PROVE  OwnerOK'
<1>0. owner \in [Approvals -> Posts \cup {None}] /\ OwnerOK
  BY DEF IInv, TypeOK
<1>1. ASSUME NEW a \in Approvals, owner[a] # None
      PROVE  doc'[a].status = "used" /\ post'[owner[a]].on = a
  <2>1. /\ owner[a] \in Posts /\ doc[a].status = "used"
        /\ post[owner[a]].on = a /\ a # None
    BY <1>0, <1>1, NoneAssumption DEF OwnerOK
  <2> QED
    BY <2>1 DEF PostsKeep, Moves
<1>2. ASSUME NEW p \in Posts, post'[p].before # None
      PROVE  /\ post'[p].on \in Approvals
             /\ doc'[post'[p].on].status = "used"
             /\ owner[post'[p].on] # p
  <2>1. CASE post'[p].before = post[p].before /\ post[p].on # None
    BY <1>0, <1>2, <2>1 DEF OwnerOK, PostsKeep, Moves
  <2>2. CASE post[p] = NoPost /\ doc[post'[p].on].status = "used"
    <3>1. post'[p].on \in Approvals
      BY <1>2 DEF PostsKeep
    <3>2. owner[post'[p].on] = p => FALSE
      BY <1>0, <3>1, <2>2, NoneAssumption DEF OwnerOK, NoPost
    <3> QED
      BY <2>2, <3>1, <3>2 DEF Moves
  <2> QED
    BY <1>2, <2>1, <2>2 DEF PostsKeep
<1> QED
  BY <1>1, <1>2 DEF OwnerOK, PostsKeep

LEMMA FreeSlot ==
  ASSUME slot' = None
  PROVE  SlotOK' /\ AskOK'
BY DEF SlotOK, AskOK

\* Whoever holds the worker goes on holding it.
LEMMA SlotStands ==
  ASSUME IInv, PostsKeep, UNCHANGED <<doc, age, slot>>,
         \A t \in Tabs : get'[t].step = "ask" => get'[t] = get[t]
  PROVE  SlotOK' /\ AskOK'
<1>1. CASE slot = None
  BY <1>1, FreeSlot
<1>2. CASE slot # None
  <2>1. slot \in Posts /\ post[slot].on \in Approvals /\ post[slot].call = "running"
    BY <1>2 DEF IInv, TypeOK, SlotOK
  <2>2. post'[slot].on = post[slot].on /\ post'[slot].call = "running"
    BY <1>2, <2>1, NoneAssumption DEF PostsKeep
  <2>3. SlotOK'
    BY <2>1, <2>2 DEF IInv, SlotOK
  <2>4. AskOK'
    BY <2>2 DEF IInv, AskOK, Row
  <2> QED
    BY <2>3, <2>4
<1> QED
  BY <1>1, <1>2

\* What a step must keep in order besides the documents and the types.
Rest == CacheOK /\ GetOK /\ ToldOK /\ SlotOK /\ AskOK /\ OwnerOK

LEMMA TabRest ==
  ASSUME IInv, [Next]_vars, NEW t \in Tabs, TabStep(t)
  PROVE  Rest' /\ PostsKeep
<1>1. TabKeeps
  BY TabStepKeeps
<1>2. PostsKeep
  BY <1>1, SamePosts DEF TabKeeps
<1>3. SlotOK' /\ OwnerOK'
  BY <1>1 DEF IInv, SlotOK, OwnerOK, TabKeeps, worker
<1> QED
  BY <1>1, <1>2, <1>3 DEF TabKeeps, Rest

LEMMA PostRest ==
  ASSUME IInv, [Next]_vars, NEW p \in Posts, PostStep(p)
  PROVE  Rest' /\ PostsKeep
<1>1. PostsKeep
  BY PostStepKeeps
<1>2. UNCHANGED <<worker, desk, owner>>
  BY DEF PostStep, Approve, Reject, GiveUp, Respond
<1>3. UNCHANGED <<doc, age, slot, get, told, settled, owner>>
  BY <1>2 DEF worker, desk, caches
<1> QED
  BY <1>1, <1>3, DocStep, DeskStill, OwnersStand, SlotStands DEF Rest

LEMMA RefuseRest ==
  ASSUME IInv, [Next]_vars, NEW p \in Posts, Refuse(p)
  PROVE  Rest' /\ PostsKeep
<1>1. slot' = None /\ UNCHANGED <<settled, get, told, owner>>
  BY DEF Refuse, Taken, worker, desk, caches
<1>2. \E r \in Answers : Reply(p, r)
  BY DEF Refuse, Answers
<1>3. post[p].call = "queued"
  BY DEF Refuse, Taken
<1> QED
  BY <1>1, <1>2, <1>3, ReplyKeeps, DocStep, DeskStill, OwnersStand, FreeSlot
  DEF Rest

LEMMA DenyRest ==
  ASSUME IInv, [Next]_vars, NEW p \in Posts, Deny(p)
  PROVE  Rest' /\ PostsKeep
<1>1. slot' = None /\ UNCHANGED <<settled, get, told, owner>>
  BY DEF Deny, Taken, desk, caches
<1>2. \E r \in Answers : Reply(p, r)
  BY DEF Deny, Answers
<1>3. post[p].call = "queued"
  BY DEF Deny, Taken
<1> QED
  BY <1>1, <1>2, <1>3, ReplyKeeps, DocStep, DeskStill, OwnersStand, FreeSlot
  DEF Rest

\* The one step that takes the worker: nobody is about to ask about a
\* document that is still pending.
LEMMA ClaimRest ==
  ASSUME IInv, [Next]_vars, NEW p \in Posts, Claim(p)
  PROVE  Rest' /\ PostsKeep
<1> DEFINE b == post[p].on
           s == [post[p] EXCEPT !.call = "running"]
<1>1. /\ b \in Approvals /\ doc[b].status = "pending"
      /\ Writes(b, Used("claimed", FALSE))
  BY ClaimWrites
<1>2. /\ slot' = p /\ p # None /\ Put(p, s) /\ post[p].call = "queued"
      /\ owner' = [owner EXCEPT ![b] = p]
      /\ UNCHANGED <<settled, get, told>>
  BY NoneAssumption DEF Claim, Taken, desk, caches
<1>3. /\ s \in PostStates /\ s.on = b /\ s.call = "running"
      /\ s.before = post[p].before
  BY <1>1 DEF IInv, TypeOK, PostStates
<1>4. b # None
  BY <1>1, NoneAssumption
<1>5. PostsKeep
  <2> HIDE DEF s
  <2> QED
    BY <1>1, <1>2, <1>3, <1>4, PutKeeps
<1>6. post' = [post EXCEPT ![p] = s] /\ post \in [Posts -> PostStates]
  BY <1>2 DEF Put, IInv, TypeOK
<1>7. doc'[b] = Used("claimed", FALSE) /\ doc'[b].phase = "claimed"
  BY <1>1 DEF Writes, IInv, TypeOK, Used
<1>8. SlotOK'
  BY <1>1, <1>2, <1>3, <1>6, <1>7 DEF SlotOK
<1>9. AskOK'
  <2>1. ASSUME NEW t \in Tabs, get[t].step = "ask"
        PROVE  b # Row(t)
    BY <1>1, <2>1 DEF IInv, GetOK
  <2> QED
    BY <1>2, <1>3, <1>6, <2>1 DEF AskOK, Row
<1>10. OwnerOK'
  <2>1. /\ owner \in [Approvals -> Posts \cup {None}] /\ OwnerOK
        /\ \A a \in Approvals : Moves(a)
    BY DocStep DEF IInv, TypeOK
  <2>2. ASSUME NEW a \in Approvals, owner'[a] # None
        PROVE  doc'[a].status = "used" /\ post'[owner'[a]].on = a
    <3>1. CASE a = b
      BY <1>2, <1>3, <1>6, <1>7, <2>1, <3>1 DEF Used
    <3>2. CASE a # b
      <4>1. owner'[a] = owner[a] /\ owner[a] \in Posts /\ a # None
        BY <1>2, <2>1, <2>2, <3>2, NoneAssumption
      <4>2. doc[a].status = "used" /\ post[owner[a]].on = a
        BY <2>1, <2>2, <4>1 DEF OwnerOK
      <4> QED
        BY <1>5, <2>1, <4>1, <4>2 DEF PostsKeep, Moves
    <3> QED
      BY <3>1, <3>2
  <2>3. ASSUME NEW q \in Posts, post'[q].before # None
        PROVE  /\ post'[q].on \in Approvals
               /\ doc'[post'[q].on].status = "used"
               /\ owner'[post'[q].on] # q
    <3>1. post'[q].on = post[q].on /\ post'[q].before = post[q].before
      BY <1>3, <1>6
    <3>2. /\ post[q].on \in Approvals /\ doc[post[q].on].status = "used"
          /\ owner[post[q].on] # q
      BY <2>1, <2>3, <3>1 DEF OwnerOK
    <3>3. post[q].on # b
      BY <1>1, <3>2
    <3> QED
      BY <1>2, <2>1, <3>1, <3>2, <3>3 DEF Moves
  <2> QED
    BY <1>5, <2>2, <2>3 DEF OwnerOK, PostsKeep
<1> QED
  BY <1>2, <1>5, <1>8, <1>9, <1>10, DocStep, DeskStill DEF Rest

LEMMA StartRest ==
  ASSUME IInv, [Next]_vars, NEW p \in Posts, StartUpdate(p)
  PROVE  Rest' /\ PostsKeep
<1>1. slot = p /\ p # None /\ UNCHANGED <<settled, get, told, owner>>
  BY NoneAssumption DEF StartUpdate, caches
<1>2. post[p].on \in Approvals /\ post[p].call = "running"
  BY <1>1 DEF IInv, SlotOK
<1>3. CASE slot' = None /\ \E r \in Answers : Reply(p, r)
  BY <1>1, <1>2, <1>3, ReplyKeeps, DocStep, DeskStill, OwnersStand, FreeSlot
  DEF Rest
<1>4. CASE Record(post[p].on, Used("applying", TRUE)) /\ UNCHANGED <<slot, post>>
  <2>1. PostsKeep
    BY <1>4, SamePosts
  <2>2. doc'[post[p].on].phase = "applying" /\ age'[post[p].on] = 0
    BY <1>2, <1>4 DEF Record, IInv, TypeOK, Used
  <2>3. SlotOK'
    BY <1>1, <1>2, <1>4, <2>2, ClockAssumption DEF SlotOK
  <2>4. AskOK'
    BY <1>1, <1>4 DEF IInv, AskOK, Row
  <2> QED
    BY <1>1, <2>1, <2>3, <2>4, DocStep, DeskStill, OwnersStand DEF Rest
<1> QED
  BY <1>3, <1>4 DEF StartUpdate, Answers

LEMMA EndRest ==
  ASSUME IInv, [Next]_vars, NEW p \in Posts, EndWait(p)
  PROVE  Rest' /\ PostsKeep
<1>1. slot = p /\ p # None /\ UNCHANGED <<settled, get, told, owner>>
  BY NoneAssumption DEF EndWait, caches
<1>2. post[p].on \in Approvals /\ post[p].call = "running"
  BY <1>1 DEF IInv, SlotOK
<1>3. slot' = None /\ \E r \in Answers : Reply(p, r)
  BY DEF EndWait, Answers
<1> QED
  BY <1>1, <1>2, <1>3, ReplyKeeps, DocStep, DeskStill, OwnersStand, FreeSlot
  DEF Rest

LEMMA DeathRest ==
  ASSUME IInv, [Next]_vars, WorkerDies
  PROVE  Rest' /\ PostsKeep
<1>1. /\ slot \in Posts /\ slot # None /\ slot' = None
      /\ UNCHANGED <<settled, get, told, owner>>
  BY DEF WorkerDies, IInv, TypeOK, desk, caches
<1>2. post[slot].call = "running"
  BY <1>1 DEF IInv, SlotOK
<1>3. "5xx" \in Answers /\ Reply(slot, "5xx")
  BY DEF WorkerDies, Answers
<1>4. PostsKeep
  BY <1>1, <1>2, <1>3, ReplyKeeps
<1> QED
  BY <1>1, <1>4, DocStep, DeskStill, OwnersStand, FreeSlot DEF Rest

LEMMA ReconcileRest ==
  ASSUME IInv, [Next]_vars, NEW t \in Tabs, NEW a \in Approvals, Reconcile(t, a)
  PROVE  Rest' /\ PostsKeep
<1>1. slot' = None /\ UNCHANGED <<settled, get, told, owner, post>>
  BY DEF Reconcile, desk, caches
<1> QED
  BY <1>1, SamePosts, DocStep, DeskStill, OwnersStand, FreeSlot DEF Rest

LEMMA OpEndsRest ==
  ASSUME IInv, [Next]_vars, NEW a \in Approvals, OpEnds(a)
  PROVE  Rest' /\ PostsKeep
<1>1. UNCHANGED <<doc, age, slot, settled, get, told, owner, post>>
  BY DEF OpEnds, desk, caches
<1> QED
  BY <1>1, SamePosts, DocStep, DeskStill, OwnersStand, SlotStands DEF Rest

LEMMA RestartRest ==
  ASSUME IInv, [Next]_vars, Restart
  PROVE  Rest' /\ PostsKeep
<1>1. /\ UNCHANGED <<doc, age, slot, told, owner>>
      /\ settled' = [a \in Approvals |-> None]
      /\ get' = [t \in Tabs |-> NoGet]
  BY DEF Restart, worker
<1>2. PostsKeep
  BY RestartKeepsPosts
<1>3. CacheOK' /\ GetOK'
  BY <1>1 DEF CacheOK, GetOK, NoGet
<1>4. ToldOK'
  BY <1>1 DEF IInv, ToldOK, IsTerminal
<1>5. SlotOK' /\ AskOK'
  BY <1>1, <1>2, SlotStands DEF NoGet
<1> QED
  BY <1>1, <1>2, <1>3, <1>4, <1>5, DocStep, OwnersStand DEF Rest

LEMMA TickRest ==
  ASSUME IInv, [Next]_vars, Tick
  PROVE  Rest' /\ PostsKeep
<1>1. UNCHANGED <<doc, slot, settled, get, told, owner, post>>
  BY DEF Tick
<1>2. PostsKeep
  BY <1>1, SamePosts
<1>3. SlotOK'
  <2> SUFFICES ASSUME slot # None PROVE SlotOK'
    BY <1>1 DEF SlotOK
  <2>1. /\ post[slot].on \in Approvals /\ post[slot].call = "running"
        /\ doc[post[slot].on].phase \in {"claimed", "applying"}
    BY DEF IInv, SlotOK
  <2>2. ASSUME doc[post[slot].on].phase = "applying"
        PROVE  age'[post[slot].on] <= ExecuteCap
    <3>1. age[post[slot].on] < ExecuteCap /\ age[post[slot].on] \in Nat
      BY <2>1, <2>2 DEF Tick, IInv, TypeOK
    <3>2. age'[post[slot].on] \in {age[post[slot].on], age[post[slot].on] + 1}
      BY <2>1 DEF Tick
    <3> QED
      BY <3>1, <3>2, ClockAssumption
  <2> QED
    BY <1>1, <2>1, <2>2 DEF SlotOK
<1>4. AskOK'
  BY <1>1 DEF IInv, AskOK, Row
<1> QED
  BY <1>1, <1>2, <1>3, <1>4, DocStep, DeskStill, OwnersStand DEF Rest

LEMMA RestStep ==
  ASSUME IInv, [Next]_vars
  PROVE  Rest' /\ PostsKeep
<1>1. CASE UNCHANGED vars
  <2>1. UNCHANGED <<doc, age, slot, settled, get, told, owner, post>>
    BY <1>1 DEF vars
  <2> QED
    BY <2>1, SamePosts, DocStep, DeskStill, OwnersStand, SlotStands DEF Rest
<1> QED
  BY <1>1, TabRest, PostRest, RefuseRest, DenyRest, ClaimRest, StartRest,
     EndRest, DeathRest, ReconcileRest, OpEndsRest, RestartRest, TickRest
  DEF Next, WorkerStep

-----------------------------------------------------------------------------
(* Types                                                                   *)

TypeRest == /\ op \in [Approvals -> {"none", "running", "ok", "bad"}]
            /\ age \in [Approvals -> Nat]
            /\ slot \in Posts \cup {None}
            /\ asks \subseteq Tabs \X Approvals
            /\ settled \in [Approvals -> Doc \cup {None}]
            /\ attempted \in [Approvals -> Nat \cup {None}]
            /\ get \in [Tabs -> Gets]
            /\ told \in [Tabs -> [Approvals -> Views]]
            /\ polled \in BOOLEAN
            /\ owner \in [Approvals -> Posts \cup {None}]
            /\ asked \subseteq Approvals
            /\ faults \in Nat

LEMMA FaultsStay ==
  ASSUME IInv, [Next]_vars
  PROVE  faults' \in Nat
<1>1. faults \in Nat
  BY DEF IInv, TypeOK
<1>2. faults' \in {faults, faults + 1}
  BY DEF Next, TabStep, StartGet, ReadRow, AskWorker, AfterAsk, PostStep,
         Approve, Reject, GiveUp, Respond, WorkerStep, Refuse, Deny, Claim,
         StartUpdate, EndWait, WorkerDies, Reconcile, OpEnds, Restart, Tick,
         ReadFails, vars
<1> QED
  BY <1>1, <1>2

LEMMA TabTypes ==
  ASSUME IInv, [Next]_vars, NEW t \in Tabs, TabStep(t)
  PROVE  TypeRest'
<1>1. TabKeeps
  BY TabStepKeeps
<1>2. /\ asks \subseteq Tabs \X Approvals /\ asked \subseteq Approvals
      /\ attempted \in [Approvals -> Nat \cup {None}]
  BY DEF IInv, TypeOK
<1>3. /\ asks' \subseteq Tabs \X Approvals /\ asked' \subseteq Approvals
      /\ attempted' \in [Approvals -> Nat \cup {None}]
  <2>1. CASE StartGet(t) \/ ReadRow(t) \/ AfterAsk(t)
    BY <1>2, <2>1 DEF StartGet, ReadRow, AfterAsk, caches
  <2>2. CASE AskWorker(t)
    <3>1. get[t].step # "idle"
      BY <2>2 DEF AskWorker
    <3>2. Row(t) \in Approvals
      BY <3>1, RowIsApproval DEF IInv
    <3>3. CASE UNCHANGED <<asks, attempted, asked>>
      BY <1>2, <3>3
    <3>4. CASE /\ NoteAttempt(Row(t))
               /\ asks' = asks \cup {<<t, Row(t)>>}
               /\ asked' = asked \cup {Row(t)}
      BY <1>2, <3>2, <3>4 DEF NoteAttempt
    <3> QED
      BY <2>2, <3>3, <3>4 DEF AskWorker
  <2> QED
    BY <2>1, <2>2 DEF TabStep
<1> QED
  BY <1>1, <1>3, FaultsStay DEF TabKeeps, TypeRest, IInv, TypeOK, worker

LEMMA RecordTypes ==
  ASSUME IInv, NEW a, NEW d, Record(a, d)
  PROVE  age' \in [Approvals -> Nat]
BY DEF Record, IInv, TypeOK

LEMMA WorkerTypes ==
  ASSUME IInv, [Next]_vars, WorkerStep
  PROVE  TypeRest'
<1>1. UNCHANGED <<settled, attempted, get, told, polled>>
  BY DEF WorkerStep, Refuse, Deny, Claim, StartUpdate, EndWait, WorkerDies,
         Reconcile, OpEnds, desk, caches
<1>2. age' \in [Approvals -> Nat]
  <2>1. CASE age' = age
    BY <2>1 DEF IInv, TypeOK
  <2>2. CASE \E a, d : Record(a, d)
    BY <2>2, RecordTypes
  <2> QED
    BY <2>1, <2>2 DEF WorkerStep, Refuse, Deny, Claim, StartUpdate, EndWait,
       WorkerDies, Reconcile, OpEnds, worker
<1>3. /\ slot' \in Posts \cup {None}
      /\ asks' \subseteq Tabs \X Approvals
      /\ asked' \subseteq Approvals
  BY DEF IInv, TypeOK, WorkerStep, Refuse, Deny, Claim, StartUpdate, EndWait,
         WorkerDies, Reconcile, OpEnds, Unasked, worker, desk
<1>4. op' \in [Approvals -> {"none", "running", "ok", "bad"}]
  BY DEF IInv, TypeOK, WorkerStep, Refuse, Deny, Claim, StartUpdate, EndWait,
         WorkerDies, Reconcile, OpEnds, worker
<1>5. owner' \in [Approvals -> Posts \cup {None}]
  <2>1. owner \in [Approvals -> Posts \cup {None}]
    BY DEF IInv, TypeOK
  <2>2. CASE \E p \in Posts : Claim(p)
    BY <2>1, <2>2 DEF Claim
  <2>3. owner' = owner \/ \E p \in Posts : Claim(p)
    BY DEF WorkerStep, Refuse, Deny, StartUpdate, EndWait, WorkerDies, Reconcile,
           OpEnds
  <2> QED
    BY <2>1, <2>2, <2>3
<1> QED
  BY <1>1, <1>2, <1>3, <1>4, <1>5, FaultsStay DEF TypeRest, IInv, TypeOK

LEMMA ElseTypes ==
  ASSUME IInv, [Next]_vars,
         \/ \E p \in Posts : PostStep(p)
         \/ Restart \/ Tick \/ UNCHANGED vars
  PROVE  TypeRest'
<1>0. TypeRest
  BY DEF IInv, TypeOK, TypeRest
<1>1. CASE \E p \in Posts : PostStep(p)
  BY <1>0, <1>1, FaultsStay
  DEF PostStep, Approve, Reject, GiveUp, Respond, TypeRest, worker, desk, caches
<1>2. CASE Restart
  <2>1. NoGet \in Gets
    BY WindowFacts DEF NoGet, Gets
  <2> QED
    BY <1>0, <1>2, <2>1, FaultsStay DEF Restart, TypeRest, worker
<1>3. CASE Tick
  <2>1. age' \in [Approvals -> Nat]
    BY <1>0, <1>3 DEF Tick, TypeRest
  <2>2. attempted' \in [Approvals -> Nat \cup {None}]
    BY <1>0, <1>3 DEF Tick, TypeRest
  <2> QED
    BY <1>0, <1>3, <2>1, <2>2 DEF Tick, TypeRest
<1>4. CASE UNCHANGED vars
  BY <1>0, <1>4 DEF vars, TypeRest
<1> QED
  BY <1>1, <1>2, <1>3, <1>4

\* A tab's row changes when it is joined, and is told too, or unavailable.
LEMMA ShownStep ==
  ASSUME IInv, [Next]_vars
  PROVE  /\ shown' \in [Tabs -> [Approvals -> Views \cup {"unavailable"}]]
         /\ ShownOK'
<1>1. /\ shown \in [Tabs -> [Approvals -> Views \cup {"unavailable"}]]
      /\ told \in [Tabs -> [Approvals -> Views]]
      /\ ShownOK
  BY DEF IInv, TypeOK
<1>2. CASE UNCHANGED <<shown, told>>
  BY <1>1, <1>2 DEF ShownOK
<1>3. ASSUME NEW t \in Tabs, get[t].step # "idle", NEW d, Joined(t, d)
      PROVE  /\ shown' \in [Tabs -> [Approvals -> Views \cup {"unavailable"}]]
             /\ ShownOK'
  <2>1. Row(t) \in Approvals
    BY <1>3, RowIsApproval DEF IInv
  <2>2. View(d) \in Views
    BY DEF View, Views
  <2>3. /\ shown' = [shown EXCEPT ![t][Row(t)] = View(d)]
        /\ told' = [told EXCEPT ![t][Row(t)] = View(d)]
    BY <1>3 DEF Joined
  <2>4. shown' \in [Tabs -> [Approvals -> Views \cup {"unavailable"}]]
    BY <1>1, <2>1, <2>2, <2>3
  <2>5. ASSUME NEW u \in Tabs, NEW a \in Approvals
        PROVE  shown'[u][a] \in {told'[u][a], "unavailable"}
    BY <1>1, <2>1, <2>3 DEF ShownOK
  <2> QED
    BY <2>4, <2>5 DEF ShownOK
<1>4. ASSUME NEW t \in Tabs, get[t].step # "idle", RowUnavailable(t)
      PROVE  /\ shown' \in [Tabs -> [Approvals -> Views \cup {"unavailable"}]]
             /\ ShownOK'
  <2>1. Row(t) \in Approvals
    BY <1>4, RowIsApproval DEF IInv
  <2>2. told' = told /\ shown' = [shown EXCEPT ![t][Row(t)] = "unavailable"]
    BY <1>4 DEF RowUnavailable
  <2>3. shown' \in [Tabs -> [Approvals -> Views \cup {"unavailable"}]]
    BY <1>1, <2>1, <2>2
  <2>4. ASSUME NEW u \in Tabs, NEW a \in Approvals
        PROVE  shown'[u][a] \in {told'[u][a], "unavailable"}
    BY <1>1, <2>1, <2>2 DEF ShownOK
  <2> QED
    BY <2>3, <2>4 DEF ShownOK
<1>5. ASSUME NEW t \in Tabs, TabStep(t)
      PROVE  \/ UNCHANGED <<shown, told>>
             \/ get[t].step # "idle" /\ RowUnavailable(t)
             \/ get[t].step # "idle" /\ \E d : Joined(t, d)
  <2>1. CASE StartGet(t)
    BY <2>1 DEF StartGet
  <2>2. CASE ReadRow(t)
    BY <2>2 DEF ReadRow, Serve
  <2>3. CASE AskWorker(t)
    BY <2>3 DEF AskWorker, PassOver, Serve
  <2>4. CASE AfterAsk(t)
    BY <2>4 DEF AfterAsk, Serve
  <2> QED
    BY <1>5, <2>1, <2>2, <2>3, <2>4 DEF TabStep
<1>6. UNCHANGED <<shown, told>> \/ \E t \in Tabs : TabStep(t)
  BY DEF Next, PostStep, Approve, Reject, GiveUp, Respond, WorkerStep,
     Refuse, Deny, Claim, StartUpdate, EndWait, WorkerDies, Reconcile, OpEnds,
     Restart, Tick, vars, desk
<1> QED
  BY <1>2, <1>3, <1>4, <1>5, <1>6

LEMMA TypeStep ==
  ASSUME IInv, [Next]_vars
  PROVE  TypeOK'
<1>1. TypeRest'
  BY TabTypes, WorkerTypes, ElseTypes DEF Next
<1> QED
  BY <1>1, DocStep, RestStep, ShownStep DEF TypeOK, TypeRest, PostsKeep

LEMMA InvStep ==
  ASSUME IInv, [Next]_vars
  PROVE  IInv'
BY TypeStep, RestStep, DocStep, ShownStep DEF IInv, Rest

LEMMA Invariance == Spec => []IInv
<1>1. Init => IInv
  BY InitInv
<1>2. IInv /\ [Next]_vars => IInv'
  BY InvStep
<1> QED
  BY <1>1, <1>2, PTL DEF Spec

-----------------------------------------------------------------------------
(* The pace at which the desk asks                                         *)

\* A rollback that a /reconcile could settle.
Stuck(a) == doc[a].phase \in Reconcilable /\ doc[a].handle

\* The other rows asked about within the last w ticks.
Recent(a, w) == {b \in Approvals \ {a} : attempted[b] # None /\ attempted[b] < w}

\* The GET of tab t has left the row of a behind.
Passed(t, a) == get[t].step # "idle" /\ \E i \in 1 .. get[t].row - 1 : Rows[i] = a

\* The row of a has waited for w whole ticks after its own cooldown and the
\* faults, and in each of them the budget went to other rows, all different.
Paced(L, a, w) ==
  /\ age[a] < RetryAfter + faults * L + w
  /\ w * Budget <= Cardinality(Recent(a, w)) + Budget
  /\ \A t \in Tabs : get[t].step # "idle" =>
       w * Budget <= Cardinality(Recent(a, w)) + get[t].budget
  /\ (polled \/ \E t \in Tabs : Passed(t, a)) =>
       w * Budget <= Cardinality(Recent(a, w))

PaceOK(L) == \A a \in Approvals :
               Stuck(a) /\ a \notin asked => \E w \in 0 .. L : Paced(L, a, w)

\* Nobody cools down for longer than the age of its record, and a row whose
\* answer is awaited was asked about, or recorded anew since.
CoolOK == \A a \in Approvals :
            Stuck(a) /\ a \notin asked /\ attempted[a] # None
              => attempted[a] >= RetryAfter \/ attempted[a] >= age[a]
WaitOK == \A t \in Tabs :
            get[t].step = "wait" => Row(t) \in asked \/ age[Row(t)] = 0

PInv(L) == faults <= MaxFaults /\ WaitOK /\ CoolOK /\ PaceOK(L)

\* The rows the desk has on its hands: stuck, or asked about in the last L
\* ticks.
Busy(L) == {b \in Approvals :
              Stuck(b) \/ (attempted[b] # None /\ attempted[b] < L)}

\* They are no more than the budget of L polls, and the table of attempts has
\* room.
Few(L) == /\ Cardinality(Busy(L)) <= L * Budget
          /\ Cardinality(Attempts) < AttemptedMax

\* L polls fit into a cooldown, and one round of them per fault, after a first
\* cooldown, ends before the ceiling.
Roomy(L) == /\ L <= RetryAfter
            /\ RetryAfter + (MaxFaults + 1) * L <= GiveUpAfter + 1

-----------------------------------------------------------------------------
(* Counting rows                                                           *)

LEMMA WindowIsFinite == IsFiniteSet(Approvals)
<1>1. DOMAIN Rows = 1 .. Len(Rows) /\ Len(Rows) \in Nat
  BY WindowFacts
<1>2. IsFiniteSet(1 .. Len(Rows))
  BY <1>1, FS_Interval
<1> DEFINE f == [i \in 1 .. Len(Rows) |-> Rows[i]]
<1>3. f \in Surjection(1 .. Len(Rows), Approvals)
  BY <1>1 DEF Surjection, Approvals
<1> HIDE DEF f
<1> QED
  BY <1>2, <1>3, FS_Surjection

LEMMA RecentIsFinite ==
  ASSUME NEW a, NEW w
  PROVE  IsFiniteSet(Recent(a, w)) /\ Cardinality(Recent(a, w)) \in Nat
<1>1. Recent(a, w) \subseteq Approvals
  BY DEF Recent
<1> QED
  BY <1>1, WindowIsFinite, FS_Subset, FS_CardinalityType

LEMMA RecentIsFiniteThen ==
  ASSUME NEW a, NEW w
  PROVE  (IsFiniteSet(Recent(a, w)) /\ Cardinality(Recent(a, w)) \in Nat)'
<1>1. Recent(a, w)' \subseteq Approvals
  BY DEF Recent
<1> QED
  BY <1>1, WindowIsFinite, FS_Subset, FS_CardinalityType

\* While a stuck row waits, the rows asked about before it are fewer than the
\* budget of L polls.
LEMMA RoomIsLeft ==
  ASSUME IInv, NEW L \in Nat, Few(L), NEW a \in Approvals, Stuck(a),
         NEW w \in 0 .. L
  PROVE  Cardinality(Recent(a, w)) < L * Budget
<1>1. IsFiniteSet(Recent(a, w)) /\ Cardinality(Recent(a, w)) \in Nat
  BY RecentIsFinite
<1>2. a \notin Recent(a, w)
  BY DEF Recent
<1>3. /\ IsFiniteSet(Recent(a, w) \cup {a})
      /\ Cardinality(Recent(a, w) \cup {a}) = Cardinality(Recent(a, w)) + 1
  BY <1>1, <1>2, FS_AddElement
<1>4. Recent(a, w) \cup {a} \subseteq Busy(L)
  <2>1. ASSUME NEW b \in Recent(a, w) PROVE b \in Busy(L)
    <3>1. b \in Approvals /\ attempted[b] # None /\ attempted[b] < w
      BY DEF Recent
    <3>2. attempted[b] \in Nat
      BY <3>1 DEF IInv, TypeOK
    <3>3. attempted[b] < L
      BY <3>1, <3>2
    <3> QED
      BY <3>1, <3>3 DEF Busy
  <2> QED
    BY <2>1 DEF Busy
<1>5. Busy(L) \subseteq Approvals
  BY DEF Busy
<1>6. IsFiniteSet(Busy(L)) /\ Cardinality(Busy(L)) \in Nat
  BY <1>5, WindowIsFinite, FS_Subset, FS_CardinalityType
<1>7. Cardinality(Recent(a, w)) + 1 <= Cardinality(Busy(L))
  BY <1>3, <1>4, <1>6, FS_Subset
<1>8. L * Budget \in Nat
  BY ClockAssumption
<1> QED
  BY <1>1, <1>6, <1>7, <1>8 DEF Few

-----------------------------------------------------------------------------
(* Steps that keep the pace                                                *)

\* A record young enough has no waiting to account for.
LEMMA YoungIsPaced ==
  ASSUME IInv', NEW L \in Nat, NEW a \in Approvals,
         age'[a] < RetryAfter + faults' * L
  PROVE  \E w \in 0 .. L : Paced(L, a, w)'
<1>1. /\ age' \in [Approvals -> Nat] /\ faults' \in Nat
      /\ get' \in [Tabs -> Gets]
  BY DEF IInv, TypeOK, Gets
<1>4. \A g \in Gets : g.budget \in Nat
  BY DEF Gets
<1>5. /\ age'[a] \in Nat
      /\ \A t \in Tabs : get'[t].budget \in Nat
  BY <1>1, <1>4
<1>6. \A m, n \in Nat : m * n \in Nat
  OBVIOUS
<1>7. faults' * L \in Nat
  BY <1>1, <1>6
<1>2. Cardinality(Recent(a, 0))' \in Nat
  BY RecentIsFiniteThen
<1>3. Budget \in Nat /\ RetryAfter \in Nat /\ 0 * Budget = 0 /\ 0 \in 0 .. L
  BY ClockAssumption
<1>8. Paced(L, a, 0)'
  <2> DEFINE n == Cardinality(Recent(a, 0))'
  <2>1. age'[a] < RetryAfter + faults' * L + 0
    BY <1>3, <1>5, <1>7
  <2>2. 0 * Budget <= n + Budget /\ 0 * Budget <= n
    BY <1>2, <1>3
  <2>3. \A t \in Tabs : 0 * Budget <= n + get'[t].budget
    BY <1>2, <1>3, <1>5
  <2> QED
    BY <2>1, <2>2, <2>3 DEF Paced
<1> QED
  BY <1>3, <1>8

\* Every fault buys each row a new round.
LEMMA FaultKeepsPace ==
  ASSUME IInv, IInv', NEW L \in Nat, PInv(L), UNCHANGED <<doc, age, asked>>,
         ReadFails
  PROVE  PaceOK(L)' /\ faults' <= MaxFaults
<1>1. faults \in Nat /\ faults' = faults + 1 /\ faults' <= MaxFaults
  BY ClockAssumption DEF ReadFails, IInv, TypeOK
<1>2. ASSUME NEW a \in Approvals, Stuck(a)', a \notin asked'
      PROVE  \E w \in 0 .. L : Paced(L, a, w)'
  <2>1. PICK w \in 0 .. L : Paced(L, a, w)
    BY <1>2 DEF PInv, PaceOK, Stuck
  <2>2. age[a] < RetryAfter + faults * L + w
    BY <2>1 DEF Paced
  <2>3. faults' * L = faults * L + L /\ faults * L \in Nat
    BY <1>1
  <2>4. age[a] \in Nat /\ RetryAfter \in Nat
    BY ClockAssumption DEF IInv, TypeOK
  <2>5. age'[a] < RetryAfter + faults' * L
    <3> DEFINE f == faults * L
    <3>1. f \in Nat /\ faults' * L = f + L /\ age[a] < RetryAfter + f + w
      BY <2>2, <2>3
    <3> HIDE DEF f
    <3> QED
      BY <2>4, <3>1
  <2> QED
    BY <2>5, YoungIsPaced
<1> QED
  BY <1>1, <1>2 DEF PaceOK

\* What a step that looks at no row of the desk leaves in order.
LEMMA StillKeepsPace ==
  ASSUME NEW L \in Nat, PInv(L),
         UNCHANGED <<doc, age, attempted, get, polled, asked, faults>>
  PROVE  PInv(L)'
<1>1. ASSUME NEW a \in Approvals, NEW w \in 0 .. L, Paced(L, a, w)
      PROVE  Paced(L, a, w)'
  <2>1. Recent(a, w)' = Recent(a, w)
    BY DEF Recent
  <2>2. \A t \in Tabs : Passed(t, a)' <=> Passed(t, a)
    BY DEF Passed
  <2> QED
    BY <1>1, <2>1, <2>2 DEF Paced
<1>2. \A a \in Approvals : Stuck(a)' <=> Stuck(a)
  BY DEF Stuck
<1>3. PaceOK(L)'
  BY <1>1, <1>2 DEF PInv, PaceOK
<1>4. WaitOK'
  BY DEF PInv, WaitOK, Row
<1>5. CoolOK'
  BY <1>2 DEF PInv, CoolOK
<1> QED
  BY <1>3, <1>4, <1>5 DEF PInv

\* A record made anew is young.
LEMMA RecordKeepsPace ==
  ASSUME IInv, IInv', NEW L \in Nat, PInv(L), NEW b \in Approvals, NEW d,
         Record(b, d), asked \ {b} \subseteq asked',
         UNCHANGED <<attempted, get, polled, faults>>
  PROVE  PInv(L)'
<1>1. /\ doc \in [Approvals -> Doc] /\ age \in [Approvals -> Nat]
      /\ attempted \in [Approvals -> Nat \cup {None}] /\ faults \in Nat
  BY DEF IInv, TypeOK
<1>2. /\ age'[b] = 0
      /\ \A a \in Approvals \ {b} : doc'[a] = doc[a] /\ age'[a] = age[a]
  BY <1>1 DEF Record
<1>3. WaitOK'
  <2> SUFFICES ASSUME NEW t \in Tabs, get[t].step = "wait"
               PROVE  Row(t) \in asked' \/ age'[Row(t)] = 0
    BY DEF WaitOK, Row
  <2>1. Row(t) \in Approvals
    BY RowIsApproval DEF IInv
  <2>2. Row(t) \in asked \/ age[Row(t)] = 0
    BY DEF PInv, WaitOK
  <2> QED
    BY <1>2, <2>1, <2>2
<1>4. CoolOK'
  <2> SUFFICES ASSUME NEW a \in Approvals, Stuck(a)', a \notin asked',
                      attempted[a] # None
               PROVE  attempted[a] >= RetryAfter \/ attempted[a] >= age'[a]
    BY DEF CoolOK
  <2>1. CASE a = b
    BY <1>1, <1>2, <2>1
  <2>2. CASE a # b
    BY <1>2, <2>2 DEF PInv, CoolOK, Stuck
  <2> QED
    BY <2>1, <2>2
<1>5. ASSUME NEW a \in Approvals, Stuck(a)', a \notin asked'
      PROVE  \E w \in 0 .. L : Paced(L, a, w)'
  <2>1. CASE a = b
    <3>1. RetryAfter \in Nat /\ RetryAfter > 0
      BY ClockAssumption
    <3>2. faults' * L \in Nat
      BY <1>1
    <3>3. age'[a] < RetryAfter + faults' * L
      BY <1>2, <2>1, <3>1, <3>2
    <3> QED
      BY <3>3, YoungIsPaced
  <2>2. CASE a # b
    <3>1. Stuck(a) /\ a \notin asked
      BY <1>2, <1>5, <2>2 DEF Stuck
    <3>2. PICK w \in 0 .. L : Paced(L, a, w)
      BY <3>1 DEF PInv, PaceOK
    <3>3. Paced(L, a, w)'
      BY <1>2, <2>2, <3>2 DEF Paced, Recent, Passed
    <3> QED
      BY <3>3
  <2> QED
    BY <2>1, <2>2
<1>6. PaceOK(L)'
  BY <1>5 DEF PaceOK
<1> QED
  BY <1>3, <1>4, <1>6 DEF PInv

\* What a row can count on when a GET goes past it.
LEMMA OnwardKeepsPace ==
  ASSUME IInv, NEW L \in Nat, NEW a \in Approvals, NEW w \in 0 .. L,
         Paced(L, a, w), NEW t \in Tabs, get[t].step # "idle",
         NextRow(t, get[t].budget),
         Row(t) = a => w * Budget <= Cardinality(Recent(a, w)),
         UNCHANGED <<age, attempted, faults>>
  PROVE  Paced(L, a, w)'
<1> DEFINE n == Cardinality(Recent(a, w))
           due == w * Budget <= n
<1>1. get[t].row \in 1 .. Len(Rows) /\ Len(Rows) \in Nat
  BY RowIsApproval, WindowFacts DEF IInv
<1>2. get \in [Tabs -> Gets]
  BY DEF IInv, TypeOK
<1>3. Recent(a, w)' = Recent(a, w)
  BY DEF Recent
<1>4. /\ age[a] < RetryAfter + faults * L + w
      /\ w * Budget <= n + Budget
      /\ \A u \in Tabs : get[u].step # "idle" => w * Budget <= n + get[u].budget
      /\ polled => due
      /\ \A u \in Tabs : Passed(u, a) => due
  BY DEF Paced
<1>5. PICK j \in 1 .. Len(Rows) : Rows[j] = a
  BY WindowFacts DEF Approvals
<1>6. ASSUME NEW i \in 1 .. get[t].row, Rows[i] = a PROVE due
  <2>1. CASE i = get[t].row
    BY <1>6, <2>1 DEF Row
  <2>2. CASE i # get[t].row
    <3>1. i \in 1 .. get[t].row - 1
      BY <1>1, <2>2
    <3> QED
      BY <1>4, <1>6, <3>1 DEF Passed
  <2> QED
    BY <2>1, <2>2
<1>7. \A u \in Tabs \ {t} : get'[u] = get[u]
  BY <1>2 DEF NextRow
<1>8. CASE get[t].row = Len(Rows)
  <2>1. get'[t] = NoGet /\ NoGet.step = "idle"
    BY <1>2, <1>8 DEF NextRow, NoGet
  <2>2. due
    BY <1>5, <1>6, <1>8
  <2>3. \A u \in Tabs : get'[u].step # "idle" => w * Budget <= n + get'[u].budget
    BY <1>4, <1>7, <2>1
  <2> HIDE DEF n
  <2> QED
    BY <1>3, <1>4, <2>2, <2>3 DEF Paced, n
<1>9. CASE get[t].row # Len(Rows)
  <2>1. /\ get'[t].row = get[t].row + 1 /\ get'[t].budget = get[t].budget
        /\ polled' = polled
    BY <1>2, <1>9 DEF NextRow
  <2>2. \A u \in Tabs : get'[u].step # "idle" => w * Budget <= n + get'[u].budget
    BY <1>4, <1>7, <2>1
  <2>3. ASSUME NEW u \in Tabs, Passed(u, a)' PROVE due
    <3>1. CASE u = t
      <4>1. PICK i \in 1 .. get'[t].row - 1 : Rows[i] = a
        BY <2>3, <3>1 DEF Passed
      <4>2. i \in 1 .. get[t].row
        BY <1>1, <2>1
      <4> QED
        BY <1>6, <4>1, <4>2
    <3>2. CASE u # t
      BY <1>4, <1>7, <2>3, <3>2 DEF Passed
    <3> QED
      BY <3>1, <3>2
  <2> QED
    BY <1>3, <1>4, <2>1, <2>2, <2>3 DEF Paced
<1> QED
  BY <1>8, <1>9

\* A row that is served keeps the pace of every row that still waits, if it
\* was passed over young or with the budget spent, or does not wait.
LEMMA ServeKeepsPace ==
  ASSUME IInv, IInv', NEW L \in Nat, PInv(L),
         NEW t \in Tabs, get[t].step # "idle", NextRow(t, get[t].budget),
         Stuck(Row(t)) /\ Row(t) \notin asked =>
           age[Row(t)] < RetryAfter \/ get[t].budget = 0,
         UNCHANGED <<doc, age, attempted, asked, faults>>
  PROVE  PInv(L)'
<1>1. ASSUME NEW a \in Approvals, Stuck(a)', a \notin asked'
      PROVE  \E w \in 0 .. L : Paced(L, a, w)'
  <2>1. PICK w \in 0 .. L : Paced(L, a, w)
    BY <1>1 DEF PInv, PaceOK, Stuck
  <2>2. CASE Row(t) = a /\ age[a] < RetryAfter
    <3>1. faults * L \in Nat /\ age[a] \in Nat /\ RetryAfter \in Nat
      BY ClockAssumption DEF IInv, TypeOK
    <3>2. age'[a] < RetryAfter + faults' * L
      BY <2>2, <3>1
    <3> QED
      BY <3>2, YoungIsPaced
  <2>3. CASE ~(Row(t) = a /\ age[a] < RetryAfter)
    <3>1. Row(t) = a => w * Budget <= Cardinality(Recent(a, w))
      <4> SUFFICES ASSUME Row(t) = a
                   PROVE  w * Budget <= Cardinality(Recent(a, w))
        OBVIOUS
      <4>1. get[t].budget = 0
        BY <1>1, <2>3 DEF Stuck
      <4>2. w * Budget <= Cardinality(Recent(a, w)) + get[t].budget
        BY <2>1 DEF Paced
      <4>3. Cardinality(Recent(a, w)) \in Nat
        BY RecentIsFinite
      <4> QED
        BY <4>1, <4>2, <4>3
    <3>2. Paced(L, a, w)'
      BY <2>1, <3>1, OnwardKeepsPace
    <3> QED
      BY <3>2
  <2> QED
    BY <2>2, <2>3
<1>2. WaitOK'
  <2>1. get' \in [Tabs -> Gets] /\ get'[t].step # "wait"
        /\ \A u \in Tabs \ {t} : get'[u] = get[u]
    <3>1. get[t].budget \in Nat
      BY DEF IInv, TypeOK, Gets
    <3> QED
      BY <3>1, NextRowFacts
  <2> QED
    BY <2>1 DEF PInv, WaitOK, Row
<1>3. CoolOK'
  BY DEF PInv, CoolOK, Stuck
<1> QED
  BY <1>1, <1>2, <1>3 DEF PInv, PaceOK

\* A fault in a step of a tab.
LEMMA FailedReadKeepsPace ==
  ASSUME IInv, IInv', NEW L \in Nat, PInv(L), NEW t \in Tabs,
         get[t].step # "idle", NextRow(t, get[t].budget), ReadFails,
         UNCHANGED <<doc, age, attempted, asked>>
  PROVE  PInv(L)'
<1>1. PaceOK(L)' /\ faults' <= MaxFaults
  BY FaultKeepsPace
<1>2. WaitOK'
  <2>1. get' \in [Tabs -> Gets] /\ get'[t].step # "wait"
        /\ \A u \in Tabs \ {t} : get'[u] = get[u]
    <3>1. get[t].budget \in Nat
      BY DEF IInv, TypeOK, Gets
    <3> QED
      BY <3>1, NextRowFacts
  <2> QED
    BY <2>1 DEF PInv, WaitOK, Row
<1>3. CoolOK'
  BY DEF PInv, CoolOK, Stuck
<1> QED
  BY <1>1, <1>2, <1>3 DEF PInv

LEMMA StartGetKeepsPace ==
  ASSUME IInv, IInv', NEW L \in Nat, PInv(L), NEW t \in Tabs, StartGet(t)
  PROVE  PInv(L)'
<1>1. /\ get' = [get EXCEPT ![t] = [row |-> 1, budget |-> Budget,
                                   rec |-> None, step |-> "read"]]
      /\ UNCHANGED <<doc, age, attempted, polled, asked, faults>>
  BY DEF StartGet, worker, caches
<1>2. get \in [Tabs -> Gets]
  BY DEF IInv, TypeOK
<1>3. /\ get'[t].row = 1 /\ get'[t].budget = Budget /\ get'[t].step = "read"
      /\ \A u \in Tabs \ {t} : get'[u] = get[u]
  BY <1>1, <1>2
<1>4. ASSUME NEW a \in Approvals, NEW w \in 0 .. L, Paced(L, a, w)
      PROVE  Paced(L, a, w)'
  <2>1. Recent(a, w)' = Recent(a, w)
    BY <1>1 DEF Recent
  <2>2. ASSUME NEW u \in Tabs, Passed(u, a)' PROVE Passed(u, a)
    <3>1. u # t
      BY <1>3, <2>2 DEF Passed
    <3> QED
      BY <1>3, <2>2, <3>1 DEF Passed
  <2>3. \A u \in Tabs : get'[u].step # "idle" =>
          w * Budget <= Cardinality(Recent(a, w)) + get'[u].budget
    BY <1>3, <1>4 DEF Paced
  <2> QED
    BY <1>1, <1>4, <2>1, <2>2, <2>3 DEF Paced
<1>5. PaceOK(L)'
  BY <1>1, <1>4 DEF PInv, PaceOK, Stuck
<1>6. WaitOK'
  BY <1>1, <1>3 DEF PInv, WaitOK, Row
<1>7. CoolOK'
  BY <1>1 DEF PInv, CoolOK, Stuck
<1> QED
  BY <1>1, <1>5, <1>6, <1>7 DEF PInv

\* A GET that stays at its row with its budget.
LEMMA SameRowKeepsPace ==
  ASSUME IInv, NEW L \in Nat, PInv(L), NEW t \in Tabs, get[t].step # "idle",
         NEW g \in Gets, get' = [get EXCEPT ![t] = g],
         g.row = get[t].row, g.budget = get[t].budget, g.step = "ask",
         UNCHANGED <<doc, age, attempted, polled, asked, faults>>
  PROVE  PInv(L)'
<1>1. get \in [Tabs -> Gets]
  BY DEF IInv, TypeOK
<1>2. get'[t] = g /\ \A u \in Tabs \ {t} : get'[u] = get[u]
  BY <1>1
<1>3. ASSUME NEW a \in Approvals, NEW w \in 0 .. L, Paced(L, a, w)
      PROVE  Paced(L, a, w)'
  <2>1. Recent(a, w)' = Recent(a, w)
    BY DEF Recent
  <2>2. ASSUME NEW u \in Tabs, Passed(u, a)' PROVE Passed(u, a)
    BY <1>2, <2>2 DEF Passed
  <2>3. \A u \in Tabs : get'[u].step # "idle" =>
          w * Budget <= Cardinality(Recent(a, w)) + get'[u].budget
    BY <1>2, <1>3 DEF Paced
  <2> QED
    BY <1>3, <2>1, <2>2, <2>3 DEF Paced
<1>4. PaceOK(L)'
  BY <1>3 DEF PInv, PaceOK, Stuck
<1>5. WaitOK'
  BY <1>2 DEF PInv, WaitOK, Row
<1>6. CoolOK'
  BY DEF PInv, CoolOK, Stuck
<1> QED
  BY <1>4, <1>5, <1>6 DEF PInv

\* A stuck row that waits is younger than the ceiling.
LEMMA BelowCeiling ==
  ASSUME IInv, NEW L \in Nat, Roomy(L), PInv(L), NEW a \in Approvals,
         Stuck(a), a \notin asked
  PROVE  age[a] <= GiveUpAfter
<1>1. PICK w \in 0 .. L : Paced(L, a, w)
  BY DEF PInv, PaceOK
<1>2. /\ age[a] \in Nat /\ faults \in Nat /\ faults <= MaxFaults
      /\ MaxFaults \in Nat /\ RetryAfter \in Nat /\ GiveUpAfter \in Nat
  BY ClockAssumption DEF IInv, TypeOK, PInv
<1>3. age[a] < RetryAfter + faults * L + w
  BY <1>1 DEF Paced
<1>4. PICK k \in Nat : MaxFaults = faults + k
  <2>1. MaxFaults - faults \in Nat /\ MaxFaults = faults + (MaxFaults - faults)
    BY <1>2
  <2> QED
    BY <2>1
<1>5. (MaxFaults + 1) * L = faults * L + k * L + L
  BY <1>2, <1>4
<1>6. faults * L \in Nat /\ k * L \in Nat
  BY <1>2
<1>7. RetryAfter + (MaxFaults + 1) * L <= GiveUpAfter + 1
  BY DEF Roomy
<1>8. ASSUME NEW m \in Nat, NEW n \in Nat,
             age[a] < RetryAfter + m + w, RetryAfter + (m + n + L) <= GiveUpAfter + 1
      PROVE  age[a] <= GiveUpAfter
  BY <1>2, <1>8
<1> QED
  BY <1>3, <1>5, <1>6, <1>7, <1>8

LEMMA ReadRowKeepsPace ==
  ASSUME IInv, IInv', NEW L \in Nat, Roomy(L), PInv(L), NEW t \in Tabs,
         ReadRow(t)
  PROVE  PInv(L)'
<1>1. get[t].step = "read" /\ UNCHANGED <<doc, age, attempted, asked>>
  BY DEF ReadRow, worker
<1>2. Row(t) \in Approvals
  BY <1>1, RowIsApproval DEF IInv
<1>3. CASE settled[Row(t)] # None /\ Serve(t, settled[Row(t)]) /\ faults' = faults
  <2>1. IsTerminal(doc[Row(t)])
    BY <1>2, <1>3 DEF IInv, CacheOK
  <2>2. ~Stuck(Row(t))
    BY <1>2, <2>1, NoneAssumption
    DEF IInv, DocShape, Stuck, IsTerminal, Terminal, Reconcilable, Phases
  <2> QED
    BY <1>1, <1>3, <2>2, ServeKeepsPace DEF Serve
<1>4. CASE ~Eligible(Row(t)) /\ Serve(t, doc[Row(t)]) /\ faults' = faults
  <2>1. ASSUME Stuck(Row(t)), Row(t) \notin asked
        PROVE  age[Row(t)] < RetryAfter
    <3>1. age[Row(t)] <= GiveUpAfter
      BY <1>2, <2>1, BelowCeiling
    <3>2. ~(age[Row(t)] >= MinAge)
      BY <1>4, <2>1, <3>1 DEF Eligible, Stuck
    <3>3. age[Row(t)] \in Nat
      BY <1>2 DEF IInv, TypeOK
    <3> QED
      BY <3>2, <3>3, ClockAssumption
  <2> QED
    BY <1>1, <1>4, <2>1, ServeKeepsPace DEF Serve
<1>5. CASE /\ Eligible(Row(t))
           /\ get' = [get EXCEPT ![t].rec = doc[Row(t)], ![t].step = "ask"]
           /\ UNCHANGED <<told, settled, polled, faults>>
  <2> DEFINE g == [get[t] EXCEPT !.rec = doc[Row(t)], !.step = "ask"]
  <2>1. get[t] \in Gets /\ get' = [get EXCEPT ![t] = g]
    BY <1>5 DEF IInv, TypeOK
  <2>2. doc[Row(t)] \in Doc
    BY <1>2 DEF IInv, TypeOK
  <2>3. /\ g \in Gets /\ g.row = get[t].row /\ g.step = "ask"
        /\ g.budget = get[t].budget
    BY <2>1, <2>2 DEF Gets
  <2> HIDE DEF g
  <2> QED
    BY <1>1, <1>5, <2>1, <2>3, SameRowKeepsPace
<1>6. CASE ReadFails /\ NextRow(t, get[t].budget)
  BY <1>1, <1>6, FailedReadKeepsPace
<1> QED
  BY <1>3, <1>4, <1>5, <1>6 DEF ReadRow

LEMMA AfterAskKeepsPace ==
  ASSUME IInv, IInv', NEW L \in Nat, PInv(L), NEW t \in Tabs, AfterAsk(t)
  PROVE  PInv(L)'
<1>1. /\ get[t].step = "wait" /\ NextRow(t, get[t].budget)
      /\ UNCHANGED <<doc, age, attempted, asked, faults>>
  BY DEF AfterAsk, Serve, worker
<1>2. Row(t) \notin asked => age[Row(t)] = 0
  BY <1>1 DEF PInv, WaitOK
<1>3. 0 < RetryAfter
  BY ClockAssumption
<1> QED
  BY <1>1, <1>2, <1>3, ServeKeepsPace

\* A table with room forgets nothing.
LEMMA NotedAttempt ==
  ASSUME IInv, NEW L \in Nat, Few(L), NEW b \in Approvals, NoteAttempt(b)
  PROVE  attempted' = [attempted EXCEPT ![b] = 0]
<1>1. Attempts \subseteq Approvals
  BY DEF Attempts
<1>2. IsFiniteSet(Attempts) /\ Cardinality(Attempts) \in Nat
  BY <1>1, WindowIsFinite, FS_Subset, FS_CardinalityType
<1>3. ~(Cardinality(Attempts) >= AttemptedMax)
  BY <1>2, ClockAssumption DEF Few
<1>4. PICK stale \in SUBSET Attempts :
        /\ Cardinality(stale) = 0
        /\ attempted' = [x \in Approvals |-> IF x = b THEN 0
                                             ELSE IF x \in stale THEN None
                                             ELSE attempted[x]]
  BY <1>3 DEF NoteAttempt
<1>5. stale = {}
  BY <1>2, <1>4, FS_Subset, FS_EmptySet
<1> QED
  BY <1>4, <1>5 DEF IInv, TypeOK

\* An ask is of a row nobody asked about for a whole cooldown, so it counts
\* for every row that waits.
LEMMA AskKeepsPace ==
  ASSUME IInv, IInv', NEW L \in Nat, Roomy(L), Few(L), PInv(L), NEW t \in Tabs,
         get[t].step = "ask",
         ~(CoolingDown(Row(t)) \/ get[t].budget = 0), NoteAttempt(Row(t)),
         asked' = asked \cup {Row(t)},
         get' = [get EXCEPT ![t].budget = @ - 1, ![t].step = "wait"],
         UNCHANGED <<doc, age, polled, faults>>
  PROVE  PInv(L)'
<1> DEFINE b == Row(t)
<1>1. b \in Approvals
  BY RowIsApproval DEF IInv
<1>2. attempted' = [attempted EXCEPT ![b] = 0]
  BY <1>1, NotedAttempt
<1>3. /\ attempted \in [Approvals -> Nat \cup {None}] /\ get \in [Tabs -> Gets]
      /\ get[t].budget \in Nat \ {0}
  BY DEF IInv, TypeOK, Gets
<1>4. /\ get'[t].row = get[t].row /\ get'[t].budget = get[t].budget - 1
      /\ get'[t].step = "wait"
      /\ \A u \in Tabs \ {t} : get'[u] = get[u]
  BY <1>3
<1>5. ASSUME NEW a \in Approvals \ {b}, NEW w \in 0 .. L, Paced(L, a, w)
      PROVE  Paced(L, a, w)'
  <2> DEFINE n == Cardinality(Recent(a, w))
             m == Cardinality(Recent(a, w)')
  <2>1. n \in Nat /\ IsFiniteSet(Recent(a, w))
    BY RecentIsFinite
  <2>2. \A u \in Tabs : get[u].budget \in Nat
    BY <1>3 DEF Gets
  <2>3. w = 0 \/ m = n + 1
    <3> SUFFICES ASSUME w # 0 PROVE m = n + 1
      OBVIOUS
    <3>1. b \notin Recent(a, w)
      <4> SUFFICES ASSUME attempted[b] # None, attempted[b] < w PROVE FALSE
        BY DEF Recent
      <4>1. attempted[b] \in Nat /\ ~(attempted[b] < RetryAfter)
        BY <1>1, <1>3 DEF CoolingDown
      <4> QED
        BY <4>1, ClockAssumption DEF Roomy
    <3>2. Recent(a, w)' = Recent(a, w) \cup {b}
      <4>1. attempted'[b] = 0 /\ 0 # None /\ 0 < w
        BY <1>1, <1>2, <1>3, NoneAssumption
      <4>2. \A x \in Approvals \ {b} : attempted'[x] = attempted[x]
        BY <1>2, <1>3
      <4>3. ASSUME NEW x PROVE x \in Recent(a, w)' <=> x \in Recent(a, w) \cup {b}
        BY <1>1, <4>1, <4>2 DEF Recent
      <4> QED
        BY <4>3
    <3> QED
      BY <2>1, <3>1, <3>2, FS_AddElement
  <2>4. m \in Nat
    BY RecentIsFiniteThen
  <2>5. w * Budget \in Nat /\ Budget \in Nat /\ (w = 0 => w * Budget = 0)
    BY ClockAssumption
  <2>6. /\ w * Budget <= n + Budget
        /\ \A u \in Tabs : get[u].step # "idle" => w * Budget <= n + get[u].budget
        /\ (polled \/ \E u \in Tabs : Passed(u, a)) => w * Budget <= n
        /\ age[a] < RetryAfter + faults * L + w
    BY <1>5 DEF Paced
  <2>7. ASSUME NEW u \in Tabs, Passed(u, a)' PROVE Passed(u, a)
    <3>1. get'[u].row = get[u].row /\ get[u].step # "idle"
      BY <1>4, <2>7 DEF Passed
    <3> QED
      BY <2>7, <3>1 DEF Passed
  <2> DEFINE p == w * Budget
  <2>8. p \in Nat /\ (n <= m \/ p = 0)
    BY <2>1, <2>3, <2>4, <2>5
  <2>9. ASSUME NEW u \in Tabs, get'[u].step # "idle" PROVE p <= m + get'[u].budget
    <3>1. CASE u = t
      <4>1. p <= n + get[t].budget
        BY <2>6
      <4> HIDE DEF p, n, m
      <4> QED
        BY <1>3, <1>4, <2>1, <2>3, <2>4, <2>5, <3>1, <4>1 DEF p
    <3>2. CASE u # t
      <4>1. get'[u].budget = get[u].budget /\ p <= n + get[u].budget
        BY <1>4, <2>6, <2>9, <3>2
      <4> DEFINE c == get[u].budget
      <4>2. c \in Nat /\ p <= n + c
        BY <2>2, <4>1
      <4> HIDE DEF p, n, m, c
      <4>3. p <= m + c
        BY <2>1, <2>4, <2>8, <4>2
      <4> QED
        BY <4>1, <4>3 DEF c
    <3> QED
      BY <3>1, <3>2
  <2>10. p <= m + Budget
    <3>1. p <= n + Budget
      BY <2>6
    <3> HIDE DEF p, n, m
    <3> QED
      BY <2>1, <2>4, <2>5, <2>8, <3>1
  <2>11. p <= n => p <= m
    <3> HIDE DEF p, n, m
    <3> QED
      BY <2>1, <2>4, <2>8
  <2>12. (polled' \/ \E u \in Tabs : Passed(u, a)') => p <= m
    BY <2>6, <2>7, <2>11
  <2>13. age'[a] < RetryAfter + faults' * L + w
    BY <2>6
  <2> QED
    BY <2>9, <2>10, <2>12, <2>13 DEF Paced
<1>6. PaceOK(L)'
  <2> SUFFICES ASSUME NEW a \in Approvals, Stuck(a)', a \notin asked'
               PROVE  \E w \in 0 .. L : Paced(L, a, w)'
    BY DEF PaceOK
  <2>1. PICK w \in 0 .. L : Paced(L, a, w)
    BY DEF PInv, PaceOK, Stuck
  <2>2. a # b
    OBVIOUS
  <2> QED
    BY <1>5, <2>1, <2>2
<1>7. WaitOK'
  <2> SUFFICES ASSUME NEW u \in Tabs, get'[u].step = "wait"
               PROVE  Rows[get'[u].row] \in asked' \/ age'[Rows[get'[u].row]] = 0
    BY DEF WaitOK, Row
  <2>1. CASE u = t
    BY <1>4, <2>1 DEF Row
  <2>2. CASE u # t
    <3>1. get'[u] = get[u] /\ WaitOK
      BY <1>4, <2>2 DEF PInv
    <3>2. Rows[get[u].row] \in asked \/ age[Rows[get[u].row]] = 0
      BY <3>1 DEF WaitOK, Row
    <3> QED
      BY <3>1, <3>2
  <2> QED
    BY <2>1, <2>2
<1>8. CoolOK'
  BY <1>2, <1>3 DEF PInv, CoolOK, Stuck
<1> QED
  BY <1>6, <1>7, <1>8 DEF PInv

LEMMA AskWorkerKeepsPace ==
  ASSUME IInv, IInv', NEW L \in Nat, Roomy(L), Few(L), PInv(L), NEW t \in Tabs,
         AskWorker(t)
  PROVE  PInv(L)'
<1>1. get[t].step = "ask" /\ UNCHANGED <<doc, age, faults>>
  BY DEF AskWorker, worker
<1>2. Row(t) \in Approvals
  BY <1>1, RowIsApproval DEF IInv
<1>3. CASE /\ CoolingDown(Row(t)) \/ get[t].budget = 0
           /\ PassOver(t) /\ UNCHANGED <<attempted, asked>>
  <2>1. ASSUME Stuck(Row(t)), Row(t) \notin asked, CoolingDown(Row(t))
        PROVE  age[Row(t)] < RetryAfter
    <3>1. attempted[Row(t)] # None /\ attempted[Row(t)] < RetryAfter
      BY <2>1 DEF CoolingDown
    <3>2. attempted[Row(t)] >= RetryAfter \/ attempted[Row(t)] >= age[Row(t)]
      BY <1>2, <2>1, <3>1 DEF PInv, CoolOK
    <3>3. attempted[Row(t)] \in Nat /\ age[Row(t)] \in Nat
      BY <1>2, <3>1 DEF IInv, TypeOK
    <3> QED
      BY <3>1, <3>2, <3>3, ClockAssumption
  <2> QED
    BY <1>1, <1>3, <2>1, ServeKeepsPace DEF PassOver, Serve
<1>4. CASE /\ ~(CoolingDown(Row(t)) \/ get[t].budget = 0)
           /\ NoteAttempt(Row(t))
           /\ asked' = asked \cup {Row(t)}
           /\ get' = [get EXCEPT ![t].budget = @ - 1, ![t].step = "wait"]
           /\ UNCHANGED <<told, settled, polled>>
  BY <1>1, <1>4, AskKeepsPace
<1> QED
  BY <1>1, <1>3, <1>4 DEF AskWorker

LEMMA TabKeepsPace ==
  ASSUME IInv, IInv', NEW L \in Nat, Roomy(L), Few(L), PInv(L), NEW t \in Tabs,
         TabStep(t)
  PROVE  PInv(L)'
BY StartGetKeepsPace, ReadRowKeepsPace, AskWorkerKeepsPace, AfterAskKeepsPace
DEF TabStep

\* A fault that touches no tab.
LEMMA DistantFaultKeepsPace ==
  ASSUME IInv, IInv', NEW L \in Nat, PInv(L), ReadFails,
         UNCHANGED <<doc, age, attempted, get, polled, asked>>
  PROVE  PInv(L)'
<1>1. PaceOK(L)' /\ faults' <= MaxFaults
  BY FaultKeepsPace
<1>2. WaitOK' /\ CoolOK'
  BY DEF PInv, WaitOK, CoolOK, Stuck, Row
<1> QED
  BY <1>1, <1>2 DEF PInv

LEMMA PostKeepsPace ==
  ASSUME IInv, IInv', NEW L \in Nat, PInv(L), NEW p \in Posts, PostStep(p)
  PROVE  PInv(L)'
<1>1. UNCHANGED <<doc, age, attempted, get, polled, asked>>
  BY DEF PostStep, Approve, Reject, GiveUp, Respond, worker, desk, caches
<1>2. faults' = faults \/ ReadFails
  BY DEF PostStep, Approve, Reject, GiveUp, Respond
<1> QED
  BY <1>1, <1>2, StillKeepsPace, DistantFaultKeepsPace

LEMMA WorkerKeepsPace ==
  ASSUME IInv, IInv', NEW L \in Nat, PInv(L), WorkerStep
  PROVE  PInv(L)'
<1>1. UNCHANGED <<attempted, get, polled>>
  BY DEF WorkerStep, Refuse, Deny, Claim, StartUpdate, EndWait, WorkerDies,
         Reconcile, OpEnds, desk, caches
<1>2. ASSUME NEW p \in Posts, Refuse(p) PROVE PInv(L)'
  BY <1>1, <1>2, StillKeepsPace DEF Refuse, worker, desk
<1>3. ASSUME NEW p \in Posts, Deny(p) \/ Claim(p) PROVE PInv(L)'
  <2>1. post[p].on \in Approvals
    BY <1>3, DenyWrites, ClaimWrites
  <2>2. asked' = asked /\ faults' = faults /\ \E d : Record(post[p].on, d)
    BY <1>3 DEF Deny, Claim, desk
  <2> QED
    BY <1>1, <2>1, <2>2, RecordKeepsPace
<1>4. ASSUME NEW p \in Posts, StartUpdate(p) \/ EndWait(p) PROVE PInv(L)'
  <2>1. post[p].on \in Approvals
    BY <1>4, StartWrites, EndWrites
  <2>2. /\ asked' = asked \ {post[p].on} /\ faults' = faults
        /\ \E d : Record(post[p].on, d)
    BY <1>4 DEF StartUpdate, EndWait, Unasked
  <2> QED
    BY <1>1, <2>1, <2>2, RecordKeepsPace
<1>5. ASSUME NEW t \in Tabs, NEW a \in Approvals, Reconcile(t, a) PROVE PInv(L)'
  <2>1. asked' = asked /\ faults' = faults
    BY <1>5 DEF Reconcile, desk
  <2>2. UNCHANGED <<doc, age>> \/ \E d : Record(a, d)
    BY <1>5 DEF Reconcile
  <2> QED
    BY <1>1, <2>1, <2>2, RecordKeepsPace, StillKeepsPace
<1>6. ASSUME NEW a \in Approvals, OpEnds(a) PROVE PInv(L)'
  BY <1>1, <1>6, StillKeepsPace DEF OpEnds, desk
<1>7. CASE WorkerDies
  BY <1>1, <1>7, DistantFaultKeepsPace DEF WorkerDies, desk
<1> QED
  BY <1>2, <1>3, <1>4, <1>5, <1>6, <1>7 DEF WorkerStep

LEMMA RestartKeepsPace ==
  ASSUME IInv, IInv', NEW L \in Nat, PInv(L), Restart
  PROVE  PInv(L)'
<1>1. /\ ReadFails /\ UNCHANGED <<doc, age, asked>>
      /\ attempted' = [a \in Approvals |-> None]
      /\ get' = [t \in Tabs |-> NoGet]
  BY DEF Restart, worker
<1>2. PaceOK(L)' /\ faults' <= MaxFaults
  BY <1>1, FaultKeepsPace
<1>3. WaitOK' /\ CoolOK'
  BY <1>1 DEF WaitOK, CoolOK, NoGet
<1> QED
  BY <1>2, <1>3 DEF PInv

\* A tick comes after a GET that was served, which had no budget left for a
\* row that still waits: one more tick of waiting, one more budget spent.
LEMMA TickKeepsPace ==
  ASSUME IInv, IInv', NEW L \in Nat, Roomy(L), Few(L), PInv(L), Tick
  PROVE  PInv(L)'
<1>1. /\ polled /\ polled' = FALSE
      /\ \A t \in Tabs : get[t] = NoGet
      /\ UNCHANGED <<doc, get, asked, faults>>
      /\ age' = [a \in Approvals |->
                   IF doc[a].phase \in Reconcilable /\ age[a] <= GiveUpAfter
                   THEN age[a] + 1 ELSE age[a]]
      /\ attempted' = [a \in Approvals |->
                         IF attempted[a] \in 0 .. RetryAfter - 1
                         THEN attempted[a] + 1 ELSE attempted[a]]
  BY DEF Tick
<1>2. /\ age \in [Approvals -> Nat] /\ faults \in Nat
      /\ attempted \in [Approvals -> Nat \cup {None}]
      /\ RetryAfter \in Nat /\ GiveUpAfter \in Nat /\ Budget \in Nat \ {0}
  BY ClockAssumption DEF IInv, TypeOK
<1>3. ASSUME NEW a \in Approvals
      PROVE  /\ age'[a] \in {age[a], age[a] + 1}
             /\ attempted[a] = None <=> attempted'[a] = None
             /\ attempted[a] # None =>
                  /\ attempted[a] < RetryAfter => attempted'[a] = attempted[a] + 1
                  /\ attempted[a] >= RetryAfter => attempted'[a] = attempted[a]
  BY <1>1, <1>2, NoneAssumption
<1>4. NoGet.step = "idle"
  BY DEF NoGet
<1>5. WaitOK'
  BY <1>1, <1>4 DEF WaitOK
<1>6. CoolOK'
  <2> SUFFICES ASSUME NEW a \in Approvals, Stuck(a)', a \notin asked',
                      attempted'[a] # None
               PROVE  attempted'[a] >= RetryAfter \/ attempted'[a] >= age'[a]
    BY DEF CoolOK
  <2>1. attempted[a] # None /\ attempted[a] \in Nat /\ age[a] \in Nat
    BY <1>2, <1>3
  <2>2. attempted[a] >= RetryAfter \/ attempted[a] >= age[a]
    BY <1>1, <2>1 DEF PInv, CoolOK, Stuck
  <2> QED
    BY <1>2, <1>3, <2>1, <2>2
<1>7. ASSUME NEW a \in Approvals, Stuck(a)', a \notin asked'
      PROVE  \E w \in 0 .. L : Paced(L, a, w)'
  <2>1. Stuck(a) /\ a \notin asked
    BY <1>1, <1>7 DEF Stuck
  <2>2. PICK w \in 0 .. L : Paced(L, a, w)
    BY <2>1 DEF PInv, PaceOK
  <2> DEFINE n == Cardinality(Recent(a, w))
             m == Cardinality(Recent(a, w + 1)')
  <2>3. w * Budget <= n
    BY <1>1, <2>2 DEF Paced
  <2>4. n < L * Budget
    BY <2>1, RoomIsLeft
  <2>5. w + 1 \in 0 .. L
    <3>1. w # L
      <4> SUFFICES ASSUME w = L PROVE FALSE
        OBVIOUS
      <4>1. L * Budget <= n /\ n < L * Budget
        BY <2>3, <2>4
      <4>2. n \in Nat /\ L * Budget \in Nat
        BY <1>2, RecentIsFinite
      <4> HIDE DEF n
      <4> QED
        BY <4>1, <4>2
    <3> QED
      BY <3>1
  <2>6. n <= m
    <3>1. Recent(a, w) \subseteq Recent(a, w + 1)'
      <4> SUFFICES ASSUME NEW b \in Approvals \ {a}, attempted[b] # None,
                          attempted[b] < w
                   PROVE  attempted'[b] # None /\ attempted'[b] < w + 1
        BY DEF Recent
      <4>1. attempted[b] \in Nat
        BY <1>2
      <4>2. attempted[b] < RetryAfter
        BY <1>2, <4>1 DEF Roomy
      <4> QED
        BY <1>3, <4>1, <4>2
    <3>2. IsFiniteSet(Recent(a, w + 1)')
      BY RecentIsFiniteThen
    <3> QED
      BY <3>1, <3>2, FS_Subset
  <2>7. n \in Nat /\ m \in Nat
    BY RecentIsFinite, RecentIsFiniteThen
  <2>8. (w + 1) * Budget <= m + Budget
    <3>1. (w + 1) * Budget = w * Budget + Budget /\ w * Budget \in Nat
      BY <1>2
    <3> DEFINE p == w * Budget
    <3>2. p \in Nat /\ p <= n /\ (w + 1) * Budget = p + Budget
      BY <2>3, <3>1
    <3> HIDE DEF n, m, p
    <3> QED
      BY <1>2, <2>6, <2>7, <3>2
  <2>9. age'[a] < RetryAfter + faults' * L + (w + 1)
    <3>1. age[a] < RetryAfter + faults * L + w
      BY <2>2 DEF Paced
    <3>2. age[a] \in Nat /\ faults * L \in Nat /\ faults' * L = faults * L
      BY <1>1, <1>2
    <3>3. age'[a] = age[a] \/ age'[a] = age[a] + 1
      BY <1>3
    <3> DEFINE f == faults * L
    <3>4. f \in Nat /\ age[a] < RetryAfter + f + w /\ faults' * L = f
      BY <3>1, <3>2
    <3> HIDE DEF f
    <3> QED
      BY <1>2, <3>2, <3>3, <3>4
  <2>10. \A t \in Tabs : get'[t].step = "idle"
    BY <1>1, <1>4
  <2>11. Paced(L, a, w + 1)'
    BY <1>1, <2>8, <2>9, <2>10 DEF Paced, Passed
  <2> QED
    BY <2>5, <2>11
<1>8. faults' <= MaxFaults
  BY <1>1 DEF PInv
<1> QED
  BY <1>5, <1>6, <1>7, <1>8 DEF PInv, PaceOK

LEMMA PaceStep ==
  ASSUME IInv, IInv', NEW L \in Nat, Roomy(L), Few(L), PInv(L), [Next]_vars
  PROVE  PInv(L)'
<1>1. CASE UNCHANGED vars
  BY <1>1, StillKeepsPace DEF vars
<1> QED
  BY <1>1, TabKeepsPace, PostKeepsPace, WorkerKeepsPace, RestartKeepsPace,
     TickKeepsPace DEF Next

LEMMA PaceInit ==
  ASSUME Init, NEW L \in Nat
  PROVE  PInv(L)
<1>1. \A a \in Approvals : doc[a].phase = None
  BY DeniedFacts DEF Init
<1>2. None \notin Reconcilable
  BY NoneAssumption DEF Reconcilable, Phases
<1>3. \A t \in Tabs : get[t].step = "idle"
  BY DEF Init, NoGet
<1>4. 0 <= MaxFaults
  BY ClockAssumption
<1> QED
  BY <1>1, <1>2, <1>3, <1>4 DEF Init, PInv, WaitOK, CoolOK, PaceOK, Stuck

-----------------------------------------------------------------------------
(* Theorems                                                                *)

\* Every variable of the desk keeps its type: the documents, the worker's
\* slot, the caches, the GETs, what the tabs show and the POSTs.
THEOREM TypeCorrect == Spec => []TypeOK
<1>1. IInv => TypeOK
  BY DEF IInv
<1> QED
  BY <1>1, Invariance, PTL

\* A record in _TERMINAL_APPROVALS is the document for as long as the
\* instance serves it, whatever the worker, /deny and the /reconcile calls
\* still under way do.
THEOREM CachesAreFinal == Spec => []CacheIsFinal
<1>1. IInv => CacheIsFinal
  BY DEF IInv, CacheOK, CacheIsFinal
<1> QED
  BY <1>1, Invariance, PTL

\* GET /decisions never contradicts what it has told a tab: a final row stays final
\* or, while its read fails, becomes a neutral note, and a spent one is not offered
\* for approval again, for any number of tabs, rows, faults and restarts.
THEOREM RowsNeverRelapse == Spec => NoRelapse
<1> DEFINE A == \A t \in Tabs, a \in Approvals :
                  /\ told[t][a] = "final" => shown'[t][a] \in {"final", "unavailable"}
                  /\ told[t][a] = "spent" => shown'[t][a] # "offered"
<1>1. ASSUME IInv, [Next]_vars PROVE A
  <2>1. ASSUME NEW t \in Tabs, NEW a \in Approvals
        PROVE  /\ told[t][a] = "final" => told'[t][a] = "final"
               /\ told[t][a] = "spent" => told'[t][a] # "offered"
    <3>1. CASE \E u \in Tabs : TabStep(u)
      BY <1>1, <3>1, TabStepKeeps DEF TabKeeps
    <3>2. CASE told' = told
      BY <3>2
    <3>3. told' = told \/ \E u \in Tabs : TabStep(u)
      BY <1>1 DEF Next, PostStep, Approve, Reject, GiveUp, Respond, WorkerStep,
         Refuse, Deny, Claim, StartUpdate, EndWait, WorkerDies, Reconcile, OpEnds,
         Restart, Tick, vars, desk
    <3> QED
      BY <3>1, <3>2, <3>3
  <2>2. \A t \in Tabs, a \in Approvals : shown'[t][a] \in {told'[t][a], "unavailable"}
    BY <1>1, ShownStep DEF ShownOK
  <2> QED
    BY <2>1, <2>2
<1>2. IInv /\ [Next]_vars => [A]_vars
  BY <1>1
<1> HIDE DEF A
<1>3. Spec => [][A]_vars
  BY <1>2, Invariance, PTL DEF Spec
<1> QED
  BY <1>3 DEF NoRelapse, A

\* The desk never queues a /reconcile behind the /execute it is about, since
\* it asks about no document younger than the wait of /execute.
THEOREM DeskLeavesExecuteAlone == Spec => LeavesExecuteAlone
<1> DEFINE A == \A x \in asks' \ asks : slot # None => post[slot].on # x[2]
<1>1. ASSUME IInv, [Next]_vars PROVE A
  <2>1. ASSUME NEW t \in Tabs, AskWorker(t) PROVE A
    <3>1. asks' = asks \/ asks' = asks \cup {<<t, Row(t)>>}
      BY <2>1 DEF AskWorker
    <3>2. slot # None => post[slot].on # Row(t)
      BY <1>1, <2>1 DEF IInv, AskOK, AskWorker
    <3> QED
      BY <3>1, <3>2
  <2>2. asks' \subseteq asks \/ \E t \in Tabs : AskWorker(t)
    BY <1>1 DEF Next, TabStep, StartGet, ReadRow, AfterAsk, PostStep, Approve,
       Reject, GiveUp, Respond, WorkerStep, Refuse, Deny, Claim, StartUpdate,
       EndWait, WorkerDies, Reconcile, OpEnds, Restart, Tick, vars
  <2> QED
    BY <2>1, <2>2
<1>2. IInv /\ [Next]_vars => [A]_vars
  BY <1>1
<1> HIDE DEF A
<1>3. Spec => [][A]_vars
  BY <1>2, Invariance, PTL DEF Spec
<1> QED
  BY <1>3 DEF LeavesExecuteAlone, A

\* "Rollback worker unavailable" is the truth about an approval: when the
\* document can be read, a POST that claimed it is never told so.
THEOREM OutagesAreOutages == Spec => OutageIsOutage
<1> DEFINE A == \A p \in Posts :
                  /\ post[p].page = "none" /\ post'[p].page = "outage"
                  /\ post[p].decision = "approve" /\ faults' = faults
                  => owner[post[p].on] # p
<1>1. ASSUME IInv, [Next]_vars PROVE A
  <2> SUFFICES ASSUME NEW p \in Posts,
                      post[p].page = "none", post'[p].page = "outage",
                      post[p].decision = "approve", faults' = faults,
                      owner[post[p].on] = p
               PROVE  FALSE
    OBVIOUS
  <2>0. post \in [Posts -> PostStates] /\ faults \in Nat
    BY <1>1 DEF IInv, TypeOK
  <2>1. Respond(p)
    <3>1. ASSUME NEW q \in Posts, NEW r, Put(q, r),
                 r.page = "outage" => r.page = post[q].page
          PROVE  FALSE
      BY <2>0, <3>1 DEF Put
    <3>2. ASSUME NEW q \in Posts, Respond(q) PROVE q = p
      BY <2>0, <3>2 DEF Respond, Show, Put
    <3>3. ASSUME NEW q \in Posts, NEW r, Reply(q, r) PROVE FALSE
      BY <2>0, <3>1, <3>3 DEF Reply, PostStates
    <3>4. ASSUME NEW q \in Posts, NEW a, NEW d, NEW b, Put(q, Sent(a, d, b))
          PROVE  FALSE
      BY <2>0, <3>4 DEF Put, Sent, NoPost
    <3>5. ASSUME NEW q \in Posts, GiveUp(q) PROVE FALSE
      BY <2>0, <3>1, <3>5 DEF GiveUp, PostStates
    <3>6. ASSUME NEW q \in Posts, Claim(q) PROVE FALSE
      BY <2>0, <3>1, <3>6 DEF Claim, PostStates
    <3>7. post' # post
      BY <2>0
    <3>8. ASSUME Restart PROVE FALSE
      BY <2>0, <3>8 DEF Restart, PostStates
    <3>9. ASSUME WorkerDies PROVE FALSE
      BY <3>3, <3>9 DEF WorkerDies, ReadFails
    <3>10. ASSUME NEW q \in Posts, PostStep(q) PROVE Respond(p)
      BY <3>2, <3>4, <3>5, <3>10 DEF PostStep, Approve, Reject
    <3>11. ASSUME WorkerStep PROVE FALSE
      BY <3>3, <3>6, <3>7, <3>9, <3>11 DEF WorkerStep, Refuse, Deny,
         StartUpdate, EndWait, Reconcile, OpEnds
    <3>12. ASSUME NEW t \in Tabs, TabStep(t) PROVE FALSE
      BY <3>7, <3>12 DEF TabStep, StartGet, ReadRow, AskWorker, AfterAsk
    <3> QED
      BY <1>1, <3>7, <3>8, <3>10, <3>11, <3>12 DEF Next, Tick, vars
  <2>2. /\ post[p].answer = "5xx"
        /\ ~Advanced(post[p].before, doc[post[p].on].phase)
    <3>1. faults + 1 # faults
      BY <2>0
    <3>2. ASSUME NEW page, Show(p, page) PROVE page = "outage"
      BY <2>0, <3>2 DEF Show, Put, PostStates
    <3>3. ~ReadFails
      BY <3>1 DEF ReadFails
    <3> QED
      BY <2>1, <3>2, <3>3 DEF Respond, ErrorPage
  <2>3. post[p].on \in Approvals
    BY <1>1, <2>2 DEF IInv, OwnerOK
  <2>4. doc[post[p].on].status = "used" /\ doc[post[p].on].phase # None
    BY <1>1, <2>3, NoneAssumption DEF IInv, OwnerOK, DocShape
  <2>5. post[p].before = None
    BY <1>1, <2>3 DEF IInv, OwnerOK
  <2> QED
    BY <2>2, <2>4, <2>5 DEF Advanced
<1>2. IInv /\ [Next]_vars => [A]_vars
  BY <1>1
<1> HIDE DEF A
<1>3. Spec => [][A]_vars
  BY <1>2, Invariance, PTL DEF Spec
<1> QED
  BY <1>3 DEF OutageIsOutage, A

\* With an open tab every stuck rollback is asked about before it is given up
\* (_maybe_reconcile), if the rows that are stuck or were asked about in the
\* last L polls are never more than the budget of L polls, L polls fit into a
\* cooldown, and a round of them for each fault ends below the ceiling.
THEOREM StuckRowsAreTried ==
  ASSUME NEW CONSTANT L \in Nat, Roomy(L)
  PROVE  Spec /\ []Few(L) => []TriedBeforeGivingUp
<1>1. Init => PInv(L)
  BY PaceInit
<1>2. IInv /\ IInv' /\ Few(L) /\ PInv(L) /\ [Next]_vars => PInv(L)'
  BY PaceStep
<1>3. IInv /\ PInv(L) => TriedBeforeGivingUp
  <2> SUFFICES ASSUME IInv, PInv(L), NEW a \in Approvals, Stuck(a),
                      age[a] > GiveUpAfter, a \notin asked
               PROVE  FALSE
    BY DEF TriedBeforeGivingUp, Stuck
  <2>1. age[a] <= GiveUpAfter
    BY BelowCeiling
  <2>2. age[a] \in Nat /\ GiveUpAfter \in Nat
    BY ClockAssumption DEF IInv, TypeOK
  <2> QED
    BY <2>1, <2>2
<1> QED
  BY <1>1, <1>2, <1>3, Invariance, PTL DEF Spec

\* So it is in a window of no more rows than the budget of L polls.
THEOREM SmallWindowsAreTried ==
  ASSUME NEW CONSTANT L \in Nat, Roomy(L),
         Cardinality(Approvals) <= L * Budget,
         Cardinality(Approvals) < AttemptedMax
  PROVE  Spec => []TriedBeforeGivingUp
<1>1. Few(L)
  <2>1. Busy(L) \subseteq Approvals /\ Attempts \subseteq Approvals
    BY DEF Busy, Attempts
  <2>2. /\ Cardinality(Busy(L)) <= Cardinality(Approvals)
        /\ Cardinality(Attempts) <= Cardinality(Approvals)
        /\ Cardinality(Busy(L)) \in Nat /\ Cardinality(Attempts) \in Nat
        /\ Cardinality(Approvals) \in Nat
    BY <2>1, WindowIsFinite, FS_Subset, FS_CardinalityType
  <2>3. L * Budget \in Nat /\ AttemptedMax \in Nat
    BY ClockAssumption
  <2> QED
    BY <2>2, <2>3 DEF Few
<1> QED
  BY <1>1, StuckRowsAreTried, PTL
=============================================================================
