--------------------------------- MODULE Desk -------------------------------
(***************************************************************************)
(* The operator's desk over the rollback approvals, as the coordinator     *)
(* (agent/main.py) serves it: GET /decisions, polled by every open tab,    *)
(* which joins each row with its approval document and asks the rollback   *)
(* worker to settle the stuck ones; and POST /approvals/{id}, which hands  *)
(* the operator's decision to the worker and, when the worker's answer is  *)
(* an error, decides from the document what page to show.                  *)
(*                                                                         *)
(* The worker has one slot (--concurrency=1 --max-instances=1): calls wait *)
(* for it, a caller that gives up does not cancel its call, and an         *)
(* /execute keeps the slot until its operation ends or its wait does.      *)
(* The races inside the worker are the subject of RollbackApproval; here   *)
(* its handlers are what the coordinator and the document see of them.     *)
(*                                                                         *)
(* Time is counted in ticks of the desk's poll (45 s).                     *)
(***************************************************************************)
EXTENDS Naturals, FiniteSets, Sequences

CONSTANTS Rows,          \* the approvals of the served window, in row order
          Tabs,          \* browser tabs polling GET /decisions
          Posts,         \* approval POSTs
          None,          \* an absent value
          ExecuteCap,    \* ticks /execute waits for its operation (60 s)
          MinAge,        \* _RECONCILE_MIN_AGE_S (90 s)
          RetryAfter,    \* _RECONCILE_RETRY_AFTER_S (300 s)
          GiveUpAfter,   \* _RECONCILE_GIVE_UP_AFTER_S (24 h)
          Budget,        \* _DECISIONS_RECONCILE_BUDGET, per GET
          AttemptedMax,  \* _RECONCILE_ATTEMPTED_MAX
          MaxFaults      \* failed reads and deaths of a process in a run

ASSUME ClockAssumption ==
  /\ {ExecuteCap, MinAge, RetryAfter, GiveUpAfter, Budget, AttemptedMax,
      MaxFaults} \subseteq Nat
  /\ ExecuteCap < MinAge /\ MinAge <= RetryAfter /\ RetryAfter <= GiveUpAfter
  /\ Budget > 0 /\ AttemptedMax > 1
ASSUME RowsAssumption == Rows # <<>> /\ Rows \in Seq({Rows[i] : i \in DOMAIN Rows})

VARIABLES
  doc,        \* doc[a]: the approval document of a
  op,         \* op[a]: the operation whose handle the document of a records
  age,        \* age[a]: ticks since phase_at of a, while it is unsettled
  slot,       \* the POST whose /execute holds the worker, or None
  asks,       \* the /reconcile calls waiting for the worker: <<tab, approval>>
  settled,    \* settled[a]: _TERMINAL_APPROVALS, or None
  attempted,  \* attempted[a]: ticks since its last attempt, or None
  get,        \* get[t]: the GET /decisions of tab t
  shown,      \* shown[t][a]: what tab t makes of row a as last answered
  told,       \* told[t][a]: what it made of it when it was last joined (history)
  post,       \* post[p]: the approval POST p
  polled,     \* a GET has been served since the last tick
  owner,      \* owner[a]: the POST whose /execute claimed a, or None
  asked,      \* the approvals asked about since their phase was recorded
  faults      \* faults so far

worker == <<doc, op, age, slot>>
caches == <<settled, attempted>>
desk == <<caches, get, shown, told, polled, asked>>
vars == <<doc, op, age, slot, asks, settled, attempted, get, shown, told,
          post, polled, owner, asked, faults>>

-----------------------------------------------------------------------------
(* The document                                                            *)

Approvals == {Rows[i] : i \in DOMAIN Rows}
Phases == {"claimed", "applying", "applied", "failed", "outcome_unknown"}
Terminal == {"applied", "failed"}
Reconcilable == {"applying", "outcome_unknown"}

Doc == [status : {"pending", "used", "denied"}, phase : Phases \cup {None},
        handle : BOOLEAN]
Pending == [status |-> "pending", phase |-> None, handle |-> FALSE]
Denied == [Pending EXCEPT !.status = "denied"]
Used(phase, handle) ==
  [status |-> "used", phase |-> phase, handle |-> handle]

ASSUME NoneAssumption == /\ None \notin Phases \cup Posts \cup Approvals \cup Doc
                         /\ None \notin Nat

\* record_phase on a document that is not terminal: phase_at is now.
Record(a, d) == /\ doc' = [doc EXCEPT ![a] = d]
                /\ age' = [age EXCEPT ![a] = 0]

\* Mutant: any recorded outcome is taken for the last one.
IsTerminalOutcome(d) ==
  d.status = "denied" \/ d.phase \in Terminal \cup {"outcome_unknown"}

\* _is_terminal_approval: nothing can move this document again.
IsTerminal(d) == d.status = "denied" \/ d.phase \in Terminal

\* A read of Firestore that raises.
ReadFails == faults < MaxFaults /\ faults' = faults + 1

-----------------------------------------------------------------------------
(* GET /decisions                                                          *)

NoGet == [row |-> 0, budget |-> 0, rec |-> None, step |-> "idle"]
Row(t) == Rows[get[t].row]

\* What the frontend makes of a served row, from that row alone.  A row without
\* a status, or with the status pending, offers Approve.
Views == {"offered", "spent", "final"}
View(d) == IF d = None \/ d.status = "pending" THEN "offered"
           ELSE IF IsTerminal(d) THEN "final" ELSE "spent"

\* The GET goes on with the next row and the budget left, or is served.
NextRow(t, left) ==
  IF get[t].row = Len(Rows)
  THEN /\ get' = [get EXCEPT ![t] = NoGet]
       /\ polled' = TRUE
  ELSE /\ get' = [get EXCEPT ![t] = [row |-> get[t].row + 1, budget |-> left,
                                    rec |-> None, step |-> "read"]]
       /\ UNCHANGED polled

Joined(t, d) == /\ shown' = [shown EXCEPT ![t][Row(t)] = View(d)]
                /\ told' = [told EXCEPT ![t][Row(t)] = View(d)]

\* The row is answered with d, which the reader remembers if it is final.
Serve(t, d) ==
  /\ Joined(t, d)
  /\ settled' = IF IsTerminal(d) THEN [settled EXCEPT ![Row(t)] = d]
                                 ELSE settled
  /\ NextRow(t, get[t].budget)

\* Mutant: a read that fails is taken for a document that is not there.
RowMissing(t) == Joined(t, None)

\* The row carries status_unavailable and nothing of its approval: the tab, whose
\* list is replaced, makes a neutral note of it.
RowUnavailable(t) ==
  /\ shown' = [shown EXCEPT ![t][Row(t)] = "unavailable"]
  /\ UNCHANGED told

StartGet(t) ==
  /\ get[t].step = "idle"
  /\ get' = [get EXCEPT ![t] = [row |-> 1, budget |-> Budget,
                                rec |-> None, step |-> "read"]]
  /\ UNCHANGED <<worker, asks, caches, shown, told, post, polled, owner, asked,
                 faults>>

\* Mutant: a record is asked about at any age below the ceiling.
EligibleAnyAge(a) == /\ doc[a].phase \in Reconcilable
                     /\ doc[a].handle
                     /\ age[a] <= GiveUpAfter

\* The gates of _maybe_reconcile that only look at the record just read: an
\* unsettled phase, a handle to ask about, an age past /execute's own wait
\* and not past the ceiling.
Eligible(a) == /\ doc[a].phase \in Reconcilable
               /\ doc[a].handle
               /\ age[a] >= MinAge
               /\ age[a] <= GiveUpAfter

\* _memoized_approval_reader and attach_approval_status: a cached final
\* record, the record as read, or status_unavailable when it cannot be read;
\* an eligible record goes on to the brakes.
ReadRow(t) ==
  /\ get[t].step = "read"
  /\ \/ /\ settled[Row(t)] # None
        /\ Serve(t, settled[Row(t)])
        /\ UNCHANGED faults
     \/ /\ settled[Row(t)] = None
        /\ ~Eligible(Row(t))
        /\ Serve(t, doc[Row(t)])
        /\ UNCHANGED faults
     \/ /\ settled[Row(t)] = None
        /\ Eligible(Row(t))
        /\ get' = [get EXCEPT ![t].rec = doc[Row(t)], ![t].step = "ask"]
        /\ UNCHANGED <<shown, told, settled, polled, faults>>
     \/ /\ settled[Row(t)] = None
        /\ ReadFails
        /\ RowUnavailable(t)
        /\ NextRow(t, get[t].budget)
        /\ UNCHANGED settled
  /\ UNCHANGED <<worker, asks, attempted, post, owner, asked>>

CoolingDown(a) == attempted[a] # None /\ attempted[a] < RetryAfter

\* _note_reconcile_attempt: a full table loses its oldest half first.
Attempts == {a \in Approvals : attempted[a] # None}
NoteAttempt(a) ==
  \E stale \in SUBSET Attempts :
    /\ Cardinality(stale) = IF Cardinality(Attempts) >= AttemptedMax
                            THEN AttemptedMax \div 2 ELSE 0
    /\ \A x \in stale, y \in Attempts \ stale : attempted[x] >= attempted[y]
    /\ attempted' = [x \in Approvals |-> IF x = a THEN 0
                                         ELSE IF x \in stale THEN None
                                         ELSE attempted[x]]

\* Mutant: the budget is spent before the cooldown is looked at.
PassOverSpending(t) ==
  /\ Joined(t, get[t].rec)
  /\ NextRow(t, IF get[t].budget = 0 THEN 0 ELSE get[t].budget - 1)
  /\ UNCHANGED settled

\* A row that waits for a later poll is served as it was read.
PassOver(t) == Serve(t, get[t].rec)

\* The brakes of _maybe_reconcile, the cooldown before the budget, and the
\* call they let through, noted before it is made.
AskWorker(t) ==
  /\ get[t].step = "ask"
  /\ IF CoolingDown(Row(t)) \/ get[t].budget = 0
     THEN PassOver(t) /\ UNCHANGED <<asks, attempted, asked>>
     ELSE /\ NoteAttempt(Row(t))
          /\ asks' = asks \cup {<<t, Row(t)>>}
          /\ asked' = asked \cup {Row(t)}
          /\ get' = [get EXCEPT ![t].budget = @ - 1, ![t].step = "wait"]
          /\ UNCHANGED <<shown, told, settled, polled>>
  /\ UNCHANGED <<worker, post, owner, faults>>

\* The call is answered and the document read again; or it is given up (15 s),
\* its answer is lost or the second read fails, and the old record stands.  A
\* call given up still waits for the worker.
AfterAsk(t) ==
  /\ get[t].step = "wait"
  /\ \/ <<t, Row(t)>> \notin asks /\ Serve(t, doc[Row(t)])
     \/ Serve(t, get[t].rec)
  /\ UNCHANGED <<worker, asks, attempted, post, owner, asked, faults>>

-----------------------------------------------------------------------------
(* POST /approvals/{id}                                                    *)

Answers == {"none", "2xx", "403", "409", "5xx"}
Pages == {"none", "done", "refused", "conflict", "outage", "recorded",
          "error", "lost"}
NoPost == [on |-> None, decision |-> "none", before |-> None,
           call |-> "none", answer |-> "none", page |-> "none"]
Sent(a, decision, before) ==
  [NoPost EXCEPT !.on = a, !.decision = decision, !.before = before,
                 !.call = "queued"]
Put(p, r) == post' = [post EXCEPT ![p] = r]

\* Approve: _recorded_phase before the call, None when the document has none
\* or cannot be read.  (A 423, or a 409 of the dial or of the missing
\* acknowledgment, changes nothing and is no step.)
Approve(p, a) ==
  /\ post[p] = NoPost
  /\ \/ Put(p, Sent(a, "approve", doc[a].phase)) /\ UNCHANGED faults
     \/ Put(p, Sent(a, "approve", None)) /\ ReadFails
  /\ UNCHANGED <<worker, asks, desk, owner>>

Reject(p, a) == /\ post[p] = NoPost
                /\ Put(p, Sent(a, "reject", None))
                /\ UNCHANGED <<worker, asks, desk, owner, faults>>

Waiting(p) == post[p] # NoPost /\ post[p].answer = "none"

\* The read timeout, or a transport error at any time: a synthetic 503.  The
\* call is not cancelled.
GiveUp(p) == /\ Waiting(p)
             /\ Put(p, [post[p] EXCEPT !.answer = "5xx"])
             /\ UNCHANGED <<worker, asks, desk, owner, faults>>

\* Mutant: only an outcome counts as the claim having landed.
AdvancedToEnd(before, after) == after \in Terminal /\ after # before

\* _approval_if_phase_advanced.
Advanced(before, after) == after # None /\ after # before

\* _map_worker_error: 409 and 5xx are told apart, the rest collapses.
ErrorPage(answer) == CASE answer = "409" -> "conflict"
                       [] answer = "5xx" -> "outage"
                       [] OTHER -> "refused"

Show(p, page) == Put(p, [post[p] EXCEPT !.page = page, !.before = None])

\* The rest of approval_post.  After a success the document is read once
\* more, unguarded; after a 5xx of an approval it is asked whether the claim
\* landed here, and a read that fails knows nothing.
Respond(p) ==
  /\ post[p].answer # "none" /\ post[p].page = "none"
  /\ \/ /\ post[p].answer = "2xx"
        /\ \/ Show(p, "done") /\ UNCHANGED faults
           \/ Show(p, "error") /\ ReadFails
     \/ /\ post[p].answer = "5xx" /\ post[p].decision = "approve"
        /\ \/ /\ Show(p, IF Advanced(post[p].before, doc[post[p].on].phase)
                         THEN "recorded" ELSE "outage")
              /\ UNCHANGED faults
           \/ Show(p, "outage") /\ ReadFails
     \/ /\ \/ post[p].answer \in {"403", "409"}
           \/ post[p].answer = "5xx" /\ post[p].decision = "reject"
        /\ Show(p, ErrorPage(post[p].answer))
        /\ UNCHANGED faults
  /\ UNCHANGED <<worker, asks, desk, owner>>

-----------------------------------------------------------------------------
(* The rollback worker, one call at a time                                 *)

\* The call of p ends with r, which a client that gave up never sees.
Reply(p, r) ==
  Put(p, [post[p] EXCEPT !.call = "over",
                         !.answer = IF Waiting(p) THEN r ELSE @])

Taken(p, decision) == /\ slot = None
                      /\ post[p].call = "queued"
                      /\ post[p].decision = decision
IsPending(p) == doc[post[p].on].status = "pending"

\* 403: not pending any more, or past its fifteen minutes; 409: a tagged
\* traffic target, found before the credential is burned.
Refuse(p) == /\ \/ Taken(p, "approve") /\ Reply(p, "403")
                \/ Taken(p, "approve") /\ IsPending(p) /\ Reply(p, "409")
                \/ Taken(p, "reject") /\ Reply(p, "403")
             /\ UNCHANGED <<worker, asks, desk, owner, faults>>

Deny(p) == /\ Taken(p, "reject") /\ IsPending(p)
           /\ Record(post[p].on, Denied)
           /\ Reply(p, "2xx")
           /\ UNCHANGED <<op, slot, asks, desk, owner, faults>>

\* /execute up to its claim, which takes the slot.
Claim(p) == /\ Taken(p, "approve") /\ IsPending(p)
            /\ Record(post[p].on, Used("claimed", FALSE))
            /\ slot' = p
            /\ owner' = [owner EXCEPT ![post[p].on] = p]
            /\ Put(p, [post[p] EXCEPT !.call = "running"])
            /\ UNCHANGED <<op, asks, desk, faults>>

\* A phase is recorded anew, so nobody has asked about it yet.
Unasked(a) == asked' = asked \ {a}

\* _start_traffic_update and the record that follows: a tag found now, an
\* error that may hide an accepted update, or an operation with its handle.
StartUpdate(p) ==
  LET a == post[p].on IN
  /\ slot = p /\ doc[a].phase = "claimed"
  /\ \/ /\ Record(a, Used("failed", FALSE)) /\ Reply(p, "409")
        /\ slot' = None /\ UNCHANGED op
     \/ /\ Record(a, Used("outcome_unknown", FALSE)) /\ Reply(p, "5xx")
        /\ slot' = None /\ UNCHANGED op
     \/ /\ Record(a, Used("applying", TRUE))
        /\ op' = [op EXCEPT ![a] = "running"]
        /\ UNCHANGED <<slot, post>>
  /\ Unasked(a)
  /\ UNCHANGED <<asks, caches, get, shown, told, polled, owner, faults>>

\* op.result: the operation ended, or the wait did (504, 502) and the outcome
\* is recorded as unknown, with the handle.
EndWait(p) ==
  LET a == post[p].on IN
  /\ slot = p /\ doc[a].phase = "applying"
  /\ \/ op[a] = "ok" /\ Record(a, Used("applied", TRUE)) /\ Reply(p, "2xx")
     \/ op[a] = "bad" /\ Record(a, Used("failed", TRUE)) /\ Reply(p, "5xx")
     \/ Record(a, Used("outcome_unknown", TRUE)) /\ Reply(p, "5xx")
  /\ slot' = None
  /\ Unasked(a)
  /\ UNCHANGED <<op, asks, caches, get, shown, told, polled, owner, faults>>

\* The container dies under an /execute.
WorkerDies ==
  /\ slot # None
  /\ ReadFails
  /\ slot' = None
  /\ Reply(slot, "5xx")
  /\ UNCHANGED <<doc, op, age, asks, desk, owner>>

\* /reconcile: an operation that cannot be read, has not ended or ended
\* malformed leaves the document alone; an end is recorded.
Reconcile(t, a) ==
  /\ slot = None /\ <<t, a>> \in asks
  /\ asks' = asks \ {<<t, a>>}
  /\ \/ UNCHANGED <<doc, age>>
     \/ /\ doc[a].phase \in Reconcilable /\ doc[a].handle
        /\ op[a] \in {"ok", "bad"}
        /\ Record(a, Used(IF op[a] = "ok" THEN "applied" ELSE "failed", TRUE))
  /\ UNCHANGED <<op, slot, desk, post, owner, faults>>

\* Cloud Run ends an operation.
OpEnds(a) == /\ op[a] = "running"
             /\ \E s \in {"ok", "bad"} : op' = [op EXCEPT ![a] = s]
             /\ UNCHANGED <<doc, age, slot, asks, desk, post, owner, faults>>

-----------------------------------------------------------------------------
(* The coordinator's instance is replaced, and the clock                   *)

\* Its caches are gone, its tabs poll again, its POSTs get no page.
Restart ==
  /\ ReadFails
  /\ settled' = [a \in Approvals |-> None]
  /\ attempted' = [a \in Approvals |-> None]
  /\ get' = [t \in Tabs |-> NoGet]
  /\ post' = [p \in Posts |->
                IF post[p] = NoPost \/ post[p].page # "none" THEN post[p]
                ELSE [post[p] EXCEPT !.page = "lost", !.before = None,
                        !.answer = IF @ = "none" THEN "5xx" ELSE @]]
  /\ UNCHANGED <<worker, asks, shown, told, polled, owner, asked>>

\* A poll interval passes: in it some tab has polled, no GET outlasts it, and
\* an /execute does not wait for its operation past its cap.
Tick ==
  /\ polled
  /\ \A t \in Tabs : get[t] = NoGet
  /\ slot # None => LET a == post[slot].on
                    IN  doc[a].phase = "applying" => age[a] < ExecuteCap
  /\ age' = [a \in Approvals |->
               IF doc[a].phase \in Reconcilable /\ age[a] <= GiveUpAfter
               THEN age[a] + 1 ELSE age[a]]
  /\ attempted' = [a \in Approvals |->
                     IF attempted[a] \in 0 .. RetryAfter - 1
                     THEN attempted[a] + 1 ELSE attempted[a]]
  /\ polled' = FALSE
  /\ UNCHANGED <<doc, op, slot, asks, settled, get, shown, told, post, owner,
                 asked, faults>>

-----------------------------------------------------------------------------
Init == /\ doc = [a \in Approvals |-> Pending]
        /\ op = [a \in Approvals |-> "none"]
        /\ age = [a \in Approvals |-> 0]
        /\ slot = None
        /\ asks = {}
        /\ settled = [a \in Approvals |-> None]
        /\ attempted = [a \in Approvals |-> None]
        /\ get = [t \in Tabs |-> NoGet]
        /\ shown = [t \in Tabs |-> [a \in Approvals |-> "offered"]]
        /\ told = shown
        /\ post = [p \in Posts |-> NoPost]
        /\ polled = FALSE
        /\ owner = [a \in Approvals |-> None]
        /\ asked = {}
        /\ faults = 0

TabStep(t) == StartGet(t) \/ ReadRow(t) \/ AskWorker(t) \/ AfterAsk(t)
PostStep(p) == \/ \E a \in Approvals : Approve(p, a) \/ Reject(p, a)
               \/ GiveUp(p) \/ Respond(p)
WorkerStep == \/ \E p \in Posts : \/ Refuse(p) \/ Deny(p) \/ Claim(p)
                                  \/ StartUpdate(p) \/ EndWait(p)
              \/ \E t \in Tabs, a \in Approvals : Reconcile(t, a)
              \/ \E a \in Approvals : OpEnds(a)
              \/ WorkerDies

Next == \/ \E t \in Tabs : TabStep(t)
        \/ \E p \in Posts : PostStep(p)
        \/ WorkerStep
        \/ Restart
        \/ Tick

Spec == Init /\ [][Next]_vars

-----------------------------------------------------------------------------
(* Properties                                                              *)

Gets == [row : 0 .. Len(Rows), budget : Nat, rec : Doc \cup {None},
         step : {"idle", "read", "ask", "wait"}]
PostStates == [on : Approvals \cup {None},
               decision : {"none", "approve", "reject"},
               before : Phases \cup {None},
               call : {"none", "queued", "running", "over"},
               answer : Answers, page : Pages]

TypeOK ==
  /\ doc \in [Approvals -> Doc]
  /\ op \in [Approvals -> {"none", "running", "ok", "bad"}]
  /\ age \in [Approvals -> Nat]
  /\ slot \in Posts \cup {None}
  /\ asks \subseteq Tabs \X Approvals
  /\ settled \in [Approvals -> Doc \cup {None}]
  /\ attempted \in [Approvals -> Nat \cup {None}]
  /\ get \in [Tabs -> Gets]
  /\ shown \in [Tabs -> [Approvals -> Views \cup {"unavailable"}]]
  /\ told \in [Tabs -> [Approvals -> Views]]
  /\ post \in [Posts -> PostStates]
  /\ polled \in BOOLEAN
  /\ owner \in [Approvals -> Posts \cup {None}]
  /\ asked \subseteq Approvals
  /\ faults \in Nat

\* A record in _TERMINAL_APPROVALS, which is served to every tab without a
\* read until the instance ends, is the document: nothing that the worker,
\* /deny or a /reconcile can still do makes it stale.
CacheIsFinal ==
  \A a \in Approvals : settled[a] # None => settled[a] = doc[a]

\* What a tab has been told is never contradicted: a spent approval is not
\* offered again and a final one not shown as open, whatever calls are given up,
\* caches are lost or other tabs do in between.  A read that fails takes the
\* outcome off the row, and not more (agent/main.py:4131).
NoRelapse ==
  [][\A t \in Tabs, a \in Approvals :
       /\ told[t][a] = "final" => shown'[t][a] \in {"final", "unavailable"}
       /\ told[t][a] = "spent" => shown'[t][a] # "offered"]_vars

\* The desk never queues a /reconcile behind the very /execute it is about.
LeavesExecuteAlone ==
  [][\A x \in asks' \ asks : slot # None => post[slot].on # x[2]]_vars

\* With an open tab the worker is asked about every stuck rollback before it
\* is given up, though rows that cannot be settled stand ahead of it.
TriedBeforeGivingUp ==
  \A a \in Approvals :
    doc[a].phase \in Reconcilable /\ doc[a].handle /\ age[a] > GiveUpAfter
      => a \in asked

\* An approval answered with "rollback worker unavailable" had not claimed
\* its document by then, unless the document could not be read.
OutageIsOutage ==
  [][\A p \in Posts :
       /\ post[p].page = "none" /\ post'[p].page = "outage"
       /\ post[p].decision = "approve" /\ faults' = faults
       => owner[post[p].on] # p]_vars

\* The page that stands in for a worker error shows an outcome this very
\* POST brought about (the claim in _approval_if_phase_advanced's docstring;
\* false, see the README).
PageIsOwn ==
  \A p \in Posts : post[p].page = "recorded" => owner[post[p].on] = p
=============================================================================
