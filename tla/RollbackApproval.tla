-------------------------- MODULE RollbackApproval -------------------------
(***************************************************************************)
(* The rollback approval lane: the approvals/ documents of                 *)
(* driftscribe_lib/approvals.py, the four endpoints of                     *)
(* workers/rollback/main.py that write them, and the Cloud Run service and *)
(* long-running operations (LROs) the worker drives.                       *)
(*                                                                         *)
(* A handler is one HTTP request in progress.  It is cut into steps at its *)
(* Firestore and Cloud Run calls, the points where another request, the    *)
(* clock, Cloud Run or a container death can come in between.  The worker  *)
(* is deployed with one slot, but a rolling deploy overlaps two instances  *)
(* and the store's own comments require the races to be safe, so any       *)
(* number of handlers may be in progress.                                  *)
(***************************************************************************)
EXTENDS FiniteSets

CONSTANTS Approvals,  \* approval ids (UUIDs minted by create)
          Revisions,  \* revisions of the target service
          Ops,        \* identities Cloud Run may give to operations
          Handlers,   \* requests that can be in progress at once
          None        \* an absent field

VARIABLES
  doc,      \* doc[a]: the Firestore document of approval a
  expired,  \* expired[a]: the clock has passed expires_at of a
  opFor,    \* opFor[o]: the approval whose /execute started o, or None
  opState,  \* opState[o]: what Cloud Run says of operation o
  active,   \* the revision at 100% of traffic
  tagged,   \* whether the service has a tagged traffic target
  pc,       \* pc[h]: where request h is in its endpoint
  on,       \* on[h]: the approval request h is about
  lro,      \* lro[h]: the operation request h holds a handle to
  todo,     \* todo[h]: the apply_audit request h is about to record
  reply     \* reply[h]: how the last request of h was answered

docVars == <<doc, expired>>
cloudVars == <<opFor, opState, active, tagged>>
reqVars == <<pc, on, lro, todo, reply>>
vars == <<doc, expired, opFor, opState, active, tagged,
          pc, on, lro, todo, reply>>

-----------------------------------------------------------------------------
(* The document and its phases                                             *)

Status == {"absent", "pending", "used", "denied"}
Phases == {"claimed", "applying", "applied", "failed", "outcome_unknown"}
Terminal == {"applied", "failed"}

Doc == [status : Status, target : Revisions \cup {None},
        phase : Phases \cup {None}, handle : Ops \cup {None},
        resolved : BOOLEAN]

NoDoc == [status |-> "absent", target |-> None, phase |-> None,
          handle |-> None, resolved |-> FALSE]

\* ApprovalStore.create: a pending document with no outcome.
Created(r) == [NoDoc EXCEPT !.status = "pending", !.target = r]

\* One argument of record_phase: phase, detail.operation_name, resolved_at.
Audit == [phase : Phases, handle : Ops \cup {None}, resolved : BOOLEAN]
Write(p, o) == [phase |-> p, handle |-> o, resolved |-> FALSE]
Seal(o) == [phase |-> "applied", handle |-> o, resolved |-> TRUE]

ASSUME NoneAssumption == /\ None \notin Approvals \cup Revisions \cup Ops
                         /\ None \notin Phases
                         /\ None \notin Audit

\* ApprovalStore._claim: pending -> new status, or the document as it is.
Claimed(d) == IF d.status = "pending"
              THEN [d EXCEPT !.status = "used", !.phase = "claimed"]
              ELSE d
Denied(d) == IF d.status = "pending"
             THEN [d EXCEPT !.status = "denied", !.resolved = TRUE]
             ELSE d

\* Mutant: the check for a terminal phase is made by the caller, too early.
RecordedOver(d, w) == [d EXCEPT !.phase = w.phase, !.handle = w.handle,
                                !.resolved = d.resolved \/ w.resolved]

\* ApprovalStore.record_phase: apply_audit is replaced as a whole, unless the
\* recorded phase is terminal; resolved_at is only ever added.
Recorded(d, w) ==
  IF d.status = "absent" \/ d.phase \in Terminal
  THEN d
  ELSE [d EXCEPT !.phase = w.phase, !.handle = w.handle,
                 !.resolved = d.resolved \/ w.resolved]

-----------------------------------------------------------------------------
(* Cloud Run, as the worker uses it                                        *)

OpStates == {"none", "running", "succeeded", "failed", "malformed"}

\* Some principal deploys, or adds or clears a tagged traffic target.
Deploy(r) == /\ active' = r
             /\ UNCHANGED <<doc, expired, opFor, opState, tagged, reqVars>>
ToggleTag == /\ tagged' = ~tagged
             /\ UNCHANGED <<doc, expired, opFor, opState, active, reqVars>>

\* A running operation completes.  "malformed" is done with neither a
\* response nor an error, which both readers of operations refuse to call
\* a success.
OpFinish(o, s) ==
  /\ opState[o] = "running"
  /\ opState' = [opState EXCEPT ![o] = s]
  /\ active' = IF s = "succeeded" THEN doc[opFor[o]].target ELSE active
  /\ UNCHANGED <<doc, expired, opFor, tagged, reqVars>>

\* The clock passes expires_at.
Expire(a) == /\ doc[a].status # "absent"
             /\ ~expired[a]
             /\ expired' = [expired EXCEPT ![a] = TRUE]
             /\ UNCHANGED <<doc, cloudVars, reqVars>>

-----------------------------------------------------------------------------
(* Requests                                                                *)

Steps == {"idle", "preflight", "claim", "start", "update", "applying",
          "wait", "deny", "operation", "record"}
Replies == {"none", "refused", "conflict", "executed", "failed",
            "unconfirmed", "denied", "reconciled"}

Goto(h, step) == pc' = [pc EXCEPT ![h] = step]

\* The request ends with answer r, keeping only what it was about.
Answer(h, r) == /\ Goto(h, "idle")
                /\ reply' = [reply EXCEPT ![h] = r]
                /\ lro' = [lro EXCEPT ![h] = None]
                /\ todo' = [todo EXCEPT ![h] = None]

\* The next step of the request records w, whatever is recorded by then.
Plan(h, w) == /\ Goto(h, "record")
              /\ todo' = [todo EXCEPT ![h] = w]

\* A request about a arrives and its first checks pass.
Arrive(h, a, step) == /\ pc[h] = "idle"
                      /\ Goto(h, step)
                      /\ on' = [on EXCEPT ![h] = a]
                      /\ reply' = [reply EXCEPT ![h] = "none"]

\* The checks /execute and /deny make on one read of the document: it is
\* pending and not past its expiry, and the presented token hashes, with the
\* approval id and the target revision, to the stored HMAC.  The last is a
\* matter of the request alone: only requests that carry the token of a are
\* steps here.  A refused request (404, 403) changes nothing and is no step.
Authorized(a) == doc[a].status = "pending" /\ ~expired[a]

\* POST /propose.  The revision list and the document write are one step:
\* a deploy between them ends in the state it ends in right after them.
Propose(a, r) ==
  /\ doc[a].status = "absent"
  /\ r # active
  /\ doc' = [doc EXCEPT ![a] = Created(r)]
  /\ UNCHANGED <<expired, cloudVars, reqVars>>

-----------------------------------------------------------------------------
(* POST /execute                                                           *)

Execute(h, a) == /\ Authorized(a)
                 /\ Arrive(h, a, "preflight")
                 /\ UNCHANGED <<docVars, cloudVars, lro, todo>>

\* _assert_no_tagged_targets, before the credential is burned.
Preflight(h) ==
  /\ pc[h] = "preflight"
  /\ IF tagged THEN Answer(h, "conflict")
               ELSE Goto(h, "claim") /\ UNCHANGED <<lro, todo, reply>>
  /\ UNCHANGED <<docVars, cloudVars, on>>

\* Mutant: the claim trusts the status the request read before.
ClaimBlind(h) ==
  /\ pc[h] = "claim"
  /\ doc' = [doc EXCEPT ![on[h]].status = "used", ![on[h]].phase = "claimed"]
  /\ Goto(h, "start")
  /\ UNCHANGED <<expired, cloudVars, on, lro, todo, reply>>

\* claim_pending: the transaction that burns the credential.
Claim(h) ==
  /\ pc[h] = "claim"
  /\ doc' = [doc EXCEPT ![on[h]] = Claimed(@)]
  /\ IF doc[on[h]].status = "pending"
     THEN Goto(h, "start") /\ UNCHANGED <<lro, todo, reply>>
     ELSE Answer(h, "refused")
  /\ UNCHANGED <<expired, cloudVars, on>>

\* _start_traffic_update up to its second tag check.  A tag found here is a
\* failure nothing was sent for; an error reading the service is not told
\* apart from a lost update and records no claim either way.
StartTrafficUpdate(h) ==
  /\ pc[h] = "start"
  /\ \/ tagged /\ Plan(h, Write("failed", None))
     \/ ~tagged /\ Goto(h, "update") /\ UNCHANGED todo
     \/ Plan(h, Write("outcome_unknown", None))
  /\ UNCHANGED <<docVars, cloudVars, on, lro, reply>>

\* update_service(update_mask=traffic).  Accepted, or refused; and an error
\* reaches the worker in the second case and also when the response of an
\* accepted mutation is lost.
UpdateService(h) ==
  /\ pc[h] = "update"
  /\ \/ \E o \in Ops :
          /\ opState[o] = "none"
          /\ opState' = [opState EXCEPT ![o] = "running"]
          /\ opFor' = [opFor EXCEPT ![o] = on[h]]
          /\ \/ /\ Goto(h, "applying")
                /\ lro' = [lro EXCEPT ![h] = o]
                /\ UNCHANGED todo
             \/ /\ Plan(h, Write("outcome_unknown", None))
                /\ UNCHANGED lro
     \/ /\ Plan(h, Write("outcome_unknown", None))
        /\ UNCHANGED <<opState, opFor, lro>>
  /\ UNCHANGED <<docVars, active, tagged, on, reply>>

\* The durable handle, before the wait.
RecordApplying(h) ==
  /\ pc[h] = "applying"
  /\ doc' = [doc EXCEPT ![on[h]] = Recorded(@, Write("applying", lro[h]))]
  /\ Goto(h, "wait")
  /\ UNCHANGED <<expired, cloudVars, on, lro, todo, reply>>

\* Mutant: whatever op.result raises is a failure.
WaitGuess(h) ==
  /\ pc[h] = "wait"
  /\ \/ opState[lro[h]] = "succeeded" /\ Plan(h, Seal(lro[h]))
     \/ Plan(h, Write("failed", lro[h]))
  /\ UNCHANGED <<docVars, cloudVars, on, lro, reply>>
\* op.result(timeout): success is what the operation reports; failure is
\* established only by a done operation with an error code
\* (_is_established_failure); a timeout or a broken poll can happen in any
\* state of the operation and establishes nothing.
Wait(h) ==
  /\ pc[h] = "wait"
  /\ \/ opState[lro[h]] = "succeeded" /\ Plan(h, Seal(lro[h]))
     \/ opState[lro[h]] = "failed" /\ Plan(h, Write("failed", lro[h]))
     \/ Plan(h, Write("outcome_unknown", lro[h]))
  /\ UNCHANGED <<docVars, cloudVars, on, lro, reply>>

\* The answer that goes with an outcome: 200 from /execute, 200 from a
\* /reconcile that found a success, 409 for the refused start, 502 (or the
\* phase "failed" from /reconcile) for an established failure, and 502 or 504
\* for an outcome nobody knows.
AnswerFor(w) ==
  IF w.resolved THEN "executed"
  ELSE CASE w.phase = "applied" -> "reconciled"
         [] w.phase = "failed" -> IF w.handle = None THEN "conflict" ELSE "failed"
         [] OTHER -> "unconfirmed"

\* record_phase, the last call of /execute and of /reconcile.
RecordPhase(h) ==
  /\ pc[h] = "record"
  /\ doc' = [doc EXCEPT ![on[h]] = Recorded(@, todo[h])]
  /\ Answer(h, AnswerFor(todo[h]))
  /\ UNCHANGED <<expired, cloudVars, on>>

-----------------------------------------------------------------------------
(* POST /deny                                                              *)

Deny(h, a) == /\ Authorized(a)
              /\ Arrive(h, a, "deny")
              /\ UNCHANGED <<docVars, cloudVars, lro, todo>>

\* claim_denied: the same transaction, to denied.
ClaimDenied(h) ==
  /\ pc[h] = "deny"
  /\ doc' = [doc EXCEPT ![on[h]] = Denied(@)]
  /\ Answer(h, IF doc[on[h]].status = "pending" THEN "denied" ELSE "refused")
  /\ UNCHANGED <<expired, cloudVars, on>>

-----------------------------------------------------------------------------
(* POST /reconcile                                                         *)

\* Mutant: only "applying" is taken for unsettled.
ReconcilableApplying(a) == doc[a].phase = "applying" /\ doc[a].handle # None

\* A document with an unsettled phase and a handle.  On any other document
\* the endpoint answers without a change of state.
Reconcilable(a) == /\ doc[a].status # "absent"
                   /\ doc[a].phase \notin Terminal
                   /\ doc[a].handle # None

Reconcile(h, a) ==
  /\ Reconcilable(a)
  /\ Arrive(h, a, "operation")
  /\ lro' = [lro EXCEPT ![h] = doc[a].handle]
  /\ UNCHANGED <<docVars, cloudVars, todo>>

\* get_operation: an error, a running or a malformed operation leave the
\* document alone; the two real ends are recorded, success without
\* resolved_at because its time is unknown.
GetOperation(h) ==
  /\ pc[h] = "operation"
  /\ \/ Answer(h, "unconfirmed")
     \/ /\ opState[lro[h]] = "failed"
        /\ Plan(h, Write("failed", lro[h]))
        /\ UNCHANGED <<lro, reply>>
     \/ /\ opState[lro[h]] = "succeeded"
        /\ Plan(h, Write("applied", lro[h]))
        /\ UNCHANGED <<lro, reply>>
  /\ UNCHANGED <<docVars, cloudVars, on>>

-----------------------------------------------------------------------------
(* A request ends without an answer: its container dies, or a store or     *)
(* client call raises where the endpoint handles no error.                 *)

Crash(h) == /\ pc[h] # "idle"
            /\ Answer(h, "none")
            /\ UNCHANGED <<docVars, cloudVars, on>>

-----------------------------------------------------------------------------
Init == /\ doc = [a \in Approvals |-> NoDoc]
        /\ expired = [a \in Approvals |-> FALSE]
        /\ opFor = [o \in Ops |-> None]
        /\ opState = [o \in Ops |-> "none"]
        /\ active \in Revisions
        /\ tagged \in BOOLEAN
        /\ pc = [h \in Handlers |-> "idle"]
        /\ on = [h \in Handlers |-> None]
        /\ lro = [h \in Handlers |-> None]
        /\ todo = [h \in Handlers |-> None]
        /\ reply = [h \in Handlers |-> "none"]

\* The code of a request once it has been admitted.
Work(h) == \/ Preflight(h) \/ Claim(h) \/ StartTrafficUpdate(h)
           \/ UpdateService(h) \/ RecordApplying(h) \/ Wait(h)
           \/ ClaimDenied(h) \/ GetOperation(h) \/ RecordPhase(h)

Arrivals(h) == \E a \in Approvals :
                 Execute(h, a) \/ Deny(h, a) \/ Reconcile(h, a)

Environment == \/ \E a \in Approvals : Expire(a)
               \/ \E a \in Approvals, r \in Revisions : Propose(a, r)
               \/ \E r \in Revisions : Deploy(r)
               \/ ToggleTag
               \/ \E o \in Ops, s \in {"succeeded", "failed", "malformed"} :
                    OpFinish(o, s)

Next == \/ \E h \in Handlers : Arrivals(h) \/ Work(h) \/ Crash(h)
        \/ Environment

Spec == Init /\ [][Next]_vars

\* What the deployment is assumed to do for an outcome to be learned:
\* admitted requests run on, Cloud Run ends its operations, and the desk keeps
\* asking for a reconcile, not every one of which is killed or fails to read
\* the operation.  Nothing is assumed of operators, clocks or deploys.
Settling(h) == GetOperation(h) /\ todo'[h] # None
Fairness ==
  /\ \A h \in Handlers : WF_vars(Work(h))
  /\ \A o \in Ops : WF_vars(\E s \in OpStates \ {"none", "running"} :
                              OpFinish(o, s))
  /\ \A h \in Handlers, a \in Approvals :
       /\ SF_vars(Reconcile(h, a))
       /\ SF_vars(on[h] = a /\ Settling(h))
       /\ SF_vars(on[h] = a /\ RecordPhase(h))

FairSpec == Spec /\ Fairness

-----------------------------------------------------------------------------
(* Properties                                                              *)

TypeOK ==
  /\ doc \in [Approvals -> Doc]
  /\ expired \in [Approvals -> BOOLEAN]
  /\ opFor \in [Ops -> Approvals \cup {None}]
  /\ opState \in [Ops -> OpStates]
  /\ active \in Revisions
  /\ tagged \in BOOLEAN
  /\ pc \in [Handlers -> Steps]
  /\ on \in [Handlers -> Approvals \cup {None}]
  /\ lro \in [Handlers -> Ops \cup {None}]
  /\ todo \in [Handlers -> Audit \cup {None}]
  /\ reply \in [Handlers -> Replies]

OpsOf(a) == {o \in Ops : opFor[o] = a}
Untouched(a) == \A o \in Ops : opFor[o] # a

\* A credential buys at most one traffic shift, however many /execute
\* requests carrying it overlap, die or are retried.
OneShift == \A o1, o2 \in Ops :
              opFor[o1] = opFor[o2] /\ opFor[o1] # None => o1 = o2

\* No shift was ever started for an approval that is pending or denied: a
\* rejected rollback cannot have happened, nor happen later.
UnspentMeansUntouched ==
  \A a \in Approvals : doc[a].status # "used" => Untouched(a)

\* "applied" is recorded only of a shift Cloud Run completed, and "failed"
\* only where no shift is under way or completed, nor is going to be.
HonestOutcome ==
  \A a \in Approvals :
    /\ doc[a].phase = "applied" =>
         \E o \in OpsOf(a) : opState[o] = "succeeded"
    /\ doc[a].phase = "failed" =>
         \A o \in OpsOf(a) : opState[o] = "failed"

\* The seal of the operator's desk (resolved_at on a used approval) stands
\* only on a recorded, confirmed success.
SealMeansConfirmed ==
  \A a \in Approvals : doc[a].resolved /\ doc[a].status = "used" =>
    /\ doc[a].phase = "applied"
    /\ doc[a].handle # None
    /\ opState[doc[a].handle] = "succeeded"

\* What a caller was told is what the document says, although the write
\* before the answer may have been dropped in favour of another request's.
HonestAnswer ==
  \A h \in Handlers :
    /\ reply[h] \in {"executed", "reconciled"} => doc[on[h]].phase = "applied"
    /\ reply[h] = "failed" => doc[on[h]].phase = "failed"
    /\ reply[h] = "denied" => doc[on[h]].status = "denied"

\* A settled document is never written again (TERMINAL_ROLLBACK_PHASES, and
\* what the coordinator's cross-request cache of terminal approvals assumes).
SettledForever ==
  [][\A a \in Approvals :
       doc[a].phase \in Terminal \/ doc[a].status = "denied" =>
         doc'[a] = doc[a]]_vars

\* Once recorded, the operation handle survives every later write of
\* apply_audit, which replaces the whole field: without it nobody can learn
\* the outcome.
HandleKept ==
  [][\A a \in Approvals :
       doc[a].handle # None => doc'[a].handle = doc[a].handle]_vars

\* Where a handle was recorded, the outcome is learned, whatever crashed in
\* between, unless Cloud Run's record of the operation is malformed.
OutcomeIsLearned ==
  \A a \in Approvals :
    doc[a].handle # None ~> \/ doc[a].phase \in Terminal
                            \/ \E o \in OpsOf(a) : opState[o] = "malformed"

\* The abstract lane, seen through the documents and the operations.
Shift(a) == IF Untouched(a) THEN "none"
            ELSE opState[CHOOSE o \in Ops : opFor[o] = a]

Promise == INSTANCE OneShotRollback WITH
             life <- [a \in Approvals |-> doc[a].status],
             goal <- [a \in Approvals |-> doc[a].target],
             shift <- [a \in Approvals |-> Shift(a)],
             verdict <- [a \in Approvals |-> IF doc[a].phase \in Terminal
                                             THEN doc[a].phase ELSE "open"]

\* The approval lane keeps the promise of OneShotRollback.
KeepsPromise == Promise!Spec

-----------------------------------------------------------------------------
(* What the source says of itself and does not keep                        *)

\* approvals.py defines the phase claimed as "credential burned, nothing
\* attempted yet", and /reconcile answers such a document with "Nothing was
\* ever started (still `claimed`)": once no request is in progress, a document
\* that still says claimed has no shift of traffic of its own.
ClaimedMeansNotStarted ==
  \A a \in Approvals :
    doc[a].phase = "claimed" /\ (\A h \in Handlers : pc[h] = "idle")
      => Untouched(a)
=============================================================================
