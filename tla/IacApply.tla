------------------------------ MODULE IacApply ------------------------------
(***************************************************************************)
(* The IaC approval lane: the POST of agent/main.py that approves a plan,  *)
(* the plan approvals of driftscribe_lib/approvals.py, the tofu-apply      *)
(* worker, and the pull request that carries the plan.                     *)
(*                                                                         *)
(* A plan is one artifact of the plan builder: a pull request, a head and  *)
(* a generation, which is what _iac_event_key digests.  A plan that        *)
(* creates nothing is applied, then merged; a plan that creates or imports *)
(* is merged, the operator re-bakes the worker, and a second POST applies. *)
(*                                                                         *)
(* A request is cut at its calls to Firestore, GitHub and the worker.  The *)
(* job of the worker that an /apply starts goes on by itself: the caller   *)
(* may give up on it (a transport error) or die (300 s against 900 s).     *)
(***************************************************************************)
EXTENDS FiniteSets

CONSTANTS Plans,      \* plan artifacts, each with its own event key
          Creates,    \* those with a create or an import (plan_has_create)
          Pulls,      \* pull requests
          PullOf,     \* PullOf[p]: the pull request of plan p
          Heads,      \* head commits of pull requests
          HeadOf,     \* HeadOf[p]: the head plan p was computed at
          Approvals,  \* plan approval ids
          Requests,   \* approval POSTs that can be in progress at once
          Serves,     \* Serves[r]: the plans the POSTs of slot r are about
          None

ASSUME PlanAssumption == /\ Creates \subseteq Plans
                         /\ PullOf \in [Plans -> Pulls]
                         /\ HeadOf \in [Plans -> Heads]
                         /\ Serves \in [Requests -> SUBSET Plans]
ASSUME NoneAssumption == None \notin Plans \cup Heads \cup Approvals \cup
                            {"waiting_for_rebake", "applied", "failed",
                             "failed_state_suspect", "ambiguous"}

VARIABLES
  pulls,     \* pulls[q]: its head, whether it is merged, and by which plan
  latest,    \* latest[q]: the plan its newest C2 comment names
  saved,     \* saved[p]: whether the state p was computed against is current
  infra,     \* infra[p]: what of plan p was done to the infrastructure
  baked,     \* the head whose merged iac/ tree is baked into the worker
  events,    \* events[p]: the event document and the decision it points to
  approval,  \* approval[a]: the plan_approvals document
  job,       \* job[a]: where the /apply of a is in the worker, or its answer
  req        \* req[r]: request r, see Request

world == <<pulls, latest, saved, infra, baked>>
worker == <<approval, job>>
vars == <<pulls, latest, saved, infra, baked, events, approval, job, req>>

-----------------------------------------------------------------------------
(* Documents and requests                                                  *)

ApplyStatus == {"waiting_for_rebake", "applied", "failed",
                "failed_state_suspect", "ambiguous"}
MergeState == {"pending", "merged", "failed", "n/a"}

\* What _record_iac_decision writes.
Decision(s, m) == [status |-> s, merge |-> m]
NoDecision == [status |-> None, merge |-> "n/a"]
Decisions == [status : ApplyStatus \cup {None}, merge : MergeState]

\* The event document is claimed before it points to a decision.
Event == [claimed : BOOLEAN, decision : Decisions]
NoEvent == [claimed |-> FALSE, decision |-> NoDecision]

Phases == {None, "claimed", "applied", "refused", "failed",
           "failed_state_suspect"}
Approval == [status : {"absent", "pending", "used", "denied"},
             phase : Phases, plan : Plans \cup {None}]
NoApproval == [status |-> "absent", phase |-> None, plan |-> None]

\* The /apply of an approval in the worker, and the classes of status codes
\* the coordinator tells apart: 403/404, 422/423/409, 502, 502 with the
\* suspect token, every other failure, 200.
InProgress == {"sent", "gates", "tofu", "audit"}
Answers == {"denied", "refused", "failed", "suspect", "unknown", "applied"}

Steps == {"idle", "find", "ready", "claim", "refind", "intent", "mergeFirst",
          "recordMerged", "propose", "head", "send", "await", "merge",
          "record", "deny", "release"}

\* A request in progress: its position, the plan it is about, the approval
\* its /propose returned and the decision it is about to record.
Request == [step : Steps, plan : Plans \cup {None},
            minted : Approvals \cup {None}, todo : Decisions]
NoRequest == [step |-> "idle", plan |-> None, minted |-> None, todo |-> NoDecision]

Becomes(r, x) == req' = [req EXCEPT ![r] = x]
Goto(r, s) == Becomes(r, IF s = "idle" THEN NoRequest
                         ELSE [req[r] EXCEPT !.step = s])
ToRecord(r, d) == Becomes(r, [req[r] EXCEPT !.step = "record", !.todo = d])

-----------------------------------------------------------------------------
(* GitHub, the plan builder and the operator                               *)

\* A push to an open pull request.
Push(q, h) == /\ ~pulls[q].merged
              /\ h # pulls[q].head
              /\ pulls' = [pulls EXCEPT ![q].head = h]
              /\ UNCHANGED <<latest, saved, infra, baked, events, worker, req>>

\* Somebody else merges it.
MergedByHand(q) ==
  /\ ~pulls[q].merged
  /\ pulls' = [pulls EXCEPT ![q].merged = TRUE]
  /\ UNCHANGED <<latest, saved, infra, baked, events, worker, req>>

\* The plan builder plans a head against the current state and comments.
Publish(p) ==
  /\ saved[p] = "absent"
  /\ ~pulls[PullOf[p]].merged
  /\ pulls[PullOf[p]].head = HeadOf[p]
  /\ saved' = [saved EXCEPT ![p] = "fresh"]
  /\ latest' = [latest EXCEPT ![PullOf[p]] = p]
  /\ UNCHANGED <<pulls, infra, baked, events, worker, req>>

\* The operator re-bakes the worker from main after a merge.
Rebake(q) ==
  /\ pulls[q].merged
  /\ baked' = pulls[q].head
  /\ baked # baked'
  /\ UNCHANGED <<pulls, latest, saved, infra, events, worker, req>>

-----------------------------------------------------------------------------
(* iac_approval_post                                                       *)

\* An approving POST whose form token pins the plan the page showed, which
\* is the latest one: a plan that changed since is refused (409).
Arrive(r, p) ==
  /\ req[r].step = "idle"
  /\ p \in Serves[r]
  /\ latest[PullOf[p]] = p
  /\ Becomes(r, [NoRequest EXCEPT !.step = "find", !.plan = p])
  /\ UNCHANGED <<world, events, worker>>

\* _handle_existing_iac_decision: merge and wait, resume, merge again, or
\* an answer that changes nothing.
Route(d) ==
  CASE d = Decision("waiting_for_rebake", "merged") -> "propose"
    [] d.status = "waiting_for_rebake" /\ d.merge # "merged" -> "mergeFirst"
    [] d = Decision("applied", "failed") -> "merge"
    [] OTHER -> "idle"

\* Step (c0), and the same look after a lost claim.
Find(r) ==
  /\ req[r].step \in {"find", "refind"}
  /\ LET d == events[req[r].plan].decision IN
       IF d.status # None THEN Goto(r, Route(d))
       ELSE Goto(r, IF req[r].step = "find" THEN "ready" ELSE "idle")
  /\ UNCHANGED <<world, events, worker>>

\* assert_pr_ready_at_sha: open, at the head, checks green.
Ready(r) ==
  /\ req[r].step = "ready"
  /\ LET pr == pulls[PullOf[req[r].plan]] IN
     \/ /\ ~pr.merged
        /\ pr.head = HeadOf[req[r].plan]
        /\ Goto(r, "claim")
     \/ Goto(r, "idle")
  /\ UNCHANGED <<world, events, worker>>

\* Mutant: the claim does not look whether somebody holds the key.
ClaimBlind(r) ==
  /\ req[r].step = "claim"
  /\ events' = [events EXCEPT ![req[r].plan].claimed = TRUE]
  /\ Goto(r, IF req[r].plan \in Creates THEN "intent" ELSE "propose")
  /\ UNCHANGED <<world, worker>>

\* record_event, then the route by plan_has_create.
Claim(r) ==
  /\ req[r].step = "claim"
  /\ IF events[req[r].plan].claimed
     THEN /\ Goto(r, "refind")
          /\ UNCHANGED events
     ELSE /\ events' = [events EXCEPT ![req[r].plan].claimed = TRUE]
          /\ Goto(r, IF req[r].plan \in Creates THEN "intent" ELSE "propose")
  /\ UNCHANGED <<world, worker>>

\* _iac_create_merge_first: no sidecar, or the pointer before the merge.
Intent(r) ==
  /\ req[r].step = "intent"
  /\ \/ /\ Goto(r, "release")
        /\ UNCHANGED events
     \/ /\ events' = [events EXCEPT ![req[r].plan].decision =
                        Decision("waiting_for_rebake", "pending")]
        /\ Goto(r, "mergeFirst")
  /\ UNCHANGED <<world, worker>>

\* merge_pr_at_sha: the exact head, an already merged pull request included.
\* A call that raises may have merged it all the same.
MergePr(p, ok) ==
  LET q == PullOf[p]
      Merges == /\ pulls[q].head = HeadOf[p]
                /\ pulls' = IF pulls[q].merged THEN pulls
                            ELSE [pulls EXCEPT ![q].merged = TRUE, ![q].by = p]
  IN Merges \/ (~ok /\ UNCHANGED pulls)

\* _iac_merge_then_wait: a failed merge leaves the pointer as it is.
MergeFirst(r) ==
  /\ req[r].step = "mergeFirst"
  /\ \E ok \in BOOLEAN :
       /\ MergePr(req[r].plan, ok)
       /\ Goto(r, IF ok THEN "recordMerged" ELSE "idle")
  /\ UNCHANGED <<latest, saved, infra, baked, events, worker>>

RecordMerged(r) ==
  /\ req[r].step = "recordMerged"
  /\ events' = [events EXCEPT ![req[r].plan] =
        [claimed |-> TRUE, decision |-> Decision("waiting_for_rebake", "merged")]]
  /\ Goto(r, "idle")
  /\ UNCHANGED <<world, worker>>

\* Where a request goes that has nothing more to try: the claim of an
\* apply-first plan is released, the pointer of a create-class plan is kept.
GiveUp(p) == IF p \in Creates THEN "idle" ELSE "release"

\* The worker's /propose: its gates, the iac/-tree gate of create-class
\* plans included, then a pending approval; the answer may be lost.
Propose(r) ==
  LET p == req[r].plan
      Mints(a) ==
        /\ approval[a].status = "absent"
        /\ p \in Creates => baked = HeadOf[p]
        /\ approval' = [approval EXCEPT ![a] =
              [status |-> "pending", phase |-> None, plan |-> p]]
  IN /\ req[r].step = "propose"
     /\ \/ \E a \in Approvals :
             /\ Mints(a)
             /\ Becomes(r, [req[r] EXCEPT !.minted = a,
                     !.step = IF p \in Creates THEN "send" ELSE "head"])
        \/ /\ UNCHANGED approval \/ \E a \in Approvals : Mints(a)
           /\ Goto(r, GiveUp(p))
     /\ UNCHANGED <<world, events, job>>

\* (5b) The head must still be the plan's, and readable.
Head(r) ==
  /\ req[r].step = "head"
  /\ \/ /\ pulls[PullOf[req[r].plan]].head = HeadOf[req[r].plan]
        /\ Goto(r, "send")
     \/ Goto(r, "deny")
  /\ UNCHANGED <<world, events, worker>>

\* (f) The /apply leaves for the worker.
Send(r) ==
  /\ req[r].step = "send"
  /\ job' = [job EXCEPT ![req[r].minted] = "sent"]
  /\ Goto(r, "await")
  /\ UNCHANGED <<world, events, approval>>

\* Mutant: every 5xx of an apply-first plan counts as a definite failure.
VerdictHasty(p, x) ==
  Decision(IF p \notin Creates /\ x # "suspect" THEN "failed"
           ELSE "failed_state_suspect",
           IF p \in Creates THEN "merged" ELSE "n/a")

\* The decision on record when the apply failed: a 502 of a create is always
\* suspect, an outcome nobody knows is ambiguous.
Verdict(p, x) ==
  Decision(CASE x = "unknown" -> "ambiguous"
             [] x = "failed" /\ p \notin Creates -> "failed"
             [] OTHER -> "failed_state_suspect",
           IF p \in Creates THEN "merged" ELSE "n/a")

\* Mutant: a malformed success is merged like a success.
AnsweredLenient(r) ==
  LET p == req[r].plan
      x == job[req[r].minted]
  IN /\ req[r].step = "await"
     /\ \/ /\ x \in {"denied", "refused"}
           /\ Goto(r, "deny")
        \/ /\ x \in {"failed", "suspect"}
           /\ ToRecord(r, Verdict(p, x))
        \/ /\ x \in {"applied", "unknown"}
           /\ IF p \in Creates THEN ToRecord(r, Decision("applied", "merged"))
              ELSE Goto(r, "merge")
     /\ UNCHANGED <<world, events, worker>>

\* The release matrix of (f), and the resume's.
Answered(r) ==
  LET p == req[r].plan
      x == job[req[r].minted]
  IN /\ req[r].step = "await"
     /\ \/ /\ x = "denied" \/ (x = "refused" /\ p \in Creates)
           /\ Goto(r, "deny")
        \/ /\ x = "refused" /\ p \notin Creates
           /\ Goto(r, "release")
        \/ /\ x \in {"failed", "suspect", "unknown"}
           /\ ToRecord(r, Verdict(p, x))
        \/ /\ x = "applied"
           /\ IF p \in Creates THEN ToRecord(r, Decision("applied", "merged"))
              ELSE Goto(r, "merge")
     /\ UNCHANGED <<world, events, worker>>

\* Mutant: a transport error is taken for a failure.
TimeoutFails(r) ==
  /\ req[r].step = "await"
  /\ job[req[r].minted] \in InProgress
  /\ ToRecord(r, Verdict(req[r].plan, "failed"))
  /\ UNCHANGED <<world, events, worker>>

\* The call ends without an answer (a synthetic 503), the job goes on.
Timeout(r) ==
  /\ req[r].step = "await"
  /\ job[req[r].minted] \in InProgress
  /\ ToRecord(r, Verdict(req[r].plan, "unknown"))
  /\ UNCHANGED <<world, events, worker>>

\* _iac_merge_step: after the apply, or again for a failed merge.
Merge(r) ==
  /\ req[r].step = "merge"
  /\ \E ok \in BOOLEAN :
       /\ MergePr(req[r].plan, ok)
       /\ ToRecord(r, Decision("applied", IF ok THEN "merged" ELSE "failed"))
  /\ UNCHANGED <<latest, saved, infra, baked, events, worker>>

\* record_decision: the row and the pointer in one batch.
Record(r) ==
  /\ req[r].step = "record"
  /\ events' = [events EXCEPT ![req[r].plan] = [claimed |-> TRUE, decision |-> req[r].todo]]
  /\ Goto(r, "idle")
  /\ UNCHANGED <<world, worker>>

\* call_plan_deny, best effort.
Deny(r) ==
  /\ req[r].step = "deny"
  /\ \/ UNCHANGED approval
     \/ /\ approval[req[r].minted].status = "pending"
        /\ approval' = [approval EXCEPT ![req[r].minted].status = "denied"]
  /\ Goto(r, GiveUp(req[r].plan))
  /\ UNCHANGED <<world, events, job>>

\* release_event: the document is deleted, whatever it points to.
Release(r) ==
  /\ req[r].step = "release"
  /\ events' = [events EXCEPT ![req[r].plan] = NoEvent]
  /\ Goto(r, "idle")
  /\ UNCHANGED <<world, worker>>

\* The container dies, the request is cut at 300 seconds, or a call raises
\* what nothing handles.
Crash(r) ==
  /\ req[r].step # "idle"
  /\ Goto(r, "idle")
  /\ UNCHANGED <<world, events, worker>>

-----------------------------------------------------------------------------
(* The worker's /apply                                                     *)

Reply(a, x) == job' = [job EXCEPT ![a] = x]

\* _fail: a terminal audit, best effort, and the status code.
Fail(a, phase, x) ==
  /\ Reply(a, x)
  /\ \/ approval' = [approval EXCEPT ![a].phase = phase]
     \/ UNCHANGED approval

\* Refused before the claim (403, 404), or claim_pending.
JobClaim(a) ==
  /\ job[a] = "sent"
  /\ \/ /\ Reply(a, "denied")
        /\ UNCHANGED approval
     \/ /\ approval[a].status = "pending"
        /\ approval' = [approval EXCEPT ![a].status = "used", ![a].phase = "claimed"]
        /\ job' = [job EXCEPT ![a] = "gates"]
  /\ UNCHANGED <<world, events, req>>

\* The gates, init and the refresh-only plan: a refusal, a failed step, or
\* on to tofu apply; a create only with the approved tree baked in.
JobGates(a) ==
  /\ job[a] = "gates"
  /\ \/ Fail(a, "refused", "refused")
     \/ Fail(a, "failed", "failed")
     \/ /\ approval[a].plan \in Creates => baked = HeadOf[approval[a].plan]
        /\ job' = [job EXCEPT ![a] = "tofu"]
        /\ UNCHANGED approval
  /\ UNCHANGED <<world, events, req>>

\* What tofu apply may do to the infrastructure: a saved plan is refused as
\* stale once the state moved on.  A mutation moves the state, but a create
\* that broke off may leave a resource the state does not know.
Tofu(p, outcome) ==
  LET moved == [o \in Plans |-> IF saved[o] = "fresh" THEN "stale" ELSE saved[o]]
  IN IF outcome = "untouched" THEN UNCHANGED <<saved, infra>>
     ELSE /\ saved[p] = "fresh"
          /\ infra' = [infra EXCEPT ![p] = outcome]
          /\ \/ saved' = moved
             \/ saved' = saved /\ outcome = "partial" /\ p \in Creates

\* run_apply_sequence and _diagnose_post_failure_state: a failure is clean
\* only if proven so, which an orphan of a create escapes.
JobTofu(a) ==
  LET p == approval[a].plan
  IN /\ job[a] = "tofu"
     /\ \/ /\ Tofu(p, "applied")
           /\ job' = [job EXCEPT ![a] = "audit"]
           /\ UNCHANGED approval
        \/ /\ Tofu(p, "untouched")
           /\ \/ Fail(a, "refused", "refused")
              \/ Fail(a, "failed", "failed")
              \/ Fail(a, "failed_state_suspect", "suspect")
        \/ /\ Tofu(p, "partial")
           /\ \/ Fail(a, "failed_state_suspect", "suspect")
              \/ /\ saved'[p] = "fresh"
                 /\ Fail(a, "failed", "failed")
     /\ UNCHANGED <<pulls, latest, baked, events, req>>

\* set_apply_audit after the apply: if it raises, the answer is a 500.
JobAudit(a) ==
  /\ job[a] = "audit"
  /\ \/ /\ approval' = [approval EXCEPT ![a].phase = "applied"]
        /\ Reply(a, "applied")
     \/ /\ Reply(a, "unknown")
        /\ UNCHANGED approval
  /\ UNCHANGED <<world, events, req>>

\* The worker dies, in the middle of tofu apply too.
JobDies(a) ==
  /\ job[a] \in InProgress
  /\ Reply(a, "unknown")
  /\ IF job[a] = "tofu"
     THEN \E outcome \in {"untouched", "partial", "applied"} :
            Tofu(approval[a].plan, outcome)
     ELSE UNCHANGED <<saved, infra>>
  /\ UNCHANGED <<pulls, latest, baked, events, approval, req>>

-----------------------------------------------------------------------------
Init ==
  /\ pulls \in [Pulls -> [head : Heads, merged : {FALSE}, by : {None}]]
  /\ latest = [q \in Pulls |-> None]
  /\ saved = [p \in Plans |-> "absent"]
  /\ infra = [p \in Plans |-> "untouched"]
  /\ baked = None
  /\ events = [p \in Plans |-> NoEvent]
  /\ approval = [a \in Approvals |-> NoApproval]
  /\ job = [a \in Approvals |-> "none"]
  /\ req = [r \in Requests |-> NoRequest]

RequestStep(r) ==
  \/ \E p \in Plans : Arrive(r, p)
  \/ Find(r) \/ Ready(r) \/ Claim(r) \/ Intent(r) \/ MergeFirst(r)
  \/ RecordMerged(r) \/ Propose(r) \/ Head(r) \/ Send(r) \/ Answered(r)
  \/ Timeout(r) \/ Merge(r) \/ Record(r) \/ Deny(r) \/ Release(r) \/ Crash(r)

JobStep(a) == JobClaim(a) \/ JobGates(a) \/ JobTofu(a) \/ JobAudit(a) \/ JobDies(a)

Environment == \/ \E q \in Pulls : \/ \E h \in Heads : Push(q, h)
                                   \/ MergedByHand(q)
                                   \/ Rebake(q)
               \/ \E p \in Plans : Publish(p)

Next == \/ \E r \in Requests : RequestStep(r)
        \/ \E a \in Approvals : JobStep(a)
        \/ Environment

Spec == Init /\ [][Next]_vars

-----------------------------------------------------------------------------
(* Properties                                                              *)

TypeOK ==
  /\ pulls \in [Pulls -> [head : Heads, merged : BOOLEAN, by : Plans \cup {None}]]
  /\ latest \in [Pulls -> Plans \cup {None}]
  /\ saved \in [Plans -> {"absent", "fresh", "stale"}]
  /\ infra \in [Plans -> {"untouched", "partial", "applied"}]
  /\ baked \in Heads \cup {None}
  /\ events \in [Plans -> Event]
  /\ approval \in [Approvals -> Approval]
  /\ job \in [Approvals -> {"none"} \cup InProgress \cup Answers]
  /\ req \in [Requests -> Request]

\* A decision on record is true: "applied" only of a plan that was applied,
\* "failed" (a definite failure with no mutation, main.py 6955-6962) only of
\* one that left the infrastructure alone and is not being applied any more.
HonestVerdict ==
  \A p \in Plans :
    LET s == events[p].decision.status IN
    /\ s = "applied" => infra[p] = "applied"
    /\ s = "failed" =>
         /\ infra[p] = "untouched"
         /\ \A a \in Approvals : approval[a].plan = p => job[a] \notin InProgress

\* A key is free for another approval only while nothing of its plan was done
\* and no job of the worker may still do it (the release matrix of (f)).
FreeIsUntouched ==
  \A p \in Plans : ~events[p].claimed =>
    /\ infra[p] = "untouched"
    /\ \A a \in Approvals : approval[a].plan = p => job[a] \notin InProgress

\* Of the /applies of a plan that creates nothing, all but one were refused
\* before they could change anything: two operators never double-apply.
SingleAttempt ==
  \A a, b \in Approvals :
    /\ a # b
    /\ approval[a].plan = approval[b].plan
    /\ approval[a].plan \in Plans \ Creates
    => \E x \in {a, b} : job[x] \in {"none", "denied", "refused"}

\* Apply, then merge: the lane merges only what it applied.  Merge, then
\* apply: a create is applied only from the merged head it was approved at.
MergeOrder ==
  /\ \A q \in Pulls : pulls[q].by \in Plans \ Creates
                        => infra[pulls[q].by] = "applied"
  /\ \A p \in Creates : infra[p] # "untouched" =>
       \E q \in Pulls : pulls[q].merged /\ pulls[q].head = HeadOf[p]

\* A terminal decision stays: failed, suspect and ambiguous applies are
\* never retried, applied ones never doubted.
Terminal == {"applied", "failed", "failed_state_suspect", "ambiguous"}
Stands(p) == events[p].decision.status \in Terminal
               => events'[p].decision.status = events[p].decision.status
TerminalStands == [][\A p \in Plans \ Creates : Stands(p)]_vars

\* The same of the plans that are merged first and resumed.
ResumedStands == [][\A p \in Creates : Stands(p)]_vars

\* The lane implements ApplyThenMerge for the plans that create nothing.
Promise == INSTANCE ApplyThenMerge WITH
  Plans <- Plans \ Creates,
  infra <- [p \in Plans \ Creates |-> infra[p]],
  verdict <- [p \in Plans \ Creates |->
                IF events[p].decision.status = None THEN "none"
                ELSE events[p].decision.status],
  merged <- {p \in Plans \ Creates : \E q \in Pulls : pulls[q].by = p}
KeepsPromise == Promise!Spec
=============================================================================
