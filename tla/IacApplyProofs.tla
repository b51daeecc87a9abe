---------------------------- MODULE IacApplyProofs ----------------------------
(***************************************************************************)
(* The IaC approval lane never applies a plan twice, records no outcome    *)
(* that is not true, and keeps the promise of ApplyThenMerge, for any      *)
(* plans, pull requests, approvals and overlapping POSTs.                  *)
(*                                                                         *)
(* Most of it is about the plans that create nothing, which are applied    *)
(* under a claim of their key; those that create share what is said of     *)
(* jobs, of verdicts and of the merged head.                               *)
(***************************************************************************)
EXTENDS IacApply, TLAPS

Updates == Plans \ Creates

\* The approvals of a plan; those whose /apply never changed anything and
\* never will; and a plan of which no job is in the worker.
Of(p) == {a \in Approvals : approval[a].plan = p}
Settled(a) == job[a] \in {"none", "denied", "refused"}
Still(p) == \A a \in Of(p) : job[a] \notin InProgress

\* Some pull request was merged at this head.
MergedAt(h) == \E q \in Pulls : pulls[q].merged /\ pulls[q].head = h

\* A status that may be on record of a plan.
Tells(p, s) ==
  /\ s # None
  /\ s = "applied" => infra[p] = "applied"
  /\ s = "failed" => p \in Updates /\ infra[p] = "untouched"
  /\ p \in Updates =>
       /\ s # "waiting_for_rebake"
       /\ s # "ambiguous" => Still(p)

StatusOf(p) == events[p].decision.status

\* The steps of a request that holds the claim of its key and may give it up;
\* one that merges or records may hold it, or follow a decision.
Holding == {"propose", "head", "send", "await", "deny", "release"}
Holds(x) == \/ x.step \in Holding
            \/ x.step \in {"merge", "record"} /\ StatusOf(x.plan) = None

\* What a request in progress knows.
Shaped(x) ==
  /\ x.step # "idle" => x.plan \in Plans
  /\ x.step \in {"intent", "mergeFirst", "recordMerged"} => x.plan \in Creates
  /\ x.step \in {"head", "send", "await", "deny"} =>
       /\ x.minted \in Approvals
       /\ approval[x.minted].plan = x.plan
       /\ approval[x.minted].status # "absent"

Truthful(x) ==
  /\ x.step = "merge" =>
       /\ infra[x.plan] = "applied"
       /\ x.plan \in Updates => Still(x.plan)
  /\ x.step = "record" => Tells(x.plan, x.todo.status)

Exclusive(x) ==
  x.plan \in Updates =>
    /\ Holds(x) => events[x.plan].claimed /\ StatusOf(x.plan) = None
    /\ x.step = "merge" => StatusOf(x.plan) \in {None, "applied"}
    /\ x.step = "record" => \/ StatusOf(x.plan) = None
                            \/ StatusOf(x.plan) = "applied" /\ x.todo.status = "applied"
    /\ x.step \in Holding =>
         \A a \in Of(x.plan) : Settled(a) \/ (x.step = "await" /\ a = x.minted)

ReqOK(x) == Shaped(x) /\ Truthful(x) /\ Exclusive(x)

\* What is on record is true, and a free key of an update owes nothing.
EventOK(p) ==
  /\ StatusOf(p) # None => Tells(p, StatusOf(p))
  /\ p \in Updates /\ ~events[p].claimed =>
       StatusOf(p) = None /\ \A a \in Of(p) : Settled(a)

\* A job is about an approval that was minted; it comes to tofu with a create
\* only if the create's head was merged, and past it only if it applied.
JobOK(a) ==
  /\ job[a] # "none" => approval[a].status # "absent" /\ approval[a].plan \in Plans
  /\ job[a] \in {"audit", "applied"} => infra[approval[a].plan] = "applied"
  /\ job[a] = "tofu" /\ approval[a].plan \in Creates
       => MergedAt(HeadOf[approval[a].plan])

\* What changed the infrastructure: a job that is past it or unknown, once.
InfraOK(p) ==
  /\ infra[p] = "applied" => saved[p] = "stale"
  /\ p \in Updates /\ infra[p] # "untouched" =>
       /\ saved[p] = "stale"
       /\ \E a \in Of(p) : job[a] \in {"audit", "suspect", "unknown", "applied"}
  /\ p \in Creates /\ infra[p] # "untouched" => MergedAt(HeadOf[p])

PullOK(q) ==
  /\ ~pulls[q].merged => pulls[q].by = None
  /\ pulls[q].by \in Updates => infra[pulls[q].by] = "applied"

\* One holder of a key and one attempt of a plan.
OneHolder ==
  \A r, s \in Requests :
    /\ r # s
    /\ req[r].plan = req[s].plan
    /\ req[r].plan \in Updates
    => ~(Holds(req[r]) /\ Holds(req[s]))
OneAttempt ==
  \A a, b \in Approvals :
    a # b /\ approval[a].plan = approval[b].plan /\ approval[a].plan \in Updates
      => Settled(a) \/ Settled(b)

Told == /\ \A r \in Requests : ReqOK(req[r])
        /\ \A p \in Plans : EventOK(p)
        /\ OneHolder
Done == /\ \A a \in Approvals : JobOK(a)
        /\ \A p \in Plans : InfraOK(p)
        /\ OneAttempt
Merged == /\ \A q \in Pulls : PullOK(q)
          /\ baked # None => MergedAt(baked)

IInv == TypeOK /\ Told /\ Done /\ Merged

-----------------------------------------------------------------------------
(* Types                                                                   *)

LEMMA Typed ==
  ASSUME TypeOK, NEW r \in Requests
  PROVE  /\ req[r] \in Request /\ NoRequest \in Request
         /\ \A s \in Steps : Goto(r, s) => req' \in [Requests -> Request]
         /\ \A d \in Decisions : ToRecord(r, d) => req' \in [Requests -> Request]
         /\ \A s \in ApplyStatus, m \in MergeState : Decision(s, m) \in Decisions
         /\ NoDecision \in Decisions /\ NoEvent \in Event
<1>1. NoDecision \in Decisions
  BY DEF NoDecision, Decisions, MergeState
<1>2. \A s \in ApplyStatus, m \in MergeState : Decision(s, m) \in Decisions
  BY DEF Decision, Decisions
<1>3. NoRequest \in Request /\ NoEvent \in Event
  BY <1>1 DEF NoRequest, Request, Steps, NoEvent, Event
<1>4. req[r] \in Request /\ req \in [Requests -> Request]
  BY DEF TypeOK
<1>5. ASSUME NEW s \in Steps, Goto(r, s) PROVE req' \in [Requests -> Request]
  <2>1. [req[r] EXCEPT !.step = s] \in Request
    BY <1>4 DEF Request
  <2> QED
    BY <1>3, <1>4, <1>5, <2>1 DEF Goto, Becomes
<1>6. ASSUME NEW d \in Decisions, ToRecord(r, d) PROVE req' \in [Requests -> Request]
  <2>1. [req[r] EXCEPT !.step = "record", !.todo = d] \in Request
    BY <1>4 DEF Request, Steps
  <2> QED
    BY <1>4, <1>6, <2>1 DEF ToRecord, Becomes
<1> QED
  BY <1>1, <1>2, <1>3, <1>4, <1>5, <1>6

LEMMA RequestType ==
  ASSUME TypeOK, NEW r \in Requests, RequestStep(r)
  PROVE  req' \in [Requests -> Request]
<1>0. req[r].plan \in Plans \cup {None} /\ NoRequest \in Request /\ req[r] \in Request
  BY Typed DEF Request
<1>1. ASSUME NEW p \in Plans, Arrive(r, p) PROVE req' \in [Requests -> Request]
  <2>1. [NoRequest EXCEPT !.step = "find", !.plan = p] \in Request
    BY <1>0 DEF Request, Steps
  <2> QED
    BY <1>1, <2>1 DEF Arrive, Becomes, TypeOK
<1>2. CASE \/ Ready(r) \/ Claim(r) \/ Intent(r) \/ MergeFirst(r) \/ RecordMerged(r)
           \/ Head(r) \/ Send(r) \/ Record(r) \/ Release(r) \/ Crash(r) \/ Deny(r)
  <2>1. \E s \in Steps : Goto(r, s)
    BY <1>2 DEF Ready, Claim, Intent, MergeFirst, RecordMerged, Head, Send,
       Record, Release, Crash, Deny, GiveUp, Steps
  <2> QED
    BY <2>1, Typed
<1>3. CASE Find(r)
  <2>1. \A d : Route(d) \in Steps
    BY DEF Route, Steps
  <2>2. {"ready", "idle"} \subseteq Steps
    BY DEF Steps
  <2>3. \E s \in Steps : Goto(r, s)
    BY <1>3, <2>1, <2>2 DEF Find
  <2> QED
    BY <2>3, Typed
<1>4. CASE Propose(r)
  <2>1. ASSUME NEW a \in Approvals, NEW s \in {"send", "head"}
        PROVE  [req[r] EXCEPT !.minted = a, !.step = s] \in Request
    BY <1>0 DEF Request, Steps
  <2>2. \/ \E s \in Steps : Goto(r, s)
        \/ \E a \in Approvals, s \in {"send", "head"} :
             Becomes(r, [req[r] EXCEPT !.minted = a, !.step = s])
    BY <1>4 DEF Propose, GiveUp, Steps
  <2>3. CASE \E s \in Steps : Goto(r, s)
    BY <2>3, Typed
  <2>4. CASE \E a \in Approvals, s \in {"send", "head"} :
               Becomes(r, [req[r] EXCEPT !.minted = a, !.step = s])
    <3>1. PICK a \in Approvals, s \in {"send", "head"} :
            Becomes(r, [req[r] EXCEPT !.minted = a, !.step = s])
      BY <2>4
    <3>2. [req[r] EXCEPT !.minted = a, !.step = s] \in Request
      BY <2>1
    <3>3. \A x \in Request : Becomes(r, x) => req' \in [Requests -> Request]
      BY DEF Becomes, TypeOK
    <3> QED
      BY <3>1, <3>2, <3>3
  <2> QED
    BY <2>2, <2>3, <2>4
<1>5. CASE Answered(r) \/ Timeout(r) \/ Merge(r)
  <2>1. \A p, x : Verdict(p, x) \in Decisions
    <3>1. ASSUME NEW p, NEW x PROVE Verdict(p, x) \in Decisions
      <4>1. CASE x = "unknown"
        BY <4>1, Typed DEF Verdict, ApplyStatus, MergeState
      <4>2. CASE x = "failed" /\ p \notin Creates
        BY <4>2, Typed DEF Verdict, ApplyStatus, MergeState
      <4>3. CASE x # "unknown" /\ ~(x = "failed" /\ p \notin Creates)
        BY <4>3, Typed DEF Verdict, ApplyStatus, MergeState
      <4> QED
        BY <4>1, <4>2, <4>3
    <3> QED
      BY <3>1
  <2>2. /\ Decision("applied", "merged") \in Decisions
        /\ Decision("applied", "failed") \in Decisions
    BY Typed DEF ApplyStatus, MergeState
  <2>3. \/ \E s \in Steps : Goto(r, s)
        \/ \E d \in Decisions : ToRecord(r, d)
    BY <1>5, <2>1, <2>2 DEF Answered, Timeout, Merge, Steps
  <2> QED
    BY <2>3, Typed
<1> QED
  BY <1>1, <1>2, <1>3, <1>4, <1>5 DEF RequestStep

LEMMA ApprovalType ==
  ASSUME NEW d \in Approval, NEW f \in Phases, NEW t \in {"pending", "used", "denied"}
  PROVE  /\ [d EXCEPT !.status = t] \in Approval
         /\ [d EXCEPT !.phase = f] \in Approval
         /\ [d EXCEPT !.status = t, !.phase = f] \in Approval
BY DEF Approval

\* What Fail and the outcomes of tofu leave typed.
LEMMA TypeStep == ASSUME TypeOK, [Next]_vars PROVE TypeOK'
<1> USE PlanAssumption DEF TypeOK
<1>1. ASSUME NEW r \in Requests, RequestStep(r) PROVE TypeOK'
  <2>1. req' \in [Requests -> Request]
    BY <1>1, RequestType
  <2>2. /\ req[r] \in Request /\ req[r].todo \in Decisions
        /\ req[r].plan \in Plans \cup {None} /\ req[r].minted \in Approvals \cup {None}
    BY Typed DEF Request
  <2>3. CASE \/ (\E p \in Plans : Arrive(r, p)) \/ Find(r) \/ Ready(r) \/ Head(r)
             \/ Answered(r) \/ Timeout(r) \/ Crash(r)
    BY <2>1, <2>3 DEF Arrive, Find, Ready, Head, Answered, Timeout, Crash, world, worker
  <2>4. CASE Claim(r) \/ Intent(r) \/ RecordMerged(r) \/ Record(r) \/ Release(r)
    <3>1. \E e \in Event : events' = [events EXCEPT ![req[r].plan] = e] \/ events' = events
      <4>1. CASE req[r].plan \in Plans
        <5>1. events[req[r].plan] \in Event
          BY <4>1
        <5>2. /\ Decision("waiting_for_rebake", "pending") \in Decisions
              /\ Decision("waiting_for_rebake", "merged") \in Decisions
              /\ NoEvent \in Event
          BY Typed DEF ApplyStatus, MergeState
        <5>3. CASE Claim(r)
          <6>1. [events[req[r].plan] EXCEPT !.claimed = TRUE] \in Event
            BY <5>1 DEF Event
          <6>2. \/ events' = events
                \/ events' = [events EXCEPT ![req[r].plan] =
                                [events[req[r].plan] EXCEPT !.claimed = TRUE]]
            BY <5>3 DEF Claim
          <6> QED
            BY <5>2, <6>1, <6>2
        <5>4. CASE Intent(r)
          <6> DEFINE e == [events[req[r].plan] EXCEPT !.decision =
                                Decision("waiting_for_rebake", "pending")]
          <6>1. e \in Event
            BY <5>1, <5>2 DEF Event
          <6>2. \/ events' = events
                \/ events' = [events EXCEPT ![req[r].plan] = e]
            BY <5>4 DEF Intent
          <6> QED
            BY <5>2, <6>1, <6>2
        <5>5. CASE RecordMerged(r)
          <6>1. [claimed |-> TRUE, decision |-> Decision("waiting_for_rebake", "merged")] \in Event
            BY <5>2 DEF Event
          <6> QED
            BY <5>5, <6>1 DEF RecordMerged
        <5>6. CASE Record(r)
          <6>1. [claimed |-> TRUE, decision |-> req[r].todo] \in Event
            BY <2>2 DEF Event
          <6> QED
            BY <5>6, <6>1 DEF Record
        <5>7. CASE Release(r)
          BY <5>2, <5>7 DEF Release
        <5> QED
          BY <2>4, <5>3, <5>4, <5>5, <5>6, <5>7
      <4>2. CASE req[r].plan \notin Plans
        <5>1. \A e : [events EXCEPT ![req[r].plan] = e] = events
          BY <4>2
        <5>2. NoEvent \in Event
          BY Typed
        <5> QED
          BY <2>4, <5>1, <5>2, <4>2 DEF Claim, Intent, RecordMerged, Record, Release
      <4> QED
        BY <4>1, <4>2
    <3>2. events' \in [Plans -> Event]
      BY <3>1
    <3> QED
      BY <2>1, <2>4, <3>2 DEF Claim, Intent, RecordMerged, Record, Release, world, worker
  <2>5. CASE MergeFirst(r) \/ Merge(r)
    <3>1. PICK ok \in BOOLEAN : MergePr(req[r].plan, ok)
      BY <2>5 DEF MergeFirst, Merge
    <3>2. \/ pulls' = pulls
          \/ pulls' = [pulls EXCEPT ![PullOf[req[r].plan]].merged = TRUE,
                                    ![PullOf[req[r].plan]].by = req[r].plan]
      BY <3>1 DEF MergePr
    <3>3. pulls' \in [Pulls -> [head : Heads, merged : BOOLEAN, by : Plans \cup {None}]]
      <4> DEFINE q == PullOf[req[r].plan]
                 w == [pulls[q] EXCEPT !.merged = TRUE, !.by = req[r].plan]
      <4>1. pulls' = pulls \/ pulls' = [pulls EXCEPT ![q] = w]
        <5>1. CASE q \in Pulls
          BY <3>2, <5>1
        <5>2. CASE q \notin Pulls
          BY <3>2, <5>2
        <5> QED
          BY <5>1, <5>2
      <4>2. q \in Pulls => w \in [head : Heads, merged : BOOLEAN, by : Plans \cup {None}]
        BY <2>2
      <4> HIDE DEF q, w
      <4> QED
        BY <4>1, <4>2
    <3> QED
      BY <2>1, <2>5, <3>3 DEF MergeFirst, Merge, worker
  <2>6. CASE Propose(r) \/ Deny(r)
    <3>1. ASSUME NEW a \in Approvals, NEW d \in Approval,
                 approval' = [approval EXCEPT ![a] = d]
          PROVE  approval' \in [Approvals -> Approval]
      BY <3>1
    <3>2. [status |-> "pending", phase |-> None, plan |-> req[r].plan] \in Approval
      BY <2>2 DEF Approval, Phases
    <3>3. approval' \in [Approvals -> Approval]
      <4>1. CASE Propose(r)
        BY <4>1, <3>1, <3>2 DEF Propose
      <4>2. CASE Deny(r)
        <5>1. ASSUME NEW a \in Approvals
              PROVE  [approval[a] EXCEPT !.status = "denied"] \in Approval
          <6>1. approval[a] \in Approval /\ "claimed" \in Phases
            BY DEF Phases
          <6> QED
            BY <6>1, ApprovalType
        <5>2. \/ approval' = approval
              \/ approval' = [approval EXCEPT ![req[r].minted] =
                                [approval[req[r].minted] EXCEPT !.status = "denied"]]
          BY <4>2 DEF Deny
        <5> QED
          BY <5>1, <5>2
      <4> QED
        BY <2>6, <4>1, <4>2
    <3> QED
      BY <2>1, <2>6, <3>3 DEF Propose, Deny, world
  <2>7. CASE Send(r)
    BY <2>1, <2>7 DEF Send, world, InProgress
  <2> QED
    BY <1>1, <2>3, <2>4, <2>5, <2>6, <2>7 DEF RequestStep
<1>2. ASSUME NEW a \in Approvals, JobStep(a) PROVE TypeOK'
  <2>1. \A x \in InProgress \cup Answers :
          Reply(a, x) => job' \in [Approvals -> {"none"} \cup InProgress \cup Answers]
    BY DEF Reply
  <2>2. \A s \in {"pending", "used", "denied"}, f \in Phases :
          /\ [approval[a] EXCEPT !.status = s, !.phase = f] \in Approval
          /\ [approval[a] EXCEPT !.phase = f] \in Approval
    <3>1. approval[a] \in Approval
      OBVIOUS
    <3> QED
      BY <3>1, ApprovalType
  <2>3. \A f \in Phases, x \in Answers : Fail(a, f, x) =>
          /\ job' \in [Approvals -> {"none"} \cup InProgress \cup Answers]
          /\ approval' \in [Approvals -> Approval]
    <3>1. ASSUME NEW f \in Phases, NEW x \in Answers, Fail(a, f, x)
          PROVE  job' \in [Approvals -> {"none"} \cup InProgress \cup Answers]
      BY <2>1, <3>1 DEF Fail
    <3>2. ASSUME NEW f \in Phases, NEW x \in Answers, Fail(a, f, x)
          PROVE  approval' \in [Approvals -> Approval]
      <4>1. \/ approval' = approval
            \/ approval' = [approval EXCEPT ![a] = [approval[a] EXCEPT !.phase = f]]
        BY <3>2 DEF Fail
      <4> QED
        BY <2>2, <4>1
    <3> QED
      BY <3>1, <3>2
  <2>4. ASSUME NEW p, NEW o \in {"untouched", "partial", "applied"}, Tofu(p, o)
        PROVE  /\ saved' \in [Plans -> {"absent", "fresh", "stale"}]
               /\ infra' \in [Plans -> {"untouched", "partial", "applied"}]
    BY <2>4 DEF Tofu
  <2>5. CASE JobClaim(a)
    <3>1. job' \in [Approvals -> {"none"} \cup InProgress \cup Answers]
      BY <2>5 DEF JobClaim, Reply, InProgress, Answers
    <3>2. approval' \in [Approvals -> Approval]
      BY <2>2, <2>5 DEF JobClaim, Phases
    <3> QED
      BY <2>5, <3>1, <3>2 DEF JobClaim, world
  <2>6. CASE JobGates(a)
    <3>1. \/ UNCHANGED approval /\ job' = [job EXCEPT ![a] = "tofu"]
          \/ \E f \in Phases, x \in Answers : Fail(a, f, x)
      BY <2>6 DEF JobGates, Phases, Answers
    <3> QED
      BY <2>3, <2>6, <3>1 DEF JobGates, InProgress, world
  <2>7. CASE JobTofu(a)
    <3>1. \/ UNCHANGED approval /\ job' = [job EXCEPT ![a] = "audit"]
          \/ \E f \in Phases, x \in Answers : Fail(a, f, x)
      BY <2>7 DEF JobTofu, Phases, Answers
    <3>2. \E o \in {"untouched", "partial", "applied"} : Tofu(approval[a].plan, o)
      BY <2>7 DEF JobTofu
    <3>3. /\ job' \in [Approvals -> {"none"} \cup InProgress \cup Answers]
          /\ approval' \in [Approvals -> Approval]
      BY <2>3, <3>1 DEF InProgress
    <3>4. /\ saved' \in [Plans -> {"absent", "fresh", "stale"}]
          /\ infra' \in [Plans -> {"untouched", "partial", "applied"}]
      BY <2>4, <3>2
    <3> QED
      BY <2>7, <3>3, <3>4 DEF JobTofu
  <2>8. CASE JobAudit(a)
    <3>1. job' \in [Approvals -> {"none"} \cup InProgress \cup Answers]
      BY <2>8 DEF JobAudit, Reply, Answers
    <3>2. approval' \in [Approvals -> Approval]
      BY <2>2, <2>8 DEF JobAudit, Phases
    <3> QED
      BY <2>8, <3>1, <3>2 DEF JobAudit, world
  <2>9. CASE JobDies(a)
    <3>1. UNCHANGED <<saved, infra>>
          \/ \E o \in {"untouched", "partial", "applied"} : Tofu(approval[a].plan, o)
      BY <2>9 DEF JobDies
    <3> QED
      BY <2>1, <2>4, <2>9, <3>1 DEF JobDies, Answers
  <2> QED
    BY <1>2, <2>5, <2>6, <2>7, <2>8, <2>9 DEF JobStep
<1>3. CASE Environment
  <2>1. ASSUME NEW q \in Pulls, NEW h \in Heads, Push(q, h) PROVE TypeOK'
    BY <2>1 DEF Push, worker
  <2>2. ASSUME NEW q \in Pulls, MergedByHand(q) PROVE TypeOK'
    BY <2>2 DEF MergedByHand, worker
  <2>3. ASSUME NEW q \in Pulls, Rebake(q) PROVE TypeOK'
    BY <2>3 DEF Rebake, worker
  <2>4. ASSUME NEW p \in Plans, Publish(p) PROVE TypeOK'
    BY <2>4 DEF Publish, worker
  <2> QED
    BY <1>3, <2>1, <2>2, <2>3, <2>4 DEF Environment
<1>4. CASE UNCHANGED vars
  BY <1>4 DEF vars
<1> QED
  BY <1>1, <1>2, <1>3, <1>4 DEF Next

-----------------------------------------------------------------------------
(* What no step but Send disturbs                                          *)

\* The steps of a request that knows nothing of its key, and of one whose
\* knowledge of its key must not be invalidated.
Calm == {"idle", "find", "ready", "claim", "refind"}
Busy == Holding \cup {"merge", "record"}

\* The jobs that may have changed the infrastructure.
Past == {"audit", "suspect", "unknown", "applied"}

\* Minted approvals stay, refused jobs stay refused, no job starts, and only
\* a plan with a job in the worker is applied.
Frame ==
  /\ \A a \in Approvals :
       /\ approval[a].status # "absent" =>
            approval'[a].status # "absent" /\ approval'[a].plan = approval[a].plan
       /\ approval'[a].plan = approval[a].plan \/ job'[a] = "none"
       /\ Settled(a) => job'[a] \in {"none", "denied", "refused"}
       /\ job'[a] \in InProgress => job[a] \in InProgress
  /\ \A p \in Plans : infra[p] = "applied" => infra'[p] = "applied"
  /\ \A p \in Updates : Still(p) => infra'[p] = infra[p]

\* The event a request relies on is not taken from it.
Kept(s) ==
  req[s].plan \in Updates /\ req[s].step \in Busy =>
    /\ events'[req[s].plan].decision.status = StatusOf(req[s].plan)
    /\ events[req[s].plan].claimed => events'[req[s].plan].claimed

\* No job of the plan comes into being, and an honest status stays honest.
LEMMA TellsFrame ==
  ASSUME Frame, NEW p \in Plans, NEW s, Tells(p, s)
  PROVE  Tells(p, s)'
<1>1. Still(p) => Still(p)'
  BY DEF Frame, Still, Of, InProgress
<1>2. s = "failed" => infra'[p] = infra[p]
  BY DEF Tells, Frame
<1>3. s = "applied" => infra'[p] = "applied"
  BY DEF Tells, Frame
<1> QED
  BY <1>1, <1>2, <1>3 DEF Tells

\* The same of the refused jobs of a plan, one excepted.
LEMMA SettledFrame ==
  ASSUME Frame, NEW p, NEW m, \A a \in Of(p) : Settled(a) \/ a = m
  PROVE  \A a \in Approvals : approval'[a].plan = p => Settled(a)' \/ a = m
<1>1. ASSUME NEW a \in Approvals, approval'[a].plan = p, a # m PROVE Settled(a)'
  <2>1. CASE approval[a].plan = p
    BY <1>1, <2>1 DEF Of, Frame, Settled
  <2>2. CASE job'[a] = "none"
    BY <2>2 DEF Settled
  <2> QED
    BY <1>1, <2>1, <2>2 DEF Frame
<1> QED
  BY <1>1

\* A request that does not move knows what it knew.
LEMMA Others ==
  ASSUME Frame, NEW s \in Requests, req'[s] = req[s], ReqOK(req[s]), Kept(s)
  PROVE  /\ ReqOK(req[s])'
         /\ req[s].plan \in Updates /\ Holds(req[s])' => Holds(req[s])
<1>1. Shaped(req[s])'
  BY DEF ReqOK, Shaped, Frame
<1>2. Truthful(req[s])'
  <2>1. CASE req[s].step = "merge"
    <3>1. /\ req[s].plan \in Plans /\ infra[req[s].plan] = "applied"
          /\ req[s].plan \in Updates => Still(req[s].plan)
      BY <2>1 DEF ReqOK, Shaped, Truthful
    <3>2. Still(req[s].plan) => Still(req[s].plan)'
      BY DEF Frame, Still, Of, InProgress
    <3>3. infra'[req'[s].plan] = "applied"
      BY <3>1 DEF Frame
    <3> QED
      BY <2>1, <3>1, <3>2, <3>3 DEF Truthful
  <2>2. CASE req[s].step = "record"
    <3>1. req[s].plan \in Plans /\ Tells(req[s].plan, req[s].todo.status)
      BY <2>2 DEF ReqOK, Shaped, Truthful
    <3>2. \A q \in Plans : \A u : Tells(q, u) =>
            /\ u # None
            /\ u = "applied" => infra'[q] = "applied"
            /\ u = "failed" => q \in Updates /\ infra'[q] = "untouched"
            /\ q \in Updates => /\ u # "waiting_for_rebake"
                                /\ u # "ambiguous" => Still(q)'
      BY TellsFrame DEF Tells
    <3>3. Tells(req[s].plan, req[s].todo.status)'
      <4>0. PICK q \in Plans : q = req[s].plan
        BY <3>1
      <4>1. PICK u : u = req[s].todo.status /\ Tells(q, u)
        BY <3>1, <4>0
      <4>2. /\ u # None
            /\ u = "applied" => infra'[q] = "applied"
            /\ u = "failed" => q \in Updates /\ infra'[q] = "untouched"
            /\ q \in Updates => /\ u # "waiting_for_rebake"
                                /\ u # "ambiguous" => \A a \in Approvals :
                                     approval'[a].plan = q => job'[a] \notin InProgress
        BY <3>2, <4>1 DEF Still, Of
      <4> QED
        BY <4>0, <4>1, <4>2 DEF Tells, Still, Of
    <3> QED
      BY <2>2, <3>3 DEF Truthful
  <2>3. CASE req[s].step \notin {"merge", "record"}
    BY <2>3 DEF Truthful
  <2> QED
    BY <2>1, <2>2, <2>3
<1>3. req[s].plan \in Updates /\ Holds(req[s])' => Holds(req[s])
  BY DEF Holds, Kept, StatusOf, Busy
<1>4. Exclusive(req[s])'
  <2>1. CASE req[s].plan \in Updates /\ req[s].step \in Busy
    <3>1. /\ events'[req[s].plan].decision.status = StatusOf(req[s].plan)
          /\ events[req[s].plan].claimed => events'[req[s].plan].claimed
      BY <2>1 DEF Kept
    <3>2. /\ Holds(req[s]) => events[req[s].plan].claimed /\ StatusOf(req[s].plan) = None
          /\ req[s].step = "merge" => StatusOf(req[s].plan) \in {None, "applied"}
          /\ req[s].step = "record" =>
               \/ StatusOf(req[s].plan) = None
               \/ StatusOf(req[s].plan) = "applied" /\ req[s].todo.status = "applied"
      BY <2>1 DEF ReqOK, Exclusive
    <3>3. /\ Holds(req[s])' => events'[req'[s].plan].claimed /\ StatusOf(req[s].plan)' = None
          /\ req'[s].step = "merge" => StatusOf(req[s].plan)' \in {None, "applied"}
          /\ req'[s].step = "record" =>
               \/ StatusOf(req[s].plan)' = None
               \/ StatusOf(req[s].plan)' = "applied" /\ req'[s].todo.status = "applied"
      BY <1>3, <2>1, <3>1, <3>2 DEF StatusOf
    <3>4. req[s].step \in Holding => \A a \in Approvals :
            approval'[a].plan = req[s].plan =>
              Settled(a)' \/ (req[s].step = "await" /\ a = req[s].minted)
      <4>1. req[s].step \in Holding => \A a \in Of(req[s].plan) :
              Settled(a) \/ (req[s].step = "await" /\ a = req[s].minted)
        BY <2>1 DEF ReqOK, Exclusive
      <4>2. CASE req[s].step = "await"
        <5>1. \A a \in Of(req[s].plan) : Settled(a) \/ a = req[s].minted
          BY <4>1, <4>2 DEF Holding
        <5> QED
          BY <4>2, <5>1, SettledFrame
      <4>3. CASE req[s].step # "await" /\ req[s].step \in Holding
        <5>1. \A a \in Of(req[s].plan) : Settled(a)
          BY <4>1, <4>3
        <5>2. \A a \in Approvals : approval'[a].plan = req[s].plan => Settled(a)'
          BY <5>1 DEF Of, Frame, Settled
        <5> QED
          BY <5>2
      <4> QED
        BY <4>2, <4>3
    <3> QED
      BY <2>1, <3>3, <3>4 DEF Exclusive, Of
  <2>2. CASE req[s].plan \notin Updates
    BY <2>2 DEF Exclusive
  <2>3. CASE req[s].step \notin Busy
    BY <2>3 DEF Exclusive, Holds, Busy, Holding
  <2> QED
    BY <2>1, <2>2, <2>3
<1> QED
  BY <1>1, <1>2, <1>3, <1>4 DEF ReqOK

\* So is an event that nobody writes.
LEMMA EventFrame ==
  ASSUME Frame, NEW p \in Plans, events'[p] = events[p], EventOK(p)
  PROVE  EventOK(p)'
<1>1. StatusOf(p)' = StatusOf(p)
  BY DEF StatusOf
<1>2. StatusOf(p)' # None => Tells(p, StatusOf(p))'
  <2>1. \A u : Tells(p, u) =>
            /\ u # None
            /\ u = "applied" => infra'[p] = "applied"
            /\ u = "failed" => p \in Updates /\ infra'[p] = "untouched"
            /\ p \in Updates => /\ u # "waiting_for_rebake"
                                /\ u # "ambiguous" => Still(p)'
    BY TellsFrame DEF Tells
  <2> QED
    BY <1>1, <2>1 DEF EventOK, Tells
<1>3. p \in Updates /\ ~events'[p].claimed => \A a \in Approvals :
        approval'[a].plan = p => Settled(a)'
  BY DEF EventOK, Of, Frame, Settled
<1> QED
  BY <1>1, <1>2, <1>3 DEF EventOK, Of

\* Another request of an update is not at work on the key of a holder.
LEMMA Alone ==
  ASSUME Told, NEW r \in Requests, NEW s \in Requests, r # s,
         req[r].plan = req[s].plan, req[r].plan \in Updates, Holds(req[r])
  PROVE  req[s].step \notin Busy
<1>1. ~Holds(req[s])
  BY DEF Told, OneHolder
<1>2. StatusOf(req[s].plan) = None
  BY DEF Told, ReqOK, Exclusive
<1> QED
  BY <1>1, <1>2 DEF Holds, Busy

\* One request moves.
LEMMA ToldStep ==
  ASSUME Told, Frame, NEW r \in Requests,
         \A s \in Requests : s # r => req'[s] = req[s] /\ Kept(s),
         \A p \in Plans : events'[p] = events[p] \/ EventOK(p)',
         ReqOK(req[r])',
         req'[r].plan \in Updates /\ Holds(req[r])' =>
           \A s \in Requests : s # r /\ req[s].plan = req'[r].plan => ~Holds(req[s])
  PROVE  Told'
<1>1. ASSUME NEW s \in Requests PROVE ReqOK(req[s])'
  <2>1. CASE s = r
    BY <2>1
  <2>2. CASE s # r
    BY <2>2, Others DEF Told
  <2> QED
    BY <2>1, <2>2
<1>2. ASSUME NEW p \in Plans PROVE EventOK(p)'
  BY EventFrame DEF Told
<1>3. \A s \in Requests : s # r /\ req[s].plan \in Updates /\ Holds(req[s])' => Holds(req[s])
  BY Others DEF Told
<1>4. OneHolder'
  BY <1>3 DEF OneHolder, Told
<1> QED
  BY <1>1, <1>2, <1>4 DEF Told

\* No request moves.
LEMMA ToldStay ==
  ASSUME Told, Frame, req' = req, events' = events
  PROVE  Told'
<1>1. \A s \in Requests : Kept(s)
  BY DEF Kept, StatusOf
<1>2. ASSUME NEW s \in Requests PROVE ReqOK(req[s])'
  BY <1>1, Others DEF Told
<1>3. ASSUME NEW p \in Plans PROVE EventOK(p)'
  BY EventFrame DEF Told
<1>4. OneHolder'
  BY DEF OneHolder, Told, Holds, StatusOf
<1> QED
  BY <1>2, <1>3, <1>4 DEF Told

\* Steps that leave the infrastructure alone keep what is said of it.
LEMMA OneAttemptFrame == ASSUME OneAttempt, Frame PROVE OneAttempt'
BY DEF OneAttempt, Frame, Settled

LEMMA DoneStay ==
  ASSUME TypeOK, Done, Frame, infra' = infra,
         \A p \in Plans : saved[p] = "stale" => saved'[p] = "stale",
         \A h \in Heads : MergedAt(h) => MergedAt(h)',
         \A a \in Approvals :
           /\ job'[a] # "none" => job[a] # "none"
           /\ job[a] \in Past => job'[a] \in Past
           /\ job'[a] \in {"audit", "applied"} => job[a] \in {"audit", "applied"}
           /\ job'[a] = "tofu" /\ approval[a].plan \in Creates =>
                job[a] = "tofu" \/ MergedAt(HeadOf[approval[a].plan])
  PROVE  Done'
<1>1. ASSUME NEW a \in Approvals PROVE JobOK(a)'
  <2>1. JobOK(a)
    BY DEF Done
  <2>2. job'[a] # "none" =>
          /\ approval[a].status # "absent" /\ approval[a].plan \in Plans
          /\ approval'[a].status # "absent" /\ approval'[a].plan = approval[a].plan
    BY <2>1 DEF JobOK, Frame
  <2>3. job'[a] = "tofu" /\ approval'[a].plan \in Creates
          => MergedAt(HeadOf[approval[a].plan])'
    <3>1. SUFFICES ASSUME job'[a] = "tofu", approval'[a].plan \in Creates
                   PROVE  MergedAt(HeadOf[approval[a].plan])'
      OBVIOUS
    <3>2. approval'[a].plan = approval[a].plan /\ approval[a].plan \in Plans
      BY <2>2, <3>1
    <3>3. MergedAt(HeadOf[approval[a].plan])
      BY <2>1, <3>1, <3>2 DEF JobOK
    <3>4. HeadOf[approval[a].plan] \in Heads
      BY <3>2, PlanAssumption
    <3>5. \E q \in Pulls : pulls'[q].merged /\ pulls'[q].head = HeadOf[approval[a].plan]
      BY <3>3, <3>4 DEF MergedAt
    <3> QED
      BY <3>2, <3>5 DEF MergedAt
  <2>4. job'[a] \in {"audit", "applied"} => infra'[approval'[a].plan] = "applied"
    BY <2>1, <2>2 DEF JobOK
  <2> QED
    BY <2>2, <2>3, <2>4 DEF JobOK
<1>2. ASSUME NEW p \in Plans PROVE InfraOK(p)'
  <2>1. InfraOK(p)
    BY DEF Done
  <2>2. infra'[p] = "applied" => saved'[p] = "stale"
    BY <2>1 DEF InfraOK
  <2>3. p \in Updates /\ infra'[p] # "untouched" =>
          /\ saved'[p] = "stale"
          /\ \E a \in Approvals : approval'[a].plan = p /\ job'[a] \in Past
    <3>1. SUFFICES ASSUME p \in Updates, infra[p] # "untouched"
                   PROVE  /\ saved'[p] = "stale"
                          /\ \E a \in Approvals : approval'[a].plan = p /\ job'[a] \in Past
      OBVIOUS
    <3>2. PICK a \in Of(p) : job[a] \in Past
      BY <2>1, <3>1 DEF InfraOK, Past
    <3>3. job'[a] \in Past /\ job'[a] # "none" /\ a \in Approvals /\ approval[a].plan = p
      BY <3>2 DEF Of, Past
    <3> QED
      BY <2>1, <3>1, <3>3 DEF InfraOK, Frame
  <2>4. p \in Creates /\ infra'[p] # "untouched" => MergedAt(HeadOf[p])'
    BY <2>1, PlanAssumption DEF InfraOK
  <2> QED
    BY <2>2, <2>3, <2>4 DEF InfraOK, Of, Past
<1>3. OneAttempt'
  BY OneAttemptFrame DEF Done
<1> QED
  BY <1>1, <1>2, <1>3 DEF Done

\* A merged pull request is not touched again.
LEMMA MergedStays ==
  ASSUME \A q \in Pulls : pulls[q].merged => pulls'[q] = pulls[q]
  PROVE  \A h : MergedAt(h) => MergedAt(h)'
BY DEF MergedAt

LEMMA MergedStay ==
  ASSUME Merged, Frame, UNCHANGED <<pulls, baked>>
  PROVE  Merged'
<1>1. ASSUME NEW q \in Pulls PROVE PullOK(q)'
  BY DEF Merged, PullOK, Frame, Updates
<1>2. baked' # None => MergedAt(baked)'
  BY DEF Merged, MergedAt
<1> QED
  BY <1>1, <1>2 DEF Merged

\* An update all of whose jobs were refused or failed cleanly is untouched.
LEMMA Untouched ==
  ASSUME TypeOK, Done, NEW p \in Updates, \A a \in Of(p) : job[a] \notin Past
  PROVE  infra[p] = "untouched"
BY DEF Done, InfraOK, Past, Updates

\* How a request moves.
LEMMA Moved ==
  ASSUME TypeOK, NEW r \in Requests
  PROVE  /\ \A x : Becomes(r, x) =>
              /\ req'[r] = x
              /\ \A s \in Requests : s # r => req'[s] = req[s]
         /\ \A t \in Steps : Goto(r, t) =>
              /\ req'[r].step = t
              /\ t # "idle" => /\ req'[r].plan = req[r].plan
                               /\ req'[r].minted = req[r].minted
                               /\ req'[r].todo = req[r].todo
              /\ \A s \in Requests : s # r => req'[s] = req[s]
         /\ \A d : ToRecord(r, d) =>
              /\ req'[r].step = "record" /\ req'[r].todo = d
              /\ req'[r].plan = req[r].plan /\ req'[r].minted = req[r].minted
              /\ \A s \in Requests : s # r => req'[s] = req[s]
<1>1. req \in [Requests -> Request] /\ req[r] \in Request
  BY DEF TypeOK
<1>2. \A x : Becomes(r, x) =>
        /\ req'[r] = x
        /\ \A s \in Requests : s # r => req'[s] = req[s]
  BY <1>1 DEF Becomes
<1>3. ASSUME NEW t \in Steps, Goto(r, t)
      PROVE  /\ req'[r].step = t
             /\ t # "idle" => /\ req'[r].plan = req[r].plan
                              /\ req'[r].minted = req[r].minted
                              /\ req'[r].todo = req[r].todo
             /\ \A s \in Requests : s # r => req'[s] = req[s]
  <2>1. CASE t = "idle"
    BY <1>1, <1>3, <2>1 DEF Goto, Becomes, NoRequest
  <2>2. CASE t # "idle"
    BY <1>1, <1>3, <2>2 DEF Goto, Becomes, Request
  <2> QED
    BY <2>1, <2>2
<1>4. ASSUME NEW d, ToRecord(r, d)
      PROVE  /\ req'[r].step = "record" /\ req'[r].todo = d
             /\ req'[r].plan = req[r].plan /\ req'[r].minted = req[r].minted
             /\ \A s \in Requests : s # r => req'[s] = req[s]
  BY <1>1, <1>4 DEF ToRecord, Becomes, Request
<1> QED
  BY <1>2, <1>3, <1>4

\* A request that goes where it knows nothing of its key.
LEMMA Calmed ==
  ASSUME NEW r \in Requests, req'[r].step \in Calm,
         req'[r].step # "idle" => req'[r].plan \in Plans
  PROVE  ReqOK(req[r])' /\ ~Holds(req[r])'
BY DEF Calm, ReqOK, Shaped, Truthful, Exclusive, Holds, Holding

\* Steps that move one request and touch no job and no infrastructure.
LEMMA Quiet ==
  ASSUME IInv, UNCHANGED <<infra, saved, baked, worker>>,
         \A q \in Pulls : pulls[q].merged => pulls'[q] = pulls[q]
  PROVE  Frame /\ Done'
<1>1. Frame
  BY DEF Frame, worker, Settled
<1>2. \A h \in Heads : MergedAt(h) => MergedAt(h)'
  BY MergedStays
<1>3. Done'
  BY <1>1, <1>2, DoneStay DEF IInv, worker
<1> QED
  BY <1>1, <1>3

-----------------------------------------------------------------------------
(* The steps of a request                                                  *)

\* A request moves on and nothing else does; it holds no key it did not hold.
LEMMA OnlyMoves ==
  ASSUME IInv, NEW r \in Requests, UNCHANGED <<world, events, worker>>,
         \A s \in Requests : s # r => req'[s] = req[s],
         ReqOK(req[r])',
         req'[r].plan \in Updates /\ Holds(req[r])' =>
           Holds(req[r]) /\ req'[r].plan = req[r].plan
  PROVE  Told' /\ Done' /\ Merged'
<1>1. Frame /\ Done'
  BY Quiet DEF world
<1>2. Merged'
  BY <1>1, MergedStay DEF IInv, world
<1>3. \A s \in Requests : Kept(s)
  BY DEF Kept, StatusOf
<1>4. Told'
  <2>1. Told
    BY DEF IInv
  <2>2. req'[r].plan \in Updates /\ Holds(req[r])' =>
          \A s \in Requests : s # r /\ req[s].plan = req'[r].plan => ~Holds(req[s])
    BY <2>1 DEF Told, OneHolder
  <2> QED
    BY <1>1, <1>3, <2>1, <2>2, ToldStep
<1> QED
  BY <1>1, <1>2, <1>4

\* What a request that acts on its plan knows.
LEMMA Knows ==
  ASSUME IInv, NEW r \in Requests, req[r].step # "idle"
  PROVE  /\ req[r].plan \in Plans /\ req[r] \in Request
         /\ ReqOK(req[r]) /\ EventOK(req[r].plan)
         /\ Shaped(req[r]) /\ Truthful(req[r]) /\ Exclusive(req[r])
         /\ req[r].plan \notin Creates <=> req[r].plan \in Updates
BY DEF IInv, TypeOK, Told, ReqOK, Shaped, Updates

LEMMA ArriveStep ==
  ASSUME IInv, NEW r \in Requests, NEW p \in Plans, Arrive(r, p)
  PROVE  Told' /\ Done' /\ Merged'
<1>1. /\ req'[r].step = "find" /\ req'[r].plan = p
      /\ \A s \in Requests : s # r => req'[s] = req[s]
  <2>1. TypeOK /\ Becomes(r, [NoRequest EXCEPT !.step = "find", !.plan = p])
    BY DEF IInv, Arrive
  <2> QED
    BY <2>1 DEF TypeOK, Becomes, NoRequest
<1>2. ReqOK(req[r])' /\ ~Holds(req[r])'
  BY <1>1, Calmed DEF Calm
<1> QED
  BY <1>1, <1>2, OnlyMoves DEF Arrive

\* A look at the event leads where the decision on record allows.
LEMMA FindStep ==
  ASSUME IInv, NEW r \in Requests, Find(r)
  PROVE  Told' /\ Done' /\ Merged'
<1> DEFINE d == events[req[r].plan].decision
<1>1. /\ req[r].step \in {"find", "refind"}
      /\ UNCHANGED <<world, events, worker>>
  BY DEF Find
<1>2. /\ req[r].plan \in Plans /\ EventOK(req[r].plan)
      /\ req[r].plan \notin Creates <=> req[r].plan \in Updates
  BY <1>1, Knows
<1>3. PICK t \in {"idle", "ready", "propose", "mergeFirst", "merge"} :
        /\ Goto(r, t)
        /\ t \in {"propose", "mergeFirst"} => d.status = "waiting_for_rebake"
        /\ t = "merge" => d.status = "applied"
  <2>1. CASE d.status = None
    BY <2>1 DEF Find
  <2>2. CASE d.status # None
    <3>1. /\ Route(d) \in {"idle", "propose", "mergeFirst", "merge"}
          /\ Route(d) \in {"propose", "mergeFirst"} => d.status = "waiting_for_rebake"
          /\ Route(d) = "merge" => d.status = "applied"
      <4>1. d = Decision("waiting_for_rebake", "merged") => d.status = "waiting_for_rebake"
        BY DEF Decision
      <4>2. d = Decision("applied", "failed") => d.status = "applied"
        BY DEF Decision
      <4> HIDE DEF d
      <4> QED
        BY <4>1, <4>2 DEF Route
    <3>2. Goto(r, Route(d))
      BY <2>2 DEF Find
    <3> QED
      BY <3>1, <3>2
  <2> QED
    BY <2>1, <2>2
<1>4. /\ req'[r].step = t
      /\ t # "idle" => req'[r].plan = req[r].plan
      /\ \A s \in Requests : s # r => req'[s] = req[s]
  BY <1>3, Moved DEF IInv, Steps
<1>5. CASE t \in {"idle", "ready"}
  <2>1. ReqOK(req[r])' /\ ~Holds(req[r])'
    BY <1>2, <1>4, <1>5, Calmed DEF Calm
  <2> QED
    BY <1>1, <1>4, <2>1, OnlyMoves
<1>6. CASE t \in {"propose", "mergeFirst"}
  <2>1. req[r].plan \in Creates /\ req'[r].plan = req[r].plan
    <3>1. StatusOf(req[r].plan) = "waiting_for_rebake"
      BY <1>3, <1>6 DEF StatusOf
    <3>2. None # "waiting_for_rebake"
      BY NoneAssumption
    <3> QED
      BY <1>2, <1>4, <1>6, <3>1, <3>2 DEF EventOK, Tells
  <2>2. ReqOK(req[r])'
    BY <1>2, <1>4, <1>6, <2>1 DEF ReqOK, Shaped, Truthful, Exclusive, Updates
  <2> QED
    BY <1>1, <1>4, <2>1, <2>2, OnlyMoves DEF Updates
<1>7. CASE t = "merge"
  <2>1. StatusOf(req[r].plan) = "applied" /\ None # "applied"
    BY <1>3, <1>7, NoneAssumption DEF StatusOf
  <2>2. Tells(req[r].plan, "applied")
    BY <1>2, <2>1 DEF EventOK
  <2>3. infra[req[r].plan] = "applied" /\ (req[r].plan \in Updates => Still(req[r].plan))
    BY <2>2 DEF Tells
  <2>4. req'[r].plan = req[r].plan /\ req'[r].step = "merge"
    BY <1>4, <1>7
  <2>5. Shaped(req[r])'
    BY <1>2, <2>4 DEF Shaped
  <2>6. Truthful(req[r])'
    BY <1>1, <2>3, <2>4 DEF Truthful, Still, Of, world, worker
  <2>7. ~Holds(req[r])'
    BY <1>1, <2>1, <2>4 DEF Holds, StatusOf, Holding
  <2>8. Exclusive(req[r])'
    BY <1>1, <2>1, <2>4, <2>7 DEF Exclusive, StatusOf, Holding
  <2> QED
    BY <1>1, <1>4, <2>5, <2>6, <2>7, <2>8, OnlyMoves DEF ReqOK
<1> QED
  BY <1>3, <1>5, <1>6, <1>7

\* The steps that cannot or need not know more.
LEMMA PlainStep ==
  ASSUME IInv, NEW r \in Requests, Ready(r) \/ Crash(r)
  PROVE  Told' /\ Done' /\ Merged'
<1>1. PICK t \in {"idle", "claim"} : Goto(r, t)
  BY DEF Ready, Crash
<1>2. /\ req[r].step # "idle"
      /\ UNCHANGED <<world, events, worker>>
  BY DEF Ready, Crash
<1>3. /\ req'[r].step = t
      /\ t # "idle" => req'[r].plan = req[r].plan
      /\ \A s \in Requests : s # r => req'[s] = req[s]
  BY <1>1, Moved DEF IInv, Steps
<1>4. ReqOK(req[r])' /\ ~Holds(req[r])'
  BY <1>2, <1>3, Calmed, Knows DEF Calm
<1> QED
  BY <1>2, <1>3, <1>4, OnlyMoves

\* A holder goes on with its claim: to another step that a request may hold
\* a key at, all of whose jobs were refused.
LEMMA HolderGoesOn ==
  ASSUME IInv, NEW r \in Requests, UNCHANGED <<events, infra, worker>>,
         req[r].step \in Holding,
         req'[r].step \in {"send", "deny", "release"},
         req'[r].plan = req[r].plan, req'[r].minted = req[r].minted,
         req'[r].step \in {"send", "deny"} => req[r].step \in {"head", "await"},
         req[r].plan \in Updates => \A a \in Of(req[r].plan) : Settled(a)
  PROVE  /\ ReqOK(req[r])'
         /\ req'[r].plan \in Updates => Holds(req[r])
<1>1. req[r].plan \in Plans /\ ReqOK(req[r])
  BY Knows DEF Holding
<1>2. Shaped(req[r])'
  BY <1>1 DEF Shaped, ReqOK, worker
<1>3. Truthful(req[r])'
  BY DEF Truthful
<1>4. Holds(req[r])
  BY DEF Holds
<1>5. Exclusive(req[r])'
  BY <1>1, <1>4 DEF Exclusive, ReqOK, Holds, StatusOf, Of, Settled, worker
<1> QED
  BY <1>2, <1>3, <1>4, <1>5 DEF ReqOK

LEMMA HeadStep ==
  ASSUME IInv, NEW r \in Requests, Head(r)
  PROVE  Told' /\ Done' /\ Merged'
<1>1. PICK t \in {"send", "deny"} : Goto(r, t)
  BY DEF Head
<1>2. req[r].step = "head" /\ UNCHANGED <<world, events, worker>>
  BY DEF Head
<1>3. /\ req'[r].step = t /\ req'[r].plan = req[r].plan /\ req'[r].minted = req[r].minted
      /\ \A s \in Requests : s # r => req'[s] = req[s]
  BY <1>1, Moved DEF IInv, Steps
<1>4. req[r].plan \in Updates => \A a \in Of(req[r].plan) : Settled(a)
  BY <1>2, Knows DEF Exclusive, Holding
<1>5. ReqOK(req[r])' /\ (req'[r].plan \in Updates => Holds(req[r]))
  BY <1>2, <1>3, <1>4, HolderGoesOn DEF Holding, world
<1> QED
  BY <1>2, <1>3, <1>5, OnlyMoves

\* A request that is about to record what became of the apply it waited for.
LEMMA WillRecord ==
  ASSUME IInv, NEW r \in Requests, UNCHANGED <<world, events, worker>>,
         req[r].step = "await",
         req'[r].step = "record", req'[r].plan = req[r].plan,
         Tells(req[r].plan, req'[r].todo.status)
  PROVE  ReqOK(req[r])' /\ Holds(req[r])
<1>1. req[r].plan \in Plans /\ ReqOK(req[r])
  BY Knows
<1>2. Holds(req[r])
  BY DEF Holds, Holding
<1>3. Shaped(req[r])'
  BY <1>1 DEF Shaped
<1>4. Truthful(req[r])'
  BY DEF Truthful, Tells, Still, Of, world, worker
<1>5. Exclusive(req[r])'
  BY <1>1, <1>2 DEF Exclusive, ReqOK, StatusOf, Holding
<1> QED
  BY <1>2, <1>3, <1>4, <1>5 DEF ReqOK

\* The one job of an update that waits is the one it waits for.
LEMMA Awaits ==
  ASSUME IInv, NEW r \in Requests, req[r].step = "await"
  PROVE  /\ req[r].minted \in Approvals
         /\ approval[req[r].minted].plan = req[r].plan
         /\ JobOK(req[r].minted)
         /\ req[r].plan \in Updates =>
              \A a \in Of(req[r].plan) : Settled(a) \/ a = req[r].minted
<1>1. Shaped(req[r]) /\ Exclusive(req[r])
  BY Knows
<1>2. Holding = {"propose", "head", "send", "await", "deny", "release"}
  BY DEF Holding
<1> QED
  BY <1>1, <1>2 DEF Shaped, Exclusive, IInv, Done

LEMMA VerdictTells ==
  ASSUME IInv, NEW r \in Requests, req[r].step = "await",
         NEW x \in {"failed", "suspect", "unknown"},
         x = job[req[r].minted] \/ x = "unknown"
  PROVE  Tells(req[r].plan, Verdict(req[r].plan, x).status)
<1> DEFINE p == req[r].plan
<1>1. p \in Plans /\ (p \notin Creates <=> p \in Updates)
  BY Knows
<1>2. CASE x = "unknown"
  <2>1. Verdict(p, x).status = "ambiguous"
    BY <1>2 DEF Verdict, Decision
  <2> QED
    BY <2>1, NoneAssumption DEF Tells
<1>3. CASE x # "unknown"
  <2>1. x = job[req[r].minted]
    BY <1>3
  <2>2. p \in Updates => \A a \in Of(p) : job[a] \notin InProgress
    BY <1>3, <2>1, Awaits DEF Settled, InProgress
  <2>3. CASE x = "failed" /\ p \notin Creates
    <3>1. Verdict(p, x).status = "failed"
      BY <2>3 DEF Verdict, Decision
    <3>2. \A a \in Of(p) : job[a] \notin Past
      BY <1>1, <2>1, <2>3, Awaits DEF Settled, Past
    <3>3. infra[p] = "untouched"
      BY <1>1, <2>3, <3>2, Untouched DEF IInv
    <3> QED
      BY <1>1, <2>2, <2>3, <3>1, <3>3, NoneAssumption DEF Tells, Still
  <2>4. CASE ~(x = "failed" /\ p \notin Creates)
    <3>1. Verdict(p, x).status = "failed_state_suspect"
      BY <1>3, <2>4 DEF Verdict, Decision
    <3> QED
      BY <1>1, <2>2, <3>1, NoneAssumption DEF Tells, Still
  <2> QED
    BY <2>3, <2>4
<1> QED
  BY <1>2, <1>3

LEMMA TimeoutStep ==
  ASSUME IInv, NEW r \in Requests, Timeout(r)
  PROVE  Told' /\ Done' /\ Merged'
<1>1. /\ req[r].step = "await" /\ UNCHANGED <<world, events, worker>>
      /\ ToRecord(r, Verdict(req[r].plan, "unknown"))
  BY DEF Timeout
<1>2. /\ req'[r].step = "record" /\ req'[r].todo = Verdict(req[r].plan, "unknown")
      /\ req'[r].plan = req[r].plan
      /\ \A s \in Requests : s # r => req'[s] = req[s]
  BY <1>1, Moved DEF IInv
<1>3. ReqOK(req[r])' /\ Holds(req[r])
  BY <1>1, <1>2, VerdictTells, WillRecord
<1> QED
  BY <1>1, <1>2, <1>3, OnlyMoves

\* The release matrix: what the answer of the worker allows.
LEMMA AnsweredStep ==
  ASSUME IInv, NEW r \in Requests, Answered(r)
  PROVE  Told' /\ Done' /\ Merged'
<1> DEFINE p == req[r].plan
           x == job[req[r].minted]
<1>1. req[r].step = "await" /\ UNCHANGED <<world, events, worker>>
  BY DEF Answered
<1>2. /\ p \in Plans /\ Exclusive(req[r])
      /\ p \notin Creates <=> p \in Updates
  BY <1>1, Knows
<1>3. Holds(req[r]) /\ TypeOK
  BY <1>1 DEF Holds, Holding, IInv
<1>4. CASE x \in {"denied", "refused"} /\ \E t \in {"deny", "release"} : Goto(r, t)
  <2>1. PICK t \in {"deny", "release"} : Goto(r, t)
    BY <1>4
  <2>2. /\ req'[r].step = t /\ req'[r].plan = req[r].plan /\ req'[r].minted = req[r].minted
        /\ \A s \in Requests : s # r => req'[s] = req[s]
    BY <1>3, <2>1, Moved DEF Steps
  <2>3. p \in Updates => \A a \in Of(p) : Settled(a)
    BY <1>1, <1>4, Awaits DEF Settled
  <2>4. ReqOK(req[r])'
    BY <1>1, <2>2, <2>3, HolderGoesOn DEF Holding, world
  <2> QED
    BY <1>1, <1>3, <2>2, <2>4, OnlyMoves
<1>5. CASE x \in {"failed", "suspect", "unknown"} /\ ToRecord(r, Verdict(p, x))
  <2>1. /\ req'[r].step = "record" /\ req'[r].todo = Verdict(p, x)
        /\ req'[r].plan = req[r].plan
        /\ \A s \in Requests : s # r => req'[s] = req[s]
    BY <1>3, <1>5, Moved
  <2>2. Tells(p, req'[r].todo.status)
    BY <1>1, <1>5, <2>1, VerdictTells
  <2>3. ReqOK(req[r])'
    BY <1>1, <2>1, <2>2, WillRecord
  <2> QED
    BY <1>1, <1>3, <2>1, <2>3, OnlyMoves
<1>6. ASSUME x = "applied"
      PROVE  /\ infra[p] = "applied"
             /\ p \in Updates => Still(p)
  <2>1. infra[p] = "applied"
    BY <1>1, <1>6, Awaits DEF JobOK
  <2>2. p \in Updates => \A a \in Of(p) : job[a] \notin InProgress
    BY <1>1, <1>6, Awaits DEF Settled, InProgress
  <2> QED
    BY <2>1, <2>2 DEF Still
<1>7. CASE x = "applied" /\ p \in Creates /\ ToRecord(r, Decision("applied", "merged"))
  <2>1. /\ req'[r].step = "record" /\ req'[r].todo.status = "applied"
        /\ req'[r].plan = req[r].plan
        /\ \A s \in Requests : s # r => req'[s] = req[s]
    BY <1>3, <1>7, Moved DEF Decision
  <2>2. Tells(p, req'[r].todo.status)
    <3> HIDE DEF p
    <3> QED
      BY <1>2, <1>6, <1>7, <2>1, NoneAssumption DEF Tells
  <2>3. ReqOK(req[r])'
    BY <1>1, <2>1, <2>2, WillRecord
  <2> QED
    BY <1>1, <1>3, <2>1, <2>3, OnlyMoves
<1>8. CASE x = "applied" /\ p \notin Creates /\ Goto(r, "merge")
  <2>1. /\ req'[r].step = "merge" /\ req'[r].plan = req[r].plan
        /\ \A s \in Requests : s # r => req'[s] = req[s]
    BY <1>3, <1>8, Moved DEF Steps
  <2>2. Shaped(req[r])'
    BY <1>2, <2>1 DEF Shaped
  <2>3. Truthful(req[r])'
    <3>1. infra[req[r].plan] = "applied" /\ Still(req[r].plan)
      BY <1>2, <1>6, <1>8
    <3> QED
      BY <1>1, <2>1, <3>1 DEF Truthful, Still, Of, world, worker
  <2>4. Exclusive(req[r])'
    BY <1>1, <1>2, <1>3, <2>1 DEF Exclusive, StatusOf, Holding
  <2>5. ReqOK(req[r])'
    BY <2>2, <2>3, <2>4 DEF ReqOK
  <2> QED
    BY <1>1, <1>3, <2>1, <2>5, OnlyMoves
<1> QED
  BY <1>4, <1>5, <1>7, <1>8 DEF Answered

\* A merge by the lane touches one open pull request, in the name of a plan.
LEMMA LaneMerges ==
  ASSUME IInv, NEW p \in Plans, NEW ok \in BOOLEAN, MergePr(p, ok)
  PROVE  /\ \A q \in Pulls : pulls[q].merged => pulls'[q] = pulls[q]
         /\ \A q \in Pulls : \/ pulls'[q] = pulls[q]
                             \/ pulls'[q].merged /\ pulls'[q].by = p
BY PlanAssumption DEF IInv, TypeOK, MergePr

\* Steps that may merge.
LEMMA MergeSteps ==
  ASSUME IInv, NEW r \in Requests, UNCHANGED <<infra, saved, baked, events, worker>>,
         NEW p \in Plans, NEW ok \in BOOLEAN, MergePr(p, ok),
         p \in Updates => infra[p] = "applied",
         \A s \in Requests : s # r => req'[s] = req[s],
         ReqOK(req[r])',
         req'[r].plan \in Updates /\ Holds(req[r])' =>
           Holds(req[r]) /\ req'[r].plan = req[r].plan
  PROVE  Told' /\ Done' /\ Merged'
<1>1. /\ \A q \in Pulls : pulls[q].merged => pulls'[q] = pulls[q]
      /\ \A q \in Pulls : \/ pulls'[q] = pulls[q]
                          \/ pulls'[q].merged /\ pulls'[q].by = p
  BY LaneMerges
<1>2. Frame /\ Done'
  BY <1>1, Quiet
<1>3. Merged'
  <2>1. ASSUME NEW q \in Pulls PROVE PullOK(q)'
    BY <1>1 DEF IInv, Merged, PullOK
  <2>2. baked # None => MergedAt(baked)'
    BY <1>1 DEF IInv, Merged, MergedAt
  <2> QED
    BY <2>1, <2>2 DEF Merged, MergedAt
<1>4. \A s \in Requests : Kept(s)
  BY DEF Kept, StatusOf
<1>5. Told'
  <2>1. Told
    BY DEF IInv
  <2>2. req'[r].plan \in Updates /\ Holds(req[r])' =>
          \A s \in Requests : s # r /\ req[s].plan = req'[r].plan => ~Holds(req[s])
    BY <2>1 DEF Told, OneHolder
  <2> QED
    BY <1>2, <1>4, <2>1, <2>2, ToldStep
<1> QED
  BY <1>2, <1>3, <1>5

LEMMA MergeFirstStep ==
  ASSUME IInv, NEW r \in Requests, MergeFirst(r)
  PROVE  Told' /\ Done' /\ Merged'
<1>1. /\ req[r].step = "mergeFirst"
      /\ UNCHANGED <<infra, saved, baked, events, worker>>
  BY DEF MergeFirst
<1>2. PICK ok \in BOOLEAN : /\ MergePr(req[r].plan, ok)
                            /\ Goto(r, IF ok THEN "recordMerged" ELSE "idle")
  BY DEF MergeFirst
<1>3. PICK t \in {"recordMerged", "idle"} : Goto(r, t)
  BY <1>2
<1>4. /\ req'[r].step = t
      /\ t # "idle" => req'[r].plan = req[r].plan
      /\ \A s \in Requests : s # r => req'[s] = req[s]
  BY <1>3, Moved DEF IInv, Steps
<1>5. req[r].plan \in Plans /\ req[r].plan \in Creates
  BY <1>1, Knows DEF Shaped
<1>6. ReqOK(req[r])' /\ ~Holds(req[r])'
  BY <1>4, <1>5 DEF ReqOK, Shaped, Truthful, Exclusive, Holds, Holding
<1> QED
  BY <1>1, <1>2, <1>4, <1>5, <1>6, MergeSteps DEF Updates

LEMMA MergeStep ==
  ASSUME IInv, NEW r \in Requests, Merge(r)
  PROVE  Told' /\ Done' /\ Merged'
<1>1. /\ req[r].step = "merge"
      /\ UNCHANGED <<infra, saved, baked, events, worker>>
  BY DEF Merge
<1>2. PICK ok \in BOOLEAN :
        /\ MergePr(req[r].plan, ok)
        /\ ToRecord(r, Decision("applied", IF ok THEN "merged" ELSE "failed"))
  BY DEF Merge
<1>3. /\ req'[r].step = "record" /\ req'[r].todo.status = "applied"
      /\ req'[r].plan = req[r].plan
      /\ \A s \in Requests : s # r => req'[s] = req[s]
  BY <1>2, Moved DEF IInv, Decision
<1>4. /\ req[r].plan \in Plans /\ Exclusive(req[r])
      /\ infra[req[r].plan] = "applied"
      /\ req[r].plan \in Updates => Still(req[r].plan)
  BY <1>1, Knows DEF Truthful
<1>5. Shaped(req[r])'
  BY <1>3, <1>4 DEF Shaped
<1>6. Truthful(req[r])'
  <2>1. req[r].plan \in Updates => \A a \in Approvals :
          approval'[a].plan = req[r].plan => job'[a] \notin InProgress
    BY <1>1, <1>4 DEF Still, Of, worker
  <2> QED
    BY <1>1, <1>3, <1>4, <2>1, NoneAssumption DEF Truthful, Tells, Still, Of, Updates
<1>7. Exclusive(req[r])'
  BY <1>1, <1>3, <1>4 DEF Exclusive, Holds, StatusOf, Holding
<1>8. req'[r].plan \in Updates /\ Holds(req[r])' => Holds(req[r])
  BY <1>1, <1>3 DEF Holds, StatusOf, Holding
<1> QED
  BY <1>1, <1>2, <1>3, <1>4, <1>5, <1>6, <1>7, <1>8, MergeSteps DEF ReqOK

\* Steps that write the event of the request's plan and nothing else.
LEMMA EventSteps ==
  ASSUME IInv, NEW r \in Requests, UNCHANGED <<world, worker>>,
         NEW p \in Plans, p = req[r].plan,
         \A o \in Plans : o # p => events'[o] = events[o],
         EventOK(p)',
         \A s \in Requests : s # r => req'[s] = req[s],
         \A s \in Requests : s # r /\ req[s].plan = req[r].plan => Kept(s),
         ReqOK(req[r])',
         req'[r].plan \in Updates /\ Holds(req[r])' =>
           \A s \in Requests : s # r /\ req[s].plan = req'[r].plan => ~Holds(req[s])
  PROVE  Told' /\ Done' /\ Merged'
<1>1. Frame /\ Done'
  BY Quiet DEF world
<1>2. Merged'
  BY <1>1, MergedStay DEF IInv, world
<1>3. \A s \in Requests : s # r => Kept(s)
  <2>1. ASSUME NEW s \in Requests, s # r, req[s].plan # req[r].plan,
               req[s].plan \in Updates
        PROVE  events'[req[s].plan] = events[req[s].plan]
    BY <2>1 DEF Updates
  <2> QED
    BY <2>1 DEF Kept, StatusOf
<1>4. \A o \in Plans : events'[o] = events[o] \/ EventOK(o)'
  OBVIOUS
<1>5. Told
  BY DEF IInv
<1>6. Told'
  BY <1>1, <1>3, <1>4, <1>5, ToldStep
<1> QED
  BY <1>1, <1>2, <1>6

\* A claim is won only of a free key, which nobody holds.
LEMMA ClaimStep ==
  ASSUME IInv, NEW r \in Requests, Claim(r)
  PROVE  Told' /\ Done' /\ Merged'
<1>1. req[r].step = "claim" /\ UNCHANGED <<world, worker>>
  BY DEF Claim
<1>2. PICK p \in Plans : p = req[r].plan
  BY <1>1, Knows
<1>3. /\ EventOK(p) /\ events[p] \in Event
      /\ p \notin Creates <=> p \in Updates
  BY <1>1, <1>2, Knows DEF IInv, TypeOK
<1>4. CASE events[p].claimed
  <2>1. Goto(r, "refind") /\ UNCHANGED events
    BY <1>2, <1>4 DEF Claim
  <2>2. /\ req'[r].step = "refind" /\ req'[r].plan = req[r].plan
        /\ \A s \in Requests : s # r => req'[s] = req[s]
    BY <2>1, Moved DEF IInv, Steps
  <2>3. ReqOK(req[r])' /\ ~Holds(req[r])'
    BY <1>2, <2>2, Calmed DEF Calm
  <2> QED
    BY <1>1, <2>1, <2>2, <2>3, OnlyMoves
<1>5. CASE ~events[p].claimed
  <2>1. /\ events' = [events EXCEPT ![p].claimed = TRUE]
        /\ Goto(r, IF p \in Creates THEN "intent" ELSE "propose")
    BY <1>2, <1>5 DEF Claim
  <2>2. /\ events'[p].claimed /\ events'[p].decision = events[p].decision
        /\ \A o \in Plans : o # p => events'[o] = events[o]
    BY <1>3, <2>1 DEF IInv, TypeOK, Event
  <2>3. /\ req'[r].step = IF p \in Creates THEN "intent" ELSE "propose"
        /\ req'[r].plan = p
        /\ \A s \in Requests : s # r => req'[s] = req[s]
    <3>1. PICK t \in {"intent", "propose"} :
            /\ t = IF p \in Creates THEN "intent" ELSE "propose"
            /\ Goto(r, t)
      BY <2>1
    <3> QED
      BY <1>2, <3>1, Moved DEF IInv, Steps
  <2>4. p \in Updates => StatusOf(p) = None /\ \A a \in Of(p) : Settled(a)
    BY <1>3, <1>5 DEF EventOK
  <2>5. EventOK(p)'
    BY <1>1, <1>3, <2>2 DEF EventOK, StatusOf, Tells, Still, Of, world, worker
  <2>6. ReqOK(req[r])'
    <3>1. CASE p \in Creates
      BY <1>3, <2>3, <3>1 DEF ReqOK, Shaped, Truthful, Exclusive, Updates
    <3>2. CASE p \in Updates
      <4>1. Exclusive(req[r])'
        BY <1>1, <1>3, <2>2, <2>3, <2>4, <3>2
           DEF Exclusive, StatusOf, Of, Settled, worker
      <4> QED
        BY <1>3, <2>3, <3>2, <4>1 DEF ReqOK, Shaped, Truthful
    <3> QED
      BY <1>3, <3>1, <3>2
  <2>7. \A s \in Requests : s # r /\ req[s].plan = req[r].plan => Kept(s)
    BY <1>2, <2>2 DEF Kept, StatusOf
  <2>8. p \in Updates => \A s \in Requests : req[s].plan = p => ~Holds(req[s])
    BY <1>5 DEF IInv, Told, ReqOK, Exclusive
  <2> QED
    BY <1>1, <1>2, <2>2, <2>3, <2>5, <2>6, <2>7, <2>8, EventSteps
<1> QED
  BY <1>4, <1>5

\* The pointers of the plans that are merged first.
LEMMA PointerSteps ==
  ASSUME IInv, NEW r \in Requests, Intent(r) \/ RecordMerged(r)
  PROVE  Told' /\ Done' /\ Merged'
<1>1. /\ req[r].step \in {"intent", "recordMerged"} /\ UNCHANGED <<world, worker>>
  BY DEF Intent, RecordMerged
<1>2. PICK p \in Plans : p = req[r].plan
  BY <1>1, Knows
<1>3. p \in Creates /\ p \notin Updates
  BY <1>1, <1>2, Knows DEF Shaped, Updates
<1>4. PICK t \in {"release", "mergeFirst", "idle"} : Goto(r, t)
  BY DEF Intent, RecordMerged
<1>5. /\ req'[r].step = t
      /\ t # "idle" => req'[r].plan = p
      /\ t = "idle" => req'[r] = NoRequest
      /\ \A s \in Requests : s # r => req'[s] = req[s]
  <2>1. t = "idle" => req'[r] = NoRequest
    BY <1>4 DEF Goto, Becomes, IInv, TypeOK
  <2> QED
    BY <1>2, <1>4, <2>1, Moved DEF IInv, Steps
<1>6. /\ events'[p] = events[p] \/ events'[p].decision.status = "waiting_for_rebake"
      /\ \A o \in Plans : o # p => events'[o] = events[o]
  BY <1>2 DEF Intent, RecordMerged, Decision, IInv, TypeOK, Event
<1>7. EventOK(p)'
  <2>1. EventOK(p)
    BY DEF IInv, Told
  <2>2. CASE events'[p] = events[p]
    BY <1>1, <2>1, <2>2 DEF EventOK, StatusOf, Tells, Still, Of, Settled, world, worker
  <2>3. CASE events'[p].decision.status = "waiting_for_rebake"
    BY <1>3, <2>3, NoneAssumption DEF EventOK, StatusOf, Tells
  <2> QED
    BY <1>6, <2>2, <2>3
<1>8. ReqOK(req[r])' /\ req'[r].plan \notin Updates
  <2>1. req'[r].plan \notin Updates
    BY <1>3, <1>5, NoneAssumption DEF NoRequest, Updates
  <2> QED
    BY <1>3, <1>5, <2>1 DEF ReqOK, Shaped, Truthful, Exclusive
<1>9. \A s \in Requests : s # r /\ req[s].plan = req[r].plan => Kept(s)
  BY <1>2, <1>3 DEF Kept
<1> QED
  BY <1>1, <1>2, <1>5, <1>6, <1>7, <1>8, <1>9, EventSteps

\* The verdict on an update is written by the holder of the key, or says once
\* more that the plan was applied.
LEMMA RecordStep ==
  ASSUME IInv, NEW r \in Requests, Record(r)
  PROVE  Told' /\ Done' /\ Merged'
<1>1. req[r].step = "record" /\ UNCHANGED <<world, worker>> /\ Goto(r, "idle")
  BY DEF Record
<1>2. PICK p \in Plans : p = req[r].plan
  BY <1>1, Knows
<1>3. /\ EventOK(p) /\ Tells(p, req[r].todo.status) /\ Exclusive(req[r])
  BY <1>1, <1>2, Knows DEF Truthful
<1>4. /\ events'[p] = [claimed |-> TRUE, decision |-> req[r].todo]
      /\ \A o \in Plans : o # p => events'[o] = events[o]
  BY <1>2 DEF Record, IInv, TypeOK
<1>5. /\ req'[r].step = "idle"
      /\ \A s \in Requests : s # r => req'[s] = req[s]
  BY <1>1, Moved DEF IInv, Steps
<1>6. EventOK(p)'
  <2>1. StatusOf(p)' = req[r].todo.status /\ events'[p].claimed
    BY <1>4 DEF StatusOf
  <2> QED
    BY <1>1, <1>3, <2>1 DEF EventOK, StatusOf, Tells, Still, Of, world, worker
<1>7. ReqOK(req[r])' /\ ~Holds(req[r])'
  BY <1>5, Calmed DEF Calm
<1>8. ASSUME NEW s \in Requests, s # r, req[s].plan = p PROVE Kept(s)
  <2>1. SUFFICES ASSUME p \in Updates, req[s].step \in Busy
                 PROVE  events'[p].decision.status = StatusOf(p) /\ events'[p].claimed
    BY <1>8 DEF Kept
  <2>2. StatusOf(p) # None
    BY <1>1, <1>2, <1>8, <2>1, Alone DEF Holds, IInv
  <2>3. req[r].todo.status = "applied" /\ StatusOf(p) = "applied"
    BY <1>1, <1>2, <1>3, <2>1, <2>2 DEF Exclusive
  <2> QED
    BY <1>4, <2>3
<1> QED
  BY <1>1, <1>2, <1>4, <1>5, <1>6, <1>7, <1>8, EventSteps

\* A key is given up by its holder, with nothing owed.
LEMMA ReleaseStep ==
  ASSUME IInv, NEW r \in Requests, Release(r)
  PROVE  Told' /\ Done' /\ Merged'
<1>1. req[r].step = "release" /\ UNCHANGED <<world, worker>> /\ Goto(r, "idle")
  BY DEF Release
<1>2. PICK p \in Plans : p = req[r].plan
  BY <1>1, Knows
<1>3. /\ events'[p] = NoEvent
      /\ \A o \in Plans : o # p => events'[o] = events[o]
  BY <1>2 DEF Release, IInv, TypeOK
<1>4. /\ req'[r].step = "idle"
      /\ \A s \in Requests : s # r => req'[s] = req[s]
  BY <1>1, Moved DEF IInv, Steps
<1>5. p \in Updates => \A a \in Of(p) : Settled(a)
  BY <1>1, <1>2, Knows DEF Exclusive, Holding
<1>6. EventOK(p)'
  BY <1>1, <1>3, <1>5 DEF EventOK, StatusOf, NoEvent, NoDecision, Of, Settled, worker
<1>7. ReqOK(req[r])' /\ ~Holds(req[r])'
  BY <1>4, Calmed DEF Calm
<1>8. Holds(req[r])
  BY <1>1 DEF Holds, Holding
<1>9. \A s \in Requests : s # r /\ req[s].plan = p => Kept(s)
  BY <1>2, <1>8, Alone DEF IInv, Kept
<1> QED
  BY <1>1, <1>2, <1>3, <1>4, <1>6, <1>7, <1>9, EventSteps

\* Steps that mint or withdraw an approval.
LEMMA ApprovalSteps ==
  ASSUME IInv, NEW r \in Requests, UNCHANGED <<world, events, job>>, Frame,
         \A s \in Requests : s # r => req'[s] = req[s],
         ReqOK(req[r])',
         req'[r].plan \in Updates => Holds(req[r]) /\ req'[r].plan = req[r].plan
  PROVE  Told' /\ Done' /\ Merged'
<1>1. Merged'
  BY MergedStay DEF IInv, world
<1>2. Done'
  <2>1. \A h \in Heads : MergedAt(h) => MergedAt(h)'
    BY DEF MergedAt, world
  <2> QED
    BY <2>1, DoneStay DEF IInv, world
<1>3. \A s \in Requests : Kept(s)
  BY DEF Kept, StatusOf
<1>4. Told'
  <2>1. Told
    BY DEF IInv
  <2>2. req'[r].plan \in Updates =>
          \A s \in Requests : s # r /\ req[s].plan = req'[r].plan => ~Holds(req[s])
    BY <2>1 DEF Told, OneHolder
  <2> QED
    BY <1>3, <2>1, <2>2, ToldStep
<1> QED
  BY <1>1, <1>2, <1>4

\* An approval is minted once, and no job was ever about it.
LEMMA Mints ==
  ASSUME IInv, UNCHANGED <<infra, job>>, NEW a \in Approvals, NEW p \in Plans,
         approval[a].status = "absent",
         approval' = [approval EXCEPT ![a] =
                        [status |-> "pending", phase |-> None, plan |-> p]]
  PROVE  /\ Frame /\ approval'[a].status = "pending" /\ approval'[a].plan = p
         /\ job'[a] = "none"
<1>1. job[a] = "none"
  BY DEF IInv, Done, JobOK
<1>2. /\ approval'[a].status = "pending" /\ approval'[a].plan = p
      /\ \A b \in Approvals : b # a => approval'[b] = approval[b]
  BY DEF IInv, TypeOK
<1> QED
  BY <1>1, <1>2 DEF Frame, Settled

LEMMA ProposeStep ==
  ASSUME IInv, NEW r \in Requests, Propose(r)
  PROVE  Told' /\ Done' /\ Merged'
<1>1. req[r].step = "propose" /\ UNCHANGED <<world, events, job>>
  BY DEF Propose
<1>2. PICK p \in Plans : p = req[r].plan
  BY <1>1, Knows
<1>3. /\ ReqOK(req[r]) /\ Exclusive(req[r]) /\ req[r] \in Request
      /\ p \notin Creates <=> p \in Updates
  BY <1>1, <1>2, Knows
<1>4. Holds(req[r])
  BY <1>1 DEF Holds, Holding
<1>5. p \in Updates => /\ events[p].claimed /\ StatusOf(p) = None
                       /\ \A a \in Of(p) : Settled(a)
  BY <1>1, <1>2, <1>3, <1>4 DEF Exclusive, Holding
<1>6. UNCHANGED approval => Frame
  BY <1>1 DEF Frame, world, Settled
<1>7. ASSUME Frame
      PROVE  p \in Updates => \A a \in Approvals : approval'[a].plan = p => Settled(a)'
  BY <1>5, <1>7 DEF Of, Frame, Settled
<1>8. CASE \E a \in Approvals :
             /\ approval[a].status = "absent"
             /\ approval' = [approval EXCEPT ![a] =
                               [status |-> "pending", phase |-> None, plan |-> p]]
             /\ Becomes(r, [req[r] EXCEPT !.minted = a,
                              !.step = IF p \in Creates THEN "send" ELSE "head"])
  <2>1. PICK a \in Approvals :
          /\ approval[a].status = "absent"
          /\ approval' = [approval EXCEPT ![a] =
                            [status |-> "pending", phase |-> None, plan |-> p]]
          /\ Becomes(r, [req[r] EXCEPT !.minted = a,
                           !.step = IF p \in Creates THEN "send" ELSE "head"])
    BY <1>8
  <2>2. /\ Frame /\ approval'[a].status = "pending" /\ approval'[a].plan = p
    BY <1>1, <2>1, Mints DEF world
  <2>3. /\ req'[r].step = IF p \in Creates THEN "send" ELSE "head"
        /\ req'[r].plan = p /\ req'[r].minted = a
        /\ \A s \in Requests : s # r => req'[s] = req[s]
    BY <1>2, <1>3, <2>1 DEF IInv, TypeOK, Becomes, Request
  <2>4. Shaped(req[r])' /\ Truthful(req[r])'
    BY <2>2, <2>3 DEF Shaped, Truthful
  <2>5. Exclusive(req[r])'
    BY <1>1, <1>3, <1>5, <1>7, <2>2, <2>3 DEF Exclusive, StatusOf, Of
  <2> QED
    BY <1>1, <1>2, <1>4, <2>2, <2>3, <2>4, <2>5, ApprovalSteps DEF ReqOK
<1>9. CASE /\ \/ UNCHANGED approval
              \/ \E a \in Approvals :
                   /\ approval[a].status = "absent"
                   /\ approval' = [approval EXCEPT ![a] =
                                     [status |-> "pending", phase |-> None, plan |-> p]]
           /\ Goto(r, GiveUp(p))
  <2>1. Frame
    BY <1>1, <1>6, <1>9, Mints DEF world
  <2>2. PICK t \in {"idle", "release"} : Goto(r, t) /\ (t = "release" => p \in Updates)
    BY <1>3, <1>9 DEF GiveUp
  <2>3. /\ req'[r].step = t
        /\ t # "idle" => req'[r].plan = p
        /\ \A s \in Requests : s # r => req'[s] = req[s]
    BY <1>2, <2>2, Moved DEF IInv, Steps
  <2>4. CASE t = "idle"
    <3>1. req'[r].plan = None
      BY <2>2, <2>4 DEF Goto, Becomes, NoRequest, IInv, TypeOK
    <3>2. req'[r].plan \notin Updates
      BY <3>1, NoneAssumption DEF Updates
    <3>3. ReqOK(req[r])'
      BY <2>3, <2>4, Calmed DEF Calm
    <3> QED
      BY <1>1, <2>1, <2>3, <3>2, <3>3, ApprovalSteps
  <2>5. CASE t = "release"
    <3>1. Shaped(req[r])' /\ Truthful(req[r])'
      BY <2>3, <2>5 DEF Shaped, Truthful
    <3>2. Exclusive(req[r])'
      BY <1>1, <1>5, <1>7, <2>1, <2>3, <2>5 DEF Exclusive, StatusOf, Of
    <3> QED
      BY <1>1, <1>2, <1>4, <2>1, <2>3, <2>5, <3>1, <3>2, ApprovalSteps DEF ReqOK
  <2> QED
    BY <2>4, <2>5
<1> QED
  BY <1>2, <1>8, <1>9 DEF Propose

LEMMA DenyStep ==
  ASSUME IInv, NEW r \in Requests, Deny(r)
  PROVE  Told' /\ Done' /\ Merged'
<1>1. req[r].step = "deny" /\ UNCHANGED <<world, events, job>>
  BY DEF Deny
<1>2. PICK p \in Plans : p = req[r].plan
  BY <1>1, Knows
<1>3. /\ Exclusive(req[r])
      /\ p \notin Creates <=> p \in Updates
  BY <1>1, <1>2, Knows
<1>4. Holds(req[r])
  BY <1>1 DEF Holds, Holding
<1>5. p \in Updates => /\ events[p].claimed /\ StatusOf(p) = None
                       /\ \A a \in Of(p) : Settled(a)
  BY <1>1, <1>2, <1>3, <1>4 DEF Exclusive, Holding
<1>6. \A a \in Approvals : /\ approval'[a].plan = approval[a].plan
                           /\ approval[a].status # "absent" => approval'[a].status # "absent"
  BY DEF Deny, IInv, TypeOK, Approval
<1>7. Frame
  BY <1>1, <1>6 DEF Frame, world, Settled
<1>8. PICK t \in {"idle", "release"} : Goto(r, t) /\ (t = "release" => p \in Updates)
  BY <1>2, <1>3 DEF Deny, GiveUp
<1>9. /\ req'[r].step = t
      /\ t # "idle" => req'[r].plan = p
      /\ \A s \in Requests : s # r => req'[s] = req[s]
  BY <1>2, <1>8, Moved DEF IInv, Steps
<1>10. CASE t = "idle"
  <2>1. req'[r].plan \notin Updates
    BY <1>8, <1>10, NoneAssumption DEF Goto, Becomes, NoRequest, IInv, TypeOK, Updates
  <2>2. ReqOK(req[r])'
    BY <1>9, <1>10, Calmed DEF Calm
  <2> QED
    BY <1>1, <1>7, <1>9, <2>1, <2>2, ApprovalSteps
<1>11. CASE t = "release"
  <2>1. Shaped(req[r])' /\ Truthful(req[r])'
    BY <1>9, <1>11 DEF Shaped, Truthful
  <2>2. Exclusive(req[r])'
    BY <1>1, <1>5, <1>6, <1>9, <1>11 DEF Exclusive, StatusOf, Of, Settled
  <2> QED
    BY <1>1, <1>2, <1>4, <1>7, <1>9, <1>11, <2>1, <2>2, ApprovalSteps DEF ReqOK
<1> QED
  BY <1>10, <1>11

\* The one step that starts a job: of an update, when every other was refused.
LEMMA SendStep ==
  ASSUME IInv, NEW r \in Requests, Send(r)
  PROVE  Told' /\ Done' /\ Merged'
<1>1. req[r].step = "send" /\ UNCHANGED <<world, events, approval>>
  BY DEF Send
<1>2. PICK p \in Plans : p = req[r].plan
  BY <1>1, Knows
<1>3. PICK m \in Approvals : /\ m = req[r].minted /\ approval[m].plan = p
                             /\ approval[m].status # "absent"
  BY <1>1, <1>2, Knows DEF Shaped
<1>4. job'[m] = "sent" /\ \A a \in Approvals : a # m => job'[a] = job[a]
  BY <1>3 DEF Send, IInv, TypeOK
<1>5. /\ req'[r].step = "await" /\ req'[r].plan = p /\ req'[r].minted = m
      /\ \A s \in Requests : s # r => req'[s] = req[s]
  <2>1. Goto(r, "await")
    BY DEF Send
  <2> QED
    BY <1>2, <1>3, <2>1, Moved DEF IInv, Steps
<1>6. Exclusive(req[r]) /\ Holds(req[r])
  BY <1>1, Knows DEF Holds, Holding
<1>7. p \in Updates => /\ events[p].claimed /\ StatusOf(p) = None
                       /\ \A a \in Of(p) : Settled(a)
  BY <1>1, <1>2, <1>6 DEF Exclusive, Holding
<1>8. ASSUME NEW o \in Updates, o # p
      PROVE  /\ \A a \in Of(o) : job'[a] = job[a]
             /\ Still(o) => Still(o)'
  BY <1>1, <1>3, <1>4, <1>8 DEF Of, Still
<1>9. ASSUME NEW s \in Requests, s # r PROVE ReqOK(req[s])'
  <2>1. req'[s] = req[s] /\ ReqOK(req[s])
    BY <1>5, <1>9 DEF IInv, Told
  <2>2. Shaped(req[s])'
    BY <1>1, <2>1 DEF ReqOK, Shaped
  <2>3. CASE req[s].plan \in Updates /\ req[s].plan = p
    <3>1. req[s].step \notin Busy
      BY <1>2, <1>6, <1>9, <2>3, Alone DEF IInv
    <3> QED
      BY <2>1, <2>2, <3>1 DEF ReqOK, Truthful, Exclusive, Busy, Holds, Holding
  <2>4. CASE req[s].plan \in Updates /\ req[s].plan # p
    <3>1. \A a \in Of(req[s].plan) : job'[a] = job[a]
      BY <1>8, <2>4
    <3>2. Truthful(req[s])'
      <4>1. \A a \in Approvals : approval'[a].plan = req[s].plan
              => job'[a] = job[a] /\ approval[a].plan = req[s].plan
        BY <1>1, <3>1 DEF Of
      <4> QED
        BY <1>1, <2>1, <4>1 DEF ReqOK, Truthful, Tells, Still, Of, world
    <3>3. Exclusive(req[s])'
      BY <1>1, <2>1, <3>1 DEF ReqOK, Exclusive, StatusOf, Holds, Of, Settled
    <3> QED
      BY <2>2, <3>2, <3>3 DEF ReqOK
  <2>5. CASE req[s].plan \notin Updates
    <3>1. Truthful(req[s])'
      BY <1>1, <2>1, <2>5 DEF ReqOK, Truthful, Tells, world
    <3>2. Exclusive(req[s])'
      BY <2>1, <2>5 DEF Exclusive
    <3> QED
      BY <2>2, <3>1, <3>2 DEF ReqOK
  <2> QED
    BY <2>3, <2>4, <2>5
<1>10. ReqOK(req[r])'
  <2>1. Shaped(req[r])' /\ Truthful(req[r])'
    BY <1>1, <1>3, <1>5 DEF Shaped, Truthful
  <2>2. Exclusive(req[r])'
    BY <1>1, <1>4, <1>5, <1>7 DEF Exclusive, StatusOf, Of, Settled
  <2> QED
    BY <2>1, <2>2 DEF ReqOK
<1>11. ASSUME NEW o \in Plans PROVE EventOK(o)'
  <2>1. EventOK(o) /\ events'[o] = events[o] /\ infra' = infra
    BY <1>1 DEF IInv, Told, world
  <2>2. CASE o \in Updates /\ o = p
    BY <1>7, <2>1, <2>2 DEF EventOK, StatusOf
  <2>3. CASE o \in Updates /\ o # p
    <3>1. \A a \in Approvals : approval'[a].plan = o
            => job'[a] = job[a] /\ approval[a].plan = o
      BY <1>1, <1>8, <2>3 DEF Of
    <3> QED
      BY <2>1, <3>1 DEF EventOK, StatusOf, Tells, Still, Of, Settled
  <2>4. CASE o \notin Updates
    BY <2>1, <2>4 DEF EventOK, StatusOf, Tells
  <2> QED
    BY <2>2, <2>3, <2>4
<1>12. OneHolder'
  <2>1. \A s \in Requests : Holds(req[s])' => Holds(req[s]) \/ s = r
    BY <1>1, <1>5 DEF Holds, StatusOf
  <2>2. \A s \in Requests : req'[s].plan = req[s].plan
    BY <1>2, <1>5
  <2> QED
    BY <1>6, <2>1, <2>2 DEF IInv, Told, OneHolder
<1>13. ASSUME NEW a \in Approvals PROVE JobOK(a)'
  <2>1. JobOK(a)
    BY DEF IInv, Done
  <2>2. CASE a = m
    BY <1>1, <1>3, <1>4, <2>2 DEF JobOK
  <2>3. CASE a # m
    <3>1. /\ job'[a] = job[a] /\ approval'[a] = approval[a]
          /\ infra' = infra /\ pulls' = pulls
      BY <1>1, <1>4, <2>3 DEF world
    <3> QED
      BY <2>1, <3>1 DEF JobOK, MergedAt
  <2> QED
    BY <2>2, <2>3
<1>14. ASSUME NEW o \in Plans PROVE InfraOK(o)'
  <2>1. InfraOK(o) /\ UNCHANGED <<infra, saved, pulls>>
    BY <1>1 DEF IInv, Done, world
  <2>2. CASE o = p /\ o \in Updates
    <3>1. infra[p] = "untouched"
      BY <1>7, <2>2, Untouched DEF IInv, Settled, Past
    <3> QED
      BY <2>1, <2>2, <3>1 DEF InfraOK, Updates
  <2>3. CASE o # p /\ o \in Updates
    <3>1. \A a \in Of(o) : job'[a] = job[a] /\ approval'[a].plan = o
      BY <1>1, <1>8, <2>3 DEF Of
    <3> QED
      BY <2>1, <2>3, <3>1 DEF InfraOK, Of, Updates
  <2>4. CASE o \notin Updates
    BY <2>1, <2>4 DEF InfraOK, MergedAt
  <2> QED
    BY <2>2, <2>3, <2>4
<1>15. OneAttempt'
  BY <1>1, <1>3, <1>4, <1>7 DEF IInv, Done, OneAttempt, Of, Settled
<1>16. Merged'
  BY <1>1 DEF IInv, Merged, PullOK, MergedAt, world
<1> QED
  BY <1>9, <1>10, <1>11, <1>12, <1>13, <1>14, <1>15, <1>16 DEF Told, Done

LEMMA RequestSteps ==
  ASSUME IInv, NEW r \in Requests, RequestStep(r)
  PROVE  Told' /\ Done' /\ Merged'
BY ArriveStep, FindStep, PlainStep, ClaimStep, PointerSteps, MergeFirstStep,
   ProposeStep, HeadStep, SendStep, AnsweredStep, TimeoutStep, MergeStep,
   RecordStep, DenyStep, ReleaseStep DEF RequestStep

-----------------------------------------------------------------------------
(* The steps of the worker                                                 *)

\* A job goes on, or ends, without touching the infrastructure.
LEMMA JobGoesOn ==
  ASSUME IInv, NEW a \in Approvals, UNCHANGED <<world, events, req>>,
         job[a] \in InProgress, NEW x \in {"gates", "tofu", "audit"} \cup Answers,
         job' = [job EXCEPT ![a] = x],
         \A b \in Approvals : approval'[b].plan = approval[b].plan /\
            (approval[b].status # "absent" => approval'[b].status # "absent"),
         job[a] = "audit" => x \in {"unknown", "applied"},
         x \in {"audit", "applied"} => job[a] = "audit",
         x = "tofu" /\ approval[a].plan \in Creates => MergedAt(HeadOf[approval[a].plan])
  PROVE  Told' /\ Done' /\ Merged'
<1>1. job'[a] = x /\ \A b \in Approvals : b # a => job'[b] = job[b]
  BY DEF IInv, TypeOK
<1>2. Frame
  BY <1>1 DEF Frame, Settled, InProgress, world
<1>3. \A h \in Heads : MergedAt(h) => MergedAt(h)'
  BY DEF MergedAt, world
<1>4. \A b \in Approvals :
        /\ job'[b] # "none" => job[b] # "none"
        /\ job[b] \in Past => job'[b] \in Past
        /\ job'[b] \in {"audit", "applied"} => job[b] \in {"audit", "applied"}
        /\ job'[b] = "tofu" /\ approval[b].plan \in Creates =>
             job[b] = "tofu" \/ MergedAt(HeadOf[approval[b].plan])
  BY <1>1 DEF InProgress, Past
<1>5. Done'
  BY <1>2, <1>3, <1>4, DoneStay DEF IInv, world
<1>6. Told'
  BY <1>2, ToldStay DEF IInv
<1>7. Merged'
  BY <1>2, MergedStay DEF IInv, world
<1> QED
  BY <1>5, <1>6, <1>7

\* What tofu apply does when it does something, with a saved plan that is
\* current: the state moves on, but for a create that broke off unseen.
LEMMA TofuMoves ==
  ASSUME TypeOK, NEW p \in Plans, NEW o \in {"partial", "applied"}, Tofu(p, o)
  PROVE  /\ saved[p] = "fresh" /\ infra'[p] = o
         /\ \A q \in Plans : q # p => infra'[q] = infra[q]
         /\ \A q \in Plans : saved[q] = "stale" => saved'[q] = "stale"
         /\ saved'[p] = "stale" \/ (o = "partial" /\ p \in Creates)
  BY DEF TypeOK, Tofu

\* The infrastructure moves.
LEMMA JobApplies ==
  ASSUME IInv, NEW a \in Approvals, UNCHANGED <<pulls, latest, baked, events, req>>,
         job[a] = "tofu",
         NEW p \in Plans, p = approval[a].plan,
         NEW o \in {"partial", "applied"}, Tofu(p, o),
         NEW x \in {"audit", "suspect", "unknown", "failed"},
         job' = [job EXCEPT ![a] = x],
         x = "audit" => o = "applied",
         x = "failed" => saved'[p] = "fresh",
         \A b \in Approvals : approval'[b].plan = approval[b].plan /\
            (approval[b].status # "absent" => approval'[b].status # "absent")
  PROVE  Told' /\ Done' /\ Merged'
<1>1. job'[a] = x /\ \A b \in Approvals : b # a => job'[b] = job[b]
  BY DEF IInv, TypeOK
<1>2. /\ saved[p] = "fresh" /\ infra'[p] = o
      /\ \A q \in Plans : q # p => infra'[q] = infra[q]
      /\ \A q \in Plans : saved[q] = "stale" => saved'[q] = "stale"
      /\ saved'[p] = "stale" \/ (o = "partial" /\ p \in Creates)
  BY TofuMoves DEF IInv
<1>3. infra[p] # "applied" /\ ~Still(p)
  BY <1>2 DEF IInv, Done, InfraOK, Still, Of, InProgress
<1>4. \A q \in Plans : infra[q] = "applied" => infra'[q] = "applied"
  BY <1>2, <1>3
<1>5. Frame
  <2>1. \A q \in Updates : Still(q) => infra'[q] = infra[q]
    BY <1>2, <1>3 DEF Updates
  <2> QED
    BY <1>1, <1>4, <2>1 DEF Frame, Settled, InProgress
<1>6. Told'
  BY <1>5, ToldStay DEF IInv
<1>7. Merged'
  BY <1>5, MergedStay DEF IInv
<1>8. ASSUME NEW b \in Approvals PROVE JobOK(b)'
  <2>1. JobOK(b)
    BY DEF IInv, Done
  <2>2. CASE b = a
    BY <1>1, <1>2, <2>1, <2>2 DEF JobOK
  <2>3. CASE b # a
    BY <1>1, <1>4, <2>1, <2>3 DEF JobOK, MergedAt
  <2> QED
    BY <2>2, <2>3
<1>9. ASSUME NEW q \in Plans PROVE InfraOK(q)'
  <2>1. InfraOK(q) /\ JobOK(a)
    BY DEF IInv, Done
  <2>2. CASE q = p
    <3>1. p \in Updates => saved'[p] = "stale" /\ job'[a] \in Past
      BY <1>1, <1>2 DEF Past, Updates
    <3>2. p \in Creates => MergedAt(HeadOf[p])'
      BY <2>1 DEF JobOK, MergedAt
    <3>3. infra'[p] = "applied" => saved'[p] = "stale"
      BY <1>2
    <3> QED
      BY <2>2, <3>1, <3>2, <3>3 DEF InfraOK, Of, Past
  <2>3. CASE q # p
    <3>1. infra'[q] = infra[q] /\ (saved[q] = "stale" => saved'[q] = "stale")
      BY <1>2, <2>3
    <3>2. \A b \in Approvals : approval'[b].plan = q => job'[b] = job[b] /\ approval[b].plan = q
      BY <1>1, <2>3
    <3>3. \A b \in Approvals : approval[b].plan = q => approval'[b].plan = q /\ job'[b] = job[b]
      BY <1>1, <2>3
    <3> QED
      BY <2>1, <3>1, <3>3 DEF InfraOK, Of, MergedAt
  <2> QED
    BY <2>2, <2>3
<1>10. OneAttempt'
  BY <1>5, OneAttemptFrame DEF IInv, Done
<1> QED
  BY <1>6, <1>7, <1>8, <1>9, <1>10 DEF Done

\* What the steps of a job do to the approvals.
LEMMA ApprovalKept ==
  ASSUME TypeOK, NEW a \in Approvals,
         \/ approval' = approval
         \/ \E f \in Phases : approval' = [approval EXCEPT ![a].phase = f]
         \/ \E f \in Phases :
              approval' = [approval EXCEPT ![a].status = "used", ![a].phase = f]
  PROVE  \A b \in Approvals : approval'[b].plan = approval[b].plan /\
            (approval[b].status # "absent" => approval'[b].status # "absent")
BY DEF TypeOK, Approval

LEMMA JobSteps ==
  ASSUME IInv, NEW a \in Approvals, JobStep(a)
  PROVE  Told' /\ Done' /\ Merged'
<1> DEFINE Kind == \A b \in Approvals : approval'[b].plan = approval[b].plan /\
            (approval[b].status # "absent" => approval'[b].status # "absent")
<1>1. job[a] # "none" => approval[a].plan \in Plans
  BY DEF IInv, Done, JobOK
<1>2. TypeOK /\ Merged
  BY DEF IInv
<1>3. baked = HeadOf[approval[a].plan] /\ approval[a].plan \in Plans
        => MergedAt(HeadOf[approval[a].plan])
  BY <1>2, PlanAssumption, NoneAssumption DEF Merged
<1>4. ASSUME NEW f \in Phases, NEW x, Fail(a, f, x) PROVE Kind /\ job' = [job EXCEPT ![a] = x]
  BY <1>2, <1>4, ApprovalKept DEF Fail, Reply
<1>5. {"refused", "failed", "failed_state_suspect", "claimed", "applied"} \subseteq Phases
  BY DEF Phases
<1>6. CASE JobClaim(a)
  <2>1. Kind
    BY <1>2, <1>5, <1>6, ApprovalKept DEF JobClaim
  <2>2. PICK x \in {"denied", "gates"} : job' = [job EXCEPT ![a] = x]
    BY <1>6 DEF JobClaim, Reply
  <2> QED
    BY <1>6, <2>1, <2>2, JobGoesOn DEF JobClaim, InProgress, Answers
<1>7. CASE JobGates(a)
  <2>1. PICK x \in {"refused", "failed", "tofu"} :
          /\ Kind /\ job' = [job EXCEPT ![a] = x]
          /\ x = "tofu" => (approval[a].plan \in Creates => baked = HeadOf[approval[a].plan])
    BY <1>4, <1>5, <1>7 DEF JobGates
  <2> QED
    BY <1>1, <1>3, <1>7, <2>1, JobGoesOn DEF JobGates, InProgress, Answers
<1>8. CASE JobTofu(a)
  <2>1. PICK p \in Plans : p = approval[a].plan
    BY <1>1, <1>8 DEF JobTofu
  <2>2. job[a] = "tofu" /\ UNCHANGED <<pulls, latest, baked, events, req>>
    BY <1>8 DEF JobTofu
  <2>3. CASE Tofu(p, "applied") /\ job' = [job EXCEPT ![a] = "audit"] /\ UNCHANGED approval
    BY <2>1, <2>2, <2>3, JobApplies
  <2>4. CASE Tofu(p, "untouched") /\ \E x \in {"refused", "failed", "suspect"} :
               Kind /\ job' = [job EXCEPT ![a] = x]
    <3>1. UNCHANGED world
      BY <2>2, <2>4 DEF Tofu, world
    <3> QED
      BY <2>2, <2>4, <3>1, JobGoesOn DEF InProgress, Answers
  <2>5. CASE Tofu(p, "partial") /\ \E x \in {"suspect", "failed"} :
               Kind /\ job' = [job EXCEPT ![a] = x] /\ (x = "failed" => saved'[p] = "fresh")
    <3>1. PICK x \in {"suspect", "failed"} :
               Kind /\ job' = [job EXCEPT ![a] = x] /\ (x = "failed" => saved'[p] = "fresh")
      BY <2>5
    <3> QED
      BY <2>1, <2>2, <2>5, <3>1, JobApplies
  <2> QED
    <3>1. \/ Tofu(p, "applied") /\ job' = [job EXCEPT ![a] = "audit"] /\ UNCHANGED approval
          \/ /\ Tofu(p, "untouched")
             /\ \/ Fail(a, "refused", "refused")
                \/ Fail(a, "failed", "failed")
                \/ Fail(a, "failed_state_suspect", "suspect")
          \/ /\ Tofu(p, "partial")
             /\ \/ Fail(a, "failed_state_suspect", "suspect")
                \/ saved'[p] = "fresh" /\ Fail(a, "failed", "failed")
      BY <1>8, <2>1 DEF JobTofu
    <3> QED
      BY <1>4, <1>5, <2>3, <2>4, <2>5, <3>1
<1>9. CASE JobAudit(a)
  <2>1. Kind
    BY <1>2, <1>5, <1>9, ApprovalKept DEF JobAudit
  <2>2. PICK x \in {"unknown", "applied"} : job' = [job EXCEPT ![a] = x]
    BY <1>9 DEF JobAudit, Reply
  <2> QED
    BY <1>9, <2>1, <2>2, JobGoesOn DEF JobAudit, InProgress, Answers
<1>10. CASE JobDies(a)
  <2>1. /\ job[a] \in InProgress /\ job' = [job EXCEPT ![a] = "unknown"] /\ Kind
        /\ UNCHANGED <<pulls, latest, baked, events, req>>
    BY <1>10 DEF JobDies, Reply
  <2>2. PICK p \in Plans : p = approval[a].plan
    BY <1>1, <2>1 DEF InProgress
  <2>3. CASE UNCHANGED <<saved, infra>>
    <3>1. UNCHANGED world
      BY <2>1, <2>3 DEF world
    <3> QED
      BY <2>1, <3>1, JobGoesOn DEF Answers
  <2>4. CASE job[a] = "tofu" /\ \E o \in {"partial", "applied"} : Tofu(p, o)
    BY <2>1, <2>2, <2>4, JobApplies
  <2> QED
    BY <1>10, <2>2, <2>3, <2>4 DEF JobDies, Tofu
<1> QED
  BY <1>6, <1>7, <1>8, <1>9, <1>10 DEF JobStep

-----------------------------------------------------------------------------
(* The invariant                                                           *)

LEMMA EnvironmentStep == ASSUME IInv, Environment PROVE Told' /\ Done' /\ Merged'
<1>1. UNCHANGED <<infra, events, worker, req>>
  BY DEF Environment, Push, MergedByHand, Rebake, Publish
<1>2. Frame
  BY <1>1 DEF Frame, Settled, worker
<1>3. Told'
  BY <1>1, <1>2, ToldStay DEF IInv
<1> DEFINE Keeps ==
      /\ \A q \in Pulls : /\ pulls[q].merged => pulls'[q] = pulls[q]
                          /\ pulls'[q].by = pulls[q].by
      /\ \A p \in Plans : saved[p] = "stale" => saved'[p] = "stale"
      /\ baked' = baked \/ \E q \in Pulls : pulls[q].merged /\ baked' = pulls[q].head
<1>4. Keeps
  <2> TypeOK
    BY DEF IInv
  <2>1. ASSUME NEW q \in Pulls, NEW h \in Heads, Push(q, h) PROVE Keeps
    BY <2>1 DEF Push, TypeOK
  <2>2. ASSUME NEW q \in Pulls, MergedByHand(q) PROVE Keeps
    BY <2>2 DEF MergedByHand, TypeOK
  <2>3. ASSUME NEW q \in Pulls, Rebake(q) PROVE Keeps
    BY <2>3 DEF Rebake
  <2>4. ASSUME NEW p \in Plans, Publish(p) PROVE Keeps
    BY <2>4 DEF Publish, TypeOK
  <2> QED
    BY <2>1, <2>2, <2>3, <2>4 DEF Environment
<1>5. \A h : MergedAt(h) => MergedAt(h)'
  BY <1>4, MergedStays
<1>6. Done'
  BY <1>1, <1>2, <1>4, <1>5, DoneStay DEF IInv, worker
<1>7. Merged'
  <2>1. ASSUME NEW q \in Pulls PROVE PullOK(q)'
    BY <1>1, <1>4 DEF IInv, Merged, PullOK
  <2>2. baked' # None => \E q \in Pulls : pulls'[q].merged /\ pulls'[q].head = baked'
    BY <1>4 DEF IInv, Merged, MergedAt
  <2> QED
    BY <2>1, <2>2 DEF Merged, MergedAt
<1> QED
  BY <1>3, <1>6, <1>7

LEMMA InitIInv == ASSUME Init PROVE IInv
<1>1. TypeOK
  BY PlanAssumption DEF Init, TypeOK, Event, NoEvent, NoDecision, Decisions, MergeState,
     Approval, NoApproval, Phases, Request, NoRequest, Steps
<1>2. Told
  <2>1. \A r \in Requests : req[r].step = "idle"
    BY DEF Init, NoRequest
  <2>2. \A r \in Requests : ~Holds(req[r])
    BY <2>1 DEF Holds, Holding
  <2>3. \A r \in Requests : ReqOK(req[r])
    BY <2>1, <2>2 DEF ReqOK, Shaped, Truthful, Exclusive, Holding
  <2>4. \A p \in Plans : StatusOf(p) = None
    BY DEF Init, StatusOf, NoEvent, NoDecision
  <2>5. \A a \in Approvals : Settled(a)
    BY DEF Init, Settled
  <2>6. \A p \in Plans : EventOK(p)
    BY <2>4, <2>5 DEF EventOK, Of
  <2> QED
    BY <2>2, <2>3, <2>6 DEF Told, OneHolder
<1>3. Done
  BY DEF Init, Done, JobOK, InfraOK, OneAttempt, Settled
<1>4. Merged
  BY NoneAssumption DEF Init, Merged, PullOK, Updates
<1> QED
  BY <1>1, <1>2, <1>3, <1>4 DEF IInv

LEMMA Inductive == ASSUME IInv, [Next]_vars PROVE IInv'
<1>1. TypeOK'
  BY TypeStep DEF IInv
<1>2. CASE Next
  <2>1. Told' /\ Done' /\ Merged'
    BY <1>2, RequestSteps, JobSteps, EnvironmentStep DEF Next
  <2> QED
    BY <1>1, <2>1 DEF IInv
<1>3. CASE UNCHANGED vars
  <2>1. Told' /\ Done' /\ Merged'
    BY <1>3 DEF IInv, vars, Told, ReqOK, Shaped, Truthful, Exclusive, Tells, Still, Holds,
       StatusOf, EventOK, OneHolder, Done, JobOK, InfraOK, OneAttempt, Settled, Of,
       Merged, PullOK, MergedAt
  <2> QED
    BY <1>1, <2>1 DEF IInv
<1> QED
  BY <1>2, <1>3

LEMMA Invariance == Spec => []IInv
<1>1. Init => IInv
  BY InitIInv
<1>2. IInv /\ [Next]_vars => IInv'
  BY Inductive
<1> QED
  BY <1>1, <1>2, PTL DEF Spec

\* Every document, job and request has the shape the code gives it.
THEOREM TypeCorrect == Spec => []TypeOK
<1>1. IInv => TypeOK
  BY DEF IInv
<1> QED
  BY <1>1, Invariance, PTL

\* A decision on record is true: of what was applied, and of what failed
\* without touching the infrastructure and will not touch it any more.
THEOREM Honesty == Spec => []HonestVerdict
<1>1. IInv => HonestVerdict
  <2>1. "applied" # None /\ "failed" # None
    BY NoneAssumption
  <2> SUFFICES ASSUME IInv, NEW p \in Plans
               PROVE  /\ StatusOf(p) = "applied" => infra[p] = "applied"
                      /\ StatusOf(p) = "failed" =>
                           /\ infra[p] = "untouched"
                           /\ \A a \in Approvals : approval[a].plan = p => job[a] \notin InProgress
    BY DEF HonestVerdict, StatusOf
  <2>2. EventOK(p)
    BY DEF IInv, Told
  <2>3. StatusOf(p) = "applied" => infra[p] = "applied"
    BY <2>1, <2>2 DEF EventOK, Tells
  <2>4. StatusOf(p) = "failed" => infra[p] = "untouched" /\ Still(p)
    BY <2>1, <2>2 DEF EventOK, Tells
  <2> QED
    BY <2>3, <2>4 DEF Still, Of
<1> QED
  BY <1>1, Invariance, PTL

\* Two POSTs, on any instances and after any crash, never both bring a plan
\* that creates nothing past the refusals of the worker.
THEOREM NeverTwice == Spec => []SingleAttempt
<1>1. IInv => SingleAttempt
  BY DEF IInv, Done, OneAttempt, Settled, Updates, SingleAttempt
<1> QED
  BY <1>1, Invariance, PTL

\* What creates nothing is merged only when applied, what creates is applied
\* only when its head was merged.
THEOREM InOrder == Spec => []MergeOrder
<1>1. IInv => MergeOrder
  BY PlanAssumption DEF IInv, Done, InfraOK, Merged, PullOK, MergedAt, Updates, MergeOrder
<1> QED
  BY <1>1, Invariance, PTL

-----------------------------------------------------------------------------
(* The promise                                                             *)

LEMMA InitPromise == ASSUME Init PROVE Promise!Init
<1>1. \A p \in Plans \ Creates : infra[p] = "untouched" /\ events[p].decision.status = None
  BY DEF Init, NoEvent, NoDecision
<1>2. {p \in Plans \ Creates : \E q \in Pulls : pulls[q].by = p} = {}
  BY NoneAssumption DEF Init
<1> QED
  BY <1>1, <1>2 DEF Promise!Init

\* A step that does nothing to the infrastructure by an update, to what is on
\* record of it, or to what was merged in its name.
LEMMA QuietPromise ==
  ASSUME \A p \in Updates : infra'[p] = infra[p],
         \A p \in Updates : events'[p].decision.status = events[p].decision.status,
         \A p \in Updates : (\E q \in Pulls : pulls'[q].by = p) <=> (\E q \in Pulls : pulls[q].by = p)
  PROVE  UNCHANGED Promise!vars
<1>1. \A p \in Plans \ Creates :
        /\ infra'[p] = infra[p]
        /\ events'[p].decision.status = events[p].decision.status
        /\ (\E q \in Pulls : pulls'[q].by = p) <=> (\E q \in Pulls : pulls[q].by = p)
  BY DEF Updates
<1> QED
  BY <1>1 DEF Promise!vars

\* What tofu does to an update is the one move of its infrastructure.
LEMMA TofuPromise ==
  ASSUME IInv, NEW a \in Approvals, job[a] = "tofu", NEW p \in Plans,
         p = approval[a].plan, NEW o \in {"untouched", "partial", "applied"}, Tofu(p, o),
         UNCHANGED <<events, pulls>>
  PROVE  \/ p \in Updates /\ Promise!Move(p, o)
         \/ UNCHANGED Promise!vars
<1>1. CASE p \notin Updates \/ o = "untouched"
  <2>1. \A q \in Updates : infra'[q] = infra[q]
    BY <1>1 DEF Tofu, IInv, TypeOK, Updates
  <2> QED
    BY <2>1, QuietPromise
<1>2. CASE p \in Updates /\ o # "untouched"
  <2>1. /\ saved[p] = "fresh" /\ infra' = [infra EXCEPT ![p] = o]
        /\ infra[p] = "untouched"
    BY <1>2 DEF Tofu, IInv, Done, InfraOK
  <2>2. StatusOf(p) \in {None, "ambiguous"}
    <3>1. ~Still(p)
      BY DEF Still, Of, InProgress
    <3> QED
      BY <1>2, <3>1 DEF IInv, Told, EventOK, Tells
  <2>3. p \in Plans \ Creates
    BY <1>2 DEF Updates
  <2>4. [q \in Plans \ Creates |-> infra'[q]]
          = [[q \in Plans \ Creates |-> infra[q]] EXCEPT ![p] = o]
    BY <2>1 DEF IInv, TypeOK
  <2>5. Promise!Move(p, o)
    BY <2>1, <2>2, <2>3, <2>4 DEF Promise!Move, StatusOf
  <2> QED
    BY <1>2, <2>5
<1> QED
  BY <1>1, <1>2

LEMMA JobPromise ==
  ASSUME IInv, NEW a \in Approvals, JobStep(a)
  PROVE  Promise!Next \/ UNCHANGED Promise!vars
<1>1. job[a] # "none" => approval[a].plan \in Plans
  BY DEF IInv, Done, JobOK
<1>2. CASE UNCHANGED <<infra, events, pulls>>
  BY <1>2, QuietPromise
<1>3. CASE /\ job[a] = "tofu" /\ UNCHANGED <<events, pulls>>
           /\ \E o \in {"untouched", "partial", "applied"} : Tofu(approval[a].plan, o)
  <2>1. PICK p \in Plans : p = approval[a].plan
    BY <1>1, <1>3
  <2>2. PICK o \in {"untouched", "partial", "applied"} : Tofu(p, o)
    BY <1>3, <2>1
  <2>3. CASE o = "untouched"
    BY <1>3, <2>2, <2>3, <1>2 DEF Tofu
  <2>4. CASE o # "untouched"
    <3>1. \/ p \in Updates /\ Promise!Move(p, o)
          \/ UNCHANGED Promise!vars
      BY <1>3, <2>1, <2>2, TofuPromise
    <3> QED
      BY <2>4, <3>1 DEF Promise!Next, Updates
  <2> QED
    BY <2>3, <2>4
<1> QED
  BY <1>2, <1>3 DEF JobStep, JobClaim, JobGates, JobTofu, JobAudit, JobDies, world

\* A verdict on an update is settled once, by the holder of its key.
LEMMA RecordPromise ==
  ASSUME IInv, NEW r \in Requests, Record(r)
  PROVE  Promise!Next \/ UNCHANGED Promise!vars
<1>1. req[r].step = "record" /\ UNCHANGED <<pulls, infra>>
  BY DEF Record, world
<1>2. PICK p \in Plans : p = req[r].plan
  BY <1>1, Knows
<1>3. /\ Tells(p, req[r].todo.status) /\ Exclusive(req[r])
      /\ req[r].todo.status \in ApplyStatus \cup {None}
  BY <1>1, <1>2, Knows DEF Truthful, Request, Decisions
<1>4. /\ events'[p].decision.status = req[r].todo.status
      /\ \A o \in Plans : o # p => events'[o] = events[o]
  BY <1>2 DEF Record, IInv, TypeOK
<1>5. CASE p \notin Updates \/ StatusOf(p) # None
  <2>1. p \in Updates => events'[p].decision.status = events[p].decision.status
    BY <1>1, <1>2, <1>3, <1>4, <1>5 DEF Exclusive, StatusOf
  <2>2. \A o \in Updates : events'[o].decision.status = events[o].decision.status
    BY <1>4, <2>1 DEF Updates
  <2> QED
    BY <1>1, <2>2, QuietPromise
<1>6. CASE p \in Updates /\ StatusOf(p) = None
  <2> DEFINE Verdicts(ev) == [o \in Plans \ Creates |->
                IF ev[o].decision.status = None THEN "none" ELSE ev[o].decision.status]
  <2>1. PICK v \in {"applied", "failed", "failed_state_suspect", "ambiguous"} :
        /\ v = req[r].todo.status /\ v # None
        /\ v = "applied" => infra[p] = "applied"
        /\ v = "failed" => infra[p] = "untouched"
    BY <1>3, <1>6 DEF Tells, ApplyStatus
  <2>2. p \in Plans \ Creates
    BY <1>6 DEF Updates
  <2>3. events[p].decision.status = None
    BY <1>6 DEF StatusOf
  <2>4. Verdicts(events') = [Verdicts(events) EXCEPT ![p] = v]
    BY <1>4, <2>1, <2>2
  <2>5. Promise!Settle(p, v)
    BY <1>1, <2>1, <2>2, <2>3, <2>4 DEF Promise!Settle
  <2> QED
    BY <2>1, <2>2, <2>5 DEF Promise!Next
<1> QED
  BY <1>5, <1>6

\* The lane merges an update that is applied, and of no one but itself.
LEMMA MergePromise ==
  ASSUME IInv, NEW r \in Requests, Merge(r) \/ MergeFirst(r)
  PROVE  Promise!Next \/ UNCHANGED Promise!vars
<1>1. /\ req[r].step \in {"merge", "mergeFirst"} /\ UNCHANGED <<infra, events>>
      /\ \E ok \in BOOLEAN : MergePr(req[r].plan, ok)
  BY DEF Merge, MergeFirst
<1>2. PICK p \in Plans : p = req[r].plan
  BY <1>1, Knows
<1>3. PICK q \in Pulls : q = PullOf[p]
  BY PlanAssumption
<1>4. CASE pulls' = pulls
  BY <1>1, <1>4, QuietPromise
<1>5. CASE pulls' # pulls
  <2>1. /\ ~pulls[q].merged /\ pulls'[q].by = p
        /\ \A s \in Pulls : s # q => pulls'[s] = pulls[s]
    BY <1>1, <1>2, <1>3, <1>5 DEF MergePr, IInv, TypeOK
  <2>2. pulls[q].by = None
    BY <2>1 DEF IInv, Merged, PullOK
  <2>3. \A o \in Plans : (\E s \in Pulls : pulls'[s].by = o)
                           <=> (o = p \/ \E s \in Pulls : pulls[s].by = o)
    BY <2>1, <2>2, NoneAssumption
  <2>4. CASE p \in Creates
    BY <1>1, <2>3, <2>4, QuietPromise DEF Updates
  <2>5. CASE p \notin Creates
    <3>1. req[r].step = "merge" /\ p \in Updates
      BY <1>1, <1>2, <2>5, Knows DEF Shaped
    <3>2. infra[p] = "applied" /\ StatusOf(p) \in {None, "applied"}
      BY <1>2, <3>1, Knows DEF Truthful, Exclusive
    <3>3. p \in Plans \ Creates
      BY <2>5
    <3>4. {o \in Plans \ Creates : \E s \in Pulls : pulls'[s].by = o}
            = {o \in Plans \ Creates : \E s \in Pulls : pulls[s].by = o} \cup {p}
      BY <2>3, <3>3
    <3>5. Promise!Merge(p)
      BY <1>1, <3>2, <3>3, <3>4 DEF Promise!Merge, StatusOf
    <3> QED
      BY <3>3, <3>5 DEF Promise!Next
  <2> QED
    BY <2>4, <2>5
<1> QED
  BY <1>4, <1>5

\* What else is written to an event tells no verdict on an update.
LEMMA EventPromise ==
  ASSUME IInv, NEW r \in Requests,
         Claim(r) \/ Intent(r) \/ RecordMerged(r) \/ Release(r)
  PROVE  UNCHANGED Promise!vars
<1>1. /\ req[r].step \in {"claim", "intent", "recordMerged", "release"}
      /\ UNCHANGED <<pulls, infra>>
  BY DEF Claim, Intent, RecordMerged, Release, world
<1>2. PICK p \in Plans : p = req[r].plan
  BY <1>1, Knows
<1>3. \A o \in Plans : o # p => events'[o] = events[o]
  BY <1>2 DEF Claim, Intent, RecordMerged, Release, IInv, TypeOK
<1>4. p \in Updates => events'[p].decision.status = events[p].decision.status
  <2>1. CASE Claim(r)
    BY <1>2, <2>1 DEF Claim, IInv, TypeOK, Event
  <2>2. CASE Intent(r) \/ RecordMerged(r)
    <3>1. p \in Creates
      BY <1>2, <2>2, Knows DEF Intent, RecordMerged, Shaped
    <3> QED
      BY <3>1 DEF Updates
  <2>3. CASE Release(r)
    <3>1. req[r].step = "release" /\ events' = [events EXCEPT ![p] = NoEvent]
      BY <1>2, <2>3 DEF Release
    <3>2. p \in Updates => StatusOf(p) = None
      BY <1>2, <3>1, Knows DEF Exclusive, Holds, Holding
    <3> QED
      BY <3>1, <3>2 DEF StatusOf, NoEvent, NoDecision, IInv, TypeOK
  <2> QED
    BY <2>1, <2>2, <2>3
<1>5. \A o \in Updates : events'[o].decision.status = events[o].decision.status
  BY <1>3, <1>4 DEF Updates
<1> QED
  BY <1>1, <1>5, QuietPromise

LEMMA NextPromise ==
  ASSUME IInv, [Next]_vars PROVE Promise!Next \/ UNCHANGED Promise!vars
<1>1. ASSUME NEW r \in Requests, RequestStep(r)
      PROVE  Promise!Next \/ UNCHANGED Promise!vars
  <2>1. CASE UNCHANGED <<infra, events, pulls>>
    BY <2>1, QuietPromise
  <2> QED
    BY <1>1, <2>1, RecordPromise, MergePromise, EventPromise
       DEF RequestStep, Arrive, Find, Ready, Propose, Head, Send, Answered, Timeout,
           Deny, Crash, world
<1>2. CASE Environment
  <2>1. UNCHANGED <<infra, events>> /\ \A q \in Pulls : pulls'[q].by = pulls[q].by
    BY <1>2 DEF Environment, Push, MergedByHand, Rebake, Publish, IInv, TypeOK
  <2> QED
    BY <2>1, QuietPromise
<1>3. CASE UNCHANGED vars
  BY <1>3, QuietPromise DEF vars
<1> QED
  BY <1>1, <1>2, <1>3, JobPromise DEF Next

\* For the plans that create nothing the approval lane, with its claims,
\* releases, lost answers and resumed merges, does what ApplyThenMerge says.
THEOREM Refinement == Spec => KeepsPromise
<1>1. Init => Promise!Init
  BY InitPromise
<1>2. IInv /\ [Next]_vars => [Promise!Next]_(Promise!vars)
  BY NextPromise
<1> QED
  BY <1>1, <1>2, Invariance, PTL DEF Spec, Promise!Spec, KeepsPromise

-----------------------------------------------------------------------------
(* A free key                                                              *)

\* A plan that creates is claimed once and for all when its pointer is
\* written; nothing is done for it before.
Early == {"intent", "release"}
Late == {"mergeFirst", "recordMerged", "propose", "head", "send", "await",
         "merge", "record", "deny"}
Reserved(p) ==
  IF StatusOf(p) = None
  THEN infra[p] = "untouched" /\ \A a \in Of(p) : job[a] = "none"
  ELSE events[p].claimed
AtWork(x) ==
  /\ x.step \in Early => StatusOf(x.plan) = None /\ events[x.plan].claimed
  /\ x.step \in Late => StatusOf(x.plan) # None

Pointed ==
  /\ \A p \in Creates : Reserved(p)
  /\ \A r \in Requests : req[r].plan \in Creates => AtWork(req[r])
  /\ \A r, s \in Requests :
       /\ r # s
       /\ req[r].plan = req[s].plan
       /\ req[r].plan \in Creates
       => ~(req[r].step \in Early /\ req[s].step \in Early)

\* Steps that move a request and write no event, and no job or approval but
\* of its plan.
LEMMA PointedMoves ==
  ASSUME Pointed, NEW r \in Requests, UNCHANGED <<infra, events>>,
         \A s \in Requests : s # r => req'[s] = req[s],
         \A p \in Creates : StatusOf(p) = None => \A a \in Approvals :
           approval'[a].plan = p => approval[a].plan = p /\ job'[a] = job[a],
         req'[r].plan \in Creates /\ req'[r].step \in Early \cup Late =>
           /\ req'[r].plan = req[r].plan
           /\ AtWork(req[r])'
           /\ req'[r].step \in Early => req[r].step \in Early
  PROVE  Pointed'
<1>1. ASSUME NEW p \in Creates PROVE Reserved(p)'
  <2>1. Reserved(p)
    BY DEF Pointed
  <2> QED
    BY <2>1 DEF Reserved, StatusOf, Of
<1>2. ASSUME NEW s \in Requests, req'[s].plan \in Creates PROVE AtWork(req[s])'
  <2>1. CASE s = r
    BY <1>2, <2>1 DEF AtWork
  <2>2. CASE s # r
    BY <1>2, <2>2 DEF Pointed, AtWork, StatusOf
  <2> QED
    BY <2>1, <2>2
<1> QED
  BY <1>1, <1>2 DEF Pointed

\* Steps that write the event of the request's plan.
LEMMA PointedWrites ==
  ASSUME Pointed, NEW r \in Requests, UNCHANGED <<infra, approval, job>>,
         NEW p \in Plans, p = req[r].plan,
         \A o \in Plans : o # p => events'[o] = events[o],
         \A s \in Requests : s # r => req'[s] = req[s],
         p \in Creates =>
           /\ events'[p].decision.status # None => events'[p].claimed
           /\ events'[p].decision.status = None => StatusOf(p) = None
           /\ \A s \in Requests : s # r /\ req[s].plan = p => req[s].step \notin Early
           /\ req'[r].plan = p => AtWork(req[r])',
         req'[r].step # "idle" => req'[r].plan = p
  PROVE  Pointed'
<1>1. ASSUME NEW o \in Creates PROVE Reserved(o)'
  <2>1. Reserved(o) /\ o \in Plans
    BY PlanAssumption DEF Pointed
  <2>2. CASE o = p
    BY <2>1, <2>2 DEF Reserved, StatusOf, Of
  <2>3. CASE o # p
    BY <2>1, <2>3 DEF Reserved, StatusOf, Of
  <2> QED
    BY <2>2, <2>3
<1>2. ASSUME NEW s \in Requests, req'[s].plan \in Creates PROVE AtWork(req[s])'
  <2>1. CASE s = r
    BY <1>2, <2>1 DEF AtWork, Early, Late
  <2>2. CASE s # r /\ req[s].plan = p
    BY <1>2, <2>2 DEF Pointed, AtWork, StatusOf
  <2>3. CASE s # r /\ req[s].plan # p
    <3>1. events'[req[s].plan] = events[req[s].plan]
      BY <1>2, <2>3, PlanAssumption
    <3> QED
      BY <1>2, <2>3, <3>1 DEF Pointed, AtWork, StatusOf
  <2> QED
    BY <2>1, <2>2, <2>3
<1>3. ASSUME NEW s \in Requests, s # r, req'[s].plan = req'[r].plan,
             req'[r].plan \in Creates, req'[r].step \in Early
      PROVE  req'[s].step \notin Early
  BY <1>3 DEF Early
<1> QED
  BY <1>1, <1>2, <1>3 DEF Pointed

\* A request that stops, or only looks, is not at work.
LEMMA PointedRequest ==
  ASSUME IInv, Pointed, NEW r \in Requests, RequestStep(r)
  PROVE  Pointed'
<1>1. /\ TypeOK
      /\ req[r].step # "idle" => req[r].plan \in Plans
      /\ req[r].step \in {"intent", "recordMerged", "mergeFirst"} => req[r].plan \in Creates
      /\ req[r].step \in {"send", "deny"} =>
           req[r].minted \in Approvals /\ approval[req[r].minted].plan = req[r].plan
  BY DEF IInv, Told, ReqOK, Shaped
<1>2. req[r].plan \in Creates => AtWork(req[r])
  BY DEF Pointed
<1>3. ASSUME req[r].step # "idle", UNCHANGED <<infra, events, approval, job>>,
             NEW t \in Steps, Goto(r, t),
             req[r].plan \in Creates =>
               \/ t \notin Early \cup Late
               \/ t \in Early /\ req[r].step \in Early
               \/ t \in Late /\ StatusOf(req[r].plan) # None
      PROVE  Pointed'
  <2>1. /\ req'[r].step = t
        /\ t # "idle" => req'[r].plan = req[r].plan
        /\ \A s \in Requests : s # r => req'[s] = req[s]
    BY <1>1, <1>3, Moved
  <2>2. "idle" \notin Early \cup Late
    BY DEF Early, Late
  <2>3. req'[r].plan \in Creates /\ t \in Early \cup Late =>
          req'[r].plan = req[r].plan /\ AtWork(req[r])' /\ (t \in Early => req[r].step \in Early)
    BY <1>2, <1>3, <2>1, <2>2 DEF AtWork, StatusOf, Early, Late
  <2> QED
    BY <1>3, <2>1, <2>3, PointedMoves
<1>4. ASSUME NEW p \in Plans, Arrive(r, p) PROVE Pointed'
  <2>1. /\ req'[r].step = "find"
        /\ \A s \in Requests : s # r => req'[s] = req[s]
        /\ UNCHANGED <<infra, events, approval, job>>
    BY <1>1, <1>4 DEF Arrive, Becomes, NoRequest, TypeOK, world, worker
  <2> QED
    BY <2>1, PointedMoves DEF Early, Late
<1>5. CASE Find(r)
  <2>1. PICK t \in {"idle", "ready", "propose", "mergeFirst", "merge"} :
          Goto(r, t) /\ (t \in Late => events[req[r].plan].decision.status # None)
    BY <1>5 DEF Find, Route, Late
  <2> QED
    BY <1>3, <1>5, <2>1 DEF Find, Steps, StatusOf, Early, Late, world, worker
<1>6. CASE Ready(r) \/ Crash(r)
  <2>1. PICK t \in {"idle", "claim"} : Goto(r, t)
    BY <1>6 DEF Ready, Crash
  <2> QED
    BY <1>3, <1>6, <2>1 DEF Ready, Crash, Steps, Early, Late, world, worker
<1>7. CASE MergeFirst(r)
  <2>1. PICK t \in {"idle", "recordMerged"} : Goto(r, t)
    BY <1>7 DEF MergeFirst
  <2>2. req[r].plan \in Creates => StatusOf(req[r].plan) # None
    BY <1>2, <1>7 DEF MergeFirst, AtWork, Late
  <2> QED
    BY <1>3, <1>7, <2>1, <2>2 DEF MergeFirst, Steps, Early, Late, worker
<1>8. CASE Head(r)
  <2>1. PICK t \in {"send", "deny"} : Goto(r, t)
    BY <1>8 DEF Head
  <2>2. req[r].plan \in Creates => StatusOf(req[r].plan) # None
    BY <1>2, <1>8 DEF Head, AtWork, Late
  <2> QED
    BY <1>3, <1>8, <2>1, <2>2 DEF Head, Steps, Early, Late, world, worker
<1>9. CASE Answered(r) \/ Timeout(r) \/ Merge(r)
  <2>1. /\ req[r].step \in {"await", "merge"} /\ UNCHANGED <<infra, events, approval, job>>
    BY <1>9 DEF Answered, Timeout, Merge, world, worker
  <2>2. req[r].plan \in Creates => StatusOf(req[r].plan) # None
    BY <1>2, <2>1 DEF AtWork, Late
  <2>3. CASE \E d : ToRecord(r, d)
    <3>1. /\ req'[r].step = "record" /\ req'[r].plan = req[r].plan
          /\ \A s \in Requests : s # r => req'[s] = req[s]
      BY <1>1, <2>3, Moved
    <3>2. req'[r].plan \in Creates => AtWork(req[r])'
      BY <2>1, <2>2, <3>1 DEF AtWork, StatusOf, Early
    <3> QED
      BY <2>1, <3>1, <3>2, PointedMoves DEF Early
  <2>4. CASE \E t \in {"deny", "merge", "release"} :
               Goto(r, t) /\ (t = "release" => req[r].plan \notin Creates)
    BY <1>3, <2>1, <2>2, <2>4 DEF Steps, Early, Late
  <2> QED
    BY <1>9, <2>3, <2>4 DEF Answered, Timeout, Merge
<1>10. CASE Propose(r) \/ Deny(r)
  <2>1. req[r].step \in {"propose", "deny"} /\ UNCHANGED <<infra, events, job>>
    BY <1>10 DEF Propose, Deny, world
  <2>2. req[r].plan \in Creates => StatusOf(req[r].plan) # None
    BY <1>2, <2>1 DEF AtWork, Late
  <2>3. \A a \in Approvals : approval'[a].plan \in {approval[a].plan, req[r].plan}
    <3>1. CASE Propose(r)
      <4>1. \/ approval' = approval
            \/ \E b \in Approvals : approval' = [approval EXCEPT ![b] =
                  [status |-> "pending", phase |-> None, plan |-> req[r].plan]]
        BY <3>1 DEF Propose
      <4> QED
        BY <1>1, <4>1 DEF TypeOK
    <3>2. CASE Deny(r)
      BY <1>1, <3>2 DEF Deny, TypeOK, Approval
    <3> QED
      BY <1>10, <3>1, <3>2
  <2>4. \A p \in Creates : StatusOf(p) = None => \A a \in Approvals :
           approval'[a].plan = p => approval[a].plan = p /\ job'[a] = job[a]
    BY <2>1, <2>2, <2>3
  <2>5. /\ req'[r].step \in {"send", "head", "idle", "release"}
        /\ req'[r].step # "idle" => req'[r].plan = req[r].plan
        /\ req'[r].step = "release" => req[r].plan \notin Creates
        /\ \A s \in Requests : s # r => req'[s] = req[s]
    <3>1. CASE Goto(r, GiveUp(req[r].plan))
      <4>1. PICK t \in {"idle", "release"} : Goto(r, t) /\ (t = "release" => req[r].plan \notin Creates)
        BY <3>1 DEF GiveUp
      <4> QED
        BY <1>1, <4>1, Moved DEF Steps
    <3>2. CASE \E a \in Approvals :
                 Becomes(r, [req[r] EXCEPT !.minted = a,
                               !.step = IF req[r].plan \in Creates THEN "send" ELSE "head"])
      BY <1>1, <3>2 DEF Becomes, TypeOK, Request
    <3> QED
      BY <1>10, <3>1, <3>2 DEF Propose, Deny
  <2>6. req'[r].plan \in Creates /\ req'[r].step \in Early \cup Late =>
          req'[r].plan = req[r].plan /\ AtWork(req[r])' /\ req'[r].step \notin Early
    BY <2>1, <2>2, <2>5 DEF AtWork, StatusOf, Early, Late
  <2> QED
    BY <2>1, <2>4, <2>5, <2>6, PointedMoves
<1>11. CASE Send(r)
  <2>1. req[r].step = "send" /\ UNCHANGED <<infra, events, approval>>
    BY <1>11 DEF Send, world
  <2>2. req[r].plan \in Creates => StatusOf(req[r].plan) # None
    BY <1>2, <2>1 DEF AtWork, Late
  <2>3. \A p \in Creates : StatusOf(p) = None => \A a \in Approvals :
           approval'[a].plan = p => approval[a].plan = p /\ job'[a] = job[a]
    BY <1>1, <1>11, <2>1, <2>2 DEF Send, TypeOK
  <2>4. /\ req'[r].step = "await" /\ req'[r].plan = req[r].plan
        /\ \A s \in Requests : s # r => req'[s] = req[s]
    <3>1. Goto(r, "await")
      BY <1>11 DEF Send
    <3> QED
      BY <1>1, <3>1, Moved DEF Steps
  <2>5. req'[r].plan \in Creates => AtWork(req[r])'
    BY <2>1, <2>2, <2>4 DEF AtWork, StatusOf, Early
  <2> QED
    BY <2>1, <2>3, <2>4, <2>5, PointedMoves DEF Early
<1>12. CASE Claim(r) \/ Intent(r) \/ RecordMerged(r) \/ Record(r) \/ Release(r)
  <2>1. PICK p \in Plans : p = req[r].plan
    BY <1>1, <1>12 DEF Claim, Intent, RecordMerged, Record, Release
  <2>2. UNCHANGED <<infra, approval, job>> /\ events[p] \in Event
    BY <1>1, <1>12 DEF Claim, Intent, RecordMerged, Record, Release, world, worker, TypeOK
  <2>3. p \in Creates => Reserved(p) /\ AtWork(req[r])
    BY <1>2, <2>1 DEF Pointed
  <2>4. \A o \in Plans : o # p => events'[o] = events[o]
    BY <1>1, <1>12, <2>1 DEF Claim, Intent, RecordMerged, Record, Release, TypeOK
  <2>5. ASSUME NEW s \in Requests, s # r, req[s].plan = p, p \in Creates, req[s].step \in Early
        PROVE  StatusOf(p) = None /\ events[p].claimed /\ req[r].step \notin Early
    BY <2>1, <2>5 DEF Pointed, AtWork
  <2>6. CASE Claim(r) /\ events[p].claimed
    <3>1. Goto(r, "refind") /\ UNCHANGED events /\ req[r].step = "claim"
      BY <2>1, <2>6 DEF Claim
    <3> QED
      BY <1>3, <2>2, <3>1 DEF Steps, Early, Late
  <2>7. CASE Claim(r) /\ ~events[p].claimed
    <3>1. /\ events'[p].claimed /\ events'[p].decision = events[p].decision
          /\ \E t \in {"intent", "propose"} : Goto(r, t) /\ (p \in Creates => t = "intent")
      BY <1>1, <2>1, <2>2, <2>7 DEF Claim, TypeOK, Event
    <3>2. /\ req'[r].plan = p /\ (p \in Creates => req'[r].step = "intent")
          /\ \A s \in Requests : s # r => req'[s] = req[s]
      BY <1>1, <2>1, <3>1, Moved DEF Steps
    <3>3. p \in Creates => StatusOf(p) = None
      BY <2>3, <2>7 DEF Reserved
    <3>4. p \in Creates => AtWork(req[r])'
      BY <3>1, <3>2, <3>3 DEF AtWork, StatusOf, Late
    <3> QED
      BY <2>1, <2>2, <2>4, <2>5, <2>7, <3>1, <3>2, <3>3, <3>4, PointedWrites DEF StatusOf
  <2>8. CASE Intent(r) /\ Goto(r, "release") /\ UNCHANGED events
    BY <1>3, <2>2, <2>8 DEF Intent, Steps, Early, Late
  <2>9. CASE Intent(r) /\ ~(Goto(r, "release") /\ UNCHANGED events)
    <3>1. /\ events'[p].decision.status = "waiting_for_rebake"
          /\ events'[p].claimed = events[p].claimed
          /\ Goto(r, "mergeFirst") /\ req[r].step = "intent"
      BY <1>1, <2>1, <2>2, <2>9 DEF Intent, TypeOK, Event, Decision
    <3>2. /\ req'[r].plan = p /\ req'[r].step = "mergeFirst"
          /\ \A s \in Requests : s # r => req'[s] = req[s]
      BY <1>1, <2>1, <3>1, Moved DEF Steps
    <3>3. /\ p \in Creates => events[p].claimed
          /\ p \in Creates => AtWork(req[r])'
      BY <2>1, <2>3, <3>1, <3>2, NoneAssumption DEF AtWork, StatusOf, Early
    <3> QED
      BY <2>1, <2>2, <2>4, <2>5, <3>1, <3>2, <3>3, NoneAssumption, PointedWrites DEF Early
  <2>10. CASE RecordMerged(r) \/ Record(r)
    <3>1. /\ events'[p].claimed /\ events'[p].decision.status # None
          /\ Goto(r, "idle") /\ req[r].step \in Late
      <4>1. CASE RecordMerged(r)
        BY <1>1, <2>1, <4>1, NoneAssumption DEF RecordMerged, TypeOK, Decision, Late
      <4>2. CASE Record(r)
        <5>1. req[r].todo.status # None
          BY <2>1, <4>2, Knows DEF Record, Truthful, Tells
        <5> QED
          BY <1>1, <2>1, <4>2, <5>1 DEF Record, TypeOK, Late
      <4> QED
        BY <2>10, <4>1, <4>2
    <3>2. /\ req'[r].step = "idle"
          /\ \A s \in Requests : s # r => req'[s] = req[s]
      BY <1>1, <3>1, Moved DEF Steps
    <3>3. \A s \in Requests : s # r /\ req[s].plan = p /\ p \in Creates => req[s].step \notin Early
      BY <2>1, <2>3, <2>5, <3>1 DEF AtWork
    <3>4. AtWork(req[r])'
      BY <3>2 DEF AtWork, Early, Late
    <3> QED
      BY <2>1, <2>2, <2>4, <3>1, <3>2, <3>3, <3>4, PointedWrites
  <2>11. CASE Release(r)
    <3>1. /\ events'[p] = NoEvent /\ Goto(r, "idle") /\ req[r].step \in Early
      BY <1>1, <2>1, <2>11 DEF Release, TypeOK, Early
    <3>2. /\ req'[r].step = "idle"
          /\ \A s \in Requests : s # r => req'[s] = req[s]
      BY <1>1, <3>1, Moved DEF Steps
    <3>3. p \in Creates => StatusOf(p) = None
      BY <2>1, <2>3, <3>1 DEF AtWork
    <3>4. AtWork(req[r])'
      BY <3>2 DEF AtWork, Early, Late
    <3>5. \A s \in Requests : s # r /\ req[s].plan = p /\ p \in Creates => req[s].step \notin Early
      BY <2>5, <3>1
    <3> QED
      BY <2>1, <2>2, <2>4, <3>1, <3>2, <3>3, <3>4, <3>5, PointedWrites DEF NoEvent, NoDecision
  <2> QED
    BY <1>12, <2>6, <2>7, <2>8, <2>9, <2>10, <2>11
<1> QED
  BY <1>4, <1>5, <1>6, <1>7, <1>8, <1>9, <1>10, <1>11, <1>12 DEF RequestStep

\* A job is about an approval, and a create that is nowhere on record has none.
LEMMA PointedJob ==
  ASSUME IInv, Pointed, NEW a \in Approvals, JobStep(a)
  PROVE  Pointed'
<1>1. /\ TypeOK /\ job[a] # "none" /\ UNCHANGED <<events, req>>
      /\ approval[a].plan \in Plans
  BY DEF JobStep, JobClaim, JobGates, JobTofu, JobAudit, JobDies, InProgress,
     IInv, Done, JobOK
<1>2. \A b \in Approvals : b # a => job'[b] = job[b]
  BY <1>1 DEF JobStep, JobClaim, JobGates, JobTofu, JobAudit, JobDies, Fail, Reply, TypeOK
<1>3. \A p \in Plans : p # approval[a].plan => infra'[p] = infra[p]
  BY <1>1 DEF JobStep, JobClaim, JobGates, JobTofu, JobAudit, JobDies, Tofu, TypeOK, world
<1>4. \A b \in Approvals : approval'[b].plan = approval[b].plan
  BY <1>1 DEF JobStep, JobClaim, JobGates, JobTofu, JobAudit, JobDies, Fail, TypeOK, Approval
<1>5. ASSUME NEW p \in Creates PROVE Reserved(p)'
  <2>1. Reserved(p) /\ p \in Plans
    BY PlanAssumption DEF Pointed
  <2>2. StatusOf(p) = None => p # approval[a].plan
    BY <1>1, <2>1 DEF Reserved, Of
  <2> QED
    BY <1>1, <1>2, <1>3, <1>4, <2>1, <2>2 DEF Reserved, StatusOf, Of
<1> QED
  BY <1>1, <1>5 DEF Pointed, AtWork, StatusOf

LEMMA PointedInvariance == Spec => []Pointed
<1>1. Init => Pointed
  <2> SUFFICES ASSUME Init PROVE Pointed
    OBVIOUS
  <2>1. \A p \in Creates : Reserved(p)
    BY PlanAssumption DEF Init, Reserved, Of, StatusOf, NoEvent, NoDecision
  <2>2. \A r \in Requests : req[r].step \notin Early \cup Late
    BY DEF Init, NoRequest, Early, Late
  <2> QED
    BY <2>1, <2>2 DEF Pointed, AtWork
<1>2. IInv /\ Pointed /\ [Next]_vars => Pointed'
  <2> SUFFICES ASSUME IInv, Pointed, [Next]_vars PROVE Pointed'
    OBVIOUS
  <2>1. CASE UNCHANGED <<infra, events, approval, job, req>>
    BY <2>1 DEF Pointed, Reserved, AtWork, StatusOf, Of
  <2> QED
    BY <2>1, PointedRequest, PointedJob
       DEF Next, Environment, Push, MergedByHand, Rebake, Publish, worker, vars
<1> QED
  BY <1>1, <1>2, Invariance, PTL DEF Spec

\* A key is free for another approval, after a release or before any claim,
\* only while nothing of its plan was done and no job may still do it.
THEOREM FreeKeys == Spec => []FreeIsUntouched
<1>1. IInv /\ Pointed => FreeIsUntouched
  <2> SUFFICES ASSUME IInv, Pointed, NEW p \in Plans, ~events[p].claimed
               PROVE  /\ infra[p] = "untouched"
                      /\ \A a \in Approvals : approval[a].plan = p => job[a] \notin InProgress
    BY DEF FreeIsUntouched
  <2>1. CASE p \in Creates
    BY <2>1 DEF Pointed, Reserved, Of, InProgress
  <2>2. CASE p \in Updates
    <3>1. \A a \in Of(p) : Settled(a)
      BY <2>2 DEF IInv, Told, EventOK
    <3>2. infra[p] = "untouched"
      BY <2>2, <3>1, Untouched DEF IInv, Settled, Past
    <3> QED
      BY <3>1, <3>2 DEF Of, Settled, InProgress
  <2> QED
    BY <2>1, <2>2 DEF Updates
<1> QED
  BY <1>1, Invariance, PointedInvariance, PTL

\* A verdict on an update is never revised: no retry, no release and no second
\* POST takes back what is on record of it.
THEOREM VerdictsStand == Spec => TerminalStands
<1>1. IInv /\ [Next]_vars => [\A p \in Plans \ Creates : Stands(p)]_vars
  <2> SUFFICES ASSUME IInv, [Next]_vars, NEW p \in Plans \ Creates PROVE Stands(p)
    OBVIOUS
  <2>1. CASE events'[p].decision.status = events[p].decision.status
    BY <2>1 DEF Stands
  <2>2. CASE \E r \in Requests : Record(r) /\ req[r].plan = p
    <3>1. PICK r \in Requests : Record(r) /\ req[r].plan = p
      BY <2>2
    <3>2. events'[p].decision.status = req[r].todo.status /\ Exclusive(req[r])
      BY <3>1, Knows DEF Record, IInv, TypeOK
    <3>3. StatusOf(p) = None \/ (StatusOf(p) = "applied" /\ req[r].todo.status = "applied")
      BY <3>1, <3>2 DEF Record, Exclusive, Updates
    <3> QED
      BY <3>2, <3>3, NoneAssumption DEF Stands, StatusOf, Terminal
  <2>3. CASE \E r \in Requests : Claim(r) \/ Intent(r) \/ RecordMerged(r) \/ Release(r)
    <3>1. PICK r \in Requests : Claim(r) \/ Intent(r) \/ RecordMerged(r) \/ Release(r)
      BY <2>3
    <3>2. UNCHANGED Promise!vars
      BY <3>1, EventPromise
    <3>3. [o \in Plans \ Creates |-> IF events'[o].decision.status = None THEN "none"
                                     ELSE events'[o].decision.status]
            = [o \in Plans \ Creates |-> IF events[o].decision.status = None THEN "none"
                                         ELSE events[o].decision.status]
      BY <3>2 DEF Promise!vars
    <3>4. (IF events'[p].decision.status = None THEN "none" ELSE events'[p].decision.status)
            = (IF events[p].decision.status = None THEN "none" ELSE events[p].decision.status)
      BY <3>3
    <3> QED
      BY <3>4, NoneAssumption DEF Stands, Terminal
  <2>4. CASE UNCHANGED events
    BY <2>1, <2>4
  <2>5. ASSUME NEW r \in Requests, Record(r), req[r].plan # p PROVE Stands(p)
    <3>1. events'[p] = events[p]
      BY <2>5 DEF Record, IInv, TypeOK
    <3> QED
      BY <2>1, <3>1
  <2> QED
    BY <2>2, <2>3, <2>4, <2>5
       DEF Next, RequestStep, JobStep, Environment, Arrive, Find, Ready, MergeFirst,
           Propose, Head, Send, Answered, Timeout, Merge, Deny, Crash, JobClaim, JobGates,
           JobTofu, JobAudit, JobDies, Push, MergedByHand, Rebake, Publish, vars
<1> QED
  BY <1>1, Invariance, PTL DEF Spec, TerminalStands


=============================================================================
