----------------------- MODULE RollbackApprovalProofs ----------------------
(***************************************************************************)
(* Proofs about RollbackApproval, for any number of approvals, revisions,  *)
(* operations and overlapping requests.                                    *)
(***************************************************************************)
EXTENDS RollbackApproval, TLAPS

\* h is the /execute request that claimed its approval and has not yet
\* written anything to it.
Owner(h) == \/ pc[h] \in {"start", "update", "applying"}
            \/ pc[h] = "record" /\ todo[h].handle = None

\* h is past a claim: its own, or, for a /reconcile, another request's.
Late(h) == pc[h] \in {"start", "update", "applying", "wait", "operation",
                      "record"}

\* A request past its first checks is about some approval; one that watches
\* an operation watches one its approval started.
RequestInv ==
  \A h \in Handlers :
    /\ pc[h] # "idle" => on[h] \in Approvals
    /\ pc[h] \in {"applying", "wait", "operation"} =>
         lro[h] \in Ops /\ opFor[lro[h]] = on[h]

\* The owner has the document to itself, and nothing is on it but the claim.
OwnerInv ==
  /\ \A h \in Handlers : Late(h) => doc[on[h]].status = "used"
  /\ \A h \in Handlers : Owner(h) =>
       /\ doc[on[h]].phase = "claimed"
       /\ doc[on[h]].handle = None
  /\ \A h \in Handlers : pc[h] \in {"start", "update"} => Untouched(on[h])
  /\ \A h1, h2 \in Handlers :
       Owner(h1) /\ Late(h2) /\ on[h1] = on[h2] => h1 = h2

\* What a request is about to record is true already, and stays true.
TrueTodo(h) ==
    /\ todo[h] \in Audit
    /\ todo[h].handle # None => opFor[todo[h].handle] = on[h]
    /\ todo[h].phase = "applied" =>
         todo[h].handle # None /\ opState[todo[h].handle] = "succeeded"
    /\ todo[h].phase = "failed" =>
         IF todo[h].handle = None THEN Untouched(on[h])
                                  ELSE opState[todo[h].handle] = "failed"
    /\ todo[h].resolved => todo[h].phase = "applied"

TodoInv == \A h \in Handlers : pc[h] = "record" => TrueTodo(h)

\* What the document says is true.
TrueDoc(a) ==
    /\ doc[a].status # "absent" => doc[a].target \in Revisions
    /\ doc[a].status # "used" => /\ Untouched(a)
                                 /\ doc[a].phase = None
                                 /\ doc[a].handle = None
    /\ doc[a].status \in {"absent", "pending"} => ~doc[a].resolved
    /\ doc[a].handle # None => opFor[doc[a].handle] = a
    /\ doc[a].phase = "applied" =>
         doc[a].handle # None /\ opState[doc[a].handle] = "succeeded"
    /\ doc[a].phase = "failed" =>
         IF doc[a].handle = None THEN Untouched(a)
                                 ELSE opState[doc[a].handle] = "failed"
    /\ doc[a].resolved /\ doc[a].status = "used" => doc[a].phase = "applied"

DocInv == \A a \in Approvals : TrueDoc(a)

OpInv == \A o \in Ops : opState[o] = "none" <=> opFor[o] = None

IInv == /\ TypeOK
        /\ RequestInv
        /\ OwnerInv
        /\ TodoInv
        /\ DocInv
        /\ OpInv
        /\ OneShift

-----------------------------------------------------------------------------
(* What the writers of a document do to it                                 *)

\* The arguments of record_phase the endpoints build are well formed.
LEMMA AuditType ==
  ASSUME NEW p \in Phases, NEW o \in Ops \cup {None}
  PROVE  /\ Write(p, o) \in Audit
         /\ Seal(o) \in Audit
BY DEF Write, Seal, Audit, Phases

\* The two claims and record_phase keep the shape of the document.
LEMMA DocType ==
  ASSUME NEW d \in Doc
  PROVE  /\ Claimed(d) \in Doc
         /\ Denied(d) \in Doc
         /\ \A w \in Audit : Recorded(d, w) \in Doc
<1>1. Claimed(d) \in Doc
  BY DEF Claimed, Doc, Status, Phases
<1>2. Denied(d) \in Doc
  BY DEF Denied, Doc, Status
<1>3. ASSUME NEW w \in Audit PROVE Recorded(d, w) \in Doc
  BY DEF Recorded, Doc, Audit
<1>4. QED
  BY <1>1, <1>2, <1>3

\* record_phase never touches the status, leaves a settled document alone,
\* and takes phase and handle from its argument otherwise.
LEMMA RecordedFields ==
  ASSUME NEW d \in Doc, NEW w \in Audit
  PROVE  /\ Recorded(d, w).status = d.status
         /\ Recorded(d, w).target = d.target
         /\ d.phase \in Terminal => Recorded(d, w) = d
         /\ d.status # "absent" /\ d.phase \notin Terminal =>
              /\ Recorded(d, w).phase = w.phase
              /\ Recorded(d, w).handle = w.handle
              /\ Recorded(d, w).resolved = (d.resolved \/ w.resolved)
<1>1. CASE d.status = "absent" \/ d.phase \in Terminal
  BY <1>1 DEF Recorded
<1>2. CASE ~(d.status = "absent" \/ d.phase \in Terminal)
  BY <1>2 DEF Recorded, Doc
<1>3. QED
  BY <1>1, <1>2

-----------------------------------------------------------------------------
(* The invariant holds at first and each action preserves it               *)

\* At first there are no documents, operations or requests.
LEMMA InitIInv == Init => IInv
<1> SUFFICES ASSUME Init PROVE IInv
  OBVIOUS
<1> USE NoneAssumption DEF Init, NoDoc
<1>1. TypeOK
  BY DEF TypeOK, Doc, Status, Steps, Replies, OpStates
<1>2. RequestInv /\ OwnerInv /\ TodoInv /\ OpInv /\ OneShift
  BY DEF RequestInv, OwnerInv, Owner, Late, TodoInv, OpInv, OneShift
<1>3. DocInv
  BY DEF DocInv, TrueDoc, Untouched, Phases
<1>4. QED
  BY <1>1, <1>2, <1>3 DEF IInv

\* Admitting an /execute request touches no document and claims nothing yet.
LEMMA ExecuteIInv ==
  ASSUME IInv, NEW h \in Handlers, NEW a \in Approvals, Execute(h, a)
  PROVE  IInv'
<1> USE NoneAssumption DEF IInv, Execute, Arrive, Goto, Authorized, docVars, cloudVars
<1>1. TypeOK'
  BY DEF TypeOK, Steps, Replies
<1>2. RequestInv'
  BY DEF TypeOK, RequestInv
<1>3. OwnerInv'
  BY DEF TypeOK, OwnerInv, Owner, Late, Untouched, RequestInv, DocInv, TrueDoc, TodoInv, TrueTodo
<1>4. TodoInv'
  BY DEF TypeOK, TodoInv, TrueTodo, Audit, Phases, Untouched, RequestInv, OwnerInv, Owner, Late
<1>5. DocInv'
  BY DEF TypeOK, DocInv, TrueDoc, Untouched, TodoInv, TrueTodo, RequestInv, OwnerInv, Owner, Late, Phases
<1>6. OpInv' /\ OneShift'
  BY DEF TypeOK, OpInv, OneShift, OwnerInv, Untouched
<1>7. QED
  BY <1>1, <1>2, <1>3, <1>4, <1>5, <1>6

\* The preflight only moves its request on or answers it.
LEMMA PreflightIInv ==
  ASSUME IInv, NEW h \in Handlers, Preflight(h)
  PROVE  IInv'
<1> USE NoneAssumption DEF IInv, Preflight, Goto, Answer, docVars, cloudVars
<1>1. TypeOK'
  BY DEF TypeOK, Steps, Replies
<1>2. RequestInv'
  BY DEF TypeOK, RequestInv
<1>3. OwnerInv'
  BY DEF TypeOK, OwnerInv, Owner, Late, Untouched, RequestInv, DocInv, TrueDoc, TodoInv, TrueTodo
<1>4. TodoInv'
  BY DEF TypeOK, TodoInv, TrueTodo, Audit, Phases, Untouched, RequestInv, OwnerInv, Owner, Late
<1>5. DocInv'
  BY DEF TypeOK, DocInv, TrueDoc, Untouched, TodoInv, TrueTodo, RequestInv, OwnerInv, Owner, Late, Phases
<1>6. OpInv' /\ OneShift'
  BY DEF TypeOK, OpInv, OneShift, OwnerInv, Untouched
<1>7. QED
  BY <1>1, <1>2, <1>3, <1>4, <1>5, <1>6

\* The claim makes its request the owner of a bare, used document; the
\* approval was pending, so no other request is past a claim on it.
LEMMA ClaimIInv ==
  ASSUME IInv, NEW h \in Handlers, Claim(h)
  PROVE  IInv'
<1> USE NoneAssumption DEF IInv, Claim, Goto, Answer, cloudVars
<1>a. on[h] \in Approvals /\ doc[on[h]] \in Doc
  BY DEF RequestInv, TypeOK
<1>b. /\ doc' \in [Approvals -> Doc]
      /\ \A a \in Approvals : a # on[h] => doc'[a] = doc[a]
      /\ doc'[on[h]] = Claimed(doc[on[h]])
  BY <1>a, DocType DEF TypeOK
<1>c. /\ doc[on[h]].status = "pending" => /\ doc'[on[h]].status = "used"
                                          /\ doc'[on[h]].phase = "claimed"
                                          /\ doc'[on[h]].handle = None
                                          /\ doc'[on[h]].resolved = FALSE
                                          /\ Untouched(on[h])
      /\ doc[on[h]].status # "pending" => doc'[on[h]] = doc[on[h]]
      /\ doc'[on[h]].target = doc[on[h]].target
  BY <1>a, <1>b DEF Claimed, Doc, DocInv, TrueDoc
<1>1. TypeOK'
  BY <1>b DEF TypeOK, Steps, Replies
<1>2. RequestInv'
  BY DEF TypeOK, RequestInv
<1>3. OwnerInv'
  BY <1>a, <1>b, <1>c DEF TypeOK, OwnerInv, Owner, Late, Untouched, RequestInv
<1>4. TodoInv'
  BY DEF TypeOK, TodoInv, TrueTodo, Audit, Phases, Untouched, RequestInv, OwnerInv, Owner, Late
<1>5. DocInv'
  <2> SUFFICES ASSUME NEW a \in Approvals PROVE TrueDoc(a)'
    BY DEF DocInv
  <2>1. CASE a # on[h]
    BY <1>b, <2>1 DEF DocInv, TrueDoc, Untouched
  <2>2. CASE a = on[h]
    BY <1>a, <1>c, <2>2 DEF DocInv, TrueDoc, Untouched
  <2>3. QED
    BY <2>1, <2>2
<1>6. OpInv' /\ OneShift'
  BY DEF TypeOK, OpInv, OneShift, OwnerInv, Untouched
<1>7. QED
  BY <1>1, <1>2, <1>3, <1>4, <1>5, <1>6

\* The owner plans a failure (nothing was sent) or an unknown outcome, or
\* goes on; it stays the owner.
LEMMA StartTrafficUpdateIInv ==
  ASSUME IInv, NEW h \in Handlers, StartTrafficUpdate(h)
  PROVE  IInv'
<1> USE NoneAssumption DEF IInv, StartTrafficUpdate, Goto, Plan, docVars, cloudVars
<1>a. Write("failed", None) \in Audit /\ Write("outcome_unknown", None) \in Audit
  BY AuditType DEF Phases
<1>1. TypeOK'
  BY <1>a DEF TypeOK, Steps
<1>2. RequestInv'
  BY DEF TypeOK, RequestInv
<1>3. OwnerInv'
  BY DEF TypeOK, OwnerInv, Owner, Late, Untouched, RequestInv, DocInv, TrueDoc, TodoInv, TrueTodo
<1>4. TodoInv'
  <2> SUFFICES ASSUME NEW k \in Handlers, pc'[k] = "record"
               PROVE  TrueTodo(k)'
    BY DEF TodoInv
  <2>1. CASE k # h
    BY <2>1 DEF TypeOK, TodoInv, TrueTodo, Untouched
  <2>2. CASE k = h
    <3>1. CASE todo'[h] = Write("failed", None)
      BY <1>a, <2>2, <3>1 DEF TrueTodo, Write, Seal, Untouched, OwnerInv
    <3>2. CASE todo'[h] = Write("outcome_unknown", None)
      BY <1>a, <2>2, <3>2 DEF TrueTodo, Write, Seal, Untouched, OwnerInv
    <3>3. QED
      BY <2>2, <3>1, <3>2 DEF TypeOK, Steps
  <2>3. QED
    BY <2>1, <2>2
<1>5. DocInv'
  BY DEF TypeOK, DocInv, TrueDoc, Untouched, TodoInv, TrueTodo, RequestInv, OwnerInv, Owner, Late, Phases
<1>6. OpInv' /\ OneShift'
  BY DEF TypeOK, OpInv, OneShift, OwnerInv, Untouched
<1>7. QED
  BY <1>1, <1>2, <1>3, <1>4, <1>5, <1>6

\* Only an owner starts an operation, so it is the first of its approval;
\* nobody else is about to record that nothing was sent.
LEMMA UpdateServiceIInv ==
  ASSUME IInv, NEW h \in Handlers, UpdateService(h)
  PROVE  IInv'
<1> USE NoneAssumption DEF IInv, UpdateService, Goto, Plan, docVars
<1>a. /\ on[h] \in Approvals
      /\ Write("outcome_unknown", None) \in Audit
      /\ doc[on[h]].status = "used"
      /\ doc[on[h]].phase = "claimed"
      /\ doc[on[h]].handle = None
      /\ Untouched(on[h])
  BY AuditType DEF RequestInv, OwnerInv, Owner, Late, Phases
<1>1. TypeOK'
  BY <1>a DEF TypeOK, Steps, OpStates
<1>2. RequestInv'
  BY <1>a DEF TypeOK, RequestInv, OpInv
<1>3. OwnerInv'
  BY DEF TypeOK, OwnerInv, Owner, Late, Untouched, RequestInv, DocInv, TrueDoc, TodoInv, TrueTodo
<1>4. TodoInv'
  <2> SUFFICES ASSUME NEW k \in Handlers, pc'[k] = "record"
               PROVE  TrueTodo(k)'
    BY DEF TodoInv
  <2>1. CASE k # h
    <3>1. pc[k] = "record" /\ todo'[k] = todo[k] /\ on'[k] = on[k]
      BY <2>1 DEF TypeOK
    <3>2. TrueTodo(k) /\ on[k] \in Approvals /\ on[k] # on[h]
      BY <2>1, <3>1 DEF TodoInv, RequestInv, OwnerInv, Owner, Late
    <3>3. \/ todo[k].handle = None
          \/ /\ opFor'[todo[k].handle] = opFor[todo[k].handle]
             /\ opState'[todo[k].handle] = opState[todo[k].handle]
      BY <3>2 DEF TypeOK, OpInv, TrueTodo, Audit
    <3>4. Untouched(on[k]) => Untouched(on[k])'
      BY <3>1, <3>2 DEF TypeOK, Untouched
    <3>5. QED
      BY <3>1, <3>2, <3>3, <3>4 DEF TrueTodo
  <2>2. CASE k = h
    <3>1. todo'[h] = Write("outcome_unknown", None)
      BY <2>2 DEF TypeOK, Steps
    <3>2. QED
      BY <1>a, <2>2, <3>1 DEF TrueTodo, Write
  <2>3. QED
    BY <2>1, <2>2
<1>5. DocInv'
  <2> SUFFICES ASSUME NEW a \in Approvals PROVE TrueDoc(a)'
    BY DEF DocInv
  <2>1. \/ /\ opFor'[doc[a].handle] = opFor[doc[a].handle]
           /\ opState'[doc[a].handle] = opState[doc[a].handle]
        \/ doc[a].handle = None
    BY DEF TypeOK, Doc, OpInv, DocInv, TrueDoc
  <2>2. CASE a # on[h]
    BY <1>a, <2>1, <2>2 DEF TypeOK, DocInv, TrueDoc, Untouched
  <2>3. CASE a = on[h]
    BY <1>a, <2>3 DEF DocInv, TrueDoc
  <2>4. QED
    BY <2>2, <2>3
<1>6. OpInv' /\ OneShift'
  BY DEF TypeOK, OpInv, OneShift, OwnerInv, Untouched
<1>7. QED
  BY <1>1, <1>2, <1>3, <1>4, <1>5, <1>6

\* The owner hands over: the document gets the handle and is its own no more.
LEMMA RecordApplyingIInv ==
  ASSUME IInv, NEW h \in Handlers, RecordApplying(h)
  PROVE  IInv'
<1> USE NoneAssumption DEF IInv, RecordApplying, Goto, cloudVars
<1>a. /\ lro[h] \in Ops /\ opFor[lro[h]] = on[h] /\ on[h] \in Approvals
      /\ Write("applying", lro[h]) \in Audit
  BY AuditType DEF RequestInv, Phases
<1>b. /\ doc' \in [Approvals -> Doc]
      /\ \A a \in Approvals : a # on[h] => doc'[a] = doc[a]
      /\ doc'[on[h]] = Recorded(doc[on[h]], Write("applying", lro[h]))
      /\ doc[on[h]] \in Doc
  BY <1>a, DocType DEF TypeOK
<1>c. /\ doc[on[h]].status = "used" /\ doc[on[h]].phase \notin Terminal
  BY DEF OwnerInv, Owner, Late, Terminal
<1>d. /\ doc'[on[h]].status = "used"
      /\ doc'[on[h]].target = doc[on[h]].target
      /\ doc'[on[h]].phase = "applying"
      /\ doc'[on[h]].handle = lro[h]
      /\ doc'[on[h]].resolved = doc[on[h]].resolved
  BY <1>a, <1>b, <1>c, RecordedFields DEF Write, Doc
<1>1. TypeOK'
  BY <1>b DEF TypeOK, Steps
<1>2. RequestInv'
  BY DEF TypeOK, RequestInv
<1>3. OwnerInv'
  BY <1>a, <1>b, <1>d DEF TypeOK, OwnerInv, Owner, Late, Untouched, RequestInv, TodoInv, TrueTodo
<1>4. TodoInv'
  BY DEF TypeOK, TodoInv, TrueTodo, Audit, Phases, Untouched, RequestInv, OwnerInv, Owner, Late
<1>5. DocInv'
  <2> SUFFICES ASSUME NEW a \in Approvals PROVE TrueDoc(a)'
    BY DEF DocInv
  <2>1. CASE a # on[h]
    BY <1>b, <2>1 DEF DocInv, TrueDoc, Untouched
  <2>2. CASE a = on[h]
    BY <1>a, <1>c, <1>d, <2>2 DEF DocInv, TrueDoc, Terminal
  <2>3. QED
    BY <2>1, <2>2
<1>6. OpInv' /\ OneShift'
  BY DEF TypeOK, OpInv, OneShift, OwnerInv, Untouched
<1>7. QED
  BY <1>1, <1>2, <1>3, <1>4, <1>5, <1>6

\* What the wait plans to record is what the operation says, or nothing.
LEMMA WaitIInv ==
  ASSUME IInv, NEW h \in Handlers, Wait(h)
  PROVE  IInv'
<1> USE NoneAssumption DEF IInv, Wait, Goto, Plan, docVars, cloudVars
<1>a. lro[h] \in Ops /\ opFor[lro[h]] = on[h]
  BY DEF RequestInv
<1>b. /\ Seal(lro[h]) \in Audit
      /\ Write("failed", lro[h]) \in Audit
      /\ Write("outcome_unknown", lro[h]) \in Audit
  BY <1>a, AuditType DEF Phases
<1>1. TypeOK'
  BY <1>b DEF TypeOK, Steps
<1>2. RequestInv'
  BY DEF TypeOK, RequestInv
<1>3. OwnerInv'
  BY <1>a DEF TypeOK, OwnerInv, Owner, Late, Untouched, Write, Seal
<1>4. TodoInv'
  <2> SUFFICES ASSUME NEW k \in Handlers, pc'[k] = "record"
               PROVE  TrueTodo(k)'
    BY DEF TodoInv
  <2>1. CASE k # h
    BY <2>1 DEF TypeOK, TodoInv, TrueTodo, Untouched
  <2>2. CASE k = h
    <3>1. CASE opState[lro[h]] = "succeeded" /\ todo'[h] = Seal(lro[h])
      BY <1>a, <1>b, <2>2, <3>1 DEF TrueTodo, Write, Seal
    <3>2. CASE opState[lro[h]] = "failed" /\ todo'[h] = Write("failed", lro[h])
      BY <1>a, <1>b, <2>2, <3>2 DEF TrueTodo, Write, Seal
    <3>3. CASE todo'[h] = Write("outcome_unknown", lro[h])
      BY <1>a, <1>b, <2>2, <3>3 DEF TrueTodo, Write, Seal
    <3>4. QED
      BY <2>2, <3>1, <3>2, <3>3 DEF TypeOK, Steps
  <2>3. QED
    BY <2>1, <2>2
<1>5. DocInv'
  BY DEF TypeOK, DocInv, TrueDoc, Untouched, TodoInv, TrueTodo, RequestInv, OwnerInv, Owner, Late, Phases
<1>6. OpInv' /\ OneShift'
  BY DEF TypeOK, OpInv, OneShift, OwnerInv, Untouched
<1>7. QED
  BY <1>1, <1>2, <1>3, <1>4, <1>5, <1>6

\* Admitting a /deny request touches no document.
LEMMA DenyIInv ==
  ASSUME IInv, NEW h \in Handlers, NEW a \in Approvals, Deny(h, a)
  PROVE  IInv'
<1> USE NoneAssumption DEF IInv, Deny, Arrive, Goto, Authorized, docVars, cloudVars
<1>1. TypeOK'
  BY DEF TypeOK, Steps, Replies
<1>2. RequestInv'
  BY DEF TypeOK, RequestInv
<1>3. OwnerInv'
  BY DEF TypeOK, OwnerInv, Owner, Late, Untouched, RequestInv, DocInv, TrueDoc, TodoInv, TrueTodo
<1>4. TodoInv'
  BY DEF TypeOK, TodoInv, TrueTodo, Audit, Phases, Untouched, RequestInv, OwnerInv, Owner, Late
<1>5. DocInv'
  BY DEF TypeOK, DocInv, TrueDoc, Untouched, TodoInv, TrueTodo, RequestInv, OwnerInv, Owner, Late, Phases
<1>6. OpInv' /\ OneShift'
  BY DEF TypeOK, OpInv, OneShift, OwnerInv, Untouched
<1>7. QED
  BY <1>1, <1>2, <1>3, <1>4, <1>5, <1>6

\* A denial takes a pending document, for which nothing was started.
LEMMA ClaimDeniedIInv ==
  ASSUME IInv, NEW h \in Handlers, ClaimDenied(h)
  PROVE  IInv'
<1> USE NoneAssumption DEF IInv, ClaimDenied, Answer, Goto, cloudVars
<1>a. on[h] \in Approvals /\ doc[on[h]] \in Doc
  BY DEF RequestInv, TypeOK
<1>b. /\ doc' \in [Approvals -> Doc]
      /\ \A a \in Approvals : a # on[h] => doc'[a] = doc[a]
      /\ doc'[on[h]] = Denied(doc[on[h]])
  BY <1>a, DocType DEF TypeOK
<1>c. /\ doc[on[h]].status = "pending" => doc'[on[h]].status = "denied"
      /\ doc[on[h]].status # "pending" => doc'[on[h]] = doc[on[h]]
      /\ doc'[on[h]].target = doc[on[h]].target
      /\ doc'[on[h]].phase = doc[on[h]].phase
      /\ doc'[on[h]].handle = doc[on[h]].handle
  BY <1>a, <1>b DEF Denied, Doc
<1>1. TypeOK'
  BY <1>b DEF TypeOK, Steps, Replies
<1>2. RequestInv'
  BY DEF TypeOK, RequestInv
<1>3. OwnerInv'
  BY <1>a, <1>b, <1>c DEF TypeOK, OwnerInv, Owner, Late, Untouched, RequestInv
<1>4. TodoInv'
  BY DEF TypeOK, TodoInv, TrueTodo, Audit, Phases, Untouched, RequestInv, OwnerInv, Owner, Late
<1>5. DocInv'
  <2> SUFFICES ASSUME NEW a \in Approvals PROVE TrueDoc(a)'
    BY DEF DocInv
  <2>1. CASE a # on[h]
    BY <1>b, <2>1 DEF DocInv, TrueDoc, Untouched
  <2>2. CASE a = on[h]
    BY <1>a, <1>c, <2>2 DEF DocInv, TrueDoc, Untouched
  <2>3. QED
    BY <2>1, <2>2
<1>6. OpInv' /\ OneShift'
  BY DEF TypeOK, OpInv, OneShift, OwnerInv, Untouched
<1>7. QED
  BY <1>1, <1>2, <1>3, <1>4, <1>5, <1>6

\* A /reconcile takes the handle of a document that has one: an operation
\* of that approval, and no owner is left.
LEMMA ReconcileIInv ==
  ASSUME IInv, NEW h \in Handlers, NEW a \in Approvals, Reconcile(h, a)
  PROVE  IInv'
<1> USE NoneAssumption DEF IInv, Reconcile, Arrive, Goto, Reconcilable, docVars, cloudVars
<1>a. doc[a].handle \in Ops /\ opFor[doc[a].handle] = a
  BY DEF TypeOK, Doc, DocInv, TrueDoc
<1>1. TypeOK'
  BY <1>a DEF TypeOK, Steps, Replies
<1>2. RequestInv'
  BY <1>a DEF TypeOK, RequestInv
<1>3. OwnerInv'
  BY DEF TypeOK, OwnerInv, Owner, Late, Untouched, RequestInv, DocInv, TrueDoc, TodoInv, TrueTodo
<1>4. TodoInv'
  BY DEF TypeOK, TodoInv, TrueTodo, Audit, Phases, Untouched, RequestInv, OwnerInv, Owner, Late
<1>5. DocInv'
  BY DEF TypeOK, DocInv, TrueDoc, Untouched, TodoInv, TrueTodo, RequestInv, OwnerInv, Owner, Late, Phases
<1>6. OpInv' /\ OneShift'
  BY DEF TypeOK, OpInv, OneShift, OwnerInv, Untouched
<1>7. QED
  BY <1>1, <1>2, <1>3, <1>4, <1>5, <1>6

\* What the reconcile plans to record is what the operation says.
LEMMA GetOperationIInv ==
  ASSUME IInv, NEW h \in Handlers, GetOperation(h)
  PROVE  IInv'
<1> USE NoneAssumption DEF IInv, GetOperation, Goto, Plan, Answer, docVars, cloudVars
<1>a. lro[h] \in Ops /\ opFor[lro[h]] = on[h]
  BY DEF RequestInv
<1>b. /\ Write("failed", lro[h]) \in Audit
      /\ Write("applied", lro[h]) \in Audit
  BY <1>a, AuditType DEF Phases
<1>1. TypeOK'
  BY <1>b DEF TypeOK, Steps, Replies
<1>2. RequestInv'
  BY DEF TypeOK, RequestInv
<1>3. OwnerInv'
  BY <1>a DEF TypeOK, OwnerInv, Owner, Late, Untouched, Write
<1>4. TodoInv'
  <2> SUFFICES ASSUME NEW k \in Handlers, pc'[k] = "record"
               PROVE  TrueTodo(k)'
    BY DEF TodoInv
  <2>1. CASE k # h
    BY <2>1 DEF TypeOK, TodoInv, TrueTodo, Untouched
  <2>2. CASE k = h
    <3>1. CASE opState[lro[h]] = "failed" /\ todo'[h] = Write("failed", lro[h])
      BY <1>a, <1>b, <2>2, <3>1 DEF TrueTodo, Write, Seal
    <3>2. CASE opState[lro[h]] = "succeeded" /\ todo'[h] = Write("applied", lro[h])
      BY <1>a, <1>b, <2>2, <3>2 DEF TrueTodo, Write, Seal
    <3>3. QED
      BY <2>2, <3>1, <3>2 DEF TypeOK, Steps
  <2>3. QED
    BY <2>1, <2>2
<1>5. DocInv'
  BY DEF TypeOK, DocInv, TrueDoc, Untouched, TodoInv, TrueTodo, RequestInv, OwnerInv, Owner, Late, Phases
<1>6. OpInv' /\ OneShift'
  BY DEF TypeOK, OpInv, OneShift, OwnerInv, Untouched
<1>7. QED
  BY <1>1, <1>2, <1>3, <1>4, <1>5, <1>6

\* A planned record is true when it lands, on whatever the document says by
\* then; an owner that records is an owner no more.
LEMMA RecordPhaseIInv ==
  ASSUME IInv, NEW h \in Handlers, RecordPhase(h)
  PROVE  IInv'
<1> USE NoneAssumption DEF IInv, RecordPhase, Answer, Goto, cloudVars
<1>a. /\ on[h] \in Approvals
      /\ doc[on[h]] \in Doc
      /\ todo[h] \in Audit
      /\ TrueTodo(h)
  <2>1. on[h] \in Approvals /\ TrueTodo(h)
    BY DEF RequestInv, TodoInv
  <2>2. doc[on[h]] \in Doc
    BY <2>1 DEF TypeOK
  <2>3. todo[h] \in Audit
    BY <2>1 DEF TrueTodo
  <2>4. QED
    BY <2>1, <2>2, <2>3
<1>b. /\ doc' \in [Approvals -> Doc]
      /\ \A a \in Approvals : a # on[h] => doc'[a] = doc[a]
      /\ doc'[on[h]] = Recorded(doc[on[h]], todo[h])
  BY <1>a, DocType DEF TypeOK
<1>c. doc[on[h]].status = "used"
  BY DEF OwnerInv, Late
<1>d. /\ doc'[on[h]].status = "used"
      /\ doc'[on[h]].target = doc[on[h]].target
      /\ doc[on[h]].phase \in Terminal => doc'[on[h]] = doc[on[h]]
      /\ doc[on[h]].phase \notin Terminal =>
           /\ doc'[on[h]].phase = todo[h].phase
           /\ doc'[on[h]].handle = todo[h].handle
           /\ doc'[on[h]].resolved = (doc[on[h]].resolved \/ todo[h].resolved)
  BY <1>a, <1>b, <1>c, RecordedFields
<1>e. AnswerFor(todo[h]) \in Replies
  BY DEF AnswerFor, Replies
<1>1. TypeOK'
  BY <1>b, <1>e DEF TypeOK, Steps
<1>2. RequestInv'
  BY DEF TypeOK, RequestInv
<1>3. OwnerInv'
  <2>1. \A k \in Handlers : Late(k)' => Late(k) /\ k # h /\ on'[k] = on[k]
    BY DEF TypeOK, Late
  <2>2. \A k \in Handlers : Owner(k)' => Owner(k) /\ on[k] # on[h]
    BY <2>1 DEF TypeOK, Owner, Late, OwnerInv
  <2>3. QED
    BY <1>a, <1>b, <1>d, <2>1, <2>2 DEF TypeOK, OwnerInv, Owner, Late, Untouched, RequestInv
<1>4. TodoInv'
  BY DEF TypeOK, TodoInv, TrueTodo, Audit, Phases, Untouched, RequestInv, OwnerInv, Owner, Late
<1>5. DocInv'
  <2> SUFFICES ASSUME NEW a \in Approvals PROVE TrueDoc(a)'
    BY DEF DocInv
  <2>1. CASE a # on[h]
    BY <1>b, <2>1 DEF DocInv, TrueDoc, Untouched
  <2>2. CASE a = on[h]
    <3>1. CASE doc[a].phase \in Terminal
      BY <1>a, <1>d, <2>2, <3>1 DEF DocInv, TrueDoc, Untouched
    <3>2. CASE doc[a].phase \notin Terminal
      BY ZenonT(40), <1>a, <1>c, <1>d, <2>2, <3>2 DEF DocInv, TrueDoc, TrueTodo, Untouched, Terminal
    <3>3. QED
      BY <3>1, <3>2
  <2>3. QED
    BY <2>1, <2>2
<1>6. OpInv' /\ OneShift'
  BY DEF TypeOK, OpInv, OneShift, OwnerInv, Untouched
<1>7. QED
  BY <1>1, <1>2, <1>3, <1>4, <1>5, <1>6

\* A request that dies leaves the documents as they are.
LEMMA CrashIInv ==
  ASSUME IInv, NEW h \in Handlers, Crash(h)
  PROVE  IInv'
<1> USE NoneAssumption DEF IInv, Crash, Goto, Answer, docVars, cloudVars
<1>1. TypeOK'
  BY DEF TypeOK, Steps, Replies
<1>2. RequestInv'
  BY DEF TypeOK, RequestInv
<1>3. OwnerInv'
  BY DEF TypeOK, OwnerInv, Owner, Late, Untouched, RequestInv, DocInv, TrueDoc, TodoInv, TrueTodo
<1>4. TodoInv'
  BY DEF TypeOK, TodoInv, TrueTodo, Audit, Phases, Untouched, RequestInv, OwnerInv, Owner, Late
<1>5. DocInv'
  BY DEF TypeOK, DocInv, TrueDoc, Untouched, TodoInv, TrueTodo, RequestInv, OwnerInv, Owner, Late, Phases
<1>6. OpInv' /\ OneShift'
  BY DEF TypeOK, OpInv, OneShift, OwnerInv, Untouched
<1>7. QED
  BY <1>1, <1>2, <1>3, <1>4, <1>5, <1>6

\* A fresh approval is pending and untouched.
LEMMA ProposeIInv ==
  ASSUME IInv, NEW a \in Approvals, NEW r \in Revisions, Propose(a, r)
  PROVE  IInv'
<1> USE NoneAssumption DEF IInv, Propose, Created, NoDoc, cloudVars, reqVars
<1>1. TypeOK'
  BY DEF TypeOK, Doc, Status
<1>2. RequestInv'
  BY DEF TypeOK, RequestInv
<1>3. OwnerInv'
  BY DEF TypeOK, OwnerInv, Owner, Late, Untouched, RequestInv, DocInv, TrueDoc, TodoInv, TrueTodo
<1>4. TodoInv'
  BY DEF TypeOK, TodoInv, TrueTodo, Audit, Phases, Untouched, RequestInv, OwnerInv, Owner, Late
<1>5. DocInv'
  BY DEF TypeOK, DocInv, TrueDoc, Untouched, Phases
<1>6. OpInv' /\ OneShift'
  BY DEF TypeOK, OpInv, OneShift, OwnerInv, Untouched
<1>7. QED
  BY <1>1, <1>2, <1>3, <1>4, <1>5, <1>6

\* The clock changes no document.
LEMMA ExpireIInv ==
  ASSUME IInv, NEW a \in Approvals, Expire(a)
  PROVE  IInv'
BY DEF IInv, Expire, TypeOK, RequestInv, OwnerInv, Owner, Late, TodoInv, TrueTodo, DocInv,
       TrueDoc, OpInv, OneShift, Untouched, cloudVars, reqVars

\* Somebody else's deploy changes no document or operation.
LEMMA DeployIInv ==
  ASSUME IInv, NEW r \in Revisions, Deploy(r)
  PROVE  IInv'
BY DEF IInv, Deploy, TypeOK, RequestInv, OwnerInv, Owner, Late, TodoInv, TrueTodo, DocInv,
       TrueDoc, OpInv, OneShift, Untouched, reqVars

\* Tagging changes no document or operation.
LEMMA ToggleTagIInv ==
  ASSUME IInv, ToggleTag
  PROVE  IInv'
BY DEF IInv, ToggleTag, TypeOK, RequestInv, OwnerInv, Owner, Late, TodoInv, TrueTodo, DocInv,
       TrueDoc, OpInv, OneShift, Untouched, reqVars

\* A running operation ends; no settled record was about a running one.
LEMMA OpFinishIInv ==
  ASSUME IInv, NEW o \in Ops, NEW s \in {"succeeded", "failed", "malformed"}, OpFinish(o, s)
  PROVE  IInv'
<1> USE NoneAssumption DEF IInv, OpFinish, reqVars
<1>a. opFor[o] \in Approvals /\ doc[opFor[o]].target \in Revisions
  BY DEF TypeOK, OpInv, DocInv, TrueDoc, Untouched
<1>1. TypeOK'
  BY <1>a DEF TypeOK, OpStates
<1>2. RequestInv'
  BY DEF TypeOK, RequestInv
<1>3. OwnerInv'
  BY DEF TypeOK, OwnerInv, Owner, Late, Untouched, RequestInv, DocInv, TrueDoc, TodoInv, TrueTodo
<1>4. TodoInv'
  BY DEF TypeOK, TodoInv, TrueTodo, Audit, Phases, Untouched, RequestInv, OwnerInv, Owner, Late
<1>5. DocInv'
  BY DEF TypeOK, DocInv, TrueDoc, Untouched, TodoInv, TrueTodo, RequestInv, OwnerInv, Owner, Late, Phases
<1>6. OpInv' /\ OneShift'
  BY DEF TypeOK, OpInv, OneShift, OwnerInv, Untouched
<1>7. QED
  BY <1>1, <1>2, <1>3, <1>4, <1>5, <1>6

\* A stuttering step changes nothing.
LEMMA StutterIInv ==
  ASSUME IInv, UNCHANGED vars
  PROVE  IInv'
BY DEF IInv, vars, TypeOK, RequestInv, OwnerInv, Owner, Late, TodoInv, TrueTodo, DocInv,
       TrueDoc, OpInv, OneShift, Untouched

-----------------------------------------------------------------------------
(* The theorems                                                            *)

\* IInv is inductive: each step of each request and of the environment keeps
\* the bookkeeping of owners, handles and records intact.
LEMMA NextIInv == IInv /\ [Next]_vars => IInv'
<1> SUFFICES ASSUME IInv, [Next]_vars PROVE IInv'
  OBVIOUS
<1>1. ASSUME NEW h \in Handlers, Arrivals(h) PROVE IInv'
  BY <1>1, ExecuteIInv, DenyIInv, ReconcileIInv DEF Arrivals
<1>2. ASSUME NEW h \in Handlers, Work(h) PROVE IInv'
  BY <1>2, PreflightIInv, ClaimIInv, StartTrafficUpdateIInv, UpdateServiceIInv,
     RecordApplyingIInv, WaitIInv, ClaimDeniedIInv, GetOperationIInv, RecordPhaseIInv
  DEF Work
<1>3. ASSUME NEW h \in Handlers, Crash(h) PROVE IInv'
  BY <1>3, CrashIInv
<1>4. ASSUME Environment PROVE IInv'
  BY <1>4, ExpireIInv, ProposeIInv, DeployIInv, ToggleTagIInv, OpFinishIInv
  DEF Environment
<1>5. CASE UNCHANGED vars
  BY <1>5, StutterIInv
<1>6. QED
  BY <1>1, <1>2, <1>3, <1>4, <1>5 DEF Next

\* Every reachable state of the lane satisfies the inductive invariant.
THEOREM Invariance == Spec => []IInv
<1>1. Init => IInv
  BY InitIInv
<1>2. IInv /\ [Next]_vars => IInv'
  BY NextIInv
<1>3. QED
  BY <1>1, <1>2, PTL DEF Spec

\* Documents, operations and requests keep their types.
THEOREM TypeCorrect == Spec => []TypeOK
<1>1. IInv => TypeOK
  BY DEF IInv
<1>2. QED
  BY <1>1, Invariance, PTL

\* However many /execute requests race, crash and are retried, a credential
\* starts at most one traffic shift.
THEOREM SingleUse == Spec => []OneShift
<1>1. IInv => OneShift
  BY DEF IInv
<1>2. QED
  BY <1>1, Invariance, PTL

\* Nothing is ever started for a pending or a denied approval.
THEOREM NoShiftUnspent == Spec => []UnspentMeansUntouched
<1>1. IInv => UnspentMeansUntouched
  BY DEF IInv, DocInv, TrueDoc, UnspentMeansUntouched
<1>2. QED
  BY <1>1, Invariance, PTL

\* A recorded "applied" or "failed" is what Cloud Run did, whichever of
\* /execute and /reconcile recorded it and in whatever order they ran.
THEOREM OutcomeIsTrue == Spec => []HonestOutcome
<1>1. IInv => HonestOutcome
  <2> SUFFICES ASSUME IInv, NEW a \in Approvals
               PROVE  /\ doc[a].phase = "applied" =>
                           \E o \in OpsOf(a) : opState[o] = "succeeded"
                      /\ doc[a].phase = "failed" =>
                           \A o \in OpsOf(a) : opState[o] = "failed"
    BY DEF HonestOutcome
  <2>1. doc[a].handle \in Ops \cup {None}
    BY DEF IInv, TypeOK, Doc
  <2>2. TrueDoc(a)
    BY DEF IInv, DocInv
  <2>3. ASSUME doc[a].phase = "applied"
        PROVE  \E o \in OpsOf(a) : opState[o] = "succeeded"
    BY <2>1, <2>2, <2>3 DEF TrueDoc, OpsOf
  <2>4. ASSUME doc[a].phase = "failed", NEW o \in OpsOf(a)
        PROVE  opState[o] = "failed"
    <3>1. o \in Ops /\ opFor[o] = a
      BY DEF OpsOf
    <3>2. doc[a].handle # None
      BY <2>2, <2>4, <3>1 DEF TrueDoc, Untouched
    <3>3. o = doc[a].handle
      BY <2>1, <2>2, <3>1, <3>2, NoneAssumption DEF IInv, OneShift, TrueDoc
    <3>4. QED
      BY <2>2, <2>4, <3>2, <3>3 DEF TrueDoc
  <2>5. QED
    BY <2>3, <2>4
<1>2. QED
  BY <1>1, Invariance, PTL

\* The desk's seal stands on a success Cloud Run reported.
THEOREM SealIsTrue == Spec => []SealMeansConfirmed
<1>1. IInv => SealMeansConfirmed
  BY DEF IInv, DocInv, TrueDoc, SealMeansConfirmed
<1>2. QED
  BY <1>1, Invariance, PTL

-----------------------------------------------------------------------------
(* Steps                                                                   *)

\* The actions that write documents; every other step leaves them alone.
LEMMA DocSteps ==
  ASSUME IInv, [Next]_vars, doc' # doc
  PROVE  \/ \E a \in Approvals, r \in Revisions : Propose(a, r)
         \/ \E h \in Handlers : \/ Claim(h) \/ ClaimDenied(h)
                                \/ RecordApplying(h) \/ RecordPhase(h)
<1>1. ASSUME NEW h \in Handlers, Arrivals(h) PROVE FALSE
  BY <1>1 DEF Arrivals, Execute, Deny, Reconcile, docVars
<1>2. ASSUME NEW h \in Handlers, Work(h)
      PROVE  Claim(h) \/ ClaimDenied(h) \/ RecordApplying(h) \/ RecordPhase(h)
  BY <1>2 DEF Work, Preflight, StartTrafficUpdate, UpdateService, Wait,
              GetOperation, docVars
<1>3. ASSUME NEW h \in Handlers, Crash(h) PROVE FALSE
  BY <1>3 DEF Crash, docVars
<1>4. ASSUME Environment
      PROVE  \E a \in Approvals, r \in Revisions : Propose(a, r)
  BY <1>4 DEF Environment, Expire, Deploy, ToggleTag, OpFinish
<1>5. CASE UNCHANGED vars
  BY <1>5 DEF vars
<1>6. QED
  BY <1>1, <1>2, <1>3, <1>4, <1>5 DEF Next

\* No step changes a document with an established outcome.
LEMMA SettledStep ==
  ASSUME IInv, [Next]_vars, NEW a \in Approvals,
         doc[a].phase \in Terminal \/ doc[a].status = "denied"
  PROVE  doc'[a] = doc[a]
<1> SUFFICES ASSUME doc' # doc PROVE doc'[a] = doc[a]
  OBVIOUS
<1>1. TrueDoc(a) /\ doc[a] \in Doc
  BY DEF IInv, DocInv, TypeOK
<1>2. doc[a].status \notin {"absent", "pending"}
  BY <1>1, NoneAssumption DEF TrueDoc, Terminal, Phases
<1>3. ASSUME NEW b \in Approvals, NEW r \in Revisions, Propose(b, r)
      PROVE  doc'[a] = doc[a]
  BY <1>2, <1>3 DEF Propose, IInv, TypeOK
<1>4. ASSUME NEW h \in Handlers, Claim(h) \/ ClaimDenied(h)
      PROVE  doc'[a] = doc[a]
  BY <1>2, <1>4 DEF Claim, ClaimDenied, Claimed, Denied, IInv, TypeOK
<1>5. ASSUME NEW h \in Handlers, RecordApplying(h)
      PROVE  doc'[a] = doc[a]
  <2>1. on[h] # a
    BY <1>1, <1>5 DEF RecordApplying, IInv, OwnerInv, Owner, Late, Terminal
  <2>2. QED
    BY <1>5, <2>1 DEF RecordApplying, IInv, TypeOK
<1>6. ASSUME NEW h \in Handlers, RecordPhase(h)
      PROVE  doc'[a] = doc[a]
  <2>1. on[h] = a => doc[a].phase \in Terminal
    BY <1>1, <1>6 DEF RecordPhase, IInv, OwnerInv, Late
  <2>2. QED
    BY <1>6, <2>1 DEF RecordPhase, Recorded, IInv, TypeOK
<1>7. QED
  BY <1>3, <1>4, <1>5, <1>6, DocSteps

\* A terminal phase and a denial are immutable, so the coordinator may cache
\* them across requests.
THEOREM TerminalIsImmutable == Spec => SettledForever
<1>1. IInv /\ [Next]_vars =>
        [\A a \in Approvals :
           doc[a].phase \in Terminal \/ doc[a].status = "denied" =>
             doc'[a] = doc[a]]_vars
  BY SettledStep
<1>2. QED
  BY <1>1, Invariance, PTL DEF Spec, SettledForever

\* No step drops or replaces a recorded operation handle.
LEMMA HandleStep ==
  ASSUME IInv, [Next]_vars, NEW a \in Approvals, doc[a].handle # None
  PROVE  doc'[a].handle = doc[a].handle
<1> SUFFICES ASSUME doc' # doc PROVE doc'[a].handle = doc[a].handle
  OBVIOUS
<1>1. TrueDoc(a) /\ doc[a] \in Doc
  BY DEF IInv, DocInv, TypeOK
<1>2. doc[a].status = "used"
  BY <1>1 DEF TrueDoc
<1>3. ASSUME NEW b \in Approvals, NEW r \in Revisions, Propose(b, r)
      PROVE  doc'[a].handle = doc[a].handle
  BY <1>2, <1>3 DEF Propose, IInv, TypeOK
<1>4. ASSUME NEW h \in Handlers, Claim(h) \/ ClaimDenied(h)
      PROVE  doc'[a].handle = doc[a].handle
  BY <1>2, <1>4 DEF Claim, ClaimDenied, Claimed, Denied, IInv, TypeOK
<1>5. ASSUME NEW h \in Handlers, RecordApplying(h)
      PROVE  doc'[a].handle = doc[a].handle
  <2>1. on[h] # a
    BY <1>5 DEF RecordApplying, IInv, OwnerInv, Owner
  <2>2. QED
    BY <1>5, <2>1 DEF RecordApplying, IInv, TypeOK
<1>6. ASSUME NEW h \in Handlers, RecordPhase(h), on[h] = a
      PROVE  doc'[a].handle = doc[a].handle
  <2>1. doc'[a] = Recorded(doc[a], todo[h])
    BY <1>6 DEF RecordPhase, IInv, TypeOK
  <2>2. TrueTodo(h) /\ todo[h] \in Audit
    BY <1>6 DEF RecordPhase, IInv, TodoInv, TrueTodo
  <2>3. todo[h].handle # None
    BY <1>6 DEF RecordPhase, IInv, OwnerInv, Owner
  <2>4. todo[h].handle = doc[a].handle
    <3>1. /\ todo[h].handle \in Ops /\ opFor[todo[h].handle] = a
          /\ doc[a].handle \in Ops /\ opFor[doc[a].handle] = a
      BY <1>1, <1>6, <2>2, <2>3 DEF TrueTodo, TrueDoc, Audit, Doc
    <3>2. QED
      BY <3>1, NoneAssumption DEF IInv, OneShift
  <2>5. QED
    BY <1>1, <1>2, <2>1, <2>2, <2>4, RecordedFields
<1>7. ASSUME NEW h \in Handlers, RecordPhase(h), on[h] # a
      PROVE  doc'[a].handle = doc[a].handle
  BY <1>7 DEF RecordPhase, IInv, TypeOK
<1>8. QED
  BY <1>3, <1>4, <1>5, <1>6, <1>7, DocSteps

\* The handle a reconcile needs is never lost to a later write of the audit.
THEOREM HandleIsKept == Spec => HandleKept
<1>1. IInv /\ [Next]_vars =>
        [\A a \in Approvals :
           doc[a].handle # None => doc'[a].handle = doc[a].handle]_vars
  BY HandleStep
<1>2. QED
  BY <1>1, Invariance, PTL DEF Spec, HandleKept

-----------------------------------------------------------------------------
(* What callers are told                                                   *)

\* The answers that speak of an outcome, and when they are true.  The first
\* conjunct is what HonestAnswer lacks to be preserved: they are about something.
Told == {"executed", "reconciled", "failed", "denied"}
TrueReply(h) ==
  /\ reply[h] \in Told => on[h] \in Approvals
  /\ reply[h] \in {"executed", "reconciled"} => doc[on[h]].phase = "applied"
  /\ reply[h] = "failed" => doc[on[h]].phase = "failed"
  /\ reply[h] = "denied" => doc[on[h]].status = "denied"

\* A request is told of an outcome at the end of /deny or of a record; every other
\* step leaves its answer and its subject alone, or takes the answer away.
LEMMA ReplySteps ==
  ASSUME IInv, [Next]_vars, NEW h \in Handlers
  PROVE  \/ ClaimDenied(h) \/ RecordPhase(h)
         \/ reply'[h] \notin Told
         \/ reply'[h] = reply[h] /\ on'[h] = on[h]
<1>t. reply \in [Handlers -> Replies] /\ on \in [Handlers -> Approvals \cup {None}]
  BY DEF IInv, TypeOK
<1>1. ASSUME NEW g \in Handlers, Arrivals(g)
      PROVE  reply'[h] \notin Told \/ (reply'[h] = reply[h] /\ on'[h] = on[h])
  BY <1>1, <1>t DEF Arrivals, Execute, Deny, Reconcile, Arrive, Told
<1>2. ASSUME NEW g \in Handlers, Work(g), ~ClaimDenied(g), ~RecordPhase(g)
      PROVE  reply'[h] \notin Told \/ (reply'[h] = reply[h] /\ on'[h] = on[h])
  <2>1. CASE Preflight(g)
    BY <2>1, <1>t DEF Preflight, Answer, Told
  <2>2. CASE Claim(g)
    BY <2>2, <1>t DEF Claim, Answer, Told
  <2>3. CASE StartTrafficUpdate(g) \/ UpdateService(g)
    BY <2>3 DEF StartTrafficUpdate, UpdateService
  <2>4. CASE RecordApplying(g) \/ Wait(g)
    BY <2>4 DEF RecordApplying, Wait
  <2>5. CASE GetOperation(g)
    BY <2>5, <1>t DEF GetOperation, Answer, Told
  <2>6. QED
    BY <1>2, <2>1, <2>2, <2>3, <2>4, <2>5 DEF Work
<1>3. ASSUME NEW g \in Handlers, g # h, ClaimDenied(g) \/ RecordPhase(g)
      PROVE  reply'[h] = reply[h] /\ on'[h] = on[h]
  BY <1>3, <1>t DEF ClaimDenied, RecordPhase, Answer
<1>4. ASSUME NEW g \in Handlers, Crash(g)
      PROVE  reply'[h] \notin Told \/ (reply'[h] = reply[h] /\ on'[h] = on[h])
  BY <1>4, <1>t DEF Crash, Answer, Told
<1>5. ASSUME Environment PROVE reply'[h] = reply[h] /\ on'[h] = on[h]
  BY <1>5 DEF Environment, Propose, Expire, Deploy, ToggleTag, OpFinish, reqVars
<1>6. CASE UNCHANGED vars
  BY <1>6 DEF vars
<1>7. QED
  BY <1>1, <1>2, <1>3, <1>4, <1>5, <1>6 DEF Next

\* What is recorded last is what its request is told: the write took effect, or
\* another request had already recorded the same outcome of the same operation.
LEMMA RecordedReply ==
  ASSUME IInv, NEW h \in Handlers, RecordPhase(h)
  PROVE  TrueReply(h)'
<1> DEFINE a == on[h]
           w == todo[h]
<1>1. /\ a \in Approvals /\ doc[a] \in Doc /\ doc[a].status = "used"
      /\ w \in Audit /\ TrueTodo(h) /\ TrueDoc(a)
  BY DEF IInv, RequestInv, OwnerInv, Late, TodoInv, TrueTodo, DocInv, TypeOK, RecordPhase
<1>2. reply'[h] = AnswerFor(w) /\ on'[h] = a /\ doc'[a] = Recorded(doc[a], w)
  BY <1>1 DEF RecordPhase, Answer, IInv, TypeOK
<1>3. CASE doc[a].phase \notin Terminal
  <2>1. doc'[a].phase = w.phase
    BY <1>1, <1>2, <1>3, RecordedFields
  <2>2. QED
    BY <1>1, <1>2, <2>1 DEF TrueReply, AnswerFor, TrueTodo, Told
<1>4. CASE doc[a].phase \in Terminal
  <2>1. doc'[a] = doc[a]
    BY <1>1, <1>2, <1>4, RecordedFields
  <2>2. ASSUME w.phase \in {"applied", "failed"}, w.handle # None
        PROVE  doc[a].phase = w.phase
    <3>1. w.handle \in Ops /\ opFor[w.handle] = a
      BY <1>1, <2>2 DEF TrueTodo, Audit
    <3>2. doc[a].handle # None /\ doc[a].handle \in Ops /\ opFor[doc[a].handle] = a
      BY <1>1, <1>4, <3>1 DEF TrueDoc, Untouched, Terminal, Doc
    <3>3. doc[a].handle = w.handle
      BY <1>1, <3>1, <3>2, NoneAssumption DEF IInv, OneShift
    <3>4. QED
      BY <1>1, <1>4, <2>2, <3>2, <3>3 DEF TrueTodo, TrueDoc, Terminal
  <2>3. w.resolved => w.phase = "applied"
    BY <1>1 DEF TrueTodo
  <2>4. w.phase = "applied" => w.handle # None
    BY <1>1 DEF TrueTodo
  <2>5. QED
    BY <1>1, <1>2, <2>1, <2>2, <2>3, <2>4 DEF TrueReply, AnswerFor, Told
<1>5. QED
  BY <1>3, <1>4

\* An answer stays true: nothing moves the document it speaks of.
LEMMA ReplyStep ==
  ASSUME IInv, [Next]_vars, NEW h \in Handlers, TrueReply(h)
  PROVE  TrueReply(h)'
<1>1. CASE ClaimDenied(h)
  <2>1. /\ on[h] \in Approvals /\ on'[h] = on[h]
        /\ doc'[on[h]] = Denied(doc[on[h]])
        /\ reply'[h] = IF doc[on[h]].status = "pending" THEN "denied" ELSE "refused"
    BY <1>1 DEF ClaimDenied, Answer, IInv, RequestInv, TypeOK
  <2>2. doc[on[h]].status = "pending" => doc'[on[h]].status = "denied"
    BY <2>1 DEF Denied, IInv, TypeOK, Doc
  <2>3. QED
    BY <2>1, <2>2 DEF TrueReply, Told
<1>2. CASE RecordPhase(h)
  BY <1>2, RecordedReply
<1>3. CASE reply'[h] \notin Told
  BY <1>3 DEF TrueReply, Told
<1>4. CASE reply'[h] \in Told /\ reply'[h] = reply[h] /\ on'[h] = on[h]
  <2>1. on[h] \in Approvals
    BY <1>4 DEF TrueReply
  <2>2. doc[on[h]].phase \in Terminal \/ doc[on[h]].status = "denied"
    BY <1>4 DEF TrueReply, Told, Terminal
  <2>3. doc'[on[h]] = doc[on[h]]
    BY <2>1, <2>2, SettledStep
  <2>4. QED
    BY <1>4, <2>1, <2>3 DEF TrueReply
<1>5. QED
  BY <1>1, <1>2, <1>3, <1>4, ReplySteps

\* No caller of /execute, /deny or /reconcile was told an outcome that the document
\* does not say, though its own write may have come second.
THEOREM AnswersAreHonest == Spec => []HonestAnswer
<1> DEFINE AllTrue == \A h \in Handlers : TrueReply(h)
<1>1. Init => AllTrue
  BY DEF Init, TrueReply, Told
<1>2. IInv /\ [Next]_vars /\ AllTrue => AllTrue'
  BY ReplyStep
<1>3. AllTrue => HonestAnswer
  BY DEF TrueReply, HonestAnswer
<1> HIDE DEF AllTrue
<1>4. QED
  BY <1>1, <1>2, <1>3, Invariance, PTL DEF Spec

-----------------------------------------------------------------------------
(* RollbackApproval implements OneShotRollback                             *)

\* The one operation of an approval is the one CHOOSE finds.
LEMMA TheOperation ==
  ASSUME NEW f, NEW a, NEW o \in Ops, f[o] = a,
         \A p \in Ops : f[p] = a => p = o
  PROVE  (CHOOSE p \in Ops : f[p] = a) = o
OBVIOUS

\* Shift(a) is what Cloud Run says of the operation of a, if there is one.
LEMMA ShiftOf ==
  ASSUME OneShift, NEW a \in Approvals, NEW o \in Ops, opFor[o] = a
  PROVE  Shift(a) = opState[o]
<1>1. \A p \in Ops : opFor[p] = a => p = o
  BY NoneAssumption DEF OneShift
<1>2. (CHOOSE p \in Ops : opFor[p] = a) = o
  BY <1>1, TheOperation
<1>3. QED
  BY <1>2 DEF Shift, Untouched

\* The abstract variables a step leaves alone when it leaves alone what they
\* are computed from.
LEMMA SameShift ==
  ASSUME opFor' = opFor, opState' = opState, NEW a \in Approvals
  PROVE  Shift(a)' = Shift(a)
BY DEF Shift, Untouched

\* The lane starts where its promise starts.
LEMMA InitPromise == Init => Promise!Init
<1> SUFFICES ASSUME Init PROVE Promise!Init
  OBVIOUS
<1>1. \A a \in Approvals : Untouched(a)
  BY NoneAssumption DEF Init, Untouched
<1>2. \A a \in Approvals : Shift(a) = "none"
  BY <1>1 DEF Shift
<1>3. \A a \in Approvals : doc[a].phase \notin Terminal
  BY NoneAssumption DEF Init, NoDoc, Terminal, Phases
<1>4. QED
  BY <1>2, <1>3 DEF Init, NoDoc, Promise!Init

\* A step that changes neither documents, operations nor traffic stutters.
LEMMA QuietPromise ==
  ASSUME UNCHANGED <<doc, opFor, opState, active>>
  PROVE  UNCHANGED Promise!vars
<1>1. \A a \in Approvals : Shift(a)' = Shift(a)
  BY SameShift
<1>2. QED
  BY <1>1 DEF Promise!vars

\* /propose issues a credential.
LEMMA ProposePromise ==
  ASSUME IInv, NEW a \in Approvals, NEW r \in Revisions, Propose(a, r)
  PROVE  Promise!Issue(a, r)
<1>1. \A b \in Approvals : Shift(b)' = Shift(b)
  BY SameShift DEF Propose, cloudVars
<1>2. /\ doc'[a] = Created(r)
      /\ \A b \in Approvals \ {a} : doc'[b] = doc[b]
  BY DEF Propose, IInv, TypeOK
<1>3. doc[a].phase = None
  BY DEF Propose, IInv, DocInv, TrueDoc
<1>4. /\ doc'[a].status = "pending" /\ doc'[a].target = r
      /\ doc'[a].phase \notin Terminal /\ doc[a].phase \notin Terminal
  BY <1>2, <1>3, NoneAssumption DEF Created, NoDoc, Terminal, Phases
<1>5. \A b \in Approvals :
        /\ doc'[b].status = IF b = a THEN "pending" ELSE doc[b].status
        /\ doc'[b].target = IF b = a THEN r ELSE doc[b].target
        /\ (IF doc'[b].phase \in Terminal THEN doc'[b].phase ELSE "open")
             = (IF doc[b].phase \in Terminal THEN doc[b].phase ELSE "open")
  BY <1>2, <1>4
<1>6. doc[a].status = "absent" /\ r # active /\ UNCHANGED active
  BY DEF Propose, cloudVars
<1>7. QED
  BY <1>1, <1>5, <1>6 DEF Promise!Issue

\* A claim resolves a pending credential, or finds it resolved.
LEMMA ClaimPromise ==
  ASSUME IInv, NEW h \in Handlers, Claim(h) \/ ClaimDenied(h)
  PROVE  \/ \E how \in {"used", "denied"} : Promise!Resolve(on[h], how)
         \/ UNCHANGED Promise!vars
<1>1. on[h] \in Approvals /\ doc[on[h]] \in Doc
  BY DEF IInv, RequestInv, TypeOK, Claim, ClaimDenied
<1>2. UNCHANGED <<opFor, opState, active>>
  BY DEF Claim, ClaimDenied, cloudVars
<1>3. CASE doc[on[h]].status = "pending"
  <2>1. doc[on[h]].phase = None
    BY <1>1, <1>3 DEF IInv, DocInv, TrueDoc
  <2>2. \A b \in Approvals : b # on[h] => doc'[b] = doc[b]
    BY DEF Claim, ClaimDenied, IInv, TypeOK
  <2>3. PICK how \in {"used", "denied"} :
          /\ doc'[on[h]].status = how
          /\ doc'[on[h]].target = doc[on[h]].target
          /\ doc'[on[h]].phase \in {"claimed", None}
    <3>1. CASE Claim(h)
      <4>1. doc'[on[h]] = Claimed(doc[on[h]])
        BY <1>1, <3>1 DEF Claim, IInv, TypeOK
      <4>2. QED
        BY <1>1, <1>3, <4>1 DEF Claimed, Doc
    <3>2. CASE ClaimDenied(h)
      <4>1. doc'[on[h]] = Denied(doc[on[h]])
        BY <1>1, <3>2 DEF ClaimDenied, IInv, TypeOK
      <4>2. QED
        BY <1>1, <1>3, <2>1, <4>1 DEF Denied, Doc
    <3>3. QED
      BY <3>1, <3>2
  <2>4. doc'[on[h]].phase \notin Terminal /\ doc[on[h]].phase \notin Terminal
    BY <2>1, <2>3, NoneAssumption DEF Terminal, Phases
  <2>5. \A b \in Approvals : Shift(b)' = Shift(b)
    BY <1>2, SameShift
  <2>6. Promise!Resolve(on[h], how)
    BY <1>1, <1>2, <1>3, <2>2, <2>3, <2>4, <2>5 DEF Promise!Resolve
  <2>7. QED
    BY <2>6
<1>4. CASE doc[on[h]].status # "pending"
  <2>1. doc' = doc
    BY <1>1, <1>4 DEF Claim, ClaimDenied, Claimed, Denied, IInv, TypeOK
  <2>2. QED
    BY <1>2, <2>1, QuietPromise
<1>5. QED
  BY <1>3, <1>4

\* An accepted update_service starts the shift; a refused one does nothing.
LEMMA UpdatePromise ==
  ASSUME IInv, IInv', NEW h \in Handlers, UpdateService(h)
  PROVE  Promise!Start(on[h]) \/ UNCHANGED Promise!vars
<1>1. /\ on[h] \in Approvals /\ Untouched(on[h])
      /\ doc[on[h]].status = "used" /\ doc[on[h]].phase = "claimed"
  BY DEF UpdateService, IInv, RequestInv, OwnerInv, Owner, Late
<1>2. UNCHANGED <<doc, active>>
  BY DEF UpdateService, docVars
<1>3. CASE UNCHANGED <<opFor, opState>>
  BY <1>2, <1>3, QuietPromise
<1>4. ASSUME NEW o \in Ops, opState[o] = "none",
             opState' = [opState EXCEPT ![o] = "running"],
             opFor' = [opFor EXCEPT ![o] = on[h]]
      PROVE  Promise!Start(on[h])
  <2>1. Shift(on[h]) = "none"
    BY <1>1 DEF Shift
  <2>2. Shift(on[h])' = "running"
    <3>1. opFor'[o] = on[h] /\ opState'[o] = "running"
      BY <1>4 DEF IInv, TypeOK
    <3>2. \A p \in Ops : opFor'[p] = on[h] => p = o
      BY <1>1, <3>1, NoneAssumption DEF IInv, OneShift
    <3>3. (CHOOSE p \in Ops : opFor'[p] = on[h]) = o
      BY <3>1, <3>2, TheOperation
    <3>4. on' = on
      BY DEF UpdateService
    <3>5. QED
      BY <3>1, <3>3, <3>4 DEF Shift, Untouched
  <2>3. ASSUME NEW b \in Approvals, b # on[h] PROVE Shift(b)' = Shift(b)
    <3>1. opFor[o] = None
      BY <1>4 DEF IInv, OpInv
    <3>2. \A p \in Ops : opFor'[p] = b <=> opFor[p] = b
      BY <1>4, <2>3, <3>1, NoneAssumption DEF IInv, TypeOK
    <3>3. CASE Untouched(b)
      BY <3>2, <3>3 DEF Shift, Untouched
    <3>4. ASSUME NEW p \in Ops, opFor[p] = b PROVE Shift(b)' = Shift(b)
      <4>1. Shift(b) = opState[p]
        BY <3>4, ShiftOf DEF IInv
      <4>2. (CHOOSE q \in Ops : opFor'[q] = b) = p
        <5>1. \A q \in Ops : opFor'[q] = b => q = p
          BY <3>2, <3>4, NoneAssumption DEF IInv, OneShift
        <5>2. QED
          BY <3>2, <3>4, <5>1, TheOperation
      <4>3. opState'[p] = opState[p]
        BY <1>4, <3>1, <3>4, NoneAssumption DEF IInv, TypeOK
      <4>4. QED
        BY <3>2, <3>4, <4>1, <4>2, <4>3 DEF Shift, Untouched
    <3>5. QED
      BY <3>3, <3>4 DEF Untouched
  <2>4. QED
    <3>1. "claimed" \notin Terminal
      BY DEF Terminal
    <3>2. on' = on
      BY DEF UpdateService
    <3>3. \A b \in Approvals :
            Shift(b)' = IF b = on[h] THEN "running" ELSE Shift(b)
      BY <2>2, <2>3, <3>2
    <3>4. QED
      BY <1>1, <1>2, <2>1, <3>1, <3>3 DEF Promise!Start
<1>5. QED
  BY <1>3, <1>4 DEF UpdateService

\* Cloud Run finishes the shift, and on success traffic is at its goal.
LEMMA FinishPromise ==
  ASSUME IInv, NEW o \in Ops, NEW s \in {"succeeded", "failed", "malformed"},
         OpFinish(o, s)
  PROVE  Promise!Finish(opFor[o], s) /\ opFor[o] \in Approvals
<1>1. opFor[o] \in Approvals
  BY DEF OpFinish, IInv, TypeOK, OpInv
<1>2. UNCHANGED <<doc, opFor>> /\ opState[o] = "running"
      /\ opState' = [opState EXCEPT ![o] = s]
  BY DEF OpFinish
<1>3. Shift(opFor[o]) = "running"
  BY <1>1, <1>2, ShiftOf DEF IInv
<1>4. \A p \in Ops : opFor[p] = opFor[o] => p = o
  BY <1>1, NoneAssumption DEF IInv, OneShift
<1>5. ASSUME NEW b \in Approvals
      PROVE  Shift(b)' = IF b = opFor[o] THEN s ELSE Shift(b)
  <2>1. CASE b = opFor[o]
    <3>1. (CHOOSE p \in Ops : opFor[p] = b) = o
      BY <1>4, <2>1, TheOperation
    <3>2. QED
      BY <1>2, <2>1, <3>1 DEF Shift, Untouched, IInv, TypeOK
  <2>2. CASE Untouched(b)
    BY <1>2, <2>2 DEF Shift, Untouched
  <2>3. ASSUME b # opFor[o], NEW p \in Ops, opFor[p] = b
        PROVE  Shift(b)' = Shift(b)
    <3>1. \A q \in Ops : opFor[q] = b => q = p
      BY <2>3, NoneAssumption DEF IInv, OneShift
    <3>2. (CHOOSE q \in Ops : opFor[q] = b) = p
      BY <2>3, <3>1, TheOperation
    <3>3. QED
      BY <1>2, <2>3, <3>2 DEF Shift, Untouched, IInv, TypeOK
  <2>4. QED
    BY <2>1, <2>2, <2>3 DEF Untouched
<1>6. QED
  BY <1>1, <1>2, <1>3, <1>5 DEF OpFinish, Promise!Finish

\* Recording a phase settles the verdict on evidence, or says nothing new.
LEMMA RecordPromise ==
  ASSUME IInv, NEW h \in Handlers, RecordApplying(h) \/ RecordPhase(h)
  PROVE  \/ \E v \in {"applied", "failed"} : Promise!Settle(on[h], v)
         \/ UNCHANGED Promise!vars
<1>1. UNCHANGED <<opFor, opState, active>>
  BY DEF RecordApplying, RecordPhase, cloudVars
<1>2. \A b \in Approvals : Shift(b)' = Shift(b)
  BY <1>1, SameShift
<1>3. on[h] \in Approvals /\ doc[on[h]] \in Doc /\ doc[on[h]].status = "used"
  BY DEF RecordApplying, RecordPhase, IInv, RequestInv, TypeOK, OwnerInv, Late
<1>4. PICK w \in Audit :
        /\ doc' = [doc EXCEPT ![on[h]] = Recorded(@, w)]
        /\ w.phase = "applying" \/ (pc[h] = "record" /\ w = todo[h])
  <2>1. CASE RecordApplying(h)
    <3>1. Write("applying", lro[h]) \in Audit
      BY <2>1, AuditType DEF RecordApplying, IInv, RequestInv, Phases
    <3>2. Write("applying", lro[h]).phase = "applying"
      BY DEF Write
    <3>3. QED
      BY <2>1, <3>1, <3>2 DEF RecordApplying
  <2>2. CASE RecordPhase(h)
    BY <2>2 DEF RecordPhase, IInv, TodoInv, TrueTodo
  <2>3. QED
    BY <2>1, <2>2
<1>5. /\ doc'[on[h]] = Recorded(doc[on[h]], w)
      /\ \A b \in Approvals : b # on[h] => doc'[b] = doc[b]
  BY <1>3, <1>4 DEF IInv, TypeOK
<1>6. /\ doc'[on[h]].status = "used"
      /\ doc'[on[h]].target = doc[on[h]].target
      /\ doc[on[h]].phase \in Terminal => doc'[on[h]] = doc[on[h]]
      /\ doc[on[h]].phase \notin Terminal => doc'[on[h]].phase = w.phase
  BY <1>3, <1>5, RecordedFields
<1>7. CASE doc[on[h]].phase \in Terminal \/ w.phase \notin Terminal
  BY <1>1, <1>2, <1>3, <1>5, <1>6, <1>7 DEF Promise!vars
<1>8. CASE doc[on[h]].phase \notin Terminal /\ w.phase \in Terminal
  <2>1. pc[h] = "record" /\ w = todo[h] /\ TrueTodo(h)
    BY <1>4, <1>8 DEF Terminal, IInv, TodoInv
  <2>2. \/ w.phase = "applied" /\ Shift(on[h]) = "succeeded"
        \/ w.phase = "failed" /\ Shift(on[h]) \in {"none", "failed"}
    <3>1. CASE w.handle = None
      BY <1>8, <2>1, <3>1 DEF TrueTodo, Shift, Terminal
    <3>2. CASE w.handle # None
      <4>1. w.handle \in Ops /\ opFor[w.handle] = on[h]
        BY <2>1, <3>2 DEF TrueTodo, Audit
      <4>2. Shift(on[h]) = opState[w.handle]
        BY <1>3, <4>1, ShiftOf DEF IInv
      <4>3. QED
        BY <1>8, <2>1, <3>2, <4>2 DEF TrueTodo, Terminal
    <3>3. QED
      BY <3>1, <3>2
  <2>3. Promise!Settle(on[h], w.phase)
    BY <1>1, <1>2, <1>3, <1>5, <1>6, <1>8, <2>2 DEF Promise!Settle
  <2>4. QED
    BY <1>8, <2>3 DEF Terminal
<1>9. QED
  BY <1>7, <1>8

\* Every step of the lane is a step of its promise, or none.
LEMMA NextPromise == IInv /\ IInv' /\ [Next]_vars => [Promise!Next]_(Promise!vars)
<1> SUFFICES ASSUME IInv, IInv', [Next]_vars
             PROVE  Promise!Next \/ UNCHANGED Promise!vars
  OBVIOUS
<1>1. ASSUME NEW h \in Handlers, Arrivals(h)
      PROVE  UNCHANGED Promise!vars
  BY <1>1, QuietPromise DEF Arrivals, Execute, Deny, Reconcile, docVars, cloudVars
<1>2. ASSUME NEW h \in Handlers,
             \/ Preflight(h) \/ StartTrafficUpdate(h) \/ Wait(h)
             \/ GetOperation(h) \/ Crash(h)
      PROVE  UNCHANGED Promise!vars
  BY <1>2, QuietPromise DEF Preflight, StartTrafficUpdate, Wait, GetOperation,
                            Crash, docVars, cloudVars
<1>3. ASSUME NEW h \in Handlers, Claim(h) \/ ClaimDenied(h)
      PROVE  Promise!Next \/ UNCHANGED Promise!vars
  <2>1. on[h] \in Approvals
    BY <1>3 DEF Claim, ClaimDenied, IInv, RequestInv
  <2>2. QED
    BY <1>3, <2>1, ClaimPromise DEF Promise!Next
<1>4. ASSUME NEW h \in Handlers, UpdateService(h)
      PROVE  Promise!Next \/ UNCHANGED Promise!vars
  <2>1. on[h] \in Approvals
    BY <1>4 DEF UpdateService, IInv, RequestInv
  <2>2. QED
    BY <1>4, <2>1, UpdatePromise DEF Promise!Next
<1>5. ASSUME NEW h \in Handlers, RecordApplying(h) \/ RecordPhase(h)
      PROVE  Promise!Next \/ UNCHANGED Promise!vars
  <2>1. on[h] \in Approvals
    BY <1>5 DEF RecordApplying, RecordPhase, IInv, RequestInv
  <2>2. QED
    BY <1>5, <2>1, RecordPromise DEF Promise!Next
<1>6. ASSUME Environment PROVE Promise!Next \/ UNCHANGED Promise!vars
  <2>1. ASSUME NEW a \in Approvals, Expire(a) PROVE UNCHANGED Promise!vars
    BY <2>1, QuietPromise DEF Expire, cloudVars
  <2>2. ASSUME NEW a \in Approvals, NEW r \in Revisions, Propose(a, r)
        PROVE  Promise!Next
    BY <2>2, ProposePromise DEF Promise!Next
  <2>3. ASSUME NEW r \in Revisions, Deploy(r) PROVE Promise!Next
    <3>1. \A a \in Approvals : Shift(a)' = Shift(a)
      BY <2>3, SameShift DEF Deploy
    <3>2. Promise!Deploy(r)
      BY <2>3, <3>1 DEF Deploy, Promise!Deploy
    <3>3. QED
      BY <3>2 DEF Promise!Next
  <2>4. ASSUME ToggleTag PROVE UNCHANGED Promise!vars
    BY <2>4, QuietPromise DEF ToggleTag
  <2>5. ASSUME NEW o \in Ops, NEW s \in {"succeeded", "failed", "malformed"},
               OpFinish(o, s)
        PROVE  Promise!Next
    BY <2>5, FinishPromise DEF Promise!Next
  <2>6. QED
    BY <1>6, <2>1, <2>2, <2>3, <2>4, <2>5 DEF Environment
<1>7. CASE UNCHANGED vars
  BY <1>7, QuietPromise DEF vars
<1>8. QED
  BY <1>1, <1>2, <1>3, <1>4, <1>5, <1>6, <1>7 DEF Next, Work

\* The documents, requests, crashes and reconciles of the lane implement the
\* one-shot credential of OneShotRollback.
THEOREM Refinement == Spec => KeepsPromise
<1>1. Init => Promise!Init
  BY InitPromise
<1>2. IInv /\ IInv' /\ [Next]_vars => [Promise!Next]_(Promise!vars)
  BY NextPromise
<1>3. QED
  BY <1>1, <1>2, Invariance, PTL DEF Spec, Promise!Spec, KeepsPromise
=============================================================================
