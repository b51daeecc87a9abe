---------------------------- MODULE RecheckProofs ---------------------------
(***************************************************************************)
(* What holds of the recheck pipeline for any number of environments,      *)
(* instances, requests, deploys and failures, and, at the end, of the      *)
(* trigger that starts it.                                                 *)
(***************************************************************************)
EXTENDS Recheck, Eventarc, FiniteSetTheorems, WellFoundedInduction, TLAPS

Late == {"evict", "reread", "claim", "act", "record", "release"}

\* A request past the cache lookup was admitted on one observation that is
\* about its key, and its proposal was validated against it.
Admitted ==
  \A h \in Requests :
    /\ req[h].step \in LoopSteps => req[h].act \in Actions /\ req[h].key \in Envs
    /\ req[h].step = "lookup" /\ req[h].post # None =>
         req[h].post.env = req[h].key
    /\ req[h].step \in Late =>
         /\ req[h].post \in World
         /\ req[h].seen = {req[h].post}
         /\ req[h].post.env = req[h].key
         /\ Validated(req[h])

\* What a request is about to evict is a row, and never a live approval.
EvictsStale ==
  \A h \in Requests :
    req[h].step = "evict" => /\ req[h].stale \in DOMAIN decisions
                             /\ decisions[req[h].stale].approval # "live"

\* The event document of a held key is the holder's: a bare claim or, once
\* record_decision has committed behind its back, the pointer to its own row,
\* whose approval is live.
HeldByHolder ==
  \A h \in Requests, k \in Envs :
    Holds(h, k) =>
      /\ events[k] = [claimed |-> TRUE, row |-> req[h].row]
      /\ req[h].row # 0 => /\ req[h].step = "release"
                           /\ req[h].row \in DOMAIN decisions
                           /\ decisions[req[h].row].approval = "live"

\* Before it releases a key a request in progress has no row.
NoRowYet == \A h \in Requests : req[h].step \notin {"idle", "release"} =>
                                  req[h].row = 0

\* A pointer leads to a row of its key.
Pointed == \A k \in Envs :
             events[k].row # 0 => /\ events[k].claimed
                                  /\ events[k].row \in DOMAIN decisions
                                  /\ decisions[events[k].row].key = k

\* A recorded rollback is about a violation that was observed, and nothing
\* else has an approval.
Grounded ==
  \A i \in DOMAIN decisions :
    /\ decisions[i].act = "rollback" => decisions[i].about \in Violating
    /\ decisions[i].approval = "live" => decisions[i].act = "rollback"

\* As long as no acknowledgement is lost, a live approval is pointed to.
LiveIsPointed ==
  ~AckLost => /\ \A i \in DOMAIN decisions :
                   decisions[i].approval = "live" =>
                     events[decisions[i].key].row = i
              /\ \A h \in Requests : req[h].step = "release" => req[h].row = 0

IInv == /\ TypeOK /\ Admitted /\ EvictsStale /\ HeldByHolder /\ NoRowYet
        /\ Pointed /\ Grounded /\ LiveIsPointed
        /\ OneHolder /\ AboutItsKey

\* The initial states satisfy the invariant.
LEMMA InitInvariant == Init => IInv
<1> SUFFICES ASSUME Init PROVE IInv
  OBVIOUS
<1> USE ConstantsAssumption DEF Init
<1>1. \A h \in Requests : req[h] = NoRequest
  OBVIOUS
<1>2. NoRequest \in Request
  BY DEF NoRequest, Request, Steps, Modes, Answers
<1>3. Free \in Event
  BY DEF Free, Event
<1>4. world \in World
  BY DEF World, NoRevision
<1>5. TypeOK
  BY <1>2, <1>3, <1>4 DEF TypeOK, Modes, Many
<1>6. Admitted /\ EvictsStale /\ HeldByHolder /\ NoRowYet /\ OneHolder
  BY <1>1 DEF NoRequest, Admitted, EvictsStale, HeldByHolder, NoRowYet,
              OneHolder, Holds, LoopSteps, Steps, Late
<1>7. Pointed /\ AboutItsKey /\ Grounded /\ LiveIsPointed
  BY <1>1 DEF Pointed, AboutItsKey, Free, Grounded, LiveIsPointed, NoRequest
<1> QED BY <1>5, <1>6, <1>7 DEF IInv

\* A step of one request that leaves the store alone and neither takes nor
\* gives up a key preserves the invariant if its own record stays in order.
LEMMA LocalStep ==
  ASSUME IInv, NEW h \in Requests, NEW r \in Request,
         req' = [req EXCEPT ![h] = r],
         UNCHANGED <<events, decisions>>,
         world' \in World, dial' \in Modes,
         artifacts' \in [Envs -> 0..Many], crashes' \in 0..MaxCrashes,
         r.step \in LoopSteps => r.act \in Actions /\ r.key \in Envs,
         r.step = "lookup" /\ r.post # None => r.post.env = r.key,
         r.step \in Late => /\ r.post \in World /\ r.seen = {r.post}
                           /\ r.post.env = r.key /\ Validated(r),
         r.step = "evict" => /\ r.stale \in DOMAIN decisions
                             /\ decisions[r.stale].approval # "live",
         r.step # "idle" => r.row = 0, req[h].step # "release",
         \A k \in Envs : Holds(h, k) <=>
           r.step \in {"act", "record", "release"} /\ r.key = k
  PROVE  IInv'
<1> USE DEF IInv
<1>1. req' \in [Requests -> Request]
  BY DEF TypeOK
<1>2. req'[h] = r /\ \A g \in Requests \ {h} : req'[g] = req[g]
  BY DEF TypeOK
<1>3. TypeOK'
  BY <1>1 DEF TypeOK
<1>4. \A g \in Requests, k \in Envs : Holds(g, k)' <=> Holds(g, k)
  BY <1>2 DEF Holds
<1>5. Admitted'
  BY <1>2 DEF Admitted, Validated
<1>6. EvictsStale'
  BY <1>2 DEF EvictsStale
<1>7. \A k \in Envs : Holds(h, k) => r.row = 0 /\ req[h].row = 0
  BY DEF NoRowYet, Holds, LoopSteps, Steps
<1>8. HeldByHolder'
  <2> SUFFICES ASSUME NEW g \in Requests, NEW k \in Envs, Holds(g, k)'
               PROVE  /\ events[k] = [claimed |-> TRUE, row |-> req'[g].row]
                      /\ req'[g].row # 0 =>
                           /\ req'[g].step = "release"
                           /\ req'[g].row \in DOMAIN decisions
                           /\ decisions[req'[g].row].approval = "live"
    BY DEF HeldByHolder
  <2>1. Holds(g, k)
    BY <1>4
  <2>2. CASE g = h
    BY <1>2, <1>7, <2>1, <2>2 DEF HeldByHolder
  <2>3. CASE g # h
    BY <1>2, <2>1, <2>3 DEF HeldByHolder
  <2> QED BY <2>2, <2>3
<1>11. NoRowYet'
  BY <1>2 DEF NoRowYet
<1>9. OneHolder'
  BY <1>4 DEF OneHolder
<1>10. Pointed' /\ AboutItsKey' /\ Grounded'
  BY DEF Pointed, AboutItsKey, Grounded
<1>12. LiveIsPointed'
  BY <1>2 DEF LiveIsPointed
<1> QED BY <1>3, <1>5, <1>6, <1>8, <1>9, <1>10, <1>11, <1>12

\* Ending a request that holds nothing is a local step.
LEMMA AnswerStep ==
  ASSUME IInv, NEW h \in Requests, NEW a \in Answers, NEW i \in {0} \cup Rows,
         Answer(h, a, i), req[h].step \notin {"act", "record", "release"},
         UNCHANGED <<storeVars, rest>>
  PROVE  IInv'
<1> DEFINE r == [req[h] EXCEPT !.step = "idle", !.seen = {}, !.post = None,
                               !.key = None, !.stale = 0, !.row = i,
                               !.answer = a]
<1>1. req[h] \in Request
  BY DEF IInv, TypeOK
<1>2. r \in Request
  BY <1>1 DEF Request, Steps, Rows
<1>3. req' = [req EXCEPT ![h] = r]
  BY DEF Answer
<1>4. r.step = "idle"
  BY <1>1 DEF Request
<1>5. \A k \in Envs : ~Holds(h, k)
  BY DEF Holds
<1>6. TypeOK
  BY DEF IInv
<1> HIDE DEF r
<1>7. UNCHANGED <<events, decisions, world, dial, artifacts, crashes>>
  BY DEF storeVars, rest
<1> QED
  BY <1>2, <1>3, <1>4, <1>5, <1>6, <1>7, LocalStep DEF TypeOK, LoopSteps, Late

\* A request in its turn, and the lookup that follows it.
LEMMA TurnSteps ==
  ASSUME IInv, NEW h \in Requests,
         Arrive(h) \/ AgentRead(h) \/ PostRead(h)
  PROVE  IInv'
<1> USE ConstantsAssumption
<1>1. req[h] \in Request /\ world \in World /\ dial \in Modes /\ TypeOK
  BY DEF IInv, TypeOK
<1>2. UNCHANGED <<events, decisions, world, dial, artifacts, crashes>>
  BY DEF Arrive, AgentRead, PostRead, storeVars, rest
<1>3. req[h].step \in {"idle", "turn"} /\ \A k \in Envs : ~Holds(h, k)
  BY DEF Arrive, AgentRead, PostRead, At, Holds
<1>4. CASE Arrive(h)
  <2>1. PICK m \in {dial, "observe"} :
          req' = [req EXCEPT ![h] = [NoRequest EXCEPT !.step = "turn",
                                                      !.mode = m]]
    BY <1>4 DEF Arrive
  <2> DEFINE r == [NoRequest EXCEPT !.step = "turn", !.mode = m]
  <2>2. m \in Modes
    BY <1>1 DEF Modes
  <2>3. r \in Request /\ r.step = "turn" /\ r.row = 0
    BY <2>2 DEF NoRequest, Request, Steps, Rows, Answers
  <2>4. req' = [req EXCEPT ![h] = r]
    BY <2>1
  <2> HIDE DEF r
  <2> QED BY <1>1, <1>2, <1>3, <2>3, <2>4, LocalStep DEF TypeOK, LoopSteps, Late
<1>5. CASE AgentRead(h)
  <2> DEFINE r == [req[h] EXCEPT !.seen = @ \cup {world}]
  <2>1. req' = [req EXCEPT ![h] = r]
    BY <1>5 DEF AgentRead
  <2>2. r \in Request /\ r.step = "turn" /\ r.row = 0
    BY <1>1, <1>5 DEF Request, AgentRead, At, IInv, NoRowYet
  <2> HIDE DEF r
  <2> QED BY <1>1, <1>2, <1>3, <2>1, <2>2, LocalStep DEF TypeOK, LoopSteps, Late
<1>6. CASE PostRead(h)
  <2>1. PICK act \in Actions, e \in Envs, o \in {world, None} :
          /\ o # None => e = world.env
          /\ req' = [req EXCEPT ![h].step = "lookup", ![h].act = act,
                                ![h].post = o, ![h].key = e]
    BY <1>6 DEF PostRead
  <2> DEFINE r == [req[h] EXCEPT !.step = "lookup", !.act = act,
                                 !.post = o, !.key = e]
  <2>2. req' = [req EXCEPT ![h] = r]
    BY <1>1, <2>1 DEF TypeOK, Request
  <2>3. r \in Request
    BY <1>1 DEF Request, Steps
  <2>4. /\ r.step = "lookup" /\ r.act = act /\ r.post = o /\ r.key = e
        /\ r.row = req[h].row
    BY <1>1 DEF Request
  <2>5. req[h].row = 0
    BY <1>6 DEF PostRead, At, IInv, NoRowYet
  <2> HIDE DEF r
  <2> QED
    BY <1>1, <1>2, <1>3, <2>1, <2>2, <2>3, <2>4, <2>5, LocalStep
    DEF TypeOK, LoopSteps, Late, World
<1> QED BY <1>4, <1>5, <1>6

\* A non-empty set of numbers up to n has a largest element.
LEMMA Largest ==
  ASSUME NEW n \in Nat, NEW S \in SUBSET (1..n), S # {}
  PROVE  \E i \in S : \A j \in S : j <= i
<1> DEFINE R == OpToRel(<, Nat)
           T == {n - i : i \in S}
<1>1. \A x, y \in Nat : x < y => <<x, y>> \in R
  BY DEF OpToRel
<1> HIDE DEF R
<1>2. T \subseteq Nat /\ T # {}
  <2>1. \A i \in S : n - i \in Nat
    OBVIOUS
  <2>2. \A i \in S : n - i \in T
    OBVIOUS
  <2> QED BY <2>1, <2>2
<1>3. \E x \in T : \A y \in T : ~(<<y, x>> \in R)
  <2> HIDE DEF T
  <2> IsWellFoundedOn(R, Nat)
    BY NatLessThanWellFounded DEF R
  <2> QED BY <1>2, WFMin
<1>4. PICK x \in T : \A y \in T : ~(y < x)
  BY <1>1, <1>2, <1>3
<1>5. PICK i \in S : x = n - i
  OBVIOUS
<1>6. \A j \in S : j <= i
  BY <1>4, <1>5
<1> QED BY <1>6

\* find_decision_for_event answers a row of the key or nothing.
LEMMA FindType ==
  ASSUME TypeOK, Pointed, NEW k \in Envs
  PROVE  LET i == FindDecision(k)
         IN  i # 0 => i \in DOMAIN decisions /\ decisions[i].key = k
<1> DEFINE same == {i \in DOMAIN decisions : decisions[i].key = k}
<1>1. CASE events[k].row # 0
  BY <1>1 DEF FindDecision, Pointed
<1>2. CASE events[k].row = 0 /\ same = {}
  BY <1>2 DEF FindDecision
<1>3. CASE events[k].row = 0 /\ same # {}
  <2>1. Len(decisions) \in Nat /\ DOMAIN decisions = 1..Len(decisions)
    BY DEF TypeOK
  <2>2. same \in SUBSET (1..Len(decisions))
    BY <2>1
  <2>3. \E i \in same : \A j \in same : j <= i
    <3> HIDE DEF same
    <3> QED BY <1>3, <2>1, <2>2, Largest
  <2>4. FindDecision(k) = CHOOSE i \in same : \A j \in same : j <= i
    BY <1>3 DEF FindDecision
  <2>5. FindDecision(k) \in same
    <3> HIDE DEF same
    <3> QED BY <2>3, <2>4
  <2> QED BY <2>5
<1> QED BY <1>1, <1>2, <1>3

\* A step of one request, its key's event document and at most one new row,
\* where nobody else holds the key: what the writers of the store have in
\* common.
LEMMA KeyStep ==
  ASSUME IInv, NEW h \in Requests, NEW k \in Envs,
         NEW r \in Request, NEW e \in Event,
         req' = [req EXCEPT ![h] = r],
         events' = [events EXCEPT ![k] = e],
         UNCHANGED <<world, dial, artifacts, crashes>>,
         decisions' \in Seq(Decision), Len(decisions') <= MaxDecisions,
         \A i \in DOMAIN decisions :
           i \in DOMAIN decisions' /\ decisions'[i] = decisions[i],
         \A i \in DOMAIN decisions' \ DOMAIN decisions :
           /\ decisions'[i].key = k /\ decisions'[i].about = k
           /\ decisions'[i].act = "rollback" => k \in Violating
           /\ decisions'[i].approval = "live" => decisions'[i].act = "rollback",
         ~AckLost => \A i \in DOMAIN decisions' :
           decisions'[i].key = k /\ decisions'[i].approval = "live" => e.row = i,
         \A g \in Requests \ {h} : ~Holds(g, k),
         \A kk \in Envs : Holds(h, kk) => kk = k,
         r.step \in LoopSteps => r.act \in Actions /\ r.key = k,
         r.step # "lookup", r.step # "evict",
         r.step \in Late => /\ r.post \in World /\ r.seen = {r.post}
                           /\ r.post.env = r.key /\ Validated(r),
         r.step \notin {"idle", "release"} => r.row = 0,
         ~AckLost /\ r.step = "release" => r.row = 0,
         r.step \in {"act", "record", "release"} =>
           /\ e = [claimed |-> TRUE, row |-> r.row]
           /\ r.row # 0 => /\ r.step = "release"
                           /\ decisions'[r.row].approval = "live",
         e.row # 0 => /\ e.claimed
                      /\ e.row \in DOMAIN decisions'
                      /\ decisions'[e.row].key = k
  PROVE  IInv'
<1> USE DEF IInv
<1>1. req' \in [Requests -> Request]
  BY DEF TypeOK
<1>2. req'[h] = r /\ \A g \in Requests \ {h} : req'[g] = req[g]
  BY DEF TypeOK
<1>3. events' \in [Envs -> Event]
  BY DEF TypeOK
<1>4. events'[k] = e /\ \A kk \in Envs \ {k} : events'[kk] = events[kk]
  BY DEF TypeOK
<1>5. TypeOK'
  BY <1>1, <1>3 DEF TypeOK
<1>6. /\ \A g \in Requests \ {h}, kk \in Envs : Holds(g, kk)' <=> Holds(g, kk)
      /\ \A kk \in Envs : Holds(h, kk)' => kk = k
      /\ Holds(h, k)' <=> r.step \in {"act", "record", "release"}
  BY <1>2 DEF Holds, LoopSteps, Steps
<1>7. Admitted'
  BY <1>2 DEF Admitted, Validated
<1>8. EvictsStale'
  BY <1>2 DEF EvictsStale
<1>9. HeldByHolder'
  <2> SUFFICES ASSUME NEW g \in Requests, NEW kk \in Envs, Holds(g, kk)'
               PROVE  /\ events'[kk] = [claimed |-> TRUE, row |-> req'[g].row]
                      /\ req'[g].row # 0 =>
                           /\ req'[g].step = "release"
                           /\ req'[g].row \in DOMAIN decisions'
                           /\ decisions'[req'[g].row].approval = "live"
    BY DEF HeldByHolder
  <2>1. CASE g = h
    <3>1. kk = k /\ r.step \in {"act", "record", "release"}
      BY <1>6, <2>1
    <3>2. r.row # 0 => r.row \in DOMAIN decisions'
      BY <3>1
    <3>3. events'[kk] = [claimed |-> TRUE, row |-> r.row]
      BY <1>4, <3>1
    <3>4. req'[g].row = r.row /\ req'[g].step = r.step
      BY <1>2, <2>1
    <3> HIDE DEF IInv
    <3> QED BY <3>1, <3>2, <3>3, <3>4
  <2>2. CASE g # h
    <3>1. Holds(g, kk) /\ kk # k
      BY <1>6, <2>2
    <3> QED BY <1>2, <1>4, <2>2, <3>1 DEF HeldByHolder
  <2> QED BY <2>1, <2>2
<1>10. NoRowYet'
  BY <1>2 DEF NoRowYet
<1>11. Pointed'
  BY <1>4 DEF Pointed
<1>12. Grounded' /\ AboutItsKey'
  BY DEF Grounded, AboutItsKey
<1>13. LiveIsPointed'
  <2> SUFFICES ASSUME ~AckLost
               PROVE  /\ \A i \in DOMAIN decisions' :
                           decisions'[i].approval = "live" =>
                             events'[decisions'[i].key].row = i
                      /\ \A g \in Requests :
                           req'[g].step = "release" => req'[g].row = 0
    BY DEF LiveIsPointed
  <2>1. ASSUME NEW i \in DOMAIN decisions', decisions'[i].approval = "live"
        PROVE  events'[decisions'[i].key].row = i
    <3>1. CASE decisions'[i].key = k
      BY <1>4, <2>1, <3>1
    <3>2. CASE decisions'[i].key # k
      <4>1. i \in DOMAIN decisions /\ decisions'[i] = decisions[i]
        BY <2>1, <3>2
      <4>2. decisions[i].key \in Envs
        <5>1. decisions \in Seq(Decision)
          BY DEF TypeOK
        <5>2. decisions[i] \in Decision
          BY <4>1, <5>1
        <5> QED BY <5>2 DEF Decision
      <4> QED BY <1>4, <2>1, <3>2, <4>1, <4>2 DEF LiveIsPointed
    <3> QED BY <3>1, <3>2
  <2> QED BY <1>2, <2>1 DEF LiveIsPointed
<1>14. OneHolder'
  BY <1>6 DEF OneHolder
<1> HIDE DEF IInv
<1> QED
  BY <1>5, <1>7, <1>8, <1>9, <1>10, <1>11, <1>12, <1>13, <1>14 DEF IInv

\* The lookup either ends the request or admits it.
LEMMA LookupStep ==
  ASSUME IInv, NEW h \in Requests, Lookup(h)
  PROVE  IInv'
<1> DEFINE q == req[h]
           i == FindDecision(q.key)
<1>1. /\ q \in Request /\ q.step = "lookup" /\ q.row = 0
      /\ q.key \in Envs /\ q.act \in Actions
      /\ q.post # None => q.post.env = q.key
      /\ TypeOK /\ Pointed /\ Grounded
  BY DEF Lookup, At, IInv, TypeOK, NoRowYet, Admitted, LoopSteps, Steps
<1>2. UNCHANGED <<storeVars, rest>>
  BY DEF Lookup
<1>3. i \in {0} \cup DOMAIN decisions
  BY <1>1, FindType
<1>4. DOMAIN decisions \subseteq Rows
  BY <1>1, ConstantsAssumption DEF TypeOK, Rows
<1>5. ASSUME NEW a \in Answers, NEW j \in {0, i}, Answer(h, a, j)
      PROVE  IInv'
  <2>1. j \in {0} \cup Rows
    BY <1>3, <1>4
  <2> QED BY <1>1, <1>2, <1>5, <2>1, AnswerStep
<1>6. ASSUME ~NeedsGroundTruth(q, i), ~Servable(q, i), Validated(q), Confirmed(q),
             req' = [req EXCEPT ![h].stale = i,
                                ![h].step = IF i = 0 THEN "claim" ELSE "evict"]
      PROVE  IInv'
  <2> DEFINE s == IF i = 0 THEN "claim" ELSE "evict"
             r == [q EXCEPT !.stale = i, !.step = s]
  <2>1. r \in Request
    BY <1>1, <1>3, <1>4 DEF Request, Steps
  <2>2. req' = [req EXCEPT ![h] = r]
    BY <1>1, <1>6 DEF TypeOK, Request
  <2>3. /\ r.step = s /\ r.stale = i /\ r.post = q.post /\ r.seen = q.seen
        /\ r.key = q.key /\ r.act = q.act /\ r.row = q.row
    BY <1>1 DEF Request
  <2>4. q.post \in World /\ q.seen = {q.post} /\ q.post.env = q.key
    BY <1>1, <1>6 DEF Confirmed, Request
  <2>5. i # 0 => decisions[i].approval # "live"
    BY <1>1, <1>3, <1>6 DEF Servable, Stale, Grounded
  <2>6. Validated(r)
    BY <1>6, <2>3 DEF Validated
  <2>7. s \in {"claim", "evict"} /\ (s = "evict" => i # 0)
    OBVIOUS
  <2>8. UNCHANGED <<events, decisions, world, dial, artifacts, crashes>>
    BY <1>2 DEF storeVars, rest
  <2>9. \A k \in Envs : ~Holds(h, k)
    BY <1>1 DEF Holds
  <2> HIDE DEF r, s, i
  <2> QED
    BY <1>1, <1>3, <2>1, <2>2, <2>3, <2>4, <2>5, <2>6, <2>7, <2>8, <2>9, LocalStep
    DEF TypeOK, LoopSteps, Late
<1>7. {"refused", "served", "conflict"} \subseteq Answers
  BY DEF Answers
<1> HIDE DEF i
<1> QED BY <1>5, <1>6, <1>7 DEF Lookup, i

\* Rereading the key ends the request.
LEMMA RereadStep ==
  ASSUME IInv, NEW h \in Requests, Reread(h)
  PROVE  IInv'
<1> DEFINE i == FindDecision(req[h].key)
<1>1. /\ req[h].step = "reread" /\ req[h].key \in Envs
      /\ TypeOK /\ Pointed
  BY DEF Reread, At, IInv, Admitted, LoopSteps, Steps
<1>2. i \in {0} \cup Rows
  <2>1. i \in {0} \cup DOMAIN decisions
    BY <1>1, FindType
  <2> QED BY <1>1, <2>1, ConstantsAssumption DEF TypeOK, Rows
<1>3. PICK a \in Answers, j \in {0, i} : Answer(h, a, j)
  <2>1. {"refused", "served", "conflict"} \subseteq Answers
    BY DEF Answers
  <2> QED BY <2>1 DEF Reread
<1>4. UNCHANGED <<storeVars, rest>>
  BY DEF Reread
<1>5. j \in {0} \cup Rows
  BY <1>2
<1> QED BY <1>1, <1>3, <1>4, <1>5, AnswerStep

\* So does a failure before the claim.
LEMMA FailsStep ==
  ASSUME IInv, NEW h \in Requests, Fails(h)
  PROVE  IInv'
<1>1. req[h].step \notin {"act", "record", "release"} /\ Answer(h, "error", 0)
  BY DEF Fails, At
<1>2. "error" \in Answers /\ 0 \in {0} \cup Rows
  BY DEF Answers
<1>3. UNCHANGED <<storeVars, rest>>
  BY DEF Fails
<1> QED BY <1>1, <1>2, <1>3, AnswerStep

\* What an admitted request knows of itself.
LEMMA LateFacts ==
  ASSUME IInv, NEW h \in Requests, req[h].step \in Late
  PROVE  /\ req[h] \in Request /\ req[h].act \in Actions /\ req[h].key \in Envs
         /\ req[h].post \in World /\ req[h].seen = {req[h].post}
         /\ req[h].post.env = req[h].key /\ Validated(req[h])
         /\ req[h].step # "release" => req[h].row = 0
  BY DEF IInv, TypeOK, Admitted, NoRowYet, Late, LoopSteps, Steps

\* An admitted request moves on without touching the store or its claim.
LEMMA GotoStep ==
  ASSUME IInv, NEW h \in Requests, NEW step, Goto(h, step),
         \/ req[h].step \in {"evict", "claim"} /\ step \in {"claim", "reread"}
         \/ req[h].step = "act" /\ step \in {"record", "release"},
         UNCHANGED <<events, decisions, world, dial, crashes>>,
         artifacts' \in [Envs -> 0..Many]
  PROVE  IInv'
<1> DEFINE q == req[h]
           r == [q EXCEPT !.step = step]
<1>1. q.step \in Late /\ TypeOK
  BY DEF Late, IInv
<1>2. /\ q \in Request /\ q.act \in Actions /\ q.key \in Envs
      /\ q.post \in World /\ q.seen = {q.post}
      /\ q.post.env = q.key /\ Validated(q) /\ q.step # "release" /\ q.row = 0
  <2>1. q.step # "release"
    OBVIOUS
  <2> QED BY <1>1, <2>1, LateFacts
<1>3. step \in {"claim", "reread", "record", "release"}
  OBVIOUS
<1>4. r \in Request
  BY <1>2, <1>3 DEF Request, Steps
<1>5. req' = [req EXCEPT ![h] = r]
  BY <1>1 DEF Goto, TypeOK
<1>6. /\ r.step = step /\ r.post = q.post /\ r.seen = q.seen /\ r.key = q.key
      /\ r.act = q.act /\ r.row = q.row
  BY <1>2 DEF Request
<1>7. Validated(r)
  BY <1>2, <1>6 DEF Validated
<1>8. \A k \in Envs : Holds(h, k) <=> step \in {"act", "record", "release"}
                                      /\ q.key = k
  BY DEF Holds
<1>9. /\ step # "lookup" /\ step # "evict"
  BY <1>3
<1> HIDE DEF r, q
<1>10. req[h].step # "release"
  BY <1>2 DEF q
<1> QED
  BY <1>1, <1>2, <1>3, <1>4, <1>5, <1>6, <1>7, <1>8, <1>9, <1>10, LocalStep
  DEF TypeOK

\* No two requests hold a key.
LEMMA SoleHolder ==
  ASSUME IInv, NEW h \in Requests,
         req[h].step \in {"act", "record", "release"}
  PROVE  /\ req[h].key \in Envs /\ Holds(h, req[h].key)
         /\ \A g \in Requests \ {h} : ~Holds(g, req[h].key)
         /\ \A k \in Envs : Holds(h, k) => k = req[h].key
<1>1. req[h].key \in Envs
  BY LateFacts DEF Late
<1>2. Holds(h, req[h].key)
  BY DEF Holds
<1>3. \A k \in Envs : Holds(h, k) => k = req[h].key
  BY DEF Holds
<1> QED BY <1>1, <1>2, <1>3 DEF IInv, OneHolder

\* The record an answered request leaves.
LEMMA AnswerRecord ==
  ASSUME TypeOK, NEW h \in Requests, NEW a \in Answers, NEW i \in {0} \cup Rows,
         Answer(h, a, i)
  PROVE  \E r \in Request : r.step = "idle" /\ r.row = i
                            /\ req' = [req EXCEPT ![h] = r]
<1> DEFINE r == [req[h] EXCEPT !.step = "idle", !.seen = {}, !.post = None,
                               !.key = None, !.stale = 0, !.row = i,
                               !.answer = a]
<1>1. req[h] \in Request
  BY DEF TypeOK
<1>2. r \in Request
  BY <1>1 DEF Request, Steps, Rows
<1>3. req' = [req EXCEPT ![h] = r]
  BY DEF Answer
<1>4. r.step = "idle" /\ r.row = i
  BY <1>1 DEF Request
<1> HIDE DEF r
<1> QED BY <1>2, <1>3, <1>4

\* A holder that ends without a word to the store leaves its claim behind.
LEMMA LeaveStep ==
  ASSUME IInv, NEW h \in Requests, NEW a \in Answers,
         req[h].step \in {"act", "record", "release"}
  PROVE  /\ Answer(h, a, 0)
         /\ UNCHANGED <<events, decisions, world, dial, artifacts, crashes>>
         => IInv'
<1> DEFINE k == req[h].key
           e == events[k]
<1>1. ASSUME Answer(h, a, 0),
             UNCHANGED <<events, decisions, world, dial, artifacts, crashes>>
      PROVE  IInv'
  <2>1. TypeOK
    BY DEF IInv
  <2>2. PICK r \in Request : r.step = "idle" /\ req' = [req EXCEPT ![h] = r]
    BY <1>1, <2>1, AnswerRecord
  <2>3. /\ k \in Envs /\ Holds(h, k) /\ \A g \in Requests \ {h} : ~Holds(g, k)
        /\ \A kk \in Envs : Holds(h, kk) => kk = k
    BY SoleHolder
  <2>4. e \in Event /\ events' = [events EXCEPT ![k] = e]
    BY <1>1, <2>1, <2>3 DEF TypeOK
  <2>5. decisions' \in Seq(Decision) /\ Len(decisions') <= MaxDecisions
    BY <1>1, <2>1 DEF TypeOK
  <2>6. e.row # 0 => /\ e.claimed /\ e.row \in DOMAIN decisions
                     /\ decisions[e.row].key = k
    BY <2>3 DEF IInv, Pointed
  <2>7. ~AckLost => \A i \in DOMAIN decisions :
          decisions[i].key = k /\ decisions[i].approval = "live" => e.row = i
    BY DEF IInv, LiveIsPointed
  <2>8. UNCHANGED <<decisions, world, dial, artifacts, crashes>>
    BY <1>1
  <2> HIDE DEF k, e
  <2> QED
    BY <2>2, <2>3, <2>4, <2>5, <2>6, <2>7, <2>8, KeyStep DEF LoopSteps, Late
<1> QED BY <1>1

\* Proposing to the worker and acting on GitHub.
LEMMA ActStep ==
  ASSUME IInv, NEW h \in Requests, Propose(h) \/ Perform(h)
  PROVE  IInv'
<1>1. req[h].step = "act" /\ TypeOK
  BY DEF Propose, Perform, At, IInv
<1>2. UNCHANGED <<events, decisions, world, dial, crashes>>
  BY DEF Propose, Perform, storeVars, rest
<1>3. \/ \E step \in {"record", "release"} : Goto(h, step)
      \/ Answer(h, "error", 0) /\ UNCHANGED artifacts
  BY DEF Propose, Perform, rest
<1>4. artifacts' \in [Envs -> 0..Many]
  <2>1. CASE Propose(h)
    BY <1>1, <2>1 DEF Propose, rest, TypeOK
  <2>2. CASE Perform(h)
    <3>1. req[h].key \in Envs
      BY <1>1, LateFacts DEF Late
    <3>2. artifacts[req[h].key] \in 0..Many
      BY <1>1, <3>1 DEF TypeOK
    <3> DEFINE n(opened) == IF opened /\ artifacts[req[h].key] < Many
                            THEN artifacts[req[h].key] + 1
                            ELSE artifacts[req[h].key]
    <3>3. PICK opened \in BOOLEAN :
            artifacts' = [artifacts EXCEPT ![req[h].key] = n(opened)]
      BY <2>2 DEF Perform
    <3>4. n(opened) \in 0..Many
      BY <3>2 DEF Many
    <3> HIDE DEF n
    <3> QED BY <1>1, <3>3, <3>4 DEF TypeOK
  <2> QED BY <2>1, <2>2
<1>5. CASE \E step \in {"record", "release"} : Goto(h, step)
  BY <1>1, <1>2, <1>4, <1>5, GotoStep
<1>6. CASE Answer(h, "error", 0) /\ UNCHANGED artifacts
  BY <1>1, <1>2, <1>6, LeaveStep DEF Answers
<1> QED BY <1>3, <1>5, <1>6

\* Evicting the row a request was admitted against, or failing to.
LEMMA EvictStep ==
  ASSUME IInv, NEW h \in Requests, Evict(h)
  PROVE  IInv'
<1> DEFINE q == req[h]
           k == q.key
<1>1. q.step = "evict" /\ TypeOK
  BY DEF Evict, At, IInv
<1>2. /\ q \in Request /\ q.act \in Actions /\ k \in Envs
      /\ q.post \in World /\ q.seen = {q.post}
      /\ q.post.env = k /\ Validated(q) /\ q.row = 0
  BY <1>1, LateFacts DEF Late
<1>3. UNCHANGED <<decisions, world, dial, artifacts, crashes>>
  BY DEF Evict, rest
<1>4. CASE ~Evictable(k, q.stale)
  <2>1. Goto(h, "reread") /\ UNCHANGED <<events, artifacts>>
    BY <1>3, <1>4 DEF Evict
  <2> QED BY <1>1, <1>3, <2>1, GotoStep DEF TypeOK
<1>5. CASE Evictable(k, q.stale)
  <2> DEFINE r == [q EXCEPT !.step = "claim"]
  <2>1. events' = [events EXCEPT ![k] = Free] /\ req' = [req EXCEPT ![h] = r]
    BY <1>1, <1>5 DEF Evict, Goto, TypeOK
  <2>2. r \in Request
    BY <1>2 DEF Request, Steps
  <2>3. /\ r.step = "claim" /\ r.post = q.post /\ r.seen = q.seen /\ r.key = k
        /\ r.act = q.act /\ r.row = 0
    BY <1>2 DEF Request
  <2>4. Validated(r)
    BY <1>2, <2>3 DEF Validated
  <2>5. Free \in Event /\ ~Free.claimed /\ Free.row = 0
    BY DEF Free, Event
  <2>6. \A kk \in Envs : ~Holds(h, kk)
    BY <1>1 DEF Holds
  <2>7. \A g \in Requests \ {h} : ~Holds(g, k)
    <3> SUFFICES ASSUME NEW g \in Requests \ {h}, Holds(g, k) PROVE FALSE
      OBVIOUS
    <3>1. /\ events[k] = [claimed |-> TRUE, row |-> req[g].row]
          /\ req[g].row # 0 => decisions[req[g].row].approval = "live"
      BY <1>2 DEF IInv, HeldByHolder
    <3>2. events[k].row = q.stale
      BY <1>5, <3>1 DEF Evictable
    <3>3. q.stale \in DOMAIN decisions /\ decisions[q.stale].approval # "live"
      BY <1>1 DEF IInv, EvictsStale
    <3>4. DOMAIN decisions = 1..Len(decisions) /\ Len(decisions) \in Nat
      BY <1>1 DEF TypeOK
    <3> QED BY <3>1, <3>2, <3>3, <3>4
  <2>8. ~AckLost => \A i \in DOMAIN decisions :
          ~(decisions[i].key = k /\ decisions[i].approval = "live")
    <3> SUFFICES ASSUME ~AckLost, NEW i \in DOMAIN decisions,
                        decisions[i].key = k, decisions[i].approval = "live"
                 PROVE  FALSE
      OBVIOUS
    <3>1. events[k].row = i
      BY DEF IInv, LiveIsPointed
    <3>2. DOMAIN decisions = 1..Len(decisions) /\ Len(decisions) \in Nat
      BY <1>1 DEF TypeOK
    <3>3. events[k].claimed
      BY <1>2, <3>1, <3>2 DEF IInv, Pointed
    <3>4. decisions[q.stale].approval # "live"
      BY <1>1 DEF IInv, EvictsStale
    <3> QED BY <1>5, <3>1, <3>3, <3>4 DEF Evictable
  <2> HIDE DEF r, k, q
  <2>9. decisions' \in Seq(Decision) /\ Len(decisions') <= MaxDecisions
    BY <1>1, <1>3 DEF TypeOK
  <2> QED
    BY <1>1, <1>2, <1>3, <2>1, <2>2, <2>3, <2>4, <2>5, <2>6, <2>7, <2>8, <2>9,
       KeyStep DEF LoopSteps
<1> QED BY <1>4, <1>5

\* An unclaimed key has no holder and no live row.
LEMMA UnclaimedIsFree ==
  ASSUME IInv, NEW k \in Envs, ~events[k].claimed
  PROVE  /\ events[k] = Free
         /\ \A g \in Requests : ~Holds(g, k)
         /\ ~AckLost => \A i \in DOMAIN decisions :
              ~(decisions[i].key = k /\ decisions[i].approval = "live")
<1>1. events[k].row = 0
  BY DEF IInv, Pointed
<1>2. events[k] = Free
  BY <1>1 DEF IInv, TypeOK, Event, Free
<1>3. \A g \in Requests : ~Holds(g, k)
  <2> SUFFICES ASSUME NEW g \in Requests, Holds(g, k) PROVE FALSE
    OBVIOUS
  <2>1. events[k] = [claimed |-> TRUE, row |-> req[g].row]
    BY DEF IInv, HeldByHolder
  <2> QED BY <2>1
<1>4. ~AckLost => \A i \in DOMAIN decisions :
        ~(decisions[i].key = k /\ decisions[i].approval = "live")
  <2>1. DOMAIN decisions = 1..Len(decisions) /\ Len(decisions) \in Nat
    BY DEF IInv, TypeOK
  <2> QED BY <1>1, <2>1 DEF IInv, LiveIsPointed
<1> QED BY <1>2, <1>3, <1>4

\* Claiming the key, or learning that somebody did.
LEMMA ClaimStep ==
  ASSUME IInv, NEW h \in Requests, Claim(h)
  PROVE  IInv'
<1> DEFINE q == req[h]
           k == q.key
<1>1. q.step = "claim" /\ TypeOK
  BY DEF Claim, At, IInv
<1>2. /\ q \in Request /\ q.act \in Actions /\ k \in Envs
      /\ q.post \in World /\ q.seen = {q.post}
      /\ q.post.env = k /\ Validated(q) /\ q.row = 0
  BY <1>1, LateFacts DEF Late
<1>3. UNCHANGED <<decisions, world, dial, artifacts, crashes>>
  BY DEF Claim, rest
<1>4. \A kk \in Envs : ~Holds(h, kk)
  BY <1>1 DEF Holds
<1>5. decisions' \in Seq(Decision) /\ Len(decisions') <= MaxDecisions
  BY <1>1, <1>3 DEF TypeOK
<1> DEFINE e == [events[k] EXCEPT !.claimed = TRUE]
<1>6. ASSUME ~events[k].claimed
      PROVE  /\ e \in Event /\ e = [claimed |-> TRUE, row |-> 0]
             /\ \A g \in Requests : ~Holds(g, k)
             /\ ~AckLost => \A i \in DOMAIN decisions :
                  ~(decisions[i].key = k /\ decisions[i].approval = "live")
  <2>1. events[k] = Free
    BY <1>2, <1>6, UnclaimedIsFree
  <2>2. e = [claimed |-> TRUE, row |-> 0] /\ e \in Event
    <3>1. e = [Free EXCEPT !.claimed = TRUE]
      BY <2>1
    <3>2. e = [claimed |-> TRUE, row |-> 0]
      <4> HIDE DEF e
      <4> QED BY <3>1 DEF Free
    <3>3. [claimed |-> TRUE, row |-> 0] \in Event
      BY DEF Event
    <3> QED BY <3>2, <3>3
  <2> QED BY <1>2, <1>6, <2>2, UnclaimedIsFree
<1>7. CASE events[k].claimed
  <2>1. Goto(h, "reread") /\ UNCHANGED events
    BY <1>7 DEF Claim
  <2> QED BY <1>1, <1>3, <2>1, GotoStep DEF TypeOK
<1>8. ASSUME ~events[k].claimed, events' = [events EXCEPT ![k] = e],
             Goto(h, IF Suppressed(q) THEN "record" ELSE "act")
      PROVE  IInv'
  <2> DEFINE s == IF Suppressed(q) THEN "record" ELSE "act"
             r == [q EXCEPT !.step = s]
  <2>1. s \in {"record", "act"}
    OBVIOUS
  <2>2. r \in Request
    BY <1>2, <2>1 DEF Request, Steps
  <2>3. req' = [req EXCEPT ![h] = r]
    BY <1>1, <1>8 DEF Goto, TypeOK
  <2>4. /\ r.step = s /\ r.post = q.post /\ r.seen = q.seen /\ r.key = k
        /\ r.act = q.act /\ r.row = 0
    BY <1>2 DEF Request
  <2>5. Validated(r)
    BY <1>2, <2>4 DEF Validated
  <2>7. /\ e \in Event /\ e = [claimed |-> TRUE, row |-> 0]
        /\ \A g \in Requests : ~Holds(g, k)
        /\ ~AckLost => \A i \in DOMAIN decisions :
             ~(decisions[i].key = k /\ decisions[i].approval = "live")
    BY <1>6, <1>8
  <2>8. e.claimed /\ e.row = 0 /\ e = [claimed |-> TRUE, row |-> r.row]
    BY <2>4, <2>7
  <2>9. r.step \notin {"lookup", "evict", "release", "idle"}
    BY <2>1, <2>4
  <2> HIDE DEF r, s, e, q, k
  <2> QED
    BY <1>2, <1>3, <1>4, <1>5, <1>8, <2>2, <2>3, <2>4, <2>5, <2>7, <2>8,
       <2>9, KeyStep
<1>9. ASSUME ~events[k].claimed, events' = [events EXCEPT ![k] = e],
             Answer(h, "error", 0)
      PROVE  IInv'
  <2>1. PICK r \in Request : r.step = "idle" /\ req' = [req EXCEPT ![h] = r]
    BY <1>1, <1>9, AnswerRecord DEF Answers
  <2>3. /\ e \in Event /\ e.row = 0
        /\ \A g \in Requests : ~Holds(g, k)
        /\ ~AckLost => \A i \in DOMAIN decisions :
             ~(decisions[i].key = k /\ decisions[i].approval = "live")
    BY <1>6, <1>9
  <2> HIDE DEF e, q, k
  <2> QED
    BY <1>2, <1>3, <1>4, <1>5, <1>9, <2>1, <2>3, KeyStep
    DEF LoopSteps, Late
<1> HIDE DEF e
<1> QED BY <1>7, <1>8, <1>9 DEF Claim, e

\* What record_decision commits: one row about its key, and the pointer to it.
LEMMA CommitFacts ==
  ASSUME IInv, NEW h \in Requests, req[h].step = "record", Commit(req[h])
  PROVE  LET q == req[h]
             n == Len(decisions) + 1
             e == [claimed |-> TRUE, row |-> n]
         IN  /\ n \in Rows /\ DOMAIN decisions' = DOMAIN decisions \cup {n}
             /\ n \notin DOMAIN decisions
             /\ decisions' \in Seq(Decision) /\ Len(decisions') <= MaxDecisions
             /\ \A i \in DOMAIN decisions : decisions'[i] = decisions[i]
             /\ decisions'[n].key = q.key /\ decisions'[n].about = q.key
             /\ decisions'[n].act = "rollback" => q.key \in Violating
             /\ decisions'[n].approval = "live" <=> Minted(q)
             /\ decisions'[n].approval = "live" => decisions'[n].act = "rollback"
             /\ e \in Event /\ events' = [events EXCEPT ![q.key] = e]
             /\ ~AckLost => \A i \in DOMAIN decisions :
                  ~(decisions[i].key = q.key /\ decisions[i].approval = "live")
<1> DEFINE q == req[h]
           n == Len(decisions) + 1
           e == [claimed |-> TRUE, row |-> n]
<1>1. /\ q \in Request /\ q.act \in Actions /\ q.key \in Envs
      /\ q.post \in World /\ q.seen = {q.post}
      /\ q.post.env = q.key /\ Validated(q) /\ q.row = 0
  BY LateFacts DEF Late
<1>2. decisions \in Seq(Decision) /\ Len(decisions) \in Nat
      /\ DOMAIN decisions = 1..Len(decisions)
  BY DEF IInv, TypeOK
<1>3. n \in Rows /\ n \in Nat /\ n <= MaxDecisions
  BY <1>2, ConstantsAssumption DEF Commit, Rows
<1>4. decisions' = Append(decisions, Row(q))
  BY DEF Commit
<1>5. (CHOOSE o \in q.seen : TRUE) = q.post
  BY <1>1
<1>6. /\ Row(q).key = q.key /\ Row(q).about = q.key /\ Row(q).act = q.act
      /\ Row(q).approval = IF Minted(q) THEN "live" ELSE "none"
      /\ Row(q).suppressed \in BOOLEAN
  BY <1>1, <1>5 DEF Row
<1>7. Row(q) \in Decision
  <2>1. Row(q).approval \in {"none", "live", "expired"}
    BY <1>6
  <2>2. Row(q) = [key |-> Row(q).key, act |-> Row(q).act,
                  about |-> Row(q).about, approval |-> Row(q).approval,
                  suppressed |-> Row(q).suppressed]
    BY DEF Row
  <2> QED BY <1>1, <1>6, <2>1, <2>2 DEF Decision
<1>8. /\ decisions' \in Seq(Decision) /\ Len(decisions') = n
      /\ \A i \in DOMAIN decisions : decisions'[i] = decisions[i]
      /\ decisions'[n] = Row(q)
      /\ DOMAIN decisions' = DOMAIN decisions \cup {n} /\ n \notin DOMAIN decisions
  <2> HIDE DEF q
  <2> QED BY <1>2, <1>4, <1>7
<1>9. Row(q).act = "rollback" => q.key \in Violating
  BY <1>1, <1>6 DEF Validated
<1>10. e \in Event
  BY <1>3 DEF Event
<1>11. ~AckLost => \A i \in DOMAIN decisions :
         ~(decisions[i].key = q.key /\ decisions[i].approval = "live")
  <2>1. Holds(h, q.key)
    BY DEF Holds
  <2>2. events[q.key].row = 0
    <3>1. events[q.key] = [claimed |-> TRUE, row |-> q.row]
      BY <1>1, <2>1 DEF IInv, HeldByHolder
    <3> QED BY <1>1, <3>1
  <2> QED BY <1>2, <2>2 DEF IInv, LiveIsPointed
<1>12. Row(q).approval = "live" <=> Minted(q)
  BY <1>6
<1>13. Row(q).approval = "live" => Row(q).act = "rollback"
  BY <1>6, <1>12 DEF Minted
<1>14. events' = [events EXCEPT ![q.key] = e]
  BY DEF Commit
<1> HIDE DEF q, n, e
<1> QED
  BY <1>3, <1>8, <1>6, <1>9, <1>10, <1>11, <1>12, <1>13, <1>14 DEF q, n, e

\* Recording the decision.
LEMMA RecordStep ==
  ASSUME IInv, NEW h \in Requests, Record(h)
  PROVE  IInv'
<1> DEFINE q == req[h]
           k == q.key
           n == Len(decisions) + 1
           e == [claimed |-> TRUE, row |-> n]
<1>1. q.step = "record" /\ TypeOK /\ Commit(q) /\ Answer(h, "recorded", n)
  BY DEF Record, At, IInv
<1>2. UNCHANGED <<world, dial, artifacts, crashes>>
  BY <1>1 DEF Record, rest, TypeOK
<1>3. /\ n \in Rows /\ DOMAIN decisions' = DOMAIN decisions \cup {n}
      /\ n \notin DOMAIN decisions
      /\ decisions' \in Seq(Decision) /\ Len(decisions') <= MaxDecisions
      /\ \A i \in DOMAIN decisions : decisions'[i] = decisions[i]
      /\ decisions'[n].key = k /\ decisions'[n].about = k
      /\ decisions'[n].act = "rollback" => k \in Violating
      /\ decisions'[n].approval = "live" => decisions'[n].act = "rollback"
      /\ e \in Event /\ events' = [events EXCEPT ![k] = e]
      /\ ~AckLost => \A i \in DOMAIN decisions :
           ~(decisions[i].key = k /\ decisions[i].approval = "live")
  BY <1>1, CommitFacts
<1>4. PICK r \in Request : r.step = "idle" /\ req' = [req EXCEPT ![h] = r]
  BY <1>1, <1>3, AnswerRecord DEF Answers
<1>5. /\ k \in Envs /\ \A g \in Requests \ {h} : ~Holds(g, k)
      /\ \A kk \in Envs : Holds(h, kk) => kk = k
  BY <1>1, SoleHolder
<1>6. n # 0 /\ e.row = n /\ e.claimed
  BY <1>3 DEF Rows
<1>7. \A i \in DOMAIN decisions' \ DOMAIN decisions :
        /\ decisions'[i].key = k /\ decisions'[i].about = k
        /\ decisions'[i].act = "rollback" => k \in Violating
        /\ decisions'[i].approval = "live" => decisions'[i].act = "rollback"
  BY <1>3
<1>8. ~AckLost => \A i \in DOMAIN decisions' :
        decisions'[i].key = k /\ decisions'[i].approval = "live" => e.row = i
  BY <1>3, <1>6
<1>9. \A i \in DOMAIN decisions :
        i \in DOMAIN decisions' /\ decisions'[i] = decisions[i]
  BY <1>3
<1>10. e.row \in DOMAIN decisions' /\ decisions'[e.row].key = k
  BY <1>3, <1>6
<1>11. decisions' \in Seq(Decision) /\ Len(decisions') <= MaxDecisions
  BY <1>3
<1>12. e \in Event /\ events' = [events EXCEPT ![k] = e]
  BY <1>3
<1> HIDE DEF q, k, n, e
<1> QED
  BY ZenonT(40), <1>2, <1>4, <1>5, <1>6, <1>7, <1>8, <1>9, <1>10, <1>11, <1>12, KeyStep
  DEF LoopSteps, Late

\* Giving the key up after a failure.
LEMMA ReleaseStep ==
  ASSUME IInv, NEW h \in Requests, Release(h)
  PROVE  IInv'
<1> DEFINE q == req[h]
           k == q.key
<1>1. q.step = "release" /\ TypeOK
  BY DEF Release, At, IInv
<1>2. UNCHANGED <<decisions, world, dial, artifacts, crashes>>
  BY DEF Release, rest
<1>3. CASE UNCHANGED events /\ Answer(h, "error", 0)
  BY <1>1, <1>2, <1>3, LeaveStep DEF Answers
<1>4. ASSUME events' = [events EXCEPT ![k] = Free], Answer(h, "failed", 0)
      PROVE  IInv'
  <2>1. PICK r \in Request : r.step = "idle" /\ req' = [req EXCEPT ![h] = r]
    BY <1>1, <1>4, AnswerRecord DEF Answers
  <2>2. /\ k \in Envs /\ Holds(h, k) /\ \A g \in Requests \ {h} : ~Holds(g, k)
        /\ \A kk \in Envs : Holds(h, kk) => kk = k
    BY <1>1, SoleHolder
  <2>3. decisions' \in Seq(Decision) /\ Len(decisions') <= MaxDecisions
    BY <1>1, <1>2 DEF TypeOK
  <2>4. ~AckLost => \A i \in DOMAIN decisions :
          ~(decisions[i].key = k /\ decisions[i].approval = "live")
    <3>1. DOMAIN decisions = 1..Len(decisions) /\ Len(decisions) \in Nat
      BY <1>1 DEF TypeOK
    <3>2. events[k] = [claimed |-> TRUE, row |-> q.row]
      BY <2>2 DEF IInv, HeldByHolder
    <3>3. ~AckLost => events[k].row = 0
      BY <1>1, <3>2 DEF IInv, LiveIsPointed
    <3> QED BY <3>1, <3>3 DEF IInv, LiveIsPointed
  <2>5. Free \in Event /\ ~Free.claimed /\ Free.row = 0
    BY DEF Free, Event
  <2> HIDE DEF q, k
  <2> QED
    BY <1>2, <1>4, <2>1, <2>2, <2>3, <2>4, <2>5, KeyStep DEF LoopSteps, Late
<1> QED BY <1>3, <1>4 DEF Release

\* record_decision raising, with or without having committed.
LEMMA RecordFailsStep ==
  ASSUME IInv, NEW h \in Requests, RecordFails(h)
  PROVE  IInv'
<1> DEFINE q == req[h]
           k == q.key
           n == Len(decisions) + 1
           e == [claimed |-> TRUE, row |-> n]
<1>1. q.step = "record" /\ TypeOK /\ UNCHANGED <<world, dial, artifacts, crashes>>
  BY DEF RecordFails, At, IInv, rest
<1>2. /\ q \in Request /\ q.act \in Actions /\ k \in Envs
      /\ q.post \in World /\ q.seen = {q.post}
      /\ q.post.env = k /\ Validated(q) /\ q.row = 0
  BY <1>1, LateFacts DEF Late
<1>3. /\ \A g \in Requests \ {h} : ~Holds(g, k)
      /\ \A kk \in Envs : Holds(h, kk) => kk = k
      /\ events[k] = [claimed |-> TRUE, row |-> 0]
  <2>1. Holds(h, k)
    BY <1>1, SoleHolder
  <2>2. events[k] = [claimed |-> TRUE, row |-> q.row]
    BY <1>2, <2>1 DEF IInv, HeldByHolder
  <2> QED BY <1>1, <1>2, <2>2, SoleHolder
<1>4. PICK committed \in BOOLEAN :
        /\ committed => AckLost
        /\ IF committed THEN Commit(q) ELSE UNCHANGED storeVars
        /\ IF Releases(q)
           THEN req' = [req EXCEPT ![h].step = "release",
                                   ![h].row = IF committed THEN n ELSE 0]
           ELSE Answer(h, "error", 0)
  BY DEF RecordFails
\* The store afterwards: what it was, or a row and the pointer to it.
<1> DEFINE f == IF committed THEN e ELSE events[k]
<1>6. /\ f \in Event /\ events' = [events EXCEPT ![k] = f]
      /\ f = [claimed |-> TRUE, row |-> IF committed THEN n ELSE 0]
      /\ decisions' \in Seq(Decision) /\ Len(decisions') <= MaxDecisions
      /\ \A i \in DOMAIN decisions :
           i \in DOMAIN decisions' /\ decisions'[i] = decisions[i]
      /\ \A i \in DOMAIN decisions' \ DOMAIN decisions :
           /\ decisions'[i].key = k /\ decisions'[i].about = k
           /\ decisions'[i].act = "rollback" => k \in Violating
           /\ decisions'[i].approval = "live" => decisions'[i].act = "rollback"
      /\ committed => /\ n \in Rows /\ n \in DOMAIN decisions'
                      /\ decisions'[n].key = k
                      /\ Minted(q) => decisions'[n].approval = "live"
      /\ ~AckLost => \A i \in DOMAIN decisions' :
           ~(decisions'[i].key = k /\ decisions'[i].approval = "live")
  <2>1. CASE committed
    <3>1. Commit(q)
      BY <1>4, <2>1
    <3>2. /\ n \in Rows /\ DOMAIN decisions' = DOMAIN decisions \cup {n}
          /\ n \notin DOMAIN decisions
          /\ decisions' \in Seq(Decision) /\ Len(decisions') <= MaxDecisions
          /\ \A i \in DOMAIN decisions : decisions'[i] = decisions[i]
          /\ decisions'[n].key = k /\ decisions'[n].about = k
          /\ decisions'[n].act = "rollback" => k \in Violating
          /\ decisions'[n].approval = "live" <=> Minted(q)
          /\ decisions'[n].approval = "live" => decisions'[n].act = "rollback"
          /\ e \in Event /\ events' = [events EXCEPT ![k] = e]
      BY <1>1, <3>1, CommitFacts
    <3>3. f = e /\ AckLost
      BY <1>4, <2>1
    <3> HIDE DEF k, q, f, n
    <3> QED BY <2>1, <3>2, <3>3
  <2>2. CASE ~committed
    <3>1. UNCHANGED <<events, decisions>>
      BY <1>4, <2>2 DEF storeVars
    <3>2. f = events[k] /\ f \in Event
      BY <1>1, <1>2, <2>2 DEF TypeOK
    <3>3. ~AckLost => \A i \in DOMAIN decisions :
            ~(decisions[i].key = k /\ decisions[i].approval = "live")
      <4>1. DOMAIN decisions = 1..Len(decisions) /\ Len(decisions) \in Nat
        BY <1>1 DEF TypeOK
      <4>2. events[k].row = 0
        BY <1>3
      <4> QED BY <4>1, <4>2 DEF IInv, LiveIsPointed
    <3>4. events' = [events EXCEPT ![k] = f]
      BY <1>1, <3>1, <3>2 DEF TypeOK
    <3>5. decisions' \in Seq(Decision) /\ Len(decisions') <= MaxDecisions
      BY <1>1, <3>1 DEF TypeOK
    <3> HIDE DEF k, q, f, n
    <3> QED BY <1>3, <2>2, <3>1, <3>2, <3>3, <3>4, <3>5
  <2> QED BY <2>1, <2>2
<1>7. f.claimed /\ f.row = IF committed THEN n ELSE 0
  BY <1>6
<1>8. f.row # 0 => /\ f.claimed /\ f.row \in DOMAIN decisions'
                   /\ decisions'[f.row].key = k
  BY <1>6, <1>7
<1>9. ~AckLost => \A i \in DOMAIN decisions' :
        decisions'[i].key = k /\ decisions'[i].approval = "live" => f.row = i
  BY <1>6
<1>10. CASE Releases(q)
  <2> DEFINE m == IF committed THEN n ELSE 0
             r == [q EXCEPT !.step = "release", !.row = m]
  <2>1. req' = [req EXCEPT ![h] = r]
    BY <1>1, <1>2, <1>4, <1>10 DEF TypeOK, Request
  <2>2. m \in {0} \cup Rows
    BY <1>6
  <2>3. r \in Request
    BY <1>2, <2>2 DEF Request, Steps
  <2>4. /\ r.step = "release" /\ r.post = q.post /\ r.seen = q.seen
        /\ r.key = k /\ r.act = q.act /\ r.row = m
    BY <1>2 DEF Request
  <2>5. Validated(r)
    BY <1>2, <2>4 DEF Validated
  <2>6. ~AckLost => m = 0
    BY <1>4
  <2>7. f = [claimed |-> TRUE, row |-> r.row]
    BY <1>6, <2>4
  <2>8. r.row # 0 => decisions'[r.row].approval = "live"
    BY <1>6, <1>10, <2>4 DEF Releases
  <2> HIDE DEF r, m, f, q, k
  <2> QED
    BY ZenonT(40), <1>1, <1>2, <1>3, <1>6, <1>8, <1>9, <2>1, <2>3, <2>4, <2>5, <2>6, <2>7,
       <2>8, KeyStep DEF LoopSteps
<1>11. CASE ~Releases(q)
  <2>1. Answer(h, "error", 0)
    BY <1>4, <1>11
  <2>2. PICK r \in Request : r.step = "idle" /\ req' = [req EXCEPT ![h] = r]
    BY <1>1, <2>1, AnswerRecord DEF Answers
  <2>5. f \in Event /\ events' = [events EXCEPT ![k] = f]
    BY <1>6
  <2>6. decisions' \in Seq(Decision) /\ Len(decisions') <= MaxDecisions
    BY <1>6
  <2>7. \A i \in DOMAIN decisions :
          i \in DOMAIN decisions' /\ decisions'[i] = decisions[i]
    BY <1>6
  <2>8. \A i \in DOMAIN decisions' \ DOMAIN decisions :
          /\ decisions'[i].key = k /\ decisions'[i].about = k
          /\ decisions'[i].act = "rollback" => k \in Violating
          /\ decisions'[i].approval = "live" => decisions'[i].act = "rollback"
    BY <1>6
  <2>9. UNCHANGED <<world, dial, artifacts, crashes>> /\ k \in Envs
    BY <1>1, <1>2
  <2>10. /\ \A g \in Requests \ {h} : ~Holds(g, k)
         /\ \A kk \in Envs : Holds(h, kk) => kk = k
    BY <1>3
  <2>11. r.step \notin LoopSteps /\ r.step \notin Late
    BY <2>2 DEF LoopSteps, Late
  <2> HIDE DEF f, q, k, n, e
  <2> QED
    BY <1>8, <1>9, <2>2, <2>5, <2>6, <2>7, <2>8, <2>9, <2>10, <2>11, KeyStep
<1> QED BY <1>10, <1>11

\* A container dies: its claims are left without a holder.
LEMMA CrashStep ==
  ASSUME IInv, NEW i \in Instances, Crash(i)
  PROVE  IInv'
<1> USE DEF IInv
<1>1. /\ UNCHANGED <<world, dial, events, decisions, artifacts>>
      /\ crashes' \in 0..MaxCrashes
  BY ConstantsAssumption DEF Crash, storeVars, TypeOK
<1>2. req' = [h \in Requests |-> IF Home[h] = i THEN NoRequest ELSE req[h]]
  BY DEF Crash
<1>3. NoRequest \in Request /\ NoRequest.step = "idle" /\ NoRequest.row = 0
  BY DEF NoRequest, Request, Steps, Modes, Answers
<1>4. \A h \in Requests : \/ req'[h].step = "idle"
                          \/ req'[h] = req[h] /\ Home[h] # i
  BY <1>2, <1>3
<1>5. TypeOK'
  BY <1>1, <1>2, <1>3 DEF TypeOK
<1>6. /\ \A h \in Requests, k \in Envs :
           Holds(h, k)' => Holds(h, k) /\ req'[h] = req[h]
      /\ \A h \in Requests, k \in Envs :
           Holds(h, k) /\ Home[h] # i => Holds(h, k)'
  BY <1>2, <1>4 DEF Holds
<1>7. Admitted'
  BY <1>4 DEF Admitted, LoopSteps, Late, Validated
<1>8. EvictsStale' /\ NoRowYet'
  BY <1>1, <1>4 DEF EvictsStale, NoRowYet
<1>9. HeldByHolder'
  <2> SUFFICES ASSUME NEW h \in Requests, NEW k \in Envs, Holds(h, k)'
               PROVE  /\ events[k] = [claimed |-> TRUE, row |-> req'[h].row]
                      /\ req'[h].row # 0 =>
                           /\ req'[h].step = "release"
                           /\ req'[h].row \in DOMAIN decisions
                           /\ decisions[req'[h].row].approval = "live"
    BY <1>1 DEF HeldByHolder
  <2>1. Holds(h, k) /\ req'[h] = req[h]
    BY <1>6
  <2> QED BY <2>1 DEF HeldByHolder
<1>10. Pointed' /\ Grounded' /\ AboutItsKey'
  BY <1>1 DEF Pointed, Grounded, AboutItsKey
<1>11. LiveIsPointed'
  BY <1>1, <1>4 DEF LiveIsPointed
<1>12. OneHolder'
  BY <1>6 DEF OneHolder
<1> HIDE DEF IInv
<1> QED
  BY <1>5, <1>7, <1>8, <1>9, <1>10, <1>11, <1>12 DEF IInv

\* An approval expires, never one whose request is still in progress.
LEMMA ExpireStep ==
  ASSUME IInv, NEW i \in Rows, Expire(i)
  PROVE  IInv'
<1> DEFINE d == [decisions[i] EXCEPT !.approval = "expired"]
<1>1. /\ UNCHANGED <<events, world, dial, artifacts, crashes, req>>
      /\ i \in DOMAIN decisions /\ decisions' = [decisions EXCEPT ![i] = d]
      /\ \A h \in Requests : req[h].step = "idle" \/ req[h].row # i
      /\ TypeOK
  BY DEF Expire, rest, IInv
<1>2. decisions \in Seq(Decision) /\ Len(decisions) \in Nat
      /\ DOMAIN decisions = 1..Len(decisions) /\ decisions[i] \in Decision
  BY <1>1 DEF TypeOK
<1>3. /\ d \in Decision /\ d.key = decisions[i].key /\ d.act = decisions[i].act
      /\ d.about = decisions[i].about /\ d.approval = "expired"
  BY <1>2 DEF Decision
<1> HIDE DEF d
<1>4. /\ decisions' \in Seq(Decision) /\ Len(decisions') = Len(decisions)
      /\ DOMAIN decisions' = DOMAIN decisions
      /\ decisions'[i] = d
      /\ \A j \in DOMAIN decisions \ {i} : decisions'[j] = decisions[j]
  BY <1>1, <1>2, <1>3
<1>5. \A j \in DOMAIN decisions :
        /\ decisions'[j].key = decisions[j].key
        /\ decisions'[j].act = decisions[j].act
        /\ decisions'[j].about = decisions[j].about
        /\ decisions'[j].approval = "live" => decisions[j].approval = "live"
        /\ j # i => decisions'[j] = decisions[j]
  BY <1>3, <1>4
<1>6. TypeOK'
  BY <1>1, <1>4 DEF TypeOK
<1> USE DEF IInv
<1>7. Admitted' /\ NoRowYet' /\ OneHolder'
  BY <1>1 DEF Admitted, NoRowYet, OneHolder, Holds, Validated
<1>8. EvictsStale'
  BY <1>1, <1>4, <1>5 DEF EvictsStale
<1>9. Pointed' /\ Grounded' /\ AboutItsKey'
  BY <1>1, <1>4, <1>5 DEF Pointed, Grounded, AboutItsKey
<1>10. LiveIsPointed'
  BY <1>1, <1>4, <1>5 DEF LiveIsPointed
<1>11. HeldByHolder'
  <2> SUFFICES ASSUME NEW h \in Requests, NEW k \in Envs, Holds(h, k)
               PROVE  /\ events[k] = [claimed |-> TRUE, row |-> req[h].row]
                      /\ req[h].row # 0 =>
                           /\ req[h].step = "release"
                           /\ req[h].row \in DOMAIN decisions'
                           /\ decisions'[req[h].row].approval = "live"
    BY <1>1 DEF HeldByHolder, Holds
  <2>1. /\ events[k] = [claimed |-> TRUE, row |-> req[h].row]
        /\ req[h].row # 0 => /\ req[h].step = "release"
                             /\ req[h].row \in DOMAIN decisions
                             /\ decisions[req[h].row].approval = "live"
    BY DEF HeldByHolder
  <2>2. req[h].row # i
    BY <1>1 DEF Holds
  <2> QED BY <1>4, <1>5, <2>1, <2>2
<1> HIDE DEF IInv
<1> QED BY <1>6, <1>7, <1>8, <1>9, <1>10, <1>11 DEF IInv

\* The world, the dial and steps of nobody.
LEMMA WorldStep ==
  ASSUME IInv, \/ \E e \in Envs : Deploy(e)
               \/ \E m \in Modes : SetDial(m)
               \/ UNCHANGED vars
  PROVE  IInv'
<1>1. UNCHANGED <<events, decisions, artifacts, crashes, req>>
  BY DEF Deploy, SetDial, vars, storeVars
<1>2. world' \in World /\ dial' \in Modes
  <2>1. world \in World /\ dial \in Modes
    BY DEF IInv, TypeOK
  <2>2. ASSUME NEW e \in Envs, Deploy(e) PROVE world' \in World
    BY <2>1, <2>2, ConstantsAssumption DEF Deploy, World
  <2> QED BY <2>1, <2>2 DEF Deploy, SetDial, vars
<1>3. TypeOK'
  BY <1>1, <1>2 DEF IInv, TypeOK
<1> QED
  BY <1>1, <1>3
  DEF IInv, Admitted, EvictsStale, HeldByHolder, NoRowYet, Pointed, Grounded,
      LiveIsPointed, OneHolder, AboutItsKey, Holds, Validated

\* Every step preserves the invariant.
LEMMA StepInvariant == IInv /\ [Next]_vars => IInv'
<1> SUFFICES ASSUME IInv, [Next]_vars PROVE IInv'
  OBVIOUS
<1>1. ASSUME NEW h \in Requests, Handler(h) PROVE IInv'
  <2>1. CASE Arrive(h) \/ AgentRead(h) \/ PostRead(h)
    BY <2>1, TurnSteps
  <2>2. CASE Fails(h)
    BY <2>2, FailsStep
  <2>3. CASE Lookup(h)
    BY <2>3, LookupStep
  <2>4. CASE Evict(h)
    BY <2>4, EvictStep
  <2>5. CASE Claim(h)
    BY <2>5, ClaimStep
  <2>6. CASE Reread(h)
    BY <2>6, RereadStep
  <2>7. CASE Propose(h) \/ Perform(h)
    BY <2>7, ActStep
  <2>8. CASE Record(h)
    BY <2>8, RecordStep
  <2>9. CASE RecordFails(h)
    BY <2>9, RecordFailsStep
  <2>10. CASE Release(h)
    BY <2>10, ReleaseStep
  <2> QED
    BY <1>1, <2>1, <2>2, <2>3, <2>4, <2>5, <2>6, <2>7, <2>8, <2>9, <2>10
    DEF Handler
<1>2. ASSUME NEW i \in Instances, Crash(i) PROVE IInv'
  BY <1>2, CrashStep
<1>3. ASSUME NEW i \in Rows, Expire(i) PROVE IInv'
  BY <1>3, ExpireStep
<1>4. CASE \/ \E e \in Envs : Deploy(e)
           \/ \E m \in Modes : SetDial(m)
           \/ UNCHANGED vars
  BY <1>4, WorldStep
<1> QED BY <1>1, <1>2, <1>3, <1>4 DEF Next

\* The invariant holds of every behaviour.
THEOREM Invariance == Spec => []IInv
<1>1. Init => IInv
  BY InitInvariant
<1>2. IInv /\ [Next]_vars => IInv'
  BY StepInvariant
<1> QED BY <1>1, <1>2, PTL DEF Spec

\* Type correctness.
THEOREM TypeCorrect == Spec => []TypeOK
<1>1. IInv => TypeOK
  BY DEF IInv
<1> QED BY <1>1, Invariance, PTL

\* No verdict is filed under an env it is not about.
THEOREM VerdictsAreAboutTheirKey == Spec => []AboutItsKey
<1>1. IInv => AboutItsKey
  BY DEF IInv
<1> QED BY <1>1, Invariance, PTL

\* At most one request is between the claim of a key and its last write.
THEOREM HoldersExclude == Spec => []OneHolder
<1>1. IInv => OneHolder
  BY DEF IInv
<1> QED BY <1>1, Invariance, PTL

\* Where no acknowledgement is lost, a drift never has two live approvals,
\* however many instances and requests work on it.
THEOREM SingleApproval ==
  ASSUME ~AckLost
  PROVE  Spec => []OneLiveApproval
<1>1. IInv => OneLiveApproval
  <2> SUFFICES ASSUME IInv, NEW k \in Envs
               PROVE  Cardinality(Live(k)) <= 1
    BY DEF OneLiveApproval
  <2>1. Live(k) \subseteq {events[k].row}
    BY DEF IInv, LiveIsPointed, Live
  <2>2. CASE Live(k) = {}
    BY <2>2, FS_EmptySet
  <2>3. CASE Live(k) # {}
    <3>1. Live(k) = {events[k].row}
      BY <2>1, <2>3
    <3>2. Cardinality({events[k].row}) = 1
      BY FS_Singleton
    <3> QED BY <3>1, <3>2
  <2> QED BY <2>2, <2>3
<1> QED BY <1>1, Invariance, PTL

-----------------------------------------------------------------------------
(* One issue per drift, where no acknowledgement is lost                   *)

\* Approvals belong to rollbacks, so what has expired is no issue.
ApprovedIsRollback ==
  \A i \in DOMAIN decisions :
    decisions[i].approval # "none" => decisions[i].act = "rollback"

\* No request evicts the row of an issue.
EvictsNoIssue ==
  \A h \in Requests :
    req[h].step = "evict" => decisions[req[h].stale].act # "issue"

\* Nothing was opened for a key that is free, nor for one whose row says that
\* something else was done.
OpenedIsKept ==
  \A k \in Envs :
    /\ artifacts[k] <= 1
    /\ ~events[k].claimed => artifacts[k] = 0
    /\ events[k].row # 0 =>
         decisions[events[k].row].act = "issue" \/ artifacts[k] = 0

\* The holder of a key has opened nothing, unless all that is left is to record it.
Opened(h) == req[h].step = "record" /\ req[h].act = "issue"
HolderOpenedNone ==
  \A h \in Requests, k \in Envs : Holds(h, k) /\ ~Opened(h) => artifacts[k] = 0

Once == ApprovedIsRollback /\ EvictsNoIssue /\ OpenedIsKept /\ HolderOpenedNone

\* A step of one request that leaves the store alone, to where it holds nothing.
LEMMA QuietOnce ==
  ASSUME IInv, Once, NEW h \in Requests, UNCHANGED <<events, decisions, artifacts>>,
         \A g \in Requests \ {h} : req'[g] = req[g],
         req'[h].step \notin {"evict", "act", "record", "release"}
  PROVE  Once'
<1>1. ApprovedIsRollback' /\ OpenedIsKept'
  BY DEF Once, ApprovedIsRollback, OpenedIsKept
<1>2. EvictsNoIssue'
  BY DEF Once, EvictsNoIssue
<1>3. HolderOpenedNone'
  BY DEF Once, HolderOpenedNone, Holds, Opened
<1> QED BY <1>1, <1>2, <1>3 DEF Once

\* Before the claim: only a row that is no issue is chosen to be evicted.
LEMMA EarlyOnce ==
  ASSUME IInv, Once, NEW h \in Requests,
         \/ Arrive(h) \/ AgentRead(h) \/ PostRead(h) \/ Fails(h) \/ Reread(h)
         \/ Lookup(h)
  PROVE  Once'
<1>t. req \in [Requests -> Request] /\ req[h] \in Request
  BY DEF IInv, TypeOK
<1>1. UNCHANGED <<events, decisions, artifacts>>
  BY DEF Arrive, AgentRead, PostRead, Fails, Reread, Lookup, storeVars, rest
<1>2. \A g \in Requests \ {h} : req'[g] = req[g]
  BY <1>t DEF Arrive, AgentRead, PostRead, Fails, Reread, Lookup, Answer
<1>3. CASE ~Lookup(h)
  <2>1. req'[h].step \in {"turn", "lookup", "idle"}
    <3>1. CASE Arrive(h)
      BY <3>1, <1>t DEF Arrive, NoRequest
    <3>2. CASE AgentRead(h)
      <4>1. req' = [req EXCEPT ![h].seen = @ \cup {world}] /\ req[h].step = "turn"
        BY <3>2 DEF AgentRead, At
      <4> QED BY <4>1, <1>t DEF Request
    <3>3. CASE PostRead(h)
      <4>1. PICK act \in Actions, e \in Envs, o \in {world, None} :
              req' = [req EXCEPT ![h].step = "lookup", ![h].act = act,
                                 ![h].post = o, ![h].key = e]
        BY <3>3 DEF PostRead
      <4> QED BY <4>1, <1>t DEF Request
    <3>4. CASE Fails(h) \/ Reread(h)
      <4>1. \E a, i : Answer(h, a, i)
        BY <3>4 DEF Fails, Reread
      <4> QED BY <4>1, <1>t DEF Answer, Request
    <3> QED BY <1>3, <3>1, <3>2, <3>3, <3>4
  <2> QED BY <1>1, <1>2, <2>1, QuietOnce
<1>4. CASE Lookup(h)
  <2> DEFINE i == FindDecision(req[h].key)
  <2>1. \/ \E a \in Answers, j \in {0, i} : Answer(h, a, j)
        \/ /\ ~NeedsGroundTruth(req[h], i) /\ ~Servable(req[h], i)
           /\ req' = [req EXCEPT ![h].stale = i,
                                 ![h].step = IF i = 0 THEN "claim" ELSE "evict"]
    <3>1. {"refused", "served", "conflict"} \subseteq Answers
      BY DEF Answers
    <3> QED BY <1>4, <3>1 DEF Lookup
  <2>2. CASE \E a \in Answers, j \in {0, i} : Answer(h, a, j)
    <3>1. req'[h].step = "idle"
      BY <2>2, <1>t DEF Answer, Request
    <3> QED BY <1>1, <1>2, <3>1, QuietOnce
  <2>3. CASE /\ ~NeedsGroundTruth(req[h], i) /\ ~Servable(req[h], i)
             /\ req' = [req EXCEPT ![h].stale = i,
                                   ![h].step = IF i = 0 THEN "claim" ELSE "evict"]
    <3>1. req'[h].step = (IF i = 0 THEN "claim" ELSE "evict") /\ req'[h].stale = i
      BY <2>3, <1>t DEF Request
    <3>2. CASE i = 0
      BY <1>1, <1>2, <3>1, <3>2, QuietOnce
    <3>3. CASE i # 0
      <4>1. Stale(req[h], i)
        BY <2>3, <3>3 DEF Servable
      <4>2. i \in DOMAIN decisions
        <5>1. req[h].key \in Envs
          BY <1>4 DEF Lookup, At, IInv, Admitted, LoopSteps, Steps
        <5> QED BY <3>3, <5>1, FindType DEF IInv
      <4>3. decisions[i].act # "issue"
        BY <4>1, <4>2 DEF Stale, Once, ApprovedIsRollback
      <4>4. ApprovedIsRollback' /\ OpenedIsKept'
        BY <1>1 DEF Once, ApprovedIsRollback, OpenedIsKept
      <4>5. EvictsNoIssue'
        BY <1>1, <1>2, <3>1, <4>3 DEF Once, EvictsNoIssue
      <4>6. HolderOpenedNone'
        BY <1>1, <1>2, <3>1, <3>3 DEF Once, HolderOpenedNone, Holds, Opened
      <4> QED BY <4>4, <4>5, <4>6 DEF Once
    <3> QED BY <3>2, <3>3
  <2> QED BY <2>1, <2>2, <2>3
<1> QED BY <1>3, <1>4

\* A step of one request that writes about one key: what is left to show is about
\* that key, and that nobody else who holds it has something to lose.
LEMMA KeyOnce ==
  ASSUME IInv, Once, NEW h \in Requests, NEW k \in Envs,
         \A g \in Requests \ {h} : req'[g] = req[g],
         req'[h].step # "evict",
         \A kk \in Envs \ {k} : events'[kk] = events[kk] /\ artifacts'[kk] = artifacts[kk],
         \A i \in DOMAIN decisions : decisions'[i] = decisions[i],
         ApprovedIsRollback',
         artifacts'[k] <= 1,
         ~events'[k].claimed => artifacts'[k] = 0,
         events'[k].row # 0 =>
           decisions'[events'[k].row].act = "issue" \/ artifacts'[k] = 0,
         artifacts'[k] = 0 \/ \A g \in Requests \ {h} : ~Holds(g, k),
         req'[h].step \in {"act", "record", "release"} =>
           req'[h].key = k /\ (Opened(h)' \/ artifacts'[k] = 0)
  PROVE  Once'
<1>1. EvictsNoIssue'
  BY DEF Once, EvictsNoIssue, IInv, EvictsStale
<1>2. OpenedIsKept'
  <2> SUFFICES ASSUME NEW kk \in Envs
               PROVE  /\ artifacts'[kk] <= 1
                      /\ ~events'[kk].claimed => artifacts'[kk] = 0
                      /\ events'[kk].row # 0 =>
                           decisions'[events'[kk].row].act = "issue" \/ artifacts'[kk] = 0
    BY DEF OpenedIsKept
  <2>1. CASE kk = k
    BY <2>1
  <2>2. CASE kk # k
    BY <2>2 DEF Once, OpenedIsKept, IInv, Pointed
  <2> QED BY <2>1, <2>2
<1>3. HolderOpenedNone'
  <2> SUFFICES ASSUME NEW g \in Requests, NEW kk \in Envs, Holds(g, kk)', ~Opened(g)'
               PROVE  artifacts'[kk] = 0
    BY DEF HolderOpenedNone
  <2>1. CASE g = h
    BY <2>1 DEF Holds
  <2>2. CASE g # h
    <3>1. Holds(g, kk) /\ ~Opened(g)
      BY <2>2 DEF Holds, Opened
    <3>2. artifacts[kk] = 0
      BY <3>1 DEF Once, HolderOpenedNone
    <3> QED BY <2>2, <3>1, <3>2
  <2> QED BY <2>1, <2>2
<1> QED BY <1>1, <1>2, <1>3 DEF Once

\* The holder's key is claimed and points nowhere.
LEMMA HeldPointsNowhere ==
  ASSUME ~AckLost, IInv, NEW h \in Requests,
         req[h].step \in {"act", "record", "release"}
  PROVE  events[req[h].key] = [claimed |-> TRUE, row |-> 0]
<1>1. Holds(h, req[h].key) /\ req[h].key \in Envs
  BY SoleHolder
<1>2. req[h].row = 0
  BY DEF IInv, NoRowYet, LiveIsPointed
<1> QED BY <1>1, <1>2 DEF IInv, HeldByHolder

\* Evicting and claiming: a key that is free or about to be has nothing opened.
LEMMA ClaimOnce ==
  ASSUME ~AckLost, IInv, Once, NEW h \in Requests, Evict(h) \/ Claim(h)
  PROVE  Once'
<1> DEFINE k == req[h].key
<1>t. /\ req \in [Requests -> Request] /\ req[h] \in Request /\ k \in Envs
      /\ artifacts \in [Envs -> 0..Many] /\ events \in [Envs -> Event]
  BY LateFacts DEF Evict, Claim, At, Late, IInv, TypeOK
<1>1. UNCHANGED <<decisions, artifacts>> /\ ApprovedIsRollback'
  BY DEF Evict, Claim, rest, Once, ApprovedIsRollback
<1>2. ASSUME NEW s \in {"reread", "claim", "record", "act"}, Goto(h, s)
      PROVE  /\ \A g \in Requests \ {h} : req'[g] = req[g]
             /\ req'[h].step = s /\ req'[h].key = k
  BY <1>2, <1>t DEF Goto, Request
<1>3. CASE UNCHANGED events
  <2>1. ASSUME Claim(h) PROVE events[k].claimed
    <3>1. ~events[k].claimed => events' = [events EXCEPT ![k].claimed = TRUE]
      BY <2>1 DEF Claim
    <3>2. [events EXCEPT ![k].claimed = TRUE][k].claimed
      BY <1>t DEF Event
    <3> QED BY <1>3, <3>1, <3>2
  <2>2. PICK s \in {"reread", "claim"} : Goto(h, s)
    <3>1. CASE Evict(h)
      BY <3>1 DEF Evict
    <3>2. CASE Claim(h)
      BY <2>1, <3>2 DEF Claim
    <3> QED BY <3>1, <3>2
  <2>3. /\ \A g \in Requests \ {h} : req'[g] = req[g]
        /\ req'[h].step \in {"reread", "claim"}
    BY <1>2, <2>2
  <2> HIDE DEF k
  <2> QED BY <1>1, <1>3, <2>3, QuietOnce
<1>4. CASE Evict(h) /\ ~UNCHANGED events
  <2>1. /\ Evictable(k, req[h].stale) /\ Goto(h, "claim")
        /\ events' = [events EXCEPT ![k] = Free] /\ req[h].step = "evict"
    BY <1>4 DEF Evict, At
  <2>2. artifacts[k] = 0
    <3>1. req[h].stale \in DOMAIN decisions /\ decisions[req[h].stale].act # "issue"
      BY <2>1 DEF IInv, EvictsStale, Once, EvictsNoIssue
    <3>2. DOMAIN decisions = 1..Len(decisions) /\ Len(decisions) \in Nat
      BY DEF IInv, TypeOK
    <3>3. req[h].stale # 0
      BY <3>1, <3>2
    <3> QED BY <1>t, <2>1, <3>1, <3>3 DEF Evictable, Once, OpenedIsKept
  <2>3. ~events'[k].claimed /\ events'[k].row = 0
    BY <1>t, <2>1 DEF Free
  <2>4. \A kk \in Envs \ {k} : events'[kk] = events[kk] /\ artifacts'[kk] = artifacts[kk]
    BY <1>t, <1>1, <2>1
  <2>5. /\ \A g \in Requests \ {h} : req'[g] = req[g]
        /\ req'[h].step = "claim"
    BY <1>2, <2>1
  <2> HIDE DEF k
  <2> QED BY <1>t, <1>1, <2>2, <2>3, <2>4, <2>5, KeyOnce
<1>5. CASE Claim(h) /\ ~UNCHANGED events
  <2>1. PICK s \in {"record", "act"} : Goto(h, s)
    BY <1>5 DEF Claim
  <2>2. ~events[k].claimed /\ events' = [events EXCEPT ![k].claimed = TRUE]
    BY <1>5 DEF Claim
  <2>3. artifacts[k] = 0 /\ events[k] = Free
    BY <1>t, <2>2, UnclaimedIsFree DEF Once, OpenedIsKept
  <2>4. events'[k].row = 0
    BY <1>t, <2>2, <2>3 DEF Free, Event
  <2>5. \A kk \in Envs \ {k} : events'[kk] = events[kk] /\ artifacts'[kk] = artifacts[kk]
    BY <1>t, <1>1, <2>2
  <2>6. /\ \A g \in Requests \ {h} : req'[g] = req[g]
        /\ req'[h].step \in {"record", "act"} /\ req'[h].key = k
    BY <1>2, <2>1
  <2> HIDE DEF k
  <2> QED BY <1>t, <1>1, <2>3, <2>4, <2>5, <2>6, KeyOnce
<1> QED BY <1>3, <1>4, <1>5

\* Acting: the holder opens one issue, and gives the key up only if it did not.
LEMMA ActOnce ==
  ASSUME ~AckLost, IInv, Once, NEW h \in Requests, Propose(h) \/ Perform(h)
  PROVE  Once'
<1> DEFINE k == req[h].key
<1>1. req[h].step = "act"
  BY DEF Propose, Perform, At
<1>t. /\ req \in [Requests -> Request] /\ req[h] \in Request /\ k \in Envs
      /\ artifacts \in [Envs -> 0..Many]
  BY <1>1, LateFacts DEF Late, IInv, TypeOK
<1>2. UNCHANGED <<events, decisions>> /\ ApprovedIsRollback'
  BY DEF Propose, Perform, storeVars, Once, ApprovedIsRollback
<1>3. /\ events[k] = [claimed |-> TRUE, row |-> 0]
      /\ \A g \in Requests \ {h} : ~Holds(g, k)
      /\ artifacts[k] = 0
  <2>1. Holds(h, k) /\ ~Opened(h)
    BY <1>1, SoleHolder DEF Opened
  <2> QED BY <1>1, <1>t, <2>1, HeldPointsNowhere, SoleHolder DEF Once, HolderOpenedNone
<1>4. ASSUME NEW s \in {"record", "release"}, Goto(h, s)
      PROVE  /\ \A g \in Requests \ {h} : req'[g] = req[g]
             /\ req'[h].step = s /\ req'[h].key = k /\ req'[h].act = req[h].act
  BY <1>4, <1>t DEF Goto, Request
<1>5. CASE Propose(h)
  <2>1. UNCHANGED artifacts
    BY <1>5 DEF Propose, rest
  <2>2. CASE Answer(h, "error", 0)
    <3>1. /\ \A g \in Requests \ {h} : req'[g] = req[g]
          /\ req'[h].step = "idle"
      BY <1>t, <2>2 DEF Answer, Request
    <3> QED BY <1>2, <2>1, <3>1, QuietOnce
  <2>3. ASSUME NEW s \in {"record", "release"}, Goto(h, s) PROVE Once'
    <3>1. /\ \A g \in Requests \ {h} : req'[g] = req[g]
          /\ req'[h].step # "evict" /\ req'[h].key = k
      BY <1>4, <2>3
    <3> HIDE DEF k
    <3> QED BY <1>t, <1>2, <1>3, <2>1, <3>1, KeyOnce
  <2> QED BY <1>5, <2>2, <2>3 DEF Propose
<1>6. CASE Perform(h)
  <2>1. PICK opened \in BOOLEAN, s \in {"record", "release"} :
          /\ s = "release" => ~opened
          /\ artifacts' = [artifacts EXCEPT ![k] = IF opened /\ @ < Many THEN @ + 1 ELSE @]
          /\ Goto(h, s)
    BY <1>6 DEF Perform
  <2>2. artifacts'[k] = (IF opened THEN 1 ELSE 0)
    BY <1>t, <1>3, <2>1 DEF Many
  <2>3. \A kk \in Envs \ {k} : events'[kk] = events[kk] /\ artifacts'[kk] = artifacts[kk]
    BY <1>t, <1>2, <2>1
  <2>4. /\ \A g \in Requests \ {h} : req'[g] = req[g]
        /\ req'[h].step = s /\ req'[h].key = k /\ req'[h].act = "issue"
    BY <1>4, <1>6, <2>1 DEF Perform
  <2>5. Opened(h)' \/ artifacts'[k] = 0
    BY <2>1, <2>2, <2>4 DEF Opened
  <2> HIDE DEF k
  <2> QED BY <1>t, <1>2, <1>3, <2>1, <2>2, <2>3, <2>4, <2>5, KeyOnce
<1> QED BY <1>5, <1>6

\* Recording, or failing to: the row of what was opened is that of an issue.
LEMMA RecordOnce ==
  ASSUME ~AckLost, IInv, Once, NEW h \in Requests,
         Record(h) \/ RecordFails(h) \/ Release(h)
  PROVE  Once'
<1> DEFINE k == req[h].key
<1>1. req[h].step \in {"record", "release"}
  BY DEF Record, RecordFails, Release, At
<1>t. /\ req \in [Requests -> Request] /\ req[h] \in Request /\ k \in Envs
      /\ artifacts \in [Envs -> 0..Many] /\ events \in [Envs -> Event]
      /\ decisions \in Seq(Decision) /\ Len(decisions) \in Nat
      /\ DOMAIN decisions = 1..Len(decisions)
  BY <1>1, LateFacts DEF Late, IInv, TypeOK
<1>2. UNCHANGED artifacts
  BY DEF Record, RecordFails, Release, rest
<1>3. /\ events[k] = [claimed |-> TRUE, row |-> 0]
      /\ \A g \in Requests \ {h} : ~Holds(g, k)
      /\ Holds(h, k)
  BY <1>1, <1>t, HeldPointsNowhere, SoleHolder
<1>4. artifacts[k] <= 1 /\ (~Opened(h) => artifacts[k] = 0)
  BY <1>t, <1>3 DEF Once, OpenedIsKept, HolderOpenedNone
<1>5. ASSUME NEW a, NEW i, Answer(h, a, i)
      PROVE  /\ \A g \in Requests \ {h} : req'[g] = req[g]
             /\ req'[h].step = "idle"
  BY <1>5, <1>t DEF Answer, Request
<1>6. CASE Record(h)
  <2> DEFINE n == Len(decisions) + 1
  <2>1. /\ Commit(req[h]) /\ Answer(h, "recorded", n) /\ req[h].step = "record"
    BY <1>6 DEF Record, At
  <2>2. /\ DOMAIN decisions' = DOMAIN decisions \cup {n}
        /\ \A i \in DOMAIN decisions : decisions'[i] = decisions[i]
        /\ events' = [events EXCEPT ![k] = [claimed |-> TRUE, row |-> n]]
    BY <2>1, CommitFacts
  <2>3. decisions'[n].act = req[h].act /\ decisions'[n].approval \in {"none", "live"}
        /\ (decisions'[n].approval = "live" => decisions'[n].act = "rollback")
    <3>1. decisions'[n] = Row(req[h])
      BY <1>t, <2>1 DEF Commit
    <3> QED BY <3>1 DEF Row, Minted
  <2>4. ApprovedIsRollback'
    BY <2>2, <2>3 DEF Once, ApprovedIsRollback
  <2>5. events'[k].claimed /\ events'[k].row = n
    BY <1>t, <2>2
  <2>6. decisions'[n].act = "issue" \/ artifacts[k] = 0
    BY <1>4, <2>1, <2>3 DEF Opened
  <2>7. \A kk \in Envs \ {k} : events'[kk] = events[kk] /\ artifacts'[kk] = artifacts[kk]
    BY <1>t, <1>2, <2>2
  <2>8. /\ \A g \in Requests \ {h} : req'[g] = req[g]
        /\ req'[h].step = "idle"
    BY <1>5, <2>1
  <2> HIDE DEF k, n
  <2> QED BY <1>t, <1>2, <1>3, <1>4, <2>2, <2>4, <2>5, <2>6, <2>7, <2>8, KeyOnce
<1>7. CASE RecordFails(h)
  <2>1. UNCHANGED <<events, decisions>> /\ req[h].step = "record"
    BY <1>7 DEF RecordFails, At, storeVars
  <2>2. ApprovedIsRollback'
    BY <2>1 DEF Once, ApprovedIsRollback
  <2>3. CASE Minted(req[h])
    <3>1. PICK i : req' = [req EXCEPT ![h].step = "release", ![h].row = i]
      BY <1>7, <2>3 DEF RecordFails, Releases
    <3>2. /\ \A g \in Requests \ {h} : req'[g] = req[g]
          /\ req'[h].step = "release" /\ req'[h].key = k
      BY <1>t, <3>1 DEF Request
    <3>3. artifacts[k] = 0
      BY <1>4, <2>3 DEF Opened, Minted
    <3> HIDE DEF k
    <3> QED BY <1>t, <1>2, <1>3, <2>1, <2>2, <3>2, <3>3, KeyOnce
  <2>4. CASE ~Minted(req[h])
    <3>1. Answer(h, "error", 0)
      BY <1>7, <2>4 DEF RecordFails, Releases
    <3> HIDE DEF k
    <3> QED BY <1>2, <1>5, <2>1, <3>1, QuietOnce
  <2> QED BY <2>3, <2>4
<1>8. CASE Release(h)
  <2>1. /\ UNCHANGED decisions /\ req[h].step = "release"
        /\ Answer(h, "failed", 0) \/ Answer(h, "error", 0)
    BY <1>8 DEF Release, At
  <2>2. ApprovedIsRollback'
    BY <2>1 DEF Once, ApprovedIsRollback
  <2>3. artifacts[k] = 0
    BY <1>4, <2>1 DEF Opened
  <2>4. /\ events'[k].row = 0
        /\ \A kk \in Envs \ {k} : events'[kk] = events[kk] /\ artifacts'[kk] = artifacts[kk]
    BY <1>t, <1>2, <1>3, <1>8 DEF Release, Free
  <2>5. /\ \A g \in Requests \ {h} : req'[g] = req[g]
        /\ req'[h].step = "idle"
    BY <1>5, <2>1
  <2> HIDE DEF k
  <2> QED BY <1>t, <1>2, <2>1, <2>2, <2>3, <2>4, <2>5, KeyOnce
<1> QED BY <1>6, <1>7, <1>8

\* Every step preserves Once.
LEMMA OnceStep ==
  ASSUME ~AckLost, IInv, Once, [Next]_vars
  PROVE  Once'
<1>1. ASSUME NEW h \in Requests, Handler(h) PROVE Once'
  BY <1>1, EarlyOnce, ClaimOnce, ActOnce, RecordOnce DEF Handler
<1>2. ASSUME NEW i \in Instances, Crash(i) PROVE Once'
  <2>1. UNCHANGED <<events, decisions, artifacts>>
    BY <1>2 DEF Crash, storeVars
  <2>2. \A h \in Requests : req'[h] = req[h] \/ req'[h].step = "idle"
    BY <1>2 DEF Crash, NoRequest
  <2>3. ApprovedIsRollback' /\ OpenedIsKept'
    BY <2>1 DEF Once, ApprovedIsRollback, OpenedIsKept
  <2>4. EvictsNoIssue'
    BY <2>1, <2>2 DEF Once, EvictsNoIssue
  <2>5. HolderOpenedNone'
    BY <2>1, <2>2 DEF Once, HolderOpenedNone, Holds, Opened
  <2> QED BY <2>3, <2>4, <2>5 DEF Once
<1>3. ASSUME NEW i \in Rows, Expire(i) PROVE Once'
  <2>1. UNCHANGED <<events, artifacts, req>>
    BY <1>3 DEF Expire, rest
  <2>2. /\ DOMAIN decisions' = DOMAIN decisions
        /\ \A j \in DOMAIN decisions :
             /\ decisions'[j].act = decisions[j].act
             /\ decisions'[j].approval # "none" => decisions[j].approval # "none"
    <3>1. decisions \in Seq(Decision) /\ i \in DOMAIN decisions
          /\ decisions' = [decisions EXCEPT ![i].approval = "expired"]
          /\ decisions[i].approval = "live"
      BY <1>3 DEF Expire, IInv, TypeOK
    <3>2. DOMAIN decisions = 1..Len(decisions) /\ Len(decisions) \in Nat
          /\ decisions \in [1..Len(decisions) -> Decision]
      BY <3>1
    <3> QED BY <3>1, <3>2 DEF Decision
  <2>3. ApprovedIsRollback' /\ HolderOpenedNone'
    BY <2>1, <2>2 DEF Once, ApprovedIsRollback, HolderOpenedNone, Holds, Opened
  <2>4. EvictsNoIssue'
    BY <2>1, <2>2 DEF Once, EvictsNoIssue, IInv, EvictsStale
  <2>5. OpenedIsKept'
    BY <2>1, <2>2 DEF Once, OpenedIsKept, IInv, Pointed
  <2> QED BY <2>3, <2>4, <2>5 DEF Once
<1>4. CASE \/ \E e \in Envs : Deploy(e)
           \/ \E m \in Modes : SetDial(m)
           \/ UNCHANGED vars
  <2>1. UNCHANGED <<events, decisions, artifacts, req>>
    BY <1>4 DEF Deploy, SetDial, storeVars, vars
  <2> QED
    BY <2>1 DEF Once, ApprovedIsRollback, EvictsNoIssue, OpenedIsKept,
       HolderOpenedNone, Holds, Opened
<1> QED BY <1>1, <1>2, <1>3, <1>4 DEF Next

\* Where no acknowledgement is lost, a drift is one issue, across crashes, evictions
\* and retries, however many instances and requests work on it.
THEOREM SingleIssue ==
  ASSUME ~AckLost
  PROVE  Spec => []OneArtifact
<1>1. Init => Once
  BY DEF Init, Once, ApprovedIsRollback, EvictsNoIssue, OpenedIsKept,
     HolderOpenedNone, Holds, Opened, Free, NoRequest
<1>2. IInv /\ Once /\ [Next]_vars => Once'
  BY OnceStep
<1>3. Once => OneArtifact
  BY DEF Once, OpenedIsKept, OneArtifact
<1> QED BY <1>1, <1>2, <1>3, Invariance, PTL DEF Spec

\* A request in progress has not answered.
Unanswered == \A h \in Requests : req[h].step # "idle" => req[h].answer = "none"

\* Every step preserves that.
LEMMA UnansweredStep == TypeOK /\ Unanswered /\ [Next]_vars => Unanswered'
<1> SUFFICES ASSUME TypeOK, Unanswered, [Next]_vars PROVE Unanswered'
  OBVIOUS
<1>1. \A h \in Requests : req[h] \in Request
  BY DEF TypeOK
<1>2. ASSUME NEW h \in Requests, NEW a, NEW i, Answer(h, a, i) PROVE Unanswered'
  BY <1>1, <1>2 DEF Answer, Unanswered, TypeOK, Request
<1>3. ASSUME NEW h \in Requests, NEW step, Goto(h, step), req[h].step # "idle"
      PROVE  Unanswered'
  BY <1>1, <1>3 DEF Goto, Unanswered, TypeOK, Request
<1>4. ASSUME NEW h \in Requests, Handler(h) PROVE Unanswered'
  <2>1. CASE Arrive(h)
    <3>1. PICK m \in {dial, "observe"} :
            req' = [req EXCEPT ![h] = [NoRequest EXCEPT !.step = "turn",
                                                        !.mode = m]]
      BY <2>1 DEF Arrive
    <3> QED BY <3>1 DEF NoRequest, Unanswered, TypeOK
  <2>2. CASE AgentRead(h)
    BY <1>1, <2>2 DEF AgentRead, At, Unanswered, TypeOK, Request
  <2>3. CASE PostRead(h)
    <3>1. PICK act \in Actions, e \in Envs, o \in {world, None} :
            req' = [req EXCEPT ![h].step = "lookup", ![h].act = act,
                               ![h].post = o, ![h].key = e]
      BY <2>3 DEF PostRead
    <3>2. req[h].answer = "none"
      BY <2>3 DEF PostRead, At, Unanswered
    <3> QED BY <1>1, <3>1, <3>2 DEF Unanswered, TypeOK, Request
  <2>4. CASE Fails(h) \/ Reread(h) \/ Record(h) \/ Release(h)
    BY <1>2, <2>4 DEF Fails, Reread, Record, Release
  <2>5. CASE Lookup(h)
    <3>1. \/ \E a \in Answers, i \in {0, FindDecision(req[h].key)} : Answer(h, a, i)
          \/ \E i \in {0, FindDecision(req[h].key)}, s \in {"claim", "evict"} :
               req' = [req EXCEPT ![h].stale = i, ![h].step = s]
      <4>1. {"refused", "served", "conflict"} \subseteq Answers
        BY DEF Answers
      <4> QED BY <2>5, <4>1 DEF Lookup
    <3>2. req[h].answer = "none"
      BY <2>5 DEF Lookup, At, Unanswered
    <3>3. ASSUME NEW i, NEW s \in {"claim", "evict"},
                 req' = [req EXCEPT ![h].stale = i, ![h].step = s]
          PROVE  Unanswered'
      BY <1>1, <3>2, <3>3 DEF Unanswered, TypeOK, Request
    <3> QED BY <1>2, <3>1, <3>3
  <2>6. CASE Evict(h)
    BY <1>3, <2>6 DEF Evict, At
  <2>7. CASE Claim(h)
    BY <1>2, <1>3, <2>7 DEF Claim, At
  <2>8. CASE Propose(h) \/ Perform(h)
    BY <1>2, <1>3, <2>8 DEF Propose, Perform, At
  <2>9. CASE RecordFails(h)
    <3>1. \/ Answer(h, "error", 0)
          \/ \E i \in {0, Len(decisions) + 1} :
               req' = [req EXCEPT ![h].step = "release", ![h].row = i]
      BY <2>9 DEF RecordFails
    <3>2. req[h].answer = "none"
      BY <2>9 DEF RecordFails, At, Unanswered
    <3>3. ASSUME NEW i, req' = [req EXCEPT ![h].step = "release", ![h].row = i]
          PROVE  Unanswered'
      BY <1>1, <3>2, <3>3 DEF Unanswered, TypeOK, Request
    <3> QED BY <1>2, <3>1, <3>3
  <2> QED
    BY <1>4, <2>1, <2>2, <2>3, <2>4, <2>5, <2>6, <2>7, <2>8, <2>9 DEF Handler
<1>5. ASSUME NEW i \in Instances, Crash(i) PROVE Unanswered'
  BY <1>5 DEF Crash, Unanswered, NoRequest
<1>6. ASSUME UNCHANGED req PROVE Unanswered'
  BY <1>6 DEF Unanswered
<1> QED
  BY <1>4, <1>5, <1>6 DEF Next, Deploy, SetDial, Expire, vars

\* Whatever row of its key a request may be served, it is about the violation
\* the request itself observed, or nothing it contradicts.
LEMMA ServableIsSound ==
  ASSUME IInv, NEW h \in Requests, req[h].step \in {"lookup", "reread"},
         Servable(req[h], FindDecision(req[h].key))
  PROVE  LET d == decisions[FindDecision(req[h].key)]
         IN  /\ d.act = "rollback" =>
                  /\ req[h].post # None
                  /\ req[h].post.env = d.about
                  /\ d.about \in Violating
                  /\ d.approval # "expired"
             /\ d.act = "no_op" => req[h].act = "no_op"
<1> DEFINE i == FindDecision(req[h].key)
<1>1. req[h].key \in Envs /\ (req[h].post # None => req[h].post.env = req[h].key)
  BY DEF IInv, Admitted, LoopSteps, Steps, Late
<1>2. i # 0
  BY DEF Servable
<1>3. i \in DOMAIN decisions /\ decisions[i].key = req[h].key
  BY <1>1, <1>2, FindType DEF IInv
<1>4. /\ decisions[i].about = req[h].key
      /\ decisions[i].act = "rollback" => decisions[i].about \in Violating
  BY <1>3 DEF IInv, AboutItsKey, Grounded
<1> HIDE DEF i
<1>5. /\ decisions[i].act = "rollback" => req[h].post # None
      /\ decisions[i].approval # "expired"
      /\ decisions[i].act = "no_op" => req[h].act = "no_op"
  BY <1>2 DEF Servable, NeedsGroundTruth, Stale, i
<1> QED BY <1>1, <1>4, <1>5 DEF i

\* A request in progress is served by its lookup or by rereading its key, and
\* told that it failed by what gives its key up.
LEMMA AnsweredWhere ==
  ASSUME TypeOK, Unanswered, [Next]_vars, NEW h \in Requests,
         req[h].step # "idle", req'[h].answer \in {"served", "failed"}
  PROVE  \/ /\ req'[h].answer = "served"
            /\ req[h].step \in {"lookup", "reread"}
            /\ Servable(req[h], FindDecision(req[h].key))
            /\ req'[h].row = FindDecision(req[h].key)
         \/ /\ req'[h].answer = "failed"
            /\ req[h].step = "release"
            /\ events' = [events EXCEPT ![req[h].key] = Free]
<1>1. req[h] \in Request /\ req[h].answer = "none"
  BY DEF TypeOK, Unanswered
<1>2. req' # req /\ req'[h] # req[h]
  BY <1>1
<1>3. ~\E i \in Instances : Crash(i)
  BY <1>1 DEF Crash, NoRequest
<1>4. PICK g \in Requests : Handler(g)
  BY <1>2, <1>3 DEF Next, Deploy, SetDial, Expire, vars
<1>5. \A a, i : Answer(g, a, i) =>
                g = h /\ a = req'[h].answer /\ req'[h].row = i
  BY <1>1, <1>2 DEF Answer, TypeOK, Request
<1>6. \A step : ~Goto(g, step)
  BY <1>1 DEF Goto, TypeOK, Request
<1>7. ~Arrive(g)
  <2> SUFFICES ASSUME Arrive(g) PROVE FALSE
    OBVIOUS
  <2>1. PICK m \in {dial, "observe"} :
          req' = [req EXCEPT ![g] = [NoRequest EXCEPT !.step = "turn",
                                                      !.mode = m]]
    BY DEF Arrive
  <2>2. g # h
    BY DEF Arrive, At
  <2> QED BY <1>2, <2>1, <2>2 DEF TypeOK
<1>8. ~AgentRead(g) /\ ~PostRead(g)
  <2>1. ASSUME NEW S, req' = [req EXCEPT ![g].seen = S] PROVE FALSE
    BY <1>1, <2>1 DEF TypeOK, Request
  <2>2. ASSUME NEW act, NEW e, NEW o,
               req' = [req EXCEPT ![g].step = "lookup", ![g].act = act,
                                  ![g].post = o, ![g].key = e]
        PROVE  FALSE
    BY <1>1, <2>2 DEF TypeOK, Request
  <2>3. ~AgentRead(g)
    <3> SUFFICES ASSUME AgentRead(g) PROVE FALSE
      OBVIOUS
    <3>1. req' = [req EXCEPT ![g].seen = req[g].seen \cup {world}]
      BY DEF AgentRead
    <3> QED BY <2>1, <3>1
  <2>4. ~PostRead(g)
    <3> SUFFICES ASSUME PostRead(g) PROVE FALSE
      OBVIOUS
    <3>1. PICK act \in Actions, e \in Envs, o \in {world, None} :
            req' = [req EXCEPT ![g].step = "lookup", ![g].act = act,
                               ![g].post = o, ![g].key = e]
      BY DEF PostRead
    <3> QED BY <2>2, <3>1
  <2> QED BY <2>3, <2>4
<1>9. ~Evict(g) /\ ~Propose(g) /\ ~Perform(g)
  BY <1>5, <1>6 DEF Evict, Propose, Perform
<1>10. ~Fails(g) /\ ~Claim(g) /\ ~Record(g)
  BY <1>5, <1>6 DEF Fails, Claim, Record
<1>11. ~RecordFails(g)
  <2>1. ASSUME NEW i, req' = [req EXCEPT ![g].step = "release", ![g].row = i]
        PROVE  FALSE
    BY <1>1, <2>1 DEF TypeOK, Request
  <2> QED BY <1>5, <2>1 DEF RecordFails
<1>12. CASE Lookup(g)
  <2>1. ASSUME NEW i, NEW s,
               req' = [req EXCEPT ![g].stale = i, ![g].step = s]
        PROVE  FALSE
    BY <1>1, <2>1 DEF TypeOK, Request
  <2>2. /\ Servable(req[g], FindDecision(req[g].key))
        /\ Answer(g, "served", FindDecision(req[g].key))
        /\ req[g].step = "lookup"
    BY <1>5, <1>12, <2>1 DEF Lookup, At
  <2> QED BY <1>5, <2>2
<1>13. CASE Reread(g)
  <2>1. /\ Servable(req[g], FindDecision(req[g].key))
        /\ Answer(g, "served", FindDecision(req[g].key))
        /\ req[g].step = "reread"
    BY <1>5, <1>13 DEF Reread, At
  <2> QED BY <1>5, <2>1
<1>14. CASE Release(g)
  <2>1. ~Answer(g, "error", 0)
    BY <1>5
  <2>2. /\ req[g].step = "release"
        /\ events' = [events EXCEPT ![req[g].key] = Free]
        /\ Answer(g, "failed", 0)
    BY <1>14, <2>1 DEF Release, At
  <2> QED BY <1>5, <2>2
<1> QED
  BY <1>4, <1>7, <1>8, <1>9, <1>10, <1>11, <1>12, <1>13, <1>14 DEF Handler

\* No request is ever served a rollback it has no ground for, or a verdict it
\* contradicts, whoever else is working on its key.
THEOREM ServingIsSound == Spec => ServedIsServable
<1>1. Init => Unanswered
  BY DEF Init, Unanswered, NoRequest
<1>2. IInv /\ Unanswered /\ [Next]_vars =>
        \A h \in Requests :
          req[h].step # "idle" /\ req'[h].answer = "served" =>
            LET d == decisions[req'[h].row]
            IN  /\ d.act = "rollback" =>
                     /\ req[h].post # None
                     /\ req[h].post.env = d.about
                     /\ d.about \in Violating
                     /\ d.approval # "expired"
                /\ d.act = "no_op" => req[h].act = "no_op"
  BY AnsweredWhere, ServableIsSound DEF IInv
<1>3. TypeOK /\ Unanswered /\ [Next]_vars => Unanswered'
  BY UnansweredStep
<1> QED BY <1>1, <1>2, <1>3, Invariance, TypeCorrect, PTL DEF Spec, ServedIsServable

\* What a release gives up is the claim of the request that fails, and it
\* points to no decision but the one that request wrote.
LEMMA ReleaseIsOwn ==
  ASSUME IInv, NEW h \in Requests, req[h].step = "release",
         events' = [events EXCEPT ![req[h].key] = Free]
  PROVE  /\ ~events'[req[h].key].claimed
         /\ \A g \in Requests \ {h} : ~Holds(g, req[h].key)
         /\ events[req[h].key].row \in {0, req[h].row}
<1>1. /\ req[h].key \in Envs /\ Holds(h, req[h].key)
      /\ \A g \in Requests \ {h} : ~Holds(g, req[h].key)
  BY SoleHolder
<1>2. events[req[h].key] = [claimed |-> TRUE, row |-> req[h].row]
  BY <1>1 DEF IInv, HeldByHolder
<1>3. events'[req[h].key] = Free
  BY <1>1 DEF IInv, TypeOK
<1> QED BY <1>1, <1>2, <1>3 DEF Free

\* A request that answers that it failed has freed its key for the retry, and
\* never a claim or a decision of another request, however many overlap, and
\* whichever of their writes are not acknowledged.
THEOREM FailuresFreeTheirOwn == Spec => FailureFreesItsOwn
<1>1. Init => Unanswered
  BY DEF Init, Unanswered, NoRequest
<1>2. IInv /\ Unanswered /\ [Next]_vars =>
        \A h \in Requests :
          LET k == req[h].key
          IN  req[h].step # "idle" /\ req'[h].answer = "failed" =>
                /\ ~events'[k].claimed
                /\ \A g \in Requests \ {h} : ~Holds(g, k)
                /\ events[k].row \in {0, req[h].row}
  BY AnsweredWhere, ReleaseIsOwn DEF IInv
<1>3. TypeOK /\ Unanswered /\ [Next]_vars => Unanswered'
  BY UnansweredStep
<1> QED
  BY <1>1, <1>2, <1>3, Invariance, TypeCorrect, PTL DEF Spec, FailureFreesItsOwn

-----------------------------------------------------------------------------
(* The trigger: it never loses sight of the latest version, for any number  *)
(* of changes, event copies and container deaths.                           *)

\* What is heard of and what is queued has happened; an audit that is not
\* there has read nothing and owes nothing.
Bounded == /\ heard \subseteq 1..version
           /\ tasks \subseteq 1..version
           /\ due \subseteq heard
           /\ \A v \in Versions : inflight[v] > 0 => v <= version
           /\ ~active => ~dirty /\ seen = 0 /\ due = {}

Open == version > 0 /\ covered # version /\ version \notin missed

\* An open version is in flight, queued or heard of; one that was heard of is
\* what the running audit started after, or will be rerun for; and an audit
\* that started after the latest version can have read nothing older.
Known == Open => \/ inflight[version] > 0
                 \/ version \in tasks
                 \/ version \in heard
Pursued == Open /\ version \in heard => active /\ (dirty \/ version \in due)
UpToDate == seen # 0 /\ version \in due => seen = version

TriggerInv == TriggerTypeOK /\ Bounded /\ Known /\ Pursued /\ UpToDate

\* The initial states satisfy the invariant.
LEMMA TriggerStarts == TriggerInit => TriggerInv
<1> SUFFICES ASSUME TriggerInit PROVE TriggerInv
  OBVIOUS
<1> USE TriggerAssumption DEF TriggerInit, Versions
<1>1. active \in BOOLEAN /\ dirty \in BOOLEAN
  OBVIOUS
<1>2. TriggerTypeOK
  BY <1>1 DEF TriggerTypeOK
<1>3. Bounded
  BY DEF Bounded
<1>4. Known /\ Pursued /\ UpToDate
  BY DEF Known, Pursued, UpToDate, Open
<1> QED BY <1>2, <1>3, <1>4 DEF TriggerInv

\* Each step preserves the invariant.
LEMMA TriggerSteps == TriggerInv /\ [TriggerNext]_triggerVars => TriggerInv'
<1> SUFFICES ASSUME TriggerInv, [TriggerNext]_triggerVars PROVE TriggerInv'
  OBVIOUS
<1> USE TriggerAssumption
        DEF TriggerInv, TriggerTypeOK, Bounded, Known, Pursued, UpToDate, Open, Versions
<1>1. CASE Change
  <2>1. /\ version \in 0..MaxVersion /\ version' = version + 1
        /\ version' \in 1..MaxVersion
        /\ version' \notin heard /\ version' \notin due
    BY <1>1 DEF Change
  <2>2. /\ inflight' \in [1..MaxVersion -> 0..MaxCopies]
        /\ inflight'[version'] = 1
        /\ \A v \in 1..MaxVersion : inflight'[v] > 0 => v <= version'
    BY <1>1, <2>1 DEF Change
  <2>3. UNCHANGED <<paused, tasks, active, dirty, seen, heard, due, covered,
                    missed, deaths>>
    BY <1>1 DEF Change, coalescer
  <2>4. TriggerTypeOK' /\ Bounded'
    BY <2>1, <2>2, <2>3
  <2>5. Known' /\ Pursued' /\ UpToDate'
    BY <2>1, <2>2, <2>3
  <2> QED BY <2>4, <2>5
<1>2. CASE \E v \in Versions : Duplicate(v)
  <2> PICK v \in Versions : Duplicate(v)
    BY <1>2
  <2>1. active' \in BOOLEAN /\ dirty' \in BOOLEAN
    BY DEF Duplicate, coalescer
  <2>2. TriggerTypeOK'
    BY <2>1 DEF Duplicate, coalescer
  <2>3. Bounded'
    BY DEF Duplicate, coalescer
  <2>4. Known' /\ Pursued' /\ UpToDate'
    BY DEF Duplicate, coalescer
  <2> QED BY <2>2, <2>3, <2>4
<1>3. CASE SetPause
  BY <1>3 DEF SetPause, coalescer
<1>4. CASE \E v \in Versions : Accept(v)
  <2> PICK v \in Versions : Accept(v)
    BY <1>4
  <2>1. active' \in BOOLEAN /\ dirty' \in BOOLEAN
    BY DEF Accept, coalescer
  <2>2. TriggerTypeOK'
    BY <2>1 DEF Accept, coalescer
  <2>3. Bounded'
    BY DEF Accept, coalescer
  <2>4. Known' /\ Pursued' /\ UpToDate'
    BY DEF Accept, coalescer
  <2> QED BY <2>2, <2>3, <2>4
<1>5. CASE \E v \in Versions : Drop(v)
  <2> PICK v \in Versions : Drop(v)
    BY <1>5
  <2>1. active' \in BOOLEAN /\ dirty' \in BOOLEAN
    BY DEF Drop, coalescer
  <2>2. TriggerTypeOK'
    BY <2>1 DEF Drop, coalescer
  <2>3. Bounded'
    BY DEF Drop, coalescer
  <2>4. Known' /\ Pursued' /\ UpToDate'
    BY DEF Drop, coalescer
  <2> QED BY <2>2, <2>3, <2>4
<1>6. CASE \E v \in Versions : Coalesce(v)
  <2> PICK v \in Versions : Coalesce(v)
    BY <1>6
  <2>1. active' \in BOOLEAN /\ dirty' \in BOOLEAN
    BY DEF Coalesce, Marks
  <2>2. TriggerTypeOK'
    BY <2>1 DEF Coalesce, Marks
  <2>3. Bounded'
    BY DEF Coalesce, Marks
  <2>4. Known' /\ Pursued' /\ UpToDate'
    BY DEF Coalesce, Marks
  <2> QED BY <2>2, <2>3, <2>4
<1>7. CASE \E v \in Versions : StartTask(v)
  <2>1. active' \in BOOLEAN /\ dirty' \in BOOLEAN
    BY <1>7 DEF StartTask
  <2>2. TriggerTypeOK'
    BY <1>7, <2>1 DEF StartTask
  <2>3. Bounded' /\ Known' /\ Pursued' /\ UpToDate'
    BY <1>7 DEF StartTask
  <2> QED BY <2>2, <2>3
<1>8. CASE AuditReads
  <2>1. active' \in BOOLEAN /\ dirty' \in BOOLEAN
    BY <1>8 DEF AuditReads
  <2>2. TriggerTypeOK'
    BY <1>8, <2>1 DEF AuditReads
  <2>3. Bounded' /\ Known' /\ Pursued' /\ UpToDate'
    BY <1>8 DEF AuditReads
  <2> QED BY <2>2, <2>3
<1>9. CASE AuditDone
  <2>1. CASE dirty
    <3>1. active' \in BOOLEAN /\ dirty' \in BOOLEAN
      BY <1>9, <2>1 DEF AuditDone, Finish, Ends
    <3>2. TriggerTypeOK'
      BY <1>9, <2>1, <3>1 DEF AuditDone, Finish, Ends
    <3>3. Bounded' /\ Known' /\ Pursued' /\ UpToDate'
      BY <1>9, <2>1 DEF AuditDone, Finish, Ends
    <3> QED BY <3>2, <3>3
  <2>2. CASE ~dirty
    <3>1. active' \in BOOLEAN /\ dirty' \in BOOLEAN
      BY <1>9, <2>2 DEF AuditDone, Finish, Ends
    <3>2. TriggerTypeOK'
      BY <1>9, <2>2, <3>1 DEF AuditDone, Finish, Ends
    <3>3. Bounded' /\ Known' /\ Pursued' /\ UpToDate'
      BY <1>9, <2>2 DEF AuditDone, Finish, Ends
    <3> QED BY <3>2, <3>3
  <2> QED BY <2>1, <2>2
<1>10. CASE AuditFails
  <2>1. CASE dirty
    <3>1. active' \in BOOLEAN /\ dirty' \in BOOLEAN
      BY <1>10, <2>1 DEF AuditFails, Finish, Ends
    <3>2. TriggerTypeOK'
      BY <1>10, <2>1, <3>1 DEF AuditFails, Finish, Ends
    <3>3. Bounded' /\ Known' /\ Pursued' /\ UpToDate'
      BY <1>10, <2>1 DEF AuditFails, Finish, Ends
    <3> QED BY <3>2, <3>3
  <2>2. CASE ~dirty
    <3>1. active' \in BOOLEAN /\ dirty' \in BOOLEAN
      BY <1>10, <2>2 DEF AuditFails, Finish, Ends
    <3>2. TriggerTypeOK'
      BY <1>10, <2>2, <3>1 DEF AuditFails, Finish, Ends
    <3>3. Bounded' /\ Known' /\ Pursued' /\ UpToDate'
      BY <1>10, <2>2 DEF AuditFails, Finish, Ends
    <3> QED BY <3>2, <3>3
  <2> QED BY <2>1, <2>2
<1>11. CASE ContainerDies
  <2>1. active' \in BOOLEAN /\ dirty' \in BOOLEAN
    BY <1>11 DEF ContainerDies
  <2>2. TriggerTypeOK'
    BY <1>11, <2>1 DEF ContainerDies
  <2>3. Bounded' /\ Known' /\ Pursued' /\ UpToDate'
    BY <1>11 DEF ContainerDies
  <2> QED BY <2>2, <2>3
<1>12. CASE UNCHANGED triggerVars
  BY <1>12 DEF triggerVars
<1> HIDE DEF TriggerInv, TriggerTypeOK, Bounded, Known, Pursued, UpToDate, Open, Versions
<1> QED
  BY <1>1, <1>2, <1>3, <1>4, <1>5, <1>6, <1>7, <1>8, <1>9, <1>10, <1>11,
     <1>12 DEF TriggerNext, Deliver, Task, Audit

\* The inductive invariant holds of every behaviour.
THEOREM TriggerInvariance == TriggerSpec => []TriggerInv
<1>1. TriggerInit => TriggerInv
  BY TriggerStarts
<1>2. TriggerInv /\ [TriggerNext]_triggerVars => TriggerInv'
  BY TriggerSteps
<1> QED BY <1>1, <1>2, PTL DEF TriggerSpec

\* Every variable of the trigger keeps its type, the two flags of the
\* coalescer included.
THEOREM TriggerTypeCorrect == TriggerSpec => []TriggerTypeOK
<1>1. TriggerInv => TriggerTypeOK
  BY DEF TriggerInv
<1> QED BY <1>1, TriggerInvariance, PTL

\* The coalescer loses nothing: the latest version is confirmed, given up on
\* record, or something that will look at it is still under way.
THEOREM LatestIsAccounted == TriggerSpec => []Accounted
<1>1. TriggerInv => Accounted
  BY DEF TriggerInv, Known, Pursued, Open, Accounted
<1> QED BY <1>1, TriggerInvariance, PTL

=============================================================================
