------------------------------- MODULE Recheck ------------------------------
(***************************************************************************)
(* The recheck pipeline of the coordinator: _do_recheck and _do_rollback   *)
(* in agent/main.py over the events/ and decisions/ collections of         *)
(* FirestoreStateStore (agent/state_store.py).                             *)
(*                                                                         *)
(* A request runs an agent turn, reads the service after it, derives the   *)
(* event key from that read and then looks up, evicts, claims, acts and    *)
(* records.  Everything after the post-turn read runs without an await:    *)
(* requests of one instance interleave in their turns only, requests of    *)
(* two instances (a rolling deploy overlaps them) at every call.           *)
(*                                                                         *)
(* The trigger, the service and the contract are fixed, so an event key is *)
(* the live env it is hashed from.  force=true derives a key nobody else   *)
(* ever looks up, and the non-ADK path is the turn that sees exactly what  *)
(* the request reads: neither adds a behaviour here.                       *)
(***************************************************************************)
EXTENDS Naturals, FiniteSets, Sequences

CONSTANTS Envs,          \* live environments of the target service
          Violating,     \* those with an observed hard contract violation
          Requests,      \* rechecks that can be in progress at once
          Instances,     \* coordinator containers running at once
          Home,          \* Home[h]: the instance that serves request h
          AckLost,       \* whether a committed write may look failed
          None,          \* an absent value
          MaxRevision,   \* bound: revisions ever deployed
          MaxDecisions,  \* bound: decision rows ever written
          MaxCrashes     \* bound: container deaths

ASSUME ConstantsAssumption ==
  /\ Violating \subseteq Envs
  /\ Home \in [Requests -> Instances]
  /\ AckLost \in BOOLEAN
  /\ None \notin Envs
  /\ MaxRevision \in Nat \ {0} /\ MaxDecisions \in Nat /\ MaxCrashes \in Nat

VARIABLES
  world,      \* the serving revision and its env
  dial,       \* the autonomy dial
  events,     \* events[k]: the event document of key k
  decisions,  \* the decision rows, in order of create_time
  artifacts,  \* artifacts[k]: issues and PRs opened for key k
  crashes,    \* container deaths so far
  req         \* req[h]: the request in progress, or its last answer

vars == <<world, dial, events, decisions, artifacts, crashes, req>>
storeVars == <<events, decisions>>
rest == <<world, dial, artifacts, crashes>>

-----------------------------------------------------------------------------
(* The world and what is said of it                                        *)

\* Revision 0 is a service none of whose deploys ever succeeded: a revision
\* that cannot be compared.
NoRevision == 0
World == [env : Envs, rev : 0..MaxRevision]

\* "issue" stands for the actions that open something on GitHub
\* (drift_issue, escalation, docs_pr).
Actions == {"no_op", "issue", "rollback"}
Modes == {"observe", "propose"}
Many == 2  \* bound: artifacts of a key are counted none, one, two or more

Rows == 1..MaxDecisions
Decision == [key : Envs, act : Actions, about : Envs,
             approval : {"none", "live", "expired"}, suppressed : BOOLEAN]
Event == [claimed : BOOLEAN, row : {0} \cup Rows]
Free == [claimed |-> FALSE, row |-> 0]

Steps == {"idle", "turn", "lookup", "evict", "reread", "claim", "act",
          "record", "release"}
LoopSteps == Steps \ {"idle", "turn"}

\* "failed" is the 502 of a request that handled its failure, "error" an
\* exception it did not.
Answers == {"none", "served", "recorded", "refused", "conflict", "failed",
            "error"}

Request == [step : Steps, mode : Modes, seen : SUBSET World,
            post : World \cup {None}, act : Actions \cup {None},
            key : Envs \cup {None}, stale : {0} \cup Rows,
            row : {0} \cup Rows, answer : Answers]

NoRequest == [step |-> "idle", mode |-> "observe", seen |-> {},
              post |-> None, act |-> None, key |-> None, stale |-> 0,
              row |-> 0, answer |-> "none"]

-----------------------------------------------------------------------------
(* Environment                                                             *)

\* Somebody deploys a revision, with any env.
Deploy(e) == /\ world.rev < MaxRevision
             /\ world' = [env |-> e, rev |-> world.rev + 1]
             /\ UNCHANGED <<dial, storeVars, artifacts, crashes, req>>

SetDial(m) == /\ dial # m
              /\ dial' = m
              /\ UNCHANGED <<world, storeVars, artifacts, crashes, req>>

\* An approval passes its 15 minutes.  Not while the request that minted it
\* is still in progress: requests end within 300 seconds.
Expire(i) == /\ i \in DOMAIN decisions
             /\ decisions[i].approval = "live"
             /\ \A h \in Requests : req[h].step = "idle" \/ req[h].row # i
             /\ decisions' = [decisions EXCEPT ![i].approval = "expired"]
             /\ UNCHANGED <<events, rest, req>>

-----------------------------------------------------------------------------
(* The store                                                               *)

\* find_decision_for_event: the pointer of the event document or, where there
\* is none, the newest row that carries the key; 0 when there is no row.
FindDecision(k) ==
  LET same == {i \in DOMAIN decisions : decisions[i].key = k}
  IN  IF events[k].row # 0 THEN events[k].row
      ELSE IF same = {} THEN 0
      ELSE CHOOSE i \in same : \A j \in same : j <= i

\* Mutant: an eviction that does not look at who holds the key.
EvictableBlind(k, i) == TRUE

\* evict_cached_decision: the transaction succeeds when there is nothing to
\* clobber or what is there is the row to evict.
Evictable(k, i) == ~events[k].claimed \/ events[k].row = i

\* The row record_decision writes for request r.
Minted(r) == r.act = "rollback" /\ r.mode = "propose"
Row(r) == [key |-> r.key, act |-> r.act,
           about |-> IF r.seen = {} THEN None
                     ELSE (CHOOSE o \in r.seen : TRUE).env,
           approval |-> IF Minted(r) THEN "live" ELSE "none",
           suppressed |-> r.mode = "observe" /\ r.act # "no_op"]

\* record_decision: one batch, the row and the pointer to it.
Commit(r) ==
  /\ Len(decisions) < MaxDecisions
  /\ decisions' = Append(decisions, Row(r))
  /\ events' = [events EXCEPT ![r.key] = [claimed |-> TRUE,
                                          row |-> Len(decisions) + 1]]

-----------------------------------------------------------------------------
(* Requests                                                                *)

\* The event loop of an instance is held from a post-turn read to an answer.
LoopFree(h) == \A g \in Requests :
                 g # h /\ Home[g] = Home[h] => req[g].step \notin LoopSteps

At(h, step) == req[h].step = step /\ LoopFree(h)
Goto(h, step) == req' = [req EXCEPT ![h].step = step]

Answer(h, a, i) ==
  req' = [req EXCEPT ![h] = [@ EXCEPT !.step = "idle", !.seen = {},
                                      !.post = None, !.key = None,
                                      !.stale = 0, !.row = i, !.answer = a]]

\* The dial is read once; a failed read counts as observe.
Arrive(h) ==
  /\ At(h, "idle")
  /\ \E m \in {dial, "observe"} :
       req' = [req EXCEPT ![h] = [NoRequest EXCEPT !.step = "turn",
                                                   !.mode = m]]
  /\ UNCHANGED <<storeVars, rest>>

\* The agent's read_live_env tool, as reported through reader_sink: distinct
\* observations only.
AgentRead(h) ==
  /\ At(h, "turn")
  /\ req' = [req EXCEPT ![h].seen = @ \cup {world}]
  /\ UNCHANGED <<storeVars, rest>>

\* The turn ends, with any proposal, and the service is read again.  When
\* that read fails the key is hashed from the diffs the model reported.
PostRead(h) ==
  /\ At(h, "turn")
  /\ \E act \in Actions, e \in Envs, o \in {world, None} :
       /\ o # None => e = world.env
       /\ req' = [req EXCEPT ![h].step = "lookup", ![h].act = act,
                             ![h].post = o, ![h].key = e]
  /\ UNCHANGED <<storeVars, rest>>

\* The agent fails or answers no proposal, or a store call raises before the
\* request has claimed anything.
Fails(h) ==
  /\ \E step \in {"turn", "lookup", "evict", "reread", "claim"} : At(h, step)
  /\ Answer(h, "error", 0)
  /\ UNCHANGED <<storeVars, rest>>

\* Mutant: the post-turn read is not asked for.
NeedsNothing(r, i) == FALSE

\* _cached_rollback_needs_ground_truth
NeedsGroundTruth(r, i) ==
  i # 0 /\ r.post = None /\ decisions[i].act = "rollback"

\* _cached_decision_is_stale: an expired approval, or a no_op that the fresh
\* proposal contradicts.
Stale(r, i) == /\ i # 0
               /\ \/ decisions[i].approval = "expired"
                  \/ decisions[i].act = "no_op" /\ r.act # "no_op"

Servable(r, i) == i # 0 /\ ~NeedsGroundTruth(r, i) /\ ~Stale(r, i)

\* validate: a rollback needs an observed violation.
Validated(r) == r.act = "rollback" =>
                  r.post # None /\ r.post.env \in Violating

\* Mutant: one of the envs the agent saw is the one seen now.
ConfirmedByEnv(r) == r.post # None /\ \E o \in r.seen : o.env = r.post.env

\* The coherence gate: the agent looked, saw one world, and it is the world
\* this request sees now, at a known revision.
Confirmed(r) == r.seen = {r.post} /\ r.post # None /\ r.post.rev # NoRevision

\* Cache lookup, validate and the gate: one store read, then pure checks.
Lookup(h) ==
  LET r == req[h]
      i == FindDecision(r.key)
      fresh == ~NeedsGroundTruth(r, i) /\ ~Servable(r, i)
  IN  /\ At(h, "lookup")
      /\ \/ NeedsGroundTruth(r, i) /\ Answer(h, "refused", 0)
         \/ Servable(r, i) /\ Answer(h, "served", i)
         \/ fresh /\ ~Validated(r) /\ Answer(h, "refused", 0)
         \/ fresh /\ Validated(r) /\ ~Confirmed(r) /\ Answer(h, "conflict", 0)
         \/ /\ fresh /\ Validated(r) /\ Confirmed(r)
            /\ req' = [req EXCEPT ![h].stale = i,
                                  ![h].step = IF i = 0 THEN "claim"
                                                       ELSE "evict"]
      /\ UNCHANGED <<storeVars, rest>>

\* The stale row is evicted only now that its replacement is admitted.
Evict(h) ==
  LET k == req[h].key
  IN  /\ At(h, "evict")
      /\ IF Evictable(k, req[h].stale)
         THEN Goto(h, "claim") /\ events' = [events EXCEPT ![k] = Free]
         ELSE Goto(h, "reread") /\ UNCHANGED events
      /\ UNCHANGED <<decisions, rest>>

\* Where nothing may leave the coordinator the decision is recorded at once.
Suppressed(r) == r.act = "no_op" \/ r.mode = "observe"

\* Mutant: whoever loses the claim fails like everybody after it, through the
\* exit that releases.
ClaimSharesExit(h) ==
  LET k == req[h].key
  IN  /\ At(h, "claim")
      /\ \/ /\ events[k].claimed
            /\ Goto(h, "release")
            /\ UNCHANGED events
         \/ /\ ~events[k].claimed
            /\ events' = [events EXCEPT ![k].claimed = TRUE]
            /\ \/ Goto(h, IF Suppressed(req[h]) THEN "record" ELSE "act")
               \/ AckLost /\ Answer(h, "error", 0)
      /\ UNCHANGED <<decisions, rest>>

\* record_event: create the event document, or learn that it exists; or it is
\* created and the call raises, which ends the request.
Claim(h) ==
  LET k == req[h].key
  IN  /\ At(h, "claim")
      /\ \/ /\ events[k].claimed
            /\ Goto(h, "reread")
            /\ UNCHANGED events
         \/ /\ ~events[k].claimed
            /\ events' = [events EXCEPT ![k].claimed = TRUE]
            /\ \/ Goto(h, IF Suppressed(req[h]) THEN "record" ELSE "act")
               \/ AckLost /\ Answer(h, "error", 0)
      /\ UNCHANGED <<decisions, rest>>

\* A lost eviction or claim: hand back the winner's row if it is there and
\* this request may be served it.
Reread(h) ==
  LET r == req[h]
      i == FindDecision(r.key)
  IN  /\ At(h, "reread")
      /\ \/ NeedsGroundTruth(r, i) /\ Answer(h, "refused", 0)
         \/ Servable(r, i) /\ Answer(h, "served", i)
         \/ /\ ~NeedsGroundTruth(r, i) /\ ~Servable(r, i)
            /\ Answer(h, "conflict", 0)
      /\ UNCHANGED <<storeVars, rest>>

\* POST /propose to the rollback worker, the checks on its answer and the
\* rendering of it: an approval in hand, or a failure.  Only the token for the
\* call is minted outside of what is caught: where Google's auth library
\* raises, the request ends with its claim in place.
Propose(h) ==
  /\ At(h, "act") /\ req[h].act = "rollback"
  /\ \/ \E step \in {"record", "release"} : Goto(h, step)
     \/ Answer(h, "error", 0)
  /\ UNCHANGED <<storeVars, rest>>

\* _perform_action: opened, failed, or opened and the response lost.
Perform(h) ==
  LET k == req[h].key
  IN  /\ At(h, "act") /\ req[h].act = "issue"
      /\ \E opened \in BOOLEAN, step \in {"record", "release"} :
           /\ step = "record" => opened
           /\ step = "release" => AckLost \/ ~opened
           /\ artifacts' = [artifacts EXCEPT ![k] = IF opened /\ @ < Many
                                                       THEN @ + 1 ELSE @]
           /\ Goto(h, step)
      /\ UNCHANGED <<storeVars, world, dial, crashes>>

Record(h) == /\ At(h, "record")
             /\ Commit(req[h])
             /\ Answer(h, "recorded", Len(decisions) + 1)
             /\ UNCHANGED rest

\* Only where an approval was minted is a failed record_decision answered by
\* a release; everywhere else the exception escapes and the claim stays.
Releases(r) == Minted(r)

\* record_decision raises: nothing was written or, when an acknowledgement
\* may be lost, everything was.
RecordFails(h) ==
  LET r == req[h]
  IN  /\ At(h, "record")
      /\ \E committed \in BOOLEAN :
           /\ committed => AckLost
           /\ IF committed THEN Commit(r) ELSE UNCHANGED storeVars
           /\ IF Releases(r)
              THEN req' = [req EXCEPT ![h].step = "release",
                                      ![h].row = IF committed
                                                 THEN Len(decisions) + 1
                                                 ELSE 0]
              ELSE Answer(h, "error", 0)
      /\ UNCHANGED rest

\* release_event, an unconditional delete, and the 502; or the delete raises
\* in its turn.
Release(h) ==
  /\ At(h, "release")
  /\ \/ /\ events' = [events EXCEPT ![req[h].key] = Free]
        /\ Answer(h, "failed", 0)
     \/ /\ UNCHANGED events
        /\ Answer(h, "error", 0)
  /\ UNCHANGED <<decisions, rest>>

\* A request holds its key from the claim to its last write.
Holds(h, k) == req[h].step \in {"act", "record", "release"} /\ req[h].key = k

\* The container of instance i dies with every request in it.
Crash(i) ==
  /\ crashes < MaxCrashes
  /\ crashes' = crashes + 1
  /\ req' = [h \in Requests |-> IF Home[h] = i THEN NoRequest ELSE req[h]]
  /\ UNCHANGED <<world, dial, storeVars, artifacts>>

-----------------------------------------------------------------------------
Init == /\ world \in [env : Envs, rev : {NoRevision, 1}]
        /\ dial \in Modes
        /\ events = [k \in Envs |-> Free]
        /\ decisions = <<>>
        /\ artifacts = [k \in Envs |-> 0]
        /\ crashes = 0
        /\ req = [h \in Requests |-> NoRequest]

Handler(h) == \/ Arrive(h) \/ AgentRead(h) \/ Fails(h) \/ PostRead(h)
              \/ Lookup(h) \/ Evict(h) \/ Claim(h) \/ Reread(h)
              \/ Propose(h) \/ Perform(h) \/ Record(h) \/ RecordFails(h)
              \/ Release(h)

Next == \/ \E h \in Requests : Handler(h)
        \/ \E i \in Instances : Crash(i)
        \/ \E e \in Envs : Deploy(e)
        \/ \E m \in Modes : SetDial(m)
        \/ \E i \in Rows : Expire(i)

Spec == Init /\ [][Next]_vars

-----------------------------------------------------------------------------
(* Properties                                                              *)

TypeOK == /\ world \in World
          /\ dial \in Modes
          /\ events \in [Envs -> Event]
          /\ decisions \in Seq(Decision) /\ Len(decisions) <= MaxDecisions
          /\ artifacts \in [Envs -> 0..Many]
          /\ crashes \in 0..MaxCrashes
          /\ req \in [Requests -> Request]

\* A recorded decision is about the env its key names, whatever was deployed
\* during the turn: no verdict is filed under a world nobody looked at.
AboutItsKey == \A i \in DOMAIN decisions :
                 decisions[i].about = decisions[i].key

\* One drift, one live approval: however rechecks of a key overlap, fail and
\* are retried, no second approval becomes reachable while one is live.
Live(k) == {i \in DOMAIN decisions :
              decisions[i].key = k /\ decisions[i].approval = "live"}
OneLiveApproval == \A k \in Envs : Cardinality(Live(k)) <= 1

\* One drift, one issue or PR, across crashes and retries.
OneArtifact == \A k \in Envs : artifacts[k] <= 1

\* Of all requests on a key at most one is between its claim and its last
\* write, although release_event deletes whatever claim it finds.
OneHolder == \A g, h \in Requests, k \in Envs :
               Holds(g, k) /\ Holds(h, k) => g = h

\* A failure that invites a retry (a 502 after the claim) has made room for it
\* and took nothing of another's: the key is free, nobody else held it, and no
\* decision was pointed to but the one this request failed to be told of.
FailureFreesItsOwn ==
  [][\A h \in Requests :
       LET k == req[h].key
       IN  req[h].step # "idle" /\ req'[h].answer = "failed" =>
             /\ ~events'[k].claimed
             /\ \A g \in Requests \ {h} : ~Holds(g, k)
             /\ events[k].row \in {0, req[h].row}]_vars

\* What a request is served from the cache, at any of its exits: a rollback
\* only about the violating env the request itself observed and with an
\* approval not yet expired; "nothing is wrong" only if it found the same.
ServedIsServable ==
  [][\A h \in Requests :
       req[h].step # "idle" /\ req'[h].answer = "served" =>
         LET d == decisions[req'[h].row]
         IN  /\ d.act = "rollback" =>
                  /\ req[h].post # None
                  /\ req[h].post.env = d.about
                  /\ d.about \in Violating
                  /\ d.approval # "expired"
             /\ d.act = "no_op" => req[h].act = "no_op"]_vars

-----------------------------------------------------------------------------
(* What the source says of itself and does not keep                        *)

\* evict_cached_decision: "a failed repair leaves the key in a state the next
\* delivery can pick up", a failed record_decision included: with no request
\* in progress and no container dead, a key that has a row is not left with a
\* bare claim, which nothing will ever evict or release.
RetryableWhenQuiet ==
  crashes = 0 /\ (\A h \in Requests : req[h].step = "idle") =>
    \A i \in DOMAIN decisions :
      LET e == events[decisions[i].key] IN e.claimed => e.row # 0

\* _do_rollback: "On any failure up to and including the decision write, the
\* claim is released so retries can proceed."  A proposal that fails, in the
\* request that made it, does not end with its key claimed.
ProposalFailsFree ==
  [][\A h \in Requests :
       req[h].step = "act" /\ req[h].act = "rollback"
       /\ req'[h].step = "idle" /\ req'[h].answer # "none" =>
         ~events'[req[h].key].claimed]_vars
=============================================================================
