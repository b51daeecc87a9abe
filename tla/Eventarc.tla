------------------------------ MODULE Eventarc ------------------------------
(***************************************************************************)
(* The autonomous trigger of the coordinator: POST /eventarc acknowledges  *)
(* an audit-log event at once and audits in the background, one audit at a *)
(* time (_EventarcCoalescer, _eventarc_background_recheck and              *)
(* _run_eventarc_audit_once in agent/main.py).                             *)
(*                                                                         *)
(* A change of the target service is a version.  Each publishes one event, *)
(* which Pub/Sub delivers late, out of order and more than once.  Nothing  *)
(* redelivers an acknowledged event, so what matters is whether the latest *)
(* version is still going to be looked at.  Of the recheck an audit runs,  *)
(* only the coherence gate counts here: it confirms a version that the     *)
(* agent saw and that is still there when the turn ends (see Recheck).     *)
(***************************************************************************)
EXTENDS Naturals

CONSTANTS MaxVersion,  \* bound: changes of the service
          MaxCopies,   \* bound: copies of an event in flight
          MaxDeaths    \* bound: container deaths

ASSUME TriggerAssumption ==
  /\ MaxVersion \in Nat
  /\ MaxCopies \in Nat \ {0}
  /\ MaxDeaths \in Nat

VARIABLES
  version,   \* the latest version of the service; 0 is what it starts with
  inflight,  \* inflight[v]: copies of the event of v still to be delivered
  paused,    \* the kill switch
  tasks,     \* versions whose event was acknowledged, task not yet started
  active,    \* _EventarcCoalescer.active
  dirty,     \* _EventarcCoalescer.dirty
  seen,      \* what the agent of the running audit has read, 0: nothing yet
  heard,     \* versions whose task has started (history)
  due,       \* those heard of before the running audit (history)
  covered,   \* the latest version an audit has confirmed
  missed,    \* versions given up: event dropped, audit failed, or lost with
             \* its container (history)
  deaths     \* container deaths so far

triggerVars == <<version, inflight, paused, tasks, active, dirty, seen, heard,
                 due, covered, missed, deaths>>
coalescer == <<active, dirty, seen, heard, due, covered>>

Versions == 1..MaxVersion

-----------------------------------------------------------------------------
(* The service, its audit log and Pub/Sub                                  *)

Change == /\ version < MaxVersion
          /\ version' = version + 1
          /\ inflight' = [inflight EXCEPT ![version + 1] = 1]
          /\ UNCHANGED <<paused, tasks, coalescer, missed, deaths>>

Duplicate(v) == /\ inflight[v] \in 1..(MaxCopies - 1)
                /\ inflight' = [inflight EXCEPT ![v] = @ + 1]
                /\ UNCHANGED <<version, paused, tasks, coalescer, missed,
                               deaths>>

SetPause == /\ paused' = ~paused
            /\ UNCHANGED <<version, inflight, tasks, coalescer, missed,
                           deaths>>

-----------------------------------------------------------------------------
(* The endpoint                                                            *)

\* Only this answer is an acknowledgement that schedules an audit.  A 401 or
\* a 503 leaves the event in flight and is no step.
Accept(v) == /\ inflight[v] > 0
             /\ ~paused
             /\ inflight' = [inflight EXCEPT ![v] = @ - 1]
             /\ tasks' = tasks \cup {v}
             /\ UNCHANGED <<version, paused, coalescer, missed, deaths>>

\* While paused, or when the pause flag cannot be read, the event is
\* acknowledged and dropped.
Drop(v) == /\ inflight[v] > 0
           /\ inflight' = [inflight EXCEPT ![v] = @ - 1]
           /\ missed' = missed \cup ({v} \ (tasks \cup heard))
           /\ UNCHANGED <<version, paused, tasks, coalescer, deaths>>

-----------------------------------------------------------------------------
(* The background task                                                     *)

\* Mutant: a task that finds an audit in flight leaves it at that.
MarksNothing == dirty

\* What a task that finds an audit in flight leaves in dirty.
Marks == TRUE

\* A task starts while an audit is in flight, and ends.
Coalesce(v) == /\ v \in tasks /\ active
               /\ tasks' = tasks \ {v}
               /\ heard' = heard \cup {v}
               /\ dirty' = Marks
               /\ UNCHANGED <<version, inflight, paused, active, seen, due,
                              covered, missed, deaths>>

\* A task starts, and audits; dirty is cleared before the audit.
StartTask(v) == /\ v \in tasks /\ ~active
                /\ tasks' = tasks \ {v}
                /\ heard' = heard \cup {v}
                /\ active' = TRUE /\ dirty' = FALSE
                /\ seen' = 0 /\ due' = heard'
                /\ UNCHANGED <<version, inflight, paused, covered, missed,
                               deaths>>

\* The agent of the audit reads the service.
AuditReads ==
  /\ active /\ seen = 0 /\ version > 0
  /\ seen' = version
  /\ UNCHANGED <<version, inflight, paused, tasks, active, dirty,
                 heard, due, covered, missed, deaths>>

\* Mutant: the flag is cleared before it is looked at.
Leaves == TRUE

\* The loop is left when no event came in during the audit.
Ends == ~dirty

\* After an audit, without an await to the end: once more, or out through
\* finally.
Finish == /\ active' = ~Ends
          /\ dirty' = FALSE
          /\ seen' = 0
          /\ due' = IF Ends THEN {} ELSE heard
          /\ UNCHANGED heard

\* The turn ends and the service is read again: the version is confirmed, or
\* the gate refuses it because the service moved during the turn.
AuditDone == /\ active /\ seen # 0
             /\ covered' = IF seen = version THEN version ELSE covered
             /\ Finish
             /\ UNCHANGED <<version, inflight, paused, tasks, missed, deaths>>

\* Anything _do_recheck raises is contained, logged and not retried.
AuditFails == /\ active
              /\ missed' = missed \cup due
              /\ Finish
              /\ UNCHANGED <<version, inflight, paused, tasks, covered,
                             deaths>>

\* The container dies with its tasks, its audit and the two flags.
ContainerDies ==
  /\ deaths < MaxDeaths
  /\ deaths' = deaths + 1
  /\ missed' = missed \cup tasks \cup heard
  /\ tasks' = {} /\ active' = FALSE /\ dirty' = FALSE
  /\ seen' = 0 /\ due' = {}
  /\ UNCHANGED <<version, inflight, paused, heard, covered>>

-----------------------------------------------------------------------------
TriggerInit ==
  /\ version = 0
  /\ inflight = [v \in Versions |-> 0]
  /\ paused \in BOOLEAN
  /\ tasks = {}
  /\ active = FALSE /\ dirty = FALSE
  /\ seen = 0 /\ heard = {} /\ due = {}
  /\ covered = 0
  /\ missed = {}
  /\ deaths = 0

Deliver(v) == Accept(v) \/ Drop(v)
Task(v) == Coalesce(v) \/ StartTask(v)
Audit == AuditReads \/ AuditDone \/ AuditFails

TriggerNext ==
  \/ \E v \in Versions : Duplicate(v) \/ Deliver(v) \/ Task(v)
  \/ Change \/ SetPause \/ Audit \/ ContainerDies

TriggerSpec == TriggerInit /\ [][TriggerNext]_triggerVars

\* Pub/Sub delivers, the event loop runs the tasks it was given, and an audit
\* comes to an end, of whatever kind.
Fairness == /\ \A v \in Versions : /\ WF_triggerVars(Deliver(v))
                                   /\ WF_triggerVars(Task(v))
            /\ WF_triggerVars(Audit)
FairTrigger == TriggerSpec /\ Fairness

-----------------------------------------------------------------------------
(* Properties                                                              *)

TriggerTypeOK ==
  /\ version \in 0..MaxVersion
  /\ inflight \in [Versions -> 0..MaxCopies]
  /\ paused \in BOOLEAN
  /\ tasks \subseteq Versions
  /\ active \in BOOLEAN /\ dirty \in BOOLEAN
  /\ seen \in 0..MaxVersion
  /\ heard \subseteq Versions /\ due \subseteq Versions
  /\ covered \in 0..MaxVersion
  /\ missed \subseteq Versions
  /\ deaths \in 0..MaxDeaths

\* Nothing loses sight of the latest version: it is confirmed, given up on
\* record, or something that will look at it is still under way (its event,
\* its task, the audit that started after it, or that audit's rerun).
Accounted ==
  version > 0 /\ covered # version /\ version \notin missed =>
    \/ inflight[version] > 0
    \/ version \in tasks
    \/ active /\ (dirty \/ version \in due)

\* The service comes to rest at v: an audit confirms v, unless its event was
\* dropped, its audit failed or its container died.
LatestIsAudited ==
  \A v \in Versions :
    version = v ~> covered = v \/ version > v \/ v \in missed
=============================================================================
