-------------------------- MODULE OneShotRollback --------------------------
(***************************************************************************)
(* What the rollback approval lane promises, with none of its machinery:   *)
(* one credential per approval, spent or denied at most once; at most one  *)
(* traffic shift per spent credential, to the revision it was issued for;  *)
(* and a recorded verdict that, once given, is the truth about that shift  *)
(* and is never revised.  There are no requests, records, operation        *)
(* handles, timeouts or crashes here: RollbackApproval has those and       *)
(* implements this module.                                                 *)
(***************************************************************************)
CONSTANTS Approvals,   \* approval ids
          Revisions,   \* Cloud Run revision names
          None

VARIABLES life,     \* life[a]: what became of the credential of a
          goal,     \* goal[a]: the revision a was issued for
          shift,    \* shift[a]: the one traffic shift a ever starts
          verdict,  \* verdict[a]: the outcome on record
          active    \* the revision at 100% of traffic

vars == <<life, goal, shift, verdict, active>>

Init == /\ life = [a \in Approvals |-> "absent"]
        /\ goal = [a \in Approvals |-> None]
        /\ shift = [a \in Approvals |-> "none"]
        /\ verdict = [a \in Approvals |-> "open"]
        /\ active \in Revisions

\* A credential is issued for a revision other than the serving one.
Issue(a, r) == /\ life[a] = "absent"
               /\ r # active
               /\ life' = [life EXCEPT ![a] = "pending"]
               /\ goal' = [goal EXCEPT ![a] = r]
               /\ UNCHANGED <<shift, verdict, active>>

\* A pending credential is used up one way or the other, once.
Resolve(a, how) == /\ life[a] = "pending"
                   /\ life' = [life EXCEPT ![a] = how]
                   /\ UNCHANGED <<goal, shift, verdict, active>>

\* Only a spent credential with no verdict starts a shift, and only one.
Start(a) == /\ life[a] = "used"
            /\ shift[a] = "none"
            /\ verdict[a] = "open"
            /\ shift' = [shift EXCEPT ![a] = "running"]
            /\ UNCHANGED <<life, goal, verdict, active>>

\* Cloud Run completes the shift; only success moves the traffic.
Finish(a, s) == /\ shift[a] = "running"
                /\ shift' = [shift EXCEPT ![a] = s]
                /\ active' = IF s = "succeeded" THEN goal[a] ELSE active
                /\ UNCHANGED <<life, goal, verdict>>

\* The verdict is given once and only on evidence.
Settle(a, v) == /\ life[a] = "used"
                /\ verdict[a] = "open"
                /\ \/ v = "applied" /\ shift[a] = "succeeded"
                   \/ v = "failed" /\ shift[a] \in {"none", "failed"}
                /\ verdict' = [verdict EXCEPT ![a] = v]
                /\ UNCHANGED <<life, goal, shift, active>>

\* Somebody else deploys.
Deploy(r) == /\ active' = r
             /\ UNCHANGED <<life, goal, shift, verdict>>

Next == \/ \E a \in Approvals :
             \/ \E r \in Revisions : Issue(a, r)
             \/ \E how \in {"used", "denied"} : Resolve(a, how)
             \/ Start(a)
             \/ \E s \in {"succeeded", "failed", "malformed"} : Finish(a, s)
             \/ \E v \in {"applied", "failed"} : Settle(a, v)
        \/ \E r \in Revisions : Deploy(r)

Spec == Init /\ [][Next]_vars
=============================================================================
