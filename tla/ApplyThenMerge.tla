--------------------------- MODULE ApplyThenMerge ---------------------------
(***************************************************************************)
(* What the IaC approval lane promises of a plan that creates nothing:     *)
(* the infrastructure moves at most once, and never again after a verdict  *)
(* of failure; a verdict tells the truth and is never revised; and the     *)
(* lane merges a pull request only after its plan was applied.  IacApply   *)
(* implements this module.                                                 *)
(***************************************************************************)
CONSTANT Plans

VARIABLES infra,    \* infra[p]: what of p was done to the infrastructure
          verdict,  \* verdict[p]: what is on record of the apply of p
          merged    \* the plans whose pull request the lane merged

vars == <<infra, verdict, merged>>

Init == /\ infra = [p \in Plans |-> "untouched"]
        /\ verdict = [p \in Plans |-> "none"]
        /\ merged = {}

\* The one time the infrastructure moves, all the way or not; it may still
\* do so after nobody could tell what had become of the apply.
Move(p, outcome) == /\ infra[p] = "untouched"
                    /\ verdict[p] \in {"none", "ambiguous"}
                    /\ infra' = [infra EXCEPT ![p] = outcome]
                    /\ UNCHANGED <<verdict, merged>>

Settle(p, v) == /\ verdict[p] = "none"
                /\ v = "applied" => infra[p] = "applied"
                /\ v = "failed" => infra[p] = "untouched"
                /\ verdict' = [verdict EXCEPT ![p] = v]
                /\ UNCHANGED <<infra, merged>>

Merge(p) == /\ infra[p] = "applied"
            /\ verdict[p] \in {"none", "applied"}
            /\ merged' = merged \cup {p}
            /\ UNCHANGED <<infra, verdict>>

Next == \E p \in Plans :
          \/ \E outcome \in {"partial", "applied"} : Move(p, outcome)
          \/ \E v \in {"applied", "failed", "failed_state_suspect", "ambiguous"} :
               Settle(p, v)
          \/ Merge(p)

Spec == Init /\ [][Next]_vars
=============================================================================
