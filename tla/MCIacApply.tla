----------------------------- MODULE MCIacApply -----------------------------
\* Small instances of IacApply: an update at one head of a pull request and
\* a create at the next.
EXTENDS IacApply, TLC

CONSTANTS update, create, q1, h1, h2, r1, r2

PullOfPlan == (update :> q1) @@ (create :> q1)
HeadOfPlan == (update :> h1) @@ (create :> h2)

\* The POSTs about a create come one after the other.
OneByOne == (r1 :> {update, create}) @@ (r2 :> {update})
\* They may overlap.
AnyPlan == [r \in Requests |-> Plans]

Symmetry == Permutations(Approvals)
=============================================================================
