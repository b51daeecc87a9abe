------------------------- MODULE MCRollbackApproval ------------------------
\* Small instances of RollbackApproval.
EXTENDS RollbackApproval, TLC

\* Approvals, operations, revisions and requests are interchangeable; used
\* by RollbackPair, which checks no liveness property.
Symmetry == Permutations(Approvals) \cup Permutations(Ops)
              \cup Permutations(Handlers) \cup Permutations(Revisions)
=============================================================================
