------------------------------ MODULE MCRecheck -----------------------------
\* Small instances of Recheck.
EXTENDS Recheck

\* Every request in one instance, or each in its own.
OneInstance == [h \in Requests |-> CHOOSE i \in Instances : TRUE]
OwnInstance == CHOOSE f \in [Requests -> Instances] :
                 \A g, h \in Requests : g # h => f[g] # f[h]
=============================================================================
