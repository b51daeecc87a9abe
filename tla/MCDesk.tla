-------------------------------- MODULE MCDesk ------------------------------
\* Small instances of Desk.
EXTENDS Desk, TLC

CONSTANTS a1, a2

MCRows == <<a1, a2>>

\* POSTs are interchangeable; the rows are not, their order counts.
MCAlike == Permutations(Posts)
=============================================================================
