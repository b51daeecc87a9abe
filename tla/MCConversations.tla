-------------------------- MODULE MCConversations --------------------------
\* Small instances of Conversations.
EXTENDS Conversations, TLC

Symmetry == Permutations(Requests) \cup Permutations(Crews)
=============================================================================
