------------------------ MODULE MCReviewConversation ------------------------
(* Instances of ReviewConversation and SubAgents for TLC. *)
EXTENDS SubAgents

MCDeployments == {<<"redis", 3>>, <<"memory", 3>>, <<"redis", 0>>}

\* All reviews were made.
Finished == stage = "idle" /\ reviews = MaxReviews /\ UNCHANGED conversationVars

MCSpec == ConversationInit /\ [][ConversationNext \/ Finished]_conversationVars
MCFairSpec == MCSpec /\ ConversationFairness
=============================================================================
