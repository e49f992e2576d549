------------------------ MODULE MCMultiAgentReview ------------------------
EXTENDS MultiAgentReview
=============================================================================
