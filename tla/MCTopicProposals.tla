-------------------------- MODULE MCTopicProposals --------------------------
(***************************************************************************)
(* An instance of TopicProposals for TLC.  The agent proposes under k1 and *)
(* k2 (a title with question marks), writes k1 again with a garbled        *)
(* request, and stores a request under k3 that is no proposal.             *)
(***************************************************************************)
EXTENDS TopicProposals

CONSTANTS a1, k1, k2, k3

MCProposer == [k \in Key |-> a1]
MCKeyOf    == <<k1, k3, k1, k2>>
MCForm     == <<"sound", "untyped", "garbled", "marred">>
=============================================================================
