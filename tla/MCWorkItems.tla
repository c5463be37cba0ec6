---------------------------- MODULE MCWorkItems ----------------------------
(***************************************************************************)
(* Instances of WorkItems for TLC.  Item 1 of the safety instances is an   *)
(* onboarding item of agent a2.  Reviews are those of an artifact of a     *)
(* built-in run; every other item belongs to a run that u1, the owner of   *)
(* a1, publishes.                                                          *)
(***************************************************************************)
EXTENDS WorkItems, TLC

CONSTANTS a1, a2, u0, u1, u2, h1, h2, api, worker

MCOwner     == [a \in Agent |-> IF a = a1 THEN u1 ELSE u2]
MCBuiltIn   == {w \in Item : Kind[w] \in {"platform", "review"}}
MCPublisher == [w \in Item |-> IF w \in BuiltIn THEN u0 ELSE u1]
MCTags      == [w \in Item |-> Agent]
MCNewcomer  == [w \in Item |-> CHOOSE a \in Agent : a1 \in Agent \ {a} \/ Agent = {a}]

(* An onboarding item and the first item of a run.                         *)
MCDraftKind == [w \in Item |-> IF w = 1 THEN "platform" ELSE "draft"]

(* An onboarding item and the item of a pre-review evaluation.             *)
MCEvaluationKind == [w \in Item |-> IF w = 1 THEN "platform" ELSE "evaluation"]

(* The first item of a run and a request to review its artifact.           *)
MCReviewKind == [w \in Item |-> IF w = 1 THEN "draft" ELSE "review"]

Symmetry == Permutations(Handler)
=============================================================================
