----------------------------- MODULE MCModeration -----------------------------
(***************************************************************************)
(* Instances of Moderation for TLC: a page that is read while runs come    *)
(* and go, a page and a decision about content of the platform's run, and  *)
(* overlapping decisions without a page.                                   *)
(***************************************************************************)
EXTENDS Moderation, TLC

CONSTANTS d1, d2, a1, l1, l2

Symmetry == Permutations(Load) \cup Permutations(Decision)

Is(kind, run, listed, system) ==
  [kind |-> kind, run |-> run, listed |-> listed, system |-> system, evaluation |-> FALSE,
   key |-> kind = "event"]

TwoRuns  == <<Is("run", 1, TRUE, FALSE), Is("event", 1, TRUE, FALSE),
              Is("run", 3, TRUE, FALSE), Is("artifact", 3, TRUE, FALSE)>>
Builtin  == <<Is("run", 1, TRUE, TRUE), Is("event", 1, TRUE, FALSE),
              Is("artifact", 1, TRUE, FALSE), Is("artifact", 1, TRUE, FALSE)>>
Unlisted == <<Is("run", 1, TRUE, FALSE), Is("run", 2, FALSE, FALSE),
              Is("artifact", 2, FALSE, FALSE), Is("artifact", 1, TRUE, FALSE)>>
Evaluated == [Unlisted EXCEPT ![2].evaluation = TRUE]

MCFamilies == {<<TwoRuns, 1..4 \cup {a1}>>, <<Builtin, {1, 2, a1, d1}>>,
               <<Builtin, 1..4 \cup {d1, d2}>>, <<Unlisted, 1..4 \cup {d1, d2}>>,
               <<Evaluated, 1..4 \cup {d1, d2}>>}

Pending  == [status |-> "pending", kinds |-> Kind]
Works    == [status |-> "approved", kinds |-> {"run", "artifact"}]
MCFilter == {Pending, Works}
=============================================================================
