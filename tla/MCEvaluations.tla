---------------------------- MODULE MCEvaluations ----------------------------
(* Five families: two or three creations about one agent against the daily *)
(* limit, the second with an item of the first one's run as its source;    *)
(* replacements of the judges around a creation; topics that two starts,   *)
(* or a purge, write while a creation draws one.                           *)
EXTENDS Evaluations, TLC

CONSTANTS a1, a2, a3, u1, u2, c1, c2, c3, c4, r0, r1, r2, s1, s2, p1, x1

MCWanted    == r0 :> {a2} @@ r1 :> {a3} @@ r2 :> {}
MCOwnerOf   == a1 :> u1 @@ a2 :> u2 @@ a3 :> u1
MCCandidate == c1 :> a1 @@ c2 :> a1 @@ c3 :> a1 @@ c4 :> a1
MCKind      == c1 :> "run" @@ c2 :> "item" @@ c3 :> "none" @@ c4 :> "run"
MCSourceRun == c1 :> x1 @@ c2 :> c1 @@ c3 :> x1 @@ c4 :> x1
MCFamilies  == {{c1, c2, a1, x1}, {c1, c2, c4}, {c1, r1, r2, a3}, {c3, s1, s2}, {c3, p1}}
==============================================================================
