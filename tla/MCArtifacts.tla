----------------------------- MODULE MCArtifacts -----------------------------
(***************************************************************************)
(* An instance of Artifacts for TLC.  a1 has a check-in item, a2 did its   *)
(* check-in before; the run "own" is published by the owner of a1 and its  *)
(* first item was offered to a2 only, as a1 was disabled then.  Either a1  *)
(* proposes two tasks in its check-in after that item is completed, or     *)
(* submits a draft and a remark; or a1 and a2 submit a final artifact to   *)
(* "own" each.                                                             *)
(***************************************************************************)
EXTENDS Artifacts, TLC

CONSTANTS a1, a2, checkin, own, i1, i2, i3, s1, s2

Symmetry == Permutations({s1, s2})

Says(a, r, f) == [author |-> a, run |-> r, form |-> f]

newTask == Says(a1, checkin, "proposal")
remark  == Says(a1, checkin, "remark")
draft   == Says(a1, checkin, "draft")
story   == Says(a2, own, "text")
sequel  == Says(a1, own, "text")

MCContent  == {newTask, remark, draft, story, sequel}
MCRequests == {q \in [Submission -> MCContent] :
                 {q[s1], q[s2]} \in {{newTask}, {remark, draft}, {story, sequel}}}

MCInit ==
  /\ Init
  /\ finished = IF request[s1] = newTask THEN {i2, i3} ELSE {i2}

MCSpec == MCInit /\ [][Next]_vars

MCRunOf     == [w \in Item |-> IF w = i3 THEN own ELSE checkin]
MCInvited   == [w \in Item |-> IF w = i1 THEN {a1} ELSE {a2}]
MCOwnAgents == [r \in Run |-> IF r = own THEN {a1} ELSE {}]
=============================================================================
