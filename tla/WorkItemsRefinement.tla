------------------------ MODULE WorkItemsRefinement ------------------------
(***************************************************************************)
(* The concurrent transactions of WorkItems implement the atomic board of  *)
(* WorkItemBoard: every commit is one step of the board, every other step  *)
(* is invisible to it.                                                     *)
(***************************************************************************)
EXTENDS WorkItemsProofs

Holder == [w \in Item |-> IF lease[w] = "none" THEN NoAgent ELSE claimant[w]]

LEMMA BoardTypes ==
  ASSUME TypeOK
  PROVE  /\ status \in [Item -> Board!States]
         /\ Holder \in [Item -> Agent \cup {NoAgent}]
BY DEF TypeOK, Statuses, Board!States, Holder

(* A step that leaves the database alone, or only ages a lease, is hidden. *)
LEMMA Hidden ==
  ASSUME status' = status, claimant' = claimant,
         \A w \in Item : lease'[w] = "none" <=> lease[w] = "none"
  PROVE  UNCHANGED Board!bvars
BY DEF Board!bvars

(* Initial states map to initial states of the board.                      *)
LEMMA RefinesInit == Init => Board!BInit
BY DEF Init, Board!BInit

(* A grant of an offered item is the board's Claim.                        *)
LEMMA ClaimRefines ==
  ASSUME IInv, NEW w \in Item, NEW a \in Agent, status[w] = "offered", Grant(w, a)
  PROVE  Board!BNext
<1>1. Holder' = [Holder EXCEPT ![w] = a]
  BY DEF IInv, TypeOK, Grant, Holder
<1>2. Board!Claim(w, a)
  BY <1>1 DEF Grant, Board!Claim, Holder
<1> QED
  BY <1>2 DEF Board!BNext

(* A completion's commit is the board's Complete, or a rollback.           *)
LEMMA CompleteRefines ==
  ASSUME IInv, NEW t \in Tx, CompleteCommit(t)
  PROVE  [Board!BNext]_(Board!bvars)
<1>0. /\ TypeOK /\ LeasedIsClaimed /\ FollowsSteps(t)
      /\ pc[t] = "crediting" /\ target[t] \in Item
  BY DEF IInv, LocksFollowSteps, CompleteCommit, Named
<1> PICK w \in Item : w = target[t]
  BY <1>0
<1>1. CASE agentState[actor[t]] = "deleted"
  BY <1>1, Hidden DEF CompleteCommit, Rollback, committed
<1>2. CASE agentState[actor[t]] # "deleted"
  <2>1. /\ status' = IF itemLock[w] = t THEN [status EXCEPT ![w] = "completed"] ELSE status
        /\ lease' = WithoutLeases(LeasesHeld(t))
        /\ claimant' = claimant
    BY <1>2 DEF CompleteCommit
  <2>2. /\ \A v \in LeasesHeld(t) : v = w /\ itemLock[w] = t
        /\ itemLock[w] = t /\ lease[w] # "none" => w \in LeasesHeld(t)
    BY <1>0 DEF FollowsSteps, Completing, ItemsHeld, LeasesHeld, LeasedIsClaimed, TypeOK
  <2>3. CASE itemLock[w] = t
    <3>1. Holder' = [Holder EXCEPT ![w] = NoAgent]
      BY <1>0, <2>1, <2>2, <2>3 DEF Holder, WithoutLeases
    <3>2. status[w] \in {"offered", "claimed", "completed"}
      BY <1>0, <2>3 DEF FollowsSteps, UnderWay, Completing
    <3>3. Board!Complete(w)
      BY <2>1, <2>3, <3>1, <3>2 DEF Board!Complete, Holder
    <3> QED
      BY <1>0, <3>3 DEF Board!BNext
  <2>4. CASE itemLock[w] # t
    BY <2>1, <2>2, <2>4, Hidden DEF WithoutLeases
  <2> QED
    BY <2>3, <2>4
<1> QED
  BY <1>1, <1>2

(* A reclaimer's commit is the board's Release of the leases it deleted.   *)
LEMMA ReclaimRefines ==
  ASSUME IInv, NEW t \in Reclaimer, ReclaimCommit(t)
  PROVE  Board!BNext
<1> PICK W \in SUBSET Item : W = LeasesHeld(t)
  BY DEF LeasesHeld
<1>0. /\ TypeOK /\ LeasedIsClaimed /\ HolderKnown /\ FollowsSteps(t)
      /\ pc[t] = "releasing"
  BY DEF IInv, LocksFollowSteps, ReclaimCommit, Released, LeasesHeld, Tx
<1>1. \A w \in W : lease[w] # "none" /\ status[w] = "claimed" /\ claimant[w] \in Agent
  BY <1>0 DEF FollowsSteps, Releasing, Chosen, LeasedIsClaimed, HolderKnown
<1>2. \A w \in Item : w \in W <=> itemLock[w] = t
  BY <1>0 DEF FollowsSteps, Releasing, ReclaimCommit, Released, ItemsHeld
<1>3. /\ status' = [w \in Item |-> IF w \in W THEN "offered" ELSE status[w]]
      /\ Holder' = [w \in Item |-> IF w \in W THEN NoAgent ELSE Holder[w]]
  BY <1>0, <1>1, <1>2 DEF ReclaimCommit, Reoffered, WithoutLeases, Holder, TypeOK
<1>4. Board!Moves
  <2>1. /\ status' \in [Item -> Board!States]
        /\ Holder' \in [Item -> Agent \cup {NoAgent}]
    BY <1>0, <1>3, BoardTypes DEF Board!States
  <2> QED
    BY <2>1 DEF Board!Moves, Holder
<1>5. Board!Release
  BY <1>0, <1>1, <1>3, <1>4, ConstantsAssumption
     DEF Board!Release, Board!Stays, Board!PutBack, Holder
<1> QED
  BY <1>0, <1>5 DEF Board!BNext

(* The commit of an agent's deletion is the board's Leave: doomed items    *)
(* are withdrawn, its released leases put items back, and what it claimed  *)
(* since then is left without a holder.                                    *)
LEMMA DeletionRefines ==
  ASSUME IInv, NEW t \in Handler, DeleteAgentRow(t)
  PROVE  [Board!BNext]_(Board!bvars)
<1>0. /\ TypeOK /\ LeasedIsClaimed /\ HolderKnown /\ FollowsSteps(t)
      /\ pc[t] = "releasing" /\ actor[t] \in Agent
      /\ doomed[t] \in SUBSET Item /\ LeasesHeld(t) \in SUBSET Item
  BY DEF IInv, LocksFollowSteps, DeleteAgentRow, Released, LeasesHeld, Tx, Named, TypeOK
<1> PICK a \in Agent : a = actor[t]
  BY <1>0
<1> DEFINE Cascade == {w \in Item : lease[w] # "none" /\ claimant[w] = a}
<1> PICK Gone \in SUBSET Item : Gone = doomed[t]
  BY <1>0
<1> PICK Back \in SUBSET Item : Back = LeasesHeld(t) \ Gone
  BY <1>0
<1> PICK Left \in SUBSET Item : Left = Cascade \ (Gone \cup Back)
  OBVIOUS
<1>1. CASE agentState[a] = "deleted"
  BY <1>1, Hidden DEF DeleteAgentRow, Rollback, committed
<1>2. CASE agentState[a] # "deleted"
  <2>1. /\ status' = [w \in Item |-> IF w \in doomed[t] THEN "gone" ELSE Reoffered(t)[w]]
        /\ lease' = WithoutLeases(LeasesHeld(t) \cup Cascade)
        /\ claimant' = claimant
    BY <1>2 DEF DeleteAgentRow
  <2>2. \A w \in Back : lease[w] # "none" /\ status[w] = "claimed" /\ claimant[w] = a
    BY <1>0 DEF FollowsSteps, Releasing, Chosen, LeasedIsClaimed, LeasesHeld
  <2>3. \A w \in Item : w \in Back \cup Gone <=> itemLock[w] = t
    BY <1>0 DEF FollowsSteps, Releasing, DeleteAgentRow, Released, ItemsHeld
  <2>4. \A w \in Gone : itemLock[w] = t /\ (w \in LeasesHeld(t) \/ lease[w] = "none")
    BY <1>0 DEF FollowsSteps, Releasing, ItemsHeld, LeasesHeld
  <2>5. \A w \in Left : status[w] = "claimed" /\ lease[w] # "none" /\ claimant[w] = a
    BY <1>0 DEF LeasedIsClaimed
  <2>6. status' = [w \in Item |-> IF w \in Gone THEN "gone"
                                  ELSE IF w \in Back THEN "offered" ELSE status[w]]
    BY <1>0, <2>1, <2>2, <2>3 DEF Reoffered, TypeOK
  <2>7. Holder' = [w \in Item |-> IF w \in Gone \cup Back \cup Left THEN NoAgent ELSE Holder[w]]
    BY <1>0, <2>1, <2>2, <2>4 DEF WithoutLeases, Holder, TypeOK
  <2>8. \A w \in Gone : status[w] # "absent"
    BY <1>0 DEF FollowsSteps, Releasing
  <2>9. \A w \in Back \cup Left : status[w] = "claimed" /\ Holder[w] = a
    BY <1>0, <2>2, <2>5 DEF Holder
  <2>10. \A w \in Item : Holder[w] = a => w \in Gone \cup Back \cup Left
    BY <1>0, ConstantsAssumption DEF Holder
  <2>11. Board!Moves
    <3>1. /\ status' \in [Item -> Board!States]
          /\ Holder' \in [Item -> Agent \cup {NoAgent}]
      BY <1>0, <2>6, <2>7, BoardTypes DEF Board!States
    <3> QED
      BY <3>1 DEF Board!Moves, Holder
  <2>12. ASSUME NEW w \in Item
         PROVE  \/ Board!Stays(w) /\ Holder[w] # a
                \/ Board!IsGone(w) /\ status[w] # "absent"
                \/ /\ status[w] = "claimed" /\ Holder[w] = a
                   /\ Board!PutBack(w) \/ Board!IsLeft(w)
    <3>1. CASE w \in Gone
      BY <2>6, <2>7, <2>8, <3>1 DEF Board!IsGone, Holder
    <3>2. CASE w \in (Back \cup Left) \ Gone
      BY <2>6, <2>7, <2>9, <3>2 DEF Board!PutBack, Board!IsLeft, Holder
    <3>3. CASE w \notin Gone \cup Back \cup Left
      BY <2>6, <2>7, <2>10, <3>3 DEF Board!Stays, Holder
    <3> QED
      BY <3>1, <3>2, <3>3
  <2>13. Board!Leave(a)
    BY <2>11, <2>12 DEF Board!Leave, Holder
  <2> QED
    BY <2>13 DEF Board!BNext
<1> QED
  BY <1>1, <1>2

(* Every step maps to a step of the board or to a stutter.                 *)
LEMMA RefinesStep ==
  ASSUME IInv, [Next]_vars
  PROVE  [Board!BNext]_(Board!bvars)
<1> USE DEF committed, requests, locks
<1>1. ASSUME NEW w \in Item, CreateWorkItem(w)
      PROVE  [Board!BNext]_(Board!bvars)
  <2>1. Board!Create(w)
    BY <1>1 DEF CreateWorkItem, Board!Create
  <2> QED
    BY <2>1 DEF Board!BNext
<1>2. ASSUME NEW w \in Item, SchedulePending(w)
      PROVE  [Board!BNext]_(Board!bvars)
  <2>1. Board!ComeDue(w)
    BY <1>2 DEF SchedulePending, Due, Board!ComeDue
  <2> QED
    BY <2>1 DEF Board!BNext
<1>3. ASSUME NEW w \in Item, Expire(w)
      PROVE  [Board!BNext]_(Board!bvars)
  BY <1>3, Hidden DEF Expire, IInv, TypeOK
<1>4. ASSUME NEW w \in Item, DeleteRun(w)
      PROVE  [Board!BNext]_(Board!bvars)
  <2>1. Holder' = [Holder EXCEPT ![w] = NoAgent]
    BY <1>4 DEF DeleteRun, Holder, IInv, TypeOK
  <2>2. Board!Withdraw(w)
    BY <1>4, <2>1 DEF DeleteRun, Exists, Board!Withdraw, Holder
  <2> QED
    BY <2>2 DEF Board!BNext
<1>5. ASSUME EnsurePublisherAgentsOffered
      PROVE  [Board!BNext]_(Board!bvars)
  BY <1>5, Hidden DEF EnsurePublisherAgentsOffered
<1>6. ASSUME NEW a \in Agent, ClaimNext(a)
      PROVE  [Board!BNext]_(Board!bvars)
  BY <1>6, ClaimRefines DEF ClaimNext
<1>7. ASSUME NEW a \in Agent, NEW st \in {"enabled", "disabled"}, SetAgentStatus(a, st)
      PROVE  [Board!BNext]_(Board!bvars)
  BY <1>7, Hidden DEF SetAgentStatus
<1>8. ASSUME NEW t \in Handler, NEW w \in Item, NEW a \in Agent, ClaimCheckOffer(t, w, a)
      PROVE  [Board!BNext]_(Board!bvars)
  BY <1>8, Hidden DEF ClaimCheckOffer
<1>9. ASSUME NEW t \in Handler, NEW w \in Item, NEW a \in Agent, CompleteCheckLease(t, w, a)
      PROVE  [Board!BNext]_(Board!bvars)
  BY <1>9, Hidden DEF CompleteCheckLease
<1>10. ASSUME NEW t \in Handler, NEW a \in Agent, DeleteAgentStart(t, a)
      PROVE  [Board!BNext]_(Board!bvars)
  BY <1>10, Hidden DEF DeleteAgentStart
<1>11. ASSUME NEW t \in Reclaimer, ReclaimStart(t)
      PROVE  [Board!BNext]_(Board!bvars)
  BY <1>11, Hidden DEF ReclaimStart
<1>12. ASSUME NEW t \in Tx, ClaimLocked(t)
      PROVE  [Board!BNext]_(Board!bvars)
  <2>1. CASE UNCHANGED committed
    BY <2>1, Hidden
  <2>2. CASE Claimable(target[t]) /\ Grant(target[t], actor[t])
    BY <1>12, <2>2, ClaimRefines DEF ClaimLocked, Claimable, IInv, Named
  <2> QED
    BY <1>12, <2>1, <2>2 DEF ClaimLocked, Rollback
<1>13. ASSUME NEW t \in Tx, CompleteUpdateItem(t)
      PROVE  [Board!BNext]_(Board!bvars)
  BY <1>13, Hidden DEF CompleteUpdateItem
<1>14. ASSUME NEW t \in Tx, CompleteDeleteLease(t)
      PROVE  [Board!BNext]_(Board!bvars)
  BY <1>14, Hidden DEF CompleteDeleteLease
<1>15. ASSUME NEW t \in Tx, CompleteCommit(t)
      PROVE  [Board!BNext]_(Board!bvars)
  BY <1>15, CompleteRefines
<1>16. ASSUME NEW t \in Tx, ReleaseLease(t)
      PROVE  [Board!BNext]_(Board!bvars)
  BY <1>16, Hidden DEF ReleaseLease
<1>17. ASSUME NEW t \in Tx, ReleaseItem(t)
      PROVE  [Board!BNext]_(Board!bvars)
  BY <1>17, Hidden DEF ReleaseItem
<1>18. ASSUME NEW t \in Tx, DeleteItem(t)
      PROVE  [Board!BNext]_(Board!bvars)
  BY <1>18, Hidden DEF DeleteItem
<1>19. ASSUME NEW t \in Tx, DeleteItsLease(t)
      PROVE  [Board!BNext]_(Board!bvars)
  BY <1>19, Hidden DEF DeleteItsLease
<1>20. ASSUME NEW t \in Tx, ReleaseAgentLeases(t)
      PROVE  [Board!BNext]_(Board!bvars)
  BY <1>20, Hidden DEF ReleaseAgentLeases
<1>21. ASSUME NEW t \in Reclaimer, ReclaimCommit(t)
      PROVE  [Board!BNext]_(Board!bvars)
  BY <1>21, ReclaimRefines
<1>22. ASSUME NEW t \in Handler, DeleteAgentRow(t)
      PROVE  [Board!BNext]_(Board!bvars)
  BY <1>22, DeletionRefines
<1>23. ASSUME NEW t \in Tx, Abort(t)
      PROVE  [Board!BNext]_(Board!bvars)
  BY <1>23, Hidden DEF Abort, Rollback
<1>24. CASE UNCHANGED vars
  BY <1>24, Hidden DEF vars
<1> QED
  BY <1>1, <1>2, <1>3, <1>4, <1>5, <1>6, <1>7, <1>8, <1>9, <1>10, <1>11, <1>12, <1>13, <1>14,
     <1>15, <1>16, <1>17, <1>18, <1>19, <1>20, <1>21,
     <1>22, <1>23, <1>24 DEF Next, Progress

(* Claims, completions, reclaims and deletions, run as interleaved         *)
(* transactions, look like atomic steps of the board.                      *)
THEOREM Refinement == Spec => ImplementsBoard
<1>1. IInv /\ [Next]_vars => [Board!BNext]_(Board!bvars)
  BY RefinesStep
<1> QED
  BY <1>1, RefinesInit, Invariance, PTL DEF Spec, ImplementsBoard, Board!BSpec
=============================================================================
