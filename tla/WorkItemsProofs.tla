-------------------------- MODULE WorkItemsProofs --------------------------
(***************************************************************************)
(* What holds of WorkItems for any sets of agents, items, request handlers *)
(* and reclaimers: the inductive invariant IInv, and what follows from it. *)
(***************************************************************************)
EXTENDS WorkItems, FiniteSetTheorems, WellFoundedInduction, TLAPS

(* The end of a transaction leaves the request and lock variables well     *)
(* typed.                                                                  *)
LEMMA EndType ==
  ASSUME TypeOK, NEW t \in Tx, NEW W \in SUBSET Item, End(t, W)
  PROVE  /\ pc' \in [Tx -> Steps]
         /\ actor' \in [Tx -> Agent \cup {NoAgent}]
         /\ target' \in [Tx -> Item \cup {NoItem}]
         /\ todo' \in [Tx -> SUBSET Item]
         /\ doomed' \in [Tx -> SUBSET Item]
         /\ itemLock' \in [Item -> Tx \cup {NoTx}]
         /\ leaseLock' \in [Item -> Tx \cup {NoTx}]
BY DEF TypeOK, End, Begin, Steps

(* Initially every variable has its type.                                  *)
LEMMA TypeInit == Init => TypeOK
BY ConstantsAssumption DEF Init, TypeOK, Statuses, Steps

(* Every step keeps every variable within its type.                        *)
LEMMA TypeStep == TypeOK /\ [Next]_vars => TypeOK'
<1> SUFFICES ASSUME TypeOK, [Next]_vars PROVE TypeOK'
  OBVIOUS
<1> USE DEF TypeOK, committed, requests, locks, Statuses, Steps
<1>1. ASSUME NEW w \in Item, CreateWorkItem(w)
      PROVE  TypeOK'
  BY <1>1 DEF CreateWorkItem, Recipients, Matches, Reviewers, EnabledJudges, Smaller, Enabled, Tx
<1>2. ASSUME NEW w \in Item, SchedulePending(w)
      PROVE  TypeOK'
  BY <1>2 DEF SchedulePending, Due, Tx
<1>3. ASSUME NEW w \in Item, Expire(w)
      PROVE  TypeOK'
  BY <1>3 DEF Expire, Tx
<1>4. ASSUME NEW w \in Item, DeleteRun(w)
      PROVE  TypeOK'
  BY <1>4 DEF DeleteRun, Tx
<1>5. ASSUME EnsurePublisherAgentsOffered
      PROVE  TypeOK'
  BY <1>5 DEF EnsurePublisherAgentsOffered, Unoffered, Enabled, Tx
<1>6. ASSUME NEW a \in Agent, ClaimNext(a)
      PROVE  TypeOK'
  BY <1>6 DEF ClaimNext, Grant, Tx
<1>7. ASSUME NEW a \in Agent, NEW st \in {"enabled", "disabled"}, SetAgentStatus(a, st)
      PROVE  TypeOK'
  BY <1>7 DEF SetAgentStatus, Tx
<1>8. ASSUME NEW t \in Handler, NEW w \in Item, NEW a \in Agent, ClaimCheckOffer(t, w, a)
      PROVE  TypeOK'
  BY <1>8 DEF ClaimCheckOffer, Begin, Tx
<1>9. ASSUME NEW t \in Handler, NEW w \in Item, NEW a \in Agent, CompleteCheckLease(t, w, a)
      PROVE  TypeOK'
  BY <1>9 DEF CompleteCheckLease, Begin, Tx
<1>10. ASSUME NEW t \in Handler, NEW a \in Agent, DeleteAgentStart(t, a)
      PROVE  TypeOK'
  BY <1>10, ConstantsAssumption DEF DeleteAgentStart, Begin, Doomed, Tx
<1>11. ASSUME NEW t \in Reclaimer, ReclaimStart(t)
      PROVE  TypeOK'
  BY <1>11 DEF ReclaimStart, ExpiredLeases, Tx
<1>12. ASSUME NEW t \in Tx, ClaimLocked(t)
      PROVE  TypeOK'
  <2>1. End(t, {})
    BY <1>12 DEF ClaimLocked, Rollback
  <2>2. CASE Grant(target[t], actor[t])
    BY <2>1, <2>2, EndType, {} \in SUBSET Item DEF Grant, Tx
  <2>3. CASE UNCHANGED committed
    BY <2>1, <2>3, EndType, {} \in SUBSET Item DEF Tx
  <2> QED
    BY <1>12, <2>2, <2>3 DEF ClaimLocked, Rollback
<1>13. ASSUME NEW t \in Tx, CompleteUpdateItem(t)
      PROVE  TypeOK'
  BY <1>13 DEF CompleteUpdateItem, Updatable, Tx
<1>14. ASSUME NEW t \in Tx, CompleteDeleteLease(t)
      PROVE  TypeOK'
  BY <1>14 DEF CompleteDeleteLease, Tx
<1>15. ASSUME NEW t \in Tx, CompleteCommit(t)
      PROVE  TypeOK'
  <2>1. LeasesHeld(t) \in SUBSET Item
    BY DEF LeasesHeld
  <2>2. CASE agentState[actor[t]] # "deleted"
    <3>1. End(t, LeasesHeld(t))
      BY <1>15, <2>2 DEF CompleteCommit
    <3>2. lease' \in [Item -> {"none", "live", "expired"}]
      BY <1>15, <2>2 DEF CompleteCommit, WithoutLeases
    <3>3. status' \in [Item -> Statuses]
      BY <1>15, <2>2 DEF CompleteCommit
    <3>4. credits' \in [Item -> Nat]
      BY <1>15, <2>2 DEF CompleteCommit
    <3>5. UNCHANGED <<agentState, claimant, offers>>
      BY <1>15, <2>2 DEF CompleteCommit
    <3> QED
      BY <2>1, <3>1, <3>2, <3>3, <3>4, <3>5, EndType
  <2>3. CASE agentState[actor[t]] = "deleted"
    <3>1. End(t, {}) /\ UNCHANGED committed
      BY <1>15, <2>3 DEF CompleteCommit, Rollback
    <3> QED
      BY <3>1, EndType, {} \in SUBSET Item
  <2> QED
    BY <2>2, <2>3
<1>16. ASSUME NEW t \in Tx, ReleaseLease(t)
      PROVE  TypeOK'
  BY <1>16 DEF ReleaseLease, Tx
<1>17. ASSUME NEW t \in Tx, ReleaseItem(t)
      PROVE  TypeOK'
  BY <1>17 DEF ReleaseItem, LeasesHeld, Tx
<1>18. ASSUME NEW t \in Tx, DeleteItem(t)
      PROVE  TypeOK'
  BY <1>18 DEF DeleteItem, Tx
<1>19. ASSUME NEW t \in Tx, DeleteItsLease(t)
      PROVE  TypeOK'
  BY <1>19 DEF DeleteItsLease, LeasesLeft, Tx
<1>20. ASSUME NEW t \in Tx, ReleaseAgentLeases(t)
      PROVE  TypeOK'
  BY <1>20 DEF ReleaseAgentLeases, Tx
<1>21. ASSUME NEW t \in Reclaimer, ReclaimCommit(t)
      PROVE  TypeOK'
  <2>1. LeasesHeld(t) \in SUBSET Item
    BY DEF LeasesHeld
  <2>2. End(t, LeasesHeld(t)) /\ UNCHANGED <<agentState, claimant, offers, credits>>
    BY <1>21 DEF ReclaimCommit
  <2>3. /\ lease' \in [Item -> {"none", "live", "expired"}]
        /\ status' \in [Item -> Statuses]
    BY <1>21 DEF ReclaimCommit, WithoutLeases, Reoffered
  <2> QED
    BY <2>1, <2>2, <2>3, EndType DEF Tx
<1>22. ASSUME NEW t \in Handler, DeleteAgentRow(t)
      PROVE  TypeOK'
  <2> DEFINE Dropped == LeasesHeld(t) \cup {w \in Item : lease[w] # "none" /\ claimant[w] = actor[t]}
  <2>1. Dropped \in SUBSET Item
    BY DEF LeasesHeld
  <2>2. CASE agentState[actor[t]] # "deleted"
    <3>1. End(t, Dropped) /\ UNCHANGED <<claimant, credits>>
      BY <1>22, <2>2 DEF DeleteAgentRow
    <3>2. lease' \in [Item -> {"none", "live", "expired"}]
      BY <1>22, <2>2 DEF DeleteAgentRow, WithoutLeases
    <3>3. status' \in [Item -> Statuses]
      BY <1>22, <2>2 DEF DeleteAgentRow, Reoffered
    <3>4. /\ offers' \subseteq Item \X Agent
          /\ agentState' \in [Agent -> {"enabled", "disabled", "deleted"}]
      BY <1>22, <2>2 DEF DeleteAgentRow
    <3> HIDE DEF Dropped
    <3> QED
      BY <2>1, <3>1, <3>2, <3>3, <3>4, EndType DEF Tx
  <2>3. CASE agentState[actor[t]] = "deleted"
    <3>1. End(t, {}) /\ UNCHANGED committed
      BY <1>22, <2>3 DEF DeleteAgentRow, Rollback
    <3> QED
      BY <3>1, EndType, {} \in SUBSET Item DEF Tx
  <2> QED
    BY <2>2, <2>3
<1>23. ASSUME NEW t \in Tx, Abort(t)
      PROVE  TypeOK'
  BY <1>23, EndType DEF Abort, Rollback, Tx
<1>24. CASE UNCHANGED vars
  BY <1>24 DEF vars
<1> QED
  BY <1>1, <1>2, <1>3, <1>4, <1>5, <1>6, <1>7, <1>8, <1>9, <1>10, <1>11, <1>12, <1>13, <1>14,
     <1>15, <1>16, <1>17, <1>18, <1>19, <1>20, <1>21,
     <1>22, <1>23, <1>24 DEF Next, Progress

----------------------------------------------------------------------------
(* Each request names its agent and item while it needs them.              *)
Named(t) ==
  /\ pc[t] \in {"claiming", "completing", "unleasing", "crediting"} =>
       target[t] \in Item /\ actor[t] \in Agent
  /\ t \in Handler /\ pc[t] \in {"deleting", "releasing"} => actor[t] \in Agent

(* A lease has a holder.                                                   *)
HolderKnown == \A w \in Item : lease[w] # "none" => claimant[w] \in Agent

(* An onboarding item is offered to its newcomer and to nobody else, and   *)
(* a deletion of that agent under way has marked it.                       *)
NewcomerInv ==
  /\ \A w \in Item, a \in Agent :
       Kind[w] = "platform" /\ <<w, a>> \in offers => a = Newcomer[w]
  /\ \A w \in Item : Kind[w] = "platform" /\ Exists(w) => <<w, Newcomer[w]>> \in offers
  /\ \A t \in Handler, w \in Item :
       /\ pc[t] \in {"deleting", "releasing"} /\ actor[t] = Newcomer[w]
       /\ Kind[w] = "platform" /\ Exists(w)
       => w \in doomed[t]

IInv ==
  /\ TypeOK
  /\ \A t \in Tx : Named(t)
  /\ LocksFollowSteps
  /\ LeasedIsClaimed
  /\ HolderKnown
  /\ ClaimedIsLeasedOrOrphaned
  /\ CreditsMatchCompletions
  /\ NewcomerInv

(* What a step of one transaction may do to the rows another one, u, is    *)
(* working on.                                                             *)
Undisturbed(u) ==
  /\ pc'[u] = pc[u] /\ actor'[u] = actor[u] /\ target'[u] = target[u]
  /\ doomed'[u] = doomed[u]
  /\ todo'[u] \subseteq todo[u]
  /\ \A w \in Item :
       /\ itemLock'[w] = u <=> itemLock[w] = u
       /\ leaseLock'[w] = u <=> leaseLock[w] = u
       /\ status[w] \in {"offered", "claimed", "completed", "gone"} =>
            status'[w] \in {"offered", "claimed", "completed", "gone"}
       /\ status[w] = "gone" => status'[w] = "gone"
       /\ status[w] # "absent" => status'[w] # "absent"
       /\ status'[w] = "gone" => status[w] = "gone" \/ itemLock[w] # u
       /\ lease[w] = "none" /\ lease'[w] # "none" => itemLock[w] # u /\ status[w] # "gone"
       /\ lease[w] # "none" => claimant'[w] = claimant[w]
       /\ lease[w] = "expired" => lease'[w] \in {"expired", "none"}
       /\ lease[w] # "none" /\ lease'[w] = "none" => leaseLock[w] # u /\ w \notin todo'[u]

(* A step of another transaction that leaves u's request, locks and locked *)
(* rows alone keeps u's lock discipline.                                   *)
LEMMA UndisturbedFollows ==
  ASSUME TypeOK, NEW u \in Tx, Named(u), FollowsSteps(u), Undisturbed(u)
  PROVE  FollowsSteps(u)' /\ Named(u)'
<1>1. /\ ItemsHeld(u)' = ItemsHeld(u)
      /\ LeasesHeld(u)' = LeasesHeld(u)
  BY DEF Undisturbed, ItemsHeld, LeasesHeld
<1>2. Named(u)'
  BY DEF Named, Undisturbed
<1>3. BeforeLocks(u)'
  BY <1>1 DEF FollowsSteps, BeforeLocks, Undisturbed
<1>4. UnderWay(u)'
  BY DEF FollowsSteps, UnderWay, Undisturbed, Named
<1>5. Completing(u)'
  BY <1>1 DEF FollowsSteps, Completing, Undisturbed, Named, TypeOK
<1>6. Releasing(u)'
  <2> SUFFICES ASSUME pc[u] = "releasing" PROVE Releasing(u)'
    BY DEF Releasing, Undisturbed
  <2>1. Releasing(u)!2 /\ pc'[u] = "releasing"
    BY DEF FollowsSteps, Releasing, Undisturbed
  <2>2. \A w \in doomed'[u] : status'[w] # "absent" /\ (leaseLock'[w] = u \/ lease'[w] = "none")
    BY <2>1 DEF Undisturbed, ItemsHeld, TypeOK
  <2>3. ASSUME NEW w \in (todo'[u] \cup LeasesHeld(u)') \ doomed'[u]
        PROVE  Chosen(u, w)'
    <3>1. w \in Item /\ w \in (todo[u] \cup LeasesHeld(u)) \ doomed[u]
      BY <1>1 DEF Undisturbed, TypeOK, LeasesHeld
    <3>2. Chosen(u, w)
      BY <2>1, <3>1
    <3>3. lease'[w] # "none"
      BY <1>1, <3>1, <3>2 DEF Undisturbed, Chosen, LeasesHeld
    <3> QED
      BY <3>1, <3>2, <3>3 DEF Undisturbed, Chosen
  <2> QED
    BY <1>1, <2>1, <2>2, <2>3 DEF Releasing, Undisturbed
<1>7. Deleting(u)'
  BY <1>1 DEF FollowsSteps, Deleting, Undisturbed, TypeOK
<1> QED
  BY <1>2, <1>3, <1>4, <1>5, <1>6, <1>7 DEF FollowsSteps

(* What the end of transaction t does to it and to every other             *)
(* transaction.                                                            *)
LEMMA EndFacts ==
  ASSUME TypeOK, NEW t \in Tx, NEW W \in SUBSET Item, End(t, W)
  PROVE  /\ pc'[t] = "idle" /\ todo'[t] = {} /\ doomed'[t] = {}
         /\ \A w \in Item : itemLock'[w] # t /\ leaseLock'[w] # t
         /\ \A u \in Tx \ {t} :
              /\ pc'[u] = pc[u] /\ actor'[u] = actor[u] /\ target'[u] = target[u]
              /\ doomed'[u] = doomed[u]
              /\ todo'[u] = todo[u] \ W
              /\ \A w \in Item : /\ itemLock'[w] = u <=> itemLock[w] = u
                                 /\ leaseLock'[w] = u <=> leaseLock[w] = u
BY ConstantsAssumption DEF TypeOK, End, Begin

(* A transaction that has ended holds nothing.                             *)
LEMMA EndedFollows ==
  ASSUME TypeOK, NEW t \in Tx, NEW W \in SUBSET Item, End(t, W)
  PROVE  FollowsSteps(t)' /\ Named(t)'
<1>1. /\ pc'[t] = "idle" /\ todo'[t] = {} /\ doomed'[t] = {}
      /\ \A w \in Item : itemLock'[w] # t /\ leaseLock'[w] # t
  BY EndFacts
<1> QED
  BY <1>1 DEF FollowsSteps, BeforeLocks, UnderWay, Completing, Deleting, Releasing, Named,
              ItemsHeld, LeasesHeld

(* Every step keeps the lock discipline of every transaction: its own by   *)
(* what it locks, the others' because it touches no row they hold.         *)
LEMMA LocksStep ==
  ASSUME IInv, [Next]_vars
  PROVE  \A u \in Tx : FollowsSteps(u)' /\ Named(u)'
<1> USE DEF committed, requests, locks
<1>0. TypeOK /\ LeasedIsClaimed /\ \A u \in Tx : u # NoTx /\ FollowsSteps(u) /\ Named(u)
  BY ConstantsAssumption DEF IInv, LocksFollowSteps
<1>1. ASSUME NEW w \in Item, CreateWorkItem(w)
      PROVE  \A u \in Tx : FollowsSteps(u)' /\ Named(u)'
  <2>1. ASSUME NEW u \in Tx PROVE Undisturbed(u)
    BY <1>0, <1>1 DEF CreateWorkItem, Recipients, Matches, Reviewers, EnabledJudges,
       Smaller, Enabled, Undisturbed, TypeOK,
       LeasedIsClaimed
  <2> QED
    BY <1>0, <2>1, UndisturbedFollows
<1>2. ASSUME NEW w \in Item, SchedulePending(w)
      PROVE  \A u \in Tx : FollowsSteps(u)' /\ Named(u)'
  <2>1. ASSUME NEW u \in Tx PROVE Undisturbed(u)
    BY <1>0, <1>2 DEF SchedulePending, Due, Undisturbed, TypeOK, LeasedIsClaimed
  <2> QED
    BY <1>0, <2>1, UndisturbedFollows
<1>3. ASSUME NEW w \in Item, Expire(w)
      PROVE  \A u \in Tx : FollowsSteps(u)' /\ Named(u)'
  <2>1. ASSUME NEW u \in Tx PROVE Undisturbed(u)
    BY <1>0, <1>3 DEF Expire, Undisturbed, TypeOK, LeasedIsClaimed
  <2> QED
    BY <1>0, <2>1, UndisturbedFollows
<1>4. ASSUME NEW w \in Item, DeleteRun(w)
      PROVE  \A u \in Tx : FollowsSteps(u)' /\ Named(u)'
  <2>1. ASSUME NEW u \in Tx PROVE Undisturbed(u)
    BY <1>0, <1>4 DEF DeleteRun, Undisturbed, TypeOK, LeasedIsClaimed
  <2> QED
    BY <1>0, <2>1, UndisturbedFollows
<1>5. ASSUME EnsurePublisherAgentsOffered
      PROVE  \A u \in Tx : FollowsSteps(u)' /\ Named(u)'
  <2>1. ASSUME NEW u \in Tx PROVE Undisturbed(u)
    BY <1>0, <1>5 DEF EnsurePublisherAgentsOffered, Unoffered, Enabled, Undisturbed, TypeOK,
       LeasedIsClaimed
  <2> QED
    BY <1>0, <2>1, UndisturbedFollows
<1>6. ASSUME NEW a \in Agent, ClaimNext(a)
      PROVE  \A u \in Tx : FollowsSteps(u)' /\ Named(u)'
  <2>1. ASSUME NEW u \in Tx PROVE Undisturbed(u)
    BY <1>0, <1>6 DEF ClaimNext, Grant, Undisturbed, TypeOK, LeasedIsClaimed
  <2> QED
    BY <1>0, <2>1, UndisturbedFollows
<1>7. ASSUME NEW a \in Agent, NEW st \in {"enabled", "disabled"}, SetAgentStatus(a, st)
      PROVE  \A u \in Tx : FollowsSteps(u)' /\ Named(u)'
  <2>1. ASSUME NEW u \in Tx PROVE Undisturbed(u)
    BY <1>0, <1>7 DEF SetAgentStatus, Undisturbed, TypeOK, LeasedIsClaimed
  <2> QED
    BY <1>0, <2>1, UndisturbedFollows
<1>8. ASSUME NEW t \in Handler, NEW w \in Item, NEW a \in Agent, ClaimCheckOffer(t, w, a)
      PROVE  \A u \in Tx : FollowsSteps(u)' /\ Named(u)'
  <2>1. ASSUME NEW u \in Tx \ {t} PROVE Undisturbed(u)
    BY <1>0, <1>8 DEF ClaimCheckOffer, Begin, Undisturbed, TypeOK, LeasedIsClaimed, Tx
  <2>2. Named(t)'
    BY <1>0, <1>8 DEF ClaimCheckOffer, Begin, Named, TypeOK, Tx
  <2>3. FollowsSteps(t)'
    BY <1>0, <1>8, ConstantsAssumption DEF ClaimCheckOffer, Begin, FollowsSteps, BeforeLocks,
       UnderWay, Completing, Deleting, Releasing, Chosen,
       Named, ItemsHeld, LeasesHeld, TypeOK, LeasedIsClaimed, Tx
  <2> QED
    BY <1>0, <2>1, <2>2, <2>3, UndisturbedFollows
<1>9. ASSUME NEW t \in Handler, NEW w \in Item, NEW a \in Agent, CompleteCheckLease(t, w, a)
      PROVE  \A u \in Tx : FollowsSteps(u)' /\ Named(u)'
  <2>1. ASSUME NEW u \in Tx \ {t} PROVE Undisturbed(u)
    BY <1>0, <1>9 DEF CompleteCheckLease, Begin, Undisturbed, TypeOK, LeasedIsClaimed, Tx
  <2>2. Named(t)'
    BY <1>0, <1>9 DEF CompleteCheckLease, Begin, Named, TypeOK, Tx
  <2>3. FollowsSteps(t)'
    BY <1>0, <1>9, ConstantsAssumption DEF CompleteCheckLease, Begin, FollowsSteps, BeforeLocks,
       UnderWay, Completing, Deleting, Releasing, Chosen,
       Named, ItemsHeld, LeasesHeld, TypeOK, LeasedIsClaimed, Tx
  <2> QED
    BY <1>0, <2>1, <2>2, <2>3, UndisturbedFollows
<1>10. ASSUME NEW t \in Handler, NEW a \in Agent, DeleteAgentStart(t, a)
      PROVE  \A u \in Tx : FollowsSteps(u)' /\ Named(u)'
  <2>1. ASSUME NEW u \in Tx \ {t} PROVE Undisturbed(u)
    BY <1>0, <1>10 DEF DeleteAgentStart, Begin, Doomed, Undisturbed, TypeOK, LeasedIsClaimed, Tx
  <2>2. Named(t)'
    BY <1>0, <1>10 DEF DeleteAgentStart, Begin, Doomed, Named, TypeOK, Tx
  <2>3. FollowsSteps(t)'
    BY <1>0, <1>10, ConstantsAssumption DEF DeleteAgentStart, Begin, Doomed, Exists,
       FollowsSteps, BeforeLocks, UnderWay, Completing, Deleting, Releasing, Chosen,
       Named, ItemsHeld, LeasesHeld, TypeOK, LeasedIsClaimed, Tx
  <2> QED
    BY <1>0, <2>1, <2>2, <2>3, UndisturbedFollows
<1>11. ASSUME NEW t \in Reclaimer, ReclaimStart(t)
      PROVE  \A u \in Tx : FollowsSteps(u)' /\ Named(u)'
  <2>1. ASSUME NEW u \in Tx \ {t} PROVE Undisturbed(u)
    BY <1>0, <1>11 DEF ReclaimStart, ExpiredLeases, Undisturbed, TypeOK, LeasedIsClaimed, Tx
  <2>2. Named(t)'
    BY <1>0, <1>11, ConstantsAssumption DEF ReclaimStart, ExpiredLeases, Named, TypeOK, Tx
  <2>3. FollowsSteps(t)'
    BY <1>0, <1>11, ConstantsAssumption DEF ReclaimStart, ExpiredLeases, FollowsSteps,
       BeforeLocks, UnderWay, Completing, Deleting, Releasing, Chosen,
       Named, ItemsHeld, LeasesHeld, TypeOK, LeasedIsClaimed, Tx
  <2> QED
    BY <1>0, <2>1, <2>2, <2>3, UndisturbedFollows
<1>12. ASSUME NEW t \in Tx, ClaimLocked(t)
      PROVE  \A u \in Tx : FollowsSteps(u)' /\ Named(u)'
  <2>1. End(t, {})
    BY <1>12 DEF ClaimLocked, Rollback
  <2>2. target[t] \in Item /\ actor[t] \in Agent
    BY <1>0, <1>12 DEF ClaimLocked, Named
  <2>3. ASSUME NEW u \in Tx \ {t} PROVE Undisturbed(u)
    <3>1. CASE Claimable(target[t]) /\ Grant(target[t], actor[t])
      BY <1>0, <1>12, <2>1, <2>2, <3>1, EndFacts, {} \in SUBSET Item
      DEF ClaimLocked, Claimable, Grant, Undisturbed, TypeOK, LeasedIsClaimed
    <3>2. CASE UNCHANGED committed
      BY <1>0, <2>1, <3>2, EndFacts, {} \in SUBSET Item DEF Undisturbed
    <3> QED
      BY <1>12, <3>1, <3>2 DEF ClaimLocked, Rollback
  <2> QED
    BY <1>0, <2>1, <2>3, {} \in SUBSET Item, EndedFollows, UndisturbedFollows
<1>13. ASSUME NEW t \in Tx, CompleteUpdateItem(t)
      PROVE  \A u \in Tx : FollowsSteps(u)' /\ Named(u)'
  <2>1. ASSUME NEW u \in Tx \ {t} PROVE Undisturbed(u)
    BY <1>0, <1>13 DEF CompleteUpdateItem, Updatable, Undisturbed, TypeOK, LeasedIsClaimed, Tx
  <2>2. Named(t)'
    BY <1>0, <1>13 DEF CompleteUpdateItem, Updatable, Named, TypeOK, Tx
  <2>3. target[t] \in Item /\ target'[t] = target[t]
    BY <1>0, <1>13 DEF CompleteUpdateItem, Named
  <2>4. UnderWay(t)'
    BY <1>0, <1>13, <2>3 DEF CompleteUpdateItem, UnderWay, FollowsSteps
  <2>5. Completing(t)'
    BY <1>0, <1>13, <2>3, <2>4 DEF CompleteUpdateItem, Updatable, Exists, BeforeLocks,
       FollowsSteps, UnderWay, Completing,
       ItemsHeld, LeasesHeld, LeasedIsClaimed, TypeOK
  <2>6. BeforeLocks(t)' /\ Deleting(t)' /\ Releasing(t)'
    BY <1>13, <1>0 DEF CompleteUpdateItem, BeforeLocks, Deleting, Releasing, TypeOK
  <2> QED
    BY <1>0, <2>1, <2>2, <2>4, <2>5, <2>6, UndisturbedFollows DEF FollowsSteps
<1>14. ASSUME NEW t \in Tx, CompleteDeleteLease(t)
      PROVE  \A u \in Tx : FollowsSteps(u)' /\ Named(u)'
  <2>1. ASSUME NEW u \in Tx \ {t} PROVE Undisturbed(u)
    BY <1>0, <1>14 DEF CompleteDeleteLease, Undisturbed, TypeOK, LeasedIsClaimed, Tx
  <2>2. Named(t)'
    BY <1>0, <1>14 DEF CompleteDeleteLease, Named, TypeOK, Tx
  <2>3. target[t] \in Item /\ target'[t] = target[t]
    BY <1>0, <1>14 DEF CompleteDeleteLease, Named
  <2>4. UnderWay(t)'
    BY <1>0, <1>14, <2>3 DEF CompleteDeleteLease, UnderWay, FollowsSteps
  <2>5. Completing(t)'
    BY <1>0, <1>14, <2>3, <2>4 DEF CompleteDeleteLease,  FollowsSteps, UnderWay, Completing,
       ItemsHeld, LeasesHeld, LeasedIsClaimed, TypeOK
  <2>6. BeforeLocks(t)' /\ Deleting(t)' /\ Releasing(t)'
    BY <1>14, <1>0 DEF CompleteDeleteLease, BeforeLocks, Deleting, Releasing, TypeOK
  <2> QED
    BY <1>0, <2>1, <2>2, <2>4, <2>5, <2>6, UndisturbedFollows DEF FollowsSteps
<1>15. ASSUME NEW t \in Tx, CompleteCommit(t)
      PROVE  \A u \in Tx : FollowsSteps(u)' /\ Named(u)'
  <2>1. target[t] \in Item
    BY <1>0, <1>15 DEF CompleteCommit, Named
  <2>2. CASE agentState[actor[t]] = "deleted"
    <3>1. End(t, {}) /\ UNCHANGED committed
      BY <1>15, <2>2 DEF CompleteCommit, Rollback
    <3>2. ASSUME NEW u \in Tx \ {t} PROVE Undisturbed(u)
      BY <1>0, <3>1, EndFacts, {} \in SUBSET Item DEF Undisturbed
    <3> QED
      BY <1>0, <3>1, <3>2, {} \in SUBSET Item, EndedFollows, UndisturbedFollows
  <2>3. CASE agentState[actor[t]] # "deleted"
    <3>1. LeasesHeld(t) \in SUBSET Item
      BY DEF LeasesHeld
    <3>2. /\ End(t, LeasesHeld(t))
          /\ status' = IF itemLock[target[t]] = t THEN [status EXCEPT ![target[t]] = "completed"]
                                                  ELSE status
          /\ lease' = WithoutLeases(LeasesHeld(t))
          /\ claimant' = claimant
      BY <1>15, <2>3 DEF CompleteCommit
    <3>3. itemLock[target[t]] = t => status[target[t]] # "gone"
      BY <1>0, <1>15 DEF CompleteCommit, FollowsSteps, Completing
    <3>4. \A w \in Item : w \in LeasesHeld(t) <=> leaseLock[w] = t
      BY DEF LeasesHeld
    <3> HIDE DEF LeasesHeld
    <3>5. ASSUME NEW u \in Tx \ {t} PROVE Undisturbed(u)
      BY <1>0, <2>1, <3>1, <3>2, <3>3, <3>4, EndFacts DEF Undisturbed, WithoutLeases, TypeOK
    <3> QED
      BY <1>0, <3>1, <3>2, <3>5, EndedFollows, UndisturbedFollows
  <2> QED
    BY <2>2, <2>3
<1>16. ASSUME NEW t \in Tx, ReleaseLease(t)
      PROVE  \A u \in Tx : FollowsSteps(u)' /\ Named(u)'
  <2>1. ASSUME NEW u \in Tx \ {t} PROVE Undisturbed(u)
    BY <1>0, <1>16 DEF ReleaseLease, Undisturbed, TypeOK, LeasedIsClaimed, Tx
  <2>2. Named(t)'
    BY <1>0, <1>16 DEF ReleaseLease, Named, TypeOK, Tx
  <2>3. FollowsSteps(t)'
    BY <1>0, <1>16, ConstantsAssumption DEF ReleaseLease, FollowsSteps, BeforeLocks, UnderWay,
       Completing, Deleting, Releasing, Chosen,
       Named, ItemsHeld, LeasesHeld, TypeOK, LeasedIsClaimed, Tx
  <2> QED
    BY <1>0, <2>1, <2>2, <2>3, UndisturbedFollows
<1>17. ASSUME NEW t \in Tx, ReleaseItem(t)
      PROVE  \A u \in Tx : FollowsSteps(u)' /\ Named(u)'
  <2>1. ASSUME NEW u \in Tx \ {t} PROVE Undisturbed(u)
    BY <1>0, <1>17 DEF ReleaseItem, LeasesHeld, Undisturbed, TypeOK, LeasedIsClaimed, Tx
  <2>2. Named(t)'
    BY <1>0, <1>17 DEF ReleaseItem, LeasesHeld, Named, TypeOK, Tx
  <2>3. FollowsSteps(t)'
    BY <1>0, <1>17, ConstantsAssumption DEF ReleaseItem, LeasesHeld, FollowsSteps, BeforeLocks,
       UnderWay, Completing, Deleting, Releasing, Chosen,
       Named, ItemsHeld, LeasesHeld, TypeOK, LeasedIsClaimed, Tx
  <2> QED
    BY <1>0, <2>1, <2>2, <2>3, UndisturbedFollows
<1>18. ASSUME NEW t \in Tx, DeleteItem(t)
      PROVE  \A u \in Tx : FollowsSteps(u)' /\ Named(u)'
  <2>1. ASSUME NEW u \in Tx \ {t} PROVE Undisturbed(u)
    BY <1>0, <1>18 DEF DeleteItem, Exists, Undisturbed, TypeOK, LeasedIsClaimed, Tx
  <2>2. Named(t)'
    BY <1>0, <1>18 DEF DeleteItem, Exists, Named, TypeOK, Tx
  <2>3. FollowsSteps(t)'
    BY <1>0, <1>18, ConstantsAssumption DEF DeleteItem, Exists, FollowsSteps, BeforeLocks, UnderWay,
       Completing, Deleting, Releasing, Chosen,
       Named, ItemsHeld, LeasesHeld, TypeOK, LeasedIsClaimed, Tx
  <2> QED
    BY <1>0, <2>1, <2>2, <2>3, UndisturbedFollows
<1>19. ASSUME NEW t \in Tx, DeleteItsLease(t)
      PROVE  \A u \in Tx : FollowsSteps(u)' /\ Named(u)'
  <2>1. ASSUME NEW u \in Tx \ {t} PROVE Undisturbed(u)
    BY <1>0, <1>19 DEF DeleteItsLease, LeasesLeft, Undisturbed, TypeOK, LeasedIsClaimed, Tx
  <2>2. Named(t)'
    BY <1>0, <1>19 DEF DeleteItsLease, LeasesLeft, Named, TypeOK, Tx
  <2>3. FollowsSteps(t)'
    BY <1>0, <1>19, ConstantsAssumption DEF DeleteItsLease, LeasesLeft, FollowsSteps, BeforeLocks, UnderWay,
       Completing, Deleting, Releasing, Chosen,
       Named, ItemsHeld, LeasesHeld, TypeOK, LeasedIsClaimed, Tx
  <2> QED
    BY <1>0, <2>1, <2>2, <2>3, UndisturbedFollows
<1>20. ASSUME NEW t \in Tx, ReleaseAgentLeases(t)
      PROVE  \A u \in Tx : FollowsSteps(u)' /\ Named(u)'
  <2>1. ASSUME NEW u \in Tx \ {t} PROVE Undisturbed(u)
    BY <1>0, <1>20 DEF ReleaseAgentLeases, LeasesLeft, Undisturbed, TypeOK, LeasedIsClaimed, Tx
  <2>2. Named(t)'
    BY <1>0, <1>20 DEF ReleaseAgentLeases, LeasesLeft, Named, TypeOK, Tx
  <2>3. FollowsSteps(t)'
    BY <1>0, <1>20, ConstantsAssumption DEF ReleaseAgentLeases, LeasesLeft, FollowsSteps, BeforeLocks, UnderWay,
       Completing, Deleting, Releasing, Chosen,
       Named, ItemsHeld, LeasesHeld, TypeOK, LeasedIsClaimed, Tx
  <2> QED
    BY <1>0, <2>1, <2>2, <2>3, UndisturbedFollows
<1>21. ASSUME NEW t \in Reclaimer, ReclaimCommit(t)
      PROVE  \A u \in Tx : FollowsSteps(u)' /\ Named(u)'
  <2>1. /\ t \in Tx
        /\ End(t, LeasesHeld(t))
        /\ LeasesHeld(t) \in SUBSET Item
        /\ status' = Reoffered(t)
        /\ lease' = WithoutLeases(LeasesHeld(t))
        /\ claimant' = claimant
    BY <1>21 DEF ReclaimCommit, LeasesHeld, Tx
  <2>2. \A w \in Item : w \in LeasesHeld(t) <=> leaseLock[w] = t
    BY DEF LeasesHeld
  <2>3. ASSUME NEW u \in Tx \ {t} PROVE Undisturbed(u)
    BY <1>0, <2>1, <2>2, EndFacts DEF Undisturbed, WithoutLeases, Reoffered, TypeOK
  <2> QED
    BY <1>0, <2>1, <2>3, EndedFollows, UndisturbedFollows
<1>22. ASSUME NEW t \in Handler, DeleteAgentRow(t)
      PROVE  \A u \in Tx : FollowsSteps(u)' /\ Named(u)'
  <2> DEFINE Cascade == {w \in Item : lease[w] # "none" /\ claimant[w] = actor[t]}
             Dropped == LeasesHeld(t) \cup Cascade
  <2>1. t \in Tx /\ Dropped \in SUBSET Item
    BY DEF Tx, LeasesHeld
  <2>2. CASE agentState[actor[t]] = "deleted"
    <3>1. End(t, {}) /\ UNCHANGED committed
      BY <1>22, <2>2 DEF DeleteAgentRow, Rollback
    <3>2. ASSUME NEW u \in Tx \ {t} PROVE Undisturbed(u)
      BY <1>0, <2>1, <3>1, EndFacts, {} \in SUBSET Item DEF Undisturbed
    <3> QED
      BY <1>0, <2>1, <3>1, <3>2, {} \in SUBSET Item, EndedFollows, UndisturbedFollows
  <2>3. CASE agentState[actor[t]] # "deleted"
    <3>1. /\ End(t, Dropped)
          /\ status' = [w \in Item |-> IF w \in doomed[t] THEN "gone" ELSE Reoffered(t)[w]]
          /\ lease' = WithoutLeases(Dropped)
          /\ claimant' = claimant
      BY <1>22, <2>3 DEF DeleteAgentRow
    <3>2. \A w \in Dropped : leaseLock[w] \in {NoTx, t}
      BY <1>22 DEF DeleteAgentRow, LeasesHeld
    <3>3. \A w \in doomed[t] : itemLock[w] = t
      BY <1>0, <1>22, <2>1 DEF DeleteAgentRow, Released, FollowsSteps, Releasing, ItemsHeld
    <3> HIDE DEF Dropped
    <3>4. ASSUME NEW u \in Tx \ {t} PROVE Undisturbed(u)
      BY <1>0, <2>1, <3>1, <3>2, <3>3, EndFacts DEF Undisturbed, WithoutLeases, Reoffered, TypeOK
    <3> QED
      BY <1>0, <2>1, <3>1, <3>4, EndedFollows, UndisturbedFollows
  <2> QED
    BY <2>2, <2>3
<1>23. ASSUME NEW t \in Tx, Abort(t)
      PROVE  \A u \in Tx : FollowsSteps(u)' /\ Named(u)'
  <2>1. End(t, {}) /\ UNCHANGED committed
    BY <1>23 DEF Abort, Rollback
  <2>2. ASSUME NEW u \in Tx \ {t} PROVE Undisturbed(u)
    BY <1>0, <2>1, EndFacts, {} \in SUBSET Item DEF Undisturbed
  <2> QED
    BY <1>0, <2>1, <2>2, {} \in SUBSET Item, EndedFollows, UndisturbedFollows
<1>24. ASSUME UNCHANGED vars
      PROVE  \A u \in Tx : FollowsSteps(u)' /\ Named(u)'
  <2>1. ASSUME NEW u \in Tx PROVE Undisturbed(u)
    BY <1>24 DEF vars, Undisturbed
  <2> QED
    BY <1>0, <2>1, UndisturbedFollows
<1> QED
  BY <1>1, <1>2, <1>3, <1>4, <1>5, <1>6, <1>7, <1>8, <1>9, <1>10, <1>11, <1>12, <1>13, <1>14,
     <1>15, <1>16, <1>17, <1>18, <1>19, <1>20, <1>21,
     <1>22, <1>23, <1>24 DEF Next, Progress

(* Every step keeps leases on claimed items only; the lock discipline says *)
(* that a completion or a reclaim that sets the status also holds the      *)
(* lease.                                                                  *)
LEMMA LeaseStep ==
  ASSUME IInv, [Next]_vars
  PROVE  LeasedIsClaimed' /\ HolderKnown'
<1> USE DEF committed, requests, locks
<1>0. TypeOK /\ LeasedIsClaimed /\ HolderKnown /\ ClaimedIsLeasedOrOrphaned /\ CreditsMatchCompletions
       /\ \A u \in Tx : u # NoTx /\ FollowsSteps(u) /\ Named(u)
  BY ConstantsAssumption DEF IInv, LocksFollowSteps
<1>1. ASSUME NEW w \in Item, CreateWorkItem(w)
      PROVE  LeasedIsClaimed' /\ HolderKnown'
  BY <1>0, <1>1, ConstantsAssumption DEF CreateWorkItem, Recipients, Matches, Reviewers, EnabledJudges,
     Smaller, Enabled,
     LeasedIsClaimed, HolderKnown, TypeOK, Tx
<1>2. ASSUME NEW w \in Item, SchedulePending(w)
      PROVE  LeasedIsClaimed' /\ HolderKnown'
  BY <1>0, <1>2, ConstantsAssumption DEF SchedulePending, Due,
     LeasedIsClaimed, HolderKnown, TypeOK, Tx
<1>3. ASSUME NEW w \in Item, Expire(w)
      PROVE  LeasedIsClaimed' /\ HolderKnown'
  BY <1>0, <1>3, ConstantsAssumption DEF Expire,
     LeasedIsClaimed, HolderKnown, TypeOK, Tx
<1>4. ASSUME NEW w \in Item, DeleteRun(w)
      PROVE  LeasedIsClaimed' /\ HolderKnown'
  BY <1>0, <1>4, ConstantsAssumption DEF DeleteRun, Exists,
     LeasedIsClaimed, HolderKnown, TypeOK, Tx
<1>5. ASSUME EnsurePublisherAgentsOffered
      PROVE  LeasedIsClaimed' /\ HolderKnown'
  BY <1>0, <1>5 DEF EnsurePublisherAgentsOffered, LeasedIsClaimed, HolderKnown
<1>6. ASSUME NEW a \in Agent, ClaimNext(a)
      PROVE  LeasedIsClaimed' /\ HolderKnown'
  BY <1>0, <1>6, ConstantsAssumption DEF ClaimNext, Grant,
     LeasedIsClaimed, HolderKnown, TypeOK, Tx
<1>7. ASSUME NEW a \in Agent, NEW st \in {"enabled", "disabled"}, SetAgentStatus(a, st)
      PROVE  LeasedIsClaimed' /\ HolderKnown'
  BY <1>0, <1>7 DEF SetAgentStatus, LeasedIsClaimed, HolderKnown
<1>8. ASSUME NEW t \in Handler, NEW w \in Item, NEW a \in Agent, ClaimCheckOffer(t, w, a)
      PROVE  LeasedIsClaimed' /\ HolderKnown'
  BY <1>0, <1>8 DEF ClaimCheckOffer, LeasedIsClaimed, HolderKnown
<1>9. ASSUME NEW t \in Handler, NEW w \in Item, NEW a \in Agent, CompleteCheckLease(t, w, a)
      PROVE  LeasedIsClaimed' /\ HolderKnown'
  BY <1>0, <1>9 DEF CompleteCheckLease, LeasedIsClaimed, HolderKnown
<1>10. ASSUME NEW t \in Handler, NEW a \in Agent, DeleteAgentStart(t, a)
      PROVE  LeasedIsClaimed' /\ HolderKnown'
  BY <1>0, <1>10 DEF DeleteAgentStart, LeasedIsClaimed, HolderKnown
<1>11. ASSUME NEW t \in Reclaimer, ReclaimStart(t)
      PROVE  LeasedIsClaimed' /\ HolderKnown'
  BY <1>0, <1>11 DEF ReclaimStart, LeasedIsClaimed, HolderKnown
<1>12. ASSUME NEW t \in Tx, ClaimLocked(t)
      PROVE  LeasedIsClaimed' /\ HolderKnown'
  BY <1>0, <1>12, ConstantsAssumption DEF ClaimLocked, Grant, Claimable, Rollback,
     LeasedIsClaimed, HolderKnown, TypeOK, Tx, Named
<1>13. ASSUME NEW t \in Tx, CompleteUpdateItem(t)
      PROVE  LeasedIsClaimed' /\ HolderKnown'
  BY <1>0, <1>13 DEF CompleteUpdateItem, LeasedIsClaimed, HolderKnown
<1>14. ASSUME NEW t \in Tx, CompleteDeleteLease(t)
      PROVE  LeasedIsClaimed' /\ HolderKnown'
  BY <1>0, <1>14 DEF CompleteDeleteLease, LeasedIsClaimed, HolderKnown
<1>15. ASSUME NEW t \in Tx, CompleteCommit(t)
      PROVE  LeasedIsClaimed' /\ HolderKnown'
  BY <1>0, <1>15, ConstantsAssumption DEF CompleteCommit, Rollback, WithoutLeases,
     LeasedIsClaimed, HolderKnown, TypeOK, Tx, FollowsSteps, Completing, Releasing, Chosen,
        ItemsHeld, LeasesHeld, Named
<1>16. ASSUME NEW t \in Tx, ReleaseLease(t)
      PROVE  LeasedIsClaimed' /\ HolderKnown'
  BY <1>0, <1>16 DEF ReleaseLease, LeasedIsClaimed, HolderKnown
<1>17. ASSUME NEW t \in Tx, ReleaseItem(t)
      PROVE  LeasedIsClaimed' /\ HolderKnown'
  BY <1>0, <1>17 DEF ReleaseItem, LeasedIsClaimed, HolderKnown
<1>18. ASSUME NEW t \in Tx, DeleteItem(t)
      PROVE  LeasedIsClaimed' /\ HolderKnown'
  BY <1>0, <1>18 DEF DeleteItem, LeasedIsClaimed, HolderKnown
<1>19. ASSUME NEW t \in Tx, DeleteItsLease(t)
      PROVE  LeasedIsClaimed' /\ HolderKnown'
  BY <1>0, <1>19 DEF DeleteItsLease, LeasedIsClaimed, HolderKnown
<1>20. ASSUME NEW t \in Tx, ReleaseAgentLeases(t)
      PROVE  LeasedIsClaimed' /\ HolderKnown'
  BY <1>0, <1>20 DEF ReleaseAgentLeases, LeasedIsClaimed, HolderKnown
<1>21. ASSUME NEW t \in Reclaimer, ReclaimCommit(t)
      PROVE  LeasedIsClaimed' /\ HolderKnown'
  BY <1>0, <1>21, ConstantsAssumption DEF ReclaimCommit, Reoffered, WithoutLeases, Released,
     LeasedIsClaimed, HolderKnown, TypeOK, Tx, FollowsSteps, Completing, Releasing, Chosen,
        ItemsHeld, LeasesHeld, Named
<1>22. ASSUME NEW t \in Handler, DeleteAgentRow(t)
      PROVE  LeasedIsClaimed' /\ HolderKnown'
  BY <1>0, <1>22, ConstantsAssumption DEF DeleteAgentRow, Reoffered, WithoutLeases, Rollback,
     Released,
     LeasedIsClaimed, HolderKnown, TypeOK, Tx, FollowsSteps, Completing, Releasing, Chosen,
        ItemsHeld, LeasesHeld, Named
<1>23. ASSUME NEW t \in Tx, Abort(t)
      PROVE  LeasedIsClaimed' /\ HolderKnown'
  BY <1>0, <1>23 DEF Abort, Rollback, LeasedIsClaimed, HolderKnown
<1>24. CASE UNCHANGED vars
  BY <1>0, <1>24 DEF vars, LeasedIsClaimed, HolderKnown
<1> QED
  BY <1>1, <1>2, <1>3, <1>4, <1>5, <1>6, <1>7, <1>8, <1>9, <1>10, <1>11, <1>12, <1>13, <1>14,
     <1>15, <1>16, <1>17, <1>18, <1>19, <1>20, <1>21,
     <1>22, <1>23, <1>24 DEF Next, Progress

(* Every step keeps an item without its lease claimed only if its claimant *)
(* is gone; the cases that could strand one are the commits.               *)
LEMMA OrphanStep ==
  ASSUME IInv, [Next]_vars
  PROVE  ClaimedIsLeasedOrOrphaned'
<1> USE DEF committed, requests, locks
<1>0. TypeOK /\ LeasedIsClaimed /\ HolderKnown /\ ClaimedIsLeasedOrOrphaned /\ CreditsMatchCompletions
       /\ \A u \in Tx : u # NoTx /\ FollowsSteps(u) /\ Named(u)
  BY ConstantsAssumption DEF IInv, LocksFollowSteps
<1>1. ASSUME NEW w \in Item, CreateWorkItem(w)
      PROVE  ClaimedIsLeasedOrOrphaned'
  BY <1>0, <1>1, ConstantsAssumption DEF CreateWorkItem, Recipients, Matches, Reviewers, EnabledJudges,
     Smaller, Enabled,
     LeasedIsClaimed, HolderKnown, ClaimedIsLeasedOrOrphaned, TypeOK, Tx
<1>2. ASSUME NEW w \in Item, SchedulePending(w)
      PROVE  ClaimedIsLeasedOrOrphaned'
  BY <1>0, <1>2, ConstantsAssumption DEF SchedulePending, Due,
     LeasedIsClaimed, HolderKnown, ClaimedIsLeasedOrOrphaned, TypeOK, Tx
<1>3. ASSUME NEW w \in Item, Expire(w)
      PROVE  ClaimedIsLeasedOrOrphaned'
  BY <1>0, <1>3, ConstantsAssumption DEF Expire,
     LeasedIsClaimed, HolderKnown, ClaimedIsLeasedOrOrphaned, TypeOK, Tx
<1>4. ASSUME NEW w \in Item, DeleteRun(w)
      PROVE  ClaimedIsLeasedOrOrphaned'
  BY <1>0, <1>4, ConstantsAssumption DEF DeleteRun, Exists,
     LeasedIsClaimed, HolderKnown, ClaimedIsLeasedOrOrphaned, TypeOK, Tx
<1>5. ASSUME EnsurePublisherAgentsOffered
      PROVE  ClaimedIsLeasedOrOrphaned'
  BY <1>0, <1>5 DEF EnsurePublisherAgentsOffered, LeasedIsClaimed, HolderKnown,
     ClaimedIsLeasedOrOrphaned
<1>6. ASSUME NEW a \in Agent, ClaimNext(a)
      PROVE  ClaimedIsLeasedOrOrphaned'
  <2>1. PICK w \in Item : status[w] = "offered" /\ Grant(w, a)
    BY <1>6 DEF ClaimNext
  <2> QED
    BY <1>0, <2>1 DEF Grant, LeasedIsClaimed, HolderKnown, ClaimedIsLeasedOrOrphaned, TypeOK
<1>7. ASSUME NEW a \in Agent, NEW st \in {"enabled", "disabled"}, SetAgentStatus(a, st)
      PROVE  ClaimedIsLeasedOrOrphaned'
  BY <1>0, <1>7, ConstantsAssumption DEF SetAgentStatus,
     LeasedIsClaimed, HolderKnown, ClaimedIsLeasedOrOrphaned, TypeOK, Tx
<1>8. ASSUME NEW t \in Handler, NEW w \in Item, NEW a \in Agent, ClaimCheckOffer(t, w, a)
      PROVE  ClaimedIsLeasedOrOrphaned'
  BY <1>0, <1>8 DEF ClaimCheckOffer, LeasedIsClaimed, HolderKnown, ClaimedIsLeasedOrOrphaned
<1>9. ASSUME NEW t \in Handler, NEW w \in Item, NEW a \in Agent, CompleteCheckLease(t, w, a)
      PROVE  ClaimedIsLeasedOrOrphaned'
  BY <1>0, <1>9 DEF CompleteCheckLease, LeasedIsClaimed, HolderKnown, ClaimedIsLeasedOrOrphaned
<1>10. ASSUME NEW t \in Handler, NEW a \in Agent, DeleteAgentStart(t, a)
      PROVE  ClaimedIsLeasedOrOrphaned'
  BY <1>0, <1>10 DEF DeleteAgentStart, LeasedIsClaimed, HolderKnown, ClaimedIsLeasedOrOrphaned
<1>11. ASSUME NEW t \in Reclaimer, ReclaimStart(t)
      PROVE  ClaimedIsLeasedOrOrphaned'
  BY <1>0, <1>11 DEF ReclaimStart, LeasedIsClaimed, HolderKnown, ClaimedIsLeasedOrOrphaned
<1>12. ASSUME NEW t \in Tx, ClaimLocked(t)
      PROVE  ClaimedIsLeasedOrOrphaned'
  BY <1>0, <1>12, ConstantsAssumption DEF ClaimLocked, Grant, Claimable, Rollback,
     LeasedIsClaimed, HolderKnown, ClaimedIsLeasedOrOrphaned, TypeOK, Tx, Named
<1>13. ASSUME NEW t \in Tx, CompleteUpdateItem(t)
      PROVE  ClaimedIsLeasedOrOrphaned'
  BY <1>0, <1>13 DEF CompleteUpdateItem, LeasedIsClaimed, HolderKnown, ClaimedIsLeasedOrOrphaned
<1>14. ASSUME NEW t \in Tx, CompleteDeleteLease(t)
      PROVE  ClaimedIsLeasedOrOrphaned'
  BY <1>0, <1>14 DEF CompleteDeleteLease, LeasedIsClaimed, HolderKnown, ClaimedIsLeasedOrOrphaned
<1>15. ASSUME NEW t \in Tx, CompleteCommit(t)
      PROVE  ClaimedIsLeasedOrOrphaned'
  BY <1>0, <1>15, ConstantsAssumption DEF CompleteCommit, Rollback, WithoutLeases,
     LeasedIsClaimed, HolderKnown, ClaimedIsLeasedOrOrphaned, TypeOK, Tx, FollowsSteps,
        Completing, Releasing, Chosen, ItemsHeld, LeasesHeld, Named
<1>16. ASSUME NEW t \in Tx, ReleaseLease(t)
      PROVE  ClaimedIsLeasedOrOrphaned'
  BY <1>0, <1>16 DEF ReleaseLease, LeasedIsClaimed, HolderKnown, ClaimedIsLeasedOrOrphaned
<1>17. ASSUME NEW t \in Tx, ReleaseItem(t)
      PROVE  ClaimedIsLeasedOrOrphaned'
  BY <1>0, <1>17 DEF ReleaseItem, LeasedIsClaimed, HolderKnown, ClaimedIsLeasedOrOrphaned
<1>18. ASSUME NEW t \in Tx, DeleteItem(t)
      PROVE  ClaimedIsLeasedOrOrphaned'
  BY <1>0, <1>18 DEF DeleteItem, LeasedIsClaimed, HolderKnown, ClaimedIsLeasedOrOrphaned
<1>19. ASSUME NEW t \in Tx, DeleteItsLease(t)
      PROVE  ClaimedIsLeasedOrOrphaned'
  BY <1>0, <1>19 DEF DeleteItsLease, LeasedIsClaimed, HolderKnown, ClaimedIsLeasedOrOrphaned
<1>20. ASSUME NEW t \in Tx, ReleaseAgentLeases(t)
      PROVE  ClaimedIsLeasedOrOrphaned'
  BY <1>0, <1>20 DEF ReleaseAgentLeases, LeasedIsClaimed, HolderKnown, ClaimedIsLeasedOrOrphaned
<1>21. ASSUME NEW t \in Reclaimer, ReclaimCommit(t)
      PROVE  ClaimedIsLeasedOrOrphaned'
  BY <1>0, <1>21, ConstantsAssumption DEF ReclaimCommit, Reoffered, WithoutLeases, Released,
     LeasedIsClaimed, HolderKnown, ClaimedIsLeasedOrOrphaned, TypeOK, Tx, FollowsSteps,
        Completing, Releasing, Chosen, ItemsHeld, LeasesHeld, Named
<1>22. ASSUME NEW t \in Handler, DeleteAgentRow(t)
      PROVE  ClaimedIsLeasedOrOrphaned'
  BY <1>0, <1>22, ConstantsAssumption DEF DeleteAgentRow, Reoffered, WithoutLeases, Rollback,
     Released,
     LeasedIsClaimed, HolderKnown, ClaimedIsLeasedOrOrphaned, TypeOK, Tx, FollowsSteps,
        Completing, Releasing, Chosen, ItemsHeld, LeasesHeld, Named
<1>23. ASSUME NEW t \in Tx, Abort(t)
      PROVE  ClaimedIsLeasedOrOrphaned'
  BY <1>0, <1>23 DEF Abort, Rollback, LeasedIsClaimed, HolderKnown, ClaimedIsLeasedOrOrphaned
<1>24. CASE UNCHANGED vars
  BY <1>0, <1>24 DEF vars, LeasedIsClaimed, HolderKnown, ClaimedIsLeasedOrOrphaned
<1> QED
  BY <1>1, <1>2, <1>3, <1>4, <1>5, <1>6, <1>7, <1>8, <1>9, <1>10, <1>11, <1>12, <1>13, <1>14,
     <1>15, <1>16, <1>17, <1>18, <1>19, <1>20, <1>21,
     <1>22, <1>23, <1>24 DEF Next, Progress

(* Every step keeps credits and completions in agreement; the case that    *)
(* matters is a completion whose item was deleted under it.                *)
LEMMA CreditStep ==
  ASSUME IInv, [Next]_vars
  PROVE  CreditsMatchCompletions'
<1> USE DEF committed, requests, locks
<1>0. TypeOK /\ LeasedIsClaimed /\ HolderKnown /\ ClaimedIsLeasedOrOrphaned /\ CreditsMatchCompletions
       /\ \A u \in Tx : u # NoTx /\ FollowsSteps(u) /\ Named(u)
  BY ConstantsAssumption DEF IInv, LocksFollowSteps
<1>1. ASSUME NEW w \in Item, CreateWorkItem(w)
      PROVE  CreditsMatchCompletions'
  BY <1>0, <1>1, ConstantsAssumption DEF CreateWorkItem, Recipients, Matches, Reviewers, EnabledJudges,
     Smaller, Enabled,
     CreditsMatchCompletions, TypeOK, Tx
<1>2. ASSUME NEW w \in Item, SchedulePending(w)
      PROVE  CreditsMatchCompletions'
  BY <1>0, <1>2, ConstantsAssumption DEF SchedulePending, Due,
     CreditsMatchCompletions, TypeOK, Tx
<1>3. ASSUME NEW w \in Item, Expire(w)
      PROVE  CreditsMatchCompletions'
  BY <1>0, <1>3, ConstantsAssumption DEF Expire,
     CreditsMatchCompletions, TypeOK, Tx
<1>4. ASSUME NEW w \in Item, DeleteRun(w)
      PROVE  CreditsMatchCompletions'
  BY <1>0, <1>4, ConstantsAssumption DEF DeleteRun, Exists,
     CreditsMatchCompletions, TypeOK, Tx
<1>5. ASSUME EnsurePublisherAgentsOffered
      PROVE  CreditsMatchCompletions'
  BY <1>0, <1>5 DEF EnsurePublisherAgentsOffered, CreditsMatchCompletions
<1>6. ASSUME NEW a \in Agent, ClaimNext(a)
      PROVE  CreditsMatchCompletions'
  <2>1. PICK w \in Item : status[w] = "offered" /\ Grant(w, a)
    BY <1>6 DEF ClaimNext
  <2> QED
    BY <1>0, <2>1 DEF Grant, CreditsMatchCompletions, TypeOK
<1>7. ASSUME NEW a \in Agent, NEW st \in {"enabled", "disabled"}, SetAgentStatus(a, st)
      PROVE  CreditsMatchCompletions'
  BY <1>0, <1>7 DEF SetAgentStatus, CreditsMatchCompletions
<1>8. ASSUME NEW t \in Handler, NEW w \in Item, NEW a \in Agent, ClaimCheckOffer(t, w, a)
      PROVE  CreditsMatchCompletions'
  BY <1>0, <1>8 DEF ClaimCheckOffer, CreditsMatchCompletions
<1>9. ASSUME NEW t \in Handler, NEW w \in Item, NEW a \in Agent, CompleteCheckLease(t, w, a)
      PROVE  CreditsMatchCompletions'
  BY <1>0, <1>9 DEF CompleteCheckLease, CreditsMatchCompletions
<1>10. ASSUME NEW t \in Handler, NEW a \in Agent, DeleteAgentStart(t, a)
      PROVE  CreditsMatchCompletions'
  BY <1>0, <1>10 DEF DeleteAgentStart, CreditsMatchCompletions
<1>11. ASSUME NEW t \in Reclaimer, ReclaimStart(t)
      PROVE  CreditsMatchCompletions'
  BY <1>0, <1>11 DEF ReclaimStart, CreditsMatchCompletions
<1>12. ASSUME NEW t \in Tx, ClaimLocked(t)
      PROVE  CreditsMatchCompletions'
  BY <1>0, <1>12, ConstantsAssumption DEF ClaimLocked, Grant, Claimable, Rollback,
     CreditsMatchCompletions, TypeOK, Tx, Named
<1>13. ASSUME NEW t \in Tx, CompleteUpdateItem(t)
      PROVE  CreditsMatchCompletions'
  BY <1>0, <1>13 DEF CompleteUpdateItem, CreditsMatchCompletions
<1>14. ASSUME NEW t \in Tx, CompleteDeleteLease(t)
      PROVE  CreditsMatchCompletions'
  BY <1>0, <1>14 DEF CompleteDeleteLease, CreditsMatchCompletions
<1>15. ASSUME NEW t \in Tx, CompleteCommit(t)
      PROVE  CreditsMatchCompletions'
  BY <1>0, <1>15, ConstantsAssumption DEF CompleteCommit, Rollback, WithoutLeases,
     CreditsMatchCompletions, TypeOK, Tx, FollowsSteps, Completing, Releasing, Chosen, ItemsHeld,
        LeasesHeld, Named
<1>16. ASSUME NEW t \in Tx, ReleaseLease(t)
      PROVE  CreditsMatchCompletions'
  BY <1>0, <1>16 DEF ReleaseLease, CreditsMatchCompletions
<1>17. ASSUME NEW t \in Tx, ReleaseItem(t)
      PROVE  CreditsMatchCompletions'
  BY <1>0, <1>17 DEF ReleaseItem, CreditsMatchCompletions
<1>18. ASSUME NEW t \in Tx, DeleteItem(t)
      PROVE  CreditsMatchCompletions'
  BY <1>0, <1>18 DEF DeleteItem, CreditsMatchCompletions
<1>19. ASSUME NEW t \in Tx, DeleteItsLease(t)
      PROVE  CreditsMatchCompletions'
  BY <1>0, <1>19 DEF DeleteItsLease, CreditsMatchCompletions
<1>20. ASSUME NEW t \in Tx, ReleaseAgentLeases(t)
      PROVE  CreditsMatchCompletions'
  BY <1>0, <1>20 DEF ReleaseAgentLeases, CreditsMatchCompletions
<1>21. ASSUME NEW t \in Reclaimer, ReclaimCommit(t)
      PROVE  CreditsMatchCompletions'
  BY <1>0, <1>21, ConstantsAssumption DEF ReclaimCommit, Reoffered, WithoutLeases, Released,
     CreditsMatchCompletions, TypeOK, Tx, FollowsSteps, Completing, Releasing, Chosen, ItemsHeld,
        LeasesHeld, Named
<1>22. ASSUME NEW t \in Handler, DeleteAgentRow(t)
      PROVE  CreditsMatchCompletions'
  BY <1>0, <1>22, ConstantsAssumption DEF DeleteAgentRow, Reoffered, WithoutLeases, Rollback,
     Released,
     CreditsMatchCompletions, TypeOK, Tx, FollowsSteps, Completing, Releasing, Chosen, ItemsHeld,
        LeasesHeld, Named
<1>23. ASSUME NEW t \in Tx, Abort(t)
      PROVE  CreditsMatchCompletions'
  BY <1>0, <1>23 DEF Abort, Rollback, CreditsMatchCompletions
<1>24. CASE UNCHANGED vars
  BY <1>0, <1>24 DEF vars, CreditsMatchCompletions
<1> QED
  BY <1>1, <1>2, <1>3, <1>4, <1>5, <1>6, <1>7, <1>8, <1>9, <1>10, <1>11, <1>12, <1>13, <1>14,
     <1>15, <1>16, <1>17, <1>18, <1>19, <1>20, <1>21,
     <1>22, <1>23, <1>24 DEF Next, Progress

(* What a step that leaves onboarding items alone does.                    *)
PlatformUntouched ==
  /\ \A w \in Item :
       Kind[w] = "platform" =>
         /\ \A a \in Agent : <<w, a>> \in offers' <=> <<w, a>> \in offers
         /\ Exists(w)' => Exists(w)
  /\ \A t \in Handler :
       pc'[t] \in {"deleting", "releasing"} =>
         /\ pc[t] \in {"deleting", "releasing"} /\ actor'[t] = actor[t]
         /\ \A w \in doomed[t] : w \in doomed'[t] \/ ~ Exists(w)

(* A step that leaves built-in items, offers and deletions alone keeps     *)
(* NewcomerInv.                                                            *)
LEMMA UntouchedKeeps == NewcomerInv /\ PlatformUntouched => NewcomerInv'
BY ConstantsAssumption DEF NewcomerInv, PlatformUntouched

(* Every step keeps each built-in item offered to its newcomer alone,      *)
(* until the deletion of the newcomer takes both.                          *)
LEMMA NewcomerStep ==
  ASSUME IInv, [Next]_vars
  PROVE  NewcomerInv'
<1> USE DEF committed, requests, locks
<1>0. TypeOK /\ NewcomerInv /\ \A u \in Tx : u # NoTx /\ FollowsSteps(u) /\ Named(u)
  BY ConstantsAssumption DEF IInv, LocksFollowSteps
<1>1. ASSUME NEW w \in Item, CreateWorkItem(w)
      PROVE  NewcomerInv'
  BY <1>0, <1>1, PlatformOwnsNoAgent, UntouchedKeeps DEF CreateWorkItem, Recipients, Matches, Reviewers, EnabledJudges,
     Smaller, Enabled, PlatformUntouched, Exists, TypeOK, Tx
<1>2. ASSUME NEW w \in Item, SchedulePending(w)
      PROVE  NewcomerInv'
  BY <1>0, <1>2, PlatformOwnsNoAgent, UntouchedKeeps DEF SchedulePending, Due, PlatformUntouched,
     Exists, TypeOK, Tx
<1>3. ASSUME NEW w \in Item, Expire(w)
      PROVE  NewcomerInv'
  BY <1>0, <1>3, PlatformOwnsNoAgent, UntouchedKeeps DEF Expire, PlatformUntouched, Exists,
     TypeOK, Tx
<1>4. ASSUME NEW w \in Item, DeleteRun(w)
      PROVE  NewcomerInv'
  BY <1>0, <1>4, ConstantsAssumption, UntouchedKeeps DEF DeleteRun, PlatformUntouched, Exists,
     TypeOK, Tx
<1>5. ASSUME EnsurePublisherAgentsOffered
      PROVE  NewcomerInv'
  BY <1>0, <1>5, ConstantsAssumption, PlatformOwnsNoAgent, UntouchedKeeps
  DEF EnsurePublisherAgentsOffered, Unoffered, Enabled, PlatformUntouched, Exists, TypeOK, Tx
<1>6. ASSUME NEW a \in Agent, ClaimNext(a)
      PROVE  NewcomerInv'
  BY <1>0, <1>6, PlatformOwnsNoAgent, UntouchedKeeps DEF ClaimNext, Grant, PlatformUntouched,
     Exists, TypeOK, Tx
<1>7. ASSUME NEW a \in Agent, NEW st \in {"enabled", "disabled"}, SetAgentStatus(a, st)
      PROVE  NewcomerInv'
  BY <1>0, <1>7, PlatformOwnsNoAgent, UntouchedKeeps DEF SetAgentStatus, PlatformUntouched,
     Exists, TypeOK, Tx
<1>8. ASSUME NEW t \in Handler, NEW w \in Item, NEW a \in Agent, ClaimCheckOffer(t, w, a)
      PROVE  NewcomerInv'
  BY <1>0, <1>8, PlatformOwnsNoAgent, UntouchedKeeps DEF ClaimCheckOffer, Begin,
     PlatformUntouched, Exists, TypeOK, Tx
<1>9. ASSUME NEW t \in Handler, NEW w \in Item, NEW a \in Agent, CompleteCheckLease(t, w, a)
      PROVE  NewcomerInv'
  BY <1>0, <1>9, PlatformOwnsNoAgent, UntouchedKeeps DEF CompleteCheckLease, Begin,
     PlatformUntouched, Exists, TypeOK, Tx
<1>10. ASSUME NEW t \in Handler, NEW a \in Agent, DeleteAgentStart(t, a)
      PROVE  NewcomerInv'
  BY <1>0, <1>10, ConstantsAssumption DEF DeleteAgentStart, Begin, Doomed, OfferedTo,
     NewcomerInv, Exists, TypeOK, Tx
<1>11. ASSUME NEW t \in Reclaimer, ReclaimStart(t)
      PROVE  NewcomerInv'
  BY <1>0, <1>11, ConstantsAssumption, UntouchedKeeps DEF ReclaimStart, ExpiredLeases,
     PlatformUntouched, Exists, TypeOK, Tx
<1>12. ASSUME NEW t \in Tx, ClaimLocked(t)
      PROVE  NewcomerInv'
  <2>1. offers' = offers
    BY <1>12 DEF ClaimLocked, Grant, Rollback
  <2>2. \A w \in Item : Exists(w)' => Exists(w)
    BY <1>0, <1>12 DEF ClaimLocked, Grant, Rollback, Exists, TypeOK, Claimable, FollowsSteps,
       Completing
  <2>3. PICK W \in SUBSET Item : End(t, W)
    BY <1>12, {} \in SUBSET Item, LeasesHeld(t) \in SUBSET Item DEF ClaimLocked, Rollback,
       LeasesHeld
  <2>4. \A u \in Handler : pc'[u] \in {"deleting", "releasing"} =>
          pc'[u] = pc[u] /\ actor'[u] = actor[u] /\ doomed'[u] = doomed[u]
    BY <1>0, <2>3 DEF End, Begin, TypeOK, Tx
  <2> QED
    BY <1>0, <2>1, <2>2, <2>4, UntouchedKeeps DEF PlatformUntouched
<1>13. ASSUME NEW t \in Tx, CompleteUpdateItem(t)
      PROVE  NewcomerInv'
  BY <1>0, <1>13, PlatformOwnsNoAgent, UntouchedKeeps DEF CompleteUpdateItem, Updatable,
     PlatformUntouched, Exists, TypeOK, Tx
<1>14. ASSUME NEW t \in Tx, CompleteDeleteLease(t)
      PROVE  NewcomerInv'
  BY <1>0, <1>14, PlatformOwnsNoAgent, UntouchedKeeps DEF CompleteDeleteLease, PlatformUntouched,
     Exists, TypeOK, Tx
<1>15. ASSUME NEW t \in Tx, CompleteCommit(t)
      PROVE  NewcomerInv'
  <2>1. offers' = offers
    BY <1>15 DEF CompleteCommit, Rollback
  <2>2. \A w \in Item : Exists(w)' => Exists(w)
    BY <1>0, <1>15 DEF CompleteCommit, Rollback, Exists, TypeOK, FollowsSteps, UnderWay, Completing
  <2>3. PICK W \in SUBSET Item : End(t, W)
    BY <1>15, {} \in SUBSET Item, LeasesHeld(t) \in SUBSET Item DEF CompleteCommit, Rollback,
       LeasesHeld
  <2>4. \A u \in Handler : pc'[u] \in {"deleting", "releasing"} =>
          pc'[u] = pc[u] /\ actor'[u] = actor[u] /\ doomed'[u] = doomed[u]
    BY <1>0, <2>3 DEF End, Begin, TypeOK, Tx
  <2> QED
    BY <1>0, <2>1, <2>2, <2>4, UntouchedKeeps DEF PlatformUntouched
<1>16. ASSUME NEW t \in Tx, ReleaseLease(t)
      PROVE  NewcomerInv'
  BY <1>0, <1>16, PlatformOwnsNoAgent, UntouchedKeeps DEF ReleaseLease, PlatformUntouched,
     Exists, TypeOK, Tx
<1>17. ASSUME NEW t \in Tx, ReleaseItem(t)
      PROVE  NewcomerInv'
  BY <1>0, <1>17, PlatformOwnsNoAgent, UntouchedKeeps DEF ReleaseItem, LeasesHeld,
     PlatformUntouched, Exists, TypeOK, Tx
<1>18. ASSUME NEW t \in Tx, DeleteItem(t)
      PROVE  NewcomerInv'
  BY <1>0, <1>18, UntouchedKeeps DEF DeleteItem, Exists, PlatformUntouched, TypeOK, Tx
<1>19. ASSUME NEW t \in Tx, DeleteItsLease(t)
      PROVE  NewcomerInv'
  BY <1>0, <1>19, UntouchedKeeps DEF DeleteItsLease, Exists, PlatformUntouched, TypeOK, Tx
<1>20. ASSUME NEW t \in Tx, ReleaseAgentLeases(t)
      PROVE  NewcomerInv'
  BY <1>0, <1>20, UntouchedKeeps DEF ReleaseAgentLeases, Exists, PlatformUntouched, TypeOK, Tx
<1>21. ASSUME NEW t \in Reclaimer, ReclaimCommit(t)
      PROVE  NewcomerInv'
  <2>1. offers' = offers
    BY <1>21 DEF ReclaimCommit, Rollback
  <2>2. \A w \in Item : Exists(w)' => Exists(w)
    BY <1>0, <1>21 DEF ReclaimCommit, Reoffered, WithoutLeases, Exists, TypeOK, Claimable,
       FollowsSteps, Completing
  <2>3. PICK W \in SUBSET Item : End(t, W)
    BY <1>21, {} \in SUBSET Item, LeasesHeld(t) \in SUBSET Item DEF ReclaimCommit, Rollback,
       LeasesHeld
  <2>4. \A u \in Handler : pc'[u] \in {"deleting", "releasing"} =>
          pc'[u] = pc[u] /\ actor'[u] = actor[u] /\ doomed'[u] = doomed[u]
    BY <1>0, <2>3 DEF End, Begin, TypeOK, Tx
  <2> QED
    BY <1>0, <2>1, <2>2, <2>4, UntouchedKeeps DEF PlatformUntouched
<1>22. ASSUME NEW t \in Handler, DeleteAgentRow(t)
      PROVE  NewcomerInv'
  <2>1. CASE agentState[actor[t]] = "deleted"
    <3>1. End(t, {}) /\ UNCHANGED committed
      BY <1>22, <2>1 DEF DeleteAgentRow, Rollback
    <3> QED
      BY <1>0, <3>1, UntouchedKeeps DEF PlatformUntouched, Exists, End, Begin, TypeOK, Tx
  <2>2. CASE agentState[actor[t]] # "deleted"
    <3>1. PICK W \in SUBSET Item : End(t, W)
      <4> DEFINE Dropped == LeasesHeld(t) \cup {w \in Item : lease[w] # "none" /\ claimant[w] = actor[t]}
      <4> QED
        BY <1>22, <2>2, Dropped \in SUBSET Item DEF DeleteAgentRow, LeasesHeld
    <3>2. /\ status' = [w \in Item |-> IF w \in doomed[t] THEN "gone" ELSE Reoffered(t)[w]]
          /\ offers' = {o \in offers : o[2] # actor[t] /\ o[1] \notin doomed[t]}
          /\ pc[t] = "releasing"
      BY <1>22, <2>2 DEF DeleteAgentRow, Released
    <3>3. \A w \in Item : Exists(w)' => Exists(w) /\ w \notin doomed[t]
      BY <1>0, <3>2 DEF Exists, Reoffered, TypeOK
    <3>4. \A w \in Item, a \in Agent :
            <<w, a>> \in offers' <=> <<w, a>> \in offers /\ a # actor[t] /\ w \notin doomed[t]
      BY <3>2
    <3>5. \A u \in Handler : pc'[u] \in {"deleting", "releasing"} =>
            pc'[u] = pc[u] /\ actor'[u] = actor[u] /\ doomed'[u] = doomed[u]
      BY <1>0, <3>1 DEF End, Begin, TypeOK, Tx
    <3> QED
      BY <1>0, <3>2, <3>3, <3>4, <3>5, ConstantsAssumption DEF NewcomerInv
  <2> QED
    BY <2>1, <2>2
<1>23. ASSUME NEW t \in Tx, Abort(t)
      PROVE  NewcomerInv'
  <2>1. offers' = offers
    BY <1>23 DEF Abort, Rollback
  <2>2. \A w \in Item : Exists(w)' => Exists(w)
    BY <1>0, <1>23 DEF Abort, Rollback, Exists, TypeOK, Claimable, FollowsSteps, Completing
  <2>3. PICK W \in SUBSET Item : End(t, W)
    BY <1>23, {} \in SUBSET Item, LeasesHeld(t) \in SUBSET Item DEF Abort, Rollback, LeasesHeld
  <2>4. \A u \in Handler : pc'[u] \in {"deleting", "releasing"} =>
          pc'[u] = pc[u] /\ actor'[u] = actor[u] /\ doomed'[u] = doomed[u]
    BY <1>0, <2>3 DEF End, Begin, TypeOK, Tx
  <2> QED
    BY <1>0, <2>1, <2>2, <2>4, UntouchedKeeps DEF PlatformUntouched
<1>24. CASE UNCHANGED vars
  BY <1>0, <1>24 DEF vars, NewcomerInv, Exists
<1> QED
  BY <1>1, <1>2, <1>3, <1>4, <1>5, <1>6, <1>7, <1>8, <1>9, <1>10, <1>11, <1>12, <1>13, <1>14,
     <1>15, <1>16, <1>17, <1>18, <1>19, <1>20, <1>21,
     <1>22, <1>23, <1>24 DEF Next, Progress

----------------------------------------------------------------------------
(* The inductive invariant.                                                *)

(* The inductive invariant holds initially.                                *)
LEMMA InvInit == Init => IInv
<1> SUFFICES ASSUME Init PROVE IInv
  OBVIOUS
<1>1. TypeOK
  BY TypeInit
<1>2. \A t \in Tx : Named(t) /\ FollowsSteps(t)
  BY ConstantsAssumption DEF Init, Named, FollowsSteps, BeforeLocks, UnderWay, Completing,
     Deleting, Releasing,
     ItemsHeld, LeasesHeld
<1>3. LeasedIsClaimed /\ HolderKnown /\ ClaimedIsLeasedOrOrphaned /\ CreditsMatchCompletions
  BY DEF Init, LeasedIsClaimed, HolderKnown, ClaimedIsLeasedOrOrphaned, CreditsMatchCompletions
<1>4. NewcomerInv
  <2>1. \A w \in Item, a \in Agent :
          <<w, a>> \in offers <=> Kind[w] = "platform" /\ a = Newcomer[w]
    BY DEF Init
  <2>2. \A t \in Handler : pc[t] \notin {"deleting", "releasing"}
    BY DEF Init, Tx
  <2> QED
    BY <2>1, <2>2, ConstantsAssumption DEF NewcomerInv
<1> QED
  BY <1>1, <1>2, <1>3, <1>4 DEF IInv, LocksFollowSteps

(* The inductive invariant is inductive.                                   *)
LEMMA InvStep == IInv /\ [Next]_vars => IInv'
<1> SUFFICES ASSUME IInv, [Next]_vars PROVE IInv'
  OBVIOUS
<1>1. TypeOK'
  BY TypeStep DEF IInv
<1>2. \A t \in Tx : Named(t)' /\ FollowsSteps(t)'
  BY LocksStep
<1> QED
  BY <1>1, <1>2, LeaseStep, OrphanStep, CreditStep, NewcomerStep DEF IInv, LocksFollowSteps

(* The inductive invariant holds in every behaviour.                       *)
THEOREM Invariance == Spec => []IInv
BY InvInit, InvStep, PTL DEF Spec

(* Every value stays in its type: statuses stay within the check           *)
(* constraint of work_items, contribution counters are natural numbers.    *)
THEOREM TypeCorrect == Spec => []TypeOK
<1>1. IInv => TypeOK
  BY DEF IInv
<1> QED
  BY <1>1, Invariance, PTL

(* Row locks are held by the step that needs them and protect what it      *)
(* decided on: the lock discipline of completions, reclaims and deletions. *)
THEOREM LockDiscipline == Spec => []LocksFollowSteps
<1>1. IInv => LocksFollowSteps
  BY DEF IInv
<1> QED
  BY <1>1, Invariance, PTL

(* No interleaving of claims, completions, reclaims and deletions leaves a *)
(* lease on an item that is not claimed.                                   *)
THEOREM NoStrayLease == Spec => []LeasedIsClaimed
<1>1. IInv => LeasedIsClaimed
  BY DEF IInv
<1> QED
  BY <1>1, Invariance, PTL

(* An item stays claimed without a lease only after its claimant's         *)
(* deletion.                                                               *)
THEOREM NoStrandedClaim == Spec => []ClaimedIsLeasedOrOrphaned
<1>1. IInv => ClaimedIsLeasedOrOrphaned
  BY DEF IInv
<1> QED
  BY <1>1, Invariance, PTL

(* Completed items are credited, and nothing else is.                      *)
THEOREM CreditsAreEarned == Spec => []CreditsMatchCompletions
<1>1. IInv => CreditsMatchCompletions
  BY DEF IInv
<1> QED
  BY <1>1, Invariance, PTL

(* Deleting agents leaves no onboarding item without an offer.             *)
THEOREM NoOrphanedOnboarding == Spec => []PlatformItemsStayOffered
<1>1. IInv => PlatformItemsStayOffered
  BY ConstantsAssumption DEF IInv, NewcomerInv, PlatformItemsStayOffered, OfferedTo
<1> QED
  BY <1>1, Invariance, PTL

(* No step takes an item out of "completed", except for its deletion:      *)
(* every writer of a status holds the item's lock and a lease on it, or    *)
(* found it offered.                                                       *)
LEMMA CompletedStays ==
  ASSUME IInv, [Next]_vars
  PROVE  \A w \in Item : status[w] = "completed" => status'[w] \in {"completed", "gone"}
<1> DEFINE Kept == \A w \in Item : status[w] = "completed" => status'[w] \in {"completed", "gone"}
<1> USE DEF committed, requests, locks
<1>0. TypeOK /\ LeasedIsClaimed /\ \A u \in Tx : u # NoTx /\ FollowsSteps(u) /\ Named(u)
  BY ConstantsAssumption DEF IInv, LocksFollowSteps
<1>1. ASSUME NEW w \in Item, CreateWorkItem(w)
      PROVE  Kept
  BY <1>0, <1>1, ConstantsAssumption DEF CreateWorkItem, Recipients, Matches, Reviewers, EnabledJudges,
     Smaller, Enabled,
     TypeOK, Tx
<1>2. ASSUME NEW w \in Item, SchedulePending(w)
      PROVE  Kept
  BY <1>0, <1>2, ConstantsAssumption DEF SchedulePending, Due, TypeOK, Tx
<1>3. ASSUME NEW w \in Item, Expire(w)
      PROVE  Kept
  BY <1>0, <1>3, ConstantsAssumption DEF Expire, TypeOK, Tx
<1>4. ASSUME NEW w \in Item, DeleteRun(w)
      PROVE  Kept
  BY <1>0, <1>4, ConstantsAssumption DEF DeleteRun, TypeOK, Tx
<1>5. ASSUME EnsurePublisherAgentsOffered
      PROVE  Kept
  BY <1>0, <1>5, ConstantsAssumption DEF EnsurePublisherAgentsOffered, Unoffered, Enabled,
     TypeOK, Tx
<1>6. ASSUME NEW a \in Agent, ClaimNext(a)
      PROVE  Kept
  BY <1>0, <1>6, ConstantsAssumption DEF ClaimNext, Grant, TypeOK, Tx
<1>7. ASSUME NEW a \in Agent, NEW st \in {"enabled", "disabled"}, SetAgentStatus(a, st)
      PROVE  Kept
  BY <1>0, <1>7, ConstantsAssumption DEF SetAgentStatus, TypeOK, Tx
<1>8. ASSUME NEW t \in Handler, NEW w \in Item, NEW a \in Agent, ClaimCheckOffer(t, w, a)
      PROVE  Kept
  BY <1>0, <1>8, ConstantsAssumption DEF ClaimCheckOffer, Begin, TypeOK, Tx
<1>9. ASSUME NEW t \in Handler, NEW w \in Item, NEW a \in Agent, CompleteCheckLease(t, w, a)
      PROVE  Kept
  BY <1>0, <1>9, ConstantsAssumption DEF CompleteCheckLease, Begin, TypeOK, Tx
<1>10. ASSUME NEW t \in Handler, NEW a \in Agent, DeleteAgentStart(t, a)
      PROVE  Kept
  BY <1>0, <1>10, ConstantsAssumption DEF DeleteAgentStart, Begin, Doomed, TypeOK, Tx
<1>11. ASSUME NEW t \in Reclaimer, ReclaimStart(t)
      PROVE  Kept
  BY <1>0, <1>11, ConstantsAssumption DEF ReclaimStart, ExpiredLeases, TypeOK, Tx
<1>12. ASSUME NEW t \in Tx, ClaimLocked(t)
      PROVE  Kept
  BY <1>0, <1>12, ConstantsAssumption DEF ClaimLocked, Grant, Rollback, TypeOK, Tx, Claimable, Named
<1>13. ASSUME NEW t \in Tx, CompleteUpdateItem(t)
      PROVE  Kept
  BY <1>0, <1>13, ConstantsAssumption DEF CompleteUpdateItem, Updatable, TypeOK, Tx
<1>14. ASSUME NEW t \in Tx, CompleteDeleteLease(t)
      PROVE  Kept
  BY <1>0, <1>14, ConstantsAssumption DEF CompleteDeleteLease, TypeOK, Tx
<1>15. ASSUME NEW t \in Tx, CompleteCommit(t)
      PROVE  Kept
  BY <1>0, <1>15, ConstantsAssumption DEF CompleteCommit, Rollback, WithoutLeases, TypeOK, Tx,
     FollowsSteps, Completing, Releasing, Chosen, ItemsHeld, LeasesHeld, Named, Released
<1>16. ASSUME NEW t \in Tx, ReleaseLease(t)
      PROVE  Kept
  BY <1>0, <1>16, ConstantsAssumption DEF ReleaseLease, TypeOK, Tx
<1>17. ASSUME NEW t \in Tx, ReleaseItem(t)
      PROVE  Kept
  BY <1>0, <1>17, ConstantsAssumption DEF ReleaseItem, LeasesHeld, TypeOK, Tx
<1>18. ASSUME NEW t \in Tx, DeleteItem(t)
      PROVE  Kept
  BY <1>0, <1>18, ConstantsAssumption DEF DeleteItem, TypeOK, Tx
<1>19. ASSUME NEW t \in Tx, DeleteItsLease(t)
      PROVE  Kept
  BY <1>0, <1>19, ConstantsAssumption DEF DeleteItsLease, TypeOK, Tx
<1>20. ASSUME NEW t \in Tx, ReleaseAgentLeases(t)
      PROVE  Kept
  BY <1>0, <1>20, ConstantsAssumption DEF ReleaseAgentLeases, TypeOK, Tx
<1>21. ASSUME NEW t \in Reclaimer, ReclaimCommit(t)
      PROVE  Kept
  BY <1>0, <1>21, ConstantsAssumption DEF ReclaimCommit, Reoffered, WithoutLeases, TypeOK, Tx,
     FollowsSteps, Completing, Releasing, Chosen, ItemsHeld, LeasesHeld, Named, Released
<1>22. ASSUME NEW t \in Handler, DeleteAgentRow(t)
      PROVE  Kept
  BY <1>0, <1>22, ConstantsAssumption DEF DeleteAgentRow, Reoffered, WithoutLeases, Rollback,
     TypeOK, Tx, FollowsSteps, Completing, Releasing, Chosen, ItemsHeld, LeasesHeld, Named, Released
<1>23. ASSUME NEW t \in Tx, Abort(t)
      PROVE  Kept
  BY <1>0, <1>23, ConstantsAssumption DEF Abort, Rollback, TypeOK, Tx
<1>24. CASE UNCHANGED vars
  BY <1>0, <1>24 DEF vars, TypeOK
<1> QED
  BY <1>1, <1>2, <1>3, <1>4, <1>5, <1>6, <1>7, <1>8, <1>9, <1>10, <1>11, <1>12, <1>13, <1>14,
     <1>15, <1>16, <1>17, <1>18, <1>19, <1>20, <1>21,
     <1>22, <1>23, <1>24 DEF Next, Progress

(* A completed item never returns to the board.                            *)
THEOREM CompletionIsFinal == Spec => CompletedIsFinal
<1>1. IInv /\ [Next]_vars => [\A w \in Item : status[w] = "completed" =>
                                status'[w] \in {"completed", "gone"}]_vars
  BY CompletedStays
<1> QED
  BY <1>1, Invariance, PTL DEF Spec, CompletedIsFinal

(* No step but a completion, a deletion of the run or of the holder ends a *)
(* live lease: a reclaim holds leases that have expired.                   *)
LEMMA LiveLeaseStays ==
  ASSUME IInv, [Next]_vars
  PROVE  \A w \in Item : lease[w] = "live" /\ lease'[w] = "none" =>
           status'[w] \in {"completed", "gone"} \/ agentState'[claimant[w]] = "deleted"
<1> DEFINE Kept ==
           \A w \in Item : lease[w] = "live" /\ lease'[w] = "none" =>
           status'[w] \in {"completed", "gone"} \/ agentState'[claimant[w]] = "deleted"
<1> USE DEF committed, requests, locks
<1>0. TypeOK /\ LeasedIsClaimed /\ \A u \in Tx : u # NoTx /\ FollowsSteps(u) /\ Named(u)
  BY ConstantsAssumption DEF IInv, LocksFollowSteps
<1>1. ASSUME NEW w \in Item, CreateWorkItem(w)
      PROVE  Kept
  BY <1>0, <1>1, ConstantsAssumption DEF CreateWorkItem, Recipients, Matches, Reviewers, EnabledJudges,
     Smaller, Enabled,
     TypeOK, Tx, LeasedIsClaimed
<1>2. ASSUME NEW w \in Item, SchedulePending(w)
      PROVE  Kept
  BY <1>0, <1>2, ConstantsAssumption DEF SchedulePending, Due, TypeOK, Tx, LeasedIsClaimed
<1>3. ASSUME NEW w \in Item, Expire(w)
      PROVE  Kept
  BY <1>0, <1>3, ConstantsAssumption DEF Expire, TypeOK, Tx, LeasedIsClaimed
<1>4. ASSUME NEW w \in Item, DeleteRun(w)
      PROVE  Kept
  BY <1>0, <1>4, ConstantsAssumption DEF DeleteRun, TypeOK, Tx, LeasedIsClaimed
<1>5. ASSUME EnsurePublisherAgentsOffered
      PROVE  Kept
  BY <1>0, <1>5, ConstantsAssumption DEF EnsurePublisherAgentsOffered, Unoffered, Enabled,
     TypeOK, Tx, LeasedIsClaimed
<1>6. ASSUME NEW a \in Agent, ClaimNext(a)
      PROVE  Kept
  BY <1>0, <1>6, ConstantsAssumption DEF ClaimNext, Grant, TypeOK, Tx, LeasedIsClaimed
<1>7. ASSUME NEW a \in Agent, NEW st \in {"enabled", "disabled"}, SetAgentStatus(a, st)
      PROVE  Kept
  BY <1>0, <1>7, ConstantsAssumption DEF SetAgentStatus, TypeOK, Tx, LeasedIsClaimed
<1>8. ASSUME NEW t \in Handler, NEW w \in Item, NEW a \in Agent, ClaimCheckOffer(t, w, a)
      PROVE  Kept
  BY <1>0, <1>8, ConstantsAssumption DEF ClaimCheckOffer, Begin, TypeOK, Tx, LeasedIsClaimed
<1>9. ASSUME NEW t \in Handler, NEW w \in Item, NEW a \in Agent, CompleteCheckLease(t, w, a)
      PROVE  Kept
  BY <1>0, <1>9, ConstantsAssumption DEF CompleteCheckLease, Begin, TypeOK, Tx, LeasedIsClaimed
<1>10. ASSUME NEW t \in Handler, NEW a \in Agent, DeleteAgentStart(t, a)
      PROVE  Kept
  BY <1>0, <1>10, ConstantsAssumption DEF DeleteAgentStart, Begin, Doomed, TypeOK, Tx,
     LeasedIsClaimed
<1>11. ASSUME NEW t \in Reclaimer, ReclaimStart(t)
      PROVE  Kept
  BY <1>0, <1>11, ConstantsAssumption DEF ReclaimStart, ExpiredLeases, TypeOK, Tx, LeasedIsClaimed
<1>12. ASSUME NEW t \in Tx, ClaimLocked(t)
      PROVE  Kept
  BY <1>0, <1>12, ConstantsAssumption DEF ClaimLocked, Grant, Rollback, TypeOK, Tx, Claimable,
     Named, LeasedIsClaimed
<1>13. ASSUME NEW t \in Tx, CompleteUpdateItem(t)
      PROVE  Kept
  BY <1>0, <1>13, ConstantsAssumption DEF CompleteUpdateItem, Updatable, TypeOK, Tx, LeasedIsClaimed
<1>14. ASSUME NEW t \in Tx, CompleteDeleteLease(t)
      PROVE  Kept
  BY <1>0, <1>14, ConstantsAssumption DEF CompleteDeleteLease, TypeOK, Tx, LeasedIsClaimed
<1>15. ASSUME NEW t \in Tx, CompleteCommit(t)
      PROVE  Kept
  BY <1>0, <1>15, ConstantsAssumption DEF CompleteCommit, Rollback, WithoutLeases, TypeOK, Tx,
     FollowsSteps, Completing, Releasing, Chosen, ItemsHeld, LeasesHeld, Named, Released,
        LeasedIsClaimed
<1>16. ASSUME NEW t \in Tx, ReleaseLease(t)
      PROVE  Kept
  BY <1>0, <1>16, ConstantsAssumption DEF ReleaseLease, TypeOK, Tx, LeasedIsClaimed
<1>17. ASSUME NEW t \in Tx, ReleaseItem(t)
      PROVE  Kept
  BY <1>0, <1>17, ConstantsAssumption DEF ReleaseItem, LeasesHeld, TypeOK, Tx, LeasedIsClaimed
<1>18. ASSUME NEW t \in Tx, DeleteItem(t)
      PROVE  Kept
  BY <1>0, <1>18, ConstantsAssumption DEF DeleteItem, TypeOK, Tx, LeasedIsClaimed
<1>19. ASSUME NEW t \in Tx, DeleteItsLease(t)
      PROVE  Kept
  BY <1>0, <1>19, ConstantsAssumption DEF DeleteItsLease, TypeOK, Tx, LeasedIsClaimed
<1>20. ASSUME NEW t \in Tx, ReleaseAgentLeases(t)
      PROVE  Kept
  BY <1>0, <1>20, ConstantsAssumption DEF ReleaseAgentLeases, TypeOK, Tx, LeasedIsClaimed
<1>21. ASSUME NEW t \in Reclaimer, ReclaimCommit(t)
      PROVE  Kept
  BY <1>0, <1>21, ConstantsAssumption DEF ReclaimCommit, Reoffered, WithoutLeases, TypeOK, Tx,
     FollowsSteps, Completing, Releasing, Chosen, ItemsHeld, LeasesHeld, Named, Released,
        LeasedIsClaimed
<1>22. ASSUME NEW t \in Handler, DeleteAgentRow(t)
      PROVE  Kept
  BY <1>0, <1>22, ConstantsAssumption DEF DeleteAgentRow, Reoffered, WithoutLeases, Rollback,
     TypeOK, Tx, FollowsSteps, Completing, Releasing, Chosen, ItemsHeld, LeasesHeld, Named,
        Released, LeasedIsClaimed
<1>23. ASSUME NEW t \in Tx, Abort(t)
      PROVE  Kept
  BY <1>0, <1>23, ConstantsAssumption DEF Abort, Rollback, TypeOK, Tx, LeasedIsClaimed
<1>24. CASE UNCHANGED vars
  BY <1>0, <1>24 DEF vars, TypeOK
<1> QED
  BY <1>1, <1>2, <1>3, <1>4, <1>5, <1>6, <1>7, <1>8, <1>9, <1>10, <1>11, <1>12, <1>13, <1>14,
     <1>15, <1>16, <1>17, <1>18, <1>19, <1>20, <1>21,
     <1>22, <1>23, <1>24 DEF Next, Progress

(* The reclaimers never take an item from an agent that still has time.    *)
THEOREM LiveLeasesAreKept == Spec => LiveLeaseIsKept
<1>1. IInv /\ [Next]_vars => [\A w \in Item : lease[w] = "live" /\ lease'[w] = "none" =>
                                \/ status'[w] \in {"completed", "gone"}
                                \/ agentState'[claimant[w]] = "deleted"]_vars
  BY LiveLeaseStays
<1> QED
  BY <1>1, Invariance, PTL DEF Spec, LiveLeaseIsKept

----------------------------------------------------------------------------
(* How often an item is counted.                                           *)

(* The requests that have found a lease on an item and go on to complete   *)
(* it, whether the lease is still there or not.                            *)
Completers(w) ==
  {t \in Tx : target[t] = w /\ pc[t] \in {"completing", "unleasing", "crediting"}}

CreditsAreBounded == \A w \in Item : credits[w] <= Cardinality(Handler)

(* Each request that is under way has its place in the bound.              *)
Bound ==
  \A w \in Item :
    /\ Completers(w) \subseteq Handler
    /\ credits[w] + Cardinality(Completers(w)) <= Cardinality(Handler)

(* Once an item is counted nobody joins those who may count it again.      *)
LEMMA CompletersStep ==
  ASSUME IInv, [Next]_vars, NEW w \in Item
  PROVE  \/ credits'[w] = credits[w] /\ Completers(w)' \subseteq Completers(w)
         \/ /\ credits[w] = 0 /\ credits'[w] = 0
            /\ \E t \in Handler : Completers(w)' \subseteq Completers(w) \cup {t}
         \/ \E t \in Completers(w) : /\ credits'[w] = credits[w] + 1
                                     /\ Completers(w)' \subseteq Completers(w) \ {t}
<1> DEFINE Same == credits'[w] = credits[w] /\ Completers(w)' \subseteq Completers(w)
           Joined == /\ credits[w] = 0 /\ credits'[w] = 0
                     /\ \E t \in Handler : Completers(w)' \subseteq Completers(w) \cup {t}
           Counted == \E t \in Completers(w) : /\ credits'[w] = credits[w] + 1
                                              /\ Completers(w)' \subseteq Completers(w) \ {t}
<1> SUFFICES Same \/ Joined \/ Counted
  OBVIOUS
<1>0. TypeOK /\ LeasedIsClaimed /\ CreditsMatchCompletions
  BY DEF IInv
<1>1. ASSUME UNCHANGED <<pc, target, credits>> PROVE Same
  BY <1>1 DEF Completers
<1>2. CASE \E v \in Item :
             CreateWorkItem(v) \/ SchedulePending(v) \/ Expire(v) \/ DeleteRun(v)
  BY <1>1, <1>2 DEF CreateWorkItem, SchedulePending, Expire, DeleteRun, requests
<1>3. CASE \/ EnsurePublisherAgentsOffered
           \/ \E a \in Agent : ClaimNext(a)
           \/ \E a \in Agent, st \in {"enabled", "disabled"} : SetAgentStatus(a, st)
           \/ UNCHANGED vars
  BY <1>1, <1>3 DEF EnsurePublisherAgentsOffered, ClaimNext, Grant, SetAgentStatus, vars,
       committed, requests
<1>4. ASSUME NEW t \in Tx, End(t, {}) \/ (\E W : End(t, W)), credits' = credits PROVE Same
  BY <1>0, <1>4 DEF End, Begin, Completers, TypeOK
<1>5. ASSUME NEW t \in Handler, NEW v \in Item, NEW a \in Agent, ClaimCheckOffer(t, v, a)
      PROVE  Same
  BY <1>0, <1>5 DEF ClaimCheckOffer, Begin, Completers, TypeOK, committed
<1>6. ASSUME NEW t \in Handler, NEW v \in Item, NEW a \in Agent, CompleteCheckLease(t, v, a)
      PROVE  Same \/ Joined
  <2>1. credits' = credits /\ Completers(w)' \subseteq Completers(w) \cup {t}
    BY <1>0, <1>6 DEF CompleteCheckLease, Begin, Completers, TypeOK, committed
  <2>2. CASE v = w
    <3>1. status[w] = "claimed" /\ credits[w] \in Nat
      BY <1>0, <1>6, <2>2 DEF CompleteCheckLease, LeasedIsClaimed, TypeOK
    <3>2. ~ (credits[w] >= 1)
      BY <1>0, <3>1 DEF CreditsMatchCompletions
    <3>3. credits[w] = 0
      BY <3>1, <3>2
    <3> QED
      BY <2>1, <3>3
  <2>3. CASE v # w
    BY <1>0, <1>6, <2>1, <2>3 DEF CompleteCheckLease, Begin, Completers, TypeOK
  <2> QED
    BY <2>2, <2>3
<1>7. ASSUME NEW t \in Handler, NEW a \in Agent, DeleteAgentStart(t, a)
      PROVE  Same
  BY <1>0, <1>7 DEF DeleteAgentStart, Begin, Completers, TypeOK, committed
<1>8. ASSUME NEW t \in Reclaimer, ReclaimStart(t)
      PROVE  Same
  BY <1>0, <1>8 DEF ReclaimStart, Completers, TypeOK, committed
<1>9. ASSUME NEW t \in Tx, CompleteUpdateItem(t) \/ CompleteDeleteLease(t)
      PROVE  Same
  BY <1>0, <1>9 DEF CompleteUpdateItem, CompleteDeleteLease, Completers, TypeOK, committed
<1>10. ASSUME NEW t \in Tx,
              \/ ReleaseLease(t) \/ ReleaseItem(t) \/ DeleteItem(t) \/ DeleteItsLease(t)
              \/ ReleaseAgentLeases(t)
       PROVE  Same
  BY <1>0, <1>10 DEF ReleaseLease, ReleaseItem, DeleteItem, DeleteItsLease, ReleaseAgentLeases,
       Completers, TypeOK, requests, committed
<1>11. ASSUME NEW t \in Tx, ClaimLocked(t) \/ Abort(t) \/ ReclaimCommit(t) \/ DeleteAgentRow(t)
       PROVE  Same
  <2>1. credits' = credits /\ \E W : End(t, W)
    BY <1>11 DEF ClaimLocked, Grant, Abort, ReclaimCommit, DeleteAgentRow, Rollback, committed
  <2> QED
    BY <1>4, <2>1
<1>12. ASSUME NEW t \in Tx, CompleteCommit(t)
       PROVE  Same \/ Counted
  <2>1. CASE agentState[actor[t]] = "deleted"
    BY <1>4, <1>12, <2>1 DEF CompleteCommit, Rollback, committed
  <2>2. CASE agentState[actor[t]] # "deleted"
    <3>1. /\ pc[t] = "crediting" /\ credits' = [credits EXCEPT ![target[t]] = @ + 1]
          /\ Begin(t, "idle", NoAgent, NoItem)
      BY <1>12, <2>2 DEF CompleteCommit, End
    <3>2. Completers(w)' \subseteq Completers(w) \ {t}
      BY <1>0, <3>1 DEF Begin, Completers, TypeOK
    <3>3. CASE target[t] = w
      BY <1>0, <3>1, <3>2, <3>3 DEF Completers, TypeOK
    <3>4. CASE target[t] # w
      BY <1>0, <3>1, <3>2, <3>4 DEF TypeOK
    <3> QED
      BY <3>3, <3>4
  <2> QED
    BY <2>1, <2>2
<1>13. ASSUME NEW t \in Tx, Progress(t) \/ Abort(t)
       PROVE  Same \/ Counted
  BY <1>9, <1>10, <1>11, <1>12, <1>13 DEF Progress
<1> QED
  <2> HIDE DEF Same, Joined, Counted
  <2>1. CASE \E t \in Tx : Progress(t) \/ Abort(t)
    BY <1>13, <2>1
  <2>2. CASE \E t \in Handler, v \in Item, a \in Agent :
               ClaimCheckOffer(t, v, a) \/ CompleteCheckLease(t, v, a)
    BY <1>5, <1>6, <2>2
  <2>3. CASE \/ \E t \in Handler, a \in Agent : DeleteAgentStart(t, a)
             \/ \E t \in Reclaimer : ReclaimStart(t)
    BY <1>7, <1>8, <2>3
  <2> QED
    BY <1>2, <1>3, <2>1, <2>2, <2>3 DEF Next

(* An item may be counted more than once, but no more often than there are *)
(* requests at a time: a completion counts only if it found the lease, and *)
(* the first one to commit leaves none to find.                            *)
THEOREM OvercountIsBounded ==
  ASSUME IsFiniteSet(Handler)
  PROVE  Spec => []CreditsAreBounded
<1>1. Cardinality(Handler) \in Nat
  BY FS_CardinalityType
<1>2. Init => Bound
  <2>1. Init => \A w \in Item : Completers(w) = {} /\ credits[w] = 0
    BY DEF Init, Completers
  <2> QED
    BY <1>1, <2>1, FS_EmptySet DEF Bound
<1>3. IInv /\ Bound /\ [Next]_vars => Bound'
  <2> SUFFICES ASSUME IInv, Bound, [Next]_vars, NEW w \in Item
               PROVE  /\ Completers(w)' \subseteq Handler
                      /\ credits'[w] + Cardinality(Completers(w)') <= Cardinality(Handler)
    BY DEF Bound
  <2>1. /\ Completers(w) \subseteq Handler /\ IsFiniteSet(Completers(w))
        /\ credits[w] + Cardinality(Completers(w)) <= Cardinality(Handler)
        /\ Cardinality(Completers(w)) \in Nat /\ credits[w] \in Nat
    <3>1. Completers(w) \subseteq Handler
      BY DEF Bound
    <3> QED
      BY <3>1, FS_Subset, FS_CardinalityType DEF Bound, IInv, TypeOK
  <2>2. CASE credits'[w] = credits[w] /\ Completers(w)' \subseteq Completers(w)
    BY <1>1, <2>1, <2>2, FS_Subset, FS_CardinalityType
  <2>3. CASE /\ credits[w] = 0 /\ credits'[w] = 0
             /\ \E t \in Handler : Completers(w)' \subseteq Completers(w) \cup {t}
    <3>1. Completers(w)' \subseteq Handler
      BY <2>1, <2>3
    <3> QED
      BY <1>1, <2>3, <3>1, FS_Subset, FS_CardinalityType
  <2>4. ASSUME NEW t \in Completers(w), credits'[w] = credits[w] + 1,
               Completers(w)' \subseteq Completers(w) \ {t}
        PROVE  /\ Completers(w)' \subseteq Handler
               /\ credits'[w] + Cardinality(Completers(w)') <= Cardinality(Handler)
    <3>1. /\ IsFiniteSet(Completers(w) \ {t})
          /\ Cardinality(Completers(w) \ {t}) = Cardinality(Completers(w)) - 1
      BY <2>1, <2>4, FS_RemoveElement
    <3>2. /\ Cardinality(Completers(w)') <= Cardinality(Completers(w) \ {t})
          /\ Cardinality(Completers(w)') \in Nat
      BY <2>4, <3>1, FS_Subset, FS_CardinalityType
    <3> QED
      BY <1>1, <2>1, <2>4, <3>1, <3>2
  <2> QED
    BY <2>2, <2>3, <2>4, CompletersStep
<1>4. TypeOK /\ Bound => CreditsAreBounded
  <2> SUFFICES ASSUME TypeOK, Bound, NEW w \in Item
               PROVE  credits[w] <= Cardinality(Handler)
    BY DEF CreditsAreBounded
  <2>1. /\ IsFiniteSet(Completers(w)) /\ credits[w] \in Nat
        /\ credits[w] + Cardinality(Completers(w)) <= Cardinality(Handler)
    BY FS_Subset DEF Bound, TypeOK
  <2>2. Cardinality(Completers(w)) \in Nat
    BY <2>1, FS_CardinalityType
  <2> QED
    BY <1>1, <2>1, <2>2
<1> QED
  BY <1>2, <1>3, <1>4, Invariance, TypeCorrect, PTL DEF Spec

----------------------------------------------------------------------------
(* Waiting.                                                                *)

Busy == {t \in Tx : pc[t] # "idle"}

(* Each step begins one transaction at most, so that only finitely many    *)
(* are under way at a time.                                                *)
LEMMA BusyIsFinite == Spec => []IsFiniteSet(Busy)
<1>1. Init => IsFiniteSet(Busy)
  <2>1. Init => Busy = {}
    BY DEF Init, Busy
  <2> QED
    BY <2>1, FS_EmptySet
<1>2. TypeOK /\ IsFiniteSet(Busy) /\ [Next]_vars => IsFiniteSet(Busy)'
  <2> SUFFICES ASSUME TypeOK, IsFiniteSet(Busy), [Next]_vars PROVE IsFiniteSet(Busy')
    OBVIOUS
  <2>1. \E t \in Tx \cup {NoTx} : \A u \in Tx \ {t} : pc'[u] = pc[u]
    <3> USE DEF requests, End, Begin, Rollback, Tx, TypeOK
    <3>1. CASE UNCHANGED pc
      BY <3>1
    <3>2. CASE \E w \in Item :
                 CreateWorkItem(w) \/ SchedulePending(w) \/ Expire(w) \/ DeleteRun(w)
      BY <3>2 DEF CreateWorkItem, SchedulePending, Expire, DeleteRun
    <3>3. CASE \/ EnsurePublisherAgentsOffered
               \/ \E a \in Agent : ClaimNext(a)
               \/ \E a \in Agent, st \in {"enabled", "disabled"} : SetAgentStatus(a, st)
               \/ UNCHANGED vars
      BY <3>3 DEF EnsurePublisherAgentsOffered, ClaimNext, SetAgentStatus, vars
    <3>4. ASSUME NEW t \in Handler, NEW w \in Item, NEW a \in Agent,
                 ClaimCheckOffer(t, w, a) \/ CompleteCheckLease(t, w, a)
          PROVE  \A u \in Tx \ {t} : pc'[u] = pc[u]
      BY <3>4 DEF ClaimCheckOffer, CompleteCheckLease
    <3>5. ASSUME NEW t \in Handler, NEW a \in Agent, DeleteAgentStart(t, a)
          PROVE  \A u \in Tx \ {t} : pc'[u] = pc[u]
      BY <3>5 DEF DeleteAgentStart
    <3>6. ASSUME NEW t \in Reclaimer, ReclaimStart(t)
          PROVE  \A u \in Tx \ {t} : pc'[u] = pc[u]
      BY <3>6 DEF ReclaimStart
    <3>7. ASSUME NEW t \in Tx, Progress(t) \/ Abort(t)
          PROVE  \A u \in Tx \ {t} : pc'[u] = pc[u]
      BY <3>7 DEF Progress, Abort, ClaimLocked, CompleteUpdateItem, CompleteDeleteLease,
           CompleteCommit, ReleaseLease, ReleaseItem, DeleteItem, DeleteItsLease,
           ReleaseAgentLeases, ReclaimCommit, DeleteAgentRow
    <3> QED
      BY <3>2, <3>3, <3>4, <3>5, <3>6, <3>7 DEF Next
  <2>2. PICK t \in Tx \cup {NoTx} : \A u \in Tx \ {t} : pc'[u] = pc[u]
    BY <2>1
  <2>3. Busy' \subseteq Busy \cup {t}
    BY <2>2 DEF Busy
  <2>4. IsFiniteSet(Busy \cup {t})
    BY FS_AddElement
  <2> QED
    BY <2>3, <2>4, FS_Subset
<1> QED
  BY <1>1, <1>2, TypeCorrect, PTL DEF Spec

(* What a transaction waits for is held by transactions under way.         *)
LEMMA LocksAreOfBusy ==
  ASSUME IInv, NEW t \in Busy, NoTx \notin Wanted(t)
  PROVE  Wanted(t) \subseteq Busy
<1>1. /\ TypeOK /\ Named(t)
      /\ \A u \in Tx : FollowsSteps(u)
  BY DEF IInv, LocksFollowSteps, Busy
<1>2. ASSUME NEW w \in Item
      PROVE  /\ itemLock[w] \in Busy \cup {NoTx}
             /\ leaseLock[w] \in Busy \cup {NoTx}
  BY <1>1 DEF FollowsSteps, BeforeLocks, ItemsHeld, LeasesHeld, Busy, TypeOK
<1>3. Wanted(t) \subseteq {itemLock[w] : w \in Item} \cup {leaseLock[w] : w \in Item}
  <2>1. CASE pc[t] \in {"claiming", "completing", "unleasing"}
    <3>1. target[t] \in Item
      BY <1>1, <2>1 DEF Named
    <3> QED
      BY <2>1, <3>1 DEF Wanted
  <2>2. CASE pc[t] = "releasing" /\ Released(t)
    BY <2>2 DEF Wanted
  <2>3. CASE pc[t] = "releasing" /\ ~ Released(t)
    BY <1>1, <2>3 DEF Wanted, TypeOK, LeasesHeld, Busy
  <2>4. CASE pc[t] = "deleting"
    BY <1>1, <2>4 DEF Wanted, LeasesLeft, TypeOK, Busy
  <2>5. CASE pc[t] \in {"idle", "crediting"}
    BY <2>5 DEF Wanted
  <2> QED
    BY <1>1, <2>1, <2>2, <2>3, <2>4, <2>5 DEF TypeOK, Steps, Busy
<1> QED
  BY <1>2, <1>3

LEMMA LeastNumber ==
  ASSUME NEW S, S \subseteq Nat, S # {}
  PROVE  \E m \in S : \A n \in S : m <= n
<1> DEFINE R == OpToRel(<, Nat)
<1>1. IsWellFoundedOn(R, Nat)
  BY NatLessThanWellFounded
<1>2. \A m, n \in Nat : n < m => <<n, m>> \in R
  BY DEF OpToRel
<1> HIDE DEF R
<1>3. PICK m \in S : \A n \in S : ~ (<<n, m>> \in R)
  BY <1>1, WFMin
<1>4. \A n \in S : ~ (n < m)
  BY <1>2, <1>3
<1> QED
  BY <1>4

(* A finite set of transactions that wait for each other has a least one.  *)
LEMMA LeastWaitingSet ==
  ASSUME NEW B \in SUBSET Tx, IsFiniteSet(B), B # {}, WaitOnEachOther(B)
  PROVE  \E D \in SUBSET B : Deadlocked(D)
<1> DEFINE Waiting == {C \in SUBSET B : C # {} /\ WaitOnEachOther(C)}
           Sizes == {Cardinality(C) : C \in Waiting}
<1>1. \A C \in SUBSET B : IsFiniteSet(C) /\ Cardinality(C) \in Nat
  BY FS_Subset, FS_CardinalityType
<1>2. Sizes \subseteq Nat /\ Sizes # {}
  BY <1>1
<1>3. PICK m \in Sizes : \A n \in Sizes : m <= n
  <2> HIDE DEF Sizes
  <2> QED
    BY <1>2, LeastNumber
<1>4. PICK D \in Waiting : m = Cardinality(D)
  BY <1>3
<1>5. ASSUME NEW C \in SUBSET D, C \notin {{}, D}, WaitOnEachOther(C)
      PROVE  FALSE
  <2>1. C \in Waiting
    BY <1>5
  <2>2. Cardinality(C) < Cardinality(D)
    <3>1. IsFiniteSet(D) /\ C \subseteq D /\ C # D
      BY <1>1, <1>5
    <3>2. /\ Cardinality(C) <= Cardinality(D)
          /\ Cardinality(C) = Cardinality(D) => C = D
      BY <3>1, FS_Subset
    <3> QED
      BY <1>1, <2>1, <3>1, <3>2
  <2> QED
    BY <1>1, <1>3, <1>4, <2>1, <2>2
<1> QED
  BY <1>4, <1>5 DEF Deadlocked

(* Transactions are under way and each of them waits.                      *)
Standstill ==
  /\ Busy # {}
  /\ \A t \in Busy : Wanted(t) # {} /\ NoTx \notin Wanted(t)

StandstillIsDeadlock == Standstill => \E D \in SUBSET Tx : Deadlocked(D)

(* When all transactions under way wait, some of them form a deadlock that *)
(* the database resolves: completions, claims, reclaims and deletions are  *)
(* never all stuck behind a lock that nobody will release.                 *)
THEOREM StandstillsEnd == Spec => []StandstillIsDeadlock
<1>1. ASSUME IInv, IsFiniteSet(Busy), Standstill
      PROVE  \E D \in SUBSET Tx : Deadlocked(D)
  <2>1. Busy \in SUBSET Tx /\ Busy # {} /\ WaitOnEachOther(Busy)
    BY <1>1, LocksAreOfBusy DEF Standstill, WaitOnEachOther, Busy
  <2> QED
    BY <1>1, <2>1, LeastWaitingSet
<1>2. IInv /\ IsFiniteSet(Busy) => StandstillIsDeadlock
  BY <1>1 DEF StandstillIsDeadlock
<1> QED
  BY <1>2, Invariance, BusyIsFinite, PTL

(* A completion that waits for its lease holds no lease yet.               *)
UnleasingIsEmpty == \A t \in Tx : pc[t] = "unleasing" => LeasesHeld(t) = {}

LEMMA UnleasingHoldsNoLease == Spec => []UnleasingIsEmpty
<1>1. Init => UnleasingIsEmpty
  BY DEF Init, UnleasingIsEmpty
<1>2. IInv /\ UnleasingIsEmpty /\ [Next]_vars => UnleasingIsEmpty'
  <2> SUFFICES ASSUME IInv, UnleasingIsEmpty, [Next]_vars,
                      NEW t \in Tx, pc'[t] = "unleasing"
               PROVE  \A w \in Item : leaseLock'[w] # t
    BY DEF UnleasingIsEmpty, LeasesHeld
  <2> USE DEF requests, locks, End, Begin, Rollback, TypeOK, LeasesHeld
  <2>1. TypeOK /\ FollowsSteps(t) /\ NoTx # t
    BY ConstantsAssumption DEF IInv, LocksFollowSteps
  <2>2. pc[t] \in {"completing", "unleasing"} => \A w \in Item : leaseLock[w] # t
    BY <2>1 DEF UnleasingIsEmpty, FollowsSteps, BeforeLocks
  <2>3. CASE UNCHANGED <<pc, leaseLock>>
    BY <2>2, <2>3
  <2>4. CASE \E w \in Item :
               CreateWorkItem(w) \/ SchedulePending(w) \/ Expire(w) \/ DeleteRun(w)
    BY <2>3, <2>4 DEF CreateWorkItem, SchedulePending, Expire, DeleteRun
  <2>5. CASE \/ EnsurePublisherAgentsOffered
             \/ \E a \in Agent : ClaimNext(a)
             \/ \E a \in Agent, st \in {"enabled", "disabled"} : SetAgentStatus(a, st)
             \/ UNCHANGED vars
    BY <2>3, <2>5 DEF EnsurePublisherAgentsOffered, ClaimNext, SetAgentStatus, vars
  <2>6. ASSUME NEW u \in Handler, NEW w \in Item, NEW a \in Agent,
               ClaimCheckOffer(u, w, a) \/ CompleteCheckLease(u, w, a)
        PROVE  \A v \in Item : leaseLock'[v] # t
    BY <2>1, <2>2, <2>6 DEF ClaimCheckOffer, CompleteCheckLease, Tx
  <2>7. ASSUME NEW u \in Handler, NEW a \in Agent, DeleteAgentStart(u, a)
        PROVE  \A v \in Item : leaseLock'[v] # t
    <3>1. u # t /\ pc[t] = "unleasing"
      BY <2>1, <2>7 DEF DeleteAgentStart, Tx
    <3> QED
      BY <2>1, <2>2, <2>7, <3>1 DEF DeleteAgentStart
  <2>8. ASSUME NEW u \in Reclaimer, ReclaimStart(u)
        PROVE  \A v \in Item : leaseLock'[v] # t
    BY <2>1, <2>2, <2>8 DEF ReclaimStart, Tx
  <2>9. ASSUME NEW u \in Tx, CompleteUpdateItem(u) \/ CompleteDeleteLease(u)
        PROVE  \A v \in Item : leaseLock'[v] # t
    BY <2>1, <2>2, <2>9 DEF CompleteUpdateItem, CompleteDeleteLease
  <2>10. ASSUME NEW u \in Tx,
                \/ ReleaseLease(u) \/ ReleaseItem(u) \/ DeleteItem(u) \/ DeleteItsLease(u)
                \/ ReleaseAgentLeases(u)
         PROVE  \A v \in Item : leaseLock'[v] # t
    BY <2>1, <2>2, <2>10 DEF ReleaseLease, ReleaseItem, DeleteItem, DeleteItsLease,
         ReleaseAgentLeases
  <2>11. ASSUME NEW u \in Tx, NEW W, End(u, W)
         PROVE  \A v \in Item : leaseLock'[v] # t
    BY <2>1, <2>2, <2>11
  <2>12. ASSUME NEW u \in Tx,
                \/ ClaimLocked(u) \/ CompleteCommit(u) \/ Abort(u)
                \/ ReclaimCommit(u) \/ DeleteAgentRow(u)
         PROVE  \E W : End(u, W)
    <3> HIDE DEF End
    <3> QED
      BY <2>12 DEF ClaimLocked, CompleteCommit, Abort, ReclaimCommit, DeleteAgentRow
  <2>13. ASSUME NEW u \in Tx, Progress(u) \/ Abort(u)
         PROVE  \A v \in Item : leaseLock'[v] # t
    <3> HIDE DEF End, Begin, Rollback, requests, locks, TypeOK, LeasesHeld
    <3> QED
      BY <2>9, <2>10, <2>11, <2>12, <2>13 DEF Progress
  <2> HIDE DEF End, Begin, Rollback, requests, locks, TypeOK, LeasesHeld
  <2> QED
    BY <2>4, <2>5, <2>6, <2>7, <2>8, <2>13 DEF Next
<1> QED
  BY <1>1, <1>2, Invariance, PTL DEF Spec

(* Neither a claim nor a completion that waits for its item is in a        *)
(* deadlock, and one of those in it is a reclaim or the deletion of an     *)
(* agent.                                                                  *)
DeadlocksNeedReleases ==
  \A D \in SUBSET Tx : Deadlocked(D) =>
    /\ \A t \in D : pc[t] \in {"unleasing", "deleting", "releasing"}
    /\ \E t \in D : pc[t] \in {"deleting", "releasing"}

(* Claims and completions lock item before lease and never deadlock among  *)
(* themselves: it takes a statement that deletes leases and updates their  *)
(* items, the wrong way round, or one that deletes several items.          *)
THEOREM DeadlocksAreReleases == Spec => []DeadlocksNeedReleases
<1>1. ASSUME IInv, UnleasingIsEmpty PROVE DeadlocksNeedReleases
  <2> SUFFICES ASSUME NEW D \in SUBSET Tx, Deadlocked(D)
               PROVE  /\ \A t \in D : pc[t] \in {"unleasing", "deleting", "releasing"}
                      /\ \E t \in D : pc[t] \in {"deleting", "releasing"}
    BY DEF DeadlocksNeedReleases
  <2>1. TypeOK /\ \A u \in Tx : FollowsSteps(u) /\ Named(u)
    BY <1>1 DEF IInv, LocksFollowSteps
  <2>2. D # {} /\ \A t \in D : Wanted(t) # {} /\ Wanted(t) \subseteq D
    BY DEF Deadlocked, WaitOnEachOther
  <2>3. ASSUME NEW t \in D
        PROVE  pc[t] \in {"claiming", "completing", "unleasing", "deleting", "releasing"}
    BY <2>2 DEF Wanted
  <2>4. ASSUME NEW t \in D, pc[t] \in {"claiming", "completing"} PROVE FALSE
    <3>1. \A w \in Item : itemLock[w] # t /\ leaseLock[w] # t
      BY <2>1, <2>4 DEF FollowsSteps, BeforeLocks, ItemsHeld, LeasesHeld
    <3>2. \A u \in D : t \notin Wanted(u)
      BY <2>1, <3>1 DEF Wanted, Named, TypeOK, LeasesHeld, LeasesLeft
    <3>3. WaitOnEachOther(D \ {t}) /\ D \ {t} # {}
      BY <2>2, <3>2 DEF WaitOnEachOther
    <3> QED
      BY <3>3 DEF Deadlocked
  <2>5. \E t \in D : pc[t] \in {"deleting", "releasing"}
    <3>1. SUFFICES ASSUME \A t \in D : pc[t] = "unleasing" PROVE FALSE
      BY <2>3, <2>4
    <3>2. \A t \in D, w \in Item : leaseLock[w] # t
      BY <1>1, <3>1 DEF UnleasingIsEmpty, LeasesHeld
    <3>3. \A t \in D : Wanted(t) = {leaseLock[target[t]]} /\ target[t] \in Item
      BY <2>1, <3>1 DEF Wanted, Named
    <3> QED
      BY <2>2, <3>2, <3>3
  <2> QED
    BY <2>3, <2>4, <2>5
<1> QED
  BY <1>1, Invariance, UnleasingHoldsNoLease, PTL
=============================================================================
