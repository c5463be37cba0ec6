----------------------------- MODULE WorkItems -----------------------------
(***************************************************************************)
(* The life of a work item: created for a run, offered to agents, claimed  *)
(* under a time-bounded lease, completed, or taken back when the lease     *)
(* runs out or its holder is deleted.                                      *)
(*                                                                         *)
(* The state is what PostgreSQL has committed, plus the row locks and the  *)
(* progress of the transactions in flight.  All transactions run at READ   *)
(* COMMITTED.  A write is modelled by the row lock it takes: the lock      *)
(* hides the write from everyone else until the commit, so the commit step *)
(* applies every write of its transaction at once.  A statement that finds *)
(* a row locked waits for it and then sees the row as the other            *)
(* transaction left it.                                                    *)
(*                                                                         *)
(* Two background reclaimers (the API's scheduler and the worker process)  *)
(* race with each other and with the request handlers.                     *)
(***************************************************************************)
EXTENDS Naturals, FiniteSets

CONSTANTS
  Agent,        \* agent ids
  Item,         \* work item ids, numbered in the order of created_at
  Handler,      \* API request slots, each serving one request at a time
  Reclaimer,    \* the lease reclaimers: the API's ticker and the worker
  NoAgent, NoItem, NoTx,
  OwnerOf,      \* [Agent -> user]: the owner of an agent
  Publisher,    \* [Item -> user]: publisher of the run an item belongs to
  Kind,         \* [Item -> Kinds]: which code path creates an item
  BuiltIn,      \* items of the two built-in runs
  HasAllTags,   \* [Item -> SUBSET Agent]: agents with every tag the run requires
  Judge,        \* agents configured as evaluation judges
  Newcomer,     \* [Item -> Agent]: the agent an onboarding item was created for
  MatchLimit    \* AIHUB_MATCHING_PARTICIPANT_COUNT

(* "draft" is the first item of a run, "review" asks one agent to review a *)
(* final artifact, "evaluation" is the item of a pre-review evaluation and *)
(* "platform" an onboarding item.  The built-in runs have onboarding items *)
(* and the reviews of what agents submit for them.                         *)
Kinds == {"draft", "review", "evaluation", "platform"}

Tx == Handler \cup Reclaimer

ASSUME ConstantsAssumption ==
  /\ Item \subseteq Nat
  /\ NoItem \notin Item
  /\ NoAgent \notin Agent
  /\ NoTx \notin Tx
  /\ Handler \cap Reclaimer = {}
  /\ Kind \in [Item -> Kinds]
  /\ BuiltIn \subseteq {w \in Item : Kind[w] \in {"platform", "review"}}
  /\ \A w \in Item : Kind[w] = "platform" => w \in BuiltIn
  /\ Newcomer \in [Item -> Agent]
  /\ HasAllTags \in [Item -> SUBSET Agent]
  /\ Judge \subseteq Agent
  /\ MatchLimit \in Nat \ {0}

(* The publisher of the built-in runs is the platform user; the agents it  *)
(* owns (the authors of seeded topics) are inserted disabled and stay so,  *)
(* which is to say that they are not in Agent.                             *)
ASSUME PlatformOwnsNoAgent ==
  \A w \in BuiltIn, a \in Agent : OwnerOf[a] # Publisher[w]

VARIABLES
  agentState,   \* agents.status, or "deleted" once the row is gone
  status,       \* work_items.status; "absent" before insert, "gone" after delete
  lease,        \* the row of work_item_leases: none, live, or past lease_expires_at
  claimant,     \* its agent_id; kept after the row is gone as the last claimant
  offers,       \* work_item_offers
  credits,      \* owner_contributions increments, split by completed item
  pc,           \* what each transaction does next
  actor,        \* the agent a handler transaction acts for or deletes
  target,       \* the item a handler transaction works on
  todo,         \* leases in a release statement's snapshot it has not deleted yet
  doomed,       \* items the open agent deletion deletes
  itemLock,     \* row locks on work_items
  leaseLock     \* row locks on work_item_leases

committed == <<agentState, status, lease, claimant, offers, credits>>
requests  == <<pc, actor, target, doomed>>
locks     == <<itemLock, leaseLock>>
vars == <<committed, requests, todo, locks>>

Statuses == {"absent", "scheduled", "offered", "claimed", "completed", "gone"}
Steps    == {"idle", "claiming", "completing", "unleasing", "crediting", "deleting", "releasing"}

TypeOK ==
  /\ agentState \in [Agent -> {"enabled", "disabled", "deleted"}]
  /\ status \in [Item -> Statuses]
  /\ lease \in [Item -> {"none", "live", "expired"}]
  /\ claimant \in [Item -> Agent \cup {NoAgent}]
  /\ offers \subseteq Item \X Agent
  /\ credits \in [Item -> Nat]
  /\ pc \in [Tx -> Steps]
  /\ actor \in [Tx -> Agent \cup {NoAgent}]
  /\ target \in [Tx -> Item \cup {NoItem}]
  /\ todo \in [Tx -> SUBSET Item]
  /\ doomed \in [Tx -> SUBSET Item]
  /\ itemLock \in [Item -> Tx \cup {NoTx}]
  /\ leaseLock \in [Item -> Tx \cup {NoTx}]

(* A deployment with its agents registered and enabled.  Registration has  *)
(* created each onboarding item, offered to the newcomer alone.            *)
Init ==
  /\ agentState = [a \in Agent |-> "enabled"]
  /\ status = [w \in Item |-> IF Kind[w] = "platform" THEN "offered" ELSE "absent"]
  /\ lease = [w \in Item |-> "none"]
  /\ claimant = [w \in Item |-> NoAgent]
  /\ offers = {<<w, Newcomer[w]>> : w \in {v \in Item : Kind[v] = "platform"}}
  /\ credits = [w \in Item |-> 0]
  /\ pc = [t \in Tx |-> "idle"]
  /\ actor = [t \in Tx |-> NoAgent]
  /\ target = [t \in Tx |-> NoItem]
  /\ todo = [t \in Tx |-> {}]
  /\ doomed = [t \in Tx |-> {}]
  /\ itemLock = [w \in Item |-> NoTx]
  /\ leaseLock = [w \in Item |-> NoTx]

----------------------------------------------------------------------------
(* Helpers.                                                                *)

Exists(w)     == status[w] \notin {"absent", "gone"}
Enabled       == {a \in Agent : agentState[a] = "enabled"}
OfferedTo(w)  == {a \in Agent : <<w, a>> \in offers}
ItemsHeld(t)  == {w \in Item : itemLock[w] = t}
LeasesHeld(t) == {w \in Item : leaseLock[w] = t}

Begin(t, step, a, w) ==
  /\ pc' = [pc EXCEPT ![t] = step]
  /\ actor' = [actor EXCEPT ![t] = a]
  /\ target' = [target EXCEPT ![t] = w]

(* Commit or rollback: the transaction's locks go, and the rows of W, now  *)
(* deleted, drop out of the snapshots other statements still work through. *)
End(t, W) ==
  /\ Begin(t, "idle", NoAgent, NoItem)
  /\ todo' = [u \in Tx |-> IF u = t THEN {} ELSE todo[u] \ W]
  /\ doomed' = [doomed EXCEPT ![t] = {}]
  /\ itemLock' = [w \in Item |-> IF itemLock[w] = t THEN NoTx ELSE itemLock[w]]
  /\ leaseLock' = [w \in Item |-> IF leaseLock[w] = t THEN NoTx ELSE leaseLock[w]]

(* Rollback: a failed check, a database error, a request context that      *)
(* times out or is cancelled, a deadlock victim, a process that dies.      *)
Rollback(t) == End(t, {}) /\ UNCHANGED committed

WithoutLeases(W) == [w \in Item |-> IF w \in W THEN "none" ELSE lease[w]]

----------------------------------------------------------------------------
(* Creation and offers.                                                    *)

Smaller(m, n) == IF m < n THEN m ELSE n

(* matchAgentsForRun: the publisher's own enabled agents first, then other *)
(* enabled agents up to the limit; no agent at all fails the run.          *)
Matches(w) ==
  LET Own == {a \in Enabled : OwnerOf[a] = Publisher[w]}
      Others == Enabled \ Own
      nOwn == Smaller(MatchLimit, Cardinality(Own))
      nOthers == Smaller(MatchLimit - nOwn, Cardinality(Others))
  IN  {S \in SUBSET Enabled : /\ S # {}
                              /\ Cardinality(S \cap Own) = nOwn
                              /\ Cardinality(S \ Own) = nOthers}

(* maybeCreateReviewWorkItem picks one enabled agent.  (Whether it is one  *)
(* of the run's participants, and that it is not the artifact's author, is *)
(* left to the model of artifacts.)                                        *)
Reviewers == {{a} : a \in Enabled}

(* A pre-review evaluation goes to the configured judges, if any.          *)
EnabledJudges == {Enabled \cap Judge} \ {{}}

Recipients(w) ==
  CASE Kind[w] = "draft"      -> Matches(w)
    [] Kind[w] = "review"     -> Reviewers
    [] Kind[w] = "evaluation" -> EnabledJudges
    [] OTHER                  -> {}

CreateWorkItem(w) ==
  /\ status[w] = "absent"
  /\ \A v \in Item : v < w => status[v] # "absent"
  /\ \E S \in Recipients(w),
        st \in (IF Kind[w] = "draft" THEN {"offered", "scheduled"} ELSE {"offered"}) :
       /\ status' = [status EXCEPT ![w] = st]
       /\ offers' = offers \cup ({w} \X S)
  /\ UNCHANGED <<agentState, lease, claimant, credits, requests, todo, locks>>

\* Mutant: the statement joins the offers and skips items nobody can take.
Due_Reachable(w) == status[w] = "scheduled" /\ OfferedTo(w) \cap Enabled # {}

(* The items whose scheduled_at has passed; when that is, is up to time.   *)
Due(w) == status[w] = "scheduled"

SchedulePending(w) ==
  /\ Due(w)
  /\ itemLock[w] = NoTx
  /\ status' = [status EXCEPT ![w] = "offered"]
  /\ UNCHANGED <<agentState, lease, claimant, offers, credits, requests, todo, locks>>

(* The worker offers every unclaimed item to the enabled agents of its     *)
(* run's publisher that have the required tags, unless one of the          *)
(* publisher's agents already has an offer.                                *)
Unoffered ==
  {w \in Item : /\ status[w] = "offered"
                /\ Kind[w] # "review"
                /\ \A a \in OfferedTo(w) : OwnerOf[a] # Publisher[w]}

EnsurePublisherAgentsOffered ==
  LET new == {o \in Unoffered \X Enabled : /\ OwnerOf[o[2]] = Publisher[o[1]]
                                           /\ o[2] \in HasAllTags[o[1]]}
  IN  /\ new # {}
      /\ offers' = offers \cup new
      /\ UNCHANGED <<agentState, status, lease, claimant, credits, requests, todo, locks>>

----------------------------------------------------------------------------
(* Claims.                                                                 *)

\* Mutant: the offer alone lets an agent claim.
Claimable_Any(w) == Exists(w)

\* Mutant: an item can be claimed before it is due.
Claimable_Early(w) == status[w] \in {"offered", "scheduled"}

Claimable(w) == status[w] = "offered"

Grant(w, a) ==
  /\ status' = [status EXCEPT ![w] = "claimed"]
  /\ lease' = [lease EXCEPT ![w] = "live"]
  /\ claimant' = [claimant EXCEPT ![w] = a]
  /\ UNCHANGED <<agentState, offers, credits>>

(* Authentication and the offer check read rows nobody locks for them.     *)
ClaimCheckOffer(t, w, a) ==
  /\ pc[t] = "idle"
  /\ agentState[a] = "enabled"
  /\ <<w, a>> \in offers
  /\ Begin(t, "claiming", a, w)
  /\ UNCHANGED <<committed, todo, doomed, locks>>

(* SELECT ... FOR UPDATE, then lease, status and commit.  The lease insert *)
(* fails on its foreign key when the agent's row is gone.  Once the item   *)
(* row is locked no other transaction can touch the item or its lease, so  *)
(* the rest of the transaction is one step.                                *)
ClaimLocked(t) ==
  LET w == target[t]
      a == actor[t]
  IN  /\ pc[t] = "claiming"
      /\ itemLock[w] = NoTx
      /\ \/ /\ Claimable(w)
            /\ agentState[a] # "deleted"
            /\ Grant(w, a)
            /\ End(t, {})
         \/ /\ ~ (Claimable(w) /\ agentState[a] # "deleted")
            /\ Rollback(t)

(* FOR UPDATE SKIP LOCKED never waits: the oldest unlocked offer.          *)
ClaimNext(a) ==
  LET Inbox == {w \in Item : /\ <<w, a>> \in offers
                             /\ status[w] = "offered"
                             /\ itemLock[w] = NoTx}
  IN  /\ agentState[a] = "enabled"
      /\ \E w \in Inbox : /\ \A v \in Inbox : w <= v
                          /\ Grant(w, a)
      /\ UNCHANGED <<requests, todo, locks>>

(* Time passes lease_expires_at.                                           *)
Expire(w) ==
  /\ lease[w] = "live"
  /\ lease' = [lease EXCEPT ![w] = "expired"]
  /\ UNCHANGED <<agentState, status, claimant, offers, credits, requests, todo, locks>>

----------------------------------------------------------------------------
(* Completion.                                                             *)

(* The lease is read without a lock: nothing keeps it until the update.    *)
CompleteCheckLease(t, w, a) ==
  /\ pc[t] = "idle"
  /\ agentState[a] = "enabled"
  /\ lease[w] = "live"
  /\ claimant[w] = a
  /\ Begin(t, "completing", a, w)
  /\ UNCHANGED <<committed, todo, doomed, locks>>

\* Mutant: "and status='claimed'", with the number of rows left unchecked.
Updatable_Claimed(w) == status[w] = "claimed"

(* update work_items ... where id=$1: any status; no row if deleted.       *)
Updatable(w) == Exists(w)

CompleteUpdateItem(t) ==
  LET w == target[t]
  IN  /\ pc[t] = "completing"
      /\ itemLock[w] = NoTx
      /\ itemLock' = IF Updatable(w) THEN [itemLock EXCEPT ![w] = t] ELSE itemLock
      /\ pc' = [pc EXCEPT ![t] = "unleasing"]
      /\ UNCHANGED <<committed, actor, target, doomed, todo, leaseLock>>

\* Mutant: the lease is left to run out.
CompleteDeleteLease_Skipped(t) ==
  /\ pc[t] = "unleasing"
  /\ pc' = [pc EXCEPT ![t] = "crediting"]
  /\ UNCHANGED <<committed, actor, target, doomed, todo, locks>>

(* delete from work_item_leases where work_item_id=$1: whoever holds it.   *)
CompleteDeleteLease(t) ==
  LET w == target[t]
  IN  /\ pc[t] = "unleasing"
      /\ leaseLock[w] = NoTx
      /\ leaseLock' = IF lease[w] # "none" THEN [leaseLock EXCEPT ![w] = t] ELSE leaseLock
      /\ pc' = [pc EXCEPT ![t] = "crediting"]
      /\ UNCHANGED <<committed, actor, target, doomed, todo, itemLock>>

(* Owner lookup, contribution and commit; the lookup fails for an agent    *)
(* that is deleted by now.                                                 *)
CompleteCommit(t) ==
  LET w == target[t]
  IN  /\ pc[t] = "crediting"
      /\ \/ /\ agentState[actor[t]] # "deleted"
            /\ status' = IF itemLock[w] = t THEN [status EXCEPT ![w] = "completed"] ELSE status
            /\ lease' = WithoutLeases(LeasesHeld(t))
            /\ credits' = [credits EXCEPT ![w] = @ + 1]
            /\ End(t, LeasesHeld(t))
            /\ UNCHANGED <<agentState, claimant, offers>>
         \/ /\ agentState[actor[t]] = "deleted"
            /\ Rollback(t)

----------------------------------------------------------------------------
(* Releasing leases: one statement deletes leases and sets their items     *)
(* offered, row by row, in the order its plan picks.                       *)

\* Mutant: no filter on lease_expires_at.
ExpiredLeases_All == {w \in Item : lease[w] # "none"}

\* Mutant: the filter compares the wrong way round.
ExpiredLeases_Live == {w \in Item : lease[w] = "live"}

ExpiredLeases == {w \in Item : lease[w] = "expired"}

ReclaimStart(t) ==
  /\ pc[t] = "idle"
  /\ ExpiredLeases # {}
  /\ pc' = [pc EXCEPT ![t] = "releasing"]
  /\ todo' = [todo EXCEPT ![t] = ExpiredLeases]
  /\ UNCHANGED <<committed, actor, target, doomed, locks>>

ReleaseLease(t) ==
  /\ pc[t] = "releasing"
  /\ \E w \in todo[t] :
       /\ leaseLock[w] = NoTx
       /\ leaseLock' = [leaseLock EXCEPT ![w] = t]
       /\ todo' = [todo EXCEPT ![t] = @ \ {w}]
  /\ UNCHANGED <<committed, requests, itemLock>>

ReleaseItem(t) ==
  /\ pc[t] = "releasing"
  /\ \E w \in LeasesHeld(t) :
       /\ itemLock[w] = NoTx
       /\ itemLock' = [itemLock EXCEPT ![w] = t]
  /\ UNCHANGED <<committed, requests, todo, leaseLock>>

\* Mutant: the statement deletes the leases and leaves the items.
Released_LeasesOnly(t) == pc[t] = "releasing" /\ todo[t] = {}

Released(t) ==
  /\ pc[t] = "releasing"
  /\ todo[t] = {}
  /\ LeasesHeld(t) \subseteq ItemsHeld(t)

\* Mutant: a status the check constraint of work_items does not know.
Reoffered_Pending(t) ==
  [w \in Item |-> IF itemLock[w] = t /\ status[w] = "claimed" THEN "pending" ELSE status[w]]

Reoffered(t) ==
  [w \in Item |-> IF itemLock[w] = t /\ status[w] = "claimed" THEN "offered" ELSE status[w]]

ReclaimCommit(t) ==
  /\ Released(t)
  /\ status' = Reoffered(t)
  /\ lease' = WithoutLeases(LeasesHeld(t))
  /\ End(t, LeasesHeld(t))
  /\ UNCHANGED <<agentState, claimant, offers, credits>>

----------------------------------------------------------------------------
(* Agents and runs.                                                        *)

\* Mutant: no clean-up of built-in items before the agent's row goes.
Doomed_None(a) == {}

(* The built-in items only this agent was offered.                         *)
Doomed(a) == {w \in BuiltIn : Exists(w) /\ OfferedTo(w) = {a}}

(* The snapshot of the first statement.                                    *)
DeleteAgentStart(t, a) ==
  /\ pc[t] = "idle"
  /\ agentState[a] # "deleted"
  /\ Begin(t, "deleting", a, NoItem)
  /\ doomed' = [doomed EXCEPT ![t] = Doomed(a)]
  /\ UNCHANGED <<committed, todo, locks>>

(* The statement deletes its items row by row, passing over those that     *)
(* another deletion of the agent has deleted meanwhile.                    *)
DeleteItem(t) ==
  /\ pc[t] = "deleting"
  /\ \E w \in doomed[t] \ ItemsHeld(t) :
       /\ itemLock[w] = NoTx
       /\ itemLock' = IF Exists(w) THEN [itemLock EXCEPT ![w] = t] ELSE itemLock
       /\ doomed' = IF Exists(w) THEN doomed ELSE [doomed EXCEPT ![t] = @ \ {w}]
  /\ UNCHANGED <<committed, pc, actor, target, todo, leaseLock>>

(* At its end the foreign keys cascade to the leases, an item at a time:   *)
(* item before lease, where the release statements go lease before item.   *)
LeasesLeft(t) == {w \in doomed[t] \ LeasesHeld(t) : lease[w] # "none"}

DeleteItsLease(t) ==
  /\ pc[t] = "deleting"
  /\ doomed[t] \subseteq ItemsHeld(t)
  /\ \E w \in LeasesLeft(t) :
       /\ leaseLock[w] = NoTx
       /\ leaseLock' = [leaseLock EXCEPT ![w] = t]
  /\ UNCHANGED <<committed, requests, todo, itemLock>>

(* Second statement: release the agent's other leases, as its snapshot     *)
(* shows them.                                                             *)
ReleaseAgentLeases(t) ==
  /\ pc[t] = "deleting"
  /\ doomed[t] \subseteq ItemsHeld(t)
  /\ LeasesLeft(t) = {}
  /\ pc' = [pc EXCEPT ![t] = "releasing"]
  /\ todo' = [todo EXCEPT ![t] =
                {w \in Item : lease[w] # "none" /\ claimant[w] = actor[t]} \ doomed[t]]
  /\ UNCHANGED <<committed, actor, target, doomed, locks>>

(* Third statement: delete the agent's row.  The cascade takes its offers  *)
(* and whatever leases it holds by now.  Then the commit.                  *)
DeleteAgentRow(t) ==
  LET a == actor[t]
      Cascade == {w \in Item : lease[w] # "none" /\ claimant[w] = a}
      Dropped == LeasesHeld(t) \cup Cascade
  IN  /\ Released(t)
      /\ \A w \in Cascade : leaseLock[w] \in {NoTx, t}
      /\ \/ /\ agentState[a] # "deleted"
            /\ agentState' = [agentState EXCEPT ![a] = "deleted"]
            /\ status' = [w \in Item |-> IF w \in doomed[t] THEN "gone" ELSE Reoffered(t)[w]]
            /\ lease' = WithoutLeases(Dropped)
            /\ offers' = {o \in offers : o[2] # a /\ o[1] \notin doomed[t]}
            /\ End(t, Dropped)
            /\ UNCHANGED <<claimant, credits>>
         \/ /\ agentState[a] = "deleted"
            /\ Rollback(t)

(* Owners disable an agent, or set its status in an update of its card.    *)
SetAgentStatus(a, st) ==
  /\ agentState[a] \notin {"deleted", st}
  /\ agentState' = [agentState EXCEPT ![a] = st]
  /\ UNCHANGED <<status, lease, claimant, offers, credits, requests, todo, locks>>

(* A run is deleted by its owner, by an administrator or when its          *)
(* evaluation expires; items, leases and offers go with it.  The built-in  *)
(* runs go only with the administrative purge of all content (not here).   *)
DeleteRun(w) ==
  /\ Exists(w)
  /\ w \notin BuiltIn
  /\ itemLock[w] = NoTx
  /\ leaseLock[w] = NoTx
  /\ status' = [status EXCEPT ![w] = "gone"]
  /\ lease' = [lease EXCEPT ![w] = "none"]
  /\ offers' = {o \in offers : o[1] # w}
  /\ todo' = [t \in Tx |-> todo[t] \ {w}]
  /\ UNCHANGED <<agentState, claimant, credits, requests, locks>>

Abort(t) == pc[t] # "idle" /\ Rollback(t)

----------------------------------------------------------------------------
(* Waiting.  A transaction is blocked when the row it needs, or each row   *)
(* it could take next, is locked; the database ends a set of transactions  *)
(* that wait only for each other by aborting one.                          *)

Wanted(t) ==
  CASE pc[t] \in {"claiming", "completing"} -> {itemLock[target[t]]}
    [] pc[t] = "unleasing" -> {leaseLock[target[t]]}
    [] pc[t] = "deleting" ->
         IF doomed[t] \subseteq ItemsHeld(t)
         THEN {leaseLock[w] : w \in LeasesLeft(t)}
         ELSE {itemLock[w] : w \in doomed[t] \ ItemsHeld(t)}
    [] pc[t] = "releasing" ->
         IF Released(t)
         THEN {leaseLock[w] : w \in {v \in Item : /\ t \in Handler
                                                  /\ lease[v] # "none"
                                                  /\ claimant[v] = actor[t]
                                                  /\ leaseLock[v] \notin {NoTx, t}}}
         ELSE {leaseLock[w] : w \in todo[t]}
              \cup {itemLock[w] : w \in LeasesHeld(t) \ ItemsHeld(t)}
    [] OTHER -> {}

WaitOnEachOther(D) == \A t \in D : Wanted(t) # {} /\ Wanted(t) \subseteq D

(* The least such sets: whoever only waits for a deadlock is no victim.    *)
Deadlocked(D) ==
  /\ D # {}
  /\ WaitOnEachOther(D)
  /\ \A C \in SUBSET D : C \notin {{}, D} => ~ WaitOnEachOther(C)

BreakDeadlock ==
  \E D \in SUBSET Tx : Deadlocked(D) /\ \E t \in D : Rollback(t)

----------------------------------------------------------------------------

Progress(t) ==
  \/ ClaimLocked(t)
  \/ CompleteUpdateItem(t)
  \/ CompleteDeleteLease(t)
  \/ CompleteCommit(t)
  \/ ReleaseLease(t)
  \/ ReleaseItem(t)
  \/ t \in Reclaimer /\ ReclaimCommit(t)
  \/ DeleteItem(t)
  \/ DeleteItsLease(t)
  \/ ReleaseAgentLeases(t)
  \/ t \in Handler /\ DeleteAgentRow(t)

Next ==
  \/ \E w \in Item : CreateWorkItem(w) \/ SchedulePending(w) \/ Expire(w) \/ DeleteRun(w)
  \/ EnsurePublisherAgentsOffered
  \/ \E a \in Agent : ClaimNext(a)
  \/ \E a \in Agent, st \in {"enabled", "disabled"} : SetAgentStatus(a, st)
  \/ \E t \in Handler, w \in Item, a \in Agent :
       ClaimCheckOffer(t, w, a) \/ CompleteCheckLease(t, w, a)
  \/ \E t \in Handler, a \in Agent : DeleteAgentStart(t, a)
  \/ \E t \in Reclaimer : ReclaimStart(t)
  \/ \E t \in Tx : Progress(t)
  \/ \E t \in Tx : Abort(t)

Spec == Init /\ [][Next]_vars

(* A reclaimer runs its statement on some tick, and the statement gets its *)
(* next row in turn (the database queues those that wait for a row, hence  *)
(* SF); a handler ends by its request timeout at the latest; the database  *)
(* breaks deadlocks; leases and schedules run out with time.  Nothing is   *)
(* assumed of agents, owners and administrators.                           *)
(*                                                                         *)
(* A reclaimer that fails forever reclaims nothing: from some time on its  *)
(* statements no longer fail (a deadlock costs it one tick, not each one). *)
ReclaimersRecover ==
  <>[][\A t \in Reclaimer : Abort(t) => ReclaimCommit(t)]_vars

Fairness ==
  /\ \A t \in Reclaimer : WF_vars(ReclaimStart(t)) /\ SF_vars(Progress(t))
  /\ \A t \in Handler : WF_vars(Progress(t) \/ Abort(t))
  /\ WF_vars(BreakDeadlock)
  /\ \A w \in Item : WF_vars(SchedulePending(w)) /\ WF_vars(Expire(w))
  /\ ReclaimersRecover

FairSpec == Spec /\ Fairness

----------------------------------------------------------------------------
(* Safety.                                                                 *)

(* A lease row exists only while its item is claimed: no completion,       *)
(* reclaim, deletion or claim leaves a lease on an item that is offered or *)
(* done.                                                                   *)
LeasedIsClaimed == \A w \in Item : lease[w] # "none" => status[w] = "claimed"

(* An item is claimed with nobody holding its lease only when the agent    *)
(* that claimed it last has been deleted: the reclaimers, racing with      *)
(* completions and with each other, never strand an item themselves.       *)
ClaimedIsLeasedOrOrphaned ==
  \A w \in Item : status[w] = "claimed" /\ lease[w] = "none" =>
    claimant[w] # NoAgent /\ agentState[claimant[w]] = "deleted"

(* The contribution counter that gates publishing agrees with the items:   *)
(* every completed item was credited, and only an item that was completed  *)
(* (or whose run was deleted under its completion) has a credit.           *)
CreditsMatchCompletions ==
  \A w \in Item : /\ status[w] = "completed" => credits[w] >= 1
                  /\ credits[w] >= 1 => status[w] \in {"completed", "gone"}

(* No onboarding item is left on the board with nobody to offer it to.     *)
PlatformItemsStayOffered ==
  \A w \in Item : Kind[w] = "platform" /\ Exists(w) => OfferedTo(w) # {}

(* The locks say what their holder is doing, and what it is doing is still *)
(* right: a completion that has updated its item keeps it until the commit *)
(* (or finds it deleted); a deletion holds built-in items, with a lease    *)
(* only once it holds them all; a release statement holds leases that are  *)
(* still the ones its snapshot chose, each with its item or on the way to  *)
(* it.                                                                     *)
BeforeLocks(t) ==
  pc[t] \in {"idle", "claiming", "completing"} =>
    ItemsHeld(t) = {} /\ LeasesHeld(t) = {} /\ todo[t] = {} /\ doomed[t] = {}

UnderWay(t) ==
  pc[t] \in {"completing", "unleasing", "crediting"} =>
    status[target[t]] \in {"offered", "claimed", "completed", "gone"}

Completing(t) ==
  pc[t] \in {"unleasing", "crediting"} =>
    LET w == target[t]
    IN  /\ todo[t] = {} /\ doomed[t] = {}
        /\ ItemsHeld(t) \subseteq {w}
        /\ LeasesHeld(t) \subseteq ItemsHeld(t)
        /\ status[w] # "gone" <=> itemLock[w] = t
        /\ pc[t] = "crediting" => leaseLock[w] = t \/ lease[w] = "none"

Deleting(t) ==
  pc[t] = "deleting" =>
    /\ t \in Handler
    /\ todo[t] = {}
    /\ ItemsHeld(t) \subseteq doomed[t]
    /\ LeasesHeld(t) \subseteq ItemsHeld(t)
    /\ LeasesHeld(t) # {} => doomed[t] \subseteq ItemsHeld(t)
    /\ \A w \in doomed[t] : status[w] # "absent"

Chosen(t, w) ==
  /\ lease[w] # "none"
  /\ t \in Reclaimer => lease[w] = "expired"
  /\ t \in Handler => claimant[w] = actor[t]

Releasing(t) ==
  pc[t] = "releasing" =>
    /\ doomed[t] \subseteq ItemsHeld(t)
    /\ ItemsHeld(t) \subseteq LeasesHeld(t) \cup doomed[t]
    /\ todo[t] \cap doomed[t] = {}
    /\ \A w \in doomed[t] : status[w] # "absent" /\ (leaseLock[w] = t \/ lease[w] = "none")
    /\ \A w \in (todo[t] \cup LeasesHeld(t)) \ doomed[t] : Chosen(t, w)
    /\ t \in Reclaimer => doomed[t] = {}

FollowsSteps(t) ==
  BeforeLocks(t) /\ UnderWay(t) /\ Completing(t) /\ Deleting(t) /\ Releasing(t)

LocksFollowSteps == \A t \in Tx : FollowsSteps(t)

(* A completed item never returns to the board, whatever a reclaimer, a    *)
(* claim or a deletion read before it was completed.                       *)
CompletedIsFinal ==
  [][\A w \in Item : status[w] = "completed" => status'[w] \in {"completed", "gone"}]_vars

(* While a lease has not run out, only a completion, the deletion of the   *)
(* run or the deletion of its holder ends it: the reclaimers never take    *)
(* the item from an agent that still has time.                             *)
LiveLeaseIsKept ==
  [][\A w \in Item : lease[w] = "live" /\ lease'[w] = "none" =>
       \/ status'[w] \in {"completed", "gone"}
       \/ agentState'[claimant[w]] = "deleted"]_vars

(* The transactions implement the atomic board.                            *)
Board == INSTANCE WorkItemBoard WITH
  state <- status,
  holder <- [w \in Item |-> IF lease[w] = "none" THEN NoAgent ELSE claimant[w]]

ImplementsBoard == Board!BSpec

----------------------------------------------------------------------------
(* Liveness.                                                               *)

(* An agent that crashes or disappears does not keep its item: a claimed   *)
(* item is eventually offered again, done or deleted, or its claimant is   *)
(* deleted.                                                                *)
ClaimsEnd ==
  \A w \in Item :
    status[w] = "claimed" ~>
      \/ status[w] # "claimed"
      \/ claimant[w] # NoAgent /\ agentState[claimant[w]] = "deleted"

(* A scheduled item is eventually offered (or its run is deleted).         *)
ScheduledItemsComeDue ==
  \A w \in Item : status[w] = "scheduled" ~> status[w] # "scheduled"

----------------------------------------------------------------------------
(* What the documentation says and the code does not keep.                 *)

(* Deleting an agent that holds a lease releases it for reassignment, so   *)
(* no item stays claimed without a lease.                                  *)
ClaimedIsLeased == \A w \in Item : status[w] = "claimed" => lease[w] # "none"

(* Leases prevent duplicate processing: an item is completed, and counted  *)
(* for its agent's owner, once.                                            *)
CreditedOnce == \A w \in Item : credits[w] <= 1

(* The item of a pre-review evaluation is offered only to judge agents.    *)
EvaluationsForJudgesOnly ==
  \A o \in offers : Kind[o[1]] = "evaluation" => o[2] \in Judge
=============================================================================
