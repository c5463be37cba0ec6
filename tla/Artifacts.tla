------------------------------- MODULE Artifacts -------------------------------
(***************************************************************************)
(* Agents submit artifacts, the numbered versions of a run's output.  A    *)
(* final artifact has two consequences, both best effort and outside the   *)
(* transaction that stores it: the request goes on to create a work item   *)
(* that asks another agent for a review, and a goroutine of its own looks  *)
(* for a proposal in an artifact of the daily check-in and turns it into a *)
(* new run, within a daily limit.                                          *)
(*                                                                         *)
(* Requests and goroutines race with the agents' claims and completions,   *)
(* with each other and with the worker, which offers items of a run to the *)
(* agents of its publisher.                                                *)
(***************************************************************************)
EXTENDS Naturals, FiniteSets, FiniteSetsExt

CONSTANTS
  Agent,
  Run,
  Item,        \* work items that are there before any review
  Checkin,     \* the items whose stage is "checkin"
  Submission,  \* requests that submit an artifact, the artifact a request
               \* stores and the item that asks for its review
  Content,     \* what a request says: its author, run and form
  Requests,    \* SUBSET [Submission -> Content]: requests that may be made
  RunOf,       \* [Item -> Run]
  Invited,     \* [Item -> SUBSET Agent]: the first offers of an item
  OwnAgents,   \* [Run -> SUBSET Agent]: agents of the run's publisher
  NoAgent,
  NoSubmission,
  Limit,       \* AIHUB_TASKGEN_DAILY_LIMIT_PER_AGENT
  LastDay      \* bound on the days that pass

(* A "draft" is stored and nothing else; the other forms are final.  In a  *)
(* check-in a "proposal" can be accepted and a "remark" is refused (no     *)
(* such content, or an author without one of the actor tags); content that *)
(* does not look like JSON is "text".                                      *)
Forms == {"draft", "text", "remark", "proposal"}

Work == Item \cup Submission

ASSUME ArtifactAssumption ==
  /\ Item \cap Submission = {}
  /\ IsFiniteSet(Submission)
  /\ NoAgent \notin Agent
  /\ NoSubmission \notin Submission
  /\ Checkin \subseteq Item
  /\ Content \subseteq [author : Agent, run : Run, form : Forms]
  /\ Requests \subseteq [Submission -> Content]
  /\ RunOf \in [Item -> Run]
  /\ Invited \in [Item -> SUBSET Agent]
  /\ OwnAgents \in [Run -> SUBSET Agent]
  /\ Limit \in Nat \ {0}
  /\ LastDay \in Nat \ {0}

VARIABLES
  enabled,    \* agents whose status is "enabled"
  offers,     \* work_item_offers
  holder,     \* the agent with the lease of an item, which is then claimed
  finished,   \* items completed
  day,        \* today (Asia/Shanghai)
  request,    \* what each request says
  pc,         \* what a request does next
  runLock,    \* the request that holds the lock on a run's row
  number,     \* the version allocated to a request whose transaction is open
  version,    \* the version of a stored artifact; 0 if it is not stored
  reviewer,   \* the agent picked for a review that is not inserted yet
  task,       \* what the goroutine of an artifact does next
  outcome,    \* outcome of the row of agent_taskgen_runs for an artifact
  begunOn,    \* the day the goroutine began its transaction, which is the
              \* created_at of that row; 0 if there is none
  claimedSince, \* history: requests under way whose author claimed a review
                \* in their run after they were checked
  unguarded     \* history: artifacts whose quota was read while another of
                \* the author was past its reading, or after midnight

world    == <<enabled, day, request>>
items    == <<offers, holder, finished>>
requests == <<pc, runLock, number, version, reviewer>>
taskgen  == <<task, outcome, begunOn, unguarded>>
vars == <<world, items, requests, taskgen, claimedSince>>

TypeOK ==
  /\ enabled \subseteq Agent
  /\ offers \subseteq Work \X Agent
  /\ holder \in [Work -> Agent \cup {NoAgent}]
  /\ finished \subseteq Work
  /\ day \in 1..LastDay
  /\ request \in Requests
  /\ pc \in [Submission -> {"new", "checked", "allocated", "stored", "picked", "done"}]
  /\ runLock \in [Run -> Submission \cup {NoSubmission}]
  /\ number \in [Submission -> Nat]
  /\ version \in [Submission -> Nat]
  /\ reviewer \in [Submission -> Agent \cup {NoAgent}]
  /\ task \in [Submission -> {"none", "started", "begun", "admitted", "done"}]
  /\ outcome \in [Submission -> {"none", "accepted", "rejected", "error"}]
  /\ begunOn \in [Submission -> 0..LastDay]
  /\ claimedSince \subseteq Submission
  /\ unguarded \subseteq Submission

Init ==
  /\ enabled = Agent
  /\ offers = {o \in Item \X Agent : o[2] \in Invited[o[1]]}
  /\ holder = [w \in Work |-> NoAgent]
  /\ finished \in SUBSET Item
  /\ day = 1
  /\ request \in Requests
  /\ pc = [s \in Submission |-> "new"]
  /\ runLock = [r \in Run |-> NoSubmission]
  /\ number = [s \in Submission |-> 0]
  /\ version = [s \in Submission |-> 0]
  /\ reviewer = [s \in Submission |-> NoAgent]
  /\ task = [s \in Submission |-> "none"]
  /\ outcome = [s \in Submission |-> "none"]
  /\ begunOn = [s \in Submission |-> 0]
  /\ claimedSince = {}
  /\ unguarded = {}

Author(s) == request[s].author
Form(s)   == request[s].form
Place(w)  == IF w \in Submission THEN request[w].run ELSE RunOf[w]

----------------------------------------------------------------------------
(* Around the submissions: agents take items and give them back, owners    *)
(* change their status, days pass.  WorkItems has these in full.           *)

\* Mutant: an item is open to whoever has its offer, claimed or not.
IsOffered_Claimed(w) ==
  (\E a \in Agent : <<w, a>> \in offers) /\ w \notin finished

IsOffered(w) ==
  /\ \E a \in Agent : <<w, a>> \in offers
  /\ holder[w] = NoAgent
  /\ w \notin finished

Holds(a, r) == {w \in Work : Place(w) = r /\ holder[w] = a}

(* "Review work items should emit feedback as events, not submit new       *)
(* artifacts (to avoid overriding run output)."                            *)
OnReviewLease(a, r) == Holds(a, r) \cap Submission # {}

Underway(s) == pc[s] \in {"checked", "allocated"}

Claim(w, a) ==
  /\ a \in enabled
  /\ <<w, a>> \in offers
  /\ IsOffered(w)
  /\ holder' = [holder EXCEPT ![w] = a]
  /\ claimedSince' = claimedSince \cup
       {s \in Submission : /\ w \in Submission
                           /\ Place(s) = Place(w)
                           /\ Author(s) = a
                           /\ Underway(s)}
  /\ UNCHANGED <<world, offers, finished, requests, taskgen>>

Complete(w) ==
  /\ holder[w] \in enabled
  /\ holder' = [holder EXCEPT ![w] = NoAgent]
  /\ finished' = finished \cup {w}
  /\ UNCHANGED <<world, offers, requests, taskgen, claimedSince>>

ReleaseLease(w) ==
  /\ holder[w] # NoAgent
  /\ holder' = [holder EXCEPT ![w] = NoAgent]
  /\ UNCHANGED <<world, offers, finished, requests, taskgen, claimedSince>>

SetAgentStatus(a) ==
  /\ enabled' = IF a \in enabled THEN enabled \ {a} ELSE enabled \cup {a}
  /\ UNCHANGED <<day, request, items, requests, taskgen, claimedSince>>

NewDay ==
  /\ day < LastDay
  /\ day' = day + 1
  /\ UNCHANGED <<enabled, request, items, requests, taskgen, claimedSince>>

\* Mutant: the worker offers items of every kind.
Neglected_AnyKind(w) ==
  IsOffered(w) /\ \A a \in OwnAgents[Place(w)] : <<w, a>> \notin offers

(* Items the worker offers to the publisher's agents: reviews it leaves.   *)
Neglected(w) ==
  /\ w \notin Submission
  /\ IsOffered(w)
  /\ \A a \in OwnAgents[Place(w)] : <<w, a>> \notin offers

(* Tags decide which of the agents get the offer.                          *)
EnsurePublisherAgentsOffered ==
  \E new \in SUBSET {o \in Work \X Agent :
                       /\ Neglected(o[1])
                       /\ o[2] \in enabled \cap OwnAgents[Place(o[1])]} \ {{}} :
    /\ offers' = offers \cup new
    /\ UNCHANGED <<world, holder, finished, requests, taskgen, claimedSince>>

----------------------------------------------------------------------------
(* Submitting an artifact.                                                 *)

IsParticipant(a, r) == \E w \in Work : Place(w) = r /\ <<w, a>> \in offers

\* Mutant: the author's lease is not looked at.
SubmitCheck_Unchecked(s) ==
  /\ pc[s] = "new"
  /\ Author(s) \in enabled
  /\ IsParticipant(Author(s), Place(s))
  /\ pc' = [pc EXCEPT ![s] = "checked"]
  /\ UNCHANGED <<world, items, runLock, number, version, reviewer, taskgen, claimedSince>>

(* Authentication and the two checks, all before the transaction.  A       *)
(* request that is refused changes nothing.                                *)
SubmitCheck(s) ==
  /\ pc[s] = "new"
  /\ Author(s) \in enabled
  /\ IsParticipant(Author(s), Place(s))
  /\ ~ OnReviewLease(Author(s), Place(s))
  /\ pc' = [pc EXCEPT ![s] = "checked"]
  /\ UNCHANGED <<world, items, runLock, number, version, reviewer, taskgen, claimedSince>>

Stored(r)   == {s \in Submission : Place(s) = r /\ version[s] # 0}
Versions(r) == {version[s] : s \in Stored(r)}
Latest(r)   == Max(Versions(r) \cup {0})

\* Mutant: the run's row is read, not locked.
SubmitAllocate_Unlocked(s) ==
  /\ pc[s] = "checked"
  /\ number' = [number EXCEPT ![s] = Latest(Place(s)) + 1]
  /\ pc' = [pc EXCEPT ![s] = "allocated"]
  /\ UNCHANGED <<world, items, runLock, version, reviewer, taskgen, claimedSince>>

(* The lock on the run's row, max(version) + 1, and the insert.            *)
SubmitAllocate(s) ==
  /\ pc[s] = "checked"
  /\ runLock[Place(s)] = NoSubmission
  /\ runLock' = [runLock EXCEPT ![Place(s)] = s]
  /\ number' = [number EXCEPT ![s] = Latest(Place(s)) + 1]
  /\ pc' = [pc EXCEPT ![s] = "allocated"]
  /\ UNCHANGED <<world, items, version, reviewer, taskgen, claimedSince>>

(* The end of the request's transaction.                                   *)
EndTransaction(s) ==
  /\ runLock' = [r \in Run |-> IF runLock[r] = s THEN NoSubmission ELSE runLock[r]]
  /\ number' = [number EXCEPT ![s] = 0]
  /\ claimedSince' = claimedSince \ {s}

SubmitCommit(s) ==
  /\ pc[s] = "allocated"
  /\ version' = [version EXCEPT ![s] = number[s]]
  /\ EndTransaction(s)
  /\ pc' = [pc EXCEPT ![s] = IF Form(s) = "draft" THEN "done" ELSE "stored"]
  /\ task' = [task EXCEPT ![s] = IF Form(s) \in {"remark", "proposal"} THEN "started" ELSE "none"]
  /\ UNCHANGED <<world, items, reviewer, outcome, begunOn, unguarded>>

(* Other enabled participants or else any other enabled agents.            *)
Candidates(s) ==
  LET others == enabled \ {Author(s)}
      near   == {a \in others : IsParticipant(a, Place(s))}
  IN  IF near # {} THEN near ELSE others

(* Tags and chance decide among the candidates.                            *)
ReviewPick(s) ==
  /\ pc[s] = "stored"
  /\ \/ \E a \in Candidates(s) :
          /\ reviewer' = [reviewer EXCEPT ![s] = a]
          /\ pc' = [pc EXCEPT ![s] = "picked"]
     \/ /\ Candidates(s) = {}
        /\ pc' = [pc EXCEPT ![s] = "done"]
        /\ UNCHANGED reviewer
  /\ UNCHANGED <<world, items, runLock, number, version, taskgen, claimedSince>>

ReviewInsert(s) ==
  /\ pc[s] = "picked"
  /\ offers' = offers \cup {<<s, reviewer[s]>>}
  /\ reviewer' = [reviewer EXCEPT ![s] = NoAgent]
  /\ pc' = [pc EXCEPT ![s] = "done"]
  /\ UNCHANGED <<world, holder, finished, runLock, number, version, taskgen, claimedSince>>

(* An error, the end of the request's ten seconds or of the process.  A    *)
(* commit whose answer is lost has stored the artifact, and the request    *)
(* then neither asks for a review nor starts the goroutine.                *)
SubmitFail(s) ==
  /\ pc[s] \notin {"new", "done"}
  /\ pc' = [pc EXCEPT ![s] = "done"]
  /\ EndTransaction(s)
  /\ reviewer' = [reviewer EXCEPT ![s] = NoAgent]
  /\ \/ UNCHANGED version
     \/ /\ pc[s] = "allocated"
        /\ version' = [version EXCEPT ![s] = number[s]]
  /\ UNCHANGED <<world, items, taskgen>>

----------------------------------------------------------------------------
(* Task generation.  Nothing of its one transaction is seen before its     *)
(* commit, and the unique index on the artifact never has to decide:       *)
(* there is one goroutine for an artifact.                                 *)

SetTask(s, step) == task' = [task EXCEPT ![s] = step]

(* "Determine whether the submitting agent is completing a claimed         *)
(* checkin-stage item": any one of the author's leases in the run.         *)
TaskBegin(s) ==
  /\ task[s] = "started"
  /\ \/ /\ \E w \in Holds(Author(s), Place(s)) : w \in Checkin
        /\ SetTask(s, "begun")
        /\ begunOn' = [begunOn EXCEPT ![s] = day]
     \/ /\ \/ Holds(Author(s), Place(s)) = {}
           \/ \E w \in Holds(Author(s), Place(s)) : w \notin Checkin
        /\ SetTask(s, "done")
        /\ UNCHANGED begunOn
  /\ UNCHANGED <<world, items, requests, outcome, unguarded, claimedSince>>

AcceptedOf(a) == {s \in Submission : Author(s) = a /\ outcome[s] = "accepted"}

\* Mutant: the day begins in another time zone, ahead of now.
UsedToday_Ahead(a) == Cardinality({s \in AcceptedOf(a) : begunOn[s] > day})

UsedToday(a) == Cardinality({s \in AcceptedOf(a) : begunOn[s] >= day})

(* The artifact is refused, or it is within the limit as the goroutine     *)
(* sees it, which is what has been committed.                              *)
TaskCount(s) ==
  /\ task[s] = "begun"
  /\ \/ /\ Form(s) = "proposal" /\ UsedToday(Author(s)) < Limit
        /\ SetTask(s, "admitted")
        /\ unguarded' = IF \/ begunOn[s] # day
                           \/ \E t \in Submission : /\ Author(t) = Author(s)
                                                    /\ task[t] = "admitted"
                        THEN unguarded \cup {s} ELSE unguarded
        /\ UNCHANGED outcome
     \/ /\ Form(s) # "proposal" \/ UsedToday(Author(s)) >= Limit
        /\ outcome' = [outcome EXCEPT ![s] = "rejected"]
        /\ SetTask(s, "done")
        /\ UNCHANGED unguarded
  /\ UNCHANGED <<world, items, requests, begunOn, claimedSince>>

(* createRunInTx finds no eligible agent when none is enabled; the error   *)
(* is recorded, and committed together with a run that has no work item.   *)
TaskCommit(s) ==
  /\ task[s] = "admitted"
  /\ outcome' = [outcome EXCEPT ![s] = IF enabled = {} THEN "error" ELSE "accepted"]
  /\ SetTask(s, "done")
  /\ UNCHANGED <<world, items, requests, begunOn, unguarded, claimedSince>>

\* Mutant: the transaction is committed as it stands on the error paths.
TaskFail_Committed(s) ==
  /\ task[s] \notin {"none", "done"}
  /\ SetTask(s, "done")
  /\ outcome' = [outcome EXCEPT ![s] = "processing"]
  /\ UNCHANGED <<world, items, requests, begunOn, unguarded, claimedSince>>

(* An error, the end of the goroutine's ten seconds or of the process.     *)
TaskFail(s) ==
  /\ task[s] \notin {"none", "done"}
  /\ SetTask(s, "done")
  /\ begunOn' = [begunOn EXCEPT ![s] = 0]
  /\ unguarded' = unguarded \ {s}
  /\ UNCHANGED <<world, items, requests, outcome, claimedSince>>

----------------------------------------------------------------------------

Submit(s) ==
  SubmitAllocate(s) \/ SubmitCommit(s) \/ ReviewPick(s) \/ ReviewInsert(s)

Generate(s) == TaskBegin(s) \/ TaskCount(s) \/ TaskCommit(s)

Next ==
  \/ \E s \in Submission : SubmitCheck(s) \/ Submit(s) \/ SubmitFail(s)
  \/ \E s \in Submission : Generate(s) \/ TaskFail(s)
  \/ \E w \in Work : \/ \E a \in Agent : Claim(w, a)
                     \/ Complete(w)
                     \/ ReleaseLease(w)
  \/ \E a \in Agent : SetAgentStatus(a)
  \/ EnsurePublisherAgentsOffered
  \/ NewDay

Spec == Init /\ [][Next]_vars

----------------------------------------------------------------------------
(* Safety.                                                                 *)

(* The versions of a run are 1..n, each of one artifact, whatever requests *)
(* overlap or fail, and a version is allocated when all before it are      *)
(* stored: no request is refused by the unique index on (run_id, version). *)
VersionsAreDense ==
  /\ \A r \in Run : Versions(r) = 1..Latest(r)
  /\ \A s, t \in Submission :
       s # t /\ version[s] # 0 /\ Place(s) = Place(t) => version[s] # version[t]
  /\ \A s \in Submission, r \in Run :
       pc[s] = "allocated" /\ Place(s) = r => number[s] = Latest(r) + 1

(* A run is locked by a request within its transaction only: one that has  *)
(* failed, been refused or died holds up no other submission to the run.   *)
LocksEndWithTransactions ==
  \A r \in Run : runLock[r] # NoSubmission => pc[runLock[r]] = "allocated"

(* No agent is asked to review what it wrote: neither the choice of the    *)
(* reviewer nor the worker's later offers bring it there.                  *)
ReviewedByAnother ==
  \A s \in Submission : <<s, Author(s)>> \notin offers

(* What one sees of an item on the board of WorkItemBoard.                 *)
BoardState ==
  [w \in Work |-> IF w \in finished THEN "completed"
                  ELSE IF holder[w] # NoAgent THEN "claimed"
                  ELSE IF IsOffered(w) THEN "offered" ELSE "absent"]

Board == INSTANCE WorkItemBoard WITH Item <- Work, state <- BoardState

(* Reviews join the same board as all other work, with the same promises:  *)
(* an item appears once, is granted only from the board, to one agent, and *)
(* is done for good, whatever submissions, offers by the worker and task   *)
(* generation run at the same time.                                        *)
ImplementsBoard == Board!BSpec

(* An agent that holds a review in a run gets an artifact into it only if  *)
(* it claimed the review while its request was under way: the check        *)
(* precedes the transaction, and nothing repeats it.                       *)
OverridesAreRaces ==
  [][\A s \in Submission :
       version'[s] # version[s] /\ OnReviewLease(Author(s), Place(s)) =>
         s \in claimedSince]_vars

(* The daily limit of generated tasks holds on each day but for artifacts  *)
(* whose quota was read while another of the same author was about to be   *)
(* accepted, or on a later day than the one they are recorded under.       *)
LimitHeldWhenGuarded ==
  \A a \in Agent, d \in 1..LastDay :
    Cardinality({s \in AcceptedOf(a) \ unguarded : begunOn[s] = d}) <= Limit

=============================================================================
