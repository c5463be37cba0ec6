------------------------------ MODULE Evaluations ------------------------------
(***************************************************************************)
(* Pre-review evaluations.  An owner has a candidate agent evaluated: the  *)
(* request takes a source as context (a run, a work item, or a topic drawn *)
(* from the platform's own), makes an unlisted run with one item offered   *)
(* to the judges the administrators set, and a row that ties the run to    *)
(* the candidate until it expires.  The worker offers the item to agents   *)
(* of the run's publisher when none of them is offered it.                 *)
(*                                                                         *)
(* A creation reads the count, the judges, the source and the candidate in *)
(* queries of their own before the transaction that stores all.  Judges    *)
(* are replaced by transactions that overlap.  The platform's topics are   *)
(* written object by object, by servers that start, by a purge and by a    *)
(* creation that finds none.                                               *)
(*                                                                         *)
(* A creation, its run, its item and its evaluation have one name.  Time   *)
(* is counted in days.  Row locks only make a replacement wait for another *)
(* one; the waits are left out, which allows more orders, not fewer.       *)
(***************************************************************************)
EXTENDS Naturals, FiniteSets

CONSTANTS
  Agent, Creation, Replacement,
  First,         \* the replacement that was done before
  Wanted,        \* the judges each replacement names
  OwnerOf,       \* agents.owner_id
  Candidate,     \* the agent a creation is about, of the run's publisher
  Kind,          \* of its source: "none", "run" or "item"
  SourceRun,     \* the run, or the item's run, when it has one
  OtherRun,      \* runs of other kinds its owner may read
  Seeder,        \* servers that start and purges
  Purge,
  Topics,        \* number of the platform's topics
  MaxPerDay,     \* preReviewEvaluationMaxPerDay
  Lifetime,      \* preReviewEvaluationTTL, in days
  Batch,         \* rows of one cleanup
  LastDay,       \* bound on time
  Families       \* what takes part: requests, seedings, agents and runs

Run    == Creation \cup OtherRun
Walker == Creation \cup Seeder
Topic  == 1..Topics
Part   == 1..3           \* of a topic: the manifest, the state, the messages

ASSUME EvaluationsAssumption ==
  /\ First \in Replacement /\ Wanted \in [Replacement -> SUBSET Agent]
  /\ Candidate \in [Creation -> Agent]
  /\ Kind \in [Creation -> {"none", "run", "item"}]
  /\ SourceRun \in [Creation -> Run]
  /\ Purge \subseteq Seeder /\ IsFiniteSet(Creation)
  /\ Topics \in Nat \ {0} /\ MaxPerDay \in Nat \ {0}
  /\ Lifetime \in Nat \ {0} /\ Batch \in Nat \ {0} /\ LastDay \in Nat
  /\ Creation \cap OtherRun = {} /\ Creation \cap Seeder = {}
  /\ Families \subseteq SUBSET (Walker \cup Replacement \cup Agent \cup OtherRun)

VARIABLES
  family,     \* what takes part: the agents and runs in it may change
  now,
  agents,     \* the agents that exist
  enabled,    \* status = 'enabled'
  rows,       \* evaluation_judge_agents: <<agent, the insert of the row>>
  phase,      \* of a replacement
  doomed,     \* rows its delete found
  before,     \* history: the replacements done by then
  step,       \* of a creation
  asked,      \* startOfDayUTC
  seen,       \* history: the evaluations that were counted over
  judges,     \* judgeIDs
  known,      \* history: the replacements done when they were read
  topic,      \* the topic drawn, 0 for none
  born,       \* created_at
  expires,    \* expires_at
  evals,      \* agent_pre_review_evaluations
  runs,       \* runs that exist, with their items
  offers,
  parts,      \* objects of the topics: <<topic, part>>
  at,         \* the topic a seeding has come to, 0 before it began
  stage,      \* and the part, 0 while a purge has its transaction to do
  cut,        \* history: an error or a purge left topics in pieces
  calm        \* history: walkers that nothing has disturbed

people   == <<agents, enabled>>
replaces == <<phase, doomed, before>>
asking   == <<step, asked, seen, judges, known, topic, born, expires>>
store    == <<evals, runs, offers>>
seeding  == <<parts, at, stage, cut>>
vars     == <<family, now, people, rows, replaces, asking, store, seeding, calm>>

-----------------------------------------------------------------------------
Init ==
  /\ family \in Families
  /\ now = 0
  /\ agents = Agent
  /\ enabled = Agent
  /\ rows = {<<a, First>> : a \in Wanted[First]}
  /\ phase = [r \in Replacement |-> IF r = First THEN "done" ELSE "new"]
  /\ doomed = [r \in Replacement |-> {}]
  /\ before = [r \in Replacement |-> {}]
  /\ step = [c \in Creation |-> "new"]
  /\ asked = [c \in Creation |-> 0]
  /\ seen = [c \in Creation |-> {}]
  /\ judges = [c \in Creation |-> {}]
  /\ known = [c \in Creation |-> {}]
  /\ topic = [c \in Creation |-> 0]
  /\ born = [c \in Creation |-> 0]
  /\ expires = [c \in Creation |-> 0]
  /\ evals = {}
  /\ runs = OtherRun
  /\ offers = [c \in Creation |-> {}]
  /\ parts = {}
  /\ at = [w \in Walker |-> 0]
  /\ stage = [w \in Walker |-> 0]
  /\ cut = FALSE
  /\ calm = {}

-----------------------------------------------------------------------------
(* The judges *)

Done == {r \in Replacement : phase[r] = "done"}

(* The agents are looked up one by one before the transaction.             *)
LookUp(r) ==
  /\ r \in family /\ phase[r] = "new"
  /\ phase' = [phase EXCEPT ![r] = IF Wanted[r] \subseteq agents THEN "known" ELSE "failed"]
  /\ UNCHANGED <<family, now, people, rows, doomed, before, asking, store, seeding, calm>>

(* Mutant: nothing is deleted.                                             *)
Others_None(r) == {}

Others(r) == {x \in rows : x[1] \notin Wanted[r]}

(* The delete sees the rows that are committed.                            *)
DeleteOthers(r) ==
  /\ phase[r] = "known"
  /\ phase' = [phase EXCEPT ![r] = "deleted"]
  /\ doomed' = [doomed EXCEPT ![r] = Others(r)]
  /\ before' = [before EXCEPT ![r] = Done]
  /\ UNCHANGED <<family, now, people, rows, asking, store, seeding, calm>>

(* Judges that have a row keep it; a deleted agent fails the transaction.  *)
Replaced(r) ==
  LET kept == rows \ doomed[r]
  IN  kept \cup {<<a, r>> : a \in {b \in Wanted[r] : \A x \in kept : x[1] # b}}

CommitJudges(r) ==
  /\ phase[r] = "deleted" /\ Wanted[r] \subseteq agents
  /\ phase' = [phase EXCEPT ![r] = "done"]
  /\ rows' = Replaced(r)
  /\ UNCHANGED <<family, now, people, doomed, before, asking, store, seeding, calm>>

(* An error, a timeout or a crash.                                         *)
FailJudges(r) ==
  /\ phase[r] \in {"known", "deleted"}
  /\ phase' = [phase EXCEPT ![r] = "failed"]
  /\ UNCHANGED <<family, now, people, rows, doomed, before, asking, store, seeding, calm>>

ActiveJudges == {a \in agents \cap enabled : \E x \in rows : x[1] = a}

-----------------------------------------------------------------------------
(* A creation reads *)

Move(c, s) == step' = [step EXCEPT ![c] = s]

(* Mutant: the limit is passed by one.                                     *)
BelowLimit_OffByOne(c) ==
  Cardinality({d \in evals : Candidate[d] = Candidate[c] /\ born[d] >= now}) <= MaxPerDay

BelowLimit(c) ==
  Cardinality({d \in evals : Candidate[d] = Candidate[c] /\ born[d] >= now}) < MaxPerDay

Count(c) ==
  /\ c \in family /\ step[c] = "new"
  /\ Move(c, IF Candidate[c] \in agents /\ BelowLimit(c) THEN "counted" ELSE "refused")
  /\ asked' = [asked EXCEPT ![c] = now]
  /\ seen' = [seen EXCEPT ![c] = evals]
  /\ UNCHANGED <<family, now, people, rows, replaces, judges, known, topic, born, expires,
                 store, seeding, calm>>

ReadJudges(c) ==
  /\ step[c] = "counted"
  /\ Move(c, IF ActiveJudges = {} THEN "refused" ELSE "judged")
  /\ judges' = [judges EXCEPT ![c] = ActiveJudges]
  /\ known' = [known EXCEPT ![c] = Done]
  /\ UNCHANGED <<family, now, people, rows, replaces, asked, seen, topic, born, expires,
                 store, seeding, calm>>

(* A public run or one of the owner's, with its latest key events.         *)
ReadRun(c) ==
  /\ step[c] = "judged" /\ Kind[c] = "run"
  /\ Move(c, IF SourceRun[c] \in runs THEN "sourced" ELSE "refused")
  /\ UNCHANGED <<family, now, people, rows, replaces, asked, seen, judges, known, topic, born,
                 expires, store, seeding, calm>>

(* A work item of such a run; items go when their run does.                *)
ReadItem(c) ==
  /\ step[c] = "judged" /\ Kind[c] = "item"
  /\ Move(c, IF SourceRun[c] \in runs THEN "sourced" ELSE "refused")
  /\ UNCHANGED <<family, now, people, rows, replaces, asked, seen, judges, known, topic, born,
                 expires, store, seeding, calm>>

Running(w) == at[w] \in Topic
Drawable   == {t \in Topic : <<t, 1>> \in parts}
Whole(t)   == \A p \in Part : <<t, p>> \in parts

(* Without a source a topic that has a manifest is drawn; when none has,   *)
(* the creation writes them first.                                         *)
Draw(c) ==
  /\ step[c] = "judged" /\ Kind[c] = "none"
  /\ \/ \E t \in Drawable : topic' = [topic EXCEPT ![c] = t] /\ Move(c, "drawn") /\ UNCHANGED <<at, stage>>
     \/ /\ Drawable = {} /\ Move(c, "seeding")
        /\ at' = [at EXCEPT ![c] = 1] /\ stage' = [stage EXCEPT ![c] = 1]
        /\ UNCHANGED topic
  /\ calm' = IF cut \/ (\E w \in Walker : Running(w)) THEN calm ELSE calm \cup {c}
  /\ UNCHANGED <<family, now, people, rows, replaces, asked, seen, judges, known, born, expires,
                 store, parts, cut>>

DrawAgain(c) ==
  /\ step[c] = "seeding" /\ ~Running(c)
  /\ \/ \E t \in Drawable : topic' = [topic EXCEPT ![c] = t] /\ Move(c, "drawn")
     \/ Drawable = {} /\ Move(c, "no topic") /\ UNCHANGED topic
  /\ UNCHANGED <<family, now, people, rows, replaces, asked, seen, judges, known, born, expires,
                 store, seeding, calm>>

(* The manifest, the state and the messages are read; all must be there.   *)
ReadTopic(c) ==
  /\ step[c] = "drawn"
  /\ Move(c, IF Whole(topic[c]) THEN "sourced" ELSE "no topic")
  /\ UNCHANGED <<family, now, people, rows, replaces, asked, seen, judges, known, topic, born,
                 expires, store, seeding, calm>>

(* The candidate's card is read, and the transaction begins.               *)
Open(c) ==
  /\ step[c] = "sourced"
  /\ Move(c, IF Candidate[c] \in agents THEN "open" ELSE "refused")
  /\ born' = [born EXCEPT ![c] = now]
  /\ expires' = [expires EXCEPT ![c] = now + Lifetime]
  /\ UNCHANGED <<family, now, people, rows, replaces, asked, seen, judges, known, topic,
                 store, seeding, calm>>

-----------------------------------------------------------------------------
(* and stores *)

(* The rows refer to the candidate, the judges and the source.             *)
Referable(c) ==
  /\ Candidate[c] \in agents /\ judges[c] \subseteq agents
  /\ Kind[c] # "none" => SourceRun[c] \in runs

Commit(c) ==
  /\ step[c] = "open" /\ Referable(c)
  /\ Move(c, "created")
  /\ runs' = runs \cup {c}
  /\ offers' = [offers EXCEPT ![c] = judges[c]]
  /\ evals' = evals \cup {c}
  /\ UNCHANGED <<family, now, people, rows, replaces, asked, seen, judges, known, topic, born,
                 expires, seeding, calm>>

(* A reference that fails, an error, a timeout or a crash.                 *)
GiveUp(c) ==
  /\ step[c] \in {"counted", "judged", "seeding", "drawn", "sourced", "open"} /\ ~Running(c)
  /\ Move(c, "refused")
  /\ UNCHANGED <<family, now, people, rows, replaces, asked, seen, judges, known, topic, born,
                 expires, store, seeding, calm>>

-----------------------------------------------------------------------------
(* The worker offers *)

Owned(c)  == {a \in Agent : OwnerOf[a] = OwnerOf[Candidate[c]]}
Unserved  == {c \in Creation \cap runs : offers[c] \cap Owned(c) = {}}

(* Every few seconds one statement offers the items that no agent of the   *)
(* publisher is offered to all that are enabled (these runs ask for no     *)
(* tags).  It takes the items that are unclaimed: any of them may be.      *)
EnsurePublisherAgentsOffered ==
  \E C \in SUBSET Unserved :
    /\ offers' = [c \in Creation |-> IF c \in C THEN offers[c] \cup (Owned(c) \cap agents \cap enabled)
                                               ELSE offers[c]]
    /\ UNCHANGED <<family, now, people, rows, replaces, asking, evals, runs, seeding, calm>>

-----------------------------------------------------------------------------
(* Evaluations, runs and agents go *)

(* Deleting runs takes their items, offers and evaluations along.          *)
DropRuns(R) ==
  /\ runs' = runs \ R
  /\ evals' = evals \ R
  /\ offers' = [c \in Creation |-> IF c \in R THEN {} ELSE offers[c]]

OwnerDelete(c) ==
  /\ c \in evals /\ Candidate[c] \in agents
  /\ DropRuns({c})
  /\ UNCHANGED <<family, now, people, rows, replaces, asking, seeding, calm>>

AdminDelete(c) ==
  /\ c \in evals
  /\ DropRuns({c})
  /\ UNCHANGED <<family, now, people, rows, replaces, asking, seeding, calm>>

AdminDeleteRun(x) ==
  /\ x \in runs /\ (x \in OtherRun => x \in family)
  /\ DropRuns({x})
  /\ UNCHANGED <<family, now, people, rows, replaces, asking, seeding, calm>>

Expired == {c \in evals : expires[c] <= now}
Batches == {D \in SUBSET Expired : D # {} /\ (Cardinality(D) = Batch \/ (D = Expired /\ Cardinality(D) < Batch))}

(* Mutant: the evaluations are deleted, not their runs.                    *)
Cleanup_RowsOnly ==
  \E D \in Batches :
    /\ evals' = evals \ D
    /\ UNCHANGED <<family, now, people, rows, replaces, asking, runs, offers, seeding, calm>>

(* Every half minute, a batch of the evaluations that have expired.        *)
Cleanup ==
  \E D \in Batches :
    /\ DropRuns(D)
    /\ UNCHANGED <<family, now, people, rows, replaces, asking, seeding, calm>>

(* Deleting agents takes their rows along: not the runs about them.        *)
(* Mutant: the offers stay.                                                *)
DropAgents_OffersStay(A) ==
  /\ agents' = agents \ A
  /\ rows' = {x \in rows : x[1] \notin A}
  /\ evals' = {c \in evals : Candidate[c] \notin A}
  /\ UNCHANGED offers

DropAgents(A) ==
  /\ agents' = agents \ A
  /\ rows' = {x \in rows : x[1] \notin A}
  /\ evals' = {c \in evals : Candidate[c] \notin A}
  /\ offers' = [c \in Creation |-> offers[c] \ A]

DeleteAgent(a) ==
  /\ a \in agents \cap family
  /\ DropAgents({a})
  /\ UNCHANGED <<family, now, enabled, replaces, asking, runs, seeding, calm>>

SetStatus(a) ==
  /\ a \in agents \cap family
  /\ enabled' = IF a \in enabled THEN enabled \ {a} ELSE enabled \cup {a}
  /\ UNCHANGED <<family, now, agents, rows, replaces, asking, store, seeding, calm>>

Tick ==
  /\ now < LastDay
  /\ now' = now + 1
  /\ UNCHANGED <<family, people, rows, replaces, asking, store, seeding, calm>>

-----------------------------------------------------------------------------
(* The platform's topics *)

GoTo(w, t, p) == at' = [at EXCEPT ![w] = t] /\ stage' = [stage EXCEPT ![w] = p]

Start(s) ==
  /\ s \in (Seeder \ Purge) \cap family /\ at[s] = 0
  /\ GoTo(s, 1, 1)
  /\ calm' = calm \cup {s}
  /\ UNCHANGED <<family, now, people, rows, replaces, asking, store, parts, cut>>

After(w) == IF stage[w] = 3 THEN GoTo(w, at[w] + 1, 1) ELSE GoTo(w, at[w], stage[w] + 1)

(* An object that exists stays.  Mutant: a topic that has a manifest is    *)
(* taken for whole.                                                        *)
Put_ManifestOnly(w) ==
  LET found == stage[w] = 1 /\ <<at[w], 1>> \in parts IN
  /\ Running(w) /\ stage[w] # 0
  /\ IF found THEN GoTo(w, at[w] + 1, 1) ELSE After(w)
  /\ parts' = IF found THEN parts ELSE parts \cup {<<at[w], stage[w]>>}
  /\ cut' = (cut /\ ~(at'[w] > Topics /\ w \in calm))
  /\ UNCHANGED <<family, now, people, rows, replaces, asking, store, calm>>

Put(w) ==
  /\ Running(w) /\ stage[w] # 0
  /\ After(w)
  /\ parts' = parts \cup {<<at[w], stage[w]>>}
  /\ cut' = (cut /\ ~(at'[w] > Topics /\ w \in calm))
  /\ UNCHANGED <<family, now, people, rows, replaces, asking, store, calm>>

(* After an error the next topic is taken; a timeout or a crash ends it.   *)
FailPut(w) ==
  /\ Running(w) /\ stage[w] # 0
  /\ \/ GoTo(w, at[w] + 1, 1)
     \/ GoTo(w, Topics + 1, 1)
  /\ cut' = TRUE
  /\ calm' = calm \ {w}
  /\ UNCHANGED <<family, now, people, rows, replaces, asking, store, parts>>

(* A purge deletes the topics object by object, unless it is told not to;  *)
(* what is written meanwhile may stay, and an error ends it,               *)
PurgeTopics(s) ==
  /\ s \in Purge \cap family /\ at[s] = 0
  /\ \/ /\ GoTo(s, 1, 0)
        /\ calm' = calm \cup {s}
        /\ UNCHANGED <<parts, cut>>
     \/ /\ \E gone \in SUBSET parts : (gone = {} => parts = {}) /\ parts' = parts \ gone
        /\ \/ GoTo(s, 1, 0) /\ calm' = {s}
           \/ UNCHANGED <<at, stage>> /\ parts # {} /\ calm' = {}
           \/ GoTo(s, Topics + 1, 1) /\ calm' = {}
        /\ cut' = (cut \/ parts' # {})
  /\ UNCHANGED <<family, now, people, rows, replaces, asking, store>>

(* then all runs, all agents or both, or fails to; then it may write the   *)
(* topics anew.                                                            *)
PurgeRows(s) ==
  /\ Running(s) /\ stage[s] = 0
  /\ \E allRuns, allAgents \in BOOLEAN :
       /\ runs' = IF allRuns THEN {} ELSE runs
       /\ agents' = IF allAgents THEN {} ELSE agents
       /\ rows' = IF allAgents THEN {} ELSE rows
       /\ evals' = IF allRuns \/ allAgents THEN {} ELSE evals
       /\ offers' = IF allRuns \/ allAgents THEN [c \in Creation |-> {}] ELSE offers
  /\ GoTo(s, 1, 1) \/ GoTo(s, Topics + 1, 1)
  /\ UNCHANGED <<family, now, enabled, replaces, asking, parts, cut, calm>>

-----------------------------------------------------------------------------
Judging == \E r \in Replacement : LookUp(r) \/ DeleteOthers(r) \/ CommitJudges(r) \/ FailJudges(r)

Creating ==
  \E c \in Creation :
    \/ Count(c) \/ ReadJudges(c) \/ ReadRun(c) \/ ReadItem(c)
    \/ Draw(c) \/ DrawAgain(c) \/ ReadTopic(c)
    \/ Open(c) \/ Commit(c) \/ GiveUp(c)

Deleting ==
  \/ \E c \in Creation : OwnerDelete(c) \/ AdminDelete(c)
  \/ \E x \in Run : AdminDeleteRun(x)
  \/ Cleanup
  \/ \E a \in Agent : DeleteAgent(a) \/ SetStatus(a)
  \/ Tick

Seeding ==
  \/ \E s \in Seeder : Start(s) \/ PurgeTopics(s) \/ PurgeRows(s)
  \/ \E w \in Walker : Put(w) \/ FailPut(w)

Next == Judging \/ Creating \/ EnsurePublisherAgentsOffered \/ Deleting \/ Seeding

Spec == Init /\ [][Next]_vars

(* The scheduler of each server comes round again.                         *)
FairSpec == Spec /\ WF_vars(Cleanup)

-----------------------------------------------------------------------------
(* Offers, rows and evaluations refer to agents that exist, evaluations to *)
(* runs that exist: the deletions cascade.                                 *)
TypeOK ==
  /\ family \in Families /\ now \in 0..LastDay
  /\ agents \subseteq Agent /\ enabled \subseteq Agent
  /\ rows \subseteq agents \X Replacement
  /\ phase \in [Replacement -> {"new", "known", "deleted", "done", "failed"}]
  /\ doomed \in [Replacement -> SUBSET (Agent \X Replacement)]
  /\ before \in [Replacement -> SUBSET Replacement]
  /\ step \in [Creation -> {"new", "counted", "judged", "seeding", "drawn", "no topic",
                            "sourced", "open", "created", "refused"}]
  /\ asked \in [Creation -> 0..LastDay] /\ born \in [Creation -> 0..LastDay]
  /\ expires \in [Creation -> 0..LastDay + Lifetime]
  /\ seen \in [Creation -> SUBSET Creation]
  /\ judges \in [Creation -> SUBSET Agent]
  /\ known \in [Creation -> SUBSET Replacement]
  /\ topic \in [Creation -> 0..Topics]
  /\ runs \subseteq Run /\ evals \subseteq runs \cap Creation
  /\ \A c \in evals : Candidate[c] \in agents
  /\ offers \in [Creation -> SUBSET agents]
  /\ parts \subseteq Topic \X Part
  /\ at \in [Walker -> 0..Topics + 1] /\ stage \in [Walker -> 0..3]
  /\ cut \in BOOLEAN /\ calm \subseteq Walker

(* The daily limit (preReviewEvaluationMaxPerDay) is read before the       *)
(* transaction that uses it up.  An evaluation is one too many only beside *)
(* creations that overlapped its own: of its candidate and its day, fewer  *)
(* than the limit had been stored when its creation counted, whatever      *)
(* happens at midnight.                                                    *)
DailyLimitHolds ==
  \A c \in evals :
    Cardinality({d \in evals \cap seen[c] : Candidate[d] = Candidate[c] /\ born[d] = born[c]})
      < MaxPerDay

(* Judges are read long before the offers are made, replaced by            *)
(* transactions that see only each other's commits, and the worker offers  *)
(* items too.  An agent is offered an evaluation only if some              *)
(* administrator named it among the judges, and none that began after that *)
(* was done and was through before the judges were read has left it out;   *)
(* or if it is the publisher's, none of whose agents that are left was     *)
(* read as a judge: the worker adds nobody where one of them is.           *)
OffersFollowTheJudges ==
  \A c \in Creation : \A a \in offers[c] :
    \/ \E r \in known[c] :
         /\ a \in Wanted[r]
         /\ \A q \in known[c] : r \in before[q] => a \in Wanted[q]
    \/ a \in Owned(c) /\ Owned(c) \cap judges[c] \cap agents = {}

(* The platform's topics are written object by object, the manifest first, *)
(* and a creation takes a manifest for a topic.  It finds none or one that *)
(* is not whole (412 "no seed topics available", "missing topic state",    *)
(* "topic has no messages") only if a purge came between, or if, when it   *)
(* began, topics were being written or the last time failed: any later     *)
(* start that goes through has mended them.                                *)
DrawnTopicsAreUsable == \A c \in Creation : step[c] = "no topic" => c \notin calm

(* An evaluation that has expired goes with its run and the offers of its  *)
(* item, though a cleanup takes a batch at a time; only the run of a       *)
(* candidate that was deleted is left, for the cleanup finds runs by their *)
(* evaluations.                                                            *)
ExpiredRunsGo ==
  \A c \in Creation : c \in Expired ~> (c \notin runs \/ Candidate[c] \notin agents)

=============================================================================
