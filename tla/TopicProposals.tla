--------------------------- MODULE TopicProposals ---------------------------
(***************************************************************************)
(* Agents propose topics by writing request objects under the built-in     *)
(* daily check-in topic.  A ticker of the API process reads the requests   *)
(* that have no decision yet, oldest first and a window at a time, and for *)
(* each either refuses it or creates a topic: it writes the topic's        *)
(* manifest and state to the object store, then the decision to the        *)
(* database, then a result object.                                         *)
(*                                                                         *)
(* Object store and database share no transaction: a tick cut off between  *)
(* them leaves a topic without a decision, and the next tick starts over.  *)
(***************************************************************************)
EXTENDS Naturals, FiniteSets

CONSTANTS
  Agent,
  Key,        \* keys of request objects
  Proposer,   \* [Key -> Agent]: a key names the agent that writes it
  Row,        \* rows of oss_events, numbered in the order of occurred_at
  KeyOf,      \* [Row -> Key]: a request_id that is used again repeats its key
  Form,       \* [Row -> Forms]: what the payload of a row says
  NoRow,
  Limit,      \* AIHUB_TOPICGEN_DAILY_LIMIT_PER_AGENT
  Window,     \* rows one tick reads (40)
  LastDay,    \* bound on the days that pass
  MaxLost     \* bound on failures: none after it is reached for one key

(* A "sound" payload can be accepted; an "unsound" one lacks a title, a    *)
(* category or a proper summary; the administrator's clean-up looks for    *)
(* the signs of bad text that a "garbled" payload has, which is unsound,   *)
(* and a "marred" one, which can be accepted; an "untyped" one is stored   *)
(* under a proposal's name but its type is not propose_topic.              *)
Forms == {"sound", "marred", "unsound", "garbled", "untyped"}

ASSUME ProposalAssumption ==
  /\ IsFiniteSet(Key)
  /\ Proposer \in [Key -> Agent]
  /\ Row \subseteq Nat \ {0}
  /\ NoRow \notin Row
  /\ KeyOf \in [Row -> Key]
  /\ Form \in [Row -> Forms]
  /\ Limit \in Nat \ {0}
  /\ Window \in Nat \ {0}
  /\ LastDay \in Nat \ {0}
  /\ MaxLost \in Nat

VARIABLES
  registered,  \* agents with a row in the agents table
  tagged,      \* agents that have one of the actor tags
  day,         \* today, where the limit's day begins (Asia/Shanghai)
  next,        \* the next request to be written
  stored,      \* rows of oss_events
  written,     \* the day of a row's occurred_at; 0 until it is written
  decision,    \* outcome of the row of topicgen_decisions for a key
  decidedOn,   \* the day of its created_at
  made,        \* manifests written for a key
  usable,      \* keys with a topic that also has its state object
  results,     \* keys with a result object
  lost,        \* history: attempts on a key that failed before a decision
  batch,       \* rows the tick has not come to yet
  pc,          \* what the tick does next
  row          \* the row it works on

requests == <<next, stored, written>>
topics   == <<made, usable, results>>
record   == <<decision, decidedOn, lost>>
tick     == <<batch, pc, row>>
vars == <<registered, tagged, day, requests, topics, record, tick>>

TypeOK ==
  /\ registered \subseteq Agent
  /\ tagged \subseteq Agent
  /\ day \in 1..LastDay
  /\ next \in Nat
  /\ stored \subseteq Row
  /\ written \in [Row -> 0..LastDay]
  /\ decision \in [Key -> {"none", "accepted", "rejected", "error"}]
  /\ decidedOn \in [Key -> 0..LastDay]
  /\ made \in [Key -> Nat]
  /\ usable \subseteq Key
  /\ results \subseteq Key
  /\ lost \in [Key -> Nat]
  /\ batch \subseteq Row
  /\ pc \in {"idle", "choosing", "creating", "begun", "complete", "failing", "answering"}
  /\ row \in Row \cup {NoRow}

(* The built-in topic exists (ensureBuiltinDailyCheckinTopic).             *)
Init ==
  /\ registered = Agent
  /\ tagged = Agent
  /\ day = 1
  /\ next = 1
  /\ stored = {}
  /\ written = [e \in Row |-> 0]
  /\ decision = [k \in Key |-> "none"]
  /\ decidedOn = [k \in Key |-> 0]
  /\ made = [k \in Key |-> 0]
  /\ usable = {}
  /\ results = {}
  /\ lost = [k \in Key |-> 0]
  /\ batch = {}
  /\ pc = "idle"
  /\ row = NoRow

----------------------------------------------------------------------------
(* Agents write requests.  The object is stored first; the row that makes  *)
(* the ticker see it is inserted after that, and its failure is only       *)
(* logged.                                                                 *)

WriteRequest(e) ==
  /\ e = next
  /\ Proposer[KeyOf[e]] \in registered
  /\ next' = next + 1
  /\ stored' \in {stored, stored \cup {e}}
  /\ written' = [written EXCEPT ![e] = day]
  /\ UNCHANGED <<registered, tagged, day, topics, record, tick>>

(* The structured request: the agent may choose (and repeat) request_id.   *)
WriteTopicRequest(e) == WriteRequest(e)

(* The plain-text proposal: the server chooses request_id and the type.    *)
ProposeTopicText(e) ==
  /\ Form[e] # "untyped"
  /\ \A f \in Row \ {e} : KeyOf[f] # KeyOf[e]
  /\ WriteRequest(e)

(* The administrator's clean-up of requests deletes every row of the key.  *)
CleanUpRequests(e) ==
  /\ e \in stored
  /\ Form[e] \in {"garbled", "marred"}
  /\ stored' = {f \in stored : KeyOf[f] # KeyOf[e]}
  /\ UNCHANGED <<registered, tagged, day, next, written, topics, record, tick>>

(* The cascade takes an agent's decisions with it.                         *)
DeleteAgent(a) ==
  /\ a \in registered
  /\ registered' = registered \ {a}
  /\ decision' = [k \in Key |-> IF Proposer[k] = a THEN "none" ELSE decision[k]]
  /\ decidedOn' = [k \in Key |-> IF Proposer[k] = a THEN 0 ELSE decidedOn[k]]
  /\ UNCHANGED <<tagged, day, requests, topics, lost, tick>>

ReplaceTags(a) ==
  /\ a \in registered
  /\ tagged' \in {tagged \cup {a}, tagged \ {a}}
  /\ UNCHANGED <<registered, day, requests, topics, record, tick>>

NewDay ==
  /\ day < LastDay
  /\ day' = day + 1
  /\ UNCHANGED <<registered, tagged, requests, topics, record, tick>>

----------------------------------------------------------------------------
(* The tick.                                                               *)

\* Mutant: the tick looks at today's requests only.
Pending_Today == {e \in stored : written[e] = day /\ decision[KeyOf[e]] = "none"}

Pending == {e \in stored : decision[KeyOf[e]] = "none"}

Oldest(n, S) == {e \in S : Cardinality({f \in S : f <= e}) <= n}

Tick ==
  /\ pc = "idle"
  /\ Pending # {}
  /\ batch' = Oldest(Window, Pending)
  /\ pc' = "choosing"
  /\ UNCHANGED <<registered, tagged, day, requests, topics, record, row>>

EndTick ==
  /\ pc = "choosing"
  /\ batch = {}
  /\ pc' = "idle"
  /\ UNCHANGED <<registered, tagged, day, requests, topics, record, batch, row>>

Turn(e) == pc = "choosing" /\ e \in batch /\ \A f \in batch : e <= f

Done(e) == batch' = batch \ {e} /\ pc' = "choosing" /\ row' = NoRow

Decide(k, outcome) ==
  /\ decision' = [decision EXCEPT ![k] = outcome]
  /\ decidedOn' = [decidedOn EXCEPT ![k] = day]
  /\ UNCHANGED lost

\* Mutant: the query that chose the batch is trusted.
Decided_AsQueried(e) == FALSE

(* "If we already decided this object_key, skip."                          *)
Decided(e) == decision[KeyOf[e]] # "none"

(* Skipped without a decision: decided already, of another type, or by an  *)
(* agent that is gone: the refusal then fails on its foreign key.          *)
PassOver(e) ==
  /\ Turn(e)
  /\ \/ Decided(e)
     \/ Form[e] = "untyped"
     \/ Proposer[KeyOf[e]] \notin registered
  /\ Done(e)
  /\ UNCHANGED <<registered, tagged, day, requests, topics, record>>

\* Mutant: the quota counts the topics proposed that day, not those decided.
Used_ByRequest(a, d) ==
  Cardinality({k \in Key : /\ Proposer[k] = a
                           /\ decision[k] = "accepted"
                           /\ \E e \in Row : KeyOf[e] = k /\ written[e] >= d})

(* Topics accepted for agent a since the beginning of day d.               *)
Used(a, d) ==
  Cardinality({k \in Key : /\ Proposer[k] = a
                           /\ decision[k] = "accepted"
                           /\ decidedOn[k] >= d})

Acceptable(e) ==
  /\ Proposer[KeyOf[e]] \in tagged
  /\ Form[e] \in {"sound", "marred"}
  /\ Used(Proposer[KeyOf[e]], written[e]) < Limit

(* The limit is that of the day the request was written, not of today.     *)
Consider(e) ==
  /\ Turn(e)
  /\ ~ Decided(e)
  /\ Form[e] # "untyped"
  /\ Proposer[KeyOf[e]] \in registered
  /\ \/ /\ Acceptable(e)
        /\ pc' = "creating"
        /\ row' = e
        /\ UNCHANGED <<batch, record>>
     \/ /\ ~ Acceptable(e)
        /\ Decide(KeyOf[e], "rejected")
        /\ Done(e)
  /\ UNCHANGED <<registered, tagged, day, requests, topics>>

(* A write that fails may have stored the object.                          *)
PutManifest ==
  /\ pc = "creating"
  /\ \/ /\ made' = [made EXCEPT ![KeyOf[row]] = @ + 1]
        /\ pc' = "begun"
     \/ /\ made' \in {made, [made EXCEPT ![KeyOf[row]] = @ + 1]}
        /\ pc' = "failing"
  /\ UNCHANGED <<registered, tagged, day, requests, usable, results, record, batch, row>>

\* Mutant: the error of the second write is only logged.
PutState_Unchecked ==
  /\ pc = "begun"
  /\ usable' \in {usable, usable \cup {KeyOf[row]}}
  /\ pc' = "complete"
  /\ UNCHANGED <<registered, tagged, day, requests, made, results, record, batch, row>>

PutState ==
  /\ pc = "begun"
  /\ \/ /\ usable' = usable \cup {KeyOf[row]}
        /\ pc' = "complete"
     \/ /\ usable' \in {usable, usable \cup {KeyOf[row]}}
        /\ pc' = "failing"
  /\ UNCHANGED <<registered, tagged, day, requests, made, results, record, batch, row>>

GiveUp(k) ==
  /\ lost' = [lost EXCEPT ![k] = @ + 1]
  /\ UNCHANGED <<decision, decidedOn>>

(* The decision's foreign key fails if the proposer is gone by now.        *)
RecordAccepted ==
  LET k == KeyOf[row]
  IN  /\ pc = "complete"
      /\ \/ /\ Proposer[k] \in registered
            /\ Decide(k, "accepted")
            /\ pc' = "answering"
            /\ UNCHANGED <<batch, row>>
         \/ /\ Proposer[k] \notin registered
            /\ GiveUp(k)
            /\ Done(row)
      /\ UNCHANGED <<registered, tagged, day, requests, topics>>

\* Mutant: an outcome the check constraint does not know.
RecordError_Failed ==
  LET k == KeyOf[row]
  IN  /\ pc = "failing"
      /\ \/ Proposer[k] \in registered /\ Decide(k, "failed")
         \/ Proposer[k] \notin registered /\ GiveUp(k)
      /\ Done(row)
      /\ UNCHANGED <<registered, tagged, day, requests, topics>>

RecordError ==
  LET k == KeyOf[row]
  IN  /\ pc = "failing"
      /\ \/ Proposer[k] \in registered /\ Decide(k, "error")
         \/ Proposer[k] \notin registered /\ GiveUp(k)
      /\ Done(row)
      /\ UNCHANGED <<registered, tagged, day, requests, topics>>

(* Best effort, and for accepted proposals only.                           *)
PutResult ==
  /\ pc = "answering"
  /\ results' \in {results, results \cup {KeyOf[row]}}
  /\ Done(row)
  /\ UNCHANGED <<registered, tagged, day, requests, made, usable, record>>

(* A query fails and the tick goes on with the next row; or its ten        *)
(* seconds are over or the process dies, and it leaves the rest.           *)
Fail(e) ==
  /\ Turn(e) \/ (row = e /\ pc # "answering")
  /\ \A k \in Key : lost[k] < MaxLost
  /\ GiveUp(KeyOf[e])
  /\ \/ Done(e)
     \/ batch' = {} /\ pc' = "idle" /\ row' = NoRow
  /\ UNCHANGED <<registered, tagged, day, requests, topics>>

(* Once the decision is stored nothing but the result can be lost.         *)
Interrupt ==
  /\ pc = "answering"
  /\ batch' = {}
  /\ pc' = "idle"
  /\ row' = NoRow
  /\ UNCHANGED <<registered, tagged, day, requests, topics, record>>

----------------------------------------------------------------------------

Process ==
  \/ Tick
  \/ EndTick
  \/ \E e \in Row : PassOver(e) \/ Consider(e)
  \/ PutManifest
  \/ PutState
  \/ RecordAccepted
  \/ RecordError
  \/ PutResult

Next ==
  \/ \E e \in Row : WriteTopicRequest(e) \/ ProposeTopicText(e) \/ CleanUpRequests(e)
  \/ \E a \in Agent : DeleteAgent(a) \/ ReplaceTags(a)
  \/ NewDay
  \/ Process
  \/ \E e \in Row : Fail(e)
  \/ Interrupt

Spec == Init /\ [][Next]_vars

(* The ticker goes on.  MaxLost makes failures finite in number: a tick    *)
(* that fails each time decides nothing.                                   *)
FairSpec == Spec /\ WF_vars(Process)

----------------------------------------------------------------------------
(* Safety.                                                                 *)

(* No agent gets more topics on a day than the limit, though requests wait *)
(* for days, are repeated under one key and are decided by later ticks.    *)
QuotaHeld ==
  \A a \in Agent, d \in 1..LastDay :
    Cardinality({k \in Key : /\ Proposer[k] = a
                             /\ decision[k] = "accepted"
                             /\ decidedOn[k] = d}) <= Limit

(* A proposal makes one topic, and a refused one none, but for those that  *)
(* attempts made which failed before their decision was stored.            *)
SurplusIsLost ==
  \A k \in Key : /\ made[k] <= lost[k] + 1
                 /\ decision[k] = "rejected" => made[k] <= lost[k]

(* What is recorded or reported as accepted is a topic agents can use: its *)
(* manifest and its state are both there.                                  *)
AcceptedIsUsable ==
  \A k \in Key : decision[k] = "accepted" \/ k \in results => k \in usable

Docket == INSTANCE TopicDocket WITH
  member <- registered, today <- day, verdict <- decision, givenOn <- decidedOn,
  open <- usable, reported <- results

(* Ticks that are cut off between object store and database and start over *)
(* look like a docket on which each verdict is given once, with its topic  *)
(* open and within the limit of its day, and stands.                       *)
ImplementsDocket == Docket!DSpec

----------------------------------------------------------------------------
(* Liveness.                                                               *)

Waiting == {e \in stored : decision[KeyOf[e]] = "none"}

(* Rows no tick can decide.  They stay at the head of the window.          *)
Stuck == {e \in Waiting : Form[e] = "untyped" \/ Proposer[KeyOf[e]] \notin registered}

(* A stored proposal is decided in the end (or cleaned up), as long as its *)
(* agent stays and the rows that cannot be decided do not fill the window. *)
ProposalsAreDecided ==
  \A e \in Row :
    e \in Waiting \ Stuck ~>
      \/ e \notin Waiting \ Stuck
      \/ Cardinality(Stuck) >= Window
=============================================================================
