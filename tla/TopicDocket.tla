----------------------------- MODULE TopicDocket -----------------------------
(***************************************************************************)
(* What the gateway promises about proposed topics: each proposal gets at  *)
(* most one verdict, which stands until its proposer is deleted; it is     *)
(* accepted only if its topic is open, its proposer is a member and has    *)
(* room in the limit of the day; a topic opens only for a proposal without *)
(* a verdict; and only an accepted proposal is reported as such.           *)
(* TopicProposals implements this with two stores that share no            *)
(* transaction and a ticker that fails and starts over.                    *)
(***************************************************************************)
EXTENDS Naturals, FiniteSets

CONSTANTS Agent, Key, Proposer, Limit

VARIABLES
  member,    \* agents that are registered
  today,
  verdict,   \* none, accepted, rejected or error
  givenOn,   \* the day of the verdict
  open,      \* proposals whose topic can be used
  reported   \* proposals reported as accepted

dvars == <<member, today, verdict, givenOn, open, reported>>

DInit ==
  /\ member = Agent
  /\ today = 1
  /\ verdict = [k \in Key |-> "none"]
  /\ givenOn = [k \in Key |-> 0]
  /\ open = {}
  /\ reported = {}

Room(a) ==
  Cardinality({k \in Key : /\ Proposer[k] = a
                           /\ verdict[k] = "accepted"
                           /\ givenOn[k] = today}) < Limit

OpenTopic(k) ==
  /\ verdict[k] = "none"
  /\ open' = open \cup {k}
  /\ UNCHANGED <<member, today, verdict, givenOn, reported>>

Give(k, v) ==
  /\ verdict[k] = "none"
  /\ Proposer[k] \in member
  /\ verdict' = [verdict EXCEPT ![k] = v]
  /\ givenOn' = [givenOn EXCEPT ![k] = today]
  /\ UNCHANGED <<member, today, open, reported>>

Accept(k) == k \in open /\ Room(Proposer[k]) /\ Give(k, "accepted")

Refuse(k) == Give(k, "rejected") \/ Give(k, "error")

(* The report may come after the proposer has gone, and its verdicts.      *)
Report(k) ==
  /\ k \in open
  /\ verdict[k] = "accepted" \/ Proposer[k] \notin member
  /\ reported' = reported \cup {k}
  /\ UNCHANGED <<member, today, verdict, givenOn, open>>

Dismiss(a) ==
  /\ member' = member \ {a}
  /\ verdict' = [k \in Key |-> IF Proposer[k] = a THEN "none" ELSE verdict[k]]
  /\ givenOn' = [k \in Key |-> IF Proposer[k] = a THEN 0 ELSE givenOn[k]]
  /\ UNCHANGED <<today, open, reported>>

Dawn ==
  /\ today' = today + 1
  /\ UNCHANGED <<member, verdict, givenOn, open, reported>>

DNext ==
  \/ \E k \in Key : OpenTopic(k) \/ Accept(k) \/ Refuse(k) \/ Report(k)
  \/ \E a \in Agent : Dismiss(a)
  \/ Dawn

DSpec == DInit /\ [][DNext]_dvars
=============================================================================
