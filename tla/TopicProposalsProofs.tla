------------------------ MODULE TopicProposalsProofs ------------------------
(***************************************************************************)
(* What holds of TopicProposals for any agents, keys and rows, and any     *)
(* limit, window, number of days and number of failures.                   *)
(***************************************************************************)
EXTENDS TopicProposals, FiniteSetTheorems, WellFoundedInduction, TLAPS

Working == {"creating", "begun", "complete", "failing", "answering"}

Accepted(a) == {k \in Key : Proposer[k] = a /\ decision[k] = "accepted"}
On(a, d)    == {k \in Accepted(a) : decidedOn[k] = d}
Since(a, d) == {k \in Accepted(a) : decidedOn[k] >= d}

(* Rows the ticker knows of have been written, and time runs forward.      *)
RowsFollowTime ==
  /\ \A e \in stored \cup batch : e < next
  /\ pc \in Working => row \in Row /\ row < next
  /\ pc \notin Working => row = NoRow
  /\ \A e \in Row : written[e] <= day
  /\ \A k \in Key : decidedOn[k] <= day

(* Work on a row goes on only while its key is undecided, and the quota    *)
(* that let it begin still lets it end.                                    *)
WorkIsAdmitted ==
  pc \in {"creating", "begun", "complete", "failing"} =>
    /\ decision[KeyOf[row]] = "none"
    /\ Cardinality(Since(Proposer[KeyOf[row]], written[row])) < Limit

(* Before a manifest is written, and while nothing is decided or under     *)
(* way, every manifest for a key is one that a failed attempt left.        *)
Begun(k) == pc \in {"begun", "complete", "failing"} /\ KeyOf[row] = k

NoneUnaccounted ==
  \A k \in Key :
    /\ pc = "creating" /\ KeyOf[row] = k => made[k] <= lost[k]
    /\ Proposer[k] \in registered /\ decision[k] = "none" /\ ~ Begun(k) =>
         made[k] <= lost[k]

CompleteIsUsable == pc \in {"complete", "answering"} => KeyOf[row] \in usable

IInv ==
  /\ TypeOK
  /\ RowsFollowTime
  /\ WorkIsAdmitted
  /\ NoneUnaccounted
  /\ CompleteIsUsable
  /\ QuotaHeld
  /\ SurplusIsLost
  /\ AcceptedIsUsable

(* Sets of keys are finite.                                                *)
LEMMA KeysAreFinite ==
  ASSUME NEW S, NEW T, S \subseteq T, T \subseteq Key
  PROVE  /\ Cardinality(S) \in Nat /\ Cardinality(T) \in Nat
         /\ Cardinality(S) <= Cardinality(T)
<1>1. IsFiniteSet(T)
  BY ProposalAssumption, FS_Subset
<1>2. IsFiniteSet(S) /\ Cardinality(S) <= Cardinality(T)
  BY <1>1, FS_Subset
<1> QED
  BY <1>1, <1>2, FS_CardinalityType

LEMMA QuotaIsOn ==
  QuotaHeld <=> \A a \in Agent, d \in 1..LastDay : Cardinality(On(a, d)) <= Limit
<1>1. ASSUME NEW a \in Agent, NEW d \in 1..LastDay
      PROVE  On(a, d) = {k \in Key : /\ Proposer[k] = a
                                     /\ decision[k] = "accepted"
                                     /\ decidedOn[k] = d}
  BY DEF On, Accepted
<1> QED
  BY <1>1 DEF QuotaHeld

(* Where nothing new is accepted, no count of accepted topics grows.       *)
LEMMA QuotaKept ==
  ASSUME TypeOK, QuotaHeld,
         \A k \in Key : decision'[k] = "accepted" =>
           decision[k] = "accepted" /\ decidedOn'[k] = decidedOn[k]
  PROVE  /\ QuotaHeld'
         /\ \A a \in Agent, d \in 0..LastDay :
              Cardinality(Since(a, d)') <= Cardinality(Since(a, d))
<1>1. ASSUME NEW a \in Agent, NEW d \in 1..LastDay
      PROVE  Cardinality({k \in Key : /\ Proposer[k] = a
                                      /\ decision'[k] = "accepted"
                                      /\ decidedOn'[k] = d}) <= Limit
  <2> DEFINE S == {k \in Key : /\ Proposer[k] = a
                               /\ decision[k] = "accepted"
                               /\ decidedOn[k] = d}
             T == {k \in Key : /\ Proposer[k] = a
                               /\ decision'[k] = "accepted"
                               /\ decidedOn'[k] = d}
  <2>1. T \subseteq S /\ S \subseteq Key
    OBVIOUS
  <2>2. Cardinality(S) <= Limit
    BY DEF QuotaHeld
  <2>3. /\ Cardinality(T) \in Nat /\ Cardinality(S) \in Nat
        /\ Cardinality(T) <= Cardinality(S)
    BY <2>1, KeysAreFinite
  <2> QED
    BY <2>2, <2>3, ProposalAssumption
<1>2. ASSUME NEW a \in Agent, NEW d \in 0..LastDay
      PROVE  Cardinality(Since(a, d)') <= Cardinality(Since(a, d))
  <2>1. Since(a, d)' \subseteq Since(a, d) /\ Since(a, d) \subseteq Key
    BY DEF Since, Accepted
  <2> QED
    BY <2>1, KeysAreFinite
<1>3. QuotaHeld'
  BY <1>1 DEF QuotaHeld
<1> QED
  BY <1>2, <1>3

(* The quota that admitted a row is not used up by what follows.           *)
LEMMA AdmissionKept ==
  ASSUME IInv, TypeOK',
         pc \in {"creating", "begun", "complete", "failing"},
         row' = row, written'[row] = written[row],
         decision'[KeyOf[row]] = "none",
         \A k \in Key : decision'[k] = "accepted" =>
           decision[k] = "accepted" /\ decidedOn'[k] = decidedOn[k]
  PROVE  WorkIsAdmitted'
<1> DEFINE a == Proposer[KeyOf[row]]
           d == written[row]
<1>1. row \in Row /\ KeyOf[row] \in Key /\ a \in Agent /\ d \in 0..LastDay
  BY ProposalAssumption DEF IInv, RowsFollowTime, Working, TypeOK
<1>2. Cardinality(Since(a, d)) < Limit
  BY DEF IInv, WorkIsAdmitted
<1>3. Cardinality(Since(a, d)') <= Cardinality(Since(a, d))
  BY <1>1, QuotaKept DEF IInv
<1>4. Cardinality(Since(a, d)) \in Nat /\ Cardinality(Since(a, d)') \in Nat
  <2>1. Since(a, d) \subseteq Key /\ Since(a, d)' \subseteq Key
    BY DEF Since, Accepted
  <2> QED
    BY <2>1, KeysAreFinite
<1>5. Cardinality(Since(a, d)') < Limit
  BY <1>2, <1>3, <1>4, ProposalAssumption
<1>6. Since(Proposer[KeyOf[row]], written[row])' = Since(a, d)'
  BY <1>1
<1> QED
  BY <1>5, <1>6 DEF WorkIsAdmitted

(* The inductive invariant holds initially.                                *)
LEMMA InvInit == Init => IInv
<1> SUFFICES ASSUME Init PROVE IInv
  OBVIOUS
<1>1. TypeOK
  BY ProposalAssumption DEF Init, TypeOK
<1>2. QuotaHeld
  <2>1. ASSUME NEW a \in Agent, NEW d \in 1..LastDay
        PROVE  {k \in Key : /\ Proposer[k] = a
                            /\ decision[k] = "accepted"
                            /\ decidedOn[k] = d} = {}
    BY DEF Init
  <2> QED
    BY <2>1, FS_EmptySet, ProposalAssumption DEF QuotaHeld
<1>3. RowsFollowTime /\ WorkIsAdmitted /\ NoneUnaccounted /\ CompleteIsUsable
  BY ProposalAssumption DEF Init, RowsFollowTime, Working, WorkIsAdmitted, NoneUnaccounted, CompleteIsUsable
<1>4. SurplusIsLost /\ AcceptedIsUsable
  BY DEF Init, SurplusIsLost, AcceptedIsUsable
<1> QED
  BY <1>1, <1>2, <1>3, <1>4 DEF IInv

(* Actions that leave decisions, failures and the tick alone.              *)
LEMMA SurroundingsKeepInv ==
  ASSUME IInv, TypeOK', UNCHANGED <<topics, record, tick>>,
         registered' \subseteq registered,
         next' >= next,
         \A e \in stored' : e \in stored \/ (e = next /\ next' > next),
         \A e \in Row : written'[e] = written[e] \/ (e = next /\ written'[e] = day),
         day' >= day
  PROVE  IInv'
<1> USE DEF topics, record, tick
<1>1. TypeOK /\ RowsFollowTime /\ WorkIsAdmitted
  BY DEF IInv
<1>2. RowsFollowTime'
  BY <1>1, ProposalAssumption DEF RowsFollowTime, Working, TypeOK
<1>3. WorkIsAdmitted'
  <2> SUFFICES ASSUME pc \in {"creating", "begun", "complete", "failing"}
               PROVE  WorkIsAdmitted'
    BY DEF WorkIsAdmitted
  <2>1. row \in Row /\ row # next
    BY <1>1 DEF RowsFollowTime, Working, TypeOK
  <2>2. decision'[KeyOf[row]] = "none"
    BY <1>1 DEF WorkIsAdmitted
  <2> QED
    BY <2>1, <2>2, AdmissionKept DEF TypeOK
<1>4. NoneUnaccounted'
  BY DEF IInv, NoneUnaccounted, Begun
<1>5. CompleteIsUsable' /\ SurplusIsLost' /\ AcceptedIsUsable'
  BY DEF IInv, CompleteIsUsable, SurplusIsLost, AcceptedIsUsable
<1>6. QuotaHeld'
  BY <1>1, QuotaKept DEF IInv
<1> QED
  BY <1>2, <1>3, <1>4, <1>5, <1>6 DEF IInv

LEMMA WriteKeepsInv ==
  ASSUME IInv, NEW e \in Row, WriteRequest(e)
  PROVE  IInv'
<1>1. TypeOK'
  BY DEF WriteRequest, IInv, TypeOK, topics, record, tick
<1>2. next' = next + 1 /\ next \in Nat /\ e = next
  BY DEF WriteRequest, IInv, TypeOK
<1>3. \A f \in Row : written'[f] = written[f] \/ (f = next /\ written'[f] = day)
  BY <1>2 DEF WriteRequest, IInv, TypeOK
<1> QED
  BY <1>1, <1>2, <1>3, SurroundingsKeepInv DEF WriteRequest, IInv, TypeOK

LEMMA CleanUpKeepsInv ==
  ASSUME IInv, NEW e \in Row, CleanUpRequests(e)
  PROVE  IInv'
<1>1. TypeOK'
  BY DEF CleanUpRequests, IInv, TypeOK, topics, record, tick
<1> QED
  BY <1>1, SurroundingsKeepInv DEF CleanUpRequests, IInv, TypeOK

LEMMA ReplaceTagsKeepsInv ==
  ASSUME IInv, NEW a \in Agent, ReplaceTags(a)
  PROVE  IInv'
<1>1. TypeOK'
  BY DEF ReplaceTags, IInv, TypeOK, requests, topics, record, tick
<1> QED
  BY <1>1, SurroundingsKeepInv DEF ReplaceTags, IInv, TypeOK, requests

LEMMA NewDayKeepsInv ==
  ASSUME IInv, NewDay
  PROVE  IInv'
<1>1. TypeOK'
  BY ProposalAssumption DEF NewDay, IInv, TypeOK, requests, topics, record, tick
<1> QED
  BY <1>1, SurroundingsKeepInv DEF NewDay, IInv, TypeOK, requests

(* The decisions of a deleted agent go, and so does the agent: no key of   *)
(* its own is ever admitted again.                                         *)
LEMMA DeleteAgentKeepsInv ==
  ASSUME IInv, NEW a \in Agent, DeleteAgent(a)
  PROVE  IInv'
<1> USE DEF requests, topics, tick
<1>1. TypeOK /\ TypeOK'
  BY ProposalAssumption DEF DeleteAgent, IInv, TypeOK
<1>2. \A k \in Key : decision'[k] = "accepted" =>
        decision[k] = "accepted" /\ decidedOn'[k] = decidedOn[k]
  BY <1>1 DEF DeleteAgent, TypeOK
<1>3. RowsFollowTime'
  BY <1>1 DEF DeleteAgent, IInv, RowsFollowTime, Working, TypeOK
<1>4. WorkIsAdmitted'
  <2> SUFFICES ASSUME pc \in {"creating", "begun", "complete", "failing"}
               PROVE  WorkIsAdmitted'
    BY DEF DeleteAgent, WorkIsAdmitted
  <2>1. decision'[KeyOf[row]] = "none"
    BY <1>1, ProposalAssumption
       DEF DeleteAgent, IInv, WorkIsAdmitted, RowsFollowTime, Working, TypeOK
  <2> QED
    BY <1>1, <1>2, <2>1, AdmissionKept DEF DeleteAgent
<1>5. NoneUnaccounted'
  BY <1>1, ProposalAssumption DEF DeleteAgent, IInv, NoneUnaccounted, Begun, TypeOK
<1>6. CompleteIsUsable' /\ SurplusIsLost' /\ AcceptedIsUsable'
  BY <1>1, ProposalAssumption
     DEF DeleteAgent, IInv, CompleteIsUsable, SurplusIsLost, AcceptedIsUsable, TypeOK
<1>7. QuotaHeld'
  BY <1>1, <1>2, QuotaKept DEF IInv
<1> QED
  BY <1>1, <1>3, <1>4, <1>5, <1>6, <1>7 DEF IInv
(* Actions of the ticker that decide nothing.                              *)
LEMMA TickKeepsInv ==
  ASSUME IInv, Tick \/ EndTick \/ \E e \in Row : PassOver(e)
  PROVE  IInv'
<1> USE DEF requests, topics, record
<1>1. /\ pc \in {"idle", "choosing"} /\ pc' \in {"idle", "choosing"}
      /\ row' = NoRow /\ batch' \subseteq batch \cup stored
      /\ UNCHANGED <<registered, tagged, day, requests, topics, record>>
  BY DEF Tick, EndTick, PassOver, Turn, Done, Pending, Oldest, IInv, RowsFollowTime, Working
<1>2. TypeOK /\ TypeOK'
  BY <1>1 DEF IInv, TypeOK
<1>3. RowsFollowTime'
  BY <1>1, <1>2 DEF IInv, RowsFollowTime, Working
<1>4. WorkIsAdmitted' /\ NoneUnaccounted' /\ CompleteIsUsable'
  BY <1>1 DEF IInv, WorkIsAdmitted, NoneUnaccounted, Begun, CompleteIsUsable
<1>5. SurplusIsLost' /\ AcceptedIsUsable'
  BY <1>1 DEF IInv, SurplusIsLost, AcceptedIsUsable
<1>6. QuotaHeld'
  BY <1>1, <1>2, QuotaKept DEF IInv
<1> QED
  BY <1>2, <1>3, <1>4, <1>5, <1>6 DEF IInv

LEMMA AdmitKeepsInv ==
  ASSUME IInv, NEW e \in Row, Consider(e), Acceptable(e)
  PROVE  IInv'
<1> DEFINE k == KeyOf[e]
<1> USE DEF requests, topics, record
<1>1. /\ pc = "choosing" /\ pc' = "creating" /\ row' = e /\ e \in batch
      /\ decision[k] = "none" /\ Proposer[k] \in registered
      /\ UNCHANGED <<registered, tagged, day, requests, topics, record, batch>>
  BY DEF Consider, Turn, Decided
<1>2. TypeOK /\ TypeOK'
  BY <1>1 DEF IInv, TypeOK
<1>3. RowsFollowTime'
  BY <1>1, <1>2 DEF IInv, RowsFollowTime, Working
<1>4. WorkIsAdmitted'
  <2>1. Since(Proposer[k], written[e]) =
          {j \in Key : /\ Proposer[j] = Proposer[k]
                       /\ decision[j] = "accepted"
                       /\ decidedOn[j] >= written[e]}
    BY DEF Since, Accepted
  <2>2. Cardinality(Since(Proposer[k], written[e])) < Limit
    BY <2>1 DEF Acceptable, Used
  <2>3. Since(Proposer[KeyOf[row]], written[row])' = Since(Proposer[k], written[e])
    BY <1>1 DEF Since, Accepted
  <2> QED
    BY <1>1, <2>2, <2>3 DEF WorkIsAdmitted
<1>5. NoneUnaccounted'
  BY <1>1 DEF IInv, NoneUnaccounted, Begun
<1>6. CompleteIsUsable' /\ SurplusIsLost' /\ AcceptedIsUsable'
  BY <1>1 DEF IInv, CompleteIsUsable, SurplusIsLost, AcceptedIsUsable
<1>7. QuotaHeld'
  BY <1>1, <1>2, QuotaKept DEF IInv
<1> QED
  BY <1>2, <1>3, <1>4, <1>5, <1>6, <1>7 DEF IInv

LEMMA RefuseKeepsInv ==
  ASSUME IInv, NEW e \in Row, Consider(e), ~ Acceptable(e)
  PROVE  IInv'
<1> DEFINE k == KeyOf[e]
<1> USE DEF requests, topics
<1>1. /\ pc = "choosing" /\ pc' = "choosing" /\ row' = NoRow /\ batch' = batch \ {e}
      /\ decision[k] = "none" /\ Proposer[k] \in registered
      /\ decision' = [decision EXCEPT ![k] = "rejected"]
      /\ decidedOn' = [decidedOn EXCEPT ![k] = day]
      /\ UNCHANGED <<registered, tagged, day, requests, topics, lost>>
  BY DEF Consider, Turn, Decided, Decide, Done
<1>2. TypeOK /\ TypeOK' /\ k \in Key
  BY <1>1, ProposalAssumption DEF IInv, TypeOK
<1>3. RowsFollowTime'
  BY <1>1, <1>2 DEF IInv, RowsFollowTime, Working, TypeOK
<1>4. WorkIsAdmitted' /\ CompleteIsUsable'
  BY <1>1 DEF WorkIsAdmitted, CompleteIsUsable
<1>5. NoneUnaccounted'
  BY <1>1, <1>2 DEF IInv, NoneUnaccounted, Begun, TypeOK
<1>6. SurplusIsLost'
  BY <1>1, <1>2 DEF IInv, SurplusIsLost, NoneUnaccounted, Begun, TypeOK
<1>7. AcceptedIsUsable'
  BY <1>1, <1>2 DEF IInv, AcceptedIsUsable, TypeOK
<1>8. QuotaHeld'
  BY <1>1, <1>2, QuotaKept DEF IInv, TypeOK
<1> QED
  BY <1>2, <1>3, <1>4, <1>5, <1>6, <1>7, <1>8 DEF IInv

LEMMA PutManifestKeepsInv ==
  ASSUME IInv, PutManifest
  PROVE  IInv'
<1> DEFINE k == KeyOf[row]
<1> USE DEF requests, record
<1>1. /\ pc = "creating" /\ pc' \in {"begun", "failing"}
      /\ made' \in {made, [made EXCEPT ![k] = @ + 1]}
      /\ UNCHANGED <<registered, tagged, day, requests, usable, results, record, batch, row>>
  BY DEF PutManifest
<1>2. row \in Row /\ k \in Key
  BY <1>1, ProposalAssumption DEF IInv, RowsFollowTime, Working
<1>3. TypeOK /\ TypeOK'
  BY <1>1, <1>2 DEF IInv, TypeOK
<1>4. RowsFollowTime'
  BY <1>1, <1>3 DEF IInv, RowsFollowTime, Working
<1>5. decision[k] = "none"
  BY <1>1 DEF IInv, WorkIsAdmitted
<1>6. WorkIsAdmitted'
  BY <1>1, <1>3, <1>5, AdmissionKept
<1>7. made[k] <= lost[k]
  BY <1>1, <1>2 DEF IInv, NoneUnaccounted
<1>8. NoneUnaccounted'
  BY <1>1, <1>2, <1>3 DEF IInv, NoneUnaccounted, Begun, TypeOK
<1>9. SurplusIsLost'
  BY <1>1, <1>2, <1>3, <1>5, <1>7 DEF IInv, SurplusIsLost, TypeOK
<1>10. CompleteIsUsable' /\ AcceptedIsUsable'
  BY <1>1 DEF IInv, CompleteIsUsable, AcceptedIsUsable
<1>11. QuotaHeld'
  BY <1>1, <1>3, QuotaKept DEF IInv
<1> QED
  BY <1>3, <1>4, <1>6, <1>8, <1>9, <1>10, <1>11 DEF IInv

LEMMA PutStateKeepsInv ==
  ASSUME IInv, PutState
  PROVE  IInv'
<1> DEFINE k == KeyOf[row]
<1> USE DEF requests, record
<1>1. /\ pc = "begun" /\ pc' \in {"complete", "failing"}
      /\ usable' \in {usable, usable \cup {k}}
      /\ pc' = "complete" => k \in usable'
      /\ UNCHANGED <<registered, tagged, day, requests, made, results, record, batch, row>>
  BY DEF PutState
<1>2. row \in Row /\ k \in Key
  BY <1>1, ProposalAssumption DEF IInv, RowsFollowTime, Working
<1>3. TypeOK /\ TypeOK'
  BY <1>1, <1>2 DEF IInv, TypeOK
<1>4. RowsFollowTime'
  BY <1>1, <1>3 DEF IInv, RowsFollowTime, Working
<1>5. WorkIsAdmitted'
  BY <1>1, <1>3, AdmissionKept DEF IInv, WorkIsAdmitted
<1>6. NoneUnaccounted' /\ SurplusIsLost'
  BY <1>1 DEF IInv, NoneUnaccounted, Begun, SurplusIsLost
<1>7. CompleteIsUsable' /\ AcceptedIsUsable'
  BY <1>1 DEF IInv, CompleteIsUsable, AcceptedIsUsable
<1>8. QuotaHeld'
  BY <1>1, <1>3, QuotaKept DEF IInv
<1> QED
  BY <1>3, <1>4, <1>5, <1>6, <1>7, <1>8 DEF IInv
(* An acceptance adds one key to the topics of its agent and its day, and  *)
(* these are among those the quota counted.                                *)
LEMMA AcceptKeepsQuota ==
  ASSUME IInv, pc = "complete", NEW k \in Key, k = KeyOf[row],
         decision' = [decision EXCEPT ![k] = "accepted"],
         decidedOn' = [decidedOn EXCEPT ![k] = day]
  PROVE  QuotaHeld'
<1>1. TypeOK /\ row \in Row /\ written[row] <= day /\ decision[k] = "none"
  BY DEF IInv, RowsFollowTime, Working, WorkIsAdmitted
<1>2. SUFFICES ASSUME NEW a \in Agent, NEW d \in 1..LastDay
               PROVE  Cardinality({j \in Key : /\ Proposer[j] = a
                                               /\ decision'[j] = "accepted"
                                               /\ decidedOn'[j] = d}) <= Limit
  BY DEF QuotaHeld
<1> DEFINE S == On(a, d)
           T == {j \in Key : /\ Proposer[j] = a
                             /\ decision'[j] = "accepted"
                             /\ decidedOn'[j] = d}
<1>3. S \subseteq Key /\ Cardinality(S) \in Nat
  <2>1. S \subseteq Key
    BY DEF On, Accepted
  <2> QED
    BY <2>1, KeysAreFinite
<1>4. CASE a = Proposer[k] /\ d = day
  <2>1. T \subseteq S \cup {k} /\ S \cup {k} \subseteq Key
    BY <1>1, <1>3 DEF On, Accepted, TypeOK
  <2>2. Cardinality(S) < Limit
    <3> DEFINE C == Since(a, written[row])
    <3>1. S \subseteq C /\ C \subseteq Key
      BY <1>1, <1>4 DEF On, Since, Accepted, TypeOK
    <3>2. Cardinality(C) < Limit
      BY <1>4 DEF IInv, WorkIsAdmitted
    <3>3. Cardinality(S) <= Cardinality(C) /\ Cardinality(C) \in Nat
      BY <3>1, KeysAreFinite
    <3> QED
      BY <1>3, <3>2, <3>3, ProposalAssumption
  <2>3. Cardinality(S \cup {k}) <= Cardinality(S) + 1
    <3>1. IsFiniteSet(S)
      BY <1>3, ProposalAssumption, FS_Subset
    <3>2. Cardinality(S \cup {k}) = IF k \in S THEN Cardinality(S) ELSE Cardinality(S) + 1
      BY <3>1, FS_AddElement
    <3> QED
      BY <1>3, <3>2
  <2>4. /\ Cardinality(T) <= Cardinality(S \cup {k})
        /\ Cardinality(T) \in Nat /\ Cardinality(S \cup {k}) \in Nat
    BY <2>1, KeysAreFinite
  <2> QED
    BY <1>3, <2>2, <2>3, <2>4, ProposalAssumption
<1>5. CASE ~ (a = Proposer[k] /\ d = day)
  <2>1. T \subseteq S
    BY <1>1, <1>5 DEF On, Accepted, TypeOK
  <2>2. Cardinality(T) <= Cardinality(S) /\ Cardinality(T) \in Nat
    BY <1>3, <2>1, KeysAreFinite
  <2>3. Cardinality(S) <= Limit
    BY QuotaIsOn DEF IInv
  <2> QED
    BY <1>3, <2>2, <2>3, ProposalAssumption
<1> QED
  BY <1>4, <1>5

LEMMA AcceptKeepsInv ==
  ASSUME IInv, RecordAccepted, Proposer[KeyOf[row]] \in registered
  PROVE  IInv'
<1> DEFINE k == KeyOf[row]
<1> USE DEF requests, topics
<1>1. /\ pc = "complete" /\ pc' = "answering"
      /\ decision' = [decision EXCEPT ![k] = "accepted"]
      /\ decidedOn' = [decidedOn EXCEPT ![k] = day]
      /\ UNCHANGED <<registered, tagged, day, requests, topics, lost, batch, row>>
  BY DEF RecordAccepted, Decide
<1>2. row \in Row /\ k \in Key
  BY <1>1, ProposalAssumption DEF IInv, RowsFollowTime, Working
<1>3. TypeOK /\ TypeOK'
  BY <1>1, <1>2 DEF IInv, TypeOK
<1>4. RowsFollowTime'
  BY <1>1, <1>2, <1>3 DEF IInv, RowsFollowTime, Working, TypeOK
<1>5. WorkIsAdmitted'
  BY <1>1 DEF WorkIsAdmitted
<1>6. NoneUnaccounted'
  BY <1>1, <1>2, <1>3 DEF IInv, NoneUnaccounted, Begun, TypeOK
<1>7. SurplusIsLost'
  BY <1>1, <1>2, <1>3 DEF IInv, SurplusIsLost, TypeOK
<1>8. CompleteIsUsable' /\ AcceptedIsUsable'
  BY <1>1, <1>2, <1>3 DEF IInv, CompleteIsUsable, AcceptedIsUsable, TypeOK
<1>9. QuotaHeld'
  BY <1>1, <1>2, AcceptKeepsQuota
<1> QED
  BY <1>3, <1>4, <1>5, <1>6, <1>7, <1>8, <1>9 DEF IInv

LEMMA ErrorKeepsInv ==
  ASSUME IInv, RecordError, Proposer[KeyOf[row]] \in registered
  PROVE  IInv'
<1> DEFINE k == KeyOf[row]
<1> USE DEF requests, topics
<1>1. /\ pc = "failing" /\ pc' = "choosing" /\ row' = NoRow /\ batch' = batch \ {row}
      /\ decision' = [decision EXCEPT ![k] = "error"]
      /\ decidedOn' = [decidedOn EXCEPT ![k] = day]
      /\ UNCHANGED <<registered, tagged, day, requests, topics, lost>>
  BY DEF RecordError, Decide, Done
<1>2. row \in Row /\ k \in Key
  BY <1>1, ProposalAssumption DEF IInv, RowsFollowTime, Working
<1>3. TypeOK /\ TypeOK'
  BY <1>1, <1>2 DEF IInv, TypeOK
<1>4. RowsFollowTime'
  BY <1>1, <1>2, <1>3 DEF IInv, RowsFollowTime, Working, TypeOK
<1>5. WorkIsAdmitted' /\ CompleteIsUsable'
  BY <1>1 DEF WorkIsAdmitted, CompleteIsUsable
<1>6. NoneUnaccounted'
  BY <1>1, <1>2, <1>3 DEF IInv, NoneUnaccounted, Begun, TypeOK
<1>7. SurplusIsLost' /\ AcceptedIsUsable'
  BY <1>1, <1>2, <1>3 DEF IInv, SurplusIsLost, AcceptedIsUsable, TypeOK
<1>8. QuotaHeld'
  BY <1>1, <1>2, <1>3, QuotaKept DEF IInv, TypeOK
<1> QED
  BY <1>3, <1>4, <1>5, <1>6, <1>7, <1>8 DEF IInv

(* An attempt that fails is counted, and the ticker drops its row.         *)
LEMMA GiveUpKeepsInv ==
  ASSUME IInv, NEW e \in Row, GiveUp(KeyOf[e]),
         pc \in Working => row = e,
         pc' \in {"idle", "choosing"}, row' = NoRow, batch' \subseteq batch,
         UNCHANGED <<registered, tagged, day, requests, topics>>
  PROVE  IInv'
<1> DEFINE k == KeyOf[e]
<1> USE DEF requests, topics
<1>1. /\ lost' = [lost EXCEPT ![k] = @ + 1]
      /\ UNCHANGED <<decision, decidedOn>>
  BY DEF GiveUp
<1>2. k \in Key /\ TypeOK /\ TypeOK'
  BY <1>1, ProposalAssumption DEF IInv, TypeOK
<1>3. RowsFollowTime'
  BY <1>1, <1>2 DEF IInv, RowsFollowTime, Working
<1>4. WorkIsAdmitted' /\ CompleteIsUsable'
  BY DEF WorkIsAdmitted, CompleteIsUsable
<1>5. SurplusIsLost'
  BY <1>1, <1>2 DEF IInv, SurplusIsLost, TypeOK
<1>6. NoneUnaccounted'
  <2>1. SUFFICES ASSUME NEW j \in Key, Proposer[j] \in registered, decision[j] = "none"
                 PROVE  made[j] <= lost'[j]
    BY <1>1 DEF NoneUnaccounted, Begun
  <2>2. CASE j = k
    BY <1>1, <1>2, <2>2 DEF IInv, SurplusIsLost, TypeOK
  <2>3. CASE j # k
    <3>1. ~ Begun(j)
      BY <2>3 DEF Begun, Working
    <3> QED
      BY <1>1, <1>2, <2>1, <2>3, <3>1 DEF IInv, NoneUnaccounted, TypeOK
  <2> QED
    BY <2>2, <2>3
<1>7. AcceptedIsUsable' /\ QuotaHeld'
  BY <1>1, <1>2, QuotaKept DEF IInv, AcceptedIsUsable
<1> QED
  BY <1>2, <1>3, <1>4, <1>5, <1>6, <1>7 DEF IInv

LEMMA FailKeepsInv ==
  ASSUME IInv, NEW e \in Row, Fail(e)
  PROVE  IInv'
<1>1. pc \in Working => row = e
  BY DEF Fail, Turn, Working
<1>2. /\ GiveUp(KeyOf[e])
      /\ pc' \in {"idle", "choosing"} /\ row' = NoRow /\ batch' \subseteq batch
      /\ UNCHANGED <<registered, tagged, day, requests, topics>>
  BY DEF Fail, Done
<1> QED
  BY <1>1, <1>2, GiveUpKeepsInv

(* The foreign key fails: the proposer was deleted under the tick.         *)
LEMMA OrphanKeepsInv ==
  ASSUME IInv, RecordAccepted \/ RecordError, Proposer[KeyOf[row]] \notin registered
  PROVE  IInv'
<1>1. row \in Row
  BY DEF IInv, RowsFollowTime, Working, RecordAccepted, RecordError
<1>2. /\ GiveUp(KeyOf[row])
      /\ pc' = "choosing" /\ row' = NoRow /\ batch' \subseteq batch
      /\ UNCHANGED <<registered, tagged, day, requests, topics>>
  BY DEF RecordAccepted, RecordError, Done
<1> QED
  BY <1>1, <1>2, GiveUpKeepsInv

LEMMA AnswerKeepsInv ==
  ASSUME IInv, PutResult \/ Interrupt
  PROVE  IInv'
<1> USE DEF requests, topics, record
<1>1. /\ pc = "answering" /\ pc' \in {"idle", "choosing"}
      /\ row' = NoRow /\ batch' \subseteq batch
      /\ results' \subseteq results \cup {KeyOf[row]}
      /\ UNCHANGED <<registered, tagged, day, requests, made, usable, record>>
  BY DEF PutResult, Interrupt, Done
<1>2. row \in Row /\ KeyOf[row] \in Key
  BY <1>1, ProposalAssumption DEF IInv, RowsFollowTime, Working
<1>3. TypeOK /\ TypeOK'
  BY <1>1, <1>2 DEF IInv, TypeOK
<1>4. RowsFollowTime'
  BY <1>1, <1>3 DEF IInv, RowsFollowTime, Working
<1>5. WorkIsAdmitted' /\ CompleteIsUsable'
  BY <1>1 DEF WorkIsAdmitted, CompleteIsUsable
<1>6. NoneUnaccounted' /\ SurplusIsLost'
  BY <1>1 DEF IInv, NoneUnaccounted, Begun, SurplusIsLost
<1>7. AcceptedIsUsable'
  BY <1>1, <1>2 DEF IInv, AcceptedIsUsable, CompleteIsUsable
<1>8. QuotaHeld'
  BY <1>1, <1>3, QuotaKept DEF IInv
<1> QED
  BY <1>3, <1>4, <1>5, <1>6, <1>7, <1>8 DEF IInv

(* Every step keeps the invariant.                                         *)
LEMMA InvNext == IInv /\ [Next]_vars => IInv'
<1> SUFFICES ASSUME IInv, [Next]_vars PROVE IInv'
  OBVIOUS
<1>1. CASE UNCHANGED vars
  <2>1. TypeOK'
    BY <1>1 DEF IInv, TypeOK, vars, requests, topics, record, tick
  <2> QED
    BY <1>1, <2>1, SurroundingsKeepInv DEF IInv, TypeOK, vars, requests
<1>2. ASSUME NEW e \in Row, WriteTopicRequest(e) \/ ProposeTopicText(e)
      PROVE  IInv'
  BY <1>2, WriteKeepsInv DEF WriteTopicRequest, ProposeTopicText
<1>3. ASSUME NEW e \in Row, CleanUpRequests(e)
      PROVE  IInv'
  BY <1>3, CleanUpKeepsInv
<1>4. ASSUME NEW a \in Agent, DeleteAgent(a)
      PROVE  IInv'
  BY <1>4, DeleteAgentKeepsInv
<1>5. ASSUME NEW a \in Agent, ReplaceTags(a)
      PROVE  IInv'
  BY <1>5, ReplaceTagsKeepsInv
<1>6. CASE NewDay
  BY <1>6, NewDayKeepsInv
<1>7. CASE Tick \/ EndTick \/ \E e \in Row : PassOver(e)
  BY <1>7, TickKeepsInv
<1>8. ASSUME NEW e \in Row, Consider(e)
      PROVE  IInv'
  BY <1>8, AdmitKeepsInv, RefuseKeepsInv
<1>9. CASE PutManifest
  BY <1>9, PutManifestKeepsInv
<1>10. CASE PutState
  BY <1>10, PutStateKeepsInv
<1>11. CASE RecordAccepted
  BY <1>11, AcceptKeepsInv, OrphanKeepsInv
<1>12. CASE RecordError
  BY <1>12, ErrorKeepsInv, OrphanKeepsInv
<1>13. CASE PutResult \/ Interrupt
  BY <1>13, AnswerKeepsInv
<1>14. ASSUME NEW e \in Row, Fail(e)
       PROVE  IInv'
  BY <1>14, FailKeepsInv
<1> QED
  BY <1>1, <1>2, <1>3, <1>4, <1>5, <1>6, <1>7, <1>8, <1>9, <1>10, <1>11, <1>12,
     <1>13, <1>14 DEF Next, Process

(* The inductive invariant: rows, time, the work under way, what it was    *)
(* admitted on and what it has made.                                       *)
THEOREM Invariance == Spec => []IInv
  BY InvInit, InvNext, PTL DEF Spec

(* Type correctness of the ticker, the requests and the decisions.         *)
THEOREM TypeCorrect == Spec => []TypeOK
<1>1. IInv => TypeOK
  BY DEF IInv
<1> QED
  BY <1>1, Invariance, PTL

(* processOneTopicProposal keeps the daily limit of accepted topics.       *)
THEOREM QuotaIsHeld == Spec => []QuotaHeld
<1>1. IInv => QuotaHeld
  BY DEF IInv
<1> QED
  BY <1>1, Invariance, PTL

(* A second topic for a proposal, or one for a refused proposal, is always *)
(* the work of an attempt that failed between the object store and the     *)
(* database.                                                               *)
THEOREM SurplusIsAccounted == Spec => []SurplusIsLost
<1>1. IInv => SurplusIsLost
  BY DEF IInv
<1> QED
  BY <1>1, Invariance, PTL

(* Decisions and results never name a topic without manifest and state.    *)
THEOREM AcceptedTopicsWork == Spec => []AcceptedIsUsable
<1>1. IInv => AcceptedIsUsable
  BY DEF IInv
<1> QED
  BY <1>1, Invariance, PTL

----------------------------------------------------------------------------
(* Progress.                                                               *)

LEMMA LeastNumber ==
  ASSUME NEW S, S \subseteq Nat, S # {}
  PROVE  \E m \in S : \A n \in S : m <= n
<1> DEFINE R == OpToRel(<, Nat)
<1>1. IsWellFoundedOn(R, Nat)
  BY NatLessThanWellFounded
<1>2. \A m, n \in Nat : n < m => <<n, m>> \in R
  BY DEF OpToRel
<1> HIDE DEF R
<1>3. PICK m \in S : \A n \in S : ~ (<<n, m>> \in R)
  BY <1>1, WFMin
<1>4. \A n \in S : ~ (n < m)
  BY <1>2, <1>3
<1> QED
  BY <1>4

(* A window that the rows no tick can decide do not fill brings a row that *)
(* a tick can decide.                                                      *)
TicksFindWork ==
  Waiting \ Stuck # {} /\ Cardinality(Stuck) < Window =>
    Oldest(Window, Pending) \ Stuck # {}

LEMMA WindowReaches ==
  ASSUME NEW S, NEW T, S \subseteq T, T \subseteq Nat, IsFiniteSet(T),
         T \ S # {}, Cardinality(S) < Window
  PROVE  Oldest(Window, T) \ S # {}
<1>1. PICK e \in T \ S : \A f \in T \ S : e <= f
  BY LeastNumber
<1> DEFINE upto == {f \in T : f <= e}
<1>2. upto \subseteq S \cup {e}
  <2>1. \A f \in upto : f \in S \/ f = e
    <3>1. e \in Nat /\ \A f \in T : f \in Nat
      BY <1>1
    <3> QED
      BY <1>1, <3>1
  <2> QED
    BY <2>1
<1>3. /\ IsFiniteSet(S) /\ IsFiniteSet(S \cup {e})
      /\ Cardinality(S \cup {e}) <= Cardinality(S) + 1
  <2>1. IsFiniteSet(S) /\ e \notin S
    BY <1>1, FS_Subset
  <2>2. /\ IsFiniteSet(S \cup {e}) /\ Cardinality(S) \in Nat
        /\ Cardinality(S \cup {e}) = Cardinality(S) + 1
    BY <2>1, FS_AddElement, FS_CardinalityType
  <2> QED
    BY <2>1, <2>2
<1>4. IsFiniteSet(upto) /\ Cardinality(upto) <= Cardinality(S \cup {e})
  BY <1>2, <1>3, FS_Subset
<1>5. Cardinality(upto) \in Nat /\ Cardinality(S) \in Nat /\ Cardinality(S \cup {e}) \in Nat
  BY <1>3, <1>4, FS_CardinalityType
<1>6. Cardinality(upto) <= Window
  BY <1>3, <1>4, <1>5, ProposalAssumption
<1> QED
  BY <1>1, <1>6 DEF Oldest

(* A tick finds a proposal it can decide whenever there is one, unless the *)
(* rows that stay undecided fill its window: the safety half of the        *)
(* decision of every proposal, for any window.                             *)
THEOREM TicksReachProposals == Spec => []TicksFindWork
<1>1. ASSUME IInv PROVE TicksFindWork
  <2>1. stored \subseteq 1..(next - 1) /\ next \in Nat
    BY <1>1, ProposalAssumption DEF IInv, TypeOK, RowsFollowTime
  <2>2. IsFiniteSet(1..(next - 1))
    BY <2>1, FS_Interval
  <2>3. Waiting \subseteq stored /\ Pending = Waiting /\ Stuck \subseteq Waiting
    BY DEF Waiting, Pending, Stuck
  <2>4. Waiting \subseteq 1..(next - 1)
    BY <2>1, <2>3
  <2>5. IsFiniteSet(Waiting)
    BY <2>2, <2>4, FS_Subset
  <2>6. Waiting \subseteq Nat
    BY <2>1, <2>4
  <2> QED
    BY <2>3, <2>5, <2>6, WindowReaches DEF TicksFindWork
<1> QED
  BY <1>1, Invariance, PTL

----------------------------------------------------------------------------
(* Refinement.                                                             *)

(* A result is written while the acceptance stands, or its agent is gone.  *)
Answering ==
  pc = "answering" =>
    decision[KeyOf[row]] = "accepted" \/ Proposer[KeyOf[row]] \notin registered

LEMMA AnsweringKept ==
  ASSUME IInv, Answering, [Next]_vars
  PROVE  Answering'
<1> TypeOK
  BY DEF IInv
<1> USE DEF requests, topics, record, tick
<1>1. CASE pc' # "answering"
  BY <1>1 DEF Answering
<1>2. CASE pc' = "answering"
  <2>1. CASE pc = "answering"
    <3>1. row \in Row /\ KeyOf[row] \in Key
      BY <2>1, ProposalAssumption DEF IInv, RowsFollowTime, Working
    <3>2. row' = row
      BY <1>2, <2>1 DEF Next, vars, WriteTopicRequest, ProposeTopicText, WriteRequest,
           CleanUpRequests, DeleteAgent, ReplaceTags, NewDay, Process, Tick, EndTick, PassOver,
           Consider, Turn, Done, PutManifest, PutState, RecordAccepted, RecordError, PutResult,
           Fail, Interrupt
    <3>3. CASE \E a \in Agent : DeleteAgent(a)
      BY <2>1, <3>1, <3>2, <3>3 DEF DeleteAgent, Answering
    <3>4. CASE ~ \E a \in Agent : DeleteAgent(a)
      <4>1. UNCHANGED <<decision, registered>>
        BY <1>2, <2>1, <3>4 DEF Next, vars, WriteTopicRequest, ProposeTopicText, WriteRequest,
             CleanUpRequests, ReplaceTags, NewDay, Process, Tick, EndTick, PassOver,
             Consider, Turn, Done, PutManifest, PutState, RecordAccepted, RecordError, PutResult,
             Fail, Interrupt
      <4> QED
        BY <2>1, <3>2, <4>1 DEF Answering
    <3> QED
      BY <3>3, <3>4
  <2>2. CASE pc # "answering"
    <3>1. /\ pc = "complete" /\ row' = row
          /\ decision' = [decision EXCEPT ![KeyOf[row]] = "accepted"]
      BY <1>2, <2>2 DEF Next, vars, WriteTopicRequest, ProposeTopicText, WriteRequest,
           CleanUpRequests, DeleteAgent, ReplaceTags, NewDay, Process, Tick, EndTick, PassOver,
           Consider, Turn, Done, PutManifest, PutState, RecordAccepted, Decide, RecordError,
           PutResult, Fail, Interrupt
    <3>2. KeyOf[row] \in Key
      BY <3>1, ProposalAssumption DEF IInv, RowsFollowTime, Working
    <3> QED
      BY <3>1, <3>2 DEF Answering, TypeOK
  <2> QED
    BY <2>1, <2>2
<1> QED
  BY <1>1, <1>2

(* Both modules count with the same Cardinality.                           *)
LEMMA SameCount == ASSUME NEW S PROVE Docket!Cardinality(S) = Cardinality(S)
BY DEF Docket!Cardinality, Cardinality

(* What was accepted today was accepted since the request was written.     *)
LEMMA RoomLeft ==
  ASSUME IInv, pc = "complete", NEW k \in Key, k = KeyOf[row]
  PROVE  Docket!Room(Proposer[k])
<1> DEFINE a == Proposer[k]
           S == {j \in Key : Proposer[j] = a /\ decision[j] = "accepted" /\ decidedOn[j] = day}
<1>1. /\ row \in Row /\ written[row] <= day /\ TypeOK
      /\ Cardinality(Since(a, written[row])) < Limit
  BY DEF IInv, RowsFollowTime, Working, WorkIsAdmitted
<1>2. S \subseteq Since(a, written[row]) /\ Since(a, written[row]) \subseteq Key
  BY <1>1 DEF Since, Accepted, TypeOK
<1>3. /\ Cardinality(S) \in Nat /\ Cardinality(Since(a, written[row])) \in Nat
      /\ Cardinality(S) <= Cardinality(Since(a, written[row]))
  BY <1>2, KeysAreFinite
<1>4. Cardinality(S) < Limit
  BY <1>1, <1>3, ProposalAssumption
<1> QED
  BY <1>4, SameCount DEF Docket!Room

seen == <<registered, day, decision, decidedOn, usable, results>>

(* The steps of a tick that decide, open or report.                        *)
LEMMA ConsiderRefines ==
  ASSUME IInv, NEW e \in Row, Consider(e)
  PROVE  [Docket!DNext]_(Docket!dvars)
<1> USE DEF requests, topics, record
<1> PICK k \in Key : k = KeyOf[e]
  BY ProposalAssumption
<1>1. CASE UNCHANGED seen
  BY <1>1 DEF seen, Docket!dvars
<1>2. CASE Decide(k, "rejected") /\ UNCHANGED <<registered, day, usable, results>>
  <2>1. decision[k] = "none" /\ Proposer[k] \in registered
    BY DEF Consider, Decided
  <2>2. Docket!Refuse(k)
    BY <1>2, <2>1 DEF Docket!Refuse, Docket!Give, Decide
  <2> QED
    BY <2>2 DEF Docket!DNext
<1> QED
  BY <1>1, <1>2 DEF Consider, seen

LEMMA PutStateRefines ==
  ASSUME IInv, PutState
  PROVE  [Docket!DNext]_(Docket!dvars)
<1> USE DEF record
<1>1. row \in Row /\ decision[KeyOf[row]] = "none"
  BY DEF IInv, RowsFollowTime, Working, WorkIsAdmitted, PutState
<1> PICK k \in Key : k = KeyOf[row]
  BY <1>1, ProposalAssumption
<1>2. /\ usable' \in {usable, usable \cup {k}}
      /\ UNCHANGED <<registered, day, decision, decidedOn, results>>
  BY DEF PutState
<1>3. CASE usable' = usable
  BY <1>2, <1>3 DEF Docket!dvars
<1>4. CASE usable' = usable \cup {k}
  <2>1. Docket!OpenTopic(k)
    BY <1>1, <1>2, <1>4 DEF Docket!OpenTopic
  <2> QED
    BY <2>1 DEF Docket!DNext
<1> QED
  BY <1>2, <1>3, <1>4

LEMMA RecordRefines ==
  ASSUME IInv, RecordAccepted \/ RecordError
  PROVE  [Docket!DNext]_(Docket!dvars)
<1> USE DEF requests, topics, record
<1>1. row \in Row /\ decision[KeyOf[row]] = "none"
  BY DEF IInv, RowsFollowTime, Working, WorkIsAdmitted, RecordAccepted, RecordError
<1> PICK k \in Key : k = KeyOf[row]
  BY <1>1, ProposalAssumption
<1>2. UNCHANGED <<registered, day, usable, results>>
  BY DEF RecordAccepted, RecordError
<1>3. CASE GiveUp(k)
  BY <1>2, <1>3 DEF GiveUp, Docket!dvars
<1>4. CASE RecordError /\ Proposer[k] \in registered /\ Decide(k, "error")
  <2>1. Docket!Refuse(k)
    BY <1>1, <1>2, <1>4 DEF Docket!Refuse, Docket!Give, Decide
  <2> QED
    BY <2>1 DEF Docket!DNext
<1>5. CASE RecordAccepted /\ Proposer[k] \in registered /\ Decide(k, "accepted")
  <2>1. k \in usable /\ pc = "complete"
    BY <1>5 DEF IInv, CompleteIsUsable, RecordAccepted
  <2>2. Docket!Room(Proposer[k])
    BY <2>1, RoomLeft
  <2>3. Docket!Accept(k)
    BY <1>1, <1>2, <1>5, <2>1, <2>2 DEF Docket!Accept, Docket!Give, Decide
  <2> QED
    BY <2>3 DEF Docket!DNext
<1> QED
  BY <1>3, <1>4, <1>5 DEF RecordAccepted, RecordError

LEMMA PutResultRefines ==
  ASSUME IInv, Answering, PutResult
  PROVE  [Docket!DNext]_(Docket!dvars)
<1> USE DEF requests, record
<1>1. /\ row \in Row /\ KeyOf[row] \in usable
      /\ decision[KeyOf[row]] = "accepted" \/ Proposer[KeyOf[row]] \notin registered
  BY DEF IInv, RowsFollowTime, Working, CompleteIsUsable, Answering, PutResult
<1> PICK k \in Key : k = KeyOf[row]
  BY <1>1, ProposalAssumption
<1>2. /\ results' \in {results, results \cup {k}}
      /\ UNCHANGED <<registered, day, decision, decidedOn, usable>>
  BY DEF PutResult
<1>3. CASE results' = results
  BY <1>2, <1>3 DEF Docket!dvars
<1>4. CASE results' = results \cup {k}
  <2>1. Docket!Report(k)
    BY <1>1, <1>2, <1>4 DEF Docket!Report
  <2> QED
    BY <2>1 DEF Docket!DNext
<1> QED
  BY <1>2, <1>3, <1>4

LEMMA RefinesStep ==
  ASSUME IInv, Answering, [Next]_vars
  PROVE  [Docket!DNext]_(Docket!dvars)
<1> USE DEF requests, topics, record, tick
<1>1. CASE UNCHANGED seen
  BY <1>1 DEF seen, Docket!dvars
<1>2. CASE \/ \E e \in Row : WriteTopicRequest(e) \/ ProposeTopicText(e) \/ CleanUpRequests(e)
           \/ \E a \in Agent : ReplaceTags(a)
           \/ UNCHANGED vars
  BY <1>1, <1>2 DEF WriteTopicRequest, ProposeTopicText, WriteRequest, CleanUpRequests,
                    ReplaceTags, vars, seen
<1>3. CASE \/ Tick \/ EndTick \/ PutManifest \/ Interrupt
           \/ \E e \in Row : PassOver(e) \/ Fail(e)
  BY <1>1, <1>3 DEF Tick, EndTick, PutManifest, Interrupt, PassOver, Fail, GiveUp, seen
<1>4. ASSUME NEW a \in Agent, DeleteAgent(a) PROVE Docket!DNext
  <2>1. Docket!Dismiss(a)
    BY <1>4 DEF DeleteAgent, Docket!Dismiss
  <2> QED
    BY <2>1 DEF Docket!DNext
<1>5. CASE NewDay
  <2>1. Docket!Dawn
    BY <1>5 DEF NewDay, Docket!Dawn
  <2> QED
    BY <2>1 DEF Docket!DNext
<1> QED
  BY <1>2, <1>3, <1>4, <1>5, ConsiderRefines, PutStateRefines, RecordRefines, PutResultRefines
     DEF Next, Process

(* Whatever ticks are cut off and start over, each proposal gets one       *)
(* verdict that stands, an accepted one with its topic open and within the *)
(* limit of the day, for any agents, keys, limit and number of failures.   *)
THEOREM Refinement == Spec => ImplementsDocket
<1>1. Init => Docket!DInit /\ Answering
  BY DEF Init, Docket!DInit, Answering
<1>2. IInv /\ Answering /\ [Next]_vars => Answering'
  BY AnsweringKept
<1>3. IInv /\ Answering /\ [Next]_vars => [Docket!DNext]_(Docket!dvars)
  BY RefinesStep
<1> QED
  BY <1>1, <1>2, <1>3, Invariance, PTL DEF Spec, ImplementsDocket, Docket!DSpec
=============================================================================
