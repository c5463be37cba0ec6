--------------------------- MODULE ArtifactsProofs ---------------------------
(***************************************************************************)
(* What holds of Artifacts for any agents, runs, items and requests, any   *)
(* limit and any number of days.  The inductive invariant has three parts  *)
(* that hold beside each other: numbering, reviewing and the limit.        *)
(***************************************************************************)
EXTENDS Artifacts, FiniteSetTheorems, TLAPS

(* A request holds the lock on its run from the allocation of its version  *)
(* to the end of its transaction, and what it allocated is not stored.     *)
Numbering ==
  /\ VersionsAreDense
  /\ LocksEndWithTransactions
  /\ \A r \in Run : Latest(r) \in Nat
  /\ \A s \in Submission :
       /\ pc[s] = "allocated" => runLock[Place(s)] = s
       /\ pc[s] \in {"new", "checked", "allocated"} => version[s] = 0

(* What the check of a request saw is still true unless a claim came since.*)
Reviewing ==
  /\ ReviewedByAnother
  /\ \A s \in Submission :
       /\ pc[s] = "picked" => reviewer[s] \in Agent \ {Author(s)}
       /\ Underway(s) /\ OnReviewLease(Author(s), Place(s)) => s \in claimedSince

Guarded(a, d) == {s \in AcceptedOf(a) \ unguarded : begunOn[s] = d}

(* An artifact admitted under guard is the only one of its author that is, *)
(* and the limit that admitted it still has room for it.                   *)
Limiting ==
  /\ LimitHeldWhenGuarded
  /\ \A s \in Submission :
       /\ pc[s] \in {"new", "checked", "allocated"} => task[s] = "none"
       /\ task[s] # "done" => outcome[s] = "none"
       /\ task[s] \in {"begun", "admitted"} => begunOn[s] \in 1..LastDay
       /\ task[s] = "admitted" /\ s \notin unguarded =>
            Cardinality(Guarded(Author(s), begunOn[s])) < Limit
  /\ \A s, t \in Submission :
       /\ s # t /\ Author(s) = Author(t)
       /\ task[s] = "admitted" /\ task[t] = "admitted"
       => s \in unguarded \/ t \in unguarded

IInv == TypeOK /\ Numbering /\ Reviewing /\ Limiting

USE DEF world, items, requests, taskgen

(* Types.                                                                  *)
LEMMA SayingTypes ==
  ASSUME TypeOK, NEW s \in Submission
  PROVE  Author(s) \in Agent /\ Form(s) \in Forms /\ Place(s) \in Run
BY ArtifactAssumption DEF TypeOK, Author, Form, Place

(* No step changes what the requests say.                                  *)
LEMMA RequestsStay == [Next]_vars => request' = request
BY DEF Next, vars, Submit, Generate, SubmitCheck, SubmitAllocate, SubmitCommit, SubmitFail,
       ReviewPick, ReviewInsert, TaskBegin, TaskCount, TaskCommit, TaskFail, Claim, Complete,
       ReleaseLease, SetAgentStatus, EnsurePublisherAgentsOffered, NewDay

LEMMA InitTypes == Init => TypeOK
BY ArtifactAssumption DEF Init, TypeOK, Work

LEMMA SubmissionTypes ==
  ASSUME IInv, NEW s \in Submission, SubmitCheck(s) \/ Submit(s) \/ SubmitFail(s)
  PROVE  TypeOK'
<1>1. TypeOK /\ Latest(Place(s)) + 1 \in Nat /\ Place(s) \in Run
  BY SayingTypes DEF IInv, Numbering
<1>2. CASE SubmitCheck(s)
  BY <1>1, <1>2 DEF SubmitCheck, TypeOK
<1>3. CASE SubmitAllocate(s)
  BY <1>1, <1>3 DEF SubmitAllocate, TypeOK
<1>4. CASE SubmitCommit(s)
  BY <1>1, <1>4 DEF SubmitCommit, EndTransaction, TypeOK
<1>5. CASE ReviewPick(s)
  BY <1>1, <1>5 DEF ReviewPick, Candidates, TypeOK
<1>6. CASE ReviewInsert(s)
  <2>1. reviewer[s] \in Agent
    BY <1>6 DEF ReviewInsert, IInv, Reviewing
  <2> QED
    BY <1>1, <1>6, <2>1 DEF ReviewInsert, TypeOK, Work
<1>7. CASE SubmitFail(s)
  BY <1>1, <1>7 DEF SubmitFail, EndTransaction, TypeOK
<1> QED
  BY <1>2, <1>3, <1>4, <1>5, <1>6, <1>7 DEF Submit

LEMMA TaskTypes ==
  ASSUME TypeOK, NEW s \in Submission, Generate(s) \/ TaskFail(s)
  PROVE  TypeOK'
<1>1. CASE TaskBegin(s)
  <2>1. day \in 0..LastDay
    BY ArtifactAssumption DEF TypeOK
  <2>2. /\ task' \in {[task EXCEPT ![s] = "begun"], [task EXCEPT ![s] = "done"]}
        /\ begunOn' \in {begunOn, [begunOn EXCEPT ![s] = day]}
        /\ UNCHANGED <<world, items, requests, outcome, unguarded, claimedSince>>
    BY <1>1 DEF TaskBegin, SetTask
  <2> QED
    BY <2>1, <2>2 DEF TypeOK
<1>2. CASE TaskCount(s)
  BY <1>2 DEF TaskCount, SetTask, TypeOK
<1>3. CASE TaskCommit(s)
  BY <1>3 DEF TaskCommit, SetTask, TypeOK
<1>4. CASE TaskFail(s)
  BY <1>4, ArtifactAssumption DEF TaskFail, SetTask, TypeOK
<1> QED
  BY <1>1, <1>2, <1>3, <1>4 DEF Generate

LEMMA TypesKept == IInv /\ [Next]_vars => TypeOK'
<1> SUFFICES ASSUME IInv, [Next]_vars PROVE TypeOK'
  OBVIOUS
<1> TypeOK
  BY DEF IInv
<1>1. CASE \E s \in Submission : SubmitCheck(s) \/ Submit(s) \/ SubmitFail(s)
  BY <1>1, SubmissionTypes
<1>2. CASE \E s \in Submission : Generate(s) \/ TaskFail(s)
  BY <1>2, TaskTypes
<1>3. ASSUME NEW w \in Work, NEW a \in Agent, Claim(w, a) PROVE TypeOK'
  BY <1>3 DEF Claim, TypeOK
<1>4. ASSUME NEW w \in Work, Complete(w) PROVE TypeOK'
  BY <1>4 DEF Complete, TypeOK
<1>5. ASSUME NEW w \in Work, ReleaseLease(w) PROVE TypeOK'
  BY <1>5 DEF ReleaseLease, TypeOK
<1>6. ASSUME NEW a \in Agent, SetAgentStatus(a) PROVE TypeOK'
  BY <1>6 DEF SetAgentStatus, TypeOK
<1>7. CASE EnsurePublisherAgentsOffered
  BY <1>7 DEF EnsurePublisherAgentsOffered, TypeOK
<1>8. CASE NewDay
  BY <1>8, ArtifactAssumption DEF NewDay, TypeOK
<1>9. CASE UNCHANGED vars
  BY <1>9 DEF vars, TypeOK
<1> QED
  BY <1>1, <1>2, <1>3, <1>4, <1>5, <1>6, <1>7, <1>8, <1>9 DEF Next

----------------------------------------------------------------------------
(* Numbering.                                                              *)

LEMMA MaxOfVersions ==
  ASSUME NEW n \in Nat
  PROVE  Max((1..n) \cup {0}) = n
<1> DEFINE S == (1..n) \cup {0}
<1>1. n \in S /\ \A y \in S : n >= y
  OBVIOUS
<1>2. \A x \in S : (\A y \in S : x >= y) => x = n
  BY <1>1
<1>3. (CHOOSE x \in S : \A y \in S : x >= y) = n
  BY <1>1, <1>2
<1> QED
  BY <1>3 DEF Max

LEMMA InitNumbering == Init => Numbering
<1> SUFFICES ASSUME Init PROVE Numbering
  OBVIOUS
<1>1. ASSUME NEW r \in Run PROVE Versions(r) = 1..0 /\ Latest(r) = 0
  <2>1. Versions(r) = 1..0
    BY DEF Init, Versions, Stored
  <2> QED
    BY <2>1, MaxOfVersions DEF Latest
<1>2. VersionsAreDense
  BY <1>1 DEF Init, VersionsAreDense
<1> QED
  BY <1>1, <1>2 DEF Init, Numbering, LocksEndWithTransactions

(* What is stored depends on versions and requests alone.                  *)
LEMMA StoredKept ==
  ASSUME UNCHANGED <<version, request>>
  PROVE  /\ \A w : Place(w)' = Place(w)
         /\ \A r \in Run : Versions(r)' = Versions(r) /\ Latest(r)' = Latest(r)
<1>1. \A w : Place(w)' = Place(w)
  BY DEF Place
<1>2. ASSUME NEW r \in Run PROVE Versions(r)' = Versions(r)
  BY <1>1 DEF Versions, Stored
<1> QED
  BY <1>1, <1>2 DEF Latest

(* A commit stores the next version of its run.                            *)
LEMMA CommitStores ==
  ASSUME IInv, NEW s \in Submission, pc[s] = "allocated", request' = request,
         NEW p \in Run, p = Place(s),
         version' = [version EXCEPT ![s] = number[s]]
  PROVE  /\ \A w : Place(w)' = Place(w)
         /\ Versions(p)' = 1..number[s]
         /\ Latest(p)' = number[s]
         /\ \A r \in Run \ {p} : Versions(r)' = Versions(r) /\ Latest(r)' = Latest(r)
         /\ number[s] \in Nat \ {0}
         /\ \A t \in Submission : Place(t) = p => version[t] < number[s]
<1>1. TypeOK /\ Latest(p) \in Nat /\ version[s] = 0
      /\ number[s] = Latest(p) + 1 /\ Versions(p) = 1..Latest(p)
  BY DEF IInv, Numbering, VersionsAreDense
<1>2. \A w : Place(w)' = Place(w)
  BY DEF Place
<1>3. \A t \in Submission : version'[t] = IF t = s THEN number[s] ELSE version[t]
  BY <1>1 DEF TypeOK
<1>4. number[s] # 0 /\ number[s] \in Nat
  BY <1>1
<1>5. Stored(p)' = Stored(p) \cup {s}
  BY <1>2, <1>3, <1>4 DEF Stored
<1>6. s \notin Stored(p)
  BY <1>1 DEF Stored
<1>7. Versions(p)' = Versions(p) \cup {number[s]}
  <2>1. \A t \in Stored(p) : t \in Submission /\ t # s
    BY <1>6 DEF Stored
  <2> QED
    BY <1>3, <1>5, <2>1 DEF Versions
<1>8. Versions(p)' = 1..number[s]
  BY <1>1, <1>7
<1>9. Latest(p)' = number[s]
  <2>1. Latest(p)' = Max(Versions(p)' \cup {0})
    BY DEF Latest
  <2>2. Max((1..number[s]) \cup {0}) = number[s]
    BY <1>4, MaxOfVersions
  <2> QED
    BY <1>8, <2>1, <2>2
<1>10. ASSUME NEW r \in Run \ {p}
       PROVE  Versions(r)' = Versions(r) /\ Latest(r)' = Latest(r)
  <2>1. Stored(r)' = Stored(r) /\ s \notin Stored(r)
    BY <1>2, <1>3 DEF Stored
  <2>2. \A t \in Stored(r) : version'[t] = version[t]
    BY <1>3, <2>1 DEF Stored
  <2>3. Versions(r)' = Versions(r)
    BY <2>1, <2>2 DEF Versions
  <2> QED
    BY <2>3 DEF Latest
<1>11. ASSUME NEW t \in Submission, Place(t) = p PROVE version[t] < number[s]
  <2>1. CASE version[t] = 0
    BY <1>4, <2>1
  <2>2. CASE version[t] # 0
    <3>1. version[t] \in Versions(p)
      BY <1>11, <2>2 DEF Versions, Stored
    <3> QED
      BY <1>1, <3>1
  <2> QED
    BY <2>1, <2>2
<1> QED
  BY <1>2, <1>4, <1>8, <1>9, <1>10, <1>11

LEMMA CommitKeepsNumbering ==
  ASSUME IInv, TypeOK', NEW s \in Submission, pc[s] = "allocated", request' = request,
         version' = [version EXCEPT ![s] = number[s]], EndTransaction(s),
         \A t \in Submission \ {s} : pc'[t] = pc[t],
         pc'[s] \in {"stored", "done"}
  PROVE  Numbering'
<1> TypeOK /\ Numbering /\ VersionsAreDense
  BY DEF IInv, Numbering
<1> PICK p \in Run : p = Place(s)
  BY SayingTypes
<1>1. /\ \A w : Place(w)' = Place(w)
      /\ Versions(p)' = 1..number[s]
      /\ Latest(p)' = number[s]
      /\ \A r \in Run \ {p} : Versions(r)' = Versions(r) /\ Latest(r)' = Latest(r)
      /\ number[s] \in Nat \ {0}
      /\ \A t \in Submission : Place(t) = p => version[t] < number[s]
  BY CommitStores
<1>2. \A t \in Submission : Place(t) \in Run
  BY SayingTypes
<1>3. \A t \in Submission : /\ version'[t] = IF t = s THEN number[s] ELSE version[t]
                            /\ number'[t] = IF t = s THEN 0 ELSE number[t]
  BY DEF EndTransaction, TypeOK
<1>4. /\ runLock[p] = s
      /\ \A r \in Run : runLock'[r] = IF runLock[r] = s THEN NoSubmission ELSE runLock[r]
  BY DEF EndTransaction, Numbering
<1>5. \A t \in Submission \ {s} : pc[t] = "allocated" => Place(t) # p /\ runLock[Place(t)] = t
  BY <1>4 DEF Numbering
<1>6. \A r \in Run : Versions(r)' = 1..Latest(r)' /\ Latest(r)' \in Nat
  BY <1>1 DEF Numbering, VersionsAreDense
<1>7. ASSUME NEW t \in Submission, NEW u \in Submission,
             t # u, version'[t] # 0, Place(t)' = Place(u)'
      PROVE  version'[t] # version'[u]
  <2>1. Place(t) = Place(u)
    BY <1>1, <1>7
  <2>2. \A v \in Submission : Place(v) = p => version[v] # number[s]
    BY <1>1 DEF TypeOK
  <2>3. CASE t = s \/ u = s
    BY <1>3, <1>7, <2>1, <2>2, <2>3
  <2>4. CASE t # s /\ u # s
    BY <1>3, <1>7, <2>1, <2>4 DEF VersionsAreDense
  <2> QED
    BY <2>3, <2>4
<1>8. ASSUME NEW t \in Submission, NEW r \in Run, pc'[t] = "allocated", Place(t)' = r
      PROVE  number'[t] = Latest(r)' + 1
  <2>1. t # s /\ pc[t] = "allocated" /\ Place(t) = r /\ r # p
    BY <1>1, <1>5, <1>8
  <2> QED
    BY <1>1, <1>3, <2>1 DEF VersionsAreDense
<1>9. VersionsAreDense'
  BY <1>6, <1>7, <1>8 DEF VersionsAreDense
<1>10. LocksEndWithTransactions'
  BY <1>4, ArtifactAssumption DEF Numbering, LocksEndWithTransactions, TypeOK
<1>11. ASSUME NEW t \in Submission
       PROVE  /\ pc'[t] = "allocated" => runLock'[Place(t)'] = t
              /\ pc'[t] \in {"new", "checked", "allocated"} => version'[t] = 0
  BY <1>1, <1>2, <1>3, <1>4, <1>5 DEF Numbering
<1> QED
  BY <1>6, <1>9, <1>10, <1>11 DEF Numbering

(* Steps that neither allocate nor store.                                  *)
LEMMA QuietKeepsNumbering ==
  ASSUME IInv, UNCHANGED <<version, request, number, runLock>>,
         \A t \in Submission :
           /\ pc'[t] = "allocated" <=> pc[t] = "allocated"
           /\ pc'[t] \in {"new", "checked", "allocated"} =>
                pc[t] \in {"new", "checked", "allocated"}
  PROVE  Numbering'
<1> TypeOK /\ Numbering /\ VersionsAreDense /\ LocksEndWithTransactions
  BY DEF IInv, Numbering
<1>1. /\ \A w : Place(w)' = Place(w)
      /\ \A r \in Run : Versions(r)' = Versions(r) /\ Latest(r)' = Latest(r)
  BY StoredKept
<1>2. VersionsAreDense'
  BY <1>1 DEF VersionsAreDense
<1>3. LocksEndWithTransactions'
  BY DEF LocksEndWithTransactions, TypeOK
<1> QED
  BY <1>1, <1>2, <1>3 DEF Numbering

LEMMA AllocateKeepsNumbering ==
  ASSUME IInv, TypeOK', NEW s \in Submission, SubmitAllocate(s)
  PROVE  Numbering'
<1> TypeOK /\ Numbering /\ VersionsAreDense /\ LocksEndWithTransactions
  BY DEF IInv, Numbering
<1> PICK p \in Run : p = Place(s)
  BY SayingTypes
<1>1. /\ \A w : Place(w)' = Place(w)
      /\ \A r \in Run : Versions(r)' = Versions(r) /\ Latest(r)' = Latest(r)
  BY StoredKept DEF SubmitAllocate
<1>2. /\ pc[s] = "checked" /\ runLock[p] = NoSubmission /\ version' = version
      /\ runLock' = [runLock EXCEPT ![p] = s]
      /\ number' = [number EXCEPT ![s] = Latest(p) + 1]
      /\ pc' = [pc EXCEPT ![s] = "allocated"]
  BY DEF SubmitAllocate
<1>3. /\ \A t \in Submission : /\ pc'[t] = IF t = s THEN "allocated" ELSE pc[t]
                               /\ number'[t] = IF t = s THEN Latest(p) + 1 ELSE number[t]
      /\ \A r \in Run : runLock'[r] = IF r = p THEN s ELSE runLock[r]
  BY <1>2 DEF TypeOK
<1>4. VersionsAreDense'
  BY <1>1, <1>2, <1>3 DEF VersionsAreDense
<1>5. LocksEndWithTransactions'
  <2> SUFFICES ASSUME NEW r \in Run, runLock'[r] # NoSubmission
               PROVE  pc'[runLock'[r]] = "allocated"
    BY DEF LocksEndWithTransactions
  <2>1. CASE r = p
    BY <1>3, <2>1
  <2>2. CASE r # p
    BY <1>3, <2>2 DEF LocksEndWithTransactions, TypeOK
  <2> QED
    BY <2>1, <2>2
<1>6. ASSUME NEW t \in Submission, pc'[t] = "allocated"
      PROVE  runLock'[Place(t)'] = t
  <2>1. CASE t = s
    BY <1>1, <1>3, <2>1
  <2>2. CASE t # s
    <3>1. runLock[Place(t)] = t /\ Place(t) \in Run
      BY <1>3, <1>6, <2>2, SayingTypes DEF Numbering
    <3>2. Place(t) # p
      BY <1>2, <3>1, ArtifactAssumption
    <3> QED
      BY <1>1, <1>3, <3>1, <3>2
  <2> QED
    BY <2>1, <2>2
<1>7. \A t \in Submission : pc'[t] \in {"new", "checked", "allocated"} => version'[t] = 0
  BY <1>2, <1>3 DEF Numbering
<1> QED
  BY <1>1, <1>4, <1>5, <1>6, <1>7 DEF Numbering

(* A request that fails without storing gives its lock back, if it had it. *)
LEMMA FailKeepsNumbering ==
  ASSUME IInv, TypeOK', NEW s \in Submission, EndTransaction(s),
         UNCHANGED <<version, request>>, pc' = [pc EXCEPT ![s] = "done"]
  PROVE  Numbering'
<1> TypeOK /\ Numbering /\ VersionsAreDense /\ LocksEndWithTransactions
  BY DEF IInv, Numbering
<1>1. /\ \A w : Place(w)' = Place(w)
      /\ \A r \in Run : Versions(r)' = Versions(r) /\ Latest(r)' = Latest(r)
  BY StoredKept
<1>2. /\ \A t \in Submission : /\ pc'[t] = IF t = s THEN "done" ELSE pc[t]
                               /\ number'[t] = IF t = s THEN 0 ELSE number[t]
      /\ \A r \in Run : runLock'[r] = IF runLock[r] = s THEN NoSubmission ELSE runLock[r]
  BY DEF EndTransaction, TypeOK
<1>3. VersionsAreDense'
  BY <1>1, <1>2 DEF VersionsAreDense
<1>4. LocksEndWithTransactions'
  BY <1>2, ArtifactAssumption DEF LocksEndWithTransactions, TypeOK
<1>5. \A t \in Submission : pc'[t] = "allocated" => runLock'[Place(t)'] = t
  BY <1>1, <1>2, SayingTypes DEF Numbering
<1> QED
  BY <1>1, <1>2, <1>3, <1>4, <1>5 DEF Numbering

LEMMA NumberingKept ==
  ASSUME IInv, TypeOK', [Next]_vars
  PROVE  Numbering'
<1> TypeOK
  BY DEF IInv
<1>1. request' = request
  BY RequestsStay
<1>2. ASSUME NEW s \in Submission, SubmitCheck(s) PROVE Numbering'
  BY <1>1, <1>2, QuietKeepsNumbering DEF SubmitCheck, TypeOK
<1>3. ASSUME NEW s \in Submission, SubmitCommit(s) PROVE Numbering'
  BY <1>1, <1>3, CommitKeepsNumbering DEF SubmitCommit, TypeOK
<1>4. ASSUME NEW s \in Submission, ReviewPick(s) PROVE Numbering'
  BY <1>1, <1>4, QuietKeepsNumbering DEF ReviewPick, TypeOK
<1>5. ASSUME NEW s \in Submission, ReviewInsert(s) PROVE Numbering'
  BY <1>1, <1>5, QuietKeepsNumbering DEF ReviewInsert, TypeOK
<1>6. ASSUME NEW s \in Submission, SubmitFail(s) PROVE Numbering'
  <2>1. CASE version' = version
    BY <1>1, <1>6, <2>1, FailKeepsNumbering DEF SubmitFail
  <2>2. CASE pc[s] = "allocated" /\ version' = [version EXCEPT ![s] = number[s]]
    BY <1>1, <1>6, <2>2, CommitKeepsNumbering DEF SubmitFail, TypeOK
  <2> QED
    BY <1>6, <2>1, <2>2 DEF SubmitFail
<1>7. ASSUME UNCHANGED requests PROVE Numbering'
  BY <1>1, <1>7, QuietKeepsNumbering
<1>8. CASE \E s \in Submission : Generate(s) \/ TaskFail(s)
  BY <1>7, <1>8 DEF Generate, TaskBegin, TaskCount, TaskCommit, TaskFail
<1>9. CASE \/ \E w \in Work : (\E a \in Agent : Claim(w, a)) \/ Complete(w) \/ ReleaseLease(w)
           \/ \E a \in Agent : SetAgentStatus(a)
           \/ EnsurePublisherAgentsOffered
           \/ NewDay
           \/ UNCHANGED vars
  BY <1>7, <1>9 DEF Claim, Complete, ReleaseLease, SetAgentStatus,
                    EnsurePublisherAgentsOffered, NewDay, vars
<1> QED
  BY <1>2, <1>3, <1>4, <1>5, <1>6, <1>8, <1>9, AllocateKeepsNumbering DEF Next, Submit

----------------------------------------------------------------------------
(* Reviewing.                                                              *)

LEMMA InitReviewing == Init => Reviewing
BY ArtifactAssumption DEF Init, Reviewing, ReviewedByAnother, Underway

(* Leases may end and requests may end; no claim, no check.                *)
LEMMA QuietKeepsReviewing ==
  ASSUME IInv, UNCHANGED <<request, offers, reviewer, claimedSince>>,
         \A w \in Work : holder'[w] \in {holder[w], NoAgent},
         \A s \in Submission : pc'[s] = pc[s]
  PROVE  Reviewing'
<1> TypeOK /\ Reviewing
  BY DEF IInv
<1>1. /\ \A s \in Submission : Author(s)' = Author(s) /\ Author(s) \in Agent
      /\ \A w : Place(w)' = Place(w)
  BY SayingTypes DEF Author, Place
<1>2. ReviewedByAnother'
  BY <1>1 DEF Reviewing, ReviewedByAnother
<1>3. ASSUME NEW s \in Submission, Underway(s)', OnReviewLease(Author(s), Place(s))'
      PROVE  s \in claimedSince'
  BY <1>1, <1>3, ArtifactAssumption DEF Reviewing, Underway, OnReviewLease, Holds, Work
<1> QED
  BY <1>1, <1>2, <1>3 DEF Reviewing

(* Steps of one request.                                                   *)
LEMMA SubmissionKeepsReviewing ==
  ASSUME IInv, TypeOK', NEW s \in Submission, SubmitCheck(s) \/ Submit(s) \/ SubmitFail(s)
  PROVE  Reviewing'
<1> TypeOK /\ Reviewing
  BY DEF IInv
<1>1. UNCHANGED <<request, holder>>
  BY DEF SubmitCheck, Submit, SubmitAllocate, SubmitCommit, ReviewPick, ReviewInsert, SubmitFail
<1>2. /\ \A t \in Submission : Author(t)' = Author(t) /\ Author(t) \in Agent
      /\ \A w : Place(w)' = Place(w)
      /\ \A t \in Submission :
           OnReviewLease(Author(t), Place(t))' <=> OnReviewLease(Author(t), Place(t))
  BY <1>1, SayingTypes DEF Author, Place, OnReviewLease, Holds
<1>3. \A t \in Submission \ {s} : /\ pc'[t] = pc[t] /\ reviewer'[t] = reviewer[t]
                                  /\ t \in claimedSince' <=> t \in claimedSince
  BY DEF SubmitCheck, Submit, SubmitAllocate, SubmitCommit, ReviewPick, ReviewInsert,
         SubmitFail, EndTransaction, TypeOK
<1>4. ReviewedByAnother'
  <2>1. CASE offers' = offers
    BY <1>2, <2>1 DEF Reviewing, ReviewedByAnother
  <2>2. CASE ReviewInsert(s)
    <3>1. offers' = offers \cup {<<s, reviewer[s]>>} /\ reviewer[s] # Author(s)
      BY <2>2 DEF ReviewInsert, Reviewing
    <3> QED
      BY <1>2, <3>1 DEF Reviewing, ReviewedByAnother
  <2> QED
    BY <2>1, <2>2 DEF SubmitCheck, Submit, SubmitAllocate, SubmitCommit, ReviewPick, SubmitFail
<1>5. ASSUME pc'[s] = "picked" PROVE reviewer'[s] \in Agent \ {Author(s)'}
  <2>1. CASE ReviewPick(s)
    BY <1>2, <1>5, <2>1 DEF ReviewPick, Candidates, TypeOK
  <2> QED
    BY <1>5, <2>1 DEF SubmitCheck, Submit, SubmitAllocate, SubmitCommit, ReviewInsert,
                      SubmitFail, TypeOK
<1>6. ASSUME Underway(s)', OnReviewLease(Author(s), Place(s))
      PROVE  s \in claimedSince'
  <2>1. CASE SubmitAllocate(s)
    BY <1>6, <2>1 DEF SubmitAllocate, Reviewing, Underway
  <2> QED
    BY <1>6, <2>1 DEF SubmitCheck, Submit, SubmitCommit, ReviewPick, ReviewInsert,
                      SubmitFail, Underway, TypeOK
<1>7. ASSUME NEW t \in Submission \ {s}
      PROVE  /\ pc'[t] = "picked" => reviewer'[t] \in Agent \ {Author(t)'}
             /\ Underway(t)' /\ OnReviewLease(Author(t), Place(t))' => t \in claimedSince'
  BY <1>2, <1>3 DEF Reviewing, Underway
<1> QED
  BY <1>2, <1>4, <1>5, <1>6, <1>7 DEF Reviewing

(* A claim of a review is remembered with the requests it can affect.      *)
LEMMA ClaimKeepsReviewing ==
  ASSUME IInv, NEW w \in Work, NEW a \in Agent, Claim(w, a)
  PROVE  Reviewing'
<1> TypeOK /\ Reviewing
  BY DEF IInv
<1>1. /\ \A s \in Submission : Author(s)' = Author(s) /\ Author(s) \in Agent
      /\ \A v : Place(v)' = Place(v)
      /\ UNCHANGED <<offers, pc, reviewer>>
      /\ \A v \in Work : holder'[v] = IF v = w THEN a ELSE holder[v]
  BY SayingTypes DEF Claim, Author, Place, TypeOK
<1>2. ReviewedByAnother'
  BY <1>1 DEF Reviewing, ReviewedByAnother
<1>3. ASSUME NEW s \in Submission, Underway(s)', OnReviewLease(Author(s), Place(s))'
      PROVE  s \in claimedSince'
  <2>1. PICK v \in Work \cap Submission : Place(v) = Place(s) /\ holder'[v] = Author(s)
    BY <1>1, <1>3 DEF OnReviewLease, Holds
  <2>2. CASE v = w
    BY <1>1, <1>3, <2>1, <2>2 DEF Claim, Underway
  <2>3. CASE v # w
    <3>1. OnReviewLease(Author(s), Place(s)) /\ Underway(s)
      BY <1>1, <1>3, <2>1, <2>3 DEF OnReviewLease, Holds, Underway
    <3> QED
      BY <3>1 DEF Claim, Reviewing
  <2> QED
    BY <2>2, <2>3
<1> QED
  BY <1>1, <1>2, <1>3 DEF Reviewing

LEMMA OffersKeepReviewing ==
  ASSUME IInv, EnsurePublisherAgentsOffered
  PROVE  Reviewing'
<1> TypeOK /\ Reviewing
  BY DEF IInv
<1>1. /\ \A s \in Submission : Author(s)' = Author(s)
      /\ \A v : Place(v)' = Place(v)
      /\ UNCHANGED <<holder, pc, reviewer, claimedSince>>
  BY DEF EnsurePublisherAgentsOffered, Author, Place
<1>2. \A o \in offers' : o \in offers \/ o[1] \notin Submission
  BY DEF EnsurePublisherAgentsOffered, Neglected
<1>3. ReviewedByAnother'
  BY <1>1, <1>2 DEF Reviewing, ReviewedByAnother
<1> QED
  BY <1>1, <1>3 DEF Reviewing, Underway, OnReviewLease, Holds

LEMMA ReviewingKept ==
  ASSUME IInv, TypeOK', [Next]_vars
  PROVE  Reviewing'
<1> TypeOK
  BY DEF IInv
<1>1. ASSUME UNCHANGED <<request, items, pc, reviewer, claimedSince>> PROVE Reviewing'
  BY <1>1, QuietKeepsReviewing
<1>2. CASE \E s \in Submission : Generate(s) \/ TaskFail(s)
  BY <1>1, <1>2 DEF Generate, TaskBegin, TaskCount, TaskCommit, TaskFail
<1>3. CASE (\E a \in Agent : SetAgentStatus(a)) \/ NewDay \/ UNCHANGED vars
  BY <1>1, <1>3 DEF SetAgentStatus, NewDay, vars
<1>4. ASSUME NEW w \in Work, Complete(w) \/ ReleaseLease(w) PROVE Reviewing'
  BY <1>4, QuietKeepsReviewing DEF Complete, ReleaseLease, TypeOK
<1> QED
  BY <1>2, <1>3, <1>4, SubmissionKeepsReviewing, ClaimKeepsReviewing, OffersKeepReviewing
     DEF Next

----------------------------------------------------------------------------
(* The limit.                                                              *)

LEMMA GuardedIsFinite ==
  ASSUME NEW S, NEW T, S \subseteq T, T \subseteq Submission
  PROVE  /\ Cardinality(S) \in Nat /\ Cardinality(T) \in Nat
         /\ Cardinality(S) <= Cardinality(T)
<1>1. IsFiniteSet(T)
  BY ArtifactAssumption, FS_Subset
<1> QED
  BY <1>1, FS_Subset, FS_CardinalityType

LEMMA LimitIsOnGuarded ==
  LimitHeldWhenGuarded <=>
    \A a \in Agent, d \in 1..LastDay : Cardinality(Guarded(a, d)) <= Limit
BY DEF LimitHeldWhenGuarded, Guarded

LEMMA InitLimiting == Init => Limiting
<1> SUFFICES ASSUME Init PROVE Limiting
  OBVIOUS
<1>1. ASSUME NEW a \in Agent, NEW d \in 1..LastDay PROVE Guarded(a, d) = {}
  BY DEF Init, Guarded, AcceptedOf
<1>2. Cardinality({}) <= Limit
  BY FS_EmptySet, ArtifactAssumption
<1>3. LimitHeldWhenGuarded
  BY <1>1, <1>2, LimitIsOnGuarded
<1> QED
  BY <1>3 DEF Init, Limiting

(* No artifact is accepted under guard that was not before.                *)
LEMMA GuardedShrinks ==
  ASSUME TypeOK, request' = request,
         \A s \in Submission : outcome'[s] = "accepted" /\ s \notin unguarded' =>
           outcome[s] = "accepted" /\ s \notin unguarded /\ begunOn'[s] = begunOn[s]
  PROVE  \A a \in Agent, d \in 1..LastDay :
           /\ Cardinality(Guarded(a, d)') <= Cardinality(Guarded(a, d))
           /\ Cardinality(Guarded(a, d)) \in Nat /\ Cardinality(Guarded(a, d)') \in Nat
<1> TAKE a \in Agent, d \in 1..LastDay
<1>1. Guarded(a, d)' \subseteq Guarded(a, d) /\ Guarded(a, d) \subseteq Submission
  BY DEF Guarded, AcceptedOf, Author
<1> QED
  BY <1>1, GuardedIsFinite

(* Steps that accept nothing.                                              *)
LEMMA NothingAcceptedKeepsLimiting ==
  ASSUME IInv, request' = request,
         \A s \in Submission :
           /\ pc'[s] \in {"new", "checked", "allocated"} =>
                pc[s] \in {"new", "checked", "allocated"} /\ task'[s] = task[s]
           /\ task'[s] # "done" => outcome'[s] = "none"
           /\ task'[s] \in {"begun", "admitted"} => begunOn'[s] \in 1..LastDay
           /\ task'[s] = "admitted" =>
                task[s] = "admitted" /\ begunOn'[s] = begunOn[s]
           /\ task'[s] = "admitted" /\ s \notin unguarded' => s \notin unguarded
           /\ outcome'[s] = "accepted" /\ s \notin unguarded' =>
                outcome[s] = "accepted" /\ s \notin unguarded /\ begunOn'[s] = begunOn[s]
  PROVE  Limiting'
<1> TypeOK /\ Limiting
  BY DEF IInv
<1>1. \A s \in Submission : Author(s)' = Author(s) /\ Author(s) \in Agent
  BY SayingTypes DEF Author
<1>2. \A a \in Agent, d \in 1..LastDay :
        /\ Cardinality(Guarded(a, d)') <= Cardinality(Guarded(a, d))
        /\ Cardinality(Guarded(a, d)) \in Nat /\ Cardinality(Guarded(a, d)') \in Nat
  BY GuardedShrinks
<1>3. LimitHeldWhenGuarded'
  <2> SUFFICES ASSUME NEW a \in Agent, NEW d \in 1..LastDay
               PROVE  Cardinality(Guarded(a, d)') <= Limit
    BY DEF LimitHeldWhenGuarded, Guarded
  <2>1. Cardinality(Guarded(a, d)) <= Limit
    BY LimitIsOnGuarded DEF Limiting
  <2> QED
    BY <1>2, <2>1, ArtifactAssumption
<1>4. ASSUME NEW s \in Submission, task'[s] = "admitted", s \notin unguarded'
      PROVE  Cardinality(Guarded(Author(s), begunOn[s])') < Limit
  <2>1. task[s] = "admitted" /\ s \notin unguarded /\ begunOn'[s] = begunOn[s]
    BY <1>4
  <2>2. PICK a \in Agent, d \in 1..LastDay : a = Author(s) /\ d = begunOn[s]
    BY <1>1, <2>1 DEF Limiting
  <2>3. Cardinality(Guarded(a, d)) < Limit
    BY <2>1, <2>2 DEF Limiting
  <2>4. Cardinality(Guarded(a, d)') < Limit
    BY <1>2, <2>3, ArtifactAssumption
  <2>5. Guarded(Author(s), begunOn[s])' = Guarded(a, d)'
    BY <1>1, <2>1, <2>2
  <2> QED
    BY <2>4, <2>5
<1>5. \A s, t \in Submission :
        s # t /\ Author(s)' = Author(t)' /\ task'[s] = "admitted" /\ task'[t] = "admitted"
          => s \in unguarded' \/ t \in unguarded'
  BY <1>1 DEF Limiting
<1> QED
  BY <1>3, <1>4, <1>5 DEF Limiting

(* The quota is read.                                                      *)
LEMMA CountKeepsLimiting ==
  ASSUME IInv, NEW s \in Submission, TaskCount(s)
  PROVE  Limiting'
<1> TypeOK /\ Limiting
  BY DEF IInv
<1>1. CASE outcome' = [outcome EXCEPT ![s] = "rejected"] /\ task' = [task EXCEPT ![s] = "done"]
           /\ unguarded' = unguarded
  BY <1>1, NothingAcceptedKeepsLimiting DEF TaskCount, Limiting, TypeOK
<1>2. CASE /\ UsedToday(Author(s)) < Limit
           /\ task' = [task EXCEPT ![s] = "admitted"]
           /\ unguarded' = IF \/ begunOn[s] # day
                              \/ \E t \in Submission : /\ Author(t) = Author(s)
                                                       /\ task[t] = "admitted"
                           THEN unguarded \cup {s} ELSE unguarded
           /\ outcome' = outcome
  <2>1. /\ task[s] = "begun" /\ outcome[s] = "none"
        /\ begunOn' = begunOn /\ request' = request /\ pc' = pc
        /\ \A t \in Submission : task'[t] = IF t = s THEN "admitted" ELSE task[t]
    BY <1>2 DEF TaskCount, Limiting, TypeOK
  <2>2. \A t \in Submission : Author(t)' = Author(t) /\ Author(t) \in Agent
    BY <2>1, SayingTypes DEF Author
  <2>3. \A a \in Agent, d \in 1..LastDay :
          /\ Cardinality(Guarded(a, d)') <= Cardinality(Guarded(a, d))
          /\ Cardinality(Guarded(a, d)) \in Nat /\ Cardinality(Guarded(a, d)') \in Nat
    BY <1>2, <2>1, GuardedShrinks
  <2>4. LimitHeldWhenGuarded'
    <3> SUFFICES ASSUME NEW a \in Agent, NEW d \in 1..LastDay
                 PROVE  Cardinality(Guarded(a, d)') <= Limit
      BY DEF LimitHeldWhenGuarded, Guarded
    <3>1. Cardinality(Guarded(a, d)) <= Limit
      BY LimitIsOnGuarded DEF Limiting
    <3> QED
      BY <2>3, <3>1, ArtifactAssumption
  <2>5. ASSUME NEW t \in Submission, task'[t] = "admitted", t \notin unguarded'
        PROVE  Cardinality(Guarded(Author(t), begunOn[t])') < Limit
    <3> PICK a \in Agent, d \in 1..LastDay : a = Author(t) /\ d = begunOn[t]
      BY <2>1, <2>2, <2>5 DEF Limiting
    <3>1. Cardinality(Guarded(a, d)) < Limit
      <4>1. CASE t # s
        BY <1>2, <2>1, <2>5, <4>1 DEF Limiting
      <4>2. CASE t = s
        <5>1. d = day
          BY <1>2, <2>5, <4>2
        <5>2. Guarded(a, d) \subseteq {u \in AcceptedOf(a) : begunOn[u] >= day}
          BY <5>1 DEF Guarded
        <5>3. {u \in AcceptedOf(a) : begunOn[u] >= day} \subseteq Submission
          BY DEF AcceptedOf
        <5>4. Cardinality({u \in AcceptedOf(a) : begunOn[u] >= day}) < Limit
          BY <1>2, <4>2 DEF UsedToday
        <5> QED
          BY <5>2, <5>3, <5>4, GuardedIsFinite, ArtifactAssumption
      <4> QED
        BY <4>1, <4>2
    <3>2. Cardinality(Guarded(a, d)') < Limit
      BY <2>3, <3>1, ArtifactAssumption
    <3>3. Guarded(Author(t), begunOn[t])' = Guarded(a, d)'
      BY <2>1, <2>2
    <3> QED
      BY <3>2, <3>3
  <2>6. ASSUME NEW t \in Submission, NEW u \in Submission, t # u, Author(t) = Author(u),
               task'[t] = "admitted", task'[u] = "admitted"
        PROVE  t \in unguarded' \/ u \in unguarded'
    <3>1. CASE t # s /\ u # s
      BY <1>2, <2>1, <2>6, <3>1 DEF Limiting
    <3>2. CASE t = s \/ u = s
      BY <1>2, <2>1, <2>6, <3>2
    <3> QED
      BY <3>1, <3>2
  <2> QED
    BY <1>2, <2>1, <2>2, <2>4, <2>5, <2>6 DEF Limiting
<1> QED
  BY <1>1, <1>2 DEF TaskCount, SetTask

(* An acceptance under guard takes the room that was seen.                 *)
LEMMA AcceptKeepsLimiting ==
  ASSUME IInv, NEW s \in Submission, TaskCommit(s), enabled # {}
  PROVE  Limiting'
<1> TypeOK /\ Limiting
  BY DEF IInv
<1>1. /\ task[s] = "admitted" /\ outcome[s] = "none"
      /\ UNCHANGED <<begunOn, request, pc, unguarded>>
      /\ \A t \in Submission : /\ task'[t] = IF t = s THEN "done" ELSE task[t]
                               /\ outcome'[t] = IF t = s THEN "accepted" ELSE outcome[t]
  BY DEF TaskCommit, SetTask, Limiting, TypeOK
<1>2. \A t \in Submission : Author(t)' = Author(t) /\ Author(t) \in Agent
  BY <1>1, SayingTypes DEF Author
<1>3. ASSUME NEW a \in Agent, NEW d \in 1..LastDay,
             s \in unguarded \/ a # Author(s) \/ d # begunOn[s]
      PROVE  Guarded(a, d)' = Guarded(a, d)
  BY <1>1, <1>2, <1>3 DEF Guarded, AcceptedOf
<1>4. LimitHeldWhenGuarded'
  <2> SUFFICES ASSUME NEW a \in Agent, NEW d \in 1..LastDay
               PROVE  Cardinality(Guarded(a, d)') <= Limit
    BY DEF LimitHeldWhenGuarded, Guarded
  <2>1. CASE s \in unguarded \/ a # Author(s) \/ d # begunOn[s]
    BY <1>3, <2>1, LimitIsOnGuarded DEF Limiting
  <2>2. CASE s \notin unguarded /\ a = Author(s) /\ d = begunOn[s]
    <3>1. Guarded(a, d)' = Guarded(a, d) \cup {s} /\ s \notin Guarded(a, d)
      BY <1>1, <1>2, <2>2 DEF Guarded, AcceptedOf
    <3>2. Cardinality(Guarded(a, d)) < Limit
      BY <1>1, <2>2 DEF Limiting
    <3>3. Guarded(a, d) \subseteq Submission
      BY DEF Guarded, AcceptedOf
    <3>4. IsFiniteSet(Guarded(a, d)) /\ Cardinality(Guarded(a, d)) \in Nat
      BY <3>3, FS_Subset, FS_CardinalityType, ArtifactAssumption
    <3>5. Cardinality(Guarded(a, d) \cup {s}) = Cardinality(Guarded(a, d)) + 1
      BY <3>1, <3>4, FS_AddElement
    <3> QED
      BY <3>1, <3>2, <3>4, <3>5, ArtifactAssumption
  <2> QED
    BY <2>1, <2>2
<1>5. ASSUME NEW t \in Submission, task'[t] = "admitted", t \notin unguarded'
      PROVE  Cardinality(Guarded(Author(t), begunOn[t])') < Limit
  <2> PICK a \in Agent, d \in 1..LastDay : a = Author(t) /\ d = begunOn[t]
    BY <1>1, <1>2, <1>5 DEF Limiting
  <2>1. t # s /\ task[t] = "admitted" /\ t \notin unguarded
    BY <1>1, <1>5
  <2>2. s \in unguarded \/ a # Author(s)
    BY <1>1, <2>1 DEF Limiting
  <2>3. Guarded(Author(t), begunOn[t])' = Guarded(a, d)'
    BY <1>1, <1>2
  <2>4. Cardinality(Guarded(a, d)) < Limit
    BY <2>1 DEF Limiting
  <2> QED
    BY <1>3, <2>2, <2>3, <2>4
<1> QED
  BY <1>1, <1>2, <1>4, <1>5 DEF Limiting

LEMMA LimitingKept ==
  ASSUME IInv, [Next]_vars
  PROVE  Limiting'
<1> TypeOK /\ Limiting
  BY DEF IInv
<1>1. request' = request
  BY RequestsStay
<1>2. ASSUME UNCHANGED taskgen,
             \A s \in Submission : pc'[s] \in {"new", "checked", "allocated"} =>
               pc[s] \in {"new", "checked", "allocated"}
      PROVE  Limiting'
  BY <1>1, <1>2, NothingAcceptedKeepsLimiting DEF Limiting
<1>3. ASSUME NEW s \in Submission,
             SubmitCheck(s) \/ SubmitAllocate(s) \/ ReviewPick(s) \/ ReviewInsert(s) \/ SubmitFail(s)
      PROVE  Limiting'
  BY <1>2, <1>3 DEF SubmitCheck, SubmitAllocate, ReviewPick, ReviewInsert, SubmitFail, TypeOK
<1>4. ASSUME NEW s \in Submission, SubmitCommit(s) PROVE Limiting'
  <2>1. /\ pc[s] = "allocated" /\ outcome[s] = "none"
        /\ UNCHANGED <<outcome, begunOn, unguarded>>
        /\ \A t \in Submission \ {s} : pc'[t] = pc[t] /\ task'[t] = task[t]
        /\ pc'[s] \in {"stored", "done"} /\ task'[s] \in {"started", "none"}
    BY <1>4 DEF SubmitCommit, Limiting, TypeOK
  <2> QED
    BY <1>1, <2>1, NothingAcceptedKeepsLimiting DEF Limiting
<1>5. ASSUME NEW s \in Submission, TaskBegin(s) PROVE Limiting'
  <2>1. /\ task[s] = "started" /\ outcome[s] = "none"
        /\ UNCHANGED <<outcome, pc, unguarded>>
        /\ \A t \in Submission \ {s} : task'[t] = task[t] /\ begunOn'[t] = begunOn[t]
        /\ pc[s] \notin {"new", "checked", "allocated"}
        /\ \/ task'[s] = "begun" /\ begunOn'[s] \in 1..LastDay
           \/ task'[s] = "done"
    BY <1>5 DEF TaskBegin, SetTask, Limiting, TypeOK
  <2> QED
    BY <1>1, <2>1, NothingAcceptedKeepsLimiting DEF Limiting
<1>6. ASSUME NEW s \in Submission, TaskCommit(s), enabled = {} PROVE Limiting'
  <2>1. /\ pc[s] \notin {"new", "checked", "allocated"}
        /\ UNCHANGED <<begunOn, pc, unguarded>>
        /\ \A t \in Submission \ {s} : task'[t] = task[t] /\ outcome'[t] = outcome[t]
        /\ task'[s] = "done" /\ outcome'[s] = "error"
    BY <1>6 DEF TaskCommit, SetTask, Limiting, TypeOK
  <2> QED
    BY <1>1, <2>1, NothingAcceptedKeepsLimiting DEF Limiting
<1>7. ASSUME NEW s \in Submission, TaskFail(s) PROVE Limiting'
  <2>1. /\ pc[s] \notin {"new", "checked", "allocated"} /\ outcome[s] = "none"
        /\ UNCHANGED <<outcome, pc>>
        /\ \A t \in Submission \ {s} : /\ task'[t] = task[t] /\ begunOn'[t] = begunOn[t]
                                       /\ t \in unguarded' <=> t \in unguarded
        /\ task'[s] = "done"
    BY <1>7 DEF TaskFail, SetTask, Limiting, TypeOK
  <2> QED
    BY <1>1, <2>1, NothingAcceptedKeepsLimiting DEF Limiting
<1>8. CASE \/ \E w \in Work : (\E a \in Agent : Claim(w, a)) \/ Complete(w) \/ ReleaseLease(w)
           \/ \E a \in Agent : SetAgentStatus(a)
           \/ EnsurePublisherAgentsOffered
           \/ NewDay
           \/ UNCHANGED vars
  BY <1>2, <1>8 DEF Claim, Complete, ReleaseLease, SetAgentStatus,
                    EnsurePublisherAgentsOffered, NewDay, vars
<1> QED
  BY <1>3, <1>4, <1>5, <1>6, <1>7, <1>8, CountKeepsLimiting, AcceptKeepsLimiting
     DEF Next, Submit, Generate

----------------------------------------------------------------------------
(* The inductive invariant holds in every behaviour: types, numbering,     *)
(* reviewing and the limit together.                                       *)
THEOREM Invariance == Spec => []IInv
<1>1. Init => IInv
  BY InitTypes, InitNumbering, InitReviewing, InitLimiting DEF IInv
<1>2. IInv /\ [Next]_vars => IInv'
  BY TypesKept, NumberingKept, ReviewingKept, LimitingKept DEF IInv
<1> QED
  BY <1>1, <1>2, PTL DEF Spec

(* Every variable keeps its type, for any agents, runs and requests; no    *)
(* row of task generation is ever seen with the outcome "processing".      *)
THEOREM TypeCorrect == Spec => []TypeOK
<1>1. IInv => TypeOK
  BY DEF IInv
<1> QED
  BY <1>1, Invariance, PTL

(* The versions of each run are 1..n, whatever submissions overlap or fail.*)
THEOREM VersionsFollow == Spec => []VersionsAreDense
<1>1. IInv => VersionsAreDense
  BY DEF IInv, Numbering
<1> QED
  BY <1>1, Invariance, PTL

(* No request that ended, in whatever way, holds the lock on a run.        *)
THEOREM LocksEnd == Spec => []LocksEndWithTransactions
<1>1. IInv => LocksEndWithTransactions
  BY DEF IInv, Numbering
<1> QED
  BY <1>1, Invariance, PTL

(* No agent is ever offered the review of what it wrote.                   *)
THEOREM AuthorsDoNotReview == Spec => []ReviewedByAnother
<1>1. IInv => ReviewedByAnother
  BY DEF IInv, Reviewing
<1> QED
  BY <1>1, Invariance, PTL

(* The daily limit holds but for artifacts admitted without guard.         *)
THEOREM LimitIsHeld == Spec => []LimitHeldWhenGuarded
<1>1. IInv => LimitHeldWhenGuarded
  BY DEF IInv, Limiting
<1> QED
  BY <1>1, Invariance, PTL

(* An agent that holds a review gets an artifact in only if its claim      *)
(* overtook a request that was under way.                                  *)
THEOREM OverridesRace == Spec => OverridesAreRaces
<1>1. ASSUME IInv, [Next]_vars, NEW s \in Submission,
             version'[s] # version[s], OnReviewLease(Author(s), Place(s))
      PROVE  s \in claimedSince
  <2>1. TypeOK /\ Reviewing
    BY <1>1 DEF IInv
  <2>2. PICK t \in Submission : /\ pc[t] = "allocated"
                                /\ version' = [version EXCEPT ![t] = number[t]]
    BY <1>1 DEF Next, vars, Submit, Generate, SubmitCheck, SubmitAllocate, SubmitCommit,
         SubmitFail, ReviewPick, ReviewInsert, TaskBegin, TaskCount, TaskCommit, TaskFail,
         Claim, Complete, ReleaseLease, SetAgentStatus, EnsurePublisherAgentsOffered, NewDay
  <2>3. t = s
    BY <1>1, <2>1, <2>2 DEF TypeOK
  <2> QED
    BY <1>1, <2>1, <2>2, <2>3 DEF Reviewing, Underway
<1>2. IInv /\ [Next]_vars =>
        [\A s \in Submission :
           version'[s] # version[s] /\ OnReviewLease(Author(s), Place(s)) =>
             s \in claimedSince]_vars
  BY <1>1
<1> QED
  BY <1>2, Invariance, PTL DEF Spec, OverridesAreRaces
----------------------------------------------------------------------------
(* Refinement.                                                             *)

HasOffer(w) == \E a \in Agent : <<w, a>> \in offers

(* Leases are of items on the board, and a review is not there before the  *)
(* request that asks for it is done.                                       *)
Boarding ==
  /\ \A w \in Work : holder[w] # NoAgent => HasOffer(w) /\ w \notin finished
  /\ \A s \in Submission : pc[s] # "done" => ~ HasOffer(s) /\ s \notin finished

LEMMA BoardingKept ==
  ASSUME TypeOK, Boarding, [Next]_vars
  PROVE  Boarding'
<1>1. ASSUME UNCHANGED items,
             \A s \in Submission : pc'[s] # "done" => pc[s] # "done"
      PROVE  Boarding'
  BY <1>1 DEF Boarding, HasOffer
<1>2. CASE \E s \in Submission : SubmitCheck(s) \/ SubmitAllocate(s) \/ SubmitCommit(s)
                                 \/ ReviewPick(s) \/ SubmitFail(s)
  BY <1>1, <1>2 DEF SubmitCheck, SubmitAllocate, SubmitCommit, ReviewPick, SubmitFail, TypeOK
<1>3. CASE \E s \in Submission : Generate(s) \/ TaskFail(s)
  BY <1>1, <1>3 DEF Generate, TaskBegin, TaskCount, TaskCommit, TaskFail
<1>4. CASE (\E a \in Agent : SetAgentStatus(a)) \/ NewDay \/ UNCHANGED vars
  BY <1>1, <1>4 DEF SetAgentStatus, NewDay, vars
<1>5. ASSUME NEW s \in Submission, ReviewInsert(s) PROVE Boarding'
  <2>1. /\ UNCHANGED <<holder, finished>> /\ pc' = [pc EXCEPT ![s] = "done"]
        /\ offers' = offers \cup {<<s, reviewer[s]>>}
    BY <1>5 DEF ReviewInsert
  <2> QED
    BY <2>1 DEF Boarding, HasOffer, TypeOK
<1>6. ASSUME NEW w \in Work, NEW a \in Agent, Claim(w, a) PROVE Boarding'
  BY <1>6 DEF Claim, IsOffered, Boarding, HasOffer, TypeOK
<1>7. ASSUME NEW w \in Work, Complete(w) PROVE Boarding'
  BY <1>7, ArtifactAssumption DEF Complete, Boarding, HasOffer, TypeOK
<1>8. ASSUME NEW w \in Work, ReleaseLease(w) PROVE Boarding'
  BY <1>8 DEF ReleaseLease, Boarding, HasOffer, TypeOK
<1>9. CASE EnsurePublisherAgentsOffered
  <2>1. /\ UNCHANGED <<holder, finished, pc>>
        /\ \A w \in Work : HasOffer(w)' <=> HasOffer(w)
    BY <1>9 DEF EnsurePublisherAgentsOffered, Neglected, IsOffered, HasOffer
  <2> QED
    BY <2>1, ArtifactAssumption DEF Boarding, Work
<1> QED
  BY <1>2, <1>3, <1>4, <1>5, <1>6, <1>7, <1>8, <1>9 DEF Next, Submit

LEMMA BoardingHolds == Spec => [](TypeOK /\ Boarding)
<1>1. Init => Boarding
  BY ArtifactAssumption DEF Init, Boarding, HasOffer
<1>2. TypeOK /\ Boarding /\ [Next]_vars => Boarding'
  BY BoardingKept
<1> QED
  BY <1>1, <1>2, TypeCorrect, PTL DEF Spec

(* A step that adds only further offers of an item is hidden.              *)
LEMMA Hidden ==
  ASSUME UNCHANGED <<holder, finished>>, \A w \in Work : HasOffer(w)' <=> HasOffer(w)
  PROVE  UNCHANGED Board!bvars
BY DEF Board!bvars, BoardState, IsOffered, HasOffer

LEMMA RefinesInit == Init => Board!BInit
<1> SUFFICES ASSUME Init PROVE Board!BInit
  OBVIOUS
<1>1. \A w \in Work : BoardState[w] \in {"absent", "offered", "completed"}
  BY DEF Init, BoardState
<1> QED
  BY <1>1 DEF Init, Board!BInit, BoardState

(* The insert of a review is the board's Create.                           *)
LEMMA ReviewRefines ==
  ASSUME TypeOK, TypeOK', Boarding, NEW s \in Submission, ReviewInsert(s)
  PROVE  Board!BNext
<1>1. /\ UNCHANGED <<holder, finished>>
      /\ s \in Work /\ holder[s] = NoAgent /\ s \notin finished /\ ~ HasOffer(s)
      /\ HasOffer(s)' /\ \A w \in Work \ {s} : HasOffer(w)' <=> HasOffer(w)
  BY DEF ReviewInsert, Boarding, HasOffer, Work, TypeOK
<1>2. BoardState[s] = "absent" /\ BoardState' = [BoardState EXCEPT ![s] = "offered"]
  BY <1>1 DEF BoardState, IsOffered, HasOffer
<1>3. Board!Create(s)
  BY <1>1, <1>2 DEF Board!Create
<1> QED
  BY <1>1, <1>3 DEF Board!BNext

LEMMA RefinesStep ==
  ASSUME TypeOK, TypeOK', Boarding, [Next]_vars
  PROVE  [Board!BNext]_(Board!bvars)
<1>1. CASE UNCHANGED items
  BY <1>1, Hidden DEF HasOffer
<1>2. CASE \E s \in Submission : ReviewInsert(s)
  BY <1>2, ReviewRefines
<1>3. ASSUME NEW w \in Work, NEW a \in Agent, Claim(w, a) PROVE Board!BNext
  <2>1. /\ UNCHANGED <<offers, finished>> /\ holder' = [holder EXCEPT ![w] = a]
        /\ IsOffered(w) /\ a # NoAgent
    BY <1>3, ArtifactAssumption DEF Claim
  <2>2. BoardState[w] = "offered" /\ BoardState' = [BoardState EXCEPT ![w] = "claimed"]
    BY <2>1 DEF BoardState, IsOffered, TypeOK
  <2>3. Board!Claim(w, a)
    BY <2>1, <2>2 DEF Board!Claim
  <2> QED
    BY <2>3 DEF Board!BNext
<1>4. ASSUME NEW w \in Work, Complete(w) PROVE Board!BNext
  <2>1. /\ offers' = offers /\ finished' = finished \cup {w}
        /\ holder' = [holder EXCEPT ![w] = NoAgent]
        /\ holder[w] # NoAgent /\ w \notin finished
    BY <1>4, ArtifactAssumption DEF Complete, Boarding, TypeOK
  <2>2. BoardState[w] = "claimed" /\ BoardState' = [BoardState EXCEPT ![w] = "completed"]
    BY <2>1 DEF BoardState, IsOffered, TypeOK
  <2>3. Board!Complete(w)
    BY <2>1, <2>2 DEF Board!Complete
  <2> QED
    BY <2>3 DEF Board!BNext
<1>5. ASSUME NEW w \in Work, ReleaseLease(w) PROVE Board!BNext
  <2>1. /\ UNCHANGED <<offers, finished>> /\ holder' = [holder EXCEPT ![w] = NoAgent]
        /\ holder[w] # NoAgent /\ w \notin finished /\ HasOffer(w)
    BY <1>5 DEF ReleaseLease, Boarding
  <2>2. BoardState[w] = "claimed" /\ BoardState' = [BoardState EXCEPT ![w] = "offered"]
    BY <2>1 DEF BoardState, IsOffered, HasOffer, TypeOK
  <2>3. Board!Moves
    BY DEF Board!Moves, Board!States, BoardState, TypeOK
  <2>4. ASSUME NEW v \in Work \ {w} PROVE Board!Stays(v)
    <3>1. BoardState'[v] = BoardState[v] /\ holder'[v] = holder[v]
      BY <2>1, <2>2 DEF BoardState, TypeOK
    <3> QED
      BY <3>1 DEF Board!Stays
  <2>5. Board!PutBack(w)
    BY <2>1, <2>2 DEF Board!PutBack, BoardState, TypeOK
  <2>6. Board!Release
    BY <2>1, <2>2, <2>3, <2>4, <2>5 DEF Board!Release
  <2> QED
    BY <2>6 DEF Board!BNext
<1>6. CASE EnsurePublisherAgentsOffered
  BY <1>6, Hidden DEF EnsurePublisherAgentsOffered, Neglected, IsOffered, HasOffer
<1>7. CASE \E s \in Submission : SubmitCheck(s) \/ SubmitAllocate(s) \/ SubmitCommit(s)
                                 \/ ReviewPick(s) \/ SubmitFail(s)
  BY <1>1, <1>7 DEF SubmitCheck, SubmitAllocate, SubmitCommit, ReviewPick, SubmitFail
<1>8. CASE \E s \in Submission : Generate(s) \/ TaskFail(s)
  BY <1>1, <1>8 DEF Generate, TaskBegin, TaskCount, TaskCommit, TaskFail
<1>9. CASE (\E a \in Agent : SetAgentStatus(a)) \/ NewDay \/ UNCHANGED vars
  BY <1>1, <1>9 DEF SetAgentStatus, NewDay, vars
<1> QED
  BY <1>2, <1>3, <1>4, <1>5, <1>6, <1>7, <1>8, <1>9 DEF Next, Submit

(* Submissions, reviews and task generation leave the board's promises     *)
(* intact: a review appears once, is granted only from the board, to one   *)
(* agent, and is done for good.                                            *)
THEOREM Refinement == Spec => ImplementsBoard
<1>1. TypeOK /\ TypeOK' /\ Boarding /\ [Next]_vars => [Board!BNext]_(Board!bvars)
  BY RefinesStep
<1> QED
  BY <1>1, RefinesInit, BoardingHolds, PTL DEF Spec, ImplementsBoard, Board!BSpec
=============================================================================
