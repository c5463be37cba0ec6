------------------------- MODULE EventStreamProofs -------------------------
(***************************************************************************)
(* What holds of EventStream for any number of emitters and pages, any     *)
(* buffer and page sizes and any length of the run.                        *)
(***************************************************************************)
EXTENDS EventStream, FiniteSetTheorems, TLAPS

(* A request between allocation and commit holds the run, and its seq is   *)
(* still the next one; after the commit its event is stored.               *)
Allocated(e) ==
  /\ pc[e] = "allocated" => runLock = e /\ events = 1..(seq[e] - 1) /\ seq[e] # 0
  /\ pc[e] \in {"committed", "publishing"} => seq[e] \in events
  /\ toSend[e] # {} => pc[e] = "publishing"

(* Only a polling page has a cursor or polls under way; the cursor is a    *)
(* stored event; a poll asks from a cursor the page has had, and its       *)
(* answer is a stretch without holes that starts there.                    *)
PollsFollowCursor(v) ==
  /\ conn[v] # "polling" => cursor[v] = 0 /\ asked[v] = {} /\ pages[v] = {}
  /\ cursor[v] \in events \cup {0}
  /\ asked[v] \subseteq 0..cursor[v]
  /\ \A page \in pages[v] :
       /\ page \subseteq events
       /\ \E a \in 0..cursor[v], b \in 0..MaxEvents : page = (a + 1)..b

IInv ==
  /\ TypeOK
  /\ SeqsAreDense
  /\ ShownIsStored
  /\ PollsSkipNothing
  /\ \A e \in Emitter : Allocated(e)
  /\ \A v \in Viewer : PollsFollowCursor(v)

(* max(seq) of a log without holes is its length.                          *)
LEMMA LastSeqOfDense ==
  ASSUME NEW n \in Nat, events = 1..n
  PROVE  LastSeq = n
<1>1. n \in events \cup {0} /\ \A m \in events : m <= n
  OBVIOUS
<1>2. ASSUME NEW k \in events \cup {0}, \A m \in events : m <= k
      PROVE  k = n
  BY <1>2
<1> QED
  BY <1>1, <1>2 DEF LastSeq

(* A query for events after a cursor returns a stretch that starts there.  *)
LEMMA PageIsStretch ==
  ASSUME SeqsAreDense, NEW from \in 0..MaxEvents, NEW limit \in Nat
  PROVE  /\ Page(from, limit) \subseteq events
         /\ \E b \in 0..MaxEvents : Page(from, limit) = (from + 1)..b
<1>0. MaxEvents \in Nat
  BY StreamAssumption
<1>1. PICK n \in 0..MaxEvents : events = 1..n
  BY DEF SeqsAreDense
<1>2. ASSUME NEW k \in 1..n, from < k
      PROVE  Cardinality({m \in events : from < m /\ m <= k}) = k - from
  <2>1. {m \in events : from < m /\ m <= k} = (from + 1)..k
    BY <1>0, <1>1, <1>2
  <2>2. Cardinality((from + 1)..k) = k - from
    BY <1>0, <1>2, FS_Interval
  <2> QED
    BY <2>1, <2>2
<1>3. Page(from, limit) = {k \in 1..n : k > from /\ k - from <= limit}
  BY <1>0, <1>1, <1>2 DEF Page
<1>4. \E b \in 0..MaxEvents : Page(from, limit) = (from + 1)..b
  <2>1. CASE from + limit <= n
    <3>1. {k \in 1..n : k > from /\ k - from <= limit} = (from + 1)..(from + limit)
      BY <1>0, <1>1, <2>1
    <3>2. from + limit \in 0..MaxEvents
      BY <1>0, <1>1, <2>1
    <3> QED
      BY <1>3, <3>1, <3>2
  <2>2. CASE from + limit > n
    <3>1. {k \in 1..n : k > from /\ k - from <= limit} = (from + 1)..n
      BY <1>0, <1>1, <2>2
    <3> QED
      BY <1>1, <1>3, <3>1
  <2> QED
    BY <1>0, <1>1, <2>1, <2>2
<1>5. Page(from, limit) \subseteq events
  BY <1>1, <1>3
<1> QED
  BY <1>4, <1>5

LEMMA AnswersAreStored ==
  ASSUME NEW from, NEW limit, NEW page \in Answers(from, limit)
  PROVE  page \subseteq events
<1>1. PICK m \in Page(from, limit) \cup {from} : page = {n \in Page(from, limit) : n <= m}
  BY DEF Answers
<1> QED
  BY <1>1 DEF Page

(* So does its answer when it is cut short.                                *)
LEMMA AnswersAreStretches ==
  ASSUME SeqsAreDense, NEW from \in 0..MaxEvents, NEW limit \in Nat, NEW page \in Answers(from, limit)
  PROVE  /\ page \subseteq events
         /\ \E b \in 0..MaxEvents : page = (from + 1)..b
<1>0. MaxEvents \in Nat
  BY StreamAssumption
<1>1. PICK b \in 0..MaxEvents : Page(from, limit) = (from + 1)..b
  BY PageIsStretch
<1>2. PICK m \in Page(from, limit) \cup {from} : page = {n \in Page(from, limit) : n <= m}
  BY DEF Answers
<1>3. m \in 0..MaxEvents /\ page = (from + 1)..m
  BY <1>0, <1>1, <1>2
<1> QED
  BY <1>3, AnswersAreStored

(* The cursor moves to the end of a page, and never back.                  *)
LEMMA AdvanceToEnd ==
  ASSUME NEW from \in Nat, NEW a \in 0..from, NEW b \in Nat
  PROVE  Advance(from, (a + 1)..b) = IF b > from THEN b ELSE from
<1> DEFINE page == (a + 1)..b
           last == IF b > from THEN b ELSE from
<1>1. last \in page \cup {from} /\ \A m \in page \cup {from} : m <= last
  OBVIOUS
<1>2. ASSUME NEW k \in page \cup {from}, \A m \in page \cup {from} : m <= k
      PROVE  k = last
  BY <1>1, <1>2
<1> QED
  BY <1>1, <1>2 DEF Advance

(* The inductive invariant holds initially.                                *)
LEMMA InvInit == Init => IInv
<1> SUFFICES ASSUME Init PROVE IInv
  OBVIOUS
<1>0. MaxEvents \in Nat
  BY StreamAssumption
<1>1. TypeOK
  BY <1>0 DEF Init, TypeOK
<1>2. SeqsAreDense
  <2>1. events = 1..0 /\ 0 \in 0..MaxEvents
    BY <1>0 DEF Init
  <2> QED
    BY <2>1 DEF SeqsAreDense
<1>3. ShownIsStored /\ PollsSkipNothing
  BY DEF Init, ShownIsStored, PollsSkipNothing
<1>4. \A e \in Emitter : Allocated(e)
  BY DEF Init, Allocated
<1>5. \A v \in Viewer : PollsFollowCursor(v)
  BY DEF Init, PollsFollowCursor
<1> QED
  BY <1>1, <1>2, <1>3, <1>4, <1>5 DEF IInv

(* Closing the channels of V leaves every variable it writes well typed.   *)
LEMMA UnsubscribeType ==
  ASSUME TypeOK, NEW V \in SUBSET Viewer, NEW E \in SUBSET Emitter, Unsubscribe(V, E)
  PROVE  /\ runLock' = runLock
         /\ toSend' \in [Emitter -> SUBSET Viewer]
         /\ pc' \in [Emitter -> {"idle", "allocated", "committed", "publishing"}]
         /\ seq' \in [Emitter -> 0..MaxEvents]
         /\ channel' \in [Viewer -> Seq(Seqs)]
         /\ afterSeq' \in [Viewer -> 0..MaxEvents]
         /\ dropped' \in [Viewer -> SUBSET Seqs]
<1>0. MaxEvents \in Nat
  BY StreamAssumption
<1>1. channel' \in [Viewer -> Seq(Seqs)]
  BY DEF Unsubscribe, TypeOK
<1> QED
  BY <1>0, <1>1 DEF Unsubscribe, TypeOK

(* So does the end of a request.                                           *)
LEMMA FinishType ==
  ASSUME TypeOK, NEW e \in Emitter, Finish(e)
  PROVE  /\ runLock' \in Emitter \cup {NoEmitter}
         /\ pc' \in [Emitter -> {"idle", "allocated", "committed", "publishing"}]
         /\ seq' \in [Emitter -> 0..MaxEvents]
BY StreamAssumption DEF Finish, TypeOK

(* Every step keeps every variable within its type.                        *)
LEMMA TypeStep ==
  ASSUME IInv, [Next]_vars
  PROVE  TypeOK'
<1> USE DEF emitting, streaming, polling
<1>0. /\ TypeOK /\ MaxEvents \in Nat /\ PageLimit \in Nat /\ BackfillLimit \in Nat
      /\ NoEmitter \notin Emitter /\ SeqsAreDense
      /\ \A e \in Emitter : Allocated(e)
  BY StreamAssumption DEF IInv
<1>1. ASSUME NEW e \in Emitter, EmitAllocate(e)
      PROVE  TypeOK'
  <2>1. PICK n \in 0..MaxEvents : events = 1..n
    BY <1>0 DEF SeqsAreDense
  <2>2. LastSeq \in 0..MaxEvents /\ LastSeq + 1 \in 0..MaxEvents
    BY <1>0, <1>1, <2>1, LastSeqOfDense DEF EmitAllocate
  <2> QED
    BY <1>0, <1>1, <2>2 DEF EmitAllocate, TypeOK
<1>2. ASSUME NEW e \in Emitter, EmitCommit(e) \/ EmitFail(e)
      PROVE  TypeOK'
  <2>1. seq[e] \in Seqs
    BY <1>0, <1>2 DEF EmitCommit, EmitFail, Allocated, TypeOK, Seqs
  <2>2. events' \subseteq Seqs
    BY <1>0, <1>2, <2>1 DEF EmitCommit, EmitFail, TypeOK
  <2>3. CASE EmitCommit(e)
    BY <1>0, <2>2, <2>3 DEF EmitCommit, TypeOK
  <2>4. CASE EmitFail(e)
    BY <1>0, <2>2, <2>4, FinishType DEF EmitFail, TypeOK
  <2> QED
    BY <1>2, <2>3, <2>4
<1>3. ASSUME NEW e \in Emitter, PublishStart(e) \/ EmitReply(e)
      PROVE  TypeOK'
  <2>1. CASE PublishStart(e)
    <3>1. Open \in SUBSET Viewer
      BY DEF Open
    <3> QED
      BY <1>0, <2>1, <3>1 DEF PublishStart, TypeOK
  <2>2. CASE EmitReply(e)
    BY <1>0, <2>2, FinishType DEF EmitReply, TypeOK
  <2> QED
    BY <1>3, <2>1, <2>2
<1>4. ASSUME NEW e \in Emitter, PublishSend(e)
      PROVE  TypeOK'
  <2>1. seq[e] \in Seqs
    BY <1>0, <1>4 DEF PublishSend, Allocated, TypeOK
  <2>2. PICK v \in toSend[e] :
          /\ toSend' = [toSend EXCEPT ![e] = @ \ {v}]
          /\ \/ /\ channel' = [channel EXCEPT ![v] = Append(@, seq[e])]
                /\ UNCHANGED dropped
             \/ /\ dropped' = [dropped EXCEPT ![v] = @ \cup {seq[e]}]
                /\ UNCHANGED channel
    BY <1>4 DEF PublishSend
  <2>3. v \in Viewer /\ toSend' \in [Emitter -> SUBSET Viewer]
    BY <1>0, <2>2 DEF TypeOK
  <2>4. channel' \in [Viewer -> Seq(Seqs)]
    <3>1. Append(channel[v], seq[e]) \in Seq(Seqs)
      BY <1>0, <2>1, <2>3 DEF TypeOK
    <3> QED
      BY <1>0, <2>2, <2>3, <3>1 DEF TypeOK
  <2>5. dropped' \in [Viewer -> SUBSET Seqs]
    <3>1. dropped[v] \cup {seq[e]} \in SUBSET Seqs
      BY <1>0, <2>1, <2>3 DEF TypeOK
    <3>2. dropped' = dropped \/ dropped' = [dropped EXCEPT ![v] = dropped[v] \cup {seq[e]}]
      BY <2>2
    <3> QED
      BY <1>0, <2>3, <3>1, <3>2 DEF TypeOK
  <2> QED
    BY <1>0, <1>4, <2>3, <2>4, <2>5 DEF PublishSend, TypeOK
<1>5. ASSUME NEW v \in Viewer, Backfill(v)
      PROVE  TypeOK'
  <2>1. \A page \in Answers(0, BackfillLimit) : page \in SUBSET Seqs
    BY <1>0, AnswersAreStored DEF TypeOK
  <2> QED
    BY <1>0, <1>5, <2>1 DEF Backfill, TypeOK
<1>6. ASSUME NEW v \in Viewer, Subscribe(v)
      PROVE  TypeOK'
  <2>1. toSend' \in [Emitter -> SUBSET Viewer]
    BY <1>0, <1>6 DEF Subscribe, TypeOK
  <2> QED
    BY <1>0, <1>6, <2>1 DEF Subscribe, TypeOK
<1>7. ASSUME NEW v \in Viewer, StreamEvent(v)
      PROVE  TypeOK'
  <2>1. Head(channel[v]) \in Seqs /\ Tail(channel[v]) \in Seq(Seqs)
    BY <1>0, <1>7 DEF StreamEvent, TypeOK
  <2>2. channel' \in [Viewer -> Seq(Seqs)]
    BY <1>0, <1>7, <2>1 DEF StreamEvent, TypeOK
  <2>3. CASE Head(channel[v]) <= afterSeq[v]
    BY <1>0, <1>7, <2>2, <2>3 DEF StreamEvent, TypeOK
  <2>4. CASE ~ (Head(channel[v]) <= afterSeq[v])
    <3>1. /\ afterSeq' = [afterSeq EXCEPT ![v] = Head(channel[v])]
          /\ shown' = [shown EXCEPT ![v] = @ \cup {Head(channel[v])}]
      BY <1>7, <2>4 DEF StreamEvent
    <3>2. afterSeq' \in [Viewer -> 0..MaxEvents]
      BY <1>0, <2>1, <3>1 DEF TypeOK, Seqs
    <3>3. shown' \in [Viewer -> SUBSET Seqs]
      BY <1>0, <2>1, <3>1 DEF TypeOK
    <3> QED
      BY <1>0, <1>7, <2>2, <3>2, <3>3 DEF StreamEvent, TypeOK
  <2> QED
    BY <2>3, <2>4
<1>8. ASSUME NEW v \in Viewer, StreamError(v)
      PROVE  TypeOK'
  <2>1. PICK E \in SUBSET Emitter : Unsubscribe({v}, E)
    BY <1>8 DEF StreamError
  <2>2. conn' \in [Viewer -> {"off", "backfilled", "open", "polling"}]
    BY <1>0, <1>8 DEF StreamError, TypeOK
  <2>3. /\ runLock' = runLock
        /\ toSend' \in [Emitter -> SUBSET Viewer]
        /\ pc' \in [Emitter -> {"idle", "allocated", "committed", "publishing"}]
        /\ seq' \in [Emitter -> 0..MaxEvents]
        /\ channel' \in [Viewer -> Seq(Seqs)]
        /\ afterSeq' \in [Viewer -> 0..MaxEvents]
        /\ dropped' \in [Viewer -> SUBSET Seqs]
    BY <1>0, <2>1, UnsubscribeType
  <2> QED
    BY <1>0, <1>8, <2>2, <2>3 DEF StreamError, TypeOK
<1>9. ASSUME NEW v \in Viewer, Leave(v)
      PROVE  TypeOK'
  <2>1. PICK E \in SUBSET Emitter : Unsubscribe({v}, E)
    BY <1>9 DEF Leave
  <2>2. conn' \in [Viewer -> {"off", "backfilled", "open", "polling"}]
    BY <1>0, <1>9 DEF Leave, TypeOK
  <2>3. /\ shown' \in [Viewer -> SUBSET Seqs]
        /\ cursor' \in [Viewer -> 0..MaxEvents]
        /\ asked' \in [Viewer -> SUBSET (0..MaxEvents)]
        /\ pages' \in [Viewer -> SUBSET SUBSET Seqs]
    BY <1>0, <1>9 DEF Leave, TypeOK
  <2>4. /\ runLock' = runLock
        /\ toSend' \in [Emitter -> SUBSET Viewer]
        /\ pc' \in [Emitter -> {"idle", "allocated", "committed", "publishing"}]
        /\ seq' \in [Emitter -> 0..MaxEvents]
        /\ channel' \in [Viewer -> Seq(Seqs)]
        /\ afterSeq' \in [Viewer -> 0..MaxEvents]
        /\ dropped' \in [Viewer -> SUBSET Seqs]
    BY <1>0, <2>1, UnsubscribeType
  <2> QED
    BY <1>0, <1>9, <2>2, <2>3, <2>4 DEF Leave, TypeOK
<1>10. ASSUME NEW v \in Viewer, PollTick(v)
      PROVE  TypeOK'
  BY <1>0, <1>10 DEF PollTick, TypeOK
<1>11. ASSUME NEW v \in Viewer, PollAnswer(v)
      PROVE  TypeOK'
  <2>1. PICK from \in asked[v] : \E page \in Answers(from, PageLimit) : Answer(v, from, page)
    BY <1>11 DEF PollAnswer
  <2>2. PICK page \in SUBSET Seqs : Answer(v, from, page)
    BY <1>0, <2>1, AnswersAreStored DEF TypeOK
  <2> QED
    BY <1>0, <2>2 DEF Answer, TypeOK
<1>12. ASSUME NEW v \in Viewer, PollShow(v)
      PROVE  TypeOK'
  <2>1. PICK page \in pages[v] :
          /\ pages' = [pages EXCEPT ![v] = @ \ {page}]
          /\ shown' = [shown EXCEPT ![v] = @ \cup page]
          /\ cursor' = [cursor EXCEPT ![v] = Advance(@, page)]
    BY <1>12 DEF PollShow
  <2>2. page \in SUBSET Seqs
    BY <1>0 DEF TypeOK
  <2>3. Advance(cursor[v], page) \in 0..MaxEvents
    <3>1. PICK a \in 0..cursor[v], b \in 0..MaxEvents : page = (a + 1)..b
      BY <1>0, <2>1 DEF IInv, PollsFollowCursor
    <3>2. cursor[v] \in 0..MaxEvents
      BY <1>0 DEF TypeOK
    <3> QED
      BY <1>0, <3>1, <3>2, AdvanceToEnd
  <2>4. cursor' \in [Viewer -> 0..MaxEvents]
    BY <1>0, <2>1, <2>3 DEF TypeOK
  <2>5. shown' \in [Viewer -> SUBSET Seqs]
    BY <1>0, <2>1, <2>2 DEF TypeOK
  <2>6. pages' \in [Viewer -> SUBSET SUBSET Seqs]
    BY <1>0, <2>1 DEF TypeOK
  <2> QED
    BY <1>0, <1>12, <2>4, <2>5, <2>6 DEF PollShow, TypeOK
<1>13. ASSUME NEW v \in Viewer, PollFail(v)
      PROVE  TypeOK'
  <2>1. CASE \E from \in asked[v] :
               asked' = [asked EXCEPT ![v] = @ \ {from}] /\ UNCHANGED pages
    BY <1>0, <1>13, <2>1 DEF PollFail, TypeOK
  <2>2. CASE \E page \in pages[v] :
               pages' = [pages EXCEPT ![v] = @ \ {page}] /\ UNCHANGED asked
    <3>1. pages' \in [Viewer -> SUBSET SUBSET Seqs]
      BY <1>0, <2>2 DEF TypeOK
    <3> QED
      BY <1>0, <1>13, <2>2, <3>1 DEF PollFail, TypeOK
  <2> QED
    BY <1>13, <2>1, <2>2 DEF PollFail
<1>14. CASE Crash
  <2>1. conn' \in [Viewer -> {"off", "backfilled", "open", "polling"}]
    BY <1>0, <1>14 DEF Crash, TypeOK
  <2>2. channel' \in [Viewer -> Seq(Seqs)]
    BY <1>0, <1>14 DEF Crash, TypeOK
  <2> QED
    BY <1>0, <1>14, <2>1, <2>2 DEF Crash, TypeOK
<1>15. CASE UNCHANGED vars
  BY <1>0, <1>15 DEF vars, TypeOK
<1> QED
  BY <1>1, <1>2, <1>3, <1>4, <1>5, <1>6, <1>7, <1>8, <1>9, <1>10, <1>11, <1>12, <1>13, <1>14, <1>15
  DEF Next, Emit

(* The log only grows by its next event, and the requests agree with it:   *)
(* the holder of the run's lock is the one request with a seq allocated.   *)
LEMMA LogStep ==
  ASSUME IInv, [Next]_vars
  PROVE  /\ SeqsAreDense'
         /\ \A e \in Emitter : Allocated(e)'
         /\ \/ events' = events
            \/ \E n \in Nat : events = 1..n /\ events' = 1..(n + 1)
<1> DEFINE Grows == \/ events' = events
                    \/ \E n \in Nat : events = 1..n /\ events' = 1..(n + 1)
           Goal == SeqsAreDense' /\ (\A e \in Emitter : Allocated(e)') /\ Grows
<1> USE DEF emitting, streaming, polling
<1>0. /\ TypeOK /\ MaxEvents \in Nat /\ NoEmitter \notin Emitter /\ SeqsAreDense
      /\ \A e \in Emitter : Allocated(e)
  BY StreamAssumption DEF IInv
<1>1. ASSUME NEW e \in Emitter, EmitAllocate(e)
      PROVE  Goal
  <2>1. PICK n \in 0..MaxEvents : events = 1..n
    BY <1>0 DEF SeqsAreDense
  <2>2. LastSeq = n
    BY <1>0, <2>1, LastSeqOfDense
  <2>3. ASSUME NEW f \in Emitter
        PROVE  Allocated(f)'
    <3>1. Allocated(f) /\ Allocated(e)
      BY <1>0
    <3>2. CASE f = e
      BY <1>0, <1>1, <2>1, <2>2, <3>1, <3>2 DEF EmitAllocate, Allocated, TypeOK
    <3>3. CASE f # e
      BY <1>0, <1>1, <3>1, <3>3 DEF EmitAllocate, Allocated, TypeOK
    <3> QED
      BY <3>2, <3>3
  <2> QED
    BY <1>0, <1>1, <2>3 DEF EmitAllocate, SeqsAreDense
<1>2. ASSUME NEW e \in Emitter, EmitCommit(e) \/ EmitFail(e)
      PROVE  Goal
  <2>1. /\ runLock = e /\ seq[e] \in 1..MaxEvents /\ events = 1..(seq[e] - 1)
        /\ toSend[e] = {} /\ pc[e] = "allocated"
    BY <1>0, <1>2 DEF EmitCommit, EmitFail, Allocated, TypeOK
  <2>2. events' = events \/ events' = 1..seq[e]
    <3>1. events \cup {seq[e]} = 1..seq[e]
      BY <2>1
    <3> QED
      BY <1>2, <3>1 DEF EmitCommit, EmitFail
  <2>3. SeqsAreDense'
    BY <1>0, <2>1, <2>2 DEF SeqsAreDense
  <2>4. Grows
    <3>1. seq[e] - 1 \in Nat /\ seq[e] = (seq[e] - 1) + 1
      BY <2>1
    <3> QED
      BY <2>1, <2>2, <3>1
  <2>5. ASSUME NEW f \in Emitter
        PROVE  Allocated(f)'
    <3>1. Allocated(f) /\ (f # e => pc[f] # "allocated")
      BY <1>0, <2>1 DEF Allocated
    <3>2. CASE f # e
      BY <1>0, <1>2, <2>1, <2>2, <3>1, <3>2 DEF EmitCommit, EmitFail, Finish, Allocated, TypeOK
    <3>3. CASE f = e /\ EmitCommit(e)
      BY <1>0, <2>1, <3>1, <3>3 DEF EmitCommit, Allocated, TypeOK
    <3>4. CASE f = e /\ EmitFail(e)
      BY <1>0, <2>1, <3>1, <3>4 DEF EmitFail, Finish, Allocated, TypeOK
    <3> QED
      BY <1>2, <3>2, <3>3, <3>4
  <2> QED
    BY <2>3, <2>4, <2>5
<1>3. ASSUME NEW e \in Emitter, PublishStart(e) \/ PublishSend(e) \/ EmitReply(e)
      PROVE  Goal
  <2>1. UNCHANGED events
    BY <1>3 DEF PublishStart, PublishSend, EmitReply
  <2>2. ASSUME NEW f \in Emitter
        PROVE  Allocated(f)'
    <3>1. Allocated(f) /\ Allocated(e)
      BY <1>0
    <3>2. CASE PublishStart(e)
      BY <1>0, <3>1, <3>2 DEF PublishStart, Allocated, TypeOK
    <3>3. CASE PublishSend(e)
      BY <1>0, <3>1, <3>3 DEF PublishSend, Allocated, TypeOK
    <3>4. CASE EmitReply(e)
      BY <1>0, <3>1, <3>4 DEF EmitReply, Finish, Allocated, TypeOK
    <3> QED
      BY <1>3, <3>2, <3>3, <3>4
  <2> QED
    BY <1>0, <2>1, <2>2 DEF SeqsAreDense
<1>4. ASSUME NEW v \in Viewer, Subscribe(v)
      PROVE  Goal
  BY <1>0, <1>4 DEF Subscribe, Allocated, SeqsAreDense, TypeOK
<1>5. ASSUME NEW v \in Viewer, StreamError(v) \/ Leave(v)
      PROVE  Goal
  <2>1. UNCHANGED events
    BY <1>5 DEF StreamError, Leave
  <2>2. PICK E \in SUBSET Emitter : Unsubscribe({v}, E)
    BY <1>5 DEF StreamError, Leave
  <2>3. ASSUME NEW f \in Emitter
        PROVE  Allocated(f)'
    <3>1. Allocated(f)
      BY <1>0
    <3>2. CASE f \in E
      BY <1>0, <2>2, <3>1, <3>2 DEF Unsubscribe, Allocated, TypeOK
    <3>3. CASE f \notin E
      BY <1>0, <2>1, <2>2, <3>1, <3>3 DEF Unsubscribe, Allocated, TypeOK
    <3> QED
      BY <3>2, <3>3
  <2> QED
    BY <1>0, <2>1, <2>3 DEF SeqsAreDense
<1>6. CASE Crash
  BY <1>0, <1>6 DEF Crash, Allocated, SeqsAreDense, TypeOK
<1>7. CASE UNCHANGED <<events, emitting, toSend>>
  BY <1>0, <1>7 DEF Allocated, SeqsAreDense
<1>8. ASSUME NEW v \in Viewer,
             \/ Backfill(v) \/ StreamEvent(v) \/ PollTick(v)
             \/ PollAnswer(v) \/ PollShow(v) \/ PollFail(v)
      PROVE  UNCHANGED <<events, emitting, toSend>>
  BY <1>8 DEF Backfill, StreamEvent, PollTick, PollAnswer, Answer, PollShow, PollFail
<1>9. UNCHANGED vars => UNCHANGED <<events, emitting, toSend>>
  BY DEF vars
<1> QED
  BY <1>1, <1>2, <1>3, <1>4, <1>5, <1>6, <1>7, <1>8, <1>9 DEF Next, Emit

(* What streams carry and pages show is stored.                            *)
LEMMA ShownStep ==
  ASSUME IInv, [Next]_vars
  PROVE  ShownIsStored'
<1> USE DEF emitting, streaming, polling
<1>0. /\ TypeOK /\ SeqsAreDense /\ ShownIsStored /\ MaxEvents \in Nat
      /\ PageLimit \in Nat /\ BackfillLimit \in Nat
      /\ \A e \in Emitter : Allocated(e)
      /\ \A v \in Viewer : PollsFollowCursor(v)
  BY StreamAssumption DEF IInv
<1>1. events \subseteq events'
  BY LogStep
<1>2. ASSUME NEW e \in Emitter, PublishSend(e)
      PROVE  ShownIsStored'
  <2>1. PICK v \in toSend[e] :
          \/ channel' = [channel EXCEPT ![v] = Append(@, seq[e])]
          \/ UNCHANGED channel
    BY <1>2 DEF PublishSend
  <2>2. seq[e] \in events /\ v \in Viewer
    BY <1>0, <1>2 DEF PublishSend, Allocated, TypeOK
  <2>3. ASSUME NEW u \in Viewer, NEW i \in 1..Len(channel'[u])
        PROVE  channel'[u][i] \in events
    <3>1. channel[u] \in Seq(Seqs) /\ \A j \in 1..Len(channel[u]) : channel[u][j] \in events
      BY <1>0 DEF TypeOK, ShownIsStored
    <3>2. CASE channel'[u] = channel[u]
      BY <3>1, <3>2
    <3>3. CASE channel'[u] = Append(channel[u], seq[e])
      BY <2>2, <3>1, <3>3
    <3> QED
      BY <1>0, <2>1, <2>2, <3>2, <3>3 DEF TypeOK
  <2> QED
    BY <1>0, <1>2, <2>3 DEF PublishSend, ShownIsStored
<1>3. ASSUME NEW v \in Viewer, Backfill(v)
      PROVE  ShownIsStored'
  <2>1. \A page \in Answers(0, BackfillLimit) : page \subseteq events
    BY AnswersAreStored
  <2> QED
    BY <1>0, <1>3, <2>1 DEF Backfill, ShownIsStored, TypeOK
<1>4. ASSUME NEW v \in Viewer, StreamEvent(v)
      PROVE  ShownIsStored'
  <2>1. channel[v] \in Seq(Seqs) /\ channel[v] # <<>>
    BY <1>0, <1>4 DEF StreamEvent, TypeOK
  <2>2. Head(channel[v]) \in events
    BY <1>0, <2>1 DEF ShownIsStored
  <2>3. \A i \in 1..Len(Tail(channel[v])) : Tail(channel[v])[i] \in events
    BY <1>0, <2>1 DEF ShownIsStored
  <2>4. shown' = shown \/ shown' = [shown EXCEPT ![v] = @ \cup {Head(channel[v])}]
    BY <1>4 DEF StreamEvent
  <2>5. \A u \in Viewer : shown'[u] \subseteq events
    <3>1. \A u \in Viewer : shown[u] \subseteq events
      BY <1>0 DEF ShownIsStored
    <3>2. CASE shown' = shown
      BY <3>1, <3>2
    <3>3. CASE shown' = [shown EXCEPT ![v] = @ \cup {Head(channel[v])}]
      BY <1>0, <2>2, <3>1, <3>3 DEF TypeOK
    <3> QED
      BY <2>4, <3>2, <3>3
  <2>6. \A u \in Viewer : \A i \in 1..Len(channel'[u]) : channel'[u][i] \in events
    <3>1. channel' = [channel EXCEPT ![v] = Tail(@)]
      BY <1>4 DEF StreamEvent
    <3> QED
      BY <1>0, <2>3, <3>1 DEF ShownIsStored, TypeOK
  <2> QED
    BY <1>4, <2>5, <2>6 DEF StreamEvent, ShownIsStored
<1>5. ASSUME NEW v \in Viewer, StreamError(v) \/ Leave(v)
      PROVE  ShownIsStored'
  <2>1. channel' = [u \in Viewer |-> IF u = v THEN <<>> ELSE channel[u]]
    BY <1>5 DEF StreamError, Leave, Unsubscribe
  <2>2. \A u \in Viewer : shown'[u] \subseteq events /\ events' = events
    BY <1>0, <1>5 DEF StreamError, Leave, ShownIsStored, TypeOK
  <2> QED
    BY <1>0, <2>1, <2>2 DEF ShownIsStored
<1>6. ASSUME NEW v \in Viewer, PollShow(v)
      PROVE  ShownIsStored'
  <2>1. PICK page \in pages[v] : shown' = [shown EXCEPT ![v] = @ \cup page]
    BY <1>6 DEF PollShow
  <2>2. page \subseteq events
    BY <1>0 DEF PollsFollowCursor
  <2> QED
    BY <1>0, <1>6, <2>1, <2>2 DEF PollShow, ShownIsStored, TypeOK
<1>7. CASE Crash
  BY <1>0, <1>7 DEF Crash, ShownIsStored
<1>8. CASE UNCHANGED <<channel, shown>>
  BY <1>0, <1>1, <1>8 DEF ShownIsStored
<1>9. ASSUME NEW e \in Emitter,
             EmitAllocate(e) \/ EmitCommit(e) \/ EmitFail(e) \/ PublishStart(e) \/ EmitReply(e)
      PROVE  UNCHANGED <<channel, shown>>
  BY <1>9 DEF EmitAllocate, EmitCommit, EmitFail, PublishStart, EmitReply
<1>10. ASSUME NEW v \in Viewer, Subscribe(v) \/ PollTick(v) \/ PollAnswer(v) \/ PollFail(v)
       PROVE  UNCHANGED <<channel, shown>>
  BY <1>10 DEF Subscribe, PollTick, PollAnswer, Answer, PollFail
<1>11. UNCHANGED vars => UNCHANGED <<channel, shown>>
  BY DEF vars
<1> QED
  BY <1>2, <1>3, <1>4, <1>5, <1>6, <1>7, <1>8, <1>9, <1>10, <1>11 DEF Next, Emit

(* A new event comes after every cursor, so that a page in flight stays a  *)
(* stretch of the log and what was complete stays complete.                *)
LEMMA PollStep ==
  ASSUME IInv, [Next]_vars
  PROVE  /\ PollsSkipNothing'
         /\ \A v \in Viewer : PollsFollowCursor(v)'
<1> DEFINE Goal == PollsSkipNothing' /\ \A v \in Viewer : PollsFollowCursor(v)'
<1> USE DEF emitting, streaming, polling
<1>0. /\ TypeOK /\ SeqsAreDense /\ PollsSkipNothing /\ MaxEvents \in Nat
      /\ PageLimit \in Nat /\ BackfillLimit \in Nat
      /\ \A v \in Viewer : PollsFollowCursor(v)
  BY StreamAssumption DEF IInv
<1>1. events \subseteq events' /\ \A v \in Viewer : \A n \in events' \ events : n > cursor[v]
  <2>1. CASE events' = events
    BY <2>1
  <2>2. CASE \E n \in Nat : events = 1..n /\ events' = 1..(n + 1)
    <3>1. PICK n \in Nat : events = 1..n /\ events' = 1..(n + 1)
      BY <2>2
    <3>2. \A v \in Viewer : cursor[v] \in 0..n
      BY <1>0, <3>1 DEF PollsFollowCursor, TypeOK
    <3> QED
      BY <3>1, <3>2
  <2> QED
    BY <2>1, <2>2, LogStep
<1>2. ASSUME NEW v \in Viewer, Backfill(v)
      PROVE  Goal
  <2>1. cursor[v] = 0 /\ asked[v] = {} /\ pages[v] = {}
    BY <1>0, <1>2 DEF Backfill, PollsFollowCursor
  <2>2. \A n \in events : ~ (n <= 0)
    BY <1>0 DEF SeqsAreDense
  <2>3. \A u \in Viewer : PollsFollowCursor(u)'
    BY <1>0, <1>2, <2>1 DEF Backfill, PollsFollowCursor, TypeOK
  <2> QED
    BY <1>0, <1>2, <2>1, <2>2, <2>3 DEF Backfill, PollsSkipNothing, TypeOK
<1>3. ASSUME NEW v \in Viewer, StreamEvent(v)
      PROVE  Goal
  <2>1. \/ shown' = shown
        \/ shown' = [shown EXCEPT ![v] = @ \cup {Head(channel[v])}]
    BY <1>3 DEF StreamEvent
  <2>2. shown \in [Viewer -> SUBSET Seqs]
    BY <1>0 DEF TypeOK
  <2>3. \A u \in Viewer : shown[u] \subseteq shown'[u]
    BY <2>1, <2>2
  <2> QED
    BY <1>0, <1>3, <2>3 DEF StreamEvent, PollsSkipNothing, PollsFollowCursor
<1>4. ASSUME NEW v \in Viewer, StreamError(v) \/ Subscribe(v)
      PROVE  Goal
  BY <1>0, <1>4 DEF StreamError, Subscribe, PollsSkipNothing, PollsFollowCursor, TypeOK
<1>5. ASSUME NEW v \in Viewer, Leave(v)
      PROVE  Goal
  <2>1. \A n \in events : ~ (n <= 0)
    BY <1>0 DEF SeqsAreDense
  <2>2. PollsSkipNothing'
    BY <1>0, <1>5, <2>1 DEF Leave, PollsSkipNothing, TypeOK
  <2> QED
    BY <1>0, <1>5, <2>2 DEF Leave, PollsFollowCursor, TypeOK
<1>6. ASSUME NEW v \in Viewer, PollTick(v)
      PROVE  Goal
  <2>1. cursor[v] \in 0..cursor[v]
    BY <1>0 DEF TypeOK
  <2> QED
    BY <1>0, <1>6, <2>1 DEF PollTick, PollsSkipNothing, PollsFollowCursor, TypeOK
<1>7. ASSUME NEW v \in Viewer, PollAnswer(v)
      PROVE  Goal
  <2>0. PICK from \in asked[v] : \E page \in Answers(from, PageLimit) : Answer(v, from, page)
    BY <1>7 DEF PollAnswer
  <2>1. PICK page \in Answers(from, PageLimit) : Answer(v, from, page)
    BY <2>0
  <2>2. from \in 0..cursor[v] /\ from \in 0..MaxEvents /\ conn[v] = "polling"
    BY <1>0 DEF PollsFollowCursor, TypeOK
  <2>3. /\ page \subseteq events
        /\ \E b \in 0..MaxEvents : page = (from + 1)..b
    BY <1>0, <2>2, AnswersAreStretches
  <2>4. ASSUME NEW u \in Viewer
        PROVE  PollsFollowCursor(u)'
    <3>1. PollsFollowCursor(u)
      BY <1>0
    <3>2. CASE u = v
      <4>1. pages'[v] = pages[v] \cup {page} /\ asked'[v] \subseteq asked[v]
        BY <1>0, <2>1 DEF Answer, TypeOK
      <4>2. UNCHANGED <<events, cursor, conn>>
        BY <2>1 DEF Answer
      <4> QED
        BY <2>2, <2>3, <3>1, <3>2, <4>1, <4>2 DEF PollsFollowCursor
    <3>3. CASE u # v
      BY <1>0, <2>1, <3>1, <3>3 DEF Answer, PollsFollowCursor, TypeOK
    <3> QED
      BY <3>2, <3>3
  <2> QED
    BY <1>0, <2>1, <2>4 DEF Answer, PollsSkipNothing
<1>8. ASSUME NEW v \in Viewer, PollShow(v)
      PROVE  Goal
  <2>1. PICK page \in pages[v] :
          /\ pages' = [pages EXCEPT ![v] = @ \ {page}]
          /\ shown' = [shown EXCEPT ![v] = @ \cup page]
          /\ cursor' = [cursor EXCEPT ![v] = Advance(@, page)]
    BY <1>8 DEF PollShow
  <2>2. UNCHANGED <<events, conn, asked>>
    BY <1>8 DEF PollShow
  <2>3. PICK a \in 0..cursor[v], b \in 0..MaxEvents : page = (a + 1)..b /\ page \subseteq events
    BY <1>0 DEF PollsFollowCursor
  <2>4. cursor[v] \in 0..MaxEvents /\ events \subseteq 1..MaxEvents
    BY <1>0 DEF TypeOK, Seqs
  <2>5. cursor'[v] = IF b > cursor[v] THEN b ELSE cursor[v]
    BY <1>0, <2>1, <2>3, <2>4, AdvanceToEnd DEF TypeOK
  <2>6. cursor'[v] \in events \cup {0} /\ cursor'[v] >= cursor[v]
    BY <1>0, <2>3, <2>4, <2>5 DEF PollsFollowCursor
  <2>7. \A n \in events : n <= cursor'[v] => n \in shown'[v]
    <3>1. shown'[v] = shown[v] \cup page
      BY <1>0, <2>1 DEF TypeOK
    <3> QED
      BY <1>0, <2>3, <2>4, <2>5, <3>1 DEF PollsSkipNothing
  <2>8. PollsSkipNothing'
    BY <1>0, <2>1, <2>2, <2>7 DEF PollsSkipNothing, TypeOK
  <2>9. ASSUME NEW u \in Viewer
        PROVE  PollsFollowCursor(u)'
    <3>1. PollsFollowCursor(u)
      BY <1>0
    <3>2. CASE u = v
      <4>1. pages'[v] \subseteq pages[v] /\ page \in pages[v]
        BY <1>0, <2>1 DEF TypeOK
      <4>2. conn[v] = "polling"
        BY <3>1, <3>2, <4>1 DEF PollsFollowCursor
      <4>3. 0..cursor[v] \subseteq 0..cursor'[v]
        BY <2>4, <2>5
      <4> QED
        BY <2>2, <2>6, <3>1, <3>2, <4>1, <4>2, <4>3 DEF PollsFollowCursor
    <3>3. CASE u # v
      <4>1. /\ shown \in [Viewer -> SUBSET Seqs]
            /\ DOMAIN cursor = Viewer /\ DOMAIN pages = Viewer
        BY <1>0 DEF TypeOK
      <4>2. shown'[u] = shown[u] /\ cursor'[u] = cursor[u] /\ pages'[u] = pages[u]
        BY <2>1, <3>3, <4>1
      <4> QED
        BY <2>2, <3>1, <4>2 DEF PollsFollowCursor
    <3> QED
      BY <3>2, <3>3
  <2> QED
    BY <2>8, <2>9
<1>9. ASSUME NEW v \in Viewer, PollFail(v)
      PROVE  Goal
  <2>1. \A u \in Viewer : asked'[u] \subseteq asked[u] /\ pages'[u] \subseteq pages[u]
    BY <1>0, <1>9 DEF PollFail, TypeOK
  <2> QED
    BY <1>0, <1>9, <2>1 DEF PollFail, PollsSkipNothing, PollsFollowCursor
<1>10. CASE Crash
  BY <1>0, <1>10 DEF Crash, PollsSkipNothing, PollsFollowCursor
<1>11. CASE UNCHANGED <<shown, conn, polling>>
  <2>1. ASSUME NEW v \in Viewer, NEW n \in events', n <= cursor[v]
        PROVE  n \in events
    <3>1. n \in Nat /\ cursor[v] \in Nat
      BY <1>0, TypeStep DEF TypeOK, Seqs
    <3> QED
      BY <1>1, <2>1, <3>1
  <2>2. PollsSkipNothing'
    BY <1>0, <1>11, <2>1 DEF PollsSkipNothing
  <2>3. \A v \in Viewer : PollsFollowCursor(v)'
    BY <1>0, <1>1, <1>11 DEF PollsFollowCursor
  <2> QED
    BY <2>2, <2>3
<1>12. ASSUME NEW e \in Emitter, EmitAllocate(e) \/ Emit(e)
       PROVE  UNCHANGED <<shown, conn, polling>>
  BY <1>12 DEF EmitAllocate, Emit, EmitCommit, EmitFail, PublishStart, PublishSend, EmitReply
<1>13. UNCHANGED vars => UNCHANGED <<shown, conn, polling>>
  BY DEF vars
<1> QED
  BY <1>2, <1>3, <1>4, <1>5, <1>6, <1>7, <1>8, <1>9, <1>10, <1>11, <1>12, <1>13 DEF Next

(* The inductive invariant holds in every behaviour.                       *)
THEOREM Invariance == Spec => []IInv
<1>1. Init => IInv
  BY InvInit
<1>2. IInv /\ [Next]_vars => IInv'
  BY TypeStep, LogStep, ShownStep, PollStep DEF IInv
<1> QED
  BY <1>1, <1>2, PTL DEF Spec

(* Every variable stays within its type.                                   *)
THEOREM TypeCorrect == Spec => []TypeOK
<1>1. IInv => TypeOK
  BY DEF IInv
<1> QED
  BY <1>1, Invariance, PTL

(* The run's row lock, held from the allocation of a seq to its commit, is *)
(* enough for a log that never shows an event before its predecessors.     *)
THEOREM LogIsDense == Spec => []SeqsAreDense
<1>1. IInv => SeqsAreDense
  BY DEF IInv
<1> QED
  BY <1>1, Invariance, PTL

(* Publishing after the commit, streams and pages only show stored events. *)
THEOREM LogIsTheSource == Spec => []ShownIsStored
<1>1. IInv => ShownIsStored
  BY DEF IInv
<1> QED
  BY <1>1, Invariance, PTL

(* A page that moves its cursor to the last event of an answer never skips *)
(* an event, however many polls it has under way.                          *)
THEOREM PollingIsComplete == Spec => []PollsSkipNothing
<1>1. IInv => PollsSkipNothing
  BY DEF IInv
<1> QED
  BY <1>1, Invariance, PTL

(* The insert of an event finds its seq free, and no other transaction has *)
(* the same one in hand: the key of the table is never violated.           *)
SeqsAreFree ==
  \A e \in Emitter : pc[e] = "allocated" =>
    /\ seq[e] \notin events
    /\ \A f \in Emitter : pc[f] = "allocated" /\ seq[f] = seq[e] => f = e

(* A log that is a set cannot show a duplicate: this says that there is    *)
(* none, for any number of emitters.                                       *)
THEOREM KeysNeverCollide == Spec => []SeqsAreFree
<1>1. ASSUME IInv PROVE SeqsAreFree
  <2> SUFFICES ASSUME NEW e \in Emitter, pc[e] = "allocated"
               PROVE  /\ seq[e] \notin events
                      /\ \A f \in Emitter : pc[f] = "allocated" /\ seq[f] = seq[e] => f = e
    BY DEF SeqsAreFree
  <2>1. seq[e] \in Nat /\ events = 1..(seq[e] - 1) /\ runLock = e
    BY <1>1, StreamAssumption DEF IInv, TypeOK, Seqs, Allocated
  <2>2. seq[e] \notin events
    BY <2>1
  <2>3. \A f \in Emitter : pc[f] = "allocated" => runLock = f
    BY <1>1 DEF IInv, Allocated
  <2> QED
    BY <2>1, <2>2, <2>3
<1> QED
  BY <1>1, Invariance, PTL

(* A poll from a cursor that is behind the log has the next event to       *)
(* bring; its answer is empty, or it holds that event and showing it moves *)
(* a page that is still at that cursor.  Only lost answers, and answers    *)
(* cut short before their first event, leave a page standing while there   *)
(* is more.                                                                *)
PollsBringMore ==
  \A v \in Viewer : \A from \in asked[v] :
    from < LastSeq =>
      /\ from + 1 \in Page(from, PageLimit)
      /\ \A page \in Answers(from, PageLimit) \ {{}} : from + 1 \in page /\ Advance(from, page) > from

LEMMA PageBringsNext ==
  ASSUME SeqsAreDense, NEW from \in 0..MaxEvents, from < LastSeq
  PROVE  from + 1 \in Page(from, PageLimit)
<1>0. MaxEvents \in Nat /\ PageLimit \in Nat \ {0}
  BY StreamAssumption
<1>1. PICK n \in 0..MaxEvents : events = 1..n
  BY DEF SeqsAreDense
<1>2. from + 1 \in events
  BY <1>0, <1>1, LastSeqOfDense
<1>3. Cardinality({m \in events : from < m /\ m <= from + 1}) = 1
  <2>1. {m \in events : from < m /\ m <= from + 1} = {from + 1}
    BY <1>0, <1>1, <1>2
  <2> QED
    BY <2>1, FS_Singleton
<1> QED
  BY <1>0, <1>2, <1>3 DEF Page

LEMMA AnswersAdvance ==
  ASSUME SeqsAreDense, NEW from \in 0..MaxEvents, NEW page \in Answers(from, PageLimit), page # {}
  PROVE  from + 1 \in page /\ Advance(from, page) > from
<1>0. MaxEvents \in Nat /\ PageLimit \in Nat
  BY StreamAssumption
<1>1. PICK b \in 0..MaxEvents : page = (from + 1)..b
  BY <1>0, AnswersAreStretches
<1>2. b > from
  BY <1>0, <1>1
<1>3. Advance(from, (from + 1)..b) = b
  BY <1>0, <1>2, AdvanceToEnd
<1> QED
  BY <1>0, <1>1, <1>2, <1>3

(* Pages of one event or more are enough for polling to get ahead: the     *)
(* safety half of its catching up, for any limits.                         *)
THEOREM PollingGetsAhead == Spec => []PollsBringMore
<1>1. ASSUME IInv PROVE PollsBringMore
  <2> SUFFICES ASSUME NEW v \in Viewer, NEW from \in asked[v], from < LastSeq
               PROVE  /\ from + 1 \in Page(from, PageLimit)
                      /\ \A page \in Answers(from, PageLimit) \ {{}} : from + 1 \in page /\ Advance(from, page) > from
    BY DEF PollsBringMore
  <2>1. from \in 0..MaxEvents /\ SeqsAreDense
    BY <1>1 DEF IInv, TypeOK
  <2> QED
    BY <2>1, PageBringsNext, AnswersAdvance
<1> QED
  BY <1>1, Invariance, PTL

----------------------------------------------------------------------------
(* Refinement.                                                             *)

(* A page that has no stream yet shows nothing.                            *)
Blank == \A v \in Viewer : conn[v] = "off" => shown[v] = {}

LEMMA BlankKept ==
  ASSUME IInv, Blank, [Next]_vars
  PROVE  Blank'
<1> USE DEF streaming
<1> TypeOK /\ \A v \in Viewer : PollsFollowCursor(v)
  BY DEF IInv
<1>1. CASE UNCHANGED <<conn, shown>>
  BY <1>1 DEF Blank
<1>2. ASSUME NEW v \in Viewer, Backfill(v) PROVE Blank'
  BY <1>2 DEF Backfill, Blank, TypeOK
<1>3. ASSUME NEW v \in Viewer, Subscribe(v) \/ StreamError(v) PROVE Blank'
  BY <1>3 DEF Subscribe, StreamError, Blank, TypeOK
<1>4. ASSUME NEW v \in Viewer, StreamEvent(v) PROVE Blank'
  BY <1>4 DEF StreamEvent, Blank, TypeOK
<1>5. ASSUME NEW v \in Viewer, Leave(v) PROVE Blank'
  BY <1>5 DEF Leave, Blank, TypeOK
<1>6. ASSUME NEW v \in Viewer, PollTick(v) \/ PollAnswer(v) \/ PollFail(v) PROVE Blank'
  BY <1>6 DEF PollTick, PollAnswer, Answer, PollFail, Blank
<1>7. ASSUME NEW v \in Viewer, PollShow(v) PROVE Blank'
  <2>1. pages[v] # {} /\ conn' = conn /\ \A u \in Viewer \ {v} : shown'[u] = shown[u]
    BY <1>7 DEF PollShow, TypeOK
  <2>2. conn[v] # "off"
    BY <2>1 DEF PollsFollowCursor
  <2> QED
    BY <2>1, <2>2 DEF Blank
<1>8. CASE Crash
  BY <1>8 DEF Crash, Blank, TypeOK
<1>9. ASSUME NEW e \in Emitter, EmitAllocate(e) \/ Emit(e)
      PROVE  UNCHANGED <<conn, shown>>
  BY <1>9 DEF EmitAllocate, Emit, EmitCommit, EmitFail, PublishStart, PublishSend, EmitReply
<1> QED
  BY <1>1, <1>2, <1>3, <1>4, <1>5, <1>6, <1>7, <1>8, <1>9 DEF Next, vars

(* A log without holes grows by the number after its length.               *)
LEMMA GrowRefines ==
  ASSUME NEW n \in Nat, events = 1..n, events' = 1..(n + 1), UNCHANGED <<shown, cursor>>
  PROVE  Log!LNext
<1>1. n \in events \cup {0}
  OBVIOUS
<1>2. Log!Grow
  BY <1>1 DEF Log!Grow
<1> QED
  BY <1>2 DEF Log!LNext

(* What a stream brings is stored.                                         *)
LEMMA BringRefines ==
  ASSUME NEW v \in Viewer, NEW E \in SUBSET events, shown' = [shown EXCEPT ![v] = @ \cup E],
         UNCHANGED <<events, cursor>>
  PROVE  Log!LNext
<1>1. Log!Bring(v)
  BY DEF Log!Bring
<1> QED
  BY <1>1 DEF Log!LNext

LEMMA StreamEventRefines ==
  ASSUME IInv, NEW v \in Viewer, StreamEvent(v)
  PROVE  [Log!LNext]_(Log!lvars)
<1> DEFINE n == Head(channel[v])
<1>1. UNCHANGED <<events, cursor>>
  BY DEF StreamEvent, polling
<1>2. n \in events
  <2>1. channel[v] \in Seq(Seqs) /\ channel[v] # <<>>
    BY DEF IInv, TypeOK, StreamEvent
  <2> QED
    BY <2>1 DEF IInv, ShownIsStored
<1>3. shown' = shown \/ shown' = [shown EXCEPT ![v] = @ \cup {n}]
  BY DEF StreamEvent
<1>4. CASE shown' = shown
  BY <1>1, <1>4 DEF Log!lvars
<1>5. CASE shown' = [shown EXCEPT ![v] = @ \cup {n}]
  <2>1. {n} \in SUBSET events
    BY <1>2
  <2> QED
    BY <1>1, <1>5, <2>1, BringRefines
<1> QED
  BY <1>3, <1>4, <1>5

(* An answer that ends after the cursor continues what the page has shown  *)
(* without gaps; any other adds nothing to it.                             *)
LEMMA PollShowRefines ==
  ASSUME IInv, NEW v \in Viewer, PollShow(v)
  PROVE  [Log!LNext]_(Log!lvars)
<1>0. TypeOK /\ PollsSkipNothing /\ PollsFollowCursor(v) /\ MaxEvents \in Nat
  BY StreamAssumption DEF IInv
<1>1. PICK page \in pages[v] :
        /\ shown' = [shown EXCEPT ![v] = @ \cup page]
        /\ cursor' = [cursor EXCEPT ![v] = Advance(@, page)]
        /\ events' = events
  BY DEF PollShow
<1>2. PICK a \in 0..cursor[v], b \in 0..MaxEvents : page = (a + 1)..b /\ page \subseteq events
  BY <1>0 DEF PollsFollowCursor
<1>3. /\ cursor[v] \in Nat /\ a \in Nat /\ b \in Nat
      /\ \A n \in page : n <= cursor[v] => n \in shown[v]
  BY <1>0, <1>2 DEF TypeOK, PollsSkipNothing
<1>4. cursor' = [cursor EXCEPT ![v] = IF b > cursor[v] THEN b ELSE cursor[v]]
  BY <1>1, <1>2, <1>3, AdvanceToEnd
<1>5. CASE b > cursor[v]
  <2>1. b \in events /\ shown[v] \cup page = shown[v] \cup (cursor[v] + 1)..b
    BY <1>2, <1>3, <1>5
  <2>2. Log!GoOn(v)
    BY <1>1, <1>4, <1>5, <2>1 DEF Log!GoOn
  <2> QED
    BY <2>2 DEF Log!LNext
<1>6. CASE ~ (b > cursor[v])
  <2>1. shown[v] \cup page = shown[v]
    BY <1>2, <1>3, <1>6
  <2>2. shown' = shown /\ cursor' = cursor
    BY <1>0, <1>1, <1>4, <1>6, <2>1 DEF TypeOK
  <2> QED
    BY <1>1, <2>2 DEF Log!lvars
<1> QED
  BY <1>5, <1>6

LEMMA RefinesStep ==
  ASSUME IInv, Blank, [Next]_vars
  PROVE  [Log!LNext]_(Log!lvars)
<1> USE DEF emitting, streaming, polling
<1>1. CASE UNCHANGED <<events, shown, cursor>>
  BY <1>1 DEF Log!lvars
<1>2. CASE UNCHANGED <<shown, cursor>>
  BY <1>1, <1>2, LogStep, GrowRefines
<1>3. ASSUME NEW v \in Viewer, Backfill(v) PROVE Log!LNext
  <2>1. PICK page \in SUBSET events : shown' = [shown EXCEPT ![v] = page] /\ UNCHANGED <<events, cursor>>
    BY <1>3, AnswersAreStored DEF Backfill
  <2>2. shown[v] = {}
    BY <1>3 DEF Backfill, Blank
  <2>3. shown' = [shown EXCEPT ![v] = @ \cup page]
    BY <2>1, <2>2
  <2> QED
    BY <2>1, <2>3, BringRefines
<1>4. ASSUME NEW v \in Viewer, Leave(v) PROVE Log!LNext
  <2>1. Log!Close(v)
    BY <1>4 DEF Leave, Log!Close
  <2> QED
    BY <2>1 DEF Log!LNext
<1>5. ASSUME NEW v \in Viewer,
             \/ Subscribe(v) \/ StreamError(v) \/ PollTick(v) \/ PollAnswer(v) \/ PollFail(v)
      PROVE  UNCHANGED <<events, shown, cursor>>
  BY <1>5 DEF Subscribe, StreamError, PollTick, PollAnswer, Answer, PollFail
<1>6. CASE Crash
  BY <1>1, <1>6 DEF Crash
<1>7. ASSUME NEW e \in Emitter, EmitAllocate(e) \/ Emit(e)
      PROVE  UNCHANGED <<shown, cursor>>
  BY <1>7 DEF EmitAllocate, Emit, EmitCommit, EmitFail, PublishStart, PublishSend, EmitReply
<1>8. CASE UNCHANGED vars
  BY <1>1, <1>8 DEF vars
<1> QED
  BY <1>1, <1>2, <1>3, <1>4, <1>5, <1>6, <1>7, <1>8, StreamEventRefines, PollShowRefines DEF Next

(* One log that grows by one event at a time and pages that see more and   *)
(* more of it: neither drops of the broker, nor overlapping polls, nor     *)
(* failed emits, nor a crash of the process can be told from that.         *)
THEOREM Refinement == Spec => ImplementsLog
<1>1. Init => Log!LInit /\ Blank
  BY DEF Init, Log!LInit, Blank
<1>2. IInv /\ Blank /\ [Next]_vars => Blank'
  BY BlankKept
<1>3. IInv /\ Blank /\ [Next]_vars => [Log!LNext]_(Log!lvars)
  BY RefinesStep
<1> QED
  BY <1>1, <1>2, <1>3, Invariance, PTL DEF Spec, ImplementsLog, Log!LSpec
=============================================================================
