---------------------------- MODULE EventStream ----------------------------
(***************************************************************************)
(* The events of one run: agents append them to the events table, an       *)
(* in-process broker hands each to the open SSE streams, and the run page  *)
(* shows what its stream brings, or, once the stream has failed, what it   *)
(* gets by polling the replay endpoint.                                    *)
(*                                                                         *)
(* An event is its seq.  Runs do not interact: the broker keeps one map of *)
(* channels for each, and seq is allocated per run under the run's row     *)
(* lock.                                                                   *)
(***************************************************************************)
EXTENDS Naturals, Sequences, FiniteSets

CONSTANTS
  Emitter,        \* request slots serving POST .../emit
  Viewer,         \* browser pages that show the run
  NoEmitter,
  Buffer,         \* capacity of a subscriber's channel (64)
  BackfillLimit,  \* events a stream reads when it opens (500)
  PageLimit,      \* events in a page of the replay (200)
  MaxEvents,      \* bound on the length of the run
  MaxPolls        \* bound on the polls a page has under way

ASSUME StreamAssumption ==
  /\ NoEmitter \notin Emitter
  /\ Buffer \in Nat \ {0}
  /\ BackfillLimit \in Nat \ {0}
  /\ PageLimit \in Nat \ {0}
  /\ MaxEvents \in Nat
  /\ MaxPolls \in Nat

VARIABLES
  events,     \* seq of the committed rows of the events table
  runLock,    \* row lock on the run
  pc,         \* what each emit request does next
  seq,        \* nextSeq of an emit request, once allocated
  toSend,     \* channels the publish loop has not reached yet
  conn,       \* what each page has: nothing, a stream, or a polling timer
  channel,    \* the broker's channel for a stream, with what it buffers
  afterSeq,   \* the stream's local afterSeq: the last live event it wrote
  dropped,    \* history: events the broker dropped for a stream
  shown,      \* events the page shows
  cursor,     \* the polling loop's afterSeq
  asked,      \* cursors of the polls in flight
  pages       \* answers to polls, on their way to the page

emitting  == <<runLock, pc, seq>>
streaming == <<conn, channel, afterSeq, dropped>>
polling   == <<cursor, asked, pages>>
vars == <<events, emitting, toSend, streaming, shown, polling>>

Seqs == 1..MaxEvents

TypeOK ==
  /\ events \subseteq Seqs
  /\ runLock \in Emitter \cup {NoEmitter}
  /\ pc \in [Emitter -> {"idle", "allocated", "committed", "publishing"}]
  /\ seq \in [Emitter -> 0..MaxEvents]
  /\ toSend \in [Emitter -> SUBSET Viewer]
  /\ conn \in [Viewer -> {"off", "backfilled", "open", "polling"}]
  /\ channel \in [Viewer -> Seq(Seqs)]
  /\ afterSeq \in [Viewer -> 0..MaxEvents]
  /\ dropped \in [Viewer -> SUBSET Seqs]
  /\ shown \in [Viewer -> SUBSET Seqs]
  /\ cursor \in [Viewer -> 0..MaxEvents]
  /\ asked \in [Viewer -> SUBSET (0..MaxEvents)]
  /\ pages \in [Viewer -> SUBSET SUBSET Seqs]

Init ==
  /\ events = {}
  /\ runLock = NoEmitter
  /\ pc = [e \in Emitter |-> "idle"]
  /\ seq = [e \in Emitter |-> 0]
  /\ toSend = [e \in Emitter |-> {}]
  /\ conn = [v \in Viewer |-> "off"]
  /\ channel = [v \in Viewer |-> <<>>]
  /\ afterSeq = [v \in Viewer |-> 0]
  /\ dropped = [v \in Viewer |-> {}]
  /\ shown = [v \in Viewer |-> {}]
  /\ cursor = [v \in Viewer |-> 0]
  /\ asked = [v \in Viewer |-> {}]
  /\ pages = [v \in Viewer |-> {}]

----------------------------------------------------------------------------
(* The events table.                                                       *)

LastSeq == CHOOSE n \in events \cup {0} : \A m \in events : m <= n

\* Mutant: a page that starts at the cursor's own event.
Page_Inclusive(from, limit) ==
  {n \in events : /\ n >= from
                  /\ Cardinality({m \in events : from <= m /\ m <= n}) <= limit}

\* Mutant: "order by seq desc", for the latest events first.
Page_Newest(from, limit) ==
  {n \in events : /\ n > from
                  /\ Cardinality({m \in events : n <= m}) <= limit}

(* fetchEvents: where seq > from order by seq asc limit.                   *)
Page(from, limit) ==
  {n \in events : /\ n > from
                  /\ Cardinality({m \in events : from < m /\ m <= n}) <= limit}

(* What fetchEvents returns: an error while the rows are read is not       *)
(* looked at, and cuts the answer short.                                   *)
Answers(from, limit) ==
  {{n \in Page(from, limit) : n <= m} : m \in Page(from, limit) \cup {from}}

----------------------------------------------------------------------------
(* Emitting.                                                               *)

Finish(e) ==
  /\ pc' = [pc EXCEPT ![e] = "idle"]
  /\ seq' = [seq EXCEPT ![e] = 0]
  /\ runLock' = IF runLock = e THEN NoEmitter ELSE runLock

\* Mutant: seq comes from a counter, without the lock on the run.
EmitAllocate_Counter(e) ==
  /\ pc[e] = "idle"
  /\ LET next == CHOOSE n \in 1..(MaxEvents + 1) :
                   /\ n \notin events /\ \A f \in Emitter : seq[f] < n
                   /\ \A m \in events : m < n
     IN  /\ next <= MaxEvents
         /\ pc' = [pc EXCEPT ![e] = "allocated"]
         /\ seq' = [seq EXCEPT ![e] = next]
  /\ UNCHANGED <<events, runLock, toSend, streaming, shown, polling>>

(* Lock the run's row, then read max(seq).                                 *)
EmitAllocate(e) ==
  /\ pc[e] = "idle"
  /\ runLock = NoEmitter
  /\ LastSeq < MaxEvents
  /\ runLock' = e
  /\ pc' = [pc EXCEPT ![e] = "allocated"]
  /\ seq' = [seq EXCEPT ![e] = LastSeq + 1]
  /\ UNCHANGED <<events, toSend, streaming, shown, polling>>

\* Mutant: the error of the commit is not looked at.
EmitCommit_Unchecked(e) ==
  /\ pc[e] = "allocated"
  /\ events' \in {events, events \cup {seq[e]}}
  /\ pc' = [pc EXCEPT ![e] = "committed"]
  /\ runLock' = IF runLock = e THEN NoEmitter ELSE runLock
  /\ UNCHANGED <<seq, toSend, streaming, shown, polling>>

(* Insert and commit.                                                      *)
EmitCommit(e) ==
  /\ pc[e] = "allocated"
  /\ seq[e] \notin events
  /\ events' = events \cup {seq[e]}
  /\ pc' = [pc EXCEPT ![e] = "committed"]
  /\ runLock' = IF runLock = e THEN NoEmitter ELSE runLock
  /\ UNCHANGED <<seq, toSend, streaming, shown, polling>>

(* The transaction fails or times out; or it commits and the handler does  *)
(* not learn of it, so that nobody publishes the event.                    *)
EmitFail(e) ==
  /\ pc[e] = "allocated"
  /\ events' \in {events, events \cup {seq[e]}}
  /\ Finish(e)
  /\ UNCHANGED <<toSend, streaming, shown, polling>>

Open == {v \in Viewer : conn[v] = "open"}

(* The map of channels is read under the lock and walked without it.       *)
PublishStart(e) ==
  /\ pc[e] = "committed"
  /\ pc' = [pc EXCEPT ![e] = "publishing"]
  /\ toSend' = [toSend EXCEPT ![e] = Open]
  /\ UNCHANGED <<events, runLock, seq, streaming, shown, polling>>

\* Mutant: a plain send, which waits for room in the channel.
PublishSend_Blocking(e) ==
  /\ pc[e] = "publishing"
  /\ \E v \in toSend[e] :
       /\ toSend' = [toSend EXCEPT ![e] = @ \ {v}]
       /\ Len(channel[v]) < Buffer
       /\ channel' = [channel EXCEPT ![v] = Append(@, seq[e])]
  /\ UNCHANGED <<events, emitting, conn, afterSeq, dropped, shown, polling>>

(* A full channel drops the event.                                         *)
PublishSend(e) ==
  /\ pc[e] = "publishing"
  /\ \E v \in toSend[e] :
       /\ toSend' = [toSend EXCEPT ![e] = @ \ {v}]
       /\ \/ /\ Len(channel[v]) < Buffer
             /\ channel' = [channel EXCEPT ![v] = Append(@, seq[e])]
             /\ UNCHANGED dropped
          \/ /\ Len(channel[v]) >= Buffer
             /\ dropped' = [dropped EXCEPT ![v] = @ \cup {seq[e]}]
             /\ UNCHANGED channel
  /\ UNCHANGED <<events, emitting, conn, afterSeq, shown, polling>>

EmitReply(e) ==
  /\ pc[e] = "publishing"
  /\ toSend[e] = {}
  /\ Finish(e)
  /\ UNCHANGED <<events, toSend, streaming, shown, polling>>

----------------------------------------------------------------------------
(* Streams.                                                                *)

(* The page opens its stream with after_seq=0 and shows the backfill, or   *)
(* what there is of it.                                                    *)
Backfill(v) ==
  /\ conn[v] = "off"
  /\ conn' = [conn EXCEPT ![v] = "backfilled"]
  /\ \E page \in Answers(0, BackfillLimit) : shown' = [shown EXCEPT ![v] = page]
  /\ UNCHANGED <<events, emitting, toSend, channel, afterSeq, dropped, polling>>

(* The backfill leaves afterSeq as it is.  A publish loop that is walking  *)
(* the map may meet the new channel or not.                                *)
Subscribe(v) ==
  /\ conn[v] = "backfilled"
  /\ conn' = [conn EXCEPT ![v] = "open"]
  /\ \E S \in SUBSET {e \in Emitter : toSend[e] # {}} :
       toSend' = [e \in Emitter |-> IF e \in S THEN toSend[e] \cup {v} ELSE toSend[e]]
  /\ UNCHANGED <<events, emitting, channel, afterSeq, dropped, shown, polling>>

StreamEvent(v) ==
  /\ conn[v] = "open"
  /\ channel[v] # <<>>
  /\ channel' = [channel EXCEPT ![v] = Tail(@)]
  /\ LET n == Head(channel[v])
     IN  IF n <= afterSeq[v]
         THEN UNCHANGED <<afterSeq, shown>>
         ELSE /\ afterSeq' = [afterSeq EXCEPT ![v] = n]
              /\ shown' = [shown EXCEPT ![v] = @ \cup {n}]
  /\ UNCHANGED <<events, emitting, toSend, conn, dropped, polling>>

(* unsubscribe closes the channels of V.  A publish loop that already has  *)
(* one of them in hand (E) sends on a closed channel and panics: its event *)
(* is stored, the emitter gets a 500 and the other streams get nothing.    *)
Unsubscribe(V, E) ==
  /\ E \subseteq {e \in Emitter : toSend[e] \cap V # {}}
  /\ toSend' = [e \in Emitter |-> IF e \in E THEN {} ELSE toSend[e] \ V]
  /\ pc' = [e \in Emitter |-> IF e \in E THEN "idle" ELSE pc[e]]
  /\ seq' = [e \in Emitter |-> IF e \in E THEN 0 ELSE seq[e]]
  /\ channel' = [v \in Viewer |-> IF v \in V THEN <<>> ELSE channel[v]]
  /\ afterSeq' = [v \in Viewer |-> IF v \in V THEN 0 ELSE afterSeq[v]]
  /\ dropped' = [v \in Viewer |-> IF v \in V THEN {} ELSE dropped[v]]
  /\ UNCHANGED runLock

(* The stream fails (or never opens): the page polls from then on.         *)
StreamError(v) ==
  /\ conn[v] \in {"off", "backfilled", "open"}
  /\ conn' = [conn EXCEPT ![v] = "polling"]
  /\ \E E \in SUBSET Emitter : Unsubscribe({v}, E)
  /\ UNCHANGED <<events, shown, polling>>

(* The visitor leaves the page.                                            *)
Leave(v) ==
  /\ conn[v] # "off"
  /\ conn' = [conn EXCEPT ![v] = "off"]
  /\ \E E \in SUBSET Emitter : Unsubscribe({v}, E)
  /\ shown' = [shown EXCEPT ![v] = {}]
  /\ cursor' = [cursor EXCEPT ![v] = 0]
  /\ asked' = [asked EXCEPT ![v] = {}]
  /\ pages' = [pages EXCEPT ![v] = {}]
  /\ UNCHANGED events

----------------------------------------------------------------------------
(* Polling.  A tick does not wait for the answer to the one before.        *)

PollTick(v) ==
  /\ conn[v] = "polling"
  /\ cursor[v] \notin asked[v]
  /\ Cardinality(asked[v]) + Cardinality(pages[v]) < MaxPolls
  /\ asked' = [asked EXCEPT ![v] = @ \cup {cursor[v]}]
  /\ UNCHANGED <<events, emitting, toSend, streaming, shown, cursor, pages>>

Answer(v, from, page) ==
  /\ asked' = [asked EXCEPT ![v] = @ \ {from}]
  /\ pages' = [pages EXCEPT ![v] = @ \cup {page}]
  /\ UNCHANGED <<events, emitting, toSend, streaming, shown, cursor>>

PollAnswer(v) == \E from \in asked[v] : \E page \in Answers(from, PageLimit) : Answer(v, from, page)

\* Mutant: the cursor counts the events received.
Advance_Count(from, page) == from + Cardinality(page)

(* Math.max(afterSeq, last.seq), or no change for an empty page.           *)
Advance(from, page) ==
  CHOOSE n \in page \cup {from} : \A m \in page \cup {from} : m <= n

PollShow(v) ==
  /\ \E page \in pages[v] :
       /\ pages' = [pages EXCEPT ![v] = @ \ {page}]
       /\ shown' = [shown EXCEPT ![v] = @ \cup page]
       /\ cursor' = [cursor EXCEPT ![v] = Advance(@, page)]
  /\ UNCHANGED <<events, emitting, toSend, streaming, asked>>

(* A request or its answer is lost, or the query fails.                    *)
PollFail(v) ==
  /\ \/ \E from \in asked[v] :
          /\ asked' = [asked EXCEPT ![v] = @ \ {from}]
          /\ UNCHANGED pages
     \/ \E page \in pages[v] :
          /\ pages' = [pages EXCEPT ![v] = @ \ {page}]
          /\ UNCHANGED asked
  /\ UNCHANGED <<events, emitting, toSend, streaming, shown, cursor>>

----------------------------------------------------------------------------

(* The API process dies: killed, or by the runtime when it detects that    *)
(* subscribe or unsubscribe writes the map a publish loop is walking.      *)
Crash ==
  /\ runLock' = NoEmitter
  /\ pc' = [e \in Emitter |-> "idle"]
  /\ seq' = [e \in Emitter |-> 0]
  /\ toSend' = [e \in Emitter |-> {}]
  /\ conn' = [v \in Viewer |-> IF conn[v] = "off" THEN "off" ELSE "polling"]
  /\ channel' = [v \in Viewer |-> <<>>]
  /\ afterSeq' = [v \in Viewer |-> 0]
  /\ dropped' = [v \in Viewer |-> {}]
  /\ asked' = [v \in Viewer |-> {}]
  /\ UNCHANGED <<events, shown, cursor, pages>>

Emit(e) ==
  \/ EmitCommit(e)
  \/ EmitFail(e)
  \/ PublishStart(e)
  \/ PublishSend(e)
  \/ EmitReply(e)

Next ==
  \/ \E e \in Emitter : EmitAllocate(e) \/ Emit(e)
  \/ \E v \in Viewer :
       \/ Backfill(v) \/ Subscribe(v) \/ StreamEvent(v) \/ StreamError(v) \/ Leave(v)
       \/ PollTick(v) \/ PollAnswer(v) \/ PollShow(v) \/ PollFail(v)
  \/ Crash

Spec == Init /\ [][Next]_vars

(* A request that has begun runs on, and its walk of the map ends though   *)
(* pages come back during it; the page's timer ticks; of polls repeated    *)
(* forever some are answered in full, not lost and not cut short, and of   *)
(* answers that bring more some arrive.  Streams may stall: nothing makes  *)
(* a visitor's connection take the events.                                 *)
PollWhole(v) == \E from \in asked[v] : Answer(v, from, Page(from, PageLimit))

Fairness ==
  /\ \A e \in Emitter : WF_vars(Emit(e)) /\ SF_vars(PublishSend(e) /\ toSend'[e] = {})
  /\ \A v \in Viewer :
       /\ WF_vars(PollTick(v)) /\ SF_vars(PollWhole(v))
       /\ SF_vars(PollShow(v)) /\ SF_vars(PollShow(v) /\ cursor'[v] # cursor[v])

FairSpec == Spec /\ Fairness

----------------------------------------------------------------------------
(* Safety.                                                                 *)

(* The log has no holes at any moment: an event becomes visible after all  *)
(* the events before it, however requests overlap, fail or die.            *)
SeqsAreDense == \E n \in 0..MaxEvents : events = 1..n

(* A stream or a page never shows an event that is not stored.             *)
ShownIsStored ==
  \A v \in Viewer :
    /\ shown[v] \subseteq events
    /\ \A i \in 1..Len(channel[v]) : channel[v][i] \in events

(* A polling page has shown everything up to its cursor, though ticks and  *)
(* answers overtake each other: what it skips it would never ask for again.*)
PollsSkipNothing ==
  \A v \in Viewer : \A n \in events : n <= cursor[v] => n \in shown[v]

Log == INSTANCE EventLog WITH log <- events, seen <- shown, upto <- cursor

(* Overlapping emits, dropped and repeated events, polls that overtake     *)
(* each other and crashes of the process look like one log that grows by   *)
(* one event at a time, and pages that see more and more of it.            *)
ImplementsLog == Log!LSpec

----------------------------------------------------------------------------
(* Liveness.                                                               *)

(* Once a page polls it shows every event that is stored, unless the       *)
(* visitor leaves.                                                         *)
PollingCatchesUp ==
  \A v \in Viewer : \A n \in Seqs :
    (conn[v] = "polling" /\ n \in events) ~> (conn[v] # "polling" \/ n \in shown[v])

(* An emit request ends, even when no stream takes its events.             *)
EmittersNeverBlock == \A e \in Emitter : pc[e] # "idle" ~> pc[e] = "idle"

----------------------------------------------------------------------------
(* What a comment in the code says and the code does not keep.             *)

(* Replay and backfill cover what the broker drops for a slow stream: by   *)
(* the time the stream writes a later event, it has brought the dropped    *)
(* ones.                                                                   *)
DropsAreCovered ==
  \A v \in Open : \A n \in dropped[v] : n <= afterSeq[v] => n \in shown[v]
=============================================================================
