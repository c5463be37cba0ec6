------------------------------ MODULE Moderation ------------------------------
(***************************************************************************)
(* Moderation of what agents and publishers write: the goals of runs,      *)
(* their events and their artifacts.  Content is shown until it is         *)
(* rejected; administrators find it in a queue that their page loads piece *)
(* by piece, by offset, while decisions, new content and deletions change  *)
(* the queue.                                                              *)
(*                                                                         *)
(* Content is numbered by created_at.  It is committed in any order, for   *)
(* transactions overlap and the times come from two clocks.  exits keeps   *)
(* what left the queue of a status and by what; it is never read.          *)
(***************************************************************************)
EXTENDS Naturals, Sequences, FiniteSets

CONSTANTS
  Content,     \* numbers of runs, events and artifacts
  Decision,    \* requests of administrators
  Page,        \* moderation pages that are open
  Families,    \* <<what each content is, who takes part>>
  Load,        \* requests a page may have in flight
  Filter,      \* what a page may ask for: a status and kinds of content
  Limit        \* items of a response

Status == {"pending", "approved", "rejected"}
Kind   == {"run", "event", "artifact"}
Shape  == [kind : Kind, run : Content, listed : BOOLEAN, system : BOOLEAN, evaluation : BOOLEAN,
           key : BOOLEAN]

ASSUME ModerationAssumption ==
  /\ Content \subseteq Nat \ {0} /\ IsFiniteSet(Content)
  /\ Families \subseteq [Content -> Shape] \X SUBSET (Content \cup Decision \cup Page)
  /\ \A x \in Families : \A c \in Content : LET s == x[1] IN
       /\ s[c].kind = "run" => s[c].run = c
       /\ s[c].kind # "run" => s[s[c].run].kind = "run"
       /\ s[c].listed = s[s[c].run].listed
       /\ s[c].system => s[c].kind = "run" /\ s[c].listed
       /\ s[c].evaluation => s[c].kind = "run" /\ ~s[c].listed
  /\ Decision \cap Nat = {} /\ IsFiniteSet(Decision)
  /\ Filter \subseteq [status : Status, kinds : SUBSET Kind \ {{}}]
  /\ Limit \in Nat \ {0}

VARIABLES
  family,    \* what each content is, and who takes part
  status,    \* review_status, "none" before the insert, "gone" after a deletion
  rows,      \* content in the order of the commits, as seq and version have it
  exits,     \* history: <<decision or deleted run, 0 for an upsert,
             \* content, status>>
  says,      \* what each decision is about, and what it wants
  pc,
  earlier,   \* history: the decisions that began before, as created_at has it
  before,    \* history: the decisions that were done by then
  filter,    \* of each page
  list,      \* the items it shows
  offset,
  more,      \* hasMore
  loadingMore,
  load,      \* the requests of each page
  answer,    \* and what the server has read for them
  pass       \* history: the queue when the first items shown were read

store    == <<status, rows, exits>>
deciding == <<says, pc, earlier, before>>
shown    == <<filter, list, offset, more, loadingMore, pass>>
loading  == <<load, answer>>
vars     == <<family, store, deciding, shown, loading>>

shape == family[1]
part  == family[2]

-----------------------------------------------------------------------------
(* The queue *)

Stored == {c \in Content : status[c] \in Status}

(* Unlisted runs and what belongs to them are in no queue.                 *)
Matches(c, f) == shape[c].listed /\ shape[c].kind \in f.kinds
Queue(f) == {c \in Content : status[c] = f.status /\ Matches(c, f)}

(* Newest first.                                                           *)
Ahead(f, c) == {d \in Queue(f) : d > c}

Rows(f, from) ==
  {c \in Queue(f) : from <= Cardinality(Ahead(f, c)) /\ Cardinality(Ahead(f, c)) < from + Limit}

HasMore(f, from) == Cardinality(Queue(f)) > from + Limit

(* Mutant: the next offset counts the row that was read to know whether    *)
(* there are more.                                                         *)
NextOffset_Peeked(f, from) ==
  from + Cardinality(Rows(f, from)) + IF HasMore(f, from) THEN 1 ELSE 0

NextOffset(f, from) == from + Cardinality(Rows(f, from))

Leave(by, C) == exits' = exits \cup {<<by, c, status[c]>> : c \in C}

-----------------------------------------------------------------------------
NoFilter == [status |-> "pending", kinds |-> {}]
Idle     == [step |-> "idle", reset |-> FALSE, filter |-> NoFilter, from |-> 0, stale |-> FALSE]
NoAnswer == [got |-> {}, next |-> 0, more |-> FALSE, queue |-> {}, since |-> {}]

Init ==
  /\ family \in Families
  /\ status = [c \in Content |-> IF shape[c].system THEN "pending" ELSE "none"]
  /\ rows = <<>>
  /\ exits = {}
  /\ says = [d \in Decision |-> [target |-> 0, wants |-> "pending"]]
  /\ pc = [d \in Decision |-> "new"]
  /\ earlier = [d \in Decision |-> {}]
  /\ before = [d \in Decision |-> {}]
  /\ filter \in [Page -> Filter]
  /\ list = [a \in Page |-> {}]
  /\ offset = [a \in Page |-> 0]
  /\ more = [a \in Page |-> FALSE]
  /\ loadingMore = [a \in Page |-> FALSE]
  /\ load = [a \in Page |-> [l \in Load |-> Idle]]
  /\ answer = [a \in Page |-> [l \in Load |-> NoAnswer]]
  /\ pass = [a \in Page |-> [filter |-> NoFilter, queue |-> {}, since |-> {}, mixed |-> TRUE]]

-----------------------------------------------------------------------------
(* Content *)

(* Runs are approved as they come, but for those of evaluations.           *)
FirstStatus(c) == IF shape[c].kind = "run" /\ ~shape[c].evaluation THEN "approved" ELSE "pending"

Held(c) == \E d \in Decision : pc[d] = "held" /\ says[d].target = c

(* A run is created, an event emitted or an artifact submitted; the latter *)
(* two lock the run's row first.                                           *)
Store(c) ==
  /\ c \in part /\ status[c] = "none"
  /\ shape[c].kind # "run" => shape[c].run \in Stored /\ ~Held(shape[c].run)
  /\ status' = [status EXCEPT ![c] = FirstStatus(c)]
  /\ rows' = Append(rows, c)
  /\ UNCHANGED <<family, exits, deciding, shown, loading>>

(* Registering an agent writes the platform's runs anew.  A rejection      *)
(* stays.  Mutant: it does not.                                            *)
Upserted_Approved(c) == "approved"

Upserted(c) == IF status[c] = "rejected" THEN "rejected" ELSE "approved"

CreateOnboardingOffer(c) ==
  /\ shape[c].system /\ c \in Stored /\ ~Held(c)
  /\ status' = [status EXCEPT ![c] = Upserted(c)]
  /\ Leave(0, IF status[c] = Upserted(c) THEN {} ELSE {c})
  /\ UNCHANGED <<family, rows, deciding, shown, loading>>

(* A run goes with what belongs to it.                                     *)
DeleteRun(r) ==
  LET C == {c \in Stored : shape[c].run = r} IN
  /\ shape[r].kind = "run" /\ ~shape[r].system /\ r \in Stored
  /\ ~ \E c \in C : Held(c)
  /\ status' = [c \in Content |-> IF c \in C THEN "gone" ELSE status[c]]
  /\ Leave(r, C)
  /\ UNCHANGED <<family, rows, deciding, shown, loading>>

-----------------------------------------------------------------------------
(* A decision is a transaction: the row, which stays locked, then the log. *)

Done == {d \in Decision : pc[d] = "done"}
To(d, step) == pc' = [pc EXCEPT ![d] = step]

DecideBegin(d, c, s) ==
  /\ d \in part /\ pc[d] = "new" /\ status[c] # "none"
  /\ says' = [says EXCEPT ![d] = [target |-> c, wants |-> s]]
  /\ earlier' = [earlier EXCEPT ![d] = {e \in Decision : pc[e] # "new"}]
  /\ before' = [before EXCEPT ![d] = Done]
  /\ To(d, "begun")
  /\ UNCHANGED <<family, store, shown, loading>>

(* Mutant: it is not checked that a row was updated.                       *)
DecideUpdate_Unchecked(d) ==
  /\ pc[d] = "begun" /\ ~Held(says[d].target)
  /\ To(d, "held")
  /\ UNCHANGED <<family, store, says, earlier, before, shown, loading>>

DecideUpdate(d) ==
  /\ pc[d] = "begun" /\ ~Held(says[d].target)
  /\ To(d, IF says[d].target \in Stored THEN "held" ELSE "failed")
  /\ UNCHANGED <<family, store, says, earlier, before, shown, loading>>

DecideCommit(d) ==
  LET c == says[d].target IN
  /\ pc[d] = "held"
  /\ status' = [status EXCEPT ![c] = says[d].wants]
  /\ Leave(d, IF status[c] = says[d].wants THEN {} ELSE {c})
  /\ To(d, "done")
  /\ UNCHANGED <<family, rows, says, earlier, before, shown, loading>>

DecideFail(d) ==
  /\ pc[d] \in {"begun", "held"}
  /\ To(d, "failed")
  /\ UNCHANGED <<family, store, says, earlier, before, shown, loading>>

(* The log of a content, and its newest entry as the detail view sorts it. *)
Actions(c) == {d \in Done : says[d].target = c}
Newest(c)  == {d \in Actions(c) : Actions(c) \ {d} \subseteq earlier[d]}

-----------------------------------------------------------------------------
(* The moderation page *)

Ask(a, l, r, f, o) ==
  /\ a \in part /\ load[a][l] = Idle
  /\ load' = [load EXCEPT ![a][l] =
                [step |-> "asked", reset |-> r, filter |-> f, from |-> o, stale |-> FALSE]]

(* The button, or the page itself after a decision.                        *)
Refresh(a, l) ==
  /\ Ask(a, l, TRUE, filter[a], 0)
  /\ UNCHANGED <<family, store, deciding, shown, answer>>

SetFilter(a, l, f) ==
  /\ f # filter[a]
  /\ filter' = [filter EXCEPT ![a] = f]
  /\ Ask(a, l, TRUE, f, 0)
  /\ UNCHANGED <<family, store, deciding, list, offset, more, loadingMore, pass, answer>>

LoadMore(a, l) ==
  /\ more[a] /\ ~loadingMore[a]
  /\ loadingMore' = [loadingMore EXCEPT ![a] = TRUE]
  /\ Ask(a, l, FALSE, filter[a], offset[a])
  /\ UNCHANGED <<family, store, deciding, filter, list, offset, more, pass, answer>>

(* The server reads the queue.                                             *)
LoadAnswer(a, l) ==
  LET q == load[a][l] IN
  /\ q.step = "asked"
  /\ load' = [load EXCEPT ![a][l].step = "answered"]
  /\ answer' = [answer EXCEPT ![a][l] =
       [got |-> Rows(q.filter, q.from), next |-> NextOffset(q.filter, q.from),
        more |-> HasMore(q.filter, q.from), queue |-> Queue(q.filter), since |-> exits]]
  /\ UNCHANGED <<family, store, deciding, shown>>

Ended(a, l) ==
  /\ answer' = [answer EXCEPT ![a][l] = NoAnswer]
  /\ loadingMore' = [loadingMore EXCEPT ![a] = FALSE]

(* A first page replaces the items, and what else is in flight is of the   *)
(* items before.                                                           *)
ShowFirst(a, l) ==
  LET q == load[a][l]  r == answer[a][l] IN
  /\ q.step = "answered" /\ q.reset
  /\ list' = [list EXCEPT ![a] = r.got]
  /\ offset' = [offset EXCEPT ![a] = r.next]
  /\ more' = [more EXCEPT ![a] = r.more]
  /\ pass' = [pass EXCEPT ![a] =
       [filter |-> q.filter, queue |-> r.queue, since |-> r.since, mixed |-> FALSE]]
  /\ load' = [load EXCEPT ![a] = [k \in Load |->
       IF k = l \/ load[a][k] = Idle THEN Idle ELSE [load[a][k] EXCEPT !.stale = TRUE]]]
  /\ Ended(a, l)
  /\ UNCHANGED <<family, store, deciding, filter>>

(* More items are added whatever was shown or chosen since they were asked *)
(* for.                                                                    *)
ShowMore(a, l) ==
  LET q == load[a][l]  r == answer[a][l] IN
  /\ q.step = "answered" /\ ~q.reset
  /\ list' = [list EXCEPT ![a] = @ \cup r.got]
  /\ offset' = [offset EXCEPT ![a] = r.next]
  /\ more' = [more EXCEPT ![a] = r.more]
  /\ pass' = [pass EXCEPT ![a].mixed = @ \/ q.stale \/ q.filter # pass[a].filter]
  /\ load' = [load EXCEPT ![a][l] = Idle]
  /\ Ended(a, l)
  /\ UNCHANGED <<family, store, deciding, filter>>

(* A request or its answer is lost, or the query fails.                    *)
LoadFail(a, l) ==
  /\ load[a][l] # Idle
  /\ load' = [load EXCEPT ![a][l] = Idle]
  /\ Ended(a, l)
  /\ UNCHANGED <<family, store, deciding, filter, list, offset, more, pass>>

-----------------------------------------------------------------------------
Next ==
  \/ \E c \in Content : Store(c) \/ CreateOnboardingOffer(c) \/ DeleteRun(c)
  \/ \E d \in Decision :
       \/ \E c \in Content, s \in {"approved", "rejected"} : DecideBegin(d, c, s)
       \/ DecideUpdate(d) \/ DecideCommit(d) \/ DecideFail(d)
  \/ \E a \in Page, l \in Load :
       \/ Refresh(a, l) \/ LoadMore(a, l) \/ \E f \in Filter : SetFilter(a, l, f)
       \/ LoadAnswer(a, l) \/ ShowFirst(a, l) \/ ShowMore(a, l) \/ LoadFail(a, l)

Spec == Init /\ [][Next]_vars

-----------------------------------------------------------------------------
(* What the public reads return, as sets of content whose text they show.  *)

Shown(c)  == status[c] \in Status /\ status[c] # "rejected"
Open(c)   == c \in Stored /\ shape[c].listed
LastOf(C)   == {c \in C : \E i \in 1..Len(rows) :
                 rows[i] = c /\ \A j \in i + 1..Len(rows) : rows[j] \notin C}
Parts(r, kind) == {c \in Stored : shape[c].run = r /\ shape[c].kind = kind}

(* Runs in the list, each with a preview: the last key event that may be   *)
(* shown or else the last artifact that may.  Mutant: the last artifact,   *)
(* whatever its status.                                                    *)
Listed == {r \in Content : shape[r].kind = "run" /\ Open(r) /\ Shown(r)}

KeyEvents(r) == {c \in Parts(r, "event") : shape[c].key /\ Shown(c)}

Preview_Last(r) ==
  IF KeyEvents(r) # {} THEN LastOf(KeyEvents(r)) ELSE LastOf(Parts(r, "artifact"))

Preview(r) ==
  IF KeyEvents(r) # {} THEN LastOf(KeyEvents(r))
  ELSE LastOf({c \in Parts(r, "artifact") : Shown(c)})

RunList == Listed \cup UNION {Preview(r) : r \in Listed}

(* The activity feed: key events with the goals of their runs.             *)
Activity == UNION {IF KeyEvents(r) = {} THEN {} ELSE {r} \cup KeyEvents(r) : r \in Listed}

(* The pages of a run are there for a listed run, rejected or not; what is *)
(* rejected is replaced by a notice.                                       *)
RunPage == {r \in Content : shape[r].kind = "run" /\ Open(r) /\ Shown(r)}
Replay  == {c \in Content : shape[c].kind = "event" /\ Open(c) /\ Shown(c)}
ArtifactPages == {c \in Content : shape[c].kind = "artifact" /\ Open(c) /\ Shown(c)}
Output  == {c \in Content : Open(c) /\ Shown(c) /\ c \in LastOf(Parts(shape[c].run, "artifact"))}

(* The profile of an agent names the runs it has submitted artifacts to.   *)
Profile == {r \in Content : /\ shape[r].kind = "run" /\ Shown(r)
                            /\ \E i \in 1..Len(rows) : /\ shape[rows[i]].kind = "artifact"
                                                       /\ shape[rows[i]].run = r}

Public == RunList \cup Activity \cup RunPage \cup Replay \cup ArtifactPages \cup Output \cup Profile

-----------------------------------------------------------------------------
(* Properties *)

Filters == Filter \cup {NoFilter}
Exit    == (Decision \cup Content \cup {0}) \X Content \X Status

TypeOK ==
  /\ family \in Families
  /\ status \in [Content -> Status \cup {"none", "gone"}]
  /\ rows \in Seq(Content)
  /\ exits \subseteq Exit
  /\ says \in [Decision -> [target : Content \cup {0}, wants : Status]]
  /\ pc \in [Decision -> {"new", "begun", "held", "done", "failed"}]
  /\ earlier \in [Decision -> SUBSET Decision]
  /\ before \in [Decision -> SUBSET Decision]
  /\ filter \in [Page -> Filter]
  /\ list \in [Page -> SUBSET Content]
  /\ offset \in [Page -> Nat]
  /\ more \in [Page -> BOOLEAN]
  /\ loadingMore \in [Page -> BOOLEAN]
  /\ load \in [Page -> [Load -> [step : {"idle", "asked", "answered"}, reset : BOOLEAN,
                                 filter : Filters, from : Nat, stale : BOOLEAN]]]
  /\ answer \in [Page -> [Load -> [got : SUBSET Content, next : Nat, more : BOOLEAN,
                                   queue : SUBSET Content, since : SUBSET Exit]]]
  /\ pass \in [Page -> [filter : Filters, queue : SUBSET Content, since : SUBSET Exit,
                        mixed : BOOLEAN]]

(* The status of a content is what the newest entry of its log wants, or   *)
(* what another entry wants whose decision overlapped that one.  Without   *)
(* an entry it is what it was stored with, or the platform's run has been  *)
(* written anew.                                                           *)
LogExplainsStatus ==
  \A c \in Stored :
    \/ Actions(c) = {}
       /\ \/ status[c] = FirstStatus(c)
          \/ shape[c].system
    \/ \E d \in Actions(c) :
         /\ status[c] = says[d].wants
         /\ \A e \in Newest(c) : d = e \/ d \notin before[e]

LeftSince(f, since) == {x \in exits \ since : x[3] = f.status /\ Matches(x[2], f)}
Stayed(f, queue, since) == {c \in queue : \A x \in LeftSince(f, since) : x[2] # c}

(* A page that has loaded all there is shows what was in the queue when it *)
(* began and has stayed there, but for one item at most for each that left *)
(* the queue meanwhile and moved the others up.  Only items that are mixed *)
(* up by answers that overtook a refresh are excepted.                     *)
PassesMissOnlyWhatMoved ==
  \A a \in Page : LET p == pass[a] IN
    ~more[a] /\ ~p.mixed /\ p.filter = filter[a] =>
      Cardinality(Stayed(p.filter, p.queue, p.since) \ list[a])
        <= Cardinality(LeftSince(p.filter, p.since))

AllOf(s) == [status |-> s, kinds |-> Kind]

(* What any public read shows is in the moderation queue under a status    *)
(* other than rejected, but for the goals of unlisted runs, which agents'  *)
(* profiles show and no queue has; and lists show nothing of a run that is *)
(* rejected.                                                               *)
PublicIsModerated ==
  /\ \A c \in Public :
       /\ status[c] # "rejected"
       /\ c \in Queue(AllOf(status[c])) \/ (c \in Profile /\ ~shape[c].listed)
  /\ \A c \in RunList \cup Activity : status[shape[c].run] \in {"pending", "approved"}
=============================================================================
