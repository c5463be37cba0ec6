------------------------------ MODULE EventLog ------------------------------
(***************************************************************************)
(* What the gateway and the run page promise about the events of a run:    *)
(* there is one log, which grows by one event at a time and loses none,    *)
(* and each page sees more and more of it.  A page that polls has seen     *)
(* the log without gaps up to some event, which never moves back.          *)
(* EventStream implements this with a broker, streams and polls that can   *)
(* drop, repeat and overtake each other.                                   *)
(***************************************************************************)
EXTENDS Naturals

CONSTANT Viewer

VARIABLES
  log,   \* the events that are stored, numbered from 1
  seen,  \* the events each page shows
  upto   \* where the gapless part of a polling page ends

lvars == <<log, seen, upto>>

LInit ==
  /\ log = {}
  /\ seen = [v \in Viewer |-> {}]
  /\ upto = [v \in Viewer |-> 0]

Grow ==
  /\ \E n \in log \cup {0} : log = 1..n /\ log' = 1..(n + 1)
  /\ UNCHANGED <<seen, upto>>

(* A stream brings any part of the log, and may leave out what it likes.   *)
Bring(v) ==
  /\ \E E \in SUBSET log : seen' = [seen EXCEPT ![v] = @ \cup E]
  /\ UNCHANGED <<log, upto>>

(* An answer to a poll goes on where the page is.                          *)
GoOn(v) ==
  \E n \in log :
    /\ upto[v] < n
    /\ seen' = [seen EXCEPT ![v] = @ \cup (upto[v] + 1)..n]
    /\ upto' = [upto EXCEPT ![v] = n]
    /\ UNCHANGED log

Close(v) ==
  /\ seen' = [seen EXCEPT ![v] = {}]
  /\ upto' = [upto EXCEPT ![v] = 0]
  /\ UNCHANGED log

LNext == Grow \/ \E v \in Viewer : GoOn(v) \/ Close(v) \/ Bring(v)

LSpec == LInit /\ [][LNext]_lvars
=============================================================================
