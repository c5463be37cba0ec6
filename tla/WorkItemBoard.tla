--------------------------- MODULE WorkItemBoard ---------------------------
(***************************************************************************)
(* What the gateway promises about work items, without transactions: each  *)
(* item has a status and at most one lease holder, and moves in atomic     *)
(* steps.  WorkItems implements this board with concurrent transactions.   *)
(*                                                                         *)
(* Two clauses record what the code really promises and no more.  An item  *)
(* may be completed while another agent holds it or while it is back on    *)
(* offer (a completion that began under a lease since lost), and deleting  *)
(* an agent may leave items it held claimed with no holder.                *)
(***************************************************************************)
CONSTANTS Item, Agent, NoAgent

VARIABLES
  state,    \* absent, scheduled, offered, claimed, completed or gone
  holder    \* the agent that holds the item's lease

bvars == <<state, holder>>

States == {"absent", "scheduled", "offered", "claimed", "completed", "gone"}

BInit ==
  /\ state \in [Item -> {"absent", "offered", "completed"}]
  /\ holder = [w \in Item |-> NoAgent]

Create(w) ==
  /\ state[w] = "absent"
  /\ state' \in {[state EXCEPT ![w] = st] : st \in {"offered", "scheduled"}}
  /\ UNCHANGED holder

ComeDue(w) ==
  /\ state[w] = "scheduled"
  /\ state' = [state EXCEPT ![w] = "offered"]
  /\ UNCHANGED holder

Claim(w, a) ==
  /\ state[w] = "offered"
  /\ state' = [state EXCEPT ![w] = "claimed"]
  /\ holder' = [holder EXCEPT ![w] = a]

(* An item under way is finished; whoever held it holds it no longer.      *)
Complete(w) ==
  /\ state[w] \in {"offered", "claimed", "completed"}
  /\ state' = [state EXCEPT ![w] = "completed"]
  /\ holder' = [holder EXCEPT ![w] = NoAgent]

(* Steps that move several items at once say what may become of each.      *)
Moves == state' \in [Item -> States] /\ holder' \in [Item -> Agent \cup {NoAgent}]

Stays(w)   == state'[w] = state[w] /\ holder'[w] = holder[w]
PutBack(w) == state'[w] = "offered" /\ holder'[w] = NoAgent
IsGone(w)  == state'[w] = "gone" /\ holder'[w] = NoAgent
IsLeft(w)  == state'[w] = state[w] /\ holder'[w] = NoAgent

(* The leases released return their items to the board, in one step.       *)
Release ==
  /\ Moves
  /\ \A w \in Item :
       \/ Stays(w)
       \/ state[w] = "claimed" /\ holder[w] # NoAgent /\ PutBack(w)

(* Agent a leaves: items are withdrawn with it, and the others that it     *)
(* holds are put back or left without it.                                  *)
Leave(a) ==
  /\ Moves
  /\ \A w \in Item :
       \/ Stays(w) /\ holder[w] # a
       \/ IsGone(w) /\ state[w] # "absent"
       \/ state[w] = "claimed" /\ holder[w] = a /\ (PutBack(w) \/ IsLeft(w))

Withdraw(w) ==
  /\ state[w] \notin {"absent", "gone"}
  /\ state' = [state EXCEPT ![w] = "gone"]
  /\ holder' = [holder EXCEPT ![w] = NoAgent]

BNext ==
  \/ Release
  \/ \E w \in Item : Create(w) \/ ComeDue(w) \/ Complete(w) \/ Withdraw(w)
  \/ \E w \in Item, a \in Agent : Claim(w, a)
  \/ \E a \in Agent : Leave(a)

BSpec == BInit /\ [][BNext]_bvars
=============================================================================
