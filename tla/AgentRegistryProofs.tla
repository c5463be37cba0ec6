-------------------------- MODULE AgentRegistryProofs --------------------------
(***************************************************************************)
(* What holds of AgentRegistry for any agents, requests, tags, templates,  *)
(* values and catalogs.                                                    *)
(***************************************************************************)
EXTENDS AgentRegistry, TLAPS

Born(a) == \/ a \in Existing
           \/ \E p \in Done : ask[p].kind = "create" /\ ask[p].agent = a

(* Requests look before they are done, and an agent is registered once.    *)
Lifecycle ==
  /\ \A q \in Request : before[q] \subseteq Done
  /\ \A a \in Agent : Exists(a) => Born(a)
  /\ \A q \in Request : base[q] # NoRow => Born(ask[q].agent)
  /\ \A q \in Request :
       ask[q].kind = "update" /\ pc[q] \in {"read", "ready"} => base[q] # NoRow
  /\ \A q \in Request : pc[q] = "new" => base[q] = NoRow
  /\ \A q \in Request : pc[q] = "read" => ask[q].kind \in {"create", "update"}

(* What an update has read is the row, or another request wrote the row    *)
(* after that.                                                             *)
Stale(q) == \E p \in Done : WritesRow(p, ask[q].agent) /\ p \notin before[q]

BasesAreCurrent ==
  \A q \in Request : base[q] # NoRow /\ pc[q] # "done" =>
    row[ask[q].agent] \in {NoRow, base[q]} \/ Stale(q)

(* Rows, read or stored, passed their review, and so did the personas.     *)
Passed(a, r) ==
  /\ r.review = "approved" => IsPureCatalogCard(r.fields) \/ Legacy(a, r.fields)
  /\ r.fields["persona"] \in vetted \cup {NoPersona}

CardsAreReviewed ==
  /\ \A t \in ApprovedTemplates : template[t].persona \in vetted
  /\ \A q \in Request : adopted[q] \in vetted \cup {NoPersona}
  /\ \A a \in Agent : Exists(a) => Passed(a, row[a])
  /\ \A q \in Request : base[q] # NoRow => Passed(ask[q].agent, base[q])

Interleaved(a) ==
  \E p, q \in Request : WritesRow(p, a) /\ WritesRow(q, a) /\ Overlap(p, q)

ViewsAreCurrent ==
  \A a \in Agent : Exists(a) =>
    row[a].view \in {NoView, PromptView(row[a].fields)} \/ Interleaved(a)

(* What a replacement has not seen was inserted after it began.            *)
UnseenIsLater ==
  \A q \in Request : pc[q] = "ready" =>
    /\ ask[q].kind = "rotate" =>
         \A k \in keys[ask[q].agent] \ snap[q] : k \in Done /\ k \notin before[q]
    /\ ask[q].kind = "replace" =>
         \A r \in tags[ask[q].agent] \ snap[q] : r[2] \notin before[q]

(* ReplacementsReplace, of agents that are gone as well.                   *)
KeysAreReplaced ==
  \A a \in Agent : /\ Exists(a) => keys[a] # {}
                  /\ \A p, q \in keys[a] : p # q => Overlap(p, q)

TagsAreReplaced ==
  \A a \in Agent : \A q \in Done : ask[q].agent = a /\ ask[q].kind = "replace" =>
    \A r \in tags[a] : r[1] \in ask[q].tags \/ r[2] \notin before[q]

IInv ==
  /\ TypeOK
  /\ Lifecycle
  /\ BasesAreCurrent
  /\ CardsAreReviewed
  /\ ViewsAreCurrent
  /\ UnseenIsLater
  /\ KeysAreReplaced
  /\ TagsAreReplaced

-----------------------------------------------------------------------------
(* What a request says is well formed.                                     *)
LEMMA AskIsWellFormed ==
  ASSUME ask \in Requests, NEW q \in Request
  PROVE  /\ ask[q].kind \in Kinds /\ ask[q].agent \in Agent
         /\ ask[q].template \in Template \cup {NoPersona}
         /\ ask[q].tags \subseteq Tag
         /\ DOMAIN ask[q].set \subseteq Field
         /\ \A f \in DOMAIN ask[q].set : ask[q].set[f] \in Value
         /\ "persona" \in DOMAIN ask[q].set => ask[q].set["persona"] = NoPersona
         /\ ask[q].kind = "create" =>
              /\ ask[q].agent \notin Existing
              /\ DOMAIN ask[q].set = Field
              /\ \A p \in Request : ask[p].kind = "create" /\ ask[p].agent = ask[q].agent
                                      => p = q
<1>1. ask[q] \in Ask
  BY RegistryAssumption
<1> QED
  BY <1>1, RegistryAssumption

(* Rows that a request makes are rows.                                     *)
LEMMA NewRowType ==
  ASSUME NEW v \in Fields
  PROVE  NewRow(v) \in Row /\ PromptView(v) \in View
<1>1. Viewed \subseteq Field
  BY DEF Viewed, Field, Compared, Given, Plain
<1>2. PromptView(v) \in View
  BY <1>1 DEF PromptView, View, Fields
<1>3. Review(v) \in {"pending", "approved"}
  BY DEF Review
<1> QED
  BY <1>2, <1>3 DEF NewRow, Row

LEMMA CreatedType ==
  ASSUME TypeOK, NEW q \in Request, ask[q].kind = "create"
  PROVE  [ask[q].set EXCEPT !["persona"] = adopted[q]] \in Fields
<1>0. ask \in Requests
  BY DEF TypeOK
<1>1. DOMAIN ask[q].set = Field /\ \A f \in Field : ask[q].set[f] \in Value
  <2>1. DOMAIN ask[q].set = Field
    BY <1>0, AskIsWellFormed
  <2>2. \A f \in DOMAIN ask[q].set : ask[q].set[f] \in Value
    BY <1>0, AskIsWellFormed
  <2> QED
    BY <2>1, <2>2
<1>2. adopted[q] \in Value
  BY RegistryAssumption DEF TypeOK
<1> QED
  BY <1>1, <1>2 DEF Fields

LEMMA UpdatedType ==
  ASSUME TypeOK, NEW q \in Request, base[q] # NoRow, Exists(ask[q].agent)
  PROVE  Patched(q) \in Fields /\ Updated(q) \in Row
<1>0. adopted[q] \in Value
  BY RegistryAssumption DEF TypeOK
<1>1. base[q] \in Row /\ row[ask[q].agent] \in Row /\ adopted[q] \in Value
  BY <1>0, AskIsWellFormed DEF TypeOK, Exists
<1>2. base[q].fields \in Fields
  BY <1>1 DEF Row
<1>3. \A f \in DOMAIN ask[q].set : ask[q].set[f] \in Value
  BY AskIsWellFormed DEF TypeOK
<1>4. Patched(q) \in Fields
  BY <1>1, <1>2, <1>3 DEF Patched, Fields
<1>5. CASE ChangesCard(q)
  <2>1. NewRow(Patched(q)) \in Row /\ base[q].version + 1 \in Nat
    BY <1>1, <1>4, NewRowType DEF Row
  <2> QED
    BY <2>1, <1>4, <1>5 DEF Updated, Row
<1>6. CASE ~ ChangesCard(q)
  BY <1>1, <1>4, <1>6 DEF Updated, Row
<1> QED
  BY <1>4, <1>5, <1>6

(* A request that does not change the card keeps what the card is made     *)
(* of, as it has read it.                                                  *)
LEMMA UnchangedCard ==
  ASSUME TypeOK, NEW q \in Request, base[q] # NoRow, ~ ChangesCard(q)
  PROVE  \A f \in Compared \cup Given : Patched(q)[f] = base[q].fields[f]
<1> SUFFICES ASSUME NEW f \in Compared \cup Given
             PROVE  Patched(q)[f] = base[q].fields[f]
  OBVIOUS
<1>1. f \in Field /\ ask[q].template = NoPersona
  BY DEF ChangesCard, Field
<1>2. CASE f \in DOMAIN ask[q].set
  BY <1>1, <1>2 DEF ChangesCard, Patched
<1>3. CASE f \notin DOMAIN ask[q].set
  BY <1>1, <1>3 DEF Patched
<1> QED
  BY <1>2, <1>3

-----------------------------------------------------------------------------
(* How a step changes the steps of requests, the rows and what they read.  *)

(* A request that is done stays done, and what it saw stays what it saw.   *)
LEMMA DoneGrows ==
  ASSUME IInv, [Next]_vars
  PROVE  /\ ask' = ask
         /\ Done \subseteq Done'
         /\ \A q \in Request : before'[q] \in {before[q], Done}
         /\ \A q \in Done : before'[q] = before[q]
         /\ \A q \in Request : before'[q] \subseteq Done
         /\ \A q \in Request : before'[q] # before[q] => pc[q] = "new" \/ pc'[q] = "done"
<1> USE DEF TypeOK, Done, To, Looks, vars, store, review, local
<1>0. IInv => TypeOK /\ Lifecycle
  BY DEF IInv
<1>1. ASSUME NEW q \in Request, CreateBegin(q) \/ Resolve(q) \/ UpdateCommit(q) \/ Fail(q)
                               \/ RotateCommit(q) \/ ReplaceTagsCommit(q)
      PROVE  /\ ask' = ask /\ Done \subseteq Done' /\ before' = before
  BY <1>0, <1>1 DEF CreateBegin, Resolve, UpdateCommit, Fail, RotateCommit, ReplaceTagsCommit
<1>2. ASSUME NEW q \in Request, UpdateRead(q) \/ CreateCommit(q) \/ Disable(q) \/ Delete(q)
                               \/ ReplaceBegin(q) \/ AddTag(q) \/ DeleteTag(q)
      PROVE  /\ ask' = ask /\ Done \subseteq Done' /\ q \notin Done
             /\ before' = [before EXCEPT ![q] = Done]
             /\ pc[q] = "new" \/ pc'[q] = "done"
  BY <1>0, <1>2 DEF UpdateRead, CreateCommit, Disable, Delete, ReplaceBegin, AddTag, DeleteTag
<1>3. ASSUME NEW t \in Template, \/ \E p \in Persona : SubmitTemplate(t, p)
                                 \/ \E s \in {"approved", "rejected"} : SetTemplateStatus(t, s)
      PROVE  ask' = ask /\ Done' = Done /\ before' = before
  BY <1>3 DEF SubmitTemplate, SetTemplateStatus
<1>4. ASSUME UNCHANGED vars
      PROVE  ask' = ask /\ Done' = Done /\ before' = before
  BY <1>4
<1> QED
  BY <1>0, <1>1, <1>2, <1>3, <1>4 DEF Next, Lifecycle

LEMMA OverlapStays ==
  ASSUME IInv, [Next]_vars
  PROVE  /\ \A p, q : Overlap(p, q) => Overlap(p, q)'
         /\ \A a \in Agent : Interleaved(a) => Interleaved(a)'
<1>1. \A p, q : Overlap(p, q) => Overlap(p, q)'
  BY DoneGrows DEF Overlap
<1> QED
  BY <1>1, DoneGrows DEF Interleaved, WritesRow

(* The writers of a row.                                                   *)
Writes(q, a) ==
  /\ ask[q].agent = a /\ q \notin Done /\ q \in Done'
  /\ \/ CreateCommit(q) /\ row'[a] = NewRow([ask[q].set EXCEPT !["persona"] = adopted[q]])
     \/ UpdateCommit(q) /\ Exists(a) /\ row'[a] = Updated(q)
     \/ Disable(q) /\ Exists(a) /\ row'[a] = [row[a] EXCEPT !.fields["status"] = "disabled"]

LEMMA RowChanges ==
  ASSUME TypeOK, [Next]_vars, NEW a \in Agent
  PROVE  row'[a] \in {row[a], NoRow} \/ \E q \in Request : Writes(q, a)
<1> USE DEF TypeOK, Done, To, store, review, local, vars
<1>1. ASSUME NEW q \in Request, CreateCommit(q)
      PROVE  row'[a] = row[a] \/ Writes(q, a)
  BY <1>1, AskIsWellFormed DEF CreateCommit, Writes
<1>2. ASSUME NEW q \in Request, UpdateCommit(q)
      PROVE  row'[a] \in {row[a], NoRow} \/ Writes(q, a)
  BY <1>2, AskIsWellFormed DEF UpdateCommit, Writes
<1>3. ASSUME NEW q \in Request, Disable(q)
      PROVE  row'[a] = row[a] \/ Writes(q, a)
  <2>1. CASE Exists(ask[q].agent)
    BY <1>3, <2>1, AskIsWellFormed DEF Disable, Writes
  <2>2. CASE ~ Exists(ask[q].agent)
    BY <1>3, <2>2 DEF Disable
  <2> QED
    BY <2>1, <2>2
<1>4. ASSUME NEW q \in Request, Delete(q)
      PROVE  row'[a] \in {row[a], NoRow}
  BY <1>4, AskIsWellFormed DEF Delete
<1>5. ASSUME NEW q \in Request, \/ CreateBegin(q) \/ UpdateRead(q) \/ Resolve(q) \/ Fail(q)
                               \/ ReplaceBegin(q) \/ RotateCommit(q) \/ ReplaceTagsCommit(q)
                               \/ AddTag(q) \/ DeleteTag(q)
      PROVE  row' = row
  BY <1>5 DEF CreateBegin, UpdateRead, Resolve, Fail, ReplaceBegin, RotateCommit,
              ReplaceTagsCommit, AddTag, DeleteTag
<1>6. ASSUME NEW t \in Template, \/ \E p \in Persona : SubmitTemplate(t, p)
                                 \/ \E s \in {"approved", "rejected"} : SetTemplateStatus(t, s)
      PROVE  row' = row
  BY <1>6 DEF SubmitTemplate, SetTemplateStatus
<1>7. ASSUME UNCHANGED vars
      PROVE  row' = row
  BY <1>7
<1> QED
  BY <1>1, <1>2, <1>3, <1>4, <1>5, <1>6, <1>7 DEF Next

(* What a request has read, and the persona it adopts.                     *)
LEMMA ReadChanges ==
  ASSUME TypeOK, [Next]_vars, NEW q \in Request
  PROVE  /\ \/ base'[q] = base[q] /\ (pc[q] = "done" => pc'[q] = "done")
            \/ Exists(ask[q].agent) /\ row' = row /\ base'[q] = row[ask[q].agent]
         /\ adopted'[q] = adopted[q] \/ \E t \in ApprovedTemplates : adopted'[q] = template[t].persona
         /\ (pc'[q] \in {"read", "ready"} =>
              \/ pc[q] \in {"read", "ready"} /\ base'[q] = base[q]
              \/ ask[q].kind # "update"
              \/ base'[q] = row[ask[q].agent] /\ Exists(ask[q].agent))
         /\ (pc'[q] = "new" => pc[q] = "new" /\ base'[q] = base[q])
         /\ (pc'[q] = "read" => pc[q] = "read" \/ ask[q].kind \in {"create", "update"})
<1> USE DEF TypeOK, To, store, review, local, vars
<1>1. ASSUME NEW p \in Request, UpdateRead(p)
      PROVE  /\ row' = row /\ adopted' = adopted
             /\ \A x \in Request \ {p} : base'[x] = base[x] /\ pc'[x] = pc[x]
             /\ ask[p].kind = "update" /\ pc[p] = "new" /\ pc'[p] # "new"
             /\ \/ base'[p] = base[p] /\ pc'[p] = "failed"
                \/ Exists(ask[p].agent) /\ base'[p] = row[ask[p].agent]
  <2>1. CASE Exists(ask[p].agent)
    BY <1>1, <2>1 DEF UpdateRead
  <2>2. CASE ~ Exists(ask[p].agent)
    BY <1>1, <2>2 DEF UpdateRead
  <2> QED
    BY <2>1, <2>2
<1>2. ASSUME NEW p \in Request, CreateBegin(p)
      PROVE  /\ base' = base /\ adopted' = adopted /\ ask[p].kind = "create"
             /\ pc[p] = "new" /\ pc'[p] # "new"
             /\ \A x \in Request \ {p} : pc'[x] = pc[x]
  BY <1>2 DEF CreateBegin
<1>3. ASSUME NEW p \in Request, Resolve(p)
      PROVE  /\ base' = base /\ pc[p] = "read" /\ pc'[p] # "new"
             /\ \A x \in Request \ {p} : pc'[x] = pc[x]
             /\ \A x \in Request : \/ adopted'[x] = adopted[x]
                                   \/ \E t \in ApprovedTemplates : adopted'[x] = template[t].persona
  <2>1. CASE ask[p].template \in ApprovedTemplates
    BY <1>3, <2>1 DEF Resolve
  <2>2. CASE ask[p].template \notin ApprovedTemplates
    BY <1>3, <2>2 DEF Resolve
  <2> QED
    BY <2>1, <2>2
<1>4. ASSUME NEW p \in Request, ReplaceBegin(p)
      PROVE  /\ base' = base /\ adopted' = adopted /\ ask[p].kind \in {"rotate", "replace"}
             /\ pc[p] = "new" /\ pc'[p] \notin {"new", "read"}
             /\ \A x \in Request \ {p} : pc'[x] = pc[x]
  BY <1>4 DEF ReplaceBegin
<1>5. ASSUME NEW p \in Request, \/ CreateCommit(p) \/ UpdateCommit(p) \/ Fail(p) \/ Disable(p)
                               \/ Delete(p) \/ RotateCommit(p) \/ ReplaceTagsCommit(p)
                               \/ AddTag(p) \/ DeleteTag(p)
      PROVE  /\ base' = base /\ adopted' = adopted
             /\ pc'[p] \in {"done", "failed"} /\ pc[p] # "done"
             /\ \A x \in Request \ {p} : pc'[x] = pc[x]
  BY <1>5 DEF CreateCommit, UpdateCommit, Fail, Disable, Delete, RotateCommit,
              ReplaceTagsCommit, AddTag, DeleteTag
<1>6. ASSUME NEW t \in Template, \/ \E p \in Persona : SubmitTemplate(t, p)
                                 \/ \E s \in {"approved", "rejected"} : SetTemplateStatus(t, s)
      PROVE  base' = base /\ adopted' = adopted /\ pc' = pc
  BY <1>6 DEF SubmitTemplate, SetTemplateStatus
<1>7. ASSUME UNCHANGED vars
      PROVE  base' = base /\ adopted' = adopted /\ pc' = pc
  BY <1>7
<1> QED
  BY <1>1, <1>2, <1>3, <1>4, <1>5, <1>6, <1>7 DEF Next

-----------------------------------------------------------------------------
(* The inductive invariant holds initially.                                *)
LEMMA InvInit == Init => IInv
<1> SUFFICES ASSUME Init PROVE IInv
  OBVIOUS
<1>1. \A a \in Existing : [fields |-> Stored[a], version |-> 1,
                           view |-> NoView, review |-> "approved"] \in Row
  BY RegistryAssumption DEF Row
<1>2. \A t \in Template : Builtin[t] \in Persona \cup {NoPersona}
  BY RegistryAssumption
<1>3. TypeOK
  <2>1. row \in [Agent -> Row \cup {NoRow}]
    BY <1>1 DEF Init
  <2>2. keys \in [Agent -> SUBSET Key] /\ tags \in [Agent -> SUBSET TagRow]
    BY DEF Init, Key
  <2>3. template \in [Template -> [persona : Persona \cup {NoPersona},
                                  status : {"absent", "pending", "approved", "rejected"}]]
    BY <1>2 DEF Init
  <2>4. vetted \subseteq Persona \cup {NoPersona}
    BY <1>2 DEF Init
  <2> QED
    BY <2>1, <2>2, <2>3, <2>4 DEF Init, TypeOK
<1>4. Done = {}
  BY DEF Init, Done
<1>5. Lifecycle
  BY <1>4 DEF Init, Lifecycle, Born, Exists
<1>6. BasesAreCurrent /\ UnseenIsLater
  BY DEF Init, BasesAreCurrent, UnseenIsLater
<1>7. CardsAreReviewed
  <2>1. ASSUME NEW a \in Agent, Exists(a)
        PROVE  Passed(a, row[a])
    <3>1. a \in Existing /\ row[a].fields = Stored[a]
      BY <2>1 DEF Init, Exists
    <3> QED
      BY <3>1, RegistryAssumption DEF Passed, Legacy
  <2>2. \A t \in ApprovedTemplates : template[t].persona \in vetted
    BY DEF Init, ApprovedTemplates
  <2> QED
    BY <2>1, <2>2 DEF Init, CardsAreReviewed
<1>8. ViewsAreCurrent
  BY DEF Init, ViewsAreCurrent, Exists
<1>9. KeysAreReplaced /\ TagsAreReplaced
  BY <1>4 DEF Init, KeysAreReplaced, TagsAreReplaced, Exists
<1> QED
  BY <1>3, <1>5, <1>6, <1>7, <1>8, <1>9 DEF IInv

-----------------------------------------------------------------------------
(* Every step keeps each part of the invariant.                            *)

LEMMA TypeKept ==
  ASSUME TypeOK, Lifecycle, [Next]_vars
  PROVE  TypeOK'
<1> USE DEF TypeOK, To, Looks, store, review, local, vars
<1>0. Done \subseteq Request
  BY DEF Done
<1>1. ASSUME NEW q \in Request, CreateBegin(q) \/ Fail(q)
      PROVE  TypeOK'
  BY <1>1 DEF CreateBegin, Fail
<1>2. ASSUME NEW q \in Request, UpdateRead(q)
      PROVE  TypeOK'
  BY <1>0, <1>2, AskIsWellFormed DEF UpdateRead
<1>3. ASSUME NEW q \in Request, Resolve(q)
      PROVE  TypeOK'
  <2>1. ask[q].template \in ApprovedTemplates =>
          template[ask[q].template].persona \in Persona \cup {NoPersona}
    BY DEF ApprovedTemplates
  <2> QED
    BY <1>3, <2>1 DEF Resolve
<1>4. ASSUME NEW q \in Request, CreateCommit(q)
      PROVE  TypeOK'
  <2>1. NewRow([ask[q].set EXCEPT !["persona"] = adopted[q]]) \in Row
    BY <1>4, CreatedType, NewRowType DEF CreateCommit
  <2>2. {q} \subseteq Key /\ With({}, q) \subseteq TagRow
    BY AskIsWellFormed DEF Key, With, TagRow
  <2> QED
    BY <1>0, <1>4, <2>1, <2>2 DEF CreateCommit
<1>5. ASSUME NEW q \in Request, UpdateCommit(q)
      PROVE  TypeOK'
  <2>1. Exists(ask[q].agent) => Updated(q) \in Row
    BY <1>5, UpdatedType DEF UpdateCommit, Lifecycle
  <2> QED
    BY <1>5, <2>1 DEF UpdateCommit
<1>6. ASSUME NEW q \in Request, Disable(q)
      PROVE  TypeOK'
  <2>1. ASSUME Exists(ask[q].agent)
        PROVE  [row[ask[q].agent] EXCEPT !.fields["status"] = "disabled"] \in Row
    <3>1. row[ask[q].agent] \in Row /\ "disabled" \in Value
      BY <2>1, AskIsWellFormed, RegistryAssumption DEF Exists
    <3> QED
      BY <3>1 DEF Row, Fields
  <2>2. CASE Exists(ask[q].agent)
    BY <1>0, <1>6, <2>1, <2>2 DEF Disable
  <2>3. CASE ~ Exists(ask[q].agent)
    BY <1>0, <1>6, <2>3 DEF Disable
  <2> QED
    BY <2>2, <2>3
<1>7. ASSUME NEW q \in Request, Delete(q)
      PROVE  TypeOK'
  BY <1>0, <1>7 DEF Delete
<1>8. ASSUME NEW q \in Request, ReplaceBegin(q)
      PROVE  TypeOK'
  <2>1. Replaced(q) \subseteq Key \cup TagRow
    BY AskIsWellFormed DEF Replaced
  <2> QED
    BY <1>0, <1>8, <2>1 DEF ReplaceBegin
<1>9. ASSUME NEW q \in Request, RotateCommit(q)
      PROVE  TypeOK'
  <2>1. (keys[ask[q].agent] \ snap[q]) \cup {q} \subseteq Key
    BY AskIsWellFormed DEF Key
  <2> QED
    BY <1>9, <2>1 DEF RotateCommit
<1>10. ASSUME NEW q \in Request, ReplaceTagsCommit(q) \/ AddTag(q)
       PROVE  TypeOK'
  <2>1. \A R \in SUBSET TagRow : With(R, q) \subseteq TagRow
    BY AskIsWellFormed DEF With, TagRow
  <2>2. tags[ask[q].agent] \subseteq TagRow
    BY AskIsWellFormed
  <2>3. CASE ReplaceTagsCommit(q)
    BY <2>1, <2>2, <2>3 DEF ReplaceTagsCommit
  <2>4. CASE AddTag(q)
    BY <1>0, <2>1, <2>2, <2>4 DEF AddTag
  <2> QED
    BY <1>10, <2>3, <2>4
<1>11. ASSUME NEW q \in Request, DeleteTag(q)
       PROVE  TypeOK'
  <2>1. {r \in tags[ask[q].agent] : r[1] \notin ask[q].tags} \subseteq TagRow
    BY AskIsWellFormed
  <2> QED
    BY <1>0, <1>11, <2>1 DEF DeleteTag
<1>12. ASSUME NEW t \in Template, NEW p \in Persona, SubmitTemplate(t, p)
       PROVE  TypeOK'
  BY <1>12 DEF SubmitTemplate
<1>13. ASSUME NEW t \in Template, NEW s \in {"approved", "rejected"}, SetTemplateStatus(t, s)
       PROVE  TypeOK'
  <2>1. template[t].persona \in Persona \cup {NoPersona}
    OBVIOUS
  <2>2. template' \in [Template -> [persona : Persona \cup {NoPersona},
                                   status : {"absent", "pending", "approved", "rejected"}]]
    BY <1>13 DEF SetTemplateStatus
  <2>3. vetted' \subseteq Persona \cup {NoPersona}
    BY <1>13, <2>1 DEF SetTemplateStatus
  <2> QED
    BY <1>13, <2>2, <2>3 DEF SetTemplateStatus
<1>14. CASE UNCHANGED vars
  BY <1>14
<1> QED
  BY <1>1, <1>2, <1>3, <1>4, <1>5, <1>6, <1>7, <1>8, <1>9, <1>10, <1>11, <1>12, <1>13, <1>14
     DEF Next

(* Requests that are not done do not own what they would create.           *)
LEMMA CreatorIsFirst ==
  ASSUME IInv, NEW q \in Request, CreateCommit(q)
  PROVE  ~ Born(ask[q].agent)
<1>1. q \notin Done /\ TypeOK
  BY DEF CreateCommit, Done, IInv
<1> QED
  BY <1>1, AskIsWellFormed DEF Born, CreateCommit, Done, TypeOK

LEMMA LifecycleKept ==
  ASSUME IInv, TypeOK', [Next]_vars
  PROVE  Lifecycle'
<1>0. TypeOK /\ Lifecycle
  BY DEF IInv
<1>1. \A a \in Agent : Born(a) => Born(a)'
  BY DoneGrows DEF Born
<1>2. \A q \in Request : before'[q] \subseteq Done'
  BY DoneGrows
<1>3. ASSUME NEW a \in Agent, Exists(a)'
      PROVE  Born(a)'
  <2>1. CASE Exists(a)
    BY <1>0, <1>1, <2>1 DEF Lifecycle
  <2>2. CASE ~ Exists(a)
    <3>1. PICK q \in Request : Writes(q, a)
      BY <1>0, <1>3, <2>2, RowChanges DEF Exists
    <3>2. CreateCommit(q)
      BY <2>2, <3>1 DEF Writes
    <3> QED
      BY <3>1, <3>2, DoneGrows DEF Writes, CreateCommit, Born
  <2> QED
    BY <2>1, <2>2
<1>4. ASSUME NEW q \in Request, base'[q] # NoRow
      PROVE  Born(ask[q].agent)'
  <2>1. Born(ask[q].agent)
    BY <1>0, <1>4, ReadChanges, AskIsWellFormed DEF Lifecycle, TypeOK
  <2> QED
    BY <1>0, <1>1, <2>1, AskIsWellFormed, DoneGrows DEF TypeOK
<1>5. ASSUME NEW q \in Request, ask'[q].kind = "update", pc'[q] \in {"read", "ready"}
      PROVE  base'[q] # NoRow
  BY <1>0, <1>5, DoneGrows, ReadChanges DEF Lifecycle, Exists
<1>6. ASSUME NEW q \in Request, pc'[q] = "new"
      PROVE  base'[q] = NoRow
  BY <1>0, <1>6, ReadChanges DEF Lifecycle
<1>7. ASSUME NEW q \in Request, pc'[q] = "read"
      PROVE  ask'[q].kind \in {"create", "update"}
  BY <1>0, <1>7, DoneGrows, ReadChanges DEF Lifecycle
<1> QED
  BY <1>2, <1>3, <1>4, <1>5, <1>6, <1>7 DEF Lifecycle

LEMMA BasesKept ==
  ASSUME IInv, TypeOK', [Next]_vars
  PROVE  BasesAreCurrent'
<1>0. TypeOK /\ Lifecycle /\ BasesAreCurrent
  BY DEF IInv
<1> SUFFICES ASSUME NEW q \in Request, base'[q] # NoRow, pc'[q] # "done"
             PROVE  row'[ask[q].agent] \in {NoRow, base'[q]} \/ Stale(q)'
  BY DoneGrows DEF BasesAreCurrent
<1> DEFINE a == ask[q].agent
<1>1. a \in Agent
  BY <1>0, AskIsWellFormed DEF TypeOK
<1>2. CASE row' = row /\ base'[q] = row[a]
  BY <1>2
<1>3. CASE base'[q] = base[q] /\ (pc[q] = "done" => pc'[q] = "done")
  <2>1. row[a] \in {NoRow, base[q]} \/ Stale(q)
    BY <1>0, <1>3 DEF BasesAreCurrent
  <2>2. CASE Stale(q) /\ before'[q] = before[q]
    BY <2>2, DoneGrows DEF Stale, WritesRow
  <2>3. CASE row'[a] \in {row[a], NoRow} /\ row[a] \in {NoRow, base[q]}
    BY <1>3, <2>3
  <2>4. CASE \E p \in Request : Writes(p, a)
    <3>1. PICK p \in Request : Writes(p, a)
      BY <2>4
    <3>2. p \in Done' /\ p \notin before'[q]
      BY <3>1, DoneGrows DEF Writes
    <3>3. CASE CreateCommit(p)
      BY <1>0, <1>3, <3>1, <3>3, CreatorIsFirst DEF Writes, Lifecycle
    <3>4. CASE UpdateCommit(p) \/ Disable(p)
      <4>1. WritesRow(p, a)'
        BY <3>1, <3>4, DoneGrows DEF Writes, WritesRow, UpdateCommit, Disable
      <4> QED
        BY <3>2, <4>1, DoneGrows DEF Stale
    <3> QED
      BY <3>1, <3>3, <3>4 DEF Writes
  <2>5. before'[q] = before[q]
    BY <1>0, <1>3, DoneGrows DEF Lifecycle
  <2> QED
    BY <1>0, <1>1, <2>1, <2>2, <2>3, <2>4, <2>5, RowChanges
<1> QED
  BY <1>0, <1>2, <1>3, ReadChanges

(* The row that a writer leaves behind passed its review.                  *)
LEMMA WriterPasses ==
  ASSUME IInv, NEW a \in Agent, NEW q \in Request, Writes(q, a)
  PROVE  Passed(a, row'[a])
<1>0. TypeOK /\ Lifecycle /\ CardsAreReviewed /\ adopted[q] \in vetted \cup {NoPersona}
  BY DEF IInv, CardsAreReviewed
<1>1. ASSUME NEW v \in Fields, v["persona"] \in vetted \cup {NoPersona}
      PROVE  Passed(a, NewRow(v))
  BY <1>1 DEF Passed, NewRow, Review
<1>2. CASE CreateCommit(q) /\ row'[a] = NewRow([ask[q].set EXCEPT !["persona"] = adopted[q]])
  <2> DEFINE v == [ask[q].set EXCEPT !["persona"] = adopted[q]]
  <2>1. v \in Fields
    BY <1>0, <1>2, CreatedType DEF CreateCommit
  <2>2. "persona" \in DOMAIN ask[q].set
    BY <1>0, <1>2, AskIsWellFormed DEF CreateCommit, TypeOK, Field, Given
  <2> QED
    BY <1>0, <1>1, <1>2, <2>1, <2>2
<1>3. CASE UpdateCommit(q) /\ Exists(a) /\ row'[a] = Updated(q)
  <2>1. /\ ask[q].agent = a /\ base[q] # NoRow
        /\ Passed(a, base[q]) /\ base[q] \in Row
    BY <1>0, <1>3 DEF Writes, UpdateCommit, Lifecycle, CardsAreReviewed, TypeOK
  <2>2. Patched(q) \in Fields
    BY <1>0, <1>3, <2>1, UpdatedType
  <2>3. Patched(q)["persona"] \in vetted \cup {NoPersona}
    <3>1. "persona" \in Field
      BY DEF Field, Given
    <3>2. "persona" \in DOMAIN ask[q].set => ask[q].set["persona"] = NoPersona
      BY <1>0, AskIsWellFormed DEF TypeOK
    <3> QED
      BY <1>0, <2>1, <3>1, <3>2 DEF Patched, Passed
  <2>4. CASE ChangesCard(q)
    <3>1. Passed(a, NewRow(Patched(q)))
      BY <1>1, <2>2, <2>3
    <3> QED
      BY <1>3, <2>4, <3>1 DEF Updated, Passed, NewRow
  <2>5. CASE ~ ChangesCard(q)
    <3>1. \A f \in Reviewed : Patched(q)[f] = base[q].fields[f]
      BY <1>0, <2>1, <2>5, UnchangedCard DEF Reviewed, Compared, Given
    <3>2. /\ row'[a].fields = Patched(q) /\ row'[a].review = base[q].review
      BY <1>3, <2>1, <2>5 DEF Updated, Row
    <3>3. IsPureCatalogCard(base[q].fields) => IsPureCatalogCard(Patched(q))
      BY <3>1 DEF IsPureCatalogCard, Reviewed
    <3>4. Legacy(a, base[q].fields) => Legacy(a, Patched(q))
      BY <3>1 DEF Legacy
    <3> QED
      BY <2>1, <2>3, <3>2, <3>3, <3>4 DEF Passed
  <2> QED
    BY <2>4, <2>5
<1>4. CASE Exists(a) /\ row'[a] = [row[a] EXCEPT !.fields["status"] = "disabled"]
  <2>1. Passed(a, row[a]) /\ row[a] \in Row /\ row[a].fields \in Fields
    BY <1>0, <1>4 DEF CardsAreReviewed, TypeOK, Exists, Row
  <2>2. /\ row'[a].review = row[a].review
        /\ \A f \in Field \ {"status"} : row'[a].fields[f] = row[a].fields[f]
    BY <1>4, <2>1 DEF Row, Fields
  <2>3. Reviewed \cup {"persona"} \subseteq Field \ {"status"}
    BY DEF Reviewed, Field, Compared, Given, Plain
  <2> QED
    BY <2>1, <2>2, <2>3 DEF Passed, Legacy, IsPureCatalogCard, Reviewed
<1> QED
  BY <1>2, <1>3, <1>4 DEF Writes

(* Contents stay approved, and a template is approved with its content.    *)
LEMMA VettedGrows ==
  ASSUME TypeOK, CardsAreReviewed, [Next]_vars
  PROVE  /\ vetted \subseteq vetted'
         /\ \A t \in ApprovedTemplates' : template'[t].persona \in vetted'
<1> USE DEF TypeOK, CardsAreReviewed, ApprovedTemplates, review, store, local, vars
<1>1. ASSUME UNCHANGED review
      PROVE  /\ vetted' = vetted /\ template' = template
  BY <1>1
<1>2. ASSUME NEW q \in Request, \/ CreateBegin(q) \/ UpdateRead(q) \/ Resolve(q) \/ Fail(q)
                               \/ CreateCommit(q) \/ UpdateCommit(q) \/ Disable(q) \/ Delete(q)
                               \/ ReplaceBegin(q) \/ RotateCommit(q) \/ ReplaceTagsCommit(q)
                               \/ AddTag(q) \/ DeleteTag(q)
      PROVE  UNCHANGED review
  BY <1>2 DEF CreateBegin, UpdateRead, Resolve, Fail, CreateCommit, UpdateCommit, Disable, Delete,
              ReplaceBegin, RotateCommit, ReplaceTagsCommit, AddTag, DeleteTag
<1>3. ASSUME NEW t \in Template, NEW p \in Persona, SubmitTemplate(t, p)
      PROVE  /\ vetted' = vetted
             /\ \A x \in ApprovedTemplates' : template'[x].persona \in vetted'
  BY <1>3 DEF SubmitTemplate
<1>4. ASSUME NEW t \in Template, NEW s \in {"approved", "rejected"}, SetTemplateStatus(t, s)
      PROVE  /\ vetted \subseteq vetted'
             /\ \A x \in ApprovedTemplates' : template'[x].persona \in vetted'
  BY <1>4 DEF SetTemplateStatus
<1> QED
  BY <1>1, <1>2, <1>3, <1>4 DEF Next

LEMMA CardsKept ==
  ASSUME IInv, TypeOK', [Next]_vars
  PROVE  CardsAreReviewed'
<1>0. TypeOK /\ Lifecycle /\ CardsAreReviewed
  BY DEF IInv
<1>1. \A a, r : Passed(a, r) => Passed(a, r)'
  BY <1>0, VettedGrows DEF Passed, Legacy
<1>2. \A t \in ApprovedTemplates' : template'[t].persona \in vetted'
  BY <1>0, VettedGrows
<1>3. \A q \in Request : adopted'[q] \in vetted' \cup {NoPersona}
  BY <1>0, VettedGrows, ReadChanges DEF CardsAreReviewed
<1>4. ASSUME NEW a \in Agent, Exists(a)'
      PROVE  Passed(a, row[a])'
  <2>1. Passed(a, row'[a])
    BY <1>0, <1>4, RowChanges, WriterPasses DEF CardsAreReviewed, Exists
  <2> QED
    BY <2>1, <1>0, VettedGrows DEF Passed, Legacy
<1>5. ASSUME NEW q \in Request, base'[q] # NoRow
      PROVE  Passed(ask[q].agent, base[q])'
  <2>1. Passed(ask[q].agent, base'[q])
    BY <1>0, <1>5, ReadChanges, AskIsWellFormed DEF CardsAreReviewed, TypeOK
  <2> QED
    BY <2>1, <1>0, VettedGrows, DoneGrows DEF Passed, Legacy
<1> QED
  BY <1>2, <1>3, <1>4, <1>5 DEF CardsAreReviewed

LEMMA ViewsKept ==
  ASSUME IInv, TypeOK', [Next]_vars
  PROVE  ViewsAreCurrent'
<1>0. TypeOK /\ Lifecycle /\ ViewsAreCurrent /\ BasesAreCurrent
  BY DEF IInv
<1> SUFFICES ASSUME NEW a \in Agent, Exists(a)'
             PROVE  row'[a].view \in {NoView, PromptView(row'[a].fields)} \/ Interleaved(a)'
  BY DEF ViewsAreCurrent
<1>1. CASE row'[a] = row[a]
  BY <1>0, <1>1, OverlapStays DEF ViewsAreCurrent, Exists
<1>2. ASSUME NEW q \in Request, Writes(q, a), CreateCommit(q),
             row'[a] = NewRow([ask[q].set EXCEPT !["persona"] = adopted[q]])
      PROVE  row'[a].view = PromptView(row'[a].fields)
  BY <1>2 DEF NewRow
<1>3. ASSUME NEW q \in Request, Writes(q, a), UpdateCommit(q), Exists(a), row'[a] = Updated(q)
      PROVE  row'[a].view \in {NoView, PromptView(row'[a].fields)} \/ Interleaved(a)'
  <2>1. ask[q].agent = a /\ base[q] # NoRow /\ base[q] \in Row /\ pc[q] # "done"
    BY <1>0, <1>3 DEF Writes, UpdateCommit, Lifecycle, TypeOK
  <2>2. CASE ChangesCard(q)
    BY <1>3, <2>2 DEF Updated, NewRow
  <2>3. CASE ~ ChangesCard(q) /\ row[a] = base[q]
    <3>1. row'[a].fields = Patched(q) /\ row'[a].view = row[a].view
      BY <1>3, <2>1, <2>3 DEF Updated, Row
    <3>2. \A f \in Viewed : Patched(q)[f] = base[q].fields[f]
      BY <1>0, <2>1, <2>3, UnchangedCard DEF Viewed, Compared, Given
    <3>3. PromptView(Patched(q)) = PromptView(row[a].fields)
      BY <2>3, <3>2 DEF PromptView
    <3> QED
      BY <1>0, <1>3, <3>1, <3>3, OverlapStays DEF ViewsAreCurrent
  <2>4. CASE Stale(q)
    <3>1. PICK p \in Done : WritesRow(p, a) /\ p \notin before[q]
      BY <2>1, <2>4 DEF Stale
    <3>2. /\ p \in Done' /\ q \in Done' /\ p # q
          /\ before' = before /\ q \notin before[p]
      BY <1>0, <1>3, <3>1, DoneGrows DEF Writes, UpdateCommit, Lifecycle, local, Done
    <3>3. Overlap(p, q)'
      BY <3>1, <3>2 DEF Overlap
    <3>4. WritesRow(p, a)' /\ WritesRow(q, a)'
      BY <1>3, <2>1, <3>1, DoneGrows DEF WritesRow, UpdateCommit
    <3> QED
      BY <3>1, <3>3, <3>4 DEF Interleaved, Done
  <2> QED
    BY <1>0, <1>3, <2>1, <2>2, <2>3, <2>4 DEF BasesAreCurrent, Exists
<1>4. ASSUME Exists(a), row'[a] = [row[a] EXCEPT !.fields["status"] = "disabled"]
      PROVE  row'[a].view \in {NoView, PromptView(row'[a].fields)} \/ Interleaved(a)'
  <2>1. row[a] \in Row /\ row[a].fields \in Fields
    BY <1>0, <1>4 DEF TypeOK, Exists, Row
  <2>2. /\ row'[a].view = row[a].view
        /\ \A f \in Viewed : row'[a].fields[f] = row[a].fields[f]
    BY <1>4, <2>1 DEF Row, Fields, Viewed, Field, Compared, Given, Plain
  <2>3. PromptView(row'[a].fields) = PromptView(row[a].fields)
    BY <2>2 DEF PromptView
  <2> QED
    BY <1>0, <1>4, <2>2, <2>3, OverlapStays DEF ViewsAreCurrent
<1> QED
  BY <1>0, <1>1, <1>2, <1>3, <1>4, RowChanges DEF Writes, Exists

-----------------------------------------------------------------------------
(* How a step changes keys and tags.                                       *)
LEMMA SetChanges ==
  ASSUME IInv, [Next]_vars
  PROVE  /\ \A a \in Agent : \A k \in keys'[a] :
              k \in keys[a] \/ (k \in Request /\ k \notin Done /\ k \in Done')
         /\ \A a \in Agent : \A r \in tags'[a] :
              \/ r \in tags[a]
              \/ /\ r[2] \in Request /\ r[2] \notin Done
                 /\ ask[r[2]].agent = a /\ r[1] \in ask[r[2]].tags
         /\ \A q \in Request : pc'[q] = "ready" /\ ask[q].kind \in {"rotate", "replace"} =>
              \/ pc[q] = "ready" /\ snap'[q] = snap[q] /\ before'[q] = before[q]
              \/ /\ snap'[q] = Replaced(q) /\ keys' = keys /\ tags' = tags
<1> USE DEF TypeOK, Done, To, Looks, store, review, local, vars
<1>0. TypeOK /\ Lifecycle
  BY DEF IInv
<1>1. ASSUME NEW q \in Request, ReplaceBegin(q)
      PROVE  /\ keys' = keys /\ tags' = tags
             /\ pc'[q] = "ready" => snap'[q] = Replaced(q)
             /\ \A p \in Request \ {q} : /\ pc'[p] = pc[p] /\ snap'[p] = snap[p]
                                         /\ before'[p] = before[p]
  BY <1>0, <1>1 DEF ReplaceBegin
<1>2. ASSUME NEW q \in Request, \/ CreateCommit(q) \/ RotateCommit(q) \/ ReplaceTagsCommit(q)
                               \/ AddTag(q) \/ DeleteTag(q) \/ Delete(q)
      PROVE  /\ snap' = snap /\ pc[q] # "done" /\ pc'[q] # "ready"
             /\ \A p \in Request \ {q} : pc'[p] = pc[p] /\ before'[p] = before[p]
  BY <1>0, <1>2 DEF CreateCommit, RotateCommit, ReplaceTagsCommit, AddTag, DeleteTag, Delete
<1>3. ASSUME NEW q \in Request, CreateCommit(q), NEW a \in Agent
      PROVE  /\ keys'[a] \subseteq keys[a] \cup {q} /\ q \in Done'
             /\ \A r \in tags'[a] : \/ r \in tags[a]
                                    \/ r[2] = q /\ ask[q].agent = a /\ r[1] \in ask[q].tags
  BY <1>0, <1>3 DEF CreateCommit, With
<1>4. ASSUME NEW q \in Request, RotateCommit(q), NEW a \in Agent
      PROVE  keys'[a] \subseteq keys[a] \cup {q} /\ q \in Done' /\ tags' = tags
  BY <1>0, <1>4 DEF RotateCommit
<1>5. ASSUME NEW q \in Request, ReplaceTagsCommit(q), NEW a \in Agent
      PROVE  /\ keys' = keys
             /\ \A r \in tags'[a] : \/ r \in tags[a]
                                    \/ r[2] = q /\ ask[q].agent = a /\ r[1] \in ask[q].tags
  BY <1>0, <1>5 DEF ReplaceTagsCommit, With
<1>6. ASSUME NEW q \in Request, AddTag(q), NEW a \in Agent
      PROVE  /\ keys' = keys
             /\ \A r \in tags'[a] : \/ r \in tags[a]
                                    \/ r[2] = q /\ ask[q].agent = a /\ r[1] \in ask[q].tags
  <2>1. CASE Exists(ask[q].agent)
    BY <1>0, <1>6, <2>1 DEF AddTag, With
  <2>2. CASE ~ Exists(ask[q].agent)
    BY <1>0, <1>6, <2>2 DEF AddTag
  <2> QED
    BY <2>1, <2>2
<1>7. ASSUME NEW q \in Request, DeleteTag(q) \/ Delete(q), NEW a \in Agent
      PROVE  keys'[a] \subseteq keys[a] /\ tags'[a] \subseteq tags[a]
  BY <1>0, <1>7 DEF DeleteTag, Delete
<1>8. ASSUME NEW q \in Request, CreateBegin(q) \/ UpdateRead(q) \/ Resolve(q)
                               \/ UpdateCommit(q) \/ Fail(q) \/ Disable(q)
      PROVE  /\ keys' = keys /\ tags' = tags /\ snap' = snap
             /\ \A p \in Request \ {q} : pc'[p] = pc[p] /\ before'[p] = before[p]
             /\ pc'[q] = "ready" => ask[q].kind \in {"create", "update"} \/ pc[q] = "read"
  BY <1>0, <1>8 DEF CreateBegin, UpdateRead, Resolve, UpdateCommit, Fail, Disable
<1>9. ASSUME NEW t \in Template, \/ \E p \in Persona : SubmitTemplate(t, p)
                                 \/ \E s \in {"approved", "rejected"} : SetTemplateStatus(t, s)
      PROVE  UNCHANGED <<store, pc, local>>
  BY <1>9 DEF SubmitTemplate, SetTemplateStatus
<1> QED
  BY <1>0, <1>1, <1>2, <1>3, <1>4, <1>5, <1>6, <1>7, <1>8, <1>9 DEF Next, Lifecycle

LEMMA UnseenKept ==
  ASSUME IInv, TypeOK', [Next]_vars
  PROVE  UnseenIsLater'
<1>0. TypeOK /\ UnseenIsLater
  BY DEF IInv
<1> SUFFICES ASSUME NEW q \in Request, pc'[q] = "ready"
             PROVE  /\ ask[q].kind = "rotate" =>
                         \A k \in keys'[ask[q].agent] \ snap'[q] :
                           k \in Done' /\ k \notin before'[q]
                    /\ ask[q].kind = "replace" =>
                         \A r \in tags'[ask[q].agent] \ snap'[q] : r[2] \notin before'[q]
  BY DoneGrows DEF UnseenIsLater
<1>1. ask[q].agent \in Agent
  BY <1>0, AskIsWellFormed DEF TypeOK
<1>2. CASE ask[q].kind = "rotate"
  <2>1. CASE snap'[q] = Replaced(q) /\ keys' = keys
    BY <1>2, <2>1 DEF Replaced
  <2>2. CASE pc[q] = "ready" /\ snap'[q] = snap[q] /\ before'[q] = before[q]
    <3> SUFFICES ASSUME NEW k \in keys'[ask[q].agent] \ snap[q]
                 PROVE  k \in Done' /\ k \notin before[q]
      BY <1>2, <2>2
    <3>1. CASE k \in keys[ask[q].agent]
      BY <1>0, <1>2, <2>2, <3>1, DoneGrows DEF UnseenIsLater
    <3>2. CASE k \notin Done /\ k \in Done'
      BY <2>2, <3>2, DoneGrows
    <3> QED
      BY <1>1, <3>1, <3>2, SetChanges
  <2> QED
    BY <1>2, <2>1, <2>2, SetChanges
<1>3. CASE ask[q].kind = "replace"
  <2>1. CASE snap'[q] = Replaced(q) /\ tags' = tags
    BY <1>3, <2>1 DEF Replaced
  <2>2. CASE pc[q] = "ready" /\ snap'[q] = snap[q] /\ before'[q] = before[q]
    <3> SUFFICES ASSUME NEW r \in tags'[ask[q].agent] \ snap[q]
                 PROVE  r[2] \notin before[q]
      BY <1>3, <2>2
    <3>1. CASE r \in tags[ask[q].agent]
      BY <1>0, <1>3, <2>2, <3>1 DEF UnseenIsLater
    <3>2. CASE r[2] \notin Done
      BY <2>2, <3>2, DoneGrows
    <3> QED
      BY <1>1, <3>1, <3>2, SetChanges
  <2> QED
    BY <1>3, <2>1, <2>2, SetChanges
<1> QED
  BY <1>2, <1>3

LEMMA KeySteps ==
  ASSUME TypeOK, [Next]_vars, NEW a \in Agent
  PROVE  \/ keys'[a] = keys[a] /\ ~ (\E q \in Request : CreateCommit(q) /\ ask[q].agent = a)
         \/ keys'[a] = {} /\ row'[a] = NoRow
         \/ \E q \in Request : keys'[a] = {q}
         \/ \E q \in Request : /\ RotateCommit(q) /\ ask[q].agent = a
                              /\ q \notin Done /\ q \in Done'
                              /\ keys'[a] = (keys[a] \ snap[q]) \cup {q}
<1> USE DEF TypeOK, Done, To, store, review, local, vars
<1>1. ASSUME NEW q \in Request, CreateCommit(q)
      PROVE  \/ keys'[a] = {q}
             \/ /\ keys'[a] = keys[a]
                /\ \A p \in Request : CreateCommit(p) => ask[p].agent # a
  <2>1. CASE ask[q].agent = a
    BY <1>1, <2>1 DEF CreateCommit
  <2>2. CASE ask[q].agent # a
    <3>1. \A p \in Request : CreateCommit(p) => p = q
      BY <1>1 DEF CreateCommit
    <3> QED
      BY <1>1, <2>2, <3>1 DEF CreateCommit
  <2> QED
    BY <2>1, <2>2
<1>2. ASSUME NEW q \in Request, RotateCommit(q)
      PROVE  \/ keys'[a] = keys[a] /\ row' = row
             \/ /\ ask[q].agent = a /\ q \notin Done /\ q \in Done'
                /\ keys'[a] = (keys[a] \ snap[q]) \cup {q}
  BY <1>2 DEF RotateCommit
<1>3. ASSUME NEW q \in Request, Delete(q)
      PROVE  keys'[a] = keys[a] \/ (keys'[a] = {} /\ row'[a] = NoRow)
  BY <1>3 DEF Delete
<1>4. ASSUME NEW q \in Request, \/ CreateBegin(q) \/ UpdateRead(q) \/ Resolve(q) \/ Fail(q)
                               \/ UpdateCommit(q) \/ Disable(q) \/ ReplaceBegin(q)
                               \/ ReplaceTagsCommit(q) \/ AddTag(q) \/ DeleteTag(q)
      PROVE  keys' = keys
  BY <1>4 DEF CreateBegin, UpdateRead, Resolve, Fail, UpdateCommit, Disable, ReplaceBegin,
              ReplaceTagsCommit, AddTag, DeleteTag
<1>5. ASSUME NEW t \in Template, \/ \E p \in Persona : SubmitTemplate(t, p)
                                 \/ \E s \in {"approved", "rejected"} : SetTemplateStatus(t, s)
      PROVE  keys' = keys /\ pc' = pc
  BY <1>5 DEF SubmitTemplate, SetTemplateStatus
<1>6. ASSUME UNCHANGED vars
      PROVE  keys' = keys /\ pc' = pc
  BY <1>6
<1>7. ASSUME NEW q \in Request, CreateCommit(q), ask[q].agent = a
      PROVE  keys'[a] = {q}
  BY <1>7 DEF CreateCommit
<1> QED
  BY <1>1, <1>2, <1>3, <1>4, <1>5, <1>6, <1>7 DEF Next

LEMMA KeysKept ==
  ASSUME IInv, TypeOK', [Next]_vars
  PROVE  KeysAreReplaced'
<1>0. TypeOK /\ Lifecycle /\ KeysAreReplaced /\ UnseenIsLater
  BY DEF IInv
<1> SUFFICES ASSUME NEW a \in Agent
             PROVE  /\ Exists(a)' => keys'[a] # {}
                    /\ \A p, q \in keys'[a] : p # q => Overlap(p, q)'
  BY DEF KeysAreReplaced
<1>1. CASE keys'[a] = keys[a] /\ ~ (\E q \in Request : CreateCommit(q) /\ ask[q].agent = a)
  <2>1. Exists(a)' => Exists(a)
    BY <1>0, <1>1, RowChanges DEF Exists, Writes
  <2> QED
    BY <1>0, <1>1, <2>1, OverlapStays DEF KeysAreReplaced
<1>2. CASE keys'[a] = {} /\ row'[a] = NoRow
  BY <1>2 DEF Exists
<1>3. CASE \E q \in Request : keys'[a] = {q}
  BY <1>3
<1>4. ASSUME NEW q \in Request, RotateCommit(q), ask[q].agent = a,
             q \notin Done, q \in Done', keys'[a] = (keys[a] \ snap[q]) \cup {q}
      PROVE  \A x, y \in keys'[a] : x # y => Overlap(x, y)'
  <2>1. \A x, y \in keys[a] : x # y => Overlap(x, y)'
    BY <1>0, OverlapStays DEF KeysAreReplaced
  <2>2. ASSUME NEW x \in keys[a] \ snap[q]
        PROVE  Overlap(x, q)' /\ Overlap(q, x)'
    <3>1. x \in Done /\ x \notin before[q]
      BY <1>0, <1>4, <2>2 DEF UnseenIsLater, RotateCommit
    <3>2. before' = before /\ Done \subseteq Done' /\ x \in Request
      BY <1>4, <3>1, DoneGrows DEF RotateCommit, local, Done
    <3>3. q \notin before[x] /\ x # q
      BY <1>0, <1>4, <3>1, <3>2 DEF Lifecycle
    <3> QED
      BY <1>4, <3>1, <3>2, <3>3 DEF Overlap
  <2> QED
    BY <1>4, <2>1, <2>2
<1> QED
  BY <1>0, <1>1, <1>2, <1>3, <1>4, KeySteps

LEMMA TagsKept ==
  ASSUME IInv, TypeOK', [Next]_vars
  PROVE  TagsAreReplaced'
<1>0. TypeOK /\ Lifecycle /\ TagsAreReplaced /\ UnseenIsLater
  BY DEF IInv
<1> SUFFICES ASSUME NEW a \in Agent, NEW q \in Done', ask[q].agent = a, ask[q].kind = "replace",
                    NEW r \in tags'[a], r[1] \notin ask[q].tags
             PROVE  r[2] \notin before'[q]
  BY DoneGrows DEF TagsAreReplaced
<1>1. q \in Request
  BY DEF Done
<1>2. CASE r \notin tags[a]
  <2>1. r[2] \notin Done
    BY <1>2, SetChanges
  <2> QED
    BY <1>1, <2>1, DoneGrows
<1>3. CASE r \in tags[a] /\ q \in Done
  BY <1>0, <1>3, DoneGrows DEF TagsAreReplaced
<1>4. CASE r \in tags[a] /\ q \notin Done
  <2>1. ReplaceTagsCommit(q)
    <3> USE <1>0, <1>1, <1>4 DEF TypeOK, Done, To, store, review, local, vars
    <3>1. ASSUME NEW p \in Request, \/ CreateBegin(p) \/ UpdateRead(p) \/ Resolve(p) \/ Fail(p)
                                     \/ CreateCommit(p) \/ UpdateCommit(p) \/ Disable(p)
                                     \/ ReplaceBegin(p) \/ RotateCommit(p)
                                     \/ AddTag(p) \/ DeleteTag(p)
          PROVE  FALSE
      BY <3>1 DEF CreateBegin, UpdateRead, Resolve, Fail, CreateCommit, UpdateCommit, Disable,
                  ReplaceBegin, RotateCommit, AddTag, DeleteTag
    <3>2. ASSUME NEW p \in Request, Delete(p)
          PROVE  FALSE
      BY <3>2 DEF Delete
    <3>3. ASSUME NEW t \in Template, \/ \E p \in Persona : SubmitTemplate(t, p)
                                     \/ \E s \in {"approved", "rejected"} : SetTemplateStatus(t, s)
          PROVE  FALSE
      BY <3>3 DEF SubmitTemplate, SetTemplateStatus
    <3>4. ASSUME NEW p \in Request, ReplaceTagsCommit(p)
          PROVE  p = q
      BY <3>4 DEF ReplaceTagsCommit
    <3> QED
      BY <3>1, <3>2, <3>3, <3>4 DEF Next
  <2>2. r \in tags[a] \ snap[q]
    BY <1>0, <1>4, <2>1 DEF ReplaceTagsCommit, With, TypeOK
  <2> QED
    BY <1>0, <1>1, <2>1, <2>2 DEF ReplaceTagsCommit, UnseenIsLater, local
<1> QED
  BY <1>2, <1>3, <1>4

LEMMA InvStep == IInv /\ [Next]_vars => IInv'
<1> SUFFICES ASSUME IInv, [Next]_vars PROVE IInv'
  OBVIOUS
<1>1. TypeOK'
  BY TypeKept DEF IInv
<1> QED
  BY <1>1, LifecycleKept, BasesKept, CardsKept, ViewsKept, UnseenKept, KeysKept, TagsKept
     DEF IInv

-----------------------------------------------------------------------------
(* The invariant holds in every state: rows and what updates have read     *)
(* passed their review, what has been read is current or another request   *)
(* wrote after it, and what a replacement has not seen came after it.      *)
THEOREM Invariance == Spec => []IInv
<1> QED
  BY InvInit, InvStep, PTL DEF Spec

(* Type correctness.                                                       *)
THEOREM TypeCorrect == Spec => []TypeOK
<1>1. IInv => TypeOK
  BY DEF IInv
<1> QED
  BY <1>1, Invariance, PTL

(* The public pages of an agent show reviewed contents only.               *)
THEOREM PublicCardsAreReviewed == Spec => []PublicIsReviewed
<1>1. IInv => PublicIsReviewed
  <2> SUFFICES ASSUME IInv, NEW a \in Discoverable
               PROVE  LET v == PublicCard(a).fields IN
                      /\ IsPureCatalogCard(v) \/ Legacy(a, v)
                      /\ v["persona"] \in vetted \cup {NoPersona}
                      /\ \/ PublicCard(a).view \in {NoView, PromptView(v)}
                         \/ Interleaved(a)
    BY DEF PublicIsReviewed, Interleaved
  <2> DEFINE v == PublicCard(a).fields
  <2>1. a \in Agent /\ Exists(a) /\ row[a].review = "approved"
    BY DEF Discoverable
  <2>2. Passed(a, row[a])
    BY <2>1 DEF IInv, CardsAreReviewed
  <2>3. \A f \in Shown : v[f] = row[a].fields[f]
    BY DEF PublicCard
  <2>4. Reviewed \cup Viewed \cup {"persona"} \subseteq Shown
    BY DEF Shown, Viewed
  <2>5. IsPureCatalogCard(row[a].fields) => IsPureCatalogCard(v)
    BY <2>3, <2>4 DEF IsPureCatalogCard, Reviewed
  <2>6. Legacy(a, row[a].fields) => Legacy(a, v)
    BY <2>3, <2>4 DEF Legacy
  <2>7. PromptView(v) = PromptView(row[a].fields) /\ PublicCard(a).view = row[a].view
    BY <2>3, <2>4 DEF PromptView, PublicCard
  <2>8. row[a].view \in {NoView, PromptView(row[a].fields)} \/ Interleaved(a)
    BY <2>1 DEF IInv, ViewsAreCurrent
  <2> HIDE DEF v
  <2>9. v["persona"] = row[a].fields["persona"]
    BY <2>3, <2>4
  <2> QED
    BY <2>1, <2>2, <2>5, <2>6, <2>7, <2>8, <2>9 DEF Passed, v
<1> QED
  BY <1>1, Invariance, PTL

(* A rotation leaves no earlier key, a replacement no earlier tag.         *)
THEOREM EarlierOnesAreGone == Spec => []ReplacementsReplace
<1>1. IInv => ReplacementsReplace
  BY DEF IInv, KeysAreReplaced, TagsAreReplaced, ReplacementsReplace
<1> QED
  BY <1>1, Invariance, PTL

(* A stale request apart, the fields of a row change by name only.         *)
THEOREM FieldsChangeByName == Spec => OnlyNamedFieldsChange
<1> DEFINE Named(a) ==
      \E q \in Request :
        /\ pc'[q] = "done" /\ pc[q] # "done" /\ WritesRow(q, a)
        /\ \/ /\ \A f \in Field : row'[a].fields[f] # row[a].fields[f] => Names(q, f)
              /\ (\E f \in Compared \cup Given : row'[a].fields[f] # row[a].fields[f])
                   => row'[a].version > row[a].version
           \/ \E p \in Done : WritesRow(p, a) /\ p \notin before'[q]
<1>1. ASSUME IInv, [Next]_vars, NEW a \in Agent,
             Exists(a), row'[a] # NoRow, row'[a] # row[a]
      PROVE  Named(a)
  <2>0. TypeOK /\ Lifecycle /\ BasesAreCurrent
    BY <1>1 DEF IInv
  <2>1. PICK q \in Request : Writes(q, a)
    BY <1>1, <2>0, RowChanges
  <2>2. /\ pc'[q] = "done" /\ pc[q] # "done" /\ ask[q].agent = a
        /\ row[a] \in Row /\ row[a].fields \in Fields
    BY <1>1, <2>0, <2>1 DEF Writes, Done, TypeOK, Exists, Row
  <2>3. CASE CreateCommit(q)
    BY <1>1, <2>0, <2>2, <2>3, CreatorIsFirst DEF Lifecycle
  <2>4. CASE Disable(q) /\ row'[a] = [row[a] EXCEPT !.fields["status"] = "disabled"]
    <3>1. \A f \in Field \ {"status"} : row'[a].fields[f] = row[a].fields[f]
      BY <2>2, <2>4 DEF Row, Fields
    <3>2. WritesRow(q, a) /\ Names(q, "status")
      BY <2>2, <2>4 DEF Disable, WritesRow, Names
    <3>3. Compared \cup Given \subseteq Field \ {"status"}
      BY DEF Compared, Given, Field, Plain
    <3> QED
      BY <2>2, <3>1, <3>2, <3>3
  <2>5. CASE UpdateCommit(q) /\ row'[a] = Updated(q)
    <3>1. /\ WritesRow(q, a) /\ base[q] # NoRow /\ before' = before
      BY <2>0, <2>2, <2>5 DEF UpdateCommit, WritesRow, Lifecycle, local
    <3>2. CASE Stale(q)
      BY <2>2, <3>1, <3>2 DEF Stale
    <3>3. CASE row[a] = base[q]
      <4>1. row'[a].fields = Patched(q)
        BY <2>2, <2>5, <3>3 DEF Updated, NewRow, Row
      <4>2. \A f \in Field : Patched(q)[f] # base[q].fields[f] => Names(q, f)
        BY DEF Patched, Names
      <4>3. ASSUME NEW f \in Compared \cup Given, Patched(q)[f] # base[q].fields[f]
            PROVE  row'[a].version > row[a].version
        <5>1. ChangesCard(q)
          BY <2>0, <3>1, <4>3, UnchangedCard
        <5>2. row'[a].version = base[q].version + 1 /\ base[q].version \in Nat
          BY <2>2, <2>5, <3>3, <5>1 DEF Updated, NewRow, Row
        <5> QED
          BY <3>3, <5>2
      <4> QED
        BY <2>2, <3>1, <3>3, <4>1, <4>2, <4>3
    <3> QED
      BY <1>1, <2>0, <2>2, <3>1, <3>2, <3>3 DEF BasesAreCurrent, Exists
  <2> QED
    BY <2>1, <2>3, <2>4, <2>5 DEF Writes
<1>2. IInv /\ [Next]_vars =>
        [\A a \in Agent : Exists(a) /\ row'[a] # NoRow /\ row'[a] # row[a] => Named(a)]_vars
  BY <1>1
<1> QED
  BY <1>2, Invariance, PTL DEF Spec, OnlyNamedFieldsChange
(* A key that is revoked is not accepted again: what is added to the keys  *)
(* of an agent is the new key of the registration or rotation that is done *)
(* in this step, once and for all.                                         *)
KeysStayRevoked ==
  [][\A a \in Agent : \A k \in keys'[a] \ keys[a] :
       k \in Request /\ pc[k] # "done" /\ pc'[k] = "done" /\ ask[k].agent = a]_vars

THEOREM RevokedStaysRevoked == Spec => KeysStayRevoked
<1>1. ASSUME IInv, [Next]_vars, NEW a \in Agent, NEW k \in keys'[a] \ keys[a]
      PROVE  k \in Request /\ pc[k] # "done" /\ pc'[k] = "done" /\ ask[k].agent = a
  <2>0. TypeOK
    BY <1>1 DEF IInv
  <2>1. ASSUME NEW q \in Request, CreateCommit(q)
        PROVE  k = q /\ pc[q] # "done" /\ pc'[q] = "done" /\ ask[q].agent = a
    BY <1>1, <2>0, <2>1 DEF CreateCommit, To, TypeOK
  <2>2. ASSUME NEW q \in Request, RotateCommit(q)
        PROVE  k = q /\ pc[q] # "done" /\ pc'[q] = "done" /\ ask[q].agent = a
    BY <1>1, <2>0, <2>2 DEF RotateCommit, To, TypeOK
  <2>3. ASSUME NEW q \in Request, Delete(q)  PROVE FALSE
    BY <1>1, <2>0, <2>3 DEF Delete, TypeOK
  <2>4. keys' # keys
    BY <1>1
  <2>5. ASSUME NEW q \in Request,
               \/ CreateBegin(q) \/ UpdateRead(q) \/ Resolve(q) \/ Fail(q) \/ UpdateCommit(q)
               \/ Disable(q) \/ ReplaceBegin(q) \/ ReplaceTagsCommit(q) \/ AddTag(q)
               \/ DeleteTag(q)
        PROVE  FALSE
    BY <2>4, <2>5 DEF CreateBegin, UpdateRead, Resolve, Fail, UpdateCommit, Disable,
      ReplaceBegin, ReplaceTagsCommit, AddTag, DeleteTag, store
  <2>6. ASSUME NEW t \in Template, \/ \E p \in Persona : SubmitTemplate(t, p)
                                   \/ \E s \in {"approved", "rejected"} : SetTemplateStatus(t, s)
        PROVE  FALSE
    BY <2>4, <2>6 DEF SubmitTemplate, SetTemplateStatus, store
  <2>7. ~ UNCHANGED vars
    BY <2>4 DEF vars, store
  <2> QED
    BY <1>1, <2>1, <2>2, <2>3, <2>5, <2>6, <2>7 DEF Next
<1>2. IInv /\ [Next]_vars =>
        [\A a \in Agent : \A k \in keys'[a] \ keys[a] :
           k \in Request /\ pc[k] # "done" /\ pc'[k] = "done" /\ ask[k].agent = a]_vars
  BY <1>1
<1> QED
  BY <1>2, Invariance, PTL DEF Spec, KeysStayRevoked
=============================================================================
