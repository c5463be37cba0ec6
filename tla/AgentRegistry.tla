----------------------------- MODULE AgentRegistry -----------------------------
(***************************************************************************)
(* The registry of agents: the card of an agent with its review, the keys  *)
(* an agent authenticates with, its tags, and the persona templates a card *)
(* may refer to.                                                           *)
(*                                                                         *)
(* Requests overlap.  An update reads the whole row without a lock,        *)
(* computes the new row and writes every column of it; a rotation of the   *)
(* key revokes the keys its statement sees and inserts its own; a          *)
(* replacement of the tags deletes the tags it sees and inserts its own.   *)
(* The database runs at READ COMMITTED, so what a statement sees is what   *)
(* was committed when it started: "before" keeps which requests were done  *)
(* then.                                                                   *)
(***************************************************************************)
EXTENDS Naturals, FiniteSets

CONSTANTS
  Agent,
  Existing,    \* agents from before cards were introduced
  Stored,      \* [Existing -> [Field -> Value]]: what their rows hold
  Request,
  Ask,         \* what a request may say
  Requests,    \* SUBSET [Request -> Ask]: requests that may be made
  Value,       \* values of the fields of a row
  Catalog,     \* lists of interests and capabilities that have catalog labels
  Rendered,    \* [Value \X Value -> SUBSET Value]: the catalog's texts for a
               \* name and a list
  Tag,
  Template,    \* ids of persona templates
  Builtin,     \* [Template -> Persona \cup {NoPersona}]: the seeded templates
  Persona,     \* contents of templates
  NoPersona,
  NoRow,
  NoView

(* "about" is the description and the avatar, "style" the personality,     *)
(* "lists" the interests and capabilities.                                 *)
Compared == {"name", "about", "greeting", "public"}
Given    == {"style", "lists", "bio", "autonomous", "persona"}
Plain    == {"status", "identity"}
Field    == Compared \cup Given \cup Plain

Viewed   == {"name", "persona", "style", "lists", "bio"}
Reviewed == {"name", "lists", "bio", "greeting"}
Shown    == Viewed \cup Reviewed \cup {"about"}

Kinds == {"create", "update", "disable", "delete", "rotate", "replace",
          "addTag", "deleteTag"}
Key    == Agent \cup Request
TagRow == Tag \X Request

Fields == [Field -> Value]
View   == [Viewed -> Value]
Row    == [fields : Fields, version : Nat, view : View \cup {NoView},
           review : {"pending", "approved"}]

(* A request names fields by the domain of "set".  A persona is named by   *)
(* its template, NoPersona clears it; "tags" is used by the kinds that     *)
(* have tags.                                                              *)
ASSUME RegistryAssumption ==
  /\ Agent \cap Request = {}
  /\ Existing \subseteq Agent
  /\ Stored \in [Existing -> Fields]
  /\ \A a \in Existing : Stored[a]["persona"] = NoPersona
  /\ \A k \in Ask : /\ k.kind \in Kinds
                    /\ k.agent \in Agent
                    /\ k.template \in Template \cup {NoPersona}
                    /\ k.tags \subseteq Tag
                    /\ DOMAIN k.set \subseteq Field
                    /\ \A f \in DOMAIN k.set : k.set[f] \in Value
                    /\ "persona" \in DOMAIN k.set => k.set["persona"] = NoPersona
  /\ Requests \subseteq [Request -> Ask]
  /\ \A s \in Requests : \A p, q \in Request :
       s[q].kind = "create" =>
         /\ s[q].agent \notin Existing
         /\ DOMAIN s[q].set = Field
         /\ s[p].kind = "create" /\ s[p].agent = s[q].agent => p = q
  /\ Rendered \in [Value \X Value -> SUBSET Value]
  /\ Builtin \in [Template -> Persona \cup {NoPersona}]
  /\ Persona \cup {NoPersona, "enabled", "disabled", "public"} \subseteq Value
  /\ NoPersona \notin Persona
  /\ NoRow \notin Row
  /\ NoView \notin View

VARIABLES
  ask,       \* what each request says
  row,       \* agents
  keys,      \* agent_api_keys that are not revoked; a request's key bears its
             \* name, the first key of an existing agent the agent's
  tags,      \* agent_tags, each row with the request that inserted it
  template,  \* persona_templates
  vetted,    \* history: the contents that have been approved
  pc,
  base,      \* the row an update has read
  adopted,   \* the persona a request has resolved its template to
  snap,      \* the keys, or tags, a statement has seen
  before     \* history: the requests that were done when a request read

store  == <<row, keys, tags>>
review == <<template, vetted>>
local  == <<base, adopted, snap, before>>
vars   == <<ask, store, review, pc, local>>

-----------------------------------------------------------------------------
(* The card *)

(* A card whose lists are labels of the catalog and whose texts are        *)
(* renderings of its templates needs no review.  A text rendered from      *)
(* another name or another list does not count; nor does no text.          *)
IsPureCatalogCard(v) ==
  /\ v["lists"] \in Catalog
  /\ v["bio"] \in Rendered[v["name"], v["lists"]]
  /\ v["greeting"] \in Rendered[v["name"], v["lists"]]

Review(v) == IF IsPureCatalogCard(v) THEN "approved" ELSE "pending"

PromptView(v) == [f \in Viewed |-> v[f]]

NewRow(v) == [fields |-> v, version |-> 1, view |-> PromptView(v), review |-> Review(v)]

(* The fields of a request over those of the row it has read.  Mutant: a   *)
(* persona that the request does not name is dropped.                      *)
Patched_PersonaDropped(q) ==
  [f \in Field |-> IF f = "persona" THEN adopted[q]
                   ELSE IF f \in DOMAIN ask[q].set THEN ask[q].set[f]
                   ELSE base[q].fields[f]]

Patched(q) ==
  [f \in Field |-> IF f = "persona" /\ ask[q].template # NoPersona THEN adopted[q]
                   ELSE IF f \in DOMAIN ask[q].set THEN ask[q].set[f]
                   ELSE base[q].fields[f]]

ChangesCard(q) ==
  \/ ask[q].template # NoPersona
  \/ DOMAIN ask[q].set \cap Given # {}
  \/ \E f \in DOMAIN ask[q].set \cap Compared : ask[q].set[f] # base[q].fields[f]

(* The new row.  When the card does not change, the prompt view is the     *)
(* one column that keeps what it holds now instead of what was read.       *)
(* Mutant: the review keeps what it holds now as well.                     *)
Updated_ReviewKept(q) ==
  IF ChangesCard(q)
  THEN [NewRow(Patched(q)) EXCEPT !.version = base[q].version + 1]
  ELSE [base[q] EXCEPT !.fields = Patched(q), !.view = row[ask[q].agent].view,
                       !.review = row[ask[q].agent].review]

Updated(q) ==
  IF ChangesCard(q)
  THEN [NewRow(Patched(q)) EXCEPT !.version = base[q].version + 1]
  ELSE [base[q] EXCEPT !.fields = Patched(q), !.view = row[ask[q].agent].view]

Exists(a) == row[a] # NoRow
Done      == {q \in Request : pc[q] = "done"}
ApprovedTemplates == {t \in Template : template[t].status = "approved"}

Init ==
  /\ ask \in Requests
  /\ row = [a \in Agent |-> IF a \in Existing
                            THEN [fields |-> Stored[a], version |-> 1,
                                  view |-> NoView, review |-> "approved"]
                            ELSE NoRow]
  /\ keys = [a \in Agent |-> IF a \in Existing THEN {a} ELSE {}]
  /\ tags = [a \in Agent |-> {}]
  /\ template = [t \in Template |->
                   [persona |-> Builtin[t],
                    status  |-> IF Builtin[t] = NoPersona THEN "absent" ELSE "approved"]]
  /\ vetted = {Builtin[t] : t \in Template}
  /\ pc = [q \in Request |-> "new"]
  /\ base = [q \in Request |-> NoRow]
  /\ adopted = [q \in Request |-> NoPersona]
  /\ snap = [q \in Request |-> {}]
  /\ before = [q \in Request |-> {}]

-----------------------------------------------------------------------------
(* Steps of a request *)

To(q, step) == pc' = [pc EXCEPT ![q] = step]
Looks(q)    == before' = [before EXCEPT ![q] = Done]

(* handleCreateAgent checks the request; its transaction begins.           *)
CreateBegin(q) ==
  /\ pc[q] = "new" /\ ask[q].kind = "create"
  /\ To(q, IF ask[q].template = NoPersona THEN "ready" ELSE "read")
  /\ UNCHANGED <<ask, store, review, local>>

(* handleUpdateAgent reads the row of the agent.                           *)
UpdateRead(q) ==
  /\ pc[q] = "new" /\ ask[q].kind = "update"
  /\ IF Exists(ask[q].agent)
     THEN /\ base' = [base EXCEPT ![q] = row[ask[q].agent]]
          /\ To(q, IF ask[q].template = NoPersona THEN "ready" ELSE "read")
     ELSE To(q, "failed") /\ UNCHANGED base
  /\ Looks(q)
  /\ UNCHANGED <<ask, store, review, adopted, snap>>

(* The persona is the content of an approved template; another id makes    *)
(* the request fail.                                                       *)
Resolve(q) ==
  /\ pc[q] = "read"
  /\ IF ask[q].template \in ApprovedTemplates
     THEN /\ adopted' = [adopted EXCEPT ![q] = template[ask[q].template].persona]
          /\ To(q, "ready")
     ELSE To(q, "failed") /\ UNCHANGED adopted
  /\ UNCHANGED <<ask, store, review, base, snap, before>>

(* "on conflict do nothing".                                               *)
With(rows, q) ==
  rows \cup {<<t, q>> : t \in ask[q].tags \ {r[1] : r \in rows}}

(* The agent appears with its first key and its tags.                      *)
CreateCommit(q) ==
  LET a == ask[q].agent
      v == [ask[q].set EXCEPT !["persona"] = adopted[q]] IN
  /\ pc[q] = "ready" /\ ask[q].kind = "create"
  /\ row' = [row EXCEPT ![a] = NewRow(v)]
  /\ keys' = [keys EXCEPT ![a] = {q}]
  /\ tags' = [tags EXCEPT ![a] = With({}, q)]
  /\ To(q, "done") /\ Looks(q)
  /\ UNCHANGED <<ask, review, base, adopted, snap>>

(* Every column is written; an agent that is gone is no error.             *)
UpdateCommit(q) ==
  LET a == ask[q].agent IN
  /\ pc[q] = "ready" /\ ask[q].kind = "update"
  /\ row' = [row EXCEPT ![a] = IF Exists(a) THEN Updated(q) ELSE NoRow]
  /\ To(q, "done")
  /\ UNCHANGED <<ask, keys, tags, review, local>>

(* Anything may fail until the commit, and nothing is left of the request. *)
Fail(q) ==
  /\ pc[q] \in {"read", "ready"}
  /\ To(q, "failed")
  /\ UNCHANGED <<ask, store, review, local>>

(* handleDisableAgent is one statement.                                    *)
Disable(q) ==
  LET a == ask[q].agent IN
  /\ pc[q] = "new" /\ ask[q].kind = "disable"
  /\ IF Exists(a)
     THEN /\ row' = [row EXCEPT ![a].fields["status"] = "disabled"]
          /\ To(q, "done")
     ELSE To(q, "failed") /\ UNCHANGED row
  /\ Looks(q)
  /\ UNCHANGED <<ask, keys, tags, review, base, adopted, snap>>

(* The row of a deleted agent takes its keys and tags with it.             *)
Delete(q) ==
  LET a == ask[q].agent IN
  /\ pc[q] = "new" /\ ask[q].kind = "delete"
  /\ row' = [row EXCEPT ![a] = NoRow]
  /\ keys' = [keys EXCEPT ![a] = {}]
  /\ tags' = [tags EXCEPT ![a] = {}]
  /\ To(q, IF Exists(a) THEN "done" ELSE "failed") /\ Looks(q)
  /\ UNCHANGED <<ask, review, base, adopted, snap>>

(* The statements that revoke the keys and that delete the tags of an      *)
(* agent take the rows they see.  One that meets rows another request has  *)
(* taken waits for its commit and skips them; what that request inserts it *)
(* does not see.  Mutant: a rotation revokes the agent's first key only.   *)
Replaced_FirstOnly(q) ==
  IF ask[q].kind = "rotate" THEN keys[ask[q].agent] \ Request ELSE tags[ask[q].agent]

Replaced(q) ==
  IF ask[q].kind = "rotate" THEN keys[ask[q].agent] ELSE tags[ask[q].agent]

ReplaceBegin(q) ==
  /\ pc[q] = "new" /\ ask[q].kind \in {"rotate", "replace"}
  /\ IF Exists(ask[q].agent)
     THEN /\ snap' = [snap EXCEPT ![q] = Replaced(q)]
          /\ To(q, "ready")
     ELSE To(q, "failed") /\ UNCHANGED snap
  /\ Looks(q)
  /\ UNCHANGED <<ask, store, review, base, adopted>>

(* The inserts refer to the row of the agent and fail without it.          *)
RotateCommit(q) ==
  LET a == ask[q].agent IN
  /\ pc[q] = "ready" /\ ask[q].kind = "rotate" /\ Exists(a)
  /\ keys' = [keys EXCEPT ![a] = (@ \ snap[q]) \cup {q}]
  /\ To(q, "done")
  /\ UNCHANGED <<ask, row, tags, review, local>>

(* An insert waits while a tag it conflicts with is being deleted.         *)
Waits(q) ==
  \E p \in Request \ {q} :
    /\ pc[p] = "ready" /\ ask[p].kind = "replace"
    /\ \E r \in (snap[p] \cap tags[ask[q].agent]) \ snap[q] : r[1] \in ask[q].tags

ReplaceTagsCommit(q) ==
  LET a == ask[q].agent IN
  /\ pc[q] = "ready" /\ ask[q].kind = "replace" /\ Exists(a) /\ ~Waits(q)
  /\ tags' = [tags EXCEPT ![a] = With(@ \ snap[q], q)]
  /\ To(q, "done")
  /\ UNCHANGED <<ask, row, keys, review, local>>

AddTag(q) ==
  LET a == ask[q].agent IN
  /\ pc[q] = "new" /\ ask[q].kind = "addTag" /\ ~Waits(q)
  /\ tags' = [tags EXCEPT ![a] = IF Exists(a) THEN With(@, q) ELSE @]
  /\ To(q, IF Exists(a) THEN "done" ELSE "failed") /\ Looks(q)
  /\ UNCHANGED <<ask, row, keys, review, base, adopted, snap>>

DeleteTag(q) ==
  LET a == ask[q].agent IN
  /\ pc[q] = "new" /\ ask[q].kind = "deleteTag"
  /\ tags' = [tags EXCEPT ![a] = {r \in @ : r[1] \notin ask[q].tags}]
  /\ To(q, IF Exists(a) THEN "done" ELSE "failed") /\ Looks(q)
  /\ UNCHANGED <<ask, row, keys, review, base, adopted, snap>>

-----------------------------------------------------------------------------
(* Templates *)

(* A submission under an id that is there replaces its content, whoever    *)
(* submitted that, and makes it pending.  Mutant: it becomes a draft.      *)
SubmitTemplate_Draft(t, p) ==
  /\ template' = [template EXCEPT ![t] = [persona |-> p, status |-> "draft"]]
  /\ UNCHANGED <<ask, store, vetted, pc, local>>

SubmitTemplate(t, p) ==
  /\ template' = [template EXCEPT ![t] = [persona |-> p, status |-> "pending"]]
  /\ UNCHANGED <<ask, store, vetted, pc, local>>

(* An administrator decides on an id, and so on the content that is under  *)
(* it by then.                                                             *)
SetTemplateStatus(t, status) ==
  /\ template[t].status # "absent"
  /\ template' = [template EXCEPT ![t].status = status]
  /\ vetted' = IF status = "approved" THEN vetted \cup {template[t].persona} ELSE vetted
  /\ UNCHANGED <<ask, store, pc, local>>

-----------------------------------------------------------------------------
Next ==
  \/ \E q \in Request :
       \/ CreateBegin(q) \/ UpdateRead(q) \/ Resolve(q)
       \/ CreateCommit(q) \/ UpdateCommit(q) \/ Fail(q)
       \/ Disable(q) \/ Delete(q)
       \/ ReplaceBegin(q) \/ RotateCommit(q) \/ ReplaceTagsCommit(q)
       \/ AddTag(q) \/ DeleteTag(q)
  \/ \E t \in Template :
       \/ \E p \in Persona : SubmitTemplate(t, p)
       \/ \E status \in {"approved", "rejected"} : SetTemplateStatus(t, status)

Spec == Init /\ [][Next]_vars

-----------------------------------------------------------------------------
(* Properties *)

TypeOK ==
  /\ ask \in Requests
  /\ row \in [Agent -> Row \cup {NoRow}]
  /\ keys \in [Agent -> SUBSET Key]
  /\ tags \in [Agent -> SUBSET TagRow]
  /\ template \in [Template -> [persona : Persona \cup {NoPersona},
                                status : {"absent", "pending", "approved", "rejected"}]]
  /\ vetted \subseteq Persona \cup {NoPersona}
  /\ pc \in [Request -> {"new", "read", "ready", "done", "failed"}]
  /\ base \in [Request -> Row \cup {NoRow}]
  /\ adopted \in [Request -> Persona \cup {NoPersona}]
  /\ snap \in [Request -> SUBSET (Key \cup TagRow)]
  /\ before \in [Request -> SUBSET Request]

(* Both requests were answered, and neither was done when the other read.  *)
Overlap(p, q) ==
  /\ p # q /\ {p, q} \subseteq Done
  /\ p \notin before[q] /\ q \notin before[p]

WritesRow(q, a) == ask[q].agent = a /\ ask[q].kind \in {"update", "disable"}

(* handleDiscoverAgents and handleDiscoverAgentDetail show these agents.   *)
Discoverable ==
  {a \in Agent : /\ Exists(a)
                 /\ row[a].fields["status"] = "enabled"
                 /\ row[a].fields["public"] = "public"
                 /\ row[a].review = "approved"}

PublicCard(a) == [fields |-> [f \in Shown |-> row[a].fields[f]], view |-> row[a].view]

Legacy(a, v) == a \in Existing /\ \A f \in Reviewed : v[f] = Stored[a][f]

(* What the public pages show of an agent has passed a review: its texts   *)
(* are the catalog's for its present name and lists, or those it had       *)
(* before there were reviews; its persona is the content of a template     *)
(* that was approved; and the prompt view that is shown beside them was    *)
(* made from the fields of the row, unless two requests that write the row *)
(* overlapped.                                                             *)
PublicIsReviewed ==
  \A a \in Discoverable : LET v == PublicCard(a).fields IN
    /\ IsPureCatalogCard(v) \/ Legacy(a, v)
    /\ v["persona"] \in vetted \cup {NoPersona}
    /\ \/ PublicCard(a).view \in {NoView, PromptView(v)}
       \/ \E p, q \in Request : WritesRow(p, a) /\ WritesRow(q, a) /\ Overlap(p, q)

(* A rotation ends the keys from before it and a replacement the tags:     *)
(* an agent always has a key, two of them only from requests that          *)
(* overlapped, and a tag that a replacement does not name was inserted by  *)
(* a request that was not done when the replacement began.                 *)
ReplacementsReplace ==
  \A a \in Agent : Exists(a) =>
    /\ keys[a] # {}
    /\ \A p, q \in keys[a] : p # q => Overlap(p, q)
    /\ \A q \in Done : ask[q].agent = a /\ ask[q].kind = "replace" =>
         \A r \in tags[a] : r[1] \in ask[q].tags \/ r[2] \notin before[q]

Names(q, f) ==
  \/ f \in DOMAIN ask[q].set
  \/ f = "persona" /\ ask[q].template # NoPersona
  \/ f = "status" /\ ask[q].kind = "disable"

(* A field of a row changes only by a request that names it, and a card    *)
(* that changes gets a new version, unless the request that writes had     *)
(* read the row before another one wrote it: the whole row it writes back  *)
(* may then undo that one.                                                 *)
OnlyNamedFieldsChange ==
  [][\A a \in Agent : Exists(a) /\ row'[a] # NoRow /\ row'[a] # row[a] =>
       \E q \in Request :
         /\ pc'[q] = "done" /\ pc[q] # "done" /\ WritesRow(q, a)
         /\ \/ /\ \A f \in Field : row'[a].fields[f] # row[a].fields[f] => Names(q, f)
               /\ (\E f \in Compared \cup Given : row'[a].fields[f] # row[a].fields[f])
                    => row'[a].version > row[a].version
            \/ \E p \in Done : WritesRow(p, a) /\ p \notin before'[q]]_vars
=============================================================================
