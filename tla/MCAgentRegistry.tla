--------------------------- MODULE MCAgentRegistry ---------------------------
(***************************************************************************)
(* An instance of AgentRegistry for TLC.  a1 was registered before cards   *)
(* were introduced, under a text that no catalog has; a2 is registered by  *)
(* a request.  Three requests are taken from a family: changes of the card *)
(* of a1, the registration of a2 beside changes of its persona, rotations  *)
(* and replacements of tags.                                               *)
(***************************************************************************)
EXTENDS AgentRegistry, TLC

CONSTANTS a1, a2, q1, q2, q3, t1, p1, p2, go, ml, n1, n2, l1, hi, custom, any

Symmetry == Permutations(Request)

MCValue == {n1, n2, l1, hi, custom, any, p1, p2, NoPersona,
            "enabled", "disabled", "public", "private"}

\* hi is the text of a template with the name n1.
MCRendered == [x \in MCValue \X MCValue |-> IF x = <<n1, l1>> THEN {hi} ELSE {}]

Card(name, text) ==
  [f \in Field |-> CASE f = "name" -> name
                     [] f \in {"bio", "greeting"} -> text
                     [] f = "lists" -> l1
                     [] f = "persona" -> NoPersona
                     [] f = "status" -> "enabled"
                     [] f = "public" -> "public"
                     [] OTHER -> any]

MCStored  == [a \in Existing |-> Card(n2, custom)]
MCBuiltin == [t \in Template |-> p1]

Nothing == [f \in {} |-> any]
Set(f, v) == [x \in {f} |-> v]
Says(kind, a, set, t, ts) ==
  [kind |-> kind, agent |-> a, set |-> set, template |-> t, tags |-> ts]
Updates(a, set) == Says("update", a, set, NoPersona, {})

Tidy   == Updates(a1, [f \in {"name", "bio", "greeting"} |-> IF f = "name" THEN n1 ELSE hi])
Boast  == Updates(a1, Set("bio", custom))
Rename == Updates(a1, Set("name", n1))
Enable == Updates(a1, Set("status", "enabled"))
Hide   == Updates(a1, Set("public", "private"))
Stop   == Says("disable", a1, Nothing, NoPersona, {})

Register == Says("create", a2, Card(n1, hi), t1, {go})
Persona2 == Says("update", a2, Nothing, t1, {})
Plain2   == Updates(a2, Set("persona", NoPersona))
Mode2    == Updates(a2, Set("identity", any))

Rotate(a)  == Says("rotate", a, Nothing, NoPersona, {})
Tags(k, s) == Says(k, a1, Nothing, NoPersona, s)
Remove     == Says("delete", a1, Nothing, NoPersona, {})

Cards    == {Tidy, Boast, Rename, Enable, Hide, Stop}
Personas == {Register, Persona2, Plain2, Mode2}
Sets     == {Rotate(a1), Remove, Tags("replace", {go}), Tags("replace", {ml}),
             Tags("addTag", {go}), Tags("deleteTag", {go})}

MCAsk == Cards \cup Personas \cup Sets
MCRequests ==
  {s \in [Request -> MCAsk] :
     /\ \E F \in {Cards, Personas, Sets} : \A q \in Request : s[q] \in F
     /\ \A p, q \in Request : s[p] = Register /\ s[q] = Register => p = q}
=============================================================================
