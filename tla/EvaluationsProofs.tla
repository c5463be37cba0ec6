--------------------------- MODULE EvaluationsProofs ---------------------------
(***************************************************************************)
(* What Evaluations promises, for any agents, creations, replacements and  *)
(* seedings: the inductive invariant IInv in parts, one lemma per part,    *)
(* and the theorems.                                                       *)
(***************************************************************************)
EXTENDS Evaluations, FiniteSetTheorems, TLAPS

Created == {c \in Creation : step[c] = "created"}

(* Steps after the count, and after the judges were read.                  *)
Counted(c) == step[c] \in {"counted", "judged", "seeding", "drawn", "no topic", "sourced", "open", "created"}
Judged(c)  == step[c] \in {"judged", "seeding", "drawn", "no topic", "sourced", "open", "created"}

(* Evaluations are of creations that are over, and so is what a creation   *)
(* counted.                                                                *)
Life ==
  /\ evals \subseteq Created
  /\ \A c \in Creation : seen[c] \subseteq Created
  /\ \A c \in Creation : c \in runs => step[c] = "created"

(* The last step of a creation makes offers to the judges, who keep them   *)
(* while they and the run exist.  Whoever else has one is the publisher's, *)
(* and none of its agents that was a judge exists any more.                *)
Offered(c) ==
  /\ offers[c] # {} => step[c] = "created"
  /\ c \in runs => judges[c] \cap agents \subseteq offers[c]
  /\ \A a \in offers[c] : a \in judges[c] \/ (a \in Owned(c) /\ Owned(c) \cap judges[c] \cap agents = {})

OffersInv == \A c \in Creation : Offered(c)

(* What a creation counted stays as it was.                                *)
Held(c) == {d \in seen[c] : Candidate[d] = Candidate[c] /\ born[d] >= asked[c]}

Limit ==
  \A c \in Creation :
    /\ asked[c] <= now
    /\ step[c] \in {"open", "created"} => asked[c] <= born[c]
    /\ Counted(c) => Cardinality(Held(c)) < MaxPerDay

(* A row is the work of a replacement that is done; one that began later   *)
(* and leaves its agent out has it among the rows to delete.               *)
RowsInv ==
  /\ \A q \in Replacement : before[q] \subseteq Done
  /\ \A x \in rows :
       /\ x[2] \in Done /\ x[1] \in Wanted[x[2]]
       /\ \A q \in Replacement :
            x[2] \in before[q] /\ x[1] \notin Wanted[q] => x \in doomed[q] /\ q \notin Done

Named(a, K) ==
  \E r \in K : a \in Wanted[r] /\ (\A q \in K : r \in before[q] => a \in Wanted[q])

Heeds(c) ==
  /\ known[c] \subseteq Done
  /\ Judged(c) => \A a \in judges[c] : Named(a, known[c])

JudgesInv == \A c \in Creation : Heeds(c)

(* A walker that nothing disturbed left whole topics behind.               *)
Progress(w) ==
  /\ \A t \in Topic : t < at[w] => Whole(t)
  /\ \A p \in Part : p < stage[w] /\ at[w] \in Topic => <<at[w], p>> \in parts

(* A walker at a topic with all the parts before its stage written.        *)
Mending(w, t) ==
  /\ at[w] = t /\ stage[w] \in {2, 3}
  /\ \A p \in Part : p < stage[w] => <<t, p>> \in parts

Seeds ==
  /\ \A c \in Creation : step[c] \in {"new", "counted", "judged"} => at[c] = 0 /\ c \notin calm
  /\ \A t \in Topic : <<t, 1>> \in parts => Whole(t) \/ cut \/ \E w \in Walker : Mending(w, t)
  /\ \A w \in calm : w \in Creation \/ Running(w) => Progress(w)
  /\ \A c \in Creation \cap calm :
       /\ step[c] = "drawn" => topic[c] \in Topic /\ Whole(topic[c])
       /\ step[c] = "seeding" => at[c] \in Topic \cup {Topics + 1}
       /\ step[c] # "no topic"

(* A run without its evaluation is about a candidate that was deleted.     *)
OrphansOnly == \A c \in Creation \cap runs : c \in evals \/ Candidate[c] \notin agents

IInv ==
  /\ TypeOK
  /\ Life
  /\ OffersInv
  /\ Limit
  /\ RowsInv
  /\ JudgesInv
  /\ Seeds
  /\ OrphansOnly

-----------------------------------------------------------------------------
(* What the actors leave alone.                                            *)
LEMMA Frames ==
  /\ Judging => UNCHANGED <<family, now, people, asking, store, seeding, calm>>
  /\ Creating => UNCHANGED <<family, now, people, rows, replaces>>
  /\ EnsurePublisherAgentsOffered => UNCHANGED <<family, now, people, rows, replaces, asking, evals, runs, seeding, calm>>
  /\ Deleting => UNCHANGED <<family, replaces, asking, seeding, calm>>
  /\ Seeding => UNCHANGED <<family, now, enabled, replaces, asking>>
<1>1. Judging => UNCHANGED <<family, now, people, asking, store, seeding, calm>>
  BY DEF Judging, LookUp, DeleteOthers, CommitJudges, FailJudges
<1>2. Creating => UNCHANGED <<family, now, people, rows, replaces>>
  BY DEF Creating, Count, ReadJudges, ReadRun, ReadItem, Draw, DrawAgain, ReadTopic, Open, Commit, GiveUp
<1>3. Deleting => UNCHANGED <<family, replaces, asking, seeding, calm>>
  BY DEF Deleting, OwnerDelete, AdminDelete, AdminDeleteRun, Cleanup, DeleteAgent, SetStatus, Tick
<1>4. Seeding => UNCHANGED <<family, now, enabled, replaces, asking>>
  BY DEF Seeding, Start, PurgeTopics, PurgeRows, Put, FailPut, people
<1>5. EnsurePublisherAgentsOffered => UNCHANGED <<family, now, people, rows, replaces, asking, evals, runs, seeding, calm>>
  BY DEF EnsurePublisherAgentsOffered
<1>. QED BY <1>1, <1>2, <1>3, <1>4, <1>5

(* Only a commit and the worker add to what is stored.                     *)
Shrinks ==
  /\ evals' \subseteq evals /\ runs' \subseteq runs
  /\ \A c \in Creation : offers'[c] \subseteq offers[c] /\ (c \in runs' => offers[c] \cap agents' \subseteq offers'[c])
  /\ (OrphansOnly => OrphansOnly')

(* Runs, evaluations and offers only go, but for those of a commit, which  *)
(* are all of one creation, and the offers of the worker; agents only go.  *)
LEMMA Stores ==
  ASSUME TypeOK, Next
  PROVE  /\ agents' \subseteq agents
         /\ (\E c \in Creation : Commit(c)) \/ EnsurePublisherAgentsOffered \/ Shrinks
<1>. USE DEF TypeOK
<1>1. CASE Judging
  BY <1>1, Frames DEF people, store, OrphansOnly, Shrinks
<1>2. CASE Creating /\ ~(\E c \in Creation : Commit(c))
  <2>1. UNCHANGED <<agents, store>>
    BY <1>2 DEF Creating, Count, ReadJudges, ReadRun, ReadItem, Draw, DrawAgain, ReadTopic, Open, GiveUp, people
  <2>. QED BY <2>1 DEF store, OrphansOnly, Shrinks
<1>3. CASE \E c \in Creation : Commit(c)
  BY <1>3 DEF Commit, people
<1>4. CASE Deleting
  <2>1. ASSUME NEW R, DropRuns(R), UNCHANGED agents PROVE Shrinks
    BY <2>1 DEF DropRuns, OrphansOnly, Shrinks
  <2>2. CASE \E c \in Creation : OwnerDelete(c) \/ AdminDelete(c)
    BY <2>1, <2>2 DEF OwnerDelete, AdminDelete, people
  <2>3. CASE \E x \in Run : AdminDeleteRun(x)
    BY <2>1, <2>3 DEF AdminDeleteRun, people
  <2>4. CASE Cleanup
    BY <2>1, <2>4 DEF Cleanup, people
  <2>5. CASE \E a \in Agent : DeleteAgent(a)
    <3>1. PICK a \in Agent : DeleteAgent(a)
      BY <2>5
    <3>2. /\ agents' = agents \ {a} /\ evals' = {c \in evals : Candidate[c] \notin {a}} /\ runs' = runs
          /\ offers' = [c \in Creation |-> offers[c] \ {a}]
      BY <3>1 DEF DeleteAgent, DropAgents
    <3>3. OrphansOnly => OrphansOnly'
      BY <3>2 DEF OrphansOnly
    <3>4. \A c \in Creation : offers'[c] \subseteq offers[c] /\ (c \in runs' => offers[c] \cap agents' \subseteq offers'[c])
      BY <3>2
    <3>. QED BY <3>2, <3>3, <3>4 DEF Shrinks
  <2>6. CASE (\E a \in Agent : SetStatus(a)) \/ Tick
    BY <2>6 DEF SetStatus, Tick, people, store, OrphansOnly, Shrinks
  <2>. QED BY <1>4, <2>2, <2>3, <2>4, <2>5, <2>6 DEF Deleting
<1>5. CASE Seeding
  <2>1. CASE \E s \in Seeder : PurgeRows(s)
    BY <2>1 DEF PurgeRows, OrphansOnly, Shrinks
  <2>2. CASE ~(\E s \in Seeder : PurgeRows(s))
    <3>1. UNCHANGED <<agents, store>>
      BY <1>5, <2>2 DEF Seeding, Start, PurgeTopics, Put, FailPut, people
    <3>. QED BY <3>1 DEF store, OrphansOnly, Shrinks
  <2>. QED BY <2>1, <2>2
<1>6. CASE EnsurePublisherAgentsOffered
  BY <1>6, Frames DEF people
<1>. QED BY <1>1, <1>2, <1>3, <1>4, <1>5, <1>6 DEF Next

-----------------------------------------------------------------------------
(* Types *)

PeopleType == family \in Families /\ now \in 0..LastDay /\ agents \subseteq Agent /\ enabled \subseteq Agent

JudgesType ==
  /\ rows \subseteq agents \X Replacement
  /\ phase \in [Replacement -> {"new", "known", "deleted", "done", "failed"}]
  /\ doomed \in [Replacement -> SUBSET (Agent \X Replacement)]
  /\ before \in [Replacement -> SUBSET Replacement]

Steps == {"new", "counted", "judged", "seeding", "drawn", "no topic", "sourced", "open", "created", "refused"}

AskingType ==
  /\ step \in [Creation -> Steps]
  /\ asked \in [Creation -> 0..LastDay] /\ born \in [Creation -> 0..LastDay]
  /\ expires \in [Creation -> 0..LastDay + Lifetime]
  /\ seen \in [Creation -> SUBSET Creation]
  /\ judges \in [Creation -> SUBSET Agent]
  /\ known \in [Creation -> SUBSET Replacement]
  /\ topic \in [Creation -> 0..Topics]

StoreType ==
  /\ runs \subseteq Run /\ evals \subseteq runs \cap Creation
  /\ \A c \in evals : Candidate[c] \in agents
  /\ offers \in [Creation -> SUBSET agents]

SeedingType ==
  /\ parts \subseteq Topic \X Part
  /\ at \in [Walker -> 0..Topics + 1] /\ stage \in [Walker -> 0..3]
  /\ cut \in BOOLEAN /\ calm \subseteq Walker

LEMMA Types == TypeOK <=> PeopleType /\ JudgesType /\ AskingType /\ StoreType /\ SeedingType
  BY DEF TypeOK, PeopleType, JudgesType, AskingType, Steps, StoreType, SeedingType

LEMMA TypesPrime == TypeOK' <=> PeopleType' /\ JudgesType' /\ AskingType' /\ StoreType' /\ SeedingType'
  BY DEF TypeOK, PeopleType, JudgesType, AskingType, Steps, StoreType, SeedingType

(* What the assumption says of numbers and of sets.                        *)
LEMMA Sizes == Topics \in Nat \ {0} /\ Lifetime \in Nat \ {0} /\ LastDay \in Nat /\ MaxPerDay \in Nat \ {0}
  BY EvaluationsAssumption

LEMMA Sets == Candidate \in [Creation -> Agent] /\ Wanted \in [Replacement -> SUBSET Agent] /\ First \in Replacement
  BY EvaluationsAssumption

LEMMA Apart == Purge \subseteq Seeder /\ Creation \cap OtherRun = {} /\ Creation \cap Seeder = {}
  BY EvaluationsAssumption

LEMMA InitTypes == Init => TypeOK
<1>. SUFFICES ASSUME Init PROVE TypeOK
  OBVIOUS
<1>1. PeopleType
  BY Sizes DEF Init, PeopleType
<1>2. JudgesType
  <2>1. rows \subseteq agents \X Replacement
    BY Sets DEF Init
  <2>2. phase \in [Replacement -> {"new", "known", "deleted", "done", "failed"}]
    BY DEF Init
  <2>3. doomed \in [Replacement -> SUBSET (Agent \X Replacement)] /\ before \in [Replacement -> SUBSET Replacement]
    BY DEF Init
  <2>. QED BY <2>1, <2>2, <2>3 DEF JudgesType
<1>3. AskingType
  BY Sizes DEF Init, AskingType, Steps
<1>4. StoreType
  BY DEF Init, StoreType, Run
<1>5. SeedingType
  <2>1. 0 \in 0..Topics + 1 /\ 0 \in 0..3
    BY Sizes
  <2>. QED BY <2>1 DEF Init, SeedingType
<1>. QED BY <1>1, <1>2, <1>3, <1>4, <1>5, Types

LEMMA JudgingTypes == ASSUME TypeOK, Judging PROVE TypeOK'
<1>1. PeopleType /\ JudgesType /\ AskingType /\ StoreType /\ SeedingType
  BY Types
<1>2. PeopleType' /\ AskingType' /\ StoreType' /\ SeedingType' /\ UNCHANGED agents
  BY <1>1, Frames DEF PeopleType, AskingType, StoreType, SeedingType, people, asking, store, seeding
<1>3. JudgesType'
  <2>1. CASE \E r \in Replacement : LookUp(r) \/ FailJudges(r)
    BY <1>1, <2>1, <1>2 DEF JudgesType, LookUp, FailJudges
  <2>2. CASE \E r \in Replacement : DeleteOthers(r)
    <3>1. PICK r \in Replacement : DeleteOthers(r)
      BY <2>2
    <3>2. Others(r) \subseteq Agent \X Replacement /\ Done \subseteq Replacement
      BY <1>1 DEF JudgesType, PeopleType, Others, Done
    <3>3. /\ rows' = rows /\ phase' = [phase EXCEPT ![r] = "deleted"]
          /\ doomed' = [doomed EXCEPT ![r] = Others(r)] /\ before' = [before EXCEPT ![r] = Done]
      BY <3>1 DEF DeleteOthers
    <3>. QED BY <1>1, <1>2, <3>2, <3>3 DEF JudgesType
  <2>3. CASE \E r \in Replacement : CommitJudges(r)
    <3>1. PICK r \in Replacement : CommitJudges(r)
      BY <2>3
    <3>2. Replaced(r) \subseteq agents \X Replacement
      BY <1>1, <3>1 DEF JudgesType, CommitJudges, Replaced
    <3>3. rows' = Replaced(r) /\ phase' = [phase EXCEPT ![r] = "done"] /\ doomed' = doomed /\ before' = before
      BY <3>1 DEF CommitJudges
    <3>. QED BY <1>1, <1>2, <3>2, <3>3 DEF JudgesType
  <2>. QED BY <2>1, <2>2, <2>3 DEF Judging
<1>. QED BY <1>2, <1>3, TypesPrime

LEMMA CreatingTypes == ASSUME TypeOK, Creating PROVE TypeOK'
<1>1. PeopleType /\ JudgesType /\ AskingType /\ StoreType /\ SeedingType
  BY Types
<1>2. PeopleType' /\ JudgesType' /\ UNCHANGED agents
  BY <1>1, Frames DEF PeopleType, JudgesType, people, replaces
<1>3. PICK c \in Creation :
        \/ Count(c) \/ ReadJudges(c) \/ ReadRun(c) \/ ReadItem(c)
        \/ Draw(c) \/ DrawAgain(c) \/ ReadTopic(c)
        \/ Open(c) \/ Commit(c) \/ GiveUp(c)
  BY DEF Creating
<1>4. AskingType'
  <2>1. CASE Count(c)
    <3>1. evals \subseteq Creation /\ now \in 0..LastDay
      BY <1>1 DEF StoreType, PeopleType
    <3>. QED BY <1>1, <2>1, <3>1 DEF AskingType, Steps, Count, Move
  <2>2. CASE ReadJudges(c)
    <3>1. ActiveJudges \subseteq Agent /\ Done \subseteq Replacement
      BY <1>1 DEF PeopleType, ActiveJudges, Done
    <3>. QED BY <1>1, <2>2, <3>1 DEF AskingType, Steps, ReadJudges, Move
  <2>3. CASE ReadRun(c) \/ ReadItem(c) \/ ReadTopic(c) \/ GiveUp(c) \/ Commit(c)
    BY <1>1, <2>3 DEF AskingType, Steps, ReadRun, ReadItem, ReadTopic, GiveUp, Commit, Move
  <2>4. CASE Draw(c) \/ DrawAgain(c)
    <3>1. Drawable \subseteq 0..Topics
      BY Sizes DEF Drawable, Topic
    <3>2. topic' \in [Creation -> 0..Topics]
      BY <1>1, <2>4, <3>1 DEF AskingType, Draw, DrawAgain
    <3>3. step' \in [Creation -> Steps]
      BY <1>1, <2>4 DEF AskingType, Steps, Draw, DrawAgain, Move
    <3>4. UNCHANGED <<asked, seen, judges, known, born, expires>>
      BY <2>4 DEF Draw, DrawAgain
    <3>. QED BY <1>1, <3>2, <3>3, <3>4 DEF AskingType
  <2>5. CASE Open(c)
    <3>1. now \in 0..LastDay /\ now + Lifetime \in 0..LastDay + Lifetime
      BY <1>1, Sizes DEF PeopleType
    <3>. QED BY <1>1, <2>5, <3>1 DEF AskingType, Steps, Open, Move
  <2>. QED BY <1>3, <2>1, <2>2, <2>3, <2>4, <2>5
<1>5. StoreType'
  <2>1. CASE Commit(c)
    BY <1>1, <1>2, <2>1 DEF StoreType, AskingType, Commit, Referable, Run
  <2>2. CASE ~Commit(c)
    <3>1. UNCHANGED store
      BY <1>3, <2>2 DEF Count, ReadJudges, ReadRun, ReadItem, Draw, DrawAgain, ReadTopic, Open, GiveUp
    <3>. QED BY <1>1, <1>2, <3>1 DEF StoreType, store
  <2>. QED BY <2>1, <2>2
<1>6. SeedingType'
  <2>1. CASE Draw(c)
    BY <1>1, <2>1, Sizes DEF SeedingType, Draw, Walker
  <2>2. CASE ~Draw(c)
    <3>1. UNCHANGED <<seeding, calm>>
      BY <1>3, <2>2 DEF Count, ReadJudges, ReadRun, ReadItem, DrawAgain, ReadTopic, Open, Commit, GiveUp
    <3>. QED BY <1>1, <3>1 DEF SeedingType, seeding
  <2>. QED BY <2>1, <2>2
<1>. QED BY <1>2, <1>4, <1>5, <1>6, TypesPrime

LEMMA WorkerTypes == ASSUME TypeOK, EnsurePublisherAgentsOffered PROVE TypeOK'
<1>1. PeopleType /\ JudgesType /\ AskingType /\ StoreType /\ SeedingType
  BY Types
<1>2. PeopleType' /\ JudgesType' /\ AskingType' /\ SeedingType' /\ UNCHANGED <<agents, runs, evals>>
  BY <1>1, Frames DEF PeopleType, JudgesType, AskingType, SeedingType, people, replaces, asking, seeding
<1>3. offers' \in [Creation -> SUBSET agents]
  BY <1>1 DEF EnsurePublisherAgentsOffered, StoreType
<1>. QED BY <1>1, <1>2, <1>3, TypesPrime DEF StoreType

LEMMA DeletingTypes == ASSUME TypeOK, Deleting PROVE TypeOK'
<1>1. PeopleType /\ JudgesType /\ AskingType /\ StoreType /\ SeedingType
  BY Types
<1>2. AskingType' /\ SeedingType' /\ UNCHANGED <<family, replaces>>
  BY <1>1, Frames DEF AskingType, SeedingType, asking, seeding
<1>3. ASSUME NEW R, DropRuns(R), UNCHANGED <<now, people, rows>>
      PROVE  PeopleType' /\ JudgesType' /\ StoreType'
  <2>1. StoreType'
    BY <1>1, <1>3 DEF StoreType, DropRuns, people
  <2>. QED BY <1>1, <1>2, <1>3, <2>1 DEF PeopleType, JudgesType, people, replaces
<1>4. CASE (\E c \in Creation : OwnerDelete(c) \/ AdminDelete(c)) \/ (\E x \in Run : AdminDeleteRun(x)) \/ Cleanup
  BY <1>2, <1>3, <1>4, TypesPrime DEF OwnerDelete, AdminDelete, AdminDeleteRun, Cleanup
<1>5. CASE \E a \in Agent : DeleteAgent(a)
  <2>1. PICK a \in Agent : DeleteAgent(a)
    BY <1>5
  <2>2. /\ agents' = agents \ {a} /\ rows' = {x \in rows : x[1] \notin {a}}
        /\ evals' = {c \in evals : Candidate[c] \notin {a}}
        /\ offers' = [c \in Creation |-> offers[c] \ {a}]
        /\ UNCHANGED <<now, enabled, runs>>
    BY <2>1 DEF DeleteAgent, DropAgents
  <2>3. PeopleType' /\ JudgesType' /\ StoreType'
    BY <1>1, <1>2, <2>2 DEF PeopleType, JudgesType, StoreType, replaces
  <2>. QED BY <1>2, <2>3, TypesPrime
<1>6. CASE \E a \in Agent : SetStatus(a)
  <2>1. PeopleType' /\ UNCHANGED <<agents, rows, store>>
    BY <1>1, <1>6 DEF PeopleType, SetStatus
  <2>2. JudgesType' /\ StoreType'
    BY <1>1, <1>2, <2>1 DEF JudgesType, StoreType, replaces, store
  <2>. QED BY <1>2, <2>1, <2>2, TypesPrime
<1>7. CASE Tick
  <2>1. PeopleType' /\ UNCHANGED <<agents, rows, store>>
    BY <1>1, <1>7, Sizes DEF PeopleType, Tick, people
  <2>2. JudgesType' /\ StoreType'
    BY <1>1, <1>2, <2>1 DEF JudgesType, StoreType, replaces, store
  <2>. QED BY <1>2, <2>1, <2>2, TypesPrime
<1>. QED BY <1>4, <1>5, <1>6, <1>7 DEF Deleting

(* Where a walker goes, from a topic.                                      *)
LEMMA Paths ==
  ASSUME SeedingType, NEW w \in Walker, Running(w)
  PROVE  /\ \A p \in 0..3 : GoTo(w, at[w] + 1, p) \/ GoTo(w, Topics + 1, p) \/ GoTo(w, 1, p) =>
                at' \in [Walker -> 0..Topics + 1] /\ stage' \in [Walker -> 0..3]
         /\ stage[w] # 0 /\ After(w) => at' \in [Walker -> 0..Topics + 1] /\ stage' \in [Walker -> 0..3]
<1>1. at[w] \in 1..Topics /\ stage[w] \in 0..3 /\ Topics \in Nat
  BY Sizes DEF Running, Topic, SeedingType
<1>2. ASSUME NEW p \in 0..3, NEW t \in 0..Topics + 1, GoTo(w, t, p)
      PROVE  at' \in [Walker -> 0..Topics + 1] /\ stage' \in [Walker -> 0..3]
  BY <1>2 DEF GoTo, SeedingType
<1>3. at[w] \in 0..Topics + 1 /\ at[w] + 1 \in 0..Topics + 1 /\ Topics + 1 \in 0..Topics + 1 /\ 1 \in 0..Topics + 1
  BY <1>1
<1>4. ASSUME stage[w] # 0, After(w)
      PROVE  at' \in [Walker -> 0..Topics + 1] /\ stage' \in [Walker -> 0..3]
  <2>1. CASE stage[w] = 3
    BY <1>2, <1>3, <1>4, <2>1 DEF After
  <2>2. CASE stage[w] # 3
    <3>1. stage[w] + 1 \in 0..3
      BY <1>1, <2>2
    <3>. QED BY <1>2, <1>3, <1>4, <2>2, <3>1 DEF After
  <2>. QED BY <2>1, <2>2
<1>. QED BY <1>2, <1>3, <1>4

LEMMA SeedingTypes == ASSUME TypeOK, Seeding PROVE TypeOK'
<1>1. PeopleType /\ JudgesType /\ AskingType /\ StoreType /\ SeedingType
  BY Types
<1>2. AskingType' /\ UNCHANGED <<family, now, enabled, replaces>>
  BY <1>1, Frames DEF AskingType, asking
<1>3. ASSUME NEW s \in Seeder, PurgeRows(s) PROVE TypeOK'
  <2>1. PeopleType'
    BY <1>1, <1>2, <1>3 DEF PeopleType, PurgeRows
  <2>2. JudgesType'
    BY <1>1, <1>2, <1>3 DEF JudgesType, PurgeRows, replaces
  <2>3. StoreType'
    BY <1>1, <1>3 DEF StoreType, PurgeRows
  <2>4. s \in Walker /\ Running(s) /\ (GoTo(s, 1, 1) \/ GoTo(s, Topics + 1, 1)) /\ UNCHANGED <<parts, cut, calm>>
    BY <1>3 DEF PurgeRows, Walker
  <2>5. SeedingType'
    <3>1. at' \in [Walker -> 0..Topics + 1] /\ stage' \in [Walker -> 0..3]
      BY <1>1, <2>4, Paths
    <3>. QED BY <1>1, <2>4, <3>1 DEF SeedingType
  <2>. QED BY <1>2, <2>1, <2>2, <2>3, <2>5, TypesPrime
<1>4. CASE (\E s \in Seeder : Start(s) \/ PurgeTopics(s)) \/ (\E w \in Walker : Put(w) \/ FailPut(w))
  <2>1. UNCHANGED <<agents, rows, store>>
    BY <1>4 DEF Start, PurgeTopics, Put, FailPut, people
  <2>2. PeopleType' /\ JudgesType' /\ StoreType'
    BY <1>1, <1>2, <2>1 DEF PeopleType, JudgesType, StoreType, replaces, store
  <2>3. CASE \E s \in Seeder : Start(s) \/ PurgeTopics(s)
    <3>1. PICK s \in Seeder : Start(s) \/ PurgeTopics(s)
      BY <2>3
    <3>2. at' \in [Walker -> 0..Topics + 1] /\ stage' \in [Walker -> 0..3]
      BY <1>1, <3>1, Sizes DEF Start, PurgeTopics, GoTo, SeedingType
    <3>3. parts' \subseteq Topic \X Part /\ cut' \in BOOLEAN /\ calm' \subseteq Walker
      BY <1>1, <3>1 DEF Start, PurgeTopics, SeedingType, Walker
    <3>. QED BY <3>2, <3>3, <1>2, <2>2, TypesPrime DEF SeedingType
  <2>4. CASE \E w \in Walker : Put(w) \/ FailPut(w)
    <3>1. PICK w \in Walker : Put(w) \/ FailPut(w)
      BY <2>4
    <3>2. Running(w) /\ stage[w] # 0 /\ at[w] \in Topic /\ stage[w] \in Part
      BY <1>1, <3>1 DEF Put, FailPut, Running, SeedingType, Part
    <3>3. at' \in [Walker -> 0..Topics + 1] /\ stage' \in [Walker -> 0..3]
      BY <1>1, <3>1, <3>2, Paths DEF Put, FailPut
    <3>4. parts' \subseteq Topic \X Part
      BY <1>1, <3>1, <3>2 DEF Put, FailPut, SeedingType
    <3>5. cut' \in BOOLEAN /\ calm' \subseteq Walker
      BY <1>1, <3>1 DEF Put, FailPut, SeedingType
    <3>. QED BY <3>3, <3>4, <3>5, <1>2, <2>2, TypesPrime DEF SeedingType
  <2>. QED BY <1>4, <2>3, <2>4
<1>. QED BY <1>3, <1>4 DEF Seeding

LEMMA StepTypes == TypeOK /\ [Next]_vars => TypeOK'
<1>1. TypeOK /\ UNCHANGED vars => TypeOK'
  BY DEF TypeOK, vars, people, replaces, asking, store, seeding
<1>. QED BY <1>1, JudgingTypes, CreatingTypes, WorkerTypes, DeletingTypes, SeedingTypes DEF Next

-----------------------------------------------------------------------------
(* The life of a creation *)

Creates(c) ==
  \/ Count(c) \/ ReadJudges(c) \/ ReadRun(c) \/ ReadItem(c)
  \/ Draw(c) \/ DrawAgain(c) \/ ReadTopic(c)
  \/ Open(c) \/ Commit(c) \/ GiveUp(c)

(* A creation takes its own steps, each once, and keeps what it read.      *)
LEMMA Own ==
  ASSUME TypeOK, NEW c \in Creation, Creates(c)
  PROVE  /\ step[c] # "created"
         /\ \A d \in Creation \ {c} :
              /\ step'[d] = step[d] /\ asked'[d] = asked[d] /\ seen'[d] = seen[d]
              /\ judges'[d] = judges[d] /\ known'[d] = known[d] /\ topic'[d] = topic[d] /\ born'[d] = born[d]
         /\ ~Count(c) => asked' = asked /\ seen' = seen
         /\ ~ReadJudges(c) => judges' = judges /\ known' = known
         /\ ~Open(c) => born' = born
         /\ ~Commit(c) => store' = store /\ step'[c] # "created"
<1>1. AskingType
  BY Types
<1>2. CASE Count(c)
  BY <1>1, <1>2 DEF AskingType, Steps, Count, Move, ReadJudges, Open, Commit
<1>3. CASE ReadJudges(c)
  BY <1>1, <1>3 DEF AskingType, Steps, ReadJudges, Move, Count, Open, Commit
<1>4. CASE ReadRun(c) \/ ReadItem(c) \/ ReadTopic(c) \/ GiveUp(c)
  BY <1>1, <1>4 DEF AskingType, Steps, ReadRun, ReadItem, ReadTopic, GiveUp, Move
<1>5. CASE Draw(c) \/ DrawAgain(c)
  BY <1>1, <1>5 DEF AskingType, Steps, Draw, DrawAgain, Move
<1>6. CASE Open(c)
  BY <1>1, <1>6 DEF AskingType, Steps, Open, Move
<1>7. CASE Commit(c)
  BY <1>1, <1>7 DEF AskingType, Steps, Commit, Move
<1>. QED BY <1>2, <1>3, <1>4, <1>5, <1>6, <1>7 DEF Creates

LEMMA NextCases ==
  ASSUME [Next]_vars
  PROVE  \/ \E c \in Creation : Creates(c) /\ UNCHANGED <<now, people, rows, replaces>>
         \/ UNCHANGED asking
<1>1. CASE Creating
  BY <1>1, Frames DEF Creating, Creates
<1>2. CASE Judging \/ EnsurePublisherAgentsOffered \/ Deleting \/ Seeding
  BY <1>2, Frames
<1>3. CASE UNCHANGED vars
  BY <1>3 DEF vars
<1>. QED BY <1>1, <1>2, <1>3 DEF Next

LEMMA StepLife == ASSUME TypeOK, Life, [Next]_vars PROVE Life'
<1>0. AskingType /\ StoreType
  BY Types
<1>1. CASE UNCHANGED asking
  <2>1. evals' \subseteq evals /\ runs' \subseteq runs
    <3>1. CASE \E c \in Creation : Commit(c)
      BY <3>1, <1>0, <1>1 DEF Commit, Move, AskingType, asking
    <3>2. CASE UNCHANGED vars
      BY <3>2 DEF vars, store
    <3>3. CASE EnsurePublisherAgentsOffered
      BY <3>3, Frames
    <3>. QED BY <3>1, <3>2, <3>3, Stores DEF Shrinks
  <2>2. UNCHANGED <<step, seen>>
    BY <1>1 DEF asking
  <2>. QED BY <2>1, <2>2 DEF Life, Created
<1>2. CASE \E c \in Creation : Creates(c)
  <2>1. PICK c \in Creation : Creates(c)
    BY <1>2
  <2>2. \A d \in Creation : step[d] = "created" => step'[d] = "created"
    BY <2>1, Own
  <2>3. CASE Commit(c)
    <3>1. evals' = evals \cup {c} /\ runs' = runs \cup {c} /\ step'[c] = "created" /\ UNCHANGED seen
      BY <2>3, <1>0 DEF Commit, Move, AskingType
    <3>. QED BY <3>1, <2>2, <1>0 DEF Life, Created, StoreType
  <2>4. CASE ~Commit(c)
    <3>1. UNCHANGED <<evals, runs>>
      BY <2>1, <2>4, Own DEF store
    <3>2. evals' \subseteq Created'
      BY <3>1, <2>2 DEF Life, Created
    <3>3. ASSUME NEW d \in Creation PROVE seen'[d] \subseteq Created'
      <4>1. CASE Count(c) /\ d = c
        BY <4>1, <1>0, <3>2, <3>1 DEF Count, AskingType
      <4>2. CASE ~(Count(c) /\ d = c)
        BY <4>2, <2>1, <2>2, Own DEF Life, Created
      <4>. QED BY <4>1, <4>2
    <3>4. \A d \in Creation : d \in runs' => step'[d] = "created"
      BY <2>2, <3>1 DEF Life
    <3>. QED BY <3>2, <3>3, <3>4 DEF Life
  <2>. QED BY <2>3, <2>4
<1>. QED BY <1>1, <1>2, NextCases

(* The worker adds the publisher's agents where none is offered the item,  *)
(* and so where none that was a judge is left.                             *)
LEMMA WorkerOffers ==
  ASSUME TypeOK, Life, OffersInv, EnsurePublisherAgentsOffered
  PROVE  OffersInv'
<1>1. UNCHANGED <<agents, runs, step, judges>>
  BY Frames DEF people, asking
<1>2. PICK C \in SUBSET Unserved :
        offers' = [c \in Creation |-> IF c \in C THEN offers[c] \cup (Owned(c) \cap agents \cap enabled)
                                               ELSE offers[c]]
  BY DEF EnsurePublisherAgentsOffered
<1>3. \A c \in Creation : Owned(c)' = Owned(c)
  BY DEF Owned
<1>4. ASSUME NEW c \in Creation, c \notin C PROVE Offered(c)'
  BY <1>1, <1>2, <1>3, <1>4 DEF OffersInv, Offered
<1>5. ASSUME NEW c \in C PROVE Offered(c)'
  <2>1. c \in Creation /\ c \in runs /\ offers[c] \cap Owned(c) = {}
    BY DEF Unserved
  <2>2. offers'[c] = offers[c] \cup (Owned(c) \cap agents \cap enabled) /\ step[c] = "created"
    BY <1>2, <2>1 DEF Life
  <2>3. Owned(c) \cap judges[c] \cap agents = {}
    BY <2>1 DEF OffersInv, Offered
  <2>. QED BY <1>1, <1>3, <2>1, <2>2, <2>3 DEF OffersInv, Offered
<1>. QED BY <1>4, <1>5 DEF OffersInv

LEMMA StepOffers == ASSUME TypeOK, Life, OffersInv, [Next]_vars PROVE OffersInv'
<1>0. AskingType /\ StoreType
  BY Types
<1>1. \A c \in Creation : Owned(c)' = Owned(c)
  BY DEF Owned
<1>2. CASE UNCHANGED asking /\ ~EnsurePublisherAgentsOffered
  <2>1. /\ agents' \subseteq agents /\ runs' \subseteq runs
        /\ \A c \in Creation : offers'[c] \subseteq offers[c] /\ (c \in runs' => offers[c] \cap agents' \subseteq offers'[c])
    <3>1. CASE \E c \in Creation : Commit(c)
      BY <3>1, <1>0, <1>2 DEF Commit, Move, AskingType, asking
    <3>2. CASE UNCHANGED vars
      BY <3>2 DEF vars, store, people
    <3>. QED BY <1>2, <3>1, <3>2, Stores DEF Shrinks
  <2>2. UNCHANGED <<step, judges>>
    BY <1>2 DEF asking
  <2>3. ASSUME NEW c \in Creation PROVE Offered(c)'
    BY <1>1, <2>1, <2>2 DEF OffersInv, Offered
  <2>. QED BY <2>3 DEF OffersInv
<1>3. ASSUME NEW c \in Creation, Creates(c), UNCHANGED <<now, people, rows, replaces>> PROVE OffersInv'
  <2>1. agents' = agents /\ step[c] # "created" /\ offers[c] = {} /\ c \notin runs
    BY <1>3, Own DEF people, OffersInv, Offered, Life
  <2>2. /\ \A d \in Creation \ {c} : offers'[d] = offers[d] /\ (d \in runs' <=> d \in runs)
        /\ ~Commit(c) => offers'[c] = {} /\ c \notin runs'
    <3>1. CASE Commit(c)
      BY <3>1, <1>0 DEF Commit, StoreType
    <3>2. CASE ~Commit(c)
      BY <3>2, <1>3, <2>1, Own DEF store
    <3>. QED BY <3>1, <3>2
  <2>3. ASSUME NEW d \in Creation \ {c} PROVE Offered(d)'
    <3>1. step'[d] = step[d] /\ judges'[d] = judges[d]
      BY <1>3, Own
    <3>. QED BY <1>1, <2>1, <2>2, <3>1 DEF OffersInv, Offered
  <2>4. Offered(c)'
    <3>1. CASE Commit(c)
      <4>1. offers'[c] = judges[c] /\ step'[c] = "created" /\ judges' = judges
        BY <3>1, <1>0 DEF Commit, Move, StoreType, AskingType
      <4>. QED BY <4>1 DEF Offered
    <3>2. CASE ~Commit(c)
      BY <2>2, <3>2 DEF Offered
    <3>. QED BY <3>1, <3>2
  <2>. QED BY <2>3, <2>4 DEF OffersInv
<1>. QED BY <1>2, <1>3, NextCases, WorkerOffers

-----------------------------------------------------------------------------
(* The daily limit *)

LEMMA StepLimit == ASSUME TypeOK, Life, Limit, [Next]_vars PROVE Limit'
<1>0. PeopleType /\ AskingType /\ StoreType /\ PeopleType' /\ AskingType'
  BY Types, StepTypes, TypesPrime
<1>1. now \in Nat /\ now' \in Nat /\ now <= now'
  <2>1. CASE Deleting
    <3>1. now' = now \/ now' = now + 1
      BY <2>1 DEF Deleting, OwnerDelete, AdminDelete, AdminDeleteRun, Cleanup, DeleteAgent, SetStatus, Tick
    <3>. QED BY <3>1, <1>0, Sizes DEF PeopleType
  <2>2. CASE now' = now
    BY <2>2, <1>0, Sizes DEF PeopleType
  <2>. QED BY <2>1, <2>2, Frames DEF Next, vars
<1>2. asked \in [Creation -> Nat] /\ born \in [Creation -> Nat] /\ seen \in [Creation -> SUBSET Creation]
  BY <1>0, Sizes DEF AskingType
<1>3. CASE UNCHANGED asking
  <2>1. UNCHANGED <<step, asked, born, seen>>
    BY <1>3 DEF asking
  <2>2. \A c \in Creation : Held(c)' = Held(c) /\ Counted(c)' = Counted(c)
    BY <2>1 DEF Held, Counted
  <2>3. \A c \in Creation : asked'[c] <= now'
    BY <1>1, <1>2, <2>1 DEF Limit
  <2>. QED BY <2>1, <2>2, <2>3 DEF Limit
<1>4. ASSUME NEW c \in Creation, Creates(c), UNCHANGED now PROVE Limit'
  <2>1. \A d \in Creation : step[d] = "created" => born'[d] = born[d]
    BY <1>4, Own
  <2>2. ASSUME NEW d \in Creation, ~(Count(c) /\ d = c) PROVE Held(d)' = Held(d)
    <3>1. asked'[d] = asked[d] /\ seen'[d] = seen[d]
      BY <2>2, <1>4, Own
    <3>2. \A e \in seen[d] : born'[e] = born[e]
      BY <2>1 DEF Life, Created
    <3>. QED BY <3>1, <3>2 DEF Held
  <2>3. ASSUME NEW d \in Creation \ {c}
        PROVE  /\ asked'[d] <= now'
               /\ step'[d] \in {"open", "created"} => asked'[d] <= born'[d]
               /\ Counted(d)' => Cardinality(Held(d)') < MaxPerDay
    <3>1. Held(d)' = Held(d)
      BY <2>2, <2>3
    <3>2. step'[d] = step[d] /\ asked'[d] = asked[d] /\ born'[d] = born[d]
      BY <1>4, <2>3, Own
    <3>. QED BY <3>1, <3>2, <1>4 DEF Limit, Counted
  <2>4. /\ asked'[c] <= now'
        /\ step'[c] \in {"open", "created"} => asked'[c] <= born'[c]
        /\ Counted(c)' => Cardinality(Held(c)') < MaxPerDay
    <3>1. CASE Count(c)
      <4>1. /\ asked'[c] = now /\ seen'[c] = evals /\ born' = born /\ evals \subseteq Creation
            /\ step'[c] = IF Candidate[c] \in agents /\ BelowLimit(c) THEN "counted" ELSE "refused"
        BY <3>1, <1>0 DEF Count, Move, AskingType, StoreType
      <4>2. Held(c)' = {d \in evals : Candidate[d] = Candidate[c] /\ born[d] >= now}
        BY <4>1 DEF Held
      <4>3. Counted(c)' => BelowLimit(c)
        BY <4>1 DEF Counted
      <4>. QED BY <4>1, <4>2, <4>3, <1>1, <1>4 DEF BelowLimit
    <3>2. CASE ~Count(c)
      <4>1. Held(c)' = Held(c) /\ asked'[c] = asked[c]
        BY <2>2, <3>2, <1>4, Own
      <4>2. Counted(c)' => Counted(c)
        BY <1>0, <1>4, <3>2 DEF Creates, Counted, ReadJudges, ReadRun, ReadItem, Draw, DrawAgain, ReadTopic,
           Open, Commit, GiveUp, Move, AskingType, Steps
      <4>3. step'[c] \in {"open", "created"} => asked[c] <= born'[c]
        <5>1. CASE Open(c)
          BY <5>1, <1>0 DEF Open, AskingType, Limit
        <5>2. CASE ~Open(c)
          <6>1. born' = born
            BY <1>4, <5>2, Own
          <6>2. step'[c] \in {"open", "created"} => step[c] = "open"
            BY <1>0, <1>4, <3>2, <5>2 DEF Creates, ReadJudges, ReadRun, ReadItem, Draw, DrawAgain, ReadTopic,
               Commit, GiveUp, Move, AskingType, Steps
          <6>. QED BY <6>1, <6>2 DEF Limit
        <5>. QED BY <5>1, <5>2
      <4>. QED BY <4>1, <4>2, <4>3, <1>4 DEF Limit
    <3>. QED BY <3>1, <3>2
  <2>. QED BY <2>3, <2>4 DEF Limit
<1>. QED BY <1>3, <1>4, NextCases

-----------------------------------------------------------------------------
(* The judges *)

(* Rows go when their agents do; they come with a replacement.             *)
LEMMA RowsGo ==
  ASSUME [Next]_vars, ~Judging
  PROVE  rows' \subseteq rows /\ UNCHANGED replaces
<1>1. CASE Creating \/ EnsurePublisherAgentsOffered
  BY <1>1, Frames
<1>2. CASE Deleting
  <2>1. rows' \subseteq rows
    BY <1>2 DEF Deleting, OwnerDelete, AdminDelete, AdminDeleteRun, Cleanup, DeleteAgent, DropAgents, SetStatus, Tick
  <2>. QED BY <1>2, <2>1, Frames
<1>3. CASE Seeding
  <2>1. rows' \subseteq rows
    BY <1>3 DEF Seeding, Start, PurgeTopics, PurgeRows, Put, FailPut
  <2>. QED BY <1>3, <2>1, Frames
<1>4. CASE UNCHANGED vars
  BY <1>4 DEF vars
<1>. QED BY <1>1, <1>2, <1>3, <1>4 DEF Next

(* What a replacement does to the rows and to the replacements that are    *)
(* done: those stay done, and what was done before them stays as it was.   *)
LEMMA StepRows ==
  ASSUME TypeOK, RowsInv, [Next]_vars
  PROVE  RowsInv' /\ Done \subseteq Done' /\ \A q \in Done : before'[q] = before[q]
<1>0. JudgesType
  BY Types
<1>1. CASE ~Judging
  <2>1. rows' \subseteq rows /\ UNCHANGED <<phase, doomed, before>>
    BY <1>1, RowsGo DEF replaces
  <2>. QED BY <2>1 DEF RowsInv, Done
<1>2. ASSUME NEW r \in Replacement, LookUp(r) \/ FailJudges(r)
      PROVE  RowsInv' /\ Done \subseteq Done' /\ \A q \in Done : before'[q] = before[q]
  <2>1. UNCHANGED <<rows, doomed, before>>
    BY <1>2 DEF LookUp, FailJudges
  <2>2. Done' = Done
    BY <1>0, <1>2 DEF LookUp, FailJudges, Done, JudgesType
  <2>. QED BY <2>1, <2>2 DEF RowsInv
<1>3. ASSUME NEW r \in Replacement, DeleteOthers(r)
      PROVE  RowsInv' /\ Done \subseteq Done' /\ \A q \in Done : before'[q] = before[q]
  <2>1. rows' = rows /\ phase[r] = "known"
    BY <1>3 DEF DeleteOthers
  <2>2. Done' = Done /\ r \notin Done
    BY <1>0, <1>3 DEF DeleteOthers, Done, JudgesType
  <2>3. /\ before'[r] = Done /\ doomed'[r] = Others(r)
        /\ \A q \in Replacement \ {r} : before'[q] = before[q] /\ doomed'[q] = doomed[q]
    BY <1>0, <1>3 DEF DeleteOthers, JudgesType
  <2>4. \A x \in rows : x[1] \notin Wanted[r] => x \in Others(r)
    BY DEF Others
  <2>. QED BY <2>1, <2>2, <2>3, <2>4 DEF RowsInv, Done
<1>4. ASSUME NEW r \in Replacement, CommitJudges(r)
      PROVE  RowsInv' /\ Done \subseteq Done' /\ \A q \in Done : before'[q] = before[q]
  <2>1. UNCHANGED <<doomed, before>> /\ rows' = Replaced(r) /\ phase[r] = "deleted"
    BY <1>4 DEF CommitJudges
  <2>2. Done' = Done \cup {r} /\ r \notin Done
    BY <1>0, <1>4 DEF CommitJudges, Done, JudgesType
  <2>3. ASSUME NEW x \in rows'
        PROVE  /\ x[2] \in Done' /\ x[1] \in Wanted[x[2]]
               /\ \A q \in Replacement :
                    x[2] \in before[q] /\ x[1] \notin Wanted[q] => x \in doomed[q] /\ q \notin Done'
    <3>1. CASE x \in rows \ doomed[r]
      BY <3>1, <2>2 DEF RowsInv
    <3>2. CASE x \notin rows \ doomed[r]
      <4>1. PICK a \in Wanted[r] : x = <<a, r>>
        BY <3>2, <2>1, <2>3 DEF Replaced
      <4>2. \A q \in Replacement : r \notin before[q]
        BY <2>2 DEF RowsInv
      <4>. QED BY <4>1, <4>2, <2>2
    <3>. QED BY <3>1, <3>2
  <2>. QED BY <2>1, <2>2, <2>3 DEF RowsInv
<1>. QED BY <1>1, <1>2, <1>3, <1>4 DEF Judging

LEMMA StepJudges == ASSUME TypeOK, RowsInv, JudgesInv, [Next]_vars PROVE JudgesInv'
<1>0. AskingType /\ JudgesType /\ Done \subseteq Done' /\ \A q \in Done : before'[q] = before[q]
  BY Types, StepRows
<1>1. ASSUME NEW c \in Creation, known'[c] = known[c], judges'[c] = judges[c], Judged(c)' => Judged(c)
      PROVE  Heeds(c)'
  <2>1. known[c] \subseteq Done
    BY DEF JudgesInv, Heeds
  <2>2. \A q \in known[c] : before'[q] = before[q]
    BY <1>0, <2>1
  <2>3. ASSUME Judged(c)', NEW a \in judges'[c]
        PROVE  \E r \in known[c] : a \in Wanted[r] /\ (\A q \in known[c] : r \in before'[q] => a \in Wanted[q])
    BY <1>1, <2>2, <2>3 DEF JudgesInv, Heeds, Named
  <2>4. \A a \in judges'[c] : Judged(c)' => Named(a, known[c])'
    BY <1>1, <2>3 DEF Named
  <2>. QED BY <1>0, <1>1, <2>1, <2>4 DEF Heeds
<1>2. CASE UNCHANGED asking
  <2>1. ASSUME NEW c \in Creation PROVE Heeds(c)'
    <3>1. known'[c] = known[c] /\ judges'[c] = judges[c] /\ (Judged(c)' => Judged(c))
      BY <1>2 DEF asking, Judged
    <3>. QED BY <1>1, <3>1
  <2>. QED BY <2>1 DEF JudgesInv
<1>3. ASSUME NEW c \in Creation, Creates(c), UNCHANGED <<now, people, rows, replaces>> PROVE JudgesInv'
  <2>1. ASSUME NEW d \in Creation, d # c \/ ~ReadJudges(c)
        PROVE  Heeds(d)'
    <3>1. known'[d] = known[d] /\ judges'[d] = judges[d]
      BY <2>1, <1>3, Own
    <3>2. Judged(d)' => Judged(d)
      <4>1. CASE d # c
        BY <4>1, <1>3, Own DEF Judged
      <4>2. CASE d = c /\ ~ReadJudges(c)
        BY <1>0, <1>3, <4>2 DEF Creates, Judged, Count, ReadRun, ReadItem, Draw, DrawAgain, ReadTopic,
           Open, Commit, GiveUp, Move, AskingType, Steps
      <4>. QED BY <2>1, <4>1, <4>2
    <3>. QED BY <1>1, <3>1, <3>2
  <2>2. ASSUME ReadJudges(c) PROVE Heeds(c)'
    <3>1. known'[c] = Done /\ judges'[c] = ActiveJudges
      BY <2>2, <1>0 DEF ReadJudges, AskingType
    <3>2. ASSUME NEW a \in ActiveJudges
          PROVE  \E r \in Done : a \in Wanted[r] /\ (\A q \in Done : r \in before[q] => a \in Wanted[q])
      <4>1. PICK x \in rows : x[1] = a
        BY DEF ActiveJudges
      <4>2. x[2] \in Done /\ a \in Wanted[x[2]]
        BY <4>1 DEF RowsInv
      <4>3. ASSUME NEW q \in Done, x[2] \in before[q] PROVE a \in Wanted[q]
        BY <4>1, <4>3 DEF RowsInv, Done
      <4>. QED BY <4>2, <4>3
    <3>3. before' = before /\ Done' = Done
      BY <1>3 DEF replaces, Done
    <3>4. \A a \in judges'[c] : Named(a, known[c])'
      BY <3>1, <3>2, <3>3 DEF Named
    <3>. QED BY <3>1, <3>3, <3>4 DEF Heeds
  <2>3. ASSUME NEW d \in Creation PROVE Heeds(d)'
    <3>1. CASE d # c \/ ~ReadJudges(c)
      BY <2>1, <3>1
    <3>2. CASE d = c /\ ReadJudges(c)
      BY <2>2, <3>2
    <3>. QED BY <3>1, <3>2
  <2>. QED BY <2>3 DEF JudgesInv
<1>. QED BY <1>2, <1>3, NextCases

-----------------------------------------------------------------------------
(* The platform's topics *)

MendedInv == \A t \in Topic : <<t, 1>> \in parts => Whole(t) \/ cut \/ \E w \in Walker : Mending(w, t)

CalmInv == \A w \in calm : w \in Creation \/ Running(w) => Progress(w)

Young(c) == step[c] \in {"new", "counted", "judged"} => at[c] = 0 /\ c \notin calm

Drawn(c) ==
  c \in calm =>
    /\ step[c] = "drawn" => topic[c] \in Topic /\ Whole(topic[c])
    /\ step[c] = "seeding" => at[c] \in Topic \cup {Topics + 1}
    /\ step[c] # "no topic"

LEMMA SeedsParts ==
  ASSUME TRUE
  PROVE  /\ Seeds <=> MendedInv /\ CalmInv /\ \A c \in Creation : Young(c) /\ Drawn(c)
         /\ Seeds' <=> MendedInv' /\ CalmInv' /\ \A c \in Creation : Young(c)' /\ Drawn(c)'
<1>1. Seeds <=> MendedInv /\ CalmInv /\ \A c \in Creation : Young(c) /\ Drawn(c)
  BY DEF Seeds, MendedInv, CalmInv, Young, Drawn
<1>2. Seeds' <=> MendedInv' /\ CalmInv' /\ \A c \in Creation : Young(c)' /\ Drawn(c)'
  BY DEF Seeds, MendedInv, CalmInv, Young, Drawn
<1>. QED BY <1>1, <1>2

(* Walkers that stay where they are keep their promises while parts come.  *)
LEMMA Stays ==
  ASSUME NEW w, at'[w] = at[w], stage'[w] = stage[w], parts \subseteq parts'
  PROVE  /\ Progress(w) => Progress(w)'
         /\ \A t \in Topic : Mending(w, t) => Mending(w, t)'
  BY DEF Progress, Mending, Whole, Part

(* A part is written.                                                      *)
LEMMA PutSteps ==
  ASSUME TypeOK, NEW w \in Walker, Put(w)
  PROVE  /\ at[w] \in Topic /\ stage[w] \in Part /\ parts' = parts \cup {<<at[w], stage[w]>>}
         /\ \A v \in Walker \ {w} : at'[v] = at[v] /\ stage'[v] = stage[v]
         /\ \/ stage[w] \in {1, 2} /\ at'[w] = at[w] /\ stage'[w] = stage[w] + 1
            \/ stage[w] = 3 /\ at'[w] = at[w] + 1 /\ stage'[w] = 1
<1>1. SeedingType
  BY Types
<1>2. at[w] \in Topic /\ stage[w] \in Part /\ parts' = parts \cup {<<at[w], stage[w]>>} /\ After(w)
  BY <1>1 DEF Put, Running, SeedingType, Part
<1>. QED BY <1>1, <1>2 DEF After, GoTo, SeedingType, Part

LEMMA PutSeeds ==
  ASSUME TypeOK, Seeds, NEW w \in Walker, Put(w)
  PROVE  Seeds'
<1>0. SeedingType /\ AskingType /\ Topics \in Nat
  BY Types, Sizes
<1>1. /\ at[w] \in Topic /\ stage[w] \in Part /\ parts' = parts \cup {<<at[w], stage[w]>>}
      /\ \A v \in Walker \ {w} : at'[v] = at[v] /\ stage'[v] = stage[v]
      /\ \/ stage[w] \in {1, 2} /\ at'[w] = at[w] /\ stage'[w] = stage[w] + 1
         \/ stage[w] = 3 /\ at'[w] = at[w] + 1 /\ stage'[w] = 1
  BY PutSteps
<1>2. UNCHANGED <<step, topic, calm>> /\ Running(w) /\ cut' = (cut /\ ~(at'[w] > Topics /\ w \in calm))
  BY DEF Put, asking
<1>3. \A t \in Topic : Whole(t) => Whole(t)'
  BY <1>1 DEF Whole
<1>4. ASSUME Progress(w) PROVE Progress(w)'
  <2>1. \A p \in Part : p < stage[w] => <<at[w], p>> \in parts
    BY <1>1, <1>4 DEF Progress
  <2>2. CASE stage[w] = 3
    <3>1. \A p \in Part : p = 3 \/ p < 3
      BY DEF Part
    <3>2. ASSUME NEW t \in Topic, t = at[w] PROVE Whole(t)'
      BY <1>1, <2>1, <2>2, <3>1, <3>2 DEF Whole
    <3>3. \A t \in Topic : t < at'[w] => t < at[w] \/ t = at[w]
      BY <1>1, <2>2 DEF Topic
    <3>4. \A p \in Part : ~(p < stage'[w])
      BY <1>1, <2>2 DEF Part
    <3>. QED BY <1>3, <1>4, <3>2, <3>3, <3>4 DEF Progress
  <2>3. CASE stage[w] \in {1, 2}
    <3>1. \A p \in Part : p < stage'[w] => p < stage[w] \/ p = stage[w]
      BY <1>1, <2>3 DEF Part
    <3>2. at'[w] = at[w]
      BY <1>1, <2>3
    <3>. QED BY <1>1, <1>3, <1>4, <2>1, <3>1, <3>2 DEF Progress
  <2>. QED BY <1>1, <2>2, <2>3
<1>5. \A v \in Walker \ {w} : (Progress(v) => Progress(v)') /\ (\A t \in Topic : Mending(v, t) => Mending(v, t)')
  BY <1>1, Stays
<1>6. CalmInv'
  <2>1. \A v \in calm : v \in Walker
    BY <1>0 DEF SeedingType
  <2>2. \A v \in Walker \ {w} : Running(v)' => Running(v)
    BY <1>1 DEF Running
  <2>3. ASSUME NEW v \in calm, v \in Creation \/ Running(v)' PROVE Progress(v)'
    <3>1. CASE v = w
      BY <3>1, <1>2, <1>4, SeedsParts DEF CalmInv
    <3>2. CASE v # w
      BY <3>2, <2>1, <2>2, <2>3, <1>5, SeedsParts DEF CalmInv
    <3>. QED BY <3>1, <3>2
  <2>. QED BY <1>2, <2>3 DEF CalmInv
<1>7. MendedInv'
  <2>1. ASSUME NEW t \in Topic, <<t, 1>> \in parts', ~cut' PROVE Whole(t)' \/ \E v \in Walker : Mending(v, t)'
    <3>1. CASE cut
      <4>1. at'[w] > Topics /\ w \in calm
        BY <3>1, <2>1, <1>2
      <4>2. Progress(w)'
        BY <4>1, <1>2, <1>4, SeedsParts DEF CalmInv
      <4>3. t < at'[w]
        <5>1. at'[w] \in Nat
          BY <1>0, <1>1 DEF Topic
        <5>. QED BY <5>1, <4>1, <1>0 DEF Topic
      <4>. QED BY <4>2, <4>3 DEF Progress
    <3>2. CASE ~cut /\ <<t, 1>> \in parts /\ Whole(t)
      BY <3>2, <1>3
    <3>3. CASE ~cut /\ <<t, 1>> \in parts /\ \E v \in Walker : Mending(v, t)
      <4>1. PICK v \in Walker : Mending(v, t)
        BY <3>3
      <4>2. CASE v # w
        BY <4>1, <4>2, <1>5
      <4>3. CASE v = w /\ stage[w] = 2
        <5>1. at[w] = t /\ <<t, 1>> \in parts' /\ <<t, 2>> \in parts'
          BY <4>1, <4>3, <1>1, <3>3 DEF Mending
        <5>2. \A p \in Part : p < 3 => p = 1 \/ p = 2
          BY DEF Part
        <5>. QED BY <5>1, <5>2, <4>3, <1>1 DEF Mending
      <4>4. CASE v = w /\ stage[w] = 3
        <5>1. at[w] = t /\ <<t, 3>> \in parts' /\ \A p \in Part : p < 3 => <<t, p>> \in parts
          BY <4>1, <4>4, <1>1 DEF Mending
        <5>2. \A p \in Part : p = 3 \/ p < 3
          BY DEF Part
        <5>. QED BY <5>1, <5>2, <1>1 DEF Whole
      <4>. QED BY <4>1, <4>2, <4>3, <4>4 DEF Mending
    <3>4. CASE <<t, 1>> \notin parts
      <4>1. at[w] = t /\ stage[w] = 1
        BY <3>4, <2>1, <1>1
      <4>2. \A p \in Part : p < 2 => p = 1
        BY DEF Part
      <4>3. at'[w] = t /\ stage'[w] = 2
        BY <4>1, <1>1
      <4>. QED BY <2>1, <4>2, <4>3 DEF Mending
    <3>. QED BY <3>1, <3>2, <3>3, <3>4, SeedsParts DEF MendedInv
  <2>. QED BY <2>1 DEF MendedInv
<1>8. ASSUME NEW c \in Creation PROVE Young(c)' /\ Drawn(c)'
  <2>1. Young(c) /\ Drawn(c) /\ c \in Walker
    BY SeedsParts DEF Walker
  <2>2. CASE c # w
    BY <2>1, <2>2, <1>1, <1>2, <1>3 DEF Young, Drawn
  <2>3. CASE c = w
    <3>1. at[c] # 0 /\ at'[c] \in Topic \cup {Topics + 1}
      BY <2>3, <1>0, <1>1 DEF Topic
    <3>. QED BY <2>1, <3>1, <1>2, <1>3 DEF Young, Drawn
  <2>. QED BY <2>2, <2>3
<1>. QED BY <1>6, <1>7, <1>8, SeedsParts

LEMMA SeedingSeeds == ASSUME TypeOK, Seeds, Seeding PROVE Seeds'
<1>0. SeedingType /\ AskingType /\ Topics \in Nat \ {0} /\ UNCHANGED <<step, topic>>
  BY Types, Sizes, Frames DEF asking
<1>1. MendedInv /\ CalmInv /\ \A c \in Creation : Young(c) /\ Drawn(c)
  BY SeedsParts
<1>2. ASSUME NEW s \in Seeder, Start(s) \/ PurgeRows(s) \/ (PurgeTopics(s) /\ GoTo(s, 1, 0) /\ calm' = calm \cup {s} /\ UNCHANGED <<parts, cut>>)
      PROVE  Seeds'
  <2>1. /\ s \in Walker /\ s \notin Creation /\ UNCHANGED <<parts, cut>>
        /\ calm' \subseteq calm \cup {s} /\ calm' \subseteq Walker
        /\ \A v \in Walker \ {s} : at'[v] = at[v] /\ stage'[v] = stage[v]
        /\ at'[s] = 1 \/ at'[s] = Topics + 1
        /\ stage'[s] \in {0, 1}
    BY <1>0, <1>2, Apart DEF Start, PurgeRows, PurgeTopics, GoTo, SeedingType, Walker
  <2>2. \A t \in Topic : ~Mending(s, t)
    BY <1>0, <1>2 DEF Start, PurgeRows, PurgeTopics, Mending, Topic
  <2>3. \A v \in Walker \ {s} : (Progress(v) => Progress(v)') /\ (\A t \in Topic : Mending(v, t) => Mending(v, t)')
    BY <2>1, Stays
  <2>4. MendedInv'
    BY <1>1, <2>1, <2>2, <2>3 DEF MendedInv, Whole
  <2>5. Running(s)' => Progress(s)'
    <3>1. ASSUME Running(s)' PROVE at'[s] = 1
      BY <3>1, <2>1, <1>0 DEF Running, Topic
    <3>2. \A t \in Topic : ~(t < 1)
      BY DEF Topic
    <3>3. \A p \in Part : ~(p < stage'[s])
      BY <2>1 DEF Part
    <3>. QED BY <3>1, <3>2, <3>3 DEF Progress
  <2>6. CalmInv'
    BY <1>1, <2>1, <2>3, <2>5 DEF CalmInv, Running
  <2>7. \A c \in Creation : Young(c)' /\ Drawn(c)'
    <3>1. \A c \in Creation : c # s /\ c \in Walker
      BY <2>1 DEF Walker
    <3>. QED BY <3>1, <1>0, <1>1, <2>1 DEF Young, Drawn, Whole
  <2>. QED BY <2>4, <2>6, <2>7, SeedsParts
<1>3. ASSUME NEW s \in Seeder, PurgeTopics(s), cut' = (cut \/ parts' # {}),
             \/ GoTo(s, 1, 0) /\ calm' = {s}
             \/ (UNCHANGED <<at, stage>> \/ GoTo(s, Topics + 1, 1)) /\ calm' = {}
      PROVE  Seeds'
  <2>1. s \in Walker /\ s \notin Creation /\ (calm' # {} => calm' = {s} /\ at'[s] = 1 /\ stage'[s] = 0)
    BY <1>0, <1>3, Apart DEF GoTo, SeedingType, Walker
  <2>2. \A c \in Creation : at'[c] = at[c]
    BY <1>0, <1>3, <2>1 DEF GoTo, SeedingType, Walker
  <2>3. calm' # {} => Progress(s)'
    <3>1. \A t \in Topic : ~(t < 1)
      BY DEF Topic
    <3>2. \A p \in Part : ~(p < 0)
      BY DEF Part
    <3>. QED BY <2>1, <3>1, <3>2 DEF Progress
  <2>4. MendedInv' /\ CalmInv'
    BY <1>3, <2>1, <2>3 DEF MendedInv, CalmInv
  <2>5. \A c \in Creation : Young(c)' /\ Drawn(c)'
    BY <1>0, <1>1, <2>1, <2>2 DEF Young, Drawn
  <2>. QED BY <2>4, <2>5, SeedsParts
<1>4. ASSUME NEW w \in Walker, FailPut(w) PROVE Seeds'
  <2>1. /\ at[w] \in Topic /\ UNCHANGED parts /\ cut' /\ calm' = calm \ {w}
        /\ \A v \in Walker \ {w} : at'[v] = at[v] /\ stage'[v] = stage[v]
    BY <1>0, <1>4 DEF FailPut, GoTo, Running, SeedingType
  <2>2. \A v \in Walker \ {w} : Progress(v) => Progress(v)'
    BY <2>1, Stays
  <2>3. MendedInv'
    BY <2>1 DEF MendedInv
  <2>4. CalmInv'
    BY <1>0, <1>1, <2>1, <2>2 DEF CalmInv, Running, SeedingType
  <2>5. \A c \in Creation : Young(c)' /\ Drawn(c)'
    <3>1. \A c \in Creation : c \in Walker
      BY DEF Walker
    <3>2. at[w] # 0
      BY <2>1 DEF Topic
    <3>. QED BY <3>1, <3>2, <1>0, <1>1, <2>1 DEF Young, Drawn, Whole
  <2>. QED BY <2>3, <2>4, <2>5, SeedsParts
<1>5. ASSUME NEW s \in Seeder, PurgeTopics(s) PROVE Seeds'
  BY <1>2, <1>3, <1>5 DEF PurgeTopics
<1>. QED BY <1>2, <1>4, <1>5, PutSeeds DEF Seeding

LEMMA DrawSeeds ==
  ASSUME TypeOK, Seeds, NEW c \in Creation, Draw(c)
  PROVE  Seeds'
<1>0. SeedingType /\ AskingType /\ Topics \in Nat \ {0} /\ c \in Walker
  BY Types, Sizes DEF Walker
<1>1. MendedInv /\ CalmInv /\ \A d \in Creation : Young(d) /\ Drawn(d)
  BY SeedsParts
<1>2. /\ step[c] = "judged" /\ UNCHANGED <<parts, cut>> /\ at[c] = 0 /\ c \notin calm
      /\ \A v \in Walker \ {c} : at'[v] = at[v] /\ stage'[v] = stage[v]
      /\ \A d \in Creation \ {c} : step'[d] = step[d] /\ topic'[d] = topic[d]
      /\ calm' = IF cut \/ (\E w \in Walker : Running(w)) THEN calm ELSE calm \cup {c}
  BY <1>0, <1>1 DEF Draw, Move, SeedingType, AskingType, Young
<1>3. \/ /\ topic'[c] \in Drawable /\ step'[c] = "drawn" /\ at'[c] = at[c] /\ stage'[c] = stage[c]
      \/ step'[c] = "seeding" /\ at'[c] = 1 /\ stage'[c] = 1
  BY <1>0 DEF Draw, Move, SeedingType, AskingType, Drawable
<1>4. \A v \in Walker \ {c} : (Progress(v) => Progress(v)') /\ (\A t \in Topic : Mending(v, t) => Mending(v, t)')
  BY <1>2, Stays
<1>5. \A t \in Topic : ~Mending(c, t)
  BY <1>2 DEF Mending, Topic
<1>6. MendedInv'
  BY <1>1, <1>2, <1>4, <1>5 DEF MendedInv, Whole
<1>7. Progress(c)'
  <2>1. \A t \in Topic : ~(t < at'[c])
    BY <1>2, <1>3 DEF Topic
  <2>2. \A p \in Part : ~(p < stage'[c] /\ at'[c] \in Topic)
    BY <1>2, <1>3 DEF Part, Topic
  <2>. QED BY <2>1, <2>2 DEF Progress
<1>8. CalmInv'
  <2>1. calm' \subseteq Walker
    BY <1>0, <1>2 DEF SeedingType
  <2>. QED BY <1>1, <1>2, <1>4, <1>7, <2>1 DEF CalmInv, Running
<1>9. ASSUME NEW d \in Creation PROVE Young(d)' /\ Drawn(d)'
  <2>1. CASE d # c
    BY <2>1, <1>1, <1>2 DEF Young, Drawn, Whole, Walker
  <2>2. CASE d = c
    <3>1. Young(c)'
      BY <1>3 DEF Young
    <3>2. ASSUME c \in calm', step'[c] = "drawn" PROVE topic'[c] \in Topic /\ \A p \in Part : <<topic'[c], p>> \in parts'
      <4>1. ~cut /\ \A w \in Walker : ~Running(w)
        BY <3>2, <1>2
      <4>2. \A w \in Walker : \A t \in Topic : ~Mending(w, t)
        BY <4>1 DEF Mending, Running
      <4>3. topic'[c] \in Topic /\ <<topic'[c], 1>> \in parts
        BY <3>2, <1>3 DEF Drawable
      <4>. QED BY <4>1, <4>2, <4>3, <1>1, <1>2 DEF MendedInv, Whole
    <3>3. step'[c] = "seeding" => at'[c] \in Topic
      BY <1>0, <1>3 DEF Topic
    <3>4. step'[c] # "no topic"
      BY <1>3
    <3>. QED BY <2>2, <3>1, <3>2, <3>3, <3>4 DEF Drawn, Whole
  <2>. QED BY <2>1, <2>2
<1>. QED BY <1>6, <1>8, <1>9, SeedsParts

LEMMA CreatingSeeds ==
  ASSUME TypeOK, Seeds, NEW c \in Creation, Creates(c), ~Draw(c)
  PROVE  Seeds'
<1>0. SeedingType /\ AskingType /\ Topics \in Nat \ {0} /\ c \in Walker
  BY Types, Sizes DEF Walker
<1>1. MendedInv /\ CalmInv /\ \A d \in Creation : Young(d) /\ Drawn(d)
  BY SeedsParts
<1>2. UNCHANGED <<parts, at, stage, cut, calm>>
  BY DEF Creates, Count, ReadJudges, ReadRun, ReadItem, DrawAgain, ReadTopic, Open, Commit, GiveUp, seeding
<1>3. MendedInv' /\ CalmInv'
  BY <1>1, <1>2 DEF MendedInv, CalmInv, Whole, Mending, Progress, Running
<1>4. ASSUME NEW d \in Creation \ {c} PROVE Young(d)' /\ Drawn(d)'
  <2>1. step'[d] = step[d] /\ topic'[d] = topic[d]
    BY Own
  <2>. QED BY <1>1, <1>2, <2>1 DEF Young, Drawn, Whole
<1>5. Young(c)' /\ Drawn(c)'
  <2>1. CASE DrawAgain(c)
    <3>1. \/ topic'[c] \in Drawable /\ step'[c] = "drawn"
          \/ Drawable = {} /\ step'[c] = "no topic"
      BY <1>0, <2>1 DEF DrawAgain, Move, AskingType, Drawable
    <3>2. ASSUME c \in calm PROVE \A t \in Topic : Whole(t)
      <4>1. at[c] = Topics + 1
        BY <3>2, <1>1, <2>1 DEF Drawn, DrawAgain, Running
      <4>2. \A t \in Topic : t < at[c]
        BY <4>1, <1>0 DEF Topic
      <4>. QED BY <3>2, <4>2, <1>1 DEF CalmInv, Progress
    <3>3. 1 \in Topic /\ 1 \in Part
      BY <1>0 DEF Topic, Part
    <3>4. c \in calm => topic'[c] \in Drawable /\ step'[c] = "drawn"
      BY <3>1, <3>2, <3>3 DEF Drawable, Whole
    <3>5. c \in calm => topic'[c] \in Topic /\ Whole(topic'[c])
      BY <3>2, <3>4 DEF Drawable
    <3>. QED BY <3>1, <3>4, <3>5, <1>2 DEF Young, Drawn, Whole
  <2>2. CASE ReadTopic(c)
    <3>1. step[c] = "drawn" /\ topic' = topic /\ step'[c] = IF Whole(topic[c]) THEN "sourced" ELSE "no topic"
      BY <1>0, <2>2 DEF ReadTopic, Move, AskingType
    <3>. QED BY <3>1, <1>1, <1>2 DEF Young, Drawn
  <2>3. CASE ~DrawAgain(c) /\ ~ReadTopic(c)
    <3>1. /\ step'[c] \notin {"drawn", "seeding", "no topic"}
          /\ step'[c] \in {"new", "counted", "judged"} => step[c] \in {"new", "counted", "judged"}
      BY <1>0, <2>3 DEF Creates, Count, ReadJudges, ReadRun, ReadItem, Open, Commit, GiveUp, Move, AskingType
    <3>. QED BY <3>1, <1>1, <1>2 DEF Young, Drawn
  <2>. QED BY <2>1, <2>2, <2>3
<1>. QED BY <1>3, <1>4, <1>5, SeedsParts

LEMMA StepSeeds == ASSUME TypeOK, Seeds, [Next]_vars PROVE Seeds'
<1>1. CASE UNCHANGED <<step, topic, seeding, calm>>
  <2>1. UNCHANGED <<step, topic, parts, at, stage, cut, calm>>
    BY <1>1 DEF seeding
  <2>2. MendedInv' = MendedInv /\ CalmInv' = CalmInv
    BY <2>1 DEF MendedInv, CalmInv, Whole, Mending, Progress, Running
  <2>3. \A c \in Creation : (Young(c) => Young(c)') /\ (Drawn(c) => Drawn(c)')
    BY <2>1 DEF Young, Drawn, Whole
  <2>. QED BY <2>2, <2>3, SeedsParts
<1>2. CASE Judging \/ EnsurePublisherAgentsOffered \/ Deleting \/ UNCHANGED vars
  BY <1>1, <1>2, Frames DEF vars, asking
<1>3. CASE Creating
  BY <1>3, DrawSeeds, CreatingSeeds DEF Creating, Creates
<1>. QED BY <1>2, <1>3, SeedingSeeds DEF Next

-----------------------------------------------------------------------------
LEMMA StepOrphans == ASSUME TypeOK, OrphansOnly, [Next]_vars PROVE OrphansOnly'
<1>1. ASSUME NEW c \in Creation, Commit(c) PROVE OrphansOnly'
  <2>1. runs' = runs \cup {c} /\ evals' = evals \cup {c} /\ agents' = agents
    BY <1>1 DEF Commit, people
  <2>. QED BY <2>1 DEF OrphansOnly
<1>2. CASE UNCHANGED vars
  BY <1>2 DEF vars, people, store, OrphansOnly
<1>3. CASE EnsurePublisherAgentsOffered
  BY <1>3, Frames DEF people, OrphansOnly
<1>. QED BY <1>1, <1>2, <1>3, Stores DEF Shrinks

LEMMA InitInv == Init => IInv
<1>. SUFFICES ASSUME Init PROVE IInv
  OBVIOUS
<1>1. TypeOK
  BY InitTypes
<1>2. Life
  BY Apart DEF Init, Life
<1>8. OffersInv
  BY Apart DEF Init, OffersInv, Offered
<1>3. Limit
  BY DEF Init, Limit, Counted
<1>4. RowsInv
  <2>1. First \in Done
    BY Sets DEF Init, Done
  <2>2. \A q \in Replacement : before[q] = {}
    BY DEF Init
  <2>3. \A x \in rows : x[2] = First /\ x[1] \in Wanted[First]
    BY DEF Init
  <2>. QED BY <2>1, <2>2, <2>3 DEF RowsInv
<1>5. JudgesInv
  BY DEF Init, JudgesInv, Heeds, Judged
<1>6. Seeds
  BY DEF Init, Seeds, Walker
<1>7. OrphansOnly
  BY Apart DEF Init, OrphansOnly
<1>. QED BY <1>1, <1>2, <1>3, <1>4, <1>5, <1>6, <1>7, <1>8 DEF IInv

(* IInv holds in every reachable state.                                    *)
THEOREM Invariance == Spec => []IInv
<1>1. Init => IInv
  BY InitInv
<1>2. IInv /\ [Next]_vars => IInv'
  BY StepTypes, StepLife, StepOffers, StepLimit, StepRows, StepJudges, StepSeeds, StepOrphans DEF IInv
<1>. QED BY <1>1, <1>2, PTL DEF Spec

(* Offers, rows and evaluations refer to what exists: the deletions        *)
(* cascade (00015_pre_review_evaluations.sql).                             *)
THEOREM TypeCorrect == Spec => []TypeOK
<1>1. IInv => TypeOK
  BY DEF IInv
<1>. QED BY <1>1, Invariance, PTL

(* Of a candidate and a day, a creation that stores its evaluation had     *)
(* counted fewer than the limit, however counts, days and deletions        *)
(* overlap.                                                                *)
THEOREM LimitHolds == Spec => []DailyLimitHolds
<1>1. IInv => DailyLimitHolds
  <2>. SUFFICES ASSUME IInv, NEW c \in evals
                PROVE  Cardinality({d \in evals \cap seen[c] : Candidate[d] = Candidate[c] /\ born[d] = born[c]})
                         < MaxPerDay
    BY DEF DailyLimitHolds
  <2>0. AskingType /\ StoreType
    BY Types DEF IInv
  <2>1. c \in Creation /\ step[c] = "created"
    BY <2>0 DEF IInv, Life, Created, StoreType
  <2>2. asked[c] <= born[c] /\ Cardinality(Held(c)) < MaxPerDay
    BY <2>1 DEF IInv, Limit, Counted
  <2>3. IsFiniteSet(Held(c))
    <3>1. Held(c) \subseteq Creation
      BY <2>0, <2>1 DEF Held, AskingType
    <3>. QED BY <3>1, EvaluationsAssumption, FS_Subset
  <2>. DEFINE Beside == {d \in evals \cap seen[c] : Candidate[d] = Candidate[c] /\ born[d] = born[c]}
  <2>4. Beside \subseteq Held(c)
    BY <2>2 DEF Held
  <2>5. Cardinality(Beside) <= Cardinality(Held(c)) /\ IsFiniteSet(Beside)
    BY <2>3, <2>4, FS_Subset
  <2>6. Cardinality(Beside) \in Nat /\ Cardinality(Held(c)) \in Nat /\ MaxPerDay \in Nat
    BY <2>3, <2>5, FS_CardinalityType, Sizes
  <2>. QED BY <2>2, <2>5, <2>6
<1>. QED BY <1>1, Invariance, PTL

(* Offers follow what the administrators had decided when the judges were  *)
(* read, though replacements overlap each other and the creation; the      *)
(* worker adds agents of the publisher only where none of them that was    *)
(* read as a judge is left.                                                *)
THEOREM OffersFollow == Spec => []OffersFollowTheJudges
<1>1. IInv => OffersFollowTheJudges
  <2>. SUFFICES ASSUME IInv, NEW c \in Creation, NEW a \in offers[c],
                       ~(a \in Owned(c) /\ Owned(c) \cap judges[c] \cap agents = {})
                PROVE  Named(a, known[c])
    BY DEF OffersFollowTheJudges, Named
  <2>1. a \in judges[c] /\ Judged(c)
    BY DEF IInv, OffersInv, Offered, Judged
  <2>. QED BY <2>1 DEF IInv, JudgesInv, Heeds
<1>. QED BY <1>1, Invariance, PTL

(* A creation that nothing disturbs finds a topic and all of its parts:    *)
(* a start that goes through mends what a crash or an error left.          *)
THEOREM DrawnUsable == Spec => []DrawnTopicsAreUsable
<1>1. IInv => DrawnTopicsAreUsable
  BY DEF IInv, Seeds, DrawnTopicsAreUsable
<1>. QED BY <1>1, Invariance, PTL

(* The run of an evaluation is without it only once its candidate has been *)
(* deleted: all other deletions go by the run.                             *)
THEOREM OnlyTheDeletedLeaveRuns == Spec => []OrphansOnly
<1>1. IInv => OrphansOnly
  BY DEF IInv
<1>. QED BY <1>1, Invariance, PTL

-----------------------------------------------------------------------------
(* Cleaning up.                                                            *)

(* What a cleanup may still have to delete, now or later.                  *)
Left == {c \in Creation : step[c] = "created" => c \in evals}

(* What has expired stays so until it is gone; each cleanup deletes        *)
(* something for good, and nothing adds to what is left to delete.         *)
CleanupsGetDone ==
  [][/\ \A c \in Expired : c \in Expired' \/ c \notin runs' \/ Candidate[c] \notin agents'
     /\ Left' \subseteq Left
     /\ Cleanup => Left' # Left]_vars

(* A creation is deleted once, so that no more batches than creations are  *)
(* ever needed: evaluations do not reappear and expiries are never undone. *)
THEOREM CleanupsEnd == Spec => CleanupsGetDone
<1>1. ASSUME IInv, IInv', [Next]_vars
      PROVE  /\ \A c \in Expired : c \in Expired' \/ c \notin runs' \/ Candidate[c] \notin agents'
             /\ Left' \subseteq Left
             /\ Cleanup => Left' # Left
  <2>0. /\ TypeOK /\ Life /\ OrphansOnly' /\ AskingType /\ StoreType /\ PeopleType /\ PeopleType'
        /\ evals \subseteq Creation
    BY <1>1, Types, TypesPrime DEF IInv, StoreType
  <2>1. \A c \in Creation : step[c] = "created" =>
          /\ step'[c] = "created" /\ expires'[c] = expires[c]
          /\ c \in evals' => c \in evals
    <3>1. CASE UNCHANGED asking
      <4>1. evals' \subseteq evals
        <5>1. CASE \E c \in Creation : Commit(c)
          BY <3>1, <5>1, <2>0 DEF Commit, Move, AskingType, asking
        <5>2. CASE UNCHANGED vars
          BY <5>2 DEF vars, store
        <5>3. CASE EnsurePublisherAgentsOffered
          BY <5>3, Frames
        <5>. QED BY <1>1, <2>0, <5>1, <5>2, <5>3, Stores DEF Shrinks
      <4>. QED BY <3>1, <4>1 DEF asking
    <3>2. ASSUME NEW c \in Creation, Creates(c)
          PROVE  \A d \in Creation : step[d] = "created" =>
                   /\ step'[d] = "created" /\ expires'[d] = expires[d]
                   /\ d \in evals' => d \in evals
      <4>1. step[c] # "created" /\ \A d \in Creation \ {c} : step'[d] = step[d]
        BY <2>0, <3>2, Own
      <4>2. \A d \in Creation \ {c} : expires'[d] = expires[d]
        BY <2>0, <3>2 DEF Creates, AskingType, Count, ReadJudges, ReadRun, ReadItem, Draw, DrawAgain,
             ReadTopic, Open, Commit, GiveUp
      <4>3. evals' \subseteq evals \cup {c}
        BY <2>0, <3>2, Own DEF Commit, store
      <4>. QED BY <4>1, <4>2, <4>3
    <3>. QED BY <1>1, <3>1, <3>2, NextCases
  <2>2. now <= now' /\ now \in Nat /\ now' \in Nat
    <3>1. now' \in {now, now + 1}
      <4>1. CASE Judging \/ Creating \/ EnsurePublisherAgentsOffered \/ Seeding \/ UNCHANGED vars
        BY <4>1, Frames DEF vars
      <4>2. CASE Deleting
        BY <4>2 DEF Deleting, OwnerDelete, AdminDelete, AdminDeleteRun, Cleanup, DeleteAgent, SetStatus, Tick
      <4>. QED BY <1>1, <4>1, <4>2 DEF Next
    <3>. QED BY <2>0, <3>1, Sizes DEF PeopleType
  <2>3. ASSUME NEW c \in Expired, c \in runs', Candidate[c] \in agents'
        PROVE  c \in Expired'
    <3>1. c \in Creation /\ step[c] = "created" /\ expires[c] <= now /\ expires[c] \in Nat
      BY <2>0, Sizes DEF Expired, Life, Created, AskingType
    <3>2. c \in evals'
      BY <2>0, <2>3, <3>1 DEF OrphansOnly
    <3>3. expires'[c] <= now'
      BY <2>1, <2>2, <3>1
    <3>. QED BY <3>2, <3>3 DEF Expired
  <2>4. Left' \subseteq Left
    BY <2>1 DEF Left
  <2>5. ASSUME Cleanup PROVE Left' # Left
    <3>1. PICK c \in Expired : c \notin evals'
      BY <2>5 DEF Cleanup, Batches, DropRuns
    <3>2. c \in Creation /\ c \in evals /\ step[c] = "created"
      BY <2>0 DEF Expired, Life, Created
    <3>3. c \in Left /\ c \notin Left'
      BY <2>1, <3>1, <3>2 DEF Left
    <3>. QED BY <3>3
  <2>. QED BY <2>3, <2>4, <2>5
<1>2. IInv /\ IInv' /\ [Next]_vars =>
        [/\ \A c \in Expired : c \in Expired' \/ c \notin runs' \/ Candidate[c] \notin agents'
         /\ Left' \subseteq Left
         /\ Cleanup => Left' # Left]_vars
  BY <1>1
<1>. QED BY <1>2, Invariance, PTL DEF Spec, CleanupsGetDone

=============================================================================
