--------------------------- MODULE ModerationProofs ---------------------------
(***************************************************************************)
(* Proofs of the properties of Moderation.  The first part is about the    *)
(* positions in a queue and what a reader by offset misses of it, as       *)
(* operators of constants; the second is the inductive invariant.          *)
(***************************************************************************)
EXTENDS Moderation, FiniteSetTheorems, TLAPS

-----------------------------------------------------------------------------
(* A world w is what runs, events and artifacts are, their statuses, and   *)
(* what has left a queue.  A reading p is a filter, the queue as it was    *)
(* and what had left by then.                                              *)

World == [Content -> Shape] \X [Content -> Status \cup {"none", "gone"}] \X SUBSET Exit
IsReading(p) ==
  p.filter \in Filters /\ p.queue \in SUBSET Content /\ p.since \in SUBSET Exit

MatchesIn(w, c, f) == w[1][c].listed /\ w[1][c].kind \in f.kinds
QueueIn(w, f)      == {c \in Content : w[2][c] = f.status /\ MatchesIn(w, c, f)}
AheadIn(q, c)      == {d \in q : d > c}
Window(q, u, k)    == {c \in q : u <= Cardinality(AheadIn(q, c)) /\ Cardinality(AheadIn(q, c)) < u + k}
LeftIn(w, p)       == {x \in w[3] \ p.since : x[3] = p.filter.status /\ MatchesIn(w, x[2], p.filter)}
StayedIn(w, p)     == {c \in p.queue : \A x \in LeftIn(w, p) : x[2] # c}

Sound(w, p) == p.since \subseteq w[3] /\ StayedIn(w, p) \subseteq QueueIn(w, p.filter)

(* What a reader has missed that has read the first u of the queue into l. *)
Missed(w, p, l, u) ==
  {c \in StayedIn(w, p) : c \notin l /\ Cardinality(AheadIn(QueueIn(w, p.filter), c)) < u}

Reads(w, p, l, u) == Cardinality(Missed(w, p, l, u)) <= Cardinality(LeftIn(w, p))
Whole(w, p, l)    == Cardinality(StayedIn(w, p) \ l) <= Cardinality(LeftIn(w, p))

(* What changes its status on the way from w to v leaves a new exit.       *)
Moved(w, v, by) ==
  /\ v[1] = w[1] /\ w[3] \subseteq v[3]
  /\ \A c \in Content : w[2][c] \in Status /\ v[2][c] # w[2][c] =>
       <<by, c, w[2][c]>> \in v[3] \ w[3]

-----------------------------------------------------------------------------
(* Queues and exits are finite, and content is numbered.                   *)
LEMMA Finite ==
  /\ \A C \in SUBSET Content : IsFiniteSet(C) /\ C \subseteq Nat
  /\ \A X \in SUBSET Exit : IsFiniteSet(X)
<1>1. IsFiniteSet(Content) /\ Content \subseteq Nat /\ IsFiniteSet(Decision)
  BY ModerationAssumption
<1>2. \A C \in SUBSET Content : IsFiniteSet(C) /\ C \subseteq Nat
  BY <1>1, FS_Subset
<1>3. IsFiniteSet(Decision \cup Content \cup {0})
  BY <1>1, FS_Union, FS_Singleton
<1>4. IsFiniteSet(Status)
  <2>1. Status = {"pending"} \cup {"approved"} \cup {"rejected"}
    BY DEF Status
  <2> QED  BY <2>1, FS_Union, FS_Singleton
<1>5. IsFiniteSet(Exit)
  <2>1. IsFiniteSet((Decision \cup Content \cup {0}) \X Content)
    BY <1>1, <1>3, FS_Product
  <2> DEFINE E == ((Decision \cup Content \cup {0}) \X Content) \X Status
             h == [x \in Exit |-> <<<<x[1], x[2]>>, x[3]>>]
  <2>2. IsFiniteSet(E)
    BY <2>1, <1>4, FS_Product
  <2>3. \A x \in Exit : h[x] \in E
    BY DEF Exit
  <2>4. \A x, y \in Exit : h[x] = h[y] => x = y
    BY DEF Exit
  <2>5. h \in Injection(Exit, E)
    BY <2>3, <2>4 DEF Injection, IsInjective
  <2> HIDE DEF h, E
  <2> QED  BY <2>2, <2>5, FS_Injection
<1>6. \A X \in SUBSET Exit : IsFiniteSet(X)
  BY <1>5, FS_Subset
<1> QED  BY <1>2, <1>6

(* Positions differ: of two items the older has the larger one.            *)
LEMMA Positions ==
  ASSUME NEW q \in SUBSET Content, NEW c \in q, NEW d \in q, c < d
  PROVE  /\ Cardinality(AheadIn(q, c)) \in Nat
         /\ Cardinality(AheadIn(q, d)) \in Nat
         /\ Cardinality(AheadIn(q, d)) < Cardinality(AheadIn(q, c))
<1>1. q \subseteq Nat /\ IsFiniteSet(AheadIn(q, c)) /\ IsFiniteSet(AheadIn(q, d))
  BY Finite DEF AheadIn
<1>2. AheadIn(q, d) \in SUBSET AheadIn(q, c) /\ AheadIn(q, d) # AheadIn(q, c)
  <2>1. c \in Nat /\ d \in Nat
    BY <1>1
  <2>2. d \in AheadIn(q, c) /\ d \notin AheadIn(q, d)
    BY <2>1 DEF AheadIn
  <2>3. \A e \in AheadIn(q, d) : e \in AheadIn(q, c)
    BY <1>1, <2>1 DEF AheadIn
  <2> QED  BY <2>2, <2>3
<1>3. Cardinality(AheadIn(q, c)) \in Nat /\ Cardinality(AheadIn(q, d)) \in Nat
  BY <1>1, FS_CardinalityType
<1>4. /\ Cardinality(AheadIn(q, d)) <= Cardinality(AheadIn(q, c))
      /\ Cardinality(AheadIn(q, d)) # Cardinality(AheadIn(q, c))
  BY <1>1, <1>2, FS_Subset
<1> QED  BY <1>3, <1>4

(* So no more than k items have one of k positions.                        *)
LEMMA Windows ==
  ASSUME NEW q \in SUBSET Content, NEW u \in Nat, NEW k \in Nat
  PROVE  /\ IsFiniteSet(Window(q, u, k))
         /\ Cardinality(Window(q, u, k)) \in Nat
         /\ Cardinality(Window(q, u, k)) <= k
<1> DEFINE W == Window(q, u, k)
           h == [c \in W |-> Cardinality(AheadIn(q, c)) - u + 1]
<1>1. \A c \in W : c \in q /\ Cardinality(AheadIn(q, c)) \in Nat
  BY Finite, FS_CardinalityType DEF Window, AheadIn
<1>2. \A c \in W : h[c] \in 1..k
  BY <1>1 DEF Window
<1>3. \A c, d \in W : h[c] = h[d] => c = d
  <2> SUFFICES ASSUME NEW c \in W, NEW d \in W, h[c] = h[d], c # d
               PROVE  FALSE
    OBVIOUS
  <2>1. Cardinality(AheadIn(q, c)) = Cardinality(AheadIn(q, d))
    BY <1>1
  <2>2. c \in Nat /\ d \in Nat
    BY <1>1, Finite
  <2>3. CASE c < d  BY <1>1, <2>1, <2>3, Positions
  <2>4. CASE d < c  BY <1>1, <2>1, <2>4, Positions
  <2> QED  BY <2>2, <2>3, <2>4
<1>4. h \in Injection(W, 1..k)
  BY <1>2, <1>3 DEF Injection, IsInjective
<1>5. IsFiniteSet(1..k) /\ Cardinality(1..k) = k
  BY FS_Interval
<1>6. IsFiniteSet(W) /\ Cardinality(W) <= Cardinality(1..k)
  <2> HIDE DEF h, W
  <2> QED  BY <1>4, <1>5, FS_Injection
<1> QED  BY <1>5, <1>6, FS_CardinalityType

LEMMA Sizes ==
  ASSUME NEW w \in World, NEW p, IsReading(p), NEW l, NEW u \in Nat
  PROVE  /\ QueueIn(w, p.filter) \in SUBSET Content
         /\ IsFiniteSet(LeftIn(w, p)) /\ Cardinality(LeftIn(w, p)) \in Nat
         /\ IsFiniteSet(Missed(w, p, l, u)) /\ Cardinality(Missed(w, p, l, u)) \in Nat
         /\ IsFiniteSet(StayedIn(w, p) \ l) /\ Cardinality(StayedIn(w, p) \ l) \in Nat
<1>1. w[3] \subseteq Exit /\ p.queue \subseteq Content
  BY DEF World, IsReading
<1>2. LeftIn(w, p) \in SUBSET Exit
  BY <1>1 DEF LeftIn
<1>3. Missed(w, p, l, u) \in SUBSET Content /\ StayedIn(w, p) \ l \in SUBSET Content
  BY <1>1 DEF Missed, StayedIn
<1>4. QueueIn(w, p.filter) \in SUBSET Content
  BY DEF QueueIn
<1> QED  BY <1>2, <1>3, <1>4, Finite, FS_CardinalityType

-----------------------------------------------------------------------------
(* While a queue changes, a reader may miss as many items more as leave    *)
(* it.                                                                     *)
LEMMA KeptWhileMoving ==
  ASSUME NEW w \in World, NEW v \in World, NEW by, NEW p, IsReading(p),
         Moved(w, v, by), Sound(w, p)
  PROVE  /\ Sound(v, p)
         /\ \A l : \A u \in Nat : Reads(w, p, l, u) => Reads(v, p, l, u)
         /\ \A l : Whole(w, p, l) => Whole(v, p, l)
<1> DEFINE f == p.filter
           Q == QueueIn(w, f)
           R == QueueIn(v, f)
           D == Q \ R
           T == {x \in v[3] \ w[3] : x[1] = by /\ x[2] \in D /\ x[3] = f.status}
<1>0. /\ f.status \in Status /\ p.since \subseteq w[3] /\ p.queue \subseteq Content
      /\ w[3] \subseteq v[3] /\ v[1] = w[1] /\ v[3] \subseteq Exit /\ w[3] \subseteq Exit
  <2>1. f \in Filters
    BY DEF IsReading
  <2>2. f.status \in Status
    BY <2>1, ModerationAssumption DEF Filters, NoFilter, Status
  <2> QED  BY <2>2 DEF Sound, Moved, World, IsReading
<1>1. /\ D \in SUBSET Content /\ IsFiniteSet(D) /\ Cardinality(D) \in Nat
      /\ IsFiniteSet(T) /\ Cardinality(T) \in Nat /\ R \in SUBSET Content
  <2>1. D \in SUBSET Content /\ T \in SUBSET Exit /\ R \in SUBSET Content
    BY <1>0 DEF QueueIn
  <2> HIDE DEF D, T
  <2> QED  BY <2>1, Finite, FS_CardinalityType
<1>2. \A c \in D : <<by, c, f.status>> \in T
  BY <1>0 DEF Moved, QueueIn, MatchesIn
<1>3. Cardinality(D) <= Cardinality(T)
  <2> DEFINE h == [c \in D |-> <<by, c, f.status>>]
  <2>1. h \in Injection(D, T)
    BY <1>2 DEF Injection, IsInjective
  <2> HIDE DEF h, D, T
  <2> QED  BY <2>1, <1>1, FS_Injection
<1>4. /\ T \in SUBSET LeftIn(v, p) /\ LeftIn(w, p) \in SUBSET LeftIn(v, p)
      /\ T \cap LeftIn(w, p) = {}
  <2>1. \A x \in T : x \in LeftIn(v, p)
    BY <1>0 DEF LeftIn, QueueIn, MatchesIn
  <2>2. \A x \in LeftIn(w, p) : x \in LeftIn(v, p)
    BY <1>0 DEF LeftIn, MatchesIn
  <2>3. \A x \in T : x \notin LeftIn(w, p)
    BY DEF LeftIn
  <2> QED  BY <2>1, <2>2, <2>3
<1>5. Cardinality(LeftIn(w, p)) + Cardinality(D) <= Cardinality(LeftIn(v, p))
  <2> HIDE DEF D, T
  <2>1. IsFiniteSet(LeftIn(w, p)) /\ Cardinality(LeftIn(w, p)) \in Nat
        /\ IsFiniteSet(LeftIn(v, p)) /\ Cardinality(LeftIn(v, p)) \in Nat
    BY Sizes
  <2>2. Cardinality(T \cup LeftIn(w, p)) = Cardinality(T) + Cardinality(LeftIn(w, p))
    <3>1. Cardinality({}) = 0
      BY FS_EmptySet
    <3>2. Cardinality(T \cap LeftIn(w, p)) = 0
      BY <1>4, <3>1
    <3>3. Cardinality(T \cup LeftIn(w, p))
            = Cardinality(T) + Cardinality(LeftIn(w, p)) - Cardinality(T \cap LeftIn(w, p))
      BY <2>1, <1>1, FS_Union
    <3> QED  BY <2>1, <1>1, <3>2, <3>3
  <2>3. Cardinality(T \cup LeftIn(w, p)) <= Cardinality(LeftIn(v, p))
    <3>1. T \cup LeftIn(w, p) \in SUBSET LeftIn(v, p)
      BY <1>4
    <3> QED  BY <3>1, <2>1, FS_Subset
  <2> QED  BY <1>1, <1>3, <2>1, <2>2, <2>3
<1>6. \A c \in StayedIn(v, p) : c \in StayedIn(w, p) /\ c \in Q /\ c \in R
  <2> SUFFICES ASSUME NEW c \in StayedIn(v, p)
               PROVE  c \in StayedIn(w, p) /\ c \in Q /\ c \in R
    OBVIOUS
  <2>1. c \in StayedIn(w, p)
    BY <1>4 DEF StayedIn
  <2>2. c \in Q
    BY <2>1 DEF Sound
  <2>3. ASSUME c \in D  PROVE FALSE
    <3>1. <<by, c, f.status>> \in LeftIn(v, p)
      BY <2>3, <1>2, <1>4
    <3> QED  BY <3>1 DEF StayedIn
  <2> QED  BY <2>1, <2>2, <2>3
<1>7. Sound(v, p)
  BY <1>0, <1>6 DEF Sound
<1>8. ASSUME NEW l, NEW u \in Nat, Reads(w, p, l, u)
      PROVE  Reads(v, p, l, u)
  <2> DEFINE k == Cardinality(D)
             W == Window(Q, u, k)
  <2>1. Q \in SUBSET Content
    BY DEF QueueIn
  <2>2. \A c \in Missed(v, p, l, u) : c \in Missed(w, p, l, u) \cup W
    <3> SUFFICES ASSUME NEW c \in Missed(v, p, l, u)
                 PROVE  c \in Missed(w, p, l, u) \cup W
      OBVIOUS
    <3>1. c \in StayedIn(w, p) /\ c \in Q /\ c \in R /\ c \notin l
      BY <1>6 DEF Missed
    <3> DEFINE A == AheadIn(Q, c)
               B == AheadIn(R, c)
    <3>2. Cardinality(B) < u
      BY DEF Missed
    <3>3. /\ IsFiniteSet(A) /\ IsFiniteSet(B)
          /\ Cardinality(A) \in Nat /\ Cardinality(B) \in Nat
      BY <2>1, <1>1, Finite, FS_CardinalityType DEF AheadIn
    <3>4. A \in SUBSET (B \cup D)
      BY DEF AheadIn
    <3>5. /\ IsFiniteSet(B \cup D) /\ Cardinality(B \cup D) \in Nat
          /\ Cardinality(B \cup D) <= Cardinality(B) + Cardinality(D)
      <4> HIDE DEF A, B, D
      <4>1. /\ IsFiniteSet(B \cup D)
            /\ Cardinality(B \cup D) = Cardinality(B) + Cardinality(D) - Cardinality(B \cap D)
        BY <3>3, <1>1, FS_Union
      <4>2. Cardinality(B \cap D) \in Nat
        BY <3>3, FS_Subset, FS_CardinalityType
      <4>3. Cardinality(B \cup D) \in Nat
        BY <4>1, FS_CardinalityType
      <4> QED  BY <4>1, <4>2, <4>3, <3>3, <1>1
    <3>6. Cardinality(A) <= Cardinality(B \cup D)
      <4> HIDE DEF A, B, D
      <4> QED  BY <3>4, <3>5, FS_Subset
    <3>7. Cardinality(A) < u + k
      <4> HIDE DEF A, B, D
      <4> QED  BY <3>2, <3>3, <3>5, <3>6, <1>1
    <3> HIDE DEF k, D
    <3> QED  BY <3>1, <3>3, <3>7 DEF Missed, Window
  <2> HIDE DEF Q, D, R, T
  <2>3. IsFiniteSet(W) /\ Cardinality(W) \in Nat /\ Cardinality(W) <= k
    BY <2>1, <1>1, Windows
  <2>4. /\ IsFiniteSet(Missed(w, p, l, u)) /\ Cardinality(Missed(w, p, l, u)) \in Nat
        /\ Cardinality(Missed(v, p, l, u)) \in Nat
        /\ Cardinality(LeftIn(w, p)) \in Nat /\ Cardinality(LeftIn(v, p)) \in Nat
    BY Sizes
  <2> DEFINE M == Missed(w, p, l, u)
             N == Missed(v, p, l, u)
  <2> HIDE DEF W, k, M, N
  <2>5. IsFiniteSet(M \cup W) /\ Cardinality(M \cup W) <= Cardinality(M) + Cardinality(W)
    <3>1. /\ IsFiniteSet(M \cup W)
          /\ Cardinality(M \cup W) = Cardinality(M) + Cardinality(W) - Cardinality(M \cap W)
      BY <2>3, <2>4, FS_Union DEF M
    <3>2. Cardinality(M \cap W) \in Nat
      BY <2>3, FS_Subset, FS_CardinalityType
    <3>3. Cardinality(M \cup W) \in Nat
      BY <3>1, FS_CardinalityType
    <3> QED  BY <3>1, <3>2, <3>3, <2>3, <2>4 DEF M
  <2>6. Cardinality(N) <= Cardinality(M \cup W)
    <3>1. N \in SUBSET (M \cup W)
      BY <2>2 DEF M, N
    <3> QED  BY <3>1, <2>5, FS_Subset
  <2>7. Cardinality(M \cup W) \in Nat
    BY <2>5, FS_CardinalityType
  <2>8. Cardinality(M) <= Cardinality(LeftIn(w, p))
    BY <1>8 DEF Reads, M
  <2>9. Cardinality(N) <= Cardinality(LeftIn(v, p))
    BY <2>3, <2>4, <2>5, <2>6, <2>7, <2>8, <1>1, <1>5 DEF M, N, k
  <2> QED  BY <2>9 DEF Reads, N
<1>9. ASSUME NEW l, Whole(w, p, l)  PROVE Whole(v, p, l)
  <2> HIDE DEF D, T, Q, R
  <2>1. StayedIn(v, p) \ l \in SUBSET (StayedIn(w, p) \ l)
    BY <1>6
  <2>2. /\ IsFiniteSet(StayedIn(w, p) \ l) /\ Cardinality(StayedIn(w, p) \ l) \in Nat
        /\ Cardinality(StayedIn(v, p) \ l) \in Nat
        /\ Cardinality(LeftIn(w, p)) \in Nat /\ Cardinality(LeftIn(v, p)) \in Nat
    <3>1. 0 \in Nat
      OBVIOUS
    <3> QED  BY <3>1, Sizes
  <2>3. Cardinality(StayedIn(v, p) \ l) <= Cardinality(StayedIn(w, p) \ l)
    BY <2>1, <2>2, FS_Subset
  <2>4. Cardinality(StayedIn(w, p) \ l) <= Cardinality(LeftIn(w, p))
    BY <1>9 DEF Whole
  <2>5. Cardinality(StayedIn(v, p) \ l) <= Cardinality(LeftIn(v, p))
    BY <2>2, <2>3, <2>4, <1>1, <1>5
  <2> QED  BY <2>5 DEF Whole
<1> QED  BY <1>7, <1>8, <1>9

-----------------------------------------------------------------------------
(* Who has read the first u and reads the items after them misses no item  *)
(* more, and none at all that is left when there are no more.              *)
LEMMA ReadsOn ==
  ASSUME NEW w \in World, NEW p, IsReading(p), NEW l, NEW u \in Nat,
         Sound(w, p), Reads(w, p, l, u)
  PROVE  LET got == Window(QueueIn(w, p.filter), u, Limit) IN
         /\ Cardinality(got) \in Nat
         /\ Reads(w, p, l \cup got, u + Cardinality(got))
         /\ Cardinality(QueueIn(w, p.filter)) <= u + Limit => Whole(w, p, l \cup got)
<1> DEFINE Q == QueueIn(w, p.filter)
           got == Window(Q, u, Limit)
           n == u + Cardinality(got)
           M == Missed(w, p, l, u)
<1>1. Q \in SUBSET Content /\ Limit \in Nat
  BY ModerationAssumption DEF QueueIn
<1>2. Cardinality(got) \in Nat /\ Cardinality(got) <= Limit
  BY <1>1, Windows
<1>3. /\ n \in Nat
      /\ IsFiniteSet(M) /\ Cardinality(M) \in Nat /\ Cardinality(LeftIn(w, p)) \in Nat
      /\ Cardinality(Missed(w, p, l \cup got, n)) \in Nat
      /\ Cardinality(StayedIn(w, p) \ (l \cup got)) \in Nat
  <2>1. n \in Nat
    BY <1>2
  <2> HIDE DEF n, got
  <2> QED  BY <2>1, Sizes
<1>4. \A c \in StayedIn(w, p) \ (l \cup got) :
         /\ c \in Q
         /\ Cardinality(AheadIn(Q, c)) \in Nat
         /\ Cardinality(AheadIn(Q, c)) < u + Limit => c \in M
  <2> SUFFICES ASSUME NEW c \in StayedIn(w, p) \ (l \cup got)
               PROVE  /\ c \in Q
                      /\ Cardinality(AheadIn(Q, c)) \in Nat
                      /\ Cardinality(AheadIn(Q, c)) < u + Limit => c \in M
    OBVIOUS
  <2>1. c \in Q
    BY DEF Sound
  <2>2. Cardinality(AheadIn(Q, c)) \in Nat
    <3>1. AheadIn(Q, c) \in SUBSET Content
      BY <1>1 DEF AheadIn
    <3> QED  BY <3>1, Finite, FS_CardinalityType
  <2> HIDE DEF Q
  <2> QED  BY <2>1, <2>2, <1>1 DEF Window, Missed, Q
<1>5. Reads(w, p, l \cup got, n)
  <2>1. Missed(w, p, l \cup got, n) \in SUBSET M
    <3> SUFFICES ASSUME NEW c \in Missed(w, p, l \cup got, n)
                 PROVE  c \in M
      OBVIOUS
    <3>1. c \in StayedIn(w, p) \ (l \cup got) /\ Cardinality(AheadIn(Q, c)) < n
      BY DEF Missed
    <3>2. Cardinality(AheadIn(Q, c)) \in Nat
      BY <3>1, <1>4
    <3>3. Cardinality(AheadIn(Q, c)) < u + Limit
      <4> HIDE DEF got, Q
      <4> QED  BY <3>1, <3>2, <1>1, <1>2
    <3> QED  BY <3>1, <3>3, <1>4
  <2>2. Cardinality(Missed(w, p, l \cup got, n)) <= Cardinality(M)
    BY <2>1, <1>3, FS_Subset
  <2>3. Cardinality(M) <= Cardinality(LeftIn(w, p))
    BY DEF Reads
  <2> HIDE DEF M, n, got
  <2>4. Cardinality(Missed(w, p, l \cup got, n)) <= Cardinality(LeftIn(w, p))
    BY <2>2, <2>3, <1>3
  <2> QED  BY <2>4 DEF Reads
<1>6. ASSUME Cardinality(Q) <= u + Limit
      PROVE  Whole(w, p, l \cup got)
  <2>1. StayedIn(w, p) \ (l \cup got) \in SUBSET M
    <3> SUFFICES ASSUME NEW c \in StayedIn(w, p) \ (l \cup got)
                 PROVE  c \in M
      OBVIOUS
    <3>1. c \in Q /\ Cardinality(AheadIn(Q, c)) \in Nat
      BY <1>4
    <3>2. AheadIn(Q, c) \in SUBSET Q /\ AheadIn(Q, c) # Q
      <4>1. c \in Nat
        BY <3>1, <1>1, Finite
      <4> QED  BY <4>1, <3>1 DEF AheadIn
    <3>3. IsFiniteSet(Q) /\ Cardinality(Q) \in Nat
      BY <1>1, Finite, FS_CardinalityType
    <3>4. /\ Cardinality(AheadIn(Q, c)) <= Cardinality(Q)
          /\ Cardinality(AheadIn(Q, c)) # Cardinality(Q)
      BY <3>2, <3>3, FS_Subset
    <3>5. Cardinality(AheadIn(Q, c)) < u + Limit
      <4> HIDE DEF Q
      <4> QED  BY <3>1, <3>3, <3>4, <1>6, <1>1
    <3> QED  BY <3>5, <1>4
  <2>2. Cardinality(StayedIn(w, p) \ (l \cup got)) <= Cardinality(M)
    BY <2>1, <1>3, FS_Subset
  <2>3. Cardinality(M) <= Cardinality(LeftIn(w, p))
    BY DEF Reads
  <2> HIDE DEF M, got
  <2>4. Cardinality(StayedIn(w, p) \ (l \cup got)) <= Cardinality(LeftIn(w, p))
    BY <2>2, <2>3, <1>3
  <2> QED  BY <2>4 DEF Whole
<1> HIDE DEF M
<1> QED  BY <1>2, <1>5, <1>6

(* Who begins has missed nothing.                                          *)
LEMMA ReadsFirst ==
  ASSUME NEW w \in World, NEW p, IsReading(p),
         p.queue = QueueIn(w, p.filter), p.since = w[3]
  PROVE  LET got == Window(QueueIn(w, p.filter), 0, Limit) IN
         /\ Sound(w, p)
         /\ Reads(w, p, got, Cardinality(got))
         /\ Cardinality(QueueIn(w, p.filter)) <= Limit => Whole(w, p, got)
<1> DEFINE got == Window(QueueIn(w, p.filter), 0, Limit)
<1>1. Sound(w, p)
  BY DEF Sound, StayedIn
<1>2. Reads(w, p, {}, 0)
  <2>1. Cardinality(LeftIn(w, p)) \in Nat
    BY Sizes
  <2>2. \A c \in StayedIn(w, p) : Cardinality(AheadIn(QueueIn(w, p.filter), c)) \in Nat
    <3> SUFFICES ASSUME NEW c \in StayedIn(w, p)
                 PROVE  Cardinality(AheadIn(QueueIn(w, p.filter), c)) \in Nat
      OBVIOUS
    <3>1. AheadIn(QueueIn(w, p.filter), c) \in SUBSET Content
      BY DEF AheadIn, QueueIn
    <3> QED  BY <3>1, Finite, FS_CardinalityType
  <2>3. Missed(w, p, {}, 0) = {}
    BY <2>2 DEF Missed
  <2>4. Cardinality({}) = 0
    BY FS_EmptySet
  <2> QED  BY <2>1, <2>3, <2>4 DEF Reads
<1> HIDE DEF got
<1>3. /\ Cardinality(got) \in Nat
      /\ Reads(w, p, {} \cup got, 0 + Cardinality(got))
      /\ Cardinality(QueueIn(w, p.filter)) <= 0 + Limit => Whole(w, p, {} \cup got)
  <2>1. 0 \in Nat
    OBVIOUS
  <2> QED  BY <2>1, <1>1, <1>2, ReadsOn DEF got
<1>4. {} \cup got = got /\ 0 + Cardinality(got) = Cardinality(got) /\ 0 + Limit = Limit
  BY <1>3, ModerationAssumption
<1>5. Reads(w, p, got, Cardinality(got))
      /\ (Cardinality(QueueIn(w, p.filter)) <= Limit => Whole(w, p, got))
  BY <1>3, <1>4
<1> QED  BY <1>1, <1>5 DEF got

(* Showing more misses nothing more.                                       *)
LEMMA ReadsGrow ==
  ASSUME NEW w \in World, NEW p, IsReading(p), NEW l, NEW g, NEW u \in Nat, Reads(w, p, l, u)
  PROVE  Reads(w, p, l \cup g, u)
<1>1. Missed(w, p, l \cup g, u) \in SUBSET Missed(w, p, l, u)
  BY DEF Missed
<1>2. /\ IsFiniteSet(Missed(w, p, l, u)) /\ Cardinality(Missed(w, p, l, u)) \in Nat
      /\ Cardinality(Missed(w, p, l \cup g, u)) \in Nat /\ Cardinality(LeftIn(w, p)) \in Nat
  BY Sizes
<1>3. Cardinality(Missed(w, p, l \cup g, u)) <= Cardinality(Missed(w, p, l, u))
  BY <1>1, <1>2, FS_Subset
<1>4. Cardinality(Missed(w, p, l, u)) <= Cardinality(LeftIn(w, p))
  BY DEF Reads
<1>5. Cardinality(Missed(w, p, l \cup g, u)) <= Cardinality(LeftIn(w, p))
  BY <1>2, <1>3, <1>4
<1> QED  BY <1>5 DEF Reads

LEMMA WholeGrows ==
  ASSUME NEW w \in World, NEW p, IsReading(p), NEW l, NEW g, Whole(w, p, l)
  PROVE  Whole(w, p, l \cup g)
<1>1. StayedIn(w, p) \ (l \cup g) \in SUBSET (StayedIn(w, p) \ l)
  OBVIOUS
<1>2. /\ IsFiniteSet(StayedIn(w, p) \ l) /\ Cardinality(StayedIn(w, p) \ l) \in Nat
      /\ Cardinality(StayedIn(w, p) \ (l \cup g)) \in Nat /\ Cardinality(LeftIn(w, p)) \in Nat
  <2>1. 0 \in Nat
    OBVIOUS
  <2> QED  BY <2>1, Sizes
<1>3. Cardinality(StayedIn(w, p) \ (l \cup g)) <= Cardinality(StayedIn(w, p) \ l)
  BY <1>1, <1>2, FS_Subset
<1>4. Cardinality(StayedIn(w, p) \ l) <= Cardinality(LeftIn(w, p))
  BY DEF Whole
<1>5. Cardinality(StayedIn(w, p) \ (l \cup g)) <= Cardinality(LeftIn(w, p))
  BY <1>2, <1>3, <1>4
<1> QED  BY <1>5 DEF Whole

-----------------------------------------------------------------------------
(* The invariant *)

Now == <<shape, status, exits>>

(* Decisions are about content that was there, and began after what they   *)
(* have before them.                                                       *)
DecisionsAreSound ==
  \A d \in Decision :
    /\ pc[d] # "new" => /\ says[d].target \in Content /\ status[says[d].target] # "none"
                        /\ says[d].wants \in {"approved", "rejected"}
    /\ pc[d] = "held" => says[d].target \in Stored
    /\ before[d] \subseteq Done

(* The decision that explains a status was done before no other began.     *)
StatusIsExplained ==
  \A c \in Stored :
    \/ Actions(c) = {} /\ (status[c] = FirstStatus(c) \/ shape[c].system)
    \/ \E d \in Actions(c) :
         /\ status[c] = says[d].wants
         /\ \A e \in Actions(c) : d = e \/ d \notin before[e]

(* So that no exit is ever the same as an earlier one.                     *)
ExitsDiffer ==
  \A x \in exits :
    /\ status[x[2]] # "none"
    /\ x[1] \in Decision => pc[x[1]] = "done"
    /\ x[1] \in Content => status[x[2]] = "gone"
    /\ x[1] = 0 => status[x[2]] # "pending"

PassIsGood(a) ==
  ~pass[a].mixed =>
    /\ pass[a].filter \in Filter
    /\ Sound(Now, pass[a])
    /\ Reads(Now, pass[a], list[a], offset[a])
    /\ more[a] \/ Whole(Now, pass[a], list[a])

(* A request for more of what is shown.                                    *)
Continues(a, l) ==
  /\ load[a][l].step # "idle" /\ ~load[a][l].reset /\ ~load[a][l].stale
  /\ ~pass[a].mixed /\ load[a][l].filter = pass[a].filter

MoreIsGood(a, l) ==
  Continues(a, l) =>
    /\ load[a][l].step = "asked" => Reads(Now, pass[a], list[a], load[a][l].from)
    /\ load[a][l].step = "answered" =>
         /\ Reads(Now, pass[a], list[a] \cup answer[a][l].got, answer[a][l].next)
         /\ answer[a][l].more \/ Whole(Now, pass[a], list[a] \cup answer[a][l].got)

(* The reading that a first page begins.                                   *)
Begun(a, l) ==
  [filter |-> load[a][l].filter, queue |-> answer[a][l].queue, since |-> answer[a][l].since]

FirstIsGood(a, l) ==
  load[a][l].step # "idle" =>
    /\ load[a][l].filter \in Filter
    /\ load[a][l].reset => load[a][l].from = 0
    /\ load[a][l].reset /\ load[a][l].step = "answered" =>
         /\ Sound(Now, Begun(a, l))
         /\ Reads(Now, Begun(a, l), answer[a][l].got, answer[a][l].next)
         /\ answer[a][l].more \/ Whole(Now, Begun(a, l), answer[a][l].got)

PagesAreGood ==
  \A a \in Page : PassIsGood(a) /\ \A l \in Load : MoreIsGood(a, l) /\ FirstIsGood(a, l)

IInv ==
  /\ TypeOK
  /\ DecisionsAreSound
  /\ StatusIsExplained
  /\ ExitsDiffer
  /\ PagesAreGood

-----------------------------------------------------------------------------
(* What the types say, one part at a time.                                 *)
LEMMA ShapeType ==
  ASSUME family \in Families
  PROVE  shape \in [Content -> Shape] /\ part \subseteq Content \cup Decision \cup Page
         /\ \A c \in Content :
              /\ shape[c].kind \in Kind /\ shape[c].run \in Content
              /\ shape[c].listed \in BOOLEAN /\ shape[c].system \in BOOLEAN
              /\ shape[c].key \in BOOLEAN
              /\ shape[c].kind = "run" => shape[c].run = c
              /\ shape[c].listed = shape[shape[c].run].listed
<1>1. family \in [Content -> Shape] \X SUBSET (Content \cup Decision \cup Page)
  BY ModerationAssumption
<1>2. shape \in [Content -> Shape] /\ part \subseteq Content \cup Decision \cup Page
  BY <1>1 DEF shape, part
<1>3. \A c \in Content :
         /\ shape[c].kind \in Kind /\ shape[c].run \in Content
         /\ shape[c].listed \in BOOLEAN /\ shape[c].system \in BOOLEAN
         /\ shape[c].key \in BOOLEAN
  BY <1>2 DEF Shape
<1>4. \A c \in Content :
         /\ shape[c].kind = "run" => shape[c].run = c
         /\ shape[c].listed = shape[shape[c].run].listed
  BY ModerationAssumption DEF shape
<1> QED  BY <1>2, <1>3, <1>4

StoreType ==
  /\ family \in Families
  /\ status \in [Content -> Status \cup {"none", "gone"}]
  /\ rows \in Seq(Content)
  /\ exits \subseteq Exit
DecidingType ==
  /\ says \in [Decision -> [target : Content \cup {0}, wants : Status]]
  /\ pc \in [Decision -> {"new", "begun", "held", "done", "failed"}]
  /\ earlier \in [Decision -> SUBSET Decision]
  /\ before \in [Decision -> SUBSET Decision]
LoadType == [step : {"idle", "asked", "answered"}, reset : BOOLEAN, filter : Filters,
             from : Nat, stale : BOOLEAN]
AnswerType == [got : SUBSET Content, next : Nat, more : BOOLEAN, queue : SUBSET Content,
               since : SUBSET Exit]
PassType == [filter : Filters, queue : SUBSET Content, since : SUBSET Exit, mixed : BOOLEAN]
ShownType ==
  /\ filter \in [Page -> Filter]
  /\ list \in [Page -> SUBSET Content]
  /\ offset \in [Page -> Nat]
  /\ more \in [Page -> BOOLEAN]
  /\ loadingMore \in [Page -> BOOLEAN]
  /\ pass \in [Page -> PassType]
LoadingType ==
  /\ load \in [Page -> [Load -> LoadType]]
  /\ answer \in [Page -> [Load -> AnswerType]]

LEMMA Types == TypeOK <=> StoreType /\ DecidingType /\ ShownType /\ LoadingType
BY DEF TypeOK, StoreType, DecidingType, ShownType, LoadingType, LoadType, AnswerType, PassType

(* What a response has is a window of the queue.                           *)
LEMMA Response ==
  ASSUME NEW f, NEW from
  PROVE  /\ QueueIn(Now, f) = Queue(f)
         /\ Rows(f, from) = Window(Queue(f), from, Limit)
         /\ NextOffset(f, from) = from + Cardinality(Window(Queue(f), from, Limit))
         /\ HasMore(f, from) <=> Cardinality(Queue(f)) > from + Limit
<1>1. QueueIn(Now, f) = Queue(f)
  BY DEF QueueIn, Queue, MatchesIn, Matches, Now
<1>2. Rows(f, from) = Window(Queue(f), from, Limit)
  BY DEF Rows, Window, Ahead, AheadIn
<1> QED  BY <1>1, <1>2 DEF NextOffset, HasMore

-----------------------------------------------------------------------------
(* Three sorts of steps. *)

ContentStep ==
  \/ \E c \in Content : Store(c) \/ CreateOnboardingOffer(c) \/ DeleteRun(c)
  \/ \E d \in Decision : DecideCommit(d)
DecisionStep ==
  \E d \in Decision :
    \/ \E c \in Content, s \in {"approved", "rejected"} : DecideBegin(d, c, s)
    \/ DecideUpdate(d) \/ DecideFail(d)
PageStep(a, l) ==
  \/ Refresh(a, l) \/ LoadMore(a, l) \/ \E f \in Filter : SetFilter(a, l, f)
  \/ LoadAnswer(a, l) \/ ShowFirst(a, l) \/ ShowMore(a, l) \/ LoadFail(a, l)

LEMMA Steps ==
  ASSUME [Next]_vars
  PROVE  \/ UNCHANGED vars
         \/ ContentStep /\ UNCHANGED <<family, shown, loading>>
         \/ DecisionStep /\ UNCHANGED <<family, store, shown, loading>>
         \/ (\E a \in Page, l \in Load : PageStep(a, l)) /\ UNCHANGED <<family, store, deciding>>
<1>1. CASE UNCHANGED vars  BY <1>1
<1>2. ASSUME NEW c \in Content, Store(c) \/ CreateOnboardingOffer(c) \/ DeleteRun(c)
      PROVE  ContentStep /\ UNCHANGED <<family, shown, loading>>
  BY <1>2 DEF ContentStep, Store, CreateOnboardingOffer, DeleteRun
<1>3. ASSUME NEW d \in Decision, DecideCommit(d)
      PROVE  ContentStep /\ UNCHANGED <<family, shown, loading>>
  BY <1>3 DEF ContentStep, DecideCommit
<1>4. ASSUME NEW d \in Decision, NEW c \in Content, NEW s \in {"approved", "rejected"},
             DecideBegin(d, c, s)
      PROVE  DecisionStep /\ UNCHANGED <<family, store, shown, loading>>
  BY <1>4 DEF DecisionStep, DecideBegin
<1>5. ASSUME NEW d \in Decision, DecideUpdate(d) \/ DecideFail(d)
      PROVE  DecisionStep /\ UNCHANGED <<family, store, shown, loading>>
  BY <1>5 DEF DecisionStep, DecideUpdate, DecideFail
<1>6. ASSUME NEW a \in Page, NEW l \in Load, PageStep(a, l)
      PROVE  UNCHANGED <<family, store, deciding>>
  BY <1>6 DEF PageStep, Refresh, LoadMore, SetFilter, LoadAnswer, ShowFirst, ShowMore, LoadFail
<1>7. CASE Next
  BY <1>2, <1>3, <1>4, <1>5, <1>6, <1>7 DEF Next, PageStep
<1> QED  BY <1>1, <1>7

LEMMA ExitsTyped ==
  ASSUME StoreType, NEW by \in Decision \cup Content \cup {0}, NEW C \in SUBSET Stored,
         Leave(by, C)
  PROVE  exits' \subseteq Exit
<1>1. \A c \in C : <<by, c, status[c]>> \in Exit
  BY DEF Stored, Exit
<1> QED  BY <1>1 DEF Leave, StoreType

LEMMA FirstStatusType ==
  ASSUME NEW c PROVE FirstStatus(c) \in {"pending", "approved"}
BY DEF FirstStatus

LEMMA TypeInit == Init => TypeOK
<1> SUFFICES ASSUME Init PROVE TypeOK
  OBVIOUS
<1>1. StoreType
  BY DEF Init, StoreType, Status
<1>2. DecidingType
  BY DEF Init, DecidingType, Status
<1>3. Idle \in LoadType /\ NoAnswer \in AnswerType
  BY DEF Idle, NoAnswer, LoadType, AnswerType, Filters
<1>4. [filter |-> NoFilter, queue |-> {}, since |-> {}, mixed |-> TRUE] \in PassType
  BY DEF PassType, Filters
<1>5. ShownType
  BY <1>4 DEF Init, ShownType
<1>6. LoadingType
  BY <1>3 DEF Init, LoadingType
<1> QED  BY <1>1, <1>2, <1>5, <1>6, Types

LEMMA StoreTypeKept ==
  ASSUME StoreType, DecidingType, DecisionsAreSound, [Next]_vars
  PROVE  StoreType'
<1>0. /\ family \in Families /\ status \in [Content -> Status \cup {"none", "gone"}]
      /\ rows \in Seq(Content) /\ exits \subseteq Exit
  BY DEF StoreType
<1>1. ASSUME NEW c \in Content, Store(c)  PROVE StoreType'
  <2>1. FirstStatus(c) \in Status
    BY FirstStatusType DEF Status
  <2>2. status' \in [Content -> Status \cup {"none", "gone"}]
    BY <1>0, <1>1, <2>1 DEF Store
  <2>3. rows' \in Seq(Content)
    BY <1>0, <1>1 DEF Store
  <2> QED  BY <1>0, <1>1, <2>2, <2>3 DEF Store, StoreType
<1>2. ASSUME NEW c \in Content, CreateOnboardingOffer(c)  PROVE StoreType'
  <2>1. exits' \subseteq Exit
    <3> DEFINE C == IF status[c] = Upserted(c) THEN {} ELSE {c}
    <3>1. C \in SUBSET Stored /\ Leave(0, C)
      BY <1>2 DEF CreateOnboardingOffer
    <3> HIDE DEF C
    <3> QED  BY <3>1, ExitsTyped
  <2>2. status' \in [Content -> Status \cup {"none", "gone"}]
    BY <1>0, <1>2 DEF CreateOnboardingOffer, Upserted, Status
  <2> QED  BY <1>0, <1>2, <2>1, <2>2 DEF CreateOnboardingOffer, StoreType
<1>3. ASSUME NEW r \in Content, DeleteRun(r)  PROVE StoreType'
  <2>1. exits' \subseteq Exit
    <3> DEFINE C == {c \in Stored : shape[c].run = r}
    <3>1. C \in SUBSET Stored /\ Leave(r, C)
      BY <1>3 DEF DeleteRun
    <3> HIDE DEF C
    <3> QED  BY <3>1, ExitsTyped
  <2>2. status' \in [Content -> Status \cup {"none", "gone"}]
    BY <1>0, <1>3 DEF DeleteRun
  <2> QED  BY <1>0, <1>3, <2>1, <2>2 DEF DeleteRun, StoreType
<1>4. ASSUME NEW d \in Decision, DecideCommit(d)  PROVE StoreType'
  <2>1. exits' \subseteq Exit
    <3> DEFINE c == says[d].target
               C == IF status[c] = says[d].wants THEN {} ELSE {c}
    <3>1. C \in SUBSET Stored /\ Leave(d, C)
      BY <1>4 DEF DecideCommit, DecisionsAreSound
    <3> HIDE DEF C
    <3> QED  BY <3>1, ExitsTyped
  <2>2. says[d].wants \in Status
    BY DEF DecidingType
  <2>3. status' \in [Content -> Status \cup {"none", "gone"}]
    BY <1>0, <1>4, <2>2 DEF DecideCommit
  <2> QED  BY <1>0, <1>4, <2>1, <2>3 DEF DecideCommit, StoreType
<1>5. CASE UNCHANGED <<family, store>>
  BY <1>0, <1>5 DEF StoreType, store
<1>6. CASE ContentStep
  BY <1>1, <1>2, <1>3, <1>4, <1>6 DEF ContentStep
<1> QED  BY <1>5, <1>6, Steps DEF vars

LEMMA DecidingTypeKept ==
  ASSUME DecidingType, [Next]_vars
  PROVE  DecidingType'
<1>0. /\ says \in [Decision -> [target : Content \cup {0}, wants : Status]]
      /\ pc \in [Decision -> {"new", "begun", "held", "done", "failed"}]
      /\ earlier \in [Decision -> SUBSET Decision]
      /\ before \in [Decision -> SUBSET Decision]
  BY DEF DecidingType
<1>1. ASSUME NEW d \in Decision, NEW c \in Content, NEW s \in {"approved", "rejected"},
             DecideBegin(d, c, s)
      PROVE  DecidingType'
  <2>1. [target |-> c, wants |-> s] \in [target : Content \cup {0}, wants : Status]
    BY DEF Status
  <2>2. Done \subseteq Decision /\ {e \in Decision : pc[e] # "new"} \subseteq Decision
    BY DEF Done
  <2> QED  BY <1>0, <1>1, <2>1, <2>2 DEF DecideBegin, To, DecidingType
<1>2. ASSUME NEW d \in Decision, DecideUpdate(d)  PROVE DecidingType'
  BY <1>0, <1>2 DEF DecideUpdate, To, DecidingType
<1>3. ASSUME NEW d \in Decision, DecideFail(d)  PROVE DecidingType'
  BY <1>0, <1>3 DEF DecideFail, To, DecidingType
<1>4. ASSUME NEW d \in Decision, DecideCommit(d)  PROVE DecidingType'
  BY <1>0, <1>4 DEF DecideCommit, To, DecidingType
<1>5. CASE UNCHANGED deciding
  BY <1>0, <1>5 DEF DecidingType, deciding
<1>6. CASE ContentStep
  <2>1. ASSUME NEW c \in Content, Store(c) \/ CreateOnboardingOffer(c) \/ DeleteRun(c)
        PROVE  UNCHANGED deciding
    BY <2>1 DEF Store, CreateOnboardingOffer, DeleteRun
  <2> QED  BY <2>1, <1>4, <1>5, <1>6 DEF ContentStep
<1>7. CASE DecisionStep
  BY <1>1, <1>2, <1>3, <1>7 DEF DecisionStep
<1> QED  BY <1>5, <1>6, <1>7, Steps DEF vars

LEMMA RowsType ==
  ASSUME NEW f, NEW from \in Nat
  PROVE  /\ Rows(f, from) \in SUBSET Content /\ Queue(f) \in SUBSET Content
         /\ Cardinality(Rows(f, from)) \in Nat
         /\ NextOffset(f, from) \in Nat
         /\ HasMore(f, from) \in BOOLEAN
<1>1. Queue(f) \in SUBSET Content /\ Rows(f, from) \in SUBSET Content
  BY DEF Queue, Rows
<1>2. Cardinality(Rows(f, from)) \in Nat
  BY <1>1, Finite, FS_CardinalityType
<1> QED  BY <1>1, <1>2 DEF NextOffset, HasMore

LEMMA ShownTypeKept ==
  ASSUME ShownType, LoadingType, [Next]_vars
  PROVE  ShownType'
<1>0. /\ filter \in [Page -> Filter] /\ list \in [Page -> SUBSET Content]
      /\ offset \in [Page -> Nat] /\ more \in [Page -> BOOLEAN]
      /\ loadingMore \in [Page -> BOOLEAN] /\ pass \in [Page -> PassType]
  BY DEF ShownType
<1> SUFFICES ASSUME NEW a \in Page, NEW l \in Load, PageStep(a, l)
             PROVE  ShownType'
  <2>1. CASE UNCHANGED shown
    BY <1>0, <2>1 DEF ShownType, shown
  <2> QED  BY <2>1, Steps DEF vars
<1>1. load[a][l] \in LoadType /\ answer[a][l] \in AnswerType
  BY DEF LoadingType
<1>2. CASE Refresh(a, l)  BY <1>0, <1>2 DEF Refresh, shown, ShownType
<1>3. ASSUME NEW f \in Filter, SetFilter(a, l, f)  PROVE ShownType'
  BY <1>0, <1>3 DEF SetFilter, ShownType
<1>4. CASE LoadMore(a, l)  BY <1>0, <1>4 DEF LoadMore, ShownType
<1>5. CASE LoadAnswer(a, l)  BY <1>0, <1>5 DEF LoadAnswer, shown, ShownType
<1>6. CASE ShowFirst(a, l)
  <2>1. [filter |-> load[a][l].filter, queue |-> answer[a][l].queue,
         since |-> answer[a][l].since, mixed |-> FALSE] \in PassType
    BY <1>1 DEF LoadType, AnswerType, PassType
  <2>2. pass' \in [Page -> PassType]
    BY <1>0, <1>6, <2>1 DEF ShowFirst
  <2>3. answer[a][l].got \in SUBSET Content /\ answer[a][l].next \in Nat
        /\ answer[a][l].more \in BOOLEAN
    BY <1>1 DEF AnswerType
  <2> QED  BY <1>0, <1>6, <2>2, <2>3 DEF ShowFirst, Ended, ShownType
<1>7. CASE ShowMore(a, l)
  <2>1. answer[a][l].got \in SUBSET Content /\ answer[a][l].next \in Nat
        /\ answer[a][l].more \in BOOLEAN /\ load[a][l].stale \in BOOLEAN
    BY <1>1 DEF AnswerType, LoadType
  <2>2. pass' \in [Page -> PassType]
    BY <1>0, <1>7, <2>1 DEF ShowMore, PassType
  <2> QED  BY <1>0, <1>7, <2>1, <2>2 DEF ShowMore, Ended, ShownType
<1>8. CASE LoadFail(a, l)  BY <1>0, <1>8 DEF LoadFail, Ended, ShownType
<1> QED  BY <1>2, <1>3, <1>4, <1>5, <1>6, <1>7, <1>8 DEF PageStep

LEMMA LoadingTypeKept ==
  ASSUME StoreType, ShownType, LoadingType, [Next]_vars
  PROVE  LoadingType'
<1>0. /\ load \in [Page -> [Load -> LoadType]]
      /\ answer \in [Page -> [Load -> AnswerType]]
  BY DEF LoadingType
<1>1. Idle \in LoadType /\ NoAnswer \in AnswerType
  BY DEF Idle, NoAnswer, LoadType, AnswerType, Filters
<1> SUFFICES ASSUME NEW a \in Page, NEW l \in Load, PageStep(a, l)
             PROVE  LoadingType'
  <2>1. CASE UNCHANGED loading
    BY <1>0, <2>1 DEF LoadingType, loading
  <2> QED  BY <2>1, Steps DEF vars
<1>2. load[a][l] \in LoadType /\ answer[a][l] \in AnswerType
  BY <1>0
<1>3. ASSUME NEW r \in BOOLEAN, NEW f \in Filter, NEW o \in Nat, Ask(a, l, r, f, o)
      PROVE  load' \in [Page -> [Load -> LoadType]]
  <2>1. [step |-> "asked", reset |-> r, filter |-> f, from |-> o, stale |-> FALSE] \in LoadType
    BY DEF LoadType, Filters
  <2> QED  BY <1>0, <1>3, <2>1 DEF Ask
<1>4. filter[a] \in Filter /\ offset[a] \in Nat
  BY DEF ShownType
<1>5. CASE Refresh(a, l)  BY <1>0, <1>3, <1>4, <1>5 DEF Refresh, LoadingType
<1>6. ASSUME NEW f \in Filter, SetFilter(a, l, f)  PROVE LoadingType'
  BY <1>0, <1>3, <1>6 DEF SetFilter, LoadingType
<1>7. CASE LoadMore(a, l)  BY <1>0, <1>3, <1>4, <1>7 DEF LoadMore, LoadingType
<1>8. CASE LoadAnswer(a, l)
  <2>1. [load[a][l] EXCEPT !.step = "answered"] \in LoadType
    BY <1>2 DEF LoadType
  <2>2. load[a][l].from \in Nat /\ exits \in SUBSET Exit
    BY <1>2 DEF LoadType, StoreType
  <2> DEFINE f == load[a][l].filter
             o == load[a][l].from
             r == [got |-> Rows(f, o), next |-> NextOffset(f, o), more |-> HasMore(f, o),
                   queue |-> Queue(f), since |-> exits]
  <2>3. r \in AnswerType
    BY <2>2, RowsType DEF AnswerType
  <2>4. answer' = [answer EXCEPT ![a][l] = r]
    BY <1>8 DEF LoadAnswer
  <2> HIDE DEF r
  <2>5. answer' \in [Page -> [Load -> AnswerType]]
    BY <1>0, <2>3, <2>4
  <2>6. load' \in [Page -> [Load -> LoadType]]
    BY <1>0, <1>8, <2>1 DEF LoadAnswer
  <2> QED  BY <2>5, <2>6 DEF LoadingType
<1>9. CASE ShowFirst(a, l)
  <2>1. \A k \in Load : [load[a][k] EXCEPT !.stale = TRUE] \in LoadType
    <3> SUFFICES ASSUME NEW k \in Load
                 PROVE  [load[a][k] EXCEPT !.stale = TRUE] \in LoadType
      OBVIOUS
    <3>1. load[a][k] \in LoadType
      BY <1>0
    <3> QED  BY <3>1 DEF LoadType
  <2>2. load' \in [Page -> [Load -> LoadType]]
    BY <1>0, <1>1, <1>9, <2>1 DEF ShowFirst
  <2>3. answer' \in [Page -> [Load -> AnswerType]]
    BY <1>0, <1>1, <1>9 DEF ShowFirst, Ended
  <2> QED  BY <2>2, <2>3 DEF LoadingType
<1>10. CASE ShowMore(a, l)  BY <1>0, <1>1, <1>10 DEF ShowMore, Ended, LoadingType
<1>11. CASE LoadFail(a, l)  BY <1>0, <1>1, <1>11 DEF LoadFail, Ended, LoadingType
<1> QED  BY <1>5, <1>6, <1>7, <1>8, <1>9, <1>10, <1>11 DEF PageStep

-----------------------------------------------------------------------------
(* Once stored, content is never again as if it had not been.              *)
LEMMA NoneAgain ==
  ASSUME StoreType, DecidingType, DecisionsAreSound, [Next]_vars,
         NEW c \in Content, status[c] # "none"
  PROVE  status'[c] # "none"
<1>0. status \in [Content -> Status \cup {"none", "gone"}]
  BY DEF StoreType
<1>1. ASSUME NEW b \in Content, Store(b)  PROVE status'[c] # "none"
  BY <1>0, <1>1, FirstStatusType DEF Store
<1>2. ASSUME NEW b \in Content, CreateOnboardingOffer(b)  PROVE status'[c] # "none"
  BY <1>0, <1>2 DEF CreateOnboardingOffer, Upserted
<1>3. ASSUME NEW b \in Content, DeleteRun(b)  PROVE status'[c] # "none"
  BY <1>0, <1>3 DEF DeleteRun
<1>4. ASSUME NEW d \in Decision, DecideCommit(d)  PROVE status'[c] # "none"
  BY <1>0, <1>4 DEF DecideCommit, DecisionsAreSound
<1>5. CASE UNCHANGED status  BY <1>5
<1>6. CASE ContentStep
  BY <1>1, <1>2, <1>3, <1>4, <1>6 DEF ContentStep
<1> QED  BY <1>5, <1>6, Steps DEF vars, store

LEMMA DecisionsAreSoundKept ==
  ASSUME StoreType, DecidingType, DecisionsAreSound, [Next]_vars
  PROVE  DecisionsAreSound'
<1>0. /\ says \in [Decision -> [target : Content \cup {0}, wants : Status]]
      /\ pc \in [Decision -> {"new", "begun", "held", "done", "failed"}]
      /\ before \in [Decision -> SUBSET Decision]
      /\ status \in [Content -> Status \cup {"none", "gone"}]
  BY DEF DecidingType, StoreType
<1>1. \A c \in Content : status[c] # "none" => status'[c] # "none"
  BY NoneAgain
<1>2. ASSUME NEW d \in Decision, NEW c \in Content, NEW s \in {"approved", "rejected"},
             DecideBegin(d, c, s), status' = status
      PROVE  DecisionsAreSound'
  BY <1>0, <1>2 DEF DecideBegin, To, DecisionsAreSound, Done, Stored
<1>3. ASSUME NEW d \in Decision, DecideUpdate(d), status' = status  PROVE DecisionsAreSound'
  BY <1>0, <1>3 DEF DecideUpdate, To, DecisionsAreSound, Done, Stored
<1>4. ASSUME NEW d \in Decision, DecideFail(d), status' = status  PROVE DecisionsAreSound'
  BY <1>0, <1>4 DEF DecideFail, To, DecisionsAreSound, Done, Stored
<1>5. CASE UNCHANGED <<status, deciding>>
  BY <1>5 DEF deciding, DecisionsAreSound, Done, Stored
<1>6. ASSUME NEW c \in Content, Store(c)  PROVE DecisionsAreSound'
  <2>1. \A b \in Stored : status'[b] \in Status
    BY <1>0, <1>6 DEF Store, Stored, Status
  <2> QED  BY <1>0, <1>1, <1>6, <2>1 DEF Store, deciding, DecisionsAreSound, Done, Stored
<1>7. ASSUME NEW c \in Content, CreateOnboardingOffer(c)  PROVE DecisionsAreSound'
  <2>1. \A b \in Stored : status'[b] \in Status
    BY <1>0, <1>7 DEF CreateOnboardingOffer, Stored, Status, Upserted
  <2> QED  BY <1>0, <1>1, <1>7, <2>1 DEF CreateOnboardingOffer, deciding, DecisionsAreSound, Done, Stored
<1>8. ASSUME NEW r \in Content, DeleteRun(r)  PROVE DecisionsAreSound'
  <2>1. \A b \in Stored : Held(b) => status'[b] \in Status
    BY <1>0, <1>8 DEF DeleteRun, Stored
  <2> QED  BY <1>0, <1>1, <1>8, <2>1 DEF DeleteRun, deciding, DecisionsAreSound, Done, Stored, Held
<1>9. ASSUME NEW d \in Decision, DecideCommit(d)  PROVE DecisionsAreSound'
  <2>1. \A b \in Stored : status'[b] \in Status
    BY <1>0, <1>9 DEF DecideCommit, Stored
  <2> QED  BY <1>0, <1>1, <1>9, <2>1 DEF DecideCommit, To, DecisionsAreSound, Done, Stored
<1>10. CASE ContentStep
  BY <1>6, <1>7, <1>8, <1>9, <1>10 DEF ContentStep
<1>11. CASE DecisionStep /\ status' = status
  BY <1>2, <1>3, <1>4, <1>11 DEF DecisionStep
<1> QED  BY <1>5, <1>10, <1>11, Steps DEF vars, store

LEMMA StatusIsExplainedKept ==
  ASSUME StoreType, DecidingType, DecisionsAreSound, StatusIsExplained, [Next]_vars
  PROVE  StatusIsExplained'
<1>0. /\ says \in [Decision -> [target : Content \cup {0}, wants : Status]]
      /\ pc \in [Decision -> {"new", "begun", "held", "done", "failed"}]
      /\ before \in [Decision -> SUBSET Decision]
      /\ status \in [Content -> Status \cup {"none", "gone"}]
  BY DEF DecidingType, StoreType
<1> DEFINE P(c) == \/ Actions(c) = {} /\ (status[c] = FirstStatus(c) \/ shape[c].system)
                   \/ \E d \in Actions(c) :
                        /\ status[c] = says[d].wants
                        /\ \A e \in Actions(c) : d = e \/ d \notin before[e]
<1>1. ASSUME UNCHANGED <<family, says, before>>, NEW c \in Content, P(c),
             Actions(c)' = Actions(c), status'[c] = status[c]
      PROVE  P(c)'
  BY <1>1 DEF shape, FirstStatus
<1>2. \A c \in Stored : P(c)
  BY DEF StatusIsExplained
<1>3. CASE UNCHANGED <<family, deciding>>
  <2>1. \A c \in Content : Actions(c)' = Actions(c)
    BY <1>3 DEF deciding, Actions, Done
  <2>2. UNCHANGED <<family, says, before>>
    BY <1>3 DEF deciding
  <2>3. ASSUME NEW c \in Content, c \in Stored, status'[c] = status[c]  PROVE P(c)'
    <3> HIDE DEF P
    <3> QED  BY <1>1, <1>2, <2>1, <2>2, <2>3
  <2>4. ASSUME NEW b \in Content, Store(b), NEW c \in Content, c \in Stored'  PROVE P(c)'
    <3>1. CASE c = b
      <4>1. Actions(c) = {}
        BY <3>1, <2>4 DEF Actions, Done, Store, DecisionsAreSound
      <4>2. status'[c] = FirstStatus(c)'
        BY <3>1, <1>0, <2>4 DEF Store, FirstStatus, shape
      <4> QED  BY <2>1, <4>1, <4>2
    <3>2. CASE c # b
      <4>1. status'[c] = status[c] /\ c \in Stored
        BY <3>2, <1>0, <2>4 DEF Store, Stored
      <4> QED  BY <4>1, <2>3
    <3> QED  BY <3>1, <3>2
  <2>5. ASSUME NEW b \in Content, CreateOnboardingOffer(b), NEW c \in Content, c \in Stored'
        PROVE  P(c)'
    <3>0. c \in Stored /\ (c # b => status'[c] = status[c]) /\ shape[b].system
      BY <1>0, <2>5 DEF CreateOnboardingOffer, Stored
    <3>1. CASE c # b \/ Upserted(c) = status[c]
      <4>1. status'[c] = status[c]
        BY <3>0, <3>1, <1>0, <2>5 DEF CreateOnboardingOffer
      <4> QED  BY <3>0, <4>1, <2>3
    <3>2. CASE c = b /\ Upserted(c) # status[c]
      <4>1. status[c] \notin {"approved", "rejected"}
        BY <3>2 DEF Upserted
      <4>2. Actions(c) = {}
        <5>1. \A d \in Actions(c) : says[d].wants \in {"approved", "rejected"}
          BY DEF Actions, Done, DecisionsAreSound
        <5> QED  BY <5>1, <4>1, <3>0, <1>2
      <4>3. shape'[c].system
        BY <3>0, <3>2, <2>2 DEF shape
      <4> QED  BY <4>2, <4>3, <2>1
    <3> QED  BY <3>1, <3>2
  <2>6. ASSUME NEW r \in Content, DeleteRun(r), NEW c \in Content, c \in Stored'  PROVE P(c)'
    <3>1. status'[c] = status[c] /\ c \in Stored
      BY <1>0, <2>6 DEF DeleteRun, Stored, Status
    <3> QED  BY <3>1, <2>3
  <2>7. CASE \E c \in Content : Store(c) \/ CreateOnboardingOffer(c) \/ DeleteRun(c)
    <3>1. \A c \in Content : c \in Stored' => P(c)'
      <4> HIDE DEF P
      <4> QED  BY <2>4, <2>5, <2>6, <2>7
    <3> QED  BY <3>1 DEF StatusIsExplained, Stored
  <2>8. CASE UNCHANGED status
    <3>1. \A c \in Content : c \in Stored' => P(c)'
      <4> HIDE DEF P
      <4> QED  BY <2>3, <2>8 DEF Stored
    <3> QED  BY <3>1 DEF StatusIsExplained, Stored
  <2>9. ASSUME NEW d \in Decision, DecideCommit(d)  PROVE FALSE
    BY <1>0, <1>3, <2>9 DEF DecideCommit, To, deciding
  <2> QED  BY <2>7, <2>8, <2>9, Steps DEF ContentStep, vars, store
<1>4. ASSUME NEW d \in Decision, DecideCommit(d)  PROVE StatusIsExplained'
  <2> DEFINE c == says[d].target
  <2>0. /\ pc[d] = "held" /\ c \in Content /\ c \in Stored /\ status' = [status EXCEPT ![c] = says[d].wants]
        /\ pc' = [pc EXCEPT ![d] = "done"] /\ UNCHANGED <<family, says, before>>
    BY <1>4 DEF DecideCommit, To, DecisionsAreSound
  <2>1. /\ Actions(c)' = Actions(c) \cup {d}
        /\ \A b \in Content : b # c => Actions(b)' = Actions(b)
    BY <1>0, <2>0 DEF Actions, Done
  <2>2. P(c)'
    <3>1. status'[c] = says[d].wants
      BY <1>0, <2>0
    <3>2. \A e \in Decision : d \notin before[e]
      BY <2>0 DEF DecisionsAreSound, Done
    <3>3. \A e \in Actions(c)' : e \in Decision
      BY DEF Actions, Done
    <3>4. d \in Actions(c)' /\ \A e \in Actions(c)' : d = e \/ d \notin before'[e]
      BY <2>0, <2>1, <3>2, <3>3
    <3>5. c' = c
      BY <2>0
    <3> QED  BY <2>0, <3>1, <3>4, <3>5
  <2>3. \A b \in Content : b # c /\ b \in Stored' => P(b)'
    <3> SUFFICES ASSUME NEW b \in Content, b # c, b \in Stored'  PROVE P(b)'
      OBVIOUS
    <3>1. b \in Stored /\ status'[b] = status[b]
      BY <1>0, <2>0 DEF Stored
    <3>2. Actions(b)' = Actions(b) /\ P(b)
      BY <2>1, <3>1, <1>2
    <3> HIDE DEF P, c
    <3> QED  BY <1>1, <2>0, <3>1, <3>2
  <2>4. \A b \in Content : b \in Stored' => P(b)'
    <3>1. c' = c
      BY <2>0
    <3> HIDE DEF P
    <3>2. ASSUME NEW b \in Content, b = c PROVE P(b)'
      BY <2>2, <3>1, <3>2, <2>0 DEF P, Actions
    <3> QED  BY <2>3, <3>2
  <2> QED  BY <2>4 DEF StatusIsExplained, Stored
<1>5. CASE DecisionStep /\ UNCHANGED <<family, store>>
  <2>1. Done' = Done /\ \A d \in Done : says'[d] = says[d] /\ before'[d] = before[d]
    BY <1>0, <1>5 DEF DecisionStep, DecideBegin, DecideUpdate, DecideFail, To, Done
  <2>2. UNCHANGED <<family, status>>
    BY <1>5 DEF store
  <2>3. \A c \in Content : Actions(c)' = Actions(c)
    BY <2>1 DEF Actions
  <2>4. \A c \in Content : c \in Stored' => P(c)'
    <3> SUFFICES ASSUME NEW c \in Content, c \in Stored' PROVE P(c)'
      OBVIOUS
    <3>1. P(c)
      BY <1>2, <2>2 DEF Stored
    <3>2. CASE Actions(c) = {} /\ (status[c] = FirstStatus(c) \/ shape[c].system)
      BY <3>2, <2>2, <2>3 DEF shape, FirstStatus
    <3>3. ASSUME NEW d \in Actions(c), status[c] = says[d].wants,
                 \A e \in Actions(c) : d = e \/ d \notin before[e]
          PROVE  P(c)'
      <4>1. Actions(c) \subseteq Done
        BY DEF Actions
      <4>2. d \in Actions(c)' /\ status'[c] = says'[d].wants
        BY <3>3, <4>1, <2>1, <2>2, <2>3
      <4>3. \A e \in Actions(c)' : d = e \/ d \notin before'[e]
        BY <3>3, <4>1, <2>1, <2>3
      <4> QED  BY <4>2, <4>3
    <3> QED  BY <3>1, <3>2, <3>3
  <2> QED  BY <2>4 DEF StatusIsExplained, Stored
<1>6. CASE ContentStep /\ UNCHANGED family
  <2>1. ASSUME NEW c \in Content, Store(c) \/ CreateOnboardingOffer(c) \/ DeleteRun(c)
        PROVE  UNCHANGED deciding
    BY <2>1 DEF Store, CreateOnboardingOffer, DeleteRun
  <2> QED  BY <1>3, <1>4, <1>6, <2>1 DEF ContentStep
<1> QED  BY <1>3, <1>5, <1>6, Steps DEF vars

LEMMA Names == 0 \notin Content /\ 0 \notin Decision /\ Decision \cap Content = {}
<1>1. Content \subseteq Nat \ {0} /\ Decision \cap Nat = {}
  BY ModerationAssumption
<1> QED  BY <1>1

LEMMA ExitsAre ==
  ASSUME StoreType, NEW x \in exits
  PROVE  x[2] \in Content /\ x[1] \in Decision \cup Content \cup {0}
<1>1. x \in (Decision \cup Content \cup {0}) \X Content \X Status
  BY DEF StoreType, Exit
<1> QED  BY <1>1

LEMMA ExitsDifferKept ==
  ASSUME StoreType, DecidingType, DecisionsAreSound, ExitsDiffer, [Next]_vars
  PROVE  ExitsDiffer'
<1>0. /\ says \in [Decision -> [target : Content \cup {0}, wants : Status]]
      /\ pc \in [Decision -> {"new", "begun", "held", "done", "failed"}]
      /\ status \in [Content -> Status \cup {"none", "gone"}]
      /\ \A x \in exits : x[2] \in Content /\ x[1] \in Decision \cup Content \cup {0}
      /\ 0 \notin Content /\ 0 \notin Decision /\ Decision \cap Content = {}
  BY Names, ExitsAre DEF DecidingType, StoreType
<1>1. \A c \in Content : status[c] # "none" => status'[c] # "none"
  BY NoneAgain
<1>2. ASSUME NEW b \in Content, Store(b)  PROVE ExitsDiffer'
  BY <1>0, <1>1, <1>2 DEF Store, ExitsDiffer, deciding
<1>3. ASSUME NEW b \in Content, CreateOnboardingOffer(b)  PROVE ExitsDiffer'
  <2> SUFFICES ASSUME NEW x \in exits'
               PROVE  /\ status'[x[2]] # "none"
                      /\ x[1] \in Decision => pc'[x[1]] = "done"
                      /\ x[1] \in Content => status'[x[2]] = "gone"
                      /\ x[1] = 0 => status'[x[2]] # "pending"
    BY DEF ExitsDiffer
  <2>1. status' = [status EXCEPT ![b] = Upserted(b)] /\ pc' = pc /\ status[b] \in Status
    BY <1>3 DEF CreateOnboardingOffer, deciding, Stored
  <2>2. Upserted(b) \in {"approved", "rejected"}
    BY DEF Upserted
  <2>3. CASE x \in exits
    BY <1>0, <1>1, <2>1, <2>2, <2>3 DEF ExitsDiffer, Status
  <2>4. CASE x \notin exits
    <3>1. x[1] = 0 /\ x[2] = b
      BY <1>3, <2>4 DEF CreateOnboardingOffer, Leave
    <3> QED  BY <3>1, <1>0, <2>1, <2>2
  <2> QED  BY <2>3, <2>4
<1>4. ASSUME NEW r \in Content, DeleteRun(r)  PROVE ExitsDiffer'
  <2> SUFFICES ASSUME NEW x \in exits'
               PROVE  /\ status'[x[2]] # "none"
                      /\ x[1] \in Decision => pc'[x[1]] = "done"
                      /\ x[1] \in Content => status'[x[2]] = "gone"
                      /\ x[1] = 0 => status'[x[2]] # "pending"
    BY DEF ExitsDiffer
  <2> DEFINE C == {c \in Stored : shape[c].run = r}
  <2>1. status' = [c \in Content |-> IF c \in C THEN "gone" ELSE status[c]] /\ pc' = pc
    BY <1>4 DEF DeleteRun, deciding
  <2>2. CASE x \in exits
    <3> HIDE DEF C
    <3> QED  BY <1>0, <1>1, <2>1, <2>2 DEF ExitsDiffer
  <2>3. CASE x \notin exits
    <3>1. x[1] = r /\ x[2] \in C
      BY <1>4, <2>3 DEF DeleteRun, Leave
    <3>2. x[2] \in Content
      BY <3>1 DEF Stored
    <3> HIDE DEF C
    <3> QED  BY <3>1, <3>2, <1>0, <2>1
  <2> QED  BY <2>2, <2>3
<1>5. ASSUME NEW d \in Decision, DecideCommit(d)  PROVE ExitsDiffer'
  <2> SUFFICES ASSUME NEW x \in exits'
               PROVE  /\ status'[x[2]] # "none"
                      /\ x[1] \in Decision => pc'[x[1]] = "done"
                      /\ x[1] \in Content => status'[x[2]] = "gone"
                      /\ x[1] = 0 => status'[x[2]] # "pending"
    BY DEF ExitsDiffer
  <2> DEFINE c == says[d].target
  <2>1. /\ status' = [status EXCEPT ![c] = says[d].wants] /\ pc' = [pc EXCEPT ![d] = "done"]
        /\ pc[d] = "held" /\ c \in Content /\ status[c] \in Status
        /\ says[d].wants \in {"approved", "rejected"}
    BY <1>5 DEF DecideCommit, To, DecisionsAreSound, Stored
  <2>2. CASE x \in exits
    <3>1. x[1] \in Content => x[2] # c
      BY <2>1, <2>2 DEF ExitsDiffer, Status
    <3> HIDE DEF c
    <3> QED  BY <1>0, <1>1, <2>1, <2>2, <3>1 DEF ExitsDiffer
  <2>3. CASE x \notin exits
    <3>1. x[1] = d /\ x[2] = c
      BY <1>5, <2>3 DEF DecideCommit, Leave
    <3> HIDE DEF c
    <3> QED  BY <3>1, <1>0, <2>1
  <2> QED  BY <2>2, <2>3
<1>6. CASE UNCHANGED <<store, deciding>>
  BY <1>6 DEF store, deciding, ExitsDiffer
<1>7. CASE ContentStep
  BY <1>2, <1>3, <1>4, <1>5, <1>7 DEF ContentStep
<1>8. CASE DecisionStep /\ UNCHANGED store
  <2>1. status' = status /\ exits' = exits
    BY <1>8 DEF store
  <2>2. \A d \in Decision : pc[d] = "done" => pc'[d] = "done"
    BY <1>0, <1>8 DEF DecisionStep, DecideBegin, DecideUpdate, DecideFail, To
  <2> QED  BY <2>1, <2>2 DEF ExitsDiffer
<1> QED  BY <1>6, <1>7, <1>8, Steps DEF vars

(* What leaves a status leaves an exit that was not there.                 *)
LEMMA ContentMoves ==
  ASSUME StoreType, DecidingType, DecisionsAreSound, ExitsDiffer, ContentStep, UNCHANGED family
  PROVE  \E by : Moved(Now, Now', by)
<1>0. /\ status \in [Content -> Status \cup {"none", "gone"}]
      /\ \A x \in exits : x[2] \in Content
      /\ 0 \notin Decision /\ Decision \cap Content = {}
      /\ pc \in [Decision -> {"new", "begun", "held", "done", "failed"}]
  BY Names, ExitsAre DEF StoreType, DecidingType
<1>1. ASSUME NEW by, exits \subseteq exits',
             \A c \in Content : status[c] \in Status /\ status'[c] # status[c] =>
               <<by, c, status[c]>> \in exits' \ exits
      PROVE  Moved(Now, Now', by)
  BY <1>1 DEF Moved, Now, shape
<1>2. ASSUME NEW b \in Content, Store(b)  PROVE \E by : Moved(Now, Now', by)
  <2>1. /\ exits' = exits
        /\ \A c \in Content : status[c] \in Status => status'[c] = status[c]
    BY <1>0, <1>2 DEF Store, Status
  <2> QED  BY <1>1, <2>1
<1>3. ASSUME NEW b \in Content, CreateOnboardingOffer(b)  PROVE Moved(Now, Now', 0)
  <2> SUFFICES ASSUME NEW c \in Content, status[c] \in Status, status'[c] # status[c]
               PROVE  <<0, c, status[c]>> \in exits' \ exits
    <3>1. exits \subseteq exits'
      BY <1>3 DEF CreateOnboardingOffer, Leave
    <3> QED  BY <1>1, <3>1
  <2>1. c = b /\ status[b] # Upserted(b)
    BY <1>0, <1>3 DEF CreateOnboardingOffer
  <2>2. <<0, c, status[c]>> \in exits'
    BY <1>3, <2>1 DEF CreateOnboardingOffer, Leave
  <2>3. status[c] = "pending"
    BY <2>1 DEF Upserted, Status
  <2>4. <<0, c, status[c]>> \notin exits
    BY <2>3 DEF ExitsDiffer
  <2> QED  BY <2>2, <2>4
<1>4. ASSUME NEW r \in Content, DeleteRun(r)  PROVE Moved(Now, Now', r)
  <2> SUFFICES ASSUME NEW c \in Content, status[c] \in Status, status'[c] # status[c]
               PROVE  <<r, c, status[c]>> \in exits' \ exits
    <3>1. exits \subseteq exits'
      BY <1>4 DEF DeleteRun, Leave
    <3> QED  BY <1>1, <3>1
  <2>1. <<r, c, status[c]>> \in exits'
    BY <1>4 DEF DeleteRun, Leave
  <2>2. <<r, c, status[c]>> \notin exits
    BY DEF ExitsDiffer, Status
  <2> QED  BY <2>1, <2>2
<1>5. ASSUME NEW d \in Decision, DecideCommit(d)  PROVE Moved(Now, Now', d)
  <2> SUFFICES ASSUME NEW c \in Content, status[c] \in Status, status'[c] # status[c]
               PROVE  <<d, c, status[c]>> \in exits' \ exits
    <3>1. exits \subseteq exits'
      BY <1>5 DEF DecideCommit, Leave
    <3> QED  BY <1>1, <3>1
  <2>1. c = says[d].target /\ status[c] # says[d].wants
    BY <1>0, <1>5 DEF DecideCommit
  <2>2. <<d, c, status[c]>> \in exits'
    BY <1>5, <2>1 DEF DecideCommit, Leave
  <2>3. <<d, c, status[c]>> \notin exits
    BY <1>5 DEF DecideCommit, ExitsDiffer
  <2> QED  BY <2>2, <2>3
<1> QED  BY <1>2, <1>3, <1>4, <1>5 DEF ContentStep

-----------------------------------------------------------------------------
(* Readings that differ in nothing else are the same.                      *)
LEMMA SameReading ==
  ASSUME NEW w, NEW p, NEW q,
         p.filter = q.filter, p.queue = q.queue, p.since = q.since
  PROVE  /\ Sound(w, p) => Sound(w, q)
         /\ \A l, u : Reads(w, p, l, u) => Reads(w, q, l, u)
         /\ \A l : Whole(w, p, l) => Whole(w, q, l)
<1>1. LeftIn(w, p) = LeftIn(w, q)
  BY DEF LeftIn
<1>2. StayedIn(w, p) = StayedIn(w, q)
  BY <1>1 DEF StayedIn
<1>3. \A l, u : Missed(w, p, l, u) = Missed(w, q, l, u)
  BY <1>2 DEF Missed
<1> QED  BY <1>1, <1>2, <1>3 DEF Sound, Reads, Whole

LEMMA Readings ==
  ASSUME StoreType, ShownType, LoadingType, NEW a \in Page, NEW l \in Load
  PROVE  /\ Now \in World
         /\ IsReading(pass[a]) /\ IsReading(Begun(a, l))
         /\ offset[a] \in Nat /\ load[a][l].from \in Nat /\ answer[a][l].next \in Nat
<1>1. Now \in World
  <2>1. shape \in [Content -> Shape]
    BY ShapeType DEF StoreType
  <2> QED  BY <2>1 DEF Now, World, StoreType
<1>2. pass[a] \in PassType /\ load[a][l] \in LoadType /\ answer[a][l] \in AnswerType
      /\ offset[a] \in Nat
  BY DEF ShownType, LoadingType
<1>3. IsReading(pass[a])
  BY <1>2 DEF IsReading, PassType
<1>4. IsReading(Begun(a, l)) /\ load[a][l].from \in Nat /\ answer[a][l].next \in Nat
  BY <1>2 DEF IsReading, Begun, LoadType, AnswerType
<1> QED  BY <1>1, <1>2, <1>3, <1>4

(* A step of another page, or of a request that has no part in it.         *)
LEMMA PassSame ==
  ASSUME NEW a \in Page, PassIsGood(a), Now' = Now, pass'[a] = pass[a],
         list'[a] = list[a], offset'[a] = offset[a], more'[a] = more[a]
  PROVE  PassIsGood(a)'
BY DEF PassIsGood

LEMMA MoreSame ==
  ASSUME NEW a \in Page, NEW l \in Load, MoreIsGood(a, l), Now' = Now, pass'[a] = pass[a],
         list'[a] = list[a], load'[a][l] = load[a][l], answer'[a][l] = answer[a][l]
  PROVE  MoreIsGood(a, l)'
BY DEF MoreIsGood, Continues

LEMMA FirstSame ==
  ASSUME NEW a \in Page, NEW l \in Load, FirstIsGood(a, l), Now' = Now,
         load'[a][l] = load[a][l], answer'[a][l] = answer[a][l]
  PROVE  FirstIsGood(a, l)'
<1>1. Begun(a, l)' = Begun(a, l)
  BY DEF Begun
<1> QED  BY <1>1 DEF FirstIsGood

(* While content moves.                                                    *)
LEMMA GoodWhileMoving ==
  ASSUME StoreType, ShownType, LoadingType, StoreType', PagesAreGood,
         NEW by, Moved(Now, Now', by), UNCHANGED <<family, shown, loading>>
  PROVE  PagesAreGood'
<1> SUFFICES ASSUME NEW a \in Page, NEW l \in Load
             PROVE  MoreIsGood(a, l)' /\ FirstIsGood(a, l)' 
  <2>1. ASSUME NEW a \in Page  PROVE PassIsGood(a)'
    <3>0. PassIsGood(a)
      BY DEF PagesAreGood
    <3>1. /\ Now \in World /\ IsReading(pass[a]) /\ offset[a] \in Nat
      <4>1. shape \in [Content -> Shape]
        BY ShapeType DEF StoreType
      <4>2. Now \in World
        BY <4>1 DEF Now, World, StoreType
      <4>3. pass[a] \in PassType /\ offset[a] \in Nat
        BY DEF ShownType
      <4> QED  BY <4>2, <4>3 DEF IsReading, PassType
    <3>2. Now' \in World
      <4>1. shape' \in [Content -> Shape]
        BY ShapeType DEF StoreType, shape
      <4> QED  BY <4>1 DEF Now, World, StoreType
    <3>3. Sound(Now, pass[a]) =>
            /\ Sound(Now', pass[a])
            /\ Reads(Now, pass[a], list[a], offset[a]) => Reads(Now', pass[a], list[a], offset[a])
            /\ Whole(Now, pass[a], list[a]) => Whole(Now', pass[a], list[a])
      BY <3>1, <3>2, KeptWhileMoving
    <3>4. pass' = pass /\ list' = list /\ offset' = offset /\ more' = more
      BY DEF shown
    <3> QED  BY <3>0, <3>3, <3>4 DEF PassIsGood
  <2> QED  BY <2>1 DEF PagesAreGood
<1>0. PassIsGood(a) /\ MoreIsGood(a, l) /\ FirstIsGood(a, l)
  BY DEF PagesAreGood
<1>1. /\ Now \in World /\ IsReading(pass[a]) /\ IsReading(Begun(a, l))
      /\ load[a][l].from \in Nat /\ answer[a][l].next \in Nat
  BY Readings
<1>2. Now' \in World
  <2>1. shape' \in [Content -> Shape]
    BY ShapeType DEF StoreType, shape
  <2> QED  BY <2>1 DEF Now, World, StoreType
<1>3. pass' = pass /\ list' = list /\ load' = load /\ answer' = answer
  BY DEF shown, loading
<1>4. Begun(a, l)' = Begun(a, l)
  BY <1>3 DEF Begun
<1>5. Sound(Now, pass[a]) =>
        \A m : /\ \A u \in Nat : Reads(Now, pass[a], m, u) => Reads(Now', pass[a], m, u)
               /\ Whole(Now, pass[a], m) => Whole(Now', pass[a], m)
  BY <1>1, <1>2, KeptWhileMoving
<1>6. Sound(Now, Begun(a, l)) =>
        /\ Sound(Now', Begun(a, l))
        /\ \A m : /\ \A u \in Nat : Reads(Now, Begun(a, l), m, u) => Reads(Now', Begun(a, l), m, u)
                  /\ Whole(Now, Begun(a, l), m) => Whole(Now', Begun(a, l), m)
  BY <1>1, <1>2, KeptWhileMoving
<1>7. MoreIsGood(a, l)'
  BY <1>0, <1>1, <1>3, <1>5 DEF MoreIsGood, Continues, PassIsGood
<1>8. FirstIsGood(a, l)'
  BY <1>0, <1>1, <1>3, <1>4, <1>6 DEF FirstIsGood
<1> QED  BY <1>7, <1>8

-----------------------------------------------------------------------------
(* What a step of page a leaves alone.                                     *)
LEMMA Elsewhere ==
  ASSUME ShownType, LoadingType, PagesAreGood, NEW a \in Page, NEW l \in Load,
         PageStep(a, l), Now' = Now
  PROVE  \A b \in Page : b # a =>
           PassIsGood(b)' /\ \A k \in Load : MoreIsGood(b, k)' /\ FirstIsGood(b, k)'
<1> SUFFICES ASSUME NEW b \in Page, b # a
             PROVE  PassIsGood(b)' /\ \A k \in Load : MoreIsGood(b, k)' /\ FirstIsGood(b, k)'
  OBVIOUS
<1>1. /\ list \in [Page -> SUBSET Content] /\ offset \in [Page -> Nat]
      /\ more \in [Page -> BOOLEAN] /\ pass \in [Page -> PassType]
      /\ load \in [Page -> [Load -> LoadType]] /\ answer \in [Page -> [Load -> AnswerType]]
  BY DEF ShownType, LoadingType
<1>2. /\ pass'[b] = pass[b] /\ list'[b] = list[b] /\ offset'[b] = offset[b]
      /\ more'[b] = more[b] /\ load'[b] = load[b] /\ answer'[b] = answer[b]
  <2>1. CASE Refresh(a, l)  BY <1>1, <2>1 DEF Refresh, Ask, shown
  <2>2. ASSUME NEW f \in Filter, SetFilter(a, l, f)
        PROVE  /\ pass'[b] = pass[b] /\ list'[b] = list[b] /\ offset'[b] = offset[b]
               /\ more'[b] = more[b] /\ load'[b] = load[b] /\ answer'[b] = answer[b]
    BY <1>1, <2>2 DEF SetFilter, Ask
  <2>3. CASE LoadMore(a, l)  BY <1>1, <2>3 DEF LoadMore, Ask
  <2>4. CASE LoadAnswer(a, l)  BY <1>1, <2>4 DEF LoadAnswer, shown
  <2>5. CASE ShowFirst(a, l)  BY <1>1, <2>5 DEF ShowFirst, Ended
  <2>6. CASE ShowMore(a, l)  BY <1>1, <2>6 DEF ShowMore, Ended
  <2>7. CASE LoadFail(a, l)  BY <1>1, <2>7 DEF LoadFail, Ended
  <2> QED  BY <2>1, <2>2, <2>3, <2>4, <2>5, <2>6, <2>7 DEF PageStep
<1>3. PassIsGood(b) /\ \A k \in Load : MoreIsGood(b, k) /\ FirstIsGood(b, k)
  BY DEF PagesAreGood
<1> QED  BY <1>2, <1>3, PassSame, MoreSame, FirstSame

(* And of the others of its requests.                                      *)
LEMMA ElsewhereOnPage ==
  ASSUME PagesAreGood, NEW a \in Page, NEW l \in Load, Now' = Now,
         pass'[a] = pass[a], list'[a] = list[a],
         \A k \in Load : k # l => load'[a][k] = load[a][k] /\ answer'[a][k] = answer[a][k]
  PROVE  \A k \in Load : k # l => MoreIsGood(a, k)' /\ FirstIsGood(a, k)'
<1>1. \A k \in Load : MoreIsGood(a, k) /\ FirstIsGood(a, k)
  BY DEF PagesAreGood
<1> QED  BY <1>1, MoreSame, FirstSame

LEMMA AskIsGood ==
  ASSUME ShownType, LoadingType, PagesAreGood, NEW a \in Page, NEW l \in Load, Now' = Now,
         NEW r \in BOOLEAN, NEW f \in Filter, NEW o, Ask(a, l, r, f, o),
         r => o = 0, ~r => f = filter[a] /\ o = offset[a],
         UNCHANGED <<list, offset, more, pass, answer>>
  PROVE  PassIsGood(a)' /\ \A k \in Load : MoreIsGood(a, k)' /\ FirstIsGood(a, k)'
<1>1. load \in [Page -> [Load -> LoadType]]
  BY DEF LoadingType
<1>2. /\ load'[a][l] = [step |-> "asked", reset |-> r, filter |-> f, from |-> o, stale |-> FALSE]
      /\ \A k \in Load : k # l => load'[a][k] = load[a][k]
  BY <1>1 DEF Ask
<1>3. PassIsGood(a) /\ PassIsGood(a)'
  BY PassSame DEF PagesAreGood
<1>4. \A k \in Load : k # l => MoreIsGood(a, k)' /\ FirstIsGood(a, k)'
  BY <1>2, ElsewhereOnPage
<1>5. MoreIsGood(a, l)'
  BY <1>2, <1>3 DEF MoreIsGood, Continues, PassIsGood
<1>6. FirstIsGood(a, l)'
  BY <1>2 DEF FirstIsGood
<1> QED  BY <1>3, <1>4, <1>5, <1>6

LEMMA AnswerIsGood ==
  ASSUME StoreType, ShownType, LoadingType, PagesAreGood, NEW a \in Page, NEW l \in Load,
         Now' = Now, LoadAnswer(a, l)
  PROVE  PassIsGood(a)' /\ \A k \in Load : MoreIsGood(a, k)' /\ FirstIsGood(a, k)'
<1> DEFINE f == load[a][l].filter
           o == load[a][l].from
           q == Queue(f)
           got == Window(q, o, Limit)
<1>1. /\ load \in [Page -> [Load -> LoadType]] /\ answer \in [Page -> [Load -> AnswerType]]
  BY DEF LoadingType
<1>2. /\ load[a][l].step = "asked"
      /\ load'[a][l] = [load[a][l] EXCEPT !.step = "answered"]
      /\ \A k \in Load : k # l => load'[a][k] = load[a][k] /\ answer'[a][k] = answer[a][k]
      /\ pass' = pass /\ list' = list /\ offset' = offset /\ more' = more
  BY <1>1 DEF LoadAnswer, shown
<1>3. answer'[a][l] = [got |-> Rows(f, o), next |-> NextOffset(f, o), more |-> HasMore(f, o),
                       queue |-> q, since |-> exits]
  BY <1>1 DEF LoadAnswer
<1>4. /\ answer'[a][l].got = got /\ answer'[a][l].next = o + Cardinality(got)
      /\ answer'[a][l].more <=> Cardinality(q) > o + Limit
      /\ answer'[a][l].queue = q /\ answer'[a][l].since = exits
      /\ q = QueueIn(Now, f)
  BY <1>3, Response
<1>5. /\ load'[a][l].step = "answered" /\ load'[a][l].reset = load[a][l].reset
      /\ load'[a][l].filter = f /\ load'[a][l].from = o /\ load'[a][l].stale = load[a][l].stale
  <2>1. load[a][l] \in LoadType
    BY <1>1
  <2> QED  BY <2>1, <1>2 DEF LoadType
<1>6. /\ Now \in World /\ IsReading(pass[a]) /\ o \in Nat /\ Limit \in Nat
      /\ Cardinality(q) \in Nat
  <2>1. q \in SUBSET Content
    BY DEF Queue
  <2> QED  BY <2>1, Finite, FS_CardinalityType, Readings, ModerationAssumption
<1>7. PassIsGood(a) /\ MoreIsGood(a, l) /\ FirstIsGood(a, l)
  BY DEF PagesAreGood
<1> HIDE DEF q, got, o
<1>8. PassIsGood(a)'
  BY <1>2, <1>7, PassSame
<1>9. \A k \in Load : k # l => MoreIsGood(a, k)' /\ FirstIsGood(a, k)'
  BY <1>2, ElsewhereOnPage
<1>10. ASSUME Continues(a, l)'
       PROVE  /\ Reads(Now, pass[a], list[a] \cup got, o + Cardinality(got))
              /\ answer'[a][l].more \/ Whole(Now, pass[a], list[a] \cup got)
  <2>1. Continues(a, l) /\ f = pass[a].filter
    BY <1>2, <1>5, <1>10 DEF Continues
  <2>2. Sound(Now, pass[a]) /\ Reads(Now, pass[a], list[a], o)
    BY <2>1, <1>2, <1>7 DEF PassIsGood, MoreIsGood, Continues, o
  <2>3. got = Window(QueueIn(Now, pass[a].filter), o, Limit) /\ q = QueueIn(Now, pass[a].filter)
    BY <2>1, <1>4 DEF got
  <2>4. /\ Reads(Now, pass[a], list[a] \cup got, o + Cardinality(got))
        /\ Cardinality(q) <= o + Limit => Whole(Now, pass[a], list[a] \cup got)
    BY <1>6, <2>2, <2>3, ReadsOn
  <2>5. CASE Cardinality(q) > o + Limit  BY <2>4, <2>5, <1>4
  <2>6. CASE ~(Cardinality(q) > o + Limit)
    <3>1. Cardinality(q) <= o + Limit
      BY <2>6, <1>6
    <3> QED  BY <2>4, <3>1
  <2> QED  BY <2>5, <2>6
<1>11. MoreIsGood(a, l)'
  BY <1>2, <1>4, <1>5, <1>10 DEF MoreIsGood
<1>12. ASSUME load[a][l].reset
       PROVE  /\ Sound(Now, Begun(a, l)')
              /\ Reads(Now, Begun(a, l)', got, o + Cardinality(got))
              /\ answer'[a][l].more \/ Whole(Now, Begun(a, l)', got)
  <2> DEFINE p == Begun(a, l)'
  <2>1. p.filter = f /\ p.queue = q /\ p.since = exits
    BY <1>4, <1>5 DEF Begun
  <2>2. IsReading(p) /\ p.queue = QueueIn(Now, p.filter) /\ p.since = Now[3]
    <3>1. f \in Filters
      <4>1. load[a][l] \in LoadType
        BY <1>1
      <4> QED  BY <4>1 DEF LoadType
    <3>2. exits \in SUBSET Exit /\ q \in SUBSET Content
      BY DEF StoreType, q, Queue
    <3> QED  BY <2>1, <3>1, <3>2, <1>4 DEF IsReading, Now
  <2>3. o = 0
    BY <1>2, <1>7, <1>12 DEF FirstIsGood, o
  <2>4. got = Window(QueueIn(Now, p.filter), 0, Limit)
    BY <2>1, <2>3, <1>4 DEF got
  <2> HIDE DEF p
  <2>5. /\ Sound(Now, p) /\ Reads(Now, p, got, Cardinality(got))
        /\ Cardinality(q) <= Limit => Whole(Now, p, got)
    BY <1>4, <1>6, <2>1, <2>2, <2>4, ReadsFirst
  <2>6. Cardinality(got) \in Nat
    <3>1. q \in SUBSET Content
      BY DEF q, Queue
    <3> QED  BY <1>6, <3>1, Windows DEF got
  <2>7. o + Cardinality(got) = Cardinality(got)
    BY <2>3, <2>6
  <2>8. answer'[a][l].more \/ Whole(Now, p, got)
    <3>1. CASE Cardinality(q) > o + Limit  BY <3>1, <1>4
    <3>2. CASE ~(Cardinality(q) > o + Limit)
      <4>1. Cardinality(q) <= Limit
        BY <3>2, <2>3, <1>6
      <4> QED  BY <4>1, <2>5
    <3> QED  BY <3>1, <3>2
  <2> QED  BY <2>5, <2>7, <2>8 DEF p
<1>13. FirstIsGood(a, l)'
  BY <1>2, <1>4, <1>5, <1>7, <1>12 DEF FirstIsGood
<1> QED  BY <1>8, <1>9, <1>11, <1>13

LEMMA FirstShownIsGood ==
  ASSUME ShownType, LoadingType, PagesAreGood, NEW a \in Page, NEW l \in Load,
         Now' = Now, ShowFirst(a, l)
  PROVE  PassIsGood(a)' /\ \A k \in Load : MoreIsGood(a, k)' /\ FirstIsGood(a, k)'
<1>1. /\ load \in [Page -> [Load -> LoadType]] /\ answer \in [Page -> [Load -> AnswerType]]
      /\ list \in [Page -> SUBSET Content] /\ offset \in [Page -> Nat]
      /\ more \in [Page -> BOOLEAN] /\ pass \in [Page -> PassType]
  BY DEF ShownType, LoadingType
<1>2. /\ load[a][l].step = "answered" /\ load[a][l].reset
      /\ list'[a] = answer[a][l].got /\ offset'[a] = answer[a][l].next
      /\ more'[a] = answer[a][l].more
      /\ pass'[a] = [filter |-> load[a][l].filter, queue |-> answer[a][l].queue,
                     since |-> answer[a][l].since, mixed |-> FALSE]
      /\ \A k \in Load : k # l => answer'[a][k] = answer[a][k]
      /\ \A k \in Load : load'[a][k] = IF k = l \/ load[a][k] = Idle THEN Idle
                                       ELSE [load[a][k] EXCEPT !.stale = TRUE]
  BY <1>1 DEF ShowFirst, Ended
<1>3. \A k \in Load : FirstIsGood(a, k)
  BY DEF PagesAreGood
<1>4. PassIsGood(a)'
  <2> DEFINE p == pass'[a]
  <2>1. p.filter = Begun(a, l).filter /\ p.queue = Begun(a, l).queue
        /\ p.since = Begun(a, l).since /\ p.filter = load[a][l].filter
    BY <1>2 DEF Begun
  <2>2. /\ load[a][l].filter \in Filter
        /\ Sound(Now, Begun(a, l))
        /\ Reads(Now, Begun(a, l), answer[a][l].got, answer[a][l].next)
        /\ answer[a][l].more \/ Whole(Now, Begun(a, l), answer[a][l].got)
    BY <1>2, <1>3 DEF FirstIsGood
  <2> HIDE DEF p
  <2>3. /\ Sound(Now, p)
        /\ Reads(Now, p, answer[a][l].got, answer[a][l].next)
        /\ answer[a][l].more \/ Whole(Now, p, answer[a][l].got)
    <3> DEFINE b == Begun(a, l)
    <3>1. p.filter = b.filter /\ p.queue = b.queue /\ p.since = b.since
      BY <2>1
    <3> HIDE DEF b
    <3>2. /\ Sound(Now, b) => Sound(Now, p)
          /\ \A m, u : Reads(Now, b, m, u) => Reads(Now, p, m, u)
          /\ \A m : Whole(Now, b, m) => Whole(Now, p, m)
      BY <3>1, SameReading
    <3> QED  BY <2>2, <3>2 DEF b
  <2>4. /\ Sound(Now', pass'[a])
        /\ Reads(Now', pass'[a], list'[a], offset'[a])
        /\ more'[a] \/ Whole(Now', pass'[a], list'[a])
        /\ pass'[a].filter \in Filter
    BY <1>2, <2>1, <2>2, <2>3 DEF p
  <2> QED  BY <2>4 DEF PassIsGood
<1>5. ASSUME NEW k \in Load  PROVE MoreIsGood(a, k)'
  <2>1. load'[a][k].step = "idle" \/ load'[a][k].stale
    <3>1. load[a][k] \in LoadType
      BY <1>1
    <3>2. CASE load'[a][k] = Idle  BY <3>2 DEF Idle
    <3>3. CASE load'[a][k] = [load[a][k] EXCEPT !.stale = TRUE]
      BY <3>1, <3>3 DEF LoadType
    <3> QED  BY <1>2, <3>2, <3>3
  <2> QED  BY <2>1 DEF MoreIsGood, Continues
<1>6. ASSUME NEW k \in Load  PROVE FirstIsGood(a, k)'
  <2>1. CASE load'[a][k] = Idle
    BY <2>1 DEF FirstIsGood, Idle
  <2>2. CASE k # l /\ load'[a][k] = [load[a][k] EXCEPT !.stale = TRUE]
    <3>1. load[a][k] \in LoadType
      BY <1>1
    <3>2. /\ load'[a][k].step = load[a][k].step /\ load'[a][k].reset = load[a][k].reset
          /\ load'[a][k].filter = load[a][k].filter /\ load'[a][k].from = load[a][k].from
      BY <2>2, <3>1 DEF LoadType
    <3>3. Begun(a, k)' = Begun(a, k) /\ answer'[a][k] = answer[a][k]
      BY <1>2, <2>2, <3>2 DEF Begun
    <3> QED  BY <1>3, <3>2, <3>3 DEF FirstIsGood
  <2> QED  BY <1>2, <2>1, <2>2
<1> QED  BY <1>4, <1>5, <1>6

LEMMA MoreShownIsGood ==
  ASSUME StoreType, ShownType, LoadingType, PagesAreGood, NEW a \in Page, NEW l \in Load,
         Now' = Now, ShowMore(a, l)
  PROVE  PassIsGood(a)' /\ \A k \in Load : MoreIsGood(a, k)' /\ FirstIsGood(a, k)'
<1> DEFINE g == answer[a][l].got
<1>1. /\ load \in [Page -> [Load -> LoadType]] /\ answer \in [Page -> [Load -> AnswerType]]
      /\ list \in [Page -> SUBSET Content] /\ offset \in [Page -> Nat]
      /\ more \in [Page -> BOOLEAN] /\ pass \in [Page -> PassType]
  BY DEF ShownType, LoadingType
<1>2. /\ load[a][l].step = "answered" /\ ~load[a][l].reset
      /\ list'[a] = list[a] \cup g /\ offset'[a] = answer[a][l].next
      /\ more'[a] = answer[a][l].more
      /\ pass'[a] = [pass[a] EXCEPT !.mixed =
                       pass[a].mixed \/ load[a][l].stale \/ load[a][l].filter # pass[a].filter]
      /\ load'[a][l] = Idle
      /\ \A k \in Load : k # l => answer'[a][k] = answer[a][k] /\ load'[a][k] = load[a][k]
  BY <1>1 DEF ShowMore, Ended
<1>3. /\ pass'[a].filter = pass[a].filter /\ pass'[a].queue = pass[a].queue
      /\ pass'[a].since = pass[a].since
      /\ ~pass'[a].mixed => /\ ~pass[a].mixed /\ ~load[a][l].stale
                            /\ load[a][l].filter = pass[a].filter
  <2>1. pass[a] \in PassType
    BY <1>1
  <2> QED  BY <1>2, <2>1 DEF PassType
<1>4. PassIsGood(a) /\ \A k \in Load : MoreIsGood(a, k) /\ FirstIsGood(a, k)
  BY DEF PagesAreGood
<1>5. /\ Now \in World /\ IsReading(pass[a])
      /\ \A k \in Load : load[a][k].from \in Nat /\ answer[a][k].next \in Nat
  BY Readings
<1>6. PassIsGood(a)'
  <2>1. ASSUME ~pass'[a].mixed
        PROVE  /\ pass[a].filter \in Filter
               /\ Sound(Now, pass'[a])
               /\ Reads(Now, pass'[a], list[a] \cup g, answer[a][l].next)
               /\ answer[a][l].more \/ Whole(Now, pass'[a], list[a] \cup g)
    <3>1. Continues(a, l)
      BY <1>2, <1>3, <2>1 DEF Continues
    <3>2. /\ pass[a].filter \in Filter /\ Sound(Now, pass[a])
      BY <1>3, <1>4, <2>1 DEF PassIsGood
    <3>3. /\ Reads(Now, pass[a], list[a] \cup g, answer[a][l].next)
          /\ answer[a][l].more \/ Whole(Now, pass[a], list[a] \cup g)
      BY <1>2, <1>4, <3>1 DEF MoreIsGood
    <3> HIDE DEF g
    <3> QED  BY <1>3, <3>2, <3>3, SameReading
  <2> QED  BY <1>2, <1>3, <2>1 DEF PassIsGood
<1>7. ASSUME NEW k \in Load, k # l  PROVE MoreIsGood(a, k)'
  <2>1. ASSUME Continues(a, k)'
        PROVE  /\ load[a][k].step = "asked" =>
                    Reads(Now, pass'[a], list[a] \cup g, load[a][k].from)
               /\ load[a][k].step = "answered" =>
                    /\ Reads(Now, pass'[a], (list[a] \cup g) \cup answer[a][k].got, answer[a][k].next)
                    /\ answer[a][k].more \/ Whole(Now, pass'[a], (list[a] \cup g) \cup answer[a][k].got)
    <3>1. Continues(a, k)
      BY <1>2, <1>3, <1>7, <2>1 DEF Continues
    <3>2. /\ load[a][k].step = "asked" => Reads(Now, pass[a], list[a], load[a][k].from)
          /\ load[a][k].step = "answered" =>
               /\ Reads(Now, pass[a], list[a] \cup answer[a][k].got, answer[a][k].next)
               /\ answer[a][k].more \/ Whole(Now, pass[a], list[a] \cup answer[a][k].got)
      BY <1>4, <3>1 DEF MoreIsGood
    <3>3. (list[a] \cup answer[a][k].got) \cup g = (list[a] \cup g) \cup answer[a][k].got
      OBVIOUS
    <3> HIDE DEF g
    <3>4. load[a][k].step = "asked" => Reads(Now, pass[a], list[a] \cup g, load[a][k].from)
      BY <1>5, <3>2, ReadsGrow
    <3>5. load[a][k].step = "answered" =>
            Reads(Now, pass[a], (list[a] \cup g) \cup answer[a][k].got, answer[a][k].next)
      <4>1. load[a][k].step = "answered" =>
              Reads(Now, pass[a], (list[a] \cup answer[a][k].got) \cup g, answer[a][k].next)
        BY <1>5, <3>2, ReadsGrow
      <4> QED  BY <3>3, <4>1
    <3>6. load[a][k].step = "answered" =>
            answer[a][k].more \/ Whole(Now, pass[a], (list[a] \cup g) \cup answer[a][k].got)
      <4>1. load[a][k].step = "answered" =>
              answer[a][k].more \/ Whole(Now, pass[a], (list[a] \cup answer[a][k].got) \cup g)
        BY <1>5, <3>2, WholeGrows
      <4> QED  BY <3>3, <4>1
    <3> QED  BY <1>3, <3>4, <3>5, <3>6, SameReading
  <2> QED  BY <1>2, <1>7, <2>1 DEF MoreIsGood
<1>8. MoreIsGood(a, l)' /\ FirstIsGood(a, l)'
  BY <1>2 DEF MoreIsGood, Continues, FirstIsGood, Idle
<1>9. ASSUME NEW k \in Load, k # l  PROVE FirstIsGood(a, k)'
  BY <1>2, <1>4, <1>9, FirstSame
<1> QED  BY <1>6, <1>7, <1>8, <1>9

LEMMA FailIsGood ==
  ASSUME ShownType, LoadingType, PagesAreGood, NEW a \in Page, NEW l \in Load,
         Now' = Now, LoadFail(a, l)
  PROVE  PassIsGood(a)' /\ \A k \in Load : MoreIsGood(a, k)' /\ FirstIsGood(a, k)'
<1>1. /\ load'[a][l] = Idle
      /\ \A k \in Load : k # l => answer'[a][k] = answer[a][k] /\ load'[a][k] = load[a][k]
      /\ pass' = pass /\ list' = list /\ offset' = offset /\ more' = more
  BY DEF LoadFail, Ended, LoadingType
<1>2. PassIsGood(a)'
  BY <1>1, PassSame DEF PagesAreGood
<1>3. \A k \in Load : k # l => MoreIsGood(a, k)' /\ FirstIsGood(a, k)'
  BY <1>1, ElsewhereOnPage
<1>4. MoreIsGood(a, l)' /\ FirstIsGood(a, l)'
  BY <1>1 DEF MoreIsGood, Continues, FirstIsGood, Idle
<1> QED  BY <1>2, <1>3, <1>4

LEMMA PagesAreGoodKept ==
  ASSUME IInv, [Next]_vars, StoreType'
  PROVE  PagesAreGood'
<1>0. StoreType /\ DecidingType /\ ShownType /\ LoadingType /\ DecisionsAreSound
      /\ ExitsDiffer /\ PagesAreGood
  BY Types DEF IInv
<1>1. CASE UNCHANGED <<family, store, shown, loading>>
  <2>1. Now' = Now
    BY <1>1 DEF Now, shape, store
  <2>2. pass' = pass /\ list' = list /\ offset' = offset /\ more' = more /\ load' = load
        /\ answer' = answer
    BY <1>1 DEF shown, loading
  <2>3. \A a \in Page : PassIsGood(a) /\ \A l \in Load : MoreIsGood(a, l) /\ FirstIsGood(a, l)
    BY <1>0 DEF PagesAreGood
  <2>4. \A a \in Page :
          PassIsGood(a)' /\ \A l \in Load : MoreIsGood(a, l)' /\ FirstIsGood(a, l)'
    BY <2>1, <2>2, <2>3, PassSame, MoreSame, FirstSame
  <2> QED  BY <2>4 DEF PagesAreGood
<1>2. CASE ContentStep /\ UNCHANGED <<family, shown, loading>>
  <2>1. \E by : Moved(Now, Now', by)
    BY <1>0, <1>2, ContentMoves
  <2> QED  BY <1>0, <1>2, <2>1, GoodWhileMoving
<1>3. ASSUME NEW a \in Page, NEW l \in Load, PageStep(a, l), UNCHANGED <<family, store>>
      PROVE  PagesAreGood'
  <2>1. Now' = Now
    BY <1>3 DEF Now, shape, store
  <2>2. PassIsGood(a)' /\ \A k \in Load : MoreIsGood(a, k)' /\ FirstIsGood(a, k)'
    <3>0. filter[a] \in Filter
      BY <1>0 DEF ShownType
    <3>1. CASE Refresh(a, l)
      BY <1>0, <2>1, <3>0, <3>1, AskIsGood DEF Refresh, shown
    <3>2. ASSUME NEW f \in Filter, SetFilter(a, l, f)
          PROVE  PassIsGood(a)' /\ \A k \in Load : MoreIsGood(a, k)' /\ FirstIsGood(a, k)'
      BY <1>0, <2>1, <3>2, AskIsGood DEF SetFilter
    <3>3. CASE LoadMore(a, l)
      BY <1>0, <2>1, <3>0, <3>3, AskIsGood DEF LoadMore
    <3>4. CASE LoadAnswer(a, l)  BY <1>0, <2>1, <3>4, AnswerIsGood
    <3>5. CASE ShowFirst(a, l)  BY <1>0, <2>1, <3>5, FirstShownIsGood
    <3>6. CASE ShowMore(a, l)  BY <1>0, <2>1, <3>6, MoreShownIsGood
    <3>7. CASE LoadFail(a, l)  BY <1>0, <2>1, <3>7, FailIsGood
    <3> QED  BY <1>3, <3>1, <3>2, <3>3, <3>4, <3>5, <3>6, <3>7 DEF PageStep
  <2>3. \A b \in Page : b # a =>
          PassIsGood(b)' /\ \A k \in Load : MoreIsGood(b, k)' /\ FirstIsGood(b, k)'
    BY <1>0, <1>3, <2>1, Elsewhere
  <2> QED  BY <2>2, <2>3 DEF PagesAreGood
<1> QED  BY <1>1, <1>2, <1>3, Steps DEF vars

-----------------------------------------------------------------------------
(* Theorems *)

LEMMA InvInit == Init => IInv
<1> SUFFICES ASSUME Init PROVE IInv
  OBVIOUS
<1>1. TypeOK
  BY TypeInit
<1>2. DecisionsAreSound /\ ExitsDiffer
  BY DEF Init, DecisionsAreSound, ExitsDiffer, Done
<1>3. StatusIsExplained
  <2>1. \A c \in Content : Actions(c) = {}
    BY DEF Init, Actions, Done
  <2>2. \A c \in Stored : c \in Content /\ shape[c].system
    BY DEF Init, Stored, Status
  <2> QED  BY <2>1, <2>2 DEF StatusIsExplained
<1>4. PagesAreGood
  <2>1. \A a \in Page : pass[a].mixed /\ \A l \in Load : load[a][l].step = "idle"
    BY DEF Init, Idle
  <2> QED  BY <2>1 DEF PagesAreGood, PassIsGood, MoreIsGood, Continues, FirstIsGood
<1> QED  BY <1>1, <1>2, <1>3, <1>4 DEF IInv

LEMMA InvStep == IInv /\ [Next]_vars => IInv'
<1> SUFFICES ASSUME IInv, [Next]_vars PROVE IInv'
  OBVIOUS
<1>1. StoreType /\ DecidingType /\ ShownType /\ LoadingType /\ DecisionsAreSound
      /\ ExitsDiffer /\ StatusIsExplained
  BY Types DEF IInv
<1>2. StoreType' /\ DecidingType' /\ ShownType' /\ LoadingType'
  BY <1>1, StoreTypeKept, DecidingTypeKept, ShownTypeKept, LoadingTypeKept
<1>3. TypeOK'
  BY <1>2 DEF TypeOK, StoreType, DecidingType, ShownType, LoadingType, LoadType, AnswerType, PassType
<1>4. DecisionsAreSound' /\ ExitsDiffer' /\ StatusIsExplained'
  BY <1>1, DecisionsAreSoundKept, ExitsDifferKept, StatusIsExplainedKept
<1>5. PagesAreGood'
  BY <1>2, PagesAreGoodKept
<1> QED  BY <1>3, <1>4, <1>5 DEF IInv

(* IInv is an invariant.                                                   *)
THEOREM Invariance == Spec => []IInv
BY InvInit, InvStep, PTL DEF Spec

(* Every variable keeps its type.                                          *)
THEOREM TypeCorrect == Spec => []TypeOK
<1>1. IInv => TypeOK
  BY DEF IInv
<1> QED  BY <1>1, Invariance, PTL

(* A status is always explained by the log, however decisions, deletions   *)
(* and registrations of agents interleave.                                 *)
THEOREM StatusesAreExplained == Spec => []LogExplainsStatus
<1>1. IInv => LogExplainsStatus
  <2> SUFFICES ASSUME IInv PROVE LogExplainsStatus
    OBVIOUS
  <2>1. \A c \in Stored : Newest(c) \subseteq Actions(c)
    BY DEF Newest
  <2> QED  BY <2>1 DEF IInv, StatusIsExplained, LogExplainsStatus
<1> QED  BY <1>1, Invariance, PTL

(* A page that has loaded everything misses no more than was moved, for    *)
(* any number of pages, requests and items.                                *)
THEOREM PagesMissLittle == Spec => []PassesMissOnlyWhatMoved
<1>1. IInv => PassesMissOnlyWhatMoved
  <2> SUFFICES ASSUME IInv, NEW a \in Page, ~more[a], ~pass[a].mixed
               PROVE  Cardinality(Stayed(pass[a].filter, pass[a].queue, pass[a].since) \ list[a])
                        <= Cardinality(LeftSince(pass[a].filter, pass[a].since))
    BY DEF PassesMissOnlyWhatMoved
  <2>1. LeftIn(Now, pass[a]) = LeftSince(pass[a].filter, pass[a].since)
    BY DEF LeftIn, LeftSince, MatchesIn, Matches, Now
  <2>2. StayedIn(Now, pass[a]) = Stayed(pass[a].filter, pass[a].queue, pass[a].since)
    BY <2>1 DEF StayedIn, Stayed
  <2>3. Whole(Now, pass[a], list[a])
    BY DEF IInv, PagesAreGood, PassIsGood
  <2> QED  BY <2>1, <2>2, <2>3 DEF Whole
<1> QED  BY <1>1, Invariance, PTL

(* Public reads show nothing that is rejected, and nothing that            *)
(* administrators cannot find but the goals of unlisted runs in profiles.  *)
THEOREM PublicReadsAreModerated == Spec => []PublicIsModerated
<1>1. TypeOK => PublicIsModerated
  <2> SUFFICES ASSUME TypeOK PROVE PublicIsModerated
    OBVIOUS
  <2>0. /\ family \in Families
        /\ \A c \in Content :
             /\ shape[c].kind \in Kind
             /\ shape[c].kind = "run" => shape[c].run = c
             /\ shape[c].listed = shape[shape[c].run].listed
    <3>1. family \in Families
      BY DEF TypeOK
    <3> QED  BY <3>1, ShapeType
  <2> DEFINE Good(c) == c \in Content /\ Shown(c) /\ shape[c].listed
  <2>1. ASSUME NEW c, Good(c)  PROVE status[c] # "rejected" /\ c \in Queue(AllOf(status[c]))
    BY <2>0, <2>1 DEF Shown, Queue, AllOf, Matches
  <2>2. \A r \in Listed : Good(r) /\ shape[r].run = r
    BY <2>0 DEF Listed, Open
  <2>3. ASSUME NEW r \in Listed, NEW c \in KeyEvents(r)  PROVE Good(c) /\ shape[c].run = r
    BY <2>0, <2>2 DEF KeyEvents, Parts, Stored
  <2>4. ASSUME NEW r \in Listed, NEW c \in Preview(r)  PROVE Good(c) /\ shape[c].run = r
    <3>1. c \in KeyEvents(r) \/ c \in {b \in Parts(r, "artifact") : Shown(b)}
      BY <2>4 DEF Preview, LastOf
    <3>2. CASE c \in KeyEvents(r)  BY <2>3, <3>2
    <3>3. CASE c \in {b \in Parts(r, "artifact") : Shown(b)}
      BY <2>0, <2>2, <3>3 DEF Parts, Stored
    <3> QED  BY <3>1, <3>2, <3>3
  <2>5. ASSUME NEW c \in RunList \cup Activity
        PROVE  Good(c) /\ shape[c].run \in Listed
    BY <2>2, <2>3, <2>4, <2>5 DEF RunList, Activity
  <2>6. ASSUME NEW c \in RunPage \cup Replay \cup ArtifactPages \cup Output  PROVE Good(c)
    BY <2>6 DEF RunPage, Replay, ArtifactPages, Output, Open
  <2>7. ASSUME NEW c \in Profile
        PROVE  c \in Content /\ Shown(c) /\ (Good(c) \/ ~shape[c].listed)
    BY <2>7 DEF Profile
  <2>8. \A c \in Public :
          /\ status[c] # "rejected"
          /\ c \in Queue(AllOf(status[c])) \/ (c \in Profile /\ ~shape[c].listed)
    <3> SUFFICES ASSUME NEW c \in Public
                 PROVE  /\ status[c] # "rejected"
                        /\ c \in Queue(AllOf(status[c])) \/ (c \in Profile /\ ~shape[c].listed)
      OBVIOUS
    <3>1. CASE Good(c)  BY <2>1, <3>1
    <3>2. CASE c \in Profile /\ ~Good(c)
      BY <2>7, <3>2 DEF Shown
    <3>3. Good(c) \/ c \in Profile
      <4> HIDE DEF Good
      <4> QED  BY <2>5, <2>6 DEF Public
    <3> QED  BY <3>1, <3>2, <3>3
  <2>9. \A c \in RunList \cup Activity : status[shape[c].run] \in {"pending", "approved"}
    BY <2>5 DEF Listed, Shown, Status
  <2> QED  BY <2>8, <2>9 DEF PublicIsModerated
<1> QED  BY <1>1, TypeCorrect, PTL
(* A rejection ends with the run, or by a decision that wants what the     *)
(* status then is: neither another insert nor an agent's registration,     *)
(* which writes the platform's runs anew, takes it back.                   *)
RejectionsStand ==
  [][\A c \in Content :
       status[c] = "rejected" /\ status'[c] # "rejected" =>
         \/ status'[c] = "gone" /\ status'[shape[c].run] = "gone" /\ shape[c].run \in Stored
         \/ \E d \in Decision : /\ pc[d] = "held" /\ pc'[d] = "done"
                                /\ says[d] = [target |-> c, wants |-> status'[c]]]_vars

THEOREM RejectionsAreKept == Spec => RejectionsStand
<1> DEFINE Ends(c) ==
      \/ status'[c] = "gone" /\ status'[shape[c].run] = "gone" /\ shape[c].run \in Stored
      \/ \E d \in Decision : /\ pc[d] = "held" /\ pc'[d] = "done"
                             /\ says[d] = [target |-> c, wants |-> status'[c]]
<1>1. ASSUME TypeOK, [Next]_vars, NEW c \in Content,
             status[c] = "rejected", status'[c] # "rejected"
      PROVE  Ends(c)
  <2>0. /\ status \in [Content -> Status \cup {"none", "gone"}]
        /\ says \in [Decision -> [target : Content \cup {0}, wants : Status]]
        /\ pc \in [Decision -> {"new", "begun", "held", "done", "failed"}]
    BY <1>1 DEF TypeOK
  <2>1. ASSUME NEW b \in Content, Store(b)  PROVE FALSE
    BY <1>1, <2>0, <2>1 DEF Store
  <2>2. ASSUME NEW b \in Content, CreateOnboardingOffer(b)  PROVE FALSE
    BY <1>1, <2>0, <2>2 DEF CreateOnboardingOffer, Upserted
  <2>3. ASSUME NEW r \in Content, DeleteRun(r)  PROVE Ends(c)
    <3>1. shape[c].run = r /\ status'[c] = "gone" /\ r \in Stored
      BY <1>1, <2>0, <2>3 DEF DeleteRun
    <3>2. shape[r].run = r
      BY <1>1, <2>3, ShapeType DEF DeleteRun, TypeOK
    <3>3. status'[r] = "gone"
      BY <2>0, <2>3, <3>1, <3>2 DEF DeleteRun
    <3> QED  BY <3>1, <3>3
  <2>4. ASSUME NEW d \in Decision, DecideCommit(d)  PROVE Ends(c)
    <3>1. pc[d] = "held" /\ pc'[d] = "done"
      BY <2>0, <2>4 DEF DecideCommit, To
    <3>2. says[d].target = c
      BY <1>1, <2>0, <2>4 DEF DecideCommit
    <3>3. says[d].wants = status'[c]
      BY <2>0, <2>4, <3>2 DEF DecideCommit
    <3>4. says[d] = [target |-> c, wants |-> status'[c]]
      BY <2>0, <3>2, <3>3
    <3> QED  BY <3>1, <3>4
  <2>5. status' # status
    BY <1>1
  <2>6. ContentStep
    BY <1>1, <2>5, Steps DEF vars, store
  <2> HIDE DEF Ends
  <2> QED  BY <2>1, <2>2, <2>3, <2>4, <2>6 DEF ContentStep
<1>2. TypeOK /\ [Next]_vars =>
        [\A c \in Content : status[c] = "rejected" /\ status'[c] # "rejected" => Ends(c)]_vars
  BY <1>1
<1> QED  BY <1>2, TypeCorrect, PTL DEF Spec, RejectionsStand
=============================================================================
