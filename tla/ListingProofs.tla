---------------------------- MODULE ListingProofs ----------------------------
(***************************************************************************)
(* Proofs about a reader's walk through a job list, for any jobs, any size *)
(* of a page and any run of the clock.                                     *)
(***************************************************************************)
EXTENDS Listing, Integers, FiniteSetTheorems, TLAPS

(* The inductive invariant. *)

\* The window of the list under way, and the last place the walk has read.
Win == Matching(stored, List)
Edge == IF req.pc \in {"fetched", "rendered"} THEN req.offset + PerPage ELSE req.offset

\* Rows of a window that come after place b, and those up to it.
After(rows, window, S, b) == {i \in window \intersect S : Place(rows, window, i) > b}
UpTo(rows, window, S, b) == {i \in window \intersect S : Place(rows, window, i) <= b}

Row == [job : Jobs, at : Nat, state : {"active", "completed", "failed", "gone"}]

ReqFields == {"pc", "api", "path", "states", "pattern", "view", "page", "before", "offset", "total",
              "pages", "shown", "link", "slipIn", "slipOut"}
WalkFields == {"stage", "seen", "repeats", "steady", "in", "out", "clamps", "opened"}

ReqShape ==
    /\ DOMAIN req = ReqFields
    /\ req.pc \in {"idle", "parsed", "counted", "fetched", "rendered", "groups"}
    /\ req.states \in {{}, {"active"}, {"failed"}}
    /\ req.page \in Nat \ {0} /\ req.before \in Nat /\ req.offset \in Nat /\ req.total \in Nat
    /\ req.pages \in Nat /\ req.shown \subseteq DOMAIN stored /\ req.link \in Nat
    /\ req.slipIn \in Nat /\ req.slipOut \in Nat

WalkShape ==
    /\ DOMAIN walk = WalkFields
    /\ walk.stage \in {"ready", "walking"}
    /\ walk.seen \subseteq DOMAIN stored /\ walk.steady \subseteq DOMAIN stored
    /\ walk.repeats \in Nat /\ walk.in \in Nat /\ walk.out \in Nat /\ walk.clamps \in Nat
    /\ walk.opened \in Nat

\* A job has one row, or is in a buffer, and has happened.
RowsInv ==
    /\ clock \in 1..MaxClock
    /\ stored \in Seq(Row)
    /\ \A i \in DOMAIN stored : stored[i].at \in 1..clock
    /\ \A i, k \in DOMAIN stored : stored[i].job = stored[k].job => i = k
    /\ DOMAIN buffered \subseteq Jobs
    /\ \A j \in DOMAIN buffered : /\ buffered[j] \in 1..clock
                                  /\ \A i \in DOMAIN stored : stored[i].job # j

PagingInv ==
    /\ req.offset = (req.page - 1) * PerPage
    /\ req.page <= Cardinality(Jobs) + 1
    /\ Cardinality(req.shown) <= PerPage
    /\ req.pc \in {"counted", "fetched", "rendered"} =>
            req.page <= req.pages /\ req.total <= req.pages * PerPage /\ req.pages <= Cardinality(Jobs)
    /\ req.pc = "parsed" => req.slipIn = 0 /\ req.slipOut = 0
    /\ req.pc = "counted" => Cardinality(Win) + req.slipOut = req.total + req.slipIn

\* The window: a deeper page has one, and from the first page rendered on it ends by then.
FrozenInv ==
    /\ req.before <= clock /\ req.link <= clock /\ walk.opened <= clock
    /\ req.pc = "idle" => walk.opened = 0 /\ walk.stage = "ready"
    /\ req.pc \in {"parsed", "counted", "fetched"} /\ walk.opened # 0 =>
            req.before # 0 /\ req.before <= walk.opened
    /\ req.page > 1 => req.before # 0
    /\ walk.opened # 0 /\ req.page > 1 => req.before <= walk.opened
    /\ req.pc = "rendered" => /\ walk.opened # 0 /\ req.link <= walk.opened
                              /\ req.page > 1 \/ req.page < req.pages => req.link # 0

\* What the walk has shown and what it still can show.
WalkInv ==
    /\ walk.stage = "ready" => /\ walk.seen = {} /\ walk.steady = {}
                               /\ walk.repeats = 0 /\ walk.in = 0 /\ walk.out = 0
    /\ req.pc \in {"fetched", "rendered"} => walk.stage = "walking"
    /\ walk.steady \subseteq Win
    /\ req.states = {"failed"} => \A i \in walk.seen : stored[i].state # "active"
    /\ walk.repeats + Cardinality(After(stored, Win, walk.seen, Edge)) <= walk.in + PerPage * walk.clamps
    /\ Cardinality(UpTo(stored, Win, walk.steady \ walk.seen, Edge)) <= walk.out
    /\ req.pc \in {"fetched", "rendered"} /\ req.page >= req.pages =>
            Cardinality(walk.steady \ walk.seen) <= walk.out + req.slipIn

ListingInv == ReqShape /\ WalkShape /\ RowsInv /\ PagingInv /\ FrozenInv /\ WalkInv /\ PagesAreFull

----------------------------------------------------------------------------
(* Places in a window. *)

\* The rows of a window up to row i, itself included.
Down(rows, window, i) == {j \in window : j = i \/ Precedes(rows, j, i)}

\* A window of rows with times.
Timed(rows, window) ==
    /\ IsFiniteSet(window) /\ window \subseteq Nat
    /\ \A i \in window : rows[i].at \in Nat

\* Places are counted from 1 to the size of the window.
LEMMA PlaceBounds ==
    ASSUME NEW rows, NEW window, Timed(rows, window), NEW i \in window
    PROVE  Place(rows, window, i) \in 1..Cardinality(window)
  <1> DEFINE D == Down(rows, window, i)
  <1>1. D \subseteq window /\ i \in D
    BY DEF Down
  <1>2. IsFiniteSet(window)
    BY DEF Timed
  <1>3. IsFiniteSet(D) /\ Cardinality(D) <= Cardinality(window)
    BY <1>1, <1>2, FS_Subset
  <1>4. Cardinality(D) \in Nat /\ Cardinality(window) \in Nat
    BY <1>2, <1>3, FS_CardinalityType
  <1>5. Cardinality(D) # 0
    BY <1>1, <1>3, FS_EmptySet
  <1>6. Place(rows, window, i) = Cardinality(D)
    BY DEF Place, Down
  <1> QED
    BY <1>3, <1>4, <1>5, <1>6

\* A row that comes before another has the lower place.
LEMMA PlaceOrder ==
    ASSUME NEW rows, NEW window, Timed(rows, window), NEW i \in window, NEW k \in window,
           Precedes(rows, k, i)
    PROVE  Place(rows, window, k) < Place(rows, window, i)
  <1> DEFINE D == Down(rows, window, i)
             E == Down(rows, window, k)
  <1>a. \A j \in window : j \in Nat /\ rows[j].at \in Nat
    BY DEF Timed
  <1>1. E \subseteq D
    <2> SUFFICES ASSUME NEW j \in window, j = k \/ Precedes(rows, j, k)
                 PROVE  j = i \/ Precedes(rows, j, i)
      BY DEF Down
    <2> QED
      BY <1>a DEF Precedes
  <1>2. i \in D /\ i \notin E
    BY <1>a DEF Down, Precedes
  <1>3. IsFiniteSet(D)
    BY FS_Subset DEF Down, Timed
  <1>4. IsFiniteSet(E) /\ Cardinality(E) <= Cardinality(D) /\ (Cardinality(E) = Cardinality(D) => E = D)
    BY <1>1, <1>3, FS_Subset
  <1>5. Cardinality(D) \in Nat /\ Cardinality(E) \in Nat
    BY <1>3, <1>4, FS_CardinalityType
  <1>6. Cardinality(E) < Cardinality(D)
    BY <1>2, <1>4, <1>5
  <1> QED
    BY <1>6 DEF Place, Down

\* No two rows have one place.
LEMMA PlaceDistinct ==
    ASSUME NEW rows, NEW window, Timed(rows, window), NEW i \in window, NEW k \in window, i # k
    PROVE  Place(rows, window, k) # Place(rows, window, i)
  <1>a. \A j \in window : j \in Nat /\ rows[j].at \in Nat
    BY DEF Timed
  <1>1. Precedes(rows, k, i) \/ Precedes(rows, i, k)
    BY <1>a DEF Precedes
  <1>2. Place(rows, window, k) \in Int /\ Place(rows, window, i) \in Int
    BY PlaceBounds
  <1> QED
    BY <1>1, <1>2, PlaceOrder

\* As many rows as places, at most.
LEMMA PlacesBound ==
    ASSUME NEW rows, NEW window, Timed(rows, window), NEW S \in SUBSET window,
           NEW c \in Int, NEW d \in Int, c <= d,
           \A i \in S : Place(rows, window, i) \in (c + 1)..d
    PROVE  IsFiniteSet(S) /\ Cardinality(S) \in Nat /\ Cardinality(S) <= d - c
  <1> DEFINE f == [i \in S |-> Place(rows, window, i)]
  <1>1. IsFiniteSet(S)
    BY FS_Subset DEF Timed
  <1>2. Cardinality(S) \in Nat
    BY <1>1, FS_CardinalityType
  <1>3. IsFiniteSet((c + 1)..d) /\ Cardinality((c + 1)..d) = d - c
    <2>1. c + 1 \in Int
      OBVIOUS
    <2>2. IsFiniteSet((c + 1)..d) /\ Cardinality((c + 1)..d) = IF c + 1 > d THEN 0 ELSE d - (c + 1) + 1
      BY <2>1, FS_Interval
    <2> QED
      BY <2>2
  <1>4. f \in Injection(S, (c + 1)..d)
    BY PlaceDistinct DEF Injection, IsInjective
  <1>5. Cardinality(S) <= Cardinality((c + 1)..d)
    BY <1>3, <1>4, FS_Injection DEF ExistsInjection
  <1> QED
    BY <1>1, <1>2, <1>3, <1>5

\* A row enters a window: every other row keeps its place or moves one down.
LEMMA PlaceEnter ==
    ASSUME NEW rows, NEW later, NEW window, NEW e, Timed(rows, window),
           \A j \in window : later[j].at = rows[j].at, e \notin window,
           NEW i \in window
    PROVE  Place(later, window \union {e}, i) \in {Place(rows, window, i), Place(rows, window, i) + 1}
  <1> DEFINE D == Down(rows, window, i)
             E == Down(later, window \union {e}, i)
  <1>1. E = D \/ E = D \union {e}
    BY DEF Down, Precedes
  <1>2. IsFiniteSet(D) /\ e \notin D
    BY FS_Subset DEF Down, Timed
  <1>3. Cardinality(D) \in Nat /\ Cardinality(D \union {e}) = Cardinality(D) + 1
    BY <1>2, FS_CardinalityType, FS_AddElement
  <1>4. Cardinality(E) \in {Cardinality(D), Cardinality(D) + 1}
    BY <1>1, <1>3
  <1> QED
    BY <1>4 DEF Place, Down

\* The places depend on the times alone.
LEMMA PlaceSame ==
    ASSUME NEW rows, NEW later, NEW window, \A j \in window : later[j].at = rows[j].at, NEW i \in window
    PROVE  Place(later, window, i) = Place(rows, window, i)
  <1>1. Down(later, window, i) = Down(rows, window, i)
    BY DEF Down, Precedes
  <1> QED
    BY <1>1 DEF Place, Down

----------------------------------------------------------------------------
(* How many rows lie where. *)

LEMMA CardUnion ==
    ASSUME NEW S, NEW T, IsFiniteSet(S), IsFiniteSet(T)
    PROVE  /\ IsFiniteSet(S \union T)
           /\ Cardinality(S) \in Nat /\ Cardinality(T) \in Nat /\ Cardinality(S \union T) \in Nat
           /\ Cardinality(S \union T) <= Cardinality(S) + Cardinality(T)
           /\ S \intersect T = {} => Cardinality(S \union T) = Cardinality(S) + Cardinality(T)
  <1>1. /\ IsFiniteSet(S \union T)
        /\ Cardinality(S \union T) = Cardinality(S) + Cardinality(T) - Cardinality(S \intersect T)
    BY FS_Union
  <1>2. IsFiniteSet(S \intersect T)
    BY FS_Intersection
  <1>3. /\ Cardinality(S) \in Nat /\ Cardinality(T) \in Nat
        /\ Cardinality(S \union T) \in Nat /\ Cardinality(S \intersect T) \in Nat
    BY <1>1, <1>2, FS_CardinalityType
  <1>4. S \intersect T = {} => Cardinality(S \intersect T) = 0
    BY FS_EmptySet
  <1> QED
    BY <1>1, <1>3, <1>4

\* A part of a finite set, and a part of it with one more element.
LEMMA CardPart ==
    ASSUME NEW S, NEW T, NEW x, IsFiniteSet(T), S \subseteq T \union {x}
    PROVE  /\ IsFiniteSet(S) /\ Cardinality(S) \in Nat /\ Cardinality(T) \in Nat
           /\ Cardinality(S) <= Cardinality(T) + 1
           /\ S \subseteq T => Cardinality(S) <= Cardinality(T)
  <1>1. IsFiniteSet({x}) /\ Cardinality({x}) = 1
    BY FS_Singleton
  <1>2. /\ IsFiniteSet(T \union {x}) /\ Cardinality(T) \in Nat
        /\ Cardinality(T \union {x}) \in Nat /\ Cardinality(T \union {x}) <= Cardinality(T) + 1
    BY <1>1, CardUnion
  <1>3. IsFiniteSet(S) /\ Cardinality(S) <= Cardinality(T \union {x})
    BY <1>2, FS_Subset
  <1>4. Cardinality(S) \in Nat
    BY <1>3, FS_CardinalityType
  <1>5. S \subseteq T => Cardinality(S) <= Cardinality(T)
    BY FS_Subset
  <1> QED
    BY <1>2, <1>3, <1>4, <1>5

LEMMA PartsFinite ==
    ASSUME NEW rows, NEW window, Timed(rows, window), NEW S, NEW b
    PROVE  /\ IsFiniteSet(After(rows, window, S, b)) /\ Cardinality(After(rows, window, S, b)) \in Nat
           /\ IsFiniteSet(UpTo(rows, window, S, b)) /\ Cardinality(UpTo(rows, window, S, b)) \in Nat
           /\ Cardinality(window) \in Nat
  <1>1. After(rows, window, S, b) \subseteq window /\ UpTo(rows, window, S, b) \subseteq window
    BY DEF After, UpTo
  <1>2. IsFiniteSet(window)
    BY DEF Timed
  <1> QED
    BY <1>1, <1>2, FS_Subset, FS_CardinalityType

\* After place b there are no more rows than the window has past b.
LEMMA AfterBound ==
    ASSUME NEW rows, NEW window, Timed(rows, window), NEW S, NEW b \in Nat
    PROVE  \/ Cardinality(After(rows, window, S, b)) = 0
           \/ Cardinality(After(rows, window, S, b)) <= Cardinality(window) - b
  <1> DEFINE A == After(rows, window, S, b)
  <1>1. Cardinality(window) \in Nat
    BY PartsFinite
  <1>2. \A i \in A : i \in window /\ Place(rows, window, i) \in (b + 1)..Cardinality(window)
    BY <1>1, PlaceBounds DEF After
  <1>3. CASE b <= Cardinality(window)
    BY <1>1, <1>2, <1>3, PlacesBound
  <1>4. CASE ~(b <= Cardinality(window))
    <2>1. A = {}
      BY <1>1, <1>2, <1>4
    <2> QED
      BY <2>1, FS_EmptySet
  <1> QED
    BY <1>3, <1>4

\* The rows at the places of a page.
InPlaces(rows, window, c, d) == {i \in window : Place(rows, window, i) \in (c + 1)..d}

\* A page holds no more rows than it has places.
LEMMA PageBound ==
    ASSUME NEW rows, NEW window, Timed(rows, window), NEW c \in Nat, NEW n \in Nat
    PROVE  /\ IsFiniteSet(InPlaces(rows, window, c, c + n))
           /\ Cardinality(InPlaces(rows, window, c, c + n)) \in Nat
           /\ Cardinality(InPlaces(rows, window, c, c + n)) <= n
  <1> DEFINE B == InPlaces(rows, window, c, c + n)
  <1>1. B \in SUBSET window /\ \A i \in B : Place(rows, window, i) \in (c + 1)..(c + n)
    BY DEF InPlaces
  <1>2. c \in Int /\ c + n \in Int /\ c <= c + n
    OBVIOUS
  <1> HIDE DEF B
  <1>3. IsFiniteSet(B) /\ Cardinality(B) \in Nat /\ Cardinality(B) <= (c + n) - c
    BY <1>1, <1>2, PlacesBound
  <1> QED
    BY <1>3 DEF B

\* And as many as the window has there.
LEMMA PageFull ==
    ASSUME NEW rows, NEW window, Timed(rows, window), NEW c \in Nat, NEW n \in Nat
    PROVE  \/ Cardinality(InPlaces(rows, window, c, c + n)) >= n
           \/ Cardinality(InPlaces(rows, window, c, c + n)) >= Cardinality(window) - c
  <1> DEFINE A == UpTo(rows, window, window, c)
             B == InPlaces(rows, window, c, c + n)
             C == After(rows, window, window, c + n)
             N == Cardinality(window)
  <1>1. IsFiniteSet(A) /\ Cardinality(A) \in Nat /\ IsFiniteSet(C) /\ Cardinality(C) \in Nat /\ N \in Nat
    BY PartsFinite
  <1>2. IsFiniteSet(B) /\ Cardinality(B) \in Nat
    BY PageBound
  <1>3. \A i \in window : Place(rows, window, i) \in 1..N
    BY PlaceBounds
  <1>4. window = (A \union B) \union C
    BY <1>1, <1>3 DEF UpTo, InPlaces, After
  <1>5. IsFiniteSet(A \union B) /\ Cardinality(A \union B) <= Cardinality(A) + Cardinality(B)
        /\ Cardinality(A \union B) \in Nat
    BY <1>1, <1>2, CardUnion
  <1>6. N <= Cardinality(A \union B) + Cardinality(C)
    BY <1>1, <1>4, <1>5, CardUnion
  <1>7. Cardinality(A) <= c
    <2>1. A \in SUBSET window /\ \A i \in A : Place(rows, window, i) \in (0 + 1)..c
      BY <1>1, <1>3 DEF UpTo
    <2>2. 0 \in Int /\ c \in Int /\ 0 <= c
      OBVIOUS
    <2> HIDE DEF A
    <2>3. Cardinality(A) <= c - 0
      BY <2>1, <2>2, PlacesBound
    <2> QED
      BY <2>3
  <1>8. Cardinality(C) = 0 \/ Cardinality(C) <= N - (c + n)
    BY AfterBound
  <1> HIDE DEF A, B, C, N
  <1>9. Cardinality(B) >= n \/ Cardinality(B) >= N - c
    BY <1>1, <1>2, <1>5, <1>6, <1>7, <1>8
  <1> QED
    BY <1>9 DEF B, N

----------------------------------------------------------------------------
(* A row enters or leaves the window. *)

\* At most one row has a given place.
LEMMA AtPlace ==
    ASSUME NEW rows, NEW window, Timed(rows, window), NEW b
    PROVE  \E x : \A i \in window : Place(rows, window, i) = b => i = x
  <1>1. CASE \E x \in window : Place(rows, window, x) = b
    BY <1>1, PlaceDistinct
  <1>2. CASE ~\E x \in window : Place(rows, window, x) = b
    BY <1>2
  <1> QED
    BY <1>1, <1>2

\* A row that the walk has not shown enters: one more shown row may lie ahead, and no
\* more rows lie behind.
LEMMA EnterCounts ==
    ASSUME NEW rows, NEW later, NEW window, NEW e, Timed(rows, window),
           \A j \in window : later[j].at = rows[j].at, e \notin window,
           NEW S, e \notin S, NEW T, e \notin T, NEW b \in Nat
    PROVE  /\ Cardinality(After(later, window \union {e}, S, b)) <= Cardinality(After(rows, window, S, b)) + 1
           /\ Cardinality(UpTo(later, window \union {e}, T, b)) <= Cardinality(UpTo(rows, window, T, b))
  <1> DEFINE W == window \union {e}
             A == After(rows, window, S, b)
             U == UpTo(rows, window, T, b)
  <1>1. \A i \in window : /\ Place(rows, window, i) \in Int
                          /\ Place(later, W, i) \in {Place(rows, window, i), Place(rows, window, i) + 1}
    BY PlaceBounds, PlaceEnter
  <1>2. PICK x : \A i \in window : Place(rows, window, i) = b => i = x
    BY AtPlace
  <1>3. IsFiniteSet(A) /\ IsFiniteSet(U)
    BY PartsFinite
  <1>4. After(later, W, S, b) \subseteq A \union {x}
    <2> SUFFICES ASSUME NEW i \in window, i \in S, Place(later, W, i) > b, i # x
                 PROVE  Place(rows, window, i) > b
      BY DEF After
    <2>1. Place(rows, window, i) # b
      BY <1>2
    <2> QED
      BY <1>1, <2>1
  <1>5. UpTo(later, W, T, b) \subseteq U
    <2> SUFFICES ASSUME NEW i \in window, i \in T, Place(later, W, i) <= b
                 PROVE  Place(rows, window, i) <= b
      BY DEF UpTo
    <2> QED
      BY <1>1
  <1> HIDE DEF A, U, W
  <1>6. Cardinality(After(later, W, S, b)) <= Cardinality(A) + 1
    BY <1>3, <1>4, CardPart
  <1>7. Cardinality(UpTo(later, W, T, b)) <= Cardinality(U)
    BY <1>3, <1>5, FS_Subset
  <1> QED
    BY <1>6, <1>7 DEF A, U, W

\* A row leaves: no more shown rows lie ahead, and one more row may lie behind.
LEMMA LeaveCounts ==
    ASSUME NEW rows, NEW later, NEW window, NEW e, Timed(rows, window \union {e}),
           \A j \in window : later[j].at = rows[j].at, e \notin window,
           NEW S, NEW T, NEW b \in Nat
    PROVE  /\ Cardinality(After(later, window, S, b)) <= Cardinality(After(rows, window \union {e}, S, b))
           /\ Cardinality(UpTo(later, window, T, b)) <= Cardinality(UpTo(rows, window \union {e}, T, b)) + 1
  <1> DEFINE W == window \union {e}
             A == After(rows, W, S, b)
             U == UpTo(rows, W, T, b)
  <1>0. Timed(later, window)
    <2>1. IsFiniteSet(window)
      BY FS_Subset DEF Timed
    <2> QED
      BY <2>1 DEF Timed
  <1>1. \A i \in window : /\ Place(later, window, i) \in Int
                          /\ Place(rows, W, i) \in {Place(later, window, i), Place(later, window, i) + 1}
    BY <1>0, PlaceBounds, PlaceEnter
  <1>2. PICK x : \A i \in W : Place(rows, W, i) = b + 1 => i = x
    BY AtPlace
  <1>3. IsFiniteSet(A) /\ IsFiniteSet(U)
    BY PartsFinite
  <1>4. After(later, window, S, b) \subseteq A
    <2> SUFFICES ASSUME NEW i \in window, i \in S, Place(later, window, i) > b
                 PROVE  Place(rows, W, i) > b
      BY DEF After
    <2> QED
      BY <1>1
  <1>5. UpTo(later, window, T, b) \subseteq U \union {x}
    <2> SUFFICES ASSUME NEW i \in window, i \in T, Place(later, window, i) <= b, i # x
                 PROVE  Place(rows, W, i) <= b
      BY DEF UpTo
    <2>1. Place(rows, W, i) # b + 1
      BY <1>2
    <2> QED
      BY <1>1, <2>1
  <1> HIDE DEF A, U, W
  <1>6. Cardinality(After(later, window, S, b)) <= Cardinality(A)
    BY <1>3, <1>4, FS_Subset
  <1>7. Cardinality(UpTo(later, window, T, b)) <= Cardinality(U) + 1
    BY <1>3, <1>5, CardPart
  <1> QED
    BY <1>6, <1>7 DEF A, U, W

\* A row that stays moves nothing.
LEMMA StayCounts ==
    ASSUME NEW rows, NEW later, NEW window, \A j \in window : later[j].at = rows[j].at, NEW S, NEW b
    PROVE  /\ After(later, window, S, b) = After(rows, window, S, b)
           /\ UpTo(later, window, S, b) = UpTo(rows, window, S, b)
  <1>1. \A i \in window : Place(later, window, i) = Place(rows, window, i)
    BY PlaceSame
  <1> QED
    BY <1>1 DEF After, UpTo

----------------------------------------------------------------------------
(* Arithmetic of pages. *)

LEMMA DivBounds ==
    ASSUME NEW n \in Nat \ {0}, NEW a \in Int
    PROVE  a \div n \in Int /\ n * (a \div n) <= a /\ a < n * (a \div n) + n
  OBVIOUS

\* The pages hold the rows counted, and there are no more of them than rows.
LEMMA PagesFacts ==
    ASSUME NEW total \in Nat
    PROVE  /\ Pages(total) \in Nat \ {0} /\ total <= Pages(total) * PerPage
           /\ Pages(total) = 1 \/ Pages(total) <= total
  <1> DEFINE a == total + PerPage - 1
             q == a \div PerPage
  <1>1. PerPage \in Nat \ {0}
    BY ListingAssumption
  <1>2. CASE total = 0
    <2>1. Pages(total) = 1
      BY <1>2 DEF Pages
    <2> QED
      BY <1>1, <1>2, <2>1
  <1>3. CASE total # 0
    <2>1. a \in Int
      BY <1>1
    <2>2. q \in Int /\ PerPage * q <= a /\ a < PerPage * q + PerPage
      BY <1>1, <2>1, DivBounds
    <2>3. a = total + PerPage - 1
      OBVIOUS
    <2>4. Pages(total) = q
      BY <1>3 DEF Pages
    <2> HIDE DEF q, a
    <2>5. total <= PerPage * q
      BY <1>1, <2>2, <2>3
    <2>6. q > 0
      BY <1>1, <1>3, <2>2, <2>5
    <2>7. q <= total
      <3> SUFFICES ASSUME q >= total + 1
                   PROVE  FALSE
        BY <2>2
      <3>1. PerPage * q >= PerPage * (total + 1)
        BY <1>1, <2>2
      <3>2. PerPage * (total + 1) = PerPage * total + PerPage /\ PerPage * total >= total
        BY <1>1
      <3>3. PerPage * total \in Int /\ PerPage * q \in Int
        BY <1>1, <2>2
      <3> QED
        BY <1>1, <2>2, <2>3, <3>1, <3>2, <3>3
    <2>8. q * PerPage = PerPage * q
      BY <1>1, <2>2
    <2> QED
      BY <2>2, <2>4, <2>5, <2>6, <2>7, <2>8
  <1> QED
    BY <1>2, <1>3

\* One page on is PerPage places on.
LEMMA OffsetFacts ==
    ASSUME NEW p \in Nat \ {0}
    PROVE  /\ (p - 1) * PerPage \in Nat /\ p * PerPage \in Nat
           /\ p * PerPage = (p - 1) * PerPage + PerPage
           /\ ((p + 1) - 1) * PerPage = (p - 1) * PerPage + PerPage
           /\ \A m \in Nat \ {0} : m <= p => (m - 1) * PerPage <= (p - 1) * PerPage
  <1>1. PerPage \in Nat \ {0}
    BY ListingAssumption
  <1>2. (p - 1) * PerPage \in Nat /\ p * PerPage \in Nat
    BY <1>1
  <1>3. p * PerPage = (p - 1) * PerPage + PerPage
    BY <1>1
  <1>4. (p + 1) - 1 = p
    OBVIOUS
  <1>5. ASSUME NEW m \in Nat \ {0}, m <= p
        PROVE  (m - 1) * PerPage <= (p - 1) * PerPage
    <2>1. m - 1 \in Nat /\ p - 1 \in Nat /\ m - 1 <= p - 1
      BY <1>5
    <2> QED
      BY <1>1, <2>1
  <1> QED
    BY <1>2, <1>3, <1>4, <1>5

----------------------------------------------------------------------------
(* What the steps do to the fields of a request and of a walk. *)

LEMMA ListFields ==
    ASSUME DOMAIN req = ReqFields
    PROVE  /\ List.states = req.states
           /\ List.before = IF req.pc = "rendered" /\ req.link # 0 THEN req.link ELSE req.before
  BY DEF List, ReqFields

LEMMA ListFieldsNext ==
    ASSUME DOMAIN req' = ReqFields
    PROVE  /\ List'.states = req'.states
           /\ List'.before = IF req'.pc = "rendered" /\ req'.link # 0 THEN req'.link ELSE req'.before
  BY DEF List, ReqFields

\* A window depends on the states and the time of a request alone.
LEMMA MatchingSame ==
    ASSUME NEW rows, NEW r, NEW s, r.states = s.states, r.before = s.before
    PROVE  Matching(rows, r) = Matching(rows, s)
  BY DEF Matching, Matches

LEMMA NoRequestFields ==
    /\ DOMAIN NoRequest = ReqFields
    /\ NoRequest.pc = "idle" /\ NoRequest.states = {} /\ NoRequest.page = 1 /\ NoRequest.before = 0
    /\ NoRequest.offset = 0 /\ NoRequest.total = 0 /\ NoRequest.pages = 1 /\ NoRequest.shown = {}
    /\ NoRequest.link = 0 /\ NoRequest.slipIn = 0 /\ NoRequest.slipOut = 0
  BY DEF NoRequest, ReqFields

LEMMA NoWalkFields ==
    /\ DOMAIN NoWalk = WalkFields
    /\ NoWalk.stage = "ready" /\ NoWalk.seen = {} /\ NoWalk.repeats = 0 /\ NoWalk.steady = {}
    /\ NoWalk.in = 0 /\ NoWalk.out = 0 /\ NoWalk.clamps = 0 /\ NoWalk.opened = 0
  BY DEF NoWalk, WalkFields

LEMMA WindowFacts ==
    ASSUME NEW link, clock \in Nat, link.before \in Nat
    PROVE  /\ link.before # 0 => Window(link) = link.before
           /\ Window(link) \in {link.before, clock}
           /\ clock # 0 /\ link.page > 1 => Window(link) # 0
  BY DEF Window

\* A request as it is parsed.
LEMMA ParseFields ==
    ASSUME NEW link, DOMAIN link = ReqFields, Parse(link)
    PROVE  /\ DOMAIN req' = ReqFields
           /\ req'.pc \in {"parsed", "groups"} /\ req'.states = link.states /\ req'.page = link.page
           /\ req'.before = Window(link) /\ req'.offset = (link.page - 1) * PerPage
           /\ req'.total = link.total /\ req'.pages = link.pages /\ req'.shown = {}
           /\ req'.link = 0 /\ req'.slipIn = 0 /\ req'.slipOut = 0
  <1> DEFINE w == Window(link)
             o == (link.page - 1) * PerPage
             pc == IF link.path = "failures" /\ ~link.pattern /\ link.view # "list" THEN "groups" ELSE "parsed"
  <1>1. req' = [link EXCEPT !.pc = pc, !.before = w, !.offset = o, !.shown = {},
                            !.link = 0, !.slipIn = 0, !.slipOut = 0]
    BY DEF Parse
  <1>2. pc \in {"parsed", "groups"}
    OBVIOUS
  <1> HIDE DEF w, o, pc
  <1>3. /\ DOMAIN req' = ReqFields
        /\ req'.pc = pc /\ req'.states = link.states /\ req'.page = link.page
        /\ req'.before = w /\ req'.offset = o
        /\ req'.total = link.total /\ req'.pages = link.pages /\ req'.shown = {}
        /\ req'.link = 0 /\ req'.slipIn = 0 /\ req'.slipOut = 0
    BY <1>1 DEF ReqFields
  <1> QED
    BY <1>2, <1>3 DEF w, o

LEMMA PageURLFields ==
    ASSUME NEW r, DOMAIN r = ReqFields, NEW page
    PROVE  /\ DOMAIN PageURL(r, page) = ReqFields
           /\ PageURL(r, page).states = r.states /\ PageURL(r, page).page = page
           /\ PageURL(r, page).before = r.link
           /\ PageURL(r, page).total = r.total /\ PageURL(r, page).pages = r.pages
  BY DEF PageURL, ReqFields

\* Any rows of the table have places.
LEMMA RowsTimed ==
    ASSUME NEW rows \in Seq(Row), NEW S \in SUBSET DOMAIN rows
    PROVE  Timed(rows, S)
  <1>1. DOMAIN rows = 1..Len(rows) /\ Len(rows) \in Nat
    OBVIOUS
  <1>2. IsFiniteSet(1..Len(rows))
    BY <1>1, FS_Interval
  <1>3. IsFiniteSet(S)
    BY <1>1, <1>2, FS_Subset
  <1>4. \A i \in S : i \in Nat /\ rows[i] \in Row
    BY <1>1
  <1> QED
    BY <1>3, <1>4 DEF Timed, Row

LEMMA MatchingTimed ==
    ASSUME NEW rows \in Seq(Row), NEW r
    PROVE  Timed(rows, Matching(rows, r)) /\ Matching(rows, r) \subseteq DOMAIN rows
  <1>1. Matching(rows, r) \in SUBSET DOMAIN rows
    BY DEF Matching
  <1> QED
    BY <1>1, RowsTimed

\* A job has one row, so a list is no longer than there are jobs.
LEMMA ListBounded ==
    ASSUME RowsInv, NEW S \in SUBSET DOMAIN stored
    PROVE  Cardinality(S) \in Nat /\ Cardinality(Jobs) \in Nat \ {0} /\ Cardinality(S) <= Cardinality(Jobs)
  <1> DEFINE f == [i \in S |-> stored[i].job]
  <1>1. IsFiniteSet(Jobs) /\ Jobs # {}
    BY ListingAssumption
  <1>2. \A i \in DOMAIN stored : stored[i].job \in Jobs
    <2>1. stored \in Seq(Row)
      BY DEF RowsInv
    <2>2. \A i \in DOMAIN stored : stored[i] \in Row
      BY <2>1
    <2> QED
      BY <2>2 DEF Row
  <1>3. f \in Injection(S, Jobs)
    BY <1>2 DEF RowsInv, Injection, IsInjective
  <1>4. IsFiniteSet(S) /\ Cardinality(S) <= Cardinality(Jobs)
    BY <1>1, <1>3, FS_Injection
  <1>5. Cardinality(S) \in Nat /\ Cardinality(Jobs) \in Nat /\ Cardinality(Jobs) # 0
    BY <1>1, <1>4, FS_CardinalityType, FS_EmptySet
  <1> QED
    BY <1>4, <1>5

LEMMA EmptyCounts ==
    ASSUME NEW rows, NEW window, NEW b
    PROVE  /\ Cardinality(After(rows, window, {}, b)) = 0
           /\ Cardinality(UpTo(rows, window, {}, b)) = 0
  <1>1. After(rows, window, {}, b) = {} /\ UpTo(rows, window, {}, b) = {}
    BY DEF After, UpTo
  <1> QED
    BY <1>1, FS_EmptySet

\* A walk that has not begun keeps its part of the invariant whatever its list is.
LEMMA ReadyWalk ==
    ASSUME walk.stage = "ready", walk.seen = {}, walk.steady = {}, walk.repeats = 0,
           walk.in = 0, walk.out = 0, walk.clamps \in Nat, req.pc \notin {"fetched", "rendered"}
    PROVE  WalkInv
  <1>1. PerPage \in Nat
    BY ListingAssumption
  <1>2. PerPage * walk.clamps \in Nat
    BY <1>1
  <1>3. /\ Cardinality(After(stored, Win, walk.seen, Edge)) = 0
        /\ Cardinality(UpTo(stored, Win, walk.steady \ walk.seen, Edge)) = 0
    <2>1. walk.steady \ walk.seen = {}
      OBVIOUS
    <2> QED
      BY <2>1, EmptyCounts
  <1> QED
    BY <1>2, <1>3 DEF WalkInv

LEMMA ReadyWalkNext ==
    ASSUME walk'.stage = "ready", walk'.seen = {}, walk'.steady = {}, walk'.repeats = 0,
           walk'.in = 0, walk'.out = 0, walk'.clamps \in Nat, req'.pc \notin {"fetched", "rendered"}
    PROVE  WalkInv'
  <1>1. PerPage \in Nat
    BY ListingAssumption
  <1>2. PerPage * walk'.clamps \in Nat
    BY <1>1
  <1>3. /\ Cardinality(After(stored', Win', walk'.seen, Edge')) = 0
        /\ Cardinality(UpTo(stored', Win', walk'.steady \ walk'.seen, Edge')) = 0
    <2>1. walk'.steady \ walk'.seen = {}
      OBVIOUS
    <2> QED
      BY <2>1, EmptyCounts
  <1> QED
    BY <1>2, <1>3 DEF WalkInv

----------------------------------------------------------------------------
(* The reader's steps keep the invariant. *)

LEMMA ListingInit == Init => ListingInv
  <1> SUFFICES ASSUME Init
               PROVE  ListingInv
    OBVIOUS
  <1>1. req = NoRequest /\ walk = NoWalk /\ clock = 1 /\ buffered = <<>> /\ stored = <<>>
    BY DEF Init
  <1>2. PerPage \in Nat \ {0} /\ MaxClock \in Nat \ {0} /\ IsFiniteSet(Jobs)
    BY ListingAssumption
  <1>3. stored \in Seq(Row) /\ DOMAIN stored = {} /\ DOMAIN buffered = {}
    BY <1>1
  <1>4. RowsInv
    BY <1>1, <1>2, <1>3 DEF RowsInv
  <1>5. ReqShape
    BY <1>1, NoRequestFields DEF ReqShape
  <1>6. WalkShape
    BY <1>1, NoWalkFields DEF WalkShape
  <1>7. PagingInv
    <2>1. Cardinality({}) = 0 /\ Cardinality(Jobs) \in Nat
      BY <1>2, FS_EmptySet, FS_CardinalityType
    <2> QED
      BY <1>1, <1>2, <2>1, NoRequestFields DEF PagingInv
  <1>8. FrozenInv
    BY <1>1, NoRequestFields, NoWalkFields DEF FrozenInv
  <1>9. WalkInv
    BY <1>1, NoRequestFields, NoWalkFields, ReadyWalk
  <1>10. PagesAreFull
    BY <1>1, NoRequestFields DEF PagesAreFull
  <1> QED
    BY <1>4, <1>5, <1>6, <1>7, <1>8, <1>9, <1>10 DEF ListingInv

\* A reader opens a list: a link of its own, with no window.
LEMMA OpenLink ==
    ASSUME OpenJobs \/ OpenFailures \/ OpenJSON
    PROVE  /\ req.pc = "idle" /\ UNCHANGED <<clock, buffered, stored, walk>>
           /\ \E link : /\ DOMAIN link = ReqFields /\ Parse(link)
                        /\ link.states \in {{}, {"active"}, {"failed"}} /\ link.page \in {1, 2}
                        /\ link.before = 0 /\ link.total = 0 /\ link.pages = 1
  <1>1. CASE OpenJobs
    <2>1. PICK link \in {[states |-> {}, page |-> 1], [states |-> {}, page |-> 2],
                         [states |-> {"active"}, page |-> 1]} :
              Parse([NoRequest EXCEPT !.states = link.states, !.page = link.page])
      BY <1>1 DEF OpenJobs
    <2> DEFINE l == [NoRequest EXCEPT !.states = link.states, !.page = link.page]
    <2>2. link.states \in {{}, {"active"}} /\ link.page \in {1, 2}
      BY <2>1
    <2>3. /\ DOMAIN l = ReqFields /\ l.states = link.states /\ l.page = link.page
          /\ l.before = 0 /\ l.total = 0 /\ l.pages = 1
      BY NoRequestFields DEF ReqFields
    <2>4. Parse(l)
      BY <2>1
    <2> HIDE DEF l
    <2> QED
      BY <1>1, <2>2, <2>3, <2>4 DEF OpenJobs
  <1>2. CASE OpenFailures
    <2>1. PICK family \in BOOLEAN, view \in {"groups", "list"} :
              Parse([NoRequest EXCEPT !.path = "failures", !.states = FailureStates,
                                      !.pattern = family, !.view = view])
      BY <1>2 DEF OpenFailures
    <2> DEFINE l == [NoRequest EXCEPT !.path = "failures", !.states = FailureStates,
                                      !.pattern = family, !.view = view]
    <2>2. /\ DOMAIN l = ReqFields /\ l.states = {"failed"} /\ l.page = 1
          /\ l.before = 0 /\ l.total = 0 /\ l.pages = 1
      BY NoRequestFields DEF ReqFields, FailureStates
    <2>3. Parse(l)
      BY <2>1
    <2> HIDE DEF l
    <2> QED
      BY <1>2, <2>2, <2>3 DEF OpenFailures
  <1>3. CASE OpenJSON
    <2> DEFINE l == [NoRequest EXCEPT !.api = TRUE]
    <2>1. /\ DOMAIN l = ReqFields /\ l.states = {} /\ l.page = 1
          /\ l.before = 0 /\ l.total = 0 /\ l.pages = 1
      BY NoRequestFields DEF ReqFields
    <2>2. Parse(l)
      BY <1>3 DEF OpenJSON
    <2> HIDE DEF l
    <2> QED
      BY <1>3, <2>1, <2>2 DEF OpenJSON
  <1> QED
    BY <1>1, <1>2, <1>3

LEMMA OpenKeeps ==
    ASSUME ListingInv, OpenJobs \/ OpenFailures \/ OpenJSON
    PROVE  ListingInv'
  <1>1. PICK link : /\ DOMAIN link = ReqFields /\ Parse(link)
                    /\ link.states \in {{}, {"active"}, {"failed"}} /\ link.page \in {1, 2}
                    /\ link.before = 0 /\ link.total = 0 /\ link.pages = 1
    BY OpenLink
  <1>2. /\ req.pc = "idle" /\ UNCHANGED <<clock, buffered, stored, walk>>
    BY OpenLink
  <1>3. ReqShape /\ WalkShape /\ RowsInv /\ FrozenInv /\ WalkInv
    BY DEF ListingInv
  <1>4. clock \in Nat /\ PerPage \in Nat \ {0} /\ MaxClock \in Nat
    BY <1>3, ListingAssumption DEF RowsInv
  <1>5. Window(link) \in {0, clock}
    BY <1>1, <1>4, WindowFacts
  <1>6. /\ DOMAIN req' = ReqFields
        /\ req'.pc \in {"parsed", "groups"} /\ req'.states = link.states /\ req'.page = link.page
        /\ req'.before \in {0, clock} /\ req'.offset = (req'.page - 1) * PerPage
        /\ req'.total = 0 /\ req'.pages = 1 /\ req'.shown = {}
        /\ req'.link = 0 /\ req'.slipIn = 0 /\ req'.slipOut = 0
    BY <1>1, <1>5, ParseFields
  <1>7. req'.page \in Nat \ {0} /\ req'.offset \in Nat
    BY <1>1, <1>4, <1>6
  <1>8. ReqShape'
    BY <1>1, <1>4, <1>6, <1>7 DEF ReqShape
  <1>9. WalkShape' /\ RowsInv'
    BY <1>2, <1>3 DEF WalkShape, RowsInv
  <1>10. PagingInv'
    <2>1. Cardinality(Jobs) \in Nat \ {0}
      BY <1>3, ListBounded
    <2>2. Cardinality({}) = 0
      BY FS_EmptySet
    <2>3. req'.page <= Cardinality(Jobs) + 1
      BY <1>1, <1>6, <2>1
    <2>4. Cardinality(req'.shown) <= PerPage
      BY <1>4, <1>6, <2>2
    <2> QED
      BY <1>6, <2>3, <2>4 DEF PagingInv
  <1>11. walk.opened = 0 /\ walk.stage = "ready"
    BY <1>2, <1>3 DEF FrozenInv
  <1>12. FrozenInv'
    <2>1. clock # 0
      BY <1>3, ListingAssumption DEF RowsInv
    <2>2. req'.page > 1 => req'.before # 0
      BY <1>1, <1>4, <1>6, <2>1, ParseFields, WindowFacts
    <2> QED
      BY <1>2, <1>4, <1>6, <1>11, <2>2 DEF FrozenInv
  <1>13. WalkInv'
    <2>1. /\ walk'.stage = "ready" /\ walk'.seen = {} /\ walk'.steady = {} /\ walk'.repeats = 0
          /\ walk'.in = 0 /\ walk'.out = 0 /\ walk'.clamps \in Nat /\ req'.pc \notin {"fetched", "rendered"}
      BY <1>2, <1>3, <1>6, <1>11 DEF WalkInv, WalkShape
    <2> QED
      BY <2>1, ReadyWalkNext
  <1>14. PagesAreFull'
    BY <1>6 DEF PagesAreFull
  <1> QED
    BY <1>8, <1>9, <1>10, <1>12, <1>13, <1>14 DEF ListingInv

\* The window of a request that is not rendered, and of the next state's.
LEMMA WinNow ==
    ASSUME DOMAIN req = ReqFields, req.pc # "rendered"
    PROVE  Win = Matching(stored, req)
  <1>1. List.states = req.states /\ List.before = req.before
    BY ListFields
  <1> QED
    BY <1>1, MatchingSame DEF Win

\* The list under way is the same: its states and its time are.
LEMMA WinSame ==
    ASSUME DOMAIN req = ReqFields, DOMAIN req' = ReqFields, stored' = stored, req'.states = req.states,
           List'.before = List.before
    PROVE  Win' = Win
  <1>1. List.states = req.states /\ List'.states = req'.states
    BY ListFields, ListFieldsNext
  <1>2. Matching(stored, List') = Matching(stored, List)
    BY <1>1, MatchingSame
  <1> QED
    BY <1>2 DEF Win

LEMMA CountFields ==
    ASSUME DOMAIN req = ReqFields, DOMAIN walk = WalkFields, Count,
           NEW total, total = Cardinality(Matching(stored, req)),
           NEW page, page = IF req.page > Pages(total) THEN Pages(total) ELSE req.page
    PROVE  /\ DOMAIN req' = ReqFields /\ DOMAIN walk' = WalkFields
           /\ req'.pc = "counted" /\ req'.total = total /\ req'.pages = Pages(total) /\ req'.page = page
           /\ req'.offset = (page - 1) * PerPage /\ req'.states = req.states /\ req'.before = req.before
           /\ req'.shown = req.shown /\ req'.link = req.link
           /\ req'.slipIn = req.slipIn /\ req'.slipOut = req.slipOut
           /\ walk'.stage = walk.stage /\ walk'.seen = walk.seen /\ walk'.steady = walk.steady
           /\ walk'.repeats = walk.repeats /\ walk'.in = walk.in /\ walk'.out = walk.out
           /\ walk'.opened = walk.opened
           /\ walk'.clamps = IF page < req.page THEN walk.clamps + 1 ELSE walk.clamps
  <1> DEFINE pages == Pages(total)
             offset == (page - 1) * PerPage
             clamps == IF page < req.page THEN walk.clamps + 1 ELSE walk.clamps
  <1>1. req' = [req EXCEPT !.pc = "counted", !.total = total, !.pages = pages,
                           !.page = page, !.offset = offset]
    BY DEF Count
  <1>2. walk' = [walk EXCEPT !.clamps = clamps]
    BY DEF Count
  <1> HIDE DEF pages, offset, clamps
  <1>3. /\ DOMAIN req' = ReqFields
        /\ req'.pc = "counted" /\ req'.total = total /\ req'.pages = pages /\ req'.page = page
        /\ req'.offset = offset /\ req'.states = req.states /\ req'.before = req.before
        /\ req'.shown = req.shown /\ req'.link = req.link
        /\ req'.slipIn = req.slipIn /\ req'.slipOut = req.slipOut
    BY <1>1 DEF ReqFields
  <1>4. /\ DOMAIN walk' = WalkFields
        /\ walk'.stage = walk.stage /\ walk'.seen = walk.seen /\ walk'.steady = walk.steady
        /\ walk'.repeats = walk.repeats /\ walk'.in = walk.in /\ walk'.out = walk.out
        /\ walk'.opened = walk.opened /\ walk'.clamps = clamps
    BY <1>2 DEF WalkFields
  <1> QED
    BY <1>3, <1>4 DEF pages, offset, clamps

LEMMA CountKeeps ==
    ASSUME ListingInv, Count
    PROVE  ListingInv'
  <1> DEFINE total == Cardinality(Matching(stored, req))
             pages == Pages(total)
             page == IF req.page > pages THEN pages ELSE req.page
  <1>1. /\ req.pc = "parsed" /\ UNCHANGED <<clock, buffered, stored>>
    BY DEF Count
  <1>2. ReqShape /\ WalkShape /\ RowsInv /\ PagingInv /\ FrozenInv /\ WalkInv
    BY DEF ListingInv
  <1>3. DOMAIN req = ReqFields /\ DOMAIN walk = WalkFields
    BY <1>2 DEF ReqShape, WalkShape
  <1>4. /\ DOMAIN req' = ReqFields /\ DOMAIN walk' = WalkFields
        /\ req'.pc = "counted" /\ req'.total = total /\ req'.pages = pages /\ req'.page = page
        /\ req'.offset = (page - 1) * PerPage /\ req'.states = req.states /\ req'.before = req.before
        /\ req'.shown = req.shown /\ req'.link = req.link
        /\ req'.slipIn = req.slipIn /\ req'.slipOut = req.slipOut
        /\ walk'.stage = walk.stage /\ walk'.seen = walk.seen /\ walk'.steady = walk.steady
        /\ walk'.repeats = walk.repeats /\ walk'.in = walk.in /\ walk'.out = walk.out
        /\ walk'.opened = walk.opened
        /\ walk'.clamps = IF page < req.page THEN walk.clamps + 1 ELSE walk.clamps
    BY <1>3, CountFields
  <1>5. PerPage \in Nat \ {0} /\ clock \in Nat
    BY <1>2, ListingAssumption DEF RowsInv
  <1>6. stored \in Seq(Row)
    BY <1>2 DEF RowsInv
  <1>7. Win = Matching(stored, req) /\ Timed(stored, Win) /\ Win \subseteq DOMAIN stored
    BY <1>1, <1>3, <1>6, WinNow, MatchingTimed
  <1>8. total = Cardinality(Win)
    BY <1>7
  <1>9. /\ total \in Nat /\ Cardinality(Jobs) \in Nat \ {0} /\ total <= Cardinality(Jobs)
    BY <1>2, <1>7, <1>8, ListBounded
  <1>10. /\ pages \in Nat \ {0} /\ total <= pages * PerPage /\ pages <= Cardinality(Jobs)
    BY <1>9, PagesFacts
  <1>11. req.page \in Nat \ {0} /\ req.slipIn = 0 /\ req.slipOut = 0 /\ req.offset = (req.page - 1) * PerPage
    BY <1>1, <1>2 DEF ReqShape, PagingInv
  <1>12. page = IF req.page > pages THEN pages ELSE req.page
    OBVIOUS
  <1> HIDE DEF total, pages, page
  <1>13. page \in Nat \ {0} /\ page <= pages /\ page <= req.page /\ (page < req.page => page = pages)
    BY <1>10, <1>11, <1>12
  <1>14. (page - 1) * PerPage \in Nat /\ (page - 1) * PerPage <= (req.page - 1) * PerPage
    BY <1>11, <1>13, OffsetFacts
  <1>15. Win' = Win
    <2>1. List.before = req.before /\ List'.before = req'.before
      BY <1>1, <1>3, <1>4, ListFields, ListFieldsNext
    <2> QED
      BY <1>1, <1>3, <1>4, <2>1, WinSame
  <1>16. ReqShape'
    BY <1>1, <1>2, <1>4, <1>9, <1>10, <1>13, <1>14 DEF ReqShape
  <1>17. WalkShape' /\ RowsInv'
    BY <1>1, <1>2, <1>4 DEF WalkShape, RowsInv
  <1>18. PagingInv'
    <2>1. Cardinality(Win') + req'.slipOut = req'.total + req'.slipIn
      BY <1>4, <1>8, <1>9, <1>11, <1>15
    <2>2. req'.page <= Cardinality(Jobs) + 1 /\ req'.page <= req'.pages
      BY <1>4, <1>9, <1>10, <1>13
    <2> QED
      BY <1>2, <1>4, <1>10, <2>1, <2>2 DEF PagingInv
  <1>19. FrozenInv'
    <2>1. req'.page > 1 => req.page > 1
      BY <1>4, <1>10, <1>11, <1>13
    <2> QED
      BY <1>1, <1>2, <1>4, <2>1 DEF FrozenInv
  <1>20. WalkInv'
    <2>1. Edge = req.offset /\ Edge' = req'.offset
      BY <1>1, <1>4 DEF Edge
    <2>2. Edge \in Nat /\ Edge' \in Nat /\ Edge' <= Edge
      BY <1>4, <1>11, <1>14, <2>1, OffsetFacts
    <2>3. /\ walk.repeats \in Nat /\ walk.in \in Nat /\ walk.out \in Nat /\ walk.clamps \in Nat
      BY <1>2 DEF WalkShape
    <2> DEFINE A == After(stored, Win, walk.seen, Edge)
               B == After(stored, Win, walk.seen, Edge')
               U == UpTo(stored, Win, walk.steady \ walk.seen, Edge)
               V == UpTo(stored, Win, walk.steady \ walk.seen, Edge')
    <2>4. /\ Cardinality(A) \in Nat /\ Cardinality(B) \in Nat /\ Cardinality(U) \in Nat
          /\ Cardinality(V) \in Nat /\ IsFiniteSet(U)
      BY <1>7, PartsFinite
    <2>5. walk.repeats + Cardinality(A) <= walk.in + PerPage * walk.clamps /\ Cardinality(U) <= walk.out
      BY <1>2 DEF WalkInv
    <2>6. walk.repeats + Cardinality(B) <= walk.in + PerPage * walk'.clamps
      <3>1. CASE page < req.page
        <4>1. Cardinality(B) = 0 \/ Cardinality(B) <= total - Edge'
          BY <1>7, <1>8, <2>2, AfterBound
        <4>2. total <= Edge' + PerPage
          BY <1>4, <1>10, <1>13, <2>1, <3>1, OffsetFacts
        <4>3. Cardinality(B) <= PerPage
          BY <1>5, <1>9, <2>2, <2>4, <4>1, <4>2
        <4>4. walk'.clamps = walk.clamps + 1
          BY <1>4, <3>1
        <4>5. PerPage * walk'.clamps = PerPage * walk.clamps + PerPage /\ PerPage * walk.clamps \in Nat
          BY <1>5, <2>3, <4>4
        <4> QED
          BY <1>5, <2>3, <2>4, <2>5, <4>3, <4>5
      <3>2. CASE ~(page < req.page)
        <4>1. page = req.page /\ walk'.clamps = walk.clamps
          BY <1>4, <1>11, <1>13, <3>2
        <4>2. Edge' = Edge
          BY <1>4, <1>11, <2>1, <4>1
        <4> QED
          BY <2>5, <4>1, <4>2
      <3> QED
        BY <3>1, <3>2
    <2>7. Cardinality(V) <= walk.out
      <3>1. \A i \in Win : Place(stored, Win, i) \in Int
        BY <1>7, PlaceBounds
      <3>2. V \subseteq U
        BY <2>2, <3>1 DEF UpTo
      <3>3. Cardinality(V) <= Cardinality(U)
        BY <2>4, <3>2, FS_Subset
      <3> QED
        BY <2>3, <2>4, <2>5, <3>3
    <2>8. req'.states = {"failed"} => \A i \in walk'.seen : stored'[i].state # "active"
      BY <1>1, <1>2, <1>4 DEF WalkInv
    <2>9. walk'.steady \subseteq Win' /\ req'.pc \notin {"fetched", "rendered"}
      BY <1>2, <1>4, <1>15 DEF WalkInv
    <2>10. walk'.stage = "ready" => /\ walk'.seen = {} /\ walk'.steady = {}
                                    /\ walk'.repeats = 0 /\ walk'.in = 0 /\ walk'.out = 0
      BY <1>2, <1>4 DEF WalkInv
    <2>11. /\ walk'.repeats + Cardinality(After(stored', Win', walk'.seen, Edge')) <= walk'.in + PerPage * walk'.clamps
           /\ Cardinality(UpTo(stored', Win', walk'.steady \ walk'.seen, Edge')) <= walk'.out
      BY <1>1, <1>4, <1>15, <2>6, <2>7
    <2> QED
      BY <2>8, <2>9, <2>10, <2>11 DEF WalkInv
  <1>21. PagesAreFull'
    BY <1>4 DEF PagesAreFull
  <1> QED
    BY <1>16, <1>17, <1>18, <1>19, <1>20, <1>21 DEF ListingInv

LEMMA FetchFields ==
    ASSUME DOMAIN req = ReqFields, DOMAIN walk = WalkFields, Fetch,
           NEW window, window = Matching(stored, req),
           NEW shown, shown = InPlaces(stored, window, req.offset, req.offset + PerPage),
           NEW rest, rest = {i \in window : Place(stored, window, i) > req.offset}
    PROVE  /\ DOMAIN req' = ReqFields /\ DOMAIN walk' = WalkFields
           /\ req'.pc = "fetched" /\ req'.total = req.total /\ req'.pages = req.pages /\ req'.page = req.page
           /\ req'.offset = req.offset /\ req'.states = req.states /\ req'.before = req.before
           /\ req'.shown = shown /\ req'.link = req.link
           /\ req'.slipIn = req.slipIn /\ req'.slipOut = req.slipOut
           /\ walk'.stage = "walking" /\ walk'.in = walk.in /\ walk'.out = walk.out
           /\ walk'.opened = walk.opened
           /\ walk.stage = "walking" =>
                /\ walk'.seen = walk.seen \union shown /\ walk'.steady = walk.steady
                /\ walk'.repeats = walk.repeats + Cardinality(shown \intersect walk.seen)
                /\ walk'.clamps = walk.clamps
           /\ walk.stage # "walking" =>
                /\ walk'.seen = shown /\ walk'.steady = rest
                /\ walk'.repeats = walk.repeats /\ walk'.clamps = 0
  <1>1. shown = Page(stored, req)
    BY DEF Page, InPlaces
  <1>2. req' = [req EXCEPT !.pc = "fetched", !.shown = shown]
    BY <1>1 DEF Fetch
  <1>3. /\ DOMAIN req' = ReqFields
        /\ req'.pc = "fetched" /\ req'.total = req.total /\ req'.pages = req.pages /\ req'.page = req.page
        /\ req'.offset = req.offset /\ req'.states = req.states /\ req'.before = req.before
        /\ req'.shown = shown /\ req'.link = req.link
        /\ req'.slipIn = req.slipIn /\ req'.slipOut = req.slipOut
    BY <1>2 DEF ReqFields
  <1> DEFINE seen == walk.seen \union shown
             repeats == walk.repeats + Cardinality(shown \intersect walk.seen)
  <1>4. CASE walk.stage = "walking"
    <2>1. walk' = [walk EXCEPT !.seen = seen, !.repeats = repeats]
      BY <1>1, <1>4 DEF Fetch
    <2> HIDE DEF seen, repeats
    <2>2. /\ DOMAIN walk' = WalkFields /\ walk'.stage = walk.stage /\ walk'.in = walk.in
          /\ walk'.out = walk.out /\ walk'.opened = walk.opened /\ walk'.seen = seen
          /\ walk'.steady = walk.steady /\ walk'.repeats = repeats /\ walk'.clamps = walk.clamps
      BY <2>1 DEF WalkFields
    <2> QED
      BY <1>3, <1>4, <2>2 DEF seen, repeats
  <1>5. CASE walk.stage # "walking"
    <2>1. walk' = [walk EXCEPT !.stage = "walking", !.seen = shown, !.steady = rest, !.clamps = 0]
      BY <1>1, <1>5 DEF Fetch
    <2>2. /\ DOMAIN walk' = WalkFields /\ walk'.stage = "walking" /\ walk'.in = walk.in
          /\ walk'.out = walk.out /\ walk'.opened = walk.opened /\ walk'.seen = shown
          /\ walk'.steady = rest /\ walk'.repeats = walk.repeats /\ walk'.clamps = 0
      BY <2>1 DEF WalkFields
    <2> QED
      BY <1>3, <1>5, <2>2
  <1> QED
    BY <1>4, <1>5

\* The counts of a walk that goes on: what it repeats lay ahead of it, and what it
\* passes over it has now shown.
LEMMA FetchOn ==
    ASSUME NEW rows, NEW window, Timed(rows, window), NEW S, NEW T, NEW c \in Nat, NEW n \in Nat,
           NEW shown, shown = InPlaces(rows, window, c, c + n)
    PROVE  /\ Cardinality(shown \intersect S) + Cardinality(After(rows, window, S \union shown, c + n))
                <= Cardinality(After(rows, window, S, c))
           /\ Cardinality(UpTo(rows, window, T \ (S \union shown), c + n))
                <= Cardinality(UpTo(rows, window, T \ S, c))
           /\ Cardinality(shown \intersect S) \in Nat
  <1> DEFINE A == After(rows, window, S, c)
             B == After(rows, window, S \union shown, c + n)
             R == shown \intersect S
             U == UpTo(rows, window, T \ S, c)
             V == UpTo(rows, window, T \ (S \union shown), c + n)
  <1>1. \A i \in window : Place(rows, window, i) \in Int
    BY PlaceBounds
  <1>2. R \union B \subseteq A /\ R \intersect B = {}
    BY <1>1 DEF InPlaces, After
  <1>3. V \subseteq U
    BY <1>1 DEF InPlaces, UpTo
  <1>4. IsFiniteSet(A) /\ IsFiniteSet(B) /\ IsFiniteSet(U) /\ Cardinality(A) \in Nat
    BY PartsFinite
  <1>5. IsFiniteSet(R)
    BY <1>2, <1>4, FS_Subset
  <1> HIDE DEF A, B, R, U, V
  <1>6. /\ Cardinality(R \union B) = Cardinality(R) + Cardinality(B) /\ Cardinality(R) \in Nat
    BY <1>2, <1>4, <1>5, CardUnion
  <1>7. Cardinality(R \union B) <= Cardinality(A)
    BY <1>2, <1>4, FS_Subset
  <1>8. Cardinality(V) <= Cardinality(U)
    BY <1>3, <1>4, FS_Subset
  <1> QED
    BY <1>6, <1>7, <1>8 DEF A, B, R, U, V

\* The counts of a walk that begins.
LEMMA FetchFirst ==
    ASSUME NEW rows, NEW window, Timed(rows, window), NEW c \in Nat, NEW n \in Nat,
           NEW shown, shown = InPlaces(rows, window, c, c + n),
           NEW rest, rest = {i \in window : Place(rows, window, i) > c}
    PROVE  /\ Cardinality(After(rows, window, shown, c + n)) = 0
           /\ Cardinality(UpTo(rows, window, rest \ shown, c + n)) = 0
  <1>1. \A i \in window : Place(rows, window, i) \in Int
    BY PlaceBounds
  <1>2. After(rows, window, shown, c + n) = {}
    BY <1>1 DEF InPlaces, After
  <1>3. UpTo(rows, window, rest \ shown, c + n) = {}
    BY <1>1 DEF InPlaces, UpTo
  <1> QED
    BY <1>2, <1>3, FS_EmptySet

\* On the last page: what was there all along and is not shown was passed over, or lies
\* past the last page.
LEMMA LastPage ==
    ASSUME NEW rows, NEW window, Timed(rows, window), NEW T \in SUBSET window, NEW b \in Nat
    PROVE  /\ Cardinality(T) \in Nat
           /\ \/ Cardinality(T) <= Cardinality(UpTo(rows, window, T, b))
              \/ Cardinality(T) <= Cardinality(UpTo(rows, window, T, b)) + (Cardinality(window) - b)
  <1> DEFINE A == After(rows, window, T, b)
             U == UpTo(rows, window, T, b)
  <1>1. \A i \in window : Place(rows, window, i) \in Int
    BY PlaceBounds
  <1>2. T = U \union A
    BY <1>1 DEF UpTo, After
  <1>3. /\ IsFiniteSet(A) /\ IsFiniteSet(U) /\ Cardinality(A) \in Nat /\ Cardinality(U) \in Nat
        /\ Cardinality(window) \in Nat
    BY PartsFinite
  <1>4. Cardinality(A) = 0 \/ Cardinality(A) <= Cardinality(window) - b
    BY AfterBound
  <1> HIDE DEF A, U
  <1>5. Cardinality(T) \in Nat /\ Cardinality(T) <= Cardinality(U) + Cardinality(A)
    BY <1>2, <1>3, CardUnion
  <1>6. \/ Cardinality(T) <= Cardinality(U)
        \/ Cardinality(T) <= Cardinality(U) + (Cardinality(window) - b)
    BY <1>3, <1>4, <1>5
  <1> QED
    BY <1>5, <1>6 DEF U

LEMMA FetchKeeps ==
    ASSUME ListingInv, Fetch
    PROVE  ListingInv'
  <1> DEFINE window == Matching(stored, req)
             shown == InPlaces(stored, window, req.offset, req.offset + PerPage)
             rest == {i \in window : Place(stored, window, i) > req.offset}
  <1>1. req.pc = "counted" /\ UNCHANGED <<clock, buffered, stored>>
    BY DEF Fetch
  <1>2. ReqShape /\ WalkShape /\ RowsInv /\ PagingInv /\ FrozenInv /\ WalkInv
    BY DEF ListingInv
  <1>3. DOMAIN req = ReqFields /\ DOMAIN walk = WalkFields
    BY <1>2 DEF ReqShape, WalkShape
  <1>4. /\ DOMAIN req' = ReqFields /\ DOMAIN walk' = WalkFields
        /\ req'.pc = "fetched" /\ req'.total = req.total /\ req'.pages = req.pages /\ req'.page = req.page
        /\ req'.offset = req.offset /\ req'.states = req.states /\ req'.before = req.before
        /\ req'.shown = shown /\ req'.link = req.link
        /\ req'.slipIn = req.slipIn /\ req'.slipOut = req.slipOut
        /\ walk'.stage = "walking" /\ walk'.in = walk.in /\ walk'.out = walk.out
        /\ walk'.opened = walk.opened
        /\ walk.stage = "walking" =>
             /\ walk'.seen = walk.seen \union shown /\ walk'.steady = walk.steady
             /\ walk'.repeats = walk.repeats + Cardinality(shown \intersect walk.seen)
             /\ walk'.clamps = walk.clamps
        /\ walk.stage # "walking" =>
             /\ walk'.seen = shown /\ walk'.steady = rest
             /\ walk'.repeats = walk.repeats /\ walk'.clamps = 0
    BY <1>3, FetchFields
  <1>5. PerPage \in Nat \ {0} /\ clock \in Nat /\ stored \in Seq(Row)
    BY <1>2, ListingAssumption DEF RowsInv
  <1>6. /\ req.offset \in Nat /\ req.total \in Nat /\ req.pages \in Nat /\ req.page \in Nat \ {0}
        /\ req.slipIn \in Nat /\ req.slipOut \in Nat /\ req.before \in Nat
    BY <1>2 DEF ReqShape
  <1>7. /\ walk.repeats \in Nat /\ walk.in \in Nat /\ walk.out \in Nat /\ walk.clamps \in Nat
        /\ walk.opened \in Nat
    BY <1>2 DEF WalkShape
  <1>8. Win = window /\ Timed(stored, window) /\ window \subseteq DOMAIN stored
    BY <1>1, <1>3, <1>5, WinNow, MatchingTimed
  <1>9. Win' = window
    <2>1. List.before = req.before /\ List'.before = req'.before
      BY <1>1, <1>3, <1>4, ListFields, ListFieldsNext
    <2> QED
      BY <1>1, <1>3, <1>4, <1>8, <2>1, WinSame
  <1>10. shown \subseteq window /\ rest \subseteq window
    BY DEF InPlaces
  <1>11. Cardinality(shown) \in Nat /\ Cardinality(shown) <= PerPage
    BY <1>5, <1>6, <1>8, PageBound
  <1>12. \A i \in window : /\ req.states = {"failed"} => stored[i].state # "active"
                           /\ req.before # 0 => stored[i].at <= req.before
    BY DEF Matching, Matches
  <1>13. walk'.seen \subseteq walk.seen \union shown
    BY <1>4
  <1>14. walk.stage # "walking" => walk.stage = "ready"
    BY <1>2 DEF WalkShape
  <1>15. \/ Cardinality(shown) >= PerPage
         \/ Cardinality(shown) >= Cardinality(window) - req.offset
    BY <1>5, <1>6, <1>8, PageFull
  <1>16. Cardinality(window) \in Nat /\ Cardinality(window) + req.slipOut = req.total + req.slipIn
    BY <1>1, <1>2, <1>8, PartsFinite DEF PagingInv
  <1>17. req.offset = (req.page - 1) * PerPage /\ req.page <= req.pages /\ req.total <= req.pages * PerPage
    BY <1>1, <1>2 DEF PagingInv
  <1>18. Edge = req.offset /\ Edge' = req.offset + PerPage
    BY <1>1, <1>4 DEF Edge
  <1> HIDE DEF window, shown, rest
  <1>19. ReqShape'
    BY <1>1, <1>2, <1>4, <1>8, <1>10 DEF ReqShape
  <1>20. WalkShape'
    <2>1. walk'.repeats \in Nat /\ walk'.clamps \in Nat
      <3>1. CASE walk.stage = "walking"
        <4>1. Cardinality(shown \intersect walk.seen) \in Nat
          BY <1>5, <1>6, <1>8, FetchOn DEF shown
        <4> QED
          BY <1>4, <1>7, <3>1, <4>1
      <3>2. CASE walk.stage # "walking"
        BY <1>4, <1>7, <3>2
      <3> QED
        BY <3>1, <3>2
    <2>2. walk'.seen \subseteq DOMAIN stored' /\ walk'.steady \subseteq DOMAIN stored'
      BY <1>1, <1>2, <1>4, <1>8, <1>10 DEF WalkShape
    <2> QED
      BY <1>4, <1>7, <2>1, <2>2 DEF WalkShape
  <1>21. RowsInv'
    BY <1>1, <1>2 DEF RowsInv
  <1>22. PagingInv'
    BY <1>1, <1>2, <1>4, <1>11 DEF PagingInv
  <1>23. FrozenInv'
    BY <1>1, <1>2, <1>4 DEF FrozenInv
  <1>25. PagesAreFull'
    <2>1. \/ Cardinality(shown) + req.slipOut >= PerPage
          \/ Cardinality(shown) + req.slipOut >= req.total - req.offset
      <3>1. CASE Cardinality(shown) >= PerPage
        BY <1>5, <1>6, <1>11, <3>1
      <3>2. CASE Cardinality(shown) >= Cardinality(window) - req.offset
        BY <1>6, <1>11, <1>16, <3>2
      <3> QED
        BY <1>15, <3>1, <3>2
    <2>2. req.total - req.offset \in Int /\ Cardinality(shown) + req.slipOut \in Int
      BY <1>6, <1>11
    <2>3. Cardinality(shown) + req.slipOut >=
              (IF req.total - req.offset < PerPage THEN req.total - req.offset ELSE PerPage)
      BY <1>5, <2>1, <2>2
    <2> QED
      BY <1>4, <1>17, <2>3 DEF PagesAreFull
  <1>26. WalkInv'
    <2> DEFINE A == After(stored, window, walk'.seen, Edge')
               U == UpTo(stored, window, walk'.steady \ walk'.seen, Edge')
    <2>1. walk'.steady \subseteq window
      BY <1>2, <1>4, <1>8, <1>10 DEF WalkInv
    <2>2. req.states = {"failed"} => \A i \in walk'.seen : stored[i].state # "active"
      BY <1>2, <1>10, <1>12, <1>13 DEF WalkInv
    <2>3. Cardinality(A) \in Nat /\ Cardinality(U) \in Nat
      BY <1>8, PartsFinite
    <2>4. /\ walk'.repeats + Cardinality(A) <= walk.in + PerPage * walk'.clamps
          /\ Cardinality(U) <= walk.out
      <3>1. CASE walk.stage = "walking"
        <4> DEFINE A0 == After(stored, window, walk.seen, req.offset)
                   U0 == UpTo(stored, window, walk.steady \ walk.seen, req.offset)
                   R == shown \intersect walk.seen
        <4>1. walk.repeats + Cardinality(A0) <= walk.in + PerPage * walk.clamps /\ Cardinality(U0) <= walk.out
          BY <1>2, <1>8, <1>18 DEF WalkInv
        <4>2. /\ Cardinality(R) + Cardinality(A) <= Cardinality(A0) /\ Cardinality(U) <= Cardinality(U0)
              /\ Cardinality(R) \in Nat
          <5>1. walk'.seen = walk.seen \union shown /\ walk'.steady = walk.steady
            BY <1>4, <3>1
          <5> QED
            BY <1>5, <1>6, <1>8, <1>18, <5>1, FetchOn DEF shown
        <4>3. Cardinality(A0) \in Nat /\ Cardinality(U0) \in Nat
          BY <1>8, PartsFinite
        <4>4. PerPage * walk.clamps \in Nat
          BY <1>5, <1>7
        <4>5. walk'.repeats = walk.repeats + Cardinality(R) /\ walk'.clamps = walk.clamps
          BY <1>4, <3>1
        <4> HIDE DEF A, U, A0, U0, R
        <4> QED
          BY <1>7, <2>3, <4>1, <4>2, <4>3, <4>4, <4>5
      <3>2. CASE walk.stage # "walking"
        <4>1. walk'.seen = shown /\ walk'.steady = rest
          BY <1>4, <3>2
        <4>2. Cardinality(A) = 0 /\ Cardinality(U) = 0
          <5>1. PerPage \in Nat /\ req.offset \in Nat /\ Timed(stored, window)
            BY <1>5, <1>6, <1>8
          <5>2. /\ shown = InPlaces(stored, window, req.offset, req.offset + PerPage)
                /\ rest = {i \in window : Place(stored, window, i) > req.offset}
            BY DEF shown, rest
          <5>3. /\ Cardinality(After(stored, window, shown, req.offset + PerPage)) = 0
                /\ Cardinality(UpTo(stored, window, rest \ shown, req.offset + PerPage)) = 0
            BY <5>1, <5>2, FetchFirst
          <5> QED
            BY <1>18, <4>1, <5>3
        <4>3. walk'.repeats = 0 /\ walk'.clamps = 0
          BY <1>2, <1>4, <1>14, <3>2 DEF WalkInv
        <4> HIDE DEF A, U
        <4> QED
          BY <1>5, <1>7, <4>2, <4>3
      <3> QED
        BY <3>1, <3>2
    <2>5. req.page >= req.pages => Cardinality(walk'.steady \ walk'.seen) <= walk.out + req.slipIn
      <3> SUFFICES ASSUME req.page >= req.pages
                   PROVE  Cardinality(walk'.steady \ walk'.seen) <= walk.out + req.slipIn
        OBVIOUS
      <3> DEFINE T == walk'.steady \ walk'.seen
      <3>1. req.page = req.pages
        BY <1>6, <1>17
      <3>2. Edge' = req.pages * PerPage
        BY <1>6, <1>17, <1>18, <3>1, OffsetFacts
      <3>3. Edge' \in Nat
        BY <1>5, <1>6, <1>18
      <3>4. T \in SUBSET window
        BY <2>1
      <3>5. /\ Cardinality(T) \in Nat
            /\ \/ Cardinality(T) <= Cardinality(U)
               \/ Cardinality(T) <= Cardinality(U) + (Cardinality(window) - Edge')
        BY <1>8, <3>3, <3>4, LastPage
      <3>6. Cardinality(window) - Edge' <= req.slipIn
        BY <1>6, <1>16, <1>17, <3>2, <3>3
      <3> HIDE DEF U, T
      <3>7. Cardinality(T) <= walk.out + req.slipIn
        BY <1>6, <1>7, <1>16, <2>3, <2>4, <3>3, <3>5, <3>6
      <3> QED
        BY <3>7 DEF T
    <2>6. /\ walk'.repeats + Cardinality(After(stored', Win', walk'.seen, Edge')) <= walk'.in + PerPage * walk'.clamps
          /\ Cardinality(UpTo(stored', Win', walk'.steady \ walk'.seen, Edge')) <= walk'.out
      BY <1>1, <1>4, <1>9, <2>4
    <2>7. /\ walk'.stage = "walking" /\ walk'.steady \subseteq Win'
          /\ req'.states = {"failed"} => \A i \in walk'.seen : stored'[i].state # "active"
      BY <1>1, <1>4, <1>9, <2>1, <2>2
    <2>8. req'.page >= req'.pages => Cardinality(walk'.steady \ walk'.seen) <= walk'.out + req'.slipIn
      BY <1>4, <2>5
    <2> HIDE DEF A, U
    <2> QED
      BY <2>6, <2>7, <2>8 DEF WalkInv
  <1> QED
    BY <1>19, <1>20, <1>21, <1>22, <1>23, <1>25, <1>26 DEF ListingInv

LEMMA RenderFields ==
    ASSUME DOMAIN req = ReqFields, DOMAIN walk = WalkFields, Render
    PROVE  /\ DOMAIN req' = ReqFields /\ DOMAIN walk' = WalkFields
           /\ req'.pc = "rendered" /\ req'.total = req.total /\ req'.pages = req.pages /\ req'.page = req.page
           /\ req'.offset = req.offset /\ req'.states = req.states /\ req'.before = req.before
           /\ req'.shown = req.shown /\ req'.slipIn = req.slipIn /\ req'.slipOut = req.slipOut
           /\ req'.link = IF HasPrev(req) \/ HasNext(req) THEN LinkBefore(req) ELSE 0
           /\ walk'.stage = walk.stage /\ walk'.seen = walk.seen /\ walk'.steady = walk.steady
           /\ walk'.repeats = walk.repeats /\ walk'.in = walk.in /\ walk'.out = walk.out
           /\ walk'.clamps = walk.clamps
           /\ walk'.opened = IF walk.opened = 0 THEN clock ELSE walk.opened
  <1> DEFINE link == IF HasPrev(req) \/ HasNext(req) THEN LinkBefore(req) ELSE 0
             opened == IF walk.opened = 0 THEN clock ELSE walk.opened
  <1>1. req' = [req EXCEPT !.pc = "rendered", !.link = link]
    BY DEF Render
  <1>2. walk' = [walk EXCEPT !.opened = opened]
    BY DEF Render
  <1> HIDE DEF link, opened
  <1>3. /\ DOMAIN req' = ReqFields
        /\ req'.pc = "rendered" /\ req'.total = req.total /\ req'.pages = req.pages /\ req'.page = req.page
        /\ req'.offset = req.offset /\ req'.states = req.states /\ req'.before = req.before
        /\ req'.shown = req.shown /\ req'.slipIn = req.slipIn /\ req'.slipOut = req.slipOut
        /\ req'.link = link
    BY <1>1 DEF ReqFields
  <1>4. /\ DOMAIN walk' = WalkFields
        /\ walk'.stage = walk.stage /\ walk'.seen = walk.seen /\ walk'.steady = walk.steady
        /\ walk'.repeats = walk.repeats /\ walk'.in = walk.in /\ walk'.out = walk.out
        /\ walk'.clamps = walk.clamps /\ walk'.opened = opened
    BY <1>2 DEF WalkFields
  <1> QED
    BY <1>3, <1>4 DEF link, opened

\* The walk's part of the invariant speaks of the window, the edge and a few fields.
LEMMA WalkInvSame ==
    ASSUME WalkInv, stored' = stored, Win' = Win, Edge' = Edge, req'.states = req.states,
           walk'.stage = walk.stage, walk'.seen = walk.seen, walk'.steady = walk.steady,
           walk'.repeats = walk.repeats, walk'.in = walk.in, walk'.out = walk.out, walk'.clamps = walk.clamps,
           \/ req'.pc \notin {"fetched", "rendered"}
           \/ /\ req.pc \in {"fetched", "rendered"} /\ req'.page = req.page /\ req'.pages = req.pages
              /\ req'.slipIn = req.slipIn
    PROVE  WalkInv'
  BY DEF WalkInv

LEMMA RenderKeeps ==
    ASSUME ListingInv, Render
    PROVE  ListingInv'
  <1>1. req.pc = "fetched" /\ UNCHANGED <<clock, buffered, stored>>
    BY DEF Render
  <1>2. ReqShape /\ WalkShape /\ RowsInv /\ PagingInv /\ FrozenInv /\ WalkInv /\ PagesAreFull
    BY DEF ListingInv
  <1>3. DOMAIN req = ReqFields /\ DOMAIN walk = WalkFields
    BY <1>2 DEF ReqShape, WalkShape
  <1>4. /\ DOMAIN req' = ReqFields /\ DOMAIN walk' = WalkFields
        /\ req'.pc = "rendered" /\ req'.total = req.total /\ req'.pages = req.pages /\ req'.page = req.page
        /\ req'.offset = req.offset /\ req'.states = req.states /\ req'.before = req.before
        /\ req'.shown = req.shown /\ req'.slipIn = req.slipIn /\ req'.slipOut = req.slipOut
        /\ req'.link = IF HasPrev(req) \/ HasNext(req) THEN LinkBefore(req) ELSE 0
        /\ walk'.stage = walk.stage /\ walk'.seen = walk.seen /\ walk'.steady = walk.steady
        /\ walk'.repeats = walk.repeats /\ walk'.in = walk.in /\ walk'.out = walk.out
        /\ walk'.clamps = walk.clamps
        /\ walk'.opened = IF walk.opened = 0 THEN clock ELSE walk.opened
    BY <1>3, RenderFields
  <1>5. clock \in Nat \ {0} /\ PerPage \in Nat \ {0} /\ \A i \in DOMAIN stored : stored[i].at \in 1..clock
    BY <1>2, ListingAssumption DEF RowsInv
  <1>6. req.before \in Nat /\ req.before <= clock /\ walk.opened \in Nat /\ walk.opened <= clock
    BY <1>2 DEF ReqShape, WalkShape, FrozenInv
  <1>7. req'.link \in {0, req.before, clock}
        /\ (req.before # 0 => req'.link \in {0, req.before})
        /\ (req.page > 1 \/ req.page < req.pages => req'.link # 0)
    BY <1>4, <1>5, <1>6 DEF LinkBefore, HasPrev, HasNext
  <1>8. Win' = Win
    <2>1. List.states = req.states /\ List.before = req.before /\ List'.states = req.states
      BY <1>1, <1>3, <1>4, ListFields, ListFieldsNext
    <2>2. List'.before = req.before \/ (req.before = 0 /\ List'.before = clock)
      BY <1>3, <1>4, <1>7, ListFieldsNext
    <2>3. CASE List'.before = req.before
      BY <1>1, <1>3, <1>4, <2>1, <2>3, WinSame
    <2>4. CASE req.before = 0 /\ List'.before = clock
      <3>1. \A i \in DOMAIN stored : stored[i].at <= clock
        BY <1>5
      <3>2. Matching(stored, List') = Matching(stored, List)
        BY <2>1, <2>4, <3>1 DEF Matching, Matches
      <3> QED
        BY <1>1, <3>2 DEF Win
    <2> QED
      BY <2>2, <2>3, <2>4
  <1>9. ReqShape'
    BY <1>1, <1>2, <1>4, <1>5, <1>6, <1>7 DEF ReqShape
  <1>10. WalkShape'
    BY <1>1, <1>2, <1>4, <1>5, <1>6 DEF WalkShape
  <1>11. RowsInv'
    BY <1>1, <1>2 DEF RowsInv
  <1>12. PagingInv'
    BY <1>1, <1>2, <1>4 DEF PagingInv
  <1>13. FrozenInv'
    <2>1. walk'.opened # 0 /\ walk'.opened <= clock
      BY <1>4, <1>5, <1>6
    <2>2. req'.link <= walk'.opened /\ req'.link <= clock
      <3>1. CASE walk.opened = 0
        BY <1>4, <1>5, <1>6, <1>7, <3>1
      <3>2. CASE walk.opened # 0
        <4>1. req.before # 0 /\ req.before <= walk.opened
          BY <1>1, <1>2, <3>2 DEF FrozenInv
        <4> QED
          BY <1>4, <1>5, <1>6, <1>7, <3>2, <4>1
      <3> QED
        BY <3>1, <3>2
    <2>3. req.page > 1 => req.before # 0 /\ req.before <= walk'.opened
      <3>1. req.page > 1 => req.before # 0 /\ (walk.opened # 0 => req.before <= walk.opened)
        BY <1>2 DEF FrozenInv
      <3> QED
        BY <1>4, <1>5, <1>6, <3>1
    <2> QED
      BY <1>1, <1>4, <1>6, <1>7, <2>1, <2>2, <2>3 DEF FrozenInv
  <1>14. WalkInv'
    <2>1. Edge' = Edge
      BY <1>1, <1>4 DEF Edge
    <2> QED
      BY <1>1, <1>2, <1>4, <1>8, <2>1, WalkInvSame
  <1>15. PagesAreFull'
    BY <1>1, <1>2, <1>4 DEF PagesAreFull
  <1> QED
    BY <1>9, <1>10, <1>11, <1>12, <1>13, <1>14, <1>15 DEF ListingInv

\* A link followed, forward or back: the same window, read from the edge of the page it
\* leads to.
LEMMA FollowLink ==
    ASSUME ListingInv, req.pc = "rendered", NEW page \in Nat \ {0}, page <= Cardinality(Jobs) + 1,
           req.link # 0, Parse(PageURL(req, page)), UNCHANGED <<clock, buffered, stored>>
    PROVE  /\ ReqShape' /\ RowsInv' /\ PagingInv' /\ Win' = Win /\ PagesAreFull'
           /\ req'.pc \in {"parsed", "groups"} /\ req'.offset = (page - 1) * PerPage /\ req'.shown = {}
           /\ req'.before = req.link /\ req'.link = 0 /\ req'.states = req.states
  <1>1. ReqShape /\ RowsInv /\ PagingInv
    BY DEF ListingInv
  <1>2. DOMAIN req = ReqFields /\ req.link \in Nat
    BY <1>1 DEF ReqShape
  <1> DEFINE link == PageURL(req, page)
  <1>3. /\ DOMAIN link = ReqFields /\ link.states = req.states /\ link.page = page
        /\ link.before = req.link /\ link.total = req.total /\ link.pages = req.pages
    BY <1>2, PageURLFields
  <1>4. Parse(link)
    OBVIOUS
  <1> HIDE DEF link
  <1>5. clock \in Nat /\ PerPage \in Nat \ {0}
    BY <1>1, ListingAssumption DEF RowsInv
  <1>6. Window(link) = req.link
    BY <1>2, <1>3, <1>5, WindowFacts
  <1>7. /\ DOMAIN req' = ReqFields
        /\ req'.pc \in {"parsed", "groups"} /\ req'.states = req.states /\ req'.page = page
        /\ req'.before = req.link /\ req'.offset = (page - 1) * PerPage
        /\ req'.total = req.total /\ req'.pages = req.pages /\ req'.shown = {}
        /\ req'.link = 0 /\ req'.slipIn = 0 /\ req'.slipOut = 0
    BY <1>3, <1>4, <1>6, ParseFields
  <1>8. ReqShape'
    <2>1. (page - 1) * PerPage \in Nat
      BY OffsetFacts
    <2> QED
      BY <1>1, <1>7, <2>1 DEF ReqShape
  <1>9. RowsInv'
    BY <1>1 DEF RowsInv
  <1>10. PagingInv'
    <2>1. Cardinality({}) = 0
      BY FS_EmptySet
    <2>2. Cardinality(req'.shown) <= PerPage
      BY <1>5, <1>7, <2>1
    <2> QED
      BY <1>7, <2>2 DEF PagingInv
  <1>11. Win' = Win
    <2>1. List.before = req.link /\ List'.before = req.link
      BY <1>2, <1>7, ListFields, ListFieldsNext
    <2> QED
      BY <1>2, <1>7, <2>1, WinSame
  <1>12. PagesAreFull'
    BY <1>7 DEF PagesAreFull
  <1> QED
    BY <1>7, <1>8, <1>9, <1>10, <1>11, <1>12

LEMMA FollowNextKeeps ==
    ASSUME ListingInv, FollowNext
    PROVE  ListingInv'
  <1>1. /\ req.pc = "rendered" /\ req.page < req.pages /\ Parse(PageURL(req, req.page + 1))
        /\ UNCHANGED <<clock, buffered, stored, walk>>
    BY DEF FollowNext, HasNext
  <1>2. ReqShape /\ WalkShape /\ RowsInv /\ PagingInv /\ FrozenInv /\ WalkInv
    BY DEF ListingInv
  <1>3. req.page \in Nat \ {0} /\ req.pages \in Nat /\ req.pages <= Cardinality(Jobs)
        /\ req.offset = (req.page - 1) * PerPage
    BY <1>1, <1>2 DEF ReqShape, PagingInv
  <1>4. req.link # 0 /\ req.link <= walk.opened /\ req.link <= clock /\ walk.opened <= clock
    BY <1>1, <1>2 DEF FrozenInv
  <1>5. Cardinality(Jobs) \in Nat
    BY <1>2, ListBounded
  <1>6. req.page + 1 \in Nat \ {0} /\ req.page + 1 <= Cardinality(Jobs) + 1
    BY <1>1, <1>3, <1>5
  <1>7. /\ ReqShape' /\ RowsInv' /\ PagingInv' /\ Win' = Win /\ PagesAreFull'
        /\ req'.pc \in {"parsed", "groups"} /\ req'.offset = ((req.page + 1) - 1) * PerPage /\ req'.shown = {}
        /\ req'.before = req.link /\ req'.link = 0 /\ req'.states = req.states
    BY <1>1, <1>4, <1>6, FollowLink
  <1>8. clock \in Nat
    BY <1>2, ListingAssumption DEF RowsInv
  <1>9. WalkShape'
    BY <1>1, <1>2 DEF WalkShape
  <1>10. FrozenInv'
    BY <1>1, <1>4, <1>7, <1>8 DEF FrozenInv
  <1>11. WalkInv'
    <2>1. Edge' = Edge
      BY <1>1, <1>3, <1>7, OffsetFacts DEF Edge
    <2> QED
      BY <1>1, <1>2, <1>7, <2>1, WalkInvSame
  <1> QED
    BY <1>7, <1>9, <1>10, <1>11 DEF ListingInv

LEMMA FollowPrevKeeps ==
    ASSUME ListingInv, FollowPrev
    PROVE  ListingInv'
  <1>1. /\ req.pc = "rendered" /\ req.page > 1 /\ Parse(PageURL(req, req.page - 1))
        /\ walk' = [NoWalk EXCEPT !.opened = walk.opened] /\ UNCHANGED <<clock, buffered, stored>>
    BY DEF FollowPrev, HasPrev
  <1>2. ReqShape /\ WalkShape /\ RowsInv /\ PagingInv /\ FrozenInv /\ WalkInv
    BY DEF ListingInv
  <1>3. req.page \in Nat \ {0} /\ req.page <= Cardinality(Jobs) + 1
    BY <1>2 DEF ReqShape, PagingInv
  <1>4. req.link # 0 /\ req.link <= walk.opened /\ req.link <= clock /\ walk.opened <= clock
    BY <1>1, <1>2 DEF FrozenInv
  <1>5. Cardinality(Jobs) \in Nat
    BY <1>2, ListBounded
  <1>6. req.page - 1 \in Nat \ {0} /\ req.page - 1 <= Cardinality(Jobs) + 1
    BY <1>1, <1>3, <1>5
  <1>7. /\ ReqShape' /\ RowsInv' /\ PagingInv' /\ Win' = Win /\ PagesAreFull'
        /\ req'.pc \in {"parsed", "groups"} /\ req'.shown = {}
        /\ req'.before = req.link /\ req'.link = 0 /\ req'.states = req.states
    BY <1>1, <1>4, <1>6, FollowLink
  <1>8. /\ DOMAIN walk' = WalkFields /\ walk'.stage = "ready" /\ walk'.seen = {} /\ walk'.steady = {}
        /\ walk'.repeats = 0 /\ walk'.in = 0 /\ walk'.out = 0 /\ walk'.clamps = 0
        /\ walk'.opened = walk.opened
    BY <1>1, NoWalkFields DEF WalkFields
  <1>9. clock \in Nat /\ walk.opened \in Nat
    BY <1>2, ListingAssumption DEF RowsInv, WalkShape
  <1>10. WalkShape'
    BY <1>8, <1>9 DEF WalkShape
  <1>11. FrozenInv'
    BY <1>1, <1>4, <1>7, <1>8, <1>9 DEF FrozenInv
  <1>12. WalkInv'
    BY <1>7, <1>8, ReadyWalkNext
  <1> QED
    BY <1>7, <1>10, <1>11, <1>12 DEF ListingInv

----------------------------------------------------------------------------
(* The steps of the history keep the invariant. *)

LEMMA MovedFields ==
    ASSUME DOMAIN req = ReqFields, DOMAIN walk = WalkFields, Moved(stored, stored'),
           NEW left, left = Matching(stored, List) \ Matching(stored', List),
           NEW in, in = Cardinality(Matching(stored', List) \ Matching(stored, List)),
           NEW out, out = Cardinality(left)
    PROVE  /\ DOMAIN req' = ReqFields /\ DOMAIN walk' = WalkFields
           /\ req'.pc = req.pc /\ req'.total = req.total /\ req'.pages = req.pages /\ req'.page = req.page
           /\ req'.offset = req.offset /\ req'.states = req.states /\ req'.before = req.before
           /\ req'.shown = req.shown /\ req'.link = req.link
           /\ req'.slipIn = IF req.pc = "counted" THEN req.slipIn + in ELSE req.slipIn
           /\ req'.slipOut = IF req.pc = "counted" THEN req.slipOut + out ELSE req.slipOut
           /\ walk'.stage = walk.stage /\ walk'.seen = walk.seen
           /\ walk'.repeats = walk.repeats /\ walk'.clamps = walk.clamps /\ walk'.opened = walk.opened
           /\ walk'.steady = IF walk.stage = "walking" THEN walk.steady \ left ELSE walk.steady
           /\ walk'.in = IF walk.stage = "walking" THEN walk.in + in ELSE walk.in
           /\ walk'.out = IF walk.stage = "walking" THEN walk.out + out ELSE walk.out
  <1> DEFINE slipIn == req.slipIn + in
             slipOut == req.slipOut + out
             ins == walk.in + in
             outs == walk.out + out
             steady == walk.steady \ left
  <1>1. req' = IF req.pc = "counted" THEN [req EXCEPT !.slipIn = slipIn, !.slipOut = slipOut] ELSE req
    BY DEF Moved
  <1>2. walk' = IF walk.stage = "walking"
                THEN [walk EXCEPT !.in = ins, !.out = outs, !.steady = steady] ELSE walk
    BY DEF Moved
  <1> HIDE DEF slipIn, slipOut, ins, outs, steady
  <1>3. /\ DOMAIN req' = ReqFields
        /\ req'.pc = req.pc /\ req'.total = req.total /\ req'.pages = req.pages /\ req'.page = req.page
        /\ req'.offset = req.offset /\ req'.states = req.states /\ req'.before = req.before
        /\ req'.shown = req.shown /\ req'.link = req.link
        /\ req'.slipIn = IF req.pc = "counted" THEN slipIn ELSE req.slipIn
        /\ req'.slipOut = IF req.pc = "counted" THEN slipOut ELSE req.slipOut
    BY <1>1 DEF ReqFields
  <1>4. /\ DOMAIN walk' = WalkFields
        /\ walk'.stage = walk.stage /\ walk'.seen = walk.seen
        /\ walk'.repeats = walk.repeats /\ walk'.clamps = walk.clamps /\ walk'.opened = walk.opened
        /\ walk'.steady = IF walk.stage = "walking" THEN steady ELSE walk.steady
        /\ walk'.in = IF walk.stage = "walking" THEN ins ELSE walk.in
        /\ walk'.out = IF walk.stage = "walking" THEN outs ELSE walk.out
    BY <1>2 DEF WalkFields
  <1> QED
    BY <1>3, <1>4 DEF slipIn, slipOut, ins, outs, steady

\* What a change of the history does to the counts of a walk and of a request.
Shift(rows, later, old, new, S, T, b, in, out) ==
    /\ in \in Nat /\ out \in Nat
    /\ Cardinality(new) + out = Cardinality(old) + in
    /\ Cardinality(After(later, new, S, b)) <= Cardinality(After(rows, old, S, b)) + in
    /\ Cardinality(UpTo(later, new, T \ (old \ new), b)) <= Cardinality(UpTo(rows, old, T, b)) + out

\* One row enters, leaves or stays.
OneMoves(old, new, S) ==
    \/ new = old
    \/ \E e : e \notin old /\ e \notin S /\ new = old \union {e}
    \/ \E e : e \notin new /\ old = new \union {e}

LEMMA MoveCounts ==
    ASSUME NEW rows, NEW later, NEW old, NEW new, NEW S, NEW T, T \subseteq old, NEW b \in Nat,
           Timed(rows, old), Timed(later, new), OneMoves(old, new, S),
           \A i \in old : later[i].at = rows[i].at
    PROVE  Shift(rows, later, old, new, S, T, b, Cardinality(new \ old), Cardinality(old \ new))
  <1>1. IsFiniteSet(old) /\ IsFiniteSet(new) /\ Cardinality(old) \in Nat /\ Cardinality(new) \in Nat
    BY PartsFinite DEF Timed
  <1>2. CASE new = old
    <2>1. new \ old = {} /\ old \ new = {} /\ T \ (old \ new) = T
      BY <1>2
    <2>2. Cardinality(new \ old) = 0 /\ Cardinality(old \ new) = 0
      BY <2>1, FS_EmptySet
    <2>3. /\ After(later, new, S, b) = After(rows, old, S, b)
          /\ UpTo(later, new, T, b) = UpTo(rows, old, T, b)
      BY <1>2, StayCounts
    <2>4. Cardinality(After(rows, old, S, b)) \in Nat /\ Cardinality(UpTo(rows, old, T, b)) \in Nat
      BY PartsFinite
    <2>5. Shift(rows, later, old, new, S, T, b, 0, 0)
      <3>1. Cardinality(new) + 0 = Cardinality(old) + 0
        BY <1>1, <1>2
      <3>2. Cardinality(After(later, new, S, b)) <= Cardinality(After(rows, old, S, b)) + 0
        BY <2>3, <2>4
      <3>3. Cardinality(UpTo(later, new, T \ (old \ new), b)) <= Cardinality(UpTo(rows, old, T, b)) + 0
        BY <2>1, <2>3, <2>4
      <3> QED
        BY <3>1, <3>2, <3>3 DEF Shift
    <2> QED
      BY <2>2, <2>5
  <1>3. ASSUME NEW e, e \notin old, e \notin S, new = old \union {e}
        PROVE  Shift(rows, later, old, new, S, T, b, Cardinality(new \ old), Cardinality(old \ new))
    <2>1. new \ old = {e} /\ old \ new = {} /\ T \ (old \ new) = T /\ e \notin T
      BY <1>3
    <2>2. Cardinality(new \ old) = 1 /\ Cardinality(old \ new) = 0
      BY <2>1, FS_EmptySet, FS_Singleton
    <2>3. Cardinality(new) = Cardinality(old) + 1
      BY <1>1, <1>3, FS_AddElement
    <2>4. /\ Cardinality(After(later, new, S, b)) <= Cardinality(After(rows, old, S, b)) + 1
          /\ Cardinality(UpTo(later, new, T, b)) <= Cardinality(UpTo(rows, old, T, b))
      BY <1>3, <2>1, EnterCounts
    <2>5. Cardinality(UpTo(rows, old, T, b)) \in Nat
      BY PartsFinite
    <2>6. Shift(rows, later, old, new, S, T, b, 1, 0)
      <3>1. Cardinality(new) + 0 = Cardinality(old) + 1
        BY <1>1, <2>3
      <3>2. Cardinality(UpTo(later, new, T, b)) \in Nat
        BY PartsFinite
      <3>3. Cardinality(UpTo(later, new, T \ (old \ new), b)) <= Cardinality(UpTo(rows, old, T, b)) + 0
        BY <2>1, <2>4, <2>5, <3>2
      <3> QED
        BY <2>4, <3>1, <3>3 DEF Shift
    <2> QED
      BY <2>2, <2>6
  <1>4. ASSUME NEW e, e \notin new, old = new \union {e}
        PROVE  Shift(rows, later, old, new, S, T, b, Cardinality(new \ old), Cardinality(old \ new))
    <2>1. new \ old = {} /\ old \ new = {e}
      BY <1>4
    <2>2. Cardinality(new \ old) = 0 /\ Cardinality(old \ new) = 1
      BY <2>1, FS_EmptySet, FS_Singleton
    <2>3. Cardinality(old) = Cardinality(new) + 1
      BY <1>1, <1>4, FS_AddElement
    <2>4. Timed(rows, new \union {e}) /\ \A i \in new : later[i].at = rows[i].at
      BY <1>4
    <2>5. /\ Cardinality(After(later, new, S, b)) <= Cardinality(After(rows, old, S, b))
          /\ Cardinality(UpTo(later, new, T, b)) <= Cardinality(UpTo(rows, old, T, b)) + 1
      BY <1>4, <2>4, LeaveCounts
    <2>6. Cardinality(After(rows, old, S, b)) \in Nat
      BY PartsFinite
    <2>7. UpTo(later, new, T \ {e}, b) = UpTo(later, new, T, b)
      BY <1>4 DEF UpTo
    <2>8. Shift(rows, later, old, new, S, T, b, 0, 1)
      <3>1. Cardinality(new) + 1 = Cardinality(old) + 0
        BY <1>1, <2>3
      <3>2. Cardinality(After(later, new, S, b)) \in Nat
        BY PartsFinite
      <3>3. Cardinality(After(later, new, S, b)) <= Cardinality(After(rows, old, S, b)) + 0
        BY <2>5, <2>6, <3>2
      <3>4. Cardinality(UpTo(later, new, T \ (old \ new), b)) <= Cardinality(UpTo(rows, old, T, b)) + 1
        BY <2>1, <2>5, <2>7
      <3> QED
        BY <3>1, <3>3, <3>4 DEF Shift
    <2> QED
      BY <2>2, <2>8
  <1> QED
    BY <1>2, <1>3, <1>4 DEF OneMoves

\* A change of the history that keeps the times and moves at most one row, never one the
\* walk has shown into the list.
LEMMA MovedKeeps ==
    ASSUME ListingInv, RowsInv', clock' = clock, DOMAIN stored \subseteq DOMAIN stored',
           \A i \in DOMAIN stored : stored'[i].at = stored[i].at,
           OneMoves(Matching(stored, List), Matching(stored', List), walk.seen),
           req.states = {"failed"} => \A i \in walk.seen : stored'[i].state # "active",
           Moved(stored, stored')
    PROVE  ListingInv'
  <1> DEFINE old == Matching(stored, List)
             new == Matching(stored', List)
             left == old \ new
             in == Cardinality(new \ old)
             out == Cardinality(left)
  <1>1. ReqShape /\ WalkShape /\ RowsInv /\ PagingInv /\ FrozenInv /\ WalkInv /\ PagesAreFull
    BY DEF ListingInv
  <1>2. DOMAIN req = ReqFields /\ DOMAIN walk = WalkFields
    BY <1>1 DEF ReqShape, WalkShape
  <1>3. /\ DOMAIN req' = ReqFields /\ DOMAIN walk' = WalkFields
        /\ req'.pc = req.pc /\ req'.total = req.total /\ req'.pages = req.pages /\ req'.page = req.page
        /\ req'.offset = req.offset /\ req'.states = req.states /\ req'.before = req.before
        /\ req'.shown = req.shown /\ req'.link = req.link
        /\ req'.slipIn = IF req.pc = "counted" THEN req.slipIn + in ELSE req.slipIn
        /\ req'.slipOut = IF req.pc = "counted" THEN req.slipOut + out ELSE req.slipOut
        /\ walk'.stage = walk.stage /\ walk'.seen = walk.seen
        /\ walk'.repeats = walk.repeats /\ walk'.clamps = walk.clamps /\ walk'.opened = walk.opened
        /\ walk'.steady = IF walk.stage = "walking" THEN walk.steady \ left ELSE walk.steady
        /\ walk'.in = IF walk.stage = "walking" THEN walk.in + in ELSE walk.in
        /\ walk'.out = IF walk.stage = "walking" THEN walk.out + out ELSE walk.out
    BY <1>2, MovedFields
  <1>4. /\ req.slipIn \in Nat /\ req.slipOut \in Nat /\ req.offset \in Nat /\ req.total \in Nat
        /\ req.pc \in {"idle", "parsed", "counted", "fetched", "rendered", "groups"}
    BY <1>1 DEF ReqShape
  <1>5. walk.in \in Nat /\ walk.out \in Nat /\ walk.repeats \in Nat /\ walk.clamps \in Nat
    BY <1>1 DEF WalkShape
  <1>6. PerPage \in Nat \ {0}
    BY ListingAssumption
  <1>7. stored \in Seq(Row) /\ stored' \in Seq(Row)
    BY <1>1 DEF RowsInv
  <1>8. Timed(stored, old) /\ Timed(stored', new) /\ old \subseteq DOMAIN stored
    BY <1>7, MatchingTimed
  <1>9. Win = old /\ Win' = new
    <2>1. List'.states = List.states /\ List'.before = List.before
      BY <1>2, <1>3, ListFields, ListFieldsNext
    <2> QED
      BY <2>1, MatchingSame DEF Win
  <1>10. Edge' = Edge /\ Edge \in Nat
    BY <1>3, <1>4, <1>6 DEF Edge
  <1> DEFINE T == walk.steady \ walk.seen
  <1>11. T \subseteq old /\ walk.steady \subseteq old
    BY <1>1, <1>9 DEF WalkInv
  <1>12. \A i \in old : stored'[i].at = stored[i].at
    BY <1>8
  <1>13. OneMoves(old, new, walk.seen) /\ left = old \ new
    OBVIOUS
  <1> HIDE DEF old, new
  <1>14. Shift(stored, stored', old, new, walk.seen, T, Edge, in, out)
    BY <1>8, <1>10, <1>11, <1>12, <1>13, MoveCounts
  <1> HIDE DEF in, out, left, T
  <1>15. in \in Nat /\ out \in Nat /\ Cardinality(new) + out = Cardinality(old) + in
    BY <1>14 DEF Shift
  <1>16. ReqShape'
    BY <1>1, <1>3, <1>4, <1>15 DEF ReqShape
  <1>17. WalkShape'
    <2>1. walk'.steady \subseteq walk.steady /\ walk'.in \in Nat /\ walk'.out \in Nat
      BY <1>3, <1>5, <1>15
    <2> QED
      BY <1>1, <1>3, <2>1 DEF WalkShape
  <1>18. PagingInv'
    <2>1. req.pc = "counted" => Cardinality(new) + req'.slipOut = req'.total + req'.slipIn
      <3> SUFFICES ASSUME req.pc = "counted"
                   PROVE  Cardinality(new) + req'.slipOut = req'.total + req'.slipIn
        OBVIOUS
      <3>1. Cardinality(old) + req.slipOut = req.total + req.slipIn
        BY <1>1, <1>9 DEF PagingInv
      <3>2. Cardinality(old) \in Nat /\ Cardinality(new) \in Nat
        BY <1>8, PartsFinite
      <3>3. req'.slipIn = req.slipIn + in /\ req'.slipOut = req.slipOut + out /\ req'.total = req.total
        BY <1>3
      <3> QED
        BY <1>4, <1>15, <3>1, <3>2, <3>3
    <2>2. req.pc # "counted" => req'.slipIn = req.slipIn /\ req'.slipOut = req.slipOut
      BY <1>3
    <2> QED
      BY <1>1, <1>3, <1>9, <2>1, <2>2 DEF PagingInv
  <1>19. FrozenInv'
    BY <1>1, <1>3 DEF FrozenInv
  <1>20. PagesAreFull'
    BY <1>1, <1>3 DEF PagesAreFull
  <1>22. WalkInv'
    <2>1. CASE walk.stage = "ready"
      <3>1. /\ walk'.stage = "ready" /\ walk'.seen = {} /\ walk'.steady = {} /\ walk'.repeats = 0
            /\ walk'.in = 0 /\ walk'.out = 0 /\ walk'.clamps \in Nat /\ req'.pc \notin {"fetched", "rendered"}
        BY <1>1, <1>3, <1>5, <2>1 DEF WalkInv
      <3> QED
        BY <3>1, ReadyWalkNext
    <2>2. CASE walk.stage = "walking"
      <3>1. /\ walk'.steady = walk.steady \ left /\ walk'.in = walk.in + in /\ walk'.out = walk.out + out
        BY <1>3, <2>2
      <3> DEFINE A == After(stored, old, walk.seen, Edge)
                 B == After(stored', new, walk.seen, Edge)
                 U == UpTo(stored, old, T, Edge)
                 V == UpTo(stored', new, T \ (old \ new), Edge)
      <3>2. /\ Cardinality(A) \in Nat /\ Cardinality(B) \in Nat /\ Cardinality(U) \in Nat /\ Cardinality(V) \in Nat
        BY <1>8, PartsFinite
      <3>3. Cardinality(B) <= Cardinality(A) + in /\ Cardinality(V) <= Cardinality(U) + out
        BY <1>14 DEF Shift
      <3>4. walk.repeats + Cardinality(A) <= walk.in + PerPage * walk.clamps /\ Cardinality(U) <= walk.out
        BY <1>1, <1>9 DEF WalkInv, T
      <3>5. walk'.steady \ walk'.seen = T \ (old \ new)
        BY <1>3, <1>13, <3>1 DEF T
      <3>6. PerPage * walk.clamps \in Nat
        BY <1>5, <1>6
      <3> HIDE DEF A, B, U, V
      <3>7. walk.repeats + Cardinality(B) <= (walk.in + in) + PerPage * walk.clamps
        BY <1>5, <1>15, <3>2, <3>3, <3>4, <3>6
      <3>8. Cardinality(V) <= walk.out + out
        BY <1>5, <1>15, <3>2, <3>3, <3>4
      <3>9. /\ walk'.repeats + Cardinality(After(stored', Win', walk'.seen, Edge')) <= walk'.in + PerPage * walk'.clamps
            /\ Cardinality(UpTo(stored', Win', walk'.steady \ walk'.seen, Edge')) <= walk'.out
        BY <1>3, <1>9, <1>10, <3>1, <3>5, <3>7, <3>8 DEF B, V
      <3>10. walk'.steady \subseteq Win'
        BY <1>9, <1>11, <1>13, <3>1
      <3>11. req'.pc \in {"fetched", "rendered"} /\ req'.page >= req'.pages =>
                Cardinality(walk'.steady \ walk'.seen) <= walk'.out + req'.slipIn
        <4> SUFFICES ASSUME req.pc \in {"fetched", "rendered"}, req.page >= req.pages
                     PROVE  Cardinality(T \ (old \ new)) <= (walk.out + out) + req.slipIn
          BY <1>3, <3>1, <3>5
        <4>1. Cardinality(T) <= walk.out + req.slipIn
          BY <1>1 DEF WalkInv, T
        <4>2. IsFiniteSet(T)
          BY <1>8, <1>11, FS_Subset DEF Timed
        <4>3. IsFiniteSet(T \ (old \ new)) /\ Cardinality(T \ (old \ new)) <= Cardinality(T)
          BY <4>2, FS_Subset
        <4>4. Cardinality(T) \in Nat /\ Cardinality(T \ (old \ new)) \in Nat
          BY <4>2, <4>3, FS_CardinalityType
        <4> QED
          BY <1>4, <1>5, <1>15, <4>1, <4>3, <4>4
      <3>12. req'.states = {"failed"} => \A i \in walk'.seen : stored'[i].state # "active"
        BY <1>3
      <3> QED
        BY <1>3, <2>2, <3>9, <3>10, <3>11, <3>12 DEF WalkInv
    <2> QED
      BY <1>1, <2>1, <2>2 DEF WalkShape
  <1> QED
    BY <1>16, <1>17, <1>18, <1>19, <1>20, <1>22 DEF ListingInv

\* The steps that leave the rows, the request and the walk alone.
LEMMA StillKeeps ==
    ASSUME ListingInv, RowsInv', clock' >= clock, UNCHANGED <<stored, req, walk>>
    PROVE  ListingInv'
  <1>1. ReqShape /\ WalkShape /\ RowsInv /\ PagingInv /\ FrozenInv /\ WalkInv /\ PagesAreFull
    BY DEF ListingInv
  <1>2. List' = List
    BY DEF List
  <1>3. Win' = Win /\ Edge' = Edge
    BY <1>2 DEF Win, Edge
  <1>4. ReqShape' /\ WalkShape' /\ PagingInv' /\ PagesAreFull'
    BY <1>1, <1>3 DEF ReqShape, WalkShape, PagingInv, PagesAreFull
  <1>5. WalkInv'
    BY <1>1, <1>3 DEF WalkInv
  <1>6. FrozenInv'
    <2>0. clock \in Int /\ clock' \in Int
      <3>1. clock \in 1..MaxClock /\ clock' \in 1..MaxClock
        BY <1>1, Zenon DEF RowsInv
      <3> QED
        BY <3>1, ListingAssumption
    <2>1. clock \in Int /\ clock' \in Int /\ req.before \in Int /\ req.link \in Int /\ walk.opened \in Int
      BY <1>1, <2>0 DEF ReqShape, WalkShape
    <2>2. req.before <= clock' /\ req.link <= clock' /\ walk.opened <= clock'
      BY <1>1, <2>1 DEF FrozenInv
    <2> QED
      BY <1>1, <2>2 DEF FrozenInv
  <1> QED
    BY <1>4, <1>5, <1>6 DEF ListingInv

LEMMA EnqueueKeeps ==
    ASSUME ListingInv, NEW j \in Jobs, Enqueue(j)
    PROVE  ListingInv'
  <1>1. /\ j \notin DOMAIN buffered /\ \A i \in DOMAIN stored : stored[i].job # j
        /\ buffered' = [k \in DOMAIN buffered \union {j} |-> IF k = j THEN clock ELSE buffered[k]]
        /\ UNCHANGED <<clock, stored, req, walk>>
    BY DEF Enqueue
  <1>2. RowsInv
    BY DEF ListingInv
  <1>3. clock \in 1..clock
    BY <1>2, ListingAssumption DEF RowsInv
  <1>4. RowsInv'
    BY <1>1, <1>2, <1>3 DEF RowsInv
  <1>5. clock' >= clock
    BY <1>1, <1>2, ListingAssumption DEF RowsInv
  <1> QED
    BY <1>1, <1>4, <1>5, StillKeeps

LEMMA TickKeeps ==
    ASSUME ListingInv, Tick
    PROVE  ListingInv'
  <1>1. clock < MaxClock /\ clock' = clock + 1 /\ UNCHANGED <<buffered, stored, req, walk>>
    BY DEF Tick
  <1>2. RowsInv
    BY DEF ListingInv
  <1>3. clock \in 1..MaxClock /\ MaxClock \in Nat
    BY <1>2, ListingAssumption DEF RowsInv
  <1>4. clock' \in 1..MaxClock /\ clock' >= clock /\ \A t \in 1..clock : t \in 1..clock'
    BY <1>1, <1>3
  <1>5. RowsInv'
    BY <1>1, <1>2, <1>4 DEF RowsInv
  <1> QED
    BY <1>1, <1>4, <1>5, StillKeeps

\* A row appended is one that no walk has shown.
LEMMA FlushKeeps ==
    ASSUME ListingInv, NEW j \in Jobs, Flush(j)
    PROVE  ListingInv'
  <1> DEFINE row == [job |-> j, at |-> buffered[j], state |-> "active"]
             n == Len(stored) + 1
  <1>1. /\ j \in DOMAIN buffered /\ stored' = Append(stored, row)
        /\ buffered' = [k \in DOMAIN buffered \ {j} |-> buffered[k]]
        /\ Moved(stored, stored') /\ clock' = clock
    BY DEF Flush
  <1>2. ReqShape /\ WalkShape /\ RowsInv /\ WalkInv
    BY DEF ListingInv
  <1>3. /\ stored \in Seq(Row) /\ clock \in 1..MaxClock /\ MaxClock \in Nat
        /\ buffered[j] \in 1..clock /\ \A i \in DOMAIN stored : stored[i].job # j
    BY <1>1, <1>2, ListingAssumption DEF RowsInv
  <1>4. row \in Row /\ row.job = j /\ row.at = buffered[j]
    BY <1>3 DEF Row
  <1> HIDE DEF row
  <1>5. /\ stored' \in Seq(Row) /\ DOMAIN stored = 1..Len(stored) /\ Len(stored) \in Nat
        /\ DOMAIN stored' = 1..n /\ stored'[n] = row
        /\ \A i \in DOMAIN stored : stored'[i] = stored[i]
    BY <1>1, <1>3, <1>4
  <1>6. DOMAIN stored' = DOMAIN stored \union {n} /\ n \notin DOMAIN stored
    BY <1>5
  <1> HIDE DEF n
  <1>7. RowsInv'
    <2>1. \A i \in DOMAIN stored' : stored'[i].at \in 1..clock
      BY <1>2, <1>3, <1>4, <1>5, <1>6 DEF RowsInv
    <2>2. \A i, k \in DOMAIN stored' : stored'[i].job = stored'[k].job => i = k
      BY <1>2, <1>3, <1>4, <1>5, <1>6 DEF RowsInv
    <2>3. /\ DOMAIN buffered' = DOMAIN buffered \ {j}
          /\ \A k \in DOMAIN buffered' : buffered'[k] = buffered[k]
      BY <1>1
    <2>4. \A k \in DOMAIN buffered' : buffered'[k] \in 1..clock /\ \A i \in DOMAIN stored' : stored'[i].job # k
      <3> SUFFICES ASSUME NEW k \in DOMAIN buffered'
                   PROVE  buffered'[k] \in 1..clock /\ \A i \in DOMAIN stored' : stored'[i].job # k
        OBVIOUS
      <3>1. k \in DOMAIN buffered /\ k # j /\ buffered'[k] = buffered[k]
        BY <2>3
      <3>2. buffered[k] \in 1..clock /\ \A i \in DOMAIN stored : stored[i].job # k
        BY <1>2, <3>1 DEF RowsInv
      <3>3. \A i \in DOMAIN stored' : stored'[i].job # k
        BY <1>4, <1>5, <1>6, <3>1, <3>2
      <3> QED
        BY <3>1, <3>2, <3>3
    <2>5. DOMAIN buffered' \subseteq Jobs
      BY <1>2, <2>3 DEF RowsInv
    <2> QED
      BY <1>1, <1>3, <1>5, <2>1, <2>2, <2>4, <2>5 DEF RowsInv
  <1>8. n \notin walk.seen
    BY <1>2, <1>6 DEF WalkShape
  <1>9. OneMoves(Matching(stored, List), Matching(stored', List), walk.seen)
    <2> DEFINE old == Matching(stored, List)
               new == Matching(stored', List)
    <2>1. n \notin old /\ (new = old \/ new = old \union {n})
      BY <1>5, <1>6 DEF Matching
    <2> QED
      BY <1>8, <2>1 DEF OneMoves
  <1>10. \A i \in DOMAIN stored : stored'[i].at = stored[i].at
    BY <1>5
  <1>11. req.states = {"failed"} => \A i \in walk.seen : stored'[i].state # "active"
    BY <1>2, <1>5 DEF WalkInv, WalkShape
  <1> QED
    BY <1>1, <1>6, <1>7, <1>9, <1>10, <1>11, MovedKeeps

\* A row changes its state: active to an end, an end to gone.
LEMMA RestateKeeps ==
    ASSUME ListingInv, NEW i \in DOMAIN stored, NEW s,
           stored' = [stored EXCEPT ![i].state = s],
           \/ stored[i].state = "active" /\ s \in {"completed", "failed"}
           \/ stored[i].state \in {"completed", "failed"} /\ s = "gone",
           Moved(stored, stored'), UNCHANGED <<clock, buffered>>
    PROVE  ListingInv'
  <1>1. ReqShape /\ WalkShape /\ RowsInv /\ WalkInv
    BY DEF ListingInv
  <1>2. stored \in Seq(Row)
    BY <1>1 DEF RowsInv
  <1>3. \A k \in DOMAIN stored : stored[k] \in Row
    BY <1>2
  <1> DEFINE row == [stored[i] EXCEPT !.state = s]
  <1>4. row \in Row /\ row.job = stored[i].job /\ row.at = stored[i].at /\ row.state = s
    BY <1>3 DEF Row
  <1>5. stored' = [stored EXCEPT ![i] = row]
    OBVIOUS
  <1> HIDE DEF row
  <1>6. stored' \in Seq(Row) /\ DOMAIN stored' = DOMAIN stored
    BY <1>2, <1>4, <1>5
  <1>7. stored'[i] = row /\ \A k \in DOMAIN stored : k # i => stored'[k] = stored[k]
    BY <1>2, <1>5
  <1>8. \A k \in DOMAIN stored : stored'[k].at = stored[k].at /\ stored'[k].job = stored[k].job
    BY <1>4, <1>7
  <1>9. RowsInv'
    BY <1>1, <1>6, <1>8 DEF RowsInv
  <1>10. \A k \in DOMAIN stored : k # i => (Matches(stored'[k], List) <=> Matches(stored[k], List))
    BY <1>7
  <1>11. req.states \in {{}, {"active"}, {"failed"}} /\ List.states = req.states
    BY <1>1, ListFields DEF ReqShape
  <1>12. Matches(stored'[i], List) => Matches(stored[i], List) \/ i \notin walk.seen
    <2>1. stored'[i].state = s /\ stored'[i].at = stored[i].at
      BY <1>4, <1>7
    <2>2. req.states = {"failed"} => (i \in walk.seen => stored[i].state # "active")
      BY <1>1 DEF WalkInv
    <2>3. CASE req.states = {"failed"}
      BY <1>11, <2>1, <2>2, <2>3 DEF Matches
    <2>4. CASE req.states # {"failed"}
      BY <1>11, <2>1, <2>4 DEF Matches
    <2> QED
      BY <2>3, <2>4
  <1>13. OneMoves(Matching(stored, List), Matching(stored', List), walk.seen)
    <2> DEFINE old == Matching(stored, List)
               new == Matching(stored', List)
    <2>1. \A k : k # i => (k \in new <=> k \in old)
      BY <1>6, <1>10 DEF Matching
    <2>2. i \in new => i \in old \/ i \notin walk.seen
      BY <1>12 DEF Matching
    <2>3. \/ new = old
          \/ i \notin old /\ i \notin walk.seen /\ new = old \union {i}
          \/ i \notin new /\ old = new \union {i}
      <3> HIDE DEF old, new
      <3>1. CASE i \in new /\ i \in old
        BY <2>1, <3>1
      <3>2. CASE i \in new /\ i \notin old
        BY <2>1, <2>2, <3>2
      <3>3. CASE i \notin new /\ i \in old
        BY <2>1, <3>3
      <3>4. CASE i \notin new /\ i \notin old
        BY <2>1, <3>4
      <3> QED
        BY <3>1, <3>2, <3>3, <3>4
    <2> QED
      BY <2>3 DEF OneMoves
  <1>14. req.states = {"failed"} => \A k \in walk.seen : stored'[k].state # "active"
    <2> SUFFICES ASSUME req.states = {"failed"}, NEW k \in walk.seen
                 PROVE  stored'[k].state # "active"
      OBVIOUS
    <2>1. k \in DOMAIN stored /\ stored[k].state # "active"
      BY <1>1 DEF WalkInv, WalkShape
    <2>2. s # "active"
      OBVIOUS
    <2> QED
      BY <1>4, <1>7, <2>1, <2>2
  <1>15. DOMAIN stored \subseteq DOMAIN stored' /\ clock' = clock
    BY <1>6
  <1> QED
    BY <1>8, <1>9, <1>13, <1>14, <1>15, MovedKeeps

LEMMA EndKeeps ==
    ASSUME ListingInv, NEW i \in DOMAIN stored, End(i) \/ Prune(i)
    PROVE  ListingInv'
  <1>1. CASE End(i)
    <2>1. PICK s \in {"completed", "failed"} : stored' = [stored EXCEPT ![i].state = s]
      BY <1>1 DEF End
    <2>2. stored[i].state = "active" /\ Moved(stored, stored') /\ UNCHANGED <<clock, buffered>>
      BY <1>1 DEF End
    <2> QED
      BY <2>1, <2>2, RestateKeeps
  <1>2. CASE Prune(i)
    <2>1. /\ stored' = [stored EXCEPT ![i].state = "gone"] /\ stored[i].state \in {"completed", "failed"}
          /\ Moved(stored, stored') /\ UNCHANGED <<clock, buffered>>
      BY <1>2 DEF Prune
    <2> QED
      BY <2>1, RestateKeeps
  <1> QED
    BY <1>1, <1>2

LEMMA StutterKeeps ==
    ASSUME ListingInv, UNCHANGED vars
    PROVE  ListingInv'
  <1>1. UNCHANGED <<clock, buffered, stored, req, walk>>
    BY DEF vars
  <1>2. RowsInv' /\ clock' >= clock
    BY <1>1, ListingAssumption DEF ListingInv, RowsInv
  <1> QED
    BY <1>1, <1>2, StillKeeps

LEMMA ListingNext == ListingInv /\ [Next]_vars => ListingInv'
  <1> SUFFICES ASSUME ListingInv, [Next]_vars
               PROVE  ListingInv'
    OBVIOUS
  <1>1. CASE OpenJobs \/ OpenFailures \/ OpenJSON
    BY <1>1, OpenKeeps
  <1>2. CASE Count
    BY <1>2, CountKeeps
  <1>3. CASE Fetch
    BY <1>3, FetchKeeps
  <1>4. CASE Render
    BY <1>4, RenderKeeps
  <1>5. CASE FollowNext
    BY <1>5, FollowNextKeeps
  <1>6. CASE FollowPrev
    BY <1>6, FollowPrevKeeps
  <1>7. CASE \E j \in Jobs : Enqueue(j) \/ Flush(j)
    BY <1>7, EnqueueKeeps, FlushKeeps
  <1>8. CASE \E i \in DOMAIN stored : End(i) \/ Prune(i)
    BY <1>8, EndKeeps
  <1>9. CASE Tick
    BY <1>9, TickKeeps
  <1>10. CASE UNCHANGED vars
    BY <1>10, StutterKeeps
  <1> QED
    BY <1>1, <1>2, <1>3, <1>4, <1>5, <1>6, <1>7, <1>8, <1>9, <1>10 DEF Next

----------------------------------------------------------------------------
(* The results. *)

LEMMA ListingInvariant == Spec => []ListingInv
  <1>1. Init => ListingInv
    BY ListingInit
  <1>2. ListingInv /\ [Next]_vars => ListingInv'
    BY ListingNext
  <1> QED
    BY <1>1, <1>2, PTL DEF Spec

\* A request, its page and its window stay within their bounds whatever the history
\* does: the page number list settles on, the offset cut to the last page, the rows read.
THEOREM ListingTypeOK == Spec => []TypeOK
  <1>1. ListingInv => TypeOK
    <2> SUFFICES ASSUME ListingInv
                 PROVE  TypeOK
      OBVIOUS
    <2>1. ReqShape /\ WalkShape /\ RowsInv /\ PagingInv /\ FrozenInv
      BY DEF ListingInv
    <2>2. Cardinality(Jobs) \in Nat
      BY <2>1, ListBounded
    <2>3. clock \in 1..MaxClock /\ MaxClock \in Nat
      BY <2>1, ListingAssumption DEF RowsInv
    <2>4. req.page \in 1..(Cardinality(Jobs) + 1) /\ req.before \in 0..clock /\ req.link \in 0..clock
      BY <2>1, <2>2, <2>3 DEF ReqShape, PagingInv, FrozenInv
    <2>5. \A i \in DOMAIN stored : stored[i].job \in Jobs /\ stored[i].at \in 1..clock
      <3>1. stored \in Seq(Row)
        BY <2>1 DEF RowsInv
      <3>2. \A i \in DOMAIN stored : stored[i] \in Row
        BY <3>1
      <3>3. \A i \in DOMAIN stored : stored[i].job \in Jobs
        BY <3>2 DEF Row
      <3> QED
        BY <2>1, <3>3 DEF RowsInv
    <2>6. /\ req.pc \in {"idle", "parsed", "counted", "fetched", "rendered", "groups"}
          /\ req.shown \subseteq DOMAIN stored /\ Cardinality(req.shown) <= PerPage
          /\ walk.steady \union walk.seen \subseteq DOMAIN stored
      BY <2>1 DEF ReqShape, PagingInv, WalkShape
    <2> QED
      BY <2>3, <2>4, <2>5, <2>6 DEF TypeOK
  <1> QED
    BY <1>1, ListingInvariant, PTL

\* A page is as full as its count promised, less what left the list between CountJobs
\* and Jobs, on any page of any list.
THEOREM PagesFull == Spec => []PagesAreFull
  <1>1. ListingInv => PagesAreFull
    BY DEF ListingInv
  <1> QED
    BY <1>1, ListingInvariant, PTL

\* OFFSET repeats a row only for a row that entered the window after the walk began, or
\* where list cut a page number down.
THEOREM RepeatsBounded == Spec => []RepeatsAreEntries
  <1>1. ListingInv => RepeatsAreEntries
    <2> SUFFICES ASSUME ListingInv
                 PROVE  RepeatsAreEntries
      OBVIOUS
    <2>1. WalkShape /\ WalkInv /\ RowsInv
      BY DEF ListingInv
    <2> DEFINE A == After(stored, Win, walk.seen, Edge)
    <2>2. walk.repeats + Cardinality(A) <= walk.in + PerPage * walk.clamps
      BY <2>1 DEF WalkInv
    <2>3. Timed(stored, Win)
      BY <2>1, MatchingTimed DEF RowsInv, Win
    <2>4. Cardinality(A) \in Nat
      BY <2>3, PartsFinite
    <2>5. walk.repeats \in Nat /\ walk.in \in Nat /\ walk.clamps \in Nat
      BY <2>1 DEF WalkShape
    <2>6. PerPage * walk.clamps \in Nat
      BY <2>5, ListingAssumption
    <2> HIDE DEF A
    <2>7. walk.repeats <= walk.in + PerPage * walk.clamps
      BY <2>2, <2>4, <2>5, <2>6
    <2> QED
      BY <2>7 DEF RepeatsAreEntries
  <1> QED
    BY <1>1, ListingInvariant, PTL

\* A walk to the last page misses a row that was in the list all along only for a row
\* that left the list, or that entered it between the last count and the last read.
THEOREM MissesBounded == Spec => []MissesAreLeaves
  <1>1. ListingInv => MissesAreLeaves
    <2> SUFFICES ASSUME ListingInv, req.pc = "rendered", ~(req.page < req.pages)
                 PROVE  Cardinality(walk.steady \ walk.seen) <= walk.out + req.slipIn
      BY DEF MissesAreLeaves, Missed, HasNext
    <2>1. req.page >= req.pages
      BY DEF ListingInv, ReqShape
    <2> QED
      BY <2>1 DEF ListingInv, WalkInv
  <1> QED
    BY <1>1, ListingInvariant, PTL

\* A page deeper than the first, reached by links from the first one rendered, is cut from
\* a list of jobs enqueued by then: its window has an end, and that end is not past then.
THEOREM WindowFrozen == Spec => []WindowIsFrozen
  <1>1. ListingInv => WindowIsFrozen
    <2> SUFFICES ASSUME ListingInv, walk.opened # 0, req.page > 1, NEW i \in Matching(stored, req)
                 PROVE  stored[i].at <= walk.opened
      BY DEF WindowIsFrozen
    <2>1. req.before # 0 /\ req.before <= walk.opened
      BY DEF ListingInv, FrozenInv
    <2>2. i \in DOMAIN stored /\ stored[i].at <= req.before
      BY <2>1 DEF Matching, Matches
    <2>3. stored[i].at \in Nat /\ req.before \in Nat /\ walk.opened \in Nat
      BY <2>2 DEF ListingInv, RowsInv, ReqShape, WalkShape
    <2> QED
      BY <2>1, <2>2, <2>3
  <1> QED
    BY <1>1, ListingInvariant, PTL
=============================================================================
