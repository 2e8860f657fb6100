-------------------------- MODULE ClientWorldProofs --------------------------
(***************************************************************************)
(* Proofs about ClientWorld: the layers of the map and the list of alive   *)
(* blocks agree after any mix of digging, building, falling, growth and    *)
(* clearing, bots edit what is in their reach, and falling, carrying and   *)
(* growth lose nothing, on a map of any size, with any number of bots.     *)
(*                                                                         *)
(* The argument: every operation of the map leads from a consistent world  *)
(* to a consistent one, wherever it is applied.  What an operation does to *)
(* a row of cells is a fold, and the two timers are recursive functions;   *)
(* that these are defined, and stay among the consistent worlds, is proved *)
(* by induction first.                                                     *)
(***************************************************************************)
EXTENDS ClientWorld, FiniteSetTheorems, SequenceTheorems, NaturalsInduction, WellFoundedInduction, TLAPS

\* The worlds whose layers and whose list of alive blocks agree.
Worlds ==
    {w \in [terrain : [Cells -> 0..255], background : [Cells -> 0..255],
            blocksMeta : [Cells -> 0..255], alivesList : Seq(Cells), iter : Nat] :
        /\ \A i \in Cells :
              /\ w.terrain[i] \in solid \cup {0}
              /\ w.background[i] \notin solid
              /\ w.blocksMeta[i] > 0 => w.terrain[i] \in hasdensity \cup {alive_blue}
        /\ \A i \in Cells :
              w.terrain[i] \in is_alive => \E k \in 1..Len(w.alivesList) : w.alivesList[k] = i
        /\ \A j, k \in 1..Len(w.alivesList) : w.alivesList[j] = w.alivesList[k] => j = k
        /\ w.iter <= Len(w.alivesList)}

\* The bots: one that never had a cooldown has an empty geo stack.
BotStates ==
    {r \in [x : Int, y : Int, rotation : 0..3, cooldown : Cooldowns, geo : Seq(cantake),
            autodigg : BOOLEAN, cachedBlockUnder : 0..255] :
        Len(r.geo) <= Geology /\ (r.cooldown = "zero" => r.geo = << >>)}

\* The inductive invariant.
Inv ==
    /\ world \in Worlds
    /\ bots \in [Bots -> BotStates]
    /\ CurrentBot \in Bots /\ ignoreBorders \in BOOLEAN /\ hung \in BOOLEAN
    /\ edits \in 0..MaxEdits
    /\ HangsOnlyWhenFresh
------------------------------------------------------------------------------
(***************************************************************************)
(* Recursion and folds.  A set takes the place of the property that        *)
(* induction is over, and a function the place of the operator that is     *)
(* folded.                                                                 *)
(***************************************************************************)
\* Induction: a set with 0 and with each number's successor has them all.
LEMMA Induction ==
    ASSUME NEW G, 0 \in G, \A n \in Nat : n \in G => n + 1 \in G
    PROVE  Nat \subseteq G
<1> SUFFICES ASSUME NEW k \in Nat, k \notin G PROVE FALSE
  OBVIOUS
<1> DEFINE T == {n \in Nat : n \notin G}
           R == OpToRel(<, Nat)
<1>1. IsWellFoundedOn(R, Nat)
  BY NatLessThanWellFounded
<1>2. T \subseteq Nat /\ T # {}
  OBVIOUS
<1>3. PICK m \in T : \A y \in T : <<y, m>> \notin R
  <2> HIDE DEF T, R
  <2> QED
    BY <1>1, <1>2, WFMin
<1>4. \A y \in T : ~(y < m)
  BY <1>2, <1>3 DEF OpToRel
<1> QED
  BY <1>2, <1>4

ChainUpTo(m, h, base, step) ==
    h[0] = base /\ \A k \in 1..m : h[k] = step[<<h[k - 1], k>>]

\* A value and a step from each number to the next define a function.
LEMMA ChainExists ==
    ASSUME NEW V, NEW n \in Nat, NEW base \in V, NEW step \in [V \X (1..n) -> V]
    PROVE  \E h \in [0..n -> V] : ChainUpTo(n, h, base, step)
<1> USE DEF ChainUpTo
<1> DEFINE P(m, h) == ChainUpTo(m, h, base, step)
           G == {m \in Nat : m <= n => \E h \in [0..m -> V] : P(m, h)}
<1>1. 0 \in G
  <2> DEFINE h == [k \in 0..0 |-> base]
  <2>1. h \in [0..0 -> V] /\ P(0, h)
    OBVIOUS
  <2> QED
    BY <2>1
<1>2. ASSUME NEW m \in Nat, m \in G PROVE m + 1 \in G
  <2> SUFFICES ASSUME m + 1 <= n PROVE \E h \in [0..(m + 1) -> V] : P(m + 1, h)
    OBVIOUS
  <2>1. PICK f \in [0..m -> V] : P(m, f)
    BY <1>2
  <2> DEFINE h == [k \in 0..(m + 1) |-> IF k = m + 1 THEN step[<<f[m], m + 1>>] ELSE f[k]]
  <2>2. step[<<f[m], m + 1>>] \in V
    BY <2>1
  <2>3. h \in [0..(m + 1) -> V]
    BY <2>2
  <2>4. h[0] = base
    BY <2>1
  <2>5. ASSUME NEW k \in 1..(m + 1) PROVE h[k] = step[<<h[k - 1], k>>]
    <3>1. CASE k = m + 1
      <4>1. h[m + 1] = step[<<f[m], m + 1>>] /\ h[m] = f[m] /\ k - 1 = m
        BY <3>1
      <4> HIDE DEF h
      <4> QED
        BY <3>1, <4>1
    <3>2. CASE k \in 1..m
      <4>1. h[k] = f[k] /\ h[k - 1] = f[k - 1]
        BY <3>2
      <4> HIDE DEF h
      <4> QED
        BY <2>1, <3>2, <4>1
    <3> QED
      BY <3>1, <3>2
  <2> QED
    BY <2>3, <2>4, <2>5
<1>3. n \in G
  <2> HIDE DEF G
  <2> QED
    BY <1>1, <1>2, Induction
<1> QED
  BY <1>3

\* What holds at 0 and is kept by each step holds at the end.
LEMMA ChainStays ==
    ASSUME NEW V, NEW n \in Nat, NEW h, h[0] \in V,
           \A k \in 1..n : h[k - 1] \in V => h[k] \in V
    PROVE  h[n] \in V
<1> DEFINE G == {m \in Nat : m <= n => h[m] \in V}
<1>1. 0 \in G
  OBVIOUS
<1>2. ASSUME NEW m \in Nat, m \in G PROVE m + 1 \in G
  <2> SUFFICES ASSUME m + 1 <= n PROVE h[m + 1] \in V
    OBVIOUS
  <2>1. m + 1 \in 1..n /\ (m + 1) - 1 = m /\ h[m] \in V
    BY <1>2
  <2> QED
    BY <2>1
<1>3. n \in G
  <2> HIDE DEF G
  <2> QED
    BY <1>1, <1>2, Induction
<1> QED
  BY <1>3

LEMMA MaxIs ==
    ASSUME NEW m \in Nat, NEW s \in SUBSET (1..(m + 1)), s # {}
    PROVE  /\ Max(s) \in s /\ \A y \in s : Max(s) >= y
           /\ m + 1 \in s => Max(s) = m + 1
           /\ s \ {Max(s)} \in SUBSET (1..m)
<1> DEFINE G == {j \in Nat : \A t \in SUBSET (1..j) : t # {} => \E x \in t : \A y \in t : x >= y}
<1>1. 0 \in G
  <2>1. \A t \in SUBSET (1..0) : t = {}
    OBVIOUS
  <2> QED
    BY <2>1
<1>2. ASSUME NEW j \in Nat, j \in G PROVE j + 1 \in G
  <2> SUFFICES ASSUME NEW t \in SUBSET (1..(j + 1)), t # {}
               PROVE  \E x \in t : \A y \in t : x >= y
    OBVIOUS
  <2>1. CASE j + 1 \in t
    BY <2>1
  <2>2. CASE j + 1 \notin t
    <3>1. t \in SUBSET (1..j)
      BY <2>2
    <3> QED
      BY <1>2, <3>1
  <2> QED
    BY <2>1, <2>2
<1>3. m + 1 \in G
  <2> HIDE DEF G
  <2> QED
    BY <1>1, <1>2, Induction
<1>4. \E x \in s : \A y \in s : x >= y
  BY <1>3
<1>5. Max(s) \in s /\ \A y \in s : Max(s) >= y
  <2> DEFINE Q(x) == \A y \in s : x >= y
  <2>1. \E x \in s : Q(x)
    BY <1>4
  <2>2. Max(s) = CHOOSE x \in s : Q(x)
    BY DEF Max
  <2> HIDE DEF Q
  <2>3. Max(s) \in s /\ Q(Max(s))
    BY <2>1, <2>2
  <2> QED
    BY <2>3 DEF Q
<1> HIDE DEF G
<1>6. Max(s) \in 1..(m + 1) /\ (m + 1 \in s => Max(s) = m + 1)
  <2>1. Max(s) \in 1..(m + 1)
    BY <1>5
  <2>2. ASSUME m + 1 \in s PROVE Max(s) >= m + 1
    BY <1>5, <2>2
  <2> QED
    BY <2>1, <2>2
<1>7. ASSUME NEW y \in s \ {Max(s)} PROVE y \in 1..m
  BY <1>5, <1>6
<1> QED
  BY <1>5, <1>6, <1>7

FoldUpTo(m, h, base, step) ==
    \A s \in SUBSET (1..m) :
        h[s] = IF s = {} THEN base ELSE step[<<h[s \ {Max(s)}], Max(s)>>]

\* The function a fold over the numbers up to n is defined by exists, on the
\* subsets of 1..n, when the step stays in a set.
LEMMA FoldExists ==
    ASSUME NEW V, NEW n \in Nat, NEW base \in V, NEW step \in [V \X (1..n) -> V]
    PROVE  \E h \in [SUBSET (1..n) -> V] : FoldUpTo(n, h, base, step)
<1> DEFINE Ex(m) == \E h \in [SUBSET (1..m) -> V] : FoldUpTo(m, h, base, step)
           G == {m \in Nat : m <= n => Ex(m)}
<1>1. 0 \in G
  <2> DEFINE h == [s \in SUBSET (1..0) |-> base]
  <2>1. h \in [SUBSET (1..0) -> V] /\ FoldUpTo(0, h, base, step)
    BY DEF FoldUpTo
  <2> QED
    BY <2>1
<1>2. ASSUME NEW m \in Nat, m \in G PROVE m + 1 \in G
  <2> SUFFICES ASSUME m + 1 <= n PROVE Ex(m + 1)
    <3> HIDE DEF Ex
    <3> QED
      OBVIOUS
  <2>0. Ex(m)
    <3> HIDE DEF Ex
    <3> QED
      BY <1>2
  <2>1. PICK f \in [SUBSET (1..m) -> V] : FoldUpTo(m, f, base, step)
    BY <2>0
  <2> DEFINE New(s) == step[<<f[s \ {m + 1}], m + 1>>]
             h == [s \in SUBSET (1..(m + 1)) |-> IF m + 1 \in s THEN New(s) ELSE f[s]]
  <2>2. ASSUME NEW s \in SUBSET (1..(m + 1)), m + 1 \notin s PROVE s \in SUBSET (1..m)
    BY <2>2
  <2>3. ASSUME NEW s \in SUBSET (1..(m + 1)), m + 1 \in s PROVE New(s) \in V
    <3>1. s \ {m + 1} \in SUBSET (1..m)
      OBVIOUS
    <3>2. f[s \ {m + 1}] \in V
      BY <2>1, <3>1
    <3> QED
      BY <3>2
  <2> HIDE DEF New
  <2>4. h \in [SUBSET (1..(m + 1)) -> V]
    BY <2>1, <2>2, <2>3
  <2>5. ASSUME NEW s \in SUBSET (1..(m + 1)), m + 1 \notin s
        PROVE  h[s] = f[s]
    BY <2>5
  <2>6. ASSUME NEW s \in SUBSET (1..(m + 1))
        PROVE  h[s] = IF s = {} THEN base ELSE step[<<h[s \ {Max(s)}], Max(s)>>]
    <3>1. CASE s = {}
      <4>1. m + 1 \notin s /\ s \in SUBSET (1..m)
        BY <3>1
      <4> QED
        BY <2>1, <2>5, <3>1, <4>1 DEF FoldUpTo
    <3>2. CASE s # {} /\ m + 1 \in s
      <4>1. Max(s) = m + 1 /\ s \ {Max(s)} \in SUBSET (1..m)
        BY <3>2, MaxIs
      <4>2. s \ {m + 1} \in SUBSET (1..(m + 1)) /\ m + 1 \notin s \ {m + 1}
        OBVIOUS
      <4>3. h[s \ {m + 1}] = f[s \ {m + 1}]
        BY <2>5, <4>2
      <4>4. h[s] = step[<<f[s \ {m + 1}], m + 1>>]
        BY <3>2 DEF New
      <4> HIDE DEF h
      <4> QED
        BY <3>2, <4>1, <4>3, <4>4
    <3>3. CASE s # {} /\ m + 1 \notin s
      <4>1. s \in SUBSET (1..m)
        BY <2>2, <3>3
      <4>2. f[s] = step[<<f[s \ {Max(s)}], Max(s)>>]
        BY <2>1, <3>3, <4>1 DEF FoldUpTo
      <4>3. s \ {Max(s)} \in SUBSET (1..(m + 1)) /\ m + 1 \notin s \ {Max(s)}
        BY <3>3
      <4>4. h[s \ {Max(s)}] = f[s \ {Max(s)}] /\ h[s] = f[s]
        BY <2>5, <3>3, <4>3
      <4> HIDE DEF h
      <4> QED
        BY <3>3, <4>2, <4>4
    <3> QED
      BY <3>1, <3>2, <3>3
  <2> HIDE DEF h
  <2> QED
    BY <2>4, <2>6 DEF FoldUpTo
<1>3. n \in G
  <2> HIDE DEF G
  <2> QED
    BY <1>1, <1>2, Induction
<1>4. Ex(n)
  <2> HIDE DEF Ex
  <2> QED
    BY <1>3
<1> QED
  BY <1>4

\* What holds for no cells and is kept by each further one holds for all.
LEMMA FoldStays ==
    ASSUME NEW V, NEW n \in Nat, NEW h, h[{}] \in V,
           \A s \in SUBSET (1..n) : s # {} /\ h[s \ {Max(s)}] \in V => h[s] \in V
    PROVE  h[1..n] \in V
<1> DEFINE G == {m \in Nat : m <= n => \A s \in SUBSET (1..m) : h[s] \in V}
<1>1. 0 \in G
  <2>1. \A s \in SUBSET (1..0) : s = {}
    OBVIOUS
  <2> QED
    BY <2>1
<1>2. ASSUME NEW m \in Nat, m \in G PROVE m + 1 \in G
  <2>1. ASSUME m + 1 <= n, NEW s \in SUBSET (1..(m + 1)) PROVE h[s] \in V
    <3>1. CASE s = {}
      BY <3>1
    <3>2. CASE s # {}
      <4>1. s \ {Max(s)} \in SUBSET (1..m)
        BY <3>2, MaxIs
      <4>2. h[s \ {Max(s)}] \in V
        BY <1>2, <2>1, <4>1
      <4>3. s \in SUBSET (1..n)
        BY <2>1
      <4> QED
        BY <3>2, <4>2, <4>3
    <3> QED
      BY <3>1, <3>2
  <2>2. m + 1 \in Nat
    OBVIOUS
  <2> DEFINE k == m + 1
  <2>3. k \in Nat /\ (k <= n => \A s \in SUBSET (1..k) : h[s] \in V)
    BY <2>1, <2>2
  <2> HIDE DEF k
  <2>4. k \in G
    BY <2>3
  <2> QED
    BY <2>4 DEF k
<1>3. n \in G
  <2> HIDE DEF G
  <2> QED
    BY <1>1, <1>2, Induction
<1> QED
  BY <1>3
------------------------------------------------------------------------------
(* Cells and kinds of blocks. *)

LEMMA IndexInCells ==
    ASSUME NEW x, NEW y, ValidCoords(x, y)
    PROVE  Index(x, y) \in Cells
<1>1. Width \in Nat /\ Height \in Nat /\ Width >= 1 /\ Height >= 1
  BY SizeAssumption
<1>2. x \in Int /\ y \in Int /\ 0 <= x /\ x <= Width - 1 /\ 0 <= y /\ y <= Height - 1
  BY <1>1 DEF ValidCoords
<1>3. 0 <= y * Width /\ y * Width <= (Height - 1) * Width
  BY <1>1, <1>2
<1>4. (Height - 1) * Width = Width * Height - Width
  BY <1>1
<1> QED
  BY <1>1, <1>2, <1>3, <1>4 DEF Index, Cells

LEMMA Kinds ==
    /\ solid \subseteq 1..255 /\ cantake \subseteq solid /\ falltype \subseteq solid
    /\ is_alive \subseteq solid /\ hasdensity \subseteq solid /\ diggable \subseteq solid
    /\ block_fed \in solid /\ block_fed \notin falltype /\ block_fed \notin is_alive
    /\ block_fed \notin cantake /\ block_fed \notin diggable /\ block_fed \in 0..255
    /\ alive_blue \in is_alive /\ road \notin solid /\ ground0 \notin solid
    /\ road \in 0..255 /\ ground0 \in 0..255 /\ alive_blue \notin hasdensity
<1> USE DEF solid, cantake, falltype, is_alive, hasdensity, diggable, bolder, sand,
            block_fed, alive_blue, road, ground0
<1>1. solid \subseteq 1..255 /\ cantake \subseteq solid
  OBVIOUS
<1>2. falltype \subseteq solid
  OBVIOUS
<1>3. is_alive \subseteq solid /\ hasdensity \subseteq solid /\ diggable \subseteq solid
  OBVIOUS
<1>4. /\ block_fed \in solid /\ block_fed \notin falltype /\ block_fed \notin is_alive
      /\ block_fed \notin cantake /\ block_fed \notin diggable /\ block_fed \in 0..255
  OBVIOUS
<1>5. /\ alive_blue \in is_alive /\ road \notin solid /\ ground0 \notin solid
      /\ road \in 0..255 /\ ground0 \in 0..255 /\ alive_blue \notin hasdensity
  OBVIOUS
<1> QED
  BY <1>1, <1>2, <1>3, <1>4, <1>5
------------------------------------------------------------------------------
(* The operations of the map lead from Worlds to Worlds. *)

World(t, g, m, l, k) ==
    [terrain |-> t, background |-> g, blocksMeta |-> m, alivesList |-> l, iter |-> k]

\* A world is made of its layers.
LEMMA WorldIs ==
    ASSUME NEW w \in Worlds
    PROVE  /\ w = World(w.terrain, w.background, w.blocksMeta, w.alivesList, w.iter)
           /\ w.terrain \in [Cells -> 0..255] /\ w.background \in [Cells -> 0..255]
           /\ w.blocksMeta \in [Cells -> 0..255]
           /\ w.alivesList \in Seq(Cells) /\ w.iter \in Nat
           /\ \A i \in Cells :
                 /\ w.terrain[i] \in solid \cup {0}
                 /\ w.background[i] \notin solid
                 /\ w.blocksMeta[i] > 0 => w.terrain[i] \in hasdensity \cup {alive_blue}
           /\ \A i \in Cells :
                 w.terrain[i] \in is_alive => \E k \in 1..Len(w.alivesList) : w.alivesList[k] = i
           /\ \A j, k \in 1..Len(w.alivesList) : w.alivesList[j] = w.alivesList[k] => j = k
           /\ w.iter <= Len(w.alivesList)
BY DEF Worlds, World

LEMMA WorldMade ==
    ASSUME NEW t \in [Cells -> 0..255], NEW g \in [Cells -> 0..255],
           NEW m \in [Cells -> 0..255], NEW l \in Seq(Cells), NEW k \in Nat,
           \A i \in Cells : /\ t[i] \in solid \cup {0}
                            /\ g[i] \notin solid
                            /\ m[i] > 0 => t[i] \in hasdensity \cup {alive_blue},
           \A i \in Cells : t[i] \in is_alive => \E n \in 1..Len(l) : l[n] = i,
           \A i, j \in 1..Len(l) : l[i] = l[j] => i = j,
           k <= Len(l)
    PROVE  World(t, g, m, l, k) \in Worlds
BY SMTT(30) DEF Worlds, World

\* Only the entries of the list that are placed and alive are needed.
LEMMA ListGrows ==
    ASSUME NEW l \in Seq(Cells), NEW i \in Cells, ~Contains(l, i),
           \A j, k \in 1..Len(l) : l[j] = l[k] => j = k
    PROVE  /\ Append(l, i) \in Seq(Cells) /\ Len(Append(l, i)) = Len(l) + 1
           /\ \A k \in 1..Len(l) : Append(l, i)[k] = l[k]
           /\ Append(l, i)[Len(l) + 1] = i
           /\ \A j, k \in 1..Len(Append(l, i)) : Append(l, i)[j] = Append(l, i)[k] => j = k
<1> DEFINE a == Append(l, i)
<1>1. /\ a \in Seq(Cells) /\ Len(a) = Len(l) + 1 /\ Len(l) \in Nat
      /\ \A k \in 1..Len(l) : a[k] = l[k]
      /\ a[Len(l) + 1] = i
  BY AppendProperties, LenProperties
<1>2. \A k \in 1..Len(l) : l[k] # i
  BY DEF Contains
<1> HIDE DEF a
<1>3. ASSUME NEW j \in 1..Len(a), NEW k \in 1..Len(a), a[j] = a[k] PROVE j = k
  <2>1. CASE j \in 1..Len(l) /\ k \in 1..Len(l)
    BY <1>1, <1>3, <2>1
  <2>2. CASE j = Len(l) + 1 /\ k \in 1..Len(l)
    BY <1>1, <1>2, <1>3, <2>2
  <2>3. CASE k = Len(l) + 1 /\ j \in 1..Len(l)
    BY <1>1, <1>2, <1>3, <2>3
  <2>4. CASE k = Len(l) + 1 /\ j = Len(l) + 1
    BY <2>4
  <2> QED
    BY <1>1, <2>1, <2>2, <2>3, <2>4
<1> QED
  BY <1>1, <1>3 DEF a

LEMMA SetTileStays ==
    ASSUME NEW w \in Worlds, NEW i \in Cells, NEW id \in 0..255, NEW density \in 0..255
    PROVE  SetTile(w, i, id, density) \in Worlds
<1> DEFINE t == w.terrain
           g == w.background
           m == w.blocksMeta
           l == w.alivesList
           t2 == [t EXCEPT ![i] = id]
           g2 == [g EXCEPT ![i] = id]
           m2 == [m EXCEPT ![i] = IF id \in hasdensity THEN density ELSE 0]
           l2 == IF id \in is_alive /\ ~Contains(l, i) THEN Append(l, i) ELSE l
<1>0. w = World(t, g, m, l, w.iter)
  BY WorldIs
<1>1. CASE id \in solid
  <2>1. SetTile(w, i, id, density) = World(t2, g, m2, l2, w.iter)
    <3> DEFINE k == w.iter
    <3> HIDE DEF t, g, m, l, k
    <3>1. SetTile(World(t, g, m, l, k), i, id, density) = World(t2, g, m2, l2, k)
      BY <1>1 DEF SetTile, World
    <3> HIDE DEF t2, m2, l2
    <3> QED
      BY <1>0, <3>1 DEF k
  <2>2. t2 \in [Cells -> 0..255] /\ m2 \in [Cells -> 0..255]
    <3> DEFINE d == IF id \in hasdensity THEN density ELSE 0
    <3>1. t \in [Cells -> 0..255] /\ m \in [Cells -> 0..255]
      BY WorldIs
    <3>2. d \in 0..255
      OBVIOUS
    <3> HIDE DEF t, m, d
    <3>3. [t EXCEPT ![i] = id] \in [Cells -> 0..255] /\ [m EXCEPT ![i] = d] \in [Cells -> 0..255]
      BY <3>1, <3>2
    <3> QED
      BY <3>3 DEF d
  <2>3. \A j \in Cells : /\ t2[j] = IF j = i THEN id ELSE t[j]
                         /\ m2[j] = IF j = i THEN (IF id \in hasdensity THEN density ELSE 0)
                                    ELSE m[j]
    BY WorldIs
  <2>4. /\ l2 \in Seq(Cells) /\ Len(l2) \in Nat /\ Len(l) \in Nat /\ Len(l) <= Len(l2)
        /\ \A k \in 1..Len(l) : l2[k] = l[k]
        /\ \A j, k \in 1..Len(l2) : l2[j] = l2[k] => j = k
        /\ id \in is_alive => \E k \in 1..Len(l2) : l2[k] = i
    <3>1. l \in Seq(Cells) /\ Len(l) \in Nat
      BY WorldIs, LenProperties
    <3>2. \A j, k \in 1..Len(l) : l[j] = l[k] => j = k
      BY WorldIs
    <3>3. CASE id \in is_alive /\ ~Contains(l, i)
      <4>1. l2 = Append(l, i)
        BY <3>3
      <4> HIDE DEF l, l2
      <4>2. /\ l2 \in Seq(Cells) /\ Len(l2) = Len(l) + 1
            /\ \A k \in 1..Len(l) : l2[k] = l[k]
            /\ l2[Len(l) + 1] = i
            /\ \A j, k \in 1..Len(l2) : l2[j] = l2[k] => j = k
        BY <3>1, <3>2, <3>3, <4>1, ListGrows
      <4> QED
        BY <3>1, <4>2
    <3>4. CASE ~(id \in is_alive /\ ~Contains(l, i))
      <4>1. l2 = l /\ (id \in is_alive => Contains(l, i))
        BY <3>4
      <4> HIDE DEF l, l2
      <4> QED
        BY <3>1, <3>2, <4>1 DEF Contains
    <3> QED
      BY <3>3, <3>4
  <2> HIDE DEF t2, m2, l2
  <2>5. ASSUME NEW j \in Cells
        PROVE  /\ t2[j] \in solid \cup {0} /\ g[j] \notin solid
               /\ m2[j] > 0 => t2[j] \in hasdensity \cup {alive_blue}
    BY <1>1, <2>3, WorldIs
  <2>6. ASSUME NEW j \in Cells, t2[j] \in is_alive PROVE \E k \in 1..Len(l2) : l2[k] = j
    <3>1. CASE j = i
      BY <2>3, <2>4, <2>6, <3>1
    <3>2. CASE j # i
      <4>1. PICK k \in 1..Len(l) : l[k] = j
        BY <2>3, <2>6, <3>2, WorldIs
      <4> QED
        BY <2>4, <4>1
    <3> QED
      BY <3>1, <3>2
  <2>7. w.iter \in Nat /\ w.iter <= Len(l2) /\ g \in [Cells -> 0..255]
    <3> DEFINE k == w.iter
    <3>1. k \in Nat /\ k <= Len(l) /\ g \in [Cells -> 0..255]
      BY WorldIs
    <3>2. Len(l) \in Nat /\ Len(l2) \in Nat /\ Len(l) <= Len(l2)
      BY <2>4
    <3> HIDE DEF l, g, k
    <3>3. k <= Len(l2)
      BY <3>1, <3>2
    <3> QED
      BY <3>1, <3>3 DEF k
  <2>8. World(t2, g, m2, l2, w.iter) \in Worlds
    <3> DEFINE k == w.iter
    <3> HIDE DEF t, g, m, l, k
    <3>1. k \in Nat /\ k <= Len(l2) /\ g \in [Cells -> 0..255]
      BY <2>7 DEF k
    <3>2. World(t2, g, m2, l2, k) \in Worlds
      BY <2>2, <2>4, <2>5, <2>6, <3>1, WorldMade
    <3> QED
      BY <3>2 DEF k
  <2> QED
    BY <2>1, <2>8
<1>2. CASE id \notin solid
  <2>1. SetTile(w, i, id, density) = World(t, g2, m, l, w.iter)
    <3> DEFINE k == w.iter
    <3> HIDE DEF t, g, m, l, k
    <3>1. SetTile(World(t, g, m, l, k), i, id, density) = World(t, g2, m, l, k)
      BY <1>2 DEF SetTile, World
    <3> HIDE DEF g2
    <3> QED
      BY <1>0, <3>1 DEF k
  <2>2. g2 \in [Cells -> 0..255]
    BY WorldIs
  <2>3. \A j \in Cells : g2[j] = IF j = i THEN id ELSE g[j]
    BY WorldIs
  <2> HIDE DEF g2
  <2>4. \A j \in Cells : g2[j] \notin solid
    BY <1>2, <2>3, WorldIs
  <2>5. World(t, g2, m, l, w.iter) \in Worlds
    BY ZenonT(30), <2>2, <2>4, WorldIs, WorldMade
  <2> QED
    BY <2>1, <2>5
<1> QED
  BY <1>1, <1>2

\* Layers that bring no alive block.
LEMMA LayersStay ==
    ASSUME NEW w \in Worlds, NEW t \in [Cells -> 0..255], NEW g \in [Cells -> 0..255],
           NEW m \in [Cells -> 0..255],
           \A j \in Cells : /\ t[j] \in solid \cup {0} /\ g[j] \notin solid
                            /\ m[j] > 0 => t[j] \in hasdensity \cup {alive_blue}
                            /\ t[j] \in is_alive => w.terrain[j] \in is_alive
    PROVE  World(t, g, m, w.alivesList, w.iter) \in Worlds
<1> DEFINE l == w.alivesList
           k == w.iter
<1>1. /\ l \in Seq(Cells) /\ k \in Nat /\ k <= Len(l)
      /\ \A i, j \in 1..Len(l) : l[i] = l[j] => i = j
  BY WorldIs
<1>2. \A i \in Cells : t[i] \in is_alive => \E n \in 1..Len(l) : l[n] = i
  BY WorldIs
<1> HIDE DEF l, k
<1>3. World(t, g, m, l, k) \in Worlds
  BY <1>1, <1>2, WorldMade
<1> QED
  BY <1>3 DEF l, k

LEMMA ClearTileStays ==
    ASSUME NEW w \in Worlds, NEW x, NEW y, NEW c \in BOOLEAN
    PROVE  ClearTile(w, x, y, c) \in Worlds
<1> DEFINE i == Index(x, y)
<1> SUFFICES ASSUME i \in Cells PROVE ClearTile(w, x, y, c) \in Worlds
  BY DEF ClearTile
<1> DEFINE t == w.terrain
           g == w.background
           m == w.blocksMeta
           l == w.alivesList
           k == w.iter
           b == IF c THEN road ELSE g[i]
           z == 0
           t2 == [t EXCEPT ![i] = z]
           g2 == [g EXCEPT ![i] = b]
           m2 == [m EXCEPT ![i] = z]
<1>0. w = World(t, g, m, l, k)
  BY WorldIs
<1>1. ClearTile(w, x, y, c) = World(t2, g2, m2, l, k)
  <2> HIDE DEF t, g, m, l, k, i
  <2>1. CASE c = TRUE
    BY <1>0, <2>1 DEF ClearTile, World, i
  <2>2. CASE c = FALSE
    BY <1>0, <2>2 DEF ClearTile, World, i
  <2> QED
    BY <2>1, <2>2
<1>2. /\ t \in [Cells -> 0..255] /\ g \in [Cells -> 0..255] /\ m \in [Cells -> 0..255]
      /\ \A j \in Cells : /\ t[j] \in solid \cup {0} /\ g[j] \notin solid
                          /\ m[j] > 0 => t[j] \in hasdensity \cup {alive_blue}
  BY ZenonT(30), WorldIs
<1>3. z \in 0..255 /\ b \in 0..255 /\ b \notin solid /\ z \notin is_alive /\ ~(z > 0) /\ z = 0
  BY <1>2, Kinds
<1> HIDE DEF t, g, m, l, k, b, z, i
<1>4. t2 \in [Cells -> 0..255] /\ g2 \in [Cells -> 0..255] /\ m2 \in [Cells -> 0..255]
  BY <1>2, <1>3
<1>5. ASSUME NEW j \in Cells
      PROVE  /\ t2[j] = IF j = i THEN z ELSE t[j]
             /\ g2[j] = IF j = i THEN b ELSE g[j]
             /\ m2[j] = IF j = i THEN z ELSE m[j]
  BY <1>2
<1> HIDE DEF t2, g2, m2
<1>6. \A j \in Cells : /\ t2[j] \in solid \cup {0} /\ g2[j] \notin solid
                       /\ m2[j] > 0 => t2[j] \in hasdensity \cup {alive_blue}
                       /\ t2[j] \in is_alive => t[j] \in is_alive
  BY <1>2, <1>3, <1>5
<1>7. World(t2, g2, m2, l, k) \in Worlds
  BY <1>4, <1>6, LayersStay DEF t, l, k
<1> QED
  BY <1>1, <1>7

LEMMA DiggTileStays ==
    ASSUME NEW w \in Worlds, NEW x, NEW y
    PROVE  DiggTile(w, x, y) \in Worlds
<1> DEFINE i == Index(x, y)
<1> SUFFICES ASSUME i \in Cells PROVE DiggTile(w, x, y) \in Worlds
  BY DEF DiggTile
<1> DEFINE t == w.terrain
           g == w.background
           m == w.blocksMeta
           l == w.alivesList
           k == w.iter
           z == 0
           d == m[i] - 1
           t2 == [t EXCEPT ![i] = z]
           m2 == [m EXCEPT ![i] = d]
<1>0. w = World(t, g, m, l, k)
  BY WorldIs
<1>2. /\ t \in [Cells -> 0..255] /\ g \in [Cells -> 0..255] /\ m \in [Cells -> 0..255]
      /\ \A j \in Cells : /\ t[j] \in solid \cup {0} /\ g[j] \notin solid
                          /\ m[j] > 0 => t[j] \in hasdensity \cup {alive_blue}
  BY ZenonT(30), WorldIs
<1>3. z \in 0..255 /\ z \notin is_alive /\ ~(z > 0) /\ z = 0
  BY Kinds
<1>4. CASE m[i] > 0
  <2>1. DiggTile(w, x, y) = World(t, g, m2, l, k)
    <3> HIDE DEF t, g, m, l, k, i
    <3> QED
      BY <1>0, <1>4 DEF DiggTile, World, i
  <2> HIDE DEF t, g, m, l, k, i
  <2>2. d \in 0..255
    BY <1>2, <1>4
  <2> HIDE DEF d
  <2>3. m2 \in [Cells -> 0..255] /\ \A j \in Cells : m2[j] = IF j = i THEN d ELSE m[j]
    BY <1>2, <2>2
  <2> HIDE DEF m2
  <2>4. \A j \in Cells : m2[j] > 0 => t[j] \in hasdensity \cup {alive_blue}
    BY <1>2, <1>4, <2>3
  <2>5. World(t, g, m2, l, k) \in Worlds
    BY <1>2, <2>3, <2>4, LayersStay DEF t, l, k
  <2> QED
    BY <2>1, <2>5
<1>5. CASE ~(m[i] > 0)
  <2>1. DiggTile(w, x, y) = World(t2, g, m, l, k)
    <3> HIDE DEF t, g, m, l, k, i
    <3> QED
      BY <1>0, <1>5 DEF DiggTile, World, i
  <2> HIDE DEF t, g, m, l, k, i, z
  <2>2. t2 \in [Cells -> 0..255] /\ \A j \in Cells : t2[j] = IF j = i THEN z ELSE t[j]
    BY <1>2, <1>3
  <2> HIDE DEF t2
  <2>3. \A j \in Cells : /\ t2[j] \in solid \cup {0}
                         /\ m[j] > 0 => t2[j] \in hasdensity \cup {alive_blue}
                         /\ t2[j] \in is_alive => t[j] \in is_alive
    BY <1>2, <1>3, <1>5, <2>2
  <2>4. World(t2, g, m, l, k) \in Worlds
    BY <1>2, <2>2, <2>3, LayersStay DEF t, l, k
  <2> QED
    BY <2>1, <2>4
<1> QED
  BY <1>4, <1>5

LEMMA SetTileWithCoordsStays ==
    ASSUME NEW w \in Worlds, NEW x, NEW y, NEW id \in 0..255, NEW density \in 0..255
    PROVE  SetTileWithCoords(w, x, y, id, density) \in Worlds
BY IndexInCells, SetTileStays DEF SetTileWithCoords

LEMMA SetTileWithIndexStays ==
    ASSUME NEW w \in Worlds, NEW i, NEW id \in 0..255, NEW density \in 0..255
    PROVE  SetTileWithIndex(w, i, id, density) \in Worlds
BY SetTileStays DEF SetTileWithIndex

\* The density of a block may change if the block may have one.
LEMMA SetDensityStays ==
    ASSUME NEW w \in Worlds, NEW x, NEW y, NEW density \in 0..255,
           density > 0 => w.terrain[Index(x, y)] = alive_blue
    PROVE  SetDensity(w, x, y, density) \in Worlds
<1> DEFINE i == Index(x, y)
<1> SUFFICES ASSUME ValidCoords(x, y) PROVE SetDensity(w, x, y, density) \in Worlds
  BY DEF SetDensity
<1> DEFINE t == w.terrain
           g == w.background
           m == w.blocksMeta
           l == w.alivesList
           k == w.iter
           m2 == [m EXCEPT ![i] = density]
<1>0. w = World(t, g, m, l, k)
  BY WorldIs
<1>1. SetDensity(w, x, y, density) = World(t, g, m2, l, k)
  <2> HIDE DEF t, g, m, l, k, i
  <2> QED
    BY <1>0 DEF SetDensity, World, i
<1>2. /\ t \in [Cells -> 0..255] /\ g \in [Cells -> 0..255] /\ m \in [Cells -> 0..255]
      /\ \A j \in Cells : /\ t[j] \in solid \cup {0} /\ g[j] \notin solid
                          /\ m[j] > 0 => t[j] \in hasdensity \cup {alive_blue}
  BY ZenonT(30), WorldIs
<1>3. i \in Cells /\ (density > 0 => t[i] = alive_blue)
  BY IndexInCells
<1> HIDE DEF t, g, m, l, k, i
<1>4. m2 \in [Cells -> 0..255] /\ \A j \in Cells : m2[j] = IF j = i THEN density ELSE m[j]
  BY <1>2, <1>3
<1> HIDE DEF m2
<1>5. \A j \in Cells : m2[j] > 0 => t[j] \in hasdensity \cup {alive_blue}
  BY <1>2, <1>3, <1>4
<1>6. World(t, g, m2, l, k) \in Worlds
  BY <1>2, <1>4, <1>5, LayersStay DEF t, l, k
<1> QED
  BY <1>1, <1>6

LEMMA ResyzeIsWorld == Resyze \in Worlds
<1> DEFINE t == [i \in Cells |-> 0]
           g == [i \in Cells |-> ground0]
           l == << >>
           k == 0
<1>1. t \in [Cells -> 0..255] /\ g \in [Cells -> 0..255] /\ l \in Seq(Cells) /\ Len(l) = 0
  BY Kinds
<1>2. \A i \in Cells : t[i] = 0 /\ g[i] = ground0
  OBVIOUS
<1>3. ground0 \notin solid /\ 0 \notin is_alive
  BY Kinds
<1>4. Resyze = World(t, g, t, l, k)
  BY DEF Resyze, World
<1>5. k \in Nat /\ k <= Len(l)
  BY <1>1
<1> HIDE DEF t, g, l, k
<1>6. \A i \in Cells : /\ t[i] \in solid \cup {0} /\ g[i] \notin solid
                       /\ t[i] > 0 => t[i] \in hasdensity \cup {alive_blue}
  BY <1>2, <1>3
<1>7. /\ \A i \in Cells : t[i] \in is_alive => \E n \in 1..Len(l) : l[n] = i
      /\ \A i, j \in 1..Len(l) : l[i] = l[j] => i = j
  BY <1>1, <1>2, <1>3
<1>8. World(t, g, t, l, k) \in Worlds
  BY ZenonT(30), <1>1, <1>5, <1>6, <1>7, WorldMade
<1> QED
  BY <1>4, <1>8
------------------------------------------------------------------------------
(***************************************************************************)
(* The folds.  Each is the value for all cells of the function it is       *)
(* defined by; that function exists since the step stays in Worlds.        *)
(***************************************************************************)
LEMMA StepOf ==
    ASSUME NEW n \in Nat, NEW s \in SUBSET (1..n), s # {}
    PROVE  Max(s) \in 1..n /\ s \ {Max(s)} \in SUBSET (1..n)
<1>1. s \in SUBSET (1..(n + 1))
  OBVIOUS
<1>2. Max(s) \in s
  BY <1>1, MaxIs
<1> QED
  BY <1>2

LEMMA ClearRectStays ==
    ASSUME NEW w \in Worlds, NEW xs \in Int, NEW ys \in Int, NEW width \in Nat, NEW height \in Nat
    PROVE  ClearRect(w, xs, ys, width, height) \in Worlds
<1> DEFINE n == width * height
           cells == RectCells(xs, ys, width, height)
           Op(v, k) == ClearTile(v, cells[k][1], cells[k][2], TRUE)
           step == [p \in Worlds \X (1..n) |-> Op(p[1], p[2])]
           IsFold(h) == h = [s \in SUBSET (1..n) |->
                               IF s = {} THEN w ELSE Op(h[s \ {Max(s)}], Max(s))]
<1>1. n \in Nat /\ DOMAIN cells = 1..n
  BY DEF RectCells
<1>2. ClearRect(w, xs, ys, width, height) = (CHOOSE h : IsFold(h))[1..n]
  <2> HIDE DEF n, cells
  <2> QED
    BY <1>1 DEF ClearRect, FoldLeft, MapThenFoldSet, cells
<1>3. \A v \in Worlds, k \in 1..n : Op(v, k) \in Worlds
  BY ClearTileStays
<1> HIDE DEF n, cells, Op
<1>4. step \in [Worlds \X (1..n) -> Worlds]
  BY <1>3
<1>5. \A v \in Worlds, k \in 1..n : step[<<v, k>>] = Op(v, k)
  OBVIOUS
<1> HIDE DEF step
<1>6. PICK f \in [SUBSET (1..n) -> Worlds] : FoldUpTo(n, f, w, step)
  BY <1>1, <1>4, FoldExists
<1>7. \A s \in SUBSET (1..n) : f[s] = IF s = {} THEN w ELSE Op(f[s \ {Max(s)}], Max(s))
  BY <1>1, <1>5, <1>6, StepOf DEF FoldUpTo
<1>8. IsFold(f)
  BY <1>6, <1>7
<1> DEFINE g == CHOOSE h : IsFold(h)
<1>9. IsFold(g)
  <2> HIDE DEF IsFold
  <2> QED
    BY <1>8
<1> HIDE DEF g
<1>10. g[1..n] \in Worlds
  <2>1. g[{}] = w
    BY <1>9
  <2>2. \A s \in SUBSET (1..n) : s # {} /\ g[s \ {Max(s)}] \in Worlds => g[s] \in Worlds
    BY <1>1, <1>3, <1>9, StepOf
  <2> QED
    BY <1>1, <2>1, <2>2, FoldStays
<1> QED
  BY <1>2, <1>10 DEF g
------------------------------------------------------------------------------
(* A saved world decodes to bytes.  The recursion goes to later positions. *)

Bytes == Seq(0..255)

\* Position i of the function that Decoded is defined by.
DecodeStep(data, f, i) ==
    IF i > Len(data) THEN << >>
    ELSE IF i <= Len(data) - 2 /\ data[i + 1] = 0
    THEN [j \in 1..data[i + 2] |-> data[i]] \o f[i + 3]
    ELSE <<data[i]>> \o f[i + 1]

LEMMA DecodeStepIs ==
    ASSUME NEW data \in Bytes, NEW f, NEW i \in 1..(Len(data) + 1),
           i <= Len(data) => f[i + 1] \in Bytes,
           i <= Len(data) - 2 => f[i + 3] \in Bytes
    PROVE  DecodeStep(data, f, i) \in Bytes
<1>1. Len(data) \in Nat /\ \A k \in 1..Len(data) : data[k] \in 0..255
  BY LenProperties, ElementOfSeq DEF Bytes
<1>2. CASE i > Len(data)
  BY <1>2 DEF DecodeStep, Bytes
<1>3. CASE i <= Len(data) - 2 /\ data[i + 1] = 0
  <2> DEFINE n == data[i + 2]
             d == data[i]
             run == [j \in 1..n |-> d]
             rest == f[i + 3]
  <2>1. n \in 0..255 /\ d \in 0..255 /\ rest \in Bytes
    BY <1>1, <1>3
  <2>0. ~(i > Len(data))
    BY <1>1, <1>3
  <2>2. DecodeStep(data, f, i) = run \o rest
    BY <1>3, <2>0, Zenon DEF DecodeStep
  <2> HIDE DEF n, d, rest
  <2>3. n \in Nat
    BY <2>1
  <2>4. run \in Seq(0..255)
    BY <2>1, <2>3
  <2> HIDE DEF run
  <2> QED
    BY <2>1, <2>2, <2>4, ConcatProperties DEF Bytes
<1>4. CASE i <= Len(data) /\ ~(i <= Len(data) - 2 /\ data[i + 1] = 0)
  <2> DEFINE d == data[i]
             rest == f[i + 1]
  <2>1. d \in 0..255 /\ rest \in Bytes
    BY <1>1, <1>4
  <2>2. DecodeStep(data, f, i) = <<d>> \o rest
    BY <1>1, <1>4 DEF DecodeStep
  <2> HIDE DEF d, rest
  <2>3. <<d>> \in Seq(0..255)
    BY <2>1
  <2> QED
    BY <2>1, <2>2, <2>3, ConcatProperties DEF Bytes
<1> QED
  BY <1>1, <1>2, <1>3, <1>4

\* Two functions that agree further on decode alike here.
LEMMA DecodeStepDepends ==
    ASSUME NEW data \in Bytes, NEW f, NEW h, NEW i \in 1..(Len(data) + 1),
           i <= Len(data) => f[i + 1] = h[i + 1],
           i <= Len(data) - 2 => f[i + 3] = h[i + 3]
    PROVE  DecodeStep(data, f, i) = DecodeStep(data, h, i)
<1>1. Len(data) \in Nat
  BY LenProperties DEF Bytes
<1>2. CASE i > Len(data)
  BY <1>2 DEF DecodeStep
<1>3. CASE i <= Len(data) - 2 /\ data[i + 1] = 0
  BY <1>1, <1>3 DEF DecodeStep
<1>4. CASE i <= Len(data) /\ ~(i <= Len(data) - 2 /\ data[i + 1] = 0)
  BY <1>1, <1>4 DEF DecodeStep
<1> QED
  BY <1>1, <1>2, <1>3, <1>4

LEMMA DecodedIsBytes ==
    ASSUME NEW data \in Bytes
    PROVE  Decoded(data) \in Bytes
<1> DEFINE L == Len(data)
           IsFrom(h) == h = [i \in 1..(L + 1) |-> DecodeStep(data, h, i)]
           Part(m) == (L + 1 - m)..(L + 1)
           Ex(m) == \E f \in [Part(m) -> Bytes] : \A i \in Part(m) : f[i] = DecodeStep(data, f, i)
           G == {m \in Nat : m <= L => Ex(m)}
<1>1. L \in Nat
  BY LenProperties DEF Bytes
<1>2. Decoded(data) = (CHOOSE h : IsFrom(h))[1]
  BY DEF Decoded, DecodeStep
<1>3. 0 \in G
  <2> DEFINE f == [i \in Part(0) |-> << >>]
  <2>1. f \in [Part(0) -> Bytes]
    BY DEF Bytes
  <2>2. ASSUME NEW i \in Part(0) PROVE f[i] = DecodeStep(data, f, i)
    BY <1>1 DEF DecodeStep
  <2>3. Ex(0)
    BY <2>1, <2>2
  <2> HIDE DEF Ex
  <2> QED
    BY <2>3
<1>4. ASSUME NEW m \in Nat, m \in G PROVE m + 1 \in G
  <2> SUFFICES ASSUME m + 1 <= L PROVE Ex(m + 1)
    <3> HIDE DEF Ex
    <3> QED
      OBVIOUS
  <2>1. Ex(m)
    <3> HIDE DEF Ex
    <3> QED
      BY <1>1, <1>4
  <2>2. PICK f \in [Part(m) -> Bytes] : \A i \in Part(m) : f[i] = DecodeStep(data, f, i)
    BY <2>1
  <2> DEFINE e == L - m
             d == DecodeStep(data, f, e)
             h == [i \in Part(m + 1) |-> IF i = e THEN d ELSE f[i]]
  <2>3. e \in 1..(L + 1) /\ e <= L
    BY <1>1
  <2>4. d \in Bytes
    <3>1. f[e + 1] \in Bytes /\ (e <= L - 2 => f[e + 3] \in Bytes)
      BY <1>1, <2>2
    <3> HIDE DEF e
    <3> QED
      BY <2>3, <3>1, DecodeStepIs
  <2>5. \A i \in Part(m + 1) : i = e \/ i \in Part(m)
    BY <1>1
  <2>6. \A i \in Part(m) : i # e /\ i \in Part(m + 1)
    BY <1>1
  <2>7. h \in [Part(m + 1) -> Bytes]
    BY <2>2, <2>4, <2>5
  <2>8. \A i \in Part(m) : h[i] = f[i]
    BY <2>6
  <2>9. h[e] = d
    BY <1>1
  <2> HIDE DEF h
  <2>10. ASSUME NEW i \in Part(m + 1) PROVE h[i] = DecodeStep(data, h, i)
    <3>1. /\ i \in 1..(L + 1)
          /\ i <= L => i + 1 \in Part(m)
          /\ i <= L - 2 => i + 3 \in Part(m)
      BY <1>1
    <3>2. DecodeStep(data, h, i) = DecodeStep(data, f, i)
      BY <2>8, <3>1, DecodeStepDepends
    <3> QED
      BY <2>2, <2>5, <2>8, <2>9, <3>2
  <2> QED
    BY <2>7, <2>10
<1>5. Ex(L)
  <2> HIDE DEF Ex
  <2>1. L \in G
    <3> HIDE DEF G
    <3> QED
      BY <1>1, <1>3, <1>4, Induction
  <2> QED
    BY <2>1, <1>1
<1>6. \E h : IsFrom(h)
  <2>1. PICK f \in [Part(L) -> Bytes] : \A i \in Part(L) : f[i] = DecodeStep(data, f, i)
    BY <1>5
  <2>2. Part(L) = 1..(L + 1)
    BY <1>1
  <2> QED
    BY <2>1, <2>2
<1> DEFINE g == CHOOSE h : IsFrom(h)
<1>7. IsFrom(g)
  <2> HIDE DEF IsFrom
  <2> QED
    BY <1>6
<1> HIDE DEF g, L
<1>8. g[1] \in Bytes
  <2> DEFINE H == {m \in Nat : m <= L => \A i \in Part(m) : g[i] \in Bytes}
  <2>1. ASSUME NEW i \in 1..(L + 1),
               i <= L => g[i + 1] \in Bytes,
               i <= L - 2 => g[i + 3] \in Bytes
        PROVE  g[i] \in Bytes
    <3>1. DecodeStep(data, g, i) \in Bytes
      BY <2>1, DecodeStepIs DEF L
    <3> QED
      BY <1>7, <3>1
  <2>2. 0 \in H
    <3>1. ASSUME NEW i \in Part(0) PROVE g[i] \in Bytes
      BY <1>1, <2>1
    <3> QED
      BY <3>1
  <2>3. ASSUME NEW m \in Nat, m \in H PROVE m + 1 \in H
    <3> SUFFICES ASSUME m + 1 <= L, NEW i \in Part(m + 1) PROVE g[i] \in Bytes
      OBVIOUS
    <3>1. \A j \in Part(m) : g[j] \in Bytes
      BY <1>1, <2>3
    <3>2. CASE i \in Part(m)
      BY <3>1, <3>2
    <3>3. CASE i \notin Part(m)
      <4>1. i \in 1..(L + 1) /\ (i <= L => i + 1 \in Part(m)) /\ (i <= L - 2 => i + 3 \in Part(m))
        BY <1>1
      <4> QED
        BY <2>1, <3>1, <4>1
    <3> QED
      BY <3>2, <3>3
  <2>4. L \in H
    <3> HIDE DEF H
    <3> QED
      BY <1>1, <2>2, <2>3, Induction
  <2> QED
    BY <1>1, <2>4
<1> QED
  BY <1>2, <1>8 DEF g
------------------------------------------------------------------------------
(* The other folds. *)

LEMMA LoadWorldStays ==
    ASSUME NEW data \in Bytes,
           NEW density \in [1..Len(Decoded(data)) -> Densities]
    PROVE  LoadWorld(data, density) \in Worlds
<1> DEFINE n == Len(Decoded(data))
           tiles == [k \in 1..n |-> k]
           ids == Decoded(data)
           Op(v, k) == SetTileWithIndex(v, tiles[k] - 1, ids[tiles[k]], density[tiles[k]])
           step == [p \in Worlds \X (1..n) |-> Op(p[1], p[2])]
           IsFold(h) == h = [s \in SUBSET (1..n) |->
                               IF s = {} THEN Resyze ELSE Op(h[s \ {Max(s)}], Max(s))]
<1>1. n \in Nat /\ DOMAIN tiles = 1..n
  BY DecodedIsBytes, LenProperties DEF Bytes
<1>2. LoadWorld(data, density) = (CHOOSE h : IsFold(h))[1..n]
  <2> HIDE DEF n, tiles
  <2> QED
    BY <1>1 DEF LoadWorld, n, ids, FoldLeft, MapThenFoldSet, tiles
<1>3. \A v \in Worlds, k \in 1..n : Op(v, k) \in Worlds
  <2>1. \A k \in 1..n : tiles[k] = k /\ ids[k] \in 0..255
    BY ZenonT(30), DecodedIsBytes, LenProperties DEF Bytes
  <2>2. \A k \in 1..n : density[k] \in 0..255
    <3>1. Densities \subseteq 0..10
      BY ClientAssumption
    <3>2. \A k \in 1..n : density[k] \in Densities
      OBVIOUS
    <3>3. Densities \subseteq 0..255
      BY <3>1
    <3> QED
      BY <3>2, <3>3, Zenon
  <2> HIDE DEF ids, tiles, n
  <2> QED
    BY <2>1, <2>2, SetTileWithIndexStays
<1>4. Resyze \in Worlds
  BY ResyzeIsWorld
<1> HIDE DEF n, tiles, Op
<1>5. step \in [Worlds \X (1..n) -> Worlds]
  BY <1>3
<1>6. \A v \in Worlds, k \in 1..n : step[<<v, k>>] = Op(v, k)
  OBVIOUS
<1> HIDE DEF step
<1>7. PICK f \in [SUBSET (1..n) -> Worlds] : FoldUpTo(n, f, Resyze, step)
  BY <1>1, <1>4, <1>5, FoldExists
<1>8. IsFold(f)
  <2>1. \A s \in SUBSET (1..n) : f[s] = IF s = {} THEN Resyze ELSE Op(f[s \ {Max(s)}], Max(s))
    BY <1>1, <1>6, <1>7, StepOf DEF FoldUpTo
  <2> QED
    BY <1>7, <2>1
<1> DEFINE g == CHOOSE h : IsFold(h)
<1>9. IsFold(g)
  <2> HIDE DEF IsFold
  <2> QED
    BY <1>8
<1> HIDE DEF g
<1>10. g[1..n] \in Worlds
  <2>1. g[{}] \in Worlds
    BY <1>4, <1>9
  <2>2. \A s \in SUBSET (1..n) : s # {} /\ g[s \ {Max(s)}] \in Worlds => g[s] \in Worlds
    BY <1>1, <1>3, <1>9, StepOf
  <2> QED
    BY <1>1, <2>1, <2>2, FoldStays
<1> QED
  BY <1>2, <1>10 DEF g

LEMMA MouseSetBlockStays ==
    ASSUME NEW x \in Int, NEW y \in Int, NEW id \in 0..255, NEW radius \in Nat,
           world \in Worlds
    PROVE  MouseSetBlock(x, y, id, radius) \in Worlds
<1> DEFINE n == (2 * radius + 1) * (2 * radius + 1)
           cells == RectCells(x - radius, y - radius, 2 * radius + 1, 2 * radius + 1)
           Op(v, k) == IF id # 0 THEN SetTileWithCoords(v, cells[k][1], cells[k][2], id, 0)
                       ELSE ClearTile(v, cells[k][1], cells[k][2], FALSE)
           step == [p \in Worlds \X (1..n) |-> Op(p[1], p[2])]
           IsFold(h) == h = [s \in SUBSET (1..n) |->
                               IF s = {} THEN world ELSE Op(h[s \ {Max(s)}], Max(s))]
<1>1. n \in Nat /\ DOMAIN cells = 1..n
  BY DEF RectCells
<1>2. MouseSetBlock(x, y, id, radius) = (CHOOSE h : IsFold(h))[1..n]
  <2> HIDE DEF n, cells
  <2> QED
    BY <1>1 DEF MouseSetBlock, FoldLeft, MapThenFoldSet, cells
<1>3. \A v \in Worlds, k \in 1..n : Op(v, k) \in Worlds
  <2> DEFINE z == 0
  <2>1. z \in 0..255
    OBVIOUS
  <2>2. \A v \in Worlds, k \in 1..n : ClearTile(v, cells[k][1], cells[k][2], FALSE) \in Worlds
    BY ClearTileStays
  <2>3. \A v \in Worlds, k \in 1..n :
            SetTileWithCoords(v, cells[k][1], cells[k][2], id, z) \in Worlds
    <3> HIDE DEF z, n, cells
    <3> QED
      BY <2>1, SetTileWithCoordsStays
  <2> QED
    BY <2>2, <2>3
<1>4. world \in Worlds
  OBVIOUS
<1> HIDE DEF n, cells, Op
<1>5. step \in [Worlds \X (1..n) -> Worlds]
  BY <1>3
<1>6. \A v \in Worlds, k \in 1..n : step[<<v, k>>] = Op(v, k)
  OBVIOUS
<1> HIDE DEF step
<1>7. PICK f \in [SUBSET (1..n) -> Worlds] : FoldUpTo(n, f, world, step)
  BY <1>1, <1>4, <1>5, FoldExists
<1>8. IsFold(f)
  <2>1. \A s \in SUBSET (1..n) : f[s] = IF s = {} THEN world ELSE Op(f[s \ {Max(s)}], Max(s))
    BY <1>1, <1>6, <1>7, StepOf DEF FoldUpTo
  <2> QED
    BY <1>7, <2>1
<1> DEFINE g == CHOOSE h : IsFold(h)
<1>9. IsFold(g)
  <2> HIDE DEF IsFold
  <2> QED
    BY <1>8
<1> HIDE DEF g
<1>10. g[1..n] \in Worlds
  <2>1. g[{}] \in Worlds
    BY <1>4, <1>9
  <2>2. \A s \in SUBSET (1..n) : s # {} /\ g[s \ {Max(s)}] \in Worlds => g[s] \in Worlds
    BY <1>1, <1>3, <1>9, StepOf
  <2> QED
    BY <1>1, <2>1, <2>2, FoldStays
<1> QED
  BY <1>2, <1>10 DEF g

LEMMA SetToSeqIs ==
    ASSUME NEW S \in SUBSET Bots
    PROVE  Cardinality(S) \in Nat /\ DOMAIN SetToSeq(S) = 1..Cardinality(S)
<1> DEFINE n == Cardinality(S)
<1>1. n \in Nat /\ ExistsBijection(1..n, S)
  BY ClientAssumption, FS_Subset, FS_CardinalityType
<1>2. PICK f \in [1..n -> S] : IsInjective(f)
  BY <1>1 DEF ExistsBijection, Bijection, Injection, IsInjective
<1>3. SetToSeq(S) \in [1..n -> S]
  BY <1>2 DEF SetToSeq
<1> QED
  BY <1>1, <1>3

LEMMA LookUnderStays ==
    ASSUME NEW w \in Worlds, NEW looked \in SUBSET Bots
    PROVE  FoldLeft(LAMBDA v, b : CheckBlockUnder(v, bots[b]), w, SetToSeq(looked)) \in Worlds
<1> DEFINE n == Cardinality(looked)
           order == SetToSeq(looked)
           Op(v, k) == CheckBlockUnder(v, bots[order[k]])
           step == [p \in Worlds \X (1..n) |-> Op(p[1], p[2])]
           IsFold(h) == h = [s \in SUBSET (1..n) |->
                               IF s = {} THEN w ELSE Op(h[s \ {Max(s)}], Max(s))]
<1>1. n \in Nat /\ DOMAIN order = 1..n
  BY SetToSeqIs
<1>2. FoldLeft(LAMBDA v, b : CheckBlockUnder(v, bots[b]), w, SetToSeq(looked)) = (CHOOSE h : IsFold(h))[1..n]
  <2> HIDE DEF n, order
  <2> QED
    BY <1>1 DEF FoldLeft, MapThenFoldSet, order
<1>3. \A v \in Worlds, k \in 1..n : Op(v, k) \in Worlds
  BY ClearTileStays DEF CheckBlockUnder
<1>4. w \in Worlds
  OBVIOUS
<1> HIDE DEF n, order, Op
<1>5. step \in [Worlds \X (1..n) -> Worlds]
  BY <1>3
<1>6. \A v \in Worlds, k \in 1..n : step[<<v, k>>] = Op(v, k)
  OBVIOUS
<1> HIDE DEF step
<1>7. PICK f \in [SUBSET (1..n) -> Worlds] : FoldUpTo(n, f, w, step)
  BY <1>1, <1>4, <1>5, FoldExists
<1>8. IsFold(f)
  <2>1. \A s \in SUBSET (1..n) : f[s] = IF s = {} THEN w ELSE Op(f[s \ {Max(s)}], Max(s))
    BY <1>1, <1>6, <1>7, StepOf DEF FoldUpTo
  <2> QED
    BY <1>7, <2>1
<1> DEFINE g == CHOOSE h : IsFold(h)
<1>9. IsFold(g)
  <2> HIDE DEF IsFold
  <2> QED
    BY <1>8
<1> HIDE DEF g
<1>10. g[1..n] \in Worlds
  <2>1. g[{}] \in Worlds
    BY <1>4, <1>9
  <2>2. \A s \in SUBSET (1..n) : s # {} /\ g[s \ {Max(s)}] \in Worlds => g[s] \in Worlds
    BY <1>1, <1>3, <1>9, StepOf
  <2> QED
    BY <1>1, <2>1, <2>2, FoldStays
<1> QED
  BY <1>2, <1>10 DEF g
------------------------------------------------------------------------------
(* What alive blocks produce. *)

LEMMA HardnessIs ==
    ASSUME NEW w, NEW x, NEW y, NEW block \in is_alive
    PROVE  CalculateAliveProductHardness(w, x, y, block) \in 0..255
<1> DEFINE H(k) == GetIDByCoord_Terrain(w, x + Sides[k][1], y + Sides[k][2]) = rock_hypno
           S == {k \in 1..4 : H(k)}
           a == AliveProductHardness[block]
           c == Cardinality(S)
<1>1. CalculateAliveProductHardness(w, x, y, block) = a * (1 + c)
  BY DEF CalculateAliveProductHardness
<1>2. c \in 0..4
  <2>1. IsFiniteSet(1..4) /\ Cardinality(1..4) = 4
    <3> DEFINE lo == 1
               hi == 4
    <3>1. lo \in Int /\ hi \in Int /\ lo <= hi /\ hi - lo + 1 = 4
      OBVIOUS
    <3> HIDE DEF lo, hi
    <3>2. IsFiniteSet(lo..hi) /\ Cardinality(lo..hi) = hi - lo + 1
      BY <3>1, FS_Interval
    <3> QED
      BY <3>1, <3>2 DEF lo, hi
  <2>2. S \in SUBSET (1..4)
    OBVIOUS
  <2> HIDE DEF S
  <2>3. c \in Nat /\ c <= Cardinality(1..4)
    BY <2>1, <2>2, FS_Subset, FS_CardinalityType
  <2> QED
    BY <2>1, <2>3
<1>3. a \in {1, 2, 8, 20}
  BY DEF AliveProductHardness
<1> HIDE DEF a, c
<1>4. c \in {0, 1, 2, 3, 4}
  BY <1>2
<1>5. a * (1 + c) \in 0..255
  BY <1>3, <1>4
<1> QED
  BY <1>1, <1>5

Producers == {alive_cyan, alive_red, alive_vio, alive_white}

LEMMA ProductIs ==
    /\ Producers \subseteq is_alive
    /\ \A b \in Producers : Product[b] \in 0..255
    /\ cry_blue \in 0..255 /\ alive_blue \in 0..255
BY DEF Product, Producers, is_alive, alive_cyan, alive_red, alive_vio, alive_white,
       cry_cyan, cry_red, cry_vio, cry_white, cry_blue, alive_blue

LEMMA SetIfFreeStays ==
    ASSUME NEW w \in Worlds, NEW x, NEW y, NEW block \in 0..255, NEW h \in 0..255
    PROVE  SetIfFree(w, x, y, block, h) \in Worlds
BY SetTileWithCoordsStays DEF SetIfFree

LEMMA ProduceIn ==
    ASSUME NEW V, NEW w \in V, NEW x, NEW y, NEW block \in Producers,
           NEW sides, NEW n \in Nat, DOMAIN sides = 1..n,
           \A v \in V, h \in 0..255 : \A a, b : SetIfFree(v, a, b, Product[block], h) \in V
    PROVE  Produce(w, x, y, block, sides) \in V
<1> DEFINE hard == CalculateAliveProductHardness(w, x, y, block)
           Op(v, k) == SetIfFree(v, x + sides[k][1], y + sides[k][2], Product[block], hard)
           step == [p \in V \X (1..n) |-> Op(p[1], p[2])]
           IsFold(h) == h = [s \in SUBSET (1..n) |->
                               IF s = {} THEN w ELSE Op(h[s \ {Max(s)}], Max(s))]
<1>1. hard \in 0..255
  BY HardnessIs, ProductIs
<1>2. Produce(w, x, y, block, sides) = (CHOOSE h : IsFold(h))[1..n]
  BY DEF Produce, FoldLeft, MapThenFoldSet
<1>3. \A v \in V, k \in 1..n : Op(v, k) \in V
  <2> HIDE DEF hard
  <2> QED
    BY <1>1
<1> HIDE DEF Op
<1>4. step \in [V \X (1..n) -> V]
  BY <1>3
<1>5. \A v \in V, k \in 1..n : step[<<v, k>>] = Op(v, k)
  OBVIOUS
<1> HIDE DEF step
<1>6. PICK f \in [SUBSET (1..n) -> V] : FoldUpTo(n, f, w, step)
  BY <1>4, FoldExists
<1>7. IsFold(f)
  <2>1. \A s \in SUBSET (1..n) : f[s] = IF s = {} THEN w ELSE Op(f[s \ {Max(s)}], Max(s))
    BY <1>5, <1>6, StepOf DEF FoldUpTo
  <2> QED
    BY <1>6, <2>1
<1> DEFINE g == CHOOSE h : IsFold(h)
<1>8. IsFold(g)
  <2> HIDE DEF IsFold
  <2> QED
    BY <1>7
<1> HIDE DEF g
<1>9. g[1..n] \in V
  <2>1. g[{}] \in V
    BY <1>8
  <2>2. \A s \in SUBSET (1..n) : s # {} /\ g[s \ {Max(s)}] \in V => g[s] \in V
    BY <1>3, <1>8, StepOf
  <2> QED
    BY <2>1, <2>2, FoldStays
<1> QED
  BY <1>2, <1>9 DEF g

LEMMA ProduceStays ==
    ASSUME NEW w \in Worlds, NEW x, NEW y, NEW block \in Producers,
           NEW sides, NEW n \in Nat, DOMAIN sides = 1..n
    PROVE  Produce(w, x, y, block, sides) \in Worlds
<1> DEFINE id == Product[block]
<1>1. id \in 0..255
  BY ProductIs
<1> HIDE DEF id
<1>2. \A v \in Worlds, h \in 0..255 : \A a, b : SetIfFree(v, a, b, id, h) \in Worlds
  BY <1>1, SetIfFreeStays
<1> QED
  BY <1>2, ProduceIn DEF id

LEMMA SetTileTerrain ==
    ASSUME NEW w \in Worlds, NEW x, NEW y, ValidCoords(x, y), NEW id \in solid, NEW density
    PROVE  SetTileWithCoords(w, x, y, id, density).terrain = [w.terrain EXCEPT ![Index(x, y)] = id]
<1> DEFINE t == w.terrain
           g == w.background
           m == w.blocksMeta
           l == w.alivesList
           k == w.iter
           j == Index(x, y)
           d == IF id \in hasdensity THEN density ELSE 0
           a == IF id \in is_alive /\ ~Contains(l, j) THEN Append(l, j) ELSE l
           v == SetTileWithCoords(w, x, y, id, density)
<1>1. w = World(t, g, m, l, k)
  BY WorldIs
<1>2. v = World([t EXCEPT ![j] = id], g, [m EXCEPT ![j] = d], a, k)
  <2>1. v = SetTile(w, j, id, density)
    BY DEF SetTileWithCoords
  <2> HIDE DEF t, g, m, l, k, j, v
  <2> QED
    BY <1>1, <2>1 DEF SetTile, World
<1> HIDE DEF t, g, m, l, k, j, v, d, a
<1>3. v.terrain = [t EXCEPT ![j] = id]
  BY <1>2 DEF World
<1> QED
  BY <1>3 DEF v, t, j

LEMMA ClearTileTerrain ==
    ASSUME NEW w \in Worlds, NEW x, NEW y, ValidCoords(x, y)
    PROVE  ClearTile(w, x, y, FALSE).terrain = [w.terrain EXCEPT ![Index(x, y)] = 0]
<1> DEFINE t == w.terrain
           g == w.background
           m == w.blocksMeta
           l == w.alivesList
           k == w.iter
           j == Index(x, y)
           z == 0
           v == ClearTile(w, x, y, FALSE)
<1>1. w = World(t, g, m, l, k) /\ j \in Cells /\ g \in [Cells -> 0..255]
  BY WorldIs, IndexInCells
<1>2. v = World([t EXCEPT ![j] = z], [g EXCEPT ![j] = g[j]], [m EXCEPT ![j] = z], l, k)
  <2> HIDE DEF t, g, m, l, k, j
  <2> QED
    BY <1>1 DEF ClearTile, World, j
<1> HIDE DEF t, g, m, l, k, j, v, z
<1>3. v.terrain = [t EXCEPT ![j] = z]
  BY <1>2 DEF World
<1> QED
  BY <1>3 DEF v, t, j, z

LEMMA SetDensityTerrain ==
    ASSUME NEW w \in Worlds, NEW x, NEW y, NEW density
    PROVE  SetDensity(w, x, y, density).terrain = w.terrain
<1> DEFINE t == w.terrain
           g == w.background
           m == w.blocksMeta
           l == w.alivesList
           k == w.iter
           j == Index(x, y)
           v == SetDensity(w, x, y, density)
<1>1. w = World(t, g, m, l, k)
  BY WorldIs
<1>2. v = w \/ v = World(t, g, [m EXCEPT ![j] = density], l, k)
  <2> HIDE DEF t, g, m, l, k, j
  <2> QED
    BY <1>1 DEF SetDensity, World, j
<1> HIDE DEF t, g, m, l, k, j, v
<1>3. v.terrain = t
  BY <1>1, <1>2 DEF World
<1> QED
  BY <1>3 DEF v, t

\* The two steps of a blue block into a free cell.
LEMMA BlueArrives ==
    ASSUME NEW w \in Worlds, NEW x, NEW y, ValidCoords(x, y), NEW w1,
           w1 = SetTileWithCoords(w, x, y, alive_blue, 0)
    PROVE  /\ SetDensity(w1, x, y, 1) \in Worlds
           /\ SetDensity(w1, x, y, 1).terrain = [w.terrain EXCEPT ![Index(x, y)] = alive_blue]
<1> DEFINE z == 0
           one == 1
           i == Index(x, y)
<1>1. z \in 0..255 /\ one \in 0..255 /\ i \in Cells /\ alive_blue \in solid
  BY IndexInCells, Kinds
<1>2. w1 = SetTileWithCoords(w, x, y, alive_blue, z)
  OBVIOUS
<1> HIDE DEF z, one, i
<1>3. w1 \in Worlds
  BY ZenonT(30), <1>1, <1>2, ProductIs, SetTileWithCoordsStays
<1>4. w1.terrain = [w.terrain EXCEPT ![i] = alive_blue]
  BY <1>1, <1>2, SetTileTerrain DEF i
<1>5. w1.terrain[i] = alive_blue
  BY <1>1, <1>4, WorldIs
<1>6. SetDensity(w1, x, y, one) \in Worlds /\ SetDensity(w1, x, y, one).terrain = w1.terrain
  <2>1. w1.terrain[Index(x, y)] = alive_blue
    BY <1>5 DEF i
  <2>2. SetDensity(w1, x, y, one) \in Worlds
    BY <1>1, <1>3, <2>1, SetDensityStays
  <2> QED
    BY <1>3, <2>2, SetDensityTerrain
<1> QED
  BY <1>4, <1>6 DEF one, i

LEMMA MoveBlueStays ==
    ASSUME NEW w \in Worlds, NEW x, NEW y, NEW s
    PROVE  MoveBlue(w, x, y, s) \in Worlds
<1> DEFINE mx == x + s[1]
           my == y + s[2]
           hard == CalculateAliveProductHardness(w, x, y, alive_blue)
           w1 == SetTileWithCoords(w, mx, my, alive_blue, 0)
           w2 == SetDensity(w1, mx, my, 1)
           w3 == SetTileWithCoords(w2, x, y, cry_blue, hard)
<1> SUFFICES ASSUME Free(w, mx, my) PROVE w3 \in Worlds
  BY DEF MoveBlue
<1>1. ValidCoords(mx, my)
  BY Kinds DEF Free, GetIDByCoord_Terrain
<1>2. hard \in 0..255
  BY HardnessIs, Kinds
<1> HIDE DEF mx, my, hard
<1>3. w2 \in Worlds
  BY <1>1, BlueArrives
<1> HIDE DEF w2
<1> QED
  BY <1>2, <1>3, ProductIs, SetTileWithCoordsStays

\* The cases of AliveGrowth.
LEMMA AliveGrowthIs ==
    ASSUME NEW w, NEW x, NEW y
    PROVE  LET block == GetIDByCoord_Terrain(w, x, y) IN
           \/ /\ block \in {alive_cyan, alive_red, alive_vio}
              /\ AliveGrowth(w, x, y) = {Produce(w, x, y, block, Sides)}
           \/ /\ block = alive_white /\ GetIDByCoord(w, x, y - 1) = magma
              /\ AliveGrowth(w, x, y) =
                    {ClearTile(Produce(w, x, y, block, WhiteSides), x, y - 1, FALSE)}
           \/ AliveGrowth(w, x, y) = {SetDensity(w, x, y, 0)}
           \/ /\ block = alive_blue
              /\ AliveGrowth(w, x, y) = {MoveBlue(w, x, y, Sides[k]) : k \in 1..4}
           \/ AliveGrowth(w, x, y) = {w}
<1> DEFINE block == GetIDByCoord_Terrain(w, x, y)
           moves == {MoveBlue(w, x, y, Sides[k]) : k \in 1..4}
           C1 == block = alive_cyan \/ (block \in {alive_red, alive_vio} /\ IsBlackRockNear(w, x, y))
           C2 == block = alive_white /\ GetIDByCoord(w, x, y - 1) = magma
           C3 == block = alive_blue
           D == GetDensity(w, x, y) > 0
           grown == Produce(w, x, y, block, Sides)
           cleared == ClearTile(Produce(w, x, y, block, WhiteSides), x, y - 1, FALSE)
           rested == SetDensity(w, x, y, 0)
<1>1. AliveGrowth(w, x, y) = CASE C1 -> {grown} [] C2 -> {cleared}
                               [] C3 -> (IF D THEN {rested} ELSE moves) [] OTHER -> {w}
  BY Zenon DEF AliveGrowth
<1> HIDE DEF C1, C2, C3, D, grown, cleared, rested, moves
<1>2. \/ C1 /\ AliveGrowth(w, x, y) = {grown}
      \/ C2 /\ AliveGrowth(w, x, y) = {cleared}
      \/ AliveGrowth(w, x, y) = {rested}
      \/ C3 /\ AliveGrowth(w, x, y) = moves
      \/ AliveGrowth(w, x, y) = {w}
  BY <1>1
<1>3. C1 => block \in {alive_cyan, alive_red, alive_vio}
  BY DEF C1
<1> QED
  BY <1>2, <1>3 DEF C2, C3, grown, cleared, rested, moves

LEMMA AliveGrowthStays ==
    ASSUME NEW w \in Worlds, NEW x, NEW y
    PROVE  AliveGrowth(w, x, y) \subseteq Worlds
<1> DEFINE block == GetIDByCoord_Terrain(w, x, y)
           z == 0
<1>1. ASSUME block \in Producers PROVE Produce(w, x, y, block, Sides) \in Worlds
  <2> DEFINE n == 4
             sides == Sides
  <2>1. n \in Nat /\ DOMAIN sides = 1..n
    BY DEF Sides
  <2> HIDE DEF block, n, sides
  <2>2. Produce(w, x, y, block, sides) \in Worlds
    BY <1>1, <2>1, ProduceStays
  <2> QED
    BY <2>2 DEF sides
<1>2. ASSUME block \in Producers PROVE Produce(w, x, y, block, WhiteSides) \in Worlds
  <2> DEFINE n == 7
             sides == WhiteSides
  <2>1. n \in Nat /\ DOMAIN sides = 1..n
    BY DEF WhiteSides
  <2> HIDE DEF block, n, sides
  <2>2. Produce(w, x, y, block, sides) \in Worlds
    BY <1>2, <2>1, ProduceStays
  <2> QED
    BY <2>2 DEF sides
<1>3. /\ alive_cyan \in Producers /\ alive_red \in Producers
      /\ alive_vio \in Producers /\ alive_white \in Producers
  BY DEF Producers
<1>4. SetDensity(w, x, y, z) \in Worlds
  <2>1. z \in 0..255 /\ ~(z > 0)
    OBVIOUS
  <2> HIDE DEF z
  <2> QED
    BY <2>1, SetDensityStays
<1>5. {MoveBlue(w, x, y, Sides[k]) : k \in 1..4} \subseteq Worlds
  BY MoveBlueStays
<1> DEFINE grown == Produce(w, x, y, block, Sides)
           white == Produce(w, x, y, block, WhiteSides)
           C1 == block \in {alive_cyan, alive_red, alive_vio}
           C2 == block = alive_white /\ GetIDByCoord(w, x, y - 1) = magma
<1>6. ASSUME C2 PROVE ClearTile(white, x, y - 1, FALSE) \in Worlds
  <2>1. white \in Worlds
    BY <1>2, <1>3, <1>6
  <2> HIDE DEF white
  <2> QED
    BY <2>1, ClearTileStays
<1>7. C1 => grown \in Worlds
  BY <1>1, <1>3
<1>8. \/ C1 /\ AliveGrowth(w, x, y) = {grown}
      \/ C2 /\ AliveGrowth(w, x, y) = {ClearTile(white, x, y - 1, FALSE)}
      \/ AliveGrowth(w, x, y) = {SetDensity(w, x, y, z)}
      \/ AliveGrowth(w, x, y) = {MoveBlue(w, x, y, Sides[k]) : k \in 1..4}
      \/ AliveGrowth(w, x, y) = {w}
  BY AliveGrowthIs
<1> HIDE DEF C1, C2, grown, white
<1> QED
  BY <1>4, <1>5, <1>6, <1>7, <1>8
------------------------------------------------------------------------------
(* The walk over the alive list. *)

LEMMA IterStays ==
    ASSUME NEW w \in Worlds, NEW k \in Nat, k <= Len(w.alivesList)
    PROVE  [w EXCEPT !.iter = k] \in Worlds
<1> DEFINE t == w.terrain
           g == w.background
           m == w.blocksMeta
           l == w.alivesList
           n == w.iter
<1>0. w = World(t, g, m, l, n)
  BY WorldIs
<1>1. [w EXCEPT !.iter = k] = World(t, g, m, l, k)
  <2> HIDE DEF t, g, m, l, n
  <2> QED
    BY <1>0 DEF World
<1>2. World(t, g, m, l, k) \in Worlds
  BY ZenonT(30), WorldIs, WorldMade
<1> QED
  BY <1>1, <1>2

LEMMA RemoveAtIs ==
    ASSUME NEW l \in Seq(Cells), NEW p \in 1..Len(l)
    PROVE  /\ RemoveAt(l, p) \in Seq(Cells) /\ Len(RemoveAt(l, p)) = Len(l) - 1
           /\ \A j \in 1..(Len(l) - 1) : RemoveAt(l, p)[j] = IF j < p THEN l[j] ELSE l[j + 1]
<1> DEFINE n == Len(l)
           a == SubSeq(l, 1, p - 1)
           b == SubSeq(l, p + 1, n)
<1>1. n \in Nat /\ \A i \in 1..n : l[i] \in Cells
  BY LenProperties, ElementOfSeq
<1>2. /\ a \in Seq(Cells) /\ Len(a) = p - 1
      /\ \A i \in 1..(p - 1) : a[i] = l[i]
  <2> DEFINE one == 1
             q == p - 1
  <2>1. one \in Int /\ q \in Int /\ \A i \in one..q : l[i] \in Cells
    BY <1>1
  <2> HIDE DEF one, q, n
  <2>2. /\ SubSeq(l, one, q) \in Seq(Cells)
        /\ Len(SubSeq(l, one, q)) = IF one <= q THEN q - one + 1 ELSE 0
        /\ \A i \in 1..(q - one + 1) : SubSeq(l, one, q)[i] = l[one + i - 1]
    BY <2>1, SubSeqProperties
  <2>3. p \in Int /\ p >= 1
    BY <1>1 DEF n
  <2> QED
    BY <2>2, <2>3 DEF one, q
<1>3. /\ b \in Seq(Cells) /\ Len(b) = n - p
      /\ \A i \in 1..(n - p) : b[i] = l[p + i]
  <2> DEFINE q == p + 1
  <2>1. q \in Int /\ n \in Int /\ \A i \in q..n : l[i] \in Cells
    BY <1>1
  <2> HIDE DEF q, n
  <2>2. /\ SubSeq(l, q, n) \in Seq(Cells)
        /\ Len(SubSeq(l, q, n)) = IF q <= n THEN n - q + 1 ELSE 0
        /\ \A i \in 1..(n - q + 1) : SubSeq(l, q, n)[i] = l[q + i - 1]
    BY <2>1, SubSeqProperties
  <2>3. p \in Int /\ p <= n
    BY <1>1 DEF n
  <2> QED
    BY <1>1, <2>2, <2>3 DEF q
<1>4. RemoveAt(l, p) = a \o b
  BY DEF RemoveAt
<1> HIDE DEF a, b, n
<1>5. /\ a \o b \in Seq(Cells) /\ Len(a \o b) = Len(a) + Len(b)
      /\ \A i \in 1..(Len(a) + Len(b)) :
            (a \o b)[i] = IF i <= Len(a) THEN a[i] ELSE b[i - Len(a)]
  BY <1>2, <1>3, ConcatProperties
<1>6. p \in 1..n
  BY DEF n
<1> DEFINE c == a \o b
<1> HIDE DEF c
<1>7. c \in Seq(Cells) /\ Len(c) = n - 1
  BY <1>1, <1>2, <1>3, <1>5, <1>6 DEF c
<1>8. ASSUME NEW j \in 1..(n - 1) PROVE c[j] = IF j < p THEN l[j] ELSE l[j + 1]
  <2>1. c[j] = IF j <= p - 1 THEN a[j] ELSE b[j - (p - 1)]
    BY <1>1, <1>2, <1>3, <1>5, <1>6 DEF c
  <2>2. CASE j < p
    BY <1>2, <1>6, <2>1, <2>2
  <2>3. CASE ~(j < p)
    <3>1. j - (p - 1) \in 1..(n - p) /\ p + (j - (p - 1)) = j + 1
      BY <1>1, <1>6, <2>3
    <3>2. b[j - (p - 1)] = l[j + 1]
      BY <1>3, <3>1
    <3> QED
      BY <1>6, <2>1, <2>3, <3>2
  <2> QED
    BY <2>2, <2>3
<1> QED
  BY <1>4, <1>7, <1>8 DEF c, n

\* A dead entry leaves the list; the iterator stays before it.
LEMMA RemoveStays ==
    ASSUME NEW w \in Worlds, NEW p \in 1..Len(w.alivesList), w.iter = p - 1,
           w.terrain[w.alivesList[p]] \notin is_alive
    PROVE  [w EXCEPT !.alivesList = RemoveAt(@, p)] \in Worlds
<1> DEFINE t == w.terrain
           g == w.background
           m == w.blocksMeta
           l == w.alivesList
           k == w.iter
           r == RemoveAt(l, p)
           n == Len(l)
<1>0. w = World(t, g, m, l, k)
  BY WorldIs
<1>1. [w EXCEPT !.alivesList = RemoveAt(@, p)] = World(t, g, m, r, k)
  <2> HIDE DEF t, g, m, l, k
  <2> QED
    BY <1>0 DEF World
<1>2. /\ l \in Seq(Cells)
      /\ \A i, j \in 1..n : l[i] = l[j] => i = j
      /\ \A i \in Cells : t[i] \in is_alive => \E j \in 1..n : l[j] = i
  BY WorldIs
<1>3. n \in Nat /\ p \in 1..n /\ k \in Nat /\ k = p - 1
  BY <1>2, LenProperties, WorldIs
<1>4. t[l[p]] \notin is_alive
  OBVIOUS
<1>5. /\ r \in Seq(Cells) /\ Len(r) = n - 1
      /\ \A j \in 1..(n - 1) : r[j] = IF j < p THEN l[j] ELSE l[j + 1]
  <2> HIDE DEF l
  <2> QED
    BY <1>2, <1>3, RemoveAtIs
<1> HIDE DEF t, g, m, l, k, r, n
<1>6. ASSUME NEW i \in Cells, t[i] \in is_alive PROVE \E j \in 1..Len(r) : r[j] = i
  <2>1. PICK j \in 1..n : l[j] = i
    BY <1>2, <1>6
  <2>2. j # p
    BY <1>4, <1>6, <2>1
  <2>3. CASE j < p
    <3>1. j \in 1..(n - 1) /\ r[j] = l[j]
      BY <1>3, <1>5, <2>3
    <3> QED
      BY <1>5, <2>1, <3>1
  <2>4. CASE j > p
    <3>1. j - 1 \in 1..(n - 1) /\ ~(j - 1 < p) /\ (j - 1) + 1 = j
      BY <1>3, <2>4
    <3>2. r[j - 1] = l[j]
      BY <1>5, <3>1
    <3> QED
      BY <1>5, <2>1, <3>1, <3>2
  <2> QED
    BY <1>3, <2>2, <2>3, <2>4
<1>7. ASSUME NEW i \in 1..Len(r), NEW j \in 1..Len(r), r[i] = r[j] PROVE i = j
  <2> DEFINE q(a) == IF a < p THEN a ELSE a + 1
  <2>1. \A a \in 1..(n - 1) : q(a) \in 1..n /\ r[a] = l[q(a)]
    BY <1>3, <1>5
  <2>2. i \in 1..(n - 1) /\ j \in 1..(n - 1)
    BY <1>5
  <2>3. q(i) = q(j)
    <3> HIDE DEF q
    <3> QED
      BY <1>2, <1>7, <2>1, <2>2
  <2> QED
    BY <1>3, <2>2, <2>3
<1>8. k <= Len(r)
  BY <1>3, <1>5
<1>9. /\ t \in [Cells -> 0..255] /\ g \in [Cells -> 0..255] /\ m \in [Cells -> 0..255]
      /\ \A i \in Cells : /\ t[i] \in solid \cup {0} /\ g[i] \notin solid
                          /\ m[i] > 0 => t[i] \in hasdensity \cup {alive_blue}
  BY ZenonT(30), WorldIs DEF t, g, m
<1>10. World(t, g, m, r, k) \in Worlds
  BY <1>3, <1>5, <1>6, <1>7, <1>8, <1>9, WorldMade
<1> QED
  BY <1>1, <1>10

LEMMA VisitStays ==
    ASSUME NEW w \in Worlds
    PROVE  Visit(w) \subseteq Worlds
<1> DEFINE l == w.alivesList
           k == w.iter
           p == k + 1
           z == 0
<1>1. k \in Nat /\ k <= Len(l) /\ Len(l) \in Nat /\ w.terrain \in [Cells -> 0..255]
  BY ZenonT(30), WorldIs, LenProperties
<1>2. [w EXCEPT !.iter = z] \in Worlds
  <2>1. z \in Nat /\ z <= Len(l)
    BY <1>1
  <2> HIDE DEF z
  <2> QED
    BY <2>1, IterStays
<1>3. CASE k >= Len(l)
  <2>1. Visit(w) = {[w EXCEPT !.iter = z]}
    BY <1>3 DEF Visit
  <2> QED
    BY <1>2, <2>1
<1>4. CASE ~(k >= Len(l))
  <2>1. p \in Nat /\ p \in 1..Len(l) /\ k = p - 1 /\ p <= Len(l)
    BY <1>1, <1>4
  <2> DEFINE val == l[p]
             u == [w EXCEPT !.iter = p]
  <2>2. CASE w.terrain[val] \in is_alive
    <3>1. u \in Worlds
      <4> HIDE DEF p
      <4> QED
        BY <2>1, IterStays
    <3>2. Visit(w) = AliveGrowth(u, X(val), Y(val))
      BY <1>4, <2>2 DEF Visit
    <3> HIDE DEF u, val
    <3> QED
      BY <3>1, <3>2, AliveGrowthStays
  <2>3. CASE w.terrain[val] \notin is_alive
    <3>1. Visit(w) = {[w EXCEPT !.alivesList = RemoveAt(@, p)]}
      BY <1>4, <2>3 DEF Visit
    <3>2. [w EXCEPT !.alivesList = RemoveAt(@, p)] \in Worlds
      <4>1. w.terrain[w.alivesList[p]] \notin is_alive /\ w.iter = p - 1 /\ p \in 1..Len(w.alivesList)
        BY <2>1, <2>3
      <4> HIDE DEF p
      <4> QED
        BY <4>1, RemoveStays
    <3> QED
      BY <3>1, <3>2
  <2> QED
    BY <2>2, <2>3
<1> QED
  BY <1>3, <1>4

LEMMA GrowthIn ==
    ASSUME NEW V, NEW w \in V, \A v \in V : Visit(v) \subseteq V
    PROVE  Growth(w) \subseteq V
<1> DEFINE n == GrowthBatch
           Op(u, k) == UNION {Visit(v) : v \in u}
           step == [p \in (SUBSET V) \X (1..n) |-> Op(p[1], p[2])]
           IsAfter(h) == h = [k \in 0..n |-> IF k = 0 THEN {w} ELSE Op(h[k - 1], k)]
<1>1. n \in Nat
  BY PhysicsAssumption
<1>2. Growth(w) = (CHOOSE h : IsAfter(h))[n]
  BY DEF Growth
<1>3. \A u \in SUBSET V, k \in 1..n : Op(u, k) \in SUBSET V
  OBVIOUS
<1> HIDE DEF Op, n
<1>4. step \in [(SUBSET V) \X (1..n) -> SUBSET V]
  BY <1>3
<1>5. \A u \in SUBSET V, k \in 1..n : step[<<u, k>>] = Op(u, k)
  OBVIOUS
<1> HIDE DEF step
<1>6. PICK f \in [0..n -> SUBSET V] :
          f[0] = {w} /\ \A k \in 1..n : f[k] = step[<<f[k - 1], k>>]
  <2> DEFINE S == SUBSET V
             base == {w}
  <2>1. base \in S /\ step \in [S \X (1..n) -> S]
    BY <1>4
  <2> HIDE DEF S, base
  <2>2. \E f \in [0..n -> S] : ChainUpTo(n, f, base, step)
    BY <1>1, <2>1, ChainExists
  <2> QED
    BY <2>2 DEF S, base, ChainUpTo
<1>7. IsAfter(f)
  <2>1. ASSUME NEW k \in 1..n PROVE f[k] = Op(f[k - 1], k)
    <3>1. f[k - 1] \in SUBSET V
      BY <1>1, <1>6
    <3> QED
      BY <1>5, <1>6, <3>1
  <2>2. \A k \in 0..n : k # 0 => k \in 1..n
    BY <1>1
  <2> QED
    BY <1>6, <2>1, <2>2
<1> DEFINE g == CHOOSE h : IsAfter(h)
<1>8. IsAfter(g)
  <2> HIDE DEF IsAfter
  <2> QED
    BY <1>7
<1> HIDE DEF g
<1>9. g[n] \in SUBSET V
  <2>1. g[0] \in SUBSET V
    BY <1>1, <1>8
  <2>2. ASSUME NEW k \in 1..n, g[k - 1] \in SUBSET V PROVE g[k] \in SUBSET V
    <3>1. k \in 0..n /\ k # 0
      BY <1>1
    <3>2. g[k] = Op(g[k - 1], k)
      BY <1>8, <3>1
    <3> QED
      BY <1>3, <2>2, <3>2
  <2> QED
    BY <1>1, <2>1, <2>2, ChainStays
<1> QED
  BY <1>2, <1>9 DEF g

------------------------------------------------------------------------------
(* Falling. *)

LEMMA FallToStays ==
    ASSUME NEW w \in Worlds, NEW x, NEW y, NEW nx, NEW block \in 0..255
    PROVE  FallTo(w, x, y, nx, block) \in Worlds
<1> DEFINE z == 0
           u == ClearTile(w, x, y, FALSE)
<1>1. z \in 0..255
  OBVIOUS
<1>2. u \in Worlds
  BY ClearTileStays
<1>3. FallTo(w, x, y, nx, block) = SetTileWithCoords(u, nx, y + 1, block, z)
  BY DEF FallTo
<1> HIDE DEF u, z
<1> QED
  BY ZenonT(30), <1>1, <1>2, <1>3, SetTileWithCoordsStays

LEMMA TerrainIs ==
    ASSUME NEW w \in Worlds, NEW x, NEW y
    PROVE  GetIDByCoord_Terrain(w, x, y) \in 0..255
BY WorldIs, IndexInCells, Kinds DEF GetIDByCoord_Terrain

LEMMA FallCellStays ==
    ASSUME NEW w \in Worlds, NEW x, NEW y
    PROVE  FallCell(w, x, y) \subseteq Worlds
<1> DEFINE block == GetIDByCoord_Terrain(w, x, y)
<1>1. block \in 0..255
  BY TerrainIs
<1> HIDE DEF block
<1>2. \A nx : FallTo(w, x, y, nx, block) \in Worlds
  BY <1>1, FallToStays
<1> QED
  BY <1>2 DEF FallCell, block

LEMMA FallingCycleIn ==
    ASSUME NEW V, NEW w \in V, NEW activeChunks,
           \A v \in V : \A x, y : FallCell(v, x, y) \subseteq V
    PROVE  FallingCycle(w, activeChunks) \subseteq V
<1> DEFINE n == Len(ScanOrder)
           Op(u, k) == IF ChunkOf(ScanOrder[k]) \in activeChunks
                       THEN UNION {FallCell(v, X(ScanOrder[k]), Y(ScanOrder[k])) : v \in u}
                       ELSE u
           step == [p \in (SUBSET V) \X (1..n) |-> Op(p[1], p[2])]
           IsAfter(h) == h = [k \in 0..n |-> IF k = 0 THEN {w} ELSE Op(h[k - 1], k)]
<1>1. n \in Nat
  <2> DEFINE size == Width * Height
  <2>1. size \in Nat
    BY SizeAssumption
  <2> HIDE DEF size
  <2> QED
    BY <2>1 DEF ScanOrder, size
<1>2. FallingCycle(w, activeChunks) = (CHOOSE h : IsAfter(h))[n]
  BY DEF FallingCycle
<1>3. \A u \in SUBSET V, k \in 1..n : Op(u, k) \in SUBSET V
  OBVIOUS
<1> HIDE DEF Op, n
<1>4. step \in [(SUBSET V) \X (1..n) -> SUBSET V]
  BY <1>3
<1>5. \A u \in SUBSET V, k \in 1..n : step[<<u, k>>] = Op(u, k)
  OBVIOUS
<1> HIDE DEF step
<1>6. PICK f \in [0..n -> SUBSET V] :
          f[0] = {w} /\ \A k \in 1..n : f[k] = step[<<f[k - 1], k>>]
  <2> DEFINE S == SUBSET V
             base == {w}
  <2>1. base \in S /\ step \in [S \X (1..n) -> S]
    BY <1>4
  <2> HIDE DEF S, base
  <2>2. \E f \in [0..n -> S] : ChainUpTo(n, f, base, step)
    BY <1>1, <2>1, ChainExists
  <2> QED
    BY <2>2 DEF S, base, ChainUpTo
<1>7. IsAfter(f)
  <2>1. ASSUME NEW k \in 1..n PROVE f[k] = Op(f[k - 1], k)
    <3>1. f[k - 1] \in SUBSET V
      BY <1>1, <1>6
    <3> QED
      BY <1>5, <1>6, <3>1
  <2>2. \A k \in 0..n : k # 0 => k \in 1..n
    BY <1>1
  <2> QED
    BY <1>6, <2>1, <2>2
<1> DEFINE g == CHOOSE h : IsAfter(h)
<1>8. IsAfter(g)
  <2> HIDE DEF IsAfter
  <2> QED
    BY <1>7
<1> HIDE DEF g
<1>9. g[n] \in SUBSET V
  <2>1. g[0] \in SUBSET V
    BY <1>1, <1>8
  <2>2. ASSUME NEW k \in 1..n, g[k - 1] \in SUBSET V PROVE g[k] \in SUBSET V
    <3>1. k \in 0..n /\ k # 0
      BY <1>1
    <3>2. g[k] = Op(g[k - 1], k)
      BY <1>8, <3>1
    <3> QED
      BY <1>3, <2>2, <3>2
  <2> QED
    BY <1>1, <2>1, <2>2, ChainStays
<1> QED
  BY <1>2, <1>9 DEF g
------------------------------------------------------------------------------
(* The records of the bots. *)

Bot(x, y, rotation, cooldown, geo, autodigg, under) ==
    [x |-> x, y |-> y, rotation |-> rotation, cooldown |-> cooldown, geo |-> geo,
     autodigg |-> autodigg, cachedBlockUnder |-> under]

LEMMA BotIs ==
    ASSUME NEW r \in BotStates
    PROVE  /\ r = Bot(r.x, r.y, r.rotation, r.cooldown, r.geo, r.autodigg, r.cachedBlockUnder)
           /\ r.x \in Int /\ r.y \in Int /\ r.rotation \in 0..3 /\ r.cooldown \in Cooldowns
           /\ r.geo \in Seq(cantake) /\ r.autodigg \in BOOLEAN /\ r.cachedBlockUnder \in 0..255
           /\ Len(r.geo) <= Geology /\ (r.cooldown = "zero" => r.geo = << >>)
BY DEF BotStates, Bot

LEMMA BotMade ==
    ASSUME NEW x \in Int, NEW y \in Int, NEW rotation \in 0..3, NEW cooldown \in Cooldowns,
           NEW geo \in Seq(cantake), NEW autodigg \in BOOLEAN, NEW under \in 0..255,
           Len(geo) <= Geology, cooldown = "zero" => geo = << >>
    PROVE  Bot(x, y, rotation, cooldown, geo, autodigg, under) \in BotStates
BY DEF BotStates, Bot

LEMMA CoolIs ==
    ASSUME NEW r \in BotStates
    PROVE  Cool(r) \in BotStates /\ Cool(r).rotation = r.rotation
<1> DEFINE on == "on"
           c == Bot(r.x, r.y, r.rotation, on, r.geo, r.autodigg, r.cachedBlockUnder)
<1>1. Cool(r) = c
  BY BotIs DEF Cool, Bot
<1>2. on \in Cooldowns /\ on # "zero"
  BY DEF Cooldowns
<1>3. c.rotation = r.rotation
  BY DEF Bot
<1>4. c \in BotStates
  <2> HIDE DEF on
  <2> QED
    BY ZenonT(30), <1>2, BotIs, BotMade
<1> HIDE DEF c
<1> QED
  BY <1>1, <1>3, <1>4

\* A bot whose cooldown changes to one that was set, or not at all.
LEMMA CooldownIs ==
    ASSUME NEW r \in BotStates, NEW c \in {"on", "edge", "off"}
    PROVE  [r EXCEPT !.cooldown = c] \in BotStates
<1>1. [r EXCEPT !.cooldown = c]
        = Bot(r.x, r.y, r.rotation, c, r.geo, r.autodigg, r.cachedBlockUnder)
  BY BotIs DEF Bot
<1>2. c \in Cooldowns /\ c # "zero"
  BY DEF Cooldowns
<1>3. Bot(r.x, r.y, r.rotation, c, r.geo, r.autodigg, r.cachedBlockUnder) \in BotStates
  BY ZenonT(30), <1>2, BotIs, BotMade
<1> QED
  BY <1>1, <1>3

Turned(r, side, under) ==
    [r EXCEPT !.rotation = IF side = -1 THEN @ ELSE side, !.cachedBlockUnder = under]

LEMMA TurnedIs ==
    ASSUME NEW r \in BotStates, NEW side \in -1..3, NEW under \in 0..255
    PROVE  /\ Turned(r, side, under) \in BotStates
           /\ Turned(r, side, under).x = r.x /\ Turned(r, side, under).y = r.y
           /\ Turned(r, side, under).cooldown = r.cooldown
           /\ Turned(r, side, under).geo = r.geo
           /\ Turned(r, side, under).autodigg = r.autodigg
<1> DEFINE d == IF side = -1 THEN r.rotation ELSE side
           u == Bot(r.x, r.y, d, r.cooldown, r.geo, r.autodigg, under)
<1>1. Turned(r, side, under) = u
  <2> DEFINE v == [r EXCEPT !.rotation = d]
  <2>1. Turned(r, side, under) = [v EXCEPT !.cachedBlockUnder = under]
    BY DEF Turned
  <2> HIDE DEF d
  <2>2. v = Bot(r.x, r.y, d, r.cooldown, r.geo, r.autodigg, r.cachedBlockUnder)
    BY BotIs DEF Bot
  <2> HIDE DEF v
  <2>3. [v EXCEPT !.cachedBlockUnder = under] = u
    BY <2>2 DEF Bot
  <2> QED
    BY <2>1, <2>3
<1>2. d \in 0..3
  BY BotIs
<1>3. /\ u.x = r.x /\ u.y = r.y /\ u.cooldown = r.cooldown /\ u.geo = r.geo
      /\ u.autodigg = r.autodigg
  BY DEF Bot
<1>4. u \in BotStates
  <2> HIDE DEF d
  <2> QED
    BY ZenonT(30), <1>2, BotIs, BotMade
<1> HIDE DEF u
<1> QED
  BY <1>1, <1>3, <1>4

LEMMA MovedIs ==
    ASSUME NEW r \in BotStates, NEW x \in Int, NEW y \in Int
    PROVE  /\ [r EXCEPT !.x = x, !.y = y] \in BotStates
           /\ [r EXCEPT !.x = x, !.y = y].rotation = r.rotation
<1> DEFINE u == Bot(x, y, r.rotation, r.cooldown, r.geo, r.autodigg, r.cachedBlockUnder)
<1>1. [r EXCEPT !.x = x, !.y = y] = u
  <2> DEFINE v == [r EXCEPT !.x = x]
  <2>1. v = Bot(x, r.y, r.rotation, r.cooldown, r.geo, r.autodigg, r.cachedBlockUnder)
    BY BotIs DEF Bot
  <2>2. [r EXCEPT !.x = x, !.y = y] = [v EXCEPT !.y = y]
    OBVIOUS
  <2> HIDE DEF v
  <2>3. [v EXCEPT !.y = y] = u
    BY <2>1 DEF Bot
  <2> QED
    BY <2>2, <2>3
<1>2. u.rotation = r.rotation
  BY DEF Bot
<1>3. u \in BotStates
  BY ZenonT(30), BotIs, BotMade
<1> HIDE DEF u
<1> QED
  BY <1>1, <1>2, <1>3

LEMMA RotatedIs ==
    ASSUME NEW r \in BotStates, NEW side \in 0..3
    PROVE  [r EXCEPT !.rotation = side] \in BotStates
<1> DEFINE u == Bot(r.x, r.y, side, r.cooldown, r.geo, r.autodigg, r.cachedBlockUnder)
<1>1. [r EXCEPT !.rotation = side] = u
  BY BotIs DEF Bot
<1>2. u \in BotStates
  BY BotIs, BotMade
<1> QED
  BY <1>1, <1>2

LEMMA PlacedIs ==
    ASSUME NEW r \in BotStates, NEW x \in Int, NEW y \in Int, NEW side \in 0..3
    PROVE  [r EXCEPT !.x = x, !.y = y, !.rotation = side] \in BotStates
<1> DEFINE u == Bot(x, y, side, r.cooldown, r.geo, r.autodigg, r.cachedBlockUnder)
<1>1. [r EXCEPT !.x = x, !.y = y, !.rotation = side] = u
  <2> DEFINE v == [r EXCEPT !.x = x]
             a == [v EXCEPT !.y = y]
  <2>1. v = Bot(x, r.y, r.rotation, r.cooldown, r.geo, r.autodigg, r.cachedBlockUnder)
    BY BotIs DEF Bot
  <2>2. [r EXCEPT !.x = x, !.y = y, !.rotation = side] = [a EXCEPT !.rotation = side]
    OBVIOUS
  <2> HIDE DEF v
  <2>3. a = Bot(x, y, r.rotation, r.cooldown, r.geo, r.autodigg, r.cachedBlockUnder)
    BY <2>1 DEF Bot
  <2> HIDE DEF a
  <2>4. [a EXCEPT !.rotation = side] = u
    BY <2>3 DEF Bot
  <2> QED
    BY <2>2, <2>4
<1>2. u \in BotStates
  BY ZenonT(30), BotIs, BotMade
<1> QED
  BY <1>1, <1>2

\* With a full stack the geo of a bot changes only as its cooldown starts.
LEMMA GeoIs ==
    ASSUME NEW r \in BotStates, NEW s \in Seq(cantake), Len(s) <= Geology
    PROVE  Cool([r EXCEPT !.geo = s]) \in BotStates
<1> DEFINE on == "on"
           u == Bot(r.x, r.y, r.rotation, on, s, r.autodigg, r.cachedBlockUnder)
<1>1. Cool([r EXCEPT !.geo = s]) = u
  <2> DEFINE v == [r EXCEPT !.geo = s]
  <2>1. v = Bot(r.x, r.y, r.rotation, r.cooldown, s, r.autodigg, r.cachedBlockUnder)
    BY BotIs DEF Bot
  <2> HIDE DEF v
  <2>2. Cool(v) = u
    BY <2>1 DEF Bot, Cool
  <2> QED
    BY <2>2 DEF v
<1>2. on \in Cooldowns /\ on # "zero"
  BY DEF Cooldowns
<1>3. u \in BotStates
  <2> HIDE DEF on
  <2> QED
    BY ZenonT(30), <1>2, BotIs, BotMade
<1> QED
  BY <1>1, <1>3

LEMMA ToggledIs ==
    ASSUME NEW r \in BotStates
    PROVE  [r EXCEPT !.autodigg = ~@] \in BotStates
<1> DEFINE a == ~r.autodigg
           u == Bot(r.x, r.y, r.rotation, r.cooldown, r.geo, a, r.cachedBlockUnder)
<1>1. [r EXCEPT !.autodigg = ~@] = u
  BY BotIs DEF Bot
<1>2. a \in BOOLEAN
  OBVIOUS
<1>3. u \in BotStates
  <2> HIDE DEF a
  <2> QED
    BY ZenonT(30), <1>2, BotIs, BotMade
<1> QED
  BY <1>1, <1>3

LEMMA NewBotIs ==
    ASSUME NEW pos \in Int \X Int, NEW autodigg \in BOOLEAN
    PROVE  NewBot(pos, autodigg) \in BotStates
<1> DEFINE x == pos[1]
           y == pos[2]
           z == 0
           cd == "zero"
           e == << >>
           u == Bot(x, y, z, cd, e, autodigg, z)
<1>1. NewBot(pos, autodigg) = u
  BY DEF NewBot, Bot
<1>2. /\ x \in Int /\ y \in Int /\ z \in 0..3 /\ z \in 0..255 /\ cd \in Cooldowns
      /\ e \in Seq(cantake) /\ e = << >>
  BY DEF Cooldowns
<1>3. Len(e) <= Geology
  BY ClientAssumption
<1>4. u \in BotStates
  <2> HIDE DEF x, y, z, cd, e
  <2> QED
    BY <1>2, <1>3, BotMade
<1> QED
  BY <1>1, <1>4

LEMMA FrontIs ==
    ASSUME NEW r \in BotStates
    PROVE  bFrontX(r) \in Int /\ bFrontY(r) \in Int
<1>1. r.x \in Int /\ r.y \in Int /\ r.rotation \in 0..3
  BY BotIs
<1>2. \A k \in 1..4 : Ahead[k][1] \in Int /\ Ahead[k][2] \in Int
  BY DEF Ahead
<1>3. r.rotation + 1 \in 1..4
  BY <1>1
<1> QED
  BY <1>1, <1>2, <1>3 DEF bFrontX, bFrontY
------------------------------------------------------------------------------
(* Operations of a bot. *)

LEMMA BecomesIs ==
    ASSUME Inv, NEW b \in Bots, NEW r \in BotStates, Becomes(b, r)
    PROVE  bots' \in [Bots -> BotStates] /\ bots'[b] = r
BY DEF Inv, Becomes

LEMMA IDIs ==
    ASSUME NEW w \in Worlds, NEW x, NEW y
    PROVE  GetIDByCoord(w, x, y) \in 0..255
BY WorldIs, IndexInCells, Kinds DEF GetIDByCoord

LEMMA CurrentIs ==
    ASSUME Inv, NEW b \in Bots
    PROVE  /\ bots[b] \in BotStates /\ Cool(bots[b]) \in BotStates /\ world \in Worlds
BY CoolIs DEF Inv

LEMMA DuggStays ==
    ASSUME Inv, NEW r
    PROVE  Dugg(r) \in Worlds
BY DiggTileStays DEF Inv, Dugg

LEMMA SetAheadStays ==
    ASSUME Inv, NEW r, NEW id \in 0..255
    PROVE  SetAhead(r, id) \in Worlds
<1> DEFINE z == 0
<1>1. z \in 0..255 /\ world \in Worlds
  BY DEF Inv
<1>2. SetAhead(r, id) = SetTileWithCoords(world, bFrontX(r), bFrontY(r), id, z)
  BY DEF SetAhead
<1> HIDE DEF z
<1> QED
  BY ZenonT(30), <1>1, <1>2, SetTileWithCoordsStays

LEMMA TrailsStay ==
    ASSUME Inv, NEW r
    PROVE  Trails(r) \subseteq Worlds
<1> DEFINE z == 0
           u1 == SetTileWithCoords(world, r.x, r.y, ground1, z)
           u2 == SetTileWithCoords(world, r.x, r.y, ground2, z)
<1>1. z \in 0..255 /\ world \in Worlds /\ ground1 \in 0..255 /\ ground2 \in 0..255
  BY DEF Inv, ground1, ground2
<1>2. u1 \in Worlds /\ u2 \in Worlds
  <2> HIDE DEF z
  <2> QED
    BY <1>1, SetTileWithCoordsStays
<1>3. Trails(r) \subseteq {world, u1, u2}
  <2> DEFINE under == GetIDByCoord(world, r.x, r.y)
             A == under = ground0
             B == under = ground1
  <2>1. Trails(r) = {world} \cup CASE A -> {u1} [] B -> {u2} [] OTHER -> {}
    BY Zenon DEF Trails
  <2> HIDE DEF A, B, u1, u2
  <2> QED
    BY <2>1
<1> HIDE DEF u1, u2
<1> QED
  BY <1>1, <1>2, <1>3

LEMMA MoveKeeps ==
    ASSUME Inv, ~hung, NEW b \in Bots, NEW side \in -1..3, NEW fromKeys \in BOOLEAN,
           Move(b, side, fromKeys)
    PROVE  /\ world' \in Worlds /\ bots' \in [Bots -> BotStates] /\ hung' \in BOOLEAN
           /\ hung' => /\ fromKeys /\ ~ignoreBorders
                       /\ bots'[b].cooldown = "zero" /\ bots'[b].geo = << >>
                       /\ ~bots'[b].autodigg
<1> DEFINE under == GetIDByCoord(world, bots[b].x, bots[b].y)
           turned == Turned(bots[b], side, under)
           there == [turned EXCEPT !.x = bFrontX(turned), !.y = bFrontY(turned)]
<1>1. bots[b] \in BotStates /\ world \in Worlds /\ under \in 0..255
  BY CurrentIs, IDIs
<1>2. /\ turned \in BotStates /\ turned.cooldown = bots[b].cooldown
      /\ turned.geo = bots[b].geo /\ turned.autodigg = bots[b].autodigg
  <2> HIDE DEF under
  <2> QED
    BY ZenonT(30), <1>1, TurnedIs
<1>3. \/ /\ world' \in Trails(turned) /\ Becomes(b, Cool(there)) /\ UNCHANGED hung
      \/ /\ world' = Dugg(turned) /\ Becomes(b, Cool(turned)) /\ UNCHANGED hung
      \/ /\ ~ignoreBorders /\ ~(turned.autodigg /\ CanDigg(b))
         /\ Becomes(b, turned) /\ hung' = (fromKeys /\ LoopsForEver(b)) /\ UNCHANGED world
  BY DEF Move, Turned
<1> HIDE DEF turned
<1>4. there \in BotStates
  <2> DEFINE x == bFrontX(turned)
             y == bFrontY(turned)
  <2>1. x \in Int /\ y \in Int
    BY <1>2, FrontIs
  <2> HIDE DEF x, y
  <2>2. [turned EXCEPT !.x = x, !.y = y] \in BotStates
    BY <1>2, <2>1, MovedIs
  <2> QED
    BY <2>2 DEF x, y
<1> HIDE DEF there
<1>5. CASE world' \in Trails(turned) /\ Becomes(b, Cool(there)) /\ UNCHANGED hung
  <2>1. Cool(there) \in BotStates
    BY <1>4, CoolIs
  <2>2. bots' \in [Bots -> BotStates]
    BY <1>5, <2>1, BecomesIs
  <2>3. ~hung' /\ hung' \in BOOLEAN
    BY <1>5 DEF Inv
  <2>4. world' \in Worlds
    BY <1>5, TrailsStay
  <2> QED
    BY <2>2, <2>3, <2>4
<1>6. CASE world' = Dugg(turned) /\ Becomes(b, Cool(turned)) /\ UNCHANGED hung
  <2>1. Cool(turned) \in BotStates
    BY <1>2, CoolIs
  <2>2. bots' \in [Bots -> BotStates]
    BY <1>6, <2>1, BecomesIs
  <2>3. ~hung' /\ hung' \in BOOLEAN
    BY <1>6 DEF Inv
  <2>4. world' \in Worlds
    BY <1>6, DuggStays
  <2> QED
    BY <2>2, <2>3, <2>4
<1>7. CASE /\ ~ignoreBorders /\ ~(turned.autodigg /\ CanDigg(b))
           /\ Becomes(b, turned) /\ hung' = (fromKeys /\ LoopsForEver(b)) /\ UNCHANGED world
  <2>1. bots' \in [Bots -> BotStates] /\ bots'[b] = turned
    BY <1>2, <1>7, BecomesIs
  <2>2. hung' \in BOOLEAN
    BY <1>7
  <2>3. ASSUME hung' PROVE fromKeys /\ bots[b].cooldown = "zero"
    BY <1>7, <2>3 DEF LoopsForEver
  <2>4. ASSUME hung' PROVE turned.geo = << >> /\ ~turned.autodigg
    <3>1. turned.cooldown = "zero" /\ CanDigg(b)
      BY <1>2, <2>3, <2>4 DEF CanDigg
    <3> QED
      BY <1>2, <1>7, <3>1, BotIs
  <2> QED
    BY <1>1, <1>2, <1>7, <2>1, <2>2, <2>3, <2>4
<1> QED
  BY <1>3, <1>5, <1>6, <1>7

\* What the other operations of a bot come to: they leave a good world and a
\* good bot, and the page alive.
Kept == world' \in Worlds /\ bots' \in [Bots -> BotStates] /\ UNCHANGED hung

LEMMA RotateKeeps ==
    ASSUME Inv, NEW b \in Bots, NEW side \in 0..3, Rotate(b, side)
    PROVE  Kept
<1> DEFINE r == [bots[b] EXCEPT !.rotation = side]
<1>1. r \in BotStates
  BY CurrentIs, RotatedIs
<1>2. Becomes(b, Cool(r)) /\ UNCHANGED <<world, hung>>
  BY DEF Rotate
<1> HIDE DEF r
<1>3. Cool(r) \in BotStates
  BY <1>1, CoolIs
<1> QED
  BY <1>2, <1>3, BecomesIs DEF Kept, Inv

LEMMA CooledKeeps ==
    ASSUME Inv, NEW b \in Bots, Becomes(b, Cool(bots[b])), world' \in Worlds, UNCHANGED hung
    PROVE  Kept
BY CurrentIs, BecomesIs DEF Kept

LEMMA DiggKeeps ==
    ASSUME Inv, NEW b \in Bots, Digg(b)
    PROVE  Kept
BY DuggStays, CooledKeeps DEF Digg

LEMMA SetBlockKeeps ==
    ASSUME Inv, NEW b \in Bots, SetBlock(b)
    PROVE  Kept
<1> DEFINE block == BlockAhead(bots[b])
           A == block = block_green
           B == block = block_yellow
           C == block \in replesable
           u1 == SetAhead(bots[b], block_yellow)
           u2 == SetAhead(bots[b], block_red)
           u3 == SetAhead(bots[b], block_green)
<1>1. world' = CASE A -> u1 [] B -> u2 [] C -> u3 [] OTHER -> world
  BY Zenon DEF SetBlock
<1>2. block_yellow \in 0..255 /\ block_red \in 0..255 /\ block_green \in 0..255
  BY DEF block_yellow, block_red, block_green
<1>3. u1 \in Worlds /\ u2 \in Worlds /\ u3 \in Worlds /\ world \in Worlds
  BY <1>2, SetAheadStays DEF Inv
<1> HIDE DEF A, B, C, u1, u2, u3
<1>4. world' \in Worlds
  BY <1>1, <1>3
<1> QED
  BY <1>4, CooledKeeps DEF SetBlock

LEMMA BuildKeeps ==
    ASSUME Inv, NEW b \in Bots, NEW allowed, NEW id \in 0..255, Build(b, allowed, id)
    PROVE  Kept
BY SetAheadStays, CooledKeeps DEF Build

LEMMA BuildsKeep ==
    ASSUME Inv, NEW b \in Bots, SetRoad(b) \/ SetWB(b) \/ SetQuadro(b)
    PROVE  Kept
<1>1. road \in 0..255 /\ block_war \in 0..255 /\ block_quadro \in 0..255 /\ block_support \in 0..255
  BY DEF road, block_war, block_quadro, block_support
<1> QED
  BY <1>1, BuildKeeps DEF SetRoad, SetWB, SetQuadro

LEMMA TakeGeoKeeps ==
    ASSUME Inv, NEW b \in Bots, TakeGeo(b)
    PROVE  world' \in Worlds /\ bots' \in [Bots -> BotStates]
<1> DEFINE id == BlockAhead(bots[b])
           geo == bots[b].geo
           s == Append(geo, id)
<1>1. /\ id \in cantake /\ Len(geo) < Geology
      /\ world' = ClearTile(world, bFrontX(bots[b]), bFrontY(bots[b]), FALSE)
      /\ Becomes(b, Cool([bots[b] EXCEPT !.geo = s]))
  BY DEF TakeGeo, geoIsNoFull
<1>2. bots[b] \in BotStates /\ geo \in Seq(cantake) /\ Geology \in Nat
  BY CurrentIs, BotIs, ClientAssumption
<1> HIDE DEF id, geo
<1>3. s \in Seq(cantake) /\ Len(s) = Len(geo) + 1 /\ Len(geo) \in Nat
  BY <1>1, <1>2, AppendProperties, LenProperties
<1> HIDE DEF s
<1>4. Len(s) <= Geology
  BY <1>1, <1>2, <1>3
<1>5. Cool([bots[b] EXCEPT !.geo = s]) \in BotStates
  BY <1>2, <1>3, <1>4, GeoIs
<1>6. bots' \in [Bots -> BotStates]
  BY <1>1, <1>5, BecomesIs
<1> QED
  BY <1>1, <1>6, CurrentIs, ClearTileStays

LEMMA PlaceGeoKeeps ==
    ASSUME Inv, NEW b \in Bots, PlaceGeo(b)
    PROVE  world' \in Worlds /\ bots' \in [Bots -> BotStates]
<1> DEFINE geo == bots[b].geo
           s == Front(geo)
           id == Last(geo)
<1>1. bots[b] \in BotStates /\ geo \in Seq(cantake) /\ Len(geo) <= Geology /\ Geology \in Nat
  BY CurrentIs, BotIs, ClientAssumption
<1>2. CASE geo = << >>
  <2>1. Becomes(b, Cool(bots[b])) /\ UNCHANGED world
    BY <1>2 DEF PlaceGeo
  <2> QED
    BY <2>1, CurrentIs, BecomesIs
<1>3. CASE geo # << >>
  <2>1. world' = SetAhead(bots[b], id) /\ Becomes(b, Cool([bots[b] EXCEPT !.geo = s]))
    BY <1>3 DEF PlaceGeo
  <2> HIDE DEF geo
  <2>2. Len(geo) \in Nat /\ Len(geo) >= 1 /\ \A k \in 1..Len(geo) : geo[k] \in cantake
    BY <1>1, <1>3, EmptySeq, LenProperties
  <2>3. id \in 0..255
    <3>1. id \in cantake
      BY <2>2 DEF Last
    <3> HIDE DEF id
    <3> QED
      BY <3>1, Kinds
  <2>4. s \in Seq(cantake) /\ Len(s) = Len(geo) - 1
    <3> DEFINE one == 1
               q == Len(geo) - 1
    <3>1. one \in Int /\ q \in Int /\ \A k \in one..q : geo[k] \in cantake
      BY <2>2
    <3>2. s = SubSeq(geo, one, q)
      BY DEF Front
    <3> HIDE DEF one, q, s
    <3>3. s \in Seq(cantake) /\ Len(s) = IF one <= q THEN q - one + 1 ELSE 0
      BY <3>1, <3>2, SubSeqProperties
    <3>4. (IF one <= q THEN q - one + 1 ELSE 0) = Len(geo) - 1
      <4> DEFINE n == Len(geo)
      <4>1. n \in Nat /\ n >= 1
        BY <2>2
      <4> HIDE DEF n
      <4>2. (IF 1 <= n - 1 THEN (n - 1) - 1 + 1 ELSE 0) = n - 1
        BY <4>1
      <4> QED
        BY <4>2 DEF n, one, q
    <3> QED
      BY <3>3, <3>4
  <2> HIDE DEF s, id
  <2>5. Len(s) <= Geology
    BY <1>1, <2>2, <2>4
  <2>6. Cool([bots[b] EXCEPT !.geo = s]) \in BotStates
    BY <1>1, <2>4, <2>5, GeoIs
  <2> QED
    BY <2>1, <2>3, <2>6, BecomesIs, SetAheadStays
<1> QED
  BY <1>2, <1>3

LEMMA UseGeoKeeps ==
    ASSUME Inv, NEW b \in Bots, UseGeo(b)
    PROVE  Kept
BY TakeGeoKeeps, PlaceGeoKeeps DEF UseGeo, Kept

LEMMA HealKeeps ==
    ASSUME Inv, NEW b \in Bots, Heal(b)
    PROVE  Kept
BY CooledKeeps, CurrentIs DEF Heal
------------------------------------------------------------------------------
(* The inductive invariant holds at first. *)

LEMMA InitInv == Init => Inv
<1> SUFFICES ASSUME Init PROVE Inv
  OBVIOUS
<1>1. world \in Worlds
  <2>1. PICK data \in SavedWorlds, seed \in Seeds :
            \E density \in [1..Len(Decoded(data)) -> Densities] :
               world = SetTileWithCoords(
                          ClearRect(LoadWorld(data, density),
                                    Clearing[1], Clearing[2], Clearing[3], Clearing[4]),
                          seed[1], seed[2], seed[3], 0)
    BY DEF Init
  <2>2. PICK density \in [1..Len(Decoded(data)) -> Densities] :
            world = SetTileWithCoords(
                       ClearRect(LoadWorld(data, density),
                                 Clearing[1], Clearing[2], Clearing[3], Clearing[4]),
                       seed[1], seed[2], seed[3], 0)
    BY <2>1
  <2>3. data \in Bytes
    BY ClientAssumption DEF Bytes
  <2> DEFINE loaded == LoadWorld(data, density)
             xs == Clearing[1]
             ys == Clearing[2]
             width == Clearing[3]
             height == Clearing[4]
             cleared == ClearRect(loaded, xs, ys, width, height)
             id == seed[3]
             z == 0
  <2>4. loaded \in Worlds
    BY <2>3, LoadWorldStays
  <2>5. xs \in Int /\ ys \in Int /\ width \in Nat /\ height \in Nat
    BY ClientAssumption
  <2> HIDE DEF loaded, xs, ys, width, height
  <2>6. cleared \in Worlds
    BY <2>4, <2>5, ClearRectStays
  <2>7. id \in 0..255 /\ z \in 0..255
    BY ClientAssumption
  <2>8. world = SetTileWithCoords(cleared, seed[1], seed[2], id, z)
    BY <2>2 DEF loaded, xs, ys, width, height
  <2> HIDE DEF cleared, id, z
  <2> QED
    BY <2>6, <2>7, <2>8, SetTileWithCoordsStays
<1>2. bots \in [Bots -> BotStates]
  <2>1. PICK at \in [Bots -> StartAt], autodigg \in BOOLEAN :
            bots = [b \in Bots |-> NewBot(at[b], b = FirstBot => autodigg)]
    BY DEF Init
  <2>2. ASSUME NEW b \in Bots PROVE NewBot(at[b], b = FirstBot => autodigg) \in BotStates
    <3> DEFINE a == b = FirstBot => autodigg
               pos == at[b]
    <3>1. a \in BOOLEAN /\ pos \in StartAt
      OBVIOUS
    <3> HIDE DEF a, pos
    <3>2. pos \in Int \X Int
      BY <3>1, ClientAssumption
    <3>3. NewBot(pos, a) \in BotStates
      BY <3>1, <3>2, NewBotIs
    <3> QED
      BY <3>3 DEF a, pos
  <2> QED
    BY <2>1, <2>2
<1>3. /\ CurrentBot \in Bots /\ ignoreBorders \in BOOLEAN /\ hung = FALSE
      /\ edits \in 0..MaxEdits
  BY ClientAssumption DEF Init
<1> QED
  BY <1>1, <1>2, <1>3 DEF Inv, HangsOnlyWhenFresh
------------------------------------------------------------------------------
(* Every step keeps it. *)

LEMMA EditIs ==
    ASSUME Inv, Edit
    PROVE  ~hung /\ edits' \in 0..MaxEdits
BY ClientAssumption DEF Inv, Edit

\* A step that leaves the page alive.
LEMMA AliveInv ==
    ASSUME Inv, ~hung, Kept, CurrentBot' \in Bots, ignoreBorders' \in BOOLEAN,
           edits' \in 0..MaxEdits
    PROVE  Inv'
BY DEF Inv, Kept, HangsOnlyWhenFresh

LEMMA OperateInv ==
    ASSUME Inv, NEW b \in Bots, Operate(b)
    PROVE  Inv'
<1>1. ~hung /\ edits' \in 0..MaxEdits /\ UNCHANGED <<CurrentBot, ignoreBorders>>
  BY EditIs DEF Operate
<1>2. CurrentBot' \in Bots /\ ignoreBorders' \in BOOLEAN
  BY <1>1 DEF Inv
<1>3. ASSUME NEW side \in -1..3, Move(b, side, FALSE) PROVE Kept
  <2> DEFINE no == FALSE
  <2>1. no \in BOOLEAN /\ ~no
    OBVIOUS
  <2>2. Move(b, side, no)
    BY <1>3
  <2> HIDE DEF no
  <2>3. /\ world' \in Worlds /\ bots' \in [Bots -> BotStates] /\ hung' \in BOOLEAN
        /\ hung' => no
    BY <1>1, <2>1, <2>2, MoveKeeps
  <2>4. hung' = hung
    BY <1>1, <2>1, <2>3 DEF Inv
  <2> QED
    BY <2>3, <2>4 DEF Kept
<1>4. Kept
  BY <1>3, RotateKeeps, DiggKeeps, SetBlockKeeps, BuildsKeep, UseGeoKeeps, HealKeeps DEF Operate
<1> QED
  BY <1>1, <1>2, <1>4, AliveInv

LEMMA HoldKeyInv ==
    ASSUME Inv, NEW side \in 0..3, HoldKey(side)
    PROVE  Inv'
<1> DEFINE yes == TRUE
           b == CurrentBot
<1>1. ~hung /\ edits' \in 0..MaxEdits /\ UNCHANGED <<CurrentBot, ignoreBorders>>
  BY EditIs DEF HoldKey
<1>2. Move(b, side, yes) /\ b \in Bots /\ side \in -1..3 /\ yes \in BOOLEAN
  <2>1. Move(b, side, yes)
    BY Zenon DEF HoldKey
  <2>2. b \in Bots /\ yes \in BOOLEAN
    BY DEF Inv
  <2>3. side \in -1..3
    OBVIOUS
  <2> QED
    BY <2>1, <2>2, <2>3
<1>3. b' = b /\ ignoreBorders' = ignoreBorders
  BY <1>1
<1> HIDE DEF b, yes
<1>4. /\ world' \in Worlds /\ bots' \in [Bots -> BotStates] /\ hung' \in BOOLEAN
      /\ hung' => /\ ~ignoreBorders
                  /\ bots'[b].cooldown = "zero" /\ bots'[b].geo = << >>
                  /\ ~bots'[b].autodigg
  BY <1>1, <1>2, MoveKeeps
<1>5. CurrentBot' \in Bots /\ CurrentBot' = b /\ ignoreBorders' \in BOOLEAN
  BY <1>1, <1>2 DEF b, Inv
<1>6. HangsOnlyWhenFresh'
  BY <1>1, <1>4, <1>5 DEF HangsOnlyWhenFresh
<1> QED
  BY <1>1, <1>4, <1>5, <1>6 DEF Inv

LEMMA CooldownEndsInv ==
    ASSUME Inv, NEW b \in Bots, CooldownEnds(b)
    PROVE  Inv'
<1>1. \E c \in {"on", "edge", "off"} : Becomes(b, [bots[b] EXCEPT !.cooldown = c])
  BY DEF CooldownEnds
<1>2. PICK c \in {"on", "edge", "off"} : Becomes(b, [bots[b] EXCEPT !.cooldown = c])
  BY <1>1
<1>3. [bots[b] EXCEPT !.cooldown = c] \in BotStates
  BY CurrentIs, CooldownIs
<1>4. bots' \in [Bots -> BotStates]
  BY <1>2, <1>3, BecomesIs
<1>5. ~hung /\ UNCHANGED <<world, CurrentBot, ignoreBorders, hung, edits>>
  BY DEF CooldownEnds
<1> QED
  BY <1>4, <1>5, AliveInv DEF Inv, Kept

LEMMA KeyEInv ==
    ASSUME Inv, KeyE
    PROVE  Inv'
<1>1. ~hung /\ edits' \in 0..MaxEdits
  BY EditIs DEF KeyE
<1>2. /\ Becomes(CurrentBot, [bots[CurrentBot] EXCEPT !.autodigg = ~@])
      /\ UNCHANGED <<world, CurrentBot, ignoreBorders, hung>>
  BY DEF KeyE
<1>3. CurrentBot \in Bots /\ [bots[CurrentBot] EXCEPT !.autodigg = ~@] \in BotStates
  BY CurrentIs, ToggledIs DEF Inv
<1>4. bots' \in [Bots -> BotStates]
  BY <1>2, <1>3, BecomesIs
<1> QED
  BY <1>1, <1>2, <1>4, AliveInv DEF Inv, Kept

LEMMA KeyCInv ==
    ASSUME Inv, KeyC
    PROVE  Inv'
<1>1. ~hung /\ edits' \in 0..MaxEdits /\ UNCHANGED <<world, CurrentBot, ignoreBorders, hung>>
  BY EditIs DEF KeyC
<1>2. PICK off \in [Bots -> Scatter \cup {<<0, 0>>}], turn \in {-1} \cup 0..3 :
          bots' = [b \in Bots |->
              IF b = CurrentBot THEN bots[b]
              ELSE [bots[b] EXCEPT !.x = bots[CurrentBot].x + off[b][1],
                                   !.y = bots[CurrentBot].y + off[b][2],
                                   !.rotation = IF turn = -1 THEN bots[CurrentBot].rotation
                                                ELSE turn]]
  BY DEF KeyC
<1> DEFINE PX(b) == bots[CurrentBot].x + off[b][1]
           PY(b) == bots[CurrentBot].y + off[b][2]
           side == IF turn = -1 THEN bots[CurrentBot].rotation ELSE turn
<1>3. \A b \in Bots : bots[b] \in BotStates
  BY CurrentIs
<1>4. /\ bots[CurrentBot].x \in Int /\ bots[CurrentBot].y \in Int
      /\ bots[CurrentBot].rotation \in 0..3
  BY <1>3, BotIs DEF Inv
<1>5. side \in 0..3
  BY <1>4
<1>6. ASSUME NEW b \in Bots PROVE PX(b) \in Int /\ PY(b) \in Int
  <2>1. off[b] \in Int \X Int
    <3>1. Scatter \subseteq (-5..5) \X (-5..5)
      BY ClientAssumption
    <3>2. off[b] \in Scatter \cup {<<0, 0>>}
      OBVIOUS
    <3> QED
      BY <3>1, <3>2
  <2> QED
    BY <1>4, <2>1
<1>7. bots' = [b \in Bots |->
           IF b = CurrentBot THEN bots[b]
           ELSE [bots[b] EXCEPT !.x = PX(b), !.y = PY(b), !.rotation = side]]
  BY <1>2
<1> HIDE DEF PX, PY, side
<1>8. \A b \in Bots : [bots[b] EXCEPT !.x = PX(b), !.y = PY(b), !.rotation = side] \in BotStates
  BY <1>3, <1>5, <1>6, PlacedIs
<1>9. bots' \in [Bots -> BotStates]
  BY <1>3, <1>7, <1>8
<1> QED
  BY <1>1, <1>9, AliveInv DEF Inv, Kept

LEMMA MouseInv ==
    ASSUME Inv, Mouse
    PROVE  Inv'
<1>1. ~hung /\ edits' \in 0..MaxEdits /\ UNCHANGED <<bots, CurrentBot, ignoreBorders, hung>>
  BY EditIs DEF Mouse
<1>2. PICK c \in MouseCells :
          \/ world' = MouseSetBlock(c[1], c[2], block_quadro, 0)
          \/ \E radius \in {0, BrushRadius} : world' = MouseSetBlock(c[1], c[2], 0, radius)
  BY DEF Mouse
<1> DEFINE x == c[1]
           y == c[2]
           z == 0
<1>3. /\ x \in Int /\ y \in Int /\ z \in Nat /\ z \in 0..255 /\ block_quadro \in 0..255
      /\ BrushRadius \in Nat /\ world \in Worlds
  BY ClientAssumption DEF block_quadro, Inv
<1>4. \E id \in 0..255, radius \in Nat : world' = MouseSetBlock(x, y, id, radius)
  BY <1>2, <1>3
<1> HIDE DEF x, y, z
<1>5. world' \in Worlds
  BY <1>3, <1>4, MouseSetBlockStays
<1> QED
  BY <1>1, <1>5, AliveInv DEF Inv, Kept

LEMMA UpdateInv ==
    ASSUME Inv, Update
    PROVE  Inv'
<1>1. ~hung /\ edits' \in 0..MaxEdits /\ UNCHANGED <<bots, CurrentBot, ignoreBorders, hung>>
  BY EditIs DEF Update
<1> DEFINE Drop(w, c, id) == SetTileWithCoords(w, c[1], c[2], id, 0)
           Look(w, looked) == FoldLeft(LAMBDA v, b : CheckBlockUnder(v, bots[b]), w, SetToSeq(looked))
<1>2. PICK c1 \in DropCells, c2 \in DropCells, id1 \in DropIds, id2 \in DropIds,
           looked \in SUBSET Bots :
          world' = IF ignoreBorders THEN Drop(Drop(world, c1, id1), c2, id2)
                   ELSE Look(Drop(Drop(world, c1, id1), c2, id2), looked)
  BY DEF Update
<1>3. \A id \in DropIds : id \in 0..255
  BY ClientAssumption
<1>4. \A w \in Worlds, id \in DropIds : \A c : Drop(w, c, id) \in Worlds
  <2> DEFINE z == 0
  <2>1. z \in 0..255
    OBVIOUS
  <2> HIDE DEF z
  <2>2. \A w \in Worlds, id \in DropIds : \A c : SetTileWithCoords(w, c[1], c[2], id, z) \in Worlds
    BY <1>3, <2>1, SetTileWithCoordsStays
  <2> QED
    BY <2>2 DEF z
<1>5. \A w \in Worlds : Look(w, looked) \in Worlds
  BY LookUnderStays
<1> HIDE DEF Drop, Look
<1>6. world \in Worlds
  BY DEF Inv
<1> DEFINE w1 == Drop(world, c1, id1)
           w2 == Drop(w1, c2, id2)
<1>7. w1 \in Worlds
  BY <1>4, <1>6
<1> HIDE DEF w1
<1>8. w2 \in Worlds
  BY <1>4, <1>7
<1>9. world' = w2 \/ world' = Look(w2, looked)
  BY <1>2 DEF w1
<1> HIDE DEF w2
<1>10. world' \in Worlds
  BY <1>5, <1>8, <1>9
<1> QED
  BY <1>1, <1>10, AliveInv DEF Inv, Kept

LEMMA TimersInv ==
    ASSUME Inv, FallTimer \/ GrowthTimer
    PROVE  Inv'
<1>1. ~hung /\ UNCHANGED <<bots, CurrentBot, ignoreBorders, hung, edits>>
  BY DEF FallTimer, GrowthTimer
<1>2. world \in Worlds
  BY DEF Inv
<1>3. ASSUME FallTimer PROVE world' \in Worlds
  <2>1. PICK wide \in SUBSET (Bots \ {CurrentBot}) :
            world' \in FallingCycle(world, ActiveChunks(wide))
    BY <1>3 DEF FallTimer
  <2> DEFINE active == ActiveChunks(wide)
             left == FallingCycle(world, active)
  <2> HIDE DEF active
  <2>2. left \subseteq Worlds
    BY <1>2, FallCellStays, FallingCycleIn
  <2>3. world' \in left
    BY <2>1 DEF active
  <2> HIDE DEF left
  <2> QED
    BY <2>2, <2>3
<1>4. ASSUME GrowthTimer PROVE world' \in Worlds
  BY <1>2, <1>4, VisitStays, GrowthIn DEF GrowthTimer
<1>5. world' \in Worlds
  BY <1>3, <1>4
<1> QED
  BY <1>1, <1>5, AliveInv DEF Inv, Kept

LEMMA NextInv == Inv /\ [Next]_vars => Inv'
<1> SUFFICES ASSUME Inv, [Next]_vars PROVE Inv'
  OBVIOUS
<1>1. CASE \E b \in Bots : Operate(b)
  BY <1>1, OperateInv
<1>2. CASE \E b \in Bots : CooldownEnds(b)
  BY <1>2, CooldownEndsInv
<1>3. CASE \E side \in 0..3 : HoldKey(side)
  BY <1>3, HoldKeyInv
<1>4. CASE KeyE
  BY <1>4, KeyEInv
<1>5. CASE Space
  BY <1>5, EditIs, AliveInv DEF Space, Inv, Kept
<1>6. CASE KeyC
  BY <1>6, KeyCInv
<1>7. CASE options_ignore_borders
  BY <1>7, EditIs, AliveInv DEF options_ignore_borders, Inv, Kept
<1>8. CASE Mouse
  BY <1>8, MouseInv
<1>9. CASE Update
  BY <1>9, UpdateInv
<1>10. CASE FallTimer \/ GrowthTimer
  BY <1>10, TimersInv
<1>11. CASE UNCHANGED vars
  BY <1>11 DEF vars, Inv, HangsOnlyWhenFresh
<1> QED
  BY <1>1, <1>2, <1>3, <1>4, <1>5, <1>6, <1>7, <1>8, <1>9, <1>10, <1>11 DEF Next

LEMMA InvAlways == Spec => []Inv
BY InitInv, NextInv, PTL DEF Spec

LEMMA InvImplies == Inv => TypeOK /\ LayersAgree /\ AlivesAreListed /\ HangsOnlyWhenFresh
<1> SUFFICES ASSUME Inv PROVE TypeOK /\ LayersAgree /\ AlivesAreListed /\ HangsOnlyWhenFresh
  OBVIOUS
<1>1. world \in Worlds /\ \A b \in Bots : bots[b] \in BotStates
  BY DEF Inv
<1>2. TypeOK
  <2>1. /\ world.terrain \in [Cells -> 0..255] /\ world.background \in [Cells -> 0..255]
        /\ world.blocksMeta \in [Cells -> 0..255]
    BY <1>1, WorldIs
  <2>2. \A b \in Bots :
          /\ bots[b].x \in Int /\ bots[b].y \in Int /\ bots[b].rotation \in 0..3
          /\ bots[b].cooldown \in Cooldowns
          /\ bots[b].geo \in Seq(cantake) /\ Len(bots[b].geo) <= Geology
    BY <1>1, BotIs
  <2> QED
    BY <2>1, <2>2 DEF TypeOK, Inv
<1>3. LayersAgree
  BY <1>1, WorldIs DEF LayersAgree
<1>4. AlivesAreListed
  <2>1. Len(world.alivesList) \in Nat /\ world.iter \in Nat /\ world.iter <= Len(world.alivesList)
    BY <1>1, WorldIs, LenProperties
  <2> QED
    BY <1>1, <2>1, WorldIs DEF AlivesAreListed
<1> QED
  BY <1>2, <1>3, <1>4 DEF Inv

\* The layers have their types: cells hold bytes, a geo stack holds blocks
\* that can be taken and no more than fit, and the rotations, cooldowns and
\* options are ones the client knows.
THEOREM TypeCorrect == Spec => []TypeOK
BY InvAlways, InvImplies, PTL

\* The layers agree whatever order of digging, building, falling, growth and
\* clearing the events come in: wmap.js keeps solid blocks out of the floor,
\* other blocks out of the terrain, and no density without its block.
THEOREM LayersStayInAgreement == Spec => []LayersAgree
BY InvAlways, InvImplies, PTL

\* No alive block is lost to the growth timer: its cell is in the list that
\* the iterator of geophys.js walks over, once.
THEOREM AlivesStayListed == Spec => []AlivesAreListed
BY InvAlways, InvImplies, PTL

\* The loop of controls.js that repeats Move can only run for ever for a bot
\* that never had a cooldown, carries nothing and does not dig by itself.
THEOREM OnlyFreshBotsHang == Spec => []HangsOnlyWhenFresh
BY InvAlways, InvImplies, PTL
------------------------------------------------------------------------------
(***************************************************************************)
(* What the operations of a bot touch.                                     *)
(***************************************************************************)
\* From w to v, no terrain outside T and no floor outside G has changed.
SameBut(w, v, T, G) ==
    \A i \in Cells :
        /\ i \notin T => v.terrain[i] = w.terrain[i] /\ v.blocksMeta[i] = w.blocksMeta[i]
        /\ i \notin G => v.background[i] = w.background[i]

CellAt(x, y) == IF ValidCoords(x, y) THEN {Index(x, y)} ELSE {}
CellAhead(r) == CellAt(bFrontX(r), bFrontY(r))

LEMMA SetTileReach ==
    ASSUME NEW w \in Worlds, NEW j \in Cells, NEW id \in 0..255, NEW density \in 0..255
    PROVE  /\ SameBut(w, SetTile(w, j, id, density), {j}, {j})
           /\ id \notin solid => SameBut(w, SetTile(w, j, id, density), {}, {j})
<1> DEFINE t == w.terrain
           g == w.background
           m == w.blocksMeta
           l == w.alivesList
           k == w.iter
           v == SetTile(w, j, id, density)
           d == IF id \in hasdensity THEN density ELSE 0
           a == IF id \in is_alive /\ ~Contains(l, j) THEN Append(l, j) ELSE l
<1>1. /\ w = World(t, g, m, l, k)
      /\ t \in [Cells -> 0..255] /\ g \in [Cells -> 0..255] /\ m \in [Cells -> 0..255]
  BY ZenonT(30), WorldIs
<1>2. CASE id \in solid
  <2>1. v = World([t EXCEPT ![j] = id], g, [m EXCEPT ![j] = d], a, k)
    <3> HIDE DEF t, g, m, l, k
    <3> QED
      BY <1>1, <1>2 DEF SetTile, World
  <2>2. v.terrain = [t EXCEPT ![j] = id] /\ v.background = g /\ v.blocksMeta = [m EXCEPT ![j] = d]
    <3> HIDE DEF t, g, m, l, k, v, d, a
    <3> QED
      BY <2>1 DEF World
  <2>3. \A i \in Cells : i # j => /\ v.terrain[i] = t[i] /\ v.blocksMeta[i] = m[i]
                                  /\ v.background[i] = g[i]
    <3> HIDE DEF t, g, m, l, k, v, d, a
    <3> QED
      BY <1>1, <2>2
  <2> HIDE DEF v
  <2>4. SameBut(w, v, {j}, {j})
    BY <2>3 DEF SameBut
  <2> QED
    BY <1>2, <2>4 DEF v
<1>3. CASE id \notin solid
  <2>1. v = World(t, [g EXCEPT ![j] = id], m, l, k)
    <3> HIDE DEF t, g, m, l, k
    <3> QED
      BY <1>1, <1>3 DEF SetTile, World
  <2>2. v.terrain = t /\ v.background = [g EXCEPT ![j] = id] /\ v.blocksMeta = m
    <3> HIDE DEF t, g, m, l, k, v
    <3> QED
      BY <2>1 DEF World
  <2>3. \A i \in Cells : i # j => v.background[i] = g[i]
    <3> HIDE DEF t, g, m, l, k, v
    <3> QED
      BY <1>1, <2>2
  <2> HIDE DEF v
  <2>4. SameBut(w, v, {}, {j}) /\ SameBut(w, v, {j}, {j})
    BY <2>2, <2>3 DEF SameBut
  <2> QED
    BY <2>4 DEF v
<1> QED
  BY <1>2, <1>3

LEMMA SetTileWithCoordsReach ==
    ASSUME NEW w \in Worlds, NEW x, NEW y, NEW id \in 0..255, NEW density \in 0..255
    PROVE  LET v == SetTileWithCoords(w, x, y, id, density) IN
           /\ SameBut(w, v, CellAt(x, y), CellAt(x, y))
           /\ id \notin solid => SameBut(w, v, {}, CellAt(x, y))
<1>1. CASE ValidCoords(x, y)
  <2> DEFINE j == Index(x, y)
  <2>1. /\ j \in Cells /\ CellAt(x, y) = {j}
        /\ SetTileWithCoords(w, x, y, id, density) = SetTile(w, j, id, density)
    BY <1>1, IndexInCells DEF CellAt, SetTileWithCoords
  <2> HIDE DEF j
  <2>2. /\ SameBut(w, SetTile(w, j, id, density), {j}, {j})
        /\ id \notin solid => SameBut(w, SetTile(w, j, id, density), {}, {j})
    BY <2>1, SetTileReach
  <2> QED
    BY <2>1, <2>2
<1>2. CASE ~ValidCoords(x, y)
  BY <1>2 DEF CellAt, SetTileWithCoords, SameBut
<1> QED
  BY <1>1, <1>2

LEMMA DiggTileReach ==
    ASSUME NEW w \in Worlds, NEW x, NEW y, ValidCoords(x, y)
    PROVE  SameBut(w, DiggTile(w, x, y), CellAt(x, y), CellAt(x, y))
<1> DEFINE j == Index(x, y)
           t == w.terrain
           g == w.background
           m == w.blocksMeta
           l == w.alivesList
           k == w.iter
           v == DiggTile(w, x, y)
           d == m[j] - 1
           z == 0
<1>1. /\ w = World(t, g, m, l, k)
      /\ t \in [Cells -> 0..255] /\ g \in [Cells -> 0..255] /\ m \in [Cells -> 0..255]
  BY ZenonT(30), WorldIs
<1>2. j \in Cells /\ CellAt(x, y) = {j}
  BY IndexInCells DEF CellAt
<1>3. \/ v = World(t, g, [m EXCEPT ![j] = d], l, k)
      \/ v = World([t EXCEPT ![j] = z], g, m, l, k)
  <2> HIDE DEF t, g, m, l, k, j
  <2> QED
    BY <1>1, <1>2 DEF DiggTile, World, j
<1> HIDE DEF t, g, m, l, k, v, d, j, z
<1>4. \A i \in Cells : i # j => /\ v.terrain[i] = t[i] /\ v.blocksMeta[i] = m[i]
                                /\ v.background[i] = g[i]
  BY <1>1, <1>3 DEF World
<1>5. SameBut(w, v, {j}, {j})
  BY <1>4 DEF SameBut, t, m, g
<1> QED
  BY <1>2, <1>5 DEF v

LEMMA ClearTileReach ==
    ASSUME NEW w \in Worlds, NEW x, NEW y, ValidCoords(x, y)
    PROVE  SameBut(w, ClearTile(w, x, y, FALSE), CellAt(x, y), CellAt(x, y))
<1> DEFINE j == Index(x, y)
           t == w.terrain
           g == w.background
           m == w.blocksMeta
           l == w.alivesList
           k == w.iter
           v == ClearTile(w, x, y, FALSE)
           b == g[j]
           z == 0
<1>1. /\ w = World(t, g, m, l, k)
      /\ t \in [Cells -> 0..255] /\ g \in [Cells -> 0..255] /\ m \in [Cells -> 0..255]
  BY ZenonT(30), WorldIs
<1>2. j \in Cells /\ CellAt(x, y) = {j}
  BY IndexInCells DEF CellAt
<1>3. v = World([t EXCEPT ![j] = z], [g EXCEPT ![j] = b], [m EXCEPT ![j] = z], l, k)
  <2> HIDE DEF t, g, m, l, k, j
  <2> QED
    BY <1>1, <1>2 DEF ClearTile, World, j
<1> HIDE DEF t, g, m, l, k, v, b, j, z
<1>4. \A i \in Cells : i # j => /\ v.terrain[i] = t[i] /\ v.blocksMeta[i] = m[i]
                                /\ v.background[i] = g[i]
  BY <1>1, <1>3 DEF World
<1>5. SameBut(w, v, {j}, {j})
  BY <1>4 DEF SameBut, t, m, g
<1> QED
  BY <1>2, <1>5 DEF v

\* A block ahead that can be dug or taken is inside the map.
LEMMA AheadIsValid ==
    ASSUME NEW r, BlockAhead(r) \in diggable \/ BlockAhead(r) \in cantake
    PROVE  ValidCoords(bFrontX(r), bFrontY(r))
BY Kinds DEF BlockAhead, GetIDByCoord

\* The reach of an operation of a bot that looks as r does: the terrain and
\* the floor ahead of it, and the floor under it.
InReach(r) ==
    SameBut(world, world', CellAhead(r), CellAhead(r) \cup {Index(r.x, r.y)})

LEMMA SameInReach ==
    ASSUME NEW r, NEW T, NEW G, SameBut(world, world', T, G),
           T \subseteq CellAhead(r), G \subseteq CellAhead(r) \cup {Index(r.x, r.y)}
    PROVE  InReach(r)
BY DEF InReach, SameBut

LEMMA UnchangedInReach ==
    ASSUME NEW r, UNCHANGED world
    PROVE  InReach(r)
BY DEF InReach, SameBut

LEMMA DuggInReach ==
    ASSUME Inv, NEW r, world' = Dugg(r)
    PROVE  InReach(r)
<1>1. CASE BlockAhead(r) \in diggable
  <2>1. SameBut(world, world', CellAhead(r), CellAhead(r))
    BY <1>1, AheadIsValid, DiggTileReach DEF Dugg, CellAhead, Inv
  <2> QED
    BY <2>1, SameInReach
<1>2. CASE BlockAhead(r) \notin diggable
  BY <1>2, UnchangedInReach DEF Dugg
<1> QED
  BY <1>1, <1>2

LEMMA SetAheadInReach ==
    ASSUME Inv, NEW r, NEW id \in 0..255, world' = SetAhead(r, id)
    PROVE  InReach(r)
<1> DEFINE z == 0
<1>1. z \in 0..255 /\ world \in Worlds
  BY DEF Inv
<1>2. world' = SetTileWithCoords(world, bFrontX(r), bFrontY(r), id, z)
  BY DEF SetAhead
<1> HIDE DEF z
<1>3. SameBut(world, world', CellAhead(r), CellAhead(r))
  BY ZenonT(30), <1>1, <1>2, SetTileWithCoordsReach DEF CellAhead
<1> QED
  BY <1>3, SameInReach

LEMMA TrailInReach ==
    ASSUME Inv, NEW r, ValidCoords(r.x, r.y), world' \in Trails(r)
    PROVE  InReach(r)
<1> DEFINE z == 0
           u1 == SetTileWithCoords(world, r.x, r.y, ground1, z)
           u2 == SetTileWithCoords(world, r.x, r.y, ground2, z)
<1>1. /\ z \in 0..255 /\ world \in Worlds /\ ground1 \in 0..255 /\ ground2 \in 0..255
      /\ ground1 \notin solid /\ ground2 \notin solid
  BY DEF Inv, ground1, ground2, solid
<1>2. /\ SameBut(world, u1, {}, CellAt(r.x, r.y))
      /\ SameBut(world, u2, {}, CellAt(r.x, r.y))
  <2> HIDE DEF z
  <2> QED
    BY ZenonT(30), <1>1, SetTileWithCoordsReach
<1>3. world' \in {world, u1, u2}
  <2> DEFINE under == GetIDByCoord(world, r.x, r.y)
             A == under = ground0
             B == under = ground1
  <2>1. Trails(r) = {world} \cup CASE A -> {u1} [] B -> {u2} [] OTHER -> {}
    BY Zenon DEF Trails
  <2> HIDE DEF A, B, u1, u2
  <2> QED
    BY <2>1
<1>4. CellAt(r.x, r.y) = {Index(r.x, r.y)}
  BY DEF CellAt
<1> HIDE DEF u1, u2
<1>5. CASE world' = u1 \/ world' = u2
  <2>1. SameBut(world, world', {}, CellAt(r.x, r.y))
    BY <1>2, <1>5
  <2> QED
    BY <1>4, <2>1, SameInReach
<1> QED
  BY <1>3, <1>5, UnchangedInReach

\* A bot where b is, with the rotation b has after the step, had the reach of
\* the step.
Reaches(b) ==
    \E r : /\ r.x = bots[b].x /\ r.y = bots[b].y /\ r.rotation = bots'[b].rotation
           /\ InReach(r)

LEMMA CooledReaches ==
    ASSUME Inv, NEW b \in Bots, Becomes(b, Cool(bots[b])), InReach(bots[b])
    PROVE  Reaches(b)
<1>1. Cool(bots[b]) \in BotStates /\ Cool(bots[b]).rotation = bots[b].rotation
  BY CurrentIs, CoolIs
<1>2. bots'[b] = Cool(bots[b])
  BY <1>1, BecomesIs
<1> QED
  BY <1>1, <1>2 DEF Reaches

LEMMA MoveReaches ==
    ASSUME Inv, NEW b \in Bots, NEW side \in -1..3, NEW fromKeys \in BOOLEAN,
           Move(b, side, fromKeys), ValidCoords(bots[b].x, bots[b].y)
    PROVE  Reaches(b)
<1> DEFINE under == GetIDByCoord(world, bots[b].x, bots[b].y)
           turned == Turned(bots[b], side, under)
           there == [turned EXCEPT !.x = bFrontX(turned), !.y = bFrontY(turned)]
<1>1. bots[b] \in BotStates /\ world \in Worlds /\ under \in 0..255
  BY CurrentIs, IDIs
<1>2. turned \in BotStates /\ turned.x = bots[b].x /\ turned.y = bots[b].y
  <2> HIDE DEF under
  <2> QED
    BY <1>1, TurnedIs
<1>3. \/ world' \in Trails(turned) /\ Becomes(b, Cool(there))
      \/ world' = Dugg(turned) /\ Becomes(b, Cool(turned))
      \/ UNCHANGED world /\ Becomes(b, turned)
  BY DEF Move, Turned
<1> HIDE DEF turned
<1>4. there \in BotStates /\ there.rotation = turned.rotation
  <2> DEFINE x == bFrontX(turned)
             y == bFrontY(turned)
  <2>1. x \in Int /\ y \in Int
    BY <1>2, FrontIs
  <2> HIDE DEF x, y
  <2>2. /\ [turned EXCEPT !.x = x, !.y = y] \in BotStates
        /\ [turned EXCEPT !.x = x, !.y = y].rotation = turned.rotation
    BY <1>2, <2>1, MovedIs
  <2> QED
    BY <2>2 DEF x, y
<1> HIDE DEF there
<1>5. bots'[b].rotation = turned.rotation
  <2>1. /\ Cool(there) \in BotStates /\ Cool(there).rotation = turned.rotation
        /\ Cool(turned) \in BotStates /\ Cool(turned).rotation = turned.rotation
    BY <1>2, <1>4, CoolIs
  <2> QED
    BY <1>2, <1>3, <2>1, BecomesIs
<1>6. InReach(turned)
  BY <1>2, <1>3, TrailInReach, DuggInReach, UnchangedInReach
<1> QED
  BY <1>2, <1>5, <1>6 DEF Reaches

LEMMA RotateReaches ==
    ASSUME Inv, NEW b \in Bots, NEW side \in 0..3, Rotate(b, side)
    PROVE  Reaches(b)
<1> DEFINE r == [bots[b] EXCEPT !.rotation = side]
<1>1. r \in BotStates /\ r.x = bots[b].x /\ r.y = bots[b].y
  <2>1. bots[b] \in BotStates
    BY CurrentIs
  <2>2. r \in BotStates
    BY <2>1, RotatedIs
  <2>3. r.x = bots[b].x /\ r.y = bots[b].y
    OBVIOUS
  <2> QED
    BY <2>2, <2>3
<1>2. Becomes(b, Cool(r)) /\ UNCHANGED world
  BY DEF Rotate
<1> HIDE DEF r
<1>3. Cool(r) \in BotStates /\ Cool(r).rotation = r.rotation
  BY <1>1, CoolIs
<1>4. bots'[b] = Cool(r)
  BY <1>2, <1>3, BecomesIs
<1>5. InReach(r)
  BY <1>2, UnchangedInReach
<1> QED
  BY <1>1, <1>3, <1>4, <1>5 DEF Reaches

LEMMA SetBlockReaches ==
    ASSUME Inv, NEW b \in Bots, SetBlock(b)
    PROVE  Reaches(b)
<1> DEFINE block == BlockAhead(bots[b])
           A == block = block_green
           B == block = block_yellow
           C == block \in replesable
           u1 == SetAhead(bots[b], block_yellow)
           u2 == SetAhead(bots[b], block_red)
           u3 == SetAhead(bots[b], block_green)
<1>1. world' = CASE A -> u1 [] B -> u2 [] C -> u3 [] OTHER -> world
  BY Zenon DEF SetBlock
<1>2. block_yellow \in 0..255 /\ block_red \in 0..255 /\ block_green \in 0..255
  BY DEF block_yellow, block_red, block_green
<1>3. world' = u1 \/ world' = u2 \/ world' = u3 \/ world' = world
  <2> HIDE DEF A, B, C, u1, u2, u3
  <2> QED
    BY <1>1
<1>4. InReach(bots[b])
  BY <1>2, <1>3, SetAheadInReach, UnchangedInReach
<1> QED
  BY <1>4, CooledReaches DEF SetBlock

LEMMA BuildReaches ==
    ASSUME Inv, NEW b \in Bots, SetRoad(b) \/ SetWB(b) \/ SetQuadro(b)
    PROVE  Reaches(b)
<1>1. road \in 0..255 /\ block_war \in 0..255 /\ block_quadro \in 0..255 /\ block_support \in 0..255
  BY DEF road, block_war, block_quadro, block_support
<1>2. ASSUME NEW allowed, NEW id \in 0..255, Build(b, allowed, id) PROVE Reaches(b)
  BY <1>2, SetAheadInReach, CooledReaches DEF Build
<1> QED
  BY <1>1, <1>2 DEF SetRoad, SetWB, SetQuadro

\* A bot keeps its rotation as its stack changes.
LEMMA GeoReaches ==
    ASSUME Inv, NEW b \in Bots, NEW s, Becomes(b, Cool([bots[b] EXCEPT !.geo = s])),
           InReach(bots[b])
    PROVE  Reaches(b)
<1> DEFINE r == [bots[b] EXCEPT !.geo = s]
<1>1. bots[b] = Bot(bots[b].x, bots[b].y, bots[b].rotation, bots[b].cooldown, bots[b].geo,
                    bots[b].autodigg, bots[b].cachedBlockUnder)
  BY CurrentIs, BotIs
<1>2. r.rotation = bots[b].rotation /\ Cool(r).rotation = r.rotation
  BY <1>1 DEF Bot, Cool
<1>3. bots'[b] = Cool(r)
  BY DEF Becomes, Inv
<1> QED
  BY <1>2, <1>3 DEF Reaches

LEMMA UseGeoReaches ==
    ASSUME Inv, NEW b \in Bots, UseGeo(b)
    PROVE  Reaches(b)
<1> DEFINE id == BlockAhead(bots[b])
           geo == bots[b].geo
<1>1. CASE TakeGeo(b)
  <2> DEFINE s == Append(geo, id)
  <2>1. /\ id \in cantake /\ Becomes(b, Cool([bots[b] EXCEPT !.geo = s]))
        /\ world' = ClearTile(world, bFrontX(bots[b]), bFrontY(bots[b]), FALSE)
    BY <1>1 DEF TakeGeo
  <2>2. SameBut(world, world', CellAhead(bots[b]), CellAhead(bots[b]))
    BY <2>1, AheadIsValid, ClearTileReach DEF CellAhead, Inv
  <2>3. InReach(bots[b])
    BY <2>2, SameInReach
  <2> HIDE DEF s
  <2> QED
    BY <2>1, <2>3, GeoReaches
<1>2. CASE PlaceGeo(b) /\ geo = << >>
  BY <1>2, UnchangedInReach, CooledReaches DEF PlaceGeo
<1>3. CASE PlaceGeo(b) /\ geo # << >>
  <2> DEFINE s == Front(geo)
             last == Last(geo)
  <2>1. world' = SetAhead(bots[b], last) /\ Becomes(b, Cool([bots[b] EXCEPT !.geo = s]))
    BY <1>3 DEF PlaceGeo
  <2>2. geo \in Seq(cantake)
    BY CurrentIs, BotIs
  <2> HIDE DEF geo
  <2>3. Len(geo) \in Nat /\ Len(geo) >= 1 /\ \A k \in 1..Len(geo) : geo[k] \in cantake
    BY <1>3, <2>2, EmptySeq, LenProperties
  <2>4. last \in cantake
    BY <2>3 DEF Last
  <2> HIDE DEF last, s
  <2>5. last \in 0..255
    BY <2>4, Kinds
  <2>6. InReach(bots[b])
    BY <2>1, <2>5, SetAheadInReach
  <2> QED
    BY <2>1, <2>6, GeoReaches
<1> QED
  BY <1>1, <1>2, <1>3 DEF UseGeo

LEMMA OperateReaches ==
    ASSUME Inv, NEW b \in Bots, Operate(b), ValidCoords(bots[b].x, bots[b].y)
    PROVE  Reaches(b)
<1>1. ASSUME NEW side \in -1..3, Move(b, side, FALSE) PROVE Reaches(b)
  <2> DEFINE no == FALSE
  <2>1. no \in BOOLEAN /\ Move(b, side, no)
    BY <1>1
  <2> HIDE DEF no
  <2> QED
    BY <2>1, MoveReaches
<1>2. ASSUME Digg(b) PROVE Reaches(b)
  BY <1>2, DuggInReach, CooledReaches DEF Digg
<1>3. ASSUME Heal(b) PROVE Reaches(b)
  BY <1>3, UnchangedInReach, CooledReaches DEF Heal
<1> QED
  BY <1>1, <1>2, <1>3, RotateReaches, SetBlockReaches, BuildReaches, UseGeoReaches DEF Operate

\* What BotsEditInReach says of a step.
EditsInReach ==
    \A b \in Bots :
        Operate(b) /\ ValidCoords(bots[b].x, bots[b].y) =>
            LET here == bots[b]
                at == [here EXCEPT !.rotation = bots'[b].rotation]
                ahead == IF ValidCoords(bFrontX(at), bFrontY(at))
                         THEN {Index(bFrontX(at), bFrontY(at))} ELSE {}
            IN \A i \in Cells :
                  /\ i \notin ahead => /\ world'.terrain[i] = world.terrain[i]
                                       /\ world'.blocksMeta[i] = world.blocksMeta[i]
                  /\ i \notin ahead \cup {Index(here.x, here.y)} =>
                        world'.background[i] = world.background[i]

LEMMA StepInReach ==
    ASSUME Inv
    PROVE  EditsInReach
<1> SUFFICES ASSUME NEW b \in Bots, Operate(b), ValidCoords(bots[b].x, bots[b].y)
             PROVE  LET at == [bots[b] EXCEPT !.rotation = bots'[b].rotation]
                    IN  SameBut(world, world', CellAhead(at),
                                CellAhead(at) \cup {Index(bots[b].x, bots[b].y)})
  BY DEF EditsInReach, SameBut, CellAhead, CellAt
<1> DEFINE turn == bots'[b].rotation
           at == [bots[b] EXCEPT !.rotation = turn]
<1>1. PICK r : /\ r.x = bots[b].x /\ r.y = bots[b].y /\ r.rotation = turn
               /\ InReach(r)
  BY OperateReaches DEF Reaches
<1>2. at.x = bots[b].x /\ at.y = bots[b].y /\ at.rotation = turn
  <2>1. bots[b] = Bot(bots[b].x, bots[b].y, bots[b].rotation, bots[b].cooldown, bots[b].geo,
                      bots[b].autodigg, bots[b].cachedBlockUnder)
    BY CurrentIs, BotIs
  <2> HIDE DEF turn
  <2> QED
    BY <2>1 DEF Bot
<1> HIDE DEF turn, at
<1>3. CellAhead(at) = CellAhead(r)
  BY <1>1, <1>2 DEF CellAhead, bFrontX, bFrontY
<1>4. SameBut(world, world', CellAhead(at), CellAhead(at) \cup {Index(bots[b].x, bots[b].y)})
  BY <1>1, <1>3 DEF InReach
<1> QED
  BY <1>4 DEF at, turn

\* An operation of a bot inside the map changes no terrain but that of the
\* cell ahead and no floor but that and the bot's own: the missing checks of
\* DiggTile and ClearTile are never met by a bot at the border.
THEOREM BotsStayInReach == Spec => BotsEditInReach
<1>1. Inv => [EditsInReach]_vars
  BY StepInReach
<1>2. [][EditsInReach]_vars => BotsEditInReach
  BY DEF BotsEditInReach, EditsInReach
<1> QED
  BY <1>1, <1>2, InvAlways, PTL
------------------------------------------------------------------------------
(***************************************************************************)
(* Blocks are neither lost nor doubled.                                    *)
(***************************************************************************)
Many(t, id) == Cardinality({c \in Cells : t[c] = id})
\* u is t but for b in cell i.
Changed(t, i, b, u) == u = [t EXCEPT ![i] = b]
Is(a, b) == IF a = b THEN 1 ELSE 0

\* What changing one cell does to the number of cells of each kind.
LEMMA ManySet ==
    ASSUME NEW t \in [Cells -> 0..255], NEW i \in Cells, NEW b, NEW u,
           Changed(t, i, b, u), NEW id
    PROVE  /\ Many(t, id) \in Int
           /\ Many(u, id) = Many(t, id) + Is(b, id) - Is(t[i], id)
<1> DEFINE S == {c \in Cells : t[c] = id}
           T == {c \in Cells : u[c] = id}
<1>1. IsFiniteSet(Cells)
  <2>1. 0 \in Int /\ Width * Height - 1 \in Int
    BY SizeAssumption
  <2> QED
    BY <2>1, FS_Interval DEF Cells
<1>2. IsFiniteSet(S) /\ Cardinality(S) \in Nat
  BY <1>1, FS_Subset, FS_CardinalityType
<1>3. Many(t, id) = Cardinality(S) /\ Many(u, id) = Cardinality(T)
  BY DEF Many
<1>4. u[i] = b /\ \A c \in Cells : c # i => u[c] = t[c]
  BY DEF Changed
<1>5. CASE b = id /\ t[i] = id
  <2>1. T = S
    BY <1>4, <1>5
  <2> HIDE DEF S, T
  <2> QED
    BY <1>2, <1>3, <1>5, <2>1 DEF Is
<1>6. CASE b = id /\ t[i] # id
  <2>1. T = S \cup {i} /\ i \notin S
    BY <1>4, <1>6
  <2> HIDE DEF S, T
  <2>2. Cardinality(T) = Cardinality(S) + 1
    BY <1>2, <2>1, FS_AddElement
  <2> QED
    BY <1>2, <1>3, <1>6, <2>2 DEF Is
<1>7. CASE b # id /\ t[i] = id
  <2>1. T = S \ {i} /\ i \in S
    BY <1>4, <1>7
  <2> HIDE DEF S, T
  <2>2. Cardinality(T) = Cardinality(S) - 1
    BY <1>2, <2>1, FS_RemoveElement
  <2> QED
    BY <1>2, <1>3, <1>7, <2>2 DEF Is
<1>8. CASE b # id /\ t[i] # id
  <2>1. T = S
    BY <1>4, <1>8
  <2> HIDE DEF S, T
  <2> QED
    BY <1>2, <1>3, <1>8, <2>1 DEF Is
<1> QED
  BY <1>5, <1>6, <1>7, <1>8

\* Two worlds have as many blocks of each kind of S.
SameMany(w, v, S) == \A id \in S : Many(v.terrain, id) = Many(w.terrain, id)

LEMMA SameTerrain ==
    ASSUME NEW w, NEW v, NEW S, v.terrain = w.terrain
    PROVE  SameMany(w, v, S)
BY DEF SameMany

\* A block that moves from one cell to a free one is still one block.
LEMMA MoveKeepsMany ==
    ASSUME NEW t \in [Cells -> 0..255], NEW j \in Cells, NEW k \in Cells,
           t[j] # 0, t[k] = 0, NEW u, Changed(t, j, 0, u),
           NEW v, Changed(u, k, t[j], v), NEW id
    PROVE  Many(v, id) = Many(t, id)
<1> DEFINE z == 0
           b == t[j]
<1>1. /\ u \in [Cells -> 0..255] /\ u[k] = z /\ z \in Int /\ t[k] = z
      /\ Changed(t, j, z, u) /\ Changed(u, k, b, v)
  BY DEF Changed
<1>2. Is(b, id) \in Int /\ Is(z, id) \in Int
  BY DEF Is
<1> HIDE DEF z, b
<1>3. Many(t, id) \in Int /\ Many(u, id) = Many(t, id) + Is(z, id) - Is(b, id)
  BY <1>1, ManySet DEF b
<1>4. Many(v, id) = Many(u, id) + Is(b, id) - Is(u[k], id)
  BY <1>1, ManySet
<1> QED
  BY <1>1, <1>2, <1>3, <1>4

\* A cell without a solid block on it is in the map and has no terrain.
LEMMA FreeIs ==
    ASSUME NEW w \in Worlds, NEW x, NEW y,
           Free(w, x, y) \/ GetIDByCoord(w, x, y) \notin solid
    PROVE  ValidCoords(x, y) /\ Index(x, y) \in Cells /\ w.terrain[Index(x, y)] = 0
<1>1. ValidCoords(x, y)
  BY Kinds DEF Free, GetIDByCoord, GetIDByCoord_Terrain
<1> DEFINE k == Index(x, y)
<1>2. k \in Cells
  BY <1>1, IndexInCells
<1>3. w.terrain[k] \notin solid
  BY <1>1 DEF Free, GetIDByCoord, GetIDByCoord_Terrain
<1> HIDE DEF k
<1>4. w.terrain[k] = 0
  BY <1>2, <1>3, WorldIs
<1> QED
  BY <1>1, <1>2, <1>4 DEF k

\* A block of a kind that is solid but not the border is in the map.
LEMMA BlockIs ==
    ASSUME NEW w \in Worlds, NEW x, NEW y, NEW block \in solid, block # block_fed,
           GetIDByCoord_Terrain(w, x, y) = block \/ GetIDByCoord(w, x, y) = block
    PROVE  ValidCoords(x, y) /\ Index(x, y) \in Cells /\ w.terrain[Index(x, y)] = block
<1>1. ValidCoords(x, y)
  BY DEF GetIDByCoord, GetIDByCoord_Terrain
<1> DEFINE k == Index(x, y)
<1>2. k \in Cells
  BY <1>1, IndexInCells
<1>3. w.background[k] \notin solid
  <2> HIDE DEF k
  <2> QED
    BY <1>2, WorldIs
<1>4. w.terrain[k] = block
  BY <1>1, <1>3 DEF GetIDByCoord, GetIDByCoord_Terrain
<1> QED
  BY <1>1, <1>2, <1>4 DEF k

LEMMA FallToKeepsMany ==
    ASSUME NEW w \in Worlds, NEW x, NEW y, NEW nx, NEW block \in falltype,
           GetIDByCoord_Terrain(w, x, y) = block,
           Free(w, nx, y + 1) \/ GetIDByCoord(w, nx, y + 1) \notin solid,
           NEW S
    PROVE  SameMany(w, FallTo(w, x, y, nx, block), S)
<1> DEFINE j == Index(x, y)
           ny == y + 1
           k == Index(nx, ny)
           t == w.terrain
           u == ClearTile(w, x, y, FALSE)
           v == SetTileWithCoords(u, nx, ny, block, 0)
<1>1. block \in solid /\ block # block_fed /\ block \in 1..255
  BY Kinds
<1>2. ValidCoords(x, y) /\ j \in Cells /\ t[j] = block
  BY <1>1, BlockIs
<1>3. ValidCoords(nx, ny) /\ k \in Cells /\ t[k] = 0
  <2> HIDE DEF ny
  <2> QED
    BY FreeIs DEF ny
<1>4. u.terrain = [t EXCEPT ![j] = 0] /\ u \in Worlds
  BY <1>2, ClearTileTerrain, ClearTileStays
<1>5. v.terrain = [u.terrain EXCEPT ![k] = block]
  <2> DEFINE z == 0
  <2> HIDE DEF u, ny, z
  <2>1. SetTileWithCoords(u, nx, ny, block, z).terrain = [u.terrain EXCEPT ![Index(nx, ny)] = block]
    BY <1>1, <1>3, <1>4, SetTileTerrain
  <2> QED
    BY <2>1 DEF z
<1>6. FallTo(w, x, y, nx, block) = v
  BY DEF FallTo
<1>7. t \in [Cells -> 0..255]
  BY WorldIs
<1> HIDE DEF t, j, k, u, v
<1>8. Changed(t, j, 0, u.terrain) /\ Changed(u.terrain, k, t[j], v.terrain)
  BY <1>2, <1>4, <1>5 DEF Changed
<1>9. \A id : Many(v.terrain, id) = Many(t, id)
  <2> TAKE id
  <2>1. t[j] # 0
    BY <1>1, <1>2
  <2> QED
    BY <1>2, <1>3, <1>4, <1>7, <1>8, <2>1, MoveKeepsMany
<1> QED
  BY <1>6, <1>9 DEF SameMany, t

LEMMA FallCellKeepsMany ==
    ASSUME NEW w \in Worlds, NEW x, NEW y, NEW S, NEW v \in FallCell(w, x, y)
    PROVE  SameMany(w, v, S)
<1> DEFINE block == GetIDByCoord_Terrain(w, x, y)
<1>1. CASE block \notin falltype \/ DownFree(w, x, y) = 2
  <2>1. v = w
    BY <1>1 DEF FallCell
  <2> QED
    BY <2>1, SameTerrain
<1>2. CASE block \in falltype /\ DownFree(w, x, y) = 1
  <2>1. v = FallTo(w, x, y, x, block)
    BY <1>2 DEF FallCell
  <2>2. GetIDByCoord(w, x, y + 1) \notin solid
    BY <1>2 DEF DownFree
  <2> HIDE DEF block
  <2> QED
    BY <1>2, <2>1, <2>2, FallToKeepsMany DEF block
<1>3. CASE block \in falltype /\ DownFree(w, x, y) \notin {1, 2}
  <2>1. x \in Int
    <3>1. block \in solid /\ block # block_fed
      BY <1>3, Kinds
    <3>2. ValidCoords(x, y)
      BY <3>1, BlockIs
    <3> QED
      BY <3>2, SizeAssumption DEF ValidCoords
  <2>2. v = w \/ \E nx : Free(w, nx, y + 1) /\ v = FallTo(w, x, y, nx, block)
    <3> DEFINE First(d) ==
            IF CanSlide(w, x, y, d, block) THEN FallTo(w, x, y, x + d, block)
            ELSE IF CanSlide(w, x, y, -d, block) THEN FallTo(w, x, y, x - d, block)
            ELSE w
    <3>1. PICK d \in {1, -1} : v = First(d)
      BY <1>3 DEF FallCell
    <3>2. x + (-d) = x - d
      BY <2>1
    <3> QED
      BY <3>1, <3>2 DEF CanSlide
  <2>3. ASSUME NEW nx, Free(w, nx, y + 1), v = FallTo(w, x, y, nx, block)
        PROVE  SameMany(w, v, S)
    <3> HIDE DEF block
    <3> QED
      BY <1>3, <2>3, FallToKeepsMany DEF block
  <2> QED
    BY <2>2, <2>3, SameTerrain
<1> QED
  BY <1>1, <1>2, <1>3

\* Falling keeps the number of blocks of each kind.
LEMMA FallingKeepsMany ==
    ASSUME NEW w \in Worlds, NEW activeChunks, NEW S,
           NEW v \in FallingCycle(w, activeChunks)
    PROVE  SameMany(w, v, S)
<1> DEFINE V == {u \in Worlds : SameMany(w, u, S)}
<1>1. w \in V
  BY SameTerrain
<1>2. \A u \in V : \A x, y : FallCell(u, x, y) \subseteq V
  <2> SUFFICES ASSUME NEW u \in V, NEW x, NEW y, NEW r \in FallCell(u, x, y)
               PROVE  r \in V
    OBVIOUS
  <2>1. r \in Worlds
    BY FallCellStays
  <2>2. SameMany(w, u, S) /\ SameMany(u, r, S)
    BY FallCellKeepsMany
  <2>3. SameMany(w, r, S)
    BY <2>2 DEF SameMany
  <2> QED
    BY <2>1, <2>3
<1> HIDE DEF V
<1>3. v \in V
  BY <1>1, <1>2, FallingCycleIn
<1> QED
  BY <1>3 DEF V

LEMMA AliveKinds ==
    /\ \A b \in Producers : Product[b] \in solid \ is_alive
    /\ cry_blue \in solid \ is_alive /\ magma \in solid \ is_alive /\ magma # block_fed
    /\ 0 \notin is_alive /\ alive_blue \in solid /\ alive_blue # block_fed
BY DEF Product, Producers, alive_cyan, alive_red, alive_vio, alive_white, cry_cyan, cry_red, cry_vio,
       cry_white, cry_blue, magma, block_fed, alive_blue, solid, is_alive

\* A change of a cell from one dead kind to another is no matter of the alive.
LEMMA DeadChange ==
    ASSUME NEW w, NEW v, w.terrain \in [Cells -> 0..255], NEW i \in Cells, NEW b,
           Changed(w.terrain, i, b, v.terrain), b \notin is_alive, w.terrain[i] \notin is_alive
    PROVE  SameMany(w, v, is_alive)
<1> SUFFICES ASSUME NEW id \in is_alive PROVE Many(v.terrain, id) = Many(w.terrain, id)
  BY DEF SameMany
<1> DEFINE t == w.terrain
           u == v.terrain
<1>1. t \in [Cells -> 0..255] /\ Changed(t, i, b, u) /\ b # id /\ t[i] # id
  OBVIOUS
<1> HIDE DEF t, u
<1>2. Many(t, id) \in Int /\ Many(u, id) = Many(t, id) + Is(b, id) - Is(t[i], id)
  BY <1>1, ManySet
<1>3. Is(b, id) = 0 /\ Is(t[i], id) = 0
  BY <1>1 DEF Is
<1>4. Many(u, id) = Many(t, id)
  BY <1>2, <1>3
<1> QED
  BY <1>4 DEF t, u

\* v has the alive blocks of w and every other one too.
OnlyMore(w, v) ==
    /\ v \in Worlds /\ SameMany(w, v, is_alive)
    /\ \A i \in Cells : w.terrain[i] # 0 => v.terrain[i] = w.terrain[i]

LEMMA SetIfFreeKeepsAlive ==
    ASSUME NEW w \in Worlds, NEW x, NEW y, NEW id \in solid \ is_alive, NEW h \in 0..255
    PROVE  OnlyMore(w, SetIfFree(w, x, y, id, h))
<1> DEFINE v == SetIfFree(w, x, y, id, h)
<1>1. v \in Worlds
  <2>1. id \in 0..255
    BY Kinds
  <2> QED
    BY <2>1, SetIfFreeStays
<1>2. CASE ~Free(w, x, y)
  <2>1. v = w
    BY <1>2 DEF SetIfFree
  <2> QED
    BY <1>1, <2>1, SameTerrain DEF OnlyMore
<1>3. CASE Free(w, x, y)
  <2> DEFINE k == Index(x, y)
             t == w.terrain
             u == v.terrain
  <2>1. ValidCoords(x, y) /\ k \in Cells /\ t[k] = 0 /\ t \in [Cells -> 0..255]
    <3>1. ValidCoords(x, y) /\ k \in Cells /\ t[k] = 0
      BY <1>3, FreeIs
    <3> QED
      BY <3>1, WorldIs
  <2>2. u = [t EXCEPT ![k] = id]
    BY <1>3, <2>1, SetTileTerrain DEF SetIfFree
  <2>3. Changed(t, k, id, u)
    BY <2>2 DEF Changed
  <2>4. t[k] \notin is_alive
    BY <2>1, AliveKinds
  <2> HIDE DEF k, v
  <2>5. SameMany(w, v, is_alive)
    BY <2>1, <2>3, <2>4, DeadChange
  <2> HIDE DEF t, u
  <2>6. \A i \in Cells : t[i] # 0 => u[i] = t[i]
    BY <2>1, <2>2
  <2> QED
    BY <1>1, <2>5, <2>6 DEF t, u, v, OnlyMore
<1> QED
  BY <1>2, <1>3

LEMMA ProduceKeepsAlive ==
    ASSUME NEW w \in Worlds, NEW x, NEW y, NEW block \in Producers,
           NEW sides, NEW n \in Nat, DOMAIN sides = 1..n
    PROVE  OnlyMore(w, Produce(w, x, y, block, sides))
<1> DEFINE id == Product[block]
           V == {v \in Worlds : OnlyMore(w, v)}
<1>1. id \in solid \ is_alive
  BY AliveKinds
<1>2. w \in V
  BY SameTerrain DEF OnlyMore
<1> HIDE DEF id
<1>3. ASSUME NEW v \in V, NEW h \in 0..255, NEW a, NEW b
      PROVE  SetIfFree(v, a, b, id, h) \in V
  <2> DEFINE u == SetIfFree(v, a, b, id, h)
  <2>1. v \in Worlds /\ OnlyMore(w, v)
    OBVIOUS
  <2>2. OnlyMore(v, u)
    BY <1>1, <2>1, SetIfFreeKeepsAlive
  <2> HIDE DEF u
  <2>3. u \in Worlds /\ OnlyMore(w, u)
    BY <2>1, <2>2 DEF OnlyMore, SameMany
  <2> QED
    BY <2>3 DEF u
<1> HIDE DEF V
<1>4. Produce(w, x, y, block, sides) \in V
  BY <1>2, <1>3, ProduceIn DEF id
<1> QED
  BY <1>4 DEF V

\* A blue block that moves stays one.
LEMMA MoveBlueKeepsAlive ==
    ASSUME NEW w \in Worlds, NEW x, NEW y, NEW s, GetIDByCoord_Terrain(w, x, y) = alive_blue
    PROVE  SameMany(w, MoveBlue(w, x, y, s), is_alive)
<1> DEFINE mx == x + s[1]
           my == y + s[2]
           hard == CalculateAliveProductHardness(w, x, y, alive_blue)
           w1 == SetTileWithCoords(w, mx, my, alive_blue, 0)
           w2 == SetDensity(w1, mx, my, 1)
           w3 == SetTileWithCoords(w2, x, y, cry_blue, hard)
           j == Index(x, y)
           k == Index(mx, my)
           t == w.terrain
           t2 == w2.terrain
           t3 == w3.terrain
<1>1. CASE ~Free(w, mx, my)
  <2>1. MoveBlue(w, x, y, s) = w
    BY <1>1 DEF MoveBlue
  <2> QED
    BY <2>1, SameTerrain
<1>2. CASE Free(w, mx, my)
  <2>1. MoveBlue(w, x, y, s) = w3
    BY <1>2 DEF MoveBlue
  <2>2. t \in [Cells -> 0..255] /\ alive_blue \in 1..255
    BY ZenonT(30), WorldIs, Kinds
  <2>3. ValidCoords(x, y) /\ j \in Cells /\ t[j] = alive_blue
    BY AliveKinds, BlockIs
  <2> HIDE DEF mx, my, hard
  <2>4. ValidCoords(mx, my) /\ k \in Cells /\ t[k] = 0
    BY <1>2, FreeIs
  <2>5. w2 \in Worlds /\ t2 = [t EXCEPT ![k] = alive_blue]
    BY <2>4, BlueArrives
  <2> HIDE DEF w2
  <2>6. t3 = [t2 EXCEPT ![j] = cry_blue]
    BY <2>3, <2>5, AliveKinds, SetTileTerrain
  <2> HIDE DEF w3, t, t2, t3, j, k
  <2>7. t2 \in [Cells -> 0..255] /\ t2[j] = alive_blue
    BY <2>2, <2>3, <2>4, <2>5
  <2>8. Changed(t, k, alive_blue, t2) /\ Changed(t2, j, cry_blue, t3)
    BY <2>5, <2>6 DEF Changed
  <2>9. ASSUME NEW id \in is_alive PROVE Many(t3, id) = Many(t, id)
    <3>1. Is(0, id) = 0 /\ Is(cry_blue, id) = 0 /\ Is(alive_blue, id) \in Int
      BY AliveKinds DEF Is
    <3>2. Many(t, id) \in Int /\ Many(t2, id) = Many(t, id) + Is(alive_blue, id) - Is(t[k], id)
      BY <2>2, <2>4, <2>8, ManySet
    <3>3. Many(t3, id) = Many(t2, id) + Is(cry_blue, id) - Is(t2[j], id)
      BY <2>3, <2>7, <2>8, ManySet
    <3>4. Is(t[k], id) = 0 /\ Is(t2[j], id) = Is(alive_blue, id)
      BY <2>4, <2>7, <3>1
    <3> DEFINE one == Is(alive_blue, id)
    <3> HIDE DEF one
    <3>5. Many(t3, id) = (Many(t, id) + one - 0) + 0 - one /\ one \in Int
      BY <3>1, <3>2, <3>3, <3>4 DEF one
    <3> QED
      BY <3>2, <3>5
  <2> QED
    BY <2>1, <2>9 DEF SameMany, t, t3
<1> QED
  BY <1>1, <1>2

LEMMA AliveGrowthKeepsAlive ==
    ASSUME NEW w \in Worlds, NEW x, NEW y, NEW v \in AliveGrowth(w, x, y)
    PROVE  SameMany(w, v, is_alive)
<1> DEFINE block == GetIDByCoord_Terrain(w, x, y)
<1>1. ASSUME block \in Producers, NEW sides, NEW n \in Nat, DOMAIN sides = 1..n
      PROVE  OnlyMore(w, Produce(w, x, y, block, sides))
  <2> HIDE DEF block
  <2> QED
    BY <1>1, ProduceKeepsAlive
<1>2. 4 \in Nat /\ DOMAIN Sides = 1..4 /\ 7 \in Nat /\ DOMAIN WhiteSides = 1..7
  BY DEF Sides, WhiteSides
<1>3. CASE /\ block \in {alive_cyan, alive_red, alive_vio}
           /\ AliveGrowth(w, x, y) = {Produce(w, x, y, block, Sides)}
  <2>1. block \in Producers
    BY <1>3 DEF Producers
  <2>2. OnlyMore(w, Produce(w, x, y, block, Sides))
    <3> HIDE DEF block
    <3> QED
      BY <1>1, <1>2, <2>1
  <2> QED
    BY <1>3, <2>2 DEF OnlyMore
<1>4. CASE /\ block = alive_white /\ GetIDByCoord(w, x, y - 1) = magma
           /\ AliveGrowth(w, x, y) =
                 {ClearTile(Produce(w, x, y, block, WhiteSides), x, y - 1, FALSE)}
  <2> DEFINE u == Produce(w, x, y, block, WhiteSides)
             uy == y - 1
             i == Index(x, uy)
  <2>1. block \in Producers
    BY <1>4 DEF Producers
  <2>2. OnlyMore(w, u)
    <3> HIDE DEF block
    <3> QED
      BY <1>1, <1>2, <2>1
  <2>3. v = ClearTile(u, x, uy, FALSE) /\ GetIDByCoord(w, x, uy) = magma
    BY <1>4
  <2> HIDE DEF u, uy
  <2>4. ValidCoords(x, uy) /\ i \in Cells /\ w.terrain[i] = magma
    BY <2>3, AliveKinds, BlockIs
  <2>5. v.terrain = [u.terrain EXCEPT ![i] = 0] /\ u.terrain \in [Cells -> 0..255]
    <3>1. u \in Worlds
      BY <2>2 DEF OnlyMore
    <3>2. ClearTile(u, x, uy, FALSE).terrain = [u.terrain EXCEPT ![Index(x, uy)] = 0]
      BY <2>4, <3>1, ClearTileTerrain
    <3>3. u.terrain \in [Cells -> 0..255]
      BY <3>1, WorldIs
    <3> QED
      BY <2>3, <3>2, <3>3
  <2> HIDE DEF i
  <2>6. u.terrain[i] = magma
    <3>1. magma # 0
      BY DEF magma
    <3> QED
      BY <2>2, <2>4, <3>1 DEF OnlyMore
  <2>7. SameMany(u, v, is_alive)
    <3> DEFINE z == 0
    <3>1. Changed(u.terrain, i, z, v.terrain) /\ z \notin is_alive /\ u.terrain[i] \notin is_alive
      BY <2>5, <2>6, AliveKinds DEF Changed
    <3> HIDE DEF z
    <3> QED
      BY <2>4, <2>5, <3>1, DeadChange
  <2> QED
    BY <2>2, <2>7 DEF OnlyMore, SameMany
<1>5. CASE AliveGrowth(w, x, y) = {SetDensity(w, x, y, 0)}
  BY <1>5, SetDensityTerrain, SameTerrain
<1>6. CASE /\ block = alive_blue
           /\ AliveGrowth(w, x, y) = {MoveBlue(w, x, y, Sides[k]) : k \in 1..4}
  BY <1>6, MoveBlueKeepsAlive
<1>7. CASE AliveGrowth(w, x, y) = {w}
  BY <1>7, SameTerrain
<1> QED
  BY <1>3, <1>4, <1>5, <1>6, <1>7, AliveGrowthIs

LEMMA VisitKeepsAlive ==
    ASSUME NEW w \in Worlds, NEW v \in Visit(w)
    PROVE  SameMany(w, v, is_alive)
<1> DEFINE l == w.alivesList
           k == w.iter
           p == k + 1
           val == l[p]
           Stepped(n) == [w EXCEPT !.iter = n]
           shorter == [w EXCEPT !.alivesList = RemoveAt(@, p)]
<1>1. k \in Nat /\ k <= Len(l) /\ Len(l) \in Nat
  BY WorldIs, LenProperties
<1>2. (\A n : Stepped(n).terrain = w.terrain) /\ shorter.terrain = w.terrain
  <2>1. w = World(w.terrain, w.background, w.blocksMeta, w.alivesList, w.iter)
    BY WorldIs
  <2> QED
    BY <2>1 DEF World
<1>3. CASE k >= Len(l)
  <2>1. v = Stepped(0)
    BY <1>3 DEF Visit
  <2> QED
    BY <1>2, <2>1, SameTerrain
<1>4. CASE ~(k >= Len(l)) /\ w.terrain[val] \in is_alive
  <2>1. p \in Nat /\ p <= Len(l)
    BY <1>1, <1>4
  <2> DEFINE u == Stepped(p)
  <2>2. u \in Worlds
    <3> HIDE DEF p
    <3> QED
      BY <2>1, IterStays
  <2>3. v \in AliveGrowth(u, X(val), Y(val))
    BY <1>4 DEF Visit
  <2>4. u.terrain = w.terrain
    BY <1>2
  <2> HIDE DEF u, val
  <2>5. SameMany(u, v, is_alive)
    BY <2>2, <2>3, AliveGrowthKeepsAlive
  <2> QED
    BY <2>4, <2>5 DEF SameMany
<1>5. CASE ~(k >= Len(l)) /\ w.terrain[val] \notin is_alive
  <2>1. v = shorter
    BY <1>5 DEF Visit
  <2> QED
    BY <1>2, <2>1, SameTerrain
<1> QED
  BY <1>3, <1>4, <1>5

\* Growth keeps the number of alive blocks of each kind.
LEMMA GrowthKeepsAlive ==
    ASSUME NEW w \in Worlds, NEW v \in Growth(w)
    PROVE  SameMany(w, v, is_alive)
<1> DEFINE V == {u \in Worlds : SameMany(w, u, is_alive)}
<1>1. w \in V
  BY SameTerrain
<1>2. \A u \in V : Visit(u) \subseteq V
  <2> SUFFICES ASSUME NEW u \in V, NEW r \in Visit(u) PROVE r \in V
    OBVIOUS
  <2>1. r \in Worlds
    BY VisitStays
  <2>2. SameMany(w, u, is_alive) /\ SameMany(u, r, is_alive)
    BY VisitKeepsAlive
  <2>3. SameMany(w, r, is_alive)
    BY <2>2 DEF SameMany
  <2> QED
    BY <2>1, <2>3
<1> HIDE DEF V
<1>3. v \in V
  BY <1>1, <1>2, GrowthIn
<1> QED
  BY <1>3 DEF V
------------------------------------------------------------------------------
(* The geo stack. *)

Stacked(s, id) == Cardinality({k \in 1..Len(s) : s[k] = id})

\* A stack with one more on top.
LEMMA StackedMore ==
    ASSUME NEW n \in Nat, NEW s, NEW r, Len(s) = n, Len(r) = n + 1,
           \A k \in 1..n : r[k] = s[k], NEW id
    PROVE  /\ Stacked(s, id) \in Int
           /\ Stacked(r, id) = Stacked(s, id) + Is(r[n + 1], id)
<1> DEFINE S == {k \in 1..n : s[k] = id}
           R == {k \in 1..(n + 1) : r[k] = id}
           top == n + 1
<1>1. Stacked(s, id) = Cardinality(S) /\ Stacked(r, id) = Cardinality(R)
  BY DEF Stacked
<1>2. IsFiniteSet(S) /\ Cardinality(S) \in Nat
  <2>1. IsFiniteSet(1..n)
    BY FS_Interval
  <2> QED
    BY <2>1, FS_Subset, FS_CardinalityType
<1>3. CASE r[top] = id
  <2>1. R = S \cup {top} /\ top \notin S
    BY <1>3
  <2> HIDE DEF S, R, top
  <2>2. Cardinality(R) = Cardinality(S) + 1
    BY <1>2, <2>1, FS_AddElement
  <2>3. Is(r[top], id) = 1
    BY <1>3 DEF Is
  <2>4. Stacked(s, id) \in Int /\ Stacked(r, id) = Stacked(s, id) + Is(r[top], id)
    BY <1>1, <1>2, <2>2, <2>3
  <2> QED
    BY <2>4 DEF top
<1>4. CASE r[top] # id
  <2>1. R = S
    BY <1>4
  <2> HIDE DEF S, R, top
  <2>2. Is(r[top], id) = 0
    BY <1>4 DEF Is
  <2>3. Stacked(s, id) \in Int /\ Stacked(r, id) = Stacked(s, id) + Is(r[top], id)
    BY <1>1, <1>2, <2>1, <2>2
  <2> QED
    BY <2>3 DEF top
<1> QED
  BY <1>3, <1>4

LEMMA AppendStacked ==
    ASSUME NEW s \in Seq(cantake), NEW g \in cantake, NEW id
    PROVE  /\ Stacked(s, id) \in Int
           /\ Stacked(Append(s, g), id) = Stacked(s, id) + Is(g, id)
<1> DEFINE n == Len(s)
           r == Append(s, g)
<1>1. n \in Nat /\ Len(s) = n /\ Len(r) = n + 1 /\ r[n + 1] = g /\ \A k \in 1..n : r[k] = s[k]
  BY AppendProperties, LenProperties
<1> HIDE DEF n, r
<1>2. Stacked(s, id) \in Int /\ Stacked(r, id) = Stacked(s, id) + Is(r[n + 1], id)
  BY <1>1, StackedMore
<1> QED
  BY <1>1, <1>2 DEF r

LEMMA FrontStacked ==
    ASSUME NEW s \in Seq(cantake), s # << >>, NEW id
    PROVE  /\ Stacked(Front(s), id) \in Int
           /\ Stacked(s, id) = Stacked(Front(s), id) + Is(Last(s), id)
           /\ Last(s) \in cantake
<1> DEFINE n == Len(s) - 1
           f == Front(s)
           one == 1
<1>1. Len(s) \in Nat /\ Len(s) >= 1 /\ \A k \in 1..Len(s) : s[k] \in cantake
  BY EmptySeq, LenProperties
<1>2. n \in Nat /\ Len(s) = n + 1 /\ one \in Int /\ n \in Int /\ \A k \in one..n : s[k] \in cantake
  BY <1>1
<1>3. f = SubSeq(s, one, n)
  BY DEF Front
<1>4. Last(s) = s[n + 1] /\ Last(s) \in cantake
  BY <1>1, <1>2 DEF Last
<1> HIDE DEF f, n, one
<1>5. Len(f) = (IF one <= n THEN n - one + 1 ELSE 0) /\ \A k \in 1..(n - one + 1) : f[k] = s[one + k - 1]
  BY <1>2, <1>3, SubSeqProperties
<1>6. Len(f) = n /\ \A k \in 1..n : f[k] = s[k]
  BY <1>2, <1>5 DEF one
<1>7. \A k \in 1..n : s[k] = f[k]
  BY <1>6
<1>8. Stacked(f, id) \in Int /\ Stacked(s, id) = Stacked(f, id) + Is(s[n + 1], id)
  BY <1>2, <1>6, <1>7, StackedMore
<1> QED
  BY <1>4, <1>8 DEF f

LEMMA GeoOf ==
    ASSUME Inv, NEW b \in Bots, NEW s, Becomes(b, Cool([bots[b] EXCEPT !.geo = s]))
    PROVE  bots'[b].geo = s
<1>1. bots'[b] = Cool([bots[b] EXCEPT !.geo = s])
  BY DEF Becomes, Inv
<1>2. bots[b] = Bot(bots[b].x, bots[b].y, bots[b].rotation, bots[b].cooldown, bots[b].geo,
                    bots[b].autodigg, bots[b].cachedBlockUnder)
  BY CurrentIs, BotIs
<1> QED
  BY <1>1, <1>2 DEF Cool, Bot

\* A block goes from the map to the stack or back.
LEMMA UseGeoKeepsMany ==
    ASSUME Inv, NEW b \in Bots, UseGeo(b), NEW id \in solid
    PROVE  Many(world'.terrain, id) + Stacked(bots'[b].geo, id) =
               Many(world.terrain, id) + Stacked(bots[b].geo, id)
<1> DEFINE geo == bots[b].geo
           geoP == bots'[b].geo
           x == bFrontX(bots[b])
           y == bFrontY(bots[b])
           t == world.terrain
           tP == world'.terrain
           i == Index(x, y)
           block == BlockAhead(bots[b])
           z == 0
<1>1. /\ world \in Worlds /\ bots[b] \in BotStates /\ geo \in Seq(cantake)
      /\ t \in [Cells -> 0..255] /\ block = GetIDByCoord(world, x, y)
  BY ZenonT(30), CurrentIs, BotIs, WorldIs DEF BlockAhead
<1>2. Is(z, id) = 0 /\ \A g : Is(g, id) \in Int
  BY Kinds DEF Is
<1>3. CASE TakeGeo(b)
  <2> DEFINE s == Append(geo, block)
  <2>1. /\ block \in cantake /\ Becomes(b, Cool([bots[b] EXCEPT !.geo = s]))
        /\ world' = ClearTile(world, x, y, FALSE)
    BY <1>3 DEF TakeGeo
  <2>2. geoP = s
    <3> HIDE DEF s
    <3> QED
      BY <2>1, GeoOf
  <2> HIDE DEF block, x, y, geo
  <2>3. block \in solid /\ block # block_fed
    BY <2>1, Kinds
  <2>4. ValidCoords(x, y) /\ i \in Cells /\ t[i] = block
    BY <1>1, <2>3, BlockIs
  <2>5. tP = [t EXCEPT ![i] = z]
    BY <1>1, <2>1, <2>4, ClearTileTerrain
  <2>6. Stacked(geo, id) \in Int /\ Stacked(geoP, id) = Stacked(geo, id) + Is(block, id)
    BY <1>1, <2>1, <2>2, AppendStacked
  <2> HIDE DEF t, tP, i, z, geoP
  <2>7. Changed(t, i, z, tP)
    BY <2>5 DEF Changed
  <2>8. Many(t, id) \in Int /\ Many(tP, id) = Many(t, id) + Is(z, id) - Is(block, id)
    <3>1. t \in [Cells -> 0..255] /\ i \in Cells
      BY <1>1, <2>4
    <3>2. Many(t, id) \in Int /\ Many(tP, id) = Many(t, id) + Is(z, id) - Is(t[i], id)
      BY <2>7, <3>1, ManySet
    <3> QED
      BY <2>4, <3>2
  <2>9. Many(tP, id) + Stacked(geoP, id) = Many(t, id) + Stacked(geo, id)
    BY <1>2, <2>6, <2>8
  <2> QED
    BY <2>9 DEF t, tP, geo, geoP
<1>4. CASE PlaceGeo(b) /\ geo = << >>
  <2>1. UNCHANGED world /\ Becomes(b, Cool(bots[b]))
    BY <1>4 DEF PlaceGeo
  <2>2. geoP = geo
    <3>1. bots'[b] = Cool(bots[b])
      BY <2>1 DEF Becomes, Inv
    <3>2. bots[b] = Bot(bots[b].x, bots[b].y, bots[b].rotation, bots[b].cooldown, bots[b].geo,
                        bots[b].autodigg, bots[b].cachedBlockUnder)
      BY <1>1, BotIs
    <3> QED
      BY <3>1, <3>2 DEF Cool, Bot
  <2> QED
    BY <2>1, <2>2
<1>5. CASE PlaceGeo(b) /\ geo # << >>
  <2> DEFINE s == Front(geo)
             last == Last(geo)
  <2>1. /\ block \notin solid /\ Becomes(b, Cool([bots[b] EXCEPT !.geo = s]))
        /\ world' = SetTileWithCoords(world, x, y, last, z)
    BY <1>5 DEF PlaceGeo, SetAhead
  <2>2. geoP = s
    <3> HIDE DEF s
    <3> QED
      BY <2>1, GeoOf
  <2> HIDE DEF block, x, y, geo
  <2>3. /\ Stacked(s, id) \in Int /\ Stacked(geo, id) = Stacked(s, id) + Is(last, id)
        /\ last \in cantake
    BY <1>1, <1>5, FrontStacked
  <2> HIDE DEF s, last, z
  <2>4. last \in solid
    BY <2>3, Kinds
  <2>5. ValidCoords(x, y) /\ i \in Cells /\ t[i] = z
    BY <1>1, <2>1, FreeIs DEF z
  <2>6. tP = [t EXCEPT ![i] = last]
    BY <1>1, <2>1, <2>4, <2>5, SetTileTerrain
  <2> HIDE DEF t, tP, i, geoP
  <2>7. Changed(t, i, last, tP)
    BY <2>6 DEF Changed
  <2>8. Many(t, id) \in Int /\ Many(tP, id) = Many(t, id) + Is(last, id) - Is(z, id)
    <3>1. t \in [Cells -> 0..255] /\ i \in Cells
      BY <1>1, <2>5
    <3>2. Many(t, id) \in Int /\ Many(tP, id) = Many(t, id) + Is(last, id) - Is(t[i], id)
      BY <2>7, <3>1, ManySet
    <3> QED
      BY <2>5, <3>2
  <2>9. Many(tP, id) + Stacked(geoP, id) = Many(t, id) + Stacked(geo, id)
    BY <1>2, <2>2, <2>3, <2>8
  <2> QED
    BY <2>9 DEF t, tP, geo, geoP
<1> QED
  BY <1>3, <1>4, <1>5 DEF UseGeo

\* The action BlocksConserved is about.
Conserves ==
    /\ FallTimer => \A id \in Present \cup Present' : Count(id)' = Count(id)
    /\ \A b \in Bots : Edit /\ UseGeo(b) =>
          \A id \in (Present \cup Present') : Count(id)' + Held(b, id)' = Count(id) + Held(b, id)
    /\ GrowthTimer => \A id \in is_alive : Count(id)' = Count(id)

LEMMA StepConserves ==
    ASSUME Inv
    PROVE  Conserves
<1>1. \A id : Count(id) = Many(world.terrain, id) /\ Count(id)' = Many(world'.terrain, id)
  BY DEF Count, Many
<1>2. \A b \in Bots : \A id : /\ Held(b, id) = Stacked(bots[b].geo, id)
                              /\ Held(b, id)' = Stacked(bots'[b].geo, id)
  BY DEF Held, Stacked
<1>3. ASSUME NEW w \in Worlds PROVE {w.terrain[i] : i \in Cells} \ {0} \subseteq solid
  BY WorldIs
<1>4. world \in Worlds /\ Present \subseteq solid
  BY <1>3 DEF Inv, Present
<1>5. ASSUME world' \in Worlds PROVE Present' \subseteq solid
  BY <1>3, <1>5 DEF Present
<1>6. ASSUME FallTimer PROVE \A id \in Present \cup Present' : Count(id)' = Count(id)
  <2>1. Present' \subseteq solid
    BY <1>5, <1>6, TimersInv DEF Inv
  <2>2. PICK chunks : world' \in FallingCycle(world, chunks)
    BY <1>6 DEF FallTimer
  <2>3. SameMany(world, world', solid)
    BY <1>4, <2>2, FallingKeepsMany
  <2> QED
    BY <1>1, <1>4, <2>1, <2>3 DEF SameMany
<1>7. ASSUME NEW b \in Bots, UseGeo(b), NEW id \in Present \cup Present'
      PROVE  Count(id)' + Held(b, id)' = Count(id) + Held(b, id)
  <2>1. Present' \subseteq solid
    BY <1>5, <1>7, UseGeoKeeps DEF Kept
  <2>2. id \in solid
    BY <1>4, <1>7, <2>1
  <2>3. Many(world'.terrain, id) + Stacked(bots'[b].geo, id) =
            Many(world.terrain, id) + Stacked(bots[b].geo, id)
    BY <1>7, <2>2, UseGeoKeepsMany
  <2> QED
    BY <1>1, <1>2, <2>3
<1>8. ASSUME GrowthTimer PROVE \A id \in is_alive : Count(id)' = Count(id)
  <2>1. world' \in Growth(world)
    BY <1>8 DEF GrowthTimer
  <2>2. SameMany(world, world', is_alive)
    BY <1>4, <2>1, GrowthKeepsAlive
  <2> QED
    BY <1>1, <2>2 DEF SameMany
<1> QED
  BY <1>6, <1>7, <1>8 DEF Conserves

\* A cycle of falling, on a map of any size and whichever chunks are active,
\* loses and doubles no block, though blocks slide into cells that the scan
\* has yet to visit; the geo stack of a bot takes and gives back single
\* blocks; and growth neither makes nor kills an alive block.
THEOREM NothingIsLost == Spec => BlocksConserved
<1>1. Inv => [Conserves]_vars
  BY StepConserves
<1>2. [][Conserves]_vars => BlocksConserved
  BY DEF BlocksConserved, Conserves
<1> QED
  BY <1>1, <1>2, InvAlways, PTL
==============================================================================
