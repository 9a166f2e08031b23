------------------------ MODULE EditorHistoryProofs ------------------------
(***************************************************************************)
(* Proofs about EditorHistory, for every size of drawing, every set of     *)
(* colours and every limit, with and without input during strokes, and     *)
(* about the tools of EditorGeometry, for every drawing.                   *)
(*                                                                         *)
(* The line and the region are recursive functions.  LeastNumber does the  *)
(* inductions over them: no turn of the loop and no round of the fill is   *)
(* the first to go wrong.                                                  *)
(***************************************************************************)
EXTENDS EditorHistory, SequenceTheorems, FiniteSetTheorems, WellFoundedInduction, TLAPS

-----------------------------------------------------------------------------
(* Sequences used as stacks. *)
LEMMA Popped ==
    \A S : \A s \in Seq(S) : s # <<>> =>
        /\ Front(s) \in Seq(S) /\ Len(Front(s)) = Len(s) - 1
        /\ Last(s) \in S
        /\ Len(s) \in Nat \ {0}
<1> SUFFICES ASSUME NEW S, NEW s \in Seq(S), s # <<>>
             PROVE  /\ Front(s) \in Seq(S) /\ Len(Front(s)) = Len(s) - 1
                    /\ Last(s) \in S
                    /\ Len(s) \in Nat \ {0}
    OBVIOUS
<1>1. Len(s) \in Nat \ {0}
    OBVIOUS
<1>2. \A i \in 1 .. Len(s) : s[i] \in S
    OBVIOUS
<1>3. Last(s) \in S
    BY <1>1, <1>2 DEF Last
<1>4. Front(s) \in Seq(S) /\ Len(Front(s)) = Len(s) - 1
    BY <1>1, <1>2, SubSeqProperties DEF Front
<1> QED
    BY <1>1, <1>3, <1>4

LEMMA PushedOnto ==
    \A S : \A s \in Seq(S), e \in S :
        /\ Append(s, e) \in Seq(S) /\ Len(Append(s, e)) = Len(s) + 1
        /\ Tail(Append(s, e)) \in Seq(S) /\ Len(Tail(Append(s, e))) = Len(s)
OBVIOUS

(* What the tools make of a drawing is a drawing. *)
LEMMA ToolsDraw ==
    \A d \in Drawings :
        /\ \A color \in Colors :
              /\ \A cells : Painted(d, cells, color) \in Drawings
              /\ \A cell : FloodFill(d, cell, color) \in Drawings
        /\ FlippedHorizontally(d) \in Drawings
        /\ FlippedVertically(d) \in Drawings
<1> SUFFICES ASSUME NEW d \in Drawings
             PROVE  /\ \A color \in Colors :
                          /\ \A cells : Painted(d, cells, color) \in Drawings
                          /\ \A cell : FloodFill(d, cell, color) \in Drawings
                    /\ FlippedHorizontally(d) \in Drawings
                    /\ FlippedVertically(d) \in Drawings
    OBVIOUS
<1>1. \A color \in Colors : \A cells : Painted(d, cells, color) \in Drawings
    BY DEF Painted, Drawings
<1>2. \A color \in Colors : \A cell : FloodFill(d, cell, color) \in Drawings
    BY <1>1 DEF FloodFill
<1>3. FlippedHorizontally(d) \in Drawings
    <2>1. \A cell \in Cells : <<Width - 1 - cell[1], cell[2]>> \in Cells
        BY GeometryAssumption DEF Cells
    <2> QED
        BY <2>1 DEF FlippedHorizontally, Drawings
<1>4. FlippedVertically(d) \in Drawings
    <2>1. \A cell \in Cells : <<cell[1], Height - 1 - cell[2]>> \in Cells
        BY GeometryAssumption DEF Cells
    <2> QED
        BY <2>1 DEF FlippedVertically, Drawings
<1> QED
    BY <1>1, <1>2, <1>3, <1>4

(* A flip undoes itself (the test "flips pixels without losing values", for *)
(* every drawing), and the order of the two does not matter.                *)
THEOREM FlipsUndo ==
    ASSUME NEW d \in Drawings
    PROVE  /\ FlippedHorizontally(FlippedHorizontally(d)) = d
           /\ FlippedVertically(FlippedVertically(d)) = d
           /\ FlippedHorizontally(FlippedVertically(d))
                = FlippedVertically(FlippedHorizontally(d))
<1> DEFINE h(cell) == <<Width - 1 - cell[1], cell[2]>>
           v(cell) == <<cell[1], Height - 1 - cell[2]>>
<1>1. ASSUME NEW cell \in Cells
      PROVE  /\ h(cell) \in Cells /\ h(h(cell)) = cell
             /\ v(cell) \in Cells /\ v(v(cell)) = cell
             /\ h(v(cell)) = v(h(cell))
    BY GeometryAssumption DEF Cells
<1>2. \A e \in Drawings :
          /\ FlippedHorizontally(e) = [cell \in Cells |-> e[h(cell)]]
          /\ FlippedVertically(e) = [cell \in Cells |-> e[v(cell)]]
    BY DEF FlippedHorizontally, FlippedVertically
<1>3. FlippedHorizontally(d) \in Drawings /\ FlippedVertically(d) \in Drawings
    BY ToolsDraw
<1>4. d = [cell \in Cells |-> d[cell]]
    BY DEF Drawings
<1> HIDE DEF h, v
<1>5. FlippedHorizontally(FlippedHorizontally(d)) = [cell \in Cells |-> d[h(h(cell))]]
    BY <1>1, <1>2, <1>3
<1>6. FlippedVertically(FlippedVertically(d)) = [cell \in Cells |-> d[v(v(cell))]]
    BY <1>1, <1>2, <1>3
<1>7. FlippedHorizontally(FlippedVertically(d)) = [cell \in Cells |-> d[v(h(cell))]]
    BY <1>1, <1>2, <1>3
<1>8. FlippedVertically(FlippedHorizontally(d)) = [cell \in Cells |-> d[h(v(cell))]]
    BY <1>1, <1>2, <1>3
<1> QED
    BY <1>1, <1>4, <1>5, <1>6, <1>7, <1>8

-----------------------------------------------------------------------------
(* What the flood fill reaches.                                            *)

(* Every set of numbers has a least one: what is shown by induction is     *)
(* shown by the least counterexample.                                      *)
LEMMA LeastNumber ==
    ASSUME NEW T \in SUBSET Nat, T # {} PROVE \E m \in T : \A k \in T : m <= k
<1>1. IsWellFoundedOn(OpToRel(<, Nat), Nat)
    BY NatLessThanWellFounded
<1>2. PICK m \in T : \A k \in T : <<k, m>> \notin OpToRel(<, Nat)
    BY <1>1, WFMin
<1>3. \A k \in T : ~(k < m)
    BY <1>2 DEF OpToRel
<1> QED
    BY <1>3

LEMMA Induction ==
    ASSUME NEW P \in SUBSET Nat, 0 \in P, \A n \in P : n + 1 \in P
    PROVE  P = Nat
<1> SUFFICES ASSUME Nat \ P # {} PROVE FALSE
    OBVIOUS
<1>1. PICK m \in Nat \ P : \A k \in Nat \ P : m <= k
    BY LeastNumber
<1>2. m # 0 /\ m - 1 \in Nat /\ m - 1 \in P
    BY <1>1
<1> QED
    BY <1>1, <1>2

LEMMA CellsFinite == IsFiniteSet(Cells) /\ Cardinality(Cells) \in Nat
<1>1. IsFiniteSet(0 .. Width - 1) /\ IsFiniteSet(0 .. Height - 1)
    BY FS_Interval, GeometryAssumption
<1>2. IsFiniteSet(Cells)
    BY <1>1, FS_Product DEF Cells
<1> QED
    BY <1>2, FS_CardinalityType

(* One round of the fill. *)
Spread(d, start, before) ==
    before \cup {cell \in Cells :
                    /\ d[cell] = d[start]
                    /\ \E other \in before : Adjacent(cell, other)}

(* The equation of the recursive function in Region. *)
Rounds(g, d, start) ==
    g = [n \in Nat |-> IF n = 0 THEN {start} ELSE Spread(d, start, g[n - 1])]

(* The rounds up to n. *)
RoundsTo(g, n, d, start) ==
    g = [k \in 0 .. n |-> IF k = 0 THEN {start} ELSE Spread(d, start, g[k - 1])]

LEMMA RoundsToExist ==
    ASSUME NEW d, NEW start, NEW n \in Nat
    PROVE  \E g : RoundsTo(g, n, d, start)
<1> DEFINE P == {k \in Nat : \E g : RoundsTo(g, k, d, start)}
<1>1. 0 \in P
    <2>1. RoundsTo([k \in 0 .. 0 |-> {start}], 0, d, start)
        BY DEF RoundsTo
    <2> QED
        BY <2>1
<1>2. ASSUME NEW k \in P PROVE k + 1 \in P
    <2>1. PICK g : RoundsTo(g, k, d, start)
        OBVIOUS
    <2> DEFINE h == [i \in 0 .. k + 1 |-> IF i = k + 1 THEN Spread(d, start, g[k]) ELSE g[i]]
    <2>2. ASSUME NEW i \in 0 .. k + 1
          PROVE  h[i] = IF i = 0 THEN {start} ELSE Spread(d, start, h[i - 1])
        <3>1. CASE i = k + 1
            BY <3>1
        <3>2. CASE i # k + 1
            <4>1. i \in 0 .. k /\ (i # 0 => i - 1 \in 0 .. k + 1 /\ i - 1 # k + 1)
                BY <3>2
            <4>2. g[i] = IF i = 0 THEN {start} ELSE Spread(d, start, g[i - 1])
                BY <2>1, <4>1 DEF RoundsTo
            <4> QED
                BY <3>2, <4>1, <4>2
        <3> QED
            BY <3>1, <3>2
    <2>3. h = [i \in 0 .. k + 1 |-> h[i]]
        OBVIOUS
    <2> HIDE DEF h
    <2>4. RoundsTo(h, k + 1, d, start)
        BY <2>2, <2>3 DEF RoundsTo
    <2> QED
        BY <2>4
<1> HIDE DEF P
<1>3. P = Nat
    BY <1>1, <1>2, Induction DEF P
<1> QED
    BY <1>3 DEF P

LEMMA RoundsToAgree ==
    ASSUME NEW d, NEW start, NEW n \in Nat, NEW m \in Nat, NEW g, NEW h,
           RoundsTo(g, n, d, start), RoundsTo(h, m, d, start),
           NEW k \in Nat, k <= n, k <= m
    PROVE  g[k] = h[k]
<1> DEFINE T == {i \in Nat : i <= n /\ i <= m /\ g[i] # h[i]}
<1>1. T = {}
    <2>1. SUFFICES ASSUME NEW i \in T, \A j \in T : i <= j PROVE FALSE
        BY LeastNumber
    <2>2. i \in 0 .. n /\ i \in 0 .. m
        OBVIOUS
    <2>3. /\ g[i] = IF i = 0 THEN {start} ELSE Spread(d, start, g[i - 1])
          /\ h[i] = IF i = 0 THEN {start} ELSE Spread(d, start, h[i - 1])
        BY <2>2 DEF RoundsTo
    <2>4. i # 0 => i - 1 \in Nat /\ i - 1 \notin T
        BY <2>1
    <2>5. i # 0 => g[i - 1] = h[i - 1]
        BY <2>2, <2>4
    <2> QED
        BY <2>3, <2>5
<1> QED
    BY <1>1

LEMMA RoundsExist ==
    ASSUME NEW d, NEW start PROVE \E g : Rounds(g, d, start)
<1> DEFINE part(n) == CHOOSE g : RoundsTo(g, n, d, start)
           f == [n \in Nat |-> part(n)[n]]
<1>1. \A n \in Nat : RoundsTo(part(n), n, d, start)
    BY RoundsToExist
<1> HIDE DEF part
<1>2. ASSUME NEW n \in Nat
      PROVE  f[n] = IF n = 0 THEN {start} ELSE Spread(d, start, f[n - 1])
    <2>1. part(n)[n] = IF n = 0 THEN {start} ELSE Spread(d, start, part(n)[n - 1])
        <3> DEFINE g == part(n)
        <3>1. RoundsTo(g, n, d, start)
            BY <1>1
        <3>2. n \in 0 .. n
            OBVIOUS
        <3> HIDE DEF g
        <3>3. g[n] = IF n = 0 THEN {start} ELSE Spread(d, start, g[n - 1])
            BY <3>1, <3>2 DEF RoundsTo
        <3> QED
            BY <3>3 DEF g
    <2>2. CASE n = 0
        BY <2>1, <2>2
    <2>3. CASE n # 0
        <3>1. n - 1 \in Nat /\ n - 1 <= n
            BY <2>3
        <3>2. part(n)[n - 1] = part(n - 1)[n - 1]
            BY <1>1, <3>1, RoundsToAgree
        <3> QED
            BY <2>1, <2>3, <3>1, <3>2
    <2> QED
        BY <2>2, <2>3
<1>3. f = [n \in Nat |-> f[n]]
    OBVIOUS
<1> HIDE DEF f
<1>4. Rounds(f, d, start)
    BY <1>2, <1>3 DEF Rounds
<1> QED
    BY <1>4

LEMMA RegionIsRound ==
    ASSUME NEW d, NEW start
    PROVE  \E g : Rounds(g, d, start) /\ Region(d, start) = g[Cardinality(Cells)]
<1> DEFINE f == CHOOSE g : Rounds(g, d, start)
<1>1. Rounds(f, d, start)
    BY RoundsExist
<1>2. Region(d, start) = f[Cardinality(Cells)]
    BY DEF Region, Rounds, Spread
<1> QED
    BY <1>1, <1>2

(* Nothing is left to reach from a set of cells. *)
Closed(d, start, cells) ==
    \A cell \in Cells :
        d[cell] = d[start] /\ (\E other \in cells : Adjacent(cell, other))
            => cell \in cells

(* The rounds grow inside every closed set with the start. *)
LEMMA RoundsInside ==
    ASSUME NEW d, NEW start, NEW g, Rounds(g, d, start),
           NEW S, start \in S, Closed(d, start, S)
    PROVE  \A n \in Nat : g[n] \subseteq S
<1> DEFINE P == {n \in Nat : g[n] \subseteq S}
<1>1. 0 \in P
    BY DEF Rounds
<1>2. ASSUME NEW n \in P PROVE n + 1 \in P
    <2>1. g[n + 1] = Spread(d, start, g[n])
        BY DEF Rounds
    <2> QED
        BY <2>1 DEF Spread, Closed
<1> HIDE DEF P
<1>3. P = Nat
    BY <1>1, <1>2, Induction DEF P
<1> QED
    BY <1>3 DEF P

(* After as many rounds as there are cells nothing is left to reach: every *)
(* round before the last one that reaches something reaches a new cell.    *)
LEMMA RoundsEnd ==
    ASSUME NEW d, NEW start \in Cells, NEW g, Rounds(g, d, start)
    PROVE  LET region == g[Cardinality(Cells)]
           IN  Spread(d, start, region) = region
<1> DEFINE N == Cardinality(Cells)
<1>1. /\ g[0] = {start}
      /\ \A n \in Nat : g[n + 1] = Spread(d, start, g[n])
    BY DEF Rounds
<1>2. \A n \in Nat : g[n] \subseteq Cells
    BY RoundsInside DEF Closed
<1>3. IsFiniteSet(Cells) /\ N \in Nat
    BY CellsFinite
<1>4. \A n \in Nat : IsFiniteSet(g[n]) /\ Cardinality(g[n]) \in Nat /\ Cardinality(g[n]) <= N
    BY <1>2, <1>3, FS_Subset, FS_CardinalityType
<1> HIDE DEF N
<1>5. PICK n \in Nat : n < N /\ g[n + 1] = g[n]
    <2> SUFFICES ASSUME \A n \in Nat : n < N => g[n + 1] # g[n] PROVE FALSE
        OBVIOUS
    <2> DEFINE P == {n \in Nat : n <= N => Cardinality(g[n]) > n}
    <2>1. 0 \in P
        BY <1>1, FS_Singleton
    <2>2. ASSUME NEW n \in P PROVE n + 1 \in P
        <3> SUFFICES ASSUME n + 1 <= N PROVE Cardinality(g[n + 1]) > n + 1
            OBVIOUS
        <3>1. n \in Nat /\ n + 1 \in Nat /\ Cardinality(g[n]) > n /\ g[n + 1] # g[n]
            BY <1>3
        <3>2. g[n] \subseteq g[n + 1]
            BY <1>1 DEF Spread
        <3>3. /\ Cardinality(g[n]) <= Cardinality(g[n + 1])
              /\ Cardinality(g[n]) # Cardinality(g[n + 1])
            BY <1>4, <3>1, <3>2, FS_Subset
        <3> QED
            BY <1>4, <3>1, <3>3
    <2> HIDE DEF P
    <2>3. P = Nat
        BY <2>1, <2>2, Induction DEF P
    <2> QED
        <3>1. N \in P
            BY <1>3, <2>3
        <3> QED
            BY <1>3, <1>4, <3>1 DEF P
<1>6. g[N] = g[n]
    <2> DEFINE P == {k \in Nat : g[n + k] = g[n]}
    <2>1. 0 \in P
        OBVIOUS
    <2>2. ASSUME NEW k \in P PROVE k + 1 \in P
        <3>1. n + k \in Nat /\ n + (k + 1) = (n + k) + 1 /\ k + 1 \in Nat /\ g[n + k] = g[n]
            OBVIOUS
        <3>2. g[n + (k + 1)] = g[n + 1]
            BY <1>1, <3>1
        <3> QED
            BY <1>5, <3>1, <3>2
    <2> HIDE DEF P
    <2>3. N - n \in P
        <3>1. P = Nat
            BY <2>1, <2>2, Induction DEF P
        <3> QED
            BY <1>3, <1>5, <3>1
    <2> QED
        BY <1>3, <1>5, <2>3 DEF P
<1> QED
    BY <1>1, <1>5, <1>6 DEF N

(* The region is the least set of cells that has the start and from which  *)
(* nothing is left to reach, so it is what floodFill's stack of pending    *)
(* cells ends with; all its cells have the colour of the start.            *)
THEOREM RegionIsConnected ==
    ASSUME NEW d \in Drawings, NEW start \in Cells
    PROVE  /\ start \in Region(d, start)
           /\ Region(d, start) \subseteq {cell \in Cells : d[cell] = d[start]}
           /\ Closed(d, start, Region(d, start))
           /\ \A S : start \in S /\ Closed(d, start, S) => Region(d, start) \subseteq S
<1>1. PICK g : Rounds(g, d, start) /\ Region(d, start) = g[Cardinality(Cells)]
    BY RegionIsRound
<1>2. Cardinality(Cells) \in Nat
    BY CellsFinite
<1>3. \A S : start \in S /\ Closed(d, start, S) => Region(d, start) \subseteq S
    BY <1>1, <1>2, RoundsInside
<1>4. Closed(d, start, {cell \in Cells : d[cell] = d[start]})
    BY DEF Closed
<1>5. Closed(d, start, Region(d, start))
    BY <1>1, RoundsEnd DEF Closed, Spread
<1>6. start \in Region(d, start)
    <2> DEFINE P == {n \in Nat : start \in g[n]}
    <2>1. 0 \in P
        BY <1>1 DEF Rounds
    <2>2. ASSUME NEW n \in P PROVE n + 1 \in P
        <3>1. g[n + 1] = Spread(d, start, g[n])
            BY <1>1 DEF Rounds
        <3> QED
            BY <3>1 DEF Spread
    <2> HIDE DEF P
    <2>3. P = Nat
        BY <2>1, <2>2, Induction DEF P
    <2> QED
        BY <1>1, <1>2, <2>3 DEF P
<1> QED
    BY <1>3, <1>4, <1>5, <1>6

(* A fill with the colour that is there changes nothing: floodFill returns *)
(* at once, and the fill of the model, which does not ask, is the same.    *)
(* So a second fill at one place does nothing.                             *)
THEOREM FillSettles ==
    ASSUME NEW d \in Drawings, NEW start \in Cells, NEW color \in Colors
    PROVE  /\ FloodFill(d, start, d[start]) = d
           /\ FloodFill(FloodFill(d, start, color), start, color)
                = FloodFill(d, start, color)
<1>1. ASSUME NEW e \in Drawings PROVE FloodFill(e, start, e[start]) = e
    <2>1. \A cell \in Region(e, start) : e[cell] = e[start]
        BY RegionIsConnected
    <2>2. e = [cell \in Cells |-> e[cell]]
        BY DEF Drawings
    <2>3. FloodFill(e, start, e[start]) = [cell \in Cells |-> e[cell]]
        BY <2>1 DEF FloodFill, Painted
    <2> QED
        BY <2>2, <2>3
<1>2. FloodFill(d, start, color) \in Drawings
    BY ToolsDraw
<1>3. FloodFill(d, start, color)[start] = color
    BY RegionIsConnected DEF FloodFill, Painted
<1> QED
    BY <1>1, <1>2, <1>3

-----------------------------------------------------------------------------
(* The line of the pencil.                                                 *)

WalkStates == Int \X Int \X Int

(* One turn of the loop, on x, y and error. *)
After(at, deltaX, deltaY, stepX, stepY) ==
    LET moveX == 2 * at[3] >= deltaY
        moveY == 2 * at[3] <= deltaX
    IN  <<IF moveX THEN at[1] + stepX ELSE at[1],
          IF moveY THEN at[2] + stepY ELSE at[2],
          at[3] + (IF moveX THEN deltaY ELSE 0)
                + (IF moveY THEN deltaX ELSE 0)>>

(* The equation of the recursive function in LinePoints; the deltas and    *)
(* steps are those of the code.                                            *)
Walk(f, to, deltaX, deltaY, stepX, stepY) ==
    f = [at \in WalkStates |->
            {<<at[1], at[2]>>} \cup
            IF <<at[1], at[2]>> = to THEN {}
            ELSE f[After(at, deltaX, deltaY, stepX, stepY)]]

LEMMA AfterType ==
    ASSUME NEW a \in Int, NEW b \in Int, NEW sx \in Int, NEW sy \in Int,
           NEW t \in WalkStates
    PROVE  After(t, a, b, sx, sy) \in WalkStates
BY DEF After, WalkStates

(* A function of that equation exists: the points of the least set of       *)
(* states that the loop does not leave.                                     *)
LEMMA WalkExists ==
    ASSUME NEW to, NEW a \in Int, NEW b \in Int, NEW sx \in Int, NEW sy \in Int
    PROVE  \E f : Walk(f, to, a, b, sx, sy)
<1> DEFINE after(t) == After(t, a, b, sx, sy)
           at(t) == <<t[1], t[2]>>
           Kept(S) == \A t \in S : at(t) # to => after(t) \in S
           Orbit(t) == {u \in WalkStates :
                           \A S \in SUBSET WalkStates : t \in S /\ Kept(S) => u \in S}
           points(t) == {at(u) : u \in Orbit(t)}
<1>1. \A t \in WalkStates : after(t) \in WalkStates
    BY AfterType
<1> HIDE DEF after, at
<1>2. ASSUME NEW t \in WalkStates PROVE t \in Orbit(t) /\ Kept(Orbit(t))
    BY <1>1
<1>3. ASSUME NEW t \in WalkStates, NEW S \in SUBSET WalkStates, t \in S, Kept(S)
      PROVE  Orbit(t) \subseteq S
    BY <1>3
<1>4. ASSUME NEW t \in WalkStates
      PROVE  Orbit(t) = IF at(t) = to THEN {t} ELSE {t} \cup Orbit(after(t))
    <2>1. Orbit(t) \in SUBSET WalkStates /\ Orbit(after(t)) \in SUBSET WalkStates
        OBVIOUS
    <2>2. t \in Orbit(t) /\ Kept(Orbit(t))
        BY <1>2
    <2>3. after(t) \in Orbit(after(t)) /\ Kept(Orbit(after(t)))
        BY <1>1, <1>2
    <2>4. CASE at(t) = to
        <3>1. {t} \in SUBSET WalkStates /\ Kept({t})
            BY <2>4
        <3>2. Orbit(t) \subseteq {t}
            BY <1>3, <3>1
        <3> HIDE DEF Orbit
        <3> QED
            BY <2>2, <2>4, <3>2
    <2>5. CASE at(t) # to
        <3>1. Kept({t} \cup Orbit(after(t)))
            <4> HIDE DEF Orbit
            <4> QED
                BY <2>3
        <3>2. {t} \cup Orbit(after(t)) \in SUBSET WalkStates
            BY <2>1
        <3>3. t \in {t} \cup Orbit(after(t))
            OBVIOUS
        <3>4. Orbit(t) \subseteq {t} \cup Orbit(after(t))
            <4> HIDE DEF Orbit, Kept
            <4> QED
                BY <1>3, <3>1, <3>2, <3>3
        <3>5. after(t) \in Orbit(t)
            <4> HIDE DEF Orbit
            <4> QED
                BY <2>2, <2>5
        <3>6. Orbit(after(t)) \subseteq Orbit(t)
            <4>1. after(t) \in WalkStates
                BY <1>1
            <4> HIDE DEF Orbit, Kept
            <4> QED
                BY <1>3, <2>1, <2>2, <3>5, <4>1
        <3> HIDE DEF Orbit
        <3> QED
            BY <2>2, <2>5, <3>4, <3>6
    <2> QED
        BY <2>4, <2>5
<1> HIDE DEF Orbit
<1>5. ASSUME NEW t \in WalkStates
      PROVE  points(t) = {at(t)} \cup (IF at(t) = to THEN {} ELSE points(after(t)))
    BY <1>4
<1> HIDE DEF points
<1> DEFINE f == [t \in WalkStates |-> points(t)]
<1>6. ASSUME NEW t \in WalkStates
      PROVE  f[t] = {at(t)} \cup IF at(t) = to THEN {} ELSE f[after(t)]
    BY <1>1, <1>5
<1>7. f = [t \in WalkStates |-> f[t]]
    OBVIOUS
<1> HIDE DEF f
<1>8. Walk(f, to, a, b, sx, sy)
    BY <1>6, <1>7 DEF Walk, at, after
<1> QED
    BY <1>8

Columns(from, to) == Distance(from[1], to[1])
Rows(from, to) == Distance(from[2], to[2])

LineWalk(f, from, to) ==
    Walk(f, to, Columns(from, to), -Rows(from, to),
         IF from[1] < to[1] THEN 1 ELSE -1, IF from[2] < to[2] THEN 1 ELSE -1)

LEMMA LineIsWalk ==
    ASSUME NEW from \in Cells, NEW to \in Cells
    PROVE  \E f : /\ LineWalk(f, from, to)
                  /\ LinePoints(from, to) =
                        f[<<from[1], from[2], Columns(from, to) + (-Rows(from, to))>>]
<1> DEFINE deltaX == Columns(from, to)
           deltaY == -Rows(from, to)
           stepX == IF from[1] < to[1] THEN 1 ELSE -1
           stepY == IF from[2] < to[2] THEN 1 ELSE -1
           f == CHOOSE g : Walk(g, to, deltaX, deltaY, stepX, stepY)
<1>1. deltaX \in Int /\ deltaY \in Int /\ stepX \in Int /\ stepY \in Int
    BY GeometryAssumption DEF Cells, Distance, Columns, Rows
<1>2. LinePoints(from, to) = f[<<from[1], from[2], deltaX + deltaY>>]
    BY DEF LinePoints, Walk, WalkStates, After, Columns, Rows
<1> HIDE DEF deltaX, deltaY, stepX, stepY
<1>3. \E g : Walk(g, to, deltaX, deltaY, stepX, stepY)
    BY <1>1, WalkExists
<1>4. Walk(f, to, deltaX, deltaY, stepX, stepY)
    BY <1>3
<1> QED
    BY <1>2, <1>4 DEF deltaX, deltaY, stepX, stepY, LineWalk

(* Bresenham's error after i columns and j rows of a and b: as long as the *)
(* end is not reached the loop moves, and in no direction too far.         *)
LEMMA Bresenham ==
    ASSUME NEW a \in Nat, NEW b \in Nat, NEW i \in 0 .. a, NEW j \in 0 .. b,
           ~(i = a /\ j = b),
           NEW e \in Int, e = a * (1 + j) - b * (1 + i)
    PROVE  /\ 2 * e >= -b => i < a
           /\ 2 * e <= a => j < b
           /\ 2 * e >= -b \/ 2 * e <= a
<1>1. ASSUME i = a, 2 * e >= -b PROVE FALSE
    <2>1. j + 1 <= b /\ j + 1 \in Nat
        BY <1>1
    <2>2. a * (1 + j) <= a * b
        BY <2>1
    <2>3. b * (1 + i) = b + a * b
        BY <1>1
    <2>4. a * (1 + j) \in Int /\ a * b \in Int
        OBVIOUS
    <2> QED
        BY <1>1, <2>1, <2>2, <2>3, <2>4
<1>2. ASSUME j = b, 2 * e <= a PROVE FALSE
    <2>1. i + 1 <= a /\ i + 1 \in Nat
        BY <1>2
    <2>2. b * (1 + i) <= a * b
        BY <2>1
    <2>3. a * (1 + j) = a + a * b
        BY <1>2
    <2>4. b * (1 + i) \in Int /\ a * b \in Int
        OBVIOUS
    <2> QED
        BY <1>2, <2>1, <2>2, <2>3, <2>4
<1>3. 2 * e >= -b \/ 2 * e <= a
    OBVIOUS
<1> QED
    BY <1>1, <1>2, <1>3

Near(p, q) == Distance(p[1], q[1]) <= 1 /\ Distance(p[2], q[2]) <= 1

(* The points hang together: whoever goes from point to neighbouring point *)
(* gets from p to all of them.                                             *)
Joined(points, p) ==
    \A S : p \in S /\ (\A q \in S, r \in points : Near(q, r) => r \in S)
              => points \subseteq S

LEMMA JoinedOneMore ==
    ASSUME NEW points, NEW p, NEW q \in points, Near(p, q), Joined(points, q)
    PROVE  Joined({p} \cup points, p)
BY DEF Joined

LEMMA JoinedOne == ASSUME NEW p PROVE Joined({p}, p)
BY DEF Joined

(* The cell i columns and j rows on the way. *)
OnWay(from, to, i, j) ==
    <<IF from[1] < to[1] THEN from[1] + i ELSE from[1] - i,
      IF from[2] < to[2] THEN from[2] + j ELSE from[2] - j>>

(* What lies between two cells. *)
Between(from, to) ==
    {p \in Cells :
        /\ Distance(from[1], p[1]) + Distance(p[1], to[1]) = Distance(from[1], to[1])
        /\ Distance(from[2], p[2]) + Distance(p[2], to[2]) = Distance(from[2], to[2])}

LEMMA WayFacts ==
    ASSUME NEW from \in Cells, NEW to \in Cells
    PROVE  /\ Columns(from, to) \in Nat /\ Rows(from, to) \in Nat
           /\ OnWay(from, to, 0, 0) = from
           /\ OnWay(from, to, Columns(from, to), Rows(from, to)) = to
           /\ \A i \in 0 .. Columns(from, to), j \in 0 .. Rows(from, to) :
                 /\ OnWay(from, to, i, j) \in Between(from, to)
                 /\ OnWay(from, to, i, j) = to <=>
                       i = Columns(from, to) /\ j = Rows(from, to)
<1> DEFINE a == Distance(from[1], to[1])
           b == Distance(from[2], to[2])
<1>1. /\ from = <<from[1], from[2]>> /\ to = <<to[1], to[2]>>
      /\ from[1] \in 0 .. Width - 1 /\ to[1] \in 0 .. Width - 1
      /\ from[2] \in 0 .. Height - 1 /\ to[2] \in 0 .. Height - 1
      /\ Width \in Nat /\ Height \in Nat
    BY GeometryAssumption DEF Cells
<1>2. a \in Nat /\ b \in Nat
    BY <1>1 DEF Distance
<1>3. OnWay(from, to, 0, 0) = from
    BY <1>1 DEF OnWay
<1>4. OnWay(from, to, a, b) = to
    BY <1>1 DEF OnWay, Distance
<1>5. ASSUME NEW i \in 0 .. a, NEW j \in 0 .. b
      PROVE  /\ OnWay(from, to, i, j) \in Between(from, to)
             /\ OnWay(from, to, i, j) = to <=> i = a /\ j = b
    <2> DEFINE x == IF from[1] < to[1] THEN from[1] + i ELSE from[1] - i
               y == IF from[2] < to[2] THEN from[2] + j ELSE from[2] - j
    <2>1. /\ x \in 0 .. Width - 1
          /\ Distance(from[1], x) + Distance(x, to[1]) = Distance(from[1], to[1])
          /\ x = to[1] <=> i = a
        BY <1>1 DEF Distance
    <2>2. /\ y \in 0 .. Height - 1
          /\ Distance(from[2], y) + Distance(y, to[2]) = Distance(from[2], to[2])
          /\ y = to[2] <=> j = b
        BY <1>1 DEF Distance
    <2>3. OnWay(from, to, i, j) = <<x, y>>
        BY DEF OnWay
    <2> HIDE DEF x, y, a, b
    <2>4. <<x, y>> \in Between(from, to)
        BY <2>1, <2>2 DEF Between, Cells
    <2> QED
        BY <1>1, <2>1, <2>2, <2>3, <2>4
<1> QED
    BY <1>2, <1>3, <1>4, <1>5 DEF Columns, Rows

(* The points that are left after i columns and j rows. *)
Rest(f, from, to, i, j) ==
    f[<<OnWay(from, to, i, j)[1], OnWay(from, to, i, j)[2],
        Columns(from, to) * (1 + j) - Rows(from, to) * (1 + i)>>]

(* One turn of the loop goes on by a column, by a row, or by both. *)
LEMMA WalkOn ==
    ASSUME NEW from \in Cells, NEW to \in Cells, NEW f, LineWalk(f, from, to),
           NEW i \in 0 .. Columns(from, to), NEW j \in 0 .. Rows(from, to)
    PROVE  IF i = Columns(from, to) /\ j = Rows(from, to)
           THEN Rest(f, from, to, i, j) = {OnWay(from, to, i, j)}
           ELSE \E k \in {i, i + 1}, l \in {j, j + 1} :
                   /\ k \in 0 .. Columns(from, to) /\ l \in 0 .. Rows(from, to)
                   /\ k + l > i + j
                   /\ Near(OnWay(from, to, i, j), OnWay(from, to, k, l))
                   /\ Rest(f, from, to, i, j) =
                         {OnWay(from, to, i, j)} \cup Rest(f, from, to, k, l)
<1> DEFINE a == Columns(from, to)
           b == Rows(from, to)
           sx == IF from[1] < to[1] THEN 1 ELSE -1
           sy == IF from[2] < to[2] THEN 1 ELSE -1
           p == OnWay(from, to, i, j)
           e == a * (1 + j) - b * (1 + i)
           u == IF 2 * e >= -b THEN p[1] + sx ELSE p[1]
           v == IF 2 * e <= a THEN p[2] + sy ELSE p[2]
           w == e + (IF 2 * e >= -b THEN -b ELSE 0) + (IF 2 * e <= a THEN a ELSE 0)
           k == IF 2 * e >= -b THEN i + 1 ELSE i
           l == IF 2 * e <= a THEN j + 1 ELSE j
<1>1. /\ a \in Nat /\ b \in Nat /\ sx \in Int /\ sy \in Int
      /\ from[1] \in Int /\ from[2] \in Int /\ to[1] \in Int /\ to[2] \in Int
    BY GeometryAssumption, WayFacts DEF Cells
<1>2. /\ p = <<p[1], p[2]>>
      /\ p[1] = IF from[1] < to[1] THEN from[1] + i ELSE from[1] - i
      /\ p[2] = IF from[2] < to[2] THEN from[2] + j ELSE from[2] - j
      /\ p = to <=> i = a /\ j = b
    BY WayFacts DEF OnWay
<1>3. /\ p[1] \in Int /\ p[2] \in Int /\ e \in Int
      /\ i \in Int /\ j \in Int /\ i \in 0 .. a /\ j \in 0 .. b
    BY <1>1, <1>2
<1>4. f[<<p[1], p[2], e>>] = {p} \cup IF p = to THEN {} ELSE f[<<u, v, w>>]
    <2> DEFINE t == <<p[1], p[2], e>>
    <2>1. t \in WalkStates /\ t[1] = p[1] /\ t[2] = p[2] /\ t[3] = e
        BY <1>3 DEF WalkStates
    <2>2. After(t, a, -b, sx, sy) = <<u, v, w>>
        BY <2>1 DEF After
    <2>3. Walk(f, to, a, -b, sx, sy)
        BY DEF LineWalk
    <2> HIDE DEF t, u, v, w, a, b, sx, sy, p, e
    <2>4. f[t] = {<<t[1], t[2]>>} \cup IF <<t[1], t[2]>> = to THEN {} ELSE f[After(t, a, -b, sx, sy)]
        BY <2>1, <2>3 DEF Walk
    <2> QED
        BY <1>2, <2>1, <2>2, <2>4 DEF t
<1>5. CASE i = a /\ j = b
    BY <1>2, <1>4, <1>5 DEF Rest
<1>6. CASE ~(i = a /\ j = b)
    <2> HIDE DEF a, b, e, sx, sy
    <2>1. /\ 2 * e >= -b => i < a
          /\ 2 * e <= a => j < b
          /\ 2 * e >= -b \/ 2 * e <= a
        BY <1>1, <1>3, <1>6, Bresenham DEF a, b, e
    <2>2. k \in {i, i + 1} /\ l \in {j, j + 1} /\ k \in 0 .. a /\ l \in 0 .. b /\ k + l > i + j
        BY <1>1, <1>3, <2>1
    <2>3. w = a * (1 + l) - b * (1 + k)
        <3>1. a * (1 + (j + 1)) = a * (1 + j) + a /\ b * (1 + (i + 1)) = b * (1 + i) + b
            BY <1>1, <1>3
        <3>2. a * (1 + j) \in Int /\ b * (1 + i) \in Int
            BY <1>1, <1>3
        <3>3. a * (1 + l) = a * (1 + j) + (IF 2 * e <= a THEN a ELSE 0)
            BY <1>1, <3>1, <3>2
        <3>4. b * (1 + k) = b * (1 + i) + (IF 2 * e >= -b THEN b ELSE 0)
            BY <1>1, <3>1, <3>2
        <3>5. e = a * (1 + j) - b * (1 + i)
            BY DEF e
        <3> HIDE DEF k, l
        <3> QED
            BY <1>1, <3>2, <3>3, <3>4, <3>5
    <2>4. u = IF from[1] < to[1] THEN from[1] + k ELSE from[1] - k
        <3> HIDE DEF p
        <3>1. CASE 2 * e >= -b
            <4>1. u = p[1] + sx /\ k = i + 1
                BY <3>1
            <4> HIDE DEF u, k
            <4> QED
                BY <1>1, <1>2, <1>3, <4>1 DEF sx
        <3>2. CASE ~(2 * e >= -b)
            BY <1>2, <3>2
        <3> QED
            BY <3>1, <3>2
    <2>5. v = IF from[2] < to[2] THEN from[2] + l ELSE from[2] - l
        <3> HIDE DEF p
        <3>1. CASE 2 * e <= a
            <4>1. v = p[2] + sy /\ l = j + 1
                BY <3>1
            <4> HIDE DEF v, l
            <4> QED
                BY <1>1, <1>2, <1>3, <4>1 DEF sy
        <3>2. CASE ~(2 * e <= a)
            BY <1>2, <3>2
        <3> QED
            BY <3>1, <3>2
    <2>6. Near(p, <<u, v>>)
        <3>1. sx \in {1, -1} /\ sy \in {1, -1}
            BY DEF sx, sy
        <3> HIDE DEF p
        <3> QED
            BY <1>3, <3>1 DEF Near, Distance
    <2> DEFINE q == OnWay(from, to, k, l)
    <2> HIDE DEF u, v, w, k, l
    <2>7. q = <<u, v>>
        BY <2>4, <2>5 DEF OnWay
    <2>8. Rest(f, from, to, k, l) = f[<<u, v, w>>]
        BY <2>3, <2>7 DEF Rest, a, b
    <2>9. Rest(f, from, to, i, j) = {p} \cup Rest(f, from, to, k, l)
        BY <1>2, <1>4, <1>6, <2>8 DEF Rest, a, b, e
    <2>10. Near(p, q)
        BY <2>6, <2>7
    <2> QED
        BY <1>6, <2>2, <2>9, <2>10 DEF a, b
<1> QED
    BY <1>5, <1>6

(* What holds of the points from p on. *)
GoodLine(points, p, from, to) ==
    /\ p \in points /\ to \in points
    /\ points \subseteq Between(from, to)
    /\ Joined(points, p)

(* The line of the pencil ends, at its end; it has no gaps, and no point   *)
(* out of the drawing or out of its way.                                   *)
THEOREM LineArrives ==
    ASSUME NEW from \in Cells, NEW to \in Cells
    PROVE  /\ from \in LinePoints(from, to) /\ to \in LinePoints(from, to)
           /\ LinePoints(from, to) \subseteq Between(from, to)
           /\ Joined(LinePoints(from, to), from)
<1> DEFINE a == Columns(from, to)
           b == Rows(from, to)
           p(i, j) == OnWay(from, to, i, j)
<1>1. PICK f : /\ LineWalk(f, from, to)
               /\ LinePoints(from, to) = f[<<from[1], from[2], a + (-b)>>]
    BY LineIsWalk
<1> DEFINE rest(i, j) == Rest(f, from, to, i, j)
           T == {n \in Nat : \E i \in 0 .. a, j \in 0 .. b :
                   (a - i) + (b - j) = n /\ ~GoodLine(rest(i, j), p(i, j), from, to)}
<1>2. /\ a \in Nat /\ b \in Nat /\ p(0, 0) = from /\ p(a, b) = to
      /\ \A i \in 0 .. a, j \in 0 .. b : p(i, j) \in Between(from, to)
    BY WayFacts
<1>3. \A i \in 0 .. a, j \in 0 .. b :
        IF i = a /\ j = b
        THEN rest(i, j) = {p(i, j)}
        ELSE \E k \in {i, i + 1}, l \in {j, j + 1} :
                /\ k \in 0 .. a /\ l \in 0 .. b /\ k + l > i + j
                /\ Near(p(i, j), p(k, l))
                /\ rest(i, j) = {p(i, j)} \cup rest(k, l)
    BY <1>1, WalkOn
<1>4. rest(0, 0) = LinePoints(from, to)
    <2>1. a * (1 + 0) - b * (1 + 0) = a + (-b)
        BY <1>2
    <2> QED
        BY <1>1, <1>2, <2>1 DEF Rest
<1> HIDE DEF a, b, p, rest
<1>5. T = {}
    <2>1. SUFFICES ASSUME NEW n \in T, \A m \in T : n <= m PROVE FALSE
        BY LeastNumber
    <2>2. PICK i \in 0 .. a, j \in 0 .. b :
             (a - i) + (b - j) = n /\ ~GoodLine(rest(i, j), p(i, j), from, to)
        OBVIOUS
    <2>3. CASE i = a /\ j = b
        <3>1. rest(i, j) = {p(i, j)} /\ p(i, j) = to /\ p(i, j) \in Between(from, to)
            BY <1>2, <1>3, <2>3
        <3> QED
            BY <2>2, <3>1, JoinedOne DEF GoodLine
    <2>4. CASE ~(i = a /\ j = b)
        <3>1. PICK k \in {i, i + 1}, l \in {j, j + 1} :
                 /\ k \in 0 .. a /\ l \in 0 .. b /\ k + l > i + j
                 /\ Near(p(i, j), p(k, l))
                 /\ rest(i, j) = {p(i, j)} \cup rest(k, l)
            BY <1>3, <2>4
        <3>2. GoodLine(rest(k, l), p(k, l), from, to)
            <4> DEFINE m == (a - k) + (b - l)
            <4>1. m \in Nat /\ m < n /\ n \in Nat
                BY <1>2, <2>2, <3>1
            <4> HIDE DEF m, T
            <4>2. m \notin T
                BY <2>1, <4>1
            <4> QED
                BY <3>1, <4>1, <4>2 DEF m, T
        <3>3. p(i, j) \in Between(from, to)
            BY <1>2
        <3>4. Joined(rest(i, j), p(i, j))
            BY <3>1, <3>2, JoinedOneMore DEF GoodLine
        <3> QED
            BY <2>2, <3>1, <3>2, <3>3, <3>4 DEF GoodLine
    <2> QED
        BY <2>3, <2>4
<1>6. GoodLine(rest(0, 0), p(0, 0), from, to)
    <2>1. 0 \in 0 .. a /\ 0 \in 0 .. b /\ (a - 0) + (b - 0) \in Nat
        BY <1>2
    <2> QED
        BY <1>5, <2>1
<1> QED
    BY <1>2, <1>4, <1>6 DEF GoodLine

-----------------------------------------------------------------------------
LEMMA BlankIsDrawing == BlankDrawing \in Drawings
BY GeometryAssumption DEF BlankDrawing, Drawings

LEMMA EmptyStack == <<>> \in Seq(Drawings)
OBVIOUS

LEMMA PushedStack ==
    \A s \in Seq(Drawings), d \in Drawings : Pushed(s, d) \in Seq(Drawings)
BY PushedOnto DEF Pushed

(* What commit leaves is typed, whatever drawings it compares. *)
LEMMA CommitTyped ==
    \A before, after \in Drawings :
        TypeOK /\ Commit(before, after) =>
            /\ pixels' \in Drawings
            /\ undoStack' \in Seq(Drawings)
            /\ redoStack' \in Seq(Drawings)
<1> TAKE before, after \in Drawings
<1> HAVE TypeOK /\ Commit(before, after)
<1>1. CASE before = after
    BY <1>1 DEF Commit, TypeOK, history
<1>2. CASE before # after
    <2>1. Pushed(undoStack, before) \in Seq(Drawings)
        BY PushedStack DEF TypeOK
    <2> QED
        BY <1>2, <2>1 DEF Commit
<1> QED
    BY <1>1, <1>2

LEMMA StrokeColorIsColor == TypeOK => StrokeColor \in Colors
BY GeometryAssumption DEF TypeOK, StrokeColor

LEMMA SaveTyped ==
    Save /\ pixels' \in Drawings /\ selected' \in Colors /\ tool' \in Tools
        => draft' \in Draft \cup {NoDraft}
BY DEF Save, Draft

-----------------------------------------------------------------------------
(* Type correctness. *)
LEMMA InitTyped == Init => TypeOK
<1> SUFFICES ASSUME Init PROVE TypeOK
    OBVIOUS
<1>1. pixels \in Drawings /\ selected \in Colors /\ tool \in Tools
    BY BlankIsDrawing, EditorAssumption DEF Init, FreshDraft, Tools, Brushes
<1>2. undoStack \in Seq(Drawings) /\ redoStack \in Seq(Drawings)
    BY EmptyStack DEF Init
<1> QED
    BY <1>1, <1>2 DEF Init, TypeOK

LEMMA ReworkTyped ==
    \A after \in Drawings : TypeOK /\ Rework(after) => TypeOK'
<1> TAKE after \in Drawings
<1> HAVE TypeOK /\ Rework(after)
<1>1. /\ pixels' \in Drawings
      /\ undoStack' \in Seq(Drawings)
      /\ redoStack' \in Seq(Drawings)
    BY CommitTyped DEF Rework, TypeOK
<1>2. draft' \in Draft \cup {NoDraft}
    BY <1>1, SaveTyped DEF Rework, TypeOK
<1> QED
    BY <1>1, <1>2 DEF Rework, TypeOK, stroke

LEMMA PointerTyped ==
    \A cell \in Cells :
        TypeOK /\ (PointerDown(cell) \/ PointerMove(cell) \/ ApplyAt(cell)) => TypeOK'
<1> TAKE cell \in Cells
<1> HAVE TypeOK /\ (PointerDown(cell) \/ PointerMove(cell) \/ ApplyAt(cell))
<1> USE DEF TypeOK
<1>1. PickColor(cell) => /\ pixels' \in Drawings /\ selected' \in Colors
                         /\ undoStack' \in Seq(Drawings)
                         /\ redoStack' \in Seq(Drawings)
    BY DEF PickColor, history, Drawings
<1>2. Fill(cell) => /\ pixels' \in Drawings /\ selected' \in Colors
                    /\ undoStack' \in Seq(Drawings)
                    /\ redoStack' \in Seq(Drawings)
    <2>1. FloodFill(pixels, cell, selected) \in Drawings
        BY ToolsDraw
    <2> QED
        BY <2>1, CommitTyped DEF Fill
<1>3. \A cells : Painted(pixels, cells, StrokeColor) \in Drawings
    BY ToolsDraw, StrokeColorIsColor
<1>4. CASE PointerDown(cell)
    <2>1. CASE BeginStroke(cell) /\ UNCHANGED draft
        BY <1>3, <1>4, <2>1 DEF PointerDown, BeginStroke, PaintLine, history
    <2>2. CASE (PickColor(cell) \/ Fill(cell)) /\ UNCHANGED stroke /\ Save
        <3>1. tool' \in Tools /\ drawing' \in BOOLEAN /\ remix' \in BOOLEAN
            BY <1>4 DEF PointerDown
        <3>2. draft' \in Draft \cup {NoDraft}
            BY <1>1, <1>2, <2>2, <3>1, SaveTyped
        <3> QED
            BY <1>1, <1>2, <2>2, <3>1, <3>2 DEF stroke
    <2> QED
        BY <1>4, <2>1, <2>2 DEF PointerDown
<1>5. CASE PointerMove(cell)
    <2>1. pixels' \in Drawings
        BY <1>3, <1>5 DEF PointerMove, PaintLine
    <2> QED
        BY <1>5, <2>1 DEF PointerMove, history
<1>6. CASE ApplyAt(cell)
    <2>1. /\ pixels' \in Drawings /\ selected' \in Colors
          /\ undoStack' \in Seq(Drawings)
          /\ redoStack' \in Seq(Drawings)
        <3>1. CASE PickColor(cell) \/ Fill(cell)
            BY <1>1, <1>2, <3>1
        <3>2. CASE Commit(pixels, Painted(pixels, {cell}, StrokeColor)) /\ UNCHANGED selected
            BY <1>3, <3>2, CommitTyped
        <3> QED
            BY <1>6, <3>1, <3>2 DEF ApplyAt
    <2>2. draft' \in Draft \cup {NoDraft}
        BY <1>6, <2>1, SaveTyped DEF ApplyAt
    <2> QED
        BY <1>6, <2>1, <2>2 DEF ApplyAt, stroke
<1> QED
    BY <1>4, <1>5, <1>6

LEMMA PointerUpTyped == TypeOK /\ PointerUp => TypeOK'
<1> SUFFICES ASSUME TypeOK, PointerUp PROVE TypeOK'
    OBVIOUS
<1> USE DEF TypeOK
<1>1. /\ pixels' \in Drawings
      /\ undoStack' \in Seq(Drawings)
      /\ redoStack' \in Seq(Drawings)
    <2>1. CASE strokeBefore = NoDrawing
        BY <2>1 DEF PointerUp, history
    <2>2. CASE strokeBefore # NoDrawing
        BY <2>2, CommitTyped DEF PointerUp
    <2> QED
        BY <2>1, <2>2
<1>2. draft' \in Draft \cup {NoDraft}
    BY <1>1, SaveTyped DEF PointerUp
<1> QED
    BY <1>1, <1>2 DEF PointerUp, StrokeClosed

LEMMA HistoryTyped == TypeOK /\ (Undo \/ Redo) => TypeOK'
<1> SUFFICES ASSUME TypeOK, Undo \/ Redo PROVE TypeOK'
    OBVIOUS
<1> USE DEF TypeOK
<1>1. /\ pixels' \in Drawings
      /\ undoStack' \in Seq(Drawings)
      /\ redoStack' \in Seq(Drawings)
    <2>1. CASE Undo /\ undoStack # <<>>
        <3>1. Front(undoStack) \in Seq(Drawings) /\ Last(undoStack) \in Drawings
            BY <2>1, Popped
        <3>2. Append(redoStack, pixels) \in Seq(Drawings)
            BY PushedOnto
        <3> QED
            BY <2>1, <3>1, <3>2 DEF Undo
    <2>2. CASE Redo /\ redoStack # <<>>
        <3>1. Front(redoStack) \in Seq(Drawings) /\ Last(redoStack) \in Drawings
            BY <2>2, Popped
        <3>2. Append(undoStack, pixels) \in Seq(Drawings)
            BY PushedOnto
        <3> QED
            BY <2>2, <3>1, <3>2 DEF Redo
    <2>3. CASE (Undo /\ undoStack = <<>>) \/ (Redo /\ redoStack = <<>>)
        BY <2>3 DEF Undo, Redo, history
    <2> QED
        BY <2>1, <2>2, <2>3
<1>2. draft' \in Draft \cup {NoDraft}
    BY <1>1, SaveTyped DEF Undo, Redo
<1>3. \/ strokeBefore' \in Drawings /\ lastPoint' \in Cells
      \/ strokeBefore' = NoDrawing /\ lastPoint' = NoCell
    BY DEF Undo, Redo, stroke, StrokeClosed
<1> QED
    BY <1>1, <1>2, <1>3 DEF Undo, Redo

LEMMA OpenedTyped ==
    TypeOK /\ (Reload \/ \E postcard \in Drawings : RemixArrives(postcard)) => TypeOK'
<1> SUFFICES ASSUME TypeOK, Reload \/ \E postcard \in Drawings : RemixArrives(postcard)
             PROVE  TypeOK'
    OBVIOUS
<1> USE DEF TypeOK
<1>1. CASE Reload
    <2>1. FreshDraft \in Draft
        BY BlankIsDrawing, EditorAssumption DEF FreshDraft, Draft, Tools, Brushes
    <2>2. (IF draft = NoDraft THEN FreshDraft ELSE draft) \in Draft
        BY <2>1
    <2>3. pixels' \in Drawings /\ selected' \in Colors /\ tool' \in Tools
        BY <1>1, <2>2 DEF Reload, Opened, Draft
    <2> QED
        BY <1>1, <2>3, EmptyStack DEF Reload, Opened, StrokeClosed
<1>2. CASE \E postcard \in Drawings : RemixArrives(postcard)
    <2> PICK postcard \in Drawings : RemixArrives(postcard)
        BY <1>2
    <2>1. /\ pixels' = postcard /\ selected' = selected /\ tool' = "pencil"
          /\ undoStack' = <<>> /\ redoStack' = <<>>
          /\ strokeBefore' = NoDrawing /\ lastPoint' = NoCell
        BY DEF RemixArrives, Opened, StrokeClosed
    <2>2. draft' \in Draft \cup {NoDraft}
        BY <2>1, SaveTyped DEF RemixArrives, Tools, Brushes
    <2> QED
        BY <2>1, <2>2, EmptyStack DEF RemixArrives, Tools, Brushes
<1> QED
    BY <1>1, <1>2

LEMMA SettingTyped ==
    TypeOK /\ (\/ \E value \in Tools : SetTool(value)
               \/ \E color \in Colors : SetSelected(color)) => TypeOK'
<1> SUFFICES ASSUME TypeOK,
                    \/ \E value \in Tools : SetTool(value)
                    \/ \E color \in Colors : SetSelected(color)
             PROVE  TypeOK'
    OBVIOUS
<1>1. pixels' \in Drawings /\ selected' \in Colors /\ tool' \in Tools
    BY DEF TypeOK, SetTool, SetSelected
<1>2. draft' \in Draft \cup {NoDraft}
    BY <1>1, SaveTyped DEF SetTool, SetSelected
<1> QED
    BY <1>1, <1>2 DEF TypeOK, SetTool, SetSelected, history, stroke

LEMMA NextTyped == TypeOK /\ [Next]_vars => TypeOK'
<1> SUFFICES ASSUME TypeOK, [Next]_vars PROVE TypeOK'
    OBVIOUS
<1>1. CASE Clear \/ FlipHorizontal \/ FlipVertical
    <2>1. /\ BlankDrawing \in Drawings
          /\ FlippedHorizontally(pixels) \in Drawings
          /\ FlippedVertically(pixels) \in Drawings
        BY BlankIsDrawing, ToolsDraw DEF TypeOK
    <2> QED
        BY <1>1, <2>1, ReworkTyped DEF Clear, FlipHorizontal, FlipVertical
<1>2. CASE RemixFails \/ Published \/ UNCHANGED vars
    BY <1>2 DEF TypeOK, RemixFails, Published, vars, history, stroke
<1> QED
    BY <1>1, <1>2, PointerTyped, PointerUpTyped, HistoryTyped, OpenedTyped, SettingTyped
       DEF Next, Edits

(* Theorem: every variable keeps its type, and lastPoint is there whenever  *)
(* continueStroke dereferences it.                                          *)
THEOREM TypeCorrect == Spec => []TypeOK
BY InitTyped, NextTyped, PTL DEF Spec

-----------------------------------------------------------------------------
(* The bound on the history. *)
LEMMA PushedBounded ==
    \A s \in Seq(Drawings), d \in Drawings :
        Len(s) <= HistoryLimit => Len(Pushed(s, d)) <= HistoryLimit
<1> TAKE s \in Seq(Drawings), d \in Drawings
<1> HAVE Len(s) <= HistoryLimit
<1>1. /\ Len(Append(s, d)) = Len(s) + 1
      /\ Len(Tail(Append(s, d))) = Len(s)
      /\ Len(s) \in Nat
    BY PushedOnto
<1> QED
    BY <1>1, EditorAssumption DEF Pushed

LEMMA CommitBounded ==
    \A before, after \in Drawings :
        TypeOK /\ HistoryBounded /\ Commit(before, after) => HistoryBounded'
<1> TAKE before, after \in Drawings
<1> HAVE TypeOK /\ HistoryBounded /\ Commit(before, after)
<1>1. Len(undoStack) \in Nat /\ Len(redoStack) \in Nat
    BY DEF TypeOK
<1>2. CASE before = after
    BY <1>2 DEF Commit, HistoryBounded, history
<1>3. CASE before # after
    <2>1. Len(Pushed(undoStack, before)) <= HistoryLimit
        BY <1>1, PushedBounded, EditorAssumption DEF HistoryBounded, TypeOK
    <2>2. Pushed(undoStack, before) \in Seq(Drawings)
        BY PushedStack DEF TypeOK
    <2>3. Len(Pushed(undoStack, before)) \in Nat
        BY <2>2
    <2>4. undoStack' = Pushed(undoStack, before) /\ Len(redoStack') = 0
        BY <1>3 DEF Commit
    <2> QED
        BY <2>1, <2>3, <2>4 DEF HistoryBounded
<1> QED
    BY <1>2, <1>3

LEMMA MovedBounded ==
    TypeOK /\ HistoryBounded /\ (Undo \/ Redo) => HistoryBounded'
<1> SUFFICES ASSUME TypeOK, HistoryBounded, Undo \/ Redo PROVE HistoryBounded'
    OBVIOUS
<1>1. CASE Undo /\ undoStack # <<>>
    <2>1. Len(undoStack') = Len(undoStack) - 1 /\ Len(redoStack') = Len(redoStack) + 1
        <3>1. Len(Front(undoStack)) = Len(undoStack) - 1
            BY <1>1, Popped DEF TypeOK
        <3>2. Len(Append(redoStack, pixels)) = Len(redoStack) + 1
            BY PushedOnto DEF TypeOK
        <3> QED
            BY <1>1, <3>1, <3>2 DEF Undo
    <2>2. Len(undoStack) \in Nat /\ Len(redoStack) \in Nat
        BY DEF TypeOK
    <2> QED
        BY <2>1, <2>2 DEF HistoryBounded
<1>2. CASE Redo /\ redoStack # <<>>
    <2>1. Len(redoStack') = Len(redoStack) - 1 /\ Len(undoStack') = Len(undoStack) + 1
        BY <1>2, Popped, PushedOnto DEF Redo, TypeOK
    <2>2. Len(undoStack) \in Nat /\ Len(redoStack) \in Nat
        BY DEF TypeOK
    <2> QED
        BY <2>1, <2>2 DEF HistoryBounded
<1>3. CASE (Undo /\ undoStack = <<>>) \/ (Redo /\ redoStack = <<>>)
    BY <1>3 DEF Undo, Redo, history, HistoryBounded
<1> QED
    BY <1>1, <1>2, <1>3

(* Where an edit comes from: every handler that commits. *)
LEMMA CommitsOrNot ==
    TypeOK /\ [Next]_vars =>
        \/ UNCHANGED history
        \/ \E before, after \in Drawings : Commit(before, after)
        \/ Undo \/ Redo
        \/ undoStack' = <<>> /\ redoStack' = <<>>
<1> SUFFICES ASSUME TypeOK, [Next]_vars
             PROVE  \/ UNCHANGED history
                    \/ \E before, after \in Drawings : Commit(before, after)
                    \/ Undo \/ Redo
                    \/ undoStack' = <<>> /\ redoStack' = <<>>
    OBVIOUS
<1>1. ASSUME NEW cell \in Cells, PointerDown(cell) \/ PointerMove(cell) \/ ApplyAt(cell)
      PROVE  \/ UNCHANGED history
             \/ \E before, after \in Drawings : Commit(before, after)
    <2>1. /\ FloodFill(pixels, cell, selected) \in Drawings
          /\ Painted(pixels, {cell}, StrokeColor) \in Drawings
        BY ToolsDraw, StrokeColorIsColor DEF TypeOK
    <2>2. pixels \in Drawings
        BY DEF TypeOK
    <2>3. Fill(cell) => Commit(pixels, FloodFill(pixels, cell, selected))
        BY DEF Fill
    <2>4. \/ Fill(cell) \/ UNCHANGED history
          \/ Commit(pixels, Painted(pixels, {cell}, StrokeColor))
        BY <1>1 DEF PointerDown, PointerMove, ApplyAt, BeginStroke, PickColor, history
    <2> QED
        BY <2>1, <2>2, <2>3, <2>4
<1>2. CASE Clear \/ FlipHorizontal \/ FlipVertical
    <2>1. /\ BlankDrawing \in Drawings
          /\ FlippedHorizontally(pixels) \in Drawings
          /\ FlippedVertically(pixels) \in Drawings
          /\ pixels \in Drawings
        BY BlankIsDrawing, ToolsDraw DEF TypeOK
    <2> QED
        BY <1>2, <2>1 DEF Clear, FlipHorizontal, FlipVertical, Rework
<1>3. CASE PointerUp
    BY <1>3 DEF PointerUp, TypeOK
<1>4. CASE \/ \E value \in Tools : SetTool(value)
           \/ \E color \in Colors : SetSelected(color)
           \/ RemixFails \/ Published \/ UNCHANGED vars
    BY <1>4 DEF SetTool, SetSelected, RemixFails, Published, vars
<1>5. CASE Reload \/ \E postcard \in Drawings : RemixArrives(postcard)
    BY <1>5 DEF Reload, RemixArrives, Opened
<1> QED
    BY <1>1, <1>2, <1>3, <1>4, <1>5 DEF Next, Edits

LEMMA NextBounded == TypeOK /\ HistoryBounded /\ [Next]_vars => HistoryBounded'
<1> SUFFICES ASSUME TypeOK, HistoryBounded, [Next]_vars PROVE HistoryBounded'
    OBVIOUS
<1>1. CASE UNCHANGED history
    BY <1>1 DEF history, HistoryBounded
<1>2. CASE undoStack' = <<>> /\ redoStack' = <<>>
    BY <1>2, EditorAssumption DEF HistoryBounded
<1> QED
    BY <1>1, <1>2, CommitsOrNot, CommitBounded, MovedBounded

(* Theorem: undo and redo together hold at most HistoryLimit drawings,      *)
(* whatever interrupts a stroke: commit alone looks at the limit, the moves *)
(* between the stacks keep their sum.                                       *)
THEOREM Bounded == Spec => []HistoryBounded
<1>1. Init => HistoryBounded
    BY EditorAssumption DEF Init, HistoryBounded
<1> QED
    BY <1>1, NextBounded, TypeCorrect, PTL DEF Spec

-----------------------------------------------------------------------------
(* The draft. *)
LEMMA NextCurrent == TypeOK /\ DraftCurrent /\ [Next]_vars => DraftCurrent'
<1> SUFFICES ASSUME TypeOK, DraftCurrent, [Next]_vars PROVE DraftCurrent'
    OBVIOUS
<1>1. Save => DraftCurrent'
    BY DEF Save, DraftCurrent
<1>2. CASE \E cell \in Cells : PointerDown(cell)
    BY <1>1, <1>2 DEF PointerDown, BeginStroke, DraftCurrent
<1>3. CASE \E cell \in Cells : PointerMove(cell)
    BY <1>3 DEF PointerMove, DraftCurrent
<1>4. CASE Reload
    <2>1. CASE draft = NoDraft
        BY <1>4, <2>1 DEF Reload, DraftCurrent
    <2>2. CASE draft # NoDraft
        <3>1. draft \in Draft
            BY <2>2 DEF TypeOK
        <3>2. draft' = draft /\ pixels' = draft.pixels
              /\ selected' = draft.selected /\ tool' = draft.tool
            BY <1>4, <2>2 DEF Reload, Opened
        <3> QED
            BY <3>1, <3>2 DEF DraftCurrent, Draft
    <2> QED
        BY <2>1, <2>2
<1>5. CASE RemixFails \/ Published \/ UNCHANGED vars
    BY <1>5 DEF RemixFails, Published, vars, DraftCurrent
<1>6. CASE PointerUp \/ \E cell \in Cells : ApplyAt(cell)
    BY <1>1, <1>6 DEF PointerUp, ApplyAt
<1>7. CASE Clear \/ FlipHorizontal \/ FlipVertical \/ Undo \/ Redo
    BY <1>1, <1>7 DEF Clear, FlipHorizontal, FlipVertical, Rework, Undo, Redo
<1>8. CASE \/ \E value \in Tools : SetTool(value)
           \/ \E color \in Colors : SetSelected(color)
           \/ \E postcard \in Drawings : RemixArrives(postcard)
    BY <1>1, <1>8 DEF SetTool, SetSelected, RemixArrives
<1> QED
    BY <1>2, <1>3, <1>4, <1>5, <1>6, <1>7, <1>8 DEF Next, Edits

(* Theorem: what a reload would show is what the editor shows, unless a     *)
(* pointer is drawing or nothing was ever saved.                            *)
THEOREM DraftSaved == Spec => []DraftCurrent
<1>1. Init => DraftCurrent
    BY DEF Init, DraftCurrent
<1> QED
    BY <1>1, NextCurrent, TypeCorrect, PTL DEF Spec

-----------------------------------------------------------------------------
(* The history as a line of drawings: where the visitor stands on it. *)
Here == IF strokeBefore = NoDrawing THEN pixels ELSE strokeBefore

Steps == Timeline!Next \/ UNCHANGED Timeline!vars

(* A commit of the drawing that stands on the line is one edit, or nothing. *)
LEMMA CommitIsEdit ==
    \A before, after \in Drawings :
        TypeOK /\ Commit(before, after) /\ Here = before /\ Here' = after => Steps
<1> TAKE before, after \in Drawings
<1> HAVE TypeOK /\ Commit(before, after) /\ Here = before /\ Here' = after
<1>1. CASE before = after
    BY <1>1 DEF Commit, history, Steps, Timeline!vars, Here
<1>2. CASE before # after
    <2>1. Len(Append(undoStack, before)) = Len(undoStack) + 1
        BY PushedOnto DEF TypeOK
    <2>2. undoStack' = Timeline!Remembered(Append(undoStack, before))
        BY <1>2, <2>1 DEF Commit, Pushed, Timeline!Remembered
    <2>3. Timeline!Edit(after)
        BY <1>2, <2>2 DEF Timeline!Edit, Commit, Here
    <2> QED
        BY <2>3 DEF Steps, Timeline!Next
<1> QED
    BY <1>1, <1>2

(* Nothing is lost or gained by a handler that leaves history and place. *)
LEMMA StayIsStutter == UNCHANGED history /\ Here' = Here => Steps
BY DEF history, Here, Steps, Timeline!vars

LEMMA OpenIsOpen ==
    TypeOK /\ (Reload \/ \E postcard \in Drawings : RemixArrives(postcard)) => Steps
<1> SUFFICES ASSUME TypeOK, Reload \/ \E postcard \in Drawings : RemixArrives(postcard)
             PROVE  Steps
    OBVIOUS
<1>1. undoStack' = <<>> /\ redoStack' = <<>> /\ strokeBefore' = NoDrawing
    BY DEF Reload, RemixArrives, Opened, StrokeClosed
<1>2. pixels' \in Drawings
    BY OpenedTyped DEF TypeOK
<1>3. Timeline!Open(pixels')
    BY <1>1 DEF Timeline!Open
<1> QED
    BY <1>2, <1>3 DEF Steps, Timeline!Next

(* The same where the visitor stands on the drawing that is shown. *)
ShownSteps == Shown!Next \/ UNCHANGED Shown!vars

LEMMA CommitIsShownEdit ==
    \A after \in Drawings : TypeOK /\ Commit(pixels, after) => ShownSteps
<1> TAKE after \in Drawings
<1> HAVE TypeOK /\ Commit(pixels, after)
<1>1. CASE pixels = after
    BY <1>1 DEF Commit, history, ShownSteps, Shown!vars
<1>2. CASE pixels # after
    <2>1. Len(Append(undoStack, pixels)) = Len(undoStack) + 1
        BY PushedOnto DEF TypeOK
    <2>2. undoStack' = Shown!Remembered(Append(undoStack, pixels))
        BY <1>2, <2>1 DEF Commit, Pushed, Shown!Remembered
    <2>3. Shown!Edit(after)
        BY <1>2, <2>2 DEF Shown!Edit, Commit
    <2> QED
        BY <2>3 DEF ShownSteps, Shown!Next
<1> QED
    BY <1>1, <1>2

(* An edit either begins a stroke or moves on from the drawing on the       *)
(* canvas, and then it opens no stroke.                                     *)
Begins == UNCHANGED history /\ \E cell \in Cells : BeginStroke(cell)
Moves  == ShownSteps /\ strokeBefore' \in {strokeBefore, NoDrawing}

LEMMA EditsMove == TypeOK /\ Edits => Begins \/ Moves
<1> SUFFICES ASSUME TypeOK, Edits PROVE Begins \/ Moves
    OBVIOUS
<1>1. pixels \in Drawings
    BY DEF TypeOK
<1>2. UNCHANGED <<pixels, history>> => ShownSteps
    BY DEF history, ShownSteps, Shown!vars
<1>3. UNCHANGED stroke => strokeBefore' \in {strokeBefore, NoDrawing}
    BY DEF stroke
<1>4. ASSUME NEW cell \in Cells, PointerDown(cell) PROVE Begins \/ Moves
    <2>1. CASE BeginStroke(cell)
        BY <2>1 DEF Begins, BeginStroke
    <2>2. CASE PickColor(cell) /\ UNCHANGED stroke
        BY <1>2, <1>3, <2>2 DEF PickColor, Moves
    <2>3. CASE Fill(cell) /\ UNCHANGED stroke
        <3>1. FloodFill(pixels, cell, selected) \in Drawings
            BY ToolsDraw DEF TypeOK
        <3> QED
            BY <1>3, <2>3, <3>1, CommitIsShownEdit DEF Fill, Moves
    <2> QED
        BY <1>4, <2>1, <2>2, <2>3 DEF PointerDown
<1>5. ASSUME NEW cell \in Cells, ApplyAt(cell) PROVE Moves
    <2>1. UNCHANGED stroke
        BY <1>5 DEF ApplyAt
    <2>2. CASE PickColor(cell)
        BY <1>2, <1>3, <2>1, <2>2 DEF PickColor, Moves
    <2>3. /\ FloodFill(pixels, cell, selected) \in Drawings
          /\ Painted(pixels, {cell}, StrokeColor) \in Drawings
        BY ToolsDraw, StrokeColorIsColor DEF TypeOK
    <2> QED
        BY <1>3, <1>5, <2>1, <2>2, <2>3, CommitIsShownEdit DEF ApplyAt, Fill, Moves
<1>6. CASE Clear \/ FlipHorizontal \/ FlipVertical
    <2>1. /\ BlankDrawing \in Drawings
          /\ FlippedHorizontally(pixels) \in Drawings
          /\ FlippedVertically(pixels) \in Drawings
        BY <1>1, BlankIsDrawing, ToolsDraw
    <2>2. PICK after \in Drawings : Rework(after)
        BY <1>6, <2>1 DEF Clear, FlipHorizontal, FlipVertical
    <2> QED
        BY <1>3, <2>2, CommitIsShownEdit DEF Rework, Moves
<1>7. CASE Undo
    <2>1. CASE undoStack = <<>>
        BY <1>2, <1>3, <1>7, <2>1 DEF Undo, Moves
    <2>2. CASE undoStack # <<>>
        <3>1. Shown!Back
            BY <1>7, <2>2 DEF Shown!Back, Shown!Front, Shown!Last, Front, Last, Undo
        <3> QED
            BY <1>7, <2>2, <3>1 DEF ShownSteps, Shown!Next, Moves, Undo, StrokeClosed
    <2> QED
        BY <2>1, <2>2
<1>8. CASE Redo
    <2>1. CASE redoStack = <<>>
        BY <1>2, <1>3, <1>8, <2>1 DEF Redo, Moves
    <2>2. CASE redoStack # <<>>
        <3>1. Shown!Forth
            BY <1>8, <2>2 DEF Shown!Forth, Shown!Front, Shown!Last, Front, Last, Redo
        <3> QED
            BY <1>8, <2>2, <3>1 DEF ShownSteps, Shown!Next, Moves, Redo, StrokeClosed
    <2> QED
        BY <2>1, <2>2
<1> QED
    BY <1>4, <1>5, <1>6, <1>7, <1>8 DEF Edits

(* Outside a stroke the drawing on the canvas is the one on the line. *)
LEMMA EditsAreSteps ==
    TypeOK /\ strokeBefore = NoDrawing /\ Edits => Steps
<1> SUFFICES ASSUME TypeOK, strokeBefore = NoDrawing, Edits PROVE Steps
    OBVIOUS
<1>1. pixels \in Drawings /\ Here = pixels
    BY DEF TypeOK, Here
<1>2. CASE Begins
    <2>1. strokeBefore' = pixels /\ pixels # NoDrawing
        BY <1>1, <1>2, EditorAssumption DEF Begins, BeginStroke
    <2>2. Here' = Here
        BY <1>1, <2>1 DEF Here
    <2> QED
        BY <1>2, <2>2, StayIsStutter DEF Begins
<1>3. CASE Moves
    <2>1. strokeBefore' = NoDrawing
        BY <1>3 DEF Moves
    <2>2. CASE UNCHANGED Shown!vars
        BY <2>1, <2>2 DEF Steps, Timeline!vars, Shown!vars
    <2>3. CASE Shown!Back
        BY <2>1, <2>3 DEF Steps, Timeline!Next, Timeline!Back, Shown!Back,
                          Timeline!Front, Shown!Front, Timeline!Last, Shown!Last
    <2>4. CASE Shown!Forth
        BY <2>1, <2>4 DEF Steps, Timeline!Next, Timeline!Forth, Shown!Forth,
                          Timeline!Front, Shown!Front, Timeline!Last, Shown!Last
    <2>5. ASSUME NEW drawn \in Drawings, Shown!Edit(drawn) PROVE Steps
        BY <2>1, <2>5 DEF Steps, Timeline!Next, Timeline!Edit, Shown!Edit,
                          Timeline!Remembered, Shown!Remembered
    <2>6. ASSUME NEW drawn \in Drawings, Shown!Open(drawn) PROVE Steps
        BY <2>1, <2>6 DEF Steps, Timeline!Next, Timeline!Open, Shown!Open
    <2> QED
        BY <1>3, <2>2, <2>3, <2>4, <2>5, <2>6 DEF Moves, ShownSteps, Shown!Next
<1> QED
    BY <1>2, <1>3, EditsMove

LEMMA NextOnTimeline ==
    TypeOK /\ [Next]_vars => Interrupts \/ Steps
<1> SUFFICES ASSUME TypeOK, [Next]_vars, ~Interrupts
             PROVE  Steps
    OBVIOUS
<1>1. CASE Edits
    BY <1>1, EditsAreSteps DEF Interrupts
<1>2. CASE \E cell \in Cells : PointerMove(cell)
    BY <1>2, StayIsStutter DEF PointerMove, Here
<1>3. CASE PointerUp
    <2>1. strokeBefore' = NoDrawing
        BY <1>3 DEF PointerUp, StrokeClosed
    <2>2. CASE strokeBefore = NoDrawing
        BY <1>3, <2>1, <2>2, StayIsStutter DEF PointerUp, Here
    <2>3. CASE strokeBefore # NoDrawing
        <3>1. strokeBefore \in Drawings /\ pixels \in Drawings
            BY <2>3 DEF TypeOK
        <3>2. Commit(strokeBefore, pixels)
            BY <1>3, <2>3 DEF PointerUp
        <3>3. Here = strokeBefore /\ Here' = pixels
            BY <2>1, <2>3, <3>2 DEF Here, Commit
        <3> QED
            BY <3>1, <3>2, <3>3, CommitIsEdit
    <2> QED
        BY <2>2, <2>3
<1>4. CASE \/ \E value \in Tools : SetTool(value)
           \/ \E color \in Colors : SetSelected(color)
           \/ RemixFails \/ Published \/ UNCHANGED vars
    <2>1. UNCHANGED <<pixels, history, stroke>>
        BY <1>4 DEF SetTool, SetSelected, RemixFails, Published, vars
    <2> QED
        BY <2>1, StayIsStutter DEF Here, stroke
<1> QED
    BY <1>1, <1>2, <1>3, <1>4, OpenIsOpen DEF Next

(* Theorem: whatever the visitor does outside a stroke, and a stroke as a   *)
(* whole, moves on a line of drawings as undo and redo promise; so does     *)
(* what interrupts a stroke, except for another stroke.                     *)
THEOREM TimelineKept == Spec => HistoryIsTimeline
<1> DEFINE OnTheLine ==
        IF Interrupts
        THEN \/ Shown!Next
             \/ UNCHANGED Shown!vars
             \/ UNCHANGED history /\ \E cell \in Cells : BeginStroke(cell)
        ELSE Timeline!Next \/ UNCHANGED Timeline!vars
<1>1. TypeOK /\ [Next]_vars => OnTheLine
    <2> SUFFICES ASSUME TypeOK, [Next]_vars PROVE OnTheLine
        OBVIOUS
    <2>1. CASE Interrupts
        <3>1. Begins \/ Moves
            BY <2>1, EditsMove DEF Interrupts
        <3> QED
            BY <2>1, <3>1 DEF Begins, Moves, ShownSteps
    <2>2. CASE ~Interrupts
        BY <2>2, NextOnTimeline DEF Steps
    <2> QED
        BY <2>1, <2>2
<1>2. TypeOK /\ [Next]_vars => [OnTheLine]_vars
    BY <1>1
<1> QED
    BY <1>2, TypeCorrect, PTL DEF Spec, HistoryIsTimeline

(* What was pushed last is the newest entry, at any limit from 1 on. *)
LEMMA PushedIsLast ==
    \A s \in Seq(Drawings), e \in Drawings : Pushed(s, e) # <<>> /\ Last(Pushed(s, e)) = e
<1> TAKE s \in Seq(Drawings), e \in Drawings
<1>1. /\ Append(s, e) \in Seq(Drawings) /\ Len(Append(s, e)) = Len(s) + 1
      /\ Append(s, e)[Len(s) + 1] = e
      /\ Len(s) \in Nat
    OBVIOUS
<1>2. CASE Len(s) + 1 > HistoryLimit
    <2>1. Len(s) # 0
        BY <1>1, <1>2, EditorAssumption
    <2>2. /\ Len(Tail(Append(s, e))) = Len(s)
          /\ \A i \in 1 .. Len(s) : Tail(Append(s, e))[i] = Append(s, e)[i + 1]
        BY <1>1
    <2> QED
        BY <1>1, <1>2, <2>1, <2>2 DEF Pushed, Last
<1>3. CASE ~(Len(s) + 1 > HistoryLimit)
    BY <1>1, <1>3 DEF Pushed, Last
<1> QED
    BY <1>2, <1>3

(* With one device at a time no edit meets an open stroke. *)
StrokeHeld == strokeBefore # NoDrawing => drawing

LEMMA NextHeld ==
    ~Concurrent /\ TypeOK /\ StrokeHeld /\ [Next]_vars => StrokeHeld'
<1> SUFFICES ASSUME ~Concurrent, TypeOK, StrokeHeld, [Next]_vars PROVE StrokeHeld'
    OBVIOUS
<1> USE DEF StrokeHeld
<1>1. CASE \E cell \in Cells : PointerDown(cell)
    BY <1>1 DEF PointerDown, BeginStroke, stroke, Free
<1>2. CASE \E cell \in Cells : PointerMove(cell) \/ ApplyAt(cell)
    BY <1>2 DEF PointerMove, ApplyAt, stroke
<1>3. CASE Clear \/ FlipHorizontal \/ FlipVertical \/ Undo \/ Redo
    BY <1>3 DEF Clear, FlipHorizontal, FlipVertical, Rework, Undo, Redo, StrokeClosed, stroke
<1>4. CASE \/ PointerUp \/ Reload \/ RemixFails \/ Published \/ UNCHANGED vars
           \/ \E postcard \in Drawings : RemixArrives(postcard)
    BY <1>4 DEF PointerUp, Reload, RemixFails, Published, RemixArrives, Opened, StrokeClosed,
                vars, stroke
<1>5. CASE \/ \E value \in Tools : SetTool(value)
           \/ \E color \in Colors : SetSelected(color)
    BY <1>5 DEF SetTool, SetSelected, stroke
<1> QED
    BY <1>1, <1>2, <1>3, <1>4, <1>5 DEF Next, Edits

LEMMA HeldUninterrupted == ~Concurrent /\ StrokeHeld => ~Interrupts
BY DEF StrokeHeld, Interrupts, Edits, PointerDown, ApplyAt, Clear, FlipHorizontal,
       FlipVertical, Rework, Undo, Redo, Free

(* Theorem: with one device at a time the editor implements the timeline    *)
(* without exception.                                                       *)
THEOREM TimelineImplemented == ASSUME ~Concurrent PROVE Spec => Timeline!Spec
<1>1. Init => Timeline!Init
    BY BlankIsDrawing DEF Init, FreshDraft, Timeline!Init
<1>2. Init => StrokeHeld
    BY DEF Init, StrokeHeld
<1>3. TypeOK /\ StrokeHeld /\ [Next]_vars => StrokeHeld'
    BY NextHeld
<1>4. TypeOK /\ StrokeHeld /\ [Next]_vars => [Timeline!Next]_(Timeline!vars)
    BY HeldUninterrupted, NextOnTimeline DEF Steps
<1> QED
    BY <1>1, <1>2, <1>3, <1>4, TypeCorrect, PTL DEF Spec, Timeline!Spec

(* README.md:67: the editor "groups pointer strokes into bounded undo       *)
(* history": when a stroke that has changed the drawing ends or gives way,  *)
(* the drawing that it began from is the newest entry.                      *)
StrokesGrouped ==
    [][strokeBefore \notin {NoDrawing, pixels} /\ strokeBefore' # strokeBefore =>
          \/ undoStack' # <<>> /\ Last(undoStack') = strokeBefore
          \/ Reload \/ \E postcard \in Drawings : RemixArrives(postcard)]_vars

(* Theorem: with one device at a time strokes are grouped as README.md:67   *)
(* says: a stroke ends at pointerup, which makes the drawing that it began  *)
(* from an entry.                                                           *)
THEOREM StrokesAreGrouped == ASSUME ~Concurrent PROVE Spec => StrokesGrouped
<1> DEFINE Grouped ==
        strokeBefore \notin {NoDrawing, pixels} /\ strokeBefore' # strokeBefore =>
            \/ undoStack' # <<>> /\ Last(undoStack') = strokeBefore
            \/ Reload \/ \E postcard \in Drawings : RemixArrives(postcard)
<1>1. TypeOK /\ StrokeHeld /\ [Next]_vars => [Grouped]_vars
    <2> SUFFICES ASSUME TypeOK, StrokeHeld, [Next]_vars,
                        strokeBefore \notin {NoDrawing, pixels}, strokeBefore' # strokeBefore
                 PROVE  \/ undoStack' # <<>> /\ Last(undoStack') = strokeBefore
                        \/ Reload \/ \E postcard \in Drawings : RemixArrives(postcard)
        OBVIOUS
    <2>1. ~Edits
        BY HeldUninterrupted DEF Interrupts
    <2>2. CASE PointerUp
        <3>1. Commit(strokeBefore, pixels) /\ strokeBefore # pixels
            BY <2>2 DEF PointerUp
        <3>2. undoStack' = Pushed(undoStack, strokeBefore)
            BY <3>1 DEF Commit
        <3>3. strokeBefore \in Drawings /\ undoStack \in Seq(Drawings)
            BY DEF TypeOK
        <3>4. undoStack' # <<>> /\ Last(undoStack') = strokeBefore
            BY <3>2, <3>3, PushedIsLast
        <3> QED
            BY <3>4
    <2>3. CASE \/ \E value \in Tools : SetTool(value)
               \/ \E color \in Colors : SetSelected(color)
               \/ RemixFails \/ Published \/ UNCHANGED vars
        BY <2>3 DEF SetTool, SetSelected, RemixFails, Published, vars, stroke
    <2>4. CASE \E cell \in Cells : PointerMove(cell)
        BY <2>4 DEF PointerMove
    <2> QED
        BY <2>1, <2>2, <2>3, <2>4 DEF Next
<1>2. Init => StrokeHeld
    BY DEF Init, StrokeHeld
<1>3. TypeOK /\ StrokeHeld /\ [Next]_vars => StrokeHeld'
    BY NextHeld
<1> QED
    BY <1>1, <1>2, <1>3, TypeCorrect, PTL DEF Spec, StrokesGrouped
=============================================================================
