---------------------------- MODULE MCCompaction ----------------------------
(***************************************************************************)
(* The heaps TLC starts full collections from: every arrangement of a few   *)
(* small objects and of the references between them.                       *)
(***************************************************************************)
EXTENDS Compaction

Blank == [ref |-> Nil, size |-> 0, flags |-> {}, hash |-> 0]

\* A heap of objects of at most one word of payload.  0 names nil, 1 .. n the objects
\* of the old space, and what follows the nursery.
Heap(shapes, classes, links, rts, yng) ==
  LET n == Len(shapes)
      at[i \in 1 .. n + 1] ==
        IF i = 1 THEN 0 ELSE at[i - 1] + HeaderWords + shapes[i - 1].size
      named(k) == IF k = 0 THEN Nil ELSE IF k <= n THEN at[k] ELSE OldMax + (k - n)
      word(i, w) ==
        CASE w = 0 -> [Blank EXCEPT !.ref = named(classes[i])]
          [] w = 1 -> [ref |-> Nil, size |-> shapes[i].size, flags |-> shapes[i].flags, hash |-> i]
          [] OTHER -> [Blank EXCEPT !.ref = named(links[i])]
      owner(x) == CHOOSE i \in 1 .. n : at[i] <= x /\ x < at[i + 1]
  IN [mem    |-> [x \in Addr |-> IF x < at[n + 1] THEN word(owner(x), x - at[owner(x)]) ELSE Blank],
      bump   |-> at[n + 1],
      starts |-> {at[i] : i \in 1 .. n},
      roots  |-> [r \in RootSlots |-> named(rts[r])],
      young  |-> [y \in Young |-> [klass |-> named(yng.klass), slots |-> <<named(yng.link)>>,
                                   weak |-> yng.weak]]]

Shape(size, flags) == [size |-> size, flags |-> flags]
NoClass(n) == [i \in 1 .. n |-> 0]

-----------------------------------------------------------------------------
\* Four objects, each with or without a slot or pinned; the root names the first of a
\* chain of some of them, up or down the space, which ends or turns back on itself, and
\* the others are garbage.
SlideShapes == [1 .. 4 -> {Shape(0, {}), Shape(1, {}), Shape(1, {"immovable"})}]

Chains == {c \in UNION {[1 .. m -> 1 .. 4] : m \in 1 .. 4} :
             \/ \A i, j \in DOMAIN c : i < j => c[i] < c[j]
             \/ \A i, j \in DOMAIN c : i < j => c[i] > c[j]}

\* What the other root names: an object of the nursery, alone.
Unused == [klass |-> 0, link |-> 0, weak |-> FALSE]

SlideHeaps ==
  {Heap(x[1], NoClass(4),
        [i \in 1 .. 4 |->
           IF \E j \in 1 .. Len(x[2]) - 1 : x[2][j] = i
           THEN x[2][(CHOOSE j \in 1 .. Len(x[2]) - 1 : x[2][j] = i) + 1]
           ELSE IF i = Last(x[2]) /\ x[3] > 0 THEN x[2][x[3]] ELSE 0],
        [r \in RootSlots |-> IF r = "r" THEN x[2][1] ELSE 5], Unused) :
     x \in {t \in SlideShapes \X Chains \X (0 .. 4) :
              /\ t[3] <= Len(t[2])
              /\ t[1][Last(t[2])].size = 0 => t[3] = 0
              /\ \A j \in 1 .. Len(t[2]) - 1 : t[1][t[2][j]].size = 1}}

-----------------------------------------------------------------------------
\* Two old objects and one in the nursery: plain, weak and bytes, with classes.
WeakShapes == [1 .. 2 -> {Shape(1, {}), Shape(1, {"weak"}), Shape(1, {"bytes"})}]

Youngs == [klass : 0 .. 1, link : 0 .. 3, weak : BOOLEAN]

WeakHeaps ==
  {h \in {Heap(x[1], <<x[2], 0>>, x[3], x[4], x[5]) :
            x \in WeakShapes \X {0, 3} \X [1 .. 2 -> 0 .. 3] \X [RootSlots -> {1, 3}] \X Youngs} :
     Scavenged(h)}

-----------------------------------------------------------------------------
MCHeaps == SlideHeaps \cup WeakHeaps
MCRoots == <<"r", "s", "r">>
=============================================================================
