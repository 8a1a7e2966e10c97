----------------------------- MODULE LinkedList -----------------------------
(***************************************************************************)
(* Singly linked lists, as the kernel keeps them (process_list of          *)
(* core/sys/process.c, timerlist of core/sys/etimer.c, core/lib/list.c): a *)
(* first item and a link from each item to the next.  The theory that the  *)
(* proofs about them share.                                                *)
(***************************************************************************)
EXTENDS TLAPS

CONSTANTS Items, NULL

(* What a walk from p on meets that follows the links n: all that is in    *)
(* every set that p is in and that no link leads out of.                   *)
Closed(n, S) == \A q \in S : n[q] \in S \cup {NULL}

Reach(n, p) == {q \in Items : \A S \in SUBSET Items :
                     p \in S \cup {NULL} /\ Closed(n, S) => q \in S}

(* Nobody is behind two others, or in front of the first. *)
Linear(n, first) ==
  /\ \A p \in Reach(n, first) : n[p] # first
  /\ \A p, q \in Reach(n, first) : n[p] = n[q] /\ n[p] # NULL => p = q

(* A list has one end. *)
Ends(n, first) ==
  first # NULL =>
    \E p \in Reach(n, first) :
      \A q \in Reach(n, first) : n[q] = NULL <=> q = p

-----------------------------------------------------------------------------
(* What the links may be. *)
Links == [Items -> Items \cup {NULL}]

(* A set that a walk enters and does not leave has all of it. *)
LEMMA ReachLeast ==
  ASSUME NEW n, NEW p, NEW S \in SUBSET Items, p \in S \cup {NULL},
         Closed(n, S)
  PROVE  Reach(n, p) \subseteq S
  BY DEF Reach

(* A walk stays among the items, starts where it starts, and its links  *)
(* lead nowhere else.                                                       *)
LEMMA ReachIs ==
  ASSUME NULL \notin Items, NEW n \in Links, NEW p \in Items \cup {NULL}
  PROVE  /\ Reach(n, p) \in SUBSET Items /\ p \in Reach(n, p) \cup {NULL}
         /\ Closed(n, Reach(n, p))
  <1>1. /\ Reach(n, p) \in SUBSET Items
        /\ p # NULL => p \in Reach(n, p)
    BY DEF Reach
  <1>2. ASSUME NEW q \in Reach(n, p), n[q] # NULL
        PROVE  n[q] \in Reach(n, p)
    <2>1. q \in Items /\ n[q] \in Items
      BY <1>1, <1>2 DEF Links
    <2>2. ASSUME NEW S \in SUBSET Items, p \in S \cup {NULL}, Closed(n, S)
          PROVE  n[q] \in S
      <3>1. q \in S
        BY <2>2, ReachLeast
      <3> QED BY <1>2, <2>2, <3>1 DEF Closed
    <2> QED BY <2>1, <2>2 DEF Reach
  <1> QED BY <1>1, <1>2 DEF Closed

(* A walk that starts nowhere meets nobody. *)
LEMMA ReachNothing == ASSUME NEW n PROVE Reach(n, NULL) = {}
  <1>1. {} \in SUBSET Items /\ NULL \in {} \cup {NULL} /\ Closed(n, {})
    BY DEF Closed
  <1> QED BY <1>1, ReachLeast

(* Who comes after p is p itself or comes after the next one. *)
LEMMA ReachNext ==
  ASSUME NULL \notin Items, NEW n \in Links, NEW p \in Items
  PROVE  Reach(n, p) \subseteq {p} \cup Reach(n, n[p])
  <1>1. n[p] \in Items \cup {NULL}
    BY DEF Links
  <1>2. /\ Reach(n, n[p]) \in SUBSET Items /\ Closed(n, Reach(n, n[p]))
        /\ n[p] \in Reach(n, n[p]) \cup {NULL}
    BY <1>1, ReachIs
  <1>3. /\ {p} \cup Reach(n, n[p]) \in SUBSET Items
        /\ Closed(n, {p} \cup Reach(n, n[p]))
    BY <1>2 DEF Closed
  <1> QED BY <1>3, ReachLeast

(* x is put in front of the list that begins with f. *)
LEMMA Linked ==
  ASSUME NULL \notin Items,
         NEW n \in Links, NEW f \in Items \cup {NULL}, Linear(n, f),
         NEW x \in Items, x \notin Reach(n, f),
         NEW m \in Links, m[x] = f, \A q \in Items \ {x} : m[q] = n[q]
  PROVE  /\ Reach(m, x) = Reach(n, f) \cup {x} /\ Linear(m, x)
         /\ \A D \in SUBSET Reach(n, f) : \A h \in Items \cup {NULL} :
              D \subseteq Reach(n, h) => D \subseteq Reach(m, h)
         /\ \A D \in SUBSET Reach(n, f) : D \subseteq Reach(m, x)
  <1> DEFINE L == Reach(n, f)
  <1>1. L \in SUBSET Items /\ f \in L \cup {NULL} /\ Closed(n, L)
    BY ReachIs
  <1>2. /\ m \in Links /\ m[x] = f /\ \A q \in Items \ {x} : m[q] = n[q]
    OBVIOUS
  <1>3. /\ L \cup {x} \in SUBSET Items /\ x \in (L \cup {x}) \cup {NULL}
        /\ Closed(m, L \cup {x})
    BY <1>1, <1>2 DEF Closed
  <1>4. ASSUME NEW S \in SUBSET Items, Closed(m, S)
        PROVE  IF x \in S THEN L \subseteq S ELSE Closed(n, S)
    <2>1. CASE x \in S
      <3>1. f \in S \cup {NULL}
        BY <1>2, <1>4, <2>1 DEF Closed
      <3>2. S \cap L \in SUBSET Items /\ Closed(n, S \cap L)
        BY <1>1, <1>2, <1>4 DEF Closed
      <3>3. Reach(n, f) \subseteq S \cap L
        BY <1>1, <3>1, <3>2, ReachLeast
      <3> QED BY <2>1, <3>3
    <2>2. CASE x \notin S
      BY <1>2, <1>4, <2>2 DEF Closed
    <2> QED BY <2>1, <2>2
  <1>5. Reach(m, x) = L \cup {x}
    <2>1. Reach(m, x) \subseteq L \cup {x}
      BY <1>3, ReachLeast
    <2>2. Reach(m, x) \in SUBSET Items /\ x \in Reach(m, x)
          /\ Closed(m, Reach(m, x))
      BY <1>2, ReachIs
    <2> QED BY <2>1, <2>2, <1>4
  <1>6. Linear(m, x)
    <2>1. \A p \in L \cup {x} : m[p] # x
      BY <1>1, <1>2 DEF Closed
    <2>2. ASSUME NEW p \in L \cup {x}, NEW q \in L \cup {x},
                 m[p] = m[q], m[p] # NULL
          PROVE  p = q
      BY <1>1, <1>2, <2>2 DEF Linear
    <2> QED BY <1>5, <2>1, <2>2 DEF Linear
  <1>7. ASSUME NEW D \in SUBSET L, NEW h \in Items \cup {NULL},
               D \subseteq Reach(n, h)
        PROVE  D \subseteq Reach(m, h)
    <2> SUFFICES ASSUME NEW d \in D, NEW S \in SUBSET Items,
                        h \in S \cup {NULL}, Closed(m, S)
                 PROVE  d \in S
      BY <1>1 DEF Reach
    <2>1. CASE x \in S
      BY <2>1, <1>4
    <2>2. CASE x \notin S
      <3>1. Reach(n, h) \subseteq S
        BY <2>2, <1>4, ReachLeast
      <3> QED BY <3>1, <1>7
    <2> QED BY <2>1, <2>2
  <1> QED BY <1>2, <1>5, <1>6, <1>7

(* Everybody on a list but the first comes after another.                  *)
LEMMA Before ==
  ASSUME NULL \notin Items,
         NEW n \in Links, NEW f \in Items \cup {NULL}, Linear(n, f),
         NEW x \in Reach(n, f)
  PROVE  /\ f # x => \E p \in Reach(n, f) \ {x} : n[p] = x
         /\ n[x] # x
  <1> DEFINE L == Reach(n, f)
  <1>1. /\ L \in SUBSET Items /\ f \in L \cup {NULL} /\ Closed(n, L)
        /\ x \in Items
    BY ReachIs
  <1>2. ASSUME f # x
        PROVE  \E p \in L \ {x} : n[p] = x
    <2> SUFFICES ASSUME \A p \in L \ {x} : n[p] # x
                 PROVE  FALSE
      OBVIOUS
    <2>1. L \ {x} \in SUBSET Items /\ f \in (L \ {x}) \cup {NULL}
          /\ Closed(n, L \ {x})
      BY <1>1, <1>2 DEF Closed
    <2> QED BY <2>1, ReachLeast
  <1>3. n[x] # x
    <2>1. CASE f = x
      BY <2>1 DEF Linear
    <2>2. CASE f # x
      BY <1>1, <1>2, <2>2 DEF Linear
    <2> QED BY <2>1, <2>2
  <1> QED BY <1>2, <1>3

(* x leaves the list that begins with f. *)
LEMMA Unlinks ==
  ASSUME NULL \notin Items,
         NEW n \in Links, NEW f \in Items \cup {NULL}, Linear(n, f),
         NEW x \in Reach(n, f),
         NEW m \in Links,
         \A q \in Items : m[q] = IF f # x /\ q \in Reach(n, f) /\ n[q] = x
                                 THEN n[x] ELSE n[q],
         NEW g, g = IF f = x THEN n[x] ELSE f
  PROVE  /\ n[x] # x /\ g \in Items \cup {NULL}
         /\ Reach(m, g) = Reach(n, f) \ {x} /\ Linear(m, g)
         /\ \A D \in SUBSET (Reach(n, f) \ {x}) : \A h \in Items \cup {NULL} :
              D \subseteq Reach(n, h) => D \subseteq Reach(m, h)
         /\ \A D \in SUBSET (Reach(n, f) \ {x}) : D \subseteq Reach(m, g)
  <1> DEFINE L == Reach(n, f)
  <1>1. /\ L \in SUBSET Items /\ f \in L \cup {NULL} /\ Closed(n, L)
        /\ x \in Items
    BY ReachIs
  <1>2. f # x => \E p \in L \ {x} : n[p] = x
    BY Before
  <1>3. n[x] # x
    BY Before
  <1>4. /\ m \in Links /\ m[x] = n[x]
        /\ \A q \in Items : m[q] = IF f # x /\ q \in L /\ n[q] = x
                                   THEN n[x] ELSE n[q]
    BY <1>1, <1>3
  <1>5. g \in (L \ {x}) \cup {NULL}
    BY <1>1, <1>3 DEF Closed
  <1>6. Closed(m, L \ {x})
    <2>1. CASE f = x
      BY <2>1, <1>1, <1>4 DEF Closed, Linear
    <2>2. CASE f # x
      BY <2>2, <1>1, <1>3, <1>4 DEF Closed
    <2> QED BY <2>1, <2>2
  <1>7. ASSUME NEW D \in SUBSET (L \ {x}), NEW h \in Items \cup {NULL},
               D \subseteq Reach(n, h)
        PROVE  /\ D \subseteq Reach(m, h)
               /\ h = x => D \subseteq Reach(m, n[x])
    <2>1. ASSUME NEW d \in D, NEW S \in SUBSET Items, Closed(m, S),
                 h \in S \cup {NULL} \/ (h = x /\ n[x] \in S \cup {NULL})
          PROVE  d \in S
      <3>1. CASE n[x] \in S \cup {NULL}
        <4>1. /\ S \cup {x} \in SUBSET Items /\ Closed(n, S \cup {x})
              /\ h \in (S \cup {x}) \cup {NULL}
          BY <3>1, <2>1, <1>1, <1>4 DEF Closed
        <4> QED BY <4>1, <1>7, ReachLeast
      <3>2. CASE n[x] \notin S \cup {NULL}
        <4>1. x \notin S
          BY <3>2, <2>1, <1>4 DEF Closed
        <4>2. Closed(n, S) /\ h \in S \cup {NULL}
          BY <3>2, <4>1, <2>1, <1>1, <1>4 DEF Closed
        <4> QED BY <4>2, <1>7, ReachLeast
      <3> QED BY <3>1, <3>2
    <2>2. D \subseteq Items
      BY <1>1
    <2>3. ASSUME NEW d \in D PROVE d \in Reach(m, h)
      <3>1. \A S \in SUBSET Items :
              h \in S \cup {NULL} /\ Closed(m, S) => d \in S
        BY <2>1
      <3> QED BY <2>2, <3>1 DEF Reach
    <2>4. ASSUME h = x, NEW d \in D PROVE d \in Reach(m, n[x])
      <3>1. \A S \in SUBSET Items :
              n[x] \in S \cup {NULL} /\ Closed(m, S) => d \in S
        BY <2>1, <2>4
      <3> QED BY <2>2, <3>1 DEF Reach
    <2> QED BY <2>3, <2>4
  <1>8. \A D \in SUBSET (L \ {x}) : D \subseteq Reach(m, g)
    BY <1>7
  <1>9. Reach(m, g) = L \ {x}
    <2>1. Reach(m, g) \subseteq L \ {x}
      BY <1>1, <1>5, <1>6, ReachLeast
    <2>2. L \ {x} \in SUBSET (L \ {x})
      OBVIOUS
    <2> QED BY <2>1, <2>2, <1>8
  <1>10. Linear(m, g)
    <2>1. ASSUME NEW p \in L \ {x} PROVE m[p] # g
      <3>1. CASE f = x
        <4>1. n[x] # NULL
          BY <3>1, <1>9, ReachNothing
        <4> QED BY <3>1, <4>1, <1>1, <1>4 DEF Linear
      <3>2. CASE f # x
        BY <3>2, <1>1, <1>4 DEF Linear
      <3> QED BY <3>1, <3>2
    <2>2. ASSUME NEW p \in L \ {x}, NEW q \in L \ {x},
                 m[p] = m[q], m[p] # NULL
          PROVE  p = q
      BY <1>1, <1>4, <2>2 DEF Linear
    <2> QED BY <1>9, <2>1, <2>2 DEF Linear
  <1> QED BY <1>1, <1>3, <1>5, <1>7, <1>8, <1>9, <1>10

(* Links that agree on a list make the same list. *)
LEMMA SameLinks ==
  ASSUME NULL \notin Items, NEW n \in Links,
         NEW f \in Items \cup {NULL}, NEW m \in Links,
         \A q \in Reach(n, f) : m[q] = n[q]
  PROVE  Reach(m, f) = Reach(n, f)
  <1>1. /\ Reach(n, f) \in SUBSET Items /\ f \in Reach(n, f) \cup {NULL}
        /\ Closed(n, Reach(n, f))
    BY ReachIs
  <1>2. Closed(m, Reach(n, f))
    BY <1>1 DEF Closed
  <1>3. Reach(m, f) \subseteq Reach(n, f)
    BY <1>1, <1>2, ReachLeast
  <1>4. /\ Reach(m, f) \in SUBSET Items /\ f \in Reach(m, f) \cup {NULL}
        /\ Closed(m, Reach(m, f))
    BY ReachIs
  <1>5. Closed(n, Reach(m, f))
    BY <1>3, <1>4 DEF Closed
  <1>6. Reach(n, f) \subseteq Reach(m, f)
    BY <1>4, <1>5, ReachLeast
  <1> QED BY <1>3, <1>6

(* x leaves the list that begins with f, wherever its own link leads then.  *)
LEMMA CutOut ==
  ASSUME NULL \notin Items,
         NEW n \in Links, NEW f \in Items \cup {NULL}, Linear(n, f),
         NEW x \in Reach(n, f), NEW m \in Links,
         \A q \in Reach(n, f) \ {x} :
           m[q] = IF n[q] = x THEN n[x] ELSE n[q],
         NEW g, g = IF f = x THEN n[x] ELSE f
  PROVE  /\ g \in Items \cup {NULL} /\ Reach(m, g) = Reach(n, f) \ {x}
         /\ Linear(m, g)
         /\ Ends(n, f) => Ends(m, g)
  <1> DEFINE L == Reach(n, f)
             k == [q \in Items |-> IF f # x /\ q \in L /\ n[q] = x
                                   THEN n[x] ELSE n[q]]
  <1>1. /\ L \in SUBSET Items /\ f \in L \cup {NULL} /\ Closed(n, L)
        /\ x \in Items /\ n[x] \in Items \cup {NULL}
    BY ReachIs DEF Links
  <1>2. /\ k \in Links
        /\ \A q \in Items : k[q] = IF f # x /\ q \in L /\ n[q] = x
                                   THEN n[x] ELSE n[q]
    BY <1>1 DEF Links
  <1> HIDE DEF k
  <1>3. /\ n[x] # x /\ g \in Items \cup {NULL}
        /\ Reach(k, g) = L \ {x} /\ Linear(k, g)
    BY <1>2, Unlinks
  <1>4. \A q \in L \ {x} : m[q] = k[q]
    <2>1. CASE f = x
      BY <2>1, <1>1, <1>2 DEF Linear
    <2>2. CASE f # x
      BY <2>2, <1>1, <1>2
    <2> QED BY <2>1, <2>2
  <1>5. Reach(m, g) = L \ {x}
    BY <1>2, <1>3, <1>4, SameLinks
  <1>6. Linear(m, g)
    BY <1>3, <1>4, <1>5 DEF Linear
  <1>7. ASSUME Ends(n, f), g # NULL
        PROVE  \E p \in L \ {x} : \A q \in L \ {x} : m[q] = NULL <=> q = p
    <2>1. f # NULL
      BY <1>1, <1>7, <1>3
    <2>2. PICK p \in L : \A q \in L : n[q] = NULL <=> q = p
      BY <1>7, <2>1 DEF Ends
    <2>3. CASE p # x
      BY <2>2, <2>3, <1>1
    <2>4. CASE p = x
      <3>1. f # x /\ n[x] = NULL
        BY <2>2, <2>4, <1>7
      <3>2. \E u \in L \ {x} : n[u] = x
        BY <3>1, Before
      <3>3. PICK u \in L \ {x} : n[u] = x
        BY <3>2
      <3>4. \A q \in L \ {x} : n[q] = x => q = u
        BY <3>3, <1>1 DEF Linear
      <3>5. \A q \in L \ {x} : m[q] = NULL <=> q = u
        BY <2>2, <2>4, <3>1, <3>3, <3>4, <1>1
      <3> QED BY <3>5
    <2> QED BY <2>3, <2>4
  <1> QED BY <1>3, <1>5, <1>6, <1>7 DEF Ends

(* x is put at the end of the list that begins with f. *)
LEMMA Appends ==
  ASSUME NULL \notin Items,
         NEW n \in Links, NEW f \in Items \cup {NULL}, Linear(n, f),
         Ends(n, f), NEW x \in Items, x \notin Reach(n, f),
         NEW m \in Links, m[x] = NULL,
         \A q \in Reach(n, f) : m[q] = IF n[q] = NULL THEN x ELSE n[q],
         NEW g, g = IF f = NULL THEN x ELSE f
  PROVE  Reach(m, g) = Reach(n, f) \cup {x} /\ Linear(m, g) /\ Ends(m, g)
  <1> DEFINE L == Reach(n, f)
  <1>1. /\ L \in SUBSET Items /\ f \in L \cup {NULL} /\ Closed(n, L)
    BY ReachIs
  <1>2. /\ L \cup {x} \in SUBSET Items /\ g \in (L \cup {x}) \cup {NULL}
        /\ Closed(m, L \cup {x}) /\ g \in Items \cup {NULL} /\ g # NULL
    BY <1>1 DEF Closed
  <1>3. Reach(m, g) \subseteq L \cup {x}
    BY <1>2, ReachLeast
  <1>4. /\ Reach(m, g) \in SUBSET Items /\ g \in Reach(m, g)
        /\ Closed(m, Reach(m, g))
    BY <1>2, ReachIs
  <1>5. L \subseteq Reach(m, g)
    <2>1. /\ Reach(m, g) \cap L \in SUBSET Items
          /\ f \in (Reach(m, g) \cap L) \cup {NULL}
          /\ Closed(n, Reach(m, g) \cap L)
      BY <1>1, <1>4 DEF Closed
    <2> QED BY <2>1, ReachLeast
  <1>6. x \in Reach(m, g)
    <2>1. CASE f = NULL
      BY <2>1, <1>4
    <2>2. CASE f # NULL
      <3>1. PICK p \in L : n[p] = NULL
        BY <2>2 DEF Ends
      <3>2. m[p] = x
        BY <3>1
      <3> QED BY <3>1, <3>2, <1>4, <1>5 DEF Closed
    <2> QED BY <2>1, <2>2
  <1>7. Reach(m, g) = L \cup {x}
    BY <1>3, <1>5, <1>6
  <1>8. CASE f = NULL
    <2>1. L = {} /\ g = x
      BY <1>8, ReachNothing
    <2> QED BY <2>1, <1>2, <1>7 DEF Linear, Ends
  <1>9. CASE f # NULL
    <2>1. PICK p \in L : \A q \in L : n[q] = NULL <=> q = p
      BY <1>9 DEF Ends
    <2>2. /\ g = f /\ f \in L /\ x # f /\ m[p] = x
          /\ \A q \in L \ {p} : m[q] = n[q] /\ n[q] \in L
      BY <1>1, <1>9, <2>1 DEF Closed
    <2>3. \A q \in L \cup {x} : m[q] # g
      BY <1>1, <2>1, <2>2 DEF Linear
    <2>4. ASSUME NEW q \in L \cup {x}, NEW r \in L \cup {x},
                 m[q] = m[r], m[q] # NULL
          PROVE  q = r
      BY <1>1, <2>1, <2>2, <2>4 DEF Linear
    <2>5. \A q \in L \cup {x} : m[q] = NULL <=> q = x
      BY <1>1, <2>1, <2>2
    <2>6. Linear(m, g)
      BY <1>7, <2>3, <2>4 DEF Linear
    <2>7. Ends(m, g)
      BY <1>7, <2>5 DEF Ends
    <2> QED BY <1>7, <2>6, <2>7
  <1> QED BY <1>8, <1>9

=============================================================================
