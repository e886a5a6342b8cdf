----------------------------- MODULE ListsProofs -----------------------------
(***************************************************************************)
(* Proofs about Lists, for every set of heads and entries.                 *)
(*                                                                         *)
(* The sequences of Lists are found by a walk along the pointers.  The     *)
(* proofs keep a placement instead: every node of a list has an owner, the *)
(* head, and a position, one more than that of the node before it.  An     *)
(* operation changes it locally, and what the walk meets follows from it.  *)
(***************************************************************************)
EXTENDS Lists, FiniteSetTheorems, WellFoundedInduction, TLAPS

(* U: the heads in use, P: they and the entries on their lists.            *)
Shape(U, P, own, pos) ==
  /\ U \subseteq Heads /\ U \subseteq P /\ P \subseteq U \cup Entries
  /\ own \in [P -> U] /\ pos \in [P -> Nat]
  /\ \A h \in U : own[h] = h /\ pos[h] = 0
  /\ \A x \in P \ U : pos[x] # 0
  /\ \A x, y \in P : own[x] = own[y] /\ pos[x] = pos[y] => x = y

(* The pointers are inverse to each other and do not leave P.              *)
Linked(m, P) ==
  \A x \in P :
    /\ m[x].next \in P /\ m[m[x].next].prev = x
    /\ m[x].prev \in P /\ m[m[x].prev].next = x

(* They go round each list in the order of the positions.                  *)
InOrder(m, U, P, own, pos) ==
  \A x \in P :
    /\ own[m[x].next] = own[x]
    /\ m[x].next \notin U => pos[m[x].next] = pos[x] + 1
    /\ pos[x] <= pos[m[own[x]].prev]

Placement(m, U, P, own, pos) ==
  Shape(U, P, own, pos) /\ Linked(m, P) /\ InOrder(m, U, P, own, pos)

(* Some placement; and one that leaves the nodes of S to their owners.     *)
Placed(m, U, P) == \E own, pos : Placement(m, U, P, own, pos)

SomePlaced(m, U) == \E P : Placed(m, U, P)

PlacedAs(m, U, P, own, S) ==
  \E own2, pos2 : Placement(m, U, P, own2, pos2) /\ \A x \in S : own2[x] = own[x]

-----------------------------------------------------------------------------
(* What an operation makes of the pointers of the nodes of P.              *)
SameOn(m, m2, P) ==
  \A y \in P : m2[y].next = m[y].next /\ m2[y].prev = m[y].prev

(* e comes after q.                                                        *)
Inserted(m, m2, P, q, e) ==
  \A y \in P \cup {e} :
    /\ m2[y].next = IF y = q THEN e ELSE IF y = e THEN m[q].next ELSE m[y].next
    /\ m2[y].prev = IF y = m[q].next THEN e ELSE IF y = e THEN q ELSE m[y].prev

(* The neighbours of e are joined.                                         *)
Unlinked(m, m2, P, e) ==
  \A y \in P \ {e} :
    /\ m2[y].next = IF y = m[e].prev THEN m[e].next ELSE m[y].next
    /\ m2[y].prev = IF y = m[e].next THEN m[e].prev ELSE m[y].prev

(* new stands where old stood.                                             *)
Replaced(m, m2, P, old, new) ==
  /\ \A y \in P \ {old} :
       /\ m2[y].next = IF y = m[old].prev THEN new ELSE m[y].next
       /\ m2[y].prev = IF y = m[old].next THEN new ELSE m[y].prev
  /\ m2[new].next = IF m[old].next = old THEN new ELSE m[old].next
  /\ m2[new].prev = IF m[old].prev = old THEN new ELSE m[old].prev

(* What follows h up to k follows l.                                       *)
CutAt(m, m2, P, l, h, k) ==
  \A y \in P \cup {l} :
    /\ m2[y].next = IF y = l THEN m[h].next ELSE IF y = k THEN l
                    ELSE IF y = h THEN m[k].next ELSE m[y].next
    /\ m2[y].prev = IF y = l THEN k ELSE IF y = m[h].next THEN l
                    ELSE IF y = m[k].next THEN h ELSE m[y].prev

(* What follows l follows q.                                               *)
Spliced(m, m2, P, l, q) ==
  \A y \in P \ {l} :
    /\ m2[y].next = IF y = q THEN m[l].next
                    ELSE IF y = m[l].prev THEN m[q].next ELSE m[y].next
    /\ m2[y].prev = IF y = m[l].next THEN q
                    ELSE IF y = m[q].next THEN m[l].prev ELSE m[y].prev

-----------------------------------------------------------------------------
(* What a placement says of neighbours.                                    *)
LEMMA Neighbours ==
  ASSUME ListHeadAssumption, NEW m, NEW U, NEW P, NEW own, NEW pos,
         Placement(m, U, P, own, pos), NEW x \in P
  PROVE  /\ own[m[x].prev] = own[x]
         /\ x \notin U => pos[x] = pos[m[x].prev] + 1
         /\ m[x].next \in U => m[x].next = own[x]
         /\ own[x] \in U /\ pos[x] \in Nat
         /\ m[x].next = x <=> m[x].prev = x
         /\ m[x].next = x => x \in U
  BY DEF Placement, Shape, Linked, InOrder

(* Nodes outside the lists may change.                                     *)
LEMMA FramePlacement ==
  ASSUME NEW m, NEW m2, NEW U, NEW P, NEW own, NEW pos,
         Placement(m, U, P, own, pos),
         SameOn(m, m2, P)
  PROVE  Placement(m2, U, P, own, pos)
<1> USE DEF SameOn
<1>1. Shape(U, P, own, pos) /\ Linked(m, P) /\ InOrder(m, U, P, own, pos)
  BY DEF Placement
<1>2. Linked(m2, P)
  BY <1>1 DEF Linked
<1>3. InOrder(m2, U, P, own, pos)
  BY <1>1 DEF InOrder, Shape
<1> QED
  BY <1>1, <1>2, <1>3 DEF Placement

(* __list_add: e comes after q.                                            *)
LEMMA InsertPlacement ==
  ASSUME ListHeadAssumption, NEW m, NEW m2, NEW U, NEW P, NEW own, NEW pos,
         Placement(m, U, P, own, pos),
         NEW q \in P, NEW e \in Entries \ P, Inserted(m, m2, P, q, e)
  PROVE  PlacedAs(m2, U, P \cup {e}, own, P)
<1> USE DEF Inserted
<1> DEFINE P2 == P \cup {e}
           r == m[q].next
           own2 == [x \in P2 |-> IF x = e THEN own[q] ELSE own[x]]
           pos2 == [x \in P2 |-> IF x = e THEN pos[q] + 1
                                 ELSE IF own[x] = own[q] /\ pos[x] > pos[q]
                                 THEN pos[x] + 1 ELSE pos[x]]
<1>1. Shape(U, P, own, pos) /\ Linked(m, P) /\ InOrder(m, U, P, own, pos)
  BY DEF Placement
<1>2. e \notin U /\ r \in P
  BY <1>1 DEF Shape, Linked, ListHeadAssumption
<1>3. Shape(U, P2, own2, pos2)
  <2>1. U \subseteq Heads /\ U \subseteq P2 /\ P2 \subseteq U \cup Entries
    BY <1>1 DEF Shape
  <2>2. own2 \in [P2 -> U] /\ pos2 \in [P2 -> Nat]
    BY <1>1 DEF Shape
  <2>3. \A h \in U : own2[h] = h /\ pos2[h] = 0
    BY <1>1, <1>2 DEF Shape
  <2>4. \A x \in P2 \ U : pos2[x] # 0
    BY <1>1, <1>2 DEF Shape
  <2>5. ASSUME NEW x \in P2, NEW y \in P2, own2[x] = own2[y], pos2[x] = pos2[y]
        PROVE  x = y
    <3>1. \A z \in P : pos[z] \in Nat
      BY <1>1 DEF Shape
    <3>2. \A v, w \in P : own[v] = own[w] /\ pos[v] = pos[w] => v = w
      BY <1>1 DEF Shape
    <3>3. CASE x = e
      BY <2>5, <3>1, <3>3
    <3>4. CASE y = e
      BY <2>5, <3>1, <3>4
    <3>5. CASE x # e /\ y # e
      <4>1. own[x] = own[y] /\ x \in P /\ y \in P
        BY <2>5, <3>5
      <4>2. pos[x] = pos[y]
        BY <2>5, <3>1, <3>5, <4>1
      <4> QED
        BY <3>2, <4>1, <4>2
    <3> QED
      BY <3>3, <3>4, <3>5
  <2> HIDE DEF own2, pos2, P2
  <2> QED
    BY <2>1, <2>2, <2>3, <2>4, <2>5 DEF Shape
<1>4. Linked(m2, P2)
  BY <1>1, <1>2 DEF Linked
<1>5. InOrder(m2, U, P2, own2, pos2)
  <2> SUFFICES ASSUME NEW x \in P2
               PROVE  /\ own2[m2[x].next] = own2[x]
                      /\ m2[x].next \notin U => pos2[m2[x].next] = pos2[x] + 1
                      /\ pos2[x] <= pos2[m2[own2[x]].prev]
    BY DEF InOrder
  <2>1. own2[m2[x].next] = own2[x]
    BY <1>1, <1>2 DEF Shape, Linked, InOrder
  <2>2. ASSUME m2[x].next \notin U PROVE pos2[m2[x].next] = pos2[x] + 1
    BY <1>1, <1>2, <2>2 DEF Shape, Linked, InOrder
  <2>3. pos2[x] <= pos2[m2[own2[x]].prev]
    BY <1>1, <1>2 DEF Shape, Linked, InOrder
  <2> QED
    BY <2>1, <2>2, <2>3
<1> QED
  <2>1. \A x \in P : own2[x] = own[x]
    OBVIOUS
  <2> HIDE DEF own2, pos2
  <2> QED
    BY <1>3, <1>4, <1>5, <2>1 DEF Placement, PlacedAs

(* __list_del: e leaves its list.                                          *)
LEMMA UnlinkPlacement ==
  ASSUME ListHeadAssumption, NEW m, NEW m2, NEW U, NEW P, NEW own, NEW pos,
         Placement(m, U, P, own, pos), NEW e \in P \ U,
         Unlinked(m, m2, P, e)
  PROVE  PlacedAs(m2, U, P \ {e}, own, P \ {e})
<1> USE DEF Unlinked
<1> DEFINE P2 == P \ {e}
           own2 == [x \in P2 |-> own[x]]
           pos2 == [x \in P2 |-> IF own[x] = own[e] /\ pos[x] > pos[e]
                                 THEN pos[x] - 1 ELSE pos[x]]
<1>1. Shape(U, P, own, pos) /\ Linked(m, P) /\ InOrder(m, U, P, own, pos)
  BY DEF Placement
<1>2. e \notin U /\ m[e].next \in P2 /\ m[e].prev \in P2 /\ pos[e] # 0
  BY <1>1, Neighbours DEF Shape, Linked
<1>3. Shape(U, P2, own2, pos2)
  <2>1. U \subseteq Heads /\ U \subseteq P2 /\ P2 \subseteq U \cup Entries
    BY <1>1, <1>2 DEF Shape
  <2>2. own2 \in [P2 -> U] /\ pos2 \in [P2 -> Nat]
    BY <1>1 DEF Shape
  <2>3. \A h \in U : own2[h] = h /\ pos2[h] = 0
    BY <1>1, <1>2 DEF Shape
  <2>4. \A x \in P2 \ U : pos2[x] # 0
    BY <1>1, <1>2 DEF Shape
  <2>5. ASSUME NEW x \in P2, NEW y \in P2, own2[x] = own2[y], pos2[x] = pos2[y]
        PROVE  x = y
    <3>1. \A z \in P : pos[z] \in Nat
      BY <1>1 DEF Shape
    <3>2. \A v, w \in P : own[v] = own[w] /\ pos[v] = pos[w] => v = w
      BY <1>1 DEF Shape
    <3>3. own[x] = own[y] /\ x \in P /\ y \in P
      BY <2>5
    <3>4. own[x] = own[e] => pos[x] # pos[e]
      BY <3>2
    <3>5. own[y] = own[e] => pos[y] # pos[e]
      BY <3>2
    <3>6. pos[x] = pos[y]
      BY <2>5, <3>1, <3>3, <3>4, <3>5
    <3> QED
      BY <3>2, <3>3, <3>6
  <2> HIDE DEF own2, pos2, P2
  <2> QED
    BY <2>1, <2>2, <2>3, <2>4, <2>5 DEF Shape
<1>4. Linked(m2, P2)
  BY <1>1, <1>2 DEF Linked
<1>5. InOrder(m2, U, P2, own2, pos2)
  <2> SUFFICES ASSUME NEW x \in P2
               PROVE  /\ own2[m2[x].next] = own2[x]
                      /\ m2[x].next \notin U => pos2[m2[x].next] = pos2[x] + 1
                      /\ pos2[x] <= pos2[m2[own2[x]].prev]
    BY DEF InOrder
  <2>1. own2[m2[x].next] = own2[x]
    BY <1>1, <1>2 DEF Shape, Linked, InOrder
  <2>2. ASSUME m2[x].next \notin U PROVE pos2[m2[x].next] = pos2[x] + 1
    <3>1. x \in P /\ x # e /\ own2[x] = own[x]
      OBVIOUS
    <3>2. pos[x] \in Nat /\ pos[e] \in Nat /\ pos[e] = pos[m[e].prev] + 1
          /\ pos[m[e].prev] \in Nat
      BY <1>1, <1>2, <3>1, Neighbours DEF Shape
    <3>3. CASE x = m[e].prev
      <4>1. m2[x].next = m[e].next /\ m[e].next \in P2
        BY <1>2, <3>3
      <4>2. pos[m[e].next] = pos[e] + 1 /\ own[m[e].next] = own[e] /\ own[x] = own[e]
        BY <1>1, <2>2, <3>3, <4>1, Neighbours DEF InOrder
      <4> QED
        BY <3>1, <3>2, <3>3, <4>1, <4>2
    <3>4. CASE x # m[e].prev
      <4>1. m2[x].next = m[x].next /\ m[x].next \in P2
        BY <1>1, <3>1, <3>4 DEF Linked
      <4>2. pos[m[x].next] = pos[x] + 1 /\ own[m[x].next] = own[x]
        BY <1>1, <2>2, <3>1, <4>1 DEF InOrder
      <4>3. own[x] = own[e] => pos[x] # pos[e] /\ pos[m[x].next] # pos[e]
        BY <1>1, <3>1, <4>1, <4>2 DEF Shape
      <4> QED
        BY <3>1, <3>2, <4>1, <4>2, <4>3
    <3> QED
      BY <3>3, <3>4
  <2>3. pos2[x] <= pos2[m2[own2[x]].prev]
    BY <1>1, <1>2, Neighbours DEF Shape, Linked, InOrder
  <2> QED
    BY <2>1, <2>2, <2>3
<1> QED
  <2>1. \A x \in P2 : own2[x] = own[x]
    OBVIOUS
  <2> HIDE DEF own2, pos2
  <2> QED
    BY <1>3, <1>4, <1>5, <2>1 DEF Placement, PlacedAs
(* list_replace: new takes the place of old.                               *)
LEMMA ReplacePlacement ==
  ASSUME ListHeadAssumption, NEW m, NEW m2, NEW U, NEW P, NEW own, NEW pos,
         Placement(m, U, P, own, pos), NEW old \in P, NEW new \in Node \ P,
         old \in U <=> new \in Heads,
         Replaced(m, m2, P, old, new)
  PROVE  Placed(m2, IF old \in U THEN (U \ {old}) \cup {new} ELSE U,
                (P \ {old}) \cup {new})
<1> USE DEF Replaced
<1> DEFINE P2 == (P \ {old}) \cup {new}
           U2 == IF old \in U THEN (U \ {old}) \cup {new} ELSE U
           was(x) == IF x = new THEN old ELSE x
           is(x) == IF x = old THEN new ELSE x
           own2 == [x \in P2 |-> is(own[was(x)])]
           pos2 == [x \in P2 |-> pos[was(x)]]
<1>1. Shape(U, P, own, pos) /\ Linked(m, P) /\ InOrder(m, U, P, own, pos)
  BY DEF Placement
<1>2. \A x \in P2 : was(x) \in P /\ is(was(x)) = x
  OBVIOUS
<1>3. \A x \in P : is(x) \in P2 /\ was(is(x)) = x
  OBVIOUS
<1>4. \A x \in P : is(x) \in U2 <=> x \in U
  BY <1>1 DEF Shape
<1>5. \A x \in P2 : m2[x].next = is(m[was(x)].next) /\ m2[x].prev = is(m[was(x)].prev)
  BY <1>1 DEF Linked
<1>6. \A x \in P2 : own2[x] = is(own[was(x)]) /\ pos2[x] = pos[was(x)]
  OBVIOUS
<1>7. U2 \subseteq Heads /\ P2 \subseteq U2 \cup Entries
  BY <1>1 DEF Shape, Node, ListHeadAssumption
<1>8. U2 \subseteq P2
  BY <1>1 DEF Shape
<1>9. DOMAIN own2 = P2 /\ DOMAIN pos2 = P2
  OBVIOUS
<1>10. own2 \in [P2 -> U2] /\ pos2 \in [P2 -> Nat]
  BY <1>1, <1>2, <1>4, <1>6, <1>8 DEF Shape
<1> HIDE DEF was, is, own2, pos2, U2, P2
<1>11. Shape(U2, P2, own2, pos2)
  <2>1. \A h \in U2 : own2[h] = h /\ pos2[h] = 0
    BY <1>1, <1>2, <1>4, <1>6, <1>8 DEF Shape
  <2>2. \A x \in P2 \ U2 : pos2[x] # 0
    BY <1>1, <1>2, <1>4, <1>6 DEF Shape
  <2>3. \A x, y \in P2 : own2[x] = own2[y] /\ pos2[x] = pos2[y] => x = y
    BY <1>1, <1>2, <1>3, <1>6, <1>8 DEF Shape
  <2> QED
    BY <1>7, <1>8, <1>10, <2>1, <2>2, <2>3 DEF Shape
<1>12. Linked(m2, P2)
  BY <1>1, <1>2, <1>3, <1>5 DEF Linked
<1>13. InOrder(m2, U2, P2, own2, pos2)
  BY <1>1, <1>2, <1>3, <1>4, <1>5, <1>6, <1>8 DEF InOrder, Linked, Shape
<1> QED
  <2>1. Placement(m2, U2, P2, own2, pos2)
    BY <1>11, <1>12, <1>13 DEF Placement
  <2> QED
    BY <2>1 DEF Placed, U2, P2

(* INIT_LIST_HEAD: a new list of no entries.                               *)
LEMMA AddHeadPlacement ==
  ASSUME ListHeadAssumption, NEW m, NEW m2, NEW U, NEW P, NEW own, NEW pos,
         Placement(m, U, P, own, pos), NEW h \in Heads \ P,
         SameOn(m, m2, P),
         m2[h].next = h, m2[h].prev = h
  PROVE  Placed(m2, U \cup {h}, P \cup {h})
<1> USE DEF SameOn
<1> DEFINE P2 == P \cup {h}
           U2 == U \cup {h}
           own2 == [x \in P2 |-> IF x = h THEN h ELSE own[x]]
           pos2 == [x \in P2 |-> IF x = h THEN 0 ELSE pos[x]]
<1>1. Shape(U, P, own, pos) /\ Linked(m, P) /\ InOrder(m, U, P, own, pos)
  BY DEF Placement
<1>2. Shape(U2, P2, own2, pos2)
  <2>1. U2 \subseteq Heads /\ U2 \subseteq P2 /\ P2 \subseteq U2 \cup Entries
    BY <1>1 DEF Shape
  <2>2. own2 \in [P2 -> U2] /\ pos2 \in [P2 -> Nat]
    BY <1>1 DEF Shape
  <2>3. \A g \in U2 : own2[g] = g /\ pos2[g] = 0
    BY <1>1 DEF Shape
  <2>4. \A x \in P2 \ U2 : pos2[x] # 0
    BY <1>1 DEF Shape
  <2>5. \A x, y \in P2 : own2[x] = own2[y] /\ pos2[x] = pos2[y] => x = y
    BY <1>1 DEF Shape
  <2> HIDE DEF own2, pos2, U2, P2
  <2> QED
    BY <2>1, <2>2, <2>3, <2>4, <2>5 DEF Shape
<1>3. Linked(m2, P2)
  BY <1>1 DEF Linked
<1>4. InOrder(m2, U2, P2, own2, pos2)
  BY <1>1 DEF InOrder, Linked, Shape
<1> HIDE DEF own2, pos2
<1> QED
  BY <1>2, <1>3, <1>4 DEF Placement, Placed

(* The nodes that are not on the list of h.                                *)
Apart(P, own, h) == {x \in P : own[x] # h}

(* A head is taken out of use, and its entries with it.                    *)
LEMMA DropListPlacement ==
  ASSUME ListHeadAssumption, NEW m, NEW U, NEW P, NEW own, NEW pos,
         Placement(m, U, P, own, pos), NEW h \in U
  PROVE  \E own2, pos2 :
           /\ Placement(m, U \ {h}, Apart(P, own, h), own2, pos2)
           /\ \A x \in P : own[x] # h => own2[x] = own[x] /\ pos2[x] = pos[x]
<1> DEFINE P2 == {x \in P : own[x] # h}
           U2 == U \ {h}
           own2 == [x \in P2 |-> own[x]]
           pos2 == [x \in P2 |-> pos[x]]
<1>1. Shape(U, P, own, pos) /\ Linked(m, P) /\ InOrder(m, U, P, own, pos)
  BY DEF Placement
<1>2. Shape(U2, P2, own2, pos2)
  <2>1. U2 \subseteq Heads /\ U2 \subseteq P2 /\ P2 \subseteq U2 \cup Entries
    BY <1>1 DEF Shape
  <2>2. own2 \in [P2 -> U2] /\ pos2 \in [P2 -> Nat]
    BY <1>1 DEF Shape
  <2>3. \A g \in U2 : own2[g] = g /\ pos2[g] = 0
    BY <1>1 DEF Shape
  <2>4. \A x \in P2 \ U2 : pos2[x] # 0
    BY <1>1 DEF Shape
  <2>5. \A x, y \in P2 : own2[x] = own2[y] /\ pos2[x] = pos2[y] => x = y
    BY <1>1 DEF Shape
  <2> HIDE DEF own2, pos2, U2, P2
  <2> QED
    BY <2>1, <2>2, <2>3, <2>4, <2>5 DEF Shape
<1>3. Linked(m, P2)
  BY <1>1, Neighbours DEF Linked, InOrder
<1>4. InOrder(m, U2, P2, own2, pos2)
  <2> SUFFICES ASSUME NEW x \in P2
               PROVE  /\ own2[m[x].next] = own2[x]
                      /\ m[x].next \notin U2 => pos2[m[x].next] = pos2[x] + 1
                      /\ pos2[x] <= pos2[m[own2[x]].prev]
    BY DEF InOrder
  <2>1. own[x] \in P2 /\ m[x].next \in P2
    BY <1>1, <1>3 DEF Shape, Linked
  <2>2. m[own[x]].prev \in P2
    BY <1>3, <2>1 DEF Linked
  <2>3. own[m[x].next] = own[x] /\ pos[x] <= pos[m[own[x]].prev]
    BY <1>1 DEF InOrder
  <2>4. m[x].next \notin U2 => pos[m[x].next] = pos[x] + 1
    BY <1>1, <2>1 DEF InOrder, Shape
  <2> QED
    BY <2>1, <2>2, <2>3, <2>4
<1>5. \A x \in P : own[x] # h => own2[x] = own[x] /\ pos2[x] = pos[x]
  OBVIOUS
<1> HIDE DEF own2, pos2
<1>6. Placement(m, U2, P2, own2, pos2)
  BY <1>2, <1>3, <1>4 DEF Placement
<1>7. P2 = Apart(P, own, h)
  BY DEF Apart
<1> HIDE DEF P2
<1> QED
  BY <1>5, <1>6, <1>7

(* __list_cut_position: the entries of h up to k go to the new list l.     *)
LEMMA CutPlacement ==
  ASSUME ListHeadAssumption, NEW m, NEW m2, NEW U, NEW P, NEW own, NEW pos,
         Placement(m, U, P, own, pos), NEW h \in U, NEW l \in Heads \ P,
         NEW k \in P, own[k] = h, k # h,
         CutAt(m, m2, P, l, h, k)
  PROVE  Placed(m2, U \cup {l}, P \cup {l})
<1> USE DEF CutAt
<1> DEFINE P2 == P \cup {l}
           U2 == U \cup {l}
           cut(x) == own[x] = h /\ x # h /\ pos[x] <= pos[k]
           rest(x) == own[x] = h /\ pos[x] > pos[k]
           own2 == [x \in P2 |-> IF x = l \/ cut(x) THEN l ELSE own[x]]
           pos2 == [x \in P2 |-> IF x = l THEN 0
                                 ELSE IF rest(x) THEN pos[x] - pos[k] ELSE pos[x]]
<1>1. Shape(U, P, own, pos) /\ Linked(m, P) /\ InOrder(m, U, P, own, pos)
  BY DEF Placement
<1>2. /\ \A x \in P : pos[x] \in Nat /\ own[x] \in U /\ own[x] \in P
      /\ pos[h] = 0 /\ own[h] = h /\ pos[k] # 0 /\ l \notin U /\ k \notin U
      /\ h \in P
  BY <1>1 DEF Shape
<1>3. Shape(U2, P2, own2, pos2)
  <2>1. U2 \subseteq Heads /\ U2 \subseteq P2 /\ P2 \subseteq U2 \cup Entries
    BY <1>1 DEF Shape
  <2>2. own2 \in [P2 -> U2] /\ pos2 \in [P2 -> Nat]
    <3>1. \A x \in P2 : (IF x = l \/ cut(x) THEN l ELSE own[x]) \in U2
      BY <1>2
    <3>2. \A x \in P2 : (IF x = l THEN 0
                         ELSE IF rest(x) THEN pos[x] - pos[k] ELSE pos[x]) \in Nat
      BY <1>2
    <3> QED
      BY <3>1, <3>2
  <2>3. \A g \in U2 : own2[g] = g /\ pos2[g] = 0
    BY <1>1, <1>2 DEF Shape
  <2>4. \A x \in P2 \ U2 : pos2[x] # 0
    BY <1>1, <1>2 DEF Shape
  <2>5. ASSUME NEW x \in P2, NEW y \in P2, own2[x] = own2[y], pos2[x] = pos2[y]
        PROVE  x = y
    <3>1. \A v, w \in P : own[v] = own[w] /\ pos[v] = pos[w] => v = w
      BY <1>1 DEF Shape
    <3>2. CASE own2[x] = l
      <4>1. (x = l \/ cut(x)) /\ (y = l \/ cut(y))
        BY <1>2, <2>5, <3>2
      <4>2. x \in P \ U => pos[x] # 0
        BY <1>1 DEF Shape
      <4>3. y \in P \ U => pos[y] # 0
        BY <1>1 DEF Shape
      <4>4. cut(x) => x \notin U
        BY <1>1 DEF Shape
      <4>5. cut(y) => y \notin U
        BY <1>1 DEF Shape
      <4> QED
        BY <1>2, <2>5, <3>1, <4>1, <4>2, <4>3, <4>4, <4>5
    <3>3. CASE own2[x] # l
      <4>1. /\ x \in P /\ y \in P /\ ~cut(x) /\ ~cut(y)
            /\ own[x] = own[y]
        BY <2>5, <3>3
      <4>2. pos[x] = pos[y]
        <5>1. CASE own[x] = h
          <6>1. ~rest(x) => x = h
            BY <1>2, <4>1, <5>1
          <6>2. ~rest(y) => y = h
            BY <1>2, <4>1, <5>1
          <6> QED
            BY <1>2, <2>5, <4>1, <6>1, <6>2
        <5>2. CASE own[x] # h
          BY <2>5, <4>1, <5>2
        <5> QED
          BY <5>1, <5>2
      <4> QED
        BY <3>1, <4>1, <4>2
    <3> QED
      BY <3>2, <3>3
  <2> HIDE DEF own2, pos2, U2, P2
  <2> QED
    BY <2>1, <2>2, <2>3, <2>4, <2>5 DEF Shape
<1>4. m[h].next \in P /\ m[k].next \in P /\ m[h].next # m[k].next /\ m[h].next # h
  <2>1. m[h].next \in P /\ m[k].next \in P /\ m[h].next # m[k].next
    BY <1>2, <1>1 DEF Linked
  <2>2. pos[k] <= pos[m[h].prev]
    BY <1>1 DEF InOrder
  <2>3. m[h].next = h => m[h].prev = h
    BY <1>1, <1>2 DEF Linked
  <2> QED
    BY <1>2, <2>1, <2>2, <2>3
<1>5. Linked(m2, P2)
  <2> SUFFICES ASSUME NEW x \in P2
               PROVE  /\ m2[x].next \in P2 /\ m2[m2[x].next].prev = x
                      /\ m2[x].prev \in P2 /\ m2[m2[x].prev].next = x
    BY DEF Linked
  <2>1. x # l => /\ m[x].next \in P /\ m[m[x].next].prev = x
                 /\ m[x].prev \in P /\ m[m[x].prev].next = x
    BY <1>1 DEF Linked
  <2>2. m[m[h].next].prev = h /\ m[m[k].next].prev = k
    BY <1>1, <1>2 DEF Linked
  <2> QED
    BY <1>2, <1>4, <2>1, <2>2
<1>6. pos[m[h].next] = 1 /\ own[m[h].next] = h
  BY <1>1, <1>2, <1>4, Neighbours DEF InOrder
<1>7. own[m[k].next] = h /\ (m[k].next \notin U => pos[m[k].next] = pos[k] + 1)
      /\ (m[k].next \in U => m[k].next = h)
  BY <1>1, <1>2, Neighbours DEF InOrder
<1>8. InOrder(m2, U2, P2, own2, pos2)
  <2> SUFFICES ASSUME NEW x \in P2
               PROVE  /\ own2[m2[x].next] = own2[x]
                      /\ m2[x].next \notin U2 => pos2[m2[x].next] = pos2[x] + 1
                      /\ pos2[x] <= pos2[m2[own2[x]].prev]
    BY DEF InOrder
  <2>1. CASE x = l
    BY <1>2, <1>4, <1>6, <2>1
  <2>2. CASE x = k
    BY <1>2, <1>4, <1>6, <2>2
  <2>3. CASE x = h
    <3>1. own2[h] = h /\ pos2[h] = 0 /\ m2[h].next = m[k].next
      BY <1>2, <2>3
    <3>2. own2[m[k].next] = h
      BY <1>2, <1>4, <1>7
    <3>3. m[k].next \notin U2 => pos2[m[k].next] = 1
      BY <1>2, <1>4, <1>7
    <3>4. m2[h].prev \in P2
      BY <1>2, <1>5 DEF Linked
    <3>5. pos2[m2[h].prev] \in Nat
      BY <1>2, <3>4
    <3> QED
      BY <2>3, <3>1, <3>2, <3>3, <3>5
  <2>4. CASE x \notin {l, k, h}
    <3> DEFINE y == m[x].next
    <3>1. m2[x].next = y /\ y \in P /\ x \in P /\ m[y].prev = x
      BY <1>1, <2>4 DEF Linked
    <3>2. own[y] = own[x] /\ (y \notin U => pos[y] = pos[x] + 1)
          /\ (y \in U => y = own[x])
          /\ pos[x] <= pos[m[own[x]].prev]
      BY <1>1, <3>1, Neighbours DEF InOrder
    <3>3. own[x] = h => pos[x] # pos[k] /\ pos[x] # 0
      BY <1>1, <1>2, <2>4, <3>1 DEF Shape
    <3>4. pos[x] \in Nat /\ pos[y] \in Nat /\ pos[k] \in Nat
      BY <1>2, <3>1
    <3>5. pos[k] <= pos[m[h].prev]
      BY <1>1 DEF InOrder
    <3>6. own[x] = h /\ y = h => pos[x] > pos[k]
      BY <3>1, <3>3, <3>4, <3>5
    <3>7. own2[y] = own2[x]
      <4>1. CASE own[x] # h
        BY <1>2, <2>4, <3>1, <3>2, <4>1
      <4>2. CASE own[x] = h /\ y = h
        BY <1>2, <2>4, <3>1, <3>6, <3>4, <4>2
      <4>3. CASE own[x] = h /\ y # h
        <5>1. y \notin U /\ pos[y] = pos[x] + 1
          BY <3>2, <4>3
        <5> QED
          BY <1>2, <2>4, <3>1, <3>2, <3>3, <3>4, <4>3, <5>1
      <4> QED
        BY <4>1, <4>2, <4>3
    <3>8. ASSUME y \notin U2 PROVE pos2[y] = pos2[x] + 1
      BY <1>2, <2>4, <3>1, <3>2, <3>3, <3>4, <3>8
    <3>9. pos2[x] <= pos2[m2[own2[x]].prev]
      <4>1. CASE own[x] # h
        <5> DEFINE g == own[x]
        <5>1. own2[x] = g /\ pos2[x] = pos[x] /\ g \in P /\ own[g] = g
          BY <1>1, <1>2, <2>4, <3>1, <4>1 DEF Shape
        <5>2. m[g].prev \in P /\ own[m[g].prev] = g
          BY <1>1, <5>1, Neighbours DEF Linked
        <5>3. m2[g].prev = m[g].prev
          BY <1>2, <1>6, <1>7, <4>1, <5>1
        <5>4. pos2[m[g].prev] = pos[m[g].prev]
          BY <1>2, <4>1, <5>2
        <5> QED
          BY <3>2, <5>1, <5>3, <5>4
      <4>2. CASE own[x] = h /\ pos[x] <= pos[k]
        <5>1. own2[x] = l /\ pos2[x] = pos[x]
          BY <1>2, <2>4, <3>1, <3>4, <4>2
        <5>2. m2[l].prev = k /\ pos2[k] = pos[k]
          BY <1>2
        <5> QED
          BY <4>2, <5>1, <5>2
      <4>3. CASE own[x] = h /\ ~(pos[x] <= pos[k])
        <5>1. own2[x] = h /\ pos2[x] = pos[x] - pos[k]
          BY <1>2, <2>4, <3>1, <3>4, <4>3
        <5> DEFINE z == m[h].prev
        <5>2. z \in P /\ own[z] = h /\ pos[z] \in Nat /\ m[z].next = h
          BY <1>1, <1>2, Neighbours DEF Linked
        <5>3. pos[x] <= pos[z]
          BY <3>2, <4>3
        <5>4. m[k].next # h
          <6>1. m[k].next = h => k = z
            BY <1>1 DEF Linked
          <6> QED
            BY <3>4, <4>3, <5>3, <6>1
        <5>5. m2[h].prev = z
          BY <1>2, <1>4, <5>4
        <5>6. pos2[z] = pos[z] - pos[k]
          BY <1>2, <3>4, <4>3, <5>2, <5>3
        <5> HIDE DEF z, own2, pos2
        <5> QED
          BY <3>4, <5>1, <5>2, <5>3, <5>5, <5>6
      <4> QED
        BY <4>1, <4>2, <4>3
    <3> HIDE DEF own2, pos2, U2
    <3> QED
      BY <3>1, <3>7, <3>8, <3>9
  <2> QED
    BY <2>1, <2>2, <2>3, <2>4
<1> HIDE DEF own2, pos2, U2, P2
<1>9. Placement(m2, U2, P2, own2, pos2)
  BY <1>3, <1>5, <1>8 DEF Placement
<1> QED
  BY <1>9 DEF Placed, U2, P2

(* __list_splice: the entries of l go behind q, and l out of use.          *)
LEMMA SplicePlacement ==
  ASSUME ListHeadAssumption, NEW m, NEW m2, NEW U, NEW P, NEW own, NEW pos,
         Placement(m, U, P, own, pos), NEW l \in U, m[l].next # l,
         NEW q \in P, own[q] # l,
         Spliced(m, m2, P, l, q)
  PROVE  Placed(m2, U \ {l}, P \ {l})
<1> USE DEF Spliced
<1> DEFINE P2 == P \ {l}
           U2 == U \ {l}
           n == pos[m[l].prev]
           own2 == [x \in P2 |-> IF own[x] = l THEN own[q] ELSE own[x]]
           pos2 == [x \in P2 |-> IF own[x] = l THEN pos[q] + pos[x]
                                 ELSE IF own[x] = own[q] /\ pos[x] > pos[q]
                                 THEN pos[x] + n ELSE pos[x]]
<1>1. Shape(U, P, own, pos) /\ Linked(m, P) /\ InOrder(m, U, P, own, pos)
  BY DEF Placement
<1>2. /\ \A x \in P : pos[x] \in Nat /\ own[x] \in U /\ own[x] \in P
      /\ pos[l] = 0 /\ own[l] = l /\ l \in P
      /\ \A x \in P : own[x] = l => pos[x] <= n
      /\ \A x \in P2 : own[x] = l => pos[x] # 0 /\ x \notin U
  BY <1>1 DEF Shape, InOrder
<1>3. /\ m[l].next \in P2 /\ m[l].prev \in P2 /\ m[q].next \in P2
      /\ own[m[l].next] = l /\ own[m[l].prev] = l /\ own[m[q].next] = own[q]
      /\ pos[m[l].next] = 1 /\ q \in P2
  <2>1. /\ m[l].next \in P /\ m[l].prev \in P /\ m[q].next \in P
        /\ m[m[l].prev].next = l /\ m[m[l].next].prev = l
    BY <1>1, <1>2 DEF Linked
  <2>2. own[m[l].next] = l /\ own[m[l].prev] = l /\ own[m[q].next] = own[q]
    BY <1>1, <1>2, Neighbours DEF InOrder
  <2>3. m[l].next \notin U
    BY <1>2, <2>2, Neighbours
  <2>4. pos[m[l].next] = pos[l] + 1
    BY <1>1, <1>2, <2>3 DEF InOrder
  <2> QED
    BY <1>2, <2>1, <2>2, <2>4
<1>4. Shape(U2, P2, own2, pos2)
  <2>1. U2 \subseteq Heads /\ U2 \subseteq P2 /\ P2 \subseteq U2 \cup Entries
    BY <1>1 DEF Shape
  <2>2. own2 \in [P2 -> U2] /\ pos2 \in [P2 -> Nat]
    BY <1>2, <1>3
  <2>3. \A g \in U2 : own2[g] = g /\ pos2[g] = 0
    BY <1>1, <1>2 DEF Shape
  <2>4. \A x \in P2 \ U2 : pos2[x] # 0
    BY <1>1, <1>2, <1>3 DEF Shape
  <2>5. ASSUME NEW x \in P2, NEW y \in P2, own2[x] = own2[y], pos2[x] = pos2[y]
        PROVE  x = y
    <3>1. \A v, w \in P : own[v] = own[w] /\ pos[v] = pos[w] => v = w
      BY <1>1 DEF Shape
    <3>2. pos[x] \in Nat /\ pos[y] \in Nat /\ pos[q] \in Nat /\ n \in Nat
      BY <1>2, <1>3
    <3>3. CASE own[x] = l /\ own[y] = l
      BY <2>5, <3>1, <3>2, <3>3
    <3>4. CASE own[x] = l /\ own[y] # l
      BY <1>2, <2>5, <3>2, <3>4
    <3>5. CASE own[x] # l /\ own[y] = l
      BY <1>2, <2>5, <3>2, <3>5
    <3>6. CASE own[x] # l /\ own[y] # l
      <4>1. own[x] = own[y]
        BY <2>5, <3>6
      <4>2. pos[x] = pos[y]
        BY <2>5, <3>2, <3>6, <4>1
      <4> QED
        BY <3>1, <4>1, <4>2
    <3> QED
      BY <3>3, <3>4, <3>5, <3>6
  <2> HIDE DEF own2, pos2, U2, P2
  <2> QED
    BY <2>1, <2>2, <2>3, <2>4, <2>5 DEF Shape
<1>5. Linked(m2, P2)
  <2> SUFFICES ASSUME NEW x \in P2
               PROVE  /\ m2[x].next \in P2 /\ m2[m2[x].next].prev = x
                      /\ m2[x].prev \in P2 /\ m2[m2[x].prev].next = x
    BY DEF Linked
  <2>1. /\ m[x].next \in P /\ m[m[x].next].prev = x
        /\ m[x].prev \in P /\ m[m[x].prev].next = x
    BY <1>1 DEF Linked
  <2>2. /\ m[m[l].next].prev = l /\ m[m[q].next].prev = q
        /\ m[m[l].prev].next = l
    BY <1>1, <1>2, <1>3 DEF Linked
  <2> QED
    BY <1>2, <1>3, <2>1, <2>2
<1>6. InOrder(m2, U2, P2, own2, pos2)
  <2> SUFFICES ASSUME NEW x \in P2
               PROVE  /\ own2[m2[x].next] = own2[x]
                      /\ m2[x].next \notin U2 => pos2[m2[x].next] = pos2[x] + 1
                      /\ pos2[x] <= pos2[m2[own2[x]].prev]
    BY DEF InOrder
  <2>1. /\ own[m[x].next] = own[x] /\ m[x].next \in P
        /\ (m[x].next \notin U => pos[m[x].next] = pos[x] + 1)
        /\ (m[x].next \in U => m[x].next = own[x])
    BY <1>1, Neighbours DEF InOrder, Linked
  <2>2. /\ m[q].next \notin U => pos[m[q].next] = pos[q] + 1
        /\ m[q].next \in U => m[q].next = own[q]
        /\ m[m[q].next].prev = q /\ m[m[l].prev].next = l
    BY <1>1, <1>2, <1>3, Neighbours DEF InOrder, Linked
  <2>3. m2[x].next \in P2 /\ own2[m2[x].next] = own2[x]
    <3>1. CASE x = q
      BY <1>2, <1>3, <3>1
    <3>2. CASE x = m[l].prev
      <4>1. m2[x].next = m[q].next
        BY <1>3, <3>2
      <4> QED
        BY <1>2, <1>3, <3>2, <4>1
    <3>3. CASE x # q /\ x # m[l].prev
      <4>1. m2[x].next = m[x].next /\ m[x].next # l
        BY <1>1, <3>3 DEF Linked
      <4>2. m[x].next \in P2 /\ own[m[x].next] = own[x]
        BY <2>1, <4>1
      <4> QED
        BY <4>1, <4>2
    <3> QED
      BY <3>1, <3>2, <3>3
  <2>4. ASSUME m2[x].next \notin U2 PROVE pos2[m2[x].next] = pos2[x] + 1
    <3>1. CASE x = q
      BY <1>2, <1>3, <3>1
    <3>2. CASE x = m[l].prev
      BY <1>2, <1>3, <2>2, <2>4, <3>2
    <3>3. CASE x # q /\ x # m[l].prev
      <4>1. m2[x].next = m[x].next /\ m[x].next \notin U
        BY <1>1, <2>2, <2>3, <2>4, <3>3 DEF Linked
      <4>2. own[x] = own[q] => pos[x] # pos[q]
        BY <1>1, <3>3 DEF Shape
      <4> QED
        BY <1>2, <1>3, <2>1, <2>3, <4>1, <4>2
    <3> QED
      BY <3>1, <3>2, <3>3
  <2>5. pos2[x] <= pos2[m2[own2[x]].prev]
    <3>1. own2[x] \in P2 /\ own2[x] \in U /\ own[own2[x]] = own2[x] /\ own2[x] # l
      BY <1>1, <1>2, <1>3 DEF Shape
    <3> DEFINE g == own2[x]
    <3> HIDE DEF g
    <3>2. /\ m[g].prev \in P /\ own[m[g].prev] = g /\ m[g].prev # l
          /\ \A y \in P : own[y] = g => pos[y] <= pos[m[g].prev]
      <4>1. g \in P /\ g \in U /\ own[g] = g /\ g # l
        BY <3>1 DEF g
      <4>2. m[g].prev \in P /\ own[m[g].prev] = g
        BY <1>1, <4>1, Neighbours DEF Linked
      <4> QED
        BY <1>1, <1>2, <4>1, <4>2 DEF InOrder
    <3>3. /\ g \in P2 /\ g \in U /\ own[g] = g /\ g # l /\ own2[x] = g
          /\ g # m[l].next /\ x \in P /\ pos[x] \in Nat /\ n \in Nat
          /\ pos[q] \in Nat /\ own[q] \in P /\ g \in P
      BY <1>2, <1>3, <3>1 DEF g
    <3>4. CASE g = own[q] /\ m[q].next = g
      <4>1. m2[g].prev = m[l].prev
        BY <3>3, <3>4
      <4>2. m[g].prev = q
        BY <2>2, <3>4
      <4>3. pos2[m[l].prev] = pos[q] + n
        BY <1>3
      <4>4. own[x] = own[q] => pos[x] <= pos[q]
        BY <3>2, <3>3, <3>4, <4>2
      <4>5. own[x] = l \/ own[x] = own[q]
        BY <3>3, <3>4
      <4>6. own[x] = l => pos[x] <= n
        BY <1>2, <3>3
      <4>7. pos2[x] = IF own[x] = l THEN pos[q] + pos[x] ELSE pos[x]
        BY <3>3, <4>4
      <4> HIDE DEF pos2, own2, n
      <4>8. pos2[x] <= pos[q] + n
        BY <3>3, <4>4, <4>5, <4>6, <4>7
      <4> QED
        BY <3>3, <4>1, <4>3, <4>8
    <3>5. CASE g = own[q] /\ m[q].next # g
      <4> DEFINE z == m[g].prev
      <4>1. m2[g].prev = z
        BY <3>3, <3>5
      <4>2. pos[m[q].next] = pos[q] + 1
        BY <2>2, <3>5
      <4>3. pos[m[q].next] <= pos[z]
        BY <1>3, <3>2, <3>5
      <4>4. z \in P2 /\ own[z] = own[q] /\ pos[z] \in Nat /\ own[z] # l
        BY <1>2, <3>2, <3>3, <3>5
      <4>5. pos2[z] = pos[z] + n
        BY <3>3, <4>2, <4>3, <4>4
      <4>6. own[x] = own[q] => pos[x] <= pos[z]
        BY <3>2, <3>3, <3>5
      <4>7. own[x] = l => pos[x] <= n
        BY <1>2, <3>3
      <4>8. own[x] = l \/ own[x] = own[q]
        BY <3>3, <3>5
      <4>9. \/ own[x] = l /\ pos2[x] = pos[q] + pos[x]
            \/ own[x] = own[q] /\ (pos2[x] = pos[x] + n \/ pos2[x] = pos[x])
        BY <4>8
      <4> HIDE DEF pos2, own2, n, z
      <4>10. pos2[x] <= pos[z] + n
        BY <3>3, <4>2, <4>3, <4>4, <4>6, <4>7, <4>9
      <4> QED
        BY <3>3, <4>1, <4>5, <4>10
    <3>6. CASE g # own[q]
      <4> DEFINE z == m[g].prev
      <4>1. z \in P2 /\ own[z] = g /\ own[x] = g
        BY <3>2, <3>3, <3>6
      <4>2. m2[g].prev = z
        BY <1>3, <3>3, <3>6
      <4>3. pos2[z] = pos[z] /\ pos2[x] = pos[x]
        BY <3>3, <3>6, <4>1
      <4>4. pos[x] <= pos[z]
        BY <3>2, <3>3, <4>1
      <4> HIDE DEF pos2, own2, z
      <4> QED
        BY <3>3, <4>2, <4>3, <4>4
    <3> QED
      BY <3>4, <3>5, <3>6
  <2> QED
    BY <2>3, <2>4, <2>5
<1> HIDE DEF own2, pos2, U2, P2
<1>7. Placement(m2, U2, P2, own2, pos2)
  BY <1>4, <1>5, <1>6 DEF Placement
<1> QED
  BY <1>7 DEF Placed, U2, P2

-----------------------------------------------------------------------------
(* What the stores of each operation leave in a node.                      *)
LEMMA InitStores ==
  ASSUME NEW m \in Memory, NEW l \in Node
  PROVE  /\ INIT_LIST_HEAD(m, l) \in Memory
         /\ \A y \in Node :
              /\ INIT_LIST_HEAD(m, l)[y].next = IF y = l THEN l ELSE m[y].next
              /\ INIT_LIST_HEAD(m, l)[y].prev = IF y = l THEN l ELSE m[y].prev
  BY DEF Memory, INIT_LIST_HEAD, Ptr

(* __list_add.                                                             *)
LEMMA AddStores ==
  ASSUME NEW m \in Memory, NEW new \in Node, NEW q \in Node, m[q].next \in Node,
         new # q, new # m[q].next,
         NEW after, after = __list_add(m, new, q, m[q].next)
  PROVE  after \in Memory /\ Inserted(m, after, Node, q, new)
<1> DEFINE next == m[q].next
           m1 == [m EXCEPT ![next].prev = new, ![new].next = next]
<1>1. /\ m1 \in Memory
      /\ \A y \in Node :
           /\ m1[y].next = IF y = new THEN next ELSE m[y].next
           /\ m1[y].prev = IF y = next THEN new ELSE m[y].prev
  BY DEF Memory, Ptr
<1>2. after = [m1 EXCEPT ![new].prev = q, ![q].next = new]
  BY DEF __list_add
<1>3. next \in Node /\ new # next /\ next = m[q].next
  OBVIOUS
<1> HIDE DEF m1, next
<1>4. after \in Memory
  BY <1>1, <1>2 DEF Memory, Ptr
<1>5. \A y \in Node : /\ after[y].next = IF y = q THEN new ELSE m1[y].next
                      /\ after[y].prev = IF y = new THEN q ELSE m1[y].prev
  BY <1>1, <1>2 DEF Memory
<1> QED
  BY <1>1, <1>3, <1>4, <1>5 DEF Inserted

(* __list_del_entry.                                                       *)
LEMMA UnlinkStores ==
  ASSUME NEW m \in Memory, NEW e \in Node, m[e].next \in Node, m[e].prev \in Node,
         NEW after, after = __list_del_entry(m, e)
  PROVE  after \in Memory /\ Unlinked(m, after, Node, e)
  BY DEF Memory, __list_del_entry, __list_del, Ptr, Unlinked

(* list_del.                                                               *)
LEMMA DeleteStores ==
  ASSUME NEW m \in Memory, NEW e \in Node, m[e].next \in Node, m[e].prev \in Node,
         NEW after, after = list_del(m, e)
  PROVE  after \in Memory /\ Unlinked(m, after, Node, e)
<1> DEFINE m1 == __list_del_entry(m, e)
<1>1. m1 \in Memory /\ Unlinked(m, m1, Node, e)
  BY UnlinkStores
<1>2. after = [m1 EXCEPT ![e].next = LIST_POISON1, ![e].prev = LIST_POISON2]
  BY DEF list_del
<1> HIDE DEF m1
<1>3. after \in Memory
  <2>1. LIST_POISON1 \in Ptr /\ LIST_POISON2 \in Ptr
    BY DEF Ptr
  <2> DEFINE m2 == [m1 EXCEPT ![e].next = LIST_POISON1]
  <2>2. m2 \in Memory
    BY <1>1, <2>1 DEF Memory
  <2>3. after = [m2 EXCEPT ![e].prev = LIST_POISON2]
    BY <1>1, <1>2 DEF Memory
  <2> HIDE DEF m2
  <2> QED
    BY <2>1, <2>2, <2>3 DEF Memory
<1>4. \A y \in Node \ {e} : after[y] = m1[y]
  BY <1>1, <1>2 DEF Memory
<1> QED
  BY <1>1, <1>3, <1>4 DEF Unlinked

(* list_replace, of a node that is the only one of its ring or is not.     *)
LEMMA ReplaceStores ==
  ASSUME NEW m \in Memory, NEW old \in Node, NEW new \in Node, old # new,
         m[old].next \in Node, m[old].prev \in Node,
         m[old].next = old <=> m[old].prev = old,
         m[old].next # new, m[old].prev # new,
         NEW after, after = list_replace(m, old, new)
  PROVE  after \in Memory /\ Replaced(m, after, Node \ {new}, old, new)
<1> DEFINE m1 == [m  EXCEPT ![new].next = m[old].next]
           m2 == [m1 EXCEPT ![m1[new].next].prev = new]
           m3 == [m2 EXCEPT ![new].prev = m2[old].prev]
           m4 == [m3 EXCEPT ![m3[new].prev].next = new]
<1>1. m1 \in Memory /\ m1[new].next = m[old].next /\ m1[new].prev = m[new].prev
      /\ \A y \in Node \ {new} : m1[y] = m[y]
  BY DEF Memory, Ptr
<1>2. m2 = [m1 EXCEPT ![m[old].next].prev = new]
  BY <1>1
<1> HIDE DEF m1
<1>3. /\ m2 \in Memory
      /\ \A y \in Node : /\ m2[y].next = m1[y].next
                         /\ m2[y].prev = IF y = m[old].next THEN new ELSE m1[y].prev
  BY <1>1, <1>2 DEF Memory, Ptr
<1>4. m2[old].prev = IF m[old].prev = old THEN new ELSE m[old].prev
  BY <1>1, <1>3
<1> HIDE DEF m2
<1>5. /\ m3 \in Memory /\ m3[new].prev = m2[old].prev
      /\ \A y \in Node : m3[y].next = m2[y].next
      /\ \A y \in Node \ {new} : m3[y].prev = m2[y].prev
  BY <1>3, <1>4 DEF Memory, Ptr
<1> HIDE DEF m3
<1>6. m3[new].prev \in Node
  BY <1>4, <1>5
<1>7. /\ m4 \in Memory
      /\ \A y \in Node : /\ m4[y].prev = m3[y].prev
                         /\ m4[y].next = IF y = m3[new].prev THEN new ELSE m3[y].next
  BY <1>5, <1>6 DEF Memory, Ptr
<1>8. after = m4
  BY DEF list_replace, m1, m2, m3
<1> HIDE DEF m4
<1> QED
  BY <1>1, <1>3, <1>4, <1>5, <1>6, <1>7, <1>8 DEF Replaced

(* __list_cut_position.                                                    *)
LEMMA CutStores ==
  ASSUME NEW m \in Memory, NEW l \in Node, NEW h \in Node, NEW k \in Node,
         m[h].next \in Node, m[k].next \in Node, m[h].next # m[k].next,
         l \notin {h, k, m[h].next, m[k].next}, h # k,
         NEW after, after = __list_cut_position(m, l, h, k)
  PROVE  after \in Memory /\ CutAt(m, after, Node, l, h, k)
<1> DEFINE m1 == [m EXCEPT ![l].next = m[h].next, ![m[h].next].prev = l,
                           ![l].prev = k]
           m2 == [m1 EXCEPT ![k].next = l, ![h].next = m[k].next]
<1>1. /\ m1 \in Memory
      /\ \A y \in Node :
           /\ m1[y].next = IF y = l THEN m[h].next ELSE m[y].next
           /\ m1[y].prev = IF y = l THEN k
                           ELSE IF y = m[h].next THEN l ELSE m[y].prev
  BY DEF Memory, Ptr
<1>2. after = [m2 EXCEPT ![m[k].next].prev = h]
  BY DEF __list_cut_position
<1>3. l \in Ptr /\ h \in Ptr /\ m[k].next \in Ptr
  BY DEF Ptr
<1> HIDE DEF m1
<1>4. /\ m2 \in Memory
      /\ \A y \in Node :
           /\ m2[y].next = IF y = h THEN m[k].next ELSE IF y = k THEN l ELSE m1[y].next
           /\ m2[y].prev = m1[y].prev
  BY <1>1, <1>3 DEF Memory
<1> HIDE DEF m2
<1>5. after \in Memory
  BY <1>2, <1>3, <1>4 DEF Memory
<1>6. \A y \in Node :
        /\ after[y].next = m2[y].next
        /\ after[y].prev = IF y = m[k].next THEN h ELSE m2[y].prev
  BY <1>2, <1>4 DEF Memory
<1> QED
  BY <1>1, <1>4, <1>5, <1>6 DEF CutAt

(* __list_splice.                                                          *)
LEMMA SpliceStores ==
  ASSUME NEW m \in Memory, NEW l \in Node, NEW q \in Node, m[q].next \in Node,
         m[l].next \in Node, m[l].prev \in Node,
         q # m[l].prev, m[q].next # m[l].next,
         NEW after, after = __list_splice(m, l, q, m[q].next)
  PROVE  after \in Memory /\ Spliced(m, after, Node, l, q)
<1> DEFINE m1 == [m EXCEPT ![m[l].next].prev = q, ![q].next = m[l].next]
<1>1. /\ m1 \in Memory
      /\ \A y \in Node :
           /\ m1[y].next = IF y = q THEN m[l].next ELSE m[y].next
           /\ m1[y].prev = IF y = m[l].next THEN q ELSE m[y].prev
  BY DEF Memory, Ptr
<1>2. after = [m1 EXCEPT ![m[l].prev].next = m[q].next, ![m[q].next].prev = m[l].prev]
  BY DEF __list_splice
<1>3. m[l].prev \in Ptr /\ m[q].next \in Ptr
  BY DEF Ptr
<1> HIDE DEF m1
<1>4. after \in Memory
  <2> DEFINE m2 == [m1 EXCEPT ![m[l].prev].next = m[q].next]
  <2>1. m2 \in Memory
    BY <1>1, <1>3 DEF Memory
  <2>2. after = [m2 EXCEPT ![m[q].next].prev = m[l].prev]
    BY <1>2
  <2> HIDE DEF m2
  <2> QED
    BY <1>3, <2>1, <2>2 DEF Memory
<1>5. \A y \in Node :
        /\ after[y].next = IF y = m[l].prev THEN m[q].next ELSE m1[y].next
        /\ after[y].prev = IF y = m[q].next THEN m[l].prev ELSE m1[y].prev
  BY <1>1, <1>2 DEF Memory
<1> QED
  BY <1>1, <1>4, <1>5 DEF Spliced

-----------------------------------------------------------------------------
(* Induction: a set of numbers that has 0 and the successor of each number *)
(* it has, has them all.                                                   *)
LEMMA NatSet ==
  ASSUME NEW S, 0 \in S, \A n \in Nat : n \in S => n + 1 \in S
  PROVE  Nat \subseteq S
<1> DEFINE R == OpToRel(<, Nat)
<1>1. \A x, y \in Nat : x < y => <<x, y>> \in R
  BY DEF OpToRel
<1>2. IsWellFoundedOn(R, Nat)
  BY NatLessThanWellFounded
<1> HIDE DEF R
<1> DEFINE T == Nat \ S
<1>3. SUFFICES ASSUME T # {} PROVE FALSE
  OBVIOUS
<1>4. PICK m \in T : \A y \in T : ~(<<y, m>> \in R)
  <2> HIDE DEF T
  <2> T \subseteq Nat
    BY DEF T
  <2> QED BY <1>2, <1>3, WFMin
<1>5. m # 0 /\ m - 1 \in Nat /\ m - 1 < m
  OBVIOUS
<1>6. <<m - 1, m>> \in R
  BY <1>1, <1>5
<1> QED
  BY <1>4, <1>5, <1>6

(* The walk unfolded: F holds the entries met in k steps from y on.        *)
WalkOf(dir, n, F) ==
  F = [k \in 0 .. n |->
        [y \in Ptr |-> IF k = 0 \/ y \notin Entries THEN << >>
                      ELSE << y >> \o F[k - 1][Follow(dir, y)]]]

(* The nodes are finitely many.                                            *)
LEMMA NodesFinite ==
  ListHeadAssumption => IsFiniteSet(Node) /\ Cardinality(Node) \in Nat
  BY FS_Union, FS_CardinalityType DEF ListHeadAssumption, Node

(* A function of all walks exists: one of longer walks is built from one   *)
(* of shorter.                                                             *)
LEMMA WalksExist ==
  ASSUME mem \in Memory, NEW dir
  PROVE  \A n \in Nat : \E F : WalkOf(dir, n, F)
<1> DEFINE S == {n \in Nat : \E F : WalkOf(dir, n, F)}
<1>1. \A y \in Entries : Follow(dir, y) \in Ptr
  BY DEF Follow, Memory, Node
<1>2. 0 \in S
  <2> DEFINE F == [k \in 0 .. 0 |-> [y \in Ptr |-> << >>]]
  <2>1. WalkOf(dir, 0, F)
    BY DEF WalkOf
  <2> QED
    BY <2>1
<1>3. ASSUME NEW n \in Nat, n \in S
      PROVE  n + 1 \in S
  <2>1. PICK F : WalkOf(dir, n, F)
    BY <1>3
  <2> DEFINE G == [k \in 0 .. n + 1 |->
                   [y \in Ptr |-> IF k = 0 \/ y \notin Entries THEN << >>
                                 ELSE << y >> \o F[k - 1][Follow(dir, y)]]]
  <2>2. ASSUME NEW k \in 0 .. n
        PROVE  G[k] = F[k]
    <3> DEFINE W == [y \in Ptr |-> IF k = 0 \/ y \notin Entries THEN << >>
                                  ELSE << y >> \o F[k - 1][Follow(dir, y)]]
    <3>1. k \in 0 .. n + 1
      OBVIOUS
    <3>2. G[k] = W
      BY <3>1
    <3>3. F[k] = W
      BY <2>1 DEF WalkOf
    <3> QED
      BY <3>2, <3>3
  <2>3. \A k \in 0 .. n + 1, y \in Entries : k # 0 =>
          G[k - 1][Follow(dir, y)] = F[k - 1][Follow(dir, y)]
    <3> HIDE DEF G
    <3> QED BY <1>1, <2>2
  <2>4. WalkOf(dir, n + 1, G)
    BY <2>3 DEF WalkOf
  <2> QED
    BY <2>4
<1>4. Nat \subseteq S
  <2> HIDE DEF S
  <2> QED BY <1>2, <1>3, NatSet
<1> QED
  BY <1>4

(* Walk is the longest of them.                                            *)
LEMMA WalkIsWalk ==
  ASSUME ListHeadAssumption, mem \in Memory, NEW dir, NEW x
  PROVE  \E F : /\ WalkOf(dir, Cardinality(Node), F)
                /\ Walk(dir, x) = F[Cardinality(Node)][Follow(dir, x)]
<1>1. Walk(dir, x) = (CHOOSE F : WalkOf(dir, Cardinality(Node), F))
                       [Cardinality(Node)][Follow(dir, x)]
  BY DEF Walk, WalkOf
<1>2. \E F : WalkOf(dir, Cardinality(Node), F)
  BY WalksExist, NodesFinite
<1> QED
  BY <1>1, <1>2

-----------------------------------------------------------------------------
(* The position of the last entry of a list, 0 if it has none.             *)
LastPos(m, pos, h) == pos[m[h].prev]

(* Every position up to the last is taken.                                 *)
LEMMA PositionsTaken ==
  ASSUME ListHeadAssumption, NEW m, NEW U, NEW P, NEW own, NEW pos,
         Placement(m, U, P, own, pos), NEW h \in U
  PROVE  /\ LastPos(m, pos, h) \in Nat
         /\ \A i \in 0 .. LastPos(m, pos, h) : \E x \in P : own[x] = h /\ pos[x] = i
<1>1. Shape(U, P, own, pos) /\ Linked(m, P) /\ InOrder(m, U, P, own, pos)
  BY DEF Placement
<1>2. h \in P /\ own[h] = h /\ pos[h] = 0 /\ m[h].prev \in P
  BY <1>1 DEF Shape, Linked
<1>3. LastPos(m, pos, h) \in Nat
  BY <1>1, <1>2 DEF Shape, LastPos
<1> DEFINE S == {i \in Nat : i <= LastPos(m, pos, h) =>
                               \E x \in P : own[x] = h /\ pos[x] = i}
<1>4. 0 \in S
  BY <1>2
<1>5. ASSUME NEW i \in Nat, i \in S
      PROVE  i + 1 \in S
  <2> SUFFICES ASSUME i + 1 <= LastPos(m, pos, h)
               PROVE  \E x \in P : own[x] = h /\ pos[x] = i + 1
    OBVIOUS
  <2>1. PICK x \in P : own[x] = h /\ pos[x] = i
    BY <1>3, <1>5
  <2>2. m[h].prev # x
    BY <1>3, <2>1 DEF LastPos
  <2>3. m[x].next \in P /\ own[m[x].next] = h
    BY <1>1, <2>1 DEF Linked, InOrder
  <2>4. m[x].next \notin U
    <3>1. m[x].next \in U => m[x].next = h
      BY <2>1, Neighbours
    <3>2. m[m[x].next].prev = x
      BY <1>1 DEF Linked
    <3> QED
      BY <2>2, <3>1, <3>2
  <2>5. pos[m[x].next] = i + 1
    BY <1>1, <2>1, <2>4 DEF InOrder
  <2> QED
    BY <2>3, <2>5
<1>6. Nat \subseteq S
  <2> HIDE DEF S
  <2> QED BY <1>4, <1>5, NatSet
<1> QED
  BY <1>3, <1>6

(* No list is longer than there are nodes.                                 *)
LEMMA LastBounded ==
  ASSUME ListHeadAssumption, NEW m, NEW U, NEW P, NEW own, NEW pos,
         Placement(m, U, P, own, pos), NEW h \in U
  PROVE  LastPos(m, pos, h) <= Cardinality(Node)
<1> DEFINE l == LastPos(m, pos, h)
           at(i) == CHOOSE x \in P : own[x] = h /\ pos[x] = i
           f == [i \in 1 .. l |-> at(i)]
<1>1. l \in Nat /\ \A i \in 1 .. l : \E x \in P : own[x] = h /\ pos[x] = i
  BY PositionsTaken
<1>2. P \subseteq Node
  BY DEF Placement, Shape, Node
<1> HIDE DEF l
<1>3. \A i \in 1 .. l : at(i) \in P /\ pos[at(i)] = i
  BY <1>1
<1> HIDE DEF at
<1>4. f \in Injection(1 .. l, Node)
  BY <1>2, <1>3 DEF Injection, IsInjective
<1>5. IsFiniteSet(1 .. l) /\ Cardinality(1 .. l) = l
  BY <1>1, FS_Interval
<1>6. Cardinality(1 .. l) <= Cardinality(Node)
  <2> HIDE DEF f
  <2> QED BY <1>4, NodesFinite, FS_Injection
<1> QED
  BY <1>5, <1>6 DEF l

(* What the walk meets after x: one node for each position after that of   *)
(* x, in order.                                                            *)
Meets(own, pos, P, U, last, x, s) ==
  /\ s \in Seq(Entries) /\ Len(s) = last - pos[x]
  /\ \A i \in 1 .. Len(s) :
       s[i] \in P \ U /\ own[s[i]] = own[x] /\ pos[s[i]] = pos[x] + i

(* A walk long enough meets them all.                                      *)
LEMMA WalkOfMeets ==
  ASSUME ListHeadAssumption, NEW m, NEW U, NEW P, NEW own, NEW pos,
         Placement(m, U, P, own, pos),
         NEW dir, \A y \in P : Follow(dir, y) = m[y].next,
         NEW n \in Nat, NEW F, WalkOf(dir, n, F)
  PROVE  \A k \in 0 .. n : \A x \in P :
           LastPos(m, pos, own[x]) - pos[x] <= k =>
             Meets(own, pos, P, U, LastPos(m, pos, own[x]), x, F[k][m[x].next])
<1> DEFINE last(x) == LastPos(m, pos, own[x])
           Good(k) == \A x \in P : last(x) - pos[x] <= k =>
                        Meets(own, pos, P, U, last(x), x, F[k][m[x].next])
           S == {k \in Nat : k <= n => Good(k)}
<1>1. Shape(U, P, own, pos) /\ Linked(m, P) /\ InOrder(m, U, P, own, pos)
  BY DEF Placement
<1>2. P \subseteq Ptr /\ U \cap Entries = {} /\ P \ U \subseteq Entries
  BY <1>1 DEF Shape, Ptr, Node, ListHeadAssumption
<1>3. ASSUME NEW x \in P
      PROVE  /\ own[x] \in U /\ pos[x] \in Nat /\ last(x) \in Nat
             /\ pos[x] <= last(x)
             /\ m[x].next \in P /\ own[m[x].next] = own[x] /\ last(m[x].next) = last(x)
             /\ m[x].next \in U => last(x) = pos[x]
             /\ m[x].next \notin U => pos[m[x].next] = pos[x] + 1
  <2>1. own[x] \in U /\ pos[x] \in Nat
    BY <1>1 DEF Shape
  <2>2. last(x) \in Nat
    BY <2>1, PositionsTaken
  <2>3. pos[x] <= last(x)
    BY <1>1 DEF InOrder, LastPos
  <2>4. m[x].next \in P /\ own[m[x].next] = own[x] /\ m[m[x].next].prev = x
    BY <1>1 DEF Linked, InOrder
  <2>5. m[x].next \in U => m[x].next = own[x]
    BY Neighbours
  <2>6. m[x].next \notin U => pos[m[x].next] = pos[x] + 1
    BY <1>1 DEF InOrder
  <2> QED
    BY <2>1, <2>2, <2>3, <2>4, <2>5, <2>6 DEF LastPos
<1>4. ASSUME NEW k \in 0 .. n, NEW y \in P
      PROVE  F[k][y] = IF k = 0 \/ y \notin Entries THEN << >>
                       ELSE << y >> \o F[k - 1][m[y].next]
  <2>1. F[k] = [z \in Ptr |-> IF k = 0 \/ z \notin Entries THEN << >>
                              ELSE << z >> \o F[k - 1][Follow(dir, z)]]
    BY DEF WalkOf
  <2>2. y \in Ptr /\ Follow(dir, y) = m[y].next
    BY <1>2
  <2> QED
    BY <2>1, <2>2
<1>5. ASSUME NEW k \in Nat, k <= n, NEW x \in P, last(x) = pos[x]
      PROVE  Meets(own, pos, P, U, last(x), x, F[k][m[x].next])
  <2>1. m[x].next \in U
    BY <1>3, <1>5
  <2>2. k \in 0 .. n /\ m[x].next \in P /\ m[x].next \notin Entries
    BY <1>2, <1>3, <1>5, <2>1
  <2>3. F[k][m[x].next] = << >>
    BY <1>4, <2>2
  <2> QED
    BY <1>3, <1>5, <2>3 DEF Meets
<1>6. 0 \in S
  <2> SUFFICES ASSUME NEW x \in P, last(x) - pos[x] <= 0
               PROVE  Meets(own, pos, P, U, last(x), x, F[0][m[x].next])
    OBVIOUS
  <2>1. last(x) = pos[x]
    BY <1>3
  <2> QED
    BY <1>5, <2>1
<1>7. ASSUME NEW k \in Nat, k \in S
      PROVE  k + 1 \in S
  <2> SUFFICES ASSUME k + 1 <= n, NEW x \in P, last(x) - pos[x] <= k + 1
               PROVE  Meets(own, pos, P, U, last(x), x, F[k + 1][m[x].next])
    OBVIOUS
  <2>1. CASE last(x) = pos[x]
    BY <1>5, <2>1
  <2>2. CASE last(x) # pos[x]
    <3> DEFINE y == m[x].next
               s == F[k][m[y].next]
    <3>1. y \in P /\ y \notin U /\ y \in Entries /\ own[y] = own[x]
          /\ pos[y] = pos[x] + 1 /\ last(y) = last(x)
      BY <1>2, <1>3, <2>2
    <3>2. F[k + 1][y] = << y >> \o s
      <4>1. k + 1 \in 0 .. n /\ k + 1 # 0 /\ (k + 1) - 1 = k
        OBVIOUS
      <4> HIDE DEF y
      <4>2. F[k + 1][y] = IF k + 1 = 0 \/ y \notin Entries THEN << >>
                          ELSE << y >> \o F[(k + 1) - 1][m[y].next]
        BY <1>4, <3>1, <4>1
      <4> QED
        BY <3>1, <4>1, <4>2
    <3>3. Meets(own, pos, P, U, last(y), y, s)
      BY <1>3, <1>7, <3>1
    <3>4. s \in Seq(Entries) /\ Len(s) = last(x) - (pos[x] + 1)
          /\ \A i \in 1 .. Len(s) :
               s[i] \in P \ U /\ own[s[i]] = own[x] /\ pos[s[i]] = pos[x] + 1 + i
      BY <3>1, <3>3 DEF Meets
    <3>5. pos[x] \in Nat /\ last(x) \in Nat
      BY <1>3
    <3> DEFINE t == << y >> \o s
    <3> HIDE DEF s, y, last
    <3>6. /\ t \in Seq(Entries) /\ Len(t) = Len(s) + 1 /\ t[1] = y
          /\ \A i \in 2 .. Len(t) : t[i] = s[i - 1]
      BY <3>1, <3>4
    <3> HIDE DEF t
    <3>7. \A i \in 2 .. Len(t) : i - 1 \in 1 .. Len(s)
      BY <3>4, <3>6
    <3>8. \A i \in 2 .. Len(t) :
            t[i] \in P \ U /\ own[t[i]] = own[x] /\ pos[t[i]] = pos[x] + i
      <4> SUFFICES ASSUME NEW i \in 2 .. Len(t)
                   PROVE  t[i] \in P \ U /\ own[t[i]] = own[x] /\ pos[t[i]] = pos[x] + i
        OBVIOUS
      <4>1. t[i] = s[i - 1] /\ i - 1 \in 1 .. Len(s)
        BY <3>6, <3>7
      <4>2. /\ s[i - 1] \in P \ U /\ own[s[i - 1]] = own[x]
            /\ pos[s[i - 1]] = pos[x] + 1 + (i - 1)
        BY <3>4, <4>1
      <4>3. i \in Nat /\ pos[x] + 1 + (i - 1) = pos[x] + i
        BY <3>5
      <4> HIDE DEF LastPos
      <4> QED
        BY <4>1, <4>2, <4>3
    <3>9. \A i \in 1 .. Len(t) :
            t[i] \in P \ U /\ own[t[i]] = own[x] /\ pos[t[i]] = pos[x] + i
      BY <3>1, <3>6, <3>8
    <3>10. Len(t) = last(x) - pos[x]
      BY <3>4, <3>5, <3>6
    <3>11. Meets(own, pos, P, U, last(x), x, t)
      BY <3>6, <3>9, <3>10 DEF Meets
    <3> QED
      BY <3>2, <3>11 DEF y, t, last
  <2> QED
    BY <2>1, <2>2
<1>8. Nat \subseteq S
  <2> HIDE DEF S
  <2> QED BY <1>6, <1>7, NatSet
<1> QED
  BY <1>8

(* Walk is long enough.                                                    *)
LEMMA WalkMeets ==
  ASSUME ListHeadAssumption, mem \in Memory,
         NEW m, NEW U, NEW P, NEW own, NEW pos, Placement(m, U, P, own, pos),
         NEW dir, \A y \in P : Follow(dir, y) = m[y].next, NEW x \in P
  PROVE  Meets(own, pos, P, U, LastPos(m, pos, own[x]), x, Walk(dir, x))
<1>1. PICK F : /\ WalkOf(dir, Cardinality(Node), F)
               /\ Walk(dir, x) = F[Cardinality(Node)][Follow(dir, x)]
  BY WalkIsWalk
<1>2. own[x] \in U /\ pos[x] \in Nat
  BY DEF Placement, Shape
<1>3. LastPos(m, pos, own[x]) \in Nat /\ LastPos(m, pos, own[x]) <= Cardinality(Node)
  BY <1>2, PositionsTaken, LastBounded
<1>4. Cardinality(Node) \in Nat
  BY NodesFinite
<1>5. LastPos(m, pos, own[x]) - pos[x] <= Cardinality(Node)
  BY <1>2, <1>3, <1>4
<1>6. Cardinality(Node) \in 0 .. Cardinality(Node)
  BY <1>4
<1>7. Meets(own, pos, P, U, LastPos(m, pos, own[x]), x,
            F[Cardinality(Node)][m[x].next])
  BY <1>1, <1>4, <1>5, <1>6, WalkOfMeets
<1> QED
  BY <1>1, <1>7

-----------------------------------------------------------------------------
(* The fields of the three records, when they are in use.                  *)
LEMMA FieldTypes ==
  ASSUME TypeOK
  PROVE  /\ writer # None => /\ writer.on /\ writer.entry \in Entries
                             /\ writer.prev \in Node /\ writer.next \in Node
                             /\ writer.at \in 1 .. 4
         /\ reader # None => /\ reader.on /\ reader.node \in Node /\ reader.next \in Ptr
                             /\ reader.answer \in {"unknown", "empty", "not_empty"}
         /\ loop # None => /\ loop.on /\ loop.head \in Heads
                           /\ loop.dir \in {"next", "prev"}
                           /\ loop.pos \in Node /\ loop.n \in Node
                           /\ loop.removed \in BOOLEAN /\ loop.stale \in BOOLEAN
                           /\ loop.todo \in Seq(Entries)
         /\ writer.on => writer # None
         /\ reader.on => reader # None
         /\ loop.on => loop # None
<1>1. writer \in Writer /\ reader \in Reader /\ loop \in Loop
  BY DEF TypeOK
<1>2. ~None.on
  BY DEF None
<1>3. writer # None => writer \in [on : {TRUE}, entry : Entries, prev : Node,
                                  next : Node, at : 1 .. 4]
  BY <1>1 DEF Writer
<1>4. reader # None => reader \in [on : {TRUE}, node : Node, next : Ptr,
                                  answer : {"unknown", "empty", "not_empty"}]
  BY <1>1 DEF Reader
<1>5. loop # None => loop \in [on : {TRUE}, head : Heads, dir : {"next", "prev"},
                              pos : Node, n : Node, removed : BOOLEAN,
                              stale : BOOLEAN, todo : Seq(Entries)]
  BY <1>1 DEF Loop
<1> QED
  BY <1>2, <1>3, <1>4, <1>5

(* The memory without the one store list_del_init has done of the two that *)
(* take an entry from its list.                                            *)
Settled ==
  IF writer.on /\ writer.at = 2
  THEN [mem EXCEPT ![writer.next].prev = writer.entry] ELSE mem

(* It is mem but for one pointer.                                          *)
LEMMA SettledMemory ==
  ASSUME TypeOK
  PROVE  /\ Settled \in Memory
         /\ \A y \in Node : Settled[y].next = mem[y].next
         /\ writer = None => Settled = mem
<1>1. mem \in Memory /\ writer \in Writer
  BY DEF TypeOK
<1>2. CASE writer.on /\ writer.at = 2
  <2>1. writer.next \in Node /\ writer.entry \in Ptr
    BY <1>2, FieldTypes DEF Ptr, Node
  <2>2. Settled = [mem EXCEPT ![writer.next].prev = writer.entry]
    BY <1>2 DEF Settled
  <2>3. writer # None
    BY <1>2 DEF None
  <2> QED
    BY <1>1, <2>1, <2>2, <2>3 DEF Memory
<1>3. CASE ~(writer.on /\ writer.at = 2)
  BY <1>1, <1>3 DEF Settled
<1> QED
  BY <1>2, <1>3

(* What OnList is, of a list that is placed.                               *)
LEMMA OnListMeets ==
  ASSUME ListHeadAssumption, TypeOK, NEW P, NEW own, NEW pos,
         Placement(Settled, usable, P, own, pos), NEW h \in usable
  PROVE  /\ OnList(h) \in Seq(Entries)
         /\ Len(OnList(h)) = LastPos(Settled, pos, h)
         /\ \A i \in 1 .. Len(OnList(h)) :
              /\ OnList(h)[i] \in P \ usable
              /\ own[OnList(h)[i]] = h /\ pos[OnList(h)[i]] = i
         /\ \A x \in P \ usable : own[x] = h =>
              pos[x] \in 1 .. Len(OnList(h)) /\ OnList(h)[pos[x]] = x
         /\ \A x : x \in ToSet(OnList(h)) <=> x \in P \ usable /\ own[x] = h
<1>1. Shape(usable, P, own, pos) /\ InOrder(Settled, usable, P, own, pos)
  BY DEF Placement
<1>2. h \in P /\ own[h] = h /\ pos[h] = 0 /\ P \subseteq Node
  BY <1>1 DEF Shape, Node
<1>3. mem \in Memory /\ \A y \in P : Follow("next", y) = Settled[y].next
  BY <1>2, SettledMemory DEF Follow, TypeOK
<1>4. Meets(own, pos, P, usable, LastPos(Settled, pos, h), h, OnList(h))
  <2>1. OnList(h) = Walk("next", h)
    BY DEF OnList
  <2> QED
    BY <1>2, <1>3, <2>1, WalkMeets
<1> DEFINE s == OnList(h)
           last == LastPos(Settled, pos, h)
<1>5. last \in Nat
  BY PositionsTaken
<1> HIDE DEF s, last
<1>6. /\ s \in Seq(Entries) /\ Len(s) = last
      /\ \A i \in 1 .. Len(s) : s[i] \in P \ usable /\ own[s[i]] = h /\ pos[s[i]] = i
  BY <1>2, <1>4, <1>5 DEF Meets, s, last
<1>7. ASSUME NEW x \in P \ usable, own[x] = h
      PROVE  pos[x] \in 1 .. Len(s) /\ s[pos[x]] = x
  <2>1. pos[x] \in Nat /\ pos[x] # 0
    BY <1>1 DEF Shape
  <2>2. pos[x] <= last
    BY <1>1, <1>7 DEF InOrder, last, LastPos
  <2>3. pos[x] \in 1 .. Len(s)
    BY <1>5, <1>6, <2>1, <2>2
  <2>4. s[pos[x]] \in P /\ own[s[pos[x]]] = h /\ pos[s[pos[x]]] = pos[x]
    BY <1>6, <2>3
  <2> QED
    BY <1>1, <1>7, <2>3, <2>4 DEF Shape
<1>8. \A x : x \in ToSet(s) <=> x \in P \ usable /\ own[x] = h
  <2>1. ToSet(s) = {s[i] : i \in 1 .. Len(s)}
    BY <1>6 DEF ToSet
  <2> QED
    BY <1>6, <1>7, <2>1
<1> QED
  BY <1>6, <1>7, <1>8 DEF s, last

(* Where the nodes are.                                                    *)
LEMMA PlacesMeet ==
  ASSUME ListHeadAssumption, TypeOK, NEW P, NEW own, NEW pos,
         Placement(Settled, usable, P, own, pos)
  PROVE  /\ Listed = P \ usable /\ Places = P /\ Free = Entries \ P
         /\ Vacant = {h \in Heads : h \in usable => mem[h].next = h}
<1>1. Shape(usable, P, own, pos) /\ Linked(Settled, P)
  BY DEF Placement
<1>2. \A x \in P : own[x] \in usable
  BY <1>1 DEF Shape
<1>3. Listed = P \ usable
  <2>1. \A x : x \in Listed <=> \E h \in usable : x \in ToSet(OnList(h))
    BY DEF Listed
  <2>2. \A x : x \in Listed <=> x \in P \ usable
    BY <1>2, <2>1, OnListMeets
  <2> QED
    BY <2>2
<1>4. Places = P
  BY <1>1, <1>3 DEF Places, Shape
<1>5. Free = Entries \ P
  BY <1>1, <1>3 DEF Free, Shape, ListHeadAssumption
<1>6. ASSUME NEW h \in Heads
      PROVE  OnList(h) = << >> <=> (h \in usable => mem[h].next = h)
  <2>1. CASE h \notin usable
    BY <2>1 DEF OnList
  <2>2. CASE h \in usable
    <3>1. h \in P /\ own[h] = h /\ pos[h] = 0 /\ h \in Node
      BY <1>1, <2>2 DEF Shape, Node
    <3>2. Settled[h].next = mem[h].next
      BY <3>1, SettledMemory
    <3>3. OnList(h) = << >> <=> Len(OnList(h)) = 0
      BY <2>2, OnListMeets
    <3>4. Settled[h].prev \in P /\ own[Settled[h].prev] = h
      BY <1>1, <3>1, Neighbours DEF Linked
    <3>5. LastPos(Settled, pos, h) = 0 <=> Settled[h].prev = h
      BY <1>1, <3>1, <3>4 DEF LastPos, Shape
    <3>6. Settled[h].prev = h <=> Settled[h].next = h
      BY <3>1, Neighbours
    <3>7. Len(OnList(h)) = LastPos(Settled, pos, h)
      BY <2>2, OnListMeets
    <3> QED
      BY <2>2, <3>2, <3>3, <3>5, <3>6, <3>7
  <2> QED
    BY <2>1, <2>2
<1>7. Vacant = {h \in Heads : h \in usable => mem[h].next = h}
  BY <1>6 DEF Vacant
<1> QED
  BY <1>3, <1>4, <1>5, <1>7

-----------------------------------------------------------------------------
(* The rings of placed lists are closed.                                   *)
LEMMA RingsMeet ==
  ASSUME ListHeadAssumption, TypeOK, NEW P, NEW own, NEW pos,
         Placement(Settled, usable, P, own, pos)
  PROVE  RingsClosed
<1> SUFFICES ASSUME ~writer.on
             PROVE  RingsClosed
  BY DEF RingsClosed
<1>1. /\ Shape(usable, P, own, pos) /\ Linked(Settled, P)
      /\ InOrder(Settled, usable, P, own, pos)
  BY DEF Placement
<1>2. Settled = mem
  BY DEF Settled
<1>3. ASSUME NEW h \in usable
      PROVE  /\ IsInjective(Ring(h))
             /\ \A i \in 1 .. Len(Ring(h)) :
                  LET x == Ring(h)[i]
                      y == Ring(h)[(i % Len(Ring(h))) + 1]
                  IN  mem[x].next = y /\ mem[y].prev = x
  <2> DEFINE s == OnList(h)
             r == Ring(h)
             n == Len(s)
             last == LastPos(Settled, pos, h)
  <2>1. /\ s \in Seq(Entries) /\ n \in Nat /\ n = last
        /\ \A i \in 1 .. n : s[i] \in P \ usable /\ own[s[i]] = h /\ pos[s[i]] = i
    BY OnListMeets
  <2>2. h \in P /\ own[h] = h /\ pos[h] = 0 /\ h \in Node
    BY <1>1 DEF Shape, Node
  <2>3. r = << h >> \o s
    BY DEF Ring
  <2> HIDE DEF s, n, r, last
  <2>4. /\ Len(r) = n + 1 /\ DOMAIN r = 1 .. n + 1 /\ r[1] = h
        /\ \A i \in 2 .. n + 1 : r[i] = s[i - 1]
    BY <2>1, <2>2, <2>3 DEF n
  <2>5. ASSUME NEW i \in 1 .. n + 1
        PROVE  r[i] \in P /\ own[r[i]] = h /\ pos[r[i]] = i - 1
    <3>1. CASE i = 1
      BY <2>2, <2>4, <3>1
    <3>2. CASE i # 1
      <4>1. i - 1 \in 1 .. n /\ r[i] = s[i - 1]
        BY <2>1, <2>4, <3>2
      <4> QED
        BY <2>1, <4>1
    <3> QED
      BY <3>1, <3>2
  <2>6. IsInjective(r)
    BY <2>1, <2>4, <2>5 DEF IsInjective
  <2>7. ASSUME NEW i \in 1 .. n + 1
        PROVE  /\ mem[r[i]].next = r[(i % (n + 1)) + 1]
               /\ mem[r[(i % (n + 1)) + 1]].prev = r[i]
    <3> DEFINE x == r[i]
    <3>1. x \in P /\ own[x] = h /\ pos[x] = i - 1
      BY <2>5
    <3>2. mem[x].next \in P /\ own[mem[x].next] = h /\ mem[mem[x].next].prev = x
      BY <1>1, <1>2, <3>1 DEF Linked, InOrder
    <3>3. last = pos[mem[h].prev]
      BY <1>2 DEF last, LastPos
    <3>4. CASE i = n + 1
      <4>1. i % (n + 1) = 0
        BY <2>1, <3>4
      <4>2. pos[x] = pos[mem[h].prev] /\ own[mem[h].prev] = h /\ mem[h].prev \in P
            /\ mem[mem[h].prev].next = h
        BY <1>1, <1>2, <2>1, <2>2, <3>1, <3>3, <3>4, Neighbours DEF Linked
      <4>3. x = mem[h].prev
        BY <1>1, <3>1, <4>2 DEF Shape
      <4> QED
        BY <2>4, <4>1, <4>2, <4>3
    <3>5. CASE i # n + 1
      <4>1. i % (n + 1) = i /\ i \in 1 .. n /\ i + 1 \in 1 .. n + 1
        BY <2>1, <3>5
      <4>2. mem[x].next \notin usable
        <5>1. mem[x].next \in usable => mem[x].next = h
          BY <1>2, <3>1, Neighbours
        <5>2. mem[h].prev # x
          <6>1. pos[mem[h].prev] = n /\ n # i - 1
            BY <2>1, <3>3, <4>1
          <6> QED
            BY <3>1, <6>1
        <5> QED
          BY <3>2, <5>1, <5>2
      <4>3. pos[mem[x].next] = pos[x] + 1
        BY <1>1, <1>2, <3>1, <4>2 DEF InOrder
      <4>4. pos[mem[x].next] = i
        BY <3>1, <4>1, <4>3
      <4>5. r[i + 1] \in P /\ own[r[i + 1]] = h /\ pos[r[i + 1]] = i
        BY <2>5, <4>1
      <4>6. mem[x].next = r[i + 1]
        BY <1>1, <3>2, <4>4, <4>5 DEF Shape
      <4> QED
        BY <3>2, <4>1, <4>6
    <3> QED
      BY <3>4, <3>5
  <2> QED
    BY <2>4, <2>6, <2>7 DEF r
<1>4. ASSUME NEW g \in usable, NEW h \in usable, g # h
      PROVE  ToSet(OnList(g)) \cap ToSet(OnList(h)) = {}
  <2>1. \A x : x \in ToSet(OnList(g)) => own[x] = g
    BY OnListMeets
  <2>2. \A x : x \in ToSet(OnList(h)) => own[x] = h
    BY OnListMeets
  <2> QED
    BY <1>4, <2>1, <2>2
<1> QED
  BY <1>3, <1>4 DEF RingsClosed

-----------------------------------------------------------------------------
(* The nodes named are nodes.                                              *)
LEMMA PlacedNodes ==
  ASSUME NEW m, NEW U, NEW P, NEW own, NEW pos, Placement(m, U, P, own, pos)
  PROVE  /\ U \subseteq Heads /\ U \subseteq P /\ P \subseteq Node
         /\ P \subseteq U \cup Entries
         /\ \A x \in P : /\ m[x].next \in P /\ m[x].prev \in P
                         /\ m[m[x].next].prev = x /\ m[m[x].prev].next = x
                         /\ own[x] \in U
         /\ \A x \in U : own[x] = x
  BY DEF Placement, Shape, Linked, Node

(* INIT_LIST_HEAD of a node on no list.                                    *)
LEMMA InitOp ==
  ASSUME ListHeadAssumption, NEW m \in Memory, NEW U, NEW P, Placed(m, U, P),
         NEW x \in Node \ P
  PROVE  /\ INIT_LIST_HEAD(m, x) \in Memory
         /\ x \in Entries => Placed(INIT_LIST_HEAD(m, x), U, P)
         /\ x \in Heads => Placed(INIT_LIST_HEAD(m, x), U \cup {x}, P \cup {x})
<1>1. PICK own, pos : Placement(m, U, P, own, pos)
  BY DEF Placed
<1> DEFINE m2 == INIT_LIST_HEAD(m, x)
<1>2. /\ m2 \in Memory
      /\ \A y \in Node : /\ m2[y].next = IF y = x THEN x ELSE m[y].next
                         /\ m2[y].prev = IF y = x THEN x ELSE m[y].prev
  BY InitStores
<1> HIDE DEF m2
<1>3. P \subseteq Node
  BY <1>1, PlacedNodes
<1>4. SameOn(m, m2, P)
  BY <1>2, <1>3 DEF SameOn
<1>5. m2[x].next = x /\ m2[x].prev = x
  BY <1>2
<1>6. Placement(m2, U, P, own, pos)
  BY <1>1, <1>4, FramePlacement
<1>7. ASSUME x \in Heads PROVE Placed(m2, U \cup {x}, P \cup {x})
  <2>1. x \in Heads \ P
    BY <1>7
  <2> QED
    BY <1>1, <1>4, <1>5, <2>1, AddHeadPlacement
<1> QED
  BY <1>2, <1>6, <1>7 DEF Placed, m2

(* What is left of the lists when h is left behind, with its entries.      *)
LeftWithout(m, U, P, own, h) ==
  \E P2, own2, pos2 :
    /\ Placement(m, U \ {h}, P2, own2, pos2)
    /\ h \notin P2 /\ P2 \subseteq P
    /\ \A x \in P : own[x] # h => x \in P2 /\ own2[x] = own[x]
    /\ m[h].next = h => P2 = P \ {h}

(* A head may be left behind.                                              *)
LEMMA LeaveOp ==
  ASSUME ListHeadAssumption, NEW m, NEW U, NEW P, NEW own, NEW pos,
         Placement(m, U, P, own, pos), NEW h \in Heads
  PROVE  LeftWithout(m, U, P, own, h)
<1>1. CASE h \notin U
  <2>1. h \notin P
    BY <1>1, PlacedNodes DEF ListHeadAssumption
  <2>2. U \ {h} = U /\ P \ {h} = P
    BY <1>1, <2>1
  <2> QED
    BY <2>1, <2>2 DEF LeftWithout
<1>2. CASE h \in U
  <2> DEFINE P2 == Apart(P, own, h)
  <2>1. PICK own2, pos2 :
          /\ Placement(m, U \ {h}, P2, own2, pos2)
          /\ \A x \in P : own[x] # h => own2[x] = own[x] /\ pos2[x] = pos[x]
    BY <1>2, DropListPlacement
  <2>2. h \notin P2 /\ P2 \subseteq P /\ \A x \in P : own[x] # h => x \in P2
    BY <1>2, PlacedNodes DEF Apart
  <2>3. ASSUME m[h].next = h
        PROVE  P2 = P \ {h}
    <3>1. ASSUME NEW x \in P, own[x] = h
          PROVE  x = h
      <4>1. Shape(U, P, own, pos) /\ InOrder(m, U, P, own, pos) /\ h \in P
        BY <1>2 DEF Placement, Shape
      <4>2. m[h].prev = h
        BY <2>3, <4>1, Neighbours
      <4>3. pos[x] <= pos[h] /\ pos[h] = 0 /\ own[h] = h
        BY <1>2, <3>1, <4>1, <4>2 DEF InOrder, Shape
      <4>4. pos[x] \in Nat
        BY <4>1 DEF Shape
      <4>5. pos[x] = pos[h]
        BY <4>3, <4>4
      <4> QED
        BY <3>1, <4>1, <4>3, <4>5 DEF Shape
    <3>2. own[h] = h
      BY <1>2, PlacedNodes
    <3> QED
      BY <3>1, <3>2 DEF Apart
  <2> HIDE DEF P2
  <2> QED
    BY <2>1, <2>2, <2>3 DEF LeftWithout
<1> QED
  BY <1>1, <1>2

(* list_add and list_add_tail of an entry that is on no list.              *)
LEMMA AddOp ==
  ASSUME ListHeadAssumption, NEW m \in Memory, NEW U, NEW P, NEW own, NEW pos,
         Placement(m, U, P, own, pos), NEW e \in Entries \ P, NEW p \in P,
         NEW m2 \in {list_add(m, e, p), list_add_tail(m, e, p)}
  PROVE  /\ m2 \in Memory
         /\ PlacedAs(m2, U, P \cup {e}, own, P)
         /\ SameOn(m, m2, Apart(P, own, own[p]))
<1>1. PICK q \in P : m2 = __list_add(m, e, q, m[q].next) /\ own[q] = own[p]
  <2>1. CASE m2 = list_add(m, e, p)
    BY <2>1 DEF list_add
  <2>2. CASE m2 = list_add_tail(m, e, p)
    <3>1. m[p].prev \in P /\ m[m[p].prev].next = p /\ own[m[p].prev] = own[p]
      BY PlacedNodes, Neighbours
    <3> QED
      BY <2>2, <3>1 DEF list_add_tail
  <2> QED
    BY <2>1, <2>2
<1>2. P \subseteq Node /\ m[q].next \in P /\ e \in Node /\ own[m[q].next] = own[q]
  BY PlacedNodes DEF Node, Placement, InOrder
<1>3. m2 \in Memory /\ Inserted(m, m2, Node, q, e)
  BY <1>1, <1>2, AddStores
<1>4. Inserted(m, m2, P, q, e)
  BY <1>2, <1>3 DEF Inserted
<1>5. PlacedAs(m2, U, P \cup {e}, own, P)
  BY <1>4, InsertPlacement
<1>6. SameOn(m, m2, Apart(P, own, own[p]))
  BY <1>1, <1>2, <1>4 DEF Inserted, SameOn, Apart
<1> QED
  BY <1>1, <1>3, <1>5, <1>6

(* An entry is taken off its list; one alone in its ring is on no list.    *)
LEMMA RemoveOp ==
  ASSUME ListHeadAssumption, NEW m, NEW U, NEW P, NEW own, NEW pos,
         Placement(m, U, P, own, pos), NEW e \in Entries,
         e \notin P => m[e].next = e /\ m[e].prev = e,
         NEW m2, Unlinked(m, m2, P, e)
  PROVE  PlacedAs(m2, U, P \ {e}, own, P \ {e})
<1>1. CASE e \in P
  <2>1. e \in P \ U
    BY <1>1, PlacedNodes DEF ListHeadAssumption
  <2> QED
    BY <2>1, UnlinkPlacement
<1>2. CASE e \notin P
  <2>1. P \ {e} = P
    BY <1>2
  <2>2. SameOn(m, m2, P)
    BY <1>2 DEF Unlinked, SameOn
  <2>3. Placement(m2, U, P, own, pos)
    BY <2>2, FramePlacement
  <2> QED
    BY <2>1, <2>3 DEF PlacedAs
<1> QED
  BY <1>1, <1>2

(* The pointers of an entry that is on a list or alone are nodes.          *)
LEMMA EntryPointers ==
  ASSUME ListHeadAssumption, NEW m, NEW U, NEW P, NEW own, NEW pos,
         Placement(m, U, P, own, pos), NEW e \in Entries,
         e \notin P => m[e].next = e /\ m[e].prev = e
  PROVE  e \in Node /\ m[e].next \in Node /\ m[e].prev \in Node
<1>1. P \subseteq Node /\ e \in Node
  BY PlacedNodes DEF Node
<1>2. e \in P => m[e].next \in P /\ m[e].prev \in P
  BY PlacedNodes
<1> QED
  BY <1>1, <1>2

(* The neighbours of e are joined, but where g is the owner.               *)
UnlinkedApart(m, m2, P, own, e, g) ==
  \A y \in P \ {e} : own[y] # g =>
    /\ m2[y].next = IF y = m[e].prev THEN m[e].next ELSE m[y].next
    /\ m2[y].prev = IF y = m[e].next THEN m[e].prev ELSE m[y].prev

(* list_move and list_move_tail.                                           *)
LEMMA MoveOp ==
  ASSUME ListHeadAssumption, NEW m \in Memory, NEW U, NEW P, NEW own, NEW pos,
         Placement(m, U, P, own, pos), NEW e \in Entries,
         e \notin P => m[e].next = e /\ m[e].prev = e,
         NEW p \in P \ {e},
         NEW m2 \in {list_move(m, e, p), list_move_tail(m, e, p)}
  PROVE  /\ m2 \in Memory
         /\ PlacedAs(m2, U, P \cup {e}, own, P \ {e})
         /\ UnlinkedApart(m, m2, P, own, e, own[p])
<1> DEFINE m1 == __list_del_entry(m, e)
           Q == P \ {e}
<1>1. e \in Node /\ m[e].next \in Node /\ m[e].prev \in Node /\ P \subseteq Node
  BY EntryPointers, PlacedNodes
<1>2. m1 \in Memory /\ Unlinked(m, m1, Node, e)
  BY <1>1, UnlinkStores
<1>3. Unlinked(m, m1, P, e)
  BY <1>1, <1>2 DEF Unlinked
<1>4. m2 \in {list_add(m1, e, p), list_add_tail(m1, e, p)}
  BY DEF list_move, list_move_tail
<1> HIDE DEF m1
<1>5. PICK own1, pos1 : /\ Placement(m1, U, Q, own1, pos1)
                        /\ \A x \in Q : own1[x] = own[x]
  BY <1>3, RemoveOp DEF PlacedAs
<1>6. e \in Entries \ Q /\ p \in Q
  OBVIOUS
<1>7. Q \cup {e} = P \cup {e}
  OBVIOUS
<1> HIDE DEF Q
<1>8. /\ m2 \in Memory /\ PlacedAs(m2, U, Q \cup {e}, own1, Q)
      /\ SameOn(m1, m2, Apart(Q, own1, own1[p]))
  BY <1>2, <1>4, <1>5, <1>6, AddOp
<1>9. PlacedAs(m2, U, P \cup {e}, own, Q)
  BY <1>5, <1>7, <1>8 DEF PlacedAs
<1>10. UnlinkedApart(m, m2, P, own, e, own[p])
  <2>1. \A y \in Q : own[y] # own[p] =>
          m2[y].next = m1[y].next /\ m2[y].prev = m1[y].prev
    BY <1>5, <1>6, <1>8 DEF SameOn, Apart
  <2>2. \A y \in Q : /\ m1[y].next = IF y = m[e].prev THEN m[e].next ELSE m[y].next
                     /\ m1[y].prev = IF y = m[e].next THEN m[e].prev ELSE m[y].prev
    BY <1>3 DEF Unlinked, Q
  <2> QED
    BY <2>1, <2>2 DEF UnlinkedApart, Q
<1> QED
  BY <1>8, <1>9, <1>10 DEF Q

(* list_replace.                                                           *)
LEMMA ReplaceOp ==
  ASSUME ListHeadAssumption, NEW m \in Memory, NEW U, NEW P, NEW own, NEW pos,
         Placement(m, U, P, own, pos), NEW old \in Node, NEW new \in Node, old # new,
         old \in Heads <=> new \in Heads, old \in Heads => old \in U,
         old \notin P => m[old].next = old /\ m[old].prev = old,
         new \in P => new \in U /\ m[new].next = new,
         NEW m2, m2 = list_replace(m, old, new)
  PROVE  /\ m2 \in Memory
         /\ \E P2 : /\ Placed(m2, (U \ {old}) \cup ({new} \cap Heads), P2)
                    /\ old \notin P2
<1>1. PICK P1, own1, pos1 :
        /\ Placement(m, U \ {new}, P1, own1, pos1)
        /\ new \notin P1 /\ P1 = P \ {new}
  <2>1. CASE new \in Heads
    <3>1. new \notin P => P \ {new} = P /\ U \ {new} = U
      BY PlacedNodes
    <3>2. CASE new \in P
      <4>1. LeftWithout(m, U, P, own, new)
        BY <2>1, LeaveOp
      <4> QED
        BY <3>2, <4>1 DEF LeftWithout
    <3> QED
      BY <3>1, <3>2
  <2>2. CASE new \notin Heads
    <3>1. new \notin U
      BY <2>2, PlacedNodes
    <3>2. new \notin P /\ U \ {new} = U /\ P \ {new} = P
      BY <3>1
    <3> QED
      BY <3>2
  <2> QED
    BY <2>1, <2>2
<1> DEFINE U1 == U \ {new}
<1>2. /\ P1 \subseteq Node /\ U1 \subseteq Heads /\ U1 \subseteq P1
      /\ P1 \subseteq U1 \cup Entries
      /\ \A x \in P1 : m[x].next \in P1 /\ m[x].prev \in P1
  BY <1>1, PlacedNodes
<1> HIDE DEF U1
<1>3. /\ m[old].next \in Node /\ m[old].prev \in Node
      /\ m[old].next = old <=> m[old].prev = old
      /\ m[old].next # new /\ m[old].prev # new
  <2>1. CASE old \in P
    <3>1. old \in P1
      BY <1>1, <2>1
    <3>2. m[old].next = old <=> m[old].prev = old
      BY <2>1, Neighbours
    <3> QED
      BY <1>1, <1>2, <3>1, <3>2
  <2>2. CASE old \notin P
    BY <2>2
  <2> QED
    BY <2>1, <2>2
<1>4. m2 \in Memory /\ Replaced(m, m2, Node \ {new}, old, new)
  BY <1>3, ReplaceStores
<1>5. Replaced(m, m2, P1, old, new)
  BY <1>1, <1>2, <1>4 DEF Replaced
<1>6. CASE old \in P1
  <2>1. new \in Node \ P1 /\ (old \in U1 <=> new \in Heads)
    <3>1. old \in U1 <=> old \in Heads
      BY <1>2, <1>6 DEF U1
    <3> QED
      BY <1>1, <3>1
  <2>2. Placement(m, U1, P1, own1, pos1)
    BY <1>1 DEF U1
  <2>3. Placed(m2, IF old \in U1 THEN (U1 \ {old}) \cup {new} ELSE U1,
               (P1 \ {old}) \cup {new})
    BY <1>5, <1>6, <2>1, <2>2, ReplacePlacement
  <2>4. (IF old \in U1 THEN (U1 \ {old}) \cup {new} ELSE U1)
        = (U \ {old}) \cup ({new} \cap Heads)
    <3>1. CASE old \in U1
      <4>1. {new} \cap Heads = {new}
        BY <2>1, <3>1
      <4> QED
        BY <3>1, <4>1 DEF U1
    <3>2. CASE old \notin U1
      <4>1. {new} \cap Heads = {} /\ new \notin Heads
        BY <2>1, <3>2
      <4>2. new \notin U /\ old \notin U
        BY <3>2, <4>1, PlacedNodes DEF U1
      <4> QED
        BY <3>2, <4>1, <4>2 DEF U1
    <3> QED
      BY <3>1, <3>2
  <2> QED
    BY <1>4, <2>3, <2>4
<1>7. CASE old \notin P1
  <2>1. old \notin P /\ m[old].next = old /\ m[old].prev = old
    BY <1>1, <1>7
  <2>2. old \notin U /\ old \notin Heads /\ new \notin Heads
    BY <2>1, PlacedNodes
  <2>3. new \notin U
    BY <2>2, PlacedNodes
  <2>4. (U \ {old}) \cup ({new} \cap Heads) = U1
    BY <2>2, <2>3 DEF U1
  <2>5. SameOn(m, m2, P1)
    BY <1>5, <1>7, <2>1 DEF Replaced, SameOn
  <2>6. Placement(m2, U1, P1, own1, pos1)
    BY <1>1, <2>5, FramePlacement DEF U1
  <2>7. Placed(m2, (U \ {old}) \cup ({new} \cap Heads), P1)
    BY <2>4, <2>6 DEF Placed
  <2> QED
    BY <1>4, <1>7, <2>7
<1> QED
  BY <1>6, <1>7

(* list_cut_position, when there is something to cut: the old entries of l *)
(* are lost.                                                               *)
LEMMA CutOp ==
  ASSUME ListHeadAssumption, NEW m \in Memory, NEW U, NEW P, NEW own, NEW pos,
         Placement(m, U, P, own, pos), NEW h \in U, NEW l \in Heads \ {h},
         NEW k \in P, own[k] = h, NEW m2,
         m2 = IF k = h THEN INIT_LIST_HEAD(m, l) ELSE __list_cut_position(m, l, h, k)
  PROVE  m2 \in Memory /\ SomePlaced(m2, U \cup {l})
<1>1. PICK P1, own1, pos1 :
        /\ Placement(m, U \ {l}, P1, own1, pos1)
        /\ l \notin P1 /\ P1 \subseteq P
        /\ \A x \in P : own[x] # l => x \in P1 /\ own1[x] = own[x]
  <2>1. LeftWithout(m, U, P, own, l)
    BY LeaveOp
  <2> QED
    BY <2>1 DEF LeftWithout
<1> DEFINE U1 == U \ {l}
<1>2. h \in U1 /\ k \in P1 /\ own1[k] = h /\ U1 \cup {l} = U \cup {l}
      /\ l \in Heads \ P1
      /\ l \in Node \ P1 /\ h # l
  BY <1>1 DEF Node
<1>3. Placement(m, U1, P1, own1, pos1)
  BY <1>1
<1> HIDE DEF U1
<1>4. CASE k = h
  <2>1. Placed(m, U1, P1)
    BY <1>3 DEF Placed
  <2>2. m2 = INIT_LIST_HEAD(m, l)
    BY <1>4
  <2>3. m2 \in Memory /\ Placed(m2, U1 \cup {l}, P1 \cup {l})
    BY <1>2, <2>1, <2>2, InitOp
  <2> QED
    BY <1>2, <2>3 DEF SomePlaced
<1>5. CASE k # h
  <2>1. /\ P1 \subseteq Node /\ h \in P1
        /\ m[h].next \in P1 /\ m[k].next \in P1
        /\ m[m[h].next].prev = h /\ m[m[k].next].prev = k
    BY <1>2, <1>3, PlacedNodes
  <2>2. m2 = __list_cut_position(m, l, h, k)
    BY <1>5
  <2>3. m[h].next # m[k].next /\ l \notin {h, k, m[h].next, m[k].next}
    BY <1>2, <1>5, <2>1
  <2>4. /\ l \in Node /\ h \in Node /\ k \in Node
        /\ m[h].next \in Node /\ m[k].next \in Node /\ h # k
    BY <1>2, <1>5, <2>1
  <2>5. m2 \in Memory /\ CutAt(m, m2, Node, l, h, k)
    BY <2>2, <2>3, <2>4, CutStores
  <2>6. CutAt(m, m2, P1, l, h, k)
    BY <1>2, <2>1, <2>5 DEF CutAt
  <2>7. Placed(m2, U1 \cup {l}, P1 \cup {l})
    BY <1>2, <1>3, <1>5, <2>6, CutPlacement
  <2> QED
    BY <1>2, <2>5, <2>7 DEF SomePlaced
<1> QED
  BY <1>4, <1>5

(* The memory without the list of l, and with an empty one.                *)
SplicedOut(m2, U, P, l) ==
  /\ m2 \in Memory /\ Placed(m2, U \ {l}, P \ {l})
  /\ INIT_LIST_HEAD(m2, l) \in Memory
  /\ Placed(INIT_LIST_HEAD(m2, l), U, P)

(* The four forms of list_splice, when there is something to splice.       *)
LEMMA SpliceOp ==
  ASSUME ListHeadAssumption, NEW m \in Memory, NEW U, NEW P, NEW own, NEW pos,
         Placement(m, U, P, own, pos), NEW l \in U, m[l].next # l,
         NEW p \in P, own[p] # l,
         NEW m2 \in {__list_splice(m, l, p, m[p].next),
                     __list_splice(m, l, m[p].prev, p)}
  PROVE  SplicedOut(m2, U, P, l)
<1>1. PICK q \in P : m2 = __list_splice(m, l, q, m[q].next) /\ own[q] = own[p]
  <2>1. m[p].prev \in P /\ m[m[p].prev].next = p /\ own[m[p].prev] = own[p]
    BY PlacedNodes, Neighbours
  <2> QED
    BY <2>1
<1>2. /\ P \subseteq Node /\ l \in P /\ own[l] = l /\ U \subseteq Heads /\ U \subseteq P
      /\ m[q].next \in P /\ m[l].next \in P /\ m[l].prev \in P
      /\ m[m[q].next].prev = q /\ m[m[l].next].prev = l
  BY PlacedNodes
<1>3. q # m[l].prev /\ m[q].next # m[l].next
  <2>1. own[m[l].prev] = l /\ q # l
    BY <1>1, <1>2, Neighbours
  <2> QED
    BY <1>1, <1>2, <2>1
<1>4. m2 \in Memory /\ Spliced(m, m2, Node, l, q)
  BY <1>1, <1>2, <1>3, SpliceStores
<1>5. Spliced(m, m2, P, l, q)
  BY <1>2, <1>4 DEF Spliced
<1>6. own[q] # l
  BY <1>1
<1>7. Placed(m2, U \ {l}, P \ {l})
  BY <1>5, <1>6, SplicePlacement
<1>8. l \in Node \ (P \ {l}) /\ l \in Heads
  BY <1>2
<1>9. (U \ {l}) \cup {l} = U /\ (P \ {l}) \cup {l} = P
  BY <1>2
<1> DEFINE U1 == U \ {l}
           P1 == P \ {l}
<1> HIDE DEF U1, P1
<1>10. Placed(m2, U1, P1) /\ l \in Node \ P1
  BY <1>7, <1>8 DEF U1, P1
<1>11. /\ INIT_LIST_HEAD(m2, l) \in Memory
       /\ Placed(INIT_LIST_HEAD(m2, l), U1 \cup {l}, P1 \cup {l})
  BY <1>4, <1>8, <1>10, InitOp
<1> QED
  BY <1>4, <1>7, <1>9, <1>11 DEF SplicedOut, U1, P1

-----------------------------------------------------------------------------
(* The inductive invariant.                                                *)

(* What list_del_init read, and how far its stores are; an entry that was  *)
(* on no list is written with what it held.                                *)
WriterOK(P) ==
  writer.on =>
    LET e == writer.entry
    IN  /\ writer.next = e <=> writer.prev = e
        /\ writer.at <= 2 =>
             /\ Settled[e].next = writer.next /\ Settled[e].prev = writer.prev
             /\ e \notin P => writer.next = e
        /\ writer.at = 2 => mem[writer.next].prev = writer.prev
        /\ writer.at > 2 => e \notin P /\ mem[e].prev = writer.prev
        /\ writer.at = 3 => mem[e].next = writer.next
        /\ writer.at = 4 => mem[e].next = e

(* The next that list_empty_careful found to be the node itself stays so.  *)
ReaderOK ==
  reader.on =>
    /\ writer.on => writer.prev # writer.entry
    /\ reader.answer = "unknown" /\ reader.next = reader.node =>
         mem[reader.node].next = reader.node

Go(dir, x) == IF dir = "next" THEN Settled[x].next ELSE Settled[x].prev

(* What is left of todo after its first entry is a part of the list, up to *)
(* its end; the first is, too, as long as it was not removed.              *)
Chain(P, own, head, dir, todo, n) ==
  /\ IsInjective(todo)
  /\ \A i \in 2 .. Len(todo) :
       /\ todo[i] \in P \ usable /\ own[todo[i]] = head
       /\ Go(dir, todo[i]) = IF i = Len(todo) THEN head ELSE todo[i + 1]
  /\ todo # << >> => n = IF Len(todo) = 1 THEN head ELSE todo[2]

LoopOK(P, own) ==
  loop.on =>
    /\ loop.head \in usable
    /\ loop.pos = IF loop.todo = << >> THEN loop.head ELSE loop.todo[1]
    /\ ~loop.removed => loop.pos \in P /\ own[loop.pos] = loop.head
    /\ loop.stale => ~loop.removed /\ loop.todo # << >>
    /\ ~loop.stale => Chain(P, own, loop.head, loop.dir, loop.todo, loop.n)

(* What list_del_init takes from a list, the loop may lose.                *)
LoopMayLose(e) ==
  loop.on => IF loop.stale THEN e # loop.pos ELSE loop.removed /\ e = loop.pos

WriterInLoop(P) ==
  writer.on =>
    /\ LoopMayLose(writer.entry)
    /\ writer.at <= 2 /\ loop.on /\ ~loop.stale => writer.entry \in P

Sound(P, own, pos) ==
  /\ Placement(Settled, usable, P, own, pos)
  /\ WriterOK(P) /\ LoopOK(P, own) /\ WriterInLoop(P)

IInv ==
  /\ TypeOK /\ ReaderOK /\ CarefulMeansDone
  /\ \E P, own, pos : Sound(P, own, pos)

-----------------------------------------------------------------------------
(* It holds at first: every head is in use and every list empty.           *)
LEMMA InitInv == ListHeadAssumption /\ Init => IInv
<1> SUFFICES ASSUME ListHeadAssumption, Init PROVE IInv
  OBVIOUS
<1>1. writer = None /\ reader = None /\ loop = None /\ ~None.on
  BY DEF Init, None
<1>2. TypeOK
  <2>1. mem \in Memory
    BY DEF Init, Memory, Ptr, Node
  <2>2. call \in [op : Operations, args : Seq(Node)]
    <3>1. << >> \in Seq(Node) /\ "none" \in Operations
      BY DEF Operations
    <3> QED
      BY <3>1 DEF Init
  <2>3. writer \in Writer /\ reader \in Reader /\ loop \in Loop
    BY <1>1 DEF Writer, Reader, Loop
  <2>4. usable \subseteq Heads
    BY DEF Init
  <2> QED
    BY <2>1, <2>2, <2>3, <2>4 DEF TypeOK
<1> DEFINE own == [h \in Heads |-> h]
           pos == [h \in Heads |-> 0]
<1>3. Settled = mem
  BY <1>1 DEF Settled
<1>4. Placement(Settled, usable, Heads, own, pos)
  <2>1. \A h \in Heads : mem[h].next = h /\ mem[h].prev = h
    BY DEF Init, Node
  <2>2. Shape(usable, Heads, own, pos)
    BY DEF Init, Shape
  <2>3. Linked(mem, Heads) /\ InOrder(mem, usable, Heads, own, pos)
    BY <2>1 DEF Linked, InOrder, Init
  <2> QED
    BY <1>3, <2>2, <2>3 DEF Placement
<1>5. Sound(Heads, own, pos)
  BY <1>1, <1>4 DEF Sound, WriterOK, LoopOK, WriterInLoop
<1> HIDE DEF own, pos
<1> QED
  BY <1>1, <1>2, <1>5 DEF IInv, ReaderOK, CarefulMeansDone

(* What the invariant says when no list_del_init is in progress.           *)
LEMMA Idle ==
  ASSUME ListHeadAssumption, IInv, writer = None
  PROVE  \E P, own, pos :
           /\ Placement(mem, usable, P, own, pos) /\ LoopOK(P, own)
           /\ Settled = mem /\ Sound(P, own, pos)
           /\ mem \in Memory /\ P \subseteq Node /\ usable \subseteq Heads
           /\ Listed = P \ usable /\ Places = P /\ Free = Entries \ P
           /\ Vacant = {h \in Heads : h \in usable => mem[h].next = h}
<1>1. PICK P, own, pos : Sound(P, own, pos)
  BY DEF IInv
<1>2. TypeOK /\ ~writer.on
  BY DEF IInv, None
<1>3. Settled = mem
  BY <1>2 DEF Settled
<1>4. Placement(Settled, usable, P, own, pos) /\ LoopOK(P, own)
  BY <1>1 DEF Sound
<1>5. /\ Listed = P \ usable /\ Places = P /\ Free = Entries \ P
      /\ Vacant = {h \in Heads : h \in usable => mem[h].next = h}
  BY <1>2, <1>4, PlacesMeet
<1>6. mem \in Memory /\ P \subseteq Node /\ usable \subseteq Heads
  BY <1>2, <1>4, PlacedNodes DEF TypeOK
<1> QED
  BY <1>1, <1>3, <1>4, <1>5, <1>6

(* What is kept of a call.                                                 *)
LEMMA CalledType ==
  ASSUME NEW op \in Operations, NEW args \in Seq(Node), Called(op, args)
  PROVE  call' \in [op : Operations, args : Seq(Node)]
  BY DEF Called

(* A step with nobody else about need only leave the lists placed.         *)
LEMMA QuietStep ==
  ASSUME Outside, UNCHANGED <<writer, reader, loop>>, mem' \in Memory,
         usable' \subseteq Heads, call' \in [op : Operations, args : Seq(Node)],
         NEW P, Placed(mem', usable', P)
  PROVE  IInv'
<1>1. /\ writer' = None /\ reader' = None /\ loop' = None
      /\ ~writer'.on /\ ~reader'.on /\ ~loop'.on
  BY DEF Outside, Alone, None
<1>2. TypeOK'
  BY <1>1 DEF TypeOK, Writer, Reader, Loop
<1>3. Settled' = mem'
  BY <1>1 DEF Settled
<1>4. PICK own, pos : Placement(mem', usable', P, own, pos)
  BY DEF Placed
<1>5. Sound(P, own, pos)'
  BY <1>1, <1>3, <1>4 DEF Sound, WriterOK, LoopOK, WriterInLoop
<1>6. ReaderOK' /\ CarefulMeansDone'
  BY <1>1 DEF ReaderOK, CarefulMeansDone
<1> QED
  BY <1>2, <1>5, <1>6 DEF IInv

(* The operations under the lock, with nobody else about.                  *)
LEMMA InitialiseInv ==
  ASSUME ListHeadAssumption, IInv, Initialise
  PROVE  IInv'
<1>1. Outside /\ writer = None /\ UNCHANGED <<writer, reader, loop>>
  BY DEF Initialise, Outside, Alone
<1>2. PICK P, own, pos :
        /\ Placement(mem, usable, P, own, pos)
        /\ mem \in Memory /\ P \subseteq Node /\ usable \subseteq Heads
        /\ Free = Entries \ P
        /\ Vacant = {h \in Heads : h \in usable => mem[h].next = h}
  BY <1>1, Idle
<1>3. PICK x \in Vacant \cup Free :
        /\ mem' = INIT_LIST_HEAD(mem, x)
        /\ Called("INIT_LIST_HEAD", <<x>>)
        /\ usable' = usable \cup ({x} \cap Heads)
  BY DEF Initialise
<1>4. x \in Node
  BY <1>2, <1>3 DEF Node
<1>5. /\ mem' \in Memory
      /\ \A y \in Node : /\ mem'[y].next = IF y = x THEN x ELSE mem[y].next
                         /\ mem'[y].prev = IF y = x THEN x ELSE mem[y].prev
  BY <1>2, <1>3, <1>4, InitStores
<1>6. usable' \subseteq Heads /\ call' \in [op : Operations, args : Seq(Node)]
  <2>1. <<x>> \in Seq(Node)
    BY <1>4
  <2> QED
    BY <1>2, <1>3, <2>1, CalledType DEF Operations
<1>7. CASE x \in usable
  <2>1. mem[x].next = x
    BY <1>2, <1>3, <1>7 DEF ListHeadAssumption
  <2>2. x \in P /\ mem[x].prev = x
    <3>1. x \in P
      BY <1>2, <1>7, PlacedNodes
    <3> QED
      BY <1>2, <2>1, <3>1, Neighbours
  <2>3. SameOn(mem, mem', P)
    BY <1>2, <1>5, <2>1, <2>2 DEF SameOn
  <2>4. usable' = usable
    BY <1>3, <1>7
  <2>5. Placement(mem', usable, P, own, pos)
    BY <1>2, <2>3, FramePlacement
  <2>6. Placed(mem', usable', P)
    BY <2>4, <2>5 DEF Placed
  <2> QED
    BY <1>1, <1>5, <1>6, <2>6, QuietStep
<1>8. CASE x \notin usable
  <2>1. x \in Node \ P /\ Placed(mem, usable, P)
    BY <1>2, <1>3, <1>4, <1>8, PlacedNodes DEF ListHeadAssumption, Placed
  <2>2. CASE x \in Heads
    <3>1. Placed(mem', usable \cup {x}, P \cup {x})
      BY <1>2, <1>3, <2>1, <2>2, InitOp
    <3>2. usable' = usable \cup {x}
      BY <1>3, <2>2
    <3>3. Placed(mem', usable', P \cup {x})
      BY <3>1, <3>2
    <3> QED
      BY <1>1, <1>5, <1>6, <3>3, QuietStep
  <2>3. CASE x \notin Heads
    <3>1. x \in Entries
      BY <1>4, <2>3 DEF Node
    <3>2. Placed(mem', usable, P)
      BY <1>2, <1>3, <2>1, <3>1, InitOp
    <3>3. usable' = usable
      BY <1>3, <2>3
    <3>4. Placed(mem', usable', P)
      BY <3>2, <3>3
    <3> QED
      BY <1>1, <1>5, <1>6, <3>4, QuietStep
  <2> QED
    BY <2>2, <2>3
<1> QED
  BY <1>7, <1>8

(* list_replace and list_replace_init.                                     *)
LEMMA ReplaceInv ==
  ASSUME ListHeadAssumption, IInv, Replace
  PROVE  IInv'
<1>1. Outside /\ writer = None /\ UNCHANGED <<writer, reader, loop>>
  BY DEF Replace, Outside, Alone
<1>2. PICK P, own, pos :
        /\ Placement(mem, usable, P, own, pos)
        /\ mem \in Memory /\ P \subseteq Node /\ usable \subseteq Heads
        /\ Listed = P \ usable /\ Free = Entries \ P
        /\ Vacant = {h \in Heads : h \in usable => mem[h].next = h}
  BY <1>1, Idle
<1>3. PICK old \in usable \cup Listed \cup Clean, new \in Vacant \cup Free :
        /\ old # new /\ (old \in Heads <=> new \in Heads)
        /\ \/ /\ mem' = list_replace(mem, old, new)
              /\ usable' = (usable \ {old}) \cup ({new} \cap Heads)
              /\ Called("list_replace", <<old, new>>)
           \/ /\ mem' = list_replace_init(mem, old, new)
              /\ usable' = usable \cup ({new} \cap Heads)
              /\ Called("list_replace_init", <<old, new>>)
  BY DEF Replace
<1> DEFINE m2 == list_replace(mem, old, new)
           U2 == (usable \ {old}) \cup ({new} \cap Heads)
<1>4. usable \subseteq P /\ P \subseteq usable \cup Entries
  BY <1>2, PlacedNodes
<1>5. /\ old \in Node /\ new \in Node
      /\ old \in Heads => old \in usable
      /\ old \notin P => mem[old].next = old /\ mem[old].prev = old
      /\ new \in P => new \in usable /\ mem[new].next = new
  <2>1. old \in P \/ (old \in Entries /\ mem[old].next = old /\ mem[old].prev = old)
    BY <1>2, <1>4 DEF Clean, RingOfOne
  <2>2. new \in Entries \ P \/ (new \in Heads /\ (new \in usable => mem[new].next = new))
    BY <1>2
  <2> QED
    BY <1>2, <1>4, <2>1, <2>2 DEF Node, ListHeadAssumption
<1>6. m2 \in Memory /\ \E P2 : Placed(m2, U2, P2) /\ old \notin P2
  BY <1>2, <1>3, <1>5, ReplaceOp
<1>7. PICK P2 : Placed(m2, U2, P2) /\ old \notin P2
  BY <1>6
<1>8. usable' \subseteq Heads /\ call' \in [op : Operations, args : Seq(Node)]
  <2>1. <<old, new>> \in Seq(Node)
    BY <1>5
  <2> QED
    BY <1>2, <1>3, <2>1, CalledType DEF Operations
<1> HIDE DEF m2, U2
<1>9. CASE mem' = m2 /\ usable' = U2
  <2>1. mem' \in Memory /\ Placed(mem', usable', P2)
    BY <1>6, <1>7, <1>9
  <2> QED
    BY <1>1, <1>8, <2>1, QuietStep
<1>10. CASE mem' = INIT_LIST_HEAD(m2, old) /\ usable' = usable \cup ({new} \cap Heads)
  <2>1. old \in Node \ P2 /\ m2 \in Memory /\ Placed(m2, U2, P2)
    BY <1>5, <1>6, <1>7
  <2>2. mem' \in Memory
    BY <1>10, <2>1, InitOp
  <2>3. CASE old \in Heads
    <3>1. Placed(mem', U2 \cup {old}, P2 \cup {old})
      BY <1>10, <2>1, <2>3, InitOp
    <3>2. usable' = U2 \cup {old}
      BY <1>5, <1>10, <2>3 DEF U2
    <3>3. Placed(mem', usable', P2 \cup {old})
      BY <3>1, <3>2
    <3> QED
      BY <1>1, <1>8, <2>2, <3>3, QuietStep
  <2>4. CASE old \notin Heads
    <3>1. old \in Entries
      BY <1>5, <2>4 DEF Node
    <3>2. Placed(mem', U2, P2)
      BY <1>10, <2>1, <3>1, InitOp
    <3>3. usable' = U2
      BY <1>2, <1>10, <2>4 DEF U2
    <3>4. Placed(mem', usable', P2)
      BY <3>2, <3>3
    <3> QED
      BY <1>1, <1>8, <2>2, <3>4, QuietStep
  <2> QED
    BY <2>3, <2>4
<1> QED
  BY <1>3, <1>9, <1>10 DEF list_replace_init, m2, U2

(* list_rotate_left.                                                       *)
LEMMA RotateInv ==
  ASSUME ListHeadAssumption, IInv, Rotate
  PROVE  IInv'
<1>1. Outside /\ writer = None /\ UNCHANGED <<writer, reader, loop>> /\ usable' = usable
  BY DEF Rotate, Outside, Alone
<1>2. PICK P, own, pos :
        /\ Placement(mem, usable, P, own, pos)
        /\ mem \in Memory /\ P \subseteq Node /\ usable \subseteq Heads
  BY <1>1, Idle
<1>3. PICK h \in usable :
        mem' = list_rotate_left(mem, h) /\ Called("list_rotate_left", <<h>>)
  BY DEF Rotate
<1>4. h \in P /\ h \in Node /\ mem[h].next \in P /\ own[h] = h
      /\ P \subseteq usable \cup Entries
  BY <1>2, PlacedNodes
<1>5. usable' \subseteq Heads /\ call' \in [op : Operations, args : Seq(Node)]
  <2>1. <<h>> \in Seq(Node)
    BY <1>4
  <2> QED
    BY <1>1, <1>2, <1>3, <2>1, CalledType DEF Operations
<1>6. CASE mem[h].next = h
  <2>1. mem' = mem
    BY <1>3, <1>6 DEF list_rotate_left, list_empty
  <2>2. mem' \in Memory /\ Placed(mem', usable', P)
    BY <1>1, <1>2, <2>1 DEF Placed
  <2> QED
    BY <1>1, <1>5, <2>2, QuietStep
<1>7. CASE mem[h].next # h
  <2> DEFINE e == mem[h].next
  <2>1. mem' = list_move_tail(mem, e, h)
    BY <1>3, <1>7 DEF list_rotate_left, list_empty
  <2>2. e \in Entries /\ e \in P /\ h \in P \ {e}
    <3>1. e \notin usable
      BY <1>2, <1>4, <1>7, Neighbours
    <3> QED
      BY <1>4, <1>7, <3>1
  <2> HIDE DEF e
  <2>3. mem' \in Memory /\ PlacedAs(mem', usable, P \cup {e}, own, P \ {e})
    BY <1>2, <2>1, <2>2, MoveOp
  <2>4. Placed(mem', usable', P \cup {e})
    BY <1>1, <2>3 DEF Placed, PlacedAs
  <2> QED
    BY <1>1, <1>5, <2>3, <2>4, QuietStep
<1> QED
  BY <1>6, <1>7

(* list_cut_position.                                                      *)
LEMMA CutInv ==
  ASSUME ListHeadAssumption, IInv, Cut
  PROVE  IInv'
<1>1. Outside /\ writer = None /\ UNCHANGED <<writer, reader, loop>>
  BY DEF Cut, Outside, Alone
<1>2. PICK P, own, pos :
        /\ Placement(mem, usable, P, own, pos) /\ Settled = mem
        /\ mem \in Memory /\ P \subseteq Node /\ usable \subseteq Heads
  BY <1>1, Idle
<1>3. PICK h \in usable, l \in Heads, k \in Node :
        /\ l # h
        /\ NothingToCut(mem, h, k) \/ k \in {h} \cup ToSet(OnList(h))
        /\ mem' = list_cut_position(mem, l, h, k)
        /\ Called("list_cut_position", <<l, h, k>>)
        /\ usable' = IF NothingToCut(mem, h, k) THEN usable ELSE usable \cup {l}
  BY DEF Cut
<1>4. h \in P /\ own[h] = h /\ l \in Node /\ h \in Node
  BY <1>2, PlacedNodes DEF Node
<1>5. usable' \subseteq Heads /\ call' \in [op : Operations, args : Seq(Node)]
  <2>1. <<l, h, k>> \in Seq(Node)
    BY <1>3, <1>4
  <2> QED
    BY <1>2, <1>3, <2>1, CalledType DEF Operations
<1>6. CASE NothingToCut(mem, h, k)
  <2>1. mem' = mem /\ usable' = usable
    BY <1>3, <1>6 DEF list_cut_position
  <2>2. mem' \in Memory /\ Placed(mem', usable', P)
    BY <1>2, <2>1 DEF Placed
  <2> QED
    BY <1>1, <1>5, <2>2, QuietStep
<1>7. CASE ~NothingToCut(mem, h, k)
  <2>1. k \in P /\ own[k] = h
    <3>1. TypeOK
      BY DEF IInv
    <3> QED
      BY <1>2, <1>3, <1>4, <1>7, <3>1, OnListMeets
  <2>2. /\ mem' = IF k = h THEN INIT_LIST_HEAD(mem, l)
                  ELSE __list_cut_position(mem, l, h, k)
        /\ usable' = usable \cup {l}
    BY <1>3, <1>7 DEF list_cut_position
  <2>3. l \in Heads \ {h}
    BY <1>3
  <2>4. mem' \in Memory /\ SomePlaced(mem', usable \cup {l})
    BY <1>2, <2>1, <2>2, <2>3, CutOp
  <2>5. PICK P2 : Placed(mem', usable', P2)
    BY <2>2, <2>4 DEF SomePlaced
  <2> QED
    BY <1>1, <1>5, <2>4, <2>5, QuietStep
<1> QED
  BY <1>6, <1>7

(* The four forms of list_splice.                                          *)
LEMMA SpliceInv ==
  ASSUME ListHeadAssumption, IInv, Splice
  PROVE  IInv'
<1>1. Outside /\ writer = None /\ UNCHANGED <<writer, reader, loop>>
  BY DEF Splice, Outside, Alone
<1>2. PICK P, own, pos :
        /\ Placement(mem, usable, P, own, pos) /\ Settled = mem
        /\ mem \in Memory /\ P \subseteq Node /\ usable \subseteq Heads
        /\ Places = P
  BY <1>1, Idle
<1>3. PICK l \in usable, p \in Places :
        /\ p \notin {l} \cup ToSet(OnList(l))
        /\ \/ /\ \/ /\ mem' = list_splice(mem, l, p)
                    /\ Called("list_splice", <<l, p>>)
                 \/ /\ mem' = list_splice_tail(mem, l, p)
                    /\ Called("list_splice_tail", <<l, p>>)
              /\ usable' = IF list_empty(mem, l) THEN usable ELSE usable \ {l}
           \/ /\ \/ /\ mem' = list_splice_init(mem, l, p)
                    /\ Called("list_splice_init", <<l, p>>)
                 \/ /\ mem' = list_splice_tail_init(mem, l, p)
                    /\ Called("list_splice_tail_init", <<l, p>>)
              /\ UNCHANGED usable
  BY DEF Splice
<1>4. p \in P /\ p \in Node /\ l \in Node
  BY <1>2, <1>3 DEF Node
<1>5. usable' \subseteq Heads /\ call' \in [op : Operations, args : Seq(Node)]
  <2>1. <<l, p>> \in Seq(Node)
    BY <1>4
  <2>2. usable' \subseteq usable
    BY <1>3
  <2> QED
    BY <1>2, <1>3, <2>1, <2>2, CalledType DEF Operations
<1>6. CASE mem[l].next = l
  <2>1. mem' = mem /\ usable' = usable
    BY <1>3, <1>6 DEF list_splice, list_splice_tail, list_splice_init,
                     list_splice_tail_init, list_empty
  <2>2. mem' \in Memory /\ Placed(mem', usable', P)
    BY <1>2, <2>1 DEF Placed
  <2> QED
    BY <1>1, <1>5, <2>2, QuietStep
<1>7. CASE mem[l].next # l
  <2>1. own[p] # l
    <3>1. TypeOK
      BY DEF IInv
    <3>2. p \in usable => own[p] = p
      BY <1>2, PlacedNodes
    <3>3. p \in P \ usable => own[p] # l
      BY <1>2, <1>3, <3>1, OnListMeets
    <3> QED
      BY <1>3, <1>4, <3>2, <3>3
  <2>2. PICK m2 \in {__list_splice(mem, l, p, mem[p].next),
                     __list_splice(mem, l, mem[p].prev, p)} :
          \/ mem' = m2 /\ usable' = usable \ {l}
          \/ mem' = INIT_LIST_HEAD(m2, l) /\ usable' = usable
    BY <1>3, <1>7 DEF list_splice, list_splice_tail, list_splice_init,
                     list_splice_tail_init, list_empty
  <2>3. SplicedOut(m2, usable, P, l)
    BY <1>2, <1>4, <1>7, <2>1, SpliceOp
  <2>4. CASE mem' = m2 /\ usable' = usable \ {l}
    <3>1. mem' \in Memory /\ Placed(mem', usable', P \ {l})
      BY <2>3, <2>4 DEF SplicedOut
    <3> QED
      BY <1>1, <1>5, <3>1, QuietStep
  <2>5. CASE mem' = INIT_LIST_HEAD(m2, l) /\ usable' = usable
    <3>1. mem' \in Memory /\ Placed(mem', usable', P)
      BY <2>3, <2>5 DEF SplicedOut
    <3> QED
      BY <1>1, <1>5, <3>1, QuietStep
  <2> QED
    BY <2>2, <2>4, <2>5
<1> QED
  BY <1>6, <1>7

-----------------------------------------------------------------------------
(* The pointers of the other nodes of the list of h, when e leaves it.     *)
OthersOf(P, own, h, e) ==
  \A y \in P \ {e} : own[y] = h =>
    /\ Settled'[y].next =
         IF y = Settled[e].prev THEN Settled[e].next ELSE Settled[y].next
    /\ Settled'[y].prev =
         IF y = Settled[e].next THEN Settled[e].prev ELSE Settled[y].prev

(* What a loop has left to do is not touched when its first entry is taken *)
(* from the list.                                                          *)
LEMMA ChainKept ==
  ASSUME ListHeadAssumption, NEW P, NEW own, NEW pos,
         Placement(Settled, usable, P, own, pos), usable' = usable,
         NEW h \in usable, NEW d \in {"next", "prev"}, NEW t \in Seq(Entries), NEW n,
         Chain(P, own, h, d, t, n), NEW e \in Entries, t # << >>, t[1] = e,
         NEW P2, NEW own2, P \ {e} \subseteq P2, \A x \in P \ {e} : own2[x] = own[x],
         OthersOf(P, own, h, e), e \in P
  PROVE  Chain(P2, own2, h, d, t, n)'
<1>1. /\ IsInjective(t) /\ DOMAIN t = 1 .. Len(t) /\ Len(t) \in Nat /\ Len(t) # 0
      /\ \A i \in 2 .. Len(t) :
           /\ t[i] \in P \ usable /\ own[t[i]] = h
           /\ Go(d, t[i]) = IF i = Len(t) THEN h ELSE t[i + 1]
      /\ n = IF Len(t) = 1 THEN h ELSE t[2]
  BY DEF Chain
<1>2. \A i \in 2 .. Len(t) : t[i] # e
  <2> SUFFICES ASSUME NEW i \in 2 .. Len(t), t[i] = e PROVE FALSE
    OBVIOUS
  <2>0. Len(t) \in Nat /\ DOMAIN t = 1 .. Len(t) /\ IsInjective(t)
    BY <1>1
  <2>1. i \in Nat /\ i # 1 /\ 2 <= i /\ i <= Len(t)
    BY <2>0, SMT
  <2>2. 1 \in DOMAIN t /\ i \in DOMAIN t
    BY <2>0, <2>1
  <2> QED
    BY <2>0, <2>1, <2>2 DEF IsInjective
<1>3. h # e
  BY PlacedNodes DEF ListHeadAssumption
<1>4. ASSUME NEW i \in 2 .. Len(t)
      PROVE  /\ t[i] \in P2 \ usable' /\ own2[t[i]] = h
             /\ Go(d, t[i])' = IF i = Len(t) THEN h ELSE t[i + 1]
  <2> DEFINE x == t[i]
             y == IF i = Len(t) THEN h ELSE t[i + 1]
  <2>1. x \in P \ {e} /\ x \notin usable /\ own[x] = h /\ Go(d, x) = y
    BY <1>1, <1>2
  <2>2. y # e
    <3>1. i # Len(t) => i + 1 \in 2 .. Len(t)
      <4>1. i \in 2 .. Len(t) /\ Len(t) \in Nat
        BY <1>1
      <4> HIDE DEF x, y
      <4> QED
        BY <4>1
    <3> QED
      BY <1>2, <1>3, <3>1
  <2>3. Settled[Settled[x].next].prev = x /\ Settled[Settled[x].prev].next = x
        /\ Settled[Settled[e].next].prev = e /\ Settled[Settled[e].prev].next = e
    BY <2>1, PlacedNodes
  <2> HIDE DEF x, y
  <2>4. CASE d = "next"
    <3>1. Settled[x].next = y
      BY <2>1, <2>4 DEF Go
    <3>2. x # Settled[e].prev
      BY <2>2, <2>3, <3>1
    <3>3. Settled'[x].next = y
      BY <2>1, <3>1, <3>2 DEF OthersOf
    <3>4. Go(d, x)' = y
      BY <2>4, <3>3 DEF Go
    <3> QED
      BY <2>1, <3>4 DEF x, y
  <2>5. CASE d = "prev"
    <3>1. Settled[x].prev = y
      BY <2>1, <2>5 DEF Go
    <3>2. x # Settled[e].next
      BY <2>2, <2>3, <3>1
    <3>3. Settled'[x].prev = y
      BY <2>1, <3>1, <3>2 DEF OthersOf
    <3>4. Go(d, x)' = y
      BY <2>5, <3>3 DEF Go
    <3> QED
      BY <2>1, <3>4 DEF x, y
  <2> QED
    BY <2>4, <2>5
<1> QED
  BY <1>1, <1>4 DEF Chain

(* It is not touched either when the lists stay as they are.               *)
LEMMA ChainFramed ==
  ASSUME NEW P, NEW own, SameOn(Settled, Settled', P), usable' = usable,
         NEW h, NEW d, NEW t, NEW n, Chain(P, own, h, d, t, n)
  PROVE  Chain(P, own, h, d, t, n)'
<1>1. \A x \in P : Go(d, x)' = Go(d, x)
  BY DEF SameOn, Go
<1> QED
  BY <1>1 DEF Chain

(* The loop is where it was.                                               *)
KeepsLoop ==
  IF loop.on
  THEN /\ loop'.on /\ loop'.head = loop.head /\ loop'.dir = loop.dir
       /\ loop'.pos = loop.pos /\ loop'.n = loop.n /\ loop'.todo = loop.todo
       /\ loop'.stale = loop.stale
       /\ loop.stale => loop'.removed = loop.removed
       /\ loop.removed => loop'.removed
  ELSE loop' = loop

(* A loop does not notice what is done elsewhere.                          *)
LEMMA LoopFramed ==
  ASSUME NEW P, NEW own, LoopOK(P, own), usable' = usable, KeepsLoop,
         SameOn(Settled, Settled', P)
  PROVE  LoopOK(P, own)'
<1>1. CASE ~loop.on
  BY <1>1 DEF LoopOK, KeepsLoop
<1>2. CASE loop.on
  <2>0. PICK h, d, t, n : h = loop.head /\ d = loop.dir /\ t = loop.todo /\ n = loop.n
    OBVIOUS
  <2>1. /\ h \in usable
        /\ loop.pos = IF t = << >> THEN h ELSE t[1]
        /\ ~loop.removed => loop.pos \in P /\ own[loop.pos] = h
        /\ loop.stale => ~loop.removed /\ t # << >>
        /\ ~loop.stale => Chain(P, own, h, d, t, n)
    BY <1>2, <2>0 DEF LoopOK
  <2>2. /\ loop'.on /\ loop'.head = h /\ loop'.dir = d /\ loop'.pos = loop.pos
        /\ loop'.n = n /\ loop'.todo = t /\ loop'.stale = loop.stale
        /\ loop.stale => loop'.removed = loop.removed
        /\ loop.removed => loop'.removed
    BY <1>2, <2>0 DEF KeepsLoop
  <2>3. ~loop.stale => Chain(P, own, h, d, t, n)'
    BY <2>1, ChainFramed
  <2>4. ~loop.stale => Chain(P, own, loop.head, loop.dir, loop.todo, loop.n)'
    BY <2>2, <2>3 DEF Chain, Go
  <2> QED
    BY <2>1, <2>2, <2>4 DEF LoopOK
<1> QED
  BY <1>1, <1>2

(* The loop may lose e, and is told if it is the entry it is at.           *)
LoopLoses(P, own, e) ==
  loop.on => IF loop.stale THEN e # loop.pos
             ELSE /\ e = loop.pos /\ e \in P /\ loop'.removed
                  /\ OthersOf(P, own, loop.head, e)

(* It goes on when it loses the entry.                                     *)
LEMMA LoopKept ==
  ASSUME ListHeadAssumption, TypeOK, NEW P, NEW own, NEW pos,
         Placement(Settled, usable, P, own, pos), LoopOK(P, own), usable' = usable,
         NEW e \in Entries, LoopLoses(P, own, e), KeepsLoop,
         NEW P2, NEW own2, P \ {e} \subseteq P2, \A x \in P \ {e} : own2[x] = own[x]
  PROVE  LoopOK(P2, own2)'
<1>1. CASE ~loop.on
  BY <1>1 DEF LoopOK, KeepsLoop
<1>2. CASE loop.on
  <2>0. PICK h, d, t, n : h = loop.head /\ d = loop.dir /\ t = loop.todo /\ n = loop.n
    OBVIOUS
  <2>1. /\ h \in usable
        /\ loop.pos = IF t = << >> THEN h ELSE t[1]
        /\ ~loop.removed => loop.pos \in P /\ own[loop.pos] = h
        /\ loop.stale => ~loop.removed /\ t # << >>
        /\ ~loop.stale => Chain(P, own, h, d, t, n)
    BY <1>2, <2>0 DEF LoopOK
  <2>2. /\ loop'.on /\ loop'.head = h /\ loop'.dir = d /\ loop'.pos = loop.pos
        /\ loop'.n = n /\ loop'.todo = t /\ loop'.stale = loop.stale
        /\ loop.stale => loop'.removed = loop.removed
        /\ loop.removed => loop'.removed
    BY <1>2, <2>0 DEF KeepsLoop
  <2>3. h \in Heads /\ d \in {"next", "prev"} /\ t \in Seq(Entries)
    BY <1>2, <2>0, FieldTypes
  <2>4. CASE loop.stale
    <3>1. e # loop.pos
      BY <1>2, <2>4 DEF LoopLoses
    <3>2. loop.pos \in P2 /\ own2[loop.pos] = h
      BY <2>1, <2>4, <3>1
    <3> QED
      BY <2>1, <2>2, <2>4, <3>2 DEF LoopOK
  <2>5. CASE ~loop.stale
    <3>1. e = loop.pos /\ e \in P /\ loop'.removed /\ OthersOf(P, own, h, e)
      BY <1>2, <2>0, <2>5 DEF LoopLoses
    <3>2. t # << >> /\ t[1] = e
      BY <2>1, <2>3, <3>1 DEF ListHeadAssumption
    <3>3. Chain(P, own, h, d, t, n)
      BY <2>1, <2>5
    <3>4. Chain(P2, own2, h, d, t, n)'
      BY <2>1, <2>3, <3>1, <3>2, <3>3, ChainKept
    <3>5. Chain(P2, own2, loop.head, loop.dir, loop.todo, loop.n)'
      BY <2>2, <3>4 DEF Chain, Go
    <3> QED
      BY <2>1, <2>2, <2>5, <3>1, <3>5 DEF LoopOK
  <2> QED
    BY <2>4, <2>5
<1> QED
  BY <1>1, <1>2

(* What Removed does to the loop.                                          *)
LEMMA RemovedKeeps ==
  ASSUME TypeOK, Removed
  PROVE  /\ KeepsLoop /\ loop' \in Loop
         /\ loop.on /\ ~loop.stale => loop'.removed
<1>1. CASE loop.on /\ ~loop.stale
  <2>1. loop' = [loop EXCEPT !.removed = TRUE]
    BY <1>1 DEF Removed
  <2>2. loop # None /\ loop \in Loop
    BY <1>1, FieldTypes DEF TypeOK
  <2>3. loop \in [on : {TRUE}, head : Heads, dir : {"next", "prev"},
                  pos : Node, n : Node, removed : BOOLEAN, stale : BOOLEAN,
                  todo : Seq(Entries)]
    BY <2>2 DEF Loop
  <2>4. loop' \in [on : {TRUE}, head : Heads, dir : {"next", "prev"},
                   pos : Node, n : Node, removed : BOOLEAN, stale : BOOLEAN,
                   todo : Seq(Entries)]
    BY <2>1, <2>3
  <2>5. KeepsLoop
    BY <1>1, <2>1, <2>3 DEF KeepsLoop
  <2>6. loop'.removed
    BY <2>1, <2>3
  <2> QED
    BY <2>4, <2>5, <2>6 DEF Loop
<1>2. CASE ~(loop.on /\ ~loop.stale)
  BY <1>2 DEF Removed, KeepsLoop, TypeOK
<1> QED
  BY <1>1, <1>2

-----------------------------------------------------------------------------
(* A step under the lock, while a loop may be in progress.                 *)
LEMMA AloneStep ==
  ASSUME TypeOK, Alone, UNCHANGED <<usable, writer, reader>>, mem' \in Memory,
         loop' \in Loop, call' \in [op : Operations, args : Seq(Node)],
         NEW P, NEW own, NEW pos, Placement(mem', usable, P, own, pos),
         LoopOK(P, own)'
  PROVE  IInv'
<1>1. writer' = None /\ reader' = None /\ ~writer'.on /\ ~reader'.on
  BY DEF Alone, None
<1>2. TypeOK'
  BY <1>1 DEF TypeOK, Writer, Reader
<1>3. Settled' = mem'
  BY <1>1 DEF Settled
<1>4. Sound(P, own, pos)'
  BY <1>1, <1>3 DEF Sound, WriterOK, WriterInLoop
<1>5. ReaderOK' /\ CarefulMeansDone'
  BY <1>1 DEF ReaderOK, CarefulMeansDone
<1> QED
  BY <1>2, <1>4, <1>5 DEF IInv

(* list_add and list_add_tail.                                             *)
LEMMA AddInv ==
  ASSUME ListHeadAssumption, IInv, Add
  PROVE  IInv'
<1>1. /\ Alone /\ writer = None /\ TypeOK /\ (loop.on => loop.stale)
      /\ UNCHANGED <<usable, writer, reader, loop>>
  BY DEF Add, Alone, IInv
<1>2. PICK P, own, pos :
        /\ Placement(mem, usable, P, own, pos) /\ LoopOK(P, own) /\ Settled = mem
        /\ mem \in Memory /\ P \subseteq Node
        /\ Places = P /\ Free = Entries \ P
  BY <1>1, Idle
<1>3. PICK e \in Free, p \in Places :
        \/ mem' = list_add(mem, e, p) /\ Called("list_add", <<e, p>>)
        \/ mem' = list_add_tail(mem, e, p) /\ Called("list_add_tail", <<e, p>>)
  BY DEF Add
<1>4. e \in Entries \ P /\ p \in P /\ e \in Node /\ p \in Node
  BY <1>2, <1>3 DEF Node
<1>5. mem' \in {list_add(mem, e, p), list_add_tail(mem, e, p)}
  BY <1>3
<1>6. mem' \in Memory /\ PlacedAs(mem', usable, P \cup {e}, own, P)
  BY <1>2, <1>4, <1>5, AddOp
<1>7. PICK own2, pos2 : /\ Placement(mem', usable, P \cup {e}, own2, pos2)
                        /\ \A x \in P : own2[x] = own[x]
  BY <1>6 DEF PlacedAs
<1>8. call' \in [op : Operations, args : Seq(Node)]
  <2>1. <<e, p>> \in Seq(Node)
    BY <1>4
  <2> QED
    BY <1>3, <2>1, CalledType DEF Operations
<1>9. LoopLoses(P, own, e) /\ KeepsLoop
  BY <1>1, <1>2, <1>4 DEF LoopLoses, LoopOK, KeepsLoop
<1>10. LoopOK(P \cup {e}, own2)'
  <2>1. P \ {e} \subseteq P \cup {e} /\ \A x \in P \ {e} : own2[x] = own[x]
    BY <1>7
  <2>2. usable' = usable /\ Placement(Settled, usable, P, own, pos) /\ e \in Entries
    BY <1>1, <1>2, <1>4
  <2> QED
    BY <1>1, <1>2, <1>9, <2>1, <2>2, LoopKept
<1>11. loop' \in Loop
  BY <1>1 DEF TypeOK
<1> QED
  BY <1>1, <1>6, <1>7, <1>8, <1>10, <1>11, AloneStep

(* What may be removed is on a list or alone; it is on the list of the     *)
(* loop if the loop loses it.                                              *)
LEMMA Removable ==
  ASSUME ListHeadAssumption, TypeOK, NEW P, NEW own, NEW pos,
         Placement(Settled, usable, P, own, pos), LoopOK(P, own), writer = None,
         NEW e \in Listed \cup Clean, MayRemove(e)
  PROVE  /\ e \in Entries /\ e \in Node
         /\ e \notin P => mem[e].next = e /\ mem[e].prev = e
         /\ loop.on /\ loop.stale => e # loop.pos
         /\ loop.on /\ ~loop.stale => e = loop.pos /\ e \in P /\ own[e] = loop.head
<1>1. Listed = P \ usable /\ Free = Entries \ P /\ P \subseteq usable \cup Entries
  BY PlacesMeet, PlacedNodes
<1>2. e \in Entries /\ (e \notin P => mem[e].next = e /\ mem[e].prev = e)
  BY <1>1 DEF Clean, RingOfOne
<1> QED
  BY <1>2 DEF MayRemove, LoopOK, Node

(* list_del.                                                               *)
LEMMA DeleteInv ==
  ASSUME ListHeadAssumption, IInv, Delete
  PROVE  IInv'
<1>1. /\ Alone /\ writer = None /\ TypeOK /\ UNCHANGED <<usable, writer, reader>>
  BY DEF Delete, Alone, IInv
<1>2. PICK P, own, pos :
        /\ Placement(mem, usable, P, own, pos) /\ LoopOK(P, own) /\ Settled = mem
        /\ mem \in Memory /\ P \subseteq Node
  BY <1>1, Idle
<1>3. PICK e \in Listed \cup Clean :
        MayRemove(e) /\ mem' = list_del(mem, e) /\ Called("list_del", <<e>>) /\ Removed
  BY DEF Delete
<1>4. /\ e \in Entries /\ e \in Node
      /\ e \notin P => mem[e].next = e /\ mem[e].prev = e
      /\ loop.on /\ loop.stale => e # loop.pos
      /\ loop.on /\ ~loop.stale => e = loop.pos /\ e \in P
  BY <1>1, <1>2, <1>3, Removable
<1>5. mem[e].next \in Node /\ mem[e].prev \in Node
  BY <1>2, <1>4, EntryPointers
<1>6. mem' \in Memory /\ Unlinked(mem, mem', Node, e)
  BY <1>2, <1>3, <1>4, <1>5, DeleteStores
<1>7. Unlinked(mem, mem', P, e)
  BY <1>2, <1>6 DEF Unlinked
<1>8. PICK own2, pos2 : /\ Placement(mem', usable, P \ {e}, own2, pos2)
                        /\ \A x \in P \ {e} : own2[x] = own[x]
  <2>1. PlacedAs(mem', usable, P \ {e}, own, P \ {e})
    BY <1>2, <1>4, <1>7, RemoveOp
  <2> QED
    BY <2>1 DEF PlacedAs
<1>9. call' \in [op : Operations, args : Seq(Node)]
  <2>1. <<e>> \in Seq(Node)
    BY <1>4
  <2> QED
    BY <1>3, <2>1, CalledType DEF Operations
<1>10. /\ KeepsLoop /\ loop' \in Loop
       /\ loop.on /\ ~loop.stale => loop'.removed
  BY <1>1, <1>3, RemovedKeeps
<1>11. Settled' = mem'
  BY <1>1 DEF Settled, None
<1>12. LoopLoses(P, own, e)
  BY <1>2, <1>4, <1>7, <1>10, <1>11 DEF LoopLoses, OthersOf, Unlinked
<1>13. LoopOK(P \ {e}, own2)'
  <2>1. P \ {e} \subseteq P \ {e} /\ Placement(Settled, usable, P, own, pos)
        /\ usable' = usable
    BY <1>1, <1>2
  <2> QED
    BY <1>1, <1>2, <1>4, <1>8, <1>10, <1>12, <2>1, LoopKept
<1> QED
  BY <1>1, <1>6, <1>8, <1>9, <1>10, <1>13, AloneStep

(* list_move and list_move_tail.                                           *)
LEMMA MoveInv ==
  ASSUME ListHeadAssumption, IInv, Move
  PROVE  IInv'
<1>1. /\ Alone /\ writer = None /\ TypeOK /\ UNCHANGED <<usable, writer, reader>>
  BY DEF Move, Alone, IInv
<1>2. PICK P, own, pos :
        /\ Placement(mem, usable, P, own, pos) /\ LoopOK(P, own) /\ Settled = mem
        /\ mem \in Memory /\ P \subseteq Node /\ Places = P
  BY <1>1, Idle
<1>3. PICK e \in Listed \cup Clean, p \in Places :
        /\ p # e /\ MayRemove(e)
        /\ loop.on /\ ~loop.stale => p \notin {loop.head} \cup ToSet(OnList(loop.head))
        /\ \/ mem' = list_move(mem, e, p) /\ Called("list_move", <<e, p>>)
           \/ mem' = list_move_tail(mem, e, p) /\ Called("list_move_tail", <<e, p>>)
        /\ Removed
  BY DEF Move
<1>4. /\ e \in Entries /\ e \in Node
      /\ e \notin P => mem[e].next = e /\ mem[e].prev = e
      /\ loop.on /\ loop.stale => e # loop.pos
      /\ loop.on /\ ~loop.stale => e = loop.pos /\ e \in P
  BY <1>1, <1>2, <1>3, Removable
<1>5. p \in P \ {e} /\ p \in Node
  BY <1>2, <1>3
<1>6. mem' \in {list_move(mem, e, p), list_move_tail(mem, e, p)}
  BY <1>3
<1>7. /\ mem' \in Memory /\ PlacedAs(mem', usable, P \cup {e}, own, P \ {e})
      /\ UnlinkedApart(mem, mem', P, own, e, own[p])
  BY <1>2, <1>4, <1>5, <1>6, MoveOp
<1>8. PICK own2, pos2 : /\ Placement(mem', usable, P \cup {e}, own2, pos2)
                        /\ \A x \in P \ {e} : own2[x] = own[x]
  BY <1>7 DEF PlacedAs
<1>9. call' \in [op : Operations, args : Seq(Node)]
  <2>1. <<e, p>> \in Seq(Node)
    BY <1>4, <1>5
  <2> QED
    BY <1>3, <2>1, CalledType DEF Operations
<1>10. /\ KeepsLoop /\ loop' \in Loop
       /\ loop.on /\ ~loop.stale => loop'.removed
  BY <1>1, <1>3, RemovedKeeps
<1>11. Settled' = mem'
  BY <1>1 DEF Settled, None
<1>12. ASSUME loop.on, ~loop.stale PROVE own[p] # loop.head
  <2>1. loop.head \in usable
    BY <1>2, <1>12 DEF LoopOK
  <2>2. p \notin ToSet(OnList(loop.head)) /\ p # loop.head
    BY <1>3, <1>12
  <2>3. \A x : x \in ToSet(OnList(loop.head)) <=> x \in P \ usable /\ own[x] = loop.head
    BY <1>1, <1>2, <2>1, OnListMeets
  <2>4. p \in usable => own[p] = p
    BY <1>2, PlacedNodes
  <2> QED
    BY <1>5, <2>2, <2>3, <2>4
<1>13. LoopLoses(P, own, e)
  <2> SUFFICES ASSUME loop.on, ~loop.stale PROVE OthersOf(P, own, loop.head, e)
    BY <1>4, <1>10 DEF LoopLoses
  <2> QED
    BY <1>2, <1>7, <1>11, <1>12 DEF OthersOf, UnlinkedApart
<1>14. LoopOK(P \cup {e}, own2)'
  <2>1. P \ {e} \subseteq P \cup {e} /\ Placement(Settled, usable, P, own, pos)
        /\ usable' = usable
    BY <1>1, <1>2
  <2> QED
    BY <1>1, <1>2, <1>4, <1>8, <1>10, <1>13, <2>1, LoopKept
<1> QED
  BY <1>1, <1>7, <1>8, <1>9, <1>10, <1>14, AloneStep

-----------------------------------------------------------------------------
(* list_del_init begins.                                                   *)
LEMMA DelInitBeginsInv ==
  ASSUME ListHeadAssumption, IInv, DelInitBegins
  PROVE  IInv'
<1>1. /\ writer = None /\ TypeOK /\ ReaderOK /\ CarefulMeansDone
      /\ UNCHANGED <<mem, usable, reader, call>>
  BY DEF DelInitBegins, IInv
<1>2. PICK P, own, pos :
        /\ Placement(mem, usable, P, own, pos) /\ LoopOK(P, own) /\ Settled = mem
        /\ Listed = P \ usable /\ P \subseteq Node
  BY <1>1, Idle
<1>3. PICK e \in Listed \cup Clean :
        /\ MayRemove(e) /\ (e \in Listed \/ reader = None) /\ Removed
        /\ writer' = [on |-> TRUE, entry |-> e, prev |-> mem[e].prev,
                      next |-> mem[e].next, at |-> 1]
  BY DEF DelInitBegins
<1>4. /\ e \in Entries /\ e \in Node
      /\ e \notin P => mem[e].next = e /\ mem[e].prev = e
      /\ loop.on /\ loop.stale => e # loop.pos
      /\ loop.on /\ ~loop.stale => e = loop.pos /\ e \in P
  BY <1>1, <1>2, <1>3, Removable
<1>5. mem[e].next \in Node /\ mem[e].prev \in Node
  BY <1>2, <1>4, EntryPointers
<1>6. /\ writer'.on /\ writer'.entry = e /\ writer'.prev = mem[e].prev
      /\ writer'.next = mem[e].next /\ writer'.at = 1
  BY <1>3
<1>7. KeepsLoop /\ loop' \in Loop /\ (loop.on /\ ~loop.stale => loop'.removed)
  BY <1>1, <1>3, RemovedKeeps
<1>8. TypeOK'
  <2>1. writer' \in Writer
    BY <1>3, <1>4, <1>5 DEF Writer
  <2> QED
    BY <1>1, <1>7, <2>1 DEF TypeOK
<1>9. Settled' = mem
  BY <1>1, <1>6 DEF Settled
<1>10. e \in P => /\ mem[e].next # e /\ mem[e].prev # e
                  /\ mem[mem[e].next].prev = e /\ mem[mem[e].prev].next = e
  BY <1>2, <1>4, PlacedNodes, Neighbours DEF ListHeadAssumption
<1>11. Sound(P, own, pos)'
  <2>1. Placement(Settled, usable, P, own, pos)'
    BY <1>1, <1>2, <1>9
  <2>2. WriterOK(P)'
    BY <1>4, <1>6, <1>9, <1>10 DEF WriterOK
  <2>3. SameOn(Settled, Settled', P)
    BY <1>2, <1>9 DEF SameOn
  <2>4. LoopOK(P, own)'
    BY <1>1, <1>2, <1>7, <2>3, LoopFramed
  <2>5. WriterInLoop(P)'
    BY <1>4, <1>6, <1>7 DEF WriterInLoop, LoopMayLose, KeepsLoop
  <2> QED
    BY <2>1, <2>2, <2>4, <2>5 DEF Sound
<1>12. reader.on => e \in P
  BY <1>2, <1>3 DEF None
<1>13. ReaderOK'
  BY <1>1, <1>6, <1>10, <1>12 DEF ReaderOK
<1>14. CarefulMeansDone'
  <2> SUFFICES ASSUME reader.on, reader.answer = "empty"
               PROVE  RingOfOne(reader.node)' /\ reader'.node \notin ToBeWritten'
    BY <1>1 DEF CarefulMeansDone
  <2>1. mem[reader.node].next = reader.node /\ mem[reader.node].prev = reader.node
    BY <1>1 DEF CarefulMeansDone, RingOfOne
  <2>2. reader.node \notin {e, mem[e].next, mem[e].prev}
    BY <1>10, <1>12, <2>1
  <2>3. ToBeWritten' = {e, mem[e].next, mem[e].prev}
    BY <1>6 DEF ToBeWritten
  <2> QED
    BY <1>1, <2>1, <2>2, <2>3 DEF RingOfOne
<1> QED
  BY <1>8, <1>11, <1>13, <1>14 DEF IInv

(* What the pointers around the entry are before the first two stores.     *)
LEMMA WriterSees ==
  ASSUME ListHeadAssumption, TypeOK, NEW P, NEW own, NEW pos, Sound(P, own, pos),
         writer.on, writer.at <= 2
  PROVE  /\ Settled[writer.entry].next = writer.next
         /\ Settled[writer.entry].prev = writer.prev
         /\ mem[writer.entry].next = writer.next
         /\ writer.entry \notin P =>
              writer.next = writer.entry /\ writer.prev = writer.entry
         /\ writer.entry \in P =>
              /\ Settled[writer.next].prev = writer.entry
              /\ Settled[writer.prev].next = writer.entry
              /\ mem[writer.prev].next = writer.entry
              /\ writer.next # writer.entry /\ writer.prev # writer.entry
              /\ writer.next \in P /\ writer.prev \in P
<1> DEFINE e == writer.entry
<1>1. Placement(Settled, usable, P, own, pos) /\ WriterOK(P)
  BY DEF Sound
<1>2. /\ Settled[e].next = writer.next /\ Settled[e].prev = writer.prev
      /\ writer.next = e <=> writer.prev = e
      /\ e \notin P => writer.next = e
  BY <1>1 DEF WriterOK
<1>3. e \in Entries /\ writer.prev \in Node
  BY FieldTypes
<1>4. \A y \in Node : Settled[y].next = mem[y].next
  BY SettledMemory
<1>5. e \in P =>
        /\ Settled[Settled[e].next].prev = e /\ Settled[Settled[e].prev].next = e
        /\ Settled[e].next \in P /\ Settled[e].prev \in P
        /\ Settled[e].next # e
  BY <1>1, <1>3, PlacedNodes, Neighbours DEF ListHeadAssumption
<1>6. e \in Node
  BY <1>3 DEF Node
<1> QED
  BY <1>2, <1>3, <1>4, <1>5, <1>6

(* The types after a store of list_del_init.                               *)
LEMMA StoreTypes ==
  ASSUME TypeOK, list_del_init
  PROVE  /\ TypeOK' /\ UNCHANGED <<usable, reader, loop>>
         /\ writer.at # 4 => /\ writer'.on /\ writer'.at = writer.at + 1
                             /\ writer'.entry = writer.entry
                             /\ writer'.prev = writer.prev
                             /\ writer'.next = writer.next
         /\ writer.at = 4 => writer' = None /\ ~writer'.on
<1>1. writer.on /\ writer # None /\ writer \in Writer /\ mem \in Memory
  BY FieldTypes DEF list_del_init, TypeOK
<1>2. /\ writer.entry \in Entries /\ writer.prev \in Node /\ writer.next \in Node
      /\ writer.at \in 1 .. 4
  BY <1>1, FieldTypes
<1>3. writer \in [on : {TRUE}, entry : Entries, prev : Node, next : Node, at : 1 .. 4]
  BY <1>1 DEF Writer
<1>4. mem' \in Memory
  <2>1. mem' = StoreOf(writer)
    BY DEF list_del_init
  <2>2. writer.entry \in Node
    BY <1>2 DEF Node
  <2>3. Node \subseteq Ptr
    BY DEF Ptr
  <2>4. writer.at = 1 \/ writer.at = 2 \/ writer.at = 3 \/ writer.at = 4
    BY <1>2
  <2>5. CASE writer.at = 1
    <3>1. mem' = [mem EXCEPT ![writer.next].prev = writer.prev]
      BY <2>1, <2>5 DEF StoreOf
    <3> QED
      BY <1>1, <1>2, <2>3, <3>1 DEF Memory
  <2>6. CASE writer.at = 2
    <3>1. mem' = [mem EXCEPT ![writer.prev].next = writer.next]
      BY <2>1, <2>6 DEF StoreOf
    <3> QED
      BY <1>1, <1>2, <2>3, <3>1 DEF Memory
  <2>7. CASE writer.at = 3
    <3>1. mem' = [mem EXCEPT ![writer.entry].next = writer.entry]
      BY <2>1, <2>7 DEF StoreOf
    <3> QED
      BY <1>1, <2>2, <2>3, <3>1 DEF Memory
  <2>8. CASE writer.at = 4
    <3>1. mem' = [mem EXCEPT ![writer.entry].prev = writer.entry]
      BY <2>1, <2>8 DEF StoreOf
    <3> QED
      BY <1>1, <2>2, <2>3, <3>1 DEF Memory
  <2> QED
    BY <2>4, <2>5, <2>6, <2>7, <2>8
<1>5. call' \in [op : Operations, args : Seq(Node)]
  <2>1. <<writer.entry>> \in Seq(Node) /\ "list_del_init" \in Operations
    BY <1>2 DEF Node, Operations
  <2> QED
    BY <2>1, CalledType DEF list_del_init, TypeOK
<1>6. CASE writer.at # 4
  <2>1. writer' = [writer EXCEPT !.at = @ + 1]
    BY <1>6 DEF list_del_init
  <2>2. writer.at + 1 \in 1 .. 4
    BY <1>2, <1>6
  <2>3. writer' \in [on : {TRUE}, entry : Entries, prev : Node, next : Node, at : 1 .. 4]
    BY <1>3, <2>1, <2>2
  <2>4. /\ writer'.on /\ writer'.at = writer.at + 1 /\ writer'.entry = writer.entry
        /\ writer'.prev = writer.prev /\ writer'.next = writer.next
    BY <1>3, <2>1
  <2> QED
    BY <1>4, <1>5, <1>6, <2>3, <2>4 DEF list_del_init, TypeOK, Writer
<1>7. CASE writer.at = 4
  BY <1>4, <1>5, <1>7 DEF list_del_init, TypeOK, Writer, None
<1> QED
  BY <1>6, <1>7

-----------------------------------------------------------------------------
(* The store to next->prev.  The memory as if it were not done is the same *)
(* as before.                                                              *)
LEMMA Store1 ==
  ASSUME ListHeadAssumption, IInv, list_del_init, writer.at = 1
  PROVE  IInv'
<1>1. TypeOK /\ writer.on /\ ReaderOK /\ CarefulMeansDone
  BY DEF IInv, list_del_init
<1>2. PICK P, own, pos : Sound(P, own, pos)
  BY DEF IInv
<1>3. PICK e \in Entries, v \in Node, w \in Node :
        e = writer.entry /\ v = writer.prev /\ w = writer.next
  BY <1>1, FieldTypes
<1>4. /\ TypeOK' /\ UNCHANGED <<usable, reader, loop>>
      /\ writer'.on /\ writer'.at = 2 /\ writer'.entry = e
      /\ writer'.prev = v /\ writer'.next = w
  BY <1>1, <1>3, StoreTypes
<1>5. mem' = [mem EXCEPT ![w].prev = v]
  BY <1>3 DEF list_del_init, StoreOf
<1>6. Settled = mem /\ Settled' = [mem' EXCEPT ![w].prev = e]
  BY <1>4 DEF Settled
<1>7. mem \in Memory /\ e \in Node
  BY <1>1 DEF TypeOK, Node
<1>8. \A y \in Node : /\ mem'[y].next = mem[y].next
                      /\ mem'[y].prev = IF y = w THEN v ELSE mem[y].prev
  BY <1>3, <1>5, <1>7 DEF Memory
<1>9. \A y \in Node : /\ Settled'[y].next = mem[y].next
                      /\ Settled'[y].prev = IF y = w THEN e ELSE mem[y].prev
  <2>1. mem' \in Memory
    BY <1>4 DEF TypeOK
  <2> QED
    BY <1>3, <1>6, <1>8, <2>1 DEF Memory
<1>10. Placement(Settled, usable, P, own, pos) /\ P \subseteq Node
  BY <1>2, PlacedNodes DEF Sound
<1>11. /\ mem[e].next = w /\ mem[e].prev = v
       /\ e \notin P => w = e /\ v = e
       /\ e \in P => mem[w].prev = e /\ w # e /\ v # e
  BY <1>1, <1>2, <1>3, <1>6, WriterSees
<1>12. SameOn(Settled, Settled', P)
  BY <1>6, <1>9, <1>10, <1>11 DEF SameOn
<1>13. Sound(P, own, pos)'
  <2>1. Placement(Settled', usable, P, own, pos)
    BY <1>10, <1>12, FramePlacement
  <2>2. WriterOK(P)'
    BY <1>3, <1>4, <1>7, <1>8, <1>9, <1>11 DEF WriterOK
  <2>3. KeepsLoop /\ usable' = usable /\ LoopOK(P, own)
    BY <1>2, <1>4 DEF KeepsLoop, Sound
  <2>4. LoopOK(P, own)'
    BY <1>12, <2>3, LoopFramed
  <2>5. WriterInLoop(P)'
    BY <1>1, <1>2, <1>3, <1>4 DEF Sound, WriterInLoop, LoopMayLose
  <2> QED
    BY <1>4, <2>1, <2>2, <2>4, <2>5 DEF Sound
<1>14. ReaderOK'
  <2>1. reader.on => reader.node \in Node
    BY <1>1, FieldTypes
  <2> QED
    BY <1>1, <1>3, <1>4, <1>8, <2>1 DEF ReaderOK
<1>15. CarefulMeansDone'
  <2>1. reader.on => reader.node \in Node
    BY <1>1, FieldTypes
  <2>2. ToBeWritten = {e, w, v} /\ ToBeWritten' = {e, v}
    BY <1>1, <1>3, <1>4 DEF ToBeWritten
  <2> QED
    BY <1>1, <1>4, <1>8, <2>1, <2>2 DEF CarefulMeansDone, RingOfOne
<1> QED
  BY <1>4, <1>13, <1>14, <1>15 DEF IInv

(* The store to prev->next: the entry leaves its list.                     *)
LEMMA Store2 ==
  ASSUME ListHeadAssumption, IInv, list_del_init, writer.at = 2
  PROVE  IInv'
<1>1. TypeOK /\ writer.on /\ ReaderOK /\ CarefulMeansDone
  BY DEF IInv, list_del_init
<1>2. PICK P, own, pos : Sound(P, own, pos)
  BY DEF IInv
<1>3. PICK e \in Entries, v \in Node, w \in Node :
        e = writer.entry /\ v = writer.prev /\ w = writer.next
  BY <1>1, FieldTypes
<1>4. /\ TypeOK' /\ UNCHANGED <<usable, reader, loop>>
      /\ writer'.on /\ writer'.at = 3 /\ writer'.entry = e
      /\ writer'.prev = v /\ writer'.next = w
  BY <1>1, <1>3, StoreTypes
<1>5. mem' = [mem EXCEPT ![v].next = w]
  BY <1>3 DEF list_del_init, StoreOf
<1>6. Settled = [mem EXCEPT ![w].prev = e] /\ Settled' = mem'
  BY <1>1, <1>3, <1>4 DEF Settled
<1>7. mem \in Memory /\ e \in Node
  BY <1>1 DEF TypeOK, Node
<1>8. \A y \in Node : /\ mem'[y].next = IF y = v THEN w ELSE mem[y].next
                      /\ mem'[y].prev = mem[y].prev
  BY <1>3, <1>5, <1>7 DEF Memory
<1>9. \A y \in Node : /\ Settled[y].next = mem[y].next
                      /\ Settled[y].prev = IF y = w THEN e ELSE mem[y].prev
  BY <1>3, <1>6, <1>7 DEF Memory
<1>10. Placement(Settled, usable, P, own, pos) /\ P \subseteq Node
  BY <1>2, PlacedNodes DEF Sound
<1>11. /\ Settled[e].next = w /\ Settled[e].prev = v /\ mem[e].next = w
       /\ e \notin P => w = e /\ v = e
       /\ e \in P => mem[v].next = e /\ w # e /\ v # e
  BY <1>1, <1>2, <1>3, WriterSees
<1>12. mem[w].prev = v
  BY <1>1, <1>2, <1>3 DEF Sound, WriterOK
<1>13. Unlinked(Settled, Settled', P, e)
  BY <1>6, <1>8, <1>9, <1>10, <1>11, <1>12 DEF Unlinked
<1>14. PICK own2, pos2 : /\ Placement(Settled', usable, P \ {e}, own2, pos2)
                         /\ \A x \in P \ {e} : own2[x] = own[x]
  <2>1. e \notin P => Settled[e].next = e /\ Settled[e].prev = e
    BY <1>11
  <2>2. PlacedAs(Settled', usable, P \ {e}, own, P \ {e})
    BY <1>10, <1>13, <2>1, RemoveOp
  <2> QED
    BY <2>2 DEF PlacedAs
<1>15. Sound(P \ {e}, own2, pos2)'
  <2>1. WriterOK(P \ {e})'
    <3>1. mem'[e].next = w /\ mem'[e].prev = v
      BY <1>7, <1>8, <1>9, <1>11, <1>12
    <3>2. w = e <=> v = e
      BY <1>11
    <3> QED
      BY <1>4, <3>1, <3>2 DEF WriterOK
  <2>2. KeepsLoop /\ usable' = usable /\ LoopOK(P, own)
    BY <1>2, <1>4 DEF KeepsLoop, Sound
  <2>3. LoopLoses(P, own, e)
    BY <1>1, <1>2, <1>3, <1>4, <1>13
      DEF Sound, WriterInLoop, LoopMayLose, LoopLoses, OthersOf, Unlinked
  <2>4. LoopOK(P \ {e}, own2)'
    <3>1. P \ {e} \subseteq P \ {e}
      OBVIOUS
    <3> QED
      BY <1>1, <1>3, <1>10, <1>14, <2>2, <2>3, <3>1, LoopKept
  <2>5. WriterInLoop(P \ {e})'
    BY <1>1, <1>2, <1>3, <1>4 DEF Sound, WriterInLoop, LoopMayLose
  <2> QED
    BY <1>4, <1>14, <2>1, <2>4, <2>5 DEF Sound
<1>16. ReaderOK'
  <2>1. reader.on => reader.node \in Node /\ v # e
    BY <1>1, <1>3, FieldTypes DEF ReaderOK
  <2>2. reader.on => mem[v].next # v
    BY <1>11, <2>1
  <2> QED
    BY <1>1, <1>3, <1>4, <1>8, <2>1, <2>2 DEF ReaderOK
<1>17. CarefulMeansDone'
  <2>1. reader.on => reader.node \in Node
    BY <1>1, FieldTypes
  <2>2. ToBeWritten = {e, v} /\ ToBeWritten' = {e}
    BY <1>1, <1>3, <1>4 DEF ToBeWritten
  <2> QED
    BY <1>1, <1>4, <1>8, <2>1, <2>2 DEF CarefulMeansDone, RingOfOne
<1> QED
  BY <1>4, <1>15, <1>16, <1>17 DEF IInv

(* The stores to the entry itself, which is on no list any more.           *)
LEMMA Store34 ==
  ASSUME ListHeadAssumption, IInv, list_del_init, writer.at > 2
  PROVE  IInv'
<1>1. TypeOK /\ writer.on /\ ReaderOK /\ CarefulMeansDone
  BY DEF IInv, list_del_init
<1>2. PICK P, own, pos : Sound(P, own, pos)
  BY DEF IInv
<1>3. PICK e \in Entries, v \in Node, w \in Node :
        e = writer.entry /\ v = writer.prev /\ w = writer.next
  BY <1>1, FieldTypes
<1>4. /\ TypeOK' /\ UNCHANGED <<usable, reader, loop>>
      /\ writer.at = 3 => /\ writer'.on /\ writer'.at = 4 /\ writer'.entry = e
                          /\ writer'.prev = v /\ writer'.next = w
      /\ writer.at = 4 => ~writer'.on
      /\ writer.at = 3 \/ writer.at = 4
  <2>1. writer.at \in 1 .. 4
    BY <1>1, FieldTypes
  <2>2. writer.at = 3 \/ writer.at = 4
    BY <2>1
  <2> QED
    BY <1>1, <1>3, <2>2, StoreTypes
<1>5. /\ writer.at = 3 => mem' = [mem EXCEPT ![e].next = e]
      /\ writer.at = 4 => mem' = [mem EXCEPT ![e].prev = e]
  BY <1>3 DEF list_del_init, StoreOf
<1>6. Settled = mem /\ Settled' = mem'
  BY <1>4 DEF Settled
<1>7. mem \in Memory /\ e \in Node
  BY <1>1 DEF TypeOK, Node
<1>8. \A y \in Node :
        /\ mem'[y].next = IF y = e /\ writer.at = 3 THEN e ELSE mem[y].next
        /\ mem'[y].prev = IF y = e /\ writer.at = 4 THEN e ELSE mem[y].prev
  BY <1>4, <1>5, <1>7 DEF Memory
<1>9. Placement(Settled, usable, P, own, pos) /\ P \subseteq Node
  BY <1>2, PlacedNodes DEF Sound
<1>10. /\ e \notin P /\ mem[e].prev = v /\ (w = e <=> v = e)
       /\ writer.at = 4 => mem[e].next = e
  BY <1>1, <1>2, <1>3 DEF Sound, WriterOK
<1>11. SameOn(Settled, Settled', P)
  BY <1>6, <1>8, <1>9, <1>10 DEF SameOn
<1>12. Sound(P, own, pos)'
  <2>1. Placement(Settled', usable, P, own, pos)
    BY <1>9, <1>11, FramePlacement
  <2>2. WriterOK(P)'
    BY <1>4, <1>7, <1>8, <1>10 DEF WriterOK
  <2>3. KeepsLoop /\ usable' = usable /\ LoopOK(P, own)
    BY <1>2, <1>4 DEF KeepsLoop, Sound
  <2>4. LoopOK(P, own)'
    BY <1>11, <2>3, LoopFramed
  <2>5. WriterInLoop(P)'
    BY <1>1, <1>2, <1>3, <1>4 DEF Sound, WriterInLoop, LoopMayLose
  <2> QED
    BY <1>4, <2>1, <2>2, <2>4, <2>5 DEF Sound
<1>13. reader.on => reader.node \in Node
  BY <1>1, FieldTypes
<1>14. ReaderOK'
  BY <1>1, <1>3, <1>4, <1>8, <1>13 DEF ReaderOK
<1>15. CarefulMeansDone'
  <2>1. ToBeWritten = {e} /\ (writer.at = 3 => ToBeWritten' = {e})
        /\ (writer.at = 4 => ToBeWritten' = {})
    BY <1>1, <1>3, <1>4 DEF ToBeWritten
  <2> QED
    BY <1>1, <1>4, <1>8, <1>13, <2>1 DEF CarefulMeansDone, RingOfOne
<1> QED
  BY <1>4, <1>12, <1>14, <1>15 DEF IInv

(* Every store.                                                            *)
LEMMA ListDelInitInv ==
  ASSUME ListHeadAssumption, IInv, list_del_init
  PROVE  IInv'
<1>1. writer.at \in 1 .. 4
  BY FieldTypes DEF IInv, list_del_init
<1>2. writer.at = 1 \/ writer.at = 2 \/ writer.at > 2
  BY <1>1
<1> QED
  BY <1>2, Store1, Store2, Store34

-----------------------------------------------------------------------------
(* A step of list_empty_careful changes nothing but what it knows.         *)
LEMMA ReaderStep ==
  ASSUME IInv, UNCHANGED <<mem, usable, writer, loop, call>>, reader' \in Reader,
         ReaderOK', CarefulMeansDone'
  PROVE  IInv'
<1>1. PICK P, own, pos : Sound(P, own, pos)
  BY DEF IInv
<1>2. Settled' = Settled
  BY DEF Settled
<1>3. LoopOK(P, own)'
  BY <1>1, <1>2 DEF Sound, LoopOK, Chain, Go
<1>4. WriterOK(P)' /\ WriterInLoop(P)'
  BY <1>1, <1>2 DEF Sound, WriterOK, WriterInLoop, LoopMayLose
<1>5. Sound(P, own, pos)'
  BY <1>1, <1>2, <1>3, <1>4 DEF Sound
<1>6. TypeOK'
  BY DEF IInv, TypeOK
<1> QED
  BY <1>5, <1>6 DEF IInv

(* The first load.                                                         *)
LEMMA CarefulReadsNextInv ==
  ASSUME ListHeadAssumption, IInv, CarefulReadsNext
  PROVE  IInv'
<1>1. TypeOK /\ UNCHANGED <<mem, usable, writer, loop, call>>
      /\ (writer.on => writer.prev # writer.entry)
  BY DEF CarefulReadsNext, IInv
<1>2. PICK P, own, pos : Placement(Settled, usable, P, own, pos)
  BY DEF IInv, Sound
<1>3. PICK x \in Places \cup Clean \cup (IF writer.on THEN {writer.entry} ELSE {}) :
        reader' = [on |-> TRUE, node |-> x, next |-> mem[x].next, answer |-> "unknown"]
  BY DEF CarefulReadsNext
<1>4. x \in Node
  <2>1. Places \subseteq Node
    BY <1>1, <1>2, PlacesMeet, PlacedNodes
  <2>2. writer.on => writer.entry \in Node
    BY <1>1, FieldTypes DEF Node
  <2>3. Clean \subseteq Node
    BY DEF Clean, Free, Node
  <2> QED
    BY <1>3, <2>1, <2>2, <2>3
<1>5. reader' \in Reader
  <2>1. mem[x].next \in Ptr
    BY <1>1, <1>4 DEF TypeOK, Memory
  <2> QED
    BY <1>3, <1>4, <2>1 DEF Reader
<1>6. ReaderOK' /\ CarefulMeansDone'
  BY <1>1, <1>3 DEF ReaderOK, CarefulMeansDone
<1> QED
  BY <1>1, <1>5, <1>6, ReaderStep

(* The second load, and the answer: both pointers name the node itself,    *)
(* and an entry that is being deleted has both only after the last store.  *)
LEMMA ListEmptyCarefulInv ==
  ASSUME ListHeadAssumption, IInv, list_empty_careful
  PROVE  IInv'
<1>1. /\ TypeOK /\ ReaderOK /\ UNCHANGED <<mem, usable, writer, loop, call>>
      /\ reader.on /\ reader.answer = "unknown"
      /\ reader' = Answer(/\ reader.next = reader.node
                          /\ reader.next = mem[reader.node].prev)
  BY DEF list_empty_careful, IInv
<1>2. PICK P, own, pos : Sound(P, own, pos)
  BY DEF IInv
<1>3. reader \in [on : {TRUE}, node : Node, next : Ptr,
                  answer : {"unknown", "empty", "not_empty"}]
  BY <1>1, FieldTypes DEF TypeOK, Reader
<1>4. /\ reader' \in Reader /\ reader'.node = reader.node /\ reader'.on
      /\ reader'.answer # "unknown"
      /\ reader'.answer = "empty" =>
           reader.next = reader.node /\ reader.next = mem[reader.node].prev
  BY <1>1, <1>3 DEF Answer, Reader
<1>5. ReaderOK'
  BY <1>1, <1>4 DEF ReaderOK
<1>6. CarefulMeansDone'
  <2> DEFINE x == reader.node
  <2> SUFFICES ASSUME reader'.answer = "empty"
               PROVE  RingOfOne(x) /\ x \notin ToBeWritten
    BY <1>1, <1>4 DEF CarefulMeansDone, RingOfOne, ToBeWritten
  <2>1. mem[x].next = x /\ mem[x].prev = x
    BY <1>1, <1>4 DEF ReaderOK
  <2>2. ASSUME writer.on PROVE x \notin ToBeWritten
    <3>1. writer.prev # writer.entry
      BY <1>1, <2>2 DEF ReaderOK
    <3>2. writer.next # writer.entry /\ writer.at \in 1 .. 4
      BY <1>1, <1>2, <2>2, <3>1, FieldTypes DEF Sound, WriterOK
    <3>3. CASE writer.at > 2
      <4>1. /\ mem[writer.entry].prev = writer.prev
            /\ writer.at # 1 /\ ~(writer.at <= 2)
        BY <1>2, <2>2, <3>2, <3>3 DEF Sound, WriterOK
      <4> QED
        BY <2>1, <3>1, <4>1 DEF ToBeWritten
    <3>4. CASE writer.at <= 2
      <4>1. /\ mem[writer.entry].next = writer.next
            /\ mem[writer.prev].next = writer.entry
            /\ Settled[writer.next].prev = writer.entry
        BY <1>1, <1>2, <2>2, <3>1, <3>4, WriterSees
      <4>2. x # writer.entry /\ x # writer.prev
        BY <2>1, <3>1, <3>2, <4>1
      <4>3. writer.at = 1 => x # writer.next
        <5>1. writer.at = 1 => Settled = mem
          BY DEF Settled
        <5> QED
          BY <2>1, <3>2, <4>1, <5>1
      <4> QED
        BY <4>2, <4>3 DEF ToBeWritten
    <3> QED
      BY <3>2, <3>3, <3>4
  <2>3. ~writer.on => ToBeWritten = {}
    BY DEF ToBeWritten
  <2> QED
    BY <2>1, <2>2, <2>3 DEF RingOfOne
<1> QED
  BY <1>1, <1>4, <1>5, <1>6, ReaderStep

(* The caller goes on.                                                     *)
LEMMA CarefulReturnedInv ==
  ASSUME ListHeadAssumption, IInv, CarefulReturned
  PROVE  IInv'
<1>1. /\ UNCHANGED <<mem, usable, writer, loop, call>> /\ reader' \in Reader
      /\ ~reader'.on
  BY DEF CarefulReturned, Reader, None
<1>2. ReaderOK' /\ CarefulMeansDone'
  BY <1>1 DEF ReaderOK, CarefulMeansDone
<1> QED
  BY <1>1, <1>2, ReaderStep

-----------------------------------------------------------------------------
(* The entries of s come one after the other, after x and up to the head.  *)
Trail(m, U, P, own, x, s) ==
  /\ IsInjective(s)
  /\ m[x].next = IF s = << >> THEN own[x] ELSE s[1]
  /\ \A i \in 1 .. Len(s) :
       /\ s[i] \in P \ U /\ own[s[i]] = own[x] /\ s[i] # x
       /\ m[s[i]].next = IF i = Len(s) THEN own[x] ELSE s[i + 1]

(* After the last position comes the head, after another the next one.     *)
LEMMA NextByPosition ==
  ASSUME ListHeadAssumption, NEW m, NEW U, NEW P, NEW own, NEW pos,
         Placement(m, U, P, own, pos), NEW y \in P
  PROVE  /\ m[y].next \in P /\ own[m[y].next] = own[y]
         /\ pos[y] = LastPos(m, pos, own[y]) => m[y].next = own[y]
         /\ pos[y] # LastPos(m, pos, own[y]) => pos[m[y].next] = pos[y] + 1
<1> DEFINE h == own[y]
<1>1. Shape(U, P, own, pos) /\ InOrder(m, U, P, own, pos)
  BY DEF Placement
<1>2. h \in U /\ h \in P /\ own[h] = h
  BY <1>1 DEF Shape
<1>3. /\ m[y].next \in P /\ m[m[y].next].prev = y /\ m[h].prev \in P
      /\ m[m[h].prev].next = h
  BY <1>2, PlacedNodes
<1>4. own[m[y].next] = own[y] /\ own[m[h].prev] = h
  BY <1>1, <1>2, Neighbours DEF InOrder
<1>5. ASSUME pos[y] = LastPos(m, pos, own[y]) PROVE m[y].next = own[y]
  <2>1. m[h].prev = y
    BY <1>1, <1>3, <1>4, <1>5 DEF Shape, LastPos
  <2> QED
    BY <1>3, <2>1
<1>6. ASSUME pos[y] # LastPos(m, pos, own[y]) PROVE pos[m[y].next] = pos[y] + 1
  <2>1. m[y].next \notin U
    BY <1>3, <1>6, Neighbours DEF LastPos
  <2> QED
    BY <1>1, <2>1 DEF InOrder
<1> QED
  BY <1>3, <1>4, <1>5, <1>6

(* What the walk meets is a trail.                                         *)
LEMMA MeetsTrail ==
  ASSUME ListHeadAssumption, NEW m, NEW U, NEW P, NEW own, NEW pos,
         Placement(m, U, P, own, pos), NEW x \in P, NEW s,
         Meets(own, pos, P, U, LastPos(m, pos, own[x]), x, s)
  PROVE  Trail(m, U, P, own, x, s)
<1> DEFINE last == LastPos(m, pos, own[x])
<1>1. /\ \A y \in P : own[y] \in U /\ pos[y] \in Nat
      /\ \A y, z \in P : own[y] = own[z] /\ pos[y] = pos[z] => y = z
  BY DEF Placement, Shape
<1>2. last \in Nat
  BY <1>1, PositionsTaken
<1>3. \A y \in P : own[y] = own[x] =>
        /\ m[y].next \in P /\ own[m[y].next] = own[x]
        /\ pos[y] = last => m[y].next = own[x]
        /\ pos[y] # last => pos[m[y].next] = pos[y] + 1
  BY NextByPosition
<1> HIDE DEF last
<1>4. /\ s \in Seq(Entries) /\ Len(s) = last - pos[x]
      /\ \A i \in 1 .. Len(s) :
           s[i] \in P \ U /\ own[s[i]] = own[x] /\ pos[s[i]] = pos[x] + i
  BY DEF Meets, last
<1>5. Len(s) \in Nat /\ DOMAIN s = 1 .. Len(s) /\ pos[x] \in Nat
  BY <1>1, <1>4
<1>6. ASSUME NEW y \in P, own[y] = own[x], NEW i \in 0 .. Len(s), pos[y] = pos[x] + i
      PROVE  m[y].next = IF i = Len(s) THEN own[x] ELSE s[i + 1]
  <2>1. CASE i = Len(s)
    <3>1. pos[y] = last
      BY <1>2, <1>4, <1>5, <1>6, <2>1
    <3> QED
      BY <1>3, <1>6, <2>1, <3>1
  <2>2. CASE i # Len(s)
    <3>1. pos[y] # last /\ i + 1 \in 1 .. Len(s)
      BY <1>2, <1>4, <1>5, <1>6, <2>2
    <3>2. /\ s[i + 1] \in P /\ own[s[i + 1]] = own[x] /\ pos[s[i + 1]] = pos[x] + (i + 1)
          /\ m[y].next \in P /\ own[m[y].next] = own[x]
          /\ pos[m[y].next] = pos[y] + 1
      BY <1>3, <1>4, <1>6, <3>1
    <3>3. pos[m[y].next] = pos[s[i + 1]]
      BY <1>5, <1>6, <3>2
    <3> QED
      BY <1>1, <2>2, <3>2, <3>3
  <2> QED
    BY <2>1, <2>2
<1>7. m[x].next = IF s = << >> THEN own[x] ELSE s[1]
  <2>1. 0 \in 0 .. Len(s) /\ pos[x] = pos[x] + 0 /\ (s = << >> <=> Len(s) = 0)
    BY <1>4, <1>5
  <2>2. m[x].next = IF 0 = Len(s) THEN own[x] ELSE s[0 + 1]
    BY <1>6, <2>1
  <2> QED
    BY <2>1, <2>2
<1>8. ASSUME NEW i \in 1 .. Len(s)
      PROVE  /\ s[i] \in P \ U /\ own[s[i]] = own[x] /\ s[i] # x
             /\ m[s[i]].next = IF i = Len(s) THEN own[x] ELSE s[i + 1]
  <2>1. s[i] \in P \ U /\ own[s[i]] = own[x] /\ pos[s[i]] = pos[x] + i
    BY <1>4
  <2>2. i \in 0 .. Len(s) /\ s[i] # x
    BY <1>5, <2>1
  <2> QED
    BY <1>6, <2>1, <2>2
<1>9. IsInjective(s)
  <2> SUFFICES ASSUME NEW i \in 1 .. Len(s), NEW j \in 1 .. Len(s), s[i] = s[j]
               PROVE  i = j
    BY <1>5 DEF IsInjective
  <2>1. pos[x] + i = pos[x] + j
    BY <1>4
  <2> QED
    BY <1>5, <2>1
<1> QED
  BY <1>7, <1>8, <1>9 DEF Trail

(* The lists the other way round.                                          *)
Mirror(m, P) == [y \in P |-> [next |-> m[y].prev, prev |-> m[y].next]]

(* They are placed like that, too.                                         *)
LEMMA MirrorPlacement ==
  ASSUME ListHeadAssumption, NEW m, NEW U, NEW P, NEW own, NEW pos,
         Placement(m, U, P, own, pos)
  PROVE  \E pos2 : Placement(Mirror(m, P), U, P, own, pos2)
<1> DEFINE m2 == Mirror(m, P)
           last(x) == LastPos(m, pos, own[x])
           pos2 == [x \in P |-> IF x \in U THEN 0 ELSE (last(x) + 1) - pos[x]]
<1>1. Shape(U, P, own, pos) /\ Linked(m, P) /\ InOrder(m, U, P, own, pos)
  BY DEF Placement
<1>2. ASSUME NEW x \in P
      PROVE  /\ own[x] \in U /\ pos[x] \in Nat /\ last(x) \in Nat /\ pos[x] <= last(x)
             /\ x \in U <=> pos[x] = 0
             /\ x \in U => own[x] = x
             /\ m2[x].next = m[x].prev /\ m2[x].prev = m[x].next
             /\ m[x].next \in P /\ m[x].prev \in P
             /\ own[m[x].next] = own[x] /\ own[m[x].prev] = own[x]
             /\ pos[x] = last(x) => m[x].next = own[x]
             /\ pos[x] # last(x) => pos[m[x].next] = pos[x] + 1
             /\ x \notin U => pos[x] = pos[m[x].prev] + 1
             /\ x \in U => pos[m[x].prev] = last(x)
  <2>1. /\ own[x] \in U /\ pos[x] \in Nat
        /\ (x \in U <=> pos[x] = 0) /\ (x \in U => own[x] = x)
    BY <1>1 DEF Shape
  <2>2. last(x) \in Nat
    BY <2>1, PositionsTaken
  <2>3. pos[x] <= last(x)
    BY <1>1 DEF InOrder, LastPos
  <2>4. m[x].next \in P /\ m[x].prev \in P /\ own[m[x].prev] = own[x]
    BY PlacedNodes, Neighbours
  <2>5. /\ own[m[x].next] = own[x]
        /\ pos[x] = last(x) => m[x].next = own[x]
        /\ pos[x] # last(x) => pos[m[x].next] = pos[x] + 1
    BY NextByPosition
  <2>6. x \notin U => pos[x] = pos[m[x].prev] + 1
    BY Neighbours
  <2>7. x \in U => pos[m[x].prev] = last(x)
    BY <2>1 DEF LastPos
  <2>8. m2[x].next = m[x].prev /\ m2[x].prev = m[x].next
    BY DEF Mirror
  <2> QED
    BY <2>1, <2>2, <2>3, <2>4, <2>5, <2>6, <2>7, <2>8
<1>3. \A x, y \in P : own[x] = own[y] => last(x) = last(y)
  OBVIOUS
<1> HIDE DEF m2, last
<1>4. ASSUME NEW x \in P
      PROVE  /\ x \in U => pos2[x] = 0
             /\ x \notin U => pos2[x] = (last(x) + 1) - pos[x] /\ pos2[x] # 0
             /\ pos2[x] \in Nat
  <2>1. pos2[x] = IF x \in U THEN 0 ELSE (last(x) + 1) - pos[x]
    OBVIOUS
  <2>2. pos[x] \in Nat /\ last(x) \in Nat /\ pos[x] <= last(x)
    BY <1>2
  <2> HIDE DEF pos2
  <2> QED
    BY <2>1, <2>2
<1>5. Shape(U, P, own, pos2)
  <2>1. pos2 \in [P -> Nat]
    BY <1>4
  <2>2. \A x, y \in P : own[x] = own[y] /\ pos[x] = pos[y] => x = y
    BY <1>1 DEF Shape
  <2> HIDE DEF pos2
  <2>3. ASSUME NEW x \in P, NEW y \in P, own[x] = own[y], pos2[x] = pos2[y]
        PROVE  x = y
    <3>1. CASE x \in U \/ y \in U
      <4>1. x \in U /\ y \in U
        BY <1>4, <2>3, <3>1
      <4> QED
        BY <1>2, <2>3, <4>1
    <3>2. CASE x \notin U /\ y \notin U
      <4>1. (last(x) + 1) - pos[x] = (last(x) + 1) - pos[y]
        BY <1>3, <1>4, <2>3, <3>2
      <4>2. pos[x] \in Nat /\ pos[y] \in Nat /\ last(x) \in Nat
        BY <1>2
      <4>3. pos[x] = pos[y]
        BY <4>1, <4>2
      <4> QED
        BY <2>2, <2>3, <4>3
    <3> QED
      BY <3>1, <3>2
  <2>4. U \subseteq P
    BY PlacedNodes
  <2> QED
    BY <1>1, <1>4, <2>1, <2>3, <2>4 DEF Shape
<1> HIDE DEF pos2
<1>6. Linked(m2, P)
  BY <1>1, <1>2 DEF Linked
<1>7. InOrder(m2, U, P, own, pos2)
  <2> SUFFICES ASSUME NEW x \in P
               PROVE  /\ own[m2[x].next] = own[x]
                      /\ m2[x].next \notin U => pos2[m2[x].next] = pos2[x] + 1
                      /\ pos2[x] <= pos2[m2[own[x]].prev]
    BY DEF InOrder
  <2>1. own[m2[x].next] = own[x]
    BY <1>2
  <2>2. ASSUME m2[x].next \notin U PROVE pos2[m2[x].next] = pos2[x] + 1
    <3> DEFINE y == m[x].prev
    <3>1. y \in P /\ y \notin U /\ own[y] = own[x] /\ last(y) = last(x) /\ m2[x].next = y
      BY <1>2, <1>3, <2>2
    <3>2. /\ pos[x] \in Nat /\ pos[y] \in Nat /\ last(x) \in Nat
          /\ x \notin U => pos[x] = pos[y] + 1
          /\ x \in U => pos[y] = last(x)
      BY <1>2, <3>1
    <3>3. pos2[y] = (last(x) + 1) - pos[y]
      BY <1>4, <3>1
    <3>4. pos2[x] = IF x \in U THEN 0 ELSE (last(x) + 1) - pos[x]
      BY <1>4
    <3> HIDE DEF y
    <3> QED
      BY <3>1, <3>2, <3>3, <3>4
  <2>3. pos2[x] <= pos2[m2[own[x]].prev]
    <3> DEFINE h == own[x]
               y == m[h].next
    <3>1. /\ h \in U /\ h \in P /\ own[h] = h /\ pos[h] = 0 /\ last(h) = last(x)
          /\ m2[h].prev = y
      BY <1>2, <1>3, PlacedNodes
    <3>2. /\ y \in P /\ own[y] = h /\ last(y) = last(x)
          /\ 0 = last(x) => y = h
          /\ 0 # last(x) => pos[y] = 0 + 1
      BY <1>2, <1>3, <3>1
    <3>3. /\ pos[x] \in Nat /\ last(x) \in Nat /\ pos[x] <= last(x)
          /\ (x \in U <=> pos[x] = 0)
      BY <1>2
    <3>4. /\ x \in U => pos2[x] = 0
          /\ x \notin U => pos2[x] = (last(x) + 1) - pos[x]
          /\ pos2[y] \in Nat /\ (y \notin U => pos2[y] = (last(x) + 1) - pos[y])
      BY <1>4, <3>2
    <3>5. pos[y] # 0 => y \notin U
      BY <1>2, <3>2
    <3> HIDE DEF y, h
    <3> QED
      BY <3>1, <3>2, <3>3, <3>4, <3>5 DEF h
  <2> QED
    BY <2>1, <2>2, <2>3
<1> QED
  BY <1>5, <1>6, <1>7 DEF Placement, m2

-----------------------------------------------------------------------------
(* m has in next what d says.                                              *)
Along(m, P, d) == \A y \in P : Go(d, y) = m[y].next

Trails(P, own, d, x, s) ==
  s \in Seq(Entries) /\ \E m : Trail(m, usable, P, own, x, s) /\ Along(m, P, d)

(* The walk, in either direction, is a trail.                              *)
LEMMA WalkTrail ==
  ASSUME ListHeadAssumption, TypeOK, NEW P, NEW own, NEW pos, Settled = mem,
         Placement(mem, usable, P, own, pos), NEW x \in P, NEW d \in {"next", "prev"}
  PROVE  Trails(P, own, d, x, Walk(d, x))
<1>1. mem \in Memory
  BY DEF TypeOK
<1>2. PICK m, pos2 : /\ Placement(m, usable, P, own, pos2)
                     /\ \A y \in P : Follow(d, y) = m[y].next
  <2>1. CASE d = "next"
    BY <2>1 DEF Follow
  <2>2. CASE d = "prev"
    <3>1. \A y \in P : Mirror(mem, P)[y].next = mem[y].prev
      BY DEF Mirror
    <3> QED
      BY <2>2, <3>1, MirrorPlacement DEF Follow
  <2> QED
    BY <2>1, <2>2
<1>3. Meets(own, pos2, P, usable, LastPos(m, pos2, own[x]), x, Walk(d, x))
  BY <1>1, <1>2, WalkMeets
<1>4. Trail(m, usable, P, own, x, Walk(d, x))
  BY <1>2, <1>3, MeetsTrail
<1>5. \A y \in P : Go(d, y) = Follow(d, y)
  BY DEF Go, Follow
<1> QED
  BY <1>2, <1>3, <1>4, <1>5 DEF Meets, Trails, Along

(* A list that one goes round backwards.                                   *)
LEMMA TrailReversed ==
  ASSUME NEW m, NEW U, NEW P, NEW own, NEW pos, Placement(m, U, P, own, pos),
         NEW h \in U, NEW s \in Seq(Entries), Trail(m, U, P, own, h, s)
  PROVE  Trail(Mirror(m, P), U, P, own, h, Reverse(s)) /\ Reverse(s) \in Seq(Entries)
<1> DEFINE m2 == Mirror(m, P)
           t == Reverse(s)
           n == Len(s)
<1>1. n \in Nat /\ DOMAIN s = 1 .. n
  OBVIOUS
<1>2. t = [i \in 1 .. n |-> s[(n - i) + 1]]
  BY DEF Reverse
<1>3. t \in Seq(Entries) /\ Len(t) = n /\ DOMAIN t = 1 .. n
  <2>1. \A i \in 1 .. n : (n - i) + 1 \in 1 .. n
    BY <1>1
  <2> HIDE DEF t, n
  <2>2. \A i \in 1 .. n : s[(n - i) + 1] \in Entries
    BY <1>1, <2>1
  <2> QED
    BY <1>1, <1>2, <2>2
<1>4. /\ own[h] = h /\ h \in P
      /\ \A x \in P : m[x].next \in P /\ m[m[x].next].prev = x
      /\ \A x \in P : m2[x].next = m[x].prev
  BY PlacedNodes DEF Mirror
<1>5. /\ IsInjective(s)
      /\ m[h].next = IF n = 0 THEN h ELSE s[1]
      /\ \A i \in 1 .. n :
           /\ s[i] \in P \ U /\ own[s[i]] = h /\ s[i] # h
           /\ m[s[i]].next = IF i = n THEN h ELSE s[i + 1]
  <2>1. s = << >> <=> n = 0
    OBVIOUS
  <2> QED
    BY <1>4, <2>1 DEF Trail
<1> HIDE DEF m2, t, n
<1>6. \A i \in 1 .. n : (n - i) + 1 \in 1 .. n /\ t[i] = s[(n - i) + 1]
  BY <1>1, <1>2
<1>7. IsInjective(t)
  <2> SUFFICES ASSUME NEW i \in 1 .. n, NEW j \in 1 .. n, t[i] = t[j]
               PROVE  i = j
    BY <1>3 DEF IsInjective
  <2>1. (n - i) + 1 \in DOMAIN s /\ (n - j) + 1 \in DOMAIN s
        /\ s[(n - i) + 1] = s[(n - j) + 1]
    BY <1>1, <1>6
  <2>2. (n - i) + 1 = (n - j) + 1
    BY <1>5, <2>1 DEF IsInjective
  <2> QED
    BY <1>1, <2>2
<1>8. m2[h].next = IF t = << >> THEN h ELSE t[1]
  <2>1. CASE n = 0
    <3>1. t = << >> /\ m[h].next = h
      BY <1>3, <1>5, <2>1
    <3> QED
      BY <1>4, <3>1
  <2>2. CASE n # 0
    <3>1. t # << >> /\ n \in 1 .. n /\ 1 \in 1 .. n /\ (n - 1) + 1 = n
      BY <1>1, <1>3, <2>2
    <3>2. t[1] = s[n] /\ m[s[n]].next = h /\ s[n] \in P
      BY <1>5, <1>6, <3>1
    <3> QED
      BY <1>4, <3>1, <3>2
  <2> QED
    BY <2>1, <2>2
<1>9. ASSUME NEW i \in 1 .. n
      PROVE  /\ t[i] \in P \ U /\ own[t[i]] = own[h] /\ t[i] # h
             /\ m2[t[i]].next = IF i = n THEN own[h] ELSE t[i + 1]
  <2>1. t[i] = s[(n - i) + 1] /\ (n - i) + 1 \in 1 .. n
    BY <1>6
  <2>2. t[i] \in P \ U /\ own[t[i]] = own[h] /\ t[i] # h
    BY <1>4, <1>5, <2>1
  <2>3. CASE i = n
    <3>1. t[i] = s[1] /\ n # 0
      BY <1>1, <2>1, <2>3
    <3>2. m[h].next = s[1]
      BY <1>5, <3>1
    <3> QED
      BY <1>4, <2>2, <2>3, <3>1, <3>2
  <2>4. CASE i # n
    <3>1. /\ i + 1 \in 1 .. n /\ (n - (i + 1)) + 1 \in 1 .. n
          /\ (n - (i + 1)) + 1 # n /\ ((n - (i + 1)) + 1) + 1 = (n - i) + 1
      BY <1>1, <2>4
    <3>2. t[i + 1] = s[(n - (i + 1)) + 1]
      BY <1>6, <3>1
    <3>3. m[t[i + 1]].next = t[i] /\ t[i + 1] \in P
      BY <1>5, <2>1, <3>1, <3>2
    <3> QED
      BY <1>4, <2>2, <2>4, <3>3
  <2> QED
    BY <2>2, <2>3, <2>4
<1>10. Trail(m2, U, P, own, h, t)
  BY <1>3, <1>4, <1>7, <1>8, <1>9 DEF Trail
<1> QED
  BY <1>3, <1>10 DEF m2, t

(* What a loop has to do is a trail, from the head or from where it is.    *)
LEMMA TrailChain ==
  ASSUME NEW P, NEW own, NEW x \in P, NEW d, NEW s, Trails(P, own, d, x, s)
  PROVE  /\ Go(d, x) = IF s = << >> THEN own[x] ELSE s[1]
         /\ Chain(P, own, own[x], d, s, Go(d, Go(d, x)))
<1> DEFINE h == own[x]
<1>0. PICK m : Trail(m, usable, P, own, x, s) /\ Along(m, P, d)
  BY DEF Trails
<1>1. /\ Len(s) \in Nat /\ DOMAIN s = 1 .. Len(s) /\ (s = << >> <=> Len(s) = 0)
      /\ s \in Seq(Entries)
  BY DEF Trails
<1> HIDE DEF h
<1>2. /\ IsInjective(s)
      /\ Go(d, x) = IF s = << >> THEN h ELSE s[1]
      /\ \A i \in 1 .. Len(s) :
           /\ s[i] \in P \ usable /\ own[s[i]] = h /\ s[i] # x
           /\ Go(d, s[i]) = IF i = Len(s) THEN h ELSE s[i + 1]
  BY <1>0 DEF Trail, Along, h
<1>3. Chain(P, own, h, d, s, Go(d, Go(d, x)))
  <2>1. \A i \in 2 .. Len(s) : i \in 1 .. Len(s)
    BY <1>1
  <2>2. ASSUME s # << >>
        PROVE  Go(d, Go(d, x)) = IF Len(s) = 1 THEN h ELSE s[2]
    <3>1. 1 \in 1 .. Len(s)
      BY <1>1, <2>2
    <3>2. Go(d, x) = s[1]
      BY <1>2, <2>2
    <3>3. Go(d, s[1]) = IF 1 = Len(s) THEN h ELSE s[1 + 1]
      BY <1>2, <3>1
    <3> QED
      BY <3>2, <3>3
  <2> QED
    BY <1>2, <2>1, <2>2 DEF Chain
<1> QED
  BY <1>2, <1>3 DEF h

(* The loop is at x and has what t says to do.                             *)
StartsAt(P, own, d, x, t) ==
  /\ Chain(P, own, own[x], d, t, Go(d, x))
  /\ t \in Seq(Entries) /\ t[1] = x /\ t # << >>

(* It does when the rest is what comes after x.                            *)
LEMMA TrailChainFrom ==
  ASSUME NEW P, NEW own, NEW x \in P, NEW d, NEW s, Trails(P, own, d, x, s),
         x \in Entries
  PROVE  StartsAt(P, own, d, x, << x >> \o s)
<1>18. PICK t : t = << x >> \o s
  OBVIOUS
<1> DEFINE h == own[x]
<1>0. PICK m : Trail(m, usable, P, own, x, s) /\ Along(m, P, d)
  BY DEF Trails
<1>1. /\ Len(s) \in Nat /\ DOMAIN s = 1 .. Len(s) /\ (s = << >> <=> Len(s) = 0)
      /\ s \in Seq(Entries)
  BY DEF Trails
<1> HIDE DEF h
<1>2. /\ IsInjective(s)
      /\ Go(d, x) = IF s = << >> THEN h ELSE s[1]
      /\ \A i \in 1 .. Len(s) :
           /\ s[i] \in P \ usable /\ own[s[i]] = h /\ s[i] # x
           /\ Go(d, s[i]) = IF i = Len(s) THEN h ELSE s[i + 1]
  BY <1>0 DEF Trail, Along, h
<1>11. /\ t \in Seq(Entries) /\ Len(t) = Len(s) + 1 /\ DOMAIN t = 1 .. Len(s) + 1
      /\ t[1] = x /\ \A i \in 2 .. Len(s) + 1 : t[i] = s[i - 1]
  BY <1>1, <1>18
<1>12. \A i \in 2 .. Len(s) + 1 : i - 1 \in 1 .. Len(s)
  BY <1>1
<1>13. IsInjective(t)
  <2> SUFFICES ASSUME NEW i \in 1 .. Len(s) + 1, NEW j \in 1 .. Len(s) + 1, t[i] = t[j]
               PROVE  i = j
    BY <1>11 DEF IsInjective
  <2>1. ASSUME NEW k \in 2 .. Len(s) + 1 PROVE t[k] # x
    <3>1. k - 1 \in 1 .. Len(s) /\ t[k] = s[k - 1]
      BY <1>11, <1>12
    <3> QED
      BY <1>2, <3>1
  <2>2. (i = 1 \/ i \in 2 .. Len(s) + 1) /\ (j = 1 \/ j \in 2 .. Len(s) + 1)
    BY <1>1
  <2>3. CASE i = 1 \/ j = 1
    BY <1>11, <2>1, <2>2, <2>3
  <2>4. CASE i # 1 /\ j # 1
    <3>1. /\ i - 1 \in DOMAIN s /\ j - 1 \in DOMAIN s /\ s[i - 1] = s[j - 1]
      BY <1>1, <1>11, <1>12, <2>2, <2>4
    <3>2. i - 1 = j - 1
      BY <1>2, <3>1 DEF IsInjective
    <3> QED
      BY <1>1, <3>2
  <2> QED
    BY <2>3, <2>4
<1>14. ASSUME NEW i \in 2 .. Len(t)
      PROVE  /\ t[i] \in P \ usable /\ own[t[i]] = h
             /\ Go(d, t[i]) = IF i = Len(t) THEN h ELSE t[i + 1]
  <2>1. i - 1 \in 1 .. Len(s) /\ t[i] = s[i - 1]
    BY <1>11, <1>12
  <2>2. i = Len(t) <=> i - 1 = Len(s)
    BY <1>1, <1>11
  <2>3. i # Len(t) => i + 1 \in 2 .. Len(s) + 1 /\ (i + 1) - 1 = (i - 1) + 1
    BY <1>1, <1>11
  <2>4. i # Len(t) => t[i + 1] = s[(i - 1) + 1]
    BY <1>11, <2>3
  <2> QED
    BY <1>2, <2>1, <2>2, <2>4
<1>15. Go(d, x) = IF Len(t) = 1 THEN h ELSE t[2]
  <2>1. Len(t) = 1 <=> s = << >>
    BY <1>1, <1>11
  <2>2. s # << >> => 2 \in 2 .. Len(s) + 1 /\ 2 - 1 = 1
    BY <1>1
  <2>3. s # << >> => t[2] = s[1]
    BY <1>11, <2>2
  <2> QED
    BY <1>2, <2>1, <2>3
<1>16. t # << >>
  BY <1>1, <1>11
<1>17. Chain(P, own, h, d, t, Go(d, x))
  BY <1>13, <1>14, <1>15 DEF Chain
<1> QED
  BY <1>11, <1>16, <1>17, <1>18 DEF h, StartsAt

-----------------------------------------------------------------------------
(* A step of a loop changes nothing but where the loop is.                 *)
LEMMA LoopStep ==
  ASSUME IInv, writer = None, UNCHANGED <<mem, usable, writer, reader, call>>,
         loop' \in Loop, NEW P, NEW own, NEW pos, Sound(P, own, pos), LoopOK(P, own)'
  PROVE  IInv'
<1>1. Settled' = Settled /\ ~writer'.on
  BY DEF Settled, None
<1>2. Sound(P, own, pos)'
  BY <1>1 DEF Sound, WriterOK, WriterInLoop
<1>3. TypeOK' /\ ReaderOK' /\ CarefulMeansDone'
  BY DEF IInv, TypeOK, ReaderOK, CarefulMeansDone, RingOfOne, ToBeWritten
<1> QED
  BY <1>2, <1>3 DEF IInv

(* The loop is at the first entry, or at the head.                         *)
LEMMA LoopBeginsInv ==
  ASSUME ListHeadAssumption, IInv, LoopBegins
  PROVE  IInv'
<1>1. writer = None /\ TypeOK /\ UNCHANGED <<mem, usable, writer, reader, call>>
  BY DEF LoopBegins, IInv
<1>2. PICK P, own, pos :
        /\ Placement(mem, usable, P, own, pos) /\ Settled = mem /\ Sound(P, own, pos)
        /\ P \subseteq Node /\ usable \subseteq Heads
  BY <1>1, Idle
<1>3. PICK h \in usable, d \in {"next", "prev"} :
        loop' = [on |-> TRUE, head |-> h, dir |-> d, pos |-> Follow(d, h),
                 n |-> Follow(d, Follow(d, h)), removed |-> FALSE, stale |-> FALSE,
                 todo |-> IF d = "next" THEN OnList(h) ELSE Reverse(OnList(h))]
  BY DEF LoopBegins
<1>4. h \in P /\ own[h] = h
  BY <1>2, PlacedNodes
<1>5. PICK s : /\ Trails(P, own, d, h, s) /\ s \in Seq(Entries)
               /\ s = IF d = "next" THEN OnList(h) ELSE Reverse(OnList(h))
  <2>1. OnList(h) = Walk("next", h)
    BY DEF OnList
  <2>2. Trails(P, own, "next", h, OnList(h))
    BY <1>1, <1>2, <1>4, <2>1, WalkTrail
  <2>3. CASE d = "next"
    BY <2>2, <2>3 DEF Trails
  <2>4. CASE d = "prev"
    <3>1. PICK m : /\ Trail(m, usable, P, own, h, OnList(h)) /\ Along(m, P, "next")
                   /\ OnList(h) \in Seq(Entries)
      BY <2>2 DEF Trails
    <3>2. Trail(mem, usable, P, own, h, OnList(h))
      <4>1. \A y \in P : m[y].next = mem[y].next
        BY <1>2, <3>1 DEF Go, Along
      <4> QED
        BY <1>4, <3>1, <4>1 DEF Trail
    <3>3. Trail(Mirror(mem, P), usable, P, own, h, Reverse(OnList(h)))
          /\ Reverse(OnList(h)) \in Seq(Entries)
      BY <1>2, <3>1, <3>2, TrailReversed
    <3>4. Along(Mirror(mem, P), P, d)
      BY <1>2, <2>4 DEF Go, Mirror, Along
    <3> QED
      BY <2>4, <3>3, <3>4 DEF Trails
  <2> QED
    BY <2>3, <2>4
<1>6. /\ Go(d, h) = IF s = << >> THEN h ELSE s[1]
      /\ Chain(P, own, h, d, s, Go(d, Go(d, h)))
  <2>1. Trails(P, own, d, h, s) /\ h \in P
    BY <1>4, <1>5
  <2>2. /\ Go(d, h) = IF s = << >> THEN own[h] ELSE s[1]
        /\ Chain(P, own, own[h], d, s, Go(d, Go(d, h)))
    BY <2>1, TrailChain
  <2> QED
    BY <1>4, <2>2
<1>7. \A y : Follow(d, y) = Go(d, y)
  BY <1>2 DEF Follow, Go
<1>8. \A y \in P : Go(d, y) \in P
  BY <1>2, PlacedNodes DEF Go
<1>9. Go(d, h) \in P /\ own[Go(d, h)] = h /\ Go(d, Go(d, h)) \in P
  BY <1>2, <1>4, <1>8, Neighbours DEF Go, Placement, InOrder
<1>10. /\ loop'.on /\ loop'.head = h /\ loop'.dir = d /\ loop'.pos = Go(d, h)
       /\ loop'.n = Go(d, Go(d, h)) /\ ~loop'.removed /\ ~loop'.stale /\ loop'.todo = s
  BY <1>3, <1>5, <1>7
<1>11. loop' \in Loop
  <2>1. loop' = [on |-> TRUE, head |-> h, dir |-> d, pos |-> Go(d, h),
                 n |-> Go(d, Go(d, h)), removed |-> FALSE, stale |-> FALSE,
                 todo |-> s]
    BY <1>3, <1>5, <1>7
  <2>2. h \in Heads /\ Go(d, h) \in Node /\ Go(d, Go(d, h)) \in Node
    BY <1>2, <1>9
  <2> QED
    BY <1>5, <2>1, <2>2 DEF Loop
<1>12. PICK p, n : p = Go(d, h) /\ n = Go(d, p)
  OBVIOUS
<1>13. Chain(P, own, h, d, s, n)'
  <2>1. Settled' = Settled
    BY <1>1 DEF Settled
  <2> QED
    BY <1>1, <1>6, <1>12, <2>1 DEF Chain, Go
<1>14. LoopOK(P, own)'
  BY <1>1, <1>6, <1>9, <1>10, <1>12, <1>13 DEF LoopOK
<1> QED
  BY <1>1, <1>2, <1>11, <1>14, LoopStep

(* On to the next entry: it is on the list still.                          *)
LEMMA ListForEachSafeInv ==
  ASSUME ListHeadAssumption, IInv, list_for_each_safe
  PROVE  IInv'
<1>1. /\ writer = None /\ TypeOK /\ UNCHANGED <<mem, usable, writer, reader, call>>
      /\ loop.on /\ loop.pos # loop.head /\ ~loop.stale
      /\ loop' = [loop EXCEPT !.pos = loop.n, !.n = Follow(loop.dir, loop.n),
                              !.removed = FALSE, !.todo = Tail(@)]
  BY DEF list_for_each_safe, IInv
<1>2. PICK P, own, pos :
        /\ Placement(mem, usable, P, own, pos) /\ LoopOK(P, own) /\ Settled = mem
        /\ Sound(P, own, pos) /\ P \subseteq Node
  BY <1>1, Idle
<1>3. PICK h, d, t, n : h = loop.head /\ d = loop.dir /\ t = loop.todo /\ n = loop.n
  OBVIOUS
<1>4. /\ h \in Heads /\ d \in {"next", "prev"} /\ t \in Seq(Entries) /\ n \in Node
      /\ loop \in [on : {TRUE}, head : Heads, dir : {"next", "prev"},
                   pos : Node, n : Node, removed : BOOLEAN, stale : BOOLEAN,
                   todo : Seq(Entries)]
  <2>1. loop # None /\ loop \in Loop
    BY <1>1, FieldTypes DEF TypeOK
  <2> QED
    BY <1>1, <1>3, <2>1, FieldTypes DEF Loop
<1>5. /\ h \in usable /\ Chain(P, own, h, d, t, n) /\ t # << >>
  BY <1>1, <1>2, <1>3 DEF LoopOK
<1>6. /\ IsInjective(t) /\ Len(t) \in Nat /\ Len(t) # 0 /\ DOMAIN t = 1 .. Len(t)
      /\ \A i \in 2 .. Len(t) :
           /\ t[i] \in P \ usable /\ own[t[i]] = h
           /\ Go(d, t[i]) = IF i = Len(t) THEN h ELSE t[i + 1]
      /\ n = IF Len(t) = 1 THEN h ELSE t[2]
  BY <1>4, <1>5 DEF Chain
<1>7. PICK u : u = Tail(t)
  OBVIOUS
<1>8. /\ u \in Seq(Entries) /\ DOMAIN u = 1 .. Len(u)
      /\ \A i \in 1 .. Len(u) : u[i] = t[i + 1]
  BY <1>4, <1>5, <1>7
<1>16. PICK k \in Nat, l \in Nat : k = Len(t) /\ l = Len(u) /\ k = l + 1
  <2>1. Len(u) \in Nat /\ Len(t) = Len(u) + 1
    BY <1>4, <1>5, <1>7
  <2> QED
    BY <2>1
<1>17. u = << >> <=> l = 0
  BY <1>8, <1>16
<1>9. n \in P /\ own[n] = h /\ n = IF u = << >> THEN h ELSE u[1]
  <2>1. h \in P /\ own[h] = h
    BY <1>2, <1>5, PlacedNodes
  <2>2. Len(t) # 1 => 2 \in 2 .. Len(t) /\ 1 \in 1 .. Len(u)
    BY <1>16
  <2>3. Len(t) # 1 => n = t[2] /\ u[1] = t[1 + 1] /\ t[2] \in P /\ own[t[2]] = h
    BY <1>6, <1>8, <2>2
  <2> QED
    BY <1>6, <1>16, <1>17, <2>1, <2>3
<1>10. PICK n2 : n2 = Go(d, n)
  OBVIOUS
<1>11. n2 \in P /\ n2 = Follow(d, n)
  BY <1>2, <1>9, <1>10, PlacedNodes DEF Go, Follow
<1>12. Chain(P, own, h, d, u, n2)
  <2>1. IsInjective(u)
    <3> SUFFICES ASSUME NEW i \in 1 .. Len(u), NEW j \in 1 .. Len(u), u[i] = u[j]
                 PROVE  i = j
      BY <1>8 DEF IsInjective
    <3>0. i + 1 \in 1 .. Len(t) /\ j + 1 \in 1 .. Len(t)
      BY <1>16
    <3>1. i + 1 \in DOMAIN t /\ j + 1 \in DOMAIN t /\ t[i + 1] = t[j + 1]
      BY <1>6, <1>8, <3>0
    <3>2. i + 1 = j + 1
      BY <1>6, <3>1 DEF IsInjective
    <3> QED
      BY <3>2
  <2>2. ASSUME NEW i \in 2 .. Len(u)
        PROVE  /\ u[i] \in P \ usable /\ own[u[i]] = h
               /\ Go(d, u[i]) = IF i = Len(u) THEN h ELSE u[i + 1]
    <3>1. i + 1 \in 2 .. Len(t) /\ i \in 1 .. Len(u) /\ (i = Len(u) <=> i + 1 = Len(t))
      BY <1>16
    <3>2. i # Len(u) => i + 1 \in 1 .. Len(u)
      BY <1>16
    <3>3. u[i] = t[i + 1] /\ (i # Len(u) => u[i + 1] = t[(i + 1) + 1])
      BY <1>8, <3>1, <3>2
    <3> QED
      BY <1>6, <3>1, <3>3
  <2>3. u # << >> => n2 = IF Len(u) = 1 THEN h ELSE u[2]
    <3>0. u # << >> => 2 \in 2 .. Len(t) /\ Len(t) # 1 /\ (Len(u) = 1 <=> Len(t) = 2)
      BY <1>16, <1>17
    <3>1. u # << >> => 2 \in 2 .. Len(t) /\ n = t[2] /\ (Len(u) = 1 <=> Len(t) = 2)
      BY <1>6, <3>0
    <3>2. u # << >> /\ Len(u) # 1 => 2 \in 1 .. Len(u)
      BY <1>16, <1>17
    <3>3. u # << >> /\ Len(u) # 1 => u[2] = t[2 + 1]
      BY <1>8, <3>2
    <3>4. u # << >> => Go(d, t[2]) = IF 2 = Len(t) THEN h ELSE t[2 + 1]
      BY <1>6, <3>1
    <3> QED
      BY <1>10, <3>1, <3>3, <3>4
  <2> QED
    BY <2>1, <2>2, <2>3 DEF Chain
<1>13. /\ loop' \in Loop
       /\ loop'.on /\ loop'.head = h /\ loop'.dir = d /\ loop'.pos = n
       /\ loop'.n = n2 /\ ~loop'.removed /\ ~loop'.stale /\ loop'.todo = u
  <2>1. n2 \in Node /\ loop' = [loop EXCEPT !.pos = n, !.n = n2, !.removed = FALSE,
                                            !.todo = u]
    BY <1>1, <1>2, <1>3, <1>7, <1>11
  <2>2. loop' \in [on : {TRUE}, head : Heads, dir : {"next", "prev"},
                   pos : Node, n : Node, removed : BOOLEAN, stale : BOOLEAN,
                   todo : Seq(Entries)]
    BY <1>4, <1>8, <2>1
  <2>3. /\ loop'.on /\ loop'.head = h /\ loop'.dir = d /\ loop'.pos = n
        /\ loop'.n = n2 /\ ~loop'.removed /\ ~loop'.stale /\ loop'.todo = u
    BY <1>1, <1>3, <1>4, <2>1
  <2> QED
    BY <2>2, <2>3 DEF Loop
<1>14. Chain(P, own, h, d, u, n2)'
  <2>1. Settled' = Settled
    BY <1>1 DEF Settled
  <2> QED
    BY <1>1, <1>12, <2>1 DEF Chain, Go
<1>15. LoopOK(P, own)'
  <2>1. h \in usable'
    BY <1>1, <1>5
  <2>2. Chain(P, own, loop.head, loop.dir, loop.todo, loop.n)'
    BY <1>13, <1>14 DEF Chain, Go
  <2>3. loop'.pos = IF loop'.todo = << >> THEN loop'.head ELSE loop'.todo[1]
    BY <1>9, <1>13
  <2> QED
    BY <1>9, <1>13, <2>1, <2>2, <2>3 DEF LoopOK
<1> QED
  BY <1>1, <1>2, <1>13, <1>15, LoopStep

(* From now on only the entry the loop is at is known to stay.             *)
LEMMA LoopUnlocksInv ==
  ASSUME ListHeadAssumption, IInv, LoopUnlocks
  PROVE  IInv'
<1>1. /\ writer = None /\ TypeOK /\ UNCHANGED <<mem, usable, writer, reader, call>>
      /\ loop.on /\ loop.pos # loop.head /\ ~loop.removed /\ ~loop.stale
      /\ loop' = [loop EXCEPT !.stale = TRUE]
  BY DEF LoopUnlocks, IInv
<1>2. PICK P, own, pos : LoopOK(P, own) /\ Sound(P, own, pos)
  BY <1>1, Idle
<1>3. loop \in [on : {TRUE}, head : Heads, dir : {"next", "prev"},
                pos : Node, n : Node, removed : BOOLEAN, stale : BOOLEAN,
                todo : Seq(Entries)]
  <2>1. loop # None /\ loop \in Loop
    BY <1>1, FieldTypes DEF TypeOK
  <2> QED
    BY <2>1 DEF Loop
<1>4. /\ loop' \in Loop /\ loop'.on /\ loop'.head = loop.head /\ loop'.pos = loop.pos
      /\ loop'.removed = loop.removed /\ loop'.stale /\ loop'.todo = loop.todo
  BY <1>1, <1>3 DEF Loop
<1>5. LoopOK(P, own)'
  BY <1>1, <1>2, <1>4 DEF LoopOK
<1> QED
  BY <1>1, <1>2, <1>4, <1>5, LoopStep

(* What comes after that entry is known again.                             *)
LEMMA ListSafeResetNextInv ==
  ASSUME ListHeadAssumption, IInv, list_safe_reset_next
  PROVE  IInv'
<1>1. /\ writer = None /\ TypeOK /\ UNCHANGED <<mem, usable, writer, reader, call>>
      /\ loop.on /\ loop.stale
      /\ loop' = [loop EXCEPT !.n = Follow(loop.dir, loop.pos), !.stale = FALSE,
                              !.todo = << loop.pos >> \o Walk(loop.dir, loop.pos)]
  BY DEF list_safe_reset_next, IInv
<1>2. PICK P, own, pos :
        /\ Placement(mem, usable, P, own, pos) /\ LoopOK(P, own) /\ Settled = mem
        /\ Sound(P, own, pos) /\ P \subseteq Node
  BY <1>1, Idle
<1>3. PICK h, d, x, s : h = loop.head /\ d = loop.dir /\ x = loop.pos /\ s = Walk(d, x)
  OBVIOUS
<1>4. /\ h \in Heads /\ d \in {"next", "prev"} /\ loop.todo \in Seq(Entries)
      /\ loop \in [on : {TRUE}, head : Heads, dir : {"next", "prev"},
                   pos : Node, n : Node, removed : BOOLEAN, stale : BOOLEAN,
                   todo : Seq(Entries)]
  <2>1. loop # None /\ loop \in Loop
    BY <1>1, FieldTypes DEF TypeOK
  <2> QED
    BY <1>1, <1>3, <2>1, FieldTypes DEF Loop
<1>5. /\ h \in usable /\ ~loop.removed /\ x \in P /\ own[x] = h /\ x \in Entries
  <2>1. /\ h \in usable /\ ~loop.removed /\ x \in P /\ own[x] = h
        /\ loop.todo # << >> /\ x = loop.todo[1]
    BY <1>1, <1>2, <1>3 DEF LoopOK
  <2> QED
    BY <1>4, <2>1
<1>6. Trails(P, own, d, x, s)
  BY <1>1, <1>2, <1>3, <1>4, <1>5, WalkTrail
<1>7. PICK t, n : t = << x >> \o s /\ n = Go(d, x)
  OBVIOUS
<1>8. Chain(P, own, h, d, t, n) /\ t \in Seq(Entries) /\ t[1] = x /\ t # << >>
  <2>1. x \in P /\ x \in Entries /\ own[x] = h
    BY <1>5
  <2>2. StartsAt(P, own, d, x, << x >> \o s)
    BY <1>6, <2>1, TrailChainFrom
  <2> QED
    BY <1>7, <2>1, <2>2 DEF StartsAt
<1>9. n \in P /\ n = Follow(d, x)
  BY <1>2, <1>5, <1>7, PlacedNodes DEF Go, Follow
<1>10. /\ loop' \in Loop
       /\ loop'.on /\ loop'.head = h /\ loop'.dir = d /\ loop'.pos = x
       /\ loop'.n = n /\ ~loop'.removed /\ ~loop'.stale /\ loop'.todo = t
  <2>1. n \in Node /\ loop' = [loop EXCEPT !.n = n, !.stale = FALSE, !.todo = t]
    BY <1>1, <1>2, <1>3, <1>7, <1>9
  <2>2. loop' \in [on : {TRUE}, head : Heads, dir : {"next", "prev"},
                   pos : Node, n : Node, removed : BOOLEAN, stale : BOOLEAN,
                   todo : Seq(Entries)]
    BY <1>4, <1>8, <2>1
  <2>3. /\ loop'.on /\ loop'.head = h /\ loop'.dir = d /\ loop'.pos = x
        /\ loop'.n = n /\ ~loop'.removed /\ ~loop'.stale /\ loop'.todo = t
    BY <1>1, <1>3, <1>4, <1>5, <2>1
  <2> QED
    BY <2>2, <2>3 DEF Loop
<1>11. Chain(P, own, h, d, t, n)'
  <2>1. Settled' = Settled
    BY <1>1 DEF Settled
  <2> QED
    BY <1>1, <1>8, <2>1 DEF Chain, Go
<1>12. LoopOK(P, own)'
  <2>1. h \in usable'
    BY <1>1, <1>5
  <2>2. Chain(P, own, loop.head, loop.dir, loop.todo, loop.n)'
    BY <1>10, <1>11 DEF Chain, Go
  <2>3. loop'.pos = IF loop'.todo = << >> THEN loop'.head ELSE loop'.todo[1]
    BY <1>8, <1>10
  <2> QED
    BY <1>5, <1>10, <2>1, <2>2, <2>3 DEF LoopOK
<1> QED
  BY <1>1, <1>2, <1>10, <1>12, LoopStep

(* The loop is over.                                                       *)
LEMMA LoopEndsInv ==
  ASSUME ListHeadAssumption, IInv, LoopEnds
  PROVE  IInv'
<1>1. /\ writer = None /\ UNCHANGED <<mem, usable, writer, reader, call>>
      /\ loop' \in Loop /\ ~loop'.on
  BY DEF LoopEnds, Loop, None
<1>2. PICK P, own, pos : Sound(P, own, pos)
  BY DEF IInv
<1>3. LoopOK(P, own)'
  BY <1>1 DEF LoopOK
<1> QED
  BY <1>1, <1>2, <1>3, LoopStep

-----------------------------------------------------------------------------
(* Every step keeps the invariant.                                         *)
LEMMA NextInv ==
  ASSUME ListHeadAssumption, IInv, [Next]_vars
  PROVE  IInv'
<1>1. CASE UNCHANGED vars
  <2>1. UNCHANGED <<mem, usable, writer, reader, loop, call>>
    BY <1>1 DEF vars, view
  <2>2. reader' \in Reader /\ ReaderOK' /\ CarefulMeansDone'
    BY <2>1 DEF IInv, TypeOK, ReaderOK, CarefulMeansDone, RingOfOne, ToBeWritten
  <2> QED
    BY <2>1, <2>2, ReaderStep
<1>2. CASE Initialise
  BY <1>2, InitialiseInv
<1>3. CASE Add
  BY <1>3, AddInv
<1>4. CASE Delete
  BY <1>4, DeleteInv
<1>5. CASE Move
  BY <1>5, MoveInv
<1>6. CASE Replace
  BY <1>6, ReplaceInv
<1>7. CASE Rotate
  BY <1>7, RotateInv
<1>8. CASE Cut
  BY <1>8, CutInv
<1>9. CASE Splice
  BY <1>9, SpliceInv
<1>10. CASE DelInitBegins
  BY <1>10, DelInitBeginsInv
<1>11. CASE list_del_init
  BY <1>11, ListDelInitInv
<1>12. CASE CarefulReadsNext
  BY <1>12, CarefulReadsNextInv
<1>13. CASE list_empty_careful
  BY <1>13, ListEmptyCarefulInv
<1>14. CASE CarefulReturned
  BY <1>14, CarefulReturnedInv
<1>15. CASE LoopBegins
  BY <1>15, LoopBeginsInv
<1>16. CASE list_for_each_safe
  BY <1>16, ListForEachSafeInv
<1>17. CASE LoopEnds
  BY <1>17, LoopEndsInv
<1>18. CASE LoopUnlocks
  BY <1>18, LoopUnlocksInv
<1>19. CASE list_safe_reset_next
  BY <1>19, ListSafeResetNextInv
<1> QED
  BY <1>1, <1>2, <1>3, <1>4, <1>5, <1>6, <1>7, <1>8, <1>9, <1>10, <1>11, <1>12,
     <1>13, <1>14, <1>15, <1>16, <1>17, <1>18, <1>19 DEF Next

(* What it says of the runs.                                               *)
LEMMA InvMeans ==
  ASSUME ListHeadAssumption, IInv
  PROVE  TypeOK /\ RingsClosed /\ CarefulMeansDone /\ LoopMeetsEach
<1>1. TypeOK /\ CarefulMeansDone
  BY DEF IInv
<1>2. PICK P, own, pos : Sound(P, own, pos)
  BY DEF IInv
<1>3. RingsClosed
  BY <1>1, <1>2, RingsMeet DEF Sound
<1>4. LoopMeetsEach
  <2> SUFFICES ASSUME loop.on
               PROVE  loop.pos = IF loop.todo = << >> THEN loop.head
                                 ELSE Head(loop.todo)
    BY DEF LoopMeetsEach
  <2>1. loop.todo \in Seq(Entries)
    BY <1>1, FieldTypes
  <2>2. loop.pos = IF loop.todo = << >> THEN loop.head ELSE loop.todo[1]
    BY <1>2 DEF Sound, LoopOK
  <2> QED
    BY <2>1, <2>2
<1> QED
  BY <1>1, <1>3, <1>4

(* The invariant, and with it the four properties, in every behaviour.     *)
LEMMA SpecInv == Spec => []IInv
<1>1. Init => IInv
  BY ListHeadAssumption, InitInv
<1>2. IInv /\ [Next]_vars => IInv'
  BY ListHeadAssumption, NextInv
<1> QED
  BY <1>1, <1>2, PTL DEF Spec

(* The memory, the heads in use and the operations in progress have the    *)
(* types stated, whatever operations of list.h come in whatever order.     *)
THEOREM ListsTyped == Spec => []TypeOK
<1>1. IInv => TypeOK
  BY ListHeadAssumption, InvMeans
<1> QED
  BY <1>1, SpecInv, PTL

(* Between two operations every list is a ring that both pointers go       *)
(* round, and no entry is met twice, on one list or on two: for any number *)
(* of heads and entries, and after any operations of list.h.               *)
THEOREM ListsClosed == Spec => []RingsClosed
<1>1. IInv => RingsClosed
  BY ListHeadAssumption, InvMeans
<1> QED
  BY <1>1, SpecInv, PTL

(* When list_empty_careful has said that an entry is on no list, without   *)
(* the lock, list_del_init has no store to that entry left to do.          *)
THEOREM CarefulIsDone == Spec => []CarefulMeansDone
<1>1. IInv => CarefulMeansDone
  BY ListHeadAssumption, InvMeans
<1> QED
  BY <1>1, SpecInv, PTL

(* list_for_each_safe, in either direction, meets every entry that the     *)
(* list had when it began, or after the cursor at the last                 *)
(* list_safe_reset_next, in order and once, and ends at the head, whatever *)
(* is done meanwhile to the entry it is at or, while the lock is let go,   *)
(* to the others.                                                          *)
THEOREM LoopIsSafe == Spec => []LoopMeetsEach
<1>1. IInv => LoopMeetsEach
  BY ListHeadAssumption, InvMeans
<1> QED
  BY <1>1, SpecInv, PTL

=============================================================================
