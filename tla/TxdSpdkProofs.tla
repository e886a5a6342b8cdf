---------------------------- MODULE TxdSpdkProofs ----------------------------
(***************************************************************************)
(* Proofs about TxdSpdk, for every set of controllers, namespaces, sectors *)
(* and contents.  The step lemmas stand for one call each, so that the     *)
(* modules that compose the device layer can cite them.                    *)
(***************************************************************************)
EXTENDS TxdSpdk, WellFoundedInduction, FiniteSetTheorems, SequenceTheorems,
        TLAPS

(* Induction: a set of numbers that has 0 and the successor of each number *)
(* it has, has them all.                                                   *)
LEMMA NatSet ==
  ASSUME NEW P, 0 \in P, \A n \in Nat : n \in P => n + 1 \in P
  PROVE  Nat \subseteq P
<1> DEFINE R == OpToRel(<, Nat)
<1>1. \A x, y \in Nat : x < y => <<x, y>> \in R
  BY DEF OpToRel
<1>2. IsWellFoundedOn(R, Nat)
  BY NatLessThanWellFounded
<1> HIDE DEF R
<1> DEFINE T == Nat \ P
<1>3. SUFFICES ASSUME T # {} PROVE FALSE
  OBVIOUS
<1>4. PICK m \in T : \A y \in T : ~(<<y, m>> \in R)
  <2> HIDE DEF T
  <2> T \subseteq Nat
    BY DEF T
  <2> QED BY <1>2, <1>3, WFMin
<1>5. m # 0 /\ m - 1 \in Nat /\ m - 1 < m
  OBVIOUS
<1>6. <<m - 1, m>> \in R
  BY <1>1, <1>5
<1> QED
  BY <1>4, <1>5, <1>6

-----------------------------------------------------------------------------
(* The positions of the live entries when epoch is ep.                     *)
LiveAt(list, ep) == {i \in DOMAIN list : ~(list[i].epoch < ep)}

(* The lists are well formed, and their live entries stand for the         *)
(* controllers of A and their active namespaces, each once.                *)
CtrlrsMatch(cs, A, ep) ==
  /\ cs \in Seq(CtrlrEntry)
  /\ \A i \in DOMAIN cs : cs[i].epoch <= ep
  /\ \A i \in LiveAt(cs, ep) : cs[i].ctrlr \in A
  /\ \A c \in A : \E i \in LiveAt(cs, ep) : cs[i].ctrlr = c
  /\ \A i, j \in LiveAt(cs, ep) : cs[i].ctrlr = cs[j].ctrlr => i = j

NssMatch(ns, A, ep) ==
  /\ ns \in Seq(NsEntry)
  /\ \A i \in DOMAIN ns : ns[i].epoch <= ep
  /\ \A i \in LiveAt(ns, ep) :
       ns[i].ctrlr \in A /\ ns[i].ns \in Range(ActiveNs[ns[i].ctrlr])
  /\ \A c \in A : \A n \in Range(ActiveNs[c]) :
       \E i \in LiveAt(ns, ep) : ns[i].ctrlr = c /\ ns[i].ns = n
  /\ \A i, j \in LiveAt(ns, ep) : ns[i] = ns[j] => i = j

(* The entries register_ns makes for a controller.                         *)
NewNss(c) ==
  Reverse([i \in DOMAIN ActiveNs[c] |->
             [ctrlr |-> c, ns |-> ActiveNs[c][i], epoch |-> epoch]])

(* attach_cb for a controller that is not attached adds its entry.         *)
LEMMA AttachCtrlr ==
  ASSUME epoch \in 0 .. 1, NEW cs, NEW A \in SUBSET Controller,
         CtrlrsMatch(cs, A, epoch), NEW c \in Controller \ A
  PROVE  CtrlrsMatch(<< [ctrlr |-> c, epoch |-> epoch] >> \o cs, A \cup {c}, epoch)
<1> DEFINE e == [ctrlr |-> c, epoch |-> epoch]
           w == << e >> \o cs
           L == Len(cs)
<1>1. /\ cs \in Seq(CtrlrEntry) /\ << e >> \in Seq(CtrlrEntry)
      /\ Len(<< e >>) = 1 /\ << e >>[1] = e
  BY DEF CtrlrsMatch, CtrlrEntry
<1>2. L \in Nat /\ DOMAIN cs = 1 .. L
  BY <1>1, LenProperties
<1>3. /\ w \in Seq(CtrlrEntry)
      /\ Len(w) = 1 + L
      /\ \A i \in 1 .. 1 + L : w[i] = IF i <= 1 THEN << e >>[i] ELSE cs[i - 1]
  BY <1>1, ConcatProperties
<1>4. DOMAIN w = 1 .. 1 + L
  BY <1>3, LenProperties
<1>5. w[1] = e /\ \A i \in 1 .. L : w[i + 1] = cs[i]
  BY <1>1, <1>2, <1>3
<1>6. \A i \in DOMAIN w : i = 1 \/ (i - 1 \in DOMAIN cs /\ w[i] = cs[i - 1])
  BY <1>2, <1>3, <1>4
<1>7. e.ctrlr = c /\ e.epoch = epoch
  OBVIOUS
<1> HIDE DEF e, w, L
<1>8. /\ 1 \in LiveAt(w, epoch)
      /\ \A i \in LiveAt(cs, epoch) : i + 1 \in LiveAt(w, epoch) /\ w[i + 1] = cs[i]
      /\ \A i \in LiveAt(w, epoch) : i = 1 \/ (i - 1 \in LiveAt(cs, epoch) /\ w[i] = cs[i - 1])
  BY <1>2, <1>4, <1>5, <1>6, <1>7 DEF LiveAt
<1>9. \A i \in DOMAIN w : w[i].epoch <= epoch
  BY <1>5, <1>6, <1>7 DEF CtrlrsMatch
<1>10. \A i \in LiveAt(w, epoch) : w[i].ctrlr \in A \cup {c}
  BY <1>5, <1>7, <1>8 DEF CtrlrsMatch
<1>11. \A d \in A \cup {c} : \E i \in LiveAt(w, epoch) : w[i].ctrlr = d
  BY <1>5, <1>7, <1>8 DEF CtrlrsMatch
<1>12. ASSUME NEW i \in LiveAt(w, epoch), NEW j \in LiveAt(w, epoch), w[i].ctrlr = w[j].ctrlr
       PROVE  i = j
  <2>1. i \in Int /\ j \in Int
    BY <1>2, <1>4 DEF LiveAt
  <2> QED
    BY <2>1, <1>5, <1>7, <1>8, <1>12 DEF CtrlrsMatch
<1> QED
  BY <1>3, <1>9, <1>10, <1>11, <1>12 DEF CtrlrsMatch, w, e

(* register_ns makes one entry for each active namespace.                  *)
LEMMA NewNssListed ==
  ASSUME ConstantsOK, epoch \in 0 .. 1, NEW c \in Controller
  PROVE  /\ NewNss(c) \in Seq(NsEntry)
         /\ \A i \in DOMAIN NewNss(c) :
              /\ NewNss(c)[i].ctrlr = c /\ NewNss(c)[i].epoch = epoch
              /\ NewNss(c)[i].ns \in Range(ActiveNs[c])
         /\ \A n \in Range(ActiveNs[c]) : \E i \in DOMAIN NewNss(c) : NewNss(c)[i].ns = n
         /\ \A i, j \in DOMAIN NewNss(c) : NewNss(c)[i] = NewNss(c)[j] => i = j
<1> DEFINE a == ActiveNs[c]
           L == Len(a)
           s == [i \in DOMAIN a |-> [ctrlr |-> c, ns |-> a[i], epoch |-> epoch]]
           w == NewNss(c)
<1>1. a \in Seq(Nat) /\ L \in Nat /\ DOMAIN a = 1 .. L /\ IsInjective(a) /\ \A i \in 1 .. L : a[i] \in Nat
  BY LenProperties DEF ConstantsOK
<1>2. s \in Seq(NsEntry) /\ Len(s) = L
  BY <1>1 DEF NsEntry
<1>3. w = [i \in 1 .. L |-> s[(L - i) + 1]]
  BY <1>2 DEF NewNss, Reverse
<1>4. \A i \in 1 .. L : w[i] = [ctrlr |-> c, ns |-> a[(L - i) + 1], epoch |-> epoch]
  BY <1>1, <1>3
<1>5. DOMAIN w = 1 .. L
  BY <1>3
<1>12. w = [i \in 1 .. L |-> w[i]]
  BY <1>3
<1> HIDE DEF s, w, a, L
<1>8. \A i \in 1 .. L : (L - i) + 1 \in 1 .. L /\ (L - ((L - i) + 1)) + 1 = i
  BY <1>1
<1>6. w \in Seq(NsEntry)
  <2>1. ASSUME NEW i \in 1 .. L PROVE w[i] \in NsEntry
    <3>1. PICK k \in 1 .. L : k = (L - i) + 1
      BY <1>8
    <3>2. w[i] = [ctrlr |-> c, ns |-> a[k], epoch |-> epoch] /\ a[k] \in Nat
      BY <1>1, <1>4, <3>1
    <3> QED
      BY <3>2 DEF NsEntry
  <2>2. w = [i \in 1 .. L |-> w[i]]
    BY <1>12
  <2>3. w \in [1 .. L -> NsEntry]
    BY <2>1, <2>2
  <2> QED
    BY <1>1, <2>3, SeqDef
<1>7. ASSUME NEW i \in 1 .. L
      PROVE  w[i].ctrlr = c /\ w[i].epoch = epoch /\ w[i].ns = a[(L - i) + 1]
  <2>1. w[i] = [ctrlr |-> c, ns |-> a[(L - i) + 1], epoch |-> epoch]
    BY <1>4
  <2> QED
    BY <2>1
<1>9. \A i \in 1 .. L : w[i].ns \in Range(a)
  BY <1>1, <1>7, <1>8 DEF Range
<1>10. ASSUME NEW n \in Range(a)
       PROVE  \E i \in 1 .. L : w[i].ns = n
  <2>1. PICK k \in 1 .. L : a[k] = n
    BY <1>1 DEF Range
  <2>2. w[(L - k) + 1].ns = n
    BY <1>7, <1>8, <2>1
  <2> QED
    BY <1>8, <2>2
<1>11. ASSUME NEW i \in 1 .. L, NEW j \in 1 .. L, w[i] = w[j]
       PROVE  i = j
  <2>1. a[(L - i) + 1] = a[(L - j) + 1]
    BY <1>7, <1>11
  <2>2. (L - i) + 1 = (L - j) + 1
    BY <1>1, <1>8, <2>1 DEF IsInjective
  <2> QED
    BY <1>1, <2>2
<1> QED
  BY <1>5, <1>6, <1>7, <1>9, <1>10, <1>11 DEF w, a

(* attach_cb for a controller that is not attached adds its namespaces.    *)
LEMMA AttachNss ==
  ASSUME ConstantsOK, epoch \in 0 .. 1, NEW ns, NEW A \in SUBSET Controller,
         NssMatch(ns, A, epoch), NEW c \in Controller \ A
  PROVE  /\ NssMatch(register_ns(ns, c), A \cup {c}, epoch)
         /\ Range(ns) \subseteq Range(register_ns(ns, c))
<1> DEFINE s == NewNss(c)
           w == s \o ns
           L == Len(ns)
           K == Len(s)
<1>1. s \in Seq(NsEntry) /\ ns \in Seq(NsEntry)
  BY NewNssListed DEF NssMatch
<1>2. L \in Nat /\ DOMAIN ns = 1 .. L /\ K \in Nat /\ DOMAIN s = 1 .. K
  BY <1>1, LenProperties
<1>3. /\ w \in Seq(NsEntry)
      /\ Len(w) = K + L
      /\ \A i \in 1 .. K + L : w[i] = IF i <= K THEN s[i] ELSE ns[i - K]
  BY <1>1, ConcatProperties
<1>4. DOMAIN w = 1 .. K + L
  BY <1>3, LenProperties
<1>5. register_ns(ns, c) = w
  BY DEF register_ns, NewNss
<1>6. /\ \A i \in DOMAIN s : i \in DOMAIN w /\ w[i] = s[i]
      /\ \A i \in DOMAIN ns : i + K \in DOMAIN w /\ w[i + K] = ns[i]
      /\ \A i \in DOMAIN w : (i \in DOMAIN s /\ w[i] = s[i])
                              \/ (i - K \in DOMAIN ns /\ w[i] = ns[i - K])
  BY <1>2, <1>3, <1>4
<1>7. /\ \A i \in DOMAIN s : s[i].ctrlr = c /\ s[i].epoch = epoch /\ s[i].ns \in Range(ActiveNs[c])
      /\ \A n \in Range(ActiveNs[c]) : \E i \in DOMAIN s : s[i].ns = n
      /\ \A i, j \in DOMAIN s : s[i] = s[j] => i = j
  BY NewNssListed
<1> HIDE DEF s, w, K, L
<1>8. /\ \A i \in DOMAIN s : i \in LiveAt(w, epoch)
      /\ \A i \in LiveAt(ns, epoch) : i + K \in LiveAt(w, epoch)
      /\ \A i \in LiveAt(w, epoch) : (i \in DOMAIN s /\ w[i] = s[i])
                                      \/ (i - K \in LiveAt(ns, epoch) /\ w[i] = ns[i - K])
  BY <1>6, <1>7 DEF LiveAt
<1>9. \A i \in DOMAIN w : w[i].epoch <= epoch
  BY <1>6, <1>7 DEF NssMatch
<1>10. ASSUME NEW i \in LiveAt(w, epoch)
       PROVE  /\ w[i].ctrlr \in A \cup {c}
              /\ w[i].ns \in Range(ActiveNs[w[i].ctrlr])
  <2>1. CASE i \in DOMAIN s /\ w[i] = s[i]
    BY <1>7, <2>1
  <2>2. CASE i - K \in LiveAt(ns, epoch) /\ w[i] = ns[i - K]
    BY <2>2 DEF NssMatch
  <2> QED
    BY <1>8, <2>1, <2>2
<1>11. ASSUME NEW d \in A \cup {c}, NEW n \in Range(ActiveNs[d])
       PROVE  \E i \in LiveAt(w, epoch) : w[i].ctrlr = d /\ w[i].ns = n
  <2>1. CASE d = c
    BY <1>6, <1>7, <1>8, <2>1
  <2>2. CASE d \in A
    <3>1. PICK i \in LiveAt(ns, epoch) : ns[i].ctrlr = d /\ ns[i].ns = n
      BY <2>2 DEF NssMatch
    <3> QED
      BY <1>6, <1>8, <3>1 DEF LiveAt
  <2> QED
    BY <2>1, <2>2
<1>12. ASSUME NEW i \in LiveAt(w, epoch), NEW j \in LiveAt(w, epoch), w[i] = w[j]
       PROVE  i = j
  <2>1. i \in Int /\ j \in Int
    BY <1>2, <1>4 DEF LiveAt
  <2>2. \A k \in LiveAt(ns, epoch) : ns[k].ctrlr # c
    BY DEF NssMatch
  <2>7. \A k \in DOMAIN s : s[k].ctrlr = c
    BY <1>7
  <2>3. CASE i \in DOMAIN s /\ w[i] = s[i] /\ j \in DOMAIN s /\ w[j] = s[j]
    BY <1>7, <1>12, <2>3
  <2>4. CASE i - K \in LiveAt(ns, epoch) /\ w[i] = ns[i - K]
             /\ j - K \in LiveAt(ns, epoch) /\ w[j] = ns[j - K]
    <3>1. i - K = j - K
      BY <1>12, <2>4 DEF NssMatch
    <3> QED
      BY <1>2, <2>1, <3>1
  <2>5. CASE /\ i \in DOMAIN s /\ w[i] = s[i] /\ j - K \in LiveAt(ns, epoch)
             /\ w[j] = ns[j - K]
    BY <1>12, <2>2, <2>5, <2>7
  <2>6. CASE /\ j \in DOMAIN s /\ w[j] = s[j] /\ i - K \in LiveAt(ns, epoch)
             /\ w[i] = ns[i - K]
    BY <1>12, <2>2, <2>6, <2>7
  <2> QED
    BY <1>8, <2>3, <2>4, <2>5, <2>6
<1>13. Range(ns) \subseteq Range(w)
  BY <1>6 DEF Range
<1>14. w \in Seq(NsEntry)
  BY <1>3
<1>15. NssMatch(w, A \cup {c}, epoch)
  BY <1>9, <1>10, <1>11, <1>12, <1>14 DEF NssMatch
<1> QED
  BY <1>5, <1>13, <1>15
-----------------------------------------------------------------------------
(* f[k] are the lists after attach_cb has run for k controllers.           *)
AfterOf(found, n, f) ==
  f = [k \in 0 .. n |->
         IF k = 0 THEN [ctrlrs |-> g_controllers, nss |-> g_namespaces]
         ELSE attach_cb(f[k - 1], found[k])]

(* The function that goes through the controllers found exists, for any    *)
(* number of them.                                                         *)
LEMMA AfterExists ==
  ASSUME NEW found, NEW m \in Nat
  PROVE  \E f : AfterOf(found, m, f)
<1> DEFINE first == [ctrlrs |-> g_controllers, nss |-> g_namespaces]
           P == {n \in Nat : \E f : AfterOf(found, n, f)}
<1>1. 0 \in P
  <2> DEFINE f == [k \in 0 .. 0 |-> first]
  <2>1. AfterOf(found, 0, f)
    BY DEF AfterOf
  <2> QED
    BY <2>1
<1>2. ASSUME NEW n \in Nat, n \in P
      PROVE  n + 1 \in P
  <2>1. PICK f : AfterOf(found, n, f)
    BY <1>2
  <2> DEFINE g == [k \in 0 .. n + 1 |->
                     IF k = n + 1 THEN attach_cb(f[n], found[n + 1]) ELSE f[k]]
  <2>2. \A k \in 0 .. n : g[k] = f[k]
    OBVIOUS
  <2>3. \A k \in 0 .. n : f[k] = IF k = 0 THEN first ELSE attach_cb(f[k - 1], found[k])
    BY <2>1 DEF AfterOf
  <2>4. g[n + 1] = attach_cb(g[n], found[n + 1])
    BY <2>2
  <2>5. \A k \in 0 .. n + 1 :
          g[k] = IF k = 0 THEN first ELSE attach_cb(g[k - 1], found[k])
    <3>1. SUFFICES ASSUME NEW k \in 0 .. n + 1
                   PROVE  g[k] = IF k = 0 THEN first ELSE attach_cb(g[k - 1], found[k])
      OBVIOUS
    <3>2. CASE k = n + 1
      BY <2>4, <3>2
    <3>3. CASE k = 0
      BY <2>2, <2>3, <3>3
    <3>4. CASE k \in 1 .. n
      <4>1. g[k] = f[k] /\ g[k - 1] = f[k - 1]
        BY <2>2, <3>4
      <4> QED
        BY <2>3, <3>4, <4>1
    <3> QED
      BY <3>2, <3>3, <3>4
  <2>6. g = [k \in 0 .. n + 1 |-> g[k]]
    OBVIOUS
  <2> HIDE DEF g
  <2>7. AfterOf(found, n + 1, g)
    BY <2>5, <2>6 DEF AfterOf
  <2> QED
    BY <2>7
<1> HIDE DEF P
<1>3. Nat \subseteq P
  BY <1>1, <1>2, NatSet
<1> QED
  BY <1>3 DEF P

(* Probed is what the steps of probing end with.                           *)
LEMMA ProbedIsLast ==
  ASSUME NEW found, Len(found) \in Nat
  PROVE  \E f : AfterOf(found, Len(found), f) /\ Probed(found) = f[Len(found)]
<1>1. Probed(found) = (CHOOSE f : AfterOf(found, Len(found), f))[Len(found)]
  BY DEF Probed, AfterOf
<1> QED
  BY <1>1, AfterExists

(* What probing may find is a sequence of controllers, each once.          *)
LEMMA FindableIs ==
  ASSUME ConstantsOK, NEW found \in Findable
  PROVE  \E n \in Nat : found \in [1 .. n -> Controller \ attached] /\ IsInjective(found)
<1> DEFINE C == Controller \ attached
<1>1. IsFiniteSet(C)
  BY FS_Difference DEF ConstantsOK
<1>2. Cardinality(C) \in Nat
  BY <1>1, FS_CardinalityType
<1>3. \A n \in 0 .. Cardinality(C) : n \in Nat
  BY <1>2
<1>4. PICK n \in 0 .. Cardinality(C) : found \in Injection(1 .. n, C)
  BY DEF Findable
<1> QED
  BY <1>3, <1>4 DEF Injection

(* What a probe leaves is a pair of lists.                                 *)
LEMMA ProbedIsRecord ==
  ASSUME ConstantsOK, attached \subseteq Controller, NEW found \in Findable
  PROVE  Probed(found) = [ctrlrs |-> Probed(found).ctrlrs, nss |-> Probed(found).nss]
<1>1. PICK n \in Nat : found \in [1 .. n -> Controller \ attached] /\ IsInjective(found)
  BY FindableIs
<1>2. Len(found) = n
  <2>1. found \in Seq(Controller \ attached)
    BY <1>1, SeqDef
  <2> QED
    BY <1>1, <2>1
<1>3. PICK f : AfterOf(found, n, f) /\ Probed(found) = f[n]
  BY <1>2, ProbedIsLast
<1>4. CASE n = 0
  BY <1>3, <1>4 DEF AfterOf
<1>5. CASE n # 0
  <2>1. f[n] = attach_cb(f[n - 1], found[n])
    BY <1>3, <1>5 DEF AfterOf
  <2> QED
    BY <1>3, <2>1 DEF attach_cb
<1> QED
  BY <1>4, <1>5

(* Whatever probing finds, the lists then match the controllers attached,  *)
(* and no entry is lost.                                                   *)
LEMMA ProbeMatches ==
  ASSUME ConstantsOK, epoch \in 0 .. 1, attached \subseteq Controller,
         CtrlrsMatch(g_controllers, attached, epoch),
         NssMatch(g_namespaces, attached, epoch),
         NEW found \in Findable
  PROVE  /\ attached \cup {found[i] : i \in DOMAIN found} \subseteq Controller
         /\ CtrlrsMatch(Probed(found).ctrlrs, attached \cup {found[i] : i \in DOMAIN found}, epoch)
         /\ NssMatch(Probed(found).nss, attached \cup {found[i] : i \in DOMAIN found}, epoch)
         /\ Range(g_controllers) \subseteq Range(Probed(found).ctrlrs)
         /\ Range(g_namespaces) \subseteq Range(Probed(found).nss)
<1> DEFINE C == Controller \ attached
           A(k) == attached \cup {found[i] : i \in 1 .. k}
<1>1. PICK n \in Nat : found \in [1 .. n -> C] /\ IsInjective(found)
  BY FindableIs
<1>2. DOMAIN found = 1 .. n /\ Len(found) = n
  <2>1. found \in Seq(C)
    BY <1>1, SeqDef
  <2> QED
    BY <1>1, <2>1
<1>3. PICK f : AfterOf(found, n, f) /\ Probed(found) = f[n]
  BY <1>2, ProbedIsLast
<1>4. /\ f[0] = [ctrlrs |-> g_controllers, nss |-> g_namespaces]
      /\ \A k \in 1 .. n : f[k] = attach_cb(f[k - 1], found[k])
  BY <1>3 DEF AfterOf
<1> DEFINE Good(k) == /\ A(k) \in SUBSET Controller
                      /\ CtrlrsMatch(f[k].ctrlrs, A(k), epoch)
                      /\ NssMatch(f[k].nss, A(k), epoch)
                      /\ Range(g_controllers) \subseteq Range(f[k].ctrlrs)
                      /\ Range(g_namespaces) \subseteq Range(f[k].nss)
           P == {k \in Nat : k <= n => Good(k)}
<1>5. 0 \in P
  <2>1. A(0) = attached
    OBVIOUS
  <2> HIDE DEF A
  <2> QED
    BY <1>4, <2>1
<1>6. ASSUME NEW k \in Nat, k \in P
      PROVE  k + 1 \in P
  <2>1. SUFFICES ASSUME k + 1 <= n PROVE Good(k + 1)
    OBVIOUS
  <2> DEFINE c == found[k + 1]
  <2>2. k + 1 \in 1 .. n /\ k <= n
    BY <2>1
  <2>3. Good(k)
    BY <1>6, <2>2
  <2>4. c \in Controller \ A(k)
    <3>1. c \in Controller /\ c \notin attached
      BY <1>1, <2>2
    <3>2. \A i \in 1 .. k : found[i] # c
      BY <1>1, <1>2, <2>2 DEF IsInjective
    <3> QED
      BY <3>1, <3>2
  <2>5. A(k + 1) = A(k) \cup {c}
    OBVIOUS
  <2>6. /\ f[k + 1].ctrlrs = << [ctrlr |-> c, epoch |-> epoch] >> \o f[k].ctrlrs
        /\ f[k + 1].nss = register_ns(f[k].nss, c)
    <3>1. f[k + 1] = attach_cb(f[k], c)
      BY <1>4, <2>2
    <3> QED
      BY <3>1 DEF attach_cb
  <2> DEFINE B == A(k)
             cs == f[k].ctrlrs
             ns == f[k].nss
             w == << [ctrlr |-> c, epoch |-> epoch] >> \o cs
  <2>7. /\ B \in SUBSET Controller /\ CtrlrsMatch(cs, B, epoch)
        /\ NssMatch(ns, B, epoch) /\ c \in Controller \ B
    BY <2>3, <2>4
  <2> HIDE DEF A, c, B, cs, ns
  <2>8. CtrlrsMatch(w, B \cup {c}, epoch)
    BY <2>7, AttachCtrlr
  <2>9. /\ NssMatch(register_ns(ns, c), B \cup {c}, epoch)
        /\ Range(ns) \subseteq Range(register_ns(ns, c))
    BY <2>7, AttachNss
  <2>10. Range(cs) \subseteq Range(w)
    <3>1. /\ cs \in Seq(CtrlrEntry)
          /\ << [ctrlr |-> c, epoch |-> epoch] >> \in Seq(CtrlrEntry)
      BY <2>7 DEF CtrlrsMatch, CtrlrEntry
    <3>2. \A i \in DOMAIN cs : i + 1 \in DOMAIN w /\ w[i + 1] = cs[i]
      BY <3>1
    <3> QED
      BY <3>2 DEF Range
  <2>11. B \cup {c} \in SUBSET Controller
    BY <2>7
  <2> QED
    BY <2>3, <2>5, <2>6, <2>8, <2>9, <2>10, <2>11 DEF B, cs, ns
<1>7. Nat \subseteq P
  <2> HIDE DEF P
  <2> QED
    BY <1>5, <1>6, NatSet
<1>8. Good(n)
  <2>1. n \in P
    <3> HIDE DEF P
    <3> QED
      BY <1>7
  <2>2. n <= n
    OBVIOUS
  <2> HIDE DEF Good
  <2> QED
    BY <2>1, <2>2
<1> DEFINE U == attached \cup {found[i] : i \in DOMAIN found}
<1>9. A(n) = U
  BY <1>2
<1>10. /\ A(n) \in SUBSET Controller
       /\ CtrlrsMatch(f[n].ctrlrs, A(n), epoch)
       /\ NssMatch(f[n].nss, A(n), epoch)
       /\ Range(g_controllers) \subseteq Range(f[n].ctrlrs)
       /\ Range(g_namespaces) \subseteq Range(f[n].nss)
  BY <1>8
<1> HIDE DEF A, U
<1>11. /\ U \in SUBSET Controller
       /\ CtrlrsMatch(Probed(found).ctrlrs, U, epoch)
       /\ NssMatch(Probed(found).nss, U, epoch)
       /\ Range(g_controllers) \subseteq Range(Probed(found).ctrlrs)
       /\ Range(g_namespaces) \subseteq Range(Probed(found).nss)
  BY <1>3, <1>9, <1>10
<1> QED
  BY <1>11 DEF U
-----------------------------------------------------------------------------
(* What the calls rely on: the lists stand for the attached controllers,   *)
(* freed entries are in them once cleanup has freed any, ...               *)
ListsMatch ==
  /\ CtrlrsMatch(g_controllers, attached, epoch)
  /\ NssMatch(g_namespaces, attached, epoch)
  /\ epoch = 1 => Stale(g_controllers)

(* ... a queue pair that I/O may use is counted by its controller, and     *)
(* only attached controllers count any, ...                                *)
Mine(c) == {e \in ready : e.ctrlr = c}

QpairsCounted ==
  /\ IsFiniteSet(ready)
  /\ \A e \in ready : e.ctrlr \in attached
  /\ \A e \in ready : \E i \in LiveAt(g_namespaces, epoch) : g_namespaces[i] = e
  /\ \A c \in Controller : Cardinality(Mine(c)) <= io_qpairs[c]
  /\ \A c \in Controller : io_qpairs[c] > 0 => c \in attached

(* ... and the buffer of a read holds zeros or the block.                  *)
ReadInFlight ==
  io # NoIo /\ io.op = "read" =>
    \/ io.buf = Zeros
    \/ io.stage = "executed" /\ io.buf = disk[io.lba]

IInv == TypeOK /\ ListsMatch /\ QpairsCounted /\ ReadInFlight

(* It holds before the first call.                                         *)
LEMMA InitIInv ==
  ASSUME ConstantsOK, Init
  PROVE  IInv
<1>1. TypeOK
  BY DEF Init, TypeOK, ConstantsOK, Io, NoIo
<1>2. ListsMatch
  BY DEF Init, ListsMatch, CtrlrsMatch, NssMatch, LiveAt
<1>3. QpairsCounted
  <2>1. ready = {} /\ \A c \in Controller : io_qpairs[c] = 0
    BY DEF Init
  <2>2. IsFiniteSet({}) /\ Cardinality({}) = 0
    BY FS_EmptySet
  <2>3. \A c \in Controller : Mine(c) = {}
    BY <2>1 DEF Mine
  <2>4. \A c \in Controller : Cardinality(Mine(c)) = 0
    BY <2>2, <2>3
  <2> QED
    BY <2>1, <2>2, <2>4 DEF QpairsCounted
<1>4. ReadInFlight
  BY DEF Init, ReadInFlight
<1> QED
  BY <1>1, <1>2, <1>3, <1>4 DEF IInv

(* It does not depend on the variables that are only handed out.           *)
LEMMA ListsFrame ==
  ASSUME ListsMatch, UNCHANGED <<listVars, attached>>
  PROVE  ListsMatch'
  BY DEF ListsMatch, CtrlrsMatch, NssMatch, LiveAt, Stale, Freed, listVars

(* The account of the queue pairs, ...                                     *)
LEMMA QpairsFrame ==
  ASSUME QpairsCounted, UNCHANGED <<listVars, devVars>>
  PROVE  QpairsCounted'
  BY DEF QpairsCounted, LiveAt, Mine, listVars, devVars

(* ... and what is said of a read in flight, stay while what they speak of *)
(* does.                                                                   *)
LEMMA ReadFrame ==
  ASSUME ReadInFlight, UNCHANGED <<disk, io>>
  PROVE  ReadInFlight'
  BY DEF ReadInFlight

(* A step that ends the process, or leaves it undefined, changes nothing   *)
(* else.                                                                   *)
LEMMA StopStep ==
  ASSUME IInv, NEW how \in {"running", "exited", "no_memory", "undefined"}, Stop(how)
  PROVE  IInv'
<1>1. /\ proc' = how
      /\ UNCHANGED <<ret, listVars, devVars, disk, buf_user, io>>
  BY DEF Stop
<1>2. TypeOK'
  BY <1>1 DEF IInv, TypeOK, listVars, devVars
<1>3. UNCHANGED <<listVars, attached>>
  BY <1>1 DEF devVars
<1> QED
  BY <1>1, <1>2, <1>3, ListsFrame, QpairsFrame, ReadFrame DEF IInv

-----------------------------------------------------------------------------
(* cleanup, and spdk_init when it fails, stop the process or leave nothing *)
(* attached and no queue pair.                                             *)
LEMMA CleanStep ==
  ASSUME ConstantsOK, IInv,
         NEW cs, NEW ns, NEW A \in SUBSET Controller, NEW r,
         CtrlrsMatch(cs, A, epoch), NssMatch(ns, A, epoch), attached \subseteq A,
         Range(g_controllers) \subseteq Range(cs),
         r \in {"none", "TXD_SUCCESS", "TXD_FAIL"},
         Clean([ctrlrs |-> cs, nss |-> ns], r)
  PROVE  /\ IInv'
         /\ \/ Stop("undefined") /\ epoch = 1
            \/ /\ attached' = {} /\ ready' = {}
               /\ \A c \in Controller : io_qpairs'[c] = 0
               /\ UNCHANGED <<proc, disk, buf_user, io>>
<1> DEFINE gone == {cs[i].ctrlr : i \in DOMAIN cs}
<1>1. /\ cs \in Seq(CtrlrEntry) /\ ns \in Seq(NsEntry)
      /\ DOMAIN cs = 1 .. Len(cs) /\ DOMAIN ns = 1 .. Len(ns)
      /\ Len(cs) \in Nat /\ Len(ns) \in Nat
  BY LenProperties DEF CtrlrsMatch, NssMatch
<1>2. epoch \in 0 .. 1 /\ g_controllers \in Seq(CtrlrEntry)
  BY DEF IInv, TypeOK
<1>3. /\ \A i \in DOMAIN cs : cs[i].epoch \in 0 .. 1 /\ cs[i].epoch <= epoch
      /\ \A i \in DOMAIN ns : ns[i].epoch \in 0 .. 1 /\ ns[i].epoch <= epoch
  <2>1. \A i \in DOMAIN cs : cs[i] \in CtrlrEntry
    BY <1>1
  <2>2. \A i \in DOMAIN ns : ns[i] \in NsEntry
    BY <1>1
  <2>3. \A i \in DOMAIN cs : cs[i].epoch \in 0 .. 1
    BY <2>1 DEF CtrlrEntry
  <2>4. \A i \in DOMAIN ns : ns[i].epoch \in 0 .. 1
    BY <2>2 DEF NsEntry
  <2>5. \A i \in DOMAIN cs : cs[i].epoch <= epoch
    BY DEF CtrlrsMatch
  <2>6. \A i \in DOMAIN ns : ns[i].epoch <= epoch
    BY DEF NssMatch
  <2> QED
    BY <2>3, <2>4, <2>5, <2>6
<1>4. epoch = 1 => Stale(cs)
  BY DEF IInv, ListsMatch, Stale, Freed, Range
<1>5. CASE Stale(cs) \/ Stale(ns)
  <2>1. Stop("undefined")
    BY <1>5 DEF Clean
  <2>2. epoch = 1
    BY <1>2, <1>3, <1>5 DEF Stale, Freed
  <2> QED
    BY <2>1, <2>2, StopStep
<1>6. CASE ~(Stale(cs) \/ Stale(ns))
  <2>1. /\ g_controllers' = cs
        /\ g_namespaces' = ns
        /\ epoch' = IF cs = << >> THEN epoch ELSE epoch + 1
        /\ attached' = attached \ gone
        /\ io_qpairs' = [c \in Controller |-> IF c \in gone THEN 0 ELSE io_qpairs[c]]
        /\ ready' = {e \in ready : e.ctrlr \notin gone}
        /\ ret' = r
        /\ UNCHANGED <<proc, disk, buf_user, io>>
    BY <1>6 DEF Clean
  <2>2. epoch = 0
    BY <1>2, <1>4, <1>6
  <2>3. LiveAt(cs, epoch) = DOMAIN cs /\ LiveAt(ns, epoch) = DOMAIN ns
    BY <1>6 DEF LiveAt, Stale, Freed
  <2>4. gone = A
    BY <2>3 DEF CtrlrsMatch
  <2> HIDE DEF gone
  <2>5. attached' = {}
    BY <2>1, <2>4
  <2>6. ready' = {}
    BY <2>1, <2>4 DEF IInv, QpairsCounted
  <2>7. \A c \in Controller : io_qpairs'[c] = 0
    <3>1. \A c \in Controller : io_qpairs[c] \in Nat
      BY DEF IInv, TypeOK
    <3> QED
      BY <2>1, <2>4, <3>1 DEF IInv, QpairsCounted
  <2>8. epoch' \in 0 .. 1 /\ (epoch' = 0 => cs = << >>)
    BY <2>1, <2>2
  <2>9. TypeOK'
    <3>1. io_qpairs' \in [Controller -> 0 .. MaxQpairs]
      BY <2>1, <2>7 DEF ConstantsOK
    <3> QED
      BY <1>1, <2>1, <2>5, <2>6, <2>8, <3>1 DEF IInv, TypeOK
  <2>10. ListsMatch'
    <3>1. CASE cs = << >>
      <4>1. epoch' = 0 /\ DOMAIN cs = {}
        BY <2>1, <2>2, <3>1
      <4>2. DOMAIN ns = {}
        <5>1. A = {}
          BY <4>1, <2>3 DEF CtrlrsMatch
        <5> QED
          BY <2>3, <5>1 DEF NssMatch
      <4>3. CtrlrsMatch(cs, {}, 0)
        BY <1>1, <4>1 DEF CtrlrsMatch, LiveAt
      <4>4. NssMatch(ns, {}, 0)
        BY <1>1, <4>2 DEF NssMatch, LiveAt
      <4>5. /\ CtrlrsMatch(g_controllers, attached, epoch)'
            /\ NssMatch(g_namespaces, attached, epoch)'
        BY <2>1, <2>5, <4>1, <4>3, <4>4 DEF CtrlrsMatch, NssMatch, LiveAt
      <4> QED
        BY <4>1, <4>5 DEF ListsMatch
    <3>2. CASE cs # << >>
      <4>1. epoch' = 1
        BY <2>1, <2>2, <3>2
      <4>2. LiveAt(cs, 1) = {} /\ LiveAt(ns, 1) = {}
        BY <1>3, <2>2 DEF LiveAt
      <4>3. CtrlrsMatch(cs, {}, 1) /\ NssMatch(ns, {}, 1)
        <5>1. /\ \A i \in DOMAIN cs : cs[i].epoch <= 1
              /\ \A i \in DOMAIN ns : ns[i].epoch <= 1
          BY <1>3
        <5> QED
          BY <1>1, <4>2, <5>1 DEF CtrlrsMatch, NssMatch
      <4>4. /\ CtrlrsMatch(g_controllers, attached, epoch)'
            /\ NssMatch(g_namespaces, attached, epoch)'
        BY <2>1, <2>5, <4>1, <4>3 DEF CtrlrsMatch, NssMatch, LiveAt
      <4>5. Stale(g_controllers)'
        <5>1. 1 \in DOMAIN cs
          BY <1>1, <3>2
        <5>2. cs[1].epoch < 1
          BY <1>3, <2>2, <5>1
        <5> QED
          BY <2>1, <4>1, <5>1, <5>2 DEF Stale, Freed
      <4> QED
        BY <4>4, <4>5 DEF ListsMatch
    <3> QED
      BY <3>1, <3>2
  <2>11. QpairsCounted'
    <3>1. IsFiniteSet({}) /\ Cardinality({}) = 0
      BY FS_EmptySet
    <3>2. \A c \in Controller : Mine(c)' = {}
      BY <2>6 DEF Mine
    <3>3. \A c \in Controller : Cardinality(Mine(c)') = 0
      BY <3>1, <3>2
    <3> QED
      BY <2>6, <2>7, <3>1, <3>3 DEF QpairsCounted
  <2>12. ReadInFlight'
    BY <2>1, ReadFrame DEF IInv
  <2> QED
    BY <2>1, <2>5, <2>6, <2>7, <2>9, <2>10, <2>11, <2>12 DEF IInv
<1> QED
  BY <1>5, <1>6

(* cleanup stops the process or leaves nothing attached and no queue pair. *)
LEMMA CleanupStep ==
  ASSUME ConstantsOK, IInv, cleanup
  PROVE  /\ IInv'
         /\ \/ Stop("undefined") /\ epoch = 1
            \/ /\ attached' = {} /\ ready' = {}
               /\ \A c \in Controller : io_qpairs'[c] = 0
               /\ UNCHANGED <<proc, disk, buf_user, io>>
<1> DEFINE cs == g_controllers
           ns == g_namespaces
           A == attached
           r == ret
<1>1. /\ A \in SUBSET Controller /\ attached \subseteq A
      /\ CtrlrsMatch(cs, A, epoch) /\ NssMatch(ns, A, epoch)
      /\ Range(g_controllers) \subseteq Range(cs)
      /\ r \in {"none", "TXD_SUCCESS", "TXD_FAIL"}
  BY DEF IInv, TypeOK, ListsMatch
<1>2. Clean([ctrlrs |-> cs, nss |-> ns], r)
  BY DEF cleanup
<1> HIDE DEF cs, ns, A, r
<1> QED
  BY <1>1, <1>2, CleanStep

(* spdk_init keeps the lists and the devices in step, whatever it finds.   *)
LEMMA SpdkInitStep ==
  ASSUME ConstantsOK, IInv, spdk_init
  PROVE  /\ IInv'
         /\ UNCHANGED <<disk, buf_user, io>>
         /\ \/ UNCHANGED proc
            \/ proc' = "exited"
            \/ proc' = "undefined" /\ epoch' = 1
<1>0. TypeOK /\ ListsMatch /\ QpairsCounted /\ ReadInFlight
  BY DEF IInv
<1>1. CASE Stop("exited")
  BY <1>1, StopStep DEF Stop
<1>2. ASSUME NEW found \in Findable
      PROVE  /\ Probed(found) = [ctrlrs |-> Probed(found).ctrlrs, nss |-> Probed(found).nss]
             /\ attached \cup {found[i] : i \in DOMAIN found} \in SUBSET Controller
             /\ CtrlrsMatch(Probed(found).ctrlrs, attached \cup {found[i] : i \in DOMAIN found}, epoch)
             /\ NssMatch(Probed(found).nss, attached \cup {found[i] : i \in DOMAIN found}, epoch)
             /\ Range(g_controllers) \subseteq Range(Probed(found).ctrlrs)
             /\ Range(g_namespaces) \subseteq Range(Probed(found).nss)
  <2>1. epoch \in 0 .. 1 /\ attached \subseteq Controller
    BY <1>0 DEF TypeOK
  <2>2. /\ CtrlrsMatch(g_controllers, attached, epoch)
        /\ NssMatch(g_namespaces, attached, epoch)
    BY <1>0 DEF ListsMatch
  <2>3. Probed(found) = [ctrlrs |-> Probed(found).ctrlrs, nss |-> Probed(found).nss]
    BY <2>1, ProbedIsRecord
  <2> QED
    BY <2>1, <2>2, <2>3, ProbeMatches
<1>3. ASSUME NEW found \in Findable, spdk_init_fails(found)
      PROVE  /\ IInv'
             /\ UNCHANGED <<disk, buf_user, io>>
             /\ \/ UNCHANGED proc
                \/ proc' = "undefined" /\ epoch' = 1
  <2> DEFINE cs == Probed(found).ctrlrs
             ns == Probed(found).nss
             A == attached \cup {found[i] : i \in DOMAIN found}
             r == "TXD_FAIL"
  <2>1. /\ A \in SUBSET Controller /\ attached \subseteq A
        /\ CtrlrsMatch(cs, A, epoch) /\ NssMatch(ns, A, epoch)
        /\ Range(g_controllers) \subseteq Range(cs)
        /\ r \in {"none", "TXD_SUCCESS", "TXD_FAIL"}
    BY <1>2
  <2>2. Clean([ctrlrs |-> cs, nss |-> ns], r)
    BY <1>2, <1>3 DEF spdk_init_fails
  <2> HIDE DEF cs, ns, A, r
  <2>3. /\ IInv'
        /\ \/ Stop("undefined") /\ epoch = 1
           \/ /\ attached' = {} /\ ready' = {}
              /\ \A c \in Controller : io_qpairs'[c] = 0
              /\ UNCHANGED <<proc, disk, buf_user, io>>
    BY <2>1, <2>2, CleanStep
  <2> QED
    BY <2>3 DEF Stop, listVars
<1>4. ASSUME NEW found \in Findable, spdk_init_ok(found)
      PROVE  IInv' /\ UNCHANGED <<proc, disk, buf_user, io>>
  <2> DEFINE cs == Probed(found).ctrlrs
             ns == Probed(found).nss
             A == attached \cup {found[i] : i \in DOMAIN found}
  <2>1. /\ A \in SUBSET Controller /\ attached \subseteq A
        /\ CtrlrsMatch(cs, A, epoch) /\ NssMatch(ns, A, epoch)
        /\ Range(g_controllers) \subseteq Range(cs)
        /\ Range(g_namespaces) \subseteq Range(ns)
    BY <1>2
  <2>2. /\ g_controllers' = cs
        /\ g_namespaces' = ns
        /\ attached' = A
        /\ ret' = "TXD_SUCCESS"
        /\ UNCHANGED <<proc, epoch, io_qpairs, ready, disk, buf_user, io>>
    BY <1>4 DEF spdk_init_ok
  <2> HIDE DEF cs, ns, A
  <2>3. TypeOK'
    BY <1>0, <2>1, <2>2 DEF TypeOK, CtrlrsMatch, NssMatch
  <2>4. ListsMatch'
    <3>1. /\ CtrlrsMatch(g_controllers, attached, epoch)'
          /\ NssMatch(g_namespaces, attached, epoch)'
      BY <2>1, <2>2 DEF CtrlrsMatch, NssMatch, LiveAt
    <3>2. Stale(g_controllers) => Stale(cs)
      BY <2>1 DEF Stale, Freed, Range
    <3>3. Stale(cs) => Stale(g_controllers)'
      BY <2>2 DEF Stale, Freed
    <3> QED
      BY <1>0, <2>2, <3>1, <3>2, <3>3 DEF ListsMatch
  <2>5. QpairsCounted'
    <3>1. \A e \in ready : \E i \in LiveAt(ns, epoch) : ns[i] = e
      <4>1. SUFFICES ASSUME NEW e \in ready PROVE \E i \in LiveAt(ns, epoch) : ns[i] = e
        OBVIOUS
      <4>2. PICK i \in LiveAt(g_namespaces, epoch) : g_namespaces[i] = e
        BY <1>0 DEF QpairsCounted
      <4>3. e \in Range(g_namespaces) /\ ~(e.epoch < epoch)
        BY <4>2 DEF LiveAt, Range
      <4>4. e \in Range(ns)
        BY <2>1, <4>3
      <4> QED
        BY <4>3, <4>4 DEF LiveAt, Range
    <3>2. \A e \in ready' : \E i \in LiveAt(g_namespaces, epoch)' : g_namespaces'[i] = e
      BY <2>2, <3>1 DEF LiveAt
    <3> QED
      BY <1>0, <2>1, <2>2, <3>2 DEF QpairsCounted, Mine
  <2>6. ReadInFlight'
    BY <1>0, <2>2, ReadFrame
  <2> QED
    BY <2>2, <2>3, <2>4, <2>5, <2>6 DEF IInv
<1> QED
  BY <1>1, <1>3, <1>4 DEF spdk_init, Stop

-----------------------------------------------------------------------------
(* A head that can be used is a live entry.                                *)
LEMMA HeadIsLive ==
  ASSUME TypeOK, HeadUsable
  PROVE  /\ Head(g_namespaces) \in NsEntry
         /\ 1 \in LiveAt(g_namespaces, epoch)
         /\ Head(g_namespaces) = g_namespaces[1]
<1>1. /\ g_namespaces \in Seq(NsEntry) /\ g_namespaces # << >>
      /\ ~Freed(Head(g_namespaces))
  BY DEF TypeOK, HeadUsable, Head0
<1>2. /\ 1 \in DOMAIN g_namespaces /\ Head(g_namespaces) = g_namespaces[1]
      /\ Head(g_namespaces) \in NsEntry
  BY <1>1
<1> QED
  BY <1>1, <1>2 DEF LiveAt, Freed

(* Only a freed head, or none, makes a call use what is not there.         *)
LEMMA HeadNotUsable ==
  ASSUME TypeOK, ~HeadUsable
  PROVE  epoch = 1 \/ g_namespaces = << >>
<1>1. SUFFICES ASSUME g_namespaces # << >> PROVE epoch = 1
  OBVIOUS
<1>2. Freed(Head(g_namespaces))
  BY <1>1 DEF HeadUsable, Head0
<1>3. g_namespaces \in Seq(NsEntry) /\ epoch \in 0 .. 1
  BY DEF TypeOK
<1>4. Head(g_namespaces) \in NsEntry
  BY <1>1, <1>3
<1> QED
  BY <1>2, <1>3, <1>4 DEF Freed, NsEntry

(* The queue pairs of one controller can be counted.                       *)
LEMMA MineFinite ==
  ASSUME QpairsCounted
  PROVE  \A c : IsFiniteSet(Mine(c)) /\ Cardinality(Mine(c)) \in Nat
<1> TAKE c
<1>1. Mine(c) \subseteq ready /\ IsFiniteSet(ready)
  BY DEF Mine, QpairsCounted
<1> QED
  BY <1>1, FS_Subset, FS_CardinalityType

(* spdk_alloc_qpair counts what it gives out, and is undefined only when   *)
(* the head is freed or missing.                                           *)
LEMMA AllocStep ==
  ASSUME ConstantsOK, IInv, spdk_alloc_qpair
  PROVE  /\ IInv'
         /\ UNCHANGED <<disk, buf_user, io>>
         /\ \/ Stop("undefined") /\ (epoch = 1 \/ g_namespaces = << >>)
            \/ /\ UNCHANGED <<proc, listVars, attached>>
               /\ ret' = "TXD_FAIL" \/ QpairUsable'
<1>0. TypeOK /\ ListsMatch /\ QpairsCounted /\ ReadInFlight
  BY DEF IInv
<1>1. CASE ~HeadUsable
  <2>1. Stop("undefined")
    BY <1>1 DEF spdk_alloc_qpair
  <2> QED
    BY <1>0, <1>1, <2>1, StopStep, HeadNotUsable DEF Stop
<1>2. CASE HeadUsable
  <2> DEFINE e == Head(g_namespaces)
  <2>1. /\ e \in NsEntry /\ 1 \in LiveAt(g_namespaces, epoch)
        /\ e = g_namespaces[1]
    BY <1>0, <1>2, HeadIsLive
  <2>2. UNCHANGED <<proc, listVars, attached, disk, buf_user, io>>
    BY <1>2 DEF spdk_alloc_qpair
  <2>3. ListsMatch' /\ ReadInFlight'
    BY <1>0, <2>2, ListsFrame, ReadFrame
  <2>4. e.ctrlr \in attached /\ e.ctrlr \in Controller
    BY <1>0, <2>1 DEF ListsMatch, NssMatch, TypeOK
  <2>5. /\ io_qpairs \in [Controller -> 0 .. MaxQpairs] /\ MaxQpairs \in Nat
        /\ attached' = attached /\ g_namespaces' = g_namespaces
        /\ epoch' = epoch
    BY <1>0, <2>2 DEF TypeOK, ConstantsOK, listVars
  <2>6. /\ IsFiniteSet(ready)
        /\ \A c : IsFiniteSet(Mine(c)) /\ Cardinality(Mine(c)) \in Nat
    BY <1>0, MineFinite DEF QpairsCounted
  <2>7. CASE /\ io_qpairs[e.ctrlr] < MaxQpairs
             /\ io_qpairs' = [io_qpairs EXCEPT ![e.ctrlr] = @ + 1]
             /\ ready' = ready \cup {e}
             /\ ret' = "TXD_SUCCESS"
    <3>1. /\ io_qpairs' = [io_qpairs EXCEPT ![e.ctrlr] = @ + 1]
          /\ ready' = ready \cup {e}
          /\ ret' = "TXD_SUCCESS"
      BY <2>7
    <3> HIDE DEF e
    <3>2. io_qpairs' \in [Controller -> 0 .. MaxQpairs]
      BY <2>4, <2>5, <2>7, <3>1
    <3>3. TypeOK'
      BY <1>0, <2>1, <2>2, <3>1, <3>2 DEF TypeOK, listVars
    <3>4. IsFiniteSet(ready')
      BY <2>6, <3>1, FS_AddElement
    <3>5. ASSUME NEW c \in Controller
          PROVE  Cardinality(Mine(c)') <= io_qpairs'[c]
      <4>1. /\ Cardinality(Mine(c)) <= io_qpairs[c]
            /\ Cardinality(Mine(c)) \in Nat /\ io_qpairs[c] \in Nat
        BY <1>0, <2>5, <2>6 DEF QpairsCounted
      <4>2. CASE c = e.ctrlr
        <5>1. Mine(c)' = Mine(c) \cup {e}
          BY <3>1, <4>2 DEF Mine
        <5>2. Cardinality(Mine(c) \cup {e}) <= Cardinality(Mine(c)) + 1
          <6> DEFINE M == Mine(c)
          <6>1. IsFiniteSet(M) /\ Cardinality(M) \in Nat
            BY <2>6
          <6> HIDE DEF M
          <6>2. Cardinality(M \cup {e}) = IF e \in M THEN Cardinality(M) ELSE Cardinality(M) + 1
            BY <6>1, FS_AddElement
          <6>3. Cardinality(M \cup {e}) <= Cardinality(M) + 1
            BY <6>1, <6>2
          <6> QED
            BY <6>3 DEF M
        <5>3. io_qpairs'[c] = io_qpairs[c] + 1
          BY <2>5, <3>1, <4>2
        <5>4. Cardinality(Mine(c)') \in Nat
          BY <2>6, <5>1, FS_AddElement, FS_CardinalityType
        <5> QED
          BY <4>1, <5>1, <5>2, <5>3, <5>4
      <4>3. CASE c # e.ctrlr
        <5>1. Mine(c)' = Mine(c)
          BY <3>1, <4>3 DEF Mine
        <5>2. io_qpairs'[c] = io_qpairs[c]
          BY <2>5, <3>1, <4>3
        <5> QED
          BY <4>1, <5>1, <5>2
      <4> QED
        BY <4>2, <4>3
    <3>6. ASSUME NEW c \in Controller, io_qpairs'[c] > 0 PROVE c \in attached'
      BY <1>0, <2>4, <2>5, <3>1, <3>6 DEF QpairsCounted
    <3>7. \A d \in ready' : d.ctrlr \in attached'
      BY <1>0, <2>4, <2>5, <3>1 DEF QpairsCounted
    <3>8. \A d \in ready' : \E i \in LiveAt(g_namespaces, epoch)' : g_namespaces'[i] = d
      BY <1>0, <2>1, <2>5, <3>1 DEF QpairsCounted, LiveAt
    <3>9. QpairsCounted'
      BY <3>4, <3>5, <3>6, <3>7, <3>8 DEF QpairsCounted
    <3>10. QpairUsable'
      BY <1>2, <2>5, <3>1 DEF QpairUsable, HeadUsable, Head0, Freed, e
    <3> QED
      BY <2>2, <2>3, <3>3, <3>9, <3>10 DEF IInv
  <2>8. CASE /\ ready' = ready \ {e}
             /\ ret' = "TXD_FAIL"
             /\ UNCHANGED io_qpairs
    <3>1. /\ ready' = ready \ {e}
          /\ ret' = "TXD_FAIL"
          /\ UNCHANGED io_qpairs
      BY <2>8
    <3>2. TypeOK'
      BY <1>0, <2>2, <3>1 DEF TypeOK, listVars
    <3>3. QpairsCounted'
      <4>1. IsFiniteSet(ready')
        BY <2>6, <3>1, FS_Subset
      <4>2. ASSUME NEW c \in Controller
            PROVE  Cardinality(Mine(c)') <= io_qpairs'[c]
        <5>1. Mine(c)' \subseteq Mine(c)
          BY <3>1 DEF Mine
        <5>2. /\ Cardinality(Mine(c)') <= Cardinality(Mine(c))
              /\ Cardinality(Mine(c)') \in Nat
          BY <2>6, <5>1, FS_Subset, FS_CardinalityType
        <5>3. /\ Cardinality(Mine(c)) <= io_qpairs[c]
              /\ Cardinality(Mine(c)) \in Nat /\ io_qpairs[c] \in Nat
          BY <1>0, <2>5, <2>6 DEF QpairsCounted
        <5> QED
          BY <3>1, <5>2, <5>3
      <4>3. \A d \in ready' : \E i \in LiveAt(g_namespaces, epoch)' : g_namespaces'[i] = d
        BY <1>0, <2>5, <3>1 DEF QpairsCounted, LiveAt
      <4> QED
        BY <1>0, <2>5, <3>1, <4>1, <4>2, <4>3 DEF QpairsCounted
    <3> QED
      BY <2>2, <2>3, <3>1, <3>2, <3>3 DEF IInv
  <2> QED
    BY <1>2, <2>7, <2>8 DEF spdk_alloc_qpair
<1> QED
  BY <1>1, <1>2

(* The command of a call is submitted, or the call ends the process.       *)
LEMMA SubmitStep ==
  ASSUME ConstantsOK, IInv,
         NEW op \in {"read", "write"}, NEW lba \in Lba, NEW count \in Nat \ {0},
         NEW data \in Data, op = "read" => data = Zeros,
         Submit(op, lba, count, data)
  PROVE  /\ IInv'
         /\ UNCHANGED <<listVars, devVars, disk, buf_user>>
         /\ \/ /\ proc' \in {"no_memory", "exited"} /\ UNCHANGED io
            \/ ~QpairUsable /\ proc' = "undefined" /\ UNCHANGED io
            \/ /\ QpairUsable /\ UNCHANGED proc
               /\ io' = [op |-> op, lba |-> lba, count |-> count, buf |-> data,
                         stage |-> "submitted", ok |-> TRUE]
<1>0. TypeOK /\ ListsMatch /\ QpairsCounted /\ ReadInFlight
  BY DEF IInv
<1>1. CASE Stop("no_memory")
  BY <1>1, StopStep DEF Stop
<1>2. CASE ~QpairUsable /\ Stop("undefined")
  BY <1>2, StopStep DEF Stop
<1>3. CASE QpairUsable /\ Stop("exited")
  BY <1>3, StopStep DEF Stop
<1>4. CASE /\ QpairUsable
           /\ io' = [op |-> op, lba |-> lba, count |-> count, buf |-> data,
                     stage |-> "submitted", ok |-> TRUE]
           /\ ret' = "none"
           /\ UNCHANGED <<proc, listVars, devVars, disk, buf_user>>
  <2>1. io' \in Io
    BY <1>4 DEF Io
  <2>2. TypeOK'
    BY <1>0, <1>4, <2>1 DEF TypeOK, listVars, devVars
  <2>3. UNCHANGED <<listVars, attached>>
    BY <1>4 DEF devVars
  <2>4. ListsMatch' /\ QpairsCounted'
    BY <1>0, <1>4, <2>3, ListsFrame, QpairsFrame
  <2>5. io'.op = op /\ io'.buf = data
    BY <1>4
  <2>6. ReadInFlight'
    BY <2>5 DEF ReadInFlight
  <2> QED
    BY <1>4, <2>2, <2>4, <2>6 DEF IInv
<1> QED
  BY <1>1, <1>2, <1>3, <1>4 DEF Submit

(* The device changes the buffer of a read and the sectors of a write.     *)
LEMMA DeviceStep ==
  ASSUME ConstantsOK, IInv, DeviceExecutes
  PROVE  /\ IInv'
         /\ UNCHANGED <<proc, ret, listVars, devVars, buf_user>>
         /\ io # NoIo /\ io.stage = "submitted" /\ io' # NoIo
         /\ io'.op = io.op /\ io'.lba = io.lba /\ io'.count = io.count
         /\ io.op = "read" => UNCHANGED disk
         /\ io'.stage = "executed"
         /\ \A s \in DOMAIN disk : disk'[s] # disk[s] => s \in Sectors
<1>0. TypeOK /\ ListsMatch /\ QpairsCounted /\ ReadInFlight
  BY DEF IInv
<1>1. /\ io # NoIo /\ io.stage = "submitted"
      /\ UNCHANGED <<proc, ret, listVars, devVars, buf_user>>
      /\ DeviceReads \/ DeviceWrites
  BY DEF DeviceExecutes
<1>2. /\ io \in [op : {"read", "write"}, lba : Lba, count : Nat \ {0}, buf : Data,
                 stage : {"submitted", "executed"}, ok : BOOLEAN]
      /\ disk \in [Lba -> Data]
  BY <1>0, <1>1 DEF TypeOK, Io
<1>3. UNCHANGED <<listVars, attached>>
  BY <1>1 DEF devVars
<1>4. ListsMatch' /\ QpairsCounted'
  BY <1>0, <1>1, <1>3, ListsFrame, QpairsFrame
<1>5. CASE DeviceReads
  <2>1. PICK ok \in BOOLEAN :
          io' = [io EXCEPT !.stage = "executed", !.ok = ok,
                           !.buf = IF ok THEN disk[io.lba] ELSE @]
    BY <1>5 DEF DeviceReads
  <2>2. io.op = "read" /\ UNCHANGED disk
    BY <1>5 DEF DeviceReads
  <2>3. disk[io.lba] \in Data /\ io.buf \in Data
    BY <1>2
  <2>4. /\ io' \in [op : {"read", "write"}, lba : Lba, count : Nat \ {0}, buf : Data,
                    stage : {"submitted", "executed"}, ok : BOOLEAN]
        /\ io'.op = io.op /\ io'.lba = io.lba /\ io'.count = io.count
        /\ io'.stage = "executed"
        /\ io'.buf = IF ok THEN disk[io.lba] ELSE io.buf
    BY <1>2, <2>1, <2>3
  <2>5. TypeOK'
    BY <1>0, <1>1, <2>2, <2>4 DEF TypeOK, Io, listVars, devVars
  <2>6. io.buf = Zeros
    BY <1>0, <1>1, <2>2 DEF ReadInFlight
  <2>7. ReadInFlight'
    BY <2>2, <2>4, <2>6 DEF ReadInFlight
  <2>8. io' # NoIo
    BY <2>2, <2>4 DEF NoIo
  <2> QED
    BY <1>1, <1>4, <2>2, <2>4, <2>5, <2>7, <2>8 DEF IInv
<1>6. CASE DeviceWrites
  <2>1. PICK ok \in BOOLEAN, done \in SUBSET Sectors :
          /\ io' = [io EXCEPT !.stage = "executed", !.ok = ok]
          /\ \E behind \in [done \ {io.lba} -> Data] :
               disk' = [a \in Lba |-> IF a \notin done THEN disk[a]
                                     ELSE IF a = io.lba THEN io.buf ELSE behind[a]]
    BY <1>6 DEF DeviceWrites
  <2>2. PICK behind \in [done \ {io.lba} -> Data] :
          disk' = [a \in Lba |-> IF a \notin done THEN disk[a]
                                ELSE IF a = io.lba THEN io.buf ELSE behind[a]]
    BY <2>1
  <2>3. io.op = "write"
    BY <1>6 DEF DeviceWrites
  <2>4. /\ io' \in [op : {"read", "write"}, lba : Lba, count : Nat \ {0}, buf : Data,
                    stage : {"submitted", "executed"}, ok : BOOLEAN]
        /\ io'.op = io.op /\ io'.lba = io.lba /\ io'.count = io.count
        /\ io'.stage = "executed"
    BY <1>2, <2>1
  <2>5. disk' \in [Lba -> Data]
    BY <1>2, <2>2
  <2>6. TypeOK'
    BY <1>0, <1>1, <2>4, <2>5 DEF TypeOK, Io, listVars, devVars
  <2>7. ReadInFlight'
    BY <2>3, <2>4 DEF ReadInFlight
  <2>8. io' # NoIo
    BY <2>3, <2>4 DEF NoIo
  <2>9. \A s \in DOMAIN disk : disk'[s] # disk[s] => s \in Sectors
    BY <1>2, <2>2
  <2> QED
    BY <1>1, <1>4, <2>3, <2>4, <2>6, <2>7, <2>8, <2>9 DEF IInv
<1> QED
  BY <1>1, <1>5, <1>6

(* The end of a call: a read hands over what its buffer holds.             *)
LEMMA CompletedStep ==
  ASSUME IInv, NEW op, Completed(op)
  PROVE  /\ IInv'
         /\ UNCHANGED <<proc, listVars, devVars, disk>>
         /\ ret' = "TXD_SUCCESS"
         /\ io.op = op /\ io' = NoIo
         /\ op = "read" => buf_user' \in {disk[io.lba], Zeros}
<1>0. TypeOK /\ ListsMatch /\ QpairsCounted /\ ReadInFlight
  BY DEF IInv
<1>1. /\ io # NoIo /\ io.op = op /\ io.stage = "executed"
      /\ ret' = "TXD_SUCCESS"
      /\ buf_user' = IF op = "read" THEN io.buf ELSE buf_user
      /\ io' = NoIo
      /\ UNCHANGED <<proc, listVars, devVars, disk>>
  BY DEF Completed
<1>2. io.buf \in Data /\ buf_user \in Data
  BY <1>0, <1>1 DEF TypeOK, Io
<1>3. TypeOK'
  BY <1>0, <1>1, <1>2 DEF TypeOK, Io, listVars, devVars
<1>4. UNCHANGED <<listVars, attached>>
  BY <1>1 DEF devVars
<1>5. ListsMatch' /\ QpairsCounted'
  BY <1>0, <1>1, <1>4, ListsFrame, QpairsFrame
<1>6. ReadInFlight'
  BY <1>1 DEF ReadInFlight
<1>7. op = "read" => buf_user' \in {disk[io.lba], Zeros}
  BY <1>0, <1>1 DEF ReadInFlight
<1> QED
  BY <1>1, <1>3, <1>5, <1>6, <1>7 DEF IInv

(* The queue pair that spdk_free gives back is counted by its controller.  *)
LEMMA FreeStep ==
  ASSUME ConstantsOK, IInv, spdk_free
  PROVE  /\ IInv'
         /\ UNCHANGED <<listVars, attached, disk, buf_user, io>>
         /\ \/ ~QpairUsable /\ Stop("undefined")
            \/ UNCHANGED proc /\ ret' = "TXD_SUCCESS"
<1>0. TypeOK /\ ListsMatch /\ QpairsCounted /\ ReadInFlight
  BY DEF IInv
<1>1. CASE ~QpairUsable
  <2>1. Stop("undefined")
    BY <1>1 DEF spdk_free
  <2> QED
    BY <1>1, <2>1, StopStep DEF Stop, devVars
<1>2. CASE QpairUsable
  <2> DEFINE e == Head(g_namespaces)
             M == Mine(e.ctrlr)
  <2>1. e \in NsEntry /\ e \in ready
    BY <1>0, <1>2, HeadIsLive DEF QpairUsable
  <2>2. /\ io_qpairs' = [io_qpairs EXCEPT ![e.ctrlr] = @ - 1]
        /\ ready' = ready \ {e}
        /\ ret' = "TXD_SUCCESS"
        /\ UNCHANGED <<proc, listVars, attached, disk, buf_user, io>>
    BY <1>2 DEF spdk_free
  <2>3. ListsMatch' /\ ReadInFlight'
    BY <1>0, <2>2, ListsFrame, ReadFrame
  <2>4. e.ctrlr \in Controller /\ e \in M
    BY <2>1 DEF NsEntry, Mine
  <2>5. /\ io_qpairs \in [Controller -> 0 .. MaxQpairs] /\ MaxQpairs \in Nat
        /\ attached' = attached /\ g_namespaces' = g_namespaces
        /\ epoch' = epoch
    BY <1>0, <2>2 DEF TypeOK, ConstantsOK, listVars
  <2>6. /\ IsFiniteSet(ready)
        /\ \A c : IsFiniteSet(Mine(c)) /\ Cardinality(Mine(c)) \in Nat
    BY <1>0, MineFinite DEF QpairsCounted
  <2>7. /\ IsFiniteSet(M) /\ Cardinality(M) \in Nat
        /\ Cardinality(M) <= io_qpairs[e.ctrlr]
    BY <1>0, <2>4, <2>6 DEF QpairsCounted
  <2>8. \A c \in Controller : c = e.ctrlr => Mine(c)' = M \ {e}
    BY <2>2 DEF Mine
  <2>9. \A c \in Controller \ {e.ctrlr} : Mine(c)' = Mine(c)
    BY <2>2 DEF Mine
  <2> HIDE DEF e, M
  <2>10. /\ Cardinality(M \ {e}) = Cardinality(M) - 1
         /\ Cardinality(M \ {e}) \in Nat
    BY <2>4, <2>7, FS_RemoveElement, FS_CardinalityType
  <2>11. io_qpairs[e.ctrlr] >= 1 /\ io_qpairs[e.ctrlr] \in 0 .. MaxQpairs
    BY <2>4, <2>5, <2>7, <2>10
  <2>12. io_qpairs' \in [Controller -> 0 .. MaxQpairs]
    BY <2>2, <2>4, <2>5, <2>11
  <2>13. TypeOK'
    BY <1>0, <2>2, <2>12 DEF TypeOK, listVars
  <2>14. QpairsCounted'
    <3>1. IsFiniteSet(ready')
      BY <2>2, <2>6, FS_RemoveElement
    <3>2. ASSUME NEW c \in Controller
          PROVE  Cardinality(Mine(c)') <= io_qpairs'[c]
      <4>1. CASE c = e.ctrlr
        <5>1. io_qpairs'[c] = io_qpairs[e.ctrlr] - 1
          BY <2>2, <2>5, <4>1
        <5>2. Mine(c)' = M \ {e}
          BY <2>8, <4>1
        <5>3. Cardinality(Mine(c)') = Cardinality(M \ {e})
          BY <5>2
        <5> QED
          BY <2>7, <2>10, <2>11, <5>1, <5>3
      <4>2. CASE c # e.ctrlr
        BY <1>0, <2>2, <2>5, <2>9, <4>2 DEF QpairsCounted
      <4> QED
        BY <4>1, <4>2
    <3>3. ASSUME NEW c \in Controller, io_qpairs'[c] > 0
          PROVE  c \in attached'
      <4>1. io_qpairs[c] > 0
        BY <2>2, <2>4, <2>5, <2>11, <3>3
      <4> QED
        BY <1>0, <2>5, <4>1 DEF QpairsCounted
    <3>4. \A d \in ready' : \E i \in LiveAt(g_namespaces, epoch)' : g_namespaces'[i] = d
      BY <1>0, <2>2, <2>5 DEF QpairsCounted, LiveAt
    <3>5. \A d \in ready' : d.ctrlr \in attached'
      BY <1>0, <2>2, <2>5 DEF QpairsCounted
    <3> QED
      BY <3>1, <3>2, <3>3, <3>4, <3>5 DEF QpairsCounted
  <2> QED
    BY <2>2, <2>3, <2>13, <2>14 DEF IInv
<1> QED
  BY <1>1, <1>2

-----------------------------------------------------------------------------
(* Every step keeps the invariant.                                         *)
LEMMA NextStep ==
  ASSUME ConstantsOK, IInv, Next
  PROVE  IInv'
<1>1. CASE spdk_init
  BY <1>1, SpdkInitStep
<1>2. CASE spdk_alloc_qpair
  BY <1>2, AllocStep
<1>3. Counts \subseteq Nat \ {0}
  BY DEF Counts
<1>4. ASSUME NEW a \in Lba, NEW n \in Counts, spdk_read_submit(a, n)
      PROVE  IInv'
  <2>1. Submit("read", a, n, Zeros) /\ Zeros \in Data /\ n \in Nat \ {0}
    BY <1>3, <1>4 DEF spdk_read_submit, ConstantsOK
  <2> QED
    BY <2>1, SubmitStep
<1>5. ASSUME NEW a \in Lba, NEW n \in Counts, NEW d \in Data, spdk_write_submit(a, n, d)
      PROVE  IInv'
  <2>1. Submit("write", a, n, d) /\ n \in Nat \ {0}
    BY <1>3, <1>5 DEF spdk_write_submit
  <2> QED
    BY <2>1, SubmitStep
<1>6. CASE spdk_free
  BY <1>6, FreeStep
<1>7. CASE cleanup
  BY <1>7, CleanupStep
<1>8. CASE DeviceExecutes
  BY <1>8, DeviceStep
<1>9. CASE Poll
  BY <1>9, CompletedStep DEF Poll, read_complete, write_complete
<1> QED
  BY <1>1, <1>2, <1>4, <1>5, <1>6, <1>7, <1>8, <1>9 DEF Next, Call

(* Nothing changes when nothing changes.                                   *)
LEMMA Stutter ==
  ASSUME IInv, UNCHANGED vars
  PROVE  IInv'
<1>1. UNCHANGED <<proc, ret, listVars, devVars, disk, buf_user, io>>
  BY DEF vars
<1>2. TypeOK'
  BY <1>1 DEF IInv, TypeOK, listVars, devVars
<1>3. UNCHANGED <<listVars, attached>>
  BY <1>1 DEF devVars
<1> QED
  BY <1>1, <1>2, <1>3, ListsFrame, QpairsFrame, ReadFrame DEF IInv

(* The inductive invariant of the device layer: types, lists that stand    *)
(* for the attached controllers, queue pairs counted by attached           *)
(* controllers, and a read whose buffer holds zeros or the block.          *)
THEOREM Invariant == Spec => []IInv
<1>1. Init => IInv
  BY InitIInv, SpdkAssumption
<1>2. IInv /\ [Next]_vars => IInv'
  BY NextStep, Stutter, SpdkAssumption
<1> QED
  BY <1>1, <1>2, PTL DEF Spec

(* Every reachable state of the device layer is well typed: no counter of  *)
(* queue pairs passes below zero or above its limit, and the lists are not *)
(* freed twice.                                                            *)
THEOREM SpdkTypeOK == Spec => []TypeOK
<1>1. IInv => TypeOK
  BY DEF IInv
<1> QED
  BY <1>1, Invariant, PTL

(* The lists of spdk_init and cleanup stand for the attached controllers   *)
(* and their namespaces, each once, in whatever order calls are made and   *)
(* whatever each probe finds.                                              *)
THEOREM ListsMatchDevicesHolds == Spec => []ListsMatchDevices
<1>1. ASSUME IInv PROVE ListsMatchDevices
  <2> DEFINE cs == Restrict(g_controllers, Live(g_controllers))
             ns == Restrict(g_namespaces, Live(g_namespaces))
             LC == LiveAt(g_controllers, epoch)
             LN == LiveAt(g_namespaces, epoch)
  <2>1. /\ CtrlrsMatch(g_controllers, attached, epoch)
        /\ NssMatch(g_namespaces, attached, epoch)
    BY <1>1 DEF IInv, ListsMatch
  <2>2. Live(g_controllers) = LC /\ Live(g_namespaces) = LN
    BY DEF Live, LiveAt, Freed
  <2>3. /\ DOMAIN cs = LC /\ \A i \in LC : cs[i] = g_controllers[i]
        /\ DOMAIN ns = LN /\ \A i \in LN : ns[i] = g_namespaces[i]
    BY <2>2 DEF Restrict
  <2> HIDE DEF cs, ns, LC, LN
  <2>4. {cs[i].ctrlr : i \in DOMAIN cs} = attached
    BY <2>1, <2>3 DEF CtrlrsMatch, LC
  <2>5. \A i, j \in DOMAIN cs : cs[i].ctrlr = cs[j].ctrlr => i = j
    BY <2>1, <2>3 DEF CtrlrsMatch, LC
  <2>6. IsInjective(ns)
    BY <2>1, <2>3 DEF NssMatch, IsInjective, LN
  <2>7. \A i \in LN : ns[i].ctrlr \in attached /\ ns[i].ns \in Range(ActiveNs[ns[i].ctrlr])
    BY <2>1, <2>3 DEF NssMatch, LN
  <2>8. \A c \in attached : \A n \in Range(ActiveNs[c]) :
          \E i \in LN : ns[i].ctrlr = c /\ ns[i].ns = n
    BY <2>1, <2>3 DEF NssMatch, LN
  <2>9. {<<ns[i].ctrlr, ns[i].ns>> : i \in DOMAIN ns}
          = UNION { {c} \X Range(ActiveNs[c]) : c \in attached }
    <3>1. ASSUME NEW i \in DOMAIN ns
          PROVE  <<ns[i].ctrlr, ns[i].ns>> \in UNION { {c} \X Range(ActiveNs[c]) : c \in attached }
      BY <2>3, <2>7
    <3>2. ASSUME NEW c \in attached, NEW p \in {c} \X Range(ActiveNs[c])
          PROVE  p \in {<<ns[i].ctrlr, ns[i].ns>> : i \in DOMAIN ns}
      <4>1. PICK n \in Range(ActiveNs[c]) : p = <<c, n>>
        OBVIOUS
      <4>2. PICK i \in LN : ns[i].ctrlr = c /\ ns[i].ns = n
        BY <2>8
      <4> QED
        BY <2>3, <4>1, <4>2
    <3> QED
      BY <3>1, <3>2
  <2> QED
    BY <2>4, <2>5, <2>6, <2>9 DEF ListsMatchDevices, cs, ns
<1> QED
  BY <1>1, Invariant, PTL

(* A queue pair that I/O may use belongs to an attached controller and a   *)
(* live entry, and is counted: spdk_free and the I/O calls never reach for *)
(* one that cleanup has taken away.                                        *)
THEOREM ReadyQpairsLiveHolds == Spec => []ReadyQpairsLive
<1>1. ASSUME IInv PROVE ReadyQpairsLive
  <2>1. QpairsCounted
    BY <1>1 DEF IInv
  <2>2. Live(g_namespaces) = LiveAt(g_namespaces, epoch)
    BY DEF Live, LiveAt, Freed
  <2>3. ASSUME NEW c \in Controller
        PROVE  /\ {e \in ready : e.ctrlr = c} # {} => c \in attached
               /\ Cardinality({e \in ready : e.ctrlr = c}) <= io_qpairs[c]
               /\ {e \in ready : e.ctrlr = c} \subseteq {g_namespaces[i] : i \in Live(g_namespaces)}
    <3>1. Cardinality({e \in ready : e.ctrlr = c}) <= io_qpairs[c]
      BY <2>1 DEF QpairsCounted, Mine
    <3> QED
      BY <2>1, <2>2, <3>1 DEF QpairsCounted
  <2> QED
    BY <2>3 DEF ReadyQpairsLive
<1> QED
  BY <1>1, Invariant, PTL

(* What spdk_read hands over is what the block held when the call returns, *)
(* or zeros when the device reported an error.                             *)
THEOREM ReadsBlockOrZerosHolds == Spec => ReadsBlockOrZeros
<1>1. IInv /\ [Next]_vars => [read_complete => buf_user' \in {disk[io.lba], Zeros}]_vars
  BY CompletedStep DEF read_complete
<1> QED
  BY <1>1, Invariant, PTL DEF Spec, ReadsBlockOrZeros
=============================================================================
