--------------------------- MODULE ResolveRefsProofs ---------------------------
(***************************************************************************)
(* For any finite set of documents, any references between them and any    *)
(* order in which their fields are walked, ResolveRefsInSOT reads each      *)
(* document at most once, none too far away, and misses none when it may go *)
(* as deep as there are documents.                                         *)
(*                                                                         *)
(* `Within` is defined by recursion.  Its equations and its monotonicity    *)
(* follow from the least element of a set of naturals, stated for sets, not *)
(* for predicates, so that it can be cited.                                 *)
(***************************************************************************)
EXTENDS ResolveRefs, TLAPS, FiniteSetTheorems

Less == {pair \in Nat \X Nat : pair[1] < pair[2]}

LEMMA LeastElement ==
    ASSUME NEW S \in SUBSET Nat, S # {}
    PROVE  \E n \in S : \A m \in S : n <= m
<1>1. IsWellFoundedOn(Less, Nat)
    BY NatLessThanWellFounded DEF OpToRel, Less
<1>2. PICK n \in S : \A m \in S : ~ <<m, n>> \in Less
    BY <1>1, WFMin
<1>3. \A m \in S : ~ (m < n)
    BY <1>2 DEF Less
<1> QED
    BY <1>3

LEMMA Induction ==
    ASSUME NEW S \in SUBSET Nat, 0 \in S, \A n \in S : n + 1 \in S
    PROVE  S = Nat
<1> SUFFICES ASSUME S # Nat
             PROVE  FALSE
    OBVIOUS
<1>1. PICK n \in Nat \ S : \A m \in Nat \ S : n <= m
    BY LeastElement
<1>2. n # 0 /\ n - 1 \in Nat /\ n - 1 < n
    BY <1>1
<1>3. n - 1 \in S
    BY <1>1, <1>2
<1> QED
    BY <1>1, <1>3

-------------------------------------------------------------------------------
(* The recursive definition of Within. *)

Farther(near) == near \cup UNION {refers[d] : d \in near}

(* The first n + 1 values of Within, and the only ones that can be. *)
Approximates(n, f) ==
    /\ f \in [0 .. n -> SUBSET Documents]
    /\ \A i \in 0 .. n : f[i] = IF i <= 1 THEN root ELSE Farther(f[i - 1])

LEMMA FartherType ==
    ASSUME TypeOK, NEW near \in SUBSET Documents
    PROVE  Farther(near) \in SUBSET Documents
BY DEF TypeOK, Farther

LEMMA PrefixExists ==
    ASSUME TypeOK
    PROVE  \A n \in Nat : \E f : Approximates(n, f)
<1> DEFINE S == {n \in Nat : \E f : Approximates(n, f)}
<1>1. root \in SUBSET Documents
    BY DEF TypeOK
<1>2. 0 \in S
    <2>1. Approximates(0, [i \in 0 .. 0 |-> root])
        BY <1>1 DEF Approximates
    <2> QED
        BY <2>1
<1>3. ASSUME NEW n \in S
      PROVE  n + 1 \in S
    <2>1. PICK f : Approximates(n, f)
        BY <1>3
    <2> DEFINE next == IF n + 1 <= 1 THEN root ELSE Farther(f[n])
               g == [i \in 0 .. (n + 1) |-> IF i = n + 1 THEN next ELSE f[i]]
    <2>2. f[n] \in SUBSET Documents
        BY <1>3, <2>1 DEF Approximates
    <2>3. next \in SUBSET Documents
        BY <1>1, <2>2, FartherType
    <2>4. g \in [0 .. (n + 1) -> SUBSET Documents]
        BY <2>1, <2>3 DEF Approximates
    <2>5. ASSUME NEW i \in 0 .. (n + 1)
          PROVE  g[i] = IF i <= 1 THEN root ELSE Farther(g[i - 1])
        <3>1. CASE i = n + 1
            <4>1. g[i] = next
                BY <3>1
            <4>2. i > 1 => g[i - 1] = f[n]
                BY <3>1
            <4> QED
                BY <3>1, <4>1, <4>2
        <3>2. CASE i # n + 1
            <4>1. i \in 0 .. n /\ (i > 1 => i - 1 \in 0 .. n)
                BY <3>2
            <4>2. g[i] = f[i] /\ (i > 1 => g[i - 1] = f[i - 1])
                BY <4>1
            <4>3. f[i] = IF i <= 1 THEN root ELSE Farther(f[i - 1])
                BY <2>1, <4>1 DEF Approximates
            <4> QED
                BY <4>1, <4>2, <4>3
        <3> QED
            BY <3>1, <3>2
    <2>6. Approximates(n + 1, g)
        BY <2>4, <2>5 DEF Approximates
    <2> QED
        BY <2>6
<1> HIDE DEF S
<1>4. S = Nat
    <2>1. S \in SUBSET Nat
        BY DEF S
    <2> QED
        BY <1>2, <1>3, <2>1, Induction
<1> QED
    BY <1>4 DEF S

LEMMA PrefixUnique ==
    ASSUME NEW m \in Nat, NEW n \in Nat, m <= n, NEW f, NEW g,
           Approximates(m, f), Approximates(n, g)
    PROVE  \A i \in 0 .. m : f[i] = g[i]
<1> DEFINE S == {i \in Nat : i <= m => f[i] = g[i]}
<1>1. 0 \in S
    BY DEF Approximates
<1>2. ASSUME NEW i \in S
      PROVE  i + 1 \in S
    <2> SUFFICES ASSUME i + 1 <= m
                 PROVE  f[i + 1] = g[i + 1]
        OBVIOUS
    <2>1. f[i] = g[i] /\ i + 1 \in 0 .. m /\ i + 1 \in 0 .. n /\ (i + 1) - 1 = i
        BY <1>2
    <2>2. f[i + 1] = IF i + 1 <= 1 THEN root ELSE Farther(f[i])
        BY <2>1 DEF Approximates
    <2>3. g[i + 1] = IF i + 1 <= 1 THEN root ELSE Farther(g[i])
        BY <2>1 DEF Approximates
    <2> QED
        BY <2>1, <2>2, <2>3
<1>3. S \in SUBSET Nat
    OBVIOUS
<1>4. S = Nat
    <2> HIDE DEF S
    <2> QED
        BY <1>1, <1>2, <1>3, Induction
<1>5. ASSUME NEW i \in 0 .. m
      PROVE  f[i] = g[i]
    <2>1. i \in S
        BY <1>4
    <2> QED
        BY <2>1
<1> QED
    BY <1>5

(* Within has the values that its definition asks for. *)
LEMMA WithinEquation ==
    ASSUME TypeOK
    PROVE  /\ Within[1] = root
           /\ \A n \in Nat \ {0} : Within[n + 1] = Farther(Within[n])
           /\ \A n \in Nat : Within[n] \in SUBSET Documents
<1> DEFINE prefix(n) == CHOOSE f : Approximates(n, f)
           w == [n \in Nat |-> prefix(n)[n]]
           Body(f, n) == IF n <= 1 THEN root
                         ELSE LET near == f[n - 1]
                              IN  near \cup UNION {refers[d] : d \in near}
<1>1. \A n \in Nat : Approximates(n, prefix(n))
    BY PrefixExists
<1> HIDE DEF prefix
<1>2. ASSUME NEW n \in Nat
      PROVE  w[n] = IF n <= 1 THEN root ELSE Farther(w[n - 1])
    <2>1. Approximates(n, prefix(n))
        BY <1>1
    <2>2. w[n] = IF n <= 1 THEN root ELSE Farther(prefix(n)[n - 1])
        BY <2>1 DEF Approximates
    <2>3. CASE n > 1
        <3>1. n - 1 \in Nat /\ n - 1 <= n /\ Approximates(n - 1, prefix(n - 1))
            BY <1>1, <2>3
        <3>2. \A i \in 0 .. (n - 1) : prefix(n - 1)[i] = prefix(n)[i]
            BY <2>1, <3>1, PrefixUnique
        <3>3. w[n - 1] = prefix(n)[n - 1]
            BY <3>1, <3>2
        <3> QED
            BY <2>2, <3>3
    <2> QED
        BY <2>2, <2>3
<1>3. w = [n \in Nat |-> Body(w, n)]
    <2>1. \A n \in Nat : w[n] = Body(w, n)
        BY <1>2 DEF Farther
    <2> QED
        BY <2>1
<1>4. \A n \in Nat : w[n] \in SUBSET Documents
    BY <1>1 DEF Approximates
<1> HIDE DEF w
<1>5. Within = [n \in Nat |-> Body(Within, n)]
    <2>1. Within = CHOOSE f : f = [n \in Nat |-> Body(f, n)]
        BY DEF Within
    <2> HIDE DEF Body
    <2>2. \E f : f = [n \in Nat |-> Body(f, n)]
        BY <1>3
    <2> QED
        BY <2>1, <2>2
<1>6. \A n \in Nat : Within[n] = IF n <= 1 THEN root ELSE Farther(Within[n - 1])
    BY <1>5 DEF Farther
<1> DEFINE S == {n \in Nat : Within[n] \in SUBSET Documents}
<1>7. root \in SUBSET Documents
    BY DEF TypeOK
<1>8. 0 \in S
    BY <1>6, <1>7
<1>9. ASSUME NEW n \in S
      PROVE  n + 1 \in S
    <2>1. Within[n + 1] = IF n + 1 <= 1 THEN root ELSE Farther(Within[n])
        BY <1>6
    <2> QED
        BY <1>7, <1>9, <2>1, FartherType
<1>10. S = Nat
    <2> HIDE DEF S
    <2>1. S \in SUBSET Nat
        BY DEF S
    <2> QED
        BY <1>8, <1>9, <2>1, Induction
<1>11. Within[1] = root
    BY <1>6
<1>12. ASSUME NEW n \in Nat \ {0}
       PROVE  Within[n + 1] = Farther(Within[n])
    BY <1>6
<1> QED
    BY <1>10, <1>11, <1>12

(* What is near is also farther. *)
LEMMA WithinMonotone ==
    ASSUME TypeOK, NEW m \in Nat \ {0}, NEW n \in Nat, m <= n
    PROVE  Within[m] \subseteq Within[n]
<1> DEFINE S == {k \in Nat : Within[m] \subseteq Within[m + k]}
<1>1. 0 \in S
    OBVIOUS
<1>2. ASSUME NEW k \in S
      PROVE  k + 1 \in S
    <2>1. Within[(m + k) + 1] = Farther(Within[m + k])
        BY WithinEquation
    <2>2. Within[m + k] \subseteq Farther(Within[m + k])
        BY DEF Farther
    <2>3. (m + k) + 1 = m + (k + 1)
        OBVIOUS
    <2>4. Within[m + (k + 1)] = Farther(Within[m + k])
        BY <2>1, <2>3
    <2>5. Within[m] \subseteq Within[m + k]
        BY <1>2
    <2>6. Within[m] \subseteq Within[m + (k + 1)]
        BY <2>2, <2>4, <2>5
    <2> QED
        BY <2>6
<1>3. S = Nat
    <2> HIDE DEF S
    <2>1. S \in SUBSET Nat
        BY DEF S
    <2> QED
        BY <1>1, <1>2, <2>1, Induction
<1>4. n - m \in S
    <2> HIDE DEF S
    <2>1. n - m \in Nat
        OBVIOUS
    <2> QED
        BY <1>3, <2>1
<1>5. m + (n - m) = n
    OBVIOUS
<1> QED
    BY <1>4, <1>5

(* A set that holds the caller's direct references, and the references of each of *)
(* its members, holds everything in reach.                                       *)
LEMMA WithinClosed ==
    ASSUME TypeOK, NEW C, root \subseteq C, \A d \in C : refers[d] \subseteq C,
           NEW n \in Nat \ {0}
    PROVE  Within[n] \subseteq C
<1> DEFINE S == {k \in Nat : Within[k + 1] \subseteq C}
<1>1. 0 \in S
    BY WithinEquation
<1>2. ASSUME NEW k \in S
      PROVE  k + 1 \in S
    <2>1. Within[(k + 1) + 1] = Farther(Within[k + 1])
        BY WithinEquation
    <2>2. Within[k + 1] \subseteq C
        BY <1>2
    <2>3. Farther(Within[k + 1]) \subseteq C
        BY <2>2 DEF Farther
    <2>4. Within[(k + 1) + 1] \subseteq C
        BY <2>1, <2>3
    <2> QED
        BY <2>4
<1>3. S = Nat
    <2> HIDE DEF S
    <2>1. S \in SUBSET Nat
        BY DEF S
    <2> QED
        BY <1>1, <1>2, <2>1, Induction
<1>4. n - 1 \in S
    <2> HIDE DEF S
    <2>1. n - 1 \in Nat
        OBVIOUS
    <2> QED
        BY <1>3, <2>1
<1>5. (n - 1) + 1 = n
    OBVIOUS
<1> QED
    BY <1>4, <1>5

-------------------------------------------------------------------------------
(* The inductive invariant. *)

(* The fields that the pending calls of walk have not met. *)
Pending == {d \in Documents : \E k \in DOMAIN stack : d \in stack[k].fields}

(* A call of walk at depth k walks a document that is k - 1 references away. *)
FramesInv ==
    /\ Len(stack) <= maxDepth
    /\ \A k \in DOMAIN stack : stack[k].fields \subseteq Within[k]

(* What is marked was asked for once, and nothing else was. *)
ReadsInv == \A d \in Documents : reads[d] = IF d \in seen THEN 1 ELSE 0

(* Without an error, every reference met is read or pending, unless the depth cut *)
(* it off; with a depth of at least the number of documents that happens only     *)
(* when nothing is left to read, for the stack is no deeper than what was read.   *)
NothingMissed ==
    status # "failed" =>
        /\ out = seen
        /\ root \subseteq seen \cup Pending
        /\ Len(stack) <= Cardinality(seen) + 1
        /\ maxDepth >= Cardinality(Documents) =>
               \/ seen = Documents
               \/ \A d \in seen : refers[d] \subseteq seen \cup Pending

Inv == TypeOK /\ FramesInv /\ ReadsInv /\ DepthBounded /\ NothingMissed

LEMMA InvInit == Init => Inv
<1> SUFFICES ASSUME Init
             PROVE  Inv
    OBVIOUS
<1> DEFINE first == [fields |-> root, depth |-> 1]
<1>1. maxDepth \in 1 .. MaxDepth
    BY ResolveAssumption DEF Init
<1>2. first \in Frame
    BY ResolveAssumption DEF Init, Frame
<1>3. stack \in Seq(Frame) /\ Len(stack) = 1 /\ DOMAIN stack = {1} /\ stack[1] = first
    BY <1>2 DEF Init
<1>4. TypeOK
    BY <1>1, <1>3 DEF Init, TypeOK
<1>5. FramesInv
    BY <1>1, <1>3, <1>4, WithinEquation DEF FramesInv
<1>6. ReadsInv /\ DepthBounded
    BY DEF Init, ReadsInv, DepthBounded
<1>7. NothingMissed
    <2>1. Pending = root
        BY <1>3, <1>4 DEF Pending, TypeOK
    <2>2. Cardinality(seen) = 0
        BY FS_EmptySet DEF Init
    <2> QED
        BY <1>3, <2>1, <2>2 DEF Init, NothingMissed
<1> QED
    BY <1>4, <1>5, <1>6, <1>7 DEF Inv

-------------------------------------------------------------------------------
(* How the steps change the stack. *)

LEMMA TopType ==
    ASSUME TypeOK, Walking
    PROVE  /\ Len(stack) \in Nat \ {0}
           /\ Len(stack) \in DOMAIN stack
           /\ Top = stack[Len(stack)]
           /\ Top \in Frame
           /\ Top.depth = Len(stack)
BY DEF TypeOK, Walking, Top, Last

LEMMA FrontType ==
    ASSUME NEW S, NEW s \in Seq(S), s # << >>
    PROVE  /\ Front(s) \in Seq(S)
           /\ Len(Front(s)) = Len(s) - 1
           /\ \A k \in 1 .. (Len(s) - 1) : Front(s)[k] = s[k]
<1>1. Len(s) \in Nat \ {0} /\ \A k \in 1 .. Len(s) : s[k] \in S
    OBVIOUS
<1>2. \A k \in 1 .. (Len(s) - 1) : s[k] \in S
    BY <1>1
<1>3. Front(s) = [k \in 1 .. (Len(s) - 1) |-> s[k]]
    BY <1>1 DEF Front
<1> QED
    BY <1>1, <1>2, <1>3

LEMMA ConcatOne ==
    ASSUME NEW S, NEW s \in Seq(S), NEW a \in S
    PROVE  /\ s \o <<a>> \in Seq(S)
           /\ Len(s \o <<a>>) = Len(s) + 1
           /\ \A k \in 1 .. Len(s) : (s \o <<a>>)[k] = s[k]
           /\ (s \o <<a>>)[Len(s) + 1] = a
OBVIOUS

LEMMA ConcatTwo ==
    ASSUME NEW S, NEW s \in Seq(S), NEW a \in S, NEW b \in S
    PROVE  /\ s \o <<a, b>> \in Seq(S)
           /\ Len(s \o <<a, b>>) = Len(s) + 2
           /\ \A k \in 1 .. Len(s) : (s \o <<a, b>>)[k] = s[k]
           /\ (s \o <<a, b>>)[Len(s) + 1] = a
           /\ (s \o <<a, b>>)[Len(s) + 2] = b
OBVIOUS

LEMMA PastType ==
    ASSUME TypeOK, Walking, NEW d
    PROVE  /\ Past(d) = [fields |-> Top.fields \ {d}, depth |-> Len(stack)]
           /\ Past(d) \in Frame
<1>1. ASSUME NEW t \in Frame
      PROVE  /\ [t EXCEPT !.fields = @ \ {d}] = [fields |-> t.fields \ {d}, depth |-> t.depth]
             /\ [fields |-> t.fields \ {d}, depth |-> t.depth] \in Frame
    BY DEF Frame
<1>2. Top \in Frame /\ Top.depth = Len(stack)
    BY TopType
<1> QED
    BY <1>1, <1>2 DEF Past

(* The loop of the innermost call is past d. *)
LEMMA PastStack ==
    ASSUME TypeOK, Walking, NEW d \in Top.fields, NEW s, s = Front(stack) \o <<Past(d)>>
    PROVE  /\ s \in Seq(Frame)
           /\ Len(s) = Len(stack)
           /\ \A k \in 1 .. (Len(stack) - 1) : s[k] = stack[k]
           /\ s[Len(stack)] = [fields |-> Top.fields \ {d}, depth |-> Len(stack)]
<1>1. /\ Front(stack) \in Seq(Frame)
      /\ Len(Front(stack)) = Len(stack) - 1
      /\ \A k \in 1 .. (Len(stack) - 1) : Front(stack)[k] = stack[k]
    BY FrontType DEF TypeOK, Walking
<1>2. /\ s \in Seq(Frame)
      /\ Len(s) = (Len(stack) - 1) + 1
      /\ \A k \in 1 .. (Len(stack) - 1) : s[k] = stack[k]
      /\ s[(Len(stack) - 1) + 1] = Past(d)
    BY <1>1, PastType, ConcatOne
<1>3. (Len(stack) - 1) + 1 = Len(stack)
    BY TopType
<1> QED
    BY <1>2, <1>3, PastType

(* ... and, within the depth, the document that d names is walked. *)
LEMMA CallStack ==
    ASSUME TypeOK, Walking, NEW d \in Top.fields, Len(stack) + 1 <= maxDepth,
           NEW s, s = Front(stack) \o <<Past(d), [fields |-> refers[d], depth |-> Top.depth + 1]>>
    PROVE  /\ s \in Seq(Frame)
           /\ Len(s) = Len(stack) + 1
           /\ \A k \in 1 .. (Len(stack) - 1) : s[k] = stack[k]
           /\ s[Len(stack)] = [fields |-> Top.fields \ {d}, depth |-> Len(stack)]
           /\ s[Len(stack) + 1] = [fields |-> refers[d], depth |-> Len(stack) + 1]
<1> DEFINE new == [fields |-> refers[d], depth |-> Len(stack) + 1]
<1>1. /\ Front(stack) \in Seq(Frame)
      /\ Len(Front(stack)) = Len(stack) - 1
      /\ \A k \in 1 .. (Len(stack) - 1) : Front(stack)[k] = stack[k]
    BY FrontType DEF TypeOK, Walking
<1>2. d \in Documents
    BY TopType DEF Frame
<1>3. refers[d] \in SUBSET Documents /\ Len(stack) + 1 \in 1 .. MaxDepth
    BY <1>2, TopType, ResolveAssumption DEF TypeOK
<1>4. new \in Frame
    BY <1>3 DEF Frame
<1>5. s = Front(stack) \o <<Past(d), new>>
    BY TopType
<1> HIDE DEF new
<1>6. /\ s \in Seq(Frame)
      /\ Len(s) = (Len(stack) - 1) + 2
      /\ \A k \in 1 .. (Len(stack) - 1) : s[k] = stack[k]
      /\ s[(Len(stack) - 1) + 1] = Past(d)
      /\ s[(Len(stack) - 1) + 2] = new
    BY <1>1, <1>4, <1>5, PastType, ConcatTwo
<1>7. (Len(stack) - 1) + 2 = Len(stack) + 1 /\ (Len(stack) - 1) + 1 = Len(stack)
    BY TopType
<1> QED
    BY <1>6, <1>7, PastType DEF new

(* A step that leaves the caller's document and the references as they are keeps  *)
(* what a stack of that shape is required to have.                               *)
LEMMA PastKeeps ==
    ASSUME Inv, Walking, NEW d \in Top.fields, stack' = Front(stack) \o <<Past(d)>>
    PROVE  /\ stack' \in Seq(Frame)
           /\ Len(stack') = Len(stack)
           /\ \A k \in DOMAIN stack' : stack'[k].depth = k
           /\ \A k \in DOMAIN stack' : stack'[k].fields \subseteq Within[k]
           /\ Pending \subseteq Pending' \cup {d}
<1>1. TypeOK /\ FramesInv /\ Len(stack) \in Nat \ {0} /\ Top = stack[Len(stack)]
    BY TopType DEF Inv
<1>2. /\ stack' \in Seq(Frame)
      /\ Len(stack') = Len(stack)
      /\ \A k \in 1 .. (Len(stack) - 1) : stack'[k] = stack[k]
      /\ stack'[Len(stack)] = [fields |-> Top.fields \ {d}, depth |-> Len(stack)]
    BY <1>1, PastStack
<1>3. DOMAIN stack' = 1 .. Len(stack) /\ DOMAIN stack = 1 .. Len(stack)
    BY <1>1, <1>2 DEF TypeOK
<1>4. ASSUME NEW k \in 1 .. Len(stack)
      PROVE  /\ stack'[k].depth = k
             /\ stack'[k].fields \subseteq Within[k]
             /\ stack[k].fields \subseteq stack'[k].fields \cup {d}
    <2>1. stack[k].depth = k /\ stack[k].fields \subseteq Within[k]
        <3>1. k \in DOMAIN stack
            BY <1>3
        <3>2. stack[k].depth = k
            BY <1>1, <3>1 DEF TypeOK
        <3>3. stack[k].fields \subseteq Within[k]
            BY <1>1, <3>1 DEF FramesInv
        <3> QED
            BY <3>2, <3>3
    <2>2. CASE k = Len(stack)
        BY <1>1, <1>2, <2>1, <2>2
    <2>3. CASE k # Len(stack)
        BY <1>1, <1>2, <2>1, <2>3
    <2> QED
        BY <2>2, <2>3
<1>5. Pending \subseteq Pending' \cup {d}
    BY <1>3, <1>4 DEF Pending
<1> QED
    BY <1>2, <1>3, <1>4, <1>5

LEMMA CallKeeps ==
    ASSUME Inv, Walking, NEW d \in Top.fields, Len(stack) + 1 <= maxDepth,
           stack' = Front(stack) \o <<Past(d), [fields |-> refers[d], depth |-> Top.depth + 1]>>
    PROVE  /\ stack' \in Seq(Frame)
           /\ Len(stack') = Len(stack) + 1
           /\ \A k \in DOMAIN stack' : stack'[k].depth = k
           /\ \A k \in DOMAIN stack' : stack'[k].fields \subseteq Within[k]
           /\ Pending \cup refers[d] \subseteq Pending' \cup {d}
<1>1. TypeOK /\ FramesInv /\ Len(stack) \in Nat \ {0} /\ Top = stack[Len(stack)]
    BY TopType DEF Inv
<1>2. /\ stack' \in Seq(Frame)
      /\ Len(stack') = Len(stack) + 1
      /\ \A k \in 1 .. (Len(stack) - 1) : stack'[k] = stack[k]
      /\ stack'[Len(stack)] = [fields |-> Top.fields \ {d}, depth |-> Len(stack)]
      /\ stack'[Len(stack) + 1] = [fields |-> refers[d], depth |-> Len(stack) + 1]
    BY <1>1, CallStack
<1>3. DOMAIN stack' = 1 .. (Len(stack) + 1) /\ DOMAIN stack = 1 .. Len(stack)
    BY <1>1, <1>2 DEF TypeOK
<1>4. ASSUME NEW k \in 1 .. Len(stack)
      PROVE  /\ stack'[k].depth = k
             /\ stack'[k].fields \subseteq Within[k]
             /\ stack[k].fields \subseteq stack'[k].fields \cup {d}
    <2>1. stack[k].depth = k /\ stack[k].fields \subseteq Within[k]
        <3>1. k \in DOMAIN stack
            BY <1>3
        <3>2. stack[k].depth = k
            BY <1>1, <3>1 DEF TypeOK
        <3>3. stack[k].fields \subseteq Within[k]
            BY <1>1, <3>1 DEF FramesInv
        <3> QED
            BY <3>2, <3>3
    <2>2. CASE k = Len(stack)
        <3>1. stack'[k].fields = stack[k].fields \ {d} /\ stack'[k].depth = k
            BY <1>1, <1>2, <2>2
        <3> QED
            BY <2>1, <3>1
    <2>3. CASE k # Len(stack)
        <3>1. k \in 1 .. (Len(stack) - 1)
            BY <1>1, <2>3
        <3>2. stack'[k] = stack[k]
            BY <1>2, <3>1
        <3> QED
            BY <2>1, <3>2
    <2> QED
        BY <2>2, <2>3
<1>5. refers[d] \subseteq Within[Len(stack) + 1]
    <2>1. d \in Within[Len(stack)]
        BY <1>1, <1>3 DEF FramesInv
    <2>2. Within[Len(stack) + 1] = Farther(Within[Len(stack)])
        BY <1>1, WithinEquation
    <2> QED
        BY <2>1, <2>2 DEF Farther
<1>6. ASSUME NEW k \in DOMAIN stack'
      PROVE  stack'[k].depth = k /\ stack'[k].fields \subseteq Within[k]
    <2>1. CASE k = Len(stack) + 1
        BY <1>2, <1>5, <2>1
    <2>2. CASE k # Len(stack) + 1
        BY <1>1, <1>3, <1>4, <2>2
    <2> QED
        BY <2>1, <2>2
<1>7. Pending \subseteq Pending' \cup {d}
    <2>1. SUFFICES ASSUME NEW x \in Pending, x # d
                   PROVE  x \in Pending'
        OBVIOUS
    <2>2. PICK k \in DOMAIN stack : x \in stack[k].fields
        BY DEF Pending
    <2>3. k \in DOMAIN stack' /\ x \in stack'[k].fields
        BY <1>1, <1>3, <1>4, <2>1, <2>2
    <2> QED
        BY <2>3 DEF Pending
<1>8. refers[d] \subseteq Pending'
    <2>1. refers[d] \subseteq Documents
        BY <1>1, TopType DEF Frame, TypeOK
    <2>2. Len(stack) + 1 \in DOMAIN stack' /\ stack'[Len(stack) + 1].fields = refers[d]
        BY <1>1, <1>2, <1>3
    <2> QED
        BY <2>1, <2>2 DEF Pending
<1> QED
    BY <1>2, <1>6, <1>7, <1>8

LEMMA WithinUnchanged == UNCHANGED <<root, refers>> => Within' = Within
BY DEF Within

LEMMA SkipStep ==
    ASSUME Inv, Skip
    PROVE  Inv'
<1>1. TypeOK /\ FramesInv /\ ReadsInv /\ DepthBounded /\ NothingMissed /\ Walking
    BY DEF Inv, Skip
<1>2. PICK d \in Top.fields \cap seen : stack' = Front(stack) \o <<Past(d)>>
    BY DEF Skip
<1>3. /\ stack' \in Seq(Frame)
      /\ Len(stack') = Len(stack)
      /\ \A k \in DOMAIN stack' : stack'[k].depth = k
      /\ \A k \in DOMAIN stack' : stack'[k].fields \subseteq Within[k]
      /\ Pending \subseteq Pending' \cup {d}
    BY <1>1, <1>2, PastKeeps
<1>4. UNCHANGED <<root, refers, maxDepth, seen, out, reads, status>> /\ Within' = Within
    BY WithinUnchanged DEF Skip
<1>5. TypeOK'
    BY <1>1, <1>3, <1>4 DEF TypeOK, Walking
<1>6. FramesInv'
    BY <1>1, <1>3, <1>4 DEF FramesInv
<1>7. ReadsInv' /\ DepthBounded'
    BY <1>1, <1>4 DEF ReadsInv, DepthBounded
<1>8. NothingMissed'
    <2>1. seen \cup Pending \subseteq seen' \cup Pending'
        BY <1>2, <1>3, <1>4
    <2> QED
        BY <1>1, <1>3, <1>4, <2>1 DEF NothingMissed
<1> QED
    BY <1>5, <1>6, <1>7, <1>8 DEF Inv

(* The document that a step asks for is in reach, and was not asked for before.  *)
LEMMA ReadKeeps ==
    ASSUME Inv, Walking, NEW d \in Top.fields \ seen, UNCHANGED <<root, refers, maxDepth>>,
           seen' = seen \cup {d}, reads' = [reads EXCEPT ![d] = @ + 1]
    PROVE  /\ d \in Documents
           /\ seen' \in SUBSET Documents
           /\ reads' \in [Documents -> Nat]
           /\ ReadsInv'
           /\ DepthBounded'
           /\ Cardinality(seen) \in Nat
           /\ Cardinality(seen') = Cardinality(seen) + 1
<1>1. TypeOK /\ FramesInv /\ ReadsInv /\ DepthBounded
    BY DEF Inv
<1>2. d \in Documents /\ Len(stack) \in DOMAIN stack /\ Top = stack[Len(stack)]
      /\ Len(stack) \in Nat \ {0}
    BY <1>1, TopType DEF Frame
<1>3. seen \in SUBSET Documents /\ reads \in [Documents -> Nat] /\ maxDepth \in Nat
    BY <1>1, ResolveAssumption DEF TypeOK
<1>4. seen' \in SUBSET Documents /\ reads' \in [Documents -> Nat]
    BY <1>2, <1>3
<1>5. ReadsInv'
    BY <1>1, <1>3, <1>4 DEF ReadsInv
<1>6. d \in Within[maxDepth]
    <2>1. d \in Within[Len(stack)] /\ Len(stack) <= maxDepth
        BY <1>1, <1>2 DEF FramesInv
    <2>2. Within[Len(stack)] \subseteq Within[maxDepth]
        BY <1>1, <1>2, <1>3, <2>1, WithinMonotone
    <2> QED
        BY <2>1, <2>2
<1>7. DepthBounded'
    BY <1>1, <1>3, <1>6, WithinUnchanged DEF DepthBounded
<1>8. IsFiniteSet(seen)
    BY <1>3, FS_Subset, ResolveAssumption
<1>9. Cardinality(seen) \in Nat /\ Cardinality(seen') = Cardinality(seen) + 1
    BY <1>8, FS_CardinalityType, FS_AddElement
<1> QED
    BY <1>2, <1>4, <1>5, <1>7, <1>9

LEMMA VisitStep ==
    ASSUME Inv, Visit
    PROVE  Inv'
<1>1. TypeOK /\ FramesInv /\ NothingMissed /\ Walking
    BY DEF Inv, Visit
<1>2. PICK d \in Top.fields \ seen :
            /\ seen' = seen \cup {d}
            /\ out' = out \cup {d}
            /\ reads' = [reads EXCEPT ![d] = @ + 1]
            /\ Call(d)
    BY DEF Visit
<1>3. UNCHANGED <<root, refers, maxDepth, status>> /\ Within' = Within
    BY WithinUnchanged DEF Visit
<1>4. /\ d \in Documents
      /\ seen' \in SUBSET Documents
      /\ reads' \in [Documents -> Nat]
      /\ ReadsInv'
      /\ DepthBounded'
      /\ Cardinality(seen) \in Nat
      /\ Cardinality(seen') = Cardinality(seen) + 1
    BY <1>1, <1>2, <1>3, ReadKeeps
<1>5. Len(stack) \in Nat /\ maxDepth \in Nat /\ Top.depth = Len(stack) /\ Len(stack) <= maxDepth
    BY <1>1, TopType, ResolveAssumption DEF TypeOK, FramesInv
<1>6. CASE Len(stack) + 1 > maxDepth
    <2>1. stack' = Front(stack) \o <<Past(d)>>
        BY <1>2, <1>5, <1>6 DEF Call
    <2>2. /\ stack' \in Seq(Frame)
          /\ Len(stack') = Len(stack)
          /\ \A k \in DOMAIN stack' : stack'[k].depth = k
          /\ \A k \in DOMAIN stack' : stack'[k].fields \subseteq Within[k]
          /\ Pending \subseteq Pending' \cup {d}
        BY <1>1, <1>2, <2>1, PastKeeps
    <2>3. TypeOK'
        BY <1>1, <1>2, <1>3, <1>4, <2>2 DEF TypeOK, Walking
    <2>4. FramesInv'
        BY <1>1, <1>3, <2>2 DEF FramesInv
    <2>5. ASSUME maxDepth >= Cardinality(Documents)
          PROVE  seen' = Documents
        <3>1. Cardinality(seen') >= Cardinality(Documents)
            BY <1>1, <1>4, <1>5, <1>6, <2>5, FS_CardinalityType, ResolveAssumption
               DEF NothingMissed, Walking
        <3>2. Cardinality(seen') <= Cardinality(Documents)
            BY <1>4, FS_Subset, ResolveAssumption
        <3>3. Cardinality(seen') \in Nat /\ Cardinality(Documents) \in Nat
            BY <1>4, FS_CardinalityType, ResolveAssumption
        <3>4. Cardinality(seen') = Cardinality(Documents)
            BY <3>1, <3>2, <3>3
        <3> QED
            BY <1>4, <3>4, FS_Subset, ResolveAssumption
    <2>6. NothingMissed'
        <3>1. root' \subseteq seen' \cup Pending'
            BY <1>1, <1>2, <1>3, <2>2 DEF NothingMissed, Walking
        <3>2. out' = seen' /\ Len(stack') <= Cardinality(seen') + 1
            BY <1>1, <1>2, <1>4, <1>5, <2>2 DEF NothingMissed, Walking
        <3> QED
            BY <1>3, <2>5, <3>1, <3>2 DEF NothingMissed
    <2> QED
        BY <1>4, <2>3, <2>4, <2>6 DEF Inv
<1>7. CASE Len(stack) + 1 <= maxDepth
    <2>1. stack' = Front(stack) \o <<Past(d), [fields |-> refers[d], depth |-> Top.depth + 1]>>
        BY <1>2, <1>5, <1>7 DEF Call
    <2>2. /\ stack' \in Seq(Frame)
          /\ Len(stack') = Len(stack) + 1
          /\ \A k \in DOMAIN stack' : stack'[k].depth = k
          /\ \A k \in DOMAIN stack' : stack'[k].fields \subseteq Within[k]
          /\ Pending \cup refers[d] \subseteq Pending' \cup {d}
        BY <1>1, <1>2, <1>7, <2>1, CallKeeps
    <2>3. TypeOK'
        BY <1>1, <1>2, <1>3, <1>4, <2>2 DEF TypeOK, Walking
    <2>4. FramesInv'
        BY <1>3, <1>7, <2>2 DEF FramesInv
    <2>5. NothingMissed'
        <3>1. root' \subseteq seen' \cup Pending'
            BY <1>1, <1>2, <1>3, <2>2 DEF NothingMissed, Walking
        <3>2. out' = seen' /\ Len(stack') <= Cardinality(seen') + 1
            BY <1>1, <1>2, <1>4, <1>5, <2>2 DEF NothingMissed, Walking
        <3>3. ASSUME maxDepth >= Cardinality(Documents)
              PROVE  \/ seen' = Documents
                     \/ \A e \in seen' : refers[e] \subseteq seen' \cup Pending'
            <4>1. CASE seen = Documents
                BY <1>2, <1>4, <4>1
            <4>2. CASE \A e \in seen : refers[e] \subseteq seen \cup Pending
                BY <1>2, <2>2, <4>2
            <4> QED
                BY <1>1, <3>3, <4>1, <4>2 DEF NothingMissed, Walking
        <3> QED
            BY <1>3, <3>1, <3>2, <3>3 DEF NothingMissed
    <2> QED
        BY <1>4, <2>3, <2>4, <2>5 DEF Inv
<1> QED
    BY <1>5, <1>6, <1>7

LEMMA FailStep ==
    ASSUME Inv, Fail
    PROVE  Inv'
<1>1. TypeOK /\ ReadsInv /\ DepthBounded /\ Walking
    BY DEF Inv, Fail
<1>2. UNCHANGED <<root, refers, maxDepth, out>> /\ stack' = << >> /\ status' = "failed"
    BY DEF Fail
<1>3. /\ seen' \in SUBSET Documents /\ seen \subseteq seen'
      /\ reads' \in [Documents -> Nat]
      /\ ReadsInv'
      /\ DepthBounded'
    <2>1. CASE UNCHANGED <<seen, reads>>
        BY <1>1, <1>2, <2>1, WithinUnchanged DEF TypeOK, ReadsInv, DepthBounded
    <2>2. CASE \E d \in Top.fields \ seen :
                    seen' = seen \cup {d} /\ reads' = [reads EXCEPT ![d] = @ + 1]
        BY <1>1, <1>2, <2>2, ReadKeeps
    <2> QED
        BY <2>1, <2>2 DEF Fail
<1>4. TypeOK'
    BY <1>1, <1>2, <1>3 DEF TypeOK
<1>5. FramesInv'
    BY <1>1, <1>2, ResolveAssumption DEF FramesInv, TypeOK
<1>6. NothingMissed'
    BY <1>2 DEF NothingMissed
<1> QED
    BY <1>3, <1>4, <1>5, <1>6 DEF Inv

LEMMA ReturnStep ==
    ASSUME Inv, Return
    PROVE  Inv'
<1>1. TypeOK /\ FramesInv /\ ReadsInv /\ DepthBounded /\ NothingMissed /\ Walking
    BY DEF Inv, Return
<1>2. UNCHANGED <<root, refers, maxDepth, seen, out, reads>> /\ Within' = Within
    BY WithinUnchanged DEF Return
<1>3. /\ Len(stack) \in Nat \ {0}
      /\ DOMAIN stack = 1 .. Len(stack)
      /\ stack[Len(stack)].fields = {}
    BY <1>1, TopType DEF Return, TypeOK
<1>4. /\ stack' \in Seq(Frame)
      /\ Len(stack') = Len(stack) - 1
      /\ \A k \in 1 .. (Len(stack) - 1) : stack'[k] = stack[k]
    BY <1>1, FrontType DEF Return, TypeOK, Walking
<1>5. DOMAIN stack' = 1 .. (Len(stack) - 1)
    BY <1>4
<1>6. status' = "done" => stack' = << >>
    BY <1>1, <1>3, <1>4 DEF Return, Walking
<1>7. status' \in {"walking", "done", "failed"} /\ (status' = "failed" => status = "failed")
    BY <1>1 DEF Return, Walking
<1>8. \A k \in DOMAIN stack' : stack'[k].depth = k
    BY <1>1, <1>3, <1>4, <1>5 DEF TypeOK
<1>9. TypeOK'
    BY <1>1, <1>2, <1>4, <1>6, <1>7, <1>8 DEF TypeOK
<1>10. FramesInv'
    <2>1. \A k \in DOMAIN stack' : stack'[k].fields \subseteq Within'[k]
        BY <1>1, <1>2, <1>3, <1>4, <1>5 DEF FramesInv
    <2>2. Len(stack') <= maxDepth'
        BY <1>1, <1>2, <1>3, <1>4, ResolveAssumption DEF FramesInv, TypeOK
    <2> QED
        BY <2>1, <2>2 DEF FramesInv
<1>11. ReadsInv' /\ DepthBounded'
    BY <1>1, <1>2 DEF ReadsInv, DepthBounded
<1>12. NothingMissed'
    <2>1. Pending \subseteq Pending'
        BY <1>3, <1>4, <1>5 DEF Pending
    <2>2. IsFiniteSet(seen) /\ Cardinality(seen) \in Nat
        BY <1>1, FS_Subset, FS_CardinalityType, ResolveAssumption DEF TypeOK
    <2>3. Len(stack) <= Cardinality(seen) + 1 => Len(stack') <= Cardinality(seen) + 1
        BY <1>3, <1>4, <2>2
    <2> SUFFICES ASSUME status' # "failed"
                 PROVE  /\ out = seen
                        /\ root \subseteq seen \cup Pending'
                        /\ Len(stack') <= Cardinality(seen) + 1
                        /\ maxDepth >= Cardinality(Documents) =>
                               \/ seen = Documents
                               \/ \A d \in seen : refers[d] \subseteq seen \cup Pending'
        BY <1>2 DEF NothingMissed
    <2>4. status # "failed"
        BY <1>1 DEF Walking
    <2>5. out = seen /\ root \subseteq seen \cup Pending' /\ Len(stack') <= Cardinality(seen) + 1
        BY <1>1, <2>1, <2>3, <2>4 DEF NothingMissed
    <2>6. ASSUME maxDepth >= Cardinality(Documents), seen # Documents, NEW d \in seen
          PROVE  refers[d] \subseteq seen \cup Pending'
        BY <1>1, <2>1, <2>4, <2>6 DEF NothingMissed
    <2> QED
        BY <2>5, <2>6
<1> QED
    BY <1>9, <1>10, <1>11, <1>12 DEF Inv

LEMMA InvHolds == Spec => []Inv
<1>1. ASSUME Inv, [Next]_vars
      PROVE  Inv'
    <2>1. CASE UNCHANGED vars
        BY <1>1, <2>1, WithinUnchanged
           DEF vars, Inv, TypeOK, FramesInv, ReadsInv, DepthBounded, NothingMissed, Pending
    <2> QED
        BY <1>1, <2>1, SkipStep, VisitStep, FailStep, ReturnStep DEF Next
<1> QED
    BY <1>1, InvInit, PTL DEF Spec

-------------------------------------------------------------------------------

(* The variables of ResolveRefsInSOT keep their types: the pending calls of walk  *)
(* are one per level, and none is left when it returns.                          *)
THEOREM TypeCorrect == Spec => []TypeOK
<1>1. Inv => TypeOK
    BY DEF Inv
<1> QED
    BY <1>1, InvHolds, PTL

(* No document is asked for twice, whatever cycles the references form. *)
THEOREM ReadOnceCorrect == Spec => []ReadOnce
<1>1. Inv => ReadOnce
    BY DEF Inv, ReadsInv, ReadOnce
<1> QED
    BY <1>1, InvHolds, PTL

(* Nothing farther away than the depth asked for is read. *)
THEOREM DepthBoundedCorrect == Spec => []DepthBounded
<1>1. Inv => DepthBounded
    BY DEF Inv
<1> QED
    BY <1>1, InvHolds, PTL

(* A walk that ends well has read every direct reference, and everything in reach *)
(* when it may go as deep as there are documents.                                *)
THEOREM CompleteWhenDeepCorrect == Spec => []CompleteWhenDeep
<1>1. ASSUME Inv
      PROVE  CompleteWhenDeep
    <2>1. SUFFICES ASSUME status = "done"
                   PROVE  /\ root \subseteq out
                          /\ maxDepth >= Cardinality(Documents) => out = Within[maxDepth]
        BY DEF CompleteWhenDeep
    <2>2. TypeOK /\ ReadsInv /\ DepthBounded /\ NothingMissed
        BY <1>1 DEF Inv
    <2>3. Pending = {}
        BY <2>1, <2>2 DEF TypeOK, Pending
    <2>4. out = seen /\ root \subseteq seen /\ seen \subseteq Documents
        BY <2>1, <2>2, <2>3 DEF NothingMissed, TypeOK
    <2>5. seen \subseteq Within[maxDepth]
        BY <2>2, <2>4 DEF ReadsInv, DepthBounded
    <2>6. maxDepth \in Nat \ {0}
        BY <2>2, ResolveAssumption DEF TypeOK
    <2>7. ASSUME maxDepth >= Cardinality(Documents)
          PROVE  Within[maxDepth] \subseteq seen
        <3>1. CASE seen = Documents
            BY <2>2, <2>6, <3>1, WithinEquation
        <3>2. CASE \A d \in seen : refers[d] \subseteq seen
            BY <2>2, <2>4, <2>6, <3>2, WithinClosed
        <3>3. \/ seen = Documents
              \/ \A d \in seen : refers[d] \subseteq seen \cup Pending
            BY <2>1, <2>2, <2>7 DEF NothingMissed
        <3> QED
            BY <2>3, <3>1, <3>2, <3>3
    <2> QED
        BY <2>4, <2>5, <2>7
<1> QED
    BY <1>1, InvHolds, PTL
===============================================================================
