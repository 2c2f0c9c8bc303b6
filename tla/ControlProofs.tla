---------------------------- MODULE ControlProofs ----------------------------
(***************************************************************************)
(* What the controls of a workflow promise: ControlFlow for every workflow *)
(* that validation accepts, and FanOut for any number of iterations, any   *)
(* limit and every policy.                                                 *)
(***************************************************************************)
EXTENDS ControlFlow, FanOut, FiniteSetTheorems, WellFoundedInduction, SequenceTheorems, TLAPS

-----------------------------------------------------------------------------
(* The tree.                                                               *)

(* What stands below a node are steps of the tree, and no workflows.       *)
LEMMA ChildrenAreSteps ==
  ASSUME NEW d \in Nodes
  PROVE  /\ Tree[d].main \in Seq(Nodes \ Roots) /\ Tree[d].rest \in Seq(Nodes \ Roots)
         /\ Tree[d].defers \in Seq(Nodes \ Roots)
         /\ Range(Tree[d].main) \subseteq Children(d)
         /\ Range(Tree[d].rest) \subseteq Children(d)
         /\ Range(Tree[d].defers) \subseteq Children(d)
         /\ Children(d) = Range(Tree[d].main) \cup Range(Tree[d].rest) \cup Range(Tree[d].defers)
         /\ Children(d) \subseteq Nodes \ Roots
<1>1. /\ Tree[d].main \in Seq(Nodes \ Roots) /\ Tree[d].rest \in Seq(Nodes \ Roots)
      /\ Tree[d].defers \in Seq(Nodes \ Roots)
  BY TreeShape
<1>2. \A s \in Seq(Nodes \ Roots) : Range(s) \subseteq Nodes \ Roots
  BY LenProperties, ElementOfSeq DEF Range
<1>3. Children(d) = Range(Tree[d].main) \cup Range(Tree[d].rest) \cup Range(Tree[d].defers)
  BY DEF Children
<1> QED
  BY <1>1, <1>2, <1>3

(* Each of them is declared by that node alone.                            *)
LEMMA DeclarerIs ==
  ASSUME NEW d \in Nodes, NEW c \in Children(d)
  PROVE  Declarer(c) = d
<1>1. \A m \in Nodes : c \in Children(m) => m = d
  BY TreeShape
<1> QED
  BY <1>1 DEF Declarer

LEMMA DeclarerType ==
  ASSUME NEW n \in Nodes \ Roots
  PROVE  Declarer(n) \in Nodes /\ n \in Children(Declarer(n))
  BY TreeShape DEF Declarer

(* The recursion of Around is sound: the least sets closed under declarers *)
(* satisfy it.                                                             *)
LEMMA AroundDef ==
  \A n \in Nodes :
    Around[n] = {n} \cup (IF n \in Roots THEN {} ELSE Around[Declarer(n)])
<1> DEFINE Closed(S, n) == n \in S /\ \A m \in S \ Roots : Declarer(m) \in S
           Least(n) == {m \in Nodes : \A S \in SUBSET Nodes : Closed(S, n) => m \in S}
           L == [n \in Nodes |-> Least(n)]
<1>1. \A n \in Nodes : Closed(Least(n), n)
  BY DeclarerType
<1>2. \A n \in Nodes, S \in SUBSET Nodes : Closed(S, n) => Least(n) \subseteq S
  OBVIOUS
<1>3. ASSUME NEW n \in Nodes
      PROVE  Least(n) = {n} \cup (IF n \in Roots THEN {} ELSE Least(Declarer(n)))
  <2>1. CASE n \in Roots
    <3>1. {n} \in SUBSET Nodes /\ Closed({n}, n)
      BY <2>1
    <3>2. Least(n) \subseteq {n}
      BY <1>2, <3>1
    <3>3. n \in Least(n)
      BY <1>1
    <3> QED
      BY <2>1, <3>2, <3>3
  <2>2. CASE n \notin Roots
    <3> DEFINE d == Declarer(n)
    <3>1. d \in Nodes /\ Least(d) \in SUBSET Nodes /\ Closed(Least(d), d)
      BY <1>1, <2>2, DeclarerType
    <3>2. Closed({n} \cup Least(d), n)
      BY <3>1
    <3>3. Closed(Least(n), n) /\ Least(n) \in SUBSET Nodes
      BY <1>1
    <3>4. Closed(Least(n), d)
      BY <2>2, <3>3
    <3>5. {n} \cup Least(d) \in SUBSET Nodes
      BY <3>1
    <3> HIDE DEF Least, Closed
    <3>6. Least(n) \subseteq {n} \cup Least(d) /\ Least(d) \subseteq Least(n)
      BY <1>2, <3>1, <3>2, <3>3, <3>4, <3>5
    <3>7. n \in Least(n)
      BY <3>3 DEF Closed
    <3> QED
      BY <2>2, <3>6, <3>7
  <2> QED
    BY <2>1, <2>2
<1> HIDE DEF Least
<1>4. L = [n \in Nodes |-> {n} \cup IF n \in Roots THEN {} ELSE L[Declarer(n)]]
  <2>1. \A n \in Nodes : L[n] = {n} \cup IF n \in Roots THEN {} ELSE L[Declarer(n)]
    BY <1>3, DeclarerType
  <2> QED
    BY <2>1
<1> HIDE DEF L
<1>5. Around = [n \in Nodes |-> {n} \cup IF n \in Roots THEN {} ELSE Around[Declarer(n)]]
  <2> DEFINE P(f) == f = [n \in Nodes |-> {n} \cup IF n \in Roots THEN {} ELSE f[Declarer(n)]]
  <2>1. P(L)
    BY <1>4
  <2>2. Around = CHOOSE f : P(f)
    BY DEF Around
  <2> HIDE DEF P
  <2>3. P(Around)
    BY <2>1, <2>2
  <2> QED
    BY <2>3 DEF P
<1> QED
  BY <1>5

(* Among sets of nodes there is a smallest one: nodes are finitely many.   *)
LEMMA MinimalSet ==
  ASSUME NEW T \in SUBSET SUBSET Nodes, T # {}
  PROVE  \E A \in T : \A B \in T : B \subseteq A => B = A
<1>1. IsWellFoundedOn(StrictSubsetOrdering(Nodes), SUBSET Nodes)
  <2>1. IsFiniteSet(Nodes)
    BY TreeShape
  <2>2. FiniteSubsetsOf(Nodes) = SUBSET Nodes
    BY <2>1, FS_FiniteSubsetsOfFinite
  <2> QED
    BY <2>2, FS_StrictSubsetOrderingWellFounded
<1>2. PICK A \in T : \A B \in T : ~(<<B, A>> \in StrictSubsetOrdering(Nodes))
  BY <1>1, WFMin
<1> QED
  BY <1>2 DEF StrictSubsetOrdering

(* Going from a node of a set to its declarer, one leaves the set.         *)
LEMMA Topmost ==
  ASSUME NEW S \in SUBSET Nodes, S # {}
  PROVE  \E x \in S : x \in Roots \/ Declarer(x) \notin S
<1> SUFFICES ASSUME \A x \in S : x \notin Roots /\ Declarer(x) \in S
             PROVE  FALSE
  OBVIOUS
<1> DEFINE T == {Around[x] \cap S : x \in S}
<1>1. T \in SUBSET SUBSET Nodes /\ T # {}
  OBVIOUS
<1>2. PICK A \in T : \A B \in T : B \subseteq A => B = A
  BY <1>1, MinimalSet
<1>3. PICK x \in S : A = Around[x] \cap S
  OBVIOUS
<1> DEFINE d == Declarer(x)
<1>4. d \in S /\ x \in Nodes \ Roots /\ Around[x] = {x} \cup Around[d]
  BY AroundDef
<1>5. Around[d] \cap S \in T /\ Around[d] \cap S \subseteq A
  BY <1>3, <1>4
<1>6. x \in Around[d]
  BY <1>2, <1>3, <1>4, <1>5
<1> QED
  BY <1>4, <1>6, TreeShape

LEMMA AroundNodes ==
  ASSUME NEW n \in Nodes
  PROVE  Around[n] \subseteq Nodes /\ n \in Around[n]
<1> DEFINE Bad == {x \in Nodes : ~(Around[x] \subseteq Nodes)}
<1>1. Bad = {}
  <2> SUFFICES ASSUME Bad # {} PROVE FALSE
    OBVIOUS
  <2>1. PICK x \in Bad : x \in Roots \/ Declarer(x) \notin Bad
    BY Topmost
  <2>2. Around[x] = {x} \cup IF x \in Roots THEN {} ELSE Around[Declarer(x)]
    BY AroundDef
  <2>3. x \notin Roots => Around[Declarer(x)] \subseteq Nodes
    BY <2>1, DeclarerType
  <2> QED
    BY <2>2, <2>3
<1> QED
  BY <1>1, AroundDef

LEMMA AroundTransitive ==
  ASSUME NEW n \in Nodes, NEW m \in Around[n]
  PROVE  m \in Nodes /\ Around[m] \subseteq Around[n]
<1> DEFINE Bad == {x \in Nodes : \E y \in Around[x] : ~(Around[y] \subseteq Around[x])}
<1>1. Bad = {}
  <2> SUFFICES ASSUME Bad # {} PROVE FALSE
    OBVIOUS
  <2>1. PICK x \in Bad : x \in Roots \/ Declarer(x) \notin Bad
    BY Topmost
  <2>2. PICK y \in Around[x] : ~(Around[y] \subseteq Around[x])
    OBVIOUS
  <2>3. Around[x] = {x} \cup IF x \in Roots THEN {} ELSE Around[Declarer(x)]
    BY AroundDef
  <2>4. x \notin Roots /\ y \in Around[Declarer(x)]
    BY <2>2, <2>3
  <2>5. Around[y] \subseteq Around[Declarer(x)]
    BY <2>1, <2>4, DeclarerType
  <2> QED
    BY <2>2, <2>3, <2>4, <2>5
<1> QED
  BY <1>1, AroundNodes

LEMMA AroundChain ==
  ASSUME NEW n \in Nodes, NEW a \in Around[n], NEW b \in Around[n]
  PROVE  a \in Around[b] \/ b \in Around[a]
<1> DEFINE Bad == {x \in Nodes : \E y, z \in Around[x] : y \notin Around[z] /\ z \notin Around[y]}
<1>1. Bad = {}
  <2> SUFFICES ASSUME Bad # {} PROVE FALSE
    OBVIOUS
  <2>1. PICK x \in Bad : x \in Roots \/ Declarer(x) \notin Bad
    BY Topmost
  <2>2. PICK y \in Around[x], z \in Around[x] : y \notin Around[z] /\ z \notin Around[y]
    OBVIOUS
  <2>3. Around[x] = {x} \cup IF x \in Roots THEN {} ELSE Around[Declarer(x)]
    BY AroundDef
  <2>4. x # y /\ x # z
    BY <2>2
  <2>5. x \notin Roots /\ y \in Around[Declarer(x)] /\ z \in Around[Declarer(x)]
    BY <2>3, <2>4
  <2> QED
    BY <2>1, <2>2, <2>5, DeclarerType
<1> QED
  BY <1>1

LEMMA AroundAntisymmetric ==
  ASSUME NEW a \in Nodes, NEW b \in Nodes, a \in Around[b], b \in Around[a]
  PROVE  a = b
<1> SUFFICES ASSUME a # b PROVE FALSE
  OBVIOUS
<1>1. b \notin Roots /\ a \in Around[Declarer(b)] /\ Declarer(b) \in Nodes
  BY AroundDef, DeclarerType
<1>2. b \in Around[Declarer(b)]
  BY <1>1, AroundTransitive
<1> QED
  BY <1>1, <1>2, TreeShape

(* Going down from a node of a set, one leaves the set too.                *)
LEMMA Lowest ==
  ASSUME NEW S \in SUBSET Nodes, S # {}
  PROVE  \E x \in S : \A c \in Children(x) : c \notin S
<1> SUFFICES ASSUME \A x \in S : \E c \in Children(x) : c \in S
             PROVE  FALSE
  OBVIOUS
<1> DEFINE T == {Nodes \ Around[x] : x \in S}
<1>1. T \in SUBSET SUBSET Nodes /\ T # {}
  OBVIOUS
<1>2. PICK A \in T : \A B \in T : B \subseteq A => B = A
  BY <1>1, MinimalSet
<1>3. PICK x \in S : A = Nodes \ Around[x]
  OBVIOUS
<1>4. PICK c \in Children(x) : c \in S
  OBVIOUS
<1>5. c \in Nodes \ Roots /\ Declarer(c) = x /\ Around[c] = {c} \cup Around[x]
  BY <1>4, ChildrenAreSteps, DeclarerIs, AroundDef
<1>6. Nodes \ Around[c] \in T /\ Nodes \ Around[c] \subseteq A
  BY <1>3, <1>4, <1>5
<1>7. c \in Around[x]
  BY <1>2, <1>3, <1>5, <1>6
<1> QED
  BY <1>5, <1>7, TreeShape

(* Of some of the nodes around a node one is the innermost.                *)
LEMMA InnermostAround ==
  ASSUME NEW n \in Nodes, NEW S \in SUBSET Around[n], S # {}
  PROVE  \E m \in S : \A o \in S : o \in Around[m]
<1> DEFINE T == {Nodes \ Around[x] : x \in S}
<1>1. T \in SUBSET SUBSET Nodes /\ T # {} /\ S \subseteq Nodes
  BY AroundNodes
<1>2. PICK A \in T : \A B \in T : B \subseteq A => B = A
  BY <1>1, MinimalSet
<1>3. PICK m \in S : A = Nodes \ Around[m]
  OBVIOUS
<1>4. ASSUME NEW o \in S, o \notin Around[m] PROVE FALSE
  <2>1. m \in Around[o] /\ m \in Nodes /\ o \in Nodes
    BY <1>1, <1>4, AroundChain
  <2>2. Around[m] \subseteq Around[o] /\ Around[o] \subseteq Nodes /\ o \in Around[o]
    BY <2>1, AroundTransitive, AroundNodes
  <2>3. Nodes \ Around[o] \in T /\ Nodes \ Around[o] \subseteq A
    BY <1>3, <2>2
  <2>4. Nodes \ Around[o] = Nodes \ Around[m]
    BY <1>2, <1>3, <2>3
  <2> QED
    BY <1>4, <2>1, <2>2, <2>4
<1> QED
  BY <1>4

(* The scope of a node: the innermost owner of a deferStack around it.     *)
LEMMA ScopeDef ==
  \A n \in Nodes :
    /\ Scope[n] = IF OwnsDefers(n) THEN n ELSE Scope[Declarer(n)]
    /\ Scope[n] \in Around[n] /\ OwnsDefers(Scope[n])
<1> DEFINE Owners(n) == {m \in Around[n] : OwnsDefers(m)}
           Innermost(n, m) == m \in Owners(n) /\ \A o \in Owners(n) : o \in Around[m]
           L == [n \in Nodes |-> CHOOSE m \in Nodes : Innermost(n, m)]
<1>1. \A n \in Nodes : ~OwnsDefers(n) => n \notin Roots /\ Declarer(n) \in Nodes
  BY DeclarerType, TreeAssumption DEF OwnsDefers
<1>2. ASSUME NEW n \in Nodes PROVE \E m \in Nodes : Innermost(n, m)
  <2>1. PICK x \in Around[n] : x \in Roots \/ Declarer(x) \notin Around[n]
    BY AroundNodes, Topmost
  <2>2. x \in Nodes /\ Around[x] \subseteq Around[n]
    BY AroundTransitive
  <2>3. x \in Roots
    <3> SUFFICES ASSUME x \notin Roots PROVE FALSE
      OBVIOUS
    <3>1. Declarer(x) \in Nodes /\ Around[x] = {x} \cup Around[Declarer(x)]
      BY <2>2, AroundDef, DeclarerType
    <3>2. Declarer(x) \in Around[Declarer(x)]
      BY <3>1, AroundNodes
    <3> QED
      BY <2>1, <2>2, <3>1, <3>2
  <2>4. OwnsDefers(x)
    BY <2>2, <2>3, TreeAssumption DEF OwnsDefers
  <2>5. Owners(n) \in SUBSET Around[n] /\ Owners(n) # {}
    BY <2>4
  <2> HIDE DEF Owners
  <2>6. PICK m \in Owners(n) : \A o \in Owners(n) : o \in Around[m]
    BY <2>5, InnermostAround
  <2> QED
    BY <2>5, <2>6, AroundNodes
<1>3. \A n \in Nodes : Innermost(n, L[n]) /\ L[n] \in Nodes
  <2> HIDE DEF Innermost
  <2> QED
    BY <1>2
<1>4. ASSUME NEW n \in Nodes PROVE L[n] = IF OwnsDefers(n) THEN n ELSE L[Declarer(n)]
  <2>1. CASE OwnsDefers(n)
    <3>1. n \in Owners(n) /\ L[n] \in Around[n] /\ L[n] \in Nodes
      BY <1>3, <2>1, AroundNodes
    <3>2. n \in Around[L[n]]
      BY <1>3, <3>1
    <3> HIDE DEF L
    <3> QED
      BY <2>1, <3>1, <3>2, AroundAntisymmetric
  <2>2. CASE ~OwnsDefers(n)
    <3>1. Declarer(n) \in Nodes /\ Around[n] = {n} \cup Around[Declarer(n)]
      BY <1>1, <2>2, AroundDef
    <3>2. Owners(n) = Owners(Declarer(n))
      BY <2>2, <3>1
    <3> HIDE DEF Owners
    <3> QED
      BY <2>2, <3>1, <3>2
  <2> QED
    BY <2>1, <2>2
<1>5. L = [n \in Nodes |-> IF OwnsDefers(n) THEN n ELSE L[Declarer(n)]]
  <2>1. L = [n \in Nodes |-> L[n]]
    OBVIOUS
  <2> HIDE DEF L
  <2> QED
    BY <1>4, <2>1
<1> HIDE DEF L
<1>6. Scope = [n \in Nodes |-> IF OwnsDefers(n) THEN n ELSE Scope[Declarer(n)]]
  <2> DEFINE P(f) == f = [n \in Nodes |-> IF OwnsDefers(n) THEN n ELSE f[Declarer(n)]]
  <2>1. P(L)
    BY <1>5
  <2>2. Scope = CHOOSE f : P(f)
    BY DEF Scope
  <2> HIDE DEF P
  <2>3. P(Scope)
    BY <2>1, <2>2
  <2> QED
    BY <2>3 DEF P
<1>7. \A n \in Nodes : Scope[n] = IF OwnsDefers(n) THEN n ELSE Scope[Declarer(n)]
  BY <1>6
<1> DEFINE Bad == {n \in Nodes : ~(Scope[n] \in Around[n] /\ OwnsDefers(Scope[n]))}
<1>8. Bad = {}
  <2> SUFFICES ASSUME Bad # {} PROVE FALSE
    OBVIOUS
  <2>1. PICK x \in Bad : x \in Roots \/ Declarer(x) \notin Bad
    BY Topmost
  <2>2. ~OwnsDefers(x)
    BY <1>7, AroundNodes
  <2>3. x \notin Roots /\ Declarer(x) \in Nodes /\ Scope[x] = Scope[Declarer(x)]
        /\ Around[x] = {x} \cup Around[Declarer(x)]
    BY <1>1, <1>7, <2>2, AroundDef
  <2> QED
    BY <2>1, <2>3
<1> QED
  BY <1>7, <1>8

(* The parts of a declaration: no step stands in two places.               *)
LEMMA PartsDistinct ==
  ASSUME NEW d \in Nodes
  PROVE  /\ IsInjective(Tree[d].main) /\ IsInjective(Tree[d].rest) /\ IsInjective(Tree[d].defers)
         /\ Range(Tree[d].main) \cap Range(Tree[d].rest) = {}
         /\ Range(Tree[d].main) \cap Range(Tree[d].defers) = {}
         /\ Range(Tree[d].rest) \cap Range(Tree[d].defers) = {}
<1> DEFINE a == Tree[d].main
           b == Tree[d].rest
           c == Tree[d].defers
           all == a \o b \o c
<1>1. a \in Seq(Nodes \ Roots) /\ b \in Seq(Nodes \ Roots) /\ c \in Seq(Nodes \ Roots)
      /\ IsInjective(all)
  BY TreeShape, ChildrenAreSteps
<1> HIDE DEF a, b, c
<1>2. /\ Len(a) \in Nat /\ Len(b) \in Nat /\ Len(c) \in Nat
      /\ DOMAIN a = 1..Len(a) /\ DOMAIN b = 1..Len(b) /\ DOMAIN c = 1..Len(c)
  BY <1>1, LenProperties
<1>3. /\ DOMAIN all = 1..(Len(a) + Len(b) + Len(c))
      /\ \A i \in DOMAIN a : all[i] = a[i]
      /\ \A i \in DOMAIN b : all[Len(a) + i] = b[i]
      /\ \A i \in DOMAIN c : all[Len(a) + Len(b) + i] = c[i]
  BY <1>1, <1>2
<1> HIDE DEF all
<1>4. \A i, j \in DOMAIN all : all[i] = all[j] => i = j
  BY <1>1 DEF IsInjective
<1>5. \A i, j \in DOMAIN a : a[i] = a[j] => i = j
  BY <1>2, <1>3, <1>4
<1>6. \A i, j \in DOMAIN b : b[i] = b[j] => i = j
  <2> SUFFICES ASSUME NEW i \in DOMAIN b, NEW j \in DOMAIN b, b[i] = b[j] PROVE i = j
    OBVIOUS
  <2>1. Len(a) + i \in DOMAIN all /\ Len(a) + j \in DOMAIN all /\ i \in Nat /\ j \in Nat
    BY <1>2, <1>3
  <2>2. Len(a) + i = Len(a) + j
    BY <1>3, <1>4, <2>1
  <2> QED
    BY <1>2, <2>1, <2>2
<1>7. \A i, j \in DOMAIN c : c[i] = c[j] => i = j
  <2> SUFFICES ASSUME NEW i \in DOMAIN c, NEW j \in DOMAIN c, c[i] = c[j] PROVE i = j
    OBVIOUS
  <2>1. Len(a) + Len(b) + i \in DOMAIN all /\ Len(a) + Len(b) + j \in DOMAIN all /\ i \in Nat /\ j \in Nat
    BY <1>2, <1>3
  <2>2. Len(a) + Len(b) + i = Len(a) + Len(b) + j
    BY <1>3, <1>4, <2>1
  <2> QED
    BY <1>2, <2>1, <2>2
<1>8. Range(a) \cap Range(b) = {}
  <2> SUFFICES ASSUME NEW i \in DOMAIN a, NEW j \in DOMAIN b, a[i] = b[j] PROVE FALSE
    BY DEF Range
  <2>1. i \in DOMAIN all /\ Len(a) + j \in DOMAIN all /\ i # Len(a) + j
    BY <1>2, <1>3
  <2> QED
    BY <1>3, <1>4, <2>1
<1>9. Range(a) \cap Range(c) = {}
  <2> SUFFICES ASSUME NEW i \in DOMAIN a, NEW j \in DOMAIN c, a[i] = c[j] PROVE FALSE
    BY DEF Range
  <2>1. i \in DOMAIN all /\ Len(a) + Len(b) + j \in DOMAIN all /\ i # Len(a) + Len(b) + j
    BY <1>2, <1>3
  <2> QED
    BY <1>3, <1>4, <2>1
<1>10. Range(b) \cap Range(c) = {}
  <2> SUFFICES ASSUME NEW i \in DOMAIN b, NEW j \in DOMAIN c, b[i] = c[j] PROVE FALSE
    BY DEF Range
  <2>1. Len(a) + i \in DOMAIN all /\ Len(a) + Len(b) + j \in DOMAIN all /\ Len(a) + i # Len(a) + Len(b) + j
    BY <1>2, <1>3
  <2> QED
    BY <1>3, <1>4, <2>1
<1>11. IsInjective(a) /\ IsInjective(b) /\ IsInjective(c)
  BY <1>5, <1>6, <1>7 DEF IsInjective
<1> QED
  BY <1>8, <1>9, <1>10, <1>11 DEF a, b, c

(* Whom a step returns to, by the part of the declaration it stands in.    *)
LEMMA ParentOfPart ==
  ASSUME NEW d \in Nodes
  PROVE  /\ \A c \in Range(Tree[d].main) \cup Range(Tree[d].rest) :
              c \in Nodes \ Roots /\ Parent[c] = d
         /\ \A c \in Range(Tree[d].defers) : c \in Nodes \ Roots /\ Parent[c] = Scope[d]
<1>1. \A c \in Range(Tree[d].main) \cup Range(Tree[d].rest) \cup Range(Tree[d].defers) :
        c \in Nodes \ Roots /\ Declarer(c) = d
  BY ChildrenAreSteps, DeclarerIs
<1>2. \A c \in Range(Tree[d].main) \cup Range(Tree[d].rest) : c \notin Range(Tree[d].defers)
  BY PartsDistinct
<1> QED
  BY <1>1, <1>2 DEF Parent

(* The handler a node returns to stands around it.                         *)
LEMMA ParentAround ==
  ASSUME NEW n \in Nodes \ Roots
  PROVE  /\ Parent[n] \in Nodes /\ Parent[n] \in Around[Declarer(n)]
         /\ Around[Parent[n]] \subseteq Around[n] /\ n \notin Around[Parent[n]]
<1>1. Declarer(n) \in Nodes /\ Around[n] = {n} \cup Around[Declarer(n)] /\ n \notin Around[Declarer(n)]
  BY DeclarerType, AroundDef, TreeShape
<1>2. Parent[n] \in Around[Declarer(n)]
  BY <1>1, ScopeDef, AroundNodes DEF Parent
<1>3. Parent[n] \in Nodes /\ Around[Parent[n]] \subseteq Around[Declarer(n)]
  BY <1>1, <1>2, AroundTransitive
<1> QED
  BY <1>1, <1>2, <1>3

(* Going from a node of a set to its caller, one leaves the set.           *)
LEMMA TopmostCaller ==
  ASSUME NEW S \in SUBSET Nodes, S # {}
  PROVE  \E x \in S : x \in Roots \/ Parent[x] \notin S
<1> SUFFICES ASSUME \A x \in S : x \notin Roots /\ Parent[x] \in S
             PROVE  FALSE
  OBVIOUS
<1> DEFINE T == {Around[x] : x \in S}
<1>1. T \in SUBSET SUBSET Nodes /\ T # {}
  BY AroundNodes
<1>2. PICK A \in T : \A B \in T : B \subseteq A => B = A
  BY <1>1, MinimalSet
<1>3. PICK x \in S : A = Around[x]
  OBVIOUS
<1>4. x \in Nodes \ Roots /\ Parent[x] \in S
  OBVIOUS
<1>5. Around[Parent[x]] \subseteq Around[x] /\ x \notin Around[Parent[x]] /\ x \in Around[x]
  BY <1>4, ParentAround, AroundNodes
<1> QED
  BY <1>2, <1>3, <1>4, <1>5

(* The recursion of Within is sound like that of Around.                   *)
LEMMA WithinRecursion ==
  \A n \in Nodes :
    Within[n] = {n} \cup (IF n \in Roots THEN {} ELSE Within[Parent[n]])
<1> DEFINE Closed(S, n) == n \in S /\ \A m \in S \ Roots : Parent[m] \in S
           Least(n) == {m \in Nodes : \A S \in SUBSET Nodes : Closed(S, n) => m \in S}
           L == [n \in Nodes |-> Least(n)]
<1>1. \A n \in Nodes : Closed(Least(n), n)
  BY ParentAround
<1>2. \A n \in Nodes, S \in SUBSET Nodes : Closed(S, n) => Least(n) \subseteq S
  OBVIOUS
<1>3. ASSUME NEW n \in Nodes
      PROVE  Least(n) = {n} \cup (IF n \in Roots THEN {} ELSE Least(Parent[n]))
  <2>1. CASE n \in Roots
    <3>1. {n} \in SUBSET Nodes /\ Closed({n}, n)
      BY <2>1
    <3>2. Least(n) \subseteq {n}
      BY <1>2, <3>1
    <3>3. n \in Least(n)
      BY <1>1
    <3> QED
      BY <2>1, <3>2, <3>3
  <2>2. CASE n \notin Roots
    <3> DEFINE d == Parent[n]
    <3>1. d \in Nodes /\ Least(d) \in SUBSET Nodes /\ Closed(Least(d), d)
      BY <1>1, <2>2, ParentAround
    <3>2. Closed({n} \cup Least(d), n)
      BY <3>1
    <3>3. Closed(Least(n), n) /\ Least(n) \in SUBSET Nodes
      BY <1>1
    <3>4. Closed(Least(n), d)
      BY <2>2, <3>3
    <3>5. {n} \cup Least(d) \in SUBSET Nodes
      BY <3>1
    <3> HIDE DEF Least, Closed
    <3>6. Least(n) \subseteq {n} \cup Least(d) /\ Least(d) \subseteq Least(n)
      BY <1>2, <3>1, <3>2, <3>3, <3>4, <3>5
    <3>7. n \in Least(n)
      BY <3>3 DEF Closed
    <3> QED
      BY <2>2, <3>6, <3>7
  <2> QED
    BY <2>1, <2>2
<1> HIDE DEF Least
<1>4. L = [n \in Nodes |-> {n} \cup IF n \in Roots THEN {} ELSE L[Parent[n]]]
  <2>1. \A n \in Nodes : L[n] = {n} \cup IF n \in Roots THEN {} ELSE L[Parent[n]]
    BY <1>3, ParentAround
  <2> QED
    BY <2>1
<1> HIDE DEF L
<1>5. Within = [n \in Nodes |-> {n} \cup IF n \in Roots THEN {} ELSE Within[Parent[n]]]
  <2> DEFINE P(f) == f = [n \in Nodes |-> {n} \cup IF n \in Roots THEN {} ELSE f[Parent[n]]]
  <2>1. P(L)
    BY <1>4
  <2>2. Within = CHOOSE f : P(f)
    BY DEF Within
  <2> HIDE DEF P
  <2>3. P(Within)
    BY <2>1, <2>2
  <2> QED
    BY <2>3 DEF P
<1> QED
  BY <1>5

(* What a node stands in: itself and what its caller stands in.            *)
LEMMA WithinDef ==
  ASSUME NEW n \in Nodes
  PROVE  /\ Within[n] \subseteq Nodes /\ n \in Within[n]
         /\ n \in Roots => Within[n] = {n}
         /\ n \notin Roots => /\ Parent[n] \in Nodes /\ Within[n] = {n} \cup Within[Parent[n]]
                              /\ Parent[n] \in Within[n] /\ n \notin Within[Parent[n]]
<1> DEFINE Bad == {x \in Nodes : ~(Within[x] \subseteq Around[x])}
<1>1. Bad = {}
  <2> SUFFICES ASSUME Bad # {} PROVE FALSE
    OBVIOUS
  <2>1. PICK x \in Bad : x \in Roots \/ Parent[x] \notin Bad
    BY TopmostCaller
  <2>2. Within[x] = {x} \cup IF x \in Roots THEN {} ELSE Within[Parent[x]]
    BY WithinRecursion
  <2>3. x \in Around[x]
    BY AroundNodes
  <2>4. x \notin Roots => Within[Parent[x]] \subseteq Around[x]
    BY <2>1, ParentAround
  <2> QED
    BY <2>2, <2>3, <2>4
<1>2. \A x \in Nodes : Within[x] \subseteq Around[x] /\ Within[x] \subseteq Nodes /\ x \in Within[x]
  BY <1>1, AroundNodes, WithinRecursion
<1> QED
  BY <1>2, WithinRecursion, ParentAround

LEMMA WithinLeast ==
  ASSUME NEW n \in Nodes, NEW S \in SUBSET Nodes, n \in S,
         \A x \in S \ Roots : Parent[x] \in S
  PROVE  Within[n] \subseteq S
<1> DEFINE Bad == {x \in S : ~(Within[x] \subseteq S)}
<1> SUFFICES ASSUME Bad # {} PROVE FALSE
  OBVIOUS
<1>1. PICK x \in Bad : x \in Roots \/ Parent[x] \notin Bad
  BY TopmostCaller
<1> QED
  BY <1>1, WithinDef

LEMMA WithinTransitive ==
  ASSUME NEW n \in Nodes, NEW m \in Within[n]
  PROVE  m \in Nodes /\ Within[m] \subseteq Within[n]
<1> DEFINE S == {x \in Within[n] : Within[x] \subseteq Within[n]}
<1>1. Within[n] \subseteq Nodes /\ n \in S /\ S \in SUBSET Nodes
  BY WithinDef
<1>2. \A x \in S \ Roots : Parent[x] \in S
  BY <1>1, WithinDef
<1>3. Within[n] \subseteq S
  <2> HIDE DEF S
  <2> QED
    BY <1>1, <1>2, WithinLeast
<1> QED
  BY <1>1, <1>3

LEMMA WithinChain ==
  ASSUME NEW n \in Nodes, NEW a \in Within[n], NEW b \in Within[n]
  PROVE  a \in Within[b] \/ b \in Within[a]
<1> DEFINE Bad == {x \in Nodes : \E y, z \in Within[x] : y \notin Within[z] /\ z \notin Within[y]}
<1>1. Bad = {}
  <2> SUFFICES ASSUME Bad # {} PROVE FALSE
    OBVIOUS
  <2>1. PICK x \in Bad : x \in Roots \/ Parent[x] \notin Bad
    BY TopmostCaller
  <2>2. PICK y \in Within[x], z \in Within[x] : y \notin Within[z] /\ z \notin Within[y]
    OBVIOUS
  <2>3. Within[x] = {x} \cup IF x \in Roots THEN {} ELSE Within[Parent[x]]
    BY WithinDef
  <2>4. x # y /\ x # z
    BY <2>2
  <2>5. x \notin Roots /\ y \in Within[Parent[x]] /\ z \in Within[Parent[x]]
    BY <2>3, <2>4
  <2> QED
    BY <2>1, <2>2, <2>5, WithinDef
<1> QED
  BY <1>1

LEMMA WithinAntisymmetric ==
  ASSUME NEW a \in Nodes, NEW b \in Nodes, a \in Within[b], b \in Within[a]
  PROVE  a = b
<1> SUFFICES ASSUME a # b PROVE FALSE
  OBVIOUS
<1>1. b \notin Roots /\ Parent[b] \in Nodes /\ a \in Within[Parent[b]] /\ b \notin Within[Parent[b]]
  BY WithinDef
<1>2. Within[a] \subseteq Within[Parent[b]]
  BY <1>1, WithinTransitive
<1> QED
  BY <1>1, <1>2

(* Every node stands in a workflow.                                        *)
LEMMA RootOf ==
  ASSUME NEW n \in Nodes
  PROVE  \E r \in Roots : r \in Within[n]
<1>1. Within[n] \in SUBSET Nodes /\ n \in Within[n]
  BY WithinDef
<1>2. PICK x \in Within[n] : x \in Roots \/ Parent[x] \notin Within[n]
  BY <1>1, TopmostCaller
<1>3. x \in Nodes /\ Within[x] \subseteq Within[n]
  BY WithinTransitive
<1> QED
  BY <1>2, <1>3, WithinDef

(* Resources are kept by a run or a pass the step stands in.               *)
LEMMA KeeperIs ==
  ASSUME NEW n \in Nodes \ Roots
  PROVE  /\ Keeper[n] \in Within[n] /\ Keeper[n] # n /\ Kind(Keeper[n]) \in {"run", "attempt"}
         /\ \A m \in Within[n] \ {n} : Kind(m) \in {"run", "attempt"} => m \in Within[Keeper[n]]
<1> DEFINE S == {m \in Within[n] : Kind(m) \in {"run", "attempt"} /\ m # n}
           T == {Nodes \ Within[x] : x \in S}
           Good(m) == /\ Kind(m) \in {"run", "attempt"} /\ (m # n \/ n \in Roots)
                      /\ \A other \in Within[n] \ {n} :
                           Kind(other) \in {"run", "attempt"} => other \in Within[m]
<1>1. Within[n] \subseteq Nodes
  BY WithinDef
<1>2. PICK r \in Roots : r \in Within[n]
  BY RootOf
<1>3. r \in S
  BY <1>1, <1>2, TreeAssumption
<1>4. T \in SUBSET SUBSET Nodes /\ T # {}
  BY <1>3
<1>5. PICK A \in T : \A B \in T : B \subseteq A => B = A
  BY <1>4, MinimalSet
<1>6. PICK m \in S : A = Nodes \ Within[m]
  OBVIOUS
<1>7. ASSUME NEW o \in S, o \notin Within[m] PROVE FALSE
  <2>1. m \in Within[o] /\ m \in Nodes /\ o \in Nodes
    BY <1>1, <1>7, WithinChain
  <2>2. Within[m] \subseteq Within[o] /\ Within[o] \subseteq Nodes /\ o \in Within[o]
    BY <2>1, WithinTransitive, WithinDef
  <2>3. Nodes \ Within[o] \in T /\ Nodes \ Within[o] \subseteq A
    BY <1>6, <2>2
  <2>4. Nodes \ Within[o] = Nodes \ Within[m]
    BY <1>5, <1>6, <2>3
  <2> QED
    BY <1>7, <2>1, <2>2, <2>4
<1>8. m \in Within[n] /\ Good(m)
  BY <1>7
<1>9. Keeper[n] = CHOOSE x \in Within[n] : Good(x)
  BY DEF Keeper
<1> HIDE DEF Good
<1>10. Keeper[n] \in Within[n] /\ Good(Keeper[n])
  BY <1>8, <1>9
<1> QED
  BY <1>10 DEF Good

(* The branches of a race are what it calls, and nothing else calls them.  *)
LEMMA BranchCaller ==
  ASSUME NEW n \in Nodes \ Roots
  PROVE  /\ Parent[n] \in Nodes /\ Parent[n] # n
         /\ Kind(n) = "branch" <=> Kind(Parent[n]) = "race"
         /\ ~OwnsDefers(Parent[n]) => n \in Range(Tree[Parent[n]].main)
<1> DEFINE d == Declarer(n)
<1>1. d \in Nodes /\ n \in Children(d) /\ Parent[n] \in Nodes /\ Parent[n] # n
  BY DeclarerType, WithinDef
<1>2. CASE n \in Range(Tree[d].defers)
  <2>1. Parent[n] = Scope[d] /\ OwnsDefers(Scope[d])
    BY <1>1, <1>2, ParentOfPart, ScopeDef
  <2>2. n \notin Range(Tree[d].main)
    BY <1>1, <1>2, PartsDistinct
  <2>3. Kind(n) # "branch"
    BY <1>1, <2>2, TreeShape
  <2> QED
    BY <1>1, <2>1, <2>3 DEF OwnsDefers
<1>3. CASE n \in Range(Tree[d].main)
  <2>1. Parent[n] = d
    BY <1>1, <1>3, ParentOfPart
  <2>2. Kind(n) = "branch" <=> Kind(d) = "race"
    BY <1>1, <1>3, TreeShape
  <2> QED
    BY <1>1, <1>3, <2>1, <2>2
<1>4. CASE n \in Range(Tree[d].rest)
  <2>1. Parent[n] = d
    BY <1>1, <1>4, ParentOfPart
  <2>2. n \notin Range(Tree[d].main)
    BY <1>1, <1>4, PartsDistinct
  <2>3. Kind(n) # "branch"
    BY <1>1, <2>2, TreeShape
  <2>4. Tree[d].rest # <<>>
    BY <1>4 DEF Range
  <2>5. Kind(d) \in {"run", "executor", "try"}
    BY <1>1, <2>4, TreeShape
  <2> QED
    BY <1>1, <2>1, <2>3, <2>5 DEF OwnsDefers
<1> QED
  BY <1>1, <1>2, <1>3, <1>4, ChildrenAreSteps

-----------------------------------------------------------------------------
(* Sequences.                                                              *)

(* A set of natural numbers has a least one.                               *)
LEMMA LeastNumber ==
  ASSUME NEW S \in SUBSET Nat, S # {}
  PROVE  \E m \in S : \A k \in S : m <= k
<1>1. PICK k \in S : TRUE
  OBVIOUS
<1> DEFINE T == {0..x : x \in S \cap (0..k)}
<1>2. IsFiniteSet(0..k)
  BY FS_Interval
<1>3. IsWellFoundedOn(StrictSubsetOrdering(0..k), SUBSET (0..k))
  <2>1. FiniteSubsetsOf(0..k) = SUBSET (0..k)
    BY <1>2, FS_FiniteSubsetsOfFinite
  <2> QED
    BY <2>1, FS_StrictSubsetOrderingWellFounded
<1>4. T \in SUBSET SUBSET (0..k) /\ T # {}
  <2>1. k \in S \cap (0..k)
    BY <1>1
  <2>2. \A x \in S \cap (0..k) : 0..x \in SUBSET (0..k)
    OBVIOUS
  <2> QED
    BY <2>1, <2>2
<1>5. PICK A \in T : \A B \in T : ~(<<B, A>> \in StrictSubsetOrdering(0..k))
  BY <1>3, <1>4, WFMin
<1>6. PICK m \in S \cap (0..k) : A = 0..m
  OBVIOUS
<1>7. ASSUME NEW y \in S, ~(m <= y) PROVE FALSE
  <2>1. y \in S \cap (0..k) /\ 0..y \in T /\ 0..y \subseteq 0..m /\ m \in 0..m /\ m \notin 0..y
    BY <1>6, <1>7
  <2>2. <<0..y, A>> \in StrictSubsetOrdering(0..k)
    BY <1>4, <1>6, <2>1 DEF StrictSubsetOrdering
  <2> QED
    BY <1>5, <2>1, <2>2
<1> QED
  BY <1>6, <1>7

(* Sequences one after the other.                                          *)
LEMMA ConcatRange ==
  ASSUME NEW S, NEW s \in Seq(S), NEW t \in Seq(S)
  PROVE  /\ s \o t \in Seq(S) /\ Range(s \o t) = Range(s) \cup Range(t)
         /\ IsInjective(s) /\ IsInjective(t) /\ Range(s) \cap Range(t) = {} => IsInjective(s \o t)
<1>1. /\ s \o t \in Seq(S) /\ Len(s \o t) = Len(s) + Len(t)
      /\ \A i \in 1..Len(s) + Len(t) : (s \o t)[i] = IF i <= Len(s) THEN s[i] ELSE t[i - Len(s)]
  BY ConcatProperties
<1>2. /\ DOMAIN s = 1..Len(s) /\ DOMAIN t = 1..Len(t) /\ Len(s) \in Nat /\ Len(t) \in Nat
      /\ DOMAIN (s \o t) = 1..Len(s) + Len(t)
  BY <1>1, LenProperties
<1> DEFINE c == s \o t
<1> HIDE DEF c
<1>3. /\ \A i \in DOMAIN s : i \in DOMAIN c /\ c[i] = s[i]
      /\ \A i \in DOMAIN t : Len(s) + i \in DOMAIN c /\ c[Len(s) + i] = t[i]
      /\ \A i \in DOMAIN c : i \in DOMAIN s \/ (i - Len(s) \in DOMAIN t /\ i = Len(s) + (i - Len(s)))
  BY <1>1, <1>2 DEF c
<1>4. Range(c) = Range(s) \cup Range(t)
  <2>1. Range(c) \subseteq Range(s) \cup Range(t)
    BY <1>3 DEF Range
  <2>2. Range(s) \subseteq Range(c) /\ Range(t) \subseteq Range(c)
    BY <1>3 DEF Range
  <2> QED
    BY <2>1, <2>2
<1>5. ASSUME IsInjective(s), IsInjective(t), Range(s) \cap Range(t) = {} PROVE IsInjective(c)
  <2> SUFFICES ASSUME NEW i \in DOMAIN c, NEW j \in DOMAIN c, c[i] = c[j] PROVE i = j
    BY DEF IsInjective
  <2>1. CASE i \in DOMAIN s /\ j \in DOMAIN s
    BY <1>3, <1>5, <2>1 DEF IsInjective
  <2>2. CASE i \notin DOMAIN s /\ j \notin DOMAIN s
    <3>1. i - Len(s) \in DOMAIN t /\ j - Len(s) \in DOMAIN t /\ i = Len(s) + (i - Len(s)) /\ j = Len(s) + (j - Len(s))
      BY <1>3, <2>2
    <3>2. t[i - Len(s)] = t[j - Len(s)]
      BY <1>3, <3>1
    <3>3. i - Len(s) = j - Len(s)
      BY <1>5, <3>1, <3>2 DEF IsInjective
    <3> QED
      BY <3>1, <3>3
  <2>3. CASE i \in DOMAIN s /\ j \notin DOMAIN s
    <3>1. j - Len(s) \in DOMAIN t /\ c[j] = t[j - Len(s)] /\ c[i] = s[i]
      BY <1>3, <2>3
    <3> QED
      BY <1>5, <2>3, <3>1 DEF Range
  <2>4. CASE i \notin DOMAIN s /\ j \in DOMAIN s
    <3>1. i - Len(s) \in DOMAIN t /\ c[i] = t[i - Len(s)] /\ c[j] = s[j]
      BY <1>3, <2>4
    <3> QED
      BY <1>5, <2>4, <3>1 DEF Range
  <2> QED
    BY <2>1, <2>2, <2>3, <2>4
<1> QED
  BY <1>1, <1>4, <1>5 DEF c

LEMMA Reversed ==
  ASSUME NEW S, NEW q \in Seq(S)
  PROVE  /\ Reverse(q) \in Seq(S) /\ Range(Reverse(q)) = Range(q)
         /\ IsInjective(q) => IsInjective(Reverse(q))
<1> DEFINE r == Reverse(q)
<1>1. Len(q) \in Nat /\ DOMAIN q = 1..Len(q) /\ q \in [1..Len(q) -> S]
  BY LenProperties
<1>2. /\ DOMAIN r = 1..Len(q)
      /\ \A i \in 1..Len(q) : (Len(q) - i) + 1 \in 1..Len(q) /\ r[i] = q[(Len(q) - i) + 1]
                              /\ (Len(q) - ((Len(q) - i) + 1)) + 1 = i
  BY <1>1 DEF Reverse
<1>3. r \in Seq(S)
  <2>1. r = [i \in 1..Len(q) |-> q[(Len(q) - i) + 1]]
    BY DEF Reverse
  <2>2. r \in [1..Len(q) -> S]
    BY <1>1, <1>2, <2>1
  <2> QED
    BY <1>1, <2>2, SeqDef
<1> HIDE DEF r
<1>4. Range(r) = Range(q)
  <2>1. Range(r) \subseteq Range(q)
    BY <1>1, <1>2 DEF Range
  <2>2. ASSUME NEW i \in 1..Len(q) PROVE q[i] \in Range(r)
    <3>1. (Len(q) - i) + 1 \in 1..Len(q) /\ r[(Len(q) - i) + 1] = q[i]
      BY <1>1, <1>2
    <3> QED
      BY <1>2, <3>1 DEF Range
  <2> QED
    BY <1>1, <2>1, <2>2 DEF Range
<1>5. ASSUME IsInjective(q) PROVE IsInjective(r)
  <2> SUFFICES ASSUME NEW i \in 1..Len(q), NEW j \in 1..Len(q), r[i] = r[j] PROVE i = j
    BY <1>2 DEF IsInjective
  <2>1. (Len(q) - i) + 1 = (Len(q) - j) + 1
    BY <1>1, <1>2, <1>5 DEF IsInjective
  <2> QED
    BY <1>1, <2>1
<1> QED
  BY <1>3, <1>4, <1>5 DEF r

(* A recursive sequence of sequences: each extends the one before it.      *)
Grows(S, seqs, n) ==
  \E f \in [1..n -> Seq(S)] :
    \A i \in 1..n : f[i] = IF i = 1 THEN seqs[i] ELSE f[i - 1] \o seqs[i]

LEMMA GrowingSequences ==
  ASSUME NEW S, NEW seqs, NEW n \in Nat, \A i \in 1..n : seqs[i] \in Seq(S)
  PROVE  Grows(S, seqs, n)
<1> DEFINE Good(k, f) == /\ f \in [1..k -> Seq(S)]
                         /\ \A i \in 1..k : f[i] = IF i = 1 THEN seqs[i] ELSE f[i - 1] \o seqs[i]
           None == {k \in 0..n : ~\E f : Good(k, f)}
<1> SUFFICES ASSUME None # {} PROVE FALSE
  <2>1. n \in 0..n
    OBVIOUS
  <2>2. None = {} => \E f : Good(n, f)
    BY <2>1
  <2> QED
    BY <2>2 DEF Grows
<1>1. PICK k \in None : \A j \in None : k <= j
  <2>1. None \in SUBSET Nat
    OBVIOUS
  <2> HIDE DEF None
  <2> QED
    BY <2>1, LeastNumber
<1>2. k \in 0..n /\ ~\E f : Good(k, f)
  OBVIOUS
<1>3. k # 0
  <2>1. Good(0, [i \in 1..0 |-> <<>>])
    OBVIOUS
  <2> QED
    BY <1>2, <2>1
<1>4. k \in 1..n /\ k - 1 \in 0..n /\ ~(k <= k - 1)
  BY <1>2, <1>3
<1>5. PICK g : Good(k - 1, g)
  <2>1. k - 1 \notin None
    BY <1>1, <1>4
  <2> QED
    BY <1>4, <2>1
<1> HIDE DEF None
<1> DEFINE last == IF k = 1 THEN seqs[k] ELSE g[k - 1] \o seqs[k]
           f == [i \in 1..k |-> IF i = k THEN last ELSE g[i]]
<1>6. \A i \in 1..k : i # k => i \in 1..(k - 1)
  BY <1>4
<1>7. last \in Seq(S)
  <2>1. k # 1 => k - 1 \in 1..(k - 1)
    BY <1>4
  <2>2. k # 1 => g[k - 1] \in Seq(S)
    BY <1>5, <2>1
  <2>3. seqs[k] \in Seq(S)
    BY <1>4
  <2> HIDE DEF Good
  <2> QED
    BY <2>2, <2>3, ConcatProperties
<1>8. f \in [1..k -> Seq(S)]
  <2>1. \A i \in 1..k : i # k => g[i] \in Seq(S)
    BY <1>5, <1>6
  <2> HIDE DEF last, Good
  <2> QED
    BY <1>7, <2>1
<1>9. ASSUME NEW i \in 1..k PROVE f[i] = IF i = 1 THEN seqs[i] ELSE f[i - 1] \o seqs[i]
  <2>1. i # 1 => i - 1 \in 1..k /\ i - 1 # k /\ f[i - 1] = g[i - 1]
    BY <1>4
  <2>2. CASE i = k
    BY <2>1, <2>2
  <2>3. CASE i # k
    <3>1. f[i] = g[i] /\ i \in 1..(k - 1)
      BY <1>6, <2>3
    <3>2. g[i] = IF i = 1 THEN seqs[i] ELSE g[i - 1] \o seqs[i]
      BY <1>5, <3>1
    <3> QED
      BY <2>1, <3>1, <3>2
  <2> QED
    BY <2>2, <2>3
<1>10. Good(k, f)
  BY <1>8, <1>9
<1> HIDE DEF Good, f
<1> QED
  BY <1>2, <1>10

(* FlattenSeq puts sequences one after the other.                          *)
LEMMA Flattened ==
  ASSUME NEW S, NEW seqs \in Seq(Seq(S)),
         \A i \in DOMAIN seqs : IsInjective(seqs[i]),
         \A i, j \in DOMAIN seqs : i # j => Range(seqs[i]) \cap Range(seqs[j]) = {}
  PROVE  /\ FlattenSeq(seqs) \in Seq(S) /\ IsInjective(FlattenSeq(seqs))
         /\ Range(FlattenSeq(seqs)) = UNION {Range(seqs[i]) : i \in DOMAIN seqs}
<1> DEFINE n == Len(seqs)
<1>1. n \in Nat /\ DOMAIN seqs = 1..n /\ \A i \in 1..n : seqs[i] \in Seq(S)
  BY LenProperties, ElementOfSeq
<1>2. CASE n = 0
  <2>1. seqs = <<>> /\ FlattenSeq(seqs) = <<>> /\ DOMAIN seqs = {}
    BY <1>1, <1>2, EmptySeq DEF FlattenSeq
  <2>2. <<>> \in Seq(S) /\ IsInjective(<<>>) /\ Range(<<>>) = {}
    BY DEF IsInjective, Range
  <2> QED
    BY <2>1, <2>2
<1>3. CASE n > 0
  <2> DEFINE P(f) == f = [i \in 1..n |-> IF i = 1 THEN seqs[i] ELSE f[i - 1] \o seqs[i]]
             flat == CHOOSE f : P(f)
  <2>1. PICK f \in [1..n -> Seq(S)] :
          \A i \in 1..n : f[i] = IF i = 1 THEN seqs[i] ELSE f[i - 1] \o seqs[i]
    <3>1. n \in Nat /\ \A i \in 1..n : seqs[i] \in Seq(S)
      BY <1>1
    <3> HIDE DEF n
    <3>2. Grows(S, seqs, n)
      BY <3>1, GrowingSequences
    <3> QED
      BY <3>2 DEF Grows
  <2>2. P(f)
    BY <2>1
  <2>3. FlattenSeq(seqs) = flat[n]
    <3>1. seqs # <<>>
      BY <1>3, EmptySeq
    <3> QED
      BY <3>1 DEF FlattenSeq
  <2>4. P(flat)
    <3> HIDE DEF P
    <3> QED
      BY <2>2
  <2>5. \A i \in 1..n : flat[i] = IF i = 1 THEN seqs[i] ELSE flat[i - 1] \o seqs[i]
    <3> HIDE DEF flat
    <3> QED
      BY <2>4
  <2> HIDE DEF n, flat, P
  <2> DEFINE Sound(i) == /\ flat[i] \in Seq(S) /\ IsInjective(flat[i])
                         /\ \A x : x \in Range(flat[i]) <=> \E j \in 1..i : x \in Range(seqs[j])
             Bad == {i \in 1..n : ~Sound(i)}
  <2>6. Bad = {}
    <3> SUFFICES ASSUME Bad # {} PROVE FALSE
      OBVIOUS
    <3>1. PICK k \in Bad : \A j \in Bad : k <= j
      <4>1. Bad \in SUBSET Nat
        BY <1>1
      <4> HIDE DEF Bad
      <4> QED
        BY <4>1, LeastNumber
    <3>2. k \in 1..n /\ ~Sound(k)
      OBVIOUS
    <3>3. CASE k = 1
      <4>1. flat[1] = seqs[1] /\ 1 \in DOMAIN seqs /\ 1..1 = {1}
        <5>1. 1 \in 1..n
          BY <3>2, <3>3
        <5> QED
          BY <1>1, <2>5, <5>1
      <4>2. seqs[1] \in Seq(S) /\ IsInjective(seqs[1])
        BY <1>1, <4>1
      <4>3. \A x : x \in Range(flat[1]) <=> \E j \in 1..1 : x \in Range(seqs[j])
        BY <4>1
      <4>4. Sound(1)
        BY <4>1, <4>2, <4>3
      <4> QED
        BY <3>2, <3>3, <4>4
    <3>4. CASE k # 1
      <4>1. k - 1 \in 1..n /\ ~(k <= k - 1) /\ k - 1 \notin Bad /\ flat[k] = flat[k - 1] \o seqs[k]
        <5>1. k - 1 \in 1..n /\ ~(k <= k - 1)
          BY <1>1, <3>2, <3>4
        <5>2. k - 1 \notin Bad
          <6> HIDE DEF Bad
          <6> QED
            BY <3>1, <5>1
        <5> QED
          BY <2>5, <3>2, <3>4, <5>1, <5>2
      <4>2. Sound(k - 1) /\ seqs[k] \in Seq(S) /\ IsInjective(seqs[k])
        BY <1>1, <3>2, <4>1
      <4>3. \A j \in 1..(k - 1) : j \in DOMAIN seqs /\ j # k /\ k \in DOMAIN seqs
        BY <1>1, <3>2
      <4>4. \A j \in 1..(k - 1) : Range(seqs[j]) \cap Range(seqs[k]) = {}
        BY <4>3
      <4>5. Range(flat[k - 1]) \cap Range(seqs[k]) = {}
        BY <4>2, <4>4
      <4>6. flat[k - 1] \in Seq(S) /\ IsInjective(flat[k - 1])
        BY <4>2
      <4> HIDE DEF Sound, Bad
      <4>7. flat[k] \in Seq(S) /\ IsInjective(flat[k]) /\ Range(flat[k]) = Range(flat[k - 1]) \cup Range(seqs[k])
        BY <4>1, <4>2, <4>5, <4>6, ConcatRange
      <4>8. 1..k = 1..(k - 1) \cup {k}
        BY <1>1, <3>2
      <4>9. \A x : x \in Range(flat[k - 1]) <=> \E j \in 1..(k - 1) : x \in Range(seqs[j])
        BY <4>2 DEF Sound
      <4>10. Sound(k)
        BY <4>7, <4>8, <4>9 DEF Sound
      <4> QED
        BY <3>2, <4>10 DEF Bad
    <3> QED
      BY <3>3, <3>4
  <2>7. n \in 1..n
    BY <1>1, <1>3
  <2>8. Sound(n)
    BY <2>6, <2>7
  <2>9. Range(flat[n]) = UNION {Range(seqs[i]) : i \in DOMAIN seqs}
    BY <1>1, <2>8
  <2> QED
    BY <1>1, <2>3, <2>8, <2>9
<1> QED
  BY <1>1, <1>2, <1>3

-----------------------------------------------------------------------------
(* The cleanup of a scope.                                                 *)

(* No two steps of one declaration stand around the same node.             *)
LEMMA SiblingsApart ==
  ASSUME NEW n \in Nodes, NEW d \in Nodes, NEW a \in Children(d), NEW b \in Children(d),
         a \in Around[n], b \in Around[n]
  PROVE  a = b
<1>1. /\ a \in Nodes \ Roots /\ b \in Nodes \ Roots /\ Declarer(a) = d /\ Declarer(b) = d
      /\ Around[a] = {a} \cup Around[d] /\ Around[b] = {b} \cup Around[d]
  BY ChildrenAreSteps, DeclarerIs, AroundDef
<1>2. a \in Around[b] \/ b \in Around[a]
  BY AroundChain
<1>3. a \notin Around[d] /\ b \notin Around[d]
  BY <1>1, TreeShape
<1> QED
  BY <1>1, <1>2, <1>3

(* The recursion of Collect is sound: it goes down the tree.               *)
Gathered(n, f) ==
  IF Kind(n) = "block"
  THEN FlattenSeq([i \in DOMAIN Tree[n].main |-> f[Tree[n].main[i]]])
  ELSE IF Kind(n) \in {"executor", "worktree"} \/ Tree[n].defers = <<>> THEN <<>> ELSE <<n>>

LEMMA GatheredFromBelow ==
  ASSUME NEW n \in Nodes, NEW f, NEW g, \A c \in Children(n) : f[c] = g[c]
  PROVE  Gathered(n, f) = Gathered(n, g)
<1>1. \A i \in DOMAIN Tree[n].main : Tree[n].main[i] \in Children(n)
  BY ChildrenAreSteps DEF Range
<1>2. [i \in DOMAIN Tree[n].main |-> f[Tree[n].main[i]]]
      = [i \in DOMAIN Tree[n].main |-> g[Tree[n].main[i]]]
  BY <1>1
<1> QED
  BY <1>2 DEF Gathered

LEMMA CollectDef ==
  \A n \in Nodes : Collect[n] = Gathered(n, Collect)
<1> DEFINE Down(D) == \A x \in D : Children(x) \subseteq D
           Solves(D, f) == f = [x \in D |-> Gathered(x, f)]
           Bad == {D \in SUBSET Nodes : Down(D) /\ ~\E f : Solves(D, f)}
<1>1. Bad = {}
  <2> SUFFICES ASSUME Bad # {} PROVE FALSE
    OBVIOUS
  <2>1. PICK D \in Bad : \A B \in Bad : B \subseteq D => B = D
    <3>1. Bad \in SUBSET SUBSET Nodes
      OBVIOUS
    <3> HIDE DEF Bad
    <3> QED
      BY <3>1, MinimalSet
  <2>2. D \in SUBSET Nodes /\ Down(D) /\ ~\E f : Solves(D, f)
    OBVIOUS
  <2>3. D # {}
    <3>1. Solves({}, [x \in {} |-> <<>>])
      OBVIOUS
    <3> QED
      BY <2>2, <3>1
  <2>4. PICK x \in D : x \in Roots \/ Declarer(x) \notin D
    BY <2>2, <2>3, Topmost
  <2> DEFINE E == D \ {x}
  <2>5. \A y \in D : Children(y) \subseteq E
    <3> SUFFICES ASSUME NEW y \in D, x \in Children(y) PROVE FALSE
      BY <2>2
    <3> QED
      BY <2>2, <2>4, ChildrenAreSteps, DeclarerIs
  <2>6. E \in SUBSET Nodes /\ Down(E) /\ E \subseteq D /\ E # D
    BY <2>2, <2>5
  <2>7. PICK f : Solves(E, f)
    <3>1. E \notin Bad
      <4> HIDE DEF Bad, E
      <4> QED
        BY <2>1, <2>6
    <3> QED
      BY <2>6, <3>1
  <2> DEFINE g == [y \in D |-> IF y = x THEN Gathered(x, f) ELSE f[y]]
  <2>8. \A y \in E : g[y] = f[y] /\ f[y] = Gathered(y, f)
    BY <2>7
  <2>9. \A y \in D : Gathered(y, f) = Gathered(y, g)
    <3> SUFFICES ASSUME NEW y \in D PROVE Gathered(y, f) = Gathered(y, g)
      OBVIOUS
    <3>1. \A c \in Children(y) : f[c] = g[c]
      BY <2>5, <2>8
    <3> HIDE DEF g, Bad
    <3> QED
      BY <2>2, <3>1, GatheredFromBelow
  <2>10. g = [y \in D |-> Gathered(y, g)]
    <3>1. \A y \in D : g[y] = Gathered(y, g)
      BY <2>8, <2>9
    <3>2. g = [y \in D |-> g[y]]
      OBVIOUS
    <3> HIDE DEF g
    <3> QED
      BY <3>1, <3>2
  <2> QED
    BY <2>2, <2>10
<1>2. Nodes \in SUBSET Nodes /\ Down(Nodes)
  BY ChildrenAreSteps
<1>3. PICK f : Solves(Nodes, f)
  BY <1>1, <1>2
<1>4. Collect = [n \in Nodes |-> Gathered(n, Collect)]
  <2> DEFINE P(h) == h = [n \in Nodes |-> Gathered(n, h)]
  <2>1. P(f)
    BY <1>3
  <2>2. Collect = CHOOSE h : P(h)
    BY DEF Collect, Gathered
  <2> HIDE DEF P
  <2>3. P(Collect)
    BY <2>1, <2>2
  <2> QED
    BY <2>3 DEF P
<1> QED
  BY <1>4

(* What collect finds at a node: steps below it, in its scope, once each.  *)
Collected(n) ==
  /\ Collect[n] \in Seq(Nodes \ Roots) /\ IsInjective(Collect[n])
  /\ \A o \in Range(Collect[n]) :
       n \in Around[o] /\ ~OwnsDefers(n) /\ ~OwnsDefers(o) /\ Scope[o] = Scope[n]

LEMMA CollectedList ==
  ASSUME NEW d \in Nodes, NEW steps \in Seq(Nodes \ Roots), Range(steps) \subseteq Children(d),
         IsInjective(steps), \A c \in Range(steps) : Collected(c),
         NEW flat, flat = FlattenSeq([i \in DOMAIN steps |-> Collect[steps[i]]])
  PROVE  /\ flat \in Seq(Nodes \ Roots) /\ IsInjective(flat)
         /\ \A o \in Range(flat) : d \in Around[o] /\ ~OwnsDefers(o) /\ Scope[o] = Scope[d]
<1> DEFINE seqs == [i \in DOMAIN steps |-> Collect[steps[i]]]
<1>1. /\ DOMAIN steps = 1..Len(steps) /\ Len(steps) \in Nat
      /\ \A i \in DOMAIN steps : steps[i] \in Range(steps) /\ steps[i] \in Children(d)
                                 /\ Collected(steps[i])
  BY LenProperties DEF Range
<1>2. seqs \in Seq(Seq(Nodes \ Roots)) /\ DOMAIN seqs = DOMAIN steps
  <2>1. seqs \in [1..Len(steps) -> Seq(Nodes \ Roots)]
    BY <1>1 DEF Collected
  <2> QED
    BY <1>1, <2>1, SeqDef
<1>3. \A i \in DOMAIN steps :
        /\ seqs[i] \in Seq(Nodes \ Roots) /\ IsInjective(seqs[i])
        /\ \A o \in Range(seqs[i]) :
             o \in Nodes /\ steps[i] \in Around[o] /\ ~OwnsDefers(steps[i]) /\ ~OwnsDefers(o)
             /\ Scope[o] = Scope[steps[i]]
  <2> SUFFICES ASSUME NEW i \in DOMAIN steps
               PROVE  /\ seqs[i] \in Seq(Nodes \ Roots) /\ IsInjective(seqs[i])
                      /\ \A o \in Range(seqs[i]) :
                           o \in Nodes /\ steps[i] \in Around[o] /\ ~OwnsDefers(steps[i])
                           /\ ~OwnsDefers(o) /\ Scope[o] = Scope[steps[i]]
    OBVIOUS
  <2>1. seqs[i] = Collect[steps[i]] /\ Collected(steps[i])
    BY <1>1
  <2>2. Range(seqs[i]) \subseteq Nodes
    BY <2>1, LenProperties, ElementOfSeq DEF Collected, Range
  <2> QED
    BY <2>1, <2>2 DEF Collected
<1> HIDE DEF seqs
<1>4. ASSUME NEW i \in DOMAIN seqs, NEW j \in DOMAIN seqs, i # j
      PROVE  Range(seqs[i]) \cap Range(seqs[j]) = {}
  <2> SUFFICES ASSUME NEW o \in Range(seqs[i]), o \in Range(seqs[j]) PROVE FALSE
    OBVIOUS
  <2>1. o \in Nodes /\ steps[i] \in Around[o] /\ steps[j] \in Around[o]
        /\ steps[i] \in Children(d) /\ steps[j] \in Children(d)
    BY <1>1, <1>2, <1>3, <1>4
  <2>2. steps[i] = steps[j]
    BY <2>1, SiblingsApart
  <2> QED
    BY <1>2, <1>4, <2>2 DEF IsInjective
<1>5. \A i \in DOMAIN seqs : IsInjective(seqs[i])
  BY <1>2, <1>3
<1>6. /\ flat \in Seq(Nodes \ Roots) /\ IsInjective(flat)
      /\ Range(flat) = UNION {Range(seqs[i]) : i \in DOMAIN seqs}
  <2>1. flat = FlattenSeq(seqs)
    BY DEF seqs
  <2>2. \A i, j \in DOMAIN seqs : i # j => Range(seqs[i]) \cap Range(seqs[j]) = {}
    BY <1>4
  <2>3. seqs \in Seq(Seq(Nodes \ Roots))
    BY <1>2
  <2>4. /\ FlattenSeq(seqs) \in Seq(Nodes \ Roots) /\ IsInjective(FlattenSeq(seqs))
        /\ Range(FlattenSeq(seqs)) = UNION {Range(seqs[i]) : i \in DOMAIN seqs}
    BY <1>5, <2>2, <2>3, Flattened
  <2> QED
    BY <2>1, <2>4
<1>7. ASSUME NEW o \in Range(flat)
      PROVE  d \in Around[o] /\ ~OwnsDefers(o) /\ Scope[o] = Scope[d]
  <2>1. PICK i \in DOMAIN steps : o \in Range(seqs[i])
    BY <1>2, <1>6
  <2> DEFINE c == steps[i]
  <2>2. c \in Children(d) /\ o \in Nodes /\ c \in Around[o] /\ ~OwnsDefers(c)
        /\ ~OwnsDefers(o) /\ Scope[o] = Scope[c]
    BY <1>1, <1>3, <2>1
  <2>3. c \in Nodes \ Roots /\ Declarer(c) = d
    BY <2>2, ChildrenAreSteps, DeclarerIs
  <2>4. Scope[c] = Scope[d] /\ Around[c] = {c} \cup Around[d] /\ d \in Around[d]
    BY <2>2, <2>3, ScopeDef, AroundDef, AroundNodes
  <2>5. Around[c] \subseteq Around[o]
    BY <2>2, AroundTransitive
  <2> QED
    BY <2>2, <2>4, <2>5
<1> QED
  BY <1>6, <1>7

LEMMA CollectedSteps ==
  \A n \in Nodes : Collected(n)
<1> DEFINE Bad == {n \in Nodes : ~Collected(n)}
<1> SUFFICES ASSUME Bad # {} PROVE FALSE
  OBVIOUS
<1>1. PICK n \in Bad : \A c \in Children(n) : c \notin Bad
  <2>1. Bad \in SUBSET Nodes
    OBVIOUS
  <2> HIDE DEF Bad
  <2> QED
    BY <2>1, Lowest
<1>2. n \in Nodes /\ ~Collected(n) /\ \A c \in Children(n) : Collected(c)
  BY <1>1, ChildrenAreSteps
<1>3. Collect[n] = Gathered(n, Collect)
  BY <1>2, CollectDef
<1>4. CASE Kind(n) = "block"
  <2> DEFINE steps == Tree[n].main
  <2>1. steps \in Seq(Nodes \ Roots) /\ Range(steps) \subseteq Children(n) /\ IsInjective(steps)
        /\ \A c \in Range(steps) : Collected(c)
    BY <1>2, ChildrenAreSteps, PartsDistinct
  <2>2. Collect[n] = FlattenSeq([i \in DOMAIN steps |-> Collect[steps[i]]])
    BY <1>3, <1>4 DEF Gathered
  <2> HIDE DEF steps
  <2>3. /\ Collect[n] \in Seq(Nodes \ Roots) /\ IsInjective(Collect[n])
        /\ \A o \in Range(Collect[n]) : n \in Around[o] /\ ~OwnsDefers(o) /\ Scope[o] = Scope[n]
    BY <1>2, <2>1, <2>2, CollectedList
  <2>4. ~OwnsDefers(n)
    BY <1>4 DEF OwnsDefers
  <2> QED
    BY <1>2, <2>3, <2>4 DEF Collected
<1>5. CASE Kind(n) # "block" /\ Collect[n] = <<>>
  <2>1. <<>> \in Seq(Nodes \ Roots) /\ IsInjective(<<>>) /\ Range(<<>>) = {}
    BY DEF IsInjective, Range
  <2> QED
    BY <1>2, <1>5, <2>1 DEF Collected
<1>6. CASE Kind(n) # "block" /\ Collect[n] # <<>>
  <2>1. Collect[n] = <<n>> /\ Tree[n].defers # <<>>
    BY <1>3, <1>6 DEF Gathered
  <2>2. Kind(n) \in {"step", "attempt"}
    BY <1>2, <2>1, TreeAssumption
  <2>3. ~OwnsDefers(n) /\ n \in Nodes \ Roots
    BY <1>2, <2>2, TreeAssumption DEF OwnsDefers
  <2>4. <<n>> \in Seq(Nodes \ Roots) /\ IsInjective(<<n>>) /\ Range(<<n>>) = {n}
    BY <2>3 DEF IsInjective, Range
  <2>5. n \in Around[n]
    BY <1>2, AroundNodes
  <2> QED
    BY <1>2, <2>1, <2>3, <2>4, <2>5 DEF Collected
<1> QED
  BY <1>4, <1>5, <1>6

(* The deferStack of a scope.                                              *)
LEMMA StackSteps ==
  ASSUME NEW s \in Nodes, OwnsDefers(s)
  PROVE  /\ Stack(s) \in Seq(Nodes \ Roots) /\ IsInjective(Stack(s))
         /\ \A o \in Range(Stack(s)) : o \in Nodes /\ ~OwnsDefers(o) /\ Scope[o] = s
<1> DEFINE steps == Tree[s].main \o (IF Kind(s) = "try" THEN Tree[s].rest ELSE <<>>)
<1>1. steps \in Seq(Nodes \ Roots) /\ IsInjective(steps) /\ Range(steps) \subseteq Children(s)
  <2> DEFINE rest == IF Kind(s) = "try" THEN Tree[s].rest ELSE <<>>
  <2>1. <<>> \in Seq(Nodes \ Roots) /\ IsInjective(<<>>) /\ Range(<<>>) = {}
    BY DEF IsInjective, Range
  <2>2. /\ rest \in Seq(Nodes \ Roots) /\ IsInjective(rest) /\ Range(rest) \subseteq Children(s)
        /\ Range(Tree[s].main) \cap Range(rest) = {}
    BY <2>1, ChildrenAreSteps, PartsDistinct
  <2>3. /\ Tree[s].main \in Seq(Nodes \ Roots) /\ IsInjective(Tree[s].main)
        /\ Range(Tree[s].main) \subseteq Children(s)
    BY ChildrenAreSteps, PartsDistinct
  <2> HIDE DEF rest
  <2>4. Tree[s].main \o rest \in Seq(Nodes \ Roots) /\ IsInjective(Tree[s].main \o rest)
        /\ Range(Tree[s].main \o rest) = Range(Tree[s].main) \cup Range(rest)
    BY <2>2, <2>3, ConcatRange
  <2>5. steps = Tree[s].main \o rest
    BY DEF rest
  <2> HIDE DEF steps
  <2> QED
    BY <2>2, <2>3, <2>4, <2>5
<1>2. Stack(s) = FlattenSeq([i \in DOMAIN steps |-> Collect[steps[i]]])
  BY DEF Stack
<1> HIDE DEF steps
<1>3. \A c \in Range(steps) : Collected(c)
  BY <1>1, ChildrenAreSteps, CollectedSteps
<1>4. /\ Stack(s) \in Seq(Nodes \ Roots) /\ IsInjective(Stack(s))
      /\ \A o \in Range(Stack(s)) : s \in Around[o] /\ ~OwnsDefers(o) /\ Scope[o] = Scope[s]
  BY <1>1, <1>2, <1>3, CollectedList
<1>5. Scope[s] = s
  BY ScopeDef
<1>6. Range(Stack(s)) \subseteq Nodes
  BY <1>4, LenProperties, ElementOfSeq DEF Range
<1> QED
  BY <1>4, <1>5, <1>6

(* What a handler calls, and what of it stands in its body or its catch.   *)
Callees(n) == {c \in Nodes \ Roots : Parent[c] = n}
Bodies(n) == Range(Tree[n].main) \cup (IF Kind(n) = "try" THEN Range(Tree[n].rest) ELSE {})

LEMMA BodiesAreCallees ==
  ASSUME NEW n \in Nodes
  PROVE  /\ Range(Tree[n].main) \subseteq Bodies(n) /\ Bodies(n) \subseteq Callees(n)
         /\ Range(Tree[n].rest) \subseteq Callees(n)
         /\ \A c \in Callees(n) : c \in Nodes \ Roots /\ Parent[c] = n
         /\ ~OwnsDefers(n) => Callees(n) = Range(Tree[n].main)
<1>1. Range(Tree[n].main) \cup Range(Tree[n].rest) \subseteq Callees(n)
  BY ParentOfPart DEF Callees
<1>2. ~OwnsDefers(n) => Callees(n) \subseteq Range(Tree[n].main)
  BY BranchCaller DEF Callees
<1> QED
  BY <1>1, <1>2 DEF Bodies, Callees

LEMMA SubSequence ==
  ASSUME NEW S, NEW T, NEW q \in Seq(S), Range(q) \subseteq T
  PROVE  q \in Seq(T)
<1>1. Len(q) \in Nat /\ DOMAIN q = 1..Len(q) /\ q \in [1..Len(q) -> S]
  BY LenProperties
<1>2. q \in [1..Len(q) -> T]
  BY <1>1 DEF Range
<1> QED
  BY <1>1, <1>2, SeqDef

(* The cleanup of a scope calls steps of the scope, each once, and none of *)
(* its body.                                                               *)
LEMMA EntriesSteps ==
  ASSUME NEW s \in Nodes, OwnsDefers(s)
  PROVE  /\ Entries(s) \in Seq(Nodes) /\ Range(Entries(s)) \subseteq Callees(s)
         /\ IsInjective(Entries(s)) /\ Range(Entries(s)) \cap Bodies(s) = {}
<1> DEFINE groups == Reverse(Stack(s))
           seqs == [i \in DOMAIN groups |->
                      IF groups[i] \in active THEN Tree[groups[i]].defers ELSE <<>>]
           last == IF Kind(s) = "try" THEN <<>> ELSE Tree[s].rest
<1>0. <<>> \in Seq(Nodes \ Roots) /\ IsInjective(<<>>) /\ Range(<<>>) = {}
  BY DEF IsInjective, Range
<1>1. /\ groups \in Seq(Nodes \ Roots) /\ IsInjective(groups)
      /\ \A o \in Range(groups) : o \in Nodes /\ ~OwnsDefers(o) /\ Scope[o] = s
  <2>1. /\ Stack(s) \in Seq(Nodes \ Roots) /\ IsInjective(Stack(s))
        /\ \A o \in Range(Stack(s)) : o \in Nodes /\ ~OwnsDefers(o) /\ Scope[o] = s
    BY StackSteps
  <2> QED
    BY <2>1, Reversed
<1>2. Entries(s) = FlattenSeq(seqs) \o last
  BY DEF Entries
<1> HIDE DEF groups
<1>3. /\ DOMAIN groups = 1..Len(groups) /\ Len(groups) \in Nat
      /\ \A i \in DOMAIN groups : groups[i] \in Nodes /\ ~OwnsDefers(groups[i]) /\ Scope[groups[i]] = s
  BY <1>1, LenProperties DEF Range
<1>4. \A i \in DOMAIN groups :
        /\ seqs[i] \in Seq(Nodes \ Roots) /\ IsInjective(seqs[i])
        /\ Range(seqs[i]) \subseteq Range(Tree[groups[i]].defers)
  BY <1>0, <1>3, ChildrenAreSteps, PartsDistinct
<1>5. seqs \in Seq(Seq(Nodes \ Roots)) /\ DOMAIN seqs = DOMAIN groups
  <2>1. DOMAIN seqs = DOMAIN groups
    OBVIOUS
  <2>2. seqs \in [1..Len(groups) -> Seq(Nodes \ Roots)]
    <3>1. seqs = [i \in 1..Len(groups) |-> seqs[i]]
      BY <1>3
    <3> HIDE DEF seqs
    <3> QED
      BY <1>3, <1>4, <3>1
  <2> QED
    BY <1>3, <2>1, <2>2, SeqDef
<1> HIDE DEF seqs
<1>6. \A o \in Nodes : ~OwnsDefers(o) /\ Scope[o] = s =>
        \A c \in Range(Tree[o].defers) : c \in Callees(s) /\ Declarer(c) = o /\ o # s
                                         /\ c \notin Children(s)
  <2> SUFFICES ASSUME NEW o \in Nodes, ~OwnsDefers(o), Scope[o] = s, NEW c \in Range(Tree[o].defers)
               PROVE  c \in Callees(s) /\ Declarer(c) = o /\ o # s /\ c \notin Children(s)
    OBVIOUS
  <2>1. c \in Nodes \ Roots /\ Parent[c] = s /\ c \in Children(o) /\ Declarer(c) = o
    BY ParentOfPart, ChildrenAreSteps, DeclarerIs
  <2>2. o # s
    OBVIOUS
  <2> QED
    BY <2>1, <2>2, DeclarerIs DEF Callees
<1>7. ASSUME NEW i \in DOMAIN seqs, NEW j \in DOMAIN seqs, i # j
      PROVE  Range(seqs[i]) \cap Range(seqs[j]) = {}
  <2>1. groups[i] # groups[j]
    BY <1>1, <1>5, <1>7 DEF IsInjective
  <2>2. \A c \in Range(seqs[i]) : Declarer(c) = groups[i]
    BY <1>3, <1>4, <1>5, <1>6
  <2>3. \A c \in Range(seqs[j]) : Declarer(c) = groups[j]
    BY <1>3, <1>4, <1>5, <1>6
  <2> QED
    BY <2>1, <2>2, <2>3
<1> DEFINE flat == FlattenSeq(seqs)
<1>8. flat \in Seq(Nodes \ Roots) /\ IsInjective(flat) /\ Range(flat) = UNION {Range(seqs[i]) : i \in DOMAIN seqs}
  <2>1. \A i \in DOMAIN seqs : IsInjective(seqs[i])
    BY <1>4, <1>5
  <2>2. \A i, j \in DOMAIN seqs : i # j => Range(seqs[i]) \cap Range(seqs[j]) = {}
    BY <1>7
  <2>3. seqs \in Seq(Seq(Nodes \ Roots))
    BY <1>5
  <2> QED
    BY <2>1, <2>2, <2>3, Flattened
<1>9. \A c \in Range(flat) : c \in Callees(s) /\ c \notin Children(s)
  <2> SUFFICES ASSUME NEW c \in Range(flat) PROVE c \in Callees(s) /\ c \notin Children(s)
    OBVIOUS
  <2>1. PICK i \in DOMAIN seqs : c \in Range(seqs[i])
    BY <1>8
  <2> QED
    BY <1>3, <1>4, <1>5, <1>6, <2>1
<1>10. /\ last \in Seq(Nodes \ Roots) /\ IsInjective(last) /\ Range(last) \subseteq Children(s)
       /\ Range(last) \subseteq Callees(s) /\ Range(last) \cap Bodies(s) = {}
  BY <1>0, ChildrenAreSteps, PartsDistinct, BodiesAreCallees DEF Bodies
<1>11. Bodies(s) \subseteq Children(s)
  BY ChildrenAreSteps DEF Bodies
<1> HIDE DEF flat, last
<1>12. Range(flat) \cap Range(last) = {}
  BY <1>9, <1>10
<1>13. /\ flat \o last \in Seq(Nodes \ Roots) /\ IsInjective(flat \o last)
       /\ Range(flat \o last) = Range(flat) \cup Range(last)
  BY <1>8, <1>10, <1>12, ConcatRange
<1>14. Range(flat \o last) \subseteq Callees(s) /\ Range(flat \o last) \cap Bodies(s) = {}
  BY <1>9, <1>10, <1>11, <1>13
<1>15. flat \o last \in Seq(Nodes)
  BY <1>13, <1>14, SubSequence DEF Callees
<1> QED
  BY <1>2, <1>13, <1>14, <1>15 DEF flat

-----------------------------------------------------------------------------
(* A run: what holds of the handlers that are running.                     *)
Waits == {"retryWait", "pollWait"}
Quiet == Releasing \cup Waits
Labels == {"main", "catch", "cleanup"} \cup Quiet
Items == [branch : Nodes, failed : BOOLEAN, eligible : BOOLEAN]
FrameType ==
  [at : Labels, todo : Seq(Nodes), errors : SUBSET Errors, prior : SUBSET Errors,
   worked : BOOLEAN, ctx : ContextErrors, outer : ContextErrors, count : Nat,
   held : Seq(Nodes), kept : BOOLEAN, inbox : Seq(Items), winner : Nodes \cup {NoNode},
   commits : Seq(Nodes), ran : Seq(Nodes)]

(* It calls steps of its own, each once, and none while it waits.          *)
CallsOwn(n, f) ==
  /\ Range(f.todo) \subseteq Callees(n) /\ IsInjective(f.todo)
  /\ Kind(n) \in {"step", "return", "race"} \/ f.at \in Quiet => f.todo = <<>>
  /\ f.at = "main" => Range(f.todo) \subseteq Range(Tree[n].main)
  /\ f.at = "catch" => Range(f.todo) \subseteq Range(Tree[n].rest)

(* Only the blocks that have a phase are in it.                            *)
PhaseOf(n, f) ==
  /\ f.at = "catch" => Kind(n) = "try"
  /\ f.at = "cleanup" => OwnsDefers(n)
  /\ f.at = "release" => Kind(n) = "run"
  /\ f.at \in {"discard", "repoll", "abandon"} \cup Waits => Kind(n) = "attempt"
  /\ Kind(n) # "race" => f.count <= Tree[n].max
  /\ f.at = "retryWait" => f.count < Tree[n].max

(* The errors a phase may have.                                            *)
Accounts(n, f) ==
  /\ f.at = "main" => f.prior = {} /\ (f.todo = <<>> \/ f.errors = {})
  /\ f.at \in {"catch", "retryWait"} => f.prior # {}
  /\ f.at \in {"discard", "abandon"} => f.errors # {}
  /\ f.at \in {"repoll", "pollWait"} => f.prior = {}
  /\ f.at = "pollWait" => f.errors = {}
  /\ Kind(n) = "step" => f.errors = {} /\ f.prior = {}
  /\ \A r \in Range(f.held) : n \in Within[r]

Handler(n, f) == f \in FrameType /\ CallsOwn(n, f) /\ PhaseOf(n, f) /\ Accounts(n, f)

(* A handler that is not a workflow has a caller, which waits for it.      *)
Awaited(n) ==
  /\ Parent[n] \in Running
  /\ Kind(Parent[n]) = "race" \/ (frames[Parent[n]].todo # <<>> /\ Head(frames[Parent[n]].todo) = n)

Nested ==
  /\ Running \subseteq Nodes
  /\ \A n \in Running : Handler(n, frames[n]) /\ (n \notin Roots => Awaited(n))
OneRun == \A r \in Running \cap Roots, s \in Running \cap Roots : r = s

Branches(n) == {b \in Running \ Roots : Parent[b] = n}
Raced ==
  \A n \in Running : Kind(n) = "race" =>
    frames[n].count + Len(frames[n].inbox) + Cardinality(Branches(n)) = Len(Tree[n].main)

Discarded ==
  \A n \in Running : frames[n].at = "discard" => frames[n].prior # {} \/ Expired(n) # "none"

Failing(f) == f.at # "retryWait" /\ f.errors \cup f.prior # {}
Deepest(x, a) == a \in Within[x] /\ \A m \in Running \cap Within[x] : m \in Within[a]
Tracked ==
  \A a \in Running : Kind(a) # "race" => (Failing(frames[a]) <=> \E x \in owed : Deepest(x, a))

Done(n, f, c) ==
  /\ c \notin Range(f.todo)
  /\ f.at = "main" => c \in Range(Tree[n].main)
  /\ f.at = "catch" => c \in Bodies(n)
Fresh ==
  \A n \in Running, x \in owed : n \in Within[x] =>
    \A c \in Callees(n) \cap Within[x] : c \in Running \/ Done(n, frames[n], c)

Attached == result = "running" => \A x \in owed : Within[x] \cap Running # {}
Ended == result # "running" => Running = {} /\ (result = "failed" <=> owed # {})
Globals ==
  /\ {returning, didReturn, interrupted} \subseteq BOOLEAN
  /\ active \cup owed \subseteq Nodes /\ result \in {"running", "succeeded", "failed"}
  /\ live \in Seq(Nodes)
RunInv == Globals /\ Nested /\ OneRun /\ Raced /\ Discarded /\ Tracked /\ Fresh /\ Attached /\ Ended

(* From a node down to one that stands in it one passes one of its calls.  *)
LEMMA PathDown ==
  ASSUME NEW m \in Nodes, NEW n \in Within[m], n # m
  PROVE  \E c \in Callees(n) : c \in Within[m]
<1> DEFINE S == {x \in Within[m] : n \in Within[x] /\ x # n}
<1>1. S \in SUBSET Nodes /\ m \in S
  BY WithinDef
<1>2. PICK x \in S : x \in Roots \/ Parent[x] \notin S
  <2> HIDE DEF S
  <2> QED
    BY <1>1, TopmostCaller
<1>3. x \in Nodes /\ x \notin Roots
  BY <1>1, <1>2, WithinDef
<1>4. Parent[x] \in Within[x] /\ n \in Within[Parent[x]] /\ Within[x] \subseteq Within[m]
  BY <1>3, WithinDef, WithinTransitive
<1>5. Parent[x] = n
  BY <1>2, <1>3, <1>4
<1> QED
  BY <1>3, <1>5 DEF Callees

LEMMA PathIsOne ==
  ASSUME NEW n \in Nodes, NEW m \in Nodes, NEW a \in Callees(n), NEW b \in Callees(n),
         a \in Within[m], b \in Within[m]
  PROVE  a = b
<1>1. /\ a \in Nodes \ Roots /\ Parent[a] = n /\ b \in Nodes \ Roots /\ Parent[b] = n
      /\ Within[a] = {a} \cup Within[n] /\ Within[b] = {b} \cup Within[n]
      /\ a \notin Within[n] /\ b \notin Within[n]
  BY WithinDef DEF Callees
<1>2. a \in Within[b] \/ b \in Within[a]
  BY WithinChain
<1> QED
  BY <1>1, <1>2

(* The callers of a running handler are running.                           *)
LEMMA WithinRuns ==
  ASSUME Nested, NEW m \in Running
  PROVE  m \in Nodes /\ Within[m] \subseteq Running
<1>1. Running \in SUBSET Nodes /\ \A x \in Running \ Roots : Parent[x] \in Running
  BY DEF Nested, Awaited
<1> QED
  BY <1>1, WithinLeast

LEMMA CalleeBetween ==
  ASSUME Nested, NEW m \in Running, NEW n \in Within[m], n # m
  PROVE  \E c \in Running \ Roots : Parent[c] = n /\ c \in Within[m]
<1>1. m \in Nodes /\ Within[m] \subseteq Running
  BY WithinRuns
<1> QED
  BY <1>1, PathDown DEF Callees

(* Nothing runs under a handler that awaits no one.                        *)
Lone(n) == \A m \in Running : n \in Within[m] => m = n

LEMMA NoneBelow ==
  ASSUME Nested, NEW n \in Nodes, \A m \in Running \ Roots : Parent[m] # n
  PROVE  Lone(n)
  BY CalleeBetween DEF Lone

LEMMA QuietIsLone ==
  ASSUME Nested, NEW n \in Running, Kind(n) # "race", frames[n].todo = <<>>
  PROVE  Lone(n)
<1>1. \A m \in Running \ Roots : Parent[m] # n
  BY DEF Nested, Awaited
<1>2. n \in Nodes
  BY DEF Nested
<1> QED
  BY <1>1, <1>2, NoneBelow

LEMMA JoinedIsLone ==
  ASSUME Nested, Raced, NEW n \in Running, Kind(n) = "race", Joined(n)
  PROVE  Lone(n)
<1>1. n \in Nodes /\ frames[n] \in FrameType /\ Tree[n].main \in Seq(Nodes \ Roots)
  BY ChildrenAreSteps DEF Nested, Handler
<1>2. IsFiniteSet(Branches(n))
  BY FS_Subset, TreeShape DEF Branches, Nested
<1>3. Cardinality(Branches(n)) \in Nat /\ (Cardinality(Branches(n)) = 0 <=> Branches(n) = {})
  BY <1>2, FS_CardinalityType, FS_EmptySet
<1>4. Len(frames[n].inbox) \in Nat /\ frames[n].count \in Nat
  BY <1>1, LenProperties DEF FrameType
<1>5. frames[n].count + Len(frames[n].inbox) + Cardinality(Branches(n)) = frames[n].count
  BY DEF Raced, Joined
<1>6. Branches(n) = {}
  BY <1>3, <1>4, <1>5
<1> QED
  BY <1>1, <1>6, NoneBelow DEF Branches

-----------------------------------------------------------------------------
(* A handler that returns.                                                 *)

(* What of a handler stays when another one returns, and what its caller   *)
(* takes from it.                                                          *)
Same(f, g) ==
  /\ g.at = f.at /\ g.prior = f.prior /\ g.ctx = f.ctx /\ g.outer = f.outer
  /\ g.count = f.count /\ g.kept = f.kept

Steady(m, f, g) ==
  /\ g \in FrameType /\ Same(f, g)
  /\ g.todo = f.todo /\ g.errors = f.errors /\ g.inbox = f.inbox
  /\ \A r \in Range(g.held) : m \in Within[r]

Told(n, errs, f, g) ==
  /\ g \in FrameType /\ Same(f, g)
  /\ IF Kind(n) = "branch"
     THEN g.todo = f.todo /\ g.errors = f.errors /\ Len(g.inbox) = Len(f.inbox) + 1
     ELSE /\ g.inbox = f.inbox /\ g.errors = IF f.at = "main" THEN errs ELSE f.errors \cup errs
          /\ g.todo \in {<<>>, Tail(f.todo)} /\ (f.at = "main" /\ errs # {} => g.todo = <<>>)
  /\ \A r \in Range(g.held) : Parent[n] \in Within[r]

Left(n, errs) ==
  /\ DOMAIN frames' = Running \ {n}
  /\ Told(n, errs, frames[Parent[n]], frames'[Parent[n]])
  /\ \A m \in Running \ {n, Parent[n]} : Steady(m, frames[m], frames'[m])

LEMMA AppendType ==
  ASSUME NEW S, NEW q \in Seq(S), NEW x \in S
  PROVE  Append(q, x) \in Seq(S) /\ Len(Append(q, x)) = Len(q) + 1 /\ Range(Append(q, x)) = Range(q) \cup {x}
<1>1. Append(q, x) \in Seq(S) /\ Len(Append(q, x)) = Len(q) + 1 /\ Len(q) \in Nat
      /\ \A i \in 1..Len(q) : Append(q, x)[i] = q[i]
      /\ Append(q, x)[Len(q) + 1] = x
  BY AppendProperties, LenProperties
<1>2. DOMAIN q = 1..Len(q) /\ DOMAIN Append(q, x) = 1..(Len(q) + 1)
  BY <1>1, LenProperties
<1>3. 1..(Len(q) + 1) = 1..Len(q) \cup {Len(q) + 1}
  BY <1>1
<1> QED
  BY <1>1, <1>2, <1>3 DEF Range

LEMMA TailType ==
  ASSUME NEW S, NEW q \in Seq(S), q # <<>>
  PROVE  /\ Tail(q) \in Seq(S) /\ Range(Tail(q)) \subseteq Range(q) /\ Head(q) \in Range(q)
         /\ IsInjective(q) => IsInjective(Tail(q)) /\ Head(q) \notin Range(Tail(q))
<1>1. /\ Len(q) \in Nat \ {0} /\ DOMAIN q = 1..Len(q) /\ Head(q) = q[1]
      /\ Tail(q) \in Seq(S) /\ Len(Tail(q)) = Len(q) - 1
      /\ \A i \in 1..Len(Tail(q)) : Tail(q)[i] = q[i + 1]
  BY HeadTailProperties, LenProperties, EmptySeq
<1>2. DOMAIN Tail(q) = 1..(Len(q) - 1)
  BY <1>1, LenProperties
<1>3. \A i \in DOMAIN Tail(q) : i + 1 \in DOMAIN q /\ i + 1 # 1 /\ Tail(q)[i] = q[i + 1] /\ i \in Nat
  BY <1>1, <1>2
<1>4. 1 \in DOMAIN q
  BY <1>1
<1>5. ASSUME IsInjective(q) PROVE IsInjective(Tail(q)) /\ Head(q) \notin Range(Tail(q))
  <2>1. ASSUME NEW i \in DOMAIN Tail(q), NEW j \in DOMAIN Tail(q), Tail(q)[i] = Tail(q)[j]
        PROVE  i = j
    <3>1. i + 1 = j + 1
      BY <1>3, <1>5, <2>1 DEF IsInjective
    <3> QED
      BY <1>3, <3>1
  <2>2. \A i \in DOMAIN Tail(q) : Tail(q)[i] # q[1]
    BY <1>3, <1>4, <1>5 DEF IsInjective
  <2> QED
    BY <1>1, <2>1, <2>2 DEF IsInjective, Range
<1> QED
  BY <1>1, <1>3, <1>4, <1>5 DEF Range

(* A caller that goes on, or stops.                                        *)
LEMMA Resumed ==
  ASSUME NEW f \in FrameType, NEW n \in Nodes, NEW errs \in SUBSET Errors,
         NEW worked \in BOOLEAN, NEW returned, f.todo # <<>>, Kind(n) # "branch",
         \A r \in Range(f.held) : Parent[n] \in Within[r]
  PROVE  /\ Told(n, errs, f, Resume(f, n, errs, worked, returned))
         /\ Resume(f, n, errs, worked, returned).held = f.held
         /\ f.at = "main" /\ returned => Resume(f, n, errs, worked, returned).todo = <<>>
<1> DEFINE resumed == [f EXCEPT !.errors = IF f.at = "main" THEN errs ELSE @ \cup errs,
                             !.worked = @ \/ worked, !.ran = Append(@, n)]
           g == Resume(f, n, errs, worked, returned)
<1>1. Tail(f.todo) \in Seq(Nodes) /\ Append(f.ran, n) \in Seq(Nodes) /\ <<>> \in Seq(Nodes)
  BY TailType, AppendType DEF FrameType
<1>2. (f.worked \/ worked) \in BOOLEAN
  BY DEF FrameType
<1>3. (IF f.at = "main" THEN errs ELSE f.errors \cup errs) \in SUBSET Errors
  BY DEF FrameType
<1>4. /\ resumed \in FrameType /\ resumed.todo = f.todo
      /\ resumed.errors = IF f.at = "main" THEN errs ELSE f.errors \cup errs
      /\ Same(f, resumed) /\ resumed.held = f.held /\ resumed.inbox = f.inbox
  <2>1. resumed = [f EXCEPT !.errors = IF f.at = "main" THEN errs ELSE f.errors \cup errs,
                         !.worked = f.worked \/ worked, !.ran = Append(f.ran, n)]
    OBVIOUS
  <2> DEFINE e == IF f.at = "main" THEN errs ELSE f.errors \cup errs
             w == f.worked \/ worked
             q == Append(f.ran, n)
  <2>2. e \in SUBSET Errors /\ w \in BOOLEAN /\ q \in Seq(Nodes)
    BY <1>1, <1>2, <1>3
  <2>3. resumed = [f EXCEPT !.errors = e, !.worked = w, !.ran = q]
    BY <2>1
  <2> HIDE DEF resumed, e, w, q
  <2>4. /\ resumed \in FrameType /\ resumed.todo = f.todo /\ resumed.errors = e
        /\ Same(f, resumed) /\ resumed.held = f.held /\ resumed.inbox = f.inbox
    BY <2>2, <2>3 DEF FrameType, Same
  <2> QED
    BY <2>4 DEF e
<1>5. g = IF \/ f.at = "main" /\ (errs # {} \/ returned)
             \/ f.at = "catch" /\ errs # {} /\ (f.ctx # "none" \/ "canceled" \in errs)
          THEN [resumed EXCEPT !.todo = <<>>] ELSE [resumed EXCEPT !.todo = Tail(resumed.todo)]
  BY DEF Resume
<1> HIDE DEF resumed, g
<1>6. /\ g \in {[resumed EXCEPT !.todo = <<>>], [resumed EXCEPT !.todo = Tail(f.todo)]}
      /\ f.at = "main" /\ (errs # {} \/ returned) => g = [resumed EXCEPT !.todo = <<>>]
  BY <1>4, <1>5
<1>7. /\ g \in FrameType /\ Same(f, g) /\ g.inbox = f.inbox /\ g.errors = resumed.errors
      /\ g.held = f.held /\ g.todo \in {<<>>, Tail(f.todo)}
      /\ f.at = "main" /\ (errs # {} \/ returned) => g.todo = <<>>
  BY <1>1, <1>4, <1>6 DEF FrameType, Same
<1>8. Told(n, errs, f, g)
  BY <1>4, <1>7 DEF Told
<1> QED
  BY <1>7, <1>8 DEF g

(* The handlers after one of them has returned.                            *)
LEMMA ReturnsEffect ==
  ASSUME NEW fs, DOMAIN fs = Running, \A m \in Running : Steady(m, frames[m], fs[m]),
         active \subseteq Nodes, \A m \in Running : frames[m] \in FrameType,
         NEW n \in Nodes \ Roots, Parent[n] \in Running,
         Kind(n) # "branch" => frames[Parent[n]].todo # <<>>,
         NEW ending, NEW errs \in SUBSET Errors, NEW returned,
         Returns(fs, n, ending, errs, returned)
  PROVE  /\ Left(n, errs) /\ active' \subseteq Nodes
         /\ \A m \in Running \ {n} : frames'[m].held = fs[m].held
         /\ returned /\ Kind(n) # "branch" /\ frames[Parent[n]].at = "main"
              => frames'[Parent[n]].todo = <<>>
<1> DEFINE p == Parent[n]
           s == Scope[p]
           commits == ending = "ok" /\ Tree[n].defers # <<>>
           rest == Restrict(fs, DOMAIN fs \ {n})
           worked == Worked(fs, n, ending)
           item == [branch |-> n, failed |-> FALSE, eligible |-> n = Tree[p].main[1] \/ worked]
           told == IF Kind(n) = "branch"
                   THEN [rest EXCEPT ![p].inbox = Append(@, item)]
                   ELSE [rest EXCEPT ![p] = Resume(@, n, errs, worked, returned)]
           f == fs[p]
           g == IF Kind(n) = "branch" THEN [f EXCEPT !.inbox = Append(f.inbox, item)]
                ELSE Resume(f, n, errs, worked, returned)
<1>1. /\ frames' = IF commits THEN [told EXCEPT ![s].commits = Append(@, n)] ELSE told
      /\ active' = active \/ active' = active \cup {n}
  BY DEF Returns
<1>2. p \in Running /\ p # n /\ p \in Nodes
  BY WithinDef
<1>3. DOMAIN rest = Running \ {n} /\ \A m \in Running \ {n} : rest[m] = fs[m]
  BY DEF Restrict
<1>4. \A m \in Running : fs[m] \in FrameType
  BY DEF Steady
<1>5. worked \in BOOLEAN
  <2>1. CASE Kind(n) \in {"block", "executor", "branch"}
    <3>1. n \in DOMAIN fs => fs[n].worked \in BOOLEAN
      BY <1>4 DEF FrameType
    <3>2. worked = (n \in DOMAIN fs /\ fs[n].worked)
      BY <2>1 DEF Worked
    <3>3. (n \in DOMAIN fs /\ fs[n].worked) \in BOOLEAN
      BY Zenon
    <3> QED
      BY <3>2, <3>3
  <2>2. CASE Kind(n) \notin {"block", "executor", "branch"}
    <3>1. worked = (ending \in {"ok", "failed"})
      BY <2>2 DEF Worked
    <3>2. (ending \in {"ok", "failed"}) \in BOOLEAN
      OBVIOUS
    <3> QED
      BY <3>1, <3>2
  <2> QED
    BY <2>1, <2>2
<1> HIDE DEF worked
<1>6. /\ Told(n, errs, frames[p], g) /\ g.held = f.held
      /\ returned /\ Kind(n) # "branch" /\ frames[p].at = "main" => g.todo = <<>>
  <2>1. Steady(p, frames[p], f) /\ f \in FrameType
    BY <1>2, <1>4
  <2>2. CASE Kind(n) = "branch"
    <3>1. item \in Items
      <4>1. (n = Tree[p].main[1] \/ worked) \in BOOLEAN
        BY <1>5
      <4> QED
        BY <4>1 DEF Items
    <3> HIDE DEF item
    <3>2. Append(f.inbox, item) \in Seq(Items) /\ Len(Append(f.inbox, item)) = Len(f.inbox) + 1
      BY <2>1, <3>1, AppendType DEF FrameType
    <3>3. g = [f EXCEPT !.inbox = Append(f.inbox, item)]
      BY <2>2
    <3> HIDE DEF g, f
    <3> QED
      BY <2>1, <2>2, <3>2, <3>3 DEF Told, Steady, Same, FrameType
  <2>3. CASE Kind(n) # "branch"
    <3>1. g = Resume(f, n, errs, worked, returned)
      BY <2>3
    <3>2. f.todo # <<>> /\ \A r \in Range(f.held) : Parent[n] \in Within[r]
      BY <2>1, <2>3 DEF Steady
    <3> HIDE DEF g, f
    <3>3. Told(n, errs, f, g) /\ g.held = f.held /\ (f.at = "main" /\ returned => g.todo = <<>>)
      BY <1>5, <2>1, <2>3, <3>1, <3>2, Resumed
    <3> QED
      BY <2>1, <2>3, <3>3 DEF Told, Steady, Same
  <2> QED
    BY <2>2, <2>3
<1> HIDE DEF item
<1>7. DOMAIN told = Running \ {n} /\ told[p] = g /\ \A m \in Running \ {n, p} : told[m] = fs[m]
  <2>1. rest[p] = f /\ p \in DOMAIN rest
    BY <1>2, <1>3
  <2>2. CASE Kind(n) = "branch"
    <3>1. told = [rest EXCEPT ![p] = [rest[p] EXCEPT !.inbox = Append(rest[p].inbox, item)]]
      BY <2>2
    <3>2. told = [rest EXCEPT ![p] = g]
      BY <2>1, <2>2, <3>1
    <3> HIDE DEF told, rest, g, f
    <3> QED
      BY <1>2, <1>3, <2>1, <3>2
  <2>3. CASE Kind(n) # "branch"
    <3>1. told = [rest EXCEPT ![p] = Resume(rest[p], n, errs, worked, returned)]
      BY <2>3
    <3>2. told = [rest EXCEPT ![p] = g]
      BY <2>1, <2>3, <3>1
    <3> HIDE DEF told, rest, g, f
    <3> QED
      BY <1>2, <1>3, <2>1, <3>2
  <2> QED
    BY <2>2, <2>3
<1>8. \A m \in Running \ {n} : told[m] \in FrameType
  BY <1>4, <1>6, <1>7 DEF Told
<1> HIDE DEF told, g, commits
<1>9. DOMAIN frames' = Running \ {n}
  BY <1>1, <1>7
<1>10. ASSUME NEW m \in Running \ {n}
       PROVE  frames'[m] \in {told[m], [told[m] EXCEPT !.commits = Append(told[m].commits, n)]}
  BY <1>1, <1>7
<1>11. ASSUME NEW m \in Running \ {n}
       PROVE  /\ frames'[m] \in FrameType /\ Same(told[m], frames'[m])
              /\ frames'[m].todo = told[m].todo /\ frames'[m].errors = told[m].errors
              /\ frames'[m].inbox = told[m].inbox /\ frames'[m].held = told[m].held
  <2>1. Append(told[m].commits, n) \in Seq(Nodes)
    BY <1>8, AppendType DEF FrameType
  <2> DEFINE h == told[m]
             q == Append(told[m].commits, n)
  <2>2. h \in FrameType /\ q \in Seq(Nodes) /\ frames'[m] \in {h, [h EXCEPT !.commits = q]}
    BY <1>8, <1>10, <2>1
  <2> HIDE DEF h, q
  <2>3. frames'[m] \in FrameType /\ Same(h, frames'[m]) /\ frames'[m].todo = h.todo
        /\ frames'[m].errors = h.errors /\ frames'[m].inbox = h.inbox /\ frames'[m].held = h.held
    <3>1. CASE frames'[m] = h
      BY <2>2, <3>1 DEF Same
    <3>2. CASE frames'[m] = [h EXCEPT !.commits = q]
      BY <2>2, <3>2 DEF Same, FrameType
    <3> QED
      BY <2>2, <3>1, <3>2
  <2> QED
    BY <2>3 DEF h
<1>12. Told(n, errs, frames[p], frames'[p])
  <2>1. /\ frames'[p] \in FrameType /\ Same(g, frames'[p])
        /\ frames'[p].todo = g.todo /\ frames'[p].errors = g.errors
        /\ frames'[p].inbox = g.inbox /\ frames'[p].held = g.held
    BY <1>2, <1>7, <1>11
  <2> QED
    BY <1>6, <2>1 DEF Told, Same
<1>13. ASSUME NEW m \in Running \ {n, p} PROVE Steady(m, frames[m], frames'[m])
  <2>1. /\ frames'[m] \in FrameType /\ Same(fs[m], frames'[m])
        /\ frames'[m].todo = fs[m].todo /\ frames'[m].errors = fs[m].errors
        /\ frames'[m].inbox = fs[m].inbox /\ frames'[m].held = fs[m].held
    BY <1>7, <1>11
  <2> QED
    BY <2>1 DEF Steady, Same
<1>14. Left(n, errs)
  BY <1>9, <1>12, <1>13 DEF Left
<1>15. \A m \in Running \ {n} : told[m].held = fs[m].held
  BY <1>6, <1>7
<1>16. returned /\ Kind(n) # "branch" /\ frames[p].at = "main" => frames'[p].todo = <<>>
  BY <1>2, <1>6, <1>7, <1>11
<1> QED
  BY <1>1, <1>11, <1>14, <1>15, <1>16

-----------------------------------------------------------------------------
(* Steps of one kind: a handler returns to its caller, with nothing running*)
(* under it; what it says is an error exactly when a failure below it has  *)
(* not been made up for.                                                   *)
Reports(n, errs) ==
  /\ n \in Nodes \ Roots /\ Awaited(n) /\ (Kind(Parent[n]) = "race" => n \in Running)
  /\ Lone(n) /\ Left(n, errs)
  /\ owed' \subseteq owed \cup {n} /\ \A x \in owed \ owed' : n \in Within[x]
  /\ Kind(n) # "branch" => (errs # {} <=> \E x \in owed' : n \in Within[x])
  /\ Kind(n) = "race" /\ n \in Running /\ errs = {} => Ctx(n) = "none" /\ frames[n].errors = {}
  /\ result' = result

LEMMA ReportsBasics ==
  ASSUME RunInv, NEW n, NEW errs, Reports(n, errs)
  PROVE  /\ n \in Nodes \ Roots /\ Parent[n] \in Running /\ Parent[n] \in Nodes /\ Parent[n] # n
         /\ Within[n] = {n} \cup Within[Parent[n]] /\ n \notin Within[Parent[n]]
         /\ Kind(n) = "branch" <=> Kind(Parent[n]) = "race"
         /\ Running' = Running \ {n} /\ result = "running" /\ result' = "running"
         /\ \A m \in Running : m \in Nodes /\ Handler(m, frames[m])
         /\ \A m \in Running \ {n} : frames'[m] \in FrameType /\ Same(frames[m], frames'[m])
<1>1. n \in Nodes \ Roots /\ Parent[n] \in Running
  BY DEF Reports, Awaited
<1>2. /\ Parent[n] \in Nodes /\ Parent[n] # n /\ Within[n] = {n} \cup Within[Parent[n]]
      /\ n \notin Within[Parent[n]]
      /\ Kind(n) = "branch" <=> Kind(Parent[n]) = "race"
  BY <1>1, WithinDef, BranchCaller
<1>3. result = "running"
  BY <1>1 DEF RunInv, Ended
<1>4. \A m \in Running \ {n} : frames'[m] \in FrameType /\ Same(frames[m], frames'[m])
  BY <1>1 DEF Reports, Left, Told, Steady
<1>5. Running' = Running \ {n}
  BY DEF Reports, Left, Running
<1> QED
  BY <1>1, <1>2, <1>3, <1>4, <1>5 DEF Reports, RunInv, Nested

(* The caller is waiting for it in its sequence, or is a race.             *)
LEMMA CallerWaits ==
  ASSUME RunInv, NEW n, NEW errs, Reports(n, errs)
  PROVE  LET p == Parent[n]
             f == frames[p]
         IN /\ Kind(p) = "race" => f.at = "main" /\ f.todo = <<>>
            /\ Kind(p) # "race" => f.todo # <<>> /\ Head(f.todo) = n /\ f.at \notin Quiet
                                   /\ Kind(p) # "step"
            /\ f.at = "main" => n \in Range(Tree[p].main)
            /\ f.at = "catch" => n \in Range(Tree[p].rest) /\ Kind(p) = "try"
            /\ f.at = "main" => f.prior = {} /\ (f.todo # <<>> => f.errors = {})
<1> DEFINE p == Parent[n]
           f == frames[p]
<1>1. p \in Running /\ p \in Nodes /\ n \in Nodes \ Roots /\ Handler(p, f)
  BY ReportsBasics
<1>2. Kind(p) = "race" \/ (f.todo # <<>> /\ Head(f.todo) = n)
  BY DEF Reports, Awaited
<1>3. CASE Kind(p) = "race"
  <2>1. f.at = "main" /\ f.todo = <<>>
    BY <1>1, <1>3 DEF Handler, FrameType, Labels, Quiet, Releasing, PhaseOf, OwnsDefers, CallsOwn
  <2>2. n \in Range(Tree[p].main)
    BY <1>1, <1>3, BranchCaller DEF OwnsDefers
  <2> QED
    BY <1>1, <1>3, <2>1, <2>2 DEF Handler, Accounts
<1>4. CASE Kind(p) # "race"
  <2>1. f.todo # <<>> /\ Head(f.todo) = n
    BY <1>2, <1>4
  <2>2. n \in Range(f.todo)
    BY <1>1, <2>1, TailType DEF Handler, FrameType
  <2>3. f.at \notin Quiet /\ Kind(p) # "step"
    BY <1>1, <2>1 DEF Handler, CallsOwn
  <2>4. /\ f.at = "main" => n \in Range(Tree[p].main)
        /\ f.at = "catch" => n \in Range(Tree[p].rest) /\ Kind(p) = "try"
        /\ f.at = "main" => f.prior = {} /\ (f.todo # <<>> => f.errors = {})
    BY <1>1, <2>2 DEF Handler, CallsOwn, PhaseOf, Accounts
  <2> QED
    BY <1>4, <2>1, <2>3, <2>4
<1> QED
  BY <1>3, <1>4

LEMMA ReportsKeepsNesting ==
  ASSUME RunInv, NEW n, NEW errs, Reports(n, errs)
  PROVE  Nested' /\ OneRun' /\ Discarded'
<1> DEFINE p == Parent[n]
<1>0. /\ n \in Nodes \ Roots /\ p \in Running /\ p # n
      /\ Running' = Running \ {n}
      /\ \A m \in Running : m \in Nodes /\ Handler(m, frames[m])
      /\ \A m \in Running \ {n} : frames'[m] \in FrameType /\ Same(frames[m], frames'[m])
      /\ Kind(n) = "branch" <=> Kind(p) = "race"
  BY ReportsBasics
<1>1. ASSUME NEW m \in Running \ {n} PROVE Handler(m, frames'[m])
  <2>1. CASE m # p
    <3>1. Steady(m, frames[m], frames'[m])
      BY <1>0, <2>1 DEF Reports, Left
    <3> QED
      BY <1>0, <3>1 DEF Steady, Same, Handler, CallsOwn, PhaseOf, Accounts
  <2>2. CASE m = p
    <3> DEFINE f == frames[p]
               g == frames'[p]
    <3>1. /\ Told(n, errs, f, g) /\ Handler(p, f)
          /\ Kind(n) = "branch" <=> Kind(p) = "race"
      BY <1>0 DEF Reports, Left
    <3>2. CASE Kind(p) = "race"
      <4>1. /\ g \in FrameType /\ Same(f, g) /\ g.todo = f.todo /\ g.errors = f.errors
            /\ \A r \in Range(g.held) : p \in Within[r]
        BY <3>1, <3>2 DEF Told
      <4> HIDE DEF f, g
      <4>2. Handler(p, g)
        BY <3>1, <4>1 DEF Same, Handler, CallsOwn, PhaseOf, Accounts
      <4> QED
        BY <2>2, <4>2 DEF g
    <3>3. CASE Kind(p) # "race"
      <4>1. /\ g \in FrameType /\ Same(f, g) /\ g.todo \in {<<>>, Tail(f.todo)}
            /\ g.errors = IF f.at = "main" THEN errs ELSE f.errors \cup errs
            /\ f.at = "main" /\ errs # {} => g.todo = <<>>
            /\ \A r \in Range(g.held) : p \in Within[r]
        BY <3>1, <3>3 DEF Told
      <4>2. f.todo # <<>> /\ f.at \notin Quiet /\ Kind(p) # "step"
        BY <3>3, CallerWaits
      <4>3. f.todo \in Seq(Nodes) /\ Range(Tail(f.todo)) \subseteq Range(f.todo) /\ IsInjective(Tail(f.todo))
        BY <3>1, <4>2, TailType DEF Handler, FrameType, CallsOwn
      <4>4. Range(<<>>) = {} /\ IsInjective(<<>>)
        BY DEF Range, IsInjective
      <4> HIDE DEF f, g
      <4>5. Range(g.todo) \subseteq Range(f.todo) /\ IsInjective(g.todo)
        BY <4>1, <4>3, <4>4
      <4>6. CallsOwn(p, g)
        BY <3>1, <3>3, <4>1, <4>2, <4>5 DEF Handler, CallsOwn, Same, PhaseOf
      <4>7. PhaseOf(p, g)
        BY <3>1, <4>1 DEF Handler, PhaseOf, Same
      <4>8. Accounts(p, g)
        BY <3>1, <4>1, <4>2 DEF Handler, Accounts, Same, Quiet, Waits, Releasing
      <4>9. Handler(p, g)
        BY <4>1, <4>6, <4>7, <4>8 DEF Handler
      <4> QED
        BY <2>2, <4>9 DEF g
    <3> QED
      BY <3>2, <3>3
  <2> QED
    BY <2>1, <2>2
<1>2. ASSUME NEW m \in Running \ {n}, m \notin Roots PROVE Awaited(m)'
  <2>1. Parent[m] \in Running /\ (Kind(Parent[m]) = "race" \/ (frames[Parent[m]].todo # <<>> /\ Head(frames[Parent[m]].todo) = m))
    BY <1>2 DEF RunInv, Nested, Awaited
  <2>2. Parent[m] # n
    BY <1>0, <1>2, WithinDef DEF Reports, Lone
  <2>3. CASE Kind(Parent[m]) = "race"
    BY <1>0, <2>1, <2>2, <2>3 DEF Awaited
  <2>4. CASE Kind(Parent[m]) # "race"
    <3>1. Parent[m] # p
      BY <1>2, <2>1, <2>4, CallerWaits
    <3>2. Steady(Parent[m], frames[Parent[m]], frames'[Parent[m]])
      BY <2>1, <2>2, <3>1 DEF Reports, Left
    <3> QED
      BY <1>0, <2>1, <2>2, <3>2 DEF Awaited, Steady
  <2> QED
    BY <2>3, <2>4
<1>3. Nested'
  BY <1>0, <1>1, <1>2 DEF Nested
<1>4. OneRun'
  BY <1>0 DEF RunInv, OneRun
<1>5. ASSUME NEW m \in Running \ {n}, frames'[m].at = "discard"
      PROVE  frames'[m].prior # {} \/ Expired(m)' # "none"
  <2>1. frames[m].at = "discard" /\ frames'[m].prior = frames[m].prior /\ frames'[m].outer = frames[m].outer
    BY <1>0, <1>5 DEF Same
  <2>2. Kind(m) = "attempt" /\ m \notin Roots
    BY <1>0, <2>1, TreeAssumption DEF Handler, PhaseOf
  <2>3. Parent[m] \in Running /\ Parent[m] # n
    BY <1>0, <2>2, WithinDef DEF RunInv, Nested, Awaited, Reports, Lone
  <2>4. frames'[Parent[m]].ctx = frames[Parent[m]].ctx
    BY <1>0, <2>3 DEF Same
  <2>5. Expired(m)' = Expired(m)
    BY <2>1, <2>4 DEF Expired, Ctx
  <2> QED
    BY <1>5, <2>1, <2>5 DEF RunInv, Discarded
<1>6. Discarded'
  BY <1>0, <1>5 DEF Discarded
<1> QED
  BY <1>3, <1>4, <1>6

LEMMA FiniteBranches ==
  ASSUME Nested, NEW m
  PROVE  IsFiniteSet(Branches(m)) /\ Cardinality(Branches(m)) \in Nat
<1>1. IsFiniteSet(Branches(m))
  BY FS_Subset, TreeShape DEF Branches, Nested
<1> QED
  BY <1>1, FS_CardinalityType

LEMMA ReportsKeepsRaces ==
  ASSUME RunInv, NEW n, NEW errs, Reports(n, errs)
  PROVE  Raced'
<1> DEFINE p == Parent[n]
<1>0. /\ n \in Nodes \ Roots /\ p \in Running /\ p # n
      /\ Running' = Running \ {n}
      /\ \A m \in Running : m \in Nodes /\ Handler(m, frames[m])
      /\ \A m \in Running \ {n} : frames'[m] \in FrameType /\ Same(frames[m], frames'[m])
      /\ Kind(n) = "branch" <=> Kind(p) = "race"
  BY ReportsBasics
<1>1. ASSUME NEW m \in Running \ {n}, Kind(m) = "race"
      PROVE  frames'[m].count + Len(frames'[m].inbox) + Cardinality(Branches(m)') = Len(Tree[m].main)
  <2>1. frames[m].count + Len(frames[m].inbox) + Cardinality(Branches(m)) = Len(Tree[m].main)
    BY <1>1 DEF RunInv, Raced
  <2>2. frames'[m].count = frames[m].count
    BY <1>0 DEF Same
  <2>3. CASE m # p
    <3>1. Branches(m)' = Branches(m)
      BY <1>0, <2>3 DEF Branches
    <3>2. frames'[m].inbox = frames[m].inbox
      BY <1>0, <2>3 DEF Reports, Left, Steady
    <3> QED
      BY <2>1, <2>2, <3>1, <3>2
  <2>4. CASE m = p
    <3> DEFINE before == Branches(p)
               after == Branches(p)'
               f == frames[p]
               g == frames'[p]
    <3>1. n \in before /\ after = before \ {n}
      BY <1>0, <1>1, <2>4 DEF Branches, Reports
    <3>2. IsFiniteSet(before) /\ Cardinality(before) \in Nat
      BY FiniteBranches DEF RunInv
    <3>3. Len(g.inbox) = Len(f.inbox) + 1 /\ g.count = f.count
      BY <1>0, <1>1, <2>2, <2>4 DEF Reports, Left, Told
    <3>4. f.count \in Nat /\ Len(f.inbox) \in Nat
      BY <1>0, LenProperties DEF Handler, FrameType
    <3>5. f.count + Len(f.inbox) + Cardinality(before) = Len(Tree[p].main)
      BY <2>1, <2>4
    <3> HIDE DEF before, after, f, g
    <3>6. Cardinality(after) = Cardinality(before) - 1
      BY <3>1, <3>2, FS_RemoveElement
    <3>7. g.count + Len(g.inbox) + Cardinality(after) = Len(Tree[p].main)
      <4>1. \A a, b, c \in Nat : a + (b + 1) + (c - 1) = a + b + c
        OBVIOUS
      <4>2. f.count + (Len(f.inbox) + 1) + (Cardinality(before) - 1)
            = f.count + Len(f.inbox) + Cardinality(before)
        BY <3>2, <3>4, <4>1
      <4> QED
        BY <3>3, <3>5, <3>6, <4>2
    <3> QED
      BY <2>4, <3>7 DEF after, g
  <2> QED
    BY <2>3, <2>4
<1> QED
  BY <1>0, <1>1 DEF Raced

(* Where a failure stands: no failure stands below a step that is called,  *)
(* and a handler that runs under none is the deepest over the failures     *)
(* below it.                                                               *)
LEMMA CalledIsClean ==
  ASSUME RunInv, NEW n \in Nodes \ Roots, n \notin Running, Parent[n] \in Running,
         frames[Parent[n]].todo # <<>>, Head(frames[Parent[n]].todo) = n, NEW x \in owed
  PROVE  n \notin Within[x]
<1> DEFINE p == Parent[n]
<1> SUFFICES ASSUME n \in Within[x] PROVE FALSE
  OBVIOUS
<1>1. p \in Nodes /\ p \in Within[n] /\ x \in Nodes /\ Handler(p, frames[p])
  BY WithinDef DEF RunInv, Globals, Nested
<1>2. p \in Within[x] /\ n \in Callees(p) \cap Within[x]
  BY <1>1, WithinTransitive DEF Callees
<1>3. Done(p, frames[p], n)
  BY <1>2 DEF RunInv, Fresh
<1>4. n \in Range(frames[p].todo)
  BY <1>1, TailType DEF Handler, FrameType
<1> QED
  BY <1>3, <1>4 DEF Done

LEMMA LoneIsDeepest ==
  ASSUME RunInv, NEW n \in Running, Lone(n), NEW x \in Nodes, n \in Within[x]
  PROVE  Deepest(x, n) /\ \A a \in Running : Deepest(x, a) => a = n
<1>1. n \in Nodes
  BY DEF RunInv, Nested
<1>2. \A m \in Running \cap Within[x] : m \in Within[n]
  BY <1>1, WithinChain, WithinDef DEF Lone
<1>3. Deepest(x, n)
  BY <1>2 DEF Deepest
<1>4. ASSUME NEW a \in Running, Deepest(x, a) PROVE a = n
  BY <1>4 DEF Deepest, Lone
<1> QED
  BY <1>3, <1>4

LEMMA ReportsKeepsTracking ==
  ASSUME RunInv, NEW n, NEW errs, Reports(n, errs)
  PROVE  Tracked'
<1> DEFINE p == Parent[n]
<1>0. /\ n \in Nodes \ Roots /\ p \in Running /\ p \in Nodes /\ p # n
      /\ Within[n] = {n} \cup Within[p] /\ n \notin Within[p]
      /\ Running' = Running \ {n}
      /\ \A m \in Running : m \in Nodes /\ Handler(m, frames[m])
      /\ \A m \in Running \ {n} : frames'[m] \in FrameType /\ Same(frames[m], frames'[m])
      /\ Kind(n) = "branch" <=> Kind(p) = "race"
  BY ReportsBasics
<1>1. owed \subseteq Nodes /\ owed' \subseteq owed \cup {n} /\ \A x \in owed \ owed' : n \in Within[x]
  BY DEF RunInv, Globals, Reports
<1>2. ASSUME NEW x \in Nodes, NEW a \in Running \ {n}
      PROVE  Deepest(x, a)' <=> a \in Within[x] /\ \A m \in (Running \ {n}) \cap Within[x] : m \in Within[a]
  BY <1>0 DEF Deepest
<1>3. ASSUME NEW x \in owed, NEW a \in Running \ {n}, Deepest(x, a)
      PROVE  n \notin Within[x] /\ x \in owed' /\ Deepest(x, a)'
  <2>1. n \notin Within[x]
    <3>1. CASE n \in Running
      BY <1>1, <1>3, <3>1, LoneIsDeepest DEF Reports
    <3>2. CASE n \notin Running
      BY <1>0, <3>2, CalledIsClean DEF Reports, Awaited
    <3> QED
      BY <3>1, <3>2
  <2>2. Deepest(x, a)'
    BY <1>1, <1>2, <1>3 DEF Deepest
  <2> QED
    BY <1>1, <2>1, <2>2
<1>4. ASSUME NEW x \in owed', NEW a \in Running \ {n}, n \notin Within[x], Deepest(x, a)'
      PROVE  x \in owed /\ Deepest(x, a)
  <2>1. x \in owed
    BY <1>0, <1>1, <1>4
  <2> QED
    BY <1>1, <1>2, <1>4, <2>1 DEF Deepest
<1>5. ASSUME NEW x \in Nodes, NEW a \in Running \ {n}, n \in Within[x]
      PROVE  Deepest(x, a)' <=> a = p
  <2>1. p \in Within[x]
    BY <1>0, <1>5, WithinTransitive, WithinDef
  <2>2. ASSUME NEW m \in (Running \ {n}) \cap Within[x] PROVE m \in Within[p]
    BY <1>0, <1>5, <2>2, WithinChain DEF Reports, Lone
  <2>3. Deepest(x, p)'
    BY <1>0, <1>2, <2>1, <2>2
  <2>4. ASSUME Deepest(x, a)' PROVE a = p
    <3>1. a \in Within[x] /\ p \in Within[a]
      BY <1>0, <1>2, <2>1, <2>4
    <3>2. a \in Within[p]
      BY <2>2, <3>1
    <3> QED
      BY <1>0, <3>1, <3>2, WithinAntisymmetric
  <2> QED
    BY <2>3, <2>4
<1>6. \A x \in owed' : x \in Nodes
  BY <1>0, <1>1
<1>7. ASSUME NEW a \in Running \ {n}, a # p, Kind(a) # "race"
      PROVE  Failing(frames'[a]) <=> \E x \in owed' : Deepest(x, a)'
  <2>1. Failing(frames'[a]) <=> Failing(frames[a])
    BY <1>0, <1>7 DEF Failing, Reports, Left, Steady, Same
  <2>2. Failing(frames[a]) <=> \E x \in owed : Deepest(x, a)
    BY <1>7 DEF RunInv, Tracked
  <2>3. (\E x \in owed' : Deepest(x, a)') <=> \E x \in owed : Deepest(x, a)
    BY <1>3, <1>4, <1>5, <1>6, <1>7
  <2> QED
    BY <2>1, <2>2, <2>3
<1>8. ASSUME Kind(p) # "race"
      PROVE  Failing(frames'[p]) <=> \E x \in owed' : Deepest(x, p)'
  <2> DEFINE f == frames[p]
             g == frames'[p]
             Below == \E x \in owed' : n \in Within[x]
  <2>1. /\ f.at \notin Quiet /\ (f.at = "main" => f.prior = {} /\ f.errors = {})
    BY <1>8, CallerWaits
  <2>2. Same(f, g) /\ g.errors = IF f.at = "main" THEN errs ELSE f.errors \cup errs
    BY <1>0, <1>8 DEF Reports, Left, Told
  <2>3. errs # {} <=> Below
    BY <1>0, <1>8 DEF Reports
  <2>4. Failing(f) <=> \E x \in owed : Deepest(x, p)
    BY <1>0, <1>8 DEF RunInv, Tracked
  <2>5. (\E x \in owed' : Deepest(x, p)') <=> Below \/ \E x \in owed : Deepest(x, p)
    BY <1>0, <1>3, <1>4, <1>5, <1>6
  <2>6. f.at # "retryWait" /\ g.at # "retryWait"
    BY <2>1, <2>2 DEF Quiet, Waits, Same
  <2> HIDE DEF f, g, Below
  <2>7. Failing(g) <=> errs # {} \/ Failing(f)
    BY <2>1, <2>2, <2>6 DEF Failing, Same
  <2> QED
    BY <2>3, <2>4, <2>5, <2>7 DEF g
<1> QED
  BY <1>0, <1>7, <1>8 DEF Tracked

LEMMA ReportsKeepsRest ==
  ASSUME RunInv, NEW n, NEW errs, Reports(n, errs)
  PROVE  Fresh' /\ Attached' /\ Ended'
<1> DEFINE p == Parent[n]
<1>0. /\ n \in Nodes \ Roots /\ p \in Running /\ p \in Nodes /\ p # n
      /\ Within[n] = {n} \cup Within[p] /\ n \notin Within[p]
      /\ Running' = Running \ {n}
      /\ \A m \in Running : m \in Nodes /\ Handler(m, frames[m])
      /\ \A m \in Running \ {n} : frames'[m] \in FrameType /\ Same(frames[m], frames'[m])
      /\ Kind(n) = "branch" <=> Kind(p) = "race"
      /\ result' = "running"
  BY ReportsBasics
<1>1. owed \subseteq Nodes /\ owed' \subseteq owed \cup {n}
  BY DEF RunInv, Globals, Reports
<1>2. Done(p, frames'[p], n)
  <2> DEFINE f == frames[p]
             g == frames'[p]
  <2>1. Same(f, g) /\ Told(n, errs, f, g) /\ Handler(p, f)
    BY <1>0 DEF Reports, Left
  <2>2. n \notin Range(g.todo)
    <3>1. CASE Kind(p) = "race"
      <4>1. g.todo = <<>>
        BY <1>0, <2>1, <3>1, CallerWaits DEF Told
      <4> QED
        BY <4>1 DEF Range
    <3>2. CASE Kind(p) # "race"
      <4>1. f.todo # <<>> /\ Head(f.todo) = n /\ g.todo \in {<<>>, Tail(f.todo)}
        BY <1>0, <2>1, <3>2, CallerWaits DEF Told
      <4>2. n \notin Range(Tail(f.todo))
        BY <2>1, <4>1, TailType DEF Handler, FrameType, CallsOwn
      <4>3. Range(<<>>) = {}
        BY DEF Range
      <4> QED
        BY <4>1, <4>2, <4>3
    <3> QED
      BY <3>1, <3>2
  <2>3. /\ f.at = "main" => n \in Range(Tree[p].main)
        /\ f.at = "catch" => n \in Range(Tree[p].rest) /\ Kind(p) = "try"
    BY CallerWaits
  <2> HIDE DEF f, g
  <2>4. Done(p, g, n)
    BY <2>1, <2>2, <2>3 DEF Done, Same, Bodies
  <2> QED
    BY <2>4 DEF g
<1>3. ASSUME NEW m \in Running \ {n}, NEW c, Done(m, frames[m], c)
      PROVE  Done(m, frames'[m], c)
  <2> DEFINE f == frames[m]
             g == frames'[m]
  <2>1. Range(g.todo) \subseteq Range(f.todo)
    <3>1. CASE m # p
      BY <3>1 DEF Reports, Left, Steady
    <3>2. CASE m = p
      <4>1. Told(n, errs, f, g) /\ Handler(p, f)
        BY <1>0, <3>2 DEF Reports, Left
      <4>2. CASE Kind(p) = "race"
        BY <1>0, <4>1, <4>2 DEF Told
      <4>3. CASE Kind(p) # "race"
        <5>1. f.todo # <<>> /\ g.todo \in {<<>>, Tail(f.todo)}
          BY <1>0, <3>2, <4>1, <4>3, CallerWaits DEF Told
        <5>2. Range(Tail(f.todo)) \subseteq Range(f.todo)
          BY <4>1, <5>1, TailType DEF Handler, FrameType
        <5>3. Range(<<>>) = {}
          BY DEF Range
        <5> QED
          BY <5>1, <5>2, <5>3
      <4> QED
        BY <4>2, <4>3
    <3> QED
      BY <3>1, <3>2
  <2>2. Same(f, g)
    BY <1>0
  <2> HIDE DEF f, g
  <2>3. Done(m, f, c) => Done(m, g, c)
    BY <2>1, <2>2 DEF Done, Same
  <2> QED
    BY <1>3, <2>3 DEF f, g
<1>4. ASSUME NEW m \in Running \ {n}, NEW x \in owed', m \in Within[x],
             NEW c \in Callees(m) \cap Within[x]
      PROVE  c \in Running \ {n} \/ Done(m, frames'[m], c)
  <2>1. c = n => m = p
    BY DEF Callees
  <2>2. CASE x \in owed
    <3>1. c \in Running \/ Done(m, frames[m], c)
      BY <1>4, <2>2 DEF RunInv, Fresh
    <3> QED
      BY <1>2, <1>3, <2>1, <3>1
  <2>3. CASE x \notin owed
    <3>1. x = n
      BY <1>1, <2>3
    <3>2. c # n => c \in Within[p]
      BY <1>0, <1>4, <3>1
    <3>3. Within[p] \subseteq Running
      BY <1>0, WithinRuns DEF RunInv
    <3> QED
      BY <1>2, <2>1, <3>2, <3>3
  <2> QED
    BY <2>2, <2>3
<1>5. Fresh'
  BY <1>0, <1>4 DEF Fresh
<1>6. ASSUME NEW x \in owed' PROVE Within[x] \cap (Running \ {n}) # {}
  <2>1. CASE n \in Within[x]
    <3>1. p \in Within[x]
      BY <1>0, <1>1, <2>1, WithinTransitive, WithinDef
    <3> QED
      BY <1>0, <3>1
  <2>2. CASE n \notin Within[x]
    <3>1. x \in owed
      BY <1>0, <1>1, <2>2, WithinDef
    <3>2. Within[x] \cap Running # {}
      BY <1>0, <3>1 DEF RunInv, Attached, Reports
    <3> QED
      BY <2>2, <3>2
  <2> QED
    BY <2>1, <2>2
<1> QED
  BY <1>0, <1>5, <1>6 DEF Attached, Ended

(* The two promises about a step: only a pass that failed is repeated, and *)
(* a race that is over has stopped its branches and reports what it must.  *)
OnlyFailedRepeats ==
  \A n \in Running \cap DOMAIN frames' :
    Kind(n) = "attempt" /\ frames'[n].count > frames[n].count => frames[n].prior # {}

RacesAreOver ==
  \A n \in Running \ DOMAIN frames' : Kind(n) = "race" =>
    /\ Under[n] \cap DOMAIN frames' = {}
    /\ Under[n] \cap owed' = {} => Ctx(n) = "none" /\ frames[n].errors = {}

Kept == RunInv' /\ OnlyFailedRepeats /\ RacesAreOver

LEMMA UnderIs ==
  ASSUME NEW n \in Nodes, NEW x \in Nodes
  PROVE  x \in Under[n] <=> n \in Within[x]
  BY DEF Under

LEMMA ReportsKept ==
  ASSUME RunInv, NEW n, NEW errs, Reports(n, errs), Globals'
  PROVE  Kept
<1>0. /\ n \in Nodes /\ Running' = Running \ {n} /\ DOMAIN frames' = Running \ {n}
      /\ \A m \in Running : m \in Nodes /\ Handler(m, frames[m])
      /\ \A m \in Running \ {n} : Same(frames[m], frames'[m])
      /\ owed' \subseteq Nodes
  BY ReportsBasics DEF Reports, Left, Globals
<1>1. RunInv'
  BY ReportsKeepsNesting, ReportsKeepsRaces, ReportsKeepsTracking, ReportsKeepsRest DEF RunInv
<1>2. OnlyFailedRepeats
  BY <1>0 DEF OnlyFailedRepeats, Handler, FrameType, Same
<1>3. RacesAreOver
  <2> SUFFICES ASSUME n \in Running, Kind(n) = "race"
               PROVE  /\ Under[n] \cap (Running \ {n}) = {}
                      /\ Under[n] \cap owed' = {} => Ctx(n) = "none" /\ frames[n].errors = {}
    BY <1>0 DEF RacesAreOver
  <2>1. Under[n] \cap (Running \ {n}) = {}
    BY <1>0, UnderIs DEF Reports, Lone
  <2>2. Under[n] \cap owed' = {} => errs = {}
    BY <1>0, UnderIs DEF Reports
  <2> QED
    BY <2>1, <2>2 DEF Reports
<1> QED
  BY <1>1, <1>2, <1>3 DEF Kept

-----------------------------------------------------------------------------
(* Steps of one kind: a handler under which nothing runs enters another    *)
(* phase, or releases a resource.                                          *)
Changes(n) ==
  LET f == frames[n]
      g == frames'[n]
  IN /\ n \in Running /\ Kind(n) # "race" /\ Lone(n)
     /\ DOMAIN frames' = Running /\ \A m \in Running \ {n} : frames'[m] = frames[m]
     /\ Handler(n, g)
     /\ g.at = "discard" => g.prior # {} \/ Ctx(n) # "none" \/ g.outer # "none"
     /\ Kind(n) = "attempt" /\ g.count > f.count => f.prior # {}
     /\ owed' \subseteq Nodes /\ \A x \in (owed \ owed') \cup (owed' \ owed) : n \in Within[x]
     /\ Failing(g) <=> \E x \in owed' : n \in Within[x]
     /\ \A x \in owed', c \in Callees(n) : c \in Within[x] => Done(n, g, c)
     /\ result' = result

LEMMA ChangesKept ==
  ASSUME RunInv, NEW n, Changes(n), Globals'
  PROVE  Kept
<1>0. /\ n \in Nodes /\ n \in Running /\ Kind(n) # "race" /\ Lone(n)
      /\ Running' = Running /\ DOMAIN frames' = Running /\ result' = "running"
      /\ \A m \in Running \ {n} : frames'[m] = frames[m]
      /\ \A m \in Running : m \in Nodes /\ Handler(m, frames[m]) /\ Handler(m, frames'[m])
      /\ \A m \in Running \ Roots : Parent[m] \in Running /\ Parent[m] # n
      /\ owed \subseteq Nodes /\ owed' \subseteq Nodes
      /\ \A x \in (owed \ owed') \cup (owed' \ owed) : n \in Within[x]
  <2>1. n \in Running /\ Kind(n) # "race" /\ Lone(n) /\ DOMAIN frames' = Running /\ result' = result
        /\ \A m \in Running \ {n} : frames'[m] = frames[m]
    BY DEF Changes
  <2>2. \A m \in Running : m \in Nodes /\ Handler(m, frames[m]) /\ Handler(m, frames'[m])
    BY <2>1 DEF RunInv, Nested, Changes
  <2>3. \A m \in Running \ Roots : Parent[m] \in Running /\ Parent[m] # n
    BY <2>1, <2>2, WithinDef DEF RunInv, Nested, Awaited, Lone
  <2>4. result = "running" /\ Running' = Running
    BY <2>1 DEF RunInv, Ended, Running
  <2> QED
    BY <2>1, <2>2, <2>3, <2>4 DEF RunInv, Globals, Changes
<1>1. Nested'
  <2>1. ASSUME NEW m \in Running \ Roots PROVE Awaited(m)'
    BY <1>0 DEF RunInv, Nested, Awaited
  <2> QED
    BY <1>0, <2>1 DEF Nested
<1>2. OneRun'
  BY <1>0 DEF RunInv, OneRun
<1>3. Raced'
  <2>1. \A m \in Running : Branches(m)' = Branches(m)
    BY <1>0 DEF Branches
  <2> QED
    BY <1>0, <2>1 DEF RunInv, Raced
<1>4. Discarded'
  <2> SUFFICES ASSUME NEW m \in Running, frames'[m].at = "discard"
               PROVE  frames'[m].prior # {} \/ Expired(m)' # "none"
    BY <1>0 DEF Discarded
  <2>1. m \in Running \ Roots
    BY <1>0, TreeAssumption DEF Handler, PhaseOf
  <2>2. Ctx(m)' = Ctx(m)
    BY <1>0, <2>1 DEF Ctx
  <2>3. CASE m = n
    BY <2>2, <2>3 DEF Changes, Expired
  <2>4. CASE m # n
    <3>1. frames'[m] = frames[m]
      BY <1>0, <2>4
    <3>2. Expired(m)' = Expired(m)
      BY <2>2, <3>1 DEF Expired
    <3> QED
      BY <3>1, <3>2 DEF RunInv, Discarded
  <2> QED
    BY <2>3, <2>4
<1>5. \A x \in Nodes, a \in Running : Deepest(x, a)' <=> Deepest(x, a)
  BY <1>0 DEF Deepest
<1>6. \A x \in Nodes, a \in Running : n \in Within[x] => (Deepest(x, a) <=> a = n)
  BY <1>0, LoneIsDeepest
<1>7. Tracked'
  <2> SUFFICES ASSUME NEW a \in Running, Kind(a) # "race"
               PROVE  Failing(frames'[a]) <=> \E x \in owed' : Deepest(x, a)
    BY <1>0, <1>5 DEF Tracked
  <2>1. CASE a = n
    <3>1. \A x \in owed' : Deepest(x, n) <=> n \in Within[x]
      BY <1>0, <1>6 DEF Deepest
    <3> QED
      BY <2>1, <3>1 DEF Changes
  <2>2. CASE a # n
    <3>1. (\E x \in owed' : Deepest(x, a)) <=> \E x \in owed : Deepest(x, a)
      BY <1>0, <1>6, <2>2
    <3> QED
      BY <1>0, <2>2, <3>1 DEF RunInv, Tracked
  <2> QED
    BY <2>1, <2>2
<1>8. ASSUME NEW m \in Running, NEW x \in owed', m \in Within[x], NEW c \in Callees(m) \cap Within[x]
      PROVE  c \in Running \/ Done(m, frames'[m], c)
  <2>1. CASE m = n
    BY <1>8, <2>1 DEF Changes
  <2>2. CASE m # n /\ x \in owed
    BY <1>0, <1>8, <2>2 DEF RunInv, Fresh
  <2>3. CASE m # n /\ x \notin owed
    <3>1. n \in Within[x] /\ m \in Within[n]
      BY <1>0, <1>8, <2>3, WithinChain DEF Lone
    <3>2. PICK d \in Callees(m) : d \in Within[n]
      BY <1>0, <2>3, <3>1, PathDown
    <3>3. d \in Within[x]
      BY <1>0, <3>1, <3>2, WithinTransitive
    <3>4. d = c
      BY <1>0, <1>8, <3>2, <3>3, PathIsOne
    <3>5. Within[n] \subseteq Running
      BY <1>0, WithinRuns DEF RunInv
    <3> QED
      BY <3>2, <3>4, <3>5
  <2> QED
    BY <2>1, <2>2, <2>3
<1>9. Fresh'
  BY <1>0, <1>8 DEF Fresh
<1>10. Attached'
  <2> SUFFICES ASSUME NEW x \in owed' PROVE Within[x] \cap Running # {}
    BY <1>0 DEF Attached
  <2>1. CASE x \in owed
    BY <1>0, <2>1 DEF RunInv, Attached, Ended
  <2>2. CASE x \notin owed
    BY <1>0, <2>2
  <2> QED
    BY <2>1, <2>2
<1>11. Ended'
  BY <1>0 DEF Ended
<1>12. OnlyFailedRepeats
  <2> SUFFICES ASSUME NEW m \in Running, Kind(m) = "attempt", frames'[m].count > frames[m].count
               PROVE  frames[m].prior # {}
    BY <1>0 DEF OnlyFailedRepeats
  <2>1. CASE m = n
    BY <2>1 DEF Changes
  <2>2. CASE m # n
    <3>1. frames'[m] = frames[m] /\ frames[m].count \in Nat
      BY <1>0, <2>2 DEF Handler, FrameType
    <3> QED
      BY <3>1
  <2> QED
    BY <2>1, <2>2
<1>13. RacesAreOver
  BY <1>0 DEF RacesAreOver
<1> QED
  BY <1>1, <1>2, <1>3, <1>4, <1>7, <1>9, <1>10, <1>11, <1>12, <1>13 DEF Kept, RunInv

-----------------------------------------------------------------------------
(* Steps of one kind: a context ends, or a race reads a completion.        *)
Worsens ==
  /\ DOMAIN frames' = Running
  /\ \A m \in Running :
       LET f == frames[m]
           g == frames'[m]
       IN /\ g \in FrameType /\ g.at = f.at /\ g.todo = f.todo /\ g.prior = f.prior
          /\ g.held = f.held
          /\ f.ctx # "none" => g.ctx # "none"
          /\ f.outer # "none" => g.outer # "none"
          /\ IF Kind(m) = "race" THEN g.count + Len(g.inbox) = f.count + Len(f.inbox)
             ELSE g.count = f.count /\ g.errors = f.errors
  /\ UNCHANGED <<owed, result>>

LEMMA WorsensKept ==
  ASSUME RunInv, Worsens, Globals'
  PROVE  Kept
<1>0. /\ Running' = Running /\ DOMAIN frames' = Running /\ owed' = owed /\ result' = result
      /\ \A m \in Running : m \in Nodes /\ Handler(m, frames[m])
      /\ owed \subseteq Nodes
  BY DEF Worsens, Running, RunInv, Nested, Globals
<1>1. ASSUME NEW m \in Running
      PROVE  /\ frames'[m] \in FrameType /\ frames'[m].at = frames[m].at
             /\ frames'[m].todo = frames[m].todo /\ frames'[m].prior = frames[m].prior
             /\ frames'[m].held = frames[m].held
             /\ frames[m].ctx # "none" => frames'[m].ctx # "none"
             /\ frames[m].outer # "none" => frames'[m].outer # "none"
             /\ Kind(m) = "race" => frames'[m].count + Len(frames'[m].inbox)
                                    = frames[m].count + Len(frames[m].inbox)
             /\ Kind(m) # "race" => frames'[m].count = frames[m].count
                                    /\ frames'[m].errors = frames[m].errors
  BY DEF Worsens
<1>2. ASSUME NEW m \in Running PROVE Handler(m, frames'[m])
  <2> DEFINE f == frames[m]
             g == frames'[m]
  <2>1. /\ Handler(m, f) /\ g \in FrameType /\ g.at = f.at /\ g.todo = f.todo
        /\ g.prior = f.prior /\ g.held = f.held
        /\ Kind(m) # "race" => g.count = f.count /\ g.errors = f.errors
    BY <1>0, <1>1
  <2> HIDE DEF f, g
  <2>2. CallsOwn(m, g)
    BY <2>1 DEF Handler, CallsOwn
  <2>3. PhaseOf(m, g)
    BY <2>1 DEF Handler, PhaseOf, Waits
  <2>4. Accounts(m, g)
    <3>1. CASE Kind(m) # "race"
      BY <2>1, <3>1 DEF Handler, Accounts
    <3>2. CASE Kind(m) = "race"
      <4>1. f.at = "main" /\ f.todo = <<>>
        BY <2>1, <3>2 DEF Handler, FrameType, Labels, Quiet, Releasing, PhaseOf, OwnsDefers, CallsOwn
      <4> QED
        BY <2>1, <3>2, <4>1 DEF Handler, Accounts
    <3> QED
      BY <3>1, <3>2
  <2>5. Handler(m, g)
    BY <2>1, <2>2, <2>3, <2>4 DEF Handler
  <2> QED
    BY <2>5 DEF g
<1>3. Nested'
  <2>1. ASSUME NEW m \in Running \ Roots PROVE Awaited(m)'
    <3>1. Parent[m] \in Running /\ frames'[Parent[m]].todo = frames[Parent[m]].todo
      BY <1>1 DEF RunInv, Nested, Awaited
    <3> QED
      BY <1>0, <3>1 DEF RunInv, Nested, Awaited
  <2> QED
    BY <1>0, <1>2, <2>1 DEF Nested
<1>4. OneRun'
  BY <1>0 DEF RunInv, OneRun
<1>5. Raced'
  <2>1. \A m \in Running : Branches(m)' = Branches(m)
    BY <1>0 DEF Branches
  <2> QED
    BY <1>0, <1>1, <2>1 DEF RunInv, Raced
<1>6. Discarded'
  <2> SUFFICES ASSUME NEW m \in Running, frames'[m].at = "discard"
               PROVE  frames'[m].prior # {} \/ Expired(m)' # "none"
    BY <1>0 DEF Discarded
  <2>1. frames[m].at = "discard" /\ frames'[m].prior = frames[m].prior
        /\ (frames[m].outer # "none" => frames'[m].outer # "none")
    BY <1>1
  <2>2. m \in Running \ Roots
    BY <1>0, <2>1, TreeAssumption DEF Handler, PhaseOf
  <2>3. Parent[m] \in Running
    BY <2>2 DEF RunInv, Nested, Awaited
  <2>4. frames[Parent[m]].ctx # "none" => frames'[Parent[m]].ctx # "none"
    BY <1>1, <2>3
  <2>5. Expired(m) # "none" => Expired(m)' # "none"
    BY <2>1, <2>4 DEF Expired, Ctx
  <2> QED
    BY <2>1, <2>5 DEF RunInv, Discarded
<1>7. \A x \in Nodes, a \in Running : Deepest(x, a)' <=> Deepest(x, a)
  BY <1>0 DEF Deepest
<1>8. Tracked'
  <2> SUFFICES ASSUME NEW a \in Running, Kind(a) # "race"
               PROVE  Failing(frames'[a]) <=> \E x \in owed : Deepest(x, a)
    BY <1>0, <1>7 DEF Tracked
  <2>1. Failing(frames'[a]) <=> Failing(frames[a])
    BY <1>1 DEF Failing
  <2> QED
    BY <2>1 DEF RunInv, Tracked
<1>9. Fresh'
  <2>1. \A m \in Running, c \in Nodes : Done(m, frames[m], c) => Done(m, frames'[m], c)
    BY <1>1 DEF Done
  <2> QED
    BY <1>0, <2>1 DEF RunInv, Fresh, Callees
<1>10. Attached' /\ Ended'
  BY <1>0 DEF RunInv, Attached, Ended
<1>11. OnlyFailedRepeats
  <2> SUFFICES ASSUME NEW m \in Running, Kind(m) = "attempt", frames'[m].count > frames[m].count
               PROVE  FALSE
    BY <1>0 DEF OnlyFailedRepeats
  <2>1. frames'[m].count = frames[m].count /\ frames[m].count \in Nat
    BY <1>0, <1>1 DEF Handler, FrameType
  <2> QED
    BY <2>1
<1>12. RacesAreOver
  BY <1>0 DEF RacesAreOver
<1> QED
  BY <1>3, <1>4, <1>5, <1>6, <1>8, <1>9, <1>10, <1>11, <1>12 DEF Kept, RunInv

-----------------------------------------------------------------------------
(* The run is the last handler, and it ends: what it reports is what it    *)
(* owes.                                                                   *)
LEMMA RunIsLast ==
  ASSUME RunInv, NEW n \in Running, n \in Roots, Lone(n)
  PROVE  Running = {n}
<1>1. ASSUME NEW m \in Running PROVE m = n
  <2>1. m \in Nodes /\ Within[m] \subseteq Running
    BY WithinRuns DEF RunInv, Nested
  <2>2. PICK r \in Roots : r \in Within[m]
    BY <2>1, RootOf
  <2>3. r = n
    BY <2>1, <2>2 DEF RunInv, OneRun
  <2> QED
    BY <2>2, <2>3 DEF Lone
<1> QED
  BY <1>1

LEMMA RunEndsKept ==
  ASSUME RunInv, NEW n \in Running, RunEnds(n), Globals'
  PROVE  Kept
<1> DEFINE f == frames[n]
<1>1. /\ f.at \in Releasing /\ Kind(n) = "run" /\ frames' = <<>> /\ owed' = owed
      /\ result' = IF f.prior \cup f.errors = {} THEN "succeeded" ELSE "failed"
  BY DEF RunEnds, Released, history
<1>2. n \in Nodes /\ n \in Roots /\ Handler(n, f)
  BY <1>1, TreeAssumption DEF RunInv, Nested
<1>3. f.todo = <<>>
  BY <1>1, <1>2 DEF Handler, CallsOwn, Quiet
<1>4. Lone(n)
  BY <1>1, <1>3, QuietIsLone DEF RunInv
<1>6. Running = {n}
  BY <1>2, <1>4, RunIsLast
<1>7. DOMAIN frames' = {} /\ Running' = {}
  BY <1>1 DEF Running
<1>8. result = "running" /\ owed \subseteq Nodes
  BY DEF RunInv, Ended, Globals
<1>9. \A x \in owed : Deepest(x, n)
  <2> SUFFICES ASSUME NEW x \in owed PROVE Deepest(x, n)
    OBVIOUS
  <2>1. n \in Within[x]
    BY <1>6, <1>8 DEF RunInv, Attached
  <2> QED
    BY <1>4, <1>8, <2>1, LoneIsDeepest
<1>10. f.prior \cup f.errors # {} <=> owed # {}
  <2>1. Failing(f) <=> \E x \in owed : Deepest(x, n)
    BY <1>1 DEF RunInv, Tracked
  <2>2. f.at # "retryWait"
    BY <1>1 DEF Releasing
  <2> QED
    BY <1>9, <2>1, <2>2 DEF Failing
<1>11. Ended' /\ Attached'
  BY <1>1, <1>7, <1>10 DEF Ended, Attached
<1>12. Nested' /\ OneRun' /\ Raced' /\ Discarded' /\ Tracked' /\ Fresh'
  BY <1>7 DEF Nested, OneRun, Raced, Discarded, Tracked, Fresh
<1>13. OnlyFailedRepeats /\ RacesAreOver
  BY <1>1, <1>6, <1>7 DEF OnlyFailedRepeats, RacesAreOver
<1> QED
  BY <1>11, <1>12, <1>13 DEF Kept, RunInv

-----------------------------------------------------------------------------
(* A handler that is called.                                               *)
LEMMA CalledIs ==
  ASSUME RunInv, NEW n \in Called
  PROVE  /\ n \in Nodes \ Roots /\ n \notin Running /\ Awaited(n) /\ Lone(n)
         /\ Parent[n] \in Running /\ Kind(Parent[n]) # "race" /\ Kind(n) # "branch"
         /\ frames[Parent[n]].todo # <<>> /\ Head(frames[Parent[n]].todo) = n
         /\ result = "running"
         /\ \A x \in owed : n \notin Within[x]
<1>1. n \notin Running
  BY DEF Called
<1>2. PICK p \in Running : frames[p].todo # <<>> /\ n = Head(frames[p].todo)
  BY DEF Called
<1>3. p \in Nodes /\ Handler(p, frames[p])
  BY DEF RunInv, Nested
<1>4. Kind(p) # "race"
  BY <1>2, <1>3 DEF Handler, CallsOwn
<1>5. n \in Range(frames[p].todo)
  BY <1>2, <1>3, TailType DEF Handler, FrameType
<1>6. n \in Nodes \ Roots /\ Parent[n] = p
  BY <1>3, <1>5 DEF Handler, CallsOwn, Callees
<1>7. Kind(n) # "branch"
  BY <1>4, <1>6, BranchCaller
<1>8. Lone(n)
  BY <1>1, WithinRuns DEF Lone, RunInv
<1>9. result = "running"
  BY <1>2 DEF RunInv, Ended
<1>10. \A x \in owed : n \notin Within[x]
  BY <1>1, <1>2, <1>6, CalledIsClean
<1> QED
  BY <1>1, <1>2, <1>4, <1>6, <1>7, <1>8, <1>9, <1>10 DEF Awaited

LEMMA EmptyList ==
  Range(<<>>) = {} /\ IsInjective(<<>>) /\ Len(<<>>) = 0 /\ \A S : <<>> \in Seq(S)
  BY DEF Range, IsInjective

(* A fresh frame is that of a handler.                                     *)
LEMMA FrameIsHandler ==
  ASSUME NEW n \in Nodes, NEW ctx \in ContextErrors, NEW count \in Nat, count <= Tree[n].max,
         Kind(n) # "race", NEW f,
         \/ f = Frame(n, ctx)
         \/ f = [Frame(n, ctx) EXCEPT !.count = count]
  PROVE  Handler(n, f) /\ ~Failing(f) /\ f.at = "main"
<1> DEFINE list == Tree[n].main
<1>1. list \in Seq(Nodes) /\ Range(list) \subseteq Callees(n) /\ IsInjective(list)
  <2>1. Tree[n].main \in Seq(Nodes \ Roots) /\ Range(Tree[n].main) \subseteq Callees(n)
    BY ChildrenAreSteps, BodiesAreCallees
  <2>2. Range(Tree[n].main) \subseteq Nodes
    BY <2>1 DEF Callees
  <2> QED
    BY <2>1, <2>2, SubSequence, PartsDistinct
<1>2. <<>> \in Seq(Nodes) /\ <<>> \in Seq(Items) /\ Range(<<>>) = {}
  BY EmptyList
<1>3. Tree[n].max \in Nat \ {0}
  BY TreeAssumption
<1>4. Frame(n, ctx) =
        [at |-> "main", todo |-> list, errors |-> {}, prior |-> {}, worked |-> FALSE,
         ctx |-> ctx, outer |-> ctx, count |-> 1, held |-> <<>>, kept |-> FALSE,
         inbox |-> <<>>, winner |-> NoNode, commits |-> <<>>, ran |-> <<>>]
  BY DEF Frame
<1>5. "main" \in Labels /\ {} \in SUBSET Errors /\ NoNode \in Nodes \cup {NoNode} /\ 1 \in Nat
  BY DEF Labels
<1>6. Kind(n) \in {"step", "return"} => list = <<>>
  BY TreeShape
<1> HIDE DEF list
<1>7. /\ Frame(n, ctx) \in FrameType /\ Frame(n, ctx).at = "main" /\ Frame(n, ctx).todo = list
      /\ Frame(n, ctx).errors = {} /\ Frame(n, ctx).prior = {} /\ Frame(n, ctx).count = 1
      /\ Frame(n, ctx).held = <<>>
  BY <1>1, <1>2, <1>4, <1>5 DEF FrameType
<1>8. /\ f \in FrameType /\ f.at = "main" /\ f.todo = list /\ f.errors = {} /\ f.prior = {}
      /\ f.count \in {1, count} /\ f.held = <<>>
  <2> DEFINE g == Frame(n, ctx)
  <2>1. /\ g \in FrameType /\ g.at = "main" /\ g.todo = list /\ g.errors = {} /\ g.prior = {}
        /\ g.count = 1 /\ g.held = <<>> /\ (f = g \/ f = [g EXCEPT !.count = count])
    BY <1>7
  <2> HIDE DEF g
  <2>2. CASE f = g
    BY <2>1, <2>2
  <2>3. CASE f = [g EXCEPT !.count = count]
    BY <2>1, <2>3 DEF FrameType
  <2> QED
    BY <2>1, <2>2, <2>3
<1>9. f.count <= Tree[n].max
  BY <1>3, <1>8
<1>10. Handler(n, f)
  BY <1>1, <1>2, <1>6, <1>8, <1>9 DEF Handler, CallsOwn, PhaseOf, Accounts, Quiet, Releasing, Waits, list
<1> QED
  BY <1>8, <1>10 DEF Failing

LEMMA LengthOfInjective ==
  ASSUME NEW S, NEW q \in Seq(S), IsInjective(q)
  PROVE  Cardinality(Range(q)) = Len(q) /\ Len(q) \in Nat
<1>1. Len(q) \in Nat /\ DOMAIN q = 1..Len(q) /\ q \in [1..Len(q) -> S]
  BY LenProperties
<1>2. q \in Bijection(1..Len(q), Range(q))
  BY <1>1 DEF Bijection, Injection, Surjection, IsInjective, Range
<1>3. ExistsBijection(1..Len(q), Range(q))
  BY <1>2 DEF ExistsBijection
<1> QED
  BY <1>1, <1>3, FS_CountingElements

LEMMA StartsKept ==
  ASSUME RunInv, NEW n \in Called, Starts(n), Globals'
  PROVE  Kept
<1> DEFINE p == Parent[n]
           own == Frame(n, Ctx(n))
           racing == [own EXCEPT !.todo = <<>>, !.count = 0]
           New == {n} \cup (IF Kind(n) = "race" THEN Range(Tree[n].main) ELSE {})
           Fresher(m) == IF m = n THEN (IF Kind(n) = "race" THEN racing ELSE own)
                         ELSE Frame(m, Ctx(n))
<1>0. /\ n \in Nodes \ Roots /\ n \notin Running /\ Awaited(n)
      /\ p \in Running /\ Kind(p) # "race" /\ Kind(n) # "branch"
      /\ result = "running" /\ \A x \in owed : n \notin Within[x]
      /\ Ctx(n) = "none" /\ owed' = owed /\ result' = result
      /\ owed \subseteq Nodes
      /\ \A m \in Running : m \in Nodes /\ Handler(m, frames[m])
  BY CalledIs DEF Starts, history, RunInv, Globals, Nested
<1>1. \A b \in Range(Tree[n].main) : b \in Nodes \ Roots /\ Parent[b] = n /\ b \notin Running /\ b # n
  BY <1>0, ParentOfPart, WithinDef DEF RunInv, Nested, Awaited
<1>2. /\ DOMAIN frames' = Running \cup New /\ \A m \in Running : frames'[m] = frames[m]
      /\ \A m \in New : frames'[m] = Fresher(m)
  <2>1. frames' = [m \in Running \cup New |-> IF m \in Running THEN frames[m] ELSE Fresher(m)]
    BY DEF Starts
  <2>2. \A m \in New : m \notin Running
    BY <1>0, <1>1
  <2> HIDE DEF New, Fresher
  <2> QED
    BY <2>1, <2>2
<1>3. Running' = Running \cup New
  BY <1>2 DEF Running
<1>4. \A m \in New : m \in Nodes \ Roots /\ m \notin Running /\ (m # n => Kind(n) = "race" /\ Parent[m] = n)
  BY <1>0, <1>1
<1>5. ASSUME NEW m \in New, Kind(m) # "race" PROVE Handler(m, frames'[m]) /\ ~Failing(frames'[m])
  <2>1. frames'[m] = Frame(m, "none")
    BY <1>0, <1>2, <1>5
  <2>2. m \in Nodes /\ Tree[m].max \in Nat \ {0}
    BY <1>4, TreeAssumption
  <2>3. 1 \in Nat /\ 1 <= Tree[m].max /\ "none" \in ContextErrors
    BY <2>2 DEF ContextErrors
  <2> QED
    BY <1>5, <2>1, <2>2, <2>3, FrameIsHandler
<1>6. ASSUME Kind(n) = "race"
      PROVE  Handler(n, frames'[n]) /\ frames'[n].count = 0 /\ frames'[n].inbox = <<>>
             /\ frames'[n].at = "main" /\ \A b \in Range(Tree[n].main) : Kind(b) = "branch"
  <2>1. frames'[n] = [Frame(n, "none") EXCEPT !.todo = <<>>, !.count = 0]
    BY <1>0, <1>2, <1>6
  <2> DEFINE f == frames'[n]
  <2>2. <<>> \in Seq(Nodes) /\ <<>> \in Seq(Items) /\ Range(<<>>) = {} /\ IsInjective(<<>>)
    BY EmptyList
  <2>3. /\ f.at = "main" /\ f.todo = <<>> /\ f.errors = {} /\ f.prior = {}
        /\ f.count = 0 /\ f.held = <<>> /\ f.inbox = <<>> /\ f \in FrameType
    <3>1. f = [at |-> "main", todo |-> <<>>, errors |-> {}, prior |-> {}, worked |-> FALSE,
               ctx |-> "none", outer |-> "none", count |-> 0, held |-> <<>>, kept |-> FALSE,
               inbox |-> <<>>, winner |-> NoNode, commits |-> <<>>, ran |-> <<>>]
      BY <2>1, ZenonT(60) DEF Frame
    <3>2. "none" \in ContextErrors /\ "main" \in Labels /\ {} \in SUBSET Errors /\ NoNode \in Nodes \cup {NoNode}
      BY DEF ContextErrors, Labels
    <3> HIDE DEF f
    <3> QED
      BY <2>2, <3>1, <3>2 DEF FrameType
  <2>4. Handler(n, f)
    <3> HIDE DEF f
    <3> QED
      BY <1>6, <2>2, <2>3 DEF Handler, CallsOwn, PhaseOf, Accounts, Quiet, Releasing, Waits
  <2>5. \A b \in Range(Tree[n].main) : Kind(b) = "branch"
    BY <1>1, <1>6, BranchCaller
  <2> QED
    BY <2>3, <2>4, <2>5
<1> HIDE DEF own, racing, Fresher
<1>7. ASSUME NEW x \in Nodes, NEW m \in New, m \in Within[x] PROVE x \notin owed
  <2>1. n \in Within[m]
    BY <1>4, WithinDef
  <2>2. n \in Within[x]
    BY <1>7, <2>1, WithinTransitive
  <2> QED
    BY <1>0, <2>2
<1>8. Nested'
  <2>1. \A m \in Running \cup New : m \in Nodes /\ Handler(m, frames'[m])
    BY <1>0, <1>2, <1>4, <1>5, <1>6
  <2>2. ASSUME NEW m \in Running \cup New, m \notin Roots PROVE Awaited(m)'
    <3>1. CASE m \in Running
      <4>1. Awaited(m) /\ Parent[m] \in Running
        BY <2>2, <3>1 DEF RunInv, Nested, Awaited
      <4> QED
        BY <1>2, <1>3, <4>1 DEF Awaited
    <3>2. CASE m = n
      BY <1>0, <1>2, <1>3, <3>2 DEF Awaited
    <3>3. CASE m \in New /\ m # n
      BY <1>3, <1>4, <3>3 DEF Awaited
    <3> QED
      BY <3>1, <3>2, <3>3
  <2> QED
    BY <1>3, <2>1, <2>2 DEF Nested
<1>9. OneRun'
  BY <1>3, <1>4 DEF RunInv, OneRun
<1>10. Raced'
  <2>1. ASSUME NEW m \in Running, Kind(m) = "race"
        PROVE  frames'[m].count + Len(frames'[m].inbox) + Cardinality(Branches(m)') = Len(Tree[m].main)
    <3>1. Branches(m)' = Branches(m)
      BY <1>0, <1>3, <1>4, <2>1 DEF Branches
    <3> QED
      BY <1>2, <2>1, <3>1 DEF RunInv, Raced
  <2>2. ASSUME NEW m \in New, Kind(m) = "race"
        PROVE  frames'[m].count + Len(frames'[m].inbox) + Cardinality(Branches(m)') = Len(Tree[m].main)
    <3>1. m = n
      BY <1>4, <1>6, <2>2
    <3>2. Branches(n)' = Range(Tree[n].main)
      <4>1. \A b \in Running \ Roots : Parent[b] # n
        BY <1>0 DEF RunInv, Nested, Awaited
      <4>2. Parent[n] # n
        BY <1>0
      <4> QED
        BY <1>1, <1>3, <2>2, <3>1, <4>1, <4>2 DEF Branches
    <3>3. Cardinality(Range(Tree[n].main)) = Len(Tree[n].main) /\ Len(Tree[n].main) \in Nat
      BY <1>0, ChildrenAreSteps, PartsDistinct, LengthOfInjective
    <3>4. frames'[n].count = 0 /\ Len(frames'[n].inbox) = 0
      BY <1>6, <2>2, <3>1, EmptyList
    <3> QED
      BY <3>1, <3>2, <3>3, <3>4
  <2> QED
    BY <1>3, <2>1, <2>2 DEF Raced
<1>11. Discarded'
  <2> SUFFICES ASSUME NEW m \in Running \cup New, frames'[m].at = "discard"
               PROVE  frames'[m].prior # {} \/ Expired(m)' # "none"
    BY <1>3 DEF Discarded
  <2>1. m \in Running
    <3>1. CASE m \in New /\ Kind(m) = "race"
      BY <1>4, <1>6, <3>1
    <3>2. CASE m \in New /\ Kind(m) # "race"
      BY <1>5, <3>2 DEF Handler, Accounts, Failing
    <3> QED
      BY <3>1, <3>2
  <2>2. frames'[m] = frames[m] /\ Handler(m, frames[m])
    BY <1>0, <1>2, <2>1
  <2>3. m \in Running \ Roots
    BY <1>0, <2>1, <2>2, TreeAssumption DEF Handler, PhaseOf
  <2>4. Parent[m] \in Running
    BY <2>3 DEF RunInv, Nested, Awaited
  <2>5. Expired(m)' = Expired(m)
    BY <1>2, <2>2, <2>4 DEF Expired, Ctx
  <2> QED
    BY <2>1, <2>2, <2>5 DEF RunInv, Discarded
<1>12. ASSUME NEW x \in owed, NEW a \in Running PROVE Deepest(x, a)' <=> Deepest(x, a)
  BY <1>0, <1>3, <1>7 DEF Deepest
<1>13. Tracked'
  <2> SUFFICES ASSUME NEW a \in Running \cup New, Kind(a) # "race"
               PROVE  Failing(frames'[a]) <=> \E x \in owed : Deepest(x, a)'
    BY <1>0, <1>3 DEF Tracked
  <2>1. CASE a \in Running
    BY <1>2, <1>12, <2>1 DEF RunInv, Tracked
  <2>2. CASE a \in New
    BY <1>0, <1>5, <1>7, <2>2 DEF Deepest
  <2> QED
    BY <2>1, <2>2
<1>14. Fresh'
  <2> SUFFICES ASSUME NEW m \in Running \cup New, NEW x \in owed, m \in Within[x],
                      NEW c \in Callees(m) \cap Within[x]
               PROVE  c \in Running \/ Done(m, frames'[m], c)
    BY <1>0, <1>3 DEF Fresh
  <2>1. m \in Running
    BY <1>0, <1>7
  <2> QED
    BY <1>2, <2>1 DEF RunInv, Fresh
<1>15. Attached' /\ Ended'
  BY <1>0, <1>3 DEF RunInv, Attached, Ended
<1>16. OnlyFailedRepeats
  <2> SUFFICES ASSUME NEW m \in Running, frames'[m].count > frames[m].count
               PROVE  FALSE
    BY DEF OnlyFailedRepeats
  <2>1. frames'[m].count = frames[m].count /\ frames[m].count \in Nat
    BY <1>0, <1>2 DEF Handler, FrameType
  <2> QED
    BY <2>1
<1>17. RacesAreOver
  BY <1>2 DEF RacesAreOver
<1> QED
  BY <1>8, <1>9, <1>10, <1>11, <1>13, <1>14, <1>15, <1>16, <1>17 DEF Kept, RunInv

-----------------------------------------------------------------------------
(* The actions.  What is known of a handler that takes a step.             *)
Answers(n) == \E x \in owed : n \in Within[x]

LEMMA RunningIs ==
  ASSUME RunInv, NEW n \in Running
  PROVE  /\ n \in Nodes /\ Handler(n, frames[n]) /\ frames[n] \in FrameType /\ n \in Within[n]
         /\ result = "running" /\ (n \in Roots <=> Kind(n) = "run")
         /\ n \notin Roots => /\ Awaited(n) /\ Parent[n] \in Running
                              /\ Ctx(n) \in ContextErrors /\ Expired(n) \in ContextErrors
<1>1. n \in Nodes /\ Handler(n, frames[n]) /\ frames[n] \in FrameType /\ n \in Within[n]
  BY WithinDef DEF RunInv, Nested, Handler
<1>2. result = "running"
  BY DEF RunInv, Ended
<1>3. n \in Roots <=> Kind(n) = "run"
  BY <1>1, TreeAssumption
<1>4. ASSUME n \notin Roots
      PROVE  /\ Awaited(n) /\ Parent[n] \in Running
             /\ Ctx(n) \in ContextErrors /\ Expired(n) \in ContextErrors
  <2>1. Awaited(n) /\ Parent[n] \in Running
    BY <1>4 DEF RunInv, Nested, Awaited
  <2>2. frames[Parent[n]] \in FrameType
    BY <2>1 DEF RunInv, Nested, Handler
  <2> QED
    BY <1>1, <2>1, <2>2 DEF Ctx, Expired, FrameType
<1> QED
  BY <1>1, <1>2, <1>3, <1>4

LEMMA LoneAnswers ==
  ASSUME RunInv, NEW n \in Running, Lone(n), Kind(n) # "race"
  PROVE  Failing(frames[n]) <=> Answers(n)
<1>1. owed \subseteq Nodes /\ (Failing(frames[n]) <=> \E x \in owed : Deepest(x, n))
  BY DEF RunInv, Globals, Tracked
<1>2. \A x \in owed : n \in Within[x] <=> Deepest(x, n)
  BY <1>1, LoneIsDeepest DEF Deepest
<1> QED
  BY <1>1, <1>2 DEF Answers

LEMMA SteadyItself ==
  ASSUME RunInv
  PROVE  \A m \in Running : Steady(m, frames[m], frames[m])
  BY RunningIs DEF Steady, Same, Handler, Accounts

(* A resource is registered with a scope around its step.                  *)
LEMMA KeptBy ==
  ASSUME RunInv, NEW n \in Running \ Roots, NEW more \in Seq(Nodes),
         \A r \in Range(more) : n \in Within[r]
  PROVE  LET fs == [frames EXCEPT ![Keeper[n]].held = @ \o more]
         IN DOMAIN fs = Running /\ \A m \in Running : Steady(m, frames[m], fs[m])
<1> DEFINE k == Keeper[n]
           h == frames[k].held \o more
           fs == [frames EXCEPT ![k].held = @ \o more]
<1>1. k \in Within[n] /\ k \in Running /\ n \in Nodes
  BY RunningIs, KeeperIs, WithinRuns DEF RunInv
<1>2. frames[k] \in FrameType /\ Steady(k, frames[k], frames[k])
  BY <1>1, RunningIs, SteadyItself
<1>3. frames[k].held \in Seq(Nodes)
  BY <1>2 DEF FrameType
<1>4. h \in Seq(Nodes) /\ Range(h) = Range(frames[k].held) \cup Range(more)
  BY <1>3, ConcatRange
<1>5. \A r \in Range(more) : r \in Nodes
  BY DEF Range
<1>6. \A r \in Range(h) : k \in Within[r]
  BY <1>1, <1>2, <1>4, <1>5, WithinTransitive DEF Steady
<1>7. /\ DOMAIN fs = Running /\ fs[k] = [frames[k] EXCEPT !.held = h]
      /\ \A m \in Running \ {k} : fs[m] = frames[m]
  BY <1>1 DEF Running
<1> HIDE DEF h, fs, k
<1>8. Steady(k, frames[k], fs[k])
  BY <1>2, <1>4, <1>6, <1>7 DEF Steady, Same, FrameType
<1> QED
  BY <1>7, <1>8, SteadyItself DEF fs, k

LEMMA AcquiredSteady ==
  ASSUME RunInv, NEW n \in Running \ Roots
  PROVE  DOMAIN Acquired(n) = Running /\ \A m \in Running : Steady(m, frames[m], Acquired(n)[m])
<1>1. n \in Nodes /\ n \in Within[n] /\ Keeper[n] \in Running
  BY RunningIs, KeeperIs, WithinRuns DEF RunInv
<1>2. <<n>> \in Seq(Nodes) /\ Range(<<n>>) = {n}
  BY <1>1 DEF Range
<1>3. frames[Keeper[n]].held \in Seq(Nodes)
  BY <1>1, RunningIs DEF FrameType
<1>4. Append(frames[Keeper[n]].held, n) = frames[Keeper[n]].held \o <<n>>
  BY <1>1, <1>3, AppendIsConcat
<1>5. Acquired(n) = [frames EXCEPT ![Keeper[n]].held = @ \o <<n>>]
  BY <1>4 DEF Acquired
<1> QED
  BY <1>1, <1>2, <1>5, KeptBy

LEMMA ReturnsKept ==
  ASSUME RunInv, NEW fs, DOMAIN fs = Running, \A m \in Running : Steady(m, frames[m], fs[m]),
         NEW n \in Nodes \ Roots, Awaited(n), Lone(n), Kind(Parent[n]) = "race" => n \in Running,
         NEW ending, NEW errs \in SUBSET Errors, NEW returned,
         Returns(fs, n, ending, errs, returned),
         owed' \subseteq owed \cup {n}, \A x \in owed \ owed' : n \in Within[x],
         Kind(n) # "branch" => (errs # {} <=> Answers(n)'),
         Kind(n) = "race" /\ n \in Running /\ errs = {} => Ctx(n) = "none" /\ frames[n].errors = {},
         result' = result, {returning, didReturn, interrupted}' \subseteq BOOLEAN,
         live' \in Seq(Nodes)
  PROVE  Kept
<1>1. /\ active \subseteq Nodes /\ owed \subseteq Nodes
      /\ \A m \in Running : frames[m] \in FrameType
      /\ result \in {"running", "succeeded", "failed"}
  BY RunningIs DEF RunInv, Globals
<1>2. Parent[n] \in Running /\ (Kind(n) # "branch" => frames[Parent[n]].todo # <<>>)
  BY BranchCaller DEF Awaited
<1>3. Left(n, errs) /\ active' \subseteq Nodes
  BY <1>1, <1>2, ReturnsEffect
<1>4. Reports(n, errs)
  BY <1>3 DEF Reports, Answers
<1>5. Globals'
  BY <1>1, <1>3 DEF Globals
<1> QED
  BY <1>4, <1>5, ReportsKept

LEMMA EntersKept ==
  ASSUME RunInv, NEW n \in Running, Kind(n) # "race", Lone(n),
         NEW g, frames' = [frames EXCEPT ![n] = g], Handler(n, g),
         g.at = "discard" => g.prior # {} \/ Ctx(n) # "none" \/ g.outer # "none",
         Kind(n) = "attempt" /\ g.count > frames[n].count => frames[n].prior # {},
         owed' \subseteq Nodes, \A x \in (owed \ owed') \cup (owed' \ owed) : n \in Within[x],
         Failing(g) <=> Answers(n)',
         \A x \in owed', c \in Callees(n) : c \in Within[x] => Done(n, g, c),
         result' = result, active' = active,
         {returning, didReturn, interrupted}' \subseteq BOOLEAN, live' \in Seq(Nodes)
  PROVE  Kept
<1>1. DOMAIN frames' = Running /\ frames'[n] = g /\ \A m \in Running \ {n} : frames'[m] = frames[m]
  BY DEF Running
<1>2. Changes(n)
  BY <1>1 DEF Changes, Answers
<1>3. Globals'
  BY DEF RunInv, Globals
<1> QED
  BY <1>2, <1>3, ChangesKept

LEMMA GlobalsAre ==
  ASSUME RunInv
  PROVE  /\ {returning, didReturn, interrupted} \subseteq BOOLEAN
         /\ active \subseteq Nodes /\ owed \subseteq Nodes /\ live \in Seq(Nodes)
  BY DEF RunInv, Globals

(* Calling a step.                                                         *)
LEMMA CallKept ==
  ASSUME RunInv, NEW n \in Called, Call(n)
  PROVE  Kept
<1>1. /\ n \in Nodes \ Roots /\ n \notin Running /\ Awaited(n) /\ Lone(n)
      /\ Parent[n] \in Running /\ Kind(Parent[n]) # "race" /\ Kind(n) # "branch"
      /\ ~Answers(n) /\ n \in Within[n]
  BY CalledIs, WithinDef DEF Answers
<1>2. Ctx(n) \in ContextErrors
  BY <1>1, RunningIs DEF Ctx, FrameType
<1>3. DOMAIN frames = Running /\ \A m \in Running : Steady(m, frames[m], frames[m])
  BY SteadyItself DEF Running
<1>4. /\ {returning, didReturn, interrupted} \subseteq BOOLEAN
      /\ active \subseteq Nodes /\ owed \subseteq Nodes /\ live \in Seq(Nodes)
  BY GlobalsAre
<1>5. CASE Refused(n)
  <2>1. /\ Returns(frames, n, "refused", {Ctx(n)}, returning) /\ owed' = owed \cup {n}
        /\ UNCHANGED <<returning, didReturn, interrupted, result, live>>
        /\ {Ctx(n)} \in SUBSET Errors
    BY <1>2, <1>5 DEF Refused, outcomes, ContextErrors, Errors
  <2>2. Answers(n)'
    BY <1>1, <2>1 DEF Answers
  <2> QED
    BY <1>1, <1>3, <1>4, <2>1, <2>2, ReturnsKept
<1>6. CASE Skipped(n)
  <2>1. /\ Returns(frames, n, "skipped", {}, returning) /\ {} \in SUBSET Errors
        /\ UNCHANGED <<returning, didReturn, interrupted, result, owed, live>>
    BY <1>6 DEF Skipped, outcomes, history
  <2>2. ~Answers(n)'
    BY <1>1, <2>1 DEF Answers
  <2> QED
    BY <1>1, <1>3, <1>4, <2>1, <2>2, ReturnsKept
<1>7. CASE Starts(n)
  <2>1. UNCHANGED <<returning, didReturn, interrupted, result, owed, live>> /\ active' \subseteq active
    BY <1>7 DEF Starts, outcomes, history
  <2>2. Globals'
    BY <1>4, <2>1 DEF RunInv, Globals
  <2> QED
    BY <1>7, <2>2, StartsKept
<1>8. CASE OpenFails(n)
  <2>1. /\ Returns(frames, n, "failed", {n}, returning) /\ owed' = owed \cup {n}
        /\ UNCHANGED <<returning, didReturn, interrupted, result, live>>
        /\ {n} \in SUBSET Errors
    BY <1>1, <1>8 DEF OpenFails, Fails, outcomes, Errors
  <2>2. Answers(n)'
    BY <1>1, <2>1 DEF Answers
  <2> QED
    BY <1>1, <1>3, <1>4, <2>1, <2>2, ReturnsKept
<1>9. CASE EarlyReturn(n)
  <2>1. /\ Returns(frames, n, "ok", {}, TRUE) /\ {} \in SUBSET Errors
        /\ UNCHANGED <<interrupted, result, owed, live>>
        /\ {returning, didReturn, interrupted}' \subseteq BOOLEAN
    BY <1>4, <1>9 DEF EarlyReturn, history
  <2>2. ~Answers(n)'
    BY <1>1, <2>1 DEF Answers
  <2> QED
    BY <1>1, <1>3, <1>4, <2>1, <2>2, ReturnsKept
<1> QED
  BY <1>5, <1>6, <1>7, <1>8, <1>9 DEF Call

(* A step of the workflow ends.                                            *)
LEMMA StepKept ==
  ASSUME RunInv, NEW n \in Running, StepSucceeds(n) \/ StepFails(n) \/ BreaksContract(n)
  PROVE  Kept
<1>1. Kind(n) = "step" /\ n \in Running \ Roots
  BY RunningIs DEF StepSucceeds, StepFails, BreaksContract
<1>2. /\ n \in Nodes \ Roots /\ Awaited(n) /\ n \in Within[n] /\ Handler(n, frames[n])
      /\ Ctx(n) \in ContextErrors
  BY <1>1, RunningIs
<1>3. frames[n].todo = <<>> /\ frames[n].errors = {} /\ frames[n].prior = {}
  BY <1>1, <1>2 DEF Handler, CallsOwn, Accounts
<1>4. Lone(n)
  BY <1>1, <1>3, QuietIsLone DEF RunInv
<1>5. ~Answers(n)
  BY <1>1, <1>3, <1>4, LoneAnswers DEF Failing
<1>6. DOMAIN frames = Running /\ \A m \in Running : Steady(m, frames[m], frames[m])
  BY SteadyItself DEF Running
<1>7. /\ {returning, didReturn, interrupted} \subseteq BOOLEAN
      /\ active \subseteq Nodes /\ owed \subseteq Nodes /\ live \in Seq(Nodes)
  BY GlobalsAre
<1>8. DOMAIN Acquired(n) = Running /\ \A m \in Running : Steady(m, frames[m], Acquired(n)[m])
  BY <1>1, AcquiredSteady
<1>9. Append(live, n) \in Seq(Nodes)
  BY <1>2, <1>7, AppendType
<1>10. CASE StepSucceeds(n)
  <2> DEFINE fs == IF Has(n, "acquires") THEN Acquired(n) ELSE frames
  <2>1. /\ Returns(fs, n, "ok", {}, returning) /\ {} \in SUBSET Errors
        /\ UNCHANGED <<returning, didReturn, interrupted, result, owed>>
    BY <1>10 DEF StepSucceeds, outcomes
  <2>2. DOMAIN fs = Running /\ \A m \in Running : Steady(m, frames[m], fs[m])
    BY <1>6, <1>8
  <2>3. live' \in Seq(Nodes)
    BY <1>7, <1>9, <1>10 DEF StepSucceeds
  <2>4. ~Answers(n)'
    BY <1>5, <2>1 DEF Answers
  <2> HIDE DEF fs
  <2> QED
    BY <1>1, <1>2, <1>4, <1>7, <2>1, <2>2, <2>3, <2>4, ReturnsKept
<1>11. CASE StepFails(n)
  <2>1. /\ owed' = owed \cup {n} /\ UNCHANGED <<returning, didReturn, interrupted, result, live>>
    BY <1>11 DEF StepFails, outcomes
  <2>2. PICK errs \in {{n}, {Ctx(n)}} \cap SUBSET Errors :
          Returns(frames, n, "failed", errs, returning) /\ errs # {}
    BY <1>2, <1>11 DEF StepFails, Fails, Errors, ContextErrors
  <2>3. Answers(n)'
    BY <1>2, <2>1 DEF Answers
  <2> QED
    BY <1>1, <1>2, <1>4, <1>6, <1>7, <2>1, <2>2, <2>3, ReturnsKept
<1>12. CASE BreaksContract(n)
  <2>1. /\ owed' = owed \cup {n} /\ UNCHANGED <<returning, didReturn, interrupted, result>>
        /\ live' = Append(live, n) /\ Returns(Acquired(n), n, "failed", {n}, returning)
        /\ {n} \in SUBSET Errors
    BY <1>2, <1>12 DEF BreaksContract, Fails, outcomes, Errors
  <2>2. Answers(n)'
    BY <1>2, <2>1 DEF Answers
  <2> QED
    BY <1>1, <1>2, <1>4, <1>7, <1>8, <1>9, <2>1, <2>2, ReturnsKept
<1> QED
  BY <1>10, <1>11, <1>12

(* A running handler under which nothing runs returns as it stands.        *)
LEMMA LoneReturns ==
  ASSUME RunInv, NEW n \in Running \ Roots, Lone(n),
         NEW ending, NEW errs \in SUBSET Errors, NEW returned,
         Returns(frames, n, ending, errs, returned),
         owed' \subseteq owed \cup {n}, \A x \in owed \ owed' : n \in Within[x],
         Kind(n) # "branch" => (errs # {} <=> Answers(n)'),
         Kind(n) = "race" /\ errs = {} => Ctx(n) = "none" /\ frames[n].errors = {},
         result' = result, {returning, didReturn, interrupted}' \subseteq BOOLEAN,
         live' = live
  PROVE  Kept
<1>1. n \in Nodes \ Roots /\ Awaited(n)
  BY RunningIs
<1>2. DOMAIN frames = Running /\ \A m \in Running : Steady(m, frames[m], frames[m])
  BY SteadyItself DEF Running
<1>3. live' \in Seq(Nodes)
  BY GlobalsAre
<1> QED
  BY <1>1, <1>2, <1>3, ReturnsKept

(* A block, a branch, an executor, a worktree or a try is over.            *)
LEMMA SequenceKept ==
  ASSUME RunInv, NEW n \in Running, SequenceEnds(n) \/ ScopeEnds(n) \/ TryCleaned(n)
  PROVE  Kept
<1> DEFINE f == frames[n]
<1>1. Kind(n) \in {"block", "branch", "executor", "worktree", "try"} /\ Idle(n)
  BY DEF SequenceEnds, ScopeEnds, TryCleaned
<1>2. n \in Running \ Roots /\ n \in Nodes /\ n \in Within[n] /\ Handler(n, f) /\ f \in FrameType
  BY <1>1, RunningIs
<1>3. Lone(n)
  BY <1>1, <1>2, QuietIsLone DEF Idle, RunInv
<1>4. Failing(f) <=> Answers(n)
  BY <1>1, <1>2, <1>3, LoneAnswers
<1>5. f.errors \in SUBSET Errors /\ f.prior \in SUBSET Errors /\ f.kept \in BOOLEAN
  BY <1>2 DEF FrameType
<1>6. {returning, didReturn, interrupted} \subseteq BOOLEAN
  BY GlobalsAre
<1>7. CASE SequenceEnds(n)
  <2>1. /\ UNCHANGED <<returning, didReturn, interrupted, result, owed, live>>
        /\ Kind(n) \in {"block", "branch"}
        /\ Returns(frames, n, IF f.errors = {} THEN "ok" ELSE "failed", f.errors, returning)
    BY <1>7 DEF SequenceEnds, outcomes, history
  <2>2. f.at = "main"
    BY <1>2, <2>1 DEF Handler, PhaseOf, FrameType, Labels, Quiet, Releasing, OwnsDefers
  <2>3. Failing(f) <=> f.errors # {}
    BY <1>2, <2>2 DEF Handler, Accounts, Failing
  <2>4. Answers(n)' <=> Answers(n)
    BY <2>1 DEF Answers
  <2> HIDE DEF f
  <2> QED
    BY <1>1, <1>2, <1>3, <1>4, <1>5, <1>6, <2>1, <2>3, <2>4, LoneReturns
<1>8. CASE ScopeEnds(n)
  <2>1. PICK closing \in {{}, {n}} :
          /\ Returns(frames, n, IF f.prior \cup f.errors \cup closing = {} THEN "ok" ELSE "failed",
                     f.prior \cup f.errors \cup closing, f.kept)
          /\ owed' = owed \cup closing
    BY <1>8 DEF ScopeEnds
  <2>2. f.at = "cleanup" /\ returning' = f.kept /\ UNCHANGED <<didReturn, interrupted, result, live>>
    BY <1>8 DEF ScopeEnds
  <2> DEFINE errs == f.prior \cup f.errors \cup closing
  <2>3. errs \in SUBSET Errors
    BY <1>2, <1>5 DEF Errors
  <2>4. errs # {} <=> Failing(f) \/ closing # {}
    BY <2>2 DEF Failing
  <2>5. Answers(n)' <=> Answers(n) \/ closing # {}
    BY <1>2, <2>1 DEF Answers
  <2>6. Returns(frames, n, IF errs = {} THEN "ok" ELSE "failed", errs, f.kept)
    BY <2>1
  <2>7. {returning, didReturn, interrupted}' \subseteq BOOLEAN
    BY <1>5, <1>6, <2>2
  <2>8. errs # {} <=> Answers(n)'
    BY <1>4, <2>4, <2>5
  <2> HIDE DEF errs, f
  <2> QED
    BY <1>1, <1>2, <1>3, <2>1, <2>2, <2>3, <2>6, <2>7, <2>8, LoneReturns
<1>9. CASE TryCleaned(n)
  <2>1. /\ UNCHANGED <<returning, didReturn, interrupted, result, owed, live>>
        /\ f.at = "cleanup"
        /\ Returns(frames, n, IF f.prior \cup f.errors = {} THEN "ok" ELSE "failed",
                   f.prior \cup f.errors, returning)
    BY <1>9 DEF TryCleaned, outcomes, history
  <2>2. f.prior \cup f.errors \in SUBSET Errors
    BY <1>5
  <2>3. f.prior \cup f.errors # {} <=> Failing(f)
    BY <2>1 DEF Failing
  <2>4. Answers(n)' <=> Answers(n)
    BY <2>1 DEF Answers
  <2> HIDE DEF f
  <2> QED
    BY <1>1, <1>2, <1>3, <1>4, <1>6, <2>1, <2>2, <2>3, <2>4, LoneReturns
<1> QED
  BY <1>7, <1>8, <1>9

(* A pass or an iteration that another follows.                            *)
LEMMA AgainKept ==
  ASSUME RunInv, NEW n \in Running \ Roots, Kind(n) # "race", Lone(n), ~Answers(n),
         NEW ctx \in ContextErrors, NEW count \in Nat, count <= Tree[n].max,
         frames' = [frames EXCEPT ![n] = [Frame(n, ctx) EXCEPT !.count = count]],
         Kind(n) = "attempt" /\ count > frames[n].count => frames[n].prior # {},
         UNCHANGED <<returning, didReturn, active, interrupted, result, owed, live>>
  PROVE  Kept
<1> DEFINE g == [Frame(n, ctx) EXCEPT !.count = count]
<1>1. n \in Nodes
  BY RunningIs
<1>2. Handler(n, g) /\ ~Failing(g) /\ g.at = "main"
  BY <1>1, FrameIsHandler
<1>3. g.count = count
  BY DEF Frame
<1>4. ~Answers(n)'
  BY DEF Answers
<1>5. \A x \in owed', c \in Callees(n) : c \notin Within[x]
  <2> SUFFICES ASSUME NEW x \in owed, NEW c \in Callees(n), c \in Within[x] PROVE FALSE
    OBVIOUS
  <2>1. x \in Nodes /\ c \in Nodes \ Roots /\ Parent[c] = n
    BY GlobalsAre DEF Callees
  <2>2. n \in Within[x]
    BY <2>1, WithinDef, WithinTransitive
  <2> QED
    BY <2>2 DEF Answers
<1>6. /\ {returning, didReturn, interrupted} \subseteq BOOLEAN
      /\ active \subseteq Nodes /\ owed \subseteq Nodes /\ live \in Seq(Nodes)
  BY GlobalsAre
<1> HIDE DEF g
<1>7. frames' = [frames EXCEPT ![n] = g]
  BY DEF g
<1> QED
  BY <1>2, <1>3, <1>4, <1>5, <1>6, <1>7, EntersKept

(* A run or a pass that is over and releases what it holds, or waits.      *)
LEMMA QuietKept ==
  ASSUME RunInv, NEW n \in Running, Lone(n),
         NEW g \in FrameType, frames' = [frames EXCEPT ![n] = g],
         g.at \in Quiet, g.todo = <<>>, g.count = frames[n].count, g.outer = frames[n].outer,
         Range(g.held) \subseteq Range(frames[n].held),
         IF g.at = "release" THEN Kind(n) = "run" ELSE Kind(n) = "attempt",
         g.at = "retryWait" => g.count < Tree[n].max /\ g.prior # {},
         g.at \in {"discard", "abandon"} => g.errors # {},
         g.at \in {"repoll", "pollWait"} => g.prior = {},
         g.at = "pollWait" => g.errors = {},
         g.at = "discard" => g.prior # {} \/ Expired(n) # "none",
         owed' \subseteq Nodes, \A x \in (owed \ owed') \cup (owed' \ owed) : n \in Within[x],
         Failing(g) <=> Answers(n)',
         result' = result, UNCHANGED <<returning, didReturn, active, interrupted>>,
         live' \in Seq(Nodes)
  PROVE  Kept
<1> DEFINE f == frames[n]
<1>1. n \in Nodes /\ Handler(n, f) /\ f \in FrameType /\ Kind(n) \in {"run", "attempt"}
  BY RunningIs
<1>2. CallsOwn(n, g)
  BY EmptyList DEF CallsOwn, Quiet, Releasing, Waits
<1>3. PhaseOf(n, g)
  BY <1>1 DEF PhaseOf, Handler, Quiet, Releasing, Waits
<1>4. Accounts(n, g)
  BY <1>1 DEF Accounts, Handler, Quiet, Releasing, Waits
<1>5. Handler(n, g)
  BY <1>2, <1>3, <1>4 DEF Handler
<1>6. ~(g.count > f.count)
  BY <1>1 DEF FrameType
<1>7. \A c : Done(n, g, c)
  BY EmptyList DEF Done, Quiet, Releasing, Waits
<1>8. /\ {returning, didReturn, interrupted} \subseteq BOOLEAN
      /\ active \subseteq Nodes /\ owed \subseteq Nodes /\ live \in Seq(Nodes)
  BY GlobalsAre
<1>9. g.at = "discard" => g.prior # {} \/ Ctx(n) # "none" \/ g.outer # "none"
  BY DEF Expired
<1> QED
  BY <1>1, <1>5, <1>6, <1>7, <1>8, <1>9, EntersKept

(* The steps of an attempt between its passes.                             *)
LEMMA PassIs ==
  ASSUME RunInv, NEW n \in Running, Kind(n) = "attempt", frames[n].todo = <<>>
  PROVE  /\ n \in Running \ Roots /\ n \in Nodes /\ n \in Within[n]
         /\ Handler(n, frames[n]) /\ frames[n] \in FrameType /\ Awaited(n)
         /\ Ctx(n) \in ContextErrors /\ Expired(n) \in ContextErrors
         /\ Lone(n) /\ (Failing(frames[n]) <=> Answers(n))
         /\ frames[n].count \in Nat /\ Tree[n].max \in Nat /\ frames[n].count <= Tree[n].max
         /\ frames[n].errors \in SUBSET Errors /\ frames[n].prior \in SUBSET Errors
<1>1. /\ n \in Running \ Roots /\ n \in Nodes /\ n \in Within[n] /\ Awaited(n)
      /\ Handler(n, frames[n]) /\ frames[n] \in FrameType
      /\ Ctx(n) \in ContextErrors /\ Expired(n) \in ContextErrors
  BY RunningIs
<1>2. Lone(n)
  BY QuietIsLone DEF RunInv
<1>3. Failing(frames[n]) <=> Answers(n)
  BY <1>2, LoneAnswers
<1>4. frames[n].count \in Nat /\ frames[n].count <= Tree[n].max
  BY <1>1 DEF Handler, FrameType, PhaseOf
<1>5. Tree[n].max \in Nat
  BY <1>1, TreeAssumption
<1>6. frames[n].errors \in SUBSET Errors /\ frames[n].prior \in SUBSET Errors
  BY <1>1 DEF FrameType
<1> QED
  BY <1>1, <1>2, <1>3, <1>4, <1>5, <1>6

LEMMA PassErrorIs ==
  ASSUME RunInv, NEW n \in Running, Kind(n) = "attempt", frames[n].todo = <<>>
  PROVE  /\ PassError(n) \in SUBSET Errors
         /\ Expired(n) # "none" => PassError(n) # {}
         /\ Expired(n) = "none" => (PassError(n) # {} <=> frames[n].errors # {})
<1>1. Expired(n) \in ContextErrors /\ frames[n].errors \in SUBSET Errors
  BY PassIs
<1>2. ContextErrors \ {"none"} \subseteq Errors /\ "deadline" \in Errors
  BY DEF ContextErrors, Errors
<1> QED
  BY <1>1, <1>2 DEF PassError

LEMMA OwedUnder ==
  ASSUME RunInv, NEW n \in Nodes, owed' = owed \ Under[n]
  PROVE  owed' \subseteq owed /\ ~Answers(n)' /\ \A x \in owed \ owed' : n \in Within[x]
  BY GlobalsAre, UnderIs DEF Answers

LEMMA PassEndsKept ==
  ASSUME RunInv, NEW n \in Running, PassFails(n) \/ PassIsNotReady(n)
  PROVE  Kept
<1> DEFINE f == frames[n]
<1>1. /\ Kind(n) = "attempt" /\ f.todo = <<>> /\ f.at = "main"
      /\ UNCHANGED <<returning, didReturn, active, interrupted, result, live>>
  BY DEF PassFails, PassIsNotReady, Idle, outcomes
<1>2. /\ n \in Nodes /\ n \in Within[n] /\ Handler(n, f) /\ f \in FrameType /\ Lone(n)
      /\ (Failing(f) <=> Answers(n)) /\ f.errors \in SUBSET Errors
  BY <1>1, PassIs
<1>3. f.prior = {}
  BY <1>1, <1>2 DEF Handler, Accounts
<1>4. Failing(f) <=> f.errors # {}
  BY <1>1, <1>3 DEF Failing
<1>5. owed \subseteq Nodes /\ live \in Seq(Nodes)
  BY GlobalsAre
<1>6. CASE PassFails(n)
  <2> DEFINE errs == PassError(n)
             g == [f EXCEPT !.at = "discard", !.prior = f.errors, !.errors = errs]
  <2>1. /\ errs # {} /\ errs \in SUBSET Errors
        /\ Expired(n) = "none" => (errs # {} <=> f.errors # {})
    BY <1>1, <1>6, PassErrorIs DEF PassFails
  <2>2. frames' = [frames EXCEPT ![n] = g] /\ owed' = IF Expired(n) # "none" THEN owed \cup {n} ELSE owed
    BY <1>6 DEF PassFails
  <2> HIDE DEF errs, f
  <2>3. /\ g \in FrameType /\ g.at = "discard" /\ g.todo = <<>> /\ g.count = f.count
        /\ g.outer = f.outer /\ g.held = f.held /\ g.errors = errs /\ g.prior = f.errors
    BY <1>1, <1>2, <2>1 DEF FrameType, Labels, Quiet, Releasing
  <2> HIDE DEF g
  <2>4. Answers(n)'
    BY <1>2, <1>4, <2>1, <2>2 DEF Answers
  <2>5. Failing(g)
    BY <2>1, <2>3 DEF Failing
  <2>6. owed' \subseteq Nodes /\ \A x \in (owed \ owed') \cup (owed' \ owed) : n \in Within[x]
    BY <1>2, <1>5, <2>2
  <2>7. g.prior # {} \/ Expired(n) # "none"
    BY <2>1, <2>3
  <2>8. g.at \in Quiet
    BY <2>3 DEF Quiet, Releasing
  <2> QED
    BY <1>1, <1>2, <1>5, <2>1, <2>2, <2>3, <2>4, <2>5, <2>6, <2>7, <2>8, QuietKept DEF f
<1>7. CASE PassIsNotReady(n)
  <2>1. Expired(n) = "none" /\ f.errors = {}
    BY <1>1, <1>7, PassErrorIs DEF PassIsNotReady
  <2>2. CASE frames' = [frames EXCEPT ![n].at = "repoll"] /\ owed' = owed
    <3> DEFINE g == [f EXCEPT !.at = "repoll"]
    <3>1. frames' = [frames EXCEPT ![n] = g]
      BY <2>2
    <3> HIDE DEF f
    <3>2. /\ g \in FrameType /\ g.at = "repoll" /\ g.todo = <<>> /\ g.count = f.count
          /\ g.outer = f.outer /\ g.held = f.held /\ g.errors = {} /\ g.prior = {}
      BY <1>1, <1>2, <1>3, <2>1 DEF FrameType, Labels, Quiet, Releasing
    <3> HIDE DEF g
    <3>3. ~Failing(g) /\ ~Answers(n)' /\ g.at \in Quiet
      BY <1>2, <1>4, <2>1, <2>2, <3>2 DEF Failing, Answers, Quiet, Releasing
    <3> QED
      BY <1>1, <1>2, <1>5, <2>2, <3>1, <3>2, <3>3, QuietKept DEF f
  <2>3. CASE /\ frames' = [frames EXCEPT ![n].at = "abandon", ![n].errors = {n}]
             /\ owed' = owed \cup {n}
    <3> DEFINE g == [f EXCEPT !.at = "abandon", !.errors = {n}]
    <3>1. frames' = [frames EXCEPT ![n] = g] /\ {n} \in SUBSET Errors
      BY <1>2, <2>3 DEF Errors
    <3> HIDE DEF f
    <3>2. /\ g \in FrameType /\ g.at = "abandon" /\ g.todo = <<>> /\ g.count = f.count
          /\ g.outer = f.outer /\ g.held = f.held /\ g.errors = {n} /\ g.prior = {}
      BY <1>1, <1>2, <1>3, <3>1 DEF FrameType, Labels, Quiet, Releasing
    <3> HIDE DEF g
    <3>3. Failing(g) /\ Answers(n)' /\ g.at \in Quiet
      BY <1>2, <2>3, <3>2 DEF Failing, Answers, Quiet, Releasing
    <3>4. owed' \subseteq Nodes /\ \A x \in (owed \ owed') \cup (owed' \ owed) : n \in Within[x]
      BY <1>2, <1>5, <2>3
    <3> QED
      BY <1>1, <1>2, <1>5, <3>1, <3>2, <3>3, <3>4, QuietKept DEF f
  <2> QED
    BY <1>7, <2>2, <2>3 DEF PassIsNotReady
<1> QED
  BY <1>6, <1>7

(* What is left of a list.                                                 *)
LEMMA RemovedList ==
  ASSUME NEW S, NEW q \in Seq(S), NEW i \in 0..Len(q)
  PROVE  RemoveAt(q, i) \in Seq(S) /\ Range(RemoveAt(q, i)) \subseteq Range(q)
<1> DEFINE T == Range(q)
           front == SubSeq(q, 1, i - 1)
           back == SubSeq(q, i + 1, Len(q))
<1>1. Len(q) \in Nat /\ DOMAIN q = 1..Len(q) /\ T \subseteq S
  BY LenProperties DEF Range
<1>2. \A j \in 1..Len(q) : q[j] \in T
  BY <1>1 DEF Range
<1>3. i + 1 \in Int /\ Len(q) \in Int /\ \A j \in i + 1..Len(q) : q[j] \in T
  BY <1>1, <1>2
<1>4. back \in Seq(T)
  BY <1>3, SubSeqProperties
<1>5. 1 \in Int /\ i - 1 \in Int /\ \A j \in 1..i - 1 : q[j] \in T
  BY <1>1, <1>2
<1>6. front \in Seq(T)
  BY <1>5, SubSeqProperties
<1> HIDE DEF front, back, T
<1>7. front \o back \in Seq(T)
  BY <1>4, <1>6, ConcatProperties
<1>8. RemoveAt(q, i) = front \o back
  BY DEF RemoveAt, front, back
<1>9. \A r \in Seq(T) : r \in Seq(S) /\ Range(r) \subseteq T
  <2> SUFFICES ASSUME NEW r \in Seq(T) PROVE r \in Seq(S) /\ Range(r) \subseteq T
    OBVIOUS
  <2>1. Range(r) \subseteq T
    BY LenProperties DEF Range
  <2>2. Range(r) \subseteq S
    BY <1>1, <2>1
  <2> QED
    BY <2>1, <2>2, SubSequence
<1> QED
  BY <1>7, <1>8, <1>9 DEF T

LEMMA Greatest ==
  ASSUME NEW k \in Nat, NEW S \in SUBSET (1..k), S # {}
  PROVE  \E m \in S : \A i \in S : m >= i
<1> DEFINE T == {k - i : i \in S}
<1>1. \A i \in S : i \in Nat /\ i <= k
  BY SMT
<1>2. \A i \in S : k - i \in Nat
  BY <1>1, SMT
<1>3. T \in SUBSET Nat /\ T # {}
  BY <1>2
<1>4. PICK m \in T : \A i \in T : m <= i
  <2> HIDE DEF T
  <2> QED
    BY <1>3, LeastNumber
<1>5. PICK j \in S : m = k - j
  BY <1>4
<1>6. \A i \in S : k - i \in T
  OBVIOUS
<1>7. ASSUME NEW i \in S PROVE j >= i
  <2>1. k - j <= k - i
    BY <1>4, <1>5, <1>6
  <2>2. i \in Nat /\ j \in Nat
    BY <1>1
  <2> QED
    BY <2>1, <2>2, SMT
<1> QED
  BY <1>7

LEMMA LastPlace ==
  ASSUME NEW k \in Nat, NEW I \in SUBSET (1..k)
  PROVE  (IF I # {} THEN Max(I) ELSE 0) \in 0..k
<1>1. CASE I # {}
  <2>1. \E m \in I : \A i \in I : m >= i
    BY <1>1, Greatest
  <2>2. Max(I) \in I
    BY <2>1 DEF Max
  <2> DEFINE m == Max(I)
  <2> HIDE DEF m
  <2>3. m \in 1..k
    BY <2>2 DEF m
  <2>4. m \in 0..k
    BY <2>3
  <2> QED
    BY <1>1, <2>4 DEF m
<1>2. CASE I = {}
  BY <1>2
<1> QED
  BY <1>1, <1>2

(* A run has cleaned up; a resource is released.                           *)
LEMMA ReleasesKept ==
  ASSUME RunInv, NEW n \in Running, RunCleaned(n) \/ Releases(n)
  PROVE  Kept
<1> DEFINE f == frames[n]
<1>1. /\ n \in Nodes /\ n \in Within[n] /\ Handler(n, f) /\ f \in FrameType
      /\ f.errors \in SUBSET Errors /\ f.held \in Seq(Nodes)
  BY RunningIs DEF FrameType
<1>2. owed \subseteq Nodes /\ live \in Seq(Nodes)
  BY GlobalsAre
<1>3. CASE RunCleaned(n)
  <2> DEFINE g == [f EXCEPT !.at = "release"]
  <2>1. /\ frames' = [frames EXCEPT ![n] = g] /\ Kind(n) = "run" /\ f.at = "cleanup" /\ f.todo = <<>>
        /\ UNCHANGED <<returning, didReturn, active, interrupted, result, owed, live>>
    BY <1>3 DEF RunCleaned, Idle, outcomes, history
  <2>2. Lone(n)
    BY <2>1, QuietIsLone DEF RunInv
  <2>3. Failing(f) <=> Answers(n)
    BY <2>1, <2>2, LoneAnswers
  <2> HIDE DEF f
  <2>4. /\ g \in FrameType /\ g.at = "release" /\ g.todo = <<>> /\ g.count = f.count
        /\ g.outer = f.outer /\ g.held = f.held /\ g.errors = f.errors /\ g.prior = f.prior
    BY <1>1, <2>1 DEF FrameType, Labels, Quiet, Releasing
  <2> HIDE DEF g
  <2>5. (Failing(g) <=> Answers(n)') /\ g.at \in Quiet
    BY <2>1, <2>3, <2>4 DEF Failing, Answers, Quiet, Releasing
  <2> QED
    BY <1>2, <2>1, <2>2, <2>4, <2>5, QuietKept DEF f
<1>4. CASE Releases(n)
  <2> DEFINE resource == f.held[Len(f.held)]
             rest == RemoveAt(f.held, Len(f.held))
  <2>1. /\ f.at \in Releasing /\ f.held # <<>>
        /\ UNCHANGED <<returning, didReturn, active, interrupted, result>>
        /\ live' = RemoveAt(live, SelectLastInSeq(live, LAMBDA r : r = resource))
    BY <1>4 DEF Releases, NextReleased, outcomes
  <2>2. PICK failing \in {{}, {resource}} :
          /\ frames' = [frames EXCEPT ![n].held = rest, ![n].errors = @ \cup failing]
          /\ owed' = owed \cup failing
    BY <1>4 DEF Releases, NextReleased
  <2>3. live' \in Seq(Nodes)
    <3> DEFINE I == {i \in 1..Len(live) : live[i] = resource}
               place == IF I # {} THEN Max(I) ELSE 0
    <3>1. live' = RemoveAt(live, place)
      BY <2>1 DEF SelectLastInSeq
    <3>2. Len(live) \in Nat /\ I \in SUBSET (1..Len(live))
      BY <1>2, LenProperties
    <3>3. place \in 0..Len(live)
      <4> HIDE DEF I
      <4> QED
        BY <3>2, LastPlace
    <3> HIDE DEF place
    <3> QED
      BY <1>2, <3>1, <3>3, RemovedList
  <2>4. Len(f.held) \in Nat \ {0} /\ DOMAIN f.held = 1..Len(f.held)
    BY <1>1, <2>1, LenProperties, EmptySeq
  <2>5. resource \in Range(f.held) /\ resource \in Nodes /\ n \in Within[resource]
    BY <1>1, <2>4 DEF Range, Handler, Accounts
  <2>6. rest \in Seq(Nodes) /\ Range(rest) \subseteq Range(f.held)
    BY <1>1, <2>4, RemovedList
  <2>7. f.todo = <<>> /\ Kind(n) # "race"
    BY <1>1, <2>1 DEF Handler, CallsOwn, PhaseOf, Quiet, Releasing
  <2>8. Lone(n)
    BY <2>7, QuietIsLone DEF RunInv
  <2>9. Failing(f) <=> Answers(n)
    BY <2>7, <2>8, LoneAnswers
  <2>10. f.errors \cup failing \in SUBSET Errors
    BY <1>1, <2>5 DEF Errors
  <2> HIDE DEF resource, rest
  <2> DEFINE errs == f.errors \cup failing
             g == [f EXCEPT !.held = rest, !.errors = errs]
  <2>11. frames' = [frames EXCEPT ![n] = g]
    BY <2>2
  <2> HIDE DEF f, errs
  <2>12. errs \in SUBSET Errors
    BY <2>10 DEF errs
  <2>13. /\ g \in FrameType /\ g.at = f.at /\ g.todo = <<>> /\ g.count = f.count
         /\ g.outer = f.outer /\ g.held = rest /\ g.errors = errs /\ g.prior = f.prior
    BY <1>1, <2>6, <2>7, <2>12 DEF FrameType
  <2> HIDE DEF g
  <2>14. errs # {} <=> f.errors # {} \/ failing # {}
    BY DEF errs
  <2>15. /\ Answers(n)' <=> Answers(n) \/ failing # {}
         /\ owed' \subseteq Nodes /\ \A x \in (owed \ owed') \cup (owed' \ owed) : n \in Within[x]
    BY <1>2, <2>2, <2>5 DEF Answers
  <2>16. Failing(g) <=> Answers(n)'
    BY <2>1, <2>9, <2>13, <2>14, <2>15 DEF Failing, Releasing
  <2>17. /\ IF g.at = "release" THEN Kind(n) = "run" ELSE Kind(n) = "attempt"
         /\ g.at \in Quiet /\ g.at \in Releasing
    BY <1>1, <2>1, <2>13 DEF Handler, PhaseOf, Quiet, Releasing
  <2>18. /\ g.at \in {"discard", "abandon"} => g.errors # {}
         /\ g.at = "repoll" => g.prior = {}
    BY <1>1, <2>13, <2>14 DEF Handler, Accounts
  <2>19. g.at = "discard" => g.prior # {} \/ Expired(n) # "none"
    BY <2>13 DEF RunInv, Discarded, f
  <2> QED
    BY <1>2, <2>1, <2>3, <2>6, <2>8, <2>11, <2>13, <2>15, <2>16, <2>17, <2>18, <2>19, QuietKept
    DEF f, Releasing
<1> QED
  BY <1>3, <1>4

(* Between two passes.                                                     *)
LEMMA BetweenPassesKept ==
  ASSUME RunInv, NEW n \in Running, Retries(n) \/ Repolls(n)
  PROVE  Kept
<1> DEFINE f == frames[n]
<1>1. /\ f.at \in {"discard", "repoll"}
      /\ UNCHANGED <<returning, didReturn, active, interrupted, result, live>>
  BY DEF Retries, Repolls, outcomes, history
<1>2. Handler(n, f)
  BY RunningIs
<1>3. Kind(n) = "attempt" /\ f.todo = <<>>
  BY <1>1, <1>2 DEF Handler, PhaseOf, CallsOwn, Quiet, Releasing
<1>4. /\ n \in Nodes /\ f \in FrameType /\ Lone(n) /\ (Failing(f) <=> Answers(n))
      /\ f.count \in Nat /\ Tree[n].max \in Nat /\ f.count <= Tree[n].max
      /\ Expired(n) \in ContextErrors
  BY <1>3, PassIs
<1>5. owed \subseteq Nodes /\ live \in Seq(Nodes)
  BY GlobalsAre
<1>6. CASE Retries(n)
  <2> DEFINE g == [f EXCEPT !.at = "retryWait"]
  <2>1. /\ frames' = [frames EXCEPT ![n] = g] /\ owed' = owed \ Under[n]
        /\ f.at = "discard" /\ Expired(n) = "none" /\ f.count # Tree[n].max
    BY <1>6 DEF Retries, Exhausted
  <2>2. f.prior # {}
    BY <2>1 DEF RunInv, Discarded
  <2>3. f.count < Tree[n].max
    BY <1>4, <2>1
  <2> HIDE DEF f
  <2>4. /\ g \in FrameType /\ g.at = "retryWait" /\ g.todo = <<>> /\ g.count = f.count
        /\ g.outer = f.outer /\ g.held = f.held /\ g.errors = f.errors /\ g.prior = f.prior
    BY <1>3, <1>4 DEF FrameType, Labels, Quiet, Waits
  <2> HIDE DEF g
  <2>5. owed' \subseteq owed /\ ~Answers(n)' /\ \A x \in owed \ owed' : n \in Within[x]
    BY <1>4, <2>1, OwedUnder
  <2>6. ~Failing(g) /\ g.at \in Quiet
    BY <2>4 DEF Failing, Quiet, Waits
  <2> QED
    BY <1>1, <1>3, <1>4, <1>5, <2>1, <2>2, <2>3, <2>4, <2>5, <2>6, QuietKept DEF f
<1>7. CASE Repolls(n)
  <2> DEFINE g == [f EXCEPT !.at = "pollWait"]
  <2>1. /\ frames' = [frames EXCEPT ![n] = g] /\ owed' = owed
        /\ f.at = "repoll" /\ f.errors = {}
    BY <1>7 DEF Repolls, history
  <2>2. f.prior = {}
    BY <1>2, <2>1 DEF Handler, Accounts
  <2> HIDE DEF f
  <2>3. /\ g \in FrameType /\ g.at = "pollWait" /\ g.todo = <<>> /\ g.count = f.count
        /\ g.outer = f.outer /\ g.held = f.held /\ g.errors = {} /\ g.prior = {}
    BY <1>3, <1>4, <2>1, <2>2 DEF FrameType, Labels, Quiet, Waits
  <2> HIDE DEF g
  <2>4. ~Failing(g) /\ ~Answers(n)' /\ g.at \in Quiet
    BY <1>4, <2>1, <2>2, <2>3 DEF Failing, Answers, Quiet, Waits
  <2> QED
    BY <1>1, <1>3, <1>4, <1>5, <2>1, <2>3, <2>4, QuietKept DEF f
<1> QED
  BY <1>6, <1>7

(* An attempt is over, or begins its next pass.                            *)
LEMMA AttemptKept ==
  ASSUME RunInv, NEW n \in Running, PassWins(n) \/ GivesUp(n) \/ NextPass(n)
  PROVE  Kept
<1> DEFINE f == frames[n]
<1>1. UNCHANGED <<returning, didReturn, interrupted, result, live>>
  BY DEF PassWins, GivesUp, NextPass, outcomes, history
<1>2. Handler(n, f)
  BY RunningIs
<1>3. Kind(n) = "attempt" /\ f.todo = <<>>
  BY <1>2 DEF PassWins, GivesUp, NextPass, Idle, Handler, PhaseOf, CallsOwn, Quiet, Releasing, Waits
<1>4. /\ n \in Running \ Roots /\ n \in Nodes /\ n \in Within[n] /\ Awaited(n)
      /\ f \in FrameType /\ Lone(n) /\ (Failing(f) <=> Answers(n))
      /\ f.count \in Nat /\ Tree[n].max \in Nat /\ f.count <= Tree[n].max
      /\ Expired(n) \in ContextErrors /\ f.errors \in SUBSET Errors
  BY <1>3, PassIs
<1>5. /\ {returning, didReturn, interrupted} \subseteq BOOLEAN
      /\ active \subseteq Nodes /\ owed \subseteq Nodes /\ live \in Seq(Nodes)
  BY GlobalsAre
<1>6. CASE PassWins(n)
  <2>1. Returns(Adopt(n), n, "ok", {}, returning) /\ owed' = owed \ Under[n] /\ {} \in SUBSET Errors
    BY <1>6 DEF PassWins
  <2>2. owed' \subseteq owed /\ ~Answers(n)' /\ \A x \in owed \ owed' : n \in Within[x]
    BY <1>4, <2>1, OwedUnder
  <2>3. f.held \in Seq(Nodes) /\ \A r \in Range(f.held) : n \in Within[r]
    BY <1>2 DEF Handler, FrameType, Accounts
  <2>4. DOMAIN Adopt(n) = Running /\ \A m \in Running : Steady(m, frames[m], Adopt(n)[m])
    BY <1>4, <2>3, KeptBy DEF Adopt
  <2> QED
    BY <1>1, <1>3, <1>4, <1>5, <2>1, <2>2, <2>4, ReturnsKept
<1>7. CASE GivesUp(n)
  <2>1. Returns(frames, n, "failed", f.errors, returning) /\ owed' = owed
    BY <1>7 DEF GivesUp, Fails, history
  <2>2. f.errors # {} /\ Failing(f)
    BY <1>2, <1>7 DEF GivesUp, Handler, Accounts, Failing
  <2>3. Answers(n)'
    BY <1>4, <2>1, <2>2 DEF Answers
  <2> QED
    BY <1>1, <1>3, <1>4, <1>5, <2>1, <2>2, <2>3, LoneReturns
<1>8. CASE NextPass(n)
  <2>1. f.at \in {"retryWait", "pollWait"}
    BY <1>8 DEF NextPass
  <2>2. CASE Expired(n) # "none"
    <3>1. /\ Returns(frames, n, "failed", {Expired(n)}, returning) /\ owed' = owed \cup {n}
          /\ {Expired(n)} \in SUBSET Errors
      BY <1>4, <1>8, <2>2 DEF NextPass, Fails, Errors, ContextErrors
    <3>2. Answers(n)'
      BY <1>4, <3>1 DEF Answers
    <3> QED
      BY <1>1, <1>3, <1>4, <1>5, <3>1, <3>2, LoneReturns
  <2>3. CASE Expired(n) = "none"
    <3> DEFINE count == PassNumber(f)
    <3>1. /\ frames' = [frames EXCEPT ![n] = [Frame(n, f.outer) EXCEPT !.count = count]]
          /\ owed' = owed /\ active' = active
      BY <1>8, <2>3 DEF NextPass
    <3>2. ~Failing(f)
      BY <1>2, <2>1 DEF Handler, Accounts, Failing
    <3>3. f.at = "retryWait" => f.count < Tree[n].max /\ f.prior # {}
      BY <1>2 DEF Handler, PhaseOf, Accounts
    <3>4. count \in Nat /\ count <= Tree[n].max /\ (count > f.count => f.prior # {})
      BY <1>4, <3>3 DEF PassNumber
    <3>5. f.outer \in ContextErrors
      BY <1>4 DEF FrameType
    <3> HIDE DEF count
    <3> QED
      BY <1>1, <1>3, <1>4, <3>1, <3>2, <3>4, <3>5, AgainKept
  <2> QED
    BY <2>2, <2>3
<1> QED
  BY <1>6, <1>7, <1>8

(* A loop is over, or begins its next iteration.                           *)
LEMMA LoopKept ==
  ASSUME RunInv, NEW n \in Running, LoopEnds(n) \/ LoopAgain(n)
  PROVE  Kept
<1> DEFINE f == frames[n]
<1>1. /\ UNCHANGED <<returning, didReturn, interrupted, result, live>>
      /\ Kind(n) = "loop" /\ f.todo = <<>> /\ f.at = "main"
  BY DEF LoopEnds, LoopAgain, Idle, outcomes
<1>2. /\ n \in Running \ Roots /\ n \in Nodes /\ n \in Within[n] /\ Handler(n, f) /\ f \in FrameType
      /\ f.errors \in SUBSET Errors /\ f.count \in Nat /\ f.ctx \in ContextErrors
  BY <1>1, RunningIs DEF FrameType
<1>3. Lone(n)
  BY <1>1, QuietIsLone DEF RunInv
<1>4. f.prior = {}
  BY <1>1, <1>2 DEF Handler, Accounts
<1>5. f.errors # {} <=> Answers(n)
  BY <1>1, <1>3, <1>4, LoneAnswers DEF Failing
<1>6. {returning, didReturn, interrupted} \subseteq BOOLEAN
  BY GlobalsAre
<1>7. CASE LoopEnds(n)
  <2>1. CASE f.errors # {} /\ Fails(frames, n, f.errors) /\ owed' = owed
    <3>1. Returns(frames, n, "failed", f.errors, returning) /\ Answers(n)'
      BY <1>5, <2>1 DEF Fails, Answers
    <3> QED
      BY <1>1, <1>2, <1>3, <1>6, <2>1, <3>1, LoneReturns
  <2>2. CASE f.errors = {} /\ Returns(frames, n, "ok", {}, returning) /\ owed' = owed
    <3>1. ~Answers(n)' /\ {} \in SUBSET Errors
      BY <1>5, <2>2 DEF Answers
    <3> QED
      BY <1>1, <1>2, <1>3, <1>6, <2>2, <3>1, LoneReturns
  <2>3. CASE Fails(frames, n, {n}) /\ owed' = owed \cup {n}
    <3>1. Returns(frames, n, "failed", {n}, returning) /\ Answers(n)' /\ {n} \in SUBSET Errors
      BY <1>2, <2>3 DEF Fails, Answers, Errors
    <3> QED
      BY <1>1, <1>2, <1>3, <1>6, <2>3, <3>1, LoneReturns
  <2> QED
    BY <1>7, <2>1, <2>2, <2>3 DEF LoopEnds
<1>8. CASE LoopAgain(n)
  <2>1. f.errors = {} /\ f.count < Tree[n].max
    BY <1>8 DEF LoopAgain
  <2>2. CASE f.ctx # "none"
    <3>1. /\ Returns(frames, n, "failed", {f.ctx}, returning) /\ owed' = owed \cup {n}
          /\ {f.ctx} \in SUBSET Errors
      BY <1>2, <1>8, <2>2 DEF LoopAgain, Fails, Errors, ContextErrors
    <3>2. Answers(n)'
      BY <1>2, <3>1 DEF Answers
    <3> QED
      BY <1>1, <1>2, <1>3, <1>6, <3>1, <3>2, LoneReturns
  <2>3. CASE f.ctx = "none"
    <3> DEFINE count == f.count + 1
    <3>1. /\ frames' = [frames EXCEPT ![n] = [Frame(n, f.ctx) EXCEPT !.count = count]]
          /\ owed' = owed /\ active' = active
      BY <1>8, <2>3 DEF LoopAgain
    <3>2. Tree[n].max \in Nat
      BY <1>2, TreeAssumption
    <3>3. count \in Nat /\ count <= Tree[n].max
      BY <1>2, <2>1, <3>2
    <3> HIDE DEF count
    <3> QED
      BY <1>1, <1>2, <1>3, <1>5, <2>1, <3>1, <3>3, AgainKept
  <2> QED
    BY <2>2, <2>3
<1> QED
  BY <1>7, <1>8

(* A race is over, or a branch of it panics.                               *)
LEMMA RaceEndsKept ==
  ASSUME RunInv, NEW n \in Running, RaceEnds(n)
  PROVE  Kept
<1>1. /\ Kind(n) = "race" /\ Joined(n)
      /\ UNCHANGED <<returning, didReturn, interrupted, result, live>>
  BY DEF RaceEnds, outcomes
<1>2. /\ n \in Running \ Roots /\ n \in Nodes /\ n \in Within[n] /\ Ctx(n) \in ContextErrors
      /\ frames[n].errors \in SUBSET Errors
  BY <1>1, RunningIs DEF FrameType
<1>3. Lone(n)
  BY <1>1, JoinedIsLone DEF RunInv
<1>4. PICK collecting \in {{}, {n}} :
        LET errs == IF RaceError(n) # {} THEN RaceError(n) ELSE collecting
        IN /\ Returns(frames, n, IF errs = {} THEN "ok" ELSE "failed", errs, returning)
           /\ owed' = IF errs = {} THEN owed \ Under[n] ELSE owed \cup {n}
  BY DEF RaceEnds
<1> DEFINE errs == IF RaceError(n) # {} THEN RaceError(n) ELSE collecting
<1>5. RaceError(n) \in SUBSET Errors /\ (RaceError(n) = {} => Ctx(n) = "none" /\ frames[n].errors = {})
  BY <1>2 DEF RaceError, Errors, ContextErrors
<1>6. errs \in SUBSET Errors /\ (errs = {} => Ctx(n) = "none" /\ frames[n].errors = {})
  BY <1>2, <1>5 DEF Errors
<1>7. /\ Returns(frames, n, IF errs = {} THEN "ok" ELSE "failed", errs, returning)
      /\ owed' = IF errs = {} THEN owed \ Under[n] ELSE owed \cup {n}
  BY <1>4
<1> HIDE DEF errs
<1>8. {returning, didReturn, interrupted} \subseteq BOOLEAN
  BY GlobalsAre
<1>9. CASE errs = {}
  <2>1. owed' \subseteq owed /\ ~Answers(n)' /\ \A x \in owed \ owed' : n \in Within[x]
    BY <1>2, <1>7, <1>9, OwedUnder
  <2> QED
    BY <1>1, <1>2, <1>3, <1>6, <1>7, <1>8, <1>9, <2>1, LoneReturns
<1>10. CASE errs # {}
  <2>1. owed' = owed \cup {n} /\ Answers(n)'
    BY <1>2, <1>7, <1>10 DEF Answers
  <2> QED
    BY <1>1, <1>2, <1>3, <1>6, <1>7, <1>8, <1>10, <2>1, LoneReturns
<1> QED
  BY <1>9, <1>10

LEMMA BranchPanicsKept ==
  ASSUME RunInv, NEW n \in Running, BranchPanics(n)
  PROVE  Kept
<1> DEFINE p == Parent[n]
           item == [branch |-> n, failed |-> TRUE, eligible |-> FALSE]
           rest == Restrict(frames, Running \ {n})
           list == Append(frames[p].inbox, item)
           g == [frames[p] EXCEPT !.inbox = list]
<1>1. /\ Kind(n) = "branch" /\ frames' = [rest EXCEPT ![p].inbox = Append(@, item)]
      /\ UNCHANGED <<returning, didReturn, active, interrupted, result, owed, live>>
      /\ \A m \in Running \ Roots : Parent[m] # n
  BY DEF BranchPanics, outcomes, history
<1>2. n \in Running \ Roots /\ n \in Nodes /\ Awaited(n) /\ p \in Running
  BY <1>1, RunningIs
<1>3. Lone(n)
  BY <1>1, <1>2, NoneBelow DEF RunInv
<1>4. p # n /\ frames[p] \in FrameType /\ Steady(p, frames[p], frames[p])
  BY <1>2, RunningIs, BranchCaller, SteadyItself
<1>5. item \in Items
  BY <1>2 DEF Items
<1> HIDE DEF item
<1>6. frames[p].inbox \in Seq(Items)
  BY <1>4 DEF FrameType
<1>7. list \in Seq(Items) /\ Len(list) = Len(frames[p].inbox) + 1
  BY <1>5, <1>6, AppendType
<1>8. /\ DOMAIN frames' = Running \ {n} /\ frames'[p] = g
      /\ \A m \in Running \ {n, p} : frames'[m] = frames[m]
  <2>1. DOMAIN rest = Running \ {n} /\ \A m \in Running \ {n} : rest[m] = frames[m]
    BY DEF Restrict
  <2> HIDE DEF rest, p
  <2> QED
    BY <1>1, <1>2, <1>4, <2>1
<1> HIDE DEF list
<1>9. Told(n, {}, frames[p], g)
  <2> DEFINE f == frames[p]
  <2> HIDE DEF f
  <2>1. f \in FrameType /\ Steady(p, f, f) /\ g = [f EXCEPT !.inbox = list] /\ Len(list) = Len(f.inbox) + 1
    BY <1>4, <1>7 DEF f
  <2> HIDE DEF g
  <2>2. /\ g \in FrameType /\ Same(f, g) /\ g.todo = f.todo /\ g.errors = f.errors
        /\ g.inbox = list /\ g.held = f.held
    BY <1>7, <2>1 DEF FrameType, Same
  <2> QED
    BY <1>1, <2>1, <2>2 DEF Told, Steady, f
<1> HIDE DEF g
<1>10. Left(n, {})
  BY <1>8, <1>9, SteadyItself DEF Left
<1>11. Reports(n, {})
  BY <1>1, <1>2, <1>3, <1>10 DEF Reports
<1>12. Globals'
  BY <1>1 DEF RunInv, Globals
<1> QED
  BY <1>11, <1>12, ReportsKept

(* The failures a scope still answers for came out of its body.            *)
LEMMA LeftBodies ==
  ASSUME RunInv, NEW n \in Running, Lone(n), frames[n].at \in {"main", "catch"},
         NEW x \in owed, NEW c \in Callees(n), c \in Within[x]
  PROVE  c \in Bodies(n) /\ (frames[n].at = "main" => c \in Range(Tree[n].main))
<1>1. x \in Nodes /\ c \in Nodes \ Roots /\ Parent[c] = n /\ n \in Nodes
  BY GlobalsAre, RunningIs DEF Callees
<1>2. n \in Within[c] /\ n # c /\ n \in Within[x]
  BY <1>1, WithinDef, WithinTransitive
<1>3. c \notin Running
  BY <1>2 DEF Lone
<1>4. Done(n, frames[n], c)
  BY <1>2, <1>3 DEF RunInv, Fresh
<1> QED
  BY <1>4 DEF Done, Bodies

LEMMA CleaningIsHandler ==
  ASSUME RunInv, NEW n \in Running, OwnsDefers(n), NEW errs \in SUBSET Errors
  PROVE  LET g == Cleaning(n, errs)
         IN /\ Handler(n, g) /\ g.at = "cleanup" /\ g.count = frames[n].count
            /\ Failing(g) <=> errs # {}
            /\ \A c \in Bodies(n) : Done(n, g, c)
<1> DEFINE f == frames[n]
           list == Entries(n)
           g == Cleaning(n, errs)
<1>1. n \in Nodes /\ Handler(n, f) /\ f \in FrameType /\ returning \in BOOLEAN
  BY RunningIs, GlobalsAre
<1>2. /\ list \in Seq(Nodes) /\ Range(list) \subseteq Callees(n) /\ IsInjective(list)
      /\ Range(list) \cap Bodies(n) = {}
  BY <1>1, EntriesSteps
<1>3. g = [f EXCEPT !.at = "cleanup", !.todo = list, !.prior = errs, !.errors = {},
                    !.ctx = "none", !.kept = returning, !.ran = <<>>]
  BY DEF Cleaning
<1>4. <<>> \in Seq(Nodes) /\ "none" \in ContextErrors /\ "cleanup" \in Labels
  BY EmptyList DEF ContextErrors, Labels
<1> HIDE DEF f, list, g
<1>5. /\ g \in FrameType /\ g.at = "cleanup" /\ g.todo = list /\ g.prior = errs /\ g.errors = {}
      /\ g.count = f.count /\ g.held = f.held
  BY <1>1, <1>2, <1>3, <1>4 DEF FrameType
<1>6. CallsOwn(n, g)
  BY <1>2, <1>5 DEF CallsOwn, Quiet, Releasing, Waits, OwnsDefers
<1>7. PhaseOf(n, g) /\ Accounts(n, g)
  BY <1>1, <1>5 DEF Handler, PhaseOf, Accounts, Waits, OwnsDefers
<1>8. Handler(n, g)
  BY <1>5, <1>6, <1>7 DEF Handler
<1>9. Failing(g) <=> errs # {}
  BY <1>5 DEF Failing
<1>10. \A c \in Bodies(n) : Done(n, g, c)
  BY <1>2, <1>5 DEF Done
<1> QED
  BY <1>5, <1>8, <1>9, <1>10 DEF f, g

(* A scope begins its cleanup.                                             *)
LEMMA CleanupKept ==
  ASSUME RunInv, NEW n \in Running, OwnsDefers(n), frames[n].todo = <<>>,
         frames[n].at \in {"main", "catch"}, NEW errs \in SUBSET Errors,
         frames' = [frames EXCEPT ![n] = Cleaning(n, errs)],
         owed' \subseteq owed, \A x \in owed \ owed' : n \in Within[x],
         errs # {} <=> Answers(n)',
         {returning, didReturn, interrupted}' \subseteq BOOLEAN,
         UNCHANGED <<active, result, live>>
  PROVE  Kept
<1> DEFINE g == Cleaning(n, errs)
<1>1. n \in Nodes /\ Kind(n) \notin {"race", "attempt"} /\ frames[n] \in FrameType
  BY RunningIs DEF OwnsDefers
<1>2. Lone(n)
  BY <1>1, QuietIsLone DEF RunInv
<1>3. /\ Handler(n, g) /\ g.at = "cleanup" /\ (Failing(g) <=> errs # {})
      /\ \A c \in Bodies(n) : Done(n, g, c)
  BY CleaningIsHandler
<1>4. \A x \in owed', c \in Callees(n) : c \in Within[x] => Done(n, g, c)
  BY <1>2, <1>3, LeftBodies
<1>5. owed' \subseteq Nodes /\ live \in Seq(Nodes)
  BY GlobalsAre
<1> HIDE DEF g
<1>6. frames' = [frames EXCEPT ![n] = g]
  BY DEF g
<1> QED
  BY <1>1, <1>2, <1>3, <1>4, <1>5, <1>6, EntersKept

LEMMA PhaseKept ==
  ASSUME RunInv, NEW n \in Running, MainEnds(n) \/ TryEnds(n) \/ CatchEnds(n)
  PROVE  Kept
<1> DEFINE f == frames[n]
<1>1. /\ Kind(n) \in {"run", "executor", "worktree", "try"} /\ f.todo = <<>>
      /\ f.at \in {"main", "catch"} /\ OwnsDefers(n)
      /\ UNCHANGED <<didReturn, active, interrupted, result, live>>
  BY DEF MainEnds, TryEnds, CatchEnds, Idle, outcomes, history, OwnsDefers
<1>2. /\ n \in Nodes /\ n \in Within[n] /\ Handler(n, f) /\ f \in FrameType
      /\ f.errors \in SUBSET Errors /\ f.prior \in SUBSET Errors
  BY RunningIs DEF FrameType
<1>3. Lone(n)
  BY <1>1, QuietIsLone DEF RunInv
<1>4. Failing(f) <=> Answers(n)
  BY <1>1, <1>3, LoneAnswers
<1>5. {returning, didReturn, interrupted} \subseteq BOOLEAN /\ owed \subseteq Nodes /\ live \in Seq(Nodes)
  BY GlobalsAre
<1>6. f.at = "main" => (Failing(f) <=> f.errors # {})
  BY <1>2 DEF Handler, Accounts, Failing
<1>7. CASE MainEnds(n)
  <2>1. /\ frames' = [frames EXCEPT ![n] = Cleaning(n, f.errors)] /\ f.at = "main"
        /\ returning' = FALSE /\ owed' = owed
    BY <1>7 DEF MainEnds, history
  <2>2. f.errors # {} <=> Answers(n)'
    BY <1>4, <1>6, <2>1 DEF Answers
  <2> QED
    BY <1>1, <1>2, <1>5, <2>1, <2>2, CleanupKept
<1>8. CASE TryEnds(n)
  <2>1. f.at = "main" /\ owed' = owed /\ returning' = returning /\ Kind(n) = "try"
    BY <1>8 DEF TryEnds, history, outcomes
  <2>2. CASE ~ShouldCatch(n)
    <3>1. frames' = [frames EXCEPT ![n] = Cleaning(n, f.errors)]
      BY <1>8, <2>2 DEF TryEnds
    <3>2. f.errors # {} <=> Answers(n)'
      BY <1>4, <1>6, <2>1 DEF Answers
    <3> QED
      BY <1>1, <1>2, <1>5, <2>1, <3>1, <3>2, CleanupKept
  <2>3. CASE ShouldCatch(n)
    <3> DEFINE list == Tree[n].rest
               g == [f EXCEPT !.at = "catch", !.todo = list, !.prior = f.errors,
                              !.errors = {}, !.worked = FALSE, !.ran = <<>>]
    <3>1. frames' = [frames EXCEPT ![n] = g]
      BY <1>8, <2>3 DEF TryEnds
    <3>2. /\ Range(list) \subseteq Callees(n) /\ list \in Seq(Nodes) /\ IsInjective(list)
          /\ Range(Tree[n].main) \cap Range(list) = {} /\ <<>> \in Seq(Nodes)
          /\ Range(list) \subseteq Bodies(n) /\ Range(Tree[n].main) \subseteq Bodies(n)
      <4>1. /\ list \in Seq(Nodes \ Roots) /\ Range(list) \subseteq Callees(n)
            /\ Range(Tree[n].main) \subseteq Bodies(n)
        BY <1>2, ChildrenAreSteps, BodiesAreCallees
      <4>2. Range(list) \subseteq Nodes
        BY <4>1 DEF Callees
      <4>3. list \in Seq(Nodes)
        BY <4>1, <4>2, SubSequence
      <4>4. Range(list) \subseteq Bodies(n)
        BY <2>1 DEF Bodies
      <4> QED
        BY <1>2, <4>1, <4>3, <4>4, PartsDistinct, EmptyList
    <3>3. f.errors # {}
      BY <2>3 DEF ShouldCatch
    <3> HIDE DEF f, list
    <3>4. /\ g \in FrameType /\ g.at = "catch" /\ g.todo = list /\ g.prior = f.errors
          /\ g.errors = {} /\ g.count = f.count /\ g.held = f.held
      BY <1>2, <3>2 DEF FrameType, Labels
    <3> HIDE DEF g
    <3>5. CallsOwn(n, g)
      BY <2>1, <3>2, <3>4 DEF CallsOwn, Quiet, Releasing, Waits, list
    <3>6. PhaseOf(n, g) /\ Accounts(n, g)
      BY <1>2, <2>1, <3>3, <3>4 DEF Handler, PhaseOf, Accounts, Waits
    <3>7. Handler(n, g)
      BY <3>4, <3>5, <3>6 DEF Handler
    <3>8. Failing(g) <=> Answers(n)'
      BY <1>4, <1>6, <2>1, <3>3, <3>4 DEF Failing, Answers
    <3>9. ASSUME NEW x \in owed, NEW c \in Callees(n), c \in Within[x] PROVE Done(n, g, c)
      <4>1. c \in Range(Tree[n].main)
        BY <1>1, <1>3, <2>1, <3>9, LeftBodies DEF f
      <4> QED
        BY <3>2, <3>4, <4>1 DEF Done
    <3> QED
      BY <1>1, <1>3, <1>5, <2>1, <3>1, <3>4, <3>7, <3>8, <3>9, EntersKept
  <2> QED
    BY <2>2, <2>3
<1>9. CASE CatchEnds(n)
  <2>1. f.at = "catch" /\ returning' = returning /\ f.prior # {} /\ Failing(f)
    BY <1>2, <1>9 DEF CatchEnds, outcomes, Handler, Accounts, Failing
  <2> DEFINE effective == IF Recovered(f) THEN {}
                          ELSE IF f.errors # {} /\ (f.ctx # "none" \/ "canceled" \in f.errors)
                               THEN f.errors ELSE f.prior \cup f.errors
  <2>2. /\ frames' = [frames EXCEPT ![n] = Cleaning(n, effective)]
        /\ owed' = IF Recovered(f) THEN owed \ Under[n] ELSE owed
    BY <1>9 DEF CatchEnds, Recovered
  <2>3. effective \in SUBSET Errors /\ (effective = {} <=> Recovered(f))
    BY <1>2, <2>1
  <2>4. CASE Recovered(f)
    <3>1. owed' = owed \ Under[n]
      BY <2>2, <2>4
    <3>2. owed' \subseteq owed /\ ~Answers(n)' /\ \A x \in owed \ owed' : n \in Within[x]
      BY <1>2, <3>1, OwedUnder
    <3> HIDE DEF effective
    <3> QED
      BY <1>1, <1>5, <2>1, <2>2, <2>3, <2>4, <3>2, CleanupKept
  <2>5. CASE ~Recovered(f)
    <3>1. owed' = owed /\ Answers(n)'
      BY <1>4, <2>1, <2>2, <2>5 DEF Answers
    <3> HIDE DEF effective
    <3> QED
      BY <1>1, <1>5, <2>1, <2>2, <2>3, <2>5, <3>1, CleanupKept
  <2> QED
    BY <2>4, <2>5
<1> QED
  BY <1>7, <1>8, <1>9

(* What the end of a context leaves of a handler.                          *)
Stopped(f, g) ==
  /\ g \in FrameType /\ g.at = f.at /\ g.todo = f.todo /\ g.prior = f.prior /\ g.held = f.held
  /\ g.errors = f.errors /\ g.count = f.count /\ g.inbox = f.inbox /\ g.kept = f.kept
  /\ f.ctx # "none" => g.ctx = f.ctx
  /\ f.outer # "none" => g.outer = f.outer

LEMMA EndIs ==
  ASSUME NEW fs, NEW p, NEW cause \in {"canceled", "deadline"}
  PROVE  LET gs == End(fs, p, cause)
         IN /\ DOMAIN gs = DOMAIN fs
            /\ \A m \in DOMAIN fs : fs[m] \in FrameType => Stopped(fs[m], gs[m])
<1> DEFINE gs == End(fs, p, cause)
           First(old) == IF old = "none" THEN cause ELSE old
<1>1. /\ DOMAIN gs = DOMAIN fs
      /\ \A m \in DOMAIN fs :
           gs[m] = IF m \in Reached(fs, p)
                   THEN [fs[m] EXCEPT !.ctx = First(fs[m].ctx), !.outer = First(fs[m].outer)]
                   ELSE fs[m]
  BY DEF End
<1>2. ASSUME NEW f \in FrameType
      PROVE  /\ Stopped(f, f)
             /\ Stopped(f, [f EXCEPT !.ctx = First(f.ctx), !.outer = First(f.outer)])
  <2> DEFINE c == First(f.ctx)
             o == First(f.outer)
             g == [f EXCEPT !.ctx = c, !.outer = o]
  <2>1. /\ c \in ContextErrors /\ o \in ContextErrors
        /\ f.ctx # "none" => c = f.ctx
        /\ f.outer # "none" => o = f.outer
    BY DEF FrameType, ContextErrors
  <2> HIDE DEF c, o
  <2>2. /\ g \in FrameType /\ g.at = f.at /\ g.todo = f.todo /\ g.prior = f.prior /\ g.held = f.held
        /\ g.errors = f.errors /\ g.count = f.count /\ g.inbox = f.inbox /\ g.kept = f.kept
        /\ g.ctx = c /\ g.outer = o
    BY <2>1 DEF FrameType
  <2> HIDE DEF g
  <2>3. Stopped(f, g)
    BY <2>1, <2>2 DEF Stopped
  <2> QED
    BY <2>3 DEF Stopped, g, c, o
<1> HIDE DEF gs, First
<1> QED
  BY <1>1, <1>2 DEF gs

(* Only contexts, and what a race has read, are not as they were.          *)
LEMMA StoppedKept ==
  ASSUME RunInv, DOMAIN frames' = Running,
         \A m \in Running : Kind(m) # "race" => Stopped(frames[m], frames'[m]),
         \A m \in Running : Kind(m) = "race" =>
           LET f == frames[m]
               g == frames'[m]
           IN /\ g \in FrameType /\ g.at = f.at /\ g.todo = f.todo /\ g.prior = f.prior
              /\ g.held = f.held /\ (f.ctx # "none" => g.ctx # "none")
              /\ f.outer # "none" => g.outer # "none"
              /\ g.count + Len(g.inbox) = f.count + Len(f.inbox),
         UNCHANGED <<returning, didReturn, active, result, owed, live>>,
         interrupted' \in BOOLEAN
  PROVE  Kept
<1>1. Worsens
  BY DEF Worsens, Stopped
<1>2. Globals'
  BY DEF RunInv, Globals
<1> QED
  BY <1>1, <1>2, WorsensKept

LEMMA AllStoppedKept ==
  ASSUME RunInv, DOMAIN frames' = Running,
         \A m \in Running : Stopped(frames[m], frames'[m]),
         UNCHANGED <<returning, didReturn, active, result, owed, live>>,
         interrupted' \in BOOLEAN
  PROVE  Kept
  BY StoppedKept DEF Stopped

LEMMA ContextKept ==
  ASSUME RunInv, NEW n \in Running, Interrupt(n) \/ TimesOut(n) \/ Elapses(n)
  PROVE  Kept
<1>1. UNCHANGED <<returning, didReturn, active, result, owed, live>> /\ interrupted' \in BOOLEAN
  BY GlobalsAre DEF Interrupt, TimesOut, Elapses, outcomes, history
<1>2. DOMAIN frames = Running /\ \A m \in Running : frames[m] \in FrameType
  BY RunningIs DEF Running
<1>3. ASSUME NEW cause \in {"canceled", "deadline"}
      PROVE  LET gs == End(frames, n, cause)
             IN DOMAIN gs = Running /\ \A m \in Running : Stopped(frames[m], gs[m])
  BY <1>2, EndIs
<1>4. CASE frames' = End(frames, n, "canceled") \/ frames' = End(frames, n, "deadline")
  BY <1>1, <1>3, <1>4, AllStoppedKept
<1>5. CASE frames' = [End(frames, n, "deadline") EXCEPT ![n].outer = frames[n].outer]
  <2> DEFINE gs == End(frames, n, "deadline")
             f == frames[n]
             h == gs[n]
             g == [h EXCEPT !.outer = f.outer]
  <2>1. DOMAIN gs = Running /\ \A m \in Running : Stopped(frames[m], gs[m])
    BY <1>3
  <2> HIDE DEF gs
  <2>2. DOMAIN frames' = Running /\ frames'[n] = g /\ \A m \in Running \ {n} : frames'[m] = gs[m]
    BY <1>5, <2>1 DEF gs
  <2>3. Stopped(f, h) /\ f \in FrameType
    BY <1>2, <2>1
  <2> HIDE DEF f, h
  <2>4. Stopped(f, g)
    BY <2>3 DEF Stopped, FrameType
  <2> HIDE DEF g
  <2>5. \A m \in Running : Stopped(frames[m], frames'[m])
    BY <2>1, <2>2, <2>4 DEF f
  <2> QED
    BY <1>1, <2>2, <2>5, AllStoppedKept
<1> QED
  BY <1>4, <1>5 DEF Interrupt, TimesOut, Elapses

LEMMA CompletesStops ==
  ASSUME RunInv, NEW n \in Running, Completes(n)
  PROVE  /\ DOMAIN frames' = Running
         /\ \A m \in Running : Kind(m) # "race" => Stopped(frames[m], frames'[m])
         /\ \A m \in Running : Kind(m) = "race" =>
              LET f == frames[m]
                  g == frames'[m]
              IN /\ g \in FrameType /\ g.at = f.at /\ g.todo = f.todo /\ g.prior = f.prior
                 /\ g.held = f.held /\ g.kept = f.kept /\ (f.ctx # "none" => g.ctx # "none")
                 /\ f.outer # "none" => g.outer # "none"
                 /\ g.count + Len(g.inbox) = f.count + Len(f.inbox)
<1> DEFINE f == frames[n]
           item == Head(f.inbox)
           wins == ~item.failed /\ item.eligible /\ f.winner = NoNode
           list == Tail(f.inbox)
           winner == IF wins THEN item.branch ELSE f.winner
           errs == IF item.failed THEN f.errors \cup {item.branch} ELSE f.errors
           count == f.count + 1
           g == [f EXCEPT !.inbox = list, !.count = count, !.winner = winner, !.errors = errs]
           read == [frames EXCEPT ![n] = g]
<1>1. Kind(n) = "race" /\ f.inbox # <<>>
  BY DEF Completes
<1>2. frames' = IF wins \/ item.failed THEN End(read, n, "canceled") ELSE read
  <2> DEFINE same == [frames EXCEPT ![n].inbox = Tail(@), ![n].count = @ + 1,
                                    ![n].winner = IF wins THEN item.branch ELSE @,
                                    ![n].errors = IF item.failed THEN @ \cup {item.branch} ELSE @]
  <2>1. frames' = IF wins \/ item.failed THEN End(same, n, "canceled") ELSE same
    BY DEF Completes
  <2>2. same = read
    OBVIOUS
  <2> HIDE DEF same, read
  <2> QED
    BY <2>1, <2>2
<1>3. f \in FrameType /\ f.inbox \in Seq(Items) /\ f.count \in Nat /\ f.errors \in SUBSET Errors
      /\ f.winner \in Nodes \cup {NoNode}
  BY RunningIs DEF FrameType
<1>4. /\ list \in Seq(Items) /\ item \in Items /\ Len(list) \in Nat /\ Len(f.inbox) = Len(list) + 1
  <2>1. list \in Seq(Items) /\ item \in Range(f.inbox)
    BY <1>1, <1>3, TailType
  <2>2. item \in Items
    BY <1>3, <2>1, LenProperties DEF Range
  <2>3. Len(f.inbox) \in Nat /\ Len(list) = Len(f.inbox) - 1 /\ Len(list) \in Nat
    BY <1>1, <1>3, <2>1, HeadTailProperties, LenProperties
  <2> QED
    BY <2>1, <2>2, <2>3
<1>5. winner \in Nodes \cup {NoNode} /\ errs \in SUBSET Errors /\ count \in Nat /\ count = f.count + 1
  BY <1>3, <1>4 DEF Items, Errors
<1> HIDE DEF f, list, winner, errs, item, wins, count
<1>6. /\ g \in FrameType /\ g.at = f.at /\ g.todo = f.todo /\ g.prior = f.prior /\ g.held = f.held
      /\ g.ctx = f.ctx /\ g.outer = f.outer /\ g.count = count /\ g.inbox = list
      /\ g.kept = f.kept
  BY <1>3, <1>4, <1>5 DEF FrameType
<1>7. g.count + Len(g.inbox) = f.count + Len(f.inbox)
  BY <1>3, <1>4, <1>5, <1>6
<1> HIDE DEF g
<1>8. /\ DOMAIN read = Running /\ read[n] = g
      /\ \A m \in Running \ {n} : read[m] = frames[m]
      /\ \A m \in Running : read[m] \in FrameType
  BY <1>6, RunningIs DEF Running
<1> HIDE DEF read
<1>9. DOMAIN frames' = Running /\ \A m \in Running : Stopped(read[m], frames'[m])
  <2>1. CASE wins \/ item.failed
    BY <1>2, <1>8, <2>1, EndIs
  <2>2. CASE ~(wins \/ item.failed)
    BY <1>2, <1>8, <2>2 DEF Stopped
  <2> QED
    BY <2>1, <2>2
<1>10. ASSUME NEW m \in Running, Kind(m) = "race"
       PROVE  /\ frames'[m] \in FrameType /\ frames'[m].at = frames[m].at
              /\ frames'[m].todo = frames[m].todo /\ frames'[m].prior = frames[m].prior
              /\ frames'[m].held = frames[m].held /\ frames'[m].kept = frames[m].kept
              /\ frames[m].ctx # "none" => frames'[m].ctx # "none"
              /\ frames[m].outer # "none" => frames'[m].outer # "none"
              /\ frames'[m].count + Len(frames'[m].inbox) = frames[m].count + Len(frames[m].inbox)
  <2>1. Stopped(read[m], frames'[m])
    BY <1>9
  <2>2. CASE m = n
    BY <1>6, <1>7, <1>8, <2>1, <2>2 DEF Stopped, f
  <2>3. CASE m # n
    BY <1>8, <2>1, <2>3 DEF Stopped
  <2> QED
    BY <2>2, <2>3
<1>11. \A m \in Running : Kind(m) # "race" => Stopped(frames[m], frames'[m])
  BY <1>1, <1>8, <1>9
<1> QED
  BY <1>9, <1>10, <1>11

LEMMA CompletesKept ==
  ASSUME RunInv, NEW n \in Running, Completes(n)
  PROVE  Kept
<1>1. UNCHANGED <<returning, didReturn, active, interrupted, result, owed, live>>
  BY DEF Completes, outcomes, history
<1>2. interrupted' \in BOOLEAN
  BY <1>1, GlobalsAre
<1> QED
  BY <1>1, <1>2, CompletesStops, StoppedKept

LEMMA StutterKept ==
  ASSUME RunInv, UNCHANGED vars
  PROVE  Kept
<1>1. /\ frames' = frames /\ UNCHANGED <<returning, didReturn, active, result, owed, live>>
      /\ interrupted' \in BOOLEAN
  BY GlobalsAre DEF vars, outcomes, history
<1>2. DOMAIN frames' = Running /\ \A m \in Running : Stopped(frames[m], frames'[m])
  BY <1>1, RunningIs DEF Running, Stopped
<1> QED
  BY <1>1, <1>2, AllStoppedKept

LEMMA RunEndsAndIsKept ==
  ASSUME RunInv, NEW n \in Running, RunEnds(n)
  PROVE  Kept
<1>1. /\ UNCHANGED <<returning, didReturn, active, interrupted, owed, live>>
      /\ result' \in {"succeeded", "failed"}
  BY DEF RunEnds, outcomes, history
<1>2. Globals'
  BY <1>1 DEF RunInv, Globals
<1> QED
  BY <1>2, RunEndsKept

(* Every step keeps the invariant, and the two promises.                   *)
LEMMA RunInvKept == RunInv /\ [Next]_vars => Kept
<1> SUFFICES ASSUME RunInv, [Next]_vars PROVE Kept
  OBVIOUS
<1>1. ASSUME NEW n \in Called, Call(n) PROVE Kept
  BY <1>1, CallKept
<1>2. ASSUME NEW n \in Running, Continue(n) PROVE Kept
  BY <1>2, StepKept, SequenceKept, PhaseKept, ReleasesKept, RunEndsAndIsKept, PassEndsKept,
     BetweenPassesKept, AttemptKept, LoopKept, BranchPanicsKept, CompletesKept, RaceEndsKept
  DEF Continue
<1>3. ASSUME NEW n \in Running, Interrupt(n) \/ TimesOut(n) \/ Elapses(n) PROVE Kept
  BY <1>3, ContextKept
<1>4. CASE UNCHANGED vars
  BY <1>4, StutterKept
<1> QED
  BY <1>1, <1>2, <1>3, <1>4 DEF Next, Advances, Finished

LEMMA InitRunInv == Init => RunInv
<1> SUFFICES ASSUME Init PROVE RunInv
  OBVIOUS
<1>1. PICK r \in Roots : frames = [n \in {r} |-> Frame(n, "none")]
  BY DEF Init
<1>2. /\ returning = FALSE /\ didReturn = FALSE /\ active = {} /\ interrupted = FALSE
      /\ result = "running" /\ owed = {} /\ live = <<>>
  BY DEF Init
<1>3. r \in Nodes /\ Kind(r) = "run" /\ Tree[r].max \in Nat \ {0}
  BY TreeAssumption
<1>4. Running = {r} /\ frames[r] = Frame(r, "none")
  BY <1>1 DEF Running
<1>5. 1 \in Nat /\ 1 <= Tree[r].max /\ "none" \in ContextErrors
  BY <1>3 DEF ContextErrors
<1>6. Handler(r, frames[r]) /\ ~Failing(frames[r]) /\ frames[r].at = "main"
  BY <1>3, <1>4, <1>5, FrameIsHandler
<1>7. Globals
  BY <1>2, EmptyList DEF Globals
<1>8. Nested /\ OneRun /\ Raced /\ Discarded
  BY <1>3, <1>4, <1>6 DEF Nested, OneRun, Raced, Discarded
<1>9. Tracked /\ Fresh /\ Attached /\ Ended
  BY <1>2, <1>4, <1>6 DEF Tracked, Fresh, Attached, Ended
<1> QED
  BY <1>7, <1>8, <1>9 DEF RunInv

(* What holds of a run in every state: handlers are nested as the tree is, *)
(* a handler has an error exactly when a failure below it has not been made*)
(* up for, and every such failure has somebody to report it.               *)
THEOREM RunInvariance == Spec => []RunInv
<1>1. RunInv /\ [Next]_vars => RunInv'
  BY RunInvKept DEF Kept
<1> QED
  BY <1>1, InitRunInv, PTL DEF Spec

(* Every value of the run's state has its type.                            *)
THEOREM RunTypeCorrect == Spec => []TypeOK
<1>1. RunInv => TypeOK
  <2> SUFFICES ASSUME RunInv PROVE TypeOK
    OBVIOUS
  <2>1. ASSUME NEW n \in Running
        PROVE  LET f == frames[n]
               IN /\ f.at \in {"main", "catch", "cleanup", "retryWait", "pollWait"} \cup Releasing
                  /\ f.errors \cup f.prior \subseteq Errors /\ {f.ctx, f.outer} \subseteq ContextErrors
                  /\ f.count <= IF Kind(n) = "race" THEN Len(Tree[n].main) ELSE Tree[n].max
                  /\ f.winner \in Nodes \cup {NoNode} /\ {f.kept, f.worked} \subseteq BOOLEAN
                  /\ n \in Roots \/ Parent[n] \in Running
    <3> DEFINE f == frames[n]
    <3>1. /\ n \in Nodes /\ Handler(n, f) /\ f \in FrameType
          /\ n \in Roots \/ Parent[n] \in Running
      BY RunningIs
    <3>2. CASE Kind(n) = "race"
      <4>1. /\ f.count \in Nat /\ Len(f.inbox) \in Nat /\ Cardinality(Branches(n)) \in Nat
            /\ f.count + Len(f.inbox) + Cardinality(Branches(n)) = Len(Tree[n].main)
        BY <3>1, <3>2, FiniteBranches, LenProperties DEF RunInv, Raced, FrameType
      <4>2. f.count <= Len(Tree[n].main)
        BY <4>1
      <4> QED
        BY <3>1, <3>2, <4>2 DEF FrameType, Labels, Quiet, Waits
    <3>3. CASE Kind(n) # "race"
      BY <3>1, <3>3 DEF FrameType, Labels, Quiet, Waits, Handler, PhaseOf
    <3> QED
      BY <3>2, <3>3
  <2>2. DOMAIN frames \subseteq Nodes /\ Range(live) \subseteq Nodes
    BY GlobalsAre, LenProperties DEF RunInv, Nested, Running, Range
  <2> QED
    BY <2>1, <2>2 DEF TypeOK, RunInv, Globals
<1> QED
  BY <1>1, RunInvariance, PTL

(* The run succeeds exactly when every failure in it was made up for.      *)
THEOREM OutcomeIsHonest == Spec => []OutcomeHonest
<1>1. RunInv => OutcomeHonest
  BY DEF RunInv, Ended, OutcomeHonest
<1> QED
  BY <1>1, RunInvariance, PTL

(* An attempt begins another numbered pass only after one that failed.     *)
THEOREM PassesThatCompleteStay == Spec => CompletedNotRepeated
<1>1. RunInv /\ [Next]_vars =>
        [\A n \in Running \cap DOMAIN frames' :
           Kind(n) = "attempt" /\ frames'[n].count > frames[n].count => frames[n].prior # {}]_vars
  BY RunInvKept DEF Kept, OnlyFailedRepeats
<1> QED
  BY <1>1, RunInvariance, PTL DEF Spec, CompletedNotRepeated

(* A race waits for its branches, and succeeds only if its context is live *)
(* and no branch panicked.                                                 *)
THEOREM RacesAreHonest == Spec => RaceHonest
<1>1. RunInv /\ [Next]_vars =>
        [\A n \in Running \ DOMAIN frames' : Kind(n) = "race" =>
           /\ Under[n] \cap DOMAIN frames' = {}
           /\ Under[n] \cap owed' = {} => Ctx(n) = "none" /\ frames[n].errors = {}]_vars
  BY RunInvKept DEF Kept, RacesAreOver
<1> QED
  BY <1>1, RunInvariance, PTL DEF Spec, RaceHonest

-----------------------------------------------------------------------------
(* Resources: where each of them is registered.  who and spot say of each  *)
(* place in the list of live resources which handler has it, and where.    *)
Ahead(who, spot, i, j) ==
  \/ who[i] = who[j] /\ spot[i] < spot[j]
  \/ who[i] # who[j] /\ who[i] \in Within[who[j]]

Placed(list, held, who, spot) ==
  /\ list \in Seq(Nodes) /\ held \in [Nodes -> Seq(Nodes)]
  /\ \A i \in 1..Len(list) : /\ who[i] \in Nodes /\ spot[i] \in 1..Len(held[who[i]])
                             /\ held[who[i]][spot[i]] = list[i]
  /\ \A i, j \in 1..Len(list) : who[i] = who[j] /\ spot[i] = spot[j] => i = j
  /\ \A n \in Nodes : \A k \in 1..Len(held[n]) :
       \E i \in 1..Len(list) : who[i] = n /\ spot[i] = k
  /\ \A i, j \in 1..Len(list) :
       i < j => Concurrent(list[i], list[j]) \/ Ahead(who, spot, i, j)

(* A resource is acquired.                                                 *)
LEMMA AcquiredPlaces ==
  ASSUME NEW list, NEW held, NEW who, NEW spot, Placed(list, held, who, spot),
         NEW k \in Nodes, NEW r \in Nodes,
         \A i \in 1..Len(list) : Concurrent(list[i], r) \/ who[i] \in Within[k],
         NEW more, more = [held EXCEPT ![k] = Append(held[k], r)]
  PROVE  \E w, s : Placed(Append(list, r), more, w, s)
<1> DEFINE m == Len(list)
           c == Len(held[k])
           longer == Append(list, r)
           w == [i \in 1..m + 1 |-> IF i = m + 1 THEN k ELSE who[i]]
           s == [i \in 1..m + 1 |-> IF i = m + 1 THEN c + 1 ELSE spot[i]]
<1>1. /\ list \in Seq(Nodes) /\ held \in [Nodes -> Seq(Nodes)] /\ held[k] \in Seq(Nodes)
      /\ m \in Nat /\ c \in Nat
  BY LenProperties DEF Placed
<1>2. /\ longer \in Seq(Nodes) /\ Len(longer) = m + 1 /\ longer[m + 1] = r
      /\ \A i \in 1..m : longer[i] = list[i]
  BY <1>1, AppendProperties
<1>3. /\ more \in [Nodes -> Seq(Nodes)] /\ more[k] \in Seq(Nodes) /\ Len(more[k]) = c + 1
      /\ more[k][c + 1] = r /\ \A i \in 1..c : more[k][i] = held[k][i]
      /\ \A n \in Nodes \ {k} : more[n] = held[n]
  BY <1>1, AppendProperties
<1>4. \A i \in 1..m : who[i] \in Nodes /\ spot[i] \in 1..Len(held[who[i]]) /\ held[who[i]][spot[i]] = list[i]
  BY DEF Placed
<1>5. /\ \A i \in 1..m : i \in 1..m + 1 /\ i # m + 1 /\ w[i] = who[i] /\ s[i] = spot[i]
      /\ m + 1 \in 1..m + 1 /\ w[m + 1] = k /\ s[m + 1] = c + 1
      /\ \A i \in 1..m + 1 : i = m + 1 \/ i \in 1..m
  BY <1>1
<1> HIDE DEF m, c, longer, w, s
<1>6. \A i \in 1..m : who[i] = k => spot[i] \in 1..c /\ spot[i] # c + 1 /\ spot[i] < c + 1
  <2>1. \A j \in 1..c : j # c + 1 /\ j < c + 1
    BY <1>1
  <2> QED
    BY <1>4, <2>1 DEF c
<1>7. \A i \in 1..m + 1 : /\ w[i] \in Nodes /\ s[i] \in 1..Len(more[w[i]])
                          /\ more[w[i]][s[i]] = longer[i]
  <2>1. ASSUME NEW i \in 1..m
        PROVE  who[i] \in Nodes /\ spot[i] \in 1..Len(more[who[i]]) /\ more[who[i]][spot[i]] = list[i]
    <3>1. CASE who[i] = k
      <4>1. \A j \in 1..c : j \in 1..c + 1
        BY <1>1
      <4> QED
        BY <1>3, <1>4, <1>6, <3>1, <4>1
    <3>2. CASE who[i] # k
      BY <1>3, <1>4, <3>2
    <3> QED
      BY <3>1, <3>2
  <2>2. c + 1 \in 1..c + 1
    BY <1>1
  <2> QED
    BY <1>2, <1>3, <1>5, <2>1, <2>2
<1>8. \A i, j \in 1..m + 1 : w[i] = w[j] /\ s[i] = s[j] => i = j
  <2>1. \A i, j \in 1..m : who[i] = who[j] /\ spot[i] = spot[j] => i = j
    BY DEF Placed, m
  <2> QED
    BY <1>5, <1>6, <2>1
<1>9. ASSUME NEW n \in Nodes, NEW x \in 1..Len(more[n])
      PROVE  \E i \in 1..m + 1 : w[i] = n /\ s[i] = x
  <2>1. ASSUME x \in 1..Len(held[n]) PROVE \E i \in 1..m : who[i] = n /\ spot[i] = x
    BY <2>1 DEF Placed, m
  <2>2. \A y \in 1..c + 1 : y = c + 1 \/ y \in 1..c
    BY <1>1
  <2>3. CASE n = k
    BY <1>3, <1>5, <2>1, <2>2, <2>3 DEF c
  <2>4. CASE n # k
    BY <1>3, <1>5, <2>1, <2>4
  <2> QED
    BY <2>3, <2>4
<1>10. ASSUME NEW i \in 1..m + 1, NEW j \in 1..m + 1, i < j
       PROVE  Concurrent(longer[i], longer[j]) \/ Ahead(w, s, i, j)
  <2>1. i \in 1..m /\ longer[i] = list[i] /\ w[i] = who[i] /\ s[i] = spot[i]
    <3>1. i # m + 1
      BY <1>1, <1>10
    <3> QED
      BY <1>2, <1>5, <3>1
  <2>2. CASE j = m + 1
    <3>1. Concurrent(list[i], r) \/ who[i] \in Within[k]
      BY <2>1 DEF m
    <3> QED
      BY <1>2, <1>5, <1>6, <2>1, <2>2, <3>1 DEF Ahead
  <2>3. CASE j \in 1..m
    <3>1. Concurrent(list[i], list[j]) \/ Ahead(who, spot, i, j)
      BY <1>10, <2>1, <2>3 DEF Placed, m
    <3> QED
      BY <1>2, <1>5, <2>1, <2>3, <3>1 DEF Ahead
  <2> QED
    BY <1>5, <2>2, <2>3
<1>11. Placed(longer, more, w, s)
  <2>1. \A n \in Nodes : \A x \in 1..Len(more[n]) : \E i \in 1..Len(longer) : w[i] = n /\ s[i] = x
    BY <1>2, <1>9
  <2>2. \A i, j \in 1..Len(longer) : i < j => Concurrent(longer[i], longer[j]) \/ Ahead(w, s, i, j)
    BY <1>2, <1>10
  <2>3. longer \in Seq(Nodes) /\ more \in [Nodes -> Seq(Nodes)] /\ Len(longer) = m + 1
    BY <1>2, <1>3
  <2> QED
    BY <1>7, <1>8, <2>1, <2>2, <2>3, Zenon DEF Placed
<1> QED
  BY <1>11 DEF longer

(* A pass hands its resources over to the scope around it.                 *)
LEMMA AdoptedPlaces ==
  ASSUME NEW list, NEW held, NEW who, NEW spot, Placed(list, held, who, spot),
         NEW n \in Nodes, NEW k \in Within[n], k # n,
         \A m \in Nodes : held[m] # <<>> /\ m \in Within[n] /\ m # n => m \in Within[k],
         \A m \in Nodes : held[m] # <<>> /\ n \in Within[m] => m = n,
         NEW more, more = [held EXCEPT ![n] = <<>>, ![k] = held[k] \o held[n]]
  PROVE  \E w, s : Placed(list, more, w, s)
<1> DEFINE c == Len(held[k])
           d == Len(held[n])
           L == 1..Len(list)
           w == [i \in L |-> IF who[i] = n THEN k ELSE who[i]]
           s == [i \in L |-> IF who[i] = n THEN c + spot[i] ELSE spot[i]]
<1>1. /\ list \in Seq(Nodes) /\ held \in [Nodes -> Seq(Nodes)] /\ k \in Nodes /\ k \in Within[k]
      /\ held[k] \in Seq(Nodes) /\ held[n] \in Seq(Nodes) /\ c \in Nat /\ d \in Nat
      /\ n \notin Within[k]
  BY LenProperties, WithinDef, WithinAntisymmetric DEF Placed
<1>2. <<>> \in Seq(Nodes) /\ Len(<<>>) = 0 /\ 1..0 = {}
  OBVIOUS
<1>3. /\ held[k] \o held[n] \in Seq(Nodes) /\ Len(held[k] \o held[n]) = c + d
      /\ \A i \in 1..c + d : (held[k] \o held[n])[i] = IF i <= c THEN held[k][i] ELSE held[n][i - c]
  BY <1>1, ConcatProperties
<1>4. /\ more \in [Nodes -> Seq(Nodes)] /\ more[n] = <<>> /\ more[k] = held[k] \o held[n]
      /\ \A m \in Nodes \ {n, k} : more[m] = held[m]
  BY <1>1, <1>2, <1>3
<1>5. \A i \in L : who[i] \in Nodes /\ spot[i] \in 1..Len(held[who[i]]) /\ held[who[i]][spot[i]] = list[i]
  BY DEF Placed
<1>6. \A i \in L : held[who[i]] # <<>>
  BY <1>2, <1>5
<1>7. /\ \A i \in L : who[i] = n => /\ w[i] = k /\ s[i] = c + spot[i] /\ spot[i] \in 1..d
                                    /\ held[n][spot[i]] = list[i]
      /\ \A i \in L : who[i] # n => w[i] = who[i] /\ s[i] = spot[i]
      /\ \A i \in L : who[i] = k => spot[i] \in 1..c /\ held[k][spot[i]] = list[i]
  BY <1>5
<1> HIDE DEF c, d, L, w, s
<1>8. /\ \A x \in 1..d : c + x \in 1..c + d /\ c + x \notin 1..c /\ ~(c + x <= c) /\ (c + x) - c = x
      /\ \A x \in 1..c : x \in 1..c + d /\ x <= c
      /\ \A x \in 1..c + d : x \in 1..c \/ (x - c \in 1..d /\ c + (x - c) = x)
      /\ \A x, y \in 1..d : (x < y => c + x < c + y) /\ (c + x = c + y => x = y)
      /\ \A x \in 1..c, y \in 1..d : x < c + y
  BY <1>1
<1>9. ASSUME NEW i \in L
      PROVE  w[i] \in Nodes /\ s[i] \in 1..Len(more[w[i]]) /\ more[w[i]][s[i]] = list[i]
  <2>1. CASE who[i] = n
    <3>1. w[i] = k /\ s[i] = c + spot[i] /\ spot[i] \in 1..d /\ held[n][spot[i]] = list[i]
      BY <1>7, <2>1
    <3> DEFINE y == c + spot[i]
    <3>2. y \in 1..c + d /\ ~(y <= c) /\ y - c = spot[i]
      BY <1>8, <3>1
    <3> HIDE DEF y
    <3>3. (held[k] \o held[n])[y] = held[n][spot[i]]
      BY <1>3, <3>2
    <3>4. s[i] = y
      BY <3>1 DEF y
    <3> QED
      BY <1>1, <1>3, <1>4, <3>1, <3>2, <3>3, <3>4
  <2>2. CASE who[i] = k
    <3>1. w[i] = k /\ s[i] = spot[i] /\ spot[i] \in 1..c /\ held[k][spot[i]] = list[i]
      BY <1>1, <1>7, <2>2
    <3>2. (held[k] \o held[n])[spot[i]] = held[k][spot[i]] /\ spot[i] \in 1..c + d
      BY <1>3, <1>8, <3>1
    <3> QED
      BY <1>1, <1>3, <1>4, <3>1, <3>2
  <2>3. CASE who[i] \notin {n, k}
    BY <1>4, <1>5, <1>7, <2>3, SMTT(30)
  <2> QED
    BY <2>1, <2>2, <2>3
<1>10. ASSUME NEW i \in L, NEW j \in L, w[i] = w[j], s[i] = s[j] PROVE i = j
  <2>1. who[i] = who[j] /\ spot[i] = spot[j] => i = j
    BY DEF Placed, L
  <2>2. CASE who[i] = n /\ who[j] = n
    BY <1>7, <1>8, <1>10, <2>1, <2>2
  <2>3. CASE who[i] # n /\ who[j] # n
    BY <1>7, <1>10, <2>1, <2>3
  <2>4. CASE who[i] = n /\ who[j] # n
    BY <1>7, <1>8, <1>10, <2>4
  <2>5. CASE who[i] # n /\ who[j] = n
    BY <1>7, <1>8, <1>10, <2>5
  <2> QED
    BY <2>2, <2>3, <2>4, <2>5
<1>11. ASSUME NEW m \in Nodes, NEW x \in 1..Len(more[m])
       PROVE  \E i \in L : w[i] = m /\ s[i] = x
  <2>1. \A y \in Nodes : \A z \in 1..Len(held[y]) : \E i \in L : who[i] = y /\ spot[i] = z
    BY DEF Placed, L
  <2>2. CASE m = k
    <3>1. x \in 1..c + d
      BY <1>3, <1>4, <2>2
    <3>2. CASE x \in 1..c
      <4>1. PICK i \in L : who[i] = k /\ spot[i] = x
        BY <1>1, <2>1, <3>2 DEF c
      <4> QED
        BY <1>7, <2>2, <4>1
    <3>3. CASE x - c \in 1..d /\ c + (x - c) = x
      <4>1. PICK i \in L : who[i] = n /\ spot[i] = x - c
        BY <2>1, <3>3 DEF d
      <4> QED
        BY <1>7, <2>2, <3>3, <4>1
    <3> QED
      BY <1>8, <3>1, <3>2, <3>3
  <2>3. CASE m = n
    BY <1>2, <1>4, <2>3
  <2>4. CASE m \notin {n, k}
    <3>1. PICK i \in L : who[i] = m /\ spot[i] = x
      BY <1>4, <2>1, <2>4
    <3> QED
      BY <1>7, <2>4, <3>1
  <2> QED
    BY <2>2, <2>3, <2>4
<1>12. ASSUME NEW i \in L, NEW j \in L, i < j
       PROVE  Concurrent(list[i], list[j]) \/ Ahead(w, s, i, j)
  <2>1. Concurrent(list[i], list[j]) \/ Ahead(who, spot, i, j)
    BY <1>12 DEF Placed, L
  <2> SUFFICES ASSUME Ahead(who, spot, i, j) PROVE Ahead(w, s, i, j)
    BY <2>1
  <2>2. CASE who[i] = who[j]
    BY <1>7, <1>8, <2>2 DEF Ahead
  <2>3. CASE who[i] # who[j]
    <3>1. who[i] \in Within[who[j]]
      BY <2>3 DEF Ahead
    <3>2. CASE who[i] = n
      BY <1>5, <1>6, <2>3, <3>1, <3>2
    <3>3. CASE who[j] = n
      <4>1. who[i] \in Within[k]
        BY <1>5, <1>6, <2>3, <3>1, <3>3
      <4>2. CASE who[i] = k
        BY <1>1, <1>7, <1>8, <3>3, <4>2 DEF Ahead
      <4> QED
        BY <1>7, <2>3, <3>3, <4>1, <4>2 DEF Ahead
    <3> QED
      BY <1>7, <2>3, <3>1, <3>2, <3>3 DEF Ahead
  <2> QED
    BY <2>2, <2>3
<1>13. Placed(list, more, w, s)
  BY <1>1, <1>4, <1>9, <1>10, <1>11, <1>12, Zenon DEF Placed, L
<1> QED
  BY <1>13

(* What stays of a list, and where.                                        *)
LEMMA RemovedPlaces ==
  ASSUME NEW S, NEW q \in Seq(S), NEW i \in 1..Len(q)
  PROVE  /\ RemoveAt(q, i) \in Seq(S) /\ Len(RemoveAt(q, i)) = Len(q) - 1
         /\ \A j \in 1..Len(q) - 1 : RemoveAt(q, i)[j] = IF j < i THEN q[j] ELSE q[j + 1]
<1> DEFINE front == SubSeq(q, 1, i - 1)
           back == SubSeq(q, i + 1, Len(q))
           m == Len(q)
<1>1. m \in Nat /\ i \in Nat /\ 1 <= i /\ i <= m /\ \A j \in 1..m : q[j] \in S
  BY LenProperties
<1>2. 1 \in Int /\ i - 1 \in Int /\ i + 1 \in Int /\ m \in Int
  BY <1>1
<1>3. \A j \in 1..i - 1 : q[j] \in S
  BY <1>1
<1>4. /\ front \in Seq(S) /\ Len(front) = (IF 1 <= i - 1 THEN (i - 1) - 1 + 1 ELSE 0)
      /\ \A j \in 1..(i - 1) - 1 + 1 : front[j] = q[1 + j - 1]
  BY <1>2, <1>3, SubSeqProperties
<1>5. \A j \in i + 1..m : q[j] \in S
  BY <1>1
<1>6. /\ back \in Seq(S) /\ Len(back) = (IF i + 1 <= m THEN m - (i + 1) + 1 ELSE 0)
      /\ \A j \in 1..m - (i + 1) + 1 : back[j] = q[(i + 1) + j - 1]
  BY <1>2, <1>5, SubSeqProperties
<1> HIDE DEF front, back, m
<1>7. Len(front) = i - 1 /\ Len(back) = m - i
  BY <1>1, <1>4, <1>6
<1>8. /\ front \o back \in Seq(S) /\ Len(front \o back) = Len(front) + Len(back)
      /\ \A j \in 1..Len(front) + Len(back) :
           (front \o back)[j] = IF j <= Len(front) THEN front[j] ELSE back[j - Len(front)]
  BY <1>4, <1>6, ConcatProperties
<1>9. RemoveAt(q, i) = front \o back
  BY DEF RemoveAt, front, back, m
<1>10. ASSUME NEW j \in 1..m - 1
       PROVE  (front \o back)[j] = IF j < i THEN q[j] ELSE q[j + 1]
  <2>1. CASE j < i
    <3>1. j \in 1..(i - 1) - 1 + 1 /\ 1 + j - 1 = j /\ j <= i - 1 /\ j \in 1..Len(front) + Len(back)
      BY <1>1, <1>7, <2>1
    <3> QED
      BY <1>4, <1>7, <1>8, <2>1, <3>1
  <2>2. CASE ~(j < i)
    <3>1. /\ j - (i - 1) \in 1..m - (i + 1) + 1 /\ (i + 1) + (j - (i - 1)) - 1 = j + 1
          /\ ~(j <= i - 1) /\ j \in 1..Len(front) + Len(back)
      BY <1>1, <1>7, <2>2
    <3> QED
      BY <1>6, <1>7, <1>8, <2>2, <3>1
  <2> QED
    BY <2>1, <2>2
<1>11. Len(front) + Len(back) = m - 1
  BY <1>1, <1>7
<1> QED
  BY <1>8, <1>9, <1>10, <1>11 DEF m

LEMMA NotWithItself ==
  ASSUME NEW r \in Nodes
  PROVE  ~Concurrent(r, r)
<1> SUFFICES ASSUME NEW x \in Within[r], NEW y \in Within[r], x # y,
                    Kind(x) = "branch", Kind(y) = "branch", Parent[x] = Parent[y]
             PROVE  FALSE
  BY DEF Concurrent
<1>1. x \in Nodes /\ y \in Nodes
  BY WithinDef
<1>2. x \notin Roots /\ y \notin Roots
  BY <1>1, TreeAssumption
<1>3. Parent[x] \in Nodes /\ x \in Callees(Parent[x]) /\ y \in Callees(Parent[x])
  BY <1>1, <1>2, WithinDef DEF Callees
<1> QED
  BY <1>3, PathIsOne

(* The last resource of a handler with nothing under it is released: it is *)
(* the last of its name, and what was acquired since ran beside it.        *)
LEMMA ReleasedPlaces ==
  ASSUME NEW list, NEW held, NEW who, NEW spot, Placed(list, held, who, spot),
         NEW n \in Nodes, held[n] # <<>>,
         \A m \in Nodes : held[m] # <<>> /\ n \in Within[m] => m = n,
         NEW more, more = [held EXCEPT ![n] = RemoveAt(held[n], Len(held[n]))],
         NEW place \in 1..Len(list), list[place] = held[n][Len(held[n])],
         \A j \in 1..Len(list) : list[j] = list[place] => j <= place
  PROVE  /\ \A j \in place + 1..Len(list) : Concurrent(list[place], list[j])
         /\ \E w, s : Placed(RemoveAt(list, place), more, w, s)
<1> DEFINE c == Len(held[n])
           m == Len(list)
           L == 1..m
           rest == RemoveAt(list, place)
           fewer == RemoveAt(held[n], c)
           old(j) == IF j < place THEN j ELSE j + 1
           w == [j \in 1..m - 1 |-> who[old(j)]]
           s == [j \in 1..m - 1 |-> spot[old(j)]]
<1>1. /\ list \in Seq(Nodes) /\ held \in [Nodes -> Seq(Nodes)] /\ held[n] \in Seq(Nodes)
      /\ m \in Nat /\ c \in Nat \ {0} /\ place \in Nat /\ 1 <= place /\ place <= m /\ c \in 1..c
  BY LenProperties, EmptySeq DEF Placed
<1>2. \A i \in L : /\ who[i] \in Nodes /\ spot[i] \in 1..Len(held[who[i]])
                   /\ held[who[i]][spot[i]] = list[i] /\ held[who[i]] # <<>>
  <2>1. Len(<<>>) = 0 /\ 1..0 = {}
    OBVIOUS
  <2> QED
    BY <2>1 DEF Placed
<1>3. \A i \in L, j \in L : /\ who[i] = who[j] /\ spot[i] = spot[j] => i = j
                            /\ i < j => Concurrent(list[i], list[j]) \/ Ahead(who, spot, i, j)
  BY DEF Placed
<1>0. \A x \in Nodes : \A k \in 1..Len(held[x]) : \E i \in L : who[i] = x /\ spot[i] = k
  BY DEF Placed
<1>4. \A x \in 1..c : x \in Nat /\ x <= c /\ ~(c < x)
  BY <1>1
<1>5. ASSUME NEW i \in L, NEW j \in L, i < j, who[i] = n, spot[i] = c
      PROVE  Concurrent(list[i], list[j])
  <2> SUFFICES ~Ahead(who, spot, i, j)
    BY <1>3, <1>5
  <2>1. who[j] = n => ~(c < spot[j])
    BY <1>2, <1>4
  <2>2. who[j] # n => n \notin Within[who[j]]
    BY <1>2
  <2> QED
    BY <1>5, <2>1, <2>2 DEF Ahead
<1>6. who[place] = n /\ spot[place] = c
  <2>1. PICK i \in L : who[i] = n /\ spot[i] = c
    BY <1>0, <1>1, ZenonT(60)
  <2>2. list[i] = list[place] /\ i <= place /\ list[place] \in Nodes
    BY <1>1, <1>2, <2>1
  <2>3. ~(i < place)
    BY <1>5, <2>1, <2>2, NotWithItself
  <2>4. i = place
    BY <1>1, <2>2, <2>3
  <2> QED
    BY <2>1, <2>4
<1>7. \A j \in place + 1..m : Concurrent(list[place], list[j])
  <2>1. \A j \in place + 1..m : j \in L /\ place < j
    BY <1>1
  <2> QED
    BY <1>5, <1>6, <2>1
<1>8. \A i \in L : who[i] = n /\ i # place => spot[i] \in 1..c - 1
  <2>1. \A x \in 1..c : x # c => x \in 1..c - 1
    BY <1>1
  <2> QED
    BY <1>2, <1>3, <1>6, <2>1
<1>9. /\ fewer \in Seq(Nodes) /\ Len(fewer) = c - 1 /\ \A x \in 1..c - 1 : fewer[x] = held[n][x]
      /\ rest \in Seq(Nodes) /\ Len(rest) = m - 1 /\ \A j \in 1..m - 1 : rest[j] = list[old(j)]
  <2>1. \A x \in 1..c - 1 : x < c
    BY <1>1
  <2>2. \A j \in 1..m - 1 : rest[j] = IF j < place THEN list[j] ELSE list[j + 1]
    BY <1>1, RemovedPlaces
  <2> QED
    BY <1>1, <2>1, <2>2, RemovedPlaces
<1>10. /\ more \in [Nodes -> Seq(Nodes)] /\ more[n] = fewer
       /\ \A x \in Nodes \ {n} : more[x] = held[x]
  BY <1>1, <1>9
<1>11. /\ \A j \in 1..m - 1 : old(j) \in L /\ old(j) # place
       /\ \A i, j \in 1..m - 1 : (i < j => old(i) < old(j)) /\ (old(i) = old(j) => i = j)
       /\ \A i \in L : i # place => \E j \in 1..m - 1 : old(j) = i
  <2>1. ASSUME NEW i \in L, i # place PROVE \E j \in 1..m - 1 : old(j) = i
    <3>1. CASE i < place
      <4>1. i \in 1..m - 1
        BY <1>1, <3>1
      <4> QED
        BY <3>1, <4>1
    <3>2. CASE ~(i < place)
      <4>1. i - 1 \in 1..m - 1 /\ ~(i - 1 < place) /\ (i - 1) + 1 = i
        BY <1>1, <2>1, <3>2
      <4> QED
        BY <4>1
    <3> QED
      BY <3>1, <3>2
  <2> QED
    BY <1>1, <2>1, SMTT(30)
<1>12. \A j \in 1..m - 1 : w[j] = who[old(j)] /\ s[j] = spot[old(j)]
  OBVIOUS
<1> HIDE DEF w, s, old, rest, fewer, c, L
<1>13. ASSUME NEW j \in 1..m - 1
       PROVE  w[j] \in Nodes /\ s[j] \in 1..Len(more[w[j]]) /\ more[w[j]][s[j]] = rest[j]
  <2> DEFINE i == old(j)
  <2>1. i \in L /\ i # place /\ w[j] = who[i] /\ s[j] = spot[i] /\ rest[j] = list[i]
    BY <1>9, <1>11, <1>12
  <2> HIDE DEF i
  <2>2. CASE who[i] = n
    BY <1>2, <1>8, <1>9, <1>10, <2>1, <2>2
  <2>3. CASE who[i] # n
    BY <1>2, <1>10, <2>1, <2>3
  <2> QED
    BY <2>2, <2>3
<1>14. ASSUME NEW i \in 1..m - 1, NEW j \in 1..m - 1, w[i] = w[j], s[i] = s[j] PROVE i = j
  BY <1>3, <1>11, <1>12, <1>14
<1>15. ASSUME NEW x \in Nodes, NEW k \in 1..Len(more[x])
       PROVE  \E j \in 1..m - 1 : w[j] = x /\ s[j] = k
  <2>1. k \in 1..Len(held[x]) /\ (x = n => k # c)
    <3>1. \A y \in 1..c - 1 : y \in 1..c /\ y # c
      BY <1>1
    <3> QED
      BY <1>9, <1>10, <3>1 DEF c
  <2>2. PICK i \in L : who[i] = x /\ spot[i] = k
    BY <1>0, <2>1
  <2>3. i # place
    BY <1>6, <2>1, <2>2
  <2> QED
    BY <1>11, <1>12, <2>2, <2>3
<1>16. ASSUME NEW i \in 1..m - 1, NEW j \in 1..m - 1, i < j
       PROVE  Concurrent(rest[i], rest[j]) \/ Ahead(w, s, i, j)
  <2>1. Concurrent(list[old(i)], list[old(j)]) \/ Ahead(who, spot, old(i), old(j))
    BY <1>3, <1>11, <1>16
  <2> QED
    BY <1>9, <1>12, <2>1 DEF Ahead
<1>17. Placed(rest, more, w, s)
  <2>1. \A x \in Nodes : \A k \in 1..Len(more[x]) : \E j \in 1..Len(rest) : w[j] = x /\ s[j] = k
    BY <1>9, <1>15, SMTT(30)
  <2>2. \A i, j \in 1..Len(rest) : i < j => Concurrent(rest[i], rest[j]) \/ Ahead(w, s, i, j)
    BY <1>9, <1>16
  <2>3. \A i, j \in 1..Len(rest) : w[i] = w[j] /\ s[i] = s[j] => i = j
    BY <1>9, <1>14
  <2> QED
    BY <1>9, <1>10, <1>13, <2>1, <2>2, <2>3, Zenon DEF Placed
<1> QED
  BY <1>7, <1>17 DEF rest

-----------------------------------------------------------------------------
(* What the handlers hold, and that it is all that is live.  Only a run and*)
(* a pass hold anything, and not while they wait.                          *)
HeldBy == [n \in Nodes |-> IF n \in Running THEN frames[n].held ELSE <<>>]
Settled ==
  \A n \in Running : frames[n].held # <<>> => Kind(n) \in {"run", "attempt"} /\ frames[n].at \notin Waits
Registered == \E who, spot : Placed(live, HeldBy, who, spot)
HoldInv == RunInv /\ Settled /\ Registered

ReleasesLast ==
  Len(live') < Len(live) =>
    \E i \in DOMAIN live : /\ live' = RemoveAt(live, i)
                           /\ \A j \in i + 1..Len(live) : Concurrent(live[i], live[j])
HoldKept == Settled' /\ Registered' /\ ReleasesLast

(* Steps that neither acquire nor release.                                 *)
LEMMA SteadyHold ==
  ASSUME HoldInv, RunInv', live' = live,
         \A m \in Running \cap DOMAIN frames' :
           /\ frames'[m].held = frames[m].held
           /\ frames'[m].at \in Waits => frames[m].at \in Waits \/ frames'[m].held = <<>>,
         \A m \in (DOMAIN frames') \ Running : frames'[m].held = <<>>,
         \A m \in Running \ DOMAIN frames' : frames[m].held = <<>>
  PROVE  HoldKept
<1>1. Running' = DOMAIN frames' /\ Running \subseteq Nodes /\ DOMAIN frames' \subseteq Nodes
  BY DEF Running, HoldInv, RunInv, Nested
<1>2. HeldBy' = HeldBy
  <2>1. \A n \in Nodes : (IF n \in Running' THEN frames'[n].held ELSE <<>>)
                         = IF n \in Running THEN frames[n].held ELSE <<>>
    BY <1>1
  <2> QED
    BY <2>1 DEF HeldBy
<1>3. Registered'
  BY <1>2 DEF HoldInv, Registered
<1>4. Settled'
  BY <1>1 DEF HoldInv, Settled
<1>5. ~(Len(live') < Len(live))
  <2>1. Len(live) \in Nat
    BY GlobalsAre, LenProperties DEF HoldInv
  <2> QED
    BY <2>1
<1> QED
  BY <1>3, <1>4, <1>5 DEF HoldKept, ReleasesLast

LEMMA ReturnsHold ==
  ASSUME HoldInv, RunInv', NEW n \in Nodes \ Roots, Awaited(n),
         NEW ending, NEW errs \in SUBSET Errors, NEW returned,
         Returns(frames, n, ending, errs, returned), live' = live,
         n \in Running => frames[n].held = <<>>
  PROVE  HoldKept
<1>1. /\ DOMAIN frames = Running /\ \A m \in Running : Steady(m, frames[m], frames[m])
      /\ active \subseteq Nodes /\ \A m \in Running : frames[m] \in FrameType
      /\ Parent[n] \in Running /\ (Kind(n) # "branch" => frames[Parent[n]].todo # <<>>)
  BY SteadyItself, GlobalsAre, RunningIs, BranchCaller DEF HoldInv, Running, Awaited
<1>2. /\ Left(n, errs) /\ \A m \in Running \ {n} : frames'[m].held = frames[m].held
  BY <1>1, ReturnsEffect
<1>3. DOMAIN frames' = Running \ {n} /\ \A m \in Running \ {n} : frames'[m].at = frames[m].at
  BY <1>2 DEF Left, Told, Steady, Same
<1> QED
  BY <1>2, <1>3, SteadyHold

LEMMA ChangesHold ==
  ASSUME HoldInv, RunInv', NEW n \in Running, NEW g, frames' = [frames EXCEPT ![n] = g],
         g.held = frames[n].held, g.at \in Waits => g.held = <<>>, live' = live
  PROVE  HoldKept
<1>1. DOMAIN frames' = Running /\ frames'[n] = g /\ \A m \in Running \ {n} : frames'[m] = frames[m]
  BY DEF Running
<1> QED
  BY <1>1, SteadyHold

(* A handler that holds something runs around the step or beside it.       *)
LEMMA BesideOrAbove ==
  ASSUME HoldInv, NEW n \in Running, Kind(n) = "step", NEW m \in Running, frames[m].held # <<>>,
         NEW x \in Nodes, m \in Within[x]
  PROVE  Concurrent(x, n) \/ m \in Within[Keeper[n]]
<1>1. /\ n \in Nodes \ Roots /\ m \in Nodes /\ Within[n] \subseteq Running /\ Within[m] \subseteq Running
      /\ Kind(m) \in {"run", "attempt"} /\ Within[m] \subseteq Nodes /\ Within[n] \subseteq Nodes
  BY RunningIs, WithinRuns, WithinDef DEF HoldInv, Settled, RunInv
<1>2. CASE m \in Within[n]
  BY <1>1, <1>2, KeeperIs
<1>3. CASE m \notin Within[n]
  <2> DEFINE S == {y \in Within[m] : y \notin Within[n]}
  <2>1. S \in SUBSET Nodes /\ m \in S
    BY <1>1, <1>3, WithinDef
  <2>2. PICK y \in S : y \in Roots \/ Parent[y] \notin S
    <3> HIDE DEF S
    <3> QED
      BY <2>1, TopmostCaller
  <2>3. PICK r \in Roots : r \in Within[n]
    BY <1>1, RootOf
  <2>4. y \notin Roots
    BY <1>1, <2>2, <2>3 DEF HoldInv, RunInv, OneRun
  <2> DEFINE c == Parent[y]
  <2>5. c \in Within[n] /\ c \in Running /\ y \in Running /\ y \in Nodes \ Roots
    BY <1>1, <2>2, <2>4, WithinDef, WithinTransitive
  <2>6. Awaited(y) /\ Handler(n, frames[n])
    BY <2>5, RunningIs DEF HoldInv
  <2>7. c # n
    BY <2>6 DEF Awaited, Handler, CallsOwn
  <2>8. PICK z \in Running \ Roots : Parent[z] = c /\ z \in Within[n]
    BY <2>5, <2>7, CalleeBetween DEF HoldInv, RunInv
  <2>9. z # y /\ Awaited(z) /\ z \in Nodes \ Roots
    BY <2>2, <2>8, RunningIs DEF HoldInv
  <2>10. Kind(c) = "race"
    BY <2>6, <2>8, <2>9 DEF Awaited
  <2>11. Kind(y) = "branch" /\ Kind(z) = "branch"
    BY <2>5, <2>8, <2>9, <2>10, BranchCaller
  <2>12. y \in Within[x]
    BY <2>2, WithinTransitive
  <2> QED
    BY <2>8, <2>9, <2>11, <2>12 DEF Concurrent
<1> QED
  BY <1>2, <1>3

(* The scope a resource is registered with neither waits nor returns.      *)
LEMMA KeeperStays ==
  ASSUME HoldInv, NEW n \in Running \ Roots
  PROVE  LET k == Keeper[n]
         IN /\ k \in Running \ {n} /\ k \in Within[n] /\ Kind(k) \in {"run", "attempt"}
            /\ frames[k].at \notin Waits /\ frames[k].held \in Seq(Nodes) /\ HeldBy[k] = frames[k].held
<1> DEFINE k == Keeper[n]
<1>1. n \in Nodes \ Roots /\ Within[n] \subseteq Running
  BY RunningIs, WithinRuns DEF HoldInv, RunInv
<1>2. k \in Running /\ k # n /\ k \in Within[n] /\ Kind(k) \in {"run", "attempt"}
  BY <1>1, KeeperIs
<1>3. Handler(k, frames[k]) /\ frames[k] \in FrameType /\ k \in Nodes
  BY <1>2, RunningIs DEF HoldInv
<1>4. frames[k].todo # <<>>
  BY <1>2, QuietIsLone DEF Lone, HoldInv, RunInv
<1>5. frames[k].at \notin Waits
  BY <1>2, <1>3, <1>4 DEF Handler, CallsOwn, Quiet
<1> QED
  BY <1>2, <1>3, <1>5 DEF FrameType, HeldBy

LEMMA AcquiresHold ==
  ASSUME HoldInv, RunInv', NEW n \in Running, Kind(n) = "step",
         NEW ending, NEW errs \in SUBSET Errors, NEW returned,
         Returns(Acquired(n), n, ending, errs, returned), live' = Append(live, n)
  PROVE  HoldKept
<1> DEFINE k == Keeper[n]
           list == Append(frames[k].held, n)
           more == [HeldBy EXCEPT ![k] = Append(HeldBy[k], n)]
<1>1. /\ n \in Nodes \ Roots /\ n \in Running \ Roots /\ Awaited(n) /\ Parent[n] \in Running
      /\ frames[n].held = <<>> /\ live \in Seq(Nodes) /\ active \subseteq Nodes
      /\ Running \subseteq Nodes /\ n \in Within[n]
      /\ \A m \in Running : frames[m] \in FrameType
      /\ Kind(n) # "branch" => frames[Parent[n]].todo # <<>>
  BY RunningIs, GlobalsAre, BranchCaller DEF HoldInv, Settled, RunInv, Nested, Awaited
<1>2. /\ k \in Running \ {n} /\ k \in Nodes /\ k \in Within[n] /\ Kind(k) \in {"run", "attempt"}
      /\ frames[k].at \notin Waits /\ frames[k].held \in Seq(Nodes) /\ HeldBy[k] = frames[k].held
  BY <1>1, KeeperStays
<1>3. DOMAIN Acquired(n) = Running /\ \A m \in Running : Steady(m, frames[m], Acquired(n)[m])
  BY <1>1, AcquiredSteady DEF HoldInv
<1>4. /\ Acquired(n)[k].held = list
      /\ \A m \in Running \ {k} : Acquired(n)[m].held = frames[m].held
  <2>1. Acquired(n)[k] = [frames[k] EXCEPT !.held = list] /\ frames[k] \in FrameType
    BY <1>1, <1>2 DEF Acquired, Running
  <2>2. \A m \in Running \ {k} : Acquired(n)[m] = frames[m]
    BY DEF Acquired, Running
  <2> HIDE DEF list, k
  <2>3. [frames[k] EXCEPT !.held = list].held = list
    BY <2>1 DEF FrameType
  <2> QED
    BY <2>1, <2>2, <2>3
<1>5. /\ Left(n, errs) /\ \A m \in Running \ {n} : frames'[m].held = Acquired(n)[m].held
  BY <1>1, <1>3, ReturnsEffect
<1>6. Running' = Running \ {n} /\ \A m \in Running \ {n} : frames'[m].at = frames[m].at
  BY <1>5 DEF Left, Told, Steady, Same, Running
<1> HIDE DEF k
<1>7. HeldBy' = more
  <2>1. HeldBy' = [m \in Nodes |-> IF m \in Running \ {n} THEN frames'[m].held ELSE <<>>]
    BY <1>6 DEF HeldBy
  <2>2. more = [m \in Nodes |-> IF m = k THEN list ELSE HeldBy[m]]
    BY <1>2 DEF HeldBy
  <2>3. ASSUME NEW m \in Nodes
        PROVE  (IF m \in Running \ {n} THEN frames'[m].held ELSE <<>>) = IF m = k THEN list ELSE HeldBy[m]
    <3>1. CASE m = k
      BY <1>2, <1>4, <1>5, <3>1
    <3>2. CASE m # k
      BY <1>1, <1>4, <1>5, <3>2 DEF HeldBy
    <3> QED
      BY <3>1, <3>2
  <2> HIDE DEF more, list
  <2> QED
    BY <2>1, <2>2, <2>3
<1>8. PICK who, spot : Placed(live, HeldBy, who, spot)
  BY DEF HoldInv, Registered
<1>9. ASSUME NEW i \in 1..Len(live) PROVE Concurrent(live[i], n) \/ who[i] \in Within[k]
  <2> DEFINE m == who[i]
  <2>1. m \in Nodes /\ spot[i] \in 1..Len(HeldBy[m]) /\ HeldBy[m][spot[i]] = live[i]
    BY <1>8 DEF Placed
  <2> HIDE DEF m
  <2>2. HeldBy[m] # <<>>
    BY <2>1
  <2>3. m \in Running /\ frames[m].held = HeldBy[m] /\ frames[m].held \in Seq(Nodes)
    BY <1>1, <2>1, <2>2 DEF HeldBy, FrameType
  <2>4. live[i] \in Range(frames[m].held) /\ live[i] \in Nodes
    BY <1>1, <2>1, <2>3, LenProperties DEF Range
  <2>5. m \in Within[live[i]]
    BY <2>3, <2>4, RunningIs DEF HoldInv, Handler, Accounts
  <2> QED
    BY <2>2, <2>3, <2>4, <2>5, BesideOrAbove DEF m, k
<1>10. \E w, s : Placed(Append(live, n), more, w, s)
  BY <1>1, <1>2, <1>8, <1>9, AcquiredPlaces
<1>11. Registered'
  BY <1>7, <1>10 DEF Registered
<1>12. Settled'
  <2>1. \A m \in Running \ {n, k} : frames'[m].held = frames[m].held /\ frames'[m].at = frames[m].at
    BY <1>4, <1>5, <1>6
  <2> QED
    BY <1>2, <1>6, <2>1 DEF HoldInv, Settled
<1>13. ReleasesLast
  <2>1. Len(live') = Len(live) + 1 /\ Len(live) \in Nat
    BY <1>1, AppendProperties, LenProperties
  <2> QED
    BY <2>1 DEF ReleasesLast
<1> QED
  BY <1>11, <1>12, <1>13 DEF HoldKept

(* A pass wins and hands over what it holds.                               *)
LEMMA AdoptsHold ==
  ASSUME HoldInv, RunInv', NEW n \in Running, PassWins(n)
  PROVE  HoldKept
<1> DEFINE k == Keeper[n]
           list == frames[k].held \o frames[n].held
           more == [HeldBy EXCEPT ![n] = <<>>, ![k] = HeldBy[k] \o HeldBy[n]]
<1>1. /\ Kind(n) = "attempt" /\ frames[n].todo = <<>> /\ live' = live
      /\ Returns(Adopt(n), n, "ok", {}, returning)
  BY DEF PassWins, Idle
<1>2. /\ n \in Nodes \ Roots /\ n \in Running \ Roots /\ Awaited(n) /\ Parent[n] \in Running
      /\ frames[n].held \in Seq(Nodes) /\ active \subseteq Nodes
      /\ Running \subseteq Nodes /\ Lone(n)
      /\ \A m \in Running : frames[m] \in FrameType
      /\ Kind(n) # "branch" => frames[Parent[n]].todo # <<>>
      /\ \A r \in Range(frames[n].held) : n \in Within[r]
  BY <1>1, PassIs, RunningIs, GlobalsAre, BranchCaller
  DEF HoldInv, RunInv, Nested, Awaited, FrameType, Handler, Accounts
<1>3. /\ k \in Running \ {n} /\ k \in Nodes /\ k \in Within[n] /\ Kind(k) \in {"run", "attempt"}
      /\ frames[k].at \notin Waits /\ frames[k].held \in Seq(Nodes) /\ HeldBy[k] = frames[k].held
  BY <1>2, KeeperStays
<1>4. DOMAIN Adopt(n) = Running /\ \A m \in Running : Steady(m, frames[m], Adopt(n)[m])
  BY <1>2, KeptBy DEF HoldInv, Adopt
<1>5. /\ Adopt(n)[k].held = list
      /\ \A m \in Running \ {k} : Adopt(n)[m].held = frames[m].held
  <2>1. Adopt(n)[k] = [frames[k] EXCEPT !.held = list] /\ frames[k] \in FrameType
    BY <1>2, <1>3 DEF Adopt, Running
  <2>2. \A m \in Running \ {k} : Adopt(n)[m] = frames[m]
    BY DEF Adopt, Running
  <2> HIDE DEF list, k
  <2>3. [frames[k] EXCEPT !.held = list].held = list
    BY <2>1 DEF FrameType
  <2> QED
    BY <2>1, <2>2, <2>3
<1>6. {} \in SUBSET Errors
  OBVIOUS
<1>7. /\ Left(n, {}) /\ \A m \in Running \ {n} : frames'[m].held = Adopt(n)[m].held
  BY <1>1, <1>2, <1>4, <1>6, ReturnsEffect
<1>8. Running' = Running \ {n} /\ \A m \in Running \ {n} : frames'[m].at = frames[m].at
  BY <1>7 DEF Left, Told, Steady, Same, Running
<1> HIDE DEF k
<1>9. HeldBy' = more
  <2>1. HeldBy' = [m \in Nodes |-> IF m \in Running \ {n} THEN frames'[m].held ELSE <<>>]
    BY <1>8 DEF HeldBy
  <2>2. more = [m \in Nodes |-> IF m = k THEN list ELSE IF m = n THEN <<>> ELSE HeldBy[m]]
    BY <1>2, <1>3 DEF HeldBy
  <2>3. ASSUME NEW m \in Nodes
        PROVE  (IF m \in Running \ {n} THEN frames'[m].held ELSE <<>>)
               = IF m = k THEN list ELSE IF m = n THEN <<>> ELSE HeldBy[m]
    <3>1. CASE m = k
      BY <1>3, <1>5, <1>7, <3>1
    <3>2. CASE m # k
      BY <1>2, <1>5, <1>7, <3>2 DEF HeldBy
    <3> QED
      BY <3>1, <3>2
  <2> HIDE DEF more, list
  <2> QED
    BY <2>1, <2>2, <2>3
<1>10. PICK who, spot : Placed(live, HeldBy, who, spot)
  BY DEF HoldInv, Registered
<1>11. \A m \in Nodes : HeldBy[m] # <<>> => m \in Running /\ Kind(m) \in {"run", "attempt"}
  BY DEF HeldBy, HoldInv, Settled
<1>12. \A m \in Nodes : HeldBy[m] # <<>> /\ m \in Within[n] /\ m # n => m \in Within[k]
  BY <1>2, <1>11, KeeperIs DEF k
<1>13. \A m \in Nodes : HeldBy[m] # <<>> /\ n \in Within[m] => m = n
  BY <1>2, <1>11 DEF Lone
<1>14. \E w, s : Placed(live, more, w, s)
  BY <1>2, <1>3, <1>10, <1>12, <1>13, AdoptedPlaces
<1>15. Registered'
  BY <1>1, <1>9, <1>14 DEF Registered
<1>16. Settled'
  <2>1. \A m \in Running \ {n, k} : frames'[m].held = frames[m].held /\ frames'[m].at = frames[m].at
    BY <1>5, <1>7, <1>8
  <2> QED
    BY <1>3, <1>8, <2>1 DEF HoldInv, Settled
<1>17. ReleasesLast
  <2>1. Len(live') = Len(live) /\ Len(live) \in Nat
    BY <1>1, GlobalsAre, LenProperties DEF HoldInv
  <2> QED
    BY <2>1 DEF ReleasesLast
<1> QED
  BY <1>15, <1>16, <1>17 DEF HoldKept

(* The last of a name in a list.                                           *)
LEMMA LastOfName ==
  ASSUME NEW list \in Seq(Nodes), NEW r, NEW i \in 1..Len(list), list[i] = r,
         NEW I, I = {j \in 1..Len(list) : list[j] = r}
  PROVE  /\ I # {} /\ Max(I) \in 1..Len(list) /\ list[Max(I)] = r
         /\ \A j \in 1..Len(list) : list[j] = r => j <= Max(I)
<1>1. Len(list) \in Nat /\ I \in SUBSET (1..Len(list)) /\ i \in I
  BY LenProperties
<1>2. \E m \in I : \A j \in I : m >= j
  BY <1>1, Greatest
<1>3. Max(I) \in I /\ \A j \in I : Max(I) >= j
  BY <1>2 DEF Max
<1> DEFINE place == Max(I)
<1> HIDE DEF place
<1>4. place \in 1..Len(list) /\ list[place] = r /\ \A j \in 1..Len(list) : list[j] = r => place >= j
  BY <1>3 DEF place
<1>5. \A j \in 1..Len(list) : place >= j => j <= place
  BY <1>1, <1>4
<1> QED
  BY <1>1, <1>4, <1>5 DEF place

LEMMA ReleasesHold ==
  ASSUME HoldInv, RunInv', NEW n \in Running, Releases(n)
  PROVE  HoldKept
<1> DEFINE f == frames[n]
           c == Len(f.held)
           r == f.held[c]
           rest == RemoveAt(f.held, c)
           more == [HeldBy EXCEPT ![n] = RemoveAt(HeldBy[n], Len(HeldBy[n]))]
           I == {j \in 1..Len(live) : live[j] = r}
           place == IF I # {} THEN Max(I) ELSE 0
<1>1. /\ f.at \in Releasing /\ f.held # <<>> /\ live' = RemoveAt(live, place)
  BY DEF Releases, NextReleased, SelectLastInSeq
<1>2. PICK failing \in {{}, {r}} :
        frames' = [frames EXCEPT ![n].held = rest, ![n].errors = @ \cup failing]
  BY DEF Releases, NextReleased
<1>3. /\ n \in Nodes /\ f \in FrameType /\ f.todo = <<>> /\ Kind(n) # "race"
      /\ f.held \in Seq(Nodes) /\ live \in Seq(Nodes) /\ Running \subseteq Nodes
      /\ HeldBy[n] = f.held
  BY <1>1, RunningIs, GlobalsAre
  DEF HoldInv, RunInv, Nested, Handler, CallsOwn, PhaseOf, Quiet, Releasing, FrameType, HeldBy
<1>4. Lone(n)
  BY <1>3, QuietIsLone DEF HoldInv, RunInv
<1>5. c \in Nat \ {0} /\ c \in 1..c
  BY <1>1, <1>3, LenProperties, EmptySeq
<1>6. /\ DOMAIN frames' = Running /\ frames'[n].held = rest /\ frames'[n].at = f.at
      /\ \A m \in Running \ {n} : frames'[m] = frames[m]
  <2> DEFINE errs == f.errors \cup failing
             g == [f EXCEPT !.held = rest, !.errors = errs]
  <2>1. DOMAIN frames' = Running /\ frames'[n] = g /\ \A m \in Running \ {n} : frames'[m] = frames[m]
    BY <1>2 DEF Running
  <2> HIDE DEF rest, errs, f
  <2>2. g.held = rest /\ g.at = f.at
    BY <1>3 DEF FrameType
  <2> QED
    BY <2>1, <2>2
<1>7. PICK who, spot : Placed(live, HeldBy, who, spot)
  BY DEF HoldInv, Registered
<1>8. PICK i \in 1..Len(live) : live[i] = r
  <2>1. \A m \in Nodes : \A k \in 1..Len(HeldBy[m]) :
          \E i \in 1..Len(live) : who[i] = m /\ spot[i] = k
    BY <1>7 DEF Placed
  <2>2. \A i \in 1..Len(live) : HeldBy[who[i]][spot[i]] = live[i]
    BY <1>7 DEF Placed
  <2>3. PICK i \in 1..Len(live) : who[i] = n /\ spot[i] = c
    BY <1>3, <1>5, <2>1
  <2> QED
    BY <1>3, <2>2, <2>3
<1>9. place \in 1..Len(live) /\ live[place] = r /\ \A j \in 1..Len(live) : live[j] = r => j <= place
  <2>1. live \in Seq(Nodes) /\ i \in 1..Len(live) /\ live[i] = r
    BY <1>3, <1>8
  <2> HIDE DEF r
  <2> QED
    BY <2>1, LastOfName
<1>10. \A m \in Nodes : HeldBy[m] # <<>> /\ n \in Within[m] => m = n
  BY <1>4 DEF Lone, HeldBy
<1> HIDE DEF place, f
<1>11. HeldBy' = more
  <2>1. HeldBy' = [m \in Nodes |-> IF m \in Running THEN frames'[m].held ELSE <<>>]
    BY <1>6 DEF HeldBy, Running
  <2>2. more = [m \in Nodes |-> IF m = n THEN rest ELSE HeldBy[m]]
    BY <1>3 DEF HeldBy
  <2>3. ASSUME NEW m \in Nodes
        PROVE  (IF m \in Running THEN frames'[m].held ELSE <<>>) = IF m = n THEN rest ELSE HeldBy[m]
    BY <1>6 DEF HeldBy
  <2> HIDE DEF more, rest
  <2> QED
    BY <2>1, <2>2, <2>3
<1>12. /\ \A j \in place + 1..Len(live) : Concurrent(live[place], live[j])
       /\ \E w, s : Placed(RemoveAt(live, place), more, w, s)
  BY <1>1, <1>3, <1>7, <1>9, <1>10, ReleasedPlaces
<1>13. Registered'
  BY <1>1, <1>11, <1>12 DEF Registered
<1>14. Settled'
  <2>1. f.at \notin Waits /\ Kind(n) \in {"run", "attempt"}
    BY <1>1 DEF HoldInv, Settled, f
  <2> QED
    BY <1>6, <2>1 DEF HoldInv, Settled, Running
<1>15. ReleasesLast
  <2>1. DOMAIN live = 1..Len(live)
    BY <1>3, LenProperties
  <2> QED
    BY <1>1, <1>9, <1>12, <2>1 DEF ReleasesLast
<1> QED
  BY <1>13, <1>14, <1>15 DEF HoldKept

(* A step is called.                                                       *)
LEMMA CallHold ==
  ASSUME HoldInv, RunInv', NEW n \in Called, Call(n)
  PROVE  HoldKept
<1>1. n \in Nodes \ Roots /\ n \notin Running /\ Awaited(n) /\ Kind(Parent[n]) # "race"
  BY CalledIs DEF HoldInv
<1>2. Ctx(n) \in ContextErrors
  BY <1>1, RunningIs DEF HoldInv, Awaited, Ctx, FrameType
<1>3. CASE Starts(n)
  <2> DEFINE races == Kind(n) = "race"
             entered == {n} \cup IF races THEN Range(Tree[n].main) ELSE {}
             fresh(m) == IF m = n /\ races THEN [Frame(n, Ctx(n)) EXCEPT !.todo = <<>>, !.count = 0]
                         ELSE Frame(m, Ctx(n))
  <2>1. /\ frames' = [m \in Running \cup entered |-> IF m \in Running THEN frames[m] ELSE fresh(m)]
        /\ live' = live
    BY <1>3 DEF Starts, history
  <2>2. \A m : fresh(m).held = <<>>
    BY DEF Frame
  <2> HIDE DEF fresh, entered
  <2>3. /\ DOMAIN frames' = Running \cup entered /\ \A m \in Running : frames'[m] = frames[m]
        /\ \A m \in (DOMAIN frames') \ Running : frames'[m].held = <<>>
    BY <2>1, <2>2
  <2> QED
    BY <2>1, <2>3, SteadyHold
<1>4. CASE ~Starts(n)
  <2>1. live' = live
    BY <1>4 DEF Call, Refused, Skipped, OpenFails, EarlyReturn, history
  <2>2. {Ctx(n)} \in SUBSET Errors \/ Ctx(n) = "none"
    BY <1>2 DEF ContextErrors, Errors
  <2>3. CASE Refused(n)
    <3>1. Returns(frames, n, "refused", {Ctx(n)}, returning) /\ {Ctx(n)} \in SUBSET Errors
      BY <2>2, <2>3 DEF Refused
    <3> QED
      BY <1>1, <2>1, <3>1, ReturnsHold
  <2>4. CASE Skipped(n)
    <3>1. Returns(frames, n, "skipped", {}, returning) /\ {} \in SUBSET Errors
      BY <2>4 DEF Skipped
    <3> QED
      BY <1>1, <2>1, <3>1, ReturnsHold
  <2>5. CASE OpenFails(n)
    <3>1. Returns(frames, n, "failed", {n}, returning) /\ {n} \in SUBSET Errors
      BY <1>1, <2>5 DEF OpenFails, Fails, Errors
    <3> QED
      BY <1>1, <2>1, <3>1, ReturnsHold
  <2>6. CASE EarlyReturn(n)
    <3>1. Returns(frames, n, "ok", {}, TRUE) /\ {} \in SUBSET Errors
      BY <2>6 DEF EarlyReturn
    <3> QED
      BY <1>1, <2>1, <3>1, ReturnsHold
  <2> QED
    BY <1>4, <2>3, <2>4, <2>5, <2>6 DEF Call
<1> QED
  BY <1>3, <1>4

(* A handler that holds nothing returns.                                   *)
LEMMA EmptyReturns ==
  ASSUME HoldInv, RunInv', NEW n \in Running, Kind(n) # "run", frames[n].held = <<>>,
         NEW ending, NEW errs \in SUBSET Errors, NEW returned,
         Returns(frames, n, ending, errs, returned), live' = live
  PROVE  HoldKept
<1>1. n \in Nodes \ Roots /\ Awaited(n)
  BY RunningIs DEF HoldInv
<1> QED
  BY <1>1, ReturnsHold

LEMMA StepHold ==
  ASSUME HoldInv, RunInv', NEW n \in Running, StepSucceeds(n) \/ StepFails(n) \/ BreaksContract(n)
  PROVE  HoldKept
<1>1. Kind(n) = "step" /\ n \in Running \ Roots
  BY RunningIs DEF HoldInv, StepSucceeds, StepFails, BreaksContract
<1>2. n \in Nodes /\ Ctx(n) \in ContextErrors /\ frames[n].held = <<>>
  BY <1>1, RunningIs DEF HoldInv, Settled
<1>3. {n} \in SUBSET Errors /\ {} \in SUBSET Errors
  BY <1>2 DEF Errors
<1>4. CASE StepSucceeds(n)
  BY <1>1, <1>2, <1>3, <1>4, AcquiresHold, EmptyReturns DEF StepSucceeds
<1>5. CASE StepFails(n)
  <2>1. live' = live
    BY <1>5 DEF StepFails
  <2>2. PICK errs \in {{n}, {Ctx(n)}} \cap SUBSET Errors : Returns(frames, n, "failed", errs, returning)
    BY <1>2, <1>5 DEF StepFails, Fails, Errors, ContextErrors
  <2> QED
    BY <1>1, <1>2, <2>1, <2>2, EmptyReturns
<1>6. CASE BreaksContract(n)
  BY <1>1, <1>3, <1>6, AcquiresHold DEF BreaksContract, Fails
<1> QED
  BY <1>4, <1>5, <1>6

(* A block, a scope, a try, a loop or a race is over, or a pass gave up.   *)
LEMMA EndsHold ==
  ASSUME HoldInv, RunInv', NEW n \in Running,
         \/ SequenceEnds(n) \/ ScopeEnds(n) \/ TryCleaned(n)
         \/ LoopEnds(n) \/ RaceEnds(n) \/ GivesUp(n)
  PROVE  HoldKept
<1> DEFINE f == frames[n]
<1>1. /\ n \in Nodes /\ Handler(n, f) /\ f.errors \in SUBSET Errors /\ f.prior \in SUBSET Errors
      /\ n \notin Roots => Ctx(n) \in ContextErrors
      /\ n \in Roots <=> Kind(n) = "run"
  BY RunningIs DEF HoldInv, FrameType
<1>2. live' = live
  BY DEF SequenceEnds, ScopeEnds, TryCleaned, LoopEnds, RaceEnds, GivesUp, history
<1>3. Kind(n) # "run" /\ f.held = <<>>
  <2>1. CASE SequenceEnds(n) \/ ScopeEnds(n) \/ TryCleaned(n) \/ LoopEnds(n) \/ RaceEnds(n)
    <3>1. Kind(n) \notin {"run", "attempt"}
      BY <2>1 DEF SequenceEnds, ScopeEnds, TryCleaned, LoopEnds, RaceEnds
    <3> QED
      BY <3>1 DEF HoldInv, Settled
  <2>2. CASE GivesUp(n)
    <3>1. f.held = <<>> /\ f.at \in {"discard", "repoll", "abandon"}
      BY <2>2 DEF GivesUp, Released
    <3> QED
      BY <1>1, <3>1 DEF Handler, PhaseOf
  <2> QED
    BY <2>1, <2>2
<1>4. {n} \in SUBSET Errors /\ {} \in SUBSET Errors
  BY <1>1 DEF Errors
<1>5. ASSUME NEW ending, NEW errs \in SUBSET Errors, NEW returned,
             Returns(frames, n, ending, errs, returned)
      PROVE  HoldKept
  BY <1>2, <1>3, <1>5, EmptyReturns
<1> HIDE DEF f
<1>6. CASE SequenceEnds(n) \/ TryCleaned(n)
  <2>1. f.errors \in SUBSET Errors /\ f.prior \cup f.errors \in SUBSET Errors
    BY <1>1
  <2>2. PICK errs \in {f.errors, f.prior \cup f.errors} :
          Returns(frames, n, IF errs = {} THEN "ok" ELSE "failed", errs, returning)
    BY <1>6 DEF SequenceEnds, TryCleaned, f
  <2> QED
    BY <1>5, <2>1, <2>2
<1>7. CASE ScopeEnds(n)
  <2>1. PICK closing \in {{}, {n}} :
          LET errs == f.prior \cup f.errors \cup closing
          IN Returns(frames, n, IF errs = {} THEN "ok" ELSE "failed", errs, f.kept)
    BY <1>7 DEF ScopeEnds, f
  <2>2. f.prior \cup f.errors \cup closing \in SUBSET Errors
    BY <1>1, <1>4
  <2> QED
    BY <1>5, <2>1, <2>2
<1>8. CASE LoopEnds(n)
  <2>1. \/ Returns(frames, n, "failed", f.errors, returning)
        \/ Returns(frames, n, "ok", {}, returning)
        \/ Returns(frames, n, "failed", {n}, returning)
    BY <1>8 DEF LoopEnds, Fails, f
  <2> QED
    BY <1>1, <1>4, <1>5, <2>1
<1>9. CASE RaceEnds(n)
  <2>1. n \notin Roots /\ RaceError(n) \in SUBSET Errors
    BY <1>1, <1>3 DEF RaceError, ContextErrors, Errors, f
  <2>2. PICK errs \in {RaceError(n), {}, {n}} :
          Returns(frames, n, IF errs = {} THEN "ok" ELSE "failed", errs, returning)
    BY <1>9 DEF RaceEnds
  <2> QED
    BY <1>4, <1>5, <2>1, <2>2
<1>10. CASE GivesUp(n)
  <2>1. Returns(frames, n, "failed", f.errors, returning)
    BY <1>10 DEF GivesUp, Fails, f
  <2> QED
    BY <1>1, <1>5, <2>1
<1> QED
  BY <1>6, <1>7, <1>8, <1>9, <1>10

(* The next iteration, and the next pass.                                  *)
LEMMA AgainHold ==
  ASSUME HoldInv, RunInv', NEW n \in Running, LoopAgain(n) \/ NextPass(n)
  PROVE  HoldKept
<1> DEFINE f == frames[n]
<1>1. /\ n \in Nodes /\ Handler(n, f) /\ f \in FrameType
      /\ n \notin Roots => Expired(n) \in ContextErrors
      /\ n \in Roots <=> Kind(n) = "run"
  BY RunningIs DEF HoldInv
<1>2. live' = live
  BY DEF LoopAgain, NextPass
<1>3. Kind(n) # "run" /\ f.held = <<>>
  <2>1. CASE LoopAgain(n)
    BY <2>1 DEF LoopAgain, HoldInv, Settled
  <2>2. CASE NextPass(n)
    BY <1>1, <2>2 DEF NextPass, HoldInv, Settled, Waits, Handler, PhaseOf
  <2> QED
    BY <2>1, <2>2
<1>4. PICK cause \in ContextErrors, count \in {f.count + 1, PassNumber(f)}, ctx \in {f.ctx, f.outer} :
        \/ cause # "none" /\ Fails(frames, n, {cause})
        \/ frames' = [frames EXCEPT ![n] = [Frame(n, ctx) EXCEPT !.count = count]]
  <2>1. f.ctx \in ContextErrors /\ (n \notin Roots => Expired(n) \in ContextErrors)
    BY <1>1 DEF FrameType
  <2>2. CASE LoopAgain(n)
    BY <2>1, <2>2 DEF LoopAgain
  <2>3. CASE NextPass(n)
    BY <1>1, <1>3, <2>1, <2>3 DEF NextPass
  <2> QED
    BY <2>2, <2>3
<1>5. CASE cause # "none" /\ Fails(frames, n, {cause})
  <2>1. {cause} \in SUBSET Errors
    BY <1>5 DEF ContextErrors, Errors
  <2> QED
    BY <1>2, <1>3, <1>5, <2>1, EmptyReturns DEF Fails
<1>6. CASE frames' = [frames EXCEPT ![n] = [Frame(n, ctx) EXCEPT !.count = count]]
  <2> DEFINE g == [Frame(n, ctx) EXCEPT !.count = count]
  <2>1. g.held = <<>>
    BY DEF Frame
  <2> HIDE DEF g
  <2>2. frames' = [frames EXCEPT ![n] = g]
    BY <1>6 DEF g
  <2> QED
    BY <1>2, <1>3, <2>1, <2>2, ChangesHold
<1> QED
  BY <1>4, <1>5, <1>6

(* A handler goes on to its next phase.                                    *)
LEMMA PhaseHold ==
  ASSUME HoldInv, RunInv', NEW n \in Running,
         \/ MainEnds(n) \/ RunCleaned(n) \/ TryEnds(n) \/ CatchEnds(n) \/ PassFails(n)
         \/ PassIsNotReady(n) \/ Retries(n) \/ Repolls(n)
  PROVE  HoldKept
<1> DEFINE f == frames[n]
<1>1. f \in FrameType
  BY RunningIs DEF HoldInv
<1>2. live' = live
  BY DEF MainEnds, RunCleaned, TryEnds, CatchEnds, PassFails, PassIsNotReady, Retries, Repolls, history
<1>3. ASSUME NEW errs
      PROVE  Cleaning(n, errs).held = f.held /\ Cleaning(n, errs).at = "cleanup"
  <2> DEFINE list == Entries(n)
  <2> HIDE DEF list, f
  <2>1. LET g == [f EXCEPT !.at = "cleanup", !.todo = list, !.prior = errs, !.errors = {},
                           !.ctx = "none", !.kept = returning, !.ran = <<>>]
        IN g.held = f.held /\ g.at = "cleanup"
    BY <1>1 DEF FrameType
  <2> QED
    BY <2>1 DEF Cleaning, list, f
<1>4. ASSUME NEW g, frames' = [frames EXCEPT ![n] = g], g.held = f.held,
             g.at \in Waits => f.held = <<>>
      PROVE  HoldKept
  BY <1>2, <1>4, ChangesHold
<1>5. ASSUME NEW errs, frames' = [frames EXCEPT ![n] = Cleaning(n, errs)]
      PROVE  HoldKept
  BY <1>3, <1>4, <1>5 DEF Waits
<1>6. ASSUME NEW at, NEW prior, NEW errs, NEW g,
             \/ g = [f EXCEPT !.at = at]
             \/ g = [f EXCEPT !.at = at, !.errors = errs]
             \/ g = [f EXCEPT !.at = at, !.prior = prior, !.errors = errs]
      PROVE  g.held = f.held /\ g.at = at
  <2> HIDE DEF f
  <2> QED
    BY <1>1, <1>6 DEF FrameType
<1>7. CASE MainEnds(n)
  BY <1>5, <1>7 DEF MainEnds
<1>8. CASE CatchEnds(n)
  <2>1. PICK errs : frames' = [frames EXCEPT ![n] = Cleaning(n, errs)]
    BY <1>8 DEF CatchEnds
  <2> QED
    BY <1>5, <2>1
<1>9. CASE TryEnds(n)
  <2> DEFINE list == Tree[n].rest
             g == [f EXCEPT !.at = "catch", !.todo = list, !.prior = f.errors,
                            !.errors = {}, !.worked = FALSE, !.ran = <<>>]
  <2>1. \/ frames' = [frames EXCEPT ![n] = g]
        \/ frames' = [frames EXCEPT ![n] = Cleaning(n, f.errors)]
    BY <1>9 DEF TryEnds
  <2>2. g.held = f.held /\ g.at = "catch"
    <3> HIDE DEF f, list
    <3> QED
      BY <1>1 DEF FrameType
  <2> HIDE DEF g
  <2> QED
    BY <1>4, <1>5, <2>1, <2>2 DEF Waits
<1>10. ASSUME NEW at, at \in Waits => f.held = <<>>, frames' = [frames EXCEPT ![n].at = at]
       PROVE  HoldKept
  <2> DEFINE g == [f EXCEPT !.at = at]
  <2>1. frames' = [frames EXCEPT ![n] = g]
    BY <1>10
  <2>2. g.held = f.held /\ g.at = at
    BY <1>6
  <2> HIDE DEF g
  <2> QED
    BY <1>4, <1>10, <2>1, <2>2
<1>11. CASE RunCleaned(n)
  BY <1>10, <1>11 DEF RunCleaned, Waits
<1>12. CASE PassFails(n)
  <2> DEFINE errs == PassError(n)
             g == [f EXCEPT !.at = "discard", !.prior = f.errors, !.errors = errs]
  <2>1. frames' = [frames EXCEPT ![n] = g]
    BY <1>12 DEF PassFails
  <2>2. g.held = f.held /\ g.at = "discard"
    <3> HIDE DEF f, errs
    <3> QED
      BY <1>1 DEF FrameType
  <2> HIDE DEF g
  <2> QED
    BY <1>4, <2>1, <2>2 DEF Waits
<1>13. CASE PassIsNotReady(n)
  <2>1. CASE frames' = [frames EXCEPT ![n].at = "repoll"]
    BY <1>10, <2>1 DEF Waits
  <2>2. CASE frames' = [frames EXCEPT ![n].at = "abandon", ![n].errors = {n}]
    <3> DEFINE g == [f EXCEPT !.at = "abandon", !.errors = {n}]
    <3>1. frames' = [frames EXCEPT ![n] = g]
      BY <2>2
    <3>2. g.held = f.held /\ g.at = "abandon"
      BY <1>6, ZenonT(60)
    <3> HIDE DEF g
    <3> QED
      BY <1>4, <3>1, <3>2 DEF Waits
  <2> QED
    BY <1>13, <2>1, <2>2 DEF PassIsNotReady
<1>14. CASE Retries(n) \/ Repolls(n)
  <2>1. f.held = <<>>
    BY <1>14 DEF Retries, Repolls, Released
  <2> QED
    BY <1>10, <1>14, <2>1 DEF Retries, Repolls
<1> QED
  BY <1>7, <1>8, <1>9, <1>11, <1>12, <1>13, <1>14

(* A branch panics; contexts end, and a race reads a completion.           *)
LEMMA BranchPanicsHold ==
  ASSUME HoldInv, RunInv', NEW n \in Running, BranchPanics(n)
  PROVE  HoldKept
<1> DEFINE p == Parent[n]
           list == Append(frames[p].inbox, [branch |-> n, failed |-> TRUE, eligible |-> FALSE])
           g == [frames[p] EXCEPT !.inbox = list]
           rest == Restrict(frames, Running \ {n})
<1>1. Kind(n) = "branch" /\ frames' = [rest EXCEPT ![p].inbox = list] /\ live' = live
  <2>1. n \in Running \ Roots /\ p \in Running
    BY RunningIs DEF BranchPanics, HoldInv
  <2>2. p # n
    BY <2>1, RunningIs, BranchCaller DEF HoldInv, BranchPanics
  <2>3. rest[p] = frames[p]
    BY <2>1, <2>2 DEF Restrict
  <2> QED
    BY <2>3 DEF BranchPanics, history
<1>2. p \in Running /\ p # n /\ frames[p] \in FrameType
  BY <1>1, RunningIs, BranchCaller DEF HoldInv
<1>3. frames[n].held = <<>>
  BY <1>1 DEF HoldInv, Settled
<1>4. /\ DOMAIN frames' = Running \ {n} /\ frames'[p] = g
      /\ \A m \in Running \ {n, p} : frames'[m] = frames[m]
  <2>1. DOMAIN rest = Running \ {n} /\ \A m \in Running \ {n} : rest[m] = frames[m]
    BY DEF Restrict
  <2> HIDE DEF rest, p, list
  <2> QED
    BY <1>1, <1>2, <2>1
<1> HIDE DEF list
<1>5. g.held = frames[p].held /\ g.at = frames[p].at
  <2> DEFINE f == frames[p]
  <2> HIDE DEF f
  <2>1. f \in FrameType /\ g = [f EXCEPT !.inbox = list]
    BY <1>2 DEF f
  <2> HIDE DEF g
  <2> QED
    BY <2>1 DEF FrameType, f
<1> HIDE DEF g
<1>6. \A m \in Running \ {n} : frames'[m].held = frames[m].held /\ frames'[m].at = frames[m].at
  BY <1>4, <1>5
<1> QED
  BY <1>1, <1>3, <1>4, <1>6, SteadyHold

LEMMA StoppedHold ==
  ASSUME HoldInv, RunInv', live' = live, DOMAIN frames' = Running,
         \A m \in Running : frames'[m].held = frames[m].held /\ frames'[m].at = frames[m].at
  PROVE  HoldKept
  BY SteadyHold

LEMMA ContextHold ==
  ASSUME HoldInv, RunInv', NEW n \in Running,
         Interrupt(n) \/ TimesOut(n) \/ Elapses(n) \/ Completes(n)
  PROVE  HoldKept
<1>1. live' = live
  BY DEF Interrupt, TimesOut, Elapses, Completes, history
<1>2. DOMAIN frames = Running /\ \A m \in Running : frames[m] \in FrameType
  BY RunningIs DEF HoldInv, Running
<1>3. ASSUME NEW cause \in {"canceled", "deadline"}, NEW fs, DOMAIN fs = Running,
             \A m \in Running : fs[m] \in FrameType
      PROVE  LET gs == End(fs, n, cause)
             IN DOMAIN gs = Running /\ \A m \in Running : gs[m].held = fs[m].held /\ gs[m].at = fs[m].at
                                                          /\ gs[m] \in FrameType
  BY <1>3, EndIs DEF Stopped
<1>4. CASE frames' = End(frames, n, "canceled") \/ frames' = End(frames, n, "deadline")
  BY <1>1, <1>2, <1>3, <1>4, StoppedHold
<1>5. CASE frames' = [End(frames, n, "deadline") EXCEPT ![n].outer = frames[n].outer]
  <2> DEFINE gs == End(frames, n, "deadline")
             o == frames[n].outer
             h == gs[n]
             g == [h EXCEPT !.outer = o]
  <2>1. /\ DOMAIN gs = Running
        /\ \A m \in Running : gs[m].held = frames[m].held /\ gs[m].at = frames[m].at /\ gs[m] \in FrameType
    BY <1>2, <1>3
  <2> HIDE DEF gs, o
  <2>2. DOMAIN frames' = Running /\ frames'[n] = g /\ \A m \in Running \ {n} : frames'[m] = gs[m]
    BY <1>5, <2>1 DEF gs, o
  <2>3. h \in FrameType
    BY <2>1
  <2> HIDE DEF h
  <2>4. g.held = h.held /\ g.at = h.at
    BY <2>3 DEF FrameType
  <2> HIDE DEF g
  <2>5. \A m \in Running : frames'[m].held = frames[m].held /\ frames'[m].at = frames[m].at
    BY <2>1, <2>2, <2>4 DEF h
  <2> QED
    BY <1>1, <2>2, <2>5, StoppedHold
<1>6. CASE Completes(n)
  <2>1. /\ DOMAIN frames' = Running
        /\ \A m \in Running : frames'[m].held = frames[m].held /\ frames'[m].at = frames[m].at
    BY <1>6, CompletesStops DEF HoldInv, Stopped
  <2> QED
    BY <1>1, <2>1, StoppedHold
<1> QED
  BY <1>4, <1>5, <1>6 DEF Interrupt, TimesOut, Elapses

LEMMA RunEndsHold ==
  ASSUME HoldInv, RunInv', NEW n \in Running, RunEnds(n)
  PROVE  HoldKept
<1>1. /\ frames[n].at \in Releasing /\ frames[n].held = <<>> /\ Kind(n) = "run"
      /\ DOMAIN frames' = {} /\ live' = live
  BY DEF RunEnds, Released, history
<1>2. n \in Nodes /\ n \in Roots /\ Handler(n, frames[n])
  BY <1>1, RunningIs DEF HoldInv
<1>3. Lone(n)
  BY <1>1, <1>2, QuietIsLone DEF HoldInv, RunInv, Handler, CallsOwn, Quiet
<1>4. Running = {n}
  BY <1>2, <1>3, RunIsLast DEF HoldInv
<1> QED
  BY <1>1, <1>4, SteadyHold

LEMMA StutterHold ==
  ASSUME HoldInv, RunInv', UNCHANGED vars
  PROVE  HoldKept
<1>1. frames' = frames /\ live' = live
  BY DEF vars, history
<1>2. DOMAIN frames' = Running
  BY <1>1 DEF Running
<1> QED
  BY <1>1, <1>2, StoppedHold

(* Every step keeps the registrations, and releases in reverse order.      *)
LEMMA HoldInvKept == HoldInv /\ [Next]_vars => HoldInv' /\ ReleasesLast
<1> SUFFICES ASSUME HoldInv, [Next]_vars PROVE RunInv' /\ HoldKept
  BY DEF HoldInv, HoldKept
<1>0. RunInv'
  BY RunInvKept DEF HoldInv, Kept
<1>1. ASSUME NEW n \in Called, Call(n) PROVE HoldKept
  BY <1>0, <1>1, CallHold
<1>2. ASSUME NEW n \in Running, Continue(n) PROVE HoldKept
  BY <1>0, <1>2, StepHold, EndsHold, AgainHold, PhaseHold, ReleasesHold, AdoptsHold,
     RunEndsHold, BranchPanicsHold, ContextHold
  DEF Continue
<1>3. ASSUME NEW n \in Running, Interrupt(n) \/ TimesOut(n) \/ Elapses(n) PROVE HoldKept
  BY <1>0, <1>3, ContextHold
<1>4. CASE UNCHANGED vars
  BY <1>0, <1>4, StutterHold
<1> QED
  BY <1>0, <1>1, <1>2, <1>3, <1>4 DEF Next, Advances, Finished

LEMMA InitHoldInv == Init => HoldInv
<1> SUFFICES ASSUME Init PROVE HoldInv
  OBVIOUS
<1>1. PICK r \in Roots : frames = [n \in {r} |-> Frame(n, "none")]
  BY DEF Init
<1>2. live = <<>> /\ \A n \in Running : frames[n].held = <<>>
  BY <1>1 DEF Init, Running, Frame
<1>3. Settled
  BY <1>2 DEF Settled
<1>4. HeldBy = [n \in Nodes |-> <<>>]
  BY <1>2 DEF HeldBy
<1>5. Placed(live, HeldBy, <<>>, <<>>)
  BY <1>2, <1>4, EmptyList DEF Placed
<1> QED
  BY <1>3, <1>5, InitRunInv DEF HoldInv, Registered

(* What is live is what is registered.                                     *)
LEMMA AsManyRegistered ==
  ASSUME HoldInv, NEW r \in Nodes
  PROVE  Cardinality(Acquisitions(r)) = Cardinality(Registrations(r))
<1>1. PICK who, spot : Placed(live, HeldBy, who, spot)
  BY DEF HoldInv, Registered
<1>2. live \in Seq(Nodes) /\ Len(live) \in Nat /\ DOMAIN live = 1..Len(live)
  BY GlobalsAre, LenProperties DEF HoldInv
<1>3. \A n \in Running : /\ n \in Nodes /\ frames[n].held \in Seq(Nodes)
                         /\ DOMAIN frames[n].held = 1..Len(frames[n].held)
                         /\ HeldBy[n] = frames[n].held
  <2> SUFFICES ASSUME NEW n \in Running
               PROVE  /\ n \in Nodes /\ frames[n].held \in Seq(Nodes)
                      /\ DOMAIN frames[n].held = 1..Len(frames[n].held)
                      /\ HeldBy[n] = frames[n].held
    OBVIOUS
  <2>1. n \in Nodes /\ frames[n].held \in Seq(Nodes)
    BY RunningIs DEF HoldInv, FrameType
  <2> QED
    BY <2>1, LenProperties DEF HeldBy
<1>4. \A n \in Nodes : 1..Len(HeldBy[n]) # {} => n \in Running
  BY EmptyList DEF HeldBy
<1> DEFINE A == Acquisitions(r)
           R == Registrations(r)
           pair == [i \in A |-> <<who[i], spot[i]>>]
<1>5. IsFiniteSet(A)
  <2>1. IsFiniteSet(1..Len(live)) /\ A \subseteq 1..Len(live)
    BY <1>2, FS_Interval DEF Acquisitions
  <2> QED
    BY <2>1, FS_Subset
<1>6. \A i \in A : /\ i \in 1..Len(live) /\ who[i] \in Nodes
                   /\ spot[i] \in 1..Len(HeldBy[who[i]]) /\ HeldBy[who[i]][spot[i]] = r
  BY <1>1, <1>2 DEF Acquisitions, Placed
<1>7. \A i \in A : pair[i] \in R
  <2> SUFFICES ASSUME NEW i \in A PROVE <<who[i], spot[i]>> \in R
    OBVIOUS
  <2>1. /\ who[i] \in Running /\ spot[i] \in DOMAIN frames[who[i]].held
        /\ frames[who[i]].held[spot[i]] = r
    BY <1>3, <1>4, <1>6
  <2> QED
    BY <2>1 DEF Registrations
<1>8. \A i \in A, j \in A : pair[i] = pair[j] => i = j
  <2>1. \A i, j \in 1..Len(live) : who[i] = who[j] /\ spot[i] = spot[j] => i = j
    BY <1>1 DEF Placed
  <2> QED
    BY <1>6, <2>1
<1>9. ASSUME NEW y \in R PROVE \E i \in A : pair[i] = y
  <2>1. PICK n \in Running : \E k \in DOMAIN frames[n].held : frames[n].held[k] = r /\ y = <<n, k>>
    BY DEF Registrations
  <2>2. PICK k \in 1..Len(HeldBy[n]) : HeldBy[n][k] = r /\ y = <<n, k>>
    BY <1>3, <2>1
  <2>3. PICK i \in 1..Len(live) : who[i] = n /\ spot[i] = k
    <3>1. \A m \in Nodes : \A x \in 1..Len(HeldBy[m]) : \E i \in 1..Len(live) : who[i] = m /\ spot[i] = x
      BY <1>1 DEF Placed
    <3> QED
      BY <1>3, <3>1
  <2>4. live[i] = r
    <3>1. \A j \in 1..Len(live) : HeldBy[who[j]][spot[j]] = live[j]
      BY <1>1 DEF Placed
    <3> QED
      BY <2>2, <2>3, <3>1
  <2> QED
    BY <1>2, <2>2, <2>3, <2>4 DEF Acquisitions
<1> HIDE DEF A, R
<1>10. pair \in Bijection(A, R)
  BY <1>7, <1>8, <1>9 DEF Bijection, Injection, Surjection, IsInjective
<1>11. ExistsBijection(A, R)
  BY <1>10 DEF ExistsBijection
<1> QED
  BY <1>5, <1>11, FS_Bijection DEF A, R

LEMMA NothingLeft ==
  ASSUME HoldInv, Running = {}
  PROVE  live = <<>>
<1>1. PICK who, spot : Placed(live, HeldBy, who, spot)
  BY DEF HoldInv, Registered
<1>2. \A n \in Nodes : HeldBy[n] = <<>>
  BY DEF HeldBy
<1>3. live \in Seq(Nodes) /\ Len(live) \in Nat
  BY GlobalsAre, LenProperties DEF HoldInv
<1>4. ASSUME NEW i \in 1..Len(live) PROVE FALSE
  <2>1. who[i] \in Nodes /\ spot[i] \in 1..Len(HeldBy[who[i]])
    BY <1>1 DEF Placed
  <2>2. spot[i] \in 1..0
    BY <1>2, <2>1, EmptyList
  <2> QED
    BY <2>2
<1> QED
  BY <1>3, <1>4, EmptySeq

(* What was acquired and not released is registered exactly once, in       *)
(* places that respect the order of acquisition.                           *)
THEOREM HoldInvariance == Spec => []HoldInv
<1>1. HoldInv /\ [Next]_vars => HoldInv'
  BY HoldInvKept
<1> QED
  BY <1>1, InitHoldInv, PTL DEF Spec

(* The safety properties of a run: types, resources released in time, and  *)
(* an honest outcome.                                                      *)
THEOREM RunSafeAlways == Spec => []Safety
<1>1. HoldInv => ReleasedInTime
  <2> SUFFICES ASSUME HoldInv PROVE ReleasedInTime
    OBVIOUS
  <2>1. \A n \in Running : frames[n].at \in {"retryWait", "pollWait"} => frames[n].held = <<>>
    BY DEF HoldInv, Settled, Waits
  <2>2. result # "running" => live = <<>>
    BY NothingLeft DEF HoldInv, RunInv, Ended
  <2> QED
    BY <2>1, <2>2, AsManyRegistered DEF ReleasedInTime
<1> QED
  BY <1>1, HoldInvariance, RunTypeCorrect, OutcomeIsHonest, PTL DEF Safety

(* Resources are released in reverse order, but for those of branches that *)
(* race.                                                                   *)
THEOREM ResourcesReverse == Spec => ReleasedInReverse
<1>1. HoldInv /\ [Next]_vars =>
        [Len(live') < Len(live) =>
           \E i \in DOMAIN live :
             /\ live' = RemoveAt(live, i)
             /\ \A j \in i + 1..Len(live) : Concurrent(live[i], live[j])]_vars
  BY HoldInvKept DEF ReleasesLast
<1> QED
  BY <1>1, HoldInvariance, PTL DEF Spec, ReleasedInReverse

-----------------------------------------------------------------------------
(* Where a return may stand.                                               *)

(* Blocks that pass a return on.                                           *)
Path == {"run", "block", "executor", "worktree"}

(* A return stands in the bodies of blocks that pass it on.                *)
ReturnsPlaced ==
  \A n \in Nodes : Kind(n) = "return" =>
    \A x \in Within[n] \ Roots : x \in Range(Tree[Parent[x]].main) /\ Kind(Parent[x]) \in Path

(* A definition that goes down the tree has a solution.                    *)
Descends(F, V) ==
  /\ V # {} /\ F \in [[Nodes -> V] -> [Nodes -> V]]
  /\ \A n \in Nodes, f \in [Nodes -> V], g \in [Nodes -> V] :
       (\A c \in Children(n) : f[c] = g[c]) => F[f][n] = F[g][n]
Solvable(F, V) == \E f \in [Nodes -> V] : \A n \in Nodes : f[n] = F[f][n]

LEMMA DownTheTree ==
  ASSUME NEW V, NEW F, Descends(F, V)
  PROVE  Solvable(F, V)
<1> DEFINE Down(D) == \A x \in D : Children(x) \subseteq D
           Solves(D, f) == \A x \in D : f[x] = F[f][x]
           Bad == {D \in SUBSET Nodes : Down(D) /\ ~\E f \in [Nodes -> V] : Solves(D, f)}
<1>0. V # {} /\ F \in [[Nodes -> V] -> [Nodes -> V]]
  BY DEF Descends
<1>1. Bad = {}
  <2> SUFFICES ASSUME Bad # {} PROVE FALSE
    OBVIOUS
  <2>1. PICK D \in Bad : \A B \in Bad : B \subseteq D => B = D
    <3>1. Bad \in SUBSET SUBSET Nodes
      OBVIOUS
    <3> HIDE DEF Bad
    <3> QED
      BY <3>1, MinimalSet
  <2>2. D \in SUBSET Nodes /\ Down(D) /\ ~\E f \in [Nodes -> V] : Solves(D, f)
    OBVIOUS
  <2>3. D # {}
    <3> PICK v \in V : TRUE
      BY <1>0
    <3>1. [x \in Nodes |-> v] \in [Nodes -> V]
      OBVIOUS
    <3> QED
      BY <2>2, <3>1
  <2>4. PICK x \in D : x \in Roots \/ Declarer(x) \notin D
    BY <2>2, <2>3, Topmost
  <2> DEFINE E == D \ {x}
  <2>5. \A y \in D : Children(y) \subseteq E
    <3> SUFFICES ASSUME NEW y \in D, x \in Children(y) PROVE FALSE
      BY <2>2
    <3> QED
      BY <2>2, <2>4, ChildrenAreSteps, DeclarerIs
  <2>6. E \in SUBSET Nodes /\ Down(E) /\ E \subseteq D /\ E # D
    BY <2>2, <2>5
  <2>7. PICK f \in [Nodes -> V] : Solves(E, f)
    <3>1. E \notin Bad
      <4> HIDE DEF Bad, E
      <4> QED
        BY <2>1, <2>6
    <3> QED
      BY <2>6, <3>1
  <2> DEFINE g == [y \in Nodes |-> IF y = x THEN F[f][x] ELSE f[y]]
  <2>8. x \in Nodes /\ D \subseteq Nodes /\ F[f] \in [Nodes -> V] /\ F[f][x] \in V
    BY <1>0, <2>2
  <2>9. g \in [Nodes -> V] /\ g[x] = F[f][x] /\ \A y \in E : g[y] = f[y]
    BY <2>8
  <2> HIDE DEF g, Bad
  <2>10. \A y \in D : F[g][y] = F[f][y]
    <3> SUFFICES ASSUME NEW y \in D PROVE F[g][y] = F[f][y]
      OBVIOUS
    <3>1. \A c \in Children(y) : g[c] = f[c]
      BY <2>5, <2>9
    <3> QED
      BY <2>8, <2>9, <3>1 DEF Descends
  <2>11. Solves(D, g)
    BY <2>7, <2>9, <2>10
  <2> QED
    BY <2>2, <2>9, <2>11
<1>2. Nodes \in SUBSET Nodes /\ Down(Nodes)
  BY ChildrenAreSteps
<1> QED
  BY <1>1, <1>2 DEF Solvable

(* The recursion of Body is sound.                                         *)
LEMMA BodyDef ==
  \A n \in Nodes : Body[n] = Bodies(n) \cup UNION {Body[m] : m \in Bodies(n)}
<1> DEFINE G(n, f) == Bodies(n) \cup UNION {f[m] : m \in Bodies(n)}
<1>1. PICK V : V = SUBSET Nodes
  OBVIOUS
<1>2. PICK F : F = [f \in [Nodes -> V] |-> [n \in Nodes |-> G(n, f)]]
  OBVIOUS
<1>3. \A n \in Nodes : Bodies(n) \subseteq Children(n) /\ Bodies(n) \subseteq Nodes
  BY ChildrenAreSteps DEF Bodies, Children
<1>4. Solvable(F, V)
  <2>1. \A f \in [Nodes -> V], n \in Nodes : G(n, f) \in V
    BY <1>1, <1>3
  <2>2. \A n \in Nodes, f \in [Nodes -> V], g \in [Nodes -> V] :
          (\A c \in Children(n) : f[c] = g[c]) => G(n, f) = G(n, g)
    BY <1>3
  <2> HIDE DEF G
  <2>3. V # {} /\ F \in [[Nodes -> V] -> [Nodes -> V]]
    BY <1>1, <1>2, <2>1
  <2>4. Descends(F, V)
    BY <1>2, <2>2, <2>3 DEF Descends
  <2> QED
    BY <2>4, DownTheTree
<1>5. PICK f \in [Nodes -> V] : f = [n \in Nodes |-> G(n, f)]
  <2>1. PICK f \in [Nodes -> V] : \A n \in Nodes : f[n] = F[f][n]
    BY <1>4 DEF Solvable
  <2> HIDE DEF G
  <2>2. f = [n \in Nodes |-> f[n]] /\ \A n \in Nodes : f[n] = G(n, f)
    BY <1>2, <2>1
  <2> QED
    BY <2>2
<1>6. Body = [n \in Nodes |-> G(n, Body)]
  <2> DEFINE P(h) == h = [n \in Nodes |-> G(n, h)]
  <2>1. P(f)
    BY <1>5
  <2>2. Body = CHOOSE h : P(h)
    BY DEF Body, Bodies
  <2> HIDE DEF P
  <2>3. P(Body)
    BY <2>1, <2>2
  <2> QED
    BY <2>3 DEF P
<1> QED
  BY <1>6

(* And so is that of Accepted.                                             *)
LEMMA AcceptsFromBelow ==
  ASSUME NEW n \in Nodes, NEW scope \in StepScopes
  PROVE  /\ \A f : Accepts(n, scope, f) \in BOOLEAN
         /\ \A f, g : (\A c \in Children(n) : f[c] = g[c]) => Accepts(n, scope, f) = Accepts(n, scope, g)
<1>1. /\ \A i \in DOMAIN Tree[n].main : Tree[n].main[i] \in Children(n)
      /\ \A i \in DOMAIN Tree[n].rest : Tree[n].rest[i] \in Children(n)
      /\ \A i \in DOMAIN Tree[n].defers : Tree[n].defers[i] \in Children(n)
  BY ChildrenAreSteps DEF Range
<1>2. Kind(n) \in Kinds
  BY TreeAssumption
<1>3. ASSUME NEW f PROVE Accepts(n, scope, f) \in BOOLEAN
  <2>1. CASE Kind(n) = "run"
    BY <2>1 DEF Accepts
  <2>2. CASE Kind(n) = "return"
    BY <2>2 DEF Accepts
  <2>3. CASE Kind(n) = "block"
    BY <2>3 DEF Accepts
  <2>4. CASE Kind(n) = "branch"
    BY <2>4 DEF Accepts
  <2>5. CASE Kind(n) = "worktree"
    BY <2>5 DEF Accepts
  <2>6. CASE Kind(n) = "executor"
    BY <2>6 DEF Accepts
  <2>7. CASE Kind(n) = "try"
    BY <2>7 DEF Accepts
  <2>8. CASE Kind(n) = "race"
    BY <2>8 DEF Accepts
  <2>9. CASE Kind(n) = "loop"
    BY <2>9 DEF Accepts
  <2>10. CASE Kind(n) = "attempt"
    BY <2>10 DEF Accepts
  <2>11. CASE Kind(n) = "step"
    BY <2>11 DEF Accepts
  <2> QED
    BY <1>2, <2>1, <2>2, <2>3, <2>4, <2>5, <2>6, <2>7, <2>8, <2>9, <2>10, <2>11 DEF Kinds
<1>4. ASSUME NEW f, NEW g, \A c \in Children(n) : f[c] = g[c]
      PROVE  Accepts(n, scope, f) = Accepts(n, scope, g)
  BY <1>1, <1>2, <1>4 DEF Accepts, Kinds
<1> QED
  BY <1>3, <1>4

LEMMA AcceptedDef ==
  \A n \in Nodes, scope \in StepScopes : Accepted[n][scope] = Accepts(n, scope, Accepted)
<1> DEFINE G(n, f) == [scope \in StepScopes |-> Accepts(n, scope, f)]
<1>1. PICK V : V = [StepScopes -> BOOLEAN]
  OBVIOUS
<1>2. PICK F : F = [f \in [Nodes -> V] |-> [n \in Nodes |-> G(n, f)]]
  OBVIOUS
<1>3. Solvable(F, V)
  <2>1. \A f \in [Nodes -> V], n \in Nodes : G(n, f) \in V
    BY <1>1, AcceptsFromBelow
  <2>2. \A n \in Nodes, f \in [Nodes -> V], g \in [Nodes -> V] :
          (\A c \in Children(n) : f[c] = g[c]) => G(n, f) = G(n, g)
    BY AcceptsFromBelow
  <2> HIDE DEF G
  <2>3. V # {}
    <3>1. [scope \in StepScopes |-> TRUE] \in V
      BY <1>1
    <3> QED
      BY <3>1
  <2>4. F \in [[Nodes -> V] -> [Nodes -> V]]
    BY <1>2, <2>1
  <2>5. Descends(F, V)
    BY <1>2, <2>2, <2>3, <2>4 DEF Descends
  <2> QED
    BY <2>5, DownTheTree
<1>4. PICK f \in [Nodes -> V] : f = [n \in Nodes |-> G(n, f)]
  <2>1. PICK f \in [Nodes -> V] : \A n \in Nodes : f[n] = F[f][n]
    BY <1>3 DEF Solvable
  <2> HIDE DEF G
  <2>2. f = [n \in Nodes |-> f[n]] /\ \A n \in Nodes : f[n] = G(n, f)
    BY <1>2, <2>1
  <2> QED
    BY <2>2
<1>5. Accepted = [n \in Nodes |-> G(n, Accepted)]
  <2> DEFINE P(h) == h = [n \in Nodes |-> G(n, h)]
  <2>1. P(f)
    BY <1>4
  <2>2. Accepted = CHOOSE h : P(h)
    BY DEF Accepted
  <2> HIDE DEF P
  <2>3. P(Accepted)
    BY <2>1, <2>2
  <2> QED
    BY <2>3 DEF P
<1> QED
  BY <1>5

(* In which scope a part of an accepted step stands.                       *)
Returning == {"top", "executor"}

LEMMA PartsOf ==
  ASSUME NEW d \in Nodes
  PROVE  /\ Kind(d) \in {"step", "return"} => Tree[d].main = <<>>
         /\ Kind(d) \notin {"run", "executor", "try"} => Tree[d].rest = <<>>
         /\ Kind(d) \notin {"step", "attempt"} => Tree[d].defers = <<>>
         /\ \A c \in Children(d) :
              \/ \E i \in DOMAIN Tree[d].main : c = Tree[d].main[i] /\ c \in Range(Tree[d].main)
              \/ \E i \in DOMAIN Tree[d].rest : c = Tree[d].rest[i] /\ c \in Range(Tree[d].rest)
              \/ \E i \in DOMAIN Tree[d].defers : c = Tree[d].defers[i] /\ c \in Range(Tree[d].defers)
<1>1. /\ Kind(d) \in {"step", "return"} => Tree[d].main = <<>>
      /\ Kind(d) \notin {"run", "executor", "try"} => Tree[d].rest = <<>>
      /\ Kind(d) \notin {"step", "attempt"} => Tree[d].defers = <<>>
  BY TreeShape, TreeAssumption
<1>2. \A c \in Children(d) : c \in Range(Tree[d].main) \cup Range(Tree[d].rest) \cup Range(Tree[d].defers)
  BY ChildrenAreSteps
<1> QED
  BY <1>1, <1>2 DEF Range

LEMMA ScopeOfPart ==
  ASSUME NEW d \in Nodes, NEW scope \in StepScopes, Accepted[d][scope], NEW c \in Children(d),
         Kind(d) = "attempt" => c \notin Range(Tree[d].defers)
  PROVE  \E inner \in StepScopes :
           /\ Accepted[c][inner]
           /\ inner \in Returning =>
                /\ c \in Bodies(d) /\ Kind(d) \in Path \cup {"branch", "try", "race", "attempt"}
                /\ d \notin Roots => scope \in Returning
<1>1. Accepts(d, scope, Accepted) /\ Kind(d) \in Kinds /\ (d \in Roots <=> Kind(d) = "run")
  BY AcceptedDef, TreeAssumption
<1>2. CASE Kind(d) = "run"
  BY <1>1, <1>2, PartsOf DEF Accepts, StepScopes, Returning, Bodies, Path
<1>3. CASE Kind(d) \in {"block", "branch", "worktree"}
  <2>1. \A i \in DOMAIN Tree[d].main : Accepted[Tree[d].main[i]][scope]
    BY <1>1, <1>3 DEF Accepts
  <2>2. \E i \in DOMAIN Tree[d].main : c = Tree[d].main[i] /\ c \in Range(Tree[d].main)
    BY <1>3, PartsOf
  <2> QED
    BY <1>1, <1>3, <2>1, <2>2 DEF Bodies, Path
<1>4. CASE Kind(d) = "executor"
  BY <1>1, <1>4, PartsOf DEF Accepts, StepScopes, Returning, Bodies, Path
<1>5. CASE Kind(d) = "try"
  BY <1>1, <1>5, PartsOf DEF Accepts, StepScopes, Returning, Bodies, Path
<1>6. CASE Kind(d) \in {"race", "attempt"}
  <2>1. \A i \in DOMAIN Tree[d].main : Accepted[Tree[d].main[i]][scope]
    BY <1>1, <1>6 DEF Accepts
  <2>2. \E i \in DOMAIN Tree[d].main : c = Tree[d].main[i] /\ c \in Range(Tree[d].main)
    BY <1>6, PartsOf
  <2> QED
    BY <1>1, <1>6, <2>1, <2>2 DEF Bodies, Path
<1>7. CASE Kind(d) = "loop"
  BY <1>1, <1>7, PartsOf DEF Accepts, StepScopes, Returning, Bodies, Path
<1>8. CASE Kind(d) = "step"
  BY <1>1, <1>8, PartsOf DEF Accepts, StepScopes, Returning, Bodies, Path
<1>9. CASE Kind(d) = "return"
  BY <1>9, PartsOf
<1> QED
  BY <1>1, <1>2, <1>3, <1>4, <1>5, <1>6, <1>7, <1>8, <1>9 DEF Kinds

LEMMA NoReturnInside ==
  ASSUME NEW d \in Nodes, NEW scope \in StepScopes, Accepted[d][scope]
  PROVE  /\ Kind(d) \in {"try", "attempt"} => \A m \in Body[d] : Kind(m) # "return"
         /\ Kind(d) = "race" => \A m \in Under[d] \ {d} : Kind(m) # "return"
         /\ Kind(d) = "return" => scope \in Returning
<1>1. Accepts(d, scope, Accepted)
  BY AcceptedDef
<1>2. CASE Kind(d) \in {"try", "attempt"}
  BY <1>1, <1>2 DEF Accepts
<1>3. CASE Kind(d) = "race"
  BY <1>1, <1>3 DEF Accepts, Proper
<1>4. CASE Kind(d) = "return"
  BY <1>1, <1>4 DEF Accepts, Returning
<1> QED
  BY <1>2, <1>3, <1>4

LEMMA ChildBetween ==
  ASSUME NEW n \in Nodes, NEW x \in Around[n], x # n
  PROVE  \E c \in Children(x) : c \in Around[n]
<1> DEFINE S == {y \in Around[n] : x \in Around[y] /\ y # x}
<1>1. S \in SUBSET Nodes /\ S # {} /\ x \in Nodes
  BY AroundNodes, AroundTransitive
<1>2. PICK y \in S : y \in Roots \/ Declarer(y) \notin S
  <2> HIDE DEF S
  <2> QED
    BY <1>1, Topmost
<1>3. y \in Around[n] /\ y \in Nodes /\ x \in Around[y] /\ y # x
  BY <1>1, <1>2
<1>4. y \notin Roots /\ x \in Around[Declarer(y)] /\ Declarer(y) \in Nodes /\ y \in Children(Declarer(y))
  BY <1>3, AroundDef, DeclarerType
<1>5. Declarer(y) \in Around[n]
  BY <1>3, <1>4, AroundDef, AroundNodes, AroundTransitive
<1>6. Declarer(y) = x
  BY <1>2, <1>4, <1>5
<1> QED
  BY <1>3, <1>4, <1>6

(* Validation lets a return stand only where everything around it passes   *)
(* it on.                                                                  *)
LEMMA ReturnsArePlaced ==
  ASSUME NoReturnDeferred
  PROVE  ReturnsPlaced
<1> SUFFICES ASSUME NEW n \in Nodes, Kind(n) = "return", NEW z \in Within[n] \ Roots
             PROVE  z \in Range(Tree[Parent[z]].main) /\ Kind(Parent[z]) \in Path
  BY DEF ReturnsPlaced
<1>1. /\ Around[n] \subseteq Nodes /\ n \in Around[n]
      /\ \A x \in Around[n] : Around[x] \subseteq Around[n] /\ x \in Around[x]
      /\ \A x \in Around[n] \ Roots :
           /\ Declarer(x) \in Around[n] /\ x \in Children(Declarer(x)) /\ x \notin Around[Declarer(x)]
  <2>1. /\ Around[n] \subseteq Nodes /\ n \in Around[n]
        /\ \A x \in Around[n] : Around[x] \subseteq Around[n] /\ x \in Around[x]
    BY AroundNodes, AroundTransitive
  <2>2. ASSUME NEW x \in Around[n] \ Roots
        PROVE  Declarer(x) \in Around[n] /\ x \in Children(Declarer(x)) /\ x \notin Around[Declarer(x)]
    <3>1. x \in Nodes \ Roots /\ Declarer(x) \in Nodes /\ x \in Children(Declarer(x))
      BY <2>1, DeclarerType
    <3>2. Declarer(x) \in Around[x]
      BY <3>1, AroundDef, AroundNodes
    <3> QED
      BY <2>1, <3>1, <3>2, TreeShape
  <2> QED
    BY <2>1, <2>2
<1>2. \A x \in Around[n] : Kind(x) = "attempt" =>
        \A c \in Children(x) \cap Around[n] : c \notin Range(Tree[x].defers)
  BY DEF NoReturnDeferred
<1>3. ASSUME NEW x \in Around[n] PROVE \E scope \in StepScopes : Accepted[x][scope]
  <2> DEFINE Bad == {y \in Around[n] : ~\E scope \in StepScopes : Accepted[y][scope]}
  <2>1. Bad = {}
    <3> SUFFICES ASSUME Bad # {} PROVE FALSE
      OBVIOUS
    <3>1. PICK y \in Bad : y \in Roots \/ Declarer(y) \notin Bad
      <4>1. Bad \in SUBSET Nodes
        BY <1>1
      <4> HIDE DEF Bad
      <4> QED
        BY <4>1, Topmost
    <3>2. y \in Around[n] /\ ~\E scope \in StepScopes : Accepted[y][scope]
      OBVIOUS
    <3>3. y \notin Roots
      BY <3>2, TreeAssumption DEF StepScopes
    <3>4. Declarer(y) \in Around[n] /\ y \in Children(Declarer(y)) /\ Declarer(y) \in Nodes
      BY <1>1, <3>2, <3>3
    <3>5. PICK scope \in StepScopes : Accepted[Declarer(y)][scope]
      BY <3>1, <3>3, <3>4
    <3> HIDE DEF Bad
    <3> QED
      BY <1>2, <3>2, <3>4, <3>5, ScopeOfPart
  <2> QED
    BY <2>1
<1> DEFINE Reaches(x) ==
             /\ x \notin Roots => \A scope \in StepScopes : Accepted[x][scope] => scope \in Returning
             /\ x = n \/ n \in Body[x]
             /\ x \in Within[n]
<1>4. ASSUME NEW x \in Around[n], NEW c \in Children(x) \cap Around[n], Reaches(c)
      PROVE  /\ c \in Bodies(x) /\ Kind(x) \in Path \cup {"branch", "try", "race", "attempt"}
             /\ x \notin Roots => \A scope \in StepScopes : Accepted[x][scope] => scope \in Returning
  <2>1. x \in Nodes /\ c \notin Roots
    BY <1>1, ChildrenAreSteps
  <2>2. \A scope \in StepScopes : Accepted[x][scope] =>
          /\ c \in Bodies(x) /\ Kind(x) \in Path \cup {"branch", "try", "race", "attempt"}
          /\ x \notin Roots => scope \in Returning
    BY <1>2, <1>4, <2>1, ScopeOfPart
  <2> QED
    BY <1>3, <2>2
<1>5. ASSUME NEW x \in Around[n] PROVE Reaches(x)
  <2> DEFINE Bad == {y \in Around[n] : ~Reaches(y)}
  <2>1. Bad = {}
    <3> SUFFICES ASSUME Bad # {} PROVE FALSE
      OBVIOUS
    <3>1. PICK y \in Bad : \A c \in Children(y) : c \notin Bad
      <4>1. Bad \in SUBSET Nodes
        BY <1>1
      <4> HIDE DEF Bad
      <4> QED
        BY <4>1, Lowest
    <3>2. y \in Around[n] /\ ~Reaches(y) /\ y \in Nodes
      BY <1>1
    <3>3. CASE y = n
      BY <3>2, <3>3, NoReturnInside, WithinDef
    <3>4. CASE y # n
      <4>1. PICK c \in Children(y) : c \in Around[n]
        BY <3>2, <3>4, ChildBetween
      <4>2. Reaches(c)
        BY <3>1, <4>1
      <4>3. /\ c \in Bodies(y)
            /\ y \notin Roots => \A scope \in StepScopes : Accepted[y][scope] => scope \in Returning
        BY <1>4, <3>2, <4>1, <4>2
      <4>4. c \in Nodes \ Roots /\ Parent[c] = y
        BY <3>2, <4>3, BodiesAreCallees
      <4>5. n \in Body[y]
        BY <3>2, <4>2, <4>3, BodyDef
      <4>6. y \in Within[n]
        BY <4>2, <4>4, WithinDef, WithinTransitive
      <4> QED
        BY <3>2, <4>3, <4>5, <4>6
    <3> QED
      BY <3>3, <3>4
  <2> QED
    BY <2>1
<1>6. ASSUME NEW x \in Around[n], x # n
      PROVE  Kind(x) \notin {"try", "attempt", "race"}
  <2>1. n \in Body[x] /\ n \in Under[x] \ {x} /\ x \in Nodes
    BY <1>1, <1>5, <1>6 DEF Under
  <2> QED
    BY <1>3, <2>1, NoReturnInside
<1>7. ASSUME NEW x \in Around[n] \ Roots
      PROVE  x \in Range(Tree[Declarer(x)].main) /\ Kind(Declarer(x)) \in Path /\ Parent[x] = Declarer(x)
  <2> DEFINE d == Declarer(x)
  <2>1. d \in Around[n] /\ x \in Children(d) /\ x \notin Around[d] /\ d \in Nodes /\ d # n
    BY <1>1
  <2>2. x \in Bodies(d) /\ Kind(d) \in Path \cup {"branch"}
    BY <1>4, <1>5, <1>6, <2>1
  <2>3. Kind(d) # "branch"
    <3> SUFFICES ASSUME Kind(d) = "branch" PROVE FALSE
      OBVIOUS
    <3>1. d \notin Roots
      BY <2>1, TreeAssumption
    <3>2. Declarer(d) \in Around[n] /\ d \in Children(Declarer(d)) /\ d \notin Around[Declarer(d)]
      BY <1>1, <2>1, <3>1
    <3>3. Kind(Declarer(d)) = "race" /\ Declarer(d) # n
      BY <1>1, <2>1, <3>2, TreeShape
    <3> QED
      BY <1>6, <3>2, <3>3
  <2>4. x \in Range(Tree[d].main)
    BY <2>2, <2>3 DEF Bodies, Path
  <2> QED
    BY <2>1, <2>2, <2>3, <2>4, ParentOfPart
<1>8. Within[n] \subseteq Around[n]
  <2>1. \A x \in Around[n] \ Roots : Parent[x] \in Around[n]
    BY <1>1, <1>7
  <2> QED
    BY <1>1, <2>1, WithinLeast
<1> QED
  BY <1>7, <1>8

-----------------------------------------------------------------------------
(* Interruption: the forms of a step, and whose context has ended.         *)
Sheltered(n) == \E m \in Within[n] : frames[m].at = "cleanup"
Ending(f) == f.ctx # "none" /\ f.outer # "none"

(* In an interrupted run the context of every handler outside cleanup has  *)
(* ended, but that of the run when all it has to do is release.            *)
Cut ==
  interrupted => \A n \in Running : Sheltered(n) \/ frames[n].at = "release" \/ Ending(frames[n])

Besides(n) == DOMAIN frames' = Running /\ \A m \in Running \ {n} : frames'[m] = frames[m]
Quietly == UNCHANGED <<returning, didReturn, interrupted, result>>

Goes(n, returned) ==
  /\ n \in Nodes \ Roots /\ Awaited(n) /\ Lone(n)
  /\ DOMAIN frames' = Running \ {n}
  /\ \A m \in Running \ {n} : Same(frames[m], frames'[m])
  /\ \A m \in Running \ {n, Parent[n]} : frames'[m].todo = frames[m].todo
  /\ Range(frames'[Parent[n]].todo) \subseteq Range(frames[Parent[n]].todo)
  /\ returned /\ Kind(n) # "branch" /\ frames[Parent[n]].at = "main"
       => frames'[Parent[n]].todo = <<>>

JustGoes(n) ==
  Goes(n, returning) /\ Quietly /\ (n \in Running => Kind(n) \notin {"run", "executor", "worktree"})

ReturnsEarly(n) ==
  /\ Goes(n, TRUE) /\ n \in Called /\ Kind(n) = "return" /\ returning' = TRUE /\ didReturn' = TRUE
  /\ UNCHANGED <<interrupted, result>>

ScopeGoes(n) ==
  /\ n \in Running /\ Goes(n, frames[n].kept) /\ frames[n].at = "cleanup"
  /\ returning' = frames[n].kept /\ UNCHANGED <<didReturn, interrupted, result>>

Cleans(n) ==
  /\ n \in Running /\ Lone(n) /\ Besides(n) /\ OwnsDefers(n)
  /\ frames[n].at \in {"main", "catch"} /\ frames'[n].at = "cleanup"
  /\ frames'[n].kept = returning /\ frames'[n].todo = Entries(n)
  /\ IF Kind(n) = "try" THEN returning' = returning ELSE frames[n].at = "main" /\ returning' = FALSE
  /\ UNCHANGED <<didReturn, interrupted, result>>

WindsUp(n) ==
  /\ n \in Running \cap Roots /\ Lone(n) /\ Besides(n)
  /\ frames[n].at = "cleanup" /\ frames'[n].at = "release" /\ Quietly

Turns(n) ==
  /\ n \in Running /\ Lone(n) /\ Besides(n)
  /\ frames[n].at # "cleanup" /\ frames'[n].at # "cleanup"
  /\ frames[n].at = "release" => frames'[n].at = "release"
  /\ Kind(n) \in Path => frames[n].at = "release"
  /\ Ending(frames[n]) => Ending(frames'[n])
  /\ Quietly

Warned ==
  /\ DOMAIN frames' = Running
  /\ \A m \in Running : LET f == frames[m]
                            g == frames'[m]
                        IN /\ g.at = f.at /\ g.todo = f.todo /\ g.kept = f.kept
                           /\ Ending(f) => Ending(g)
  /\ UNCHANGED <<returning, didReturn, result>>
  /\ interrupted' = interrupted \/ Cut'

Form ==
  \/ \E n : \/ JustGoes(n) \/ ReturnsEarly(n) \/ ScopeGoes(n) \/ Cleans(n) \/ WindsUp(n) \/ Turns(n)
            \/ (n \in Called /\ Starts(n)) \/ (n \in Running /\ RunEnds(n))
  \/ Warned

LEMMA GoesBy ==
  ASSUME RunInv, NEW fs, DOMAIN fs = Running, \A m \in Running : Steady(m, frames[m], fs[m]),
         NEW n \in Nodes \ Roots, Awaited(n), Lone(n),
         NEW ending, NEW errs \in SUBSET Errors, NEW returned,
         Returns(fs, n, ending, errs, returned)
  PROVE  Goes(n, returned)
<1> DEFINE p == Parent[n]
           f == frames[p]
           g == frames'[p]
<1>1. /\ active \subseteq Nodes /\ p \in Running /\ p # n
      /\ \A m \in Running : frames[m] \in FrameType
      /\ Kind(n) # "branch" => f.todo # <<>>
  BY RunningIs, GlobalsAre, BranchCaller DEF Awaited
<1>2. /\ Left(n, errs)
      /\ returned /\ Kind(n) # "branch" /\ f.at = "main" => g.todo = <<>>
  BY <1>1, ReturnsEffect
<1>3. Told(n, errs, f, g) /\ f \in FrameType
  BY <1>1, <1>2 DEF Left
<1>4. Range(g.todo) \subseteq Range(f.todo)
  <2>1. CASE Kind(n) = "branch"
    BY <1>3, <2>1 DEF Told
  <2>2. CASE Kind(n) # "branch"
    <3>1. g.todo \in {<<>>, Tail(f.todo)} /\ f.todo \in Seq(Nodes) /\ f.todo # <<>>
      BY <1>1, <1>3, <2>2 DEF Told, FrameType
    <3>2. Range(<<>>) = {} /\ Range(Tail(f.todo)) \subseteq Range(f.todo)
      BY <3>1, TailType, EmptyList
    <3> QED
      BY <3>1, <3>2
  <2> QED
    BY <2>1, <2>2
<1>5. \A m \in Running \ {n} : Same(frames[m], frames'[m])
  BY <1>1, <1>2, <1>3 DEF Left, Steady, Told
<1>6. \A m \in Running \ {n, p} : frames'[m].todo = frames[m].todo
  BY <1>2 DEF Left, Steady
<1> QED
  BY <1>2, <1>4, <1>5, <1>6 DEF Goes, Left

LEMMA GoesItself ==
  ASSUME RunInv, NEW n \in Nodes \ Roots, Awaited(n), Lone(n),
         NEW ending, NEW errs \in SUBSET Errors, NEW returned,
         Returns(frames, n, ending, errs, returned)
  PROVE  Goes(n, returned)
<1>1. DOMAIN frames = Running /\ \A m \in Running : Steady(m, frames[m], frames[m])
  BY SteadyItself DEF Running
<1> QED
  BY <1>1, GoesBy

(* A step is called.                                                       *)
LEMMA CallForm ==
  ASSUME RunInv, NEW n \in Called, Call(n)
  PROVE  Form
<1>1. n \in Nodes \ Roots /\ n \notin Running /\ Awaited(n) /\ Lone(n) /\ Parent[n] \in Running
  BY CalledIs
<1>2. Ctx(n) \in ContextErrors
  BY <1>1, RunningIs DEF Ctx, FrameType
<1>3. ASSUME NEW ending, NEW errs \in SUBSET Errors, Returns(frames, n, ending, errs, returning), Quietly
      PROVE  Form
  <2>1. Goes(n, returning)
    BY <1>1, <1>3, GoesItself
  <2> QED
    BY <1>1, <1>3, <2>1 DEF Form, JustGoes
<1>4. CASE Refused(n)
  <2>1. Returns(frames, n, "refused", {Ctx(n)}, returning) /\ {Ctx(n)} \in SUBSET Errors /\ Quietly
    BY <1>2, <1>4 DEF Refused, ContextErrors, Errors, Quietly, outcomes
  <2> QED
    BY <1>3, <2>1
<1>5. CASE Skipped(n)
  <2>1. Returns(frames, n, "skipped", {}, returning) /\ {} \in SUBSET Errors /\ Quietly
    BY <1>5 DEF Skipped, Quietly, outcomes
  <2> QED
    BY <1>3, <2>1
<1>6. CASE OpenFails(n)
  <2>1. Returns(frames, n, "failed", {n}, returning) /\ {n} \in SUBSET Errors /\ Quietly
    BY <1>1, <1>6 DEF OpenFails, Fails, Errors, Quietly, outcomes
  <2> QED
    BY <1>3, <2>1
<1>7. CASE EarlyReturn(n)
  <2>1. Returns(frames, n, "ok", {}, TRUE) /\ {} \in SUBSET Errors
    BY <1>7 DEF EarlyReturn
  <2>2. Goes(n, TRUE)
    BY <1>1, <2>1, GoesItself
  <2> QED
    BY <1>7, <2>2 DEF EarlyReturn, ReturnsEarly, Form
<1> QED
  BY <1>4, <1>5, <1>6, <1>7 DEF Call, Form

(* A running handler goes.                                                 *)
LEMMA GoesForm ==
  ASSUME RunInv, NEW n \in Running, Lone(n), Kind(n) \notin {"run", "executor", "worktree"},
         NEW ending, NEW errs \in SUBSET Errors, Returns(frames, n, ending, errs, returning),
         Quietly
  PROVE  Form
<1>1. n \in Nodes \ Roots /\ Awaited(n)
  BY RunningIs
<1>2. Goes(n, returning)
  BY <1>1, GoesItself
<1> QED
  BY <1>2 DEF JustGoes, Form

LEMMA StepForm ==
  ASSUME RunInv, NEW n \in Running, StepSucceeds(n) \/ StepFails(n) \/ BreaksContract(n)
  PROVE  Form
<1>1. Kind(n) = "step" /\ n \in Running \ Roots
  BY RunningIs DEF StepSucceeds, StepFails, BreaksContract
<1>2. /\ n \in Nodes \ Roots /\ Awaited(n) /\ n \in Within[n] /\ Ctx(n) \in ContextErrors
      /\ frames[n].todo = <<>>
  BY <1>1, RunningIs DEF Handler, CallsOwn
<1>3. Lone(n)
  BY <1>1, <1>2, QuietIsLone DEF RunInv
<1>4. DOMAIN Acquired(n) = Running /\ \A m \in Running : Steady(m, frames[m], Acquired(n)[m])
  BY <1>1, AcquiredSteady
<1>5. Quietly /\ {n} \in SUBSET Errors /\ {} \in SUBSET Errors
  BY <1>2 DEF StepSucceeds, StepFails, BreaksContract, Quietly, outcomes, Errors
<1>6. DOMAIN frames = Running /\ \A m \in Running : Steady(m, frames[m], frames[m])
  BY SteadyItself DEF Running
<1>7. ASSUME NEW fs \in {frames, Acquired(n)}, NEW ending, NEW errs \in SUBSET Errors,
             Returns(fs, n, ending, errs, returning)
      PROVE  Form
  <2>1. DOMAIN fs = Running /\ \A m \in Running : Steady(m, frames[m], fs[m])
    BY <1>4, <1>6, <1>7
  <2>2. Goes(n, returning)
    BY <1>2, <1>3, <1>7, <2>1, GoesBy
  <2> QED
    BY <1>1, <1>5, <2>2 DEF JustGoes, Form
<1>8. CASE StepSucceeds(n)
  <2>1. \/ Returns(frames, n, "ok", {}, returning)
        \/ Returns(Acquired(n), n, "ok", {}, returning)
    BY <1>8 DEF StepSucceeds
  <2> QED
    BY <1>5, <1>7, <2>1
<1>9. CASE StepFails(n)
  <2>1. PICK errs \in {{n}, {Ctx(n)} \ {"none"}} : Returns(frames, n, "failed", errs, returning)
    <3>1. Ctx(n) # "none" => {Ctx(n)} = {Ctx(n)} \ {"none"}
      OBVIOUS
    <3> QED
      BY <1>9, <3>1 DEF StepFails, Fails
  <2>2. errs \in SUBSET Errors
    BY <1>2, <1>5 DEF ContextErrors, Errors
  <2> QED
    BY <1>7, <2>1, <2>2
<1>10. CASE BreaksContract(n)
  <2>1. Returns(Acquired(n), n, "failed", {n}, returning)
    BY <1>10 DEF BreaksContract, Fails
  <2> QED
    BY <1>5, <1>7, <2>1
<1> QED
  BY <1>8, <1>9, <1>10

(* A block, a scope, a try, a loop or a race is over, or a pass gives up.  *)
LEMMA EndsForm ==
  ASSUME RunInv, NEW n \in Running,
         \/ SequenceEnds(n) \/ ScopeEnds(n) \/ TryCleaned(n)
         \/ LoopEnds(n) \/ RaceEnds(n) \/ GivesUp(n)
  PROVE  Form
<1> DEFINE f == frames[n]
<1>1. /\ n \in Nodes /\ Handler(n, f) /\ f \in FrameType
      /\ f.errors \in SUBSET Errors /\ f.prior \in SUBSET Errors
      /\ n \notin Roots => Ctx(n) \in ContextErrors
      /\ n \in Roots <=> Kind(n) = "run"
  BY RunningIs DEF FrameType
<1>2. {n} \in SUBSET Errors /\ {} \in SUBSET Errors
  BY <1>1 DEF Errors
<1>3. CASE ~ScopeEnds(n)
  <2>1. Quietly
    BY <1>3 DEF SequenceEnds, TryCleaned, LoopEnds, RaceEnds, GivesUp, Quietly, outcomes
  <2>2. Kind(n) \notin {"run", "executor", "worktree"} /\ Lone(n)
    <3>1. CASE SequenceEnds(n) \/ TryCleaned(n) \/ LoopEnds(n)
      BY <3>1, QuietIsLone DEF SequenceEnds, TryCleaned, LoopEnds, Idle, RunInv
    <3>2. CASE RaceEnds(n)
      BY <3>2, JoinedIsLone DEF RaceEnds, RunInv
    <3>3. CASE GivesUp(n)
      <4>1. f.at \in {"discard", "repoll", "abandon"}
        BY <3>3 DEF GivesUp
      <4>2. Kind(n) = "attempt" /\ f.todo = <<>>
        BY <1>1, <4>1 DEF Handler, PhaseOf, CallsOwn, Quiet, Releasing
      <4> QED
        BY <4>2, QuietIsLone DEF RunInv
    <3> QED
      BY <1>3, <3>1, <3>2, <3>3
  <2>3. ASSUME NEW ending, NEW errs \in SUBSET Errors, Returns(frames, n, ending, errs, returning)
        PROVE  Form
    BY <2>1, <2>2, <2>3, GoesForm
  <2>4. Form
    <3>1. CASE SequenceEnds(n)
      <4>1. Returns(frames, n, IF f.errors = {} THEN "ok" ELSE "failed", f.errors, returning)
        BY <3>1 DEF SequenceEnds
      <4> QED
        BY <1>1, <2>3, <4>1
    <3>2. CASE TryCleaned(n)
      <4> DEFINE errs == f.prior \cup f.errors
      <4>1. Returns(frames, n, IF errs = {} THEN "ok" ELSE "failed", errs, returning)
        BY <3>2 DEF TryCleaned
      <4>2. errs \in SUBSET Errors
        BY <1>1
      <4> QED
        BY <2>3, <4>1, <4>2
    <3>3. CASE LoopEnds(n)
      <4>1. \/ Returns(frames, n, "failed", f.errors, returning)
            \/ Returns(frames, n, "ok", {}, returning)
            \/ Returns(frames, n, "failed", {n}, returning)
        BY <3>3 DEF LoopEnds, Fails
      <4> QED
        BY <1>1, <1>2, <2>3, <4>1
    <3>4. CASE RaceEnds(n)
      <4>1. n \notin Roots /\ RaceError(n) \in SUBSET Errors
        BY <1>1, <2>2 DEF RaceError, ContextErrors, Errors
      <4>2. PICK errs \in {RaceError(n), {}, {n}} :
              Returns(frames, n, IF errs = {} THEN "ok" ELSE "failed", errs, returning)
        BY <3>4 DEF RaceEnds
      <4> QED
        BY <1>2, <2>3, <4>1, <4>2
    <3>5. CASE GivesUp(n)
      <4>1. Returns(frames, n, "failed", f.errors, returning)
        BY <3>5 DEF GivesUp, Fails
      <4> QED
        BY <1>1, <2>3, <4>1
    <3> QED
      BY <1>3, <3>1, <3>2, <3>3, <3>4, <3>5
  <2> QED
    BY <2>4
<1>4. CASE ScopeEnds(n)
  <2>1. /\ n \notin Roots /\ Lone(n) /\ f.at = "cleanup"
        /\ returning' = f.kept /\ UNCHANGED <<didReturn, interrupted, result>>
    BY <1>1, <1>4, QuietIsLone DEF ScopeEnds, Idle, RunInv
  <2>2. PICK closing \in {{}, {n}} :
          LET errs == f.prior \cup f.errors \cup closing
          IN Returns(frames, n, IF errs = {} THEN "ok" ELSE "failed", errs, f.kept)
    BY <1>4 DEF ScopeEnds
  <2>3. f.prior \cup f.errors \cup closing \in SUBSET Errors
    BY <1>1, <1>2
  <2>4. n \in Nodes \ Roots /\ Awaited(n)
    BY <2>1, RunningIs
  <2>5. Goes(n, f.kept)
    BY <2>1, <2>2, <2>3, <2>4, GoesItself
  <2> QED
    BY <2>1, <2>5 DEF ScopeGoes, Form
<1> QED
  BY <1>3, <1>4

LEMMA PassWinsForm ==
  ASSUME RunInv, NEW n \in Running, PassWins(n)
  PROVE  Form
<1>1. /\ Kind(n) = "attempt" /\ frames[n].todo = <<>>
      /\ Returns(Adopt(n), n, "ok", {}, returning) /\ Quietly /\ {} \in SUBSET Errors
  BY DEF PassWins, Idle, Quietly, outcomes
<1>2. /\ n \in Nodes \ Roots /\ n \in Running \ Roots /\ Awaited(n) /\ Lone(n)
      /\ frames[n].held \in Seq(Nodes) /\ \A r \in Range(frames[n].held) : n \in Within[r]
  BY <1>1, RunningIs, QuietIsLone DEF RunInv, FrameType, Handler, Accounts
<1>3. DOMAIN Adopt(n) = Running /\ \A m \in Running : Steady(m, frames[m], Adopt(n)[m])
  BY <1>2, KeptBy DEF Adopt
<1>4. Goes(n, returning)
  BY <1>1, <1>2, <1>3, GoesBy
<1> QED
  BY <1>1, <1>4 DEF JustGoes, Form

(* A handler goes on in another phase.                                     *)
LEMMA TurnsForm ==
  ASSUME RunInv, NEW n \in Running, Lone(n), NEW g, frames' = [frames EXCEPT ![n] = g],
         frames[n].at # "cleanup", g.at # "cleanup",
         frames[n].at = "release" => g.at = "release",
         Kind(n) \in Path => frames[n].at = "release",
         Ending(frames[n]) => Ending(g), Quietly
  PROVE  Form
<1>1. Besides(n) /\ frames'[n] = g
  BY DEF Besides, Running
<1> QED
  BY <1>1 DEF Turns, Form

LEMMA AgainForm ==
  ASSUME RunInv, NEW n \in Running, LoopAgain(n) \/ NextPass(n)
  PROVE  Form
<1> DEFINE f == frames[n]
<1>1. /\ n \in Nodes /\ Handler(n, f) /\ f \in FrameType
      /\ n \notin Roots => Expired(n) \in ContextErrors
      /\ n \in Roots <=> Kind(n) = "run"
  BY RunningIs
<1>2. Quietly
  BY DEF LoopAgain, NextPass, Quietly, outcomes
<1>3. /\ Kind(n) \in {"loop", "attempt"} /\ Lone(n) /\ f.at \in {"main", "retryWait", "pollWait"}
  <2>1. CASE LoopAgain(n)
    BY <2>1, QuietIsLone DEF LoopAgain, Idle, RunInv
  <2>2. CASE NextPass(n)
    <3>1. f.at \in Waits
      BY <2>2 DEF NextPass, Waits
    <3>2. Kind(n) = "attempt" /\ f.todo = <<>>
      BY <1>1, <3>1 DEF Waits, Quiet, Handler, PhaseOf, CallsOwn
    <3> QED
      BY <3>1, <3>2, QuietIsLone DEF RunInv, Waits
  <2> QED
    BY <2>1, <2>2
<1>4. ASSUME NEW cause \in ContextErrors, cause # "none", Fails(frames, n, {cause})
      PROVE  Form
  <2>1. {cause} \in SUBSET Errors
    BY <1>4 DEF ContextErrors, Errors
  <2> QED
    BY <1>2, <1>3, <1>4, <2>1, GoesForm DEF Fails
<1>5. ASSUME NEW ctx \in {f.ctx, f.outer}, NEW count,
             frames' = [frames EXCEPT ![n] = [Frame(n, ctx) EXCEPT !.count = count]]
      PROVE  Form
  <2> DEFINE g == [Frame(n, ctx) EXCEPT !.count = count]
  <2>1. g.at = "main" /\ g.ctx = ctx /\ g.outer = ctx
    BY DEF Frame
  <2> HIDE DEF g
  <2>2. frames' = [frames EXCEPT ![n] = g]
    BY <1>5 DEF g
  <2>3. Ending(f) => Ending(g)
    BY <1>5, <2>1 DEF Ending
  <2> QED
    BY <1>2, <1>3, <2>1, <2>2, <2>3, TurnsForm DEF Path
<1>6. CASE LoopAgain(n)
  <2>1. CASE f.ctx # "none"
    <3>1. Fails(frames, n, {f.ctx}) /\ f.ctx \in ContextErrors
      BY <1>1, <1>6, <2>1 DEF LoopAgain, FrameType
    <3> QED
      BY <1>4, <2>1, <3>1
  <2>2. CASE f.ctx = "none"
    <3>1. frames' = [frames EXCEPT ![n] = [Frame(n, f.ctx) EXCEPT !.count = f.count + 1]]
      BY <1>6, <2>2 DEF LoopAgain
    <3> QED
      BY <1>5, <3>1
  <2> QED
    BY <2>1, <2>2
<1>7. CASE NextPass(n)
  <2>1. CASE Expired(n) # "none"
    <3>1. Fails(frames, n, {Expired(n)}) /\ Expired(n) \in ContextErrors
      BY <1>1, <1>3, <1>7, <2>1 DEF NextPass
    <3> QED
      BY <1>4, <2>1, <3>1
  <2>2. CASE Expired(n) = "none"
    <3>1. frames' = [frames EXCEPT ![n] = [Frame(n, f.outer) EXCEPT !.count = PassNumber(f)]]
      BY <1>7, <2>2 DEF NextPass
    <3> QED
      BY <1>5, <3>1
  <2> QED
    BY <2>1, <2>2
<1> QED
  BY <1>6, <1>7

(* The cleanup of a scope begins.                                          *)
LEMMA CleansForm ==
  ASSUME RunInv, NEW n \in Running, Lone(n), OwnsDefers(n), frames[n].at \in {"main", "catch"},
         NEW errs, frames' = [frames EXCEPT ![n] = Cleaning(n, errs)],
         IF Kind(n) = "try" THEN returning' = returning
                            ELSE frames[n].at = "main" /\ returning' = FALSE,
         UNCHANGED <<didReturn, interrupted, result>>
  PROVE  Form
<1> DEFINE f == frames[n]
           list == Entries(n)
           g == [f EXCEPT !.at = "cleanup", !.todo = list, !.prior = errs, !.errors = {},
                          !.ctx = "none", !.kept = returning, !.ran = <<>>]
<1>1. f \in FrameType
  BY RunningIs
<1>2. frames' = [frames EXCEPT ![n] = g]
  BY DEF Cleaning
<1> HIDE DEF f, list
<1>3. g.at = "cleanup" /\ g.kept = returning /\ g.todo = list
  BY <1>1 DEF FrameType
<1> HIDE DEF g
<1>4. Besides(n) /\ frames'[n] = g
  BY <1>2 DEF Besides, Running
<1> QED
  BY <1>3, <1>4 DEF Cleans, Form, list

LEMMA PhaseForm ==
  ASSUME RunInv, NEW n \in Running,
         \/ MainEnds(n) \/ RunCleaned(n) \/ TryEnds(n) \/ CatchEnds(n) \/ PassFails(n)
         \/ PassIsNotReady(n) \/ Retries(n) \/ Repolls(n)
  PROVE  Form
<1> DEFINE f == frames[n]
<1>1. f \in FrameType /\ Handler(n, f) /\ (n \in Roots <=> Kind(n) = "run")
  BY RunningIs
<1>2. UNCHANGED <<didReturn, interrupted, result>> /\ (~MainEnds(n) => Quietly)
  BY DEF MainEnds, RunCleaned, TryEnds, CatchEnds, PassFails, PassIsNotReady, Retries, Repolls,
         outcomes, Quietly
<1>3. Lone(n)
  <2>1. f.todo = <<>> /\ Kind(n) # "race"
    BY <1>1 DEF MainEnds, RunCleaned, TryEnds, CatchEnds, PassFails, PassIsNotReady, Retries, Repolls,
         Idle, Released, Handler, CallsOwn, PhaseOf, Quiet
  <2> QED
    BY <2>1, QuietIsLone DEF RunInv
<1>4. ASSUME NEW at, NEW prior, NEW errs, NEW g,
             \/ g = [f EXCEPT !.at = at]
             \/ g = [f EXCEPT !.at = at, !.errors = errs]
             \/ g = [f EXCEPT !.at = at, !.prior = prior, !.errors = errs]
      PROVE  g.at = at /\ (Ending(f) => Ending(g))
  <2> HIDE DEF f
  <2> QED
    BY <1>1, <1>4 DEF FrameType, Ending
<1>5. CASE MainEnds(n)
  <2>1. OwnsDefers(n) /\ Kind(n) # "try" /\ f.at = "main" /\ returning' = FALSE
    BY <1>5 DEF MainEnds, OwnsDefers
  <2> QED
    BY <1>2, <1>3, <1>5, <2>1, CleansForm DEF MainEnds
<1>6. CASE CatchEnds(n)
  <2>1. PICK errs : frames' = [frames EXCEPT ![n] = Cleaning(n, errs)]
    BY <1>6 DEF CatchEnds
  <2>2. OwnsDefers(n) /\ Kind(n) = "try" /\ f.at = "catch" /\ returning' = returning
    BY <1>6 DEF CatchEnds, OwnsDefers, outcomes
  <2> QED
    BY <1>2, <1>3, <2>1, <2>2, CleansForm
<1>7. CASE TryEnds(n)
  <2> DEFINE list == Tree[n].rest
             g == [f EXCEPT !.at = "catch", !.todo = list, !.prior = f.errors,
                            !.errors = {}, !.worked = FALSE, !.ran = <<>>]
  <2>1. \/ frames' = [frames EXCEPT ![n] = g]
        \/ frames' = [frames EXCEPT ![n] = Cleaning(n, f.errors)]
    BY <1>7 DEF TryEnds
  <2>2. OwnsDefers(n) /\ Kind(n) = "try" /\ f.at = "main" /\ returning' = returning /\ Quietly
    BY <1>7 DEF TryEnds, OwnsDefers, outcomes, Quietly
  <2>3. g.at = "catch" /\ (Ending(f) => Ending(g))
    <3> HIDE DEF f, list
    <3> QED
      BY <1>1 DEF FrameType, Ending
  <2>4. CASE frames' = [frames EXCEPT ![n] = Cleaning(n, f.errors)]
    BY <1>2, <1>3, <2>2, <2>4, CleansForm
  <2>5. CASE frames' = [frames EXCEPT ![n] = g]
    <3> HIDE DEF g
    <3> QED
      BY <1>3, <2>2, <2>3, <2>5, TurnsForm DEF Path
  <2> QED
    BY <2>1, <2>4, <2>5
<1>8. CASE RunCleaned(n)
  <2> DEFINE g == [f EXCEPT !.at = "release"]
  <2>1. frames' = [frames EXCEPT ![n] = g] /\ Kind(n) = "run" /\ f.at = "cleanup" /\ Quietly
    BY <1>8 DEF RunCleaned, Quietly, outcomes
  <2>2. g.at = "release"
    BY <1>4
  <2> HIDE DEF g
  <2>3. Besides(n) /\ frames'[n] = g
    BY <2>1 DEF Besides, Running
  <2> QED
    BY <1>1, <1>3, <2>1, <2>2, <2>3 DEF WindsUp, Form
<1>9. ASSUME NEW at, at \notin {"cleanup", "release"}, Kind(n) = "attempt",
             f.at \notin {"cleanup", "release"}, Quietly, NEW g,
             g.at = at, Ending(f) => Ending(g), frames' = [frames EXCEPT ![n] = g]
      PROVE  Form
  BY <1>3, <1>9, TurnsForm DEF Path
<1>10. CASE PassFails(n)
  <2> DEFINE errs == PassError(n)
             g == [f EXCEPT !.at = "discard", !.prior = f.errors, !.errors = errs]
  <2>1. frames' = [frames EXCEPT ![n] = g] /\ Kind(n) = "attempt" /\ f.at = "main" /\ Quietly
    BY <1>10 DEF PassFails, Quietly, outcomes
  <2>2. g.at = "discard" /\ (Ending(f) => Ending(g))
    <3> HIDE DEF f, errs
    <3> QED
      BY <1>1 DEF FrameType, Ending
  <2> HIDE DEF g
  <2> QED
    BY <1>9, <2>1, <2>2
<1>11. CASE PassIsNotReady(n)
  <2>1. Kind(n) = "attempt" /\ f.at = "main" /\ Quietly
    BY <1>11 DEF PassIsNotReady, Quietly, outcomes
  <2>2. PICK at \in {"repoll", "abandon"},
             g \in {[f EXCEPT !.at = "repoll"], [f EXCEPT !.at = "abandon", !.errors = {n}]} :
          frames' = [frames EXCEPT ![n] = g] /\ g.at = at /\ (Ending(f) => Ending(g))
    <3>1. CASE frames' = [frames EXCEPT ![n].at = "repoll"]
      <4> DEFINE g == [f EXCEPT !.at = "repoll"]
      <4>1. frames' = [frames EXCEPT ![n] = g]
        BY <3>1
      <4>2. g.at = "repoll" /\ (Ending(f) => Ending(g))
        BY <1>4
      <4> QED
        BY <4>1, <4>2
    <3>2. CASE frames' = [frames EXCEPT ![n].at = "abandon", ![n].errors = {n}]
      <4> DEFINE g == [f EXCEPT !.at = "abandon", !.errors = {n}]
      <4>1. frames' = [frames EXCEPT ![n] = g]
        BY <3>2
      <4>2. g.at = "abandon" /\ (Ending(f) => Ending(g))
        BY <1>4, ZenonT(60)
      <4> QED
        BY <4>1, <4>2
    <3> QED
      BY <1>11, <3>1, <3>2 DEF PassIsNotReady
  <2> QED
    BY <1>9, <2>1, <2>2
<1>12. CASE Retries(n) \/ Repolls(n)
  <2>1. f.at \in {"discard", "repoll"} /\ Quietly
    BY <1>12 DEF Retries, Repolls, Quietly, outcomes
  <2>2. Kind(n) = "attempt"
    BY <1>1, <2>1 DEF Handler, PhaseOf
  <2>3. PICK at \in {"retryWait", "pollWait"} : frames' = [frames EXCEPT ![n].at = at]
    BY <1>12 DEF Retries, Repolls
  <2> DEFINE g == [f EXCEPT !.at = at]
  <2>4. frames' = [frames EXCEPT ![n] = g]
    BY <2>3
  <2>5. g.at = at /\ (Ending(f) => Ending(g))
    BY <1>4
  <2> HIDE DEF g
  <2> QED
    BY <1>9, <2>1, <2>2, <2>4, <2>5
<1> QED
  BY <1>5, <1>6, <1>7, <1>8, <1>10, <1>11, <1>12

LEMMA ReleasesForm ==
  ASSUME RunInv, NEW n \in Running, Releases(n)
  PROVE  Form
<1> DEFINE f == frames[n]
           rest == RemoveAt(f.held, NextReleased(f.held))
<1>1. f \in FrameType /\ Handler(n, f) /\ f.at \in Releasing /\ Quietly
  BY RunningIs DEF Releases, Quietly, outcomes
<1>2. f.todo = <<>> /\ Kind(n) # "race" /\ (Kind(n) \in Path => f.at = "release") /\ f.at # "cleanup"
  BY <1>1 DEF Handler, CallsOwn, PhaseOf, Quiet, Releasing, Path
<1>3. Lone(n)
  BY <1>2, QuietIsLone DEF RunInv
<1>4. PICK failing : frames' = [frames EXCEPT ![n].held = rest, ![n].errors = @ \cup failing]
  BY DEF Releases
<1> DEFINE errs == f.errors \cup failing
           g == [f EXCEPT !.held = rest, !.errors = errs]
<1>5. frames' = [frames EXCEPT ![n] = g]
  BY <1>4
<1>6. g.at = f.at /\ (Ending(f) => Ending(g))
  <2> HIDE DEF f, rest, errs
  <2> QED
    BY <1>1 DEF FrameType, Ending
<1> HIDE DEF g
<1> QED
  BY <1>1, <1>2, <1>3, <1>5, <1>6, TurnsForm

LEMMA BranchPanicsForm ==
  ASSUME RunInv, NEW n \in Running, BranchPanics(n)
  PROVE  Form
<1> DEFINE p == Parent[n]
           list == Append(frames[p].inbox, [branch |-> n, failed |-> TRUE, eligible |-> FALSE])
           g == [frames[p] EXCEPT !.inbox = list]
           rest == Restrict(frames, Running \ {n})
<1>1. /\ Kind(n) = "branch" /\ Quietly /\ n \in Nodes \ Roots /\ Awaited(n)
      /\ p \in Running /\ p # n /\ frames[p] \in FrameType
  BY RunningIs, BranchCaller DEF BranchPanics, Quietly, outcomes
<1>2. Lone(n)
  BY <1>1, NoneBelow DEF BranchPanics, RunInv
<1>3. DOMAIN rest = Running \ {n} /\ \A m \in Running \ {n} : rest[m] = frames[m]
  BY DEF Restrict
<1>4. frames' = [rest EXCEPT ![p].inbox = list]
  BY <1>1, <1>3 DEF BranchPanics
<1> HIDE DEF rest, list, p
<1>5. /\ DOMAIN frames' = Running \ {n} /\ frames'[p] = g
      /\ \A m \in Running \ {n, p} : frames'[m] = frames[m]
  BY <1>1, <1>3, <1>4
<1>6. g.todo = frames[p].todo /\ Same(frames[p], g)
  <2> DEFINE f == frames[p]
  <2> HIDE DEF f
  <2>1. f \in FrameType /\ g = [f EXCEPT !.inbox = list]
    BY <1>1 DEF f
  <2> HIDE DEF g
  <2> QED
    BY <2>1 DEF FrameType, Same, f
<1> HIDE DEF g
<1>7. Goes(n, returning)
  BY <1>1, <1>2, <1>5, <1>6 DEF Goes, Same, p
<1> QED
  BY <1>1, <1>7 DEF JustGoes, Form

(* Contexts end, and a race reads a completion.                            *)
LEMMA WarnedForm ==
  ASSUME RunInv, DOMAIN frames' = Running, \A m \in Running : Stopped(frames[m], frames'[m]),
         UNCHANGED <<returning, didReturn, result>>, interrupted' = interrupted \/ Cut'
  PROVE  Form
  BY RunningIs DEF Warned, Form, Stopped, Ending

LEMMA InterruptCuts ==
  ASSUME RunInv, NEW n \in Running, Interrupt(n)
  PROVE  Cut'
<1> DEFINE gs == End(frames, n, "canceled")
<1>1. /\ frames' = gs /\ n \in Roots /\ n \in Nodes
      /\ \A m \in Running : m \in Nodes /\ frames[m] \in FrameType /\ Within[m] \subseteq Running
  BY RunningIs, WithinRuns DEF Interrupt, RunInv
<1>2. DOMAIN gs = Running /\ \A m \in Running : Stopped(frames[m], gs[m])
  BY <1>1, EndIs DEF Running
<1>3. ASSUME NEW m \in Running, ~\E k \in Within[m] : frames[k].at = "cleanup"
      PROVE  Ending(gs[m])
  <2>1. PICK r \in Roots : r \in Within[m]
    BY <1>1, RootOf
  <2>2. r = n
    BY <1>1, <2>1 DEF RunInv, OneRun
  <2>3. m \in Under[n]
    BY <1>1, <2>1, <2>2 DEF Under
  <2>4. m \in Reached(frames, n)
    BY <1>3, <2>3 DEF Reached, Running
  <2> DEFINE f == frames[m]
             c == IF f.ctx = "none" THEN "canceled" ELSE f.ctx
             o == IF f.outer = "none" THEN "canceled" ELSE f.outer
  <2>5. gs[m] = [f EXCEPT !.ctx = c, !.outer = o]
    BY <2>4 DEF End, Running
  <2>6. f \in FrameType /\ c # "none" /\ o # "none"
    BY <1>1
  <2> HIDE DEF f, c, o, gs
  <2> QED
    BY <2>5, <2>6 DEF Ending, FrameType
<1> HIDE DEF gs
<1>4. Running' = Running
  BY <1>1, <1>2 DEF Running
<1> SUFFICES ASSUME NEW m \in Running, ~Sheltered(m)' PROVE Ending(frames'[m])
  BY <1>4 DEF Cut
<1>5. \A k \in Within[m] : frames[k].at # "cleanup"
  BY <1>1, <1>2 DEF Sheltered, Stopped
<1> QED
  BY <1>1, <1>3, <1>5

LEMMA ContextForm ==
  ASSUME RunInv, NEW n \in Running, Interrupt(n) \/ TimesOut(n) \/ Elapses(n) \/ Completes(n)
  PROVE  Form
<1>1. /\ UNCHANGED <<returning, didReturn, result>>
      /\ interrupted' = interrupted \/ Cut'
  <2>1. CASE Interrupt(n)
    BY <2>1, InterruptCuts DEF Interrupt, outcomes
  <2>2. CASE ~Interrupt(n)
    BY <2>2 DEF TimesOut, Elapses, Completes, outcomes
  <2> QED
    BY <2>1, <2>2
<1>2. DOMAIN frames = Running /\ \A m \in Running : frames[m] \in FrameType
  BY RunningIs DEF Running
<1>3. ASSUME NEW cause \in {"canceled", "deadline"}
      PROVE  LET gs == End(frames, n, cause)
             IN DOMAIN gs = Running /\ \A m \in Running : Stopped(frames[m], gs[m])
  BY <1>2, EndIs
<1>4. CASE frames' = End(frames, n, "canceled") \/ frames' = End(frames, n, "deadline")
  BY <1>1, <1>3, <1>4, WarnedForm
<1>5. CASE frames' = [End(frames, n, "deadline") EXCEPT ![n].outer = frames[n].outer]
  <2> DEFINE gs == End(frames, n, "deadline")
             f == frames[n]
             h == gs[n]
             g == [h EXCEPT !.outer = f.outer]
  <2>1. DOMAIN gs = Running /\ \A m \in Running : Stopped(frames[m], gs[m])
    BY <1>3
  <2> HIDE DEF gs
  <2>2. DOMAIN frames' = Running /\ frames'[n] = g /\ \A m \in Running \ {n} : frames'[m] = gs[m]
    BY <1>5, <2>1 DEF gs
  <2>3. Stopped(f, h) /\ f \in FrameType
    BY <1>2, <2>1
  <2> HIDE DEF f, h
  <2>4. Stopped(f, g)
    BY <2>3 DEF Stopped, FrameType
  <2> HIDE DEF g
  <2>5. \A m \in Running : Stopped(frames[m], frames'[m])
    BY <2>1, <2>2, <2>4 DEF f
  <2> QED
    BY <1>1, <2>2, <2>5, WarnedForm
<1>6. CASE Completes(n)
  <2>1. /\ DOMAIN frames' = Running
        /\ \A m \in Running : Kind(m) # "race" => Stopped(frames[m], frames'[m])
        /\ \A m \in Running : Kind(m) = "race" =>
             LET f == frames[m]
                 g == frames'[m]
             IN /\ g.at = f.at /\ g.todo = f.todo /\ g.kept = f.kept
                /\ (f.ctx # "none" => g.ctx # "none") /\ (f.outer # "none" => g.outer # "none")
    BY <1>6, CompletesStops
  <2>2. ASSUME NEW m \in Running
        PROVE  LET f == frames[m]
                   g == frames'[m]
               IN /\ g.at = f.at /\ g.todo = f.todo /\ g.kept = f.kept
                  /\ Ending(f) => Ending(g)
    BY <2>1 DEF Stopped, Ending
  <2> QED
    BY <1>1, <2>1, <2>2 DEF Warned, Form
<1> QED
  BY <1>4, <1>5, <1>6 DEF Interrupt, TimesOut, Elapses

LEMMA StutterForm ==
  ASSUME RunInv, UNCHANGED vars
  PROVE  Form
<1>1. frames' = frames /\ UNCHANGED <<returning, didReturn, interrupted, result>>
  BY DEF vars, outcomes
<1> QED
  BY <1>1 DEF Warned, Form, Running

LEMMA StepsHaveForms == RunInv /\ [Next]_vars => Form
<1> SUFFICES ASSUME RunInv, [Next]_vars PROVE Form
  OBVIOUS
<1>1. ASSUME NEW n \in Called, Call(n) PROVE Form
  BY <1>1, CallForm
<1>2. ASSUME NEW n \in Running, Continue(n) PROVE Form
  <2>1. CASE RunEnds(n)
    BY <2>1 DEF Form
  <2> QED
    BY <1>2, <2>1, StepForm, EndsForm, AgainForm, PhaseForm, ReleasesForm, PassWinsForm,
       BranchPanicsForm, ContextForm
    DEF Continue
<1>3. ASSUME NEW n \in Running, Interrupt(n) \/ TimesOut(n) \/ Elapses(n) PROVE Form
  BY <1>3, ContextForm
<1>4. CASE UNCHANGED vars
  BY <1>4, StutterForm
<1> QED
  BY <1>1, <1>2, <1>3, <1>4 DEF Next, Advances, Finished

(* What shelters a handler goes on to do so.                               *)
LEMMA ShelterStays ==
  ASSUME RunInv, NEW m \in Running, m \in DOMAIN frames', Sheltered(m),
         NEW n, Lone(n), n # m,
         \A k \in Running \ {n} : k \in DOMAIN frames' /\ frames'[k].at = frames[k].at
  PROVE  Sheltered(m)'
<1>1. PICK k \in Within[m] : frames[k].at = "cleanup"
  BY DEF Sheltered
<1>2. k \in Running /\ k # n
  BY <1>1, WithinRuns DEF RunInv, Lone
<1> QED
  BY <1>1, <1>2 DEF Sheltered

LEMMA CutGoes ==
  ASSUME RunInv, Cut, NEW n, NEW returned, Goes(n, returned), interrupted' = interrupted
  PROVE  Cut'
<1>1. Running' = Running \ {n}
  BY DEF Goes, Running
<1> SUFFICES ASSUME interrupted, NEW m \in Running \ {n}
             PROVE  Sheltered(m)' \/ frames'[m].at = "release" \/ Ending(frames'[m])
  BY <1>1 DEF Cut
<1>2. Sheltered(m) \/ frames[m].at = "release" \/ Ending(frames[m])
  BY DEF Cut
<1>3. CASE Sheltered(m)
  BY <1>3, ShelterStays DEF Goes, Same
<1> QED
  BY <1>2, <1>3 DEF Goes, Same, Ending

LEMMA CutBesides ==
  ASSUME RunInv, Cut, NEW n, Cleans(n) \/ WindsUp(n) \/ Turns(n)
  PROVE  Cut'
<1>1. /\ n \in Running /\ Lone(n) /\ DOMAIN frames' = Running /\ interrupted' = interrupted
      /\ \A m \in Running \ {n} : frames'[m] = frames[m]
      /\ n \in Nodes /\ n \in Within[n] /\ Within[n] \subseteq Running
  BY RunningIs, WithinRuns DEF Cleans, WindsUp, Turns, Besides, Quietly, RunInv
<1>2. Running' = Running
  BY <1>1 DEF Running
<1> SUFFICES ASSUME interrupted, NEW m \in Running
             PROVE  Sheltered(m)' \/ frames'[m].at = "release" \/ Ending(frames'[m])
  BY <1>1, <1>2 DEF Cut
<1>3. Sheltered(m) \/ frames[m].at = "release" \/ Ending(frames[m])
  BY DEF Cut
<1>4. CASE m # n
  BY <1>1, <1>3, <1>4, ShelterStays
<1>5. CASE m = n /\ Turns(n)
  <2>1. CASE Sheltered(n)
    <3>1. PICK k \in Within[n] : frames[k].at = "cleanup"
      BY <2>1 DEF Sheltered
    <3>2. k \in Running \ {n}
      BY <1>1, <1>5, <3>1 DEF Turns
    <3> QED
      BY <1>1, <1>5, <3>1, <3>2 DEF Sheltered
  <2> QED
    BY <1>3, <1>5, <2>1 DEF Turns
<1>6. CASE m = n /\ Cleans(n)
  BY <1>1, <1>6 DEF Cleans, Sheltered
<1>7. CASE m = n /\ WindsUp(n)
  BY <1>7 DEF WindsUp
<1> QED
  BY <1>4, <1>5, <1>6, <1>7

LEMMA CutWarned ==
  ASSUME RunInv, Cut, Warned
  PROVE  Cut'
<1> SUFFICES ASSUME interrupted, interrupted' = interrupted, NEW m \in Running
             PROVE  Sheltered(m)' \/ frames'[m].at = "release" \/ Ending(frames'[m])
  BY DEF Warned, Cut, Running
<1>1. Sheltered(m) \/ frames[m].at = "release" \/ Ending(frames[m])
  BY DEF Cut
<1>2. Within[m] \subseteq Running
  BY WithinRuns DEF RunInv
<1> QED
  BY <1>1, <1>2 DEF Warned, Sheltered

(* What a step starts stands in the cleanup its caller stands in.          *)
Starting(n) == {n} \cup (IF Kind(n) = "race" THEN Range(Tree[n].main) ELSE {})

LEMMA StartedUnder ==
  ASSUME RunInv, NEW n \in Called, Starts(n)
  PROVE  LET p == Parent[n]
         IN /\ n \in Nodes \ Roots /\ n \notin Running /\ p \in Running /\ Awaited(n) /\ Lone(n)
            /\ Kind(p) # "race" /\ frames[p].todo # <<>> /\ Head(frames[p].todo) = n
            /\ frames[p].ctx = "none" /\ frames[p].at \notin Quiet
            /\ DOMAIN frames' = Running \cup Starting(n)
            /\ \A m \in Running : frames'[m] = frames[m]
            /\ \A m \in Starting(n) :
                 /\ m \in Nodes \ Roots /\ m \notin Running /\ Within[p] \subseteq Within[m] \ {m}
                 /\ frames'[m].at = "main"
            /\ UNCHANGED <<returning, didReturn, interrupted, result>>
<1> DEFINE p == Parent[n]
           own == Frame(n, Ctx(n))
           fresh(m) == IF m = n /\ Kind(n) = "race" THEN [own EXCEPT !.todo = <<>>, !.count = 0]
                       ELSE Frame(m, Ctx(n))
<1>1. /\ n \in Nodes \ Roots /\ n \notin Running /\ Awaited(n) /\ Lone(n)
      /\ p \in Running /\ Kind(p) # "race" /\ frames[p].todo # <<>> /\ Head(frames[p].todo) = n
  BY CalledIs
<1>2. frames[p].at \notin Quiet /\ frames[p].ctx = "none"
  BY <1>1, RunningIs DEF Handler, CallsOwn, Starts, Ctx
<1>3. frames' = [m \in Running \cup Starting(n) |-> IF m \in Running THEN frames[m] ELSE fresh(m)]
  BY DEF Starts, Starting
<1>4. \A m : fresh(m).at = "main"
  BY DEF Frame
<1> HIDE DEF fresh
<1>5. ASSUME NEW m \in Starting(n)
      PROVE  m \in Nodes \ Roots /\ m \notin Running /\ Within[p] \subseteq Within[m] \ {m}
  <2>1. CASE m = n
    BY <1>1, <2>1, WithinDef
  <2>2. CASE m # n
    <3>1. m \in Range(Tree[n].main)
      BY <2>2 DEF Starting
    <3>2. m \in Nodes \ Roots /\ Parent[m] = n
      BY <1>1, <3>1, ParentOfPart
    <3>3. m \notin Running
      BY <1>1, <3>2, RunningIs DEF Awaited
    <3>4. Within[m] = {m} \cup Within[n] /\ m \notin Within[n] /\ Within[n] = {n} \cup Within[p]
      BY <1>1, <3>2, WithinDef
    <3> QED
      BY <3>2, <3>3, <3>4
  <2> QED
    BY <2>1, <2>2
<1>6. /\ DOMAIN frames' = Running \cup Starting(n)
      /\ \A m \in Running : frames'[m] = frames[m]
      /\ \A m \in Starting(n) : frames'[m] = IF m \in Running THEN frames[m] ELSE fresh(m)
  BY <1>3
<1>7. UNCHANGED <<returning, didReturn, interrupted, result>>
  BY DEF Starts, outcomes
<1>8. \A m \in Starting(n) : frames'[m].at = "main"
  BY <1>4, <1>5, <1>6
<1> QED
  BY <1>1, <1>2, <1>5, <1>6, <1>7, <1>8

LEMMA CutStarts ==
  ASSUME RunInv, Cut, NEW n \in Called, Starts(n), interrupted
  PROVE  \A m \in Starting(n) : InCleanup(m) /\ Sheltered(m)'
<1> DEFINE p == Parent[n]
<1>1. /\ p \in Running /\ frames[p].ctx = "none" /\ frames[p].at # "release"
      /\ \A m \in Running : m \in DOMAIN frames' /\ frames'[m] = frames[m]
      /\ \A m \in Starting(n) : Within[p] \subseteq Within[m] \ {m}
  BY StartedUnder DEF Quiet, Releasing
<1>2. PICK k \in Within[p] : frames[k].at = "cleanup"
  BY <1>1 DEF Cut, Sheltered, Ending
<1>3. k \in Running
  BY <1>1, <1>2, WithinRuns DEF RunInv
<1> QED
  BY <1>1, <1>2, <1>3 DEF InCleanup, Sheltered

LEMMA CutKept ==
  ASSUME RunInv, Cut, Form
  PROVE  /\ Cut'
         /\ interrupted => \A m \in (DOMAIN frames') \ Running : InCleanup(m)
<1>1. ASSUME NEW n, JustGoes(n) \/ ReturnsEarly(n) \/ ScopeGoes(n)
      PROVE  Cut' /\ DOMAIN frames' \subseteq Running
  BY <1>1, CutGoes DEF JustGoes, ReturnsEarly, ScopeGoes, Quietly, Goes
<1>2. ASSUME NEW n, Cleans(n) \/ WindsUp(n) \/ Turns(n)
      PROVE  Cut' /\ DOMAIN frames' \subseteq Running
  BY <1>2, CutBesides DEF Cleans, WindsUp, Turns, Besides
<1>3. ASSUME NEW n \in Called, Starts(n)
      PROVE  Cut' /\ (interrupted => \A m \in (DOMAIN frames') \ Running : InCleanup(m))
  <2>1. /\ Running' = Running \cup Starting(n) /\ interrupted' = interrupted
        /\ DOMAIN frames' = Running \cup Starting(n)
        /\ \A m \in Running : frames'[m] = frames[m] /\ Within[m] \subseteq Running
    BY <1>3, StartedUnder, WithinRuns DEF Running, RunInv
  <2>2. ASSUME interrupted, NEW m \in Running
        PROVE  Sheltered(m)' \/ frames'[m].at = "release" \/ Ending(frames'[m])
    <3>1. CASE Sheltered(m)
      BY <2>1, <3>1 DEF Sheltered
    <3> QED
      BY <2>1, <2>2, <3>1 DEF Cut
  <2>3. interrupted => \A m \in Starting(n) : InCleanup(m) /\ Sheltered(m)'
    BY <1>3, CutStarts
  <2> QED
    BY <2>1, <2>2, <2>3 DEF Cut
<1>4. ASSUME NEW n \in Running, RunEnds(n) PROVE Cut' /\ DOMAIN frames' \subseteq Running
  BY <1>4 DEF RunEnds, Cut, Running
<1>5. CASE Warned
  BY <1>5, CutWarned DEF Warned
<1>6. Warned => DOMAIN frames' \subseteq Running
  BY DEF Warned
<1> QED
  BY <1>1, <1>2, <1>3, <1>4, <1>5, <1>6 DEF Form

(* Once a run was interrupted only steps that belong to a cleanup in       *)
(* progress start, of every workflow.                                      *)
THEOREM InterruptedStops ==
  Spec => [][interrupted => \A n \in (DOMAIN frames') \ Running : InCleanup(n)]_vars
<1>1. Init => RunInv /\ Cut
  BY InitRunInv DEF Init, Cut
<1>2. RunInv /\ Cut /\ [Next]_vars =>
        /\ RunInv' /\ Cut'
        /\ [interrupted => \A n \in (DOMAIN frames') \ Running : InCleanup(n)]_vars
  BY RunInvKept, StepsHaveForms, CutKept DEF Kept
<1> QED
  BY <1>1, <1>2, PTL DEF Spec

-----------------------------------------------------------------------------
(* Early return.  A handler on the way out calls nothing more: the step it *)
(* waits for, if any, is still running.                                    *)
Leaves(n) ==
  Kind(n) \in Path /\ frames[n].at = "main" /\ (frames[n].todo # <<>> => Head(frames[n].todo) \in Running)

(* A scope that the return passes through sets it aside for its cleanup.   *)
Keeps(s) == frames[s].at = "cleanup" /\ frames[s].kept

CleansAfter ==
  \A n \in Running : frames[n].at = "cleanup" => Range(frames[n].todo) \cap Range(Tree[n].main) = {}
Leaving == returning => didReturn /\ \A n \in Running : Leaves(n)
Keeping ==
  \A s \in Running : Keeps(s) =>
    didReturn /\ Kind(s) \in {"run", "executor", "worktree"} /\ \A n \in Within[s] \ {s} : Leaves(n)
Remembered ==
  didReturn => \/ returning \/ result # "running"
               \/ \E s \in Running : Keeps(s) \/ (s \in Roots /\ frames[s].at = "release")
LeaveInv == CleansAfter /\ Leaving /\ Keeping /\ Remembered

(* Without a race there is one path of calls.                              *)
LEMMA OneChain ==
  ASSUME RunInv, NEW s \in Running, NEW x \in Running,
         \A k \in Within[s] \ {s} : Kind(k) # "race"
  PROVE  x \in Within[s] \/ s \in Within[x]
<1>1. /\ Within[s] \subseteq Running /\ Within[x] \subseteq Running
      /\ s \in Nodes /\ x \in Nodes /\ x \in Within[x] /\ Within[x] \in SUBSET Nodes
  BY RunningIs, WithinRuns, WithinDef DEF RunInv
<1> SUFFICES ASSUME x \notin Within[s], s \notin Within[x] PROVE FALSE
  OBVIOUS
<1> DEFINE S == {y \in Within[x] : y \notin Within[s]}
<1>2. S \in SUBSET Nodes /\ S # {}
  BY <1>1
<1>3. PICK y \in S : y \in Roots \/ Parent[y] \notin S
  <2> HIDE DEF S
  <2> QED
    BY <1>2, TopmostCaller
<1>4. y \in Within[x] /\ y \notin Within[s] /\ y \in Running /\ y \in Nodes
  BY <1>1, <1>3
<1>5. y \notin Roots
  <2>1. PICK r \in Roots : r \in Within[s]
    BY <1>1, RootOf
  <2> QED
    BY <1>1, <1>4, <2>1 DEF RunInv, OneRun
<1> DEFINE c == Parent[y]
<1>6. c \in Within[x] /\ c \in Within[s] /\ c \in Running /\ Awaited(y)
  <2>1. c \in Within[y] /\ Within[y] \subseteq Within[x]
    BY <1>1, <1>4, <1>5, WithinDef, WithinTransitive
  <2> QED
    BY <1>1, <1>3, <1>4, <1>5, <2>1, RunningIs
<1>7. c # s
  BY <1>6
<1>8. PICK z \in Running \ Roots : Parent[z] = c /\ z \in Within[s]
  BY <1>6, <1>7, CalleeBetween DEF RunInv
<1>9. Awaited(z) /\ z # y
  BY <1>4, <1>8, RunningIs
<1>10. Kind(c) # "race"
  BY <1>6, <1>7
<1> QED
  BY <1>6, <1>8, <1>9, <1>10 DEF Awaited

(* What a handler that has not gone still has to call is its own.          *)
LEMMA NextIsCallee ==
  ASSUME RunInv, NEW m \in Running, frames[m].todo # <<>>
  PROVE  Head(frames[m].todo) \in Callees(m) /\ Head(frames[m].todo) \in Range(frames[m].todo)
<1>1. Handler(m, frames[m]) /\ frames[m].todo \in Seq(Nodes)
  BY RunningIs DEF FrameType
<1>2. Head(frames[m].todo) \in Range(frames[m].todo)
  BY <1>1, HeadTailProperties, LenProperties DEF Range
<1> QED
  BY <1>1, <1>2 DEF Handler, CallsOwn

(* Those on the way out stay there when one of them goes.                  *)
LEMMA LeavesWhileGoing ==
  ASSUME RunInv, NEW n, NEW returned, Goes(n, returned), NEW m \in Running \ {n}, Leaves(m),
         m = Parent[n] => returned
  PROVE  Leaves(m)'
<1>1. Running' = Running \ {n} /\ frames'[m].at = "main" /\ Kind(m) \in Path
  BY DEF Goes, Same, Running, Leaves
<1>2. CASE m = Parent[n]
  <2>1. Kind(n) # "branch"
    BY <1>1, <1>2, BranchCaller DEF Goes, Path
  <2>2. frames'[m].todo = <<>>
    BY <1>2, <2>1 DEF Goes, Leaves
  <2> QED
    BY <1>1, <2>2 DEF Leaves
<1>3. CASE m # Parent[n]
  <2>1. frames'[m].todo = frames[m].todo
    BY <1>3 DEF Goes
  <2>2. frames[m].todo # <<>> => Head(frames[m].todo) # n
    BY <1>3, NextIsCallee DEF Callees
  <2> QED
    BY <1>1, <2>1, <2>2 DEF Leaves
<1> QED
  BY <1>2, <1>3

(* So do those around a scope that set the return aside, as nothing they   *)
(* call goes before the scope.                                             *)
LEMMA KeptWhileGoing ==
  ASSUME RunInv, Keeping, NEW n, NEW returned, Goes(n, returned), UNCHANGED didReturn
  PROVE  Keeping'
<1>1. Running' = Running \ {n} /\ \A m \in Running \ {n} : Same(frames[m], frames'[m])
  BY DEF Goes, Running
<1> SUFFICES ASSUME NEW s \in Running \ {n}, Keeps(s)
             PROVE  /\ didReturn /\ Kind(s) \in {"run", "executor", "worktree"}
                    /\ \A m \in Within[s] \ {s} : Leaves(m)'
  BY <1>1 DEF Keeping, Keeps, Same
<1>2. /\ didReturn /\ Kind(s) \in {"run", "executor", "worktree"}
      /\ \A m \in Within[s] \ {s} : Leaves(m)
  BY DEF Keeping
<1>3. Within[s] \subseteq Running /\ s \in Nodes /\ n \notin Within[s]
  BY WithinRuns DEF RunInv, Goes, Lone
<1>4. ASSUME NEW m \in Within[s] \ {s} PROVE Leaves(m)'
  <2>1. m \in Running \ {n} /\ Leaves(m)
    BY <1>2, <1>3
  <2>2. m # Parent[n]
    <3> SUFFICES ASSUME m = Parent[n] PROVE FALSE
      OBVIOUS
    <3>1. Head(frames[m].todo) = n /\ frames[m].todo # <<>> /\ n \in Nodes \ Roots
      BY <2>1 DEF Goes, Awaited, Leaves, Path
    <3>2. n \in Running
      BY <2>1, <3>1 DEF Leaves
    <3>3. PICK c \in Running \ Roots : Parent[c] = m /\ c \in Within[s]
      BY CalleeBetween DEF RunInv
    <3>4. Head(frames[m].todo) = c
      BY <2>1, <3>3, RunningIs DEF Awaited, Leaves, Path
    <3> QED
      BY <1>3, <3>1, <3>3, <3>4
  <2> QED
    BY <2>1, <2>2, LeavesWhileGoing
<1> QED
  BY <1>2, <1>4

LEMMA CleansAfterGoing ==
  ASSUME RunInv, CleansAfter, NEW n, NEW returned, Goes(n, returned)
  PROVE  CleansAfter'
<1> SUFFICES ASSUME NEW m \in Running \ {n}, frames'[m].at = "cleanup"
             PROVE  Range(frames'[m].todo) \cap Range(Tree[m].main) = {}
  BY DEF CleansAfter, Goes, Running
<1>1. frames[m].at = "cleanup" /\ Range(frames'[m].todo) \subseteq Range(frames[m].todo)
  <2>1. CASE m = Parent[n]
    BY <2>1 DEF Goes, Same
  <2>2. CASE m # Parent[n]
    BY <2>2 DEF Goes, Same
  <2> QED
    BY <2>1, <2>2
<1> QED
  BY <1>1 DEF CleansAfter

LEMMA JustGoesLeaves ==
  ASSUME RunInv, LeaveInv, NEW n, JustGoes(n)
  PROVE  LeaveInv'
<1>1. Goes(n, returning) /\ Quietly /\ Running' = Running \ {n} /\ n \notin Roots
      /\ \A m \in Running \ {n} : Same(frames[m], frames'[m])
  BY DEF JustGoes, Goes, Running
<1>2. CleansAfter' /\ Keeping'
  BY <1>1, CleansAfterGoing, KeptWhileGoing DEF LeaveInv, Quietly
<1>3. Leaving'
  BY <1>1, LeavesWhileGoing DEF LeaveInv, Leaving, Quietly
<1>4. ASSUME NEW s \in Running, Keeps(s) \/ (s \in Roots /\ frames[s].at = "release")
      PROVE  s \in Running' /\ (Keeps(s)' \/ (s \in Roots /\ frames'[s].at = "release"))
  <2>1. s # n
    BY <1>1, <1>4 DEF JustGoes, LeaveInv, Keeping
  <2> QED
    BY <1>1, <1>4, <2>1 DEF Same, Keeps
<1>5. Remembered'
  BY <1>1, <1>4 DEF LeaveInv, Remembered, Quietly
<1> QED
  BY <1>2, <1>3, <1>5 DEF LeaveInv

LEMMA ScopeGoesLeaves ==
  ASSUME RunInv, LeaveInv, NEW n, ScopeGoes(n)
  PROVE  LeaveInv'
<1> DEFINE kept == frames[n].kept
<1>1. /\ n \in Running /\ Goes(n, kept) /\ Lone(n) /\ frames[n].at = "cleanup" /\ n \notin Roots
      /\ returning' = kept /\ UNCHANGED <<didReturn, interrupted, result>>
      /\ Running' = Running \ {n} /\ \A m \in Running \ {n} : Same(frames[m], frames'[m])
  BY DEF ScopeGoes, Goes, Running
<1>2. CleansAfter' /\ Keeping'
  BY <1>1, CleansAfterGoing, KeptWhileGoing DEF LeaveInv
<1>3. ~returning
  BY <1>1 DEF LeaveInv, Leaving, Leaves
<1>4. CASE kept
  <2>1. didReturn /\ \A m \in Within[n] \ {n} : Leaves(m)
    BY <1>1, <1>4 DEF LeaveInv, Keeping, Keeps
  <2>2. ASSUME NEW m \in Running \ {n} PROVE Leaves(m)'
    <3>1. \A k \in Within[n] \ {n} : Kind(k) # "race"
      BY <2>1 DEF Leaves, Path
    <3>2. m \in Within[n] \ {n}
      BY <1>1, <3>1, OneChain DEF Lone
    <3> QED
      BY <1>1, <1>4, <2>1, <3>2, LeavesWhileGoing
  <2>3. Leaving' /\ Remembered'
    BY <1>1, <1>4, <2>1, <2>2 DEF Leaving, Remembered
  <2> QED
    BY <1>2, <2>3 DEF LeaveInv
<1>5. CASE ~kept
  <2>1. Leaving' /\ returning' = FALSE
    <3>1. kept \in BOOLEAN
      BY <1>1, RunningIs DEF FrameType
    <3> QED
      BY <1>1, <1>5, <3>1 DEF Leaving
  <2>2. ASSUME NEW s \in Running, Keeps(s) \/ (s \in Roots /\ frames[s].at = "release")
        PROVE  s \in Running' /\ (Keeps(s)' \/ (s \in Roots /\ frames'[s].at = "release"))
    <3>1. s # n
      BY <1>1, <1>5, <2>2 DEF Keeps
    <3> QED
      BY <1>1, <2>2, <3>1 DEF Same, Keeps
  <2>3. Remembered'
    BY <1>1, <1>3, <2>2 DEF LeaveInv, Remembered
  <2> QED
    BY <1>2, <2>1, <2>3 DEF LeaveInv
<1> QED
  BY <1>4, <1>5

(* A handler goes on to another phase: only a scope whose cleanup begins   *)
(* has the return set aside.                                               *)
LEMMA BesidesLeaves ==
  ASSUME RunInv, Keeping, NEW n \in Running, Lone(n), Besides(n), UNCHANGED didReturn
  PROVE  /\ Running' = Running
         /\ \A s \in Running \ {n} : (Keeps(s)' <=> Keeps(s)) /\ \A m \in Within[s] : m # n
         /\ \A m \in Running \ {n} : Leaves(m)' <=> Leaves(m)
         /\ ~Keeps(n)' => Keeping'
<1>1. Running' = Running /\ \A m \in Running \ {n} : frames'[m] = frames[m]
  BY DEF Besides, Running
<1>2. \A m \in Running \ {n} : Leaves(m)' <=> Leaves(m)
  BY <1>1 DEF Leaves
<1>3. \A s \in Running \ {n} : (Keeps(s)' <=> Keeps(s)) /\ \A m \in Within[s] : m # n
  BY <1>1 DEF Keeps, Lone
<1>4. ASSUME ~Keeps(n)' PROVE Keeping'
  <2> SUFFICES ASSUME NEW s \in Running \ {n}, Keeps(s)
               PROVE  /\ didReturn /\ Kind(s) \in {"run", "executor", "worktree"}
                      /\ \A m \in Within[s] \ {s} : Leaves(m)'
    BY <1>1, <1>3, <1>4 DEF Keeping
  <2>1. Within[s] \subseteq Running
    BY WithinRuns DEF RunInv
  <2> QED
    BY <1>2, <1>3, <2>1 DEF Keeping
<1> QED
  BY <1>1, <1>2, <1>3, <1>4

LEMMA TurnsLeaves ==
  ASSUME RunInv, LeaveInv, NEW n, Turns(n) \/ WindsUp(n)
  PROVE  LeaveInv'
<1>1. /\ n \in Running /\ Lone(n) /\ Besides(n) /\ Quietly /\ frames'[n].at # "cleanup"
      /\ frames[n].at = "release" => frames'[n].at = "release"
      /\ frames[n].at = "cleanup" => n \in Roots /\ frames'[n].at = "release"
      /\ ~Leaves(n)
  BY DEF Turns, WindsUp, Leaves
<1>2. /\ Running' = Running
      /\ \A s \in Running \ {n} : Keeps(s)' <=> Keeps(s)
      /\ \A m \in Running \ {n} : frames'[m] = frames[m]
      /\ Keeping'
  BY <1>1, BesidesLeaves DEF LeaveInv, Quietly, Keeps, Besides
<1>3. ~returning /\ returning' = returning
  BY <1>1 DEF LeaveInv, Leaving, Quietly
<1>4. CleansAfter' /\ Leaving'
  BY <1>1, <1>2, <1>3 DEF LeaveInv, CleansAfter, Leaving
<1>5. ASSUME NEW s \in Running, Keeps(s) \/ (s \in Roots /\ frames[s].at = "release")
      PROVE  Keeps(s)' \/ (s \in Roots /\ frames'[s].at = "release")
  <2>1. CASE s = n
    BY <1>1, <1>5, <2>1 DEF Keeps
  <2>2. CASE s # n
    BY <1>2, <1>5, <2>2
  <2> QED
    BY <2>1, <2>2
<1>6. Remembered'
  BY <1>1, <1>2, <1>3, <1>5 DEF LeaveInv, Remembered, Quietly
<1> QED
  BY <1>2, <1>4, <1>6 DEF LeaveInv

LEMMA CleansLeaves ==
  ASSUME RunInv, LeaveInv, NEW n, Cleans(n)
  PROVE  LeaveInv'
<1>1. /\ n \in Running /\ Lone(n) /\ Besides(n) /\ OwnsDefers(n) /\ n \in Nodes /\ n \in Within[n]
      /\ frames[n].at # "cleanup" /\ frames[n].at # "release"
      /\ UNCHANGED <<didReturn, interrupted, result>>
  BY RunningIs DEF Cleans
<1>2. frames'[n].at = "cleanup" /\ frames'[n].kept = returning /\ frames'[n].todo = Entries(n)
  BY DEF Cleans
<1>3. /\ Running' = Running
      /\ \A s \in Running \ {n} : (Keeps(s)' <=> Keeps(s)) /\ \A m \in Within[s] : m # n
      /\ \A m \in Running \ {n} : frames'[m] = frames[m] /\ (Leaves(m)' <=> Leaves(m))
      /\ ~Keeps(n)' => Keeping'
  BY <1>1, BesidesLeaves DEF LeaveInv, Besides
<1>4. returning \in BOOLEAN /\ returning' = FALSE
  BY GlobalsAre DEF Cleans, LeaveInv, Leaving, Leaves, Path
<1>5. CleansAfter'
  <2>1. Range(Entries(n)) \cap Range(Tree[n].main) = {}
    BY <1>1, EntriesSteps DEF Bodies
  <2> QED
    BY <1>2, <1>3, <2>1 DEF LeaveInv, CleansAfter
<1>6. Leaving'
  BY <1>4 DEF Leaving
<1>7. Keeping'
  <2>1. CASE returning
    <3>1. didReturn /\ (\A m \in Running : Leaves(m)) /\ Within[n] \subseteq Running
      BY <1>1, <2>1, WithinRuns DEF LeaveInv, Leaving, RunInv
    <3>2. Kind(n) \in {"run", "executor", "worktree"}
      BY <1>1, <3>1 DEF Leaves, Path, OwnsDefers
    <3>3. \A s \in Running \ {n} : ~Keeps(s)'
      BY <1>3, <3>1 DEF Keeps, Leaves
    <3> QED
      BY <1>1, <1>3, <3>1, <3>2, <3>3 DEF Keeping
  <2>2. CASE ~returning
    BY <1>2, <1>3, <2>2 DEF Keeps
  <2> QED
    BY <1>4, <2>1, <2>2
<1>8. Remembered'
  <2>1. CASE returning
    BY <1>1, <1>2, <1>3, <2>1 DEF Remembered, Keeps
  <2>2. CASE ~returning
    <3>1. \A s \in Running : Keeps(s) \/ (s \in Roots /\ frames[s].at = "release") =>
            s # n /\ (Keeps(s)' \/ (s \in Roots /\ frames'[s].at = "release"))
      BY <1>1, <1>3 DEF Keeps
    <3> QED
      BY <1>1, <1>3, <2>2, <3>1 DEF LeaveInv, Remembered
  <2> QED
    BY <1>4, <2>1, <2>2
<1> QED
  BY <1>5, <1>6, <1>7, <1>8 DEF LeaveInv

LEMMA StartsLeaves ==
  ASSUME RunInv, LeaveInv, NEW n \in Called, Starts(n)
  PROVE  LeaveInv'
<1> DEFINE p == Parent[n]
<1>1. /\ n \notin Running /\ p \in Running /\ frames[p].todo # <<>> /\ Head(frames[p].todo) = n
      /\ Running' = Running \cup Starting(n)
      /\ \A m \in Running : frames'[m] = frames[m]
      /\ \A m \in Starting(n) : frames'[m].at = "main"
      /\ UNCHANGED <<returning, didReturn, interrupted, result>>
  BY StartedUnder DEF Running
<1>2. ~returning
  BY <1>1 DEF LeaveInv, Leaving, Leaves
<1>3. \A m \in Running : Leaves(m) => Leaves(m)'
  BY <1>1 DEF Leaves
<1>4. \A s \in Running' : Keeps(s)' => s \in Running /\ Keeps(s)
  BY <1>1 DEF Keeps
<1>5. \A s \in Running : Keeps(s) => Keeps(s)'
  BY <1>1 DEF Keeps
<1>6. \A s \in Running : Within[s] \subseteq Running
  BY WithinRuns DEF RunInv
<1>7. CleansAfter' /\ Leaving'
  BY <1>1, <1>2 DEF LeaveInv, CleansAfter, Leaving
<1>8. Keeping'
  BY <1>1, <1>3, <1>4, <1>6 DEF LeaveInv, Keeping
<1>9. Remembered'
  BY <1>1, <1>2, <1>5 DEF LeaveInv, Remembered
<1> QED
  BY <1>7, <1>8, <1>9 DEF LeaveInv

LEMMA WarnedLeaves ==
  ASSUME RunInv, LeaveInv, Warned
  PROVE  LeaveInv'
<1>1. Running' = Running /\ UNCHANGED <<returning, didReturn, result>>
  BY DEF Warned, Running
<1>2. \A m \in Running : frames'[m].at = frames[m].at /\ frames'[m].todo = frames[m].todo
                         /\ frames'[m].kept = frames[m].kept
  BY DEF Warned
<1>3. \A m \in Running : (Leaves(m)' <=> Leaves(m)) /\ (Keeps(m)' <=> Keeps(m))
  BY <1>1, <1>2 DEF Leaves, Keeps
<1>4. \A s \in Running : Within[s] \subseteq Running
  BY WithinRuns DEF RunInv
<1>5. CleansAfter' /\ Leaving'
  BY <1>1, <1>2, <1>3 DEF LeaveInv, CleansAfter, Leaving
<1>6. Keeping'
  BY <1>1, <1>3, <1>4 DEF LeaveInv, Keeping
<1>7. Remembered'
  BY <1>1, <1>2, <1>3 DEF LeaveInv, Remembered
<1> QED
  BY <1>5, <1>6, <1>7 DEF LeaveInv

LEMMA RunEndsLeaves ==
  ASSUME RunInv, LeaveInv, NEW n \in Running, RunEnds(n)
  PROVE  LeaveInv'
<1>1. Running' = {} /\ result' # "running" /\ UNCHANGED <<returning, didReturn>>
  BY DEF RunEnds, Running, outcomes
<1>2. ~returning
  BY DEF RunEnds, Released, Releasing, LeaveInv, Leaving, Leaves
<1> QED
  BY <1>1, <1>2 DEF LeaveInv, CleansAfter, Leaving, Keeping, Remembered

(* Everyone who runs when a return is called is on the way out.            *)
LEMMA AllAround ==
  ASSUME RunInv, CleansAfter, ReturnsPlaced, NEW n \in Called, Kind(n) = "return", NEW x \in Running
  PROVE  /\ Kind(x) \in Path /\ frames[x].at = "main" /\ frames[x].todo # <<>>
         /\ x # Parent[n] => Head(frames[x].todo) \in Running
<1> DEFINE p == Parent[n]
<1>1. /\ n \in Nodes \ Roots /\ n \notin Running /\ p \in Running /\ p \in Nodes
      /\ frames[p].todo # <<>> /\ Head(frames[p].todo) = n /\ Kind(p) # "race"
      /\ Within[n] = {n} \cup Within[p] /\ Within[p] \subseteq Running /\ Within[n] \subseteq Nodes
      /\ n \in Within[n]
  BY CalledIs, WithinDef, WithinRuns DEF RunInv
<1>2. ASSUME NEW y \in Within[p]
      PROVE  /\ Kind(y) \in Path /\ frames[y].at = "main" /\ frames[y].todo # <<>>
             /\ y # p => Head(frames[y].todo) \in Running
  <2>1. PICK c \in Within[n] \ Roots :
          /\ Parent[c] = y /\ (y # p => c \in Running)
          /\ Kind(y) # "race" => frames[y].todo # <<>> /\ Head(frames[y].todo) = c
    <3>1. CASE y = p
      BY <1>1, <3>1
    <3>2. CASE y # p
      <4>1. PICK c \in Running \ Roots : Parent[c] = y /\ c \in Within[p]
        BY <1>1, <3>2, CalleeBetween DEF RunInv
      <4>2. Awaited(c)
        BY <4>1, RunningIs
      <4> QED
        BY <1>1, <4>1, <4>2 DEF Awaited
    <3> QED
      BY <3>1, <3>2
  <2>2. c \in Range(Tree[y].main) /\ Kind(y) \in Path
    BY <1>1, <2>1 DEF ReturnsPlaced
  <2>3. y \in Running /\ frames[y].todo # <<>> /\ Head(frames[y].todo) = c
    BY <1>1, <2>1, <2>2 DEF Path
  <2>4. c \in Range(frames[y].todo)
    BY <2>3, NextIsCallee
  <2>5. frames[y].at # "cleanup"
    BY <2>2, <2>3, <2>4 DEF CleansAfter
  <2>6. Handler(y, frames[y]) /\ frames[y].at \in Labels
    BY <2>3, RunningIs DEF FrameType
  <2>7. frames[y].at = "main"
    BY <2>2, <2>3, <2>5, <2>6 DEF Handler, CallsOwn, PhaseOf, Labels, Path
  <2> QED
    BY <2>1, <2>2, <2>3, <2>7
<1>3. x \in Within[p]
  <2>1. x \in Within[p] \/ p \in Within[x]
    <3>1. \A k \in Within[p] \ {p} : Kind(k) # "race"
      BY <1>2 DEF Path
    <3> QED
      BY <1>1, <3>1, OneChain
  <2>2. CASE p \in Within[x] /\ p # x
    <3>1. PICK c \in Running \ Roots : Parent[c] = p
      BY <2>2, CalleeBetween DEF RunInv
    <3>2. Awaited(c)
      BY <3>1, RunningIs
    <3> QED
      BY <1>1, <3>1, <3>2 DEF Awaited
  <2> QED
    BY <1>1, <2>1, <2>2, RunningIs
<1> QED
  BY <1>2, <1>3

LEMMA ReturnLeaves ==
  ASSUME RunInv, LeaveInv, ReturnsPlaced, NEW n, ReturnsEarly(n)
  PROVE  LeaveInv'
<1> DEFINE p == Parent[n]
<1>1. /\ n \in Called /\ Goes(n, TRUE) /\ Kind(n) = "return" /\ returning' /\ didReturn'
      /\ p \in Running /\ n \notin Running
      /\ Running' = Running /\ \A m \in Running : Same(frames[m], frames'[m])
  BY CalledIs, ZenonT(60) DEF ReturnsEarly, Goes, Running
<1>2. CleansAfter'
  BY <1>1, CleansAfterGoing DEF LeaveInv
<1>3. ASSUME NEW m \in Running
      PROVE  /\ Kind(m) \in Path /\ frames[m].at = "main" /\ frames[m].todo # <<>>
             /\ m # p => Head(frames[m].todo) \in Running
  BY <1>1, AllAround DEF LeaveInv
<1>4. ASSUME NEW m \in Running PROVE Leaves(m)'
  <2>1. Kind(m) \in Path /\ frames'[m].at = "main"
    BY <1>1, <1>3 DEF Same
  <2>2. CASE m = p
    <3>1. Kind(n) # "branch" /\ frames'[m].todo = <<>>
      BY <1>1, <1>3, <2>2 DEF Goes
    <3> QED
      BY <2>1, <3>1 DEF Leaves
  <2>3. CASE m # p
    BY <1>1, <1>3, <2>1, <2>3 DEF Leaves, Goes
  <2> QED
    BY <2>2, <2>3
<1>5. Leaving' /\ Keeping' /\ Remembered'
  BY <1>1, <1>4 DEF Leaving, Keeping, Keeps, Leaves, Remembered
<1> QED
  BY <1>2, <1>5 DEF LeaveInv

(* After a return only the cleanup of the scopes it passes starts.         *)
LEMMA ReturnedStartsCleanup ==
  ASSUME RunInv, LeaveInv, NEW n \in Called, Starts(n), didReturn
  PROVE  \A m \in Starting(n) : InCleanup(m)
<1> DEFINE p == Parent[n]
<1>1. /\ n \notin Running /\ p \in Running /\ frames[p].todo # <<>> /\ Head(frames[p].todo) = n
      /\ \A m \in Starting(n) : Within[p] \subseteq Within[m] \ {m}
      /\ p \in Nodes /\ p \in Within[p] /\ frames[p].at # "release" /\ result = "running"
  BY StartedUnder, RunningIs DEF Quiet, Releasing
<1>2. ~Leaves(p)
  BY <1>1 DEF Leaves
<1>3. ~returning
  BY <1>1, <1>2 DEF LeaveInv, Leaving
<1>4. ASSUME NEW s \in Running, Keeps(s) PROVE s \in Within[p]
  <2>1. \A k \in Within[s] \ {s} : Leaves(k)
    BY <1>4 DEF LeaveInv, Keeping
  <2>2. \A k \in Within[s] \ {s} : Kind(k) # "race"
    BY <2>1 DEF Leaves, Path
  <2>3. p \in Within[s] \/ s \in Within[p]
    BY <1>1, <1>4, <2>2, OneChain
  <2> QED
    BY <1>1, <1>2, <2>1, <2>3
<1>5. ASSUME NEW r \in Running \cap Roots, frames[r].at = "release" PROVE FALSE
  <2>1. PICK q \in Roots : q \in Within[p]
    BY <1>1, RootOf
  <2>2. q \in Running /\ q = r /\ r # p
    BY <1>1, <1>5, <2>1, WithinRuns DEF RunInv, OneRun
  <2>3. Lone(r)
    <3>1. Handler(r, frames[r]) /\ Kind(r) = "run"
      BY <1>5, RunningIs
    <3>2. frames[r].todo = <<>>
      BY <1>5, <3>1 DEF Handler, CallsOwn, Quiet, Releasing
    <3> QED
      BY <1>5, <3>1, <3>2, QuietIsLone DEF RunInv
  <2> QED
    BY <1>1, <2>1, <2>2, <2>3 DEF Lone
<1>6. PICK s \in Running : Keeps(s)
  BY <1>1, <1>3, <1>5 DEF LeaveInv, Remembered
<1> QED
  BY <1>1, <1>4, <1>6 DEF InCleanup, Keeps

LEMMA LeaveInvKept ==
  ASSUME RunInv, LeaveInv, ReturnsPlaced, Form
  PROVE  /\ LeaveInv'
         /\ didReturn => \A m \in (DOMAIN frames') \ Running : InCleanup(m)
<1>1. ASSUME NEW n, JustGoes(n) \/ ReturnsEarly(n) \/ ScopeGoes(n)
      PROVE  LeaveInv' /\ DOMAIN frames' \subseteq Running
  BY <1>1, JustGoesLeaves, ReturnLeaves, ScopeGoesLeaves DEF JustGoes, ReturnsEarly, ScopeGoes, Goes
<1>2. ASSUME NEW n, Cleans(n) \/ WindsUp(n) \/ Turns(n)
      PROVE  LeaveInv' /\ DOMAIN frames' \subseteq Running
  BY <1>2, CleansLeaves, TurnsLeaves DEF Cleans, WindsUp, Turns, Besides
<1>3. ASSUME NEW n \in Called, Starts(n)
      PROVE  LeaveInv' /\ (didReturn => \A m \in (DOMAIN frames') \ Running : InCleanup(m))
  <2>1. DOMAIN frames' = Running \cup Starting(n)
    BY <1>3, StartedUnder
  <2> QED
    BY <1>3, <2>1, StartsLeaves, ReturnedStartsCleanup
<1>4. ASSUME NEW n \in Running, RunEnds(n) PROVE LeaveInv' /\ DOMAIN frames' \subseteq Running
  BY <1>4, RunEndsLeaves DEF RunEnds
<1>5. CASE Warned
  BY <1>5, WarnedLeaves DEF Warned
<1>6. Warned => DOMAIN frames' \subseteq Running
  BY DEF Warned
<1> QED
  BY <1>1, <1>2, <1>3, <1>4, <1>5, <1>6 DEF Form

(* Once a run was interrupted or returned early, only steps that belong to *)
(* a cleanup in progress start: of every workflow without a return in the  *)
(* defers of an attempt.                                                   *)
THEOREM OnlyCleanupFollows ==
  ASSUME NoReturnDeferred
  PROVE  Spec => OnlyCleanupStarts
<1>0. ReturnsPlaced
  BY ReturnsArePlaced
<1>1. Init => RunInv /\ Cut /\ LeaveInv
  <2> SUFFICES ASSUME Init PROVE RunInv /\ Cut /\ LeaveInv
    OBVIOUS
  <2>1. /\ ~returning /\ ~didReturn /\ ~interrupted
        /\ \A n \in Running : frames[n].at = "main"
    BY DEF Init, Frame, Running
  <2> QED
    BY <2>1, InitRunInv DEF Cut, LeaveInv, CleansAfter, Leaving, Keeping, Keeps, Remembered
<1>2. RunInv /\ Cut /\ LeaveInv /\ [Next]_vars =>
        /\ RunInv' /\ Cut' /\ LeaveInv'
        /\ [\A n \in Nodes : n \in (DOMAIN frames') \ Running /\ (interrupted \/ didReturn) =>
              InCleanup(n)]_vars
  BY <1>0, RunInvKept, StepsHaveForms, CutKept, LeaveInvKept DEF Kept
<1> QED
  BY <1>1, <1>2, PTL DEF Spec, OnlyCleanupStarts

-----------------------------------------------------------------------------
(* A fan-out.                                                              *)
USE FanOutAssumption

(* Every set of iterations is finite: it can be counted.                   *)
LEMMA FiniteIterations ==
  ASSUME NEW S \in SUBSET Iterations
  PROVE  IsFiniteSet(S) /\ Cardinality(S) \in Nat
<1>1. IsFiniteSet(Iterations)
  BY FS_Interval DEF Iterations
<1>2. QED
  BY <1>1, FS_Subset, FS_CardinalityType

(* Slots are only ever taken by Admit.                                     *)
LEMMA FewerActive ==
  ASSUME NEW k \in Nat, NEW S \in SUBSET Iterations, NEW T \in SUBSET S,
         Cardinality(S) <= k
  PROVE  Cardinality(T) <= k
<1>1. Cardinality(T) <= Cardinality(S)
  BY FiniteIterations, FS_Subset
<1>2. T \in SUBSET Iterations
  OBVIOUS
<1>3. Cardinality(T) \in Nat /\ Cardinality(S) \in Nat
  BY <1>2, FiniteIterations
<1>4. QED
  BY <1>1, <1>3

(* A fan-out begins with all slots free.                                   *)
LEMMA InitFanOutInv == FanOutInit => FanOutInv
<1> SUFFICES ASSUME FanOutInit PROVE FanOutInv
  OBVIOUS
<1>1. FanOutTypeOK
  <2>1. 1 \in 1..(N + 1)
    OBVIOUS
  <2>2. {} \subseteq Iterations
    OBVIOUS
  <2>3. QED
    BY <2>1, <2>2 DEF FanOutInit, FanOutTypeOK
<1>2. Active = {}
  BY DEF FanOutInit, Active
<1>3. SlotsHeld
  <2>1. policy.limit \in Nat
    BY DEF FanOutInit, Policies
  <2>2. QED
    BY <1>2, <2>1, FS_EmptySet DEF SlotsHeld
<1>4. QED
  BY <1>1, <1>2, <1>3
     DEF FanOutInit, FanOutInv, Bookkeeping, Concluded, FanOutHonest, FailuresNamed,
         Iterations, RunDone

(* No step leaves the types.                                               *)
LEMMA FanOutTypesKept == FanOutTypeOK /\ Bookkeeping /\ [FanOutNext]_fanOut => FanOutTypeOK'
<1> SUFFICES ASSUME FanOutTypeOK, Bookkeeping, [FanOutNext]_fanOut PROVE FanOutTypeOK'
  OBVIOUS
<1> USE DEF FanOutTypeOK, Move, contexts
<1>1. CASE Caller
  <2>1. CASE LoopContinues BY <2>1 DEF LoopContinues
  <2>2. CASE AdmissionEnds BY <2>2 DEF AdmissionEnds
  <2>3. CASE Admit BY <2>3 DEF Admit, Bookkeeping, Iterations
  <2>4. CASE Evaluate BY <2>4 DEF Evaluate, Reported, Failed
  <2>5. CASE CollectResults BY <2>5 DEF CollectResults
  <2>6. QED BY <1>1, <2>1, <2>2, <2>3, <2>4, <2>5 DEF Caller
<1>2. ASSUME NEW i \in Iterations, Goroutine(i) PROVE FanOutTypeOK'
  BY <1>2 DEF Goroutine, Enter, Start, Leave, Finish, CancelsSiblings
<1>3. CASE DeadlineFires BY <1>3 DEF DeadlineFires
<1>4. CASE ParentEnds BY <1>4 DEF ParentEnds
<1>5. CASE UNCHANGED fanOut BY <1>5 DEF fanOut
<1>6. QED
  BY <1>1, <1>2, <1>3, <1>4, <1>5 DEF FanOutNext, Terminated

(* A slot is taken by the one who starts and given back by the one who     *)
(* ends.                                                                   *)
LEMMA SlotsKept == FanOutTypeOK /\ Bookkeeping /\ SlotsHeld /\ [FanOutNext]_fanOut => SlotsHeld'
<1> SUFFICES ASSUME FanOutTypeOK, Bookkeeping, SlotsHeld, [FanOutNext]_fanOut PROVE SlotsHeld'
  OBVIOUS
<1> policy.limit \in Nat /\ policy' = policy
  BY DEF FanOutTypeOK, Policies, FanOutNext, Caller, Goroutine, Terminated, LoopContinues, AdmissionEnds,
         Admit, Evaluate, CollectResults, Enter, Start, Leave, Finish, DeadlineFires, ParentEnds, fanOut
<1>1. CASE Admit
  <2>1. next \in Iterations /\ it[next] = "queued"
    BY <1>1 DEF Admit, FanOutTypeOK, Bookkeeping, Iterations
  <2>2. Active' = Active \cup {next}
    BY <1>1, <2>1 DEF Admit, Move, Active, FanOutTypeOK
  <2>3. Active \in SUBSET Iterations /\ next \notin Active
    BY <2>1 DEF Active
  <2>4. Cardinality(Active') = Cardinality(Active) + 1 /\ Cardinality(Active) \in Nat
    BY <2>2, <2>3, FiniteIterations, FS_AddElement
  <2>5. QED
    BY <1>1, <2>4 DEF Admit, SlotFree, SlotsHeld
<1>2. CASE ~Admit
  <2>1. Active' \in SUBSET Active
    BY <1>2 DEF Active, FanOutTypeOK, Move, FanOutNext, Caller, Goroutine, Terminated, LoopContinues,
         AdmissionEnds, Evaluate, CollectResults, Enter, Start, Leave, Finish, DeadlineFires, ParentEnds, fanOut
  <2>2. Active \in SUBSET Iterations
    BY DEF Active
  <2>3. QED
    BY <2>1, <2>2, FewerActive DEF SlotsHeld
<1>3. QED
  BY <1>1, <1>2

(* Every step keeps the whole invariant.                                   *)
LEMMA FanOutInvKept == FanOutInv /\ [FanOutNext]_fanOut => FanOutInv'
<1> SUFFICES ASSUME FanOutInv, [FanOutNext]_fanOut PROVE FanOutInv'
  OBVIOUS
<1>t. FanOutTypeOK' /\ SlotsHeld'
  BY FanOutTypesKept, SlotsKept DEF FanOutInv
<1> USE <1>t DEF FanOutInv, Bookkeeping, Concluded, FanOutHonest, FailuresNamed,
            RunDone, contexts, Move
<1>1. CASE LoopContinues
  BY <1>1 DEF LoopContinues, MoreToAdmit, FanOutTypeOK, Active, Failed, AllSucceeded
<1>2. CASE AdmissionEnds
  BY <1>2 DEF AdmissionEnds, MoreToAdmit, FanOutTypeOK, Active, Failed, AllSucceeded, Iterations
<1>3. CASE Admit
  BY <1>3 DEF Admit, FanOutTypeOK, Failed, AllSucceeded, Iterations
<1>4. ASSUME NEW i \in Iterations, Enter(i) PROVE FanOutInv'
  BY <1>4 DEF Enter, FanOutTypeOK, Active, Failed, AllSucceeded
<1>5. ASSUME NEW i \in Iterations, Start(i) PROVE FanOutInv'
  BY <1>5 DEF Start, FanOutTypeOK, Active, Failed, AllSucceeded
<1>6. ASSUME NEW i \in Iterations, NEW how \in {"ok", "error", "canceled"}, Finish(i, how)
      PROVE FanOutInv'
  BY <1>6 DEF Finish, FanOutTypeOK, Active, Failed, AllSucceeded
<1>7. ASSUME NEW i \in Iterations, Leave(i) PROVE FanOutInv'
  BY <1>7 DEF Leave, CancelsSiblings, FanOutTypeOK, Active, Failed, AllSucceeded
<1>8. CASE Evaluate
  <2>1. Active = {} /\ Active' = {} /\ Failed' = Failed /\ RunDone' = RunDone
        /\ AllSucceeded' = AllSucceeded /\ it' = it /\ outcome' = outcome /\ next' = next
        /\ policy' = policy /\ UNCHANGED contexts
    BY <1>8 DEF Evaluate, Active, Failed, AllSucceeded
  <2>2. verdict' = "ok" => AllSucceeded
    <3>1. SUFFICES ASSUME verdict' = "ok", ~AllSucceeded PROVE FALSE
      OBVIOUS
    <3>2. ~parentDone /\ ~deadline /\ Reported = {}
      BY <1>8, <3>1 DEF Evaluate, TimedOut, FanOutTypeOK
    <3>3. Failed = {} /\ ~cancelled
      BY <3>2 DEF Reported
    <3>4. \A i \in Iterations : it[i] = "ended"
      BY <1>8, <2>1, <3>2, <3>3 DEF Evaluate, Active, FanOutTypeOK, Iterations
    <3>5. QED
      BY <3>1, <3>2, <3>3, <3>4 DEF Failed, AllSucceeded, FanOutTypeOK
  <2>3. FailuresNamed'
    BY <1>8, <2>1 DEF Evaluate, Reported, Failed
  <2>4. QED
    BY <1>8, <2>1, <2>2, <2>3 DEF Evaluate, TimedOut, FanOutTypeOK
<1>9. CASE CollectResults
  BY <1>9 DEF CollectResults, FanOutTypeOK, Active, Failed, AllSucceeded
<1>10. CASE DeadlineFires
  BY <1>10 DEF DeadlineFires, FanOutTypeOK, Active, Failed, AllSucceeded
<1>11. CASE ParentEnds
  BY <1>11 DEF ParentEnds, FanOutTypeOK, Active, Failed, AllSucceeded
<1>12. CASE UNCHANGED fanOut
  BY <1>12 DEF fanOut, FanOutTypeOK, Active, Failed, AllSucceeded
<1>13. QED
  BY <1>1, <1>2, <1>3, <1>4, <1>5, <1>6, <1>7, <1>8, <1>9, <1>10, <1>11, <1>12
     DEF FanOutNext, Caller, Goroutine, Terminated

(* FanOutInv holds in every reachable state of every fan-out.              *)
THEOREM FanOutInvariance == FanOutSpec => []FanOutInv
  BY InitFanOutInv, FanOutInvKept, PTL DEF FanOutSpec

(* Every variable keeps its type: no admission passes the last iteration.  *)
THEOREM FanOutTypeCorrect == FanOutSpec => []FanOutTypeOK
  BY FanOutInvariance, PTL DEF FanOutInv

(* max_concurrency is never exceeded, whatever the cancellations.          *)
THEOREM ConcurrencyBounded == FanOutSpec => []Bounded
<1>1. FanOutInv => Bounded
  <2> SUFFICES ASSUME FanOutInv PROVE Bounded
    OBVIOUS
  <2> DEFINE B == {i \in Iterations : it[i] = "body"}
  <2>1. B \in SUBSET Active /\ Active \in SUBSET Iterations /\ policy.limit \in Nat
    BY DEF Active, FanOutInv, FanOutTypeOK, Policies
  <2>2. QED
    BY <2>1, FewerActive DEF FanOutInv, SlotsHeld, Bounded
<1>2. QED
  BY <1>1, FanOutInvariance, PTL

(* A fan-out that returns no error ran and completed every iteration, and  *)
(* one that had does not report a timeout.                                 *)
THEOREM FanOutOutcomeCorrect == FanOutSpec => []FanOutHonest
  BY FanOutInvariance, PTL DEF FanOutInv

(* No failure is lost, and failFast names causes and not casualties.       *)
THEOREM FailuresKept == FanOutSpec => []FailuresNamed
  BY FanOutInvariance, PTL DEF FanOutInv

(* Without failFast every iteration is admitted, failures or not.          *)
THEOREM NobodyHeldBack == FanOutSpec => []RunsEverything
<1>1. FanOutInv => RunsEverything
  BY DEF FanOutInv, FanOutTypeOK, Bookkeeping, RunsEverything, RunDone, Iterations
<1>2. QED
  BY <1>1, FanOutInvariance, PTL

(* All of a fan-out's safety, for any number of iterations and any limit.  *)
THEOREM FanOutSafeAlways == FanOutSpec => []FanOutSafety
  BY FanOutTypeCorrect, ConcurrencyBounded, FanOutOutcomeCorrect, FailuresKept, NobodyHeldBack, PTL DEF FanOutSafety

HIDE FanOutAssumption
=============================================================================
