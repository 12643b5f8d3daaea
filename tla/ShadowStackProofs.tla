-------------------------- MODULE ShadowStackProofs --------------------------
(***************************************************************************)
(* Proofs about module ShadowStack, for any number of running processes,   *)
(* any interleaving of their steps, any change of the focus and any depth  *)
(* of nested scopes.                                                       *)
(*                                                                         *)
(* As long as every link and every cleanup finds its list as it assumes,   *)
(* each list is a stack: the nodes in scope, each on one list, every one   *)
(* linked to the one that was linked before it.  The proofs number the     *)
(* nodes of a list from its end: at[q][1] is the outermost one of list q,  *)
(* at[q][len[q]] its head, and at[q][0] the null pointer.                  *)
(***************************************************************************)
EXTENDS ShadowStack, FiniteSetTheorems, FunctionTheorems,
        WellFoundedInduction, TLAPS

TypeInv ==
  /\ focus \in Procs
  /\ gc_roots \in [Procs -> Nodes \cup {None}]
  /\ next \in [Nodes -> Nodes \cup {None}]
  /\ depth \in [Procs -> 0..MaxDepth]
  /\ loaded \in [Procs -> BOOLEAN]
  /\ audited \in BOOLEAN /\ lost \in BOOLEAN
  /\ \A p \in Procs : loaded[p] => depth[p] < MaxDepth

\* The lists with the heads roots and the successors nx are stacks of the
\* nodes in live.
Stacked(len, at, roots, nx, live) ==
  /\ len \in [Procs -> Nat]
  /\ at \in [Procs -> [Nat -> Nodes \cup {None}]]
  /\ \A q \in Procs : at[q][0] = None /\ roots[q] = at[q][len[q]]
  /\ \A q \in Procs : \A i \in 1..len[q] : at[q][i] \in live /\ nx[at[q][i]] = at[q][i - 1]
  /\ \A n \in live : \E q \in Procs : \E i \in 1..len[q] : at[q][i] = n
  /\ \A q, r \in Procs : \A i \in 1..len[q], j \in 1..len[r] :
       at[q][i] = at[r][j] => q = r /\ i = j

IInv ==
  /\ TypeInv
  /\ Undisturbed => \E len, at : Stacked(len, at, gc_roots, next, Live)

\* A node is not the end of a list.
LEMMA NodeIsNotNone == \A n \in Nodes : n # None
  BY DEF None, Nodes

-----------------------------------------------------------------------------
(***************************************************************************)
(* What the three steps do to stacks.                                      *)
(***************************************************************************)
\* Writing the successor of a node that is on no list leaves the stacks alone.
LEMMA Initialised ==
  ASSUME NEW len, NEW at, NEW roots, NEW nx \in [Nodes -> Nodes \cup {None}], NEW live \in SUBSET Nodes,
         NEW n \in Nodes, n \notin live, NEW v,
         Stacked(len, at, roots, nx, live)
  PROVE  Stacked(len, at, roots, [nx EXCEPT ![n] = v], live)
<1>1. \A q \in Procs : \A i \in 1..len[q] : at[q][i] \in live /\ nx[at[q][i]] = at[q][i - 1]
  BY DEF Stacked
<1>2. \A m \in live : [nx EXCEPT ![n] = v][m] = nx[m]
  OBVIOUS
<1>3. \A q \in Procs : \A i \in 1..len[q] :
        at[q][i] \in live /\ [nx EXCEPT ![n] = v][at[q][i]] = at[q][i - 1]
  BY <1>1, <1>2
<1> QED
  BY <1>3, Zenon DEF Stacked

\* A node whose successor is the head of a list becomes its head: a push.
LEMMA Pushed ==
  ASSUME NEW len, NEW at, NEW roots \in [Procs -> Nodes \cup {None}],
         NEW nx \in [Nodes -> Nodes \cup {None}], NEW live \in SUBSET Nodes,
         NEW f \in Procs, NEW n \in Nodes, n \notin live, nx[n] = roots[f],
         Stacked(len, at, roots, nx, live)
  PROVE  \E len2, at2 : Stacked(len2, at2, [roots EXCEPT ![f] = n], nx, live \cup {n})
<1>1. PICK l \in Nat : l = len[f]
  BY DEF Stacked
<1> DEFINE len2 == [len EXCEPT ![f] = l + 1]
           at2 == [at EXCEPT ![f] = [at[f] EXCEPT ![l + 1] = n]]
           roots2 == [roots EXCEPT ![f] = n]
<1>2. /\ len \in [Procs -> Nat]
      /\ at \in [Procs -> [Nat -> Nodes \cup {None}]]
  BY DEF Stacked
<1>3. /\ len2 \in [Procs -> Nat]
      /\ len2[f] = l + 1
      /\ \A q \in Procs : q # f => len2[q] = len[q]
  BY <1>1, <1>2
<1>4. /\ at2 \in [Procs -> [Nat -> Nodes \cup {None}]]
      /\ \A q \in Procs : q # f => at2[q] = at[q]
      /\ at2[f][l + 1] = n
      /\ \A i \in Nat : i # l + 1 => at2[f][i] = at[f][i]
  <2>1. at2[f] = [at[f] EXCEPT ![l + 1] = n]
    BY <1>2
  <2>2. at[f] \in [Nat -> Nodes \cup {None}]
    BY <1>2
  <2>3. at2[f] \in [Nat -> Nodes \cup {None}]
    BY <2>1, <2>2
  <2> QED
    BY <1>1, <1>2, <2>1, <2>2, <2>3
<1>5. roots2[f] = n /\ \A q \in Procs : q # f => roots2[q] = roots[q]
  OBVIOUS
<1> HIDE DEF len2, at2, roots2
\* Below the new head nothing has moved.
<1>6. \A q \in Procs : \A i \in 1..len2[q] : (q = f /\ i = l + 1) \/ (i \in 1..len[q] /\ at2[q][i] = at[q][i])
  BY <1>1, <1>2, <1>3, <1>4
<1>7. \A q \in Procs : \A i \in 1..len[q] : i \in 1..len2[q] /\ at2[q][i] = at[q][i]
  BY <1>1, <1>2, <1>3, <1>4
<1>8. \A q \in Procs : at2[q][0] = None /\ roots2[q] = at2[q][len2[q]]
  BY <1>1, <1>3, <1>4, <1>5 DEF Stacked
<1>9. ASSUME NEW q \in Procs, NEW i \in 1..len2[q]
      PROVE  at2[q][i] \in live \cup {n} /\ nx[at2[q][i]] = at2[q][i - 1]
  <2>1. CASE q = f /\ i = l + 1
    <3>1. at2[q][i - 1] = at[f][l] /\ at2[q][i] = n
      BY <1>1, <1>4, <2>1
    <3> QED
      BY <1>1, <3>1 DEF Stacked
  <2>2. CASE i \in 1..len[q] /\ at2[q][i] = at[q][i]
    <3>1. at2[q][i - 1] = at[q][i - 1]
      <4>1. i - 1 \in Nat /\ (q = f => i - 1 # l + 1)
        BY <1>1, <1>2, <2>2
      <4> QED
        BY <1>4, <4>1
    <3> QED
      BY <2>2, <3>1 DEF Stacked
  <2> QED
    BY <1>6, <2>1, <2>2
<1>10. ASSUME NEW m \in live \cup {n} PROVE \E q \in Procs : \E i \in 1..len2[q] : at2[q][i] = m
  <2>1. CASE m = n
    <3>1. l + 1 \in 1..len2[f]
      BY <1>3
    <3> QED
      BY <1>4, <2>1, <3>1
  <2>2. CASE m \in live
    BY <1>7, <2>2 DEF Stacked
  <2> QED
    BY <2>1, <2>2
<1>11. ASSUME NEW q \in Procs, NEW r \in Procs, NEW i \in 1..len2[q], NEW j \in 1..len2[r],
             at2[q][i] = at2[r][j]
       PROVE q = r /\ i = j
  <2>1. \A s \in Procs : \A k \in 1..len[s] : at[s][k] # n
    BY DEF Stacked
  <2>2. CASE q = f /\ i = l + 1
    BY <1>4, <1>6, <1>11, <2>1, <2>2
  <2>3. CASE r = f /\ j = l + 1
    BY <1>4, <1>6, <1>11, <2>1, <2>3
  <2>4. CASE i \in 1..len[q] /\ at2[q][i] = at[q][i] /\ j \in 1..len[r] /\ at2[r][j] = at[r][j]
    <3>1. at[q][i] = at[r][j]
      BY <1>11, <2>4, Zenon
    <3>2. i \in 1..len[q] /\ j \in 1..len[r]
      BY <2>4, Zenon
    <3>3. \A s, t \in Procs : \A k \in 1..len[s], m \in 1..len[t] : at[s][k] = at[t][m] => s = t /\ k = m
      BY Zenon DEF Stacked
    <3> QED
      BY <3>1, <3>2, <3>3
  <2> QED
    BY <1>6, <2>2, <2>3, <2>4
<1>12. Stacked(len2, at2, roots2, nx, live \cup {n})
  BY <1>3, <1>4, <1>8, <1>9, <1>10, <1>11 DEF Stacked
<1> QED
  BY <1>12 DEF roots2

\* The head of a list makes way for its successor: a pop.
LEMMA Popped ==
  ASSUME NEW len, NEW at, NEW roots \in [Procs -> Nodes \cup {None}],
         NEW nx \in [Nodes -> Nodes \cup {None}], NEW live \in SUBSET Nodes,
         NEW f \in Procs, NEW n \in live, roots[f] = n,
         Stacked(len, at, roots, nx, live)
  PROVE  \E len2, at2 : Stacked(len2, at2, [roots EXCEPT ![f] = nx[n]], nx, live \ {n})
<1>1. PICK l \in Nat : l = len[f]
  BY DEF Stacked
<1> DEFINE len2 == [len EXCEPT ![f] = l - 1]
           roots2 == [roots EXCEPT ![f] = nx[n]]
<1>2. /\ len \in [Procs -> Nat]
      /\ at \in [Procs -> [Nat -> Nodes \cup {None}]]
  BY DEF Stacked
<1>3. at[f][l] = n /\ l \in 1..len[f] /\ l - 1 \in Nat
  <2>1. at[f][l] = n /\ at[f][0] = None
    BY <1>1 DEF Stacked
  <2>2. l # 0
    BY <2>1, NodeIsNotNone
  <2> QED
    BY <1>1, <2>1, <2>2
<1>4. /\ len2 \in [Procs -> Nat]
      /\ len2[f] = l - 1
      /\ \A q \in Procs : q # f => len2[q] = len[q]
  BY <1>2, <1>3
<1>5. roots2[f] = at[f][l - 1] /\ \A q \in Procs : q # f => roots2[q] = roots[q]
  BY <1>3 DEF Stacked
<1> HIDE DEF len2, roots2
<1>6. \A q \in Procs : \A i \in 1..len2[q] : i \in 1..len[q] /\ ~(q = f /\ i = l)
  BY <1>1, <1>2, <1>3, <1>4
<1>7. \A q \in Procs : \A i \in 1..len[q] : i \in 1..len2[q] \/ (q = f /\ i = l)
  BY <1>1, <1>2, <1>3, <1>4
<1>8. \A q \in Procs : at[q][0] = None /\ roots2[q] = at[q][len2[q]]
  BY <1>4, <1>5 DEF Stacked
<1>9. ASSUME NEW q \in Procs, NEW i \in 1..len2[q]
      PROVE  at[q][i] \in live \ {n} /\ nx[at[q][i]] = at[q][i - 1]
  <2>1. at[q][i] # n
    BY <1>3, <1>6 DEF Stacked
  <2> QED
    BY <1>6, <2>1 DEF Stacked
<1>10. ASSUME NEW m \in live \ {n} PROVE \E q \in Procs : \E i \in 1..len2[q] : at[q][i] = m
  <2>1. PICK q \in Procs : \E i \in 1..len[q] : at[q][i] = m
    BY DEF Stacked
  <2>2. PICK i \in 1..len[q] : at[q][i] = m
    BY <2>1
  <2> QED
    BY <1>3, <1>7, <2>2
<1>11. \A q, r \in Procs : \A i \in 1..len2[q], j \in 1..len2[r] :
         at[q][i] = at[r][j] => q = r /\ i = j
  BY <1>6 DEF Stacked
<1>12. Stacked(len2, at, roots2, nx, live \ {n})
  BY <1>2, <1>4, <1>8, <1>9, <1>10, <1>11 DEF Stacked
<1> QED
  BY <1>12 DEF roots2

-----------------------------------------------------------------------------
(***************************************************************************)
(* The invariant.                                                          *)
(***************************************************************************)
\* All lists are empty at the start.
LEMMA InitInv == Init => IInv
<1> SUFFICES ASSUME Init PROVE IInv
  OBVIOUS
<1>1. TypeInv
  <2>1. audited \in BOOLEAN /\ lost \in BOOLEAN
    BY Zenon DEF Init
  <2>2. /\ focus \in Procs
        /\ gc_roots \in [Procs -> Nodes \cup {None}]
        /\ next \in [Nodes -> Nodes \cup {None}]
    BY ShadowStackAssumption DEF Init
  <2>3. /\ depth \in [Procs -> 0..MaxDepth]
        /\ loaded \in [Procs -> BOOLEAN]
        /\ \A p \in Procs : loaded[p] => depth[p] < MaxDepth
    BY ShadowStackAssumption DEF Init
  <2> QED
    BY <2>1, <2>2, <2>3, Zenon DEF TypeInv
<1>2. Live = {}
  BY ShadowStackAssumption DEF Init, Live, Nodes
<1> DEFINE len == [q \in Procs |-> 0]
           at == [q \in Procs |-> [i \in Nat |-> None]]
<1>3. Stacked(len, at, gc_roots, next, Live)
  BY <1>2 DEF Init, Stacked
<1> QED
  BY <1>1, <1>3 DEF IInv

\* The node of the next protected variable is not in scope, that of the
\* innermost one is.
LEMMA ScopeEnds ==
  ASSUME TypeInv, NEW p \in Procs
  PROVE  /\ Live \in SUBSET Nodes
         /\ depth[p] < MaxDepth => Fresh(p) \in Nodes /\ Fresh(p) \notin Live
         /\ depth[p] > 0 => Top(p) \in Live
  BY ShadowStackAssumption DEF TypeInv, Live, Nodes, Fresh, Top

\* The first half of GC_PROTECT.
LEMMA ProtectInitInv ==
  ASSUME IInv, NEW p \in Procs, ProtectInit(p)
  PROVE  IInv'
<1>1. TypeInv'
  <2>1. Fresh(p) \in Nodes /\ gc_roots[focus] \in Nodes \cup {None}
    BY ScopeEnds DEF IInv, TypeInv, ProtectInit
  <2>2. next' \in [Nodes -> Nodes \cup {None}]
    BY <2>1 DEF IInv, TypeInv, ProtectInit
  <2> QED
    BY <2>2 DEF IInv, TypeInv, ProtectInit
<1>2. ASSUME Undisturbed' PROVE (\E len, at : Stacked(len, at, gc_roots, next, Live))'
  <2>1. Undisturbed
    BY <1>2 DEF Undisturbed, ProtectInit
  <2>2. PICK len, at : Stacked(len, at, gc_roots, next, Live)
    BY <2>1 DEF IInv
  <2>3. Fresh(p) \in Nodes /\ Fresh(p) \notin Live /\ Live \in SUBSET Nodes
    BY ScopeEnds DEF IInv, TypeInv, ProtectInit
  <2>4. Stacked(len, at, gc_roots, [next EXCEPT ![Fresh(p)] = gc_roots[focus]], Live)
    BY <2>2, <2>3, Initialised DEF IInv, TypeInv
  <2>5. Live' = Live /\ gc_roots' = gc_roots /\ next' = [next EXCEPT ![Fresh(p)] = gc_roots[focus]]
    BY DEF ProtectInit, Live
  <2> QED
    BY <2>4, <2>5
<1> QED
  BY <1>1, <1>2 DEF IInv

\* The second half of GC_PROTECT.
LEMMA ProtectLinkInv ==
  ASSUME IInv, NEW p \in Procs, ProtectLink(p)
  PROVE  IInv'
<1>1. Fresh(p) \in Nodes /\ Fresh(p) \notin Live /\ Live \in SUBSET Nodes
  BY ScopeEnds DEF IInv, TypeInv, ProtectLink
<1>2. TypeInv'
  <2>1. gc_roots' \in [Procs -> Nodes \cup {None}]
    BY <1>1 DEF IInv, TypeInv, ProtectLink
  <2>2. /\ depth' \in [Procs -> 0..MaxDepth]
        /\ loaded' \in [Procs -> BOOLEAN]
        /\ \A q \in Procs : loaded'[q] => depth'[q] < MaxDepth
    BY ShadowStackAssumption DEF IInv, TypeInv, ProtectLink
  <2> QED
    BY <2>1, <2>2 DEF IInv, TypeInv, ProtectLink
<1>3. ASSUME Undisturbed' PROVE (\E len, at : Stacked(len, at, gc_roots, next, Live))'
  <2>1. Undisturbed /\ gc_roots[focus] = next[Fresh(p)]
    BY <1>3, Zenon DEF Undisturbed, ProtectLink
  <2>2. PICK len, at : Stacked(len, at, gc_roots, next, Live)
    BY <2>1 DEF IInv
  <2>3. Live' = Live \cup {Fresh(p)}
    BY ShadowStackAssumption DEF IInv, TypeInv, ProtectLink, Live, Fresh, Nodes
  <2>4. \E len2, at2 : Stacked(len2, at2, [gc_roots EXCEPT ![focus] = Fresh(p)], next, Live \cup {Fresh(p)})
    BY <1>1, <2>1, <2>2, Pushed DEF IInv, TypeInv
  <2>5. gc_roots' = [gc_roots EXCEPT ![focus] = Fresh(p)] /\ next' = next
    BY DEF ProtectLink
  <2> QED
    BY <2>3, <2>4, <2>5
<1> QED
  BY <1>2, <1>3 DEF IInv

\* The cleanup.
LEMMA UnprotectInv ==
  ASSUME IInv, NEW p \in Procs, gc_unprotect_node(p)
  PROVE  IInv'
<1>1. Top(p) \in Live /\ Live \in SUBSET Nodes
  BY ScopeEnds DEF IInv, gc_unprotect_node
<1>2. TypeInv'
  <2>1. gc_roots' \in [Procs -> Nodes \cup {None}]
    BY <1>1 DEF IInv, TypeInv, gc_unprotect_node
  <2>2. /\ depth' \in [Procs -> 0..MaxDepth]
        /\ \A q \in Procs : loaded'[q] => depth'[q] < MaxDepth
    BY ShadowStackAssumption DEF IInv, TypeInv, gc_unprotect_node
  <2> QED
    BY <2>1, <2>2 DEF IInv, TypeInv, gc_unprotect_node
<1>3. ASSUME Undisturbed' PROVE (\E len, at : Stacked(len, at, gc_roots, next, Live))'
  <2>1. Undisturbed /\ gc_roots[focus] = Top(p)
    BY <1>3, Zenon DEF Undisturbed, gc_unprotect_node
  <2>2. PICK len, at : Stacked(len, at, gc_roots, next, Live)
    BY <2>1 DEF IInv
  <2>3. Live' = Live \ {Top(p)}
    <3>1. ASSUME NEW q \in Procs, NEW d \in 1..MaxDepth
          PROVE  <<q, d>> \in Live' <=> <<q, d>> \in Live \ {Top(p)}
      <4>1. d <= depth'[q] <=> d <= depth[q] /\ ~(q = p /\ d = depth[p])
        BY ShadowStackAssumption DEF IInv, TypeInv, gc_unprotect_node
      <4> QED
        BY <4>1 DEF Live, Top, Nodes
    <3>2. Live' \subseteq Nodes /\ Live \subseteq Nodes
      BY DEF Live
    <3> QED
      BY <3>1, <3>2 DEF Nodes
  <2>4. \E len2, at2 : Stacked(len2, at2, [gc_roots EXCEPT ![focus] = next[Top(p)]], next, Live \ {Top(p)})
    BY <1>1, <2>1, <2>2, Popped DEF IInv, TypeInv
  <2>5. gc_roots' = [gc_roots EXCEPT ![focus] = next[Top(p)]] /\ next' = next
    BY DEF gc_unprotect_node
  <2> QED
    BY <2>3, <2>4, <2>5
<1> QED
  BY <1>2, <1>3 DEF IInv

\* Every step of every process, and every change of the focus, keeps the
\* lists stacks.
LEMMA StepInv == IInv /\ [Next]_vars => IInv'
<1> SUFFICES ASSUME IInv, [Next]_vars PROVE IInv'
  OBVIOUS
<1>1. ASSUME NEW p \in Procs, ProtectInit(p) PROVE IInv'
  BY <1>1, ProtectInitInv
<1>2. ASSUME NEW p \in Procs, ProtectLink(p) PROVE IInv'
  BY <1>2, ProtectLinkInv
<1>3. ASSUME NEW p \in Procs, gc_unprotect_node(p) PROVE IInv'
  BY <1>3, UnprotectInv
<1>4. ASSUME NEW i \in Procs, switch_active_process(i) PROVE IInv'
  BY <1>4 DEF switch_active_process, IInv, TypeInv, Undisturbed, Live
<1>5. CASE UNCHANGED vars
  BY <1>5 DEF vars, IInv, TypeInv, Undisturbed, Live
<1> QED
  BY <1>1, <1>2, <1>3, <1>4, <1>5 DEF Next

-----------------------------------------------------------------------------
(***************************************************************************)
(* Induction over the natural numbers, for sets.                           *)
(***************************************************************************)
Below == {p \in Nat \X Nat : p[1] < p[2]}

\* The order of the natural numbers as a set of pairs is well founded.
LEMMA BelowWellFounded == IsWellFoundedOn(Below, Nat)
  BY NatLessThanWellFounded, Zenon DEF OpToRel, Below

\* A nonempty set of natural numbers has a least element.
LEMMA LeastElement ==
  ASSUME NEW S \in SUBSET Nat, S # {}
  PROVE  \E m \in S : \A n \in S : m <= n
<1>1. PICK x \in S : \A y \in S : ~ (<<y, x>> \in Below)
  BY BelowWellFounded, WFMin
<1>2. ASSUME NEW y \in S PROVE x <= y
  <2>1. x \in Nat /\ y \in Nat
    OBVIOUS
  <2>2. <<y, x>> \in Nat \X Nat
    BY <2>1
  <2>3. ~(y < x)
    BY <1>1, <2>2 DEF Below
  <2> QED
    BY <2>1, <2>3
<1> QED
  BY <1>2

\* A set that contains 0 and the successor of each of its numbers contains
\* all natural numbers.
LEMMA SetInduction ==
  ASSUME NEW S, 0 \in S, \A n \in Nat : n \in S => n + 1 \in S
  PROVE  \A n \in Nat : n \in S
<1> SUFFICES ASSUME Nat \ S # {} PROVE FALSE
  OBVIOUS
<1>1. PICK m \in Nat \ S : \A n \in Nat \ S : m <= n
  BY LeastElement
<1>2. m # 0 /\ m - 1 \in Nat /\ m - 1 \in S
  BY <1>1
<1> QED
  BY <1>1, <1>2
-----------------------------------------------------------------------------
(***************************************************************************)
(* What the collector visits.                                              *)
(***************************************************************************)
\* No list is longer than there are nodes.
LEMMA ListsAreShort ==
  ASSUME NEW len, NEW at, NEW roots, NEW nx, NEW live \in SUBSET Nodes,
         Stacked(len, at, roots, nx, live), NEW q \in Procs
  PROVE  Cardinality(Nodes) \in Nat /\ len[q] <= Cardinality(Nodes)
<1>1. len[q] \in Nat
  BY DEF Stacked
<1>2. IsFiniteSet(1..len[q]) /\ Cardinality(1..len[q]) = len[q]
  BY <1>1, FS_Interval
<1>3. IsFiniteSet(Nodes)
  <2>1. IsFiniteSet(1..MaxDepth)
    BY FS_Interval, ShadowStackAssumption
  <2> QED
    BY <2>1, FS_Product, ShadowStackAssumption DEF Nodes
<1> DEFINE list == [i \in 1..len[q] |-> at[q][i]]
<1>4. \A i \in 1..len[q] : at[q][i] \in Nodes
  BY DEF Stacked
<1>5. \A i, j \in 1..len[q] : at[q][i] = at[q][j] => i = j
  <2>1. \A s, t \in Procs : \A k \in 1..len[s], m \in 1..len[t] : at[s][k] = at[t][m] => s = t /\ k = m
    BY Zenon DEF Stacked
  <2> QED
    BY <2>1
<1>6. list \in Injection(1..len[q], Nodes)
  BY <1>4, <1>5, Fun_IsInj
<1> HIDE DEF list
<1>7. Cardinality(1..len[q]) <= Cardinality(Nodes)
  BY <1>3, <1>6, FS_Injection
<1> QED
  BY <1>2, <1>3, <1>7, FS_CardinalityType

\* The k-th node from the head of list q.
FromHead(len, at, q, k) == at[q][IF k <= len[q] THEN len[q] - k ELSE 0]

\* One step along a list.
LEMMA FromHeadStep ==
  ASSUME NEW len, NEW at, NEW roots, NEW nx, NEW live \in SUBSET Nodes,
         Stacked(len, at, roots, nx, live), NEW q \in Procs
  PROVE  /\ FromHead(len, at, q, 0) = roots[q]
         /\ \A k \in Nat : FromHead(len, at, q, k + 1) =
              IF FromHead(len, at, q, k) = None THEN None ELSE nx[FromHead(len, at, q, k)]
<1>1. PICK l \in Nat : l = len[q]
  BY DEF Stacked
<1>2. at[q][0] = None /\ roots[q] = at[q][l]
  BY <1>1 DEF Stacked
<1>3. \A i \in 1..l : at[q][i] \in Nodes /\ nx[at[q][i]] = at[q][i - 1]
  BY <1>1 DEF Stacked
<1>4. ASSUME NEW k \in Nat
      PROVE  FromHead(len, at, q, k + 1) =
               IF FromHead(len, at, q, k) = None THEN None ELSE nx[FromHead(len, at, q, k)]
  <2>1. CASE k < l
    <3>1. l - k \in 1..l /\ (l - k) - 1 = l - (k + 1)
      BY <2>1
    <3>2. FromHead(len, at, q, k) = at[q][l - k]
      BY <1>1, <2>1 DEF FromHead
    <3>3. FromHead(len, at, q, k + 1) = at[q][l - (k + 1)]
      BY <1>1, <2>1 DEF FromHead
    <3> QED
      BY <1>3, <3>1, <3>2, <3>3, NodeIsNotNone
  <2>2. CASE k >= l
    <3>1. FromHead(len, at, q, k) = None
      BY <1>1, <1>2, <2>2 DEF FromHead
    <3>2. FromHead(len, at, q, k + 1) = None
      BY <1>1, <1>2, <2>2 DEF FromHead
    <3> QED
      BY <3>1, <3>2
  <2> QED
    BY <2>1, <2>2
<1>5. FromHead(len, at, q, 0) = roots[q]
  BY <1>1, <1>2 DEF FromHead
<1> QED
  BY <1>4, <1>5

\* The recursive definition of Walk defines a function: that of the nodes
\* counted from the head satisfies it.
LEMMA WalkDef ==
  ASSUME NEW len, NEW at, Live \in SUBSET Nodes, Stacked(len, at, gc_roots, next, Live), NEW q \in Procs
  PROVE  /\ Walk(q)[0] = gc_roots[q]
         /\ \A k \in Nat : Walk(q)[k + 1] = IF Walk(q)[k] = None THEN None ELSE next[Walk(q)[k]]
<1> DEFINE Body(f) == [k \in Nat |-> IF k = 0 THEN gc_roots[q]
                                     ELSE IF f[k-1] = None THEN None ELSE next[f[k-1]]]
<1>1. PICK f : f = [k \in Nat |-> FromHead(len, at, q, k)]
  OBVIOUS
<1>2. f = Body(f)
  <2>1. ASSUME NEW k \in Nat PROVE f[k] = Body(f)[k]
    <3>1. CASE k = 0
      BY <1>1, <3>1, FromHeadStep
    <3>2. CASE k # 0
      <4>1. PICK j \in Nat : k = j + 1
        <5>1. k - 1 \in Nat /\ k = (k - 1) + 1
          BY <3>2
        <5> QED
          BY <5>1
      <4>2. f[j + 1] = IF f[j] = None THEN None ELSE next[f[j]]
        BY <1>1, FromHeadStep
      <4>3. Body(f)[j + 1] = IF f[j] = None THEN None ELSE next[f[j]]
        <5>1. j + 1 \in Nat /\ j + 1 # 0 /\ (j + 1) - 1 = j
          OBVIOUS
        <5> QED
          BY <5>1
      <4> QED
        BY <4>1, <4>2, <4>3
    <3> QED
      BY <3>1, <3>2
  <2> QED
    BY <1>1, <2>1
<1>3. Walk(q) = CHOOSE f1 : f1 = Body(f1)
  BY DEF Walk
<1> HIDE DEF Body
<1>4. Walk(q) = Body(Walk(q))
  BY <1>2, <1>3, Zenon
<1>5. ASSUME NEW k \in Nat PROVE Walk(q)[k + 1] = IF Walk(q)[k] = None THEN None ELSE next[Walk(q)[k]]
  BY <1>4 DEF Body
<1>6. Walk(q)[0] = gc_roots[q]
  BY <1>4 DEF Body
<1> QED
  BY <1>5, <1>6

\* A walk along a stack goes from its head to its end.
LEMMA WalkEnds ==
  ASSUME NEW len, NEW at, Live \in SUBSET Nodes, Stacked(len, at, gc_roots, next, Live)
  PROVE  WalksEnd
<1> DEFINE N == Cardinality(Nodes)
<1> SUFFICES ASSUME NEW q \in Procs PROVE Walk(q)[N] = None
  BY DEF WalksEnd
<1> DEFINE S == {k \in Nat : Walk(q)[k] = FromHead(len, at, q, k)}
<1>1. 0 \in S
  BY WalkDef, FromHeadStep
<1>2. ASSUME NEW k \in Nat, k \in S PROVE k + 1 \in S
  BY <1>2, WalkDef, FromHeadStep
<1> HIDE DEF S
<1>3. \A k \in Nat : k \in S
  BY <1>1, <1>2, SetInduction
<1>4. N \in Nat /\ len[q] <= N
  BY ListsAreShort
<1>5. Walk(q)[N] = FromHead(len, at, q, N)
  BY <1>3, <1>4 DEF S
<1>6. FromHead(len, at, q, N) = at[q][0]
  <2>1. len[q] \in Nat
    BY DEF Stacked
  <2> QED
    BY <1>4, <2>1 DEF FromHead
<1> QED
  BY <1>5, <1>6 DEF Stacked

\* The nodes up to the k-th after the heads.
Reached(len, at, k) == UNION {{at[q][i] : i \in {j \in 1..len[q] : j >= len[q] - k}} : q \in Procs}

\* What is reached in one step more.
Heads == {gc_roots[q] : q \in Procs} \ {None}
More(seen) == seen \cup ({next[n] : n \in seen} \ {None})

\* The steps along the lists go through the stacks, from the heads.
LEMMA ReachedStep ==
  ASSUME NEW len, NEW at, Live \in SUBSET Nodes, Stacked(len, at, gc_roots, next, Live)
  PROVE  /\ Reached(len, at, 0) = Heads
         /\ \A k \in Nat : Reached(len, at, k + 1) = More(Reached(len, at, k))
<1>1. len \in [Procs -> Nat]
  BY DEF Stacked
<1>2. \A q \in Procs : at[q][0] = None /\ gc_roots[q] = at[q][len[q]]
  BY DEF Stacked
<1>3. \A q \in Procs : \A i \in 1..len[q] :
        at[q][i] \in Nodes /\ at[q][i] # None /\ next[at[q][i]] = at[q][i - 1]
  BY NodeIsNotNone DEF Stacked
<1>4. ASSUME NEW k \in Nat, NEW n
      PROVE  n \in Reached(len, at, k) <=>
               \E q \in Procs : \E i \in 1..len[q] : i >= len[q] - k /\ n = at[q][i]
  BY DEF Reached
<1>5. Reached(len, at, 0) = Heads
  <2>1. ASSUME NEW n \in Reached(len, at, 0) PROVE n \in Heads
    <3>1. PICK q \in Procs : \E i \in 1..len[q] : i >= len[q] - 0 /\ n = at[q][i]
      BY <1>4
    <3>2. PICK i \in 1..len[q] : i >= len[q] - 0 /\ n = at[q][i]
      BY <3>1
    <3>3. i = len[q]
      BY <1>1, <3>2
    <3> QED
      BY <1>2, <1>3, <3>2, <3>3 DEF Heads
  <2>2. ASSUME NEW n \in Heads PROVE n \in Reached(len, at, 0)
    <3>1. PICK q \in Procs : n = gc_roots[q] /\ n # None
      BY DEF Heads
    <3>2. len[q] \in 1..len[q] /\ len[q] >= len[q] - 0 /\ n = at[q][len[q]]
      BY <1>1, <1>2, <3>1
    <3> QED
      BY <1>4, <3>2
  <2> QED
    BY <2>1, <2>2
<1>6. ASSUME NEW k \in Nat PROVE Reached(len, at, k + 1) = More(Reached(len, at, k))
  <2>1. ASSUME NEW n \in Reached(len, at, k) PROVE n \in Reached(len, at, k + 1)
    <3>1. PICK q \in Procs : \E i \in 1..len[q] : i >= len[q] - k /\ n = at[q][i]
      BY <1>4, <2>1
    <3>2. PICK i \in 1..len[q] : i >= len[q] - k /\ n = at[q][i]
      BY <3>1
    <3>3. i >= len[q] - (k + 1)
      BY <1>1, <3>2
    <3>4. k + 1 \in Nat
      OBVIOUS
    <3> QED
      BY <1>4, <3>2, <3>3, <3>4
  <2>2. ASSUME NEW m \in Reached(len, at, k), next[m] # None PROVE next[m] \in Reached(len, at, k + 1)
    <3>1. PICK q \in Procs : \E i \in 1..len[q] : i >= len[q] - k /\ m = at[q][i]
      BY <1>4, <2>2
    <3>2. PICK i \in 1..len[q] : i >= len[q] - k /\ m = at[q][i]
      BY <3>1
    <3>3. next[m] = at[q][i - 1]
      BY <1>3, <3>2
    <3>4. i - 1 # 0
      BY <1>2, <2>2, <3>3
    <3>5. i - 1 \in 1..len[q] /\ i - 1 >= len[q] - (k + 1) /\ k + 1 \in Nat
      BY <1>1, <3>2, <3>4
    <3> QED
      BY <1>4, <3>3, <3>5
  <2>3. ASSUME NEW n \in Reached(len, at, k + 1), n \notin Reached(len, at, k)
        PROVE  n # None /\ \E m \in Reached(len, at, k) : n = next[m]
    <3>1. k + 1 \in Nat
      OBVIOUS
    <3>2. PICK q \in Procs : \E i \in 1..len[q] : i >= len[q] - (k + 1) /\ n = at[q][i]
      BY <1>4, <2>3, <3>1
    <3>3. PICK i \in 1..len[q] : i >= len[q] - (k + 1) /\ n = at[q][i]
      BY <3>2
    <3>4. ~(i >= len[q] - k)
      BY <1>4, <2>3, <3>3
    <3>5. i + 1 \in 1..len[q] /\ i + 1 >= len[q] - k /\ (i + 1) - 1 = i
      BY <1>1, <3>3, <3>4
    <3>6. at[q][i + 1] \in Reached(len, at, k)
      BY <1>4, <3>5
    <3>7. next[at[q][i + 1]] = n
      BY <1>3, <3>3, <3>5
    <3> QED
      BY <1>3, <3>3, <3>6, <3>7
  <2> QED
    BY <2>1, <2>2, <2>3 DEF More
<1> QED
  BY <1>5, <1>6

\* The recursive definition of Within defines a function: that of the nodes
\* reached satisfies it.
LEMMA WithinDef ==
  ASSUME NEW len, NEW at, Live \in SUBSET Nodes, Stacked(len, at, gc_roots, next, Live)
  PROVE  Within[0] = Heads /\ \A k \in Nat : Within[k + 1] = More(Within[k])
<1> DEFINE Body(within) == [k \in Nat |-> IF k = 0 THEN Heads ELSE More(within[k-1])]
<1>1. PICK f : f = [k \in Nat |-> Reached(len, at, k)]
  OBVIOUS
<1>2. f = Body(f)
  <2>1. ASSUME NEW k \in Nat PROVE f[k] = Body(f)[k]
    <3>1. CASE k = 0
      BY <1>1, <3>1, ReachedStep
    <3>2. CASE k # 0
      <4>1. k - 1 \in Nat /\ (k - 1) + 1 = k
        BY <3>2
      <4>2. Reached(len, at, (k - 1) + 1) = More(Reached(len, at, k - 1))
        BY <4>1, ReachedStep
      <4> QED
        BY <1>1, <3>2, <4>1, <4>2
    <3> QED
      BY <3>1, <3>2
  <2> QED
    BY <1>1, <2>1
<1>3. Within = CHOOSE within : within = Body(within)
  BY DEF Within, Heads, More
<1> HIDE DEF Body
<1>4. Within = Body(Within)
  BY <1>2, <1>3, Zenon
<1>5. ASSUME NEW k \in Nat PROVE Within[k + 1] = More(Within[k])
  BY <1>4 DEF Body
<1>6. Within[0] = Heads
  BY <1>4 DEF Body
<1> QED
  BY <1>5, <1>6

\* A collection visits exactly the variables in scope.
LEMMA VisitedIsLive ==
  ASSUME NEW len, NEW at, Live \in SUBSET Nodes, Stacked(len, at, gc_roots, next, Live)
  PROVE  Visited = Live
<1> DEFINE N == Cardinality(Nodes)
           S == {k \in Nat : Within[k] = Reached(len, at, k)}
<1>1. 0 \in S
  BY WithinDef, ReachedStep
<1>2. ASSUME NEW k \in Nat, k \in S PROVE k + 1 \in S
  BY <1>2, WithinDef, ReachedStep
<1> HIDE DEF S
<1>3. \A k \in Nat : k \in S
  BY <1>1, <1>2, SetInduction
<1>4. ASSUME NEW q \in Procs PROVE N \in Nat /\ len[q] <= N /\ len[q] \in Nat
  <2>1. N \in Nat /\ len[q] <= N
    BY ListsAreShort
  <2>2. len[q] \in Nat
    BY DEF Stacked
  <2> QED
    BY <2>1, <2>2
<1>5. Visited = Reached(len, at, N)
  BY <1>3, <1>4, ShadowStackAssumption DEF S, Visited
<1>6. ASSUME NEW n \in Reached(len, at, N) PROVE n \in Live
  BY DEF Reached, Stacked
<1>7. ASSUME NEW n \in Live PROVE n \in Reached(len, at, N)
  <2>1. PICK q \in Procs : \E i \in 1..len[q] : at[q][i] = n
    BY DEF Stacked
  <2>2. PICK i \in 1..len[q] : at[q][i] = n
    BY <2>1
  <2>3. i >= len[q] - N
    BY <1>4, <2>2
  <2> QED
    BY <2>2, <2>3 DEF Reached
<1> QED
  BY <1>5, <1>6, <1>7

-----------------------------------------------------------------------------
\* The shape of the lists is an invariant of the specification.
LEMMA ShapeInvariant == Spec => []IInv
  BY InitInv, StepInv, PTL DEF Spec

\* Whatever the processes protect and clean up in whatever order, and wherever
\* the focus goes meanwhile, the collector's walk along every list of
\* gc_rootnode records (os_gc_collect_body) ends as long as each link and each
\* cleanup found its list as it assumed.
THEOREM ListsAlwaysEnd == Spec => []ListsEnd
<1>1. IInv => ListsEnd
  <2> SUFFICES ASSUME IInv, Undisturbed PROVE WalksEnd
    BY DEF ListsEnd
  <2>1. PICK len, at : Stacked(len, at, gc_roots, next, Live)
    BY DEF IInv
  <2> QED
    BY <2>1, WalkEnds DEF Live
<1> QED
  BY <1>1, ShapeInvariant, PTL

\* Likewise every variable between its GC_PROTECT and the end of its scope is
\* visited by a collection at any time.
THEOREM ProtectedVisited == Spec => []ProtectedAreRoots
<1>1. IInv => ProtectedAreRoots
  <2> SUFFICES ASSUME IInv, Undisturbed PROVE Live \subseteq Visited
    BY DEF ProtectedAreRoots
  <2>1. PICK len, at : Stacked(len, at, gc_roots, next, Live)
    BY DEF IInv
  <2> QED
    BY <2>1, VisitedIsLive DEF Live
<1> QED
  BY <1>1, ShapeInvariant, PTL

\* Likewise a collection visits no node of a C frame whose scope has ended
\* (gc_unprotect_node).
THEOREM DeadNotVisited == Spec => []NoDeadRoots
<1>1. IInv => NoDeadRoots
  <2> SUFFICES ASSUME IInv, Undisturbed PROVE Visited \subseteq Live
    BY DEF NoDeadRoots
  <2>1. PICK len, at : Stacked(len, at, gc_roots, next, Live)
    BY DEF IInv
  <2> QED
    BY <2>1, VisitedIsLive DEF Live
<1> QED
  BY <1>1, ShapeInvariant, PTL
=============================================================================
