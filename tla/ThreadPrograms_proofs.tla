------------------------ MODULE ThreadPrograms_proofs ------------------------
(***************************************************************************)
(* Proofs about the programs of ThreadPrograms, each for any numbers of    *)
(* threads, nodes, plots, balls and bins.                                  *)
(***************************************************************************)
EXTENDS ThreadPrograms, FiniteSetTheorems, NaturalsInduction, WellFoundedInduction, TLAPS

\* Only the program that runs takes steps.
LEMMA ListMoves ==
    ASSUME [Next]_vars
    PROVE  [List!Next]_(List!vars)
<1> USE DEF list, List!vars, List!signalVars, List!listVars, List!mainVars
<1>1. CASE UNCHANGED list
  BY <1>1
<1>2. CASE RunList /\ ~UNCHANGED list
  <2> USE <1>2 DEF RunBeans, RunPorters, RunList
  <2>1. CASE \E t \in Threads : Thread(t)
    BY <2>1 DEF Thread
  <2>2. CASE MainStep \/ SigStep \/ Keyboard
    BY <2>2 DEF MainStep, SigStep, Keyboard, List!Next
  <2> QED  BY <2>1, <2>2 DEF Next, vars
<1>3. ASSUME ~RunList PROVE UNCHANGED list
  BY <1>3 DEF Next, Thread, MainStep, SigStep, Keyboard, RunBeans, RunPorters, RunList, vars
<1> QED  BY <1>1, <1>2, <1>3

LEMMA SaltMoves ==
    ASSUME [Next]_vars
    PROVE  [Salt!Next]_(Salt!vars)
<1> USE DEF porters, Salt!vars, Salt!porterVars, Salt!signalVars
<1>1. CASE UNCHANGED porters
  BY <1>1
<1>2. CASE RunPorters /\ ~UNCHANGED porters
  <2> USE <1>2 DEF RunBeans, RunPorters, RunList
  <2>1. CASE \E t \in Threads : Thread(t)
    BY <2>1 DEF Thread, Salt!Next
  <2>2. CASE MainStep \/ SigStep \/ Keyboard
    BY <2>2 DEF MainStep, SigStep, Keyboard, Salt!Next
  <2> QED  BY <2>1, <2>2 DEF Next, vars
<1>3. ASSUME ~RunPorters PROVE UNCHANGED porters
  BY <1>3 DEF Next, Thread, MainStep, SigStep, Keyboard, RunBeans, RunPorters, RunList, vars
<1> QED  BY <1>1, <1>2, <1>3

LEMMA BeansMove ==
    ASSUME [Next]_vars
    PROVE  [Beans!Next]_(Beans!vars)
<1> USE DEF beans, Beans!vars
<1>1. CASE UNCHANGED beans
  BY <1>1
<1>2. CASE RunBeans /\ ~UNCHANGED beans
  <2> USE <1>2 DEF RunBeans, RunPorters, RunList
  <2>1. CASE \E t \in Threads : Thread(t)
    BY <2>1 DEF Thread, Beans!Next
  <2>2. CASE MainStep \/ SigStep \/ Keyboard
    BY <2>2 DEF MainStep, SigStep, Keyboard, Beans!Next
  <2> QED  BY <2>1, <2>2 DEF Next, vars
<1>3. ASSUME ~RunBeans PROVE UNCHANGED beans
  BY <1>3 DEF Next, Thread, MainStep, SigStep, Keyboard, RunBeans, RunPorters, RunList, vars
<1> QED  BY <1>1, <1>2, <1>3

(***************************************************************************)
(* SigList: the list and its signal thread (sygnaly.c, template.c).        *)
(***************************************************************************)

\* The nodes that are on the list.
Listed == List!Nodes \ (freed \cup {victim})

\* The list L goes on from place x with y, the next one of its nodes.
Leads(L, x, y) ==
    /\ y \in L \cup {List!Nil}
    /\ y # List!Nil => x < y
    /\ \A z \in L : x < z => y # List!Nil /\ y <= z

\* The nodes are linked in their order.  What is left of the list begins at its head,
\* and while main frees it where main is.
LsOrder ==
    /\ listMain # "over" => Leads(Listed, 0, IF listMain = "clean" THEN cur ELSE head)
    /\ \A x \in Listed : Leads(Listed, x, next[x])

\* Who has the mutex of the list, and what goes with it.
LsPlaces ==
    /\ listOwner["list"] = Sig <=> listSig \in {"unlink", "free", "shorten", "unlock"}
    /\ listOwner["list"] = Main <=>
          listMain = "print" \/ (listMain = "clean" /\ version = "sygnaly")
    /\ victim # List!Nil <=> listSig \in {"free", "shorten"}
    /\ listSig = "free" => victim \notin freed
    /\ listSig = "shorten" => victim \in freed
    /\ listMain \in {"clean", "over"} => listSig = "gone"
    /\ listMain = "over" => freed = List!Nodes

\* The length is that of the list, and the number printed on the way that of the
\* nodes main has passed.
Passed == {x \in Listed : cur = List!Nil \/ x < cur}
LsCount ==
    /\ listMain \notin {"clean", "over"} =>
          k = Cardinality(List!Nodes \ freed) + (IF listSig = "shorten" THEN 1 ELSE 0)
    /\ listMain = "print" =>
          /\ cur \in Listed \cup {List!Nil}
          /\ walked = Cardinality(Passed)
          /\ shown = IF version = "sygnaly" THEN k ELSE K

LsInv == List!TypeOK /\ LsOrder /\ LsPlaces /\ LsCount

\* The walk from the head exists for every length.
LEMMA Walk ==
    ASSUME NEW N \in Nat, NEW D, NEW h \in D \cup {0}, NEW nx \in [D -> D \cup {0}]
    PROVE  \E f \in [0 .. N -> D \cup {0}] :
                     \A i \in 0 .. N :
                         f[i] = IF i = 0 \/ h = 0 THEN h
                                ELSE IF f[i - 1] = 0 THEN 0 ELSE nx[f[i - 1]]
<1> DEFINE Goes(f, m) == /\ f \in [0 .. m -> D \cup {0}]
                         /\ \A i \in 0 .. m :
                                f[i] = IF i = 0 \/ h = 0 THEN h
                                       ELSE IF f[i - 1] = 0 THEN 0 ELSE nx[f[i - 1]]
           R == OpToRel(<, Nat)
           Bad == {m \in Nat : ~ \E f : Goes(f, m)}
<1>1. ASSUME NEW m \in Bad PROVE \E l \in Bad : <<l, m>> \in R
  <2>1. m \in Nat /\ ~ \E f : Goes(f, m)
    OBVIOUS
  <2>2. m # 0
    <3>1. Goes([i \in 0 .. 0 |-> h], 0)
      OBVIOUS
    <3> QED  BY <3>1, <2>1
  <2>3. ASSUME NEW f, Goes(f, m - 1) PROVE FALSE
    <3> HIDE DEF Bad
    <3> DEFINE g == [i \in 0 .. m |-> IF i < m THEN f[i]
                                       ELSE IF h = 0 THEN h
                                       ELSE IF f[m - 1] = 0 THEN 0 ELSE nx[f[m - 1]]]
    <3>1. \A i \in 0 .. m - 1 : g[i] = f[i]
      BY <2>1, <2>2
    <3>2. g[m] = IF h = 0 THEN h ELSE IF f[m - 1] = 0 THEN 0 ELSE nx[f[m - 1]]
      BY <2>1
    <3>3. g \in [0 .. m -> D \cup {0}]
      BY <2>1, <2>2, <2>3
    <3> HIDE DEF g
    <3>4. ASSUME NEW i \in 0 .. m
          PROVE  g[i] = IF i = 0 \/ h = 0 THEN h ELSE IF g[i - 1] = 0 THEN 0 ELSE nx[g[i - 1]]
      <4>1. CASE i = m
        <5>1. g[m - 1] = f[m - 1]
          BY <2>1, <2>2, <3>1
        <5> QED  BY <4>1, <5>1, <3>2, <2>2
      <4>2. CASE i # m
        <5>1. i \in 0 .. m - 1
          BY <4>2, <2>1
        <5>2. f[i] = IF i = 0 \/ h = 0 THEN h ELSE IF f[i - 1] = 0 THEN 0 ELSE nx[f[i - 1]]
          BY <2>3, <5>1
        <5>3. i = 0 \/ g[i - 1] = f[i - 1]
          BY <3>1, <5>1, <2>1
        <5>4. g[i] = f[i]
          BY <3>1, <5>1
        <5> QED  BY <5>2, <5>3, <5>4
      <4> QED  BY <4>1, <4>2
    <3>5. Goes(g, m)
      BY <3>3, <3>4
    <3> QED  BY <3>5, <2>1
  <2>4. m - 1 \in Bad
    BY <2>1, <2>2, <2>3
  <2>5. <<m - 1, m>> \in R
    BY <2>1, <2>2 DEF OpToRel
  <2> QED  BY <2>4, <2>5
<1>2. Bad = {}
  <2>1. IsWellFoundedOn(R, Nat)
    BY NatLessThanWellFounded
  <2>2. Bad \subseteq Nat
    OBVIOUS
  <2> HIDE DEF R, Bad
  <2> QED  BY <1>1, <2>1, <2>2, WFMin
<1> QED  BY <1>2

\* What the node i links away from the head is.
LEMMA NthIs ==
    ASSUME List!TypeOK, NEW i \in 0 .. K
    PROVE  List!Nth[i] = IF i = 0 \/ head = 0 THEN head
                         ELSE IF List!Nth[i - 1] = 0 THEN 0 ELSE next[List!Nth[i - 1]]
<1> DEFINE Goes(f) == [j \in 0 .. K |->
                          IF j = 0 \/ head = 0 THEN head
                          ELSE IF f[j - 1] = 0 THEN 0 ELSE next[f[j - 1]]]
<1>1. K \in Nat
  BY ListAssumption
<1>2. PICK f \in [0 .. K -> List!Nodes \cup {0}] :
                  \A j \in 0 .. K :
                      f[j] = IF j = 0 \/ head = 0 THEN head
                             ELSE IF f[j - 1] = 0 THEN 0 ELSE next[f[j - 1]]
  <2>1. head \in List!Nodes \cup {0} /\ next \in [List!Nodes -> List!Nodes \cup {0}]
    BY DEF List!TypeOK, List!Nil
  <2> QED  BY <1>1, <2>1, Walk
<1>3. f = Goes(f)
  BY <1>2
<1>4. List!Nth = Goes(List!Nth)
  BY <1>3 DEF List!Nth, List!Nil
<1> QED  BY <1>4

\* A list in order stays one when a node is taken out of it.
LEMMA LeadsPast ==
    ASSUME NEW L \in SUBSET List!Nodes, NEW x \in Nat, NEW v \in L, NEW y,
           Leads(L, x, v), Leads(L, v, y)
    PROVE  Leads(L \ {v}, x, y)
<1> USE ListAssumption DEF Leads, List!Nodes, List!Nil
<1>1. y \in (L \ {v}) \cup {0}
  OBVIOUS
<1>2. y # 0 => x < y
  OBVIOUS
<1>3. ASSUME NEW z \in L \ {v}, x < z PROVE y # 0 /\ y <= z
  <2>1. v <= z
    BY <1>3
  <2>2. v < z
    BY <2>1
  <2> QED  BY <2>2
<1> QED  BY <1>1, <1>2, <1>3

LEMMA LeadsOther ==
    ASSUME NEW L \in SUBSET List!Nodes, NEW x, NEW v, NEW y, y # v,
           Leads(L, x, y)
    PROVE  Leads(L \ {v}, x, y)
BY DEF Leads

LEMMA LsCases ==
    ASSUME [List!Next]_(List!vars)
    PROVE  \/ List!Sigwait \/ List!SigLock \/ List!Free \/ List!Shorten \/ List!SigUnlock
           \/ List!SigLockStop \/ List!SigSetStop \/ List!SigUnlockStop
           \/ \E los \in 0 .. K - 1 : List!Unlink(los)
           \/ List!MainAsk \/ List!MainAnswer \/ List!MainLock \/ List!PrintNode
           \/ List!MainUnlock \/ List!Join \/ List!CleanNode \/ List!Return
           \/ List!SendInt \/ List!SendQuit \/ UNCHANGED list
BY DEF List!Next, List!SigStep, List!MainStep, list, List!vars, List!signalVars,
    List!listVars, List!mainVars

LEMMA LsNumbers ==
    ASSUME List!TypeOK
    PROVE  /\ \A S \in SUBSET List!Nodes : IsFiniteSet(S) /\ Cardinality(S) \in 0 .. K
           /\ Cardinality(List!Nodes) = K
<1>1. IsFiniteSet(List!Nodes) /\ Cardinality(List!Nodes) = K
  BY FS_Interval, ListAssumption DEF List!Nodes
<1>2. ASSUME NEW S \in SUBSET List!Nodes PROVE IsFiniteSet(S) /\ Cardinality(S) \in 0 .. K
  BY <1>1, FS_Subset, FS_CardinalityType, ListAssumption
<1> QED  BY <1>1, <1>2

\* The nodes that come before one.
Before(x) == {z \in Listed : z < x}

\* The place the signal thread draws is on the list, with as many nodes before it
\* as the number drawn, and is the next one after the place before it.
LEMMA Drawn ==
    ASSUME LsInv, listSig = "unlink", ~List!Empty, NEW los \in 0 .. k - 1
    PROVE  /\ List!Nth[los] \in Listed /\ Cardinality(Before(List!Nth[los])) = los
           /\ IF los = 0 THEN List!Nth[los] = head
              ELSE /\ List!Nth[los - 1] \in Listed
                   /\ List!Nth[los] = next[List!Nth[los - 1]]
<1> USE ListAssumption DEF LsInv, List!Nil
<1>1. /\ k \in 1 .. K /\ head # 0 /\ victim = 0 /\ listMain \notin {"clean", "over"}
      /\ Listed = List!Nodes \ freed /\ k = Cardinality(Listed) /\ Listed \subseteq 1 .. K
      /\ IsFiniteSet(Listed)
  <2>1. victim = 0 /\ listMain \notin {"clean", "over"}
    BY DEF LsPlaces
  <2>2. Listed = List!Nodes \ freed
    BY <2>1 DEF Listed, List!Nodes
  <2>3. k = Cardinality(Listed) + 0
    BY <2>1, <2>2 DEF LsCount
  <2>4. Cardinality(Listed) \in 0 .. K /\ IsFiniteSet(Listed)
    BY <2>2, LsNumbers
  <2> QED  BY <2>1, <2>2, <2>3, <2>4 DEF List!Empty, List!TypeOK, List!Nodes
<1>2. \A j \in 0 .. k - 1 : List!Nth[j] = IF j = 0 THEN head
                                       ELSE IF List!Nth[j - 1] = 0 THEN 0 ELSE next[List!Nth[j - 1]]
  BY <1>1, NthIs
<1>3. Leads(Listed, 0, head) /\ \A x \in Listed : Leads(Listed, x, next[x])
  BY <1>1 DEF LsOrder
<1> DEFINE Good(j) == List!Nth[j] \in Listed /\ Cardinality(Before(List!Nth[j])) = j
           R == OpToRel(<, Nat)
           Bad == {j \in 0 .. k - 1 : ~Good(j)}
<1>4. Good(0)
  <2>1. List!Nth[0] = head /\ head \in Listed
    BY <1>1, <1>2, <1>3 DEF Leads
  <2>2. Before(head) = {}
    BY <1>1, <1>3 DEF Leads, Before
  <2> QED  BY <2>1, <2>2, FS_EmptySet
<1>5. ASSUME NEW j \in 0 .. k - 1, j # 0, Good(j - 1) PROVE Good(j)
  <2> DEFINE x == List!Nth[j - 1]
             y == next[x]
  <2>1. x \in Listed /\ Cardinality(Before(x)) = j - 1 /\ x \in 1 .. K
    BY <1>5, <1>1
  <2>2. List!Nth[j] = y /\ Leads(Listed, x, y)
    <3>1. List!Nth[j] = IF x = 0 THEN 0 ELSE next[x]
      BY ONLY <1>2, <1>5
    <3>2. x # 0
      BY ONLY <2>1, <1>1
    <3> QED  BY ONLY <2>1, <1>3, <3>1, <3>2
  <2> HIDE DEF x, y
  <2>3. Cardinality(Before(x) \cup {x}) = j
    <3>1. Before(x) \subseteq Listed /\ x \notin Before(x)
      BY <1>1, <2>1 DEF Before
    <3>2. IsFiniteSet(Before(x))
      BY <3>1, <1>1, FS_Subset
    <3>3. Cardinality(Before(x) \cup {x}) = Cardinality(Before(x)) + 1
      BY <3>1, <3>2, FS_AddElement
    <3> QED  BY <3>3, <2>1, <1>1
  <2>4. y # 0
    <3> SUFFICES ASSUME y = 0 PROVE FALSE
      OBVIOUS
    <3>1. Listed = Before(x) \cup {x}
      BY <1>1, <2>1, <2>2 DEF Leads, Before
    <3>2. k = j
      BY <3>1, <2>3, <1>1
    <3> QED  BY <3>2, <1>1
  <2>5. Before(y) = Before(x) \cup {x}
    BY <1>1, <2>1, <2>2, <2>4 DEF Leads, Before
  <2> QED  BY <2>2, <2>3, <2>4, <2>5 DEF Leads
<1>6. Bad = {}
  <2>1. IsWellFoundedOn(R, Nat)
    BY NatLessThanWellFounded
  <2>2. Bad \subseteq Nat
    BY <1>1
  <2>3. ASSUME NEW j \in Bad PROVE \E l \in Bad : <<l, j>> \in R
    <3>1. j # 0 /\ j \in 0 .. k - 1 /\ ~Good(j)
      BY <1>4
    <3>2. ~Good(j - 1)
      BY <3>1, <1>5
    <3> HIDE DEF Good
    <3>3. j - 1 \in Bad
      BY <3>1, <3>2, <1>1
    <3>4. <<j - 1, j>> \in R
      BY <3>1, <1>1 DEF OpToRel
    <3> QED  BY <3>3, <3>4
  <2> HIDE DEF R, Bad
  <2> QED  BY <2>1, <2>2, <2>3, WFMin
<1>7. \A j \in 0 .. k - 1 : Good(j)
  BY <1>6
<1>8. los # 0 => los - 1 \in 0 .. k - 1
  BY <1>1
<1>9. los # 0 => Good(los - 1)
  <2> HIDE DEF Good
  <2> QED  BY <1>7, <1>8
<1>10. Good(los)
  <2> HIDE DEF Good
  <2> QED  BY <1>7
<1> QED  BY <1>9, <1>10, <1>2, <1>1

LEMMA LsInit ==
    ASSUME Init
    PROVE  LsInv
<1> USE ListAssumption, ThreadsAssumption DEF Init, List!Init, List!Nil, List!Nodes
<1>1. List!TypeOK
  BY DEF List!TypeOK
<1>2. LsOrder
  BY DEF LsOrder, Leads, Listed
<1>3. LsPlaces
  BY DEF LsPlaces
<1>4. LsCount
  <2>1. Cardinality(List!Nodes) = K
    BY <1>1, LsNumbers
  <2>2. List!Nodes \ freed = List!Nodes
    OBVIOUS
  <2> QED  BY <2>1, <2>2 DEF LsCount
<1> QED  BY <1>1, <1>2, <1>3, <1>4 DEF LsInv

\* What main passes when it prints a node.
LEMMA LsPassed ==
    ASSUME LsInv, List!PrintNode
    PROVE  /\ cur \in Listed /\ cur' \in Listed \cup {0}
           /\ Listed' = Listed /\ Passed' = Passed \cup {cur} /\ cur \notin Passed
           /\ IsFiniteSet(Passed) /\ Cardinality(Passed') = Cardinality(Passed) + 1
           /\ Cardinality(Passed') <= K
<1> USE ListAssumption DEF LsInv, List!PrintNode, List!Nil, List!listVars, List!signalVars
<1>1. cur \in Listed /\ cur # 0 /\ Listed' = Listed /\ cur' = next[cur]
  BY DEF LsCount, Listed
<1>2. Listed \subseteq 1 .. K
  BY DEF Listed, List!Nodes
<1>3. Leads(Listed, cur, next[cur])
  BY <1>1 DEF LsOrder
<1>4. Passed' = Passed \cup {cur} /\ cur \notin Passed /\ cur' \in Listed \cup {0}
  <2>1. cur' \in Listed \cup {0} /\ cur \notin Passed
    BY <1>1, <1>2, <1>3 DEF Passed, Leads
  <2>2. ASSUME NEW x \in Listed PROVE x \in Passed' <=> x \in Passed \/ x = cur
    <3>1. x \in Passed' <=> (next[cur] = 0 \/ x < next[cur])
      BY <1>1, <2>2 DEF Passed
    <3>2. x \in Passed <=> x < cur
      BY <1>1, <2>2 DEF Passed
    <3>3. x \in 1 .. K /\ cur \in 1 .. K /\ (next[cur] = 0 \/ next[cur] \in 1 .. K)
      BY <1>1, <1>2, <1>3, <2>2 DEF Leads
    <3>4. CASE x <= cur
      <4>1. next[cur] = 0 \/ x < next[cur]
        BY <1>3, <3>3, <3>4 DEF Leads
      <4> QED  BY <4>1, <3>1, <3>2, <3>3, <3>4
    <3>5. CASE cur < x
      <4>1. next[cur] # 0 /\ next[cur] <= x
        BY <1>3, <2>2, <3>5 DEF Leads
      <4> QED  BY <4>1, <3>1, <3>2, <3>3, <3>5
    <3> QED  BY <3>3, <3>4, <3>5
  <2>3. Passed' \subseteq Listed /\ Passed \subseteq Listed
    BY <1>1 DEF Passed
  <2> QED  BY <2>1, <2>2, <2>3, <1>1
<1>5. Passed \in SUBSET List!Nodes /\ Passed' \in SUBSET List!Nodes
  BY <1>1, <1>2 DEF Passed, List!Nodes
<1>6. IsFiniteSet(Passed) /\ Cardinality(Passed') \in 0 .. K
  BY <1>5, LsNumbers
<1>7. Cardinality(Passed \cup {cur}) = Cardinality(Passed) + 1
  BY <1>4, <1>6, FS_AddElement
<1> QED  BY <1>1, <1>4, <1>6, <1>7

LEMMA LsType ==
    ASSUME LsInv, [List!Next]_(List!vars)
    PROVE  List!TypeOK'
<1> USE ListAssumption, ThreadsAssumption
    DEF List!TypeOK, List!Take, List!Give, List!Nil,
        List!listVars, List!signalVars, List!mainVars
<1>t. List!TypeOK /\ K \in Nat
  BY DEF LsInv
<1>1. CASE List!Sigwait
  BY <1>1, <1>t DEF List!Sigwait
<1>2. CASE List!SigLock
  BY <1>2, <1>t DEF List!SigLock
<1>3. CASE List!Free
  <2>1. victim \in List!Nodes
    BY <1>3, <1>t DEF LsInv, LsPlaces, List!Free
  <2> QED  BY <1>3, <1>t, <2>1 DEF List!Free
<1>4. CASE List!Shorten
  <2>1. k # 0
    <3>1. listMain \notin {"clean", "over"}
      BY <1>4 DEF LsInv, LsPlaces, List!Shorten
    <3>2. k = Cardinality(List!Nodes \ freed) + 1
      BY <3>1, <1>4 DEF LsInv, LsCount, List!Shorten
    <3>3. Cardinality(List!Nodes \ freed) \in 0 .. K
      BY <1>t, LsNumbers
    <3> QED  BY <3>2, <3>3
  <2> QED  BY <1>4, <1>t, <2>1 DEF List!Shorten
<1>5. CASE List!SigUnlock
  BY <1>5, <1>t DEF List!SigUnlock
<1>6. CASE List!SigLockStop
  BY <1>6, <1>t DEF List!SigLockStop
<1>7. CASE List!SigSetStop
  BY <1>7, <1>t DEF List!SigSetStop
<1>8. CASE List!SigUnlockStop
  BY <1>8, <1>t DEF List!SigUnlockStop
<1>9. CASE \E los \in 0 .. K - 1 : List!Unlink(los)
  <2>1. PICK los \in 0 .. K - 1 : List!Unlink(los)
    BY <1>9
  <2>2. los \in 0 .. k - 1 /\ listSig = "unlink" /\ ~List!Empty
    BY <2>1, <1>t DEF List!Unlink
  <2>3. List!Nth[los] \in List!Nodes
    BY <2>2, Drawn DEF Listed
  <2> QED  BY <2>1, <2>3, <1>t DEF List!Unlink
<1>10. CASE List!MainAsk
  BY <1>10, <1>t DEF List!MainAsk
<1>11. CASE List!MainAnswer
  BY <1>11, <1>t DEF List!MainAnswer
<1>12. CASE List!MainLock
  BY <1>12, <1>t DEF List!MainLock, List!Length
<1>13. CASE List!PrintNode
  <2>1. walked' \in 0 .. K
    <3>1. walked = Cardinality(Passed)
      BY <1>13 DEF LsInv, LsCount, List!PrintNode
    <3> QED  BY <3>1, <1>13, <1>t, LsPassed DEF List!PrintNode
  <2>2. cur' \in List!Nodes \cup {0}
    BY <1>13, <1>t DEF List!PrintNode
  <2> QED  BY <1>13, <1>t, <2>1, <2>2 DEF List!PrintNode
<1>14. CASE List!MainUnlock
  BY <1>14, <1>t DEF List!MainUnlock
<1>15. CASE List!Join
  BY <1>15, <1>t DEF List!Join
<1>16. CASE List!CleanNode
  BY <1>16, <1>t DEF List!CleanNode
<1>17. CASE List!Return
  BY <1>17, <1>t DEF List!Return
<1>18. CASE List!SendInt
  BY <1>18, <1>t DEF List!SendInt
<1>19. CASE List!SendQuit
  BY <1>19, <1>t DEF List!SendQuit
<1>20. CASE UNCHANGED list
  BY <1>20, <1>t DEF list
<1> QED  BY LsCases, <1>1, <1>2, <1>3, <1>4, <1>5, <1>6, <1>7, <1>8, <1>9, <1>10, <1>11,
             <1>12, <1>13, <1>14, <1>15, <1>16, <1>17, <1>18, <1>19, <1>20

\* Taking the node at a drawn place out leaves the others in order.
LEMMA LsUnlinked ==
    ASSUME LsInv, NEW los \in 0 .. K - 1, List!Unlink(los)
    PROVE  LsOrder'
<1> USE ListAssumption DEF List!Unlink, List!Nil
<1>1. /\ los \in 0 .. k - 1 /\ listSig = "unlink" /\ ~List!Empty
      /\ List!TypeOK /\ victim = 0 /\ listMain \notin {"clean", "over"}
      /\ UNCHANGED <<freed, listMain>>
  <2>1. List!TypeOK /\ listSig = "unlink" /\ los < k
    BY DEF LsInv
  <2>2. victim = 0 /\ listMain \notin {"clean", "over"}
    BY <2>1 DEF LsInv, LsPlaces
  <2>3. los \in 0 .. k - 1
    BY <2>1 DEF List!TypeOK
  <2>4. ~List!Empty
    OBVIOUS
  <2>5. freed' = freed /\ listMain' = listMain
    BY DEF List!mainVars
  <2> QED  BY <2>1, <2>2, <2>3, <2>4, <2>5
<1> DEFINE v == List!Nth[los]
<1>2. v \in Listed /\ Listed \subseteq 1 .. K
  BY <1>1, Drawn DEF Listed, List!Nodes
<1>3. victim' = v /\ Listed' = Listed \ {v}
  BY <1>1, <1>2 DEF Listed, List!Nodes
<1>4. Leads(Listed, 0, head) /\ \A x \in Listed : Leads(Listed, x, next[x])
  BY <1>1 DEF LsInv, LsOrder
<1>5. next \in [List!Nodes -> List!Nodes \cup {0}] /\ Listed \in SUBSET List!Nodes
  BY <1>1 DEF List!TypeOK, Listed
<1>6. CASE los = 0
  <2>1. v = head /\ head' = next[v] /\ next' = next
    BY <1>1, <1>3, <1>6, Drawn
  <2> HIDE DEF v
  <2>2. Leads(Listed', 0, head')
    BY <2>1, <1>2, <1>3, <1>4, <1>5, LeadsPast
  <2>3. ASSUME NEW x \in Listed' PROVE Leads(Listed', x, next'[x])
    <3>1. next[x] # v
      BY <2>1, <1>2, <1>3, <1>4 DEF Leads
    <3> QED  BY <3>1, <2>1, <1>2, <1>3, <1>4, <1>5, LeadsOther
  <2> QED  BY <2>2, <2>3, <1>1 DEF LsOrder
<1>7. CASE los # 0
  <2> DEFINE p == List!Nth[los - 1]
  <2>1. p \in Listed /\ v = next[p] /\ head' = head /\ next' = [next EXCEPT ![p] = next[v]]
    BY <1>1, <1>3, <1>7, Drawn
  <2> HIDE DEF v, p
  <2>2. Leads(Listed, p, v) /\ p < v
    BY <2>1, <1>2, <1>4 DEF Leads
  <2>3. Leads(Listed', 0, head')
    <3>1. head # v
      BY <2>1, <2>2, <1>2, <1>4 DEF Leads
    <3> QED  BY <3>1, <2>1, <1>2, <1>3, <1>4, <1>5, LeadsOther
  <2>4. ASSUME NEW x \in Listed' PROVE Leads(Listed', x, next'[x])
    <3>1. CASE x = p
      <4>1. next'[x] = next[v] /\ p \in Nat
        BY <3>1, <2>1, <1>2, <1>5
      <4> QED  BY <3>1, <4>1, <2>2, <1>2, <1>3, <1>4, <1>5, LeadsPast
    <3>2. CASE x # p
      <4>1. next'[x] = next[x] /\ x \in Listed
        BY <3>2, <2>1, <1>3, <1>5
      <4>2. next[x] # v
        BY <3>2, <4>1, <2>1, <2>2, <1>2, <1>4 DEF Leads
      <4> QED  BY <4>1, <4>2, <1>2, <1>3, <1>4, <1>5, LeadsOther
    <3> QED  BY <3>1, <3>2
  <2> QED  BY <2>3, <2>4, <1>1 DEF LsOrder
<1> QED  BY <1>6, <1>7

LEMMA LsOrderStep ==
    ASSUME LsInv, [List!Next]_(List!vars)
    PROVE  LsOrder'
<1> USE ListAssumption DEF List!Nil
<1>t. /\ List!TypeOK /\ LsOrder /\ LsPlaces /\ Listed \in SUBSET List!Nodes
      /\ K \in Nat /\ Listed \subseteq 1 .. K
  BY DEF LsInv, Listed, List!Nodes
\* Steps that leave the list and main's way through it alone.
<1>q. ASSUME UNCHANGED <<head, next, freed, victim>>,
             \/ UNCHANGED <<listMain, cur>>
             \/ {listMain, listMain'} \cap {"clean", "over"} = {}
      PROVE  LsOrder'
  <2>1. Listed' = Listed
    BY <1>q DEF Listed
  <2> QED  BY <1>q, <1>t, <2>1 DEF LsOrder
<1> USE DEF List!listVars, List!mainVars, List!signalVars
<1>1. CASE List!Sigwait
  BY <1>1, <1>q DEF List!Sigwait
<1>2. CASE List!SigLock
  BY <1>2, <1>q DEF List!SigLock
<1>3. CASE List!Free
  <2>1. Listed' = Listed
    BY <1>3 DEF Listed, List!Free
  <2> QED  BY <1>3, <1>t, <2>1 DEF LsOrder, List!Free
<1>4. CASE List!Shorten
  <2>1. Listed' = Listed
    BY <1>4, <1>t DEF Listed, LsPlaces, List!Shorten, List!Nodes
  <2> QED  BY <1>4, <1>t, <2>1 DEF LsOrder, List!Shorten
<1>5. CASE List!SigUnlock
  BY <1>5, <1>q DEF List!SigUnlock
<1>6. CASE List!SigLockStop
  BY <1>6, <1>q DEF List!SigLockStop
<1>7. CASE List!SigSetStop
  BY <1>7, <1>q DEF List!SigSetStop
<1>8. CASE List!SigUnlockStop
  BY <1>8, <1>q DEF List!SigUnlockStop
<1>9. CASE \E los \in 0 .. K - 1 : List!Unlink(los)
  BY <1>9, LsUnlinked
<1>10. CASE List!MainAsk
  BY <1>10, <1>q DEF List!MainAsk
<1>11. CASE List!MainAnswer
  BY <1>11, <1>q DEF List!MainAnswer
<1>12. CASE List!MainLock
  BY <1>12, <1>q DEF List!MainLock
<1>13. CASE List!PrintNode
  BY <1>13, <1>q DEF List!PrintNode
<1>14. CASE List!MainUnlock
  BY <1>14, <1>q DEF List!MainUnlock
<1>15. CASE List!Join
  <2>1. Listed' = Listed
    BY <1>15 DEF Listed, List!Join
  <2> QED  BY <1>15, <1>t, <2>1 DEF LsOrder, List!Join
<1>16. CASE List!CleanNode
  <2>1. /\ Leads(Listed, 0, cur) /\ cur \in Listed /\ cur' = next[cur]
        /\ UNCHANGED <<next, head, listMain>> /\ listMain = "clean"
    BY <1>16, <1>t DEF List!CleanNode, LsOrder, Leads
  <2>2. Listed' = Listed \ {cur}
    BY <1>16, <2>1 DEF Listed, List!CleanNode
  <2>3. Leads(Listed, cur, next[cur])
    BY <1>t, <2>1 DEF LsOrder
  <2>4. Leads(Listed', 0, cur')
    BY <2>1, <2>2, <2>3, <1>t, LeadsPast
  <2>5. ASSUME NEW x \in Listed' PROVE Leads(Listed', x, next'[x])
    <3>1. Leads(Listed, x, next[x])
      BY <1>t, <2>2 DEF LsOrder
    <3>2. next[x] # cur
      BY <1>t, <2>1, <2>2, <3>1 DEF Leads
    <3> QED  BY <3>1, <3>2, <2>1, <2>2, <1>t, LeadsOther
  <2> QED  BY <2>1, <2>4, <2>5 DEF LsOrder
<1>17. CASE List!Return
  <2>1. Listed' = Listed
    BY <1>17 DEF Listed, List!Return
  <2> QED  BY <1>17, <1>t, <2>1 DEF LsOrder, List!Return
<1>18. CASE List!SendInt
  BY <1>18, <1>q DEF List!SendInt
<1>19. CASE List!SendQuit
  BY <1>19, <1>q DEF List!SendQuit
<1>20. CASE UNCHANGED list
  BY <1>20, <1>q DEF list
<1> QED  BY LsCases, <1>1, <1>2, <1>3, <1>4, <1>5, <1>6, <1>7, <1>8, <1>9, <1>10, <1>11,
             <1>12, <1>13, <1>14, <1>15, <1>16, <1>17, <1>18, <1>19, <1>20

LEMMA LsPlacesStep ==
    ASSUME LsInv, [List!Next]_(List!vars)
    PROVE  LsPlaces'
<1> USE ListAssumption, ThreadsAssumption
    DEF LsPlaces, List!Nil, List!Take, List!Give,
        List!listVars, List!mainVars, List!signalVars
<1>t. /\ LsPlaces /\ K \in Nat
      /\ listOwner \in [{"list", "stop"} -> {Sig, Main, Nobody}]
      /\ freed \subseteq List!Nodes /\ version \in {"sygnaly", "template"}
  BY DEF LsInv, List!TypeOK
<1>1. CASE List!Sigwait
  BY <1>1, <1>t DEF List!Sigwait
<1>2. CASE List!SigLock
  BY <1>2, <1>t DEF List!SigLock
<1>3. CASE List!Free
  BY <1>3, <1>t DEF List!Free
<1>4. CASE List!Shorten
  BY <1>4, <1>t DEF List!Shorten
<1>5. CASE List!SigUnlock
  BY <1>5, <1>t DEF List!SigUnlock
<1>6. CASE List!SigLockStop
  BY <1>6, <1>t DEF List!SigLockStop
<1>7. CASE List!SigSetStop
  BY <1>7, <1>t DEF List!SigSetStop
<1>8. CASE List!SigUnlockStop
  BY <1>8, <1>t DEF List!SigUnlockStop
<1>9. CASE \E los \in 0 .. K - 1 : List!Unlink(los)
  <2>1. PICK los \in 0 .. K - 1 : List!Unlink(los)
    BY <1>9
  <2>2. los \in 0 .. k - 1 /\ listSig = "unlink" /\ ~List!Empty
    BY <2>1 DEF List!Unlink, LsInv, List!TypeOK
  <2>3. victim' \in List!Nodes \ freed
    BY <2>1, <2>2, Drawn DEF Listed, List!Unlink
  <2>4. /\ listSig' = "free" /\ UNCHANGED <<listOwner, listMain, freed, version>>
    BY <2>1 DEF List!Unlink
  <2> QED  BY <1>t, <2>2, <2>3, <2>4 DEF List!Nodes
<1>10. CASE List!MainAsk
  BY <1>10, <1>t DEF List!MainAsk
<1>11. CASE List!MainAnswer
  BY <1>11, <1>t DEF List!MainAnswer
<1>12. CASE List!MainLock
  BY <1>12, <1>t DEF List!MainLock
<1>13. CASE List!PrintNode
  BY <1>13, <1>t DEF List!PrintNode
<1>14. CASE List!MainUnlock
  BY <1>14, <1>t DEF List!MainUnlock
<1>15. CASE List!Join
  BY <1>15, <1>t DEF List!Join
<1>16. CASE List!CleanNode
  BY <1>16, <1>t DEF List!CleanNode
<1>17. CASE List!Return
  <2>1. Leads(Listed, 0, 0)
    BY <1>17 DEF LsInv, LsOrder, List!Return
  <2>2. Listed = {} /\ victim = 0
    BY <1>17, <1>t, <2>1 DEF List!Return, Leads, Listed, List!Nodes
  <2>3. freed = List!Nodes
    <3>1. ASSUME NEW x \in List!Nodes PROVE x \in freed
      BY <2>2 DEF Listed, List!Nodes
    <3> QED  BY <1>t, <3>1
  <2> QED  BY <1>17, <1>t, <2>3 DEF List!Return
<1>18. CASE List!SendInt
  BY <1>18, <1>t DEF List!SendInt
<1>19. CASE List!SendQuit
  BY <1>19, <1>t DEF List!SendQuit
<1>20. CASE UNCHANGED list
  BY <1>20, <1>t DEF list
<1> QED  BY LsCases, <1>1, <1>2, <1>3, <1>4, <1>5, <1>6, <1>7, <1>8, <1>9, <1>10, <1>11,
             <1>12, <1>13, <1>14, <1>15, <1>16, <1>17, <1>18, <1>19, <1>20

LEMMA LsCountStep ==
    ASSUME LsInv, [List!Next]_(List!vars)
    PROVE  LsCount'
<1> USE ListAssumption, ThreadsAssumption
    DEF List!Nil, List!Take, List!Give,
        List!listVars, List!mainVars, List!signalVars
<1>t. /\ LsPlaces /\ LsCount /\ List!TypeOK /\ K \in Nat /\ K # 0
      /\ listOwner \in [{"list", "stop"} -> {Sig, Main, Nobody}]
  BY DEF LsInv, List!TypeOK
\* Steps that change nothing the numbers speak of.
<1>q. ASSUME UNCHANGED <<freed, victim, k, version>>,
             listSig' = listSig \/ (listSig # "shorten" /\ listSig' # "shorten"),
             \/ listMain' = listMain /\ UNCHANGED <<cur, shown, walked>>
             \/ /\ listMain' # "print"
                /\ listMain \in {"clean", "over"} => listMain' \in {"clean", "over"}
      PROVE  LsCount'
  <2>1. Listed' = Listed /\ (List!Nodes \ freed)' = List!Nodes \ freed
    BY <1>q DEF Listed, List!Nodes
  <2>2. cur' = cur => Passed' = Passed
    BY <2>1 DEF Passed
  <2> QED  BY <1>q, <1>t, <2>1, <2>2 DEF LsCount
<1>1. CASE List!Sigwait
  BY <1>1, <1>q DEF List!Sigwait
<1>2. CASE List!SigLock
  BY <1>2, <1>q DEF List!SigLock
<1>3. CASE List!Free
  <2>1. listMain \notin {"print", "clean", "over"} /\ listMain' = listMain /\ k' = k
    BY <1>3, <1>t DEF List!Free, LsPlaces
  <2>2. /\ List!Nodes \ freed' = (List!Nodes \ freed) \ {victim}
        /\ victim \in List!Nodes \ freed
    BY <1>3, <1>t DEF List!Free, LsPlaces, List!TypeOK
  <2>3. IsFiniteSet(List!Nodes \ freed) /\ Cardinality(List!Nodes \ freed) \in Nat
    BY <1>t, LsNumbers
  <2>4. Cardinality(List!Nodes \ freed') = Cardinality(List!Nodes \ freed) - 1
    BY ONLY <2>2, <2>3, FS_RemoveElement
  <2>5. k = Cardinality(List!Nodes \ freed)
    BY <2>1, <2>3, <1>3, <1>t DEF LsCount, List!Free
  <2>6. (List!Nodes \ freed)' = List!Nodes \ freed' /\ listSig' = "shorten"
    BY <1>3 DEF List!Free, List!Nodes
  <2> QED  BY <2>1, <2>3, <2>4, <2>5, <2>6 DEF LsCount
<1>4. CASE List!Shorten
  <2>1. /\ listMain \notin {"print", "clean", "over"} /\ listMain' = listMain
        /\ freed' = freed /\ k' = k - 1 /\ listSig' = "unlock"
    BY <1>4, <1>t DEF List!Shorten, LsPlaces
  <2>2. Cardinality(List!Nodes \ freed) \in Nat
    BY <1>t, LsNumbers
  <2>3. k = Cardinality(List!Nodes \ freed) + 1
    BY <2>1, <1>4, <1>t DEF LsCount, List!Shorten
  <2>4. (List!Nodes \ freed)' = List!Nodes \ freed
    BY <2>1 DEF List!Nodes
  <2> QED  BY <2>1, <2>2, <2>3, <2>4 DEF LsCount
<1>5. CASE List!SigUnlock
  BY <1>5, <1>q DEF List!SigUnlock
<1>6. CASE List!SigLockStop
  BY <1>6, <1>q DEF List!SigLockStop
<1>7. CASE List!SigSetStop
  BY <1>7, <1>q DEF List!SigSetStop
<1>8. CASE List!SigUnlockStop
  BY <1>8, <1>q DEF List!SigUnlockStop
<1>9. CASE \E los \in 0 .. K - 1 : List!Unlink(los)
  <2>1. /\ listSig = "unlink" /\ listSig' = "free" /\ freed' = freed /\ k' = k
        /\ listMain' = listMain
    BY <1>9 DEF List!Unlink
  <2>2. listMain \notin {"print", "clean", "over"}
    BY <1>t, <2>1 DEF LsPlaces
  <2>3. (List!Nodes \ freed)' = List!Nodes \ freed
    BY <2>1 DEF List!Nodes
  <2> QED  BY <1>t, <2>1, <2>2, <2>3 DEF LsCount
<1>10. CASE List!MainAsk
  BY <1>10, <1>q DEF List!MainAsk
<1>11. CASE List!MainAnswer
  BY <1>11, <1>q DEF List!MainAnswer
<1>12. CASE List!MainLock
  <2>1. /\ listMain = "lock" /\ listMain' = "print" /\ cur' = head /\ walked' = 0
        /\ UNCHANGED <<freed, victim, k, version, listSig>> /\ listOwner["list"] = Nobody
        /\ shown' = IF version' = "sygnaly" THEN k' ELSE K
    BY <1>12 DEF List!MainLock, List!Length
  <2>2. Listed' = Listed /\ (List!Nodes \ freed)' = List!Nodes \ freed
    BY <2>1 DEF Listed, List!Nodes
  <2>3. Leads(Listed, 0, head) /\ Listed \subseteq 1 .. K
    BY <2>1 DEF LsInv, LsOrder, Listed, List!Nodes
  <2>4. cur' \in Listed' \cup {0}
    BY <2>1, <2>2, <2>3 DEF Leads
  <2>6. Passed' = {}
    <3>1. ASSUME NEW x \in Listed PROVE head # 0 /\ ~(x < head)
      <4>1. head # 0 /\ head <= x
        BY <2>3 DEF Leads
      <4> QED  BY <4>1, <2>3 DEF Leads
    <3> QED  BY <2>1, <2>2, <3>1 DEF Passed
  <2>5. Cardinality(Passed') = 0
    BY <2>6, FS_EmptySet
  <2> QED  BY <1>t, <2>1, <2>2, <2>4, <2>5 DEF LsCount
<1>13. CASE List!PrintNode
  <2>1. /\ listMain = "print" /\ walked' = walked + 1
        /\ UNCHANGED <<freed, victim, k, version, listSig, listMain, shown>>
    BY <1>13 DEF List!PrintNode
  <2>2. walked' = Cardinality(Passed')
    BY <1>13, <1>t, <2>1, LsPassed DEF LsCount
  <2>3. cur' \in (Listed \cup {0})'
    BY <1>13, LsPassed
  <2>4. (List!Nodes \ freed)' = List!Nodes \ freed
    BY <2>1 DEF List!Nodes
  <2> QED  BY <1>t, <2>1, <2>2, <2>3, <2>4 DEF LsCount
<1>14. CASE List!MainUnlock
  BY <1>14, <1>q DEF List!MainUnlock
<1>15. CASE List!Join
  <2>1. listMain' = "clean"
    BY <1>15 DEF List!Join
  <2> QED  BY <2>1 DEF LsCount
<1>16. CASE List!CleanNode
  <2>1. listMain' = "clean"
    BY <1>16 DEF List!CleanNode
  <2> QED  BY <2>1 DEF LsCount
<1>17. CASE List!Return
  <2>1. listMain' = "over"
    BY <1>17 DEF List!Return
  <2> QED  BY <2>1 DEF LsCount
<1>18. CASE List!SendInt
  BY <1>18, <1>q DEF List!SendInt
<1>19. CASE List!SendQuit
  BY <1>19, <1>q DEF List!SendQuit
<1>20. CASE UNCHANGED list
  BY <1>20, <1>q DEF list
<1> QED  BY LsCases, <1>1, <1>2, <1>3, <1>4, <1>5, <1>6, <1>7, <1>8, <1>9, <1>10, <1>11,
             <1>12, <1>13, <1>14, <1>15, <1>16, <1>17, <1>18, <1>19, <1>20

LEMMA LsStep ==
    ASSUME LsInv, [Next]_vars
    PROVE  LsInv'
BY ListMoves, LsType, LsOrderStep, LsPlacesStep, LsCountStep DEF LsInv

\* Every print shows the list as it is at one moment: as many nodes as the signal
\* thread counts, in their order.  The number above them is theirs in sygnaly.c; in
\* template.c it is the first length, too high by the nodes that are gone (main,
\* main_loop and start_routine).
THEOREM PrintsOneState == FairSpec => []OneState
<1>1. LsInv => OneState
  <2> USE ListAssumption, ThreadsAssumption DEF List!Nil
  <2> SUFFICES ASSUME LsInv PROVE List!OneState
    BY DEF OneState
  <2>1. /\ List!TypeOK /\ IsFiniteSet(List!Nodes) /\ Cardinality(List!Nodes) = K /\ K \in Nat
        /\ freed \in SUBSET List!Nodes
        /\ \A S \in SUBSET List!Nodes : IsFiniteSet(S) /\ Cardinality(S) \in 0 .. K
    BY LsNumbers DEF LsInv, List!TypeOK
  <2>2. \A S : List!Cardinality(S) = Cardinality(S)
    BY DEF List!Cardinality, Cardinality
  <2>3. ASSUME listOwner["list"] # Sig, listMain \notin {"clean", "over"}
        PROVE  Cardinality(List!Nodes \ freed) = k
    <3>1. listSig # "shorten"
      BY <2>3 DEF LsInv, LsPlaces
    <3>2. k = Cardinality(List!Nodes \ freed) + 0 /\ Cardinality(List!Nodes \ freed) \in Nat
      BY <2>1, <2>3, <3>1 DEF LsInv, LsCount
    <3> QED  BY <3>2
  <2>4. ASSUME listMain = "print", cur = 0
        PROVE  /\ walked = k
               /\ shown = IF version = "sygnaly" THEN walked
                          ELSE walked + Cardinality(freed)
    <3>1. listOwner["list"] = Main /\ listOwner["list"] # Sig /\ victim = 0
      BY <2>4 DEF LsInv, LsPlaces
    <3>2. Passed = List!Nodes \ freed
      BY <2>4, <3>1 DEF Passed, Listed, List!Nodes
    <3>3. walked = k
      BY <2>3, <2>4, <3>1, <3>2 DEF LsInv, LsCount
    <3>4. Cardinality(List!Nodes \ freed) + Cardinality(freed) = K
      <4>1. (List!Nodes \ freed) \cup freed = List!Nodes /\ (List!Nodes \ freed) \cap freed = {}
        BY <2>1
      <4>2. IsFiniteSet(List!Nodes \ freed) /\ Cardinality(List!Nodes \ freed) \in 0 .. K
        BY <2>1
      <4>3. IsFiniteSet(freed) /\ Cardinality(freed) \in 0 .. K
        BY <2>1
      <4>4. Cardinality((List!Nodes \ freed) \cup freed)
              = Cardinality(List!Nodes \ freed) + Cardinality(freed)
                - Cardinality((List!Nodes \ freed) \cap freed)
        BY ONLY <4>2, <4>3, FS_Union
      <4>5. Cardinality((List!Nodes \ freed) \cap freed) = 0
        BY ONLY <4>1, FS_EmptySet
      <4> QED  BY ONLY <2>1, <4>1, <4>2, <4>3, <4>4, <4>5
    <3>5. shown = IF version = "sygnaly" THEN k ELSE K
      BY <2>4 DEF LsInv, LsCount
    <3>6. walked = Cardinality(List!Nodes \ freed)
      BY <2>4, <3>2 DEF LsInv, LsCount
    <3> QED  BY <3>3, <3>4, <3>5, <3>6
  <2>5. ASSUME listMain = "print", cur # 0
        PROVE  next[cur] = 0 \/ next[cur] > cur
    <3>1. cur \in Listed /\ Leads(Listed, cur, next[cur]) /\ cur \in Nat
      BY <2>5 DEF LsInv, LsCount, LsOrder, Listed, List!Nodes
    <3>2. next[cur] \in Listed \cup {0} /\ (next[cur] # 0 => cur < next[cur])
      BY <3>1 DEF Leads
    <3> QED  BY <3>1, <3>2 DEF Listed, List!Nodes
  <2> QED  BY <2>1, <2>2, <2>3, <2>4, <2>5 DEF List!OneState
<1> QED  BY <1>1, LsInit, LsStep, PTL DEF FairSpec

(***************************************************************************)
(* Porters: the salt and its mutexes (robole.c, l4_template.c).            *)
(***************************************************************************)

\* Who has which mutex.
PtMutexes ==
    /\ plotOwner["kon"] = Sig <=> spc \in {"set", "unlock"}
    /\ plotOwner["kon"] = Main <=> mainpc = "answer"
    /\ \A w \in Threads : plotOwner["kon"] = w <=> wpc[w] = "answer"
    /\ \A p \in Plots : plotOwner[p] \in Threads \cup {Nobody}
    /\ \A p \in Plots : \A w \in Threads :
           plotOwner[p] = w <=> wpc[w] \in {"load", "store"} /\ plot[w] = p

\* The salt that a porter has seen is what lies there until it adds its own.
PtSalt ==
    /\ dzialki = strewn
    /\ \A w \in Threads : wpc[w] = "store" => reg[w] = dzialki[plot[w]]

\* What main has released nobody comes back to.
PtEnds ==
    /\ \A w \in Threads : wpc[w] = "unborn" => mainpc = "create"
    /\ \A w \in Threads \cap released : wpc[w] = "gone"
    /\ working = 0 => spc \in {"unlock", "gone"}
    /\ mainpc \in {"join", "release", "return", "over"} =>
          (porter = "robole" => spc = "gone")
    /\ mainpc \in {"release", "return", "over"} => Threads \subseteq released
    /\ \A m \in Salt!Mutexes \cap released : mainpc \in {"return", "over"}

PtInv == Salt!TypeOK /\ PtMutexes /\ PtSalt /\ PtEnds

LEMMA PtCases ==
    ASSUME [Salt!Next]_(Salt!vars)
    PROVE  \/ \E w \in Threads : Salt!Create(w)
           \/ \E w \in Threads : Salt!Sleep(w)
           \/ \E w \in Threads : Salt!Ask(w)
           \/ \E w \in Threads : Salt!Answer(w)
           \/ \E w \in Threads : Salt!Lock(w)
           \/ \E w \in Threads : Salt!Load(w)
           \/ \E w \in Threads : Salt!Store(w)
           \/ \E w \in Threads : Salt!Join(w)
           \/ Salt!Sigwait \/ Salt!SigLock \/ Salt!SigSet \/ Salt!SigUnlock
           \/ Salt!MainAsk \/ Salt!MainAnswer \/ Salt!Release \/ Salt!Return
           \/ Salt!SendInt \/ UNCHANGED porters
BY DEF Salt!Next, Salt!WorkerStep, Salt!SigStep, Salt!MainStep, porters, Salt!vars,
    Salt!porterVars, Salt!signalVars

LEMMA PtInit ==
    ASSUME Init
    PROVE  PtInv
<1> USE SaltAssumption, ThreadsAssumption DEF Init, Salt!Init, Salt!Mutexes
<1>1. Salt!TypeOK
  <2>1. 0 \in 0 .. Window - 1
    OBVIOUS
  <2>2. plot \in [Threads -> Plots]
    <3>1. (CHOOSE p \in Plots : TRUE) \in Plots
      OBVIOUS
    <3> QED  BY <3>1
  <2>3. /\ dzialki \in [Plots -> 0 .. Window - 1] /\ strewn \in [Plots -> 0 .. Window - 1]
        /\ reg \in [Threads -> 0 .. Window - 1]
    BY <2>1
  <2>4. /\ plotOwner \in [Salt!Mutexes -> Threads \cup {Sig, Main, Nobody}]
        /\ wpc \in [Threads -> {"unborn", "sleep", "ask", "answer", "lock", "load", "store",
                                "gone"}]
    OBVIOUS
  <2> QED  BY <2>2, <2>3, <2>4 DEF Salt!TypeOK
<1>2. PtMutexes
  BY DEF PtMutexes
<1>3. PtSalt /\ PtEnds
  BY DEF PtSalt, PtEnds
<1> QED  BY <1>1, <1>2, <1>3 DEF PtInv

LEMMA PtType ==
    ASSUME PtInv, [Salt!Next]_(Salt!vars)
    PROVE  Salt!TypeOK'
<1> USE SaltAssumption, ThreadsAssumption
    DEF Salt!TypeOK, Salt!Mutexes, Salt!Goto, Salt!Take, Salt!Give, Salt!Alive,
        Salt!porterVars, Salt!signalVars
<1>t. Salt!TypeOK
  BY DEF PtInv
<1>1. CASE \E w \in Threads : Salt!Create(w)
  BY <1>1, <1>t DEF Salt!Create
<1>2. CASE \E w \in Threads : Salt!Sleep(w)
  BY <1>2, <1>t DEF Salt!Sleep
<1>3. CASE \E w \in Threads : Salt!Ask(w)
  BY <1>3, <1>t DEF Salt!Ask
<1>4. CASE \E w \in Threads : Salt!Answer(w)
  BY <1>4, <1>t DEF Salt!Answer
<1>5. CASE \E w \in Threads : Salt!Lock(w)
  BY <1>5, <1>t DEF Salt!Lock
<1>6. CASE \E w \in Threads : Salt!Load(w)
  BY <1>6, <1>t DEF Salt!Load
<1>7. CASE \E w \in Threads : Salt!Store(w)
  BY <1>7, <1>t DEF Salt!Store
<1>8. CASE \E w \in Threads : Salt!Join(w)
  BY <1>8, <1>t DEF Salt!Join
<1>9. CASE Salt!Sigwait
  BY <1>9, <1>t DEF Salt!Sigwait
<1>10. CASE Salt!SigLock
  BY <1>10, <1>t DEF Salt!SigLock
<1>11. CASE Salt!SigSet
  BY <1>11, <1>t DEF Salt!SigSet
<1>12. CASE Salt!SigUnlock
  BY <1>12, <1>t DEF Salt!SigUnlock
<1>13. CASE Salt!MainAsk
  BY <1>13, <1>t DEF Salt!MainAsk
<1>14. CASE Salt!MainAnswer
  BY <1>14, <1>t DEF Salt!MainAnswer
<1>15. CASE Salt!Release
  BY <1>15, <1>t DEF Salt!Release
<1>16. CASE Salt!Return
  BY <1>16, <1>t DEF Salt!Return
<1>17. CASE Salt!SendInt
  BY <1>17, <1>t DEF Salt!SendInt
<1>18. CASE UNCHANGED porters
  BY <1>18, <1>t DEF porters
<1> QED  BY PtCases, <1>1, <1>2, <1>3, <1>4, <1>5, <1>6, <1>7, <1>8, <1>9,
             <1>10, <1>11, <1>12, <1>13, <1>14, <1>15, <1>16, <1>17, <1>18

LEMMA PtMutexesStep ==
    ASSUME PtInv, [Salt!Next]_(Salt!vars)
    PROVE  PtMutexes'
<1> USE SaltAssumption, ThreadsAssumption
    DEF PtMutexes, Salt!Mutexes, Salt!Goto, Salt!Take, Salt!Give, Salt!Alive,
        Salt!porterVars, Salt!signalVars
<1>t. /\ PtMutexes /\ plotOwner \in [Salt!Mutexes -> Threads \cup {Sig, Main, Nobody}]
      /\ wpc \in [Threads -> {"unborn", "sleep", "ask", "answer", "lock", "load", "store", "gone"}]
      /\ plot \in [Threads -> Plots]
  BY DEF PtInv, Salt!TypeOK
<1>1. CASE \E w \in Threads : Salt!Create(w)
  BY <1>1, <1>t DEF Salt!Create
<1>2. CASE \E w \in Threads : Salt!Sleep(w)
  BY <1>2, <1>t DEF Salt!Sleep
<1>3. CASE \E w \in Threads : Salt!Ask(w)
  BY <1>3, <1>t DEF Salt!Ask
<1>4. CASE \E w \in Threads : Salt!Answer(w)
  BY <1>4, <1>t DEF Salt!Answer
<1>5. CASE \E w \in Threads : Salt!Lock(w)
  BY <1>5, <1>t DEF Salt!Lock
<1>6. CASE \E w \in Threads : Salt!Load(w)
  BY <1>6, <1>t DEF Salt!Load
<1>7. CASE \E w \in Threads : Salt!Store(w)
  BY <1>7, <1>t DEF Salt!Store
<1>8. CASE \E w \in Threads : Salt!Join(w)
  BY <1>8, <1>t DEF Salt!Join
<1>9. CASE Salt!Sigwait
  BY <1>9, <1>t DEF Salt!Sigwait
<1>10. CASE Salt!SigLock
  BY <1>10, <1>t DEF Salt!SigLock
<1>11. CASE Salt!SigSet
  BY <1>11, <1>t DEF Salt!SigSet
<1>12. CASE Salt!SigUnlock
  BY <1>12, <1>t DEF Salt!SigUnlock
<1>13. CASE Salt!MainAsk
  BY <1>13, <1>t DEF Salt!MainAsk
<1>14. CASE Salt!MainAnswer
  BY <1>14, <1>t DEF Salt!MainAnswer
<1>15. CASE Salt!Release
  BY <1>15, <1>t DEF Salt!Release
<1>16. CASE Salt!Return
  BY <1>16, <1>t DEF Salt!Return
<1>17. CASE Salt!SendInt
  BY <1>17, <1>t DEF Salt!SendInt
<1>18. CASE UNCHANGED porters
  BY <1>18, <1>t DEF porters
<1> QED  BY PtCases, <1>1, <1>2, <1>3, <1>4, <1>5, <1>6, <1>7, <1>8, <1>9,
             <1>10, <1>11, <1>12, <1>13, <1>14, <1>15, <1>16, <1>17, <1>18

LEMMA PtSaltStep ==
    ASSUME PtInv, [Salt!Next]_(Salt!vars)
    PROVE  PtSalt'
<1> USE SaltAssumption, ThreadsAssumption
    DEF PtSalt, Salt!Mutexes, Salt!Goto, Salt!Take, Salt!Give, Salt!Alive,
        Salt!porterVars, Salt!signalVars
<1>t. /\ PtSalt /\ PtMutexes
      /\ dzialki \in [Plots -> 0 .. Window - 1] /\ reg \in [Threads -> 0 .. Window - 1]
      /\ wpc \in [Threads -> {"unborn", "sleep", "ask", "answer", "lock", "load", "store", "gone"}]
      /\ plot \in [Threads -> Plots]
  BY DEF PtInv, Salt!TypeOK
<1>1. CASE \E w \in Threads : Salt!Create(w)
  BY <1>1, <1>t DEF Salt!Create
<1>2. CASE \E w \in Threads : Salt!Sleep(w)
  BY <1>2, <1>t DEF Salt!Sleep
<1>3. CASE \E w \in Threads : Salt!Ask(w)
  BY <1>3, <1>t DEF Salt!Ask
<1>4. CASE \E w \in Threads : Salt!Answer(w)
  BY <1>4, <1>t DEF Salt!Answer
<1>5. CASE \E w \in Threads : Salt!Lock(w)
  BY <1>5, <1>t DEF Salt!Lock
<1>6. CASE \E w \in Threads : Salt!Load(w)
  BY <1>6, <1>t DEF Salt!Load
<1>7. CASE \E w \in Threads : Salt!Store(w)
  <2>1. PICK w \in Threads : Salt!Store(w)
    BY <1>7
  <2>2. /\ wpc[w] = "store" /\ wpc' = [wpc EXCEPT ![w] = "ask"]
        /\ dzialki' = [dzialki EXCEPT ![plot[w]] = (reg[w] + 1) % Window]
        /\ strewn' = [strewn EXCEPT ![plot[w]] = (strewn[plot[w]] + 1) % Window]
        /\ reg' = [reg EXCEPT ![w] = 0] /\ plot' = plot
    BY <2>1 DEF Salt!Store
  <2>3. dzialki' = strewn'
    BY <1>t, <2>2
  <2>4. ASSUME NEW v \in Threads, wpc'[v] = "store" PROVE reg'[v] = dzialki'[plot'[v]]
    <3>1. v # w /\ wpc[v] = "store" /\ reg'[v] = reg[v]
      BY <1>t, <2>2, <2>4
    <3>2. plot[v] # plot[w]
      BY <1>t, <2>2, <3>1 DEF PtMutexes
    <3>3. plot[v] \in Plots /\ plot[w] \in Plots
      BY <1>t
    <3>4. dzialki'[plot[v]] = dzialki[plot[v]]
      BY <1>t, <2>2, <3>2, <3>3
    <3> QED  BY <1>t, <2>2, <3>1, <3>4
  <2> QED  BY <2>3, <2>4
<1>8. CASE \E w \in Threads : Salt!Join(w)
  BY <1>8, <1>t DEF Salt!Join
<1>9. CASE Salt!Sigwait
  BY <1>9, <1>t DEF Salt!Sigwait
<1>10. CASE Salt!SigLock
  BY <1>10, <1>t DEF Salt!SigLock
<1>11. CASE Salt!SigSet
  BY <1>11, <1>t DEF Salt!SigSet
<1>12. CASE Salt!SigUnlock
  BY <1>12, <1>t DEF Salt!SigUnlock
<1>13. CASE Salt!MainAsk
  BY <1>13, <1>t DEF Salt!MainAsk
<1>14. CASE Salt!MainAnswer
  BY <1>14, <1>t DEF Salt!MainAnswer
<1>15. CASE Salt!Release
  BY <1>15, <1>t DEF Salt!Release
<1>16. CASE Salt!Return
  BY <1>16, <1>t DEF Salt!Return
<1>17. CASE Salt!SendInt
  BY <1>17, <1>t DEF Salt!SendInt
<1>18. CASE UNCHANGED porters
  BY <1>18, <1>t DEF porters
<1> QED  BY PtCases, <1>1, <1>2, <1>3, <1>4, <1>5, <1>6, <1>7, <1>8, <1>9,
             <1>10, <1>11, <1>12, <1>13, <1>14, <1>15, <1>16, <1>17, <1>18

LEMMA PtEndsStep ==
    ASSUME PtInv, [Salt!Next]_(Salt!vars)
    PROVE  PtEnds'
<1> USE SaltAssumption, ThreadsAssumption
    DEF PtEnds, Salt!Mutexes, Salt!Goto, Salt!Take, Salt!Give, Salt!Alive,
        Salt!porterVars, Salt!signalVars
<1>t. /\ PtEnds /\ PtMutexes
      /\ working \in {0, 1} /\ porter \in {"robole", "l4_template"}
      /\ wpc \in [Threads -> {"unborn", "sleep", "ask", "answer", "lock", "load", "store", "gone"}]
      /\ released \subseteq Salt!Mutexes \cup Threads \cup {Sig}
  BY DEF PtInv, Salt!TypeOK
<1>1. CASE \E w \in Threads : Salt!Create(w)
  BY <1>1, <1>t DEF Salt!Create
<1>2. CASE \E w \in Threads : Salt!Sleep(w)
  BY <1>2, <1>t DEF Salt!Sleep
<1>3. CASE \E w \in Threads : Salt!Ask(w)
  BY <1>3, <1>t DEF Salt!Ask
<1>4. CASE \E w \in Threads : Salt!Answer(w)
  BY <1>4, <1>t DEF Salt!Answer
<1>5. CASE \E w \in Threads : Salt!Lock(w)
  BY <1>5, <1>t DEF Salt!Lock
<1>6. CASE \E w \in Threads : Salt!Load(w)
  BY <1>6, <1>t DEF Salt!Load
<1>7. CASE \E w \in Threads : Salt!Store(w)
  BY <1>7, <1>t DEF Salt!Store
<1>8. CASE \E w \in Threads : Salt!Join(w)
  BY <1>8, <1>t DEF Salt!Join
<1>9. CASE Salt!Sigwait
  BY <1>9, <1>t DEF Salt!Sigwait
<1>10. CASE Salt!SigLock
  BY <1>10, <1>t DEF Salt!SigLock
<1>11. CASE Salt!SigSet
  BY <1>11, <1>t DEF Salt!SigSet
<1>12. CASE Salt!SigUnlock
  BY <1>12, <1>t DEF Salt!SigUnlock
<1>13. CASE Salt!MainAsk
  BY <1>13, <1>t DEF Salt!MainAsk
<1>14. CASE Salt!MainAnswer
  <2>1. /\ mainpc = "answer" /\ mainpc' = IF working = 0 THEN "join" ELSE "ask"
        /\ UNCHANGED <<porter, working, wpc, spc, released>>
    BY <1>14 DEF Salt!MainAnswer
  <2>2. working = 0 => spc = "gone"
    BY <1>t, <2>1 DEF PtMutexes
  <2> QED  BY <1>t, <2>1, <2>2
<1>15. CASE Salt!Release
  BY <1>15, <1>t DEF Salt!Release
<1>16. CASE Salt!Return
  BY <1>16, <1>t DEF Salt!Return
<1>17. CASE Salt!SendInt
  BY <1>17, <1>t DEF Salt!SendInt
<1>18. CASE UNCHANGED porters
  BY <1>18, <1>t DEF porters
<1> QED  BY PtCases, <1>1, <1>2, <1>3, <1>4, <1>5, <1>6, <1>7, <1>8, <1>9,
             <1>10, <1>11, <1>12, <1>13, <1>14, <1>15, <1>16, <1>17, <1>18

LEMMA PtStep ==
    ASSUME PtInv, [Next]_vars
    PROVE  PtInv'
BY SaltMoves, PtType, PtMutexesStep, PtSaltStep, PtEndsStep DEF PtInv

\* What main has freed or destroyed nobody uses or holds.
LEMMA PtUnused ==
    ASSUME PtInv
    PROVE  Salt!NothingUsedAfterRelease
<1> USE SaltAssumption, ThreadsAssumption DEF PtInv, PtEnds, Salt!Mutexes
<1> SUFFICES ASSUME porter = "robole" PROVE Salt!NothingUsedAfterRelease
  BY DEF Salt!NothingUsedAfterRelease
<1>1. ASSUME NEW w \in Threads, wpc[w] \notin {"unborn", "gone"}
      PROVE  Salt!UsedBy(w) \cap released = {}
  <2>1. w \notin released /\ mainpc \notin {"return", "over"}
    BY <1>1
  <2>2. Salt!UsedBy(w) \subseteq {w} \cup Salt!Mutexes
    BY DEF Salt!UsedBy, Salt!TypeOK
  <2> QED  BY <2>1, <2>2
<1>2. spc \in {"lock", "set", "unlock"} => "kon" \notin released
  OBVIOUS
<1>3. ASSUME NEW m \in Salt!Mutexes \cap released PROVE plotOwner[m] = Nobody
  <2>1. mainpc \in {"return", "over"} /\ spc = "gone" /\ \A w \in Threads : wpc[w] = "gone"
    BY <1>3
  <2>2. CASE m = "kon"
    <3>1. plotOwner["kon"] \in Threads \cup {Sig, Main, Nobody}
      BY DEF Salt!TypeOK
    <3> QED  BY <2>1, <2>2, <3>1 DEF PtMutexes
  <2>3. CASE m \in Plots
    BY <2>1, <2>3 DEF PtMutexes
  <2> QED  BY <2>2, <2>3
<1> QED  BY <1>1, <1>2, <1>3 DEF Salt!NothingUsedAfterRelease

\* No node of the list is touched or freed after it has been freed.
LEMMA LsUnused ==
    ASSUME LsInv
    PROVE  List!NothingDangling
<1> USE ListAssumption DEF LsInv, List!Nil
<1>1. freed \subseteq List!Nodes /\ 0 \notin List!Nodes
  BY DEF List!TypeOK, List!Nodes
<1>2. listMain \in {"print", "clean"} => cur \notin freed
  <2>1. CASE listMain = "print"
    BY <1>1, <2>1 DEF LsCount, Listed
  <2>2. CASE listMain = "clean"
    BY <1>1, <2>2 DEF LsOrder, Leads, Listed
  <2> QED  BY <2>1, <2>2
<1>3. listSig = "free" => victim \notin freed /\ victim # 0
  BY DEF LsPlaces
<1>4. ASSUME listSig = "unlink", ~List!Empty, NEW los \in 0 .. k - 1
      PROVE  List!Nth[los] \in List!Nodes \ freed
  BY <1>4, Drawn DEF Listed
<1>5. listMain = "over" => freed = List!Nodes /\ listSig = "gone"
  BY DEF LsPlaces
<1> QED  BY <1>2, <1>3, <1>4, <1>5 DEF List!NothingDangling

\* Nothing is used after it has been freed or destroyed: no mutex of robole.c, no
\* node of the list (the ends of their mains).
THEOREM NothingIsUsedAfterFree == FairSpec => []NothingUsedAfterFree
<1>1. LsInv /\ PtInv => NothingUsedAfterFree
  BY LsUnused, PtUnused DEF NothingUsedAfterFree
<1> QED  BY <1>1, LsInit, LsStep, PtInit, PtStep, PTL DEF FairSpec

(***************************************************************************)
(* BeanMachine: the balls (mutex.c).                                       *)
(***************************************************************************)

\* Who has which mutex; who has the last one nobody knows when it admits everybody.
BmMutexes ==
    /\ \A c \in Beans!Cells : ~Beans!Lets(c) =>
           \A t \in Threads : beanOwner[c] = t <=> at[t] = c /\ doing[t] # "lock"
    /\ \A c \in Beans!Cells : beanOwner[c] = Main <=>
           c = "ballsT" /\ beanMain \in {"look", "print", "done"}
    /\ \A t \in Threads : at[t] \in {"unborn", "gone"} => doing[t] = "lock"

\* The balls on their way from a bin to the counter of those thrown.
Thrown == {t \in Threads : at[t] = "ballsT"}
Landed == cell["ballsT"] + Cardinality(Thrown)

\* What has come to lie in the last bin.
InLast == Landed - Beans!Total(cell) + cell[LastBin]

\* The value a thread has loaded is that of the counter, until it stores; one that
\* should have waited at the last bin has seen no more balls than have come.
BmReg(t) ==
    /\ at[t] \in Beans!Cells
    /\ ~Beans!Lets(at[t]) => beanReg[t] = cell[at[t]]
    /\ Beans!Lets(at[t]) => beanReg[t] <= InLast
    /\ at[t] = "ballsW" => beanReg[t] # 0
BmRegs == \A t \in Threads : doing[t] = "store" => BmReg(t)

\* Every ball waits, falls, has landed or is thrown.
BmBalls == cell["ballsW"] + Cardinality(Beans!Falling) + Landed = Balls

\* The bins hold what has landed, or less if the last one lets everybody in.
BmBins ==
    /\ cell[LastBin] <= InLast
    /\ garbage # "admits" => cell[LastBin] = InLast

\* main prints when all have been thrown.
BmPrint ==
    /\ beanMain \in {"print", "done"} => cell["ballsT"] = Balls
    /\ beanMain \notin {"print", "done"} => \A b \in Bins : printed[b] = -1
    /\ \A b \in Bins : printed[b] \in {-1, cell[b]}
    /\ beanMain = "done" => \A b \in Bins : printed[b] # -1

BmInv == Beans!TypeOK /\ BmMutexes /\ BmRegs /\ BmBalls /\ BmBins /\ BmPrint

\* A sum over a finite set, element by element.
IntOn(f, B) == \A x \in B : f[x] \in Int
First(S) == CHOOSE x \in S : TRUE
IsSum(g, f, B) ==
    /\ g \in [SUBSET B -> Int]
    /\ \A S \in SUBSET B : g[S] = IF S = {} THEN 0 ELSE f[First(S)] + g[S \ {First(S)}]

LEMMA SumExists ==
    ASSUME NEW B, IsFiniteSet(B), NEW f, IntOn(f, B)
    PROVE  \E g : IsSum(g, f, B)
<1> DEFINE Small(m) == {S \in SUBSET B : Cardinality(S) <= m}
           Good(g, m) == /\ g \in [Small(m) -> Int]
                         /\ \A S \in Small(m) :
                                g[S] = IF S = {} THEN 0 ELSE f[First(S)] + g[S \ {First(S)}]
           R == OpToRel(<, Nat)
           Bad == {m \in Nat : ~ \E g : Good(g, m)}
<1>1. \A S \in SUBSET B : S # {} => First(S) \in S /\ f[First(S)] \in Int
  BY DEF First, IntOn
<1>2. \A S \in SUBSET B : IsFiniteSet(S) /\ Cardinality(S) \in Nat
  BY FS_Subset, FS_CardinalityType
<1>3. ASSUME NEW S \in SUBSET B, S # {}
      PROVE  S \ {First(S)} \in SUBSET B /\ Cardinality(S \ {First(S)}) = Cardinality(S) - 1
  BY <1>1, <1>2, <1>3, FS_RemoveElement
<1>4. ASSUME NEW m \in Bad PROVE \E l \in Bad : <<l, m>> \in R
  <2>1. m \in Nat /\ ~ \E g : Good(g, m)
    OBVIOUS
  <2>2. m # 0
    <3> SUFFICES ASSUME m = 0 PROVE FALSE
      OBVIOUS
    <3>1. Small(0) = {{}}
      <4>1. \A S \in SUBSET B : Cardinality(S) <= 0 <=> S = {}
        BY <1>2, FS_EmptySet
      <4> QED  BY <4>1
    <3>2. Good([S \in Small(0) |-> 0], 0)
      <4> HIDE DEF Small
      <4> QED  BY <3>1
    <3> HIDE DEF Good
    <3> QED  BY <3>2, <2>1
  <2>3. ASSUME NEW g, Good(g, m - 1) PROVE FALSE
    <3> HIDE DEF Bad
    <3> DEFINE h == [S \in Small(m) |-> IF S = {} THEN 0 ELSE f[First(S)] + g[S \ {First(S)}]]
    <3>1. \A S \in Small(m - 1) : S \in Small(m) /\ g[S] \in Int
      BY <1>2, <2>1, <2>2, <2>3
    <3>2. \A S \in Small(m) : S # {} => S \ {First(S)} \in Small(m - 1)
      BY <1>2, <1>3, <2>1
    <3>3. \A S \in Small(m) : S # {} => f[First(S)] \in Int
      BY <1>1
    <3>4. \A S \in Small(m - 1) :
              g[S] = IF S = {} THEN 0 ELSE f[First(S)] + g[S \ {First(S)}]
      BY <2>3
    <3> HIDE DEF Small
    <3>5. h \in [Small(m) -> Int]
      <4>1. ASSUME NEW S \in Small(m), S # {} PROVE f[First(S)] + g[S \ {First(S)}] \in Int
        BY <3>1, <3>2, <3>3, <4>1
      <4> QED  BY <4>1
    <3>6. \A S \in Small(m) : h[S] = IF S = {} THEN 0 ELSE f[First(S)] + g[S \ {First(S)}]
      OBVIOUS
    <3> HIDE DEF h
    <3>7. \A S \in Small(m - 1) : h[S] = g[S]
      BY <3>1, <3>4, <3>6
    <3>8. Good(h, m)
      BY <3>2, <3>5, <3>6, <3>7
    <3> HIDE DEF Good
    <3> QED  BY <3>8, <2>1
  <2> HIDE DEF Good
  <2>4. m - 1 \in Bad
    BY <2>1, <2>2, <2>3
  <2>5. <<m - 1, m>> \in R
    BY <2>1, <2>2 DEF OpToRel
  <2> QED  BY <2>4, <2>5
<1>5. Bad = {}
  <2>1. IsWellFoundedOn(R, Nat)
    BY NatLessThanWellFounded
  <2>2. Bad \subseteq Nat
    OBVIOUS
  <2> HIDE DEF R, Bad
  <2> QED  BY <1>4, <2>1, <2>2, WFMin
<1>6. PICK g : Good(g, Cardinality(B))
  <2>1. Cardinality(B) \in Nat
    BY FS_CardinalityType
  <2> HIDE DEF Good
  <2> QED  BY <1>5, <2>1
<1>7. Small(Cardinality(B)) = SUBSET B
  BY <1>2, FS_Subset
<1> QED  BY <1>6, <1>7 DEF IsSum

\* Of some sets of bins one is without a smaller one among them.
LEMMA SubsetsWellFounded ==
    ASSUME NEW Bad \in SUBSET SUBSET Bins,
           \A S \in Bad : \E T \in Bad : <<T, S>> \in StrictSubsetOrdering(Bins)
    PROVE  Bad = {}
<1>1. IsWellFoundedOn(StrictSubsetOrdering(Bins), FiniteSubsetsOf(Bins))
  BY FS_StrictSubsetOrderingWellFounded
<1>2. FiniteSubsetsOf(Bins) = SUBSET Bins
  BY FS_FiniteSubsetsOfFinite, BeansAssumption
<1>3. IsWellFoundedOn(StrictSubsetOrdering(Bins), SUBSET Bins)
  BY <1>1, <1>2
<1>4. ASSUME Bad # {} PROVE FALSE
  <2>1. PICK S \in Bad : \A T \in Bad : ~(<<T, S>> \in StrictSubsetOrdering(Bins))
    BY <1>3, <1>4, WFMin
  <2> QED  BY <2>1
<1> QED  BY <1>4

LEMMA TotalIs ==
    ASSUME NEW f, IntOn(f, Bins)
    PROVE  \E g : IsSum(g, f, Bins) /\ Beans!Total(f) = g[Bins]
<1> DEFINE Step(g) == [S \in SUBSET Bins |->
                          IF S = {} THEN 0 ELSE f[First(S)] + g[S \ {First(S)}]]
           F == CHOOSE F : F = Step(F)
<1>1. PICK g : IsSum(g, f, Bins)
  BY SumExists, BeansAssumption
<1>2. g = Step(g)
  BY <1>1 DEF IsSum
<1>3. F = Step(F)
  BY <1>2
<1>4. Beans!Total(f) = F[Bins]
  BY DEF Beans!Total, Beans!FoldFunctionOnSet, Beans!MapThenFoldSet, First
<1>5. \A S \in SUBSET Bins :
          /\ F[S] = IF S = {} THEN 0 ELSE f[First(S)] + F[S \ {First(S)}]
          /\ g[S] = IF S = {} THEN 0 ELSE f[First(S)] + g[S \ {First(S)}]
  BY <1>2, <1>3
<1> HIDE DEF F
<1> DEFINE Bad == {S \in SUBSET Bins : F[S] # g[S]}
<1>6. ASSUME NEW S \in Bad PROVE \E T \in Bad : <<T, S>> \in StrictSubsetOrdering(Bins)
  <2>1. S # {} /\ First(S) \in S
    BY <1>5 DEF First
  <2>2. S \ {First(S)} \in Bad
    BY <1>5, <2>1
  <2>3. <<S \ {First(S)}, S>> \in StrictSubsetOrdering(Bins)
    BY <2>1, <2>2 DEF StrictSubsetOrdering
  <2> QED  BY <2>2, <2>3
<1>7. Bad = {}
  <2> HIDE DEF Bad
  <2>1. Bad \in SUBSET SUBSET Bins
    BY DEF Bad
  <2> QED  BY <1>6, <2>1, SubsetsWellFounded
<1>8. F[Bins] = g[Bins]
  BY <1>7
<1> QED  BY <1>1, <1>4, <1>8

\* A change of one bin changes the total by as much.
LEMMA TotalChanges ==
    ASSUME NEW f, NEW g, IntOn(f, Bins), IntOn(g, Bins), NEW b \in Bins,
           \A x \in Bins \ {b} : g[x] = f[x]
    PROVE  Beans!Total(f) \in Int /\ Beans!Total(g) = Beans!Total(f) - f[b] + g[b]
<1>1. PICK F : IsSum(F, f, Bins) /\ Beans!Total(f) = F[Bins]
  BY TotalIs
<1>2. PICK G : IsSum(G, g, Bins) /\ Beans!Total(g) = G[Bins]
  BY TotalIs
<1> DEFINE Same(S) == G[S] = F[S] + (IF b \in S THEN g[b] - f[b] ELSE 0)
           Bad == {S \in SUBSET Bins : ~Same(S)}
<1>3. \A S \in SUBSET Bins : F[S] \in Int /\ G[S] \in Int
  BY <1>1, <1>2 DEF IsSum
<1>4. \A x \in Bins : f[x] \in Int /\ g[x] \in Int
  BY DEF IntOn
<1>5. ASSUME NEW S \in SUBSET Bins, S # {}
      PROVE  /\ F[S] = f[First(S)] + F[S \ {First(S)}]
             /\ G[S] = g[First(S)] + G[S \ {First(S)}]
  BY <1>1, <1>2, <1>5 DEF IsSum
<1>6. ASSUME NEW S \in Bad PROVE \E T \in Bad : <<T, S>> \in StrictSubsetOrdering(Bins)
  <2> DEFINE x == First(S)
             T == S \ {x}
  <2>1. S # {}
    <3>1. F[{}] = 0 /\ G[{}] = 0
      BY <1>1, <1>2 DEF IsSum
    <3> QED  BY <3>1
  <2>2. x \in S /\ x \in Bins
    BY <2>1 DEF First
  <2>3. T \in SUBSET Bins /\ <<T, S>> \in StrictSubsetOrdering(Bins)
    BY <2>2 DEF StrictSubsetOrdering
  <2>4. ASSUME Same(T) PROVE FALSE
    <3>1. F[S] = f[x] + F[T] /\ G[S] = g[x] + G[T]
      BY <1>5, <2>1
    <3>2. F[T] \in Int /\ G[T] \in Int /\ f[x] \in Int /\ g[x] \in Int
          /\ f[b] \in Int /\ g[b] \in Int
      BY <1>3, <1>4, <2>2, <2>3
    <3>3. CASE x = b
      <4>1. b \in S /\ b \notin T
        BY <2>2, <3>3
      <4>2. G[T] = F[T] + 0
        BY <2>4, <4>1
      <4>3. G[S] = F[S] + (g[b] - f[b])
        BY <3>1, <3>2, <3>3, <4>2
      <4> QED  BY <4>1, <4>3
    <3>4. CASE x # b
      <4>1. (b \in S <=> b \in T) /\ g[x] = f[x]
        BY <2>2, <3>4
      <4> HIDE DEF x, T
      <4>2. G[T] = F[T] + (IF b \in S THEN g[b] - f[b] ELSE 0)
        BY <2>4, <4>1
      <4>3. Same(S)
        BY <3>1, <3>2, <4>1, <4>2
      <4> QED  BY <4>3
    <3> QED  BY <3>3, <3>4
  <2> QED  BY <2>3, <2>4
<1>7. Bad = {}
  <2>1. Bad \in SUBSET SUBSET Bins
    OBVIOUS
  <2> HIDE DEF Bad
  <2> QED  BY <1>6, <2>1, SubsetsWellFounded
<1>8. G[Bins] = F[Bins] + (g[b] - f[b])
  BY <1>7
<1> QED  BY <1>1, <1>2, <1>3, <1>4, <1>8

\* The total of no negative numbers is none, and not less than any of them; that of
\* nothing is 0.
LEMMA TotalBounds ==
    ASSUME NEW f, \A x \in Bins : f[x] \in Nat
    PROVE  /\ Beans!Total(f) \in Nat
           /\ \A b \in Bins : f[b] <= Beans!Total(f)
           /\ (\A x \in Bins : f[x] = 0) => Beans!Total(f) = 0
<1>1. ASSUME NEW h, \A x \in Bins : h[x] \in Nat
      PROVE  Beans!Total(h) \in Nat /\ ((\A x \in Bins : h[x] = 0) => Beans!Total(h) = 0)
  <2>1. PICK F : IsSum(F, h, Bins) /\ Beans!Total(h) = F[Bins]
    BY <1>1, TotalIs DEF IntOn
  <2> DEFINE Fine(S) == F[S] \in Nat /\ ((\A x \in Bins : h[x] = 0) => F[S] = 0)
             Bad == {S \in SUBSET Bins : ~Fine(S)}
  <2>2. ASSUME NEW S \in Bad PROVE \E T \in Bad : <<T, S>> \in StrictSubsetOrdering(Bins)
    <3>1. S # {}
      <4>1. F[{}] = 0
        BY <2>1 DEF IsSum
      <4> QED  BY <4>1
    <3>2. First(S) \in S
      BY <3>1 DEF First
    <3>3. F[S] = h[First(S)] + F[S \ {First(S)}]
      BY <2>1, <3>1 DEF IsSum
    <3>4. S \ {First(S)} \in Bad
      BY <1>1, <3>2, <3>3
    <3>5. <<S \ {First(S)}, S>> \in StrictSubsetOrdering(Bins)
      BY <3>2, <3>4 DEF StrictSubsetOrdering
    <3> QED  BY <3>4, <3>5
  <2>3. Bad = {}
    <3>1. Bad \in SUBSET SUBSET Bins
      OBVIOUS
    <3> HIDE DEF Bad
    <3> QED  BY <2>2, <3>1, SubsetsWellFounded
  <2> QED  BY <2>1, <2>3
<1>2. ASSUME NEW b \in Bins PROVE f[b] <= Beans!Total(f)
  <2> DEFINE g == [x \in Bins |-> IF x = b THEN 0 ELSE f[x]]
  <2>1. (\A x \in Bins : g[x] \in Nat) /\ g[b] = 0 /\ \A x \in Bins \ {b} : g[x] = f[x]
    OBVIOUS
  <2> HIDE DEF g
  <2>2. IntOn(f, Bins) /\ IntOn(g, Bins)
    BY <2>1 DEF IntOn
  <2>3. Beans!Total(g) = Beans!Total(f) - f[b] + 0
    BY <2>1, <2>2, TotalChanges
  <2>4. Beans!Total(g) \in Nat /\ Beans!Total(f) \in Nat
    BY <1>1, <2>1
  <2> QED  BY <2>3, <2>4
<1> QED  BY <1>1, <1>2

LEMMA BmCases ==
    ASSUME [Beans!Next]_(Beans!vars)
    PROVE  \/ \E t \in Threads : Beans!Create(t)
           \/ \E t \in Threads : Beans!Lock(t)
           \/ \E t \in Threads : Beans!Load(t)
           \/ \E t \in Threads : Beans!Store(t)
           \/ Beans!MainLock \/ Beans!MainLook
           \/ \E b \in Bins : Beans!MainPrint(b)
           \/ UNCHANGED beans
BY DEF Beans!Next, Beans!ThrowerStep, Beans!MainStep, beans, Beans!vars

LEMMA BmNames ==
    /\ "ballsW" \notin Bins /\ "ballsT" \notin Bins /\ "unborn" \notin Bins /\ "gone" \notin Bins
    /\ LastBin \in Bins /\ Bins \subseteq Beans!Cells /\ Balls \in Nat
    /\ Beans!Cells = Bins \cup {"ballsW", "ballsT"}
BY BeansAssumption DEF Beans!Cells

LEMMA BmNumbers ==
    ASSUME Beans!TypeOK
    PROVE  /\ IsFiniteSet(Beans!Falling) /\ Cardinality(Beans!Falling) \in Nat
           /\ IsFiniteSet(Thrown) /\ Cardinality(Thrown) \in Nat
           /\ Landed \in Nat /\ IntOn(cell, Bins) /\ Beans!Total(cell) \in Nat
           /\ \A b \in Bins : cell[b] \in Nat /\ cell[b] <= Beans!Total(cell)
           /\ InLast \in Int
<1>1. IsFiniteSet(Threads) /\ Beans!Falling \subseteq Threads /\ Thrown \subseteq Threads
  BY ThreadsAssumption DEF Beans!Falling, Thrown
<1>2. /\ IsFiniteSet(Beans!Falling) /\ Cardinality(Beans!Falling) \in Nat
      /\ IsFiniteSet(Thrown) /\ Cardinality(Thrown) \in Nat
  BY <1>1, FS_Subset, FS_CardinalityType
<1>3. \A c \in Beans!Cells : cell[c] \in Nat
  BY BmNames DEF Beans!TypeOK
<1>4. (\A b \in Bins : cell[b] \in Nat) /\ cell["ballsT"] \in Nat /\ cell[LastBin] \in Nat
  BY <1>3, BmNames
<1>5. Beans!Total(cell) \in Nat /\ \A b \in Bins : cell[b] <= Beans!Total(cell)
  BY <1>4, TotalBounds
<1> QED  BY <1>2, <1>4, <1>5 DEF Landed, InLast, IntOn

\* What a thread's way to the next counter does to the numbers of those that fall
\* and those that have thrown.
LEMMA BmGoes ==
    ASSUME Beans!TypeOK, NEW t \in Threads, NEW c, at' = [at EXCEPT ![t] = c]
    PROVE  /\ Cardinality(Beans!Falling)' = Cardinality(Beans!Falling)
                  - (IF at[t] \in Bins THEN 1 ELSE 0) + (IF c \in Bins THEN 1 ELSE 0)
           /\ Cardinality(Thrown)' = Cardinality(Thrown)
                  - (IF at[t] = "ballsT" THEN 1 ELSE 0) + (IF c = "ballsT" THEN 1 ELSE 0)
<1>1. \A S \in SUBSET Threads : /\ IsFiniteSet(S) /\ Cardinality(S) \in Nat
                                 /\ IsFiniteSet(S \ {t}) /\ Cardinality(S \ {t}) \in Nat
  BY ThreadsAssumption, FS_Subset, FS_CardinalityType
<1>2. ASSUME NEW S \in SUBSET Threads
      PROVE  Cardinality(S) = Cardinality(S \ {t}) + (IF t \in S THEN 1 ELSE 0)
  <2>1. Cardinality(S \ {t}) = IF t \in S THEN Cardinality(S) - 1 ELSE Cardinality(S)
    BY <1>1, FS_RemoveElement
  <2> QED  BY <2>1, <1>1
<1>3. at \in [Threads -> Beans!Cells \cup {"unborn", "gone"}]
  BY DEF Beans!TypeOK
<1>4. /\ Beans!Falling \in SUBSET Threads /\ Beans!Falling' \in SUBSET Threads
      /\ Beans!Falling' \ {t} = Beans!Falling \ {t}
      /\ (t \in Beans!Falling <=> at[t] \in Bins) /\ (t \in Beans!Falling' <=> c \in Bins)
  BY <1>3 DEF Beans!Falling
<1>5. /\ Thrown \in SUBSET Threads /\ Thrown' \in SUBSET Threads
      /\ Thrown' \ {t} = Thrown \ {t}
      /\ (t \in Thrown <=> at[t] = "ballsT") /\ (t \in Thrown' <=> c = "ballsT")
  BY <1>3 DEF Thrown
<1>6. /\ Cardinality(Beans!Falling) =
             Cardinality(Beans!Falling \ {t}) + (IF at[t] \in Bins THEN 1 ELSE 0)
      /\ Cardinality(Beans!Falling') =
             Cardinality(Beans!Falling \ {t}) + (IF c \in Bins THEN 1 ELSE 0)
  BY <1>2, <1>4
<1>7. /\ Cardinality(Thrown) =
             Cardinality(Thrown \ {t}) + (IF at[t] = "ballsT" THEN 1 ELSE 0)
      /\ Cardinality(Thrown') =
             Cardinality(Thrown \ {t}) + (IF c = "ballsT" THEN 1 ELSE 0)
  BY <1>2, <1>5
<1>8. Cardinality(Beans!Falling \ {t}) \in Nat /\ Cardinality(Thrown \ {t}) \in Nat
  BY <1>1, <1>4, <1>5
<1> QED  BY <1>6, <1>7, <1>8

LEMMA BmInit ==
    ASSUME Init
    PROVE  BmInv
<1> USE BmNames, ThreadsAssumption DEF Init, Beans!Init
<1>1. Beans!TypeOK
  <2>1. 0 \in 0 .. Balls /\ Balls \in 0 .. Balls /\ -1 \in -1 .. Balls
    OBVIOUS
  <2>2. cell \in [Beans!Cells -> 0 .. Balls] /\ beanReg \in [Threads -> 0 .. Balls]
    BY <2>1
  <2>3. printed \in [Bins -> -1 .. Balls]
    BY <2>1
  <2>4. /\ beanOwner \in [Beans!Cells -> Threads \cup {Main, Nobody}]
        /\ at \in [Threads -> Beans!Cells \cup {"unborn", "gone"}]
        /\ doing \in [Threads -> {"lock", "load", "store"}]
    OBVIOUS
  <2> QED  BY <2>2, <2>3, <2>4 DEF Beans!TypeOK
<1>2. BmMutexes
  BY DEF BmMutexes
<1>3. BmRegs
  BY DEF BmRegs
<1>4. Beans!Falling = {} /\ Thrown = {} /\ cell["ballsW"] = Balls /\ cell["ballsT"] = 0
      /\ \A b \in Bins : cell[b] = 0
  BY DEF Beans!Falling, Thrown
<1>5. Cardinality(Beans!Falling) = 0 /\ Cardinality(Thrown) = 0
  BY <1>4, FS_EmptySet
<1>6. Beans!Total(cell) = 0
  BY <1>4, TotalBounds
<1>7. Landed = 0 /\ InLast = 0
  BY <1>4, <1>5, <1>6 DEF Landed, InLast
<1>8. BmBalls /\ BmBins
  BY <1>4, <1>5, <1>7 DEF BmBalls, BmBins
<1>9. BmPrint
  <2>1. beanMain = "create" /\ \A b \in Bins : printed[b] = -1
    OBVIOUS
  <2> QED  BY <2>1 DEF BmPrint
<1> QED  BY <1>1, <1>2, <1>3, <1>8, <1>9 DEF BmInv

\* Steps that move no ball.
LEMMA BmQuiet ==
    ASSUME BmInv, UNCHANGED <<garbage, cell>>, UNCHANGED Beans!Falling, UNCHANGED Thrown
    PROVE  /\ UNCHANGED <<Landed, InLast>> /\ BmBalls' /\ BmBins'
<1>1. Landed' = Landed /\ InLast' = InLast
  BY DEF Landed, InLast, Beans!Total, Beans!FoldFunctionOnSet, Beans!MapThenFoldSet
<1> QED  BY <1>1 DEF BmInv, BmBalls, BmBins

\* What one thread's store does: the counter is one more, that of the balls waiting
\* one less, unless the last bin let somebody in; the ball goes on.
LEMMA BmStores ==
    ASSUME BmInv, NEW t \in Threads, Beans!Store(t)
    PROVE  /\ at[t] \in Beans!Cells /\ doing[t] = "store" /\ garbage' = garbage
           /\ ~Beans!Lets(at[t]) => cell[at[t]] = beanReg[t]
           /\ cell' = [cell EXCEPT ![at[t]] =
                           IF at[t] = "ballsW" THEN beanReg[t] - 1 ELSE beanReg[t] + 1]
           /\ cell'[at[t]] \in 0 .. Balls
           /\ BmBalls' /\ InLast' = InLast + (IF at[t] = LastBin THEN 1 ELSE 0)
<1> USE BmNames
<1>1. /\ at[t] \in Beans!Cells /\ doing[t] = "store" /\ garbage' = garbage
      /\ beanReg[t] \in 0 .. Balls
      /\ ~Beans!Lets(at[t]) => cell[at[t]] = beanReg[t]
      /\ Beans!Lets(at[t]) => beanReg[t] <= InLast
      /\ at[t] = "ballsW" => beanReg[t] # 0
      /\ cell' = [cell EXCEPT ![at[t]] =
                      IF at[t] = "ballsW" THEN beanReg[t] - 1 ELSE beanReg[t] + 1]
      /\ cell \in [Beans!Cells -> 0 .. Balls]
      /\ BmBalls /\ BmBins
  BY DEF BmInv, BmRegs, BmReg, Beans!TypeOK, Beans!Store
<1>2. PICK c \in Beans!After(at[t]) : at' = [at EXCEPT ![t] = c]
  BY DEF Beans!Store
<1>3. /\ at[t] = "ballsW" => c \in Bins
      /\ at[t] \in Bins => c = "ballsT"
      /\ at[t] = "ballsT" => c = "ballsW"
  BY <1>1, <1>2 DEF Beans!After
<1> DEFINE falling == Cardinality(Beans!Falling)
           thrown == Cardinality(Thrown)
           total == Beans!Total(cell)
<1>4. /\ falling' = falling - (IF at[t] \in Bins THEN 1 ELSE 0) + (IF c \in Bins THEN 1 ELSE 0)
      /\ thrown' = thrown - (IF at[t] = "ballsT" THEN 1 ELSE 0) + (IF c = "ballsT" THEN 1 ELSE 0)
  BY <1>2, BmGoes DEF BmInv
<1>5. /\ falling \in Nat /\ thrown \in Nat /\ total \in Nat
      /\ \A b \in Bins : cell[b] \in Nat /\ cell[b] <= total
      /\ IntOn(cell, Bins) /\ InLast \in Int
      /\ cell["ballsW"] \in Nat /\ cell["ballsT"] \in Nat /\ cell[LastBin] \in Nat
  BY <1>1, BmNumbers DEF BmInv
<1>6. cell["ballsW"] + falling + cell["ballsT"] + thrown = Balls
  BY <1>1, <1>5 DEF BmBalls, Landed
<1>7. InLast = cell["ballsT"] + thrown - total + cell[LastBin]
  BY <1>5 DEF InLast, Landed
<1>8. at[t] \in Bins => falling # 0
  <2>1. at[t] \in Bins => Beans!Falling # {}
    BY DEF Beans!Falling
  <2> QED  BY <2>1, BmNumbers, FS_EmptySet DEF BmInv
<1>9. at[t] = "ballsT" => thrown # 0
  <2>1. at[t] = "ballsT" => Thrown # {}
    BY DEF Thrown
  <2> QED  BY <2>1, BmNumbers, FS_EmptySet DEF BmInv
<1>10. total' = Beans!Total(cell')
  BY DEF Beans!Total, Beans!FoldFunctionOnSet, Beans!MapThenFoldSet
<1> HIDE DEF falling, thrown, total
<1>11. CASE at[t] = "ballsW"
  <2>1. /\ cell'["ballsW"] = cell["ballsW"] - 1 /\ cell'["ballsT"] = cell["ballsT"]
        /\ \A b \in Bins : cell'[b] = cell[b]
        /\ cell'["ballsW"] \in 0 .. Balls
    BY <1>1, <1>11 DEF Beans!Lets
  <2>2. falling' = falling + 1 /\ thrown' = thrown
    BY <1>3, <1>4, <1>5, <1>11
  <2>3. total' = total
    <3>1. IntOn(cell', Bins)
      BY <1>5, <2>1 DEF IntOn
    <3>2. Beans!Total(cell') = Beans!Total(cell) - cell[LastBin] + cell'[LastBin]
          /\ Beans!Total(cell) \in Int
      BY <1>5, <2>1, <3>1, TotalChanges
    <3> QED  BY <1>5, <1>10, <2>1, <3>2 DEF total
  <2>4. BmBalls'
    BY <1>5, <1>6, <2>1, <2>2 DEF BmBalls, Landed, falling, thrown
  <2>5. InLast' = InLast
    BY <1>5, <2>1, <2>2, <2>3 DEF InLast, Landed, thrown, total
  <2> QED  BY <1>1, <1>5, <1>11, <2>1, <2>4, <2>5
<1>12. CASE at[t] = "ballsT"
  <2>1. /\ cell'["ballsT"] = cell["ballsT"] + 1 /\ cell'["ballsW"] = cell["ballsW"]
        /\ \A b \in Bins : cell'[b] = cell[b]
    BY <1>1, <1>12 DEF Beans!Lets
  <2>2. falling' = falling /\ thrown' = thrown - 1
    BY <1>3, <1>4, <1>5, <1>12
  <2>3. total' = total
    <3>1. IntOn(cell', Bins)
      BY <1>5, <2>1 DEF IntOn
    <3>2. Beans!Total(cell') = Beans!Total(cell) - cell[LastBin] + cell'[LastBin]
          /\ Beans!Total(cell) \in Int
      BY <1>5, <2>1, <3>1, TotalChanges
    <3> QED  BY <1>5, <1>10, <2>1, <3>2 DEF total
  <2>4. BmBalls'
    BY <1>5, <1>6, <2>1, <2>2 DEF BmBalls, Landed, falling, thrown
  <2>5. InLast' = InLast
    BY <1>5, <2>1, <2>2, <2>3 DEF InLast, Landed, thrown, total
  <2>6. cell'["ballsT"] \in 0 .. Balls
    BY <1>5, <1>6, <1>9, <1>12, <2>1
  <2> QED  BY <1>1, <1>5, <1>12, <2>4, <2>5, <2>6
<1>13. CASE at[t] \in Bins
  <2> DEFINE b == at[t]
  <2>1. /\ cell'[b] = beanReg[t] + 1 /\ cell'["ballsT"] = cell["ballsT"]
        /\ cell'["ballsW"] = cell["ballsW"] /\ \A x \in Bins \ {b} : cell'[x] = cell[x]
    BY <1>1, <1>13
  <2>2. falling' = falling - 1 /\ thrown' = thrown + 1
    BY <1>3, <1>4, <1>5, <1>13
  <2>3. total' = total - cell[b] + cell'[b]
    <3>1. IntOn(cell', Bins)
      BY <1>1, <1>5, <2>1 DEF IntOn
    <3>2. Beans!Total(cell') = Beans!Total(cell) - cell[b] + cell'[b]
      BY <1>5, <1>13, <2>1, <3>1, TotalChanges
    <3> QED  BY <1>10, <3>2 DEF total
  <2>4. BmBalls'
    BY <1>5, <1>6, <2>1, <2>2 DEF BmBalls, Landed, falling, thrown
  <2>5. cell[b] \in Nat /\ cell'[b] \in Nat
    BY <1>1, <1>5, <1>13, <2>1
  <2>6. InLast' = InLast + (IF at[t] = LastBin THEN 1 ELSE 0)
    <3>1. InLast' = (cell'["ballsT"] + thrown') - total' + cell'[LastBin]
      BY DEF InLast, Landed, thrown, total
    <3>2. CASE b = LastBin
      BY <1>5, <1>7, <2>1, <2>2, <2>3, <2>5, <3>1, <3>2
    <3>3. CASE b # LastBin
      <4>1. cell'[LastBin] = cell[LastBin] /\ cell'[b] = cell[b] + 1
        BY <1>1, <2>1, <3>3 DEF Beans!Lets
      <4>2. total' = total + 1
        BY <1>5, <2>3, <2>5, <4>1
      <4>3. InLast' = (cell["ballsT"] + (thrown + 1)) - (total + 1) + cell[LastBin]
        BY <2>1, <2>2, <3>1, <4>1, <4>2
      <4> QED  BY <1>5, <1>7, <3>3, <4>3
    <3> QED  BY <3>2, <3>3
  <2>7. cell'[b] \in 0 .. Balls
    <3>1. InLast <= cell["ballsT"] + thrown
      BY <1>5, <1>7
    <3>2. total <= cell["ballsT"] + thrown
      BY <1>1, <1>5, <1>7 DEF BmBins
    <3>3. beanReg[t] <= cell["ballsT"] + thrown
      BY <1>1, <1>5, <1>13, <3>1, <3>2
    <3> QED  BY <1>1, <1>5, <1>6, <1>8, <1>13, <2>1, <3>3
  <2> QED  BY <1>1, <2>4, <2>6, <2>7
<1> QED  BY <1>1, <1>11, <1>12, <1>13

LEMMA BmType ==
    ASSUME BmInv, [Beans!Next]_(Beans!vars)
    PROVE  Beans!TypeOK'
<1> USE BmNames, ThreadsAssumption DEF Beans!TypeOK, Beans!own
<1>t. Beans!TypeOK
  BY DEF BmInv
<1>1. CASE \E t \in Threads : Beans!Create(t)
  BY <1>1, <1>t DEF Beans!Create
<1>2. CASE \E t \in Threads : Beans!Lock(t)
  BY <1>2, <1>t DEF Beans!Lock
<1>3. CASE \E t \in Threads : Beans!Load(t)
  BY <1>3, <1>t DEF Beans!Load
<1>4. CASE \E t \in Threads : Beans!Store(t)
  <2>1. PICK t \in Threads : Beans!Store(t)
    BY <1>4
  <2>2. PICK c \in Beans!After(at[t]) : at' = [at EXCEPT ![t] = c]
    BY <2>1 DEF Beans!Store
  <2>3. c \in Beans!Cells
    BY <2>1, <2>2 DEF Beans!After
  <2>4. PICK x : cell' = [cell EXCEPT ![at[t]] = x]
    BY <2>1, BmStores
  <2>5. cell' \in [Beans!Cells -> 0 .. Balls]
    BY <2>1, <2>4, <1>t, BmStores
  <2> QED  BY <2>1, <2>2, <2>3, <2>5, <1>t DEF Beans!Store
<1>5. CASE Beans!MainLock
  BY <1>5, <1>t DEF Beans!MainLock
<1>6. CASE Beans!MainLook
  BY <1>6, <1>t DEF Beans!MainLook
<1>7. CASE \E b \in Bins : Beans!MainPrint(b)
  BY <1>7, <1>t DEF Beans!MainPrint
<1>8. CASE UNCHANGED beans
  BY <1>8, <1>t DEF beans
<1> QED  BY BmCases, <1>1, <1>2, <1>3, <1>4, <1>5, <1>6, <1>7, <1>8

LEMMA BmMutexesStep ==
    ASSUME BmInv, [Beans!Next]_(Beans!vars)
    PROVE  BmMutexes'
<1> USE BmNames, ThreadsAssumption DEF BmMutexes, Beans!own, Beans!Lets
<1>t. /\ BmMutexes /\ BmRegs
      /\ beanOwner \in [Beans!Cells -> Threads \cup {Main, Nobody}]
      /\ at \in [Threads -> Beans!Cells \cup {"unborn", "gone"}]
      /\ doing \in [Threads -> {"lock", "load", "store"}]
  BY DEF BmInv, Beans!TypeOK
<1>1. CASE \E t \in Threads : Beans!Create(t)
  BY <1>1, <1>t DEF Beans!Create
<1>2. CASE \E t \in Threads : Beans!Lock(t)
  BY <1>2, <1>t DEF Beans!Lock
<1>3. CASE \E t \in Threads : Beans!Load(t)
  BY <1>3, <1>t DEF Beans!Load
<1>4. CASE \E t \in Threads : Beans!Store(t)
  <2>1. PICK t \in Threads : Beans!Store(t)
    BY <1>4
  <2>2. PICK c \in Beans!After(at[t]) : at' = [at EXCEPT ![t] = c]
    BY <2>1 DEF Beans!Store
  <2> QED  BY <2>1, <2>2, <1>t DEF Beans!Store
<1>5. CASE Beans!MainLock
  BY <1>5, <1>t DEF Beans!MainLock
<1>6. CASE Beans!MainLook
  BY <1>6, <1>t DEF Beans!MainLook
<1>7. CASE \E b \in Bins : Beans!MainPrint(b)
  BY <1>7, <1>t DEF Beans!MainPrint
<1>8. CASE UNCHANGED beans
  BY <1>8, <1>t DEF beans
<1> QED  BY BmCases, <1>1, <1>2, <1>3, <1>4, <1>5, <1>6, <1>7, <1>8

\* Of all steps only a store moves a ball.
LEMMA BmStill ==
    ASSUME BmInv, [Beans!Next]_(Beans!vars), \A t \in Threads : ~Beans!Store(t)
    PROVE  UNCHANGED <<garbage, cell>> /\ UNCHANGED Beans!Falling /\ UNCHANGED Thrown
<1> USE BmNames DEF Beans!own, Beans!Falling, Thrown
<1>t. at \in [Threads -> Beans!Cells \cup {"unborn", "gone"}]
  BY DEF BmInv, Beans!TypeOK
<1>1. CASE \E t \in Threads : Beans!Create(t)
  BY <1>1, <1>t DEF Beans!Create
<1>2. CASE \E t \in Threads : Beans!Lock(t)
  BY <1>2, <1>t DEF Beans!Lock
<1>3. CASE \E t \in Threads : Beans!Load(t)
  BY <1>3, <1>t DEF Beans!Load
<1>5. CASE Beans!MainLock
  BY <1>5, <1>t DEF Beans!MainLock
<1>6. CASE Beans!MainLook
  BY <1>6, <1>t DEF Beans!MainLook
<1>7. CASE \E b \in Bins : Beans!MainPrint(b)
  BY <1>7, <1>t DEF Beans!MainPrint
<1>8. CASE UNCHANGED beans
  BY <1>8, <1>t DEF beans
<1> QED  BY BmCases, <1>1, <1>2, <1>3, <1>5, <1>6, <1>7, <1>8

LEMMA BmBallsAndBinsStep ==
    ASSUME BmInv, [Beans!Next]_(Beans!vars)
    PROVE  BmBalls' /\ BmBins'
<1> USE BmNames
<1>1. CASE \A t \in Threads : ~Beans!Store(t)
  BY <1>1, BmStill, BmQuiet
<1>2. ASSUME NEW t \in Threads, Beans!Store(t) PROVE BmBalls' /\ BmBins'
  <2>1. BmBalls'
    BY <1>2, BmStores
  <2>2. /\ InLast' = InLast + (IF at[t] = LastBin THEN 1 ELSE 0) /\ garbage' = garbage
        /\ cell' = [cell EXCEPT ![at[t]] =
                        IF at[t] = "ballsW" THEN beanReg[t] - 1 ELSE beanReg[t] + 1]
        /\ doing[t] = "store"
    BY <1>2, BmStores
  <2>3. /\ cell[LastBin] \in Nat /\ InLast \in Int /\ beanReg[t] \in Nat
        /\ cell \in [Beans!Cells -> 0 .. Balls] /\ BmBins /\ BmRegs
    BY BmNumbers DEF BmInv, Beans!TypeOK
  <2>4. CASE at[t] = LastBin
    <3>1. cell'[LastBin] = beanReg[t] + 1
      BY <2>2, <2>3, <2>4
    <3>2. beanReg[t] <= InLast /\ (garbage # "admits" => beanReg[t] = InLast)
      BY <2>2, <2>3, <2>4 DEF BmBins, BmRegs, BmReg, Beans!Lets
    <3> QED  BY <2>1, <2>2, <2>3, <2>4, <3>1, <3>2 DEF BmBins
  <2>5. CASE at[t] # LastBin
    <3>1. cell'[LastBin] = cell[LastBin] /\ InLast' = InLast
      BY <2>2, <2>3, <2>5
    <3> QED  BY <2>1, <2>2, <2>3, <3>1 DEF BmBins
  <2> QED  BY <2>4, <2>5
<1> QED  BY <1>1, <1>2

LEMMA BmRegsStep ==
    ASSUME BmInv, [Beans!Next]_(Beans!vars)
    PROVE  BmRegs'
<1> USE BmNames, ThreadsAssumption DEF Beans!own, Beans!Lets
<1>t. /\ BmMutexes /\ BmRegs /\ BmBins
      /\ beanOwner \in [Beans!Cells -> Threads \cup {Main, Nobody}]
      /\ cell \in [Beans!Cells -> 0 .. Balls]
      /\ at \in [Threads -> Beans!Cells \cup {"unborn", "gone"}]
      /\ doing \in [Threads -> {"lock", "load", "store"}]
      /\ beanReg \in [Threads -> 0 .. Balls]
      /\ InLast \in Int
  BY BmNumbers DEF BmInv, Beans!TypeOK
<1>q. (\A t \in Threads : ~Beans!Store(t)) => UNCHANGED <<garbage, cell, InLast>>
  BY BmStill, BmQuiet
<1> SUFFICES ASSUME NEW u \in Threads, doing'[u] = "store" PROVE BmReg(u)'
  BY DEF BmRegs
<1> USE DEF BmReg
<1>1. CASE UNCHANGED <<garbage, cell, InLast>>
           /\ doing[u] = "store" /\ at'[u] = at[u] /\ beanReg'[u] = beanReg[u]
  BY <1>1, <1>t DEF BmRegs
<1> DEFINE Still == UNCHANGED <<garbage, cell, InLast>>
<1>2. CASE Still /\ \E t \in Threads : Beans!Create(t)
  BY <1>1, <1>2, <1>t DEF Beans!Create, BmRegs
<1>3. CASE Still /\ \E t \in Threads : Beans!Lock(t)
  BY <1>1, <1>3, <1>t DEF Beans!Lock
<1>4. CASE Still /\ \E t \in Threads : Beans!Load(t)
  <2>1. PICK t \in Threads : Beans!Load(t)
    BY <1>4
  <2>2. Still
    BY <1>4
  <2>3. CASE u = t
    <3>1. /\ at'[u] = at[u] /\ at[u] \in Beans!Cells /\ beanReg'[u] = cell[at[u]]
          /\ at[u] = "ballsW" => cell["ballsW"] # 0
      BY <2>1, <2>3, <1>t DEF Beans!Load
    <3>2. cell[at[u]] \in Nat
      BY <3>1, <1>t
    <3> QED  BY <2>2, <3>1, <3>2, <1>t DEF BmBins
  <2>4. CASE u # t
    <3>1. doing[u] = "store" /\ at'[u] = at[u] /\ beanReg'[u] = beanReg[u]
      BY <2>1, <2>4, <1>t DEF Beans!Load
    <3> QED  BY <1>1, <2>2, <3>1
  <2> QED  BY <2>3, <2>4
<1>5. CASE \E t \in Threads : Beans!Store(t)
  <2>1. PICK t \in Threads : Beans!Store(t)
    BY <1>5
  <2>2. u # t /\ doing[u] = "store" /\ at'[u] = at[u] /\ beanReg'[u] = beanReg[u]
    <3>1. PICK c : at' = [at EXCEPT ![t] = c]
      BY <2>1 DEF Beans!Store
    <3> QED  BY <2>1, <3>1, <1>t DEF Beans!Store
  <2>3. /\ at[t] \in Beans!Cells /\ doing[t] = "store" /\ garbage' = garbage
        /\ InLast' = InLast + (IF at[t] = LastBin THEN 1 ELSE 0)
        /\ cell' = [cell EXCEPT ![at[t]] =
                        IF at[t] = "ballsW" THEN beanReg[t] - 1 ELSE beanReg[t] + 1]
    BY <2>1, BmStores
  <2>4. CASE at[u] # at[t]
    <3>1. cell'[at[u]] = cell[at[u]] /\ (Beans!Lets(at[u]) => InLast' = InLast)
      BY <2>2, <2>3, <2>4, <1>t DEF BmRegs
    <3> QED  BY <2>2, <2>3, <3>1, <1>t DEF BmRegs
  <2>5. CASE at[u] = at[t]
    <3>1. Beans!Lets(at[u])
      BY <2>2, <2>3, <2>5, <1>t DEF BmMutexes
    <3>2. beanReg[u] <= InLast /\ beanReg[u] \in Int /\ InLast' = InLast + 1
      BY <2>2, <2>3, <2>5, <3>1, <1>t DEF BmRegs
    <3> QED  BY <2>2, <2>3, <2>5, <3>1, <3>2, <1>t
  <2> QED  BY <2>4, <2>5
<1>6. CASE Still /\ Beans!MainLock
  BY <1>1, <1>6 DEF Beans!MainLock
<1>7. CASE Still /\ Beans!MainLook
  BY <1>1, <1>7 DEF Beans!MainLook
<1>8. CASE Still /\ \E b \in Bins : Beans!MainPrint(b)
  BY <1>1, <1>8 DEF Beans!MainPrint
<1>9. CASE Still /\ UNCHANGED beans
  BY <1>1, <1>9 DEF beans
<1> QED  BY BmCases, <1>q, <1>2, <1>3, <1>4, <1>5, <1>6, <1>7, <1>8, <1>9

LEMMA BmPrintStep ==
    ASSUME BmInv, [Beans!Next]_(Beans!vars)
    PROVE  BmPrint'
<1> USE BmNames, ThreadsAssumption DEF Beans!own
<1>t. /\ BmMutexes /\ BmPrint /\ cell \in [Beans!Cells -> 0 .. Balls]
      /\ printed \in [Bins -> -1 .. Balls]
      /\ beanMain \in {"create", "lock", "look", "print", "done"}
  BY DEF BmInv, Beans!TypeOK
<1>1. CASE \E t \in Threads : Beans!Create(t)
  BY <1>1, <1>t DEF Beans!Create, BmPrint
<1>2. CASE \E t \in Threads : Beans!Lock(t)
  BY <1>2, <1>t DEF Beans!Lock, BmPrint
<1>3. CASE \E t \in Threads : Beans!Load(t)
  BY <1>3, <1>t DEF Beans!Load, BmPrint
<1>4. CASE \E t \in Threads : Beans!Store(t)
  <2>1. PICK t \in Threads : Beans!Store(t)
    BY <1>4
  <2>2. /\ at[t] \in Beans!Cells /\ doing[t] = "store" /\ UNCHANGED <<beanMain, printed>>
        /\ cell' = [cell EXCEPT ![at[t]] =
                        IF at[t] = "ballsW" THEN beanReg[t] - 1 ELSE beanReg[t] + 1]
    BY <2>1, BmStores DEF Beans!Store
  <2>3. ASSUME beanMain \in {"print", "done"}
        PROVE  cell'["ballsT"] = cell["ballsT"] /\ \A b \in Bins : cell'[b] = cell[b]
    <3>1. at[t] # "ballsT"
      <4>1. beanOwner["ballsT"] = Main
        BY <2>3, <1>t DEF BmMutexes
      <4> QED  BY <4>1, <2>2, <1>t DEF BmMutexes, Beans!Lets
    <3>2. at[t] \notin Bins
      <4>1. Beans!Falling = {}
        <5>1. cell["ballsT"] = Balls /\ cell["ballsW"] \in Nat
          BY <2>3, <1>t DEF BmPrint
        <5>2. Cardinality(Beans!Falling) = 0
          BY <5>1, BmNumbers DEF BmInv, BmBalls, Landed
        <5> QED  BY <5>2, BmNumbers, FS_EmptySet DEF BmInv
      <4> QED  BY <4>1 DEF Beans!Falling
    <3> QED  BY <2>2, <3>1, <3>2, <1>t
  <2>4. CASE beanMain \in {"print", "done"}
    BY <2>2, <2>3, <2>4, <1>t DEF BmPrint
  <2>5. CASE beanMain \notin {"print", "done"}
    BY <2>2, <2>5, <1>t DEF BmPrint
  <2> QED  BY <2>4, <2>5
<1>5. CASE Beans!MainLock
  BY <1>5, <1>t DEF Beans!MainLock, BmPrint
<1>6. CASE Beans!MainLook
  BY <1>6, <1>t DEF Beans!MainLook, Beans!Finished, BmPrint
<1>7. CASE \E b \in Bins : Beans!MainPrint(b)
  <2>1. PICK b \in Bins : Beans!MainPrint(b)
    BY <1>7
  <2>2. /\ beanMain = "print" /\ printed' = [printed EXCEPT ![b] = cell[b]] /\ cell' = cell
        /\ beanMain' \in {"print", "done"}
        /\ beanMain' = "done" => \A c \in Bins \ {b} : printed[c] # -1
    BY <2>1 DEF Beans!MainPrint
  <2>3. cell[b] \in Nat
    BY <1>t
  <2> QED  BY <2>2, <2>3, <1>t DEF BmPrint
<1>8. CASE UNCHANGED beans
  BY <1>8, <1>t DEF beans, BmPrint
<1> QED  BY BmCases, <1>1, <1>2, <1>3, <1>4, <1>5, <1>6, <1>7, <1>8

LEMMA BmStep ==
    ASSUME BmInv, [Next]_vars
    PROVE  BmInv'
BY BeansMove, BmType, BmMutexesStep, BmRegsStep, BmBallsAndBinsStep, BmPrintStep DEF BmInv

\* What is counted under a mutex is exact, and final when it is printed without one:
\* no ball is lost or doubled, no salt either (mutex.c's and robole.c's threads,
\* the last loops of their mains).
THEOREM CountsAreExact == FairSpec => []CountsExact
<1>1. BmInv => Beans!BallsKept
  <2> SUFFICES ASSUME BmInv PROVE Beans!BallsKept
    OBVIOUS
  <2>1. /\ Beans!TypeOK /\ BmBalls /\ BmBins
        /\ cell["ballsW"] \in Nat /\ cell[LastBin] \in Nat
    BY BmNames DEF BmInv, Beans!TypeOK
  <2>2. Beans!Cardinality(Beans!Falling) = Cardinality(Beans!Falling)
    BY DEF Beans!Cardinality, Cardinality
  <2>3. cell["ballsW"] + Cardinality(Beans!Falling) + Landed = Balls
    BY <2>1 DEF BmBalls
  <2>4. InLast = Landed - Beans!Total(cell) + cell[LastBin]
    BY DEF InLast
  <2> DEFINE all == cell["ballsW"] + Cardinality(Beans!Falling) + Beans!Total(cell)
  <2>5. IF garbage = "admits" THEN all <= Balls ELSE all = Balls
    BY <2>1, <2>3, <2>4, BmNumbers DEF BmBins
  <2> QED  BY <2>1, <2>2, <2>5 DEF Beans!BallsKept
<1>2. BmInv => Beans!PrintIsFinal
  <2> SUFFICES ASSUME BmInv PROVE Beans!PrintIsFinal
    OBVIOUS
  <2>1. /\ Beans!TypeOK /\ BmBalls /\ BmBins /\ BmPrint
        /\ cell["ballsW"] \in Nat /\ cell["ballsT"] \in Nat /\ cell[LastBin] \in Nat
    BY BmNames DEF BmInv, Beans!TypeOK
  <2>2. ASSUME beanMain \in {"print", "done"}
        PROVE  Cardinality(Beans!Falling) = 0 /\ cell["ballsW"] = 0 /\ Landed = Balls
    BY <2>1, <2>2, BmNames, BmNumbers DEF BmBalls, BmPrint, Landed
  <2>3. ASSUME beanMain \in {"print", "done"} PROVE Beans!Falling = {}
    BY <2>1, <2>2, <2>3, BmNumbers, FS_EmptySet
  <2>4. ASSUME beanMain = "done", garbage # "admits" PROVE Beans!Total(printed) = Balls
    <3>1. Beans!Total(cell) = Balls
      BY <2>1, <2>2, <2>4, BmNames, BmNumbers DEF BmBins, InLast
    <3>2. \A b \in Bins : printed[b] = cell[b]
      BY <2>1, <2>4 DEF BmPrint
    <3>3. IntOn(cell, Bins) /\ IntOn(printed, Bins)
      BY <2>1, <3>2, BmNumbers DEF IntOn
    <3>4. Beans!Total(printed) = Beans!Total(cell) - cell[LastBin] + printed[LastBin]
      BY <3>2, <3>3, BmNames, TotalChanges
    <3> QED  BY <3>1, <3>2, <3>4, <2>1, BmNames
  <2> QED  BY <2>1, <2>3, <2>4 DEF BmPrint, Beans!PrintIsFinal
<1>3. PtInv => Salt!SaltExact
  BY DEF PtInv, PtSalt, Salt!SaltExact
<1> QED  BY <1>1, <1>2, <1>3, BmInit, BmStep, PtInit, PtStep, PTL DEF FairSpec, CountsExact
=============================================================================
