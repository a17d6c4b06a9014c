------------------------------ MODULE VueProofs ------------------------------
(***************************************************************************)
(* Proofs about the algorithms of the page's libraries, for any data,      *)
(* computed properties and getters, any watchers and callbacks, and any    *)
(* lists of children.                                                      *)
(*                                                                         *)
(* The argument.                                                           *)
(*                                                                         *)
(* Reactive.  What a getter stands for (True, Read) is defined by          *)
(* recursion over the watchers, which read what was created before; that   *)
(* the recursion has a solution is shown by the least watcher for which it *)
(* had none.  What a watcher does not read decides nothing (Unread): a     *)
(* change of data can make a value out of date for those alone that have   *)
(* read it, directly or through computed properties, and those are the     *)
(* ones that are notified.  The invariant (Exact) says so for watchers at  *)
(* rest, and for each evaluation in progress that what it has read so far  *)
(* is what its getter reads.                                               *)
(*                                                                         *)
(* VueScheduler.  The ticks are what the microtasks will call, in order;   *)
(* one flush at most is among them or runs.  What the scheduler knows to   *)
(* be queued is in its queue, once, in order during a flush; a change is   *)
(* queued or was dropped; and whoever is to see it is behind the flush.    *)
(*                                                                         *)
(* UpdateChildren.  At every round the document has the elements of the    *)
(* new children that are done and of the old ones that are left over, each *)
(* once (ElementsAgree); the old ones are in their order, and with unique  *)
(* new keys those done from the left and from the right are around them    *)
(* (OrderAgrees).  Order is a relation between elements, which an          *)
(* insertion keeps for all but one.                                        *)
(***************************************************************************)
EXTENDS MCVue, Sequences, SequenceTheorems, FiniteSetTheorems, WellFoundedInduction, TLAPS

-----------------------------------------------------------------------------
\* A set of natural numbers has a least one: whoever fails first has no failing
\* predecessor.
LEMMA Least ==
  ASSUME NEW T, T \subseteq Nat, T # {}
  PROVE  \E n \in T : \A m \in T : n <= m
<1> DEFINE R == {ss \in Nat \X Nat : ss[1] < ss[2]}
<1>1. IsWellFoundedOn(R, Nat)
  BY NatLessThanWellFounded DEF OpToRel
<1> HIDE DEF R
<1>2. PICK n \in T : \A m \in T : ~(<<m, n>> \in R)
  BY <1>1, WFMin
<1>3. \A i, j \in Nat : i < j => <<i, j>> \in R
  BY DEF R
<1>4. ASSUME NEW m \in T
      PROVE  n <= m
  <2>1. m \in Nat /\ n \in Nat
    OBVIOUS
  <2>2. ~(m < n)
    BY <1>2, <1>3, <2>1
  <2> QED
    BY <2>1, <2>2
<1> QED
  BY <1>4

GettersOf(G) ==
  \A w \in React!Watcher :
    \A i \in {1, 2} : G[w][i] \in Data \/ G[w][i] \in 1 .. w - 1

\* What React!True and React!Read stand for, of any getters and values.
TrueOf(G, V) ==
  LET value[w \in React!Watcher] ==
        LET of(n) == IF n \in Data THEN V[n] ELSE value[n]
        IN  of(G[w][1]) /\ of(G[w][2])
  IN  value

ReadOf(G, V) ==
  LET data[w \in React!Watcher] ==
        LET value(n) == IF n \in Data THEN V[n] ELSE TrueOf(G, V)[n]
            of(n) == IF n \in Data THEN {n} ELSE data[n]
        IN  of(G[w][1]) \cup IF value(G[w][1]) THEN of(G[w][2]) ELSE {}
  IN  data

LEMMA TrueNames == React!True = TrueOf(getter, val) /\ React!True' = TrueOf(getter, val)'
  BY DEF React!True, TrueOf

LEMMA ReadNames == React!Read = ReadOf(getter, val) /\ React!Read' = ReadOf(getter, val)'
  BY TrueNames DEF React!Read, ReadOf

\* The recursion has a solution.
LEMMA TrueEquation ==
  ASSUME NEW G, NEW V, V \in [Data -> BOOLEAN], GettersOf(G)
  PROVE  /\ TrueOf(G, V) \in [React!Watcher -> BOOLEAN]
         /\ \A w \in React!Watcher :
              LET of(n) == IF n \in Data THEN V[n] ELSE TrueOf(G, V)[n]
              IN  TrueOf(G, V)[w] = (of(G[w][1]) /\ of(G[w][2]))
<1> DEFINE of(f, n) == IF n \in Data THEN V[n] ELSE f[n]
           Solves(f, m) == /\ f \in [1 .. m -> BOOLEAN]
                           /\ \A w \in 1 .. m : f[w] = (of(f, G[w][1]) /\ of(f, G[w][2]))
           T == {m \in 0 .. React!View : ~ \E f : Solves(f, m)}
<1> USE VueAssumption DEF React!ReactiveAssumption, React!Watcher, React!View
<1>1. T = {}
  <2> SUFFICES ASSUME T # {} PROVE FALSE
    OBVIOUS
  <2>1. PICK m \in T : \A k \in T : m <= k
    <3>1. T \subseteq Nat
      OBVIOUS
    <3> HIDE DEF T
    <3> QED
      BY <3>1, Least
  <2>2. CASE m = 0
    <3>1. Solves([w \in 1 .. 0 |-> TRUE], 0)
      OBVIOUS
    <3> QED
      BY <2>1, <2>2, <3>1
  <2>3. CASE m # 0
    <3>1. m - 1 \in 0 .. React!View /\ m - 1 \notin T
      <4>1. m \in 0 .. React!View
        BY <2>1
      <4>2. m - 1 \in T => m <= m - 1
        BY <2>1
      <4> HIDE DEF T
      <4> QED
        BY <2>3, <4>1, <4>2
    <3>2. PICK f : Solves(f, m - 1)
      BY <3>1
    <3> DEFINE g == [w \in 1 .. m |-> IF w < m THEN f[w]
                                      ELSE of(f, G[w][1]) /\ of(f, G[w][2])]
    <3>3. ASSUME NEW w \in 1 .. m, NEW i \in {1, 2}
          PROVE  of(g, G[w][i]) = of(f, G[w][i])
      BY <3>2 DEF GettersOf
    <3>4. Solves(g, m)
      <4>0. m \in Nat /\ m \in 1 .. React!View
        BY <2>1, <2>3
      <4>1. g \in [1 .. m -> BOOLEAN]
        <5>1. ASSUME NEW w \in 1 .. m, w < m
              PROVE  f[w] \in BOOLEAN
          BY <3>2, <4>0, <5>1
        <5> QED
          BY <5>1
      <4>2. ASSUME NEW w \in 1 .. m
            PROVE  g[w] = (of(g, G[w][1]) /\ of(g, G[w][2]))
        <5>1. of(g, G[w][1]) = of(f, G[w][1]) /\ of(g, G[w][2]) = of(f, G[w][2])
          BY <3>3
        <5>2. w < m => f[w] = (of(f, G[w][1]) /\ of(f, G[w][2]))
          BY <3>2, <4>0
        <5>3. g[w] = (of(f, G[w][1]) /\ of(f, G[w][2]))
          BY <5>2
        <5> QED
          BY <5>1, <5>3
      <4> QED
        BY <4>1, <4>2
    <3> QED
      BY <2>1, <3>4
  <2> QED
    BY <2>2, <2>3
<1>2. PICK f : Solves(f, React!View)
  BY <1>1
<1>3. f = [w \in React!Watcher |-> of(f, G[w][1]) /\ of(f, G[w][2])]
  BY <1>2
<1>4. TrueOf(G, V) = [w \in React!Watcher |-> of(TrueOf(G, V), G[w][1]) /\ of(TrueOf(G, V), G[w][2])]
  BY <1>3 DEF TrueOf
<1> QED
  BY <1>4
\* So has the one about what is read.
LEMMA ReadEquation ==
  ASSUME NEW G, NEW V, V \in [Data -> BOOLEAN], GettersOf(G)
  PROVE  /\ ReadOf(G, V) \in [React!Watcher -> SUBSET Data]
         /\ \A w \in React!Watcher :
              LET value(n) == IF n \in Data THEN V[n] ELSE TrueOf(G, V)[n]
                  of(n) == IF n \in Data THEN {n} ELSE ReadOf(G, V)[n]
              IN  ReadOf(G, V)[w] = of(G[w][1]) \cup IF value(G[w][1]) THEN of(G[w][2]) ELSE {}
<1> DEFINE value(n) == IF n \in Data THEN V[n] ELSE TrueOf(G, V)[n]
           of(f, n) == IF n \in Data THEN {n} ELSE f[n]
           Rule(f, w) == of(f, G[w][1]) \cup IF value(G[w][1]) THEN of(f, G[w][2]) ELSE {}
           Solves(f, m) == /\ f \in [1 .. m -> SUBSET Data]
                           /\ \A w \in 1 .. m : f[w] = Rule(f, w)
           T == {m \in 0 .. React!View : ~ \E f : Solves(f, m)}
<1> USE VueAssumption DEF React!ReactiveAssumption, React!Watcher, React!View
<1>1. T = {}
  <2> SUFFICES ASSUME T # {} PROVE FALSE
    OBVIOUS
  <2>1. PICK m \in T : \A k \in T : m <= k
    <3>1. T \subseteq Nat
      OBVIOUS
    <3> HIDE DEF T
    <3> QED
      BY <3>1, Least
  <2>2. CASE m = 0
    <3>1. Solves([w \in 1 .. 0 |-> {}], 0)
      OBVIOUS
    <3> QED
      BY <2>1, <2>2, <3>1
  <2>3. CASE m # 0
    <3>1. m - 1 \in 0 .. React!View /\ m - 1 \notin T
      <4>1. m \in 0 .. React!View
        BY <2>1
      <4>2. m - 1 \in T => m <= m - 1
        BY <2>1
      <4> HIDE DEF T
      <4> QED
        BY <2>3, <4>1, <4>2
    <3>2. PICK f : Solves(f, m - 1)
      BY <3>1
    <3> DEFINE g == [w \in 1 .. m |-> IF w < m THEN f[w] ELSE Rule(f, w)]
    <3>0. m \in Nat /\ m \in 1 .. React!View
      BY <2>1, <2>3
    <3>3. ASSUME NEW w \in 1 .. m, NEW i \in {1, 2}
          PROVE  of(g, G[w][i]) = of(f, G[w][i])
      <4>1. G[w][i] \in Data \/ G[w][i] \in 1 .. w - 1
        BY <3>0 DEF GettersOf
      <4>2. ASSUME NEW v \in 1 .. w - 1
            PROVE  g[v] = f[v]
        BY <3>0
      <4> QED
        BY <4>1, <4>2
    <3>4. Solves(g, m)
      <4>1. g \in [1 .. m -> SUBSET Data]
        <5>1. ASSUME NEW w \in 1 .. m, w < m
              PROVE  f[w] \in SUBSET Data
          BY <3>2, <3>0, <5>1
        <5>2. ASSUME NEW w \in 1 .. m, ~(w < m)
              PROVE  Rule(f, w) \in SUBSET Data
          <6>1. \A i \in {1, 2} : G[w][i] \in Data \/ G[w][i] \in 1 .. m - 1
            BY <3>0, <5>2 DEF GettersOf
          <6>2. \A i \in {1, 2} : of(f, G[w][i]) \in SUBSET Data
            BY <3>2, <6>1
          <6> QED
            BY <6>2
        <5> HIDE DEF Rule
        <5> QED
          BY <5>1, <5>2
      <4>2. ASSUME NEW w \in 1 .. m
            PROVE  g[w] = Rule(g, w)
        <5>1. of(g, G[w][1]) = of(f, G[w][1]) /\ of(g, G[w][2]) = of(f, G[w][2])
          BY <3>3
        <5>2. w < m => f[w] = Rule(f, w)
          BY <3>2, <3>0
        <5>3. g[w] = Rule(f, w)
          BY <5>2
        <5> QED
          BY <5>1, <5>3
      <4> QED
        BY <4>1, <4>2
    <3> QED
      BY <2>1, <3>4
  <2> QED
    BY <2>2, <2>3
<1>2. PICK f : Solves(f, React!View)
  <2>1. React!View \in 0 .. React!View
    OBVIOUS
  <2> HIDE DEF Solves
  <2> QED
    BY <1>1, <2>1
<1>3. f = [w \in React!Watcher |-> Rule(f, w)]
  BY <1>2
<1>4. ReadOf(G, V) = [w \in React!Watcher |-> Rule(ReadOf(G, V), w)]
  BY <1>3 DEF ReadOf
\* Whatever solves it yields data.
<1>5. \A w \in React!Watcher : ReadOf(G, V)[w] \in SUBSET Data
  <2> DEFINE Bad == {w \in React!Watcher : ReadOf(G, V)[w] \notin SUBSET Data}
  <2> SUFFICES ASSUME Bad # {} PROVE FALSE
    OBVIOUS
  <2>1. PICK w \in Bad : \A v \in Bad : w <= v
    <3>1. Bad \subseteq Nat
      OBVIOUS
    <3> HIDE DEF Bad
    <3> QED
      BY <3>1, Least
  <2>2. \A v \in 1 .. w - 1 : ReadOf(G, V)[v] \in SUBSET Data
    BY <2>1
  <2>3. \A i \in {1, 2} : of(ReadOf(G, V), G[w][i]) \in SUBSET Data
    BY <2>2 DEF GettersOf
  <2>4. ReadOf(G, V)[w] = Rule(ReadOf(G, V), w)
    BY <1>4
  <2> QED
    BY <2>3, <2>4
<1> QED
  BY <1>4, <1>5
\* What is not read decides nothing: values and reads of a watcher depend on what it
\* reads alone.
LEMMA Unread ==
  ASSUME NEW G, NEW V, V \in [Data -> BOOLEAN], NEW U, U \in [Data -> BOOLEAN], GettersOf(G),
         NEW x \in React!Watcher, \A e \in ReadOf(G, V)[x] : U[e] = V[e]
  PROVE  TrueOf(G, U)[x] = TrueOf(G, V)[x] /\ ReadOf(G, U)[x] = ReadOf(G, V)[x]
<1> DEFINE Fixed(n) == \A e \in ReadOf(G, V)[n] : U[e] = V[e]
           Same(n) == TrueOf(G, U)[n] = TrueOf(G, V)[n] /\ ReadOf(G, U)[n] = ReadOf(G, V)[n]
           Bad == {w \in React!Watcher : Fixed(w) /\ ~Same(w)}
           True(A, n) == IF n \in Data THEN A[n] ELSE TrueOf(G, A)[n]
           Read(A, n) == IF n \in Data THEN {n} ELSE ReadOf(G, A)[n]
<1> USE VueAssumption DEF React!ReactiveAssumption, React!Watcher, React!View
<1> SUFFICES ASSUME Bad # {} PROVE FALSE
  OBVIOUS
<1>1. PICK w \in Bad : \A v \in Bad : w <= v
  <2>1. Bad \subseteq Nat
    OBVIOUS
  <2> HIDE DEF Bad
  <2> QED
    BY <2>1, Least
<1>2. \A A \in {U, V} :
        /\ TrueOf(G, A)[w] = (True(A, G[w][1]) /\ True(A, G[w][2]))
        /\ ReadOf(G, A)[w] =
             Read(A, G[w][1]) \cup IF True(A, G[w][1]) THEN Read(A, G[w][2]) ELSE {}
  <2>1. ASSUME NEW A \in {U, V}
        PROVE  /\ TrueOf(G, A)[w] = (True(A, G[w][1]) /\ True(A, G[w][2]))
               /\ ReadOf(G, A)[w] =
                    Read(A, G[w][1]) \cup IF True(A, G[w][1]) THEN Read(A, G[w][2]) ELSE {}
    <3>1. A \in [Data -> BOOLEAN] /\ w \in React!Watcher
      OBVIOUS
    <3> QED
      BY <3>1, TrueEquation, ReadEquation
  <2> QED
    BY <2>1
\* Its operands are fixed as far as they are read, and come before it.
<1>3. ASSUME NEW i \in {1, 2}, \A e \in Read(V, G[w][i]) : U[e] = V[e]
      PROVE  True(U, G[w][i]) = True(V, G[w][i]) /\ Read(U, G[w][i]) = Read(V, G[w][i])
  <2>1. CASE G[w][i] \in Data
    BY <1>3, <2>1
  <2>2. CASE G[w][i] \notin Data
    <3>1. G[w][i] \in 1 .. w - 1
      BY <2>2 DEF GettersOf
    <3>2. G[w][i] \in React!Watcher /\ G[w][i] \notin Bad
      <4>1. G[w][i] \in React!Watcher /\ ~(w <= G[w][i])
        BY <3>1
      <4> HIDE DEF Bad
      <4> QED
        BY <1>1, <4>1
    <3>3. Fixed(G[w][i])
      BY <1>3, <2>2
    <3>4. Same(G[w][i])
      BY <3>2, <3>3
    <3> QED
      BY <2>2, <3>4
  <2> QED
    BY <2>1, <2>2
<1>4. Fixed(w) /\ ~Same(w)
  OBVIOUS
<1> HIDE DEF Bad, True, Read
<1>5. True(U, G[w][1]) = True(V, G[w][1]) /\ Read(U, G[w][1]) = Read(V, G[w][1])
  <2>1. Read(V, G[w][1]) \subseteq ReadOf(G, V)[w]
    BY <1>2
  <2> QED
    BY <1>3, <1>4, <2>1
<1>6. CASE True(V, G[w][1])
  <2>1. Read(V, G[w][2]) \subseteq ReadOf(G, V)[w]
    BY <1>2, <1>6
  <2>2. True(U, G[w][2]) = True(V, G[w][2]) /\ Read(U, G[w][2]) = Read(V, G[w][2])
    BY <1>3, <1>4, <2>1
  <2>3. TrueOf(G, U)[w] = TrueOf(G, V)[w]
    BY <1>2, <1>5, <2>2
  <2>4. ReadOf(G, U)[w] = ReadOf(G, V)[w]
    BY <1>2, <1>5, <2>2
  <2> QED
    BY <1>4, <2>3, <2>4
<1>7. CASE ~True(V, G[w][1])
  <2>1. TrueOf(G, U)[w] = TrueOf(G, V)[w]
    BY <1>2, <1>5, <1>7
  <2>2. ReadOf(G, U)[w] = ReadOf(G, V)[w]
    BY <1>2, <1>5, <1>7
  <2> QED
    BY <1>4, <2>1, <2>2
<1> QED
  BY <1>6, <1>7
-----------------------------------------------------------------------------
Value(n) == IF n \in Data THEN val[n] ELSE React!True[n]
Reading(n) == IF n \in Data THEN {n} ELSE React!Read[n]

\* A watcher's value and what it reads, by its operands.
LEMMA Operands ==
  ASSUME React!TypeOK, NEW w \in React!Watcher
  PROVE  /\ React!True[w] \in BOOLEAN /\ React!Read[w] \in SUBSET Data
         /\ React!True[w] = (Value(getter[w][1]) /\ Value(getter[w][2]))
         /\ React!Read[w] = Reading(getter[w][1]) \cup
                              IF Value(getter[w][1]) THEN Reading(getter[w][2]) ELSE {}
<1>1. GettersOf(getter) /\ val \in [Data -> BOOLEAN]
  BY DEF React!TypeOK, React!Operands, GettersOf
<1> QED
  BY <1>1, TrueNames, ReadNames, TrueEquation, ReadEquation DEF Value, Reading

\* As long as getters and data stay, so do values and reads.
LEMMA Unchanged ==
  ASSUME UNCHANGED <<getter, val>>
  PROVE  UNCHANGED <<React!True, React!Read>>
  BY DEF React!True, React!Read

Frame == [watcher : React!Watcher, operand : 1 .. 3, result : BOOLEAN]

Nested(s) == \A i, j \in DOMAIN s : i < j => s[i].watcher < s[j].watcher

\* An evaluation begins on top of those in progress.
LEMMA BeginStep ==
  ASSUME React!TypeOK, NEW w \in React!Watcher, React!Begin(w),
         React!InGetter => w < React!target
  PROVE  /\ targetStack' \in Seq(Frame) /\ Nested(targetStack')
         /\ Len(targetStack') = Len(targetStack) + 1
         /\ targetStack'[1] = [watcher |-> w, operand |-> 1, result |-> FALSE]
         /\ \A i \in DOMAIN targetStack : targetStack'[i + 1] = targetStack[i]
         /\ back' = FALSE
<1> DEFINE f == [watcher |-> w, operand |-> 1, result |-> FALSE]
<1>1. targetStack \in Seq(Frame) /\ <<f>> \in Seq(Frame) /\ Len(<<f>>) = 1 /\ <<f>>[1] = f
  BY DEF React!TypeOK, Frame
<1>2. targetStack' = <<f>> \o targetStack /\ back' = FALSE
  BY DEF React!Begin
<1> HIDE DEF f
<1>3. /\ targetStack' \in Seq(Frame)
      /\ Len(targetStack') = 1 + Len(targetStack)
      /\ \A i \in 1 .. 1 + Len(targetStack) :
           targetStack'[i] = IF i <= 1 THEN f ELSE targetStack[i - 1]
  <2>1. \A i \in 1 .. 1 + Len(targetStack) : i <= 1 => <<f>>[i] = f
    BY <1>1
  <2> QED
    BY <1>1, <1>2, <2>1, ConcatProperties
<1>4. Nested(targetStack')
  <2> SUFFICES ASSUME NEW i \in DOMAIN targetStack', NEW j \in DOMAIN targetStack', i < j
               PROVE  targetStack'[i].watcher < targetStack'[j].watcher
    BY DEF Nested
  <2>1. /\ j - 1 \in DOMAIN targetStack /\ targetStack'[j] = targetStack[j - 1]
        /\ i # 1 => i - 1 \in DOMAIN targetStack /\ targetStack'[i] = targetStack[i - 1]
        /\ i = 1 => targetStack'[i] = f
        /\ i \in Nat /\ j \in Nat
    BY <1>1, <1>3
  <2>2. \A k \in DOMAIN targetStack : w < targetStack[k].watcher
    <3>1. ASSUME NEW k \in DOMAIN targetStack
          PROVE  w < targetStack[k].watcher
      <4>1. targetStack # <<>> /\ 1 \in DOMAIN targetStack /\ k \in Nat /\ k >= 1
        BY <1>1, <3>1
      <4>2. w < targetStack[1].watcher
        BY <4>1 DEF React!InGetter, React!target, React!frame
      <4>3. /\ k = 1 \/ targetStack[1].watcher < targetStack[k].watcher
            /\ targetStack[1].watcher \in Nat /\ targetStack[k].watcher \in Nat /\ w \in Nat
        <5>1. targetStack[1] \in Frame /\ targetStack[k] \in Frame
          BY <1>1, <3>1, <4>1
        <5>2. k # 1 => 1 < k
          BY <4>1
        <5>3. k # 1 => targetStack[1].watcher < targetStack[k].watcher
          BY <3>1, <4>1, <5>2 DEF React!TypeOK
        <5> QED
          BY <5>1, <5>3, VueAssumption
          DEF Frame, React!Watcher, React!View, React!ReactiveAssumption
      <4> QED
        BY <4>2, <4>3
    <3> QED
      BY <3>1
  <2>3. f.watcher = w
    BY DEF f
  <2>4. CASE i = 1
    BY <2>1, <2>2, <2>3, <2>4
  <2>5. CASE i # 1
    BY <2>1, <2>5 DEF React!TypeOK
  <2> QED
    BY <2>4, <2>5
<1>5. /\ targetStack'[1] = f
      /\ \A i \in DOMAIN targetStack : targetStack'[i + 1] = targetStack[i]
  BY <1>1, <1>3
<1> QED
  BY <1>1, <1>2, <1>3, <1>4, <1>5 DEF f

\* The evaluation on top goes on to an operand, or to its end.
LEMMA ContinueStep ==
  ASSUME React!TypeOK, React!InGetter, React!frame.operand # 3, NEW v \in BOOLEAN,
         React!Continue(v)
  PROVE  /\ targetStack' \in Seq(Frame) /\ Nested(targetStack')
         /\ Len(targetStack') = Len(targetStack) /\ DOMAIN targetStack' = DOMAIN targetStack
         /\ targetStack'[1].watcher = targetStack[1].watcher
         /\ targetStack'[1].operand = IF v THEN targetStack[1].operand + 1 ELSE 3
         /\ targetStack'[1].result = v
         /\ \A i \in DOMAIN targetStack : i # 1 => targetStack'[i] = targetStack[i]
         /\ back' = FALSE
<1>1. /\ targetStack \in Seq(Frame) /\ 1 \in 1 .. Len(targetStack)
      /\ targetStack[1].operand \in {1, 2}
      /\ React!frame = targetStack[1] /\ targetStack[1] \in Frame
  <2>1. targetStack \in Seq(Frame) /\ targetStack # <<>>
    BY DEF React!TypeOK, React!InGetter, Frame
  <2>2. 1 \in 1 .. Len(targetStack) /\ React!frame = targetStack[1]
    BY <2>1 DEF React!frame
  <2>3. targetStack[1] \in Frame
    BY <2>1, <2>2
  <2> QED
    BY <2>1, <2>2, <2>3 DEF Frame
<1> DEFINE f == [watcher |-> targetStack[1].watcher,
                 operand |-> IF v THEN targetStack[1].operand + 1 ELSE 3, result |-> v]
<1>2. f \in Frame
  BY <1>1 DEF Frame
<1>3. targetStack' = [targetStack EXCEPT ![1] = f] /\ back' = FALSE
  BY <1>1 DEF React!Continue, React!target
<1> HIDE DEF f
<1>4. /\ targetStack' \in Seq(Frame) /\ Len(targetStack') = Len(targetStack)
      /\ \A j \in 1 .. Len(targetStack) : targetStack'[j] = IF j = 1 THEN f ELSE targetStack[j]
  BY <1>1, <1>2, <1>3, ExceptSeq
<1>5. \A j \in 1 .. Len(targetStack) : targetStack'[j].watcher = targetStack[j].watcher
  BY <1>4 DEF f
<1>6. DOMAIN targetStack = 1 .. Len(targetStack) /\ DOMAIN targetStack' = 1 .. Len(targetStack)
  BY <1>1, <1>4
<1>7. Nested(targetStack')
  BY <1>5, <1>6 DEF Nested, React!TypeOK
<1> QED
  BY <1>1, <1>3, <1>4, <1>6, <1>7 DEF f

\* The evaluation on top ends.
LEMMA ReturnStep ==
  ASSUME React!TypeOK, React!InGetter, targetStack' = Tail(targetStack)
  PROVE  /\ targetStack' \in Seq(Frame) /\ Nested(targetStack')
         /\ Len(targetStack') = Len(targetStack) - 1 /\ Len(targetStack) \in Nat
         /\ DOMAIN targetStack' = 1 .. Len(targetStack')
         /\ DOMAIN targetStack = 1 .. Len(targetStack)
         /\ \A i \in DOMAIN targetStack' : targetStack'[i] = targetStack[i + 1]
         /\ 1 \in DOMAIN targetStack /\ targetStack[1] \in Frame
         /\ React!frame = targetStack[1]
<1>1. targetStack \in Seq(Frame) /\ targetStack # <<>>
  BY DEF React!TypeOK, React!InGetter, Frame
<1>2. /\ targetStack' \in Seq(Frame)
      /\ Len(targetStack') = Len(targetStack) - 1
      /\ \A i \in 1 .. Len(targetStack') : targetStack'[i] = targetStack[i + 1]
  BY <1>1, HeadTailProperties
<1>3. /\ DOMAIN targetStack' = 1 .. Len(targetStack') /\ Len(targetStack) \in Nat
      /\ DOMAIN targetStack = 1 .. Len(targetStack)
      /\ 1 \in DOMAIN targetStack /\ targetStack[1] \in Frame
      /\ React!frame = targetStack[1]
  BY <1>1, <1>2 DEF React!frame
<1>4. Nested(targetStack')
  <2>1. \A i \in DOMAIN targetStack' : i + 1 \in DOMAIN targetStack /\ i \in Nat
    BY <1>2, <1>3
  <2> QED
    BY <1>2, <1>3, <2>1 DEF Nested, React!TypeOK
<1> QED
  BY <1>2, <1>3, <1>4
StackOK == targetStack \in Seq(Frame) /\ Nested(targetStack)

LEMMA Types ==
  React!TypeOK <=>
    /\ \A w \in React!Watcher : getter[w] \in React!Operands(w) \X React!Operands(w)
    /\ pure \in BOOLEAN /\ throws \in BOOLEAN
    /\ val \in [Data -> BOOLEAN]
    /\ cache \in [React!Computed -> BOOLEAN] /\ dirty \in [React!Computed -> BOOLEAN]
    /\ queued \in BOOLEAN /\ shown \in BOOLEAN
    /\ deps \in [React!Watcher -> SUBSET Data] /\ newDeps \in [React!Watcher -> SUBSET Data]
    /\ subs \in [Data -> SUBSET React!Watcher]
    /\ StackOK
    /\ back \in BOOLEAN /\ failed \in BOOLEAN
  BY DEF React!TypeOK, StackOK, Frame, Nested

\* What an evaluation reads next comes before its watcher.
LEMMA ReadsBefore ==
  ASSUME React!TypeOK, NEW n, React!Reads(n)
  PROVE  /\ React!InGetter /\ targetStack[1] \in Frame /\ 1 \in DOMAIN targetStack
         /\ React!frame = targetStack[1] /\ React!target = targetStack[1].watcher
         /\ React!target \in React!Watcher
         /\ React!frame.operand \in {1, 2}
         /\ n = getter[React!target][React!frame.operand]
         /\ n \in React!Computed => n < React!target /\ n \in React!Watcher
<1>1. targetStack \in Seq(Frame) /\ targetStack # <<>>
  BY DEF React!TypeOK, React!Reads, React!InGetter, Frame
<1>2. /\ React!InGetter /\ targetStack[1] \in Frame /\ 1 \in DOMAIN targetStack
      /\ React!frame = targetStack[1] /\ React!target = targetStack[1].watcher
  BY <1>1 DEF React!InGetter, React!frame, React!target
<1>3. /\ React!target \in React!Watcher /\ React!frame.operand \in {1, 2}
      /\ n = getter[React!target][React!frame.operand]
  BY <1>2 DEF Frame, React!Reads
<1>4. n \in React!Operands(React!target)
  BY <1>3 DEF React!TypeOK
<1>5. n \in React!Computed => n < React!target /\ n \in React!Watcher
  BY <1>3, <1>4, VueAssumption
  DEF React!Operands, React!Computed, React!Watcher, React!View, React!ReactiveAssumption
<1> QED
  BY <1>2, <1>3, <1>5

\* Dependencies have the right types, and subscriptions agree with them, after each of
\* the two ways in which they change.
DepsOK ==
  /\ deps \in [React!Watcher -> SUBSET Data] /\ newDeps \in [React!Watcher -> SUBSET Data]
  /\ subs \in [Data -> SUBSET React!Watcher]

LEMMA AddDepsStep ==
  ASSUME DepsOK, React!SubsAgree, React!target \in React!Watcher, NEW ds, ds \subseteq Data,
         React!AddDeps(ds)
  PROVE  DepsOK' /\ React!SubsAgree'
<1> DEFINE w == React!target
<1>1. /\ newDeps' = [newDeps EXCEPT ![w] = @ \cup ds] /\ deps' = deps
      /\ subs' = [d \in Data |-> IF d \in ds \ (newDeps[w] \cup deps[w])
                                   THEN subs[d] \cup {w} ELSE subs[d]]
  BY DEF React!AddDeps
<1>2. w \in React!Watcher
  OBVIOUS
<1> HIDE DEF w
<1>3. DepsOK'
  BY <1>1, <1>2 DEF DepsOK
<1>4. ASSUME NEW d \in Data, NEW v \in React!Watcher
      PROVE  v \in subs'[d] <=> d \in deps'[v] \cup newDeps'[v]
  <2>1. v \in subs[d] <=> d \in deps[v] \cup newDeps[v]
    BY DEF React!SubsAgree
  <2>2. newDeps'[v] = IF v = w THEN newDeps[v] \cup ds ELSE newDeps[v]
    BY <1>1, <1>2 DEF DepsOK
  <2>3. v \in subs'[d] <=> v \in subs[d] \/ (v = w /\ d \in ds \ (newDeps[w] \cup deps[w]))
    BY <1>1
  <2> QED
    BY <1>1, <2>1, <2>2, <2>3
<1> QED
  BY <1>3, <1>4 DEF React!SubsAgree, DepsOK

LEMMA CleanupDepsStep ==
  ASSUME DepsOK, React!SubsAgree, NEW ws, ws \subseteq React!Watcher, React!CleanupDeps(ws)
  PROVE  DepsOK' /\ React!SubsAgree'
<1>1. DepsOK'
  BY DEF React!CleanupDeps, DepsOK
<1>2. ASSUME NEW d \in Data, NEW v \in React!Watcher
      PROVE  v \in subs'[d] <=> d \in deps'[v] \cup newDeps'[v]
  <2>1. v \in subs[d] <=> d \in deps[v] \cup newDeps[v]
    BY DEF React!SubsAgree
  <2>2. /\ deps'[v] = IF v \in ws THEN newDeps[v] ELSE deps[v]
        /\ newDeps'[v] = IF v \in ws THEN {} ELSE newDeps[v]
        /\ v \in subs'[d] <=> v \in subs[d] /\ ~(v \in ws /\ d \in deps[v] \ newDeps[v])
    BY DEF React!CleanupDeps
  <2> QED
    BY <2>1, <2>2
<1> QED
  BY <1>1, <1>2 DEF React!SubsAgree, DepsOK

ReactTypes == React!TypeOK /\ React!SubsAgree

LEMMA ReactTypesInit == React!Init => ReactTypes
<1> SUFFICES ASSUME React!Init PROVE ReactTypes
  OBVIOUS
<1>1. StackOK
  BY DEF React!Init, StackOK, Nested
<1>2. DepsOK
  BY DEF React!Init, DepsOK
<1>3. React!SubsAgree
  BY DEF React!Init, React!SubsAgree
<1> QED
  BY <1>1, <1>2, <1>3, Types DEF React!Init, ReactTypes, DepsOK

LEMMA ReactTypesStep == ReactTypes /\ [React!Next]_(React!vars) => ReactTypes'
<1> SUFFICES ASSUME ReactTypes, [React!Next]_(React!vars) PROVE ReactTypes'
  OBVIOUS
<1> USE DEF ReactTypes
<1>0. React!TypeOK /\ DepsOK /\ StackOK
  BY Types DEF DepsOK
<1>1. ASSUME UNCHANGED <<getter, pure, throws>>, StackOK', DepsOK', React!SubsAgree',
             val' \in [Data -> BOOLEAN], cache' \in [React!Computed -> BOOLEAN],
             dirty' \in [React!Computed -> BOOLEAN],
             queued' \in BOOLEAN, shown' \in BOOLEAN, back' \in BOOLEAN, failed' \in BOOLEAN
      PROVE  ReactTypes'
  <2>1. \A w \in React!Watcher : getter'[w] \in React!Operands(w) \X React!Operands(w)
    BY <1>0, <1>1 DEF React!TypeOK
  <2>2. pure' \in BOOLEAN /\ throws' \in BOOLEAN
    BY <1>0, <1>1 DEF React!TypeOK
  <2> QED
    BY <1>1, <2>1, <2>2 DEF React!TypeOK, StackOK, Nested, Frame, DepsOK
<1>2. ASSUME NEW d \in Data, React!Set(d) PROVE ReactTypes'
  <2>1. StackOK' /\ DepsOK' /\ React!SubsAgree'
    BY <1>0, <1>2
    DEF React!Set, React!depVars, React!stackVars, StackOK, DepsOK, React!SubsAgree
  <2> QED
    BY <1>0, <1>1, <1>2, <2>1
    DEF React!Set, React!Notify, React!getterVars, React!stackVars, React!TypeOK
<1>3. ASSUME NEW w \in React!Watcher, React!Begin(w), React!InGetter => w < React!target,
             queued' \in BOOLEAN,
             UNCHANGED <<React!getterVars, val, cache, dirty, shown, React!depVars, failed>>
      PROVE  ReactTypes'
  <2>1. StackOK' /\ back' \in BOOLEAN
    BY <1>0, <1>3, BeginStep DEF StackOK
  <2>2. DepsOK' /\ React!SubsAgree'
    BY <1>0, <1>3 DEF React!depVars, DepsOK, React!SubsAgree
  <2> QED
    BY <1>0, <1>1, <1>3, <2>1, <2>2 DEF React!getterVars, React!TypeOK
<1>4. CASE React!RunView
  <2>1. React!View \in React!Watcher
    BY VueAssumption DEF React!View, React!Watcher, React!ReactiveAssumption
  <2> QED
    BY <1>3, <1>4, <2>1 DEF React!RunView
<1>5. ASSUME NEW c \in React!Computed, React!ReadOutside(c) \/ React!Evaluate(c)
      PROVE  ReactTypes'
  <2>1. c \in React!Watcher
    BY VueAssumption DEF React!Computed, React!View, React!Watcher, React!ReactiveAssumption
  <2>2. React!InGetter => c < React!target
    BY <1>0, <1>5, ReadsBefore DEF React!ReadOutside, React!Evaluate
  <2> QED
    BY <1>0, <1>3, <1>5, <2>1, <2>2 DEF React!ReadOutside, React!Evaluate, React!TypeOK
<1>6. ASSUME NEW n, React!Reads(n), NEW ds, ds \subseteq Data, React!AddDeps(ds),
             NEW v \in BOOLEAN, React!Continue(v),
             UNCHANGED <<React!getterVars, val, cache, dirty, queued, shown, failed>>
      PROVE  ReactTypes'
  <2>1. React!InGetter /\ React!frame.operand # 3 /\ React!target \in React!Watcher
    BY <1>0, <1>6, ReadsBefore
  <2>2. StackOK' /\ back' \in BOOLEAN
    BY <1>0, <1>6, <2>1, ContinueStep DEF StackOK
  <2>3. DepsOK' /\ React!SubsAgree'
    BY <1>0, <1>6, <2>1, AddDepsStep
  <2> QED
    BY <1>0, <1>1, <1>6, <2>2, <2>3 DEF React!getterVars, React!TypeOK
<1>7. ASSUME NEW d \in Data, React!ReadData(d) PROVE ReactTypes'
  BY <1>0, <1>6, <1>7 DEF React!ReadData, React!TypeOK
<1>8. ASSUME NEW c \in React!Computed, React!ReadCached(c) PROVE ReactTypes'
  <2>1. deps[c] \subseteq Data /\ cache[c] \in BOOLEAN
    BY <1>0, VueAssumption
    DEF React!TypeOK, React!Computed, React!View, React!Watcher, React!ReactiveAssumption
  <2> QED
    BY <1>0, <1>6, <1>8, <2>1 DEF React!ReadCached
<1>9. CASE React!Return
  <2>1. React!InGetter /\ targetStack' = Tail(targetStack) /\ back' \in BOOLEAN
    BY <1>9 DEF React!Return
  <2>2. StackOK' /\ React!frame \in Frame
    BY <1>0, <2>1, ReturnStep DEF StackOK
  <2>3. React!target \in React!Watcher /\ React!frame.result \in BOOLEAN
    BY <2>2 DEF Frame, React!target
  <2>4. DepsOK' /\ React!SubsAgree'
    BY <1>0, <1>9, <2>3, CleanupDepsStep DEF React!Return
  <2>5. /\ UNCHANGED <<getter, pure, throws, val, queued>>
        /\ cache' \in [React!Computed -> BOOLEAN] /\ dirty' \in [React!Computed -> BOOLEAN]
        /\ shown' \in BOOLEAN /\ failed' \in BOOLEAN
    BY <1>0, <1>9, <2>3 DEF React!Return, React!getterVars, React!TypeOK
  <2> QED
    BY <1>0, <1>1, <2>1, <2>2, <2>4, <2>5 DEF React!TypeOK
<1>10. CASE React!Throw
  <2> DEFINE evaluated == {targetStack[i].watcher : i \in DOMAIN targetStack}
  <2>1. evaluated \subseteq React!Watcher
    <3>1. \A i \in DOMAIN targetStack : targetStack[i] \in Frame
      BY <1>0 DEF StackOK
    <3> QED
      BY <3>1 DEF Frame
  <2>2. React!CleanupDeps(evaluated) /\ targetStack' = <<>>
    BY <1>10 DEF React!Throw
  <2>3. failed' = (failed \/ React!View \in evaluated)
    BY <1>10 DEF React!Throw
  <2> HIDE DEF evaluated
  <2>4. DepsOK' /\ React!SubsAgree'
    BY <1>0, <2>1, <2>2, CleanupDepsStep
  <2>5. StackOK'
    BY <2>2 DEF StackOK, Nested
  <2> QED
    BY <1>0, <1>1, <1>10, <2>3, <2>4, <2>5 DEF React!Throw, React!getterVars, React!TypeOK
<1>11. CASE UNCHANGED React!vars
  BY <1>0, <1>11
  DEF React!vars, React!getterVars, React!depVars, React!stackVars, React!TypeOK, React!SubsAgree
<1> QED
  BY <1>2, <1>4, <1>5, <1>7, <1>8, <1>9, <1>10, <1>11 DEF React!Next
-----------------------------------------------------------------------------
\* What an evaluation has read so far is what it has to have read.
ReadSoFar(f) ==
  LET w == f.watcher
  IN  /\ f.operand = 1 => newDeps[w] = {}
      /\ f.operand = 2 => Value(getter[w][1]) /\ newDeps[w] = Reading(getter[w][1])
      /\ f.operand = 3 => newDeps[w] = React!Read[w] /\ f.result = React!True[w]

Progress == \A i \in DOMAIN targetStack : ReadSoFar(targetStack[i])

\* Only what is dirty is evaluated, and each evaluation is for the one below it.
Chained ==
  \A i \in DOMAIN targetStack :
    LET f == targetStack[i]
    IN  /\ f.watcher \in React!Computed => dirty[f.watcher]
        /\ i # 1 => f.operand # 3 /\ getter[f.watcher][f.operand] = targetStack[i - 1].watcher

Evaluated(w) == \E i \in DOMAIN targetStack : targetStack[i].watcher = w

OthersIdle == \A w \in React!Watcher : ~Evaluated(w) => newDeps[w] = {}

ReturnedClean ==
  back => /\ targetStack # <<>> /\ targetStack[1].operand # 3
          /\ \E c \in React!Computed :
               getter[targetStack[1].watcher][targetStack[1].operand] = c /\ ~dirty[c]

CleanIsExact ==
  \A c \in React!Computed : ~dirty[c] => cache[c] = React!True[c] /\ deps[c] = React!Read[c]

ViewIsExact ==
  ~Evaluated(React!View) /\ ~queued /\ ~failed =>
    shown = React!True[React!View] /\ deps[React!View] = React!Read[React!View]

Exact ==
  Progress /\ Chained /\ OthersIdle /\ ReturnedClean /\ CleanIsExact /\ ViewIsExact

LEMMA ExactInit == React!Init => Exact
<1> SUFFICES ASSUME React!Init PROVE Exact
  OBVIOUS
<1>1. DOMAIN targetStack = {}
  BY DEF React!Init
<1>2. Progress /\ Chained /\ ReturnedClean
  BY <1>1 DEF React!Init, Progress, Chained, ReturnedClean
<1>3. OthersIdle /\ CleanIsExact /\ ViewIsExact
  BY DEF React!Init, OthersIdle, CleanIsExact, ViewIsExact
<1> QED
  BY <1>2, <1>3 DEF Exact

\* The numbers of watchers.
LEMMA Numbers ==
  /\ React!Watcher = 1 .. React!View /\ React!Computed = 1 .. React!View - 1
  /\ React!View \in Nat \ {0} /\ Data \cap React!Watcher = {}
  /\ React!View \in React!Watcher /\ React!Computed \subseteq React!Watcher
  /\ \A w \in React!Watcher : w \notin React!Computed <=> w = React!View
  BY VueAssumption DEF React!View, React!Computed, React!Watcher, React!ReactiveAssumption

\* Data change between evaluations only.
LEMMA SetExact ==
  ASSUME React!TypeOK, React!SubsAgree, pure, Exact, NEW d \in Data, React!Set(d), React!TypeOK'
  PROVE  Exact'
<1>1. targetStack = <<>> /\ targetStack' = <<>> /\ back' = back
  BY DEF React!Set, React!InGetter, React!stackVars
<1>2. UNCHANGED <<getter, cache, shown, deps, newDeps, failed>>
  BY DEF React!Set, React!getterVars, React!depVars
<1>3. Progress' /\ Chained' /\ ReturnedClean'
  BY <1>1 DEF Progress, Chained, ReturnedClean, Exact
<1>4. \A w \in React!Watcher : ~Evaluated(w) /\ ~Evaluated(w)'
  BY <1>1 DEF Evaluated
<1>5. OthersIdle'
  BY <1>2, <1>4 DEF Exact, OthersIdle
\* Whoever reads d is notified.
<1>6. ASSUME NEW w \in React!Watcher, w \notin subs[d], deps[w] = React!Read[w]
      PROVE  React!True'[w] = React!True[w] /\ React!Read'[w] = React!Read[w]
  <2>1. d \notin React!Read[w]
    BY <1>6 DEF React!SubsAgree
  <2>2. /\ val \in [Data -> BOOLEAN] /\ val' \in [Data -> BOOLEAN]
        /\ \A e \in Data : e # d => val'[e] = val[e]
        /\ GettersOf(getter)
    BY DEF React!Set, React!TypeOK, React!Operands, GettersOf
  <2>3. ReadOf(getter, val)[w] \subseteq Data
    BY <2>2, ReadEquation
  <2>4. \A e \in ReadOf(getter, val)[w] : val'[e] = val[e]
    BY <2>1, <2>2, <2>3, ReadNames
  <2>5. /\ TrueOf(getter, val')[w] = TrueOf(getter, val)[w]
        /\ ReadOf(getter, val')[w] = ReadOf(getter, val)[w]
    BY <2>2, <2>4, Unread
  <2> QED
    BY <1>2, <2>5, TrueNames, ReadNames
<1>7. CleanIsExact'
  <2>1. ASSUME NEW c \in React!Computed, ~dirty'[c]
        PROVE  cache'[c] = React!True'[c] /\ deps'[c] = React!Read'[c]
    <3>1. ~dirty[c] /\ c \notin subs[d]
      BY <2>1 DEF React!Set, React!Notify
    <3>2. cache[c] = React!True[c] /\ deps[c] = React!Read[c]
      BY <3>1 DEF Exact, CleanIsExact
    <3> QED
      BY <1>2, <1>6, <3>1, <3>2, Numbers
  <2> QED
    BY <2>1 DEF CleanIsExact
<1>8. ViewIsExact'
  <2> SUFFICES ASSUME ~queued', ~failed'
               PROVE  /\ shown' = React!True'[React!View]
                      /\ deps'[React!View] = React!Read'[React!View]
    BY DEF ViewIsExact
  <2>1. ~queued /\ React!View \notin subs[d] /\ ~failed
    <3>1. queued' = (queued \/ React!View \in subs[d]) /\ failed' = failed
      BY <1>2 DEF React!Set, React!Notify
    <3> QED
      BY <3>1
  <2>2. shown = React!True[React!View] /\ deps[React!View] = React!Read[React!View]
    BY <1>4, <2>1, Numbers DEF Exact, ViewIsExact
  <2> QED
    BY <1>2, <1>6, <2>1, <2>2, Numbers
<1> QED
  BY <1>3, <1>5, <1>7, <1>8 DEF Exact
\* An evaluation begins: that of the view, when it is run, or that of a computed property
\* which is dirty, for the evaluation on top if there is one.
LEMMA BeginExact ==
  ASSUME React!TypeOK, Exact, NEW w \in React!Watcher, React!Begin(w),
         React!InGetter => w < React!target /\ React!Reads(w),
         w \in React!Computed => dirty[w] /\ queued' = queued,
         UNCHANGED <<React!getterVars, val, cache, dirty, shown, React!depVars, failed>>
  PROVE  Exact'
<1>1. /\ Len(targetStack') = Len(targetStack) + 1
      /\ targetStack' \in Seq(Frame) /\ targetStack \in Seq(Frame)
      /\ targetStack'[1] = [watcher |-> w, operand |-> 1, result |-> FALSE]
      /\ \A i \in DOMAIN targetStack : targetStack'[i + 1] = targetStack[i]
      /\ back' = FALSE
  BY BeginStep, Types DEF StackOK
<1>2. /\ UNCHANGED <<getter, val, cache, dirty, shown, deps, newDeps, failed>>
      /\ UNCHANGED <<React!True, React!Read>>
  BY Unchanged DEF React!getterVars, React!depVars
\* The new frame is the first one, the others are as before.
<1>3. \A i \in DOMAIN targetStack' :
        i = 1 \/ (i - 1 \in DOMAIN targetStack /\ targetStack'[i] = targetStack[i - 1])
  <2>1. ASSUME NEW i \in DOMAIN targetStack', i # 1
        PROVE  i - 1 \in DOMAIN targetStack /\ targetStack'[i] = targetStack[i - 1]
    <3>1. i - 1 \in DOMAIN targetStack /\ (i - 1) + 1 = i
      BY <1>1, <2>1
    <3> QED
      BY <1>1, <3>1
  <2> QED
    BY <2>1
<1>4. ~Evaluated(w)
  <2> SUFFICES ASSUME NEW i \in DOMAIN targetStack, targetStack[i].watcher = w PROVE FALSE
    BY DEF Evaluated
  <2>1. React!InGetter /\ 1 \in DOMAIN targetStack /\ w < targetStack[1].watcher
    BY <1>1 DEF React!InGetter, React!target, React!frame
  <2>2. targetStack[1] \in Frame /\ targetStack[i] \in Frame
    BY <1>1, <2>1
  <2>3. i = 1 \/ targetStack[1].watcher < targetStack[i].watcher
    <3>1. i # 1 => 1 < i
      BY <1>1
    <3> QED
      BY <2>1, <3>1 DEF React!TypeOK
  <2> QED
    BY <2>1, <2>2, <2>3, Numbers DEF Frame
<1>5. \A v \in React!Watcher : Evaluated(v)' <=> v = w \/ Evaluated(v)
  <2>1. ASSUME NEW v \in React!Watcher, Evaluated(v)
        PROVE  Evaluated(v)'
    <3>1. PICK i \in DOMAIN targetStack : targetStack[i].watcher = v
      BY <2>1 DEF Evaluated
    <3>2. i + 1 \in DOMAIN targetStack' /\ targetStack'[i + 1] = targetStack[i]
      BY <1>1
    <3> QED
      BY <3>1, <3>2 DEF Evaluated
  <2>2. Evaluated(w)'
    <3>1. 1 \in DOMAIN targetStack' /\ targetStack'[1].watcher = w
      BY <1>1
    <3> QED
      BY <3>1 DEF Evaluated
  <2>3. ASSUME NEW v \in React!Watcher, Evaluated(v)', v # w
        PROVE  Evaluated(v)
    <3>1. PICK i \in DOMAIN targetStack' : targetStack'[i].watcher = v
      BY <2>3 DEF Evaluated
    <3>2. i # 1
      BY <1>1, <2>3, <3>1
    <3> QED
      BY <1>3, <3>1, <3>2 DEF Evaluated
  <2> QED
    BY <2>1, <2>2, <2>3
<1>6. Progress'
  <2> SUFFICES ASSUME NEW i \in DOMAIN targetStack'
               PROVE  ReadSoFar(targetStack[i])'
    BY DEF Progress
  <2>1. CASE i = 1
    BY <1>1, <1>2, <1>4, <2>1 DEF Exact, OthersIdle, ReadSoFar
  <2>2. CASE i # 1
    <3>1. ReadSoFar(targetStack[i - 1]) /\ targetStack'[i] = targetStack[i - 1]
      BY <1>3, <2>2 DEF Exact, Progress, ReadSoFar
    <3> QED
      BY <1>2, <3>1 DEF ReadSoFar, Value, Reading
  <2> QED
    BY <2>1, <2>2
<1>7. Chained'
  <2>1. ASSUME NEW i \in DOMAIN targetStack'
        PROVE  targetStack'[i].watcher \in React!Computed => dirty'[targetStack'[i].watcher]
    BY <1>1, <1>2, <1>3 DEF Exact, Chained
  <2>2. ASSUME NEW i \in DOMAIN targetStack', i # 1
        PROVE  /\ targetStack'[i].operand # 3
               /\ getter'[targetStack'[i].watcher][targetStack'[i].operand] = targetStack'[i - 1].watcher
    <3>1. CASE i = 2
      <4>1. 1 \in DOMAIN targetStack /\ React!InGetter /\ targetStack'[2] = targetStack[1]
        BY <1>1, <1>3, <2>2, <3>1 DEF React!InGetter
      <4>2. React!Reads(w)
        BY <4>1
      <4> QED
        BY <1>1, <1>2, <3>1, <4>1, <4>2 DEF React!Reads, React!frame, React!target
    <3>2. CASE i # 2
      <4>1. /\ i - 1 \in DOMAIN targetStack /\ i - 1 # 1 /\ targetStack'[i] = targetStack[i - 1]
            /\ i - 1 \in DOMAIN targetStack' /\ i \in Nat
        BY <1>1, <1>3, <2>2, <3>2
      <4>2. targetStack'[i - 1] = targetStack[(i - 1) - 1]
        BY <1>3, <4>1
      <4> QED
        BY <1>2, <4>1, <4>2 DEF Exact, Chained
    <3> QED
      BY <3>1, <3>2
  <2> QED
    BY <2>1, <2>2 DEF Chained
<1>8. OthersIdle'
  BY <1>2, <1>5 DEF Exact, OthersIdle
<1>9. ReturnedClean' /\ CleanIsExact'
  BY <1>1, <1>2 DEF Exact, ReturnedClean, CleanIsExact
<1>10. ViewIsExact'
  <2>1. CASE w = React!View
    BY <1>5, <2>1 DEF ViewIsExact
  <2>2. CASE w # React!View
    <3>1. queued' = queued
      BY <2>2, Numbers
    <3> QED
      BY <1>2, <1>5, <3>1, Numbers DEF Exact, ViewIsExact
  <2> QED
    BY <2>1, <2>2
<1> QED
  BY <1>6, <1>7, <1>8, <1>9, <1>10 DEF Exact

\* The evaluation on top reads an operand: what it has read is extended by what the
\* operand reads, and the value decides whether that is all.
LEMMA ReadExact ==
  ASSUME React!TypeOK, Exact, NEW n, React!Reads(n), NEW v \in BOOLEAN, v = Value(n),
         React!AddDeps(Reading(n)), React!Continue(v),
         UNCHANGED <<React!getterVars, val, cache, dirty, queued, shown, failed>>
  PROVE  Exact'
<1>1. /\ React!InGetter /\ targetStack[1] \in Frame /\ 1 \in DOMAIN targetStack
      /\ React!target = targetStack[1].watcher /\ React!frame = targetStack[1]
      /\ targetStack[1].watcher \in React!Watcher
      /\ targetStack[1].operand \in {1, 2}
      /\ n = getter[targetStack[1].watcher][targetStack[1].operand]
  BY ReadsBefore
<1>2. /\ DOMAIN targetStack' = DOMAIN targetStack
      /\ targetStack'[1].watcher = targetStack[1].watcher
      /\ targetStack'[1].operand = IF v THEN targetStack[1].operand + 1 ELSE 3
      /\ targetStack'[1].result = v
      /\ \A i \in DOMAIN targetStack : i # 1 => targetStack'[i] = targetStack[i]
      /\ back' = FALSE
      /\ targetStack \in Seq(Frame)
  <2>1. React!frame.operand # 3 /\ targetStack \in Seq(Frame)
    BY <1>1, Types DEF StackOK
  <2> QED
    BY <1>1, <2>1, ContinueStep
<1>3. /\ UNCHANGED <<getter, val, cache, dirty, queued, shown, failed>>
      /\ UNCHANGED <<React!True, React!Read>>
  BY Unchanged DEF React!getterVars
<1> DEFINE w == targetStack[1].watcher
<1>4. /\ deps' = deps
      /\ newDeps'[w] = newDeps[w] \cup Reading(n)
      /\ \A x \in React!Watcher : x # w => newDeps'[x] = newDeps[x]
  BY <1>1 DEF React!AddDeps, React!TypeOK
<1>5. \A i \in DOMAIN targetStack : targetStack'[i].watcher = targetStack[i].watcher
  BY <1>2
<1>6. \A x : Evaluated(x)' <=> Evaluated(x)
  BY <1>2, <1>5 DEF Evaluated
<1>7. /\ targetStack'[1].operand # 1
      /\ targetStack'[1].operand = 2 => Value(getter[w][1]) /\ newDeps'[w] = Reading(getter[w][1])
      /\ targetStack'[1].operand = 3 => newDeps'[w] = React!Read[w] /\ v = React!True[w]
  <2>1. /\ React!True[w] = (Value(getter[w][1]) /\ Value(getter[w][2]))
        /\ React!Read[w] = Reading(getter[w][1]) \cup
                             IF Value(getter[w][1]) THEN Reading(getter[w][2]) ELSE {}
        /\ React!True[w] \in BOOLEAN
    BY <1>1, Operands
  <2>2. CASE targetStack[1].operand = 1
    <3>1. newDeps'[w] = Reading(getter[w][1]) /\ v = Value(getter[w][1])
      BY <1>1, <1>4, <2>2 DEF Exact, Progress, ReadSoFar
    <3> QED
      BY <1>2, <2>1, <2>2, <3>1
  <2>3. CASE targetStack[1].operand = 2
    <3>1. /\ Value(getter[w][1]) /\ v = Value(getter[w][2])
          /\ newDeps'[w] = Reading(getter[w][1]) \cup Reading(getter[w][2])
      BY <1>1, <1>4, <2>3 DEF Exact, Progress, ReadSoFar
    <3>2. targetStack'[1].operand = 3
      BY <1>2, <2>3
    <3>3. React!True[w] = v
      BY <2>1, <3>1
    <3> QED
      BY <2>1, <3>1, <3>2, <3>3
  <2> QED
    BY <1>1, <2>2, <2>3
<1>8. Progress'
  <2> SUFFICES ASSUME NEW i \in DOMAIN targetStack
               PROVE  ReadSoFar(targetStack[i])'
    BY <1>2 DEF Progress
  <2>1. CASE i = 1
    BY <1>2, <1>3, <1>7, <2>1 DEF ReadSoFar, Value, Reading
  <2>2. CASE i # 1
    <3>1. targetStack[i].watcher \in React!Watcher /\ targetStack[i].watcher # w
      <4>1. targetStack[i] \in Frame /\ 1 < i
        BY <1>2, <2>2
      <4>2. w < targetStack[i].watcher
        BY <1>1, <4>1 DEF React!TypeOK
      <4> QED
        BY <1>1, <4>1, <4>2, Numbers DEF Frame
    <3>2. targetStack'[i] = targetStack[i] /\ newDeps'[targetStack[i].watcher] = newDeps[targetStack[i].watcher]
      BY <1>2, <1>4, <2>2, <3>1
    <3>3. ReadSoFar(targetStack[i])
      BY DEF Exact, Progress, ReadSoFar
    <3> QED
      BY <1>3, <3>2, <3>3 DEF ReadSoFar, Value, Reading
  <2> QED
    BY <2>1, <2>2
<1>9. Chained'
  <2>1. \A i \in DOMAIN targetStack : i # 1 => i - 1 \in DOMAIN targetStack
    BY <1>2
  <2> QED
    BY <1>2, <1>3, <1>5, <2>1 DEF Exact, Chained
<1>10. OthersIdle'
  <2>1. Evaluated(w)
    BY <1>1 DEF Evaluated
  <2> QED
    BY <1>4, <1>6, <2>1 DEF Exact, OthersIdle
<1>11. ReturnedClean' /\ CleanIsExact' /\ ViewIsExact'
  BY <1>2, <1>3, <1>4, <1>6 DEF Exact, ReturnedClean, CleanIsExact, ViewIsExact
<1> QED
  BY <1>8, <1>9, <1>10, <1>11 DEF Exact
\* The getter on top returns: its watcher is clean, and the evaluation below, if there
\* is one, has what it waited for.
LEMMA ReturnExact ==
  ASSUME React!TypeOK, Exact, React!Return
  PROVE  Exact'
<1> DEFINE w == targetStack[1].watcher
<1>1. /\ Len(targetStack') = Len(targetStack) - 1 /\ Len(targetStack) \in Nat
      /\ DOMAIN targetStack' = 1 .. Len(targetStack')
      /\ DOMAIN targetStack = 1 .. Len(targetStack)
      /\ \A i \in DOMAIN targetStack' : targetStack'[i] = targetStack[i + 1]
      /\ 1 \in DOMAIN targetStack /\ targetStack[1] \in Frame
      /\ React!frame = targetStack[1] /\ React!target = w
      /\ targetStack[1].operand = 3
      /\ back' = (Len(targetStack) > 1)
  BY ReturnStep DEF React!Return, React!target
<1>2. /\ UNCHANGED <<getter, val, queued>>
      /\ UNCHANGED <<React!True, React!Read>>
  BY Unchanged DEF React!Return, React!getterVars
<1>3. w \in React!Watcher /\ newDeps[w] = React!Read[w] /\ targetStack[1].result = React!True[w]
  BY <1>1 DEF Frame, Exact, Progress, ReadSoFar
<1>4. /\ deps' = [v \in React!Watcher |-> IF v \in {w} THEN newDeps[v] ELSE deps[v]]
      /\ newDeps' = [v \in React!Watcher |-> IF v \in {w} THEN {} ELSE newDeps[v]]
  BY <1>1 DEF React!Return, React!CleanupDeps
<1>5. \A i \in DOMAIN targetStack' :
        /\ i + 1 \in DOMAIN targetStack /\ i + 1 # 1
        /\ targetStack'[i].watcher \in React!Watcher
        /\ w < targetStack'[i].watcher
  <2>1. ASSUME NEW i \in DOMAIN targetStack'
        PROVE  /\ i + 1 \in DOMAIN targetStack /\ i + 1 # 1
               /\ targetStack'[i].watcher \in React!Watcher
               /\ w < targetStack'[i].watcher
    <3>1. i + 1 \in DOMAIN targetStack /\ i + 1 # 1 /\ 1 < i + 1
      BY <1>1, <2>1
    <3>2. targetStack[i + 1] \in Frame
      BY <3>1, Types DEF StackOK
    <3>3. w < targetStack[i + 1].watcher
      BY <1>1, <3>1 DEF React!TypeOK
    <3> QED
      BY <1>1, <2>1, <3>1, <3>2, <3>3 DEF Frame
  <2> QED
    BY <2>1
<1>6. \A v \in React!Watcher : Evaluated(v)' <=> Evaluated(v) /\ v # w
  <2>1. ASSUME NEW v \in React!Watcher, Evaluated(v)'
        PROVE  Evaluated(v) /\ v # w
    <3>1. PICK i \in DOMAIN targetStack' : targetStack'[i].watcher = v
      BY <2>1 DEF Evaluated
    <3>2. Evaluated(v)
      BY <1>1, <1>5, <3>1 DEF Evaluated
    <3>3. v # w
      BY <1>3, <1>5, <3>1, Numbers
    <3> QED
      BY <3>2, <3>3
  <2>2. ASSUME NEW v \in React!Watcher, Evaluated(v), v # w
        PROVE  Evaluated(v)'
    <3>1. PICK i \in DOMAIN targetStack : targetStack[i].watcher = v
      BY <2>2 DEF Evaluated
    <3>2. i - 1 \in DOMAIN targetStack' /\ (i - 1) + 1 = i
      BY <1>1, <2>2, <3>1
    <3> QED
      BY <1>1, <3>1, <3>2 DEF Evaluated
  <2> QED
    BY <2>1, <2>2
<1>7. Progress'
  <2> SUFFICES ASSUME NEW i \in DOMAIN targetStack'
               PROVE  ReadSoFar(targetStack[i])'
    BY DEF Progress
  <2>1. ReadSoFar(targetStack[i + 1]) /\ targetStack'[i] = targetStack[i + 1]
    BY <1>1, <1>5 DEF Exact, Progress
  <2>2. newDeps'[targetStack'[i].watcher] = newDeps[targetStack'[i].watcher]
    <3>1. targetStack'[i].watcher # w
      BY <1>3, <1>5, Numbers
    <3> QED
      BY <1>4, <1>5, <3>1
  <2> QED
    BY <1>2, <2>1, <2>2 DEF ReadSoFar, Value, Reading
\* What becomes of the watcher's value.
<1>8. CASE w = React!View
  <2>1. /\ shown' = React!True[w] /\ failed' = FALSE
        /\ UNCHANGED <<cache, dirty>>
    BY <1>1, <1>3, <1>8 DEF React!Return
  <2>2. DOMAIN targetStack' = {}
    <3> SUFFICES ASSUME NEW i \in DOMAIN targetStack' PROVE FALSE
      OBVIOUS
    <3> QED
      BY <1>3, <1>5, <1>8, Numbers
  <2>3. Chained' /\ ReturnedClean'
    <3>1. ~back'
      <4>1. ~(1 \in DOMAIN targetStack')
        BY <2>2
      <4>2. ~(Len(targetStack) > 1)
        BY <1>1, <4>1
      <4> QED
        BY <1>1, <4>2
    <3> QED
      BY <2>2, <3>1 DEF Chained, ReturnedClean
  <2>4. OthersIdle'
    BY <1>4, <1>6 DEF Exact, OthersIdle
  <2>5. CleanIsExact'
    BY <1>2, <1>4, <1>8, <2>1, Numbers DEF Exact, CleanIsExact
  <2>6. ViewIsExact'
    BY <1>2, <1>3, <1>4, <1>8, <2>1, Numbers DEF ViewIsExact
  <2> QED
    BY <1>7, <2>3, <2>4, <2>5, <2>6 DEF Exact
<1>9. CASE w # React!View
  <2>1. /\ cache' = [cache EXCEPT ![w] = React!True[w]]
        /\ dirty' = [dirty EXCEPT ![w] = FALSE]
        /\ UNCHANGED <<shown, failed>>
        /\ w \in React!Computed
    BY <1>1, <1>3, <1>9, Numbers DEF React!Return
  <2>2. /\ cache'[w] = React!True[w] /\ ~dirty'[w]
        /\ \A c \in React!Computed : c # w => cache'[c] = cache[c] /\ dirty'[c] = dirty[c]
    BY <2>1 DEF React!TypeOK
  <2>3. Chained'
    <3> SUFFICES ASSUME NEW i \in DOMAIN targetStack'
                 PROVE  LET f == targetStack'[i]
                        IN  /\ f.watcher \in React!Computed => dirty'[f.watcher]
                            /\ i # 1 => /\ f.operand # 3
                                        /\ getter'[f.watcher][f.operand] = targetStack'[i - 1].watcher
      BY DEF Chained
    <3>1. /\ targetStack'[i] = targetStack[i + 1] /\ i + 1 \in DOMAIN targetStack /\ i + 1 # 1
          /\ targetStack'[i].watcher # w
          /\ i # 1 => targetStack'[i - 1] = targetStack[i]
          /\ (i + 1) - 1 = i
      BY <1>1, <1>3, <1>5, Numbers
    <3> QED
      BY <1>2, <2>2, <3>1 DEF Exact, Chained
  <2>4. ReturnedClean'
    <3> SUFFICES ASSUME back'
                 PROVE  /\ targetStack' # <<>> /\ targetStack'[1].operand # 3
                        /\ \E c \in React!Computed :
                             getter'[targetStack'[1].watcher][targetStack'[1].operand] = c /\ ~dirty'[c]
      BY DEF ReturnedClean
    <3>1. 2 \in DOMAIN targetStack /\ targetStack'[1] = targetStack[2] /\ 1 \in DOMAIN targetStack'
      <4>1. Len(targetStack) > 1
        BY <1>1
      <4>2. 2 \in DOMAIN targetStack /\ 1 \in DOMAIN targetStack'
        BY <1>1, <4>1
      <4> QED
        BY <1>1, <4>2
    <3>2. targetStack[2].operand # 3 /\ getter[targetStack[2].watcher][targetStack[2].operand] = w
      BY <3>1 DEF Exact, Chained
    <3> QED
      BY <1>2, <2>1, <2>2, <3>1, <3>2
  <2>5. OthersIdle'
    BY <1>4, <1>6 DEF Exact, OthersIdle
  <2>6. CleanIsExact'
    BY <1>2, <1>3, <1>4, <2>2, Numbers DEF Exact, CleanIsExact
  <2>7. ViewIsExact'
    BY <1>2, <1>4, <1>6, <1>9, <2>1, Numbers DEF Exact, ViewIsExact
  <2> QED
    BY <1>7, <2>3, <2>4, <2>5, <2>6, <2>7 DEF Exact
<1> QED
  BY <1>8, <1>9

\* A getter throws: whatever was being evaluated stays dirty.
LEMMA ThrowExact ==
  ASSUME React!TypeOK, Exact, React!Throw
  PROVE  Exact'
<1> DEFINE evaluated == {targetStack[i].watcher : i \in DOMAIN targetStack}
<1>1. /\ targetStack' = <<>> /\ ~back /\ back' = back
      /\ deps' = [w \in React!Watcher |-> IF w \in evaluated THEN newDeps[w] ELSE deps[w]]
      /\ newDeps' = [w \in React!Watcher |-> IF w \in evaluated THEN {} ELSE newDeps[w]]
      /\ failed' = (failed \/ React!View \in evaluated)
      /\ UNCHANGED <<getter, val, cache, dirty, queued, shown>>
  BY DEF React!Throw, React!CleanupDeps, React!getterVars
<1>2. \A w : w \in evaluated <=> Evaluated(w)
  BY DEF Evaluated
<1> HIDE DEF evaluated
<1>3. UNCHANGED <<React!True, React!Read>>
  BY <1>1, Unchanged
<1>4. DOMAIN targetStack' = {}
  BY <1>1
<1>5. Progress' /\ Chained' /\ ReturnedClean'
  BY <1>1, <1>4 DEF Progress, Chained, ReturnedClean
<1>6. OthersIdle'
  BY <1>1, <1>2 DEF Exact, OthersIdle
<1>7. CleanIsExact'
  <2>1. ASSUME NEW c \in React!Computed, ~dirty[c]
        PROVE  c \notin evaluated
    BY <1>2, <2>1 DEF Evaluated, Exact, Chained
  <2> QED
    BY <1>1, <1>3, <2>1, Numbers DEF Exact, CleanIsExact
<1>8. ViewIsExact'
  <2> SUFFICES ASSUME ~queued', ~failed'
               PROVE  /\ shown' = React!True'[React!View]
                      /\ deps'[React!View] = React!Read'[React!View]
    BY DEF ViewIsExact
  <2>1. ~failed /\ React!View \notin evaluated /\ ~queued
    BY <1>1
  <2> QED
    BY <1>1, <1>2, <1>3, <2>1, Numbers DEF Exact, ViewIsExact
<1> QED
  BY <1>5, <1>6, <1>7, <1>8 DEF Exact

LEMMA ExactStep ==
  ReactTypes /\ ReactTypes' /\ (pure => Exact) /\ [React!Next]_(React!vars) => (pure' => Exact')
<1> SUFFICES ASSUME ReactTypes, ReactTypes', pure => Exact, [React!Next]_(React!vars), pure'
             PROVE  Exact'
  OBVIOUS
<1> USE DEF ReactTypes
<1>1. pure
  BY DEF React!Next, React!vars, React!Set, React!ReadData, React!RunView, React!ReadOutside,
         React!Evaluate, React!ReadCached, React!Return, React!Throw, React!getterVars
<1>2. Exact /\ React!TypeOK
  BY <1>1
<1>3. ASSUME NEW d \in Data, React!Set(d)
      PROVE  Exact'
  BY <1>1, <1>2, <1>3, SetExact
<1>4. ASSUME NEW d \in Data, React!ReadData(d)
      PROVE  Exact'
  <2>1. val[d] \in BOOLEAN /\ val[d] = Value(d) /\ {d} = Reading(d)
    BY <1>2 DEF React!TypeOK, Value, Reading
  <2> QED
    BY <1>2, <1>4, <2>1, ReadExact DEF React!ReadData
<1>5. CASE React!RunView
  BY <1>2, <1>5, BeginExact, Numbers DEF React!RunView
<1>6. ASSUME NEW c \in React!Computed, React!ReadOutside(c)
      PROVE  Exact'
  BY <1>2, <1>6, BeginExact, Numbers DEF React!ReadOutside
<1>7. ASSUME NEW c \in React!Computed, React!Evaluate(c)
      PROVE  Exact'
  BY <1>2, <1>7, BeginExact, ReadsBefore, Numbers DEF React!Evaluate
<1>8. ASSUME NEW c \in React!Computed, React!ReadCached(c)
      PROVE  Exact'
  <2>1. ~dirty[c]
    BY <1>2, <1>8 DEF React!ReadCached, React!Reads, React!frame, React!target, Exact,
                      ReturnedClean
  <2>2. /\ c \notin Data
        /\ cache[c] \in BOOLEAN /\ cache[c] = Value(c) /\ deps[c] = Reading(c)
    BY <1>2, <2>1, Numbers DEF React!TypeOK, Exact, CleanIsExact, Value, Reading
  <2> QED
    BY <1>2, <1>8, <2>2, ReadExact DEF React!ReadCached
<1>9. CASE React!Return
  BY <1>2, <1>9, ReturnExact
<1>10. CASE React!Throw
  BY <1>2, <1>10, ThrowExact
<1>11. CASE UNCHANGED React!vars
  <2>1. UNCHANGED <<getter, val, cache, dirty, queued, shown, deps, newDeps, targetStack,
                    back, failed>>
    BY <1>11 DEF React!vars, React!getterVars, React!depVars, React!stackVars
  <2>2. UNCHANGED <<React!True, React!Read>>
    BY <2>1, Unchanged
  <2> QED
    BY <1>2, <2>1, <2>2
    DEF Exact, Progress, ReadSoFar, Value, Reading, Chained, Evaluated, OthersIdle,
        ReturnedClean, CleanIsExact, ViewIsExact
<1> QED
  BY <1>3, <1>4, <1>5, <1>6, <1>7, <1>8, <1>9, <1>10, <1>11 DEF React!Next

\* What the page promises of a view that is at rest.
LEMMA ExactImplies ==
  ReactTypes /\ (pure => Exact) => DependenciesAreRight
<1> SUFFICES ASSUME ReactTypes, pure => Exact PROVE DependenciesAreRight
  OBVIOUS
<1>1. React!DepsAreExact
  <2>1. ~React!InGetter => ~Evaluated(React!View)
    BY DEF React!InGetter, Evaluated
  <2> QED
    BY <2>1 DEF React!DepsAreExact, Exact, CleanIsExact, ViewIsExact
<1>2. React!CacheIsFresh
  BY DEF React!CacheIsFresh, Exact, CleanIsExact
<1>3. React!ViewIsFresh
  <2>1. ~React!InGetter => ~Evaluated(React!View)
    BY DEF React!InGetter, Evaluated
  <2> QED
    BY <2>1 DEF React!ViewIsFresh, Exact, ViewIsExact
<1> QED
  BY <1>1, <1>2, <1>3 DEF ReactTypes, DependenciesAreRight

\* For any data, any number of computed properties and any getters, in every order of
\* changes, evaluations and renders: data notify exactly the watchers that depend on
\* them; and if getters are pure, dependencies are what was read, no cached value is
\* stale, and the view shows the data (Dep, Watcher and computed properties).
THEOREM ReactiveIsRight == React!Init /\ [][React!Next]_(React!vars) => []DependenciesAreRight
<1>1. React!Init => ReactTypes /\ (pure => Exact)
  BY ReactTypesInit, ExactInit
<1>2. ReactTypes /\ (pure => Exact) /\ [React!Next]_(React!vars)
        => ReactTypes' /\ (pure => Exact)'
  BY ReactTypesStep, ExactStep
<1> QED
  BY <1>1, <1>2, ExactImplies, PTL

\* DependenciesAreRight, of the modules that TLC runs together.
THEOREM DependenciesStayRight == Spec => []DependenciesAreRight
<1>1. Init => React!Init
  BY DEF Init
<1>2. [Next]_vars => [React!Next]_(React!vars)
  <2> SUFFICES ASSUME [Next]_vars PROVE [React!Next]_(React!vars)
    OBVIOUS
  <2>1. UNCHANGED getterVars => UNCHANGED React!vars
    BY DEF getterVars, React!vars, React!getterVars, React!depVars, React!stackVars
  <2> QED
    BY <2>1 DEF Next, vars
<1> QED
  BY <1>1, <1>2, ReactiveIsRight, PTL DEF Spec

-----------------------------------------------------------------------------
(* The scheduler's operators on its queue. *)

Elements(q) == {q[i] : i \in DOMAIN q}
Increasing(q) == \A i, j \in DOMAIN q : i < j => q[i] < q[j]
Distinct(q) == \A i, j \in DOMAIN q : q[i] = q[j] => i = j

\* A bounded set of natural numbers can be listed in order.
LEMMA ListExists ==
  ASSUME NEW m \in Nat, NEW S, S \subseteq 1 .. m
  PROVE  \E n \in Nat : \E s \in [1 .. n -> S] : Elements(s) = S /\ Increasing(s)
<1> DEFINE Listed(U) == \E n \in Nat : \E s \in [1 .. n -> U] : Elements(s) = U /\ Increasing(s)
           T == {k \in Nat : \E U \in SUBSET (1 .. k) : ~Listed(U)}
<1>1. T = {}
  <2> SUFFICES ASSUME T # {} PROVE FALSE
    OBVIOUS
  <2>1. PICK k \in T : \A j \in T : k <= j
    <3>1. T \subseteq Nat
      OBVIOUS
    <3> HIDE DEF T
    <3> QED
      BY <3>1, Least
  <2>2. PICK U \in SUBSET (1 .. k) : ~Listed(U)
    BY <2>1
  <2>3. k # 0 /\ k \in Nat
    <3>1. ASSUME U = {} PROVE Listed(U)
      <4>1. <<>> \in [1 .. 0 -> U] /\ Elements(<<>>) = U /\ Increasing(<<>>)
        BY <3>1 DEF Elements, Increasing
      <4> QED
        BY <4>1
    <3> QED
      BY <2>1, <2>2, <3>1
  <2>4. Listed(U \ {k})
    <3>1. k - 1 \in Nat /\ ~(k <= k - 1) /\ U \ {k} \in SUBSET (1 .. k - 1)
      BY <2>3
    <3>2. k - 1 \notin T
      <4> HIDE DEF T
      <4> QED
        BY <2>1, <3>1
    <3> HIDE DEF Listed
    <3> QED
      BY <3>1, <3>2
  <2>0. PICK n \in Nat : \E s \in [1 .. n -> U \ {k}] : Elements(s) = U \ {k} /\ Increasing(s)
    BY <2>4
  <2>5. PICK s \in [1 .. n -> U \ {k}] : Elements(s) = U \ {k} /\ Increasing(s)
    BY <2>0
  <2>6. k \in U
    <3>1. k \notin U => U \ {k} = U
      OBVIOUS
    <3> HIDE DEF Listed
    <3> QED
      BY <2>2, <2>4, <3>1
  <2> DEFINE t == [i \in 1 .. n + 1 |-> IF i <= n THEN s[i] ELSE k]
  <2>7. t \in [1 .. n + 1 -> U]
    BY <2>6
  <2>8. Elements(t) = U
    <3>1. \A i \in 1 .. n : t[i] = s[i]
      OBVIOUS
    <3>2. t[n + 1] = k
      OBVIOUS
    <3>3. ASSUME NEW x \in U PROVE x \in Elements(t)
      <4>1. CASE x = k
        BY <3>2, <4>1 DEF Elements
      <4>2. CASE x # k
        <5>1. PICK i \in 1 .. n : s[i] = x
          BY <2>5, <4>2 DEF Elements
        <5> QED
          BY <3>1, <5>1 DEF Elements
      <4> QED
        BY <4>1, <4>2
    <3> QED
      BY <2>7, <3>3 DEF Elements
  <2>9. Increasing(t)
    <3>1. \A i \in 1 .. n : s[i] < k /\ s[i] \in Nat
      <4>1. \A u \in U \ {k} : u < k /\ u \in Nat
        BY <2>3
      <4> QED
        BY <4>1
    <3> QED
      BY <2>3, <2>5, <3>1 DEF Increasing
  <2> QED
    BY <2>2, <2>7, <2>8, <2>9
<1> QED
  BY <1>1

LEMMA IncreasingDistinct ==
  ASSUME NEW n \in Nat, NEW q \in [1 .. n -> Nat], Increasing(q)
  PROVE  Distinct(q)
<1> SUFFICES ASSUME NEW i \in DOMAIN q, NEW j \in DOMAIN q, q[i] = q[j], i # j
             PROVE  FALSE
  BY DEF Distinct
<1>1. i \in Nat /\ j \in Nat /\ q[i] \in Nat
  OBVIOUS
<1>2. ~(i < j) /\ ~(j < i)
  BY <1>1 DEF Increasing
<1> QED
  BY <1>1, <1>2

LEMMA IntervalIs ==
  ASSUME NEW k \in Nat
  PROVE  IsFiniteSet(1 .. k) /\ Cardinality(1 .. k) = k
<1>1. 1 \in Int /\ k \in Int
  OBVIOUS
<1>2. /\ IsFiniteSet(1 .. k)
      /\ Cardinality(1 .. k) = IF 1 > k THEN 0 ELSE k - 1 + 1
  BY <1>1, FS_Interval
<1> QED
  BY <1>2

\* A list without duplicates is as long as the set of its elements is large.
LEMMA LengthIs ==
  ASSUME NEW S, NEW n \in Nat, NEW q \in [1 .. n -> S], Elements(q) = S, Distinct(q)
  PROVE  Cardinality(S) = n
<1>1. q \in Bijection(1 .. n, S)
  <2>1. \A i, j \in 1 .. n : q[i] = q[j] => i = j
    BY DEF Distinct
  <2>2. \A x \in S : \E i \in 1 .. n : q[i] = x
    BY DEF Elements
  <2>3. IsInjective(q)
    BY <2>1 DEF IsInjective
  <2> QED
    BY <2>2, <2>3 DEF Bijection, Injection, Surjection
<1>2. IsFiniteSet(1 .. n) /\ Cardinality(1 .. n) = n
  BY IntervalIs
<1> QED
  BY <1>1, <1>2, FS_Bijection DEF ExistsBijection

\* queue.sort: the same watchers, in order.
LEMMA SortedIs ==
  ASSUME queue \in Seq(Queue!Watcher), Distinct(queue)
  PROVE  /\ Queue!Sorted \in Seq(Queue!Watcher)
         /\ Elements(Queue!Sorted) = Elements(queue)
         /\ Increasing(Queue!Sorted)
<1> DEFINE S == Elements(queue)
           len == Len(queue)
<1>0. Watchers \in Nat
  BY VueAssumption DEF Queue!SchedulerAssumption
<1>1. len \in Nat /\ DOMAIN queue = 1 .. len /\ S \subseteq 1 .. Watchers
  BY <1>0 DEF Queue!Watcher, Elements
<1>2. queue \in [1 .. len -> S]
  <2>1. queue = [i \in 1 .. len |-> queue[i]]
    BY <1>1
  <2>2. \A i \in 1 .. len : queue[i] \in S
    BY <1>1 DEF Elements
  <2> HIDE DEF S, len
  <2> QED
    BY <2>1, <2>2
<1>3. PICK n \in Nat : \E s \in [1 .. n -> S] : Elements(s) = S /\ Increasing(s)
  <2> HIDE DEF S
  <2> QED
    BY <1>0, <1>1, ListExists
<1>4. PICK s \in [1 .. n -> S] : Elements(s) = S /\ Increasing(s)
  BY <1>3
<1>5. n = len
  <2>1. S = Elements(queue)
    OBVIOUS
  <2>2. S \subseteq Nat
    BY <1>1
  <2> HIDE DEF S, len
  <2>3. s \in [1 .. n -> Nat]
    BY <2>2
  <2>4. Distinct(s)
    BY <1>4, <2>3, IncreasingDistinct
  <2>5. Cardinality(S) = n
    BY <1>4, <2>4, LengthIs
  <2>6. Cardinality(S) = len
    BY <1>1, <1>2, <2>1, LengthIs
  <2> QED
    BY <2>5, <2>6
<1>6. /\ Queue!Sorted \in [DOMAIN queue -> S]
      /\ Elements(Queue!Sorted) = S /\ Increasing(Queue!Sorted)
  <2>1. \E t \in [DOMAIN queue -> S] : Elements(t) = S /\ Increasing(t)
    BY <1>1, <1>4, <1>5
  <2>2. Queue!Sorted = CHOOSE t \in [DOMAIN queue -> S] : Elements(t) = S /\ Increasing(t)
    BY DEF Queue!Sorted, Queue!ToSet, Elements, Increasing
  <2> HIDE DEF S
  <2> QED
    BY <2>1, <2>2
<1>7. Queue!Sorted \in [1 .. len -> Queue!Watcher]
  BY <1>1, <1>6 DEF Queue!Watcher
<1> QED
  BY <1>1, <1>6, <1>7

\* Where a watcher is put: behind those with a smaller id.
LEMMA PlaceIs ==
  ASSUME NEW q \in Seq(Nat), Increasing(q), NEW w \in Nat
  PROVE  LET k == Queue!Max({0} \cup {i \in DOMAIN q : q[i] <= w})
         IN  /\ k \in 0 .. Len(q)
             /\ \A i \in 1 .. Len(q) : i <= k <=> q[i] <= w
<1> DEFINE S == {0} \cup {i \in DOMAIN q : q[i] <= w}
           T == {m \in Nat : \A i \in S : i <= m}
           len == Len(q)
<1>1. len \in Nat /\ DOMAIN q = 1 .. len /\ \A i \in 1 .. len : q[i] \in Nat
  OBVIOUS
<1>2. S \subseteq 0 .. len /\ 0 \in S
  BY <1>1
<1>3. PICK m \in T : \A j \in T : m <= j
  <2>1. T \subseteq Nat /\ len \in T
    BY <1>1, <1>2
  <2> HIDE DEF T
  <2> QED
    BY <2>1, Least
<1>4. m \in S
  <2> SUFFICES ASSUME m \notin S PROVE FALSE
    OBVIOUS
  <2>1. m # 0 /\ m \in Nat
    BY <1>2
  <2>2. \A i \in S : i <= m - 1
    BY <1>1, <1>2, <2>1
  <2>3. m - 1 \in T /\ ~(m <= m - 1)
    <3> HIDE DEF S
    <3> QED
      BY <2>1, <2>2
  <2> HIDE DEF T
  <2> QED
    BY <1>3, <2>3
<1>5. Queue!Max(S) \in S /\ \A i \in S : Queue!Max(S) >= i
  <2>1. \A i \in S : m >= i
    BY <1>1, <1>2
  <2>2. Queue!Max(S) = CHOOSE x \in S : \A y \in S : x >= y
    BY DEF Queue!Max
  <2> HIDE DEF S
  <2> QED
    BY <1>4, <2>1, <2>2
<1> DEFINE k == Queue!Max(S)
<1>6. k \in 0 .. len /\ k \in S /\ \A i \in S : i <= k
  <2> HIDE DEF S, len
  <2>1. \A i \in S : i \in Int
    BY <1>1, <1>2
  <2> QED
    BY <1>2, <1>5, <2>1
<1> HIDE DEF k
<1>7. ASSUME NEW i \in 1 .. len
      PROVE  i <= k <=> q[i] <= w
  <2>1. q[i] <= w => i <= k
    BY <1>1, <1>6
  <2>2. ASSUME i <= k PROVE q[i] <= w
    <3>1. k \in 1 .. len /\ q[k] <= w
      BY <1>1, <1>6, <2>2
    <3>2. i = k \/ i < k
      BY <1>1, <2>2, <3>1
    <3>3. i < k => q[i] < q[k]
      <4> HIDE DEF len
      <4> QED
        BY <1>1, <3>1 DEF Increasing
    <3> QED
      BY <1>1, <3>1, <3>2, <3>3
  <2> QED
    BY <2>1, <2>2
<1> QED
  BY <1>6, <1>7 DEF k

\* Before a flush and in it, a watcher is added to those in the queue, which stays in
\* order in a flush.
LEMMA SplicedIs ==
  ASSUME queue \in Seq(Queue!Watcher), Distinct(queue), flushing => Increasing(queue),
         NEW w \in Queue!Watcher, w \notin Elements(queue)
  PROVE  /\ Queue!Spliced(w) \in Seq(Queue!Watcher)
         /\ Elements(Queue!Spliced(w)) = Elements(queue) \cup {w}
         /\ Distinct(Queue!Spliced(w))
         /\ flushing => Increasing(Queue!Spliced(w))
<1> DEFINE len == Len(queue)
           q == Queue!Spliced(w)
<1>1. /\ len \in Nat /\ DOMAIN queue = 1 .. len
      /\ \A i \in 1 .. len : queue[i] \in Queue!Watcher /\ queue[i] # w
  BY DEF Elements
<1>2. \E k \in 0 .. len :
        /\ q \in Seq(Queue!Watcher) /\ Len(q) = len + 1
        /\ \A i \in 1 .. len + 1 :
             q[i] = IF i <= k THEN queue[i] ELSE IF i = k + 1 THEN w ELSE queue[i - 1]
        /\ flushing => \A i \in 1 .. len : i <= k <=> queue[i] <= w
  <2>1. CASE ~flushing
    <3>1. q = Append(queue, w)
      BY <2>1 DEF Queue!Spliced
    <3>2. /\ q \in Seq(Queue!Watcher) /\ Len(q) = len + 1
          /\ \A i \in 1 .. len + 1 :
             q[i] = IF i <= len THEN queue[i] ELSE IF i = len + 1 THEN w ELSE queue[i - 1]
      BY <1>1, <3>1
    <3> HIDE DEF q
    <3> QED
      BY <1>1, <2>1, <3>2
  <2>2. CASE flushing
    <3> DEFINE k == Queue!Max({0} \cup {i \in DOMAIN queue : queue[i] <= w})
    <3>1. queue \in Seq(Nat) /\ w \in Nat /\ Increasing(queue)
      <4>1. Queue!Watcher \subseteq Nat
        BY VueAssumption DEF Queue!SchedulerAssumption, Queue!Watcher
      <4> QED
        BY <2>2, <4>1, SeqMonotonic
    <3>2. k \in 0 .. len /\ \A i \in 1 .. len : i <= k <=> queue[i] <= w
      BY <3>1, PlaceIs
    <3>3. q = SubSeq(queue, 1, k) \o <<w>> \o SubSeq(queue, k + 1, len)
      <4>1. q = SubSeq(queue, 1, (1 + k) - 1) \o <<w>> \o SubSeq(queue, 1 + k, len)
        BY <2>2 DEF Queue!Spliced, Queue!InsertAt
      <4>2. (1 + k) - 1 = k /\ 1 + k = k + 1
        <5> HIDE DEF k, len
        <5> QED
          BY <1>1, <3>2
      <4> HIDE DEF k, q
      <4> QED
        BY <4>1, <4>2
    <3> HIDE DEF k, q
    <3>4. /\ SubSeq(queue, 1, k) \in Seq(Queue!Watcher) /\ Len(SubSeq(queue, 1, k)) = k
          /\ \A i \in 1 .. k : SubSeq(queue, 1, k)[i] = queue[i]
      <4>1. 1 \in Int /\ k \in Int /\ \A i \in 1 .. k : queue[i] \in Queue!Watcher
        BY <1>1, <3>2
      <4>2. /\ SubSeq(queue, 1, k) \in Seq(Queue!Watcher)
            /\ Len(SubSeq(queue, 1, k)) = IF 1 <= k THEN k - 1 + 1 ELSE 0
            /\ \A i \in 1 .. k - 1 + 1 : SubSeq(queue, 1, k)[i] = queue[1 + i - 1]
        BY <4>1, SubSeqProperties
      <4>3. k - 1 + 1 = k /\ \A i \in 1 .. k : 1 + i - 1 = i
        BY <3>2
      <4> HIDE DEF len
      <4> QED
        BY <3>2, <4>2, <4>3
    <3>5. /\ SubSeq(queue, k + 1, len) \in Seq(Queue!Watcher)
          /\ Len(SubSeq(queue, k + 1, len)) = len - k
          /\ \A i \in 1 .. len - k : SubSeq(queue, k + 1, len)[i] = queue[k + i]
      <4> HIDE DEF len
      <4>1. k + 1 \in Int /\ len \in Int /\ \A i \in k + 1 .. len : queue[i] \in Queue!Watcher
        BY <1>1, <3>2
      <4>2. /\ SubSeq(queue, k + 1, len) \in Seq(Queue!Watcher)
            /\ Len(SubSeq(queue, k + 1, len)) = IF k + 1 <= len THEN len - (k + 1) + 1 ELSE 0
            /\ \A i \in 1 .. len - (k + 1) + 1 :
                 SubSeq(queue, k + 1, len)[i] = queue[(k + 1) + i - 1]
        BY <4>1, SubSeqProperties
      <4>3. /\ len - (k + 1) + 1 = len - k /\ (k + 1 > len => len - k = 0)
            /\ \A i \in 1 .. len - k : (k + 1) + i - 1 = k + i
        BY <1>1, <3>2
      <4> QED
        BY <4>2, <4>3
    <3>6. /\ q \in Seq(Queue!Watcher) /\ Len(q) = len + 1
          /\ \A i \in 1 .. len + 1 :
               q[i] = IF i <= k THEN queue[i] ELSE IF i = k + 1 THEN w ELSE queue[i - 1]
      <4> DEFINE s == SubSeq(queue, 1, k)  t == SubSeq(queue, k + 1, len)
      <4> HIDE DEF s, t
      <4>1. /\ s \in Seq(Queue!Watcher) /\ Len(s) = k /\ \A i \in 1 .. k : s[i] = queue[i]
            /\ t \in Seq(Queue!Watcher) /\ Len(t) = len - k
            /\ \A i \in 1 .. len - k : t[i] = queue[k + i]
            /\ q = s \o <<w>> \o t
        BY <3>3, <3>4, <3>5 DEF s, t
      <4> DEFINE u == s \o <<w>>
      <4>5. /\ u \in Seq(Queue!Watcher) /\ Len(u) = k + 1
            /\ \A i \in 1 .. k + 1 : u[i] = IF i <= k THEN s[i] ELSE w
        <5>1. /\ <<w>> \in Seq(Queue!Watcher) /\ Len(<<w>>) = 1 /\ <<w>>[1] = w
          OBVIOUS
        <5>2. /\ u \in Seq(Queue!Watcher) /\ Len(u) = k + 1
              /\ \A i \in 1 .. k + 1 : u[i] = IF i <= k THEN s[i] ELSE <<w>>[i - k]
          BY <4>1, <5>1, ConcatProperties
        <5>3. \A i \in 1 .. k + 1 : i <= k \/ i - k = 1
          BY <3>2
        <5> HIDE DEF u
        <5> QED
          BY <5>1, <5>2, <5>3
      <4>6. /\ u \o t \in Seq(Queue!Watcher) /\ Len(u \o t) = k + 1 + (len - k)
            /\ \A i \in 1 .. k + 1 + (len - k) :
                 (u \o t)[i] = IF i <= k + 1 THEN u[i] ELSE t[i - (k + 1)]
        <5> HIDE DEF u, len
        <5>1. u \in Seq(Queue!Watcher) /\ t \in Seq(Queue!Watcher)
          BY <4>1, <4>5
        <5>2. /\ u \o t \in Seq(Queue!Watcher) /\ Len(u \o t) = Len(u) + Len(t)
              /\ \A i \in 1 .. Len(u) + Len(t) :
                   (u \o t)[i] = IF i <= Len(u) THEN u[i] ELSE t[i - Len(u)]
          BY <5>1, ConcatProperties
        <5> QED
          BY <4>1, <4>5, <5>2
      <4>7. q = u \o t /\ k + 1 + (len - k) = len + 1
        BY <1>1, <3>2, <4>1
      <4> HIDE DEF u, len
      <4>2. q \in Seq(Queue!Watcher) /\ Len(q) = len + 1
        BY <4>6, <4>7
      <4>3. ASSUME NEW i \in 1 .. len + 1
            PROVE  q[i] = IF i <= k THEN s[i] ELSE IF i = k + 1 THEN w ELSE t[i - k - 1]
        <5>1. i - k - 1 = i - (k + 1) /\ (i <= k + 1 => i \in 1 .. k + 1) /\ (i <= k => i <= k + 1)
          BY <1>1, <3>2
        <5> QED
          BY <3>2, <4>5, <4>6, <4>7, <5>1
      <4>4. ASSUME NEW i \in 1 .. len + 1
            PROVE  q[i] = IF i <= k THEN queue[i] ELSE IF i = k + 1 THEN w ELSE queue[i - 1]
        <5> HIDE DEF len
        <5>1. i > k + 1 => i - k - 1 \in 1 .. len - k /\ k + (i - k - 1) = i - 1
          BY <1>1, <3>2
        <5> QED
          BY <1>1, <3>2, <4>1, <4>3, <5>1
      <4> QED
        BY <4>2, <4>4
    <3> QED
      BY <3>2, <3>6
  <2> QED
    BY <2>1, <2>2
<1> HIDE DEF q
<1>3. PICK k \in 0 .. len :
        /\ q \in Seq(Queue!Watcher) /\ Len(q) = len + 1
        /\ \A i \in 1 .. len + 1 :
             q[i] = IF i <= k THEN queue[i] ELSE IF i = k + 1 THEN w ELSE queue[i - 1]
        /\ flushing => \A i \in 1 .. len : i <= k <=> queue[i] <= w
  BY <1>2
<1> HIDE DEF len
<1>4. DOMAIN q = 1 .. len + 1 /\ k \in Nat /\ k <= len
  BY <1>1, <1>3
<1>5. Elements(q) = Elements(queue) \cup {w}
  <2>1. \A i \in 1 .. len + 1 : q[i] \in Elements(queue) \cup {w}
    BY <1>1, <1>3, <1>4 DEF Elements
  <2>2. ASSUME NEW i \in 1 .. len PROVE queue[i] \in Elements(q)
    <3>1. CASE i <= k
      BY <1>1, <1>3, <1>4, <3>1 DEF Elements
    <3>2. CASE i > k
      <4>1. i + 1 \in 1 .. len + 1 /\ i + 1 > k + 1 /\ i + 1 - 1 = i
        BY <1>1, <1>4, <3>2
      <4>2. q[i + 1] = queue[i]
        BY <1>3, <1>4, <4>1
      <4> QED
        BY <1>4, <4>1, <4>2 DEF Elements
    <3> QED
      BY <1>1, <1>4, <3>1, <3>2
  <2>3. w \in Elements(q)
    <3>1. k + 1 \in 1 .. len + 1 /\ q[k + 1] = w
      BY <1>1, <1>3, <1>4
    <3> QED
      BY <1>4, <3>1 DEF Elements
  <2> QED
    BY <1>1, <1>4, <2>1, <2>2, <2>3 DEF Elements
<1>6. Distinct(q)
  <2> SUFFICES ASSUME NEW i \in 1 .. len + 1, NEW j \in 1 .. len + 1, q[i] = q[j], i < j
               PROVE  FALSE
    BY <1>1, <1>4 DEF Distinct
  <2>1. \A a, b \in 1 .. len : queue[a] = queue[b] => a = b
    BY <1>1 DEF Distinct
  <2> QED
    BY <1>1, <1>3, <1>4, <2>1
<1>7. ASSUME flushing PROVE Increasing(q)
  <2> SUFFICES ASSUME NEW i \in 1 .. len + 1, NEW j \in 1 .. len + 1, i < j
               PROVE  q[i] < q[j]
    BY <1>1, <1>4 DEF Increasing
  <2>1. \A a, b \in 1 .. len : a < b => queue[a] < queue[b]
    BY <1>1, <1>7 DEF Increasing
  <2>2. /\ \A a \in 1 .. len : a <= k <=> queue[a] <= w
        /\ \A a \in 1 .. len : queue[a] \in Nat /\ queue[a] # w
        /\ w \in Nat
    BY <1>1, <1>3, <1>7, VueAssumption DEF Queue!SchedulerAssumption, Queue!Watcher
  <2>3. \A a \in 1 .. len : (a <= k => queue[a] < w) /\ (a > k => w < queue[a])
    BY <1>1, <1>4, <2>2
  <2>4. CASE j <= k
    BY <1>1, <1>3, <1>4, <2>1, <2>4
  <2>5. CASE j = k + 1
    BY <1>1, <1>3, <1>4, <2>3, <2>5
  <2>6. CASE j > k + 1
    <3>1. j - 1 \in 1 .. len /\ q[j] = queue[j - 1] /\ w < queue[j - 1]
      BY <1>1, <1>3, <1>4, <2>3, <2>6
    <3>2. CASE i <= k
      <4>1. i \in 1 .. len /\ i < j - 1 /\ q[i] = queue[i]
        BY <1>1, <1>3, <1>4, <2>6, <3>2
      <4> QED
        BY <2>1, <3>1, <4>1
    <3>3. CASE i = k + 1
      BY <1>3, <1>4, <3>1, <3>3
    <3>4. CASE i > k + 1
      <4>1. i - 1 \in 1 .. len /\ i - 1 < j - 1 /\ q[i] = queue[i - 1]
        BY <1>1, <1>3, <1>4, <2>6, <3>4
      <4> QED
        BY <2>1, <3>1, <4>1
    <3> QED
      BY <1>4, <3>2, <3>3, <3>4
  <2> QED
    BY <1>4, <2>4, <2>5, <2>6
<1> QED
  BY <1>3, <1>5, <1>6, <1>7 DEF q

-----------------------------------------------------------------------------
(* The scheduler. *)

\* What the microtasks will call, in order; and whether the flush is among it.
Ticks == copies \o callbacks
FlushWaits == \E i \in DOMAIN Ticks : Ticks[i] = "flush"

Taken == IF stage \in {"hook", "before"} THEN {current} ELSE {}

\* There is one flush at most; while one waits or runs, nobody asks for another.
Scheduled ==
  /\ Ticks \in Seq(Callback \cup {"flush"})
  /\ Distinct(Ticks)
  /\ flushing => waiting /\ ~FlushWaits
  /\ ~flushing => (waiting <=> FlushWaits)
  /\ stage # "out" => flushing
  /\ ~waiting => has = {}

\* What the scheduler knows to be queued is in the queue, once, or was taken out.
Queued ==
  /\ has = Elements(queue) \cup Taken
  /\ Distinct(queue)
  /\ Taken \cap Elements(queue) = {}
  /\ stage \in {"hook", "before", "run"} => current \in Queue!Watcher
  /\ flushing => Increasing(queue)

\* Who is to see changes at a tick is behind the flush that shows them.
BehindFlush(c) ==
  \A j \in DOMAIN Ticks :
    Ticks[j] = c => \E i \in DOMAIN Ticks : i < j /\ Ticks[i] = "flush"

\* A change is queued, or dropped by a loop that was broken off.
Kept ==
  /\ stale \subseteq Queue!Active
  /\ stale \ dropped \subseteq has
  /\ \A c \in Callback : owed[c] \subseteq stale \ dropped
  /\ stage = "out" /\ ~flushing => \A c \in Callback : owed[c] # {} => BehindFlush(c)

QueueRight == Queue!TypeOK /\ Scheduled /\ Queued /\ Kept

LEMMA ConcatElements ==
  ASSUME NEW S, NEW a \in Seq(S), NEW b \in Seq(S)
  PROVE  Elements(a \o b) = Elements(a) \cup Elements(b)
<1>1. /\ a \o b \in Seq(S) /\ Len(a \o b) = Len(a) + Len(b)
      /\ \A i \in 1 .. Len(a) + Len(b) :
           (a \o b)[i] = IF i <= Len(a) THEN a[i] ELSE b[i - Len(a)]
  BY ConcatProperties
<1> DEFINE c == a \o b
           m == Len(a)
           n == Len(b)
<1>2. /\ m \in Nat /\ n \in Nat /\ DOMAIN a = 1 .. m /\ DOMAIN b = 1 .. n
      /\ DOMAIN c = 1 .. m + n
      /\ \A i \in 1 .. m + n : c[i] = IF i <= m THEN a[i] ELSE b[i - m]
  BY <1>1
<1> HIDE DEF c, m, n
<1>3. \A i \in 1 .. m : i \in 1 .. m + n /\ c[i] = a[i]
  BY <1>2
<1>4. \A i \in 1 .. n : m + i \in 1 .. m + n /\ c[m + i] = b[i]
  BY <1>2
<1>5. \A i \in 1 .. m + n : i \in 1 .. m \/ (i - m \in 1 .. n /\ c[i] = b[i - m])
  BY <1>2
<1>6. Elements(c) = Elements(a) \cup Elements(b)
  <2>1. ASSUME NEW x \in Elements(c) PROVE x \in Elements(a) \cup Elements(b)
    <3>1. PICK i \in 1 .. m + n : x = c[i]
      BY <1>2 DEF Elements
    <3> QED
      BY <1>2, <1>3, <1>5, <3>1 DEF Elements
  <2>2. ASSUME NEW x \in Elements(a) PROVE x \in Elements(c)
    BY <1>2, <1>3 DEF Elements
  <2>3. ASSUME NEW x \in Elements(b) PROVE x \in Elements(c)
    <3>1. PICK i \in 1 .. n : b[i] = x
      BY <1>2 DEF Elements
    <3>2. m + i \in DOMAIN c /\ c[m + i] = x
      BY <1>2, <1>4, <3>1
    <3> QED
      BY <3>2 DEF Elements
  <2> QED
    BY <2>1, <2>2, <2>3
<1> QED
  BY <1>6 DEF c

LEMMA AppendDistinct ==
  ASSUME NEW S, NEW q \in Seq(S), NEW x \in S, Distinct(q), x \notin Elements(q)
  PROVE  /\ Append(q, x) \in Seq(S)
         /\ Len(Append(q, x)) = Len(q) + 1 /\ DOMAIN Append(q, x) = 1 .. Len(q) + 1
         /\ \A i \in 1 .. Len(q) : Append(q, x)[i] = q[i]
         /\ Append(q, x)[Len(q) + 1] = x
         /\ Distinct(Append(q, x))
         /\ Elements(Append(q, x)) = Elements(q) \cup {x}
<1> DEFINE r == Append(q, x)
           n == Len(q)
<1>1. /\ n \in Nat /\ DOMAIN q = 1 .. n /\ r \in Seq(S) /\ Len(r) = n + 1
      /\ DOMAIN r = 1 .. n + 1 /\ r[n + 1] = x /\ \A i \in 1 .. n : r[i] = q[i]
  OBVIOUS
<1> HIDE DEF r, n
<1>2. \A i \in 1 .. n + 1 : i \in 1 .. n \/ i = n + 1
  BY <1>1
<1>3. Distinct(r)
  BY <1>1, <1>2 DEF Distinct, Elements
<1>4. Elements(r) = Elements(q) \cup {x}
  <2>1. \A i \in 1 .. n : i \in 1 .. n + 1
    BY <1>1
  <2>2. n + 1 \in 1 .. n + 1
    BY <1>1
  <2> QED
    BY <1>1, <1>2, <2>1, <2>2 DEF Elements
<1> QED
  BY <1>1, <1>3, <1>4 DEF r, n

LEMMA TailDistinct ==
  ASSUME NEW S, NEW q \in Seq(S), q # <<>>, Distinct(q)
  PROVE  /\ Head(q) \in S /\ Head(q) = q[1] /\ 1 \in DOMAIN q
         /\ Tail(q) \in Seq(S)
         /\ \A i \in DOMAIN Tail(q) : i + 1 \in DOMAIN q /\ Tail(q)[i] = q[i + 1]
         /\ \A i \in DOMAIN q : i = 1 \/ (i - 1 \in DOMAIN Tail(q) /\ Tail(q)[i - 1] = q[i])
         /\ Distinct(Tail(q))
         /\ Elements(Tail(q)) = Elements(q) \ {Head(q)}
         /\ Head(q) \in Elements(q)
         /\ Increasing(q) => Increasing(Tail(q))
<1> DEFINE r == Tail(q)
           n == Len(q)
           h == Head(q)
<1>1. /\ n \in Nat /\ DOMAIN q = 1 .. n /\ n >= 1 /\ h = q[1] /\ h \in S /\ r \in Seq(S)
      /\ DOMAIN r = 1 .. n - 1 /\ \A i \in 1 .. n - 1 : r[i] = q[i + 1]
  OBVIOUS
<1> HIDE DEF r, n, h
<1>2. \A i \in 1 .. n - 1 : i + 1 \in 1 .. n /\ i + 1 # 1
  BY <1>1
<1>3. \A i \in 1 .. n : i = 1 \/ (i - 1 \in 1 .. n - 1 /\ r[i - 1] = q[i])
  BY <1>1
<1>4. Distinct(r)
  <2>1. \A i, j \in 1 .. n - 1 : i + 1 = j + 1 => i = j
    BY <1>1
  <2> QED
    BY <1>1, <1>2, <2>1 DEF Distinct
<1>5. 1 \in 1 .. n
  BY <1>1
<1>6. Elements(r) = Elements(q) \ {h}
  <2>1. ASSUME NEW i \in 1 .. n - 1 PROVE r[i] \in Elements(q) \ {h}
    BY <1>1, <1>2, <1>5 DEF Elements, Distinct
  <2>2. ASSUME NEW x \in Elements(q), x # h PROVE x \in Elements(r)
    <3>1. PICK i \in 1 .. n : q[i] = x
      BY <1>1 DEF Elements
    <3>2. i - 1 \in 1 .. n - 1 /\ r[i - 1] = x
      BY <1>1, <1>3, <2>2, <3>1
    <3> QED
      BY <1>1, <3>2 DEF Elements
  <2>3. Elements(r) \subseteq Elements(q) \ {h}
    BY <1>1, <2>1 DEF Elements
  <2> QED
    BY <2>2, <2>3
<1>7. h \in Elements(q)
  BY <1>1, <1>5 DEF Elements
<1>8. ASSUME Increasing(q) PROVE Increasing(r)
  <2>1. \A i, j \in 1 .. n - 1 : i < j => i + 1 < j + 1
    BY <1>1
  <2> QED
    BY <1>1, <1>2, <1>8, <2>1 DEF Increasing
<1> QED
  BY <1>1, <1>2, <1>3, <1>4, <1>5, <1>6, <1>7, <1>8 DEF r, n, h

Tick == Callback \cup {"flush"}

\* What nextTick is given is called last.
LEMMA NextTickStep ==
  ASSUME Queue!TypeOK, Scheduled, NEW f \in Tick, f \notin Elements(Ticks), Queue!NextTick(f)
  PROVE  /\ callbacks' \in Seq(Tick) /\ copies' \in Seq(Tick) /\ pending' \in BOOLEAN
         /\ Ticks' \in Seq(Tick) /\ Distinct(Ticks')
         /\ FlushWaits' <=> FlushWaits \/ f = "flush"
         /\ \A c \in Callback : c # f /\ BehindFlush(c) => BehindFlush(c)'
         /\ f # "flush" /\ FlushWaits => BehindFlush(f)'
<1>1. /\ callbacks \in Seq(Tick) /\ copies \in Seq(Tick) /\ Ticks \in Seq(Tick) /\ Distinct(Ticks)
  BY DEF Queue!TypeOK, Scheduled, Tick
<1>2. /\ callbacks' = Append(callbacks, f) /\ pending' = TRUE /\ copies' = copies
  BY DEF Queue!NextTick
<1>3. Ticks' = Append(Ticks, f)
  <2>1. copies \o Append(callbacks, f) = Append(copies \o callbacks, f)
    BY <1>1
  <2> QED
    BY <1>2, <2>1 DEF Ticks
<1> DEFINE n == Len(Ticks)
<1>4. /\ Append(Ticks, f) \in Seq(Tick) /\ DOMAIN Append(Ticks, f) = 1 .. n + 1
      /\ \A i \in 1 .. n : Append(Ticks, f)[i] = Ticks[i]
      /\ Append(Ticks, f)[n + 1] = f
      /\ Distinct(Append(Ticks, f))
      /\ Elements(Append(Ticks, f)) = Elements(Ticks) \cup {f}
  BY <1>1, AppendDistinct
<1>5. n \in Nat /\ DOMAIN Ticks = 1 .. n
  BY <1>1
<1> HIDE DEF n
<1>6. /\ \A i \in 1 .. n : i \in 1 .. n + 1 /\ i < n + 1
      /\ n + 1 \in 1 .. n + 1
      /\ \A i \in 1 .. n + 1 : i \in 1 .. n \/ i = n + 1
  BY <1>5
<1>7. /\ DOMAIN Ticks' = 1 .. n + 1 /\ Ticks'[n + 1] = f
      /\ \A i \in 1 .. n : Ticks'[i] = Ticks[i]
  BY <1>3, <1>4
<1>8. FlushWaits' <=> FlushWaits \/ f = "flush"
  BY <1>5, <1>6, <1>7 DEF FlushWaits
<1>9. ASSUME NEW c \in Callback, c # f, BehindFlush(c)
      PROVE  BehindFlush(c)'
  BY <1>5, <1>6, <1>7, <1>9 DEF BehindFlush
<1>10. ASSUME f # "flush", FlushWaits
       PROVE  BehindFlush(f)'
  <2>1. PICK i \in 1 .. n : Ticks[i] = "flush"
    BY <1>5, <1>10 DEF FlushWaits
  <2>2. \A j \in 1 .. n : Ticks[j] # f
    BY <1>5 DEF Elements
  <2> QED
    BY <1>5, <1>6, <1>7, <2>1, <2>2 DEF BehindFlush
<1> QED
  BY <1>1, <1>2, <1>3, <1>4, <1>8, <1>9, <1>10 DEF Queue!TypeOK

\* A watcher is queued unless it is already, and a flush waits for it or runs.
LEMMA QueueWatcherStep ==
  ASSUME QueueRight, NEW w \in Queue!Watcher, Queue!queueWatcher(w),
         UNCHANGED <<current, stage, flushing>>
  PROVE  /\ queue' \in Seq(Queue!Watcher) /\ has' \subseteq Queue!Watcher
         /\ waiting' \in BOOLEAN
         /\ callbacks' \in Seq(Tick) /\ copies' \in Seq(Tick) /\ pending' \in BOOLEAN
         /\ Scheduled' /\ Queued' /\ has' = has \cup {w}
         /\ \A c \in Callback : BehindFlush(c) => BehindFlush(c)'
<1> USE DEF QueueRight
<1>1. CASE w \in has
  <2>1. UNCHANGED <<queue, has, waiting, callbacks, pending, copies>>
    BY <1>1 DEF Queue!queueWatcher, Queue!queueVars, Queue!tickVars
  <2> QED
    BY <1>1, <2>1 DEF Queue!TypeOK, Tick, Scheduled, Queued, BehindFlush, FlushWaits, Ticks, Taken
<1>2. CASE w \notin has
  <2>1. /\ has' = has \cup {w} /\ queue' = Queue!Spliced(w) /\ waiting' = TRUE
        /\ IF waiting THEN UNCHANGED <<callbacks, pending, copies>> ELSE Queue!NextTick("flush")
    BY <1>2 DEF Queue!queueWatcher, Queue!tickVars
  <2>2. /\ Queue!Spliced(w) \in Seq(Queue!Watcher)
        /\ Elements(Queue!Spliced(w)) = Elements(queue) \cup {w}
        /\ Distinct(Queue!Spliced(w))
        /\ flushing => Increasing(Queue!Spliced(w))
    BY <1>2, SplicedIs DEF Queue!TypeOK, Queued
  <2>3. Queued'
    <3>1. w \notin Taken /\ Taken' = Taken
      BY <1>2 DEF Queued, Taken
    <3>2. /\ Elements(queue)' = Elements(queue) \cup {w}
          /\ Distinct(queue)' /\ (flushing => Increasing(queue)')
      BY <2>1, <2>2
    <3> QED
      BY <2>1, <3>1, <3>2 DEF Queued
  <2>4. /\ callbacks' \in Seq(Tick) /\ copies' \in Seq(Tick) /\ pending' \in BOOLEAN
        /\ Scheduled'
        /\ \A c \in Callback : BehindFlush(c) => BehindFlush(c)'
    <3>1. CASE waiting
      BY <2>1, <3>1 DEF Queue!TypeOK, Tick, Scheduled, BehindFlush, FlushWaits, Ticks
    <3>2. CASE ~waiting
      <4>1. "flush" \notin Elements(Ticks)
        BY <3>2 DEF Scheduled, FlushWaits, Elements
      <4>2. \A c \in Callback : c # "flush"
        BY VueAssumption DEF Queue!SchedulerAssumption
      <4>3. "flush" \in Tick /\ Queue!NextTick("flush") /\ ~flushing
        BY <2>1, <3>2 DEF Tick, Scheduled
      <4>4. /\ callbacks' \in Seq(Tick) /\ copies' \in Seq(Tick) /\ pending' \in BOOLEAN
            /\ Ticks' \in Seq(Tick) /\ Distinct(Ticks') /\ FlushWaits'
            /\ \A c \in Callback : BehindFlush(c) => BehindFlush(c)'
        BY <4>1, <4>2, <4>3, NextTickStep
      <4> QED
        BY <2>1, <4>3, <4>4 DEF Scheduled, Tick
    <3> QED
      BY <3>1, <3>2
  <2> QED
    BY <2>1, <2>2, <2>3, <2>4 DEF Queue!TypeOK
<1> QED
  BY <1>1, <1>2

\* What the page does.
LEMMA UpdateStep ==
  ASSUME QueueRight, NEW w \in Queue!Watcher, Queue!Update(w)
  PROVE  QueueRight'
<1> USE DEF QueueRight
<1>1. /\ Queue!queueWatcher(w)
      /\ UNCHANGED <<life, current, stage, flushing, circular, owed, changes>>
      /\ stale' = IF w \in Queue!Active THEN stale \cup {w} ELSE stale
      /\ dropped' = dropped \ {w}
  BY DEF Queue!Update
<1>2. /\ queue' \in Seq(Queue!Watcher) /\ has' \subseteq Queue!Watcher /\ waiting' \in BOOLEAN
      /\ callbacks' \in Seq(Tick) /\ copies' \in Seq(Tick) /\ pending' \in BOOLEAN
      /\ Scheduled' /\ Queued' /\ has' = has \cup {w}
      /\ \A c \in Callback : BehindFlush(c) => BehindFlush(c)'
  BY <1>1, QueueWatcherStep
<1>3. Queue!TypeOK'
  <2>1. stale' \subseteq Queue!Watcher /\ dropped' \subseteq Queue!Watcher
    BY <1>1 DEF Queue!TypeOK
  <2> QED
    BY <1>1, <1>2, <2>1 DEF Queue!TypeOK, Tick
<1>4. Kept'
  <2>1. stale' \subseteq Queue!Active'
    BY <1>1 DEF Kept, Queue!Active
  <2>2. (stale \ dropped)' \subseteq has' /\ stale \ dropped \subseteq (stale \ dropped)'
    BY <1>1, <1>2 DEF Kept
  <2>3. \A c \in Callback : owed'[c] = owed[c]
    BY <1>1
  <2> QED
    BY <1>1, <1>2, <2>1, <2>2, <2>3 DEF Kept
<1> QED
  BY <1>2, <1>3, <1>4

LEMMA CreateStep ==
  ASSUME QueueRight, NEW w \in Queue!Watcher, Queue!Create(w)
  PROVE  QueueRight'
<1> USE DEF QueueRight
<1>1. /\ life[w] = "unborn" /\ life' = [life EXCEPT ![w] = "active"]
      /\ UNCHANGED <<stale, queue, has, current, stage, waiting, flushing, circular, callbacks,
                     pending, copies, owed, dropped, changes>>
  BY DEF Queue!Create, Queue!queueVars, Queue!tickVars, Queue!historyVars
<1>2. Queue!TypeOK'
  BY <1>1 DEF Queue!TypeOK
<1>3. Queue!Active \subseteq Queue!Active'
  BY <1>1 DEF Queue!TypeOK, Queue!Active
<1>4. Scheduled' /\ Queued'
  BY <1>1 DEF Scheduled, Queued, Taken, FlushWaits, Ticks
<1>5. Kept'
  BY <1>1, <1>3 DEF Kept, BehindFlush, Ticks
<1> QED
  BY <1>2, <1>4, <1>5

LEMMA TeardownStep ==
  ASSUME QueueRight, NEW w \in Queue!Watcher, Queue!Teardown(w)
  PROVE  QueueRight'
<1> USE DEF QueueRight
<1>1. /\ life[w] = "active" /\ life' = [life EXCEPT ![w] = "gone"]
      /\ stale' = stale \ {w} /\ dropped' = dropped \ {w}
      /\ owed' = [c \in Callback |-> owed[c] \ {w}]
      /\ UNCHANGED <<queue, has, current, stage, waiting, flushing, circular, callbacks,
                     pending, copies, changes>>
  BY DEF Queue!Teardown, Queue!queueVars, Queue!tickVars
<1>2. Queue!TypeOK'
  <2>1. owed' \in [Callback -> SUBSET Queue!Watcher]
    BY <1>1 DEF Queue!TypeOK
  <2>2. life' \in [Queue!Watcher -> {"unborn", "active", "gone"}]
    BY <1>1 DEF Queue!TypeOK
  <2>3. stale' \subseteq Queue!Watcher /\ dropped' \subseteq Queue!Watcher
    BY <1>1 DEF Queue!TypeOK
  <2> QED
    BY <1>1, <2>1, <2>2, <2>3 DEF Queue!TypeOK
<1>3. Queue!Active \ {w} \subseteq Queue!Active'
  BY <1>1 DEF Queue!TypeOK, Queue!Active
<1>4. Scheduled' /\ Queued'
  BY <1>1 DEF Scheduled, Queued, Taken, FlushWaits, Ticks
<1>5. Kept'
  <2>1. \A c \in Callback : owed'[c] = owed[c] \ {w}
    BY <1>1
  <2>2. stale' \subseteq Queue!Active'
    BY <1>1, <1>3 DEF Kept
  <2>3. \A c \in Callback : BehindFlush(c)' <=> BehindFlush(c)
    BY <1>1 DEF BehindFlush, Ticks
  <2>4. \A c \in Callback : owed'[c] \subseteq (stale \ dropped)'
    BY <1>1, <2>1 DEF Kept
  <2>5. (stale \ dropped)' \subseteq has'
    BY <1>1 DEF Kept
  <2> QED
    BY <1>1, <2>1, <2>2, <2>3, <2>4, <2>5 DEF Kept
<1> QED
  BY <1>2, <1>4, <1>5

LEMMA CallNextTickStep ==
  ASSUME QueueRight, NEW c \in Callback, Queue!CallNextTick(c)
  PROVE  QueueRight'
<1> USE DEF QueueRight
<1>1. /\ Queue!NextTick(c)
      /\ c \notin Elements(callbacks) /\ c \notin Elements(copies)
      /\ owed' = [owed EXCEPT ![c] = stale \ dropped]
      /\ UNCHANGED <<life, stale, queue, has, waiting, current, stage, flushing, circular,
                     dropped, changes>>
  BY DEF Queue!CallNextTick, Queue!ToSet, Elements, Queue!queueVars
<1>2. c \notin Elements(Ticks) /\ c \in Tick
  <2>1. callbacks \in Seq(Tick) /\ copies \in Seq(Tick)
    BY DEF Queue!TypeOK, Tick
  <2> QED
    BY <1>1, <2>1, ConcatElements DEF Ticks, Tick
<1>3. c # "flush"
  BY VueAssumption DEF Queue!SchedulerAssumption
<1>4. /\ callbacks' \in Seq(Tick) /\ copies' \in Seq(Tick) /\ pending' \in BOOLEAN
      /\ Ticks' \in Seq(Tick) /\ Distinct(Ticks')
      /\ FlushWaits' <=> FlushWaits
      /\ \A d \in Callback : d # c /\ BehindFlush(d) => BehindFlush(d)'
      /\ FlushWaits => BehindFlush(c)'
  BY <1>1, <1>2, <1>3, NextTickStep
<1>5. Queue!TypeOK'
  <2>1. owed' \in [Callback -> SUBSET Queue!Watcher]
    BY <1>1 DEF Queue!TypeOK
  <2> QED
    BY <1>1, <1>4, <2>1 DEF Queue!TypeOK, Tick
<1>6. Scheduled'
  BY <1>1, <1>4 DEF Scheduled, Tick
<1>7. Queued'
  BY <1>1 DEF Queued, Taken
<1>8. Kept'
  <2>1. owed'[c] = stale \ dropped /\ \A d \in Callback : d # c => owed'[d] = owed[d]
    BY <1>1 DEF Queue!TypeOK
  <2>2. ASSUME ~flushing, owed'[c] # {} PROVE BehindFlush(c)'
    <3>1. FlushWaits
      BY <2>1, <2>2 DEF Kept, Scheduled
    <3> QED
      BY <1>4, <3>1
  <2>3. (stale \subseteq Queue!Active)' /\ (stale \ dropped \subseteq has)'
    BY <1>1 DEF Kept, Queue!Active
  <2>4. \A d \in Callback : owed'[d] \subseteq (stale \ dropped)'
    BY <1>1, <2>1 DEF Kept
  <2>5. ASSUME stage' = "out", ~flushing', NEW d \in Callback, owed'[d] # {}
        PROVE  BehindFlush(d)'
    BY <1>1, <1>4, <2>1, <2>2, <2>5 DEF Kept
  <2> QED
    BY <2>3, <2>4, <2>5 DEF Kept
<1> QED
  BY <1>5, <1>6, <1>7, <1>8

\* What the loop does.
LEMMA FlushCallbacksStep ==
  ASSUME QueueRight, Queue!flushCallbacks
  PROVE  QueueRight'
<1> USE DEF QueueRight
<1>1. /\ copies = <<>> /\ copies' = callbacks /\ callbacks' = <<>> /\ pending' = FALSE
      /\ UNCHANGED <<life, stale, queue, has, waiting, current, stage, flushing, circular,
                     owed, dropped, changes>>
  BY DEF Queue!flushCallbacks, Queue!queueVars, Queue!historyVars
<1>2. Ticks' = Ticks
  <2>1. callbacks \in Seq(Tick)
    BY DEF Queue!TypeOK, Tick
  <2>2. callbacks \o <<>> = callbacks /\ <<>> \o callbacks = callbacks
    BY <2>1, ConcatEmptySeq
  <2> QED
    BY <1>1, <2>2 DEF Ticks
<1>3. Queue!TypeOK'
  <2>1. <<>> \in Seq(Callback \cup {"flush"})
    OBVIOUS
  <2> QED
    BY <1>1, <2>1 DEF Queue!TypeOK
<1>4. Scheduled' /\ Queued'
  BY <1>1, <1>2 DEF Scheduled, Queued, Taken, FlushWaits
<1>5. Kept'
  BY <1>1, <1>2 DEF Kept, BehindFlush, Queue!Active
<1> QED
  BY <1>3, <1>4, <1>5

\* The first of the ticks is called.
LEMMA CallStep ==
  ASSUME Queue!TypeOK, Scheduled, copies # <<>>, copies' = Tail(copies), callbacks' = callbacks
  PROVE  /\ copies' \in Seq(Tick) /\ callbacks' \in Seq(Tick)
         /\ Ticks' \in Seq(Tick) /\ Distinct(Ticks')
         /\ FlushWaits' <=> FlushWaits /\ Head(copies) # "flush"
         /\ BehindFlush(Head(copies)) => FALSE
         /\ \A c \in Callback :
              Head(copies) # "flush" /\ BehindFlush(c) => BehindFlush(c)'
         /\ Head(copies) = "flush" => FlushWaits
<1>1. /\ copies \in Seq(Tick) /\ callbacks \in Seq(Tick) /\ Ticks \in Seq(Tick)
      /\ Distinct(Ticks)
  BY DEF Queue!TypeOK, Tick, Scheduled
<1>2. /\ Ticks # <<>> /\ Head(Ticks) = Head(copies)
      /\ Tail(copies) \o callbacks = Tail(copies \o callbacks)
  <2>1. /\ Len(copies) \in Nat /\ Len(copies) # 0 /\ Len(callbacks) \in Nat
        /\ Head(copies) = copies[1]
    BY <1>1
  <2>2. /\ Len(Ticks) = Len(copies) + Len(callbacks)
        /\ Ticks[1] = copies[1]
    BY <1>1, <2>1, ConcatProperties DEF Ticks
  <2>3. Ticks # <<>> /\ Head(Ticks) = Head(copies)
    BY <1>1, <2>1, <2>2
  <2>4. Tail(copies) \o callbacks = Tail(copies \o callbacks)
    BY <1>1
  <2> QED
    BY <2>3, <2>4
<1>3. Ticks' = Tail(Ticks)
  BY <1>2 DEF Ticks
<1> DEFINE h == Head(copies)
<1>4. /\ h = Ticks[1] /\ 1 \in DOMAIN Ticks
      /\ Tail(Ticks) \in Seq(Tick) /\ Distinct(Tail(Ticks))
      /\ \A i \in DOMAIN Tail(Ticks) : i + 1 \in DOMAIN Ticks /\ Tail(Ticks)[i] = Ticks[i + 1]
      /\ \A i \in DOMAIN Ticks :
           i = 1 \/ (i - 1 \in DOMAIN Tail(Ticks) /\ Tail(Ticks)[i - 1] = Ticks[i])
      /\ Elements(Tail(Ticks)) = Elements(Ticks) \ {h} /\ h \in Elements(Ticks)
  BY <1>1, <1>2, TailDistinct
<1>5. /\ FlushWaits <=> "flush" \in Elements(Ticks)
      /\ FlushWaits' <=> "flush" \in Elements(Ticks')
  BY DEF FlushWaits, Elements
<1>6. \A i \in DOMAIN Ticks : i \in Nat /\ i >= 1
  BY <1>1
<1>7. ~BehindFlush(h)
  BY <1>4, <1>6 DEF BehindFlush
<1>8. ASSUME NEW c \in Callback, h # "flush", BehindFlush(c)
      PROVE  BehindFlush(c)'
  <2> SUFFICES ASSUME NEW j \in DOMAIN Tail(Ticks), Tail(Ticks)[j] = c
               PROVE  \E i \in DOMAIN Tail(Ticks) : i < j /\ Tail(Ticks)[i] = "flush"
    BY <1>3 DEF BehindFlush
  <2>1. PICK i \in DOMAIN Ticks : i < j + 1 /\ Ticks[i] = "flush"
    BY <1>4, <1>8 DEF BehindFlush
  <2>2. i # 1
    BY <1>4, <1>8, <2>1
  <2>3. i - 1 \in DOMAIN Tail(Ticks) /\ Tail(Ticks)[i - 1] = "flush"
    BY <1>4, <2>1, <2>2
  <2>4. i - 1 < j
    <3>1. j \in Nat /\ i \in Nat
      BY <1>4, <1>6
    <3> QED
      BY <2>1, <3>1
  <2> QED
    BY <2>3, <2>4
<1>9. Tail(copies) \in Seq(Tick)
  BY <1>1
<1> HIDE DEF h
<1>10. FlushWaits' <=> FlushWaits /\ h # "flush"
  BY <1>3, <1>4, <1>5
<1>11. h = "flush" => FlushWaits
  BY <1>4, <1>5
<1> QED
  BY <1>1, <1>3, <1>4, <1>7, <1>8, <1>9, <1>10, <1>11 DEF h

LEMMA RunCallbackStep ==
  ASSUME QueueRight, NEW c \in Callback, Queue!RunCallback(c)
  PROVE  QueueRight'
<1> USE DEF QueueRight
<1>1. /\ stage = "out" /\ copies # <<>> /\ Head(copies) = c /\ copies' = Tail(copies)
      /\ owed' = [owed EXCEPT ![c] = {}]
      /\ UNCHANGED <<life, stale, queue, has, waiting, current, stage, flushing, circular,
                     callbacks, pending, dropped, changes>>
  BY DEF Queue!RunCallback, Queue!queueVars
<1>2. c # "flush"
  BY VueAssumption DEF Queue!SchedulerAssumption
<1>3. /\ copies' \in Seq(Tick) /\ callbacks' \in Seq(Tick)
      /\ Ticks' \in Seq(Tick) /\ Distinct(Ticks') /\ (FlushWaits' <=> FlushWaits)
      /\ \A d \in Callback : BehindFlush(d) => BehindFlush(d)'
  BY <1>1, <1>2, CallStep
<1>4. owed' \in [Callback -> SUBSET Queue!Watcher]
  BY <1>1 DEF Queue!TypeOK
<1>5. Queue!TypeOK'
  BY <1>1, <1>3, <1>4 DEF Queue!TypeOK, Tick
<1>6. Scheduled' /\ Queued'
  BY <1>1, <1>3 DEF Scheduled, Queued, Taken, Tick
<1>7. \A d \in Callback : owed'[d] \subseteq owed[d]
  BY <1>1 DEF Queue!TypeOK
<1>8. Kept'
  <2>1. (stale \subseteq Queue!Active)' /\ (stale \ dropped \subseteq has)'
    BY <1>1 DEF Kept, Queue!Active
  <2>2. \A d \in Callback : owed'[d] \subseteq (stale \ dropped)'
    BY <1>1, <1>7 DEF Kept
  <2>3. stage' = "out" /\ ~flushing' => \A d \in Callback : owed'[d] # {} => BehindFlush(d)'
    BY <1>1, <1>3, <1>7 DEF Kept
  <2> QED
    BY <2>1, <2>2, <2>3 DEF Kept
<1> QED
  BY <1>5, <1>6, <1>8

LEMMA FlushStep ==
  ASSUME QueueRight, Queue!flushSchedulerQueue
  PROVE  QueueRight'
<1> USE DEF QueueRight
<1>1. /\ stage = "out" /\ copies # <<>> /\ Head(copies) = "flush" /\ copies' = Tail(copies)
      /\ flushing' = TRUE /\ queue' = Queue!Sorted /\ stage' = "next"
      /\ UNCHANGED <<life, stale, has, waiting, current, circular, callbacks, pending, owed,
                     dropped, changes>>
  BY DEF Queue!flushSchedulerQueue, Queue!historyVars
<1>2. /\ copies' \in Seq(Tick) /\ callbacks' \in Seq(Tick)
      /\ Ticks' \in Seq(Tick) /\ Distinct(Ticks') /\ ~FlushWaits' /\ FlushWaits
  BY <1>1, CallStep
<1>3. /\ queue' \in Seq(Queue!Watcher) /\ Elements(queue') = Elements(queue)
      /\ Increasing(queue')
  BY <1>1, SortedIs DEF Queue!TypeOK, Queued
<1>4. Distinct(queue')
  <2>1. Queue!Watcher \subseteq Nat
    BY DEF Queue!Watcher
  <2>2. Len(queue') \in Nat /\ queue' \in [1 .. Len(queue') -> Queue!Watcher]
    BY <1>3, LenProperties
  <2>3. queue' \in [1 .. Len(queue') -> Nat]
    BY <2>1, <2>2
  <2> QED
    BY <1>3, <2>2, <2>3, IncreasingDistinct
<1>5. Queue!TypeOK'
  BY <1>1, <1>2, <1>3 DEF Queue!TypeOK, Tick
<1>6. Scheduled'
  BY <1>1, <1>2 DEF Scheduled, Tick
<1>7. Queued'
  BY <1>1, <1>3, <1>4 DEF Queued, Taken
<1>8. Kept'
  BY <1>1 DEF Kept, Queue!Active
<1> QED
  BY <1>5, <1>6, <1>7, <1>8

LEMMA TakeStep ==
  ASSUME QueueRight, Queue!Take
  PROVE  QueueRight'
<1> USE DEF QueueRight
<1>1. /\ stage = "next" /\ queue # <<>> /\ current' = Head(queue) /\ queue' = Tail(queue)
      /\ stage' \in {"hook", "before"}
      /\ UNCHANGED <<life, stale, has, waiting, flushing, circular, callbacks, pending, copies,
                     owed, dropped, changes>>
  BY DEF Queue!Take, Queue!tickVars, Queue!historyVars
<1>2. /\ Head(queue) \in Queue!Watcher /\ Head(queue) \in Elements(queue)
      /\ Tail(queue) \in Seq(Queue!Watcher) /\ Distinct(Tail(queue))
      /\ Elements(Tail(queue)) = Elements(queue) \ {Head(queue)}
      /\ Increasing(queue) => Increasing(Tail(queue))
  BY <1>1, TailDistinct DEF Queue!TypeOK, Queued
<1>3. Queue!TypeOK'
  BY <1>1, <1>2 DEF Queue!TypeOK
<1>4. Scheduled'
  BY <1>1 DEF Scheduled, FlushWaits, Ticks
<1>5. Queued'
  <2>1. has = Elements(queue)
    BY <1>1 DEF Queued, Taken
  <2>2. Taken' = {Head(queue)}
    BY <1>1 DEF Taken
  <2>3. has' = Elements(queue') \cup Taken' /\ Taken' \cap Elements(queue') = {}
    BY <1>1, <1>2, <2>1, <2>2
  <2> QED
    BY <1>1, <1>2, <2>3 DEF Queued
<1>6. Kept'
  BY <1>1 DEF Kept, Queue!Active
<1> QED
  BY <1>3, <1>4, <1>5, <1>6

LEMMA RunStep ==
  ASSUME QueueRight, Queue!Run
  PROVE  QueueRight'
<1> USE DEF QueueRight
<1>1. /\ stage \in {"hook", "before"} /\ has' = has \ {current}
      /\ stage' \in {"run", "next"}
      /\ UNCHANGED <<life, queue, waiting, current, flushing, circular, callbacks, pending,
                     copies, changes>>
      /\ IF current \in Queue!Active
           THEN /\ stale' = stale \ {current} /\ dropped' = dropped \ {current}
                /\ owed' = [c \in Callback |-> owed[c] \ {current}]
           ELSE UNCHANGED <<stale, owed, dropped>>
  BY DEF Queue!Run, Queue!tickVars
<1>2. /\ \A c \in Callback : owed'[c] \subseteq owed[c] \ (stale \ stale')
      /\ owed' \in [Callback -> SUBSET Queue!Watcher]
  <2>1. CASE current \in Queue!Active
    BY <1>1, <2>1 DEF Queue!TypeOK
  <2>2. CASE current \notin Queue!Active
    BY <1>1, <2>2 DEF Queue!TypeOK
  <2> QED
    BY <2>1, <2>2
<1>3. Queue!TypeOK'
  <2>1. stale' \subseteq Queue!Watcher /\ dropped' \subseteq Queue!Watcher
    BY <1>1 DEF Queue!TypeOK
  <2>2. has' \subseteq Queue!Watcher
    BY <1>1 DEF Queue!TypeOK
  <2> QED
    BY <1>1, <1>2, <2>1, <2>2 DEF Queue!TypeOK
<1>4. Scheduled'
  BY <1>1 DEF Scheduled, FlushWaits, Ticks
<1>5. Queued'
  BY <1>1 DEF Queued, Taken
<1>6. Kept'
  <2>1. current \notin stale'
    BY <1>1 DEF Kept
  <2>2. stale' \subseteq Queue!Active' /\ stale' \subseteq stale
    BY <1>1 DEF Kept, Queue!Active
  <2>3. (stale \ dropped)' \subseteq has'
    BY <1>1, <2>1 DEF Kept
  <2>4. \A c \in Callback : owed'[c] \subseteq (stale \ dropped)'
    BY <1>1, <1>2 DEF Kept
  <2> QED
    BY <1>1, <2>2, <2>3, <2>4 DEF Kept
<1> QED
  BY <1>3, <1>4, <1>5, <1>6

\* The scheduler is reset when nothing is owed any longer.
LEMMA ResetStep ==
  ASSUME QueueRight, flushing, Queue!Reset,
         UNCHANGED <<life, stale, callbacks, pending, copies, changes>>,
         dropped' \subseteq Queue!Watcher, stale \subseteq dropped',
         owed' \in [Callback -> SUBSET Queue!Watcher],
         \A c \in Callback : owed'[c] = {}
  PROVE  QueueRight'
<1> USE DEF QueueRight
<1>1. /\ current' = Queue!None /\ stage' = "out" /\ queue' = <<>> /\ has' = {}
      /\ circular' = [w \in Queue!Watcher |-> 0] /\ waiting' = FALSE /\ flushing' = FALSE
  BY DEF Queue!Reset
<1>2. Queue!TypeOK'
  <2>1. circular' \in [Queue!Watcher -> 0 .. MaxUpdateCount + 1]
    BY <1>1, VueAssumption DEF Queue!SchedulerAssumption
  <2>2. queue' \in Seq(Queue!Watcher)
    BY <1>1
  <2>3. waiting' \in BOOLEAN /\ flushing' \in BOOLEAN
    BY <1>1
  <2>4. has' \subseteq Queue!Watcher /\ current' \in Queue!Watcher \cup {Queue!None}
    BY <1>1
  <2> QED
    BY <1>1, <2>1, <2>2, <2>3, <2>4 DEF Queue!TypeOK
<1>3. Scheduled'
  BY <1>1 DEF Scheduled, FlushWaits, Ticks
<1>4. Queued'
  <2>1. Elements(<<>>) = {} /\ Distinct(<<>>)
    BY DEF Elements, Distinct
  <2> QED
    BY <1>1, <2>1 DEF Queued, Taken
<1>5. Kept'
  <2>1. (stale \subseteq Queue!Active)'
    BY DEF Kept, Queue!Active
  <2> QED
    BY <1>1, <2>1 DEF Kept
<1> QED
  BY <1>2, <1>3, <1>4, <1>5

LEMMA RanStep ==
  ASSUME QueueRight, Queue!Ran
  PROVE  QueueRight'
<1> USE DEF QueueRight
<1>1. /\ stage = "run" /\ UNCHANGED <<life, stale, callbacks, pending, copies, changes>>
      /\ current \in Queue!Watcher
  BY DEF Queue!Ran, Queue!tickVars, Queued
<1>2. CASE /\ Queue!Reset
           /\ dropped' = dropped \cup (has \cap stale)
           /\ owed' = [c \in Callback |-> owed[c] \ has]
  <2>1. dropped' \subseteq Queue!Watcher /\ stale \subseteq dropped'
    BY <1>2 DEF Queue!TypeOK, Kept
  <2>2. owed' \in [Callback -> SUBSET Queue!Watcher] /\ \A c \in Callback : owed'[c] = {}
    BY <1>2 DEF Queue!TypeOK, Kept
  <2>3. flushing
    BY <1>1 DEF Scheduled
  <2> QED
    BY <1>1, <1>2, <2>1, <2>2, <2>3, ResetStep
<1>3. CASE LET again == current \in has
               count == circular[current] + 1
           IN  /\ again => count <= MaxUpdateCount
               /\ circular' = IF again THEN [circular EXCEPT ![current] = count] ELSE circular
               /\ stage' = "next"
               /\ UNCHANGED <<Queue!queueVars, current, flushing, dropped, owed>>
  <2>1. circular' \in [Queue!Watcher -> 0 .. MaxUpdateCount + 1]
    <3>1. circular[current] \in Nat /\ MaxUpdateCount \in Nat
      BY <1>1, VueAssumption DEF Queue!SchedulerAssumption, Queue!TypeOK
    <3> QED
      BY <1>1, <1>3, <3>1 DEF Queue!TypeOK
  <2>2. stage' = "next" /\ UNCHANGED <<queue, has, waiting, current, flushing, dropped, owed>>
    BY <1>3 DEF Queue!queueVars
  <2>3. Queue!TypeOK'
    BY <1>1, <2>1, <2>2 DEF Queue!TypeOK
  <2>4. Scheduled' /\ Queued'
    BY <1>1, <2>2 DEF Scheduled, Queued, Taken, FlushWaits, Ticks
  <2>5. Kept'
    BY <1>1, <2>2 DEF Kept, Queue!Active
  <2> QED
    BY <2>3, <2>4, <2>5
<1> QED
  BY <1>2, <1>3 DEF Queue!Ran

LEMMA FinishStep ==
  ASSUME QueueRight, Queue!Finish
  PROVE  QueueRight'
<1> USE DEF QueueRight
<1>1. /\ stage = "next" /\ queue = <<>> /\ Queue!Reset
      /\ UNCHANGED <<life, stale, callbacks, pending, copies, owed, dropped, changes>>
  BY DEF Queue!Finish, Queue!tickVars, Queue!historyVars
<1>2. has = {} /\ flushing
  <2>1. Elements(<<>>) = {}
    BY DEF Elements
  <2> QED
    BY <1>1, <2>1 DEF Queued, Taken, Scheduled
<1>3. stale \subseteq dropped /\ \A c \in Callback : owed[c] = {}
  BY <1>2 DEF Kept
<1> QED
  BY <1>1, <1>2, <1>3, ResetStep DEF Queue!TypeOK

\* The scheduler is left as it is.
LEMMA QueueThrowStep ==
  ASSUME QueueRight, Queue!Throw
  PROVE  QueueRight'
<1> USE DEF QueueRight
<1>1. /\ stage = "run" /\ stage' = "out"
      /\ UNCHANGED <<life, stale, queue, has, waiting, current, flushing, circular, callbacks,
                     pending, copies, owed, dropped, changes>>
  BY DEF Queue!Throw, Queue!queueVars, Queue!tickVars, Queue!historyVars
<1>2. flushing
  BY <1>1 DEF Scheduled
<1> QED
  BY <1>1, <1>2
  DEF Queue!TypeOK, Scheduled, Queued, Taken, FlushWaits, Ticks, Kept, Queue!Active

LEMMA QueueStep ==
  ASSUME QueueRight, [Queue!Next]_(Queue!vars)
  PROVE  QueueRight'
<1>1. ASSUME NEW w \in Queue!Watcher, Queue!Update(w) \/ Queue!Create(w) \/ Queue!Teardown(w)
      PROVE  QueueRight'
  BY <1>1, UpdateStep, CreateStep, TeardownStep
<1>2. ASSUME NEW c \in Callback, Queue!CallNextTick(c) \/ Queue!RunCallback(c)
      PROVE  QueueRight'
  BY <1>2, CallNextTickStep, RunCallbackStep
<1>3. CASE Queue!flushCallbacks
  BY <1>3, FlushCallbacksStep
<1>4. CASE Queue!flushSchedulerQueue
  BY <1>4, FlushStep
<1>5. CASE Queue!Take \/ Queue!Run \/ Queue!Ran \/ Queue!Finish
  BY <1>5, TakeStep, RunStep, RanStep, FinishStep
<1>6. CASE Queue!Throw
  BY <1>6, QueueThrowStep
<1>7. CASE UNCHANGED Queue!vars
  BY <1>7
  DEF Queue!vars, Queue!queueVars, Queue!tickVars, Queue!historyVars,
      QueueRight, Queue!TypeOK, Scheduled, Queued, Taken, FlushWaits, Ticks, Kept,
      BehindFlush, Queue!Active
<1> QED
  BY <1>1, <1>2, <1>3, <1>4, <1>5, <1>6, <1>7 DEF Queue!Next, Queue!Page, Queue!Loop

LEMMA QueueInit == Queue!Init => QueueRight
<1> SUFFICES ASSUME Queue!Init PROVE QueueRight
  OBVIOUS
<1> USE VueAssumption DEF Queue!SchedulerAssumption, Queue!Init
<1>1. Ticks = <<>>
  BY DEF Ticks
<1>2. Elements(<<>>) = {} /\ Distinct(<<>>) /\ Increasing(<<>>) /\ <<>> \in Seq(Tick)
  BY DEF Elements, Distinct, Increasing
<1>3. Queue!TypeOK
  <2>1. circular \in [Queue!Watcher -> 0 .. MaxUpdateCount + 1]
    OBVIOUS
  <2>2. life \in [Queue!Watcher -> {"unborn", "active", "gone"}]
    OBVIOUS
  <2>3. owed \in [Callback -> SUBSET Queue!Watcher]
    OBVIOUS
  <2>4. queue \in Seq(Queue!Watcher) /\ callbacks \in Seq(Tick) /\ copies \in Seq(Tick)
    OBVIOUS
  <2>5. waiting \in BOOLEAN /\ flushing \in BOOLEAN /\ pending \in BOOLEAN
    OBVIOUS
  <2>6. /\ stale \subseteq Queue!Watcher /\ has \subseteq Queue!Watcher
        /\ dropped \subseteq Queue!Watcher /\ current \in Queue!Watcher \cup {Queue!None}
        /\ changes \in 0 .. 0
    OBVIOUS
  <2> QED
    BY <1>2, <2>1, <2>2, <2>3, <2>4, <2>5, <2>6 DEF Queue!TypeOK, Tick
<1>4. Scheduled
  BY <1>1, <1>2 DEF Scheduled, FlushWaits, Tick
<1>5. Queued
  BY <1>2 DEF Queued, Taken
<1>6. Kept
  <2>1. \A c \in Callback : owed[c] = {}
    OBVIOUS
  <2> QED
    BY <2>1 DEF Kept
<1> QED
  BY <1>3, <1>4, <1>5, <1>6 DEF QueueRight

\* What the page can count on.
LEMMA QueueImplies ==
  QueueRight => Queue!TypeOK /\ Queue!NothingIsLost /\ Queue!RunsInOrder
<1> SUFFICES ASSUME QueueRight
             PROVE  Queue!TypeOK /\ Queue!NothingIsLost /\ Queue!RunsInOrder
  OBVIOUS
<1> USE DEF QueueRight
<1>1. FlushWaits => Queue!FlushIsComing
  <2>1. callbacks \in Seq(Tick) /\ copies \in Seq(Tick)
    BY DEF Queue!TypeOK, Tick
  <2>2. Elements(Ticks) = Elements(callbacks \o copies)
    <3>1. Elements(copies \o callbacks) = Elements(copies) \cup Elements(callbacks)
      BY <2>1, ConcatElements
    <3>2. Elements(callbacks \o copies) = Elements(callbacks) \cup Elements(copies)
      BY <2>1, ConcatElements
    <3> QED
      BY <3>1, <3>2 DEF Ticks
  <2> QED
    BY <2>2 DEF FlushWaits, Elements, Queue!FlushIsComing, Queue!ToSet
<1>2. Queue!NothingIsLost
  <2> SUFFICES ASSUME NEW w \in stale \ dropped
               PROVE  /\ \/ w \in Elements(queue) \/ (current = w /\ stage \in {"hook", "before"})
                         \/ Queue!Broken
                      /\ Queue!FlushIsComing \/ Queue!Broken
    BY DEF Queue!NothingIsLost, Queue!ToSet, Elements
  <2>1. w \in has
    BY DEF Kept
  <2>2. w \in Elements(queue) \/ (current = w /\ stage \in {"hook", "before"})
    BY <2>1 DEF Queued, Taken
  <2>3. waiting
    BY <2>1 DEF Scheduled
  <2>4. FlushWaits \/ flushing
    BY <2>3 DEF Scheduled
  <2> QED
    BY <1>1, <2>2, <2>4 DEF Queue!FlushIsComing, Queue!Broken
<1>3. Queue!RunsInOrder
  BY DEF Queue!RunsInOrder, Queued, Increasing
<1> QED
  BY <1>2, <1>3

\* A callback of the page finds nothing owed to it.
LEMMA TickStep ==
  ASSUME QueueRight, [Queue!Next]_(Queue!vars)
  PROVE  [\A c \in Callback :
            copies # <<>> /\ Head(copies) = c /\ copies' = Tail(copies)
              => owed[c] = {} \/ Queue!Broken]_(Queue!vars)
<1> SUFFICES ASSUME NEW c \in Callback,
                    copies # <<>>, Head(copies) = c, copies' = Tail(copies)
             PROVE  owed[c] = {} \/ Queue!Broken
  OBVIOUS
<1>1. copies \in Seq(Tick) /\ c # "flush"
  BY VueAssumption DEF QueueRight, Queue!TypeOK, Queue!SchedulerAssumption, Tick
<1>2. copies' # copies
  BY <1>1
<1>3. stage = "out" /\ callbacks' = callbacks
  BY <1>1, <1>2
  DEF Queue!Next, Queue!Page, Queue!Loop, Queue!Update, Queue!queueWatcher, Queue!NextTick,
      Queue!Create, Queue!Teardown, Queue!CallNextTick, Queue!flushCallbacks,
      Queue!RunCallback, Queue!flushSchedulerQueue, Queue!Take, Queue!Run, Queue!Ran,
      Queue!Finish, Queue!Throw, Queue!vars, Queue!tickVars
<1>4. ~BehindFlush(c)
  BY <1>3, CallStep DEF QueueRight
<1> QED
  BY <1>3, <1>4 DEF QueueRight, Kept, Queue!Broken

\* After an exception has left the flush, nothing is run.
LEMMA BrokenStep ==
  ASSUME QueueRight, [Queue!Next]_(Queue!vars)
  PROVE  [Queue!Broken => /\ Queue!Broken'
                          /\ \A w \in stale : w \in stale' \/ life'[w] = "gone"]_(Queue!vars)
<1> SUFFICES ASSUME flushing, stage = "out"
             PROVE  /\ flushing' /\ stage' = "out"
                    /\ \A w \in stale : w \in stale' \/ life'[w] = "gone"
  BY DEF Queue!Broken
<1>1. CASE UNCHANGED <<flushing, stage, stale>>
  BY <1>1
<1>2. ASSUME NEW w \in Queue!Watcher, Queue!Update(w)
      PROVE  UNCHANGED <<flushing, stage>> /\ stale \subseteq stale'
  BY <1>2 DEF Queue!Update
<1>3. ASSUME NEW w \in Queue!Watcher, Queue!Teardown(w)
      PROVE  /\ UNCHANGED <<flushing, stage>>
             /\ \A v \in stale : v \in stale' \/ life'[v] = "gone"
  BY <1>3 DEF Queue!Teardown, QueueRight, Queue!TypeOK
<1>4. ~Queue!flushSchedulerQueue
  <2>1. ASSUME Queue!flushSchedulerQueue PROVE FlushWaits
    BY <2>1, CallStep DEF Queue!flushSchedulerQueue, QueueRight
  <2> QED
    BY <2>1 DEF QueueRight, Scheduled
<1>5. /\ ~Queue!Take /\ ~Queue!Run /\ ~Queue!Ran /\ ~Queue!Finish /\ ~Queue!Throw
  BY DEF Queue!Take, Queue!Run, Queue!Ran, Queue!Finish, Queue!Throw
<1>6. ASSUME NEW w \in Queue!Watcher, Queue!Create(w)
      PROVE  UNCHANGED <<flushing, stage, stale>>
  BY <1>6 DEF Queue!Create
<1>7. ASSUME NEW c \in Callback, Queue!CallNextTick(c) \/ Queue!RunCallback(c)
      PROVE  UNCHANGED <<flushing, stage, stale>>
  BY <1>7 DEF Queue!CallNextTick, Queue!RunCallback
<1>8. Queue!flushCallbacks => UNCHANGED <<flushing, stage, stale>>
  BY DEF Queue!flushCallbacks
<1>9. UNCHANGED Queue!vars => UNCHANGED <<flushing, stage, stale>>
  BY DEF Queue!vars
<1> QED
  BY <1>1, <1>2, <1>3, <1>4, <1>5, <1>6, <1>7, <1>8, <1>9
  DEF Queue!Next, Queue!Page, Queue!Loop

\* ChangesAreKept: for any number of watchers and callbacks, wherever the page's code
\* changes data, creates and destroys watchers, in a flush or outside, Vue loses no
\* change, runs parents before children, and calls nextTick's callbacks after the
\* changes before them; and after a patch that throws no watcher runs again.
THEOREM ChangesStayKept == Spec => ChangesAreKept
<1>1. Init => QueueRight
  BY QueueInit DEF Init
<1>2. [Next]_vars => [Queue!Next]_(Queue!vars)
  <2> SUFFICES ASSUME [Next]_vars PROVE [Queue!Next]_(Queue!vars)
    OBVIOUS
  <2>1. UNCHANGED queueVars => UNCHANGED Queue!vars
    BY DEF queueVars, Queue!vars, Queue!queueVars, Queue!tickVars, Queue!historyVars
  <2> QED
    BY <2>1 DEF Next, vars
<1>3. QueueRight /\ [Next]_vars =>
        /\ QueueRight'
        /\ [\A c \in Callback :
              copies # <<>> /\ Head(copies) = c /\ copies' = Tail(copies)
                => owed[c] = {} \/ Queue!Broken]_(Queue!vars)
        /\ [Queue!Broken => /\ Queue!Broken'
                            /\ \A w \in stale : w \in stale' \/ life'[w] = "gone"]_(Queue!vars)
  BY <1>2, QueueStep, TickStep, BrokenStep
<1>4. QueueRight => Queue!TypeOK /\ Queue!NothingIsLost /\ Queue!RunsInOrder
  BY QueueImplies
<1> QED
  BY <1>1, <1>3, <1>4, PTL DEF Spec, ChangesAreKept, Queue!TickSeesChanges, Queue!ThrowIsFinal

-----------------------------------------------------------------------------
(* Lists of different elements, and the order of these: a precedes b. *)

Precedes(s, a, b) == \E i, j \in DOMAIN s : i < j /\ s[i] = a /\ s[j] = b

LEMMA PrefixIs ==
  ASSUME NEW S, NEW s \in Seq(S), NEW k \in 0 .. Len(s)
  PROVE  /\ SubSeq(s, 1, k) \in Seq(S) /\ Len(SubSeq(s, 1, k)) = k
         /\ \A i \in 1 .. k : SubSeq(s, 1, k)[i] = s[i]
<1>1. k \in Nat /\ 1 \in Int /\ k \in Int /\ \A i \in 1 .. k : s[i] \in S
  OBVIOUS
<1>2. /\ SubSeq(s, 1, k) \in Seq(S)
      /\ Len(SubSeq(s, 1, k)) = IF 1 <= k THEN k - 1 + 1 ELSE 0
      /\ \A i \in 1 .. k - 1 + 1 : SubSeq(s, 1, k)[i] = s[1 + i - 1]
  BY <1>1, SubSeqProperties
<1>3. k - 1 + 1 = k /\ (~(1 <= k) => k = 0) /\ \A i \in 1 .. k : 1 + i - 1 = i
  BY <1>1
<1> QED
  BY <1>2, <1>3

LEMMA SuffixIs ==
  ASSUME NEW S, NEW s \in Seq(S), NEW k \in 0 .. Len(s)
  PROVE  /\ SubSeq(s, k + 1, Len(s)) \in Seq(S) /\ Len(SubSeq(s, k + 1, Len(s))) = Len(s) - k
         /\ \A i \in 1 .. Len(s) - k : SubSeq(s, k + 1, Len(s))[i] = s[k + i]
<1> DEFINE len == Len(s)
<1>1. len \in Nat /\ k \in Nat /\ k <= len /\ \A i \in k + 1 .. len : s[i] \in S
  OBVIOUS
<1> HIDE DEF len
<1>2. k + 1 \in Int /\ len \in Int
  BY <1>1
<1>3. /\ SubSeq(s, k + 1, len) \in Seq(S)
      /\ Len(SubSeq(s, k + 1, len)) = IF k + 1 <= len THEN len - (k + 1) + 1 ELSE 0
      /\ \A i \in 1 .. len - (k + 1) + 1 : SubSeq(s, k + 1, len)[i] = s[(k + 1) + i - 1]
  BY <1>1, <1>2, SubSeqProperties
<1>4. /\ len - (k + 1) + 1 = len - k /\ (~(k + 1 <= len) => len - k = 0)
      /\ \A i \in 1 .. len - k : (k + 1) + i - 1 = k + i
  BY <1>1
<1>5. /\ SubSeq(s, k + 1, len) \in Seq(S) /\ Len(SubSeq(s, k + 1, len)) = len - k
      /\ \A i \in 1 .. len - k : SubSeq(s, k + 1, len)[i] = s[k + i]
  BY <1>3, <1>4
<1> QED
  BY <1>5 DEF len

\* q is s with e behind the first k elements.
Inserted(q, s, k, e) ==
  /\ Len(q) = Len(s) + 1
  /\ \A i \in 1 .. Len(s) + 1 :
       q[i] = IF i <= k THEN s[i] ELSE IF i = k + 1 THEN e ELSE s[i - 1]

LEMMA InsertIs ==
  ASSUME NEW S, NEW s \in Seq(S), NEW k \in 0 .. Len(s), NEW e \in S
  PROVE  LET q == SubSeq(s, 1, k) \o <<e>> \o SubSeq(s, k + 1, Len(s))
         IN  q \in Seq(S) /\ Inserted(q, s, k, e)
<1> DEFINE len == Len(s)
           a == SubSeq(s, 1, k)
           b == SubSeq(s, k + 1, len)
           u == a \o <<e>>
           q == u \o b
<1>1. len \in Nat /\ k \in Nat /\ k <= len
  OBVIOUS
<1>2. a \in Seq(S) /\ Len(a) = k /\ \A i \in 1 .. k : a[i] = s[i]
  BY PrefixIs
<1>3. b \in Seq(S) /\ Len(b) = len - k /\ \A i \in 1 .. len - k : b[i] = s[k + i]
  BY SuffixIs
<1> HIDE DEF a, b, len
<1>4. u \in Seq(S) /\ Len(u) = k + 1 /\ \A i \in 1 .. k + 1 : u[i] = IF i <= k THEN a[i] ELSE e
  <2>1. <<e>> \in Seq(S) /\ Len(<<e>>) = 1 /\ <<e>>[1] = e
    OBVIOUS
  <2>2. /\ u \in Seq(S) /\ Len(u) = k + 1
        /\ \A i \in 1 .. k + 1 : u[i] = IF i <= k THEN a[i] ELSE <<e>>[i - k]
    BY <1>2, <2>1, ConcatProperties
  <2>3. \A i \in 1 .. k + 1 : i <= k \/ i - k = 1
    BY <1>1
  <2> HIDE DEF u
  <2> QED
    BY <2>1, <2>2, <2>3
<1> HIDE DEF u
<1>5. /\ q \in Seq(S) /\ Len(q) = k + 1 + (len - k)
      /\ \A i \in 1 .. k + 1 + (len - k) : q[i] = IF i <= k + 1 THEN u[i] ELSE b[i - (k + 1)]
  <2>1. /\ q \in Seq(S) /\ Len(q) = Len(u) + Len(b)
        /\ \A i \in 1 .. Len(u) + Len(b) : q[i] = IF i <= Len(u) THEN u[i] ELSE b[i - Len(u)]
    BY <1>3, <1>4, ConcatProperties
  <2> HIDE DEF q
  <2> QED
    BY <1>3, <1>4, <2>1
<1>6. k + 1 + (len - k) = len + 1
  BY <1>1
<1> HIDE DEF q
<1>7. ASSUME NEW i \in 1 .. len + 1
      PROVE  q[i] = IF i <= k THEN s[i] ELSE IF i = k + 1 THEN e ELSE s[i - 1]
  <2>1. CASE i <= k + 1
    <3>1. i \in 1 .. k + 1 /\ (i <= k => i \in 1 .. k)
      BY <1>1, <2>1
    <3>2. q[i] = u[i]
      BY <1>5, <1>6, <2>1
    <3> QED
      BY <1>1, <1>2, <1>4, <2>1, <3>1, <3>2
  <2>2. CASE i > k + 1
    <3>1. i - (k + 1) \in 1 .. len - k /\ k + (i - (k + 1)) = i - 1 /\ ~(i <= k + 1)
      BY <1>1, <2>2
    <3>2. q[i] = b[i - (k + 1)]
      BY <1>5, <1>6, <3>1
    <3>3. b[i - (k + 1)] = s[k + (i - (k + 1))]
      BY <1>3, <3>1
    <3> QED
      BY <1>1, <2>2, <3>1, <3>2, <3>3
  <2> QED
    BY <1>1, <2>1, <2>2
<1>8. q \in Seq(S) /\ Len(q) = len + 1
  BY <1>5, <1>6
<1>9. q \in Seq(S) /\ Inserted(q, s, k, e)
  BY <1>7, <1>8 DEF Inserted, len
<1> QED
  BY <1>9 DEF q, u, a, b, len

\* What an insertion does to the order.
LEMMA InsertKeeps ==
  ASSUME NEW S, NEW s \in Seq(S), Distinct(s), NEW k \in 0 .. Len(s), NEW e, e \notin Elements(s),
         NEW q \in Seq(S), Inserted(q, s, k, e)
  PROVE  /\ Distinct(q) /\ Elements(q) = Elements(s) \cup {e}
         /\ \A a, b : a # e /\ b # e => (Precedes(q, a, b) <=> Precedes(s, a, b))
         /\ \A i \in 1 .. Len(s) :
              IF i <= k THEN Precedes(q, s[i], e) ELSE Precedes(q, e, s[i])
<1> DEFINE len == Len(s)
           up(i) == IF i <= k THEN i ELSE i + 1
<1>1. /\ len \in Nat /\ k \in Nat /\ k <= len
      /\ DOMAIN s = 1 .. len /\ DOMAIN q = 1 .. len + 1
  BY DEF Inserted
<1>2. \A i \in 1 .. len + 1 :
        q[i] = IF i <= k THEN s[i] ELSE IF i = k + 1 THEN e ELSE s[i - 1]
  BY DEF Inserted
<1> HIDE DEF len
<1>3. \A i \in 1 .. len : up(i) \in 1 .. len + 1 /\ up(i) # k + 1 /\ q[up(i)] = s[i]
  <2> SUFFICES ASSUME NEW i \in 1 .. len
               PROVE  up(i) \in 1 .. len + 1 /\ up(i) # k + 1 /\ q[up(i)] = s[i]
    OBVIOUS
  <2>1. CASE i <= k
    BY <1>1, <1>2, <2>1
  <2>2. CASE i > k
    <3>1. up(i) = i + 1 /\ i + 1 \in 1 .. len + 1 /\ i + 1 > k + 1 /\ (i + 1) - 1 = i
      BY <1>1, <2>2
    <3> QED
      BY <1>1, <1>2, <3>1
  <2> QED
    BY <1>1, <2>1, <2>2
<1>4. q[k + 1] = e /\ k + 1 \in 1 .. len + 1
  BY <1>1, <1>2
<1>5. \A j \in 1 .. len + 1 : j # k + 1 => \E i \in 1 .. len : j = up(i)
  <2> SUFFICES ASSUME NEW j \in 1 .. len + 1, j # k + 1
               PROVE  \E i \in 1 .. len : j = up(i)
    OBVIOUS
  <2>1. CASE j <= k
    <3>1. j \in 1 .. len /\ j = up(j)
      BY <1>1, <2>1
    <3> QED
      BY <3>1
  <2>2. CASE j > k
    <3>1. j - 1 \in 1 .. len /\ j = up(j - 1)
      BY <1>1, <2>2
    <3> QED
      BY <3>1
  <2> QED
    BY <1>1, <2>1, <2>2
<1>6. \A i, j \in 1 .. len : i < j <=> up(i) < up(j)
  BY <1>1
<1>7. \A i \in 1 .. len : s[i] # e
  BY <1>1 DEF Elements
<1>8. \A i \in 1 .. len : IF i <= k THEN up(i) < k + 1 ELSE k + 1 < up(i)
  BY <1>1
<1> HIDE DEF up
<1>9. Distinct(q)
  <2>1. \A i, j \in 1 .. len : s[i] = s[j] => i = j
    BY <1>1 DEF Distinct
  <2> SUFFICES ASSUME NEW i \in 1 .. len + 1, NEW j \in 1 .. len + 1, q[i] = q[j]
               PROVE  i = j
    BY <1>1 DEF Distinct
  <2>2. CASE i = k + 1 \/ j = k + 1
    BY <1>3, <1>4, <1>5, <1>7, <2>2
  <2>3. CASE i # k + 1 /\ j # k + 1
    BY <1>3, <1>5, <2>1, <2>3
  <2> QED
    BY <2>2, <2>3
<1>10. Elements(q) = Elements(s) \cup {e}
  <2>1. \A x : x \in Elements(q) => x \in Elements(s) \cup {e}
    <3>1. \A j \in 1 .. len + 1 : q[j] = e \/ \E i \in 1 .. len : q[j] = s[i]
      BY <1>3, <1>4, <1>5
    <3> QED
      BY <1>1, <3>1 DEF Elements
  <2>2. \A x : x \in Elements(s) \cup {e} => x \in Elements(q)
    BY <1>1, <1>3, <1>4 DEF Elements
  <2> QED
    BY <2>1, <2>2
<1>11. ASSUME NEW a, NEW b, a # e, b # e
       PROVE  Precedes(q, a, b) <=> Precedes(s, a, b)
  <2>1. ASSUME Precedes(q, a, b) PROVE Precedes(s, a, b)
    <3>1. PICK i \in 1 .. len + 1, j \in 1 .. len + 1 : i < j /\ q[i] = a /\ q[j] = b
      BY <1>1, <2>1 DEF Precedes
    <3>2. i # k + 1 /\ j # k + 1
      BY <1>4, <1>11, <3>1
    <3>3. PICK x \in 1 .. len : i = up(x)
      BY <1>5, <3>2
    <3>4. PICK y \in 1 .. len : j = up(y)
      BY <1>5, <3>2
    <3>5. x < y /\ s[x] = a /\ s[y] = b
      BY <1>3, <1>6, <3>1, <3>3, <3>4
    <3> QED
      BY <1>1, <3>5 DEF Precedes
  <2>2. ASSUME Precedes(s, a, b) PROVE Precedes(q, a, b)
    <3>1. PICK i \in 1 .. len, j \in 1 .. len : i < j /\ s[i] = a /\ s[j] = b
      BY <1>1, <2>2 DEF Precedes
    <3>2. /\ up(i) \in 1 .. len + 1 /\ up(j) \in 1 .. len + 1 /\ up(i) < up(j)
          /\ q[up(i)] = a /\ q[up(j)] = b
      BY <1>3, <1>6, <3>1
    <3> QED
      BY <1>1, <3>2 DEF Precedes
  <2> QED
    BY <2>1, <2>2
<1>12. ASSUME NEW i \in 1 .. len
       PROVE  IF i <= k THEN Precedes(q, s[i], e) ELSE Precedes(q, e, s[i])
  <2>1. up(i) \in 1 .. len + 1 /\ q[up(i)] = s[i]
    BY <1>3
  <2>2. CASE i <= k
    BY <1>1, <1>4, <1>8, <2>1, <2>2 DEF Precedes
  <2>3. CASE ~(i <= k)
    BY <1>1, <1>4, <1>8, <2>1, <2>3 DEF Precedes
  <2> QED
    BY <2>2, <2>3
<1> QED
  BY <1>9, <1>10, <1>11, <1>12 DEF len

\* q is s without its p-th element.
Removed(q, s, p) ==
  /\ Len(s) = Len(q) + 1
  /\ \A i \in 1 .. Len(q) : q[i] = IF i < p THEN s[i] ELSE s[i + 1]

LEMMA RemoveIs ==
  ASSUME NEW S, NEW s \in Seq(S), NEW p \in 1 .. Len(s)
  PROVE  LET q == SubSeq(s, 1, p - 1) \o SubSeq(s, p + 1, Len(s))
         IN  q \in Seq(S) /\ Removed(q, s, p)
<1> DEFINE len == Len(s)
           a == SubSeq(s, 1, p - 1)
           b == SubSeq(s, p + 1, len)
           q == a \o b
<1>1. len \in Nat /\ p \in Nat /\ 1 <= p /\ p <= len /\ p - 1 \in 0 .. len /\ p \in 0 .. len
  OBVIOUS
<1>2. a \in Seq(S) /\ Len(a) = p - 1 /\ \A i \in 1 .. p - 1 : a[i] = s[i]
  BY <1>1, PrefixIs
<1>3. b \in Seq(S) /\ Len(b) = len - p /\ \A i \in 1 .. len - p : b[i] = s[p + i]
  BY <1>1, SuffixIs
<1> HIDE DEF a, b, len
<1>4. /\ q \in Seq(S) /\ Len(q) = (p - 1) + (len - p)
      /\ \A i \in 1 .. (p - 1) + (len - p) : q[i] = IF i <= p - 1 THEN a[i] ELSE b[i - (p - 1)]
  <2>1. /\ q \in Seq(S) /\ Len(q) = Len(a) + Len(b)
        /\ \A i \in 1 .. Len(a) + Len(b) : q[i] = IF i <= Len(a) THEN a[i] ELSE b[i - Len(a)]
    BY <1>2, <1>3, ConcatProperties
  <2> HIDE DEF q
  <2> QED
    BY <1>2, <1>3, <2>1
<1> HIDE DEF q
<1>5. (p - 1) + (len - p) = len - 1
  BY <1>1
<1>6. ASSUME NEW i \in 1 .. len - 1
      PROVE  q[i] = IF i < p THEN s[i] ELSE s[i + 1]
  <2>1. CASE i < p
    <3>1. i <= p - 1 /\ i \in 1 .. p - 1
      BY <1>1, <2>1
    <3> QED
      BY <1>2, <1>4, <1>5, <2>1, <3>1
  <2>2. CASE ~(i < p)
    <3>1. i - (p - 1) \in 1 .. len - p /\ p + (i - (p - 1)) = i + 1 /\ ~(i <= p - 1)
      BY <1>1, <2>2
    <3>2. q[i] = b[i - (p - 1)]
      BY <1>4, <1>5, <3>1
    <3>3. b[i - (p - 1)] = s[p + (i - (p - 1))]
      BY <1>3, <3>1
    <3> QED
      BY <2>2, <3>1, <3>2, <3>3
  <2> QED
    BY <2>1, <2>2
<1>7. q \in Seq(S) /\ Len(q) = len - 1 /\ len = (len - 1) + 1
  BY <1>1, <1>4, <1>5
<1>8. q \in Seq(S) /\ Removed(q, s, p)
  BY <1>6, <1>7 DEF Removed, len
<1> QED
  BY <1>8 DEF q, a, b, len

\* The other elements keep their order: s is q with the element inserted.
LEMMA RemoveKeeps ==
  ASSUME NEW S, NEW s \in Seq(S), Distinct(s), NEW p \in 1 .. Len(s),
         NEW q \in Seq(S), Removed(q, s, p)
  PROVE  /\ Distinct(q) /\ Elements(q) = Elements(s) \ {s[p]}
         /\ \A a, b : a # s[p] /\ b # s[p] => (Precedes(q, a, b) <=> Precedes(s, a, b))
<1> DEFINE len == Len(q)
           k == p - 1
<1>1. /\ len \in Nat /\ Len(s) = len + 1 /\ p \in 1 .. len + 1
      /\ DOMAIN s = 1 .. len + 1 /\ DOMAIN q = 1 .. len
  BY DEF Removed
<1>2. \A i \in 1 .. len : q[i] = IF i < p THEN s[i] ELSE s[i + 1]
  BY DEF Removed
<1> HIDE DEF len
<1>3. k \in 0 .. len /\ p = k + 1
  BY <1>1
<1> HIDE DEF k
<1>4. \A i \in 1 .. len + 1 :
        s[i] = IF i <= k THEN q[i] ELSE IF i = k + 1 THEN s[p] ELSE q[i - 1]
  <2> SUFFICES ASSUME NEW i \in 1 .. len + 1
               PROVE  s[i] = IF i <= k THEN q[i] ELSE IF i = k + 1 THEN s[p] ELSE q[i - 1]
    OBVIOUS
  <2>1. CASE i <= k
    BY <1>1, <1>2, <1>3, <2>1
  <2>2. CASE i = k + 1
    BY <1>1, <1>3, <2>2
  <2>3. CASE i > k + 1
    <3>1. i - 1 \in 1 .. len /\ (i - 1) + 1 = i /\ ~(i - 1 < p)
      BY <1>1, <1>3, <2>3
    <3> QED
      BY <1>1, <1>2, <1>3, <2>3, <3>1
  <2> QED
    BY <1>1, <1>3, <2>1, <2>2, <2>3
<1>5. Inserted(s, q, k, s[p])
  BY <1>1, <1>4 DEF Inserted, len
<1>6. s[p] \notin Elements(q)
  <2> SUFFICES ASSUME NEW i \in 1 .. len, q[i] = s[p] PROVE FALSE
    BY <1>1 DEF Elements
  <2>1. CASE i < p
    BY <1>1, <1>2, <2>1 DEF Distinct
  <2>2. CASE ~(i < p)
    <3>1. i + 1 \in 1 .. len + 1 /\ i + 1 # p /\ q[i] = s[i + 1]
      BY <1>1, <1>2, <2>2
    <3> QED
      BY <1>1, <3>1 DEF Distinct
  <2> QED
    BY <2>1, <2>2
<1>7. Distinct(q)
  <2> SUFFICES ASSUME NEW i \in 1 .. len, NEW j \in 1 .. len, q[i] = q[j]
               PROVE  i = j
    BY <1>1 DEF Distinct
  <2> DEFINE up(x) == IF x < p THEN x ELSE x + 1
  <2>1. up(i) \in 1 .. len + 1 /\ up(j) \in 1 .. len + 1 /\ q[i] = s[up(i)] /\ q[j] = s[up(j)]
    BY <1>1, <1>2
  <2>2. up(i) = up(j)
    <3> HIDE DEF up
    <3> QED
      BY <1>1, <2>1 DEF Distinct
  <2> QED
    BY <1>1, <2>2
<1>8. k \in 0 .. Len(q)
  BY <1>3 DEF len
<1>9. /\ Elements(s) = Elements(q) \cup {s[p]}
      /\ \A a, b : a # s[p] /\ b # s[p] => (Precedes(s, a, b) <=> Precedes(q, a, b))
  BY <1>5, <1>6, <1>7, <1>8, InsertKeeps
<1> QED
  BY <1>6, <1>7, <1>9

\* Lists of the same elements in the same order are equal.
LEMMA SameOrder ==
  ASSUME NEW S, NEW s \in Seq(S), Distinct(s), NEW t \in Seq(S), Elements(s) = Elements(t),
         \A i, j \in DOMAIN t : i < j => Precedes(s, t[i], t[j])
  PROVE  s = t
<1> DEFINE n == Len(s)
           m == Len(t)
<1>1. n \in Nat /\ m \in Nat /\ DOMAIN s = 1 .. n /\ DOMAIN t = 1 .. m
  OBVIOUS
<1>2. s \in [1 .. n -> S] /\ t \in [1 .. m -> S]
  OBVIOUS
<1> HIDE DEF n, m
<1>3. ASSUME NEW i \in 1 .. m, NEW j \in 1 .. m, i < j
      PROVE  \E x, y \in 1 .. n : x < y /\ s[x] = t[i] /\ s[y] = t[j]
  <2>1. Precedes(s, t[i], t[j])
    BY <1>1, <1>3
  <2>2. \E x, y \in DOMAIN s : x < y /\ s[x] = t[i] /\ s[y] = t[j]
    BY <2>1 DEF Precedes
  <2> QED
    BY <1>1, <2>2
<1>4. Distinct(t)
  <2> SUFFICES ASSUME NEW i \in 1 .. m, NEW j \in 1 .. m, t[i] = t[j], i < j PROVE FALSE
    BY <1>1 DEF Distinct
  <2>1. PICK x \in 1 .. n, y \in 1 .. n : x < y /\ s[x] = t[i] /\ s[y] = t[j]
    BY <1>3
  <2> QED
    BY <1>1, <2>1 DEF Distinct
<1>5. n = m
  <2>1. s \in [1 .. n -> Elements(s)] /\ t \in [1 .. m -> Elements(s)]
    <3>1. \A i \in 1 .. n : s[i] \in Elements(s)
      BY <1>1 DEF Elements
    <3>2. \A i \in 1 .. m : t[i] \in Elements(s)
      BY <1>1 DEF Elements
    <3> QED
      BY <1>2, <3>1, <3>2
  <2>2. Cardinality(Elements(s)) = n /\ Cardinality(Elements(s)) = m
    BY <1>1, <1>4, <2>1, LengthIs
  <2> QED
    BY <2>2
<1>6. \A i \in 1 .. n : s[i] = t[i]
  <2> DEFINE T == {i \in 1 .. n : s[i] # t[i]}
  <2> SUFFICES ASSUME T # {} PROVE FALSE
    OBVIOUS
  <2>1. PICK p \in T : \A i \in T : p <= i
    <3>1. T \subseteq Nat
      BY <1>1
    <3> HIDE DEF T
    <3> QED
      BY <3>1, Least
  <2>2. p \in 1 .. n /\ s[p] # t[p]
    OBVIOUS
  <2>3. \A i \in 1 .. n : i < p => s[i] = t[i]
    BY <1>1, <2>1
  <2>4. PICK q \in 1 .. n : t[q] = s[p]
    BY <1>1, <1>5, <2>2 DEF Elements
  <2>5. PICK r \in 1 .. n : s[r] = t[p]
    BY <1>1, <1>5, <2>2 DEF Elements
  <2>6. p < q
    <3>1. q # p /\ ~(q < p)
      BY <1>1, <2>2, <2>3, <2>4 DEF Distinct
    <3> QED
      BY <1>1, <2>2, <2>4, <3>1
  <2>7. p < r
    <3>1. r # p
      BY <2>2, <2>5
    <3>2. ~(r < p)
      <4> SUFFICES ASSUME r < p PROVE FALSE
        OBVIOUS
      <4>1. t[r] = t[p]
        BY <2>3, <2>5
      <4> QED
        BY <1>1, <1>4, <1>5, <2>2, <3>1, <4>1 DEF Distinct
    <3> QED
      BY <1>1, <2>2, <2>5, <3>1, <3>2
  <2>8. PICK x \in 1 .. n, y \in 1 .. n : x < y /\ s[x] = t[p] /\ s[y] = t[q]
    BY <1>3, <1>5, <2>2, <2>4, <2>6
  <2>9. x = r /\ y = p
    BY <1>1, <2>2, <2>4, <2>5, <2>8 DEF Distinct
  <2> QED
    BY <1>1, <2>2, <2>5, <2>7, <2>8, <2>9
<1>7. s = [i \in 1 .. n |-> s[i]] /\ t = [i \in 1 .. n |-> t[i]]
  BY <1>2, <1>5
<1> QED
  BY <1>6, <1>7

\* Different elements of a list are in some order, and in one only.
LEMMA OrderIs ==
  ASSUME NEW S, NEW s \in Seq(S), Distinct(s)
  PROVE  /\ \A a, b \in Elements(s) : a = b \/ Precedes(s, a, b) \/ Precedes(s, b, a)
         /\ \A a, b : Precedes(s, a, b) =>
              /\ a \in Elements(s) /\ b \in Elements(s) /\ a # b /\ ~Precedes(s, b, a)
         /\ \A a, b, c : Precedes(s, a, b) /\ Precedes(s, b, c) => Precedes(s, a, c)
<1> DEFINE n == Len(s)
<1>1. n \in Nat /\ DOMAIN s = 1 .. n
  OBVIOUS
<1> HIDE DEF n
<1>2. \A i, j \in 1 .. n : s[i] = s[j] => i = j
  BY <1>1 DEF Distinct
<1>3. ASSUME NEW a \in Elements(s), NEW b \in Elements(s)
      PROVE  a = b \/ Precedes(s, a, b) \/ Precedes(s, b, a)
  <2>1. PICK i \in 1 .. n : s[i] = a
    BY <1>1 DEF Elements
  <2>2. PICK j \in 1 .. n : s[j] = b
    BY <1>1 DEF Elements
  <2>3. i = j \/ i < j \/ j < i
    BY <1>1
  <2> QED
    BY <1>1, <2>1, <2>2, <2>3 DEF Precedes
<1>4. ASSUME NEW a, NEW b, Precedes(s, a, b)
      PROVE  a \in Elements(s) /\ b \in Elements(s) /\ a # b /\ ~Precedes(s, b, a)
  <2>1. PICK i \in 1 .. n, j \in 1 .. n : i < j /\ s[i] = a /\ s[j] = b
    BY <1>1, <1>4 DEF Precedes
  <2>2. a # b
    BY <1>1, <1>2, <2>1
  <2>3. ASSUME Precedes(s, b, a) PROVE FALSE
    <3>1. PICK x \in 1 .. n, y \in 1 .. n : x < y /\ s[x] = b /\ s[y] = a
      BY <1>1, <2>3 DEF Precedes
    <3>2. x = j /\ y = i
      BY <1>2, <2>1, <3>1
    <3> QED
      BY <1>1, <2>1, <3>1, <3>2
  <2> QED
    BY <1>1, <2>1, <2>2, <2>3 DEF Elements
<1>5. ASSUME NEW a, NEW b, NEW c, Precedes(s, a, b), Precedes(s, b, c)
      PROVE  Precedes(s, a, c)
  <2>1. PICK i \in 1 .. n, j \in 1 .. n : i < j /\ s[i] = a /\ s[j] = b
    BY <1>1, <1>5 DEF Precedes
  <2>2. PICK x \in 1 .. n, y \in 1 .. n : x < y /\ s[x] = b /\ s[y] = c
    BY <1>1, <1>5 DEF Precedes
  <2>3. i < y
    <3>1. x = j
      BY <1>2, <2>1, <2>2
    <3> QED
      BY <1>1, <2>1, <2>2, <3>1
  <2> QED
    BY <1>1, <2>1, <2>2, <2>3 DEF Precedes
<1> QED
  BY <1>3, <1>4, <1>5

LEMMA PrecedesIs ==
  ASSUME NEW S, NEW s \in Seq(S), Distinct(s), NEW i \in 1 .. Len(s), NEW j \in 1 .. Len(s)
  PROVE  Precedes(s, s[i], s[j]) <=> i < j
<1> DEFINE n == Len(s)
<1>1. n \in Nat /\ DOMAIN s = 1 .. n /\ i \in 1 .. n /\ j \in 1 .. n
  OBVIOUS
<1> HIDE DEF n
<1>2. i < j => Precedes(s, s[i], s[j])
  BY <1>1 DEF Precedes
<1>3. ASSUME Precedes(s, s[i], s[j]) PROVE i < j
  <2>1. PICK x \in 1 .. n, y \in 1 .. n : x < y /\ s[x] = s[i] /\ s[y] = s[j]
    BY <1>1, <1>3 DEF Precedes
  <2>2. x = i /\ y = j
    BY <1>1, <2>1 DEF Distinct
  <2> QED
    BY <2>1, <2>2
<1> QED
  BY <1>2, <1>3

-----------------------------------------------------------------------------
(* What the walk over the children does to the document. *)

LEMMA PlaceOf ==
  ASSUME NEW S, NEW s \in Seq(S), NEW e \in Elements(s)
  PROVE  Children!Place(s, e) \in 1 .. Len(s) /\ s[Children!Place(s, e)] = e
<1>1. DOMAIN s = 1 .. Len(s)
  OBVIOUS
<1>2. \E i \in 1 .. Len(s) : s[i] = e
  BY <1>1 DEF Elements
<1> QED
  BY <1>1, <1>2 DEF Children!Place

\* An element leaves the document.
LEMMA WithoutIs ==
  ASSUME NEW S, dom \in Seq(S), Distinct(dom), NEW e
  PROVE  /\ Children!Without(e) \in Seq(S) /\ Distinct(Children!Without(e))
         /\ Elements(Children!Without(e)) = Elements(dom) \ {e}
         /\ \A a, b : a # e /\ b # e =>
              (Precedes(Children!Without(e), a, b) <=> Precedes(dom, a, b))
<1>1. Children!ToSet(dom) = Elements(dom)
  BY DEF Children!ToSet, Elements
<1>2. CASE e \notin Elements(dom)
  BY <1>1, <1>2 DEF Children!Without
<1>3. CASE e \in Elements(dom)
  <2> DEFINE p == Children!Place(dom, e)
             q == SubSeq(dom, 1, p - 1) \o SubSeq(dom, p + 1, Len(dom))
  <2>1. p \in 1 .. Len(dom) /\ dom[p] = e
    BY <1>3, PlaceOf
  <2>2. Children!Without(e) = q
    BY <1>1, <1>3 DEF Children!Without, Children!RemoveAt
  <2> HIDE DEF p
  <2>3. q \in Seq(S) /\ Removed(q, dom, p)
    BY <2>1, RemoveIs
  <2> HIDE DEF q
  <2>4. /\ Distinct(q) /\ Elements(q) = Elements(dom) \ {dom[p]}
        /\ \A a, b : a # dom[p] /\ b # dom[p] => (Precedes(q, a, b) <=> Precedes(dom, a, b))
    BY <2>1, <2>3, RemoveKeeps
  <2> QED
    BY <2>1, <2>2, <2>3, <2>4
<1> QED
  BY <1>2, <1>3

\* An element is put before ref, or at the end: the others keep their order.
LEMMA InsertBeforeIs ==
  ASSUME NEW S, Children!None \notin S, dom \in Seq(S), Distinct(dom), NEW e \in S,
         NEW ref \in {Children!None} \cup (Elements(dom) \ {e})
  PROVE  LET q == Children!InsertBefore(e, ref)
         IN  /\ q \in Seq(S) /\ Distinct(q) /\ Elements(q) = Elements(dom) \cup {e}
             /\ \A a, b : a # e /\ b # e => (Precedes(q, a, b) <=> Precedes(dom, a, b))
             /\ \A x \in Elements(dom) \ {e} :
                  IF ref = Children!None \/ Precedes(dom, x, ref)
                  THEN Precedes(q, x, e) ELSE Precedes(q, e, x)
<1> DEFINE others == Children!Without(e)
           q == Children!InsertBefore(e, ref)
           len == Len(others)
<1>1. /\ others \in Seq(S) /\ Distinct(others) /\ Elements(others) = Elements(dom) \ {e}
      /\ \A a, b : a # e /\ b # e => (Precedes(others, a, b) <=> Precedes(dom, a, b))
  BY WithoutIs
<1>2. /\ q \in Seq(S)
      /\ \E k \in 0 .. len :
           /\ Inserted(q, others, k, e)
           /\ \A i \in 1 .. len : i <= k <=> ref = Children!None \/ Precedes(dom, others[i], ref)
  <2>1. CASE ref = Children!None
    <3>1. q = Append(others, e)
      BY <2>1 DEF Children!InsertBefore
    <3> HIDE DEF q, others
    <3>2. /\ q \in Seq(S) /\ Len(q) = len + 1 /\ len \in Nat
          /\ \A i \in 1 .. len : q[i] = others[i]
          /\ q[len + 1] = e
      BY <1>1, <3>1
    <3>3. Inserted(q, others, len, e)
      <4> SUFFICES ASSUME NEW i \in 1 .. len + 1
                   PROVE  q[i] = IF i <= len THEN others[i]
                                 ELSE IF i = len + 1 THEN e ELSE others[i - 1]
        BY <3>2 DEF Inserted
      <4> HIDE DEF len
      <4> QED
        BY <3>2
    <3>4. len \in 0 .. len /\ \A i \in 1 .. len : i <= len
      BY <3>2
    <3> QED
      BY <2>1, <3>2, <3>3, <3>4
  <2>2. CASE ref # Children!None
    <3>1. ref \in Elements(others) /\ ref # e
      BY <1>1, <2>2
    <3> DEFINE p == Children!Place(others, ref)
               k == p - 1
    <3>2. q = SubSeq(others, 1, p - 1) \o <<e>> \o SubSeq(others, p, Len(others))
      BY <2>2 DEF Children!InsertBefore, Children!InsertAt
    <3>3. p \in 1 .. len /\ others[p] = ref
      <4> HIDE DEF others
      <4> QED
        BY <1>1, <3>1, PlaceOf
    <3>4. len \in Nat
      <4> HIDE DEF others
      <4> QED
        BY <1>1
    <3> HIDE DEF q, others, p
    <3>5. k \in 0 .. len /\ k + 1 = p
      BY <3>3, <3>4
    <3>6. q = SubSeq(others, 1, k) \o <<e>> \o SubSeq(others, k + 1, Len(others))
      BY <3>2, <3>5
    <3> HIDE DEF k
    <3>7. q \in Seq(S) /\ Inserted(q, others, k, e)
      BY <1>1, <3>5, <3>6, InsertIs
    <3>8. ASSUME NEW i \in 1 .. len
          PROVE  i <= k <=> ref = Children!None \/ Precedes(dom, others[i], ref)
      <4>1. others[i] # e
        <5>1. others[i] \in Elements(others)
          BY <1>1 DEF Elements
        <5> QED
          BY <1>1, <5>1
      <4>2. Precedes(dom, others[i], ref) <=> Precedes(others, others[i], others[p])
        BY <1>1, <3>1, <3>3, <4>1
      <4>3. Precedes(others, others[i], others[p]) <=> i < p
        BY <1>1, <3>3, PrecedesIs
      <4>4. i <= k <=> i < p
        BY <3>3, <3>4, <3>5
      <4> QED
        BY <2>2, <4>2, <4>3, <4>4
    <3> QED
      BY <3>5, <3>7, <3>8
  <2> QED
    BY <2>1, <2>2
<1>3. PICK k \in 0 .. len :
        /\ Inserted(q, others, k, e)
        /\ \A i \in 1 .. len : i <= k <=> ref = Children!None \/ Precedes(dom, others[i], ref)
  BY <1>2
<1>4. q \in Seq(S) /\ e \notin Elements(others)
  BY <1>1, <1>2
<1> HIDE DEF q, others
<1>5. /\ Distinct(q) /\ Elements(q) = Elements(others) \cup {e}
      /\ \A a, b : a # e /\ b # e => (Precedes(q, a, b) <=> Precedes(others, a, b))
      /\ \A i \in 1 .. Len(others) :
           IF i <= k THEN Precedes(q, others[i], e) ELSE Precedes(q, e, others[i])
  BY <1>1, <1>3, <1>4, InsertKeeps
<1>6. Elements(q) = Elements(dom) \cup {e}
  BY <1>1, <1>5
<1>7. ASSUME NEW x \in Elements(dom) \ {e}
      PROVE  IF ref = Children!None \/ Precedes(dom, x, ref)
             THEN Precedes(q, x, e) ELSE Precedes(q, e, x)
  <2>1. PICK i \in 1 .. len : others[i] = x
    <3>1. x \in Elements(others) /\ DOMAIN others = 1 .. len
      BY <1>1
    <3> QED
      BY <3>1 DEF Elements
  <2> QED
    BY <1>3, <1>5, <2>1
<1>8. \A a, b : a # e /\ b # e => (Precedes(q, a, b) <=> Precedes(dom, a, b))
  BY <1>1, <1>5
<1>9. /\ q \in Seq(S) /\ Distinct(q) /\ Elements(q) = Elements(dom) \cup {e}
      /\ \A a, b : a # e /\ b # e => (Precedes(q, a, b) <=> Precedes(dom, a, b))
      /\ \A x \in Elements(dom) \ {e} :
           IF ref = Children!None \/ Precedes(dom, x, ref)
           THEN Precedes(q, x, e) ELSE Precedes(q, e, x)
  BY <1>4, <1>5, <1>6, <1>7, <1>8
<1> QED
  BY <1>9 DEF q

\* An element is put behind one that it was before.
LEMMA InsertBehindIs ==
  ASSUME NEW S, Children!None \notin S, dom \in Seq(S), Distinct(dom),
         NEW e, NEW a, Precedes(dom, e, a)
  PROVE  LET q == Children!InsertBefore(e, Children!NextSibling(a))
         IN  /\ q \in Seq(S) /\ Distinct(q) /\ Elements(q) = Elements(dom)
             /\ \A x, y : x # e /\ y # e => (Precedes(q, x, y) <=> Precedes(dom, x, y))
             /\ \A x \in Elements(dom) \ {e} :
                  IF x = a \/ Precedes(dom, x, a)
                  THEN Precedes(q, x, e) ELSE Precedes(q, e, x)
<1> DEFINE ref == Children!NextSibling(a)
           q == Children!InsertBefore(e, ref)
           i == Children!Place(dom, a)
           len == Len(dom)
<1>1. a \in Elements(dom) /\ e \in Elements(dom) /\ a # e
  BY OrderIs
<1>2. i \in 1 .. len /\ dom[i] = a
  BY <1>1, PlaceOf
<1>3. len \in Nat /\ DOMAIN dom = 1 .. len /\ \A x \in 1 .. len : dom[x] \in S
  OBVIOUS
<1>4. ref = IF i = len THEN Children!None ELSE dom[i + 1]
  BY DEF Children!NextSibling
<1> HIDE DEF ref, i
<1>5. PICK h \in 1 .. len : dom[h] = e
  BY <1>1, <1>3 DEF Elements
<1>6. h < i
  BY <1>2, <1>5, PrecedesIs
<1>7. ref \in {Children!None} \cup (Elements(dom) \ {e})
  <2>1. CASE i = len
    BY <1>4, <2>1
  <2>2. CASE i # len
    <3>1. i + 1 \in 1 .. len /\ i + 1 # h
      <4> HIDE DEF len
      <4> QED
        BY <1>2, <1>3, <1>5, <1>6, <2>2
    <3>2. dom[i + 1] # dom[h]
      BY <1>3, <3>1 DEF Distinct
    <3>3. dom[i + 1] \in Elements(dom)
      BY <1>3, <3>1 DEF Elements
    <3> QED
      BY <1>4, <1>5, <2>2, <3>2, <3>3
  <2> QED
    BY <2>1, <2>2
<1>8. e \in S
  BY <1>3, <1>5
<1>9. /\ q \in Seq(S) /\ Distinct(q) /\ Elements(q) = Elements(dom) \cup {e}
      /\ \A x, y : x # e /\ y # e => (Precedes(q, x, y) <=> Precedes(dom, x, y))
      /\ \A x \in Elements(dom) \ {e} :
           IF ref = Children!None \/ Precedes(dom, x, ref)
           THEN Precedes(q, x, e) ELSE Precedes(q, e, x)
  BY <1>7, <1>8, InsertBeforeIs
<1> HIDE DEF q
<1>10. ASSUME NEW x \in Elements(dom) \ {e}
       PROVE  ref = Children!None \/ Precedes(dom, x, ref) <=> x = a \/ Precedes(dom, x, a)
  <2>1. PICK j \in 1 .. len : dom[j] = x
    BY <1>3 DEF Elements
  <2>2. x = a <=> j = i
    BY <1>2, <1>3, <2>1 DEF Distinct
  <2>3. Precedes(dom, x, a) <=> j < i
    BY <1>2, <2>1, PrecedesIs
  <2>4. CASE i = len
    <3> HIDE DEF len
    <3>1. j <= i /\ (j = i \/ j < i)
      BY <1>2, <1>3, <2>1, <2>4
    <3> QED
      BY <1>4, <2>2, <2>3, <2>4, <3>1
  <2>5. CASE i # len
    <3>1. i + 1 \in 1 .. len /\ (j < i + 1 <=> j = i \/ j < i)
      <4> HIDE DEF len
      <4> QED
        BY <1>2, <1>3, <2>1, <2>5
    <3>2. ref = dom[i + 1] /\ ref # Children!None
      BY <1>3, <1>4, <2>5, <3>1
    <3>3. Precedes(dom, dom[j], dom[i + 1]) <=> j < i + 1
      BY <3>1, PrecedesIs
    <3> QED
      BY <2>1, <2>2, <2>3, <3>1, <3>2, <3>3
  <2> QED
    BY <2>4, <2>5
<1>11. Elements(q) = Elements(dom)
  BY <1>1, <1>9
<1>12. \A x \in Elements(dom) \ {e} :
         IF x = a \/ Precedes(dom, x, a) THEN Precedes(q, x, e) ELSE Precedes(q, e, x)
  BY <1>9, <1>10
<1> QED
  BY <1>9, <1>11, <1>12 DEF q, ref

-----------------------------------------------------------------------------
(* The walk's invariant.  DoneNew are the new children that have an element. *)

DoneNew == DOMAIN newCh \ (newStart .. newEnd)

IndexesAgree ==
  /\ oldStart <= oldEnd + 1 /\ newStart <= newEnd + 1
  /\ phase = "rest" => oldStart > oldEnd \/ newStart > newEnd
  /\ phase = "done" => oldStart > oldEnd /\ newStart > newEnd

\* An element is made for a child, or is that of an equal old child.
Fits(e, j) == e = Children!Created(j) \/ (e \in DOMAIN oldCh /\ oldCh[e] = newCh[j])

\* The document has the elements of the old children left over, in order, and those of
\* the new ones done, and no others; an old child that is not left over was taken.
ElementsAgree ==
  /\ Distinct(dom)
  /\ Elements(dom) = Children!Leftover \cup {elm[j] : j \in DoneNew}
  /\ \A a, b \in Children!Leftover : a < b => Precedes(dom, a, b)
  /\ \A j \in DoneNew : elm[j] \notin Children!Leftover /\ Fits(elm[j], j)
  /\ newStart <= newEnd =>
       \A i \in DOMAIN oldCh \ Children!Leftover : \E j \in DoneNew : elm[j] = i

\* The map, once made, has the keys of all that are left over.
MapAgrees ==
  /\ \A k \in DOMAIN oldKeyToIdx : oldCh[oldKeyToIdx[k]].key = k
  /\ oldKeyToIdx # <<>> =>
       \A i \in Children!Leftover : oldCh[i].key # NoKey => oldCh[i].key \in DOMAIN oldKeyToIdx

\* The new children done are in order, around the old ones that are left over.
OrderAgrees ==
  /\ \A i, j \in DoneNew : i < j => Precedes(dom, elm[i], elm[j])
  /\ \A i \in Children!Leftover : \A j \in DoneNew :
       IF j < newStart THEN Precedes(dom, elm[j], i) ELSE Precedes(dom, i, elm[j])

KeysAgree ==
  Children!Unique(oldCh) =>
    \A j \in DoneNew : newCh[j].key # NoKey =>
      \A i \in DOMAIN oldCh : oldCh[i] = newCh[j] => elm[j] = i

ChildrenRight ==
  /\ Children!TypeOK
  /\ IndexesAgree /\ ElementsAgree /\ MapAgrees
  /\ Children!Unique(newCh) => OrderAgrees /\ KeysAgree
  /\ phase = "thrown" => ~Children!Unique(newCh)

LEMMA Sizes ==
  ASSUME Children!TypeOK
  PROVE  /\ Len(oldCh) \in Nat /\ DOMAIN oldCh = 1 .. Len(oldCh)
         /\ Len(newCh) \in Nat /\ DOMAIN newCh = 1 .. Len(newCh)
         /\ oldStart \in Nat /\ oldEnd \in Nat /\ newStart \in Nat /\ newEnd \in Nat
         /\ \A j \in DOMAIN newCh : Children!Created(j) = Len(oldCh) + j
         /\ Children!Leftover \subseteq DOMAIN oldCh
         /\ Children!None = 0 /\ Children!None \notin Children!Element
<1>1. /\ Len(oldCh) \in Nat /\ DOMAIN oldCh = 1 .. Len(oldCh)
      /\ Len(newCh) \in Nat /\ DOMAIN newCh = 1 .. Len(newCh)
  BY DEF Children!TypeOK
<1>2. /\ oldStart \in 1 .. Len(oldCh) + 1 /\ oldEnd \in 0 .. Len(oldCh)
      /\ newStart \in 1 .. Len(newCh) + 1 /\ newEnd \in 0 .. Len(newCh)
  BY DEF Children!TypeOK
<1>3. /\ oldStart \in Nat /\ oldEnd \in Nat /\ newStart \in Nat /\ newEnd \in Nat
      /\ oldStart >= 1 /\ oldEnd <= Len(oldCh)
  BY <1>1, <1>2
<1>4. Children!Leftover \subseteq DOMAIN oldCh
  BY <1>1, <1>3 DEF Children!Leftover
<1>5. Children!None = 0 /\ Children!None \notin Children!Element
  BY <1>1 DEF Children!None, Children!Element
<1> QED
  BY <1>1, <1>3, <1>4, <1>5 DEF Children!Created

\* The j-th new child, the first or last of those not done, gets the element e.
Gets(j, e) ==
  /\ newStart <= newEnd /\ e \in Children!Element
  /\ oldCh' = oldCh /\ newCh' = newCh
  /\ elm' = [elm EXCEPT ![j] = e]
  /\ \/ j = newStart /\ newStart' = newStart + 1 /\ newEnd' = newEnd
     \/ j = newEnd /\ newStart' = newStart /\ newEnd' = newEnd - 1
  /\ Children!Leftover' = Children!Leftover \ {e}

\* The document has it, and all others where they were.
Has(e) ==
  /\ Distinct(dom') /\ Elements(dom') = Elements(dom) \cup {e}
  /\ \A a, b : a # e /\ b # e => (Precedes(dom', a, b) <=> Precedes(dom, a, b))

\* It is behind those done from the left, and before those done from the right.
Placed(j, e) ==
  /\ \A i \in DoneNew :
       elm[i] # e /\ IF i < newStart THEN Precedes(dom', elm[i], e) ELSE Precedes(dom', e, elm[i])
  /\ \A i \in Children!Leftover \ {e} :
       IF newStart' = newStart THEN Precedes(dom', i, e) ELSE Precedes(dom', e, i)

LEMMA DoneNewIs ==
  ASSUME Children!TypeOK, IndexesAgree, NEW j, NEW e, Gets(j, e)
  PROVE  /\ j \in DOMAIN newCh /\ j \notin DoneNew /\ DoneNew' = DoneNew \cup {j}
         /\ \A i \in DoneNew : IF i < newStart THEN i < j /\ i < newStart' ELSE j < i /\ ~(i < newStart')
         /\ j < newStart' <=> newStart' # newStart
         /\ newStart' <= newEnd' + 1
         /\ newStart' \in 1 .. Len(newCh) + 1 /\ newEnd' \in 0 .. Len(newCh)
         /\ elm' \in [DOMAIN newCh -> Children!Element \cup {Children!None}]
         /\ elm'[j] = e /\ \A i \in DoneNew : elm'[i] = elm[i]
<1>1. /\ Len(newCh) \in Nat /\ DOMAIN newCh = 1 .. Len(newCh)
      /\ newStart \in Nat /\ newEnd \in Nat
  BY Sizes
<1>2. newStart \in 1 .. Len(newCh) + 1 /\ newEnd \in 0 .. Len(newCh)
  BY DEF Children!TypeOK
<1>3. newStart <= newEnd
  BY DEF Gets
<1>4. CASE j = newStart /\ newStart' = newStart + 1 /\ newEnd' = newEnd
  <2>1. newCh' = newCh
    BY DEF Gets
  <2>2. /\ j \in DOMAIN newCh /\ j \notin DoneNew
        /\ newStart' <= newEnd' + 1
        /\ newStart' \in 1 .. Len(newCh) + 1 /\ newEnd' \in 0 .. Len(newCh)
        /\ j < newStart' /\ newStart' # newStart
    BY <1>1, <1>2, <1>3, <1>4 DEF DoneNew
  <2>3. DoneNew' = DoneNew \cup {j}
    BY <1>1, <1>2, <1>3, <1>4, <2>1 DEF DoneNew
  <2>4. \A i \in DoneNew :
          IF i < newStart THEN i < j /\ i < newStart' ELSE j < i /\ ~(i < newStart')
    BY <1>1, <1>2, <1>3, <1>4 DEF DoneNew
  <2>5. elm \in [DOMAIN newCh -> Children!Element \cup {Children!None}]
    BY DEF Children!TypeOK
  <2> QED
    BY <2>2, <2>3, <2>4, <2>5 DEF Gets, DoneNew
<1>5. CASE j = newEnd /\ newStart' = newStart /\ newEnd' = newEnd - 1
  <2>1. newCh' = newCh
    BY DEF Gets
  <2>2. /\ j \in DOMAIN newCh /\ j \notin DoneNew
        /\ newStart' <= newEnd' + 1
        /\ newStart' \in 1 .. Len(newCh) + 1 /\ newEnd' \in 0 .. Len(newCh)
        /\ ~(j < newStart') /\ newStart' = newStart
    BY <1>1, <1>2, <1>3, <1>5 DEF DoneNew
  <2>3. DoneNew' = DoneNew \cup {j}
    BY <1>1, <1>2, <1>3, <1>5, <2>1 DEF DoneNew
  <2>4. \A i \in DoneNew :
          IF i < newStart THEN i < j /\ i < newStart' ELSE j < i /\ ~(i < newStart')
    BY <1>1, <1>2, <1>3, <1>5 DEF DoneNew
  <2>5. elm \in [DOMAIN newCh -> Children!Element \cup {Children!None}]
    BY DEF Children!TypeOK
  <2> QED
    BY <2>2, <2>3, <2>4, <2>5 DEF Gets, DoneNew
<1> QED
  BY <1>4, <1>5 DEF Gets

\* An element of a new child that is done is not one made for another.
LEMMA DoneElements ==
  ASSUME Children!TypeOK, ElementsAgree, NEW j \in DoneNew
  PROVE  /\ j \in DOMAIN newCh /\ elm[j] \in Elements(dom)
         /\ \A i \in DOMAIN newCh : elm[j] = Children!Created(i) => i = j
         /\ elm[j] \in DOMAIN oldCh => oldCh[elm[j]] = newCh[j]
<1>1. j \in DOMAIN newCh
  BY DEF DoneNew
<1>2. elm[j] \in Elements(dom)
  BY DEF ElementsAgree
<1>3. Fits(elm[j], j)
  BY DEF ElementsAgree
<1>4. /\ Len(oldCh) \in Nat /\ DOMAIN oldCh = 1 .. Len(oldCh)
      /\ Len(newCh) \in Nat /\ DOMAIN newCh = 1 .. Len(newCh)
      /\ \A i \in DOMAIN newCh : Children!Created(i) = Len(oldCh) + i
  BY Sizes
<1>5. CASE elm[j] = Children!Created(j)
  <2>1. elm[j] = Len(oldCh) + j /\ elm[j] \notin DOMAIN oldCh
    BY <1>1, <1>4, <1>5
  <2>2. ASSUME NEW i \in DOMAIN newCh, elm[j] = Children!Created(i) PROVE i = j
    BY <1>1, <1>4, <2>1, <2>2
  <2> QED
    BY <1>1, <1>2, <2>1, <2>2
<1>6. CASE elm[j] \in DOMAIN oldCh /\ oldCh[elm[j]] = newCh[j]
  <2>1. ASSUME NEW i \in DOMAIN newCh, elm[j] = Children!Created(i) PROVE i = j
    BY <1>4, <1>6, <2>1
  <2> QED
    BY <1>1, <1>2, <1>6, <2>1
<1> QED
  BY <1>3, <1>5, <1>6 DEF Fits

\* One more new child is done, and what holds of them still does.
LEMMA GetsStep ==
  ASSUME ChildrenRight, NEW j, NEW e, Gets(j, e), Has(e), Fits(e, j),
         Children!Unique(newCh) => Placed(j, e),
         e = Children!Created(j) /\ Children!Unique(newCh) /\ Children!Unique(oldCh)
           /\ newCh[j].key # NoKey => \A i \in Children!Leftover : oldCh[i] # newCh[j]
  PROVE  ElementsAgree' /\ (Children!Unique(newCh)' => OrderAgrees' /\ KeysAgree')
<1>1. Children!TypeOK /\ IndexesAgree /\ ElementsAgree /\ newStart <= newEnd
  BY DEF ChildrenRight, Gets
<1>2. /\ j \in DOMAIN newCh /\ j \notin DoneNew /\ DoneNew' = DoneNew \cup {j}
      /\ \A i \in DoneNew : IF i < newStart THEN i < j /\ i < newStart' ELSE j < i /\ ~(i < newStart')
      /\ j < newStart' <=> newStart' # newStart
      /\ elm'[j] = e /\ \A i \in DoneNew : elm'[i] = elm[i]
  BY <1>1, DoneNewIs
<1>3. oldCh' = oldCh /\ newCh' = newCh /\ Children!Leftover' = Children!Leftover \ {e}
  BY DEF Gets
<1>4. /\ Elements(dom) = Children!Leftover \cup {elm[i] : i \in DoneNew}
      /\ \A a, b \in Children!Leftover : a < b => Precedes(dom, a, b)
      /\ \A i \in DoneNew : elm[i] \notin Children!Leftover /\ Fits(elm[i], i)
      /\ \A i \in DOMAIN oldCh \ Children!Leftover : \E h \in DoneNew : elm[h] = i
  BY <1>1 DEF ElementsAgree
<1>5. \A i : Children!Created(i)' = Children!Created(i)
  BY <1>3 DEF Children!Created
<1>6. ElementsAgree'
  <2>1. Distinct(dom')
    BY DEF Has
  <2>2. Elements(dom') = Children!Leftover' \cup {elm'[i] : i \in DoneNew'}
    <3>1. {elm'[i] : i \in DoneNew'} = {elm[i] : i \in DoneNew} \cup {e}
      BY <1>2
    <3>2. Elements(dom') = Elements(dom) \cup {e}
      BY DEF Has
    <3> QED
      BY <1>3, <1>4, <3>1, <3>2
  <2>3. \A a, b \in Children!Leftover' : a < b => Precedes(dom', a, b)
    BY <1>3, <1>4 DEF Has
  <2>4. \A i \in DoneNew' : elm'[i] \notin Children!Leftover' /\ Fits(elm[i], i)'
    BY <1>2, <1>3, <1>4, <1>5 DEF Fits
  <2>5. \A i \in DOMAIN oldCh' \ Children!Leftover' : \E h \in DoneNew' : elm'[h] = i
    BY <1>2, <1>3, <1>4
  <2> QED
    BY <2>1, <2>2, <2>3, <2>4, <2>5 DEF ElementsAgree
<1>7. ASSUME Children!Unique(newCh)' PROVE OrderAgrees' /\ KeysAgree'
  <2>1. Children!Unique(newCh)
    BY <1>3, <1>7 DEF Children!Unique
  <2>2. Placed(j, e) /\ OrderAgrees /\ KeysAgree
    BY <2>1 DEF ChildrenRight
  <2>3. \A h, i \in DoneNew' : h < i => Precedes(dom', elm'[h], elm'[i])
    <3> SUFFICES ASSUME NEW h \in DoneNew', NEW i \in DoneNew', h < i
                 PROVE  Precedes(dom', elm'[h], elm'[i])
      OBVIOUS
    <3>0. /\ Len(newCh) \in Nat /\ DOMAIN newCh = 1 .. Len(newCh) /\ newStart \in Nat
      BY <1>1, Sizes
    <3>1. h \in Nat /\ i \in Nat /\ j \in Nat
      BY <1>2, <3>0 DEF DoneNew
    <3>2. CASE h = j
      <4>1. i \in DoneNew /\ ~(i < newStart)
        BY <1>2, <3>0, <3>1, <3>2
      <4> QED
        BY <1>2, <2>2, <3>2, <4>1 DEF Placed
    <3>3. CASE i = j
      <4>1. h \in DoneNew /\ h < newStart
        BY <1>2, <3>0, <3>1, <3>3
      <4> QED
        BY <1>2, <2>2, <3>3, <4>1 DEF Placed
    <3>4. CASE h # j /\ i # j
      <4>1. h \in DoneNew /\ i \in DoneNew
        BY <1>2, <3>4
      <4>2. elm[h] # e /\ elm[i] # e /\ Precedes(dom, elm[h], elm[i])
        BY <2>2, <4>1 DEF Placed, OrderAgrees
      <4> QED
        BY <1>2, <4>1, <4>2 DEF Has
    <3> QED
      BY <3>2, <3>3, <3>4
  <2>4. \A i \in Children!Leftover' : \A h \in DoneNew' :
          IF h < newStart' THEN Precedes(dom', elm'[h], i) ELSE Precedes(dom', i, elm'[h])
    <3> SUFFICES ASSUME NEW i \in Children!Leftover \ {e}, NEW h \in DoneNew'
                 PROVE  IF h < newStart' THEN Precedes(dom', elm'[h], i)
                        ELSE Precedes(dom', i, elm'[h])
      BY <1>3
    <3>1. CASE h = j
      BY <1>2, <2>2, <3>1 DEF Placed
    <3>2. CASE h # j
      <4>1. h \in DoneNew /\ (h < newStart' <=> h < newStart)
        BY <1>2, <3>2
      <4>2. elm[h] # e /\ i # e
        BY <2>2, <4>1 DEF Placed
      <4>3. IF h < newStart THEN Precedes(dom, elm[h], i) ELSE Precedes(dom, i, elm[h])
        BY <2>2, <4>1 DEF OrderAgrees
      <4> QED
        BY <1>2, <4>1, <4>2, <4>3 DEF Has
    <3> QED
      BY <3>1, <3>2
  <2>5. KeysAgree'
    <3> SUFFICES ASSUME Children!Unique(oldCh), NEW h \in DoneNew', newCh[h].key # NoKey,
                        NEW i \in DOMAIN oldCh, oldCh[i] = newCh[h]
                 PROVE  elm'[h] = i
      BY <1>3 DEF KeysAgree, Children!Unique
    <3>1. CASE h # j
      BY <1>2, <2>2, <3>1 DEF KeysAgree
    <3>2. CASE h = j /\ e \in DOMAIN oldCh /\ oldCh[e] = newCh[j]
      <4>1. oldCh[i].key = oldCh[e].key /\ oldCh[i].key # NoKey
        BY <3>2
      <4> QED
        BY <1>2, <3>2, <4>1 DEF Children!Unique
    <3>3. CASE h = j /\ e = Children!Created(j)
      <4>1. i \notin Children!Leftover
        BY <2>1, <3>3
      <4>2. PICK x \in DoneNew : elm[x] = i
        BY <1>4, <4>1
      <4>3. x \in DOMAIN newCh /\ oldCh[i] = newCh[x]
        BY <1>1, <4>2, DoneElements
      <4>4. x # j /\ newCh[x].key = newCh[j].key
        BY <1>2, <3>3, <4>2, <4>3
      <4> QED
        BY <1>2, <2>1, <3>3, <4>3, <4>4 DEF Children!Unique
    <3> QED
      BY <3>1, <3>2, <3>3 DEF Fits
  <2> QED
    BY <2>3, <2>4, <2>5 DEF OrderAgrees
<1> QED
  BY <1>6, <1>7

-----------------------------------------------------------------------------
(* The rounds of the loop. *)

MapIs(m) ==
  /\ \A k \in DOMAIN m : k \in Key /\ m[k] \in DOMAIN oldCh /\ oldCh[m[k]].key = k
  /\ m # <<>> =>
       \A i \in Children!Leftover : oldCh[i].key # NoKey => oldCh[i].key \in DOMAIN m

LEMMA RoundStep ==
  ASSUME ChildrenRight, NEW j, NEW e, Gets(j, e), Has(e), Fits(e, j),
         Children!Unique(newCh) => Placed(j, e),
         e = Children!Created(j) /\ Children!Unique(newCh) /\ Children!Unique(oldCh)
           /\ newCh[j].key # NoKey => \A i \in Children!Leftover : oldCh[i] # newCh[j],
         dom' \in Seq(Children!Element), cleared' \subseteq DOMAIN oldCh,
         oldStart' \in 1 .. Len(oldCh) + 1, oldEnd' \in 0 .. Len(oldCh),
         oldStart' <= oldEnd' + 1,
         phase' \in {"loop", "rest"}, phase' = "rest" => oldStart' > oldEnd',
         NEW m, oldKeyToIdx' = m, MapIs(m)
  PROVE  ChildrenRight'
<1>1. Children!TypeOK /\ IndexesAgree
  BY DEF ChildrenRight
<1>2. oldCh' = oldCh /\ newCh' = newCh /\ Children!Leftover' = Children!Leftover \ {e}
  BY DEF Gets
<1>3. /\ newStart' <= newEnd' + 1
      /\ newStart' \in 1 .. Len(newCh) + 1 /\ newEnd' \in 0 .. Len(newCh)
      /\ elm' \in [DOMAIN newCh -> Children!Element \cup {Children!None}]
  BY <1>1, DoneNewIs
<1>4. Children!TypeOK'
  <2>1. Children!Element' = Children!Element /\ Children!None' = Children!None
    BY <1>2 DEF Children!Element, Children!None
  <2>2. /\ oldCh \in Seq(Children!Child) /\ Len(oldCh) <= LongList
        /\ newCh \in Seq(Children!Child) /\ Len(newCh) <= LongList
    BY <1>1 DEF Children!TypeOK
  <2>3. \A k \in DOMAIN oldKeyToIdx' : k \in Key /\ oldKeyToIdx'[k] \in DOMAIN oldCh
    BY DEF MapIs
  <2> QED
    BY <1>2, <1>3, <2>1, <2>2, <2>3 DEF Children!TypeOK
<1>5. IndexesAgree'
  BY <1>3 DEF IndexesAgree
<1>6. ElementsAgree' /\ (Children!Unique(newCh)' => OrderAgrees' /\ KeysAgree')
  BY GetsStep
<1>7. MapAgrees'
  BY <1>2 DEF MapAgrees, MapIs
<1> QED
  BY <1>4, <1>5, <1>6, <1>7 DEF ChildrenRight

LEMMA MapStays ==
  ASSUME ChildrenRight
  PROVE  MapIs(oldKeyToIdx)
BY DEF ChildrenRight, Children!TypeOK, MapAgrees, MapIs

\* Both ends of the old children are left over, around the others.
LEMMA EndsLeft ==
  ASSUME ChildrenRight, Children!Comparing
  PROVE  /\ oldStart \in Children!Leftover /\ oldEnd \in Children!Leftover
         /\ Children!Leftover \subseteq Elements(dom)
         /\ oldStart \in DOMAIN oldCh /\ oldEnd \in DOMAIN oldCh /\ oldStart <= oldEnd
         /\ newStart \in DOMAIN newCh /\ newEnd \in DOMAIN newCh /\ newStart <= newEnd
         /\ DOMAIN oldCh \subseteq Children!Element
         /\ \A i \in Children!Leftover :
              /\ i # oldStart => Precedes(dom, oldStart, i)
              /\ i # oldEnd => Precedes(dom, i, oldEnd)
         /\ phase = "loop" /\ Distinct(dom) /\ dom \in Seq(Children!Element)
<1>1. Children!TypeOK /\ ElementsAgree
  BY DEF ChildrenRight
<1>2. /\ Len(oldCh) \in Nat /\ DOMAIN oldCh = 1 .. Len(oldCh)
      /\ Len(newCh) \in Nat /\ DOMAIN newCh = 1 .. Len(newCh)
      /\ oldStart \in Nat /\ oldEnd \in Nat /\ newStart \in Nat /\ newEnd \in Nat
  BY <1>1, Sizes
<1>3. /\ oldStart <= oldEnd /\ newStart <= newEnd /\ phase = "loop"
      /\ oldStart \notin cleared /\ oldEnd \notin cleared
  BY DEF Children!Comparing, Children!Looping, Children!OldStartUndefined, Children!OldEndUndefined
<1>4. /\ oldStart \in 1 .. Len(oldCh) + 1 /\ oldEnd \in 0 .. Len(oldCh)
      /\ newStart \in 1 .. Len(newCh) + 1 /\ newEnd \in 0 .. Len(newCh)
      /\ dom \in Seq(Children!Element)
  BY <1>1 DEF Children!TypeOK
<1>5. /\ oldStart \in DOMAIN oldCh /\ oldEnd \in DOMAIN oldCh
      /\ newStart \in DOMAIN newCh /\ newEnd \in DOMAIN newCh
  BY <1>2, <1>3, <1>4
<1>6. oldStart \in Children!Leftover /\ oldEnd \in Children!Leftover
  BY <1>2, <1>3 DEF Children!Leftover
<1>7. ASSUME NEW i \in Children!Leftover
      PROVE  /\ i # oldStart => Precedes(dom, oldStart, i)
             /\ i # oldEnd => Precedes(dom, i, oldEnd)
  <2>1. (i # oldStart => oldStart < i) /\ (i # oldEnd => i < oldEnd)
    BY <1>2 DEF Children!Leftover
  <2> QED
    BY <1>1, <1>6, <2>1 DEF ElementsAgree
<1>8. Children!Leftover \subseteq Elements(dom) /\ Distinct(dom)
  BY <1>1 DEF ElementsAgree
<1>9. DOMAIN oldCh \subseteq Children!Element
  BY <1>2 DEF Children!Element
<1> QED
  BY <1>3, <1>4, <1>5, <1>6, <1>7, <1>8, <1>9

\* The element is placed if it is put, or is already, where the old children left over
\* begin or end: x is the first or the last of them.
LEMMA BesidePlaced ==
  ASSUME ChildrenRight, Children!Unique(newCh),
         NEW j, NEW e, Gets(j, e), e \in Children!Leftover \/ e = Children!Created(j),
         NEW x \in Children!Leftover,
         \A i \in Children!Leftover \ {x} :
           IF newStart' = newStart THEN Precedes(dom, i, x) ELSE Precedes(dom, x, i),
         \/ dom' = dom /\ x = e
         \/ \A y \in Elements(dom) \ {e} :
              IF Precedes(dom, y, x) \/ (y = x /\ newStart' = newStart)
              THEN Precedes(dom', y, e) ELSE Precedes(dom', e, y)
  PROVE  Placed(j, e)
<1>1. /\ Children!TypeOK /\ IndexesAgree /\ ElementsAgree /\ OrderAgrees
      /\ dom \in Seq(Children!Element)
  BY DEF ChildrenRight, Children!TypeOK
<1>2. j \in DOMAIN newCh /\ j \notin DoneNew
  BY <1>1, DoneNewIs
<1>3. ASSUME NEW i \in DoneNew
      PROVE  /\ elm[i] # e /\ elm[i] # x /\ elm[i] \in Elements(dom)
             /\ IF i < newStart THEN Precedes(dom, elm[i], x) ELSE Precedes(dom, x, elm[i])
  <2>1. elm[i] # x /\ (e \in Children!Leftover => elm[i] # e)
    BY <1>1 DEF ElementsAgree
  <2>2. elm[i] \in Elements(dom) /\ (e = Children!Created(j) => elm[i] # e)
    BY <1>1, <1>2, DoneElements
  <2> QED
    BY <1>1, <2>1, <2>2 DEF OrderAgrees
<1>4. \A a, b : Precedes(dom, a, b) => ~Precedes(dom, b, a) /\ a # b
  BY <1>1, OrderIs DEF ElementsAgree
<1>5. ASSUME NEW i \in DoneNew
      PROVE  IF i < newStart THEN Precedes(dom', elm[i], e) ELSE Precedes(dom', e, elm[i])
  BY <1>3, <1>4
<1>6. ASSUME NEW i \in Children!Leftover \ {e}
      PROVE  IF newStart' = newStart THEN Precedes(dom', i, e) ELSE Precedes(dom', e, i)
  <2>1. i \in Elements(dom)
    BY <1>1 DEF ElementsAgree
  <2>2. i = x \/ IF newStart' = newStart THEN Precedes(dom, i, x) ELSE Precedes(dom, x, i)
    OBVIOUS
  <2>3. ~Precedes(dom, x, x)
    BY <1>4
  <2> QED
    BY <1>4, <2>1, <2>2, <2>3
<1> QED
  BY <1>3, <1>5, <1>6 DEF Placed

LEMMA KeepStartStep ==
  ASSUME ChildrenRight, Children!KeepStart
  PROVE  ChildrenRight'
<1> DEFINE j == newStart
           e == oldStart
<1>1. /\ Children!Comparing /\ oldCh[oldStart] = newCh[newStart]
      /\ elm' = [elm EXCEPT ![newStart] = oldStart]
      /\ oldStart' = oldStart + 1 /\ newStart' = newStart + 1
      /\ oldCh' = oldCh /\ newCh' = newCh /\ cleared' = cleared
      /\ oldEnd' = oldEnd /\ newEnd' = newEnd /\ oldKeyToIdx' = oldKeyToIdx
      /\ dom' = dom /\ phase' = phase
  BY DEF Children!KeepStart, Children!StartsMatch, Children!sameVnode, Children!patchVnode
<1>2. /\ oldStart \in Children!Leftover
      /\ Children!Leftover \subseteq Elements(dom)
      /\ oldStart \in DOMAIN oldCh /\ oldStart <= oldEnd
      /\ newStart \in DOMAIN newCh /\ newStart <= newEnd
      /\ DOMAIN oldCh \subseteq Children!Element
      /\ \A i \in Children!Leftover : i # oldStart => Precedes(dom, oldStart, i)
      /\ phase = "loop" /\ Distinct(dom) /\ dom \in Seq(Children!Element)
  BY <1>1, EndsLeft
<1>3. /\ Len(oldCh) \in Nat /\ DOMAIN oldCh = 1 .. Len(oldCh)
      /\ oldStart \in Nat /\ oldEnd \in Nat /\ newStart \in Nat
      /\ cleared \subseteq DOMAIN oldCh /\ oldEnd \in 0 .. Len(oldCh)
  BY Sizes DEF ChildrenRight, Children!TypeOK
<1>4. Children!Leftover' = Children!Leftover \ {e}
  BY <1>1, <1>3 DEF Children!Leftover
<1>5. Gets(j, e)
  BY <1>1, <1>2, <1>4 DEF Gets
<1>6. Has(e) /\ Fits(e, j)
  BY <1>1, <1>2 DEF Has, Fits
<1>7. newStart' # newStart
  BY <1>1, <1>3
<1>8. Children!Unique(newCh) => Placed(j, e)
  BY <1>1, <1>2, <1>5, <1>7, BesidePlaced
<1>9. e # Children!Created(j)
  BY <1>2, <1>3, Sizes DEF ChildrenRight
<1>10. /\ oldStart' \in 1 .. Len(oldCh) + 1 /\ oldEnd' \in 0 .. Len(oldCh)
       /\ oldStart' <= oldEnd' + 1 /\ cleared' \subseteq DOMAIN oldCh
       /\ dom' \in Seq(Children!Element) /\ phase' = "loop"
  BY <1>1, <1>2, <1>3
<1>11. MapIs(oldKeyToIdx)
  BY MapStays
<1> HIDE DEF j, e
<1> QED
  BY <1>1, <1>5, <1>6, <1>8, <1>9, <1>10, <1>11, RoundStep

LEMMA KeepEndStep ==
  ASSUME ChildrenRight, Children!KeepEnd
  PROVE  ChildrenRight'
<1> DEFINE j == newEnd
           e == oldEnd
<1>1. /\ Children!Comparing /\ oldCh[oldEnd] = newCh[newEnd]
      /\ elm' = [elm EXCEPT ![newEnd] = oldEnd]
      /\ oldEnd' = oldEnd - 1 /\ newEnd' = newEnd - 1
      /\ oldCh' = oldCh /\ newCh' = newCh /\ cleared' = cleared
      /\ oldStart' = oldStart /\ newStart' = newStart /\ oldKeyToIdx' = oldKeyToIdx
      /\ dom' = dom /\ phase' = phase
  BY DEF Children!KeepEnd, Children!EndsMatch, Children!sameVnode, Children!patchVnode
<1>2. /\ oldEnd \in Children!Leftover
      /\ Children!Leftover \subseteq Elements(dom)
      /\ oldEnd \in DOMAIN oldCh /\ oldStart <= oldEnd
      /\ newEnd \in DOMAIN newCh /\ newStart <= newEnd
      /\ DOMAIN oldCh \subseteq Children!Element
      /\ \A i \in Children!Leftover : i # oldEnd => Precedes(dom, i, oldEnd)
      /\ phase = "loop" /\ Distinct(dom) /\ dom \in Seq(Children!Element)
  BY <1>1, EndsLeft
<1>3. /\ Len(oldCh) \in Nat /\ DOMAIN oldCh = 1 .. Len(oldCh)
      /\ oldStart \in Nat /\ oldEnd \in Nat
      /\ cleared \subseteq DOMAIN oldCh /\ oldStart \in 1 .. Len(oldCh) + 1
  BY Sizes DEF ChildrenRight, Children!TypeOK
<1>4. Children!Leftover' = Children!Leftover \ {e}
  BY <1>1, <1>3 DEF Children!Leftover
<1>5. Gets(j, e)
  BY <1>1, <1>2, <1>4 DEF Gets
<1>6. Has(e) /\ Fits(e, j)
  BY <1>1, <1>2 DEF Has, Fits
<1>8. Children!Unique(newCh) => Placed(j, e)
  BY <1>1, <1>2, <1>5, BesidePlaced
<1>9. e # Children!Created(j)
  BY <1>2, <1>3, Sizes DEF ChildrenRight
<1>10. /\ oldStart' \in 1 .. Len(oldCh) + 1 /\ oldEnd' \in 0 .. Len(oldCh)
       /\ oldStart' <= oldEnd' + 1 /\ cleared' \subseteq DOMAIN oldCh
       /\ dom' \in Seq(Children!Element) /\ phase' = "loop"
  BY <1>1, <1>2, <1>3
<1>11. MapIs(oldKeyToIdx)
  BY MapStays
<1> HIDE DEF j, e
<1> QED
  BY <1>1, <1>5, <1>6, <1>8, <1>9, <1>10, <1>11, RoundStep

\* The first old child goes behind the last one, which it is not.
LEMMA MoveRightStep ==
  ASSUME ChildrenRight, Children!MoveRight
  PROVE  ChildrenRight'
<1> DEFINE j == newEnd
           e == oldStart
<1>1. /\ Children!Comparing /\ oldCh[oldStart] = newCh[newEnd] /\ oldCh[oldEnd] # newCh[newEnd]
      /\ elm' = [elm EXCEPT ![newEnd] = oldStart]
      /\ dom' = Children!InsertBefore(oldStart, Children!NextSibling(oldEnd))
      /\ oldStart' = oldStart + 1 /\ newEnd' = newEnd - 1
      /\ oldCh' = oldCh /\ newCh' = newCh /\ cleared' = cleared
      /\ oldEnd' = oldEnd /\ newStart' = newStart /\ oldKeyToIdx' = oldKeyToIdx
      /\ phase' = phase
  BY DEF Children!MoveRight, Children!MovedRight, Children!EndsMatch, Children!sameVnode,
         Children!patchVnode
<1>2. /\ oldStart \in Children!Leftover /\ oldEnd \in Children!Leftover
      /\ Children!Leftover \subseteq Elements(dom)
      /\ oldStart \in DOMAIN oldCh /\ oldStart <= oldEnd
      /\ newEnd \in DOMAIN newCh /\ newStart <= newEnd
      /\ DOMAIN oldCh \subseteq Children!Element
      /\ \A i \in Children!Leftover : i # oldEnd => Precedes(dom, i, oldEnd)
      /\ phase = "loop" /\ Distinct(dom) /\ dom \in Seq(Children!Element)
  BY <1>1, EndsLeft
<1>3. /\ Len(oldCh) \in Nat /\ DOMAIN oldCh = 1 .. Len(oldCh)
      /\ oldStart \in Nat /\ oldEnd \in Nat
      /\ cleared \subseteq DOMAIN oldCh /\ oldEnd \in 0 .. Len(oldCh)
      /\ Children!None \notin Children!Element
  BY Sizes DEF ChildrenRight, Children!TypeOK
<1>4. Children!Leftover' = Children!Leftover \ {e}
  BY <1>1, <1>3 DEF Children!Leftover
<1>5. Gets(j, e)
  BY <1>1, <1>2, <1>4 DEF Gets
<1>6. Precedes(dom, oldStart, oldEnd)
  BY <1>1, <1>2
<1>7. /\ dom' \in Seq(Children!Element) /\ Distinct(dom') /\ Elements(dom') = Elements(dom)
      /\ \A x, y : x # e /\ y # e => (Precedes(dom', x, y) <=> Precedes(dom, x, y))
      /\ \A x \in Elements(dom) \ {e} :
           IF x = oldEnd \/ Precedes(dom, x, oldEnd)
           THEN Precedes(dom', x, e) ELSE Precedes(dom', e, x)
  BY <1>1, <1>2, <1>3, <1>6, InsertBehindIs
<1>8. Has(e) /\ Fits(e, j)
  BY <1>1, <1>2, <1>7 DEF Has, Fits
<1>9. Children!Unique(newCh) => Placed(j, e)
  BY <1>1, <1>2, <1>5, <1>7, BesidePlaced
<1>10. e # Children!Created(j)
  BY <1>2, <1>3, Sizes DEF ChildrenRight
<1>11. /\ oldStart' \in 1 .. Len(oldCh) + 1 /\ oldEnd' \in 0 .. Len(oldCh)
       /\ oldStart' <= oldEnd' + 1 /\ cleared' \subseteq DOMAIN oldCh
       /\ phase' = "loop"
  BY <1>1, <1>2, <1>3
<1>12. MapIs(oldKeyToIdx)
  BY MapStays
<1> HIDE DEF j, e
<1> QED
  BY <1>1, <1>5, <1>7, <1>8, <1>9, <1>10, <1>11, <1>12, RoundStep

\* An element is put before the first old child left over.
LEMMA InsertedStep ==
  ASSUME ChildrenRight, Children!Comparing, NEW e, e # oldStart, Gets(newStart, e), Fits(e, newStart),
         Children!Unique(newCh) => e \in Children!Leftover \/ e = Children!Created(newStart),
         e = Children!Created(newStart) /\ Children!Unique(newCh) /\ Children!Unique(oldCh)
           /\ newCh[newStart].key # NoKey => \A i \in Children!Leftover : oldCh[i] # newCh[newStart],
         dom' = Children!InsertBefore(e, oldStart),
         oldStart' = oldStart, oldEnd' \in {oldEnd, oldEnd - 1}, newStart' = newStart + 1,
         cleared' \subseteq DOMAIN oldCh, phase' = phase,
         NEW m, oldKeyToIdx' = m, MapIs(m)
  PROVE  ChildrenRight'
<1>1. /\ oldStart \in Children!Leftover /\ Children!Leftover \subseteq Elements(dom)
      /\ oldStart <= oldEnd /\ newStart <= newEnd
      /\ \A i \in Children!Leftover : i # oldStart => Precedes(dom, oldStart, i)
      /\ phase = "loop" /\ Distinct(dom) /\ dom \in Seq(Children!Element)
  BY EndsLeft
<1>2. /\ Len(oldCh) \in Nat /\ oldStart \in Nat /\ oldEnd \in Nat /\ newStart \in Nat
      /\ oldStart \in 1 .. Len(oldCh) + 1 /\ oldEnd \in 0 .. Len(oldCh)
      /\ Children!None = 0 /\ Children!None \notin Children!Element
  BY Sizes DEF ChildrenRight, Children!TypeOK
<1>3. e \in Children!Element /\ oldStart \in Elements(dom) \ {e}
  BY <1>1 DEF Gets
<1>4. /\ dom' \in Seq(Children!Element) /\ Distinct(dom') /\ Elements(dom') = Elements(dom) \cup {e}
      /\ \A x, y : x # e /\ y # e => (Precedes(dom', x, y) <=> Precedes(dom, x, y))
      /\ \A x \in Elements(dom) \ {e} :
           IF oldStart = Children!None \/ Precedes(dom, x, oldStart)
           THEN Precedes(dom', x, e) ELSE Precedes(dom', e, x)
  BY <1>1, <1>2, <1>3, InsertBeforeIs
<1>5. Has(e)
  BY <1>4 DEF Has
<1>6. newStart' # newStart /\ oldStart # Children!None
  BY <1>2
<1>7. Children!Unique(newCh) => Placed(newStart, e)
  BY <1>1, <1>4, <1>6, BesidePlaced
<1>8. /\ oldStart' \in 1 .. Len(oldCh) + 1 /\ oldEnd' \in 0 .. Len(oldCh)
      /\ oldStart' <= oldEnd' + 1 /\ phase' = "loop"
  <2>1. CASE oldEnd' = oldEnd
    BY <1>1, <1>2, <2>1
  <2>2. CASE oldEnd' = oldEnd - 1
    BY <1>1, <1>2, <2>2
  <2> QED
    BY <2>1, <2>2
<1> QED
  BY <1>4, <1>5, <1>7, <1>8, RoundStep

\* The last old child goes before the first one, which it is not.
LEMMA MoveLeftStep ==
  ASSUME ChildrenRight, Children!MoveLeft
  PROVE  ChildrenRight'
<1>1. /\ Children!Comparing /\ oldCh[oldEnd] = newCh[newStart] /\ oldCh[oldStart] # newCh[newStart]
      /\ elm' = [elm EXCEPT ![newStart] = oldEnd]
      /\ dom' = Children!InsertBefore(oldEnd, oldStart)
      /\ oldEnd' = oldEnd - 1 /\ newStart' = newStart + 1
      /\ oldCh' = oldCh /\ newCh' = newCh /\ cleared' = cleared
      /\ oldStart' = oldStart /\ newEnd' = newEnd /\ oldKeyToIdx' = oldKeyToIdx
      /\ phase' = phase
  BY DEF Children!MoveLeft, Children!MovedLeft, Children!StartsMatch, Children!sameVnode,
         Children!patchVnode
<1>2. /\ oldEnd \in Children!Leftover /\ newStart <= newEnd
      /\ oldEnd \in DOMAIN oldCh /\ newStart \in DOMAIN newCh
      /\ DOMAIN oldCh \subseteq Children!Element
  BY <1>1, EndsLeft
<1>3. /\ Len(oldCh) \in Nat /\ DOMAIN oldCh = 1 .. Len(oldCh)
      /\ oldStart \in Nat /\ oldEnd \in Nat /\ cleared \subseteq DOMAIN oldCh
  BY Sizes DEF ChildrenRight, Children!TypeOK
<1>4. Children!Leftover' = Children!Leftover \ {oldEnd}
  BY <1>1, <1>3 DEF Children!Leftover
<1>5. Gets(newStart, oldEnd) /\ Fits(oldEnd, newStart)
  BY <1>1, <1>2, <1>4 DEF Gets, Fits
<1>6. oldEnd # Children!Created(newStart)
  BY <1>2, <1>3, Sizes DEF ChildrenRight
<1>7. MapIs(oldKeyToIdx)
  BY MapStays
<1> QED
  BY <1>1, <1>2, <1>3, <1>5, <1>6, <1>7, InsertedStep

\* Nothing but an index or the phase changes.
LEMMA StillStep ==
  ASSUME ChildrenRight, oldCh' = oldCh, newCh' = newCh, newStart' = newStart, newEnd' = newEnd,
         elm' = elm, dom' = dom, cleared' = cleared, Children!Leftover' = Children!Leftover,
         oldStart' \in 1 .. Len(oldCh) + 1, oldEnd' \in 0 .. Len(oldCh), IndexesAgree',
         phase' \in {"loop", "rest", "done", "thrown"},
         phase' = "thrown" => ~Children!Unique(newCh),
         NEW m, oldKeyToIdx' = m, MapIs(m)
  PROVE  ChildrenRight'
<1>1. Children!TypeOK /\ ElementsAgree
  BY DEF ChildrenRight
<1>2. Children!TypeOK'
  <2>1. Children!Element' = Children!Element /\ Children!None' = Children!None
    BY DEF Children!Element, Children!None
  <2>2. \A k \in DOMAIN oldKeyToIdx' : k \in Key /\ oldKeyToIdx'[k] \in DOMAIN oldCh
    BY DEF MapIs
  <2> QED
    BY <1>1, <2>1, <2>2 DEF Children!TypeOK
<1>3. DoneNew' = DoneNew
  BY DEF DoneNew
<1>4. ElementsAgree'
  BY <1>1, <1>3 DEF ElementsAgree, Fits, Children!Created
<1>5. MapAgrees'
  BY DEF MapAgrees, MapIs
<1>6. Children!Unique(newCh)' => Children!Unique(newCh)
  BY DEF Children!Unique
<1>7. Children!Unique(newCh) => OrderAgrees' /\ KeysAgree'
  BY <1>3 DEF ChildrenRight, OrderAgrees, KeysAgree, Children!Unique
<1>8. phase' = "thrown" => ~Children!Unique(newCh)'
  BY DEF Children!Unique
<1> QED
  BY <1>2, <1>4, <1>5, <1>6, <1>7, <1>8 DEF ChildrenRight

LEMMA SkipStep ==
  ASSUME ChildrenRight, Children!SkipOldStart \/ Children!SkipOldEnd
  PROVE  ChildrenRight'
<1>1. /\ oldStart <= oldEnd /\ phase = "loop"
      /\ oldCh' = oldCh /\ newCh' = newCh /\ newStart' = newStart /\ newEnd' = newEnd
      /\ elm' = elm /\ dom' = dom /\ cleared' = cleared /\ oldKeyToIdx' = oldKeyToIdx
      /\ phase' = phase
      /\ \/ oldStart \in cleared /\ oldStart' = oldStart + 1 /\ oldEnd' = oldEnd
         \/ oldEnd \in cleared /\ oldEnd' = oldEnd - 1 /\ oldStart' = oldStart
  BY DEF Children!SkipOldStart, Children!SkipOldEnd, Children!Looping,
         Children!OldStartUndefined, Children!OldEndUndefined
<1>2. /\ Len(oldCh) \in Nat /\ oldStart \in Nat /\ oldEnd \in Nat
      /\ oldStart \in 1 .. Len(oldCh) + 1 /\ oldEnd \in 0 .. Len(oldCh)
      /\ newStart <= newEnd + 1
  BY Sizes DEF ChildrenRight, Children!TypeOK, IndexesAgree
<1>3. Children!Leftover' = Children!Leftover
  BY <1>1, <1>2 DEF Children!Leftover
<1>4. /\ oldStart' \in 1 .. Len(oldCh) + 1 /\ oldEnd' \in 0 .. Len(oldCh)
      /\ oldStart' <= oldEnd' + 1
  <2>1. CASE oldStart' = oldStart + 1 /\ oldEnd' = oldEnd
    BY <1>1, <1>2, <2>1
  <2>2. CASE oldEnd' = oldEnd - 1 /\ oldStart' = oldStart
    BY <1>1, <1>2, <2>2
  <2> QED
    BY <1>1, <2>1, <2>2
<1>5. IndexesAgree'
  BY <1>1, <1>2, <1>4 DEF IndexesAgree
<1>6. MapIs(oldKeyToIdx)
  BY MapStays
<1> QED
  BY <1>1, <1>3, <1>4, <1>5, <1>6, StillStep

LEMMA LeaveLoopStep ==
  ASSUME ChildrenRight, Children!LeaveLoop
  PROVE  ChildrenRight'
<1>1. /\ oldCh' = oldCh /\ newCh' = newCh /\ newStart' = newStart /\ newEnd' = newEnd
      /\ oldStart' = oldStart /\ oldEnd' = oldEnd
      /\ elm' = elm /\ dom' = dom /\ cleared' = cleared /\ oldKeyToIdx' = oldKeyToIdx
      /\ phase' = "rest" /\ ~(oldStart <= oldEnd /\ newStart <= newEnd)
  BY DEF Children!LeaveLoop, Children!Looping, Children!indexes
<1>2. /\ oldStart \in Nat /\ oldEnd \in Nat /\ newStart \in Nat /\ newEnd \in Nat
      /\ oldStart \in 1 .. Len(oldCh) + 1 /\ oldEnd \in 0 .. Len(oldCh)
      /\ IndexesAgree
  BY Sizes DEF ChildrenRight, Children!TypeOK
<1>3. Children!Leftover' = Children!Leftover
  BY <1>1 DEF Children!Leftover
<1>4. IndexesAgree'
  BY <1>1, <1>2 DEF IndexesAgree
<1>5. MapIs(oldKeyToIdx)
  BY MapStays
<1> QED
  BY <1>1, <1>2, <1>3, <1>4, <1>5, StillStep

-----------------------------------------------------------------------------
(* The search for a new child. *)

LEMMA Greatest ==
  ASSUME NEW m \in Nat, NEW T, T \subseteq 1 .. m, T # {}
  PROVE  \E n \in T : \A x \in T : x <= n
<1> DEFINE U == {k \in Nat : m - k \in T}
<1>1. U # {}
  <2>1. PICK x \in T : TRUE
    OBVIOUS
  <2>2. m - x \in Nat /\ m - (m - x) = x
    BY <2>1
  <2>3. m - x \in U
    BY <2>1, <2>2
  <2> QED
    BY <2>3
<1>2. PICK k \in U : \A h \in U : k <= h
  <2> U \subseteq Nat
    OBVIOUS
  <2> HIDE DEF U
  <2> QED
    BY <1>1, Least
<1>3. ASSUME NEW x \in T PROVE x <= m - k
  <2>1. m - x \in Nat /\ m - (m - x) = x /\ k \in Nat
    OBVIOUS
  <2>2. m - x \in U
    BY <2>1
  <2>3. k <= m - x
    BY <1>2, <2>2
  <2> QED
    BY <2>1, <2>3
<1> QED
  BY <1>3

\* The map in use has the keys of all that are left over, and of no others when made.
LEMMA KeyToIdxIs ==
  ASSUME ChildrenRight
  PROVE  /\ MapIs(Children!KeyToIdx)
         /\ \A i \in Children!Leftover :
              oldCh[i].key # NoKey => oldCh[i].key \in DOMAIN Children!KeyToIdx
<1>1. CASE oldKeyToIdx # <<>>
  BY <1>1, MapStays DEF Children!KeyToIdx, MapIs
<1>2. CASE oldKeyToIdx = <<>>
  <2> DEFINE m == Children!createKeyToOldIdx
             keys == {oldCh[i].key : i \in Children!Leftover} \ {NoKey}
  <2>1. /\ Children!Leftover \subseteq 1 .. Len(oldCh) /\ Len(oldCh) \in Nat
        /\ Children!Leftover \subseteq DOMAIN oldCh
        /\ \A i \in DOMAIN oldCh : oldCh[i].key \in Key \cup {NoKey}
    <3>1. oldCh \in Seq(Children!Child)
      BY DEF ChildrenRight, Children!TypeOK
    <3>2. \A i \in DOMAIN oldCh : oldCh[i] \in Children!Child
      BY <3>1
    <3> QED
      BY <3>2, Sizes DEF ChildrenRight, Children!Child
  <2>2. m = [k \in keys |-> CHOOSE i \in Children!Leftover :
               /\ oldCh[i].key = k
               /\ \A h \in Children!Leftover : oldCh[h].key = k => h <= i]
    BY DEF Children!createKeyToOldIdx, Children!Leftover
  <2>3. ASSUME NEW k \in keys
        PROVE  m[k] \in Children!Leftover /\ oldCh[m[k]].key = k
    <3> DEFINE T == {i \in Children!Leftover : oldCh[i].key = k}
    <3>1. T \subseteq 1 .. Len(oldCh) /\ T # {}
      BY <2>1
    <3>2. PICK n \in T : \A x \in T : x <= n
      <4> HIDE DEF T
      <4> QED
        BY <2>1, <3>1, Greatest
    <3>3. n \in Children!Leftover /\ oldCh[n].key = k
          /\ \A h \in Children!Leftover : oldCh[h].key = k => h <= n
      BY <3>2
    <3>4. m[k] = CHOOSE i \in Children!Leftover :
               /\ oldCh[i].key = k
               /\ \A h \in Children!Leftover : oldCh[h].key = k => h <= i
      <4> HIDE DEF m, keys
      <4> QED
        BY <2>2
    <3> HIDE DEF m, keys
    <3> QED
      BY <3>3, <3>4
  <2>4. DOMAIN m = keys
    <3> HIDE DEF m, keys
    <3> QED
      BY <2>2
  <2>5. Children!KeyToIdx = m
    BY <1>2 DEF Children!KeyToIdx
  <2> HIDE DEF m
  <2>6. \A k \in DOMAIN m : k \in Key /\ m[k] \in DOMAIN oldCh /\ oldCh[m[k]].key = k
    BY <2>1, <2>3, <2>4
  <2>7. \A i \in Children!Leftover : oldCh[i].key # NoKey => oldCh[i].key \in DOMAIN m
    BY <2>4
  <2> QED
    BY <2>5, <2>6, <2>7 DEF MapIs
<1> QED
  BY <1>1, <1>2

\* What is found has the new child's key, or is left over; if nothing is found, no old
\* child left over has the key.
LEMMA IdxInOldIs ==
  ASSUME ChildrenRight, Children!Comparing
  PROVE  LET child == newCh[newStart]
             idx == Children!IdxInOld(child)
         IN  /\ idx # Children!None => idx \in DOMAIN oldCh
             /\ idx # Children!None /\ child.key # NoKey => oldCh[idx].key = child.key
             /\ idx # Children!None /\ child.key = NoKey => idx \in Children!Leftover
             /\ idx = Children!None /\ child.key # NoKey =>
                  \A i \in Children!Leftover : oldCh[i].key # child.key
<1> DEFINE child == newCh[newStart]
           idx == Children!IdxInOld(child)
           m == Children!KeyToIdx
<1>1. /\ MapIs(m)
      /\ \A i \in Children!Leftover : oldCh[i].key # NoKey => oldCh[i].key \in DOMAIN m
  BY KeyToIdxIs
<1>2. /\ Children!Leftover \subseteq DOMAIN oldCh /\ DOMAIN oldCh = 1 .. Len(oldCh)
      /\ Len(oldCh) \in Nat /\ Children!None = 0 /\ oldStart \in Nat /\ oldEnd \in Nat
  BY Sizes DEF ChildrenRight
<1> HIDE DEF m, child
<1>3. CASE child.key # NoKey
  <2>1. idx = IF child.key \in DOMAIN m THEN m[child.key] ELSE Children!None
    BY <1>3 DEF Children!IdxInOld, m
  <2> HIDE DEF idx
  <2>2. CASE child.key \in DOMAIN m
    <3>1. idx \in DOMAIN oldCh /\ oldCh[idx].key = child.key /\ idx # Children!None
      BY <1>1, <1>2, <2>1, <2>2 DEF MapIs
    <3> QED
      BY <1>3, <3>1 DEF idx, child
  <2>3. CASE child.key \notin DOMAIN m
    <3>1. idx = Children!None /\ \A i \in Children!Leftover : oldCh[i].key # child.key
      BY <1>1, <1>3, <2>1, <2>3
    <3> QED
      BY <1>3, <3>1 DEF idx, child
  <2> QED
    BY <2>2, <2>3
<1>4. CASE child.key = NoKey
  <2> DEFINE F == Children!findIdxInOld(child)
  <2>1. idx = IF F = {} THEN Children!None ELSE Children!Least(F)
    BY <1>4 DEF Children!IdxInOld
  <2>2. F \subseteq Children!Leftover
    BY <1>2 DEF Children!findIdxInOld, Children!Leftover
  <2> HIDE DEF F, idx
  <2>3. F # {} => Children!Least(F) \in F
    <3> SUFFICES ASSUME F # {} PROVE Children!Least(F) \in F
      OBVIOUS
    <3>1. F \subseteq Nat
      BY <1>2, <2>2
    <3>2. \E n \in F : \A x \in F : n <= x
      BY <3>1, Least
    <3> QED
      BY <3>2 DEF Children!Least
  <2>4. idx # Children!None => idx \in Children!Leftover
    BY <2>1, <2>2, <2>3
  <2> QED
    BY <1>2, <1>4, <2>4 DEF idx, child
<1> QED
  BY <1>3, <1>4

\* If the new keys are unique, what is found is left over.
LEMMA FoundIsLeft ==
  ASSUME ChildrenRight, Children!Comparing,
         Children!IdxInOld(newCh[newStart]) # Children!None, Children!Unique(newCh)
  PROVE  Children!IdxInOld(newCh[newStart]) \in Children!Leftover
<1> DEFINE idx == Children!IdxInOld(newCh[newStart])
<1>1. /\ idx \in DOMAIN oldCh
      /\ newCh[newStart].key # NoKey => oldCh[idx].key = newCh[newStart].key
      /\ newCh[newStart].key = NoKey => idx \in Children!Leftover
  BY IdxInOldIs
<1> HIDE DEF idx
<1> SUFFICES ASSUME idx \notin Children!Leftover PROVE FALSE
  BY DEF idx
<1>2. newCh[newStart].key # NoKey /\ oldCh[idx].key = newCh[newStart].key
  BY <1>1
<1>3. newStart <= newEnd /\ newStart \in DOMAIN newCh
  BY EndsLeft
<1>4. Children!TypeOK /\ ElementsAgree
  BY DEF ChildrenRight
<1>5. PICK j \in DoneNew : elm[j] = idx
  BY <1>1, <1>3, <1>4 DEF ElementsAgree
<1>6. j \in DOMAIN newCh /\ oldCh[idx] = newCh[j]
  BY <1>1, <1>4, <1>5, DoneElements
<1>7. newStart \notin DoneNew
  <2>1. newStart \in Nat /\ newEnd \in Nat
    BY <1>4, Sizes
  <2> QED
    BY <1>3, <2>1 DEF DoneNew
<1> QED
  BY <1>2, <1>3, <1>5, <1>6, <1>7 DEF Children!Unique

LEMMA SearchStep ==
  ASSUME ChildrenRight, Children!Search
  PROVE  ChildrenRight'
<1> DEFINE child == newCh[newStart]
           idx == Children!IdxInOld(child)
           new == Children!Created(newStart)
           m == Children!KeyToIdx
           Creates == /\ elm' = [elm EXCEPT ![newStart] = new]
                      /\ dom' = Children!InsertBefore(new, oldStart)
                      /\ cleared' = cleared /\ newStart' = newStart + 1 /\ phase' = phase
<1>1. /\ Children!Comparing /\ oldCh[oldStart] # child
      /\ oldKeyToIdx' = m
      /\ oldCh' = oldCh /\ newCh' = newCh /\ oldStart' = oldStart /\ oldEnd' = oldEnd
      /\ newEnd' = newEnd
  BY DEF Children!Search, Children!StartsMatch, Children!sameVnode
<1>2. \/ idx = Children!None /\ Creates
      \/ /\ idx # Children!None /\ idx \in cleared /\ phase' = "thrown"
         /\ newStart' = newStart /\ cleared' = cleared /\ elm' = elm /\ dom' = dom
      \/ idx # Children!None /\ oldCh[idx] # child /\ Creates
      \/ /\ idx # Children!None /\ oldCh[idx] = child
         /\ elm' = [elm EXCEPT ![newStart] = idx] /\ cleared' = cleared \cup {idx}
         /\ dom' = Children!InsertBefore(idx, oldStart)
         /\ newStart' = newStart + 1 /\ phase' = phase
  BY DEF Children!Search, Children!createElm, Children!TakeOver, Children!patchVnode,
         Children!sameVnode
<1>3. /\ idx # Children!None => idx \in DOMAIN oldCh
      /\ idx # Children!None /\ child.key # NoKey => oldCh[idx].key = child.key
      /\ idx = Children!None /\ child.key # NoKey =>
           \A i \in Children!Leftover : oldCh[i].key # child.key
      /\ idx # Children!None /\ Children!Unique(newCh) => idx \in Children!Leftover
  BY <1>1, IdxInOldIs, FoundIsLeft
<1>4. MapIs(m)
  BY KeyToIdxIs
<1>5. /\ Children!TypeOK /\ IndexesAgree /\ cleared \subseteq DOMAIN oldCh
      /\ oldStart \in 1 .. Len(oldCh) + 1 /\ oldEnd \in 0 .. Len(oldCh)
  BY DEF ChildrenRight, Children!TypeOK
<1>6. /\ Len(oldCh) \in Nat /\ DOMAIN oldCh = 1 .. Len(oldCh)
      /\ Len(newCh) \in Nat /\ DOMAIN newCh = 1 .. Len(newCh)
      /\ newStart \in DOMAIN newCh /\ newStart <= newEnd /\ oldStart \in DOMAIN oldCh
      /\ new = Len(oldCh) + newStart /\ Children!Leftover \subseteq DOMAIN oldCh
  BY <1>1, <1>5, EndsLeft, Sizes
<1>7. new \in Children!Element /\ new \notin DOMAIN oldCh
  BY <1>6 DEF Children!Element
<1> HIDE DEF child, idx, new, m
<1>8. ASSUME Creates,
             Children!Unique(oldCh) /\ child.key # NoKey =>
               \A i \in Children!Leftover : oldCh[i] # child
      PROVE  ChildrenRight'
  <2>1. Children!Leftover' = Children!Leftover \ {new}
    BY <1>1, <1>6, <1>7, <1>8 DEF Children!Leftover
  <2>2. Gets(newStart, new)
    BY <1>1, <1>6, <1>7, <1>8, <2>1 DEF Gets
  <2>3. Fits(new, newStart) /\ new # oldStart
    BY <1>6, <1>7 DEF Fits, new
  <2>4. new = Children!Created(newStart)
    BY DEF new
  <2>5. newCh[newStart].key # NoKey /\ Children!Unique(oldCh) =>
          \A i \in Children!Leftover : oldCh[i] # newCh[newStart]
    BY <1>8 DEF child
  <2> QED
    BY <1>1, <1>4, <1>5, <1>8, <2>2, <2>3, <2>4, <2>5, InsertedStep
<1>9. CASE idx = Children!None /\ Creates
  <2>1. child.key # NoKey => \A i \in Children!Leftover : oldCh[i] # child
    BY <1>3, <1>9
  <2> QED
    BY <1>8, <1>9, <2>1
<1>10. CASE idx # Children!None /\ oldCh[idx] # child /\ Creates
  <2>1. ASSUME Children!Unique(oldCh), child.key # NoKey, NEW i \in Children!Leftover,
               oldCh[i] = child
        PROVE  FALSE
    <3>1. idx \in DOMAIN oldCh /\ oldCh[idx].key = oldCh[i].key /\ oldCh[i].key # NoKey
      BY <1>3, <1>10, <2>1
    <3>2. i \in DOMAIN oldCh /\ i # idx
      BY <1>6, <1>10, <2>1
    <3> QED
      BY <2>1, <3>1, <3>2 DEF Children!Unique
  <2> QED
    BY <1>8, <1>10, <2>1
<1>11. CASE /\ idx # Children!None /\ idx \in cleared /\ phase' = "thrown"
            /\ newStart' = newStart /\ cleared' = cleared /\ elm' = elm /\ dom' = dom
  <2>1. Children!Leftover' = Children!Leftover
    BY <1>1, <1>11 DEF Children!Leftover
  <2>2. IndexesAgree'
    BY <1>1, <1>5, <1>11 DEF IndexesAgree
  <2>3. ~Children!Unique(newCh)
    BY <1>3, <1>11 DEF Children!Leftover
  <2> QED
    BY <1>1, <1>4, <1>5, <1>11, <2>1, <2>2, <2>3, StillStep
<1>12. CASE /\ idx # Children!None /\ oldCh[idx] = child
            /\ elm' = [elm EXCEPT ![newStart] = idx] /\ cleared' = cleared \cup {idx}
            /\ dom' = Children!InsertBefore(idx, oldStart)
            /\ newStart' = newStart + 1 /\ phase' = phase
  <2>1. Children!Leftover' = Children!Leftover \ {idx}
    BY <1>1, <1>12 DEF Children!Leftover
  <2>2. idx \in DOMAIN oldCh /\ idx \in Children!Element /\ idx # oldStart
    BY <1>1, <1>3, <1>6, <1>12 DEF Children!Element
  <2>3. Gets(newStart, idx) /\ Fits(idx, newStart)
    BY <1>1, <1>6, <1>12, <2>1, <2>2 DEF Gets, Fits, child
  <2>4. cleared' \subseteq DOMAIN oldCh
    BY <1>5, <1>12, <2>2
  <2>5. idx # Children!Created(newStart)
    BY <1>7, <2>2 DEF new
  <2>6. Children!Unique(newCh) => idx \in Children!Leftover
    BY <1>3, <1>12
  <2> QED
    BY <1>1, <1>4, <1>12, <2>2, <2>3, <2>4, <2>5, <2>6, InsertedStep
<1> QED
  BY <1>2, <1>9, <1>10, <1>11, <1>12

-----------------------------------------------------------------------------
(* After the loop. *)

\* A new child that is left gets an element before that of the next one done.
LEMMA AddStep ==
  ASSUME ChildrenRight, Children!addVnodes, newStart <= newEnd
  PROVE  ChildrenRight'
<1> DEFINE e == Children!Created(newStart)
           ref == IF newEnd = Len(newCh) THEN Children!None ELSE elm[newEnd + 1]
<1>1. /\ Len(oldCh) \in Nat /\ DOMAIN oldCh = 1 .. Len(oldCh)
      /\ Len(newCh) \in Nat /\ DOMAIN newCh = 1 .. Len(newCh)
      /\ oldStart \in Nat /\ oldEnd \in Nat /\ newStart \in Nat /\ newEnd \in Nat
      /\ e = Len(oldCh) + newStart
      /\ Children!None = 0 /\ Children!None \notin Children!Element
  <2>1. newStart \in DOMAIN newCh
    <3>1. newStart \in 1 .. Len(newCh) + 1 /\ newEnd \in 0 .. Len(newCh)
      BY DEF ChildrenRight, Children!TypeOK
    <3> QED
      BY <3>1, Sizes DEF ChildrenRight
  <2> QED
    BY <2>1, Sizes DEF ChildrenRight
<1>2. /\ phase = "rest" /\ oldStart > oldEnd
      /\ elm' = [elm EXCEPT ![newStart] = e]
      /\ dom' = Children!InsertBefore(e, ref) /\ newStart' = newStart + 1
      /\ oldCh' = oldCh /\ newCh' = newCh /\ cleared' = cleared
      /\ oldStart' = oldStart /\ oldEnd' = oldEnd /\ newEnd' = newEnd
      /\ oldKeyToIdx' = oldKeyToIdx /\ phase' = phase
  <2>1. ~(newStart > newEnd)
    BY <1>1
  <2> QED
    BY <2>1 DEF Children!addVnodes
<1>3. /\ Children!TypeOK /\ IndexesAgree /\ ElementsAgree
      /\ newStart \in 1 .. Len(newCh) + 1 /\ newEnd \in 0 .. Len(newCh)
      /\ oldStart \in 1 .. Len(oldCh) + 1 /\ oldEnd \in 0 .. Len(oldCh)
      /\ oldStart <= oldEnd + 1 /\ cleared \subseteq DOMAIN oldCh
      /\ dom \in Seq(Children!Element) /\ Distinct(dom)
  BY DEF ChildrenRight, Children!TypeOK, IndexesAgree, ElementsAgree
<1>4. newStart \in DOMAIN newCh
  BY <1>1, <1>3
<1>5. Children!Leftover = {} /\ Children!Leftover' = {}
  <2>1. Children!Leftover = {}
    <3>0. oldStart \in Nat /\ oldEnd \in Nat /\ oldStart > oldEnd
      BY <1>1, <1>2
    <3>1. oldStart .. oldEnd = {}
      BY <3>0
    <3> QED
      BY <3>1 DEF Children!Leftover
  <2>2. Children!Leftover' = Children!Leftover
    BY <1>2 DEF Children!Leftover
  <2> QED
    BY <2>1, <2>2
<1>6. e \in Children!Element
  BY <1>1, <1>4 DEF Children!Element
<1>7. e = Children!Created(newStart)
  OBVIOUS
<1> HIDE DEF e
<1>8. Gets(newStart, e)
  BY <1>2, <1>5, <1>6 DEF Gets
<1>9. newStart \notin DoneNew /\ (newEnd # Len(newCh) => newEnd + 1 \in DoneNew)
  <2>1. newStart \notin DoneNew
    BY <1>1 DEF DoneNew
  <2>2. ASSUME newEnd # Len(newCh) PROVE newEnd + 1 \in DoneNew
    <3>0. newEnd \in Nat /\ Len(newCh) \in Nat /\ newEnd \in 0 .. Len(newCh) /\ newEnd # Len(newCh)
      BY <1>1, <1>3, <2>2
    <3>1. newEnd + 1 \in 1 .. Len(newCh) /\ newEnd + 1 \notin newStart .. newEnd
      BY <3>0
    <3> QED
      BY <1>1, <3>1 DEF DoneNew
  <2> QED
    BY <2>1, <2>2
<1>10. e \notin Elements(dom)
  <2> SUFFICES ASSUME e \in Elements(dom) PROVE FALSE
    OBVIOUS
  <2>1. PICK j \in DoneNew : elm[j] = e
    BY <1>3, <1>5 DEF ElementsAgree
  <2>2. j = newStart
    BY <1>3, <1>4, <1>7, <2>1, DoneElements
  <2> QED
    BY <1>9, <2>1, <2>2
<1>11. ref \in {Children!None} \cup (Elements(dom) \ {e})
  BY <1>3, <1>9, <1>10, DoneElements
<1>12. /\ dom' \in Seq(Children!Element) /\ Distinct(dom') /\ Elements(dom') = Elements(dom) \cup {e}
       /\ \A x, y : x # e /\ y # e => (Precedes(dom', x, y) <=> Precedes(dom, x, y))
       /\ \A x \in Elements(dom) \ {e} :
            IF ref = Children!None \/ Precedes(dom, x, ref)
            THEN Precedes(dom', x, e) ELSE Precedes(dom', e, x)
  <2> HIDE DEF ref
  <2> QED
    BY <1>1, <1>2, <1>3, <1>6, <1>11, InsertBeforeIs
<1>13. Has(e) /\ Fits(e, newStart)
  BY <1>7, <1>12 DEF Has, Fits
<1>14. ASSUME Children!Unique(newCh) PROVE Placed(newStart, e)
  <2>1. \A i, j \in DoneNew : i < j => Precedes(dom, elm[i], elm[j])
    BY <1>14 DEF ChildrenRight, OrderAgrees
  <2>2. ASSUME NEW i \in DoneNew
        PROVE  /\ elm[i] # e
               /\ IF i < newStart THEN Precedes(dom', elm[i], e) ELSE Precedes(dom', e, elm[i])
    <3>1. elm[i] \in Elements(dom) /\ i \in DOMAIN newCh
      BY <1>3, DoneElements
    <3>2. CASE newEnd = Len(newCh)
      <4>1. i < newStart
        BY <1>1, <3>2 DEF DoneNew
      <4> QED
        BY <1>10, <1>12, <3>1, <3>2, <4>1
    <3>3. CASE newEnd # Len(newCh)
      <4>1. newEnd + 1 \in DoneNew /\ ref = elm[newEnd + 1]
        BY <1>9, <3>3
      <4>2. ref \in Elements(dom) /\ ref # Children!None
        <5>1. ref \in Elements(dom)
          BY <1>3, <4>1, DoneElements
        <5>2. Elements(dom) \subseteq Children!Element
          BY <1>3 DEF Elements
        <5> QED
          BY <1>1, <5>1, <5>2
      <4> HIDE DEF ref
      <4>3. CASE i < newStart
        <5>1. i < newEnd + 1
          BY <1>1, <3>1, <4>3
        <5>2. Precedes(dom, elm[i], ref)
          BY <2>1, <4>1, <5>1
        <5> QED
          BY <1>10, <1>12, <3>1, <4>3, <5>2
      <4>4. CASE ~(i < newStart)
        <5>1. i = newEnd + 1 \/ newEnd + 1 < i
          BY <1>1, <3>1, <4>4 DEF DoneNew
        <5>2. ~Precedes(dom, elm[i], ref)
          <6>1. elm[i] = ref \/ Precedes(dom, ref, elm[i])
            BY <2>1, <4>1, <5>1
          <6>2. \A a, b : Precedes(dom, a, b) => ~Precedes(dom, b, a) /\ a # b
            BY <1>3, OrderIs
          <6> QED
            BY <6>1, <6>2
        <5> QED
          BY <1>10, <1>12, <3>1, <4>2, <4>4, <5>2
      <4> QED
        BY <4>3, <4>4
    <3> QED
      BY <3>2, <3>3
  <2> QED
    BY <1>5, <2>2 DEF Placed
<1>15. MapIs(oldKeyToIdx)
  BY MapStays
<1>16. /\ oldStart' \in 1 .. Len(oldCh) + 1 /\ oldEnd' \in 0 .. Len(oldCh)
       /\ oldStart' <= oldEnd' + 1 /\ cleared' \subseteq DOMAIN oldCh
       /\ phase' \in {"loop", "rest"} /\ oldStart' > oldEnd'
  BY <1>2, <1>3
<1> QED
  BY <1>2, <1>5, <1>8, <1>12, <1>13, <1>14, <1>15, <1>16, RoundStep

LEMMA AddedStep ==
  ASSUME ChildrenRight, Children!addVnodes, ~(newStart <= newEnd)
  PROVE  ChildrenRight'
<1>1. /\ oldStart \in Nat /\ oldEnd \in Nat /\ newStart \in Nat /\ newEnd \in Nat
      /\ oldStart \in 1 .. Len(oldCh) + 1 /\ oldEnd \in 0 .. Len(oldCh) /\ IndexesAgree
  BY Sizes DEF ChildrenRight, Children!TypeOK
<1>2. /\ oldStart > oldEnd /\ newStart > newEnd /\ phase' = "done"
      /\ oldCh' = oldCh /\ newCh' = newCh /\ cleared' = cleared
      /\ oldStart' = oldStart /\ oldEnd' = oldEnd /\ newStart' = newStart /\ newEnd' = newEnd
      /\ oldKeyToIdx' = oldKeyToIdx /\ elm' = elm /\ dom' = dom
  <2>1. newStart > newEnd
    BY <1>1
  <2> QED
    BY <2>1 DEF Children!addVnodes
<1>3. Children!Leftover' = Children!Leftover
  BY <1>2 DEF Children!Leftover
<1>4. IndexesAgree'
  BY <1>1, <1>2 DEF IndexesAgree
<1>5. MapIs(oldKeyToIdx)
  BY MapStays
<1> QED
  BY <1>1, <1>2, <1>3, <1>4, <1>5, StillStep

\* An old child that is left loses its element.
LEMMA RemoveStep ==
  ASSUME ChildrenRight, Children!removeVnodes
  PROVE  ChildrenRight'
<1>1. /\ phase = "rest" /\ oldStart <= oldEnd
      /\ dom' = IF oldStart \in cleared THEN dom ELSE Children!Without(oldStart)
      /\ oldStart' = oldStart + 1
      /\ phase' = IF oldStart = oldEnd THEN "done" ELSE "rest"
      /\ oldCh' = oldCh /\ newCh' = newCh /\ cleared' = cleared
      /\ oldEnd' = oldEnd /\ newStart' = newStart /\ newEnd' = newEnd
      /\ oldKeyToIdx' = oldKeyToIdx /\ elm' = elm
  BY DEF Children!removeVnodes
<1>2. /\ Len(oldCh) \in Nat /\ DOMAIN oldCh = 1 .. Len(oldCh)
      /\ oldStart \in Nat /\ oldEnd \in Nat /\ newStart \in Nat /\ newEnd \in Nat
  BY Sizes DEF ChildrenRight
<1>3. /\ Children!TypeOK /\ IndexesAgree /\ ElementsAgree
      /\ oldStart \in 1 .. Len(oldCh) + 1 /\ oldEnd \in 0 .. Len(oldCh)
      /\ dom \in Seq(Children!Element)
  BY DEF ChildrenRight, Children!TypeOK
<1>4. newStart > newEnd
  BY <1>1, <1>2, <1>3 DEF IndexesAgree
<1>5. Children!Leftover' = Children!Leftover \ {oldStart}
  BY <1>1, <1>2 DEF Children!Leftover
<1>6. /\ Elements(dom) = Children!Leftover \cup {elm[j] : j \in DoneNew}
      /\ \A a, b \in Children!Leftover : a < b => Precedes(dom, a, b)
      /\ \A j \in DoneNew : elm[j] \notin Children!Leftover /\ Fits(elm[j], j)
      /\ Distinct(dom)
  BY <1>3 DEF ElementsAgree
<1>7. /\ dom' \in Seq(Children!Element) /\ Distinct(dom')
      /\ Elements(dom') = Children!Leftover' \cup {elm[j] : j \in DoneNew}
      /\ \A a, b \in Elements(dom') : Precedes(dom, a, b) => Precedes(dom', a, b)
  <2>1. CASE oldStart \in cleared
    <3>1. oldStart \notin Children!Leftover
      BY <2>1 DEF Children!Leftover
    <3> QED
      BY <1>1, <1>3, <1>5, <1>6, <2>1, <3>1
  <2>2. CASE oldStart \notin cleared
    <3>1. oldStart \in Children!Leftover
      BY <1>1, <1>2, <2>2 DEF Children!Leftover
    <3>2. \A j \in DoneNew : elm[j] # oldStart
      BY <1>6, <3>1
    <3>3. /\ dom' \in Seq(Children!Element) /\ Distinct(dom')
          /\ Elements(dom') = Elements(dom) \ {oldStart}
          /\ \A a, b : a # oldStart /\ b # oldStart =>
               (Precedes(dom', a, b) <=> Precedes(dom, a, b))
      BY <1>1, <1>3, <1>6, <2>2, WithoutIs
    <3>4. Elements(dom') = Children!Leftover' \cup {elm[j] : j \in DoneNew}
      BY <1>5, <1>6, <3>2, <3>3
    <3> QED
      BY <3>3, <3>4
  <2> QED
    BY <2>1, <2>2
<1>8. /\ oldStart' \in 1 .. Len(oldCh) + 1 /\ oldStart' <= oldEnd' + 1
      /\ phase' \in {"rest", "done"} /\ (phase' = "done" => oldStart' > oldEnd')
  BY <1>1, <1>2, <1>3
<1>9. Children!TypeOK'
  <2>1. Children!Element' = Children!Element /\ Children!None' = Children!None
    BY <1>1 DEF Children!Element, Children!None
  <2> QED
    BY <1>1, <1>3, <1>7, <1>8, <2>1 DEF Children!TypeOK
<1>10. IndexesAgree'
  BY <1>1, <1>3, <1>4, <1>8 DEF IndexesAgree
<1>11. DoneNew' = DoneNew
  BY <1>1 DEF DoneNew
<1>12. ElementsAgree'
  <2>1. Elements(dom') = Children!Leftover' \cup {elm'[j] : j \in DoneNew'}
    BY <1>1, <1>7, <1>11
  <2>2. \A a, b \in Children!Leftover' : a < b => Precedes(dom', a, b)
    BY <1>5, <1>6, <1>7
  <2>3. \A j \in DoneNew' : elm'[j] \notin Children!Leftover' /\ Fits(elm[j], j)'
    BY <1>1, <1>5, <1>6, <1>11 DEF Fits, Children!Created
  <2>4. ~(newStart' <= newEnd')
    BY <1>1, <1>2, <1>4
  <2> QED
    BY <1>7, <2>1, <2>2, <2>3, <2>4 DEF ElementsAgree
<1>13. MapAgrees'
  BY <1>1, <1>5, MapStays DEF MapAgrees, MapIs
<1>14. ASSUME Children!Unique(newCh)' PROVE OrderAgrees' /\ KeysAgree'
  <2>1. OrderAgrees /\ KeysAgree
    BY <1>1, <1>14 DEF ChildrenRight, Children!Unique
  <2>2. OrderAgrees'
    <3>1. \A j \in DoneNew : elm[j] \in Elements(dom')
      BY <1>7
    <3>2. Children!Leftover' \subseteq Elements(dom')
      BY <1>7
    <3> QED
      BY <1>1, <1>5, <1>7, <1>11, <2>1, <3>1, <3>2 DEF OrderAgrees
  <2>3. KeysAgree'
    BY <1>1, <1>11, <2>1 DEF KeysAgree, Children!Unique
  <2> QED
    BY <2>2, <2>3
<1> QED
  BY <1>8, <1>9, <1>10, <1>12, <1>13, <1>14 DEF ChildrenRight

LEMMA ChildrenStep == ChildrenRight /\ [Children!Next]_(Children!vars) => ChildrenRight'
<1> SUFFICES ASSUME ChildrenRight, [Children!Next]_(Children!vars) PROVE ChildrenRight'
  OBVIOUS
<1>1. CASE Children!SkipOldStart \/ Children!SkipOldEnd
  BY <1>1, SkipStep
<1>2. CASE Children!KeepStart
  BY <1>2, KeepStartStep
<1>3. CASE Children!KeepEnd
  BY <1>3, KeepEndStep
<1>4. CASE Children!MoveRight
  BY <1>4, MoveRightStep
<1>5. CASE Children!MoveLeft
  BY <1>5, MoveLeftStep
<1>6. CASE Children!Search
  BY <1>6, SearchStep
<1>7. CASE Children!LeaveLoop
  BY <1>7, LeaveLoopStep
<1>8. CASE Children!addVnodes
  BY <1>8, AddStep, AddedStep
<1>9. CASE Children!removeVnodes
  BY <1>9, RemoveStep
<1>10. CASE UNCHANGED Children!vars
  <2>1. /\ oldCh' = oldCh /\ newCh' = newCh /\ cleared' = cleared
        /\ oldStart' = oldStart /\ oldEnd' = oldEnd /\ newStart' = newStart /\ newEnd' = newEnd
        /\ oldKeyToIdx' = oldKeyToIdx /\ elm' = elm /\ dom' = dom /\ phase' = phase
    BY <1>10 DEF Children!vars, Children!indexes
  <2>2. Children!Leftover' = Children!Leftover /\ MapIs(oldKeyToIdx)
    BY <2>1, MapStays DEF Children!Leftover
  <2>3. IndexesAgree'
    BY <2>1 DEF ChildrenRight, IndexesAgree
  <2> QED
    BY <2>1, <2>2, <2>3, StillStep DEF ChildrenRight, Children!TypeOK
<1> QED
  BY <1>1, <1>2, <1>3, <1>4, <1>5, <1>6, <1>7, <1>8, <1>9, <1>10 DEF Children!Next

LEMMA ChildrenInit == Children!Init => ChildrenRight
<1> SUFFICES ASSUME Children!Init PROVE ChildrenRight
  OBVIOUS
<1>1. /\ cleared = {} /\ oldStart = 1 /\ oldEnd = Len(oldCh)
      /\ newStart = 1 /\ newEnd = Len(newCh) /\ oldKeyToIdx = <<>>
      /\ elm = [j \in DOMAIN newCh |-> Children!None] /\ dom = [i \in DOMAIN oldCh |-> i]
      /\ phase = "loop"
      /\ oldCh \in Children!BoundedSeq(Children!Child, LongList)
      /\ newCh \in Children!BoundedSeq(Children!Child, LongList)
  BY DEF Children!Init
<1>2. /\ oldCh \in Seq(Children!Child) /\ Len(oldCh) <= LongList
      /\ newCh \in Seq(Children!Child) /\ Len(newCh) <= LongList
  <2>1. LongList \in Nat
    BY VueAssumption DEF Children!ChildrenAssumption
  <2>2. ASSUME NEW q \in Children!BoundedSeq(Children!Child, LongList)
        PROVE  q \in Seq(Children!Child) /\ Len(q) <= LongList
    <3>1. PICK n \in 0 .. LongList : q \in [1 .. n -> Children!Child]
      BY DEF Children!BoundedSeq, Children!SeqOf
    <3>2. n \in Nat /\ n <= LongList /\ Len(q) = n
      BY <2>1, <3>1
    <3> QED
      BY <3>1, <3>2
  <2> QED
    BY <1>1, <2>2
<1> DEFINE O == Len(oldCh)
           N == Len(newCh)
<1>3. O \in Nat /\ N \in Nat /\ DOMAIN oldCh = 1 .. O /\ DOMAIN newCh = 1 .. N
  BY <1>2
<1>4. 1 .. O \subseteq Children!Element
  BY <1>3 DEF Children!Element
<1>5. dom = [i \in 1 .. O |-> i] /\ dom \in Seq(Children!Element)
  <2>1. dom = [i \in 1 .. O |-> i]
    BY <1>1, <1>3
  <2> HIDE DEF O
  <2> QED
    BY <1>3, <1>4, <2>1
<1>6. Children!TypeOK
  <2>1. elm \in [DOMAIN newCh -> Children!Element \cup {Children!None}]
    BY <1>1
  <2>2. 1 \in 1 .. O + 1 /\ O \in 0 .. O /\ 1 \in 1 .. N + 1 /\ N \in 0 .. N
    <3> HIDE DEF O, N
    <3> QED
      BY <1>3
  <2>3. \A k \in DOMAIN oldKeyToIdx : k \in Key /\ oldKeyToIdx[k] \in DOMAIN oldCh
    BY <1>1
  <2> QED
    BY <1>1, <1>2, <1>5, <2>1, <2>2, <2>3 DEF Children!TypeOK
<1>7. Children!Leftover = 1 .. O /\ DoneNew = {}
  <2>1. DoneNew = {}
    BY <1>1, <1>3 DEF DoneNew
  <2>2. Children!Leftover = 1 .. O
    BY <1>1 DEF Children!Leftover
  <2> QED
    BY <2>1, <2>2
<1> HIDE DEF O, N
<1>8. IndexesAgree
  BY <1>1, <1>3 DEF IndexesAgree, O, N
<1>9. ElementsAgree
  <2>1. Distinct(dom)
    BY <1>5 DEF Distinct
  <2>2. Elements(dom) = Children!Leftover \cup {elm[j] : j \in DoneNew}
    <3>1. Elements(dom) = 1 .. O
      BY <1>5 DEF Elements
    <3>2. {elm[j] : j \in DoneNew} = {}
      BY <1>7
    <3> QED
      BY <1>7, <3>1, <3>2
  <2>3. \A a, b \in Children!Leftover : a < b => Precedes(dom, a, b)
    BY <1>5, <1>7 DEF Precedes
  <2>4. DOMAIN oldCh \ Children!Leftover = {}
    BY <1>3, <1>7
  <2> QED
    BY <1>7, <2>1, <2>2, <2>3, <2>4 DEF ElementsAgree
<1>10. MapAgrees
  BY <1>1 DEF MapAgrees
<1>11. OrderAgrees /\ KeysAgree
  BY <1>7 DEF OrderAgrees, KeysAgree
<1> QED
  BY <1>1, <1>6, <1>8, <1>9, <1>10, <1>11 DEF ChildrenRight

-----------------------------------------------------------------------------
(* What the invariant says of the document. *)

\* Three lists in a row.
LEMMA RowIs ==
  ASSUME NEW S, NEW p \in Seq(S), NEW q \in Seq(S), NEW r \in Seq(S)
  PROVE  LET t == p \o q \o r
         IN  /\ t \in Seq(S) /\ Len(t) = Len(p) + Len(q) + Len(r)
             /\ \A i \in 1 .. Len(p) : t[i] = p[i]
             /\ \A i \in 1 .. Len(q) : t[Len(p) + i] = q[i]
             /\ \A i \in 1 .. Len(r) : t[Len(p) + Len(q) + i] = r[i]
<1> DEFINE u == p \o q
           t == u \o r
           a == Len(p)
           b == Len(q)
           c == Len(r)
<1>1. a \in Nat /\ b \in Nat /\ c \in Nat
  OBVIOUS
<1>2. /\ u \in Seq(S) /\ Len(u) = a + b
      /\ \A i \in 1 .. a + b : u[i] = IF i <= a THEN p[i] ELSE q[i - a]
  BY ConcatProperties
<1> HIDE DEF u
<1>3. /\ t \in Seq(S) /\ Len(t) = a + b + c
      /\ \A i \in 1 .. a + b + c : t[i] = IF i <= a + b THEN u[i] ELSE r[i - (a + b)]
  <2>0. u \in Seq(S) /\ r \in Seq(S)
    BY <1>2
  <2>1. /\ t \in Seq(S) /\ Len(t) = Len(u) + c
        /\ \A i \in 1 .. Len(u) + c : t[i] = IF i <= Len(u) THEN u[i] ELSE r[i - Len(u)]
    BY <2>0, ConcatProperties
  <2> HIDE DEF t, a, b, c
  <2> QED
    BY <1>2, <2>1
<1> HIDE DEF t, a, b, c
<1>4. ASSUME NEW i \in 1 .. a PROVE t[i] = p[i]
  <2>1. i \in 1 .. a + b /\ i \in 1 .. a + b + c /\ i <= a /\ i <= a + b
    BY <1>1
  <2> QED
    BY <1>2, <1>3, <2>1
<1>5. ASSUME NEW i \in 1 .. b PROVE t[a + i] = q[i]
  <2>1. /\ a + i \in 1 .. a + b /\ a + i \in 1 .. a + b + c
        /\ ~(a + i <= a) /\ a + i <= a + b /\ (a + i) - a = i
    BY <1>1
  <2> QED
    BY <1>2, <1>3, <2>1
<1>6. ASSUME NEW i \in 1 .. c PROVE t[a + b + i] = r[i]
  <2>1. /\ a + b + i \in 1 .. a + b + c /\ ~(a + b + i <= a + b) /\ (a + b + i) - (a + b) = i
    BY <1>1
  <2> QED
    BY <1>3, <2>1
<1>7. t = p \o q \o r
  BY DEF t, u
<1> QED
  BY <1>3, <1>4, <1>5, <1>6, <1>7 DEF a, b, c

\* The middle one of them is cut out.
LEMMA MiddleIs ==
  ASSUME NEW S, NEW p \in Seq(S), NEW q \in Seq(S), NEW r \in Seq(S)
  PROVE  SubSeq(p \o q \o r, Len(p) + 1, Len(p) + Len(q)) = q
<1> DEFINE t == p \o q \o r
           a == Len(p)
           b == Len(q)
           s == SubSeq(t, a + 1, a + b)
<1>1. a \in Nat /\ b \in Nat /\ Len(r) \in Nat
  OBVIOUS
<1>2. /\ t \in Seq(S) /\ Len(t) = a + b + Len(r)
      /\ \A i \in 1 .. b : t[a + i] = q[i]
  BY RowIs
<1>3. q \in [1 .. b -> S]
  OBVIOUS
<1> HIDE DEF t, a, b
<1>4. a + 1 \in Int /\ a + b \in Int /\ \A i \in a + 1 .. a + b : t[i] \in S
  <2>1. \A i \in 1 .. Len(t) : t[i] \in S
    BY <1>2
  <2>2. \A i \in a + 1 .. a + b : i \in 1 .. Len(t)
    BY <1>1, <1>2
  <2> QED
    BY <1>1, <2>1, <2>2
<1>5. /\ s \in Seq(S)
      /\ Len(s) = IF a + 1 <= a + b THEN (a + b) - (a + 1) + 1 ELSE 0
      /\ \A i \in 1 .. (a + b) - (a + 1) + 1 : s[i] = t[(a + 1) + i - 1]
  BY <1>4, SubSeqProperties
<1> HIDE DEF s
<1>6. /\ (a + b) - (a + 1) + 1 = b /\ (~(a + 1 <= a + b) => b = 0)
      /\ \A i \in 1 .. b : (a + 1) + i - 1 = a + i
  BY <1>1
<1>7. Len(s) = b /\ \A i \in 1 .. b : s[i] = q[i]
  BY <1>2, <1>5, <1>6
<1>8. s = q
  <2>1. s \in [1 .. b -> S]
    BY <1>5, <1>7
  <2>2. s = [i \in 1 .. b |-> s[i]] /\ q = [i \in 1 .. b |-> q[i]]
    BY <1>3, <2>1
  <2> QED
    BY <1>7, <2>2
<1> QED
  BY <1>8 DEF s, t, a, b

\* The document is the new children done from the left, the old ones that are left
\* over, and the new ones done from the right.
LEMMA OrderImplies ==
  ASSUME ChildrenRight, Children!Unique(newCh)
  PROVE  Children!DocumentIsInOrder
<1> DEFINE O == Len(oldCh)
           N == Len(newCh)
           k == newStart - 1
           A == SubSeq(elm, 1, k)
           B == SubSeq(elm, newEnd + 1, N)
           E == Children!Element \cup {Children!None}
<1>1. /\ Children!TypeOK /\ IndexesAgree /\ ElementsAgree /\ OrderAgrees
  BY DEF ChildrenRight
<1>2. /\ O \in Nat /\ DOMAIN oldCh = 1 .. O /\ N \in Nat /\ DOMAIN newCh = 1 .. N
      /\ newStart \in Nat /\ newEnd \in Nat /\ Children!Leftover \subseteq DOMAIN oldCh
      /\ newStart <= newEnd + 1 /\ newStart \in 1 .. N + 1 /\ newEnd \in 0 .. N
  BY <1>1, Sizes DEF Children!TypeOK, IndexesAgree
<1>3. elm \in Seq(E) /\ Len(elm) = N /\ dom \in Seq(E)
  <2>1. elm \in [1 .. N -> E] /\ dom \in Seq(Children!Element)
    BY <1>1, <1>2 DEF Children!TypeOK
  <2> HIDE DEF N
  <2>2. elm \in Seq(E) /\ Len(elm) = N
    BY <1>2, <2>1
  <2> QED
    BY <2>1, <2>2
<1>4. /\ Distinct(dom) /\ Elements(dom) = Children!Leftover \cup {elm[j] : j \in DoneNew}
      /\ \A a, b \in Children!Leftover : a < b => Precedes(dom, a, b)
      /\ \A i, j \in DoneNew : i < j => Precedes(dom, elm[i], elm[j])
      /\ \A i \in Children!Leftover : \A j \in DoneNew :
           IF j < newStart THEN Precedes(dom, elm[j], i) ELSE Precedes(dom, i, elm[j])
  BY <1>1 DEF ElementsAgree, OrderAgrees
<1> HIDE DEF O, N, E, k
<1>5. k \in 0 .. N /\ newEnd \in 0 .. N /\ newStart = k + 1 /\ k <= newEnd
  BY <1>2 DEF k
<1>6. A \in Seq(E) /\ Len(A) = k /\ \A i \in 1 .. k : A[i] = elm[i]
  BY <1>3, <1>5, PrefixIs
<1>7. B \in Seq(E) /\ Len(B) = N - newEnd /\ \A i \in 1 .. N - newEnd : B[i] = elm[newEnd + i]
  BY <1>3, <1>5, SuffixIs
<1>8. PICK n \in Nat : \E s \in [1 .. n -> Children!Leftover] :
                         Elements(s) = Children!Leftover /\ Increasing(s)
  BY <1>2, ListExists
<1>9. PICK q \in [1 .. n -> Children!Leftover] : Elements(q) = Children!Leftover /\ Increasing(q)
  BY <1>8
<1>10. q \in Seq(E) /\ Len(q) = n /\ DOMAIN q = 1 .. n
  <2>1. Children!Leftover \subseteq E
    BY <1>2 DEF E, Children!Element, O
  <2> QED
    BY <2>1
<1> HIDE DEF A, B
<1> DEFINE t == A \o q \o B
<1>11. /\ t \in Seq(E) /\ Len(t) = k + n + (N - newEnd)
       /\ \A i \in 1 .. k : t[i] = elm[i]
       /\ \A i \in 1 .. n : t[k + i] = q[i]
       /\ \A i \in 1 .. N - newEnd : t[k + n + i] = elm[newEnd + i]
  <2>0. A \in Seq(E) /\ q \in Seq(E) /\ B \in Seq(E)
    BY <1>6, <1>7, <1>10
  <2>1. /\ t \in Seq(E) /\ Len(t) = Len(A) + Len(q) + Len(B)
        /\ \A i \in 1 .. Len(A) : t[i] = A[i]
        /\ \A i \in 1 .. Len(q) : t[Len(A) + i] = q[i]
        /\ \A i \in 1 .. Len(B) : t[Len(A) + Len(q) + i] = B[i]
    BY <2>0, RowIs
  <2> HIDE DEF t
  <2> QED
    BY <1>6, <1>7, <1>10, <2>1
<1> HIDE DEF t
<1>12. DOMAIN t = 1 .. k + n + (N - newEnd)
  BY <1>11
<1>13. ASSUME NEW i \in DOMAIN t
       PROVE  \/ i \in 1 .. k /\ i \in DoneNew /\ i < newStart /\ t[i] = elm[i]
              \/ \E h \in 1 .. n : i = k + h /\ t[i] = q[h] /\ t[i] \in Children!Leftover
              \/ \E h \in 1 .. N - newEnd :
                   /\ i = k + n + h /\ newEnd + h \in DoneNew /\ ~(newEnd + h < newStart)
                   /\ t[i] = elm[newEnd + h]
  <2>1. i \in 1 .. k + n + (N - newEnd)
    BY <1>12
  <2>2. CASE i <= k
    <3>1. i \in 1 .. k /\ i \in DoneNew /\ i < newStart
      BY <1>2, <1>5, <2>1, <2>2 DEF DoneNew
    <3> QED
      BY <1>11, <3>1
  <2>3. CASE k < i /\ i <= k + n
    <3>1. i - k \in 1 .. n /\ i = k + (i - k)
      BY <1>5, <2>1, <2>3
    <3> QED
      BY <1>11, <3>1
  <2>4. CASE k + n < i
    <3> DEFINE h == i - (k + n)
    <3>1. h \in 1 .. N - newEnd /\ i = k + n + h /\ newEnd + h \in 1 .. N /\ h >= 1
      BY <1>2, <1>5, <2>1, <2>4
    <3> HIDE DEF h
    <3>2. newEnd + h \in DoneNew /\ ~(newEnd + h < newStart)
      BY <1>2, <3>1 DEF DoneNew
    <3> QED
      BY <1>11, <3>1, <3>2
  <2> QED
    BY <1>2, <1>5, <2>1, <2>2, <2>3, <2>4
<1>14. Elements(t) = Elements(dom)
  <2>1. ASSUME NEW i \in DOMAIN t PROVE t[i] \in Elements(dom)
    BY <1>4, <1>13
  <2>2. ASSUME NEW x \in Children!Leftover PROVE x \in Elements(t)
    <3>1. PICK h \in 1 .. n : q[h] = x
      BY <1>9, <1>10 DEF Elements
    <3>2. k + h \in DOMAIN t
      BY <1>2, <1>5, <1>12
    <3> QED
      BY <1>11, <3>1, <3>2 DEF Elements
  <2>3. ASSUME NEW j \in DoneNew PROVE elm[j] \in Elements(t)
    <3>1. CASE j < newStart
      <4>1. j \in 1 .. k /\ j \in DOMAIN t
        BY <1>2, <1>5, <1>12, <3>1 DEF DoneNew
      <4> QED
        BY <1>11, <4>1 DEF Elements
    <3>2. CASE ~(j < newStart)
      <4> DEFINE h == j - newEnd
      <4>1. h \in 1 .. N - newEnd /\ j = newEnd + h
        BY <1>2, <3>2 DEF DoneNew
      <4> HIDE DEF h
      <4>2. k + n + h \in DOMAIN t
        BY <1>2, <1>5, <1>12, <4>1
      <4> QED
        BY <1>11, <4>1, <4>2 DEF Elements
    <3> QED
      BY <3>1, <3>2
  <2>4. \A x : x \in Elements(t) => x \in Elements(dom)
    BY <2>1 DEF Elements
  <2>5. \A x : x \in Elements(dom) => x \in Elements(t)
    BY <1>4, <2>2, <2>3
  <2> QED
    BY <2>4, <2>5
<1>15. ASSUME NEW x \in DOMAIN t, NEW y \in DOMAIN t, x < y
       PROVE  Precedes(dom, t[x], t[y])
  <2>0. x \in Nat /\ y \in Nat /\ newEnd \in Nat /\ k \in Nat
    BY <1>2, <1>5, <1>12
  <2>1. CASE x \in 1 .. k /\ x \in DoneNew /\ x < newStart /\ t[x] = elm[x]
    <3>1. CASE y \in DoneNew /\ t[y] = elm[y]
      BY <1>4, <1>15, <2>1, <3>1
    <3>2. CASE t[y] \in Children!Leftover
      BY <1>4, <2>1, <3>2
    <3>3. CASE \E h \in 1 .. N - newEnd : newEnd + h \in DoneNew /\ t[y] = elm[newEnd + h]
      <4>1. PICK h \in 1 .. N - newEnd : newEnd + h \in DoneNew /\ t[y] = elm[newEnd + h]
        BY <3>3
      <4>2. x < newEnd + h
        BY <1>2, <1>5, <2>0, <2>1, <4>1
      <4> QED
        BY <1>4, <2>1, <4>1, <4>2
    <3> QED
      BY <1>13, <3>1, <3>2, <3>3
  <2>2. CASE \E h \in 1 .. n : x = k + h /\ t[x] = q[h] /\ t[x] \in Children!Leftover
    <3>0. PICK h \in 1 .. n : x = k + h /\ t[x] = q[h] /\ t[x] \in Children!Leftover
      BY <2>2
    <3>1. ~(y \in 1 .. k)
      BY <1>15, <2>0, <3>0
    <3>2. CASE \E g \in 1 .. n : y = k + g /\ t[y] = q[g] /\ t[y] \in Children!Leftover
      <4>1. PICK g \in 1 .. n : y = k + g /\ t[y] = q[g] /\ t[y] \in Children!Leftover
        BY <3>2
      <4>2. h < g
        BY <1>15, <2>0, <3>0, <4>1
      <4>3. q[h] < q[g]
        BY <1>9, <1>10, <4>2 DEF Increasing
      <4> QED
        BY <1>4, <3>0, <4>1, <4>3
    <3>3. CASE \E g \in 1 .. N - newEnd :
                 newEnd + g \in DoneNew /\ ~(newEnd + g < newStart) /\ t[y] = elm[newEnd + g]
      BY <1>4, <3>0, <3>3
    <3> QED
      BY <1>13, <3>1, <3>2, <3>3
  <2>3. CASE \E h \in 1 .. N - newEnd :
               x = k + n + h /\ newEnd + h \in DoneNew /\ t[x] = elm[newEnd + h]
    <3>0. PICK h \in 1 .. N - newEnd :
            x = k + n + h /\ newEnd + h \in DoneNew /\ t[x] = elm[newEnd + h]
      BY <2>3
    <3>1. h \in Nat /\ h >= 1 /\ ~(y \in 1 .. k) /\ ~(\E g \in 1 .. n : y = k + g)
      BY <1>2, <1>15, <2>0, <3>0
    <3>2. PICK g \in 1 .. N - newEnd :
            y = k + n + g /\ newEnd + g \in DoneNew /\ t[y] = elm[newEnd + g]
      BY <1>13, <3>1
    <3>3. newEnd + h < newEnd + g
      BY <1>15, <2>0, <3>0, <3>2
    <3> QED
      BY <1>4, <3>0, <3>2, <3>3
  <2> QED
    BY <1>13, <2>1, <2>2, <2>3
<1>16. dom = t
  BY <1>3, <1>4, <1>11, <1>14, <1>15, SameOrder
<1>17. Children!Between = q
  <2>1. Len(dom) - (N - newEnd) = Len(A) + Len(q) /\ newStart = Len(A) + 1
    <3>1. Len(dom) = k + n + (N - newEnd)
      BY <1>11, <1>16
    <3>2. (k + n + (N - newEnd)) - (N - newEnd) = k + n
      BY <1>2, <1>5
    <3> QED
      BY <1>5, <1>6, <1>10, <3>1, <3>2
  <2>2. SubSeq(t, Len(A) + 1, Len(A) + Len(q)) = q
    BY <1>6, <1>7, <1>10, MiddleIs DEF t
  <2> QED
    BY <1>16, <2>1, <2>2 DEF Children!Between, N
<1>18. Children!ToSet(Children!Between) = Children!Leftover
  BY <1>9, <1>17 DEF Children!ToSet, Elements
<1>19. \A i, j \in DOMAIN Children!Between :
         i < j => Children!Between[i] < Children!Between[j]
  BY <1>9, <1>17 DEF Increasing
<1>20. phase = "done" => dom = elm
  <2> SUFFICES ASSUME phase = "done" PROVE dom = elm
    OBVIOUS
  <2>1. newStart > newEnd /\ oldStart > oldEnd
    BY <1>1 DEF IndexesAgree
  <2>2. Children!Leftover = {}
    <3>1. oldStart \in Nat /\ oldEnd \in Nat
      BY <1>1, Sizes
    <3>2. oldStart .. oldEnd = {}
      BY <2>1, <3>1
    <3> QED
      BY <3>2 DEF Children!Leftover
  <2>3. DoneNew = 1 .. N
    <3>1. newStart .. newEnd = {}
      BY <1>2, <2>1
    <3> QED
      BY <1>2, <3>1 DEF DoneNew
  <2>4. DOMAIN elm = 1 .. N
    BY <1>3
  <2>5. Elements(dom) = Elements(elm)
    BY <1>4, <2>2, <2>3, <2>4 DEF Elements
  <2>6. \A i, j \in DOMAIN elm : i < j => Precedes(dom, elm[i], elm[j])
    BY <1>4, <2>3, <2>4
  <2> QED
    BY <1>3, <1>4, <2>5, <2>6, SameOrder
<1>21. dom = SubSeq(elm, 1, newStart - 1) \o Children!Between \o SubSeq(elm, newEnd + 1, Len(newCh))
  BY <1>16, <1>17 DEF t, A, B, k, N
<1> QED
  BY <1>18, <1>19, <1>20, <1>21 DEF Children!DocumentIsInOrder

\* Elements stay with their keys, and serve one child only.
LEMMA KeysImply ==
  ASSUME ChildrenRight, Children!Unique(newCh), phase = "done"
  PROVE  Children!KeysKeepElements
<1>1. /\ Children!TypeOK /\ IndexesAgree /\ ElementsAgree /\ OrderAgrees /\ KeysAgree
      /\ dom \in Seq(Children!Element) /\ Distinct(dom)
      /\ elm \in [DOMAIN newCh -> Children!Element \cup {Children!None}]
  BY DEF ChildrenRight, Children!TypeOK, ElementsAgree
<1>2. /\ Len(oldCh) \in Nat /\ DOMAIN oldCh = 1 .. Len(oldCh)
      /\ Len(newCh) \in Nat /\ DOMAIN newCh = 1 .. Len(newCh)
      /\ newStart \in Nat /\ newEnd \in Nat
      /\ \A j \in DOMAIN newCh : Children!Created(j) = Len(oldCh) + j
  BY <1>1, Sizes
<1>3. DoneNew = DOMAIN newCh
  <2>1. newStart > newEnd
    BY <1>1 DEF IndexesAgree
  <2>2. newStart .. newEnd = {}
    BY <1>2, <2>1
  <2> QED
    BY <2>2 DEF DoneNew
<1>4. ASSUME NEW j \in DOMAIN newCh
      PROVE  /\ elm[j] <= Len(oldCh) => elm[j] \in DOMAIN oldCh
             /\ elm[j] \in DOMAIN oldCh => oldCh[elm[j]] = newCh[j]
  <2>1. Fits(elm[j], j)
    BY <1>1, <1>3 DEF ElementsAgree
  <2>2. ~(Children!Created(j) <= Len(oldCh))
    BY <1>2
  <2>3. elm[j] <= Len(oldCh) => elm[j] \in DOMAIN oldCh
    BY <2>1, <2>2 DEF Fits
  <2> QED
    BY <1>1, <1>3, <2>3, DoneElements
<1>5. ASSUME NEW j \in DOMAIN newCh, newCh[j].key # NoKey, Children!Unique(oldCh),
             NEW i \in DOMAIN oldCh
      PROVE  elm[j] = i <=> oldCh[i] = newCh[j]
  BY <1>1, <1>3, <1>4, <1>5 DEF KeysAgree
<1>6. Children!IsInjective(elm)
  <2>1. \A a, b : Precedes(dom, a, b) => a # b
    BY <1>1, OrderIs
  <2>2. \A i, j \in DOMAIN newCh : i < j => elm[i] # elm[j]
    BY <1>1, <1>3, <2>1 DEF OrderAgrees
  <2>3. \A i, j \in DOMAIN newCh : i = j \/ i < j \/ j < i
    BY <1>2
  <2>4. DOMAIN elm = DOMAIN newCh
    BY <1>1
  <2> QED
    BY <2>2, <2>3, <2>4 DEF Children!IsInjective
<1> QED
  BY <1>4, <1>5, <1>6 DEF Children!KeysKeepElements

LEMMA ChildrenImply ==
  ASSUME ChildrenRight
  PROVE  /\ Children!TypeOK /\ Children!DocumentIsInOrder
         /\ Children!KeysKeepElements /\ Children!ThrowNeedsDuplicates
<1>1. Children!DocumentIsInOrder
  BY OrderImplies DEF Children!DocumentIsInOrder
<1>2. Children!KeysKeepElements
  BY KeysImply DEF Children!KeysKeepElements
<1>3. Children!TypeOK /\ Children!ThrowNeedsDuplicates
  BY DEF ChildrenRight, Children!ThrowNeedsDuplicates
<1> QED
  BY <1>1, <1>2, <1>3

\* updateChildren by itself: for old and new children of any number, keys and kinds, the
\* document is in order at every round and has the new children at the end; those
\* with the same key and kind keep their element, and the TypeError takes two new
\* children with one key.
THEOREM ChildrenAreAlwaysRight ==
  Children!SafetySpec =>
    [](/\ Children!TypeOK /\ Children!DocumentIsInOrder
       /\ Children!KeysKeepElements /\ Children!ThrowNeedsDuplicates)
BY ChildrenInit, ChildrenStep, ChildrenImply, PTL DEF Children!SafetySpec

\* ChildrenAreRight: the same of the modules that TLC runs together.
THEOREM ChildrenStayRight == Spec => []ChildrenAreRight
<1>1. Init => ChildrenRight
  BY ChildrenInit DEF Init
<1>2. [Next]_vars => [Children!Next]_(Children!vars)
  <2> SUFFICES ASSUME [Next]_vars PROVE [Children!Next]_(Children!vars)
    OBVIOUS
  <2>1. UNCHANGED childVars => UNCHANGED Children!vars
    BY DEF childVars, Children!vars, Children!indexes
  <2> QED
    BY <2>1 DEF Next, vars
<1>3. ChildrenRight => ChildrenAreRight
  BY ChildrenImply DEF ChildrenAreRight
<1> QED
  BY <1>1, <1>2, <1>3, ChildrenStep, PTL DEF Spec
=============================================================================
