--------------------------- MODULE AmLStackProofs ---------------------------
(***************************************************************************)
(* Theorems of AmLStack, for any finite sets of threads and nodes and any  *)
(* width of the size counter that the nodes fit in.                        *)
(***************************************************************************)
EXTENDS AmLStack, Basics

-----------------------------------------------------------------------------
LEMMA ModulusPositive == SizeModulus \in Nat \ {0}
<1>1. Cardinality(Nodes) \in Nat
  BY FiniteAssumption, FS_CardinalityType
<1> QED
  BY <1>1, ModulusAssumption

(* amsync_inc and amsync_dec keep stk->size in its range.                   *)
LEMMA SizeWraps ==
  ASSUME NEW n \in Nat
  PROVE  (n + 1) % SizeModulus \in 0 .. SizeModulus - 1
         /\ (n - 1) % SizeModulus \in 0 .. SizeModulus - 1
<1>1. SizeModulus \in Nat \ {0}
  BY ModulusPositive
<1>2. n + 1 \in Int /\ n - 1 \in Int
  OBVIOUS
<1> QED
  BY <1>1, <1>2, Quotient

-----------------------------------------------------------------------------
(* What the history variable `order' is after a push and after a pop.       *)
LEMMA OrderGrows ==
  ASSUME NEW s \in Seq(Nodes), NEW n \in Nodes
  PROVE  /\ Append(s, n) \in Seq(Nodes)
         /\ Len(Append(s, n)) = Len(s) + 1
         /\ \A i \in 1 .. Len(s) : Append(s, n)[i] = s[i]
         /\ Append(s, n)[Len(s) + 1] = n
BY AppendProperties

LEMMA OrderShrinks ==
  ASSUME NEW s \in Seq(Nodes)
  PROVE  /\ SubSeq(s, 1, Len(s) - 1) \in Seq(Nodes)
         /\ Len(s) > 0 =>
              /\ Len(SubSeq(s, 1, Len(s) - 1)) = Len(s) - 1
              /\ \A i \in 1 .. Len(s) - 1 : SubSeq(s, 1, Len(s) - 1)[i] = s[i]
<1>1. Len(s) \in Nat /\ \A i \in 1 .. Len(s) - 1 : s[i] \in Nodes
  BY LenProperties, ElementOfSeq
<1> DEFINE n == Len(s) - 1
<1>2. n \in Int /\ (Len(s) > 0 => n >= 0) /\ \A i \in 1 .. n : s[i] \in Nodes
  BY <1>1
<1> HIDE DEF n
<1>3. /\ SubSeq(s, 1, n) \in Seq(Nodes)
      /\ Len(SubSeq(s, 1, n)) = IF 1 <= n THEN n - 1 + 1 ELSE 0
      /\ \A i \in 1 .. n - 1 + 1 : SubSeq(s, 1, n)[i] = s[1 + i - 1]
  BY <1>2, SubSeqProperties
<1>4. Len(s) > 0 => Len(SubSeq(s, 1, n)) = n
  BY <1>2, <1>3
<1>5. \A i \in 1 .. n : SubSeq(s, 1, n)[i] = s[i]
  BY <1>2, <1>3
<1> QED
  BY <1>3, <1>4, <1>5 DEF n

LEMMA EmptyOrder == \A s \in Seq(Nodes) : Len(s) \in Nat /\ (s = <<>> <=> Len(s) = 0)
BY EmptySeq, LenProperties

-----------------------------------------------------------------------------
(* Every variable keeps its type, and amlstack_pop never follows the next   *)
(* pointer of a null pointer (libam_lstack.c:56).                           *)
THEOREM TypeCorrect == Spec => []TypeOK
<1>1. Init => TypeOK
  BY ModulusPositive, EmptySeq DEF Init, TypeOK
<1>2. TypeOK /\ [Next]_vars => TypeOK'
  <2> SUFFICES ASSUME TypeOK, [Next]_vars PROVE TypeOK'
    OBVIOUS
  <2> USE NullAssumption DEF TypeOK, Goto
  <2>1. CASE UNCHANGED vars
    BY <2>1 DEF vars
  <2>2. ASSUME NEW t \in Threads, PushCall(t) PROVE TypeOK'
    BY <2>2 DEF PushCall
  <2>3. ASSUME NEW t \in Threads, PushLoad(t) PROVE TypeOK'
    BY <2>3 DEF PushLoad
  <2>4. ASSUME NEW t \in Threads, PushSwap(t) PROVE TypeOK'
    BY <2>4, OrderGrows DEF PushSwap
  <2>5. ASSUME NEW t \in Threads, PushRetry(t) PROVE TypeOK'
    BY <2>5 DEF PushRetry
  <2>6. ASSUME NEW t \in Threads, PushCount(t) PROVE TypeOK'
    BY <2>6, SizeWraps DEF PushCount
  <2>7. ASSUME NEW t \in Threads, PopCall(t) PROVE TypeOK'
    BY <2>7 DEF PopCall
  <2>8. ASSUME NEW t \in Threads, PopLock(t) PROVE TypeOK'
    BY <2>8 DEF PopLock
  <2>9. ASSUME NEW t \in Threads, PopHead(t) PROVE TypeOK'
    BY <2>9 DEF PopHead
  <2>10. ASSUME NEW t \in Threads, PopNext(t) PROVE TypeOK'
    BY <2>10 DEF PopNext
  <2>11. ASSUME NEW t \in Threads, PopSwap(t) PROVE TypeOK'
    BY <2>11, OrderShrinks DEF PopSwap
  <2>12. ASSUME NEW t \in Threads, PopRetry(t) PROVE TypeOK'
    BY <2>12 DEF PopRetry
  <2>13. ASSUME NEW t \in Threads, PopCount(t) PROVE TypeOK'
    BY <2>13, SizeWraps DEF PopCount
  <2>14. ASSUME NEW t \in Threads, PopUnlock(t) PROVE TypeOK'
    BY <2>14 DEF PopUnlock
  <2> QED
    BY <2>1, <2>2, <2>3, <2>4, <2>5, <2>6, <2>7, <2>8, <2>9,
       <2>10, <2>11, <2>12, <2>13, <2>14 DEF Next, PushStep, PopStep
<1> QED
  BY <1>1, <1>2, PTL DEF Spec

-----------------------------------------------------------------------------
(* The inductive invariant of the chain.                                    *)

InPop == {"popHead", "popNext", "popSwap", "popCount", "popUnlock"}

\* The consumer lock is held by the one thread that is inside it.
OnePops ==
    /\ \A t \in Threads : pc[t] \in InPop => lock = 1
    /\ \A t, u \in Threads : pc[t] \in InPop /\ pc[u] \in InPop => t = u

PoppedBy(t) == pc[t] \in {"popCount", "popUnlock"} /\ seen[t] # NULL

\* A node is in the hands of a caller, of one push, of one pop or in the stack,
\* and in one of these places only.
Apart ==
    /\ \A t \in Threads : node[t] # NULL =>
        /\ pc[t] \in {"push", "pushSwap"}
        /\ node[t] \notin outside
        /\ \A i \in 1 .. Len(order) : order[i] # node[t]
        /\ \A u \in Threads : node[u] = node[t] => u = t
    /\ \A i \in 1 .. Len(order) : order[i] \notin outside
    /\ \A t \in Threads : PoppedBy(t) =>
        /\ seen[t] \notin outside
        /\ \A i \in 1 .. Len(order) : order[i] # seen[t]
        /\ \A u \in Threads : node[u] # seen[t]

\* A push has linked its node to the head it read; what a pop has read as the
\* head is still in the stack, for it alone pops, with the next it read.
Locals == \A t \in Threads :
    /\ pc[t] = "pushSwap" => next[node[t]] = seen[t]
    /\ pc[t] \in {"popNext", "popSwap"} => \E i \in 1 .. Len(order) : order[i] = seen[t]
    /\ pc[t] = "popSwap" => after[t] = next[seen[t]]

ChainInvariant == OnePops /\ Apart /\ Locals /\ ChainIsStack

LEMMA OnePopsStep == ASSUME TypeOK, ChainInvariant, [Next]_vars PROVE OnePops'
  <2> USE DEF TypeOK, ChainInvariant, OnePops, InPop, Goto
  <2>1. CASE UNCHANGED vars
    BY <2>1 DEF vars
  <2>2. ASSUME NEW t \in Threads, PushCall(t) PROVE OnePops'
    BY <2>2 DEF PushCall
  <2>3. ASSUME NEW t \in Threads, PushLoad(t) PROVE OnePops'
    BY <2>3 DEF PushLoad
  <2>4. ASSUME NEW t \in Threads, PushSwap(t) PROVE OnePops'
    BY <2>4 DEF PushSwap
  <2>5. ASSUME NEW t \in Threads, PushRetry(t) PROVE OnePops'
    BY <2>5 DEF PushRetry
  <2>6. ASSUME NEW t \in Threads, PushCount(t) PROVE OnePops'
    BY <2>6 DEF PushCount
  <2>7. ASSUME NEW t \in Threads, PopCall(t) PROVE OnePops'
    BY <2>7 DEF PopCall
  <2>8. ASSUME NEW t \in Threads, PopLock(t) PROVE OnePops'
    BY <2>8 DEF PopLock
  <2>9. ASSUME NEW t \in Threads, PopHead(t) PROVE OnePops'
    BY <2>9 DEF PopHead
  <2>10. ASSUME NEW t \in Threads, PopNext(t) PROVE OnePops'
    BY <2>10 DEF PopNext
  <2>11. ASSUME NEW t \in Threads, PopSwap(t) PROVE OnePops'
    BY <2>11 DEF PopSwap
  <2>12. ASSUME NEW t \in Threads, PopRetry(t) PROVE OnePops'
    BY <2>12 DEF PopRetry
  <2>13. ASSUME NEW t \in Threads, PopCount(t) PROVE OnePops'
    BY <2>13 DEF PopCount
  <2>14. ASSUME NEW t \in Threads, PopUnlock(t) PROVE OnePops'
    BY <2>14 DEF PopUnlock
  <2> QED
    BY <2>1, <2>2, <2>3, <2>4, <2>5, <2>6, <2>7, <2>8, <2>9,
       <2>10, <2>11, <2>12, <2>13, <2>14 DEF Next, PushStep, PopStep

(* The node a pop takes out of the stack is its own: the last of `order'.   *)
LEMMA PopTakesLast ==
  ASSUME TypeOK, ChainInvariant, NEW t \in Threads, PopSwap(t)
  PROVE  /\ Len(order) \in Nat /\ Len(order) > 0
         /\ seen[t] = order[Len(order)]
<1>1. Len(order) \in Nat
  BY EmptyOrder DEF TypeOK
<1>2. PICK i \in 1 .. Len(order) : order[i] = seen[t]
  BY DEF PopSwap, ChainInvariant, Locals
<1>3. Len(order) > 0 /\ order # <<>>
  BY <1>1, <1>2, EmptyOrder DEF TypeOK
<1> QED
  BY <1>1, <1>3 DEF PopSwap, ChainInvariant, ChainIsStack

LEMMA ApartStep == ASSUME TypeOK, ChainInvariant, [Next]_vars PROVE Apart'
  <2> USE NullAssumption DEF TypeOK, ChainInvariant, Apart, OnePops, InPop, PoppedBy, Goto
  <2>1. CASE UNCHANGED vars
    BY <2>1 DEF vars
  <2>2. ASSUME NEW t \in Threads, PushCall(t) PROVE Apart'
    BY <2>2 DEF PushCall
  <2>3. ASSUME NEW t \in Threads, PushLoad(t) PROVE Apart'
    BY <2>3 DEF PushLoad
  <2>4. ASSUME NEW t \in Threads, PushSwap(t) PROVE Apart'
    <3>1. /\ Len(order) \in Nat /\ Len(order') = Len(order) + 1
          /\ \A i \in 1 .. Len(order) : order'[i] = order[i]
          /\ order'[Len(order) + 1] = node[t]
      BY <2>4, EmptyOrder, OrderGrows DEF PushSwap
    <3>2. \A i \in 1 .. Len(order') :
             order'[i] = node[t] \/ \E j \in 1 .. Len(order) : order'[i] = order[j]
      BY <3>1
    <3> QED
      BY <2>4, <3>2 DEF PushSwap
  <2>5. ASSUME NEW t \in Threads, PushRetry(t) PROVE Apart'
    BY <2>5 DEF PushRetry
  <2>6. ASSUME NEW t \in Threads, PushCount(t) PROVE Apart'
    BY <2>6 DEF PushCount
  <2>7. ASSUME NEW t \in Threads, PopCall(t) PROVE Apart'
    BY <2>7 DEF PopCall
  <2>8. ASSUME NEW t \in Threads, PopLock(t) PROVE Apart'
    BY <2>8 DEF PopLock
  <2>9. ASSUME NEW t \in Threads, PopHead(t) PROVE Apart'
    BY <2>9 DEF PopHead
  <2>10. ASSUME NEW t \in Threads, PopNext(t) PROVE Apart'
    BY <2>10 DEF PopNext
  <2>11. ASSUME NEW t \in Threads, PopSwap(t) PROVE Apart'
    <3>1. /\ Len(order) \in Nat /\ Len(order) > 0
          /\ seen[t] = order[Len(order)]
      BY <2>11, PopTakesLast
    <3>2. /\ Len(order') = Len(order) - 1
          /\ \A i \in 1 .. Len(order) - 1 : order'[i] = order[i]
      BY <2>11, <3>1, OrderShrinks DEF PopSwap
    <3>3. \A i \in 1 .. Len(order') :
             order'[i] # seen[t] /\ \E j \in 1 .. Len(order) : order'[i] = order[j]
      BY <3>1, <3>2 DEF ChainIsStack
    <3>4. seen[t] \notin outside /\ \A u \in Threads : node[u] # seen[t]
      BY <3>1
    <3>5. \A u \in Threads : PoppedBy(u)' => u = t
      BY <2>11 DEF PopSwap
    <3>6. \A i \in 1 .. Len(order') : order'[i] \notin outside
                                     /\ \A u \in Threads : node[u] # NULL => order'[i] # node[u]
      <4> SUFFICES ASSUME NEW i \in 1 .. Len(order')
                   PROVE  /\ order'[i] \notin outside
                          /\ \A u \in Threads : node[u] # NULL => order'[i] # node[u]
        OBVIOUS
      <4>1. PICK j \in 1 .. Len(order) : order'[i] = order[j]
        BY <3>3
      <4> QED
        BY <4>1
    <3>7. UNCHANGED <<node, seen, outside>> /\ \A u \in Threads : u # t => pc'[u] = pc[u]
      BY <2>11 DEF PopSwap
    <3>8. pc[t] = "popSwap" /\ node[t] = NULL
      BY <2>11 DEF PopSwap
    <3> QED
      BY <3>3, <3>4, <3>5, <3>6, <3>7, <3>8
  <2>12. ASSUME NEW t \in Threads, PopRetry(t) PROVE Apart'
    BY <2>12 DEF PopRetry
  <2>13. ASSUME NEW t \in Threads, PopCount(t) PROVE Apart'
    BY <2>13 DEF PopCount
  <2>14. ASSUME NEW t \in Threads, PopUnlock(t) PROVE Apart'
    BY <2>14 DEF PopUnlock
  <2> QED
    BY <2>1, <2>2, <2>3, <2>4, <2>5, <2>6, <2>7, <2>8, <2>9,
       <2>10, <2>11, <2>12, <2>13, <2>14 DEF Next, PushStep, PopStep

LEMMA LocalsStep == ASSUME TypeOK, ChainInvariant, [Next]_vars PROVE Locals'
  <2> USE NullAssumption DEF TypeOK, ChainInvariant, Locals, Apart, OnePops, InPop, PoppedBy, Goto
  <2>1. CASE UNCHANGED vars
    BY <2>1 DEF vars
  <2>2. ASSUME NEW t \in Threads, PushCall(t) PROVE Locals'
    BY <2>2 DEF PushCall
  <2>3. ASSUME NEW t \in Threads, PushLoad(t) PROVE Locals'
    BY <2>3 DEF PushLoad
  <2>4. ASSUME NEW t \in Threads, PushSwap(t) PROVE Locals'
    <3>1. /\ Len(order) \in Nat /\ Len(order') = Len(order) + 1
          /\ \A i \in 1 .. Len(order) : order'[i] = order[i]
      BY <2>4, EmptyOrder, OrderGrows DEF PushSwap
    <3>2. \A i \in 1 .. Len(order) : i \in 1 .. Len(order') /\ order'[i] = order[i]
      BY <3>1
    <3> QED
      BY <2>4, <3>2 DEF PushSwap
  <2>5. ASSUME NEW t \in Threads, PushRetry(t) PROVE Locals'
    BY <2>5 DEF PushRetry
  <2>6. ASSUME NEW t \in Threads, PushCount(t) PROVE Locals'
    BY <2>6 DEF PushCount
  <2>7. ASSUME NEW t \in Threads, PopCall(t) PROVE Locals'
    BY <2>7 DEF PopCall
  <2>8. ASSUME NEW t \in Threads, PopLock(t) PROVE Locals'
    BY <2>8 DEF PopLock
  <2>9. ASSUME NEW t \in Threads, PopHead(t) PROVE Locals'
    <3>1. head # NULL => \E i \in 1 .. Len(order) : order[i] = head
      BY EmptyOrder DEF ChainIsStack
    <3> QED
      BY <2>9, <3>1 DEF PopHead
  <2>10. ASSUME NEW t \in Threads, PopNext(t) PROVE Locals'
    BY <2>10 DEF PopNext
  <2>11. ASSUME NEW t \in Threads, PopSwap(t) PROVE Locals'
    <3>1. \A u \in Threads : node[u] # seen[t] \/ pc[u] # "pushSwap"
      BY <2>11, PopTakesLast DEF PopSwap
    <3> QED
      BY <2>11, <3>1 DEF PopSwap
  <2>12. ASSUME NEW t \in Threads, PopRetry(t) PROVE Locals'
    BY <2>12 DEF PopRetry
  <2>13. ASSUME NEW t \in Threads, PopCount(t) PROVE Locals'
    BY <2>13 DEF PopCount
  <2>14. ASSUME NEW t \in Threads, PopUnlock(t) PROVE Locals'
    BY <2>14 DEF PopUnlock
  <2> QED
    BY <2>1, <2>2, <2>3, <2>4, <2>5, <2>6, <2>7, <2>8, <2>9,
       <2>10, <2>11, <2>12, <2>13, <2>14 DEF Next, PushStep, PopStep

LEMMA ChainStep == ASSUME TypeOK, ChainInvariant, [Next]_vars PROVE ChainIsStack'
  <2> USE NullAssumption DEF TypeOK, ChainInvariant, ChainIsStack, Goto
  <2>1. CASE UNCHANGED vars
    BY <2>1 DEF vars
  <2>2. ASSUME NEW t \in Threads, PushCall(t) PROVE ChainIsStack'
    BY <2>2 DEF PushCall
  <2>3. ASSUME NEW t \in Threads, PushLoad(t) PROVE ChainIsStack'
    BY <2>3 DEF PushLoad, Apart
  <2>4. ASSUME NEW t \in Threads, PushSwap(t) PROVE ChainIsStack'
    <3>1. /\ Len(order) \in Nat /\ Len(order') = Len(order) + 1 /\ order' \in Seq(Nodes)
          /\ \A i \in 1 .. Len(order) : order'[i] = order[i]
          /\ order'[Len(order) + 1] = node[t]
      BY <2>4, EmptyOrder, OrderGrows DEF PushSwap
    <3>2. order' # <<>>
      BY <3>1, EmptyOrder
    <3>3. head' = IF order' = <<>> THEN NULL ELSE order'[Len(order')]
      BY <2>4, <3>1, <3>2 DEF PushSwap
    <3>4. next[node[t]] = IF Len(order) = 0 THEN NULL ELSE order[Len(order)]
      BY <2>4, EmptyOrder DEF PushSwap, Locals
    <3>5. \A i \in 1 .. Len(order') :
             next'[order'[i]] = IF i = 1 THEN NULL ELSE order'[i - 1]
      <4> SUFFICES ASSUME NEW i \in 1 .. Len(order')
                   PROVE  next[order'[i]] = IF i = 1 THEN NULL ELSE order'[i - 1]
        BY <2>4 DEF PushSwap
      <4>1. CASE i \in 1 .. Len(order)
        <5>1. next[order[i]] = IF i = 1 THEN NULL ELSE order[i - 1]
          BY <4>1
        <5>2. i # 1 => i - 1 \in 1 .. Len(order)
          BY <3>1, <4>1
        <5> QED
          BY <3>1, <4>1, <5>1, <5>2
      <4>2. CASE i = Len(order) + 1
        BY <3>1, <3>4, <4>2
      <4> QED
        BY <3>1, <4>1, <4>2
    <3>6. \A i, j \in 1 .. Len(order') : order'[i] = order'[j] => i = j
      <4>1. \A i \in 1 .. Len(order) : order[i] # node[t]
        BY <2>4 DEF PushSwap, Apart
      <4>2. \A i, j \in 1 .. Len(order) : order[i] = order[j] => i = j
        OBVIOUS
      <4>3. \A i \in 1 .. Len(order') : i \in 1 .. Len(order) \/ i = Len(order) + 1
        BY <3>1
      <4> QED
        BY <3>1, <4>1, <4>2, <4>3
    <3> QED
      BY <3>3, <3>5, <3>6
  <2>5. ASSUME NEW t \in Threads, PushRetry(t) PROVE ChainIsStack'
    BY <2>5 DEF PushRetry
  <2>6. ASSUME NEW t \in Threads, PushCount(t) PROVE ChainIsStack'
    BY <2>6 DEF PushCount
  <2>7. ASSUME NEW t \in Threads, PopCall(t) PROVE ChainIsStack'
    BY <2>7 DEF PopCall
  <2>8. ASSUME NEW t \in Threads, PopLock(t) PROVE ChainIsStack'
    BY <2>8 DEF PopLock
  <2>9. ASSUME NEW t \in Threads, PopHead(t) PROVE ChainIsStack'
    BY <2>9 DEF PopHead
  <2>10. ASSUME NEW t \in Threads, PopNext(t) PROVE ChainIsStack'
    BY <2>10 DEF PopNext
  <2>11. ASSUME NEW t \in Threads, PopSwap(t) PROVE ChainIsStack'
    <3>1. /\ Len(order) \in Nat /\ Len(order) > 0
          /\ seen[t] = order[Len(order)]
      BY <2>11, PopTakesLast
    <3>2. /\ order' \in Seq(Nodes) /\ Len(order') = Len(order) - 1
          /\ \A i \in 1 .. Len(order) - 1 : order'[i] = order[i]
      BY <2>11, <3>1, OrderShrinks DEF PopSwap
    <3>3. order' = <<>> <=> Len(order) = 1
      BY <3>1, <3>2, EmptyOrder
    <3>4. after[t] = IF Len(order) = 1 THEN NULL ELSE order[Len(order) - 1]
      <4>1. after[t] = next[seen[t]]
        BY <2>11 DEF PopSwap, Locals
      <4>2. Len(order) \in 1 .. Len(order)
        BY <3>1
      <4> QED
        BY <3>1, <4>1, <4>2
    <3>5. head' = IF order' = <<>> THEN NULL ELSE order'[Len(order')]
      BY <2>11, <3>1, <3>2, <3>3, <3>4 DEF PopSwap
    <3>6. \A i \in 1 .. Len(order') :
             next'[order'[i]] = IF i = 1 THEN NULL ELSE order'[i - 1]
      <4> SUFFICES ASSUME NEW i \in 1 .. Len(order')
                   PROVE  next'[order'[i]] = IF i = 1 THEN NULL ELSE order'[i - 1]
        OBVIOUS
      <4>1. order[i] # seen[t] /\ order[i] \in Nodes
        BY <3>1, <3>2
      <4>2. next'[order[i]] = next[order[i]]
        BY <2>11, <4>1 DEF PopSwap
      <4> QED
        BY <3>1, <3>2, <4>2
    <3>7. \A i, j \in 1 .. Len(order') : order'[i] = order'[j] => i = j
      BY <3>1, <3>2
    <3> QED
      BY <3>5, <3>6, <3>7
  <2>12. ASSUME NEW t \in Threads, PopRetry(t) PROVE ChainIsStack'
    BY <2>12 DEF PopRetry
  <2>13. ASSUME NEW t \in Threads, PopCount(t) PROVE ChainIsStack'
    BY <2>13 DEF PopCount
  <2>14. ASSUME NEW t \in Threads, PopUnlock(t) PROVE ChainIsStack'
    BY <2>14 DEF PopUnlock
  <2> QED
    BY <2>1, <2>2, <2>3, <2>4, <2>5, <2>6, <2>7, <2>8, <2>9,
       <2>10, <2>11, <2>12, <2>13, <2>14 DEF Next, PushStep, PopStep

LEMMA ChainInvariantHolds == Spec => []ChainInvariant
<1>1. Init => ChainInvariant
  BY EmptySeq DEF Init, ChainInvariant, OnePops, InPop, Apart, PoppedBy, Locals, ChainIsStack
<1>2. TypeOK /\ ChainInvariant /\ [Next]_vars => ChainInvariant'
  BY OnePopsStep, ApartStep, LocalsStep, ChainStep DEF ChainInvariant
<1> QED
  BY <1>1, <1>2, TypeCorrect, PTL DEF Spec

(* Whatever the interleaving of amlstack_push and amlstack_pop, the chain   *)
(* from stk->head is the stack, last in first out, and no node is lost.     *)
THEOREM ChainKept == Spec => []ChainIsStack
BY ChainInvariantHolds, PTL DEF ChainInvariant

-----------------------------------------------------------------------------
(* A step of a thread moves it from one crowd of Counting to another.       *)
LEMMA CountingMoves ==
  ASSUME TypeOK, NEW t \in Threads, NEW to, Goto(t, to), pc[t] # to, NEW label
  PROVE  /\ Counting(label) \in Nat
         /\ Counting(label)' = IF label = pc[t] THEN Counting(label) - 1
                               ELSE IF label = to THEN Counting(label) + 1
                               ELSE Counting(label)
<1> DEFINE crowd == {u \in Threads : pc[u] = label}
<1>1. IsFiniteSet(crowd) /\ Cardinality(crowd) \in Nat
  <2>1. crowd \in SUBSET Threads
    OBVIOUS
  <2> QED
    BY <2>1, FiniteAssumption, FS_Subset, FS_CardinalityType
<1>2. CASE label = pc[t]
  <2>1. crowd' = crowd \ {t} /\ t \in crowd
    BY <1>2 DEF TypeOK, Goto
  <2> QED
    BY <1>1, <1>2, <2>1, FS_RemoveElement DEF Counting
<1>3. CASE label # pc[t] /\ label = to
  <2>1. crowd' = crowd \cup {t} /\ t \notin crowd
    BY <1>3 DEF TypeOK, Goto
  <2>2. Cardinality(crowd') = Cardinality(crowd) + 1
    BY <1>1, <2>1, FS_AddElement
  <2> QED
    BY <1>1, <1>3, <2>2 DEF Counting
<1>4. CASE label # pc[t] /\ label # to
  <2>1. crowd' = crowd
    BY <1>4 DEF TypeOK, Goto
  <2> QED
    BY <1>1, <1>4, <2>1 DEF Counting
<1> QED
  BY <1>2, <1>3, <1>4

LEMMA SameRemainderPlus ==
  ASSUME NEW M \in Nat \ {0}, NEW a \in Int, NEW b \in Int, NEW y \in Int, a % M = b % M
  PROVE  (a + y) % M = (b + y) % M
<1>1. ((a % M) + y) % M = (a + y) % M
  BY ModAbsorb
<1>2. ((b % M) + y) % M = (b + y) % M
  BY ModAbsorb
<1> QED
  BY <1>1, <1>2

LEMMA SizeStep == ASSUME TypeOK, ChainInvariant, SizeAccounted, [Next]_vars PROVE SizeAccounted'
<1> DEFINE M == SizeModulus
           P == Counting("pushCount")
           Q == Counting("popCount")
           L == Len(order)
<1>m. M \in Nat \ {0}
  BY ModulusPositive
<1>l. L \in Nat /\ size \in Nat
  BY EmptyOrder DEF TypeOK
<1>a. (size + P) % M = (L + Q) % M
  BY DEF SizeAccounted
<1>n. /\ P \in Nat /\ Q \in Nat
  <2>1. /\ IsFiniteSet({u \in Threads : pc[u] = "pushCount"})
        /\ IsFiniteSet({u \in Threads : pc[u] = "popCount"})
    BY FiniteAssumption, FS_Subset
  <2> QED
    BY <2>1, FS_CardinalityType DEF Counting
<1>0. ASSUME UNCHANGED <<size, order>>, P' = P, Q' = Q PROVE SizeAccounted'
  BY <1>0 DEF SizeAccounted
<1>1. CASE UNCHANGED vars
  BY <1>0, <1>1 DEF vars, Counting
<1>e. /\ (size + (P + 1)) % M = ((L + 1) + Q) % M
      /\ (((size + 1) % M) + (P - 1)) % M = (L + Q) % M
      /\ (((size - 1) % M) + P) % M = (L + (Q - 1)) % M
  <2> DEFINE a == size + P
             b == L + Q
             up == size + 1
             down == size - 1
             less == P - 1
             one == -1
  <2>1. a \in Int /\ b \in Int
    BY <1>l, <1>n
  <2>2. up \in Int /\ less \in Int
    BY <1>l, <1>n
  <2>3. down \in Int /\ P \in Int
    BY <1>l, <1>n
  <2>4. one \in Int
    OBVIOUS
  <2>5. a % M = b % M
    BY <1>a
  <2>6. /\ size + (P + 1) = a + 1 /\ (L + 1) + Q = b + 1
        /\ up + less = a
        /\ down + P = a + one /\ L + (Q - 1) = b + one
    BY <1>l, <1>n
  <2> HIDE DEF a, b, up, down, less, one, M, P, Q, L
  <2>7. (a + 1) % M = (b + 1) % M
    BY <1>m, <2>1, <2>5, 1 \in Int, SameRemainderPlus
  <2>8. (a + one) % M = (b + one) % M
    BY <1>m, <2>1, <2>5, <2>4, SameRemainderPlus
  <2>9. ((up % M) + less) % M = (up + less) % M
    BY <1>m, <2>2, ModAbsorb
  <2>10. ((down % M) + P) % M = (down + P) % M
    BY <1>m, <2>3, ModAbsorb
  <2>11. ((up % M) + less) % M = b % M /\ ((down % M) + P) % M = (b + one) % M
    BY <2>5, <2>6, <2>8, <2>9, <2>10
  <2> QED
    BY <2>6, <2>7, <2>11 DEF up, down, less, b
<1>2. ASSUME NEW t \in Threads, PushSwap(t) PROVE SizeAccounted'
  <2>1. P' = P + 1 /\ Q' = Q
    BY <1>2, CountingMoves DEF PushSwap
  <2>2. L' = L + 1 /\ size' = size
    BY <1>2, OrderGrows DEF PushSwap, TypeOK
  <2> QED
    BY <1>e, <2>1, <2>2 DEF SizeAccounted
<1>3. ASSUME NEW t \in Threads, PushCount(t) PROVE SizeAccounted'
  <2>1. P' = P - 1 /\ Q' = Q
    BY <1>3, CountingMoves DEF PushCount
  <2>2. L' = L /\ size' = (size + 1) % M
    BY <1>3 DEF PushCount
  <2> QED
    BY <1>e, <2>1, <2>2 DEF SizeAccounted
<1>4. ASSUME NEW t \in Threads, PopSwap(t) PROVE SizeAccounted'
  <2>1. P' = P /\ Q' = Q + 1
    BY <1>4, CountingMoves DEF PopSwap
  <2>2. L' = L - 1 /\ size' = size
    BY <1>4, PopTakesLast, OrderShrinks DEF PopSwap, TypeOK
  <2>3. L' + Q' = L + Q
    BY <1>l, <1>n, <2>1, <2>2
  <2> QED
    BY <1>a, <2>1, <2>2, <2>3 DEF SizeAccounted
<1>5. ASSUME NEW t \in Threads, PopCount(t) PROVE SizeAccounted'
  <2>1. P' = P /\ Q' = Q - 1
    BY <1>5, CountingMoves DEF PopCount
  <2>2. L' = L /\ size' = (size - 1) % M
    BY <1>5 DEF PopCount
  <2> QED
    BY <1>e, <2>1, <2>2 DEF SizeAccounted
<1>6. ASSUME NEW t \in Threads, PushCall(t) \/ PushLoad(t) \/ PushRetry(t) PROVE SizeAccounted'
  BY <1>0, <1>6, CountingMoves DEF PushCall, PushLoad, PushRetry
<1>7. ASSUME NEW t \in Threads,
             PopCall(t) \/ PopLock(t) \/ PopHead(t) \/ PopNext(t) \/ PopRetry(t) \/ PopUnlock(t)
      PROVE  SizeAccounted'
  BY <1>0, <1>7, CountingMoves DEF PopCall, PopLock, PopHead, PopNext, PopRetry, PopUnlock
<1> QED
  BY <1>1, <1>2, <1>3, <1>4, <1>5, <1>6, <1>7 DEF Next, PushStep, PopStep

(* stk->size is off by exactly the pushes and pops that have moved the head *)
(* and not counted yet (libam_lstack.c:33, 75), modulo its width.           *)
THEOREM SizeHonest == Spec => []SizeSound
<1>1. Init => SizeAccounted
  <2> SUFFICES ASSUME Init PROVE SizeAccounted
    OBVIOUS
  <2>1. Counting("pushCount") = 0 /\ Counting("popCount") = 0
    <3>1. {u \in Threads : pc[u] = "pushCount"} = {} /\ {u \in Threads : pc[u] = "popCount"} = {}
      BY DEF Init
    <3> QED
      BY <3>1, FS_EmptySet DEF Counting
  <2> QED
    BY <2>1, EmptySeq DEF Init, SizeAccounted
<1> QED
  BY <1>1, SizeStep, TypeCorrect, ChainInvariantHolds, PTL DEF Spec, SizeSound

-----------------------------------------------------------------------------
\* The module AmBag brings its own copy of FiniteSets.
LEMMA SameCardinality == \A S : Bag!Cardinality(S) = Cardinality(S)
BY DEF Bag!Cardinality, Cardinality

(* A push finds room: its node is one of Nodes that is not in the stack.    *)
LEMMA RoomToPush ==
  ASSUME TypeOK, ChainInvariant, NEW t \in Threads, PushSwap(t)
  PROVE  Cardinality(InStack) < Cardinality(Nodes)
<1>1. node[t] \in Nodes \ InStack
  BY NullAssumption DEF PushSwap, TypeOK, ChainInvariant, Apart, InStack
<1>2. InStack \in SUBSET Nodes
  BY DEF TypeOK, InStack
<1>3. Cardinality(InStack) <= Cardinality(Nodes) /\ Cardinality(InStack) # Cardinality(Nodes)
  BY <1>1, <1>2, FiniteAssumption, FS_Subset
<1>4. Cardinality(InStack) \in Nat /\ Cardinality(Nodes) \in Nat
  BY <1>2, FiniteAssumption, FS_Subset, FS_CardinalityType
<1> QED
  BY <1>3, <1>4

(* The linked stack implements the container of AmBag with room for every   *)
(* node: a push is never refused, and a pop reports empty only when it is.  *)
THEOREM Refinement == Spec => ImplementsBag
<1> DEFINE opOf == [t \in Threads |-> OpOf(t)]
<1> USE NullAssumption
<1>1. Init => Bag!Init
  <2> SUFFICES ASSUME Init PROVE Bag!Init
    OBVIOUS
  <2>1. InStack = {} /\ Popped = {}
    BY EmptySeq DEF Init, InStack, Popped
  <2> QED
    BY <2>1 DEF Init, Bag!Init, OpOf
<1>2. TypeOK /\ ChainInvariant /\ [Next]_vars => [Bag!Next]_(Bag!vars)
  <2> SUFFICES ASSUME TypeOK, ChainInvariant, [Next]_vars PROVE [Bag!Next]_(Bag!vars)
    OBVIOUS
  <2>1. CASE UNCHANGED vars
    BY <2>1 DEF vars, Bag!vars, InStack, Popped, OpOf
  <2>2. ASSUME NEW t \in Threads, PushCall(t) PROVE Bag!BeginPush(t)
    <3>1. PICK n \in outside : /\ pc[t] = "idle" /\ Goto(t, "push")
                               /\ node' = [node EXCEPT ![t] = n] /\ outside' = outside \ {n}
      BY <2>2 DEF PushCall
    <3>2. opOf' = [opOf EXCEPT ![t] = "push"] /\ opOf[t] = "none"
      BY <3>1 DEF Goto, OpOf, TypeOK
    <3>3. InStack' = InStack /\ Popped' = Popped
      BY <2>2 DEF PushCall, Goto, InStack, Popped, TypeOK
    <3>4. n \notin Popped
      BY DEF ChainInvariant, Apart, PoppedBy, Popped
    <3> QED
      BY <3>1, <3>2, <3>3, <3>4 DEF Bag!BeginPush
  <2>3. ASSUME NEW t \in Threads, PushSwap(t) PROVE Bag!CommitPush(t)
    <3>1. opOf' = [opOf EXCEPT ![t] = "none"] /\ opOf[t] = "push"
      BY <2>3 DEF PushSwap, Goto, OpOf, TypeOK
    <3>2. Popped' = Popped
      BY <2>3 DEF PushSwap, Goto, Popped, TypeOK
    <3>3. InStack' = InStack \cup {node[t]}
      <4>1. /\ Len(order) \in Nat /\ Len(order') = Len(order) + 1
            /\ \A i \in 1 .. Len(order) : order'[i] = order[i]
            /\ order'[Len(order) + 1] = node[t]
        BY <2>3, EmptyOrder, OrderGrows DEF PushSwap, TypeOK
      <4> QED
        BY <4>1 DEF InStack
    <3>4. node[t] # NULL /\ Cardinality(InStack) < Cardinality(Nodes)
      BY <2>3, RoomToPush DEF PushSwap, TypeOK
    <3> QED
      BY <2>3, <3>1, <3>2, <3>3, <3>4, SameCardinality DEF PushSwap, Bag!CommitPush
  <2>4. ASSUME NEW t \in Threads, PopCall(t) PROVE Bag!BeginPop(t)
    <3>1. opOf' = [opOf EXCEPT ![t] = "pop"] /\ opOf[t] = "none"
      BY <2>4 DEF PopCall, Goto, OpOf, TypeOK
    <3>2. InStack' = InStack /\ Popped' = Popped
      BY <2>4 DEF PopCall, Goto, InStack, Popped, TypeOK
    <3> QED
      BY <2>4, <3>1, <3>2 DEF PopCall, Bag!BeginPop
  <2>5. ASSUME NEW t \in Threads, PopHead(t), head = NULL PROVE Bag!FailPop(t)
    <3>1. opOf' = [opOf EXCEPT ![t] = "none"] /\ opOf[t] = "pop"
      BY <2>5 DEF PopHead, Goto, OpOf, TypeOK
    <3>2. InStack' = InStack
      BY <2>5 DEF PopHead, InStack
    <3>3. Popped' = Popped
      <4>1. \A u \in Threads : u # t => pc'[u] = pc[u] /\ seen'[u] = seen[u]
        BY <2>5 DEF PopHead, Goto, TypeOK
      <4>2. pc[t] \notin {"popCount", "popUnlock"} /\ seen'[t] = NULL
        BY <2>5 DEF PopHead, Goto, TypeOK
      <4> QED
        BY <4>1, <4>2 DEF Popped
    <3>4. InStack = {}
      <4>1. order = <<>>
        BY <2>5, EmptyOrder DEF ChainInvariant, ChainIsStack, TypeOK
      <4> QED
        BY <4>1, EmptySeq DEF InStack
    <3>5. Cardinality(InStack) <= Cardinality(Bag!Running("pop") \ {t})
      <4>1. Bag!Running("pop") \ {t} \in SUBSET Threads
        BY DEF Bag!Running
      <4>2. Cardinality(Bag!Running("pop") \ {t}) \in Nat
        BY <4>1, FiniteAssumption, FS_Subset, FS_CardinalityType
      <4> QED
        BY <3>4, <4>2, FS_EmptySet
    <3> QED
      BY <2>5, <3>1, <3>2, <3>3, <3>5, SameCardinality DEF PopHead, Bag!FailPop
  <2>6. ASSUME NEW t \in Threads, PopSwap(t) PROVE Bag!CommitPop(t)
    <3>1. opOf' = [opOf EXCEPT ![t] = "none"] /\ opOf[t] = "pop"
      BY <2>6 DEF PopSwap, Goto, OpOf, TypeOK
    <3>2. /\ Len(order) \in Nat /\ Len(order) > 0
          /\ seen[t] = order[Len(order)]
      BY <2>6, PopTakesLast
    <3>3. seen[t] \in InStack /\ seen[t] # NULL
      <4>1. Len(order) \in 1 .. Len(order) /\ seen[t] \in Nodes
        BY <2>6, <3>2 DEF PopSwap, TypeOK
      <4> QED
        BY <3>2, <4>1 DEF InStack
    <3>4. InStack' = InStack \ {seen[t]}
      <4>1. /\ Len(order') = Len(order) - 1
            /\ \A i \in 1 .. Len(order) - 1 : order'[i] = order[i]
        BY <2>6, <3>2, OrderShrinks DEF PopSwap, TypeOK
      <4>2. \A i \in 1 .. Len(order) - 1 : order[i] # order[Len(order)]
        BY <3>2 DEF ChainInvariant, ChainIsStack
      <4> QED
        BY <3>2, <4>1, <4>2 DEF InStack
    <3>5. Popped' = Popped \cup {seen[t]}
      <4>1. pc' = [pc EXCEPT ![t] = "popCount"] /\ pc[t] = "popSwap" /\ seen' = seen
        BY <2>6 DEF PopSwap, Goto
      <4> QED
        BY <3>3, <4>1 DEF Popped, TypeOK
    <3> QED
      BY <2>6, <3>1, <3>3, <3>4, <3>5 DEF PopSwap, Bag!CommitPop
  <2>7. ASSUME NEW t \in Threads,
               \/ PushLoad(t) \/ PushRetry(t) \/ PushCount(t)
               \/ PopLock(t) \/ (PopHead(t) /\ head # NULL)
               \/ PopNext(t) \/ PopRetry(t) \/ PopCount(t)
        PROVE  UNCHANGED Bag!vars
    <3>1. opOf' = opOf
      BY <2>7 DEF PushLoad, PushRetry, PushCount, PopLock, PopHead, PopNext, PopRetry,
         PopCount, Goto, OpOf, TypeOK
    <3>2. InStack' = InStack
      BY <2>7 DEF PushLoad, PushRetry, PushCount, PopLock, PopHead, PopNext, PopRetry,
         PopCount, InStack
    <3>3. Popped' = Popped
      <4>1. \A u \in Threads : u # t => pc'[u] = pc[u] /\ seen'[u] = seen[u]
        BY <2>7 DEF PushLoad, PushRetry, PushCount, PopLock, PopHead, PopNext, PopRetry,
           PopCount, Goto, TypeOK
      <4>2. CASE PopCount(t)
        <5>1. pc[t] = "popCount" /\ pc'[t] = "popUnlock" /\ seen' = seen
          BY <4>2 DEF PopCount, Goto, TypeOK
        <5> QED
          BY <4>1, <5>1 DEF Popped
      <4>3. CASE ~PopCount(t)
        <5>1. pc[t] \notin {"popCount", "popUnlock"} /\ pc'[t] \notin {"popCount", "popUnlock"}
          BY <2>7, <4>3 DEF PushLoad, PushRetry, PushCount, PopLock, PopHead, PopNext, PopRetry,
             Goto, TypeOK
        <5> QED
          BY <4>1, <5>1 DEF Popped
      <4> QED
        BY <4>2, <4>3
    <3> QED
      BY <2>7, <3>1, <3>2, <3>3 DEF PushLoad, PushRetry, PushCount, PopLock, PopHead, PopNext,
         PopRetry, PopCount, Bag!vars
  <2>8. ASSUME NEW t \in Threads, PopUnlock(t) PROVE UNCHANGED Bag!vars
    <3>1. opOf' = opOf
      BY <2>8 DEF PopUnlock, Goto, OpOf, TypeOK
    <3>2. InStack' = InStack
      BY <2>8 DEF PopUnlock, InStack
    <3>3. outside' \cup Popped' = outside \cup Popped
      <4>1. \A u \in Threads : u # t => pc'[u] = pc[u] /\ seen'[u] = seen[u]
        BY <2>8 DEF PopUnlock, Goto, TypeOK
      <4>2. /\ pc[t] = "popUnlock" /\ pc'[t] = "idle"
            /\ outside' = outside \cup ({seen[t]} \ {NULL})
        BY <2>8 DEF PopUnlock, Goto, TypeOK
      <4>3. \A n : n \in Popped <=> \E u \in Threads : PoppedBy(u) /\ seen[u] = n
        BY DEF Popped, PoppedBy
      <4>4. \A n : n \in Popped' <=> \E u \in Threads : u # t /\ PoppedBy(u) /\ seen[u] = n
        BY <4>1, <4>2 DEF Popped, PoppedBy
      <4> QED
        BY <4>2, <4>3, <4>4 DEF PoppedBy
    <3> QED
      BY <2>8, <3>1, <3>2, <3>3 DEF PopUnlock, Bag!vars
  <2> QED
    BY <2>1, <2>2, <2>3, <2>4, <2>5, <2>6, <2>7, <2>8
       DEF Next, PushStep, PopStep, Bag!Next
<1> QED
  BY <1>1, <1>2, TypeCorrect, ChainInvariantHolds, PTL DEF Spec, ImplementsBag, Bag!Spec
=============================================================================
