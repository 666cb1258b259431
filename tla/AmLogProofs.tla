----------------------------- MODULE AmLogProofs -----------------------------
(***************************************************************************)
(* Theorems of AmLog, for any finite sets of producers and sinks, any      *)
(* lines, kinds of messages, levels and masks, and any number of calls.    *)
(***************************************************************************)
EXTENDS AmLog, Basics

-----------------------------------------------------------------------------
(* Lists.                                                                   *)
(* The elements of a finite set, listed.                                    *)
LEMMA ListedIs ==
  ASSUME NEW S, IsFiniteSet(S)
  PROVE  Listed(S) \in Seq(S) /\ IsInjective(Listed(S)) /\ Range(Listed(S)) = S
<1>1. Cardinality(S) \in Nat /\ ExistsBijection(1 .. Cardinality(S), S)
  BY FS_CardinalityType
<1>2. PICK f \in Bijection(1 .. Cardinality(S), S) : TRUE
  BY <1>1 DEF ExistsBijection
<1>3. f \in [1 .. Cardinality(S) -> S] /\ IsInjective(f)
  BY <1>2 DEF Bijection, Injection, IsInjective
<1> DEFINE list == Listed(S)
<1>4. list \in [1 .. Cardinality(S) -> S] /\ IsInjective(list)
  BY <1>3 DEF Listed
<1> HIDE DEF list
<1>5. list \in Seq(S)
  BY <1>1, <1>4
<1>6. Cardinality(Range(list)) = Cardinality(S) /\ Range(list) \subseteq S
  <2>1. list \in Bijection(1 .. Cardinality(S), Range(list))
    BY <1>4 DEF Bijection, Injection, Surjection, IsInjective, Range
  <2>2. IsFiniteSet(1 .. Cardinality(S)) /\ Cardinality(1 .. Cardinality(S)) = Cardinality(S)
    BY <1>1, FS_Interval
  <2>3. ExistsBijection(1 .. Cardinality(S), Range(list))
    BY <2>1 DEF ExistsBijection
  <2>4. Cardinality(Range(list)) = Cardinality(1 .. Cardinality(S))
    BY <2>2, <2>3, FS_Bijection
  <2> QED
    BY <1>4, <2>2, <2>4 DEF Range
<1>7. Range(list) = S
  BY <1>6, FS_Subset
<1> QED
  BY <1>4, <1>5, <1>7 DEF list

LEMMA WithoutIs ==
  ASSUME NEW S, NEW q \in Seq(S), IsInjective(q), NEW x
  PROVE  /\ Without(q, x) \in Seq(S) /\ IsInjective(Without(q, x))
         /\ Range(Without(q, x)) = Range(q) \ {x}
<1>1. CASE x \notin Range(q)
  BY <1>1 DEF Without
<1>2. CASE x \in Range(q)
  <2>0. DOMAIN q = 1 .. Len(q) /\ Len(q) \in Nat
    OBVIOUS
  <2> DEFINE k == CHOOSE i \in DOMAIN q : q[i] = x
             n == Len(q) - 1
             at(i) == IF i < k THEN i ELSE i + 1
             r == [i \in 1 .. n |-> q[at(i)]]
  <2>1. k \in 1 .. Len(q) /\ q[k] = x
    BY <1>2, <2>0 DEF Range
  <2>2. Without(q, x) = r
    BY <1>2 DEF Without
  <2> HIDE DEF k
  <2>3. n \in Nat /\ \A i \in 1 .. n : at(i) \in 1 .. Len(q) /\ at(i) # k
    BY <2>0, <2>1
  <2>4. \A i, j \in 1 .. n : at(i) = at(j) => i = j
    BY <2>0, <2>1
  <2>5. \A j \in (1 .. Len(q)) \ {k} : \E i \in 1 .. n : at(i) = j
    <3> TAKE j \in (1 .. Len(q)) \ {k}
    <3>1. CASE j < k
      BY <2>0, <2>1, <3>1
    <3>2. CASE j > k
      <4>1. j - 1 \in 1 .. n /\ at(j - 1) = j
        BY <2>0, <2>1, <3>2
      <4> QED
        BY <4>1
    <3> QED
      BY <2>1, <3>1, <3>2
  <2> HIDE DEF at, n
  <2>6. r \in [1 .. n -> S] /\ DOMAIN r = 1 .. n /\ \A i \in 1 .. n : r[i] = q[at(i)]
    BY <2>0, <2>3
  <2> HIDE DEF r
  <2>7. r \in Seq(S)
    BY <2>3, <2>6
  <2>8. IsInjective(r)
    BY <2>0, <2>3, <2>4, <2>6 DEF IsInjective
  <2>9. ASSUME NEW y \in Range(r) PROVE y \in Range(q) \ {x}
    <3>1. PICK i \in 1 .. n : r[i] = y
      BY <2>6, <2>9 DEF Range
    <3>2. at(i) \in 1 .. Len(q) /\ at(i) # k /\ y = q[at(i)]
      BY <2>3, <2>6, <3>1
    <3>3. y # x
      BY <2>0, <2>1, <3>2 DEF IsInjective
    <3> QED
      BY <2>0, <3>2, <3>3 DEF Range
  <2>10. ASSUME NEW y \in Range(q) \ {x} PROVE y \in Range(r)
    <3>1. PICK j \in 1 .. Len(q) : q[j] = y
      BY <2>0, <2>10 DEF Range
    <3>2. j # k
      BY <2>1, <3>1, <2>10
    <3>3. PICK i \in 1 .. n : at(i) = j
      BY <2>5, <3>2
    <3> QED
      BY <2>6, <3>1, <3>3 DEF Range
  <2> QED
    BY <2>2, <2>7, <2>8, <2>9, <2>10
<1> QED
  BY <1>1, <1>2

-----------------------------------------------------------------------------
(* How often something is in a list.                                        *)
Is(x, y) == IF x = y THEN 1 ELSE 0

LEMMA TimesFinite ==
  ASSUME NEW S, NEW q \in Seq(S), NEW x
  PROVE  /\ IsFiniteSet({i \in DOMAIN q : q[i] = x}) /\ Times(x, q) \in Nat
         /\ Times(x, q) = 0 <=> x \notin Range(q)
<1>1. DOMAIN q = 1 .. Len(q) /\ Len(q) \in Nat
  OBVIOUS
<1>2. IsFiniteSet({i \in DOMAIN q : q[i] = x})
  <2>1. IsFiniteSet(1 .. Len(q))
    BY <1>1, FS_Interval
  <2> QED
    BY <1>1, <2>1, FS_Subset, {i \in DOMAIN q : q[i] = x} \in SUBSET (1 .. Len(q))
<1>3. {i \in DOMAIN q : q[i] = x} = {} <=> x \notin Range(q)
  BY DEF Range
<1> QED
  BY <1>2, <1>3, FS_CardinalityType, FS_EmptySet DEF Times

LEMMA TimesEmpty == \A x : Times(x, <<>>) = 0
<1>1. \A x : {i \in DOMAIN <<>> : <<>>[i] = x} = {}
  OBVIOUS
<1> QED
  BY <1>1, FS_EmptySet DEF Times

LEMMA TimesAppend ==
  ASSUME NEW S, NEW q \in Seq(S), NEW e \in S, NEW x
  PROVE  Times(x, Append(q, e)) = Times(x, q) + Is(e, x)
<1> DEFINE A == {i \in DOMAIN q : q[i] = x}
           B == {i \in DOMAIN Append(q, e) : Append(q, e)[i] = x}
           n == Len(q)
<1>1. /\ DOMAIN q = 1 .. n /\ n \in Nat /\ DOMAIN Append(q, e) = 1 .. n + 1
      /\ Append(q, e)[n + 1] = e /\ \A i \in 1 .. n : Append(q, e)[i] = q[i]
  OBVIOUS
<1>2. IsFiniteSet(A) /\ Times(x, q) \in Nat
  BY TimesFinite
<1>3. n + 1 \notin A
  BY <1>1
<1>4. Times(x, q) = Cardinality(A) /\ Times(x, Append(q, e)) = Cardinality(B)
  BY DEF Times
<1>5. CASE e = x
  <2>1. B = A \cup {n + 1}
    BY <1>1, <1>5
  <2> HIDE DEF A, B
  <2> QED
    BY <1>2, <1>3, <1>4, <1>5, <2>1, FS_AddElement DEF Is
<1>6. CASE e # x
  <2>1. B = A
    BY <1>1, <1>6
  <2> HIDE DEF A, B
  <2> QED
    BY <1>2, <1>4, <1>6, <2>1 DEF Is
<1> QED
  BY <1>5, <1>6

LEMMA TimesTail ==
  ASSUME NEW S, NEW q \in Seq(S), q # <<>>, NEW x
  PROVE  Times(x, q) = Times(x, Tail(q)) + Is(Head(q), x)
<1> DEFINE A == {i \in DOMAIN q : q[i] = x}
           B == {i \in DOMAIN Tail(q) : Tail(q)[i] = x}
           n == Len(q)
           f == [i \in B |-> i + 1]
<1>1. /\ DOMAIN q = 1 .. n /\ n \in Nat \ {0} /\ DOMAIN Tail(q) = 1 .. n - 1
      /\ Head(q) = q[1] /\ \A i \in 1 .. n - 1 : Tail(q)[i] = q[i + 1]
      /\ Tail(q) \in Seq(S)
  BY TailPart
<1>2. Times(x, q) = Cardinality(A) /\ Times(x, Tail(q)) = Cardinality(B)
  BY DEF Times
<1>3. /\ IsFiniteSet(A) /\ IsFiniteSet(B) /\ Cardinality(A) \in Nat
      /\ Cardinality(B) \in Nat
  <2>1. IsFiniteSet(A) /\ Times(x, q) \in Nat
    BY TimesFinite
  <2>2. IsFiniteSet(B) /\ Times(x, Tail(q)) \in Nat
    <3> DEFINE z == Tail(q)
    <3>1. z \in Seq(S)
      BY <1>1
    <3> HIDE DEF z
    <3>2. IsFiniteSet({i \in DOMAIN z : z[i] = x}) /\ Times(x, z) \in Nat
      BY <3>1, TimesFinite
    <3> QED
      BY <3>2 DEF z
  <2> QED
    BY <1>2, <2>1, <2>2
<1>4. f \in Bijection(B, A \ {1})
  <2>1. f \in [B -> A \ {1}]
    BY <1>1
  <2>2. \A i, j \in B : f[i] = f[j] => i = j
    BY <1>1
  <2>3. ASSUME NEW k \in A \ {1} PROVE \E i \in B : f[i] = k
    <3>1. k - 1 \in B /\ f[k - 1] = k
      BY <1>1, <2>3
    <3> QED
      BY <3>1
  <2> QED
    BY <2>1, <2>2, <2>3 DEF Bijection, Injection, Surjection, IsInjective
<1>5. Cardinality(A \ {1}) = Cardinality(B)
  <2>1. ExistsBijection(B, A \ {1})
    BY <1>4 DEF ExistsBijection
  <2> HIDE DEF A, B
  <2> QED
    BY <1>3, <2>1, FS_Bijection
<1>6. CASE Head(q) = x
  <2>1. 1 \in A
    BY <1>1, <1>6
  <2> HIDE DEF A, B
  <2> QED
    <3>1. Is(Head(q), x) = 1
      BY <1>6 DEF Is
    <3>2. Cardinality(A \ {1}) = Cardinality(A) - 1
      BY <1>3, <2>1, FS_RemoveElement
    <3> QED
      BY <1>2, <1>3, <1>5, <3>1, <3>2
<1>7. CASE Head(q) # x
  <2>1. A \ {1} = A
    BY <1>1, <1>7
  <2> HIDE DEF A, B
  <2> QED
    <3>1. Is(Head(q), x) = 0
      BY <1>7 DEF Is
    <3>2. Cardinality(A) = Cardinality(B)
      BY <1>5, <2>1, Zenon
    <3> QED
      BY <1>2, <1>3, <3>1, <3>2
<1> QED
  BY <1>6, <1>7

LEMMA TimesInjective ==
  ASSUME NEW S, NEW q \in Seq(S), IsInjective(q), NEW x \in Range(q)
  PROVE  Times(x, q) = 1
<1>1. PICK k \in DOMAIN q : q[k] = x
  BY DEF Range
<1>2. {i \in DOMAIN q : q[i] = x} = {k}
  BY <1>1 DEF IsInjective
<1> QED
  BY <1>2, FS_Singleton DEF Times

-----------------------------------------------------------------------------
(* Which actions change which variables.                                    *)
Frames ==
    /\ UNCHANGED ctlVars \/ CtlCall \/ CtlStep
    /\ UNCHANGED sinkVars \/ SinkCall \/ InitRegister \/ CtlUnregister
    /\ UNCHANGED thrVars \/ ThrStep \/ InitCreate \/ TermJoin
    /\ UNCHANGED msgVars \/ (\E p \in Producers : MsgCall(p) \/ MsgStep(p)) \/ InitAlloc
         \/ TermStop
    /\ UNCHANGED lineVars \/ (\E p \in Producers : MsgTake(p) \/ MsgCopy(p)) \/ ThrTake
         \/ ThrReturn
         \/ InitFill \/ CtlFree \/ (\E s \in AppSinks : AppConsume(s))
    /\ UNCHANGED got \/ (\E p \in Producers : MsgOffer(p)) \/ ThrOffer

LEMMA FramesHold == ASSUME [Next]_vars PROVE Frames
<1> USE DEF CtlCall, CtlStep, ThrStep, MsgStep
<1>1. CASE UNCHANGED vars
  BY <1>1 DEF vars, Frames
<1>2. CASE SinkCall
  <2>1. UNCHANGED <<ctlVars, thrVars, msgVars, lineVars, got>>
    BY <1>2 DEF SinkCall
  <2> QED
    BY <1>2, <2>1 DEF Frames
<1>3. CASE InitPlain
  <2>1. UNCHANGED <<sinkVars, thrVars, msgVars, lineVars, got>>
    BY <1>3 DEF InitPlain
  <2> QED
    BY <1>3, <2>1 DEF Frames
<1>4. CASE InitAlloc
  <2>1. UNCHANGED <<sinkVars, thrVars, lineVars, got>>
    BY <1>4 DEF InitAlloc
  <2> QED
    BY <1>4, <2>1 DEF Frames
<1>5. CASE TermStop
  <2>1. UNCHANGED <<sinkVars, thrVars, lineVars, got>>
    BY <1>5 DEF TermStop
  <2> QED
    BY <1>5, <2>1 DEF Frames
<1>6. CASE InitFill
  <2>1. UNCHANGED <<sinkVars, thrVars, msgVars, got>>
    BY <1>6 DEF InitFill
  <2> QED
    BY <1>6, <2>1 DEF Frames
<1>7. CASE InitFillFails
  <2>1. UNCHANGED <<sinkVars, thrVars, msgVars, lineVars, got>>
    BY <1>7 DEF InitFillFails
  <2> QED
    BY <1>7, <2>1 DEF Frames
<1>8. CASE InitRegister
  <2>1. UNCHANGED <<thrVars, msgVars, lineVars, got>>
    BY <1>8 DEF InitRegister
  <2> QED
    BY <1>8, <2>1 DEF Frames
<1>9. CASE InitCreate
  <2>1. UNCHANGED <<sinkVars, msgVars, lineVars, got>>
    BY <1>9 DEF InitCreate
  <2> QED
    BY <1>9, <2>1 DEF Frames
<1>10. CASE TermJoin
  <2>1. UNCHANGED <<sinkVars, msgVars, lineVars, got>>
    BY <1>10 DEF TermJoin
  <2> QED
    BY <1>10, <2>1 DEF Frames
<1>11. CASE CtlUnregister
  <2>1. UNCHANGED <<thrVars, msgVars, lineVars, got>>
    BY <1>11 DEF CtlUnregister
  <2> QED
    BY <1>11, <2>1 DEF Frames
<1>12. CASE CtlFree
  <2>1. UNCHANGED <<sinkVars, thrVars, msgVars, got>>
    BY <1>12 DEF CtlFree
  <2> QED
    BY <1>12, <2>1 DEF Frames
<1>13. CASE ThrTake
  <2>1. UNCHANGED <<ctlVars, sinkVars, msgVars, got>>
    BY <1>13 DEF ThrTake
  <2> QED
    BY <1>13, <2>1 DEF Frames
<1>14. CASE ThrEmpty
  <2>1. UNCHANGED <<ctlVars, sinkVars, msgVars, lineVars, got>>
    BY <1>14 DEF ThrEmpty
  <2> QED
    BY <1>14, <2>1 DEF Frames
<1>15. CASE ThrCheck
  <2>1. UNCHANGED <<ctlVars, sinkVars, msgVars, lineVars, got>>
    BY <1>15 DEF ThrCheck
  <2> QED
    BY <1>15, <2>1 DEF Frames
<1>16. CASE ThrLock
  <2>1. UNCHANGED <<ctlVars, sinkVars, msgVars, lineVars, got>>
    BY <1>16 DEF ThrLock
  <2> QED
    BY <1>16, <2>1 DEF Frames
<1>17. CASE ThrOffer
  <2>1. UNCHANGED <<ctlVars, sinkVars, msgVars, lineVars>>
    BY <1>17 DEF ThrOffer
  <2> QED
    BY <1>17, <2>1 DEF Frames
<1>18. CASE ThrReturn
  <2>1. UNCHANGED <<ctlVars, sinkVars, msgVars, got>>
    BY <1>18 DEF ThrReturn
  <2> QED
    BY <1>18, <2>1 DEF Frames
<1>19. ASSUME NEW p \in Producers, MsgCall(p) PROVE Frames
  <2>1. UNCHANGED <<ctlVars, sinkVars, thrVars, lineVars, got>>
    BY <1>19 DEF MsgCall
  <2> QED
    BY <1>19, <2>1 DEF Frames
<1>20. ASSUME NEW p \in Producers, MsgSkip(p) PROVE Frames
  <2>1. UNCHANGED <<ctlVars, sinkVars, thrVars, lineVars, got>>
    BY <1>20 DEF MsgSkip
  <2> QED
    BY <1>20, <2>1 DEF Frames
<1>21. ASSUME NEW p \in Producers, MsgBadFormat(p) PROVE Frames
  <2>1. UNCHANGED <<ctlVars, sinkVars, thrVars, lineVars, got>>
    BY <1>21 DEF MsgBadFormat
  <2> QED
    BY <1>21, <2>1 DEF Frames
<1>22. ASSUME NEW p \in Producers, MsgTake(p) PROVE Frames
  <2>1. UNCHANGED <<ctlVars, sinkVars, thrVars, got>>
    BY <1>22 DEF MsgTake
  <2> QED
    BY <1>22, <2>1 DEF Frames
<1>23. ASSUME NEW p \in Producers, MsgNoLine(p) PROVE Frames
  <2>1. UNCHANGED <<ctlVars, sinkVars, thrVars, lineVars, got>>
    BY <1>23 DEF MsgNoLine
  <2> QED
    BY <1>23, <2>1 DEF Frames
<1>24. ASSUME NEW p \in Producers, MsgCopy(p) PROVE Frames
  <2>1. UNCHANGED <<ctlVars, sinkVars, thrVars, got>>
    BY <1>24 DEF MsgCopy
  <2> QED
    BY <1>24, <2>1 DEF Frames
<1>25. ASSUME NEW p \in Producers, MsgQueuedDone(p) PROVE Frames
  <2>1. UNCHANGED <<ctlVars, sinkVars, thrVars, lineVars, got>>
    BY <1>25 DEF MsgQueuedDone
  <2> QED
    BY <1>25, <2>1 DEF Frames
<1>26. ASSUME NEW p \in Producers, MsgThreaded(p) PROVE Frames
  <2>1. UNCHANGED <<ctlVars, sinkVars, thrVars, lineVars, got>>
    BY <1>26 DEF MsgThreaded
  <2> QED
    BY <1>26, <2>1 DEF Frames
<1>27. ASSUME NEW p \in Producers, MsgDirect(p) PROVE Frames
  <2>1. UNCHANGED <<ctlVars, sinkVars, thrVars, lineVars, got>>
    BY <1>27 DEF MsgDirect
  <2> QED
    BY <1>27, <2>1 DEF Frames
<1>28. ASSUME NEW p \in Producers, MsgOffer(p) PROVE Frames
  <2>1. UNCHANGED <<ctlVars, sinkVars, thrVars, lineVars>>
    BY <1>28 DEF MsgOffer
  <2> QED
    BY <1>28, <2>1 DEF Frames
<1>29. ASSUME NEW p \in Producers, MsgDirectDone(p) PROVE Frames
  <2>1. UNCHANGED <<ctlVars, sinkVars, thrVars, lineVars, got>>
    BY <1>29 DEF MsgDirectDone
  <2> QED
    BY <1>29, <2>1 DEF Frames
<1>30. ASSUME NEW s \in AppSinks, AppConsume(s) PROVE Frames
  <2>1. UNCHANGED <<ctlVars, sinkVars, thrVars, msgVars, got>>
    BY <1>30 DEF AppConsume
  <2> QED
    BY <1>30, <2>1 DEF Frames
<1> QED
  BY <1>1, <1>2, <1>3, <1>4, <1>5, <1>6, <1>7, <1>8, <1>9, <1>10, <1>11, <1>12, <1>13, <1>14,
       <1>15, <1>16, <1>17, <1>18, <1>19, <1>20, <1>21, <1>22, <1>23, <1>24, <1>25, <1>26,
            <1>27, <1>28, <1>29, <1>30 DEF Next

-----------------------------------------------------------------------------
(* Types, by the variables that change together.                            *)
CtlTyped ==
    /\ log_thread \in BOOLEAN /\ keep_running \in BOOLEAN
    /\ policy \in Policies \cup {"fail"}
    /\ ctl \in {"idle", "fill", "register", "create", "join", "unregister", "free"}

SinkTyped ==
    /\ direct \in Seq(DirectSinks) /\ IsInjective(direct)
    /\ queued \in Seq(QueuedSinks) /\ IsInjective(queued)
    /\ level \in [Sinks -> Levels \cup {TopLevel}]
    /\ mask \in [Sinks -> Masks \cup {{}}]
    /\ steady \subseteq Range(direct)

ThrTyped ==
    /\ thr \in {"none", "deq", "check", "lock", "offer", "exited"}
    /\ rest \in Seq(DirectSinks)
    /\ IF thr \in {"lock", "offer"} THEN ent \in Lines[LogSink] ELSE ent = NULL

MsgTyped ==
    /\ pc \in [Producers -> {"idle", "queued", "copy", "check", "direct"}]
    /\ msg \in [Producers -> Messages \cup {NULL}] /\ todo \in [Producers -> Seq(Sinks)]
    /\ hand \in [Producers -> AllLines \cup {NULL}]
    /\ dropped \in [Producers -> BOOLEAN] /\ quiet \in [Producers -> BOOLEAN]
    /\ sent \in [Producers -> Nat]
    /\ \A p \in Producers :
        /\ sent[p] <= MessageLimit[p]
        /\ IF pc[p] = "idle" THEN msg[p] = NULL ELSE msg[p] \in Messages
        /\ IF pc[p] = "copy" THEN hand[p] \in AllLines ELSE hand[p] = NULL
    /\ owed \subseteq Messages

\* A queue holds lines of its own sink only.
LineTyped ==
    /\ inq \in [QueuedSinks -> Seq(AllLines)] /\ outq \in [QueuedSinks -> Seq(AllLines)]
    /\ \A s \in QueuedSinks : inq[s] \in Seq(Lines[s]) /\ outq[s] \in Seq(Lines[s])
    /\ text \in [AllLines -> Messages \cup {NULL}]

GotTyped == got \in [DirectSinks -> Seq(Messages)] /\ lost \subseteq Messages

LEMMA LinesApart ==
  /\ \A s \in QueuedSinks : Lines[s] \subseteq AllLines /\ NULL \notin Lines[s]
  /\ \A s, r \in QueuedSinks : \A l \in Lines[s] : l \in Lines[r] => s = r
  /\ LogSink \in QueuedSinks /\ AppSinks \subseteq QueuedSinks /\ LogSink \notin AppSinks
  /\ LogSink \notin Producers /\ LogSink \notin DirectSinks
BY LinesAssumption, SinksAssumption, ProducersAssumption DEF AllLines, QueuedSinks

LEMMA CtlTypedKept == ASSUME CtlTyped, Frames PROVE CtlTyped'
<1> USE DEF CtlTyped, CtlCall, CtlStep
<1>1. CASE UNCHANGED ctlVars
  BY <1>1 DEF ctlVars
<1>2. CASE InitPlain
  BY <1>2 DEF InitPlain
<1>3. CASE InitAlloc
  BY <1>3 DEF InitAlloc
<1>4. CASE TermStop
  BY <1>4 DEF TermStop
<1>5. CASE InitFill
  BY <1>5 DEF InitFill
<1>6. CASE InitFillFails
  BY <1>6 DEF InitFillFails
<1>7. CASE InitRegister
  BY <1>7 DEF InitRegister
<1>8. CASE InitCreate
  BY <1>8 DEF InitCreate
<1>9. CASE TermJoin
  BY <1>9 DEF TermJoin
<1>10. CASE CtlUnregister
  BY <1>10 DEF CtlUnregister
<1>11. CASE CtlFree
  BY <1>11 DEF CtlFree
<1> QED
  BY <1>1, <1>2, <1>3, <1>4, <1>5, <1>6, <1>7, <1>8, <1>9, <1>10, <1>11 DEF Frames

(* A list of sinks changes only while nobody goes through it.               *)
SinksMove(r, u) ==
    /\ Range(queued') \subseteq (Range(queued) \cup r) \ u
    /\ Range(queued) \subseteq Range(queued') \cup u
    /\ r \ u \subseteq Range(queued')
    /\ Range(queued') = Range(queued) \/ QueuedReaders = {}
    /\ Range(direct') = Range(direct) \/ DirectReaders = {}

LEMMA FreshTyped ==
  ASSUME SinkTyped, NEW s \in Sinks, Fresh(s)
  PROVE  level' \in [Sinks -> Levels \cup {TopLevel}] /\ mask' \in [Sinks -> Masks \cup {{}}]
BY DEF Fresh, SinkTyped

LEMMA RegisterQueuedKeeps ==
  ASSUME SinkTyped, NEW s \in QueuedSinks, RegisterQueued(s)
  PROVE  SinkTyped' /\ SinksMove({s}, {})
<1>1. queued' = <<s>> \o queued /\ s \notin Range(queued) /\ QueuedReaders = {}
      /\ UNCHANGED <<direct, steady>> /\ Fresh(s)
  BY DEF RegisterQueued
<1>2. queued' \in Seq(QueuedSinks) /\ Range(queued') = Range(queued) \cup {s}
      /\ IsInjective(queued')
  BY <1>1, RangeFront DEF SinkTyped
<1>3. level' \in [Sinks -> Levels \cup {TopLevel}] /\ mask' \in [Sinks -> Masks \cup {{}}]
  BY <1>1, FreshTyped DEF Sinks
<1> QED
  BY <1>1, <1>2, <1>3 DEF SinkTyped, SinksMove

LEMMA RegisterDirectKeeps ==
  ASSUME SinkTyped, NEW s \in DirectSinks, RegisterDirect(s)
  PROVE  SinkTyped' /\ SinksMove({}, {})
<1>1. direct' = <<s>> \o direct /\ s \notin Range(direct) /\ DirectReaders = {}
      /\ UNCHANGED queued /\ Fresh(s) /\ steady' \subseteq steady \cup {s}
  BY DEF RegisterDirect
<1>2. direct' \in Seq(DirectSinks) /\ Range(direct') = Range(direct) \cup {s}
      /\ IsInjective(direct')
  BY <1>1, RangeFront DEF SinkTyped
<1>3. level' \in [Sinks -> Levels \cup {TopLevel}] /\ mask' \in [Sinks -> Masks \cup {{}}]
  BY <1>1, FreshTyped DEF Sinks
<1> QED
  BY <1>1, <1>2, <1>3 DEF SinkTyped, SinksMove

LEMMA UnregisterKeeps ==
  ASSUME SinkTyped, NEW s \in Sinks, Unregister(s)
  PROVE  SinkTyped' /\ SinksMove({}, {s})
<1>1. direct' = Without(direct, s) /\ queued' = Without(queued, s) /\ steady' = steady \ {s}
      /\ Fresh(s)
      /\ IF s \in DirectSinks THEN DirectReaders = {} ELSE QueuedReaders = {}
  BY DEF Unregister
<1>2. direct' \in Seq(DirectSinks) /\ Range(direct') = Range(direct) \ {s}
      /\ IsInjective(direct')
  BY <1>1, WithoutIs DEF SinkTyped
<1>3. queued' \in Seq(QueuedSinks) /\ Range(queued') = Range(queued) \ {s}
      /\ IsInjective(queued')
  BY <1>1, WithoutIs DEF SinkTyped
<1>4. level' \in [Sinks -> Levels \cup {TopLevel}] /\ mask' \in [Sinks -> Masks \cup {{}}]
  BY <1>1, FreshTyped
<1>5. Range(direct) \subseteq DirectSinks /\ Range(queued) \subseteq QueuedSinks
  BY RangeInside DEF SinkTyped
<1>6. CASE s \in DirectSinks
  <2>1. s \notin Range(queued) /\ DirectReaders = {}
    BY <1>1, <1>5, <1>6, SinksAssumption
  <2> QED
    BY <1>1, <1>2, <1>3, <1>4, <2>1 DEF SinkTyped, SinksMove
<1>7. CASE s \notin DirectSinks
  <2>1. s \notin Range(direct) /\ QueuedReaders = {}
    BY <1>1, <1>5, <1>7
  <2> QED
    BY <1>1, <1>2, <1>3, <1>4, <2>1 DEF SinkTyped, SinksMove
<1> QED
  BY <1>6, <1>7

LEMMA SinkTypedKept == ASSUME SinkTyped, Frames PROVE
  /\ SinkTyped'
  /\ \/ InitRegister /\ SinksMove({LogSink}, {})
     \/ CtlUnregister /\ SinksMove({}, {LogSink})
     \/ ~InitRegister /\ ~CtlUnregister
        /\ \E r, u \in SUBSET (Sinks \ {LogSink}) : SinksMove(r, u)
<1> DEFINE Goal == SinkTyped' /\ \E r, u \in SUBSET (Sinks \ {LogSink}) : SinksMove(r, u)
<1>0. {} \in SUBSET (Sinks \ {LogSink}) /\ \A s \in AppSinks \cup DirectSinks :
        s \in Sinks /\ {s} \in SUBSET (Sinks \ {LogSink})
  BY SinksAssumption DEF Sinks, QueuedSinks
<1>1. ASSUME UNCHANGED sinkVars PROVE Goal
  <2>1. SinksMove({}, {})
    BY <1>1 DEF sinkVars, SinksMove
  <2> QED
    BY <1>0, <1>1, <2>1 DEF sinkVars, SinkTyped
<1>2. ASSUME SinkCall PROVE Goal
  <2>1. ASSUME NEW d \in DirectSinks, RegisterDirect(d) PROVE Goal
    BY <1>0, <2>1, RegisterDirectKeeps
  <2>2. ASSUME NEW s \in AppSinks, RegisterQueued(s) PROVE Goal
    BY <1>0, <2>2, RegisterQueuedKeeps DEF QueuedSinks
  <2>3. ASSUME NEW s \in DirectSinks \cup AppSinks, Unregister(s) PROVE Goal
    BY <1>0, <2>3, UnregisterKeeps
  <2>4. ASSUME NEW s \in DirectSinks \cup AppSinks, SetLevel(s) \/ SetMask(s) PROVE Goal
    <3>1. UNCHANGED <<direct, queued>> /\ steady' \subseteq steady
          /\ level' \in [Sinks -> Levels \cup {TopLevel}]
               /\ mask' \in [Sinks -> Masks \cup {{}}]
      BY <2>4 DEF SetLevel, SetMask, SinkTyped
    <3>2. SinksMove({}, {})
      BY <3>1 DEF SinksMove
    <3> QED
      BY <1>0, <3>1, <3>2 DEF SinkTyped
  <2> QED
    BY <1>2, <2>1, <2>2, <2>3, <2>4 DEF SinkCall
<1>3. CASE InitRegister
  BY <1>3, RegisterQueuedKeeps, LinesApart DEF InitRegister
<1>4. CASE CtlUnregister
  BY <1>4, UnregisterKeeps, LinesApart DEF CtlUnregister, Sinks
<1> QED
  BY <1>1, <1>2, <1>3, <1>4 DEF Frames

(* What the thread that calls init and term can count on.                   *)
Staged ==
    /\ ctl # "idle" => log_thread
    /\ LogSink \in Range(queued) <=> (log_thread /\ ctl \notin {"fill", "register", "free"})
    /\ thr # "none" <=> (log_thread /\ ctl \in {"idle", "join"})

LEMMA StagedKept == ASSUME CtlTyped, SinkTyped, ThrTyped, Staged, [Next]_vars PROVE Staged'
<1>0. Frames
  BY FramesHold
<1> DEFINE Sink == LogSink \in Range(queued)
           Same == LogSink \in Range(queued') <=> Sink
<1>1. \/ InitRegister /\ LogSink \in Range(queued')
      \/ CtlUnregister /\ LogSink \notin Range(queued')
      \/ ~InitRegister /\ ~CtlUnregister /\ Same
  BY <1>0, SinkTypedKept DEF SinksMove
<1>2. CASE InitRegister
  <2>1. ctl = "register" /\ ctl' = "create" /\ log_thread' = log_thread /\ thr' = thr
    BY <1>2 DEF InitRegister, thrVars
  <2>2. ~CtlUnregister
    BY <2>1 DEF CtlUnregister
  <2> QED
    BY <1>1, <1>2, <2>1, <2>2 DEF Staged
<1>3. CASE CtlUnregister
  <2>1. ctl = "unregister" /\ ctl' = "free" /\ log_thread' = log_thread /\ thr' = thr
    BY <1>3 DEF CtlUnregister, thrVars
  <2>2. ~InitRegister
    BY <2>1 DEF InitRegister
  <2> QED
    BY <1>1, <1>3, <2>1, <2>2 DEF Staged
<1>4. CASE ~InitRegister /\ ~CtlUnregister
  <2>0. Same
    BY <1>1, <1>4
  <2> HIDE DEF Same
  <2>1. ASSUME UNCHANGED <<log_thread, ctl, thr>> PROVE Staged'
    BY <2>0, <2>1 DEF Staged, Same
  <2>2. CASE UNCHANGED ctlVars
    <3>1. CASE UNCHANGED thrVars
      BY <2>1, <2>2, <3>1 DEF ctlVars, thrVars
    <3>2. CASE ThrStep
      <4>1. thr # "none" /\ thr' # "none"
        BY <3>2 DEF ThrStep, ThrTake, ThrEmpty, ThrCheck, ThrLock, ThrOffer, ThrReturn, thrVars
      <4> QED
        BY <2>0, <2>2, <4>1 DEF Staged, Same, ctlVars
    <3>3. CASE InitCreate \/ TermJoin
      <4>1. ctl' # ctl
        BY <3>3 DEF InitCreate, TermJoin
      <4> QED
        BY <2>2, <4>1 DEF ctlVars
    <3> QED
      BY <1>0, <3>1, <3>2, <3>3 DEF Frames
  <2>3. CASE InitPlain
    BY <2>1, <2>3 DEF InitPlain, thrVars
  <2>4. CASE InitAlloc
    BY <2>0, <2>4 DEF InitAlloc, thrVars, Staged, Same
  <2>5. CASE TermStop
    BY <2>0, <2>5 DEF TermStop, thrVars, Staged, Same
  <2>6. CASE InitFill
    BY <2>0, <2>6 DEF InitFill, thrVars, Staged, Same
  <2>7. CASE InitFillFails
    BY <2>0, <2>7 DEF InitFillFails, thrVars, Staged, Same
  <2>8. CASE InitCreate
    BY <2>0, <2>8 DEF InitCreate, Staged, Same
  <2>9. CASE TermJoin
    BY <2>0, <2>9 DEF TermJoin, Staged, Same
  <2>10. CASE CtlFree
    BY <2>0, <2>10 DEF CtlFree, thrVars, Staged, Same
  <2> QED
    BY <1>0, <1>4, <2>2, <2>3, <2>4, <2>5, <2>6, <2>7, <2>8, <2>9, <2>10
         DEF Frames, CtlCall, CtlStep
<1> QED
  BY <1>2, <1>3, <1>4

(* The log thread's variables.                                              *)
LEMMA ThrTypedKept == ASSUME SinkTyped, LineTyped, ThrTyped, Staged, Frames PROVE ThrTyped'
<1> USE LinesApart DEF ThrTyped
<1>1. CASE UNCHANGED thrVars
  BY <1>1 DEF thrVars
<1>2. CASE ThrTake
  <2>1. inq[LogSink] \in Seq(Lines[LogSink]) /\ inq[LogSink] # <<>>
    BY <1>2 DEF LineTyped, ThrTake
  <2>2. Head(inq[LogSink]) \in Lines[LogSink]
    BY <2>1
  <2> QED
    BY <1>2, <2>2 DEF ThrTake
<1>3. CASE ThrEmpty
  BY <1>3 DEF ThrEmpty
<1>4. CASE ThrCheck
  BY <1>4 DEF ThrCheck
<1>5. CASE ThrLock
  BY <1>5 DEF ThrLock, SinkTyped
<1>6. CASE ThrOffer
  <2>1. rest' \in Seq(DirectSinks)
    BY <1>6 DEF ThrOffer
  <2> QED
    BY <1>6, <2>1 DEF ThrOffer
<1>7. CASE ThrReturn
  BY <1>7 DEF ThrReturn
<1>8. CASE InitCreate \/ TermJoin
  <2>1. thr \notin {"lock", "offer"}
    BY <1>8 DEF InitCreate, TermJoin, Staged
  <2>2. UNCHANGED <<ent, rest>> /\ thr' \in {"none", "deq", thr}
    BY <1>8 DEF InitCreate, TermJoin
  <2> QED
    BY <2>1, <2>2
<1> QED
  BY <1>1, <1>2, <1>3, <1>4, <1>5, <1>6, <1>7, <1>8 DEF Frames, ThrStep

(* The producers' variables.                                                *)
LEMMA MessageIs ==
  ASSUME NEW p \in Producers, NEW n \in 1 .. MessageLimit[p], NEW k \in Kinds[p]
  PROVE  [by |-> p, nr |-> n, kind |-> k] \in Messages
BY DEF Messages

LEMMA ReturnTyped ==
  ASSUME MsgTyped, NEW p \in Producers, NEW rc, Return(p, rc), pc[p] \notin {"idle", "copy"},
         UNCHANGED <<hand, sent>>
  PROVE  MsgTyped'
<1> USE DEF MsgTyped, Return, Goto
<1>1. msg[p] \in Messages /\ hand[p] = NULL /\ <<>> \in Seq(Sinks)
  OBVIOUS
<1>2. owed' \subseteq Messages
  BY <1>1
<1>3. /\ pc' \in [Producers -> {"idle", "queued", "copy", "check", "direct"}]
      /\ msg' \in [Producers -> Messages \cup {NULL}] /\ todo' \in [Producers -> Seq(Sinks)]
      /\ dropped' \in [Producers -> BOOLEAN] /\ quiet' \in [Producers -> BOOLEAN]
  BY <1>1
<1> QED
  BY <1>1, <1>2, <1>3

LEMMA NextSinkTyped ==
  ASSUME MsgTyped, NEW p \in Producers, NextSink(p), todo[p] # <<>>
  PROVE  todo' \in [Producers -> Seq(Sinks)]
<1>1. Tail(todo[p]) \in Seq(Sinks)
  BY DEF MsgTyped
<1> QED
  BY <1>1 DEF NextSink, MsgTyped

LEMMA MsgTypedKept == ASSUME SinkTyped, LineTyped, MsgTyped, Frames PROVE MsgTyped'
<1> USE LinesApart DEF Goto
<1>1. CASE UNCHANGED msgVars
  BY <1>1 DEF msgVars, MsgTyped
<1>2. CASE InitAlloc \/ TermStop
  <2>1. quiet' \in [Producers -> BOOLEAN] /\
        UNCHANGED <<pc, msg, todo, hand, dropped, sent, owed>>
    BY <1>2 DEF InitAlloc, TermStop, Disturb
  <2> QED
    BY <2>1 DEF MsgTyped
<1>3. ASSUME NEW p \in Producers, MsgCall(p) PROVE MsgTyped'
  <2> USE DEF MsgTyped
  <2>1. PICK k \in Kinds[p] : msg' = [msg EXCEPT ![p] = [by |-> p, nr |-> sent'[p], kind |-> k]]
    BY <1>3 DEF MsgCall
  <2>2. /\ sent' = [sent EXCEPT ![p] = @ + 1] /\ sent[p] < MessageLimit[p] /\ pc[p] = "idle"
        /\ quiet' = [quiet EXCEPT ![p] = (ctl = "idle")] /\ todo' = [todo EXCEPT ![p] = queued]
        /\ pc' = [pc EXCEPT ![p] = "queued"] /\ UNCHANGED <<hand, dropped, owed>>
    BY <1>3 DEF MsgCall
  <2>3. sent'[p] = sent[p] + 1 /\ sent[p] \in Nat /\ MessageLimit[p] \in Nat
    BY <2>2, ProducersAssumption
  <2>4. sent'[p] \in 1 .. MessageLimit[p]
    BY <2>2, <2>3
  <2>5. msg'[p] \in Messages /\ msg' \in [Producers -> Messages \cup {NULL}]
    BY <2>1, <2>4, MessageIs
  <2>6. queued \in Seq(Sinks)
    BY DEF SinkTyped, Sinks
  <2>7. todo' \in [Producers -> Seq(Sinks)] /\ quiet' \in [Producers -> BOOLEAN]
        /\ sent' \in [Producers -> Nat]
    BY <2>2, <2>3, <2>6
  <2>8. \A q \in Producers \ {p} : pc'[q] = pc[q] /\ msg'[q] = msg[q] /\ sent'[q] = sent[q]
    BY <2>1, <2>2
  <2>9. pc' \in [Producers -> {"idle", "queued", "copy", "check", "direct"}]
        /\ pc'[p] = "queued"
    BY <2>2
  <2>10. ASSUME NEW q \in Producers
         PROVE  /\ sent'[q] <= MessageLimit[q]
                /\ IF pc'[q] = "idle" THEN msg'[q] = NULL ELSE msg'[q] \in Messages
                /\ IF pc'[q] = "copy" THEN hand'[q] \in AllLines ELSE hand'[q] = NULL
    BY <2>2, <2>4, <2>5, <2>8, <2>9
  <2> QED
    BY <2>2, <2>5, <2>7, <2>9, <2>10
<1>4. ASSUME NEW p \in Producers, MsgSkip(p) PROVE MsgTyped'
  BY <1>4, NextSinkTyped DEF MsgSkip, Visits, MsgTyped
<1>5. ASSUME NEW p \in Producers, MsgBadFormat(p) PROVE MsgTyped'
  BY <1>5, ReturnTyped DEF MsgBadFormat, Visits
<1>6. ASSUME NEW p \in Producers, MsgTake(p) PROVE MsgTyped'
  <2>1. PICK s \in QueuedSinks : outq[s] # <<>> /\ hand' = [hand EXCEPT ![p] = Head(outq[s])]
    BY <1>6 DEF MsgTake
  <2>2. Head(outq[s]) \in AllLines
    BY <2>1 DEF LineTyped
  <2>3. /\ pc[p] = "queued" /\ pc' = [pc EXCEPT ![p] = "copy"]
        /\ UNCHANGED <<msg, todo, dropped, quiet, sent, owed>>
    BY <1>6 DEF MsgTake, Visits
  <2> QED
    BY <2>1, <2>2, <2>3 DEF MsgTyped
<1>7. ASSUME NEW p \in Producers, MsgNoLine(p) PROVE MsgTyped'
  <2>1. todo' \in [Producers -> Seq(Sinks)]
    BY <1>7, NextSinkTyped DEF MsgNoLine, Visits
  <2> QED
    BY <1>7, <2>1 DEF MsgNoLine, MsgTyped
<1>8. ASSUME NEW p \in Producers, MsgCopy(p) PROVE MsgTyped'
  <2>1. todo' \in [Producers -> Seq(Sinks)]
    BY <1>8, NextSinkTyped DEF MsgCopy, Visits
  <2> QED
    BY <1>8, <2>1 DEF MsgCopy, MsgTyped, Visits
<1>9. ASSUME NEW p \in Producers, MsgQueuedDone(p) PROVE MsgTyped'
  BY <1>9 DEF MsgQueuedDone, MsgTyped
<1>10. ASSUME NEW p \in Producers, MsgThreaded(p) PROVE MsgTyped'
  BY <1>10, ReturnTyped DEF MsgThreaded
<1>11. ASSUME NEW p \in Producers, MsgDirect(p) PROVE MsgTyped'
  <2>1. direct \in Seq(Sinks)
    BY DEF SinkTyped, Sinks
  <2> QED
    BY <1>11, <2>1 DEF MsgDirect, MsgTyped
<1>12. ASSUME NEW p \in Producers, MsgOffer(p) PROVE MsgTyped'
  BY <1>12, NextSinkTyped DEF MsgOffer, Visits, MsgTyped
<1>13. ASSUME NEW p \in Producers, MsgDirectDone(p) PROVE MsgTyped'
  BY <1>13, ReturnTyped DEF MsgDirectDone
<1> QED
  BY <1>1, <1>2, <1>3, <1>4, <1>5, <1>6, <1>7, <1>8, <1>9, <1>10, <1>11, <1>12, <1>13
     DEF Frames, MsgStep

(* A call goes through sinks that stay registered.                          *)
Copying == \A p \in Producers : pc[p] = "copy" =>
    /\ todo[p] # <<>> /\ Head(todo[p]) \in QueuedSinks
    /\ hand[p] \in Lines[Head(todo[p])]

LEMMA CopyingKept == ASSUME MsgTyped, LineTyped, Copying, Frames PROVE Copying'
<1> USE DEF MsgTyped, Copying, Goto
<1>1. CASE UNCHANGED msgVars
  BY <1>1 DEF msgVars
<1>2. CASE InitAlloc \/ TermStop
  BY <1>2 DEF InitAlloc, TermStop
<1>3. ASSUME NEW p \in Producers, MsgCall(p) PROVE Copying'
  BY <1>3 DEF MsgCall
<1>4. ASSUME NEW p \in Producers, MsgStep(p) PROVE Copying'
  <2>0. ASSUME \A q \in Producers \ {p} :
                  pc'[q] = pc[q] /\ todo'[q] = todo[q] /\ hand'[q] = hand[q],
               pc'[p] # "copy"
        PROVE  Copying'
    BY <2>0
  <2>1. CASE MsgSkip(p)
    BY <2>0, <2>1 DEF MsgSkip, NextSink, Visits
  <2>2. CASE MsgBadFormat(p)
    BY <2>0, <2>2 DEF MsgBadFormat, Return
  <2>3. CASE MsgTake(p)
    <3>1. PICK s \in QueuedSinks : /\ Visits(p, "queued", s) /\ outq[s] # <<>>
                                   /\ hand' = [hand EXCEPT ![p] = Head(outq[s])]
      BY <2>3 DEF MsgTake
    <3>2. Head(outq[s]) \in Lines[s]
      BY <3>1 DEF LineTyped
    <3> QED
      BY <2>3, <3>1, <3>2 DEF MsgTake, Visits
  <2>4. CASE MsgNoLine(p)
    BY <2>0, <2>4 DEF MsgNoLine, NextSink, Visits
  <2>5. CASE MsgCopy(p)
    BY <2>0, <2>5 DEF MsgCopy, NextSink, Visits
  <2>6. CASE MsgQueuedDone(p)
    BY <2>0, <2>6 DEF MsgQueuedDone
  <2>7. CASE MsgThreaded(p)
    BY <2>0, <2>7 DEF MsgThreaded, Return
  <2>8. CASE MsgDirect(p)
    BY <2>0, <2>8 DEF MsgDirect
  <2>9. CASE MsgOffer(p)
    BY <2>0, <2>9 DEF MsgOffer, NextSink, Visits
  <2>10. CASE MsgDirectDone(p)
    BY <2>0, <2>10 DEF MsgDirectDone, Return
  <2> QED
    BY <1>4, <2>1, <2>2, <2>3, <2>4, <2>5, <2>6, <2>7, <2>8, <2>9, <2>10 DEF MsgStep
<1> QED
  BY <1>1, <1>2, <1>3, <1>4 DEF Frames

\* Who goes through a list of sinks.
LEMMA ReadersAre ==
  /\ \A p \in Producers : p \in QueuedReaders <=> pc[p] \in {"queued", "copy"}
  /\ \A p \in Producers : p \in DirectReaders <=> pc[p] = "direct"
  /\ thr = "offer" => DirectReaders # {}
BY LinesApart DEF QueuedReaders, DirectReaders

LEMMA UsesKept ==
  ASSUME CtlTyped, SinkTyped, ThrTyped, MsgTyped, Staged, Staged', SinksOutliveUse, [Next]_vars
  PROVE  SinksOutliveUse'
<1> DEFINE Walks(P, T, h, r) ==
             /\ \A p \in Producers : P[p] \in {"queued", "copy"}
                  => Range(T[p]) \subseteq Range(queued')
             /\ \A p \in Producers : P[p] = "direct" => Range(T[p]) \subseteq Range(direct')
             /\ h = "offer" => Range(r) \subseteq Range(direct')
<1>0. Frames
  BY FramesHold
<1>1. Walks(pc, todo, thr, rest)
  <2>1. /\ Range(queued') = Range(queued) \/ QueuedReaders = {}
        /\ Range(direct') = Range(direct) \/ DirectReaders = {}
    BY <1>0, SinkTypedKept DEF SinksMove
  <2> QED
    BY <2>1, ReadersAre DEF SinksOutliveUse
<1>2. ASSUME Walks(pc', todo', thr', rest') PROVE SinksOutliveUse'
  <2>1. LogSink \in Range(queued') \/ thr' # "none"
               => log_thread' /\ ctl' \notin {"fill", "free"}
    BY DEF Staged
  <2>2. /\ \A p \in Producers : p \in QueuedReaders' <=> pc'[p] \in {"queued", "copy"}
        /\ \A p \in Producers : p \in DirectReaders' <=> pc'[p] = "direct"
    BY LinesApart DEF QueuedReaders, DirectReaders
  <2> QED
    BY <1>2, <2>1, <2>2 DEF SinksOutliveUse
<1>3. ASSUME NEW p \in Producers, thr' = thr, rest' = rest,
             \A q \in Producers \ {p} : pc'[q] = pc[q] /\ todo'[q] = todo[q],
             pc'[p] \in {"queued", "copy"} => Range(todo'[p]) \subseteq Range(queued'),
             pc'[p] = "direct" => Range(todo'[p]) \subseteq Range(direct')
      PROVE  SinksOutliveUse'
  <2>1. Walks(pc', todo', thr', rest')
    BY <1>1, <1>3
  <2> QED
    BY <1>2, <2>1
<1>4. ASSUME UNCHANGED <<pc, todo>>, thr' = "offer" => Range(rest') \subseteq Range(direct')
      PROVE  SinksOutliveUse'
  <2>1. Walks(pc', todo', thr', rest')
    BY <1>1, <1>4
  <2> QED
    BY <1>2, <2>1
<1>5. CASE UNCHANGED <<pc, todo>>
  <2>1. CASE UNCHANGED thrVars
    BY <1>1, <1>4, <1>5, <2>1 DEF thrVars
  <2>2. CASE ThrTake \/ ThrEmpty \/ ThrCheck \/ ThrReturn \/ InitCreate \/ TermJoin
    <3>1. thr' # "offer"
      BY <2>2 DEF ThrTake, ThrEmpty, ThrCheck, ThrReturn, InitCreate, TermJoin, Staged
    <3> QED
      BY <1>4, <1>5, <3>1
  <2>3. CASE ThrLock
    BY <1>4, <1>5, <2>3 DEF ThrLock, sinkVars
  <2>4. CASE ThrOffer
    <3>1. Range(rest') \subseteq Range(rest) /\ thr = "offer"
      BY <2>4, TailPart DEF ThrOffer, ThrTyped
    <3> QED
      BY <1>1, <1>4, <1>5, <3>1
  <2> QED
    BY <1>0, <2>1, <2>2, <2>3, <2>4 DEF Frames, ThrStep
<1>6. ASSUME NEW p \in Producers, MsgCall(p) \/ MsgStep(p) PROVE SinksOutliveUse'
  <2> USE DEF Goto
  <2>0. /\ pc \in [Producers -> {"idle", "queued", "copy", "check", "direct"}]
        /\ todo \in [Producers -> Seq(Sinks)]
    BY DEF MsgTyped
  <2>1. CASE MsgCall(p)
    BY <1>3, <2>0, <2>1 DEF MsgCall, thrVars, sinkVars
  <2>2. ASSUME NextSink(p), todo[p] # <<>>, UNCHANGED thrVars,
               \A q \in Producers \ {p} : pc'[q] = pc[q],
               \/ pc[p] \in {"queued", "copy"} /\ pc'[p] = "queued"
               \/ pc[p] = "direct" /\ pc'[p] = "direct"
        PROVE  SinksOutliveUse'
    <3>1. todo' = [todo EXCEPT ![p] = Tail(todo[p])] /\ todo[p] \in Seq(Sinks)
      BY <2>0, <2>2 DEF NextSink
    <3>2. Range(todo'[p]) \subseteq Range(todo[p])
      BY <2>0, <2>2, <3>1, TailPart
    <3> QED
      BY <1>1, <1>3, <2>0, <2>2, <3>1, <3>2 DEF thrVars
  <2>3. ASSUME NEW rc, Return(p, rc), UNCHANGED thrVars PROVE SinksOutliveUse'
    BY <1>3, <2>0, <2>3 DEF Return, thrVars
  <2>4. CASE MsgSkip(p)
    <3>1. NextSink(p) /\ todo[p] # <<>> /\ pc[p] = "queued" /\ pc' = pc /\ UNCHANGED thrVars
      BY <2>4 DEF MsgSkip, Visits
    <3> QED
      BY <2>2, <3>1
  <2>5. CASE MsgBadFormat(p)
    BY <2>3, <2>5 DEF MsgBadFormat
  <2>6. CASE MsgTake(p)
    BY <1>1, <1>3, <2>0, <2>6 DEF MsgTake, Visits, thrVars
  <2>7. CASE MsgNoLine(p)
    <3>1. NextSink(p) /\ todo[p] # <<>> /\ pc[p] = "queued" /\ pc' = pc /\ UNCHANGED thrVars
      BY <2>7 DEF MsgNoLine, Visits
    <3> QED
      BY <2>2, <3>1
  <2>8. CASE MsgCopy(p)
    BY <2>0, <2>2, <2>8 DEF MsgCopy, Visits
  <2>9. CASE MsgQueuedDone(p)
    BY <1>3, <2>0, <2>9 DEF MsgQueuedDone, thrVars
  <2>10. CASE MsgThreaded(p)
    BY <2>3, <2>10 DEF MsgThreaded
  <2>11. CASE MsgDirect(p)
    BY <1>3, <2>0, <2>11 DEF MsgDirect, thrVars, sinkVars
  <2>12. CASE MsgOffer(p)
    <3>1. NextSink(p) /\ todo[p] # <<>> /\ pc[p] = "direct" /\ pc' = pc /\ UNCHANGED thrVars
      BY <2>12 DEF MsgOffer, Visits
    <3> QED
      BY <2>2, <3>1
  <2>13. CASE MsgDirectDone(p)
    BY <2>3, <2>13 DEF MsgDirectDone
  <2> QED
    BY <1>6, <2>1, <2>4, <2>5, <2>6, <2>7, <2>8, <2>9, <2>10, <2>11, <2>12, <2>13 DEF MsgStep
<1>7. CASE UNCHANGED msgVars \/ InitAlloc \/ TermStop
  BY <1>5, <1>7 DEF msgVars, InitAlloc, TermStop
<1> QED
  BY <1>0, <1>6, <1>7 DEF Frames

-----------------------------------------------------------------------------
(* Lines on their way from one place to another.                            *)
Queues(q) == q \in [QueuedSinks -> Seq(AllLines)]
     /\ \A s \in QueuedSinks : q[s] \in Seq(Lines[s])

LEMMA QueuesAre ==
  /\ LineTyped <=> Queues(inq) /\ Queues(outq) /\ text \in [AllLines -> Messages \cup {NULL}]
  /\ LineTyped' <=> Queues(inq') /\ Queues(outq')
       /\ text' \in [AllLines -> Messages \cup {NULL}]
BY DEF Queues, LineTyped

LEMMA QueueSet ==
  ASSUME NEW q, Queues(q), NEW s \in QueuedSinks, NEW x \in Seq(Lines[s])
  PROVE  Queues([q EXCEPT ![s] = x])
<1>1. x \in Seq(AllLines)
  BY LinesApart
<1> QED
  BY <1>1 DEF Queues

\* The queues q2 are the queues q with the line x out of its queue, or in it.
Loses(q, q2, x) == Queues(q2) /\ \A s \in QueuedSinks : \A l \in Lines[s] :
    Times(l, q[s]) = Times(l, q2[s]) + Is(x, l)
Gains(q, q2, x) == Queues(q2) /\ \A s \in QueuedSinks : \A l \in Lines[s] :
    Times(l, q2[s]) = Times(l, q[s]) + Is(x, l)

LEMMA QueueTail ==
  ASSUME NEW q, Queues(q), NEW r \in QueuedSinks, q[r] # <<>>,
         NEW q2, q2 = [q EXCEPT ![r] = Tail(@)]
  PROVE  Head(q[r]) \in Lines[r] /\ Loses(q, q2, Head(q[r]))
<1>1. q[r] \in Seq(Lines[r]) /\ q2 = [q EXCEPT ![r] = Tail(q[r])]
      /\ q \in [QueuedSinks -> Seq(AllLines)]
  BY DEF Queues
<1>2. Tail(q[r]) \in Seq(Lines[r]) /\ Head(q[r]) \in Lines[r]
  BY <1>1
<1>3. Queues(q2)
  <2>1. Queues([q EXCEPT ![r] = Tail(q[r])])
    BY <1>2, QueueSet
  <2> QED
    BY <1>1, <2>1
<1>4. ASSUME NEW s \in QueuedSinks, NEW l \in Lines[s]
      PROVE  Times(l, q[s]) = Times(l, q2[s]) + Is(Head(q[r]), l)
  <2>1. CASE s = r
    BY <1>1, <2>1, TimesTail
  <2>2. CASE s # r
    <3>1. q2[s] = q[s] /\ Head(q[r]) # l /\ q[s] \in Seq(Lines[s])
      BY <1>1, <1>2, <1>4, <2>2, LinesApart DEF Queues
    <3>2. Times(l, q[s]) \in Nat /\ Is(Head(q[r]), l) = 0
      BY <3>1, TimesFinite DEF Is
    <3> QED
      BY <3>1, <3>2
  <2> QED
    BY <2>1, <2>2
<1> QED
  BY <1>2, <1>3, <1>4 DEF Loses

LEMMA QueueAppend ==
  ASSUME NEW q, Queues(q), NEW r \in QueuedSinks, NEW x \in Lines[r],
         NEW q2, q2 = [q EXCEPT ![r] = Append(@, x)]
  PROVE  Gains(q, q2, x)
<1>1. q[r] \in Seq(Lines[r]) /\ q2 = [q EXCEPT ![r] = Append(q[r], x)]
      /\ q \in [QueuedSinks -> Seq(AllLines)]
  BY DEF Queues
<1>2. Append(q[r], x) \in Seq(Lines[r])
  BY <1>1
<1>3. Queues(q2)
  <2>1. Queues([q EXCEPT ![r] = Append(q[r], x)])
    BY <1>2, QueueSet
  <2> QED
    BY <1>1, <2>1
<1>4. ASSUME NEW s \in QueuedSinks, NEW l \in Lines[s]
      PROVE  Times(l, q2[s]) = Times(l, q[s]) + Is(x, l)
  <2>1. CASE s = r
    BY <1>1, <2>1, TimesAppend
  <2>2. CASE s # r
    <3>1. q2[s] = q[s] /\ x # l /\ q[s] \in Seq(Lines[s])
      BY <1>1, <1>4, <2>2, LinesApart DEF Queues
    <3>2. Times(l, q[s]) \in Nat /\ Is(x, l) = 0
      BY <3>1, TimesFinite DEF Is
    <3> QED
      BY <3>1, <3>2
  <2> QED
    BY <2>1, <2>2
<1> QED
  BY <1>3, <1>4 DEF Gains

LEMMA HoldersFinite ==
  \A l : /\ IsFiniteSet(Holders(l)) /\ Cardinality(Holders(l)) \in Nat
         /\ IsFiniteSet(Holders(l)') /\ Cardinality(Holders(l)') \in Nat
<1>1. IsFiniteSet(Producers \cup {LogSink})
  BY ProducersAssumption, FS_AddElement
<1>2. \A l : Holders(l) \in SUBSET (Producers \cup {LogSink})
             /\ Holders(l)' \in SUBSET (Producers \cup {LogSink})
  BY DEF Holders
<1> QED
  BY <1>1, <1>2, FS_Subset, FS_CardinalityType

\* A thread takes a line in its hand, or gives it up.
LEMMA HandMoves ==
  ASSUME hand \in [Producers -> AllLines \cup {NULL}], NEW p \in Producers, NEW x,
         hand' = [hand EXCEPT ![p] = x], ent' = ent, NEW l
  PROVE  Cardinality(Holders(l)') + Is(hand[p], l) = Cardinality(Holders(l)) + Is(x, l)
<1> DEFINE S == Holders(l)
           T == Holders(l)'
<1>1. S \ {p} = T \ {p} /\ (p \in S <=> hand[p] = l) /\ (p \in T <=> x = l)
  BY LinesApart DEF Holders
<1>2. IsFiniteSet(S)
  BY HoldersFinite
<1> HIDE DEF S, T
<1>3. Cardinality(T) + One(p \in S) = Cardinality(S) + One(p \in T)
  BY <1>1, <1>2, DifferInOne
<1>4. One(p \in S) = Is(hand[p], l) /\ One(p \in T) = Is(x, l)
  BY <1>1 DEF One, Is
<1> QED
  BY <1>3, <1>4 DEF S, T

LEMMA EntMoves ==
  ASSUME NEW x, ent' = x, hand' = hand, NEW l
  PROVE  Cardinality(Holders(l)') + Is(ent, l) = Cardinality(Holders(l)) + Is(x, l)
<1> DEFINE S == Holders(l)
           T == Holders(l)'
<1>1. S \ {LogSink} = T \ {LogSink} /\ (LogSink \in S <=> ent = l) /\ (LogSink \in T <=> x = l)
  BY LinesApart DEF Holders
<1>2. IsFiniteSet(S)
  BY HoldersFinite
<1> HIDE DEF S, T
<1>3. Cardinality(T) + One(LogSink \in S) = Cardinality(S) + One(LogSink \in T)
  BY <1>1, <1>2, DifferInOne
<1>4. One(LogSink \in S) = Is(ent, l) /\ One(LogSink \in T) = Is(x, l)
  BY <1>1 DEF One, Is
<1> QED
  BY <1>3, <1>4 DEF S, T

\* Where a line of the sink s is, counted; what the count may be, as the log
\* thread's lines come and go with it.
CountOf(l, s) == Times(l, inq[s]) + Times(l, outq[s]) + Cardinality(Holders(l))
Whole(s) == s = LogSink => log_thread /\ ctl \notin {"fill", "free"}
Allowed(s) == IF Whole(s) THEN {1} ELSE IF ctl = "free" THEN {0, 1} ELSE {0}
Placed == \A s \in QueuedSinks : \A l \in Lines[s] : CountOf(l, s) \in Allowed(s)

LEMMA CountParts ==
  ASSUME LineTyped, NEW s \in QueuedSinks, NEW l
  PROVE  Times(l, inq[s]) \in Nat /\ Times(l, outq[s]) \in Nat
         /\ Cardinality(Holders(l)) \in Nat
BY TimesFinite, HoldersFinite DEF LineTyped

LEMMA CountNext ==
  ASSUME NEW s, NEW l
  PROVE  CountOf(l, s)' = Times(l, inq'[s]) + Times(l, outq'[s]) + Cardinality(Holders(l)')
BY DEF CountOf, Times

\* No line is lost and none is doubled.
LinesMove == \A s \in QueuedSinks : \A l \in Lines[s] : CountOf(l, s)' = CountOf(l, s)

LEMMA IsValues ==
  /\ \A x, l : Is(x, l) \in {0, 1}
  /\ \A s \in QueuedSinks : \A l \in Lines[s] : Is(NULL, l) = 0
BY LinesApart DEF Is

LEMMA TakeMoves ==
  ASSUME LineTyped, MsgTyped, NEW p \in Producers, MsgTake(p) PROVE LineTyped' /\ LinesMove
<1>1. PICK r \in QueuedSinks :
        /\ pc[p] = "queued" /\ outq[r] # <<>> /\ hand' = [hand EXCEPT ![p] = Head(outq[r])]
        /\ outq' = [outq EXCEPT ![r] = Tail(@)] /\ UNCHANGED <<inq, text, ent>>
  BY DEF MsgTake, Visits, thrVars
<1>2. Queues(inq) /\ Queues(outq) /\ text \in [AllLines -> Messages \cup {NULL}]
  BY QueuesAre
<1> DEFINE x == Head(outq[r])
<1>3. Loses(outq, outq', x)
  BY <1>1, <1>2, QueueTail
<1>4. hand[p] = NULL /\ hand \in [Producers -> AllLines \cup {NULL}]
  BY <1>1 DEF MsgTyped
<1>5. hand' = [hand EXCEPT ![p] = x] /\ UNCHANGED <<inq, text, ent>>
  BY <1>1
<1> HIDE DEF x
<1>6. \A l : Cardinality(Holders(l)') + Is(NULL, l) = Cardinality(Holders(l)) + Is(x, l)
  BY <1>4, <1>5, HandMoves
<1>7. LineTyped'
  BY <1>2, <1>3, <1>5, QueuesAre DEF Loses
<1>8. ASSUME NEW s \in QueuedSinks, NEW l \in Lines[s] PROVE CountOf(l, s)' = CountOf(l, s)
  <2>1. Cardinality(Holders(l)') + Is(NULL, l) = Cardinality(Holders(l)) + Is(x, l)
    BY <1>6
  <2>2. Is(NULL, l) = 0 /\ Is(x, l) \in {0, 1}
    BY IsValues
  <2>3. Times(l, outq[s]) = Times(l, outq'[s]) + Is(x, l)
    BY <1>3 DEF Loses
  <2>4. Times(l, inq[s]) \in Nat /\ Times(l, outq[s]) \in Nat /\ Times(l, outq'[s]) \in Nat
    BY <1>2, <1>3, TimesFinite DEF Queues, Loses
  <2>5. Cardinality(Holders(l)) \in Nat /\ Cardinality(Holders(l)') \in Nat
    BY HoldersFinite
  <2> QED
    BY <1>5, <2>1, <2>2, <2>3, <2>4, <2>5, CountNext DEF CountOf
<1> QED
  BY <1>7, <1>8 DEF LinesMove

LEMMA CopyMoves ==
  ASSUME LineTyped, MsgTyped, Copying, NEW p \in Producers, MsgCopy(p)
  PROVE  LineTyped' /\ LinesMove
<1>1. PICK r \in QueuedSinks :
        /\ pc[p] = "copy" /\ todo[p] # <<>> /\ r = Head(todo[p])
        /\ text' = [text EXCEPT ![hand[p]] = msg[p]]
        /\ inq' = [inq EXCEPT ![r] = Append(@, hand[p])] /\ hand' = [hand EXCEPT ![p] = NULL]
        /\ UNCHANGED <<outq, ent>>
  BY DEF MsgCopy, Visits, thrVars
<1>2. Queues(inq) /\ Queues(outq) /\ text \in [AllLines -> Messages \cup {NULL}]
  BY QueuesAre
<1> DEFINE x == hand[p]
<1>3. x \in Lines[r] /\ msg[p] \in Messages /\ hand \in [Producers -> AllLines \cup {NULL}]
  BY <1>1 DEF Copying, MsgTyped
<1>4. Gains(inq, inq', x)
  BY <1>1, <1>2, <1>3, QueueAppend
<1>5. text' \in [AllLines -> Messages \cup {NULL}] /\ outq' = outq
  BY <1>1, <1>2, <1>3
<1>6. \A l : Cardinality(Holders(l)') + Is(x, l) = Cardinality(Holders(l)) + Is(NULL, l)
  BY <1>1, <1>3, HandMoves
<1> HIDE DEF x
<1>7. LineTyped'
  BY <1>2, <1>4, <1>5, QueuesAre DEF Gains
<1>8. ASSUME NEW s \in QueuedSinks, NEW l \in Lines[s] PROVE CountOf(l, s)' = CountOf(l, s)
  <2>1. Cardinality(Holders(l)') + Is(x, l) = Cardinality(Holders(l)) + Is(NULL, l)
    BY <1>6
  <2>2. Is(NULL, l) = 0 /\ Is(x, l) \in {0, 1}
    BY IsValues
  <2>3. Times(l, inq'[s]) = Times(l, inq[s]) + Is(x, l)
    BY <1>4 DEF Gains
  <2>4. Times(l, inq[s]) \in Nat /\ Times(l, outq[s]) \in Nat /\ Times(l, inq'[s]) \in Nat
    BY <1>2, <1>4, TimesFinite DEF Queues, Gains
  <2>5. Cardinality(Holders(l)) \in Nat /\ Cardinality(Holders(l)') \in Nat
    BY HoldersFinite
  <2> QED
    BY <1>5, <2>1, <2>2, <2>3, <2>4, <2>5, CountNext DEF CountOf
<1> QED
  BY <1>7, <1>8 DEF LinesMove

LEMMA ThrTakeMoves == ASSUME LineTyped, ThrTyped, ThrTake PROVE LineTyped' /\ LinesMove
<1>1. /\ thr = "deq" /\ inq[LogSink] # <<>> /\ ent' = Head(inq[LogSink])
      /\ inq' = [inq EXCEPT ![LogSink] = Tail(@)] /\ UNCHANGED <<outq, text, hand>>
  BY DEF ThrTake, msgVars
<1>2. Queues(inq) /\ Queues(outq) /\ text \in [AllLines -> Messages \cup {NULL}]
  BY QueuesAre
<1> DEFINE x == Head(inq[LogSink])
<1>3. Loses(inq, inq', x)
  BY <1>1, <1>2, QueueTail, LinesApart
<1>4. ent = NULL
  BY <1>1 DEF ThrTyped
<1>5. ent' = x /\ UNCHANGED <<outq, text, hand>>
  BY <1>1
<1> HIDE DEF x
<1>6. \A l : Cardinality(Holders(l)') + Is(NULL, l) = Cardinality(Holders(l)) + Is(x, l)
  BY <1>4, <1>5, EntMoves
<1>7. LineTyped'
  BY <1>2, <1>3, <1>5, QueuesAre DEF Loses
<1>8. ASSUME NEW s \in QueuedSinks, NEW l \in Lines[s] PROVE CountOf(l, s)' = CountOf(l, s)
  <2>1. Cardinality(Holders(l)') + Is(NULL, l) = Cardinality(Holders(l)) + Is(x, l)
    BY <1>6
  <2>2. Is(NULL, l) = 0 /\ Is(x, l) \in {0, 1}
    BY IsValues
  <2>3. Times(l, inq[s]) = Times(l, inq'[s]) + Is(x, l)
    BY <1>3 DEF Loses
  <2>4. Times(l, inq[s]) \in Nat /\ Times(l, outq[s]) \in Nat /\ Times(l, inq'[s]) \in Nat
    BY <1>2, <1>3, TimesFinite DEF Queues, Loses
  <2>5. Cardinality(Holders(l)) \in Nat /\ Cardinality(Holders(l)') \in Nat
    BY HoldersFinite
  <2> QED
    BY <1>5, <2>1, <2>2, <2>3, <2>4, <2>5, CountNext DEF CountOf
<1> QED
  BY <1>7, <1>8 DEF LinesMove

LEMMA ThrReturnMoves == ASSUME LineTyped, ThrTyped, ThrReturn PROVE LineTyped' /\ LinesMove
<1>1. /\ thr = "offer" /\ ent' = NULL /\ outq' = [outq EXCEPT ![LogSink] = Append(@, ent)]
      /\ text' = [text EXCEPT ![ent] = NULL] /\ UNCHANGED <<inq, hand>>
  BY DEF ThrReturn, msgVars
<1>2. Queues(inq) /\ Queues(outq) /\ text \in [AllLines -> Messages \cup {NULL}]
  BY QueuesAre
<1> DEFINE x == ent
<1>3. x \in Lines[LogSink]
  BY <1>1 DEF ThrTyped
<1>4. Gains(outq, outq', x)
  BY <1>1, <1>2, <1>3, QueueAppend, LinesApart
<1>5. text' \in [AllLines -> Messages \cup {NULL}] /\ inq' = inq
  BY <1>1, <1>2
<1>6. \A l : Cardinality(Holders(l)') + Is(x, l) = Cardinality(Holders(l)) + Is(NULL, l)
  BY <1>1, EntMoves
<1> HIDE DEF x
<1>7. LineTyped'
  BY <1>2, <1>4, <1>5, QueuesAre DEF Gains
<1>8. ASSUME NEW s \in QueuedSinks, NEW l \in Lines[s] PROVE CountOf(l, s)' = CountOf(l, s)
  <2>1. Cardinality(Holders(l)') + Is(x, l) = Cardinality(Holders(l)) + Is(NULL, l)
    BY <1>6
  <2>2. Is(NULL, l) = 0 /\ Is(x, l) \in {0, 1}
    BY IsValues
  <2>3. Times(l, outq'[s]) = Times(l, outq[s]) + Is(x, l)
    BY <1>4 DEF Gains
  <2>4. Times(l, inq[s]) \in Nat /\ Times(l, outq[s]) \in Nat /\ Times(l, outq'[s]) \in Nat
    BY <1>2, <1>4, TimesFinite DEF Queues, Gains
  <2>5. Cardinality(Holders(l)) \in Nat /\ Cardinality(Holders(l)') \in Nat
    BY HoldersFinite
  <2> QED
    BY <1>5, <2>1, <2>2, <2>3, <2>4, <2>5, CountNext DEF CountOf
<1> QED
  BY <1>7, <1>8 DEF LinesMove

LEMMA ConsumeMoves ==
  ASSUME LineTyped, NEW r \in AppSinks, AppConsume(r) PROVE LineTyped' /\ LinesMove
<1> DEFINE x == Head(inq[r])
<1>1. /\ inq[r] # <<>> /\ inq' = [inq EXCEPT ![r] = Tail(@)]
      /\ outq' = [outq EXCEPT ![r] = Append(@, x)] /\ text' = [text EXCEPT ![x] = NULL]
      /\ UNCHANGED <<hand, ent>> /\ r \in QueuedSinks
  BY LinesApart DEF AppConsume, msgVars, thrVars
<1>2. Queues(inq) /\ Queues(outq) /\ text \in [AllLines -> Messages \cup {NULL}]
  BY QueuesAre
<1>3. Loses(inq, inq', x) /\ x \in Lines[r]
  BY <1>1, <1>2, QueueTail
<1> HIDE DEF x
<1>4. Gains(outq, outq', x)
  BY <1>1, <1>2, <1>3, QueueAppend
<1>5. text' \in [AllLines -> Messages \cup {NULL}]
  BY <1>1, <1>2
<1>6. LineTyped'
  BY <1>3, <1>4, <1>5, QueuesAre DEF Loses, Gains
<1>7. ASSUME NEW s \in QueuedSinks, NEW l \in Lines[s] PROVE CountOf(l, s)' = CountOf(l, s)
  <2>1. Holders(l)' = Holders(l)
    BY <1>1 DEF Holders
  <2>2. Is(x, l) \in {0, 1} /\ Times(l, inq[s]) = Times(l, inq'[s]) + Is(x, l)
        /\ Times(l, outq'[s]) = Times(l, outq[s]) + Is(x, l)
    BY <1>3, <1>4, IsValues DEF Loses, Gains
  <2>3. Times(l, inq[s]) \in Nat /\ Times(l, outq[s]) \in Nat /\ Times(l, inq'[s]) \in Nat
    BY <1>2, <1>3, TimesFinite DEF Queues, Loses
  <2>4. Cardinality(Holders(l)) \in Nat
    BY HoldersFinite
  <2> QED
    BY <2>1, <2>2, <2>3, <2>4, CountNext DEF CountOf
<1> QED
  BY <1>6, <1>7 DEF LinesMove

(* The lines of the log thread come with it, and go.                        *)
FillsLines ==
    /\ LineTyped' /\ \A l \in Lines[LogSink] : Times(l, inq'[LogSink]) = Times(l, inq[LogSink])
                                               /\ Times(l, outq'[LogSink]) = 1
    /\ \A s \in QueuedSinks \ {LogSink} : inq'[s] = inq[s] /\ outq'[s] = outq[s]

LEMMA FillIs == ASSUME LineTyped, InitFill PROVE FillsLines
<1> DEFINE list == Listed(Lines[LogSink])
<1>1. outq' = [outq EXCEPT ![LogSink] = list] /\ UNCHANGED <<inq, text>>
  BY DEF InitFill
<1>2. list \in Seq(Lines[LogSink]) /\ IsInjective(list) /\ Range(list) = Lines[LogSink]
  BY ListedIs, LinesAssumption, LinesApart
<1> HIDE DEF list
<1>3. Queues(inq) /\ Queues(outq) /\ text \in [AllLines -> Messages \cup {NULL}]
  BY QueuesAre
<1>4. Queues(outq')
  BY <1>1, <1>2, <1>3, QueueSet, LinesApart
<1>5. outq'[LogSink] = list /\ \A s \in QueuedSinks \ {LogSink} : outq'[s] = outq[s]
  BY <1>1, <1>3, LinesApart DEF Queues
<1>6. LineTyped'
  BY <1>1, <1>3, <1>4, QueuesAre
<1> QED
  BY <1>1, <1>2, <1>5, <1>6, TimesInjective DEF FillsLines

FreesLines ==
    /\ LineTyped' /\ inq'[LogSink] = <<>> /\ outq'[LogSink] = <<>>
    /\ \A s \in QueuedSinks \ {LogSink} : inq'[s] = inq[s] /\ outq'[s] = outq[s]

LEMMA FreeIs == ASSUME LineTyped, CtlFree PROVE FreesLines
<1>1. /\ inq' = [inq EXCEPT ![LogSink] = <<>>] /\ outq' = [outq EXCEPT ![LogSink] = <<>>]
      /\ text' = [l \in AllLines |-> IF l \in Lines[LogSink] THEN NULL ELSE text[l]]
  BY DEF CtlFree
<1>2. Queues(inq) /\ Queues(outq) /\ text \in [AllLines -> Messages \cup {NULL}]
  BY QueuesAre
<1>3. <<>> \in Seq(Lines[LogSink])
  OBVIOUS
<1>4. Queues(inq') /\ Queues(outq')
  BY <1>1, <1>2, <1>3, QueueSet, LinesApart
<1>5. text' \in [AllLines -> Messages \cup {NULL}]
  BY <1>1, <1>2
<1> QED
  BY <1>1, <1>2, <1>4, <1>5, QueuesAre, LinesApart DEF FreesLines, Queues

LEMMA LineTypedKept ==
  ASSUME MsgTyped, ThrTyped, LineTyped, Copying, Frames PROVE LineTyped'
<1>1. CASE UNCHANGED lineVars
  BY <1>1 DEF lineVars, LineTyped
<1> QED
  BY <1>1, TakeMoves, CopyMoves, ThrTakeMoves, ThrReturnMoves, ConsumeMoves, FillIs, FreeIs
     DEF Frames, FillsLines, FreesLines

\* What moves a line.
LineMoves ==
    \/ UNCHANGED <<lineVars, hand, ent>>
    \/ \E p \in Producers : MsgTake(p) \/ MsgCopy(p)
    \/ ThrTake \/ ThrReturn \/ InitFill \/ CtlFree
    \/ \E s \in AppSinks : AppConsume(s)

LEMMA LineMovesHold == ASSUME Frames PROVE LineMoves
<1>1. ASSUME UNCHANGED lineVars PROVE LineMoves
  <2>1. UNCHANGED hand \/ LineMoves
    <3>1. ASSUME NEW p \in Producers, MsgCall(p) \/ MsgStep(p) PROVE UNCHANGED hand \/ LineMoves
      BY <3>1 DEF MsgCall, MsgStep, MsgSkip, MsgBadFormat, MsgNoLine, MsgQueuedDone,
           MsgThreaded,
           MsgDirect, MsgOffer, MsgDirectDone, LineMoves
    <3> QED
      BY <3>1 DEF Frames, msgVars, InitAlloc, TermStop
  <2>2. UNCHANGED ent \/ LineMoves
    BY DEF Frames, thrVars, ThrStep, ThrEmpty, ThrCheck, ThrLock, ThrOffer, InitCreate,
         TermJoin, LineMoves
  <2> QED
    BY <1>1, <2>1, <2>2 DEF LineMoves
<1> QED
  BY <1>1 DEF Frames, LineMoves

LEMMA AllowedIs ==
  /\ \A s \in AppSinks : Allowed(s) = {1} /\ Allowed(s)' = {1}
  /\ Allowed(LogSink) = IF log_thread /\ ctl \notin {"fill", "free"} THEN {1}
                        ELSE IF ctl = "free" THEN {0, 1} ELSE {0}
  /\ Allowed(LogSink)' = IF log_thread' /\ ctl' \notin {"fill", "free"} THEN {1}
                         ELSE IF ctl' = "free" THEN {0, 1} ELSE {0}
  /\ QueuedSinks = AppSinks \cup {LogSink}
BY LinesApart DEF Allowed, Whole, QueuedSinks

LEMMA PlacedKept ==
  ASSUME CtlTyped, MsgTyped, ThrTyped, LineTyped, Staged, Copying, SinksOutliveUse, Placed,
         [Next]_vars
  PROVE  Placed'
<1>0. Frames /\ LineMoves
  BY FramesHold, LineMovesHold
<1>1. ASSUME LinesMove, Allowed(LogSink) \subseteq Allowed(LogSink)' PROVE Placed'
  <2>1. ASSUME NEW s \in QueuedSinks, NEW l \in Lines[s] PROVE CountOf(l, s)' \in Allowed(s)'
    <3>1. CountOf(l, s)' = CountOf(l, s) /\ CountOf(l, s) \in Allowed(s)
      BY <1>1 DEF LinesMove, Placed
    <3>2. Allowed(s) \subseteq Allowed(s)'
      BY <1>1, AllowedIs
    <3> QED
      BY <3>1, <3>2
  <2> QED
    BY <2>1 DEF Placed
<1>2. ASSUME UNCHANGED ctlVars PROVE Allowed(LogSink)' = Allowed(LogSink)
  BY <1>2 DEF ctlVars, Allowed, Whole
<1>3. CASE UNCHANGED <<lineVars, hand, ent>> /\ ~CtlFree /\ ~InitFill
  <2>1. LinesMove
    BY <1>3 DEF LinesMove, CountOf, Holders, lineVars
  <2>2. Allowed(LogSink) \subseteq Allowed(LogSink)'
    <3>1. CASE InitPlain
      BY <3>1 DEF InitPlain, Allowed, Whole
    <3>2. CASE InitAlloc
      BY <3>2, AllowedIs DEF InitAlloc
    <3>3. CASE TermStop
      BY <3>3, AllowedIs DEF TermStop
    <3>4. CASE InitFillFails
      BY <3>4, AllowedIs DEF InitFillFails, Staged
    <3>5. CASE InitRegister
      BY <3>5, AllowedIs DEF InitRegister, Staged
    <3>6. CASE InitCreate
      BY <3>6, AllowedIs DEF InitCreate
    <3>7. CASE TermJoin
      BY <3>7, AllowedIs DEF TermJoin
    <3>8. CASE CtlUnregister
      BY <3>8, AllowedIs DEF CtlUnregister, Staged
    <3> QED
      BY <1>0, <1>2, <1>3, <3>1, <3>2, <3>3, <3>4, <3>5, <3>6, <3>7, <3>8
           DEF Frames, CtlCall, CtlStep
  <2> QED
    BY <1>1, <2>1, <2>2
<1>4. CASE \E p \in Producers : MsgTake(p) \/ MsgCopy(p)
  <2>1. UNCHANGED ctlVars
    BY <1>4 DEF MsgTake, MsgCopy
  <2> QED
    BY <1>1, <1>2, <1>4, <2>1, TakeMoves, CopyMoves
<1>5. CASE ThrTake \/ ThrReturn
  <2>1. UNCHANGED ctlVars
    BY <1>5 DEF ThrTake, ThrReturn
  <2> QED
    BY <1>1, <1>2, <1>5, <2>1, ThrTakeMoves, ThrReturnMoves
<1>6. CASE \E s \in AppSinks : AppConsume(s)
  <2>1. UNCHANGED ctlVars
    BY <1>6 DEF AppConsume
  <2> QED
    BY <1>1, <1>2, <1>6, <2>1, ConsumeMoves
<1>7. ASSUME UNCHANGED <<hand, ent>>, \A s \in AppSinks :
                inq'[s] = inq[s] /\ outq'[s] = outq[s],
             \A l \in Lines[LogSink] : CountOf(l, LogSink)' \in Allowed(LogSink)'
      PROVE  Placed'
  <2>1. ASSUME NEW s \in AppSinks, NEW l \in Lines[s] PROVE CountOf(l, s)' \in Allowed(s)'
    <3>1. Holders(l)' = Holders(l)
      BY <1>7 DEF Holders
    <3>2. CountOf(l, s)' = CountOf(l, s)
      BY <1>7, <3>1, CountNext DEF CountOf
    <3>3. CountOf(l, s) \in Allowed(s)
      BY LinesApart DEF Placed
    <3> QED
      BY <3>2, <3>3, AllowedIs
  <2> QED
    BY <1>7, <2>1, AllowedIs DEF Placed
<1>8. CASE InitFill
  <2>1. FillsLines /\ UNCHANGED <<hand, ent>> /\ ctl = "fill" /\ ctl' = "register"
        /\ log_thread' = log_thread
    BY <1>8, FillIs DEF InitFill, thrVars, msgVars
  <2>2. log_thread /\ Allowed(LogSink) = {0} /\ Allowed(LogSink)' = {1}
    BY <2>1, AllowedIs DEF Staged
  <2>3. ASSUME NEW l \in Lines[LogSink] PROVE CountOf(l, LogSink)' = 1
    <3>1. CountOf(l, LogSink) = 0
      BY <2>2, LinesApart DEF Placed
    <3>2. Times(l, inq[LogSink]) = 0 /\ Cardinality(Holders(l)) = 0
      <4>1. Times(l, inq[LogSink]) \in Nat /\ Times(l, outq[LogSink]) \in Nat
            /\ Cardinality(Holders(l)) \in Nat
        BY CountParts, LinesApart
      <4> QED
        BY <3>1, <4>1 DEF CountOf
    <3>3. Times(l, inq'[LogSink]) = Times(l, inq[LogSink]) /\ Times(l, outq'[LogSink]) = 1
      BY <2>1 DEF FillsLines
    <3>4. Holders(l)' = Holders(l)
      BY <2>1 DEF Holders
    <3> QED
      BY <3>2, <3>3, <3>4, CountNext
  <2> QED
    BY <1>7, <2>1, <2>2, <2>3, LinesApart DEF FillsLines
<1>9. CASE CtlFree
  <2>1. FreesLines /\ UNCHANGED <<hand, ent>> /\ ctl = "free" /\ ctl' = "idle"
        /\ log_thread' = FALSE
    BY <1>9, FreeIs DEF CtlFree, thrVars, msgVars
  <2>2. Allowed(LogSink)' = {0}
    BY <2>1, AllowedIs
  <2>3. ASSUME NEW l \in Lines[LogSink] PROVE CountOf(l, LogSink)' = 0
    <3>1. ASSUME NEW p \in Producers PROVE hand[p] # l
      <4>1. SUFFICES ASSUME hand[p] = l PROVE FALSE
        OBVIOUS
      <4>2. pc[p] = "copy"
        BY <2>3, <4>1, LinesApart DEF MsgTyped
      <4>3. Head(todo[p]) = LogSink /\ todo[p] # <<>>
        BY <2>3, <4>1, <4>2, LinesApart DEF Copying
      <4>4. LogSink \in Range(todo[p])
        <5>1. todo[p] \in Seq(Sinks)
          BY DEF MsgTyped
        <5>2. 1 \in DOMAIN todo[p] /\ todo[p][1] = LogSink
          BY <4>3, <5>1
        <5> QED
          BY <5>2 DEF Range
      <4>5. LogSink \in Range(queued)
        BY <4>2, <4>4, ReadersAre DEF SinksOutliveUse
      <4> QED
        BY <2>1, <4>5 DEF Staged
    <3>2. ent # l
      <4>1. thr = "none"
        BY <2>1 DEF Staged
      <4> QED
        BY <2>3, <4>1, LinesApart DEF ThrTyped
    <3>3. Holders(l) = {}
      BY <3>1, <3>2 DEF Holders
    <3>4. Holders(l)' = {}
      BY <2>1, <3>3 DEF Holders
    <3>5. Times(l, inq'[LogSink]) = 0 /\ Times(l, outq'[LogSink]) = 0
      BY <2>1, TimesEmpty DEF FreesLines
    <3> QED
      BY <3>4, <3>5, CountNext, FS_EmptySet
  <2> QED
    BY <1>7, <2>1, <2>2, <2>3, LinesApart, AllowedIs DEF FreesLines
<1> QED
  BY <1>0, <1>3, <1>4, <1>5, <1>6, <1>8, <1>9 DEF LineMoves

-----------------------------------------------------------------------------
(* What is in the lines.                                                    *)
Reading == thr \in {"lock", "offer"}
Written ==
    /\ \A s \in QueuedSinks : \A l \in Range(inq[s]) : text[l] \in Messages
    /\ Reading => text[ent] \in Messages

\* A line that somebody has in a queue or in hand is nowhere else.
LEMMA OnlyPlace ==
  ASSUME LineTyped, Placed, NEW s \in QueuedSinks, NEW l \in Lines[s]
  PROVE  /\ Times(l, inq[s]) <= 1
         /\ Holders(l) # {} => l \notin Range(inq[s])
<1>1. CountOf(l, s) <= 1
  BY DEF Placed, Allowed
<1>2. Times(l, inq[s]) \in Nat /\ Times(l, outq[s]) \in Nat /\ Cardinality(Holders(l)) \in Nat
  BY CountParts
<1>3. Times(l, inq[s]) + Cardinality(Holders(l)) <= 1
  BY <1>1, <1>2 DEF CountOf
<1>4. Holders(l) # {} => Cardinality(Holders(l)) # 0
  BY HoldersFinite, FS_EmptySet
<1>5. inq[s] \in Seq(Lines[s])
  BY DEF LineTyped
<1>6. Times(l, inq[s]) <= 1 /\ (Holders(l) # {} => Times(l, inq[s]) = 0)
  BY <1>2, <1>3, <1>4
<1>7. Times(l, inq[s]) = 0 <=> l \notin Range(inq[s])
  BY <1>5, TimesFinite
<1> QED
  BY <1>6, <1>7

\* The line read first is not read again.
LEMMA HeadGone ==
  ASSUME LineTyped, Placed, NEW s \in QueuedSinks, inq[s] # <<>>
  PROVE  /\ Head(inq[s]) \in Range(inq[s]) /\ Head(inq[s]) \in Lines[s]
         /\ Range(Tail(inq[s])) = Range(inq[s]) \ {Head(inq[s])}
<1> DEFINE q == inq[s]
           x == Head(q)
<1>1. q \in Seq(Lines[s]) /\ q # <<>> /\ Tail(q) \in Seq(Lines[s]) /\ x \in Lines[s]
  BY DEF LineTyped
<1>2. x \in Range(q) /\ Range(q) = {x} \cup Range(Tail(q))
  <2>1. /\ DOMAIN q = 1 .. Len(q) /\ Len(q) \in Nat \ {0} /\ x = q[1]
        /\ DOMAIN Tail(q) = 1 .. Len(q) - 1 /\ \A i \in 1 .. Len(q) - 1 : Tail(q)[i] = q[i + 1]
    BY <1>1, TailPart
  <2>2. x \in Range(q)
    BY <2>1 DEF Range
  <2>3. ASSUME NEW y \in Range(Tail(q)) PROVE y \in Range(q)
    BY <2>1 DEF Range
  <2>4. ASSUME NEW y \in Range(q), y # x PROVE y \in Range(Tail(q))
    <3>1. PICK i \in 1 .. Len(q) : q[i] = y
      BY <2>1, <2>4 DEF Range
    <3>2. i - 1 \in 1 .. Len(q) - 1 /\ Tail(q)[i - 1] = y
      BY <2>1, <2>4, <3>1
    <3> QED
      BY <2>1, <3>2 DEF Range
  <2> QED
    BY <2>2, <2>3, <2>4
<1>3. x \notin Range(Tail(q))
  <2>1. Times(x, q) <= 1 /\ Times(x, q) = Times(x, Tail(q)) + Is(x, x)
    BY <1>1, OnlyPlace, TimesTail
  <2>2. Times(x, q) \in Nat /\ Times(x, Tail(q)) \in Nat /\ Is(x, x) = 1
    BY <1>1, TimesFinite DEF Is
  <2>3. Times(x, Tail(q)) = 0
    BY <2>1, <2>2
  <2> QED
    BY <1>1, <2>3, TimesFinite
<1> QED
  BY <1>1, <1>2, <1>3

LEMMA WrittenKept ==
  ASSUME MsgTyped, ThrTyped, LineTyped, Staged, Copying, Placed, Written, [Next]_vars
  PROVE  Written'
<1>0. Frames /\ LineMoves
  BY FramesHold, LineMovesHold
<1>1. ASSUME UNCHANGED <<lineVars, ent>>, Reading' => Reading PROVE Written'
  BY <1>1 DEF Written, Reading, lineVars
<1>2. CASE UNCHANGED <<lineVars, hand, ent>>
  <2>1. CASE UNCHANGED thrVars
    BY <1>1, <1>2, <2>1 DEF thrVars, Reading
  <2>2. CASE ThrEmpty \/ ThrCheck \/ ThrLock \/ ThrOffer \/ InitCreate \/ TermJoin
    <3>1. Reading' => Reading
      BY <2>2 DEF ThrEmpty, ThrCheck, ThrLock, ThrOffer, InitCreate, TermJoin, Reading
    <3> QED
      BY <1>1, <1>2, <3>1
  <2>3. CASE ThrTake \/ ThrReturn
    <3>1. ThrTake => inq[LogSink] \in Seq(Lines[LogSink])
      BY LinesApart DEF LineTyped
    <3>2. ent' # ent
      BY <2>3, <3>1, LinesApart DEF ThrTake, ThrReturn, ThrTyped
    <3> QED
      BY <1>2, <3>2
  <2> QED
    BY <1>0, <2>1, <2>2, <2>3 DEF Frames, ThrStep
<1>3. ASSUME NEW p \in Producers, MsgTake(p) PROVE Written'
  BY <1>3 DEF MsgTake, thrVars, Written, Reading
<1>4. ASSUME NEW p \in Producers, MsgCopy(p) PROVE Written'
  <2>1. PICK r \in QueuedSinks :
          /\ pc[p] = "copy" /\ r = Head(todo[p]) /\ text' = [text EXCEPT ![hand[p]] = msg[p]]
          /\ inq' = [inq EXCEPT ![r] = Append(inq[r], hand[p])] /\ UNCHANGED <<thr, ent>>
    BY <1>4 DEF MsgCopy, Visits, thrVars
  <2>2. msg[p] \in Messages /\ hand[p] \in Lines[r] /\ hand[p] \in AllLines
    BY <2>1, LinesApart DEF MsgTyped, Copying
  <2>3. \A l \in AllLines : text[l] \in Messages => text'[l] \in Messages
    BY <2>1, <2>2 DEF LineTyped
  <2>4. text'[hand[p]] \in Messages
    BY <2>1, <2>2 DEF LineTyped
  <2>5. ASSUME NEW s \in QueuedSinks, NEW l \in Range(inq'[s]) PROVE text'[l] \in Messages
    <3>1. inq[r] \in Seq(Lines[r]) /\ inq[s] \in Seq(Lines[s])
          /\ inq \in [QueuedSinks -> Seq(AllLines)]
      BY DEF LineTyped
    <3>2. l \in Range(inq[s]) \/ l = hand[p]
      BY <2>1, <2>2, <2>5, <3>1, RangeAppend
    <3>3. Range(inq[s]) \subseteq AllLines
      BY <3>1, RangeInside
    <3> QED
      BY <2>3, <2>4, <3>2, <3>3 DEF Written
  <2>6. Reading' => text'[ent'] \in Messages
    BY <2>1, <2>3, LinesApart DEF Reading, Written, ThrTyped
  <2> QED
    BY <2>5, <2>6 DEF Written
<1>5. CASE ThrTake
  <2>1. /\ inq[LogSink] # <<>> /\ inq' = [inq EXCEPT ![LogSink] = Tail(inq[LogSink])]
        /\ ent' = Head(inq[LogSink]) /\ UNCHANGED text
    BY <1>5 DEF ThrTake
  <2>2. Head(inq[LogSink]) \in Range(inq[LogSink])
        /\ Range(Tail(inq[LogSink])) \subseteq Range(inq[LogSink])
    BY <2>1, HeadGone, LinesApart
  <2>3. \A s \in QueuedSinks : Range(inq'[s]) \subseteq Range(inq[s])
    BY <2>1, <2>2, LinesApart DEF LineTyped
  <2> QED
    BY <2>1, <2>2, <2>3, LinesApart DEF Written
<1>6. ASSUME NEW s \in QueuedSinks, NEW x \in Lines[s], UNCHANGED <<thr, ent>> \/ ~Reading',
             text' = [text EXCEPT ![x] = NULL],
             \A r \in QueuedSinks : Range(inq'[r]) \subseteq Range(inq[r]),
             x \notin Range(inq'[s]), Reading' => ent' # x
      PROVE  Written'
  <2>1. \A l \in AllLines \ {x} : text'[l] = text[l]
    BY <1>6 DEF LineTyped
  <2>2. ASSUME NEW r \in QueuedSinks, NEW l \in Range(inq'[r]) PROVE text'[l] \in Messages
    <3>1. l \in Range(inq[r]) /\ inq[r] \in Seq(Lines[r])
      BY <1>6, <2>2 DEF LineTyped
    <3>2. l \in Lines[r]
      BY <3>1, RangeInside
    <3>3. l # x /\ l \in AllLines
      BY <1>6, <2>2, <3>2, LinesApart
    <3> QED
      BY <2>1, <3>1, <3>3 DEF Written
  <2>3. Reading' => text'[ent'] \in Messages
    BY <1>6, <2>1, LinesApart DEF Written, Reading, ThrTyped
  <2> QED
    BY <2>2, <2>3 DEF Written
<1>7. CASE ThrReturn
  <2>1. thr = "offer" /\ ~Reading' /\ text' = [text EXCEPT ![ent] = NULL] /\ UNCHANGED inq
    BY <1>7 DEF ThrReturn, Reading
  <2>2. ent \in Lines[LogSink] /\ LogSink \in Holders(ent)
    BY <2>1 DEF ThrTyped, Holders
  <2>3. ent \notin Range(inq[LogSink])
    BY <2>2, OnlyPlace, LinesApart
  <2> QED
    BY <1>6, <2>1, <2>2, <2>3, LinesApart
<1>8. ASSUME NEW s \in AppSinks, AppConsume(s) PROVE Written'
  <2>0. s \in QueuedSinks
    BY LinesApart
  <2>1. /\ inq[s] # <<>> /\ inq' = [inq EXCEPT ![s] = Tail(inq[s])]
        /\ text' = [text EXCEPT ![Head(inq[s])] = NULL] /\ UNCHANGED <<thr, ent>>
    BY <1>8 DEF AppConsume, thrVars
  <2>2. Head(inq[s]) \in Lines[s] /\ Range(Tail(inq[s])) = Range(inq[s]) \ {Head(inq[s])}
    BY <2>0, <2>1, HeadGone
  <2>3. inq'[s] = Tail(inq[s]) /\ \A r \in QueuedSinks : Range(inq'[r]) \subseteq Range(inq[r])
    BY <2>0, <2>1, <2>2 DEF LineTyped
  <2>4. Reading' => ent' # Head(inq[s])
    BY <2>0, <2>1, <2>2, LinesApart DEF Reading, ThrTyped
  <2> QED
    BY <1>6, <2>0, <2>1, <2>2, <2>3, <2>4
<1>9. CASE InitFill
  BY <1>9 DEF InitFill, thrVars, Written, Reading
<1>10. CASE CtlFree
  <2>1. /\ inq' = [inq EXCEPT ![LogSink] = <<>>] /\ ctl = "free" /\ UNCHANGED thr
        /\ text' = [l \in AllLines |-> IF l \in Lines[LogSink] THEN NULL ELSE text[l]]
    BY <1>10 DEF CtlFree, thrVars
  <2>2. ~Reading'
    BY <2>1 DEF Staged, Reading
  <2>3. ASSUME NEW s \in QueuedSinks, NEW l \in Range(inq'[s]) PROVE text'[l] \in Messages
    <3>1. s # LogSink /\ l \in Range(inq[s])
      <4>1. CASE s = LogSink
        <5>1. Range(inq'[s]) = {}
          BY <2>1, <4>1, LinesApart DEF LineTyped, Range
        <5> QED
          BY <2>3, <5>1
      <4>2. CASE s # LogSink
        BY <2>1, <2>3, <4>2 DEF LineTyped
      <4> QED
        BY <4>1, <4>2
    <3>2. l \in Lines[s]
      BY <3>1, RangeInside DEF LineTyped
    <3> QED
      BY <2>1, <3>1, <3>2, LinesApart DEF Written
  <2> QED
    BY <2>2, <2>3 DEF Written
<1> QED
  BY <1>0, <1>2, <1>3, <1>4, <1>5, <1>7, <1>8, <1>9, <1>10 DEF LineMoves

(* What the callbacks get, and what is freed unread.                        *)
LEMMA OfferTyped ==
  ASSUME GotTyped, NEW d \in DirectSinks, NEW m \in Messages, Offer(d, m)
  PROVE  got' \in [DirectSinks -> Seq(Messages)]
<1>1. Append(got[d], m) \in Seq(Messages)
  BY DEF GotTyped
<1> QED
  BY <1>1 DEF Offer, GotTyped

LEMMA GotTypedKept ==
  ASSUME MsgTyped, ThrTyped, LineTyped, Written, GotTyped, Frames PROVE GotTyped'
<1>1. lost' \subseteq Messages
  <2>1. CASE CtlFree
    <3>1. lost' = lost \cup Contents(inq[LogSink])
      BY <2>1 DEF CtlFree
    <3>2. Contents(inq[LogSink]) \subseteq Messages
      BY LinesApart DEF Contents, Written, Range
    <3> QED
      BY <3>1, <3>2 DEF GotTyped
  <2>2. CASE ~CtlFree
    <3>1. lost' = lost
      BY <2>2 DEF Frames, ctlVars, CtlCall, CtlStep, InitPlain, InitAlloc, TermStop, InitFill,
           InitFillFails, InitRegister, InitCreate, TermJoin, CtlUnregister
    <3> QED
      BY <3>1 DEF GotTyped
  <2> QED
    BY <2>1, <2>2
<1>2. got' \in [DirectSinks -> Seq(Messages)]
  <2>1. CASE UNCHANGED got
    BY <2>1 DEF GotTyped
  <2>2. ASSUME NEW p \in Producers, MsgOffer(p) PROVE got' \in [DirectSinks -> Seq(Messages)]
    <3>1. PICK d \in DirectSinks : pc[p] = "direct" /\ Offer(d, msg[p])
      BY <2>2 DEF MsgOffer, Visits
    <3>2. msg[p] \in Messages
      BY <3>1 DEF MsgTyped
    <3> QED
      BY <3>1, <3>2, OfferTyped
  <2>3. CASE ThrOffer
    <3>1. rest # <<>> /\ rest \in Seq(DirectSinks) /\ Offer(Head(rest), text[ent])
          /\ text[ent] \in Messages
      BY <2>3 DEF ThrOffer, ThrTyped, Written, Reading
    <3>2. Head(rest) \in DirectSinks
      BY <3>1
    <3> QED
      BY <3>1, <3>2, OfferTyped
  <2> QED
    BY <2>1, <2>2, <2>3 DEF Frames
<1> QED
  BY <1>1, <1>2 DEF GotTyped

-----------------------------------------------------------------------------
(* The inductive invariant.                                                 *)
LogInvariant ==
    /\ CtlTyped /\ SinkTyped /\ ThrTyped /\ MsgTyped /\ LineTyped /\ GotTyped
    /\ Staged /\ Copying /\ SinksOutliveUse /\ Placed /\ Written

LEMMA InitLines == ASSUME Init PROVE LineTyped /\ Placed /\ Written
<1>1. /\ inq = [s \in QueuedSinks |-> <<>>] /\ text = [l \in AllLines |-> NULL]
      /\ outq = [s \in QueuedSinks |-> IF s = LogSink THEN <<>> ELSE Listed(Lines[s])]
      /\ hand = [p \in Producers |-> NULL] /\ ent = NULL /\ thr = "none"
      /\ log_thread = FALSE /\ ctl = "idle"
  BY DEF Init
<1>2. \A s \in QueuedSinks : /\ Listed(Lines[s]) \in Seq(Lines[s])
                             /\ IsInjective(Listed(Lines[s]))
                             /\ Range(Listed(Lines[s])) = Lines[s]
  BY ListedIs, LinesAssumption
<1>3. ASSUME NEW s \in QueuedSinks PROVE inq[s] \in Seq(Lines[s]) /\ outq[s] \in Seq(Lines[s])
  <2>1. inq[s] = <<>> /\ outq[s] \in {<<>>, Listed(Lines[s])}
    BY <1>1
  <2>2. <<>> \in Seq(Lines[s])
    OBVIOUS
  <2> QED
    BY <1>2, <2>1, <2>2
<1>4. \A s \in QueuedSinks : Seq(Lines[s]) \subseteq Seq(AllLines)
  BY LinesApart
<1>5. LineTyped
  BY <1>1, <1>3, <1>4 DEF LineTyped
<1>6. \A s \in QueuedSinks : \A l \in Lines[s] : Holders(l) = {}
  BY <1>1, LinesApart DEF Holders
<1>7. ASSUME NEW l \in Lines[LogSink] PROVE CountOf(l, LogSink) \in Allowed(LogSink)
  <2>1. inq[LogSink] = <<>> /\ outq[LogSink] = <<>> /\ Holders(l) = {}
    BY <1>1, <1>6, LinesApart
  <2>2. CountOf(l, LogSink) = 0
    BY <2>1, TimesEmpty, FS_EmptySet DEF CountOf
  <2> QED
    BY <1>1, <2>2, AllowedIs
<1>8. ASSUME NEW s \in AppSinks, NEW l \in Lines[s] PROVE CountOf(l, s) \in Allowed(s)
  <2>1. inq[s] = <<>> /\ outq[s] = Listed(Lines[s]) /\ Holders(l) = {} /\ s \in QueuedSinks
    BY <1>1, <1>6, LinesApart
  <2>2. Times(l, Listed(Lines[s])) = 1
    BY <1>2, <2>1, TimesInjective
  <2>3. CountOf(l, s) = 1
    BY <2>1, <2>2, TimesEmpty, FS_EmptySet DEF CountOf
  <2> QED
    BY <2>3, AllowedIs
<1>9. Placed
  BY <1>7, <1>8, AllowedIs DEF Placed
<1>10. Written
  <2>1. \A s \in QueuedSinks : Range(inq[s]) = {}
    BY <1>1 DEF Range
  <2> QED
    BY <1>1, <2>1 DEF Written, Reading
<1> QED
  BY <1>5, <1>9, <1>10

LEMMA InitSinks == ASSUME Init PROVE SinkTyped /\ Staged
<1>1. /\ Listed(DirectSinks) \in Seq(DirectSinks) /\ IsInjective(Listed(DirectSinks))
      /\ Listed(AppSinks) \in Seq(AppSinks) /\ IsInjective(Listed(AppSinks))
      /\ Range(Listed(AppSinks)) = AppSinks
  BY ListedIs, SinksAssumption
<1>2. <<>> \in Seq(DirectSinks) /\ <<>> \in Seq(QueuedSinks) /\ IsInjective(<<>>)
      /\ Range(<<>>) = {}
  BY DEF IsInjective, Range
<1>3. Listed(AppSinks) \in Seq(QueuedSinks)
  BY <1>1, LinesApart
<1>4. direct \in Seq(DirectSinks) /\ IsInjective(direct)
  BY <1>1, <1>2 DEF Init
<1>5. queued \in Seq(QueuedSinks) /\ IsInjective(queued) /\ LogSink \notin Range(queued)
  BY <1>1, <1>2, <1>3, LinesApart DEF Init
<1> QED
  BY <1>4, <1>5 DEF Init, SinkTyped, Staged

LEMMA InitInvariant == ASSUME Init PROVE LogInvariant
<1>1. LineTyped /\ Placed /\ Written /\ SinkTyped /\ Staged
  BY InitLines, InitSinks
<1>2. CtlTyped
  BY DEF Init, CtlTyped
<1>3. ThrTyped
  BY DEF Init, ThrTyped
<1>4. MsgTyped
  BY ProducersAssumption DEF Init, MsgTyped
<1>5. GotTyped
  BY DEF Init, GotTyped
<1>6. Copying
  BY DEF Init, Copying
<1>7. SinksOutliveUse
  <2>1. \A p \in Producers : p \notin QueuedReaders /\ p \notin DirectReaders
    BY LinesApart DEF Init, QueuedReaders, DirectReaders
  <2>2. thr = "none"
    BY DEF Init
  <2> QED
    BY <1>1, <2>1, <2>2 DEF SinksOutliveUse, Staged
<1> QED
  BY <1>1, <1>2, <1>3, <1>4, <1>5, <1>6, <1>7 DEF LogInvariant

LEMMA NextInvariant == ASSUME LogInvariant, [Next]_vars PROVE LogInvariant'
<1> USE DEF LogInvariant
<1>0. Frames
  BY FramesHold
<1>1. CtlTyped' /\ SinkTyped'
  BY <1>0, CtlTypedKept, SinkTypedKept
<1>2. Staged'
  BY StagedKept
<1>3. LineTyped'
  BY <1>0, LineTypedKept
<1>4. ThrTyped' /\ MsgTyped' /\ Copying'
  BY <1>0, ThrTypedKept, MsgTypedKept, CopyingKept
<1>5. SinksOutliveUse'
  BY <1>2, UsesKept
<1>6. Placed'
  BY PlacedKept
<1>7. Written'
  BY WrittenKept
<1>8. GotTyped'
  BY <1>0, GotTypedKept
<1> QED
  BY <1>1, <1>2, <1>3, <1>4, <1>5, <1>6, <1>7, <1>8

(* The invariant holds: types, where the thread of init and term is and    *)
(* what exists then, the lines a call has in hand, where each line is, and *)
(* that a line in an in_queue, or with the log thread, has been written.   *)
THEOREM Invariance == Spec => []LogInvariant
<1>1. Init => LogInvariant
  BY InitInvariant
<1>2. LogInvariant /\ [Next]_vars => LogInvariant'
  BY NextInvariant
<1> QED
  BY <1>1, <1>2, PTL DEF Spec

(* A line of a queued sink is in one place: amlog_sink_dequeue takes it out *)
(* of out_queue for one thread, and amlog_sink_enqueue gives it back, so    *)
(* that nobody writes a line that another reads, no line is lost over a     *)
(* start or a stop of the log thread, and the queues never get more lines   *)
(* than amcqueue_enq has room for.  What a callback is given was written.   *)
THEOREM LinesKept == Spec => []LinesSound
<1>1. LogInvariant => LinesSound
  <2> SUFFICES ASSUME LogInvariant PROVE LinesSound
    OBVIOUS
  <2> USE DEF LogInvariant
  <2>1. thr \in {"lock", "offer"} => ent \in AllLines /\ text[ent] \in Messages
    BY LinesApart DEF ThrTyped, Written, Reading
  <2>2. TypeOK
    BY <2>1 DEF TypeOK, CtlTyped, SinkTyped, ThrTyped, MsgTyped, LineTyped, GotTyped
  <2>3. ASSUME NEW s \in QueuedSinks, NEW l \in Lines[s]
        PROVE  Times(l, inq[s]) + Times(l, outq[s]) + Cardinality(Holders(l))
                 \in IF s = LogSink /\ s \notin Range(queued) THEN {0, 1} ELSE {1}
    <3>1. CountOf(l, s) \in Allowed(s)
      BY DEF Placed
    <3>2. CASE s = LogSink /\ s \notin Range(queued)
      BY <3>1, <3>2, AllowedIs DEF CountOf
    <3>3. CASE s = LogSink /\ s \in Range(queued)
      BY <3>1, <3>3, AllowedIs DEF CountOf, Staged
    <3>4. CASE s # LogSink
      BY <3>1, <3>4, AllowedIs DEF CountOf
    <3> QED
      BY <3>2, <3>3, <3>4
  <2>4. ASSUME NEW s \in QueuedSinks, NEW l \in Lines[s], NEW r \in QueuedSinks \ {s}
        PROVE  l \notin Range(inq[r]) \cup Range(outq[r])
    <3>1. Range(inq[r]) \subseteq Lines[r] /\ Range(outq[r]) \subseteq Lines[r]
      BY RangeInside DEF LineTyped
    <3> QED
      BY <2>4, <3>1, LinesApart
  <2>5. LinesConserved
    BY <2>3, <2>4 DEF LinesConserved
  <2> QED
    BY <2>2, <2>5 DEF LinesSound
<1> QED
  BY <1>1, Invariance, PTL

(* amlog_sink_unregister takes the write lock that amlog_sink_message reads *)
(* its list under, and amlog_sink_term joins the log thread before it frees *)
(* the queues: a call, or the log thread, goes through sinks that stay      *)
(* registered, and the log thread's queues are there while it runs.         *)
THEOREM SinksOutlive == Spec => []SinksOutliveUse
<1>1. LogInvariant => SinksOutliveUse
  BY DEF LogInvariant
<1> QED
  BY <1>1, Invariance, PTL

-----------------------------------------------------------------------------
(* The order of what a direct sink gets, and that it gets it once.          *)

\* The lines on their way to the direct sinks, and the messages in them.
Lane == IF Reading THEN <<ent>> \o inq[LogSink] ELSE inq[LogSink]
Line == [i \in DOMAIN Lane |-> text[Lane[i]]]

\* The call of p still has to give its message to the log thread's sink.
ToCome(p) == pc[p] \in {"queued", "copy"} /\ LogSink \in Range(todo[p])

Older(m, n) == m.by = n.by => m.nr < n.nr
NotNewer(m, n) == m.by = n.by => m.nr <= n.nr
Logged(m) == m.nr <= sent[m.by]

Mine == \A p \in Producers : pc[p] # "idle" => msg[p].by = p /\ msg[p].nr = sent[p]
AllLogged ==
    /\ \A m \in Range(Line) \cup lost \cup owed : Logged(m)
    /\ \A d \in DirectSinks : \A m \in Range(got[d]) : Logged(m)
LineInOrder == \A i, j \in DOMAIN Line : i < j => Older(Line[i], Line[j])
GotBefore == \A d \in DirectSinks : \A m \in Range(got[d]), n \in Range(Line) : NotNewer(m, n)
Outside == \A p \in Producers : \A m \in Range(Line) : m.by = p =>
    /\ pc[p] # "direct"
    /\ ToCome(p) => m.nr < sent[p]
Distinct == IsInjective(rest) /\ \A p \in Producers : IsInjective(todo[p])

OrderInvariant ==
    Mine /\ AllLogged /\ LineInOrder /\ GotBefore /\ Outside /\ Distinct /\ InOrder

LEMMA FrontPart ==
  ASSUME NEW S, NEW q \in Seq(S), NEW x \in S
  PROVE  /\ <<x>> \o q \in Seq(S) /\ <<x>> \o q # <<>> /\ (<<x>> \o q)[1] = x
         /\ Len(<<x>> \o q) = Len(q) + 1
         /\ \A i \in 2 .. Len(q) + 1 : (<<x>> \o q)[i] = q[i - 1]
         /\ Tail(<<x>> \o q) = q
<1> DEFINE r == <<x>> \o q
<1>1. /\ r \in Seq(S) /\ Len(r) = Len(q) + 1 /\ Len(q) \in Nat
      /\ r[1] = x /\ \A i \in 2 .. Len(q) + 1 : r[i] = q[i - 1]
  OBVIOUS
<1>2. r # <<>>
  BY <1>1
<1>3. Tail(r) \in Seq(S) /\ Len(Tail(r)) = Len(q) /\ \A i \in 1 .. Len(q) : Tail(r)[i] = q[i]
  <2> HIDE DEF r
  <2> QED
    BY <1>1, <1>2, TailPart
<1>4. Tail(r) = q
  <2> HIDE DEF r
  <2> QED
    BY <1>1, <1>3
<1> QED
  BY <1>1, <1>2, <1>4

LEMMA LaneIs ==
  ASSUME ThrTyped, LineTyped, Written
  PROVE  /\ Lane \in Seq(Lines[LogSink]) /\ Line \in Seq(Messages) /\ Len(Line) = Len(Lane)
         /\ Range(Lane) = Range(inq[LogSink]) \cup (IF Reading THEN {ent} ELSE {})
         /\ Reading => Line # <<>> /\ Line[1] = text[ent] /\ Lane[1] = ent
<1>1. inq[LogSink] \in Seq(Lines[LogSink])
  BY LinesApart DEF LineTyped
<1>2. Reading => ent \in Lines[LogSink] /\ <<ent>> \o inq[LogSink] \in Seq(Lines[LogSink])
                 /\ (<<ent>> \o inq[LogSink])[1] = ent /\ <<ent>> \o inq[LogSink] # <<>>
  <2> DEFINE z == inq[LogSink]
             L == Lines[LogSink]
             r == <<ent>> \o z
  <2>1. z \in Seq(L)
    BY <1>1
  <2> SUFFICES ASSUME Reading PROVE ent \in L /\ r \in Seq(L) /\ r[1] = ent /\ r # <<>>
    OBVIOUS
  <2>2. ent \in L
    BY DEF ThrTyped, Reading
  <2> HIDE DEF z, L
  <2> QED
    BY <2>1, <2>2, FrontPart
<1>3. Lane \in Seq(Lines[LogSink]) /\ (Reading => Lane # <<>> /\ Lane[1] = ent)
  BY <1>1, <1>2 DEF Lane
<1>4. Range(Lane) = Range(inq[LogSink]) \cup (IF Reading THEN {ent} ELSE {})
  <2>1. CASE Reading
    BY <1>1, <1>2, <2>1, RangeFront DEF Lane
  <2>2. CASE ~Reading
    BY <2>2 DEF Lane
  <2> QED
    BY <2>1, <2>2
<1>5. \A l \in Range(Lane) : text[l] \in Messages
  BY <1>4, LinesApart DEF Written
<1>6. /\ DOMAIN Lane = 1 .. Len(Lane) /\ Len(Lane) \in Nat
      /\ \A i \in DOMAIN Lane : Lane[i] \in Range(Lane)
  BY <1>3 DEF Range
<1>7. Line \in Seq(Messages) /\ Len(Line) = Len(Lane) /\ DOMAIN Line = DOMAIN Lane
  BY <1>5, <1>6 DEF Line
<1>8. Reading => Line # <<>> /\ Line[1] = text[ent]
  BY <1>3, <1>6, <1>7 DEF Line
<1> QED
  BY <1>3, <1>4, <1>7, <1>8

\* No two threads have one line in hand.
LEMMA OneHolder ==
  ASSUME LineTyped, Placed, NEW s \in QueuedSinks, NEW l \in Lines[s],
         NEW x \in Holders(l), NEW y \in Holders(l)
  PROVE  x = y
<1>1. SUFFICES ASSUME x # y PROVE FALSE
  OBVIOUS
<1> DEFINE H == Holders(l)
<1>2. CountOf(l, s) <= 1
  BY DEF Placed, Allowed
<1>3. Times(l, inq[s]) \in Nat /\ Times(l, outq[s]) \in Nat /\ Cardinality(H) \in Nat
      /\ IsFiniteSet(H)
  BY CountParts, HoldersFinite
<1>4. Cardinality(H) <= 1
  BY <1>2, <1>3 DEF CountOf
<1> HIDE DEF H
<1>5. x \in H /\ y \in H
  BY DEF H
<1>6. Cardinality({x, y}) = 2
  <2>1. {x, y} = {x} \cup {y} /\ y \notin {x} /\ IsFiniteSet({x}) /\ Cardinality({x}) = 1
    BY <1>1, FS_Singleton
  <2> QED
    BY <2>1, FS_AddElement
<1>7. Cardinality({x, y}) <= Cardinality(H)
  BY <1>3, <1>5, FS_Subset, {x, y} \in SUBSET H
<1> QED
  BY <1>3, <1>4, <1>6, <1>7

\* The call of p puts its message into the in_queue of the log thread.
Gives(p) == MsgCopy(p) /\ Head(todo[p]) = LogSink

LEMMA GiveLine ==
  ASSUME LogInvariant, NEW p \in Producers, MsgCopy(p)
  PROVE  IF Head(todo[p]) = LogSink THEN Line' = Append(Line, msg[p]) ELSE Line' = Line
<1> USE DEF LogInvariant
<1> DEFINE h == hand[p]
           q == inq[LogSink]
           r == Head(todo[p])
<1>1. /\ r \in QueuedSinks /\ pc[p] = "copy" /\ text' = [text EXCEPT ![h] = msg[p]]
      /\ inq' = [inq EXCEPT ![r] = Append(inq[r], h)] /\ UNCHANGED <<thr, ent>>
  BY DEF MsgCopy, Visits, thrVars
<1>2. h \in Lines[r] /\ h \in AllLines /\ msg[p] \in Messages
  BY <1>1, LinesApart DEF Copying, MsgTyped
<1>3. /\ Lane \in Seq(Lines[LogSink]) /\ Range(Lane) \subseteq AllLines
      /\ Range(Lane) = Range(q) \cup (IF Reading THEN {ent} ELSE {})
      /\ q \in Seq(Lines[LogSink])
  <2>1. Lane \in Seq(Lines[LogSink]) /\ q \in Seq(Lines[LogSink])
    BY LaneIs, LinesApart DEF LineTyped
  <2> QED
    BY <2>1, LaneIs, RangeInside, LinesApart
<1>4. h \notin Range(Lane)
  <2>1. CASE r # LogSink
    <3>1. Range(Lane) \subseteq Lines[LogSink]
      BY <1>3, RangeInside
    <3> QED
      BY <1>1, <1>2, <2>1, <3>1, LinesApart
  <2>2. CASE r = LogSink
    <3>1. p \in Holders(h)
      BY DEF Holders
    <3>2. h \notin Range(q)
      BY <1>1, <1>2, <2>2, <3>1, OnlyPlace
    <3>3. LogSink \in Holders(ent)
      BY DEF Holders
    <3>4. h # ent
      BY <1>1, <1>2, <2>2, <3>1, <3>3, OneHolder, LinesApart
    <3> QED
      BY <1>3, <3>2, <3>4
  <2> QED
    BY <2>1, <2>2
<1>5. \A l \in Range(Lane) : text'[l] = text[l]
  BY <1>1, <1>3, <1>4 DEF LineTyped
<1>6. text'[h] = msg[p]
  BY <1>1, <1>2 DEF LineTyped
<1>7. CASE r # LogSink
  <2>1. Lane' = Lane
    <3>1. inq'[LogSink] = q
      BY <1>1, <1>7, LinesApart DEF LineTyped
    <3> QED
      BY <1>1, <3>1 DEF Lane, Reading
  <2> QED
    BY <1>5, <1>7, <2>1 DEF Line, Range
<1>8. CASE r = LogSink
  <2>1. inq'[LogSink] = Append(q, h)
    BY <1>1, <1>8, LinesApart DEF LineTyped
  <2>2. Lane' = Append(Lane, h)
    <3>1. CASE Reading
      <4>1. ent \in Lines[LogSink]
        BY <3>1 DEF ThrTyped, Reading
      <4>2. <<ent>> \o Append(q, h) = Append(<<ent>> \o q, h)
        BY <1>2, <1>3, <1>8, <4>1
      <4> QED
        BY <1>1, <2>1, <3>1, <4>2 DEF Lane, Reading
    <3>2. CASE ~Reading
      BY <1>1, <2>1, <3>2 DEF Lane, Reading
    <3> QED
      BY <3>1, <3>2
  <2> DEFINE n == Len(Lane)
             K == Append(Lane, h)
  <2>3. /\ n \in Nat /\ DOMAIN Lane = 1 .. n /\ DOMAIN K = 1 .. n + 1
        /\ K[n + 1] = h /\ \A i \in 1 .. n : K[i] = Lane[i]
    BY <1>2, <1>3, <1>8
  <2> HIDE DEF K
  <2>4. Line' = [i \in 1 .. n + 1 |-> text'[K[i]]]
    BY <2>2, <2>3 DEF Line, K
  <2>5. Line \in Seq(Messages) /\ Len(Line) = n /\ \A i \in 1 .. n : Line[i] = text[Lane[i]]
    BY <2>3, LaneIs DEF Line
  <2>6. Append(Line, msg[p]) = [i \in 1 .. n + 1 |-> IF i = n + 1 THEN msg[p] ELSE Line[i]]
    BY <1>2, <2>3, <2>5
  <2>7. ASSUME NEW i \in 1 .. n + 1
        PROVE  text'[K[i]] = IF i = n + 1 THEN msg[p] ELSE Line[i]
    <3>1. CASE i = n + 1
      BY <1>6, <2>3, <3>1
    <3>2. CASE i # n + 1
      <4>1. i \in 1 .. n
        BY <2>3, <3>2
      <4>2. K[i] = Lane[i] /\ Lane[i] \in Range(Lane)
        BY <2>3, <4>1 DEF Range
      <4> QED
        BY <1>5, <2>5, <3>2, <4>1, <4>2
    <3> QED
      BY <3>1, <3>2
  <2>8. Line' = Append(Line, msg[p])
    BY <2>4, <2>6, <2>7
  <2> QED
    BY <1>8, <2>8
<1> QED
  BY <1>7, <1>8

LEMMA ReturnLine ==
  ASSUME LogInvariant, ThrReturn PROVE Line # <<>> /\ Line' = Tail(Line)
<1> USE DEF LogInvariant
<1> DEFINE q == inq[LogSink]
<1>1. Reading /\ ~Reading' /\ text' = [text EXCEPT ![ent] = NULL] /\ inq' = inq
  BY DEF ThrReturn, Reading
<1>2. ent \in Lines[LogSink] /\ q \in Seq(Lines[LogSink])
  BY <1>1, LinesApart DEF ThrTyped, LineTyped, Reading
<1>3. Lane = <<ent>> \o q /\ Lane' = q
  BY <1>1 DEF Lane
<1>4. Line \in Seq(Messages) /\ Line # <<>> /\ Len(Line) = Len(q) + 1 /\ Len(q) \in Nat
      /\ \A i \in 1 .. Len(q) : Line[i + 1] = text[q[i]]
  <2>1. /\ Line \in Seq(Messages) /\ Line # <<>> /\ Len(Line) = Len(Lane)
        /\ Lane \in Seq(Lines[LogSink])
    BY <1>1, LaneIs
  <2>2. Len(Lane) = Len(q) + 1 /\ Len(q) \in Nat /\ \A i \in 2 .. Len(q) + 1 : Lane[i] = q[i - 1]
    BY <1>2, <1>3, FrontPart
  <2>3. ASSUME NEW i \in 1 .. Len(q) PROVE Line[i + 1] = text[q[i]]
    <3>1. i + 1 \in 2 .. Len(q) + 1 /\ (i + 1) - 1 = i /\ i + 1 \in 1 .. Len(Lane)
      BY <2>2, <2>3
    <3>2. Lane[i + 1] = q[i] /\ DOMAIN Lane = 1 .. Len(Lane)
      BY <2>1, <2>2, <3>1
    <3> QED
      BY <3>1, <3>2 DEF Line
  <2> QED
    BY <2>1, <2>2, <2>3
<1>5. \A l \in Range(q) : text'[l] = text[l]
  <2>1. LogSink \in Holders(ent)
    BY DEF Holders
  <2>2. ent \notin Range(q)
    BY <1>2, <2>1, OnlyPlace, LinesApart
  <2>3. Range(q) \subseteq AllLines
    BY <1>2, RangeInside, LinesApart
  <2> QED
    BY <1>1, <2>2, <2>3 DEF LineTyped
<1>6. DOMAIN q = 1 .. Len(q) /\ \A i \in 1 .. Len(q) : q[i] \in Range(q)
  BY <1>2 DEF Range
<1>7. Line' = [i \in 1 .. Len(q) |-> text'[q[i]]]
  BY <1>3, <1>6 DEF Line
<1>8. Tail(Line) = [i \in 1 .. Len(q) |-> Line[i + 1]]
  <2> DEFINE t == Tail(Line)
  <2>1. t \in Seq(Messages) /\ DOMAIN t = 1 .. Len(q) /\ \A i \in 1 .. Len(q) : t[i] = Line[i + 1]
    BY <1>4, TailPart
  <2> HIDE DEF t
  <2>2. t = [i \in 1 .. Len(q) |-> Line[i + 1]]
    BY <2>1
  <2> QED
    BY <2>2 DEF t
<1> QED
  BY <1>4, <1>5, <1>6, <1>7, <1>8

LEMMA FreeLine == ASSUME LogInvariant, CtlFree PROVE Line' = <<>>
<1> USE DEF LogInvariant
<1>1. ctl = "free" /\ UNCHANGED thr /\ inq' = [inq EXCEPT ![LogSink] = <<>>]
  BY DEF CtlFree, thrVars
<1>2. ~Reading' /\ inq'[LogSink] = <<>>
  BY <1>1, LinesApart DEF Staged, Reading, LineTyped
<1>3. Lane' = <<>>
  BY <1>2 DEF Lane
<1> QED
  BY <1>3 DEF Line

LEMMA StayLine ==
  ASSUME LogInvariant, [Next]_vars, ~ThrReturn, ~CtlFree, \A p \in Producers : ~Gives(p)
  PROVE  Line' = Line
<1> USE DEF LogInvariant
<1>0. Frames /\ LineMoves
  BY FramesHold, LineMovesHold
<1>1. Lane \in Seq(Lines[LogSink]) /\ Range(Lane) \subseteq Lines[LogSink]
  BY LaneIs, RangeInside
<1>2. ASSUME Lane' = Lane, \A l \in Lines[LogSink] : text'[l] = text[l] PROVE Line' = Line
  BY <1>1, <1>2 DEF Line, Range
<1>3. ASSUME UNCHANGED thrVars \/ (Reading' <=> Reading), UNCHANGED ent,
             inq'[LogSink] = inq[LogSink]
      PROVE  Lane' = Lane
  BY <1>3 DEF Lane, thrVars, Reading
<1>4. CASE UNCHANGED <<lineVars, hand, ent>>
  <2>1. ~ThrTake
    <3>1. ThrTake => ent = NULL /\ ent' \in Lines[LogSink]
      BY LinesApart DEF ThrTake, LineTyped, ThrTyped
    <3> QED
      BY <1>4, <3>1, LinesApart
  <2>2. Reading' <=> Reading
    BY <1>0, <2>1 DEF Frames, thrVars, ThrStep, ThrEmpty, ThrCheck, ThrLock, ThrOffer,
         InitCreate, TermJoin, Reading, Staged
  <2> QED
    BY <1>2, <1>3, <1>4, <2>2 DEF lineVars
<1>5. ASSUME NEW p \in Producers, MsgTake(p) PROVE Line' = Line
  BY <1>2, <1>3, <1>5 DEF MsgTake, thrVars
<1>6. ASSUME NEW p \in Producers, MsgCopy(p) PROVE Line' = Line
  BY <1>6, GiveLine DEF Gives
<1>7. CASE ThrTake
  <2>1. /\ ~Reading /\ Reading' /\ inq[LogSink] # <<>> /\ ent' = Head(inq[LogSink])
        /\ inq'[LogSink] = Tail(inq[LogSink]) /\ text' = text
    BY <1>7, LinesApart DEF ThrTake, Reading, LineTyped
  <2>2. <<Head(inq[LogSink])>> \o Tail(inq[LogSink]) = inq[LogSink]
    BY <2>1, LinesApart DEF LineTyped
  <2> QED
    BY <1>2, <2>1, <2>2 DEF Lane
<1>8. CASE InitFill
  BY <1>2, <1>3, <1>8 DEF InitFill, thrVars
<1>9. ASSUME NEW s \in AppSinks, AppConsume(s) PROVE Line' = Line
  <2>1. /\ inq[s] # <<>> /\ inq' = [inq EXCEPT ![s] = Tail(inq[s])]
        /\ text' = [text EXCEPT ![Head(inq[s])] = NULL] /\ UNCHANGED <<thr, ent, rest>>
    BY <1>9 DEF AppConsume, thrVars
  <2>2. Head(inq[s]) \in Lines[s]
    BY <2>1, LinesApart DEF LineTyped
  <2>3. inq'[LogSink] = inq[LogSink] /\ \A l \in Lines[LogSink] : text'[l] = text[l]
    BY <2>1, <2>2, LinesApart DEF LineTyped
  <2> QED
    BY <1>2, <1>3, <2>1, <2>3 DEF thrVars
<1> QED
  BY <1>0, <1>4, <1>5, <1>6, <1>7, <1>8, <1>9 DEF LineMoves

\* The list grows at its end by what calls give, and shrinks at its front.
LEMMA LineSteps ==
  ASSUME LogInvariant, [Next]_vars
  PROVE  /\ Line \in Seq(Messages) /\ Line' \in Seq(Messages)
         /\ \/ Line' = Line
            \/ \E p \in Producers : Gives(p) /\ Line' = Append(Line, msg[p])
            \/ ThrReturn /\ Line # <<>> /\ Line' = Tail(Line)
            \/ CtlFree /\ Line' = <<>>
<1>1. Line \in Seq(Messages)
  BY LaneIs DEF LogInvariant
<1>2. \A p \in Producers : Gives(p) => msg[p] \in Messages
  BY DEF Gives, MsgCopy, Visits, LogInvariant, MsgTyped
<1>3. ASSUME NEW p \in Producers, Gives(p)
      PROVE  Line' = Append(Line, msg[p]) /\ Line' \in Seq(Messages)
  BY <1>1, <1>2, <1>3, GiveLine DEF Gives
<1>4. CASE ThrReturn
  BY <1>1, <1>4, ReturnLine, TailPart
<1>5. CASE CtlFree
  BY <1>1, <1>5, FreeLine
<1>6. CASE ~ThrReturn /\ ~CtlFree /\ \A p \in Producers : ~Gives(p)
  BY <1>1, <1>6, StayLine
<1> QED
  BY <1>1, <1>3, <1>4, <1>5, <1>6

LEMMA MessageParts ==
  ASSUME NEW m \in Messages
  PROVE  m.by \in Producers /\ m.nr \in Nat /\ m.nr >= 1
<1>1. PICK p \in Producers : m \in [by : {p}, nr : 1 .. MessageLimit[p], kind : Kinds[p]]
  BY DEF Messages
<1>2. MessageLimit[p] \in Nat
  BY ProducersAssumption
<1> QED
  BY <1>1, <1>2

\* What a callback is given comes from a call, or is the first on the way.
LEMMA GotSteps ==
  ASSUME LogInvariant, [Next]_vars
  PROVE  \/ got' = got
         \/ \E p \in Producers, d \in DirectSinks :
              /\ MsgOffer(p) /\ pc[p] = "direct" /\ todo[p] # <<>> /\ d = Head(todo[p])
              /\ Accepts(d, msg[p]) /\ got' = [got EXCEPT ![d] = Append(got[d], msg[p])]
         \/ \E d \in DirectSinks :
              /\ ThrOffer /\ Line # <<>> /\ rest # <<>> /\ d = Head(rest)
              /\ Accepts(d, Line[1]) /\ got' = [got EXCEPT ![d] = Append(got[d], Line[1])]
<1>1. Frames
  BY FramesHold
<1>2. ASSUME NEW p \in Producers, MsgOffer(p), got' # got
      PROVE  \E d \in DirectSinks :
               /\ pc[p] = "direct" /\ todo[p] # <<>> /\ d = Head(todo[p])
               /\ Accepts(d, msg[p]) /\ got' = [got EXCEPT ![d] = Append(got[d], msg[p])]
  BY <1>2 DEF MsgOffer, Visits, Offer
<1>3. ASSUME ThrOffer, got' # got
      PROVE  \E d \in DirectSinks :
               /\ Line # <<>> /\ rest # <<>> /\ d = Head(rest)
               /\ Accepts(d, Line[1]) /\ got' = [got EXCEPT ![d] = Append(got[d], Line[1])]
  <2>1. /\ rest # <<>> /\ Accepts(Head(rest), text[ent]) /\ Reading /\ rest \in Seq(DirectSinks)
        /\ got' = [got EXCEPT ![Head(rest)] = Append(@, text[ent])]
    BY <1>3 DEF ThrOffer, Offer, Reading, LogInvariant, ThrTyped
  <2>2. Line # <<>> /\ Line[1] = text[ent]
    BY <2>1, LaneIs DEF LogInvariant
  <2>3. Head(rest) \in DirectSinks
    BY <2>1
  <2>4. got' = [got EXCEPT ![Head(rest)] = Append(got[Head(rest)], Line[1])]
    BY <2>1, <2>2
  <2> QED
    BY <2>1, <2>2, <2>3, <2>4
<1> QED
  BY <1>1, <1>2, <1>3 DEF Frames

\* The messages of the calls under way.
InCall == {msg[p] : p \in {q \in Producers : pc[q] # "idle"}}

\* What a step can do to the call of p.
LEMMA CallSteps ==
  ASSUME LogInvariant, [Next]_vars, NEW p \in Producers
  PROVE  \/ UNCHANGED <<pc[p], msg[p], todo[p], sent[p]>>
         \/ MsgCall(p)
         \/ MsgStep(p) /\ pc[p] # "idle" /\ UNCHANGED sent
              /\ (pc'[p] # "idle" => msg'[p] = msg[p])
<1> USE DEF LogInvariant, MsgTyped
<1>0. Frames
  BY FramesHold
<1>1. CASE UNCHANGED msgVars \/ InitAlloc \/ TermStop
  BY <1>1 DEF msgVars, InitAlloc, TermStop
<1>2. ASSUME NEW q \in Producers, MsgCall(q), q # p
      PROVE  UNCHANGED <<pc[p], msg[p], todo[p], sent[p]>>
  BY <1>2 DEF MsgCall, Goto
<1>3. ASSUME NEW q \in Producers, MsgStep(q), q # p
      PROVE  UNCHANGED <<pc[p], msg[p], todo[p], sent[p]>>
  BY <1>3 DEF MsgStep, MsgSkip, MsgBadFormat, MsgTake, MsgNoLine, MsgCopy, MsgQueuedDone,
       MsgThreaded, MsgDirect, MsgOffer, MsgDirectDone, Return, NextSink, Goto
<1>4. ASSUME MsgStep(p)
      PROVE  pc[p] # "idle" /\ UNCHANGED sent /\ (pc'[p] # "idle" => msg'[p] = msg[p])
  BY <1>4 DEF MsgStep, MsgSkip, MsgBadFormat, MsgTake, MsgNoLine, MsgCopy, MsgQueuedDone,
       MsgThreaded, MsgDirect, MsgOffer, MsgDirectDone, Return, NextSink, Goto, Visits
<1> QED
  BY <1>0, <1>1, <1>2, <1>3, <1>4 DEF Frames

LEMMA CallStarts ==
  ASSUME LogInvariant, NEW p \in Producers, MsgCall(p)
  PROVE  /\ pc[p] = "idle" /\ pc'[p] = "queued" /\ sent'[p] = sent[p] + 1 /\ todo'[p] = queued
         /\ msg'[p].by = p /\ msg'[p].nr = sent'[p] /\ quiet'[p] = (ctl = "idle")
         /\ \A q \in Producers \ {p} : sent'[q] = sent[q] /\ msg'[q] = msg[q] /\ pc'[q] = pc[q]
                                      /\ todo'[q] = todo[q] /\ quiet'[q] = quiet[q]
BY DEF MsgCall, Goto, LogInvariant, MsgTyped

LEMMA MineKept == ASSUME LogInvariant, Mine, [Next]_vars PROVE Mine'
<1>1. ASSUME NEW p \in Producers, pc'[p] # "idle" PROVE msg'[p].by = p /\ msg'[p].nr = sent'[p]
  BY <1>1, CallSteps, CallStarts DEF Mine
<1> QED
  BY <1>1 DEF Mine

LEMMA SentGrows ==
  ASSUME LogInvariant, [Next]_vars, NEW p \in Producers
  PROVE  sent[p] \in Nat /\ sent'[p] \in Nat /\ sent[p] <= sent'[p]
<1>1. sent[p] \in Nat /\ sent'[p] \in Nat
  BY NextInvariant DEF LogInvariant, MsgTyped
<1>2. sent'[p] = sent[p] \/ sent'[p] = sent[p] + 1
  BY CallSteps, CallStarts
<1> QED
  BY <1>1, <1>2

LEMMA OwedLostSteps ==
  ASSUME LogInvariant, [Next]_vars
  PROVE  owed' \subseteq owed \cup InCall /\ lost' \subseteq lost \cup Range(Line)
<1>0. Frames
  BY FramesHold
<1>1. owed' \subseteq owed \cup InCall
  <2>1. ASSUME NEW p \in Producers, MsgStep(p) PROVE owed' \subseteq owed \cup InCall
    <3>1. pc[p] # "idle"
      BY <2>1 DEF MsgStep, MsgSkip, MsgBadFormat, MsgTake, MsgNoLine, MsgCopy, MsgQueuedDone,
           MsgThreaded, MsgDirect, MsgOffer, MsgDirectDone, Visits
    <3>2. owed' \subseteq owed \cup {msg[p]}
      BY <2>1 DEF MsgStep, MsgSkip, MsgBadFormat, MsgTake, MsgNoLine, MsgCopy, MsgQueuedDone,
           MsgThreaded, MsgDirect, MsgOffer, MsgDirectDone, Return
    <3> QED
      BY <3>1, <3>2 DEF InCall
  <2> QED
    BY <1>0, <2>1 DEF Frames, msgVars, InitAlloc, TermStop, MsgCall
<1>2. lost' \subseteq lost \cup Range(Line)
  <2>1. CASE CtlFree
    <3>1. lost' = lost \cup Contents(inq[LogSink])
      BY <2>1 DEF CtlFree
    <3>2. ~Reading
      BY <2>1 DEF CtlFree, LogInvariant, Staged, Reading
    <3>3. Contents(inq[LogSink]) = Range(Line)
      BY <3>2 DEF Contents, Line, Lane, Range
    <3> QED
      BY <3>1, <3>3
  <2>2. CASE ~CtlFree
    BY <1>0, <2>2 DEF Frames, ctlVars, CtlCall, CtlStep, InitPlain, InitAlloc, TermStop,
         InitFill, InitFillFails, InitRegister, InitCreate, TermJoin, CtlUnregister
  <2> QED
    BY <2>1, <2>2
<1> QED
  BY <1>1, <1>2

LEMMA AllLoggedKept ==
  ASSUME LogInvariant, Mine, AllLogged, [Next]_vars PROVE AllLogged'
<1>0. LogInvariant'
  BY NextInvariant
<1>1. ASSUME NEW m \in Messages, Logged(m) PROVE Logged(m)'
  BY <1>1, SentGrows, MessageParts DEF Logged
<1>2. InCall \subseteq Messages /\ \A m \in InCall : Logged(m)
  BY DEF InCall, Mine, Logged, LogInvariant, MsgTyped
<1>3. Line \in Seq(Messages) /\ Range(Line) \subseteq Messages
  BY LineSteps, RangeInside
<1>4. ASSUME NEW p \in Producers, Gives(p) PROVE msg[p] \in InCall
  BY <1>4 DEF Gives, MsgCopy, Visits, InCall
<1>5. Range(Line') \subseteq Range(Line) \cup InCall
  <2>1. CASE Line' = Line
    BY <2>1
  <2>2. ASSUME NEW p \in Producers, Gives(p), Line' = Append(Line, msg[p])
        PROVE  Range(Line') \subseteq Range(Line) \cup InCall
    BY <1>2, <1>3, <1>4, <2>2, RangeAppend
  <2>3. CASE Line # <<>> /\ Line' = Tail(Line)
    BY <1>3, <2>3, TailPart
  <2>4. CASE Line' = <<>>
    BY <2>4 DEF Range
  <2> QED
    BY <2>1, <2>2, <2>3, <2>4, LineSteps
<1>6. \A m \in Range(Line') \cup lost' \cup owed' : Logged(m)'
  <2>1. lost \subseteq Messages /\ owed \subseteq Messages
    BY DEF LogInvariant, GotTyped, MsgTyped
  <2> QED
    BY <1>1, <1>2, <1>3, <1>5, <2>1, OwedLostSteps DEF AllLogged
<1>7. ASSUME NEW d \in DirectSinks, NEW m \in Range(got'[d]) PROVE Logged(m)'
  <2>1. got \in [DirectSinks -> Seq(Messages)]
    BY DEF LogInvariant, GotTyped
  <2>2. ASSUME NEW n \in InCall \cup Range(Line), NEW c \in DirectSinks,
               got' = [got EXCEPT ![c] = Append(got[c], n)]
        PROVE  m \in Range(got[d]) \cup {n}
    <3>1. n \in Messages
      BY <1>2, <1>3, <2>2
    <3> QED
      BY <1>7, <2>1, <2>2, <3>1, RangeAppend
  <2>3. m \in Range(got[d]) \cup InCall \cup Range(Line)
    <3>1. \A p \in Producers : pc[p] = "direct" => msg[p] \in InCall
      BY DEF InCall
    <3>2. Line # <<>> => Line[1] \in Range(Line)
      BY <1>3, TailPart
    <3> QED
      BY <1>7, <2>2, <3>1, <3>2, GotSteps
  <2>4. Range(got[d]) \subseteq Messages
    BY <2>1, RangeInside
  <2> QED
    BY <1>1, <1>2, <1>3, <2>3, <2>4 DEF AllLogged
<1> QED
  BY <1>6, <1>7 DEF AllLogged

\* A message given now is younger than those on their way.
LEMMA GiveYounger ==
  ASSUME LogInvariant, Mine, Outside, NEW p \in Producers, Gives(p), NEW m \in Range(Line)
  PROVE  Older(m, msg[p])
<1>1. pc[p] = "copy" /\ todo[p] # <<>> /\ Head(todo[p]) = LogSink /\ todo[p] \in Seq(Sinks)
  BY DEF Gives, MsgCopy, Visits, LogInvariant, MsgTyped
<1>2. LogSink \in Range(todo[p])
  BY <1>1, TailPart
<1> QED
  BY <1>1, <1>2 DEF Outside, ToCome, Mine, Older

LEMMA LineInOrderKept ==
  ASSUME LogInvariant, Mine, Outside, LineInOrder, [Next]_vars PROVE LineInOrder'
<1>1. Line \in Seq(Messages) /\ DOMAIN Line = 1 .. Len(Line) /\ Len(Line) \in Nat
  BY LineSteps
<1>2. ASSUME NEW p \in Producers, Gives(p), Line' = Append(Line, msg[p]) PROVE LineInOrder'
  <2> DEFINE n == Len(Line)
             K == Append(Line, msg[p])
  <2>1. msg[p] \in Messages
    BY <1>2 DEF Gives, MsgCopy, Visits, LogInvariant, MsgTyped
  <2>2. /\ DOMAIN K = 1 .. n + 1 /\ K[n + 1] = msg[p] /\ \A i \in 1 .. n : K[i] = Line[i]
        /\ \A i \in 1 .. n : Line[i] \in Range(Line)
    BY <1>1, <2>1 DEF Range
  <2>3. \A m \in Range(Line) : Older(m, msg[p])
    BY <1>2, GiveYounger
  <2> HIDE DEF K
  <2>4. ASSUME NEW i \in 1 .. n + 1, NEW j \in 1 .. n + 1, i < j PROVE Older(K[i], K[j])
    <3>1. i \in 1 .. n
      BY <1>1, <2>4
    <3>2. CASE j = n + 1
      BY <2>2, <2>3, <3>1, <3>2
    <3>3. CASE j # n + 1
      <4>1. j \in 1 .. n
        BY <1>1, <3>3
      <4> QED
        BY <1>1, <2>2, <2>4, <3>1, <4>1 DEF LineInOrder
    <3> QED
      BY <3>2, <3>3
  <2>5. Line' = K
    BY <1>2 DEF K
  <2> QED
    BY <2>2, <2>4, <2>5 DEF LineInOrder, Older
<1>3. CASE Line # <<>> /\ Line' = Tail(Line)
  <2> DEFINE K == Tail(Line)
  <2>1. DOMAIN K = 1 .. Len(Line) - 1 /\ \A i \in 1 .. Len(Line) - 1 : K[i] = Line[i + 1]
    BY <1>1, <1>3, TailPart
  <2> HIDE DEF K
  <2>2. ASSUME NEW i \in DOMAIN K, NEW j \in DOMAIN K, i < j PROVE Older(K[i], K[j])
    <3>1. i + 1 \in DOMAIN Line /\ j + 1 \in DOMAIN Line /\ i + 1 < j + 1
      BY <1>1, <2>1, <2>2
    <3> QED
      BY <2>1, <2>2, <3>1 DEF LineInOrder
  <2>3. Line' = K
    BY <1>3 DEF K
  <2> QED
    BY <2>2, <2>3 DEF LineInOrder, Older
<1>4. CASE Line' = Line
  BY <1>4 DEF LineInOrder, Older
<1>5. CASE Line' = <<>>
  BY <1>5 DEF LineInOrder
<1> QED
  BY <1>2, <1>3, <1>4, <1>5, LineSteps

\* What a step can do to the sinks that the call of p has left to visit.
LEMMA TodoSteps ==
  ASSUME LogInvariant, [Next]_vars, NEW p \in Producers
  PROVE  \/ todo'[p] = todo[p] \/ todo'[p] = <<>>
         \/ MsgCall(p) /\ todo'[p] = queued
         \/ MsgDirect(p) /\ todo'[p] = direct
         \/ todo[p] # <<>> /\ todo'[p] = Tail(todo[p])
<1> USE DEF LogInvariant, MsgTyped
<1>1. ASSUME MsgStep(p)
      PROVE  \/ todo'[p] = todo[p] \/ todo'[p] = <<>>
             \/ MsgDirect(p) /\ todo'[p] = direct
             \/ todo[p] # <<>> /\ todo'[p] = Tail(todo[p])
  BY <1>1 DEF MsgStep, MsgSkip, MsgBadFormat, MsgTake, MsgNoLine, MsgCopy, MsgQueuedDone,
       MsgThreaded, MsgDirect, MsgOffer, MsgDirectDone, Return, NextSink, Goto, Visits
<1> QED
  BY <1>1, CallSteps, CallStarts

LEMMA EmptyList == Range(<<>>) = {} /\ IsInjective(<<>>)
BY DEF Range, IsInjective

LEMMA DistinctKept == ASSUME LogInvariant, Distinct, [Next]_vars PROVE Distinct'
<1>1. IsInjective(direct) /\ IsInjective(queued) /\ rest \in Seq(DirectSinks)
  BY DEF LogInvariant, SinkTyped, ThrTyped
<1>2. IsInjective(rest')
  <2>1. rest' = rest \/ rest' = direct \/ (rest # <<>> /\ rest' = Tail(rest))
    BY FramesHold DEF Frames, thrVars, ThrStep, ThrTake, ThrEmpty, ThrCheck, ThrLock, ThrOffer,
       ThrReturn, InitCreate, TermJoin
  <2> QED
    BY <1>1, <2>1, ListTail DEF Distinct
<1>3. ASSUME NEW p \in Producers PROVE IsInjective(todo'[p])
  <2>1. todo[p] \in Seq(Sinks)
    BY DEF LogInvariant, MsgTyped
  <2> QED
    BY <1>1, <2>1, EmptyList, ListTail, TodoSteps DEF Distinct
<1> QED
  BY <1>2, <1>3 DEF Distinct

\* Without a log thread nothing is on its way.
LEMMA NoThreadNoLine == ASSUME LogInvariant, ~log_thread PROVE Line = <<>>
<1> USE DEF LogInvariant
<1>1. ctl = "idle" /\ thr = "none" /\ ~Reading
  BY DEF Staged, Reading
<1>2. Allowed(LogSink) = {0}
  BY <1>1, AllowedIs
<1>3. inq[LogSink] \in Seq(Lines[LogSink])
  BY LinesApart DEF LineTyped
<1>4. ASSUME inq[LogSink] # <<>> PROVE FALSE
  <2> DEFINE l == Head(inq[LogSink])
  <2>1. l \in Lines[LogSink] /\ l \in Range(inq[LogSink])
    BY <1>3, <1>4, TailPart
  <2>2. Times(l, inq[LogSink]) \in Nat /\ Times(l, inq[LogSink]) # 0
    BY <1>3, <2>1, TimesFinite
  <2>3. CountOf(l, LogSink) = 0
    BY <1>2, <2>1, LinesApart DEF Placed
  <2> HIDE DEF l
  <2> QED
    BY <2>2, <2>3, CountParts, LinesApart DEF CountOf
<1>5. Lane = <<>>
  BY <1>1, <1>4 DEF Lane
<1> QED
  BY <1>5 DEF Line

LEMMA OutsideKept ==
  ASSUME LogInvariant, Mine, AllLogged, Outside, Distinct, [Next]_vars PROVE Outside'
<1> SUFFICES ASSUME NEW p \in Producers, NEW m \in Range(Line'), m.by = p
             PROVE  pc'[p] # "direct" /\ (ToCome(p)' => m.nr < sent'[p])
  BY DEF Outside
<1>0. /\ Line \in Seq(Messages) /\ Range(Line) \subseteq Messages /\ todo[p] \in Seq(Sinks)
      /\ sent[p] \in Nat
  BY LineSteps, RangeInside DEF LogInvariant, MsgTyped
<1>1. ASSUME m \in Range(Line) PROVE pc'[p] # "direct" /\ (ToCome(p)' => m.nr < sent'[p])
  <2>1. pc[p] # "direct" /\ (ToCome(p) => m.nr < sent[p]) /\ m \in Messages
    BY <1>0, <1>1 DEF Outside
  <2>2. CASE UNCHANGED <<pc[p], msg[p], todo[p], sent[p]>>
    BY <2>1, <2>2 DEF ToCome
  <2>3. CASE MsgCall(p)
    <3>1. m.nr <= sent[p] /\ m.nr \in Nat
      BY <1>1, <2>1, MessageParts DEF AllLogged, Logged
    <3> QED
      BY <1>0, <2>3, <3>1, CallStarts
  <2>4. CASE MsgStep(p) /\ pc[p] # "idle" /\ UNCHANGED sent
    <3>1. Range(Line) # {}
      BY <1>1
    <3>2. ~MsgDirect(p)
      BY <3>1, NoThreadNoLine, EmptyList DEF MsgDirect
    <3>3. pc'[p] # "direct"
      BY <2>1, <2>4, <3>2 DEF MsgStep, MsgSkip, MsgBadFormat, MsgTake, MsgNoLine, MsgCopy,
         MsgQueuedDone, MsgThreaded, MsgOffer, MsgDirectDone, Return, NextSink, Goto, Visits,
         LogInvariant, MsgTyped
    <3>4. pc'[p] \in {"queued", "copy"} => pc[p] \in {"queued", "copy"}
      BY <2>4, <3>2 DEF MsgStep, MsgSkip, MsgBadFormat, MsgTake, MsgNoLine, MsgCopy,
         MsgQueuedDone, MsgThreaded, MsgOffer, MsgDirectDone, Return, NextSink, Goto, Visits,
         LogInvariant, MsgTyped
    <3>5. ~MsgCall(p)
      BY <2>4 DEF MsgCall
    <3>6. LogSink \in Range(todo'[p]) => LogSink \in Range(todo[p])
      BY <1>0, <3>2, <3>5, TodoSteps, TailPart, EmptyList
    <3> QED
      BY <2>1, <2>4, <3>3, <3>4, <3>6 DEF ToCome
  <2> QED
    BY <2>2, <2>3, <2>4, CallSteps
<1>2. ASSUME NEW q \in Producers, Gives(q), m = msg[q]
      PROVE  pc'[p] # "direct" /\ (ToCome(p)' => m.nr < sent'[p])
  <2>1. q = p
    BY <1>2 DEF Mine, Gives, MsgCopy, Visits
  <2>2. /\ pc'[p] = "queued" /\ todo[p] # <<>> /\ Head(todo[p]) = LogSink
        /\ todo'[p] = Tail(todo[p])
    BY <1>2, <2>1 DEF Gives, MsgCopy, Visits, NextSink, Goto, LogInvariant, MsgTyped
  <2>3. LogSink \notin Range(todo'[p])
    BY <1>0, <2>2, ListTail DEF Distinct
  <2> QED
    BY <2>2, <2>3 DEF ToCome
<1>3. m \in Range(Line) \/ \E q \in Producers : Gives(q) /\ m = msg[q]
  <2>1. ASSUME NEW q \in Producers, Gives(q), Line' = Append(Line, msg[q])
        PROVE  m \in Range(Line) \/ m = msg[q]
    <3>1. msg[q] \in Messages
      BY <2>1 DEF Gives, MsgCopy, Visits, LogInvariant, MsgTyped
    <3> QED
      BY <1>0, <2>1, <3>1, RangeAppend
  <2>2. CASE Line # <<>> /\ Line' = Tail(Line)
    BY <1>0, <2>2, TailPart
  <2> QED
    BY <2>1, <2>2, LineSteps, EmptyList
<1> QED
  BY <1>1, <1>2, <1>3

\* What is given to a callback is not older than what it was given before, and
\* not newer than what is on its way.
LEMMA CallBetween ==
  ASSUME LogInvariant, Mine, AllLogged, Outside, NEW p \in Producers, pc[p] = "direct"
  PROVE  /\ msg[p] \in Messages
         /\ \A n \in Range(Line) : NotNewer(msg[p], n)
         /\ \A d \in DirectSinks : \A m \in Range(got[d]) : NotNewer(m, msg[p])
<1>1. msg[p] \in Messages /\ msg[p].by = p /\ msg[p].nr = sent[p]
  BY DEF LogInvariant, MsgTyped, Mine
<1>2. \A n \in Range(Line) : n.by # p
  BY DEF Outside
<1> QED
  BY <1>1, <1>2 DEF AllLogged, Logged, NotNewer

LEMMA FirstBetween ==
  ASSUME LogInvariant, LineInOrder, GotBefore, Line # <<>>
  PROVE  /\ Line[1] \in Messages /\ Line[1] \in Range(Line)
         /\ \A n \in Range(Line) : NotNewer(Line[1], n)
         /\ \A d \in DirectSinks : \A m \in Range(got[d]) : NotNewer(m, Line[1])
<1>1. Line \in Seq(Messages)
  BY LaneIs DEF LogInvariant
<1>2. /\ DOMAIN Line = 1 .. Len(Line) /\ Len(Line) \in Nat \ {0}
      /\ Line[1] \in Messages /\ Line[1] \in Range(Line)
  BY <1>1, TailPart
<1>3. ASSUME NEW n \in Range(Line) PROVE NotNewer(Line[1], n)
  <2>1. PICK j \in 1 .. Len(Line) : n = Line[j]
    BY <1>2 DEF Range
  <2>2. Line[1].nr \in Nat
    BY <1>2, MessageParts
  <2>3. CASE j = 1
    BY <2>1, <2>2, <2>3 DEF NotNewer
  <2>4. CASE j # 1
    <3>1. n \in Messages /\ n.nr \in Nat
      BY <1>1, <1>2, <2>1, MessageParts
    <3>2. Older(Line[1], Line[j])
      BY <1>2, <2>1, <2>4 DEF LineInOrder
    <3> QED
      BY <2>1, <2>2, <3>1, <3>2 DEF Older, NotNewer
  <2> QED
    BY <2>3, <2>4
<1> QED
  BY <1>2, <1>3 DEF GotBefore

\* What a step gives to a callback: nothing, or one message in between.
LEMMA GotGrows ==
  ASSUME LogInvariant, OrderInvariant, [Next]_vars
  PROVE  \/ got' = got
         \/ \E d \in DirectSinks, m \in Messages :
              /\ Line' = Line /\ got' = [got EXCEPT ![d] = Append(got[d], m)]
              /\ \A n \in Range(Line) : NotNewer(m, n)
              /\ \A n \in Range(got[d]) : NotNewer(n, m)
<1> USE DEF OrderInvariant
<1>1. ASSUME NEW p \in Producers, MsgOffer(p) PROVE Line' = Line
  BY <1>1 DEF MsgOffer, thrVars, lineVars, Line, Lane, Reading
<1>2. ASSUME ThrOffer PROVE Line' = Line
  BY <1>2 DEF ThrOffer, lineVars, Line, Lane, Reading
<1> QED
  BY <1>1, <1>2, GotSteps, CallBetween, FirstBetween

LEMMA GotBeforeKept ==
  ASSUME LogInvariant, OrderInvariant, [Next]_vars PROVE GotBefore'
<1> SUFFICES ASSUME NEW d \in DirectSinks, NEW m \in Range(got'[d]), NEW n \in Range(Line')
             PROVE  NotNewer(m, n)
  BY DEF GotBefore, NotNewer
<1>0. /\ Line \in Seq(Messages) /\ Range(Line) \subseteq Messages
      /\ got \in [DirectSinks -> Seq(Messages)] /\ Range(got[d]) \subseteq Messages
  BY LineSteps, RangeInside DEF LogInvariant, GotTyped
<1>1. CASE got' = got
  <2>1. CASE n \in Range(Line)
    BY <1>1, <2>1 DEF OrderInvariant, GotBefore
  <2>2. ASSUME NEW p \in Producers, Gives(p), n = msg[p] PROVE NotNewer(m, n)
    <3>1. n.by = p /\ n.nr = sent[p]
      BY <2>2 DEF OrderInvariant, Mine, Gives, MsgCopy, Visits
    <3>2. Logged(m)
      BY <1>1 DEF OrderInvariant, AllLogged
    <3> QED
      BY <3>1, <3>2 DEF Logged, NotNewer
  <2>3. n \in Range(Line) \/ \E p \in Producers : Gives(p) /\ n = msg[p]
    <3>1. ASSUME NEW q \in Producers, Gives(q), Line' = Append(Line, msg[q])
          PROVE  n \in Range(Line) \/ n = msg[q]
      <4>1. msg[q] \in Messages
        BY <3>1 DEF Gives, MsgCopy, Visits, LogInvariant, MsgTyped
      <4> QED
        BY <1>0, <3>1, <4>1, RangeAppend
    <3>2. CASE Line # <<>> /\ Line' = Tail(Line)
      BY <1>0, <3>2, TailPart
    <3> QED
      BY <3>1, <3>2, LineSteps, EmptyList
  <2> QED
    BY <2>1, <2>2, <2>3
<1>2. ASSUME NEW c \in DirectSinks, NEW k \in Messages, Line' = Line,
             got' = [got EXCEPT ![c] = Append(got[c], k)], \A x \in Range(Line) : NotNewer(k, x)
      PROVE  NotNewer(m, n)
  <2>1. m \in Range(got[d]) \/ m = k
    BY <1>0, <1>2, RangeAppend
  <2> QED
    BY <1>2, <2>1 DEF OrderInvariant, GotBefore
<1> QED
  BY <1>1, <1>2, GotGrows

LEMMA InOrderKept == ASSUME LogInvariant, OrderInvariant, [Next]_vars PROVE InOrder'
<1>1. CASE got' = got
  BY <1>1 DEF OrderInvariant, InOrder
<1>2. ASSUME NEW c \in DirectSinks, NEW k \in Messages,
             got' = [got EXCEPT ![c] = Append(got[c], k)],
             \A x \in Range(got[c]) : NotNewer(x, k)
      PROVE  InOrder'
  <2> SUFFICES ASSUME NEW d \in DirectSinks, NEW i \in DOMAIN got'[d], NEW j \in DOMAIN got'[d],
                      i < j
               PROVE  NotNewer(got'[d][i], got'[d][j])
    BY DEF InOrder, NotNewer
  <2>1. got \in [DirectSinks -> Seq(Messages)]
    BY DEF LogInvariant, GotTyped
  <2>2. CASE d # c
    <3>1. got'[d] = got[d]
      BY <1>2, <2>1, <2>2
    <3> QED
      BY <3>1 DEF OrderInvariant, InOrder, NotNewer
  <2>3. CASE d = c
    <3> DEFINE q == got[c]
               n == Len(q)
    <3>1. q \in Seq(Messages) /\ n \in Nat /\ DOMAIN q = 1 .. n
      BY <2>1
    <3>2. \A x \in 1 .. n : q[x] \in Range(q)
      BY <3>1 DEF Range
    <3>3. got'[d] = Append(q, k)
      BY <1>2, <2>1, <2>3
    <3>4. DOMAIN got'[d] = 1 .. n + 1 /\ got'[d][n + 1] = k /\ \A x \in 1 .. n : got'[d][x] = q[x]
      BY <3>1, <3>3
    <3>5. i \in 1 .. n /\ j \in 1 .. n + 1
      BY <3>1, <3>4
    <3>6. CASE j = n + 1
      BY <1>2, <3>2, <3>4, <3>5, <3>6
    <3>7. CASE j # n + 1
      <4>1. j \in 1 .. n
        BY <3>1, <3>5, <3>7
      <4>2. q[i].by = q[j].by => q[i].nr <= q[j].nr
        BY <3>1, <3>5, <4>1 DEF OrderInvariant, InOrder
      <4> QED
        BY <3>4, <3>5, <4>1, <4>2 DEF NotNewer
    <3> QED
      BY <3>6, <3>7
  <2> QED
    BY <2>2, <2>3
<1> QED
  BY <1>1, <1>2, GotGrows

LEMMA InitOrder == ASSUME Init PROVE OrderInvariant
<1>1. /\ Line = <<>> /\ got = [d \in DirectSinks |-> <<>>] /\ owed = {} /\ lost = {}
      /\ rest = <<>> /\ todo = [p \in Producers |-> <<>>] /\ pc = [p \in Producers |-> "idle"]
  BY LinesApart DEF Init, Line, Lane, Reading
<1>2. Mine /\ Outside /\ LineInOrder /\ GotBefore
  BY <1>1, EmptyList DEF Mine, Outside, ToCome, LineInOrder, GotBefore
<1>3. AllLogged /\ Distinct /\ InOrder
  BY <1>1, EmptyList DEF AllLogged, Distinct, InOrder
<1> QED
  BY <1>2, <1>3 DEF OrderInvariant

LEMMA NextOrder ==
  ASSUME LogInvariant, OrderInvariant, [Next]_vars PROVE OrderInvariant'
<1>1. Mine' /\ AllLogged' /\ LineInOrder' /\ Outside' /\ Distinct'
  BY MineKept, AllLoggedKept, LineInOrderKept, OutsideKept, DistinctKept DEF OrderInvariant
<1> QED
  BY <1>1, GotBeforeKept, InOrderKept DEF OrderInvariant

-----------------------------------------------------------------------------
(* How often a direct sink gets a message.                                  *)

\* The log thread is done with d for the first message on the way.
Passed(d) == thr = "offer" /\ d \notin Range(rest)
WayShape == \A m \in Messages, d \in DirectSinks :
    OnItsWay(m, d) <=> m \in Range(Line) /\ ~(Passed(d) /\ m = Line[1])

LEMMA OlderIsOther == ASSUME NEW m \in Messages PROVE ~Older(m, m)
BY MessageParts DEF Older

LEMMA LineParts ==
  ASSUME LogInvariant, LineInOrder
  PROVE  /\ Range(Line) = Contents(inq[LogSink]) \cup (IF Reading THEN {text[ent]} ELSE {})
         /\ Reading => Line # <<>> /\ Line[1] = text[ent] /\ Line[1] \notin Contents(inq[LogSink])
<1> DEFINE q == inq[LogSink]
<1>1. /\ q \in Seq(Lines[LogSink]) /\ Lane \in Seq(Lines[LogSink])
      /\ Line \in Seq(Messages) /\ Len(Line) = Len(Lane)
  BY LaneIs, LinesApart DEF LogInvariant, LineTyped
<1>2. CASE ~Reading
  BY <1>2 DEF Line, Lane, Contents, Range
<1>3. CASE Reading
  <2>1. ent \in Lines[LogSink] /\ Lane = <<ent>> \o q /\ Line # <<>> /\ Line[1] = text[ent]
    BY <1>3, LaneIs DEF Lane, LogInvariant, ThrTyped, Reading
  <2> DEFINE n == Len(q)
  <2>2. Len(Lane) = n + 1 /\ n \in Nat /\ \A i \in 2 .. n + 1 : Lane[i] = q[i - 1]
    BY <1>1, <2>1, FrontPart
  <2>3. DOMAIN q = 1 .. n /\ DOMAIN Lane = 1 .. n + 1 /\ DOMAIN Line = 1 .. n + 1
    BY <1>1, <2>2
  <2>4. \A i \in 2 .. n + 1 : Line[i] = text[q[i - 1]]
    BY <2>2, <2>3 DEF Line
  <2>5. \A i \in 1 .. n : i + 1 \in 2 .. n + 1 /\ (i + 1) - 1 = i
    BY <2>2
  <2>6. \A x \in Contents(q) : \E i \in 2 .. n + 1 : x = Line[i]
    <3>1. ASSUME NEW i \in 1 .. n PROVE Line[i + 1] = text[q[i]]
      BY <2>4, <2>5
    <3> QED
      BY <2>3, <2>5, <3>1 DEF Contents
  <2>7. \A i \in 2 .. n + 1 : Line[i] \in Contents(q)
    <3>1. \A i \in 2 .. n + 1 : i - 1 \in DOMAIN q
      BY <2>2, <2>3
    <3> QED
      BY <2>4, <3>1 DEF Contents
  <2>8. Range(Line) = Contents(q) \cup {Line[1]}
    <3>1. \A i \in 1 .. n + 1 : i = 1 \/ i \in 2 .. n + 1
      BY <2>2
    <3>2. 1 \in 1 .. n + 1 /\ \A i \in 2 .. n + 1 : i \in 1 .. n + 1
      BY <2>2
    <3> QED
      BY <2>3, <2>6, <2>7, <3>1, <3>2 DEF Range
  <2>9. Line[1] \notin Contents(q)
    <3>1. ASSUME NEW i \in 2 .. n + 1 PROVE Line[1] # Line[i]
      <4>1. 1 \in DOMAIN Line /\ i \in DOMAIN Line /\ 1 < i
        BY <2>2, <2>3, <3>1
      <4>2. Older(Line[1], Line[i]) /\ Line[i] \in Messages
        BY <1>1, <4>1 DEF LineInOrder
      <4> QED
        BY <4>2, OlderIsOther
    <3> QED
      BY <2>6, <3>1
  <2> QED
    BY <1>3, <2>1, <2>8, <2>9
<1> QED
  BY <1>2, <1>3

LEMMA WayIs == LogInvariant /\ LineInOrder => WayShape
<1> SUFFICES ASSUME LogInvariant, LineInOrder, NEW m \in Messages, NEW d \in DirectSinks
             PROVE  OnItsWay(m, d) <=> m \in Range(Line) /\ ~(Passed(d) /\ m = Line[1])
  BY DEF WayShape
<1>1. thr = "offer" \/ thr = "lock" \/ ~Reading
  BY DEF Reading
<1>2. Reading <=> thr = "offer" \/ thr = "lock"
  BY DEF Reading
<1>3. thr = "lock" => thr # "offer"
  OBVIOUS
<1> QED
  BY <1>1, <1>2, <1>3, LineParts DEF OnItsWay, Passed

LEMMA WayIsNext == (LogInvariant /\ LineInOrder => WayShape)'
BY WayIs, PTL

\* The steps that bring m nearer to the callback of d.
Offers(p, d) == MsgOffer(p) /\ pc[p] = "direct" /\ todo[p] # <<>> /\ d = Head(todo[p])
Passes(m, d) == ThrOffer /\ rest # <<>> /\ d = Head(rest) /\ m = Line[1]
GivesIt(m) == \E p \in Producers : Gives(p) /\ m = msg[p]
OffersIt(m, d) == \E p \in Producers : Offers(p, d) /\ m = msg[p]

LEMMA TailOther == ASSUME NEW S, NEW q \in Seq(S), q # <<>> PROVE Tail(q) # q
<1> DEFINE t == Tail(q)
<1>1. Len(t) = Len(q) - 1 /\ Len(q) \in Nat
  BY TailPart
<1> HIDE DEF t
<1>2. t # q
  BY <1>1
<1> QED
  BY <1>2 DEF t

LEMMA Exclusive ==
  ASSUME LogInvariant
  PROVE  /\ \A p \in Producers : Gives(p) =>
              ~ThrOffer /\ ~ThrReturn /\ ~CtlFree /\ \A q \in Producers : ~MsgOffer(q)
         /\ CtlFree => ~ThrOffer /\ ~ThrReturn /\ \A q \in Producers : ~MsgOffer(q)
         /\ ThrOffer => ~ThrReturn /\ \A q \in Producers : ~MsgOffer(q)
         /\ ThrReturn => \A q \in Producers : ~MsgOffer(q)
<1> USE DEF LogInvariant
<1>1. ASSUME NEW p \in Producers, Gives(p)
      PROVE  ~ThrOffer /\ ~ThrReturn /\ ~CtlFree /\ \A q \in Producers : ~MsgOffer(q)
  <2>1. pc'[p] # pc[p]
    BY <1>1 DEF Gives, MsgCopy, Visits, Goto, MsgTyped
  <2> QED
    BY <2>1 DEF ThrOffer, ThrReturn, CtlFree, MsgOffer, msgVars
<1>2. ctl = "free" /\ ctl' = "idle" => ctl # ctl'
  OBVIOUS
<1>3. CtlFree => ~ThrOffer /\ ~ThrReturn /\ \A q \in Producers : ~MsgOffer(q)
  BY <1>2 DEF CtlFree, ThrOffer, ThrReturn, MsgOffer, ctlVars
<1>4. ThrOffer => rest' # rest /\ thr' = thr
  BY TailOther DEF ThrOffer, ThrTyped
<1>5. ThrReturn => thr' # thr
  BY DEF ThrReturn
<1>6. \A q \in Producers : MsgOffer(q) => UNCHANGED <<thr, rest>>
  BY DEF MsgOffer, thrVars
<1> QED
  BY <1>1, <1>3, <1>4, <1>5, <1>6

LEMMA PassedSteps ==
  ASSUME LogInvariant, Distinct, [Next]_vars, NEW d \in steady
  PROVE  /\ ThrReturn => Passed(d) /\ ~Passed(d)'
         /\ ThrOffer => /\ rest # <<>> /\ (Passed(d)' <=> Passed(d) \/ d = Head(rest))
                        /\ Passed(d) => d # Head(rest)
         /\ ~ThrReturn /\ ~ThrOffer => (Passed(d)' <=> Passed(d))
<1> USE DEF LogInvariant
<1>1. rest \in Seq(DirectSinks) /\ d \in Range(direct)
  BY DEF ThrTyped, SinkTyped
<1>2. ThrReturn => Passed(d) /\ ~Passed(d)'
  BY EmptyList DEF ThrReturn, Passed
<1>3. ASSUME ThrOffer
      PROVE  /\ rest # <<>> /\ (Passed(d)' <=> Passed(d) \/ d = Head(rest))
             /\ Passed(d) => d # Head(rest)
  <2>1. rest # <<>> /\ rest' = Tail(rest) /\ thr = "offer" /\ thr' = "offer"
    BY <1>3 DEF ThrOffer
  <2>2. Range(Tail(rest)) = Range(rest) \ {Head(rest)} /\ Head(rest) \in Range(rest)
    BY <1>1, <2>1, ListTail DEF Distinct
  <2> QED
    BY <2>1, <2>2 DEF Passed
<1>4. ASSUME ~ThrReturn, ~ThrOffer PROVE Passed(d)' <=> Passed(d)
  <2>1. CASE UNCHANGED thrVars
    BY <2>1 DEF thrVars, Passed
  <2>2. CASE ThrTake \/ ThrEmpty \/ ThrCheck \/ TermJoin
    BY <2>2 DEF ThrTake, ThrEmpty, ThrCheck, TermJoin, Passed
  <2>3. CASE ThrLock
    BY <1>1, <2>3 DEF ThrLock, Passed
  <2>4. CASE InitCreate
    BY <2>4 DEF InitCreate, Passed, Staged
  <2> QED
    BY <1>4, <2>1, <2>2, <2>3, <2>4, FramesHold DEF Frames, ThrStep
<1> QED
  BY <1>2, <1>3, <1>4

\* What a step does to m on its way to d.
LEMMA WaySteps ==
  ASSUME LogInvariant, OrderInvariant, [Next]_vars, NEW m \in Messages, NEW d \in steady
  PROVE  /\ GivesIt(m) => ~OnItsWay(m, d) /\ OnItsWay(m, d)'
         /\ Passes(m, d) => OnItsWay(m, d) /\ ~OnItsWay(m, d)'
         /\ CtlFree => ~OnItsWay(m, d)' /\ (OnItsWay(m, d) <=> m \in Contents(inq[LogSink]))
         /\ ~GivesIt(m) /\ ~Passes(m, d) /\ ~CtlFree => (OnItsWay(m, d)' <=> OnItsWay(m, d))
<1> USE DEF OrderInvariant
<1>0. d \in DirectSinks
  BY RangeInside DEF LogInvariant, SinkTyped
<1>1. LogInvariant' /\ OrderInvariant'
  BY NextInvariant, NextOrder
<1>2. /\ OnItsWay(m, d) <=> m \in Range(Line) /\ ~(Passed(d) /\ m = Line[1])
      /\ OnItsWay(m, d)' <=> m \in Range(Line') /\ ~(Passed(d)' /\ m = Line'[1])
  <2>1. WayShape /\ WayShape'
    BY <1>1, WayIs, WayIsNext
  <2> QED
    BY <1>0, <2>1 DEF WayShape
<1>3. Line \in Seq(Messages) /\ (Line # <<>> => Line[1] \in Range(Line))
      /\ DOMAIN Line = 1 .. Len(Line) /\ Len(Line) \in Nat
  BY LineSteps, TailPart
<1>4. Passed(d) => Line # <<>>
  BY LaneIs DEF LogInvariant, Passed, Reading
<1>5. ASSUME NEW p \in Producers, Gives(p)
      PROVE  /\ m = msg[p] => ~OnItsWay(m, d) /\ OnItsWay(m, d)'
             /\ m # msg[p] => (OnItsWay(m, d)' <=> OnItsWay(m, d))
  <2>1. Line' = Append(Line, msg[p])
    BY <1>5, GiveLine DEF Gives
  <2>2. msg[p] \in Messages
    BY <1>5 DEF Gives, MsgCopy, Visits, LogInvariant, MsgTyped
  <2>3. msg[p] \notin Range(Line)
    BY <1>5, <2>2, GiveYounger, OlderIsOther
  <2>4. Range(Line') = Range(Line) \cup {msg[p]} /\ (Line # <<>> => Line'[1] = Line[1])
    BY <1>3, <2>1, <2>2, RangeAppend
  <2>5. Passed(d)' <=> Passed(d)
    BY <1>5, PassedSteps, Exclusive
  <2> QED
    BY <1>2, <1>3, <1>4, <2>3, <2>4, <2>5
<1>6. ASSUME ThrReturn PROVE OnItsWay(m, d)' <=> OnItsWay(m, d)
  <2>1. Line # <<>> /\ Line' = Tail(Line) /\ Passed(d) /\ ~Passed(d)'
    BY <1>6, ReturnLine, PassedSteps
  <2> DEFINE n == Len(Line)
             K == Tail(Line)
  <2>2. n \in Nat \ {0} /\ DOMAIN K = 1 .. n - 1 /\ \A i \in 1 .. n - 1 : K[i] = Line[i + 1]
    BY <1>3, <2>1, TailPart
  <2>3. ASSUME NEW i \in 2 .. n PROVE Line[i] # Line[1]
    <3>1. 1 \in DOMAIN Line /\ i \in DOMAIN Line /\ 1 < i /\ Line[i] \in Messages
      BY <1>3, <2>2, <2>3
    <3> QED
      BY <3>1, OlderIsOther DEF LineInOrder
  <2> HIDE DEF K
  <2>4. m \in Range(K) <=> m \in Range(Line) /\ m # Line[1]
    <3>1. ASSUME NEW i \in 1 .. n - 1 PROVE K[i] \in Range(Line) /\ K[i] # Line[1]
      <4>1. i + 1 \in 2 .. n /\ i + 1 \in DOMAIN Line
        BY <1>3, <2>2, <3>1
      <4> QED
        BY <2>2, <2>3, <3>1, <4>1 DEF Range
    <3>2. ASSUME NEW i \in 2 .. n PROVE Line[i] \in Range(K)
      <4>1. i - 1 \in DOMAIN K /\ (i - 1) + 1 = i
        BY <2>2, <3>2
      <4>2. K[i - 1] = Line[i]
        BY <2>2, <4>1
      <4> QED
        BY <4>1, <4>2 DEF Range
    <3>3. \A i \in DOMAIN Line : i = 1 \/ i \in 2 .. n
      BY <1>3
    <3> QED
      BY <2>2, <3>1, <3>2, <3>3 DEF Range
  <2>5. Line' = K
    BY <2>1 DEF K
  <2> QED
    BY <1>2, <2>1, <2>4, <2>5
<1>7. ASSUME CtlFree
      PROVE  ~OnItsWay(m, d)' /\ (OnItsWay(m, d) <=> m \in Contents(inq[LogSink]))
  <2>1. Line' = <<>>
    BY <1>7, FreeLine
  <2>2. ~Reading
    BY <1>7 DEF CtlFree, LogInvariant, Staged, Reading
  <2> QED
    BY <1>2, <2>1, <2>2, EmptyList DEF OnItsWay, Reading
<1>8. ASSUME ThrOffer
      PROVE  /\ Passes(m, d) => OnItsWay(m, d) /\ ~OnItsWay(m, d)'
             /\ ~Passes(m, d) => (OnItsWay(m, d)' <=> OnItsWay(m, d))
  <2>1. Line' = Line
    BY <1>8 DEF ThrOffer, lineVars, Line, Lane, Reading
  <2>2. /\ rest # <<>> /\ (Passed(d)' <=> Passed(d) \/ d = Head(rest))
        /\ Passed(d) => d # Head(rest)
    BY <1>8, PassedSteps
  <2>3. Line # <<>>
    BY <1>8, LaneIs DEF LogInvariant, ThrOffer, Reading
  <2> QED
    BY <1>2, <1>3, <1>8, <2>1, <2>2, <2>3 DEF Passes
<1>9. ASSUME ~ThrReturn, ~ThrOffer, ~CtlFree, \A p \in Producers : ~Gives(p)
      PROVE  OnItsWay(m, d)' <=> OnItsWay(m, d)
  <2>1. Line' = Line /\ (Passed(d)' <=> Passed(d))
    BY <1>9, StayLine, PassedSteps
  <2> QED
    BY <1>2, <2>1
<1> QED
  BY <1>5, <1>6, <1>7, <1>8, <1>9, Exclusive DEF GivesIt, Passes

\* The log thread's sink, which nobody can tune, takes every message.
Wanted(m, d) == Accepts(d, m)
Untuned == level[LogSink] = TopLevel /\ mask[LogSink] = {}
Kept(d) == level'[d] = level[d] /\ mask'[d] = mask[d]

Bit(b) == IF b THEN 1 ELSE 0

\* How often m was given to d, or is to be, or was freed instead.
Count(m, d) == Times(m, got[d]) + Bit(OnItsWay(m, d) /\ Wanted(m, d))
                                + Bit(m \in lost /\ Wanted(m, d))

LEMMA CountParted ==
  ASSUME NEW m, NEW d
  PROVE  /\ Count(m, d) = Times(m, got[d]) + (IF OnItsWay(m, d) /\ Wanted(m, d) THEN 1 ELSE 0)
                                           + (IF m \in lost /\ Wanted(m, d) THEN 1 ELSE 0)
         /\ Count(m, d)' = Times(m, got'[d]) + (IF OnItsWay(m, d)' /\ Wanted(m, d)' THEN 1 ELSE 0)
                                             + (IF m \in lost' /\ Wanted(m, d)' THEN 1 ELSE 0)
BY DEF Count, Bit, Times

LEMMA WantedStays ==
  ASSUME NEW m, NEW d, Kept(d)
  PROVE  Wanted(m, d)' <=> Wanted(m, d)
BY DEF Wanted, Accepts, Kept

LEMMA UntunedTakes ==
  ASSUME Untuned, NEW m \in Messages
  PROVE  Accepts(LogSink, m)
BY LevelsAssumption DEF Untuned, Accepts, Messages

LEMMA GotTimes ==
  ASSUME LogInvariant, [Next]_vars, NEW m \in Messages, NEW d \in DirectSinks
  PROVE  /\ Times(m, got[d]) \in Nat
         /\ Times(m, got'[d]) = Times(m, got[d])
              + (IF Accepts(d, m) /\ (OffersIt(m, d) \/ Passes(m, d)) THEN 1 ELSE 0)
<1> USE DEF LogInvariant
<1>0. got \in [DirectSinks -> Seq(Messages)] /\ Times(m, got[d]) \in Nat
  BY TimesFinite DEF GotTyped
<1>1. ASSUME NEW c \in DirectSinks, NEW n \in Messages, Offer(c, n)
      PROVE  Times(m, got'[d]) = Times(m, got[d])
                                   + (IF c = d /\ n = m /\ Accepts(d, m) THEN 1 ELSE 0)
  <2>1. CASE Accepts(c, n) /\ c = d
    <3>1. got'[d] = Append(got[d], n)
      BY <1>0, <1>1, <2>1 DEF Offer
    <3> QED
      BY <1>0, <2>1, <3>1, TimesAppend DEF Is
  <2>2. CASE ~(Accepts(c, n) /\ c = d)
    <3>1. got'[d] = got[d]
      BY <1>0, <1>1, <2>2 DEF Offer
    <3> QED
      BY <1>0, <2>2, <3>1
  <2> QED
    BY <2>1, <2>2
<1>2. ASSUME NEW p \in Producers, MsgOffer(p)
      PROVE  /\ Head(todo[p]) \in DirectSinks /\ msg[p] \in Messages
             /\ Offer(Head(todo[p]), msg[p]) /\ pc[p] = "direct" /\ todo[p] # <<>>
  BY <1>2 DEF MsgOffer, Visits, MsgTyped
<1>3. ASSUME ThrOffer
      PROVE  /\ Head(rest) \in DirectSinks /\ Line[1] \in Messages
             /\ Offer(Head(rest), Line[1]) /\ rest # <<>>
  <2>1. rest # <<>> /\ Offer(Head(rest), text[ent]) /\ Reading
    BY <1>3 DEF ThrOffer, Reading
  <2>2. Line \in Seq(Messages) /\ Line # <<>> /\ Line[1] = text[ent]
    BY <2>1, LaneIs
  <2>3. Line[1] \in Messages
    BY <2>2, TailPart
  <2> QED
    BY <2>1, <2>2, <2>3 DEF ThrTyped
<1>4. ASSUME NEW p \in Producers, Offers(p, d), m = msg[p]
      PROVE  Times(m, got'[d]) = Times(m, got[d]) + (IF Accepts(d, m) THEN 1 ELSE 0)
  BY <1>1, <1>2, <1>4 DEF Offers
<1>5. ASSUME Passes(m, d)
      PROVE  Times(m, got'[d]) = Times(m, got[d]) + (IF Accepts(d, m) THEN 1 ELSE 0)
  BY <1>1, <1>3, <1>5 DEF Passes
<1>6. ASSUME ~OffersIt(m, d), ~Passes(m, d) PROVE Times(m, got'[d]) = Times(m, got[d])
  <2>1. ASSUME NEW p \in Producers, MsgOffer(p) PROVE Times(m, got'[d]) = Times(m, got[d])
    <3>1. ~(Head(todo[p]) = d /\ msg[p] = m)
      BY <1>2, <1>6, <2>1 DEF OffersIt, Offers
    <3> QED
      BY <1>0, <1>1, <1>2, <2>1, <3>1
  <2>2. ASSUME ThrOffer PROVE Times(m, got'[d]) = Times(m, got[d])
    <3>1. ~(Head(rest) = d /\ Line[1] = m)
      BY <1>3, <1>6, <2>2 DEF Passes
    <3> QED
      BY <1>0, <1>1, <1>3, <2>2, <3>1
  <2> QED
    BY <2>1, <2>2, FramesHold DEF Frames
<1> QED
  BY <1>0, <1>4, <1>5, <1>6 DEF OffersIt

LEMMA LostSteps ==
  ASSUME LogInvariant, [Next]_vars
  PROVE  lost' = IF CtlFree THEN lost \cup Contents(inq[LogSink]) ELSE lost
BY FramesHold DEF Frames, ctlVars, CtlCall, CtlStep, InitPlain, InitAlloc, TermStop,
   InitFill, InitFillFails, InitRegister, InitCreate, TermJoin, CtlUnregister, CtlFree

\* Only a call brings a message closer.
LEMMA CountSteps ==
  ASSUME LogInvariant, OrderInvariant, Untuned, [Next]_vars, NEW m \in Messages,
         NEW d \in steady, Kept(d), Count(m, d) <= 1
  PROVE  Count(m, d)' = Count(m, d)
           + (IF Wanted(m, d) /\ (GivesIt(m) \/ OffersIt(m, d)) THEN 1 ELSE 0)
<1>0. d \in DirectSinks
  BY RangeInside DEF LogInvariant, SinkTyped
<1>1. /\ Times(m, got[d]) \in Nat
      /\ Times(m, got'[d]) = Times(m, got[d])
              + (IF Wanted(m, d) /\ (OffersIt(m, d) \/ Passes(m, d)) THEN 1 ELSE 0)
  BY <1>0, GotTimes DEF Wanted
<1>a. Wanted(m, d)' <=> Wanted(m, d)
  BY WantedStays
<1>2. CASE ~Wanted(m, d)
  BY <1>a, <1>1, <1>2, CountParted
<1>3. CASE Wanted(m, d)
  <2>1. /\ Count(m, d) = Times(m, got[d]) + (IF OnItsWay(m, d) THEN 1 ELSE 0)
                                          + (IF m \in lost THEN 1 ELSE 0)
        /\ Count(m, d)' = Times(m, got'[d]) + (IF OnItsWay(m, d)' THEN 1 ELSE 0)
                                            + (IF m \in lost' THEN 1 ELSE 0)
    BY <1>a, <1>3, CountParted
  <2>2. ~(OnItsWay(m, d) /\ m \in lost)
    BY <1>1, <2>1
  <2>3. CASE GivesIt(m)
    <3>1. ~OnItsWay(m, d) /\ OnItsWay(m, d)'
      BY <2>3, WaySteps
    <3>2. ~CtlFree /\ ~OffersIt(m, d) /\ ~Passes(m, d)
      BY <2>3, Exclusive DEF GivesIt, OffersIt, Offers, Passes
    <3>3. lost' = lost
      BY <3>2, LostSteps
    <3> QED
      BY <1>1, <1>3, <2>1, <2>3, <3>1, <3>2, <3>3
  <2>4. CASE CtlFree
    <3>1. ~OnItsWay(m, d)' /\ (OnItsWay(m, d) <=> m \in Contents(inq[LogSink]))
      BY <2>4, WaySteps
    <3>2. ~GivesIt(m) /\ ~OffersIt(m, d) /\ ~Passes(m, d)
      BY <2>4, Exclusive DEF GivesIt, OffersIt, Offers, Passes
    <3>3. m \in lost' <=> m \in lost \/ OnItsWay(m, d)
      BY <2>4, <3>1, LostSteps
    <3> QED
      BY <1>1, <2>1, <2>2, <3>1, <3>2, <3>3
  <2>5. CASE Passes(m, d)
    <3>1. OnItsWay(m, d) /\ ~OnItsWay(m, d)'
      BY <2>5, WaySteps
    <3>2. ~GivesIt(m) /\ ~OffersIt(m, d) /\ ~CtlFree
      BY <2>5, Exclusive DEF GivesIt, OffersIt, Offers, Passes
    <3>3. lost' = lost
      BY <3>2, LostSteps
    <3> QED
      BY <1>1, <1>3, <2>1, <2>5, <3>1, <3>2, <3>3
  <2>6. CASE ~GivesIt(m) /\ ~CtlFree /\ ~Passes(m, d)
    <3>1. OnItsWay(m, d)' <=> OnItsWay(m, d)
      BY <2>6, WaySteps
    <3>2. lost' = lost
      BY <2>6, LostSteps
    <3> QED
      BY <1>1, <1>3, <2>1, <2>6, <3>1, <3>2
  <2> QED
    BY <2>3, <2>4, <2>5, <2>6
<1> QED
  BY <1>2, <1>3

LEMMA FreshTunes ==
  ASSUME LogInvariant, NEW x, Fresh(x), NEW s \in Sinks
  PROVE  /\ level'[s] = IF s = x THEN TopLevel ELSE level[s]
         /\ mask'[s] = IF s = x THEN {} ELSE mask[s]
BY DEF Fresh, LogInvariant, SinkTyped

LEMMA UntunedKept == ASSUME LogInvariant, Untuned, [Next]_vars PROVE Untuned'
<1>1. LogSink \in Sinks /\ LogSink \notin AppSinks /\ LogSink \notin DirectSinks
  BY LinesApart DEF Sinks
<1>2. ASSUME NEW x, Fresh(x) PROVE Untuned'
  BY <1>1, <1>2, FreshTunes DEF Untuned
<1>3. ASSUME NEW s \in DirectSinks \cup AppSinks, SetLevel(s) \/ SetMask(s) PROVE Untuned'
  <2>1. \A x \in Sinks \ {s} : level'[x] = level[x] /\ mask'[x] = mask[x]
    BY <1>3 DEF SetLevel, SetMask, LogInvariant, SinkTyped
  <2> QED
    BY <1>1, <2>1 DEF Untuned
<1>4. CASE UNCHANGED sinkVars
  BY <1>4 DEF sinkVars, Untuned
<1>5. CASE SinkCall
  BY <1>2, <1>3, <1>5 DEF SinkCall, RegisterDirect, RegisterQueued, Unregister
<1>6. CASE InitRegister \/ CtlUnregister
  BY <1>2, <1>6 DEF InitRegister, CtlUnregister, RegisterQueued, Unregister
<1> QED
  BY <1>4, <1>5, <1>6, FramesHold DEF Frames

\* A sink becomes steady, or is tuned and stays so, only before the first message.
LEMMA SteadySteps ==
  ASSUME LogInvariant, OrderInvariant, [Next]_vars, NEW d \in steady'
  PROVE  \/ d \in steady /\ Kept(d)
         \/ owed' = {} /\ \A p \in Producers : pc'[p] = "idle"
<1>1. ASSUME \A p \in Producers : sent[p] = 0
      PROVE  owed = {} /\ \A p \in Producers : pc[p] = "idle"
  <2>1. ASSUME NEW m \in owed PROVE FALSE
    <3>1. m \in Messages /\ m.nr <= sent[m.by]
      BY DEF LogInvariant, MsgTyped, OrderInvariant, AllLogged, Logged
    <3> QED
      BY <1>1, <3>1, MessageParts
  <2>2. ASSUME NEW p \in Producers, pc[p] # "idle" PROVE FALSE
    <3>1. msg[p] \in Messages /\ msg[p].nr = 0
      BY <1>1, <2>2 DEF LogInvariant, MsgTyped, OrderInvariant, Mine
    <3> QED
      BY <3>1, MessageParts
  <2> QED
    BY <2>1, <2>2
<1>2. /\ LogSink \notin DirectSinks /\ AppSinks \cap DirectSinks = {}
      /\ steady \subseteq DirectSinks /\ d \in DirectSinks /\ d \in Sinks
  <2>1. /\ LogSink \notin DirectSinks /\ AppSinks \cap DirectSinks = {}
        /\ DirectSinks \subseteq Sinks
    BY LinesApart, SinksAssumption DEF Sinks, QueuedSinks
  <2>2. steady \subseteq DirectSinks
    BY RangeInside DEF LogInvariant, SinkTyped
  <2>3. steady' \subseteq DirectSinks
    BY NextInvariant, RangeInside DEF LogInvariant, SinkTyped
  <2> QED
    BY <2>1, <2>2, <2>3
<1>3. CASE UNCHANGED sinkVars
  BY <1>3 DEF sinkVars, Kept
<1>4. ASSUME NEW s, s # d, Fresh(s), d \in steady PROVE d \in steady /\ Kept(d)
  BY <1>2, <1>4, FreshTunes DEF Kept
<1>5. CASE InitRegister \/ CtlUnregister
  BY <1>2, <1>4, <1>5 DEF InitRegister, CtlUnregister, RegisterQueued, Unregister
<1>6. CASE SinkCall
  <2>1. UNCHANGED msgVars
    BY <1>6 DEF SinkCall
  <2>2. CASE NoneSent
    BY <1>1, <2>1, <2>2 DEF msgVars, NoneSent
  <2>3. CASE ~NoneSent
    <3>1. ASSUME NEW x \in DirectSinks, RegisterDirect(x) PROVE d \in steady /\ Kept(d)
      <4>1. x \notin steady /\ d \in steady /\ Fresh(x)
        BY <2>3, <3>1 DEF RegisterDirect, LogInvariant, SinkTyped
      <4> QED
        BY <1>4, <4>1
    <3>2. ASSUME NEW x \in AppSinks, RegisterQueued(x) PROVE d \in steady /\ Kept(d)
      BY <1>2, <1>4, <3>2 DEF RegisterQueued
    <3>3. ASSUME NEW x \in DirectSinks \cup AppSinks, Unregister(x)
          PROVE  d \in steady /\ Kept(d)
      BY <1>4, <3>3 DEF Unregister
    <3>4. ASSUME NEW x \in DirectSinks \cup AppSinks, SetLevel(x) \/ SetMask(x)
          PROVE  d \in steady /\ Kept(d)
      BY <1>2, <2>3, <3>4 DEF SetLevel, SetMask, Kept, LogInvariant, SinkTyped
    <3> QED
      BY <1>6, <3>1, <3>2, <3>3, <3>4 DEF SinkCall
  <2> QED
    BY <2>2, <2>3
<1> QED
  BY <1>3, <1>5, <1>6, FramesHold DEF Frames

-----------------------------------------------------------------------------
(* The calls that are promised something.                                   *)
Undisturbed == \A p \in Producers : quiet[p] =>
    /\ ctl = "idle"
    /\ pc[p] = "direct" => ~log_thread
Unpaid == \A p \in Producers : pc[p] # "idle" => msg[p] \notin owed

\* The call of p returns, having dropped nothing and met no init and no term.
Returns(p) ==
    /\ MsgThreaded(p) \/ MsgDirectDone(p)
    /\ pc[p] # "idle" /\ pc'[p] = "idle" /\ quiet[p] /\ ~dropped[p]

\* A quiet call was so before, and the log thread neither comes nor goes.
LEMMA QuietSteps ==
  ASSUME LogInvariant, Undisturbed, [Next]_vars, NEW p \in Producers, quiet'[p]
  PROVE  /\ UNCHANGED <<ctl, log_thread>> /\ ctl = "idle"
         /\ quiet[p] \/ MsgCall(p)
<1> USE DEF LogInvariant, MsgTyped
<1>1. ~InitAlloc /\ ~TermStop
  BY DEF InitAlloc, TermStop, Disturb
<1>2. quiet[p] \/ MsgCall(p)
  <2>1. CASE UNCHANGED msgVars
    BY <2>1 DEF msgVars
  <2>2. ASSUME NEW q \in Producers, MsgCall(q) PROVE quiet[p] \/ MsgCall(p)
    BY <2>2 DEF MsgCall
  <2>3. ASSUME NEW q \in Producers, MsgStep(q) PROVE quiet[p]
    BY <2>3 DEF MsgStep, MsgSkip, MsgBadFormat, MsgTake, MsgNoLine, MsgCopy, MsgQueuedDone,
       MsgThreaded, MsgDirect, MsgOffer, MsgDirectDone, Return
  <2> QED
    BY <1>1, <2>1, <2>2, <2>3, FramesHold DEF Frames
<1>3. CASE MsgCall(p)
  BY <1>3 DEF MsgCall, ctlVars
<1>4. CASE quiet[p]
  <2>1. ctl = "idle"
    BY <1>4 DEF Undisturbed
  <2> QED
    BY <1>1, <1>4, <2>1, FramesHold DEF Frames, ctlVars, CtlCall, CtlStep, InitPlain,
       InitFill, InitFillFails, InitRegister, InitCreate, TermJoin, CtlUnregister, CtlFree
<1> QED
  BY <1>2, <1>3, <1>4

LEMMA UndisturbedKept == ASSUME LogInvariant, Undisturbed, [Next]_vars PROVE Undisturbed'
<1> SUFFICES ASSUME NEW p \in Producers, quiet'[p]
             PROVE  ctl' = "idle" /\ (pc'[p] = "direct" => ~log_thread')
  BY DEF Undisturbed
<1>1. UNCHANGED <<ctl, log_thread>> /\ ctl = "idle" /\ (quiet[p] \/ MsgCall(p))
  BY QuietSteps
<1>2. CASE MsgCall(p)
  BY <1>1, <1>2, CallStarts
<1>3. CASE quiet[p]
  <2>1. pc[p] = "direct" => ~log_thread
    BY <1>3 DEF Undisturbed
  <2>2. CASE MsgStep(p)
    <3>1. MsgDirect(p) => ~log_thread
      BY DEF MsgDirect
    <3>2. pc'[p] = "direct" => pc[p] = "direct" \/ MsgDirect(p)
      BY <2>2 DEF MsgStep, MsgSkip, MsgBadFormat, MsgTake, MsgNoLine, MsgCopy,
         MsgQueuedDone, MsgThreaded, MsgOffer, MsgDirectDone, Return, NextSink, Goto, Visits,
         LogInvariant, MsgTyped
    <3> QED
      BY <1>1, <2>1, <3>1, <3>2
  <2> QED
    BY <1>1, <1>2, <2>1, <2>2, CallSteps
<1> QED
  BY <1>1, <1>2, <1>3

LEMMA OwedSteps ==
  ASSUME LogInvariant, [Next]_vars, NEW m \in owed'
  PROVE  m \in owed \/ \E p \in Producers : Returns(p) /\ m = msg[p]
<1> USE DEF LogInvariant, MsgTyped
<1>1. CASE UNCHANGED msgVars \/ InitAlloc \/ TermStop
  BY <1>1 DEF msgVars, InitAlloc, TermStop
<1>2. ASSUME NEW p \in Producers, MsgCall(p) PROVE m \in owed
  BY <1>2 DEF MsgCall
<1>3. ASSUME NEW p \in Producers, MsgStep(p), ~MsgThreaded(p), ~MsgDirectDone(p) PROVE m \in owed
  BY <1>3 DEF MsgStep, MsgSkip, MsgBadFormat, MsgTake, MsgNoLine, MsgCopy, MsgQueuedDone,
     MsgDirect, MsgOffer, Return
<1>4. ASSUME NEW p \in Producers, MsgThreaded(p) \/ MsgDirectDone(p)
      PROVE  m \in owed \/ (Returns(p) /\ m = msg[p])
  <2>1. pc[p] # "idle" /\ Return(p, "AMRC_SUCCESS")
    BY <1>4 DEF MsgThreaded, MsgDirectDone
  <2> QED
    BY <1>4, <2>1 DEF Return, Goto, Returns
<1> QED
  BY <1>1, <1>2, <1>3, <1>4, FramesHold DEF Frames

LEMMA UnpaidKept == ASSUME LogInvariant, OrderInvariant, Unpaid, [Next]_vars PROVE Unpaid'
<1> SUFFICES ASSUME NEW p \in Producers, pc'[p] # "idle", msg'[p] \in owed' PROVE FALSE
  BY DEF Unpaid
<1>1. msg'[p] \in owed \/ \E q \in Producers : Returns(q) /\ msg'[p] = msg[q]
  BY OwedSteps
<1>2. msg'[p].by = p
  BY MineKept DEF OrderInvariant, Mine
<1>3. ASSUME NEW q \in Producers, Returns(q), msg'[p] = msg[q] PROVE FALSE
  <2>1. msg[q].by = q
    BY <1>3 DEF Returns, OrderInvariant, Mine
  <2>2. p = q
    BY <1>2, <1>3, <2>1
  <2> QED
    BY <1>3, <2>2 DEF Returns
<1>4. CASE msg'[p] \in owed
  <2>1. CASE MsgCall(p)
    <3>1. msg'[p] \in Messages /\ msg'[p].nr <= sent[p] /\ msg'[p].nr = sent[p] + 1
      BY <1>2, <1>4, <2>1, CallStarts
         DEF OrderInvariant, AllLogged, Logged, LogInvariant, MsgTyped
    <3>2. sent[p] \in Nat
      BY DEF LogInvariant, MsgTyped
    <3> QED
      BY <3>1, <3>2
  <2>2. CASE UNCHANGED <<pc[p], msg[p], todo[p], sent[p]>>
    BY <1>4, <2>2 DEF Unpaid
  <2>3. CASE MsgStep(p) /\ pc[p] # "idle" /\ msg'[p] = msg[p]
    BY <1>4, <2>3 DEF Unpaid
  <2> QED
    BY <2>1, <2>2, <2>3, CallSteps
<1> QED
  BY <1>1, <1>3, <1>4

\* The call of p may end with a promise; its message is still to be brought to d.
Live(p) == pc[p] # "idle" /\ quiet[p] /\ ~dropped[p]
Still(p, d) == IF log_thread THEN ToCome(p) ELSE pc[p] # "direct" \/ d \in Range(todo[p])

LiveOnce == \A p \in Producers, d \in steady, m \in Messages : Live(p) /\ m = msg[p] =>
    Count(m, d) + Bit(Still(p, d) /\ Wanted(m, d)) = Bit(Wanted(m, d))
OwedOnce == \A m \in owed, d \in steady : Count(m, d) = Bit(Wanted(m, d))

\* m is brought to its way, or to d, by its own call.
LEMMA OwnCall ==
  ASSUME LogInvariant, OrderInvariant, NEW p \in Producers, pc[p] # "idle", NEW d
  PROVE  /\ GivesIt(msg[p]) <=> Gives(p)
         /\ OffersIt(msg[p], d) <=> Offers(p, d)
<1>1. ASSUME NEW q \in Producers, pc[q] # "idle", msg[p] = msg[q] PROVE p = q
  BY <1>1 DEF OrderInvariant, Mine
<1>2. \A q \in Producers : Gives(q) \/ Offers(q, d) => pc[q] # "idle"
  BY DEF Gives, MsgCopy, Visits, Offers
<1> QED
  BY <1>1, <1>2 DEF GivesIt, OffersIt

LEMMA CountNat ==
  ASSUME LogInvariant, NEW m \in Messages, NEW d \in steady
  PROVE  Count(m, d) \in Nat
<1>1. got[d] \in Seq(Messages)
  BY RangeInside DEF LogInvariant, SinkTyped, GotTyped
<1>2. Times(m, got[d]) \in Nat
  BY <1>1, TimesFinite
<1> QED
  BY <1>2, CountParted

LEMMA LiveSteps ==
  ASSUME LogInvariant, Undisturbed, [Next]_vars, NEW p \in Producers, Live(p)', ~MsgCall(p)
  PROVE  /\ Live(p) /\ ~MsgNoLine(p)
         /\ \/ UNCHANGED <<pc[p], msg[p], todo[p], sent[p]>>
            \/ MsgStep(p) /\ msg'[p] = msg[p]
<1> USE DEF LogInvariant, MsgTyped
<1>1. pc'[p] # "idle" /\ quiet'[p] /\ ~dropped'[p]
  BY DEF Live
<1>2. quiet[p]
  BY <1>1, QuietSteps
<1>3. pc[p] # "idle"
  BY <1>1, CallSteps
<1>4. ~dropped[p] /\ ~MsgNoLine(p)
  <2>1. CASE UNCHANGED msgVars \/ InitAlloc \/ TermStop
    <3>1. UNCHANGED <<dropped, pc, todo>>
      BY <2>1 DEF msgVars, InitAlloc, TermStop
    <3>2. MsgNoLine(p) => dropped'[p]
      BY DEF MsgNoLine
    <3> QED
      BY <1>1, <3>1, <3>2
  <2>2. ASSUME NEW q \in Producers, MsgCall(q) PROVE ~dropped[p] /\ ~MsgNoLine(p)
    BY <1>1, <2>2 DEF MsgCall, MsgNoLine
  <2>3. ASSUME NEW q \in Producers, MsgStep(q) PROVE ~dropped[p] /\ ~MsgNoLine(p)
    <3>1. MsgNoLine(p) => dropped'[p]
      BY DEF MsgNoLine
    <3>2. dropped'[p] = dropped[p] \/ dropped'[p] = TRUE \/ pc'[p] = "idle"
      BY <2>3 DEF MsgStep, MsgSkip, MsgBadFormat, MsgTake, MsgNoLine, MsgCopy, MsgQueuedDone,
         MsgThreaded, MsgDirect, MsgOffer, MsgDirectDone, Return, Goto
    <3> QED
      BY <1>1, <3>1, <3>2
  <2> QED
    BY <2>1, <2>2, <2>3, FramesHold DEF Frames
<1> QED
  BY <1>1, <1>2, <1>3, <1>4, CallSteps DEF Live

\* A call brings its message to its way, or to d, once.
LEMMA StillSteps ==
  ASSUME LogInvariant, OrderInvariant, Untuned, Undisturbed, [Next]_vars,
         NEW p \in Producers, NEW d \in steady, d \in steady', Live(p)', ~MsgCall(p)
  PROVE  IF Gives(p) \/ Offers(p, d) THEN Still(p, d) /\ ~Still(p, d)'
                                     ELSE Still(p, d)' <=> Still(p, d)
<1> USE DEF LogInvariant
<1>1. /\ Live(p) /\ ~MsgNoLine(p) /\ UNCHANGED <<ctl, log_thread>> /\ ctl = "idle"
      /\ pc'[p] # "idle"
  BY LiveSteps, QuietSteps DEF Live
<1>2. pc[p] = "direct" => ~log_thread
  BY <1>1 DEF Undisturbed, Live
<1>3. todo[p] \in Seq(Sinks) /\ IsInjective(todo[p])
  BY DEF MsgTyped, OrderInvariant, Distinct
<1>4. todo[p] # <<>> => /\ Range(Tail(todo[p])) = Range(todo[p]) \ {Head(todo[p])}
                        /\ Head(todo[p]) \in Range(todo[p]) /\ Tail(todo[p]) # todo[p]
  BY <1>3, ListTail, TailOther
<1>5. CASE UNCHANGED <<pc[p], msg[p], todo[p], sent[p]>>
  <2>1. ~Gives(p)
    BY <1>5 DEF Gives, MsgCopy, Visits, Goto, MsgTyped
  <2>2. ~Offers(p, d)
    BY <1>4, <1>5 DEF Offers, MsgOffer, NextSink, MsgTyped
  <2> QED
    BY <1>1, <1>5, <2>1, <2>2 DEF Still, ToCome
<1>6. CASE MsgSkip(p)
  <2>1. /\ pc[p] = "queued" /\ pc'[p] = "queued" /\ todo[p] # <<>> /\ todo'[p] = Tail(todo[p])
        /\ ~Accepts(Head(todo[p]), msg[p])
    BY <1>6 DEF MsgSkip, Visits, NextSink, MsgTyped
  <2>2. Head(todo[p]) # LogSink
    BY <2>1, UntunedTakes DEF MsgTyped
  <2>3. ~Gives(p) /\ ~Offers(p, d)
    BY <2>1 DEF Gives, MsgCopy, Visits, Offers
  <2> QED
    BY <1>1, <1>4, <2>1, <2>2, <2>3 DEF Still, ToCome
<1>7. CASE MsgTake(p)
  <2>1. pc[p] = "queued" /\ pc'[p] = "copy" /\ todo'[p] = todo[p]
    BY <1>7 DEF MsgTake, Visits, Goto, MsgTyped
  <2>2. ~Gives(p) /\ ~Offers(p, d)
    BY <2>1 DEF Gives, MsgCopy, Visits, Offers
  <2> QED
    BY <1>1, <2>1, <2>2 DEF Still, ToCome
<1>8. CASE MsgCopy(p)
  <2>1. /\ pc[p] = "copy" /\ pc'[p] = "queued" /\ todo[p] # <<>> /\ todo'[p] = Tail(todo[p])
    BY <1>8 DEF MsgCopy, Visits, Goto, NextSink, MsgTyped
  <2>2. ~Offers(p, d)
    BY <2>1 DEF Offers
  <2>3. CASE Head(todo[p]) # LogSink
    <3>1. ~Gives(p)
      BY <2>3 DEF Gives
    <3> QED
      BY <1>1, <1>4, <2>1, <2>2, <2>3, <3>1 DEF Still, ToCome
  <2>4. CASE Head(todo[p]) = LogSink
    <3>1. p \in QueuedReaders
      BY <2>1, ReadersAre
    <3>2. LogSink \in Range(queued)
      BY <1>4, <2>1, <2>4, <3>1 DEF SinksOutliveUse
    <3>3. log_thread /\ Gives(p)
      BY <1>8, <2>4, <3>2 DEF Staged, Gives
    <3> QED
      BY <1>1, <1>4, <2>1, <2>2, <2>4, <3>3 DEF Still, ToCome
  <2> QED
    BY <2>3, <2>4
<1>9. CASE MsgQueuedDone(p)
  <2>1. pc[p] = "queued" /\ pc'[p] = "check" /\ todo[p] = <<>> /\ LogSink \notin Range(todo[p])
    BY <1>9, EmptyList DEF MsgQueuedDone, Goto, MsgTyped
  <2>2. ~Gives(p) /\ ~Offers(p, d)
    BY <2>1 DEF Gives, MsgCopy, Visits, Offers
  <2> QED
    BY <1>1, <2>1, <2>2 DEF Still, ToCome
<1>10. CASE MsgDirect(p)
  <2>1. pc[p] = "check" /\ pc'[p] = "direct" /\ ~log_thread /\ todo'[p] = direct
    BY <1>10 DEF MsgDirect, Goto, MsgTyped
  <2>2. d \in Range(direct)
    BY DEF SinkTyped
  <2>3. ~Gives(p) /\ ~Offers(p, d)
    BY <2>1 DEF Gives, MsgCopy, Visits, Offers
  <2> QED
    BY <1>1, <2>1, <2>2, <2>3 DEF Still, ToCome
<1>11. CASE MsgOffer(p)
  <2>1. /\ pc[p] = "direct" /\ pc'[p] = "direct" /\ todo[p] # <<>> /\ todo'[p] = Tail(todo[p])
    BY <1>11 DEF MsgOffer, Visits, NextSink, MsgTyped
  <2>2. ~Gives(p) /\ (Offers(p, d) <=> d = Head(todo[p]))
    BY <1>11, <2>1 DEF Gives, MsgCopy, Visits, Offers
  <2> QED
    BY <1>1, <1>2, <1>4, <2>1, <2>2 DEF Still
<1>12. ~MsgBadFormat(p) /\ ~MsgThreaded(p) /\ ~MsgDirectDone(p)
  BY <1>1 DEF MsgBadFormat, MsgThreaded, MsgDirectDone, Return, Goto, MsgTyped
<1> QED
  BY <1>1, <1>5, <1>6, <1>7, <1>8, <1>9, <1>10, <1>11, <1>12, LiveSteps DEF MsgStep

LEMMA CallCounts ==
  ASSUME LogInvariant, OrderInvariant, Undisturbed, [Next]_vars, NEW p \in Producers,
         MsgCall(p), Live(p)', NEW d \in steady, NEW m \in Messages, m = msg'[p]
  PROVE  Count(m, d)' = 0 /\ Still(p, d)'
<1> USE DEF LogInvariant
<1>1. /\ m.by = p /\ m.nr = sent[p] + 1 /\ sent[p] \in Nat /\ pc'[p] = "queued"
      /\ todo'[p] = queued
  BY CallStarts DEF MsgTyped
<1>2. ~Logged(m)
  BY <1>1 DEF Logged
<1>3. d \in DirectSinks /\ got[d] \in Seq(Messages)
  BY RangeInside DEF SinkTyped, GotTyped
<1>4. m \notin Range(Line) /\ m \notin lost /\ m \notin Range(got[d])
  BY <1>2, <1>3 DEF OrderInvariant, AllLogged
<1>5. ~OnItsWay(m, d)
  BY <1>3, <1>4, WayIs DEF WayShape, OrderInvariant
<1>6. UNCHANGED <<ctl, log_thread, queued, thrVars, lineVars, got, lost>>
  BY DEF MsgCall, ctlVars, sinkVars
<1>7. ~OnItsWay(m, d)'
  BY <1>5, <1>6 DEF OnItsWay, Contents, thrVars, lineVars
<1>8. Times(m, got'[d]) = 0
  BY <1>3, <1>4, <1>6, TimesFinite
<1>9. Count(m, d)' = 0
  BY <1>4, <1>6, <1>7, <1>8, CountParted
<1>10. Still(p, d)'
  <2>1. quiet'[p] /\ ctl = "idle"
    BY QuietSteps DEF Live
  <2>2. log_thread => LogSink \in Range(queued)
    BY <2>1 DEF Staged
  <2> QED
    BY <1>1, <1>6, <2>2 DEF Still, ToCome
<1> QED
  BY <1>9, <1>10

LEMMA LiveOnceKept ==
  ASSUME LogInvariant, OrderInvariant, Untuned, Undisturbed, LiveOnce, [Next]_vars
  PROVE  LiveOnce'
<1> SUFFICES ASSUME NEW p \in Producers, NEW d \in steady', NEW m \in Messages,
                    Live(p)', m = msg'[p]
             PROVE  Count(m, d)' + (IF Still(p, d)' /\ Wanted(m, d)' THEN 1 ELSE 0)
                      = IF Wanted(m, d)' THEN 1 ELSE 0
  BY DEF LiveOnce, Bit
<1>1. pc'[p] # "idle"
  BY DEF Live
<1>2. d \in steady /\ Kept(d) /\ (Wanted(m, d)' <=> Wanted(m, d))
  BY <1>1, SteadySteps, WantedStays
<1>3. CASE MsgCall(p)
  BY <1>2, <1>3, CallCounts
<1>4. CASE ~MsgCall(p)
  <2>1. Live(p) /\ m = msg[p] /\ pc[p] # "idle"
    BY <1>4, LiveSteps DEF Live
  <2>2. /\ Count(m, d) + (IF Still(p, d) /\ Wanted(m, d) THEN 1 ELSE 0)
             = IF Wanted(m, d) THEN 1 ELSE 0
        /\ Count(m, d) \in Nat
    BY <1>2, <2>1, CountNat DEF LiveOnce, Bit
  <2>3. Count(m, d)' = Count(m, d)
                         + (IF Wanted(m, d) /\ (Gives(p) \/ Offers(p, d)) THEN 1 ELSE 0)
    <3>1. Count(m, d) <= 1
      BY <2>2
    <3>2. (GivesIt(m) <=> Gives(p)) /\ (OffersIt(m, d) <=> Offers(p, d))
      BY <2>1, OwnCall
    <3> QED
      BY <1>2, <3>1, <3>2, CountSteps
  <2>4. CASE Wanted(m, d)
    <3>1. IF Gives(p) \/ Offers(p, d) THEN Still(p, d) /\ ~Still(p, d)'
                                      ELSE Still(p, d)' <=> Still(p, d)
      BY <1>2, <1>4, <2>1, <2>4, StillSteps
    <3> QED
      BY <1>2, <2>2, <2>3, <2>4, <3>1
  <2>5. CASE ~Wanted(m, d)
    BY <1>2, <2>2, <2>3, <2>5
  <2> QED
    BY <2>4, <2>5
<1> QED
  BY <1>3, <1>4

LEMMA OwedOnceKept ==
  ASSUME LogInvariant, OrderInvariant, Untuned, Undisturbed, Unpaid, LiveOnce, OwedOnce,
         [Next]_vars
  PROVE  OwedOnce'
<1> SUFFICES ASSUME NEW m \in owed', NEW d \in steady'
             PROVE  Count(m, d)' = IF Wanted(m, d)' THEN 1 ELSE 0
  BY DEF OwedOnce, Bit
<1>1. d \in steady /\ Kept(d) /\ (Wanted(m, d)' <=> Wanted(m, d))
  BY SteadySteps, WantedStays
<1>2. m \in Messages
  BY NextInvariant DEF LogInvariant, MsgTyped
<1>3. m \in owed \/ \E p \in Producers : Returns(p) /\ m = msg[p]
  BY OwedSteps
<1>4. ASSUME Count(m, d) = IF Wanted(m, d) THEN 1 ELSE 0, ~GivesIt(m), ~OffersIt(m, d)
      PROVE  Count(m, d)' = IF Wanted(m, d)' THEN 1 ELSE 0
  <2>1. Count(m, d) <= 1
    BY <1>4
  <2> QED
    BY <1>1, <1>2, <1>4, <2>1, CountSteps
<1>5. CASE m \in owed
  <2>1. Count(m, d) = IF Wanted(m, d) THEN 1 ELSE 0
    BY <1>1, <1>5 DEF OwedOnce, Bit
  <2>2. ~GivesIt(m) /\ ~OffersIt(m, d)
    BY <1>5 DEF Unpaid, GivesIt, OffersIt, Gives, MsgCopy, Visits, Offers
  <2> QED
    BY <1>4, <2>1, <2>2
<1>6. ASSUME NEW p \in Producers, Returns(p), m = msg[p]
      PROVE  Count(m, d)' = IF Wanted(m, d)' THEN 1 ELSE 0
  <2>1. Live(p) /\ pc[p] # "idle" /\ pc'[p] = "idle"
    BY <1>6 DEF Returns, Live
  <2>2. ~Still(p, d)
    <3>1. CASE MsgThreaded(p)
      BY <3>1 DEF MsgThreaded, Still, ToCome
    <3>2. CASE MsgDirectDone(p)
      <4>1. pc[p] = "direct" /\ todo[p] = <<>> /\ ~log_thread
        BY <2>1, <3>2 DEF MsgDirectDone, Undisturbed, Live
      <4> QED
        BY <4>1, EmptyList DEF Still
    <3> QED
      BY <1>6, <3>1, <3>2 DEF Returns
  <2>3. Count(m, d) = IF Wanted(m, d) THEN 1 ELSE 0
    <3>1. Count(m, d) + (IF Still(p, d) /\ Wanted(m, d) THEN 1 ELSE 0)
            = IF Wanted(m, d) THEN 1 ELSE 0
      BY <1>1, <1>2, <1>6, <2>1 DEF LiveOnce, Bit
    <3>2. Count(m, d) \in Nat
      BY <1>1, <1>2, CountNat
    <3> QED
      BY <2>2, <3>1, <3>2
  <2>4. ~Gives(p)
    BY <2>1 DEF Gives, MsgCopy, Goto, LogInvariant, MsgTyped
  <2>5. ~Offers(p, d)
    BY <2>1 DEF Offers, MsgOffer
  <2>6. ~GivesIt(m) /\ ~OffersIt(m, d)
    BY <1>6, <2>1, <2>4, <2>5, OwnCall
  <2> QED
    BY <1>4, <2>3, <2>6
<1> QED
  BY <1>3, <1>5, <1>6

OnceInvariant == Untuned /\ Undisturbed /\ Unpaid /\ LiveOnce /\ OwedOnce

LEMMA InitOnce == ASSUME Init PROVE OnceInvariant
<1>1. LogInvariant
  BY InitInvariant
<1>2. /\ level = [s \in Sinks |-> TopLevel] /\ mask = [s \in Sinks |-> {}]
      /\ \A p \in Producers : pc[p] = "idle" /\ ~quiet[p]
      /\ owed = {}
  BY DEF Init
<1>4. Untuned
  BY <1>2, LinesApart DEF Untuned, Sinks
<1> QED
  BY <1>2, <1>4 DEF OnceInvariant, Undisturbed, Unpaid, LiveOnce, Live, OwedOnce

LEMMA NextOnce ==
  ASSUME LogInvariant, OrderInvariant, OnceInvariant, [Next]_vars PROVE OnceInvariant'
<1>1. Untuned' /\ Undisturbed' /\ Unpaid'
  BY UntunedKept, UndisturbedKept, UnpaidKept DEF OnceInvariant
<1>2. LiveOnce' /\ OwedOnce'
  BY LiveOnceKept, OwedOnceKept DEF OnceInvariant
<1> QED
  BY <1>1, <1>2 DEF OnceInvariant

(* The callback of a direct sink gets the messages of a thread in the order *)
(* in which that thread called amlog_sink_message, whether the calls, the   *)
(* log thread, or first one and then the other hands them over; and a sink  *)
(* tuned before the first message and left alone gets each message that is  *)
(* owed to it and that it wants once, and none that it does not want, over  *)
(* any number of starts and stops of the log thread, but for those          *)
(* amlog_sink_term frees.                                                   *)
THEOREM OnceAndInOrder == Spec => []OnceInOrder
<1>1. LogInvariant /\ OrderInvariant /\ OnceInvariant => OnceInOrder
  <2> SUFFICES ASSUME LogInvariant, OrderInvariant, OnceInvariant PROVE OnceInOrder
    OBVIOUS
  <2>1. ASSUME NEW m \in owed, NEW d \in steady
        PROVE  Times(m, got[d]) + (IF OnItsWay(m, d) /\ Accepts(d, m) THEN 1 ELSE 0)
                                + (IF m \in lost /\ Accepts(d, m) THEN 1 ELSE 0)
                 = IF Accepts(d, m) THEN 1 ELSE 0
    <3>1. Count(m, d) = IF Wanted(m, d) THEN 1 ELSE 0
      BY DEF OnceInvariant, OwedOnce, Bit
    <3> QED
      BY <3>1, CountParted DEF Wanted
  <2> QED
    BY <2>1 DEF OnceInOrder, OnceEach, OrderInvariant
<1>2. Init => LogInvariant /\ OrderInvariant /\ OnceInvariant
  BY InitInvariant, InitOrder, InitOnce
<1>3. LogInvariant /\ OrderInvariant /\ OnceInvariant /\ [Next]_vars
        => (LogInvariant /\ OrderInvariant /\ OnceInvariant)'
  BY NextInvariant, NextOrder, NextOnce
<1> QED
  BY <1>1, <1>2, <1>3, PTL DEF Spec
=============================================================================
