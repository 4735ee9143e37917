-------------------------- MODULE CachedReadsProofs --------------------------
(***************************************************************************)
(* Proofs about CachedReads, for any set of readers, any mix of the ways   *)
(* they read, any content and number of versions, and any failures.        *)
(***************************************************************************)
EXTENDS CachedReads, WellFoundedInduction, TLAPS

----------------------------------------------------------------------------
(* Types. *)

\* Versions are natural numbers, and none of them is None.
LEMMA Constants ==
  /\ Versions \subseteq Nat /\ 0 \in Versions
  /\ None \notin Versions
  /\ \A r \in Readers : Way[r] \in Ways
BY CachedReadsAssumption DEF Versions

\* Every set of versions but the empty one has an oldest.
LEMMA HasOldest ==
  ASSUME NEW S \in SUBSET Nat, S # {}
  PROVE  \E v \in S : \A w \in S : v <= w
<1>1. PICK v \in S : \A w \in S : ~ (<<w, v>> \in OpToRel(<, Nat))
  BY WFMin, NatLessThanWellFounded, Zenon
<1>2. \A w \in S : ~ (w < v)
  BY <1>1 DEF OpToRel
<1>. QED
  BY <1>2

\* The floor of a read that begins is below everything under way.
LEMMA OldestBelow ==
  ASSUME TypeOK
  PROVE  /\ Around \subseteq Versions
         /\ Oldest \in Versions
         /\ \A v \in Around : Oldest <= v
<1>1. Around \subseteq Versions /\ version \in Around
  BY Constants DEF TypeOK, Around, Set
<1>2. \E v \in Around : \A w \in Around : v <= w
  BY <1>1, Constants, HasOldest
<1>3. Oldest \in Around /\ \A w \in Around : Oldest <= w
  BY <1>2 DEF Oldest
<1>. QED
  BY <1>1, <1>3

\* Every step keeps every state component in its type.
LEMMA TypeStep ==
  ASSUME TypeOK, [Next]_vars
  PROVE  TypeOK'
<1>. USE Constants DEF TypeOK
<1>1. CASE Update
  BY <1>1, CachedReadsAssumption DEF Update, Versions
<1>2. CASE Expire
  BY <1>2 DEF Expire
<1>3. ASSUME NEW r \in Readers, Start(r)
      PROVE  TypeOK'
  <2>1. Oldest \in Versions
    BY OldestBelow
  <2>. QED
    BY <1>3, <2>1 DEF Start, MoveTo, AnswerAll, NoAnswer, Answer
<1>4. ASSUME NEW r \in Readers, GetHits(r)
      PROVE  TypeOK'
  BY <1>4 DEF GetHits, Hit, MoveTo, AnswerAll, Answer
<1>5. ASSUME NEW r \in Readers, GetMisses(r)
      PROVE  TypeOK'
  BY <1>5 DEF GetMisses, MoveTo
<1>6. ASSUME NEW r \in Readers, GetFails(r)
      PROVE  TypeOK'
  BY <1>6 DEF GetFails, Fault, MoveTo, AnswerAll, Error, Answer
<1>7. ASSUME NEW r \in Readers, GetFailsOver(r)
      PROVE  TypeOK'
  BY <1>7 DEF GetFailsOver, Fault, MoveTo
<1>8. ASSUME NEW r \in Readers, CallReads(r)
      PROVE  TypeOK'
  BY <1>8 DEF CallReads
<1>9. ASSUME NEW r \in Readers, CallReturns(r)
      PROVE  TypeOK'
  BY <1>9 DEF CallReturns, CallDone, MoveTo, AnswerAll, Answer, Set
<1>10. ASSUME NEW r \in Readers, CallFails(r)
       PROVE  TypeOK'
  BY <1>10 DEF CallFails, CallDone, Fault, MoveTo, AnswerAll, Error, Answer
<1>11. ASSUME NEW s \in sets, SetLands(s)
       PROVE  TypeOK'
  BY <1>11 DEF SetLands, MoveTo, AnswerAll, Answer, Set
<1>12. ASSUME NEW s \in sets, SetFails(s)
       PROVE  TypeOK'
  BY <1>12 DEF SetFails, Fault, MoveTo, AnswerAll, Error, Answer
<1>13. ASSUME NEW s \in sets, SetCrashes(s)
       PROVE  TypeOK'
  BY <1>13 DEF SetCrashes, Fault, MoveTo, AnswerAll, Error, Answer, Set
<1>14. CASE UNCHANGED vars
  BY <1>14 DEF vars
<1>. QED
  BY <1>1, <1>2, <1>3, <1>4, <1>5, <1>6, <1>7, <1>8, <1>9, <1>10, <1>11,
     <1>12, <1>13, <1>14 DEF Next

\* CachedReads' state keeps its types, whatever fails.
THEOREM TypeCorrect == Spec => []TypeOK
<1>1. Init => TypeOK
  BY Constants DEF Init, TypeOK, NoAnswer, Answer
<1>. QED
  BY <1>1, TypeStep, PTL DEF Spec

----------------------------------------------------------------------------
(* The inductive invariant. *)

\* Each way of reading goes its own way, and forgets what its call has read.
LEMMA WaysStep ==
  ASSUME TypeOK, WaysKept, SeenWhileRunning, [Next]_vars
  PROVE  WaysKept' /\ SeenWhileRunning'
<1>. USE Constants DEF TypeOK, WaysKept, SeenWhileRunning, Running
<1>1. CASE Update
  BY <1>1 DEF Update
<1>2. CASE Expire
  BY <1>2 DEF Expire
<1>3. ASSUME NEW r \in Readers, Start(r)
      PROVE  WaysKept' /\ SeenWhileRunning'
  BY <1>3 DEF Start, MoveTo, AnswerAll, NoAnswer
<1>4. ASSUME NEW r \in Readers, GetHits(r)
      PROVE  WaysKept' /\ SeenWhileRunning'
  BY <1>4 DEF GetHits, MoveTo, AnswerAll, Hit
<1>5. ASSUME NEW r \in Readers, GetMisses(r)
      PROVE  WaysKept' /\ SeenWhileRunning'
  BY <1>5 DEF GetMisses, MoveTo
<1>6. ASSUME NEW r \in Readers, GetFails(r)
      PROVE  WaysKept' /\ SeenWhileRunning'
  BY <1>6 DEF GetFails, MoveTo, AnswerAll, Error
<1>7. ASSUME NEW r \in Readers, GetFailsOver(r)
      PROVE  WaysKept' /\ SeenWhileRunning'
  BY <1>7 DEF GetFailsOver, MoveTo
<1>8. ASSUME NEW r \in Readers, CallReads(r)
      PROVE  WaysKept' /\ SeenWhileRunning'
  BY <1>8 DEF CallReads
<1>9. ASSUME NEW r \in Readers, CallReturns(r)
      PROVE  WaysKept' /\ SeenWhileRunning'
  BY <1>9 DEF CallReturns, CallDone, MoveTo, AnswerAll
<1>10. ASSUME NEW r \in Readers, CallFails(r)
       PROVE  WaysKept' /\ SeenWhileRunning'
  BY <1>10 DEF CallFails, CallDone, MoveTo, AnswerAll, Error
<1>11. ASSUME NEW s \in sets, SetLands(s)
       PROVE  WaysKept' /\ SeenWhileRunning'
  BY <1>11 DEF SetLands, MoveTo, AnswerAll, Setter
<1>12. ASSUME NEW s \in sets, SetFails(s)
       PROVE  WaysKept' /\ SeenWhileRunning'
  BY <1>12 DEF SetFails, MoveTo, AnswerAll, Setter, Error
<1>13. ASSUME NEW s \in sets, SetCrashes(s)
       PROVE  WaysKept' /\ SeenWhileRunning'
  BY <1>13 DEF SetCrashes, MoveTo, AnswerAll, Error
<1>14. CASE UNCHANGED vars
  BY <1>14 DEF vars
<1>. QED
  BY <1>1, <1>2, <1>3, <1>4, <1>5, <1>6, <1>7, <1>8, <1>9, <1>10, <1>11,
     <1>12, <1>13, <1>14 DEF Next

\* Whatever gets around comes from what was around, or is the newest version.
LEMMA FloorStep ==
  ASSUME TypeOK, SeenWhileRunning, FloorBelow, NeverOlder, [Next]_vars
  PROVE  FloorBelow' /\ NeverOlder'
<1>. USE Constants DEF TypeOK, SeenWhileRunning, FloorBelow, NeverOlder, Around,
                       Answered, Running, Set, Versions
<1>1. CASE Update
  <2>1. Around' \subseteq Around \cup {version'}
    BY <1>1 DEF Update
  <2>2. \A r \in Readers : floor[r] \in Nat /\ floor[r] <= version
    OBVIOUS
  <2>3. version' = version + 1 /\ floor' = floor /\ answer' = answer
    BY <1>1 DEF Update
  <2>4. ASSUME NEW r \in Readers, NEW v \in Around'
        PROVE  floor'[r] <= v
    <3>1. CASE v \in Around
      BY <2>3, <3>1
    <3>2. CASE v = version'
      BY <2>2, <2>3, <3>2
    <3>. QED
      BY <2>1, <3>1, <3>2
  <2>. QED
    BY <2>3, <2>4
<1>2. CASE Expire
  BY <1>2 DEF Expire
<1>3. ASSUME NEW r \in Readers, Start(r)
      PROVE  FloorBelow' /\ NeverOlder'
  <2>1. Around' \subseteq Around
    BY <1>3 DEF Start, MoveTo
  <2>2. \A v \in Around : Oldest <= v
    BY OldestBelow
  <2>3. /\ floor' = [floor EXCEPT ![r] = Oldest]
        /\ answer' = [q \in Readers |-> IF q = r THEN NoAnswer ELSE answer[q]]
    BY <1>3 DEF Start, AnswerAll
  <2>4. FloorBelow'
    BY <2>1, <2>2, <2>3
  <2>5. NeverOlder'
    BY <2>3 DEF NoAnswer
  <2>. QED
    BY <2>4, <2>5
<1>4. ASSUME NEW r \in Readers, GetHits(r)
      PROVE  FloorBelow' /\ NeverOlder'
  BY <1>4 DEF GetHits, MoveTo, AnswerAll, Hit
<1>5. ASSUME NEW r \in Readers, GetMisses(r)
      PROVE  FloorBelow' /\ NeverOlder'
  BY <1>5 DEF GetMisses, MoveTo
<1>6. ASSUME NEW r \in Readers, GetFails(r)
      PROVE  FloorBelow' /\ NeverOlder'
  BY <1>6 DEF GetFails, MoveTo, AnswerAll, Error
<1>7. ASSUME NEW r \in Readers, GetFailsOver(r)
      PROVE  FloorBelow' /\ NeverOlder'
  <2>1. UNCHANGED <<version, entry, seen, sets, answer, floor>>
    BY <1>7 DEF GetFailsOver
  <2>2. pc' = [q \in Readers |-> IF q = r THEN "bypassing" ELSE pc[q]]
    BY <1>7 DEF GetFailsOver, MoveTo
  <2>3. pc[r] = "getting"
    BY <1>7 DEF GetFailsOver
  <2>. QED
    BY <2>1, <2>2, <2>3
<1>8. ASSUME NEW r \in Readers, CallReads(r)
      PROVE  FloorBelow' /\ NeverOlder'
  BY <1>8 DEF CallReads
<1>9. ASSUME NEW r \in Readers, CallReturns(r)
      PROVE  FloorBelow' /\ NeverOlder'
  BY <1>9 DEF CallReturns, CallDone, MoveTo, AnswerAll
<1>10. ASSUME NEW r \in Readers, CallFails(r)
       PROVE  FloorBelow' /\ NeverOlder'
  BY <1>10 DEF CallFails, CallDone, MoveTo, AnswerAll, Error
<1>11. ASSUME NEW s \in sets, SetLands(s)
       PROVE  FloorBelow' /\ NeverOlder'
  BY SMTT(30), <1>11 DEF SetLands, MoveTo, AnswerAll, Setter
<1>12. ASSUME NEW s \in sets, SetFails(s)
       PROVE  FloorBelow' /\ NeverOlder'
  BY <1>12 DEF SetFails, MoveTo, AnswerAll, Setter, Error
<1>13. ASSUME NEW s \in sets, SetCrashes(s)
       PROVE  FloorBelow' /\ NeverOlder'
  BY <1>13 DEF SetCrashes, MoveTo, AnswerAll, Error
<1>14. CASE UNCHANGED vars
  BY <1>14 DEF vars
<1>. QED
  BY <1>1, <1>2, <1>3, <1>4, <1>5, <1>6, <1>7, <1>8, <1>9, <1>10, <1>11,
     <1>12, <1>13, <1>14 DEF Next

\* A reader on its own holds nothing from before its read.
LEMMA FreshStep ==
  ASSUME TypeOK, WaysKept, SeenWhileRunning, FreshInHand, MissIsFresh, [Next]_vars
  PROVE  FreshInHand' /\ MissIsFresh'
<1>. USE Constants DEF TypeOK, WaysKept, SeenWhileRunning, FreshInHand,
                       MissIsFresh, Running, Set, Versions, Ways
<1>1. CASE Update
  BY <1>1 DEF Update
<1>2. CASE Expire
  BY <1>2 DEF Expire
<1>3. ASSUME NEW r \in Readers, Start(r)
      PROVE  FreshInHand' /\ MissIsFresh'
  BY <1>3 DEF Start, MoveTo, AnswerAll, NoAnswer
<1>4. ASSUME NEW r \in Readers, GetHits(r)
      PROVE  FreshInHand' /\ MissIsFresh'
  BY <1>4 DEF GetHits, MoveTo, AnswerAll, Hit
<1>5. ASSUME NEW r \in Readers, GetMisses(r)
      PROVE  FreshInHand' /\ MissIsFresh'
  BY <1>5 DEF GetMisses, MoveTo
<1>6. ASSUME NEW r \in Readers, GetFails(r)
      PROVE  FreshInHand' /\ MissIsFresh'
  BY <1>6 DEF GetFails, MoveTo, AnswerAll, Error
<1>7. ASSUME NEW r \in Readers, GetFailsOver(r)
      PROVE  FreshInHand' /\ MissIsFresh'
  BY <1>7 DEF GetFailsOver, MoveTo
<1>8. ASSUME NEW r \in Readers, CallReads(r)
      PROVE  FreshInHand' /\ MissIsFresh'
  BY <1>8 DEF CallReads
<1>9. ASSUME NEW r \in Readers, CallReturns(r)
      PROVE  FreshInHand' /\ MissIsFresh'
  BY <1>9 DEF CallReturns, CallDone, MoveTo, AnswerAll
<1>10. ASSUME NEW r \in Readers, CallFails(r)
       PROVE  FreshInHand' /\ MissIsFresh'
  BY <1>10 DEF CallFails, CallDone, MoveTo, AnswerAll, Error
<1>11. ASSUME NEW s \in sets, SetLands(s)
       PROVE  FreshInHand' /\ MissIsFresh'
  BY <1>11 DEF SetLands, MoveTo, AnswerAll, Setter
<1>12. ASSUME NEW s \in sets, SetFails(s)
       PROVE  FreshInHand' /\ MissIsFresh'
  BY <1>12 DEF SetFails, MoveTo, AnswerAll, Setter, Error
<1>13. ASSUME NEW s \in sets, SetCrashes(s)
       PROVE  FreshInHand' /\ MissIsFresh'
  BY <1>13 DEF SetCrashes, MoveTo, AnswerAll, Error
<1>14. CASE UNCHANGED vars
  BY <1>14 DEF vars
<1>. QED
  BY <1>1, <1>2, <1>3, <1>4, <1>5, <1>6, <1>7, <1>8, <1>9, <1>10, <1>11,
     <1>12, <1>13, <1>14 DEF Next

LEMMA InvInit == Init => IInv
<1>. SUFFICES ASSUME Init PROVE IInv
  OBVIOUS
<1>1. TypeOK
  BY Constants DEF Init, TypeOK, NoAnswer, Answer
<1>2. Around = {0}
  BY Constants DEF Init, Around, Running
<1>3. FloorBelow
  BY <1>2 DEF Init, FloorBelow
<1>4. SeenWhileRunning /\ WaysKept /\ FreshInHand
  BY Constants DEF Init, SeenWhileRunning, WaysKept, FreshInHand
<1>5. NeverOlder /\ MissIsFresh
  BY DEF Init, NeverOlder, Answered, MissIsFresh, NoAnswer
<1>. QED
  BY <1>1, <1>3, <1>4, <1>5 DEF IInv

LEMMA InvStep ==
  ASSUME IInv, [Next]_vars
  PROVE  IInv'
BY TypeStep, WaysStep, FloorStep, FreshStep DEF IInv

\* The inductive invariant holds in every reachable state.
THEOREM Invariance == Spec => []IInv
BY InvInit, InvStep, PTL DEF Spec

\* Bounded staleness: no read returns anything older than what was under way to
\* readers when it began, whatever fails, expires or is answered out of order.
THEOREM StalenessBounded == Spec => []NeverOlder
<1>1. IInv => NeverOlder
  BY DEF IInv
<1>. QED
  BY <1>1, Invariance, PTL

\* @Cacheable, the interceptor and the controller: a read that has to call the
\* method never returns something from before the read.
THEOREM MissesFresh == Spec => []MissIsFresh
<1>1. IInv => MissIsFresh
  BY DEF IInv
<1>. QED
  BY <1>1, Invariance, PTL
=============================================================================
