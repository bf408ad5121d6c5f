--------------------------- MODULE DeliveryProofs ---------------------------
(***************************************************************************)
(* What holds of the delivery of reviews for any watches, reviews, number  *)
(* of notifiers and bounds, whatever ends a match or withdraws a review.   *)
(***************************************************************************)
EXTENDS Delivery, TLAPS, FiniteSetTheorems

(* While a notifier handles a pair, both are at the head of its lists. *)
InHand ==
  \A n \in Notifiers :
    /\ pc[n] \in PairPlaces \cup {"watches"} => todo[n] # <<>>
    /\ pc[n] \in PairPlaces => pending[n] # <<>>

TypeInv == TypeOK /\ InHand

(* The parts of TypeOK: what notifiers remember, the tables, the history.  *)
MemoryOK ==
  /\ pc \in [Notifiers -> Places]
  /\ todo \in [Notifiers -> Seq(Findings)]
  /\ pending \in [Notifiers -> Seq(Watches)]

TablesOK ==
  /\ saved \in [Findings -> 0..saves]
  /\ publishable \subseteq Rows
  /\ created \in [Watches -> Nat]
  /\ active \subseteq Made
  /\ matching \subseteq Watches \X Findings
  /\ ledger \in [Watches \X Findings -> {"none", "skipped", "failed", "sent"}]
  /\ inbox \in [Watches \X Findings -> 0..2]
  /\ saves \in 0..MaxSaves /\ faults \in 0..MaxFaults
  /\ uncertain \subseteq Watches \X Findings

HistoriesOK ==
  /\ contested \subseteq Watches \X Findings
  /\ unmatched \subseteq Notifiers /\ withdrawn \subseteq Notifiers

(***************************************************************************)
(* Listings.                                                               *)
(***************************************************************************)

(* A listing of some reviews, or of some watches, is a sequence of them. *)
LEMMA ListingsAreSequences ==
  /\ \A S \in SUBSET Findings : NewestFirst(S) \subseteq Seq(S)
  /\ \A S \in SUBSET Watches : OldestFirst(S) \subseteq Seq(S)
<1>1. \A S \in SUBSET Findings : Cardinality(S) \in Nat
  BY TablesFinite, FS_Subset, FS_CardinalityType
<1>2. \A S \in SUBSET Watches : Cardinality(S) \in Nat
  BY TablesFinite, FS_Subset, FS_CardinalityType
<1>3. ASSUME NEW S \in SUBSET Findings, NEW s \in NewestFirst(S) PROVE s \in Seq(S)
  <2>1. s \in [1..Cardinality(S) -> S]
    BY DEF NewestFirst
  <2>2. QED
    BY <1>1, <2>1
<1>4. ASSUME NEW S \in SUBSET Watches, NEW s \in OldestFirst(S) PROVE s \in Seq(S)
  <2>1. s \in [1..Cardinality(S) -> S]
    BY DEF OldestFirst
  <2>2. QED
    BY <1>2, <2>1
<1>5. QED
  BY <1>3, <1>4

(* The pair in hand is a watch and a review. *)
LEMMA PairType ==
  ASSUME TypeInv, NEW n \in Notifiers, pc[n] \in PairPlaces
  PROVE  /\ Finding(n) \in Findings
         /\ Watch(n) \in Watches
         /\ Pair(n) \in Watches \X Findings
<1>1. todo[n] \in Seq(Findings) /\ todo[n] # <<>>
  BY DEF TypeInv, TypeOK, InHand
<1>2. pending[n] \in Seq(Watches) /\ pending[n] # <<>>
  BY DEF TypeInv, TypeOK, InHand
<1>3. QED
  BY <1>1, <1>2 DEF Finding, Watch, Pair

(***************************************************************************)
(* Type correctness.                                                       *)
(***************************************************************************)

LEMMA TypeInit == Init => TypeInv
BY LimitsType DEF Init, TypeInv, TypeOK, InHand, PairPlaces, Places, Rows, Made

(* A notifier that stops, or passes over a watch, keeps its memory's type. *)
LEMMA MemoryKept ==
  ASSUME MemoryOK, NEW n \in Notifiers, NEW place \in Places, pc' = [pc EXCEPT ![n] = place]
  PROVE  /\ UNCHANGED <<todo, pending>> => MemoryOK'
         /\ pending[n] # <<>> /\ pending' = [pending EXCEPT ![n] = Tail(@)] /\ UNCHANGED todo
              => MemoryOK'
         /\ todo' = [todo EXCEPT ![n] = <<>>] /\ pending' = [pending EXCEPT ![n] = <<>>]
              => MemoryOK'
<1>1. pc' \in [Notifiers -> Places]
  BY DEF MemoryOK
<1>2. CASE UNCHANGED <<todo, pending>>
  BY <1>1, <1>2 DEF MemoryOK
<1>3. CASE pending[n] # <<>> /\ pending' = [pending EXCEPT ![n] = Tail(@)] /\ UNCHANGED todo
  <2>1. Tail(pending[n]) \in Seq(Watches)
    BY <1>3 DEF MemoryOK
  <2>2. QED
    BY <1>1, <1>3, <2>1 DEF MemoryOK
<1>4. CASE todo' = [todo EXCEPT ![n] = <<>>] /\ pending' = [pending EXCEPT ![n] = <<>>]
  BY <1>1, <1>4 DEF MemoryOK
<1>5. QED
  BY <1>2, <1>3, <1>4

LEMMA StoppedKeepsMemory ==
  ASSUME MemoryOK, NEW n \in Notifiers, Stopped(n)
  PROVE  MemoryOK'
<1>1. pc' = [pc EXCEPT ![n] = "idle"] /\ "idle" \in Places
  BY DEF Stopped, Goto, Places, PairPlaces
<1>2. QED
  BY <1>1, MemoryKept DEF Stopped

(* What each notifier's step does to its own memory. *)
LEMMA MemoryStep ==
  ASSUME TypeInv, MemoryOK, NEW n \in Notifiers, Move(n)
  PROVE  MemoryOK'
<1>1. CASE StartScheduled(n)
  <2>1. PICK fs \in NewestFirst(publishable) : todo' = [todo EXCEPT ![n] = fs]
    BY <1>1 DEF StartScheduled
  <2>2. publishable \in SUBSET Findings
    BY DEF TypeInv, TypeOK, Rows
  <2>3. fs \in Seq(publishable)
    BY <2>1, <2>2, ListingsAreSequences
  <2>4. fs \in Seq(Findings)
    BY <2>2, <2>3
  <2>5. QED
    BY <1>1, <2>1, <2>4 DEF StartScheduled, MemoryOK, Goto, Places, PairPlaces
<1>2. CASE \E f \in Findings : StartManual(n, f)
  BY <1>2 DEF StartManual, MemoryOK, Goto, Places, PairPlaces
<1>3. CASE FinishRun(n) \/ JudgeFails(n) \/ SaveFailed(n) \/ Crash(n)
  BY <1>3, StoppedKeepsMemory DEF FinishRun, JudgeFails, SaveFailed, Crash
<1>4. CASE OpenFinding(n)
  <2>1. CASE Findable(Finding(n))
    <3>1. PICK ws \in OldestFirst(active) : pending' = [pending EXCEPT ![n] = ws]
      BY <1>4, <2>1 DEF OpenFinding
    <3>2. active \in SUBSET Watches
      BY DEF TypeInv, TypeOK, Made
    <3>3. ws \in Seq(active)
      BY <3>1, <3>2, ListingsAreSequences
    <3>4. ws \in Seq(Watches)
      BY <3>2, <3>3
    <3>5. QED
      BY <1>4, <2>1, <3>1, <3>4 DEF OpenFinding, MemoryOK, Goto, Places, PairPlaces
  <2>2. CASE ~Findable(Finding(n))
    BY <1>4, <2>2, StoppedKeepsMemory DEF OpenFinding
  <2>3. QED
    BY <2>1, <2>2
<1>5. CASE CloseFinding(n)
  <2>1. todo[n] # <<>>
    BY <1>5 DEF CloseFinding, TypeInv, InHand
  <2>2. QED
    BY <1>5, <2>1 DEF CloseFinding, MemoryOK, Goto, Places, PairPlaces
<1>6. CASE Consider(n)
  <2>1. CASE pending' = [pending EXCEPT ![n] = Tail(@)] /\ UNCHANGED pc
    BY <1>6, <2>1 DEF Consider, MemoryOK
  <2>2. CASE Goto(n, "considering") /\ UNCHANGED pending
    BY <1>6, <2>2 DEF Consider, MemoryOK, Goto, Places, PairPlaces
  <2>3. QED
    BY <1>6, <2>1, <2>2 DEF Consider
<1>7. CASE Judge(n) \/ ReadReview(n)
  <2>1. CASE UNCHANGED <<todo, pending>>
    <3>1. \E place \in Places : pc' = [pc EXCEPT ![n] = place]
      BY <1>7 DEF Judge, ReadReview, Goto, Stopped, Places, PairPlaces
    <3>2. QED
      BY <2>1, <3>1, MemoryKept
  <2>2. CASE Stopped(n)
    BY <2>2, StoppedKeepsMemory
  <2>3. QED
    BY <1>7, <2>1, <2>2 DEF Judge, ReadReview
<1>8. CASE SaveSkipped(n) \/ SaveSent(n)
  <2>1. pending[n] # <<>>
    BY <1>8 DEF SaveSkipped, SaveSent, TypeInv, InHand, PairPlaces
  <2>2. pc' = [pc EXCEPT ![n] = "watches"] /\ "watches" \in Places
    BY <1>8 DEF SaveSkipped, SaveSent, Goto, Places, PairPlaces
  <2>3. pending' = [pending EXCEPT ![n] = Tail(@)] /\ UNCHANGED todo
    BY <1>8 DEF SaveSkipped, SaveSent
  <2>4. QED
    BY <2>1, <2>2, <2>3, MemoryKept
<1>9. CASE Accept(n) \/ LoseAnswer(n) \/ Refuse(n) \/ RenderFails(n)
  <2>1. \E place \in Places : pc' = [pc EXCEPT ![n] = place]
    BY <1>9 DEF Accept, LoseAnswer, Refuse, RenderFails, Goto, Places, PairPlaces
  <2>2. UNCHANGED <<todo, pending>>
    BY <1>9 DEF Accept, LoseAnswer, Refuse, RenderFails
  <2>3. QED
    BY <2>1, <2>2, MemoryKept
<1>10. QED
  BY <1>1, <1>2, <1>3, <1>4, <1>5, <1>6, <1>7, <1>8, <1>9 DEF Move, Step

(* What each notifier's step does to the tables. *)
LEMMA TablesStep ==
  ASSUME TypeInv, TablesOK, NEW n \in Notifiers, Move(n)
  PROVE  TablesOK'
<1> USE DEF residents, reviews
<1>1. CASE \/ StartScheduled(n) \/ FinishRun(n) \/ OpenFinding(n) \/ CloseFinding(n) \/ Consider(n)
           \/ Judge(n) \/ ReadReview(n) \/ RenderFails(n) \/ \E f \in Findings : StartManual(n, f)
  <2>1. UNCHANGED <<residents, reviews, matching, ledger, inbox, faults, uncertain>>
    BY <1>1 DEF StartScheduled, FinishRun, OpenFinding, CloseFinding, Consider, Judge, ReadReview,
                RenderFails, StartManual
  <2>2. QED
    BY <2>1 DEF TablesOK, Rows, Made
<1>2. CASE JudgeFails(n) \/ Refuse(n)
  <2>1. UNCHANGED <<residents, reviews, matching, ledger, inbox, uncertain>>
    BY <1>2 DEF JudgeFails, Refuse
  <2>2. faults' \in 0..MaxFaults
    BY <1>2, LimitsType DEF JudgeFails, Refuse, Fault, TablesOK
  <2>3. QED
    BY <2>1, <2>2 DEF TablesOK, Rows, Made
<1>3. CASE SaveSkipped(n) \/ SaveSent(n) \/ SaveFailed(n)
  <2>1. \E status \in {"skipped", "sent", "failed"} : ledger' = [ledger EXCEPT ![Pair(n)] = status]
    BY <1>3 DEF SaveSkipped, SaveSent, SaveFailed, Record
  <2>2. UNCHANGED <<residents, reviews, matching, inbox, faults, uncertain>>
    BY <1>3 DEF SaveSkipped, SaveSent, SaveFailed
  <2>3. QED
    BY <2>1, <2>2 DEF TablesOK, Rows, Made
<1>4. CASE Accept(n) \/ LoseAnswer(n)
  <2>1. inbox' = [inbox EXCEPT ![Pair(n)] = IF @ < 2 THEN @ + 1 ELSE @]
    BY <1>4 DEF Accept, LoseAnswer, Send
  <2>2. pc[n] \in PairPlaces
    BY <1>4 DEF Accept, LoseAnswer, PairPlaces
  <2>3. inbox' \in [Watches \X Findings -> 0..2]
    BY <2>1, <2>2, PairType DEF TablesOK
  <2>4. uncertain' \subseteq Watches \X Findings
    BY <1>4, <2>2, PairType DEF Accept, LoseAnswer, TablesOK
  <2>5. faults' \in 0..MaxFaults
    BY <1>4, LimitsType DEF Accept, LoseAnswer, Fault, TablesOK
  <2>6. UNCHANGED <<residents, reviews, matching, ledger>>
    BY <1>4 DEF Accept, LoseAnswer
  <2>7. QED
    BY <2>3, <2>4, <2>5, <2>6 DEF TablesOK, Rows, Made
<1>5. CASE Crash(n)
  <2>1. uncertain' \subseteq Watches \X Findings
    BY <1>5, PairType DEF Crash, PairPlaces, TablesOK
  <2>2. faults' \in 0..MaxFaults
    BY <1>5, LimitsType DEF Crash, Fault, TablesOK
  <2>3. UNCHANGED <<residents, reviews, matching, ledger, inbox>>
    BY <1>5 DEF Crash
  <2>4. QED
    BY <2>1, <2>2, <2>3 DEF TablesOK, Rows, Made
<1>6. QED
  BY <1>1, <1>2, <1>3, <1>4, <1>5 DEF Move, Step

(* What each notifier's step does to the history. *)
LEMMA HistoriesStep ==
  ASSUME TypeInv, NEW n \in Notifiers, Move(n)
  PROVE  /\ HistoriesOK'
         /\ contested \subseteq contested'
         /\ unmatched' \subseteq unmatched /\ withdrawn' \subseteq withdrawn
<1>1. HistoriesOK
  BY DEF TypeInv, TypeOK, HistoriesOK
<1>2. CASE Consider(n)
  <2>1. CASE NotificationSent(n)
    BY <1>1, <1>2, <2>1 DEF Consider, HistoriesOK
  <2>2. CASE ~NotificationSent(n)
    <3>1. /\ pc[n] = "watches" /\ pending[n] # <<>> /\ Contest(n)
          /\ UNCHANGED <<unmatched, withdrawn>>
      BY <1>2, <2>2 DEF Consider
    <3>2. todo[n] \in Seq(Findings) /\ todo[n] # <<>> /\ pending[n] \in Seq(Watches)
      BY <3>1 DEF TypeInv, TypeOK, InHand
    <3>3. Pair(n) \in Watches \X Findings
      BY <3>1, <3>2 DEF Pair, Watch, Finding
    <3>4. QED
      BY <1>1, <3>1, <3>3 DEF Contest, HistoriesOK
  <2>3. QED
    BY <2>1, <2>2
<1>3. CASE Judge(n) \/ ReadReview(n)
  BY <1>1, <1>3 DEF Judge, ReadReview, HistoriesOK
<1>4. CASE ~(Consider(n) \/ Judge(n) \/ ReadReview(n))
  <2>1. UNCHANGED histories
    BY <1>4 DEF Move, Step, StartScheduled, StartManual, FinishRun, OpenFinding, CloseFinding,
                JudgeFails, SaveSkipped, Accept, LoseAnswer, Refuse, RenderFails, SaveSent,
                SaveFailed, Crash
  <2>2. QED
    BY <1>1, <2>1 DEF histories, HistoriesOK
<1>5. QED
  BY <1>2, <1>3, <1>4

(* A notifier's step leaves the others' memory alone and keeps its own     *)
(* lists non-empty where it uses them.                                     *)
LEMMA HandStep ==
  ASSUME TypeInv, MemoryOK, NEW n \in Notifiers, Move(n)
  PROVE  InHand'
<1> USE DEF TypeInv, InHand, MemoryOK, PairPlaces, Goto
<1>1. CASE StartScheduled(n) \/ \E f \in Findings : StartManual(n, f)
  BY <1>1 DEF StartScheduled, StartManual
<1>2. CASE FinishRun(n) \/ JudgeFails(n) \/ SaveFailed(n) \/ Crash(n)
  BY <1>2 DEF FinishRun, JudgeFails, SaveFailed, Crash, Stopped
<1>3. CASE OpenFinding(n)
  BY <1>3 DEF OpenFinding, Stopped
<1>4. CASE CloseFinding(n)
  BY <1>4 DEF CloseFinding
<1>5. CASE Consider(n)
  BY <1>5 DEF Consider
<1>6. CASE Judge(n) \/ ReadReview(n)
  BY <1>6 DEF Judge, ReadReview, Stopped
<1>7. CASE SaveSkipped(n) \/ SaveSent(n)
  BY <1>7 DEF SaveSkipped, SaveSent
<1>8. CASE Accept(n) \/ LoseAnswer(n) \/ Refuse(n) \/ RenderFails(n)
  BY <1>8 DEF Accept, LoseAnswer, Refuse, RenderFails
<1>9. QED
  BY <1>1, <1>2, <1>3, <1>4, <1>5, <1>6, <1>7, <1>8 DEF Move, Step

LEMMA TypeStep == TypeInv /\ [Next]_vars => TypeInv'
<1> SUFFICES ASSUME TypeInv, [Next]_vars PROVE TypeInv'
  OBVIOUS
<1>1. MemoryOK /\ TablesOK /\ HistoriesOK
  BY DEF TypeInv, TypeOK, MemoryOK, TablesOK, HistoriesOK
<1>2. MemoryOK' /\ TablesOK' /\ HistoriesOK' /\ InHand' => TypeInv'
  BY DEF TypeInv, TypeOK, MemoryOK, TablesOK, HistoriesOK
<1>3. ASSUME NEW n \in Notifiers, Move(n) PROVE TypeInv'
  BY <1>1, <1>2, <1>3, MemoryStep, TablesStep, HandStep, HistoriesStep
<1>4. ASSUME UNCHANGED notifier PROVE MemoryOK' /\ InHand'
  BY <1>1, <1>4 DEF notifier, MemoryOK, TypeInv, InHand
<1>5. ASSUME NEW w \in Watches, CreateWatch(w) PROVE TypeInv'
  <2>1. Cardinality(Made) \in Nat
    BY TablesFinite, FS_Subset, FS_CardinalityType DEF Made
  <2>2. created' \in [Watches -> Nat] /\ active' \subseteq Made'
    <3> DEFINE next == Cardinality(Made) + 1
    <3>1. next \in Nat \ {0} /\ created' = [created EXCEPT ![w] = next]
      BY <1>5, <2>1 DEF CreateWatch
    <3> HIDE DEF next
    <3>2. created' \in [Watches -> Nat]
      BY <1>1, <3>1 DEF TablesOK
    <3>3. created'[w] # 0 /\ \A v \in Made : created'[v] # 0
      BY <1>1, <3>1 DEF TablesOK, Made
    <3>4. active' = active \cup {w}
      BY <1>5 DEF CreateWatch
    <3>5. QED
      BY <1>1, <3>2, <3>3, <3>4 DEF TablesOK, Made
  <2>3. UNCHANGED <<notifier, reviews, matching, ledger, inbox, faults, uncertain, histories>>
    BY <1>5 DEF CreateWatch
  <2>4. TablesOK'
    BY <1>1, <2>2, <2>3 DEF TablesOK, Rows, reviews
  <2>5. HistoriesOK'
    BY <1>1, <2>3 DEF HistoriesOK, histories
  <2>6. QED
    BY <1>2, <1>4, <2>3, <2>4, <2>5
<1>6. ASSUME NEW w \in Watches, StopWatch(w) PROVE TypeInv'
  <2>1. UNCHANGED <<notifier, created, reviews, matching, ledger, inbox, faults, uncertain, histories>>
    BY <1>6 DEF StopWatch
  <2>2. active' \subseteq Made'
    BY <1>1, <1>6, <2>1 DEF StopWatch, TablesOK, Made
  <2>3. TablesOK'
    BY <1>1, <2>1, <2>2 DEF TablesOK, Rows, reviews
  <2>4. HistoriesOK'
    BY <1>1, <2>1 DEF HistoriesOK, histories
  <2>5. QED
    BY <1>2, <1>4, <2>1, <2>3, <2>4
<1>7. ASSUME NEW f \in Findings, NEW publish \in BOOLEAN, SaveFinding(f, publish) PROVE TypeInv'
  <2>1. UNCHANGED <<notifier, residents, matching, ledger, inbox, faults, uncertain>>
    BY <1>7 DEF SaveFinding
  <2>2. saves' \in 0..MaxSaves /\ saved' \in [Findings -> 0..saves']
    BY <1>1, <1>7, LimitsType DEF SaveFinding, TablesOK
  <2>3. publishable' \subseteq Rows'
    BY <1>1, <1>7, LimitsType DEF SaveFinding, TablesOK, Rows
  <2>4. TablesOK'
    BY <1>1, <2>1, <2>2, <2>3 DEF TablesOK, Made, residents
  <2>5. HistoriesOK'
    BY <1>1, <1>7 DEF SaveFinding, HistoriesOK
  <2>6. QED
    BY <1>2, <1>4, <2>1, <2>4, <2>5
<1>8. ASSUME NEW w \in Watches, NEW f \in Findings, BeginMatch(w, f) \/ EndMatch(w, f)
      PROVE  TypeInv'
  <2>1. UNCHANGED <<notifier, residents, reviews, ledger, inbox, faults, uncertain>>
    BY <1>8 DEF BeginMatch, EndMatch
  <2>2. matching' \subseteq Watches \X Findings
    BY <1>1, <1>8 DEF BeginMatch, EndMatch, TablesOK
  <2>3. TablesOK'
    BY <1>1, <2>1, <2>2 DEF TablesOK, Rows, Made, residents, reviews
  <2>4. HistoriesOK'
    BY <1>1, <1>8 DEF BeginMatch, EndMatch, HistoriesOK, histories
  <2>5. QED
    BY <1>2, <1>4, <2>1, <2>3, <2>4
<1>9. CASE UNCHANGED vars
  <2>1. UNCHANGED <<notifier, residents, reviews, matching, ledger, inbox, faults, uncertain, histories>>
    BY <1>9 DEF vars, notifier, residents, reviews, histories
  <2>2. TablesOK'
    BY <1>1, <2>1 DEF TablesOK, Rows, Made, residents, reviews
  <2>3. HistoriesOK'
    BY <1>1, <2>1 DEF HistoriesOK, histories
  <2>4. QED
    BY <1>2, <1>4, <2>1, <2>2, <2>3
<1>10. QED
  BY <1>3, <1>5, <1>6, <1>7, <1>8, <1>9 DEF Next

(* Every table and every notifier's memory keeps its type, with any number *)
(* of notifiers.                                                           *)
THEOREM TypeCorrect == Spec => []TypeOK
<1>1. TypeInv => TypeOK
  BY DEF TypeInv
<1>2. QED
  BY <1>1, TypeInit, TypeStep, PTL DEF Spec

(***************************************************************************)
(* What one step can change.                                               *)
(***************************************************************************)

(* Everything but the notifiers leaves their memory, the ledger, the inbox *)
(* and the uncertain pairs alone.                                          *)
Quiet == UNCHANGED <<notifier, ledger, inbox, uncertain>>

LEMMA MovesOrQuiet ==
  ASSUME [Next]_vars
  PROVE  Quiet \/ \E n \in Notifiers : Move(n)
BY DEF Next, Quiet, CreateWatch, StopWatch, SaveFinding, BeginMatch, EndMatch, vars, notifier

(* A notifier's step leaves the memory of the others alone.                *)
LEMMA OthersUnmoved ==
  ASSUME TypeInv, NEW n \in Notifiers, Move(n), NEW m \in Notifiers, m # n
  PROVE  /\ pc'[m] = pc[m] /\ todo'[m] = todo[m] /\ pending'[m] = pending[m]
         /\ Pair(m)' = Pair(m) /\ Finding(m)' = Finding(m)
<1>1. pc \in [Notifiers -> Places] /\ todo \in [Notifiers -> Seq(Findings)]
        /\ pending \in [Notifiers -> Seq(Watches)]
  BY DEF TypeInv, TypeOK
<1> USE DEF Goto, Stopped
<1>2. CASE StartScheduled(n) \/ \E f \in Findings : StartManual(n, f)
  BY <1>1, <1>2 DEF StartScheduled, StartManual, Pair, Watch, Finding
<1>3. CASE FinishRun(n) \/ JudgeFails(n) \/ SaveFailed(n) \/ Crash(n)
  BY <1>1, <1>3 DEF FinishRun, JudgeFails, SaveFailed, Crash, Pair, Watch, Finding
<1>4. CASE OpenFinding(n) \/ CloseFinding(n)
  BY <1>1, <1>4 DEF OpenFinding, CloseFinding, Pair, Watch, Finding
<1>5. CASE Consider(n) \/ Judge(n) \/ ReadReview(n)
  BY <1>1, <1>5 DEF Consider, Judge, ReadReview, Pair, Watch, Finding
<1>6. CASE SaveSkipped(n) \/ SaveSent(n)
  BY <1>1, <1>6 DEF SaveSkipped, SaveSent, Pair, Watch, Finding
<1>7. CASE Accept(n) \/ LoseAnswer(n) \/ Refuse(n) \/ RenderFails(n)
  BY <1>1, <1>7 DEF Accept, LoseAnswer, Refuse, RenderFails, Pair, Watch, Finding
<1>8. QED
  BY <1>2, <1>3, <1>4, <1>5, <1>6, <1>7 DEF Move, Step

(* The ledger changes at the pair in hand only, by one of three saves.     *)
LEMMA LedgerStep ==
  ASSUME NEW n \in Notifiers, Move(n)
  PROVE  \/ ledger' = ledger
         \/ pc[n] = "skipping" /\ ledger' = [ledger EXCEPT ![Pair(n)] = "skipped"]
         \/ pc[n] = "accepted" /\ ledger' = [ledger EXCEPT ![Pair(n)] = "sent"]
         \/ pc[n] = "raised" /\ ledger' = [ledger EXCEPT ![Pair(n)] = "failed"]
BY DEF Move, Step, StartScheduled, StartManual, FinishRun, OpenFinding, CloseFinding, Consider,
       Judge, ReadReview, JudgeFails, SaveSkipped, Accept, LoseAnswer, Refuse, RenderFails, SaveSent, SaveFailed,
       Crash, Record

(* An email is accepted for the pair in hand only, and its notifier knows  *)
(* it or the pair is uncertain.                                            *)
LEMMA InboxStep ==
  ASSUME NEW n \in Notifiers, Move(n)
  PROVE  \/ inbox' = inbox
         \/ /\ pc[n] = "sending"
            /\ Send(n)
            /\ UNCHANGED <<todo, pending, ledger>>
            /\ \/ pc' = [pc EXCEPT ![n] = "accepted"] /\ UNCHANGED uncertain
               \/ pc' = [pc EXCEPT ![n] = "raised"] /\ uncertain' = uncertain \cup {Pair(n)}
BY DEF Move, Step, StartScheduled, StartManual, FinishRun, OpenFinding, CloseFinding, Consider,
       Judge, ReadReview, JudgeFails, SaveSkipped, Accept, LoseAnswer, Refuse, RenderFails, SaveSent, SaveFailed,
       Crash, Goto

(* No email is ever taken back. *)
LEMMA InboxGrows ==
  ASSUME TypeInv, [Next]_vars, NEW p \in Watches \X Findings, inbox[p] > 0
  PROVE  inbox'[p] > 0
<1>1. inbox \in [Watches \X Findings -> 0..2]
  BY DEF TypeInv, TypeOK
<1>2. CASE inbox' = inbox
  BY <1>2
<1>3. CASE \E n \in Notifiers : Send(n)
  BY <1>1, <1>3 DEF Send
<1>4. QED
  BY <1>2, <1>3, MovesOrQuiet, InboxStep DEF Quiet

(* Only an accepted email makes a notifier record one as sent.             *)
LEMMA AcceptedByAccept ==
  ASSUME TypeInv, NEW n \in Notifiers, Move(n), pc'[n] = "accepted"
  PROVE  Accept(n)
<1>1. pc \in [Notifiers -> Places]
  BY DEF TypeInv, TypeOK
<1>2. pc'[n] # "accepted" \/ Accept(n) \/ Consider(n)
  BY <1>1 DEF Move, Step, StartScheduled, StartManual, FinishRun, OpenFinding, CloseFinding,
              Judge, ReadReview, JudgeFails, SaveSkipped, LoseAnswer, Refuse, RenderFails, SaveSent, SaveFailed,
              Crash, Goto, Stopped
<1>3. Consider(n) => pc'[n] # "accepted"
  BY <1>1 DEF Consider, Goto
<1>4. QED
  BY <1>2, <1>3

(***************************************************************************)
(* What is recorded as sent was accepted.                                  *)
(***************************************************************************)

(* A notifier about to record a delivery has its email accepted.           *)
AcceptedHeld == \A n \in Notifiers : pc[n] = "accepted" => inbox[Pair(n)] > 0

SentInv == TypeInv /\ SentMeansAccepted /\ AcceptedHeld

LEMMA SentInit == Init => SentInv
BY TypeInit DEF Init, SentInv, SentMeansAccepted, AcceptedHeld

LEMMA SentStep == SentInv /\ [Next]_vars => SentInv'
<1> SUFFICES ASSUME SentInv, [Next]_vars PROVE SentInv'
  OBVIOUS
<1>1. TypeInv /\ TypeInv'
  BY TypeStep DEF SentInv
<1>2. SentMeansAccepted'
  <2> SUFFICES ASSUME NEW p \in Watches \X Findings, ledger'[p] = "sent" PROVE inbox'[p] > 0
    BY DEF SentMeansAccepted
  <2>1. CASE ledger[p] = "sent"
    BY <1>1, <2>1, InboxGrows DEF SentInv, SentMeansAccepted
  <2>2. CASE ledger[p] # "sent"
    <3>1. PICK n \in Notifiers : Move(n)
      BY <2>2, MovesOrQuiet DEF Quiet
    <3>2. ledger \in [Watches \X Findings -> {"none", "skipped", "failed", "sent"}]
      BY <1>1 DEF TypeInv, TypeOK
    <3>3. pc[n] = "accepted" /\ p = Pair(n)
      BY <2>2, <3>1, <3>2, LedgerStep
    <3>4. inbox[p] > 0
      BY <3>3 DEF SentInv, AcceptedHeld
    <3>5. QED
      BY <1>1, <3>4, InboxGrows
  <2>3. QED
    BY <2>1, <2>2
<1>3. AcceptedHeld'
  <2> SUFFICES ASSUME NEW m \in Notifiers, pc'[m] = "accepted" PROVE inbox'[Pair(m)'] > 0
    BY DEF AcceptedHeld
  <2>1. CASE Quiet
    BY <2>1 DEF SentInv, AcceptedHeld, Quiet, notifier, Pair, Watch, Finding
  <2>2. ASSUME NEW n \in Notifiers, Move(n), m # n PROVE inbox'[Pair(m)'] > 0
    <3>1. pc[m] = "accepted" /\ Pair(m)' = Pair(m)
      BY <1>1, <2>2, OthersUnmoved
    <3>2. inbox[Pair(m)] > 0
      BY <3>1 DEF SentInv, AcceptedHeld
    <3>3. Pair(m) \in Watches \X Findings
      BY <1>1, <3>1, PairType DEF PairPlaces
    <3>4. QED
      BY <1>1, <3>1, <3>2, <3>3, InboxGrows
  <2>3. ASSUME Move(m) PROVE inbox'[Pair(m)'] > 0
    <3>1. Accept(m)
      BY <1>1, <2>3, AcceptedByAccept
    <3>2. Pair(m) \in Watches \X Findings /\ Pair(m)' = Pair(m)
      BY <1>1, <3>1, PairType DEF Accept, PairPlaces, Pair, Watch, Finding
    <3>3. inbox \in [Watches \X Findings -> 0..2]
      BY <1>1 DEF TypeInv, TypeOK
    <3>4. QED
      BY <3>1, <3>2, <3>3 DEF Accept, Send
  <2>4. QED
    BY <2>1, <2>2, <2>3, MovesOrQuiet
<1>4. QED
  BY <1>1, <1>2, <1>3 DEF SentInv

(* "sent", which hides a pair from every later run, is never recorded      *)
(* without an accepted email, with any number of notifiers.                *)
THEOREM SentWasAccepted == Spec => []SentMeansAccepted
<1>1. SentInv => SentMeansAccepted
  BY DEF SentInv
<1>2. QED
  BY <1>1, SentInit, SentStep, PTL DEF Spec

(***************************************************************************)
(* Every email is warranted.                                               *)
(***************************************************************************)

(* Watches, once made, stay made.                                          *)
LEMMA MadeLasts ==
  ASSUME TypeInv, [Next]_vars
  PROVE  Made \subseteq Made'
<1>1. created \in [Watches -> Nat]
  BY DEF TypeInv, TypeOK
<1>2. ASSUME NEW w \in Watches, CreateWatch(w) PROVE Made \subseteq Made'
  <2>1. \A v \in Watches \ {w} : created'[v] = created[v]
    BY <1>1, <1>2 DEF CreateWatch
  <2>2. w \notin Made
    BY <1>2 DEF CreateWatch
  <2>3. QED
    BY <2>1, <2>2 DEF Made
<1>3. ASSUME NEW n \in Notifiers, Move(n) PROVE UNCHANGED created
  BY <1>3 DEF Move, Step, StartScheduled, StartManual, FinishRun, OpenFinding, CloseFinding,
              Consider, Judge, ReadReview, JudgeFails, SaveSkipped, Accept, LoseAnswer, Refuse,
              RenderFails, SaveSent, SaveFailed, Crash, residents
<1>4. UNCHANGED created \/ \E w \in Watches : CreateWatch(w)
  BY <1>3 DEF Next, vars, StopWatch, SaveFinding, BeginMatch, EndMatch, residents
<1>5. QED
  BY <1>2, <1>4 DEF Made

(* The watches a notifier holds were made. *)
HeldWatchesMade == \A n \in Notifiers : \A i \in 1..Len(pending[n]) : pending[n][i] \in Made

(* Past each reading, what was read holds, or has ended since.             *)
MatchRead(n) == Pair(n) \in matching \/ n \in unmatched
ReviewRead(n) == Finding(n) \in publishable \/ n \in withdrawn

SendingWarranted ==
  \A n \in Notifiers :
    /\ pc[n] \in {"matched", "sending"} => MatchRead(n)
    /\ pc[n] = "sending" => ReviewRead(n)

WarrantInv == TypeInv /\ HeldWatchesMade /\ SendingWarranted

LEMMA WarrantInit == Init => WarrantInv
BY TypeInit DEF Init, WarrantInv, HeldWatchesMade, SendingWarranted

(* A notifier comes by its watches by reading the active ones.             *)
LEMMA HeldStep ==
  ASSUME TypeInv, NEW n \in Notifiers, Move(n)
  PROVE  \/ pending'[n] = pending[n]
         \/ pending'[n] = <<>>
         \/ pending[n] # <<>> /\ pending'[n] = Tail(pending[n])
         \/ pending'[n] \in Seq(active)
<1>1. pending \in [Notifiers -> Seq(Watches)]
  BY DEF TypeInv, TypeOK
<1>2. CASE OpenFinding(n)
  <2>1. CASE Findable(Finding(n))
    <3>1. PICK ws \in OldestFirst(active) : pending' = [pending EXCEPT ![n] = ws]
      BY <1>2, <2>1 DEF OpenFinding
    <3>2. active \in SUBSET Watches
      BY DEF TypeInv, TypeOK, Made
    <3>3. QED
      BY <1>1, <3>1, <3>2, ListingsAreSequences
  <2>2. CASE ~Findable(Finding(n))
    BY <1>1, <1>2, <2>2 DEF OpenFinding, Stopped
  <2>3. QED
    BY <2>1, <2>2
<1>3. CASE Consider(n)
  BY <1>1, <1>3 DEF Consider
<1>4. CASE SaveSkipped(n) \/ SaveSent(n)
  <2>1. pending[n] # <<>>
    BY <1>4 DEF SaveSkipped, SaveSent, TypeInv, InHand, PairPlaces
  <2>2. QED
    BY <1>1, <1>4, <2>1 DEF SaveSkipped, SaveSent
<1>5. CASE ~(OpenFinding(n) \/ Consider(n) \/ SaveSkipped(n) \/ SaveSent(n))
  BY <1>1, <1>5 DEF Move, Step, StartScheduled, StartManual, FinishRun, CloseFinding, Judge,
                    ReadReview, JudgeFails, Accept, LoseAnswer, Refuse, RenderFails, SaveFailed,
                    Crash, Stopped
<1>6. QED
  BY <1>2, <1>3, <1>4, <1>5

(* Only a judgement makes a notifier hold a match, and only a reading of   *)
(* the review makes it send.                                               *)
LEMMA SendingByReading ==
  ASSUME TypeInv, NEW n \in Notifiers, Move(n), pc'[n] \in {"matched", "sending"}
  PROVE  /\ UNCHANGED <<todo, pending, matching, publishable>>
         /\ \/ Judge(n) /\ pc'[n] = "matched" /\ Pair(n) \in matching
            \/ /\ ReadReview(n) /\ pc[n] = "matched" /\ pc'[n] = "sending"
               /\ Finding(n) \in publishable /\ UNCHANGED unmatched
<1>1. pc \in [Notifiers -> Places]
  BY DEF TypeInv, TypeOK
<1>2. Judge(n) \/ ReadReview(n) \/ Consider(n)
  BY <1>1 DEF Move, Step, StartScheduled, StartManual, FinishRun, OpenFinding, CloseFinding,
              JudgeFails, SaveSkipped, Accept, LoseAnswer, Refuse, RenderFails, SaveSent, SaveFailed,
              Crash, Goto, Stopped
<1>3. ~Consider(n)
  BY <1>1 DEF Consider, Goto
<1>4. CASE Judge(n)
  BY <1>1, <1>4 DEF Judge, Goto, reviews
<1>5. CASE ReadReview(n)
  BY <1>1, <1>5 DEF ReadReview, Goto, Stopped, reviews
<1>6. QED
  BY <1>2, <1>3, <1>4, <1>5

(* Whatever happens around a notifier, what it has read holds or is known  *)
(* to have ended since.                                                    *)
LEMMA ReadingsKept ==
  ASSUME WarrantInv, [Next]_vars, NEW m \in Notifiers,
         pc'[m] = pc[m], Pair(m)' = Pair(m), Finding(m)' = Finding(m),
         \A n \in Notifiers : Move(n) => n # m
  PROVE  /\ pc[m] \in {"matched", "sending"} => MatchRead(m)'
         /\ pc[m] = "sending" => ReviewRead(m)'
<1> DEFINE Kept == /\ pc[m] \in {"matched", "sending"} => MatchRead(m)'
                   /\ pc[m] = "sending" => ReviewRead(m)'
<1>1. /\ pc[m] \in {"matched", "sending"} => MatchRead(m)
      /\ pc[m] = "sending" => ReviewRead(m)
  BY DEF WarrantInv, SendingWarranted
<1>2. ASSUME NEW n \in Notifiers, Move(n) PROVE Kept
  <2>1. UNCHANGED <<matching, publishable>>
    BY <1>2 DEF Move, Step, StartScheduled, StartManual, FinishRun, OpenFinding, CloseFinding,
                Consider, Judge, ReadReview, JudgeFails, SaveSkipped, Accept, LoseAnswer, Refuse,
                RenderFails, SaveSent, SaveFailed, Crash, reviews
  <2>2. (m \in unmatched => m \in unmatched') /\ (m \in withdrawn => m \in withdrawn')
    <3>1. n # m
      BY <1>2
    <3>2. CASE Judge(n) \/ ReadReview(n)
      BY <3>1, <3>2 DEF Judge, ReadReview
    <3>3. CASE ~(Judge(n) \/ ReadReview(n))
      BY <1>2, <3>3 DEF Move, Step, StartScheduled, StartManual, FinishRun, OpenFinding,
                CloseFinding, Consider, JudgeFails, SaveSkipped, Accept, LoseAnswer, Refuse,
                RenderFails, SaveSent, SaveFailed, Crash, histories
    <3>4. QED
      BY <3>2, <3>3
  <2>3. QED
    BY <1>1, <2>1, <2>2 DEF MatchRead, ReviewRead
<1>3. ASSUME NEW w \in Watches, CreateWatch(w) \/ StopWatch(w) PROVE Kept
  BY <1>1, <1>3 DEF CreateWatch, StopWatch, reviews, histories, MatchRead, ReviewRead
<1>4. ASSUME NEW f \in Findings, NEW publish \in BOOLEAN, SaveFinding(f, publish) PROVE Kept
  <2>1. UNCHANGED <<matching, unmatched>>
    BY <1>4 DEF SaveFinding
  <2>2. /\ publishable' = IF publish THEN publishable \cup {f} ELSE publishable \ {f}
        /\ withdrawn' = IF publish THEN withdrawn
             ELSE withdrawn \cup {n \in Notifiers : pc[n] = "sending" /\ Finding(n) = f}
    BY <1>4 DEF SaveFinding
  <2>3. pc[m] = "sending" /\ Finding(m) \in publishable
          => Finding(m) \in publishable' \/ m \in withdrawn'
    BY <2>2
  <2>4. m \in withdrawn => m \in withdrawn'
    BY <2>2
  <2>5. QED
    BY <1>1, <2>1, <2>3, <2>4 DEF MatchRead, ReviewRead
<1>5. ASSUME NEW w \in Watches, NEW f \in Findings, BeginMatch(w, f) \/ EndMatch(w, f) PROVE Kept
  <2>1. UNCHANGED <<publishable, withdrawn>>
    BY <1>5 DEF BeginMatch, EndMatch, reviews, histories
  <2>2. pc[m] \in {"matched", "sending"} /\ Pair(m) \in matching
          => Pair(m) \in matching' \/ m \in unmatched'
    BY <1>5 DEF BeginMatch, EndMatch
  <2>3. m \in unmatched => m \in unmatched'
    BY <1>5 DEF BeginMatch, EndMatch, histories
  <2>4. QED
    BY <1>1, <2>1, <2>2, <2>3 DEF MatchRead, ReviewRead
<1>6. CASE UNCHANGED vars
  BY <1>1, <1>6 DEF vars, MatchRead, ReviewRead
<1>7. QED
  BY <1>2, <1>3, <1>4, <1>5, <1>6 DEF Next

LEMMA WarrantStep == WarrantInv /\ [Next]_vars => WarrantInv'
<1> SUFFICES ASSUME WarrantInv, [Next]_vars PROVE WarrantInv'
  OBVIOUS
<1>1. TypeInv /\ TypeInv'
  BY TypeStep DEF WarrantInv
<1>2. Made \subseteq Made'
  BY <1>1, MadeLasts
<1>3. HeldWatchesMade'
  <2> SUFFICES ASSUME NEW m \in Notifiers, NEW i \in 1..Len(pending'[m])
               PROVE  pending'[m][i] \in Made'
    BY DEF HeldWatchesMade
  <2>1. pending[m] \in Seq(Watches) /\ \A j \in 1..Len(pending[m]) : pending[m][j] \in Made
    BY <1>1 DEF TypeInv, TypeOK, WarrantInv, HeldWatchesMade
  <2>2. \/ pending'[m] = pending[m]
        \/ pending'[m] = <<>>
        \/ pending[m] # <<>> /\ pending'[m] = Tail(pending[m])
        \/ pending'[m] \in Seq(active)
    BY <1>1, MovesOrQuiet, HeldStep, OthersUnmoved DEF Quiet, notifier
  <2>3. active \subseteq Made
    BY <1>1 DEF TypeInv, TypeOK
  <2>4. CASE pending[m] # <<>> /\ pending'[m] = Tail(pending[m])
    <3>1. i + 1 \in 1..Len(pending[m]) /\ pending'[m][i] = pending[m][i + 1]
      BY <2>1, <2>4
    <3>2. QED
      BY <1>2, <2>1, <3>1
  <2>5. CASE pending'[m] \in Seq(active)
    BY <1>2, <2>3, <2>5
  <2>6. CASE pending'[m] = pending[m]
    BY <1>2, <2>1, <2>6
  <2>7. CASE pending'[m] = <<>>
    BY <2>7
  <2>8. QED
    BY <2>2, <2>4, <2>5, <2>6, <2>7
<1>4. SendingWarranted'
  <2> SUFFICES ASSUME NEW m \in Notifiers
               PROVE  /\ pc'[m] \in {"matched", "sending"} => MatchRead(m)'
                      /\ pc'[m] = "sending" => ReviewRead(m)'
    BY DEF SendingWarranted
  <2>1. CASE Move(m)
    <3> SUFFICES ASSUME pc'[m] \in {"matched", "sending"}
                 PROVE  MatchRead(m)' /\ (pc'[m] = "sending" => ReviewRead(m)')
      OBVIOUS
    <3>1. UNCHANGED <<todo, pending, matching, publishable>>
      BY <1>1, <2>1, SendingByReading
    <3>2. Pair(m)' = Pair(m) /\ Finding(m)' = Finding(m)
      BY <3>1 DEF Pair, Watch, Finding
    <3>3. \/ pc'[m] = "matched" /\ Pair(m) \in matching
          \/ pc[m] = "matched" /\ Finding(m) \in publishable /\ UNCHANGED unmatched
      BY <1>1, <2>1, SendingByReading
    <3>4. pc[m] = "matched" => MatchRead(m)
      BY DEF WarrantInv, SendingWarranted
    <3>5. pc'[m] = "sending" => Finding(m) \in publishable
      BY <3>3
    <3>6. QED
      BY <3>1, <3>2, <3>3, <3>4, <3>5 DEF MatchRead, ReviewRead
  <2>2. CASE ~Move(m)
    <3>1. pc'[m] = pc[m] /\ Pair(m)' = Pair(m) /\ Finding(m)' = Finding(m)
      <4>1. CASE Quiet
        BY <4>1 DEF Quiet, notifier, Pair, Watch, Finding
      <4>2. ASSUME NEW n \in Notifiers, Move(n)
            PROVE  pc'[m] = pc[m] /\ Pair(m)' = Pair(m) /\ Finding(m)' = Finding(m)
        BY <1>1, <2>2, <4>2, OthersUnmoved
      <4>3. QED
        BY <4>1, <4>2, MovesOrQuiet
    <3>2. \A n \in Notifiers : Move(n) => n # m
      BY <2>2
    <3>3. QED
      BY <3>1, <3>2, ReadingsKept
  <2>3. QED
    BY <2>1, <2>2
<1>5. QED
  BY <1>1, <1>3, <1>4 DEF WarrantInv

(* The step that puts an email into an inbox is a warranted one.           *)
LEMMA EmailStep ==
  ASSUME WarrantInv, [Next]_vars, NEW w \in Watches, NEW f \in Findings,
         inbox'[<<w, f>>] # inbox[<<w, f>>]
  PROVE  \E n \in Notifiers :
           /\ pc[n] = "sending" /\ Pair(n) = <<w, f>> /\ w \in Made
           /\ <<w, f>> \in matching \/ n \in unmatched
           /\ f \in publishable \/ n \in withdrawn
<1>1. TypeInv
  BY DEF WarrantInv
<1>2. PICK n \in Notifiers : Move(n) /\ inbox' # inbox
  BY MovesOrQuiet DEF Quiet
<1>3. pc[n] = "sending" /\ Send(n)
  BY <1>2, InboxStep
<1>4. inbox \in [Watches \X Findings -> 0..2]
  BY <1>1 DEF TypeInv, TypeOK
<1>5. <<w, f>> = Pair(n)
  BY <1>3, <1>4 DEF Send
<1>6. w = Watch(n) /\ f = Finding(n)
  BY <1>5 DEF Pair
<1>7. pending[n] \in Seq(Watches) /\ pending[n] # <<>>
  BY <1>1, <1>3 DEF TypeInv, TypeOK, InHand, PairPlaces
<1>8. Watch(n) \in Made
  BY <1>7 DEF WarrantInv, HeldWatchesMade, Watch
<1>9. MatchRead(n) /\ ReviewRead(n)
  BY <1>3 DEF WarrantInv, SendingWarranted
<1>10. QED
  BY <1>3, <1>5, <1>6, <1>8, <1>9 DEF MatchRead, ReviewRead

(* No email without a watch, and none whose match or review had ended      *)
(* before its notifier looked at it, with any number of notifiers,         *)
(* whatever ends meanwhile.                                                *)
THEOREM EmailsWarranted == Spec => EmailsAreWarranted
<1>1. WarrantInv /\ [Next]_vars =>
        [\A w \in Watches, f \in Findings : inbox'[<<w, f>>] # inbox[<<w, f>>] =>
           \E n \in Notifiers :
             /\ pc[n] = "sending" /\ Pair(n) = <<w, f>> /\ w \in Made
             /\ <<w, f>> \in matching \/ n \in unmatched
             /\ f \in publishable \/ n \in withdrawn]_inbox
  BY EmailStep
<1>2. QED
  BY <1>1, WarrantInit, WarrantStep, PTL DEF Spec, EmailsAreWarranted

(***************************************************************************)
(* Second emails and final records.                                        *)
(***************************************************************************)

(* Two notifiers with the same pair in hand contest it. *)
ContestsKnown ==
  \A m, n \in Notifiers :
    m # n /\ pc[m] \in PairPlaces /\ pc[n] \in PairPlaces /\ Pair(m) = Pair(n)
      => Pair(n) \in contested

(* A pair that nobody contests is in hand only while it is not recorded as *)
(* sent, and an email accepted for it is recorded, about to be recorded,   *)
(* or uncertain.                                                           *)
HandledUnsent ==
  \A n \in Notifiers : pc[n] \in PairPlaces => ledger[Pair(n)] # "sent" \/ Pair(n) \in contested

EmailsAccounted ==
  \A p \in Watches \X Findings : inbox[p] > 0 =>
    \/ p \in uncertain \cup contested
    \/ ledger[p] = "sent"
    \/ \E n \in Notifiers : pc[n] = "accepted" /\ Pair(n) = p

OnceInv ==
  /\ TypeInv
  /\ ContestsKnown
  /\ HandledUnsent
  /\ EmailsAccounted
  /\ DuplicateNeedsLostRecord

LEMMA OnceInit == Init => OnceInv
BY TypeInit DEF Init, OnceInv, ContestsKnown, HandledUnsent, EmailsAccounted,
   DuplicateNeedsLostRecord, PairPlaces

(* A notifier at a pair came there through the check of the ledger, where  *)
(* it met whoever has the pair in hand, or was there, with the same pair   *)
(* and ledger.                                                             *)
LEMMA PairReached ==
  ASSUME TypeInv, NEW n \in Notifiers, Move(n), pc'[n] \in PairPlaces
  PROVE  /\ UNCHANGED <<todo, pending, ledger>>
         /\ pc[n] \in PairPlaces \/ (ledger[Pair(n)] # "sent" /\ Contest(n))
<1>1. pc \in [Notifiers -> Places]
  BY DEF TypeInv, TypeOK
<1>2. CASE Consider(n)
  BY <1>1, <1>2 DEF Consider, NotificationSent, Goto, PairPlaces
<1>3. CASE Judge(n) \/ ReadReview(n)
  BY <1>1, <1>3 DEF Judge, ReadReview, Goto, Stopped, PairPlaces
<1>4. CASE Accept(n) \/ LoseAnswer(n) \/ Refuse(n) \/ RenderFails(n)
  BY <1>1, <1>4 DEF Accept, LoseAnswer, Refuse, RenderFails, PairPlaces
<1>5. CASE OpenFinding(n)
  BY <1>1, <1>5 DEF OpenFinding, Goto, Stopped, PairPlaces
<1>6. CASE ~(Consider(n) \/ Judge(n) \/ ReadReview(n) \/ OpenFinding(n)
             \/ Accept(n) \/ LoseAnswer(n) \/ Refuse(n) \/ RenderFails(n))
  BY <1>1, <1>6 DEF Move, Step, StartScheduled, StartManual, FinishRun, CloseFinding, JudgeFails,
                    SaveSkipped, SaveSent, SaveFailed, Crash, Goto, Stopped, PairPlaces
<1>7. QED
  BY <1>2, <1>3, <1>4, <1>5, <1>6

(* A notifier leaves an accepted email behind by recording it, or by being *)
(* killed, which makes the pair uncertain.                                 *)
LEMMA AcceptedLeft ==
  ASSUME TypeInv, NEW n \in Notifiers, Move(n), pc[n] = "accepted"
  PROVE  ledger' = [ledger EXCEPT ![Pair(n)] = "sent"] \/ Pair(n) \in uncertain'
BY DEF Move, Step, StartScheduled, StartManual, FinishRun, OpenFinding, CloseFinding, Consider,
       Judge, ReadReview, JudgeFails, SaveSkipped, Accept, LoseAnswer, Refuse, RenderFails, SaveSent,
       SaveFailed, Crash, Record

(* Nothing is ever forgotten of uncertain and contested pairs. *)
LEMMA HistoryGrows ==
  ASSUME TypeInv, [Next]_vars
  PROVE  uncertain \subseteq uncertain' /\ contested \subseteq contested'
<1>1. ASSUME NEW n \in Notifiers, Move(n) PROVE uncertain \subseteq uncertain'
  BY <1>1 DEF Move, Step, StartScheduled, StartManual, FinishRun, OpenFinding, CloseFinding,
     Consider, Judge, ReadReview, JudgeFails, SaveSkipped, Accept, LoseAnswer, Refuse, RenderFails,
     SaveSent, SaveFailed, Crash
<1>2. ASSUME NEW n \in Notifiers, Move(n) PROVE contested \subseteq contested'
  BY <1>2, HistoriesStep
<1>3. QED
  BY <1>1, <1>2 DEF Next, CreateWatch, StopWatch, SaveFinding, BeginMatch, EndMatch, histories, vars

(* No notifier touches an uncontested pair recorded as sent.               *)
LEMMA SentKept ==
  ASSUME OnceInv, [Next]_vars, NEW p \in Watches \X Findings, p \notin contested',
         ledger[p] = "sent"
  PROVE  ledger'[p] = "sent"
<1>1. CASE Quiet
  BY <1>1 DEF Quiet
<1>2. ASSUME NEW n \in Notifiers, Move(n) PROVE ledger'[p] = "sent"
  <2>1. ledger \in [Watches \X Findings -> {"none", "skipped", "failed", "sent"}]
    BY DEF OnceInv, TypeInv, TypeOK
  <2>2. p \notin contested
    BY HistoryGrows DEF OnceInv
  <2>3. pc[n] \in {"skipping", "accepted", "raised"} => Pair(n) # p
    BY <2>2 DEF OnceInv, HandledUnsent, PairPlaces
  <2>4. QED
    BY <1>2, <2>1, <2>3, LedgerStep
<1>3. QED
  BY <1>1, <1>2, MovesOrQuiet

LEMMA OnceStep == OnceInv /\ [Next]_vars => OnceInv'
<1> SUFFICES ASSUME OnceInv, [Next]_vars PROVE OnceInv'
  OBVIOUS
<1>1. TypeInv /\ TypeInv' /\ uncertain \subseteq uncertain' /\ contested \subseteq contested'
  BY TypeStep, HistoryGrows DEF OnceInv
<1>2. CASE Quiet
  <2>1. /\ UNCHANGED <<pc, ledger, inbox>>
        /\ \A n \in Notifiers : Pair(n)' = Pair(n)
    BY <1>2 DEF Quiet, notifier, Pair, Watch, Finding
  <2>2. QED
    BY <1>1, <2>1 DEF OnceInv, ContestsKnown, HandledUnsent, EmailsAccounted,
                      DuplicateNeedsLostRecord
<1>3. ASSUME NEW n \in Notifiers, Move(n) PROVE OnceInv'
  <2>1. \A m \in Notifiers \ {n} : pc'[m] = pc[m] /\ Pair(m)' = Pair(m)
    BY <1>1, <1>3, OthersUnmoved
  <2>2. ledger \in [Watches \X Findings -> {"none", "skipped", "failed", "sent"}]
          /\ inbox \in [Watches \X Findings -> 0..2]
    BY <1>1 DEF TypeInv, TypeOK
  <2>3. ContestsKnown'
    <3>1. ASSUME NEW m \in Notifiers \ {n}, pc'[m] \in PairPlaces, pc'[n] \in PairPlaces,
                 Pair(m)' = Pair(n)'
          PROVE  Pair(n)' \in contested'
      <4>1. Pair(n)' = Pair(n)
        BY <1>1, <1>3, <3>1, PairReached DEF Pair, Watch, Finding
      <4>2. pc[m] \in PairPlaces /\ Pair(m) = Pair(n)
        BY <2>1, <3>1, <4>1
      <4>3. CASE pc[n] \in PairPlaces
        BY <1>1, <4>1, <4>2, <4>3 DEF OnceInv, ContestsKnown
      <4>4. CASE pc[n] \notin PairPlaces
        <5>1. Contest(n)
          BY <1>1, <1>3, <3>1, <4>4, PairReached
        <5>2. QED
          BY <4>1, <4>2, <5>1 DEF Contest
      <4>5. QED
        BY <4>3, <4>4
    <3>2. ASSUME NEW m \in Notifiers \ {n}, NEW k \in Notifiers \ {n}, m # k,
                 pc'[m] \in PairPlaces, pc'[k] \in PairPlaces, Pair(m)' = Pair(k)'
          PROVE  Pair(k)' \in contested'
      BY <1>1, <2>1, <3>2 DEF OnceInv, ContestsKnown
    <3>3. QED
      BY <3>1, <3>2 DEF ContestsKnown
  <2>4. HandledUnsent'
    <3> SUFFICES ASSUME NEW m \in Notifiers, pc'[m] \in PairPlaces, Pair(m)' \notin contested'
                 PROVE  ledger'[Pair(m)'] # "sent"
      BY DEF HandledUnsent
    <3>1. CASE m = n
      <4>1. UNCHANGED <<todo, pending, ledger>>
              /\ (pc[n] \in PairPlaces \/ ledger[Pair(n)] # "sent")
        BY <1>1, <1>3, <3>1, PairReached
      <4>2. Pair(n)' = Pair(n)
        BY <4>1 DEF Pair, Watch, Finding
      <4>3. QED
        BY <1>1, <3>1, <4>1, <4>2 DEF OnceInv, HandledUnsent
    <3>2. CASE m # n
      <4>1. pc[m] \in PairPlaces /\ Pair(m)' = Pair(m) /\ Pair(m) \notin contested
        BY <1>1, <2>1, <3>2
      <4>2. ledger[Pair(m)] # "sent"
        BY <4>1 DEF OnceInv, HandledUnsent
      <4>3. pc[n] \in PairPlaces => Pair(n) # Pair(m)
        BY <3>2, <4>1 DEF OnceInv, ContestsKnown
      <4>4. Pair(m) \in Watches \X Findings
        BY <1>1, <4>1, PairType
      <4>5. QED
        BY <1>3, <2>2, <4>1, <4>2, <4>3, <4>4, LedgerStep DEF PairPlaces
    <3>3. QED
      BY <3>1, <3>2
  <2>5. EmailsAccounted'
    <3> SUFFICES ASSUME NEW p \in Watches \X Findings, inbox'[p] > 0,
                        p \notin uncertain', p \notin contested'
                 PROVE  \/ ledger'[p] = "sent"
                        \/ \E m \in Notifiers : pc'[m] = "accepted" /\ Pair(m)' = p
      BY DEF EmailsAccounted
    <3>1. CASE inbox[p] > 0
      <4>1. ledger[p] = "sent" \/ \E m \in Notifiers : pc[m] = "accepted" /\ Pair(m) = p
        BY <1>1, <3>1 DEF OnceInv, EmailsAccounted
      <4>2. CASE ledger[p] = "sent"
        BY <4>2, SentKept
      <4>3. ASSUME NEW m \in Notifiers \ {n}, pc[m] = "accepted", Pair(m) = p
            PROVE  \E k \in Notifiers : pc'[k] = "accepted" /\ Pair(k)' = p
        BY <2>1, <4>3
      <4>4. CASE pc[n] = "accepted" /\ Pair(n) = p
        BY <1>1, <1>3, <2>2, <4>4, AcceptedLeft
      <4>5. QED
        BY <4>1, <4>2, <4>3, <4>4
    <3>2. CASE ~(inbox[p] > 0)
      <4>1. /\ pc[n] = "sending"
            /\ Send(n)
            /\ UNCHANGED <<todo, pending, ledger>>
            /\ \/ pc' = [pc EXCEPT ![n] = "accepted"] /\ UNCHANGED uncertain
               \/ pc' = [pc EXCEPT ![n] = "raised"] /\ uncertain' = uncertain \cup {Pair(n)}
        BY <1>3, <3>2, InboxStep
      <4>2. p = Pair(n)
        BY <2>2, <3>2, <4>1 DEF Send
      <4>3. Pair(n)' = Pair(n)
        BY <4>1 DEF Pair, Watch, Finding
      <4>4. pc \in [Notifiers -> Places]
        BY <1>1 DEF TypeInv, TypeOK
      <4>5. QED
        BY <4>1, <4>2, <4>3, <4>4
    <3>3. QED
      BY <3>1, <3>2
  <2>6. DuplicateNeedsLostRecord'
    <3> SUFFICES ASSUME NEW p \in Watches \X Findings, inbox'[p] > 1, p \notin contested'
                 PROVE  p \in uncertain'
      BY DEF DuplicateNeedsLostRecord
    <3>1. CASE inbox[p] > 1
      BY <1>1, <3>1 DEF OnceInv, DuplicateNeedsLostRecord
    <3>2. CASE ~(inbox[p] > 1)
      <4>1. pc[n] = "sending" /\ Send(n)
        BY <1>3, <3>2, InboxStep
      <4>2. p = Pair(n) /\ inbox[p] > 0
        BY <2>2, <3>2, <4>1 DEF Send
      <4>3. p \notin contested /\ ledger[p] # "sent"
        BY <1>1, <4>1, <4>2 DEF OnceInv, HandledUnsent, PairPlaces
      <4>4. \A m \in Notifiers : pc[m] = "accepted" => Pair(m) # p
        BY <4>1, <4>2, <4>3 DEF OnceInv, ContestsKnown, PairPlaces
      <4>5. p \in uncertain
        BY <4>2, <4>3, <4>4 DEF OnceInv, EmailsAccounted
      <4>6. QED
        BY <1>1, <4>5
    <3>3. QED
      BY <3>1, <3>2
  <2>7. QED
    BY <1>1, <2>3, <2>4, <2>5, <2>6 DEF OnceInv
<1>4. QED
  BY <1>2, <1>3, MovesOrQuiet

(* A second email needs a first one whose acceptance was never recorded,   *)
(* or two notifiers with the pair in hand at once, with any number of      *)
(* notifiers.                                                              *)
THEOREM SecondEmailsExplained == Spec => []DuplicateNeedsLostRecord
<1>1. OnceInv => DuplicateNeedsLostRecord
  BY DEF OnceInv
<1>2. QED
  BY <1>1, OnceInit, OnceStep, PTL DEF Spec

(* No later save ever replaces "sent", unless two notifiers had the pair   *)
(* in hand at once.                                                        *)
THEOREM SentStaysSent == Spec => SentIsFinal
<1>1. OnceInv /\ [Next]_vars =>
        [\A p \in (Watches \X Findings) \ contested' :
           ledger[p] = "sent" => ledger'[p] = "sent"]_ledger
  BY SentKept
<1>2. QED
  BY <1>1, OnceInit, OnceStep, PTL DEF Spec, SentIsFinal
=============================================================================
