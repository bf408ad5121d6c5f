--------------------------- MODULE CollectorProofs ---------------------------
(***************************************************************************)
(* What holds of the collector for any events, attachments, versions and   *)
(* pages, however the source changes and requests fail; and, from the      *)
(* middle on, what holds of the backfill that reads the same source.       *)
(***************************************************************************)
EXTENDS Collector, TLAPS, FiniteSetTheorems, WellFoundedInduction, SequenceTheorems

TypeInv == TypeOK /\ \A t \in Targets : served[t] # <<>>

Queued(t) == \E i \in 1..Len(todo) : todo[i] = t

(* Pages are requested first and in order; the documents of an event come  *)
(* before what is left of the events.                                      *)
QueueInv ==
  /\ pc = "idle" => todo = <<>>
  /\ (\E p \in Pages : Queued(p)) => \A i \in 1..Len(todo) :
       /\ todo[i] = <<"page", MaxPages - Len(todo) + i - 1>>
       /\ received[todo[i]] = NoVersion
  /\ \A i, j \in 1..Len(todo) : i < j /\ todo[j] \in Documents => todo[i] \in Documents

(* A response that was captured had been served; a 304 is captured only    *)
(* beside something no one can use, and what can be used was parsed.       *)
Genuine(c) ==
  /\ c.status \in {"ok", "unmodified"} =>
       \E k \in 1..Len(served[c.target]) : served[c.target][k] = c.body
  /\ c.status = "unmodified" => c.body \notin Usable
  /\ c.target \in Details /\ c.status = "ok" /\ c.body \in Usable => c.fields = "parsed"

CaptureInv == \A i \in 1..Len(manifest) : Genuine(manifest[i])

(* The two captures at hand are of one document, in the order in which its *)
(* source served them.                                                     *)
Replaced(t, old, new) ==
  \E i, j \in 1..Len(served[t]) : i < j /\ served[t][i] = old /\ served[t][j] = new

ChangeInv ==
  /\ pc = "comparing" /\ before.status = "ok" /\ before.body # after.body =>
       Replaced(after.target, before.body, after.body)
  /\ ContentChangesAreReal

(* The event in hand was captured, and it names the documents to come.     *)
Names(c, t) ==
  /\ c.target \in Details /\ c.fields = "parsed"
  /\ \/ t = <<"agenda", c.target[2]>>
     \/ t \in {<<"attachment", a>> : a \in Attached[c.body]}

PaperInv ==
  /\ \A i \in 1..Len(todo) : todo[i] \in Documents => detail \in Versions /\
       \E j \in 1..Len(manifest) : manifest[j].body = detail /\ Names(manifest[j], todo[i])
  /\ DocumentsHaveEvents

(* As long as a run has noted no issue, everything that what it received   *)
(* calls for is settled or queued.                                         *)
Settled(t) ==
  \/ CapturedAs(t, received[t])
  \/ t \in Documents /\ Kind(t) = "attachment" /\ received[t] \in Versions \ Usable

AllCalled ==
  /\ \A p \in CalledPages : Settled(p) \/ Queued(p)
  /\ \A p \in Pages : received[p] \in Usable => Listed[received[p]] \subseteq found
  /\ (\A p \in Pages : ~Queued(p)) =>
       \A e \in found : Settled(<<"event", e>>) \/ Queued(<<"event", e>>)
  /\ \A e \in Events : received[<<"event", e>>] \in Usable =>
       \A d \in ToSet(Papers(e, received[<<"event", e>>])) : Settled(d) \/ Queued(d)

CallInv ==
  /\ pc # "idle" => lastRun = "running"
  /\ pc # "idle" /\ ~issues => AllCalled
  /\ CompleteMeansCaptured

(***************************************************************************)
(* Numbers and sequences.                                                  *)
(***************************************************************************)
(* Induction, in the form in which it can be used: a set of naturals has a *)
(* least member.                                                           *)
LEMMA Least ==
  ASSUME NEW S \in SUBSET Nat, S # {}
  PROVE  \E m \in S : \A n \in S : m <= n
<1> DEFINE R == {ss \in Nat \X Nat : ss[1] < ss[2]}
<1>1. IsWellFoundedOn(R, Nat)
  BY NatLessThanWellFounded DEF OpToRel
<1> HIDE DEF R
<1>2. PICK m \in S : \A n \in S : <<n, m>> \notin R
  BY <1>1, WFMin
<1>3. \A n \in S : ~(n < m)
  BY <1>2 DEF R
<1>4. QED
  BY <1>3

(* A set of naturals below a bound has a greatest member.                  *)
LEMMA Greatest ==
  ASSUME NEW n \in Nat, NEW S \in SUBSET (1..n), S # {}
  PROVE  \E m \in S : \A i \in S : i <= m
<1> DEFINE B == {b \in Nat : \A i \in S : i <= b}
<1>1. n \in B
  OBVIOUS
<1>2. PICK b \in B : \A k \in B : b <= k
  BY <1>1, Least
<1>3. b \in S
  <2> SUFFICES ASSUME b \notin S
               PROVE  FALSE
    OBVIOUS
  <2>1. PICK i \in S : TRUE
    OBVIOUS
  <2>2. \A j \in S : j <= b - 1
    BY <1>2
  <2>3. b - 1 \in Nat
    BY <1>2, <2>1, <2>2
  <2>4. b - 1 \in B
    BY <2>2, <2>3
  <2>5. QED
    BY <1>2, <2>4
<1>4. QED
  BY <1>2, <1>3

IsSorting(s, ids) ==
  s \in [1..Cardinality(ids) -> ids] /\ \A i, j \in DOMAIN s : i < j => s[i] < s[j]

(* A finite set of numbers can be sorted.                                  *)
LEMMA SortingExists ==
  ASSUME NEW ids \in SUBSET Nat, IsFiniteSet(ids)
  PROVE  \E s : IsSorting(s, ids)
<1> DEFINE Unsorted(S) == IsFiniteSet(S) /\ ~\E s : IsSorting(s, S)
           T == {n \in Nat : \E S \in SUBSET Nat : Cardinality(S) = n /\ Unsorted(S)}
<1>1. SUFFICES T = {}
  <2>1. Cardinality(ids) \in Nat
    BY FS_CardinalityType
  <2>2. QED
    BY <2>1
<1>2. SUFFICES ASSUME T # {}
               PROVE  FALSE
  OBVIOUS
<1>3. PICK n \in T : \A m \in T : n <= m
  BY <1>2, Least
<1>4. PICK S \in SUBSET Nat : Cardinality(S) = n /\ Unsorted(S)
  BY <1>3
<1>5. n \in Nat /\ IsFiniteSet(S)
  BY <1>3, <1>4
<1>6. S # {}
  <2> SUFFICES ASSUME S = {}
               PROVE  FALSE
    OBVIOUS
  <2>1. n = 0
    BY <1>4, FS_EmptySet
  <2>2. IsSorting(<<>>, S)
    BY <1>4, <2>1 DEF IsSorting
  <2>3. QED
    BY <1>4, <2>2
<1>7. PICK first \in S : \A k \in S : first <= k
  BY <1>6, Least
<1> DEFINE others == S \ {first}
<1>8. IsFiniteSet(others) /\ Cardinality(others) = n - 1 /\ n - 1 \in Nat
  <2>1. IsFiniteSet(others) /\ Cardinality(others) = n - 1
    BY <1>4, <1>5, <1>7, FS_RemoveElement
  <2>2. Cardinality(others) \in Nat
    BY <2>1, FS_CardinalityType
  <2>3. QED
    BY <2>1, <2>2
<1>9. PICK r : IsSorting(r, others)
  <2>1. n - 1 \notin T
    BY <1>3, <1>5, <1>8
  <2>2. ~Unsorted(others)
    BY <1>8, <2>1
  <2>3. QED
    BY <1>8, <2>2
<1> DEFINE s == [i \in 1..n |-> IF i = 1 THEN first ELSE r[i - 1]]
<1>10. \A i \in 1..n : i # 1 => i - 1 \in 1..(n - 1) /\ r[i - 1] \in others
  <2>1. r \in [1..(n - 1) -> others]
    BY <1>8, <1>9 DEF IsSorting
  <2>2. \A i \in 1..n : i # 1 => i - 1 \in 1..(n - 1)
    BY <1>5
  <2> HIDE DEF others
  <2>3. QED
    BY <2>1, <2>2
<1>11. s \in [1..n -> S]
  BY <1>7, <1>10
<1>12. \A i, j \in 1..n : i < j => s[i] < s[j]
  <2> TAKE i, j \in 1..n
  <2> HAVE i < j
  <2>1. j # 1 /\ s[j] = r[j - 1] /\ r[j - 1] \in others
    BY <1>10
  <2>2. CASE i = 1
    <3>1. s[i] = first /\ first \in Nat
      BY <2>2
    <3>2. s[j] \in Nat /\ s[j] # first /\ s[j] \in S
      BY <2>1
    <3>3. first <= s[j]
      BY <1>7, <3>2
    <3> HIDE DEF s
    <3>4. QED
      BY <3>1, <3>2, <3>3
  <2>3. CASE i # 1
    <3>1. s[i] = r[i - 1] /\ i - 1 \in 1..(n - 1) /\ j - 1 \in 1..(n - 1) /\ i - 1 < j - 1
      BY <1>10, <2>1, <2>3
    <3>2. r[i - 1] < r[j - 1]
      BY <1>8, <1>9, <3>1 DEF IsSorting
    <3>3. QED
      BY <2>1, <3>1, <3>2
  <2>4. QED
    BY <2>2, <2>3
<1>13. IsSorting(s, S)
  BY <1>4, <1>11, <1>12 DEF IsSorting
<1>14. QED
  BY <1>4, <1>13

(* Sorted lists every id and nothing else.                                 *)
LEMMA SortedIds ==
  ASSUME NEW ids \in SUBSET Nat, IsFiniteSet(ids)
  PROVE  /\ Cardinality(ids) \in Nat
         /\ \A i \in 1..Cardinality(ids) : Sorted(ids)[i] \in ids
         /\ \A id \in ids : \E i \in 1..Cardinality(ids) : Sorted(ids)[i] = id
<1> DEFINE n == Cardinality(ids)
           s == Sorted(ids)
<1>1. n \in Nat /\ IsFiniteSet(1..n) /\ Cardinality(1..n) = n
  BY FS_CardinalityType, FS_Interval
<1>2. s \in [1..n -> ids] /\ \A i, j \in DOMAIN s : i < j => s[i] < s[j]
  BY SortingExists DEF Sorted, IsSorting
<1> HIDE DEF s
<1>3. \A i, j \in 1..n : i # j => s[i] # s[j]
  <2> TAKE i, j \in 1..n
  <2>1. s[i] \in Nat /\ s[j] \in Nat
    BY <1>2
  <2>2. i < j => s[i] < s[j]
    BY <1>2
  <2>3. j < i => s[j] < s[i]
    BY <1>2
  <2>4. QED
    BY <1>1, <2>1, <2>2, <2>3
<1>4. s \in Injection(1..n, ids)
  BY <1>2, <1>3 DEF Injection, IsInjective
<1>5. s \in Surjection(1..n, ids)
  BY <1>1, <1>4, FS_Injection
<1>6. QED
  BY <1>1, <1>2, <1>5 DEF Surjection, s
(* A sequence without its first member.                                    *)
LEMMA TailOf ==
  ASSUME NEW S, NEW s \in Seq(S), s # <<>>
  PROVE  /\ Len(s) \in Nat \ {0} /\ Head(s) = s[1] /\ s[1] \in S
         /\ Tail(s) \in Seq(S) /\ Len(Tail(s)) = Len(s) - 1
         /\ \A i \in 1..(Len(s) - 1) : Tail(s)[i] = s[i + 1]
OBVIOUS

(***************************************************************************)
(* Targets, captures and the queue.                                        *)
(***************************************************************************)
LEMMA Kinds ==
  /\ \A t \in Pages : Kind(t) = "page" /\ t \notin Details /\ t \notin Documents
  /\ \A t \in Details : Kind(t) = "event" /\ t \notin Documents /\ \E e \in Events : t = <<"event", e>>
  /\ \A t \in Documents : Kind(t) \in {"agenda", "attachment"}
  /\ \A t \in Targets : t \in Pages \/ t \in Details \/ t \in Documents
BY DEF Pages, Details, Documents, Targets, Kind

(* latest() of a target is one of its captures, or none.                   *)
LEMMA LatestIs ==
  ASSUME manifest \in Seq(Captures), NEW t
  PROVE  \/ Latest(t) = NoCapture(t)
         \/ \E i \in 1..Len(manifest) : manifest[i].target = t /\ Latest(t) = manifest[i]
<1> DEFINE positions == {i \in 1..Len(manifest) : manifest[i].target = t}
<1>1. CASE positions = {}
  BY <1>1 DEF Latest
<1>2. CASE positions # {}
  <2>1. \E i \in positions : \A j \in positions : j <= i
    <3>1. positions \in SUBSET (1..Len(manifest)) /\ Len(manifest) \in Nat
      OBVIOUS
    <3> HIDE DEF positions
    <3>2. QED
      BY <1>2, <3>1, Greatest
  <2>2. (CHOOSE i \in positions : \A j \in positions : j <= i) \in positions
    BY <2>1
  <2>3. Latest(t) = manifest[CHOOSE i \in positions : \A j \in positions : j <= i]
    BY <1>2 DEF Latest
  <2>4. QED
    BY <2>2, <2>3
<1>3. QED
  BY <1>1, <1>2

(* Sorting keeps every id, and adds none.                                  *)
LEMMA TargetsOfShape ==
  ASSUME NEW ids \in SUBSET Nat, IsFiniteSet(ids), NEW kind
  PROVE  LET s == TargetsOf(kind, ids)
         IN  /\ Len(s) \in Nat /\ DOMAIN s = 1..Len(s)
             /\ \A i \in 1..Len(s) : \E id \in ids : s[i] = <<kind, id>>
             /\ \A id \in ids : \E i \in 1..Len(s) : s[i] = <<kind, id>>
<1>1. /\ Cardinality(ids) \in Nat
      /\ \A i \in 1..Cardinality(ids) : Sorted(ids)[i] \in ids
      /\ \A id \in ids : \E i \in 1..Cardinality(ids) : Sorted(ids)[i] = id
  BY SortedIds
<1>2. /\ Len(TargetsOf(kind, ids)) = Cardinality(ids)
      /\ DOMAIN TargetsOf(kind, ids) = 1..Cardinality(ids)
      /\ \A i \in 1..Cardinality(ids) : TargetsOf(kind, ids)[i] = <<kind, Sorted(ids)[i]>>
  BY <1>1 DEF TargetsOf
<1>3. QED
  BY <1>1, <1>2

(* The event pages that are queued,                                        *)
LEMMA EventTargets ==
  ASSUME NEW events \in SUBSET Events
  PROVE  LET s == TargetsOf("event", events)
         IN  /\ s \in Seq(Details) /\ Len(s) \in Nat
             /\ \A i \in 1..Len(s) : s[i] \in Details
             /\ \A e \in events : \E i \in 1..Len(s) : s[i] = <<"event", e>>
<1> DEFINE s == TargetsOf("event", events)
<1>1. events \in SUBSET Nat /\ IsFiniteSet(events)
  BY IdsAreNumbers, FS_Subset
<1>2. /\ Len(s) \in Nat /\ DOMAIN s = 1..Len(s)
      /\ \A i \in 1..Len(s) : \E id \in events : s[i] = <<"event", id>>
      /\ \A id \in events : \E i \in 1..Len(s) : s[i] = <<"event", id>>
  BY <1>1, TargetsOfShape
<1>3. \A i \in 1..Len(s) : s[i] \in Details
  BY <1>2 DEF Details
<1>4. s = [i \in 1..Len(s) |-> s[i]]
  BY <1>2 DEF TargetsOf
<1> HIDE DEF s
<1>5. s \in [1..Len(s) -> Details]
  BY <1>3, <1>4
<1>6. s \in Seq(Details)
  BY <1>2, <1>5
<1>7. QED
  BY <1>2, <1>3, <1>6 DEF s

(* the documents of an event,                                              *)
LEMMA PaperTargets ==
  ASSUME NEW e \in Events, NEW attachments \in SUBSET Attachments, NEW unusable
  PROVE  LET s == Ordered(e, attachments, unusable)
         IN  /\ s \in Seq(Documents)
             /\ \A i \in 1..Len(s) :
                  s[i] = <<"agenda", e>> \/ \E a \in attachments : s[i] = <<"attachment", a>>
<1> DEFINE agenda == IF <<"agenda", e>> \in unusable THEN <<>> ELSE <<<<"agenda", e>>>>
           usable == {a \in attachments : <<"attachment", a>> \notin unusable}
           rest == TargetsOf("attachment", usable)
<1>1. usable \in SUBSET Nat /\ IsFiniteSet(usable)
  <2>1. usable \in SUBSET Attachments
    OBVIOUS
  <2>2. QED
    BY <2>1, IdsAreNumbers, FS_Subset
<1>2. /\ Len(rest) \in Nat /\ DOMAIN rest = 1..Len(rest)
      /\ \A i \in 1..Len(rest) : \E id \in usable : rest[i] = <<"attachment", id>>
  BY <1>1, TargetsOfShape
<1>3. rest = [i \in 1..Len(rest) |-> rest[i]]
  BY <1>2 DEF TargetsOf
<1>4. \A i \in 1..Len(rest) : rest[i] \in Documents
  BY <1>2 DEF Documents
<1>5. /\ agenda \in Seq(Documents)
      /\ \A i \in 1..Len(agenda) : agenda[i] = <<"agenda", e>>
  <2>1. <<"agenda", e>> \in Documents
    BY DEF Documents
  <2>2. CASE <<"agenda", e>> \in unusable
    BY <2>2
  <2>3. CASE <<"agenda", e>> \notin unusable
    <3>1. agenda = <<<<"agenda", e>>>>
      BY <2>3
    <3>2. QED
      BY <2>1, <3>1
  <2>4. QED
    BY <2>2, <2>3
<1>6. Ordered(e, attachments, unusable) = agenda \o rest
  BY DEF Ordered
<1>7. \A i \in 1..Len(rest) : \E a \in attachments : rest[i] = <<"attachment", a>>
  BY <1>2
<1> HIDE DEF rest, agenda, usable
<1>8. rest \in Seq(Documents)
  <2>1. rest \in [1..Len(rest) -> Documents]
    BY <1>3, <1>4
  <2>2. QED
    BY <1>2, <2>1
<1>9. /\ agenda \o rest \in Seq(Documents)
      /\ Len(agenda \o rest) = Len(agenda) + Len(rest)
      /\ \A i \in 1..(Len(agenda) + Len(rest)) :
           (agenda \o rest)[i] = IF i <= Len(agenda) THEN agenda[i] ELSE rest[i - Len(agenda)]
  BY <1>5, <1>8, ConcatProperties
<1>10. ASSUME NEW i \in 1..(Len(agenda) + Len(rest))
       PROVE  \/ (agenda \o rest)[i] = <<"agenda", e>>
              \/ \E a \in attachments : (agenda \o rest)[i] = <<"attachment", a>>
  <2>0. Len(agenda) \in Nat /\ Len(rest) \in Nat
    BY <1>2, <1>5
  <2>1. CASE i <= Len(agenda)
    BY <1>5, <1>9, <2>0, <2>1
  <2>2. CASE i > Len(agenda)
    <3>1. i - Len(agenda) \in 1..Len(rest)
      BY <2>0, <2>2
    <3>2. (agenda \o rest)[i] = rest[i - Len(agenda)]
      BY <1>9, <2>0, <2>2
    <3>3. QED
      BY <1>7, <3>1, <3>2
  <2>3. QED
    BY <2>0, <2>1, <2>2
<1>11. QED
  BY <1>6, <1>9, <1>10

(* and those that a version of the event links.                            *)
LEMMA LinkedTargets ==
  ASSUME NEW e \in Events, NEW v \in Versions
  PROVE  /\ Linked(e, v) \in Seq(Documents) /\ Papers(e, v) \in Seq(Documents)
         /\ \A i \in 1..Len(Linked(e, v)) :
              \/ Linked(e, v)[i] = <<"agenda", e>>
              \/ \E a \in Attached[v] : Linked(e, v)[i] = <<"attachment", a>>
<1> DEFINE named == Attached[v]
           unusable == Unlinked[v]
<1>1. named \in SUBSET Attachments
  BY Readings
<1>2. Linked(e, v) = Ordered(e, named, unusable) /\ Papers(e, v) = Ordered(e, named, {})
  BY DEF Linked, Papers
<1>3. /\ Ordered(e, named, unusable) \in Seq(Documents)
      /\ Ordered(e, named, {}) \in Seq(Documents)
      /\ \A i \in 1..Len(Ordered(e, named, unusable)) :
           \/ Ordered(e, named, unusable)[i] = <<"agenda", e>>
           \/ \E a \in named : Ordered(e, named, unusable)[i] = <<"attachment", a>>
  <2> HIDE DEF named, unusable
  <2>1. QED
    BY <1>1, PaperTargets
<1>4. QED
  BY <1>2, <1>3

(* What Store leaves in the manifest.                                      *)
Grown(c) ==
  /\ manifest' \in Seq(Captures) /\ Len(manifest) <= Len(manifest')
  /\ \A i \in 1..Len(manifest) : manifest'[i] = manifest[i]
  /\ \A i \in 1..Len(manifest') : i \in 1..Len(manifest) \/ manifest'[i] = c

(* A capture that is stored is in the manifest, which keeps the others.    *)
LEMMA Stored ==
  ASSUME manifest \in Seq(Captures), NEW c \in Captures, Store(c)
  PROVE  Grown(c) /\ \E i \in 1..Len(manifest') : manifest'[i] = c
<1>1. CASE \E i \in 1..Len(manifest) : manifest[i] = c
  BY <1>1 DEF Store, New, Grown
<1>2. CASE ~\E i \in 1..Len(manifest) : manifest[i] = c
  <2>1. manifest' = Append(manifest, c)
    BY <1>2 DEF Store, New
  <2>2. /\ Append(manifest, c) \in Seq(Captures)
        /\ Len(Append(manifest, c)) = Len(manifest) + 1
        /\ \A i \in 1..Len(manifest) : Append(manifest, c)[i] = manifest[i]
        /\ Append(manifest, c)[Len(manifest) + 1] = c
    OBVIOUS
  <2>3. Len(manifest) \in Nat
    OBVIOUS
  <2>4. QED
    BY <2>1, <2>2, <2>3 DEF Grown
<1>3. QED
  BY <1>1, <1>2
(* The target in hand is the first of the queue.                           *)
LEMMA InHand ==
  ASSUME TypeInv, NEW kinds \in SUBSET Targets, Fetching(kinds)
  PROVE  /\ Target = todo[1] /\ Target \in kinds /\ Target \in Targets
         /\ Len(todo) \in Nat \ {0} /\ pc = "fetching"
         /\ Tail(todo) \in Seq(Targets) /\ Len(Tail(todo)) = Len(todo) - 1
         /\ \A i \in 1..(Len(todo) - 1) : Tail(todo)[i] = todo[i + 1]
         /\ Source(Target) \in Versions
         /\ \E k \in 1..Len(served[Target]) :
              k = Len(served[Target]) /\ Source(Target) = served[Target][k]
<1>1. todo \in Seq(Targets) /\ todo # <<>>
  BY DEF TypeInv, TypeOK, Fetching
<1>2. /\ Len(todo) \in Nat \ {0} /\ Head(todo) = todo[1] /\ todo[1] \in Targets
      /\ Tail(todo) \in Seq(Targets) /\ Len(Tail(todo)) = Len(todo) - 1
      /\ \A i \in 1..(Len(todo) - 1) : Tail(todo)[i] = todo[i + 1]
  BY <1>1, TailOf
<1>3. Target = todo[1] /\ Target \in kinds
  BY <1>2 DEF Target, Fetching
<1>4. served[Target] \in Seq(Versions) /\ served[Target] # <<>>
  BY <1>2, <1>3 DEF TypeInv, TypeOK
<1>5. /\ Source(Target) \in Versions
      /\ \E k \in 1..Len(served[Target]) :
           k = Len(served[Target]) /\ Source(Target) = served[Target][k]
  BY <1>4 DEF Source
<1>6. QED
  BY <1>2, <1>3, <1>5 DEF Fetching, Source
(* The captures a response can make have their type,                       *)
LEMMA CaptureTypes ==
  ASSUME NEW t \in Targets
  PROVE  /\ \A v \in Versions : Capture(t, "ok", v, "parsed") \in Captures
         /\ \A v \in Versions : \A status \in {"ok", "unmodified"} :
              Capture(t, status, v, "unparsed") \in Captures
         /\ \A f \in Failures : Capture(t, "failed", f, "unparsed") \in Captures
         /\ \A v, w \in Versions :
              /\ Capture(t, "ok", v, Published[w]) \in Captures
              /\ Capture(t, "ok", v, Described[w]) \in Captures
         /\ NoCapture(t) \in Captures
BY DEF Capture, NoCapture, Captures

(* and so has the latest one of a target.                                  *)
LEMMA LatestType ==
  ASSUME manifest \in Seq(Captures), NEW t \in Targets
  PROVE  Latest(t) \in Captures /\ Latest(t).target = t
<1>1. NoCapture(t) \in Captures /\ NoCapture(t).target = t
  BY CaptureTypes DEF NoCapture, Capture
<1>2. QED
  BY <1>1, LatestIs

(* The document in hand is one of the event in hand.                       *)
LEMMA DocumentInHand ==
  ASSUME TypeInv, PaperInv, Fetching(Documents)
  PROVE  /\ detail \in Versions
         /\ \E j \in 1..Len(manifest) : manifest[j].body = detail /\ Names(manifest[j], Target)
<1>1. Target = todo[1] /\ 1 \in 1..Len(todo) /\ Target \in Documents
  BY InHand DEF Targets
<1>2. QED
  BY <1>1 DEF PaperInv

(* The capture of a response of the target in hand.                        *)
Fresh(c) ==
  /\ Target \in Targets /\ c \in Captures /\ c.target = Target
  /\ c.status \in {"ok", "unmodified", "failed"}
  /\ c.status # "failed" => c.body = Source(Target)
  /\ c.status = "unmodified" => c.body \notin Usable
  /\ c.target \in Details /\ c.status = "ok" /\ c.body \in Usable => c.fields = "parsed"

(* So is whatever a kill may find being captured.                          *)
LEMMA ResponsesFresh ==
  ASSUME TypeInv, PaperInv, Fetching(Targets), NEW c \in Responses
  PROVE  /\ Fresh(c) /\ c.body \in Versions \cup Failures
         /\ c.target \in Documents /\ c.status = "ok" => c.fields = Fields(Target)
<1>1. Target \in Targets /\ Source(Target) \in Versions
  BY InHand
<1>2. Target \in Documents => detail \in Versions
  BY DocumentInHand DEF Fetching
<1>3. CASE c \in {Capture(Target, "failed", f, "unparsed") : f \in Failures}
  BY <1>1, <1>3, CaptureTypes DEF Fresh, Capture
<1>4. CASE c \notin {Capture(Target, "failed", f, "unparsed") : f \in Failures}
  <2>1. c = Response /\ (Target \in Documents => Source(Target) \in Usable)
    BY <1>4 DEF Responses
  <2>2. CASE Source(Target) \notin Usable
    BY <1>1, <2>1, <2>2, CaptureTypes DEF Response, Fresh, Capture
  <2>3. CASE Source(Target) \in Usable /\ Target \notin Documents
    BY <1>1, <2>1, <2>3, CaptureTypes DEF Response, Fresh, Capture
  <2>4. CASE Source(Target) \in Usable /\ Target \in Documents
    BY <1>1, <1>2, <2>1, <2>4, CaptureTypes, Kinds DEF Response, Fresh, Capture, Fields
  <2>5. QED
    BY <2>2, <2>3, <2>4
<1>5. QED
  BY <1>3, <1>4

(* Every step keeps the types.                                             *)
LEMMA TypeStep == ASSUME TypeInv, PaperInv, [Next]_vars PROVE TypeInv'
<1> USE DEF TypeInv, TypeOK
<1>0. manifest \in Seq(Captures) /\ todo \in Seq(Targets)
  OBVIOUS
<1>1. CASE Start
  <2>1. [n \in 1..MaxPages |-> <<"page", n - 1>>] \in Seq(Targets)
    <3>1. \A n \in 1..MaxPages : <<"page", n - 1>> \in Targets
      BY MaxPagesType DEF Targets, Pages
    <3> DEFINE pages == [n \in 1..MaxPages |-> <<"page", n - 1>>]
    <3>2. pages \in [1..MaxPages -> Targets]
      BY <3>1
    <3> HIDE DEF pages
    <3>3. pages \in Seq(Targets)
      BY <3>2, MaxPagesType
    <3>4. QED
      BY <3>3 DEF pages
  <2>2. QED
    BY <1>1, <2>1 DEF Start, compared, bounded, logged, files
<1>2. ASSUME Fetching(Pages), NEW events \in SUBSET Events, NEW last, NextPage(last, events)
      PROVE  todo' \in Seq(Targets)
  <2>1. TargetsOf("event", events) \in Seq(Targets)
    <3>1. TargetsOf("event", events) \in Seq(Details)
      BY EventTargets
    <3>2. QED
      BY <3>1 DEF Targets
  <2>2. Tail(todo) \in Seq(Targets)
    BY <1>2, InHand DEF Targets
  <2>3. QED
    BY <1>2, <2>1, <2>2 DEF NextPage
<1>3. CASE ReadPage
  <2>1. Target \in Targets /\ Source(Target) \in Versions /\ Fetching(Pages)
    BY <1>3, InHand DEF ReadPage, Targets
  <2>2. manifest' \in Seq(Captures)
    <3>1. Capture(Target, "ok", Source(Target), "parsed") \in Captures
      BY <2>1, CaptureTypes
    <3>2. QED
      BY <1>0, <1>3, <3>1, Stored DEF ReadPage, Grown
  <2>3. found' \in SUBSET Events
    BY <1>3, <2>1, Readings DEF ReadPage
  <2>4. todo' \in Seq(Targets)
    BY <1>2, <1>3, <2>1, <2>3 DEF ReadPage
  <2>5. received' \in [Targets -> Versions \cup {NoVersion}]
    BY <1>3, <2>1 DEF ReadPage, Receive
  <2>6. issues' \in BOOLEAN
    BY <1>3 DEF ReadPage
  <2>7. UNCHANGED <<served, logged, files, lastRun, pc, detail, compared, bounded>>
    BY <1>3 DEF ReadPage
  <2>8. QED
    BY <2>2, <2>3, <2>4, <2>5, <2>6, <2>7 DEF compared, bounded, logged, files
<1>4. CASE CannotRead
  <2>1. /\ Target \in Pages \cup Details /\ Target \in Targets /\ Source(Target) \in Versions
        /\ Tail(todo) \in Seq(Targets)
    BY <1>4, InHand DEF CannotRead, Targets
  <2>2. manifest' \in Seq(Captures)
    <3>1. Capture(Target, IF Unmodified(Target) THEN "unmodified" ELSE "ok",
                  Source(Target), "unparsed") \in Captures
      BY <2>1, CaptureTypes
    <3>2. QED
      BY <1>0, <1>4, <3>1, Stored DEF CannotRead, Grown
  <2>3. todo' \in Seq(Targets)
    <3>1. CASE Target \in Pages
      <4>1. Fetching(Pages) /\ NextPage(FALSE, found)
        BY <1>4, <3>1 DEF CannotRead, Fetching
      <4>2. QED
        BY <1>2, <4>1
    <3>2. CASE Target \notin Pages
      BY <1>4, <2>1, <3>2 DEF CannotRead
    <3>3. QED
      BY <3>1, <3>2
  <2>4. received' \in [Targets -> Versions \cup {NoVersion}]
    BY <1>4, <2>1 DEF CannotRead, Receive
  <2>5. issues' \in BOOLEAN /\ UNCHANGED <<served, logged, files, lastRun, pc, found, detail, compared, bounded>>
    BY <1>4 DEF CannotRead
  <2>6. QED
    BY <2>2, <2>3, <2>4, <2>5 DEF compared, bounded, logged, files
<1>5. ASSUME NEW f \in Failures, FetchFails(f)
      PROVE  TypeInv'
  <2>1. Target \in Targets /\ Tail(todo) \in Seq(Targets)
    BY <1>5, InHand DEF FetchFails
  <2>2. manifest' \in Seq(Captures)
    <3>1. Capture(Target, "failed", f, "unparsed") \in Captures
      BY <2>1, CaptureTypes
    <3>2. QED
      BY <1>0, <1>5, <3>1, Stored DEF FetchFails, Grown
  <2>3. todo' \in Seq(Targets)
    <3>1. CASE Target \in Pages
      <4>1. Fetching(Pages) /\ NextPage(FALSE, found)
        BY <1>5, <3>1 DEF FetchFails, Fetching
      <4>2. QED
        BY <1>2, <4>1
    <3>2. CASE Target \notin Pages
      BY <1>5, <2>1, <3>2 DEF FetchFails
    <3>3. QED
      BY <3>1, <3>2
  <2>4. received' \in [Targets -> Versions \cup {NoVersion}]
    BY <1>5, <2>1 DEF FetchFails, Receive
  <2>5. /\ issues' \in BOOLEAN /\ faults' \in 0..MaxFaults
        /\ UNCHANGED <<served, logged, files, lastRun, pc, found, detail, compared, publications>>
    BY <1>5, Bounds DEF FetchFails
  <2>6. QED
    BY <2>2, <2>3, <2>4, <2>5 DEF compared, logged, files
<1>6. ASSUME NEW t \in Targets, NEW c \in Captures, c.target = t,
             \/ UNCHANGED <<manifest, pc, compared>>
             \/ Store(c) /\ CompareWithLatest(c)
      PROVE  /\ manifest' \in Seq(Captures) /\ before' \in Captures /\ after' \in Captures
             /\ pc' \in {"idle", "fetching", "comparing"}
  <2>1. CASE UNCHANGED <<manifest, pc, compared>>
    BY <2>1 DEF compared
  <2>2. CASE Store(c) /\ CompareWithLatest(c)
    <3>1. manifest' \in Seq(Captures)
      BY <1>0, <2>2, Stored DEF Grown
    <3>2. Latest(c.target) \in Captures
      BY <1>0, <1>6, LatestType
    <3>3. QED
      BY <2>2, <3>1, <3>2 DEF CompareWithLatest
  <2>3. QED
    BY <1>6, <2>1, <2>2
<1>7. CASE ReadEvent
  <2> DEFINE v == Source(Target)
             c == Capture(Target, "ok", v, "parsed")
  <2>1. Target \in Targets /\ Target \in Details /\ v \in Versions /\ Tail(todo) \in Seq(Targets)
    BY <1>7, InHand DEF ReadEvent, Targets
  <2>2. c \in Captures /\ c.target = Target
    BY <2>1, CaptureTypes DEF Capture
  <2>3. \/ UNCHANGED <<manifest, pc, compared>>
        \/ Store(c) /\ CompareWithLatest(c)
    BY <1>7 DEF ReadEvent
  <2> HIDE DEF c
  <2>4. /\ manifest' \in Seq(Captures) /\ before' \in Captures /\ after' \in Captures
        /\ pc' \in {"idle", "fetching", "comparing"}
    BY <1>6, <2>1, <2>2, <2>3
  <2>5. todo' \in Seq(Targets)
    <3>1. todo' = Linked(Target[2], v) \o Tail(todo)
      BY <1>7 DEF ReadEvent
    <3>2. Target[2] \in Events /\ Attached[v] \in SUBSET Attachments
      BY <2>1, Readings DEF Details
    <3>3. Linked(Target[2], v) \in Seq(Documents)
      BY <3>2, PaperTargets DEF Linked
    <3>4. Linked(Target[2], v) \in Seq(Targets)
      BY <3>3 DEF Targets
    <3>5. QED
      BY <2>1, <3>1, <3>4, ConcatProperties
  <2>6. received' \in [Targets -> Versions \cup {NoVersion}]
    BY <1>7, <2>1 DEF ReadEvent, Receive
  <2>7. /\ detail' \in Versions /\ issues' \in BOOLEAN
        /\ UNCHANGED <<served, logged, files, lastRun, found, bounded>>
    BY <1>7, <2>1 DEF ReadEvent
  <2>8. QED
    BY <2>4, <2>5, <2>6, <2>7 DEF bounded, logged, files
<1>8. CASE ReadDocument
  <2> DEFINE v == Source(Target)
             c == Capture(Target, "ok", v, Fields(Target))
  <2>1. Target \in Targets /\ Target \in Documents /\ v \in Versions /\ Tail(todo) \in Seq(Targets)
    BY <1>8, InHand DEF ReadDocument, Targets
  <2>2. c \in Captures /\ c.target = Target
    <3>1. detail \in Versions
      BY <1>8, DocumentInHand DEF ReadDocument
    <3>2. QED
      BY <2>1, <3>1, CaptureTypes DEF Capture, Fields
  <2>3. \/ UNCHANGED <<manifest, pc, compared>>
        \/ Store(c) /\ CompareWithLatest(c)
    BY <1>8 DEF ReadDocument
  <2> HIDE DEF c
  <2>4. /\ manifest' \in Seq(Captures) /\ before' \in Captures /\ after' \in Captures
        /\ pc' \in {"idle", "fetching", "comparing"}
    BY <1>6, <2>1, <2>2, <2>3
  <2>5. received' \in [Targets -> Versions \cup {NoVersion}]
    BY <1>8, <2>1 DEF ReadDocument, Receive
  <2>6. /\ todo' = Tail(todo)
        /\ UNCHANGED <<served, logged, files, lastRun, found, detail, issues, bounded>>
    BY <1>8 DEF ReadDocument
  <2>7. QED
    BY <2>1, <2>4, <2>5, <2>6 DEF bounded, logged, files
<1>9. CASE SkipDocument
  <2>1. Target \in Targets /\ Source(Target) \in Versions /\ Tail(todo) \in Seq(Targets)
    BY <1>9, InHand DEF SkipDocument, Targets
  <2>2. received' \in [Targets -> Versions \cup {NoVersion}]
    BY <1>9, <2>1 DEF SkipDocument, Receive
  <2>3. /\ todo' = Tail(todo) /\ issues' \in BOOLEAN
        /\ UNCHANGED <<served, manifest, logged, files, lastRun, pc, found, detail, compared, bounded>>
    BY <1>9 DEF SkipDocument
  <2>4. QED
    BY <2>1, <2>2, <2>3 DEF compared, bounded, logged, files
<1>10. CASE Compare
  <2>1. \A l \in changes' : l.kind \in {"appeared", "vanished", "moved", "content"}
                            /\ l.target \in Targets
    <3>1. after.target \in Targets
      BY DEF Captures
    <3>2. \A l \in EventChanges(before, after) \cup DocumentChanges(before, after) :
            l.kind \in {"appeared", "vanished", "moved", "content"} /\ l.target = after.target
      BY DEF EventChanges, DocumentChanges, Line
    <3>3. \A l \in changes' :
            l \in changes \/ l \in EventChanges(before, after) \cup DocumentChanges(before, after)
      BY <1>10 DEF Compare
    <3>4. QED
      BY <3>1, <3>2, <3>3
  <2>2. QED
    BY <1>10, <2>1 DEF Compare, compared, bounded, files
<1>11. CASE Finish
  BY <1>11 DEF Finish, compared, bounded, logged, files
<1>12. CASE Die \/ Refuse
  <2>1. /\ pc' = "idle" /\ todo' = <<>> /\ faults' \in 0..MaxFaults
        /\ UNCHANGED <<served, manifest, logged, files, lastRun, found, detail, compared,
                       issues, received, publications>>
    <3>1. CASE Die
      BY <1>12, <3>1, Bounds DEF Die
    <3>2. CASE Refuse
      BY <1>12, <3>2 DEF Refuse, bounded
    <3>3. QED
      BY <1>12, <3>1, <3>2
  <2>2. QED
    BY <2>1 DEF compared, logged, files
<1>13. ASSUME NEW t \in Targets, NEW v \in Versions, Publish(t, v)
       PROVE  TypeInv'
  <2>1. /\ Append(served[t], v) \in Seq(Versions) /\ Append(served[t], v) # <<>>
    <3>1. served[t] \in Seq(Versions)
      OBVIOUS
    <3> DEFINE old == served[t]
    <3> HIDE DEF TypeInv, TypeOK, old
    <3>2. Append(old, v) \in Seq(Versions) /\ Append(old, v) # <<>>
      BY <3>1, AppendProperties DEF old
    <3>3. QED
      BY <3>2 DEF old
  <2>2. /\ served' \in [Targets -> Seq(Versions)]
        /\ \A u \in Targets : served'[u] # <<>>
    BY <1>13, <2>1 DEF Publish
  <2>3. publications' \in 0..MaxPublished
    BY <1>13, Bounds DEF Publish
  <2>4. UNCHANGED <<manifest, logged, files, lastRun, pc, todo, found, detail,
                    compared, issues, received, faults>>
    BY <1>13 DEF Publish
  <2>5. QED
    BY <2>2, <2>3, <2>4 DEF compared, logged, files
<1>14. CASE UNCHANGED vars
  BY <1>14 DEF vars, compared, bounded
<1>15. CASE DieCapturing
  <2>1. PICK c \in Responses :
          \/ torn' = torn \cup {Body(c)} /\ UNCHANGED <<manifest, sealed>>
          \/ sealed' \in BOOLEAN /\ UNCHANGED torn /\ (UNCHANGED manifest \/ Store(c))
    BY <1>15 DEF DieCapturing
  <2>2. c \in Captures /\ Body(c) \in Targets \X (Versions \cup Failures)
    BY <1>15, <2>1, ResponsesFresh DEF DieCapturing, Fresh, Body
  <2>3. manifest' \in Seq(Captures)
    BY <1>0, <2>1, <2>2, Stored DEF Grown
  <2>4. sealed' \in BOOLEAN /\ torn' \subseteq Targets \X (Versions \cup Failures)
    BY <2>1, <2>2
  <2>5. /\ pc' = "idle" /\ todo' = <<>> /\ faults' \in 0..MaxFaults
        /\ UNCHANGED <<served, logged, lastRun, found, detail, compared, issues,
                       received, publications>>
    BY <1>15, Bounds DEF DieCapturing
  <2>6. QED
    BY <2>3, <2>4, <2>5 DEF compared, logged
<1>16. QED
  BY <1>1, <1>3, <1>4, <1>5, <1>7, <1>8, <1>9, <1>10, <1>11, <1>12, <1>13, <1>14, <1>15
     DEF Next, Step
(***************************************************************************)
(* Captures and changes.                                                   *)
(***************************************************************************)
(* What a step does to the store and to the pair at hand.                  *)
Keep == UNCHANGED <<manifest, pc, compared>>

Take(c) == c.status = "ok" /\ Store(c) /\ CompareWithLatest(c)

(* The kinds of steps, as the store sees them.                             *)
LEMMA CaptureSteps ==
  ASSUME TypeInv, PaperInv, [Next]_vars
  PROVE  \/ /\ UNCHANGED served
            /\ \E c \in Captures :
                 /\ Fetching(Targets) /\ Fresh(c)
                 /\ \/ /\ Store(c) /\ UNCHANGED <<compared, changes>>
                       /\ pc' = "comparing" => pc = "comparing"
                    \/ Take(c) /\ UNCHANGED changes
         \/ UNCHANGED <<served, manifest, compared, changes>> /\ (pc' = "comparing" => pc = "comparing")
         \/ Compare
         \/ \E t \in Targets, v \in Versions : Publish(t, v)
<1> DEFINE Captured(c) ==
      /\ Fetching(Targets) /\ Fresh(c)
      /\ \/ /\ Store(c) /\ UNCHANGED <<compared, changes>>
            /\ pc' = "comparing" => pc = "comparing"
         \/ Take(c) /\ UNCHANGED changes
    Quiet == UNCHANGED <<served, manifest, compared, changes>> /\ (pc' = "comparing" => pc = "comparing")
<1>0. manifest \in Seq(Captures)
  BY DEF TypeInv, TypeOK
<1>1. CASE ReadPage
  <2> DEFINE c == Capture(Target, "ok", Source(Target), "parsed")
  <2>1. /\ Target \in Targets /\ Source(Target) \in Versions /\ Fetching(Targets)
        /\ UNCHANGED <<served, pc, compared, changes>> /\ (UNCHANGED manifest \/ Store(c))
    BY <1>1, InHand DEF ReadPage, Targets, Fetching, logged
  <2>2. c \in Captures /\ Fresh(c)
    BY <2>1, CaptureTypes DEF Fresh, Capture
  <2> HIDE DEF c
  <2>3. QED
    BY <2>1, <2>2
<1>2. CASE CannotRead
  <2> DEFINE c == Capture(Target, IF Unmodified(Target) THEN "unmodified" ELSE "ok",
                          Source(Target), "unparsed")
  <2>1. /\ Target \in Targets /\ Source(Target) \in Versions /\ Fetching(Targets)
        /\ UNCHANGED <<served, pc, compared, changes>> /\ Store(c)
        /\ Source(Target) \notin Usable
    BY <1>2, InHand DEF CannotRead, Targets, Fetching, logged
  <2>2. c \in Captures /\ Fresh(c)
    BY <2>1, CaptureTypes DEF Fresh, Capture
  <2> HIDE DEF c
  <2>3. QED
    BY <2>1, <2>2
<1>3. ASSUME NEW f \in Failures, FetchFails(f)
      PROVE  UNCHANGED served /\ \E c \in Captures : Captured(c)
  <2> DEFINE c == Capture(Target, "failed", f, "unparsed")
  <2>1. /\ Target \in Targets /\ Fetching(Targets)
        /\ UNCHANGED <<served, pc, compared, changes>> /\ Store(c)
    BY <1>3, InHand DEF FetchFails, logged
  <2>2. c \in Captures /\ Fresh(c)
    BY <2>1, CaptureTypes DEF Fresh, Capture
  <2> HIDE DEF c
  <2>3. QED
    BY <2>1, <2>2
<1>4. CASE ReadEvent
  <2> DEFINE c == Capture(Target, "ok", Source(Target), "parsed")
  <2>1. /\ Target \in Targets /\ Source(Target) \in Versions /\ Fetching(Targets)
        /\ UNCHANGED <<served, changes>> /\ (Keep \/ Take(c))
    BY <1>4, InHand DEF ReadEvent, Targets, Fetching, Keep, Take, Capture, logged
  <2>2. c \in Captures /\ Fresh(c)
    BY <2>1, CaptureTypes DEF Fresh, Capture
  <2> HIDE DEF c
  <2>3. QED
    BY <2>1, <2>2 DEF Keep
<1>5. CASE ReadDocument
  <2> DEFINE c == Capture(Target, "ok", Source(Target), Fields(Target))
  <2>1. /\ Target \in Targets /\ Source(Target) \in Versions /\ Fetching(Targets)
        /\ Target \in Documents
        /\ UNCHANGED <<served, changes>> /\ (Keep \/ Take(c))
    BY <1>5, InHand DEF ReadDocument, Targets, Fetching, Keep, Take, Capture, logged
  <2>2. detail \in Versions
    BY <1>5, DocumentInHand DEF ReadDocument
  <2>3. c \in Captures /\ Fresh(c)
    BY <2>1, <2>2, CaptureTypes, Kinds DEF Fresh, Capture, Fields
  <2> HIDE DEF c
  <2>4. QED
    BY <2>1, <2>3 DEF Keep
<1>6. CASE Start \/ SkipDocument \/ Finish \/ Die \/ Refuse \/ UNCHANGED vars
  BY <1>6 DEF Start, SkipDocument, Finish, Die, Refuse, vars, compared, logged
<1>7. CASE DieCapturing
  <2>1. /\ Fetching(Targets) /\ UNCHANGED <<served, compared, changes>> /\ pc' = "idle"
        /\ UNCHANGED manifest \/ \E c \in Responses : Store(c)
    BY <1>7 DEF DieCapturing, logged
  <2>2. \A c \in Responses : c \in Captures /\ Fresh(c)
    BY <2>1, ResponsesFresh DEF Fresh
  <2>3. QED
    BY <2>1, <2>2
<1>8. QED
  BY <1>1, <1>2, <1>3, <1>4, <1>5, <1>6, <1>7 DEF Next, Step

(* What the source served stays served.                                    *)
LEMMA PublishKeeps ==
  ASSUME TypeInv, NEW t \in Targets, NEW v \in Versions, Publish(t, v)
  PROVE  \A u \in Targets :
           /\ Len(served[u]) \in Nat /\ Len(served'[u]) \in Nat
           /\ Len(served[u]) <= Len(served'[u])
           /\ \A k \in 1..Len(served[u]) : served'[u][k] = served[u][k]
<1> DEFINE old == served[t]
<1>1. served \in [Targets -> Seq(Versions)] /\ old \in Seq(Versions)
  BY DEF TypeInv, TypeOK
<1>2. served' = [served EXCEPT ![t] = Append(old, v)]
  BY DEF Publish
<1> HIDE DEF old
<1>3. /\ Append(old, v) \in Seq(Versions) /\ Len(Append(old, v)) = Len(old) + 1
      /\ \A k \in 1..Len(old) : Append(old, v)[k] = old[k]
  BY <1>1, AppendProperties
<1>4. TAKE u \in Targets
<1>5. CASE u = t
  <2>1. served'[u] = Append(old, v) /\ served[u] = old
    BY <1>1, <1>2, <1>5 DEF old
  <2>2. QED
    BY <1>1, <1>3, <2>1
<1>6. CASE u # t
  <2>1. served'[u] = served[u] /\ served[u] \in Seq(Versions)
    BY <1>1, <1>2, <1>6
  <2>2. QED
    BY <2>1
<1>7. QED
  BY <1>5, <1>6

(* Every capture is genuine.                                               *)
LEMMA CaptureStep ==
  ASSUME TypeInv, PaperInv, CaptureInv, [Next]_vars
  PROVE  CaptureInv'
<1>0. manifest \in Seq(Captures)
  BY DEF TypeInv, TypeOK
<1>1. ASSUME UNCHANGED served, NEW c \in Captures, Fetching(Targets), Fresh(c), Store(c)
      PROVE  CaptureInv'
  <2>1. Grown(c)
    BY <1>0, <1>1, Stored
  <2>2. Genuine(c)
    BY <1>1, InHand DEF Fresh, Genuine
  <2>3. \A d : Genuine(d)' <=> Genuine(d)
    BY <1>1 DEF Genuine
  <2>4. \A i \in 1..Len(manifest') : Genuine(manifest'[i])
    BY <2>1, <2>2 DEF Grown, CaptureInv
  <2>5. QED
    BY <2>3, <2>4 DEF CaptureInv
<1>2. ASSUME UNCHANGED <<served, manifest>>
      PROVE  CaptureInv'
  BY <1>2 DEF CaptureInv, Genuine
<1>3. ASSUME NEW t \in Targets, NEW v \in Versions, Publish(t, v)
      PROVE  CaptureInv'
  <2>1. UNCHANGED manifest
    BY <1>3 DEF Publish
  <2>2. ASSUME NEW i \in 1..Len(manifest)
        PROVE  Genuine(manifest[i])'
    <3>1. manifest[i].target \in Targets /\ Genuine(manifest[i])
      <4>1. manifest[i] \in Captures
        BY <1>0
      <4>2. QED
        BY <4>1 DEF CaptureInv, Captures
    <3>2. QED
      BY <1>3, <2>1, <3>1, PublishKeeps DEF Genuine
  <2>3. QED
    BY <2>1, <2>2 DEF CaptureInv
<1>4. QED
  BY <1>1, <1>2, <1>3, CaptureSteps DEF Take, Compare

(* Every change logged is between versions of that order.                  *)
LEMMA ChangeStep ==
  ASSUME TypeInv, PaperInv, CaptureInv, ChangeInv, [Next]_vars
  PROVE  ChangeInv'
<1>0. manifest \in Seq(Captures)
  BY DEF TypeInv, TypeOK
<1>1. ASSUME UNCHANGED <<served, changes>>, NEW c \in Captures, Fetching(Targets), Fresh(c), Take(c)
      PROVE  ChangeInv'
  <2>1. before' = Latest(c.target) /\ after' = c /\ c.target = Target /\ Target \in Targets
    BY <1>1 DEF Take, CompareWithLatest, Fresh
  <2>2. ASSUME before'.status = "ok", before'.body # after'.body
        PROVE  Replaced(c.target, before'.body, c.body)
    <3>1. Latest(c.target) # NoCapture(c.target)
      BY <2>1, <2>2 DEF NoCapture, Capture
    <3>2. PICK i \in 1..Len(manifest) : manifest[i].target = Target /\ before' = manifest[i]
      BY <1>0, <2>1, <3>1, LatestIs
    <3>3. PICK k \in 1..Len(served[Target]) : served[Target][k] = before'.body
      BY <2>2, <3>2 DEF CaptureInv, Genuine
    <3>4. c.body = Source(Target)
      BY <1>1 DEF Fresh, Take
    <3>5. PICK l \in 1..Len(served[Target]) : l = Len(served[Target]) /\ c.body = served[Target][l]
      BY <1>1, <3>4, InHand
    <3>6. k < l
      BY <2>1, <2>2, <3>3, <3>5
    <3>7. QED
      BY <2>1, <3>3, <3>5, <3>6 DEF Replaced
  <2>3. QED
    BY <1>1, <2>1, <2>2 DEF ChangeInv, Replaced, ContentChangesAreReal
<1>2. ASSUME UNCHANGED <<served, compared, changes>>, pc' = "comparing" => pc = "comparing"
      PROVE  ChangeInv'
  BY <1>2 DEF ChangeInv, Replaced, ContentChangesAreReal, compared
<1>3. CASE Compare
  <2>1. ASSUME NEW l \in changes', l \notin changes, l.kind = "content"
        PROVE  Replaced(l.target, l.old, l.new)
    <3>1. /\ before.status = "ok" /\ before.body # after.body
          /\ l = Line("content", after.target, before.body, after.body)
      BY <1>3, <2>1 DEF Compare, EventChanges, DocumentChanges, Line
    <3>2. QED
      BY <1>3, <3>1 DEF Compare, Line, ChangeInv
  <2>2. UNCHANGED served /\ pc' = "fetching"
    BY <1>3 DEF Compare
  <2>3. QED
    BY <2>1, <2>2 DEF ChangeInv, ContentChangesAreReal, Replaced
<1>4. ASSUME NEW t \in Targets, NEW v \in Versions, Publish(t, v)
      PROVE  ChangeInv'
  <2>1. UNCHANGED <<changes, pc, compared>>
    BY <1>4 DEF Publish, logged
  <2>2. ASSUME NEW u \in Targets, NEW old, NEW new, Replaced(u, old, new)
        PROVE  Replaced(u, old, new)'
    <3>1. PICK i, j \in 1..Len(served[u]) : i < j /\ served[u][i] = old /\ served[u][j] = new
      BY <2>2 DEF Replaced
    <3>2. /\ i \in 1..Len(served'[u]) /\ j \in 1..Len(served'[u])
          /\ served'[u][i] = old /\ served'[u][j] = new
      BY <1>4, <3>1, PublishKeeps
    <3>3. QED
      BY <3>1, <3>2 DEF Replaced
  <2>3. after.target \in Targets /\ \A l \in changes : l.target \in Targets
    BY DEF TypeInv, TypeOK, Captures
  <2>4. ContentChangesAreReal'
    <3>1. \A l \in changes : l.kind = "content" => Replaced(l.target, l.old, l.new)
      BY DEF ChangeInv, ContentChangesAreReal, Replaced
    <3>2. \A l \in changes : l.kind = "content" => Replaced(l.target, l.old, l.new)'
      BY <2>2, <2>3, <3>1
    <3>3. QED
      BY <2>1, <3>2 DEF ContentChangesAreReal, Replaced
  <2>5. QED
    BY <2>1, <2>2, <2>3, <2>4 DEF ChangeInv, compared
<1>5. QED
  BY <1>1, <1>2, <1>3, <1>4, CaptureSteps
(***************************************************************************)
(* The queue.                                                              *)
(***************************************************************************)
InPages == \E p \in Pages : Queued(p)

Pop == todo' = Tail(todo) /\ \E x : Receive(x)

(* The target in hand leaves the queue; after the last page the events     *)
(* come.  Nothing is captured of a document unless it is one in hand.      *)
Handle ==
  /\ Fetching(Targets) /\ pc' # "idle" /\ UNCHANGED detail
  /\ \/ Pop
     \/ /\ Target \in Pages
        /\ \E x : Receive(x)
        /\ \E events \in SUBSET Events : todo' = TargetsOf("event", events)
  /\ \/ UNCHANGED manifest
     \/ \E c \in Captures :
          /\ Store(c) /\ c.target = Target
          /\ c.target \in Documents /\ c.status = "ok" => c.fields = Fields(Target)

(* A kill inside capture empties the queue, and may leave the capture.     *)
Cut ==
  /\ Fetching(Targets) /\ todo' = <<>> /\ UNCHANGED <<received, detail>>
  /\ \E c \in Captures :
       /\ Store(c) /\ c.target = Target
       /\ c.target \in Documents /\ c.status = "ok" => c.fields = Fields(Target)

(* The kinds of steps, as the queue sees them.                             *)
LEMMA QueueSteps ==
  ASSUME TypeInv, PaperInv, [Next]_vars
  PROVE  \/ Handle \/ ReadEvent \/ Start \/ Cut
         \/ UNCHANGED <<todo, received, manifest, detail>> /\ (pc = "idle" <=> pc' = "idle")
         \/ todo' = <<>> /\ UNCHANGED <<received, manifest, detail>>
<1>1. ASSUME NEW x, Receive(x), Fetching(Pages), pc' # "idle", UNCHANGED detail,
             NEW last, NEW events \in SUBSET Events, NextPage(last, events),
             \/ UNCHANGED manifest
             \/ \E c \in Captures : Store(c) /\ c.target = Target
      PROVE  Handle
  <2>1. Target \in Pages /\ Target \notin Documents /\ Fetching(Targets)
    BY <1>1, Kinds DEF Fetching, Targets
  <2>2. Pop \/ \E evs \in SUBSET Events : todo' = TargetsOf("event", evs)
    BY <1>1 DEF NextPage, Pop
  <2>3. QED
    BY <1>1, <2>1, <2>2 DEF Handle
<1>2. CASE ReadPage
  <2> DEFINE c == Capture(Target, "ok", Source(Target), "parsed")
  <2>1. /\ Target \in Targets /\ Source(Target) \in Versions /\ Fetching(Pages)
        /\ (UNCHANGED manifest \/ Store(c)) /\ Receive(Source(Target)) /\ pc' # "idle"
        /\ UNCHANGED detail /\ NextPage(Source(Target) \notin Full, found')
    BY <1>2, InHand DEF ReadPage, Targets, Fetching
  <2>2. c \in Captures /\ c.target = Target
    BY <2>1, CaptureTypes DEF Capture
  <2>3. found' \in SUBSET Events
    BY <1>2, <2>1, Readings DEF ReadPage, TypeInv, TypeOK
  <2> HIDE DEF c
  <2>4. QED
    BY <1>1, <2>1, <2>2, <2>3
<1>3. ASSUME NEW c \in Captures, Store(c), c.target = Target, NEW x, Receive(x),
             Fetching(Targets), pc' # "idle", UNCHANGED <<detail, found>>,
             c.target \in Documents => c.status # "ok",
             IF Target \in Pages THEN NextPage(FALSE, found) ELSE todo' = Tail(todo)
      PROVE  Handle
  <2>1. CASE Target \in Pages
    <3>1. Fetching(Pages) /\ found \in SUBSET Events
      BY <1>3, <2>1 DEF Fetching, TypeInv, TypeOK
    <3>2. QED
      BY <1>1, <1>3, <2>1, <3>1
  <2>2. CASE Target \notin Pages
    BY <1>3, <2>2 DEF Handle, Pop
  <2>3. QED
    BY <2>1, <2>2
<1>4. CASE CannotRead
  <2> DEFINE c == Capture(Target, IF Unmodified(Target) THEN "unmodified" ELSE "ok",
                          Source(Target), "unparsed")
  <2>1. /\ Target \in Targets /\ Source(Target) \in Versions /\ Fetching(Targets)
        /\ Store(c) /\ Receive(Source(Target)) /\ pc' # "idle" /\ Target \notin Documents
        /\ UNCHANGED <<detail, found>>
        /\ IF Target \in Pages THEN NextPage(FALSE, found) ELSE todo' = Tail(todo)
    BY <1>4, InHand, Kinds DEF CannotRead, Targets, Fetching
  <2>2. c \in Captures /\ c.target = Target
    BY <2>1, CaptureTypes DEF Capture
  <2> HIDE DEF c
  <2>3. QED
    BY <1>3, <2>1, <2>2
<1>5. ASSUME NEW f \in Failures, FetchFails(f)
      PROVE  Handle
  <2> DEFINE c == Capture(Target, "failed", f, "unparsed")
  <2>1. /\ Target \in Targets /\ Fetching(Targets)
        /\ Store(c) /\ Receive(NoVersion) /\ pc' # "idle"
        /\ UNCHANGED <<detail, found>>
        /\ IF Target \in Pages THEN NextPage(FALSE, found) ELSE todo' = Tail(todo)
    BY <1>5, InHand, Kinds DEF FetchFails, Targets, Fetching
  <2>2. c \in Captures /\ c.target = Target /\ c.status # "ok"
    BY <2>1, CaptureTypes DEF Capture
  <2> HIDE DEF c
  <2>3. QED
    BY <1>3, <2>1, <2>2
<1>6. CASE ReadDocument
  <2> DEFINE c == Capture(Target, "ok", Source(Target), Fields(Target))
  <2>1. /\ Target \in Targets /\ Source(Target) \in Versions /\ Fetching(Targets)
        /\ UNCHANGED manifest \/ Store(c)
        /\ Receive(Source(Target)) /\ todo' = Tail(todo) /\ pc' # "idle" /\ UNCHANGED detail
    BY <1>6, InHand DEF ReadDocument, Targets, Fetching, CompareWithLatest
  <2>2. detail \in Versions
    BY <1>6, DocumentInHand DEF ReadDocument
  <2>3. c \in Captures /\ c.target = Target /\ c.fields = Fields(Target)
    BY <2>1, <2>2, CaptureTypes DEF Capture, Fields
  <2> HIDE DEF c
  <2>4. QED
    BY <2>1, <2>3 DEF Handle, Pop
<1>7. CASE SkipDocument
  <2>1. Fetching(Targets) /\ Receive(Source(Target)) /\ todo' = Tail(todo)
        /\ pc' # "idle" /\ UNCHANGED <<manifest, detail>>
    BY <1>7 DEF SkipDocument, Fetching, Targets
  <2>2. QED
    BY <2>1 DEF Handle, Pop
<1>8. CASE Compare \/ Finish \/ Die \/ Refuse \/ UNCHANGED vars
  BY <1>8 DEF Compare, Finish, Die, Refuse, vars
<1>9. ASSUME NEW t \in Targets, NEW v \in Versions, Publish(t, v)
      PROVE  UNCHANGED <<todo, received, manifest, detail, pc>>
  BY <1>9 DEF Publish
<1>10. CASE DieCapturing
  <2>1. /\ Fetching(Targets) /\ todo' = <<>> /\ UNCHANGED <<received, detail>>
        /\ UNCHANGED manifest \/ \E c \in Responses : Store(c)
    BY <1>10 DEF DieCapturing
  <2>2. \A c \in Responses :
          /\ c \in Captures /\ c.target = Target
          /\ c.target \in Documents /\ c.status = "ok" => c.fields = Fields(Target)
    BY <2>1, ResponsesFresh DEF Fresh
  <2>3. QED
    BY <2>1, <2>2 DEF Cut
<1>11. QED
  BY <1>2, <1>4, <1>5, <1>6, <1>7, <1>8, <1>9, <1>10 DEF Next, Step

(* The queue stays in its order.                                           *)
LEMMA QueueStep ==
  ASSUME TypeInv, PaperInv, QueueInv, [Next]_vars
  PROVE  QueueInv'
<1> DEFINE Ordered1 == \A i, j \in 1..Len(todo) : i < j /\ todo[j] \in Documents => todo[i] \in Documents
           Phase == InPages => \A i \in 1..Len(todo) :
                      /\ todo[i] = <<"page", MaxPages - Len(todo) + i - 1>>
                      /\ received[todo[i]] = NoVersion
<1>0. /\ todo \in Seq(Targets) /\ received \in [Targets -> Versions \cup {NoVersion}]
      /\ Ordered1 /\ Phase /\ MaxPages \in Nat \ {0}
  BY MaxPagesType DEF TypeInv, TypeOK, QueueInv, InPages
<1>f. Phase' /\ Ordered1' /\ (pc' = "idle" => todo' = <<>>) => QueueInv'
  BY DEF QueueInv, InPages
<1>1. ASSUME todo' \in Seq(Details)
      PROVE  Phase' /\ Ordered1'
  <2>1. \A i \in 1..Len(todo') : todo'[i] \notin Pages /\ todo'[i] \notin Documents
    BY <1>1, Kinds, ElementOfSeq
  <2>2. QED
    BY <2>1 DEF InPages, Queued
<1>2. CASE Handle
  <2>1. /\ Target = todo[1] /\ Target \in Targets
        /\ Len(todo) \in Nat \ {0} /\ Len(Tail(todo)) = Len(todo) - 1
        /\ \A i \in 1..(Len(todo) - 1) : Tail(todo)[i] = todo[i + 1]
    BY <1>2, InHand DEF Handle
  <2>2. CASE \E events \in SUBSET Events : todo' = TargetsOf("event", events)
    BY <1>1, <1>2, <1>f, <2>2, EventTargets DEF Handle
  <2>3. CASE Pop
    <3>0. \A i \in 1..(Len(todo) - 1) : i + 1 \in 1..Len(todo)
      BY <2>1
    <3>1. /\ Len(todo') = Len(todo) - 1
          /\ \A i \in 1..Len(todo') : todo'[i] = todo[i + 1]
      BY <2>1, <2>3 DEF Pop
    <3>2. Ordered1'
      BY <1>0, <2>1, <3>0, <3>1
    <3>3. ASSUME InPages'
          PROVE  \A i \in 1..Len(todo') :
                   /\ todo'[i] = <<"page", MaxPages - Len(todo') + i - 1>>
                   /\ received'[todo'[i]] = NoVersion
      <4>1. InPages
        BY <3>0, <3>1, <3>3 DEF InPages, Queued
      <4>2. TAKE i \in 1..Len(todo')
      <4>3. /\ todo[i + 1] = <<"page", MaxPages - Len(todo) + (i + 1) - 1>>
            /\ todo[1] = <<"page", MaxPages - Len(todo) + 1 - 1>>
            /\ received[todo[i + 1]] = NoVersion /\ todo[i + 1] \in Targets
        BY <1>0, <2>1, <3>0, <3>1, <4>1
      <4>4. MaxPages - Len(todo) + (i + 1) - 1 # MaxPages - Len(todo) + 1 - 1
        BY <1>0, <2>1
      <4>5. todo[i + 1] # todo[1]
        BY <4>3, <4>4
      <4>6. received'[todo[i + 1]] = NoVersion
        BY <1>0, <2>1, <2>3, <4>3, <4>5 DEF Pop, Receive
      <4>7. MaxPages - Len(todo) + (i + 1) - 1 = MaxPages - Len(todo') + i - 1
        BY <1>0, <2>1, <3>1
      <4>8. QED
        BY <3>1, <4>3, <4>6, <4>7
    <3>4. pc' # "idle"
      BY <1>2 DEF Handle
    <3>5. QED
      BY <1>f, <3>2, <3>3, <3>4
  <2>4. QED
    BY <1>2, <2>2, <2>3 DEF Handle
<1>3. CASE ReadEvent
  <2> DEFINE papers == Linked(Target[2], Source(Target))
             rest == Tail(todo)
  <2>1. /\ Target = todo[1] /\ Target \in Details /\ Source(Target) \in Versions
        /\ Len(todo) \in Nat \ {0} /\ rest \in Seq(Targets) /\ Len(rest) = Len(todo) - 1
        /\ \A i \in 1..(Len(todo) - 1) : rest[i] = todo[i + 1]
    BY <1>3, InHand DEF ReadEvent, Targets
  <2>2. papers \in Seq(Documents)
    <3>1. Target[2] \in Events /\ Attached[Source(Target)] \in SUBSET Attachments
      BY <2>1, Readings DEF Details
    <3>2. QED
      BY <3>1, PaperTargets DEF Linked
  <2>3. todo' = papers \o rest /\ pc' # "idle"
    BY <1>3 DEF ReadEvent, Fetching, CompareWithLatest
  <2>4. \A i \in 1..(Len(todo) - 1) : todo[i + 1] \notin Documents /\ todo[i + 1] \notin Pages
    <3>1. ~InPages
      BY <1>0, <2>1, Kinds, MaxPagesType DEF InPages, Queued, Details
    <3>2. \A i \in 1..(Len(todo) - 1) : i + 1 \in 1..Len(todo) /\ 1 \in 1..Len(todo) /\ 1 < i + 1
      BY <2>1
    <3>3. QED
      BY <1>0, <2>1, <3>1, <3>2, Kinds DEF InPages, Queued
  <2>5. papers \in Seq(Targets)
    BY <2>2 DEF Targets
  <2> HIDE DEF papers, rest
  <2>6. /\ Len(todo') = Len(papers) + Len(rest)
        /\ \A i \in 1..(Len(papers) + Len(rest)) :
             todo'[i] = IF i <= Len(papers) THEN papers[i] ELSE rest[i - Len(papers)]
    BY <2>1, <2>3, <2>5, ConcatProperties
  <2>7. Len(papers) \in Nat /\ \A i \in 1..Len(papers) : papers[i] \in Documents /\ papers[i] \notin Pages
    BY <2>2, Kinds
  <2>8. \A i \in 1..Len(todo') :
          IF i <= Len(papers) THEN todo'[i] \in Documents
          ELSE todo'[i] \notin Documents /\ todo'[i] \notin Pages
    <3>1. TAKE i \in 1..Len(todo')
    <3>2. CASE i <= Len(papers)
      BY <2>1, <2>6, <2>7, <3>2
    <3>3. CASE i > Len(papers)
      <4>1. i - Len(papers) \in 1..(Len(todo) - 1) /\ todo'[i] = rest[i - Len(papers)]
        <5>1. /\ i \in 1..(Len(papers) + Len(rest)) /\ Len(rest) = Len(todo) - 1
              /\ Len(papers) \in Nat /\ Len(todo) \in Nat
          BY <2>1, <2>6, <2>7
        <5>2. i - Len(papers) \in 1..(Len(todo) - 1)
          BY <3>3, <5>1
        <5>3. todo'[i] = rest[i - Len(papers)]
          BY <2>6, <3>3, <5>1
        <5>4. QED
          BY <5>2, <5>3
      <4>2. QED
        BY <2>1, <2>4, <2>7, <3>3, <4>1
    <3>4. QED
      BY <2>7, <3>2, <3>3
  <2>9. ~InPages'
    BY <2>7, <2>8, Kinds DEF InPages, Queued
  <2>10. Ordered1'
    BY <2>7, <2>8
  <2>11. QED
    BY <1>f, <2>3, <2>9, <2>10
<1>4. CASE Start
  <2>1. /\ todo' = [n \in 1..MaxPages |-> <<"page", n - 1>>] /\ pc' # "idle"
        /\ received' = [t \in Targets |-> NoVersion]
    BY <1>4 DEF Start
  <2>2. Len(todo') = MaxPages /\ \A i \in 1..MaxPages : todo'[i] = <<"page", i - 1>>
    BY <1>0, <2>1
  <2>3. \A i \in 1..MaxPages : <<"page", i - 1>> \in Pages /\ <<"page", i - 1>> \in Targets
                               /\ MaxPages - MaxPages + i - 1 = i - 1
    BY <1>0 DEF Pages, Targets
  <2>4. Ordered1' /\ Phase'
    BY <2>1, <2>2, <2>3, Kinds
  <2>5. QED
    BY <1>f, <2>1, <2>4
<1>5. CASE UNCHANGED <<todo, received, manifest, detail>> /\ (pc = "idle" <=> pc' = "idle")
  BY <1>5 DEF QueueInv, Queued
<1>6. CASE todo' = <<>>
  <2>1. todo' \in Seq(Details)
    BY <1>6
  <2>2. QED
    BY <1>1, <1>6, <1>f, <2>1
<1>7. QED
  BY <1>2, <1>3, <1>4, <1>5, <1>6, QueueSteps DEF Cut
(***************************************************************************)
(* Documents and their events.                                             *)
(***************************************************************************)
(* What the source has served unmodified has been captured and, if it can  *)
(* be used, was parsed.                                                    *)
LEMMA UnmodifiedIsCaptured ==
  ASSUME TypeInv, CaptureInv, NEW t \in Targets, Unmodified(t), Source(t) \in Usable
  PROVE  \E i \in 1..Len(manifest) :
           /\ manifest[i].target = t /\ manifest[i].status = "ok"
           /\ manifest[i].body = Source(t)
           /\ t \in Details => manifest[i].fields = "parsed"
<1>1. Latest(t).status \in {"ok", "unmodified"} /\ Latest(t).body = Source(t)
  BY DEF Unmodified
<1>2. Latest(t) # NoCapture(t)
  BY <1>1 DEF NoCapture, Capture
<1>3. PICK i \in 1..Len(manifest) : manifest[i].target = t /\ Latest(t) = manifest[i]
  BY <1>2, LatestIs DEF TypeInv, TypeOK
<1>4. QED
  BY <1>1, <1>3 DEF CaptureInv, Genuine

(* A document is queued by the capture that names it.                      *)
LEMMA PaperStep ==
  ASSUME TypeInv, QueueInv, CaptureInv, PaperInv, [Next]_vars
  PROVE  PaperInv'
<1> DEFINE Named(m, v, t) == v \in Versions /\
             \E j \in 1..Len(m) : m[j].body = v /\ Names(m[j], t)
           Explained(m, i) ==
             m[i].target \in Documents /\ m[i].status = "ok" =>
               \E j \in 1..(i - 1) :
                 /\ m[j].target \in Details /\ m[j].fields = "parsed"
                 /\ \/ /\ m[i].target = <<"agenda", m[j].target[2]>>
                       /\ m[i].fields = Published[m[j].body]
                    \/ /\ m[i].target \in {<<"attachment", a>> : a \in Attached[m[j].body]}
                       /\ m[i].fields = Described[m[j].body]
<1>0. /\ manifest \in Seq(Captures) /\ Len(manifest) \in Nat
      /\ todo \in Seq(Targets)
      /\ \A i \in 1..Len(todo) : todo[i] \in Documents => Named(manifest, detail, todo[i])
      /\ \A i \in 1..Len(manifest) : Explained(manifest, i)
  BY DEF TypeInv, TypeOK, PaperInv, DocumentsHaveEvents
<1>f. ASSUME \A i \in 1..Len(todo') : todo'[i] \in Documents => Named(manifest', detail', todo'[i]),
             \A i \in 1..Len(manifest') : Explained(manifest', i)
      PROVE  PaperInv'
  BY <1>f DEF PaperInv, DocumentsHaveEvents
<1>1. ASSUME NEW c, Grown(c), NEW i \in 1..Len(manifest)
      PROVE  Explained(manifest', i)
  <2>1. /\ manifest'[i] = manifest[i]
        /\ \A j \in 1..(i - 1) : manifest'[j] = manifest[j]
    <3>1. Len(manifest) \in Nat
      BY <1>0
    <3>2. \A j \in 1..Len(manifest) : manifest'[j] = manifest[j]
      BY <1>1 DEF Grown
    <3>3. QED
      BY <3>1, <3>2
  <2>2. Explained(manifest, i)
    BY <1>0
  <2>3. QED
    BY <2>1, <2>2
<1>2. ASSUME NEW t, Named(manifest, detail, t), UNCHANGED detail,
             UNCHANGED manifest \/ \E c : Grown(c)
      PROVE  Named(manifest', detail', t)
  BY <1>0, <1>2 DEF Grown
<1>3. ASSUME todo' \in Seq(Details)
      PROVE  \A i \in 1..Len(todo') : todo'[i] \notin Documents
  BY <1>3, Kinds, ElementOfSeq
<1>c. ASSUME NEW c \in Captures, Store(c), Fetching(Targets), c.target = Target,
             c.target \in Documents /\ c.status = "ok" => c.fields = Fields(Target)
      PROVE  Grown(c) /\ \A i \in 1..Len(manifest') : Explained(manifest', i)
  <2>1. Target = todo[1] /\ Len(todo) \in Nat \ {0} /\ Target \in Targets
    BY <1>c, InHand
  <2>2. Grown(c)
    BY <1>0, <1>c, Stored
  <2>3. ASSUME NEW i \in 1..Len(manifest'), i \notin 1..Len(manifest)
        PROVE  Explained(manifest', i)
    <3>1. manifest'[i] = c /\ i - 1 >= Len(manifest)
      BY <1>0, <2>2, <2>3 DEF Grown
    <3>2. SUFFICES ASSUME Target \in Documents, c.status = "ok"
                   PROVE  Explained(manifest', i)
      BY <1>c, <3>1
    <3>3. PICK j \in 1..Len(manifest) : manifest[j].body = detail /\ Names(manifest[j], Target)
      BY <1>0, <2>1, <3>2
    <3>4. j \in 1..(i - 1) /\ manifest'[j] = manifest[j]
      BY <1>0, <2>2, <3>1 DEF Grown
    <3>5. c.target = Target /\ c.fields = Fields(Target)
      BY <1>c, <3>2
    <3>6. CASE Target = <<"agenda", manifest[j].target[2]>>
      <4>1. c.fields = Published[manifest[j].body]
        BY <3>3, <3>5, <3>6 DEF Fields, Kind
      <4>2. QED
        BY <3>1, <3>3, <3>4, <3>5, <3>6, <4>1 DEF Names
    <3>7. CASE Target \in {<<"attachment", a>> : a \in Attached[manifest[j].body]}
      <4>1. c.fields = Described[manifest[j].body]
        BY <3>3, <3>5, <3>7 DEF Fields, Kind
      <4>2. QED
        BY <3>1, <3>3, <3>4, <3>5, <3>7, <4>1 DEF Names
    <3>8. QED
      BY <3>3, <3>6, <3>7 DEF Names
  <2>4. QED
    BY <1>1, <2>2, <2>3
<1>4. CASE Handle
  <2>1. /\ Target = todo[1] /\ Target \in Targets
        /\ Len(todo) \in Nat \ {0} /\ Len(Tail(todo)) = Len(todo) - 1
        /\ \A i \in 1..(Len(todo) - 1) : Tail(todo)[i] = todo[i + 1]
        /\ UNCHANGED detail
    BY <1>4, InHand DEF Handle
  <2>2. \A i \in 1..Len(todo') : todo'[i] \in Documents => \E k \in 1..Len(todo) : todo'[i] = todo[k]
    <3>1. CASE \E events \in SUBSET Events : todo' = TargetsOf("event", events)
      BY <1>3, <3>1, EventTargets
    <3>2. CASE Pop
      <4>1. \A i \in 1..Len(todo') : i + 1 \in 1..Len(todo) /\ todo'[i] = todo[i + 1]
        BY <2>1, <3>2 DEF Pop
      <4>2. QED
        BY <4>1
    <3>3. QED
      BY <1>4, <3>1, <3>2 DEF Handle
  <2>3. CASE UNCHANGED manifest
    BY <1>0, <1>2, <1>f, <2>1, <2>2, <2>3
  <2>4. CASE ~UNCHANGED manifest
    <3>1. PICK c \in Captures :
            /\ Store(c) /\ c.target = Target
            /\ c.target \in Documents /\ c.status = "ok" => c.fields = Fields(Target)
      BY <1>4, <2>4 DEF Handle
    <3>2. Grown(c) /\ \A i \in 1..Len(manifest') : Explained(manifest', i)
      BY <1>4, <1>c, <3>1 DEF Handle
    <3>3. QED
      BY <1>0, <1>2, <1>f, <2>1, <2>2, <3>2
  <2>5. QED
    BY <2>3, <2>4
<1>5. CASE ReadEvent
  <2> DEFINE v == Source(Target)
             c == Capture(Target, "ok", v, "parsed")
             e == Target[2]
             papers == Linked(e, v)
  <2>1. /\ Target = todo[1] /\ Target \in Details /\ Target \in Targets /\ v \in Versions
        /\ Len(todo) \in Nat \ {0} /\ Tail(todo) \in Seq(Targets)
        /\ Len(Tail(todo)) = Len(todo) - 1
        /\ \A i \in 1..(Len(todo) - 1) : Tail(todo)[i] = todo[i + 1]
        /\ v \in Usable
    BY <1>5, InHand DEF ReadEvent, Targets
  <2>2. /\ todo' = papers \o Tail(todo) /\ detail' = v
        /\ (Unmodified(Target) /\ UNCHANGED manifest) \/ Store(c)
    BY <1>5 DEF ReadEvent
  <2>3. e \in Events /\ Attached[v] \in SUBSET Attachments
    BY <2>1, Readings DEF Details
  <2>4. /\ papers \in Seq(Documents)
        /\ \A i \in 1..Len(papers) :
             papers[i] = <<"agenda", e>> \/ \E a \in Attached[v] : papers[i] = <<"attachment", a>>
    BY <2>1, <2>3, LinkedTargets
  <2>5. c \in Captures /\ c.target = Target /\ c.status = "ok" /\ c.fields = "parsed" /\ c.body = v
    BY <2>1, CaptureTypes DEF Capture
  <2> HIDE DEF c, papers
  <2>6. /\ UNCHANGED manifest \/ Grown(c)
        /\ \E j \in 1..Len(manifest') :
             /\ manifest'[j].target = Target /\ manifest'[j].body = v
             /\ manifest'[j].fields = "parsed"
    <3>1. CASE Store(c)
      BY <1>0, <2>5, <3>1, Stored
    <3>2. CASE Unmodified(Target) /\ UNCHANGED manifest
      BY <2>1, <3>2, UnmodifiedIsCaptured
    <3>3. QED
      BY <2>2, <3>1, <3>2
  <2>7. \A i \in 1..Len(manifest') : Explained(manifest', i)
    <3>1. CASE UNCHANGED manifest
      BY <1>0, <3>1
    <3>2. CASE Grown(c)
      <4>1. \A i \in 1..Len(manifest') : i \in 1..Len(manifest) \/ manifest'[i] = c
        BY <3>2 DEF Grown
      <4>2. c.target \notin Documents
        BY <2>1, <2>5, Kinds
      <4>3. QED
        BY <1>1, <3>2, <4>1, <4>2
    <3>3. QED
      BY <2>6, <3>1, <3>2
  <2>8. ASSUME NEW i \in 1..Len(todo'), todo'[i] \in Documents
        PROVE  Named(manifest', detail', todo'[i])
    <3>1. papers \in Seq(Targets)
      BY <2>4 DEF Targets
    <3>2. /\ Len(todo') = Len(papers) + (Len(todo) - 1) /\ Len(papers) \in Nat
          /\ todo'[i] = IF i <= Len(papers) THEN papers[i] ELSE Tail(todo)[i - Len(papers)]
      BY <2>1, <2>2, <2>8, <3>1, ConcatProperties
    <3>3. i <= Len(papers)
      <4>1. SUFFICES ASSUME i > Len(papers)
                     PROVE  FALSE
        BY <3>2
      <4>2. i - Len(papers) \in 1..(Len(todo) - 1)
        BY <2>1, <3>2, <4>1
      <4>3. /\ todo'[i] = todo[i - Len(papers) + 1]
            /\ i - Len(papers) + 1 \in 1..Len(todo) /\ 1 \in 1..Len(todo)
            /\ 1 < i - Len(papers) + 1
        BY <2>1, <3>2, <4>1, <4>2
      <4>4. todo[1] \in Documents
        BY <2>8, <4>3 DEF QueueInv
      <4>5. QED
        BY <2>1, <4>4, Kinds
    <3>4. todo'[i] = papers[i] /\ i \in 1..Len(papers)
      BY <3>2, <3>3
    <3>5. PICK j \in 1..Len(manifest') :
             /\ manifest'[j].target = Target /\ manifest'[j].body = v
             /\ manifest'[j].fields = "parsed"
      BY <2>6
    <3>6. Names(manifest'[j], todo'[i])
      BY <2>1, <2>4, <3>4, <3>5 DEF Names
    <3>7. QED
      BY <2>1, <2>2, <3>5, <3>6
  <2>9. QED
    BY <1>f, <2>7, <2>8
<1>6. CASE Start
  <2>1. /\ todo' = [n \in 1..MaxPages |-> <<"page", n - 1>>] /\ UNCHANGED manifest
    BY <1>6 DEF Start
  <2>2. Len(todo') = MaxPages /\ \A i \in 1..MaxPages : todo'[i] = <<"page", i - 1>>
    BY <2>1, MaxPagesType
  <2>3. \A i \in 1..MaxPages : <<"page", i - 1>> \in Pages
    BY MaxPagesType DEF Pages
  <2>4. \A i \in 1..Len(todo') : todo'[i] \notin Documents
    BY <2>2, <2>3, Kinds
  <2>5. QED
    BY <1>0, <1>f, <2>1, <2>4
<1>7. CASE UNCHANGED <<todo, received, manifest, detail>>
  BY <1>7 DEF PaperInv, DocumentsHaveEvents
<1>8. CASE todo' = <<>> /\ UNCHANGED <<manifest, detail>>
  BY <1>0, <1>f, <1>8
<1>9. CASE Cut
  <2>1. todo' = <<>> /\ \A i \in 1..Len(manifest') : Explained(manifest', i)
    BY <1>9, <1>c DEF Cut
  <2>2. QED
    BY <1>f, <2>1
<1>10. QED
  BY <1>4, <1>5, <1>6, <1>7, <1>8, <1>9, QueueSteps

(***************************************************************************)
(* A run that reports "complete".                                          *)
(***************************************************************************)
LEMMA SettledKept ==
  ASSUME TypeInv, NEW t, Settled(t), received'[t] = received[t],
         UNCHANGED manifest \/ \E c \in Captures : Grown(c)
  PROVE  Settled(t)'
<1>1. ASSUME CapturedAs(t, received[t])
      PROVE  CapturedAs(t, received[t])'
  <2>1. PICK i \in 1..Len(manifest) :
          manifest[i].target = t /\ manifest[i].status = "ok" /\ manifest[i].body = received[t]
    BY <1>1 DEF CapturedAs
  <2>2. i \in 1..Len(manifest') /\ manifest'[i] = manifest[i]
    <3>1. CASE UNCHANGED manifest
      BY <3>1
    <3>2. CASE \E c \in Captures : Grown(c)
      <4>1. /\ Len(manifest) \in Nat /\ Len(manifest') \in Nat /\ Len(manifest) <= Len(manifest')
            /\ manifest'[i] = manifest[i]
        BY <3>2 DEF Grown, TypeInv, TypeOK
      <4>2. QED
        BY <4>1
    <3>3. QED
      BY <3>1, <3>2
  <2>3. QED
    BY <2>1, <2>2 DEF CapturedAs
<1>2. QED
  BY <1>1 DEF Settled

(* The documents that a version calls for are targets.                     *)
LEMMA PaperIsDocument ==
  ASSUME NEW e \in Events, NEW v \in Usable
  PROVE  /\ \A d \in ToSet(Papers(e, v)) : d \in Documents /\ d \in Targets
         /\ \A d \in ToSet(Papers(e, v)) : \E i \in 1..Len(Papers(e, v)) : Papers(e, v)[i] = d
<1>1. Papers(e, v) \in Seq(Documents)
  BY LinkedTargets, VersionSets
<1> DEFINE s == Papers(e, v)
<1>2. \A d \in ToSet(s) : \E i \in 1..Len(s) : s[i] = d
  <2> HIDE DEF s
  <2>1. QED
    BY <1>1 DEF ToSet, s
<1>3. \A i \in 1..Len(s) : s[i] \in Documents
  <2> HIDE DEF s
  <2>1. QED
    BY <1>1 DEF s
<1>4. QED
  BY <1>2, <1>3 DEF Targets

(* The response to a request was stored, or the source had nothing new.    *)
LEMMA ResponseSettles ==
  ASSUME TypeInv, CaptureInv, Fetching(Targets), NEW t, t = Target, Source(t) \in Usable,
         NEW c \in Captures, c.target = t, c.status = "ok", c.body = Source(t),
         Receive(Source(t)), (Unmodified(t) /\ UNCHANGED manifest) \/ Store(c)
  PROVE  /\ Settled(t)' /\ received'[t] = Source(t)
         /\ UNCHANGED manifest \/ \E d \in Captures : Grown(d)
<1>1. /\ t \in Targets /\ manifest \in Seq(Captures)
      /\ received \in [Targets -> Versions \cup {NoVersion}]
  BY InHand DEF TypeInv, TypeOK
<1>2. received'[t] = Source(t)
  BY <1>1 DEF Receive
<1>3. \E i \in 1..Len(manifest') :
        /\ manifest'[i].target = t /\ manifest'[i].status = "ok"
        /\ manifest'[i].body = Source(t)
  <2>1. CASE Unmodified(t) /\ UNCHANGED manifest
    BY <1>1, <2>1, UnmodifiedIsCaptured
  <2>2. CASE Store(c)
    BY <1>1, <2>2, Stored
  <2>3. QED
    BY <2>1, <2>2
<1>4. UNCHANGED manifest \/ \E d \in Captures : Grown(d)
  <2>1. CASE Store(c)
    <3>1. Grown(c)
      BY <1>1, <2>1, Stored
    <3>2. QED
      BY <3>1
  <2>2. QED
    BY <2>1
<1>5. Settled(t)'
  BY <1>2, <1>3 DEF Settled, CapturedAs
<1>6. QED
  BY <1>2, <1>4, <1>5

(* An event or a document leaves the queue settled.                        *)
LEMMA Progress ==
  ASSUME TypeInv, AllCalled, Fetching(Details \cup Documents), QueueInv,
         NEW t, t = Target, Settled(t)', NEW v, Receive(v),
         UNCHANGED manifest \/ \E c \in Captures : Grown(c), UNCHANGED found,
         \A u : Queued(u) /\ u # t => Queued(u)',
         \A e \in Events : t = <<"event", e>> /\ v \in Usable =>
           \A d \in ToSet(Papers(e, v)) : Queued(d)'
  PROVE  AllCalled'
<1>1. /\ t = todo[1] /\ t \in Targets /\ t \notin Pages /\ Len(todo) \in Nat \ {0}
      /\ received \in [Targets -> Versions \cup {NoVersion}] /\ found \subseteq Events
  BY InHand, Kinds DEF Targets, TypeInv, TypeOK
<1>2. \A p \in Pages : ~Queued(p)
  <2> SUFFICES ASSUME \E p \in Pages : Queued(p)
               PROVE  FALSE
    OBVIOUS
  <2>1. todo[1] = <<"page", MaxPages - Len(todo) + 1 - 1>>
    BY <1>1 DEF QueueInv
  <2>2. QED
    BY <1>1, <2>1, Kinds DEF Details, Documents, Fetching
<1>3. \A u \in Targets : u # t => received'[u] = received[u]
  BY <1>1 DEF Receive
<1>4. received'[t] = v
  BY <1>1 DEF Receive
<1>5. ASSUME NEW u \in Targets, Settled(u) \/ Queued(u)
      PROVE  Settled(u)' \/ Queued(u)'
  <2>1. CASE u = t
    BY <2>1
  <2>2. CASE u # t
    BY <1>3, <1>5, <2>2, SettledKept
  <2>3. QED
    BY <2>1, <2>2
<1>6. \A p \in Pages : p \in Targets /\ received'[p] = received[p]
  BY <1>1, <1>3 DEF Targets
<1>7. \A e \in Events : <<"event", e>> \in Targets
  BY DEF Targets, Details
<1>8. ASSUME NEW p \in CalledPages'
      PROVE  Settled(p)' \/ Queued(p)'
  <2>1. p \in Pages /\ p \in CalledPages
    <3>1. \A n \in 0..(MaxPages - 1) : \A k \in 0..(n - 1) : <<"page", k>> \in Pages
      BY MaxPagesType DEF Pages
    <3>2. QED
      BY <1>6, <1>8, <3>1 DEF CalledPages, Pages
  <2>2. QED
    BY <1>5, <1>6, <2>1 DEF AllCalled
<1>9. ASSUME NEW p \in Pages, received'[p] \in Usable
      PROVE  Listed[received'[p]] \subseteq found'
  BY <1>6, <1>9 DEF AllCalled
<1>10. ASSUME NEW e \in found'
       PROVE  Settled(<<"event", e>>)' \/ Queued(<<"event", e>>)'
  BY <1>1, <1>2, <1>5, <1>7 DEF AllCalled
<1>11. ASSUME NEW e \in Events, received'[<<"event", e>>] \in Usable,
              NEW d \in ToSet(Papers(e, received'[<<"event", e>>]))
       PROVE  Settled(d)' \/ Queued(d)'
  <2>1. CASE t = <<"event", e>>
    BY <1>4, <1>11, <2>1
  <2>2. CASE t # <<"event", e>>
    <3>1. received'[<<"event", e>>] = received[<<"event", e>>]
      BY <1>3, <1>7, <2>2
    <3>2. d \in Targets
      BY <1>11, PaperIsDocument
    <3>3. Settled(d) \/ Queued(d)
      BY <1>11, <3>1 DEF AllCalled
    <3>4. QED
      BY <1>5, <3>2, <3>3
  <2>3. QED
    BY <2>1, <2>2
<1>12. QED
  BY <1>8, <1>9, <1>10, <1>11 DEF AllCalled

(* A page leaves the queue settled, and takes the pages after it along     *)
(* when it is the last: these are then not called for.                     *)
LEMMA PageProgress ==
  ASSUME TypeInv, CaptureInv, QueueInv, AllCalled, ReadPage
  PROVE  AllCalled'
<1> DEFINE v == Source(Target)
<1>0. /\ v \in Usable /\ v \in Versions /\ Fetching(Pages) /\ Fetching(Targets)
      /\ Receive(v) /\ found' = found \cup Listed[v]
      /\ NextPage(v \notin Full, found')
      /\ (Unmodified(Target) /\ UNCHANGED manifest) \/ Store(Capture(Target, "ok", v, "parsed"))
  BY InHand DEF ReadPage, Targets, Fetching
<1>1. PICK t \in Pages : t = Target
  BY <1>0 DEF Fetching
<1> HIDE DEF v
<1>2. /\ t = todo[1] /\ t \in Targets /\ Len(todo) \in Nat \ {0}
      /\ Len(Tail(todo)) = Len(todo) - 1
      /\ \A i \in 1..(Len(todo) - 1) : Tail(todo)[i] = todo[i + 1]
      /\ received \in [Targets -> Versions \cup {NoVersion}] /\ found' \in SUBSET Events
      /\ Source(t) = v
  BY <1>0, <1>1, InHand, Readings DEF TypeInv, TypeOK, v
<1>3. \A i \in 1..Len(todo) : /\ todo[i] = <<"page", MaxPages - Len(todo) + i - 1>>
                              /\ received[todo[i]] = NoVersion
  BY <1>1, <1>2 DEF QueueInv, Queued
<1>4. /\ Settled(t)' /\ received'[t] = v
      /\ UNCHANGED manifest \/ \E d \in Captures : Grown(d)
  <2> DEFINE c == Capture(t, "ok", v, "parsed")
  <2>1. c \in Captures /\ c.target = t /\ c.status = "ok" /\ c.body = v
    BY <1>0, <1>2, CaptureTypes DEF Capture
  <2> HIDE DEF c
  <2>2. (Unmodified(t) /\ UNCHANGED manifest) \/ Store(c)
    BY <1>0, <1>1 DEF c
  <2>3. QED
    BY <1>0, <1>1, <1>2, <2>1, <2>2, ResponseSettles
<1>5. \A u \in Targets : u # t => received'[u] = received[u]
  BY <1>0, <1>1, <1>2 DEF Receive
<1>6. \A u \in Targets : u # t /\ Settled(u) => Settled(u)'
  BY <1>4, <1>5, SettledKept
<1>7. received[t] \notin Usable
  <2>1. received[t] = NoVersion
    BY <1>2, <1>3
  <2>2. QED
    BY <2>1, NoVersionIsNone, VersionSets
<1>8. \/ Len(todo) > 1 /\ v \in Full /\ todo' = Tail(todo)
      \/ (Len(todo) = 1 \/ v \notin Full) /\ todo' = TargetsOf("event", found')
  BY <1>0, <1>2 DEF NextPage
<1>9. ASSUME NEW p \in CalledPages'
      PROVE  Settled(p)' \/ Queued(p)'
  <2>1. PICK m \in 0..(MaxPages - 1) :
          /\ p = <<"page", m>>
          /\ \A k \in 0..(m - 1) : received'[<<"page", k>>] \notin Usable \ Full
    BY <1>9 DEF CalledPages
  <2>2. \A k \in 0..(m - 1) : <<"page", k>> \in Targets
    <3>1. \A k \in 0..(m - 1) : k \in 0..(MaxPages - 1)
      BY <2>1, MaxPagesType
    <3>2. QED
      BY <3>1 DEF Targets, Pages
  <2>3. \A k \in 0..(m - 1) : received[<<"page", k>>] \notin Usable \ Full
    <3>1. SUFFICES ASSUME NEW k \in 0..(m - 1)
                   PROVE  received[<<"page", k>>] \notin Usable \ Full
      BY Zenon
    <3>2. PICK u \in Targets : u = <<"page", k>>
      BY <2>2
    <3>3. received'[u] \notin Usable \ Full
      BY <2>1, <3>2
    <3>4. received[u] \notin Usable \ Full
      BY <1>5, <1>7, <3>3
    <3>5. QED
      BY <3>2, <3>4
  <2>4. p \in CalledPages /\ p \in Targets
    BY <2>1, <2>3 DEF CalledPages, Targets, Pages
  <2>5. CASE p # t /\ Queued(p)
    <3>1. PICK i \in 1..Len(todo) : todo[i] = p
      BY <2>5 DEF Queued
    <3>2. i > 1 /\ i - 1 \in 1..(Len(todo) - 1) /\ Len(todo) > 1
      BY <1>2, <2>5, <3>1
    <3>3. v \in Full
      <4> DEFINE k == MaxPages - Len(todo)
      <4>1. t = <<"page", k>>
        <5>1. todo[1] = <<"page", MaxPages - Len(todo) + 1 - 1>>
          BY <1>2, <1>3
        <5>2. MaxPages - Len(todo) + 1 - 1 = k
          BY <1>2, MaxPagesType
        <5>3. QED
          BY <1>2, <5>1, <5>2
      <4>2. <<"page", m>> = <<"page", MaxPages - Len(todo) + i - 1>>
        BY <1>3, <2>1, <3>1
      <4>3. m = MaxPages - Len(todo) + i - 1
        BY <4>2
      <4>4. k \in 0..(m - 1)
        <5>1. k \in 0..(MaxPages - 1)
          <6>1. <<"page", k>> \in Pages
            BY <4>1
          <6>2. \E n \in 0..(MaxPages - 1) : <<"page", n>> = <<"page", k>>
            BY <6>1 DEF Pages
          <6>3. QED
            BY <6>2
        <5>2. k < m
          BY <1>2, <3>2, <4>3, MaxPagesType
        <5>3. QED
          BY <5>1, <5>2, MaxPagesType
      <4>5. QED
        BY <1>0, <1>4, <2>1, <4>1, <4>4
    <3>4. todo' = Tail(todo)
      <4>1. Len(todo) # 1
        BY <1>2, <3>2
      <4>2. QED
        BY <1>8, <3>3, <4>1, Zenon
    <3>5. i - 1 \in 1..Len(todo') /\ todo'[i - 1] = p
      BY <1>2, <3>1, <3>2, <3>4
    <3>6. QED
      BY <3>5 DEF Queued
  <2>6. CASE p # t /\ ~Queued(p)
    BY <1>6, <2>4, <2>6 DEF AllCalled
  <2>7. QED
    BY <1>4, <2>5, <2>6
<1>10. ASSUME NEW p \in Pages, received'[p] \in Usable
       PROVE  Listed[received'[p]] \subseteq found'
  <2>1. p \in Targets
    BY DEF Targets
  <2>2. QED
    BY <1>0, <1>4, <1>5, <1>10, <2>1 DEF AllCalled
<1>11. ASSUME \A p \in Pages : ~Queued(p)', NEW e \in found'
       PROVE  Queued(<<"event", e>>)'
  <2>1. CASE todo' = Tail(todo) /\ Len(todo) > 1
    <3>1. todo'[1] = todo[2] /\ 1 \in 1..Len(todo') /\ 2 \in 1..Len(todo)
      BY <1>2, <2>1
    <3>2. todo[2] \in Pages
      <4>1. todo[2] = <<"page", MaxPages - Len(todo) + 2 - 1>>
        BY <1>3, <3>1
      <4>2. todo[1] = <<"page", MaxPages - Len(todo) + 1 - 1>>
        BY <1>2, <1>3
      <4>3. MaxPages - Len(todo) + 1 - 1 \in 0..(MaxPages - 1)
        BY <1>2, <4>2 DEF Pages
      <4>4. MaxPages - Len(todo) + 2 - 1 \in 0..(MaxPages - 1)
        BY <1>2, <2>1, <4>3, MaxPagesType
      <4>5. QED
        BY <4>1, <4>4 DEF Pages
    <3>3. QED
      BY <1>11, <3>1, <3>2 DEF Queued
  <2>2. CASE todo' = TargetsOf("event", found')
    BY <1>2, <2>2, EventTargets DEF Queued
  <2>3. QED
    BY <1>8, <2>1, <2>2
<1>12. ASSUME NEW e \in Events, received'[<<"event", e>>] \in Usable,
              NEW d \in ToSet(Papers(e, received'[<<"event", e>>]))
       PROVE  Settled(d)' \/ Queued(d)'
  <2>1. <<"event", e>> \in Targets /\ <<"event", e>> # t
    BY Kinds DEF Targets, Details
  <2>2. received'[<<"event", e>>] = received[<<"event", e>>]
    BY <1>5, <2>1
  <2>3. d \in Targets /\ d \in Documents /\ d # t
    BY <1>12, PaperIsDocument, Kinds
  <2>4. ~Queued(d)
    BY <1>3, <2>3, Kinds DEF Queued, Documents
  <2>5. QED
    BY <1>6, <1>12, <2>2, <2>3, <2>4 DEF AllCalled
<1>13. QED
  BY <1>9, <1>10, <1>11, <1>12 DEF AllCalled

(* An event read without an issue has its documents queued or settled.     *)
LEMMA EventProgress ==
  ASSUME TypeInv, CaptureInv, QueueInv, AllCalled, ReadEvent, ~issues'
  PROVE  AllCalled'
<1>p. PICK v : v = Source(Target)
  OBVIOUS
<1>0. /\ v \in Usable /\ v \in Versions /\ Fetching(Details) /\ Fetching(Targets)
      /\ Fetching(Details \cup Documents) /\ Receive(v) /\ UNCHANGED found
      /\ todo' = Papers(Target[2], v) \o Tail(todo)
      /\ (Unmodified(Target) /\ UNCHANGED manifest) \/ Store(Capture(Target, "ok", v, "parsed"))
  BY <1>p, InHand DEF ReadEvent, Targets, Fetching
<1>1. PICK e \in Events : Target = <<"event", e>>
  BY <1>0 DEF Fetching, Details
<1> DEFINE t == <<"event", e>>
<1>2. t = Target /\ t \in Targets /\ Source(t) = v
  BY <1>p, <1>1 DEF Targets, Details
<1> HIDE DEF t
<1>3. /\ t = todo[1] /\ Len(todo) \in Nat \ {0} /\ Tail(todo) \in Seq(Targets)
      /\ Len(Tail(todo)) = Len(todo) - 1
      /\ \A i \in 1..(Len(todo) - 1) : Tail(todo)[i] = todo[i + 1]
  BY <1>0, <1>2, InHand
<1>4. /\ Settled(t)'
      /\ UNCHANGED manifest \/ \E d \in Captures : Grown(d)
  <2> DEFINE c == Capture(t, "ok", v, "parsed")
  <2>1. c \in Captures /\ c.target = t /\ c.status = "ok" /\ c.body = v
    BY <1>0, <1>2, CaptureTypes DEF Capture
  <2> HIDE DEF c
  <2>2. (Unmodified(t) /\ UNCHANGED manifest) \/ Store(c)
    BY <1>0, <1>2 DEF c
  <2>3. QED
    BY <1>0, <1>2, <2>1, <2>2, ResponseSettles
<1> DEFINE papers == Papers(e, v)
<1>5. /\ papers \in Seq(Targets) /\ todo' = papers \o Tail(todo)
      /\ \A d \in ToSet(papers) : \E i \in 1..Len(papers) : papers[i] = d
  <2>1. papers \in Seq(Documents)
    BY <1>0, LinkedTargets
  <2>2. papers \in Seq(Targets)
    BY <2>1 DEF Targets
  <2>3. Target[2] = e
    BY <1>1
  <2>4. QED
    BY <1>0, <2>2, <2>3, PaperIsDocument
<1> HIDE DEF papers
<1>6. /\ Len(todo') = Len(papers) + (Len(todo) - 1) /\ Len(papers) \in Nat
      /\ \A i \in 1..(Len(papers) + (Len(todo) - 1)) :
           todo'[i] = IF i <= Len(papers) THEN papers[i] ELSE Tail(todo)[i - Len(papers)]
  BY <1>3, <1>5, ConcatProperties
<1>7. \A d \in ToSet(papers) : Queued(d)'
  <2> TAKE d \in ToSet(papers)
  <2>1. PICK i \in 1..Len(papers) : papers[i] = d
    BY <1>5
  <2>2. i \in 1..Len(todo') /\ todo'[i] = d
    BY <1>3, <1>6, <2>1
  <2>3. QED
    BY <2>2 DEF Queued
<1>8. \A u : Queued(u) /\ u # t => Queued(u)'
  <2> SUFFICES ASSUME NEW u, Queued(u), u # t
               PROVE  Queued(u)'
    OBVIOUS
  <2>1. PICK i \in 1..Len(todo) : todo[i] = u
    BY DEF Queued
  <2>2. i - 1 \in 1..(Len(todo) - 1) /\ Tail(todo)[i - 1] = u
    BY <1>3, <2>1
  <2>3. /\ Len(papers) + (i - 1) \in 1..(Len(papers) + (Len(todo) - 1))
        /\ ~(Len(papers) + (i - 1) <= Len(papers))
        /\ Len(papers) + (i - 1) - Len(papers) = i - 1
    BY <1>3, <1>6, <2>2
  <2>4. todo'[Len(papers) + (i - 1)] = u
    BY <1>6, <2>2, <2>3
  <2>5. QED
    BY <1>6, <2>3, <2>4 DEF Queued
<1>9. \A x \in Events : t = <<"event", x>> /\ v \in Usable =>
        \A d \in ToSet(Papers(x, v)) : Queued(d)'
  BY <1>7 DEF papers, t
<1>10. QED
  BY <1>0, <1>2, <1>4, <1>8, <1>9, Progress

(* A document read without an issue is settled.                            *)
LEMMA DocumentProgress ==
  ASSUME TypeInv, CaptureInv, PaperInv, QueueInv, AllCalled, ReadDocument \/ SkipDocument, ~issues'
  PROVE  AllCalled'
<1>p. PICK v : v = Source(Target)
  OBVIOUS
<1>0. /\ v \in Versions /\ Fetching(Documents) /\ Fetching(Targets)
      /\ Fetching(Details \cup Documents) /\ Receive(v) /\ UNCHANGED found
      /\ todo' = Tail(todo)
  BY <1>p, InHand DEF ReadDocument, SkipDocument, Targets, Fetching
<1>1. PICK t \in Documents : t = Target
  BY <1>0 DEF Fetching
<1>2. t \in Targets /\ Source(t) = v /\ \A e \in Events : t # <<"event", e>>
  BY <1>p, <1>1, Kinds DEF Targets, Details
<1>3. /\ t = todo[1] /\ Len(todo) \in Nat \ {0} /\ Len(Tail(todo)) = Len(todo) - 1
      /\ \A i \in 1..(Len(todo) - 1) : Tail(todo)[i] = todo[i + 1]
      /\ received \in [Targets -> Versions \cup {NoVersion}]
  BY <1>0, <1>1, InHand DEF TypeInv, TypeOK
<1>4. /\ Settled(t)'
      /\ UNCHANGED manifest \/ \E d \in Captures : Grown(d)
  <2>1. CASE ReadDocument
    <3> DEFINE c == Capture(t, "ok", v, Fields(t))
    <3>1. c \in Captures /\ c.target = t /\ c.status = "ok" /\ c.body = v
      <4>1. detail \in Versions
        BY <1>0, DocumentInHand
      <4>2. QED
        BY <1>0, <1>2, <4>1, CaptureTypes DEF Capture, Fields
    <3>2. /\ (Unmodified(t) /\ UNCHANGED manifest) \/ Store(c)
          /\ v \in Usable
      BY <1>p, <1>1, <2>1 DEF ReadDocument
    <3> HIDE DEF c
    <3>3. QED
      BY <1>0, <1>1, <1>2, <3>1, <3>2, ResponseSettles
  <2>2. CASE SkipDocument
    <3>1. Kind(t) = "attachment" /\ v \notin Usable /\ UNCHANGED manifest
      BY <1>p, <1>1, <2>2, Kinds DEF SkipDocument
    <3>2. received'[t] = v
      BY <1>0, <1>1, <1>2, <1>3 DEF Receive
    <3>3. QED
      BY <1>0, <3>1, <3>2 DEF Settled
  <2>3. QED
    BY <2>1, <2>2
<1>5. \A u : Queued(u) /\ u # t => Queued(u)'
  <2> SUFFICES ASSUME NEW u, Queued(u), u # t
               PROVE  Queued(u)'
    OBVIOUS
  <2>1. PICK i \in 1..Len(todo) : todo[i] = u
    BY DEF Queued
  <2>2. i - 1 \in 1..Len(todo') /\ todo'[i - 1] = u
    BY <1>0, <1>3, <2>1
  <2>3. QED
    BY <2>2 DEF Queued
<1>6. QED
  BY <1>0, <1>1, <1>2, <1>4, <1>5, Progress

(* With nothing queued, everything called for is settled.                  *)
LEMMA CalledIsSettled ==
  ASSUME TypeInv, AllCalled, todo = <<>>
  PROVE  \A t \in Called : Settled(t)
<1>1. \A t : ~Queued(t)
  BY DEF Queued
<1>2. \A p \in CalledPages : p \in Pages /\ Settled(p)
  BY <1>1 DEF AllCalled, CalledPages, Pages
<1>3. \A e \in CalledEvents : e \in found /\ e \in Events /\ Settled(<<"event", e>>)
  <2>1. SUFFICES ASSUME NEW e \in CalledEvents
                 PROVE  e \in found /\ e \in Events /\ Settled(<<"event", e>>)
    BY Zenon
  <2>2. PICK p \in CalledPages : received[p] \in Usable /\ e \in Listed[received[p]]
    BY DEF CalledEvents
  <2>3. e \in found
    BY <1>2, <2>2 DEF AllCalled
  <2>4. e \in Events
    BY <2>3 DEF TypeInv, TypeOK
  <2>5. QED
    BY <1>1, <2>3, <2>4 DEF AllCalled
<1>4. ASSUME NEW d \in CalledDocuments
      PROVE  Settled(d)
  <2>1. PICK e \in CalledEvents :
          /\ received[<<"event", e>>] \in Usable
          /\ d \in ToSet(Papers(e, received[<<"event", e>>]))
    BY <1>4 DEF CalledDocuments
  <2>2. QED
    BY <1>1, <1>3, <2>1 DEF AllCalled
<1>5. QED
  BY <1>2, <1>3, <1>4 DEF Called

(* Without an issue, nothing that is called for is lost.                   *)
LEMMA CallStep ==
  ASSUME TypeInv, CaptureInv, PaperInv, QueueInv, CallInv, [Next]_vars
  PROVE  CallInv'
<1>0. pc # "idle" => lastRun = "running"
  BY DEF CallInv
<1>1. CASE Start
  <2>1. /\ lastRun' = "running" /\ pc' = "fetching" /\ found' = {}
        /\ todo' = [n \in 1..MaxPages |-> <<"page", n - 1>>]
        /\ received' = [t \in Targets |-> NoVersion]
    BY <1>1 DEF Start
  <2>2. \A p \in Pages : Queued(p)' /\ p \in Targets
    <3>1. Len(todo') = MaxPages /\ \A i \in 1..MaxPages : todo'[i] = <<"page", i - 1>>
      BY <2>1, MaxPagesType
    <3>2. ASSUME NEW p \in Pages
          PROVE  Queued(p)'
      <4>1. PICK n \in 0..(MaxPages - 1) : p = <<"page", n>>
        BY DEF Pages
      <4>2. n + 1 \in 1..MaxPages /\ (n + 1) - 1 = n
        BY MaxPagesType
      <4>3. n + 1 \in 1..Len(todo') /\ todo'[n + 1] = p
        BY <3>1, <4>1, <4>2
      <4>4. QED
        BY <4>3 DEF Queued
    <3>3. QED
      BY <3>2 DEF Targets
  <2>3. <<"page", 0>> \in Pages
    BY MaxPagesType DEF Pages
  <2>4. \A t \in Targets : received'[t] \notin Usable
    BY <2>1, NoVersionIsNone, VersionSets
  <2>5. CalledPages' \subseteq Pages
    BY DEF CalledPages, Pages
  <2>6. \A e \in Events : <<"event", e>> \in Targets
    BY DEF Targets, Details
  <2>7. AllCalled'
    BY <2>2, <2>3, <2>4, <2>5, <2>6 DEF AllCalled
  <2>8. QED
    BY <2>1, <2>7 DEF CallInv, CompleteMeansCaptured
<1>2. ASSUME UNCHANGED lastRun, UNCHANGED pc, pc # "idle", ~issues' => AllCalled'
      PROVE  CallInv'
  BY <1>0, <1>2 DEF CallInv, CompleteMeansCaptured
<1>3. ASSUME UNCHANGED lastRun, pc' # "idle", pc # "idle", ~issues' => AllCalled'
      PROVE  CallInv'
  BY <1>0, <1>3 DEF CallInv, CompleteMeansCaptured
<1>4. CASE ReadPage
  <2>1. UNCHANGED <<lastRun, pc>> /\ pc # "idle" /\ (~issues' => ~issues)
    BY <1>4 DEF ReadPage, Fetching
  <2>2. QED
    BY <1>2, <1>4, <2>1, PageProgress DEF CallInv
<1>5. CASE CannotRead \/ \E f \in Failures : FetchFails(f)
  <2>1. UNCHANGED <<lastRun, pc>> /\ pc # "idle" /\ issues'
    BY <1>5 DEF CannotRead, FetchFails, Fetching
  <2>2. QED
    BY <1>2, <2>1
<1>6. CASE ReadEvent
  <2>1. UNCHANGED lastRun /\ pc' # "idle" /\ pc # "idle" /\ (~issues' => ~issues)
    BY <1>6 DEF ReadEvent, Fetching, CompareWithLatest
  <2>2. QED
    BY <1>3, <1>6, <2>1, EventProgress DEF CallInv
<1>7. CASE ReadDocument \/ SkipDocument
  <2>1. UNCHANGED lastRun /\ pc # "idle" /\ (~issues' => ~issues)
    <3>1. CASE ReadDocument
      BY <3>1 DEF ReadDocument, Fetching
    <3>2. CASE SkipDocument
      BY <3>2 DEF SkipDocument, Fetching
    <3>3. QED
      BY <1>7, <3>1, <3>2
  <2>2. pc' # "idle"
    <3>1. CASE ReadDocument
      BY <2>1, <3>1 DEF ReadDocument, CompareWithLatest
    <3>2. CASE SkipDocument
      BY <2>1, <3>2 DEF SkipDocument
    <3>3. QED
      BY <1>7, <3>1, <3>2
  <2>3. QED
    BY <1>3, <1>7, <2>1, <2>2, DocumentProgress DEF CallInv
<1>8. CASE Compare \/ UNCHANGED vars \/ \E t \in Targets, v \in Versions : Publish(t, v)
  <2>1. /\ UNCHANGED <<lastRun, manifest, todo, found, issues, received>>
        /\ pc' # "idle" <=> pc # "idle"
    BY <1>8 DEF Compare, vars, Publish
  <2>2. \A t : (Settled(t)' <=> Settled(t)) /\ (Queued(t)' <=> Queued(t))
    BY <2>1 DEF Settled, CapturedAs, Queued
  <2>3. /\ CalledPages' = CalledPages /\ Called' = Called
    BY <2>1 DEF CalledPages, Called, CalledEvents, CalledDocuments
  <2>4. AllCalled => AllCalled'
    BY <2>1, <2>2, <2>3 DEF AllCalled
  <2>5. CompleteMeansCaptured => CompleteMeansCaptured'
    BY <2>1, <2>2, <2>3 DEF CompleteMeansCaptured, Settled
  <2>6. QED
    BY <2>1, <2>4, <2>5 DEF CallInv
<1>9. CASE Finish
  <2>1. /\ pc' = "idle" /\ pc # "idle" /\ todo = <<>> /\ UNCHANGED <<manifest, received>>
        /\ lastRun' = "complete" => ~issues
    BY <1>9 DEF Finish
  <2>2. ASSUME ~issues, NEW t \in Called
        PROVE  Settled(t)
    BY <2>1, <2>2, CalledIsSettled DEF CallInv
  <2>3. Called' = Called
    BY <2>1 DEF CalledPages, Called, CalledEvents, CalledDocuments
  <2>4. CompleteMeansCaptured'
    BY <2>1, <2>2, <2>3 DEF CompleteMeansCaptured, Settled, CapturedAs
  <2>5. QED
    BY <2>1, <2>4 DEF CallInv
<1>10. CASE Die \/ DieCapturing \/ Refuse
  <2>1. pc' = "idle" /\ pc # "idle" /\ UNCHANGED lastRun
    BY <1>10 DEF Die, DieCapturing, Refuse, Fetching
  <2>2. QED
    BY <1>0, <2>1 DEF CallInv, CompleteMeansCaptured
<1>11. QED
  BY <1>1, <1>4, <1>5, <1>6, <1>7, <1>8, <1>9, <1>10 DEF Next, Step

(***************************************************************************)
(* The inductive invariant.                                                *)
(***************************************************************************)
CollectorInv == TypeInv /\ QueueInv /\ CaptureInv /\ ChangeInv /\ PaperInv /\ CallInv

(* The invariant holds before the first run.                               *)
LEMMA CollectorInit == Init => CollectorInv
<1> SUFFICES ASSUME Init
             PROVE  CollectorInv
  OBVIOUS
<1>1. TypeInv
  <2>1. \A t \in Targets : <<First[t]>> \in Seq(Versions) /\ <<First[t]>> # <<>>
    BY SourceType
  <2>2. served \in [Targets -> Seq(Versions)] /\ \A t \in Targets : served[t] # <<>>
    BY <2>1 DEF Init
  <2>3. <<"page", 0>> \in Targets
    BY MaxPagesType DEF Targets, Pages
  <2>4. before \in Captures /\ after \in Captures
    BY <2>3, CaptureTypes DEF Init
  <2>5. /\ manifest \in Seq(Captures) /\ todo \in Seq(Targets)
        /\ received \in [Targets -> Versions \cup {NoVersion}]
        /\ publications \in 0..MaxPublished /\ faults \in 0..MaxFaults
    BY Bounds DEF Init
  <2>6. QED
    BY <2>2, <2>4, <2>5 DEF Init, TypeInv, TypeOK
<1>2. QueueInv /\ CaptureInv
  BY DEF Init, QueueInv, CaptureInv, Queued
<1>3. ChangeInv
  BY DEF Init, ChangeInv, ContentChangesAreReal
<1>4. PaperInv
  BY DEF Init, PaperInv, DocumentsHaveEvents
<1>5. CallInv
  BY DEF Init, CallInv, CompleteMeansCaptured
<1>6. QED
  BY <1>1, <1>2, <1>3, <1>4, <1>5 DEF CollectorInv

(* What run_once queues, compares and logs stays in step with what the     *)
(* store holds and the source served, whenever a run fails or is killed.   *)
THEOREM CollectorInvariant == Spec => []CollectorInv
<1>1. CollectorInv /\ [Next]_vars => CollectorInv'
  BY TypeStep, QueueStep, CaptureStep, ChangeStep, PaperStep, CallStep DEF CollectorInv
<1>2. QED
  BY <1>1, CollectorInit, PTL DEF Spec

(* The types of the source, the store, the logs and the run in progress.   *)
THEOREM TypeCorrect == Spec => []TypeOK
<1>1. CollectorInv => TypeOK
  BY DEF CollectorInv, TypeInv
<1>2. QED
  BY <1>1, CollectorInvariant, PTL

(* Whatever the source replaces and however a run ends, a content change   *)
(* in the log (compare_document, append_change) is from a version to one   *)
(* the source served later.                                                *)
THEOREM ChangesHappened == Spec => []ContentChangesAreReal
<1>1. CollectorInv => ContentChangesAreReal
  BY DEF CollectorInv, ChangeInv
<1>2. QED
  BY <1>1, CollectorInvariant, PTL

(* Every agenda and attachment that run_once kept comes after the capture  *)
(* of an event that names it, with what that event says of it.             *)
THEOREM DocumentsAreExplained == Spec => []DocumentsHaveEvents
<1>1. CollectorInv => DocumentsHaveEvents
  BY DEF CollectorInv, PaperInv
<1>2. QED
  BY <1>1, CollectorInvariant, PTL

(* When run_once reports "complete", the store has the version the run     *)
(* received of every page, event and document it had to look at, the ones  *)
(* a 304 stands for included.                                              *)
THEOREM CompleteIsTrue == Spec => []CompleteMeansCaptured
<1>1. CollectorInv => CompleteMeansCaptured
  BY DEF CollectorInv, CallInv
<1>2. QED
  BY <1>1, CollectorInvariant, PTL

(***************************************************************************)
(* The record backfill (Backfill), which collects the same pages into the  *)
(* record store, beside the collector and the apply step.  What follows is *)
(* about an instance of its specification, of constants and variables of   *)
(* its own; where the two specifications share a name (Events, MaxPages,   *)
(* served, manifest, pc, ...) the symbol stands for the backfill's below.  *)
(***************************************************************************)
CONSTANTS
  Watched, ListedFirst, MaxVersion, Undated, Itemless, Paperless, PageSize, MaxDetails,
  MinRepeated, Matters, FirstMatters, MaxChanges, MaxRuns

VARIABLES
  listed, matters, db, page, seen, candidates, draft, known, matterStart, mattersOnly, aim,
  withdrawn, applying, loaded, head, runs

Fill == INSTANCE Backfill WITH First <- ListedFirst

(***************************************************************************)
(* Numbers and pages.                                                      *)
(***************************************************************************)

(* Counting means the same here and there. *)
LEMMA Counting ==
  ASSUME NEW S
  PROVE  /\ Fill!Cardinality(S) = Cardinality(S)
         /\ Fill!IsFiniteSet(S) <=> IsFiniteSet(S)
<1>1. Fill!Cardinality(S) = Cardinality(S)
  BY DEF Fill!Cardinality, Cardinality
<1>2. Fill!IsFiniteSet(S) <=> IsFiniteSet(S)
  BY DEF Fill!IsFiniteSet, IsFiniteSet
<1>3. QED
  BY <1>1, <1>2

(* What is assumed of the configuration. *)
LEMMA FillConstants ==
  ASSUME Fill!BackfillAssumption
  PROVE  /\ Events \subseteq Nat /\ IsFiniteSet(Events)
         /\ Watched \subseteq Events /\ ListedFirst \subseteq Events
         /\ Matters \subseteq Nat /\ IsFiniteSet(Matters) /\ FirstMatters \subseteq Matters
         /\ MaxVersion \in Nat \ {0} /\ PageSize \in Nat \ {0} /\ MaxPages \in Nat \ {0}
         /\ MaxDetails \in Nat
BY Counting DEF Fill!BackfillAssumption

(* The least and the greatest of a bounded set are members of it. *)
LEMMA FillEnds ==
  ASSUME NEW n \in Nat, NEW S \in SUBSET (1..n), S # {}
  PROVE  Fill!Min(S) \in S /\ Fill!Max(S) \in S
<1>1. \E m \in S : \A i \in S : m <= i
  BY Least
<1>2. Fill!Min(S) \in S
  BY <1>1 DEF Fill!Min
<1>3. PICK m \in S : \A i \in S : i <= m
  BY Greatest
<1>4. \A i \in S : m >= i
  BY <1>3
<1>5. Fill!Max(S) \in S
  BY <1>4 DEF Fill!Max
<1>6. QED
  BY <1>2, <1>5

(* Min and Max of two numbers. *)
LEMMA SmallerOf ==
  ASSUME NEW a \in Nat, NEW b \in Nat
  PROVE  /\ Fill!Min({a, b}) = IF a <= b THEN a ELSE b
         /\ Fill!Max({a, b}) = IF a <= b THEN b ELSE a
<1> DEFINE m == IF a <= b THEN a ELSE b
           M == IF a <= b THEN b ELSE a
<1>1. m \in {a, b} /\ (\A y \in {a, b} : m <= y)
        /\ \A x \in {a, b} : (\A y \in {a, b} : x <= y) => x = m
  OBVIOUS
<1>2. M \in {a, b} /\ (\A y \in {a, b} : M >= y)
        /\ \A x \in {a, b} : (\A y \in {a, b} : x >= y) => x = M
  OBVIOUS
<1> HIDE DEF m, M
<1>3. Fill!Min({a, b}) = m
  BY <1>1 DEF Fill!Min
<1>4. Fill!Max({a, b}) = M
  BY <1>2 DEF Fill!Max
<1>5. QED
  BY <1>3, <1>4 DEF m, M

(* A page has its size. *)
LEMMA PageBounds ==
  ASSUME NEW n \in Nat, PageSize \in Nat \ {0}
  PROVE  /\ n * PageSize \in Nat /\ (n + 1) * PageSize = n * PageSize + PageSize
         /\ Fill!Slice(n) = (n * PageSize + 1)..(n * PageSize + PageSize)
         /\ IsFiniteSet(Fill!Slice(n)) /\ Cardinality(Fill!Slice(n)) = PageSize
<1>1. n * PageSize \in Nat /\ (n + 1) * PageSize = n * PageSize + PageSize
  OBVIOUS
<1> DEFINE a == n * PageSize
<1>2. a \in Nat /\ Fill!Slice(n) = (a + 1)..(a + PageSize)
  BY <1>1 DEF Fill!Slice
<1> HIDE DEF a
<1>3. IsFiniteSet((a + 1)..(a + PageSize)) /\ Cardinality((a + 1)..(a + PageSize)) = PageSize
  BY <1>2, FS_Interval
<1>4. QED
  BY <1>1, <1>2, <1>3 DEF a

(* Places in a list of numbers: matters come upwards, events downwards. *)
Upwards == {p \in Nat \X Nat : p[1] <= p[2]}
Downwards == {p \in Nat \X Nat : p[1] >= p[2]}

Rank(order, S, e) == Cardinality({x \in S : <<x, e>> \in order})

Linear(order) ==
  /\ \A i, j \in Nat : <<i, j>> \in order \/ <<j, i>> \in order
  /\ \A i, j \in Nat : <<i, j>> \in order /\ <<j, i>> \in order => i = j
  /\ \A i, j, k \in Nat : <<i, j>> \in order /\ <<j, k>> \in order => <<i, k>> \in order

(* Numbers can be taken in both orders. *)
LEMMA OrdersAreLinear == Linear(Upwards) /\ Linear(Downwards)
BY DEF Linear, Upwards, Downwards

(* A place is the number of those that do not come later. *)
LEMMA PlaceIsRank ==
  ASSUME listed \in SUBSET Nat, matters \in SUBSET Nat
  PROVE  /\ \A e \in Nat : Fill!Place(e) = Rank(Downwards, listed, e)
         /\ \A m \in Nat : Fill!MatterPlace(m) = Rank(Upwards, matters, m)
<1>1. ASSUME NEW e \in Nat
      PROVE  Fill!Place(e) = Rank(Downwards, listed, e)
  <2>1. {x \in listed : x >= e} = {x \in listed : <<x, e>> \in Downwards}
    BY DEF Downwards
  <2>2. QED
    BY <2>1, Counting DEF Fill!Place, Rank
<1>2. ASSUME NEW m \in Nat
      PROVE  Fill!MatterPlace(m) = Rank(Upwards, matters, m)
  <2>1. {x \in matters : x <= m} = {x \in matters : <<x, m>> \in Upwards}
    BY DEF Upwards
  <2>2. QED
    BY <2>1, Counting DEF Fill!MatterPlace, Rank
<1>3. QED
  BY <1>1, <1>2

(* An earlier one has a lower place. *)
LEMMA RankOf ==
  ASSUME NEW order, Linear(order), NEW S \in SUBSET Nat, IsFiniteSet(S), NEW e \in S
  PROVE  /\ Rank(order, S, e) \in 1..Cardinality(S) /\ Cardinality(S) \in Nat
         /\ \A f \in S : f # e /\ <<f, e>> \in order => Rank(order, S, f) < Rank(order, S, e)
<1> DEFINE upTo(f) == {x \in S : <<x, f>> \in order}
<1>1. ASSUME NEW f \in S
      PROVE  IsFiniteSet(upTo(f)) /\ Cardinality(upTo(f)) \in Nat
               /\ Cardinality(upTo(f)) <= Cardinality(S)
  BY FS_Subset, FS_CardinalityType
<1>2. e \in upTo(e)
  BY DEF Linear
<1>3. Cardinality(upTo(e)) # 0
  BY <1>1, <1>2, FS_EmptySet
<1>4. Cardinality(S) \in Nat
  BY FS_CardinalityType
<1>5. ASSUME NEW f \in S, f # e, <<f, e>> \in order
      PROVE  Cardinality(upTo(f)) < Cardinality(upTo(e))
  <2>1. upTo(f) \in SUBSET upTo(e) /\ e \notin upTo(f)
    BY <1>5 DEF Linear
  <2>2. upTo(f) # upTo(e)
    BY <1>2, <2>1
  <2> HIDE DEF upTo
  <2>3. Cardinality(upTo(f)) <= Cardinality(upTo(e))
        /\ Cardinality(upTo(f)) # Cardinality(upTo(e))
    BY <1>1, <2>1, <2>2, FS_Subset
  <2>4. QED
    BY <1>1, <2>3
<1>6. QED
  BY <1>1, <1>3, <1>4, <1>5 DEF Rank

(* No two have the same place, *)
LEMMA RankDiffers ==
  ASSUME NEW order, Linear(order), NEW S \in SUBSET Nat, IsFiniteSet(S),
         NEW d \in S, NEW e \in S, d # e
  PROVE  Rank(order, S, d) # Rank(order, S, e)
<1>1. Rank(order, S, d) \in Nat /\ Rank(order, S, e) \in Nat
  BY RankOf
<1>2. <<d, e>> \in order \/ <<e, d>> \in order
  BY DEF Linear
<1>3. QED
  BY <1>1, <1>2, RankOf

(* and every place is taken. *)
LEMMA RankTaken ==
  ASSUME NEW order, Linear(order), NEW S \in SUBSET Nat, IsFiniteSet(S),
         NEW k \in 1..Cardinality(S)
  PROVE  \E e \in S : Rank(order, S, e) = k
<1> DEFINE N == Cardinality(S)
           f == [e \in S |-> Rank(order, S, e)]
<1>1. N \in Nat /\ IsFiniteSet(1..N) /\ Cardinality(1..N) = N
  BY FS_CardinalityType, FS_Interval
<1>2. f \in [S -> 1..N]
  BY RankOf
<1>3. \A d, e \in S : d # e => f[d] # f[e]
  BY RankDiffers
<1>4. f \in Injection(S, 1..N)
  BY <1>2, <1>3 DEF Injection, IsInjective
<1>5. f \in Surjection(S, 1..N)
  BY <1>1, <1>4, FS_Injection
<1>6. \A j \in 1..N : \E e \in S : f[e] = j
  BY <1>5 DEF Surjection
<1>7. QED
  BY <1>6

(* One that is published raises places, and one that is withdrawn lowers   *)
(* by one those behind it.                                                 *)
LEMMA RankMoves ==
  ASSUME NEW order, Linear(order), NEW S \in SUBSET Nat, IsFiniteSet(S),
         NEW x \in Nat, NEW e \in S
  PROVE  /\ Rank(order, S, e) <= Rank(order, S \cup {x}, e)
         /\ x \in S => Rank(order, S \ {x}, e) =
              IF <<x, e>> \in order THEN Rank(order, S, e) - 1 ELSE Rank(order, S, e)
<1> DEFINE upTo == {y \in S : <<y, e>> \in order}
<1>1. IsFiniteSet(upTo)
  BY FS_Subset
<1>2. Rank(order, S, e) <= Rank(order, S \cup {x}, e)
  <2> DEFINE more == {y \in S \cup {x} : <<y, e>> \in order}
  <2>1. upTo \in SUBSET more /\ more \in SUBSET (S \cup {x})
    OBVIOUS
  <2>2. IsFiniteSet(more)
    BY FS_AddElement, FS_Subset
  <2> HIDE DEF upTo, more
  <2>3. Cardinality(upTo) <= Cardinality(more)
    BY <2>1, <2>2, FS_Subset
  <2>4. QED
    BY <2>3 DEF Rank, upTo, more
<1>3. ASSUME x \in S
      PROVE  Rank(order, S \ {x}, e) =
               IF <<x, e>> \in order THEN Rank(order, S, e) - 1 ELSE Rank(order, S, e)
  <2>1. {y \in S \ {x} : <<y, e>> \in order} = upTo \ {x}
    OBVIOUS
  <2>2. x \in upTo <=> <<x, e>> \in order
    BY <1>3
  <2> HIDE DEF upTo
  <2>3. Cardinality(upTo \ {x}) = IF x \in upTo THEN Cardinality(upTo) - 1 ELSE Cardinality(upTo)
    BY <1>1, FS_RemoveElement
  <2>4. QED
    BY <2>1, <2>2, <2>3 DEF Rank, upTo
<1>4. QED
  BY <1>2, <1>3

(***************************************************************************)
(* Reading a list page by page while it changes.  Of what is wanted, lost  *)
(* is what was not read and is not on the places still to be read.         *)
(***************************************************************************)
Lost(order, S, read, wanted, n) ==
  {e \in wanted : e \notin read /\ ~(e \in S /\ Rank(order, S, e) > n)}

(* Nothing is lost by a publication. *)
LEMMA LosesNothing ==
  ASSUME NEW order, Linear(order), NEW S \in SUBSET Nat, IsFiniteSet(S), NEW x \in Nat,
         NEW read, NEW wanted, NEW n \in Nat
  PROVE  Lost(order, S \cup {x}, read, wanted, n) \subseteq Lost(order, S, read, wanted, n)
<1> SUFFICES ASSUME NEW e \in S, Rank(order, S, e) > n
             PROVE  Rank(order, S \cup {x}, e) > n
  BY DEF Lost
<1>1. IsFiniteSet(S \cup {x}) /\ S \cup {x} \in SUBSET Nat /\ e \in S \cup {x}
  BY FS_AddElement
<1>2. Rank(order, S, e) \in 1..Cardinality(S)
      /\ Rank(order, S \cup {x}, e) \in 1..Cardinality(S \cup {x})
  BY <1>1, RankOf
<1>3. Rank(order, S, e) <= Rank(order, S \cup {x}, e)
  BY RankMoves
<1>4. QED
  BY <1>2, <1>3

(* One at most is lost by a withdrawal: the one withdrawn, or the one that *)
(* moves to the last place that was read.                                  *)
LEMMA LosesOne ==
  ASSUME NEW order, Linear(order), NEW S \in SUBSET Nat, IsFiniteSet(S), NEW x \in S,
         NEW read, NEW wanted, IsFiniteSet(wanted), NEW n \in Nat
  PROVE  Cardinality(Lost(order, S \ {x}, read, wanted, n))
           <= Cardinality(Lost(order, S, read, wanted, n)) + 1
<1> DEFINE old == Lost(order, S, read, wanted, n)
           new == Lost(order, S \ {x}, read, wanted, n)
<1>1. old \in SUBSET wanted /\ new \in SUBSET wanted
  BY DEF Lost
<1>2. ASSUME NEW e \in new \ old
      PROVE  /\ e \in S /\ Rank(order, S, e) \in Nat /\ Rank(order, S, e) > n
             /\ e # x => <<x, e>> \in order /\ Rank(order, S, e) = n + 1
  <2>1. e \in S /\ Rank(order, S, e) > n /\ (e # x => ~(Rank(order, S \ {x}, e) > n))
    BY <1>2 DEF Lost
  <2>2. Rank(order, S, e) \in Nat
    BY <2>1, RankOf
  <2>3. Rank(order, S \ {x}, e) =
          IF <<x, e>> \in order THEN Rank(order, S, e) - 1 ELSE Rank(order, S, e)
    BY <2>1, RankMoves
  <2>4. QED
    BY <2>1, <2>2, <2>3
<1>3. ASSUME NEW d \in new \ old, NEW e \in new \ old
      PROVE  d = e
  <2>1. CASE d # x /\ e # x
    BY <1>2, <2>1, RankDiffers
  <2>2. ASSUME NEW y \in new \ old, y # x, x \in new \ old
        PROVE  FALSE
    <3>1. y \in S /\ <<x, y>> \in order /\ Rank(order, S, y) = n + 1
      BY <1>2, <2>2
    <3>2. Rank(order, S, x) \in Nat /\ Rank(order, S, x) > n
      BY <1>2, <2>2
    <3>3. Rank(order, S, x) < Rank(order, S, y)
      BY <2>2, <3>1, RankOf
    <3>4. QED
      BY <3>1, <3>2, <3>3
  <2>3. QED
    BY <2>1, <2>2
<1> HIDE DEF old, new
<1>4. PICK y : new \subseteq old \cup {y}
  BY <1>3
<1>5. IsFiniteSet(old) /\ IsFiniteSet(new)
  BY <1>1, FS_Subset
<1>6. IsFiniteSet(old \cup {y})
      /\ Cardinality(old \cup {y}) \in {Cardinality(old), Cardinality(old) + 1}
  BY <1>5, FS_AddElement
<1>7. Cardinality(new) <= Cardinality(old \cup {y})
  BY <1>4, <1>6, FS_Subset
<1>8. Cardinality(old) \in Nat /\ Cardinality(new) \in Nat
  BY <1>5, FS_CardinalityType
<1>9. QED
  BY <1>6, <1>7, <1>8 DEF old, new

(* So what a list has lost is covered by the withdrawals counted.          *)
LEMMA ListChanges ==
  ASSUME NEW order, Linear(order), NEW S \in SUBSET Nat, IsFiniteSet(S), NEW x \in Nat,
         NEW read, NEW wanted, IsFiniteSet(wanted), NEW n \in Nat, NEW count \in Nat,
         Cardinality(Lost(order, S, read, wanted, n)) <= count
  PROVE  /\ x \in S => Cardinality(Lost(order, S \ {x}, read, wanted, n)) <= count + 1
         /\ Cardinality(Lost(order, S \cup {x}, read, wanted, n)) <= count
<1>1. ASSUME NEW T
      PROVE  /\ IsFiniteSet(Lost(order, T, read, wanted, n))
             /\ Cardinality(Lost(order, T, read, wanted, n)) \in Nat
  <2>1. Lost(order, T, read, wanted, n) \in SUBSET wanted
    BY DEF Lost
  <2>2. QED
    BY <2>1, FS_Subset, FS_CardinalityType
<1>2. ASSUME x \in S
      PROVE  Cardinality(Lost(order, S \ {x}, read, wanted, n)) <= count + 1
  <2>1. Cardinality(Lost(order, S \ {x}, read, wanted, n))
          <= Cardinality(Lost(order, S, read, wanted, n)) + 1
    BY <1>2, LosesOne
  <2>2. QED
    BY <1>1, <2>1
<1>3. Cardinality(Lost(order, S \cup {x}, read, wanted, n)) <= count
  <2>1. Lost(order, S \cup {x}, read, wanted, n) \in SUBSET Lost(order, S, read, wanted, n)
    BY LosesNothing
  <2>2. Cardinality(Lost(order, S \cup {x}, read, wanted, n))
          <= Cardinality(Lost(order, S, read, wanted, n))
    BY <1>1, <2>1, FS_Subset
  <2>3. QED
    BY <1>1, <2>2
<1>4. QED
  BY <1>2, <1>3

(* Nothing is lost by reading a page, and after one that is not full       *)
(* nothing is to be read.                                                  *)
LEMMA ReadsPage ==
  ASSUME NEW order, Linear(order), NEW S \in SUBSET Nat, IsFiniteSet(S),
         NEW read, NEW wanted, NEW n \in Nat, PageSize \in Nat \ {0}, NEW rows,
         rows = {e \in S : Rank(order, S, e) \in Fill!Slice(n)}
  PROVE  /\ Lost(order, S, read \cup rows, wanted, (n + 1) * PageSize)
              \subseteq Lost(order, S, read, wanted, n * PageSize)
         /\ Cardinality(rows) < PageSize =>
              wanted \ (read \cup rows) \subseteq Lost(order, S, read, wanted, n * PageSize)
<1> DEFINE a == n * PageSize
<1>1. a \in Nat /\ (n + 1) * PageSize = a + PageSize
      /\ Fill!Slice(n) = (a + 1)..(a + PageSize) /\ Cardinality(Fill!Slice(n)) = PageSize
      /\ IsFiniteSet(Fill!Slice(n))
  BY PageBounds
<1> HIDE DEF a
<1>2. \A e \in S : Rank(order, S, e) \in 1..Cardinality(S) /\ Cardinality(S) \in Nat
  BY RankOf
<1>3. Lost(order, S, read \cup rows, wanted, a + PageSize)
        \subseteq Lost(order, S, read, wanted, a)
  <2> SUFFICES ASSUME NEW e \in S \ rows, Rank(order, S, e) > a
               PROVE  Rank(order, S, e) > a + PageSize
    BY DEF Lost
  <2>1. QED
    BY <1>1, <1>2
<1>4. ASSUME Cardinality(rows) < PageSize
      PROVE  wanted \ (read \cup rows) \subseteq Lost(order, S, read, wanted, a)
  <2>1. ASSUME NEW e \in S, Rank(order, S, e) > a + PageSize
        PROVE  FALSE
    <3> DEFINE f == [x \in rows |-> Rank(order, S, x)]
    <3>1. f \in [rows -> Fill!Slice(n)]
      OBVIOUS
    <3>2. \A k \in Fill!Slice(n) : \E x \in rows : f[x] = k
      <4> TAKE k \in Fill!Slice(n)
      <4>1. k \in 1..Cardinality(S)
        BY <1>1, <1>2, <2>1
      <4>2. PICK x \in S : Rank(order, S, x) = k
        BY <4>1, RankTaken
      <4>3. QED
        BY <4>2
    <3>3. f \in Surjection(rows, Fill!Slice(n))
      BY <3>1, <3>2 DEF Surjection
    <3>4. IsFiniteSet(rows)
      BY FS_Subset
    <3>5. Cardinality(Fill!Slice(n)) <= Cardinality(rows) /\ Cardinality(rows) \in Nat
      BY <3>3, <3>4, FS_Surjection, FS_CardinalityType
    <3>6. QED
      BY <1>1, <1>4, <3>5
  <2>2. ASSUME NEW e \in S \ rows, Rank(order, S, e) > a
        PROVE  FALSE
    BY <1>1, <1>2, <2>1, <2>2
  <2>3. QED
    BY <2>2 DEF Lost
<1>5. QED
  BY <1>1, <1>3, <1>4 DEF a

(* Descending lists every id and nothing else. *)
LEMMA DescendingIs ==
  ASSUME NEW ids \in SUBSET Nat, IsFiniteSet(ids)
  PROVE  LET s == Fill!Descending(ids)
         IN  /\ s \in [1..Cardinality(ids) -> ids] /\ Cardinality(ids) \in Nat
             /\ \A id \in ids : \E i \in DOMAIN s : s[i] = id
<1> DEFINE n == Cardinality(ids)
           s == Fill!Descending(ids)
<1>1. n \in Nat /\ IsFiniteSet(1..n) /\ Cardinality(1..n) = n
  BY FS_CardinalityType, FS_Interval
<1>2. PICK r : IsSorting(r, ids)
  BY SortingExists
<1> DEFINE d == [i \in 1..n |-> r[n + 1 - i]]
<1>3. d \in [1..n -> ids] /\ \A i, j \in DOMAIN d : i < j => d[i] > d[j]
  <2>1. r \in [1..n -> ids] /\ \A i, j \in 1..n : i < j => r[i] < r[j]
    BY <1>2 DEF IsSorting
  <2>2. \A i \in 1..n : n + 1 - i \in 1..n
    BY <1>1
  <2>3. d \in [1..n -> ids]
    BY <2>1, <2>2
  <2>4. ASSUME NEW i \in 1..n, NEW j \in 1..n, i < j
        PROVE  d[i] > d[j]
    <3>1. n + 1 - j < n + 1 - i
      BY <1>1, <2>4
    <3>2. r[n + 1 - j] < r[n + 1 - i]
      BY <2>1, <2>2, <3>1
    <3>3. QED
      BY <3>2
  <2>5. QED
    BY <2>3, <2>4
<1> HIDE DEF d, n
<1>4. s \in [1..n -> ids] /\ \A i, j \in DOMAIN s : i < j => s[i] > s[j]
  <2>1. Fill!Descending(ids) =
          CHOOSE q \in [1..n -> ids] : \A i, j \in DOMAIN q : i < j => q[i] > q[j]
    BY Counting DEF Fill!Descending, n
  <2>2. QED
    BY <1>3, <2>1
<1> HIDE DEF s
<1>5. \A i, j \in 1..n : i # j => s[i] # s[j]
  <2> TAKE i, j \in 1..n
  <2>1. s[i] \in Nat /\ s[j] \in Nat
    BY <1>4
  <2>2. i < j => s[i] > s[j]
    BY <1>4
  <2>3. j < i => s[j] > s[i]
    BY <1>4
  <2>4. QED
    BY <1>1, <2>1, <2>2, <2>3
<1>6. s \in Injection(1..n, ids)
  BY <1>4, <1>5 DEF Injection, IsInjective
<1>7. s \in Surjection(1..n, ids)
  BY <1>1, <1>6, FS_Injection DEF n
<1>8. QED
  BY <1>1, <1>4, <1>7 DEF Surjection, s, n

(***************************************************************************)
(* Rows.                                                                   *)
(***************************************************************************)
LEMMA EventRow ==
  ASSUME NEW row \in Fill!Rows, NEW v \in Fill!Versions
  PROVE  /\ Fill!EventSeen(row, v) \in Fill!Rows
         /\ Fill!EventSeen(row, v).items = row.items
         /\ Fill!EventSeen(row, v).papers = row.papers
         /\ v \notin Undated => Fill!EventSeen(row, v).date = v
<1>1. Fill!Kept(row.date, Fill!Date(v)) \in {0} \cup Fill!Versions
  BY DEF Fill!Rows, Fill!Kept, Fill!Date, Fill!Null
<1>2. v # 0
  BY DEF Fill!Versions
<1>3. v \notin Undated => Fill!Kept(row.date, Fill!Date(v)) = v
  BY <1>2 DEF Fill!Kept, Fill!Date, Fill!Null
<1>4. Fill!EventSeen(row, v) = [row EXCEPT !.date = Fill!Kept(row.date, Fill!Date(v))]
  BY DEF Fill!EventSeen
<1>5. QED
  BY <1>1, <1>3, <1>4 DEF Fill!Rows

(* What a detail leaves, and a whole one in particular. *)
LEMMA DetailRow ==
  ASSUME NEW row \in Fill!Rows, NEW u \in Fill!Versions, NEW v \in Fill!Versions
  PROVE  LET new == Fill!DetailSeen(row, u, v)
         IN  /\ new \in Fill!Rows
             /\ new.items \in {row.items, v}
             /\ v \in Fill!Whole => /\ new.items = v /\ new.papers = v
                                    /\ v \notin Undated => new.itemDate = new.date
<1> DEFINE event == Fill!EventSeen(row, v)
           date == Fill!ItemDate(u, v)
           items == [event EXCEPT !.items = v, !.itemDate = Fill!Kept(event.itemDate, date)]
           papers == IF v \in Paperless THEN items ELSE [items EXCEPT !.papers = v]
<1>1. /\ event \in Fill!Rows /\ event.items = row.items
      /\ v \notin Undated => event.date = v
  BY EventRow
<1>2. date \in {0} \cup Fill!Versions /\ (v \notin Undated => date = v) /\ v # 0
  BY DEF Fill!ItemDate, Fill!Date, Fill!Null, Fill!Versions
<1>3. Fill!DetailSeen(row, u, v) = IF v \in Itemless THEN event ELSE papers
  BY DEF Fill!DetailSeen, Fill!PapersSeen, Fill!ItemsSeen, Fill!Item
<1> HIDE DEF event, date
<1>4. /\ items \in Fill!Rows /\ items.items = v /\ items.date = event.date
      /\ v \notin Undated => items.itemDate = v
  BY <1>1, <1>2 DEF Fill!Rows, Fill!Kept, Fill!Null
<1> HIDE DEF items
<1>5. /\ papers \in Fill!Rows /\ papers.items = v /\ papers.date = event.date
      /\ v \notin Undated => papers.itemDate = v
      /\ v \notin Paperless => papers.papers = v
  BY <1>4 DEF Fill!Rows
<1> HIDE DEF papers
<1>6. QED
  BY <1>1, <1>3, <1>5 DEF Fill!Whole

(* What captures of an event leave. *)
LEMMA StatedIs ==
  ASSUME manifest \in Seq([event : Events, version : Fill!Versions]),
         NEW ps \in SUBSET (DOMAIN manifest), NEW silent, NEW old
  PROVE  \/ Fill!Stated(old, ps, silent) = old
         \/ \E p \in ps : Fill!Stated(old, ps, silent) = manifest[p].version
<1> DEFINE stating == {p \in ps : manifest[p].version \notin silent}
<1>1. CASE stating = {}
  BY <1>1 DEF Fill!Stated
<1>2. CASE stating # {}
  <2>1. stating \in SUBSET (1..Len(manifest)) /\ Len(manifest) \in Nat
    OBVIOUS
  <2>2. Fill!Stated(old, ps, silent) = manifest[Fill!Max(stating)].version
    BY <1>2 DEF Fill!Stated
  <2>3. stating \subseteq ps
    OBVIOUS
  <2> HIDE DEF stating
  <2>4. Fill!Max(stating) \in stating
    BY <1>2, <2>1, FillEnds
  <2>5. QED
    BY <2>2, <2>3, <2>4
<1>3. QED
  BY <1>1, <1>2

(* A row takes each of its values from a capture, or keeps it. *)
LEMMA CapturesRow ==
  ASSUME manifest \in Seq([event : Events, version : Fill!Versions]),
         NEW ps \in SUBSET (DOMAIN manifest), NEW row \in Fill!Rows
  PROVE  LET new == Fill!CapturesSeen(row, ps)
         IN  /\ new \in Fill!Rows
             /\ new.items = row.items \/ \E p \in ps : new.items = manifest[p].version
<1> DEFINE C == [event : Events, version : Fill!Versions]
<1>0. \A p \in DOMAIN manifest : manifest[p] \in C
  <2> HIDE DEF C
  <2>1. manifest \in Seq(C)
    BY DEF C
  <2>2. QED
    BY <2>1
<1>1. \A p \in ps : manifest[p].version \in Fill!Versions
  BY <1>0
<1>2. \A silent, old : \/ Fill!Stated(old, ps, silent) = old
                       \/ \E p \in ps : Fill!Stated(old, ps, silent) = manifest[p].version
  BY StatedIs
<1>3. \A silent : \A old \in {0} \cup Fill!Versions :
        Fill!Stated(old, ps, silent) \in {0} \cup Fill!Versions
  BY <1>1, <1>2
<1>4. /\ row.date \in {0} \cup Fill!Versions /\ row.items \in {0} \cup Fill!Versions
      /\ row.itemDate \in {0} \cup Fill!Versions /\ row.papers \in {0} \cup Fill!Versions
  BY DEF Fill!Rows
<1>5. Fill!CapturesSeen(row, ps) \in Fill!Rows
  BY <1>3, <1>4 DEF Fill!Rows, Fill!CapturesSeen
<1>6. Fill!CapturesSeen(row, ps).items = Fill!Stated(row.items, ps, Itemless)
  BY DEF Fill!CapturesSeen
<1>7. QED
  BY <1>2, <1>5, <1>6

(***************************************************************************)
(* The inductive invariant.                                                *)
(***************************************************************************)
FillCaptures == [event : Events, version : Fill!Versions]

Candidates == [event : Watched, version : Fill!Versions]

FillTables ==
  [rows : [Events -> Fill!Rows], applied : SUBSET (DOMAIN manifest), matters : SUBSET Matters]

FillTypes ==
  /\ listed \subseteq Events /\ served \in [Events -> Fill!Versions]
  /\ matters \subseteq Matters
  /\ sealed \in BOOLEAN /\ torn \subseteq {Fill!Page} \cup (Events \X Fill!Versions)
  /\ manifest \in Seq(FillCaptures)
  /\ db \in FillTables /\ draft \in FillTables
  /\ pc \in {"idle", "matters", "events", "details", "record"}
  /\ page \in Nat /\ (page <= MaxPages \/ page <= MaxDetails)
  /\ pc \in {"matters", "events"} => page < MaxPages
  /\ seen \subseteq Events /\ candidates \in Seq(Candidates)
  /\ pc = "details" => page <= Len(candidates)
  /\ known \subseteq DOMAIN manifest
  /\ lastRun \in {"none", "complete", "incomplete"}
  /\ loaded \in 0..Len(manifest) /\ head \in 0..loaded
  /\ issues \in BOOLEAN /\ matterStart \in Nat /\ matterStart < MaxPages
  /\ aim \in [listed : SUBSET Events, served : [Events -> Fill!Versions],
              matters : SUBSET Matters]
  /\ withdrawn \in [matters : Nat, events : Nat]

(* Nothing is newer than what the city serves,                             *)
NothingNewer ==
  /\ \A p \in DOMAIN manifest : manifest[p].version <= served[manifest[p].event]
  /\ \A e \in Events : db.rows[e].items <= served[e] /\ draft.rows[e].items <= served[e]
  /\ \A i \in DOMAIN candidates : candidates[i].version <= served[candidates[i].event]
  /\ \A e \in Events : aim.served[e] <= served[e]

(* and nothing that waits to be committed older than what it replaces.     *)
NothingOlder == Fill!Locked => \A e \in Events : draft.rows[e].items >= db.rows[e].items

(* What a run without issues has lost of the matters, which it stores page *)
(* by page,                                                                *)
MattersRead ==
  /\ pc = "matters" => page >= matterStart
  /\ ~issues /\ pc = "matters" =>
       Cardinality(Lost(Upwards, matters, Fill!Tables.matters, aim.matters, page * PageSize))
         <= withdrawn.matters
  /\ ~issues /\ pc \in {"events", "details"} =>
       Cardinality(aim.matters \ draft.matters) <= withdrawn.matters

(* has lost of the events and seen of them,                                *)
EventsDone == IF pc = "events" THEN page * PageSize ELSE 0

EventsRead ==
  /\ pc \in {"idle", "matters"} => seen = {} /\ candidates = <<>>
  /\ \A e \in seen \cap Watched : \E i \in DOMAIN candidates :
       candidates[i].event = e /\ candidates[i].version >= aim.served[e]
  /\ ~issues /\ pc \in {"matters", "events"} =>
       Cardinality(Lost(Downwards, listed, seen, aim.listed, EventsDone)) <= withdrawn.events
  /\ ~mattersOnly /\ ~issues /\ pc = "details" =>
       Cardinality(aim.listed \ seen) <= withdrawn.events

(* and has stored of their details.                                        *)
StoredWhole(row, version) ==
  /\ row.items >= version /\ row.papers = row.items
  /\ row.items \notin Undated => row.itemDate = row.date

DetailsRead ==
  ~issues /\ pc = "details" =>
    \A i \in 1..page : StoredWhole(draft.rows[candidates[i].event], candidates[i].version)

FillInv ==
  FillTypes /\ NothingNewer /\ NothingOlder /\ MattersRead /\ EventsRead /\ DetailsRead

(* The invariant holds at the beginning. *)
LEMMA FillInit == ASSUME Fill!BackfillAssumption, Fill!Init PROVE FillInv
<1>1. MaxVersion \in Nat \ {0} /\ MaxPages \in Nat \ {0} /\ MaxDetails \in Nat
      /\ ListedFirst \subseteq Events
  BY FillConstants
<1>2. 1 \in Fill!Versions /\ 0 \in {0} \cup Fill!Versions
  BY <1>1 DEF Fill!Versions
<1>3. Fill!Empty \in FillTables
  BY <1>2 DEF Fill!Empty, FillTables, Fill!Rows
<1>4. /\ listed = ListedFirst /\ served = [e \in Events |-> 1]
      /\ matters = FirstMatters /\ manifest = <<>> /\ sealed = TRUE /\ torn = {}
      /\ db = Fill!Empty /\ draft = Fill!Empty
      /\ pc = "idle" /\ page = 0 /\ seen = {} /\ candidates = <<>> /\ issues = FALSE
      /\ known = {} /\ matterStart = 0
      /\ aim = [listed |-> {}, served |-> served, matters |-> {}]
      /\ withdrawn = [matters |-> 0, events |-> 0]
      /\ lastRun = "none" /\ loaded = 0 /\ head = 0
  BY DEF Fill!Init
<1>5. FillTypes
  <2>1. served \in [Events -> Fill!Versions]
    BY <1>2, <1>4
  <2>2. /\ aim \in [listed : SUBSET Events, served : [Events -> Fill!Versions],
                   matters : SUBSET Matters]
        /\ withdrawn \in [matters : Nat, events : Nat]
    BY <1>4, <2>1
  <2>3. manifest \in Seq(FillCaptures) /\ candidates \in Seq(Candidates) /\ Len(manifest) = 0
    BY <1>4
  <2>4. page \in Nat /\ page <= MaxPages /\ matterStart \in Nat /\ matterStart < MaxPages
    BY <1>1, <1>4
  <2>5. db \in FillTables /\ draft \in FillTables
    BY <1>3, <1>4
  <2>6. 0 \in 0..Len(manifest) /\ loaded = 0 /\ head = 0
    BY <1>4
  <2>7. /\ listed \subseteq Events /\ matters \subseteq Matters /\ sealed = TRUE /\ torn = {}
        /\ pc = "idle" /\ seen = {} /\ known = {} /\ lastRun = "none" /\ issues = FALSE
    BY <1>1, <1>4, FillConstants
  <2> HIDE <1>4
  <2>8. QED
    BY <2>1, <2>2, <2>3, <2>4, <2>5, <2>6, <2>7 DEF FillTypes
<1>6. NothingNewer
  BY <1>4 DEF NothingNewer, Fill!Empty
<1>7. NothingOlder /\ MattersRead /\ EventsRead /\ DetailsRead
  BY <1>4 DEF NothingOlder, Fill!Locked, MattersRead, EventsRead, DetailsRead
<1>8. QED
  BY <1>5, <1>6, <1>7 DEF FillInv

(* The captures there are. *)
LEMMA FillManifest ==
  ASSUME FillTypes
  PROVE  /\ Len(manifest) \in Nat /\ DOMAIN manifest = 1..Len(manifest)
         /\ \A p \in DOMAIN manifest : manifest[p] \in FillCaptures
         /\ Len(candidates) \in Nat /\ DOMAIN candidates = 1..Len(candidates)
         /\ \A i \in DOMAIN candidates : candidates[i] \in Candidates
BY DEF FillTypes

(* Versions can be compared. *)
LEMMA VersionsAreNumbers ==
  ASSUME Fill!BackfillAssumption, FillTypes
  PROVE  /\ Fill!Versions \subseteq Nat \ {0} /\ PageSize \in Nat \ {0}
         /\ \A e \in Events : /\ served[e] \in Nat /\ aim.served[e] \in Nat
                              /\ db.rows[e] \in Fill!Rows /\ draft.rows[e] \in Fill!Rows
                              /\ db.rows[e].items \in Nat /\ draft.rows[e].items \in Nat
<1>1. Fill!Versions \subseteq Nat \ {0} /\ PageSize \in Nat \ {0}
  BY FillConstants DEF Fill!Versions
<1>2. ASSUME NEW e \in Events
      PROVE  db.rows[e] \in Fill!Rows /\ draft.rows[e] \in Fill!Rows
  BY DEF FillTypes, FillTables
<1>3. ASSUME NEW e \in Events
      PROVE  db.rows[e].items \in Nat /\ draft.rows[e].items \in Nat
  <2>1. \A row \in Fill!Rows : row.items \in {0} \cup Fill!Versions
    BY DEF Fill!Rows
  <2>2. {0} \cup Fill!Versions \subseteq Nat
    BY <1>1
  <2>3. QED
    BY <1>2, <2>1, <2>2
<1>4. ASSUME NEW e \in Events
      PROVE  served[e] \in Nat /\ aim.served[e] \in Nat
  BY <1>1 DEF FillTypes
<1>5. QED
  BY <1>1, <1>2, <1>3, <1>4

(***************************************************************************)
(* The steps of others.                                                    *)
(***************************************************************************)

(* What the lists and the aims are. *)
LEMMA ListsAre ==
  ASSUME Fill!BackfillAssumption, FillInv
  PROVE  /\ listed \in SUBSET Nat /\ IsFiniteSet(listed)
         /\ matters \in SUBSET Nat /\ IsFiniteSet(matters)
         /\ IsFiniteSet(aim.listed) /\ IsFiniteSet(aim.matters)
         /\ withdrawn.matters \in Nat /\ withdrawn.events \in Nat
         /\ page * PageSize \in Nat /\ EventsDone \in Nat
<1>1. /\ listed \in SUBSET Events /\ aim.listed \in SUBSET Events
      /\ matters \in SUBSET Matters /\ aim.matters \in SUBSET Matters
      /\ withdrawn.matters \in Nat /\ withdrawn.events \in Nat /\ page \in Nat
  BY DEF FillInv, FillTypes
<1>2. page * PageSize \in Nat
  BY <1>1, FillConstants, PageBounds
<1>3. QED
  BY <1>1, <1>2, FillConstants, FS_Subset DEF EventsDone

(* What a run has read does not depend on the other programs. *)
LEMMA ReadKept ==
  ASSUME FillInv,
         UNCHANGED <<listed, matters, pc, page, seen, candidates, issues, draft, matterStart,
                     mattersOnly, aim, withdrawn>>,
         db'.matters = db.matters
  PROVE  (MattersRead /\ EventsRead /\ DetailsRead)'
<1>1. Fill!Tables.matters' = Fill!Tables.matters
  BY DEF Fill!Tables, Fill!Locked
<1>2. MattersRead'
  BY <1>1 DEF FillInv, MattersRead
<1>3. EventsRead' /\ DetailsRead'
  BY DEF FillInv, EventsRead, EventsDone, DetailsRead, StoredWhole
<1>4. QED
  BY <1>2, <1>3

(* The city replaces, publishes or withdraws. *)
LEMMA CityEffect ==
  ASSUME Fill!BackfillAssumption, FillInv, Fill!Change
  PROVE  /\ UNCHANGED <<manifest, sealed, torn, db, pc, page, seen, candidates, issues, draft,
                        known, matterStart, mattersOnly, aim, lastRun, loaded, head>>
         /\ served' \in [Events -> Fill!Versions] /\ \A e \in Events : served'[e] >= served[e]
         /\ listed' \subseteq Events /\ matters' \subseteq Matters
         /\ withdrawn' \in [matters : Nat, events : Nat]
         /\ \/ UNCHANGED <<listed, matters, withdrawn>>
            \/ UNCHANGED matters /\ \E e \in Events : Fill!PublishOrWithdraw(e)
            \/ UNCHANGED listed /\ \E m \in Matters : Fill!PublishOrWithdrawMatter(m)
<1>1. UNCHANGED <<manifest, sealed, torn, db, pc, page, seen, candidates, issues, draft, known,
                  matterStart, mattersOnly, aim, lastRun, loaded, head>>
  BY DEF Fill!Change, Fill!apply, Fill!files
<1>2. /\ \A e \in Events : served[e] \in Nat
      /\ served \in [Events -> Fill!Versions]
      /\ matters \subseteq Matters /\ listed \subseteq Events
      /\ withdrawn \in [matters : Nat, events : Nat]
  BY VersionsAreNumbers DEF FillInv, FillTypes
<1>3. CASE \E e \in Events : Fill!Replace(e)
  <2>1. PICK e \in Events : Fill!Replace(e)
    BY <1>3
  <2>2. /\ served' = [served EXCEPT ![e] = @ + 1] /\ served[e] < MaxVersion
        /\ UNCHANGED <<listed, matters, withdrawn>>
    BY <2>1 DEF Fill!Replace
  <2>3. served[e] \in 1..MaxVersion /\ MaxVersion \in Nat
    BY FillConstants DEF FillInv, FillTypes, Fill!Versions
  <2>4. served[e] + 1 \in Fill!Versions
    BY <2>2, <2>3 DEF Fill!Versions
  <2>5. QED
    BY <1>1, <1>2, <2>2, <2>4
<1>4. CASE \E e \in Events : Fill!PublishOrWithdraw(e)
  <2>1. PICK e \in Events : Fill!PublishOrWithdraw(e)
    BY <1>4
  <2>2. /\ listed' = IF e \in listed THEN listed \ {e} ELSE listed \cup {e}
        /\ withdrawn' = IF e \in listed /\ pc \in {"matters", "events"}
                        THEN [withdrawn EXCEPT !.events = @ + 1] ELSE withdrawn
        /\ UNCHANGED <<served, matters>>
    BY <2>1 DEF Fill!PublishOrWithdraw
  <2>3. listed' \subseteq Events /\ withdrawn' \in [matters : Nat, events : Nat]
    BY <1>2, <2>2
  <2>4. QED
    BY <1>1, <1>2, <2>1, <2>2, <2>3
<1>5. CASE \E m \in Matters : Fill!PublishOrWithdrawMatter(m)
  <2>1. PICK m \in Matters : Fill!PublishOrWithdrawMatter(m)
    BY <1>5
  <2>2. /\ matters' = IF m \in matters THEN matters \ {m} ELSE matters \cup {m}
        /\ withdrawn' = IF m \in matters /\ pc = "matters"
                        THEN [withdrawn EXCEPT !.matters = @ + 1] ELSE withdrawn
        /\ UNCHANGED <<listed, served>>
    BY <2>1 DEF Fill!PublishOrWithdrawMatter
  <2>3. matters' \subseteq Matters /\ withdrawn' \in [matters : Nat, events : Nat]
    BY <1>2, <2>2
  <2>4. QED
    BY <1>1, <1>2, <2>1, <2>2, <2>3
<1>6. QED
  BY <1>3, <1>4, <1>5 DEF Fill!Change

(* A withdrawal is counted as long as the list is read. *)
LEMMA CityLoses ==
  ASSUME Fill!BackfillAssumption, FillInv, Fill!Change
  PROVE  MattersRead' /\ EventsRead'
<1>1. UNCHANGED <<manifest, db, pc, page, seen, candidates, issues, draft, matterStart,
                  mattersOnly, aim>>
  BY CityEffect
<1>2. Fill!Tables' = Fill!Tables /\ EventsDone' = EventsDone
  BY <1>1 DEF Fill!Tables, Fill!Locked, EventsDone
<1> DEFINE LostMatters(S) ==
             Cardinality(Lost(Upwards, S, Fill!Tables.matters, aim.matters, page * PageSize))
           LostEvents(S) ==
             Cardinality(Lost(Downwards, S, seen, aim.listed, EventsDone))
<1>3. CASE UNCHANGED <<listed, matters, withdrawn>>
  BY <1>1, <1>3, ReadKept
<1>4. CASE UNCHANGED matters /\ \E e \in Events : Fill!PublishOrWithdraw(e)
  <2>1. PICK e \in Events : Fill!PublishOrWithdraw(e)
    BY <1>4
  <2>2. /\ listed' = IF e \in listed THEN listed \ {e} ELSE listed \cup {e}
        /\ withdrawn' = IF e \in listed /\ pc \in {"matters", "events"}
                        THEN [withdrawn EXCEPT !.events = @ + 1] ELSE withdrawn
    BY <2>1 DEF Fill!PublishOrWithdraw
  <2>3. withdrawn'.matters = withdrawn.matters
        /\ withdrawn'.events = IF e \in listed /\ pc \in {"matters", "events"}
                               THEN withdrawn.events + 1 ELSE withdrawn.events
    BY <2>2 DEF FillInv, FillTypes
  <2>4. ASSUME ~issues, pc \in {"matters", "events"}
        PROVE  LostEvents(listed') <= withdrawn'.events
    <3>1. LostEvents(listed) <= withdrawn.events
      BY <2>4 DEF FillInv, EventsRead
    <3>2. /\ listed \in SUBSET Nat /\ IsFiniteSet(listed) /\ IsFiniteSet(aim.listed)
          /\ withdrawn.events \in Nat /\ EventsDone \in Nat
      BY ListsAre
    <3>3. e \in Nat
      BY FillConstants
    <3>4. /\ e \in listed => LostEvents(listed \ {e}) <= withdrawn.events + 1
          /\ LostEvents(listed \cup {e}) <= withdrawn.events
      BY <3>1, <3>2, <3>3, OrdersAreLinear, ListChanges
    <3> HIDE DEF LostEvents
    <3>5. QED
      BY <2>2, <2>3, <2>4, <3>4
  <2>5. MattersRead'
    BY <1>1, <1>2, <1>4, <2>3 DEF FillInv, MattersRead
  <2>6. ~issues /\ pc \in {"matters", "events"} => LostEvents(listed') <= withdrawn'.events
    BY <2>4
  <2>7. EventsRead'
    BY <1>1, <1>2, <2>3, <2>6 DEF FillInv, EventsRead
  <2>8. QED
    BY <2>5, <2>7
<1>5. CASE UNCHANGED listed /\ \E m \in Matters : Fill!PublishOrWithdrawMatter(m)
  <2>1. PICK m \in Matters : Fill!PublishOrWithdrawMatter(m)
    BY <1>5
  <2>2. /\ matters' = IF m \in matters THEN matters \ {m} ELSE matters \cup {m}
        /\ withdrawn' = IF m \in matters /\ pc = "matters"
                        THEN [withdrawn EXCEPT !.matters = @ + 1] ELSE withdrawn
    BY <2>1 DEF Fill!PublishOrWithdrawMatter
  <2>3. withdrawn'.events = withdrawn.events
        /\ withdrawn'.matters = IF m \in matters /\ pc = "matters"
                                THEN withdrawn.matters + 1 ELSE withdrawn.matters
    BY <2>2 DEF FillInv, FillTypes
  <2>4. ASSUME ~issues, pc = "matters"
        PROVE  LostMatters(matters') <= withdrawn'.matters
    <3>1. LostMatters(matters) <= withdrawn.matters
      BY <2>4 DEF FillInv, MattersRead
    <3>2. /\ matters \in SUBSET Nat /\ IsFiniteSet(matters) /\ IsFiniteSet(aim.matters)
          /\ withdrawn.matters \in Nat /\ page * PageSize \in Nat
      BY ListsAre
    <3>3. m \in Nat
      BY FillConstants
    <3>4. /\ m \in matters => LostMatters(matters \ {m}) <= withdrawn.matters + 1
          /\ LostMatters(matters \cup {m}) <= withdrawn.matters
      BY <3>1, <3>2, <3>3, OrdersAreLinear, ListChanges
    <3> HIDE DEF LostMatters
    <3>5. QED
      BY <2>2, <2>3, <2>4, <3>4
  <2>5. ~issues /\ pc = "matters" => LostMatters(matters') <= withdrawn'.matters
    BY <2>4
  <2>6. MattersRead'
    BY <1>1, <1>2, <2>3, <2>5 DEF FillInv, MattersRead
  <2>7. EventsRead'
    BY <1>1, <1>2, <1>5, <2>3 DEF FillInv, EventsRead
  <2>8. QED
    BY <2>6, <2>7
<1>6. QED
  BY <1>3, <1>4, <1>5, CityEffect

(* The city changes. *)
LEMMA CityStep ==
  ASSUME Fill!BackfillAssumption, FillInv, Fill!Change
  PROVE  FillInv'
<1>1. UNCHANGED <<manifest, sealed, torn, db, pc, page, seen, candidates, issues, draft, known,
                  matterStart, mattersOnly, aim, lastRun, loaded, head>>
  BY CityEffect
<1>2. /\ served' \in [Events -> Fill!Versions]
      /\ \A e \in Events : served'[e] >= served[e]
      /\ matters' \subseteq Matters /\ listed' \subseteq Events
      /\ withdrawn' \in [matters : Nat, events : Nat]
  BY CityEffect
<1>3. FillTypes'
  <2>1. FillTables' = FillTables
    BY <1>1 DEF FillTables
  <2>2. QED
    BY <1>1, <1>2, <2>1 DEF FillInv, FillTypes
<1>4. NothingNewer'
  <2>1. \A e \in Events : served[e] \in Nat /\ served'[e] \in Nat
    BY <1>2, FillConstants, VersionsAreNumbers DEF FillInv, Fill!Versions
  <2>2. \A p \in DOMAIN manifest : manifest[p].event \in Events /\ manifest[p].version \in Nat
    BY FillManifest, VersionsAreNumbers DEF FillInv, FillCaptures
  <2>3. \A i \in DOMAIN candidates : candidates[i].event \in Events /\ candidates[i].version \in Nat
    BY FillManifest, FillConstants, VersionsAreNumbers DEF FillInv, Candidates
  <2>4. /\ \A p \in DOMAIN manifest : manifest[p].version <= served'[manifest[p].event]
        /\ \A i \in DOMAIN candidates : candidates[i].version <= served'[candidates[i].event]
    <3>1. \A e \in Events : \A v \in Nat : v <= served[e] => v <= served'[e]
      BY <1>2, <2>1
    <3>2. QED
      BY <2>2, <2>3, <3>1 DEF FillInv, NothingNewer
  <2>5. /\ \A e \in Events : db.rows[e].items <= served'[e] /\ draft.rows[e].items <= served'[e]
        /\ \A e \in Events : aim.served[e] <= served'[e]
    BY <1>2, <2>1, VersionsAreNumbers DEF FillInv, NothingNewer
  <2>6. QED
    BY <1>1, <2>4, <2>5 DEF NothingNewer
<1>5. NothingOlder' /\ DetailsRead'
  BY <1>1 DEF FillInv, NothingOlder, Fill!Locked, DetailsRead, StoredWhole
<1>6. MattersRead' /\ EventsRead'
  BY CityLoses
<1>7. QED
  BY <1>3, <1>4, <1>5, <1>6 DEF FillInv

(* Tables keep their type as captures are added. *)
LEMMA TablesGrow ==
  ASSUME DOMAIN manifest \subseteq DOMAIN manifest'
  PROVE  FillTables \subseteq FillTables'
<1>1. SUBSET (DOMAIN manifest) \subseteq SUBSET (DOMAIN manifest')
  OBVIOUS
<1>2. QED
  BY <1>1 DEF FillTables

(* A capture of what is served leaves the captures right. *)
LEMMA ManifestGrows ==
  ASSUME Fill!BackfillAssumption, FillInv, UNCHANGED served,
         \/ UNCHANGED manifest
         \/ \E e \in Events : manifest' = Append(manifest, [event |-> e, version |-> served[e]])
  PROVE  /\ manifest' \in Seq(FillCaptures)
         /\ DOMAIN manifest \subseteq DOMAIN manifest' /\ Len(manifest') \in Nat
         /\ 0..Len(manifest) \subseteq 0..Len(manifest')
         /\ \A p \in DOMAIN manifest' : manifest'[p].version <= served[manifest'[p].event]
<1>1. manifest \in Seq(FillCaptures) /\ Len(manifest) \in Nat
      /\ DOMAIN manifest = 1..Len(manifest)
      /\ \A p \in DOMAIN manifest : manifest[p].version <= served[manifest[p].event]
  BY FillManifest DEF FillInv, FillTypes, NothingNewer
<1>2. CASE UNCHANGED manifest
  BY <1>1, <1>2
<1>3. CASE \E e \in Events : manifest' = Append(manifest, [event |-> e, version |-> served[e]])
  <2>1. PICK e \in Events : manifest' = Append(manifest, [event |-> e, version |-> served[e]])
    BY <1>3
  <2> DEFINE c == [event |-> e, version |-> served[e]]
  <2>2. c \in FillCaptures /\ c.version <= served[c.event]
    <3>1. served[e] \in Fill!Versions /\ served[e] \in Nat
      BY VersionsAreNumbers DEF FillInv, FillTypes
    <3>2. QED
      BY <3>1 DEF FillCaptures
  <2> HIDE DEF c
  <2>3. manifest' = Append(manifest, c)
    BY <2>1 DEF c
  <2>4. /\ manifest' \in Seq(FillCaptures) /\ Len(manifest') = Len(manifest) + 1
        /\ manifest'[Len(manifest) + 1] = c
    <3>1. manifest \in Seq(FillCaptures) /\ c \in FillCaptures
      BY <1>1, <2>2
    <3>2. /\ Append(manifest, c) \in Seq(FillCaptures)
          /\ Len(Append(manifest, c)) = Len(manifest) + 1
          /\ Append(manifest, c)[Len(manifest) + 1] = c
      BY <3>1, AppendProperties
    <3>3. QED
      BY <2>3, <3>2
  <2>5. \A p \in 1..Len(manifest) : manifest'[p] = manifest[p]
    <3>1. manifest \in Seq(FillCaptures) /\ c \in FillCaptures
      BY <1>1, <2>2
    <3>2. \A p \in 1..Len(manifest) : Append(manifest, c)[p] = manifest[p]
      BY <3>1, AppendProperties
    <3>3. QED
      BY <2>3, <3>2
  <2>6. DOMAIN manifest' = 1..(Len(manifest) + 1)
    BY <1>1, <2>4
  <2>7. \A p \in DOMAIN manifest' : manifest'[p].version <= served[manifest'[p].event]
    BY <1>1, <2>2, <2>4, <2>5, <2>6
  <2>8. DOMAIN manifest \subseteq DOMAIN manifest' /\ 0..Len(manifest) \subseteq 0..Len(manifest')
        /\ Len(manifest') \in Nat
    BY <1>1, <2>4, <2>6
  <2>9. QED
    BY <2>4, <2>7, <2>8
<1>4. QED
  BY <1>2, <1>3

(* What a kill inside capture leaves. *)
LEMMA CutEffect ==
  ASSUME Fill!BackfillAssumption, FillInv, UNCHANGED served,
         NEW es \in SUBSET Events, Fill!CutShort(es)
  PROVE  /\ sealed' \in BOOLEAN /\ torn' \subseteq {Fill!Page} \cup (Events \X Fill!Versions)
         /\ \/ UNCHANGED manifest
            \/ \E e \in Events :
                 manifest' = Append(manifest, [event |-> e, version |-> served[e]])
<1>1. /\ sealed \in BOOLEAN /\ torn \subseteq {Fill!Page} \cup (Events \X Fill!Versions)
      /\ \A e \in Events : <<e, served[e]>> \in Events \X Fill!Versions
  BY DEF FillInv, FillTypes
<1>2. CASE sealed' = FALSE /\ UNCHANGED <<manifest, torn>>
  BY <1>1, <1>2
<1>3. CASE /\ torn' \in {torn \cup {b} : b \in {Fill!Page} \cup
                          {<<e, served[e]>> : e \in {x \in es : Fill!Uncaptured(x)}}}
           /\ UNCHANGED <<manifest, sealed>>
  BY <1>1, <1>3
<1>4. CASE /\ sealed' = FALSE /\ UNCHANGED torn
           /\ \E e \in es : manifest' = Append(manifest, [event |-> e, version |-> served[e]])
  BY <1>1, <1>4
<1>5. QED
  BY <1>2, <1>3, <1>4 DEF Fill!CutShort

(* The collector captures a detail, captures beside the backfill or is     *)
(* killed there.                                                           *)
LEMMA CollectorStep ==
  ASSUME Fill!BackfillAssumption, FillInv,
         (\E e \in Events : Fill!Collect(e)) \/ Fill!CaptureBeside \/ Fill!KillCollector
  PROVE  FillInv'
<1>1. UNCHANGED <<listed, served, matters, db, lastRun, pc, page, seen, candidates, issues,
                  draft, known, matterStart, mattersOnly, aim, withdrawn, loaded, head>>
  BY DEF Fill!Collect, Fill!CaptureBeside, Fill!KillCollector, Fill!source, Fill!run, Fill!apply
<1>2. /\ sealed' \in BOOLEAN /\ torn' \subseteq {Fill!Page} \cup (Events \X Fill!Versions)
      /\ \/ UNCHANGED manifest
         \/ \E e \in Events : manifest' = Append(manifest, [event |-> e, version |-> served[e]])
  <2>1. /\ sealed \in BOOLEAN /\ torn \subseteq {Fill!Page} \cup (Events \X Fill!Versions)
        /\ listed \subseteq Events
    BY DEF FillInv, FillTypes
  <2>2. CASE \E e \in Events : Fill!Collect(e)
    BY <2>1, <2>2 DEF Fill!Collect, Fill!files
  <2>3. CASE Fill!CaptureBeside
    BY <2>1, <2>3 DEF Fill!CaptureBeside
  <2>4. CASE Fill!KillCollector
    <3> DEFINE es == {e \in listed : Fill!Uncaptured(e) /\ <<e, served[e]>> \notin torn}
    <3>1. es \in SUBSET Events /\ Fill!CutShort(es)
      BY <2>1, <2>4 DEF Fill!KillCollector
    <3> HIDE DEF es
    <3>2. QED
      BY <1>1, <3>1, CutEffect
  <2>5. QED
    BY <2>2, <2>3, <2>4
<1>3. /\ manifest' \in Seq(FillCaptures)
      /\ DOMAIN manifest \subseteq DOMAIN manifest' /\ Len(manifest') \in Nat
      /\ 0..Len(manifest) \subseteq 0..Len(manifest')
      /\ \A p \in DOMAIN manifest' : manifest'[p].version <= served[manifest'[p].event]
  BY <1>1, <1>2, ManifestGrows
<1>4. FillTypes'
  <2>1. db \in FillTables' /\ draft \in FillTables'
    BY <1>3, TablesGrow DEF FillInv, FillTypes
  <2>2. QED
    BY <1>1, <1>2, <1>3, <2>1 DEF FillInv, FillTypes
<1>5. NothingNewer' /\ NothingOlder'
  BY <1>1, <1>3 DEF FillInv, NothingNewer, NothingOlder, Fill!Locked
<1>6. QED
  BY <1>1, <1>4, <1>5, ReadKept DEF FillInv

(* The apply step commits between two transactions of the backfill. *)
LEMMA CommitApplyStep ==
  ASSUME Fill!BackfillAssumption, FillInv, Fill!CommitApply
  PROVE  FillInv'
<1> DEFINE due == Fill!Unapplied(loaded) \cup {head}
           rows == [e \in Events |-> Fill!CapturesSeen(db.rows[e], due \cap Fill!Captures(e))]
           marked == {p \in due : manifest[p].version \in Fill!Whole}
<1>1. /\ UNCHANGED <<listed, served, matters, manifest, lastRun, pc, page, seen, candidates,
                     issues, draft, known, matterStart, mattersOnly, aim, withdrawn, sealed, torn>>
      /\ db' = [db EXCEPT !.rows = rows, !.applied = @ \cup marked]
      /\ loaded' = 0 /\ head' = 0 /\ head # 0 /\ ~Fill!Locked
  BY DEF Fill!CommitApply, Fill!source, Fill!files, Fill!run, Fill!EndApply
<1>2. due \subseteq DOMAIN manifest
  BY <1>1, FillManifest DEF FillInv, FillTypes, Fill!Unapplied
<1>3. manifest \in Seq([event : Events, version : Fill!Versions])
  BY DEF FillInv, FillTypes, FillCaptures
<1>4. ASSUME NEW e \in Events
      PROVE  /\ rows[e] \in Fill!Rows
             /\ rows[e].items = db.rows[e].items
                  \/ \E p \in Fill!Captures(e) : rows[e].items = manifest[p].version
  <2>1. db.rows[e] \in Fill!Rows
    BY VersionsAreNumbers DEF FillInv
  <2>2. due \cap Fill!Captures(e) \in SUBSET (DOMAIN manifest)
    BY <1>2
  <2> HIDE DEF due
  <2>3. QED
    BY <1>3, <2>1, <2>2, CapturesRow
<1>5. \A e \in Events : rows[e].items <= served[e]
  <2> TAKE e \in Events
  <2>1. CASE rows[e].items = db.rows[e].items
    BY <2>1 DEF FillInv, NothingNewer
  <2>2. CASE \E p \in Fill!Captures(e) : rows[e].items = manifest[p].version
    <3>1. PICK p \in Fill!Captures(e) : rows[e].items = manifest[p].version
      BY <2>2
    <3>2. p \in DOMAIN manifest /\ manifest[p].event = e
      BY DEF Fill!Captures
    <3>3. manifest[p].version <= served[e]
      BY <3>2 DEF FillInv, NothingNewer
    <3> HIDE DEF rows
    <3>4. QED
      BY <3>1, <3>3
  <2>3. QED
    BY <1>4, <2>1, <2>2
<1> HIDE DEF rows
<1>6. rows \in [Events -> Fill!Rows]
  BY <1>4 DEF rows
<1>7. db' \in FillTables /\ db'.rows = rows /\ db'.matters = db.matters
  <2>1. marked \subseteq DOMAIN manifest
    BY <1>2
  <2> HIDE DEF marked
  <2>2. db \in FillTables
    BY DEF FillInv, FillTypes
  <2>3. QED
    BY <1>1, <1>6, <2>1, <2>2 DEF FillTables
<1> HIDE DEF due, marked
<1>8. FillTypes'
  <2>1. FillTables' = FillTables
    BY <1>1 DEF FillTables
  <2>2. db' \in FillTables' /\ draft' \in FillTables'
    BY <1>1, <1>7, <2>1 DEF FillInv, FillTypes
  <2>3. loaded' \in 0..Len(manifest) /\ head' \in 0..loaded'
    BY <1>1, FillManifest DEF FillInv
  <2>4. UNCHANGED <<listed, served, matters, manifest, lastRun, pc, page, seen, candidates,
                     issues, known, matterStart, aim, withdrawn, sealed, torn>>
    BY <1>1
  <2>5. QED
    BY <2>2, <2>3, <2>4 DEF FillInv, FillTypes
<1>9. NothingNewer'
  <2>1. \A e \in Events : db'.rows[e].items <= served[e]
    BY <1>5, <1>7
  <2>2. UNCHANGED <<served, matters, manifest, candidates, draft, aim>>
    BY <1>1
  <2>3. QED
    BY <2>1, <2>2 DEF FillInv, NothingNewer
<1>10. NothingOlder'
  BY <1>1 DEF NothingOlder, Fill!Locked
<1>11. QED
  BY <1>1, <1>7, <1>8, <1>9, <1>10, ReadKept DEF FillInv

(* The rest of the apply step changes no table. *)
LEMMA ApplyStep ==
  ASSUME Fill!BackfillAssumption, FillInv, Fill!Applying
  PROVE  FillInv'
<1>1. CASE Fill!CommitApply
  BY <1>1, CommitApplyStep
<1>2. CASE Fill!Load \/ Fill!NothingToApply \/ Fill!ApplyTimesOut
  <2>1. UNCHANGED <<listed, served, matters, manifest, db, lastRun, pc, page, seen, candidates,
                    issues, draft, known, matterStart, mattersOnly, aim, withdrawn, sealed, torn>>
    BY <1>2 DEF Fill!Load, Fill!NothingToApply, Fill!ApplyTimesOut, Fill!source, Fill!files,
                Fill!run
  <2>2. loaded' \in 0..Len(manifest) /\ head' \in 0..loaded'
    <3>1. CASE Fill!Load
      <4> DEFINE due == Fill!Unapplied(Len(manifest))
      <4>1. loaded' = Len(manifest) /\ head' = IF due = {} THEN 0 ELSE Fill!Min(due)
        BY <3>1 DEF Fill!Load
      <4>2. due \in SUBSET (1..Len(manifest)) /\ Len(manifest) \in Nat
        BY FillManifest DEF FillInv, Fill!Unapplied
      <4> HIDE DEF due
      <4>3. due # {} => Fill!Min(due) \in 1..Len(manifest)
        BY <4>2, FillEnds
      <4>4. QED
        BY <4>1, <4>2, <4>3
    <3>2. CASE ~Fill!Load
      <4>1. loaded' = 0 /\ head' = 0
        BY <1>2, <3>2 DEF Fill!NothingToApply, Fill!ApplyTimesOut, Fill!EndApply
      <4>2. QED
        BY <4>1, FillManifest DEF FillInv
    <3>3. QED
      BY <3>1, <3>2
  <2>3. FillTypes'
    <3>1. FillTables' = FillTables
      BY <2>1 DEF FillTables
    <3>2. QED
      BY <2>1, <2>2, <3>1 DEF FillInv, FillTypes
  <2>4. NothingNewer' /\ NothingOlder'
    BY <2>1 DEF FillInv, NothingNewer, NothingOlder, Fill!Locked
  <2>5. QED
    BY <2>1, <2>3, <2>4, ReadKept DEF FillInv
<1>3. QED
  BY <1>1, <1>2 DEF Fill!Applying

(***************************************************************************)
(* The steps of the backfill.                                              *)
(***************************************************************************)
LEMMA StartStep ==
  ASSUME Fill!BackfillAssumption, FillInv, Fill!Start
  PROVE  FillInv'
<1>1. PICK start \in 0..(MaxPages - 1) :
        /\ page' = start /\ matterStart' = start
        /\ aim' = [listed |-> listed, served |-> served,
                   matters |-> {m \in matters : Fill!MatterPlace(m) > start * PageSize}]
  BY DEF Fill!Start
<1>2. /\ pc = "idle" /\ pc' = "matters" /\ known' = DOMAIN manifest
      /\ withdrawn' = [matters |-> 0, events |-> 0]
      /\ UNCHANGED <<listed, served, matters, manifest, db, seen, candidates, issues, draft,
                     lastRun, loaded, head, sealed, torn>>
  BY DEF Fill!Start, Fill!source, Fill!files, Fill!apply
<1>3. start \in Nat /\ start < MaxPages /\ start <= MaxPages /\ start * PageSize \in Nat
  <2>1. start \in Nat /\ start < MaxPages /\ start <= MaxPages
    BY <1>1, FillConstants
  <2>2. QED
    BY <2>1, FillConstants, PageBounds
<1>4. /\ aim'.listed = listed /\ aim'.served = served
      /\ aim'.matters = {m \in matters : Fill!MatterPlace(m) > start * PageSize}
      /\ withdrawn'.matters = 0 /\ withdrawn'.events = 0
  BY <1>1, <1>2
<1>5. FillTypes'
  <2>1. FillTables' = FillTables
    BY <1>2 DEF FillTables
  <2>2. aim' \in [listed : SUBSET Events, served : [Events -> Fill!Versions],
                  matters : SUBSET Matters]
    BY <1>1 DEF FillInv, FillTypes
  <2>3. withdrawn' \in [matters : Nat, events : Nat]
    BY <1>2
  <2>4. QED
    BY <1>1, <1>2, <1>3, <2>1, <2>2, <2>3 DEF FillInv, FillTypes
<1>6. NothingNewer'
  <2>1. \A e \in Events : served[e] <= served[e]
    BY VersionsAreNumbers DEF FillInv
  <2>2. \A e \in Events : aim'.served[e] <= served'[e]
    BY <1>2, <1>4, <2>1
  <2>3. QED
    BY <1>2, <2>2 DEF FillInv, NothingNewer
<1>7. NothingOlder' /\ DetailsRead'
  BY <1>1, <1>2 DEF NothingOlder, Fill!Locked, DetailsRead
<1>8. Cardinality({}) <= 0
  BY FS_EmptySet
<1>9. MattersRead'
  <2>1. aim'.matters \subseteq matters
        /\ \A m \in aim'.matters : Rank(Upwards, matters, m) > start * PageSize
    BY <1>4, ListsAre, PlaceIsRank
  <2>2. \A read : Lost(Upwards, matters, read, aim'.matters, start * PageSize) = {}
    BY <2>1 DEF Lost
  <2>3. Lost(Upwards, matters', Fill!Tables.matters', aim'.matters, page' * PageSize) = {}
    BY <1>1, <1>2, <2>2
  <2>4. page' >= matterStart' /\ pc' = "matters" /\ withdrawn'.matters = 0
    BY <1>1, <1>2, <1>3, <1>4
  <2>5. Cardinality(Lost(Upwards, matters', Fill!Tables.matters', aim'.matters,
                         page' * PageSize)) <= withdrawn'.matters
    BY <1>8, <2>3, <2>4
  <2>6. QED
    BY <2>4, <2>5 DEF MattersRead
<1>10. EventsRead'
  <2>1. listed \in SUBSET Nat /\ IsFiniteSet(listed)
    BY ListsAre
  <2>2. \A e \in listed : Rank(Downwards, listed, e) > 0
    <3> TAKE e \in listed
    <3>1. Rank(Downwards, listed, e) \in 1..Cardinality(listed) /\ Cardinality(listed) \in Nat
      BY <2>1, OrdersAreLinear, RankOf
    <3>2. QED
      BY <3>1
  <2>3. Lost(Downwards, listed, seen, listed, 0) = {}
    BY <2>2 DEF Lost
  <2>4. QED
    BY <1>2, <1>4, <1>8, <2>3 DEF FillInv, EventsRead, EventsDone
<1>11. QED
  BY <1>5, <1>6, <1>7, <1>9, <1>10 DEF FillInv

(* The tables a step of the backfill works on. *)
LEMMA TablesAre ==
  ASSUME Fill!BackfillAssumption, FillInv
  PROVE  /\ Fill!Tables \in FillTables
         /\ \A e \in Events : /\ Fill!Tables.rows[e].items >= db.rows[e].items
                              /\ Fill!Tables.rows[e].items <= served[e]
<1>1. CASE Fill!Locked
  BY <1>1 DEF FillInv, FillTypes, NothingNewer, NothingOlder, Fill!Tables
<1>2. CASE ~Fill!Locked
  <2>1. Fill!Tables = db
    BY <1>2 DEF Fill!Tables
  <2>2. \A e \in Events : db.rows[e].items >= db.rows[e].items
    <3>1. \A e \in Events : db.rows[e].items \in Nat
      BY VersionsAreNumbers DEF FillInv
    <3>2. \A n \in Nat : n >= n
      OBVIOUS
    <3>3. QED
      BY <3>1, <3>2
  <2>3. QED
    BY <2>1, <2>2 DEF FillInv, FillTypes, NothingNewer
<1>3. QED
  BY <1>1, <1>2

(* A page is followed by the next one, or ends its listing. *)
Turned(next) ==
  /\ issues' \in BOOLEAN
  /\ ~issues' => ~issues
  /\ \/ pc' = pc /\ page' = page + 1 /\ page + 1 < MaxPages
     \/ pc' = next /\ page' = 0

(* Continue and PageFails do one or the other. *)
LEMMA PageTurns ==
  ASSUME Fill!BackfillAssumption, FillInv, pc \in {"matters", "events"}, NEW next, NEW rows,
         Fill!Continue(rows, next) \/ Fill!PageFails(next)
  PROVE  Turned(next)
<1>1. page \in Nat /\ page < MaxPages /\ MaxPages \in Nat /\ issues \in BOOLEAN
  BY FillConstants DEF FillInv, FillTypes
<1>2. CASE Fill!Continue(rows, next)
  <2> DEFINE over == Fill!Cardinality(rows) < PageSize
             limit == page + 1 = MaxPages
  <2>1. /\ page' = IF over \/ limit THEN 0 ELSE page + 1
        /\ pc' = IF over \/ limit THEN next ELSE pc
        /\ issues' = (issues \/ (limit /\ ~over))
    BY <1>2 DEF Fill!Continue
  <2> HIDE DEF over
  <2>2. QED
    BY <1>1, <2>1 DEF Turned
<1>3. CASE Fill!PageFails(next)
  BY <1>3 DEF Fill!PageFails, Turned
<1>4. QED
  BY <1>2, <1>3

(* What a step on a page of matters changes. *)
LEMMA MatterEffect ==
  ASSUME Fill!BackfillAssumption, FillInv, Fill!ReadMatterPage \/ Fill!MatterPageFails
  PROVE  /\ UNCHANGED <<listed, served, matters, manifest, db, seen, candidates, known,
                        matterStart, mattersOnly, aim, withdrawn, sealed, torn, lastRun,
                        loaded, head>>
         /\ pc = "matters" /\ Turned(Fill!AfterMatters)
         /\ draft' \in FillTables /\ draft'.rows = Fill!Tables.rows
         /\ Fill!ReadMatterPage =>
              draft'.matters = Fill!Tables.matters \cup Fill!MatterPage(page)
<1>1. /\ UNCHANGED <<listed, served, matters, manifest, db, seen, candidates, known,
                     matterStart, mattersOnly, aim, withdrawn, sealed, torn, lastRun, loaded, head>>
      /\ pc = "matters"
  BY DEF Fill!ReadMatterPage, Fill!MatterPageFails, Fill!source, Fill!files, Fill!options,
         Fill!apply
<1>2. Turned(Fill!AfterMatters)
  BY <1>1, PageTurns DEF Fill!ReadMatterPage, Fill!MatterPageFails
<1>3. /\ draft' \in FillTables /\ draft'.rows = Fill!Tables.rows
      /\ Fill!ReadMatterPage =>
           draft'.matters = Fill!Tables.matters \cup Fill!MatterPage(page)
  <2>1. Fill!Tables \in FillTables
    BY TablesAre
  <2>2. CASE Fill!ReadMatterPage
    <3>1. draft' = [Fill!Tables EXCEPT !.matters = @ \cup Fill!MatterPage(page)]
      BY <2>2 DEF Fill!ReadMatterPage, Fill!MatterSeen
    <3>2. Fill!MatterPage(page) \subseteq Matters
      BY DEF FillInv, FillTypes, Fill!MatterPage
    <3>3. QED
      BY <2>1, <3>1, <3>2 DEF FillTables
  <2>3. CASE ~Fill!ReadMatterPage
    BY <2>1, <2>3 DEF Fill!MatterPageFails
  <2>4. QED
    BY <2>2, <2>3
<1>4. QED
  BY <1>1, <1>2, <1>3

(* A page that was read without an issue ends its listing when it is not   *)
(* full, and only then.                                                    *)
LEMMA PageEnds ==
  ASSUME Fill!BackfillAssumption, FillInv, pc \in {"matters", "events"}, NEW next, next # pc,
         NEW rows, Fill!Continue(rows, next), ~issues'
  PROVE  /\ ~issues
         /\ pc' = pc => page' = page + 1
         /\ pc' # pc => pc' = next /\ page' = 0 /\ Cardinality(rows) < PageSize
<1> DEFINE over == Fill!Cardinality(rows) < PageSize
           limit == page + 1 = MaxPages
<1>1. /\ page' = IF over \/ limit THEN 0 ELSE page + 1
      /\ pc' = IF over \/ limit THEN next ELSE pc
      /\ issues' = (issues \/ (limit /\ ~over))
  BY DEF Fill!Continue
<1>2. over <=> Cardinality(rows) < PageSize
  BY Counting
<1> HIDE DEF over, limit
<1>3. QED
  BY <1>1, <1>2

(* Of the matters of a page that was read, none is lost. *)
LEMMA MatterPageStored ==
  ASSUME Fill!BackfillAssumption, FillInv, Fill!ReadMatterPage, ~issues'
  PROVE  /\ pc' = "matters" => /\ page' = page + 1
              /\ Cardinality(Lost(Upwards, matters, draft'.matters, aim.matters,
                                  (page + 1) * PageSize)) <= withdrawn.matters
         /\ pc' # "matters" => /\ page' = 0
              /\ Cardinality(aim.matters \ draft'.matters) <= withdrawn.matters
<1> DEFINE rows == Fill!MatterPage(page)
           read == Fill!Tables.matters
           old == Lost(Upwards, matters, read, aim.matters, page * PageSize)
           new == Lost(Upwards, matters, draft'.matters, aim.matters, (page + 1) * PageSize)
           rest == aim.matters \ draft'.matters
<1>1. pc = "matters" /\ Fill!Continue(rows, Fill!AfterMatters) /\ Fill!AfterMatters # pc
  BY DEF Fill!ReadMatterPage, Fill!AfterMatters
<1>2. /\ ~issues /\ (pc' = pc => page' = page + 1)
      /\ pc' # pc => page' = 0 /\ Cardinality(rows) < PageSize
  BY <1>1, PageEnds
<1>3. draft'.matters = read \cup rows
  BY MatterEffect
<1>4. /\ matters \in SUBSET Nat /\ IsFiniteSet(matters) /\ IsFiniteSet(aim.matters)
      /\ withdrawn.matters \in Nat
  BY ListsAre
<1>5. rows = {m \in matters : Rank(Upwards, matters, m) \in Fill!Slice(page)}
  BY ListsAre, PlaceIsRank DEF Fill!MatterPage
<1>6. page \in Nat /\ PageSize \in Nat \ {0}
  BY FillConstants DEF FillInv, FillTypes
<1> HIDE DEF rows, read
<1>7. new \subseteq old /\ (Cardinality(rows) < PageSize => rest \subseteq old)
  BY <1>3, <1>4, <1>5, <1>6, OrdersAreLinear, ReadsPage
<1>8. Cardinality(old) <= withdrawn.matters
  BY <1>1, <1>2 DEF FillInv, MattersRead, read
<1>9. IsFiniteSet(old) /\ Cardinality(old) \in Nat
  <2>1. old \in SUBSET aim.matters
    BY DEF Lost
  <2>2. QED
    BY <1>4, <2>1, FS_Subset, FS_CardinalityType
<1> HIDE DEF old, new, rest
<1>10. \A S \in SUBSET old : Cardinality(S) <= withdrawn.matters
  <2> TAKE S \in SUBSET old
  <2>1. Cardinality(S) <= Cardinality(old) /\ IsFiniteSet(S)
    BY <1>9, FS_Subset
  <2>2. Cardinality(S) \in Nat
    BY <2>1, FS_CardinalityType
  <2>3. QED
    BY <1>4, <1>8, <1>9, <2>1, <2>2
<1>11. /\ Cardinality(new) <= withdrawn.matters
       /\ pc' # pc => Cardinality(rest) <= withdrawn.matters
  BY <1>2, <1>7, <1>10
<1>12. QED
  BY <1>1, <1>2, <1>11 DEF new, rest

(* A page of matters is read, or fails. *)
LEMMA MatterStep ==
  ASSUME Fill!BackfillAssumption, FillInv, Fill!ReadMatterPage \/ Fill!MatterPageFails
  PROVE  FillInv'
<1>1. /\ UNCHANGED <<listed, served, matters, manifest, db, seen, candidates, known,
                     matterStart, mattersOnly, aim, withdrawn, sealed, torn, lastRun, loaded, head>>
      /\ pc = "matters" /\ Turned(Fill!AfterMatters)
      /\ draft' \in FillTables /\ draft'.rows = Fill!Tables.rows
  BY MatterEffect
<1>2. Fill!AfterMatters = IF mattersOnly THEN "details" ELSE "events"
  BY DEF Fill!AfterMatters
<1>3. \/ pc' = "matters" /\ page' = page + 1 /\ page + 1 < MaxPages
      \/ pc' \in {"events", "details"} /\ page' = 0
  BY <1>1, <1>2 DEF Turned
<1>4. page \in Nat /\ MaxPages \in Nat \ {0} /\ page >= matterStart /\ matterStart \in Nat
  BY <1>1, FillConstants DEF FillInv, FillTypes, MattersRead
<1>5. FillTypes'
  <2>1. FillTables' = FillTables
    BY <1>1 DEF FillTables
  <2>2. /\ page' \in Nat /\ page' <= MaxPages
        /\ pc' \in {"matters", "events"} => page' < MaxPages
        /\ pc' = "details" => page' <= Len(candidates)
        /\ pc' \in {"idle", "matters", "events", "details", "record"}
    BY <1>3, <1>4, FillManifest DEF FillInv
  <2>3. issues' \in BOOLEAN
    BY <1>1 DEF Turned
  <2>4. QED
    BY <1>1, <2>1, <2>2, <2>3 DEF FillInv, FillTypes
<1>6. NothingNewer' /\ NothingOlder'
  BY <1>1, TablesAre DEF FillInv, NothingNewer, NothingOlder
<1>7. ~issues' => Fill!ReadMatterPage /\ ~issues
  BY <1>1 DEF Turned, Fill!MatterPageFails, Fill!PageFails
<1>8. MattersRead'
  <2>1. pc' = "matters" => page' >= matterStart' /\ Fill!Tables' = draft'
    BY <1>1, <1>3, <1>4 DEF Fill!Tables, Fill!Locked
  <2>2. ASSUME ~issues', pc' = "matters"
        PROVE  Cardinality(Lost(Upwards, matters, draft'.matters, aim.matters, page' * PageSize))
                 <= withdrawn.matters
    BY <1>7, <2>2, MatterPageStored
  <2>3. ASSUME ~issues', pc' # "matters"
        PROVE  Cardinality(aim.matters \ draft'.matters) <= withdrawn.matters
    BY <1>7, <2>3, MatterPageStored
  <2>4. QED
    BY <1>1, <2>1, <2>2, <2>3 DEF MattersRead
<1>9. EventsRead'
  <2>1. seen = {} /\ candidates = <<>>
    BY <1>1 DEF FillInv, EventsRead
  <2>2. EventsDone = 0 /\ (pc' # "details" => EventsDone' = 0)
    <3>1. EventsDone = 0
      BY <1>1 DEF EventsDone
    <3>2. 0 * PageSize = 0
      BY FillConstants
    <3>3. QED
      BY <1>3, <3>1, <3>2 DEF EventsDone
  <2>3. ~issues' /\ pc' \in {"matters", "events"} =>
          Cardinality(Lost(Downwards, listed, seen, aim.listed, EventsDone')) <= withdrawn.events
    BY <1>1, <1>7, <2>2 DEF FillInv, EventsRead
  <2>4. ~mattersOnly => pc' # "details"
    BY <1>1, <1>2 DEF Turned
  <2>5. QED
    BY <1>1, <1>3, <2>1, <2>3, <2>4 DEF EventsRead
<1>10. DetailsRead'
  BY <1>3, <1>4 DEF DetailsRead
<1>11. QED
  BY <1>5, <1>6, <1>8, <1>9, <1>10 DEF FillInv

(* The rows after a page of events: dates are replaced, *)
EventRows == [e \in Events |->
  IF e \in (Fill!EventPage(page) \cap Watched) \ seen
  THEN Fill!EventSeen(draft.rows[e], served[e]) ELSE draft.rows[e]]

(* and no details, *)
LEMMA EventRowsAre ==
  ASSUME Fill!BackfillAssumption, FillInv
  PROVE  /\ EventRows \in [Events -> Fill!Rows]
         /\ \A e \in Events : EventRows[e].items = draft.rows[e].items
<1> SUFFICES ASSUME NEW e \in Events
             PROVE  EventRows[e] \in Fill!Rows /\ EventRows[e].items = draft.rows[e].items
  BY DEF EventRows
<1>1. draft.rows[e] \in Fill!Rows /\ served[e] \in Fill!Versions
  BY VersionsAreNumbers DEF FillInv, FillTypes
<1>2. /\ Fill!EventSeen(draft.rows[e], served[e]) \in Fill!Rows
      /\ Fill!EventSeen(draft.rows[e], served[e]).items = draft.rows[e].items
  BY <1>1, EventRow
<1>3. QED
  BY <1>1, <1>2 DEF EventRows

(* and each watched event that was not seen before becomes a candidate. *)
LEMMA NewCandidates ==
  ASSUME Fill!BackfillAssumption, FillInv, Fill!ReadEventPage
  PROVE  /\ candidates' \in Seq(Candidates)
         /\ \A i \in DOMAIN candidates : i \in DOMAIN candidates' /\ candidates'[i] = candidates[i]
         /\ \A i \in DOMAIN candidates' : candidates'[i].version <= served[candidates'[i].event]
         /\ \A e \in (Fill!EventPage(page) \cap Watched) \ seen :
              \E i \in DOMAIN candidates' : candidates'[i] = [event |-> e, version |-> served[e]]
<1> DEFINE fresh == (Fill!EventPage(page) \cap Watched) \ seen
           new == Fill!Descending(fresh)
           fetched == [i \in DOMAIN new |-> [event |-> new[i], version |-> served[new[i]]]]
           n == Cardinality(fresh)
           k == Len(candidates)
<1>1. candidates' = candidates \o fetched
  BY DEF Fill!ReadEventPage
<1>2. fresh \in SUBSET Nat /\ IsFiniteSet(fresh) /\ fresh \subseteq Watched /\ fresh \subseteq Events
  <2>1. fresh \subseteq Watched /\ fresh \subseteq Events
    BY FillConstants
  <2> HIDE DEF fresh
  <2>2. QED
    BY <2>1, FillConstants, FS_Subset
<1> HIDE DEF fresh
<1>3. /\ new \in [1..n -> fresh] /\ n \in Nat
      /\ \A e \in fresh : \E i \in DOMAIN new : new[i] = e
  BY <1>2, DescendingIs
<1> HIDE DEF new, n
<1>4. fetched \in [1..n -> Candidates]
      /\ \A i \in 1..n : fetched[i] = [event |-> new[i], version |-> served[new[i]]]
  BY <1>2, <1>3 DEF FillInv, FillTypes, Candidates
<1> HIDE DEF fetched
<1>5. fetched \in Seq(Candidates) /\ Len(fetched) = n
  BY <1>3, <1>4
<1>6. candidates \in Seq(Candidates) /\ k \in Nat /\ DOMAIN candidates = 1..k
  BY FillManifest DEF FillInv, FillTypes
<1>7. /\ candidates' \in Seq(Candidates) /\ Len(candidates') = k + n
      /\ \A i \in 1..(k + n) : candidates'[i] = IF i <= k THEN candidates[i] ELSE fetched[i - k]
  BY <1>1, <1>5, <1>6, ConcatProperties
<1> HIDE DEF k
<1>8. DOMAIN candidates' = 1..(k + n)
  BY <1>7
<1>9. \A i \in DOMAIN candidates : i \in DOMAIN candidates' /\ candidates'[i] = candidates[i]
  BY <1>3, <1>6, <1>7, <1>8
<1>10. ASSUME NEW i \in DOMAIN candidates'
       PROVE  candidates'[i].version <= served[candidates'[i].event]
  <2>1. CASE i <= k
    BY <1>6, <1>7, <1>8, <2>1 DEF FillInv, NothingNewer
  <2>2. CASE ~(i <= k)
    <3>1. i - k \in 1..n /\ candidates'[i] = fetched[i - k]
      BY <1>3, <1>6, <1>7, <1>8, <2>2
    <3>2. new[i - k] \in Events
      BY <1>2, <1>3, <3>1
    <3>3. served[new[i - k]] \in Nat
      BY <3>2, VersionsAreNumbers DEF FillInv
    <3>4. QED
      BY <1>4, <3>1, <3>3
  <2>3. QED
    BY <2>1, <2>2
<1>11. ASSUME NEW e \in fresh
       PROVE  \E i \in DOMAIN candidates' : candidates'[i] = [event |-> e, version |-> served[e]]
  <2>1. PICK j \in 1..n : new[j] = e
    BY <1>3
  <2>2. k + j \in DOMAIN candidates' /\ ~(k + j <= k) /\ (k + j) - k = j
    BY <1>3, <1>6, <1>8
  <2>3. candidates'[k + j] = fetched[j]
    BY <1>7, <1>8, <2>2
  <2>4. QED
    BY <1>4, <2>1, <2>2, <2>3
<1>12. QED
  BY <1>7, <1>9, <1>10, <1>11 DEF fresh

(* Of the events of a page that was read, none is lost. *)
LEMMA EventPageSeen ==
  ASSUME Fill!BackfillAssumption, FillInv, Fill!ReadEventPage, ~issues'
  PROVE  /\ pc' = "events" => /\ page' = page + 1
              /\ Cardinality(Lost(Downwards, listed, seen', aim.listed, (page + 1) * PageSize))
                   <= withdrawn.events
         /\ pc' # "events" => Cardinality(aim.listed \ seen') <= withdrawn.events
<1> DEFINE rows == Fill!EventPage(page)
           old == Lost(Downwards, listed, seen, aim.listed, page * PageSize)
           new == Lost(Downwards, listed, seen', aim.listed, (page + 1) * PageSize)
           rest == aim.listed \ seen'
<1>1. pc = "events" /\ Fill!Continue(rows, "details") /\ seen' = seen \cup rows
  BY DEF Fill!ReadEventPage
<1>2. /\ ~issues /\ (pc' = pc => page' = page + 1)
      /\ pc' # pc => Cardinality(rows) < PageSize
  BY <1>1, PageEnds
<1>3. /\ listed \in SUBSET Nat /\ IsFiniteSet(listed) /\ IsFiniteSet(aim.listed)
      /\ withdrawn.events \in Nat
  BY ListsAre
<1>4. rows = {e \in listed : Rank(Downwards, listed, e) \in Fill!Slice(page)}
  BY ListsAre, PlaceIsRank DEF Fill!EventPage
<1>5. page \in Nat /\ PageSize \in Nat \ {0}
  BY FillConstants DEF FillInv, FillTypes
<1> HIDE DEF rows
<1>6. new \subseteq old /\ (Cardinality(rows) < PageSize => rest \subseteq old)
  BY <1>1, <1>3, <1>4, <1>5, OrdersAreLinear, ReadsPage
<1>7. Cardinality(old) <= withdrawn.events
  BY <1>1, <1>2 DEF FillInv, EventsRead, EventsDone
<1>8. IsFiniteSet(old) /\ Cardinality(old) \in Nat
  <2>1. old \in SUBSET aim.listed
    BY DEF Lost
  <2>2. QED
    BY <1>3, <2>1, FS_Subset, FS_CardinalityType
<1> HIDE DEF old, new, rest
<1>9. \A S \in SUBSET old : Cardinality(S) <= withdrawn.events
  <2> TAKE S \in SUBSET old
  <2>1. Cardinality(S) <= Cardinality(old) /\ IsFiniteSet(S)
    BY <1>8, FS_Subset
  <2>2. Cardinality(S) \in Nat
    BY <2>1, FS_CardinalityType
  <2>3. QED
    BY <1>3, <1>7, <1>8, <2>1, <2>2
<1>10. /\ Cardinality(new) <= withdrawn.events
       /\ pc' # pc => Cardinality(rest) <= withdrawn.events
  BY <1>2, <1>6, <1>9
<1>11. QED
  BY <1>1, <1>2, <1>10 DEF new, rest

(* What a step on a page of events changes. *)
LEMMA EventEffect ==
  ASSUME Fill!BackfillAssumption, FillInv, Fill!ReadEventPage \/ Fill!EventPageFails
  PROVE  /\ UNCHANGED <<listed, served, matters, manifest, db, known, matterStart, mattersOnly,
                        aim, withdrawn, sealed, torn, lastRun, loaded, head>>
         /\ pc = "events" /\ Turned("details")
         /\ Fill!EventPageFails => UNCHANGED <<seen, candidates, draft>> /\ issues'
         /\ Fill!ReadEventPage => /\ seen' = seen \cup Fill!EventPage(page)
                                  /\ draft' = [draft EXCEPT !.rows = EventRows]
         /\ draft' \in FillTables /\ draft'.matters = draft.matters
         /\ \A e \in Events : draft'.rows[e].items = draft.rows[e].items
<1>1. /\ UNCHANGED <<listed, served, matters, manifest, db, known, matterStart, mattersOnly,
                     aim, withdrawn, sealed, torn, lastRun, loaded, head>>
      /\ pc = "events"
  BY DEF Fill!ReadEventPage, Fill!EventPageFails, Fill!source, Fill!files, Fill!options, Fill!apply
<1>2. Turned("details")
  BY <1>1, PageTurns DEF Fill!ReadEventPage, Fill!EventPageFails
<1>3. Fill!EventPageFails => UNCHANGED <<seen, candidates, draft>> /\ issues'
  BY DEF Fill!EventPageFails, Fill!PageFails
<1>4. Fill!ReadEventPage => /\ seen' = seen \cup Fill!EventPage(page)
                            /\ draft' = [draft EXCEPT !.rows = EventRows]
  BY DEF Fill!ReadEventPage, EventRows
<1>5. draft \in FillTables
  BY DEF FillInv, FillTypes
<1>6. /\ draft' \in FillTables /\ draft'.matters = draft.matters
      /\ \A e \in Events : draft'.rows[e].items = draft.rows[e].items
  <2>1. CASE Fill!EventPageFails
    BY <1>3, <1>5, <2>1
  <2>2. CASE Fill!ReadEventPage
    BY <1>4, <1>5, <2>2, EventRowsAre DEF FillTables
  <2>3. QED
    BY <2>1, <2>2
<1>7. QED
  BY <1>1, <1>2, <1>3, <1>4, <1>6

(* A page of events is read, or fails. *)
LEMMA EventStep ==
  ASSUME Fill!BackfillAssumption, FillInv, Fill!ReadEventPage \/ Fill!EventPageFails
  PROVE  FillInv'
<1>1. /\ UNCHANGED <<listed, served, matters, manifest, db, known, matterStart, mattersOnly,
                     aim, withdrawn, sealed, torn, lastRun, loaded, head>>
      /\ pc = "events" /\ Turned("details")
      /\ Fill!EventPageFails => UNCHANGED <<seen, candidates, draft>> /\ issues'
      /\ Fill!ReadEventPage => seen' = seen \cup Fill!EventPage(page)
      /\ draft' \in FillTables /\ draft'.matters = draft.matters
      /\ \A e \in Events : draft'.rows[e].items = draft.rows[e].items
  BY EventEffect
<1>2. \/ pc' = "events" /\ page' = page + 1 /\ page + 1 < MaxPages
      \/ pc' = "details" /\ page' = 0
  BY <1>1 DEF Turned
<1>3. issues' \in BOOLEAN /\ (~issues' => ~issues)
  BY <1>1 DEF Turned
<1>4. page \in Nat /\ MaxPages \in Nat \ {0} /\ PageSize \in Nat \ {0}
      /\ listed \subseteq Events /\ listed \in SUBSET Nat /\ IsFiniteSet(listed)
  <2>1. page \in Nat /\ MaxPages \in Nat \ {0} /\ PageSize \in Nat \ {0} /\ listed \subseteq Events
    BY FillConstants DEF FillInv, FillTypes
  <2>2. QED
    BY <2>1, FillConstants, FS_Subset
<1>5. /\ candidates' \in Seq(Candidates)
      /\ \A i \in DOMAIN candidates : i \in DOMAIN candidates' /\ candidates'[i] = candidates[i]
      /\ \A i \in DOMAIN candidates' : candidates'[i].version <= served[candidates'[i].event]
  <2>1. CASE Fill!EventPageFails
    BY <1>1, <2>1 DEF FillInv, FillTypes, NothingNewer
  <2>2. CASE Fill!ReadEventPage
    BY <2>2, NewCandidates
  <2>3. QED
    BY <2>1, <2>2
<1>6. FillTypes'
  <2>1. FillTables' = FillTables
    BY <1>1 DEF FillTables
  <2>2. seen' \subseteq Events
    BY <1>1, <1>4 DEF FillInv, FillTypes, Fill!EventPage
  <2>3. /\ page' \in Nat /\ page' <= MaxPages
        /\ pc' \in {"matters", "events"} => page' < MaxPages
        /\ pc' = "details" => page' <= Len(candidates')
        /\ pc' \in {"idle", "matters", "events", "details", "record"}
    <3>1. Len(candidates') \in Nat
      BY <1>5
    <3>2. QED
      BY <1>2, <1>4, <3>1
  <2>4. QED
    BY <1>1, <1>3, <1>5, <2>1, <2>2, <2>3 DEF FillInv, FillTypes
<1>7. NothingNewer' /\ NothingOlder'
  BY <1>1, <1>5 DEF FillInv, NothingNewer, NothingOlder, Fill!Locked
<1>8. MattersRead'
  BY <1>1, <1>2, <1>3 DEF FillInv, MattersRead
<1>9. EventsRead'
  <2>1. ASSUME NEW e \in seen' \cap Watched
        PROVE  \E i \in DOMAIN candidates' :
                 candidates'[i].event = e /\ candidates'[i].version >= aim.served[e]
    <3>1. CASE e \in seen
      <4>1. PICK i \in DOMAIN candidates :
              candidates[i].event = e /\ candidates[i].version >= aim.served[e]
        BY <3>1 DEF FillInv, EventsRead
      <4>2. i \in DOMAIN candidates' /\ candidates'[i] = candidates[i]
        BY <1>5
      <4>3. QED
        BY <4>1, <4>2
    <3>2. CASE e \notin seen
      <4>1. Fill!ReadEventPage
        BY <1>1, <3>2
      <4>2. e \in (Fill!EventPage(page) \cap Watched) \ seen
        BY <1>1, <3>2, <4>1
      <4>3. PICK i \in DOMAIN candidates' : candidates'[i] = [event |-> e, version |-> served[e]]
        BY <4>1, <4>2, NewCandidates
      <4>4. e \in Events
        BY FillConstants
      <4>5. served[e] \in Nat /\ aim.served[e] \in Nat /\ aim.served[e] <= served[e]
        BY <4>4, VersionsAreNumbers DEF FillInv, NothingNewer
      <4>6. QED
        BY <4>3, <4>5
    <3>3. QED
      BY <3>1, <3>2
  <2>2. ~issues' => Fill!ReadEventPage
    BY <1>1
  <2>3. ASSUME ~issues', pc' = "events"
        PROVE  Cardinality(Lost(Downwards, listed, seen', aim.listed, page' * PageSize))
                 <= withdrawn.events
    BY <2>2, <2>3, EventPageSeen
  <2>4. ASSUME ~issues', pc' # "events"
        PROVE  Cardinality(aim.listed \ seen') <= withdrawn.events
    BY <2>2, <2>4, EventPageSeen
  <2>5. pc' \in {"events", "details"} /\ (pc' = "events" => EventsDone' = page' * PageSize)
    BY <1>2 DEF EventsDone
  <2>6. QED
    BY <1>1, <2>1, <2>3, <2>4, <2>5 DEF EventsRead
<1>10. DetailsRead'
  BY <1>2 DEF DetailsRead
<1>11. QED
  BY <1>6, <1>7, <1>8, <1>9, <1>10 DEF FillInv

(* The next candidate, whose detail is read. *)
LEMMA NextCandidate ==
  ASSUME Fill!BackfillAssumption, FillInv, page < Fill!Attempts
  PROVE  /\ page + 1 \in DOMAIN candidates /\ page + 1 <= MaxDetails
         /\ page + 1 <= Len(candidates)
         /\ Fill!Candidate = candidates[page + 1] /\ Fill!Candidate \in Candidates
         /\ Fill!Candidate.event \in Events /\ Fill!Candidate.version \in Fill!Versions
<1>1. Len(candidates) \in Nat /\ DOMAIN candidates = 1..Len(candidates)
      /\ \A i \in DOMAIN candidates : candidates[i] \in Candidates
  BY FillManifest DEF FillInv
<1>2. MaxDetails \in Nat /\ page \in Nat /\ Watched \subseteq Events
  BY FillConstants DEF FillInv, FillTypes
<1>3. page < Len(candidates) /\ page < MaxDetails
  <2>1. Fill!Attempts = IF Len(candidates) <= MaxDetails THEN Len(candidates) ELSE MaxDetails
    BY <1>1, <1>2, SmallerOf DEF Fill!Attempts
  <2>2. QED
    BY <1>1, <1>2, <2>1
<1>4. page + 1 \in DOMAIN candidates
  BY <1>1, <1>2, <1>3
<1>5. Fill!Candidate = candidates[page + 1] /\ Fill!Candidate \in Candidates
  BY <1>1, <1>4 DEF Fill!Candidate
<1>6. Fill!Candidate.event \in Events /\ Fill!Candidate.version \in Fill!Versions
  BY <1>2, <1>5 DEF Candidates
<1>7. QED
  BY <1>1, <1>2, <1>3, <1>4, <1>5, <1>6

(* The capture that stands for a detail is in the manifest, then. *)
LEMMA DetailCaptured ==
  ASSUME Fill!BackfillAssumption, FillInv, Fill!ReadDetail
  PROVE  /\ manifest' \in Seq(FillCaptures)
         /\ DOMAIN manifest \subseteq DOMAIN manifest'
         /\ 0..Len(manifest) \subseteq 0..Len(manifest')
         /\ \A p \in DOMAIN manifest' : manifest'[p].version <= served[manifest'[p].event]
         /\ \E p \in DOMAIN manifest' :
              known' = known \cup {p} /\ draft'.applied = draft.applied \cup {p}
<1> DEFINE e == Fill!Candidate.event
           v == served[e]
           same == Fill!Same(e)
           p == IF same = {} THEN Len(manifest) + 1 ELSE Fill!Max(same)
           row == Fill!DetailSeen(draft.rows[e], Fill!Candidate.version, v)
<1>1. /\ manifest' = IF same = {} THEN Append(manifest, [event |-> e, version |-> v]) ELSE manifest
      /\ known' = known \cup {p} /\ page < Fill!Attempts
      /\ draft' = [draft EXCEPT !.rows[e] = row, !.applied = @ \cup {p}]
      /\ UNCHANGED served
  BY DEF Fill!ReadDetail, Fill!source, Fill!files
<1>2. e \in Events
  BY <1>1, NextCandidate
<1>3. /\ manifest' \in Seq(FillCaptures)
      /\ DOMAIN manifest \subseteq DOMAIN manifest' /\ Len(manifest') \in Nat
      /\ 0..Len(manifest) \subseteq 0..Len(manifest')
      /\ \A q \in DOMAIN manifest' : manifest'[q].version <= served[manifest'[q].event]
  <2>1. \/ UNCHANGED manifest
        \/ \E x \in Events : manifest' = Append(manifest, [event |-> x, version |-> served[x]])
    BY <1>1, <1>2
  <2>2. UNCHANGED served
    BY <1>1
  <2> HIDE DEF same
  <2>3. QED
    BY <2>1, <2>2, ManifestGrows
<1>4. Len(manifest) \in Nat /\ DOMAIN manifest = 1..Len(manifest) /\ manifest \in Seq(FillCaptures)
  BY FillManifest DEF FillInv, FillTypes
<1>5. p \in DOMAIN manifest'
  <2>1. CASE same = {}
    <3>1. [event |-> e, version |-> v] \in FillCaptures
      BY <1>2 DEF FillInv, FillTypes, FillCaptures
    <3>2. manifest' = Append(manifest, [event |-> e, version |-> v])
      BY <1>1, <2>1
    <3> HIDE DEF e, v, same
    <3>3. Len(manifest') = Len(manifest) + 1
      BY <1>4, <3>1, <3>2, AppendProperties
    <3>4. p = Len(manifest) + 1
      BY <2>1
    <3>5. DOMAIN manifest' = 1..Len(manifest')
      BY <1>3
    <3>6. QED
      BY <1>4, <3>3, <3>4, <3>5
  <2>2. CASE same # {}
    <3>1. same \in SUBSET (1..Len(manifest))
      BY <1>4 DEF Fill!Same, Fill!Captures
    <3> HIDE DEF same
    <3>2. Fill!Max(same) \in same
      BY <1>4, <2>2, <3>1, FillEnds
    <3>3. QED
      BY <1>3, <1>4, <2>2, <3>1, <3>2
  <2>3. QED
    BY <2>1, <2>2
<1> HIDE DEF p, row
<1>6. draft'.applied = draft.applied \cup {p}
  BY <1>1 DEF FillInv, FillTypes, FillTables
<1>7. QED
  BY <1>1, <1>3, <1>5, <1>6

(* The row a detail leaves. *)
LEMMA DetailStored ==
  ASSUME Fill!BackfillAssumption, FillInv, Fill!ReadDetail
  PROVE  LET e == Fill!Candidate.event
         IN  /\ draft'.rows \in [Events -> Fill!Rows] /\ draft'.matters = draft.matters
             /\ draft' \in [rows : [Events -> Fill!Rows], applied : {draft'.applied},
                            matters : {draft.matters}]
             /\ \A x \in Events : x # e => draft'.rows[x] = draft.rows[x]
             /\ draft'.rows[e].items \in {draft.rows[e].items, served[e]}
             /\ ~issues' => ~issues /\ draft'.rows[e].items = served[e]
                            /\ StoredWhole(draft'.rows[e], served[e])
             /\ issues' \in BOOLEAN
<1> DEFINE e == Fill!Candidate.event
           v == served[e]
           row == Fill!DetailSeen(draft.rows[e], Fill!Candidate.version, v)
<1> DEFINE p == IF Fill!Same(e) = {} THEN Len(manifest) + 1 ELSE Fill!Max(Fill!Same(e))
<1>1. draft' = [draft EXCEPT !.rows[e] = row, !.applied = @ \cup {p}]
  BY DEF Fill!ReadDetail
<1> HIDE DEF p
<1>2. /\ page < Fill!Attempts /\ issues' = (issues \/ v \notin Fill!Whole)
  BY DEF Fill!ReadDetail
<1>3. e \in Events /\ Fill!Candidate.version \in Fill!Versions
  BY <1>2, NextCandidate
<1>4. v \in Fill!Versions /\ draft.rows[e] \in Fill!Rows /\ v \in Nat /\ draft \in FillTables
  BY <1>3, VersionsAreNumbers DEF FillInv, FillTypes
<1>5. /\ row \in Fill!Rows /\ row.items \in {draft.rows[e].items, v}
      /\ v \in Fill!Whole => /\ row.items = v /\ row.papers = v
                             /\ v \notin Undated => row.itemDate = row.date
  BY <1>3, <1>4, DetailRow
<1> HIDE DEF row, e
<1>6. /\ draft'.rows = [draft.rows EXCEPT ![e] = row] /\ draft'.matters = draft.matters
      /\ draft' \in [rows : [Events -> Fill!Rows], applied : {draft'.applied},
                     matters : {draft.matters}]
  BY <1>1, <1>3, <1>4, <1>5 DEF FillTables
<1>7. draft.rows \in [Events -> Fill!Rows]
  BY <1>4 DEF FillTables
<1>8. draft'.rows \in [Events -> Fill!Rows] /\ draft'.rows[e] = row
      /\ \A x \in Events : x # e => draft'.rows[x] = draft.rows[x]
  BY <1>3, <1>5, <1>6, <1>7
<1>9. v \in Fill!Whole => row.items = v /\ StoredWhole(row, v)
  BY <1>4, <1>5 DEF StoredWhole
<1>10. issues' \in BOOLEAN
  BY <1>2
<1>11. QED
  BY <1>2, <1>5, <1>6, <1>8, <1>9, <1>10 DEF e

(* A detail is read into the draft, *)
LEMMA ReadDetailStep ==
  ASSUME Fill!BackfillAssumption, FillInv, Fill!ReadDetail
  PROVE  FillInv'
<1> DEFINE e == Fill!Candidate.event
<1>1. /\ UNCHANGED <<listed, served, matters, db, pc, seen, candidates, matterStart, mattersOnly,
                     aim, withdrawn, sealed, torn, lastRun, loaded, head>>
      /\ pc = "details" /\ page' = page + 1 /\ page < Fill!Attempts
  BY DEF Fill!ReadDetail, Fill!source, Fill!files, Fill!options, Fill!apply
<1>2. /\ page + 1 \in DOMAIN candidates /\ page + 1 <= MaxDetails
      /\ page + 1 <= Len(candidates)
      /\ e = candidates[page + 1].event /\ e \in Events
      /\ page \in Nat
  BY <1>1, NextCandidate DEF FillInv, FillTypes
<1>3. /\ manifest' \in Seq(FillCaptures)
      /\ DOMAIN manifest \subseteq DOMAIN manifest'
      /\ 0..Len(manifest) \subseteq 0..Len(manifest')
      /\ \A p \in DOMAIN manifest' : manifest'[p].version <= served[manifest'[p].event]
      /\ \E p \in DOMAIN manifest' :
           known' = known \cup {p} /\ draft'.applied = draft.applied \cup {p}
  BY DetailCaptured
<1>4. /\ draft'.rows \in [Events -> Fill!Rows] /\ draft'.matters = draft.matters
      /\ draft' \in [rows : [Events -> Fill!Rows], applied : {draft'.applied},
                     matters : {draft.matters}]
      /\ \A x \in Events : x # e => draft'.rows[x] = draft.rows[x]
      /\ draft'.rows[e].items \in {draft.rows[e].items, served[e]}
      /\ ~issues' => ~issues /\ draft'.rows[e].items = served[e]
                     /\ StoredWhole(draft'.rows[e], served[e])
      /\ issues' \in BOOLEAN
  BY DetailStored
<1> HIDE DEF e
<1>5. draft \in FillTables /\ db \in FillTables /\ FillTables \subseteq FillTables'
  BY <1>1, <1>3, TablesGrow DEF FillInv, FillTypes
<1>6. FillTypes'
  <2>1. draft' \in FillTables'
    <3>1. draft'.applied \subseteq DOMAIN manifest'
      BY <1>3, <1>5 DEF FillTables
    <3>2. draft'.matters \subseteq Matters
      BY <1>4, <1>5 DEF FillTables
    <3>3. QED
      BY <1>4, <3>1, <3>2 DEF FillTables
  <2>2. db' \in FillTables'
    BY <1>1, <1>5
  <2>3. known' \subseteq DOMAIN manifest'
    BY <1>3 DEF FillInv, FillTypes
  <2>4. loaded' \in 0..Len(manifest') /\ head' \in 0..loaded'
    BY <1>1, <1>3 DEF FillInv, FillTypes
  <2>5. page' \in Nat /\ page' <= MaxDetails /\ page' <= Len(candidates')
    BY <1>1, <1>2
  <2>6. QED
    BY <1>1, <1>3, <1>4, <2>1, <2>2, <2>3, <2>4, <2>5 DEF FillInv, FillTypes
<1>7. \A x \in Events : draft'.rows[x].items = draft.rows[x].items \/ draft'.rows[x].items = served[x]
  BY <1>4
<1>8. NothingNewer'
  <2>1. \A x \in Events : draft'.rows[x].items <= served[x]
    <3> TAKE x \in Events
    <3>1. draft.rows[x].items <= served[x] /\ served[x] \in Nat
      BY VersionsAreNumbers DEF FillInv, NothingNewer
    <3>2. served[x] <= served[x]
      BY <3>1
    <3>3. QED
      BY <1>7, <3>1, <3>2
  <2>2. QED
    BY <1>1, <1>3, <2>1 DEF FillInv, NothingNewer
<1>9. NothingOlder'
  <2>1. \A x \in Events : draft'.rows[x].items >= db.rows[x].items
    <3> TAKE x \in Events
    <3>1. draft.rows[x].items >= db.rows[x].items
      BY <1>1 DEF FillInv, NothingOlder, Fill!Locked
    <3>2. served[x] >= db.rows[x].items
      BY VersionsAreNumbers DEF FillInv, NothingNewer
    <3>3. QED
      BY <1>7, <3>1, <3>2
  <2>2. QED
    BY <1>1, <2>1 DEF NothingOlder
<1>10. MattersRead' /\ EventsRead'
  BY <1>1, <1>4 DEF FillInv, MattersRead, EventsRead, EventsDone
<1>11. DetailsRead'
  <2>1. ASSUME ~issues', NEW i \in 1..(page + 1)
        PROVE  StoredWhole(draft'.rows[candidates[i].event], candidates[i].version)
    <3>1. i \in DOMAIN candidates
      BY <1>2, FillManifest DEF FillInv
    <3> DEFINE x == candidates[i].event
               u == candidates[i].version
    <3>2. x \in Events /\ u \in Nat /\ u <= served[x] /\ served[x] \in Nat
      <4>1. candidates[i] \in Candidates
        BY <3>1, FillManifest DEF FillInv
      <4>2. x \in Events /\ u \in Nat
        BY <4>1, FillConstants, VersionsAreNumbers DEF FillInv, Candidates
      <4>3. QED
        BY <3>1, <4>2, VersionsAreNumbers DEF FillInv, NothingNewer
    <3>3. CASE x = e
      <4>1. StoredWhole(draft'.rows[x], served[x]) /\ draft'.rows[x].items = served[x]
        BY <1>4, <2>1, <3>3
      <4> HIDE DEF x, u
      <4>2. served[x] >= u
        BY <3>2
      <4>3. StoredWhole(draft'.rows[x], u)
        BY <4>1, <4>2 DEF StoredWhole
      <4>4. QED
        BY <4>3 DEF x, u
    <3>4. CASE x # e
      <4>1. i # page + 1
        BY <1>2, <3>4
      <4>2. i \in 1..page
        BY <1>2, <4>1
      <4>3. StoredWhole(draft.rows[x], u)
        BY <1>1, <1>4, <2>1, <4>2 DEF FillInv, DetailsRead
      <4>4. draft'.rows[x] = draft.rows[x]
        BY <1>4, <3>2, <3>4
      <4>5. QED
        BY <4>3, <4>4
    <3>5. QED
      BY <3>3, <3>4
  <2>2. QED
    BY <1>1, <2>1 DEF DetailsRead
<1>12. QED
  BY <1>6, <1>8, <1>9, <1>10, <1>11 DEF FillInv

(* or is not to be had. *)
LEMMA DetailFailsStep ==
  ASSUME Fill!BackfillAssumption, FillInv, Fill!DetailFails
  PROVE  FillInv'
<1>1. /\ UNCHANGED <<listed, served, matters, manifest, db, pc, seen, candidates, draft, known,
                     matterStart, mattersOnly, aim, withdrawn, sealed, torn, lastRun, loaded, head>>
      /\ pc = "details" /\ page' = page + 1 /\ page < Fill!Attempts /\ issues' = TRUE
  BY DEF Fill!DetailFails, Fill!source, Fill!files, Fill!options, Fill!apply
<1>2. page' \in Nat /\ page' <= MaxDetails /\ page' <= Len(candidates)
  <2>1. page \in Nat
    BY DEF FillInv, FillTypes
  <2>2. page + 1 <= MaxDetails /\ page + 1 <= Len(candidates)
    BY <1>1, NextCandidate
  <2>3. QED
    BY <1>1, <2>1, <2>2
<1>3. FillTypes'
  <2>1. FillTables' = FillTables
    BY <1>1 DEF FillTables
  <2>2. QED
    BY <1>1, <1>2, <2>1 DEF FillInv, FillTypes
<1>4. NothingNewer' /\ NothingOlder'
  BY <1>1 DEF FillInv, NothingNewer, NothingOlder, Fill!Locked
<1>5. MattersRead' /\ EventsRead' /\ DetailsRead'
  BY <1>1 DEF FillInv, MattersRead, EventsRead, DetailsRead
<1>6. QED
  BY <1>3, <1>4, <1>5 DEF FillInv

(* The data are committed, *)
LEMMA CommitDataStep ==
  ASSUME Fill!BackfillAssumption, FillInv, Fill!CommitData
  PROVE  FillInv'
<1>1. /\ UNCHANGED <<listed, served, matters, manifest, page, seen, candidates, draft, known,
                     matterStart, mattersOnly, aim, withdrawn, sealed, torn, lastRun, loaded, head>>
      /\ db' = draft /\ issues' = (issues \/ Len(candidates) > MaxDetails) /\ pc' = "record"
  BY DEF Fill!CommitData, Fill!source, Fill!files, Fill!options, Fill!apply
<1>2. FillTypes'
  <2>1. FillTables' = FillTables
    BY <1>1 DEF FillTables
  <2>2. issues' \in BOOLEAN
    BY <1>1
  <2>3. QED
    BY <1>1, <2>1, <2>2 DEF FillInv, FillTypes
<1>3. NothingNewer' /\ NothingOlder'
  BY <1>1 DEF FillInv, NothingNewer, NothingOlder, Fill!Locked
<1>4. MattersRead' /\ EventsRead' /\ DetailsRead'
  BY <1>1 DEF FillInv, MattersRead, EventsRead, DetailsRead
<1>5. QED
  BY <1>2, <1>3, <1>4 DEF FillInv

(* and the run is over, refused, or dead, even inside capture.             *)
LEMMA EndStep ==
  ASSUME Fill!BackfillAssumption, FillInv,
         Fill!RecordRun \/ Fill!Refused \/ Fill!Die \/ Fill!DieCapturing
  PROVE  FillInv'
<1>1. /\ UNCHANGED <<listed, served, matters, db, matterStart, mattersOnly, aim, withdrawn,
                     loaded, head>>
      /\ pc' = "idle" /\ page' = 0 /\ seen' = {} /\ candidates' = <<>>
      /\ issues' = FALSE /\ known' = {} /\ draft' = Fill!Empty
  BY DEF Fill!RecordRun, Fill!Refused, Fill!Die, Fill!DieCapturing, Fill!Forgotten,
         Fill!source, Fill!options, Fill!apply
<1>2. lastRun' \in {"none", "complete", "incomplete"}
  <2>1. CASE Fill!RecordRun
    BY <2>1 DEF Fill!RecordRun, Fill!SaveRun, Fill!Status
  <2>2. CASE ~Fill!RecordRun
    BY <2>2 DEF Fill!Refused, Fill!Die, Fill!DieCapturing, FillInv, FillTypes
  <2>3. QED
    BY <2>1, <2>2
<1>3. /\ sealed' \in BOOLEAN /\ torn' \subseteq {Fill!Page} \cup (Events \X Fill!Versions)
      /\ \/ UNCHANGED manifest
         \/ \E e \in Events : manifest' = Append(manifest, [event |-> e, version |-> served[e]])
  <2>1. CASE Fill!DieCapturing
    <3>1. listed \subseteq Events
      BY DEF FillInv, FillTypes
    <3>2. \E es \in SUBSET listed : Fill!CutShort(es)
      BY <2>1 DEF Fill!DieCapturing
    <3>3. PICK es \in SUBSET Events : Fill!CutShort(es)
      BY <3>1, <3>2
    <3>4. QED
      BY <1>1, <3>3, CutEffect
  <2>2. CASE ~Fill!DieCapturing
    <3>1. UNCHANGED <<manifest, sealed, torn>>
      BY <2>2 DEF Fill!RecordRun, Fill!Refused, Fill!Die, Fill!files
    <3>2. QED
      BY <3>1 DEF FillInv, FillTypes
  <2>3. QED
    BY <2>1, <2>2
<1>4. /\ manifest' \in Seq(FillCaptures)
      /\ DOMAIN manifest \subseteq DOMAIN manifest' /\ Len(manifest') \in Nat
      /\ 0..Len(manifest) \subseteq 0..Len(manifest')
      /\ \A p \in DOMAIN manifest' : manifest'[p].version <= served[manifest'[p].event]
  BY <1>1, <1>3, ManifestGrows
<1>5. FillTypes'
  <2>1. db' \in FillTables' /\ draft' \in FillTables'
    <3>1. 0 \in {0} \cup Fill!Versions
      OBVIOUS
    <3>2. Fill!Empty \in FillTables
      BY <3>1 DEF Fill!Empty, FillTables, Fill!Rows
    <3>3. db \in FillTables
      BY DEF FillInv, FillTypes
    <3>4. QED
      BY <1>1, <1>4, <3>2, <3>3, TablesGrow
  <2>2. page' \in Nat /\ page' <= MaxPages /\ candidates' \in Seq(Candidates)
        /\ seen' \subseteq Events /\ known' \subseteq DOMAIN manifest'
    BY <1>1, FillConstants
  <2>3. QED
    BY <1>1, <1>2, <1>3, <1>4, <2>1, <2>2 DEF FillInv, FillTypes
<1>6. NothingNewer'
  <2>1. \A e \in Events : draft'.rows[e].items = 0
    BY <1>1 DEF Fill!Empty
  <2>2. \A e \in Events : draft'.rows[e].items <= served[e]
    BY <2>1, VersionsAreNumbers DEF FillInv
  <2>3. DOMAIN candidates' = {}
    BY <1>1
  <2>4. QED
    BY <1>1, <1>4, <2>2, <2>3 DEF FillInv, NothingNewer
<1>7. NothingOlder' /\ MattersRead' /\ EventsRead' /\ DetailsRead'
  BY <1>1 DEF NothingOlder, Fill!Locked, MattersRead, EventsRead, DetailsRead
<1>8. QED
  BY <1>5, <1>6, <1>7 DEF FillInv

(* Every step keeps the invariant. *)
LEMMA FillStep ==
  ASSUME Fill!BackfillAssumption, FillInv, [Fill!Next]_Fill!vars
  PROVE  FillInv'
<1>1. CASE Fill!Change
  BY <1>1, CityStep
<1>2. CASE (\E e \in Events : Fill!Collect(e)) \/ Fill!CaptureBeside \/ Fill!KillCollector
  BY <1>2, CollectorStep
<1>3. CASE Fill!Start
  BY <1>3, StartStep
<1>4. CASE Fill!Backfilling
  BY <1>4, MatterStep, EventStep, ReadDetailStep, DetailFailsStep, CommitDataStep, EndStep
     DEF Fill!Backfilling
<1>5. CASE Fill!Die \/ Fill!DieCapturing
  BY <1>5, EndStep
<1>6. CASE Fill!Applying
  BY <1>6, ApplyStep
<1>7. CASE UNCHANGED Fill!vars
  <2>1. UNCHANGED <<listed, served, matters, manifest, db, lastRun, pc, page, seen, candidates,
                    issues, draft, known, matterStart, mattersOnly, aim, withdrawn, sealed, torn,
                    loaded, head>>
    BY <1>7 DEF Fill!vars, Fill!source, Fill!files, Fill!run, Fill!apply
  <2>2. FillTypes'
    <3>1. FillTables' = FillTables
      BY <2>1 DEF FillTables
    <3>2. QED
      BY <2>1, <3>1 DEF FillInv, FillTypes
  <2>3. NothingNewer' /\ NothingOlder'
    BY <2>1 DEF FillInv, NothingNewer, NothingOlder, Fill!Locked
  <2>4. QED
    BY <2>1, <2>2, <2>3, ReadKept DEF FillInv
<1>8. QED
  BY <1>1, <1>2, <1>3, <1>4, <1>5, <1>6, <1>7 DEF Fill!Next

(* The invariant holds of the backfill and of all that runs beside it. *)
THEOREM FillInvariant == ASSUME Fill!BackfillAssumption PROVE Fill!Spec => []FillInv
<1>1. Fill!Init => FillInv
  BY FillInit
<1>2. FillInv /\ [Fill!Next]_Fill!vars => FillInv'
  BY FillStep
<1>3. QED
  BY <1>1, <1>2, PTL DEF Fill!Spec

(* The backfill's variables have their types. *)
THEOREM FillTypesOK == ASSUME Fill!BackfillAssumption PROVE Fill!Spec => []Fill!TypeOK
<1>1. FillInv => Fill!TypeOK
  <2> SUFFICES ASSUME FillInv
               PROVE  Fill!TypeOK
    OBVIOUS
  <2>1. page \in 0..Fill!Max({MaxPages, MaxDetails})
    <3>1. MaxPages \in Nat /\ MaxDetails \in Nat
      BY FillConstants
    <3>2. Fill!Max({MaxPages, MaxDetails}) = IF MaxPages <= MaxDetails THEN MaxDetails ELSE MaxPages
      BY <3>1, SmallerOf
    <3>3. page \in Nat /\ (page <= MaxPages \/ page <= MaxDetails)
      BY DEF FillInv, FillTypes
    <3>4. QED
      BY <3>1, <3>2, <3>3
  <2>2. \A t \in {db, draft} : /\ t.rows \in [Events -> Fill!Rows]
                               /\ t.applied \subseteq DOMAIN manifest
                               /\ t.matters \subseteq Matters
    BY DEF FillInv, FillTypes, FillTables
  <2>3. QED
    BY <2>1, <2>2 DEF FillInv, FillTypes, FillCaptures, Candidates, Fill!TypeOK
<1>2. QED
  BY <1>1, FillInvariant, PTL

(* The long transaction holds the lock since its first write: whatever the *)
(* collector captures and the apply step tries in between, the commit of a *)
(* backfill puts no older detail in place of a newer one.                  *)
THEOREM BackfillOnlyAdvances ==
  ASSUME Fill!BackfillAssumption PROVE Fill!Spec => Fill!NothingGoesBack
<1>1. FillInv /\ [Fill!Next]_Fill!vars =>
        [Fill!CommitData => \A e \in Events : db'.rows[e].items >= db.rows[e].items]_Fill!vars
  <2> SUFFICES ASSUME FillInv, Fill!CommitData
               PROVE  \A e \in Events : db'.rows[e].items >= db.rows[e].items
    OBVIOUS
  <2>1. db' = draft /\ Fill!Locked
    BY DEF Fill!CommitData, Fill!Locked
  <2>2. QED
    BY <2>1 DEF FillInv, NothingOlder
<1>2. QED
  BY <1>1, FillInvariant, PTL DEF Fill!Spec, Fill!NothingGoesBack

(* A run that ends without issues has stored what it was started for, but  *)
(* for what was lost.                                                      *)
LEMMA CommitIsWhole ==
  ASSUME Fill!BackfillAssumption, FillInv, Fill!CommitData, ~issues'
  PROVE  /\ Cardinality(aim.matters \ db'.matters) <= withdrawn.matters
         /\ ~mattersOnly =>
              Cardinality({e \in aim.listed \cap Watched : ~Fill!Stored(e)})
                <= withdrawn.events
<1>1. /\ pc = "details" /\ page = Fill!Attempts /\ db' = draft
      /\ ~issues /\ ~(Len(candidates) > MaxDetails)
  BY DEF Fill!CommitData
<1>2. page = Len(candidates) /\ DOMAIN candidates = 1..page
  <2>1. Len(candidates) \in Nat /\ MaxDetails \in Nat /\ DOMAIN candidates = 1..Len(candidates)
    BY FillConstants, FillManifest DEF FillInv
  <2>2. Fill!Attempts = IF Len(candidates) <= MaxDetails THEN Len(candidates) ELSE MaxDetails
    BY <2>1, SmallerOf DEF Fill!Attempts
  <2>3. Len(candidates) <= MaxDetails
    BY <1>1, <2>1
  <2>4. QED
    BY <1>1, <2>1, <2>2, <2>3
<1>3. Cardinality(aim.matters \ db'.matters) <= withdrawn.matters
  BY <1>1 DEF FillInv, MattersRead
<1>4. ASSUME NEW e \in aim.listed \cap Watched, e \in seen
      PROVE  Fill!Stored(e)
  <2>1. PICK i \in DOMAIN candidates :
          candidates[i].event = e /\ candidates[i].version >= aim.served[e]
    BY <1>4 DEF FillInv, EventsRead
  <2>2. StoredWhole(draft.rows[e], candidates[i].version)
    BY <1>1, <1>2, <2>1 DEF FillInv, DetailsRead
  <2>3. e \in Events /\ candidates[i] \in Candidates
    BY FillConstants, FillManifest DEF FillInv
  <2>4. candidates[i].version \in Nat /\ aim.served[e] \in Nat /\ draft.rows[e].items \in Nat
    BY <2>3, VersionsAreNumbers DEF FillInv, Candidates
  <2>5. draft.rows[e].items >= aim.served[e]
    BY <2>1, <2>2, <2>4 DEF StoredWhole
  <2>6. QED
    BY <1>1, <2>2, <2>5 DEF StoredWhole, Fill!Stored
<1>5. ASSUME ~mattersOnly
      PROVE  Cardinality({e \in aim.listed \cap Watched : ~Fill!Stored(e)}) <= withdrawn.events
  <2> DEFINE missing == {e \in aim.listed \cap Watched : ~Fill!Stored(e)}
             unseen == aim.listed \ seen
  <2>1. Cardinality(unseen) <= withdrawn.events /\ withdrawn.events \in Nat
    BY <1>1, <1>5, ListsAre DEF FillInv, EventsRead
  <2>2. missing \in SUBSET unseen
    BY <1>4
  <2>3. IsFiniteSet(unseen)
    BY ListsAre, FS_Subset
  <2> HIDE DEF missing, unseen
  <2>4. Cardinality(missing) <= Cardinality(unseen) /\ IsFiniteSet(missing)
    BY <2>2, <2>3, FS_Subset
  <2>5. Cardinality(missing) \in Nat /\ Cardinality(unseen) \in Nat
    BY <2>3, <2>4, FS_CardinalityType
  <2>6. QED
    BY <2>1, <2>4, <2>5 DEF missing
<1>6. QED
  BY <1>3, <1>5

(* "complete" can be believed, whatever the city adds, replaces and takes  *)
(* away meanwhile: of the matters from the page the run started with, and  *)
(* of the watched events that were listed when it began, each with a       *)
(* detail no older than the one served then, its attachments and the date  *)
(* of its event, there are no more missing than were withdrawn before the  *)
(* run had read the listing; for any number of pages, matters, events,     *)
(* versions and faults.                                                    *)
THEOREM BackfillIsComplete ==
  ASSUME Fill!BackfillAssumption PROVE Fill!Spec => Fill!CompleteMeansStored
<1> DEFINE AllStored ==
      /\ Fill!Cardinality(aim.matters \ db'.matters) <= withdrawn.matters
      /\ ~mattersOnly =>
           Fill!Cardinality({e \in aim.listed \cap Watched : ~Fill!Stored(e)})
             <= withdrawn.events
<1>1. FillInv => [Fill!CommitData /\ ~issues' => AllStored]_Fill!vars
  BY CommitIsWhole, Counting
<1>2. QED
  BY <1>1, FillInvariant, PTL DEF Fill!Spec, Fill!CompleteMeansStored
=============================================================================
