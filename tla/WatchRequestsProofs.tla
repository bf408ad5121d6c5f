------------------------- MODULE WatchRequestsProofs -------------------------
(***************************************************************************)
(* What holds of watch requests for any number of threads, clients and     *)
(* addresses, any limit and any clock: two facts about the files of the    *)
(* geocoder cache, two about the limiter, and the bounds of its memory.    *)
(***************************************************************************)
EXTENDS WatchRequests, TLAPS, FiniteSetTheorems, WellFoundedInduction

(***************************************************************************)
(* The cache.                                                              *)
(***************************************************************************)
LookupPlaces == {"lookAtMeta", "decide", "readBody", "readMeta", "fetch",
                 "openBody", "fillBody", "openMeta", "fillMeta"}
Places == {"idle", "limit", "validate"} \cup LookupPlaces

Answers == Nat \ {0}

CacheOK ==
  /\ pc \in [Threads -> Places]
  /\ address \in [Threads -> Addresses \cup {Nobody}]
  /\ answer \in [Threads -> Nat]
  /\ body \in [Addresses -> {Absent, Empty} \cup Answers]
  /\ meta \in [Addresses -> {Absent, Empty} \cup Answers]
  /\ fetches \in Nat /\ restarts \in Nat
  /\ \A t \in Threads :
       /\ pc[t] \in LookupPlaces => address[t] \in Addresses
       /\ pc[t] \in {"readMeta", "openBody", "fillBody", "openMeta", "fillMeta"} =>
            answer[t] \in Answers
       /\ pc[t] \in {"readBody", "readMeta", "fillBody", "openMeta", "fillMeta"} =>
            body[address[t]] # Absent
  /\ \A a \in Addresses : meta[a] # Absent => body[a] # Absent

At(t, a, places) == address[t] = a /\ pc[t] \in places

(* A file that is empty is being filled, and one that lacks its companion  *)
(* belongs to a thread that has not got to it, as long as nobody is killed.*)
WrittenInOrder ==
  \A a \in Addresses :
    /\ body[a] = Empty => \E t \in Threads : At(t, a, {"fillBody"})
    /\ meta[a] = Empty => \E t \in Threads : At(t, a, {"fillMeta"})
    /\ body[a] # Absent /\ meta[a] = Absent =>
         \E t \in Threads : At(t, a, {"fillBody", "openMeta"})

OrderInv == restarts = 0 => WrittenInOrder

(* Of an address that was never fetched twice at once, the files agree,    *)
(* also after a restart, and so does what a lookup has read.               *)
OneFetch(a) ==
  /\ \A s, t \in Threads : Fetching(s, a) /\ Fetching(t, a) => s = t
  /\ \A t \in Threads :
       /\ At(t, a, {"fetch", "openBody", "fillBody", "openMeta"}) => meta[a] = Absent
       /\ At(t, a, {"fillMeta"}) => meta[a] = Empty
       /\ At(t, a, {"openMeta", "fillMeta"}) => body[a] = answer[t]
       /\ At(t, a, {"readBody", "readMeta"}) => meta[a] # Absent
       /\ At(t, a, {"readMeta"}) => answer[t] = body[a]
  /\ meta[a] # Absent => body[a] \in Answers /\ meta[a] \in {Empty, body[a]}

WholeInv ==
  /\ HitsAreWhole
  /\ \A a \in Addresses \ crowded : OneFetch(a)

(* What a step does to the cache and to the threads.                       *)
LimitStep(t) ==
  /\ pc[t] \in {"idle", "limit"}
  /\ \E p \in {"idle", "limit", "validate"} : pc' = [pc EXCEPT ![t] = p]
  /\ UNCHANGED <<cache, restarts>>

Leave(t) ==
  /\ pc[t] \in {"validate", "lookAtMeta", "readBody", "fetch"}
  /\ End(t)
  /\ UNCHANGED <<files, restarts>>

Advance(t) ==
  /\ \/ pc[t] = "lookAtMeta" /\ pc' = [pc EXCEPT ![t] = "decide"]
     \/ pc[t] = "decide" /\ SawMeta(t) /\ pc' = [pc EXCEPT ![t] = "readBody"]
  /\ UNCHANGED <<address, answer, files, restarts>>

TakeBody(t) ==
  /\ pc[t] = "readBody" /\ body[address[t]] # Empty
  /\ pc' = [pc EXCEPT ![t] = "readMeta"]
  /\ answer' = [answer EXCEPT ![t] = body[address[t]]]
  /\ UNCHANGED <<address, files, restarts>>

(* The kinds of steps, as the cache sees them.                             *)
LEMMA CacheSteps ==
  ASSUME CacheOK, [Next]_vars
  PROVE  \/ \E t \in Threads :
              \/ LimitStep(t) \/ Leave(t) \/ Advance(t) \/ TakeBody(t)
              \/ \E a \in Addresses : LookAtBody(t, a)
              \/ Miss(t) \/ ReadMeta(t) \/ Fetch(t) \/ WriteBody(t) \/ WriteMeta(t)
         \/ UNCHANGED <<cache, pc, restarts>>
         \/ Restart
<1>1. ASSUME NEW t \in Threads, NEW c \in Clients, Arrive(t, c)
      PROVE  LimitStep(t)
  BY <1>1 DEF Arrive, LimitStep
<1>2. ASSUME NEW t \in Threads, Accept(t) \/ Refuse(t)
      PROVE  LimitStep(t)
  BY <1>2 DEF Accept, Refuse, Decided, LimitStep
<1>3. ASSUME NEW t \in Threads, RejectInput(t) \/ Incomplete(t) \/ FetchFails(t)
      PROVE  Leave(t)
  BY <1>3 DEF RejectInput, Incomplete, FetchFails, Leave, Rest
<1>4. ASSUME NEW t \in Threads, Complete(t) \/ Hit(t)
      PROVE  Advance(t)
  BY <1>4 DEF Complete, Hit, Advance, Rest, cache, files
<1>5. ASSUME NEW t \in Threads, ReadBody(t)
      PROVE  Leave(t) \/ TakeBody(t)
  BY <1>5 DEF ReadBody, Leave, TakeBody, Rest, files
<1>6. ASSUME Tick \/ UNCHANGED vars
      PROVE  UNCHANGED <<cache, pc, restarts>>
  BY <1>6 DEF Tick, vars
<1>7. QED
  BY <1>1, <1>2, <1>3, <1>4, <1>5, <1>6 DEF Next, Lookup

(* Types, and that metadata is never there before the body.                *)
LEMMA CacheType == ASSUME CacheOK, [Next]_vars PROVE CacheOK'
<1> USE DEF CacheOK, Places, LookupPlaces, Answers, Absent, Empty
<1>0. \A a : a \in Addresses => a # Nobody
  BY WatchRequestsAssumption
<1>1. ASSUME NEW t \in Threads, LimitStep(t)
      PROVE  CacheOK'
  BY <1>1 DEF LimitStep, cache
<1>2. ASSUME NEW t \in Threads, Leave(t)
      PROVE  CacheOK'
  BY <1>2 DEF Leave, End, files
<1>3. ASSUME NEW t \in Threads, Advance(t)
      PROVE  CacheOK'
  BY <1>3 DEF Advance, files, SawMeta
<1>4. ASSUME NEW t \in Threads, TakeBody(t)
      PROVE  CacheOK'
  BY <1>4 DEF TakeBody, files
<1>5. ASSUME NEW t \in Threads, NEW a \in Addresses, LookAtBody(t, a)
      PROVE  CacheOK'
  BY <1>5 DEF LookAtBody, Rest
<1>6. ASSUME NEW t \in Threads, Miss(t)
      PROVE  CacheOK'
  BY <1>6 DEF Miss, Rest, SawMeta
<1>7. ASSUME NEW t \in Threads, ReadMeta(t)
      PROVE  CacheOK'
  BY <1>7 DEF ReadMeta, End, Rest
<1>8. ASSUME NEW t \in Threads, Fetch(t)
      PROVE  CacheOK'
  BY <1>8 DEF Fetch, Rest
<1>9. ASSUME NEW t \in Threads, WriteBody(t)
      PROVE  CacheOK'
  BY <1>9 DEF WriteBody, Rest
<1>10. ASSUME NEW t \in Threads, WriteMeta(t)
      PROVE  CacheOK'
  BY <1>10 DEF WriteMeta, End, Rest
<1>11. CASE Restart
  BY <1>11 DEF Restart, files
<1>12. CASE UNCHANGED <<cache, pc, restarts>>
  BY <1>12 DEF cache
<1>13. QED
  BY <1>1, <1>2, <1>3, <1>4, <1>5, <1>6, <1>7, <1>8, <1>9, <1>10, <1>11, <1>12, CacheSteps

(* Without a restart, a broken entry has a thread at work on it.           *)
LEMMA OrderStep ==
  ASSUME CacheOK, CacheOK', OrderInv, [Next]_vars
  PROVE  OrderInv'
<1> USE DEF CacheOK, Places, LookupPlaces, Answers, Absent, Empty, At, OrderInv, WrittenInOrder
<1>0. \A a : a \in Addresses => a # Nobody
  BY WatchRequestsAssumption
<1>1. ASSUME NEW t \in Threads, LimitStep(t)
      PROVE  OrderInv'
  BY <1>0, <1>1 DEF LimitStep, cache
<1>2. ASSUME NEW t \in Threads, Leave(t)
      PROVE  OrderInv'
  BY <1>0, <1>2 DEF Leave, End, files
<1>3. ASSUME NEW t \in Threads, Advance(t)
      PROVE  OrderInv'
  BY <1>0, <1>3 DEF Advance, files, SawMeta
<1>4. ASSUME NEW t \in Threads, TakeBody(t)
      PROVE  OrderInv'
  BY <1>0, <1>4 DEF TakeBody, files
<1>5. ASSUME NEW t \in Threads, NEW a \in Addresses, LookAtBody(t, a)
      PROVE  OrderInv'
  BY <1>0, <1>5 DEF LookAtBody, Rest
<1>6. ASSUME NEW t \in Threads, Miss(t)
      PROVE  OrderInv'
  BY <1>0, <1>6 DEF Miss, Rest, SawMeta
<1>7. ASSUME NEW t \in Threads, ReadMeta(t)
      PROVE  OrderInv'
  BY <1>0, <1>7 DEF ReadMeta, End, Rest
<1>8. ASSUME NEW t \in Threads, Fetch(t)
      PROVE  OrderInv'
  BY <1>0, <1>8 DEF Fetch, Rest
<1>9. ASSUME NEW t \in Threads, WriteBody(t)
      PROVE  OrderInv'
  BY <1>0, <1>9 DEF WriteBody, Rest
<1>10. ASSUME NEW t \in Threads, WriteMeta(t)
      PROVE  OrderInv'
  BY <1>0, <1>10 DEF WriteMeta, End, Rest
<1>11. CASE Restart
  BY <1>0, <1>11 DEF Restart, files
<1>12. CASE UNCHANGED <<cache, pc, restarts>>
  BY <1>12 DEF cache
<1>13. QED
  BY <1>1, <1>2, <1>3, <1>4, <1>5, <1>6, <1>7, <1>8, <1>9, <1>10, <1>11, <1>12, CacheSteps

(* An address that one lookup fetched has files that agree.                *)
LEMMA WholeStep ==
  ASSUME CacheOK, CacheOK', WholeInv, [Next]_vars
  PROVE  WholeInv'
<1> USE DEF CacheOK, Places, LookupPlaces, Answers, Absent, Empty, At,
           WholeInv, OneFetch, Fetching, HitsAreWhole
<1>0. \A a : a \in Addresses => a # Nobody
  BY WatchRequestsAssumption
<1>1. ASSUME NEW t \in Threads, LimitStep(t)
      PROVE  WholeInv'
  BY <1>0, <1>1 DEF LimitStep, cache
<1>2. ASSUME NEW t \in Threads, Leave(t)
      PROVE  WholeInv'
  BY <1>0, <1>2 DEF Leave, End, files
<1>3. ASSUME NEW t \in Threads, Advance(t)
      PROVE  WholeInv'
  BY <1>0, <1>3 DEF Advance, files, SawMeta
<1>4. ASSUME NEW t \in Threads, TakeBody(t)
      PROVE  WholeInv'
  BY <1>0, <1>4 DEF TakeBody, files
<1>5. ASSUME NEW t \in Threads, NEW a \in Addresses, LookAtBody(t, a)
      PROVE  WholeInv'
  BY <1>0, <1>5 DEF LookAtBody, Rest
<1>6. ASSUME NEW t \in Threads, Miss(t)
      PROVE  WholeInv'
  BY <1>0, <1>6 DEF Miss, Rest, SawMeta
<1>7. ASSUME NEW t \in Threads, ReadMeta(t)
      PROVE  WholeInv'
  BY <1>0, <1>7 DEF ReadMeta, End, Rest
<1>8. ASSUME NEW t \in Threads, Fetch(t)
      PROVE  WholeInv'
  BY <1>0, <1>8 DEF Fetch, Rest
<1>9. ASSUME NEW t \in Threads, WriteBody(t)
      PROVE  WholeInv'
  BY <1>0, <1>9 DEF WriteBody, Rest
<1>10. ASSUME NEW t \in Threads, WriteMeta(t)
      PROVE  WholeInv'
  BY <1>0, <1>10 DEF WriteMeta, End, Rest
<1>11. CASE Restart
  BY <1>0, <1>11 DEF Restart, files
<1>12. CASE UNCHANGED <<cache, pc, restarts>>
  BY <1>12 DEF cache
<1>13. QED
  BY <1>1, <1>2, <1>3, <1>4, <1>5, <1>6, <1>7, <1>8, <1>9, <1>10, <1>11, <1>12, CacheSteps

(* A cache entry that no lookup can use, since a file is missing or empty   *)
(* and nobody is writing it, needs a restart: the two write_text calls of   *)
(* census_lookup are made in one order, and nothing between them gives up   *)
(* (address/matcher.py 152-203).                                            *)
THEOREM BrokenEntriesNeedRestart == Spec => []BrokenNeedsRestart
<1>1. Init => CacheOK /\ OrderInv
  BY DEF Init, CacheOK, OrderInv, WrittenInOrder, Places, LookupPlaces, Absent, Empty
<1>2. CacheOK /\ OrderInv => BrokenNeedsRestart
  BY DEF CacheOK, OrderInv, WrittenInOrder, BrokenNeedsRestart, At, Fetching
<1>3. QED
  BY <1>1, <1>2, CacheType, OrderStep, PTL DEF Spec

(* A cached answer comes with the time at which it was captured, if no two  *)
(* lookups fetched the address at once; a restart between the two files     *)
(* does not change that (address/matcher.py 157-203).                       *)
THEOREM HitsReturnWhole == Spec => []HitsAreWhole
<1>1. Init => CacheOK /\ WholeInv
  BY DEF Init, CacheOK, WholeInv, HitsAreWhole, OneFetch, Fetching, At, Places,
         LookupPlaces, Absent, Empty
<1>2. WholeInv => HitsAreWhole
  BY DEF WholeInv
<1>3. QED
  BY <1>1, <1>2, CacheType, WholeStep, PTL DEF Spec

(***************************************************************************)
(* The limiter.                                                            *)
(***************************************************************************)
LimiterOK ==
  /\ now \in Nat /\ newest \in Nat
  /\ client \in [Threads -> Clients \cup {Nobody}]
  /\ clock \in [Threads -> Nat]
  /\ accepted \in [Clients -> Seq(Nat)]
  /\ promised \in [Clients -> Nat]
  /\ DOMAIN requests \subseteq Clients
  /\ \A c \in DOMAIN requests :
       requests[c] \in Seq(Nat) /\ Len(requests[c]) \in 1..Maximum
  /\ \A t \in Threads : pc[t] = "limit" => client[t] \in Clients

Remembered(c) == IF c \in DOMAIN requests THEN Len(requests[c]) ELSE 0

(* What the limiter remembers of a client are its last requests, and those *)
(* before them left the window of the latest reading of the clock.         *)
KeepsWindow(c) ==
  LET all == accepted[c]
      gone == Len(all) - Remembered(c)
  IN  /\ gone \in Nat
      /\ \A i \in 1..Remembered(c) : requests[c][i] = all[gone + i]
      /\ \A i \in 1..gone : all[i] <= newest - Window
      /\ \A i \in 1..Len(all) : all[i] <= newest
      /\ \A i, j \in 1..Len(all) : i <= j => all[i] <= all[j]

WindowInv ==
  /\ AtMostMaximum
  /\ \A c \in Clients \ excused : KeepsWindow(c)

(* A client that was told to wait has the full number, and was told to     *)
(* come back when the first of them leaves the window.                     *)
PromiseInv ==
  \A c \in DOMAIN requests : promised[c] # 0 =>
    Len(requests[c]) = Maximum /\ requests[c][1] + Window <= promised[c]

(* The Max of two numbers.                                                 *)
LEMMA MaxOfTwo ==
  ASSUME NEW a \in Int, NEW b \in Int
  PROVE  Max({a, b}) = IF a >= b THEN a ELSE b
BY DEF Max

(* A set of positions that has all those before each of its own.            *)
LEMMA InitialSegment ==
  ASSUME NEW m \in Nat, NEW S \in SUBSET (1..m), \A i \in S : 1..i \subseteq S
  PROVE  Cardinality(S) \in 0..m /\ S = 1..Cardinality(S)
<1> DEFINE n == Cardinality(S)
<1>1. IsFiniteSet(1..m) /\ Cardinality(1..m) = m
  BY FS_Interval
<1>2. IsFiniteSet(S) /\ n <= m /\ n \in Nat
  BY <1>1, FS_Subset, FS_CardinalityType
<1>3. ASSUME NEW i \in S
      PROVE  i \in 1..n
  <2>1. i \in Nat \ {0} /\ 1..i \in SUBSET S
    OBVIOUS
  <2>2. Cardinality(1..i) = i
    BY <2>1, FS_Interval
  <2>3. Cardinality(1..i) <= n
    BY <1>2, <2>1, FS_Subset
  <2>4. QED
    BY <1>2, <2>1, <2>2, <2>3
<1>4. S \in SUBSET (1..n)
  BY <1>3
<1>5. IsFiniteSet(1..n) /\ Cardinality(1..n) = n
  BY <1>2, FS_Interval
<1>6. 1..n = S
  BY <1>4, <1>5, FS_Subset
<1>7. QED
  BY <1>2, <1>6

(* popleft removes the stamps up to the first one in the window.            *)
LEMMA RecentShape ==
  ASSUME NEW stamps \in Seq(Nat), NEW cutoff \in Int
  PROVE  \E n \in 0..Len(stamps) :
           /\ Recent(stamps, cutoff) \in Seq(Nat)
           /\ Len(Recent(stamps, cutoff)) = Len(stamps) - n
           /\ \A i \in 1..(Len(stamps) - n) : Recent(stamps, cutoff)[i] = stamps[n + i]
           /\ \A i \in 1..n : stamps[i] <= cutoff
           /\ n < Len(stamps) => stamps[n + 1] > cutoff
<1> DEFINE gone == {i \in DOMAIN stamps : \A j \in 1..i : stamps[j] <= cutoff}
           n == Cardinality(gone)
<1>1. gone \in SUBSET (1..Len(stamps)) /\ \A i \in gone : 1..i \subseteq gone
  OBVIOUS
<1>2. \A i : i \in gone <=> i \in 1..Len(stamps) /\ \A j \in 1..i : stamps[j] <= cutoff
  OBVIOUS
<1>3. Recent(stamps, cutoff) = SubSeq(stamps, n + 1, Len(stamps))
  BY DEF Recent
<1> HIDE DEF gone
<1>4. n \in 0..Len(stamps) /\ gone = 1..n
  BY <1>1, InitialSegment
<1> HIDE DEF n
<1>5. \A i \in 1..n : stamps[i] <= cutoff
  BY <1>2, <1>4
<1>6. ASSUME n < Len(stamps)
      PROVE  stamps[n + 1] > cutoff
  <2>1. n + 1 \notin gone /\ n + 1 \in 1..Len(stamps)
    BY <1>4, <1>6
  <2>2. PICK j \in 1..(n + 1) : ~(stamps[j] <= cutoff)
    BY <1>2, <2>1
  <2>3. j = n + 1
    BY <1>4, <1>5, <2>2
  <2>4. QED
    BY <2>1, <2>2, <2>3
<1>7. /\ Recent(stamps, cutoff) \in Seq(Nat)
      /\ Len(Recent(stamps, cutoff)) = Len(stamps) - n
      /\ \A i \in 1..(Len(stamps) - n) : Recent(stamps, cutoff)[i] = stamps[n + i]
  BY <1>3, <1>4
<1>8. QED
  BY <1>4, <1>5, <1>6, <1>7
(* What the thread that holds the lock finds of its client.                 *)
LEMMA StampsShape ==
  ASSUME LimiterOK, NEW t \in Threads, pc[t] = "limit"
  PROVE  LET c == client[t]
             had == Remembered(c)
             cutoff == clock[t] - Window
         IN  /\ c \in Clients /\ had \in 0..Maximum
             /\ Stamps(t) \in Seq(Nat)
             /\ \E n \in 0..had :
                  /\ Len(Stamps(t)) = had - n
                  /\ \A i \in 1..(had - n) : Stamps(t)[i] = requests[c][n + i]
                  /\ \A i \in 1..n : requests[c][i] <= cutoff \/ requests[c][had] <= cutoff
<1> DEFINE c == client[t]
           had == Remembered(c)
           cutoff == clock[t] - Window
<1>1. c \in Clients /\ clock[t] \in Nat /\ cutoff \in Int /\ Maximum \in Nat \ {0}
  BY WatchRequestsAssumption DEF LimiterOK
<1>2. had \in 0..Maximum
  BY <1>1 DEF LimiterOK, Remembered
<1>3. DOMAIN Kept(t) = {k \in DOMAIN requests : ~(requests[k] = <<>> \/ Last(requests[k]) <= cutoff)}
  BY DEF Kept, Pruned, Forget
<1>4. \A k \in DOMAIN Kept(t) : Kept(t)[k] = requests[k]
  BY DEF Kept, Pruned, Forget
<1>5. CASE c \in DOMAIN Kept(t)
  <2>1. Stamps(t) = Recent(requests[c], cutoff) /\ c \in DOMAIN requests
    BY <1>3, <1>4, <1>5 DEF Stamps
  <2>2. requests[c] \in Seq(Nat) /\ had = Len(requests[c])
    BY <2>1 DEF LimiterOK, Remembered
  <2>3. \E n \in 0..had :
          /\ Stamps(t) \in Seq(Nat) /\ Len(Stamps(t)) = had - n
          /\ \A i \in 1..(had - n) : Stamps(t)[i] = requests[c][n + i]
          /\ \A i \in 1..n : requests[c][i] <= cutoff
    <3> DEFINE stamps == requests[c]
    <3>1. stamps \in Seq(Nat)
      BY <2>2
    <3> HIDE DEF stamps, cutoff
    <3>2. PICK n \in 0..Len(stamps) :
             /\ Recent(stamps, cutoff) \in Seq(Nat)
             /\ Len(Recent(stamps, cutoff)) = Len(stamps) - n
             /\ \A i \in 1..(Len(stamps) - n) : Recent(stamps, cutoff)[i] = stamps[n + i]
             /\ \A i \in 1..n : stamps[i] <= cutoff
      BY <1>1, <3>1, RecentShape
    <3>3. Stamps(t) = Recent(stamps, cutoff) /\ had = Len(stamps)
      BY <2>1, <2>2 DEF stamps
    <3> HIDE DEF had
    <3>4. QED
      BY <3>2, <3>3 DEF stamps
  <2>4. QED
    BY <1>1, <1>2, <2>3
<1>6. CASE c \notin DOMAIN Kept(t)
  <2>1. Stamps(t) = <<>>
    BY <1>6 DEF Stamps
  <2>2. CASE c \notin DOMAIN requests
    BY <1>1, <1>2, <2>1, <2>2 DEF Remembered
  <2>3. CASE c \in DOMAIN requests
    <3>1. requests[c] \in Seq(Nat) /\ Len(requests[c]) >= 1 /\ had = Len(requests[c])
      BY <2>3 DEF LimiterOK, Remembered
    <3>2. requests[c][had] <= cutoff
      BY <1>3, <1>6, <2>3, <3>1 DEF Last
    <3>3. QED
      BY <1>1, <1>2, <2>1, <3>1, <3>2
  <2>4. QED
    BY <2>2, <2>3
<1>7. QED
  BY <1>5, <1>6

(* Of the other clients the limiter remembers what it did, or it dropped    *)
(* the client for good reason.                                              *)
LEMMA OthersShape ==
  ASSUME LimiterOK, NEW t \in Threads, pc[t] = "limit", NEW s, Remember(t, s)
  PROVE  /\ newest' \in Nat /\ newest' >= newest /\ newest' >= clock[t]
         /\ clock[t] >= newest => newest' = clock[t]
         /\ DOMAIN requests' \subseteq DOMAIN requests \cup {client[t]}
         /\ client[t] \in DOMAIN requests' /\ requests'[client[t]] = s
         /\ \A k \in DOMAIN requests' : k # client[t] => requests'[k] = requests[k]
         /\ \A k \in DOMAIN requests \ DOMAIN requests' :
              k \in Dropped(t) \/ requests[k][Len(requests[k])] <= clock[t] - Window
<1>1. newest \in Nat /\ clock[t] \in Nat /\ newest' = Max({newest, clock[t]})
  BY DEF LimiterOK, Remember
<1>2. newest' = IF newest >= clock[t] THEN newest ELSE clock[t]
  BY <1>1, MaxOfTwo
<1>3. /\ DOMAIN requests' = (DOMAIN Kept(t) \ Dropped(t)) \cup {client[t]}
      /\ requests'[client[t]] = s
      /\ \A k \in DOMAIN requests' : k # client[t] => requests'[k] = Kept(t)[k]
  BY DEF Remember
<1>4. /\ DOMAIN Kept(t) \subseteq DOMAIN requests
      /\ \A k \in DOMAIN Kept(t) : Kept(t)[k] = requests[k]
  BY DEF Kept, Pruned, Forget
<1>5. \A k \in DOMAIN requests \ DOMAIN Kept(t) : requests[k][Len(requests[k])] <= clock[t] - Window
  <2> TAKE k \in DOMAIN requests \ DOMAIN Kept(t)
  <2>1. requests[k] = <<>> \/ Last(requests[k]) <= clock[t] - Window
    BY DEF Kept, Pruned, Forget
  <2>2. Len(requests[k]) >= 1
    BY DEF LimiterOK
  <2>3. QED
    BY <2>1, <2>2 DEF Last
<1>6. \A k \in DOMAIN requests \ DOMAIN requests' :
        k \in Dropped(t) \/ k \in DOMAIN requests \ DOMAIN Kept(t)
  BY <1>3
<1>7. /\ newest' \in Nat /\ newest' >= newest /\ newest' >= clock[t]
      /\ clock[t] >= newest => newest' = clock[t]
  BY <1>1, <1>2
<1>8. QED
  BY <1>3, <1>4, <1>5, <1>6, <1>7

(* What a step does to the limiter.                                         *)
Elsewhere ==
  /\ UNCHANGED limiter
  /\ \A t \in Threads : pc'[t] = "limit" => pc[t] = "limit"

(* The kinds of steps, as the limiter sees them.                           *)
LEMMA LimiterSteps ==
  ASSUME CacheOK, [Next]_vars
  PROVE  \/ \E t \in Threads, c \in Clients : Arrive(t, c)
         \/ \E t \in Threads : Accept(t) \/ Refuse(t)
         \/ Tick \/ Restart \/ Elsewhere
<1>1. ASSUME NEW t \in Threads,
             \/ RejectInput(t) \/ Lookup(t)
             \/ \E a \in Addresses : LookAtBody(t, a)
      PROVE  Elsewhere
  <2>1. UNCHANGED limiter
    BY <1>1 DEF RejectInput, Lookup, LookAtBody, Incomplete, Complete, Hit, Miss, ReadBody,
       ReadMeta, Fetch, FetchFails, WriteBody, WriteMeta, Rest
  <2>2. \E p : p # "limit" /\ pc' = [pc EXCEPT ![t] = p]
    BY <1>1 DEF RejectInput, Lookup, LookAtBody, Incomplete, Complete, Hit, Miss, ReadBody,
       ReadMeta, Fetch, FetchFails, WriteBody, WriteMeta, End
  <2>3. QED
    BY <2>1, <2>2 DEF Elsewhere, CacheOK
<1>2. CASE UNCHANGED vars
  BY <1>2 DEF vars, Elsewhere
<1>3. QED
  BY <1>1, <1>2 DEF Next

(* The types of the limiter and of its histories.                          *)
LEMMA LimiterType == ASSUME CacheOK, LimiterOK, [Next]_vars PROVE LimiterOK'
<1>0. Maximum \in Nat \ {0} /\ Window \in Nat \ {0} /\ pc \in [Threads -> Places]
  BY WatchRequestsAssumption DEF CacheOK
<1>1. ASSUME NEW t \in Threads, NEW c \in Clients, Arrive(t, c)
      PROVE  LimiterOK'
  BY <1>0, <1>1 DEF LimiterOK, Arrive
<1>2. ASSUME NEW t \in Threads, Accept(t) \/ Refuse(t)
      PROVE  LimiterOK'
  <2>0. pc[t] = "limit" /\ UNCHANGED now
    BY <1>2 DEF Accept, Refuse
  <2>1. /\ Stamps(t) \in Seq(Nat) /\ Len(Stamps(t)) \in 0..Maximum
        /\ client[t] \in Clients /\ clock[t] \in Nat
    BY <1>0, <2>0, StampsShape DEF LimiterOK
  <2>2. PICK s : Remember(t, s) /\ s \in Seq(Nat) /\ Len(s) \in 1..Maximum
    <3>1. CASE Accept(t)
      <4>1. Remember(t, Append(Stamps(t), clock[t])) /\ Len(Stamps(t)) < Maximum
        BY <3>1 DEF Accept
      <4>2. /\ Append(Stamps(t), clock[t]) \in Seq(Nat)
            /\ Len(Append(Stamps(t), clock[t])) = Len(Stamps(t)) + 1
        BY <2>1
      <4>3. Len(Append(Stamps(t), clock[t])) \in 1..Maximum
        BY <1>0, <2>1, <4>1, <4>2
      <4>4. QED
        BY <4>1, <4>2, <4>3, Zenon
    <3>2. CASE Refuse(t)
      <4>1. Remember(t, Stamps(t)) /\ Len(Stamps(t)) >= Maximum
        BY <3>2 DEF Refuse
      <4>2. QED
        BY <1>0, <2>1, <4>1
    <3>3. QED
      BY <1>2, <3>1, <3>2
  <2>3. /\ newest' \in Nat /\ DOMAIN requests' \subseteq Clients
        /\ \A c \in DOMAIN requests' :
             requests'[c] \in Seq(Nat) /\ Len(requests'[c]) \in 1..Maximum
    <3>1. /\ DOMAIN requests' \subseteq DOMAIN requests \cup {client[t]}
          /\ requests'[client[t]] = s
          /\ \A k \in DOMAIN requests' : k # client[t] => requests'[k] = requests[k]
          /\ newest' \in Nat
      BY <2>0, <2>2, OthersShape
    <3>2. QED
      BY <2>1, <2>2, <3>1 DEF LimiterOK
  <2>4. accepted' \in [Clients -> Seq(Nat)]
    <3>1. CASE Accept(t)
      BY <2>1, <3>1 DEF Accept, Log, LimiterOK
    <3>2. CASE Refuse(t)
      BY <3>2 DEF Refuse, LimiterOK
    <3>3. QED
      BY <1>2, <3>1, <3>2
  <2>5. promised' \in [Clients -> Nat]
    <3>1. CASE Accept(t)
      BY <2>1, <3>1 DEF Accept, LimiterOK
    <3>2. CASE Refuse(t)
      <4>1. Stamps(t)[1] \in Nat
        BY <1>0, <2>1, <3>2 DEF Refuse
      <4>2. clock[t] + Max({1, Stamps(t)[1] + Window - clock[t]}) \in Nat
        BY <1>0, <2>1, <4>1, MaxOfTwo
      <4>3. QED
        BY <3>2, <4>2 DEF Refuse, LimiterOK
    <3>3. QED
      BY <1>2, <3>1, <3>2
  <2>6. /\ client' \in [Threads -> Clients \cup {Nobody}] /\ clock' \in [Threads -> Nat]
        /\ \A u \in Threads : pc'[u] = "limit" => client'[u] \in Clients
    <3>1. \E p : p # "limit" /\ pc' = [pc EXCEPT ![t] = p] /\ Decided(t, p)
      BY <1>2 DEF Accept, Refuse, Decided
    <3>2. QED
      BY <1>0, <3>1 DEF Decided, LimiterOK
  <2>7. QED
    BY <2>0, <2>3, <2>4, <2>5, <2>6 DEF LimiterOK
<1>3. CASE Tick
  BY <1>3 DEF Tick, LimiterOK
<1>4. CASE Restart
  BY <1>4 DEF Restart, LimiterOK
<1>5. CASE Elsewhere
  BY <1>5 DEF Elsewhere, limiter, LimiterOK
<1>6. QED
  BY <1>1, <1>2, <1>3, <1>4, <1>5, LimiterSteps

(* Refused tries leave a client's first timestamp where it was.            *)
LEMMA PromiseStep ==
  ASSUME CacheOK, LimiterOK, PromiseInv, [Next]_vars
  PROVE  PromiseInv'
<1>0. Maximum \in Nat \ {0} /\ Window \in Nat \ {0}
  BY WatchRequestsAssumption
<1>1. ASSUME NEW t \in Threads, Accept(t)
      PROVE  PromiseInv'
  <2>1. client[t] \in Clients /\ \A k \in DOMAIN requests' : k # client[t] =>
          k \in DOMAIN requests /\ requests'[k] = requests[k]
    BY <1>1, StampsShape, OthersShape DEF Accept
  <2>2. promised' = [promised EXCEPT ![client[t]] = 0]
    BY <1>1 DEF Accept
  <2>3. QED
    BY <2>1, <2>2 DEF PromiseInv, LimiterOK
<1>2. ASSUME NEW t \in Threads, Refuse(t)
      PROVE  PromiseInv'
  <2> DEFINE c == client[t]
             s == Stamps(t)
  <2>1. /\ c \in Clients /\ clock[t] \in Nat
        /\ s \in Seq(Nat) /\ Len(s) = Maximum
    BY <1>0, <1>2, StampsShape DEF Refuse, LimiterOK
  <2>2. /\ requests'[c] = s
        /\ \A k \in DOMAIN requests' : k # c =>
             k \in DOMAIN requests /\ requests'[k] = requests[k]
    BY <1>2, OthersShape DEF Refuse
  <2>3. promised' = [promised EXCEPT ![c] = clock[t] + Max({1, s[1] + Window - clock[t]})]
    BY <1>2 DEF Refuse
  <2>4. s[1] \in Nat
    BY <1>0, <2>1
  <2>5. s[1] + Window <= clock[t] + Max({1, s[1] + Window - clock[t]})
    <3> DEFINE wait == s[1] + Window - clock[t]
    <3>1. wait \in Int
      BY <1>0, <2>1, <2>4
    <3> HIDE DEF wait
    <3>2. Max({1, wait}) \in Int /\ Max({1, wait}) >= wait
      BY <3>1, MaxOfTwo
    <3>3. s[1] + Window <= clock[t] + Max({1, wait})
      BY <1>0, <2>1, <2>4, <3>2 DEF wait
    <3>4. QED
      BY <3>3 DEF wait
  <2> HIDE DEF s, c
  <2>6. /\ promised'[c] = clock[t] + Max({1, s[1] + Window - clock[t]})
        /\ \A k \in Clients : k # c => promised'[k] = promised[k]
    BY <2>1, <2>3 DEF LimiterOK
  <2>7. QED
    BY <2>1, <2>2, <2>5, <2>6 DEF PromiseInv, LimiterOK
<1>3. ASSUME NEW t \in Threads, NEW c \in Clients, Arrive(t, c)
      PROVE  PromiseInv'
  BY <1>3 DEF PromiseInv, Arrive
<1>4. CASE Tick
  BY <1>4 DEF Tick, PromiseInv
<1>5. CASE Restart
  BY <1>5 DEF Restart, PromiseInv
<1>6. CASE Elsewhere
  BY <1>6 DEF Elsewhere, limiter, PromiseInv
<1>7. QED
  BY <1>1, <1>2, <1>3, <1>4, <1>5, <1>6, LimiterSteps

(* The requests of one client that fall in the window that ends at its      *)
(* i-th one.                                                                *)
InWindow(all, i) ==
  {j \in DOMAIN all : all[j] > all[i] - Window /\ all[j] <= all[i]}

FewInWindow(c) ==
  \A i \in DOMAIN accepted[c] : Cardinality(InWindow(accepted[c], i)) <= Maximum

(* AtMostMaximum, client by client.                                        *)
LEMMA WindowForm ==
  AtMostMaximum <=> \A c \in Clients \ excused : FewInWindow(c)
BY DEF AtMostMaximum, FewInWindow, InWindow

(* A request is accepted only if with it no window is too full.             *)
LEMMA OneMore ==
  ASSUME NEW all \in Seq(Nat), NEW x \in Nat, NEW n \in Nat,
         n < Maximum, n <= Len(all),
         \A i \in 1..Len(all) : all[i] <= x,
         \A i \in 1..(Len(all) - n) : all[i] <= x - Window,
         \A i \in 1..Len(all) : Cardinality(InWindow(all, i)) <= Maximum
  PROVE  \A i \in 1..(Len(all) + 1) :
           Cardinality(InWindow(Append(all, x), i)) <= Maximum
<1> DEFINE more == Append(all, x)
           last == Len(all) + 1
<1>0. Maximum \in Nat \ {0} /\ Window \in Nat \ {0}
  BY WatchRequestsAssumption
<1>1. /\ more \in Seq(Nat) /\ Len(more) = last /\ more[last] = x
      /\ \A i \in 1..Len(all) : more[i] = all[i]
  OBVIOUS
<1>2. last \in Nat /\ DOMAIN more = 1..last /\ \A i \in 1..last : more[i] \in Nat
  BY <1>1
<1>3. \A i \in 1..last : i \in 1..Len(all) \/ i = last
  OBVIOUS
<1> HIDE DEF more
<1>4. Cardinality(InWindow(more, last)) <= Maximum
  <2> DEFINE W == InWindow(more, last)
  <2>1. ASSUME NEW j \in W
        PROVE  j \in (last - n)..last
    <3>1. j \in 1..last /\ more[j] > x - Window
      BY <1>1, <1>2 DEF InWindow
    <3>2. ~(j \in 1..(Len(all) - n))
      <4>1. ASSUME j \in 1..(Len(all) - n)
            PROVE  FALSE
        <5>1. j \in 1..Len(all)
          BY <4>1
        <5>2. all[j] <= x - Window /\ more[j] = all[j] /\ all[j] \in Nat
          BY <1>1, <4>1, <5>1
        <5>3. QED
          BY <1>0, <3>1, <5>2
      <4>2. QED
        BY <4>1
    <3>3. QED
      BY <3>1, <3>2
  <2>2. /\ IsFiniteSet((last - n)..last)
        /\ Cardinality((last - n)..last) = n + 1
    BY <1>2, FS_Interval
  <2> HIDE DEF W
  <2>3. IsFiniteSet(W) /\ Cardinality(W) <= n + 1
    BY <2>1, <2>2, FS_Subset
  <2>4. Cardinality(W) \in Nat
    BY <2>3, FS_CardinalityType
  <2>5. QED
    BY <1>0, <2>3, <2>4 DEF W
<1>5. ASSUME NEW i \in 1..Len(all)
      PROVE  Cardinality(InWindow(more, i)) <= Maximum
  <2>1. more[i] = all[i] /\ all[i] <= x /\ all[i] \in Nat /\ DOMAIN all = 1..Len(all)
    BY <1>1
  <2>2. CASE all[i] = x
    <3>1. InWindow(more, i) = InWindow(more, last)
      BY <1>1, <2>1, <2>2 DEF InWindow
    <3>2. QED
      BY <1>4, <3>1
  <2>3. CASE all[i] < x
    <3>1. ASSUME NEW j
          PROVE  j \in InWindow(more, i) <=> j \in InWindow(all, i)
      <4>1. last \notin InWindow(more, i)
        BY <1>1, <2>1, <2>3 DEF InWindow
      <4>2. CASE j \in 1..Len(all)
        BY <1>1, <1>2, <2>1, <4>2 DEF InWindow
      <4>3. CASE j \notin 1..Len(all)
        BY <1>2, <1>3, <2>1, <4>1, <4>3 DEF InWindow
      <4>4. QED
        BY <4>2, <4>3
    <3>2. InWindow(more, i) = InWindow(all, i)
      BY <3>1
    <3>3. QED
      BY <3>2
  <2>4. QED
    BY <2>1, <2>2, <2>3
<1>6. QED
  BY <1>3, <1>4, <1>5 DEF more
(* What the lock's holder remembers of its client, against all of the       *)
(* client's requests.                                                       *)
LEMMA WindowShape ==
  ASSUME LimiterOK, NEW t \in Threads, pc[t] = "limit", KeepsWindow(client[t]),
         NEW latest \in Nat, latest >= newest, latest >= clock[t]
  PROVE  LET all == accepted[client[t]]
             gone == Len(all) - Len(Stamps(t))
         IN  /\ gone \in Nat
             /\ \A i \in 1..Len(Stamps(t)) : Stamps(t)[i] = all[gone + i]
             /\ \A i \in 1..gone : all[i] <= latest - Window
<1> DEFINE c == client[t]
           all == accepted[c]
           had == Remembered(c)
           before == Len(all) - had
           gone == Len(all) - Len(Stamps(t))
<1>0. Window \in Nat \ {0} /\ newest \in Nat /\ clock[t] \in Nat
  BY WatchRequestsAssumption DEF LimiterOK
<1>1. PICK n \in 0..had :
        /\ Len(Stamps(t)) = had - n
        /\ \A i \in 1..(had - n) : Stamps(t)[i] = requests[c][n + i]
        /\ \A i \in 1..n : requests[c][i] <= clock[t] - Window
                           \/ requests[c][had] <= clock[t] - Window
  BY StampsShape
<1>2. had \in Nat /\ all \in Seq(Nat)
  BY StampsShape DEF LimiterOK
<1>3. /\ before \in Nat
      /\ \A i \in 1..had : requests[c][i] = all[before + i]
      /\ \A i \in 1..before : all[i] <= newest - Window
      /\ \A i, j \in 1..Len(all) : i <= j => all[i] <= all[j]
  BY DEF KeepsWindow
<1> HIDE DEF had, all, c
<1>4. gone = before + n /\ gone \in Nat
  <2>1. Len(Stamps(t)) = had - n /\ n \in Nat /\ n <= had /\ Len(all) \in Nat
    BY <1>1, <1>2
  <2>2. QED
    BY <1>2, <1>3, <2>1
<1>5. \A i \in 1..Len(Stamps(t)) : Stamps(t)[i] = all[gone + i]
  <2> TAKE i \in 1..Len(Stamps(t))
  <2>1. i \in 1..(had - n) /\ n + i \in 1..had
    BY <1>1, <1>2
  <2>2. Stamps(t)[i] = all[before + (n + i)]
    BY <1>1, <1>3, <2>1
  <2>3. before + (n + i) = gone + i
    <3>1. i \in Int /\ n \in Int /\ before \in Int /\ gone = before + n
      BY <1>2, <1>3, <1>4, <2>1
    <3> HIDE DEF before, gone
    <3>2. QED
      BY <3>1
  <2>4. QED
    BY <2>2, <2>3
<1>6. ASSUME NEW i \in 1..gone
      PROVE  all[i] <= latest - Window
  <2>1. i \in 1..Len(all) /\ all[i] \in Nat
    BY <1>1, <1>2, <1>3, <1>4
  <2>2. CASE i <= before
    BY <1>0, <1>3, <2>1, <2>2
  <2>3. CASE i > before
    <3>1. i - before \in 1..n /\ i - before \in 1..had /\ had >= 1
      BY <1>1, <1>2, <1>3, <1>4, <2>3
    <3>2. requests[c][i - before] = all[i]
      <4>1. before + (i - before) = i
        BY <1>3
      <4>2. QED
        BY <1>3, <3>1, <4>1
    <3>3. requests[c][had] = all[Len(all)]
      <4>1. before + had = Len(all) /\ had \in 1..had
        BY <1>2, <1>3, <3>1
      <4>2. QED
        BY <1>3, <4>1
    <3>4. all[i] <= all[Len(all)] /\ all[Len(all)] \in Nat
      BY <1>2, <1>3, <2>1
    <3>5. all[i] <= clock[t] - Window
      BY <1>0, <1>1, <2>1, <3>1, <3>2, <3>3, <3>4
    <3>6. QED
      BY <1>0, <2>1, <3>5
  <2>4. QED
    BY <1>3, <2>1, <2>2, <2>3
<1>7. QED
  BY <1>4, <1>5, <1>6 DEF all, c

(* A client of whom nothing changes but the time.                           *)
LEMMA KeepsWindowOthers ==
  ASSUME LimiterOK, NEW t \in Threads, pc[t] = "limit", NEW s, Remember(t, s),
         NEW k \in Clients, k # client[t], k \notin Dropped(t),
         KeepsWindow(k), accepted'[k] = accepted[k]
  PROVE  KeepsWindow(k)'
<1>0. Window \in Nat \ {0} /\ newest \in Nat /\ clock[t] \in Nat /\ accepted[k] \in Seq(Nat)
  BY WatchRequestsAssumption DEF LimiterOK
<1>1. /\ newest' \in Nat /\ newest' >= newest /\ newest' >= clock[t]
      /\ DOMAIN requests' \subseteq DOMAIN requests \cup {client[t]}
      /\ k \in DOMAIN requests' => requests'[k] = requests[k]
      /\ k \in DOMAIN requests \ DOMAIN requests' =>
           requests[k][Len(requests[k])] <= clock[t] - Window
  BY OthersShape
<1> DEFINE all == accepted[k]
           had == Remembered(k)
           gone == Len(all) - had
<1>2. /\ gone \in Nat
      /\ \A i \in 1..had : requests[k][i] = all[gone + i]
      /\ \A i \in 1..gone : all[i] <= newest - Window
      /\ \A i \in 1..Len(all) : all[i] <= newest
      /\ \A i, j \in 1..Len(all) : i <= j => all[i] <= all[j]
  BY DEF KeepsWindow
<1>3. had \in Nat /\ had <= Len(all) /\ Len(all) \in Nat
  BY <1>0, <1>2 DEF Remembered, LimiterOK
<1>4. \A i \in 1..Len(all) : all[i] \in Nat /\ all[i] <= newest'
  BY <1>0, <1>1, <1>2
<1>5. \A i \in 1..gone : all[i] <= newest' - Window
  BY <1>0, <1>1, <1>2, <1>3, <1>4
<1>6. CASE k \in DOMAIN requests' \/ k \notin DOMAIN requests
  <2>1. /\ Remembered(k)' = had
        /\ \A i \in 1..had : requests'[k][i] = requests[k][i]
    BY <1>1, <1>6 DEF Remembered
  <2>2. \A i \in 1..had : requests'[k][i] = all[gone + i]
    BY <1>2, <2>1
  <2> HIDE DEF had
  <2>3. QED
    BY <1>2, <1>4, <1>5, <2>1, <2>2 DEF KeepsWindow
<1>7. CASE k \in DOMAIN requests \ DOMAIN requests'
  <2>1. /\ had = Len(requests[k]) /\ had >= 1 /\ Remembered(k)' = 0
    BY <1>7 DEF Remembered, LimiterOK
  <2>2. requests[k][had] = all[Len(all)]
    <3>1. gone + had = Len(all) /\ had \in 1..had
      BY <1>3, <2>1
    <3> HIDE DEF gone, had
    <3>2. QED
      BY <1>2, <3>1
  <2>3. all[Len(all)] <= clock[t] - Window
    BY <1>1, <1>7, <2>1, <2>2
  <2> HIDE DEF had, gone
  <2>4. \A i \in 1..Len(all) : all[i] <= newest' - Window
    <3> TAKE i \in 1..Len(all)
    <3>1. all[i] <= all[Len(all)] /\ all[i] \in Nat /\ all[Len(all)] \in Nat
      BY <1>2, <1>3, <1>4
    <3>2. QED
      BY <1>0, <1>1, <2>3, <3>1
  <2>5. Len(all) - 0 = Len(all) /\ 1..0 = {}
    BY <1>3
  <2>6. QED
    BY <1>2, <1>3, <1>4, <2>1, <2>4, <2>5 DEF KeepsWindow
<1>8. QED
  BY <1>6, <1>7

(* Nobody forgets requests in the window, but an excused client's.         *)
LEMMA WindowStep ==
  ASSUME CacheOK, LimiterOK, WindowInv, [Next]_vars
  PROVE  WindowInv'
<1>0. /\ Maximum \in Nat \ {0} /\ Window \in Nat \ {0}
      /\ \A c \in Clients \ excused : KeepsWindow(c) /\ FewInWindow(c)
  BY WatchRequestsAssumption, WindowForm DEF WindowInv
<1>f. (\A c \in Clients \ excused' : KeepsWindow(c)' /\ FewInWindow(c)') => WindowInv'
  <2>1. AtMostMaximum' <=> \A c \in Clients \ excused' : FewInWindow(c)'
    BY DEF AtMostMaximum, FewInWindow, InWindow
  <2>2. QED
    BY <2>1 DEF WindowInv
<1>1. ASSUME NEW t \in Threads, Accept(t)
      PROVE  WindowInv'
  <2>0. PICK c \in Clients : c = client[t]
    BY <1>1, StampsShape DEF Accept
  <2> DEFINE x == clock[t]
             all == accepted[c]
             n == Len(Stamps(t))
             s == Append(Stamps(t), x)
  <2>1. /\ pc[t] = "limit" /\ n < Maximum
        /\ Remember(t, s)
        /\ excused' = excused \cup Dropped(t) \cup (IF x < newest THEN {c} ELSE {})
        /\ \A k \in Clients \ excused' :
             accepted'[k] = IF k = c THEN Append(accepted[k], x) ELSE accepted[k]
    BY <1>1, <2>0 DEF Accept, Log
  <2>2. /\ c \in Clients /\ x \in Nat /\ newest \in Nat
        /\ all \in Seq(Nat) /\ Stamps(t) \in Seq(Nat)
    BY <2>1, StampsShape DEF LimiterOK
  <2> HIDE DEF s
  <2>3. ASSUME NEW k \in Clients \ excused', k # c
        PROVE  KeepsWindow(k)' /\ FewInWindow(k)'
    <3>1. k \in Clients \ excused /\ k \notin Dropped(t) /\ accepted'[k] = accepted[k]
      BY <2>1, <2>3
    <3>2. KeepsWindow(k)'
      BY <1>0, <2>0, <2>1, <2>3, <3>1, KeepsWindowOthers
    <3>3. FewInWindow(k)'
      BY <1>0, <3>1 DEF FewInWindow, InWindow
    <3>4. QED
      BY <3>2, <3>3
  <2>4. ASSUME c \notin excused'
        PROVE  KeepsWindow(c)' /\ FewInWindow(c)'
    <3>1. /\ c \in Clients \ excused /\ x >= newest
          /\ accepted'[c] = Append(all, x)
      <4>1. c \notin excused /\ c \notin (IF x < newest THEN {c} ELSE {})
        BY <2>1, <2>4
      <4>2. x >= newest
        BY <2>2, <4>1
      <4>3. accepted'[c] = Append(all, x)
        BY <2>1, <2>4
      <4>4. QED
        BY <4>1, <4>2, <4>3
    <3>2. KeepsWindow(c) /\ FewInWindow(c)
      BY <1>0, <3>1
    <3>3. newest' = x /\ c \in DOMAIN requests' /\ requests'[c] = s
      BY <2>0, <2>1, <3>1, OthersShape
    <3> DEFINE gone == Len(all) - n
    <3>4. /\ gone \in Nat
          /\ \A i \in 1..n : Stamps(t)[i] = all[gone + i]
          /\ \A i \in 1..gone : all[i] <= x - Window
      BY <2>0, <2>1, <2>2, <3>1, <3>2, WindowShape
    <3>5. /\ \A i \in 1..Len(all) : all[i] \in Nat /\ all[i] <= newest /\ all[i] <= x
          /\ \A i, j \in 1..Len(all) : i <= j => all[i] <= all[j]
      BY <2>2, <3>1, <3>2 DEF KeepsWindow
    <3>6. /\ Len(s) = n + 1 /\ s[n + 1] = x
          /\ \A i \in 1..n : s[i] = Stamps(t)[i]
      BY <2>2 DEF s
    <3> DEFINE more == Append(all, x)
    <3>7. /\ Len(more) = Len(all) + 1 /\ more[Len(all) + 1] = x
          /\ \A i \in 1..Len(all) : more[i] = all[i]
          /\ DOMAIN more = 1..(Len(all) + 1)
      BY <2>2
    <3>8. n \in Nat /\ n <= Len(all) /\ Len(all) \in Nat
      BY <2>2, <3>4
    <3>9. FewInWindow(c)'
      <4>1. DOMAIN all = 1..Len(all)
        BY <2>2
      <4>2. \A i \in 1..Len(all) : Cardinality(InWindow(all, i)) <= Maximum
        BY <3>2, <4>1 DEF FewInWindow
      <4>3. \A i \in 1..(Len(all) + 1) : Cardinality(InWindow(more, i)) <= Maximum
        BY <2>1, <2>2, <3>4, <3>5, <3>8, <4>2, OneMore
      <4>4. accepted'[c] = more
        BY <3>1
      <4> HIDE DEF more, all, gone, n
      <4>5. \A i \in DOMAIN accepted'[c] : Cardinality(InWindow(accepted'[c], i)) <= Maximum
        BY <3>7, <4>3, <4>4
      <4>6. QED
        BY <4>5 DEF FewInWindow, InWindow
    <3>10. KeepsWindow(c)'
      <4> HIDE DEF more, all, n
      <4>1. Remembered(c)' = n + 1 /\ Len(more) - (n + 1) = gone
        BY <3>3, <3>6, <3>7, <3>8 DEF Remembered
      <4>2. \A i \in 1..(n + 1) : requests'[c][i] = more[gone + i]
        <5> TAKE i \in 1..(n + 1)
        <5>1. CASE i \in 1..n
          <6>1. gone + i \in 1..Len(all)
            BY <3>4, <3>8, <5>1
          <6>2. QED
            BY <3>3, <3>4, <3>6, <3>7, <5>1, <6>1
        <5>2. CASE i = n + 1
          <6>1. gone + (n + 1) = Len(all) + 1
            BY <3>8
          <6>2. QED
            BY <3>3, <3>6, <3>7, <5>2, <6>1
        <5>3. QED
          BY <3>8, <5>1, <5>2
      <4>3. \A i \in 1..gone : more[i] <= newest' - Window
        BY <3>3, <3>4, <3>7, <3>8
      <4>4. \A i \in 1..(Len(all) + 1) : more[i] <= newest'
        <5> TAKE i \in 1..(Len(all) + 1)
        <5>1. CASE i \in 1..Len(all)
          BY <3>3, <3>5, <3>7, <5>1
        <5>2. CASE i = Len(all) + 1
          BY <2>2, <3>3, <3>7, <5>2
        <5>3. QED
          BY <3>8, <5>1, <5>2
      <4>5. \A i, j \in 1..(Len(all) + 1) : i <= j => more[i] <= more[j]
        <5> TAKE i, j \in 1..(Len(all) + 1)
        <5> HAVE i <= j
        <5>1. CASE j \in 1..Len(all)
          <6>1. i \in 1..Len(all)
            BY <3>8, <5>1
          <6>2. QED
            BY <3>5, <3>7, <5>1, <6>1
        <5>2. CASE j = Len(all) + 1
          BY <3>3, <3>7, <4>4, <5>2
        <5>3. QED
          BY <3>8, <5>1, <5>2
      <4>6. accepted'[c] = more
        BY <3>1 DEF more, all
      <4> HIDE DEF gone
      <4>7. QED
        BY <3>4, <3>7, <4>1, <4>2, <4>3, <4>4, <4>5, <4>6 DEF KeepsWindow
    <3>11. QED
      BY <3>9, <3>10
  <2>5. QED
    BY <1>f, <2>3, <2>4
<1>2. ASSUME NEW t \in Threads, Refuse(t)
      PROVE  WindowInv'
  <2>0. PICK c \in Clients : c = client[t]
    BY <1>2, StampsShape DEF Refuse
  <2> DEFINE s == Stamps(t)
             n == Len(s)
             all == accepted[c]
  <2>1. /\ pc[t] = "limit" /\ n >= Maximum /\ Remember(t, s)
        /\ UNCHANGED <<accepted, excused>>
    BY <1>2 DEF Refuse
  <2>2. c \in Clients /\ s \in Seq(Nat) /\ all \in Seq(Nat)
    BY <2>1, StampsShape DEF LimiterOK
  <2>3. Dropped(t) = {}
    <3>1. s # <<>>
      BY <1>0, <2>1, <2>2
    <3>2. QED
      BY <3>1 DEF Stamps, Dropped, Evicted
  <2>4. \A k \in Clients \ excused' : FewInWindow(k)'
    BY <1>0, <2>1 DEF FewInWindow, InWindow
  <2>5. \A k \in Clients \ excused' : k # c => KeepsWindow(k)'
    BY <1>0, <2>0, <2>1, <2>3, KeepsWindowOthers
  <2>6. ASSUME c \notin excused'
        PROVE  KeepsWindow(c)'
    <3>1. KeepsWindow(c)
      BY <1>0, <2>1, <2>2, <2>6
    <3>2. /\ newest' \in Nat /\ newest' >= newest /\ newest' >= clock[t]
          /\ c \in DOMAIN requests' /\ requests'[c] = s
      BY <2>0, <2>1, OthersShape
    <3> DEFINE gone == Len(all) - n
    <3>3. /\ gone \in Nat
          /\ \A i \in 1..n : s[i] = all[gone + i]
          /\ \A i \in 1..gone : all[i] <= newest' - Window
      BY <2>0, <2>1, <3>1, <3>2, WindowShape
    <3>4. /\ \A i \in 1..Len(all) : all[i] <= newest'
          /\ \A i, j \in 1..Len(all) : i <= j => all[i] <= all[j]
      <4>1. newest \in Nat /\ \A i \in 1..Len(all) : all[i] \in Nat
        BY <2>2 DEF LimiterOK
      <4>2. QED
        BY <3>1, <3>2, <4>1 DEF KeepsWindow
    <3>5. Remembered(c)' = n /\ accepted'[c] = all
      BY <2>1, <3>2 DEF Remembered
    <3> HIDE DEF all, s, n
    <3>6. QED
      BY <3>2, <3>3, <3>4, <3>5 DEF KeepsWindow
  <2>7. QED
    BY <1>f, <2>4, <2>5, <2>6
<1>3. ASSUME UNCHANGED <<requests, accepted, newest, excused>>
      PROVE  WindowInv'
  <2>1. AtMostMaximum' <=> AtMostMaximum
    BY <1>3 DEF AtMostMaximum
  <2>2. \A c \in Clients : KeepsWindow(c)' <=> KeepsWindow(c)
    BY <1>3 DEF KeepsWindow, Remembered
  <2>3. QED
    BY <1>3, <2>1, <2>2 DEF WindowInv
<1>4. CASE Restart
  <2>1. /\ requests' = << >> /\ newest' = 0 /\ excused' = {}
        /\ \A c \in Clients : accepted'[c] = <<>>
    BY <1>4 DEF Restart
  <2>2. \A c \in Clients : FewInWindow(c)'
    BY <2>1 DEF FewInWindow
  <2>3. \A c \in Clients : KeepsWindow(c)'
    BY <1>0, <2>1 DEF KeepsWindow, Remembered
  <2>4. QED
    BY <1>f, <2>2, <2>3
<1>5. ASSUME NEW t \in Threads, NEW c \in Clients, Arrive(t, c)
      PROVE  WindowInv'
  BY <1>3, <1>5 DEF Arrive
<1>6. CASE Tick \/ Elsewhere
  BY <1>3, <1>6 DEF Tick, Elsewhere, limiter
<1>7. QED
  BY <1>1, <1>2, <1>4, <1>5, <1>6, LimiterSteps

(* Since the service was started, no client has more than the maximum       *)
(* accepted in any window, whatever other clients do and however threads    *)
(* interleave, unless it was evicted for another client or one of its own   *)
(* requests overtook another between the clock and the lock                 *)
(* (web/limits.py 24-62).                                                   *)
THEOREM LimitHolds == Spec => []AtMostMaximum
<1>1. Init => CacheOK /\ LimiterOK /\ WindowInv
  <2> SUFFICES ASSUME Init
               PROVE  CacheOK /\ LimiterOK /\ WindowInv
    OBVIOUS
  <2>1. CacheOK
    BY DEF Init, CacheOK, Places, LookupPlaces, Absent, Empty
  <2>2. LimiterOK
    BY DEF Init, LimiterOK
  <2>3. AtMostMaximum
    BY DEF Init, AtMostMaximum
  <2>4. \A c \in Clients : KeepsWindow(c)
    BY WatchRequestsAssumption DEF Init, KeepsWindow, Remembered
  <2>5. QED
    BY <2>1, <2>2, <2>3, <2>4 DEF WindowInv
<1>2. WindowInv => AtMostMaximum
  BY DEF WindowInv
<1>3. QED
  BY <1>1, <1>2, CacheType, LimiterType, WindowStep, PTL DEF Spec

(* A refused client that comes back when Retry-After told it to is below    *)
(* the limit then: refused tries do not count, and nothing but its own      *)
(* accepted requests does (web/limits.py 24-45).                            *)
THEOREM RetryAfterHolds == Spec => []RetryAfterIsHonest
<1>1. Init => CacheOK /\ LimiterOK /\ PromiseInv
  <2> SUFFICES ASSUME Init
               PROVE  CacheOK /\ LimiterOK /\ PromiseInv
    OBVIOUS
  <2>1. CacheOK
    BY DEF Init, CacheOK, Places, LookupPlaces, Absent, Empty
  <2>2. LimiterOK /\ PromiseInv
    BY DEF Init, LimiterOK, PromiseInv
  <2>3. QED
    BY <2>1, <2>2
<1>2. LimiterOK /\ PromiseInv => RetryAfterIsHonest
  <2> SUFFICES ASSUME LimiterOK, PromiseInv,
                      NEW c \in DOMAIN requests, promised[c] # 0, now >= promised[c]
               PROVE  Len(Recent(requests[c], now - Window)) < Maximum
    BY DEF RetryAfterIsHonest
  <2> DEFINE stamps == requests[c]
  <2>1. /\ Maximum \in Nat \ {0} /\ Window \in Nat \ {0}
        /\ stamps \in Seq(Nat) /\ promised[c] \in Nat /\ now - Window \in Int /\ now \in Nat
    BY WatchRequestsAssumption DEF LimiterOK
  <2>2. Len(stamps) = Maximum /\ stamps[1] + Window <= promised[c]
    BY DEF PromiseInv
  <2>3. stamps[1] \in Nat /\ stamps[1] <= now - Window
    BY <2>1, <2>2
  <2>4. PICK n \in 0..Len(stamps) :
          /\ Len(Recent(stamps, now - Window)) = Len(stamps) - n
          /\ n < Len(stamps) => stamps[n + 1] > now - Window
    BY <2>1, RecentShape
  <2>5. n # 0
    BY <2>1, <2>2, <2>3, <2>4
  <2>6. QED
    BY <2>1, <2>2, <2>4, <2>5
<1>3. QED
  BY <1>1, <1>2, CacheType, LimiterType, PromiseStep, PTL DEF Spec
(***************************************************************************)
(* The bounds of the memory.                                               *)
(***************************************************************************)
BoundInv == TypeOK /\ IsFiniteSet(DOMAIN requests)

(* Induction, in the form in which it can be used: a set of naturals has a *)
(* least member.                                                           *)
LEMMA Least ==
  ASSUME NEW S \in SUBSET Nat, S # {}
  PROVE  \E m \in S : \A n \in S : m <= n
<1> DEFINE R == {ss \in Nat \X Nat : ss[1] < ss[2]}
<1>1. IsWellFoundedOn(R, Nat)
  BY NatLessThanWellFounded DEF OpToRel
<1> HIDE DEF R
<1>2. PICK m \in S : \A n \in S : <<n, m>> \notin R
  BY <1>1, WFMin
<1>3. \A n \in S : ~(n < m)
  BY <1>2 DEF R
<1>4. QED
  BY <1>3

(* _prune_keys finds a key to evict when it has to: one of those it kept.   *)
LEMMA DroppedIsKept ==
  ASSUME LimiterOK, BoundInv, NEW t \in Threads
  PROVE  LET kept == DOMAIN Kept(t)
         IN  /\ kept \subseteq DOMAIN requests
             /\ IsFiniteSet(kept) /\ Cardinality(kept) <= MaxKeys
             /\ \/ Dropped(t) = {}
                   /\ (client[t] \in kept \/ Cardinality(kept) < MaxKeys)
                \/ \E k \in kept : Dropped(t) = {k} /\ client[t] \notin kept
<1> DEFINE kept == DOMAIN Kept(t)
<1>1. kept \subseteq DOMAIN requests /\ \A k \in kept : Kept(t)[k] = requests[k]
  BY DEF Kept, Pruned, Forget
<1>2. IsFiniteSet(kept) /\ Cardinality(kept) <= Cardinality(DOMAIN requests)
  BY <1>1, FS_Subset DEF BoundInv
<1>3. Cardinality(kept) \in Nat /\ Cardinality(DOMAIN requests) \in Nat /\ MaxKeys \in Nat \ {0}
  BY <1>2, FS_CardinalityType, WatchRequestsAssumption DEF BoundInv
<1>4. Cardinality(kept) <= MaxKeys
  BY <1>2, <1>3 DEF BoundInv, TypeOK
<1>5. CASE client[t] \in kept \/ Cardinality(kept) < MaxKeys
  BY <1>1, <1>2, <1>4, <1>5 DEF Dropped, Evicted
<1>6. CASE ~(client[t] \in kept \/ Cardinality(kept) < MaxKeys)
  <2> DEFINE Stalest(k) == \A other \in kept : Last(Kept(t)[k]) <= Last(Kept(t)[other])
             lasts == {Last(Kept(t)[k]) : k \in kept}
  <2>1. kept # {}
    BY <1>3, <1>6, FS_EmptySet
  <2>2. \A k \in kept : Last(Kept(t)[k]) \in Nat
    <3>1. SUFFICES ASSUME NEW k \in kept
                   PROVE  Last(Kept(t)[k]) \in Nat
      OBVIOUS
    <3>2. requests[k] \in Seq(Nat) /\ Len(requests[k]) \in 1..Maximum
      BY <1>1 DEF LimiterOK
    <3>3. requests[k][Len(requests[k])] \in Nat
      BY <3>2, WatchRequestsAssumption
    <3>4. QED
      BY <1>1, <3>3 DEF Last
  <2>3. lasts \in SUBSET Nat /\ lasts # {}
    BY <2>1, <2>2
  <2>4. PICK m \in lasts : \A n \in lasts : m <= n
    BY <2>3, Least
  <2>5. \E k \in kept : Stalest(k)
    BY <2>4
  <2>6. (CHOOSE k \in kept : Stalest(k)) \in kept
    BY <2>5
  <2>7. Dropped(t) = {CHOOSE k \in kept : Stalest(k)}
    BY <1>6 DEF Dropped, Evicted
  <2>8. QED
    BY <1>1, <1>2, <1>4, <1>6, <2>6, <2>7
<1>7. QED
  BY <1>5, <1>6

(* However many clients come, the limiter remembers MaxKeys of them.        *)
LEMMA MemoryStep ==
  ASSUME LimiterOK, BoundInv, NEW t \in Threads, NEW stamps, Remember(t, stamps)
  PROVE  IsFiniteSet(DOMAIN requests') /\ Cardinality(DOMAIN requests') <= MaxKeys
<1> DEFINE kept == DOMAIN Kept(t)
           c == client[t]
           left == kept \ Dropped(t)
<1>1. DOMAIN requests' = left \cup {c}
  BY DEF Remember
<1>2. /\ IsFiniteSet(kept) /\ Cardinality(kept) <= MaxKeys
      /\ \/ Dropped(t) = {} /\ (c \in kept \/ Cardinality(kept) < MaxKeys)
         \/ \E k \in kept : Dropped(t) = {k} /\ c \notin kept
  BY DroppedIsKept
<1>3. Cardinality(kept) \in Nat /\ MaxKeys \in Nat \ {0}
  BY <1>2, FS_CardinalityType, WatchRequestsAssumption
<1> HIDE DEF kept, c
<1>4. CASE Dropped(t) = {} /\ c \in kept
  <2>1. left \cup {c} = kept
    BY <1>4
  <2>2. QED
    BY <1>1, <1>2, <2>1
<1>5. CASE Dropped(t) = {} /\ c \notin kept /\ Cardinality(kept) < MaxKeys
  <2>1. left = kept
    BY <1>5
  <2>2. IsFiniteSet(kept \cup {c}) /\ Cardinality(kept \cup {c}) = Cardinality(kept) + 1
    BY <1>2, <1>5, FS_AddElement
  <2>3. QED
    BY <1>1, <1>3, <1>5, <2>1, <2>2
<1>6. ASSUME NEW k \in kept, Dropped(t) = {k}, c \notin kept
      PROVE  IsFiniteSet(DOMAIN requests') /\ Cardinality(DOMAIN requests') <= MaxKeys
  <2>1. IsFiniteSet(left) /\ Cardinality(left) = Cardinality(kept) - 1
    BY <1>2, <1>6, FS_RemoveElement
  <2>2. c \notin left
    BY <1>6
  <2>3. IsFiniteSet(left \cup {c}) /\ Cardinality(left \cup {c}) = Cardinality(left) + 1
    BY <2>1, <2>2, FS_AddElement
  <2>4. QED
    BY <1>1, <1>2, <1>3, <2>1, <2>3
<1>7. QED
  BY <1>2, <1>4, <1>5, <1>6

(* What a request outside the limiter does keeps its bounds.                *)
LEMMA LookupBounds ==
  ASSUME CacheOK, BoundInv, NEW t \in Threads,
         \/ RejectInput(t) \/ Lookup(t)
         \/ \E a \in Addresses : LookAtBody(t, a)
  PROVE  BoundInv'
<1>0. /\ MaxFetches \in Nat /\ UNCHANGED <<limiter, restarts>>
      /\ 0 \in 0..MaxFetches /\ Absent \in Files /\ Empty \in Files
  BY WatchRequestsAssumption DEF RejectInput, Lookup, LookAtBody, Incomplete, Complete, Hit, Miss,
     ReadBody, ReadMeta, Fetch, FetchFails, WriteBody, WriteMeta, Rest, Files
<1>1. /\ now' \in 1..MaxTime
      /\ DOMAIN requests' \subseteq Clients /\ Cardinality(DOMAIN requests') <= MaxKeys
      /\ IsFiniteSet(DOMAIN requests')
      /\ \A c \in DOMAIN requests' : Len(requests'[c]) <= Maximum
      /\ client' \in [Threads -> Clients \cup {Nobody}] /\ clock' \in [Threads -> 0..MaxTime]
      /\ restarts' \in 0..MaxRestarts /\ excused' \subseteq Clients
  BY <1>0 DEF limiter, BoundInv, TypeOK
<1>2. SUFFICES /\ address' \in [Threads -> Addresses \cup {Nobody}]
               /\ answer' \in [Threads -> 0..MaxFetches]
               /\ body' \in [Addresses -> Files] /\ meta' \in [Addresses -> Files]
               /\ fetches' \in 0..MaxFetches /\ crowded' \subseteq Addresses
  BY <1>1 DEF BoundInv, TypeOK
<1> USE DEF BoundInv, TypeOK
<1>3. CASE RejectInput(t) \/ Incomplete(t) \/ FetchFails(t) \/ ReadMeta(t)
  BY <1>0, <1>3 DEF RejectInput, Incomplete, FetchFails, ReadMeta, End, files
<1>4. CASE Complete(t) \/ Hit(t)
  BY <1>4 DEF Complete, Hit, files, cache
<1>5. CASE Miss(t)
  BY <1>5 DEF Miss, CacheOK, LookupPlaces
<1>6. CASE ReadBody(t)
  <2>1. CASE body[address[t]] = Empty
    BY <1>0, <1>6, <2>1 DEF ReadBody, End, files
  <2>2. CASE body[address[t]] # Empty
    <3>1. address[t] \in Addresses /\ body[address[t]] \in Files \ {Absent, Empty}
      BY <1>6, <2>2 DEF ReadBody, CacheOK, LookupPlaces
    <3>2. body[address[t]] \in 0..MaxFetches
      BY <3>1 DEF Files
    <3>3. QED
      BY <1>6, <2>2, <3>2 DEF ReadBody, files
  <2>3. QED
    BY <2>1, <2>2
<1>7. CASE Fetch(t)
  BY <1>0, <1>7 DEF Fetch
<1>8. CASE WriteBody(t) \/ WriteMeta(t)
  <2>1. answer[t] \in 0..MaxFetches
    OBVIOUS
  <2>2. answer[t] \in Files
    BY <1>0, <2>1 DEF Files, Empty
  <2>3. QED
    BY <1>0, <1>8, <2>2 DEF WriteBody, WriteMeta, End
<1>9. ASSUME NEW a \in Addresses, LookAtBody(t, a)
      PROVE  BoundInv'
  BY <1>1, <1>9 DEF LookAtBody
<1>10. QED
  BY <1>2, <1>3, <1>4, <1>5, <1>6, <1>7, <1>8, <1>9 DEF Lookup

(* Every step keeps the bounds.                                            *)
LEMMA BoundStep ==
  ASSUME CacheOK, LimiterOK, BoundInv, [Next]_vars
  PROVE  BoundInv'
<1>0. MaxTime \in Nat \ {0} /\ MaxFetches \in Nat /\ MaxRestarts \in Nat /\ MaxKeys \in Nat \ {0}
  BY WatchRequestsAssumption
<1>1. LimiterOK'
  BY LimiterType
<1>2. ASSUME NEW t \in Threads, NEW c \in Clients, Arrive(t, c)
      PROVE  BoundInv'
  BY <1>0, <1>2 DEF Arrive, cache, BoundInv, TypeOK
<1>3. ASSUME NEW t \in Threads, Accept(t) \/ Refuse(t)
      PROVE  BoundInv'
  <2>1. /\ pc[t] = "limit" /\ client[t] \in Clients
        /\ UNCHANGED <<now, cache, restarts>>
    BY <1>3 DEF Accept, Refuse, LimiterOK
  <2>2. PICK stamps : Remember(t, stamps)
    BY <1>3 DEF Accept, Refuse
  <2>3. IsFiniteSet(DOMAIN requests') /\ Cardinality(DOMAIN requests') <= MaxKeys
    BY <2>2, MemoryStep
  <2>4. DOMAIN requests' \subseteq Clients /\ \A c \in DOMAIN requests' : Len(requests'[c]) <= Maximum
    BY <1>1, WatchRequestsAssumption DEF LimiterOK
  <2>5. /\ client' \in [Threads -> Clients \cup {Nobody}]
        /\ clock' \in [Threads -> 0..MaxTime]
    <3>1. /\ client' = [client EXCEPT ![t] = Nobody]
          /\ clock' = [clock EXCEPT ![t] = 0]
      BY <1>3 DEF Accept, Refuse, Decided
    <3>2. QED
      BY <1>0, <3>1 DEF BoundInv, TypeOK
  <2>6. excused' \subseteq Clients
    <3>1. Dropped(t) \subseteq Clients
      BY DroppedIsKept DEF LimiterOK
    <3>2. excused' \subseteq excused \cup Dropped(t) \cup {client[t]}
      BY <1>3 DEF Accept, Refuse
    <3>3. QED
      BY <2>1, <3>1, <3>2 DEF BoundInv, TypeOK
  <2>7. QED
    BY <2>1, <2>3, <2>4, <2>5, <2>6 DEF cache, BoundInv, TypeOK
<1>4. CASE Tick
  BY <1>0, <1>4 DEF Tick, cache, BoundInv, TypeOK
<1>5. CASE Restart
  <2>1. DOMAIN requests' = {}
    BY <1>5 DEF Restart
  <2>2. IsFiniteSet(DOMAIN requests') /\ Cardinality(DOMAIN requests') <= MaxKeys
    BY <1>0, <2>1, FS_EmptySet
  <2>3. QED
    BY <1>0, <1>5, <2>1, <2>2 DEF Restart, files, BoundInv, TypeOK
<1>6. CASE UNCHANGED vars
  BY <1>6 DEF vars, limiter, cache, BoundInv, TypeOK
<1>7. QED
  BY <1>2, <1>3, <1>4, <1>5, <1>6, LookupBounds DEF Next

(* The limiter's memory stays within max_keys and the limit, whatever       *)
(* clients come and however their requests interleave, since a key is       *)
(* evicted for each new one (web/limits.py 24-62); and the types.           *)
THEOREM TypeCorrect == Spec => []TypeOK
<1>1. Init => CacheOK /\ LimiterOK /\ BoundInv
  <2> SUFFICES ASSUME Init
               PROVE  CacheOK /\ LimiterOK /\ BoundInv
    OBVIOUS
  <2>1. CacheOK
    BY DEF Init, CacheOK, Places, LookupPlaces, Absent, Empty
  <2>2. LimiterOK
    BY DEF Init, LimiterOK
  <2>3. DOMAIN requests = {}
    BY DEF Init
  <2>4. IsFiniteSet(DOMAIN requests) /\ Cardinality(DOMAIN requests) = 0
    BY <2>3, FS_EmptySet
  <2>5. BoundInv
    BY <2>3, <2>4, WatchRequestsAssumption DEF Init, BoundInv, TypeOK, Files, Absent, Empty
  <2>6. QED
    BY <2>1, <2>2, <2>5
<1>2. BoundInv => TypeOK
  BY DEF BoundInv
<1>3. QED
  BY <1>1, <1>2, CacheType, LimiterType, BoundStep, PTL DEF Spec
=============================================================================
