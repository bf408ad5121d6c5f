--------------------------- MODULE PipelineProofs ---------------------------
(***************************************************************************)
(* What holds of the scheduled pipeline for any number of runs, cities,    *)
(* captures and faults.  The last section shows that a store is the log of *)
(* EvidenceLog, where only one process at a time captures into it.         *)
(***************************************************************************)
EXTENDS Pipeline, TLAPS, SequenceTheorems

(***************************************************************************)
(* The commands of the script.                                             *)
(***************************************************************************)
LEMMA ProgramsType ==
  /\ Len(Programs) \in Nat \ {0} /\ DOMAIN Programs = 1..Len(Programs)
  /\ Programs[1] = "snapshot"
  /\ \A i \in 1..Len(Programs) : Programs[i] = "snapshot" => i = 1
  /\ \A i \in 1..Len(Programs) : Programs[i] # "notify"
  /\ Later \subseteq {"apply", "read", "place", "backup"}
  /\ WithBucket <=> "backup" \in Later
<1> DEFINE Names == {"snapshot", "apply", "read", "place", "backup"}
           base == <<"snapshot", "apply", "read", "place">>
           rest == IF WithBucket THEN <<"backup">> ELSE <<>>
<1>1. /\ base \in Seq(Names) /\ Len(base) = 4
      /\ base[1] = "snapshot" /\ base[2] = "apply" /\ base[3] = "read" /\ base[4] = "place"
  OBVIOUS
<1>2. rest \in Seq(Names) /\ Len(rest) \in {0, 1}
      /\ (WithBucket => Len(rest) = 1 /\ rest[1] = "backup")
      /\ (~WithBucket => Len(rest) = 0)
  <2>1. CASE WithBucket
    <3>1. rest = <<"backup">>
      BY <2>1
    <3>2. <<"backup">> \in Seq(Names) /\ Len(<<"backup">>) = 1 /\ <<"backup">>[1] = "backup"
      OBVIOUS
    <3>3. QED
      BY <2>1, <3>1, <3>2
  <2>2. CASE ~WithBucket
    <3>1. rest = <<>>
      BY <2>2
    <3>2. QED
      BY <2>2, <3>1
  <2>3. QED
    BY <2>1, <2>2
<1>3. Programs = base \o rest
  BY DEF Programs
<1> DEFINE Result ==
       /\ Len(Programs) \in Nat \ {0} /\ DOMAIN Programs = 1..Len(Programs)
       /\ Programs[1] = "snapshot"
       /\ \A i \in 1..Len(Programs) : Programs[i] = "snapshot" => i = 1
       /\ \A i \in 1..Len(Programs) : Programs[i] # "notify"
<1> HIDE DEF base, rest, Names
<1>4. /\ Programs \in Seq(Names) /\ Len(Programs) = 4 + Len(rest)
      /\ \A i \in 1..(4 + Len(rest)) : Programs[i] = IF i <= 4 THEN base[i] ELSE rest[i - 4]
  <2>1. /\ base \o rest \in Seq(Names)
        /\ Len(base \o rest) = Len(base) + Len(rest)
        /\ \A i \in 1..(Len(base) + Len(rest)) :
             (base \o rest)[i] = IF i <= Len(base) THEN base[i] ELSE rest[i - Len(base)]
    BY <1>1, <1>2, ConcatProperties
  <2>2. QED
    BY <1>1, <1>3, <2>1
<1>5. Len(Programs) = 4 + Len(rest) /\ DOMAIN Programs = 1..Len(Programs)
  BY <1>4
<1>6. /\ Programs[1] = "snapshot" /\ Programs[2] = "apply"
      /\ Programs[3] = "read" /\ Programs[4] = "place"
      /\ WithBucket => Programs[5] = "backup"
  BY <1>1, <1>2, <1>4
<1>7. Later = {Programs[i] : i \in 1..Len(Programs)} \ {"snapshot"}
  BY <1>5 DEF Later
<1>8. CASE WithBucket
  <2>1. Len(rest) = 1
    BY <1>2, <1>8, Zenon
  <2>2. Len(Programs) = 5
    BY <1>5, <2>1
  <2>3. \A i : i \in 1..5 <=> i = 1 \/ i = 2 \/ i = 3 \/ i = 4 \/ i = 5
    OBVIOUS
  <2>4. Later = {"apply", "read", "place", "backup"}
    BY <1>6, <1>7, <1>8, <2>2, <2>3
  <2>5. \A i \in 1..5 : (Programs[i] = "snapshot" => i = 1) /\ Programs[i] # "notify"
    BY <1>6, <1>8, <2>3
  <2>6. Result
    <3>1. Len(Programs) \in Nat \ {0} /\ DOMAIN Programs = 1..Len(Programs)
      BY <1>5, <2>2
    <3>2. Programs[1] = "snapshot"
      BY <1>6
    <3>3. /\ \A i \in 1..Len(Programs) : Programs[i] = "snapshot" => i = 1
          /\ \A i \in 1..Len(Programs) : Programs[i] # "notify"
      BY <2>2, <2>5
    <3>4. QED
      BY <3>1, <3>2, <3>3
  <2>7. Later \subseteq {"apply", "read", "place", "backup"} /\ "backup" \in Later
    BY <2>4
  <2>8. QED
    BY <1>8, <2>6, <2>7, Zenon
<1>9. CASE ~WithBucket
  <2>1. Len(Programs) = 4
    BY <1>2, <1>5, <1>9
  <2>2. \A i : i \in 1..4 <=> i = 1 \/ i = 2 \/ i = 3 \/ i = 4
    OBVIOUS
  <2>3. Later = {"apply", "read", "place"}
    BY <1>6, <1>7, <2>1, <2>2
  <2>4. \A i \in 1..4 : (Programs[i] = "snapshot" => i = 1) /\ Programs[i] # "notify"
    BY <1>6, <2>2
  <2>5. Result
    <3>1. Len(Programs) \in Nat \ {0} /\ DOMAIN Programs = 1..Len(Programs)
      BY <1>5, <2>1
    <3>2. Programs[1] = "snapshot"
      BY <1>6
    <3>3. /\ \A i \in 1..Len(Programs) : Programs[i] = "snapshot" => i = 1
          /\ \A i \in 1..Len(Programs) : Programs[i] # "notify"
      BY <2>1, <2>4
    <3>4. QED
      BY <3>1, <3>2, <3>3
  <2>6. Later \subseteq {"apply", "read", "place", "backup"} /\ "backup" \notin Later
    BY <2>3
  <2>7. QED
    BY <1>9, <2>5, <2>6, Zenon
<1>10. QED
  BY <1>8, <1>9

(* The cities are those of the order, and Nobody is none of them.          *)
LEMMA CitiesType ==
  /\ Len(CityOrder) \in Nat \ {0}
  /\ \A i \in 1..Len(CityOrder) : CityOrder[i] \in Cities
  /\ \A c \in Cities : \E i \in 1..Len(CityOrder) : CityOrder[i] = c
  /\ Nobody \notin Cities
BY PipelineAssumption DEF Cities

(* Command (q - 1) * n + s of the script is program q for city s.          *)
CityCount == Len(CityOrder)
ProgramCount == Len(Programs)
ProgramAt(i) == ((i - 1) \div CityCount) + 1
CityAt(i) == ((i - 1) % CityCount) + 1
Commands == 1..(ProgramCount * CityCount)

(* Command i runs program (i - 1) \div n for city (i - 1) % n.             *)
LEMMA Division ==
  /\ CityCount \in Nat \ {0} /\ ProgramCount \in Nat \ {0}
  /\ ProgramCount * CityCount \in Nat
  /\ \A i \in Commands : ProgramAt(i) \in 1..ProgramCount /\ CityAt(i) \in 1..CityCount
  /\ \A i, j \in Commands : j <= i => ProgramAt(j) <= ProgramAt(i)
  /\ \A q \in 1..ProgramCount, s \in 1..CityCount :
       \E i \in Commands : ProgramAt(i) = q /\ CityAt(i) = s
<1> DEFINE n == CityCount
           m == ProgramCount
<1>0. n \in Nat \ {0} /\ m \in Nat \ {0}
  BY CitiesType, ProgramsType DEF CityCount, ProgramCount
<1> HIDE DEF n, m
<1>1. m * n \in Nat \ {0}
  BY <1>0
<1>2. ASSUME NEW i \in 1..(m * n)
      PROVE  ((i - 1) \div n) + 1 \in 1..m /\ ((i - 1) % n) + 1 \in 1..n
  <2>1. i - 1 \in Nat /\ i - 1 < m * n
    BY <1>1
  <2>2. \A k \in Nat : k < m * n => k \div n \in 0..(m - 1) /\ k % n \in 0..(n - 1)
    BY <1>0
  <2>3. (i - 1) \div n \in 0..(m - 1) /\ (i - 1) % n \in 0..(n - 1)
    BY <2>1, <2>2
  <2>4. QED
    BY <1>0, <2>3
<1>3. ASSUME NEW i \in 1..(m * n), NEW j \in 1..(m * n), j <= i
      PROVE  ((j - 1) \div n) + 1 <= ((i - 1) \div n) + 1
  <2>1. i - 1 \in Nat /\ j - 1 \in Nat /\ j - 1 <= i - 1
    BY <1>1, <1>3
  <2>2. \A k, l \in Nat : k <= l => k \div n <= l \div n /\ k \div n \in Nat /\ l \div n \in Nat
    BY <1>0
  <2>3. QED
    BY <2>1, <2>2
<1>4. ASSUME NEW q \in 1..m, NEW s \in 1..n
      PROVE  \E i \in 1..(m * n) : ((i - 1) \div n) + 1 = q /\ ((i - 1) % n) + 1 = s
  <2> DEFINE k == (q - 1) * n + (s - 1)
  <2>1. k \in Nat /\ k < m * n
    <3>1. (q - 1) * n \in Nat /\ (q - 1) * n <= (m - 1) * n
      BY <1>0
    <3>2. QED
      BY <1>0, <3>1
  <2>2. k \div n = q - 1 /\ k % n = s - 1
    BY <1>0
  <2> HIDE DEF k
  <2>3. (k + 1) - 1 = k /\ k + 1 \in 1..(m * n)
    BY <1>1, <2>1
  <2>4. (((k + 1) - 1) \div n) + 1 = q /\ (((k + 1) - 1) % n) + 1 = s
    BY <1>0, <2>2, <2>3
  <2>5. QED
    BY <2>3, <2>4
<1>5. \A i \in 1..(m * n) : ProgramAt(i) = ((i - 1) \div n) + 1 /\ CityAt(i) = ((i - 1) % n) + 1
  BY DEF ProgramAt, CityAt, n
<1>6. Commands = 1..(m * n)
  BY DEF Commands, n, m
<1>7. \A i \in Commands : ProgramAt(i) \in 1..m /\ CityAt(i) \in 1..n
  BY <1>2, <1>5, <1>6
<1>8. \A i, j \in Commands : j <= i => ProgramAt(j) <= ProgramAt(i)
  BY <1>3, <1>5, <1>6
<1>9. \A q \in 1..m, s \in 1..n : \E i \in Commands : ProgramAt(i) = q /\ CityAt(i) = s
  BY <1>4, <1>5, <1>6
<1>10. QED
  BY <1>0, <1>1, <1>7, <1>8, <1>9 DEF n, m

(* Every program for every city, in order, then the notifier.              *)
LEMMA PlanShape ==
  /\ Len(Plan) = ProgramCount * CityCount + 1
  /\ Len(Plan) \in Nat
  /\ \A i \in Commands :
       /\ Plan[i].program = Programs[ProgramAt(i)]
       /\ Plan[i].city = CityOrder[CityAt(i)]
  /\ Plan[Len(Plan)] = [program |-> "notify", city |-> Nobody]
<1> DEFINE N == ProgramCount * CityCount
           front == [i \in 1..N |-> [program |-> Programs[ProgramAt(i)],
                                     city |-> CityOrder[CityAt(i)]]]
           last == <<[program |-> "notify", city |-> Nobody]>>
           All == {front[i] : i \in 1..N} \cup {last[1]}
<1>1. Commands = 1..N /\ N \in Nat
  BY Division DEF Commands
<1>2. Plan = front \o last
  BY DEF Plan, ProgramAt, CityAt, CityCount, ProgramCount
<1>3. front \in [1..N -> All]
  OBVIOUS
<1>4. last \in Seq(All) /\ Len(last) = 1
  OBVIOUS
<1> HIDE DEF last, front, N, All
<1>5. front \in Seq(All) /\ Len(front) = N
  BY <1>1, <1>3
<1>6. /\ Len(Plan) = N + 1
      /\ \A i \in 1..N : Plan[i] = front[i]
      /\ Plan[N + 1] = last[1]
  <2>1. /\ Len(Plan) = N + 1
        /\ \A i \in 1..(N + 1) : Plan[i] = IF i <= N THEN front[i] ELSE last[i - N]
    <3>1. /\ Len(front \o last) = Len(front) + Len(last)
          /\ \A i \in 1..(Len(front) + Len(last)) :
               (front \o last)[i] = IF i <= Len(front) THEN front[i] ELSE last[i - Len(front)]
      BY <1>4, <1>5, ConcatProperties
    <3>2. QED
      BY <1>2, <1>4, <1>5, <3>1
  <2>2. QED
    BY <1>1, <2>1
<1>7. \A i \in Commands :
        /\ Plan[i].program = Programs[ProgramAt(i)]
        /\ Plan[i].city = CityOrder[CityAt(i)]
  <2> SUFFICES ASSUME NEW i \in Commands
               PROVE  /\ Plan[i].program = Programs[ProgramAt(i)]
                      /\ Plan[i].city = CityOrder[CityAt(i)]
    OBVIOUS
  <2>1. Plan[i] = [program |-> Programs[ProgramAt(i)], city |-> CityOrder[CityAt(i)]]
    BY <1>1, <1>6 DEF front
  <2>2. QED
    BY <2>1
<1>8. Plan[Len(Plan)] = [program |-> "notify", city |-> Nobody]
  BY <1>6 DEF last
<1>9. QED
  BY <1>1, <1>6, <1>7, <1>8 DEF N

(* Each command but the last is a program of the list for a city. *)
LEMMA PlanType ==
  ASSUME NEW i \in 1..Len(Plan)
  PROVE  \/ /\ Plan[i].program \in {"snapshot"} \cup Later
            /\ Plan[i].city \in Cities /\ Opens(Plan[i])
         \/ /\ Plan[i].program = "notify" /\ Plan[i].city = Nobody
            /\ ~Opens(Plan[i])
<1>1. CASE i = Len(Plan)
  BY <1>1, PlanShape DEF Opens
<1>2. CASE i # Len(Plan)
  <2>1. i \in Commands
    BY <1>2, Division, PlanShape DEF Commands
  <2>2. ProgramAt(i) \in 1..Len(Programs) /\ CityAt(i) \in 1..Len(CityOrder)
    BY <2>1, Division DEF ProgramCount, CityCount
  <2>3. Plan[i].program = Programs[ProgramAt(i)] /\ Plan[i].city = CityOrder[CityAt(i)]
    BY <2>1, PlanShape
  <2>4. Plan[i].city \in Cities
    BY <2>2, <2>3, CitiesType
  <2>5. Plan[i].program \in {"snapshot"} \cup Later
    BY <2>2, <2>3, ProgramsType DEF Later
  <2>6. QED
    BY <2>4, <2>5, CitiesType DEF Opens
<1>3. QED
  BY <1>1, <1>2

(* The collectors of all cities come before any other program. *)
LEMMA SnapshotsFirst ==
  ASSUME NEW i \in 1..Len(Plan), Plan[i].program = "snapshot",
         NEW j \in 1..Len(Plan), j <= i
  PROVE  Plan[j].program = "snapshot"
<1>1. i # Len(Plan)
  BY PlanShape
<1>2. i \in Commands /\ j \in Commands
  BY <1>1, Division, PlanShape DEF Commands
<1>3. ProgramAt(i) \in 1..ProgramCount /\ ProgramAt(j) \in 1..ProgramCount
      /\ ProgramAt(j) <= ProgramAt(i)
  BY <1>2, Division
<1>4. Plan[i].program = Programs[ProgramAt(i)] /\ Plan[j].program = Programs[ProgramAt(j)]
  BY <1>2, PlanShape
<1>5. ProgramAt(i) = 1
  BY <1>3, <1>4, ProgramsType DEF ProgramCount
<1>6. ProgramAt(j) = 1
  BY <1>3, <1>5
<1>7. QED
  BY <1>4, <1>6, ProgramsType

(* Every program after the collectors runs for every city. *)
LEMMA PlanCovers ==
  ASSUME NEW p \in Later, NEW c \in Cities
  PROVE  \E i \in 1..Len(Plan) : Plan[i].program = p /\ Plan[i].city = c
<1>1. PICK q \in 1..ProgramCount : Programs[q] = p
  BY ProgramsType DEF Later, ProgramCount
<1>2. PICK s \in 1..CityCount : CityOrder[s] = c
  BY CitiesType DEF CityCount
<1>3. PICK i \in Commands : ProgramAt(i) = q /\ CityAt(i) = s
  BY Division
<1>4. Plan[i].program = Programs[q] /\ Plan[i].city = CityOrder[s]
  BY <1>3, PlanShape
<1>5. i \in 1..Len(Plan)
  BY Division, PlanShape DEF Commands
<1>6. QED
  BY <1>1, <1>2, <1>4, <1>5

(***************************************************************************)
(* The invariant.                                                          *)
(***************************************************************************)
(* The types, without the bound on captures.                               *)
RunsOK ==
  /\ shell \in [Runs -> {"none", "alive"}]
  /\ child \in [Runs -> {"none", "working"}]
  /\ at \in [Runs -> 0..Len(Plan)]
  /\ loaded \in [Runs -> Nat]
  /\ uploading \in [Runs -> {"verify", "bodies", "chain"}]
  /\ collected \in [Runs -> [Cities -> Nat]]

StoresOK ==
  /\ pending \in [Writers -> Nat]
  /\ visiting \in Cities \cup {Nobody}
  /\ manifest \in [Cities -> Nat]
  /\ chain \in [Cities -> Seq(Nat)]
  /\ done \in [Later -> [Cities -> Nat]]
  /\ remote \in [Cities -> [bodies : Nat, manifest : Nat, chain : Seq(Nat)]]

(* A program that works is one of the script; only a backup uploads.       *)
ChildOfScript ==
  \A r \in Runs :
    /\ child[r] = "working" => at[r] # 0
    /\ uploading[r] # "verify" => child[r] = "working" /\ Command(r) = "backup"

(* No program has been ahead of the manifest, which only grows.            *)
NothingAhead ==
  \A c \in Cities :
    /\ \A p \in Later : done[p][c] <= manifest[c]
    /\ \A r \in Runs : collected[r][c] <= manifest[c]
    /\ \A r \in Runs : child[r] = "working" /\ City(r) = c => loaded[r] <= manifest[c]

TypeInv == RunsOK /\ StoresOK /\ ChildOfScript /\ NothingAhead

(* The first n entries of a chain seal the first n lines.                  *)
Seals(entries, n) == n <= Len(entries) /\ \A i \in 1..n : entries[i] = i

(* What was backed up is sealed where it came from and where it went; an   *)
(* upload has got as far as its place says.                                *)
BackupInv ==
  /\ WithBucket => \A c \in Cities :
       LET n == done["backup"][c]
       IN  /\ Seals(chain[c], n) /\ Seals(remote[c].chain, n)
           /\ remote[c].bodies >= n /\ remote[c].manifest >= n
  /\ \A r \in Runs :
       /\ uploading[r] # "verify" => Seals(chain[City(r)], loaded[r])
       /\ uploading[r] = "chain" => /\ remote[City(r)].bodies >= loaded[r]
                                    /\ remote[City(r)].manifest >= loaded[r]

(* The commands a run has behind it have processed what its collectors     *)
(* left behind, and the one at work has loaded it.                         *)
Behind(r, i) == i < at[r] \/ (i = at[r] /\ child[r] = "none")

ScriptInv ==
  \A r \in Runs : shell[r] = "alive" =>
    /\ \A i \in 1..Len(Plan) : Behind(r, i) /\ Plan[i].program \in Later =>
         done[Plan[i].program][Plan[i].city] >= collected[r][Plan[i].city]
    /\ child[r] = "working" /\ Command(r) \in Later =>
         loaded[r] >= collected[r][City(r)]

(***************************************************************************)
(* The kinds of steps.                                                     *)
(***************************************************************************)
(* A run's program ends with a failure.                                    *)
Failure(r) == Fails(r)

(* One that is neither the collector nor the backup ends well.             *)
Processed(r) ==
  /\ child[r] = "working" /\ Command(r) \notin {"snapshot", "backup"}
  /\ \E n \in Nat : Succeeds(r, n) /\ (Command(r) \in Later => n = loaded[r])
  /\ UNCHANGED <<remote, collected>>

Capturing ==
  \/ \E w \in Writers, c \in Cities, readable \in BOOLEAN : Write(w, c, readable)
  \/ \E w \in Writers, c \in Cities : Seal(w, c)

(* Nothing happens but to a visitor.                                       *)
Elsewhere ==
  /\ UNCHANGED <<process, stores, results>>
  /\ pending' \in [Writers -> Nat] /\ visiting' \in Cities \cup {Nobody}

(* The command of a run whose program works.                               *)
LEMMA AtWork ==
  ASSUME TypeInv, NEW r \in Runs, child[r] = "working"
  PROVE  /\ at[r] \in 1..Len(Plan)
         /\ \/ Command(r) \in {"snapshot"} \cup Later /\ City(r) \in Cities
            \/ Command(r) = "notify" /\ City(r) = Nobody
<1>1. at[r] \in 1..Len(Plan)
  BY PlanShape DEF TypeInv, RunsOK, ChildOfScript
<1>2. QED
  BY <1>1, PlanType DEF Command, City

(* The kinds of steps; refusals, failures and faults are one of them.      *)
LEMMA StepKinds ==
  ASSUME TypeInv, [Next]_vars
  PROVE  \/ \E r \in Runs :
              \/ Start(r) \/ Launch(r) \/ ReportSuccess(r) \/ KillShell(r)
              \/ Failure(r)
              \/ CollectorEnds(r) \/ Processed(r)
              \/ Verify(r) \/ PutBody(r) \/ PutManifest(r) \/ PutChain(r)
         \/ Capturing
         \/ Elsewhere
<1>1. ASSUME NEW r \in Runs, ApplyEnds(r)
      PROVE  Processed(r)
  <2>1. loaded[r] \in Nat /\ child[r] = "working" /\ Command(r) = "apply"
    BY <1>1 DEF TypeInv, RunsOK, ApplyEnds, Working
  <2>2. QED
    BY <1>1, <2>1 DEF ApplyEnds, Processed
<1>2. ASSUME NEW r \in Runs, ReadOrPlaceEnds(r)
      PROVE  Processed(r)
  <2>1. loaded[r] \in Nat /\ child[r] = "working" /\ Command(r) \in {"read", "place"}
    BY <1>2 DEF TypeInv, RunsOK, ReadOrPlaceEnds, Working
  <2>2. QED
    BY <1>2, <2>1 DEF ReadOrPlaceEnds, Processed
<1>3. ASSUME NEW r \in Runs, NotifyEnds(r)
      PROVE  Processed(r)
  BY <1>3, ProgramsType DEF NotifyEnds, Processed, Working
<1>4. ASSUME NEW r \in Runs, Collect(r)
      PROVE  Capturing
  <2>1. City(r) \in Cities
    BY <1>4, AtWork, ProgramsType DEF Collect, Working
  <2>2. QED
    BY <1>4, <2>1 DEF Collect, Capturing, Writers
<1>5. ASSUME VisitorWrites \/ VisitorSeals
      PROVE  Capturing
  BY <1>5 DEF VisitorWrites, VisitorSeals, Capturing, Writers, TypeInv, StoresOK
<1>6. ASSUME NEW c \in Cities, Visit(c)
      PROVE  Elsewhere
  BY <1>6 DEF Visit, Elsewhere, TypeInv, StoresOK
<1>7. ASSUME Leave \/ VisitorDies \/ UNCHANGED vars
      PROVE  Elsewhere
  BY <1>7 DEF Leave, VisitorDies, vars, Elsewhere, TypeInv, StoresOK
<1>8. ASSUME NEW r \in Runs,
             LaunchRefused(r) \/ ApplyCountsFailures(r) \/ VerifyRefuses(r) \/ ProgramFails(r)
      PROVE  Failure(r)
  BY <1>8 DEF LaunchRefused, ApplyCountsFailures, VerifyRefuses, ProgramFails, Failure
<1>9. QED
  BY <1>1, <1>2, <1>3, <1>4, <1>5, <1>6, <1>7, <1>8 DEF Next, Scheduled, Backup

(***************************************************************************)
(* Types.                                                                  *)
(***************************************************************************)
LEMMA TypeInit == Init => TypeInv
<1> SUFFICES ASSUME Init PROVE TypeInv
  OBVIOUS
<1>1. Len(Plan) \in Nat
  BY PlanShape
<1>2. RunsOK /\ StoresOK /\ ChildOfScript /\ NothingAhead
  BY <1>1 DEF Init, RunsOK, StoresOK, ChildOfScript, NothingAhead
<1>3. QED
  BY <1>2 DEF TypeInv

(* The command that a run is about to start.                               *)
LEMMA NextCommand ==
  ASSUME TypeInv, NEW r \in Runs, Due(r)
  PROVE  /\ at[r] + 1 \in 1..Len(Plan)
         /\ \/ /\ Following(r).program \in {"snapshot"} \cup Later
               /\ Following(r).city \in Cities /\ Opens(Following(r))
            \/ /\ Following(r).program = "notify" /\ Following(r).city = Nobody
               /\ ~Opens(Following(r))
<1>1. at[r] + 1 \in 1..Len(Plan)
  BY PlanShape DEF TypeInv, RunsOK, Due
<1>2. QED
  BY <1>1, PlanType DEF Following

(* Every step keeps the types, and no program ahead of its store.          *)
LEMMA TypeStep == TypeInv /\ [Next]_vars => TypeInv'
<1> SUFFICES ASSUME TypeInv, [Next]_vars PROVE TypeInv'
  OBVIOUS
<1> USE DEF TypeInv
<1>1. Len(Plan) \in Nat
  BY PlanShape
<1>2. ASSUME NEW r \in Runs, Start(r) PROVE TypeInv'
  BY <1>1, <1>2 DEF Start, Held, stores, results, RunsOK, StoresOK, ChildOfScript, NothingAhead,
       Command, City
<1>3. ASSUME NEW r \in Runs, Launch(r) PROVE TypeInv'
  <2>1. /\ at[r] + 1 \in 0..Len(Plan)
        /\ at' = [at EXCEPT ![r] = at[r] + 1]
        /\ loaded' \in [Runs -> Nat]
    BY <1>3, NextCommand DEF Launch, RunsOK, StoresOK
  <2>2. RunsOK'
    BY <1>3, <2>1 DEF Launch, RunsOK
  <2>3. StoresOK'
    BY <1>3 DEF Launch, StoresOK, stores, results
  <2>4. ChildOfScript'
    BY <1>1, <1>3, <2>1 DEF Launch, Due, RunsOK, ChildOfScript, Command
  <2>5. NothingAhead'
    <3>1. City(r)' = Following(r).city
      BY <1>3, <2>1 DEF Launch, City, Following, RunsOK
    <3>2. \A q \in Runs \ {r} : City(q)' = City(q) /\ loaded'[q] = loaded[q] /\ child'[q] = child[q]
      BY <1>3 DEF Launch, City, RunsOK
    <3>3. Following(r).city \in Cities => loaded'[r] = manifest[Following(r).city]
      BY <1>3, CitiesType DEF Launch, Opens, RunsOK
    <3>4. QED
      BY <1>3, <3>1, <3>2, <3>3 DEF Launch, NothingAhead, StoresOK, stores, results
  <2>6. QED
    BY <2>2, <2>3, <2>4, <2>5
<1>4. ASSUME NEW r \in Runs, ReportSuccess(r) PROVE TypeInv'
  BY <1>1, <1>4 DEF ReportSuccess, stores, results, RunsOK, StoresOK, ChildOfScript, NothingAhead,
       Command, City
<1>5. ASSUME NEW r \in Runs, KillShell(r) PROVE TypeInv'
  BY <1>1, <1>5 DEF KillShell, stores, results, RunsOK, StoresOK, ChildOfScript, NothingAhead,
       Command, City
<1>6. ASSUME NEW r \in Runs, Failure(r) PROVE TypeInv'
  <2>1. RunsOK'
    BY <1>1, <1>6 DEF Failure, Fails, Ends, stores, results, Writers, RunsOK
  <2>2. StoresOK'
    BY <1>1, <1>6 DEF Failure, Fails, Ends, stores, results, Writers, StoresOK
  <2>3. ChildOfScript'
    BY <1>1, <1>6 DEF Failure, Fails, Ends, stores, results, Writers, ChildOfScript, RunsOK, Command
  <2>4. NothingAhead'
    BY <1>1, <1>6 DEF Failure, Fails, Ends, stores, results, Writers, NothingAhead, RunsOK, StoresOK, City
  <2>5. QED
    BY <2>1, <2>2, <2>3, <2>4
<1>7. ASSUME NEW r \in Runs, CollectorEnds(r) PROVE TypeInv'
  <2>1. City(r) \in Cities /\ Command(r) \notin Later
    BY <1>7, AtWork, ProgramsType DEF CollectorEnds, Working
  <2>2. RunsOK'
    <3>1. manifest[City(r)] \in Nat
      BY <2>1 DEF StoresOK
    <3>2. [collected[r] EXCEPT ![City(r)] = manifest[City(r)]] \in [Cities -> Nat]
      BY <3>1 DEF RunsOK
    <3>3. collected' \in [Runs -> [Cities -> Nat]]
      BY <1>7, <3>2 DEF CollectorEnds, RunsOK
    <3>4. QED
      BY <1>1, <1>7, <3>3 DEF CollectorEnds, Succeeds, Ends, RunsOK
  <2>3. StoresOK'
    BY <1>1, <1>7, <2>1 DEF CollectorEnds, Succeeds, Ends, stores, results, StoresOK
  <2>4. ChildOfScript'
    BY <1>1, <1>7, <2>1 DEF CollectorEnds, Succeeds, Ends, stores, results, ChildOfScript, RunsOK, Command
  <2>5. NothingAhead'
    BY <1>1, <1>7, <2>1 DEF CollectorEnds, Succeeds, Ends, stores, results, NothingAhead, RunsOK, StoresOK, City
  <2>6. QED
    BY <2>2, <2>3, <2>4, <2>5
<1>8. ASSUME NEW r \in Runs, Processed(r) PROVE TypeInv'
  <2>1. Command(r) \in Later => City(r) \in Cities
    BY <1>8, AtWork, ProgramsType DEF Processed
  <2>2. RunsOK'
    BY <1>1, <1>8, <2>1 DEF Processed, Succeeds, Ends, stores, results, RunsOK
  <2>3. StoresOK'
    BY <1>1, <1>8, <2>1 DEF Processed, Succeeds, Ends, stores, results, StoresOK
  <2>4. ChildOfScript'
    BY <1>1, <1>8, <2>1 DEF Processed, Succeeds, Ends, stores, results, ChildOfScript, RunsOK, Command
  <2>5. NothingAhead'
    BY <1>1, <1>8, <2>1 DEF Processed, Succeeds, Ends, stores, results, NothingAhead, RunsOK, StoresOK, City
  <2>6. QED
    BY <2>2, <2>3, <2>4, <2>5
<1>9. ASSUME NEW r \in Runs, Verify(r) \/ PutBody(r) \/ PutManifest(r) \/ PutChain(r)
      PROVE TypeInv'
  <2>1. child[r] = "working" /\ Command(r) = "backup" /\ City(r) \in Cities
    BY <1>9, AtWork, ProgramsType
       DEF Verify, PutBody, PutManifest, PutChain, Backing, Working
  <2>2. CASE Verify(r)
    BY <1>1, <2>1, <2>2 DEF Verify, stores, results, RunsOK, StoresOK, ChildOfScript,
         NothingAhead, Command, City
  <2>3. CASE PutBody(r)
    <3>1. /\ remote' = [remote EXCEPT ![City(r)].bodies = @ + 1]
          /\ UNCHANGED <<shell, child, at, loaded, uploading, collected, pending, visiting,
                         manifest, chain, done>>
      BY <2>3 DEF PutBody, process, stores
    <3>2. RunsOK' /\ ChildOfScript' /\ NothingAhead'
      BY <3>1 DEF RunsOK, ChildOfScript, NothingAhead, Command, City
    <3>3. StoresOK'
      <4> DEFINE old == remote[City(r)]
                 new == [old EXCEPT !.bodies = old.bodies + 1]
      <4>1. new \in [bodies : Nat, manifest : Nat, chain : Seq(Nat)]
        <5>1. old \in [bodies : Nat, manifest : Nat, chain : Seq(Nat)]
          BY <2>1 DEF StoresOK
        <5> HIDE DEF old
        <5>2. QED
          BY <5>1
      <4>2. remote' = [remote EXCEPT ![City(r)] = new]
        BY <3>1
      <4> HIDE DEF new
      <4>3. QED
        BY <2>1, <3>1, <4>1, <4>2 DEF StoresOK
    <3>4. QED
      BY <3>2, <3>3
  <2>4. CASE PutManifest(r)
    BY <1>1, <2>1, <2>4 DEF PutManifest, stores, results, RunsOK, StoresOK, ChildOfScript,
         NothingAhead, Command, City
  <2>5. CASE PutChain(r)
    BY <1>1, <2>1, <2>5 DEF PutChain, Succeeds, Ends, stores, results, RunsOK, StoresOK,
         ChildOfScript, NothingAhead, Command, City
  <2>6. QED
    BY <1>9, <2>2, <2>3, <2>4, <2>5
<1>10. ASSUME Capturing PROVE TypeInv'
  <2>1. ASSUME NEW w \in Writers, NEW c \in Cities, NEW readable \in BOOLEAN,
               Write(w, c, readable)
        PROVE  TypeInv'
    <3>1. /\ manifest' = [manifest EXCEPT ![c] = @ + 1]
          /\ pending' = [pending EXCEPT ![w] = manifest[c] + 1]
          /\ UNCHANGED <<shell, child, at, loaded, uploading, collected, visiting, chain,
                         done, remote>>
      BY <2>1 DEF Write, process, results
    <3>2. RunsOK' /\ ChildOfScript'
      BY <3>1 DEF RunsOK, ChildOfScript, Command
    <3>3. StoresOK'
      BY <3>1 DEF StoresOK
    <3>4. NothingAhead'
      BY <3>1 DEF NothingAhead, RunsOK, StoresOK, City
    <3>5. QED
      BY <3>2, <3>3, <3>4
  <2>2. ASSUME NEW w \in Writers, NEW c \in Cities, Seal(w, c)
        PROVE  TypeInv'
    <3>1. /\ chain' = [chain EXCEPT ![c] = Append(@, pending[w])]
          /\ pending' = [pending EXCEPT ![w] = 0]
          /\ UNCHANGED <<shell, child, at, loaded, uploading, collected, visiting, manifest,
                         done, remote>>
      BY <2>2 DEF Seal, process, results
    <3>2. RunsOK' /\ ChildOfScript' /\ NothingAhead'
      BY <3>1 DEF RunsOK, ChildOfScript, NothingAhead, Command, City
    <3>3. StoresOK'
      <4>1. Append(chain[c], pending[w]) \in Seq(Nat)
        BY DEF StoresOK
      <4>2. QED
        BY <3>1, <4>1 DEF StoresOK
    <3>4. QED
      BY <3>2, <3>3
  <2>3. QED
    BY <1>10, <2>1, <2>2 DEF Capturing
<1>11. ASSUME Elsewhere PROVE TypeInv'
  BY <1>11 DEF Elsewhere, process, stores, results, RunsOK, StoresOK, ChildOfScript, NothingAhead,
       Command, City
<1>12. QED
  BY <1>2, <1>3, <1>4, <1>5, <1>6, <1>7, <1>8, <1>9, <1>10, <1>11, StepKinds

(***************************************************************************)
(* The lock.                                                               *)
(***************************************************************************)
LEMMA LockInit == Init => OneProgramAtATime
BY DEF Init, OneProgramAtATime

(* A run starts only if nothing of an earlier one is left.                 *)
LEMMA LockStep == TypeInv /\ OneProgramAtATime /\ [Next]_vars => OneProgramAtATime'
<1> SUFFICES ASSUME TypeInv, OneProgramAtATime, [Next]_vars PROVE OneProgramAtATime'
  OBVIOUS
<1> DEFINE Holds(r) == shell[r] = "alive" \/ child[r] # "none"
<1>1. /\ shell \in [Runs -> {"none", "alive"}]
      /\ child \in [Runs -> {"none", "working"}]
  BY DEF TypeInv, RunsOK
(* Only Start makes a holder of a run that is none, and it finds no other. *)
<1>2. ASSUME NEW r \in Runs, Start(r) PROVE OneProgramAtATime'
  BY <1>1, <1>2 DEF Start, Held, OneProgramAtATime
<1>3. (\A r \in Runs : Holds(r)' => Holds(r)) => OneProgramAtATime'
  BY DEF OneProgramAtATime
<1>4. ASSUME NEW r \in Runs, Launch(r) PROVE OneProgramAtATime'
  BY <1>1, <1>3, <1>4 DEF Launch, Due
<1>5. ASSUME NEW r \in Runs, ReportSuccess(r) \/ KillShell(r) \/ Failure(r)
      PROVE OneProgramAtATime'
  BY <1>1, <1>3, <1>5 DEF ReportSuccess, KillShell, Failure, Fails, Ends
<1>6. ASSUME NEW r \in Runs, CollectorEnds(r) \/ Processed(r) \/ PutChain(r)
      PROVE OneProgramAtATime'
  BY <1>1, <1>3, <1>6 DEF CollectorEnds, Processed, PutChain, Succeeds, Ends
<1>7. ASSUME NEW r \in Runs, Verify(r) \/ PutBody(r) \/ PutManifest(r)
      PROVE OneProgramAtATime'
  BY <1>3, <1>7 DEF Verify, PutBody, PutManifest, process
<1>8. ASSUME Capturing \/ Elsewhere PROVE OneProgramAtATime'
  BY <1>3, <1>8 DEF Capturing, Write, Seal, Elsewhere, process
<1>9. QED
  BY <1>2, <1>4, <1>5, <1>6, <1>7, <1>8, StepKinds

(* Two programs of the schedule never work at the same time, however many  *)
(* runs cron starts and whatever is killed (run_snapshotter.sh 8-12).      *)
THEOREM ProgramsExclude == Spec => []OneProgramAtATime
BY TypeInit, TypeStep, LockInit, LockStep, PTL DEF Spec

(***************************************************************************)
(* The backup.                                                             *)
(***************************************************************************)
LEMMA SealsKept ==
  ASSUME NEW entries \in Seq(Nat), NEW e \in Nat, NEW n \in Nat, Seals(entries, n)
  PROVE  Seals(Append(entries, e), n)
BY DEF Seals

(* Nothing is backed up at first.                                          *)
LEMMA BackupInit == Init => BackupInv
<1> SUFFICES ASSUME Init PROVE BackupInv
  OBVIOUS
<1>1. \A r \in Runs : uploading[r] = "verify"
  BY DEF Init
<1>2. ASSUME WithBucket, NEW c \in Cities
      PROVE  /\ done["backup"][c] = 0 /\ chain[c] = <<>>
             /\ remote[c] = [bodies |-> 0, manifest |-> 0, chain |-> <<>>]
  BY <1>2, ProgramsType DEF Init
<1>3. Seals(<<>>, 0)
  BY DEF Seals
<1>4. QED
  BY <1>1, <1>2, <1>3 DEF BackupInv

(* A step that changes nothing of the backups nor of who uploads.          *)
LEMMA BackupUntouched ==
  ASSUME BackupInv, UNCHANGED <<chain, remote>>,
         WithBucket => done'["backup"] = done["backup"],
         \A r \in Runs : \/ uploading'[r] = "verify"
                        \/ UNCHANGED <<uploading[r], loaded[r], City(r)>>
  PROVE  BackupInv'
BY DEF BackupInv

(* An upload keeps what earlier ones had verified.                         *)
LEMMA BackupStep == TypeInv /\ BackupInv /\ [Next]_vars => BackupInv'
<1> SUFFICES ASSUME TypeInv, BackupInv, [Next]_vars PROVE BackupInv'
  OBVIOUS
<1>1. RunsOK /\ StoresOK /\ ChildOfScript
  BY DEF TypeInv
<1>2. ASSUME NEW r \in Runs, child[r] = "none" PROVE uploading[r] = "verify"
  BY <1>1, <1>2 DEF ChildOfScript
<1>3. ASSUME NEW r \in Runs, Start(r) PROVE BackupInv'
  <2>1. uploading'[r] = "verify"
    BY <1>1, <1>2, <1>3 DEF Start, Held, RunsOK
  <2>2. QED
    BY <1>1, <1>3, <2>1, BackupUntouched DEF Start, stores, results, City, RunsOK
<1>4. ASSUME NEW r \in Runs, Launch(r) PROVE BackupInv'
  <2>1. uploading'[r] = "verify"
    BY <1>2, <1>4 DEF Launch, Due
  <2>2. QED
    BY <1>1, <1>4, <2>1, BackupUntouched DEF Launch, stores, results, City, RunsOK
<1>5. ASSUME NEW r \in Runs, ReportSuccess(r) PROVE BackupInv'
  <2>1. uploading'[r] = "verify"
    BY <1>2, <1>5 DEF ReportSuccess
  <2>2. QED
    BY <1>1, <1>5, <2>1, BackupUntouched DEF ReportSuccess, stores, results, City, RunsOK
<1>6. ASSUME NEW r \in Runs, KillShell(r) PROVE BackupInv'
  BY <1>6, BackupUntouched DEF KillShell, stores, results, City
<1>7. ASSUME NEW r \in Runs, Failure(r) PROVE BackupInv'
  BY <1>1, <1>7, BackupUntouched DEF Failure, Fails, Ends, stores, results, City, RunsOK
<1>8. ASSUME NEW r \in Runs, CollectorEnds(r) PROVE BackupInv'
  <2>1. Command(r) \notin Later
    BY <1>8, ProgramsType DEF CollectorEnds, Working
  <2>2. QED
    BY <1>1, <1>8, <2>1, BackupUntouched
       DEF CollectorEnds, Succeeds, Ends, stores, City, RunsOK
<1>9. ASSUME NEW r \in Runs, Processed(r) PROVE BackupInv'
  <2>1. WithBucket => done'["backup"] = done["backup"]
    BY <1>1, <1>9, ProgramsType DEF Processed, Succeeds, StoresOK
  <2>2. QED
    BY <1>1, <1>9, <2>1, BackupUntouched DEF Processed, Succeeds, Ends, stores, City, RunsOK
<1>10. ASSUME NEW r \in Runs, Verify(r) \/ PutBody(r) \/ PutManifest(r) \/ PutChain(r)
       PROVE  BackupInv'
  <2> DEFINE c == City(r)
  <2>1. child[r] = "working" /\ Command(r) = "backup"
    BY <1>10 DEF Verify, PutBody, PutManifest, PutChain, Backing, Working
  <2>2. c \in Cities /\ "backup" \in Later
    BY <2>1, AtWork, ProgramsType
  <2>3. /\ manifest[c] \in Nat /\ loaded[r] \in Nat /\ loaded[r] <= manifest[c]
        /\ chain[c] \in Seq(Nat) /\ done["backup"][c] \in Nat
        /\ done["backup"][c] <= manifest[c]
        /\ remote[c] \in [bodies : Nat, manifest : Nat, chain : Seq(Nat)]
    BY <2>1, <2>2 DEF TypeInv, RunsOK, StoresOK, NothingAhead
  <2>4. CASE Verify(r)
    <3>1. Seals(chain[c], loaded[r])
      <4>1. chain[c] = [i \in 1..loaded[r] |-> i]
        BY <2>4 DEF Verify, Verified, Intact
      <4>2. QED
        BY <2>3, <4>1 DEF Seals
    <3>2. QED
      BY <1>1, <2>4, <3>1 DEF Verify, BackupInv, stores, results, City, RunsOK
  <2>5. CASE PutBody(r)
    <3>1. /\ remote' = [remote EXCEPT ![c].bodies = @ + 1]
          /\ UNCHANGED <<chain, done, uploading, loaded, at>>
      BY <2>5 DEF PutBody, process, stores
    <3>2. \A d \in Cities :
            /\ remote'[d].chain = remote[d].chain /\ remote'[d].manifest = remote[d].manifest
            /\ remote[d].bodies \in Nat /\ remote'[d].bodies \in Nat
            /\ remote'[d].bodies >= remote[d].bodies
      <4> DEFINE new == [remote[c] EXCEPT !.bodies = @ + 1]
      <4>1. /\ new.chain = remote[c].chain /\ new.manifest = remote[c].manifest
            /\ new.bodies = remote[c].bodies + 1
        BY <2>3
      <4>2. \A d \in Cities : remote'[d] = IF d = c THEN new ELSE remote[d]
        BY <1>1, <2>2, <3>1 DEF StoresOK
      <4>3. \A d \in Cities : remote[d].bodies \in Nat
        BY <1>1 DEF StoresOK
      <4> HIDE DEF new
      <4>4. QED
        BY <2>2, <4>1, <4>2, <4>3
    <3>3. WithBucket => \A d \in Cities : done["backup"][d] \in Nat
      BY <1>1, <2>2 DEF StoresOK
    <3>4. \A q \in Runs : uploading[q] = "chain" => City(q) \in Cities /\ loaded[q] \in Nat
      BY <1>1, AtWork, ProgramsType DEF ChildOfScript, RunsOK
    <3>5. QED
      BY <3>1, <3>2, <3>3, <3>4 DEF BackupInv, City
  <2>6. CASE PutManifest(r)
    <3>1. /\ remote' = [remote EXCEPT ![c].manifest = manifest[c]]
          /\ uploading' = [uploading EXCEPT ![r] = "chain"]
          /\ UNCHANGED <<chain, done, loaded, at>>
          /\ remote[c].bodies >= loaded[r]
          /\ uploading[r] = "bodies"
      BY <2>6 DEF PutManifest, stores, Backing
    <3>2. \A d \in Cities :
            /\ remote'[d].chain = remote[d].chain /\ remote'[d].bodies = remote[d].bodies
            /\ remote'[d].manifest = IF d = c THEN manifest[c] ELSE remote[d].manifest
      <4> DEFINE new == [remote[c] EXCEPT !.manifest = manifest[c]]
      <4>1. /\ new.chain = remote[c].chain /\ new.bodies = remote[c].bodies
            /\ new.manifest = manifest[c]
        BY <2>3
      <4>2. \A d \in Cities : remote'[d] = IF d = c THEN new ELSE remote[d]
        BY <1>1, <2>2, <3>1 DEF StoresOK
      <4> HIDE DEF new
      <4>3. QED
        BY <2>2, <4>1, <4>2
    <3>3. \A q \in Runs : uploading[q] = "chain" /\ City(q) = c => loaded[q] <= manifest[c]
      BY <2>2 DEF TypeInv, ChildOfScript, NothingAhead
    <3>4. \A q \in Runs : uploading'[q] = IF q = r THEN "chain" ELSE uploading[q]
      BY <1>1, <3>1 DEF RunsOK
    <3>5. \A q \in Runs : City(q)' = City(q) /\ loaded'[q] = loaded[q]
      BY <3>1 DEF City
    <3>6. WithBucket => \A d \in Cities :
            LET n == done'["backup"][d]
            IN  /\ Seals(chain'[d], n) /\ Seals(remote'[d].chain, n)
                /\ remote'[d].bodies >= n /\ remote'[d].manifest >= n
      BY <2>3, <3>1, <3>2 DEF BackupInv
    <3>7. ASSUME NEW q \in Runs
          PROVE  /\ uploading'[q] # "verify" => Seals(chain'[City(q)'], loaded'[q])
                 /\ uploading'[q] = "chain" => /\ remote'[City(q)'].bodies >= loaded'[q]
                                               /\ remote'[City(q)'].manifest >= loaded'[q]
      <4>1. uploading[q] # "verify" => City(q) \in Cities
        BY <1>1, AtWork, ProgramsType DEF ChildOfScript
      <4>2. CASE q = r
        BY <2>2, <2>3, <3>1, <3>2, <3>4, <3>5, <4>2 DEF BackupInv
      <4>3. CASE q # r
        BY <2>2, <2>3, <3>1, <3>2, <3>3, <3>4, <3>5, <4>1, <4>3 DEF BackupInv
      <4>4. QED
        BY <4>2, <4>3
    <3>8. QED
      BY <3>6, <3>7 DEF BackupInv
  <2>7. CASE PutChain(r)
    <3>1. /\ remote' = [remote EXCEPT ![c].chain = chain[c]]
          /\ uploading' = [uploading EXCEPT ![r] = "verify"]
          /\ loaded' = [loaded EXCEPT ![r] = 0]
          /\ done' = [done EXCEPT !["backup"][c] = loaded[r]]
          /\ UNCHANGED <<chain, at>>
          /\ uploading[r] = "chain"
      BY <2>1, <2>2, <2>7 DEF PutChain, Succeeds, Ends, stores, Backing
    <3>2. \A d \in Cities :
            /\ remote'[d].chain = IF d = c THEN chain[c] ELSE remote[d].chain
            /\ remote'[d].bodies = remote[d].bodies
            /\ remote'[d].manifest = remote[d].manifest
      <4> DEFINE new == [remote[c] EXCEPT !.chain = chain[c]]
      <4>1. /\ new.chain = chain[c] /\ new.bodies = remote[c].bodies
            /\ new.manifest = remote[c].manifest
        BY <2>3
      <4>2. \A d \in Cities : remote'[d] = IF d = c THEN new ELSE remote[d]
        BY <1>1, <2>2, <3>1 DEF StoresOK
      <4> HIDE DEF new
      <4>3. QED
        BY <2>2, <4>1, <4>2
    <3>3. \A d \in Cities : done'["backup"][d] = IF d = c THEN loaded[r] ELSE done["backup"][d]
      BY <1>1, <2>2, <3>1 DEF StoresOK
    <3>4. \A q \in Runs : /\ uploading'[q] = IF q = r THEN "verify" ELSE uploading[q]
                          /\ q # r => loaded'[q] = loaded[q]
                          /\ City(q)' = City(q)
      BY <1>1, <3>1 DEF RunsOK, City
    <3>5. /\ Seals(chain[c], loaded[r])
          /\ remote[c].bodies >= loaded[r] /\ remote[c].manifest >= loaded[r]
      BY <3>1 DEF BackupInv
    <3>6. WithBucket => \A d \in Cities :
            LET n == done'["backup"][d]
            IN  /\ Seals(chain'[d], n) /\ Seals(remote'[d].chain, n)
                /\ remote'[d].bodies >= n /\ remote'[d].manifest >= n
      BY <3>1, <3>2, <3>3, <3>5 DEF BackupInv
    <3>7. ASSUME NEW q \in Runs
          PROVE  /\ uploading'[q] # "verify" => Seals(chain'[City(q)'], loaded'[q])
                 /\ uploading'[q] = "chain" => /\ remote'[City(q)'].bodies >= loaded'[q]
                                               /\ remote'[City(q)'].manifest >= loaded'[q]
      <4>1. uploading[q] # "verify" => City(q) \in Cities
        BY <1>1, AtWork, ProgramsType DEF ChildOfScript
      <4>2. QED
        BY <3>1, <3>2, <3>4, <4>1 DEF BackupInv
    <3>8. QED
      BY <3>6, <3>7 DEF BackupInv
  <2>8. QED
    BY <1>10, <2>4, <2>5, <2>6, <2>7
<1>11. ASSUME NEW w \in Writers, NEW c \in Cities, NEW readable \in BOOLEAN,
              Write(w, c, readable)
       PROVE  BackupInv'
  BY <1>11, BackupUntouched DEF Write, process, results, City
<1>12. ASSUME NEW w \in Writers, NEW c \in Cities, Seal(w, c) PROVE BackupInv'
  <2>1. pending[w] \in Nat /\ chain[c] \in Seq(Nat)
    BY <1>1 DEF StoresOK
  <2>2. \A d \in Cities, n \in Nat : Seals(chain[d], n) => Seals(chain'[d], n)
    BY <1>1, <1>12, <2>1, SealsKept DEF Seal, StoresOK
  <2>3. WithBucket => \A d \in Cities : done["backup"][d] \in Nat
    BY <1>1, ProgramsType DEF StoresOK
  <2>4. \A r \in Runs : uploading[r] # "verify" => City(r) \in Cities /\ loaded[r] \in Nat
    BY <1>1, AtWork, ProgramsType DEF ChildOfScript, RunsOK
  <2>5. UNCHANGED <<done, remote, uploading, loaded, at>>
    BY <1>12 DEF Seal, process, results
  <2>6. QED
    BY <2>2, <2>3, <2>4, <2>5 DEF BackupInv, City
<1>13. ASSUME Elsewhere PROVE BackupInv'
  BY <1>13, BackupUntouched DEF Elsewhere, process, stores, results, City
<1>14. QED
  BY <1>3, <1>4, <1>5, <1>6, <1>7, <1>8, <1>9, <1>10, <1>11, <1>12, <1>13, StepKinds
     DEF Capturing

(* What a successful backup had verified stays restorable, whatever fails, *)
(* is killed or is captured beside a later backup (backup.py 100-153).     *)
THEOREM BackupsAreRestorable == Spec => []BackupsLast
<1>1. TypeInv /\ BackupInv => BackupsLast
  <2> SUFFICES ASSUME TypeInv, BackupInv, WithBucket, NEW c \in Cities,
                      NEW n, n = done["backup"][c]
               PROVE  /\ remote[c].bodies >= n /\ remote[c].manifest >= n
                      /\ n = 0 \/ SubSeq(remote[c].chain, 1, n) = [i \in 1..n |-> i]
    BY DEF BackupsLast
  <2>1. n \in Nat /\ remote[c].chain \in Seq(Nat)
    BY ProgramsType DEF TypeInv, StoresOK
  <2>2. /\ Seals(remote[c].chain, n)
        /\ remote[c].bodies >= n /\ remote[c].manifest >= n
    BY DEF BackupInv
  <2>3. SubSeq(remote[c].chain, 1, n) = [i \in 1..n |-> i]
    <3> DEFINE entries == remote[c].chain
    <3>1. n <= Len(entries) /\ \A i \in 1..n : entries[i] = i
      BY <2>2 DEF Seals
    <3> HIDE DEF entries
    <3>2. SubSeq(entries, 1, n) = [i \in 1..n |-> entries[i]]
      BY <2>1 DEF entries
    <3>3. QED
      BY <3>1, <3>2 DEF entries
  <2>4. QED
    BY <2>2, <2>3
<1>2. QED
  BY <1>1, TypeInit, TypeStep, BackupInit, BackupStep, PTL DEF Spec

(***************************************************************************)
(* The success line.                                                       *)
(***************************************************************************)
LEMMA ScriptInit == Init => ScriptInv
BY DEF Init, ScriptInv

(* For a run whose shell lives, when nothing is done and no collector ends.*)
LEMMA ScriptUntouched ==
  ASSUME TypeInv, ScriptInv, UNCHANGED done,
         \A r \in Runs : shell'[r] = "alive" =>
           shell[r] = "alive" /\ UNCHANGED <<child[r], at[r], loaded[r], collected[r]>>
  PROVE  ScriptInv'
BY DEF ScriptInv, Behind, Command, City

(* A program has ended well with n captures before it: those its run's     *)
(* collectors left behind at least.  Nobody else's shell is alive.         *)
LEMMA ScriptAdvances ==
  ASSUME TypeInv, OneProgramAtATime, ScriptInv, NEW r \in Runs, NEW n \in Nat,
         child[r] = "working", Command(r) \in Later => n = loaded[r],
         Succeeds(r, n), UNCHANGED collected
  PROVE  ScriptInv'
<1>1. /\ done \in [Later -> [Cities -> Nat]] /\ at[r] \in 1..Len(Plan)
      /\ child \in [Runs -> {"none", "working"}]
      /\ shell \in [Runs -> {"none", "alive"}]
  BY AtWork DEF TypeInv, RunsOK, StoresOK
<1>2. \A q \in Runs : shell[q] = "alive" => q = r
  BY <1>1 DEF OneProgramAtATime
<1> SUFFICES ASSUME shell[r] = "alive"
             PROVE  \A i \in 1..Len(Plan) : Behind(r, i)' /\ Plan[i].program \in Later =>
                      done'[Plan[i].program][Plan[i].city] >= collected[r][Plan[i].city]
  BY <1>1, <1>2 DEF ScriptInv, Succeeds, Ends
<1> SUFFICES ASSUME NEW i \in 1..Len(Plan), Behind(r, i)', Plan[i].program \in Later
             PROVE  done'[Plan[i].program][Plan[i].city] >= collected[r][Plan[i].city]
  OBVIOUS
<1> DEFINE p == Plan[i].program
           c == Plan[i].city
<1>3. i < at[r] \/ i = at[r]
  BY DEF Succeeds, Ends, Behind
<1>4. c \in Cities
  BY PlanType, ProgramsType
<1>5. CASE p = Command(r) /\ c = City(r)
  <2>1. done'[p][c] = loaded[r]
    BY <1>1, <1>4, <1>5 DEF Succeeds
  <2>2. QED
    BY <1>5, <2>1 DEF ScriptInv
<1>6. CASE ~(p = Command(r) /\ c = City(r))
  <2>1. i < at[r]
    BY <1>1, <1>3, <1>6 DEF Command, City
  <2>2. done[p][c] >= collected[r][c]
    BY <2>1 DEF ScriptInv, Behind
  <2>3. done'[p][c] = done[p][c]
    BY <1>1, <1>4, <1>6 DEF Succeeds
  <2>4. QED
    BY <2>2, <2>3
<1>7. QED
  BY <1>5, <1>6

(* A command that is behind has processed what was collected.              *)
LEMMA ScriptStep == TypeInv /\ OneProgramAtATime /\ ScriptInv /\ [Next]_vars => ScriptInv'
<1> SUFFICES ASSUME TypeInv, OneProgramAtATime, ScriptInv, [Next]_vars PROVE ScriptInv'
  OBVIOUS
<1>1. RunsOK /\ StoresOK /\ ChildOfScript /\ NothingAhead
  BY DEF TypeInv
(* A new script has no command behind it.                                  *)
<1>2. ASSUME NEW r \in Runs, Start(r) PROVE ScriptInv'
  <2>1. at'[r] = 0 /\ child'[r] = "none"
    BY <1>1, <1>2 DEF Start, Held, RunsOK
  <2>2. \A i \in 1..Len(Plan) : ~Behind(r, i)'
    BY <2>1, PlanShape DEF Behind
  <2>3. \A q \in Runs \ {r} : shell'[q] # "alive"
    BY <1>1, <1>2 DEF Start, Held, RunsOK
  <2>4. QED
    BY <2>1, <2>2, <2>3 DEF ScriptInv
(* What the program loads is no less than what the collectors left.        *)
<1>3. ASSUME NEW r \in Runs, Launch(r) PROVE ScriptInv'
  <2>1. /\ child[r] = "none" /\ child'[r] = "working" /\ at'[r] = at[r] + 1
        /\ at[r] \in Nat /\ UNCHANGED <<done, collected, shell>>
        /\ shell[r] = "alive"
    BY <1>1, <1>3, PlanShape DEF Launch, Due, RunsOK, results
  <2>2. \A i \in 1..Len(Plan) : Behind(r, i)' => Behind(r, i)
    BY <2>1, PlanShape DEF Behind
  <2>3. Command(r)' = Following(r).program /\ City(r)' = Following(r).city
    BY <2>1 DEF Command, City, Following
  <2>4. Following(r).program \in Later => loaded'[r] >= collected[r][Following(r).city]
    <3>1. Following(r).program \in Later =>
            Following(r).city \in Cities /\ Opens(Following(r))
      BY <1>3, NextCommand, ProgramsType DEF Launch
    <3>2. Following(r).program \in Later => loaded'[r] = manifest[Following(r).city]
      BY <1>1, <1>3, <3>1 DEF Launch, RunsOK
    <3>3. QED
      BY <1>1, <3>1, <3>2 DEF NothingAhead, RunsOK, StoresOK
  <2>5. \A q \in Runs \ {r} : shell[q] # "alive"
    BY <1>1, <2>1 DEF OneProgramAtATime, RunsOK
  <2>6. QED
    BY <2>1, <2>2, <2>3, <2>4, <2>5 DEF ScriptInv
<1>4. ASSUME NEW r \in Runs, ReportSuccess(r) \/ KillShell(r) \/ Failure(r) PROVE ScriptInv'
  BY <1>1, <1>4, ScriptUntouched
     DEF ReportSuccess, KillShell, Failure, Fails, Ends, results, RunsOK
(* Before a collector of the script there were only collectors.            *)
<1>5. ASSUME NEW r \in Runs, CollectorEnds(r) PROVE ScriptInv'
  <2>1. child[r] = "working" /\ Command(r) = "snapshot" /\ at[r] \in 1..Len(Plan)
    BY <1>5, AtWork DEF CollectorEnds, Working
  <2>2. \A i \in 1..Len(Plan) : Behind(r, i)' => Plan[i].program \notin Later
    BY <1>5, <2>1, SnapshotsFirst, ProgramsType
       DEF Behind, CollectorEnds, Succeeds, Command
  <2>3. child'[r] = "none" /\ UNCHANGED shell
    BY <1>1, <1>5 DEF CollectorEnds, Succeeds, Ends, RunsOK
  <2>4. \A q \in Runs \ {r} : shell[q] # "alive"
    BY <1>1, <2>1 DEF OneProgramAtATime, RunsOK
  <2>5. QED
    BY <2>2, <2>3, <2>4 DEF ScriptInv
<1>6. ASSUME NEW r \in Runs, Processed(r) PROVE ScriptInv'
  BY <1>6, ScriptAdvances DEF Processed
<1>7. ASSUME NEW r \in Runs, PutChain(r) PROVE ScriptInv'
  BY <1>1, <1>7, ScriptAdvances DEF PutChain, Backing, Working, RunsOK
<1>8. ASSUME NEW r \in Runs, Verify(r) \/ PutBody(r) \/ PutManifest(r) PROVE ScriptInv'
  BY <1>8, ScriptUntouched DEF Verify, PutBody, PutManifest, process, results
<1>9. ASSUME Capturing \/ Elsewhere PROVE ScriptInv'
  BY <1>9, ScriptUntouched DEF Capturing, Write, Seal, Elsewhere, process, results
<1>10. QED
  BY <1>2, <1>3, <1>4, <1>5, <1>6, <1>7, <1>8, <1>9, StepKinds

(* The line Page47SnapshotRunSuccess is a promise about all cities: what   *)
(* the run's collectors left behind has been applied, read, placed and     *)
(* backed up (run_snapshotter.sh 14-62).                                   *)
THEOREM SuccessLineIsTrue == Spec => SuccessIsComplete
<1> DEFINE Promise == \A r \in Runs : ReportSuccess(r) =>
                        \A p \in Later, c \in Cities : done[p][c] >= collected[r][c]
<1>1. TypeInv /\ ScriptInv => Promise
  <2> SUFFICES ASSUME TypeInv, ScriptInv, NEW r \in Runs, ReportSuccess(r),
                      NEW p \in Later, NEW c \in Cities
               PROVE  done[p][c] >= collected[r][c]
    OBVIOUS
  <2>1. PICK i \in 1..Len(Plan) : Plan[i].program = p /\ Plan[i].city = c
    BY PlanCovers
  <2>2. Behind(r, i)
    BY PlanShape DEF ReportSuccess, Behind
  <2>3. QED
    BY <2>1, <2>2 DEF ReportSuccess, ScriptInv
<1>2. TypeInv /\ ScriptInv /\ [Next]_vars => [Promise]_vars
  BY <1>1
<1> HIDE DEF Promise
<1>3. Spec => [][Promise]_vars
  BY <1>2, TypeInit, TypeStep, LockInit, LockStep, ScriptInit, ScriptStep, PTL DEF Spec
<1>4. QED
  BY <1>3 DEF SuccessIsComplete, Promise

(***************************************************************************)
(* One writer to a store.  The lock keeps two collectors apart, but not a  *)
(* visitor and a collector.  Where nobody visits a city whose collector is *)
(* at work, a store is the log of EvidenceLog, which one process after the *)
(* other writes.                                                           *)
(***************************************************************************)
Apart == \A r \in Runs : Working(r, "snapshot") => visiting # City(r)

(* The chain seals the first n lines and no more.                          *)
Follows(c, n) == chain[c] = [i \in 1..n |-> i]

(* The process has the store open to capture.                              *)
Writes(w, c) ==
  IF w = Visitor THEN visiting = c
  ELSE Working(w, "snapshot") /\ City(w) = c

(* The chain is that of the manifest, or of all but its last line.         *)
OneBehind(c) == Intact(c) \/ (manifest[c] # 0 /\ Follows(c, manifest[c] - 1))

(* Faults are counted.                                                     *)
FaultsOK == faults \in Nat

(* A writer has its store as it left it, and only a fault leaves one with  *)
(* a line that nobody is about to seal.                                    *)
SerialInv ==
  /\ \A c \in Cities : OneBehind(c)
  /\ \A w \in Writers, c \in Cities : Writes(w, c) =>
       IF pending[w] = 0 THEN Intact(c)
       ELSE pending[w] = manifest[c] /\ Follows(c, manifest[c] - 1)
  /\ \A w \in Writers : pending[w] # 0 => \E c \in Cities : Writes(w, c)
  /\ \A c \in Cities : \/ Intact(c) \/ faults > 0
                       \/ \E w \in Writers : Writes(w, c) /\ pending[w] # 0

(* An empty store is whole.                                                *)
LEMMA SerialInit == Init => SerialInv
<1> SUFFICES ASSUME Init PROVE SerialInv
  OBVIOUS
<1>1. ASSUME NEW c \in Cities PROVE Intact(c)
  <2>1. manifest[c] = 0 /\ chain[c] = <<>>
    BY DEF Init
  <2>2. [i \in 1..0 |-> i] = <<>>
    OBVIOUS
  <2>3. QED
    BY <2>1, <2>2 DEF Intact
<1>2. \A w \in Writers : pending[w] = 0
  BY DEF Init
<1>3. QED
  BY <1>1, <1>2 DEF SerialInv, OneBehind

(* Two processes never have one store open to capture.                     *)
LEMMA OneWriter ==
  ASSUME TypeInv, OneProgramAtATime, Apart,
         NEW v \in Writers, NEW w \in Writers, NEW c \in Cities,
         Writes(v, c), Writes(w, c)
  PROVE  v = w
<1>1. \A r \in Runs : r # Visitor
  BY PipelineAssumption
<1>2. CASE v \in Runs /\ w \in Runs
  BY <1>1, <1>2 DEF Writes, Working, OneProgramAtATime
<1>3. CASE v = Visitor \/ w = Visitor
  BY <1>1, <1>3 DEF Writes, Apart, Writers
<1>4. QED
  BY <1>2, <1>3 DEF Writers

(* Where no store changes, a process either goes on as it was or begins    *)
(* with nothing written, in a store that is intact.                        *)
LEMMA SerialKept ==
  ASSUME SerialInv, UNCHANGED <<manifest, chain>>,
         faults \in Nat, faults' \in Nat, faults' >= faults,
         \A w \in Writers :
           \/ pending'[w] = pending[w] /\ \A c \in Cities : Writes(w, c)' <=> Writes(w, c)
           \/ /\ pending'[w] = 0 /\ \A c \in Cities : Writes(w, c)' => Intact(c)
              /\ pending[w] = 0 \/ faults' > 0
  PROVE  SerialInv'
<1>1. \A c \in Cities : Intact(c)' <=> Intact(c)
  BY DEF Intact
<1>2. \A c \in Cities : Follows(c, manifest[c] - 1)' <=> Follows(c, manifest[c] - 1)
  BY DEF Follows
<1>3. \A c \in Cities : OneBehind(c)'
  BY <1>1, <1>2 DEF SerialInv, OneBehind
<1>4. ASSUME NEW w \in Writers, NEW c \in Cities, Writes(w, c)'
      PROVE  IF pending'[w] = 0 THEN Intact(c)'
             ELSE pending'[w] = manifest'[c] /\ Follows(c, manifest[c] - 1)'
  BY <1>1, <1>2, <1>4 DEF SerialInv
<1>5. ASSUME NEW w \in Writers, pending'[w] # 0
      PROVE  \E c \in Cities : Writes(w, c)'
  BY <1>5 DEF SerialInv
<1>6. ASSUME NEW c \in Cities
      PROVE  \/ Intact(c)' \/ faults' > 0
             \/ \E w \in Writers : Writes(w, c)' /\ pending'[w] # 0
  <2>1. CASE Intact(c) \/ faults > 0
    BY <1>1, <2>1
  <2>2. CASE \E w \in Writers : Writes(w, c) /\ pending[w] # 0
    BY <2>2
  <2>3. QED
    BY <2>1, <2>2 DEF SerialInv
<1>7. QED
  BY <1>3, <1>4, <1>5, <1>6 DEF SerialInv

(* A step of one run that leaves it no line to seal.                       *)
LEMMA SerialOfRun ==
  ASSUME TypeInv, SerialInv, NEW r \in Runs, UNCHANGED <<manifest, chain, visiting>>,
         faults \in Nat, faults' \in Nat, faults' >= faults,
         \A q \in Runs \ {r} : child'[q] = child[q] /\ at'[q] = at[q],
         \A w \in Writers \ {r} : pending'[w] = pending[w],
         pending'[r] = 0, pending[r] = 0 \/ faults' > 0,
         \A c \in Cities : Writes(r, c)' => Intact(c)
  PROVE  SerialInv'
<1>1. ASSUME NEW w \in Writers, w # r
      PROVE  pending'[w] = pending[w] /\ \A c \in Cities : Writes(w, c)' <=> Writes(w, c)
  <2>1. CASE w = Visitor
    BY <1>1, <2>1 DEF Writes
  <2>2. CASE w \in Runs /\ w # Visitor
    <3>1. child'[w] = child[w] /\ at'[w] = at[w]
      BY <1>1, <2>2
    <3>2. QED
      BY <1>1, <2>2, <3>1 DEF Writes, Working, Command, City
  <2>3. QED
    BY <2>1, <2>2 DEF Writers
<1>2. QED
  BY <1>1, SerialKept

(* Who does not capture has no line to seal.                               *)
LEMMA OthersHaveNothing ==
  ASSUME SerialInv, NEW r \in Runs, ~Working(r, "snapshot")
  PROVE  pending[r] = 0
BY PipelineAssumption DEF SerialInv, Writes, Writers

(* The first step of a capture.                                            *)
LEMMA SerialWrite ==
  ASSUME TypeInv, OneProgramAtATime, Apart, SerialInv,
         NEW w \in Writers, NEW c \in Cities, Writes(w, c),
         NEW readable \in BOOLEAN, Write(w, c, readable)
  PROVE  /\ SerialInv'
         /\ Intact(c) /\ manifest' = [manifest EXCEPT ![c] = manifest[c] + 1]
         /\ UNCHANGED chain
<1>1. /\ pending[w] = 0 /\ Intact(c) /\ manifest[c] \in Nat
      /\ manifest \in [Cities -> Nat] /\ pending \in [Writers -> Nat]
      /\ chain \in [Cities -> Seq(Nat)]
  BY DEF Write, SerialInv, TypeInv, StoresOK
<1>2. /\ manifest' = [manifest EXCEPT ![c] = manifest[c] + 1]
      /\ pending' = [pending EXCEPT ![w] = manifest[c] + 1]
      /\ UNCHANGED <<child, at, visiting, chain, faults>>
  BY DEF Write, process
<1>3. \A v \in Writers, d \in Cities : Writes(v, d)' <=> Writes(v, d)
  BY <1>2 DEF Writes, Working, Command, City
<1>4. \A v \in Writers \ {w} : ~Writes(v, c)
  BY OneWriter
<1>5. \A d \in Cities : Writes(w, d) => d = c
  BY DEF Writes
<1>6. Follows(c, manifest[c] - 1)' /\ manifest'[c] = manifest[c] + 1 /\ pending'[w] = manifest[c] + 1
  <2>1. manifest'[c] = manifest[c] + 1 /\ manifest'[c] - 1 = manifest[c] /\ pending'[w] = manifest[c] + 1
    BY <1>1, <1>2
  <2>2. QED
    BY <1>1, <1>2, <2>1 DEF Intact, Follows
<1>7. ASSUME NEW d \in Cities, d # c
      PROVE  /\ Intact(d)' <=> Intact(d)
             /\ Follows(d, manifest[d] - 1)' <=> Follows(d, manifest[d] - 1)
             /\ manifest'[d] = manifest[d]
  BY <1>1, <1>2, <1>7 DEF Intact, Follows
<1>8. \A v \in Writers \ {w} : pending'[v] = pending[v]
  BY <1>1, <1>2
<1>9. ASSUME NEW d \in Cities PROVE OneBehind(d)'
  <2>1. CASE d = c
    BY <1>1, <1>6, <2>1 DEF OneBehind
  <2>2. CASE d # c
    BY <1>7, <2>2 DEF OneBehind, SerialInv
  <2>3. QED
    BY <2>1, <2>2
<1>10. ASSUME NEW v \in Writers, NEW d \in Cities, Writes(v, d)'
       PROVE  IF pending'[v] = 0 THEN Intact(d)'
              ELSE pending'[v] = manifest'[d] /\ Follows(d, manifest[d] - 1)'
  <2>1. CASE v = w
    BY <1>1, <1>3, <1>5, <1>6, <1>10, <2>1
  <2>2. CASE v # w
    BY <1>3, <1>4, <1>7, <1>8, <1>10, <2>2 DEF SerialInv
  <2>3. QED
    BY <2>1, <2>2
<1>11. ASSUME NEW v \in Writers, pending'[v] # 0
       PROVE  \E d \in Cities : Writes(v, d)'
  BY <1>3, <1>8, <1>11 DEF SerialInv
<1>12. ASSUME NEW d \in Cities
       PROVE  \/ Intact(d)' \/ faults' > 0
              \/ \E v \in Writers : Writes(v, d)' /\ pending'[v] # 0
  <2>1. CASE d = c
    BY <1>1, <1>3, <1>6, <2>1
  <2>2. CASE d # c
    <3>1. \A v \in Writers : Writes(v, d) => v # w
      BY <1>5, <2>2
    <3>2. QED
      BY <1>2, <1>3, <1>7, <1>8, <2>2, <3>1 DEF SerialInv
  <2>3. QED
    BY <2>1, <2>2
<1>13. QED
  BY <1>1, <1>2, <1>9, <1>10, <1>11, <1>12 DEF SerialInv

(* The second: the chain is that of the manifest again.                    *)
LEMMA SerialSeal ==
  ASSUME TypeInv, OneProgramAtATime, Apart, SerialInv,
         NEW w \in Writers, NEW c \in Cities, Writes(w, c), Seal(w, c)
  PROVE  /\ SerialInv'
         /\ manifest[c] # 0 /\ Follows(c, manifest[c] - 1)
         /\ chain' = [chain EXCEPT ![c] = Append(chain[c], manifest[c])]
         /\ UNCHANGED manifest
<1>1. /\ pending[w] # 0 /\ pending[w] = manifest[c] /\ Follows(c, manifest[c] - 1)
      /\ manifest \in [Cities -> Nat] /\ pending \in [Writers -> Nat]
      /\ chain \in [Cities -> Seq(Nat)]
  BY DEF Seal, SerialInv, TypeInv, StoresOK
<1>2. /\ chain' = [chain EXCEPT ![c] = Append(chain[c], manifest[c])]
      /\ pending' = [pending EXCEPT ![w] = 0]
      /\ UNCHANGED <<child, at, visiting, manifest, faults>>
  BY <1>1 DEF Seal, process
<1>3. \A v \in Writers, d \in Cities : Writes(v, d)' <=> Writes(v, d)
  BY <1>2 DEF Writes, Working, Command, City
<1>4. \A v \in Writers \ {w} : ~Writes(v, c)
  BY OneWriter
<1>5. \A d \in Cities : Writes(w, d) => d = c
  BY DEF Writes
<1>6. Intact(c)'
  <2> DEFINE n == manifest[c]
  <2>1. n \in Nat \ {0} /\ chain[c] = [i \in 1..(n - 1) |-> i]
    BY <1>1 DEF Follows
  <2> HIDE DEF n
  <2>2. Append([i \in 1..(n - 1) |-> i], n) = [i \in 1..n |-> i]
    BY <2>1
  <2>3. chain'[c] = Append(chain[c], n) /\ manifest'[c] = n
    BY <1>1, <1>2 DEF n
  <2>4. QED
    BY <2>1, <2>2, <2>3 DEF Intact
<1>7. ASSUME NEW d \in Cities, d # c
      PROVE  /\ Intact(d)' <=> Intact(d)
             /\ Follows(d, manifest[d] - 1)' <=> Follows(d, manifest[d] - 1)
  BY <1>1, <1>2, <1>7 DEF Intact, Follows
<1>8. pending'[w] = 0 /\ \A v \in Writers \ {w} : pending'[v] = pending[v]
  BY <1>1, <1>2
<1>9. ASSUME NEW d \in Cities PROVE OneBehind(d)'
  <2>1. CASE d = c
    BY <1>6, <2>1 DEF OneBehind
  <2>2. CASE d # c
    BY <1>2, <1>7, <2>2 DEF OneBehind, SerialInv
  <2>3. QED
    BY <2>1, <2>2
<1>10. ASSUME NEW v \in Writers, NEW d \in Cities, Writes(v, d)'
       PROVE  IF pending'[v] = 0 THEN Intact(d)'
              ELSE pending'[v] = manifest'[d] /\ Follows(d, manifest[d] - 1)'
  <2>1. CASE v = w
    BY <1>3, <1>5, <1>6, <1>8, <1>10, <2>1
  <2>2. CASE v # w
    BY <1>2, <1>3, <1>4, <1>7, <1>8, <1>10, <2>2 DEF SerialInv
  <2>3. QED
    BY <2>1, <2>2
<1>11. ASSUME NEW v \in Writers, pending'[v] # 0
       PROVE  \E d \in Cities : Writes(v, d)'
  BY <1>3, <1>8, <1>11 DEF SerialInv
<1>12. ASSUME NEW d \in Cities
       PROVE  \/ Intact(d)' \/ faults' > 0
              \/ \E v \in Writers : Writes(v, d)' /\ pending'[v] # 0
  <2>1. CASE d = c
    BY <1>6, <2>1
  <2>2. CASE d # c
    <3>1. \A v \in Writers : Writes(v, d) => v # w
      BY <1>5, <2>2
    <3>2. QED
      BY <1>2, <1>3, <1>7, <1>8, <2>2, <3>1 DEF SerialInv
  <2>3. QED
    BY <2>1, <2>2
<1>13. QED
  BY <1>1, <1>2, <1>9, <1>10, <1>11, <1>12 DEF SerialInv

(* The store of one city as EvidenceLog has it: its lines are the          *)
(* captures, each its own key, and their bytes are held from the start.    *)
Numbers == Nat \ {0}
Log(c) == INSTANCE EvidenceLog WITH
  Records <- Numbers, Bodies <- {"bytes"}, Seed <- <<>>,
  KeyOf <- [n \in Numbers |-> n], BodyOf <- [n \in Numbers |-> "bytes"],
  log <- [i \in 1..manifest[c] |-> i], sealed <- Len(chain[c]), held <- {"bytes"}

(* Every store takes a step of the log, or none.                           *)
LogStep == \A c \in Cities : Log(c)!Next \/ UNCHANGED <<manifest[c], chain[c]>>

(* The next line, in a store of which every line is sealed.                *)
LEMMA WriteIsLogged ==
  ASSUME StoresOK, NEW c \in Cities, Intact(c), UNCHANGED chain,
         manifest' = [manifest EXCEPT ![c] = manifest[c] + 1]
  PROVE  LogStep
<1>1. PICK n \in Nat : n = manifest[c]
  BY DEF StoresOK
<1>2. manifest'[c] = n + 1 /\ \A d \in Cities \ {c} : manifest'[d] = manifest[d]
  BY <1>1 DEF StoresOK
<1>3. chain[c] = [i \in 1..n |-> i] /\ Len(chain[c]) = n
  BY <1>1 DEF Intact
<1>4. /\ Len([i \in 1..n |-> i]) = n
      /\ [i \in 1..(n + 1) |-> i] = Append([i \in 1..n |-> i], n + 1)
  OBVIOUS
<1>5. n + 1 \notin Log(c)!KeysLogged
  <2>1. \A i \in 1..n : [j \in 1..n |-> j][i] # n + 1 /\ [j \in 1..n |-> j][i] \in Numbers
    BY DEF Numbers
  <2>2. \A k \in Numbers : [m \in Numbers |-> m][k] = k
    OBVIOUS
  <2>3. \A i \in 1..n : [m \in Numbers |-> m][[j \in 1..n |-> j][i]] # n + 1
    BY <2>1, <2>2
  <2>4. QED
    BY <1>1, <1>4, <2>3 DEF Log!KeysLogged
<1>6. Log(c)!Record(n + 1)
  <2>1. n + 1 \in Numbers
    BY DEF Numbers
  <2>2. [i \in 1..manifest[c] |-> i]' = Append([i \in 1..manifest[c] |-> i], n + 1)
    BY <1>1, <1>2, <1>4
  <2>3. Len(chain[c]) = Len([i \in 1..manifest[c] |-> i])
    BY <1>1, <1>3, <1>4
  <2>4. QED
    BY <1>5, <2>1, <2>2, <2>3 DEF Log!Record
<1>7. Log(c)!Next
  <2>1. n + 1 \in Numbers
    BY DEF Numbers
  <2>2. QED
    BY <1>6, <2>1 DEF Log!Next
<1>8. QED
  BY <1>2, <1>7 DEF LogStep

(* Its entry. *)
LEMMA SealIsLogged ==
  ASSUME StoresOK, NEW c \in Cities, manifest[c] # 0, Follows(c, manifest[c] - 1),
         UNCHANGED manifest, chain' = [chain EXCEPT ![c] = Append(chain[c], manifest[c])]
  PROVE  LogStep
<1>1. manifest[c] \in Nat \ {0} /\ chain[c] \in Seq(Nat)
  BY DEF StoresOK
<1>2. \A d \in Cities \ {c} : chain'[d] = chain[d]
  BY DEF StoresOK
<1>3. Len(chain[c]) = manifest[c] - 1 /\ Len(chain'[c]) = Len(chain[c]) + 1
  BY <1>1 DEF Follows, StoresOK
<1>4. Len([i \in 1..manifest[c] |-> i]) = manifest[c]
  BY <1>1
<1>5. Log(c)!Seal
  BY <1>1, <1>3, <1>4 DEF Log!Seal
<1>6. QED
  BY <1>2, <1>5 DEF LogStep, Log!Next

(* A store stays whole between two captures, whoever comes and goes.       *)
LEMMA SerialStep ==
  TypeInv /\ FaultsOK /\ OneProgramAtATime /\ Apart /\ SerialInv /\ [Next]_vars
    => SerialInv' /\ LogStep
<1> SUFFICES ASSUME TypeInv, FaultsOK, OneProgramAtATime, Apart, SerialInv, [Next]_vars
             PROVE  SerialInv' /\ LogStep
  OBVIOUS
<1>1. RunsOK /\ StoresOK /\ faults \in Nat
  BY DEF TypeInv, FaultsOK
<1> DEFINE Quiet == UNCHANGED <<manifest, chain>>
<1>2. ASSUME Quiet PROVE LogStep
  BY <1>2 DEF LogStep
<1>3. \A r \in Runs, c \in Cities : child'[r] = "none" => ~Writes(r, c)'
  BY PipelineAssumption DEF Writes, Working
(* Nobody works while no lock is held, and after the last command.         *)
<1>4. ASSUME NEW r \in Runs, Start(r) \/ ReportSuccess(r) PROVE SerialInv' /\ Quiet
  <2>1. child[r] = "none" /\ child' = child /\ Quiet /\ UNCHANGED <<visiting, pending, faults>>
    BY <1>1, <1>4 DEF Start, ReportSuccess, Held, stores, RunsOK
  <2>2. pending[r] = 0
    BY <2>1, OthersHaveNothing DEF Working
  <2>3. \A q \in Runs \ {r} : at'[q] = at[q]
    BY <1>1, <1>4 DEF Start, ReportSuccess, RunsOK
  <2>4. QED
    BY <1>1, <1>3, <2>1, <2>2, <2>3, SerialOfRun
(* A program is launched in a store that is intact, or ends at once.       *)
<1>5. ASSUME NEW r \in Runs, Launch(r) PROVE SerialInv' /\ Quiet
  <2>1. child[r] = "none" /\ Quiet /\ UNCHANGED <<visiting, pending, faults>>
    BY <1>5 DEF Launch, Due, stores
  <2>2. pending[r] = 0
    BY <2>1, OthersHaveNothing DEF Working
  <2>3. \A q \in Runs \ {r} : child'[q] = child[q] /\ at'[q] = at[q]
    BY <1>1, <1>5 DEF Launch, RunsOK
  <2>4. ASSUME NEW c \in Cities, Writes(r, c)' PROVE Intact(c)
    <3>1. at'[r] = at[r] + 1
      BY <1>1, <1>5 DEF Launch, RunsOK
    <3>2. Following(r).city = c
      BY <2>4, <3>1, PipelineAssumption DEF Writes, City, Following
    <3>3. QED
      BY <1>5, <3>2, CitiesType DEF Launch, Opens
  <2>5. QED
    BY <1>1, <2>1, <2>2, <2>3, <2>4, SerialOfRun
<1>6. ASSUME NEW r \in Runs, Fails(r), faults' \in Nat, faults' >= faults,
             pending[r] = 0 \/ faults' > 0
      PROVE  SerialInv' /\ Quiet
  <2>1. /\ child'[r] = "none" /\ pending'[r] = 0 /\ Quiet /\ UNCHANGED visiting
        /\ \A q \in Runs \ {r} : child'[q] = child[q] /\ at'[q] = at[q]
        /\ \A w \in Writers \ {r} : pending'[w] = pending[w]
    BY <1>1, <1>6 DEF Fails, Ends, stores, RunsOK, StoresOK, Writers
  <2>2. QED
    BY <1>1, <1>3, <1>6, <2>1, SerialOfRun
<1>7. ASSUME NEW r \in Runs,
             LaunchRefused(r) \/ ApplyCountsFailures(r) \/ VerifyRefuses(r)
      PROVE  SerialInv' /\ Quiet
  <2>1. ~Working(r, "snapshot") /\ Fails(r) /\ UNCHANGED faults
    BY <1>7 DEF LaunchRefused, Due, ApplyCountsFailures, VerifyRefuses, Backing, Working
  <2>2. QED
    BY <1>1, <1>6, <2>1, OthersHaveNothing
<1>8. ASSUME NEW r \in Runs, ProgramFails(r) PROVE SerialInv' /\ Quiet
  BY <1>1, <1>6, <1>8 DEF ProgramFails
(* A program ends well with nothing left to seal.                          *)
<1>9. ASSUME NEW r \in Runs, NEW n, Succeeds(r, n), pending[r] = 0
      PROVE  SerialInv' /\ Quiet
  <2>1. /\ child'[r] = "none" /\ Quiet /\ UNCHANGED <<visiting, pending, at, faults>>
        /\ \A q \in Runs \ {r} : child'[q] = child[q]
    BY <1>1, <1>9 DEF Succeeds, Ends, stores, RunsOK
  <2>2. QED
    BY <1>1, <1>3, <1>9, <2>1, SerialOfRun
<1>10. ASSUME NEW r \in Runs,
              CollectorEnds(r) \/ ApplyEnds(r) \/ ReadOrPlaceEnds(r) \/ NotifyEnds(r) \/ PutChain(r)
       PROVE  SerialInv' /\ Quiet
  <2>1. CASE CollectorEnds(r)
    BY <1>9, <2>1 DEF CollectorEnds
  <2>2. CASE ApplyEnds(r) \/ ReadOrPlaceEnds(r) \/ NotifyEnds(r) \/ PutChain(r)
    <3>1. ~Working(r, "snapshot")
      BY <2>2 DEF ApplyEnds, ReadOrPlaceEnds, NotifyEnds, PutChain, Backing, Working
    <3>2. \E n : Succeeds(r, n)
      BY <2>2 DEF ApplyEnds, ReadOrPlaceEnds, NotifyEnds, PutChain
    <3>3. QED
      BY <1>9, <3>1, <3>2, OthersHaveNothing
  <2>3. QED
    BY <1>10, <2>1, <2>2
(* Nothing changes that a store or its writer depends on.                  *)
<1>11. ASSUME UNCHANGED <<child, at, pending, visiting, manifest, chain>>,
              faults' \in Nat, faults' >= faults
       PROVE  SerialInv' /\ Quiet
  BY <1>1, <1>11, SerialKept DEF Writes, Working, Command, City
<1>12. ASSUME NEW r \in Runs, KillShell(r) \/ Verify(r) \/ PutBody(r) \/ PutManifest(r)
       PROVE  SerialInv' /\ Quiet
  <2>1. /\ UNCHANGED <<child, at, pending, visiting, manifest, chain>>
        /\ faults' \in Nat /\ faults' >= faults
    BY <1>1, <1>12 DEF KillShell, Verify, PutBody, PutManifest, stores, process
  <2>2. QED
    BY <1>11, <2>1
(* A capture is a step of the log.                                         *)
<1>13. ASSUME NEW w \in Writers, NEW c \in Cities, Writes(w, c),
              (\E readable \in BOOLEAN : Write(w, c, readable)) \/ Seal(w, c)
       PROVE  SerialInv' /\ LogStep
  <2>1. CASE \E readable \in BOOLEAN : Write(w, c, readable)
    <3>1. /\ SerialInv' /\ Intact(c) /\ UNCHANGED chain
          /\ manifest' = [manifest EXCEPT ![c] = manifest[c] + 1]
      BY <1>13, <2>1, SerialWrite
    <3>2. QED
      BY <1>1, <3>1, WriteIsLogged
  <2>2. CASE Seal(w, c)
    <3>1. /\ SerialInv' /\ manifest[c] # 0 /\ Follows(c, manifest[c] - 1) /\ UNCHANGED manifest
          /\ chain' = [chain EXCEPT ![c] = Append(chain[c], manifest[c])]
      BY <1>13, <2>2, SerialSeal
    <3>2. QED
      BY <1>1, <3>1, SealIsLogged
  <2>3. QED
    BY <1>13, <2>1, <2>2
<1>14. ASSUME NEW r \in Runs, Collect(r) PROVE SerialInv' /\ LogStep
  <2>1. City(r) \in Cities /\ r \in Writers /\ Writes(r, City(r))
    BY <1>14, AtWork, ProgramsType, PipelineAssumption DEF Collect, Working, Writes, Writers
  <2>2. QED
    BY <1>13, <1>14, <2>1 DEF Collect
<1>15. ASSUME VisitorWrites \/ VisitorSeals PROVE SerialInv' /\ LogStep
  <2>1. visiting \in Cities /\ Visitor \in Writers /\ Writes(Visitor, visiting)
    BY <1>1, <1>15 DEF VisitorWrites, VisitorSeals, StoresOK, Writes, Writers
  <2>2. QED
    BY <1>13, <1>15, <2>1 DEF VisitorWrites, VisitorSeals
(* A visitor opens a store that is intact, and leaves none behind it.      *)
<1>16. ASSUME (\E c \in Cities : Visit(c)) \/ Leave \/ VisitorDies
       PROVE  SerialInv' /\ Quiet
  <2>1. /\ Quiet /\ UNCHANGED <<child, at>> /\ faults' \in Nat /\ faults' >= faults
        /\ \A w \in Writers \ {Visitor} : pending'[w] = pending[w]
    BY <1>1, <1>16 DEF Visit, Leave, VisitorDies, stores, process, StoresOK
  <2>2. \A w \in Writers \ {Visitor}, c \in Cities : Writes(w, c)' <=> Writes(w, c)
    BY <2>1 DEF Writes, Working, Command, City
  <2>3. /\ pending'[Visitor] = 0 /\ \A c \in Cities : Writes(Visitor, c)' => Intact(c)
        /\ pending[Visitor] = 0 \/ faults' > 0
    <3>1. CASE \E c \in Cities : Visit(c)
      <4>1. pending[Visitor] = 0
        BY <3>1, CitiesType DEF Visit, SerialInv, Writes, Writers
      <4>2. QED
        BY <3>1, <4>1 DEF Visit, Writes
    <3>2. CASE Leave \/ VisitorDies
      BY <1>1, <3>2, CitiesType DEF Leave, VisitorDies, Writes, StoresOK, Writers
    <3>3. QED
      BY <1>16, <3>1, <3>2
  <2>4. QED
    BY <1>1, <2>1, <2>2, <2>3, SerialKept
<1>17. ASSUME UNCHANGED vars PROVE SerialInv' /\ Quiet
  BY <1>1, <1>11, <1>17 DEF vars, process, stores
<1>18. QED
  BY <1>1, <1>2, <1>4, <1>5, <1>7, <1>8, <1>10, <1>12, <1>14, <1>15, <1>16, <1>17
     DEF Next, Scheduled, Backup

(* A step counts one fault at most.                                        *)
LEMMA FaultsStep == FaultsOK /\ [Next]_vars => FaultsOK'
<1> SUFFICES ASSUME FaultsOK, [Next]_vars PROVE FaultsOK'
  OBVIOUS
<1>1. faults' = faults \/ faults' = faults + 1
  BY DEF Next, Scheduled, Backup, Start, Launch, LaunchRefused, ReportSuccess, Collect, Write,
         Seal, CollectorEnds, ApplyEnds, ApplyCountsFailures, ReadOrPlaceEnds, NotifyEnds,
         Succeeds, Verify, VerifyRefuses, PutBody, PutManifest, PutChain, KillShell,
         ProgramFails, Visit, VisitorWrites, VisitorSeals, Leave, VisitorDies, vars
<1>2. QED
  BY <1>1 DEF FaultsOK

(* Where no program captures a city beside its collector, every chain is   *)
(* that of its manifest, or of all but its last line, and a store that no  *)
(* program will open again is the work of a fault (store.py 201-273).      *)
THEOREM OneWriterKeepsStores ==
  Spec /\ []Apart => [](\A c \in Cities : OneBehind(c) /\ (Wrecked(c) => faults > 0))
<1> DEFINE Whole == \A c \in Cities : OneBehind(c) /\ (Wrecked(c) => faults > 0)
<1>1. SerialInv => Whole
  <2> SUFFICES ASSUME SerialInv, NEW c \in Cities
               PROVE  OneBehind(c) /\ (Wrecked(c) => faults > 0)
    OBVIOUS
  <2>1. ASSUME NEW w \in Writers, Writes(w, c), pending[w] # 0
        PROVE  ~Wrecked(c)
    BY <2>1, PipelineAssumption DEF Writes, Working, Wrecked, Writers
  <2>2. Wrecked(c) => ~Intact(c)
    BY DEF Wrecked
  <2>3. QED
    BY <2>1, <2>2 DEF SerialInv
<1>2. Init => FaultsOK
  BY DEF Init, FaultsOK
<1> HIDE DEF Whole
<1>3. QED
  BY <1>1, <1>2, TypeInit, TypeStep, LockInit, LockStep, SerialInit, SerialStep, FaultsStep, PTL
     DEF Spec, Whole

(* And every step is, for each store, one of EvidenceLog or none, whether  *)
(* a program that holds the lock takes it or one that does not (store.py   *)
(* 201-273, run_snapshotter.sh 7-20).  Bodies are not modelled here: they  *)
(* are held from the start.                                                *)
THEOREM StoresAreLogs == Spec /\ []Apart => [][LogStep]_vars
<1>1. Init => FaultsOK
  BY DEF Init, FaultsOK
<1>2. TypeInv /\ FaultsOK /\ OneProgramAtATime /\ Apart /\ SerialInv /\ [Next]_vars
        => [LogStep]_vars
  BY SerialStep
<1>3. QED
  BY <1>1, <1>2, TypeInit, TypeStep, LockInit, LockStep, SerialInit, SerialStep, FaultsStep, PTL
     DEF Spec
=============================================================================
