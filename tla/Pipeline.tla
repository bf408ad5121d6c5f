------------------------------ MODULE Pipeline ------------------------------
(***************************************************************************)
(* The scheduled run of deploy/run_snapshotter.sh: a shell that holds a    *)
(* lock and starts one program after another for every city, over evidence *)
(* stores that other programs also write, and the backup of those stores   *)
(* (snapshotter/backup.py) into a bucket.                                  *)
(*                                                                         *)
(* A capture is its line in the manifest, and is numbered by it.  What the *)
(* bytes are, and how they are written, is in EvidenceStore; here a        *)
(* capture is two steps, its line and its chain entry, since a store is    *)
(* refused between the two.                                                *)
(***************************************************************************)
EXTENDS Integers, Sequences, FiniteSetsExt

CONSTANTS
  Runs,           \* scheduled runs that may exist at the same time
  CityOrder,      \* the cities in the order in which the script names them
  WithBucket,     \* PAGE47_EVIDENCE_BACKUP_BUCKET is set
  MaxCaptures,    \* bound on the captures, in all stores together
  MaxFaults,      \* bound on programs that fail or are killed
  Nobody          \* no process, no city

(* A program that captures without taking the lock. *)
Visitor == "visitor"
Writers == Runs \cup {Visitor}

ASSUME PipelineAssumption ==
  /\ Nobody \notin Runs
  /\ Visitor \notin Runs
  /\ CityOrder \in Seq(STRING) /\ CityOrder # <<>>
  /\ \A i \in DOMAIN CityOrder : CityOrder[i] # Nobody
  /\ WithBucket \in BOOLEAN
  /\ MaxCaptures \in Nat
  /\ MaxFaults \in Nat

Cities == {CityOrder[i] : i \in DOMAIN CityOrder}

Counts == 0..MaxCaptures

(* The programs that run once for each city, in the order of the script. *)
Programs ==
  <<"snapshot", "apply", "read", "place">> \o (IF WithBucket THEN <<"backup">> ELSE <<>>)

(* Those that work from the captures before them. *)
Later == {Programs[i] : i \in DOMAIN Programs} \ {"snapshot"}

(* The commands of the script: every program for every city, then notify. *)
Plan ==
  LET n == Len(CityOrder)
  IN  [i \in 1..(Len(Programs) * n) |->
         [program |-> Programs[((i - 1) \div n) + 1],
          city |-> CityOrder[((i - 1) % n) + 1]]]
      \o <<[program |-> "notify", city |-> Nobody]>>

VARIABLES
  shell,       \* whether a run's shell is alive
  child,       \* whether the program it started last is working
  at,          \* the command of Plan that was started last, 0 before the first
  loaded,      \* what the program read when it opened the store
  pending,     \* the line a process has written and not yet chained, or 0
  uploading,   \* what a backup does next
  visiting,    \* the city whose store a program without the lock has open
  manifest,    \* the number of lines of each city's manifest
  chain,       \* the lines its chain seals, in order
  unreadable,  \* captures of which an item cannot be read
  done,        \* the captures each program had before it when it last succeeded
  remote,      \* bucket: the leading lines with a body there, and both logs
  collected,   \* history: the captures that a run's collectors left behind
  faults

process == <<shell, child, at, loaded, uploading, collected>>
stores == <<manifest, chain, unreadable>>
results == <<done, remote>>

vars == <<process, stores, results, pending, visiting, faults>>

Opens(command) == command.city # Nobody

Command(r) == Plan[at[r]].program
City(r) == Plan[at[r]].city

(* verify_integrity: one entry for each line, in the same order. *)
Intact(c) == chain[c] = [i \in 1..manifest[c] |-> i]

(* flock is held by the open file 9, which the shell's children inherit. *)
Held == \E r \in Runs : shell[r] = "alive" \/ child[r] # "none"

(***************************************************************************)
(* The shell.                                                              *)
(***************************************************************************)
(* Runs differ in nothing but their number: the first free one is taken.     *)
Free(r) == shell[r] = "none" /\ child[r] = "none"
FirstFree(r) == r = CHOOSE q \in Runs : Free(q)

(* Fault: a lock that ends with the shell although its child works on. *)
StartOverChild(r) ==
  /\ \A q \in Runs : shell[q] = "none"
  /\ Free(r) /\ FirstFree(r)
  /\ shell' = [shell EXCEPT ![r] = "alive"]
  /\ at' = [at EXCEPT ![r] = 0]
  /\ UNCHANGED <<child, loaded, pending, uploading, visiting, stores, results,
                 collected, faults>>

(* Fault: a lock file that a killed run leaves behind. *)
StartUnlessKilled(r) ==
  /\ ~Held /\ faults = 0
  /\ FirstFree(r)
  /\ shell' = [shell EXCEPT ![r] = "alive"]
  /\ at' = [at EXCEPT ![r] = 0]
  /\ UNCHANGED <<child, loaded, pending, uploading, visiting, stores, results,
                 collected, faults>>

(* flock -n: a run that finds the lock taken exits and changes nothing. *)
Start(r) ==
  /\ ~Held
  /\ FirstFree(r)
  /\ shell' = [shell EXCEPT ![r] = "alive"]
  /\ at' = [at EXCEPT ![r] = 0]
  /\ UNCHANGED <<child, loaded, pending, uploading, visiting, stores, results,
                 collected, faults>>

(* The next command: SnapshotStore(root) loads the manifest and verifies the *)
(* chain, and a program whose store is not intact ends at once.              *)
Following(r) == Plan[at[r] + 1]
Due(r) == shell[r] = "alive" /\ child[r] = "none" /\ at[r] < Len(Plan)

Launch(r) ==
  /\ Due(r)
  /\ Opens(Following(r)) => Intact(Following(r).city)
  /\ at' = [at EXCEPT ![r] = @ + 1]
  /\ child' = [child EXCEPT ![r] = "working"]
  /\ loaded' = [loaded EXCEPT ![r] =
                  IF Opens(Following(r)) THEN manifest[Following(r).city] ELSE 0]
  /\ UNCHANGED <<shell, pending, uploading, visiting, stores, results,
                 collected, faults>>

(* The line Page47SnapshotRunSuccess, the last one of the script. *)
ReportSuccess(r) ==
  /\ shell[r] = "alive" /\ child[r] = "none" /\ at[r] = Len(Plan)
  /\ shell' = [shell EXCEPT ![r] = "none"]
  /\ at' = [at EXCEPT ![r] = 0]
  /\ collected' = [collected EXCEPT ![r] = [c \in Cities |-> 0]]
  /\ UNCHANGED <<child, loaded, pending, uploading, visiting, stores, results, faults>>

(* The program's process ends, and what it kept in memory with it. *)
Ends(r) ==
  /\ child' = [child EXCEPT ![r] = "none"]
  /\ loaded' = [loaded EXCEPT ![r] = 0]
  /\ uploading' = [uploading EXCEPT ![r] = "verify"]

(* Fault: without set -e the script goes on. *)
FailsUnnoticed(r) ==
  /\ Ends(r)
  /\ pending' = [pending EXCEPT ![r] = 0]
  /\ UNCHANGED <<shell, at, collected, visiting, stores, results>>

(* With another status than zero: set -e ends the script. *)
Fails(r) ==
  /\ Ends(r)
  /\ shell' = [shell EXCEPT ![r] = "none"]
  /\ pending' = [pending EXCEPT ![r] = 0]
  /\ at' = [at EXCEPT ![r] = 0]
  /\ collected' = [collected EXCEPT ![r] = [c \in Cities |-> 0]]
  /\ UNCHANGED <<visiting, stores, results>>

(* With status zero, after which the script goes on; without a shell to go   *)
(* on, the lock is free.                                                     *)
Succeeds(r, n) ==
  /\ Ends(r)
  /\ done' = IF Command(r) \in Later
             THEN [done EXCEPT ![Command(r)][City(r)] = n] ELSE done
  /\ UNCHANGED <<shell, at, pending, visiting, stores, faults>>

(* The shell alone is killed: the program it started works on. *)
KillShell(r) ==
  /\ faults < MaxFaults
  /\ shell[r] = "alive"
  /\ shell' = [shell EXCEPT ![r] = "none"]
  /\ faults' = faults + 1
  /\ UNCHANGED <<child, at, loaded, pending, uploading, visiting, stores,
                 results, collected>>

(* A program raises, is killed, or (the collector) ends "incomplete". *)
ProgramFails(r) ==
  /\ faults < MaxFaults
  /\ child[r] # "none"
  /\ faults' = faults + 1
  /\ Fails(r)

(***************************************************************************)
(* The programs.                                                           *)
(***************************************************************************)
LaunchRefused(r) ==
  /\ Due(r)
  /\ Opens(Following(r)) /\ ~Intact(Following(r).city)
  /\ UNCHANGED faults
  /\ Fails(r)

Working(r, program) == child[r] = "working" /\ Command(r) = program

(* The first step of a capture: its line is in the manifest. *)
Write(w, c, readable) ==
  /\ pending[w] = 0
  /\ MapThenSumSet(LAMBDA d : manifest[d], Cities) < MaxCaptures
  /\ manifest' = [manifest EXCEPT ![c] = @ + 1]
  /\ pending' = [pending EXCEPT ![w] = manifest[c] + 1]
  /\ unreadable' = IF readable THEN unreadable
                   ELSE [unreadable EXCEPT ![c] = @ \cup {manifest[c] + 1}]
  /\ UNCHANGED <<process, visiting, chain, results, faults>>

(* The second: _append_integrity_entry chains the line its process wrote. *)
Seal(w, c) ==
  /\ pending[w] # 0
  /\ chain' = [chain EXCEPT ![c] = Append(@, pending[w])]
  /\ pending' = [pending EXCEPT ![w] = 0]
  /\ UNCHANGED <<process, visiting, manifest, unreadable, results, faults>>

Collect(r) ==
  /\ Working(r, "snapshot")
  /\ \/ \E readable \in BOOLEAN : Write(r, City(r), readable)
     \/ Seal(r, City(r))

(* run_once ends "complete", and the program with status 0. *)
CollectorEnds(r) ==
  /\ Working(r, "snapshot") /\ pending[r] = 0
  /\ Succeeds(r, manifest[City(r)])
  /\ collected' = [collected EXCEPT ![r][City(r)] = manifest[City(r)]]
  /\ UNCHANGED remote

(* A capture with an item that cannot be read is tried again by each run. *)
ApplyEnds(r) ==
  /\ Working(r, "apply")
  /\ unreadable[City(r)] \cap 1..loaded[r] = {}
  /\ Succeeds(r, loaded[r])
  /\ UNCHANGED <<remote, collected>>

ApplyCountsFailures(r) ==
  /\ Working(r, "apply")
  /\ unreadable[City(r)] \cap 1..loaded[r] # {}
  /\ UNCHANGED faults
  /\ Fails(r)

(* Unreadable documents and agendas are results, not failures, of these two. *)
ReadOrPlaceEnds(r) ==
  /\ Working(r, "read") \/ Working(r, "place")
  /\ Succeeds(r, loaded[r])
  /\ UNCHANGED <<remote, collected>>

NotifyEnds(r) ==
  /\ Working(r, "notify")
  /\ Succeeds(r, 0)
  /\ UNCHANGED <<remote, collected>>

(***************************************************************************)
(* backup_evidence.  _put_if_changed leaves an object alone whose recorded *)
(* hash is that of the local bytes, so the bodies there are the leading    *)
(* ones.  The two logs of the collector, uploaded last, are left out.      *)
(***************************************************************************)
Backing(r, place) == Working(r, "backup") /\ uploading[r] = place

(* verify_integrity compares the manifest with what was loaded, too. *)
Verified(r) == Intact(City(r)) /\ manifest[City(r)] = loaded[r]

Verify(r) ==
  /\ Backing(r, "verify")
  /\ Verified(r)
  /\ uploading' = [uploading EXCEPT ![r] = "bodies"]
  /\ UNCHANGED <<shell, child, at, loaded, pending, visiting, stores, results,
                 collected, faults>>

VerifyRefuses(r) ==
  /\ Backing(r, "verify")
  /\ ~Verified(r)
  /\ UNCHANGED faults
  /\ Fails(r)

PutBody(r) ==
  /\ Backing(r, "bodies")
  /\ remote[City(r)].bodies < loaded[r]
  /\ remote' = [remote EXCEPT ![City(r)].bodies = @ + 1]
  /\ UNCHANGED <<process, pending, visiting, stores, done, faults>>

(* Fault: the manifest is uploaded before the bodies it cites. *)
PutManifestFirst(r) ==
  /\ Backing(r, "bodies")
  /\ remote' = [remote EXCEPT ![City(r)].manifest = manifest[City(r)]]
  /\ uploading' = [uploading EXCEPT ![r] = "chain"]
  /\ UNCHANGED <<shell, child, at, loaded, pending, visiting, stores, done,
                 collected, faults>>

(* The logs are read from the disk now, not as they were verified. *)
PutManifest(r) ==
  /\ Backing(r, "bodies")
  /\ remote[City(r)].bodies >= loaded[r]
  /\ remote' = [remote EXCEPT ![City(r)].manifest = manifest[City(r)]]
  /\ uploading' = [uploading EXCEPT ![r] = "chain"]
  /\ UNCHANGED <<shell, child, at, loaded, pending, visiting, stores, done,
                 collected, faults>>

(* The chain is the last upload that matters here, and the program ends. *)
PutChain(r) ==
  /\ Backing(r, "chain")
  /\ remote' = [remote EXCEPT ![City(r)].chain = chain[City(r)]]
  /\ Succeeds(r, loaded[r])
  /\ UNCHANGED collected

Backup(r) ==
  Verify(r) \/ VerifyRefuses(r) \/ PutBody(r) \/ PutManifest(r) \/ PutChain(r)

(***************************************************************************)
(* scripts/backfill.py and capture_record_attachments.py open a store and  *)
(* capture without taking the lock.                                        *)
(***************************************************************************)
Visit(c) ==
  /\ visiting = Nobody
  /\ Intact(c)
  /\ visiting' = c
  /\ UNCHANGED <<process, pending, stores, results, faults>>

VisitorWrites ==
  /\ visiting # Nobody
  /\ \E readable \in BOOLEAN : Write(Visitor, visiting, readable)

VisitorSeals == visiting # Nobody /\ Seal(Visitor, visiting)

Leave ==
  /\ visiting # Nobody /\ pending[Visitor] = 0
  /\ visiting' = Nobody
  /\ UNCHANGED <<process, pending, stores, results, faults>>

VisitorDies ==
  /\ faults < MaxFaults
  /\ visiting # Nobody
  /\ visiting' = Nobody
  /\ pending' = [pending EXCEPT ![Visitor] = 0]
  /\ faults' = faults + 1
  /\ UNCHANGED <<process, stores, results>>

(***************************************************************************)
(* The specification.                                                      *)
(***************************************************************************)
Init ==
  /\ shell = [r \in Runs |-> "none"]
  /\ child = [r \in Runs |-> "none"]
  /\ at = [r \in Runs |-> 0]
  /\ loaded = [r \in Runs |-> 0]
  /\ pending = [w \in Writers |-> 0]
  /\ uploading = [r \in Runs |-> "verify"]
  /\ visiting = Nobody
  /\ manifest = [c \in Cities |-> 0]
  /\ chain = [c \in Cities |-> <<>>]
  /\ unreadable = [c \in Cities |-> {}]
  /\ done = [p \in Later |-> [c \in Cities |-> 0]]
  /\ remote = [c \in Cities |-> [bodies |-> 0, manifest |-> 0, chain |-> <<>>]]
  /\ collected = [r \in Runs |-> [c \in Cities |-> 0]]
  /\ faults = 0

(* What a scheduled run does of itself, cron's start included. *)
Scheduled(r) ==
  \/ Start(r) \/ Launch(r) \/ LaunchRefused(r) \/ ReportSuccess(r)
  \/ Collect(r) \/ CollectorEnds(r)
  \/ ApplyEnds(r) \/ ApplyCountsFailures(r)
  \/ ReadOrPlaceEnds(r)
  \/ Backup(r)
  \/ NotifyEnds(r)

Next ==
  \/ \E r \in Runs : Scheduled(r) \/ KillShell(r) \/ ProgramFails(r)
  \/ \E c \in Cities : Visit(c)
  \/ VisitorWrites \/ VisitorSeals \/ Leave \/ VisitorDies

Spec == Init /\ [][Next]_vars

(* cron starts the script every quarter of an hour, the programs go on by   *)
(* themselves, and a program between its two writes makes the second.       *)
FairSpec ==
  /\ Spec
  /\ WF_vars(\E r \in Runs : Scheduled(r))
  /\ WF_vars(VisitorSeals)

(***************************************************************************)
(* Properties.                                                             *)
(***************************************************************************)
TypeOK ==
  /\ shell \in [Runs -> {"none", "alive"}]
  /\ child \in [Runs -> {"none", "working"}]
  /\ at \in [Runs -> 0..Len(Plan)]
  /\ loaded \in [Runs -> Counts]
  /\ pending \in [Writers -> Counts]
  /\ uploading \in [Runs -> {"verify", "bodies", "chain"}]
  /\ visiting \in Cities \cup {Nobody}
  /\ manifest \in [Cities -> Counts]
  /\ chain \in [Cities -> Seq(1..MaxCaptures)]
  /\ unreadable \in [Cities -> SUBSET (1..MaxCaptures)]
  /\ done \in [Later -> [Cities -> Counts]]
  /\ remote \in [Cities -> [bodies : Counts, manifest : Counts,
                            chain : Seq(1..MaxCaptures)]]
  /\ collected \in [Runs -> [Cities -> Counts]]
  /\ faults \in 0..MaxFaults

(* Two programs of the schedule never work at the same time, even when a    *)
(* shell was killed and left its program behind.  The single writer of      *)
(* EvidenceStore and the single scheduled notifier of Delivery rest on it.  *)
OneProgramAtATime ==
  \A q, r \in Runs :
    q # r => ~((shell[q] = "alive" \/ child[q] # "none")
               /\ (shell[r] = "alive" \/ child[r] # "none"))

(* Whatever a successful backup had verified stays restorable: its bodies   *)
(* are in the bucket, and both logs there begin with its lines, also while  *)
(* a later backup is cut short or runs beside a capture.                    *)
BackupsLast ==
  WithBucket => \A c \in Cities :
    LET n == done["backup"][c]
    IN  /\ remote[c].bodies >= n
        /\ remote[c].manifest >= n
        /\ n = 0 \/ SubSeq(remote[c].chain, 1, n) = [i \in 1..n |-> i]

(* The success line is a promise about all cities: whatever the run's       *)
(* collectors left behind was applied, read, placed and backed up.          *)
SuccessIsComplete ==
  [][\A r \in Runs : ReportSuccess(r) =>
       \A p \in Later, c \in Cities : done[p][c] >= collected[r][c]]_vars

(* A store no program will open again, because a process was killed between *)
(* a line and its entry, or two processes sealed their lines in turn.       *)
Wrecked(c) ==
  /\ ~Intact(c)
  /\ ~(visiting = c /\ pending[Visitor] # 0)
  /\ \A r \in Runs : ~(child[r] # "none" /\ City(r) = c /\ pending[r] # 0)

Hopeless == \E c \in Cities : Wrecked(c) \/ unreadable[c] # {}

(* Every capture is applied, read, placed and backed up in the end, however *)
(* programs fail, unless some city, perhaps the other one, has a store that *)
(* cannot be opened or a capture that cannot be read.                       *)
EventuallyProcessed ==
  \A c \in Cities, n \in 1..MaxCaptures :
    manifest[c] = n ~> ((\A p \in Later : done[p][c] >= n) \/ Hopeless)
=============================================================================
