---------------------------- MODULE WatchRequests ----------------------------
(***************************************************************************)
(* POST /api/watches (web/app.py): the request limiter of web/limits.py,   *)
(* then the geocoder lookup of address/matcher.py with its two cache files *)
(* for an address.  Requests run in threads of one web process.            *)
(*                                                                         *)
(* The clock of the limiter is read before its lock is taken.  A file is   *)
(* written by Path.write_text in two steps: it is created or truncated,    *)
(* then filled.  Answers of the geocoder are numbered; a number stands for *)
(* the bytes in the body and for the capture time in the metadata.         *)
(***************************************************************************)
EXTENDS Integers, Sequences, SequencesExt, FiniteSetsExt

CONSTANTS
  Threads,      \* request threads of the web process
  Clients,      \* values of x-real-ip
  Addresses,
  Maximum,      \* requests of a client in a window
  Window,       \* the window, in ticks of the clock
  MaxKeys,      \* clients the limiter remembers
  MaxTime,      \* bound on the clock
  MaxFetches,   \* bound on answers of the geocoder
  MaxRestarts,  \* bound on restarts of the service
  Nobody        \* no client, no address

ASSUME WatchRequestsAssumption ==
  /\ Maximum \in Nat \ {0} /\ Window \in Nat \ {0} /\ MaxKeys \in Nat \ {0}
  /\ MaxTime \in Nat \ {0} /\ MaxFetches \in Nat /\ MaxRestarts \in Nat
  /\ Nobody \notin Clients \cup Addresses

Absent == -1    \* a file that does not exist
Empty == 0      \* one that was created or truncated, and not yet filled

VARIABLES
  now,
  requests,     \* the limiter's timestamps of each client it remembers
  pc,           \* each thread's place in the request
  client,       \* whose request it is
  clock,        \* what the thread read from the clock
  address,      \* the address it looks up
  sawBody,      \* whether the body file existed when it looked
  answer,       \* the answer in hand: what was fetched, or read from the body
  body, meta,   \* the cache files of each address
  fetches,      \* the answers the geocoder has given
  restarts,
  accepted,     \* history: the times of a client's requests since the start
  promised,     \* history: when a refused client was told to come back, or 0
  newest,       \* history: the latest clock reading used under the lock
  excused,      \* history: clients that were evicted or overtaken
  crowded,      \* history: addresses two threads were fetching at once
  mixed         \* history: lookups that returned one answer with another's time

limiter == <<now, requests, clock, client, accepted, promised, newest,
             excused>>
cache == <<address, sawBody, answer, body, meta, fetches, crowded, mixed>>
vars == <<limiter, cache, pc, restarts>>

(***************************************************************************)
(* SlidingWindowLimiter.retry_after.                                       *)
(***************************************************************************)
Forget(keys) == [k \in DOMAIN requests \ keys |-> requests[k]]

(* Fault: a key goes with its first timestamp. *)
PrunedEagerly(cutoff) ==
  Forget({k \in DOMAIN requests : requests[k] = <<>> \/ requests[k][1] <= cutoff})

(* _prune_keys: keys whose last timestamp has left the window.  There are    *)
(* never more than MaxKeys, so its second half drops none.                   *)
Pruned(cutoff) ==
  Forget({k \in DOMAIN requests :
            requests[k] = <<>> \/ Last(requests[k]) <= cutoff})

(* The key to drop for a new one: that of the oldest last timestamp. *)
Evicted(kept, c) ==
  IF c \in DOMAIN kept \/ Cardinality(DOMAIN kept) < MaxKeys THEN {}
  ELSE {CHOOSE k \in DOMAIN kept :
          \A other \in DOMAIN kept : Last(kept[k]) <= Last(kept[other])}

(* popleft while the first timestamp has left the window. *)
Recent(stamps, cutoff) ==
  LET gone == {i \in DOMAIN stamps : \A j \in 1..i : stamps[j] <= cutoff}
  IN  SubSeq(stamps, Cardinality(gone) + 1, Len(stamps))

(* An excused client's requests are not counted any more. *)
Log(c, at) ==
  accepted' = [k \in Clients |-> IF k \in excused' THEN <<>>
                                ELSE IF k = c THEN Append(accepted[k], at)
                                ELSE accepted[k]]

(* current = monotonic(), before the lock. *)
Arrive(t, c) ==
  /\ pc[t] = "idle"
  /\ pc' = [pc EXCEPT ![t] = "limit"]
  /\ client' = [client EXCEPT ![t] = c]
  /\ clock' = [clock EXCEPT ![t] = now]
  /\ UNCHANGED <<now, requests, accepted, promised, newest, excused, cache, restarts>>

(* What retry_after has in hand under its lock for thread t: the keys left   *)
(* by _prune_keys, the one to evict, the client's timestamps in the window.  *)
Kept(t) == Pruned(clock[t] - Window)

Dropped(t) == Evicted(Kept(t), client[t])

Stamps(t) ==
  IF client[t] \in DOMAIN Kept(t) THEN Recent(Kept(t)[client[t]], clock[t] - Window)
  ELSE <<>>

Remember(t, stamps) ==
  /\ newest' = Max({newest, clock[t]})
  /\ requests' = [k \in (DOMAIN Kept(t) \ Dropped(t)) \cup {client[t]} |->
                    IF k = client[t] THEN stamps ELSE Kept(t)[k]]

Decided(t, next) ==
  /\ pc' = [pc EXCEPT ![t] = next]
  /\ client' = [client EXCEPT ![t] = Nobody]
  /\ clock' = [clock EXCEPT ![t] = 0]

Accept(t) ==
  /\ pc[t] = "limit"
  /\ Len(Stamps(t)) < Maximum
  /\ Remember(t, Append(Stamps(t), clock[t]))
  /\ excused' = excused \cup Dropped(t)
                \cup (IF clock[t] < newest THEN {client[t]} ELSE {})
  /\ Log(client[t], clock[t])
  /\ promised' = [promised EXCEPT ![client[t]] = 0]
  /\ Decided(t, "validate")
  /\ UNCHANGED <<now, cache, restarts>>

(* Fault: a refused request counts, too. *)
RefuseAndCount(t) ==
  /\ pc[t] = "limit"
  /\ Len(Stamps(t)) >= Maximum
  /\ Remember(t, Append(Stamps(t), clock[t]))
  /\ promised' = [promised EXCEPT ![client[t]] = Stamps(t)[1] + Window]
  /\ Decided(t, "idle")
  /\ UNCHANGED <<now, accepted, excused, cache, restarts>>

(* 429 with Retry-After; the request is not recorded. *)
Refuse(t) ==
  /\ pc[t] = "limit"
  /\ Len(Stamps(t)) >= Maximum
  /\ Remember(t, Stamps(t))
  /\ promised' = [promised EXCEPT ![client[t]] =
                    clock[t] + Max({1, Stamps(t)[1] + Window - clock[t]})]
  /\ Decided(t, "idle")
  /\ UNCHANGED <<now, accepted, excused, cache, restarts>>

(***************************************************************************)
(* WebService.create_watch: census_lookup, for a watch with an address.    *)
(***************************************************************************)
(* The request ends: with the watch saved, or with the error it answers.    *)
End(t) ==
  /\ pc' = [pc EXCEPT ![t] = "idle"]
  /\ address' = [address EXCEPT ![t] = Nobody]
  /\ sawBody' = [sawBody EXCEPT ![t] = FALSE]
  /\ answer' = [answer EXCEPT ![t] = 0]

files == <<body, meta, fetches, crowded, mixed>>

Rest == <<limiter, restarts>>

(* Bodies, address and email are checked; a watch may have no address.       *)
RejectInput(t) ==
  /\ pc[t] = "validate"
  /\ End(t)
  /\ UNCHANGED <<Rest, files>>

LookAtBody(t, a) ==
  /\ pc[t] = "validate"
  /\ pc' = [pc EXCEPT ![t] = "lookAtMeta"]
  /\ address' = [address EXCEPT ![t] = a]
  /\ sawBody' = [sawBody EXCEPT ![t] = body[a] # Absent]
  /\ UNCHANGED <<Rest, answer, body, meta, fetches, crowded, mixed>>

SawMeta(t) == meta[address[t]] # Absent

(* body_path.exists() != metadata_path.exists(): "cache was incomplete". *)
Incomplete(t) ==
  /\ pc[t] = "lookAtMeta"
  /\ sawBody[t] # SawMeta(t)
  /\ End(t)
  /\ UNCHANGED <<Rest, files>>

Complete(t) ==
  /\ pc[t] = "lookAtMeta"
  /\ sawBody[t] = SawMeta(t)
  /\ pc' = [pc EXCEPT ![t] = "decide"]
  /\ sawBody' = [sawBody EXCEPT ![t] = FALSE]
  /\ UNCHANGED <<Rest, address, answer, files>>

(* Both are looked at again; the metadata is never there before the body. *)
Hit(t) ==
  /\ pc[t] = "decide"
  /\ SawMeta(t)
  /\ pc' = [pc EXCEPT ![t] = "readBody"]
  /\ UNCHANGED <<Rest, cache>>

Fetching(t, a) ==
  address[t] = a /\ pc[t] \in {"fetch", "openBody", "fillBody", "openMeta", "fillMeta"}

(* Fault: an entry that exists is fetched again from time to time. *)
MissOrRefresh(t) ==
  /\ pc[t] = "decide"
  /\ pc' = [pc EXCEPT ![t] = "fetch"]
  /\ crowded' = IF \E other \in Threads \ {t} : Fetching(other, address[t])
                THEN crowded \cup {address[t]} ELSE crowded
  /\ UNCHANGED <<Rest, address, sawBody, answer, body, meta, fetches, mixed>>

Miss(t) ==
  /\ pc[t] = "decide"
  /\ ~SawMeta(t)
  /\ pc' = [pc EXCEPT ![t] = "fetch"]
  /\ crowded' = IF \E other \in Threads \ {t} : Fetching(other, address[t])
                THEN crowded \cup {address[t]} ELSE crowded
  /\ UNCHANGED <<Rest, address, sawBody, answer, body, meta, fetches, mixed>>

(* An empty file is not JSON. *)
ReadBody(t) ==
  /\ pc[t] = "readBody"
  /\ IF body[address[t]] = Empty
     THEN End(t)
     ELSE /\ pc' = [pc EXCEPT ![t] = "readMeta"]
          /\ answer' = [answer EXCEPT ![t] = body[address[t]]]
          /\ UNCHANGED <<address, sawBody>>
  /\ UNCHANGED <<Rest, files>>

(* The answer, with the capture time in the metadata, goes into the watch.   *)
ReadMeta(t) ==
  /\ pc[t] = "readMeta"
  /\ mixed' = IF meta[address[t]] \in {Empty, answer[t]} THEN mixed
              ELSE mixed \cup {address[t]}
  /\ End(t)
  /\ UNCHANGED <<Rest, body, meta, fetches, crowded>>

(* urlopen, and the answer is decoded before anything is written. *)
Fetch(t) ==
  /\ pc[t] = "fetch" /\ fetches < MaxFetches
  /\ fetches' = fetches + 1
  /\ answer' = [answer EXCEPT ![t] = fetches + 1]
  /\ pc' = [pc EXCEPT ![t] = "openBody"]
  /\ UNCHANGED <<Rest, address, sawBody, body, meta, crowded, mixed>>

(* Fault: the body is kept before it is decoded. *)
FetchKeepsRubbish(t) ==
  /\ pc[t] = "fetch"
  /\ body' = [body EXCEPT ![address[t]] = Empty]
  /\ End(t)
  /\ UNCHANGED <<Rest, meta, fetches, crowded, mixed>>

(* No answer within the time limit, or one that is not a JSON object. *)
FetchFails(t) ==
  /\ pc[t] = "fetch"
  /\ End(t)
  /\ UNCHANGED <<Rest, files>>

WriteBody(t) ==
  /\ \/ /\ pc[t] = "openBody"
        /\ body' = [body EXCEPT ![address[t]] = Empty]
        /\ pc' = [pc EXCEPT ![t] = "fillBody"]
     \/ /\ pc[t] = "fillBody"
        /\ body' = [body EXCEPT ![address[t]] = answer[t]]
        /\ pc' = [pc EXCEPT ![t] = "openMeta"]
  /\ UNCHANGED <<Rest, address, sawBody, answer, meta, fetches, crowded, mixed>>

WriteMeta(t) ==
  /\ \/ /\ pc[t] = "openMeta"
        /\ meta' = [meta EXCEPT ![address[t]] = Empty]
        /\ pc' = [pc EXCEPT ![t] = "fillMeta"]
        /\ UNCHANGED <<address, sawBody, answer>>
     \/ /\ pc[t] = "fillMeta"
        /\ meta' = [meta EXCEPT ![address[t]] = answer[t]]
        /\ End(t)
  /\ UNCHANGED <<Rest, body, fetches, crowded, mixed>>

(***************************************************************************)
(* The specification.                                                      *)
(***************************************************************************)
Tick ==
  /\ now < MaxTime
  /\ now' = now + 1
  /\ UNCHANGED <<requests, clock, client, accepted, promised, newest, excused, cache,
                 pc, restarts>>

(* The service is restarted, anywhere: its memory and its threads are gone.  *)
Restart ==
  /\ restarts < MaxRestarts
  /\ restarts' = restarts + 1
  /\ pc' = [t \in Threads |-> "idle"]
  /\ requests' = << >>
  /\ newest' = 0
  /\ excused' = {}
  /\ accepted' = [c \in Clients |-> <<>>]
  /\ promised' = [c \in Clients |-> 0]
  /\ client' = [t \in Threads |-> Nobody]
  /\ clock' = [t \in Threads |-> 0]
  /\ address' = [t \in Threads |-> Nobody]
  /\ sawBody' = [t \in Threads |-> FALSE]
  /\ answer' = [t \in Threads |-> 0]
  /\ UNCHANGED <<now, files>>

Init ==
  /\ now = 1
  /\ requests = << >>
  /\ pc = [t \in Threads |-> "idle"]
  /\ client = [t \in Threads |-> Nobody]
  /\ clock = [t \in Threads |-> 0]
  /\ address = [t \in Threads |-> Nobody]
  /\ sawBody = [t \in Threads |-> FALSE]
  /\ answer = [t \in Threads |-> 0]
  /\ body = [a \in Addresses |-> Absent]
  /\ meta = [a \in Addresses |-> Absent]
  /\ fetches = 0
  /\ restarts = 0
  /\ accepted = [c \in Clients |-> <<>>]
  /\ promised = [c \in Clients |-> 0]
  /\ newest = 0
  /\ excused = {}
  /\ crowded = {}
  /\ mixed = {}

Lookup(t) ==
  \/ Incomplete(t) \/ Complete(t) \/ Hit(t) \/ Miss(t)
  \/ ReadBody(t) \/ ReadMeta(t)
  \/ Fetch(t) \/ FetchFails(t) \/ WriteBody(t) \/ WriteMeta(t)

Next ==
  \/ \E t \in Threads :
       \/ \E c \in Clients : Arrive(t, c)
       \/ Accept(t) \/ Refuse(t)
       \/ RejectInput(t)
       \/ \E a \in Addresses : LookAtBody(t, a)
       \/ Lookup(t)
  \/ Tick \/ Restart

Spec == Init /\ [][Next]_vars

(***************************************************************************)
(* Properties.                                                             *)
(***************************************************************************)
Files == {Absent, Empty} \cup 1..MaxFetches

(* The limiter's memory is bounded, too. *)
TypeOK ==
  /\ now \in 1..MaxTime
  /\ DOMAIN requests \subseteq Clients /\ Cardinality(DOMAIN requests) <= MaxKeys
  /\ \A c \in DOMAIN requests : Len(requests[c]) <= Maximum
  /\ client \in [Threads -> Clients \cup {Nobody}]
  /\ clock \in [Threads -> 0..MaxTime]
  /\ address \in [Threads -> Addresses \cup {Nobody}]
  /\ answer \in [Threads -> 0..MaxFetches]
  /\ body \in [Addresses -> Files] /\ meta \in [Addresses -> Files]
  /\ fetches \in 0..MaxFetches /\ restarts \in 0..MaxRestarts
  /\ excused \subseteq Clients /\ crowded \subseteq Addresses

(* Since the service was started, no client gets more than Maximum requests *)
(* accepted in any window, unless the limiter has evicted it to make room   *)
(* for another, or one of its requests was overtaken by a later one between *)
(* reading the clock and taking the lock.                                   *)
AtMostMaximum ==
  \A c \in Clients \ excused : \A i \in DOMAIN accepted[c] :
    Cardinality({j \in DOMAIN accepted[c] :
                   accepted[c][j] > accepted[c][i] - Window /\ accepted[c][j] <= accepted[c][i]})
      <= Maximum

(* A refused client that comes back when it was told to is not refused       *)
(* again, whatever it tried in the meantime and whoever else came.           *)
RetryAfterIsHonest ==
  \A c \in DOMAIN requests :
    promised[c] # 0 /\ now >= promised[c] =>
      Len(Recent(requests[c], now - Window)) < Maximum

(* A cache entry that no lookup can use, since a file is missing or empty    *)
(* and nobody is writing it, was left behind by a restart.                   *)
BrokenNeedsRestart ==
  \A a \in Addresses :
    \/ (body[a] = Absent) = (meta[a] = Absent) /\ Empty \notin {body[a], meta[a]}
    \/ \E t \in Threads : Fetching(t, a)
    \/ restarts > 0

(* A cached answer is returned with the time at which it was captured,       *)
(* unless two lookups fetched the address at the same time.                  *)
HitsAreWhole == mixed \subseteq crowded
=============================================================================
