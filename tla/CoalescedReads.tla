--------------------------- MODULE CoalescedReads ---------------------------
(***************************************************************************)
(* cacheableHandle (packages/cache-manager/src/cache.helpers.ts):          *)
(* concurrent reads of ONE key in ONE process, which share the get of the  *)
(* store and the call of the method in progress.                           *)
(*                                                                         *)
(* A promise is named by the reader who issued it while it is pending, and *)
(* is its outcome once it has settled. A settled promise stays in its map  *)
(* until the first of those who wait for it resumes, and can be joined     *)
(* until then. What follows an await is a microtask: queue has the readers *)
(* that are to resume, first come, first served. Anything else the process *)
(* or others do may happen between two microtasks.                         *)
(*                                                                         *)
(* As in CachedReads, what the method returns is a version of a source     *)
(* that others update; the store answers gets and sets in any order, and   *)
(* entries expire at any time.                                             *)
(***************************************************************************)
EXTENDS Integers, Sequences, FiniteSets, Functions

CONSTANTS
  Readers,       \* the callers, each making one read after the other
  MaxVersion,    \* a bound on the updates of the source
  Nil,           \* the versions that are null or undefined to JavaScript
  enable,        \* CacheConfig.enable
  Disturbances,  \* what may fail: "get", "set" (the store), "call" (the method)
  MaxFaults,     \* a bound on how often something fails in a behaviour
  undefined,     \* what a get of no entry returns
  rejected,      \* the outcome of a promise that failed
  Nothing        \* nothing in a map, nothing read so far

Versions == 0..MaxVersion

Outcomes == Versions \cup {undefined, rejected}

ASSUME CoalescedReadsAssumption ==
  /\ IsFiniteSet(Readers)
  /\ MaxVersion \in Nat
  /\ Nil \subseteq Versions
  /\ enable \in BOOLEAN
  /\ Disturbances \subseteq {"get", "set", "call"}
  /\ MaxFaults \in Nat
  /\ undefined \notin Versions \cup Readers /\ rejected \notin Versions \cup Readers
  /\ Nothing \notin Outcomes \cup Readers
  /\ undefined # rejected
  /\ Versions \cap Readers = {}

VARIABLES
  version,      \* the source
  entry,        \* what the store has for the key
  pc,           \* the await each reader is at, or has resumed from
  awaits,       \* the promise it waits for, while it waits for one
  read,         \* what the store or the method has read for the promise it issued
  queue,        \* the microtasks: readers whose promise has settled
  pendingGet,   \* pendingCacheMap
  pendingCall,  \* pendingMethodCallMap
  sets,         \* sets on their way to the store
  answer,       \* the last answer of each reader
  floor,        \* history: the oldest version on its way to a reader by its start
  since,        \* history: the oldest that the source or a running call had by then
  before,       \* history: the failures by then that are over
  late,         \* history: whether a read has joined a call that was over
  faults        \* failures so far

vars == <<version, entry, pc, awaits, read, queue, pendingGet, pendingCall, sets, answer,
          floor, since, before, late, faults>>

Set == [by : Readers, val : Versions]

Answer == [how : {"cache", "method"}, val : Versions] \cup [how : {"none", "error"}, val : {Nothing}]

NoAnswer == [how |-> "none", val |-> Nothing]

Error == [how |-> "error", val |-> Nothing]

TypeOK ==
  /\ version \in Versions
  /\ entry \in Versions \cup {undefined}
  /\ pc \in [Readers -> {"idle", "getting", "fetched", "calling", "setting"}]
  /\ awaits \in [Readers -> Readers \cup Outcomes]
  /\ read \in [Readers -> Versions \cup {undefined, Nothing}]
  /\ queue \in Seq(Readers)
  /\ pendingGet \in Readers \cup Outcomes \cup {Nothing}
  /\ pendingCall \in Readers \cup Outcomes \cup {Nothing}
  /\ sets \subseteq Set
  /\ answer \in [Readers -> Answer]
  /\ floor \in [Readers -> Versions]
  /\ since \in [Readers -> Versions]
  /\ before \in [Readers -> Int]
  /\ late \in BOOLEAN
  /\ faults \in Nat

\* The store may have an entry already: it outlives the process.
Init ==
  /\ version = 0
  /\ entry \in {0, undefined}
  /\ pc = [r \in Readers |-> "idle"]
  /\ awaits = [r \in Readers |-> undefined]
  /\ read = [r \in Readers |-> Nothing]
  /\ queue = <<>>
  /\ pendingGet = Nothing
  /\ pendingCall = Nothing
  /\ sets = {}
  /\ answer = [r \in Readers |-> NoAnswer]
  /\ floor = [r \in Readers |-> 0]
  /\ since = [r \in Readers |-> 0]
  /\ before = [r \in Readers |-> 0]
  /\ late = FALSE
  /\ faults = 0

----------------------------------------------------------------------------
(* Helpers. An operator called ..Bug is a plausible mistake in the one that *)
(* follows it; no action uses it.                                          *)

\* The get or the call that r issued is pending.
Issued(r, s) == pc[r] = s /\ awaits[r] = r

\* What a promise is known to lead to.
Promised(p) == IF p \in Readers THEN read[p] ELSE p

\* Those who have yet to resume from the get in the map.
GetSharers == {r \in Readers : pc[r] = "getting" /\ awaits[r] = pendingGet}

\* All versions that can still reach one who starts to read.
Around ==
  ({version, entry} \cup {s.val : s \in sets}
     \cup {Promised(awaits[r]) : r \in GetSharers \cup {q \in Readers : pc[q] = "calling"}})
  \cap Versions

\* Those among them that the source has or a running call has read.
Current == {version} \cup ({read[o] : o \in {q \in Readers : Issued(q, "calling")}} \cap Versions)

Oldest(S) == CHOOSE v \in S : \A w \in S : v <= w

Fault(kind) ==
  /\ kind \in Disturbances
  /\ faults < MaxFaults
  /\ faults' = faults + 1

\* r awaits p, which it has issued itself unless p was in the map; tasks are
\* the microtasks there are.
Await(r, p, tasks) ==
  /\ awaits' = [awaits EXCEPT ![r] = p]
  /\ queue' = IF p \in Readers THEN tasks ELSE Append(tasks, r)

\* The promise that o issued settles. Those who wait for it are to resume, one
\* right after the other.
Settle(o, v) ==
  LET becomes(p) == IF p = o THEN v ELSE p
      waiting == {r \in Readers : awaits[r] = o}
  IN /\ awaits' = [r \in Readers |-> becomes(awaits[r])]
     /\ read' = [read EXCEPT ![o] = Nothing]
     /\ pendingGet' = becomes(pendingGet)
     /\ pendingCall' = becomes(pendingCall)
     /\ \E order \in Bijection(1..Cardinality(waiting), waiting) : queue' = queue \o order

\* The microtask of r, at s, runs next.
Resumes(r, s) == queue # <<>> /\ Head(queue) = r /\ pc[r] = s

----------------------------------------------------------------------------
(* The way of a read.                                                      *)

\* fetchCachedValue up to its await.
Start(r) ==
  /\ pc[r] = "idle"
  /\ pc' = [pc EXCEPT ![r] = "getting"]
  /\ LET p == IF pendingGet = Nothing THEN r ELSE pendingGet
     IN pendingGet' = p /\ Await(r, p, queue)
  /\ answer' = [answer EXCEPT ![r] = NoAnswer]
  /\ floor' = [floor EXCEPT ![r] = Oldest(Around)]
  /\ since' = [since EXCEPT ![r] = Oldest(Current)]
  /\ before' = [before EXCEPT ![r] =
                  IF pendingGet = rejected /\ GetSharers # {} THEN faults - 1 ELSE faults]
  /\ UNCHANGED <<version, entry, read, pendingCall, sets, late, faults>>

\* The store executes the get, some time before its reply arrives.
StoreReads(o) ==
  /\ Issued(o, "getting")
  /\ read[o] = Nothing
  /\ read' = [read EXCEPT ![o] = entry]
  /\ UNCHANGED <<version, entry, pc, awaits, queue, pendingGet, pendingCall, sets, answer,
                 floor, since, before, late, faults>>

GetReturns(o) ==
  /\ Issued(o, "getting")
  /\ read[o] # Nothing
  /\ Settle(o, read[o])
  /\ UNCHANGED <<version, entry, pc, sets, answer, floor, since, before, late, faults>>

GetFails(o) ==
  /\ Issued(o, "getting")
  /\ Fault("get")
  /\ Settle(o, rejected)
  /\ UNCHANGED <<version, entry, pc, sets, answer, floor, since, before, late>>

\* The get stays in the map.
FetchedBug(r) ==
  /\ Resumes(r, "getting")
  /\ pc' = [pc EXCEPT ![r] = "fetched"]
  /\ queue' = Append(Tail(queue), r)
  /\ UNCHANGED <<version, entry, awaits, read, pendingGet, pendingCall, sets, answer, floor,
                 since, before, late, faults>>

\* fetchCachedValue after its await: whatever the map has by now is deleted. Its
\* own promise settles, and cacheableHandle resumes from that in a later task.
Fetched(r) ==
  /\ Resumes(r, "getting")
  /\ pendingGet' = Nothing
  /\ pc' = [pc EXCEPT ![r] = "fetched"]
  /\ queue' = Append(Tail(queue), r)
  /\ UNCHANGED <<version, entry, awaits, read, pendingCall, sets, answer, floor, since,
                 before, late, faults>>

\* The read of r is over.
Answers(r, a) ==
  /\ pc' = [pc EXCEPT ![r] = "idle"]
  /\ awaits' = [awaits EXCEPT ![r] = undefined]
  /\ answer' = [answer EXCEPT ![r] = a]

\* cacheableHandle after the get: a value is returned,
Hits(r) ==
  /\ Resumes(r, "fetched")
  /\ awaits[r] \in Versions \ Nil
  /\ Answers(r, [how |-> "cache", val |-> awaits[r]])
  /\ queue' = Tail(queue)
  /\ UNCHANGED <<version, entry, read, pendingGet, pendingCall, sets, floor, since,
                 before, late, faults>>

\* a failure of the store is passed on,
Fails(r) ==
  /\ Resumes(r, "fetched")
  /\ awaits[r] = rejected
  /\ Answers(r, Error)
  /\ queue' = Tail(queue)
  /\ UNCHANGED <<version, entry, read, pendingGet, pendingCall, sets, floor, since,
                 before, late, faults>>

\* Each reader that misses calls the method on its own.
MissesBug(r) ==
  /\ Resumes(r, "fetched")
  /\ awaits[r] \in Nil \cup {undefined}
  /\ pc' = [pc EXCEPT ![r] = "calling"]
  /\ pendingCall' = r
  /\ Await(r, r, Tail(queue))
  /\ UNCHANGED <<version, entry, read, pendingGet, sets, answer, floor, since, before, late, faults>>

\* and a miss calls the method, or joins the call in the map.
Misses(r) ==
  /\ Resumes(r, "fetched")
  /\ awaits[r] \in Nil \cup {undefined}
  /\ pc' = [pc EXCEPT ![r] = "calling"]
  /\ LET p == IF pendingCall = Nothing THEN r ELSE pendingCall
     IN /\ pendingCall' = p
        /\ Await(r, p, Tail(queue))
        /\ late' = (late \/ p \notin Readers)
  /\ UNCHANGED <<version, entry, read, pendingGet, sets, answer, floor, since, before, faults>>

\* The method reads the source, some time before it returns.
CallReads(o) ==
  /\ Issued(o, "calling")
  /\ read[o] = Nothing
  /\ read' = [read EXCEPT ![o] = version]
  /\ UNCHANGED <<version, entry, pc, awaits, queue, pendingGet, pendingCall, sets, answer,
                 floor, since, before, late, faults>>

\* The method is not waited for: what it has not read yet is taken for its result.
CallReturnsBug(o) ==
  /\ Issued(o, "calling")
  /\ Settle(o, read[o])
  /\ UNCHANGED <<version, entry, pc, sets, answer, floor, since, before, late, faults>>

CallReturns(o) ==
  /\ Issued(o, "calling")
  /\ read[o] # Nothing
  /\ Settle(o, read[o])
  /\ UNCHANGED <<version, entry, pc, sets, answer, floor, since, before, late, faults>>

CallFails(o) ==
  /\ Issued(o, "calling")
  /\ Fault("call")
  /\ Settle(o, rejected)
  /\ UNCHANGED <<version, entry, pc, sets, answer, floor, since, before, late>>

\* finally deletes what the map has by now, be it another call. As long as
\* readers wait for calls, late is remembered.
ForgetCall(r) ==
  /\ pendingCall' = Nothing
  /\ late' = (late /\ \E q \in Readers \ {r} : pc[q] = "calling")

\* The result stays in the map.
StoresBug(r) ==
  /\ Resumes(r, "calling")
  /\ awaits[r] \in Versions
  /\ sets' = sets \cup {[by |-> r, val |-> awaits[r]]}
  /\ pc' = [pc EXCEPT ![r] = "setting"]
  /\ queue' = Tail(queue)
  /\ UNCHANGED <<version, entry, awaits, read, pendingGet, pendingCall, answer, floor, since,
                 before, late, faults>>

\* cacheableHandle after the call: the result is stored by all who shared it.
Stores(r) ==
  /\ Resumes(r, "calling")
  /\ awaits[r] \in Versions
  /\ ForgetCall(r)
  /\ sets' = sets \cup {[by |-> r, val |-> awaits[r]]}
  /\ pc' = [pc EXCEPT ![r] = "setting"]
  /\ queue' = Tail(queue)
  /\ UNCHANGED <<version, entry, awaits, read, pendingGet, answer, floor, since, before, faults>>

\* The entry is deleted after a success only.
ThrowsBug(r) ==
  /\ Resumes(r, "calling")
  /\ awaits[r] = rejected
  /\ Answers(r, Error)
  /\ queue' = Tail(queue)
  /\ UNCHANGED <<version, entry, read, pendingGet, pendingCall, sets, floor, since,
                 before, late, faults>>

\* A failure of the method is passed on by all who shared it.
Throws(r) ==
  /\ Resumes(r, "calling")
  /\ awaits[r] = rejected
  /\ ForgetCall(r)
  /\ Answers(r, Error)
  /\ queue' = Tail(queue)
  /\ UNCHANGED <<version, entry, read, pendingGet, sets, floor, since, before, faults>>

\* The reader that waits for the set answers. A disabled cache stores nothing.
SetLands(s) ==
  /\ s \in sets
  /\ sets' = sets \ {s}
  /\ entry' = IF enable THEN s.val ELSE entry
  /\ Answers(s.by, [how |-> "method", val |-> s.val])
  /\ UNCHANGED <<version, read, queue, pendingGet, pendingCall, floor, since, before,
                 late, faults>>

\* The reader fails, although it has a result.
SetFails(s) ==
  /\ s \in sets
  /\ Fault("set")
  /\ sets' = sets \ {s}
  /\ Answers(s.by, Error)
  /\ UNCHANGED <<version, entry, read, queue, pendingGet, pendingCall, floor, since,
                 before, late>>

----------------------------------------------------------------------------
(* Around the readers.                                                     *)

Update ==
  /\ version < MaxVersion
  /\ version' = version + 1
  /\ UNCHANGED <<entry, pc, awaits, read, queue, pendingGet, pendingCall, sets, answer,
                 floor, since, before, late, faults>>

Expire ==
  /\ entry # undefined
  /\ entry' = undefined
  /\ UNCHANGED <<version, pc, awaits, read, queue, pendingGet, pendingCall, sets, answer,
                 floor, since, before, late, faults>>

Microtask(r) == Fetched(r) \/ Hits(r) \/ Fails(r) \/ Misses(r) \/ Stores(r) \/ Throws(r)

Next ==
  \/ Update
  \/ Expire
  \/ \E r \in Readers : \/ Start(r)
                        \/ StoreReads(r)
                        \/ GetReturns(r)
                        \/ GetFails(r)
                        \/ CallReads(r)
                        \/ CallReturns(r)
                        \/ CallFails(r)
                        \/ Microtask(r)
  \/ \E s \in sets : SetLands(s) \/ SetFails(s)

Spec == Init /\ [][Next]_vars

----------------------------------------------------------------------------
(* Safety.                                                                 *)

\* Bounded staleness: although a read may join a get whose reply is on its way,
\* it returns nothing older than what was in the source or the cache, under way
\* to it, or under way to those who shared that get, when it began; whatever
\* comes to its end meanwhile.
NeverOlder ==
  \A r \in Readers : answer[r].how \in {"cache", "method"} => answer[r].val >= floor[r]

\* A read that misses returns what a call read that was running when the read
\* began, or something newer. It may join a call that is over, but none that
\* was over before it began: others who waited for that one resume before it.
MissIsFresh == \A r \in Readers : answer[r].how = "method" => answer[r].val >= since[r]

\* No failure is remembered: a read fails only if something has failed since it
\* began, or the get it joined at once had failed and others had yet to resume
\* from that.
FailuresForgotten == \A r \in Readers : answer[r].how = "error" => faults > before[r]

\* The method runs once at a time, and the map has the call that runs, unless a
\* read has joined a call that was over: such a read may delete another call
\* from the map.
OneCallInFlight == ~late => \A r \in Readers : Issued(r, "calling") => pendingCall = r

----------------------------------------------------------------------------
(* Why the maps keep what they promise: the parts of an inductive          *)
(* invariant, which CoalescedReadsProofs proves.                           *)

\* The microtasks are those of the readers whose promise has settled, one each.
Scheduled ==
  /\ \A i, j \in DOMAIN queue : queue[i] = queue[j] => i = j
  /\ \A r \in Readers :
       (\E i \in DOMAIN queue : queue[i] = r)
         <=> pc[r] \in {"getting", "fetched", "calling"} /\ awaits[r] \in Outcomes

\* Only promises that are pending are waited for, and the maps have only what
\* somebody waits for. What was read belongs to a pending promise. A reader
\* makes one set, and waits for it.
Pending ==
  /\ \A r \in Readers : awaits[r] \in Readers =>
       pc[r] \in {"getting", "calling"} /\ Issued(awaits[r], pc[r])
  /\ pendingGet # Nothing => \E r \in Readers : pc[r] = "getting" /\ awaits[r] = pendingGet
  /\ pendingCall # Nothing => \E r \in Readers : pc[r] = "calling" /\ awaits[r] = pendingCall
  /\ \A r \in Readers : read[r] # Nothing =>
       Issued(r, "getting") \/ (Issued(r, "calling") /\ read[r] \in Versions)
  /\ \A s, t \in sets : pc[s.by] = "setting" /\ (s.by = t.by => s = t)

\* What can still reach a reader is no older than the floor of anybody; the get
\* a reader waits for, no older than its own.
FloorBelow ==
  \A r \in Readers :
    /\ \A v \in Versions :
         \/ v \in {version, entry}
         \/ \E s \in sets : v = s.val
         \/ \E q \in Readers : pc[q] = "calling" /\ v = Promised(awaits[q])
         => floor[r] <= v
    /\ pc[r] \in {"getting", "fetched"} /\ Promised(awaits[r]) \in Versions =>
         floor[r] <= Promised(awaits[r])

\* One who shared a call that is over resumes before r does, and will take the
\* call from the map.
Behind(r) ==
  \E i \in DOMAIN queue : pc[queue[i]] = "calling"
                            /\ \A j \in DOMAIN queue : queue[j] = r => i < j

\* A call that is over stays in the map until the first who shared it resumes,
\* and those who began after it was over come later.
SettledCall ==
  \A r \in Readers : pc[r] \in {"getting", "fetched"} =>
    /\ pendingCall \in Versions => since[r] <= pendingCall \/ Behind(r)
    /\ pendingCall = rejected => before[r] < faults \/ Behind(r)

\* What a call has read or returned is no older than what those who wait for it
\* count from.
SinceBelow ==
  \A r \in Readers :
    /\ since[r] <= version
    /\ \A o \in Readers : Issued(o, "calling") /\ read[o] # Nothing => since[r] <= read[o]
    /\ pc[r] = "calling" /\ awaits[r] \in Versions => since[r] <= awaits[r]
    /\ \A s \in sets : s.by = r => since[r] <= s.val

\* Whoever is to resume from a failure began before it was over.
FailedSince ==
  \A r \in Readers :
    /\ before[r] <= faults
    /\ pc[r] \in {"getting", "fetched", "calling"} /\ awaits[r] = rejected => before[r] < faults

\* Those who share the call wait for it together, resume in one row, and in
\* front once the first of them has taken it from the map; unless a read has
\* joined a call that was over.
CallShared ==
  LET calling(i) == pc[queue[i]] = "calling"
  IN ~late =>
       /\ \A r \in Readers : pc[r] = "calling" /\ awaits[r] \in Readers => awaits[r] = pendingCall
       /\ \A i \in DOMAIN queue : calling(i) =>
            /\ pendingCall \notin Readers
            /\ pendingCall = Nothing => calling(1)
            /\ \A j, k \in DOMAIN queue : i < j /\ j < k /\ calling(k) => calling(j)

IInv ==
  /\ TypeOK
  /\ Scheduled
  /\ Pending
  /\ FloorBelow
  /\ SettledCall
  /\ SinceBelow
  /\ FailedSince
  /\ CallShared
  /\ NeverOlder
  /\ MissIsFresh
  /\ FailuresForgotten

=============================================================================
