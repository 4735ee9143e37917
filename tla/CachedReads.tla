---------------------------- MODULE CachedReads ----------------------------
(***************************************************************************)
(* Reads through the cache of packages/cache-manager, concurrent ones of   *)
(* ONE key in ONE process: methods decorated with @Cacheable, routes with  *)
(* CacheInterceptor, and the way EmployeeController.findSenior of the      *)
(* skeleton service does it by hand. Each of these issues gets and calls   *)
(* of its own. cacheableHandle, which shares them: CoalescedReads.         *)
(*                                                                         *)
(* What the method returns is a version of a source that others update.    *)
(* The store answers gets and sets in any order: several processes and     *)
(* connections share it. Entries expire, or are evicted, at any time.      *)
(***************************************************************************)
EXTENDS Naturals, FiniteSets

CONSTANTS
  Readers,       \* the callers, each making one read after the other
  Way,           \* which of the three ways each of them reads
  Content,       \* what each version of the source is to JavaScript
  MaxVersion,    \* a bound on the updates of the source
  enable,        \* CacheConfig.enable
  Disturbances,  \* what may fail: "get", "set" (the store), "call" (the method)
  MaxFaults,     \* a bound on how often something fails in a behaviour
  None           \* no version

Ways == {"Cacheable", "CacheInterceptor", "controller"}

Versions == 0..MaxVersion

ASSUME CachedReadsAssumption ==
  /\ Way \in [Readers -> Ways]
  /\ MaxVersion \in Nat
  /\ Content \in [Versions -> {"truthy", "falsy", "nil"}]
  /\ enable \in BOOLEAN
  /\ Disturbances \subseteq {"get", "set", "call"}
  /\ MaxFaults \in Nat
  /\ None \notin Versions

VARIABLES
  version,      \* the source
  entry,        \* the version in the cache, or None
  pc,           \* the await each reader is at
  seen,         \* the version its call in progress has read
  sets,         \* sets on their way to the store
  answer,       \* the last answer of each reader
  start,        \* history: the source when its last read began
  floor,        \* history: the oldest version on its way to a reader by then
  faults        \* failures so far

vars == <<version, entry, pc, seen, sets, answer, start, floor, faults>>

Set == [by : Readers, val : Versions]

Answer == [how : {"cache", "method"}, val : Versions] \cup [how : {"none", "error"}, val : {None}]

NoAnswer == [how |-> "none", val |-> None]

Error == [how |-> "error", val |-> None]

TypeOK ==
  /\ version \in Versions
  /\ entry \in Versions \cup {None}
  /\ pc \in [Readers -> {"idle", "getting", "calling", "bypassing", "setting"}]
  /\ seen \in [Readers -> Versions \cup {None}]
  /\ sets \subseteq Set
  /\ answer \in [Readers -> Answer]
  /\ start \in [Readers -> Versions]
  /\ floor \in [Readers -> Versions]
  /\ faults \in Nat

Init ==
  /\ version = 0
  /\ entry = None
  /\ pc = [r \in Readers |-> "idle"]
  /\ seen = [r \in Readers |-> None]
  /\ sets = {}
  /\ answer = [r \in Readers |-> NoAnswer]
  /\ start = [r \in Readers |-> 0]
  /\ floor = [r \in Readers |-> 0]
  /\ faults = 0

----------------------------------------------------------------------------
(* Helpers. An operator called ..Bug is a plausible mistake in the one that *)
(* follows it; no action uses it.                                          *)

\* Is what the store returned a hit? @Cacheable and the controller test whether
\* it is truthy, the interceptor whether it is there.
Hit(r) ==
  /\ entry # None
  /\ IF Way[r] \in {"Cacheable", "controller"} THEN Content[entry] = "truthy"
     ELSE Content[entry] # "nil"

\* The readers of W go on to s.
MoveTo(W, s) == pc' = [r \in Readers |-> IF r \in W THEN s ELSE pc[r]]

AnswerAll(W, a) == answer' = [r \in Readers |-> IF r \in W THEN a ELSE answer[r]]

\* The method of r runs.
Running(r) == pc[r] \in {"calling", "bypassing"}

\* All versions that are in the source, the cache, a call or a set.
Around == ({version, entry} \cup {s.val : s \in sets}
             \cup {seen[r] : r \in {q \in Readers : Running(q)}}) \ {None}

Oldest == CHOOSE v \in Around : \A w \in Around : v <= w

Fault(kind) ==
  /\ kind \in Disturbances
  /\ faults < MaxFaults
  /\ faults' = faults + 1

----------------------------------------------------------------------------
(* The way of a read.                                                      *)

\* A read asks the store first.
Start(r) ==
  /\ pc[r] = "idle"
  /\ MoveTo({r}, "getting")
  /\ AnswerAll({r}, NoAnswer)
  /\ start' = [start EXCEPT ![r] = version]
  /\ floor' = [floor EXCEPT ![r] = Oldest]
  /\ UNCHANGED <<version, entry, seen, sets, faults>>

\* The hit is stored again, to live longer.
GetHitsBug(r) ==
  /\ pc[r] = "getting"
  /\ Hit(r)
  /\ MoveTo({r}, "idle")
  /\ AnswerAll({r}, [how |-> "cache", val |-> entry])
  /\ sets' = sets \cup {[by |-> r, val |-> entry]}
  /\ UNCHANGED <<version, entry, seen, start, floor, faults>>

GetHits(r) ==
  /\ pc[r] = "getting"
  /\ Hit(r)
  /\ MoveTo({r}, "idle")
  /\ AnswerAll({r}, [how |-> "cache", val |-> entry])
  /\ UNCHANGED <<version, entry, seen, sets, start, floor, faults>>

\* A miss calls the method.
GetMisses(r) ==
  /\ pc[r] = "getting"
  /\ ~Hit(r)
  /\ MoveTo({r}, "calling")
  /\ UNCHANGED <<version, entry, seen, sets, answer, start, floor, faults>>

\* The store fails, and the read with it.
GetFails(r) ==
  /\ Fault("get")
  /\ Way[r] # "CacheInterceptor"
  /\ pc[r] = "getting"
  /\ MoveTo({r}, "idle")
  /\ AnswerAll({r}, Error)
  /\ UNCHANGED <<version, entry, seen, sets, start, floor>>

\* Only the interceptor goes on, without the cache.
GetFailsOver(r) ==
  /\ Fault("get")
  /\ Way[r] = "CacheInterceptor"
  /\ pc[r] = "getting"
  /\ MoveTo({r}, "bypassing")
  /\ UNCHANGED <<version, entry, seen, sets, answer, start, floor>>

\* The method reads the source, some time before it returns.
CallReads(r) ==
  /\ Running(r)
  /\ seen[r] = None
  /\ seen' = [seen EXCEPT ![r] = version]
  /\ UNCHANGED <<version, entry, pc, sets, answer, start, floor, faults>>

\* The result is kept and returned by the next call.
CallDoneBug(r) == Running(r) /\ UNCHANGED seen

\* The call of r settles.
CallDone(r) == Running(r) /\ seen' = [seen EXCEPT ![r] = None]

\* Nobody waits for the method: what it has not read yet is stored.
CallReturnsBug(r) ==
  /\ CallDone(r)
  /\ sets' = sets \cup {[by |-> r, val |-> seen[r]]}
  /\ MoveTo({r}, "setting")
  /\ UNCHANGED <<version, entry, answer, start, floor, faults>>

\* What the method returned is stored, unless the store had failed. @Cacheable
\* waits for the store before it answers, the others do not.
CallReturns(r) ==
  /\ CallDone(r)
  /\ seen[r] # None
  /\ sets' = IF pc[r] = "bypassing" THEN sets
             ELSE sets \cup {[by |-> r, val |-> seen[r]]}
  /\ IF Way[r] = "Cacheable"
     THEN MoveTo({r}, "setting") /\ UNCHANGED answer
     ELSE MoveTo({r}, "idle") /\ AnswerAll({r}, [how |-> "method", val |-> seen[r]])
  /\ UNCHANGED <<version, entry, start, floor, faults>>

CallFails(r) ==
  /\ Fault("call")
  /\ CallDone(r)
  /\ MoveTo({r}, "idle")
  /\ AnswerAll({r}, Error)
  /\ UNCHANGED <<version, entry, sets, start, floor>>

\* The reader that waits for set s to be done, if any.
Setter(s) == {r \in Readers : r = s.by /\ pc[r] = "setting"}

\* A disabled cache answers without storing anything.
SetLands(s) ==
  /\ s \in sets
  /\ sets' = sets \ {s}
  /\ entry' = IF enable THEN s.val ELSE entry
  /\ MoveTo(Setter(s), "idle")
  /\ AnswerAll(Setter(s), [how |-> "method", val |-> s.val])
  /\ UNCHANGED <<version, seen, start, floor, faults>>

\* The store refuses a set. A reader that waits for it fails, although it has a
\* result; the interceptor only logs the error.
SetFails(s) ==
  /\ Fault("set")
  /\ s \in sets
  /\ Way[s.by] # "controller"
  /\ sets' = sets \ {s}
  /\ MoveTo(Setter(s), "idle")
  /\ AnswerAll(Setter(s), Error)
  /\ UNCHANGED <<version, entry, seen, start, floor>>

\* The controller neither awaits its set nor catches its failure: the unhandled
\* rejection ends the process and all reads in it. Some sets are with the store.
SetCrashes(s) ==
  /\ Fault("set")
  /\ s \in sets
  /\ Way[s.by] = "controller"
  /\ MoveTo(Readers, "idle")
  /\ AnswerAll({r \in Readers : pc[r] # "idle"}, Error)
  /\ seen' = [r \in Readers |-> None]
  /\ sets' = {}
  /\ entry' \in {entry} \cup {t.val : t \in {u \in sets \ {s} : enable}}
  /\ UNCHANGED <<version, start, floor>>

----------------------------------------------------------------------------
(* Around the readers.                                                     *)

Update ==
  /\ version < MaxVersion
  /\ version' = version + 1
  /\ UNCHANGED <<entry, pc, seen, sets, answer, start, floor, faults>>

\* The ttl of the entry ends, or the store evicts it.
Expire ==
  /\ entry # None
  /\ entry' = None
  /\ UNCHANGED <<version, pc, seen, sets, answer, start, floor, faults>>

Next ==
  \/ Update
  \/ Expire
  \/ \E r \in Readers : \/ Start(r)
                        \/ GetHits(r)
                        \/ GetMisses(r)
                        \/ GetFails(r)
                        \/ GetFailsOver(r)
                        \/ CallReads(r)
                        \/ CallReturns(r)
                        \/ CallFails(r)
  \/ \E s \in sets : SetLands(s) \/ SetFails(s) \/ SetCrashes(s)

Spec == Init /\ [][Next]_vars

\* The store answers, the method returns, ttls end. Nobody has to read.
Fairness ==
  /\ WF_vars(Expire)
  /\ \A r \in Readers : /\ WF_vars(GetHits(r) \/ GetMisses(r))
                        /\ WF_vars(CallReads(r))
                        /\ WF_vars(CallReturns(r))
  /\ \A s \in Set : WF_vars(SetLands(s))

FairSpec == Spec /\ Fairness

----------------------------------------------------------------------------
(* Safety.                                                                 *)

Answered(r) == answer[r].how \in {"cache", "method"}

\* Bounded staleness: what a read returns is never older than what was in the
\* cache, or under way to it, when the read began; whatever calls and sets of
\* others, from before the last updates, come to their end meanwhile.
NeverOlder == \A r \in Readers : Answered(r) => answer[r].val >= floor[r]

\* A reader that had to call the method gets what the source was when its read
\* began, or something newer. (Proved in CachedReadsProofs.)
MissIsFresh == \A r \in Readers : answer[r].how = "method" => answer[r].val >= start[r]

----------------------------------------------------------------------------
(* Why the cache keeps what it promises: the parts of an inductive         *)
(* invariant, which CachedReadsProofs proves.                              *)

\* Nothing that can still reach a reader is older than its floor.
FloorBelow == \A r \in Readers : \A v \in Around : floor[r] <= v

\* What a call has read is forgotten when the call is over.
SeenWhileRunning == \A r \in Readers : ~Running(r) => seen[r] = None

\* Each way of reading reaches its own awaits only.
WaysKept ==
  \A r \in Readers :
    /\ pc[r] = "bypassing" => Way[r] = "CacheInterceptor"
    /\ pc[r] = "setting" => Way[r] = "Cacheable"

\* What a reader holds of its own call is no older than the start of its read:
\* @Cacheable has at most one set under way, the one it waits for.
FreshInHand ==
  \A r \in Readers :
    /\ start[r] <= version
    /\ seen[r] # None => seen[r] >= start[r]
    /\ Way[r] = "Cacheable" =>
         \A s, t \in sets : s.by = r /\ t.by = r =>
           s = t /\ pc[r] = "setting" /\ s.val >= start[r]

IInv ==
  /\ TypeOK
  /\ FloorBelow
  /\ SeenWhileRunning
  /\ WaysKept
  /\ FreshInHand
  /\ NeverOlder
  /\ MissIsFresh

----------------------------------------------------------------------------
(* Liveness.                                                               *)

\* After the last update the cache is empty or up to date from some time on,
\* although results from before it may still be stored after it.
EventuallyFresh == <>[](entry \in {None, version})
=============================================================================
