----------------------------- MODULE Lifecycle -----------------------------
(***************************************************************************)
(* internal/masq: the pre-requests a key's first request has to send       *)
(* (Upstream.EnsureInitialized) and the StateStore that keeps, for every   *)
(* key, a device fingerprint and the time of the next pre-requests in a    *)
(* file.  Each request is a goroutine that calls EnsureInitialized before  *)
(* its upstream call; the process may be killed at any point and restarted.*)
(*                                                                         *)
(* Time is a clock of few ticks.  The two pre-requests of a call are one   *)
(* step to send and one to wait for: their outcomes change nothing.        *)
(***************************************************************************)
EXTENDS Integers, FiniteSets

CONSTANTS
  Requests,    \* goroutines
  Keys,        \* API keys
  Period,      \* ticks to the next pre-requests, without jitter
  Jitters,     \* what jitter adds
  MaxTime,     \* bound on the clock
  MaxFailures, \* bound on the failed saves
  MaxCrashes   \* bound on the crashes

ASSUME KeysAssumption    == Keys # {}
ASSUME PeriodAssumption  == Period \in Nat \ {0}
ASSUME JittersAssumption == Jitters \subseteq Nat
ASSUME BoundsAssumption  == MaxTime \in Nat /\ MaxFailures \in Nat /\ MaxCrashes \in Nat

Nobody == "nobody"

ASSUME NobodyAssumption == Nobody \notin Requests

VARIABLES
  clock,
  up,        \* the process runs
  crashes,   \* how often it did not
  mem,       \* StateStore.Keys: key -> fingerprint (0: no entry) and NextInitAt;
             \* soonest is history: NextInitAt without its jitter
  disk,      \* the state file; the same shape, without entries before it exists
  tmp,       \* the temporary file; what a failure or a crash leaves of it is
             \* never read, and left out
  mu,        \* holder of StateStore.mu while it saves
  inflight,  \* Upstream.inflight
  pc,        \* where each request is
  key,       \* its API key
  at,        \* the time each request is about to schedule
  lastFp,    \* by key, the last fingerprint generated; the next one differs
  recorded,  \* history: the fingerprints the upstream was told, by key
  owed,      \* history: by request, the soonest time the file named when it came
  failures,  \* how often a save failed
  failed,    \* history: the last save failed
  lost       \* history: the process was killed after a save that failed

fileVars    == <<disk, tmp>>
requestVars == <<pc, key, at, owed>>
ghostVars   == <<lastFp, recorded, lost>>
lifecycleVars == <<clock, up, crashes, mem, fileVars, mu, inflight, requestVars, ghostVars, failures, failed>>

NoTime     == [next |-> 0, soonest |-> 0]
NoKeyState == [fp |-> 0, time |-> NoTime]
NoFile     == [k \in Keys |-> NoKeyState]
NoKey      == CHOOSE k \in Keys : TRUE

Init ==
  /\ clock = 0 /\ up = TRUE /\ crashes = 0
  /\ mem = NoFile /\ disk = mem /\ tmp = mem
  /\ mu = Nobody /\ inflight = {}
  /\ pc = [r \in Requests |-> "idle"] /\ key = [r \in Requests |-> NoKey]
  /\ at = [r \in Requests |-> NoTime] /\ owed = [r \in Requests |-> 0]
  /\ failures = 0 /\ failed = FALSE /\ lost = FALSE
  /\ lastFp = [k \in Keys |-> 0] /\ recorded = [k \in Keys |-> {}]

At(r, label)   == up /\ pc[r] = label
Goto(r, label) == pc' = [pc EXCEPT ![r] = label]

\* EnsureInitialized returns: the request goes on to its upstream call.
Return(r) ==
  /\ Goto(r, "idle")
  /\ key' = [key EXCEPT ![r] = NoKey] /\ owed' = [owed EXCEPT ![r] = 0]

Arrive(r, k) ==
  /\ At(r, "idle") /\ Goto(r, "keyState")
  /\ key' = [key EXCEPT ![r] = k]
  /\ owed' = [owed EXCEPT ![r] = disk[k].time.soonest]
  /\ UNCHANGED <<clock, up, crashes, mem, fileVars, mu, inflight, at, ghostVars, failures, failed>>

---------------------------------------------------------------------------
(* StateStore.  A method that saves holds mu until the file is renamed, so  *)
(* the others wait; only a crash comes between.                            *)

\* KeyState: a key without an entry gets a fingerprint, which is saved.
KeyState(r) ==
  /\ At(r, "keyState") /\ mu = Nobody
  /\ IF mem[key[r]].fp # 0
     THEN Goto(r, "check") /\ UNCHANGED <<mem, mu, lastFp>>
     ELSE /\ lastFp' = [lastFp EXCEPT ![key[r]] = @ + 1]
          /\ mem' = [mem EXCEPT ![key[r]] = [fp |-> lastFp'[key[r]], time |-> NoTime]]
          /\ mu' = r
          /\ Goto(r, "saveKey")
  /\ UNCHANGED <<clock, up, crashes, fileVars, inflight, key, at, owed, recorded, lost, failures, failed>>

\* Mutant: the state is written to the file itself, which is no state before
\* the write is complete.
WriteInPlace == tmp' = mem /\ disk' = NoFile

\* saveLocked writes the whole store to the temporary file ...
WriteTmp == tmp' = mem /\ UNCHANGED disk

\* Mutant: the rename is forgotten.
RenameForgotten == UNCHANGED disk /\ tmp' = NoFile

\* ... and renames that to the state file.
RenameTmp == disk' = tmp /\ tmp' = NoFile

\* Mutant: a method returns before the rename without giving up the lock.
AfterFailureLocked == mu

\* A failure is logged and the lock given up, as after a success.
AfterFailure == Nobody

\* Where a request goes on after a save.
AfterSave(r) == IF pc[r] \in {"saveKey", "renameKey"} THEN "check" ELSE "release"

SaveFails(r) ==
  /\ up /\ pc[r] \in {"saveKey", "renameKey", "saveTime", "renameTime"}
  /\ failures < MaxFailures /\ failures' = failures + 1 /\ failed' = TRUE
  /\ mu' = AfterFailure
  /\ Goto(r, AfterSave(r))
  /\ tmp' = NoFile
  /\ UNCHANGED <<clock, up, crashes, mem, disk, inflight, key, at, owed, ghostVars>>

Save(r) ==
  /\ up /\ pc[r] \in {"saveKey", "saveTime"}
  /\ WriteTmp
  /\ Goto(r, IF pc[r] = "saveKey" THEN "renameKey" ELSE "renameTime")
  /\ UNCHANGED <<clock, up, crashes, mem, mu, inflight, key, at, owed, ghostVars, failures, failed>>

Rename(r) ==
  /\ up /\ pc[r] \in {"renameKey", "renameTime"}
  /\ RenameTmp /\ failed' = FALSE
  /\ mu' = Nobody
  /\ Goto(r, AfterSave(r))
  /\ UNCHANGED <<clock, up, crashes, mem, inflight, key, at, owed, ghostVars, failures>>

---------------------------------------------------------------------------
(* EnsureInitialized. *)

\* time.Now().Before(st.NextInitAt), without the lock: st is the live entry,
\* so a read that races ScheduleNextInit, torn or not, ends like one before
\* the write or like one after it.
Check(r) ==
  /\ At(r, "check")
  /\ IF clock < mem[key[r]].time.next THEN Return(r) ELSE Goto(r, "claim") /\ UNCHANGED <<key, owed>>
  /\ UNCHANGED <<clock, up, crashes, mem, fileVars, mu, inflight, at, ghostVars, failures, failed>>

\* Mutant: no look at inflight before taking the place.
MayClaimAlways(k) == TRUE

MayClaim(k) == k \notin inflight

\* Under initMu: leave it to the request that is at it, or take the place.
Claim(r) ==
  /\ At(r, "claim")
  /\ IF MayClaim(key[r])
     THEN inflight' = inflight \cup {key[r]} /\ Goto(r, "send") /\ UNCHANGED <<key, owed>>
     ELSE Return(r) /\ UNCHANGED inflight
  /\ UNCHANGED <<clock, up, crashes, mem, fileVars, mu, at, ghostVars, failures, failed>>

\* The fingerprint and the lifecycle event go out.
Send(r) ==
  /\ At(r, "send") /\ Goto(r, "await")
  /\ recorded' = [recorded EXCEPT ![key[r]] = @ \cup {mem[key[r]].fp}]
  /\ UNCHANGED <<clock, up, crashes, mem, fileVars, mu, inflight, key, at, owed, lastFp, lost, failures, failed>>

\* Mutant: the time starts to count from zero.
NextAtFromZero(jitter) == [next |-> Period + jitter, soonest |-> clock + Period]

\* time.Now() plus the period and the jitter.
NextAt(jitter) == [next |-> clock + Period + jitter, soonest |-> clock + Period]

\* wg.Wait: both were answered, or failed, within the client's 10 seconds,
\* and the next time is computed after success and failure alike.
Await(r, jitter) ==
  /\ At(r, "await") /\ Goto(r, "schedule")
  /\ at' = [at EXCEPT ![r] = NextAt(jitter)]
  /\ UNCHANGED <<clock, up, crashes, mem, fileVars, mu, inflight, key, owed, ghostVars, failures, failed>>

\* It is stored and saved when the store's lock is free.
ScheduleNextInit(r) ==
  /\ At(r, "schedule") /\ mu = Nobody
  /\ mem' = [mem EXCEPT ![key[r]].time = at[r]]
  /\ at' = [at EXCEPT ![r] = NoTime]
  /\ mu' = r /\ Goto(r, "saveTime")
  /\ UNCHANGED <<clock, up, crashes, fileVars, inflight, key, owed, ghostVars, failures, failed>>

\* The deferred delete.
Release(r) ==
  /\ At(r, "release") /\ Return(r)
  /\ inflight' = inflight \ {key[r]}
  /\ UNCHANGED <<clock, up, crashes, mem, fileVars, mu, at, ghostVars, failures, failed>>

---------------------------------------------------------------------------
(* Time, crash and restart. *)

Tick ==
  /\ clock < MaxTime
  /\ clock' = clock + 1
  /\ UNCHANGED <<up, crashes, mem, fileVars, mu, inflight, requestVars, ghostVars, failures, failed>>

\* The process is killed: the state file stays, everything else is gone.
Crash ==
  /\ up /\ crashes < MaxCrashes
  /\ up' = FALSE /\ crashes' = crashes + 1
  /\ mem' = NoFile /\ mu' = Nobody /\ inflight' = {} /\ tmp' = NoFile
  /\ pc' = [r \in Requests |-> "idle"] /\ key' = [r \in Requests |-> NoKey]
  /\ at' = [r \in Requests |-> NoTime] /\ owed' = [r \in Requests |-> 0]
  /\ lost' = (lost \/ failed)
  /\ UNCHANGED <<clock, disk, lastFp, recorded, failures, failed>>

\* LoadState.  The temporary file is not looked at.
Restart ==
  /\ ~up /\ up' = TRUE
  /\ mem' = disk /\ failed' = FALSE
  /\ UNCHANGED <<clock, crashes, fileVars, mu, inflight, requestVars, ghostVars, failures>>

Step(r) ==
  \/ KeyState(r) \/ Save(r) \/ Rename(r) \/ SaveFails(r) \/ Check(r) \/ Claim(r)
  \/ Send(r) \/ ScheduleNextInit(r) \/ Release(r)
  \/ \E jitter \in Jitters : Await(r, jitter)

Next ==
  \/ \E r \in Requests : Step(r) \/ \E k \in Keys : Arrive(r, k)
  \/ Tick \/ Crash \/ Restart

\* A goroutine that can go on does, also against others that compete for the
\* mutex; a killed process is restarted.
Spec ==
  /\ Init /\ [][Next]_lifecycleVars
  /\ \A r \in Requests : SF_lifecycleVars(Step(r))
  /\ WF_lifecycleVars(Restart)

---------------------------------------------------------------------------
(* Properties. *)

Working(r) == pc[r] \in {"send", "await", "schedule", "saveTime", "renameTime", "release"}

\* Two requests never send a key's pre-requests at the same time, and a key
\* is marked in flight exactly while one of them does: the mark is neither
\* left behind nor taken away from under a request.
OneAtATime ==
  /\ \A k \in Keys : k \in inflight <=> \E r \in Requests : Working(r) /\ key[r] = k
  /\ \A r, s \in Requests : Working(r) /\ Working(s) /\ key[r] = key[s] => r = s

\* A key has one fingerprint for ever: what the upstream was told before a
\* crash is what it is told after, even when the crash comes between any two
\* steps of a save, and even after a failed save if any later one, also of
\* another key, succeeded.
OneFingerprint == ~lost => \A k \in Keys : Cardinality(recorded[k]) <= 1

\* The state file is never behind what a finished method promised, nor torn:
\* while nobody is saving it is the store in memory, unless the last save
\* failed.
FileIsStore == up /\ mu = Nobody /\ ~failed => disk = mem

\* Once a key's next time is in the file, a request that arrives sends no
\* pre-requests before a whole period has passed since the last ones, whether
\* the process was restarted in between and whoever scheduled a smaller
\* jitter meanwhile.
FileKeepsThePeriod == [][\A r \in Requests : Send(r) => clock >= owed[r]]_lifecycleVars

\* Nobody waits for ever in EnsureInitialized, however many requests compete
\* for the two locks: each goes on to its upstream call, or the process dies.
EveryRequestGoesOn == \A r \in Requests : pc[r] = "keyState" ~> pc[r] = "idle"

\* What the comment on EnsureInitialized says: the pre-requests are sent for
\* a key met for the first time, or when its period is over.
SentOnlyWhenDue == [][\A r \in Requests : Send(r) => clock >= mem[key[r]].time.next]_lifecycleVars
=============================================================================
