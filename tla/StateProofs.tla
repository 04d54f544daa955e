----------------------------- MODULE StateProofs -----------------------------
(***************************************************************************)
(* Proofs about what the server keeps, from one request to the next and    *)
(* of a request until it is answered.                                      *)
(*                                                                         *)
(* The state of the pre-requests and its file: no key has two rounds at    *)
(* once and no two of them within a period, the file is the store whenever *)
(* no save is under way, and a key never changes its fingerprint, for any  *)
(* numbers of requests, keys and crashes.  The sessions and the cache of   *)
(* model lists, for any sets of keys and callers and any lengths of time.  *)
(*                                                                         *)
(* The tools of a request and its settings, for any tools: none of them is *)
(* lost in silence, none is added, and the call of a tool comes back as    *)
(* the call of what the client declared.  A step converts the whole        *)
(* request anew, so that RequestConverted, that what was sent is the       *)
(* conversion of what is asked, is inductive as it stands.  Each loop over *)
(* the declarations is a recursive function; Standing says where such a    *)
(* loop is after some of them: the set has the tools of the leaves L so    *)
(* far and no others, each mark is that of a leaf, the unusable U were     *)
(* told, or the request was refused for a reason that the property admits. *)
(* Every declaration keeps it for its own leaves (ChildDeclared,           *)
(* ToolDeclared, ToolPromoted), and so do the loops, by induction over     *)
(* their length.                                                           *)
(***************************************************************************)
EXTENDS Lifecycle, Stores, Tools, SequenceLemmas

-----------------------------------------------------------------------------
(* Pre-requests and the state file. *)

Labels == {"idle", "keyState", "saveKey", "renameKey", "check", "claim", "send", "await",
           "schedule", "saveTime", "renameTime", "release"}

Times   == [next : Nat, soonest : Nat]
KeyStates == [fp : Nat, time : Times]
Stores  == [Keys -> KeyStates]

Types ==
  /\ clock \in Nat /\ up \in BOOLEAN
  /\ mem \in Stores /\ disk \in Stores /\ tmp \in Stores
  /\ mu \in Requests \cup {Nobody} /\ inflight \subseteq Keys
  /\ pc \in [Requests -> Labels] /\ key \in [Requests -> Keys]
  /\ at \in [Requests -> Times]
  /\ lastFp \in [Keys -> Nat] /\ recorded \in [Keys -> SUBSET Nat]
  /\ failed \in BOOLEAN /\ lost \in BOOLEAN

\* The lock is held exactly while its holder saves, what is about to be
\* renamed is the store, and no request runs in a process that is down.
Renaming(r) == pc[r] \in {"renameKey", "renameTime"}
Saving(r)   == pc[r] \in {"saveKey", "saveTime"} \/ Renaming(r)

Locking ==
  /\ \A r \in Requests : Saving(r) <=> mu = r
  /\ \A r \in Requests : Renaming(r) => tmp = mem
  /\ ~up => \A r \in Requests : pc[r] = "idle"

\* A request past KeyState has a key with a fingerprint, and passed it after
\* that fingerprint was saved, by itself or by another.
SavingKey(r) == pc[r] \in {"saveKey", "renameKey"}
Unkeyed(r)    == pc[r] \in {"idle", "keyState"}

Fingerprinted ==
  /\ \A r \in Requests : ~Unkeyed(r) => mem[key[r]].fp # 0
  /\ \A r, s \in Requests : SavingKey(s) /\ r # s /\ key[r] = key[s] => Unkeyed(r)

\* The file has the fingerprints of the store, but for the one being saved.
FileFollows ==
  up /\ ~failed =>
    \A k \in Keys : disk[k].fp = mem[k].fp \/ \E s \in Requests : SavingKey(s) /\ key[s] = k

\* What the upstream was told of a key is the fingerprint the store has, and,
\* if the last save did not fail, the file.
ToldOnce(k, fp) == recorded[k] # {} => fp # 0 /\ recorded[k] = {fp}

Remembered ==
  ~lost => \A k \in Keys : (up => ToldOnce(k, mem[k].fp)) /\ (~up \/ ~failed => ToldOnce(k, disk[k].fp))

IInv == Types /\ OneAtATime /\ Locking /\ FileIsStore /\ Fingerprinted /\ FileFollows /\ Remembered

---------------------------------------------------------------------------
LEMMA Defaults == NoKey \in Keys /\ NoTime \in Times /\ NoFile \in Stores
BY KeysAssumption DEF NoKey, NoTime, Times, NoFile, NoKeyState, Stores, KeyStates

LEMMA InitHolds == Init => IInv
<1> SUFFICES ASSUME Init PROVE IInv
  OBVIOUS
<1>1. Types
  BY Defaults DEF Init, Types, Labels
<1>2. \A r \in Requests : pc[r] = "idle"
  BY DEF Init
<1>3. OneAtATime
  BY <1>2 DEF OneAtATime, Working, Init
<1>4. Locking
  BY <1>2, NobodyAssumption DEF Locking, Saving, Renaming, Init
<1>5. FileIsStore
  BY DEF FileIsStore, Init
<1>6. Fingerprinted
  BY <1>2 DEF Fingerprinted, Unkeyed, SavingKey
<1>7. FileFollows
  BY DEF FileFollows, Init
<1>8. Remembered
  BY DEF Remembered, ToldOnce, Init
<1> QED
  BY <1>1, <1>3, <1>4, <1>5, <1>6, <1>7, <1>8 DEF IInv

LEMMA KeyStateKeeps ==
  ASSUME IInv, NEW r \in Requests, KeyState(r) PROVE IInv'
<1>1. Types'
  <2>1. mem' \in Stores /\ mu' \in Requests \cup {Nobody} /\ lastFp' \in [Keys -> Nat]
    <3>1. CASE mem[key[r]].fp # 0
      BY <3>1 DEF IInv, Types, KeyState
    <3>2. CASE mem[key[r]].fp = 0
      <4>1. lastFp' \in [Keys -> Nat] /\ mu' = r
        BY <3>2 DEF IInv, Types, KeyState
      <4>2. [fp |-> lastFp'[key[r]], time |-> NoTime] \in KeyStates
        BY <4>1, Defaults DEF IInv, Types, KeyStates
      <4> QED
        BY <3>2, <4>1, <4>2 DEF IInv, Types, KeyState, Stores
    <3> QED
      BY <3>1, <3>2
  <2>2. pc' \in [Requests -> Labels]
    BY DEF IInv, Types, KeyState, Goto, Labels
  <2> QED
    BY <2>1, <2>2 DEF IInv, Types, KeyState, fileVars
<1>2. OneAtATime'
  BY DEF IInv, Types, OneAtATime, Working, KeyState, At, Goto
<1>3. Locking'
  BY NobodyAssumption DEF IInv, Types, Locking, Saving, Renaming, KeyState, At, Goto
<1>4. FileIsStore'
  BY DEF IInv, Locking, Saving, Renaming, FileIsStore, KeyState, At, fileVars
<1>5. Fingerprinted'
  <2>1. CASE mem[key[r]].fp # 0
    <3>1. UNCHANGED <<mem, key>> /\ pc' = [pc EXCEPT ![r] = "check"]
      BY <2>1 DEF KeyState, Goto
    <3>2. \A s \in Requests : ~SavingKey(s)
      BY NobodyAssumption DEF IInv, Locking, Saving, Renaming, SavingKey, KeyState
    <3> QED
      BY <2>1, <3>1, <3>2 DEF IInv, Fingerprinted, Unkeyed, SavingKey
  <2>2. CASE mem[key[r]].fp = 0
    <3>1. /\ pc' = [pc EXCEPT ![r] = "saveKey"] /\ key' = key
          /\ lastFp'[key[r]] # 0
          /\ mem' = [mem EXCEPT ![key[r]] = [fp |-> lastFp'[key[r]], time |-> NoTime]]
      BY <2>2 DEF IInv, Types, KeyState, Goto
    <3>2. \A s \in Requests : ~SavingKey(s)
      BY NobodyAssumption DEF IInv, Locking, Saving, Renaming, SavingKey, KeyState
    <3>3. \A s \in Requests : key[s] = key[r] => Unkeyed(s)
      BY <2>2 DEF IInv, Fingerprinted
    <3>4. mem'[key[r]].fp # 0 /\ \A k \in Keys : k # key[r] => mem'[k] = mem[k]
      BY <3>1 DEF IInv, Types, Stores
    <3>5. \A s \in Requests : ~Unkeyed(s)' => mem'[key'[s]].fp # 0
      BY <3>1, <3>4 DEF IInv, Fingerprinted, Unkeyed
    <3>6. \A s \in Requests : s # r => pc'[s] = pc[s]
      BY <3>1 DEF IInv, Types
    <3> QED
      BY <3>1, <3>2, <3>3, <3>5, <3>6 DEF Fingerprinted, Unkeyed, SavingKey
  <2> QED
    BY <2>1, <2>2
<1>6. FileFollows'
  BY DEF IInv, Types, Stores, FileFollows, SavingKey, FileIsStore, KeyState, Goto,
       fileVars
<1>7. Remembered'
  <2> SUFFICES ASSUME ~lost', NEW k \in Keys
               PROVE (up' => ToldOnce(k, mem[k].fp)') /\ (~up' \/ ~failed' => ToldOnce(k, disk[k].fp)')
    BY DEF Remembered
  <2>1. UNCHANGED <<up, lost, failed, disk, recorded>>
    BY DEF KeyState, fileVars
  <2>2. mem'[k].fp = mem[k].fp \/ mem[k].fp = 0
    BY DEF IInv, Types, Stores, KeyState
  <2> QED
    BY <2>1, <2>2 DEF IInv, Remembered, ToldOnce
<1> QED
  BY <1>1, <1>2, <1>3, <1>4, <1>5, <1>6, <1>7 DEF IInv

LEMMA SaveKeeps ==
  ASSUME IInv, NEW r \in Requests, Save(r) PROVE IInv'
<1>1. Types'
  BY DEF IInv, Types, Labels, Save, WriteTmp, Goto, ghostVars
<1>2. OneAtATime'
  BY DEF IInv, OneAtATime, Working, Save, Goto
<1>3. Locking'
  BY DEF IInv, Locking, Saving, Renaming, Save, WriteTmp, Goto
<1>4. FileIsStore'
  BY DEF IInv, FileIsStore, Save, WriteTmp
<1>5. Fingerprinted'
  BY DEF IInv, Fingerprinted, Unkeyed, SavingKey, Save, Goto
<1>6. FileFollows'
  BY DEF IInv, FileFollows, SavingKey, Save, WriteTmp, Goto
<1>7. Remembered'
  BY DEF IInv, Remembered, ToldOnce, Save, WriteTmp, ghostVars
<1> QED
  BY <1>1, <1>2, <1>3, <1>4, <1>5, <1>6, <1>7 DEF IInv

LEMMA RenameKeeps ==
  ASSUME IInv, NEW r \in Requests, Rename(r) PROVE IInv'
<1>1. Types'
  BY Defaults DEF IInv, Types, Labels, Rename, RenameTmp, Goto, AfterSave, ghostVars
<1>2. OneAtATime'
  BY DEF IInv, OneAtATime, Working, Rename, Goto, AfterSave
<1>3. Locking'
  BY NobodyAssumption DEF IInv, Types, Locking, Saving, Renaming, Rename, Goto, AfterSave
<1>4. FileIsStore'
  BY DEF IInv, Locking, Renaming, FileIsStore, Rename, RenameTmp
<1>5. Fingerprinted'
  BY DEF IInv, Fingerprinted, Unkeyed, SavingKey, Rename, Goto, AfterSave
<1>6. FileFollows'
  BY DEF IInv, Locking, Renaming, FileFollows, Rename, RenameTmp
<1>7. Remembered'
  <2>1. UNCHANGED <<up, lost, mem, recorded>> /\ up /\ disk' = mem
    BY DEF IInv, Locking, Renaming, Rename, RenameTmp, ghostVars
  <2> QED
    BY <2>1 DEF IInv, Remembered, ToldOnce
<1> QED
  BY <1>1, <1>2, <1>3, <1>4, <1>5, <1>6, <1>7 DEF IInv

LEMMA SaveFailsKeeps ==
  ASSUME IInv, NEW r \in Requests, SaveFails(r) PROVE IInv'
<1>1. Types'
  BY Defaults DEF IInv, Types, Labels, SaveFails, AfterFailure, AfterSave, Goto, ghostVars
<1>2. OneAtATime'
  BY DEF IInv, OneAtATime, Working, SaveFails, AfterSave, Goto
<1>3. Locking'
  BY NobodyAssumption DEF IInv, Types, Locking, Saving, Renaming, SaveFails,
       AfterFailure, AfterSave, Goto
<1>4. FileIsStore'
  BY DEF IInv, FileIsStore, SaveFails
<1>5. Fingerprinted'
  BY DEF IInv, Fingerprinted, Unkeyed, SavingKey, SaveFails, AfterSave, Goto
<1>6. FileFollows'
  BY DEF IInv, FileFollows, SaveFails
<1>7. Remembered'
  BY DEF IInv, Remembered, ToldOnce, SaveFails, ghostVars
<1> QED
  BY <1>1, <1>2, <1>3, <1>4, <1>5, <1>6, <1>7 DEF IInv

LEMMA CheckKeeps ==
  ASSUME IInv, NEW r \in Requests, Check(r) PROVE IInv'
<1>1. Types'
  BY Defaults DEF IInv, Types, Labels, Check, Goto, Return, fileVars, ghostVars
<1>2. OneAtATime'
  BY DEF IInv, Types, OneAtATime, Working, Check, At, Goto, Return
<1>3. Locking'
  BY DEF IInv, Types, Locking, Saving, Renaming, Check, At, Goto, Return, fileVars
<1>4. FileIsStore'
  BY DEF IInv, FileIsStore, Check, fileVars
<1>5. Fingerprinted'
  <2>1. mem' = mem /\ \A s \in Requests : s # r => pc'[s] = pc[s] /\ key'[s] = key[s]
    BY DEF IInv, Types, Check, Goto, Return
  <2>2. \/ pc'[r] = "idle" /\ key' \in [Requests -> Keys]
        \/ pc'[r] = "claim" /\ key' = key
    BY Defaults DEF IInv, Types, Check, Goto, Return
  <2>3. mem[key[r]].fp # 0 /\ pc[r] = "check"
    BY DEF IInv, Fingerprinted, Unkeyed, Check, At
  <2> QED
    BY <2>1, <2>2, <2>3 DEF IInv, Fingerprinted, Unkeyed, SavingKey
<1>6. FileFollows'
  <2>1. UNCHANGED <<up, failed, disk, mem>>
    BY DEF Check, fileVars
  <2>2. \A s \in Requests : s # r => pc'[s] = pc[s] /\ key'[s] = key[s]
    BY DEF IInv, Types, Check, Goto, Return
  <2>3. ~SavingKey(r)
    BY DEF Check, At, SavingKey
  <2> QED
    BY <2>1, <2>2, <2>3 DEF IInv, FileFollows, SavingKey
<1>7. Remembered'
  BY DEF IInv, Remembered, ToldOnce, Check, fileVars, ghostVars
<1> QED
  BY <1>1, <1>2, <1>3, <1>4, <1>5, <1>6, <1>7 DEF IInv

LEMMA ClaimKeeps ==
  ASSUME IInv, NEW r \in Requests, Claim(r) PROVE IInv'
<1>1. Types'
  <2>1. pc' \in [Requests -> Labels] /\ key' \in [Requests -> Keys] /\ inflight' \subseteq Keys
    BY Defaults DEF IInv, Types, Claim, Goto, Return, Labels
  <2> QED
    BY <2>1 DEF IInv, Types, Claim, fileVars, ghostVars
<1>2. OneAtATime'
  BY DEF IInv, Types, OneAtATime, Working, Claim, At, Goto, MayClaim, Return
<1>3. Locking'
  BY DEF IInv, Types, Locking, Saving, Renaming, Claim, At, Goto, Return, fileVars
<1>4. FileIsStore'
  BY DEF IInv, FileIsStore, Claim, fileVars
<1>5. Fingerprinted'
  BY DEF IInv, Types, Fingerprinted, Unkeyed, SavingKey, Claim, At, Goto, MayClaim,
       Return, fileVars, ghostVars
<1>6. FileFollows'
  BY DEF IInv, Types, FileFollows, SavingKey, Claim, At, Goto, Return, fileVars
<1>7. Remembered'
  BY DEF IInv, Remembered, ToldOnce, Claim, fileVars, ghostVars
<1> QED
  BY <1>1, <1>2, <1>3, <1>4, <1>5, <1>6, <1>7 DEF IInv

LEMMA SendKeeps ==
  ASSUME IInv, NEW r \in Requests, Send(r) PROVE IInv'
<1>1. Types'
  BY DEF IInv, Types, Stores, KeyStates, Labels, Send, Goto, fileVars
<1>2. OneAtATime'
  BY DEF IInv, OneAtATime, Working, Send, At, Goto
<1>3. Locking'
  BY DEF IInv, Locking, Saving, Renaming, Send, At, Goto, fileVars
<1>4. FileIsStore'
  BY DEF IInv, FileIsStore, Send, fileVars
<1>5. Fingerprinted'
  BY DEF IInv, Fingerprinted, Unkeyed, SavingKey, Send, At, Goto
<1>6. FileFollows'
  BY DEF IInv, FileFollows, SavingKey, Send, At, Goto, fileVars
<1>7. Remembered'
  <2> SUFFICES ASSUME ~lost', NEW k \in Keys
               PROVE (up' => ToldOnce(k, mem[k].fp)') /\ (~up' \/ ~failed' => ToldOnce(k, disk[k].fp)')
    BY DEF Remembered
  <2>1. UNCHANGED <<lost, failed, disk, mem>> /\ up /\ up'
    BY DEF Send, At, fileVars
  <2>2. mem[key[r]].fp # 0 /\ ~SavingKey(r) /\ ~Unkeyed(r)
    BY DEF IInv, Fingerprinted, Unkeyed, SavingKey, Send, At
  <2>3. ~failed => disk[key[r]].fp = mem[key[r]].fp
    BY <2>1, <2>2 DEF IInv, Types, FileFollows, Fingerprinted
  <2>4. recorded'[k] = recorded[k] \/ (k = key[r] /\ recorded'[k] = recorded[k] \cup {mem[k].fp})
    <3>1. recorded' = [recorded EXCEPT ![key[r]] = @ \cup {mem[key[r]].fp}]
      BY DEF Send
    <3>2. recorded \in [Keys -> SUBSET Nat]
      BY DEF IInv, Types
    <3>3. CASE k = key[r]
      <4>1. recorded'[k] = recorded[k] \cup {mem[key[r]].fp}
        BY <3>1, <3>2, <3>3
      <4> QED
        BY <4>1, <3>3
    <3>4. CASE k # key[r]
      BY <3>1, <3>2, <3>4
    <3> QED
      BY <3>3, <3>4
  <2>5. ToldOnce(k, mem[k].fp) /\ (~failed => ToldOnce(k, disk[k].fp))
    BY <2>1 DEF IInv, Remembered
  <2> QED
    BY <2>1, <2>2, <2>3, <2>4, <2>5 DEF ToldOnce
<1> QED
  BY <1>1, <1>2, <1>3, <1>4, <1>5, <1>6, <1>7 DEF IInv

LEMMA ScheduleNextInitKeeps ==
  ASSUME IInv, NEW r \in Requests, ScheduleNextInit(r) PROVE IInv'
<1>1. Types'
  BY Defaults DEF IInv, Types, Stores, KeyStates, Labels, ScheduleNextInit, Goto, fileVars,
       ghostVars
<1>2. OneAtATime'
  BY DEF IInv, OneAtATime, Working, ScheduleNextInit, At, Goto
<1>3. Locking'
  BY NobodyAssumption DEF IInv, Types, Locking, Saving, Renaming, ScheduleNextInit, At,
       Goto
<1>4. FileIsStore'
  BY DEF IInv, Locking, Saving, Renaming, FileIsStore, ScheduleNextInit, At
<1>5. Fingerprinted'
  BY DEF IInv, Fingerprinted, Unkeyed, SavingKey, ScheduleNextInit, At, Goto
<1>6. FileFollows'
  BY DEF IInv, FileFollows, FileIsStore, ScheduleNextInit, fileVars
<1>7. Remembered'
  BY DEF IInv, Locking, Remembered, ToldOnce, ScheduleNextInit, At, fileVars, ghostVars
<1> QED
  BY <1>1, <1>2, <1>3, <1>4, <1>5, <1>6, <1>7 DEF IInv

LEMMA ReleaseKeeps ==
  ASSUME IInv, NEW r \in Requests, Release(r) PROVE IInv'
<1>1. Types'
  BY Defaults DEF IInv, Types, Labels, Release, Goto, Return, fileVars, ghostVars
<1>2. OneAtATime'
  BY DEF IInv, Types, OneAtATime, Working, Release, At, Goto, Return
<1>3. Locking'
  BY DEF IInv, Locking, Saving, Renaming, Release, At, Goto, Return, fileVars
<1>4. FileIsStore'
  BY DEF IInv, FileIsStore, Release, fileVars
<1>5. Fingerprinted'
  BY DEF IInv, Types, Fingerprinted, Unkeyed, SavingKey, Release, Goto, Return
<1>6. FileFollows'
  BY DEF IInv, FileFollows, SavingKey, Release, At, Goto, Return, fileVars
<1>7. Remembered'
  BY DEF IInv, Remembered, ToldOnce, Release, fileVars, ghostVars
<1> QED
  BY <1>1, <1>2, <1>3, <1>4, <1>5, <1>6, <1>7 DEF IInv

LEMMA AwaitKeeps ==
  ASSUME IInv, NEW r \in Requests, NEW jitter \in Jitters, Await(r, jitter) PROVE IInv'
<1>1. Types'
  BY PeriodAssumption, JittersAssumption DEF IInv, Types, Times, Labels, Await, Goto,
       NextAt, fileVars, ghostVars
<1>2. OneAtATime'
  BY DEF IInv, OneAtATime, Working, Await, At, Goto
<1>3. Locking'
  BY DEF IInv, Locking, Saving, Renaming, Await, At, Goto, fileVars
<1>4. FileIsStore'
  BY DEF IInv, FileIsStore, Await, fileVars
<1>5. Fingerprinted'
  BY DEF IInv, Fingerprinted, Unkeyed, SavingKey, Await, At, Goto
<1>6. FileFollows'
  BY DEF IInv, FileFollows, SavingKey, Await, At, Goto, fileVars
<1>7. Remembered'
  BY DEF IInv, Remembered, ToldOnce, Await, fileVars, ghostVars
<1> QED
  BY <1>1, <1>2, <1>3, <1>4, <1>5, <1>6, <1>7 DEF IInv

LEMMA ArriveKeeps ==
  ASSUME IInv, NEW r \in Requests, NEW k \in Keys, Arrive(r, k) PROVE IInv'
<1>1. Types'
  BY DEF IInv, Types, Labels, Arrive, Goto, fileVars, ghostVars
<1>2. OneAtATime'
  BY DEF IInv, OneAtATime, Working, Arrive, At, Goto
<1>3. Locking'
  BY DEF IInv, Locking, Saving, Renaming, Arrive, At, Goto, fileVars
<1>4. FileIsStore'
  BY DEF IInv, FileIsStore, Arrive, fileVars
<1>5. Fingerprinted'
  BY DEF IInv, Types, Fingerprinted, Unkeyed, SavingKey, Arrive, Goto
<1>6. FileFollows'
  BY DEF IInv, FileFollows, SavingKey, Arrive, At, Goto, fileVars
<1>7. Remembered'
  BY DEF IInv, Remembered, ToldOnce, Arrive, fileVars, ghostVars
<1> QED
  BY <1>1, <1>2, <1>3, <1>4, <1>5, <1>6, <1>7 DEF IInv

LEMMA TickKeeps ==
  ASSUME IInv, Tick PROVE IInv'
<1>1. Types'
  BY DEF IInv, Types, Tick, fileVars, requestVars, ghostVars
<1>2. OneAtATime'
  BY DEF IInv, OneAtATime, Working, Tick, requestVars
<1>3. Locking'
  BY DEF IInv, Locking, Saving, Renaming, Tick, fileVars, requestVars
<1>4. FileIsStore'
  BY DEF IInv, FileIsStore, Tick, fileVars
<1>5. Fingerprinted'
  BY DEF IInv, Fingerprinted, Unkeyed, SavingKey, Tick, requestVars
<1>6. FileFollows'
  BY DEF IInv, FileFollows, SavingKey, Tick, fileVars, requestVars
<1>7. Remembered'
  BY DEF IInv, Remembered, ToldOnce, Tick, fileVars, ghostVars
<1> QED
  BY <1>1, <1>2, <1>3, <1>4, <1>5, <1>6, <1>7 DEF IInv

LEMMA CrashKeeps ==
  ASSUME IInv, Crash PROVE IInv'
<1>1. Types'
  BY Defaults DEF IInv, Types, Labels, Crash
<1>2. OneAtATime'
  BY DEF IInv, OneAtATime, Working, Crash
<1>3. Locking'
  BY NobodyAssumption DEF IInv, Locking, Saving, Renaming, Crash
<1>4. FileIsStore'
  BY DEF IInv, FileIsStore, Crash
<1>5. Fingerprinted'
  BY DEF IInv, Fingerprinted, Unkeyed, Crash
<1>6. FileFollows'
  BY DEF IInv, FileFollows, Crash
<1>7. Remembered'
  BY DEF IInv, Remembered, ToldOnce, Crash
<1> QED
  BY <1>1, <1>2, <1>3, <1>4, <1>5, <1>6, <1>7 DEF IInv

LEMMA RestartKeeps ==
  ASSUME IInv, Restart PROVE IInv'
<1>1. Types'
  BY DEF IInv, Types, Restart, fileVars, requestVars, ghostVars
<1>2. OneAtATime'
  BY DEF IInv, OneAtATime, Working, Restart, requestVars
<1>3. Locking'
  BY DEF IInv, Locking, Saving, Renaming, Restart, requestVars
<1>4. FileIsStore'
  BY DEF IInv, FileIsStore, Restart, fileVars
<1>5. Fingerprinted'
  BY DEF IInv, Locking, Fingerprinted, Unkeyed, Restart, requestVars
<1>6. FileFollows'
  BY DEF IInv, FileFollows, Restart, fileVars
<1>7. Remembered'
  BY DEF IInv, Remembered, ToldOnce, Restart, fileVars, ghostVars
<1> QED
  BY <1>1, <1>2, <1>3, <1>4, <1>5, <1>6, <1>7 DEF IInv

LEMMA NextKeeps == IInv /\ [Next]_lifecycleVars => IInv'
<1> SUFFICES ASSUME IInv, [Next]_lifecycleVars PROVE IInv'
  OBVIOUS
<1>1. CASE UNCHANGED lifecycleVars
  <2>1. Types' /\ OneAtATime' /\ Locking'
    BY <1>1 DEF IInv, Types, OneAtATime, Working, Locking, Saving, Renaming,
         lifecycleVars,
                fileVars, requestVars, ghostVars
  <2>2. FileIsStore' /\ Fingerprinted'
    BY <1>1 DEF IInv, FileIsStore, Fingerprinted, Unkeyed, SavingKey, lifecycleVars,
         fileVars,
                requestVars, ghostVars
  <2>3. FileFollows' /\ Remembered'
    BY <1>1 DEF IInv, FileFollows, SavingKey, Remembered, ToldOnce, lifecycleVars, fileVars,
                requestVars, ghostVars
  <2> QED
    BY <2>1, <2>2, <2>3 DEF IInv
<1>2. ASSUME NEW r \in Requests, Step(r) PROVE IInv'
  BY <1>2, KeyStateKeeps, SaveKeeps, RenameKeeps, SaveFailsKeeps, CheckKeeps, ClaimKeeps,
     SendKeeps, ScheduleNextInitKeeps, ReleaseKeeps, AwaitKeeps DEF Step
<1> QED
  BY <1>1, <1>2, ArriveKeeps, TickKeeps, CrashKeeps, RestartKeeps DEF Next

\* The invariant all three theorems follow from.
THEOREM Invariance == Spec => []IInv
BY InitHolds, NextKeeps, PTL DEF Spec

\* However many requests compete, a key has at most one round of pre-requests
\* under way, and its mark in Upstream.inflight is there exactly meanwhile.
THEOREM NeverTwoRounds == Spec => []OneAtATime
<1>1. IInv => OneAtATime
  BY DEF IInv
<1> QED
  BY <1>1, Invariance, PTL

\* Whatever is saved, fails to be saved or is cut off by a crash, and by how
\* many requests: without a save under way the file is the store.
THEOREM FileFollowsStore == Spec => []FileIsStore
<1>1. IInv => FileIsStore
  BY DEF IInv
<1> QED
  BY <1>1, Invariance, PTL

\* A key keeps its fingerprint over any number of requests and restarts.
THEOREM FingerprintKept == Spec => []OneFingerprint
<1>1. IInv => OneFingerprint
  <2> SUFFICES ASSUME IInv, ~lost, NEW k \in Keys PROVE Cardinality(recorded[k]) <= 1
    BY DEF OneFingerprint
  <2>1. recorded[k] = {} \/ recorded[k] = {mem[k].fp} \/ recorded[k] = {disk[k].fp}
    BY DEF IInv, Types, Remembered, ToldOnce
  <2>2. Cardinality({}) = 0 /\ \A n : Cardinality({n}) = 1
    BY FS_EmptySet, FS_Singleton
  <2>3. Cardinality(recorded[k]) \in {0, 1}
    BY <2>1, <2>2
  <2> QED
    BY <2>3
<1> QED
  BY <1>1, Invariance, PTL

---------------------------------------------------------------------------
(* The period.  Times are ordered: what a store in memory or on disk says   *)
(* of a key is not further ahead than one period from now, and no request   *)
(* that came sees memory fall behind the file it came with.                 *)

\* The times of a store, now or later: without an entry there is none, and none
\* was computed after now.
TimesOf(store, now) ==
  \A k \in Keys :
    /\ store[k].fp = 0 => store[k].time = NoTime
    /\ store[k].time.soonest <= store[k].time.next
    /\ store[k].time.soonest <= now + Period

\* The time a request is about to schedule replaces an earlier one.
AboutToSchedule(r) ==
  pc[r] = "schedule" =>
    /\ at[r].soonest <= at[r].next /\ at[r].soonest <= clock + Period
    /\ mem[key[r]].time.soonest <= at[r].soonest

Timely ==
  /\ TimesOf(mem, clock) /\ TimesOf(disk, clock)
  /\ up => \A k \in Keys : disk[k].time.soonest <= mem[k].time.soonest
  /\ \A r \in Requests : pc[r] # "idle" => owed[r] <= mem[key[r]].time.soonest
  /\ \A r \in Requests : pc[r] \in {"claim", "send"} => owed[r] <= clock
  /\ \A r \in Requests : AboutToSchedule(r)
  /\ owed \in [Requests -> Nat]

PInv == IInv /\ Timely

LEMMA InitTimely == Init => Timely
<1> SUFFICES ASSUME Init PROVE Timely
  OBVIOUS
<1>1. /\ \A k \in Keys : mem[k] = NoKeyState /\ disk[k] = NoKeyState
      /\ owed = [r \in Requests |-> 0] /\ clock = 0
      /\ \A r \in Requests : pc[r] = "idle"
  BY DEF Init, NoFile
<1> QED
  BY <1>1, PeriodAssumption DEF Timely, TimesOf, AboutToSchedule, NoKeyState, NoTime

\* What the steps of one request leave alone, as far as times go.
LEMMA TimelyUntouched ==
  ASSUME PInv, NEW r \in Requests,
         UNCHANGED <<clock, up, mem, disk, key, owed>>,
         \A s \in Requests \ {r} : pc'[s] = pc[s] /\ at'[s] = at[s],
         pc[r] # "idle", pc'[r] \in {"claim", "send"} => owed[r] <= clock,
         AboutToSchedule(r)'
  PROVE  Timely'
<1>1. \A s \in Requests : pc'[s] # "idle" => owed[s] <= mem[key[s]].time.soonest
  BY DEF PInv, Timely
<1>2. \A s \in Requests : pc'[s] \in {"claim", "send"} => owed[s] <= clock
  BY DEF PInv, Timely
<1>3. \A s \in Requests : AboutToSchedule(s)'
  BY DEF PInv, Timely, AboutToSchedule
<1> QED
  BY <1>1, <1>2, <1>3 DEF PInv, Timely, TimesOf

LEMMA KeyStateTimely ==
  ASSUME PInv, NEW r \in Requests, KeyState(r) PROVE Timely'
<1>1. /\ pc \in [Requests -> Labels] /\ key \in [Requests -> Keys] /\ mem \in Stores
      /\ disk \in Stores /\ pc[r] = "keyState"
  BY DEF PInv, IInv, Types, KeyState, At
<1>2. UNCHANGED <<clock, up, disk, key, at, owed>>
  BY DEF KeyState, fileVars
<1>3. \A k \in Keys : mem'[k].time = mem[k].time /\ (mem'[k].fp = 0 => mem[k].fp = 0)
  <2>1. CASE mem[key[r]].fp # 0
    BY <2>1 DEF KeyState
  <2>2. CASE mem[key[r]].fp = 0
    <3>1. mem' = [mem EXCEPT ![key[r]] = [fp |-> lastFp'[key[r]], time |-> NoTime]]
      BY <2>2 DEF KeyState
    <3>2. mem[key[r]].time = NoTime
      BY <1>1, <2>2 DEF PInv, Timely, TimesOf
    <3> QED
      BY <1>1, <2>2, <3>1, <3>2 DEF Stores, KeyStates
  <2> QED
    BY <2>1, <2>2
<1>4. TimesOf(mem, clock)' /\ TimesOf(disk, clock)'
  BY <1>2, <1>3 DEF PInv, Timely, TimesOf
<1>5. pc'[r] \in {"check", "saveKey"} /\ \A s \in Requests \ {r} : pc'[s] = pc[s]
  BY <1>1 DEF KeyState, Goto
<1>6. \A s \in Requests : mem'[key'[s]].time = mem[key[s]].time
  BY <1>1, <1>2, <1>3
<1>7. \A s \in Requests : AboutToSchedule(s)'
  BY <1>2, <1>5, <1>6 DEF PInv, Timely, AboutToSchedule
<1>8. \A s \in Requests : pc'[s] # "idle" => owed'[s] <= mem'[key'[s]].time.soonest
  BY <1>1, <1>2, <1>5, <1>6 DEF PInv, Timely
<1>9. \A s \in Requests : pc'[s] \in {"claim", "send"} => owed'[s] <= clock'
  BY <1>2, <1>5 DEF PInv, Timely
<1> QED
  BY <1>2, <1>3, <1>4, <1>7, <1>8, <1>9 DEF PInv, Timely

LEMMA SaveTimely ==
  ASSUME PInv, NEW r \in Requests, Save(r) \/ SaveFails(r) PROVE Timely'
<1>1. UNCHANGED <<clock, up, mem, disk, key, at, owed>>
  BY DEF Save, SaveFails, WriteTmp
<1>2. pc[r] # "idle" /\ pc'[r] \in {"check", "release", "renameKey", "renameTime"}
  BY DEF PInv, IInv, Types, Save, SaveFails, Goto, AfterSave
<1>3. \A s \in Requests \ {r} : pc'[s] = pc[s]
  BY DEF PInv, IInv, Types, Save, SaveFails, Goto
<1> QED
  BY <1>1, <1>2, <1>3, TimelyUntouched DEF AboutToSchedule

LEMMA RenameTimely ==
  ASSUME PInv, NEW r \in Requests, Rename(r) PROVE Timely'
<1>1. UNCHANGED <<clock, up, mem, key, at, owed>> /\ disk' = mem
  BY DEF PInv, IInv, Locking, Renaming, Rename, RenameTmp
<1>2. pc[r] # "idle" /\ pc'[r] \in {"check", "release"}
  BY DEF PInv, IInv, Types, Rename, Goto, AfterSave
<1>3. \A s \in Requests \ {r} : pc'[s] = pc[s]
  BY DEF PInv, IInv, Types, Rename, Goto
<1>4. \A s \in Requests : AboutToSchedule(s)'
  BY <1>1, <1>2, <1>3 DEF PInv, Timely, AboutToSchedule
<1>5. \A k \in Keys : mem[k].time.soonest \in Nat
  BY DEF PInv, IInv, Types, Stores, KeyStates, Times
<1> QED
  BY <1>1, <1>2, <1>3, <1>4, <1>5 DEF PInv, Timely, TimesOf

LEMMA CheckTimely ==
  ASSUME PInv, NEW r \in Requests, Check(r) PROVE Timely'
<1>1. UNCHANGED <<clock, up, mem, disk, at>> /\ pc[r] = "check"
  BY DEF Check, At, fileVars
<1>2. \A s \in Requests \ {r} : pc'[s] = pc[s] /\ key'[s] = key[s] /\ owed'[s] = owed[s]
  BY DEF PInv, IInv, Timely, Types, Check, Goto, Return
<1>3. \/ pc'[r] = "idle" /\ owed' \in [Requests -> Nat]
      \/ pc'[r] = "claim" /\ UNCHANGED <<key, owed>> /\ owed[r] <= clock
  <2>1. CASE clock < mem[key[r]].time.next
    BY <2>1 DEF PInv, IInv, Timely, Types, Check, Return, Goto
  <2>2. CASE ~(clock < mem[key[r]].time.next)
    <3>1. pc'[r] = "claim" /\ UNCHANGED <<key, owed>>
      BY <2>2 DEF PInv, IInv, Types, Check, Goto
    <3>2. /\ owed[r] <= mem[key[r]].time.soonest
          /\ mem[key[r]].time.soonest <= mem[key[r]].time.next
      BY <1>1 DEF PInv, IInv, Types, Timely, TimesOf
    <3>3. owed[r] \in Nat /\ clock \in Nat /\ mem[key[r]].time \in Times
      BY DEF PInv, IInv, Types, Timely, Stores, KeyStates
    <3> QED
      BY <2>2, <3>1, <3>2, <3>3 DEF Times
  <2> QED
    BY <2>1, <2>2
<1>4. \A s \in Requests : AboutToSchedule(s)'
  BY <1>1, <1>2, <1>3 DEF PInv, Timely, AboutToSchedule
<1>5. \A s \in Requests :
        /\ pc'[s] # "idle" => owed'[s] <= mem'[key'[s]].time.soonest
        /\ pc'[s] \in {"claim", "send"} => owed'[s] <= clock'
  BY <1>1, <1>2, <1>3 DEF PInv, Timely
<1> QED
  BY <1>1, <1>3, <1>4, <1>5 DEF PInv, Timely, TimesOf

LEMMA ReturnTimely ==
  ASSUME PInv, NEW r \in Requests, Return(r), UNCHANGED <<clock, up, mem, disk, at>>
  PROVE  Timely'
<1>1. \A s \in Requests \ {r} : pc'[s] = pc[s] /\ key'[s] = key[s] /\ owed'[s] = owed[s]
  BY DEF PInv, IInv, Timely, Types, Goto, Return
<1>2. pc'[r] = "idle" /\ owed' \in [Requests -> Nat]
  BY DEF PInv, IInv, Timely, Types, Goto, Return
<1>3. \A s \in Requests : AboutToSchedule(s)'
  BY <1>1, <1>2 DEF PInv, Timely, AboutToSchedule
<1> QED
  BY <1>1, <1>2, <1>3 DEF PInv, Timely, TimesOf

LEMMA ClaimTimely ==
  ASSUME PInv, NEW r \in Requests, Claim(r) PROVE Timely'
<1>1. UNCHANGED <<clock, up, mem, disk, at>> /\ pc[r] = "claim"
  BY DEF Claim, At, fileVars
<1>2. CASE MayClaim(key[r])
  <2>1. UNCHANGED <<key, owed>> /\ pc'[r] = "send" /\ \A s \in Requests \ {r} : pc'[s] = pc[s]
    BY <1>2 DEF PInv, IInv, Types, Claim, Goto
  <2> QED
    BY <1>1, <2>1, TimelyUntouched DEF PInv, Timely, AboutToSchedule
<1>3. CASE ~MayClaim(key[r])
  BY <1>1, <1>3, ReturnTimely DEF Claim
<1> QED
  BY <1>2, <1>3

LEMMA AwaitTimely ==
  ASSUME PInv, NEW r \in Requests, NEW jitter \in Jitters, Await(r, jitter) PROVE Timely'
<1>1. UNCHANGED <<clock, up, mem, disk, key, owed>> /\ pc[r] = "await"
  BY DEF Await, At, fileVars
<1>2. pc'[r] = "schedule" /\ at'[r] = NextAt(jitter)
  BY DEF PInv, IInv, Types, Await, Goto
<1>3. \A s \in Requests \ {r} : pc'[s] = pc[s] /\ at'[s] = at[s]
  BY DEF PInv, IInv, Types, Await, Goto
<1>4. AboutToSchedule(r)'
  <2>1. clock \in Nat /\ Period \in Nat /\ jitter \in Nat /\ key[r] \in Keys
    BY PeriodAssumption, JittersAssumption DEF PInv, IInv, Types
  <2>2. mem[key[r]].time.soonest <= clock + Period
    BY <2>1 DEF PInv, Timely, TimesOf
  <2> QED
    BY <1>1, <1>2, <2>1, <2>2 DEF AboutToSchedule, NextAt
<1> QED
  BY <1>1, <1>2, <1>3, <1>4, TimelyUntouched

LEMMA ScheduleTimely ==
  ASSUME PInv, NEW r \in Requests, ScheduleNextInit(r) PROVE Timely'
<1>1. UNCHANGED <<clock, up, disk, key, owed>> /\ pc[r] = "schedule"
  BY DEF ScheduleNextInit, At, fileVars
<1>2. /\ mem' = [mem EXCEPT ![key[r]].time = at[r]]
      /\ pc'[r] = "saveTime" /\ \A s \in Requests \ {r} : pc'[s] = pc[s] /\ at'[s] = at[s]
  BY DEF PInv, IInv, Types, ScheduleNextInit, Goto
<1>3. mem \in Stores /\ disk \in Stores /\ at \in [Requests -> Times] /\ key \in [Requests -> Keys]
  BY DEF PInv, IInv, Types
<1>4. /\ at[r].soonest <= at[r].next /\ at[r].soonest <= clock + Period
      /\ mem[key[r]].time.soonest <= at[r].soonest
  BY <1>1 DEF PInv, Timely, AboutToSchedule
<1>5. mem[key[r]].fp # 0
  BY <1>1 DEF PInv, IInv, Fingerprinted, Unkeyed
<1>6. /\ mem'[key[r]].time = at[r] /\ mem'[key[r]].fp = mem[key[r]].fp
      /\ \A k \in Keys : k # key[r] => mem'[k] = mem[k]
  BY <1>2, <1>3 DEF Stores, KeyStates
<1>7. \A k \in Keys : mem[k].time.soonest <= mem'[k].time.soonest
  <2>1. \A k \in Keys : mem[k].time.soonest \in Nat
    BY <1>3 DEF Stores, KeyStates, Times
  <2> QED
    BY <1>4, <1>6, <2>1
<1>8. TimesOf(mem, clock)' /\ TimesOf(disk, clock)'
  BY <1>1, <1>4, <1>5, <1>6 DEF PInv, Timely, TimesOf
<1>9. ASSUME NEW s \in Requests PROVE AboutToSchedule(s)'
  <2>1. CASE s = r
    BY <1>2, <2>1 DEF AboutToSchedule
  <2>2. CASE s # r
    <3>1. pc[s] = "schedule" => key[s] # key[r]
      BY <1>1, <2>2 DEF PInv, IInv, OneAtATime, Working
    <3> QED
      BY <1>1, <1>2, <1>3, <1>6, <2>2, <3>1 DEF PInv, Timely, AboutToSchedule
  <2> QED
    BY <2>1, <2>2
<1>10. ASSUME NEW s \in Requests, pc'[s] # "idle"
       PROVE  owed'[s] <= mem'[key'[s]].time.soonest
  <2>1. owed[s] <= mem[key[s]].time.soonest
    BY <1>1, <1>2, <1>10 DEF PInv, Timely
  <2>2. key[s] \in Keys /\ mem[key[s]].time.soonest <= mem'[key[s]].time.soonest
    BY <1>3, <1>7
  <2>3. /\ owed[s] \in Nat /\ mem[key[s]].time.soonest \in Nat
        /\ mem'[key[s]].time.soonest \in Nat
    BY <1>3, <1>6, <2>2 DEF PInv, Timely, Stores, KeyStates, Times
  <2> QED
    BY <1>1, <2>1, <2>2, <2>3
<1>11. ASSUME up', NEW k \in Keys PROVE disk'[k].time.soonest <= mem'[k].time.soonest
  <2>1. disk[k].time.soonest <= mem[k].time.soonest /\ mem[k].time.soonest <= mem'[k].time.soonest
    BY <1>1, <1>7, <1>11 DEF PInv, Timely
  <2>2. /\ disk[k].time.soonest \in Nat /\ mem[k].time.soonest \in Nat
        /\ mem'[k].time.soonest \in Nat
    BY <1>3, <1>6 DEF Stores, KeyStates, Times
  <2> QED
    BY <1>1, <2>1, <2>2
<1> QED
  BY <1>1, <1>2, <1>8, <1>9, <1>10, <1>11 DEF PInv, Timely

LEMMA ArriveTimely ==
  ASSUME PInv, NEW r \in Requests, NEW k \in Keys, Arrive(r, k) PROVE Timely'
<1>1. UNCHANGED <<clock, up, mem, disk, at>> /\ up /\ pc[r] = "idle"
  BY DEF Arrive, At, fileVars
<1>2. /\ pc'[r] = "keyState" /\ key'[r] = k /\ owed'[r] = disk[k].time.soonest
      /\ \A s \in Requests \ {r} : pc'[s] = pc[s] /\ key'[s] = key[s] /\ owed'[s] = owed[s]
  BY DEF PInv, IInv, Timely, Types, Arrive, Goto
<1>3. owed' \in [Requests -> Nat]
  BY DEF PInv, IInv, Timely, Types, Stores, KeyStates, Times, Arrive
<1>4. \A s \in Requests : AboutToSchedule(s)'
  BY <1>1, <1>2 DEF PInv, Timely, AboutToSchedule
<1>5. \A s \in Requests :
        /\ pc'[s] # "idle" => owed'[s] <= mem'[key'[s]].time.soonest
        /\ pc'[s] \in {"claim", "send"} => owed'[s] <= clock'
  BY <1>1, <1>2 DEF PInv, Timely
<1> QED
  BY <1>1, <1>3, <1>4, <1>5 DEF PInv, Timely, TimesOf

LEMMA TickTimely ==
  ASSUME PInv, Tick PROVE Timely'
<1>1. UNCHANGED <<up, mem, disk, at, pc, key, owed>> /\ clock' = clock + 1
  BY DEF Tick, fileVars, requestVars
<1>2. /\ clock \in Nat /\ Period \in Nat /\ owed \in [Requests -> Nat]
      /\ \A k \in Keys : mem[k].time.soonest \in Nat /\ disk[k].time.soonest \in Nat
      /\ \A r \in Requests : at[r].soonest \in Nat
  BY PeriodAssumption DEF PInv, IInv, Timely, Types, Stores, KeyStates, Times
<1>3. TimesOf(mem, clock)' /\ TimesOf(disk, clock)'
  BY <1>1, <1>2 DEF PInv, Timely, TimesOf
<1>4. \A r \in Requests : AboutToSchedule(r)'
  BY <1>1, <1>2 DEF PInv, Timely, AboutToSchedule
<1>5. \A r \in Requests : pc[r] \in {"claim", "send"} => owed[r] <= clock + 1
  BY <1>2 DEF PInv, Timely
<1> QED
  BY <1>1, <1>3, <1>4, <1>5 DEF PInv, Timely

LEMMA CrashTimely ==
  ASSUME PInv, Crash PROVE Timely'
<1>1. /\ UNCHANGED <<clock, disk>> /\ ~up' /\ owed' = [r \in Requests |-> 0]
      /\ \A k \in Keys : mem'[k] = NoKeyState
      /\ \A r \in Requests : pc'[r] = "idle"
  BY DEF Crash, NoFile
<1>2. clock + Period \in Nat
  BY PeriodAssumption DEF PInv, IInv, Types
<1> QED
  BY <1>1, <1>2 DEF PInv, Timely, TimesOf, AboutToSchedule, NoKeyState, NoTime

LEMMA RestartTimely ==
  ASSUME PInv, Restart PROVE Timely'
<1>1. UNCHANGED <<clock, disk, at, pc, key, owed>> /\ mem' = disk /\ ~up
  BY DEF Restart, fileVars, requestVars
<1>2. \A r \in Requests : pc[r] = "idle"
  BY <1>1 DEF PInv, IInv, Locking
<1>3. \A k \in Keys : disk[k].time.soonest \in Nat
  BY DEF PInv, IInv, Types, Stores, KeyStates, Times
<1> QED
  BY <1>1, <1>2, <1>3 DEF PInv, Timely, TimesOf, AboutToSchedule

LEMMA NextTimely == PInv /\ [Next]_lifecycleVars => PInv'
<1> SUFFICES ASSUME PInv, [Next]_lifecycleVars PROVE Timely'
  BY NextKeeps DEF PInv
<1>1. CASE UNCHANGED lifecycleVars
  BY <1>1 DEF PInv, Timely, TimesOf, AboutToSchedule, lifecycleVars, fileVars, requestVars
<1>2. ASSUME NEW r \in Requests, Send(r) PROVE Timely'
  <2>1. UNCHANGED <<clock, up, mem, disk, key, at, owed>> /\ pc[r] = "send" /\ pc'[r] = "await"
    BY <1>2 DEF PInv, IInv, Types, Send, At, Goto, fileVars
  <2>2. \A s \in Requests \ {r} : pc'[s] = pc[s]
    BY <1>2 DEF PInv, IInv, Types, Send, Goto
  <2> QED
    BY <2>1, <2>2, TimelyUntouched DEF AboutToSchedule
<1>3. ASSUME NEW r \in Requests, Release(r) PROVE Timely'
  BY <1>3, ReturnTimely DEF Release, fileVars
<1>4. ASSUME NEW r \in Requests, Step(r) PROVE Timely'
  BY <1>2, <1>3, <1>4, KeyStateTimely, SaveTimely, RenameTimely, CheckTimely, ClaimTimely,
     ScheduleTimely, AwaitTimely DEF Step
<1> QED
  BY <1>1, <1>4, ArriveTimely, TickTimely, CrashTimely, RestartTimely DEF Next

\* No request that finds its key's next time in the file sends pre-requests
\* before a whole period has passed since the last ones, over any number of
\* restarts, failed saves and requests with smaller jitters.
THEOREM PeriodKept == Spec => FileKeepsThePeriod
<1>1. Init => PInv
  BY InitHolds, InitTimely DEF PInv
<1>2. PInv /\ [Next]_lifecycleVars
        => [\A r \in Requests : Send(r) => clock >= owed[r]]_lifecycleVars
  <2> SUFFICES ASSUME PInv, NEW r \in Requests, Send(r) PROVE clock >= owed[r]
    OBVIOUS
  <2>1. owed[r] <= clock
    BY DEF PInv, Timely, Send, At
  <2>2. owed[r] \in Nat /\ clock \in Nat
    BY DEF PInv, IInv, Timely, Types
  <2> QED
    BY <2>1, <2>2
<1> QED
  BY <1>1, <1>2, NextTimely, PTL DEF Spec, FileKeepsThePeriod

-----------------------------------------------------------------------------
(* Sessions. *)

\* The map of sessions holds entries of the right shape after every step: an age
\* is below zero only where there is no entry (NewEntry, Cleanup, time.Now).
THEOREM SessionsTypeCorrect == StoresSpec => []SessionsTypeOK
<1> USE SessionAssumption DEF SessionsTypeOK, Entries, NoEntry, Lives
<1>1. StoresInit => SessionsTypeOK
  BY DEF StoresInit, SessionsInit
<1>2. SessionsTypeOK /\ [StoresNext]_storeVars => SessionsTypeOK'
  <2> SUFFICES ASSUME SessionsTypeOK, [StoresNext]_storeVars PROVE SessionsTypeOK'
    OBVIOUS
  <2>1. ASSUME NEW k \in SessionKeys, ResolveSession(k) PROVE SessionsTypeOK'
    BY <2>1 DEF ResolveSession, NewEntry
  <2>2. CASE Cleanup
    BY <2>2 DEF Cleanup
  <2>3. CASE SessionsTick
    <3>1. \A k \in SessionKeys : Aged(byKey[k]) \in Entries \cup {NoEntry}
      BY DEF Aged, Expired
    <3> QED BY <2>3, <3>1 DEF SessionsTick
  <2>4. CASE UNCHANGED sessionVars
    BY <2>4 DEF sessionVars
  <2> QED BY <2>1, <2>2, <2>3, <2>4 DEF StoresNext, storeVars, Resolves, CleansUp, Asks,
             Answered, Stored, GivesUp, StoresTick
<1> QED BY <1>1, <1>2, PTL DEF StoresSpec

\* No request and no tick of the cleanup takes a session from a key before its
\* period is over (ResolveSession, Cleanup).
THEOREM SessionsLast == StoresSpec => SessionPeriod
<1> DEFINE Lasts == \A k \in SessionKeys : Gone(byKey[k], byKey'[k]) => byKey[k].age >= Duration
<1>1. SessionsTypeOK /\ [StoresNext]_storeVars => [Lasts]_sessionVars
  <2> SUFFICES ASSUME SessionsTypeOK, [StoresNext]_storeVars,
                      NEW k \in SessionKeys, Gone(byKey[k], byKey'[k]),
                      ~UNCHANGED sessionVars
               PROVE  byKey[k].age >= Duration
    OBVIOUS
  <2> DEFINE e == byKey[k]
  <2>1. e \in Entries /\ e.age \in Nat /\ e.life \in Int /\ e.life >= Duration
    BY SessionAssumption DEF SessionsTypeOK, Entries, NoEntry, Lives, Gone
  <2>2. byKey'[k] # e
    BY <2>1 DEF Gone, Entries, Lives
  <2>3. ASSUME NEW j \in SessionKeys, ResolveSession(j) PROVE e.age >= Duration
    BY <2>1, <2>2, <2>3, SessionAssumption DEF ResolveSession, Live, SessionsTypeOK
  <2>4. CASE Cleanup
    BY <2>1, <2>2, <2>4, SessionAssumption DEF Cleanup, Expired
  <2>5. CASE SessionsTick
    <3>1. byKey'[k] = Aged(e)
      BY <2>5 DEF SessionsTick
    <3>2. byKey'[k] = [e EXCEPT !.age = @ + 1]
      BY <2>1, <2>2, <3>1 DEF Aged
    <3>3. byKey'[k] # NoEntry /\ byKey'[k].life = e.life /\ byKey'[k].age = e.age + 1
      BY <2>1, <3>2 DEF Entries, NoEntry
    <3> QED BY <2>1, <3>3 DEF Gone
  <2> QED BY <2>3, <2>4, <2>5 DEF StoresNext, storeVars, Resolves, CleansUp, Asks,
             Answered, Stored, GivesUp, StoresTick
<1> QED BY <1>1, SessionsTypeCorrect, PTL DEF StoresSpec, SessionPeriod

-----------------------------------------------------------------------------
(* Model lists. *)

\* A list that is still served is its key's and was at most one timeout old when
\* it came into the cache.
Served == \A k \in ModelKeys : Fresh(modelsCache[k]) =>
            modelsCache[k].owner = k /\ modelsCache[k].age <= modelsCache[k].held + FetchTimeout

\* A list on its way is no older than its fetch, and no fetch outlives the timeout.
OnTime == \A c \in Callers : fetches[c].at # "idle" =>
            fetches[c].age <= fetches[c].waited /\ fetches[c].waited <= FetchTimeout

ModelsInv == ModelsTypeOK /\ Served /\ OnTime

\* A bounded clock goes on by one until it stops.
LEMMA OlderIs ==
  ASSUME NEW m \in Nat, NEW n \in 0..m
  PROVE  /\ Older(n, m) \in 0..m /\ Older(n, m) <= n + 1
         /\ Older(n, m) < m => n < m /\ Older(n, m) = n + 1
BY DEF Older

\* Time passes for every entry and every fetch alike.
LEMMA ModelsTickKeeps ==
  ASSUME ModelsInv, ModelsTick PROVE ModelsInv'
<1> USE ModelAssumption
<1>1. Oldest \in Nat /\ ModelsTTL \in Nat
  BY DEF Oldest
<1>2. ASSUME NEW k \in ModelKeys
      PROVE  /\ modelsCache'[k] \in Entry
             /\ Fresh(modelsCache'[k]) =>
                  /\ modelsCache'[k].owner = k
                  /\ modelsCache'[k].age <= modelsCache'[k].held + FetchTimeout
  <2> DEFINE e == modelsCache[k]
             age  == Older(e.age, Oldest)
             held == Older(e.held, ModelsTTL)
  <2>1. e \in Entry /\ e.owner \in ModelKeys /\ e.age \in 0..Oldest /\ e.held \in 0..ModelsTTL
    BY DEF ModelsInv, ModelsTypeOK, Entry
  <2>2. modelsCache'[k] = [e EXCEPT !.age = age, !.held = held]
    BY DEF ModelsTick
  <2>3. age \in 0..Oldest /\ age <= e.age + 1
    BY <1>1, <2>1, OlderIs
  <2>4. held \in 0..ModelsTTL /\ (held < ModelsTTL => e.held < ModelsTTL /\ held = e.held + 1)
    BY <1>1, <2>1, OlderIs
  <2> HIDE DEF age, held
  <2>5. /\ modelsCache'[k] \in Entry /\ modelsCache'[k].owner = e.owner
        /\ modelsCache'[k].age = age /\ modelsCache'[k].held = held
    BY <2>1, <2>2, <2>3, <2>4 DEF Entry
  <2>6. e.held < ModelsTTL => e.owner = k /\ e.age <= e.held + FetchTimeout
    BY DEF ModelsInv, Served, Fresh
  <2> QED BY <1>1, <2>1, <2>3, <2>4, <2>5, <2>6 DEF Fresh
<1>3. \A c \in Callers : fetches[c] \in Fetch
  BY DEF ModelsInv, ModelsTypeOK
<1>4. ASSUME NEW c \in Callers
      PROVE  /\ fetches'[c] \in Fetch
             /\ fetches'[c].at # "idle" =>
                  fetches'[c].age <= fetches'[c].waited /\ fetches'[c].waited <= FetchTimeout
  <2>1. CASE fetches[c].at = "idle"
    BY <1>3, <2>1 DEF ModelsTick
  <2>2. CASE fetches[c].at # "idle"
    <3> DEFINE f == fetches[c]
               a == IF f.at = "answered" THEN Older(f.age, Oldest) ELSE f.age
    <3>1. fetches'[c] = [f EXCEPT !.waited = Older(f.waited, Oldest), !.age = a]
      BY <2>2 DEF ModelsTick
    <3>2. f \in Fetch /\ f.age <= f.waited /\ f.waited < FetchTimeout
      BY <1>3, <2>2 DEF ModelsInv, OnTime, ModelsTick, MayWait
    <3>3. f.at \in {"idle", "asked", "answered"} /\ f.key \in ModelKeys
           /\ f.age \in 0..Oldest /\ f.waited \in 0..Oldest
      BY <3>2 DEF Fetch
    <3>4. a \in 0..Oldest /\ a <= f.age + 1
      <4>1. Older(f.age, Oldest) \in 0..Oldest /\ Older(f.age, Oldest) <= f.age + 1
        BY <1>1, <3>3, OlderIs
      <4>2. f.age <= f.age + 1
        BY <1>1, <3>3
      <4> QED BY <3>3, <4>1, <4>2
    <3>5. Older(f.waited, Oldest) = f.waited + 1 /\ f.waited + 1 \in 0..Oldest
      BY <3>2, <3>3 DEF Older, Oldest
    <3> HIDE DEF a
    <3>6. fetches'[c] \in Fetch /\ fetches'[c].age = a /\ fetches'[c].waited = f.waited + 1
      <4>1. fetches'[c] = [f EXCEPT !.waited = f.waited + 1, !.age = a]
        BY <3>1, <3>5
      <4> QED BY <3>2, <3>4, <3>5, <4>1 DEF Fetch
    <3> QED BY <3>2, <3>3, <3>4, <3>6
  <2> QED BY <2>1, <2>2
<1>5. ModelsTypeOK'
  BY <1>2, <1>4 DEF ModelsTypeOK, ModelsTick
<1> QED BY <1>2, <1>4, <1>5 DEF ModelsInv, Served, OnTime

\* A caller whose fetch is over.
LEMMA DoneIs ==
  ASSUME NEW f \in Fetch PROVE Done(f) \in Fetch /\ Done(f).at = "idle"
<1>1. 0 \in 0..Oldest
  BY ModelAssumption DEF Oldest
<1> QED BY <1>1 DEF Done, Fetch

LEMMA ModelsInvariance ==
  /\ StoresInit => ModelsInv
  /\ ModelsInv /\ [StoresNext]_storeVars => ModelsInv'
<1> USE ModelAssumption DEF Oldest
<1>1. StoresInit => ModelsInv
  BY DEF StoresInit, ModelsInit, ModelsInv, ModelsTypeOK, Served, OnTime, Fresh, Entry, Fetch
<1>2. ModelsInv /\ [StoresNext]_storeVars => ModelsInv'
  <2> SUFFICES ASSUME ModelsInv, [StoresNext]_storeVars PROVE ModelsInv'
    OBVIOUS
  <2> USE DEF ModelsInv, ModelsTypeOK, Served, OnTime
  <2>1. ASSUME NEW c \in Callers, NEW k \in ModelKeys, Ask(c, k) PROVE ModelsInv'
    BY <2>1 DEF Ask, Fetch
  <2>2. ASSUME NEW c \in Callers, Answer(c) PROVE ModelsInv'
    BY <2>2 DEF Answer, Fetch
  <2>3. ASSUME NEW c \in Callers, Store(c) PROVE ModelsInv'
    <3> DEFINE f == fetches[c]
               new == [owner |-> f.key, age |-> f.age, held |-> 0]
    <3>1. f \in Fetch /\ new \in Entry /\ Done(f) \in Fetch /\ Done(f).at = "idle"
      BY DoneIs DEF Fetch, Entry
    <3>2. f.age <= FetchTimeout
      BY <2>3, <3>1 DEF Store, Fetch
    <3>3. modelsCache' = [modelsCache EXCEPT ![f.key] = new] /\ fetches' = [fetches EXCEPT ![c] = Done(f)]
      BY <2>3 DEF Store
    <3> QED BY <3>1, <3>2, <3>3 DEF Fetch, Fresh
  <2>4. ASSUME NEW c \in Callers, GiveUp(c) PROVE ModelsInv'
    BY <2>4, DoneIs DEF GiveUp
  <2>5. CASE ModelsTick
    BY <2>5, ModelsTickKeeps
  <2>6. CASE UNCHANGED modelVars
    BY <2>6 DEF modelVars
  <2> QED BY <2>1, <2>2, <2>3, <2>4, <2>5, <2>6 DEF StoresNext, storeVars, Resolves, CleansUp,
             Asks, Answered, Stored, GivesUp, StoresTick
<1> QED BY <1>1, <1>2

\* Whatever fetches overlap and in whatever order they end, no list is served
\* that was made for another key, or longer than the lifetime and one timeout
\* ago (Models, modelsCache).
THEOREM ListsFresh == StoresSpec => []ModelsFresh
<1>1. ModelsInv => ModelsFresh
  BY ModelAssumption DEF ModelsInv, ModelsTypeOK, Served, ModelsFresh, Fresh, Entry, Oldest
<1> QED BY <1>1, ModelsInvariance, PTL DEF StoresSpec

---------------------------------------------------------------------------
(* The settings of a request: tool_choice, parallel calls, thinking and    *)
(* the limit.                                                              *)

RequestFields == {"endpoint", "top", "additional", "outputs", "choice", "parallel", "effort", "max_tokens"}

\* The outputs of searches that a client may show.
ShownOutputs == [status : {"completed", "incomplete"}, tools : Seq(AllTools)]

IsRequest(r) ==
  /\ DOMAIN r = RequestFields
  /\ r.endpoint \in Endpoints
  /\ r.top \in Seq(AllTools) /\ r.additional \in Seq(AllTools) /\ r.outputs \in Seq(ShownOutputs)
  /\ r.choice \in ChoicesOf(r.endpoint) \cup {NoChoice}
  /\ r.parallel \in {Absent, "true", "false"} /\ (r.endpoint = "messages" => r.parallel = Absent)
  /\ r.effort \in Efforts(r.endpoint) \cup {Absent}
  /\ r.max_tokens \in Limits \cup {0}

\* What a step leaves: a request of the client's, converted.
RequestConverted ==
  /\ IsRequest(request)
  /\ request.endpoint = "responses" => toolSet = ResponsesToolSet(request)
  /\ sent = Conversion(request, toolSet)

\* A tool_choice as the two OpenAI conversions make it.
Made(c) ==
  /\ DOMAIN c = {"form", "type", "name", "disable"}
  /\ \/ c = NoChoice
     \/ /\ c.form = "object" /\ c.type \in {"auto", "none", "any", "tool"}
        /\ c.type = "tool" => c.name # NoName

\* c keeps the wish of the choice, or w says that it was given up.
Keeps(c, choice, w) ==
  \/ /\ Wish(c) = Wish(choice)
     /\ Wish(choice) = "named" => c.name = choice.name
     /\ w = {}
  \/ /\ Wish(c) = "free"
     /\ \E x \in w : x[1] = "choice"
     /\ \A x \in w : x[1] = "choice"

\* The tool_choice that a client of an OpenAI endpoint sends: a word, an object, or neither.
LEMMA ChoiceFields ==
  ASSUME NEW endpoint \in {"chat", "responses"}, NEW choice \in ChoicesOf(endpoint)
  PROVE  /\ choice.form \in {"string", "object", "other"}
         /\ choice.type \in {"auto", "none", "required", "any", "allowed_tools", "function", "custom", Absent}
         /\ choice # NoChoice
         /\ choice.form = "string" => choice.type \in {"auto", "none", "required", "any"}
         /\ choice.form = "other" => choice.type = Absent
BY DEF ChoicesOf, Word, Object, Unparsable, NoChoice, Absent

\* No tool_choice and an automatic one leave the model free.
LEMMA AutoIsFree == Wish(NoChoice) = "free" /\ Wish(Object("auto", NoName)) = "free"
<1>1. Wish(NoChoice) = "free"
  <2>1. \A c : c.form = "none" /\ c.type = "absent" => Wish(c) = "free"
    BY DEF Wish
  <2>2. NoChoice.form = "none" /\ NoChoice.type = "absent"
    BY DEF NoChoice, Absent
  <2> QED
    BY <2>1, <2>2
<1>2. Wish(Object("auto", NoName)) = "free"
  BY DEF Object, Wish
<1> QED
  BY <1>1, <1>2

\* The fallback of ToolChoice frees the choice and says so.
LEMMA FallbackKeeps ==
  ASSUME NEW choice
  PROVE  Made(Fallback.value) /\ Keeps(Fallback.value, choice, Fallback.warns) /\ Fallback.value.disable = Absent
<1>1. Fallback.value = Object("auto", NoName) /\ Fallback.warns = {<<"choice", "fallback">>}
  BY DEF Fallback, Outcome
<1>2. Object("auto", NoName).disable = Absent /\ Made(Object("auto", NoName))
  BY DEF Object, Made, Absent
<1>3. Wish(Object("auto", NoName)) = "free"
  BY DEF Object, Wish
<1> QED
  BY <1>1, <1>2, <1>3 DEF Keeps

\* chatToolChoice and responsesToolChoice keep what the choice means, or say that they gave it up.
LEMMA ToolChoiceKeeps ==
  ASSUME NEW endpoint \in {"chat", "responses"}, NEW choice \in ChoicesOf(endpoint) \cup {NoChoice},
         NEW hasTools \in BOOLEAN, NEW named, named \subseteq {"function", "custom"}
  PROVE  LET c == ToolChoice(choice, hasTools, named)
         IN /\ Made(c.value) /\ c.value.disable = Absent
            /\ Keeps(c.value, choice, c.warns)
<1> DEFINE c == ToolChoice(choice, hasTools, named)
<1>1. CASE choice = NoChoice
  <2>1. c.value = NoChoice /\ c.warns = {}
    BY <1>1 DEF ToolChoice, Outcome
  <2> QED
    BY <1>1, <2>1 DEF Made, Keeps, Wish, NoChoice, Absent
<1>2. CASE choice # NoChoice /\ ~hasTools
  <2>1. c.value = NoChoice /\ c.warns = {<<"choice", "ignored">>}
    BY <1>2 DEF ToolChoice, Outcome
  <2> QED
    BY <1>2, <2>1 DEF Made, Keeps, Wish, NoChoice, Absent
<1>3. CASE choice # NoChoice /\ hasTools
  <2>0. choice \in ChoicesOf(endpoint)
    BY <1>3
  <2>1. /\ choice.form \in {"string", "object", "other"}
        /\ choice.type \in {"auto", "none", "required", "any", "allowed_tools", "function", "custom", Absent}
        /\ choice.form = "string" => choice.type \in {"auto", "none", "required", "any"}
    BY <2>0, ChoiceFields
  <2> DEFINE some == \/ choice.type = "required"
                     \/ choice.type = "any" /\ choice.form = "object"
             tool == choice.form = "object" /\ choice.type \in named /\ choice.name # NoName
  <2>2. CASE choice.type \in {"auto", "none"}
    <3>1. c.value = Object(choice.type, NoName) /\ c.warns = {}
      BY <1>3, <2>2 DEF ToolChoice, Outcome
    <3> QED
      BY <2>1, <2>2, <3>1 DEF Made, Keeps, Wish, Object, Absent
  <2>3. CASE some
    <3>1. c.value = Object("any", NoName) /\ c.warns = {}
      BY <1>3, <2>3 DEF ToolChoice, Outcome
    <3> QED
      BY <2>1, <2>3, <3>1 DEF Made, Keeps, Wish, Object, Absent
  <2>4. CASE choice.type \notin {"auto", "none"} /\ ~some /\ tool
    <3>1. c.value = Object("tool", choice.name) /\ c.warns = {}
      BY <1>3, <2>4 DEF ToolChoice, Outcome
    <3>2. choice.type \in {"function", "custom"}
      BY <2>4
    <3> QED
      BY <2>4, <3>1, <3>2 DEF Made, Keeps, Wish, Object, Absent
  <2>5. CASE choice.type \notin {"auto", "none"} /\ ~some /\ ~tool
    <3>1. c = Fallback
      BY <1>3, <2>5 DEF ToolChoice
    <3> QED
      BY <3>1, FallbackKeeps
  <2> QED
    BY <2>2, <2>3, <2>4, <2>5
<1> QED
  BY <1>1, <1>2, <1>3

\* What the upstream's choice is of a choice that a conversion made.
LEMMA MadeConverts ==
  ASSUME NEW c, Made(c)
  PROVE  /\ ConvertToolChoice(c).warns = {}
         /\ ConvertToolChoice(c).value = c
<1>1. CASE c = NoChoice
  BY <1>1 DEF ConvertToolChoice, Outcome, NoChoice
<1>2. CASE c # NoChoice
  BY <1>2 DEF ConvertToolChoice, Outcome, Made
<1> QED
  BY <1>1, <1>2

\* chatApplyParallelToolCalls keeps the choice, and sets the flag where it does not say that it ignored it.
LEMMA ParallelKeeps ==
  ASSUME NEW choice, Made(choice), choice.disable = Absent, NEW parallel, NEW hasTools \in BOOLEAN
  PROVE  LET p == ApplyParallel(parallel, hasTools, choice)
             asked == parallel = "false"
         IN /\ Made(p.value) /\ Wish(p.value) = Wish(choice) /\ (Wish(choice) = "named" => p.value.name = choice.name)
            /\ p.warns \in {{}, {<<"parallel", "ignored">>}}
            /\ (p.value.disable = "true") <=> (asked /\ p.warns = {})
<1> DEFINE p == ApplyParallel(parallel, hasTools, choice)
<1>1. CASE parallel # "false"
  BY <1>1 DEF ApplyParallel, Outcome, Absent
<1>2. CASE parallel = "false" /\ ~hasTools
  BY <1>2 DEF ApplyParallel, Outcome, Absent
<1>3. CASE parallel = "false" /\ hasTools
  <2> DEFINE present == IF choice = NoChoice THEN Object("auto", NoName) ELSE choice
             q == [present EXCEPT !.disable = "true"]
  <2>1. p.value = q /\ p.warns = {}
    BY <1>3 DEF ApplyParallel, Outcome
  <2>2. DOMAIN present = {"form", "type", "name", "disable"} /\ present.form = "object"
        /\ present.type \in {"auto", "none", "any", "tool"} /\ (present.type = "tool" => present.name # NoName)
    BY DEF Made, Object
  <2>3. Wish(present) = Wish(choice) /\ (Wish(choice) = "named" => present.name = choice.name)
    <3>1. CASE choice = NoChoice
      <4>1. Wish(NoChoice) = "free" /\ Wish(Object("auto", NoName)) = "free"
        BY AutoIsFree
      <4>2. present = Object("auto", NoName)
        BY <3>1
      <4> HIDE DEF present
      <4> QED
        BY <3>1, <4>1, <4>2
    <3>2. CASE choice # NoChoice
      <4>1. present = choice
        BY <3>2
      <4> HIDE DEF present
      <4> QED
        BY <4>1
    <3> QED
      BY <3>1, <3>2
  <2> HIDE DEF present
  <2>5. /\ DOMAIN q = {"form", "type", "name", "disable"}
        /\ q.form = present.form /\ q.type = present.type /\ q.name = present.name
        /\ q.disable = "true"
    BY <2>2
  <2> HIDE DEF q
  <2>6. Wish(q) = Wish(present)
    BY <2>5 DEF Wish
  <2>7. Made(q)
    BY <2>2, <2>5 DEF Made
  <2> QED
    BY <1>3, <2>1, <2>3, <2>5, <2>6, <2>7
<1> QED
  BY <1>1, <1>2, <1>3

---------------------------------------------------------------------------
\* What is said of the declarations, and of the settings.
OfTools(W) == \A w \in W : w[1] \in {"dropped", "declared", "replaced", "notPromoted"}

Only(W, field) == \A w \in W : w[1] = field
Says(W, field) == \E w \in W : w[1] = field

Asked(r) == IF r.endpoint = "messages" THEN r.choice.disable = "true" ELSE r.parallel = "false"
Deep(r)  == r.effort \notin {Absent, "none", "disabled", "budget0"}

\* SettingsHonoured, of any request and what became of it.
ChoiceHonoured(r, c, W) ==
  /\ \/ Says(W, "choice")
     \/ /\ Wish(c) = Wish(r.choice)
        /\ Wish(r.choice) = "named" => c.name = r.choice.name
  /\ Wish(c) \in {"free", Wish(r.choice)}
  /\ (c.disable = "true") <=> (Asked(r) /\ ~Says(W, "parallel"))

EffortHonoured(r, effort, W) == (effort # Absent \/ Says(W, "effort")) <=> Deep(r)

LimitHonoured(r, n, W) ==
  /\ n \in 1..CeilingTokens
  /\ r.max_tokens \in {0, n} \/ Says(W, "max_tokens")

Apart(W, C, P, E, M) ==
  /\ Says(W, "choice") <=> C # {}
  /\ Says(W, "parallel") <=> P # {}
  /\ Says(W, "effort") <=> E # {}
  /\ Says(W, "max_tokens") <=> M # {}

\* Of four sets of warnings each is about fields of its own.
LEMMA WarningsApart ==
  ASSUME NEW W, OfTools(W),
         NEW C, Only(C, "choice"),
         NEW P, Only(P, "parallel"),
         NEW E, Only(E, "effort"),
         NEW M, Only(M, "max_tokens")
  PROVE  Apart(W \cup C \cup P \cup E \cup M, C, P, E, M)
BY DEF Says, Only, OfTools, Apart

\* What convertTools says is about tools.
LEMMA ConvertedToolsWarn == \A tools : OfTools(ConvertTools(tools).warns)
BY DEF ConvertTools, Outcome, OfTools

\* A limit that is sent is legal, and the client's own or told to be clamped.
LEMMA MaxTokensBounded ==
  ASSUME NEW n \in Limits \cup {0}
  PROVE  LET m == MaxTokens(n)
         IN /\ m.value \in 1..CeilingTokens
            /\ n \in {0, m.value} \/ m.warns # {}
            /\ Only(m.warns, "max_tokens")
<1>1. CeilingTokens \in Nat /\ DefaultTokens \in 1..CeilingTokens
  BY SMT DEF CeilingTokens, DefaultTokens
<1>2. n \in {0, 1, CeilingTokens, CeilingTokens + 1}
  BY DEF Limits
<1> DEFINE m == MaxTokens(n)
<1>3. /\ m.value = (IF n <= 0 THEN DefaultTokens ELSE IF n > CeilingTokens THEN CeilingTokens ELSE n)
      /\ m.warns = (IF n > CeilingTokens THEN {<<"max_tokens", "clamped">>} ELSE {})
  BY DEF MaxTokens, Outcome
<1> HIDE DEF m
<1>4. m.value \in 1..CeilingTokens
  BY <1>1, <1>2, <1>3
<1>5. n \in {0, m.value} \/ m.warns # {}
  <2>1. CASE n = 0
    BY <2>1
  <2>2. CASE n \in {1, CeilingTokens}
    <3>1. ~(n <= 0) /\ ~(n > CeilingTokens)
      BY <1>1, <2>2
    <3> QED
      BY <1>3, <3>1
  <2>3. CASE n = CeilingTokens + 1
    <3>1. n > CeilingTokens
      BY <1>1, <2>3
    <3> QED
      BY <1>3, <3>1
  <2> QED
    BY <1>2, <2>1, <2>2, <2>3
<1>6. Only(m.warns, "max_tokens")
  BY <1>3 DEF Only
<1> QED
  BY <1>4, <1>5, <1>6 DEF m

\* Thinking is on exactly if the client asked for it, or its effort was told to be unknown.
LEMMA EffortIs ==
  ASSUME NEW effort \in {"none", "minimal", "low", "high", "unknown", Absent}
  PROVE  LET e == ReasoningEffort(effort)
         IN /\ Only(e.warns, "effort")
            /\ (ThinkingEffort(e.value) # Absent \/ e.warns # {}) <=> effort \notin {Absent, "none"}
<1> DEFINE e == ReasoningEffort(effort)
<1>1. ThinkingEffort(Absent) = Absent /\ ThinkingEffort("low") # Absent /\ ThinkingEffort("high") # Absent
  BY DEF ThinkingEffort, Absent
<1>2. CASE effort \in {Absent, "none"}
  BY <1>1, <1>2 DEF ReasoningEffort, Outcome, Absent, Only
<1>3. CASE effort \in {"low", "high"}
  BY <1>1, <1>3 DEF ReasoningEffort, Outcome, Absent, Only
<1>4. CASE effort = "minimal"
  BY <1>1, <1>4 DEF ReasoningEffort, Outcome, Absent, Only
<1>5. CASE effort = "unknown"
  <2>1. e.value = Absent /\ e.warns = {<<"effort", "unknown">>}
    BY <1>5 DEF ReasoningEffort, Outcome, Absent, Only
  <2> HIDE DEF e
  <2>2. effort \notin {Absent, "none"}
    BY <1>5 DEF Absent
  <2>3. e.warns # {} /\ Only(e.warns, "effort")
    BY <2>1 DEF Only
  <2> QED
    BY <2>2, <2>3 DEF e
<1> QED
  BY <1>2, <1>3, <1>4, <1>5

\* The parts of what BuildCcRequest makes.
LEMMA CcParamsIs ==
  ASSUME NEW tools, NEW choice, NEW effort, NEW n, NEW told
  PROVE  LET s == CcParams(tools, choice, effort, n, told)
         IN /\ s.refused = None
            /\ s.choice = ConvertToolChoice(choice).value
            /\ s.effort = ThinkingEffort(effort)
            /\ s.max_tokens = MaxTokens(n).value
            /\ s.tools = ConvertTools(tools).value
            /\ s.warns = ((told \cup ConvertTools(tools).warns) \cup ConvertToolChoice(choice).warns)
                           \cup MaxTokens(n).warns
BY DEF CcParams

\* The settings of a Chat or Responses request are honoured, whatever its tools are.
LEMMA OpenAIHonours ==
  ASSUME NEW r, IsRequest(r), r.endpoint # "messages",
         NEW tools, NEW named, named \subseteq {"function", "custom"}, NEW told, OfTools(told)
  PROVE  LET s == OpenAIRequest(r, tools, named, told)
         IN ChoiceHonoured(r, s.choice, s.warns) /\ EffortHonoured(r, s.effort, s.warns)
              /\ LimitHonoured(r, s.max_tokens, s.warns)
<1> DEFINE hasTools == tools # <<>>
           choice   == ToolChoice(r.choice, hasTools, named)
           merged   == ApplyParallel(r.parallel, hasTools, choice.value)
           effort   == ReasoningEffort(r.effort)
           said     == ((told \cup choice.warns) \cup merged.warns) \cup effort.warns
           m        == MaxTokens(r.max_tokens)
           s        == CcParams(tools, merged.value, effort.value, r.max_tokens, said)
<1>1. OpenAIRequest(r, tools, named, told) = s
  BY DEF OpenAIRequest
<1>2. /\ Made(choice.value) /\ choice.value.disable = Absent
      /\ Keeps(choice.value, r.choice, choice.warns)
  <2>1. r.endpoint \in {"chat", "responses"} /\ r.choice \in ChoicesOf(r.endpoint) \cup {NoChoice}
    BY DEF IsRequest, Endpoints
  <2>2. hasTools \in BOOLEAN
    OBVIOUS
  <2> QED
    BY ONLY <2>1, <2>2, named \subseteq {"function", "custom"}, ToolChoiceKeeps
<1> HIDE DEF hasTools, choice
<1>3. /\ Made(merged.value) /\ Wish(merged.value) = Wish(choice.value)
      /\ Wish(choice.value) = "named" => merged.value.name = choice.value.name
      /\ merged.warns \in {{}, {<<"parallel", "ignored">>}}
      /\ (merged.value.disable = "true") <=> (r.parallel = "false" /\ merged.warns = {})
  <2>1. hasTools \in BOOLEAN
    BY DEF hasTools
  <2> QED
    BY ONLY <1>2, <2>1, ParallelKeeps
<1> HIDE DEF merged
<1>4. r.effort \in {"none", "minimal", "low", "high", "unknown", Absent}
  BY DEF IsRequest, Efforts, Endpoints
<1>5. /\ Only(effort.warns, "effort")
      /\ (ThinkingEffort(effort.value) # Absent \/ effort.warns # {}) <=> r.effort \notin {Absent, "none"}
  BY <1>4, EffortIs
<1>6. /\ m.value \in 1..CeilingTokens
      /\ r.max_tokens \in {0, m.value} \/ m.warns # {}
      /\ Only(m.warns, "max_tokens")
  <2>1. r.max_tokens \in Limits \cup {0}
    BY DEF IsRequest
  <2> QED
    BY <2>1, MaxTokensBounded
<1> HIDE DEF effort, m
<1>7. /\ s.choice = merged.value /\ s.effort = ThinkingEffort(effort.value) /\ s.max_tokens = m.value
      /\ s.warns = ((said \cup ConvertTools(tools).warns) \cup {}) \cup m.warns
  BY <1>3, CcParamsIs, MadeConverts DEF m
<1> HIDE DEF s
<1>8. /\ Says(s.warns, "choice") <=> choice.warns # {}
      /\ Says(s.warns, "parallel") <=> merged.warns # {}
      /\ Says(s.warns, "effort") <=> effort.warns # {}
      /\ Says(s.warns, "max_tokens") <=> m.warns # {}
  <2>1. OfTools(told \cup ConvertTools(tools).warns)
    BY ConvertedToolsWarn DEF OfTools
  <2>2. Only(choice.warns, "choice")
    BY <1>2 DEF Keeps, Only
  <2>3. Only(merged.warns, "parallel")
    BY <1>3 DEF Only
  <2>4. s.warns = (told \cup ConvertTools(tools).warns) \cup choice.warns \cup merged.warns \cup effort.warns \cup m.warns
    BY <1>7
  <2> QED
    <3> DEFINE W == told \cup ConvertTools(tools).warns
    <3>1. OfTools(W) /\ s.warns = W \cup choice.warns \cup merged.warns \cup effort.warns \cup m.warns
      BY <2>1, <2>4
    <3> HIDE DEF W
    <3>2. /\ OfTools(W)
          /\ Only(choice.warns, "choice")
          /\ Only(merged.warns, "parallel")
          /\ Only(effort.warns, "effort")
          /\ Only(m.warns, "max_tokens")
      BY <2>2, <2>3, <3>1, <1>5, <1>6
    <3>3. Apart(W \cup choice.warns \cup merged.warns \cup effort.warns \cup m.warns,
                choice.warns, merged.warns, effort.warns, m.warns)
      BY ONLY <3>2, WarningsApart
    <3> QED
      BY <3>1, <3>3 DEF Apart
<1>9. ChoiceHonoured(r, s.choice, s.warns)
  <2>1. Asked(r) <=> r.parallel = "false"
    BY DEF Asked
  <2>2. \/ Says(s.warns, "choice")
        \/ /\ Wish(s.choice) = Wish(r.choice)
           /\ Wish(r.choice) = "named" => s.choice.name = r.choice.name
    BY <1>2, <1>3, <1>7, <1>8 DEF Keeps
  <2>3. Wish(s.choice) \in {"free", Wish(r.choice)}
    BY <1>2, <1>3, <1>7 DEF Keeps
  <2>4. (s.choice.disable = "true") <=> (Asked(r) /\ ~Says(s.warns, "parallel"))
    BY <1>3, <1>7, <1>8, <2>1
  <2> QED
    BY <2>2, <2>3, <2>4 DEF ChoiceHonoured
<1>10. EffortHonoured(r, s.effort, s.warns)
  <2>1. Deep(r) <=> r.effort \notin {Absent, "none"}
    BY <1>4 DEF Deep, Absent
  <2> QED
    BY <1>5, <1>7, <1>8, <2>1 DEF EffortHonoured
<1>11. LimitHonoured(r, s.max_tokens, s.warns)
  BY <1>6, <1>7, <1>8 DEF LimitHonoured
<1> QED
  BY <1>1, <1>9, <1>10, <1>11

---------------------------------------------------------------------------
(* The tools of a Responses request. *)

ToolSetFields == {"tools", "search", "custom", "namespace", "toolSearch", "error", "warns"}

IsToolSet(set) == DOMAIN set = ToolSetFields /\ IsSequence(set.tools)

\* The leaf l made a tool, and its marks are those that its calls are told by.
Marked(set, l) ==
  /\ l.type = "custom" => l.flat \in set.custom
  /\ l.namespace # NoName => l.flat \in DOMAIN set.namespace
  /\ l.type = "tool_search" => set.search

NamesOnce(tools) == \A j, k \in 1..Len(tools) : tools[j].name = tools[k].name => j = k

SearchTool == [name |-> SearchName, schema |-> SearchSchema]
HasProxy(tools) == \E k \in 1..Len(tools) : tools[k] = SearchTool

\* The set has the tools of the leaves L and no others, and every mark in it is
\* that of a leaf.
Fine(set, L) ==
  /\ NamesOnce(set.tools)
  /\ \A l \in L : \E k \in 1..Len(set.tools) : set.tools[k] = AsTool(l)
  /\ \A k \in 1..Len(set.tools) : \E l \in L : set.tools[k] = AsTool(l) /\ Marked(set, l)
  /\ \A n \in set.custom : \E l \in L : l.type = "custom" /\ l.flat = n
  /\ \A n \in DOMAIN set.namespace :
       \E l \in L : /\ l.flat = n /\ l.namespace # NoName /\ l.type \in {"function", "custom"}
                    /\ set.namespace[n] = [namespace |-> l.namespace, name |-> l.name]
  /\ set.search => HasProxy(set.tools)

\* The tool that a leaf makes.
LEMMA ToolFields == \A l : AsTool(l).name = l.flat /\ AsTool(l).schema = l.schema
BY DEF AsTool

\* The names of a set, by position.
LEMMA HasIs ==
  ASSUME NEW set, IsToolSet(set), NEW name
  PROVE  Has(set, name) <=> \E k \in 1..Len(set.tools) : set.tools[k].name = name
<1>1. DOMAIN set.tools = 1..Len(set.tools)
  BY DEF IsToolSet, IsSequence
<1> QED
  BY <1>1 DEF Has

\* A set has the same declaration as that of a leaf if it has the leaf's tool.
LEMMA HasSameIs ==
  ASSUME NEW set, IsToolSet(set), NEW l, NEW schema, l.schema = NormalizeSchema(schema)
  PROVE  HasSame(set, l.flat, schema) <=> \E k \in 1..Len(set.tools) : set.tools[k] = AsTool(l)
<1>1. DOMAIN set.tools = 1..Len(set.tools)
  BY DEF IsToolSet, IsSequence
<1> QED
  BY <1>1 DEF HasSame, ToSet, AsTool

\* add, for the tool of the leaf l: what it leaves, what it gives, and why it fails.
AddKeeps(set, next) ==
  /\ IsToolSet(next)
  /\ next.search = set.search /\ next.custom = set.custom /\ next.namespace = set.namespace
  /\ next.toolSearch = set.toolSearch
  /\ set.warns \subseteq next.warns
  /\ \A w \in next.warns \ set.warns : w[1] = "replaced"

\* add changes tools, the error and the warnings, of which it takes none back.
LEMMA AddLeaves ==
  ASSUME NEW set, IsToolSet(set), NEW name, NEW schema, NEW dedupe
  PROVE  AddKeeps(set, Add(set, name, schema, dedupe))
<1> DEFINE next == Add(set, name, schema, dedupe)
           t == [name |-> name, schema |-> NormalizeSchema(schema)]
           W == IF schema = NormalizeSchema(schema) THEN set.warns ELSE set.warns \cup {<<"replaced", name>>}
<1>1. CASE ~Has(set, name)
  <2>1. next = [set EXCEPT !.tools = Append(set.tools, t), !.warns = W]
    BY <1>1 DEF Add
  <2>2. IsSequence(Append(set.tools, t))
    BY Appended DEF IsToolSet
  <2>3. set.warns \subseteq W /\ \A w \in W \ set.warns : w[1] = "replaced"
    OBVIOUS
  <2> HIDE DEF next, t, W
  <2> QED
    BY <2>1, <2>2, <2>3 DEF IsToolSet, AddKeeps, ToolSetFields, next
<1>2. CASE Has(set, name) /\ dedupe /\ HasSame(set, name, schema)
  <2>1. next = set
    BY <1>2 DEF Add
  <2> QED
    BY <2>1 DEF AddKeeps
<1>3. CASE Has(set, name) /\ ~(dedupe /\ HasSame(set, name, schema))
  <2>1. next = [set EXCEPT !.error = IF name = SearchName THEN "reserved" ELSE "duplicate"]
    BY <1>3 DEF Add
  <2> HIDE DEF next
  <2> QED
    BY <2>1 DEF IsToolSet, AddKeeps, ToolSetFields, next
<1> QED
  BY <1>1, <1>2, <1>3

\* The tool of l is in the set, new or as it was.
Accepted(set, next, l) ==
  /\ next.error = None
  /\ \/ next.tools = Append(set.tools, AsTool(l)) /\ ~Has(set, l.flat)
     \/ next.tools = set.tools /\ \E k \in 1..Len(set.tools) : set.tools[k] = AsTool(l)

Rejected(set, next, l, L, dedupe) ==
  /\ next.error # None
  /\ \/ \E m \in L : m # l /\ m.flat = l.flat
     \/ ~dedupe /\ l \in L /\ Marked(set, l)

\* add puts the leaf's tool in the set, finds it there, or fails for a name of another leaf or a repetition.
LEMMA AddOutcome ==
  ASSUME NEW set, IsToolSet(set), set.error = None, NEW L, Fine(set, L),
         NEW l, NEW schema, l.schema = NormalizeSchema(schema), NEW dedupe \in BOOLEAN
  PROVE  LET next == Add(set, l.flat, schema, dedupe)
         IN Accepted(set, next, l) \/ Rejected(set, next, l, L, dedupe)
<1> DEFINE next == Add(set, l.flat, schema, dedupe)
           W == IF schema = NormalizeSchema(schema) THEN set.warns ELSE set.warns \cup {<<"replaced", l.flat>>}
<1>1. CASE ~Has(set, l.flat)
  <2>1. next = [set EXCEPT !.tools = Append(set.tools, AsTool(l)), !.warns = W]
    BY <1>1 DEF Add, AsTool
  <2> HIDE DEF W
  <2>2. next.tools = Append(set.tools, AsTool(l)) /\ next.error = None
    BY <2>1 DEF IsToolSet, ToolSetFields
  <2> QED
    BY <1>1, <2>2 DEF Accepted
<1>2. CASE Has(set, l.flat) /\ dedupe /\ HasSame(set, l.flat, schema)
  <2>1. next = set
    BY <1>2 DEF Add
  <2> QED
    BY <1>2, <2>1, HasSameIs DEF Accepted
<1>3. CASE Has(set, l.flat) /\ ~(dedupe /\ HasSame(set, l.flat, schema))
  <2>1. next = [set EXCEPT !.error = IF l.flat = SearchName THEN "reserved" ELSE "duplicate"]
    BY <1>3 DEF Add
  <2>2. next.error # None
    BY <2>1 DEF IsToolSet, ToolSetFields, None
  <2>3. PICK k \in 1..Len(set.tools) : set.tools[k].name = l.flat
    BY <1>3, HasIs
  <2>4. PICK m \in L : set.tools[k] = AsTool(m) /\ Marked(set, m)
    BY DEF Fine
  <2>5. m.flat = l.flat
    BY <2>3, <2>4, ToolFields
  <2>6. CASE m # l
    BY <2>2, <2>5, <2>6 DEF Rejected
  <2>7. CASE m = l
    <3>1. HasSame(set, l.flat, schema)
      BY <2>4, <2>7, HasSameIs
    <3> QED
      BY <1>3, <2>2, <2>4, <2>7, <3>1 DEF Rejected
  <2> QED
    BY <2>6, <2>7
<1> QED
  BY <1>1, <1>2, <1>3

\* The tools and marks of fin are those of set and those of l.
AddsTool(set, fin, l) ==
  \/ fin.tools = Append(set.tools, AsTool(l)) /\ ~Has(set, l.flat)
  \/ fin.tools = set.tools /\ \E k \in 1..Len(set.tools) : set.tools[k] = AsTool(l)

SpaceMark(l) == [namespace |-> l.namespace, name |-> l.name]

AddsMarks(set, fin, l) ==
  /\ fin.search <=> (set.search \/ l.type = "tool_search")
  /\ fin.custom = IF l.type = "custom" THEN set.custom \cup {l.flat} ELSE set.custom
  /\ fin.namespace =
       IF l.namespace # NoName
       THEN [n \in DOMAIN set.namespace \cup {l.flat} |->
               IF n = l.flat THEN SpaceMark(l) ELSE set.namespace[n]]
       ELSE set.namespace

\* Adding marks takes no mark from a leaf that has its own.
LEMMA MarksGrow ==
  ASSUME NEW set, NEW fin, NEW l, AddsMarks(set, fin, l), NEW m, Marked(set, m)
  PROVE  Marked(fin, m)
<1>1. set.custom \subseteq fin.custom
  BY DEF AddsMarks
<1>2. DOMAIN set.namespace \subseteq DOMAIN fin.namespace
  BY DEF AddsMarks
<1>3. set.search => fin.search
  BY DEF AddsMarks
<1> QED
  BY <1>1, <1>2, <1>3 DEF Marked

\* A leaf has the marks that are added for it.
LEMMA OwnMarks ==
  ASSUME NEW set, NEW fin, NEW l, AddsMarks(set, fin, l)
  PROVE  Marked(fin, l)
<1>1. l.type = "custom" => l.flat \in fin.custom
  BY DEF AddsMarks
<1>2. l.namespace # NoName => l.flat \in DOMAIN fin.namespace
  BY DEF AddsMarks
<1>3. l.type = "tool_search" => fin.search
  BY DEF AddsMarks
<1> QED
  BY <1>1, <1>2, <1>3 DEF Marked

\* A tool whose name is new leaves all names different.
LEMMA NamesStayOnce ==
  ASSUME NEW set, IsToolSet(set), NamesOnce(set.tools), NEW l, ~Has(set, l.flat)
  PROVE  NamesOnce(Append(set.tools, AsTool(l)))
<1> DEFINE s == set.tools
           t == Append(s, AsTool(l))
           n == Len(s)
<1>1. /\ Len(t) = n + 1 /\ t[n + 1] = AsTool(l) /\ \A i \in 1..n : t[i] = s[i]
      /\ n \in Nat
  BY Appended, SequenceLen DEF IsToolSet
<1>2. \A i \in 1..n : s[i].name # l.flat
  BY HasIs
<1> HIDE DEF t, n
<1> SUFFICES ASSUME NEW j \in 1..Len(t), NEW k \in 1..Len(t), t[j].name = t[k].name PROVE j = k
  BY DEF NamesOnce, t
<1>3. CASE j \in 1..n /\ k \in 1..n
  <2>1. t[j] = s[j] /\ t[k] = s[k]
    BY <1>1, <1>3
  <2> QED
    BY <1>3, <2>1 DEF NamesOnce, n
<1>4. CASE j = n + 1 /\ k \in 1..n
  BY <1>1, <1>2, <1>4, ToolFields
<1>5. CASE k = n + 1 /\ j \in 1..n
  BY <1>1, <1>2, <1>5, ToolFields
<1>6. CASE j = n + 1 /\ k = n + 1
  BY <1>6
<1>7. \A i \in 1..Len(t) : i \in 1..n \/ i = n + 1
  BY <1>1
<1> QED
  BY <1>3, <1>4, <1>5, <1>6, <1>7

\* A set of the leaves L that gets the tool and the marks of l is one of L and l.
LEMMA LeafAdded ==
  ASSUME NEW set, IsToolSet(set), NEW L, Fine(set, L), NEW l, NEW fin,
         AddsTool(set, fin, l), AddsMarks(set, fin, l),
         l.namespace # NoName => l.type \in {"function", "custom"},
         l.type = "tool_search" => AsTool(l) = SearchTool
  PROVE  Fine(fin, L \cup {l})
<1> DEFINE n == Len(set.tools)
<1>1. n \in Nat
  BY SequenceLen DEF IsToolSet
<1>2. \/ /\ fin.tools = Append(set.tools, AsTool(l)) /\ ~Has(set, l.flat)
         /\ Len(fin.tools) = n + 1 /\ fin.tools[n + 1] = AsTool(l)
         /\ \A i \in 1..n : fin.tools[i] = set.tools[i]
      \/ fin.tools = set.tools /\ \E k \in 1..n : set.tools[k] = AsTool(l)
  <2>1. CASE fin.tools = Append(set.tools, AsTool(l)) /\ ~Has(set, l.flat)
    BY <2>1, Appended DEF IsToolSet
  <2> QED
    BY <2>1 DEF AddsTool
<1>3. NamesOnce(fin.tools)
  <2>1. NamesOnce(set.tools)
    BY DEF Fine
  <2> QED
    BY <1>2, <2>1, NamesStayOnce
<1>4. \A m \in L \cup {l} : \E k \in 1..Len(fin.tools) : fin.tools[k] = AsTool(m)
  <2>1. \A m \in L : \E k \in 1..n : set.tools[k] = AsTool(m)
    BY DEF Fine
  <2> QED
    BY <1>1, <1>2, <2>1
<1>5. \A k \in 1..Len(fin.tools) : \E m \in L \cup {l} : fin.tools[k] = AsTool(m) /\ Marked(fin, m)
  <2>1. \A k \in 1..n : \E m \in L : set.tools[k] = AsTool(m) /\ Marked(fin, m)
    BY MarksGrow DEF Fine
  <2>2. Marked(fin, l)
    BY OwnMarks
  <2> QED
    BY <1>1, <1>2, <2>1, <2>2
<1>6. \A x \in fin.custom : \E m \in L \cup {l} : m.type = "custom" /\ m.flat = x
  <2>1. \A x \in set.custom : \E m \in L : m.type = "custom" /\ m.flat = x
    BY DEF Fine
  <2> QED
    BY <2>1 DEF AddsMarks
<1>7. ASSUME NEW x \in DOMAIN fin.namespace
      PROVE  \E m \in L \cup {l} :
               /\ m.flat = x /\ m.namespace # NoName /\ m.type \in {"function", "custom"}
               /\ fin.namespace[x] = SpaceMark(m)
  <2>1. CASE l.namespace # NoName /\ x = l.flat
    <3>1. fin.namespace[x] = SpaceMark(l)
      BY <2>1 DEF AddsMarks
    <3> QED
      BY <2>1, <3>1
  <2>2. CASE ~(l.namespace # NoName /\ x = l.flat)
    <3>1. x \in DOMAIN set.namespace /\ fin.namespace[x] = set.namespace[x]
      BY <1>7, <2>2 DEF AddsMarks
    <3> QED
      BY <3>1 DEF Fine, SpaceMark
  <2> QED
    BY <2>1, <2>2
<1>8. fin.search => HasProxy(fin.tools)
  <2>1. CASE l.type = "tool_search"
    <3>1. \E k \in 1..Len(fin.tools) : fin.tools[k] = AsTool(l)
      BY <1>4
    <3> QED
      BY <2>1, <3>1 DEF HasProxy
  <2>2. CASE l.type # "tool_search"
    <3>1. fin.search => HasProxy(set.tools)
      BY <2>2 DEF AddsMarks, Fine
    <3> QED
      BY <1>1, <1>2, <3>1 DEF HasProxy
  <2> QED
    BY <2>1, <2>2
<1> QED
  BY <1>3, <1>4, <1>5, <1>6, <1>7, <1>8 DEF Fine, SpaceMark

\* A leaf whose tool is there adds nothing, and what a leaf has does not change
\* with what is said.
LEMMA LeafThere ==
  ASSUME NEW set, NEW L, Fine(set, L), NEW l, \E k \in 1..Len(set.tools) : set.tools[k] = AsTool(l)
  PROVE  Fine(set, L \cup {l})
BY DEF Fine

\* Saying something changes nothing of this.
LEMMA OnlySaid ==
  ASSUME NEW set, NEW L, Fine(set, L), NEW fin, fin.tools = set.tools, fin.custom = set.custom,
         fin.namespace = set.namespace, fin.search <=> set.search
  PROVE  Fine(fin, L)
BY DEF Fine, Marked

\* Why a request may be refused.
Excused(top, All) == Clash(All) \/ DeclaredTwice(top)

SaidOf(set, U) == \A u \in U : <<"dropped", u>> \in set.warns

\* Where the conversion of the tools stands, after the leaves L and the unusable
\* declarations U: the set is theirs, or the request is refused for a reason.
Standing(set, ts, L, U, top, All) ==
  /\ IsToolSet(set) /\ set.toolSearch = ts /\ OfTools(set.warns)
  /\ set.error = None => Fine(set, L) /\ SaidOf(set, U)
  /\ set.error # None => Excused(top, All)

\* fin is what the caller of add makes of its outcome.
MarksOf(added, fin, l) ==
  /\ IsToolSet(fin)
  /\ fin.tools = added.tools /\ fin.error = added.error
  /\ fin.toolSearch = added.toolSearch /\ fin.warns = added.warns
  /\ added.error = None => AddsMarks(added, fin, l)

\* What Standing says of a set without an error.
LEMMA Stands ==
  ASSUME NEW set, NEW ts, NEW L, NEW U, NEW top, NEW All, Standing(set, ts, L, U, top, All)
  PROVE  IsToolSet(set) /\ (set.error = None => Fine(set, L))
BY DEF Standing

\* add says nothing but what is about tools, and forgets nothing.
LEMMA WarnsOfAdd ==
  ASSUME NEW set, OfTools(set.warns), NEW next, AddKeeps(set, next)
  PROVE  OfTools(next.warns) /\ \A U : SaidOf(set, U) => SaidOf(next, U)
BY DEF AddKeeps, OfTools, SaidOf

\* A failure of add has one of the reasons that the property admits.
LEMMA RejectedExcused ==
  ASSUME NEW set, NEW next, NEW l, NEW L, NEW dedupe \in BOOLEAN, Rejected(set, next, l, L, dedupe),
         NEW top, NEW All, L \subseteq All, l \in All,
         ~dedupe /\ l \in L /\ Marked(set, l) => Excused(top, All)
  PROVE  Excused(top, All)
<1>1. CASE \E m \in L : m # l /\ m.flat = l.flat
  BY <1>1 DEF Excused, Clash
<1>2. CASE ~dedupe /\ l \in L /\ Marked(set, l)
  BY <1>2
<1> QED
  BY <1>1, <1>2 DEF Rejected

\* The form of a leaf that its marks rely on.
LeafForm(l) ==
  /\ l.namespace # NoName => l.type \in {"function", "custom"}
  /\ l.type = "tool_search" => AsTool(l) = SearchTool

\* add, with the marks that its caller makes, brings the conversion past the leaf l.
LEMMA LeafDeclared ==
  ASSUME NEW set, NEW ts, NEW L, NEW U, NEW top, NEW All, Standing(set, ts, L, U, top, All),
         set.error = None, L \subseteq All, NEW l \in All, LeafForm(l), NEW dedupe \in BOOLEAN,
         ~dedupe /\ l \in L /\ Marked(set, l) => Excused(top, All),
         NEW schema, l.schema = NormalizeSchema(schema),
         NEW fin, MarksOf(Add(set, l.flat, schema, dedupe), fin, l)
  PROVE  Standing(fin, ts, L \cup {l}, U, top, All)
<1> DEFINE added == Add(set, l.flat, schema, dedupe)
<1>1. AddKeeps(set, added) /\ IsToolSet(set) /\ Fine(set, L) /\ OfTools(set.warns)
  BY Stands, AddLeaves DEF Standing
<1>2. Accepted(set, added, l) \/ Rejected(set, added, l, L, dedupe)
  BY <1>1, AddOutcome
<1> HIDE DEF added
<1>3. MarksOf(added, fin, l)
  BY DEF added
<1>4. OfTools(fin.warns) /\ (SaidOf(set, U) => SaidOf(fin, U))
  <2>1. OfTools(added.warns) /\ (SaidOf(set, U) => SaidOf(added, U))
    BY <1>1, WarnsOfAdd
  <2> QED
    BY <1>3, <2>1 DEF MarksOf, SaidOf
<1>5. IsToolSet(fin) /\ fin.toolSearch = ts
  BY <1>1, <1>3 DEF MarksOf, AddKeeps, Standing
<1>6. CASE Accepted(set, added, l)
  <2>1. added.error = None /\ fin.error = None
    BY <1>3, <1>6 DEF Accepted, MarksOf
  <2>2. AddsTool(set, fin, l)
    BY <1>3, <1>6 DEF Accepted, AddsTool, MarksOf
  <2>3. AddsMarks(added, fin, l)
    BY <1>3, <2>1 DEF MarksOf
  <2>4. AddsMarks(set, fin, l)
    BY <1>1, <2>3 DEF AddKeeps, AddsMarks
  <2>5. Fine(fin, L \cup {l})
    BY <1>1, <2>2, <2>4, LeafAdded DEF LeafForm
  <2>6. SaidOf(fin, U)
    BY <1>4 DEF Standing
  <2> QED
    BY <1>4, <1>5, <2>1, <2>5, <2>6 DEF Standing
<1>7. CASE Rejected(set, added, l, L, dedupe)
  <2>1. fin.error # None
    BY <1>3, <1>7 DEF Rejected, MarksOf
  <2>2. Excused(top, All)
    BY <1>7, RejectedExcused
  <2> QED
    BY <1>4, <1>5, <2>1, <2>2 DEF Standing
<1> QED
  BY <1>2, <1>6, <1>7

\* The schemas that are normalized, and the proxy's own, stay as they are.
LEMMA NormalSchemas ==
  /\ \A s : NormalizeSchema(NormalizeSchema(s)) = NormalizeSchema(s)
  /\ NormalizeSchema(CustomSchema) = CustomSchema /\ NormalizeSchema(SearchSchema) = SearchSchema
BY DEF NormalizeSchema, CustomSchema, SearchSchema

\* Leaves of functions, of free-text tools and of the proxy tool.
LEMMA FunctionLeaf ==
  ASSUME NEW tool, NEW ns, tool.type = "function"
  PROVE  LET l == Leaf(tool, ns)
         IN /\ l.type = "function" /\ l.namespace = ns /\ l.name = tool.name
            /\ l.flat = Flatten(ns, tool.name) /\ l.schema = NormalizeSchema(tool.schema)
BY DEF Leaf

\* The leaf of a free-text tool.
LEMMA CustomLeaf ==
  ASSUME NEW tool, NEW ns, tool.type = "custom"
  PROVE  LET l == Leaf(tool, ns)
         IN /\ l.type = "custom" /\ l.namespace = ns /\ l.name = tool.name
            /\ l.flat = Flatten(ns, tool.name) /\ l.schema = CustomSchema
BY DEF Leaf

\* The leaf of the proxy's tool.
LEMMA SearchLeaf ==
  ASSUME NEW tool, NEW ns, tool.type = "tool_search"
  PROVE  LET l == Leaf(tool, ns)
         IN /\ l.type = "tool_search" /\ l.namespace = ns
            /\ l.flat = SearchName /\ l.schema = SearchSchema
BY DEF Leaf

\* A function of the client's own needs no marks,
LEMMA NoMarks ==
  ASSUME NEW added, IsToolSet(added), NEW l, l.type = "function", l.namespace = NoName
  PROVE  MarksOf(added, added, l)
BY DEF MarksOf, AddsMarks

\* a free-text tool needs one,
LEMMA CustomMarks ==
  ASSUME NEW added, IsToolSet(added), NEW l, l.type = "custom", l.namespace = NoName
  PROVE  MarksOf(added, MarkCustom(added, l.flat), l)
<1>1. CASE added.error = None
  <2>1. MarkCustom(added, l.flat) = [added EXCEPT !.custom = added.custom \cup {l.flat}]
    BY <1>1 DEF MarkCustom
  <2> QED
    BY <1>1, <2>1 DEF MarksOf, AddsMarks, IsToolSet, ToolSetFields
<1>2. CASE added.error # None
  BY <1>2 DEF MarksOf, MarkCustom
<1> QED
  BY <1>1, <1>2

SpacesWith(N, l) == [n \in DOMAIN N \cup {l.flat} |-> IF n = l.flat THEN SpaceMark(l) ELSE N[n]]

\* (the mark of a namespace, spelt out)
LEMMA SpaceMarked ==
  ASSUME NEW added, IsToolSet(added), NEW l
  PROVE  MarkNamespace(added, l.flat, SpaceMark(l)) =
           IF added.error # None THEN added
           ELSE [added EXCEPT !.namespace = SpacesWith(added.namespace, l)]
BY DEF MarkNamespace, SpacesWith

\* a function within a namespace needs another,
LEMMA SpaceMarks ==
  ASSUME NEW added, IsToolSet(added), NEW l, l.type = "function", l.namespace # NoName
  PROVE  MarksOf(added, MarkNamespace(added, l.flat, SpaceMark(l)), l)
<1> DEFINE fin == MarkNamespace(added, l.flat, SpaceMark(l))
<1>1. CASE added.error = None
  <2>1. fin = [added EXCEPT !.namespace = SpacesWith(added.namespace, l)]
    BY <1>1, SpaceMarked
  <2> HIDE DEF fin
  <2>2. /\ DOMAIN fin = ToolSetFields /\ fin.namespace = SpacesWith(added.namespace, l)
        /\ fin.tools = added.tools /\ fin.error = added.error /\ fin.custom = added.custom
        /\ fin.search = added.search /\ fin.toolSearch = added.toolSearch /\ fin.warns = added.warns
    BY <2>1 DEF IsToolSet, ToolSetFields
  <2>3. AddsMarks(added, fin, l)
    BY <2>2 DEF AddsMarks, SpacesWith
  <2> QED
    BY <2>2, <2>3 DEF MarksOf, IsToolSet, fin
<1>2. CASE added.error # None
  BY <1>2, SpaceMarked DEF MarksOf
<1> QED
  BY <1>1, <1>2

\* and a free-text tool within a namespace needs both.
LEMMA BothMarks ==
  ASSUME NEW added, IsToolSet(added), NEW l, l.type = "custom", l.namespace # NoName
  PROVE  MarksOf(added, MarkCustom(MarkNamespace(added, l.flat, SpaceMark(l)), l.flat), l)
<1> DEFINE mid == MarkNamespace(added, l.flat, SpaceMark(l))
           fin == MarkCustom(mid, l.flat)
<1>1. CASE added.error = None
  <2>1. mid = [added EXCEPT !.namespace = SpacesWith(added.namespace, l)]
    BY <1>1, SpaceMarked
  <2> HIDE DEF mid
  <2>2. /\ DOMAIN mid = ToolSetFields /\ mid.namespace = SpacesWith(added.namespace, l)
        /\ mid.tools = added.tools /\ mid.error = added.error /\ mid.custom = added.custom
        /\ mid.search = added.search /\ mid.toolSearch = added.toolSearch /\ mid.warns = added.warns
    BY <2>1 DEF IsToolSet, ToolSetFields
  <2>3. fin = [mid EXCEPT !.custom = mid.custom \cup {l.flat}]
    BY <1>1, <2>2 DEF MarkCustom
  <2> HIDE DEF fin
  <2>4. /\ DOMAIN fin = ToolSetFields /\ fin.namespace = SpacesWith(added.namespace, l)
        /\ fin.tools = added.tools /\ fin.error = added.error /\ fin.custom = added.custom \cup {l.flat}
        /\ fin.search = added.search /\ fin.toolSearch = added.toolSearch /\ fin.warns = added.warns
    BY <2>2, <2>3 DEF ToolSetFields
  <2>5. AddsMarks(added, fin, l)
    BY <2>4 DEF AddsMarks, SpacesWith
  <2> QED
    BY <2>4, <2>5 DEF MarksOf, IsToolSet, fin, mid
<1>2. CASE added.error # None
  BY <1>2, SpaceMarked DEF MarksOf, MarkCustom
<1> QED
  BY <1>1, <1>2

\* The proxy tool.
LEMMA SearchMarks ==
  ASSUME NEW added, IsToolSet(added), NEW l, l.type = "tool_search", l.namespace = NoName
  PROVE  MarksOf(added, [added EXCEPT !.search = TRUE], l)
<1> DEFINE fin == [added EXCEPT !.search = TRUE]
<1>1. /\ DOMAIN fin = ToolSetFields /\ fin.namespace = added.namespace
      /\ fin.tools = added.tools /\ fin.error = added.error /\ fin.custom = added.custom
      /\ fin.search = TRUE /\ fin.toolSearch = added.toolSearch /\ fin.warns = added.warns
  BY DEF IsToolSet, ToolSetFields
<1> HIDE DEF fin
<1> QED
  BY <1>1 DEF MarksOf, AddsMarks, IsToolSet, fin

\* After an error nothing more is asked.
LEMMA ErrorStands ==
  ASSUME NEW set, NEW ts, NEW L, NEW U, NEW top, NEW All, Standing(set, ts, L, U, top, All),
         set.error # None, NEW L2, NEW U2
  PROVE  Standing(set, ts, L2, U2, top, All)
BY DEF Standing

\* A warning leaves the conversion where it is,
LEMMA WarnStands ==
  ASSUME NEW set, NEW ts, NEW L, NEW U, NEW top, NEW All, Standing(set, ts, L, U, top, All),
         set.error = None, NEW what \in {"dropped", "declared"}, NEW tool
  PROVE  /\ Standing(WarnOf(set, what, tool), ts, L, U, top, All)
         /\ WarnOf(set, what, tool).error = None
         /\ <<what, tool>> \in WarnOf(set, what, tool).warns
         /\ WarnOf(set, what, tool).tools = set.tools
<1> DEFINE fin == WarnOf(set, what, tool)
<1>1. fin = [set EXCEPT !.warns = set.warns \cup {<<what, tool>>}]
  BY DEF WarnOf
<1>2. IsToolSet(set) /\ OfTools(set.warns) /\ Fine(set, L) /\ SaidOf(set, U) /\ set.toolSearch = ts
  BY DEF Standing
<1> HIDE DEF fin
<1>3. /\ DOMAIN fin = ToolSetFields /\ fin.namespace = set.namespace
      /\ fin.tools = set.tools /\ fin.error = set.error /\ fin.custom = set.custom
      /\ fin.search = set.search /\ fin.toolSearch = set.toolSearch
      /\ fin.warns = set.warns \cup {<<what, tool>>}
  BY <1>1, <1>2 DEF IsToolSet, ToolSetFields
<1>4. IsToolSet(fin) /\ fin.toolSearch = ts /\ fin.error = None
  BY <1>2, <1>3 DEF IsToolSet
<1>5. OfTools(fin.warns)
  BY <1>2, <1>3 DEF OfTools
<1>6. SaidOf(fin, U)
  BY <1>2, <1>3 DEF SaidOf
<1>7. Fine(fin, L)
  BY <1>2, <1>3, OnlySaid
<1> QED
  BY <1>3, <1>4, <1>5, <1>6, <1>7 DEF Standing, fin

\* and a warning that a declaration was dropped brings it past that declaration.
LEMMA DroppedStands ==
  ASSUME NEW set, NEW ts, NEW L, NEW U, NEW top, NEW All, Standing(set, ts, L, U, top, All),
         set.error = None, NEW tool
  PROVE  Standing(Dropped(set, tool), ts, L, U \cup {tool}, top, All)
<1> DEFINE fin == WarnOf(set, "dropped", tool)
<1>1. Standing(fin, ts, L, U, top, All) /\ fin.error = None /\ <<"dropped", tool>> \in fin.warns
  BY WarnStands
<1>2. Dropped(set, tool) = fin
  BY DEF Dropped
<1> HIDE DEF fin
<1> QED
  BY <1>1, <1>2 DEF Standing, SaidOf

---------------------------------------------------------------------------
ChildLeaves(child, ns) == IF Callable(child) THEN {Leaf(child, ns.name)} ELSE {}
ChildUnusable(child)   == IF Callable(child) THEN {} ELSE {child}

\* What a step of the conversion may rely on: the leaf is one of the request's,
\* and where repetitions are not allowed it was not there or is an excuse.
Expected(l, set, L, dedupe, top, All) ==
  /\ l \in All
  /\ ~dedupe /\ l \in L /\ Marked(set, l) => Excused(top, All)

\* The leaves of declarations have the form that marks rely on.
LEMMA FormOfLeaf ==
  ASSUME NEW tool, NamedLeaf(tool), NEW ns, ns # NoName => Callable(tool)
  PROVE  LeafForm(Leaf(tool, ns))
<1>1. CASE tool.type = "function"
  BY <1>1, FunctionLeaf DEF LeafForm
<1>2. CASE tool.type = "custom"
  BY <1>2, CustomLeaf DEF LeafForm
<1>3. CASE tool.type = "tool_search"
  <2>1. ns = NoName
    BY <1>3 DEF Callable, Usable
  <2> QED
    BY <1>3, <2>1, SearchLeaf DEF LeafForm, AsTool, SearchTool
<1> QED
  BY <1>1, <1>2, <1>3 DEF NamedLeaf, Callable, Usable

\* declareNamespace brings the conversion past a child.
LEMMA ChildDeclared ==
  ASSUME NEW set, NEW ts, NEW L, NEW U, NEW top, NEW All, Standing(set, ts, L, U, top, All),
         L \subseteq All, NEW ns, ns.name # NoName, NEW child, NEW dedupe \in BOOLEAN,
         Callable(child) => Expected(Leaf(child, ns.name), set, L, dedupe, top, All)
  PROVE  Standing(DeclareChild(set, ns, child, dedupe), ts, L \cup ChildLeaves(child, ns),
                  U \cup ChildUnusable(child), top, All)
<1> DEFINE fin == DeclareChild(set, ns, child, dedupe)
           l == Leaf(child, ns.name)
<1>1. CASE set.error # None
  <2>1. fin = set
    BY <1>1 DEF DeclareChild
  <2> QED
    BY <1>1, <2>1, ErrorStands
<1>2. CASE set.error = None /\ Callable(child)
  <2>1. LeafForm(l)
    BY <1>2, FormOfLeaf DEF NamedLeaf
  <2>2. l.flat = Flatten(ns.name, child.name) /\ SpaceMark(l) = [namespace |-> ns.name, name |-> child.name]
        /\ l.namespace # NoName
    BY <1>2, FunctionLeaf, CustomLeaf DEF Callable, Usable, SpaceMark
  <2>3. IsToolSet(set)
    BY Stands
  <2>4. l \in All /\ (~dedupe /\ l \in L /\ Marked(set, l) => Excused(top, All))
    BY <1>2 DEF Expected
  <2>5. ChildLeaves(child, ns) = {l} /\ ChildUnusable(child) = {}
    BY <1>2 DEF ChildLeaves, ChildUnusable
  <2> HIDE DEF l
  <2>6. CASE Usable(child, "function")
    <3> DEFINE added == Add(set, l.flat, child.schema, dedupe)
    <3>1. fin = MarkNamespace(added, l.flat, SpaceMark(l))
      BY <1>2, <2>2, <2>6 DEF DeclareChild, Usable
    <3>2. l.schema = NormalizeSchema(child.schema) /\ l.type = "function"
      BY <2>6, FunctionLeaf DEF Usable, l
    <3>3. IsToolSet(added)
      BY <2>3, AddLeaves DEF AddKeeps
    <3> HIDE DEF added
    <3>4. MarksOf(added, fin, l)
      BY <2>2, <3>1, <3>2, <3>3, SpaceMarks
    <3> HIDE DEF fin
    <3>5. Standing(fin, ts, L \cup {l}, U, top, All)
      BY <1>2, <2>1, <2>4, <3>2, <3>4, LeafDeclared DEF added
    <3> QED
      BY <2>5, <3>5 DEF fin
  <2>7. CASE Usable(child, "custom")
    <3> DEFINE added == Add(set, l.flat, CustomSchema, dedupe)
    <3>1. fin = MarkCustom(MarkNamespace(added, l.flat, SpaceMark(l)), l.flat)
      BY <1>2, <2>2, <2>7 DEF DeclareChild, Usable
    <3>2. l.schema = NormalizeSchema(CustomSchema) /\ l.type = "custom"
      BY <2>7, CustomLeaf, NormalSchemas DEF Usable, l
    <3>3. IsToolSet(added)
      BY <2>3, AddLeaves DEF AddKeeps
    <3> HIDE DEF added
    <3>4. MarksOf(added, fin, l)
      BY <2>2, <3>1, <3>2, <3>3, BothMarks
    <3> HIDE DEF fin
    <3>5. Standing(fin, ts, L \cup {l}, U, top, All)
      BY <1>2, <2>1, <2>4, <3>2, <3>4, LeafDeclared DEF added
    <3> QED
      BY <2>5, <3>5 DEF fin
  <2> QED
    BY <1>2, <2>6, <2>7 DEF Callable
<1>3. CASE set.error = None /\ ~Callable(child)
  <2>1. fin = Dropped(set, child)
    BY <1>3 DEF DeclareChild, Callable
  <2>2. ChildLeaves(child, ns) = {} /\ ChildUnusable(child) = {child}
    BY <1>3 DEF ChildLeaves, ChildUnusable
  <2>3. Standing(fin, ts, L, U \cup {child}, top, All)
    BY <1>3, <2>1, DroppedStands
  <2> QED
    BY <2>2, <2>3
<1> QED
  BY <1>1, <1>2, <1>3

\* The recursive functions of the conversion, by their equations.
DeclaresChildren(f, set, ns, dedupe) ==
  /\ f[0] = set
  /\ \A n \in 1..Len(ns.children) : f[n] = DeclareChild(f[n - 1], ns, ns.children[n], dedupe)

\* DeclareChildren is the last value of a function with these equations.
LEMMA DeclareChildrenIs ==
  ASSUME NEW set, NEW ns, NEW dedupe, IsSequence(ns.children)
  PROVE  \E f : DeclaresChildren(f, set, ns, dedupe) /\ DeclareChildren(set, ns, dedupe) = f[Len(ns.children)]
<1> DEFINE StepTo(p, n) == DeclareChild(p, ns, ns.children[n], dedupe)
           F(f, m) == f = [n \in 0..m |-> IF n = 0 THEN set ELSE StepTo(f[n - 1], n)]
           S == {m \in Nat : \E f : F(f, m)}
<1>1. 0 \in S
  <2> DEFINE f == [n \in 0..0 |-> set]
  <2>1. F(f, 0)
    OBVIOUS
  <2> QED
    BY <2>1
<1>2. ASSUME NEW m \in Nat, m \in S PROVE m + 1 \in S
  <2> HIDE DEF StepTo
  <2>1. PICK f : F(f, m)
    BY <1>2
  <2> DEFINE g == [n \in 0..(m + 1) |-> IF n = m + 1 THEN StepTo(f[m], m + 1) ELSE f[n]]
  <2>2. \A n \in 0..m : f[n] = IF n = 0 THEN set ELSE StepTo(f[n - 1], n)
    BY <2>1
  <2>3. \A n \in 0..(m + 1) : g[n] = IF n = 0 THEN set ELSE StepTo(g[n - 1], n)
    BY <2>2
  <2>4. g = [n \in 0..(m + 1) |-> g[n]]
    OBVIOUS
  <2> HIDE DEF g
  <2>5. F(g, m + 1)
    BY <2>3, <2>4
  <2> QED
    BY <2>5
<1> HIDE DEF S
<1>3. Len(ns.children) \in S /\ Len(ns.children) \in Nat
  <2>1. Len(ns.children) \in Nat
    BY SequenceLen
  <2> QED
    BY <1>1, <1>2, <2>1, Induction
<1> DEFINE f == CHOOSE f : F(f, Len(ns.children))
<1>4. F(f, Len(ns.children))
  BY <1>3 DEF S
<1>5. DeclareChildren(set, ns, dedupe) = f[Len(ns.children)]
  <2>1. f = CHOOSE g : g = [n \in 0..Len(ns.children) |->
              IF n = 0 THEN set ELSE DeclareChild(g[n - 1], ns, ns.children[n], dedupe)]
    OBVIOUS
  <2> HIDE DEF f
  <2> QED
    BY <2>1 DEF DeclareChildren
<1> HIDE DEF f, StepTo
<1>6. f[0] = set /\ \A n \in 1..Len(ns.children) : f[n] = StepTo(f[n - 1], n)
  <2>1. \A n \in 0..Len(ns.children) : f[n] = IF n = 0 THEN set ELSE StepTo(f[n - 1], n)
    BY <1>4
  <2>2. 0 \in 0..Len(ns.children) /\ \A n \in 1..Len(ns.children) : n \in 0..Len(ns.children) /\ n # 0
    BY <1>3
  <2> QED
    BY <2>1, <2>2
<1>7. DeclaresChildren(f, set, ns, dedupe)
  BY <1>6 DEF DeclaresChildren, StepTo
<1> QED
  BY <1>5, <1>7

\* declare.
DeclaresTools(f, set, tools, dedupe) ==
  /\ f[0] = set
  /\ \A n \in 1..Len(tools) : f[n] = DeclareTool(f[n - 1], tools[n], dedupe)

\* Declare is the last value of a function with these equations.
LEMMA DeclareIs ==
  ASSUME NEW set, NEW tools, NEW dedupe, IsSequence(tools)
  PROVE  \E f : DeclaresTools(f, set, tools, dedupe) /\ Declare(set, tools, dedupe) = f[Len(tools)]
<1> DEFINE StepTo(p, n) == DeclareTool(p, tools[n], dedupe)
           F(f, m) == f = [n \in 0..m |-> IF n = 0 THEN set ELSE StepTo(f[n - 1], n)]
           S == {m \in Nat : \E f : F(f, m)}
<1>1. 0 \in S
  <2> DEFINE f == [n \in 0..0 |-> set]
  <2>1. F(f, 0)
    OBVIOUS
  <2> QED
    BY <2>1
<1>2. ASSUME NEW m \in Nat, m \in S PROVE m + 1 \in S
  <2> HIDE DEF StepTo
  <2>1. PICK f : F(f, m)
    BY <1>2
  <2> DEFINE g == [n \in 0..(m + 1) |-> IF n = m + 1 THEN StepTo(f[m], m + 1) ELSE f[n]]
  <2>2. \A n \in 0..m : f[n] = IF n = 0 THEN set ELSE StepTo(f[n - 1], n)
    BY <2>1
  <2>3. \A n \in 0..(m + 1) : g[n] = IF n = 0 THEN set ELSE StepTo(g[n - 1], n)
    BY <2>2
  <2>4. g = [n \in 0..(m + 1) |-> g[n]]
    OBVIOUS
  <2> HIDE DEF g
  <2>5. F(g, m + 1)
    BY <2>3, <2>4
  <2> QED
    BY <2>5
<1> HIDE DEF S
<1>3. Len(tools) \in S /\ Len(tools) \in Nat
  <2>1. Len(tools) \in Nat
    BY SequenceLen
  <2> QED
    BY <1>1, <1>2, <2>1, Induction
<1> DEFINE f == CHOOSE f : F(f, Len(tools))
<1>4. F(f, Len(tools))
  BY <1>3 DEF S
<1>5. Declare(set, tools, dedupe) = f[Len(tools)]
  <2>1. f = CHOOSE g : g = [n \in 0..Len(tools) |->
              IF n = 0 THEN set ELSE DeclareTool(g[n - 1], tools[n], dedupe)]
    OBVIOUS
  <2> HIDE DEF f
  <2> QED
    BY <2>1 DEF Declare
<1> HIDE DEF f, StepTo
<1>6. f[0] = set /\ \A n \in 1..Len(tools) : f[n] = StepTo(f[n - 1], n)
  <2>1. \A n \in 0..Len(tools) : f[n] = IF n = 0 THEN set ELSE StepTo(f[n - 1], n)
    BY <1>4
  <2>2. 0 \in 0..Len(tools) /\ \A n \in 1..Len(tools) : n \in 0..Len(tools) /\ n # 0
    BY <1>3
  <2> QED
    BY <2>1, <2>2
<1>7. DeclaresTools(f, set, tools, dedupe)
  BY <1>6 DEF DeclaresTools, StepTo
<1> QED
  BY <1>5, <1>7

\* promote.
PromotesTools(f, set, tools) ==
  /\ f[0] = set
  /\ \A n \in 1..Len(tools) : f[n] = Promote(f[n - 1], tools[n])

\* PromoteTools is the last value of a function with these equations.
LEMMA PromoteToolsIs ==
  ASSUME NEW set, NEW tools, IsSequence(tools)
  PROVE  \E f : PromotesTools(f, set, tools) /\ PromoteTools(set, tools) = f[Len(tools)]
<1> DEFINE StepTo(p, n) == Promote(p, tools[n])
           F(f, m) == f = [n \in 0..m |-> IF n = 0 THEN set ELSE StepTo(f[n - 1], n)]
           S == {m \in Nat : \E f : F(f, m)}
<1>1. 0 \in S
  <2> DEFINE f == [n \in 0..0 |-> set]
  <2>1. F(f, 0)
    OBVIOUS
  <2> QED
    BY <2>1
<1>2. ASSUME NEW m \in Nat, m \in S PROVE m + 1 \in S
  <2> HIDE DEF StepTo
  <2>1. PICK f : F(f, m)
    BY <1>2
  <2> DEFINE g == [n \in 0..(m + 1) |-> IF n = m + 1 THEN StepTo(f[m], m + 1) ELSE f[n]]
  <2>2. \A n \in 0..m : f[n] = IF n = 0 THEN set ELSE StepTo(f[n - 1], n)
    BY <2>1
  <2>3. \A n \in 0..(m + 1) : g[n] = IF n = 0 THEN set ELSE StepTo(g[n - 1], n)
    BY <2>2
  <2>4. g = [n \in 0..(m + 1) |-> g[n]]
    OBVIOUS
  <2> HIDE DEF g
  <2>5. F(g, m + 1)
    BY <2>3, <2>4
  <2> QED
    BY <2>5
<1> HIDE DEF S
<1>3. Len(tools) \in S /\ Len(tools) \in Nat
  <2>1. Len(tools) \in Nat
    BY SequenceLen
  <2> QED
    BY <1>1, <1>2, <2>1, Induction
<1> DEFINE f == CHOOSE f : F(f, Len(tools))
<1>4. F(f, Len(tools))
  BY <1>3 DEF S
<1>5. PromoteTools(set, tools) = f[Len(tools)]
  <2>1. f = CHOOSE g : g = [n \in 0..Len(tools) |->
              IF n = 0 THEN set ELSE Promote(g[n - 1], tools[n])]
    OBVIOUS
  <2> HIDE DEF f
  <2> QED
    BY <2>1 DEF PromoteTools
<1> HIDE DEF f, StepTo
<1>6. f[0] = set /\ \A n \in 1..Len(tools) : f[n] = StepTo(f[n - 1], n)
  <2>1. \A n \in 0..Len(tools) : f[n] = IF n = 0 THEN set ELSE StepTo(f[n - 1], n)
    BY <1>4
  <2>2. 0 \in 0..Len(tools) /\ \A n \in 1..Len(tools) : n \in 0..Len(tools) /\ n # 0
    BY <1>3
  <2> QED
    BY <2>1, <2>2
<1>7. PromotesTools(f, set, tools)
  BY <1>6 DEF PromotesTools, StepTo
<1> QED
  BY <1>5, <1>7

\* The outputs of searches.
PromotesOutputs(f, set, outputs) ==
  /\ f[0] = set
  /\ \A n \in 1..Len(outputs) : f[n] = (IF Promotable(set.toolSearch, outputs[n]) THEN PromoteTools(f[n - 1], outputs[n].tools) ELSE f[n - 1])

\* PromoteOutputs is the last value of a function with these equations.
LEMMA PromoteOutputsIs ==
  ASSUME NEW set, NEW outputs, IsSequence(outputs)
  PROVE  \E f : PromotesOutputs(f, set, outputs) /\ PromoteOutputs(set, outputs) = f[Len(outputs)]
<1> DEFINE StepTo(p, n) == (IF Promotable(set.toolSearch, outputs[n]) THEN PromoteTools(p, outputs[n].tools) ELSE p)
           F(f, m) == f = [n \in 0..m |-> IF n = 0 THEN set ELSE StepTo(f[n - 1], n)]
           S == {m \in Nat : \E f : F(f, m)}
<1>1. 0 \in S
  <2> DEFINE f == [n \in 0..0 |-> set]
  <2>1. F(f, 0)
    OBVIOUS
  <2> QED
    BY <2>1
<1>2. ASSUME NEW m \in Nat, m \in S PROVE m + 1 \in S
  <2> HIDE DEF StepTo
  <2>1. PICK f : F(f, m)
    BY <1>2
  <2> DEFINE g == [n \in 0..(m + 1) |-> IF n = m + 1 THEN StepTo(f[m], m + 1) ELSE f[n]]
  <2>2. \A n \in 0..m : f[n] = IF n = 0 THEN set ELSE StepTo(f[n - 1], n)
    BY <2>1
  <2>3. \A n \in 0..(m + 1) : g[n] = IF n = 0 THEN set ELSE StepTo(g[n - 1], n)
    BY <2>2
  <2>4. g = [n \in 0..(m + 1) |-> g[n]]
    OBVIOUS
  <2> HIDE DEF g
  <2>5. F(g, m + 1)
    BY <2>3, <2>4
  <2> QED
    BY <2>5
<1> HIDE DEF S
<1>3. Len(outputs) \in S /\ Len(outputs) \in Nat
  <2>1. Len(outputs) \in Nat
    BY SequenceLen
  <2> QED
    BY <1>1, <1>2, <2>1, Induction
<1> DEFINE f == CHOOSE f : F(f, Len(outputs))
<1>4. F(f, Len(outputs))
  BY <1>3 DEF S
<1>5. PromoteOutputs(set, outputs) = f[Len(outputs)]
  <2>1. f = CHOOSE g : g = [n \in 0..Len(outputs) |->
              IF n = 0 THEN set ELSE (IF Promotable(set.toolSearch, outputs[n]) THEN PromoteTools(g[n - 1], outputs[n].tools) ELSE g[n - 1])]
    OBVIOUS
  <2> HIDE DEF f
  <2> QED
    BY <2>1 DEF PromoteOutputs
<1> HIDE DEF f, StepTo
<1>6. f[0] = set /\ \A n \in 1..Len(outputs) : f[n] = StepTo(f[n - 1], n)
  <2>1. \A n \in 0..Len(outputs) : f[n] = IF n = 0 THEN set ELSE StepTo(f[n - 1], n)
    BY <1>4
  <2>2. 0 \in 0..Len(outputs) /\ \A n \in 1..Len(outputs) : n \in 0..Len(outputs) /\ n # 0
    BY <1>3
  <2> QED
    BY <2>1, <2>2
<1>7. PromotesOutputs(f, set, outputs)
  BY <1>6 DEF PromotesOutputs, StepTo
<1> QED
  BY <1>5, <1>7

---------------------------------------------------------------------------
SpaceLeaves(ns, n)   == {Leaf(ns.children[i], ns.name) : i \in {i \in 1..n : Callable(ns.children[i])}}
SpaceUnusable(ns, n) == {ns.children[i] : i \in {i \in 1..n : ~Callable(ns.children[i])}}

\* One child more.
LEMMA SpaceGrows ==
  ASSUME NEW ns, NEW n \in Nat
  PROVE  /\ SpaceLeaves(ns, n + 1) = SpaceLeaves(ns, n) \cup ChildLeaves(ns.children[n + 1], ns)
         /\ SpaceUnusable(ns, n + 1) = SpaceUnusable(ns, n) \cup ChildUnusable(ns.children[n + 1])
         /\ SpaceLeaves(ns, 0) = {} /\ SpaceUnusable(ns, 0) = {}
<1>1. 1..(n + 1) = 1..n \cup {n + 1} /\ 1..0 = {}
  OBVIOUS
<1>2. SpaceLeaves(ns, n + 1) = SpaceLeaves(ns, n) \cup ChildLeaves(ns.children[n + 1], ns)
  BY <1>1 DEF SpaceLeaves, ChildLeaves
<1>3. SpaceUnusable(ns, n + 1) = SpaceUnusable(ns, n) \cup ChildUnusable(ns.children[n + 1])
  BY <1>1 DEF SpaceUnusable, ChildUnusable
<1>4. SpaceLeaves(ns, 0) = {} /\ SpaceUnusable(ns, 0) = {}
  BY <1>1 DEF SpaceLeaves, SpaceUnusable
<1> QED
  BY <1>2, <1>3, <1>4

\* The leaves of a namespace are those of its children.
LEMMA SpaceWhole ==
  ASSUME NEW ns, IsSequence(ns.children), ~NamedLeaf(ns), Usable(ns, "namespace")
  PROVE  /\ LeavesOf(ns) = SpaceLeaves(ns, Len(ns.children))
         /\ UnusableOf(ns) = SpaceUnusable(ns, Len(ns.children))
<1>1. ToSet(ns.children) = {ns.children[i] : i \in 1..Len(ns.children)}
  BY DEF ToSet, IsSequence
<1>2. LeavesOf(ns) = SpaceLeaves(ns, Len(ns.children))
  BY <1>1 DEF LeavesOf, SpaceLeaves
<1>3. UnusableOf(ns) = SpaceUnusable(ns, Len(ns.children))
  BY <1>1 DEF UnusableOf, SpaceUnusable
<1> QED
  BY <1>2, <1>3

\* Where repetitions are not allowed, they are an excuse.
TwiceExcused(tool, L, dedupe, top, All) ==
  ~dedupe => /\ \A l \in LeavesOf(tool) \cap L : l.type # "tool_search" => Excused(top, All)
             /\ ChildTwice(tool) => Excused(top, All)

\* declareNamespace brings the conversion past all children of a namespace, by induction over them.
LEMMA ChildrenDeclared ==
  ASSUME NEW set, NEW ts, NEW L, NEW U, NEW top, NEW All, Standing(set, ts, L, U, top, All),
         L \subseteq All, NEW ns, IsSequence(ns.children), ~NamedLeaf(ns), Usable(ns, "namespace"),
         NEW dedupe \in BOOLEAN, LeavesOf(ns) \subseteq All, TwiceExcused(ns, L, dedupe, top, All)
  PROVE  Standing(DeclareChildren(set, ns, dedupe), ts, L \cup LeavesOf(ns), U \cup UnusableOf(ns), top, All)
<1> DEFINE cs == ns.children
           N == Len(cs)
<1>1. PICK f : DeclaresChildren(f, set, ns, dedupe) /\ DeclareChildren(set, ns, dedupe) = f[N]
  BY DeclareChildrenIs
<1>2. N \in Nat
  BY SequenceLen
<1>3. f[0] = set /\ \A n \in 1..N : f[n] = DeclareChild(f[n - 1], ns, cs[n], dedupe)
  BY <1>1 DEF DeclaresChildren
<1> DEFINE P(n) == Standing(f[n], ts, L \cup SpaceLeaves(ns, n), U \cup SpaceUnusable(ns, n), top, All)
           S == {n \in Nat : n <= N => P(n)}
<1>4. 0 \in S
  <2>1. L \cup SpaceLeaves(ns, 0) = L /\ U \cup SpaceUnusable(ns, 0) = U
    BY SpaceGrows
  <2>2. P(0)
    BY <1>3, <2>1
  <2> QED
    BY <2>2
<1>5. ASSUME NEW n \in Nat, n \in S PROVE n + 1 \in S
  <2> SUFFICES ASSUME n + 1 <= N PROVE P(n + 1)
    OBVIOUS
  <2> DEFINE c == cs[n + 1]
             l == Leaf(c, ns.name)
             L1 == L \cup SpaceLeaves(ns, n)
             U1 == U \cup SpaceUnusable(ns, n)
  <2>1. n + 1 \in 1..N /\ (n + 1) - 1 = n /\ P(n)
    BY <1>2, <1>5
  <2>2. f[n + 1] = DeclareChild(f[n], ns, c, dedupe)
    BY <1>3, <2>1
  <2>3. /\ LeavesOf(ns) = SpaceLeaves(ns, N)
        /\ SpaceLeaves(ns, n) \subseteq SpaceLeaves(ns, N)
    <3>1. 1..n \subseteq 1..N
      BY <1>2, <2>1
    <3> QED
      BY <3>1, SpaceWhole DEF SpaceLeaves
  <2>4. L1 \subseteq All
    BY <2>3
  <2>5. ASSUME Callable(c) PROVE Expected(l, f[n], L1, dedupe, top, All)
    <3>1. l \in LeavesOf(ns)
      BY <2>1, <2>3, <2>5 DEF SpaceLeaves
    <3>2. ASSUME ~dedupe, l \in L1 PROVE Excused(top, All)
      <4>1. CASE l \in L
        <5>1. l.type # "tool_search"
          BY <2>5, FunctionLeaf, CustomLeaf DEF Callable, Usable
        <5> QED
          BY <3>1, <3>2, <4>1, <5>1 DEF TwiceExcused
      <4>2. CASE l \in SpaceLeaves(ns, n)
        <5>1. PICK i \in 1..n : Callable(cs[i]) /\ Leaf(cs[i], ns.name) = l
          BY <4>2 DEF SpaceLeaves
        <5>2. i # n + 1 /\ i \in 1..N
          BY <1>2, <2>1
        <5>3. DOMAIN cs = 1..N
          BY DEF IsSequence
        <5>4. ChildTwice(ns)
          BY <2>1, <2>5, <5>1, <5>2, <5>3 DEF ChildTwice
        <5> QED
          BY <3>2, <5>4 DEF TwiceExcused
      <4> QED
        BY <3>2, <4>1, <4>2
    <3> QED
      BY <3>1, <3>2 DEF Expected
  <2>6. ns.name # NoName
    BY DEF Usable
  <2>7. Standing(f[n + 1], ts, L1 \cup ChildLeaves(c, ns), U1 \cup ChildUnusable(c), top, All)
    <3> HIDE DEF L1, U1
    <3>1. Standing(f[n], ts, L1, U1, top, All)
      BY <2>1 DEF L1, U1
    <3> HIDE DEF c, l
    <3>2. Callable(c) => Expected(Leaf(c, ns.name), f[n], L1, dedupe, top, All)
      BY <2>5 DEF l
    <3> QED
      BY <2>2, <2>4, <2>6, <3>1, <3>2, ChildDeclared
  <2>8. /\ L1 \cup ChildLeaves(c, ns) = L \cup SpaceLeaves(ns, n + 1)
        /\ U1 \cup ChildUnusable(c) = U \cup SpaceUnusable(ns, n + 1)
    BY SpaceGrows
  <2> HIDE DEF L1, U1, c
  <2> QED
    BY <2>7, <2>8
<1> HIDE DEF S
<1>6. N \in S
  BY <1>2, <1>4, <1>5, Induction
<1>7. P(N)
  <2> HIDE DEF P, N
  <2>1. N <= N
    BY <1>2
  <2> QED
    BY <1>6, <2>1 DEF S
<1> QED
  BY <1>1, <1>7, SpaceWhole

\* declare brings the conversion past a tool of any type.
LEMMA ToolDeclared ==
  ASSUME NEW set, NEW ts, NEW L, NEW U, NEW top, NEW All, Standing(set, ts, L, U, top, All),
         L \subseteq All, NEW tool \in AllTools, NEW dedupe \in BOOLEAN,
         LeavesOf(tool) \subseteq All, TwiceExcused(tool, L, dedupe, top, All)
  PROVE  Standing(DeclareTool(set, tool, dedupe), ts, L \cup LeavesOf(tool), U \cup UnusableOf(tool), top, All)
<1> DEFINE fin == DeclareTool(set, tool, dedupe)
           l == Leaf(tool, NoName)
<1>1. CASE set.error # None
  <2>1. fin = set
    BY <1>1 DEF DeclareTool
  <2> QED
    BY <1>1, <2>1, ErrorStands
<1>2. CASE set.error = None /\ NamedLeaf(tool)
  <2>1. LeafForm(l)
    BY <1>2, FormOfLeaf
  <2>2. LeavesOf(tool) = {l} /\ UnusableOf(tool) = {}
    BY <1>2 DEF LeavesOf, UnusableOf
  <2>3. l.namespace = NoName /\ (tool.type # "tool_search" => l.flat = tool.name)
    <3>1. Flatten(NoName, tool.name) = tool.name
      BY DEF Flatten, NoName, AllTools
    <3> QED
      BY <1>2, <3>1, FunctionLeaf, CustomLeaf, SearchLeaf DEF NamedLeaf, Callable, Usable
  <2>4. IsToolSet(set) /\ Fine(set, L)
    BY <1>2, Stands
  <2> HIDE DEF l
  <2>5. CASE Usable(tool, "function")
    <3> DEFINE added == Add(set, l.flat, tool.schema, dedupe)
    <3>1. fin = added
      BY <1>2, <2>3, <2>5 DEF DeclareTool, Usable
    <3>2. l.schema = NormalizeSchema(tool.schema) /\ l.type = "function"
      BY <2>5, FunctionLeaf DEF Usable, l
    <3>3. IsToolSet(added)
      BY <2>4, AddLeaves DEF AddKeeps
    <3> HIDE DEF added, fin
    <3>4. MarksOf(added, fin, l)
      BY <2>3, <3>1, <3>2, <3>3, NoMarks
    <3>5. l \in All /\ (~dedupe /\ l \in L /\ Marked(set, l) => Excused(top, All))
      BY <2>2, <3>2 DEF TwiceExcused
    <3>6. Standing(fin, ts, L \cup {l}, U, top, All)
      BY <1>2, <2>1, <3>2, <3>4, <3>5, LeafDeclared DEF added
    <3> QED
      BY <2>2, <3>6 DEF fin
  <2>6. CASE Usable(tool, "custom")
    <3> DEFINE added == Add(set, l.flat, CustomSchema, dedupe)
    <3>1. fin = MarkCustom(added, l.flat)
      BY <1>2, <2>3, <2>6 DEF DeclareTool, Usable
    <3>2. l.schema = NormalizeSchema(CustomSchema) /\ l.type = "custom"
      BY <2>6, CustomLeaf, NormalSchemas DEF Usable, l
    <3>3. IsToolSet(added)
      BY <2>4, AddLeaves DEF AddKeeps
    <3> HIDE DEF added, fin
    <3>4. MarksOf(added, fin, l)
      BY <2>3, <3>1, <3>2, <3>3, CustomMarks
    <3>5. l \in All /\ (~dedupe /\ l \in L /\ Marked(set, l) => Excused(top, All))
      BY <2>2, <3>2 DEF TwiceExcused
    <3>6. Standing(fin, ts, L \cup {l}, U, top, All)
      BY <1>2, <2>1, <3>2, <3>4, <3>5, LeafDeclared DEF added
    <3> QED
      BY <2>2, <3>6 DEF fin
  <2>7. CASE tool.type = "tool_search"
    <3>1. /\ l.flat = SearchName /\ l.schema = NormalizeSchema(SearchSchema) /\ l.type = "tool_search"
          /\ l.schema = SearchSchema
      BY <2>7, SearchLeaf, NormalSchemas DEF l
    <3>2. CASE set.search
      <4>1. fin = set
        BY <1>2, <2>7, <3>2 DEF DeclareTool, Usable
      <4>2. \E k \in 1..Len(set.tools) : set.tools[k] = AsTool(l)
        BY <2>4, <3>1, <3>2 DEF Fine, HasProxy, SearchTool, AsTool
      <4>3. Fine(set, L \cup {l})
        BY <2>4, <4>2, LeafThere
      <4> HIDE DEF fin
      <4>4. Standing(fin, ts, L \cup {l}, U, top, All)
        BY <1>2, <4>1, <4>3 DEF Standing
      <4> QED
        BY <2>2, <4>4 DEF fin
    <3>3. CASE ~set.search
      <4> DEFINE added == Add(set, l.flat, SearchSchema, dedupe)
      <4>1. fin = [added EXCEPT !.search = TRUE]
        BY <1>2, <2>7, <3>1, <3>3 DEF DeclareTool, Usable
      <4>2. IsToolSet(added)
        BY <2>4, AddLeaves DEF AddKeeps
      <4> HIDE DEF added, fin
      <4>3. MarksOf(added, fin, l)
        BY <2>3, <3>1, <4>1, <4>2, SearchMarks
      <4>4. l \in All /\ (~dedupe /\ l \in L /\ Marked(set, l) => Excused(top, All))
        BY <2>2, <3>1, <3>3 DEF Marked
      <4>5. Standing(fin, ts, L \cup {l}, U, top, All)
        BY <1>2, <2>1, <3>1, <4>3, <4>4, LeafDeclared DEF added
      <4> QED
        BY <2>2, <4>5 DEF fin
    <3> QED
      BY <3>2, <3>3
  <2> QED
    BY <1>2, <2>5, <2>6, <2>7 DEF NamedLeaf, Callable
<1>3. CASE set.error = None /\ ~NamedLeaf(tool) /\ Usable(tool, "namespace")
  <2>1. fin = DeclareChildren(set, tool, dedupe)
    BY <1>3 DEF DeclareTool, NamedLeaf, Callable, Usable
  <2>2. IsSequence(tool.children)
    BY DEF AllTools, IsSequence
  <2> QED
    BY <1>3, <2>1, <2>2, ChildrenDeclared
<1>4. CASE set.error = None /\ ~NamedLeaf(tool) /\ ~Usable(tool, "namespace")
  <2>1. fin = Dropped(set, tool)
    BY <1>4 DEF DeclareTool, NamedLeaf, Callable
  <2>2. LeavesOf(tool) = {} /\ UnusableOf(tool) = {tool}
    BY <1>4 DEF LeavesOf, UnusableOf
  <2>3. Standing(fin, ts, L, U \cup {tool}, top, All)
    BY <1>4, <2>1, DroppedStands
  <2> QED
    BY <2>2, <2>3
<1> QED
  BY <1>1, <1>2, <1>3, <1>4

---------------------------------------------------------------------------
ListLeaves(tools, n)   == UNION {LeavesOf(tools[i]) : i \in 1..n}
ListUnusable(tools, n) == UNION {UnusableOf(tools[i]) : i \in 1..n}

\* One tool more.
LEMMA ListGrows ==
  ASSUME NEW tools, NEW n \in Nat
  PROVE  /\ ListLeaves(tools, n + 1) = ListLeaves(tools, n) \cup LeavesOf(tools[n + 1])
         /\ ListUnusable(tools, n + 1) = ListUnusable(tools, n) \cup UnusableOf(tools[n + 1])
         /\ ListLeaves(tools, 0) = {} /\ ListUnusable(tools, 0) = {}
<1>1. 1..(n + 1) = 1..n \cup {n + 1} /\ 1..0 = {}
  OBVIOUS
<1>2. ListLeaves(tools, n + 1) = ListLeaves(tools, n) \cup LeavesOf(tools[n + 1])
  BY <1>1 DEF ListLeaves
<1>3. ListUnusable(tools, n + 1) = ListUnusable(tools, n) \cup UnusableOf(tools[n + 1])
  BY <1>1 DEF ListUnusable
<1>4. ListLeaves(tools, 0) = {} /\ ListUnusable(tools, 0) = {}
  BY <1>1 DEF ListLeaves, ListUnusable
<1> QED
  BY <1>2, <1>3, <1>4

\* All tools of a list.
LEMMA ListWhole ==
  ASSUME NEW tools, IsSequence(tools)
  PROVE  /\ ListLeaves(tools, Len(tools)) = UNION {LeavesOf(t) : t \in ToSet(tools)}
         /\ ListUnusable(tools, Len(tools)) = UNION {UnusableOf(t) : t \in ToSet(tools)}
<1>1. ToSet(tools) = {tools[i] : i \in 1..Len(tools)}
  BY DEF ToSet, IsSequence
<1>2. {LeavesOf(tools[i]) : i \in 1..Len(tools)} = {LeavesOf(t) : t \in ToSet(tools)}
  BY <1>1
<1>3. {UnusableOf(tools[i]) : i \in 1..Len(tools)} = {UnusableOf(t) : t \in ToSet(tools)}
  BY <1>1
<1> QED
  BY <1>2, <1>3 DEF ListLeaves, ListUnusable

ListExcused(tools, L, dedupe, top, All) ==
  ~dedupe => /\ \A l \in ListLeaves(tools, Len(tools)) \cap L : l.type # "tool_search" => Excused(top, All)
             /\ DeclaredTwice(tools) => Excused(top, All)

\* declare brings the conversion past a list of tools, by induction over them.
LEMMA ToolsDeclared ==
  ASSUME NEW set, NEW ts, NEW L, NEW U, NEW top, NEW All, Standing(set, ts, L, U, top, All),
         L \subseteq All, NEW tools \in Seq(AllTools), NEW dedupe \in BOOLEAN,
         ListLeaves(tools, Len(tools)) \subseteq All, ListExcused(tools, L, dedupe, top, All)
  PROVE  Standing(Declare(set, tools, dedupe), ts, L \cup ListLeaves(tools, Len(tools)),
                  U \cup ListUnusable(tools, Len(tools)), top, All)
<1> DEFINE N == Len(tools)
<1>0. IsSequence(tools) /\ DOMAIN tools = 1..N
  BY DEF IsSequence
<1>1. PICK f : DeclaresTools(f, set, tools, dedupe) /\ Declare(set, tools, dedupe) = f[N]
  BY <1>0, DeclareIs
<1>2. N \in Nat
  OBVIOUS
<1>3. f[0] = set /\ \A n \in 1..N : f[n] = DeclareTool(f[n - 1], tools[n], dedupe)
  BY <1>1 DEF DeclaresTools
<1> DEFINE P(n) == Standing(f[n], ts, L \cup ListLeaves(tools, n), U \cup ListUnusable(tools, n), top, All)
           S == {n \in Nat : n <= N => P(n)}
<1>4. 0 \in S
  <2>1. L \cup ListLeaves(tools, 0) = L /\ U \cup ListUnusable(tools, 0) = U
    BY ListGrows
  <2>2. P(0)
    BY <1>3, <2>1
  <2> QED
    BY <2>2
<1>5. ASSUME NEW n \in Nat, n \in S PROVE n + 1 \in S
  <2> SUFFICES ASSUME n + 1 <= N PROVE P(n + 1)
    OBVIOUS
  <2> DEFINE t == tools[n + 1]
             L1 == L \cup ListLeaves(tools, n)
             U1 == U \cup ListUnusable(tools, n)
  <2>1. n + 1 \in 1..N /\ (n + 1) - 1 = n /\ P(n) /\ 1..n \subseteq 1..N /\ n + 1 \notin 1..n
    BY <1>2, <1>5
  <2>2. f[n + 1] = DeclareTool(f[n], t, dedupe) /\ t \in AllTools
    BY <1>3, <2>1
  <2>3. ListLeaves(tools, n) \subseteq ListLeaves(tools, N) /\ LeavesOf(t) \subseteq ListLeaves(tools, N)
    BY <2>1 DEF ListLeaves
  <2>4. L1 \subseteq All /\ LeavesOf(t) \subseteq All
    BY <2>3
  <2>5. TwiceExcused(t, L1, dedupe, top, All)
    <3> SUFFICES ASSUME ~dedupe
                 PROVE  /\ \A l \in LeavesOf(t) \cap L1 : l.type # "tool_search" => Excused(top, All)
                        /\ ChildTwice(t) => Excused(top, All)
      BY DEF TwiceExcused
    <3>1. ASSUME NEW l \in LeavesOf(t) \cap L1, l.type # "tool_search" PROVE Excused(top, All)
      <4>1. CASE l \in L
        BY <2>3, <3>1, <4>1 DEF ListExcused
      <4>2. CASE l \in ListLeaves(tools, n)
        <5>1. PICK i \in 1..n : l \in LeavesOf(tools[i])
          BY <4>2 DEF ListLeaves
        <5>2. i # n + 1 /\ i \in DOMAIN tools /\ n + 1 \in DOMAIN tools
          BY <1>0, <2>1
        <5>3. DeclaredTwice(tools)
          BY <3>1, <5>1, <5>2 DEF DeclaredTwice
        <5> QED
          BY <5>3 DEF ListExcused
      <4> QED
        BY <4>1, <4>2
    <3>2. ASSUME ChildTwice(t) PROVE Excused(top, All)
      BY <1>0, <2>1, <3>2 DEF DeclaredTwice, ListExcused
    <3> QED
      BY <3>1, <3>2
  <2>6. Standing(f[n + 1], ts, L1 \cup LeavesOf(t), U1 \cup UnusableOf(t), top, All)
    <3> HIDE DEF L1, U1
    <3>1. Standing(f[n], ts, L1, U1, top, All)
      BY <2>1 DEF L1, U1
    <3> HIDE DEF t
    <3> QED
      BY <2>2, <2>4, <2>5, <3>1, ToolDeclared
  <2>7. /\ L1 \cup LeavesOf(t) = L \cup ListLeaves(tools, n + 1)
        /\ U1 \cup UnusableOf(t) = U \cup ListUnusable(tools, n + 1)
    BY ListGrows
  <2> HIDE DEF L1, U1, t
  <2> QED
    BY <2>6, <2>7
<1> HIDE DEF S
<1>6. N \in S
  BY <1>2, <1>4, <1>5, Induction
<1>7. P(N)
  <2> HIDE DEF P, N
  <2>1. N <= N
    BY <1>2
  <2> QED
    BY <1>6, <2>1 DEF S
<1> QED
  BY <1>1, <1>7

---------------------------------------------------------------------------
ShownLeaves(tool)   == IF Callable(tool) THEN {Leaf(tool, NoName)} ELSE {}
ShownUnusable(tool) == IF Callable(tool) THEN {} ELSE {tool}

\* promote brings the conversion past a tool that a search found.
LEMMA ToolPromoted ==
  ASSUME NEW set, NEW ts, NEW L, NEW U, NEW top, NEW All, Standing(set, ts, L, U, top, All),
         L \subseteq All, NEW tool \in AllTools, ShownLeaves(tool) \subseteq All
  PROVE  Standing(Promote(set, tool), ts, L \cup ShownLeaves(tool), U \cup ShownUnusable(tool), top, All)
<1> DEFINE fin == Promote(set, tool)
           l == Leaf(tool, NoName)
           schema == IF tool.type = "custom" THEN CustomSchema ELSE tool.schema
           added == Add(set, tool.name, schema, FALSE)
<1>1. CASE set.error # None
  <2>1. fin = set
    BY <1>1 DEF Promote
  <2> QED
    BY <1>1, <2>1, ErrorStands
<1>2. CASE set.error = None /\ ~Callable(tool)
  <2>1. fin = Dropped(set, tool)
    BY <1>2 DEF Promote, Callable
  <2>2. ShownLeaves(tool) = {} /\ ShownUnusable(tool) = {tool}
    BY <1>2 DEF ShownLeaves, ShownUnusable
  <2>3. Standing(fin, ts, L, U \cup {tool}, top, All)
    BY <1>2, <2>1, DroppedStands
  <2> QED
    BY <2>2, <2>3
<1>3. CASE set.error = None /\ Callable(tool)
  <2>1. LeafForm(l)
    BY <1>3, FormOfLeaf DEF NamedLeaf
  <2>2. ShownLeaves(tool) = {l} /\ ShownUnusable(tool) = {}
    BY <1>3 DEF ShownLeaves, ShownUnusable
  <2>3. /\ l.namespace = NoName /\ l.flat = tool.name /\ l.schema = NormalizeSchema(schema)
        /\ l.type = tool.type /\ l.type \in {"function", "custom"}
    <3>1. Flatten(NoName, tool.name) = tool.name
      BY DEF Flatten, NoName, AllTools
    <3>2. CASE tool.type = "function"
      BY <3>1, <3>2, FunctionLeaf
    <3>3. CASE tool.type = "custom"
      BY <3>1, <3>3, CustomLeaf, NormalSchemas
    <3> QED
      BY <1>3, <3>2, <3>3 DEF Callable, Usable
  <2>4. IsToolSet(set) /\ Fine(set, L)
    BY <1>3, Stands
  <2>5. fin = CASE HasSame(set, tool.name, schema) -> WarnOf(set, "declared", tool)
                [] Has(set, tool.name) /\ ~HasSame(set, tool.name, schema) -> [set EXCEPT !.error = "conflict"]
                [] ~Has(set, tool.name) -> IF tool.type = "custom" THEN MarkCustom(added, tool.name) ELSE added
    BY <1>3, Zenon DEF Promote, Callable
  <2> HIDE DEF l, schema, fin
  <2>6. HasSame(set, tool.name, schema) <=> \E k \in 1..Len(set.tools) : set.tools[k] = AsTool(l)
    BY <2>3, <2>4, HasSameIs
  <2>10. HasSame(set, tool.name, schema) => Has(set, tool.name)
    BY <2>3, <2>4, <2>6, HasIs, ToolFields
  <2>7. CASE HasSame(set, tool.name, schema)
    <3> DEFINE said == WarnOf(set, "declared", tool)
    <3>0. /\ Standing(said, ts, L, U, top, All)
          /\ said.error = None /\ said.tools = set.tools
      <4>1. "declared" \in {"dropped", "declared"}
        OBVIOUS
      <4> QED
        BY ONLY <1>3, <4>1, Standing(set, ts, L, U, top, All), WarnStands
    <3> HIDE DEF said
    <3>5. fin = said
      BY <2>5, <2>7, <2>10 DEF said
    <3>1. Standing(fin, ts, L, U, top, All) /\ fin.error = None /\ fin.tools = set.tools
      BY <3>0, <3>5
    <3>2. Fine(fin, L)
      BY <3>1, Stands
    <3>3. Fine(fin, L \cup {l})
      BY <2>6, <2>7, <3>1, <3>2, LeafThere
    <3>4. Standing(fin, ts, L \cup {l}, U, top, All)
      BY <3>1, <3>3 DEF Standing
    <3> QED
      BY <2>2, <3>4 DEF fin
  <2>8. CASE Has(set, tool.name) /\ ~HasSame(set, tool.name, schema)
    <3>1. fin = [set EXCEPT !.error = "conflict"]
      BY <2>5, <2>8, <2>10
    <3>2. /\ fin.error # None /\ IsToolSet(fin) /\ fin.toolSearch = set.toolSearch /\ fin.warns = set.warns
      BY <2>4, <3>1 DEF IsToolSet, ToolSetFields, None
    <3>3. PICK k \in 1..Len(set.tools) : set.tools[k].name = tool.name
      BY <2>4, <2>8, HasIs
    <3>4. PICK m \in L : set.tools[k] = AsTool(m)
      BY <2>4 DEF Fine
    <3>5. m.flat = l.flat
      BY <2>3, <3>3, <3>4, ToolFields
    <3>6. m # l
      BY <2>6, <2>8, <3>4
    <3>7. Excused(top, All)
      BY <2>2, <3>5, <3>6 DEF Excused, Clash
    <3>8. Standing(fin, ts, L \cup {l}, U, top, All)
      BY <3>2, <3>7 DEF Standing
    <3> QED
      BY <2>2, <3>8 DEF fin
  <2>9. CASE ~Has(set, tool.name) /\ ~HasSame(set, tool.name, schema)
    <3>1. added = Add(set, l.flat, schema, FALSE) /\ IsToolSet(added)
      BY <2>3, <2>4, AddLeaves DEF AddKeeps
    <3> HIDE DEF added
    <3>0. fin = IF tool.type = "custom" THEN MarkCustom(added, tool.name) ELSE added
      BY <2>5, <2>9
    <3>2. MarksOf(added, fin, l)
      <4>1. CASE tool.type = "custom"
        BY <2>3, <3>0, <3>1, <4>1, CustomMarks
      <4>2. CASE tool.type # "custom"
        BY <2>3, <3>0, <3>1, <4>2, NoMarks
      <4> QED
        BY <4>1, <4>2
    <3>3. l \notin L
      BY <2>4, <2>6, <2>9 DEF Fine
    <3>4. l \in All
      BY <2>2
    <3>5. FALSE \in BOOLEAN
      OBVIOUS
    <3>6. Standing(fin, ts, L \cup {l}, U, top, All)
      BY <1>3, <2>1, <2>3, <3>1, <3>2, <3>3, <3>4, <3>5, LeafDeclared
    <3> QED
      BY <2>2, <3>6 DEF fin
  <2> QED
    BY <2>7, <2>8, <2>9
<1> QED
  BY <1>1, <1>2, <1>3

---------------------------------------------------------------------------
FoundLeaves(tools, n)   == UNION {ShownLeaves(tools[i]) : i \in 1..n}
FoundUnusable(tools, n) == UNION {ShownUnusable(tools[i]) : i \in 1..n}

\* One tool more.
LEMMA FoundGrows ==
  ASSUME NEW tools, NEW n \in Nat
  PROVE  /\ FoundLeaves(tools, n + 1) = FoundLeaves(tools, n) \cup ShownLeaves(tools[n + 1])
         /\ FoundUnusable(tools, n + 1) = FoundUnusable(tools, n) \cup ShownUnusable(tools[n + 1])
         /\ FoundLeaves(tools, 0) = {} /\ FoundUnusable(tools, 0) = {}
<1>1. 1..(n + 1) = 1..n \cup {n + 1} /\ 1..0 = {}
  OBVIOUS
<1>2. FoundLeaves(tools, n + 1) = FoundLeaves(tools, n) \cup ShownLeaves(tools[n + 1])
  BY <1>1 DEF FoundLeaves
<1>3. FoundUnusable(tools, n + 1) = FoundUnusable(tools, n) \cup ShownUnusable(tools[n + 1])
  BY <1>1 DEF FoundUnusable
<1>4. FoundLeaves(tools, 0) = {} /\ FoundUnusable(tools, 0) = {}
  BY <1>1 DEF FoundLeaves, FoundUnusable
<1> QED
  BY <1>2, <1>3, <1>4

\* promote brings the conversion past the tools of an output, by induction over them.
LEMMA ToolsPromoted ==
  ASSUME NEW set, NEW ts, NEW L, NEW U, NEW top, NEW All, Standing(set, ts, L, U, top, All),
         L \subseteq All, NEW tools \in Seq(AllTools), FoundLeaves(tools, Len(tools)) \subseteq All
  PROVE  Standing(PromoteTools(set, tools), ts, L \cup FoundLeaves(tools, Len(tools)),
                  U \cup FoundUnusable(tools, Len(tools)), top, All)
<1> DEFINE N == Len(tools)
<1>0. IsSequence(tools) /\ DOMAIN tools = 1..N
  BY DEF IsSequence
<1>1. PICK f : PromotesTools(f, set, tools) /\ PromoteTools(set, tools) = f[N]
  BY <1>0, PromoteToolsIs
<1>2. N \in Nat
  OBVIOUS
<1>3. f[0] = set /\ \A n \in 1..N : f[n] = Promote(f[n - 1], tools[n])
  BY <1>1 DEF PromotesTools
<1> DEFINE P(n) == Standing(f[n], ts, L \cup FoundLeaves(tools, n), U \cup FoundUnusable(tools, n), top, All)
           S == {n \in Nat : n <= N => P(n)}
<1>4. 0 \in S
  <2>1. L \cup FoundLeaves(tools, 0) = L /\ U \cup FoundUnusable(tools, 0) = U
    BY FoundGrows
  <2>2. P(0)
    BY <1>3, <2>1
  <2> QED
    BY <2>2
<1>5. ASSUME NEW n \in Nat, n \in S PROVE n + 1 \in S
  <2> SUFFICES ASSUME n + 1 <= N PROVE P(n + 1)
    OBVIOUS
  <2> DEFINE t == tools[n + 1]
             L1 == L \cup FoundLeaves(tools, n)
             U1 == U \cup FoundUnusable(tools, n)
  <2>1. n + 1 \in 1..N /\ (n + 1) - 1 = n /\ P(n) /\ 1..n \subseteq 1..N
    BY <1>2, <1>5
  <2>2. f[n + 1] = Promote(f[n], t) /\ t \in AllTools
    BY <1>3, <2>1
  <2>3. FoundLeaves(tools, n) \subseteq FoundLeaves(tools, N) /\ ShownLeaves(t) \subseteq FoundLeaves(tools, N)
    BY <2>1 DEF FoundLeaves
  <2>4. L1 \subseteq All /\ ShownLeaves(t) \subseteq All
    BY <2>3
  <2>6. Standing(f[n + 1], ts, L1 \cup ShownLeaves(t), U1 \cup ShownUnusable(t), top, All)
    <3> HIDE DEF L1, U1
    <3>1. Standing(f[n], ts, L1, U1, top, All)
      BY <2>1 DEF L1, U1
    <3> HIDE DEF t
    <3> QED
      BY <2>2, <2>4, <3>1, ToolPromoted
  <2>7. /\ L1 \cup ShownLeaves(t) = L \cup FoundLeaves(tools, n + 1)
        /\ U1 \cup ShownUnusable(t) = U \cup FoundUnusable(tools, n + 1)
    BY FoundGrows
  <2> HIDE DEF L1, U1, t
  <2> QED
    BY <2>6, <2>7
<1> HIDE DEF S
<1>6. N \in S
  BY <1>2, <1>4, <1>5, Induction
<1>7. P(N)
  <2> HIDE DEF P, N
  <2>1. N <= N
    BY <1>2
  <2> QED
    BY <1>6, <2>1 DEF S
<1> QED
  BY <1>1, <1>7

---------------------------------------------------------------------------
\* What the output o of a search shows, and the first n of them.
OutputLeaves(ts, o)   == IF Promotable(ts, o) THEN FoundLeaves(o.tools, Len(o.tools)) ELSE {}
OutputUnusable(ts, o) == IF Promotable(ts, o) THEN FoundUnusable(o.tools, Len(o.tools)) ELSE {}

OutputsLeaves(ts, os, n)   == UNION {OutputLeaves(ts, os[i]) : i \in 1..n}
OutputsUnusable(ts, os, n) == UNION {OutputUnusable(ts, os[i]) : i \in 1..n}

\* One output more.
LEMMA OutputsGrow ==
  ASSUME NEW ts, NEW os, NEW n \in Nat
  PROVE  /\ OutputsLeaves(ts, os, n + 1) = OutputsLeaves(ts, os, n) \cup OutputLeaves(ts, os[n + 1])
         /\ OutputsUnusable(ts, os, n + 1) = OutputsUnusable(ts, os, n) \cup OutputUnusable(ts, os[n + 1])
         /\ OutputsLeaves(ts, os, 0) = {} /\ OutputsUnusable(ts, os, 0) = {}
<1>1. 1..(n + 1) = 1..n \cup {n + 1} /\ 1..0 = {}
  OBVIOUS
<1>2. OutputsLeaves(ts, os, n + 1) = OutputsLeaves(ts, os, n) \cup OutputLeaves(ts, os[n + 1])
  BY <1>1 DEF OutputsLeaves
<1>3. OutputsUnusable(ts, os, n + 1) = OutputsUnusable(ts, os, n) \cup OutputUnusable(ts, os[n + 1])
  BY <1>1 DEF OutputsUnusable
<1>4. OutputsLeaves(ts, os, 0) = {} /\ OutputsUnusable(ts, os, 0) = {}
  BY <1>1 DEF OutputsLeaves, OutputsUnusable
<1> QED
  BY <1>2, <1>3, <1>4

\* An output's tools.
LEMMA OutputTools == \A o \in ShownOutputs : o.tools \in Seq(AllTools)
<1> DEFINE T == Seq(AllTools)
<1> HIDE DEF T
<1>1. \A o \in [status : {"completed", "incomplete"}, tools : T] : o.tools \in T
  OBVIOUS
<1> QED
  BY <1>1 DEF T, ShownOutputs

\* convertToolSearchOutput brings the conversion past the outputs of searches, by induction over them.
LEMMA OutputsPromoted ==
  ASSUME NEW set, NEW ts, NEW L, NEW U, NEW top, NEW All, Standing(set, ts, L, U, top, All),
         L \subseteq All, NEW os \in Seq(ShownOutputs), OutputsLeaves(ts, os, Len(os)) \subseteq All
  PROVE  Standing(PromoteOutputs(set, os), ts, L \cup OutputsLeaves(ts, os, Len(os)),
                  U \cup OutputsUnusable(ts, os, Len(os)), top, All)
<1> DEFINE N == Len(os)
<1>0. IsSequence(os) /\ DOMAIN os = 1..N /\ set.toolSearch = ts
  BY DEF IsSequence, Standing
<1>1. PICK f : PromotesOutputs(f, set, os) /\ PromoteOutputs(set, os) = f[N]
  BY <1>0, PromoteOutputsIs
<1>2. N \in Nat
  OBVIOUS
<1>3. /\ f[0] = set
      /\ \A n \in 1..N : f[n] = IF Promotable(ts, os[n]) THEN PromoteTools(f[n - 1], os[n].tools) ELSE f[n - 1]
  BY <1>0, <1>1 DEF PromotesOutputs
<1> DEFINE P(n) == Standing(f[n], ts, L \cup OutputsLeaves(ts, os, n), U \cup OutputsUnusable(ts, os, n), top, All)
           S == {n \in Nat : n <= N => P(n)}
<1>4. 0 \in S
  <2>1. L \cup OutputsLeaves(ts, os, 0) = L /\ U \cup OutputsUnusable(ts, os, 0) = U
    BY OutputsGrow
  <2>2. P(0)
    BY <1>3, <2>1
  <2> QED
    BY <2>2
<1>5. ASSUME NEW n \in Nat, n \in S PROVE n + 1 \in S
  <2> SUFFICES ASSUME n + 1 <= N PROVE P(n + 1)
    OBVIOUS
  <2> DEFINE o == os[n + 1]
             L1 == L \cup OutputsLeaves(ts, os, n)
             U1 == U \cup OutputsUnusable(ts, os, n)
  <2>1. n + 1 \in 1..N /\ (n + 1) - 1 = n /\ P(n) /\ 1..n \subseteq 1..N
    BY <1>2, <1>5
  <2>0. o \in ShownOutputs
    BY <1>0, <2>1
  <2>5. o.tools \in Seq(AllTools)
    BY <2>0, OutputTools
  <2>2. f[n + 1] = IF Promotable(ts, o) THEN PromoteTools(f[n], o.tools) ELSE f[n]
    BY <1>3, <2>1
  <2>3. OutputsLeaves(ts, os, n) \subseteq OutputsLeaves(ts, os, N) /\ OutputLeaves(ts, o) \subseteq OutputsLeaves(ts, os, N)
    BY <2>1 DEF OutputsLeaves
  <2>4. L1 \subseteq All /\ OutputLeaves(ts, o) \subseteq All
    BY <2>3
  <2>6. Standing(f[n + 1], ts, L1 \cup OutputLeaves(ts, o), U1 \cup OutputUnusable(ts, o), top, All)
    <3> HIDE DEF L1, U1
    <3>1. Standing(f[n], ts, L1, U1, top, All)
      BY <2>1 DEF L1, U1
    <3> HIDE DEF o
    <3>2. CASE Promotable(ts, o)
      <4>1. /\ OutputLeaves(ts, o) = FoundLeaves(o.tools, Len(o.tools))
            /\ OutputUnusable(ts, o) = FoundUnusable(o.tools, Len(o.tools))
            /\ f[n + 1] = PromoteTools(f[n], o.tools)
        BY <2>2, <3>2 DEF OutputLeaves, OutputUnusable
      <4> QED
        BY <2>4, <2>5, <3>1, <4>1, ToolsPromoted
    <3>3. CASE ~Promotable(ts, o)
      <4>1. L1 \cup OutputLeaves(ts, o) = L1 /\ U1 \cup OutputUnusable(ts, o) = U1 /\ f[n + 1] = f[n]
        BY <2>2, <3>3 DEF OutputLeaves, OutputUnusable
      <4> QED
        BY <3>1, <4>1
    <3> QED
      BY <3>2, <3>3
  <2>7. /\ L1 \cup OutputLeaves(ts, o) = L \cup OutputsLeaves(ts, os, n + 1)
        /\ U1 \cup OutputUnusable(ts, o) = U \cup OutputsUnusable(ts, os, n + 1)
    BY OutputsGrow
  <2> HIDE DEF L1, U1, o
  <2> QED
    BY <2>6, <2>7
<1> HIDE DEF S
<1>6. N \in S
  BY <1>2, <1>4, <1>5, Induction
<1>7. P(N)
  <2> HIDE DEF P, N
  <2>1. N <= N
    BY <1>2
  <2> QED
    BY <1>6, <2>1 DEF S
<1> QED
  BY <1>1, <1>7

\* All that searches showed, as the properties say it.
ShownBy(ts, os) == UNION {ToSet(o.tools) : o \in {o \in ToSet(os) : Promotable(ts, o)}}

\* All that one output shows.
LEMMA FoundWhole ==
  ASSUME NEW tools, IsSequence(tools)
  PROVE  /\ FoundLeaves(tools, Len(tools)) = {Leaf(t, NoName) : t \in {t \in ToSet(tools) : Callable(t)}}
         /\ FoundUnusable(tools, Len(tools)) = {t \in ToSet(tools) : ~Callable(t)}
<1>1. ToSet(tools) = {tools[i] : i \in 1..Len(tools)}
  BY DEF ToSet, IsSequence
<1>2. FoundLeaves(tools, Len(tools)) = {Leaf(t, NoName) : t \in {t \in ToSet(tools) : Callable(t)}}
  BY <1>1 DEF FoundLeaves, ShownLeaves
<1>3. FoundUnusable(tools, Len(tools)) = {t \in ToSet(tools) : ~Callable(t)}
  BY <1>1 DEF FoundUnusable, ShownUnusable
<1> QED
  BY <1>2, <1>3

\* All that the outputs show.
LEMMA OutputsWhole ==
  ASSUME NEW ts, NEW os \in Seq(ShownOutputs)
  PROVE  /\ OutputsLeaves(ts, os, Len(os)) = {Leaf(t, NoName) : t \in {t \in ShownBy(ts, os) : Callable(t)}}
         /\ OutputsUnusable(ts, os, Len(os)) = {t \in ShownBy(ts, os) : ~Callable(t)}
<1>1. ToSet(os) = {os[i] : i \in 1..Len(os)}
  BY DEF ToSet
<1>2. ASSUME NEW i \in 1..Len(os) PROVE IsSequence(os[i].tools)
  <2>1. os[i].tools \in Seq(AllTools)
    BY OutputTools
  <2> QED
    BY <2>1 DEF IsSequence
<1>3. ASSUME NEW l PROVE l \in OutputsLeaves(ts, os, Len(os)) <=> \E t \in ShownBy(ts, os) : Callable(t) /\ l = Leaf(t, NoName)
  <2>1. l \in OutputsLeaves(ts, os, Len(os)) <=> \E i \in 1..Len(os) : Promotable(ts, os[i]) /\ l \in FoundLeaves(os[i].tools, Len(os[i].tools))
    BY DEF OutputsLeaves, OutputLeaves
  <2>2. \A i \in 1..Len(os) : l \in FoundLeaves(os[i].tools, Len(os[i].tools)) <=> \E t \in ToSet(os[i].tools) : Callable(t) /\ l = Leaf(t, NoName)
    <3> SUFFICES ASSUME NEW i \in 1..Len(os)
                 PROVE  l \in FoundLeaves(os[i].tools, Len(os[i].tools)) <=> \E t \in ToSet(os[i].tools) : Callable(t) /\ l = Leaf(t, NoName)
      OBVIOUS
    <3> DEFINE tools == os[i].tools
    <3>1. IsSequence(tools)
      BY <1>2
    <3> HIDE DEF tools
    <3>2. FoundLeaves(tools, Len(tools)) = {Leaf(t, NoName) : t \in {t \in ToSet(tools) : Callable(t)}}
      BY <3>1, FoundWhole
    <3> QED
      BY <3>2 DEF tools
  <2> QED
    BY <1>1, <2>1, <2>2 DEF ShownBy
<1>4. ASSUME NEW u PROVE u \in OutputsUnusable(ts, os, Len(os)) <=> u \in ShownBy(ts, os) /\ ~Callable(u)
  <2>1. u \in OutputsUnusable(ts, os, Len(os)) <=> \E i \in 1..Len(os) : Promotable(ts, os[i]) /\ u \in FoundUnusable(os[i].tools, Len(os[i].tools))
    BY DEF OutputsUnusable, OutputUnusable
  <2>2. \A i \in 1..Len(os) : u \in FoundUnusable(os[i].tools, Len(os[i].tools)) <=> u \in ToSet(os[i].tools) /\ ~Callable(u)
    <3> SUFFICES ASSUME NEW i \in 1..Len(os)
                 PROVE  u \in FoundUnusable(os[i].tools, Len(os[i].tools)) <=> u \in ToSet(os[i].tools) /\ ~Callable(u)
      OBVIOUS
    <3> DEFINE tools == os[i].tools
    <3>1. IsSequence(tools)
      BY <1>2
    <3> HIDE DEF tools
    <3>2. FoundUnusable(tools, Len(tools)) = {t \in ToSet(tools) : ~Callable(t)}
      BY <3>1, FoundWhole
    <3> QED
      BY <3>2 DEF tools
  <2> QED
    BY <1>1, <2>1, <2>2 DEF ShownBy
<1> QED
  BY <1>3, <1>4

---------------------------------------------------------------------------
\* A new set stands before all declarations.
LEMMA NewSetStands ==
  ASSUME NEW ts, NEW top, NEW All
  PROVE  Standing(NewToolSet(ts), ts, {}, {}, top, All)
<1> DEFINE set == NewToolSet(ts)
<1>1. /\ DOMAIN set = ToolSetFields /\ set.tools = <<>> /\ set.search = FALSE /\ set.custom = {}
      /\ set.namespace = <<>> /\ set.toolSearch = ts /\ set.error = None /\ set.warns = {}
  BY DEF NewToolSet, ToolSetFields
<1> HIDE DEF set
<1>2. IsToolSet(set)
  <2>1. <<>> \in Seq(STRING)
    OBVIOUS
  <2>2. IsSequence(<<>>)
    BY <2>1 DEF IsSequence
  <2> QED
    BY <1>1, <2>2 DEF IsToolSet
<1>3. Len(set.tools) = 0 /\ DOMAIN set.namespace = {} /\ 1..0 = {}
  BY <1>1
<1>4. Fine(set, {})
  BY <1>1, <1>3 DEF Fine, NamesOnce
<1> QED
  BY <1>1, <1>2, <1>4 DEF Standing, OfTools, SaidOf, set

\* The leaves and the unusable of a request, list by list.
LEMMA LeavesAre ==
  ASSUME IsRequest(request)
  PROVE  /\ Leaves = (ListLeaves(request.top, Len(request.top))
                        \cup ListLeaves(request.additional, Len(request.additional)))
                       \cup OutputsLeaves(ToolSearch(request), request.outputs, Len(request.outputs))
         /\ Unusable = (ListUnusable(request.top, Len(request.top))
                          \cup ListUnusable(request.additional, Len(request.additional)))
                         \cup OutputsUnusable(ToolSearch(request), request.outputs, Len(request.outputs))
<1> DEFINE top == request.top
           add == request.additional
           os  == request.outputs
           ts  == ToolSearch(request)
<1>1. top \in Seq(AllTools) /\ add \in Seq(AllTools) /\ os \in Seq(ShownOutputs)
  BY DEF IsRequest
<1>2. Shown = ShownBy(ts, os)
  BY DEF Shown, ShownBy
<1>3. Declarations = ToSet(top) \cup ToSet(add)
  BY DEF Declarations
<1> HIDE DEF top, add, os, ts
<1>4. IsSequence(top) /\ IsSequence(add)
  BY <1>1 DEF IsSequence
<1>5. /\ ListLeaves(top, Len(top)) = UNION {LeavesOf(t) : t \in ToSet(top)}
      /\ ListUnusable(top, Len(top)) = UNION {UnusableOf(t) : t \in ToSet(top)}
      /\ ListLeaves(add, Len(add)) = UNION {LeavesOf(t) : t \in ToSet(add)}
      /\ ListUnusable(add, Len(add)) = UNION {UnusableOf(t) : t \in ToSet(add)}
  BY <1>4, ListWhole
<1>6. /\ OutputsLeaves(ts, os, Len(os)) = {Leaf(t, NoName) : t \in {t \in ShownBy(ts, os) : Callable(t)}}
      /\ OutputsUnusable(ts, os, Len(os)) = {t \in ShownBy(ts, os) : ~Callable(t)}
  BY <1>1, OutputsWhole
<1>7. /\ UNION {LeavesOf(t) : t \in Declarations} = ListLeaves(top, Len(top)) \cup ListLeaves(add, Len(add))
      /\ UNION {UnusableOf(t) : t \in Declarations} = ListUnusable(top, Len(top)) \cup ListUnusable(add, Len(add))
  BY <1>3, <1>5
<1>8. Leaves = (ListLeaves(top, Len(top)) \cup ListLeaves(add, Len(add))) \cup OutputsLeaves(ts, os, Len(os))
  <2>1. {Leaf(t, NoName) : t \in {t \in Shown : Callable(t)}} = OutputsLeaves(ts, os, Len(os))
    BY <1>2, <1>6
  <2> QED
    BY <1>7, <2>1, Zenon DEF Leaves
<1>9. Unusable = (ListUnusable(top, Len(top)) \cup ListUnusable(add, Len(add))) \cup OutputsUnusable(ts, os, Len(os))
  <2>1. {t \in Shown : ~Callable(t)} = OutputsUnusable(ts, os, Len(os))
    BY <1>2, <1>6
  <2> QED
    BY <1>7, <2>1, Zenon DEF Unusable
<1> QED
  BY <1>8, <1>9 DEF top, add, os, ts

\* responsesTools brings the conversion past all of a request's declarations.
LEMMA ResponsesStands ==
  ASSUME IsRequest(request)
  PROVE  Standing(ResponsesToolSet(request), ToolSearch(request), Leaves, Unusable, request.top, Leaves)
<1> DEFINE top == request.top
           add == request.additional
           os  == request.outputs
           ts  == ToolSearch(request)
           L1  == ListLeaves(top, Len(top))
           U1  == ListUnusable(top, Len(top))
           L2  == ListLeaves(add, Len(add))
           U2  == ListUnusable(add, Len(add))
           L3  == OutputsLeaves(ts, os, Len(os))
           U3  == OutputsUnusable(ts, os, Len(os))
           s0  == NewToolSet(ts)
           s1  == Declare(s0, top, FALSE)
           s2  == Declare(s1, add, TRUE)
           s3  == PromoteOutputs(s2, os)
           All == Leaves
<1>1. ResponsesToolSet(request) = s3
  BY DEF ResponsesToolSet, ResponsesTools
<1>2. top \in Seq(AllTools) /\ add \in Seq(AllTools) /\ os \in Seq(ShownOutputs)
  BY DEF IsRequest
<1>3. All = (L1 \cup L2) \cup L3 /\ Unusable = (U1 \cup U2) \cup U3
  BY LeavesAre
<1> HIDE DEF All
<1>4. Standing(s0, ts, {}, {}, top, All)
  BY NewSetStands
<1> HIDE DEF s0, ts
<1>5. Standing(s1, ts, {} \cup L1, {} \cup U1, top, All)
  <2>1. ListExcused(top, {}, FALSE, top, All)
    BY DEF ListExcused, Excused
  <2>2. {} \subseteq All /\ L1 \subseteq All /\ FALSE \in BOOLEAN
    BY <1>3
  <2> QED
    BY <1>2, <1>4, <2>1, <2>2, ToolsDeclared
<1>6. Standing(s1, ts, L1, U1, top, All)
  <2>1. {} \cup L1 = L1 /\ {} \cup U1 = U1
    OBVIOUS
  <2> HIDE DEF L1, U1
  <2> QED
    BY <1>5, <2>1
<1> HIDE DEF s1
<1>7. Standing(s2, ts, L1 \cup L2, U1 \cup U2, top, All)
  <2> HIDE DEF L1, U1
  <2>1. ListExcused(add, L1, TRUE, top, All)
    BY DEF ListExcused
  <2>2. L1 \subseteq All /\ L2 \subseteq All /\ TRUE \in BOOLEAN
    BY <1>3
  <2> QED
    BY <1>2, <1>6, <2>1, <2>2, ToolsDeclared
<1> HIDE DEF s2
<1>8. Standing(s3, ts, (L1 \cup L2) \cup L3, (U1 \cup U2) \cup U3, top, All)
  <2> HIDE DEF L1, U1, L2, U2
  <2>1. L1 \cup L2 \subseteq All /\ L3 \subseteq All
    BY <1>3
  <2> QED
    BY <1>2, <1>7, <2>1, OutputsPromoted
<1> HIDE DEF s3, L1, U1, L2, U2, L3, U3
<1> QED
  BY <1>1, <1>3, <1>8 DEF All, ts

---------------------------------------------------------------------------
\* What the leaves of a request have in common.
TrueLeaf(l, ts) ==
  /\ l.type \in {"function", "custom", "tool_search"}
  /\ NormalizeSchema(l.schema) = l.schema
  /\ l.type # "tool_search" /\ l.namespace = NoName => l.name = l.flat
  /\ l.type = "tool_search" => ts /\ l.flat = SearchName

\* The leaf of a declaration is a true one,
LEMMA LeafTrue ==
  ASSUME NEW tool, tool.name \in Seq(STRING), NamedLeaf(tool), NEW ns, NEW ts \in BOOLEAN,
         tool.type = "tool_search" => ts
  PROVE  TrueLeaf(Leaf(tool, ns), ts)
<1>1. CASE tool.type = "function"
  <2>1. NormalizeSchema(NormalizeSchema(tool.schema)) = NormalizeSchema(tool.schema)
    BY NormalSchemas
  <2>2. Flatten(NoName, tool.name) = tool.name
    BY DEF Flatten, NoName
  <2> QED
    BY <1>1, <2>1, <2>2, FunctionLeaf DEF TrueLeaf
<1>2. CASE tool.type = "custom"
  <2>2. Flatten(NoName, tool.name) = tool.name
    BY DEF Flatten, NoName
  <2> QED
    BY <1>2, <2>2, CustomLeaf, NormalSchemas DEF TrueLeaf
<1>3. CASE tool.type = "tool_search"
  BY <1>3, SearchLeaf, NormalSchemas DEF TrueLeaf
<1> QED
  BY <1>1, <1>2, <1>3 DEF NamedLeaf, Callable, Usable

\* and so are all leaves of a request.
LEMMA LeavesTrue ==
  ASSUME IsRequest(request)
  PROVE  \A l \in Leaves : TrueLeaf(l, ToolSearch(request))
<1> DEFINE ts == ToolSearch(request)
<1>1. ts \in BOOLEAN
  BY DEF ToolSearch, DeclaresToolSearch
<1>2. Declarations \subseteq AllTools /\ Shown \subseteq AllTools
  <2>1. request.top \in Seq(AllTools) /\ request.additional \in Seq(AllTools) /\ request.outputs \in Seq(ShownOutputs)
    BY DEF IsRequest
  <2>2. Declarations \subseteq AllTools
    BY <2>1 DEF Declarations, ToSet
  <2>3. ToSet(request.outputs) \subseteq ShownOutputs
    BY <2>1 DEF ToSet
  <2>4. \A o \in ToSet(request.outputs) : ToSet(o.tools) \subseteq AllTools
    <3> SUFFICES ASSUME NEW o \in ToSet(request.outputs) PROVE ToSet(o.tools) \subseteq AllTools
      OBVIOUS
    <3>1. o.tools \in Seq(AllTools)
      BY <2>3, OutputTools
    <3> QED
      BY <3>1 DEF ToSet
  <2> QED
    BY <2>2, <2>4 DEF Shown
<1>3. \A t \in Declarations : t.type = "tool_search" => ts
  BY DEF Declarations, ToSet, ToolSearch, DeclaresToolSearch
<1> HIDE DEF ts
<1>4. ASSUME NEW t \in Declarations, NEW l \in LeavesOf(t) PROVE TrueLeaf(l, ts)
  <2>1. t.name \in Seq(STRING) /\ t.children \in Seq(PlainTools)
    BY <1>2, <1>4 DEF AllTools
  <2>2. CASE NamedLeaf(t)
    <3>1. l = Leaf(t, NoName)
      BY <1>4, <2>2 DEF LeavesOf
    <3> QED
      BY <1>1, <1>3, <1>4, <2>1, <2>2, <3>1, LeafTrue
  <2>3. CASE ~NamedLeaf(t)
    <3>1. PICK c \in ToSet(t.children) : Callable(c) /\ l = Leaf(c, t.name)
      BY <1>4, <2>3 DEF LeavesOf
    <3>2. c.name \in Seq(STRING) /\ NamedLeaf(c) /\ c.type # "tool_search"
      <4>1. c \in PlainTools
        BY <2>1 DEF ToSet
      <4>2. c.name \in Seq(STRING)
        BY <4>1 DEF PlainTools
      <4> QED
        BY <3>1, <4>2 DEF NamedLeaf, Callable, Usable
    <3> QED
      BY <1>1, <3>1, <3>2, LeafTrue
  <2> QED
    BY <2>2, <2>3
<1>5. ASSUME NEW t \in Shown, Callable(t) PROVE TrueLeaf(Leaf(t, NoName), ts)
  <2>1. t.name \in Seq(STRING) /\ NamedLeaf(t) /\ t.type # "tool_search"
    <3>1. t.name \in Seq(STRING)
      BY <1>2 DEF AllTools
    <3> QED
      BY <1>5, <3>1 DEF NamedLeaf, Callable, Usable
  <2> QED
    BY <1>1, <2>1, LeafTrue
<1>6. ASSUME NEW l \in Leaves PROVE TrueLeaf(l, ts)
  <2>1. CASE \E t \in Declarations : l \in LeavesOf(t)
    BY <1>4, <2>1
  <2>2. CASE \E t \in Shown : Callable(t) /\ l = Leaf(t, NoName)
    BY <1>5, <2>2
  <2> QED
    BY <1>6, <2>1, <2>2 DEF Leaves
<1> QED
  BY <1>6 DEF ts

\* A request that declares the search has the proxy's tool among its leaves.
LEMMA ProxyLeaf ==
  ASSUME ToolSearch(request)
  PROVE  \E l \in Leaves : l.type = "tool_search" /\ l.flat = SearchName
<1>1. PICK t \in Declarations : t.type = "tool_search"
  BY DEF Declarations, ToSet, ToolSearch, DeclaresToolSearch
<1>2. Leaf(t, NoName) \in LeavesOf(t)
  <2>1. NamedLeaf(t)
    BY <1>1 DEF NamedLeaf
  <2> QED
    BY <2>1 DEF LeavesOf
<1>3. Leaf(t, NoName) \in Leaves
  BY <1>2 DEF Leaves
<1>4. Leaf(t, NoName).type = "tool_search" /\ Leaf(t, NoName).flat = SearchName
  BY <1>1, SearchLeaf
<1> QED
  BY <1>3, <1>4

---------------------------------------------------------------------------
\* What a setting of the Messages endpoint becomes.
LEMMA MessagesChoice ==
  ASSUME NEW choice \in ChoicesOf("messages") \cup {NoChoice}
  PROVE  LET c == ConvertToolChoice(choice)
         IN /\ Only(c.warns, "choice")
            /\ c.warns # {} \/ c.value = choice
            /\ Wish(c.value) \in {"free", Wish(choice)}
            /\ c.value.disable = choice.disable
<1>1. CASE choice = NoChoice
  <2>1. ConvertToolChoice(choice).value = NoChoice /\ ConvertToolChoice(choice).warns = {}
    BY <1>1 DEF ConvertToolChoice, Outcome, NoChoice
  <2> QED
    BY <1>1, <2>1 DEF Only
<1>2. CASE choice \in ChoicesOf("messages")
  <2> DEFINE c == ConvertToolChoice(choice)
             legal == choice.type \in {"auto", "any", "tool", "none"}
             auto == [Object("auto", NoName) EXCEPT !.disable = choice.disable]
  <2>1. choice.form = "object"
    BY <1>2 DEF ChoicesOf
  <2>2. /\ c.value = IF legal THEN choice ELSE auto
        /\ c.warns = IF ~legal \/ (choice.type = "tool" /\ choice.name = NoName) THEN {<<"choice", "fallback">>} ELSE {}
    BY <2>1 DEF ConvertToolChoice, Outcome
  <2>3. auto.disable = choice.disable /\ Wish(auto) = "free"
    BY DEF Object, Wish
  <2> HIDE DEF c, auto
  <2>4. Only(c.warns, "choice")
    BY <2>2 DEF Only
  <2>5. c.warns # {} \/ c.value = choice
    BY <2>2
  <2>6. Wish(c.value) \in {"free", Wish(choice)} /\ c.value.disable = choice.disable
    <3>1. CASE legal
      BY <2>2, <3>1
    <3>2. CASE ~legal
      BY <2>2, <2>3, <3>2
    <3> QED
      BY <3>1, <3>2
  <2> QED
    BY <2>4, <2>5, <2>6 DEF c
<1> QED
  BY <1>1, <1>2

\* The settings of a Messages request are honoured.
LEMMA MessagesHonours ==
  ASSUME NEW r, IsRequest(r), r.endpoint = "messages"
  PROVE  LET s == MessagesRequest(r)
         IN ChoiceHonoured(r, s.choice, s.warns) /\ EffortHonoured(r, s.effort, s.warns)
              /\ LimitHonoured(r, s.max_tokens, s.warns)
<1> DEFINE c == ConvertToolChoice(r.choice)
           m == MaxTokens(r.max_tokens)
           T == ConvertTools(r.top).warns
           s == CcParams(r.top, r.choice, r.effort, r.max_tokens, {})
<1>1. MessagesRequest(r) = s
  BY DEF MessagesRequest
<1>2. /\ Only(c.warns, "choice")
      /\ c.warns # {} \/ c.value = r.choice
      /\ Wish(c.value) \in {"free", Wish(r.choice)}
      /\ c.value.disable = r.choice.disable
  <2>1. r.choice \in ChoicesOf("messages") \cup {NoChoice}
    BY DEF IsRequest
  <2> QED
    BY <2>1, MessagesChoice
<1>3. /\ m.value \in 1..CeilingTokens
      /\ r.max_tokens \in {0, m.value} \/ m.warns # {}
      /\ Only(m.warns, "max_tokens")
  <2>1. r.max_tokens \in Limits \cup {0}
    BY DEF IsRequest
  <2> QED
    BY <2>1, MaxTokensBounded
<1>4. /\ s.choice = c.value /\ s.effort = ThinkingEffort(r.effort) /\ s.max_tokens = m.value
      /\ s.warns = (({} \cup T) \cup c.warns) \cup m.warns
  BY CcParamsIs
<1>5. OfTools(T)
  BY ConvertedToolsWarn
<1> HIDE DEF c, m, T, s
<1>6. /\ Says(s.warns, "choice") <=> c.warns # {}
      /\ ~Says(s.warns, "parallel") /\ ~Says(s.warns, "effort")
      /\ Says(s.warns, "max_tokens") <=> m.warns # {}
  BY <1>2, <1>3, <1>4, <1>5 DEF Says, Only, OfTools
<1>7. ChoiceHonoured(r, s.choice, s.warns)
  <2>1. Asked(r) <=> r.choice.disable = "true"
    BY DEF Asked
  <2> QED
    BY <1>2, <1>4, <1>6, <2>1 DEF ChoiceHonoured
<1>8. EffortHonoured(r, s.effort, s.warns)
  <2>1. r.effort \in {"disabled", "adaptive", "budget0", "budget1", "budget5000", "budget10000", Absent}
    BY DEF IsRequest, Efforts
  <2>2. ThinkingEffort(r.effort) # Absent <=> Deep(r)
    BY <2>1 DEF ThinkingEffort, Deep, Absent
  <2> QED
    BY <1>4, <1>6, <2>2 DEF EffortHonoured
<1>9. LimitHonoured(r, s.max_tokens, s.warns)
  BY <1>3, <1>4, <1>6 DEF LimitHonoured
<1> QED
  BY <1>1, <1>7, <1>8, <1>9

\* SettingsHonoured, in its three parts.
LEMMA SettingsAre ==
  SettingsHonoured <=>
    (sent.refused = None =>
       /\ ChoiceHonoured(request, sent.choice, sent.warns)
       /\ EffortHonoured(request, sent.effort, sent.warns)
       /\ LimitHonoured(request, sent.max_tokens, sent.warns))
BY DEF SettingsHonoured, ChoiceHonoured, EffortHonoured, LimitHonoured, Told, Says, Asked, Deep

\* A converted request has its settings honoured.
LEMMA HonoursSettings ==
  ASSUME RequestConverted
  PROVE  SettingsHonoured
<1>0. IsRequest(request) /\ sent = Conversion(request, toolSet)
  BY DEF RequestConverted
<1>1. CASE request.endpoint = "messages"
  <2>1. sent = MessagesRequest(request)
    BY <1>0, <1>1 DEF Conversion
  <2> QED
    BY <1>0, <1>1, <2>1, MessagesHonours, SettingsAre
<1>2. CASE request.endpoint = "chat"
  <2> DEFINE tools == ChatTools(request.top)
             s == OpenAIRequest(request, tools.value, {"function"}, tools.warns)
  <2>1. sent = s
    BY <1>0, <1>2 DEF Conversion, ChatRequest
  <2>2. OfTools(tools.warns)
    <3> DEFINE kept == SelectSeq(request.top, LAMBDA t : Usable(t, "function"))
    <3>1. tools.warns = {<<"dropped", t>> : t \in ToSet(request.top) \ ToSet(kept)}
      BY DEF ChatTools, Outcome
    <3> HIDE DEF kept, tools
    <3> QED
      BY <3>1 DEF OfTools
  <2> HIDE DEF tools
  <2>3. /\ ChoiceHonoured(request, s.choice, s.warns) /\ EffortHonoured(request, s.effort, s.warns)
        /\ LimitHonoured(request, s.max_tokens, s.warns)
    <3>1. {"function"} \subseteq {"function", "custom"} /\ request.endpoint # "messages"
      BY <1>2
    <3> QED
      BY <1>0, <2>2, <3>1, OpenAIHonours
  <2> HIDE DEF s
  <2> QED
    BY <2>1, <2>3, SettingsAre
<1>3. CASE request.endpoint = "responses"
  <2> SUFFICES ASSUME sent.refused = None PROVE SettingsHonoured
    BY SettingsAre
  <2> DEFINE kept == {<<"notPromoted", output>> :
                        output \in {o \in ToSet(request.outputs) : ~Promotable(ToolSearch(request), o)}}
             W == toolSet.warns \cup kept
             s == OpenAIRequest(request, toolSet.tools, {"function", "custom"}, W)
  <2>1. sent = ResponsesRequest(request, toolSet)
    BY <1>0, <1>3 DEF Conversion
  <2>2. toolSet.error = None
    <3>1. Refusal(toolSet.error).refused = toolSet.error
      BY DEF Refusal
    <3> QED
      BY <2>1, <3>1 DEF ResponsesRequest
  <2>3. sent = s
    BY <2>1, <2>2 DEF ResponsesRequest
  <2>4. OfTools(W)
    <3>1. OfTools(toolSet.warns)
      <4>1. toolSet = ResponsesToolSet(request)
        BY <1>3 DEF RequestConverted
      <4> QED
        BY <1>0, <4>1, ResponsesStands DEF Standing
    <3> QED
      BY <3>1 DEF OfTools
  <2> HIDE DEF W
  <2>5. /\ ChoiceHonoured(request, s.choice, s.warns) /\ EffortHonoured(request, s.effort, s.warns)
        /\ LimitHonoured(request, s.max_tokens, s.warns)
    <3>1. {"function", "custom"} \subseteq {"function", "custom"} /\ request.endpoint # "messages"
      BY <1>3
    <3> QED
      BY <1>0, <2>4, <3>1, OpenAIHonours
  <2> HIDE DEF s
  <2> QED
    BY <2>3, <2>5, SettingsAre
<1> QED
  BY <1>0, <1>1, <1>2, <1>3 DEF IsRequest, Endpoints

---------------------------------------------------------------------------
\* An accepted request has the tools of its set.
LEMMA AcceptedSet ==
  ASSUME RequestConverted, request.endpoint = "responses"
  PROVE  /\ Standing(toolSet, ToolSearch(request), Leaves, Unusable, request.top, Leaves)
         /\ sent.refused = toolSet.error
         /\ sent.refused = None =>
              /\ toolSet.warns \subseteq sent.warns
              /\ sent.tools = ConvertTools(toolSet.tools).value
<1>1. Standing(toolSet, ToolSearch(request), Leaves, Unusable, request.top, Leaves)
  BY ResponsesStands DEF RequestConverted
<1>2. sent = ResponsesRequest(request, toolSet)
  BY DEF RequestConverted, Conversion
<1>3. CASE toolSet.error # None
  <2>1. sent = Refusal(toolSet.error)
    BY <1>2, <1>3 DEF ResponsesRequest
  <2>2. sent.refused = toolSet.error
    BY <2>1 DEF Refusal
  <2> QED
    BY <1>1, <1>3, <2>2
<1>4. CASE toolSet.error = None
  <2> DEFINE W == toolSet.warns \cup {<<"notPromoted", output>> :
                        output \in {o \in ToSet(request.outputs) : ~Promotable(ToolSearch(request), o)}}
  <2>1. sent = OpenAIRequest(request, toolSet.tools, {"function", "custom"}, W)
    BY <1>2, <1>4 DEF ResponsesRequest
  <2>2. toolSet.warns \subseteq W
    OBVIOUS
  <2> HIDE DEF W
  <2>3. PICK choice, effort, said : sent = CcParams(toolSet.tools, choice, effort, request.max_tokens, W \cup said)
    <3> DEFINE choice == ToolChoice(request.choice, toolSet.tools # <<>>, {"function", "custom"})
               merged == ApplyParallel(request.parallel, toolSet.tools # <<>>, choice.value)
               effort == ReasoningEffort(request.effort)
               C == choice.warns
               M == merged.warns
               E == effort.warns
    <3>1. sent = CcParams(toolSet.tools, merged.value, effort.value, request.max_tokens, ((W \cup C) \cup M) \cup E)
      BY <2>1 DEF OpenAIRequest
    <3> HIDE DEF choice, merged, effort, C, M, E
    <3>2. ((W \cup C) \cup M) \cup E = W \cup ((C \cup M) \cup E)
      OBVIOUS
    <3> QED
      BY <3>1, <3>2, Zenon
  <2>4. /\ sent.refused = None /\ sent.tools = ConvertTools(toolSet.tools).value
        /\ W \cup said \subseteq sent.warns
    BY <2>3, CcParamsIs
  <2> QED
    BY <1>1, <1>4, <2>2, <2>4
<1> QED
  BY <1>3, <1>4

\* Converting the tools of a set again changes none of them.
LEMMA SentTools ==
  ASSUME RequestConverted, OnResponses
  PROVE  /\ sent.tools = [k \in 1..Len(toolSet.tools) |-> toolSet.tools[k]]
         /\ DOMAIN sent.tools = 1..Len(toolSet.tools)
         /\ \A k \in 1..Len(toolSet.tools) : sent.tools[k] = toolSet.tools[k]
<1> DEFINE s == toolSet.tools
<1>1. Standing(toolSet, ToolSearch(request), Leaves, Unusable, request.top, Leaves)
  BY AcceptedSet DEF OnResponses
<1>2. sent.tools = ConvertTools(s).value /\ toolSet.error = None
  BY AcceptedSet DEF OnResponses
<1>3. IsToolSet(toolSet) /\ Fine(toolSet, Leaves)
  BY <1>1, <1>2, Stands
<1>4. DOMAIN s = 1..Len(s)
  BY <1>3 DEF IsToolSet, IsSequence
<1> DEFINE norm == [k \in DOMAIN s |-> [name |-> s[k].name, schema |-> NormalizeSchema(s[k].schema)]]
<1>5. sent.tools = norm
  BY <1>2 DEF ConvertTools, Outcome
<1>6. ASSUME NEW k \in 1..Len(s) PROVE [name |-> s[k].name, schema |-> NormalizeSchema(s[k].schema)] = s[k]
  <2>1. PICK l \in Leaves : s[k] = AsTool(l)
    BY <1>3 DEF Fine
  <2>2. NormalizeSchema(l.schema) = l.schema
    BY LeavesTrue DEF RequestConverted, TrueLeaf
  <2>3. s[k].name = l.flat /\ s[k].schema = l.schema
    BY <2>1, ToolFields
  <2> QED
    BY <2>1, <2>2, <2>3 DEF AsTool
<1>7. DOMAIN sent.tools = 1..Len(s) /\ \A k \in 1..Len(s) : sent.tools[k] = s[k]
  BY <1>4, <1>5, <1>6
<1>8. sent.tools = [k \in 1..Len(s) |-> s[k]]
  BY <1>4, <1>5, <1>6
<1> QED
  BY <1>7, <1>8

\* A converted request has its tools, each of them and no others.
LEMMA ReachesTools ==
  ASSUME RequestConverted
  PROVE  EveryToolReachable
<1>1. ASSUME OnResponses
      PROVE  /\ \A l \in Leaves : AsTool(l) \in ToSet(sent.tools)
             /\ \A t \in ToSet(sent.tools) : \E l \in Leaves : t = AsTool(l)
             /\ \A j, k \in DOMAIN sent.tools : sent.tools[j].name = sent.tools[k].name => j = k
             /\ \A t \in Unusable : <<"dropped", t>> \in sent.warns
  <2>1. /\ Standing(toolSet, ToolSearch(request), Leaves, Unusable, request.top, Leaves)
        /\ toolSet.error = None /\ toolSet.warns \subseteq sent.warns
    BY <1>1, AcceptedSet DEF OnResponses
  <2>2. Fine(toolSet, Leaves) /\ SaidOf(toolSet, Unusable)
    BY <2>1 DEF Standing
  <2>3. DOMAIN sent.tools = 1..Len(toolSet.tools) /\ \A k \in 1..Len(toolSet.tools) : sent.tools[k] = toolSet.tools[k]
    BY <1>1, SentTools
  <2>4. ToSet(sent.tools) = {toolSet.tools[k] : k \in 1..Len(toolSet.tools)}
    BY <2>3 DEF ToSet
  <2>5. \A l \in Leaves : AsTool(l) \in ToSet(sent.tools)
    BY <2>2, <2>4 DEF Fine
  <2>6. \A t \in ToSet(sent.tools) : \E l \in Leaves : t = AsTool(l)
    BY <2>2, <2>4 DEF Fine
  <2>7. \A j, k \in DOMAIN sent.tools : sent.tools[j].name = sent.tools[k].name => j = k
    BY <2>2, <2>3 DEF Fine, NamesOnce
  <2>8. \A t \in Unusable : <<"dropped", t>> \in sent.warns
    BY <2>1, <2>2 DEF SaidOf
  <2> QED
    BY <2>5, <2>6, <2>7, <2>8
<1>2. ASSUME sent.refused # None PROVE Clash(Leaves) \/ DeclaredTwice(request.top)
  <2>0. IsRequest(request) /\ sent = Conversion(request, toolSet)
    BY DEF RequestConverted
  <2>1. CASE request.endpoint = "responses"
    BY <1>2, <2>1, AcceptedSet DEF Standing, Excused
  <2>2. CASE request.endpoint = "messages"
    BY <1>2, <2>0, <2>2, CcParamsIs DEF Conversion, MessagesRequest
  <2>3. CASE request.endpoint = "chat"
    <3>1. sent = ChatRequest(request)
      BY <2>0, <2>3 DEF Conversion
    <3>2. \A r, tools, named, told : OpenAIRequest(r, tools, named, told).refused = None
      BY CcParamsIs DEF OpenAIRequest
    <3> QED
      BY <1>2, <3>1, <3>2 DEF ChatRequest
  <2> QED
    BY <2>0, <2>1, <2>2, <2>3 DEF IsRequest, Endpoints
<1> QED
  BY <1>1, <1>2 DEF EveryToolReachable

\* The calls of a converted request's tools come back as declared.
LEMMA RestoresCalls ==
  ASSUME RequestConverted
  PROVE  CallsComeBack
<1> SUFFICES ASSUME OnResponses, NEW t \in ToSet(sent.tools)
             PROVE  LET declared == {l \in Leaves : l.flat = t.name}
                    IN \/ \E l \in declared : l.type = "custom" /\ l.namespace # NoName
                       \/ \E l \in declared : Restore(toolSet, t.name) = AsDeclared(l)
  BY DEF CallsComeBack
<1> DEFINE name == t.name
           ts == ToolSearch(request)
<1>1. /\ Standing(toolSet, ts, Leaves, Unusable, request.top, Leaves)
      /\ toolSet.error = None
  BY AcceptedSet DEF OnResponses
<1>2. Fine(toolSet, Leaves) /\ toolSet.toolSearch = ts
  BY <1>1 DEF Standing
<1>3. \A l \in Leaves : TrueLeaf(l, ts)
  BY LeavesTrue DEF RequestConverted
<1>4. PICK l \in Leaves : l.flat = name /\ Marked(toolSet, l)
  <2>1. PICK k \in 1..Len(toolSet.tools) : t = toolSet.tools[k]
    BY SentTools DEF ToSet
  <2>2. PICK m \in Leaves : toolSet.tools[k] = AsTool(m) /\ Marked(toolSet, m)
    BY <1>2 DEF Fine
  <2> QED
    BY <2>1, <2>2, ToolFields
<1> DEFINE item == Restore(toolSet, name)
           marked == name \in DOMAIN toolSet.namespace
<1>5. CASE ts /\ name = SearchName
  <2>1. PICK m \in Leaves : m.type = "tool_search" /\ m.flat = SearchName
    BY <1>5, ProxyLeaf
  <2>2. AsDeclared(m) = CallItem("tool_search_call", NoName, NoName)
    BY <2>1 DEF AsDeclared
  <2>3. item = CallItem("tool_search_call", NoName, NoName)
    BY <1>2, <1>5 DEF Restore
  <2> QED
    BY <1>5, <2>1, <2>2, <2>3
<1>6. CASE ~(ts /\ name = SearchName) /\ name \in toolSet.custom
  <2>1. PICK m \in Leaves : m.type = "custom" /\ m.flat = name
    BY <1>2, <1>6 DEF Fine
  <2>2. CASE m.namespace # NoName
    BY <2>1, <2>2
  <2>3. CASE m.namespace = NoName
    <3>1. m.name = name
      BY <1>3, <2>1, <2>3 DEF TrueLeaf
    <3>2. AsDeclared(m) = CallItem("custom_tool_call", name, NoName)
      BY <2>1, <2>3, <3>1 DEF AsDeclared
    <3>3. item = CallItem("custom_tool_call", name, NoName)
      BY <1>2, <1>6 DEF Restore
    <3> QED
      BY <2>1, <3>2, <3>3
  <2> QED
    BY <2>2, <2>3
<1>7. CASE ~(ts /\ name = SearchName) /\ name \notin toolSet.custom
  <2>1. item = IF marked
               THEN CallItem("function_call", toolSet.namespace[name].name, toolSet.namespace[name].namespace)
               ELSE CallItem("function_call", name, NoName)
    BY <1>2, <1>7 DEF Restore
  <2>2. CASE marked
    <3>1. PICK m \in Leaves : /\ m.flat = name /\ m.namespace # NoName /\ m.type \in {"function", "custom"}
                              /\ toolSet.namespace[name] = [namespace |-> m.namespace, name |-> m.name]
      BY <1>2, <2>2 DEF Fine
    <3>2. CASE m.type = "custom"
      BY <3>1, <3>2
    <3>3. CASE m.type = "function"
      <4>1. item = CallItem("function_call", m.name, m.namespace)
        BY <2>1, <2>2, <3>1
      <4>2. AsDeclared(m) = CallItem("function_call", m.name, m.namespace)
        BY <3>3 DEF AsDeclared
      <4> QED
        BY <3>1, <4>1, <4>2
    <3> QED
      BY <3>1, <3>2, <3>3
  <2>3. CASE ~marked
    <3>1. l.type # "custom" /\ l.namespace = NoName
      BY <1>4, <1>7, <2>3 DEF Marked
    <3>2. l.type # "tool_search"
      BY <1>3, <1>4, <1>7 DEF TrueLeaf
    <3>3. l.type = "function" /\ l.name = name
      BY <1>3, <1>4, <3>1, <3>2 DEF TrueLeaf
    <3>4. AsDeclared(l) = CallItem("function_call", name, NoName)
      BY <3>1, <3>3 DEF AsDeclared
    <3>5. item = CallItem("function_call", name, NoName)
      BY <2>1, <2>3
    <3> QED
      BY <1>4, <3>4, <3>5
  <2> QED
    BY <2>2, <2>3
<1> QED
  BY <1>5, <1>6, <1>7

---------------------------------------------------------------------------
\* A list with one element more.
LEMMA Grown ==
  ASSUME NEW S, NEW s \in Seq(S), NEW x \in S
  PROVE  Append(s, x) \in Seq(S)
OBVIOUS

\* The outputs that the model enumerates are outputs of searches.
LEMMA OutputsShown == Outputs \subseteq ShownOutputs
<1> DEFINE T == Seq(AllTools)
<1>1. Discoverable \subseteq AllTools
  BY ToolsAssumption
<1>2. \A tool \in AllTools : <<tool>> \in T
  OBVIOUS
<1>3. <<>> \in T
  OBVIOUS
<1>4. ShownOutputs = [status : {"completed", "incomplete"}, tools : T]
  BY DEF ShownOutputs
<1> HIDE DEF T
<1> QED
  BY <1>1, <1>2, <1>3, <1>4 DEF Outputs

\* A new request is one.
LEMMA NewIsRequest ==
  ASSUME NEW endpoint \in Endpoints
  PROVE  IsRequest(NewRequest(endpoint))
<1> DEFINE r == NewRequest(endpoint)
<1>1. /\ DOMAIN r = RequestFields /\ r.endpoint = endpoint
      /\ r.top = <<>> /\ r.additional = <<>> /\ r.outputs = <<>> /\ r.choice = NoChoice
      /\ r.parallel = Absent /\ r.effort = Absent /\ r.max_tokens = 0
  BY DEF NewRequest, RequestFields
<1>2. <<>> \in Seq(AllTools) /\ <<>> \in Seq(ShownOutputs)
  OBVIOUS
<1> HIDE DEF r
<1> QED
  BY <1>1, <1>2 DEF IsRequest, r

\* A request that is converted is so.
LEMMA ConvertsRequest ==
  ASSUME NEW r, IsRequest(r), Converts(r)
  PROVE  RequestConverted'
<1>1. request' = r /\ sent' = Conversion(r, toolSet') /\ (r.endpoint = "responses" => toolSet' = ResponsesToolSet(r))
  BY DEF Converts
<1> QED
  BY <1>1 DEF RequestConverted

\* So is the first request,
LEMMA RequestStarts ==
  ASSUME ToolsInit
  PROVE  RequestConverted
<1>1. PICK endpoint \in Endpoints : request = NewRequest(endpoint)
  BY DEF ToolsInit
<1>2. IsRequest(request)
  BY <1>1, NewIsRequest
<1>3. toolSet = ResponsesToolSet(request) /\ sent = Conversion(request, toolSet)
  BY DEF ToolsInit
<1> QED
  BY <1>2, <1>3 DEF RequestConverted

\* What a setting of one field leaves of a request.
LEMMA FieldSet ==
  ASSUME NEW r, IsRequest(r), NEW v
  PROVE  /\ v \in Seq(AllTools) => IsRequest([r EXCEPT !.top = v])
         /\ v \in Seq(AllTools) => IsRequest([r EXCEPT !.additional = v])
         /\ v \in Seq(ShownOutputs) => IsRequest([r EXCEPT !.outputs = v])
         /\ v \in ChoicesOf(r.endpoint) => IsRequest([r EXCEPT !.choice = v])
         /\ v \in {"true", "false"} /\ r.endpoint # "messages" => IsRequest([r EXCEPT !.parallel = v])
         /\ v \in Efforts(r.endpoint) => IsRequest([r EXCEPT !.effort = v])
         /\ v \in Limits => IsRequest([r EXCEPT !.max_tokens = v])
<1>1. DOMAIN r = RequestFields
  BY DEF IsRequest
<1>2. v \in Seq(AllTools) => IsRequest([r EXCEPT !.top = v])
  BY <1>1 DEF IsRequest, RequestFields
<1>3. v \in Seq(AllTools) => IsRequest([r EXCEPT !.additional = v])
  BY <1>1 DEF IsRequest, RequestFields
<1>4. v \in Seq(ShownOutputs) => IsRequest([r EXCEPT !.outputs = v])
  BY <1>1 DEF IsRequest, RequestFields
<1>5. v \in ChoicesOf(r.endpoint) => IsRequest([r EXCEPT !.choice = v])
  BY <1>1 DEF IsRequest, RequestFields
<1>6. v \in {"true", "false"} /\ r.endpoint # "messages" => IsRequest([r EXCEPT !.parallel = v])
  BY <1>1 DEF IsRequest, RequestFields
<1>7. v \in Efforts(r.endpoint) => IsRequest([r EXCEPT !.effort = v])
  BY <1>1 DEF IsRequest, RequestFields
<1>8. v \in Limits => IsRequest([r EXCEPT !.max_tokens = v])
  BY <1>1 DEF IsRequest, RequestFields
<1> QED
  BY <1>2, <1>3, <1>4, <1>5, <1>6, <1>7, <1>8

\* and a step converts a request, whichever field it sets.
LEMMA RequestSteps ==
  ASSUME RequestConverted, [ToolsNext]_toolVars
  PROVE  RequestConverted'
<1>0. IsRequest(request)
  BY DEF RequestConverted
<1>1. ASSUME DeclareOnTop PROVE RequestConverted'
  <2>1. PICK tool \in AllTools : Converts([request EXCEPT !.top = Append(request.top, tool)])
    BY <1>1, ToolsAssumption DEF DeclareOnTop
  <2>2. Append(request.top, tool) \in Seq(AllTools)
    BY <1>0, Grown DEF IsRequest
  <2>3. IsRequest([request EXCEPT !.top = Append(request.top, tool)])
    BY <1>0, <2>2, FieldSet
  <2> QED
    BY <2>1, <2>3, ConvertsRequest
<1>2. ASSUME DeclareInItem PROVE RequestConverted'
  <2>1. PICK tool \in AllTools : Converts([request EXCEPT !.additional = Append(request.additional, tool)])
    BY <1>2, ToolsAssumption DEF DeclareInItem
  <2>2. Append(request.additional, tool) \in Seq(AllTools)
    BY <1>0, Grown DEF IsRequest
  <2>3. IsRequest([request EXCEPT !.additional = Append(request.additional, tool)])
    BY <1>0, <2>2, FieldSet
  <2> QED
    BY <2>1, <2>3, ConvertsRequest
<1>3. ASSUME ShowDiscovered PROVE RequestConverted'
  <2>1. PICK output \in Outputs : Converts([request EXCEPT !.outputs = Append(request.outputs, output)])
    BY <1>3 DEF ShowDiscovered
  <2>2. Append(request.outputs, output) \in Seq(ShownOutputs)
    BY <1>0, OutputsShown, Grown DEF IsRequest
  <2>3. IsRequest([request EXCEPT !.outputs = Append(request.outputs, output)])
    BY <1>0, <2>2, FieldSet
  <2> QED
    BY <2>1, <2>3, ConvertsRequest
<1>4. ASSUME Choose PROVE RequestConverted'
  <2>1. PICK choice \in ChoicesOf(request.endpoint) : Converts([request EXCEPT !.choice = choice])
    BY <1>4 DEF Choose
  <2>2. IsRequest([request EXCEPT !.choice = choice])
    BY <1>0, FieldSet
  <2> QED
    BY <2>1, <2>2, ConvertsRequest
<1>5. ASSUME SetParallel PROVE RequestConverted'
  <2>1. PICK parallel \in {"true", "false"} : Converts([request EXCEPT !.parallel = parallel])
    BY <1>5 DEF SetParallel
  <2>2. IsRequest([request EXCEPT !.parallel = parallel])
    BY <1>0, <1>5, FieldSet DEF SetParallel
  <2> QED
    BY <2>1, <2>2, ConvertsRequest
<1>6. ASSUME SetEffort PROVE RequestConverted'
  <2>1. PICK effort \in Efforts(request.endpoint) : Converts([request EXCEPT !.effort = effort])
    BY <1>6 DEF SetEffort
  <2>2. IsRequest([request EXCEPT !.effort = effort])
    BY <1>0, FieldSet
  <2> QED
    BY <2>1, <2>2, ConvertsRequest
<1>7. ASSUME SetLimit PROVE RequestConverted'
  <2>1. PICK n \in Limits : Converts([request EXCEPT !.max_tokens = n])
    BY <1>7 DEF SetLimit
  <2>2. IsRequest([request EXCEPT !.max_tokens = n])
    BY <1>0, FieldSet
  <2> QED
    BY <2>1, <2>2, ConvertsRequest
<1>8. ASSUME UNCHANGED toolVars PROVE RequestConverted'
  BY <1>8 DEF toolVars, RequestConverted
<1> QED
  BY <1>1, <1>2, <1>3, <1>4, <1>5, <1>6, <1>7, <1>8 DEF ToolsNext

\* What was sent is at every time the conversion of what the client asks
\* (chatToRequest, responsesToRequest and BuildCcRequest, with no state between requests).
THEOREM RequestsConverted == ToolsSpec => []RequestConverted
<1>1. ToolsInit => RequestConverted
  BY RequestStarts
<1>2. RequestConverted /\ [ToolsNext]_toolVars => RequestConverted'
  BY RequestSteps
<1> QED
  BY <1>1, <1>2, PTL DEF ToolsSpec

\* For every request, with any number of tools: the choice, calls one at a time,
\* thinking and the limit reach the upstream as they were asked for or are told to have
\* been given up (chatToolChoice, responsesToolChoice, chatApplyParallelToolCalls,
\* chatReasoningEffort, BuildCcRequest).
THEOREM SettingsAlwaysHonoured == ToolsSpec => []SettingsHonoured
<1>1. RequestConverted => SettingsHonoured
  BY HonoursSettings
<1> QED
  BY <1>1, RequestsConverted, PTL

\* For every request, with any declarations in any number and order: all tools of an
\* accepted request reach the model under names of their own and with their own
\* schemas, nothing else does, every other declaration is told, and a request is refused
\* for two tools of one name only (respinToolSet.add, declare, declareNamespace, promote).
THEOREM ToolsAlwaysReachable == ToolsSpec => []EveryToolReachable
<1>1. RequestConverted => EveryToolReachable
  BY ReachesTools
<1> QED
  BY <1>1, RequestsConverted, PTL

\* For every request: the call of a tool comes back as the call of one the client
\* declared under that name (startToolCall), but for free-text tools of a namespace.
THEOREM CallsAlwaysComeBack == ToolsSpec => []CallsComeBack
<1>1. RequestConverted => CallsComeBack
  BY RestoresCalls
<1> QED
  BY <1>1, RequestsConverted, PTL
=============================================================================
