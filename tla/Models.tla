------------------------------- MODULE Models -------------------------------
(***************************************************************************)
(* internal/masq/upstream.go: Models, the cache of the upstream's model    *)
(* lists by API key.  The lock is given up while a list is fetched: any    *)
(* number of requests may fetch the list of one key at once, and store     *)
(* what they got in another order.                                         *)
(*                                                                         *)
(* Time is relative: a list knows its age, the time since the upstream     *)
(* made it, and an entry the time it has been held, both up to the point   *)
(* beyond which nothing tells two of them apart.                           *)
(***************************************************************************)
EXTENDS Integers

CONSTANTS ModelKeys,     \* API keys (without one a request gets FallbackModels)
          Callers,       \* requests for model lists, at the same time
          ModelsTTL,     \* CC_MODEL_REFRESH
          FetchTimeout   \* the fast client's timeout, which covers the body

ASSUME ModelAssumption == ModelsTTL \in Nat /\ FetchTimeout \in Nat

VARIABLES modelsCache,  \* the entry of each key
          fetches       \* what each caller is at

modelVars == <<modelsCache, fetches>>

Oldest  == ModelsTTL + FetchTimeout
Entry   == [owner : ModelKeys, age : 0..Oldest, held : 0..ModelsTTL]
Fetch   == [at : {"idle", "asked", "answered"}, key : ModelKeys,
            waited : 0..Oldest, age : 0..Oldest]

ModelsTypeOK ==
  /\ modelsCache \in [ModelKeys -> Entry]
  /\ fetches \in [Callers -> Fetch]

-----------------------------------------------------------------------------
\* time.Since(c.at) < u.modelsTTL.  An entry that is not there is like one held
\* too long.
Fresh(e) == e.held < ModelsTTL

ModelsInit ==
  /\ modelsCache = [k \in ModelKeys |-> [owner |-> k, age |-> Oldest, held |-> ModelsTTL]]
  /\ fetches \in [Callers -> {f \in Fetch : f.at = "idle" /\ f.waited = 0 /\ f.age = 0}]

Done(f) == [f EXCEPT !.at = "idle", !.waited = 0, !.age = 0]

\* Models finds no fresh entry, unlocks, and asks the upstream.  (A fresh entry
\* is returned and nothing changes.)
Ask(c, k) ==
  /\ fetches[c].at = "idle"
  /\ ~Fresh(modelsCache[k])
  /\ fetches' = [fetches EXCEPT ![c] = [at |-> "asked", key |-> k, waited |-> 0, age |-> 0]]
  /\ UNCHANGED modelsCache

\* The upstream makes the list; it is on its way.
Answer(c) ==
  /\ fetches[c].at = "asked"
  /\ fetches' = [fetches EXCEPT ![c].at = "answered"]
  /\ UNCHANGED modelsCache

\* The decoded list goes into the cache, under the lock and with the time it
\* has then, whatever other callers have stored since.
Store(c) ==
  /\ fetches[c].at = "answered"
  /\ modelsCache' = [modelsCache EXCEPT ![fetches[c].key] =
                       [owner |-> fetches[c].key, age |-> fetches[c].age, held |-> 0]]
  /\ fetches' = [fetches EXCEPT ![c] = Done(@)]

\* An error, another status, a body that cannot be decoded or is empty, or the
\* timeout: the caller gets FallbackModels and the cache keeps what it has.
GiveUp(c) ==
  /\ fetches[c].at \in {"asked", "answered"}
  /\ fetches' = [fetches EXCEPT ![c] = Done(@)]
  /\ UNCHANGED modelsCache

\* Mutant: the list is fetched with the client that has no timeout.
WaitsOn(f) == TRUE

\* A caller's fetch may go on: the timeout has not passed.
MayWait(f) == f.at = "idle" \/ f.waited < FetchTimeout

Older(n, most) == IF n < most THEN n + 1 ELSE n

\* Time passes, for entries and for fetches.
ModelsTick ==
  /\ \A c \in Callers : MayWait(fetches[c])
  /\ modelsCache' = [k \in ModelKeys |->
       [modelsCache[k] EXCEPT !.age = Older(@, Oldest), !.held = Older(@, ModelsTTL)]]
  /\ fetches' = [c \in Callers |->
       IF fetches[c].at = "idle" THEN fetches[c]
       ELSE [fetches[c] EXCEPT !.waited = Older(@, Oldest),
               !.age = IF fetches[c].at = "answered" THEN Older(@, Oldest) ELSE @]]

-----------------------------------------------------------------------------
(* Properties. *)

\* Whatever order concurrent fetches end in, the list that a key is given from
\* the cache was made for that key, and less than the lifetime and one timeout
\* ago: an older list that overwrites a newer one does not start a lifetime
\* with an age of its own.
ModelsFresh ==
  \A k \in ModelKeys : Fresh(modelsCache[k]) =>
    /\ modelsCache[k].owner = k
    /\ modelsCache[k].age < ModelsTTL + FetchTimeout
=============================================================================
