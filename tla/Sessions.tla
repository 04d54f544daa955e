------------------------------ MODULE Sessions ------------------------------
(***************************************************************************)
(* internal/masq/session.go: the SessionStore.  A request takes its        *)
(* session from a header, from its prefix key, or from the map, which has  *)
(* one for each API key and renews it after a while; an hourly ticker      *)
(* takes the expired ones out.                                             *)
(*                                                                         *)
(* Time is relative: an entry knows how long it lives and how old it is,   *)
(* up to the point beyond which nothing tells two ages apart.              *)
(***************************************************************************)
EXTENDS Integers

CONSTANTS SessionKeys,  \* API keys
          Duration,     \* sessionDuration
          Jitter        \* sessionJitter: lives differ by less than this

ASSUME SessionAssumption == Duration \in Nat \ {0} /\ Jitter \in Nat \ {0}

VARIABLES strategy,  \* CC_SESSION_STRATEGY
          byKey      \* the map: the entry of each key, or NoEntry

sessionVars == <<strategy, byKey>>

Lives   == Duration..(Duration + Jitter - 1)
Entries == [life : Lives, age : 0..(Duration + Jitter)]
NoEntry == [life |-> Duration, age |-> -1]

SessionsTypeOK ==
  /\ strategy \in {"key", "prefix"}
  /\ byKey \in [SessionKeys -> Entries \cup {NoEntry}]

-----------------------------------------------------------------------------
\* Mutant: the life of an entry ends with the shortest one.
LiveWithoutJitter(e) == e.age >= 0 /\ e.age + 1 < Duration

\* now.Before(ExpiresAt), now.After(ExpiresAt).
Live(e)    == e.age >= 0 /\ e.age < e.life
Expired(e) == e.age > e.life

NewEntry(life) == [life |-> life, age |-> 0]

SessionsInit ==
  /\ strategy \in {"key", "prefix"}
  /\ byKey = [k \in SessionKeys |-> NoEntry]

\* ResolveSession for a request without a session header: the map is reached
\* under the key strategy only, since PrefixCacheKey gives every request a
\* prefix key.  A live entry is used as it is.
ResolveSession(k) ==
  /\ strategy = "key" /\ ~Live(byKey[k])
  /\ \E life \in Lives : byKey' = [byKey EXCEPT ![k] = NewEntry(life)]
  /\ UNCHANGED strategy

\* Mutant: the wrong strategy is spared.
CleansPrefix == strategy = "prefix"

Cleans == strategy = "key"

\* Cleanup.
Cleanup ==
  /\ Cleans
  /\ byKey' = [k \in SessionKeys |-> IF Expired(byKey[k]) THEN NoEntry ELSE byKey[k]]
  /\ UNCHANGED strategy

Aged(e) == IF e.age < 0 \/ Expired(e) THEN e ELSE [e EXCEPT !.age = @ + 1]

\* An hour goes by.
SessionsTick ==
  /\ byKey' = [k \in SessionKeys |-> Aged(byKey[k])]
  /\ UNCHANGED strategy

-----------------------------------------------------------------------------
(* Properties. *)

\* Whatever requests come and whenever the ticker fires, a key keeps its
\* session for at least Duration: an entry that another one takes the place of,
\* or that is taken out, has been there that long, which is what the rotation of
\* 12 hours and up to one of jitter at the head of session.go means.
Gone(e, f) == e # NoEntry /\ (f = NoEntry \/ f.life # e.life \/ f.age < e.age)

SessionPeriod ==
  [][\A k \in SessionKeys : Gone(byKey[k], byKey'[k]) => byKey[k].age >= Duration]_sessionVars

\* The map does not keep what has expired: a key that no request uses again
\* loses its entry, as the comment on Cleanup says.
ExpiredEntriesGo ==
  \A k \in SessionKeys : Expired(byKey[k]) ~> ~Expired(byKey[k])
=============================================================================
