------------------------------- MODULE Stores -------------------------------
(***************************************************************************)
(* The two stores of the process that live in memory only, under one       *)
(* clock: the sessions and the model lists.  A restart is the beginning    *)
(* again.                                                                  *)
(***************************************************************************)
EXTENDS Sessions, Models

storeVars == <<sessionVars, modelVars>>

StoresInit == SessionsInit /\ ModelsInit

Resolves == \E k \in SessionKeys : ResolveSession(k) /\ UNCHANGED modelVars

\* The ticker of main, and CleanupSessions.
CleansUp == Cleanup /\ UNCHANGED modelVars

Asks     == \E c \in Callers, k \in ModelKeys : Ask(c, k) /\ UNCHANGED sessionVars
Answered == \E c \in Callers : Answer(c) /\ UNCHANGED sessionVars
Stored   == \E c \in Callers : Store(c) /\ UNCHANGED sessionVars
GivesUp  == \E c \in Callers : GiveUp(c) /\ UNCHANGED sessionVars

StoresTick == SessionsTick /\ ModelsTick

StoresNext == Resolves \/ CleansUp \/ Asks \/ Answered \/ Stored \/ GivesUp \/ StoresTick

\* The ticker's goroutine never ends.
StoresFairness == WF_storeVars(CleansUp)

StoresSpec == StoresInit /\ [][StoresNext]_storeVars /\ StoresFairness
=============================================================================
