---------------------------- MODULE HttpResponse ----------------------------
(***************************************************************************)
(* What net/http lets a handler do to one response, and what a client can  *)
(* make sense of: the status is chosen once, the body only grows, an error *)
(* or a whole answer is one JSON object and ends the response, and what    *)
(* comes piece by piece is a stream, which holds no JSON object.           *)
(***************************************************************************)
EXTENDS Integers, Sequences, SequencesExt

VARIABLES
  status,  \* 0 until the header is written
  body,    \* the pieces written so far
  closed   \* the handler returned

responseVars == <<status, body, closed>>

ResponseInit == status = 0 /\ body = <<>> /\ closed = FALSE

IsJSON(piece) == "json" \in DOMAIN piece

\* One JSON object as the whole response, an error or an answer.  A client who
\* is gone gets the status at most.
Whole(s) ==
  /\ ~closed /\ status = 0
  /\ status' = s
  /\ body' \in {<<>>, <<[json |-> s]>>}
  /\ closed' = TRUE

Refuse == \E s \in 400..599 : Whole(s)
Answer == Whole(200)

\* The header of a stream, or more of it; the handler may return with its last
\* piece.
Stream ==
  /\ ~closed /\ status \in {0, 200}
  /\ status' = 200
  /\ IsPrefix(body, body')
  /\ \A i \in (Len(body) + 1)..Len(body') : ~IsJSON(body'[i])
  /\ closed' \in BOOLEAN

\* The handler returns; without a status when the client is gone.
Leave ==
  /\ ~closed
  /\ closed' = TRUE
  /\ UNCHANGED <<status, body>>

ResponseNext == Refuse \/ Answer \/ Stream \/ Leave

ResponseSpec == ResponseInit /\ [][ResponseNext]_responseVars
=============================================================================
