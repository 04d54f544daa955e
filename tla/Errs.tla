-------------------------------- MODULE Errs --------------------------------
(***************************************************************************)
(* internal/errs/errs.go: what an upstream failure becomes for the client. *)
(* The error type follows the status and is left out.                      *)
(***************************************************************************)
EXTENDS Integers

\* MapStatus: the status the client gets.
MapStatus(cc) ==
  CASE cc \in {400, 422}      -> 400
    [] cc \in {401, 403}      -> 401
    [] cc \in {402, 429}      -> 429
    [] cc = 404               -> 404
    [] cc = 503               -> 503
    [] OTHER                  -> 502

\* MapStatus: the seconds of Retry-After, 0 for no header.
RetryAfter(cc) == IF cc \in {402, 429} THEN 30 ELSE 0
=============================================================================
