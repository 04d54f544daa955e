------------------------------- MODULE Events -------------------------------
(***************************************************************************)
(* internal/types/anthropic.go: the events of the Anthropic stream, the    *)
(* form into which every upstream answer is brought and from which every   *)
(* endpoint's answer is made.                                              *)
(***************************************************************************)
None == "none"   \* an optional field, or the empty string, of the Go code

MessageStart        == [name |-> "message_start"]
BlockStart(i, kind) == [name |-> "content_block_start", index |-> i, kind |-> kind]
BlockDelta(i, d, p) == [name |-> "content_block_delta", index |-> i, delta |-> d, payload |-> p]
BlockStop(i)        == [name |-> "content_block_stop", index |-> i]
MessageDelta(r, u)  == [name |-> "message_delta", stop_reason |-> r, usage |-> u]
MessageStop         == [name |-> "message_stop"]
ErrorEvent(m)       == [name |-> "error", message |-> m]

IsStart(e) == e.name = "content_block_start"
IsDelta(e) == e.name = "content_block_delta"
IsStop(e)  == e.name = "content_block_stop"
=============================================================================
