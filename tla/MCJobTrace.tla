----------------------------- MODULE MCJobTrace -----------------------------
(***************************************************************************)
(* Instance of JobTrace for TLC: one worker beside the flushing goroutine, *)
(* a queue of one line, two lines, so that one may find the queue full,    *)
(* answers of one line, so that a full answer happens, two chains of       *)
(* polling rounds that overlap after a click, and one line of another job. *)
(***************************************************************************)
EXTENDS JobTrace
=============================================================================
