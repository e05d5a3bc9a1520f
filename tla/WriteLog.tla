------------------------------ MODULE WriteLog ------------------------------
(***************************************************************************)
(* What the circular buffer promises: a log of the most recent entries, at *)
(* most MAX_WRITE_OPERATIONS of them, oldest first.  An entry added to a   *)
(* log that is full pushes the oldest one out and hands it to the caller.  *)
(***************************************************************************)
EXTENDS Naturals, Sequences

CONSTANTS MAX_WRITE_OPERATIONS, Entry, NoEntry

VARIABLES log,      \* the entries, oldest first
          evicted   \* the entry the last addition pushed out, or NoEntry

vars == <<log, evicted>>

Recent(s, e) ==
  IF Len(s) < MAX_WRITE_OPERATIONS THEN Append(s, e) ELSE Append(Tail(s), e)

Init == log = <<>> /\ evicted = NoEntry

Add(e) ==
  /\ log' = Recent(log, e)
  /\ evicted' = IF Len(log) < MAX_WRITE_OPERATIONS THEN NoEntry ELSE Head(log)

Next == \E e \in Entry : Add(e)

Spec == Init /\ [][Next]_vars
=============================================================================
