----------------------------- MODULE LineDevice -----------------------------
(***************************************************************************)
(* What /dev/aesdchar promises to the processes that write to it: one line *)
(* under construction shared by all writers, and the most recent completed *)
(* lines, oldest first.  A write adds its bytes to the line at one instant *)
(* and completes the line when its last byte is a newline.                 *)
(***************************************************************************)
EXTENDS Naturals, Sequences

CONSTANTS MAX_WRITE_OPERATIONS, UserBuffers, NL

VARIABLES lines,    \* the completed lines a reader can see
          partial   \* the bytes written since the last completed line

vars == <<lines, partial>>

Init == lines = <<>> /\ partial = <<>>

Write(data) ==
  LET line == partial \o data
  IN  IF data[Len(data)] = NL
      THEN /\ lines' = Append(IF Len(lines) < MAX_WRITE_OPERATIONS
                              THEN lines ELSE Tail(lines), line)
           /\ partial' = <<>>
      ELSE /\ partial' = line
           /\ UNCHANGED lines

(* Unloading the module discards everything.                               *)
Discard == lines' = <<>> /\ partial' = <<>>

Next == Discard \/ \E data \in UserBuffers : Write(data)

Spec == Init /\ [][Next]_vars
=============================================================================
