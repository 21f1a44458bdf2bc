----------------------------- MODULE AppendLog ------------------------------
(***************************************************************************)
(* What a log of records promises across power losses: records join it at   *)
(* the end, newer than all before them, and leave it from the beginning, at *)
(* most Loss of them at once.  None comes back, moves or changes.           *)
(***************************************************************************)
EXTENDS Integers, SequencesExt

CONSTANTS
  Records,   \* natural numbers, in the order in which they are given to the log
  Loss       \* the most that is lost at once

VARIABLE log

Init == log = <<>>

Land(r) ==
  /\ log = <<>> \/ Last(log) < r
  /\ log' = Append(log, r)

Forget(n) ==
  /\ n <= Len(log)
  /\ log' = SubSeq(log, n + 1, Len(log))

Next == (\E r \in Records : Land(r)) \/ (\E n \in 1 .. Loss : Forget(n))

Spec == Init /\ [][Next]_log
=============================================================================
