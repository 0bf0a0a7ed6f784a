----------------------------- MODULE LineFilter ------------------------------
(***************************************************************************)
(* What the line framer promises, whatever the reads looked like: of the   *)
(* complete lines of the stream, in their order, those within the cap are  *)
(* emitted unchanged and each of the others is reported once.              *)
(***************************************************************************)
EXTENDS Naturals, Sequences

CONSTANTS
    Text,           \* bytes other than the newline
    MAX_LINE_BYTES  \* what a single line may cost

VARIABLES
    taken,    \* the complete lines of the stream decided on so far
    out,      \* those emitted
    reports   \* the number of those refused

Emit(line) ==
    /\ Len(line) <= MAX_LINE_BYTES
    /\ out' = Append(out, line)
    /\ UNCHANGED reports

Refuse(line) ==
    /\ Len(line) > MAX_LINE_BYTES
    /\ reports' = reports + 1
    /\ UNCHANGED out

FilterInit == taken = <<>> /\ out = <<>> /\ reports = 0

\* The stream yields one more complete line, which is decided on.
FilterNext ==
    /\ Len(taken') = Len(taken) + 1
    /\ taken' = Append(taken, taken'[Len(taken')])
    /\ taken'[Len(taken')] \in Seq(Text)
    /\ Emit(taken'[Len(taken')]) \/ Refuse(taken'[Len(taken')])

FilterSpec == FilterInit /\ [][FilterNext]_<<taken, out, reports>>
=============================================================================
