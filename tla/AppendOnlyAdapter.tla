-------------------------- MODULE AppendOnlyAdapter --------------------------
(***************************************************************************)
(* The files of packages/core/src/memory/AppendOnlyAdapter.ts, as values.  *)
(* A key-value file is replaced whole (temporary file, then rename), so a  *)
(* client sees its old or its new content and needs no operator here.  A   *)
(* log is a sequence of lines; append() writes an entry and its newline in *)
(* one call, which a crash or a full disk may cut anywhere.  `cut' says    *)
(* that the last line has no newline yet, so the next entry continues it.  *)
(*                                                                         *)
(* A line with `ok' parses; `acked' counts the entries in it whose append  *)
(* was acknowledged.  Backups of rotated logs are never read again, so     *)
(* cleanupBackups is left out.                                             *)
(***************************************************************************)
EXTENDS Integers, Sequences, SequencesExt

CONSTANT RotateAt     \* lines that fill 10 MB

EmptyLog == [lines |-> <<>>, cut |-> FALSE]

(* A log over the limit is renamed to .bak before an entry is written. *)
Rotated(log) == IF Len(log.lines) > RotateAt THEN EmptyLog ELSE log

(* What follows an unfinished line becomes part of it: two objects on one
   line do not parse. *)
Continued(log, line) ==
  IF log.cut
    THEN Append(Front(log.lines),
                [data |-> <<>>, ok |-> FALSE, acked |-> Last(log.lines).acked + line.acked])
    ELSE Append(log.lines, line)

(* mutant: no newline after the entry *)
append_without_newline(log, entry) ==
  [lines |-> Continued(Rotated(log), [data |-> entry, ok |-> TRUE, acked |-> 1]), cut |-> TRUE]

(* append() that returns. *)
append(log, entry) ==
  [lines |-> Continued(Rotated(log), [data |-> entry, ok |-> TRUE, acked |-> 1]), cut |-> FALSE]

(* The file after an append that was cut off: d of the entry is there, <<>> a
   part that does not parse, and its newline or not. *)
Remainder(log, d, cut) ==
  [lines |-> Continued(Rotated(log), [data |-> d, ok |-> d # <<>>, acked |-> 0]), cut |-> cut]

(* append() that does not return: nothing, the rotation, a part of the entry,
   all of it but the newline, or everything may have been done. *)
Torn(log, entry) ==
  {log, Rotated(log), Remainder(log, <<>>, TRUE), Remainder(log, entry, TRUE),
   Remainder(log, entry, FALSE)}

(* readLog(): the entries of the lines that parse, oldest first. *)
readLog(log) ==
  LET read[i \in 0 .. Len(log.lines)] ==
        IF i = 0 THEN <<>>
        ELSE IF log.lines[i].ok THEN Append(read[i - 1], log.lines[i].data) ELSE read[i - 1]
  IN read[Len(log.lines)]

(* Lines that do not parse. *)
Spoilt(log) == {i \in 1 .. Len(log.lines) : ~log.lines[i].ok}
=============================================================================
