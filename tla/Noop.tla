-------------------------------- MODULE Noop --------------------------------
(***************************************************************************)
(* noop.c, which answers to the names noop, null and dup: a loop of read   *)
(* and write_all (util.c).  pass_through of util.c is the same loop as     *)
(* noop's.                                                                 *)
(*                                                                         *)
(* write(2) may take less than it is given, fail, or kill the tool.  An    *)
(* interrupted write fails like any other: write_all does not look at      *)
(* errno, and gives up what is left of the buffer.                         *)
(***************************************************************************)
EXTENDS Naturals, Sequences, SequencesExt

CONSTANTS
  Inputs,     \* what stdin may have: sequences of bytes
  Names,      \* among "noop", "null" and "dup"
  BUFFER_MAX  \* size of the buffer

ASSUME NoopAssumption ==
  /\ BUFFER_MAX \in Nat \ {0}
  /\ \A bytes \in Inputs : bytes \in Seq(Nat)

VARIABLES
  at,           \* where the tool is
  name,         \* argv[0]
  rc,           \* the exit code so far
  input,        \* history: the input
  total_read,   \* how much of it was read
  buf,          \* what the last read got
  total_bytes,  \* in write_all, how much of buf was written
  total_wrote,  \* to stdout
  out, err,     \* what stdout and stderr got
  chunks,       \* history: what each read got
  took,         \* history: how much of it write(2) took for stdout
  lost          \* history: a write has failed

files == <<out, err>>
history == <<chunks, took, lost>>
noopVars == <<at, name, rc, input, total_read, buf, total_bytes, total_wrote,
              files, history>>

do_writes == name # "null"
do_stderr_echo == name = "dup"

NoopInit ==
  /\ at = "read"
  /\ name \in Names
  /\ rc = "EX_OK"
  /\ input \in Inputs
  /\ total_read = 0
  /\ buf = <<>>
  /\ total_bytes = 0
  /\ total_wrote = 0
  /\ out = <<>> /\ err = <<>>
  /\ chunks = <<>> /\ took = <<>>
  /\ lost = FALSE

-----------------------------------------------------------------------------
ReadBytes ==
  /\ at = "read"
  /\ \E br \in 1 .. BUFFER_MAX :
       /\ total_read + br <= Len(input)
       /\ buf' = SubSeq(input, total_read + 1, total_read + br)
       /\ total_read' = total_read + br
  /\ total_bytes' = 0
  /\ at' = IF do_writes THEN "stdout" ELSE "read"
  /\ chunks' = Append(chunks, buf') /\ took' = Append(took, 0)
  /\ UNCHANGED <<name, rc, input, total_wrote, files, lost>>

ReadEnd ==
  /\ at = "read"
  /\ total_read = Len(input)
  /\ at' = "exit"
  /\ UNCHANGED <<name, rc, input, total_read, buf, total_bytes, total_wrote,
                 files, history>>

ReadError ==
  /\ at = "read"
  /\ at' = "exit"
  /\ rc' = "EX_IOERR"
  /\ UNCHANGED <<name, input, total_read, buf, total_bytes, total_wrote,
                 files, history>>

\* write(2) within write_all takes n bytes, from total_bytes on.
FromStart(n) == SubSeq(buf, 1, n)
FromWritten(n) == SubSeq(buf, total_bytes + 1, total_bytes + n)

\* write_all has returned nw.
Returned(nw) ==
  /\ total_bytes' = 0
  /\ IF at = "stdout"
     THEN /\ total_wrote' = total_wrote + nw
          /\ at' = IF do_stderr_echo THEN "stderr" ELSE "read"
     ELSE at' = "read" /\ UNCHANGED total_wrote

Write ==
  /\ at \in {"stdout", "stderr"}
  /\ \E n \in 1 .. Len(buf) - total_bytes :
       /\ out' = IF at = "stdout" THEN out \o FromWritten(n) ELSE out
       /\ err' = IF at = "stderr" THEN err \o FromWritten(n) ELSE err
       /\ took' = IF at = "stdout"
                  THEN [took EXCEPT ![Len(took)] = total_bytes + n] ELSE took
       /\ IF total_bytes + n = Len(buf) THEN Returned(Len(buf))
          ELSE /\ total_bytes' = total_bytes + n
               /\ UNCHANGED <<at, total_wrote>>
  /\ UNCHANGED <<name, rc, input, total_read, buf, chunks, lost>>

WriteError ==
  /\ at \in {"stdout", "stderr"}
  /\ Returned(total_bytes)
  /\ lost' = TRUE
  /\ UNCHANGED <<name, rc, input, total_read, buf, files, chunks, took>>

\* Nobody reads the pipe.
WriteKills ==
  /\ at \in {"stdout", "stderr"}
  /\ at' = "killed"
  /\ UNCHANGED <<name, rc, input, total_read, buf, total_bytes, total_wrote,
                 files, history>>

NoopStep == ReadBytes \/ ReadEnd \/ ReadError \/ Write \/ WriteError \/ WriteKills
NoopEnds == at \in {"exit", "killed"}

NoopSpec == NoopInit /\ [][NoopStep]_noopVars

-----------------------------------------------------------------------------
NoopTypeOK ==
  /\ at \in {"read", "stdout", "stderr", "exit", "killed"}
  /\ name \in Names
  /\ rc \in {"EX_OK", "EX_IOERR"}
  /\ input \in Inputs
  /\ total_read \in 0 .. Len(input)
  /\ buf \in Seq(Nat)
  /\ total_bytes \in 0 .. Len(buf)
  /\ at \in {"stdout", "stderr"} => total_bytes < Len(buf)
  /\ total_wrote \in Nat
  /\ out \in Seq(Nat) /\ err \in Seq(Nat)
  /\ chunks \in Seq(Seq(Nat)) /\ took \in Seq(Nat)
  /\ lost \in BOOLEAN

\* What was read is the input, buffer by buffer, and stdout has of each a
\* beginning, in order and byte for byte, however little each write takes: a
\* short write neither repeats nor skips anything, and what a failed one loses
\* is the end of one buffer, no more.  While none fails it has all that was
\* read and is not in the buffer, and dup says everything twice.
Taken == [i \in DOMAIN chunks |-> SubSeq(chunks[i], 1, took[i])]
Pending == IF at = "stdout" THEN Len(buf) - total_bytes ELSE 0

CopiesAll ==
  /\ FlattenSeq(chunks) = SubSeq(input, 1, total_read)
  /\ out = FlattenSeq(Taken)
  /\ do_writes /\ ~lost /\ at # "killed" =>
       out = SubSeq(input, 1, total_read - Pending)
  /\ at = "read" =>
       /\ total_wrote = Len(out)
       /\ do_stderr_echo /\ ~lost => err = out
=============================================================================
