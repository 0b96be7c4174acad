--------------------------- MODULE TerminalBuffer ---------------------------
(***************************************************************************)
(* OutputBuffer of a terminal session, src/server/terminal_service.rs: the *)
(* lines a terminal has shown, of which the oldest are dropped when there  *)
(* are too many.  A line is its length; a chunk of output is the lengths   *)
(* of the lines it completes, newline included, and of the rest after the  *)
(* last newline.                                                           *)
(***************************************************************************)
EXTENDS Naturals, Sequences, SequencesExt, FiniteSetsExt

CONSTANTS MaxOutputBufferSize,   \* MAX_OUTPUT_BUFFER_SIZE
          MaxBufferLines,        \* MAX_BUFFER_LINES
          MaxAppends,            \* chunks
          Chunks                 \* what the reader thread may read at once

VARIABLES lines, total_size, last_line_incomplete,
          appends,               \* chunks so far
          hung                   \* the trimming loop does not end

bufferVars == <<lines, total_size, last_line_incomplete, appends, hung>>

Bytes(s) == FoldLeft(LAMBDA x, y : x + y, 0, s)

BufferInit ==
  /\ lines = <<>> /\ total_size = 0 /\ last_line_incomplete = FALSE
  /\ appends = 0 /\ hung = FALSE

\* The last line is continued: what ends it is not counted, what leaves it open is,
\* and then nothing is trimmed.
Continued(n) == [lines EXCEPT ![Len(lines)] = @ + n]

\* Numbers of oldest lines whose removal ends the loop; total_size is unsigned, and
\* once it has passed below 0 it is never small enough again.
TrimEnds(ls, total) ==
  {k \in 0 .. Len(ls) : LET removed == Bytes(SubSeq(ls, 1, k))
                        IN  /\ removed <= total
                            /\ total - removed <= MaxOutputBufferSize
                            /\ Len(ls) - k <= MaxBufferLines}

\* New lines for the rest of a chunk, and the trimming loop.
Push(ls, complete, rest, incomplete) ==
  LET all == ls \o complete \o (IF rest > 0 THEN <<rest>> ELSE <<>>)
      total == total_size + Bytes(complete) + rest
      ends == TrimEnds(all, total)
  IN  /\ last_line_incomplete' = (incomplete \/ rest > 0)
      /\ hung' = (ends = {})
      /\ LET k == IF ends = {} THEN Len(all) ELSE Min(ends)
         IN  /\ lines' = SubSeq(all, k + 1, Len(all))
             /\ total_size' = IF ends = {} THEN 0 ELSE total - Bytes(SubSeq(all, 1, k))

append(chunk) ==
  /\ ~hung /\ appends < MaxAppends
  /\ appends' = appends + 1
  /\ \/ /\ last_line_incomplete /\ lines # <<>> /\ chunk.complete = <<>>
        /\ lines' = Continued(chunk.rest)
        /\ total_size' = total_size + chunk.rest
        /\ UNCHANGED <<last_line_incomplete, hung>>
     \/ /\ last_line_incomplete /\ lines # <<>> /\ chunk.complete # <<>>
        /\ Push(Continued(Head(chunk.complete)), Tail(chunk.complete), chunk.rest, FALSE)
     \/ /\ ~last_line_incomplete \/ lines = <<>>
        /\ Push(lines, chunk.complete, chunk.rest, last_line_incomplete)

BufferNext == \E chunk \in Chunks : append(chunk)

BufferSpec == BufferInit /\ [][BufferNext]_bufferVars
-----------------------------------------------------------------------------
\* "Trim old data if buffer is too large": trimming the buffer always ends, with a
\* buffer that is not too large.
AppendEnds == ~hung
=============================================================================
