-------------------------- MODULE MCTerminalBuffer --------------------------
EXTENDS TerminalBuffer
\* A character, the end of a line, and a line of its own.
MCChunks == {[complete |-> <<>>, rest |-> 1], [complete |-> <<1>>, rest |-> 0],
             [complete |-> <<2>>, rest |-> 0]}
=============================================================================
