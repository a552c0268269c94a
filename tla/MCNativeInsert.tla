--------------------------- MODULE MCNativeInsert ---------------------------
\* Three statements with their input, split into chunks as the threads take it.
EXTENDS NativeInsert, TLC

Chunk(a, n) == [c \in Cells |-> IF c = Null THEN n ELSE a]

\* The INSERT has two chunks, the CTAS one, and one statement selects nothing.
MCInput ==
  [o \in Stmts |-> CASE o = "insert" -> <<Chunk(1, 0), Chunk(1, 2)>>
                     [] o = "ctas"   -> <<Chunk(0, 1)>>
                     [] OTHER        -> <<>>]

MCSymmetry == Permutations(Threads)
=============================================================================
