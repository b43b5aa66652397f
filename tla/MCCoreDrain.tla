---------------------------- MODULE MCCoreDrain -----------------------------
EXTENDS CoreDrain

\* Unlimited, a cap inside the first chunk, on a chunk's end, and one that
\* the longest core just reaches.
MCCaps == {0, 1, 2, MaxBlocks}
=============================================================================
