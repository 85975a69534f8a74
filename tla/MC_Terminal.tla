----------------------------- MODULE MC_Terminal -----------------------------
EXTENDS Terminal

CONSTANTS t1, t2

\* One task reads two characters at a time and gets signals, the other one reads
\* one at a time and gets none.
TwoReads == {<<t1, 2>>, <<t2, 1>>}

\* Nothing is claimed of a spoiled line, and it stays spoiled.
Unspoiled == kept

\* What the steps of an unspoiled line depend on: not what the queue has at the
\* places that are read already, what a sleep that is over has put into tmp, or
\* what a read that is over has got.
Relevant ==
    <<scan, Line, tail, frames, wait_proc, state, signal,
      [t \in Task |-> IF pc[t] = "asleep" THEN tmp[t] ELSE NULL],
      pc, nr, [t \in Task |-> IF pc[t] = "user" THEN << >> ELSE data[t]], cpu, kept>>
=============================================================================
