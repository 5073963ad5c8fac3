----------------------------- MODULE SpanLayout -----------------------------
(***************************************************************************)
(* How the storage tests spread the data they write over a disk            *)
(* (tests/storage/storage.py, compute_span_layout).                        *)
(***************************************************************************)
EXTENDS Integers, FiniteSetsExt

\* Mutant: off by one, past a position that is a multiple itself.
RoundPast(position, block) == ((position + block) \div block) * block

\* The smallest multiple of block that is not less than position.
RoundUp(position, block) == ((position + block - 1) \div block) * block

\* Spans are laid from the last one to the first: what a span gives up by
\* starting at a multiple of block_size is carried to the one on its left.
\* As in Python, \div and % round down.
compute_span_layout(dev_size, total_size, num_spans, block_size) ==
    LET last == num_spans - 1
        span[i \in 0..last] ==
            LET end    == IF i = last THEN dev_size ELSE span[i + 1].start
                budget == total_size \div num_spans
                            + IF i = last THEN total_size % num_spans ELSE span[i + 1].carry
                start  == IF i = 0 THEN 0 ELSE RoundUp(end - budget, block_size)
                size   == IF i = 0 THEN Min({budget, end}) ELSE end - start
            IN  [start |-> start, size |-> size, carry |-> budget - size]
    IN  span
=============================================================================
