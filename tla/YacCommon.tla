----------------------------- MODULE YacCommon -----------------------------
(* The supermajority test of irohad/consensus/yac/storage/impl.            *)
EXTENDS Integers

\* Variant: one vote less is enough.
hasSupermajority_2f(current, all) ==
    /\ current <= all
    /\ all > 0
    /\ 3 * current >= 2 * (all - 1)

\* hasSupermajority computes f = (all - 1) / 3.0 and tests current >= 2 * f + 1
\* in floating point, after rejecting current > all. all is unsigned: for
\* all = 0 the subtraction wraps and the test is false for the only value (0)
\* that gets to it.
hasSupermajority(current, all) ==
    /\ current <= all
    /\ all > 0
    /\ 3 * current >= 2 * (all - 1) + 3
=============================================================================
