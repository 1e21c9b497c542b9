---------------------------- MODULE MCRiskService ----------------------------
EXTENDS RiskService

Payment(intent, suspicious, amount, recent) ==
    [intent |-> intent, merchant |-> "m", blocked |-> FALSE,
     suspicious |-> suspicious, amount |-> amount, recent |-> recent]

\* One of the present core, above the review amount, and one of an older core that
\* sends no count, both of one merchant: the window that holds either one fires the
\* velocity rule for an event without a count.
MCEvents == {Payment("i1", FALSE, 9, 0), Payment("i2", FALSE, 3, NoCount)}
==============================================================================
