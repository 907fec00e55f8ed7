------------------------------ MODULE MCExchange ------------------------------
\* A service that fails once, and one message: for the run of DegradedAnswers.
EXTENDS Exchange

MExchangeStarts == {[outage |-> 1, lost |-> 1, tick |-> 0]}
=============================================================================
