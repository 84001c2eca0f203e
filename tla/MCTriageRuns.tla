---------------------------- MODULE MCTriageRuns ----------------------------
EXTENDS TriageRuns

\* Every process has a worker id of its own, and all clocks agree.
MCWorkerId == [s \in Servers |-> s]
MCSkew == [s \in Servers |-> 0]

=============================================================================
