---------------------------- MODULE MCAgentTurn ----------------------------
EXTENDS AgentTurn, TLC

CONSTANTS own, other, search, timeline, kb

MCSessions == {own, other}
MCTools == {search, timeline, kb}
MCLogTools == {search, timeline}
MCTriageTools == {timeline}

\* A broad triage; one with another source, which is not available; a source
\* besides the logs.
MCAsks ==
  {[required |-> <<{search}, {timeline}>>, broad |-> TRUE],
   [required |-> <<{search}, {timeline}, {}>>, broad |-> TRUE],
   [required |-> <<{search}, {kb}>>, broad |-> FALSE]}

=============================================================================
