------------------------------- MODULE MCPings -------------------------------
EXTENDS Pings

\* A bundle, the OEM ping with a fire-and-forget ping, and two bundles, with /ua
\* after them; and a bundle with /ua beside it.
Scenarios ==
  LET one == CHOOSE i \in Bundles : TRUE
  IN  {[ids |-> {one}, faults |-> {"network", "process", "queue", "clock"}],
       [ids |-> OemPings \cup ForgetPings, faults |-> {"network", "process"}],
       [ids |-> Bundles, faults |-> {"network"}],
       [ids |-> {one}, faults |-> {"network", "process", "registry", "overlap"}]}
=============================================================================
