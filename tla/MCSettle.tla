------------------------------ MODULE MCSettle ------------------------------
EXTENDS MCServerSessions

\* Either two connections of one client without a reload, or one with reloads.  What
\* this keeps from happening, a reload or a second client, nothing obliges to happen.
ReloadsAlone == reloads' > 0 => at'[c2] = "absent"
=============================================================================
