---------------------------- MODULE MCWebSession ----------------------------
\* An instance of WebSession: two tabs, a common user and root.
EXTENDS WebSession, TLC

CONSTANTS t1, t2, common, root

MCTab == {t1, t2}
MCUser == {common, root}
MCRole == (common :> 1) @@ (root :> 100)
==============================================================================
