------------------------------- MODULE MCPurge -------------------------------
(* Purge on a small tree: the base directory has a file and a directory,   *)
(* where there are a file and a link that leads to that directory again.   *)
EXTENDS Purge

CONSTANTS start, far, f1, f2, link

MCDir == {start, far}
MCFile == {f1, f2}
MCLink == {link}
MCLeads == [l \in MCLink |-> <<start, far>>]
MCTree == {[d \in MCDir |-> CASE d = start -> {f1, far}
                              [] d = far -> {f2, link}]}
MCMobile == {f2, far}
=============================================================================
