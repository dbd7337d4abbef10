------------------------------ MODULE MCTickets ------------------------------
EXTENDS Tickets, TLC

CONSTANTS Ann, t1, t2, t3

MCCollaborators == {Ann}
MCTickets == {t1, t2, t3}
MCMerits == {t1}
MCOwner == (t1 :> Ann) @@ (t2 :> Ann) @@ (t3 :> Ann)
MCPoints == (Ann :> 0)
MCPolicy == <<"lock", "fine">>
=============================================================================
