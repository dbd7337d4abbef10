SPECIFICATION Spec
CONSTANTS
    Ann = Ann
    t1 = t1
    t2 = t2
    t3 = t3
    Collaborators <- MCCollaborators
    Tickets <- MCTickets
    Merits <- MCMerits
    Owner <- MCOwner
    Points <- MCPoints
    Policy <- MCPolicy
    Revokers = {r1, r2}
    AtOnce = 2
    MaxEvents = 1
INVARIANT EffectSaved
