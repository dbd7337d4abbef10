------------------------------- MODULE Tickets -------------------------------
(***************************************************************************)
(* Reward and punish tickets of the collaborators and the leader board     *)
(* that is made of them: PTS.createPunishTicket and executePunishTicket,   *)
(* their counterparts for rewards, PTS.revokePunishTicket, and the job at  *)
(* midnight that summarizes the board and clears the points.               *)
(* A handler reads the collaborator before its ticket is created, saves    *)
(* the ticket three times, and writes the collaborator back as he was read *)
(* and changed in memory.  The job reads and writes some fields only.  A   *)
(* restart of the server drops what is under way; nothing is resumed.      *)
(***************************************************************************)
EXTENDS Integers, Sequences, FiniteSets

CONSTANTS
    Collaborators,
    Tickets,       \* violations and merits that will happen
    Owner,         \* whose they are
    Merits,        \* those of them that earn a reward
    Points,        \* reward_point of each collaborator to begin with
    Policy,        \* punish_rule by nth_time: what the nth violation brings
    Revokers,      \* admins
    AtOnce,        \* bound: handlers and revocations under way together
    MaxEvents      \* bound: ends of the policy's cycle and restarts

(* A rule without punish_value counts the violation, or counts it and      *)
(* locks the collaborator; a rule with one fines him (a dong, here).       *)
Rules == {"count", "lock", "fine"}

ASSUME TicketsAssumption ==
    /\ Owner \in [Tickets -> Collaborators]
    /\ Merits \subseteq Tickets
    /\ Points \in [Collaborators -> Nat]
    /\ Policy \in Seq(Rules) /\ Policy # <<>>
    /\ AtOnce \in Nat /\ MaxEvents \in Nat
    /\ Tickets # {} /\ IsFiniteSet(Tickets) /\ IsFiniteSet(Revokers)

VARIABLES
    collaborator,  \* documents: reward_point, number_of_violation, ...
    ticket,        \* documents: status, nth_time, the cycle of date_create
    run,           \* handler of each ticket, and the collaborator it has read
    revocation,    \* what each admin is doing
    midnight,      \* the job, with the board it has read
    cycle,         \* the month, week, day or hour of the policy
    restarts,
    (* Ghosts: tickets whose effect was saved; how often the fine of each  *)
    (* was given back; tickets counted before one another was created,     *)
    (* tickets whose cycle ended after they were counted and before they   *)
    (* were created, and tickets revoked while their handler or another    *)
    (* admin was at work on them.                                          *)
    applied, returned, together, straddled, crossed

docs == <<collaborator, ticket>>
bounds == <<cycle, restarts>>
ghosts == <<applied, returned, together, straddled, crossed>>
vars == <<docs, run, revocation, midnight, bounds, ghosts>>

Document == [points : Nat, violations : Nat, locked : BOOLEAN, wallet : Nat, tops : Nat]
New == [points |-> 0, violations |-> 0, locked |-> FALSE, wallet |-> 0, tops |-> 0]

Idle == [at |-> "idle", ticket |-> CHOOSE t \in Tickets : TRUE, seen |-> New]

Init ==
    /\ collaborator = [c \in Collaborators |-> [New EXCEPT !.points = Points[c]]]
    /\ ticket = [t \in Tickets |-> [status |-> "none", nth |-> 0, cycle |-> 0]]
    /\ run = [t \in Tickets |-> [at |-> "none", seen |-> New]]
    /\ revocation = [r \in Revokers |-> Idle]
    /\ midnight = [at |-> "day", left |-> {}, seen |-> [c \in Collaborators |-> New]]
    /\ cycle = 0 /\ restarts = 0
    /\ applied = {} /\ returned = [t \in Tickets |-> 0]
    /\ together = {} /\ straddled = {} /\ crossed = {}

-----------------------------------------------------------------------------
(* The handler of a ticket                                                 *)

AtWork == {t \in Tickets : run[t].at \notin {"none", "over"}}
Busy == {r \in Revokers : revocation[r].at # "idle"}

(* Bound of the model.                                                     *)
Room == Cardinality(AtWork) + Cardinality(Busy) < AtOnce

(* The collaborator is read first, and is not read again.                  *)
Begin(t) ==
    /\ run[t].at = "none"
    /\ Room
    /\ run' = [run EXCEPT ![t] = [at |-> "begun", seen |-> collaborator[Owner[t]]]]
    /\ UNCHANGED <<docs, revocation, midnight, bounds, ghosts>>

(* Mutant of Punished: the tickets of every cycle.                         *)
PunishedEver(c) ==
    {t \in Tickets \ Merits : Owner[t] = c /\ ticket[t].status # "none"}

(* The violations of the policy with a ticket of the cycle that runs.      *)
Punished(c) ==
    {t \in Tickets \ Merits : /\ Owner[t] = c /\ ticket[t].cycle = cycle
                              /\ ticket[t].status # "none"}

(* Mutant of Nth: this one is not counted.                                 *)
NthBefore(c) ==
    IF Cardinality(Punished(c)) < Len(Policy) THEN Cardinality(Punished(c)) ELSE Len(Policy)

(* The nth violation: the tickets of the cycle and this one; beyond the    *)
(* last rule the last rule applies.                                        *)
Nth(c) ==
    IF Cardinality(Punished(c)) < Len(Policy) THEN Cardinality(Punished(c)) + 1 ELSE Len(Policy)

(* PTS.getPunishRule; a reward has no rules.                               *)
Count(t) ==
    /\ run[t].at = "begun" /\ t \notin Merits
    /\ run' = [run EXCEPT ![t].at = "counted"]
    /\ ticket' = [ticket EXCEPT ![t].nth = Nth(Owner[t])]
    /\ UNCHANGED <<collaborator, revocation, midnight, bounds, ghosts>>

Saved(t, at, status) ==
    /\ run' = [run EXCEPT ![t].at = at]
    /\ ticket' = [ticket EXCEPT ![t].status = status]

Create(t) ==
    /\ run[t].at = IF t \in Merits THEN "begun" ELSE "counted"
    /\ run' = [run EXCEPT ![t].at = "standby"]
    /\ ticket' = [ticket EXCEPT ![t].status = "standby", ![t].cycle = cycle]
    /\ together' = together \cup
         {{t, u} : u \in {v \in Tickets \ {t} : run[v].at = "counted" /\ Owner[v] = Owner[t]}}
    /\ UNCHANGED <<collaborator, revocation, midnight, bounds, applied, returned, straddled, crossed>>

(* standbyToWaiting looks at the ticket in memory, and writes it over what *)
(* is stored.                                                              *)
Wait(t) ==
    /\ run[t].at = "standby"
    /\ Saved(t, "waiting", "waiting")
    /\ UNCHANGED <<collaborator, revocation, midnight, bounds, ghosts>>

Do(t) ==
    /\ run[t].at = "waiting"
    /\ Saved(t, "doing", "doing")
    /\ UNCHANGED <<collaborator, revocation, midnight, bounds, ghosts>>

Rule(t) == Policy[ticket[t].nth]

(* The collaborator as the handler read him, and changed, is written back. *)
Save(t, doc) ==
    /\ collaborator' = [collaborator EXCEPT ![Owner[t]] = doc]
    /\ applied' = applied \cup {t}

(* The points of a reward.                                                 *)
Reward(t) ==
    /\ t \in Merits
    /\ Save(t, [run[t].seen EXCEPT !.points = @ + 1])

(* The violation and the lock of a rule without money.                     *)
Punish(t) ==
    /\ t \notin Merits /\ Rule(t) # "fine"
    /\ Save(t, [run[t].seen EXCEPT !.violations = @ + 1, !.locked = @ \/ Rule(t) = "lock"])

(* A fine is taken, and the violation counted, in memory only: that branch *)
(* does not save the collaborator.                                         *)
Fine(t) ==
    /\ t \notin Merits /\ Rule(t) = "fine"
    /\ UNCHANGED <<collaborator, applied>>

Apply(t) ==
    /\ run[t].at = "doing"
    /\ Reward(t) \/ Punish(t) \/ Fine(t)
    /\ run' = [run EXCEPT ![t] = [at |-> "applied", seen |-> New]]
    /\ UNCHANGED <<ticket, revocation, midnight, bounds, returned, together, straddled, crossed>>

(* doingToDone does not look at the status.                                *)
Done(t) ==
    /\ run[t].at = "applied"
    /\ Saved(t, "over", "done")
    /\ UNCHANGED <<collaborator, revocation, midnight, bounds, ghosts>>

Handle(t) == Begin(t) \/ Count(t) \/ Create(t) \/ Wait(t) \/ Do(t) \/ Apply(t) \/ Done(t)

-----------------------------------------------------------------------------
(* PTS.revokePunishTicket: only a fine is given back, once                 *)

(* Mutant of Revocable: the status is not looked at.                       *)
RevocableAlways(t) == ticket[t].status # "none"

Revocable(t) == ticket[t].status \notin {"none", "revoke"}

RevokeReads(r, t) ==
    /\ revocation[r].at = "idle" /\ Room
    /\ t \notin Merits /\ Revocable(t) /\ Rule(t) = "fine"
    /\ revocation' = [revocation EXCEPT ![r].at = "read", ![r].ticket = t]
    /\ UNCHANGED <<docs, run, midnight, bounds, ghosts>>

RevokeSaves(r) ==
    LET t == revocation[r].ticket IN
    /\ revocation[r].at = "read"
    /\ ticket' = [ticket EXCEPT ![t].status = "revoke"]
    /\ revocation' = [revocation EXCEPT ![r].at = "revoked"]
    /\ crossed' = IF \/ run[t].at # "over"
                     \/ \E q \in Revokers \ {r} : revocation[q].ticket = t /\ revocation[q].at = "read"
                  THEN crossed \cup {t} ELSE crossed
    /\ UNCHANGED <<collaborator, run, midnight, bounds, applied, returned, together, straddled>>

(* CO.addPointWallet                                                       *)
PayReads(r) ==
    /\ revocation[r].at = "revoked"
    /\ revocation' = [revocation EXCEPT ![r].at = "paying",
                                        ![r].seen = collaborator[Owner[revocation[r].ticket]]]
    /\ UNCHANGED <<docs, run, midnight, bounds, ghosts>>

PayWrites(r) ==
    LET t == revocation[r].ticket
        seen == revocation[r].seen
    IN
    /\ revocation[r].at = "paying"
    /\ collaborator' = [collaborator EXCEPT ![Owner[t]] = [seen EXCEPT !.wallet = @ + 1]]
    /\ returned' = [returned EXCEPT ![t] = @ + 1]
    /\ revocation' = [revocation EXCEPT ![r] = Idle]
    /\ UNCHANGED <<ticket, run, midnight, bounds, applied, together, straddled, crossed>>

Revoke(r) == (\E t \in Tickets : RevokeReads(r, t)) \/ RevokeSaves(r) \/ PayReads(r) \/ PayWrites(r)

-----------------------------------------------------------------------------
(* The job at midnight: LB.summarizeLeaderboard, then COS.resetRewardPoint *)

Listed == {c \in Collaborators : /\ ~collaborator[c].locked
                                 /\ collaborator[c].points > 0
                                 /\ collaborator[c].violations = 0}

(* The best three are counted; which of equals is best is not known.       *)
Summarize ==
    /\ midnight.at = "day"
    /\ \E best \in SUBSET Listed :
          /\ Cardinality(best) = (IF Cardinality(Listed) < 3 THEN Cardinality(Listed) ELSE 3)
          /\ \A b \in best, o \in Listed \ best : collaborator[o].points <= collaborator[b].points
          /\ midnight' = [at |-> "board", left |-> best,
                          seen |-> [c \in Collaborators |-> IF c \in best THEN collaborator[c] ELSE New]]
    /\ UNCHANGED <<docs, run, revocation, bounds, ghosts>>

(* Only the fields the board was selected with are written, the points     *)
(* among them.                                                             *)
Counted(doc, seen) == [doc EXCEPT !.points = seen.points, !.tops = seen.tops + 1]

CountTop(c) ==
    LET doc == collaborator[c]
        seen == midnight.seen[c]
    IN
    /\ midnight.at = "board" /\ c \in midnight.left
    /\ \A d \in midnight.left : midnight.seen[d].points <= seen.points
    /\ collaborator' = [collaborator EXCEPT ![c] = Counted(doc, seen)]
    /\ midnight' = [midnight EXCEPT !.left = @ \ {c}, !.seen[c] = New]
    /\ UNCHANGED <<ticket, run, revocation, bounds, ghosts>>

(* Mutant of Scored: the list of the board.                                *)
ScoredUnpunished(c) == collaborator[c].points > 0 /\ collaborator[c].violations = 0

Scored(c) == collaborator[c].points > 0

ResetReads ==
    /\ midnight.at = "board" /\ midnight.left = {}
    /\ midnight' = [midnight EXCEPT !.at = "reset", !.left = {c \in Collaborators : Scored(c)}]
    /\ UNCHANGED <<docs, run, revocation, bounds, ghosts>>

(* The points and the violations, whatever they have become.               *)
ResetWrites(c) ==
    /\ midnight.at = "reset" /\ c \in midnight.left
    /\ collaborator' = [collaborator EXCEPT ![c].points = 0, ![c].violations = 0]
    /\ midnight' = [midnight EXCEPT !.left = @ \ {c}]
    /\ UNCHANGED <<ticket, run, revocation, bounds, ghosts>>

Morning ==
    /\ midnight.at = "reset" /\ midnight.left = {}
    /\ midnight' = [midnight EXCEPT !.at = "day"]
    /\ UNCHANGED <<docs, run, revocation, bounds, ghosts>>

Midnight ==
    \/ Summarize \/ ResetReads \/ Morning
    \/ \E c \in Collaborators : CountTop(c) \/ ResetWrites(c)

-----------------------------------------------------------------------------
(* A month, a week, a day or an hour of the policy is over.                *)
NextCycle ==
    /\ cycle + restarts < MaxEvents
    /\ cycle' = cycle + 1
    /\ straddled' = straddled \cup {t \in Tickets : run[t].at = "counted"}
    /\ UNCHANGED <<docs, run, revocation, midnight, restarts, applied, returned, together, crossed>>

(* Mutant of Restart: tickets left doing are executed by the next server.  *)
RestartResumes ==
    /\ cycle + restarts < MaxEvents
    /\ restarts' = restarts + 1
    /\ run' = [t \in Tickets |->
          IF t \notin AtWork THEN run[t]
          ELSE IF ticket[t].status = "doing"
               THEN [at |-> "doing", seen |-> collaborator[Owner[t]]]
               ELSE [at |-> "over", seen |-> New]]
    /\ revocation' = [r \in Revokers |-> Idle]
    /\ midnight' = [at |-> "day", left |-> {}, seen |-> [c \in Collaborators |-> New]]
    /\ UNCHANGED <<docs, cycle, ghosts>>

(* The server is restarted: handlers and the job end where they are, and   *)
(* nothing looks for tickets that were left.                               *)
Restart ==
    /\ cycle + restarts < MaxEvents
    /\ restarts' = restarts + 1
    /\ run' = [t \in Tickets |-> IF t \in AtWork THEN [at |-> "over", seen |-> New] ELSE run[t]]
    /\ revocation' = [r \in Revokers |-> Idle]
    /\ midnight' = [at |-> "day", left |-> {}, seen |-> [c \in Collaborators |-> New]]
    /\ UNCHANGED <<docs, cycle, ghosts>>

Next ==
    \/ \E t \in Tickets : Handle(t)
    \/ \E r \in Revokers : Revoke(r)
    \/ Midnight
    \/ NextCycle
    \/ Restart

(* node-cron calls the job every midnight, and its database calls return.  *)
Spec == Init /\ [][Next]_vars /\ WF_vars(Midnight)

-----------------------------------------------------------------------------
(* Properties                                                              *)

Steps == {"none", "begun", "counted", "standby", "waiting", "doing", "applied", "over"}

TypeOK ==
    /\ collaborator \in [Collaborators -> Document]
    /\ ticket \in [Tickets -> [status : {"none", "standby", "waiting", "doing", "done", "revoke"},
                               nth : 0..Len(Policy), cycle : 0..cycle]]
    /\ \A t \in Tickets \ Merits : ticket[t].status # "none" => ticket[t].nth > 0
    /\ run \in [Tickets -> [at : Steps, seen : Document]]
    /\ revocation \in [Revokers -> [at : {"idle", "read", "revoked", "paying"},
                                    ticket : Tickets, seen : Document]]
    /\ midnight \in [at : {"day", "board", "reset"}, left : SUBSET Collaborators,
                     seen : [Collaborators -> Document]]
    /\ cycle \in Nat /\ restarts \in Nat /\ cycle + restarts <= MaxEvents

Executed(c) == {t \in Tickets : Owner[t] = c /\ ticket[t].status \in {"doing", "done"}}

(* However handlers, revocations and the job write back a collaborator as  *)
(* they read him (PTS:137, PTS:205, COS, LB:67), over one another and over *)
(* a restart, updates may be lost but none is made up: he has no more      *)
(* points than he began with and his executed rewards brought, no more     *)
(* violations than his executed tickets without a fine, and is locked only *)
(* if one of them had the lock.                                            *)
NothingUnearned ==
    \A c \in Collaborators :
        /\ collaborator[c].points <= Points[c] + Cardinality(Executed(c) \cap Merits)
        /\ collaborator[c].violations
               <= Cardinality({t \in Executed(c) \ Merits : Rule(t) # "fine"})
        /\ collaborator[c].locked => \E t \in Executed(c) \ Merits : Rule(t) = "lock"

(* "Update the collaborator, write the log and notify" (PTS:197) comes     *)
(* before both branches: the ticket that is done had its effect saved.     *)
EffectSaved ==
    \A t \in Tickets : ticket[t].status = "done" => t \in applied

(* A fine is given back once, unless two admins looked at the ticket       *)
(* before either revoked it, or it was revoked before its handler, which   *)
(* writes done over it, had ended (PTO:289, PTO:280).                      *)
ReturnedOnce ==
    \A t \in Tickets : returned[t] > 1 => t \in crossed

Companions(t) ==
    {u \in Tickets \ Merits : /\ Owner[u] = Owner[t] /\ ticket[u].cycle = ticket[t].cycle
                              /\ ticket[u].status # "none"}

(* A violation is not punished as a later one than the tickets of its      *)
(* cycle make it, and no two of a cycle as the same one below the last     *)
(* rule unless both were counted before either had a ticket; tickets that  *)
(* were counted in the cycle before are left out (PTS:97, PTO:270,         *)
(* PTO:478).                                                               *)
NthRises ==
    \A t \in Tickets \ (Merits \cup straddled) :
        ticket[t].status # "none" =>
            /\ ticket[t].nth <= Cardinality(Companions(t))
            /\ \A u \in Companions(t) \ (straddled \cup {t}) :
                  \/ ticket[u].nth # ticket[t].nth
                  \/ ticket[t].nth = Len(Policy)
                  \/ {t, u} \in together

(* Whoever has points and violations loses one or the other: the next      *)
(* night clears both (the violations of a collaborator without points are  *)
(* never cleared, COS:307).                                                *)
Forgiven ==
    \A c \in Collaborators :
        (collaborator[c].points > 0 /\ collaborator[c].violations > 0)
            ~> (collaborator[c].points = 0 \/ collaborator[c].violations = 0)
=============================================================================
