---------------------------- MODULE TicketsProofs -----------------------------
(***************************************************************************)
(* What is so of the tickets for any number of them, of collaborators and  *)
(* admins, whatever the policy.                                            *)
(***************************************************************************)
EXTENDS Tickets, FiniteSetTheorems, TLAPS

Statuses == {"none", "standby", "waiting", "doing", "done", "revoke"}
TicketState == [status : Statuses, nth : 0..Len(Policy), cycle : 0..cycle]
RunState == [at : Steps, seen : Document]
RevocationState == [at : {"idle", "read", "revoked", "paying"}, ticket : Tickets, seen : Document]
MidnightState == [at : {"day", "board", "reset"}, left : SUBSET Collaborators,
                  seen : [Collaborators -> Document]]

(* TypeOK with what it needs of the ghosts and of a ticket not yet created.*)
Typed ==
    /\ TypeOK
    /\ applied \subseteq Tickets /\ returned \in [Tickets -> Nat]
    /\ crossed \subseteq Tickets
    /\ \A t \in Tickets \ Merits : run[t].at = "counted" => ticket[t].nth > 0

HasFine(t) == t \notin Merits /\ Rule(t) = "fine"

(* How far a ticket is, its handler and its effect say of each other.      *)
Effect(t) ==
    /\ run[t].at \in {"none", "begun", "counted"} => ticket[t].status = "none"
    /\ run[t].at = "standby" => ticket[t].status \in {"standby", "revoke"}
    /\ run[t].at = "waiting" => ticket[t].status \in {"waiting", "revoke"}
    /\ run[t].at \in {"doing", "applied"} => ticket[t].status \in {"doing", "revoke"}
    /\ ticket[t].status = "revoke" => HasFine(t)
    /\ t \in applied => /\ run[t].at \in {"applied", "over"}
                        /\ ticket[t].status \in {"doing", "done"}
                        /\ ~HasFine(t)

Paying(r, t) == revocation[r].ticket = t /\ revocation[r].at \in {"revoked", "paying"}

(* A fine nobody crossed is given back by the one who revoked the ticket.  *)
Money(t) ==
    t \notin crossed =>
        /\ returned[t] <= 1
        /\ ticket[t].status # "revoke" => returned[t] = 0 /\ \A r \in Revokers : ~Paying(r, t)
        /\ \A r \in Revokers : Paying(r, t) => returned[t] = 0
        /\ \A r, q \in Revokers : Paying(r, t) /\ Paying(q, t) => r = q
        /\ ticket[t].status = "revoke" =>
              /\ run[t].at = "over"
              /\ \A r \in Revokers : revocation[r].ticket = t => revocation[r].at # "read"

(* A ticket somebody wants to revoke was created, with a fine.             *)
Chosen ==
    \A r \in Revokers : revocation[r].at = "read" =>
        ticket[revocation[r].ticket].status # "none" /\ HasFine(revocation[r].ticket)

(* What a document of c may hold once the tickets of done are executed,    *)
(* numbered as in numbers.                                                 *)
Rewards(c, done) == {t \in done \cap Merits : Owner[t] = c}
Sentences(c, done) == {t \in done \ Merits : Owner[t] = c}

Fair(c, d, done, numbers) ==
    /\ d.points <= Points[c] + Cardinality(Rewards(c, done))
    /\ d.violations <= Cardinality(Sentences(c, done))
    /\ d.locked => \E t \in Sentences(c, done) : Policy[numbers[t].nth] = "lock"

(* No document has more, and no copy of one that may be written back.      *)
FairEverywhere ==
    /\ \A c \in Collaborators : Fair(c, collaborator[c], applied, ticket)
    /\ \A t \in Tickets : Fair(Owner[t], run[t].seen, applied, ticket)
    /\ \A r \in Revokers : revocation[r].at = "paying" =>
          Fair(Owner[revocation[r].ticket], revocation[r].seen, applied, ticket)
    /\ \A c \in Collaborators : Fair(c, midnight.seen[c], applied, ticket)

IInv == Typed /\ Chosen /\ \A t \in Tickets : Effect(t) /\ Money(t)

-----------------------------------------------------------------------------
LEMMA TypeUnfold ==
    ASSUME Typed
    PROVE  /\ collaborator \in [Collaborators -> Document]
           /\ ticket \in [Tickets -> TicketState]
           /\ run \in [Tickets -> RunState]
           /\ revocation \in [Revokers -> RevocationState]
           /\ midnight \in MidnightState
           /\ \A t \in Tickets : Owner[t] \in Collaborators
  BY TicketsAssumption DEF Typed, TypeOK, TicketState, Statuses, RunState, RevocationState, MidnightState

LEMMA NewType == New \in Document
  BY DEF New, Document

LEMMA IdleType == Idle \in RevocationState /\ Idle.at = "idle"
<1>1. Tickets # {} BY TicketsAssumption
<1>2. (CHOOSE t \in Tickets : TRUE) \in Tickets BY <1>1
<1> QED BY <1>2, NewType DEF Idle, RevocationState

(* Documents are documents after what is done to them.                     *)
LEMMA DocumentUpdate ==
    ASSUME NEW d \in Document, NEW e \in Document, NEW b \in BOOLEAN
    PROVE  /\ [d EXCEPT !.points = @ + 1] \in Document
           /\ [d EXCEPT !.violations = @ + 1, !.locked = @ \/ b] \in Document
           /\ [d EXCEPT !.wallet = @ + 1] \in Document
           /\ [d EXCEPT !.tops = @ + 1] \in Document
           /\ Counted(d, e) \in Document
           /\ [d EXCEPT !.points = 0, !.violations = 0] \in Document
<1>1. /\ d.points \in Nat /\ d.violations \in Nat /\ d.locked \in BOOLEAN
      /\ d.wallet \in Nat /\ d.tops \in Nat /\ e.points \in Nat /\ e.tops \in Nat
  BY DEF Document
<1>2. /\ d.points + 1 \in Nat /\ d.violations + 1 \in Nat /\ d.wallet + 1 \in Nat
      /\ d.tops + 1 \in Nat /\ e.tops + 1 \in Nat /\ 0 \in Nat
  BY <1>1
<1>3. (d.locked \/ b) \in BOOLEAN BY <1>1
<1> QED BY <1>1, <1>2, <1>3, Zenon DEF Document, Counted

LEMMA NthType == ASSUME NEW c PROVE Nth(c) \in 1..Len(Policy)
<1>1. Len(Policy) \in Nat \ {0} BY TicketsAssumption DEF Rules
<1>2. IsFiniteSet(Punished(c)) BY TicketsAssumption, FS_Subset DEF Punished
<1>3. Cardinality(Punished(c)) \in Nat BY <1>2, FS_CardinalityType
<1> QED BY <1>1, <1>3 DEF Nth

(* A handler writes its ticket.                                            *)
LEMMA TicketWritten ==
    ASSUME Typed, NEW t \in Tickets, NEW at \in Steps, NEW z \in TicketState,
           run' = [run EXCEPT ![t].at = at], ticket' = [ticket EXCEPT ![t] = z]
    PROVE  /\ run' \in [Tickets -> RunState]
           /\ ticket' \in [Tickets -> TicketState]
           /\ run'[t].at = at /\ run'[t].seen = run[t].seen /\ ticket'[t] = z
           /\ \A u \in Tickets \ {t} : run'[u] = run[u] /\ ticket'[u] = ticket[u]
<1>1. run[t] \in RunState BY TypeUnfold
<1>2. [run[t] EXCEPT !.at = at] \in RunState BY <1>1 DEF RunState
<1>3. run' = [run EXCEPT ![t] = [run[t] EXCEPT !.at = at]] OBVIOUS
<1>4. /\ [run[t] EXCEPT !.at = at].at = at
      /\ [run[t] EXCEPT !.at = at].seen = run[t].seen
  BY <1>1 DEF RunState
<1> QED BY <1>2, <1>3, <1>4, TypeUnfold

LEMMA SavedType ==
    ASSUME Typed, NEW t \in Tickets, NEW at \in Steps, NEW status \in Statuses, Saved(t, at, status)
    PROVE  /\ run' \in [Tickets -> RunState]
           /\ ticket' \in [Tickets -> TicketState]
           /\ run'[t].at = at /\ run'[t].seen = run[t].seen /\ ticket'[t].status = status
           /\ ticket'[t].nth = ticket[t].nth /\ ticket'[t].cycle = ticket[t].cycle
           /\ \A u \in Tickets \ {t} : run'[u] = run[u] /\ ticket'[u] = ticket[u]
<1> DEFINE z == [ticket[t] EXCEPT !.status = status]
<1>1. ticket[t] \in TicketState BY TypeUnfold
<1>2. /\ z \in TicketState /\ z.status = status /\ z.nth = ticket[t].nth /\ z.cycle = ticket[t].cycle
  BY <1>1 DEF TicketState
<1>3. ticket' = [ticket EXCEPT ![t] = z] /\ run' = [run EXCEPT ![t].at = at] BY DEF Saved
<1> HIDE DEF z
<1> QED BY <1>2, <1>3, TicketWritten
-----------------------------------------------------------------------------
(* While its handler is at work, a ticket that was not crossed is not      *)
(* revoked: what the handler writes gives no money back.                   *)
LEMMA HandlerMoney ==
    ASSUME IInv, NEW t \in Tickets, run[t].at # "over",
           UNCHANGED <<revocation, returned, crossed>>,
           \A u \in Tickets \ {t} : run'[u] = run[u] /\ ticket'[u] = ticket[u],
           \/ ticket'[t] = ticket[t]
           \/ ticket[t].status = "none" /\ ticket'[t].status # "revoke"
           \/ ticket'[t].status \notin {"none", "revoke"} /\ ticket'[t].nth = ticket[t].nth
    PROVE  Chosen' /\ \A u \in Tickets : Money(u)'
<1>0. Chosen'
  <2>1. \A r \in Revokers : revocation[r].ticket \in Tickets BY TypeUnfold DEF IInv, RevocationState
  <2> QED BY <2>1 DEF IInv, Chosen, HasFine, Rule
<1> SUFFICES ASSUME NEW u \in Tickets PROVE Money(u)' BY <1>0
<1>1. Money(u) BY DEF IInv
<1>2. CASE u # t BY <1>1, <1>2 DEF Money, Paying
<1>3. CASE u = t
  <2> SUFFICES ASSUME t \notin crossed PROVE Money(t)' BY <1>3 DEF Money
  <2>1. ticket[t].status # "revoke" BY <1>1, <1>3 DEF Money
  <2>2. ticket'[t].status # "revoke" BY <2>1
  <2> QED BY <1>1, <1>3, <2>1, <2>2 DEF Money, Paying
<1> QED BY <1>2, <1>3

LEMMA HandlerEffect ==
    ASSUME IInv, NEW t \in Tickets, Effect(t)',
           \A u \in Tickets \ {t} :
              run'[u] = run[u] /\ ticket'[u] = ticket[u] /\ (u \in applied' <=> u \in applied)
    PROVE  \A u \in Tickets : Effect(u)'
<1> SUFFICES ASSUME NEW u \in Tickets PROVE Effect(u)' OBVIOUS
<1>1. Effect(u) BY DEF IInv
<1> QED BY <1>1 DEF Effect, HasFine, Rule

LEMMA SavedStep ==
    ASSUME IInv, NEW t \in Tickets, NEW at \in Steps, NEW status \in Statuses \ {"none", "revoke"},
           Saved(t, at, status), run[t].at # "over", ticket[t].status # "none",
           UNCHANGED <<collaborator, revocation, midnight, bounds, applied, returned, crossed>>,
           Effect(t)'
    PROVE  IInv'
<1>1. Typed BY DEF IInv
<1>2. /\ run' \in [Tickets -> RunState]
      /\ ticket' \in [Tickets -> TicketState]
      /\ run'[t].at = at /\ ticket'[t].status = status /\ ticket'[t].nth = ticket[t].nth
      /\ \A u \in Tickets \ {t} : run'[u] = run[u] /\ ticket'[u] = ticket[u]
  BY <1>1, SavedType
<1>3. \A u \in Tickets \ Merits :
         (ticket'[u].status # "none" \/ run'[u].at = "counted") => ticket'[u].nth > 0
  BY <1>1, <1>2 DEF Typed, TypeOK
<1>4. Typed'
  BY <1>1, <1>2, <1>3, TypeUnfold
     DEF Typed, TypeOK, TicketState, Statuses, RunState, RevocationState, MidnightState, bounds
<1>5. Chosen' /\ \A u \in Tickets : Money(u)' BY <1>2, HandlerMoney
<1>6. \A u \in Tickets : Effect(u)' BY <1>2, HandlerEffect
<1> QED BY <1>4, <1>5, <1>6 DEF IInv

LEMMA SavingStep ==
    ASSUME IInv, NEW t \in Tickets, Wait(t) \/ Do(t) \/ Done(t)
    PROVE  IInv'
<1>1. Typed /\ Effect(t) BY DEF IInv
<1> USE DEF ghosts, Steps, Statuses
<1>2. CASE Wait(t)
  <2>1. Saved(t, "waiting", "waiting") BY <1>2 DEF Wait
  <2>2. run'[t].at = "waiting" /\ ticket'[t].status = "waiting" BY <1>1, <2>1, SavedType
  <2>3. Effect(t)' BY <1>1, <1>2, <2>2 DEF Wait, Effect
  <2> QED BY <1>1, <1>2, <2>1, <2>3, SavedStep DEF Wait, Effect
<1>3. CASE Do(t)
  <2>1. Saved(t, "doing", "doing") BY <1>3 DEF Do
  <2>2. run'[t].at = "doing" /\ ticket'[t].status = "doing" BY <1>1, <2>1, SavedType
  <2>3. Effect(t)' BY <1>1, <1>3, <2>2 DEF Do, Effect
  <2> QED BY <1>1, <1>3, <2>1, <2>3, SavedStep DEF Do, Effect
<1>4. CASE Done(t)
  <2>1. Saved(t, "over", "done") BY <1>4 DEF Done
  <2>2. /\ run'[t].at = "over" /\ ticket'[t].status = "done" /\ ticket'[t].nth = ticket[t].nth
    BY <1>1, <2>1, SavedType
  <2>3. Effect(t)' BY <1>1, <1>4, <2>2 DEF Done, Effect, HasFine, Rule
  <2> QED BY <1>1, <1>4, <2>1, <2>3, SavedStep DEF Done, Effect
<1> QED BY <1>2, <1>3, <1>4

LEMMA CreateStep == ASSUME IInv, NEW t \in Tickets, Create(t) PROVE IInv'
<1>1. Typed /\ Effect(t) BY DEF IInv
<1> DEFINE z == [ticket[t] EXCEPT !.status = "standby", !.cycle = cycle]
<1>2. z \in TicketState /\ z.status = "standby" /\ z.nth = ticket[t].nth
  <2>1. ticket[t] \in TicketState BY <1>1, TypeUnfold
  <2>2. cycle \in 0..cycle BY <1>1 DEF Typed, TypeOK
  <2> QED BY <2>1, <2>2 DEF TicketState, Statuses
<1>3. ticket' = [ticket EXCEPT ![t] = z] /\ run' = [run EXCEPT ![t].at = "standby"] BY DEF Create
<1> HIDE DEF z
<1>4. /\ run' \in [Tickets -> RunState] /\ ticket' \in [Tickets -> TicketState]
      /\ run'[t].at = "standby" /\ ticket'[t] = z
      /\ \A u \in Tickets \ {t} : run'[u] = run[u] /\ ticket'[u] = ticket[u]
  BY <1>1, <1>2, <1>3, TicketWritten DEF Steps
<1>5. /\ ticket[t].status = "none" /\ run[t].at \in {"begun", "counted"}
      /\ t \notin Merits => ticket[t].nth > 0
  BY <1>1 DEF Create, Effect, Typed
<1>6. \A u \in Tickets \ Merits :
         (ticket'[u].status # "none" \/ run'[u].at = "counted") => ticket'[u].nth > 0
  BY <1>1, <1>2, <1>4, <1>5 DEF Typed, TypeOK
<1>7. UNCHANGED <<collaborator, revocation, midnight, bounds, applied, returned, straddled, crossed>>
  BY DEF Create
<1>8. Typed'
  BY <1>1, <1>4, <1>6, <1>7, TypeUnfold
     DEF Typed, TypeOK, TicketState, Statuses, RunState, RevocationState, MidnightState, bounds
<1>9. Chosen' /\ \A u \in Tickets : Money(u)' BY <1>2, <1>4, <1>5, <1>7, HandlerMoney
<1>10. Effect(t)' BY <1>1, <1>2, <1>4, <1>5, <1>7 DEF Effect
<1>11. \A u \in Tickets : Effect(u)' BY <1>4, <1>7, <1>10, HandlerEffect
<1> QED BY <1>8, <1>9, <1>11 DEF IInv

LEMMA BeginStep == ASSUME IInv, NEW t \in Tickets, Begin(t) PROVE IInv'
<1>1. Typed /\ Effect(t) BY DEF IInv
<1> DEFINE s == [at |-> "begun", seen |-> collaborator[Owner[t]]]
<1>2. s \in RunState /\ s.at = "begun" BY <1>1, TypeUnfold DEF RunState, Steps
<1>3. run' = [run EXCEPT ![t] = s] BY DEF Begin
<1> HIDE DEF s
<1>4. /\ run' \in [Tickets -> RunState] /\ run'[t].at = "begun"
      /\ \A u \in Tickets \ {t} : run'[u] = run[u]
  BY <1>1, <1>2, <1>3, TypeUnfold
<1> USE DEF Begin, docs, ghosts, bounds
<1>5. \A u \in Tickets \ Merits : run'[u].at = "counted" => ticket'[u].nth > 0
  BY <1>1, <1>4 DEF Typed
<1>6. Typed' BY <1>1, <1>4, <1>5 DEF Typed, TypeOK, RunState
<1>8. Chosen' /\ \A u \in Tickets : Money(u)' BY <1>4, HandlerMoney
<1>9. Effect(t)' BY <1>1, <1>4 DEF Effect
<1>10. \A u \in Tickets : Effect(u)' BY <1>4, <1>9, HandlerEffect
<1> QED BY <1>6, <1>8, <1>10 DEF IInv

LEMMA CountStep == ASSUME IInv, NEW t \in Tickets, Count(t) PROVE IInv'
<1>1. Typed /\ Effect(t) BY DEF IInv
<1> DEFINE n == Nth(Owner[t])
           z == [ticket[t] EXCEPT !.nth = n]
<1>2. n \in 1..Len(Policy) BY NthType
<1>3. ticket' = [ticket EXCEPT ![t] = z] /\ run' = [run EXCEPT ![t].at = "counted"] BY DEF Count
<1> HIDE DEF n
<1>4. z \in TicketState /\ z.status = ticket[t].status /\ z.nth = n /\ n > 0
  <2>1. Len(Policy) \in Nat BY TicketsAssumption DEF Rules
  <2>2. n \in 0..Len(Policy) /\ n > 0 BY <1>2, <2>1
  <2> QED BY <1>1, <2>2, TypeUnfold DEF TicketState
<1> HIDE DEF z
<1>6. /\ run' \in [Tickets -> RunState] /\ ticket' \in [Tickets -> TicketState]
      /\ run'[t].at = "counted" /\ ticket'[t] = z
      /\ \A u \in Tickets \ {t} : run'[u] = run[u] /\ ticket'[u] = ticket[u]
  BY <1>1, <1>3, <1>4, TicketWritten DEF Steps
<1>7. \A u \in Tickets \ Merits :
         (ticket'[u].status # "none" \/ run'[u].at = "counted") => ticket'[u].nth > 0
  BY <1>1, <1>4, <1>6 DEF Typed, TypeOK
<1>8. UNCHANGED <<collaborator, revocation, midnight, bounds, applied, returned, crossed>>
      /\ run[t].at = "begun"
  BY DEF Count, ghosts
<1>9. Typed' BY <1>1, <1>6, <1>7, <1>8 DEF Typed, TypeOK, RunState, TicketState, Statuses, bounds
<1>10. ticket[t].status = "none" BY <1>1, <1>8 DEF Effect
<1>11. Chosen' /\ \A u \in Tickets : Money(u)' BY <1>4, <1>6, <1>8, <1>10, HandlerMoney
<1>12. Effect(t)' BY <1>1, <1>4, <1>6, <1>8, <1>10 DEF Effect
<1>13. \A u \in Tickets : Effect(u)' BY <1>6, <1>8, <1>12, HandlerEffect
<1> QED BY <1>9, <1>11, <1>13 DEF IInv

(* The effect of a ticket on the collaborator.                             *)
LEMMA ApplyStep == ASSUME IInv, NEW t \in Tickets, Apply(t) PROVE IInv'
<1>1. Typed /\ Effect(t) BY DEF IInv
<1>2. /\ Owner[t] \in Collaborators /\ run[t] \in RunState /\ run[t].seen \in Document
      /\ run \in [Tickets -> RunState] /\ collaborator \in [Collaborators -> Document]
  BY <1>1, TypeUnfold DEF RunState
<1>3. /\ collaborator' \in [Collaborators -> Document]
      /\ \/ applied' = applied
         \/ applied' = applied \cup {t} /\ ~HasFine(t)
  <2>1. CASE Reward(t)
    <3> DEFINE doc == [run[t].seen EXCEPT !.points = @ + 1]
    <3>1. doc \in Document BY <1>2, DocumentUpdate
    <3>2. Save(t, doc) BY <2>1 DEF Reward
    <3> HIDE DEF doc
    <3> QED BY <1>2, <2>1, <3>1, <3>2 DEF Save, Reward, HasFine
  <2>2. CASE Punish(t)
    <3> DEFINE b == Rule(t) = "lock"
               doc == [run[t].seen EXCEPT !.violations = @ + 1, !.locked = @ \/ b]
    <3>1. doc \in Document BY <1>2, DocumentUpdate
    <3>2. Save(t, doc) BY <2>2 DEF Punish
    <3> HIDE DEF doc
    <3> QED BY <1>2, <2>2, <3>1, <3>2 DEF Save, Punish, HasFine
  <2>3. CASE Fine(t) BY <1>2, <2>3 DEF Fine
  <2> QED BY <2>1, <2>2, <2>3 DEF Apply
<1>4. /\ run' \in [Tickets -> RunState] /\ run'[t].at = "applied"
      /\ \A u \in Tickets \ {t} : run'[u] = run[u]
  <2> DEFINE s == [at |-> "applied", seen |-> New]
  <2>1. s \in RunState /\ s.at = "applied" BY NewType DEF RunState, Steps
  <2>2. run' = [run EXCEPT ![t] = s] BY DEF Apply
  <2> HIDE DEF s
  <2> QED BY <1>2, <2>1, <2>2
<1>5. /\ UNCHANGED <<ticket, revocation, midnight, bounds, returned, crossed>>
      /\ run[t].at = "doing"
  BY DEF Apply
<1>6. \A u \in Tickets \ Merits : run'[u].at = "counted" => ticket'[u].nth > 0
  BY <1>1, <1>4, <1>5 DEF Typed
<1>7. Typed' BY <1>1, <1>3, <1>4, <1>5, <1>6 DEF Typed, TypeOK, RunState, bounds
<1>8. Chosen' /\ \A u \in Tickets : Money(u)' BY <1>4, <1>5, HandlerMoney
<1>9. Effect(t)' BY <1>1, <1>3, <1>4, <1>5 DEF Effect, HasFine, Rule
<1>10. \A u \in Tickets : Effect(u)' BY <1>3, <1>4, <1>5, <1>9, HandlerEffect
<1> QED BY <1>7, <1>8, <1>10 DEF IInv

LEMMA HandleStep == ASSUME IInv, NEW t \in Tickets, Handle(t) PROVE IInv'
  BY BeginStep, CountStep, CreateStep, SavingStep, ApplyStep DEF Handle
-----------------------------------------------------------------------------
LEMMA RevocationUpdate ==
    ASSUME Typed, NEW r \in Revokers, NEW s \in RevocationState, revocation' = [revocation EXCEPT ![r] = s]
    PROVE  /\ revocation' \in [Revokers -> RevocationState]
           /\ revocation'[r] = s
           /\ \A q \in Revokers \ {r} : revocation'[q] = revocation[q]
  BY TypeUnfold

LEMMA RevokeReadsStep ==
    ASSUME IInv, NEW r \in Revokers, NEW t \in Tickets, RevokeReads(r, t)
    PROVE  IInv'
<1>1. Typed BY DEF IInv
<1> DEFINE s == [revocation[r] EXCEPT !.at = "read", !.ticket = t]
<1>2. s \in RevocationState /\ s.at = "read" /\ s.ticket = t BY <1>1, TypeUnfold DEF RevocationState
<1>3. revocation' = [revocation EXCEPT ![r] = s] BY DEF RevokeReads
<1> HIDE DEF s
<1>4. /\ revocation' \in [Revokers -> RevocationState] /\ revocation'[r] = s
      /\ \A q \in Revokers \ {r} : revocation'[q] = revocation[q]
  BY <1>1, <1>2, <1>3, RevocationUpdate
<1> USE DEF RevokeReads, docs, ghosts, bounds
<1>5. Typed' BY <1>1, <1>4 DEF Typed, TypeOK, RevocationState
<1>7. \A u \in Tickets : Effect(u)' BY DEF IInv, Effect, HasFine, Rule
<1>8. ASSUME NEW u \in Tickets PROVE Money(u)'
  <2>1. Money(u) BY DEF IInv
  <2>2. \A q \in Revokers : Paying(q, u)' => Paying(q, u) BY <1>2, <1>4 DEF Paying
  <2>3. ticket[t].status # "revoke" BY DEF Revocable
  <2> QED BY <1>2, <1>4, <2>1, <2>2, <2>3 DEF Money
<1>9. Chosen' BY <1>2, <1>4 DEF IInv, Chosen, Revocable, HasFine, Rule
<1> QED BY <1>5, <1>7, <1>8, <1>9 DEF IInv

LEMMA RevokeSavesStep == ASSUME IInv, NEW r \in Revokers, RevokeSaves(r) PROVE IInv'
<1>1. Typed /\ Chosen BY DEF IInv
<1>2. PICK t \in Tickets : t = revocation[r].ticket BY <1>1, TypeUnfold DEF RevocationState
<1> DEFINE s == [revocation[r] EXCEPT !.at = "revoked"]
           z == [ticket[t] EXCEPT !.status = "revoke"]
<1>3. s \in RevocationState /\ s.at = "revoked" /\ s.ticket = t
  BY <1>1, <1>2, TypeUnfold DEF RevocationState
<1>4. z \in TicketState /\ z.status = "revoke" /\ z.nth = ticket[t].nth
  BY <1>1, TypeUnfold DEF TicketState, Statuses
<1>5. revocation' = [revocation EXCEPT ![r] = s] /\ ticket' = [ticket EXCEPT ![t] = z]
  BY <1>2 DEF RevokeSaves
<1>6. /\ revocation[r].at = "read" /\ ticket[t].status # "none" /\ HasFine(t)
      /\ UNCHANGED <<collaborator, run, midnight, bounds, applied, returned>>
      /\ crossed' = IF \/ run[t].at # "over"
                       \/ \E q \in Revokers \ {r} : revocation[q].ticket = t /\ revocation[q].at = "read"
                    THEN crossed \cup {t} ELSE crossed
  BY <1>1, <1>2 DEF RevokeSaves, Chosen
<1> HIDE DEF s, z
<1>7. /\ revocation' \in [Revokers -> RevocationState] /\ revocation'[r] = s
      /\ \A q \in Revokers \ {r} : revocation'[q] = revocation[q]
  BY <1>1, <1>3, <1>5, RevocationUpdate
<1>8. /\ ticket' \in [Tickets -> TicketState] /\ ticket'[t] = z
      /\ \A u \in Tickets \ {t} : ticket'[u] = ticket[u]
  BY <1>1, <1>4, <1>5, TypeUnfold
<1>9. \A u \in Tickets \ Merits :
         (ticket'[u].status # "none" \/ run'[u].at = "counted") => ticket'[u].nth > 0
  BY <1>1, <1>4, <1>6, <1>8 DEF Typed, TypeOK
<1>10. crossed' \subseteq Tickets BY <1>1, <1>6 DEF Typed
<1>11. Typed'
  BY <1>1, <1>6, <1>7, <1>8, <1>9, <1>10
     DEF Typed, TypeOK, RevocationState, TicketState, Statuses, bounds
<1>12. \A u \in Tickets : HasFine(u)' <=> HasFine(u)
  <2>1. \A u \in Tickets : ticket'[u].nth = ticket[u].nth BY <1>4, <1>8
  <2> QED BY <2>1 DEF HasFine, Rule
<1>13. Chosen'
  <2>1. \A q \in Revokers : revocation[q].ticket \in Tickets BY <1>1, TypeUnfold DEF RevocationState
  <2>2. ASSUME NEW q \in Revokers, revocation'[q].at = "read"
        PROVE  (ticket[revocation[q].ticket].status # "none" /\ HasFine(revocation[q].ticket))'
    <3>1. q # r /\ revocation'[q] = revocation[q] BY <1>3, <1>7, <2>2
    <3>2. PICK v \in Tickets : v = revocation[q].ticket BY <2>1
    <3>3. ticket[v].status # "none" /\ HasFine(v) BY <1>1, <2>2, <3>1, <3>2 DEF Chosen
    <3>4. ticket'[v].status # "none" BY <1>4, <1>8, <3>3
    <3> QED BY <1>12, <3>1, <3>2, <3>3, <3>4 DEF HasFine, Rule
  <2> QED BY <2>2 DEF Chosen
<1>14. ASSUME NEW u \in Tickets PROVE Effect(u)'
  <2>1. Effect(u) BY DEF IInv
  <2>2. CASE u # t BY <1>6, <1>8, <1>12, <2>1, <2>2 DEF Effect
  <2>3. CASE u = t BY <1>4, <1>6, <1>8, <1>12, <2>1, <2>3 DEF Effect
  <2> QED BY <2>2, <2>3
<1>15. ASSUME NEW u \in Tickets PROVE Money(u)'
  <2> SUFFICES ASSUME u \notin crossed' PROVE Money(u)' BY DEF Money
  <2>1. Money(u) /\ u \notin crossed BY <1>6 DEF IInv
  <2>2. CASE u # t
    <3>1. \A q \in Revokers : Paying(q, u)' => Paying(q, u) BY <1>3, <1>7, <2>2 DEF Paying
    <3> QED BY <1>3, <1>6, <1>7, <1>8, <2>1, <2>2, <3>1 DEF Money
  <2>3. CASE u = t
    <3>1. /\ run[t].at = "over"
          /\ \A q \in Revokers \ {r} : ~(revocation[q].ticket = t /\ revocation[q].at = "read")
      BY <1>6, <2>3
    <3>2. ticket[t].status # "revoke" BY <1>2, <1>6, <2>1, <2>3 DEF Money
    <3>3. returned[t] = 0 /\ \A q \in Revokers : ~Paying(q, t) BY <2>1, <2>3, <3>2 DEF Money
    <3>4. \A q \in Revokers : Paying(q, t)' => q = r BY <1>7, <3>3 DEF Paying
    <3> QED BY <1>3, <1>4, <1>6, <1>7, <1>8, <2>3, <3>1, <3>3, <3>4 DEF Money
  <2> QED BY <2>2, <2>3
<1> QED BY <1>11, <1>13, <1>14, <1>15 DEF IInv

LEMMA PayReadsStep == ASSUME IInv, NEW r \in Revokers, PayReads(r) PROVE IInv'
<1>1. Typed /\ Chosen BY DEF IInv
<1> DEFINE s == [revocation[r] EXCEPT !.at = "paying",
                                      !.seen = collaborator[Owner[revocation[r].ticket]]]
<1>2. /\ s \in RevocationState /\ s.at = "paying" /\ s.ticket = revocation[r].ticket
      /\ revocation[r].at = "revoked"
  BY <1>1, TypeUnfold DEF RevocationState, PayReads
<1>3. revocation' = [revocation EXCEPT ![r] = s] BY DEF PayReads
<1> HIDE DEF s
<1>4. /\ revocation' \in [Revokers -> RevocationState] /\ revocation'[r] = s
      /\ \A q \in Revokers \ {r} : revocation'[q] = revocation[q]
  BY <1>1, <1>2, <1>3, RevocationUpdate
<1> USE DEF PayReads, docs, ghosts, bounds
<1>5. Typed' BY <1>1, <1>4 DEF Typed, TypeOK, RevocationState
<1>7. \A u \in Tickets : Effect(u)' BY DEF IInv, Effect, HasFine, Rule
<1>8. ASSUME NEW u \in Tickets PROVE Money(u)'
  <2>1. Money(u) BY DEF IInv
  <2>2. \A q \in Revokers : Paying(q, u)' <=> Paying(q, u) BY <1>2, <1>4 DEF Paying
  <2> QED BY <1>2, <1>4, <2>1, <2>2 DEF Money
<1>9. Chosen' BY <1>1, <1>2, <1>4 DEF Chosen, HasFine, Rule
<1> QED BY <1>5, <1>7, <1>8, <1>9 DEF IInv

LEMMA PayWritesStep == ASSUME IInv, NEW r \in Revokers, PayWrites(r) PROVE IInv'
<1>1. Typed /\ Chosen BY DEF IInv
<1>2. PICK t \in Tickets : t = revocation[r].ticket BY <1>1, TypeUnfold DEF RevocationState
<1> DEFINE doc == [revocation[r].seen EXCEPT !.wallet = @ + 1]
<1>3. /\ collaborator' = [collaborator EXCEPT ![Owner[t]] = doc]
      /\ returned' = [returned EXCEPT ![t] = @ + 1]
      /\ revocation' = [revocation EXCEPT ![r] = Idle] /\ revocation[r].at = "paying"
      /\ UNCHANGED <<ticket, run, midnight, bounds, applied, crossed>>
  BY <1>2 DEF PayWrites
<1>4. Owner[t] \in Collaborators /\ revocation[r].seen \in Document
  BY <1>1, TypeUnfold DEF RevocationState
<1>5. doc \in Document BY <1>4, DocumentUpdate
<1> HIDE DEF doc
<1>7. collaborator' \in [Collaborators -> Document] BY <1>1, <1>3, <1>4, <1>5, TypeUnfold
<1>9. /\ revocation' \in [Revokers -> RevocationState] /\ revocation'[r] = Idle
      /\ \A q \in Revokers \ {r} : revocation'[q] = revocation[q]
  BY <1>1, <1>3, IdleType, RevocationUpdate
<1>10. /\ returned' \in [Tickets -> Nat] /\ returned'[t] = returned[t] + 1
       /\ \A u \in Tickets \ {t} : returned'[u] = returned[u]
  BY <1>1, <1>3 DEF Typed
<1>11. Typed' BY <1>1, <1>3, <1>7, <1>9, <1>10 DEF Typed, TypeOK, RevocationState, bounds
<1>12. \A u \in Tickets : Effect(u)' BY <1>3 DEF IInv, Effect, HasFine, Rule
<1>13. ASSUME NEW u \in Tickets PROVE Money(u)'
  <2>1. Money(u) BY DEF IInv
  <2>2. \A q \in Revokers : Paying(q, u)' => Paying(q, u) /\ q # r BY <1>9, IdleType DEF Paying
  <2>3. \A q \in Revokers : revocation'[q].at = "read" => revocation'[q] = revocation[q]
    BY <1>9, IdleType
  <2>4. CASE u # t BY <1>3, <1>10, <2>1, <2>2, <2>3, <2>4 DEF Money
  <2>5. CASE u = t
    <3> SUFFICES ASSUME t \notin crossed PROVE Money(t)' BY <1>3, <2>5 DEF Money
    <3>1. Paying(r, t) BY <1>2, <1>3 DEF Paying
    <3>2. returned[t] = 0 /\ ticket[t].status = "revoke" /\ \A q \in Revokers : Paying(q, t) => q = r
      BY <2>1, <2>5, <3>1 DEF Money
    <3>3. \A q \in Revokers : ~Paying(q, t)' BY <2>2, <2>5, <3>2
    <3> QED BY <1>3, <1>10, <2>1, <2>3, <2>5, <3>2, <3>3 DEF Money
  <2> QED BY <2>4, <2>5
<1>14. Chosen' BY <1>1, <1>3, <1>9, IdleType DEF Chosen, HasFine, Rule
<1> QED BY <1>11, <1>12, <1>13, <1>14 DEF IInv

LEMMA RevokeStep == ASSUME IInv, NEW r \in Revokers, Revoke(r) PROVE IInv'
  BY RevokeReadsStep, RevokeSavesStep, PayReadsStep, PayWritesStep DEF Revoke
-----------------------------------------------------------------------------
(* The job at midnight, the end of a cycle and a restart leave the tickets *)
(* alone.                                                                  *)
LEMMA TicketsUntouched ==
    ASSUME IInv, UNCHANGED <<ticket, run, revocation, applied, returned, crossed>>
    PROVE  Chosen' /\ \A t \in Tickets : Effect(t)' /\ Money(t)'
  BY DEF IInv, Chosen, Effect, Money, Paying, HasFine, Rule

LEMMA MidnightUpdate ==
    ASSUME NEW m \in MidnightState, NEW c \in Collaborators
    PROVE  /\ [m EXCEPT !.left = @ \ {c}, !.seen[c] = New] \in MidnightState
           /\ [m EXCEPT !.left = @ \ {c}] \in MidnightState
           /\ [m EXCEPT !.at = "day"] \in MidnightState
           /\ [m EXCEPT !.at = "reset", !.left = {d \in Collaborators : Scored(d)}] \in MidnightState
           /\ m.seen[c] \in Document
<1>1. m.left \ {c} \in SUBSET Collaborators /\ m.seen \in [Collaborators -> Document]
  BY DEF MidnightState
<1>2. [m.seen EXCEPT ![c] = New] \in [Collaborators -> Document] BY <1>1, NewType
<1>3. {d \in Collaborators : Scored(d)} \in SUBSET Collaborators OBVIOUS
<1> QED BY <1>1, <1>2, <1>3, Zenon DEF MidnightState

LEMMA MidnightReads ==
    ASSUME IInv, Summarize \/ ResetReads \/ Morning
    PROVE  IInv'
<1>1. Typed /\ midnight \in MidnightState BY TypeUnfold DEF IInv
<1>2. midnight' \in MidnightState
  <2>1. CASE Summarize
    <3>1. PICK best \in SUBSET Listed :
             midnight' = [at |-> "board", left |-> best,
                          seen |-> [c \in Collaborators |-> IF c \in best THEN collaborator[c] ELSE New]]
      BY <2>1 DEF Summarize
    <3>2. best \in SUBSET Collaborators BY DEF Listed
    <3>3. [c \in Collaborators |-> IF c \in best THEN collaborator[c] ELSE New]
             \in [Collaborators -> Document]
      BY <1>1, NewType DEF Typed, TypeOK
    <3> QED BY <3>1, <3>2, <3>3 DEF MidnightState
  <2>2. CASE ResetReads
    <3>1. {d \in Collaborators : Scored(d)} \in SUBSET Collaborators OBVIOUS
    <3> QED BY <1>1, <2>2, <3>1 DEF ResetReads, MidnightState
  <2>3. CASE Morning BY <1>1, <2>3 DEF Morning, MidnightState
  <2> QED BY <2>1, <2>2, <2>3
<1>3. UNCHANGED <<collaborator, ticket, run, revocation, cycle, restarts, applied, returned, crossed>>
  BY DEF Summarize, ResetReads, Morning, docs, ghosts, bounds
<1>4. Typed' BY <1>1, <1>2, <1>3 DEF Typed, TypeOK, MidnightState
<1> QED BY <1>3, <1>4, TicketsUntouched DEF IInv

LEMMA MidnightWrites ==
    ASSUME IInv, NEW c \in Collaborators, CountTop(c) \/ ResetWrites(c)
    PROVE  IInv'
<1>1. Typed /\ midnight \in MidnightState BY TypeUnfold DEF IInv
<1>2. midnight.seen[c] \in Document /\ collaborator[c] \in Document
  BY <1>1, MidnightUpdate DEF Typed, TypeOK
<1>3. collaborator' \in [Collaborators -> Document]
  <2>1. CASE CountTop(c)
    <3> DEFINE doc == Counted(collaborator[c], midnight.seen[c])
    <3>1. doc \in Document BY <1>2, DocumentUpdate
    <3>2. collaborator' = [collaborator EXCEPT ![c] = doc] BY <2>1 DEF CountTop
    <3> HIDE DEF doc
    <3> QED BY <1>1, <3>1, <3>2, TypeUnfold
  <2>2. CASE ResetWrites(c)
    <3> DEFINE doc == [collaborator[c] EXCEPT !.points = 0, !.violations = 0]
    <3>1. doc \in Document BY <1>2, DocumentUpdate
    <3>2. collaborator' = [collaborator EXCEPT ![c] = doc] BY <2>2 DEF ResetWrites
    <3> HIDE DEF doc
    <3> QED BY <1>1, <3>1, <3>2, TypeUnfold
  <2> QED BY <2>1, <2>2
<1>4. midnight' \in MidnightState BY <1>1, MidnightUpdate DEF CountTop, ResetWrites
<1>5. UNCHANGED <<ticket, run, revocation, cycle, restarts, applied, returned, crossed>>
  BY DEF CountTop, ResetWrites, ghosts, bounds
<1>6. Typed' BY <1>1, <1>3, <1>4, <1>5 DEF Typed, TypeOK, MidnightState
<1> QED BY <1>5, <1>6, TicketsUntouched DEF IInv

LEMMA CycleStep == ASSUME IInv, NextCycle PROVE IInv'
<1>1. Typed BY DEF IInv
<1>2. /\ UNCHANGED <<collaborator, ticket, run, revocation, midnight, restarts, applied, returned, crossed>>
      /\ cycle' = cycle + 1 /\ cycle + restarts < MaxEvents
  BY DEF NextCycle, docs
<1>3. cycle \in Nat /\ restarts \in Nat /\ MaxEvents \in Nat
  BY <1>1, TicketsAssumption DEF Typed, TypeOK
<1>4. ticket' \in [Tickets -> TicketState']
  <2>1. 0..cycle \subseteq 0..cycle' BY <1>2, <1>3
  <2>2. \A z \in TicketState : z \in TicketState' BY <2>1 DEF TicketState, Statuses
  <2> QED BY <1>1, <1>2, <2>2, TypeUnfold
<1>5. cycle' \in Nat /\ restarts' \in Nat /\ cycle' + restarts' <= MaxEvents BY <1>2, <1>3
<1>6. Typed' BY <1>1, <1>2, <1>4, <1>5 DEF Typed, TypeOK, TicketState, Statuses
<1> QED BY <1>2, <1>6, TicketsUntouched DEF IInv

LEMMA RestartStep == ASSUME IInv, Restart PROVE IInv'
<1>1. Typed BY DEF IInv
<1> DEFINE s == [at |-> "over", seen |-> New]
<1>2. s \in RunState /\ s.at = "over" BY NewType DEF RunState, Steps
<1>3. \A t \in Tickets : run'[t] = IF t \in AtWork THEN s ELSE run[t] BY DEF Restart
<1>4. run' = [t \in Tickets |-> IF t \in AtWork THEN s ELSE run[t]] BY DEF Restart
<1> HIDE DEF s
<1>5. run' \in [Tickets -> RunState] BY <1>1, <1>2, <1>4, TypeUnfold
<1>6. \A t \in Tickets : run'[t].at = "over" \/ (run'[t] = run[t] /\ run[t].at \in {"none", "over"})
  BY <1>2, <1>3 DEF AtWork
<1>7. revocation' = [r \in Revokers |-> Idle] BY DEF Restart
<1>8. /\ revocation' \in [Revokers -> RevocationState]
      /\ \A r \in Revokers : revocation'[r].at = "idle"
  BY <1>7, IdleType
<1>9. midnight' \in MidnightState BY NewType DEF Restart, MidnightState
<1>10. cycle' \in Nat /\ restarts' \in Nat /\ cycle' + restarts' <= MaxEvents
  BY <1>1, TicketsAssumption DEF Restart, Typed, TypeOK
<1>11. UNCHANGED <<collaborator, ticket, cycle, applied, returned, crossed>>
  BY DEF Restart, docs, ghosts
<1>12. \A t \in Tickets \ Merits : run'[t].at = "counted" => ticket'[t].nth > 0 BY <1>6
<1>13. Typed'
  BY <1>1, <1>5, <1>8, <1>9, <1>10, <1>11, <1>12
     DEF Typed, TypeOK, RunState, RevocationState, MidnightState
<1>15. Chosen' BY <1>8 DEF Chosen
<1>16. ASSUME NEW t \in Tickets PROVE Effect(t)'
  <2>1. Effect(t) BY DEF IInv
  <2> QED BY <1>6, <1>11, <2>1 DEF Effect, HasFine, Rule
<1>17. ASSUME NEW t \in Tickets PROVE Money(t)'
  <2>1. Money(t) BY DEF IInv
  <2>2. \A r \in Revokers : ~Paying(r, t)' BY <1>8 DEF Paying
  <2> QED BY <1>6, <1>8, <1>11, <2>1, <2>2 DEF Money
<1> QED BY <1>13, <1>15, <1>16, <1>17 DEF IInv
-----------------------------------------------------------------------------
LEMMA InitIInv == Init => IInv
<1> SUFFICES ASSUME Init PROVE IInv OBVIOUS
<1>1. \A c \in Collaborators : [New EXCEPT !.points = Points[c]] \in Document
  BY TicketsAssumption DEF New, Document
<1>2. Len(Policy) \in Nat BY TicketsAssumption DEF Rules
<1>3. /\ collaborator \in [Collaborators -> Document]
      /\ revocation \in [Revokers -> RevocationState]
      /\ \A r \in Revokers : revocation[r].at = "idle"
  BY <1>1, IdleType DEF Init
<1>4. /\ ticket \in [Tickets -> TicketState] /\ run \in [Tickets -> RunState]
      /\ midnight \in MidnightState
  BY <1>2, NewType DEF Init, TicketState, Statuses, RunState, Steps, MidnightState
<1>5. Typed
  BY <1>3, <1>4, TicketsAssumption
     DEF Init, Typed, TypeOK, TicketState, Statuses, RunState, RevocationState, MidnightState
<1> QED BY <1>3, <1>5 DEF Init, IInv, Chosen, Effect, Money, Paying

LEMMA NextIInv == IInv /\ [Next]_vars => IInv'
<1> SUFFICES ASSUME IInv, [Next]_vars PROVE IInv' OBVIOUS
<1>1. CASE Next
  BY <1>1, HandleStep, RevokeStep, MidnightReads, MidnightWrites, CycleStep, RestartStep
     DEF Next, Midnight
<1>2. CASE UNCHANGED vars
  BY <1>2 DEF vars, docs, bounds, ghosts, IInv, Typed, TypeOK, Chosen, Effect, Money, Paying, HasFine, Rule
<1> QED BY <1>1, <1>2

LEMMA IInvHolds == Spec => []IInv
  BY InitIInv, NextIInv, PTL DEF Spec

(* Collaborators, tickets, handlers, revocations and the job keep to their *)
(* types; the nth violation is one the policy has a rule for.              *)
THEOREM TicketsTypeCorrect == Spec => []TypeOK
<1>1. IInv => TypeOK BY DEF IInv, Typed
<1> QED BY <1>1, IInvHolds, PTL

(* A fine is given back once, unless the ticket was revoked by two admins  *)
(* together or before its handler had ended.                               *)
THEOREM FinesReturnedOnce == Spec => []ReturnedOnce
<1>1. IInv => ReturnedOnce
  <2>1. IInv => \A t \in Tickets : returned[t] \in Nat BY DEF IInv, Typed
  <2> QED BY <2>1 DEF IInv, ReturnedOnce, Money
<1> QED BY <1>1, IInvHolds, PTL
-----------------------------------------------------------------------------
(* Documents that hold no more than the executed tickets brought.          *)
LEMMA FairCounts ==
    ASSUME NEW c, NEW done, done \subseteq Tickets
    PROVE  /\ IsFiniteSet(Rewards(c, done)) /\ Cardinality(Rewards(c, done)) \in Nat
           /\ IsFiniteSet(Sentences(c, done)) /\ Cardinality(Sentences(c, done)) \in Nat
<1>1. Rewards(c, done) \subseteq Tickets /\ Sentences(c, done) \subseteq Tickets
  BY DEF Rewards, Sentences
<1>2. IsFiniteSet(Rewards(c, done)) /\ IsFiniteSet(Sentences(c, done))
  BY <1>1, TicketsAssumption, FS_Subset
<1> QED BY <1>2, FS_CardinalityType

LEMMA FairKept ==
    ASSUME NEW c \in Collaborators, NEW d \in Document, NEW done, NEW more, NEW n, NEW m,
           done \subseteq more, more \subseteq Tickets,
           \A t \in done : m[t].nth = n[t].nth,
           Fair(c, d, done, n)
    PROVE  Fair(c, d, more, m)
<1>1. Rewards(c, done) \subseteq Rewards(c, more) /\ Sentences(c, done) \subseteq Sentences(c, more)
  BY DEF Rewards, Sentences
<1>2. done \subseteq Tickets OBVIOUS
<1>3. /\ Cardinality(Rewards(c, done)) <= Cardinality(Rewards(c, more))
      /\ Cardinality(Sentences(c, done)) <= Cardinality(Sentences(c, more))
  BY <1>1, FairCounts, FS_Subset
<1>4. /\ Cardinality(Rewards(c, done)) \in Nat /\ Cardinality(Rewards(c, more)) \in Nat
      /\ Cardinality(Sentences(c, done)) \in Nat /\ Cardinality(Sentences(c, more)) \in Nat
      /\ Points[c] \in Nat /\ d.points \in Nat /\ d.violations \in Nat
  BY <1>2, FairCounts, TicketsAssumption DEF Document
<1>5. d.locked => \E t \in Sentences(c, more) : Policy[m[t].nth] = "lock"
  <2>1. \A t \in Sentences(c, done) : t \in done BY DEF Sentences
  <2> QED BY <1>1, <2>1 DEF Fair
<1> QED BY <1>3, <1>4, <1>5 DEF Fair

LEMMA FairNew ==
    ASSUME NEW c \in Collaborators, NEW done, done \subseteq Tickets, NEW n
    PROVE  Fair(c, New, done, n)
<1>1. /\ Points[c] \in Nat /\ Cardinality(Rewards(c, done)) \in Nat
      /\ Cardinality(Sentences(c, done)) \in Nat
  BY FairCounts, TicketsAssumption
<1> QED BY <1>1 DEF Fair, New

(* One more executed ticket makes room for what it brings.                 *)
LEMMA FairReward ==
    ASSUME NEW t \in Merits, NEW d \in Document, NEW done, NEW n,
           done \subseteq Tickets, t \notin done, Fair(Owner[t], d, done, n)
    PROVE  Fair(Owner[t], [d EXCEPT !.points = @ + 1], done \cup {t}, n)
<1> DEFINE c == Owner[t]
           e == [d EXCEPT !.points = @ + 1]
<1>1. t \in Tickets /\ c \in Collaborators /\ Points[c] \in Nat BY TicketsAssumption
<1>2. /\ Rewards(c, done \cup {t}) = Rewards(c, done) \cup {t} /\ t \notin Rewards(c, done)
      /\ Sentences(c, done \cup {t}) = Sentences(c, done)
  BY DEF Rewards, Sentences
<1>3. Cardinality(Rewards(c, done \cup {t})) = Cardinality(Rewards(c, done)) + 1
  BY <1>2, FairCounts, FS_AddElement
<1>4. Cardinality(Rewards(c, done)) \in Nat BY FairCounts
<1>5. e.points = d.points + 1 /\ e.violations = d.violations /\ e.locked = d.locked
      /\ d.points \in Nat
  BY DEF Document
<1>6. Fair(c, d, done, n) OBVIOUS
<1>7. e.points <= Points[c] + Cardinality(Rewards(c, done \cup {t}))
  BY <1>1, <1>3, <1>4, <1>5, <1>6 DEF Fair
<1> HIDE DEF c, e
<1>8. Fair(c, e, done \cup {t}, n) BY <1>2, <1>5, <1>6, <1>7 DEF Fair
<1> QED BY <1>8 DEF c, e

LEMMA FairPunishment ==
    ASSUME NEW t \in Tickets \ Merits, NEW d \in Document, NEW done, NEW n, NEW b \in BOOLEAN,
           done \subseteq Tickets, t \notin done, Fair(Owner[t], d, done, n),
           b => Policy[n[t].nth] = "lock"
    PROVE  Fair(Owner[t], [d EXCEPT !.violations = @ + 1, !.locked = @ \/ b], done \cup {t}, n)
<1> DEFINE c == Owner[t]
           e == [d EXCEPT !.violations = @ + 1, !.locked = @ \/ b]
<1>1. c \in Collaborators BY TicketsAssumption
<1>2. /\ Sentences(c, done \cup {t}) = Sentences(c, done) \cup {t} /\ t \notin Sentences(c, done)
      /\ Rewards(c, done \cup {t}) = Rewards(c, done)
  BY DEF Rewards, Sentences
<1>3. Cardinality(Sentences(c, done \cup {t})) = Cardinality(Sentences(c, done)) + 1
  BY <1>2, FairCounts, FS_AddElement
<1>4. Cardinality(Sentences(c, done)) \in Nat BY FairCounts
<1>5. e.points = d.points /\ e.violations = d.violations + 1 /\ (e.locked <=> d.locked \/ b)
      /\ d.violations \in Nat
  BY DEF Document
<1>6. Fair(c, d, done, n) OBVIOUS
<1>7. e.violations <= Cardinality(Sentences(c, done \cup {t})) BY <1>3, <1>4, <1>5, <1>6 DEF Fair
<1>8. e.locked => \E u \in Sentences(c, done \cup {t}) : Policy[n[u].nth] = "lock"
  BY <1>2, <1>5, <1>6 DEF Fair
<1> HIDE DEF c, e
<1>9. Fair(c, e, done \cup {t}, n) BY <1>2, <1>5, <1>6, <1>7, <1>8 DEF Fair
<1> QED BY <1>9 DEF c, e

(* What revocations and the job write needs no room.                       *)
LEMMA FairWrites ==
    ASSUME NEW c \in Collaborators, NEW d \in Document, NEW e \in Document, NEW done, NEW n,
           done \subseteq Tickets, Fair(c, d, done, n), Fair(c, e, done, n)
    PROVE  /\ Fair(c, [d EXCEPT !.wallet = @ + 1], done, n)
           /\ Fair(c, Counted(d, e), done, n)
           /\ Fair(c, [d EXCEPT !.points = 0, !.violations = 0], done, n)
<1>1. /\ Points[c] \in Nat /\ Cardinality(Rewards(c, done)) \in Nat
      /\ Cardinality(Sentences(c, done)) \in Nat
  BY FairCounts, TicketsAssumption
<1>2. Fair(c, [d EXCEPT !.wallet = @ + 1], done, n) BY DEF Fair, Document
<1>3. Fair(c, Counted(d, e), done, n) BY DEF Fair, Document, Counted
<1>4. Fair(c, [d EXCEPT !.points = 0, !.violations = 0], done, n) BY <1>1 DEF Fair, Document
<1> QED BY <1>2, <1>3, <1>4

(* Executed tickets stay executed, as the violation they were.             *)
LEMMA AppliedGrows ==
    ASSUME IInv, [Next]_vars
    PROVE  /\ applied \subseteq applied' /\ applied' \subseteq Tickets
           /\ \A t \in applied : ticket'[t].nth = ticket[t].nth
<1>1. Typed /\ \A t \in applied : t \in Tickets /\ ticket[t].status # "none" /\ ticket[t] \in TicketState
  BY TypeUnfold DEF IInv, Typed, Effect
<1>2. applied' \subseteq Tickets BY NextIInv DEF IInv, Typed
<1>3. ASSUME NEW t \in Tickets, Begin(t) \/ Apply(t)
      PROVE  applied \subseteq applied' /\ ticket' = ticket
  BY <1>3 DEF Begin, Apply, Reward, Punish, Fine, Save, docs, ghosts
<1>4. ASSUME NEW t \in Tickets, Count(t)
      PROVE  applied' = applied /\ \A u \in applied : ticket'[u] = ticket[u]
  <2>1. ticket[t].status = "none" BY <1>4 DEF IInv, Effect, Count
  <2> QED BY <1>1, <1>4, <2>1 DEF Count, ghosts, Typed, TypeOK
<1>5. ASSUME NEW t \in Tickets, Create(t) \/ Wait(t) \/ Do(t) \/ Done(t)
      PROVE  applied' = applied /\ \A u \in applied : ticket'[u].nth = ticket[u].nth
  <2>1. CASE Create(t) BY <1>1, <2>1 DEF Create, Typed, TypeOK
  <2>2. CASE Wait(t) \/ Do(t) \/ Done(t)
    <3>1. PICK at \in {"waiting", "doing", "over"}, status \in {"waiting", "doing", "done"} :
             Saved(t, at, status)
      BY <2>2 DEF Wait, Do, Done
    <3>2. /\ ticket'[t].nth = ticket[t].nth
          /\ \A u \in Tickets \ {t} : ticket'[u] = ticket[u]
      BY <1>1, <3>1, SavedType DEF Steps, Statuses
    <3> QED BY <1>1, <2>2, <3>2 DEF Wait, Do, Done, ghosts
  <2> QED BY <1>5, <2>1, <2>2
<1>6. ASSUME NEW r \in Revokers, Revoke(r)
      PROVE  applied' = applied /\ \A u \in applied : ticket'[u].nth = ticket[u].nth
  <2>1. CASE RevokeSaves(r)
    BY <1>1, <2>1 DEF RevokeSaves, Typed, TypeOK
  <2>2. CASE ~RevokeSaves(r)
    BY <1>6, <2>2 DEF Revoke, RevokeReads, PayReads, PayWrites, docs, ghosts
  <2> QED BY <2>1, <2>2
<1>7. CASE Midnight \/ NextCycle \/ Restart \/ UNCHANGED vars
  BY <1>2, <1>7 DEF Midnight, Summarize, CountTop, ResetReads, ResetWrites, Morning, NextCycle, Restart,
                    vars, docs, ghosts
<1> QED BY <1>2, <1>3, <1>4, <1>5, <1>6, <1>7 DEF Next, Handle

(* Every copy is of a document as it is, or is the copy it was.            *)
LEMMA Copies ==
    ASSUME IInv, [Next]_vars
    PROVE  /\ \A t \in Tickets : run'[t].seen \in {run[t].seen, New, collaborator[Owner[t]]}
           /\ \A r \in Revokers : revocation'[r].at = "paying" =>
                 \/ revocation'[r] = revocation[r]
                 \/ revocation'[r].seen = collaborator[Owner[revocation'[r].ticket]]
           /\ \A c \in Collaborators : midnight'.seen[c] \in {midnight.seen[c], New, collaborator[c]}
<1>1. Typed /\ midnight \in MidnightState BY TypeUnfold DEF IInv
<1>2. ASSUME NEW t \in Tickets, Handle(t)
      PROVE  /\ \A u \in Tickets : run'[u].seen \in {run[u].seen, New, collaborator[Owner[u]]}
             /\ revocation' = revocation /\ midnight' = midnight
  <2>1. revocation' = revocation /\ midnight' = midnight
    BY <1>2 DEF Handle, Begin, Count, Create, Wait, Do, Apply, Done
  <2>2. CASE Begin(t) BY <1>1, <2>1, <2>2 DEF Begin, Typed, TypeOK
  <2>3. CASE Apply(t) BY <1>1, <2>1, <2>3 DEF Apply, Typed, TypeOK
  <2>4. CASE Count(t) \/ Create(t) \/ Wait(t) \/ Do(t) \/ Done(t)
    <3>1. PICK at \in {"counted", "standby", "waiting", "doing", "over"} :
             run' = [run EXCEPT ![t].at = at]
      BY <2>4 DEF Count, Create, Wait, Do, Done, Saved
    <3>2. \A u \in Tickets : run'[u].seen = run[u].seen BY <1>1, <3>1 DEF Typed, TypeOK
    <3> QED BY <2>1, <3>2
  <2> QED BY <1>2, <2>2, <2>3, <2>4 DEF Handle
<1>3. ASSUME NEW r \in Revokers, Revoke(r)
      PROVE  /\ \A q \in Revokers : revocation'[q].at = "paying" =>
                   \/ revocation'[q] = revocation[q]
                   \/ revocation'[q].seen = collaborator[Owner[revocation'[q].ticket]]
             /\ run' = run /\ midnight' = midnight
  <2>1. run' = run /\ midnight' = midnight
    BY <1>3 DEF Revoke, RevokeReads, RevokeSaves, PayReads, PayWrites
  <2>2. CASE PayReads(r) BY <1>1, <2>1, <2>2 DEF PayReads, Typed, TypeOK
  <2>3. CASE RevokeSaves(r) BY <1>1, <2>1, <2>3 DEF RevokeSaves, Typed, TypeOK
  <2>4. CASE PayWrites(r) BY <1>1, <2>1, <2>4, IdleType DEF PayWrites, Typed, TypeOK
  <2>5. CASE \E t \in Tickets : RevokeReads(r, t) BY <1>1, <2>1, <2>5 DEF RevokeReads, Typed, TypeOK
  <2> QED BY <1>3, <2>2, <2>3, <2>4, <2>5 DEF Revoke
<1>4. CASE Midnight
  <2>1. run' = run /\ revocation' = revocation
    BY <1>4 DEF Midnight, Summarize, CountTop, ResetReads, ResetWrites, Morning
  <2>2. CASE Summarize BY <2>1, <2>2 DEF Summarize
  <2>3. CASE ResetReads \/ Morning BY <1>1, <2>1, <2>3 DEF ResetReads, Morning, MidnightState
  <2>4. ASSUME NEW c \in Collaborators, CountTop(c) \/ ResetWrites(c)
        PROVE  \A d \in Collaborators : midnight'.seen[d] \in {midnight.seen[d], New}
    BY <1>1, <2>4 DEF CountTop, ResetWrites, MidnightState
  <2> QED BY <1>4, <2>1, <2>2, <2>3, <2>4 DEF Midnight
<1>5. CASE Restart
  <2>1. \A t \in Tickets : run'[t].seen \in {run[t].seen, New} BY <1>5 DEF Restart
  <2>2. \A r \in Revokers : revocation'[r].at = "idle" BY <1>5, IdleType DEF Restart
  <2>3. \A c \in Collaborators : midnight'.seen[c] = New BY <1>5 DEF Restart
  <2> QED BY <2>1, <2>2, <2>3
<1>6. CASE NextCycle \/ UNCHANGED vars
  BY <1>6 DEF NextCycle, vars
<1> QED BY <1>2, <1>3, <1>4, <1>5, <1>6 DEF Next

LEMMA FairStep ==
    ASSUME IInv, FairEverywhere, [Next]_vars
    PROVE  FairEverywhere'
<1>1. /\ Typed /\ midnight \in MidnightState
      /\ \A t \in Tickets : run[t].seen \in Document /\ Owner[t] \in Collaborators
      /\ \A c \in Collaborators : collaborator[c] \in Document /\ midnight.seen[c] \in Document
      /\ \A r \in Revokers : revocation[r].seen \in Document /\ revocation[r].ticket \in Tickets
  BY TypeUnfold DEF IInv, RunState, RevocationState, MidnightState
<1>2. \A r \in Revokers : (revocation[r].ticket \in Tickets)'
  BY NextIInv, TypeUnfold DEF IInv, Typed, TypeOK
<1>3. /\ applied \subseteq applied' /\ applied' \subseteq Tickets
      /\ \A t \in applied : ticket'[t].nth = ticket[t].nth
  BY AppliedGrows
<1> DEFINE Now(c, d) == Fair(c, d, applied, ticket)
           Then(c, d) == Fair(c, d, applied', ticket')
<1>4. \A c \in Collaborators : \A d \in Document : Now(c, d) => Then(c, d) BY <1>3, FairKept
<1>5. \A c \in Collaborators : Then(c, New) BY <1>3, FairNew
<1>6. /\ \A c \in Collaborators : Now(c, collaborator[c])
      /\ \A t \in Tickets : Now(Owner[t], run[t].seen)
      /\ \A r \in Revokers : revocation[r].at = "paying" =>
            Now(Owner[revocation[r].ticket], revocation[r].seen)
      /\ \A c \in Collaborators : Now(c, midnight.seen[c])
  BY DEF FairEverywhere
<1>7. \A c \in Collaborators : Then(c, collaborator[c]) BY <1>1, <1>4, <1>6
<1>8. \A t \in Tickets : Then(Owner[t], run'[t].seen)
  <2>1. \A t \in Tickets : Then(Owner[t], run[t].seen) BY <1>1, <1>4, <1>6
  <2> QED BY <1>1, <1>5, <1>7, <2>1, Copies
<1>9. \A r \in Revokers : revocation'[r].at = "paying" =>
         Then(Owner[revocation'[r].ticket], revocation'[r].seen)
  <2>1. \A r \in Revokers : revocation[r].at = "paying" =>
           Then(Owner[revocation[r].ticket], revocation[r].seen)
    BY <1>1, <1>4, <1>6
  <2> QED BY <1>1, <1>2, <1>7, <2>1, Copies
<1>10. \A c \in Collaborators : Then(c, midnight'.seen[c])
  <2>1. \A c \in Collaborators : Then(c, midnight.seen[c]) BY <1>1, <1>4, <1>6
  <2> QED BY <1>5, <1>7, <2>1, Copies
<1>11. \A c \in Collaborators : Then(c, collaborator'[c])
  <2>1. CASE collaborator' = collaborator BY <1>7, <2>1
  <2>2. ASSUME NEW d \in Collaborators, NEW doc, Then(d, doc),
               collaborator' = [collaborator EXCEPT ![d] = doc]
        PROVE  \A c \in Collaborators : Then(c, collaborator'[c])
    <3>1. \A c \in Collaborators : collaborator'[c] = IF c = d THEN doc ELSE collaborator[c]
      BY <1>1, <2>2, TypeUnfold
    <3> HIDE DEF Then
    <3> QED BY <1>7, <2>2, <3>1
  <2>3. ASSUME NEW t \in Tickets, Apply(t), collaborator' # collaborator
        PROVE  \E doc : /\ Then(Owner[t], doc)
                        /\ collaborator' = [collaborator EXCEPT ![Owner[t]] = doc]
    <3>1. t \notin applied /\ ticket' = ticket /\ applied \subseteq Tickets
      BY <1>3, <2>3 DEF IInv, Effect, Apply
    <3>2. Now(Owner[t], run[t].seen) /\ run[t].seen \in Document BY <1>1, <1>6
    <3>3. CASE Reward(t)
      <4> DEFINE doc == [run[t].seen EXCEPT !.points = @ + 1]
      <4>1. Fair(Owner[t], doc, applied \cup {t}, ticket)
        BY <3>1, <3>2, <3>3, FairReward DEF Reward
      <4>2. applied' = applied \cup {t} /\ collaborator' = [collaborator EXCEPT ![Owner[t]] = doc]
        BY <3>3 DEF Reward, Save
      <4> HIDE DEF doc
      <4> QED BY <3>1, <4>1, <4>2
    <3>4. CASE Punish(t)
      <4> DEFINE b == Rule(t) = "lock"
                 doc == [run[t].seen EXCEPT !.violations = @ + 1, !.locked = @ \/ b]
      <4>1. b \in BOOLEAN /\ (b => Policy[ticket[t].nth] = "lock") /\ t \in Tickets \ Merits
        BY <3>4 DEF Rule, Punish
      <4>2. applied' = applied \cup {t} /\ collaborator' = [collaborator EXCEPT ![Owner[t]] = doc]
        BY <3>4 DEF Punish, Save
      <4> HIDE DEF b
      <4>3. Fair(Owner[t], doc, applied \cup {t}, ticket)
        BY <3>1, <3>2, <4>1, FairPunishment
      <4> HIDE DEF doc
      <4> QED BY <3>1, <4>2, <4>3
    <3> QED BY <2>3, <3>3, <3>4 DEF Apply, Fine
  <2>4. ASSUME NEW r \in Revokers, PayWrites(r)
        PROVE  \E d \in Collaborators : \E doc :
                  Then(d, doc) /\ collaborator' = [collaborator EXCEPT ![d] = doc]
    <3> DEFINE c == Owner[revocation[r].ticket]
               doc == [revocation[r].seen EXCEPT !.wallet = @ + 1]
    <3>1. /\ c \in Collaborators /\ revocation[r].seen \in Document
          /\ Now(c, revocation[r].seen)
      BY <1>1, <1>6, <2>4 DEF PayWrites
    <3>2. doc \in Document BY <3>1, DocumentUpdate
    <3>3. Now(c, doc) BY <1>3, <3>1, FairWrites
    <3>4. collaborator' = [collaborator EXCEPT ![c] = doc] BY <2>4 DEF PayWrites
    <3> HIDE DEF c, doc
    <3> QED BY <1>4, <3>1, <3>2, <3>3, <3>4
  <2>5. ASSUME NEW d \in Collaborators, CountTop(d) \/ ResetWrites(d)
        PROVE  \E doc : Then(d, doc) /\ collaborator' = [collaborator EXCEPT ![d] = doc]
    <3>1. /\ collaborator[d] \in Document /\ midnight.seen[d] \in Document
          /\ Now(d, collaborator[d]) /\ Now(d, midnight.seen[d])
      BY <1>1, <1>6
    <3> DEFINE top == Counted(collaborator[d], midnight.seen[d])
               clear == [collaborator[d] EXCEPT !.points = 0, !.violations = 0]
    <3>2. top \in Document /\ clear \in Document BY <3>1, DocumentUpdate
    <3>3. Now(d, top) /\ Now(d, clear) BY <1>3, <3>1, FairWrites
    <3>4. \/ collaborator' = [collaborator EXCEPT ![d] = top]
          \/ collaborator' = [collaborator EXCEPT ![d] = clear]
      BY <2>5 DEF CountTop, ResetWrites
    <3> HIDE DEF top, clear
    <3> QED BY <1>4, <3>2, <3>3, <3>4
  <2>6. \/ collaborator' = collaborator
        \/ \E t \in Tickets : Apply(t)
        \/ \E r \in Revokers : PayWrites(r)
        \/ \E d \in Collaborators : CountTop(d) \/ ResetWrites(d)
    BY DEF Next, vars, docs, Handle, Begin, Count, Create, Wait, Do, Done, Revoke, RevokeReads,
           RevokeSaves, PayReads, Midnight, Summarize, ResetReads, Morning, NextCycle, Restart
  <2> HIDE DEF Then
  <2> QED BY <1>1, <2>1, <2>2, <2>3, <2>4, <2>5, <2>6
<1> QED BY <1>8, <1>9, <1>10, <1>11 DEF FairEverywhere

LEMMA FairEnough == IInv /\ FairEverywhere => NothingUnearned
<1> SUFFICES ASSUME IInv, FairEverywhere, NEW c \in Collaborators
             PROVE  /\ collaborator[c].points <= Points[c] + Cardinality(Executed(c) \cap Merits)
                    /\ collaborator[c].violations
                          <= Cardinality({t \in Executed(c) \ Merits : Rule(t) # "fine"})
                    /\ collaborator[c].locked => \E t \in Executed(c) \ Merits : Rule(t) = "lock"
  BY DEF NothingUnearned
<1> DEFINE E == Executed(c) \cap Merits
           S == {t \in Executed(c) \ Merits : Rule(t) # "fine"}
<1>1. Fair(c, collaborator[c], applied, ticket) /\ applied \subseteq Tickets
      /\ collaborator[c] \in Document
  BY TypeUnfold DEF FairEverywhere, IInv, Typed
<1>2. \A t \in applied : /\ t \in Tickets /\ ticket[t].status \in {"doing", "done"}
                         /\ ~HasFine(t)
  BY <1>1 DEF IInv, Effect
<1>3. Rewards(c, applied) \subseteq E /\ Sentences(c, applied) \subseteq S
  BY <1>2 DEF Rewards, Sentences, Executed, HasFine
<1>4. IsFiniteSet(E) /\ IsFiniteSet(S)
  <2>1. E \subseteq Tickets /\ S \subseteq Tickets BY DEF Executed
  <2> QED BY <2>1, TicketsAssumption, FS_Subset
<1>5. /\ Cardinality(Rewards(c, applied)) <= Cardinality(E)
      /\ Cardinality(Sentences(c, applied)) <= Cardinality(S)
  BY <1>3, <1>4, FS_Subset
<1>6. /\ Cardinality(E) \in Nat /\ Cardinality(S) \in Nat /\ Points[c] \in Nat
      /\ Cardinality(Rewards(c, applied)) \in Nat /\ Cardinality(Sentences(c, applied)) \in Nat
      /\ collaborator[c].points \in Nat /\ collaborator[c].violations \in Nat
  BY <1>1, <1>4, FairCounts, FS_CardinalityType, TicketsAssumption DEF Document
<1>7. collaborator[c].locked => \E t \in Executed(c) \ Merits : Rule(t) = "lock"
  BY <1>1, <1>3 DEF Fair, Rule
<1> HIDE DEF E, S
<1>8. collaborator[c].points <= Points[c] + Cardinality(E) /\ collaborator[c].violations <= Cardinality(S)
  BY <1>1, <1>5, <1>6 DEF Fair
<1> QED BY <1>7, <1>8 DEF E, S

(* Whatever any number of handlers, revocations and nights write over one  *)
(* another, and wherever the server restarts: no collaborator has points,  *)
(* violations or a lock that no executed ticket of his brought.            *)
THEOREM TicketsBringNoMore == Spec => []NothingUnearned
<1>1. Init => FairEverywhere
  <2> SUFFICES ASSUME Init PROVE FairEverywhere OBVIOUS
  <2>1. \A c \in Collaborators : Fair(c, New, applied, ticket) BY FairNew DEF Init
  <2>2. \A c \in Collaborators : Fair(c, collaborator[c], applied, ticket)
    <3> SUFFICES ASSUME NEW c \in Collaborators PROVE Fair(c, collaborator[c], applied, ticket) OBVIOUS
    <3>1. /\ collaborator[c].points = Points[c] /\ collaborator[c].violations = 0
          /\ ~collaborator[c].locked /\ applied \subseteq Tickets
      BY DEF Init, New
    <3>2. /\ Points[c] \in Nat /\ Cardinality(Rewards(c, applied)) \in Nat
          /\ Cardinality(Sentences(c, applied)) \in Nat
      BY <3>1, FairCounts, TicketsAssumption
    <3> QED BY <3>1, <3>2 DEF Fair
  <2>3. /\ \A t \in Tickets : run[t].seen = New /\ Owner[t] \in Collaborators
        /\ \A r \in Revokers : revocation[r].at = "idle"
        /\ \A c \in Collaborators : midnight.seen[c] = New
    BY IdleType, TicketsAssumption DEF Init
  <2> QED BY <2>1, <2>2, <2>3 DEF FairEverywhere
<1>2. IInv /\ FairEverywhere /\ [Next]_vars => FairEverywhere' BY FairStep
<1> QED BY <1>1, <1>2, FairEnough, IInvHolds, PTL DEF Spec
-----------------------------------------------------------------------------
(* The number of a violation: among the tickets of its cycle a violation   *)
(* has at most as many as there are, one that is counted at most one more; *)
(* and of the tickets that were created before it was counted none has as  *)
(* many.                                                                   *)
Violations == Tickets \ Merits
Created(t) == ticket[t].status # "none"
Number(c) == Cardinality(Punished(c))
Steady(t) == t \notin straddled

Numbered(t) ==
    Steady(t) =>
        /\ Created(t) => ticket[t].nth <= Cardinality(Companions(t))
        /\ run[t].at = "counted" => ticket[t].nth <= Number(Owner[t]) + 1

Later(t, u) ==
    ticket[u].nth < ticket[t].nth \/ ticket[t].nth = Len(Policy) \/ {t, u} \in together

Ordered(t, u) ==
    t # u /\ Owner[t] = Owner[u] /\ Created(u) /\ Steady(t) /\ Steady(u) =>
        /\ run[t].at = "counted" /\ ticket[u].cycle = cycle => Later(t, u)
        /\ Created(t) /\ ticket[t].cycle = ticket[u].cycle /\ ticket[t].nth = ticket[u].nth =>
              ticket[t].nth = Len(Policy) \/ {t, u} \in together

NthInv == /\ \A t \in Violations : Numbered(t)
          /\ \A t, u \in Violations : Ordered(t, u)

LEMMA NumberType ==
    ASSUME NEW c
    PROVE  Number(c) \in Nat /\ IsFiniteSet(Punished(c)) /\ Number(c)' \in Nat
<1>1. IsFiniteSet(Punished(c)) BY TicketsAssumption, FS_Subset DEF Punished
<1>2. IsFiniteSet(Punished(c)') BY TicketsAssumption, FS_Subset DEF Punished
<1> QED BY <1>1, <1>2, FS_CardinalityType DEF Number

LEMMA NumbersAreNumbers ==
    ASSUME Typed
    PROVE  /\ Len(Policy) \in Nat /\ cycle \in Nat
           /\ \A t \in Tickets : ticket[t].nth \in Nat /\ ticket[t].cycle \in 0..cycle
<1>1. Len(Policy) \in Nat BY TicketsAssumption DEF Rules
<1>2. 0..Len(Policy) \subseteq Nat BY <1>1
<1>3. \A t \in Tickets : ticket[t] \in TicketState BY TypeUnfold
<1>4. \A t \in Tickets : ticket[t].nth \in Nat /\ ticket[t].cycle \in 0..cycle
  BY <1>2, <1>3 DEF TicketState
<1>5. cycle \in Nat BY DEF Typed, TypeOK
<1> QED BY <1>1, <1>4, <1>5

(* A step that counts no violation and creates no ticket.                  *)
LEMMA NthKept ==
    ASSUME NthInv, together' = together, cycle' = cycle, straddled' = straddled,
           \A t \in Tickets : /\ ticket'[t].nth = ticket[t].nth
                              /\ ticket'[t].cycle = ticket[t].cycle
                              /\ Created(t)' <=> Created(t)
                              /\ run'[t].at = "counted" => run[t].at = "counted"
    PROVE  NthInv'
<1>1. \A c : Punished(c)' = Punished(c) BY DEF Punished, Created
<1>2. \A c : Number(c)' = Number(c) BY <1>1 DEF Number
<1>3. ASSUME NEW t \in Violations PROVE Numbered(t)'
  <2>1. Numbered(t) /\ t \in Tickets BY DEF NthInv, Violations
  <2>2. Companions(t)' = Companions(t) BY <2>1 DEF Companions, Created
  <2> QED BY <1>2, <2>1, <2>2 DEF Numbered, Steady
<1>4. ASSUME NEW t \in Violations, NEW u \in Violations PROVE Ordered(t, u)'
  <2>1. Ordered(t, u) /\ t \in Tickets /\ u \in Tickets BY DEF NthInv, Violations
  <2> QED BY <2>1 DEF Ordered, Later, Steady
<1> QED BY <1>3, <1>4 DEF NthInv

LEMMA NthCount ==
    ASSUME IInv, NthInv, NEW t \in Tickets, Count(t)
    PROVE  NthInv'
<1>1. Typed /\ Effect(t) /\ t \in Violations BY DEF IInv, Count, Violations
<1>2. /\ ticket'[t].nth = Nth(Owner[t]) /\ ticket'[t].status = ticket[t].status
      /\ ticket'[t].cycle = ticket[t].cycle
      /\ \A u \in Tickets \ {t} : ticket'[u] = ticket[u] /\ run'[u] = run[u]
      /\ together' = together /\ straddled' = straddled /\ cycle' = cycle
  BY <1>1, TypeUnfold DEF Count, TicketState, ghosts, bounds
<1>3. ~Created(t) /\ ~Created(t)' BY <1>1, <1>2 DEF Count, Effect, Created
<1>4. \A u \in Tickets : Created(u)' <=> Created(u) BY <1>2, <1>3 DEF Created
<1>5. \A u \in Tickets : ticket'[u].cycle = ticket[u].cycle BY <1>2
<1>6. \A c : Punished(c)' = Punished(c) BY <1>2, <1>4, <1>5 DEF Punished, Created
<1>7. \A c : Number(c)' = Number(c) BY <1>6 DEF Number
<1>8. \A u \in Tickets : Companions(u)' = Companions(u) BY <1>4, <1>5 DEF Companions, Created
<1>9. /\ Number(Owner[t]) \in Nat /\ Len(Policy) \in Nat /\ Nth(Owner[t]) \in Nat
      /\ Nth(Owner[t]) = IF Number(Owner[t]) < Len(Policy) THEN Number(Owner[t]) + 1 ELSE Len(Policy)
  BY NumberType, NthType, TicketsAssumption DEF Nth, Number, Rules
<1>10. ASSUME NEW v \in Violations PROVE Numbered(v)'
  <2>1. CASE v = t BY <1>2, <1>3, <1>7, <1>9, <2>1 DEF Numbered
  <2>2. CASE v # t
    <3>1. Numbered(v) /\ v \in Tickets BY DEF NthInv, Violations
    <3> QED BY <1>2, <1>4, <1>7, <1>8, <2>2, <3>1 DEF Numbered, Steady
  <2> QED BY <2>1, <2>2
<1>11. ASSUME NEW v \in Violations, NEW u \in Violations PROVE Ordered(v, u)'
  <2>1. Ordered(v, u) /\ Numbered(u) /\ v \in Tickets /\ u \in Tickets BY DEF NthInv, Violations
  <2>2. CASE u = t BY <1>3, <2>2 DEF Ordered
  <2>3. CASE v = t /\ u # t
    <3> SUFFICES ASSUME Owner[t] = Owner[u], Created(u), Steady(u), ticket[u].cycle = cycle
                 PROVE  ticket'[u].nth < ticket'[t].nth \/ ticket'[t].nth = Len(Policy)
      BY <1>2, <1>3, <1>4, <2>1, <2>3 DEF Ordered, Later, Steady
    <3>1. Companions(u) = Punished(Owner[t]) BY DEF Companions, Punished
    <3>2. ticket[u].nth <= Number(Owner[t]) /\ ticket'[u] = ticket[u]
      BY <1>2, <2>1, <2>3, <3>1 DEF Numbered, Number
    <3>3. ticket[u].nth \in Nat BY <1>1, <2>1, NumbersAreNumbers
    <3> QED BY <1>2, <1>9, <3>2, <3>3
  <2>4. CASE v # t /\ u # t BY <1>2, <1>4, <2>1, <2>4 DEF Ordered, Later, Steady
  <2> QED BY <2>2, <2>3, <2>4
<1> QED BY <1>10, <1>11 DEF NthInv

LEMMA NthCreate ==
    ASSUME IInv, NthInv, NEW t \in Tickets, Create(t)
    PROVE  NthInv'
<1>1. Typed /\ Effect(t) BY DEF IInv
<1>2. /\ ticket'[t].nth = ticket[t].nth /\ ticket'[t].cycle = cycle /\ Created(t)'
      /\ run'[t].at = "standby"
      /\ \A u \in Tickets \ {t} : ticket'[u] = ticket[u] /\ run'[u] = run[u]
      /\ together \subseteq together' /\ straddled' = straddled /\ cycle' = cycle
  BY <1>1, TypeUnfold DEF Create, Created, TicketState, RunState, bounds
<1>3. ~Created(t) /\ (t \in Violations => run[t].at = "counted")
  BY <1>1 DEF Create, Effect, Created, Violations
<1>4. \A u \in Tickets \ {t} : Created(u)' <=> Created(u) BY <1>2 DEF Created
<1>5. ASSUME NEW c
      PROVE  /\ Number(c) \in Nat /\ Number(c)' \in Nat /\ Number(c) <= Number(c)'
             /\ t \in Violations /\ c = Owner[t] => Number(c)' = Number(c) + 1
  <2>1. Number(c) \in Nat /\ Number(c)' \in Nat /\ IsFiniteSet(Punished(c)) BY NumberType
  <2>2. Punished(c) \subseteq Punished(c)' BY <1>2, <1>3, <1>4 DEF Punished, Created
  <2>3. IsFiniteSet(Punished(c)') BY TicketsAssumption, FS_Subset DEF Punished
  <2>4. Number(c) <= Number(c)' BY <2>2, <2>3, FS_Subset DEF Number
  <2>5. ASSUME t \in Violations, c = Owner[t] PROVE Number(c)' = Number(c) + 1
    <3>1. Punished(c)' = Punished(c) \cup {t} /\ t \notin Punished(c)
      BY <1>2, <1>3, <1>4, <2>5 DEF Punished, Created, Violations
    <3> QED BY <2>1, <3>1, FS_AddElement DEF Number
  <2> QED BY <2>1, <2>4, <2>5
<1>6. ASSUME NEW v \in Tickets \ {t}, Created(v)
      PROVE  /\ Cardinality(Companions(v)) \in Nat /\ Cardinality(Companions(v)') \in Nat
             /\ Cardinality(Companions(v)) <= Cardinality(Companions(v)')
  <2>1. Companions(v) \subseteq Companions(v)' BY <1>2, <1>3, <1>4, <1>6 DEF Companions, Created
  <2>2. IsFiniteSet(Companions(v)) BY TicketsAssumption, FS_Subset DEF Companions
  <2>3. IsFiniteSet(Companions(v)') BY TicketsAssumption, FS_Subset DEF Companions
  <2> QED BY <2>1, <2>2, <2>3, FS_Subset, FS_CardinalityType
<1>7. \A u \in Tickets : ticket[u].nth \in Nat /\ ticket'[u].nth = ticket[u].nth
  BY <1>1, <1>2, NumbersAreNumbers
<1>8. ASSUME NEW v \in Violations PROVE Numbered(v)'
  <2>1. Numbered(v) /\ v \in Tickets BY DEF NthInv, Violations
  <2>2. /\ Number(Owner[v]) \in Nat /\ Number(Owner[v])' \in Nat
        /\ Number(Owner[v]) <= Number(Owner[v])'
        /\ v = t => Number(Owner[v])' = Number(Owner[v]) + 1
    BY <1>5
  <2>3. CASE v = t
    <3>1. Companions(t)' = Punished(Owner[t])' BY <1>2 DEF Companions, Punished
    <3>2. Cardinality(Companions(t)') = Number(Owner[t]) + 1 BY <2>2, <2>3, <3>1 DEF Number
    <3>3. Steady(t) => ticket[t].nth <= Number(Owner[t]) + 1 BY <1>3, <2>1, <2>3 DEF Numbered
    <3> QED BY <1>2, <1>7, <2>3, <3>2, <3>3 DEF Numbered, Steady
  <2>4. CASE v # t
    <3>1. ASSUME Steady(v), Created(v) PROVE ticket'[v].nth <= Cardinality(Companions(v)')
      <4>1. ticket[v].nth <= Cardinality(Companions(v)) BY <2>1, <3>1 DEF Numbered
      <4> QED BY <1>6, <1>7, <2>1, <2>4, <3>1, <4>1
    <3>2. ASSUME Steady(v), run[v].at = "counted" PROVE ticket'[v].nth <= Number(Owner[v])' + 1
      <4>1. ticket[v].nth <= Number(Owner[v]) + 1 BY <2>1, <3>2 DEF Numbered
      <4> QED BY <1>7, <2>1, <2>2, <4>1
    <3> QED BY <1>2, <1>4, <2>1, <2>4, <3>1, <3>2 DEF Numbered, Steady
  <2> QED BY <2>3, <2>4
<1>9. ASSUME NEW v \in Violations, NEW u \in Violations PROVE Ordered(v, u)'
  <2>1. Ordered(v, u) /\ Ordered(u, v) /\ v \in Tickets /\ u \in Tickets BY DEF NthInv, Violations
  <2>2. CASE v # t /\ u # t BY <1>2, <1>4, <2>1, <2>2 DEF Ordered, Later, Steady
  <2>3. CASE v = t /\ u # t
    <3> SUFFICES ASSUME Owner[v] = Owner[u], Created(u)', Steady(v), Steady(u),
                        ticket'[v].cycle = ticket'[u].cycle, ticket'[v].nth = ticket'[u].nth
                 PROVE  ticket'[v].nth = Len(Policy) \/ {v, u} \in together'
      BY <1>2, <2>3 DEF Ordered, Steady
    <3>1. ticket[u].cycle = cycle BY <1>2, <2>1, <2>3
    <3>2. Later(v, u) BY <1>3, <1>4, <2>1, <2>3, <3>1 DEF Ordered
    <3> QED BY <1>2, <1>7, <2>1, <3>2 DEF Later
  <2>4. CASE v # t /\ u = t
    <3> SUFFICES ASSUME Owner[v] = Owner[u], Steady(v), Steady(u)
                 PROVE  /\ run'[v].at = "counted" => Later(v, u)'
                        /\ Created(v)' /\ ticket'[v].cycle = ticket'[u].cycle
                              /\ ticket'[v].nth = ticket'[u].nth =>
                              ticket'[v].nth = Len(Policy) \/ {v, u} \in together'
      BY <1>2 DEF Ordered, Steady
    <3>1. ASSUME run'[v].at = "counted" PROVE Later(v, u)'
      <4>1. {t, v} \in together' BY <1>2, <2>1, <2>4, <3>1 DEF Create
      <4>2. {v, u} = {t, v} BY <2>4
      <4> QED BY <4>1, <4>2 DEF Later
    <3>2. ASSUME Created(v)', ticket'[v].cycle = ticket'[u].cycle, ticket'[v].nth = ticket'[u].nth
          PROVE  ticket'[v].nth = Len(Policy) \/ {v, u} \in together'
      <4>1. ticket[v].cycle = cycle /\ Created(v) BY <1>2, <1>4, <2>1, <2>4, <3>2
      <4>2. Later(u, v) BY <1>3, <2>1, <2>4, <4>1 DEF Ordered
      <4>3. ticket[u].nth = Len(Policy) \/ {u, v} \in together BY <1>7, <2>1, <3>2, <4>2 DEF Later
      <4>4. {u, v} = {v, u} OBVIOUS
      <4>5. {u, v} \in together => {v, u} \in together' BY <1>2, <4>4
      <4> QED BY <1>7, <2>1, <3>2, <4>3, <4>5
    <3> QED BY <3>1, <3>2
  <2>5. CASE v = u BY <2>5 DEF Ordered
  <2> QED BY <2>2, <2>3, <2>4, <2>5
<1> QED BY <1>8, <1>9 DEF NthInv

(* With the cycle every count begins again; who was counted straddles.     *)
LEMMA NthCycle ==
    ASSUME IInv, NthInv, NextCycle
    PROVE  NthInv'
<1>1. /\ UNCHANGED <<ticket, run, together>> /\ cycle' = cycle + 1
      /\ straddled' = straddled \cup {t \in Tickets : run[t].at = "counted"}
  BY DEF NextCycle, docs
<1>2. \A t \in Tickets : ticket[t].cycle \in 0..cycle /\ cycle \in Nat
  BY NumbersAreNumbers DEF IInv
<1>3. \A t \in Tickets : Steady(t)' => Steady(t) /\ run[t].at # "counted" BY <1>1 DEF Steady
<1>4. ASSUME NEW t \in Violations PROVE Numbered(t)'
  <2>1. Numbered(t) /\ t \in Tickets BY DEF NthInv, Violations
  <2>2. Companions(t)' = Companions(t) BY <1>1 DEF Companions
  <2> QED BY <1>1, <1>3, <2>1, <2>2 DEF Numbered, Created
<1>5. ASSUME NEW t \in Violations, NEW u \in Violations PROVE Ordered(t, u)'
  <2>1. Ordered(t, u) /\ t \in Tickets /\ u \in Tickets BY DEF NthInv, Violations
  <2> QED BY <1>1, <1>3, <2>1 DEF Ordered, Created
<1> QED BY <1>4, <1>5 DEF NthInv

LEMMA NthStep ==
    ASSUME IInv, NthInv, [Next]_vars
    PROVE  NthInv'
<1>1. Typed BY DEF IInv
<1>2. ASSUME NEW t \in Tickets, Begin(t) \/ Apply(t) PROVE NthInv'
  <2>1. /\ ticket' = ticket /\ together' = together /\ cycle' = cycle /\ straddled' = straddled
        /\ run'[t].at # "counted" /\ \A u \in Tickets \ {t} : run'[u] = run[u]
    BY <1>1, <1>2, TypeUnfold DEF Begin, Apply, docs, ghosts, bounds
  <2> QED BY <2>1, NthKept DEF Created
<1>3. ASSUME NEW t \in Tickets, Wait(t) \/ Do(t) \/ Done(t) PROVE NthInv'
  <2>1. PICK at \in {"waiting", "doing", "over"}, status \in {"waiting", "doing", "done"} :
           Saved(t, at, status)
    BY <1>3 DEF Wait, Do, Done
  <2>2. /\ ticket'[t].status = status /\ run'[t].at = at /\ ticket'[t].nth = ticket[t].nth
        /\ ticket'[t].cycle = ticket[t].cycle
        /\ \A u \in Tickets \ {t} : run'[u] = run[u] /\ ticket'[u] = ticket[u]
    BY <1>1, <2>1, SavedType DEF Steps, Statuses
  <2>3. Created(t) BY <1>3 DEF IInv, Effect, Wait, Do, Done, Created
  <2>4. together' = together /\ cycle' = cycle /\ straddled' = straddled
    BY <1>3 DEF Wait, Do, Done, ghosts, bounds
  <2> QED BY <2>2, <2>3, <2>4, NthKept DEF Created
<1>4. ASSUME NEW r \in Revokers, RevokeSaves(r) PROVE NthInv'
  <2>1. PICK t \in Tickets : t = revocation[r].ticket BY <1>1, TypeUnfold DEF RevocationState
  <2>2. /\ ticket'[t].status = "revoke" /\ ticket'[t].nth = ticket[t].nth
        /\ ticket'[t].cycle = ticket[t].cycle
        /\ \A u \in Tickets \ {t} : ticket'[u] = ticket[u]
        /\ run' = run /\ together' = together /\ cycle' = cycle /\ straddled' = straddled
    BY <1>1, <1>4, <2>1, TypeUnfold DEF RevokeSaves, TicketState, bounds
  <2>3. Created(t) BY <1>4, <2>1 DEF IInv, Chosen, RevokeSaves, Created
  <2> QED BY <2>2, <2>3, NthKept DEF Created
<1>5. ASSUME NEW r \in Revokers, PayReads(r) \/ PayWrites(r) \/ \E t \in Tickets : RevokeReads(r, t)
      PROVE  NthInv'
  <2>1. /\ ticket' = ticket /\ run' = run /\ together' = together
        /\ cycle' = cycle /\ straddled' = straddled
    BY <1>5 DEF PayReads, PayWrites, RevokeReads, docs, ghosts, bounds
  <2> QED BY <2>1, NthKept DEF Created
<1>6. CASE Midnight \/ UNCHANGED vars
  <2>1. /\ ticket' = ticket /\ run' = run /\ together' = together
        /\ cycle' = cycle /\ straddled' = straddled
    BY <1>6 DEF Midnight, Summarize, ResetReads, Morning, CountTop, ResetWrites,
                vars, docs, ghosts, bounds
  <2> QED BY <2>1, NthKept DEF Created
<1>7. CASE Restart
  <2>1. /\ ticket' = ticket /\ together' = together /\ cycle' = cycle /\ straddled' = straddled
        /\ \A t \in Tickets : run'[t].at = "counted" => run[t].at = "counted"
    BY <1>7 DEF Restart, docs, ghosts
  <2> QED BY <2>1, NthKept DEF Created
<1> QED
  BY <1>2, <1>3, <1>4, <1>5, <1>6, <1>7, NthCount, NthCreate, NthCycle DEF Next, Handle, Revoke

(* However many violations of a collaborator are handled together, whoever *)
(* revokes them, whenever a cycle ends and wherever the server restarts: a *)
(* violation is punished as one its cycle has tickets for, and two of a    *)
(* cycle have the same number only if both were counted before either was  *)
(* created, or the policy has no further rule (PTS.getPunishRule).         *)
THEOREM NthAlwaysRises == Spec => []NthRises
<1>1. Init => NthInv BY DEF Init, NthInv, Numbered, Ordered, Created, Violations
<1>2. IInv /\ NthInv /\ [Next]_vars => NthInv' BY NthStep
<1>3. NthInv => NthRises
  BY DEF NthInv, NthRises, Numbered, Ordered, Created, Violations, Steady, Companions
<1> QED BY <1>1, <1>2, <1>3, IInvHolds, PTL DEF Spec
=============================================================================
