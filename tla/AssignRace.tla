----------------------------- MODULE AssignRace -----------------------------
(***************************************************************************)
(* Who gets a job that several collaborators ask for at once.  The same    *)
(* handlers as in JobLifecycle, for a group with one order, opened up at   *)
(* the awaits between which other requests run: JS.pendingToConfirm (each  *)
(* collaborator may tap the button several times), the customer's          *)
(* OS.cancelOrder and the cron job JS.removeDuplicateMinusPlatformFeeType  *)
(* that repairs double charges.                                            *)
(*                                                                         *)
(* A request keeps the documents it has read and writes whole documents    *)
(* back (BaseRepository.findByIdAndUpdate), over what others wrote in      *)
(* between.  The order is paid in cash with the deposit pricing, the one   *)
(* whose charges the cron job looks at.                                    *)
(***************************************************************************)
EXTENDS Integers, FiniteSets, Sequences, SequencesExt

CONSTANTS
    Collaborators,
    NoCollaborator,
    Taps,        \* requests of one collaborator for the job, at most
    Fee,         \* work_shift_deposit of the order
    Deposit,     \* work_wallet of every collaborator at the start
    Cancelling,  \* does the customer cancel?
    Repairing    \* does the cron job run?

ASSUME RaceAssumption == /\ NoCollaborator \notin Collaborators
                         /\ Taps \in Nat \ {0}
                         /\ Fee \in Nat \ {0}
                         /\ Deposit \in Nat
                         /\ Cancelling \in BOOLEAN
                         /\ Repairing \in BOOLEAN

VARIABLES
    order,    \* status and id_collaborator of the order
    group,    \* status, id_collaborator, is_check_duplicate of the group order
    wallet,   \* work_wallet of every collaborator
    history,  \* history_activity: the wallet movements in the order they were logged
    take,     \* per request pendingToConfirm: where it is, the wallet it has read
    cancel,   \* the request cancelOrder: where it is and what it has read
    repair    \* the cron job: where it is and the group order it has read

documents == <<order, group, wallet, history>>
vars == <<documents, take, cancel, repair>>

Requests == Collaborators \X (1..Taps)
Assignee == Collaborators \cup {NoCollaborator}
Status == {"pending", "confirm", "cancel"}
Order == [status : Status, id_collaborator : Assignee]
Group == [status : Status, id_collaborator : Assignee, is_check_duplicate : BOOLEAN]

By(r) == r[1]

(* A movement of c's wallet by value, which left it at work_wallet.        *)
Movement(c, value, work_wallet) ==
    [id_collaborator |-> c, value |-> value, current_work_wallet |-> work_wallet]

-----------------------------------------------------------------------------
Init ==
    /\ order = [status |-> "pending", id_collaborator |-> NoCollaborator]
    /\ group = [status |-> "pending", id_collaborator |-> NoCollaborator, is_check_duplicate |-> FALSE]
    /\ wallet = [c \in Collaborators |-> Deposit]
    /\ history = <<>>
    /\ take = [r \in Requests |-> [at |-> "new", wallet |-> 0]]
    /\ cancel = [at |-> IF Cancelling THEN "new" ELSE "over", order |-> order, group |-> group,
                 holder |-> NoCollaborator, wallet |-> 0]
    /\ repair = [at |-> "idle", group |-> group]

-----------------------------------------------------------------------------
(* JS.pendingToConfirm.                                                    *)

(* Lines 172-209: the order is read and found free.  Otherwise, or if a    *)
(* later check fails, the request is refused.                              *)
Load(r) ==
    /\ take[r].at = "new"
    /\ take' = [take EXCEPT ![r].at =
          IF order.id_collaborator = NoCollaborator /\ order.status = "pending"
          THEN "checked" ELSE "refused"]
    /\ UNCHANGED <<documents, cancel, repair>>

(* Mutant of ReadWallet: the balance is not checked.                       *)
ReadWalletUnchecked(r) ==
    /\ take[r].at = "checked"
    /\ take' = [take EXCEPT ![r] = [at |-> "paying", wallet |-> wallet[By(r)]]]
    /\ UNCHANGED <<documents, cancel, repair>>

(* CO.minusCollaborator reads the wallet and refuses who cannot pay,       *)
ReadWallet(r) ==
    /\ take[r].at = "checked"
    /\ take' = [take EXCEPT ![r] = [at |-> IF wallet[By(r)] < Fee THEN "refused" ELSE "paying",
                                    wallet |-> wallet[By(r)]]]
    /\ UNCHANGED <<documents, cancel, repair>>

(* Mutants of WriteWallet: the movement is not logged; the balance is      *)
(* logged for the fee.                                                     *)
WriteWalletUnlogged(r) ==
    /\ take[r].at = "paying"
    /\ wallet' = [wallet EXCEPT ![By(r)] = take[r].wallet - Fee]
    /\ take' = [take EXCEPT ![r].at = "paid"]
    /\ UNCHANGED <<order, group, history, cancel, repair>>
WriteWalletSwapped(r) ==
    LET rest == take[r].wallet - Fee
    IN  /\ take[r].at = "paying"
        /\ wallet' = [wallet EXCEPT ![By(r)] = rest]
        /\ history' = Append(history, Movement(By(r), rest, -Fee))
        /\ take' = [take EXCEPT ![r].at = "paid"]
        /\ UNCHANGED <<order, group, cancel, repair>>

(* and writes it back less the fee; the movement is logged.                *)
WriteWallet(r) ==
    LET rest == take[r].wallet - Fee
    IN  /\ take[r].at = "paying"
        /\ wallet' = [wallet EXCEPT ![By(r)] = rest]
        /\ history' = Append(history, Movement(By(r), -Fee, rest))
        /\ take' = [take EXCEPT ![r].at = "paid"]
        /\ UNCHANGED <<order, group, cancel, repair>>

(* OO.assignCollaboratorByGroupOrder looks for a pending order; without    *)
(* one it dereferences null and the request fails, its fee paid.           *)
FindPending(r) ==
    /\ take[r].at = "paid"
    /\ take' = [take EXCEPT ![r].at = IF order.status = "pending" THEN "found" ELSE "refused"]
    /\ UNCHANGED <<documents, cancel, repair>>

(* Mutant of AssignOrder: the update does not filter on the status again.  *)
AssignOrderUnfiltered(r) ==
    /\ take[r].at = "found"
    /\ order' = [status |-> "confirm", id_collaborator |-> By(r)]
    /\ take' = [take EXCEPT ![r].at = "assigned"]
    /\ UNCHANGED <<group, wallet, history, cancel, repair>>

(* Its updateMany assigns the order if it is pending still; if not, it     *)
(* updates nothing and the request goes on all the same.                   *)
AssignOrder(r) ==
    /\ take[r].at = "found"
    /\ order' = IF order.status = "pending"
                THEN [status |-> "confirm", id_collaborator |-> By(r)] ELSE order
    /\ take' = [take EXCEPT ![r].at = "assigned"]
    /\ UNCHANGED <<group, wallet, history, cancel, repair>>

(* Mutant of WriteGroup: the collaborator is not written.                  *)
WriteGroupStatus(r) ==
    /\ take[r].at = "assigned"
    /\ group' = [group EXCEPT !.status = "confirm", !.is_check_duplicate = TRUE]
    /\ take' = [take EXCEPT ![r].at = "confirmed"]
    /\ UNCHANGED <<order, wallet, history, cancel, repair>>

(* GO.assignCollaborator overwrites the group, whoever it names by now.    *)
WriteGroup(r) ==
    /\ take[r].at = "assigned"
    /\ group' = [status |-> "confirm", id_collaborator |-> By(r), is_check_duplicate |-> TRUE]
    /\ take' = [take EXCEPT ![r].at = "confirmed"]
    /\ UNCHANGED <<order, wallet, history, cancel, repair>>

Take(r) == \/ Load(r)        \/ ReadWallet(r)  \/ WriteWallet(r)
           \/ FindPending(r) \/ AssignOrder(r) \/ WriteGroup(r)

-----------------------------------------------------------------------------
(* OS.cancelOrder for the customer.                                        *)

(* Lines 170-172: order and group are read.                                *)
CancelReadOrder ==
    /\ cancel.at = "new"
    /\ cancel' = [cancel EXCEPT !.at = "order", !.order = order]
    /\ UNCHANGED <<documents, take, repair>>

CancelReadGroup ==
    /\ cancel.at = "order"
    /\ cancel' = [cancel EXCEPT !.at = "loaded", !.holder = group.id_collaborator]
    /\ UNCHANGED <<documents, take, repair>>

(* OO.cancel writes the order back as it was read, but cancelled.          *)
CancelWriteOrder ==
    /\ cancel.at = "loaded"
    /\ order' = [cancel.order EXCEPT !.status = "cancel"]
    /\ cancel' = [cancel EXCEPT !.at = "cancelled"]
    /\ UNCHANGED <<group, wallet, history, take, repair>>

(* No other shift is left: GO.cancel reads the group again                 *)
CancelReadGroupAgain ==
    /\ cancel.at = "cancelled"
    /\ cancel' = [cancel EXCEPT !.at = "group", !.group = group]
    /\ UNCHANGED <<documents, take, repair>>

(* and writes it back cancelled.                                           *)
CancelWriteGroup ==
    /\ cancel.at = "group"
    /\ group' = [cancel.group EXCEPT !.status = "cancel"]
    /\ cancel' = [cancel EXCEPT !.at = IF cancel.holder = NoCollaborator THEN "over" ELSE "refund"]
    /\ UNCHANGED <<order, wallet, history, take, repair>>

(* CO.addPointWallet gives the fee back to the collaborator the group had  *)
(* when it was first read.                                                 *)
CancelReadWallet ==
    /\ cancel.at = "refund"
    /\ cancel' = [cancel EXCEPT !.at = "repaying", !.wallet = wallet[cancel.holder]]
    /\ UNCHANGED <<documents, take, repair>>

CancelWriteWallet ==
    LET rest == cancel.wallet + Fee
    IN  /\ cancel.at = "repaying"
        /\ wallet' = [wallet EXCEPT ![cancel.holder] = rest]
        /\ history' = Append(history, Movement(cancel.holder, Fee, rest))
        /\ cancel' = [cancel EXCEPT !.at = "over"]
        /\ UNCHANGED <<order, group, take, repair>>

Cancel == \/ CancelReadOrder      \/ CancelReadGroup  \/ CancelWriteOrder
          \/ CancelReadGroupAgain \/ CancelWriteGroup
          \/ CancelReadWallet     \/ CancelWriteWallet

-----------------------------------------------------------------------------
(* JS.removeDuplicateMinusPlatformFeeType, every five minutes.             *)

(* The positions of the fees in the log, of whatever collaborator.         *)
FeesTaken == {i \in DOMAIN history : history[i].value < 0}

(* JS.balanceMoneyForCollaborator without the movement at j: the wallet    *)
(* before j and the later movements, added up again.                       *)
Replayed(j) ==
    LET c == history[j].id_collaborator
        earlier == {i \in 1..(j - 1) : history[i].id_collaborator = c}
        base == IF earlier = {} THEN history[j].current_work_wallet - history[j].value
                ELSE history[CHOOSE i \in earlier : \A k \in earlier : k <= i].current_work_wallet
        balance[i \in j..Len(history)] ==
            IF i = j THEN base
            ELSE balance[i - 1] + (IF history[i].id_collaborator = c THEN history[i].value ELSE 0)
    IN  balance

RepairList ==
    /\ Repairing
    /\ repair.at = "idle"
    /\ group.is_check_duplicate
    /\ repair' = [at |-> "listed", group |-> group]
    /\ UNCHANGED <<documents, take, cancel>>

(* Where order and group name the same collaborator and two fees were      *)
(* taken within a minute (which may or may not be so), the second one is   *)
(* deleted and its wallet and log recomputed.  An order without            *)
(* collaborator ends the job with a TypeError.                             *)
RepairMoney ==
    /\ repair.at = "listed"
    /\ IF order.id_collaborator = NoCollaborator
       THEN repair' = [repair EXCEPT !.at = "idle"] /\ UNCHANGED documents
       ELSE /\ repair' = [repair EXCEPT !.at = "checked"]
            /\ UNCHANGED <<order, group>>
            /\ \/ UNCHANGED <<wallet, history>>
               \/ /\ order.id_collaborator = repair.group.id_collaborator
                  /\ \E j \in FeesTaken :
                        LET c == history[j].id_collaborator
                            balance == Replayed(j)
                        IN  /\ {i \in FeesTaken : i < j} # {}
                            /\ \A k, l \in {i \in FeesTaken : i < j} : k = l
                            /\ wallet' = [wallet EXCEPT ![c] = balance[Len(history)]]
                            /\ history' = RemoveAt([i \in DOMAIN history |->
                                   IF i > j /\ history[i].id_collaborator = c
                                   THEN [history[i] EXCEPT !.current_work_wallet = balance[i]]
                                   ELSE history[i]], j)
    /\ UNCHANGED <<take, cancel>>

(* The group is written back as it was listed.                             *)
RepairWriteGroup ==
    /\ repair.at = "checked"
    /\ group' = [repair.group EXCEPT !.is_check_duplicate = FALSE]
    /\ repair' = [repair EXCEPT !.at = "idle"]
    /\ UNCHANGED <<order, wallet, history, take, cancel>>

Repair == RepairList \/ RepairMoney \/ RepairWriteGroup

-----------------------------------------------------------------------------
Next == (\E r \in Requests : Take(r)) \/ Cancel \/ Repair

Spec == Init /\ [][Next]_vars

(* node.js runs every request that has come to its end; that one comes is  *)
(* not asked for.                                                          *)
FairSpec == /\ Spec
            /\ \A r \in Requests : WF_vars(take[r].at # "new" /\ Take(r))
            /\ WF_vars(cancel.at # "new" /\ Cancel)

-----------------------------------------------------------------------------
(* Types: documents of the schema, snapshots of such documents.            *)
TypeOK ==
    /\ order \in Order
    /\ group \in Group
    /\ wallet \in [Collaborators -> Int]
    /\ history \in Seq([id_collaborator : Collaborators, value : {Fee, -Fee},
                        current_work_wallet : Int])
    /\ take \in [Requests -> [at : {"new", "checked", "paying", "paid", "found", "assigned",
                                    "confirmed", "refused"},
                              wallet : Int]]
    /\ cancel \in [at : {"new", "order", "loaded", "cancelled", "group", "refund", "repaying", "over"},
                   order : Order, group : Group, holder : Assignee, wallet : Int]
    /\ repair \in [at : {"idle", "listed", "checked"}, group : Group]

(* Of all requests that pass the check at JS line 192 the first one to     *)
(* update the order gets it, and no later one takes it away.               *)
FirstTakerStays ==
    [][order.status = "confirm" /\ order'.status = "confirm" =>
          order'.id_collaborator = order.id_collaborator]_vars

(* Whoever holds the job has been charged for it: the log has his fee.     *)
HolderCharged ==
    order.status = "confirm" =>
        \E i \in FeesTaken : history[i].id_collaborator = order.id_collaborator

(* However requests overwrite each other's wallets, nobody loses more than *)
(* the fees logged against him, and nobody's wallet is overdrawn           *)
(* (CO.minusCollaborator checks the balance it has read).                  *)
NobodyOvercharged ==
    \A c \in Collaborators :
        /\ wallet[c] >= 0
        /\ wallet[c] >= Deposit - Fee * Cardinality({i \in FeesTaken : history[i].id_collaborator = c})

(* A job that is taken gets a group order that names a collaborator, or it *)
(* is cancelled: JS.assignCollaborator does not stop between its writes.   *)
GroupFollows ==
    order.status = "confirm" ~> (order.status = "confirm" => group.id_collaborator # NoCollaborator)

-----------------------------------------------------------------------------
(* What the comments of the code say, once all requests are over.          *)

Quiet == /\ \A r \in Requests : take[r].at \in {"confirmed", "refused"}
         /\ cancel.at = "over"
         /\ repair.at = "idle"

(* JS line 191, "Kiem tra don hang da co nguoi nhan hay chua": it is       *)
(* checked whether somebody has the job, so only he pays for it.           *)
OnlyHolderPays ==
    Quiet => \A i \in FeesTaken : history[i].id_collaborator = order.id_collaborator
=============================================================================
