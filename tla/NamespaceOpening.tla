-------------------------- MODULE NamespaceOpening --------------------------
(***************************************************************************)
(* ensureNamespace (client.ts): several processes find or open one         *)
(* namespace, while its authority may rotate. Every await is a step. Who   *)
(* opens it has its creator's keypair for payer, so that two who want the  *)
(* same authority and got the same blockhash sign one and the same         *)
(* transaction. The address is derived from the creator and the id, and a  *)
(* pinned one is compared with it before anything is read.                 *)
(***************************************************************************)
EXTENDS Naturals, Sequences

CONSTANTS
  Procs,
  Authorities,
  Wanted,         \* the authority each process expects
  PayerCreates,   \* the processes whose payer is the creator
  Blockhashes,
  NoOne,          \* the authority of a namespace that does not exist
  MaxCalls,       \* how often each process may call
  MaxRotations

ASSUME OpeningAssumption ==
  /\ Wanted \in [Procs -> Authorities] /\ PayerCreates \subseteq Procs
  /\ NoOne \notin Authorities
  /\ MaxCalls \in Nat /\ MaxRotations \in Nat

NoTx == [authority |-> NoOne]

VARIABLES
  history,    \* the namespace's authorities so far, NoOne first
  current,    \* providers always answer from the last confirmed block
  prefunded,  \* somebody sent lamports to the address
  sent,       \* CreateNamespace transactions the cluster has, or had
  opening,    \* the one that succeeded
  failed,     \* those that failed
  call        \* the last call of each process

vars == <<history, current, prefunded, sent, opening, failed, call>>

Idle == [phase |-> "returned", create |-> FALSE, began |-> 1, tx |-> NoTx, fault |-> FALSE,
         result |-> "none", number |-> 0]

Init ==
  /\ history = <<NoOne>> /\ prefunded = FALSE /\ current \in BOOLEAN
  /\ sent = {} /\ opening = NoTx /\ failed = {}
  /\ call = [p \in Procs |-> Idle]

-----------------------------------------------------------------------------
(* The cluster and its providers                                           *)

Latest == history[Len(history)]

\* What a read at commitment confirmed may answer.
Views == IF current THEN {Len(history)} ELSE 1..Len(history)

\* create_program_account refuses an account the program owns.
AlreadyOpen == Latest # NoOne

\* A transaction is executed once, and the first one opens the namespace.
Execute(tx) ==
  /\ tx \notin failed /\ tx # opening
  /\ IF ~AlreadyOpen
     THEN /\ history' = Append(history, tx.authority) /\ opening' = tx
          /\ UNCHANGED failed
     ELSE /\ failed' = failed \cup {tx}
          /\ UNCHANGED <<history, opening>>
  /\ UNCHANGED <<current, prefunded, sent, call>>

Prefund == ~prefunded /\ prefunded' = TRUE /\ UNCHANGED <<history, current, sent, opening, failed, call>>

\* SetNamespaceAuthority, signed by whoever holds it.
Rotate(authority) ==
  /\ Latest \notin {NoOne, authority}
  /\ Len(history) < 2 + MaxRotations
  /\ history' = Append(history, authority)
  /\ UNCHANGED <<current, prefunded, sent, opening, failed, call>>

-----------------------------------------------------------------------------
(* A call                                                                  *)

AccountAt(view) ==
  IF history[view] # NoOne THEN "namespace" ELSE IF prefunded THEN "lamports" ELSE "none"

\* fetchNamespace: only lamports is no namespace yet; what else is not one throws.
Missing(account) == account \in {"none", "lamports"}

Goes(p, phase) == call' = [call EXCEPT ![p].phase = phase]

Returns(p, result) ==
  call' = [call EXCEPT ![p].phase = "returned", ![p].result = result]

\* expectAuthority
Expected(p, authority) == authority = Wanted[p]

Found(p, authority) == Returns(p, IF Expected(p, authority) THEN "found" ELSE "NAMESPACE_AUTHORITY")

\* Whether it may open the namespace is an option of the call.
Begin(p) ==
  /\ call[p].phase = "returned" /\ call[p].number < MaxCalls
  /\ \E create \in BOOLEAN :
       call' = [call EXCEPT ![p] = [Idle EXCEPT !.phase = "fetch", !.create = create,
                                                !.began = Len(history),
                                                !.number = call[p].number + 1]]
  /\ UNCHANGED <<history, current, prefunded, sent, opening, failed>>

MayOpen(p) == call[p].create /\ p \in PayerCreates

Fetch(p) ==
  /\ call[p].phase = "fetch"
  /\ \E view \in Views :
       CASE Missing(AccountAt(view)) /\ MayOpen(p) -> Goes(p, "send")
         [] Missing(AccountAt(view)) /\ ~MayOpen(p) -> Returns(p, "NAMESPACE_MISSING")
         [] AccountAt(view) = "namespace" -> Found(p, history[view])
         [] OTHER -> Returns(p, "NAMESPACE_ACCOUNT")
  /\ UNCHANGED <<history, current, prefunded, sent, opening, failed>>

FetchFault(p) ==
  /\ call[p].phase = "fetch"
  /\ call' = [call EXCEPT ![p].phase = "returned", ![p].result = "fault", ![p].fault = TRUE]
  /\ UNCHANGED <<history, current, prefunded, sent, opening, failed>>

Signed(p, blockhash) == [authority |-> Wanted[p], blockhash |-> blockhash]

\* The provider's preflight passes: no namespace in its view, nor this transaction.
Send(p, blockhash) ==
  LET tx == Signed(p, blockhash)
  IN /\ call[p].phase = "send"
     /\ \E view \in Views : history[view] = NoOne
     /\ tx \in failed \cup {opening} => ~current
     /\ sent' = sent \cup {tx}
     /\ call' = [call EXCEPT ![p].phase = "confirm", ![p].tx = tx]
     /\ UNCHANGED <<history, current, prefunded, opening, failed>>

\* It does not.
Refused(p, blockhash) ==
  /\ call[p].phase = "send"
  /\ \/ \E view \in Views : history[view] # NoOne
     \/ Signed(p, blockhash) \in failed \cup {opening}
  /\ Goes(p, "reread")
  /\ UNCHANGED <<history, current, prefunded, sent, opening, failed>>

\* The answer is lost; the cluster may have the transaction all the same.
SendFault(p, blockhash) ==
  /\ call[p].phase = "send"
  /\ sent' \in {sent, sent \cup {Signed(p, blockhash)}}
  /\ call' = [call EXCEPT ![p].phase = "reread", ![p].fault = TRUE]
  /\ UNCHANGED <<history, current, prefunded, opening, failed>>

\* Faulty variant of Confirm: an executed transaction is confirmed, however it ended.
ConfirmExecuted(p) ==
  /\ call[p].phase = "confirm"
  /\ call[p].tx \in failed \cup {opening}
  /\ Returns(p, "created")
  /\ UNCHANGED <<history, current, prefunded, sent, opening, failed>>

\* sendAndConfirmTransaction throws when the transaction failed.
Confirm(p) ==
  /\ call[p].phase = "confirm"
  /\ \/ call[p].tx = opening /\ Returns(p, "created")
     \/ call[p].tx \in failed /\ Goes(p, "reread")
  /\ UNCHANGED <<history, current, prefunded, sent, opening, failed>>

\* It throws as well when the status cannot be had before the blockhash expires.
ConfirmFault(p) ==
  /\ call[p].phase = "confirm"
  /\ call' = [call EXCEPT ![p].phase = "reread", ![p].fault = TRUE]
  /\ UNCHANGED <<history, current, prefunded, sent, opening, failed>>

\* Faulty variant of Reread: the error of the send is thrown at once.
RereadNever(p) ==
  /\ call[p].phase = "reread"
  /\ Returns(p, "send error")
  /\ UNCHANGED <<history, current, prefunded, sent, opening, failed>>

\* Another run may have opened it first; otherwise the error of the send is thrown.
Reread(p) ==
  /\ call[p].phase = "reread"
  /\ \E view \in Views :
       IF AccountAt(view) = "namespace" THEN Found(p, history[view])
       ELSE Returns(p, "send error")
  /\ UNCHANGED <<history, current, prefunded, sent, opening, failed>>

RereadFault(p) ==
  /\ call[p].phase = "reread"
  /\ call' = [call EXCEPT ![p].phase = "returned", ![p].result = "send error", ![p].fault = TRUE]
  /\ UNCHANGED <<history, current, prefunded, sent, opening, failed>>

Next ==
  \/ \E tx \in sent : Execute(tx)
  \/ Prefund
  \/ \E authority \in Authorities : Rotate(authority)
  \/ \E p \in Procs : \/ Begin(p) \/ Fetch(p) \/ FetchFault(p)
                      \/ Confirm(p) \/ ConfirmFault(p) \/ Reread(p) \/ RereadFault(p)
  \/ \E p \in Procs, blockhash \in Blockhashes :
       Send(p, blockhash) \/ Refused(p, blockhash) \/ SendFault(p, blockhash)

Spec == Init /\ [][Next]_vars

-----------------------------------------------------------------------------
(* Properties                                                              *)

Returned(p, results) == call[p].phase = "returned" /\ call[p].result \in results

\* The authorities since the call of p began, or since ever if providers lag.
Meanwhile(p) == {history[i] : i \in (IF current THEN call[p].began ELSE 1)..Len(history)}

\* client.ts, ensureNamespace: the namespace it returns had the expected authority
\* while it ran, and each refusal tells what was the case while it ran, whoever
\* else was opening or rotating it.  Who reports created: true names the transaction
\* that opened it; two may, if they signed the same one.
AnswersAreTrue ==
  \A p \in Procs :
    /\ Returned(p, {"found", "created"}) => Wanted[p] \in Meanwhile(p)
    /\ Returned(p, {"created"}) => call[p].tx = opening
    /\ Returned(p, {"NAMESPACE_AUTHORITY"}) => Meanwhile(p) \ {NoOne, Wanted[p]} # {}
    /\ Returned(p, {"NAMESPACE_MISSING"}) => ~MayOpen(p) /\ NoOne \in Meanwhile(p)

\* client.ts:363, "Another run may have opened it first; that is fine if it
\* matches": without a fault of its own, and with providers that do not lag, a
\* process that may open the namespace gets it, or learns that its authority is
\* another's.
RaceIsHarmless ==
  \A p \in Procs :
    MayOpen(p) /\ Returned(p, {"send error", "NAMESPACE_ACCOUNT", "NAMESPACE_MISSING"}) =>
      call[p].fault \/ ~current
=============================================================================
