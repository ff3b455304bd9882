----------------------- MODULE NamespaceOpeningProofs -----------------------
(***************************************************************************)
(* What ensureNamespace promises for any number of processes, authorities, *)
(* calls and rotations, with providers that lag or do not.                 *)
(*                                                                         *)
(* The inductive invariant says of the cluster that the namespace is open  *)
(* exactly when a transaction opened it, and that none failed before; and  *)
(* of each call what it knows at each of its awaits.                       *)
(***************************************************************************)
EXTENDS NamespaceOpening, SequenceTheorems, TLAPS

Txs == [authority : Authorities, blockhash : Blockhashes]

Phases == {"fetch", "send", "confirm", "reread", "returned"}
Results == {"none", "found", "created", "fault", "send error",
            "NAMESPACE_AUTHORITY", "NAMESPACE_MISSING", "NAMESPACE_ACCOUNT"}

Calls == [phase : Phases, create : BOOLEAN, began : Nat, tx : Txs \cup {NoTx},
          fault : BOOLEAN, result : Results, number : Nat]

\* The namespace's authorities: nobody, then whoever opened it, then others.
HistoryOk ==
  /\ history \in Seq(Authorities \cup {NoOne}) /\ Len(history) >= 1
  /\ history[1] = NoOne
  /\ \A i \in 2..Len(history) : history[i] \in Authorities

\* Transactions fail when the namespace is open, and only then.
ClusterOk ==
  /\ current \in BOOLEAN /\ prefunded \in BOOLEAN
  /\ sent \subseteq Txs /\ failed \subseteq Txs /\ opening \in Txs \cup {NoTx}
  /\ Len(history) = 1 => opening = NoTx /\ failed = {}
  /\ Len(history) > 1 => opening \in Txs /\ history[2] = opening.authority

\* A transaction waited for was signed when nothing was open, by this process; an
\* error is thrown away only if the namespace is open, or something failed.
AwaitOk(p) ==
  /\ call[p].began \in 1..Len(history)
  /\ call[p].phase = "confirm" =>
       /\ call[p].tx \in Txs /\ call[p].tx.authority = Wanted[p]
       /\ current => call[p].began = 1
  /\ call[p].phase = "reread" => call[p].fault \/ ~current \/ Len(history) > 1

AnswerTrue(p) ==
  /\ Returned(p, {"found", "created"}) => Wanted[p] \in Meanwhile(p)
  /\ Returned(p, {"created"}) => call[p].tx = opening
  /\ Returned(p, {"NAMESPACE_AUTHORITY"}) => Meanwhile(p) \ {NoOne, Wanted[p]} # {}
  /\ Returned(p, {"NAMESPACE_MISSING"}) => ~MayOpen(p) /\ NoOne \in Meanwhile(p)

Harmless(p) ==
  MayOpen(p) /\ Returned(p, {"send error", "NAMESPACE_ACCOUNT", "NAMESPACE_MISSING"}) =>
    call[p].fault \/ ~current

CallOk(p) ==
  /\ AwaitOk(p) /\ AnswerTrue(p) /\ Harmless(p)
  /\ Returned(p, {"created"}) => call[p].tx \in Txs

IInv ==
  /\ HistoryOk /\ ClusterOk /\ call \in [Procs -> Calls]
  /\ \A p \in Procs : CallOk(p)

-----------------------------------------------------------------------------
(* The history                                                             *)

\* The namespace is open when the history has two entries.
LEMMA OpenIsTwo ==
  ASSUME HistoryOk
  PROVE  /\ Latest # NoOne <=> Len(history) > 1
         /\ \A i \in 1..Len(history) : history[i] = NoOne <=> i = 1
         /\ Latest = history[Len(history)] /\ Len(history) \in 1..Len(history)
<1>1. Len(history) \in Nat
  BY DEF HistoryOk
<1>2. \A i \in 1..Len(history) : i # 1 => history[i] \in Authorities
  BY <1>1 DEF HistoryOk
<1>3. \A i \in 1..Len(history) : history[i] = NoOne <=> i = 1
  BY <1>2, OpeningAssumption DEF HistoryOk
<1>4. Len(history) \in 1..Len(history)
  BY <1>1 DEF HistoryOk
<1> QED
  BY <1>1, <1>3, <1>4 DEF Latest, HistoryOk

\* There is one entry, or there are more.
LEMMA OneOrMore ==
  ASSUME HistoryOk
  PROVE  Len(history) \in Nat /\ (Len(history) = 1 \/ Len(history) > 1)
<1>1. PICK n \in Nat : n = Len(history)
  BY DEF HistoryOk
<1>2. n >= 1
  BY <1>1 DEF HistoryOk
<1>3. n = 1 \/ n > 1
  BY <1>2
<1> QED
  BY <1>1, <1>3

\* What every step does to the cluster: authorities are appended, the transaction that
\* opened the namespace stays, and so does the kind of the providers.
Grows ==
  /\ Len(history') >= Len(history)
  /\ \A i \in 1..Len(history) : history'[i] = history[i]
  /\ opening \in Txs => opening' = opening
  /\ current' = current

\* What was the case during a call was the case during it.
LEMMA MeanwhileGrows ==
  ASSUME HistoryOk, HistoryOk', ClusterOk, Grows, NEW p \in Procs,
         call[p].began \in 1..Len(history), call'[p].began = call[p].began
  PROVE  Meanwhile(p) \subseteq Meanwhile(p)'
<1>1. Len(history) \in Nat /\ Len(history') \in Nat
  BY DEF HistoryOk
<1> QED
  BY <1>1 DEF Meanwhile, Grows, ClusterOk

\* A call stays as it should be while others act.
LEMMA CallStays ==
  ASSUME IInv, HistoryOk', Grows, NEW p \in Procs, call'[p] = call[p]
  PROVE  CallOk(p)'
<1>1. Meanwhile(p) \subseteq Meanwhile(p)'
  BY MeanwhileGrows DEF IInv, CallOk, AwaitOk
<1>2. Len(history) \in Nat /\ Len(history') \in Nat /\ CallOk(p)
  BY DEF IInv, HistoryOk
<1>3. AwaitOk(p)'
  BY <1>2 DEF CallOk, AwaitOk, Grows
<1>4. AnswerTrue(p)' /\ (Returned(p, {"created"}) => call[p].tx \in Txs)'
  BY <1>1, <1>2 DEF CallOk, AnswerTrue, Returned, MayOpen, Grows
<1>5. Harmless(p)'
  BY <1>2 DEF CallOk, Harmless, Returned, MayOpen, Grows
<1> QED
  BY <1>3, <1>4, <1>5 DEF CallOk

\* A step that extends the history and leaves calls alone keeps the invariant.
LEMMA ClusterStep ==
  ASSUME IInv, HistoryOk', ClusterOk', Grows, call' = call
  PROVE  IInv'
<1>1. \A p \in Procs : CallOk(p)'
  BY CallStays
<1> QED
  BY <1>1 DEF IInv

\* A step of one process keeps it if what that process then knows is true.
LEMMA ProcessStep ==
  ASSUME IInv, UNCHANGED <<history, current, prefunded, opening, failed>>, sent' \subseteq Txs,
         NEW p \in Procs, NEW c \in Calls, call' = [call EXCEPT ![p] = c],
         CallOk(p)'
  PROVE  IInv'
<1>1. HistoryOk' /\ ClusterOk'
  BY DEF IInv, HistoryOk, ClusterOk
<1>2. Grows
  BY DEF Grows, IInv, HistoryOk
<1>3. call' \in [Procs -> Calls] /\ \A q \in Procs : q # p => call'[q] = call[q]
  BY DEF IInv
<1>4. \A q \in Procs : CallOk(q)'
  BY <1>1, <1>2, <1>3, CallStays
<1> QED
  BY <1>1, <1>3, <1>4 DEF IInv

-----------------------------------------------------------------------------
(* One lemma per action                                                    *)

\* A transaction opens the namespace, or fails because it is open.
LEMMA ExecuteStep ==
  ASSUME IInv, NEW tx \in sent, Execute(tx)
  PROVE  IInv'
<1>1. /\ HistoryOk /\ ClusterOk /\ tx \in Txs /\ tx.authority \in Authorities
      /\ call' = call /\ UNCHANGED <<current, prefunded, sent>>
  BY DEF IInv, ClusterOk, Txs, Execute
<1>2. CASE ~AlreadyOpen
  <2>1. /\ Len(history) = 1 /\ history' = Append(history, tx.authority) /\ opening' = tx
        /\ failed' = failed /\ opening = NoTx
    BY <1>1, <1>2, OpenIsTwo DEF Execute, AlreadyOpen, ClusterOk, HistoryOk
  <2>2. NoTx \notin Txs
    BY OpeningAssumption DEF NoTx, Txs
  <2>3. /\ Len(history') = 2 /\ history'[1] = history[1] /\ history'[2] = tx.authority
        /\ history' \in Seq(Authorities \cup {NoOne})
    <3>1. PICK a \in Authorities \cup {NoOne} : a = tx.authority
      BY <1>1
    <3>2. history' = Append(history, a) /\ history \in Seq(Authorities \cup {NoOne})
      BY <1>1, <2>1, <3>1 DEF HistoryOk
    <3>3. /\ history' \in Seq(Authorities \cup {NoOne}) /\ Len(history') = Len(history) + 1
          /\ \A i \in 1..Len(history) : history'[i] = history[i]
          /\ history'[Len(history) + 1] = a
      BY <3>2, AppendProperties
    <3> QED
      BY <2>1, <3>1, <3>3
  <2>4. HistoryOk' /\ ClusterOk'
    BY <1>1, <2>1, <2>3 DEF HistoryOk, ClusterOk
  <2>5. Grows
    BY <1>1, <2>1, <2>2, <2>3 DEF Grows
  <2> QED
    BY <1>1, <2>4, <2>5, ClusterStep
<1>3. CASE AlreadyOpen
  <2>1. /\ Len(history) > 1 /\ UNCHANGED <<history, opening>> /\ failed' = failed \cup {tx}
    BY <1>1, <1>3, OpenIsTwo DEF Execute, AlreadyOpen
  <2>2. HistoryOk' /\ ClusterOk' /\ Grows
    BY <1>1, <2>1 DEF HistoryOk, ClusterOk, Grows
  <2> QED
    BY <1>1, <2>2, ClusterStep
<1> QED
  BY <1>2, <1>3

\* An open namespace is handed over.
LEMMA RotateStep ==
  ASSUME IInv, NEW authority \in Authorities, Rotate(authority)
  PROVE  IInv'
<1>1. /\ HistoryOk /\ ClusterOk /\ Len(history) > 1
      /\ history' = Append(history, authority)
      /\ UNCHANGED <<current, prefunded, sent, opening, failed, call>>
  BY OpenIsTwo DEF IInv, Rotate
<1>2. /\ history' \in Seq(Authorities \cup {NoOne}) /\ Len(history') = Len(history) + 1
      /\ \A i \in 1..Len(history) : history'[i] = history[i]
      /\ history'[Len(history) + 1] = authority /\ Len(history) \in Nat
  BY <1>1 DEF HistoryOk
<1>3. HistoryOk' /\ ClusterOk' /\ Grows
  BY <1>1, <1>2 DEF HistoryOk, ClusterOk, Grows
<1> QED
  BY <1>1, <1>3, ClusterStep

\* Lamports at the address change nothing a call knows.
LEMMA PrefundStep ==
  ASSUME IInv, Prefund
  PROVE  IInv'
<1>1. HistoryOk' /\ ClusterOk' /\ Grows /\ call' = call
  BY DEF IInv, Prefund, HistoryOk, ClusterOk, Grows
<1> QED
  BY <1>1, ClusterStep

\* What a call may see is an authority of the namespace while it ran.
LEMMA ViewsMeanwhile ==
  ASSUME IInv, NEW p \in Procs, NEW view \in Views
  PROVE  /\ view \in 1..Len(history) /\ history[view] \in Meanwhile(p)
         /\ AccountAt(view) = "namespace" <=> history[view] # NoOne
         /\ Missing(AccountAt(view)) <=> history[view] = NoOne
         /\ current => view = Len(history)
<1>1. Len(history) \in 1..Len(history) /\ call[p].began \in 1..Len(history) /\ current \in BOOLEAN
  BY OpenIsTwo DEF IInv, CallOk, AwaitOk, ClusterOk
<1>2. Len(history) \in Nat
  BY DEF IInv, HistoryOk
<1> QED
  BY <1>1, <1>2 DEF Views, Meanwhile, AccountAt, Missing

\* Begin forgets the last call and starts at the history's end.
LEMMA BeginStep ==
  ASSUME IInv, NEW p \in Procs, Begin(p)
  PROVE  IInv'
<1>1. PICK create \in BOOLEAN :
        call' = [call EXCEPT ![p] = [Idle EXCEPT !.phase = "fetch", !.create = create,
                                                 !.began = Len(history),
                                                 !.number = call[p].number + 1]]
  BY DEF Begin
<1>2. PICK c : c = [Idle EXCEPT !.phase = "fetch", !.create = create, !.began = Len(history),
                                !.number = call[p].number + 1]
  OBVIOUS
<1>3. Len(history) \in Nat /\ Len(history) \in 1..Len(history) /\ call[p] \in Calls
      /\ call \in [Procs -> Calls] /\ sent \subseteq Txs
  BY OpenIsTwo DEF IInv, HistoryOk, ClusterOk
<1>4. /\ c \in Calls /\ c.phase = "fetch" /\ c.began = Len(history)
  <2>1. call[p].number \in Nat
    BY <1>3 DEF Calls
  <2>2. c = [phase |-> "fetch", create |-> create, began |-> Len(history), tx |-> NoTx,
             fault |-> FALSE, result |-> "none", number |-> call[p].number + 1]
    BY <1>2 DEF Idle
  <2>3. call[p].number + 1 \in Nat /\ Len(history) \in Nat /\ NoTx \in Txs \cup {NoTx}
    BY <1>3, <2>1
  <2>4. c \in Calls
    BY <2>2, <2>3 DEF Calls, Phases, Results
  <2> QED
    BY <2>2, <2>4
<1>5. call'[p] = c /\ UNCHANGED <<history, current, prefunded, sent, opening, failed>>
  BY <1>1, <1>2, <1>3 DEF Begin
<1>6. CallOk(p)'
  BY <1>3, <1>4, <1>5 DEF CallOk, AwaitOk, AnswerTrue, Harmless, Returned
<1> QED
  BY <1>1, <1>2, <1>3, <1>4, <1>5, <1>6, ProcessStep

\* A call that goes on.
LEMMA GoesFacts ==
  ASSUME IInv, NEW p \in Procs, NEW phase \in Phases, Goes(p, phase)
  PROVE  \E c \in Calls :
           /\ call' = [call EXCEPT ![p] = c] /\ call'[p] = c
           /\ c.phase = phase /\ c.create = call[p].create /\ c.began = call[p].began
           /\ c.tx = call[p].tx /\ c.fault = call[p].fault
<1>1. call \in [Procs -> Calls] /\ call[p] \in Calls
  BY DEF IInv
<1>2. PICK c : c = [call[p] EXCEPT !.phase = phase]
  OBVIOUS
<1>3. c \in Calls
  BY <1>1, <1>2 DEF Calls
<1>4. call' = [call EXCEPT ![p] = c]
  BY <1>2 DEF Goes
<1> QED
  BY <1>1, <1>2, <1>3, <1>4 DEF Calls

\* A call that returns.
LEMMA ReturnsFacts ==
  ASSUME IInv, NEW p \in Procs, NEW result \in Results, Returns(p, result)
  PROVE  \E c \in Calls :
           /\ call' = [call EXCEPT ![p] = c] /\ call'[p] = c
           /\ c.phase = "returned" /\ c.result = result /\ c.create = call[p].create
           /\ c.began = call[p].began /\ c.tx = call[p].tx /\ c.fault = call[p].fault
<1>1. call \in [Procs -> Calls] /\ call[p] \in Calls
  BY DEF IInv
<1>2. PICK c : c = [call[p] EXCEPT !.phase = "returned", !.result = result]
  OBVIOUS
<1>3. c \in Calls
  BY <1>1, <1>2 DEF Calls, Phases
<1>4. call' = [call EXCEPT ![p] = c]
  BY <1>2 DEF Returns
<1> QED
  BY <1>1, <1>2, <1>3, <1>4 DEF Calls

\* A call whose await failed, and that reads the account once more.
LEMMA FaultGoesFacts ==
  ASSUME IInv, NEW p \in Procs,
         call' = [call EXCEPT ![p].phase = "reread", ![p].fault = TRUE]
  PROVE  \E c \in Calls :
           /\ call' = [call EXCEPT ![p] = c] /\ call'[p] = c
           /\ c.phase = "reread" /\ c.began = call[p].began /\ c.fault = TRUE
<1>1. call \in [Procs -> Calls] /\ call[p] \in Calls
  BY DEF IInv
<1>2. PICK c : c = [call[p] EXCEPT !.phase = "reread", !.fault = TRUE]
  OBVIOUS
<1>3. c \in Calls
  BY <1>1, <1>2 DEF Calls, Phases
<1>4. call' = [call EXCEPT ![p] = c]
  BY <1>2
<1> QED
  BY <1>1, <1>2, <1>3, <1>4 DEF Calls

\* A call whose await failed, and that returns.
LEMMA FaultReturnsFacts ==
  ASSUME IInv, NEW p \in Procs, NEW result \in Results,
         call' = [call EXCEPT ![p].phase = "returned", ![p].result = result, ![p].fault = TRUE]
  PROVE  \E c \in Calls :
           /\ call' = [call EXCEPT ![p] = c] /\ call'[p] = c
           /\ c.phase = "returned" /\ c.result = result /\ c.began = call[p].began
           /\ c.fault = TRUE
<1>1. call \in [Procs -> Calls] /\ call[p] \in Calls
  BY DEF IInv
<1>2. PICK c : c = [call[p] EXCEPT !.phase = "returned", !.result = result, !.fault = TRUE]
  OBVIOUS
<1>3. c \in Calls
  BY <1>1, <1>2 DEF Calls, Phases
<1>4. call' = [call EXCEPT ![p] = c]
  BY <1>2
<1> QED
  BY <1>1, <1>2, <1>3, <1>4 DEF Calls

\* A view that finds the namespace: the answer is about the authority it shows.
LEMMA FoundStep ==
  ASSUME IInv, NEW p \in Procs, NEW view \in Views, AccountAt(view) = "namespace",
         Found(p, history[view]), UNCHANGED <<history, current, prefunded, sent, opening, failed>>
  PROVE  IInv'
<1>1. history[view] \in Meanwhile(p) /\ history[view] # NoOne
  BY ViewsMeanwhile
<1>2. sent \subseteq Txs /\ AwaitOk(p)
  BY DEF IInv, ClusterOk, CallOk
<1>3. CASE Expected(p, history[view])
  <2>1. Returns(p, "found") /\ "found" \in Results
    BY <1>3 DEF Found, Results
  <2>2. PICK c \in Calls :
          /\ call' = [call EXCEPT ![p] = c] /\ call'[p] = c
          /\ c.phase = "returned" /\ c.result = "found" /\ c.began = call[p].began
    BY <2>1, ReturnsFacts
  <2>3. Meanwhile(p)' = Meanwhile(p)
    BY <2>2 DEF Meanwhile
  <2>4. CallOk(p)'
    BY <1>1, <1>2, <1>3, <2>2, <2>3
    DEF CallOk, AwaitOk, AnswerTrue, Harmless, Returned, Expected
  <2> QED
    BY <1>2, <2>2, <2>4, ProcessStep
<1>4. CASE ~Expected(p, history[view])
  <2>1. Returns(p, "NAMESPACE_AUTHORITY") /\ "NAMESPACE_AUTHORITY" \in Results
    BY <1>4 DEF Found, Results
  <2>2. PICK c \in Calls :
          /\ call' = [call EXCEPT ![p] = c] /\ call'[p] = c
          /\ c.phase = "returned" /\ c.result = "NAMESPACE_AUTHORITY" /\ c.began = call[p].began
    BY <2>1, ReturnsFacts
  <2>3. Meanwhile(p)' = Meanwhile(p)
    BY <2>2 DEF Meanwhile
  <2>4. CallOk(p)'
    BY <1>1, <1>2, <1>4, <2>2, <2>3
    DEF CallOk, AwaitOk, AnswerTrue, Harmless, Returned, Expected
  <2> QED
    BY <1>2, <2>2, <2>4, ProcessStep
<1> QED
  BY <1>3, <1>4

\* A call that goes on with nothing to tell keeps the invariant if its await is as
\* it should be.
LEMMA GoesOn ==
  ASSUME IInv, UNCHANGED <<history, current, prefunded, opening, failed>>, sent' \subseteq Txs,
         NEW p \in Procs, NEW c \in Calls, call' = [call EXCEPT ![p] = c],
         c.phase # "returned", AwaitOk(p)'
  PROVE  IInv'
<1>1. call'[p] = c
  BY DEF IInv
<1>2. CallOk(p)'
  BY <1>1 DEF CallOk, AnswerTrue, Harmless, Returned
<1> QED
  BY <1>2, ProcessStep

\* A call that goes on after a fault keeps it.
LEMMA FaultGoes ==
  ASSUME IInv, UNCHANGED <<history, current, prefunded, opening, failed>>, sent' \subseteq Txs,
         NEW p \in Procs, call' = [call EXCEPT ![p].phase = "reread", ![p].fault = TRUE]
  PROVE  IInv'
<1>1. PICK c \in Calls :
        /\ call' = [call EXCEPT ![p] = c] /\ call'[p] = c
        /\ c.phase = "reread" /\ c.began = call[p].began /\ c.fault = TRUE
  BY FaultGoesFacts
<1>2. AwaitOk(p)'
  BY <1>1 DEF IInv, CallOk, AwaitOk
<1> QED
  BY <1>1, <1>2, GoesOn

\* A call that tells of a fault of its own does.
LEMMA FaultReturns ==
  ASSUME IInv, UNCHANGED <<history, current, prefunded, opening, failed>>, sent' \subseteq Txs,
         NEW p \in Procs, NEW result \in {"fault", "send error"},
         call' = [call EXCEPT ![p].phase = "returned", ![p].result = result, ![p].fault = TRUE]
  PROVE  IInv'
<1>1. result \in Results
  BY DEF Results
<1>2. PICK c \in Calls :
        /\ call' = [call EXCEPT ![p] = c] /\ call'[p] = c
        /\ c.phase = "returned" /\ c.result = result /\ c.began = call[p].began
        /\ c.fault = TRUE
  BY <1>1, FaultReturnsFacts
<1>3. AwaitOk(p)'
  BY <1>2 DEF IInv, CallOk, AwaitOk
<1>4. CallOk(p)'
  BY <1>2, <1>3 DEF CallOk, AnswerTrue, Harmless, Returned
<1> QED
  BY <1>2, <1>4, ProcessStep

\* Fetch finds the namespace, goes on to open it, or tells that it is missing.
LEMMA FetchStep ==
  ASSUME IInv, NEW p \in Procs, Fetch(p)
  PROVE  IInv'
<1>1. UNCHANGED <<history, current, prefunded, sent, opening, failed>> /\ sent \subseteq Txs
  BY DEF Fetch, IInv, ClusterOk
<1>2. PICK view \in Views :
        CASE Missing(AccountAt(view)) /\ MayOpen(p) -> Goes(p, "send")
          [] Missing(AccountAt(view)) /\ ~MayOpen(p) -> Returns(p, "NAMESPACE_MISSING")
          [] AccountAt(view) = "namespace" -> Found(p, history[view])
          [] OTHER -> Returns(p, "NAMESPACE_ACCOUNT")
  BY DEF Fetch
<1>3. /\ history[view] \in Meanwhile(p)
      /\ AccountAt(view) = "namespace" <=> history[view] # NoOne
      /\ Missing(AccountAt(view)) <=> history[view] = NoOne
  BY ViewsMeanwhile
<1>4. \/ history[view] = NoOne /\ MayOpen(p) /\ Goes(p, "send")
      \/ history[view] = NoOne /\ ~MayOpen(p) /\ Returns(p, "NAMESPACE_MISSING")
      \/ AccountAt(view) = "namespace" /\ Found(p, history[view])
  BY <1>2, <1>3
<1>5. CASE Goes(p, "send")
  <2>1. PICK c \in Calls :
          /\ call' = [call EXCEPT ![p] = c] /\ call'[p] = c
          /\ c.phase = "send" /\ c.began = call[p].began
    BY <1>5, GoesFacts DEF Phases
  <2>2. AwaitOk(p)'
    BY <1>1, <2>1 DEF IInv, CallOk, AwaitOk
  <2> QED
    BY <1>1, <2>1, <2>2, GoesOn
<1>6. CASE history[view] = NoOne /\ ~MayOpen(p) /\ Returns(p, "NAMESPACE_MISSING")
  <2>1. "NAMESPACE_MISSING" \in Results
    BY DEF Results
  <2>2. PICK c \in Calls :
          /\ call' = [call EXCEPT ![p] = c] /\ call'[p] = c
          /\ c.phase = "returned" /\ c.result = "NAMESPACE_MISSING"
          /\ c.create = call[p].create /\ c.began = call[p].began
    BY <1>6, <2>1, ReturnsFacts
  <2>3. Meanwhile(p)' = Meanwhile(p) /\ ~MayOpen(p)'
    BY <1>1, <1>6, <2>2 DEF Meanwhile, MayOpen
  <2>4. CallOk(p)'
    BY <1>1, <1>3, <1>6, <2>2, <2>3
    DEF IInv, CallOk, AwaitOk, AnswerTrue, Harmless, Returned
  <2> QED
    BY <1>1, <2>2, <2>4, ProcessStep
<1>7. CASE AccountAt(view) = "namespace" /\ Found(p, history[view])
  BY <1>1, <1>7, FoundStep
<1> QED
  BY <1>4, <1>5, <1>6, <1>7

\* Send signs in a view without the namespace: if providers do not lag, the call
\* began before it was opened.
LEMMA SendStep ==
  ASSUME IInv, NEW p \in Procs, NEW blockhash \in Blockhashes, Send(p, blockhash)
  PROVE  IInv'
<1>1. PICK tx : tx = Signed(p, blockhash)
  OBVIOUS
<1>2. tx \in Txs /\ tx.authority = Wanted[p]
  BY <1>1, OpeningAssumption DEF Signed, Txs
<1>3. /\ sent' = sent \cup {tx} /\ UNCHANGED <<history, current, prefunded, opening, failed>>
      /\ call' = [call EXCEPT ![p].phase = "confirm", ![p].tx = tx]
      /\ \E view \in Views : history[view] = NoOne
  BY <1>1 DEF Send
<1>4. PICK c : c = [call[p] EXCEPT !.phase = "confirm", !.tx = tx]
  OBVIOUS
<1>5. /\ call \in [Procs -> Calls] /\ call[p] \in Calls /\ sent' \subseteq Txs
  BY <1>2, <1>3 DEF IInv, ClusterOk
<1>6. /\ c \in Calls /\ c.phase = "confirm" /\ c.tx = tx /\ c.began = call[p].began
  BY <1>2, <1>4, <1>5 DEF Calls, Phases
<1>7. call' = [call EXCEPT ![p] = c] /\ call'[p] = c
  BY <1>3, <1>4, <1>5
<1>8. current => Len(history) = 1
  <2>1. PICK view \in Views : history[view] = NoOne
    BY <1>3
  <2>2. view \in 1..Len(history) /\ (current => view = Len(history))
    BY <2>1, ViewsMeanwhile
  <2>3. view = 1
    BY <2>1, <2>2, OpenIsTwo DEF IInv
  <2> QED
    BY <2>2, <2>3
<1>9. AwaitOk(p)'
  <2>1. call[p].began \in 1..Len(history)
    BY DEF IInv, CallOk, AwaitOk
  <2>2. ASSUME current PROVE call[p].began = 1
    <3>1. call[p].began \in 1..1
      BY <1>8, <2>1, <2>2
    <3> QED
      BY <3>1
  <2> QED
    BY <1>2, <1>3, <1>6, <1>7, <2>1, <2>2 DEF AwaitOk
<1> QED
  BY <1>3, <1>5, <1>6, <1>7, <1>9, GoesOn

\* A refusal means that the namespace is open, or that the provider lags.
LEMMA RefusedStep ==
  ASSUME IInv, NEW p \in Procs, NEW blockhash \in Blockhashes, Refused(p, blockhash)
  PROVE  IInv'
<1>1. UNCHANGED <<history, current, prefunded, sent, opening, failed>> /\ sent \subseteq Txs
  BY DEF Refused, IInv, ClusterOk
<1>2. PICK c \in Calls :
        /\ call' = [call EXCEPT ![p] = c] /\ call'[p] = c
        /\ c.phase = "reread" /\ c.began = call[p].began
  BY GoesFacts DEF Refused, Phases
<1>3. Len(history) > 1
  <2>1. CASE \E view \in Views : history[view] # NoOne
    <3>1. PICK view \in Views : history[view] # NoOne
      BY <2>1
    <3>2. view \in 1..Len(history) /\ view # 1
      BY <3>1, ViewsMeanwhile DEF IInv, HistoryOk
    <3>3. ASSUME Len(history) = 1 PROVE FALSE
      <4>1. view \in 1..1
        BY <3>2, <3>3
      <4> QED
        BY <3>2, <4>1
    <3> QED
      BY <3>3, OneOrMore DEF IInv
  <2>2. CASE Signed(p, blockhash) \in failed \cup {opening}
    <3>1. Signed(p, blockhash) # NoTx
      BY OpeningAssumption DEF Signed, NoTx
    <3>2. Len(history) # 1
      BY <2>2, <3>1 DEF IInv, ClusterOk
    <3> QED
      BY <3>2, OneOrMore DEF IInv
  <2> QED
    BY <2>1, <2>2 DEF Refused
<1>4. AwaitOk(p)'
  BY <1>1, <1>2, <1>3 DEF IInv, CallOk, AwaitOk
<1> QED
  BY <1>1, <1>2, <1>4, GoesOn

\* Confirm: the transaction opened the namespace, or failed because it was open.
LEMMA ConfirmStep ==
  ASSUME IInv, NEW p \in Procs, Confirm(p)
  PROVE  IInv'
<1>1. /\ UNCHANGED <<history, current, prefunded, sent, opening, failed>> /\ sent \subseteq Txs
      /\ call[p].phase = "confirm" /\ HistoryOk /\ ClusterOk /\ AwaitOk(p)
  BY DEF Confirm, IInv, ClusterOk, CallOk
<1>2. call[p].tx \in Txs /\ call[p].tx.authority = Wanted[p] /\ call[p].tx # NoTx
  BY <1>1, OpeningAssumption DEF AwaitOk, Txs, NoTx
<1>3. CASE call[p].tx = opening /\ Returns(p, "created")
  <2>1. "created" \in Results
    BY DEF Results
  <2>2. PICK c \in Calls :
          /\ call' = [call EXCEPT ![p] = c] /\ call'[p] = c
          /\ c.phase = "returned" /\ c.result = "created" /\ c.began = call[p].began
          /\ c.tx = call[p].tx
    BY <1>3, <2>1, ReturnsFacts
  <2>3. Len(history) > 1 /\ history[2] = Wanted[p] /\ Len(history) \in Nat
    BY <1>1, <1>2, <1>3, OneOrMore DEF ClusterOk
  <2>4. Wanted[p] \in Meanwhile(p)
    <3>1. 2 \in (IF current THEN call[p].began ELSE 1)..Len(history)
      BY <1>1, <2>3 DEF AwaitOk, ClusterOk
    <3> QED
      BY <2>3, <3>1 DEF Meanwhile
  <2>5. Meanwhile(p)' = Meanwhile(p)
    BY <1>1, <2>2 DEF Meanwhile
  <2>6. CallOk(p)'
    BY <1>1, <1>2, <1>3, <2>2, <2>4, <2>5
    DEF CallOk, AwaitOk, AnswerTrue, Harmless, Returned
  <2> QED
    BY <1>1, <2>2, <2>6, ProcessStep
<1>4. CASE call[p].tx \in failed /\ Goes(p, "reread")
  <2>1. PICK c \in Calls :
          /\ call' = [call EXCEPT ![p] = c] /\ call'[p] = c
          /\ c.phase = "reread" /\ c.began = call[p].began
    BY <1>4, GoesFacts DEF Phases
  <2>2. Len(history) > 1
    BY <1>1, <1>4, OneOrMore DEF ClusterOk
  <2>3. AwaitOk(p)'
    BY <1>1, <2>1, <2>2 DEF AwaitOk
  <2> QED
    BY <1>1, <2>1, <2>3, GoesOn
<1> QED
  BY <1>3, <1>4 DEF Confirm

\* Reread: without a fault, on a provider that does not lag, it finds the namespace.
LEMMA RereadStep ==
  ASSUME IInv, NEW p \in Procs, Reread(p)
  PROVE  IInv'
<1>1. /\ UNCHANGED <<history, current, prefunded, sent, opening, failed>> /\ sent \subseteq Txs
      /\ call[p].phase = "reread" /\ HistoryOk /\ AwaitOk(p)
  BY DEF Reread, IInv, ClusterOk, CallOk
<1>2. PICK view \in Views :
        \/ AccountAt(view) = "namespace" /\ Found(p, history[view])
        \/ AccountAt(view) # "namespace" /\ Returns(p, "send error")
  BY DEF Reread
<1>3. CASE AccountAt(view) = "namespace" /\ Found(p, history[view])
  BY <1>1, <1>3, FoundStep
<1>4. CASE AccountAt(view) # "namespace" /\ Returns(p, "send error")
  <2>1. "send error" \in Results
    BY DEF Results
  <2>2. PICK c \in Calls :
          /\ call' = [call EXCEPT ![p] = c] /\ call'[p] = c
          /\ c.phase = "returned" /\ c.result = "send error" /\ c.create = call[p].create
          /\ c.began = call[p].began /\ c.tx = call[p].tx /\ c.fault = call[p].fault
    BY <1>4, <2>1, ReturnsFacts
  <2>3. view \in 1..Len(history) /\ history[view] = NoOne /\ (current => view = Len(history))
    BY <1>4, ViewsMeanwhile
  <2>4. current => ~(Len(history) > 1)
    BY <1>1, <2>3, OpenIsTwo
  <2>5. call[p].fault \/ ~current
    BY <1>1, <2>4 DEF AwaitOk
  <2>6. CallOk(p)'
    BY <1>1, <2>2, <2>5 DEF CallOk, AwaitOk, AnswerTrue, Harmless, Returned
  <2> QED
    BY <1>1, <2>2, <2>6, ProcessStep
<1> QED
  BY <1>2, <1>3, <1>4

\* The awaits that fail.
LEMMA FaultStep ==
  ASSUME IInv, NEW p \in Procs,
         \/ FetchFault(p) \/ ConfirmFault(p) \/ RereadFault(p)
         \/ \E blockhash \in Blockhashes : SendFault(p, blockhash)
  PROVE  IInv'
<1>1. sent \subseteq Txs
  BY DEF IInv, ClusterOk
<1>2. CASE FetchFault(p)
  BY <1>1, <1>2, FaultReturns DEF FetchFault
<1>3. CASE ConfirmFault(p)
  BY <1>1, <1>3, FaultGoes DEF ConfirmFault
<1>4. CASE RereadFault(p)
  BY <1>1, <1>4, FaultReturns DEF RereadFault
<1>5. CASE \E blockhash \in Blockhashes : SendFault(p, blockhash)
  <2>1. PICK blockhash \in Blockhashes : SendFault(p, blockhash)
    BY <1>5
  <2>2. Signed(p, blockhash) \in Txs
    BY OpeningAssumption DEF Signed, Txs
  <2>3. sent' \subseteq Txs
    BY <1>1, <2>1, <2>2 DEF SendFault
  <2> QED
    BY <2>1, <2>3, FaultGoes DEF SendFault
<1> QED
  BY <1>2, <1>3, <1>4, <1>5

-----------------------------------------------------------------------------
(* The theorems                                                            *)

\* At the start nobody has called and nothing is open.
LEMMA InitIInv == Init => IInv
<1> SUFFICES ASSUME Init PROVE IInv
  OBVIOUS
<1>1. HistoryOk /\ ClusterOk /\ Len(history) = 1
  <2>1. PICK x \in Authorities \cup {NoOne} : x = NoOne
    OBVIOUS
  <2>2. history = <<x>>
    BY <2>1 DEF Init
  <2>3. history \in Seq(Authorities \cup {NoOne}) /\ Len(history) = 1 /\ history[1] = NoOne
    BY <2>1, <2>2
  <2>4. 2..Len(history) = {} /\ ~(Len(history) > 1)
    BY <2>3
  <2>5. HistoryOk
    BY <2>3, <2>4 DEF HistoryOk
  <2>6. ClusterOk
    BY <2>3, <2>4 DEF Init, ClusterOk
  <2> QED
    BY <2>3, <2>5, <2>6
<1>2. Idle \in Calls
  BY DEF Idle, Calls, Phases, Results
<1>3. call \in [Procs -> Calls] /\ \A p \in Procs : call[p] = Idle
  BY <1>2 DEF Init
<1>4. ASSUME NEW p \in Procs PROVE CallOk(p)
  <2>1. call[p].phase = "returned" /\ call[p].result = "none" /\ call[p].began = 1
    BY <1>3 DEF Idle
  <2>2. 1 \in 1..Len(history)
    BY <1>1
  <2> QED
    BY <2>1, <2>2 DEF CallOk, AwaitOk, AnswerTrue, Harmless, Returned
<1> QED
  BY <1>1, <1>3, <1>4 DEF IInv

\* Every step keeps the invariant.
LEMMA NextIInv ==
  ASSUME IInv, [Next]_vars
  PROVE  IInv'
<1>1. CASE \E tx \in sent : Execute(tx)
  BY <1>1, ExecuteStep
<1>2. CASE Prefund
  BY <1>2, PrefundStep
<1>3. CASE \E authority \in Authorities : Rotate(authority)
  BY <1>3, RotateStep
<1>4. ASSUME NEW p \in Procs, Begin(p) \/ Fetch(p) \/ Confirm(p) \/ Reread(p)
      PROVE  IInv'
  BY <1>4, BeginStep, FetchStep, ConfirmStep, RereadStep
<1>5. ASSUME NEW p \in Procs, FetchFault(p) \/ ConfirmFault(p) \/ RereadFault(p)
      PROVE  IInv'
  BY <1>5, FaultStep
<1>6. ASSUME NEW p \in Procs, NEW blockhash \in Blockhashes,
             Send(p, blockhash) \/ Refused(p, blockhash) \/ SendFault(p, blockhash)
      PROVE  IInv'
  BY <1>6, SendStep, RefusedStep, FaultStep
<1>7. CASE UNCHANGED vars
  <2>1. HistoryOk' /\ ClusterOk' /\ Grows /\ call' = call
    BY <1>7 DEF vars, IInv, HistoryOk, ClusterOk, Grows
  <2> QED
    BY <2>1, ClusterStep
<1> QED
  BY <1>1, <1>2, <1>3, <1>4, <1>5, <1>6, <1>7 DEF Next

\* The invariant holds in every reachable state.
THEOREM Invariance == Spec => []IInv
<1> QED
  BY InitIInv, NextIInv, PTL DEF Spec

\* ensureNamespace answers what was the case while it ran, for any number of processes
\* and rotations, and a process that reports created sent the opening transaction.
THEOREM TrueAnswers == Spec => []AnswersAreTrue
<1>1. IInv => AnswersAreTrue
  BY DEF IInv, CallOk, AnswerTrue, AnswersAreTrue
<1> QED
  BY <1>1, Invariance, PTL

\* A process that loses the race to open the namespace is not told of an error, unless
\* something of its own failed or its provider lags.
THEOREM HarmlessRace == Spec => []RaceIsHarmless
<1>1. IInv => RaceIsHarmless
  BY DEF IInv, CallOk, Harmless, RaceIsHarmless
<1> QED
  BY <1>1, Invariance, PTL
=============================================================================
