----------------------------- MODULE PaymentDemo -----------------------------
(***************************************************************************)
(* The demos from end to end: the scripts of gaming-payment-demo (three    *)
(* shares, any number of shares, tokens) and the button of                 *)
(* wallet-connect-demo.  Several runs share the payer, its namespace and   *)
(* the file of demo recipients.  A run resolves its recipients, sees to    *)
(* the funds, opens the namespace, pays, and waits for finalized evidence. *)
(*                                                                         *)
(* Each await is a step.  The chain is a sequence of executed transactions *)
(* whose first entries are final and whose last may still be undone.       *)
(***************************************************************************)
EXTENDS Integers, SequencesExt

CONSTANTS
  Runs,
  Settings,          \* what a session starts from, see Init
  Timeout, Poll,     \* finalityTimeoutMs and pollIntervalMs, in ticks
  MaxElapsed         \* bound: ticks a run may wait, slow answers included

ASSUME DemoAssumption ==
  Timeout \in Nat \ {0} /\ Poll \in Nat \ {0} /\ MaxElapsed \in Nat /\ MaxElapsed > Timeout

AIRDROP_LAMPORTS == 1000000000
AMOUNT_BASE_UNITS == 20000
SOL_FEE_AND_RENT_BUFFER == 12000000
LAMPORTS_TOTAL == 20000 * 1000
FEE_MARGIN == 10000
FEE == 5000
DEFAULT_RATE == 6960   \* lamports a byte must hold

Direct == {"artist", "studio", "synxed"}
Roles == Direct \cup {"pool"}

\* What a session may start from. No cluster asks for more rent than the default rate.
ASSUME SettingsAssumption ==
  \A s \in Settings :
    /\ s.kind \in [Runs -> {"three", "nway", "token", "wallet"}]
    /\ s.mode \in [Runs -> {"dry", "system", "program"}]
    /\ s.lamports \in Nat /\ s.tokens \in Nat /\ s.rate \in Nat /\ s.rate <= DEFAULT_RATE

VARIABLES
  setting,  \* the session: the runs' kinds, modes and overrides; the payer's lamports
            \* and tokens, whether its namespace is open, the file at the start; the
            \* cluster and its rent rate
  chain,    \* executed transactions: [tx, error, cost]
  final,    \* how many of them are final
  sent,     \* what the cluster was given
  file,     \* .keys/demo-recipients.json
  run       \* the runs

vars == <<setting, chain, final, sent, file, run>>

Nothing == <<>>  \* no wallet at all
Absent == [state |-> "absent", wallets |-> Nothing]
Torn == [state |-> "torn", wallets |-> Nothing]
Stored(wallets) == [state |-> "stored", wallets |-> wallets]

\* main of index.ts, nway.ts and token.ts, and settle of App.tsx.
Script(r) ==
  IF setting.kind[r] = "token" THEN <<"cluster", "tokens", "funds", "open", "load",
                                      "settle", "cluster", "read">>
  ELSE IF setting.kind[r] = "wallet"
    THEN <<"cluster", "look", "funds", "settle", "cluster", "read">>
  ELSE CASE setting.mode[r] = "dry"    -> <<"load">>
         [] setting.mode[r] = "system" -> <<"load", "funds", "settle">>
         [] OTHER -> <<"load", "funds", "open", "settle">>
                       \o (IF setting.kind[r] = "nway" THEN <<"cluster", "read">> ELSE <<>>)

Init ==
  /\ setting \in Settings
  /\ chain = <<>> /\ final = 0 /\ sent = {}
  /\ file = setting.file
  /\ run = [r \in Runs |-> [todo |-> Script(r), seen |-> Nothing, wallets |-> Nothing,
                            checked |-> 0, opens |-> FALSE, elapsed |-> 0, left |-> 0,
                            heard |-> 0, result |-> "running"]]

-----------------------------------------------------------------------------
(* The cluster                                                             *)

Rent(size) == (128 + size) * setting.rate
RecordRent == Rent(41)
NamespaceRent == Rent(98)
TokenAccountRent == Rent(165)
WalletMinimum == Rent(0)

Tip == Len(chain)

\* What a provider may answer from: the first entries, all that are final among them.
Views == final..Tip

Succeeded(n) == {k \in 1..n : chain[k].error = "ok"}

SumOver(f) == FoldFunction(LAMBDA x, y : x + y, 0, f)

Lamports(n) == setting.lamports - SumOver([k \in 1..n |-> chain[k].cost])

IsOpen(n) == setting.opened \/ \E k \in Succeeded(n) : chain[k].tx.opens

TokenSettlements(n) ==
  {k \in Succeeded(n) : chain[k].tx.op = "settle" /\ setting.kind[chain[k].tx.run] = "token"}

TokensLeft(n) == setting.tokens - AMOUNT_BASE_UNITS * Cardinality(TokenSettlements(n))

HaveTokenAccounts(n) == UNION {Range(chain[k].tx.to) : k \in TokenSettlements(n)}

\* What the first n entries leave tx to pay; an airdrop pays the payer.
Cost(tx, n) ==
  LET kind == setting.kind[tx.run]
      opening == IF tx.opens THEN NamespaceRent ELSE 0
      record == IF setting.mode[tx.run] = "program" THEN RecordRent ELSE 0
      paid == IF kind = "token"
              THEN TokenAccountRent * Cardinality(Range(tx.to) \ HaveTokenAccounts(n))
              ELSE LAMPORTS_TOTAL
  IN CASE tx.op = "airdrop" -> -AIRDROP_LAMPORTS
       [] tx.op = "open"    -> FEE + opening
       [] tx.op = "settle"  -> FEE + opening + record + paid

\* The bank leaves the payer its own minimum, or nothing.
Bears(lamports) == lamports = 0 \/ lamports >= WalletMinimum

NeedsNamespace(tx) == tx.op = "settle" /\ setting.mode[tx.run] = "program" /\ ~tx.opens

Error(tx, n) ==
  IF tx.op = "airdrop" THEN "ok"
  ELSE IF tx.opens /\ IsOpen(n) THEN "OPENED"
  ELSE IF NeedsNamespace(tx) /\ ~IsOpen(n) THEN "NAMESPACE"
  ELSE IF setting.kind[tx.run] = "token" /\ tx.op = "settle" /\ TokensLeft(n) < AMOUNT_BASE_UNITS
    THEN "TOKENS"
  ELSE IF ~Bears(Lamports(n) - Cost(tx, n)) THEN "LAMPORTS"
  ELSE "ok"

EntriesOf(tx) == {k \in 1..Tip : chain[k].tx = tx}

\* A transaction is executed once; one that fails costs its fee.
Land(tx) ==
  /\ EntriesOf(tx) = {}
  /\ tx.op # "airdrop" => Bears(Lamports(Tip) - FEE)
  /\ LET error == Error(tx, Tip)
     IN chain' = Append(chain, [tx |-> tx, error |-> error,
                                cost |-> IF error = "ok" THEN Cost(tx, Tip) ELSE FEE])
  /\ UNCHANGED <<setting, final, sent, file, run>>

Finalize == final < Tip /\ final' = final + 1 /\ UNCHANGED <<setting, chain, sent, file, run>>

\* The last block is abandoned for another one; what it held may land again.
Fork == final < Tip /\ chain' = Front(chain) /\ UNCHANGED <<setting, final, sent, file, run>>

-----------------------------------------------------------------------------
(* A run                                                                   *)

At(r, step) == run[r].result = "running" /\ Head(run[r].todo) = step

Proceeds(me, todo) ==
  [me EXCEPT !.todo = todo, !.result = IF todo = <<>> THEN "done" ELSE @]
Passes(me) == Proceeds(me, Tail(me.todo))
Ends(me, result) == [me EXCEPT !.todo = <<>>, !.result = result]

Becomes(r, me) == run' = [run EXCEPT ![r] = me]

\* The recipients a run asks for: token.ts the pool's too, and nway.ts, for its default labels.
Wanted(r) == IF setting.kind[r] \in {"nway", "token"} THEN Roles ELSE Direct

Overridden(r, role) == role \in setting.env[r]

\* resolve: the override, else what is stored, else a new wallet.
Resolve(r, stored, role) ==
  IF Overridden(r, role) THEN <<"override", role>>
  ELSE IF role \in DOMAIN stored THEN stored[role]
  ELSE <<"generated", r, role>>

Recipients(r, stored) ==
  [role \in Wanted(r) \cup (DOMAIN stored \cap {"pool"}) |->
     IF role \in Wanted(r) THEN Resolve(r, stored, role) ELSE stored[role]]

Generates(r, stored) ==
  \E role \in Wanted(r) : ~Overridden(r, role) /\ role \notin DOMAIN stored

\* Faulty variant of ToStore: whatever was resolved.
ToStoreResolved(r, stored, recipients) == recipients

\* toStore: a stored wallet is kept when an override hides it. An override of a direct
\* share is stored all the same if nothing was; one of the pool never is.
ToStore(r, stored, recipients) ==
  LET Kept(role) == IF Overridden(r, role) THEN stored ELSE recipients
  IN [role \in Direct \cup (DOMAIN Kept("pool") \cap {"pool"}) |->
        IF role \in DOMAIN Kept(role) THEN Kept(role)[role] ELSE recipients[role]]

\* loadRecipients: a file that is no JSON throws.
Load(r) ==
  LET stored == file.wallets
      read == [run[r] EXCEPT !.seen = stored, !.wallets = Recipients(r, stored)]
      writing == IF Generates(r, stored) THEN <<"truncate", "write">> ELSE <<>>
  IN /\ At(r, "load")
     /\ Becomes(r, IF file = Torn THEN Ends(run[r], "PARSE")
                   ELSE Proceeds(read, writing \o Tail(run[r].todo)))
     /\ UNCHANGED <<setting, chain, final, sent, file>>

\* writeFileSync: the file is emptied and then written.
Truncate(r) ==
  /\ At(r, "truncate")
  /\ file' = Torn /\ Becomes(r, Passes(run[r]))
  /\ UNCHANGED <<setting, chain, final, sent>>

Write(r) ==
  /\ At(r, "write")
  /\ file' = Stored(ToStore(r, run[r].seen, run[r].wallets)) /\ Becomes(r, Passes(run[r]))
  /\ UNCHANGED <<setting, chain, final, sent>>

\* Faulty variant of fundingOverhead: the record and the namespace forgotten.
fundingOverheadOfTransfers(mode) == 1000000

fundingOverhead(mode) == IF mode = "program" THEN 2800000 ELSE 1000000

Needed(r) ==
  CASE setting.kind[r] = "token"  -> SOL_FEE_AND_RENT_BUFFER
    [] setting.kind[r] = "wallet" -> LAMPORTS_TOTAL + RecordRent + WalletMinimum + FEE_MARGIN
                                       + IF run[r].opens THEN NamespaceRent ELSE 0
    [] OTHER -> LAMPORTS_TOTAL + fundingOverhead(setting.mode[r])

Funded(r, balance) == Passes([run[r] EXCEPT !.checked = balance])

Tx(r, op) ==
  [run |-> r, op |-> op, opens |-> op = "open" \/ (op = "settle" /\ run[r].opens),
   to |-> [role \in DOMAIN run[r].wallets \cap Wanted(r) |-> run[r].wallets[role]]]

Sends(tx) == sent' = sent \cup {tx}

\* ensureFunds; the wallet demo refuses instead. A provider may lag.
Funds(r) ==
  /\ At(r, "funds")
  /\ \E view \in Views :
       LET balance == Lamports(view)
       IN Becomes(r, IF balance >= Needed(r) THEN Funded(r, balance)
                     ELSE IF setting.kind[r] = "wallet" THEN Ends(run[r], "SHORT")
                     ELSE Proceeds(run[r], <<"airdrop", "await", "recheck">> \o Tail(run[r].todo)))
  /\ UNCHANGED <<setting, chain, final, sent, file>>

Airdrop(r) ==
  /\ At(r, "airdrop")
  /\ \/ Sends(Tx(r, "airdrop")) /\ Becomes(r, Passes(run[r]))
     \/ Becomes(r, Ends(run[r], "AIRDROP")) /\ UNCHANGED sent
  /\ UNCHANGED <<setting, chain, final, file>>

Await(r) ==
  /\ At(r, "await")
  /\ \/ EntriesOf(Tx(r, "airdrop")) # {} /\ Becomes(r, Passes(run[r]))
     \/ Becomes(r, Ends(run[r], "AIRDROP"))
  /\ UNCHANGED <<setting, chain, final, sent, file>>

Recheck(r) ==
  /\ At(r, "recheck")
  /\ \E view \in Views :
       LET balance == Lamports(view)
       IN Becomes(r, IF balance >= Needed(r) THEN Funded(r, balance) ELSE Ends(run[r], "SHORT"))
  /\ UNCHANGED <<setting, chain, final, sent, file>>

\* token.ts: what the payer's token account holds.
Tokens(r) ==
  /\ At(r, "tokens")
  /\ \E view \in Views :
       Becomes(r, IF TokensLeft(view) >= AMOUNT_BASE_UNITS THEN Passes(run[r])
                  ELSE Ends(run[r], "NO_TOKENS"))
  /\ UNCHANGED <<setting, chain, final, sent, file>>

\* App.tsx: a namespace not found is opened beside the settlement.
Look(r) ==
  /\ At(r, "look")
  /\ \E view \in Views : Becomes(r, Passes([run[r] EXCEPT !.opens = ~IsOpen(view)]))
  /\ UNCHANGED <<setting, chain, final, sent, file>>

\* demoNamespace: the namespace is read, its opening is simulated, and read again if that
\* was refused, each by a provider that may lag. NamespaceOpening has the details.
Open(r) ==
  LET tx == Tx(r, "open")
  IN /\ At(r, "open")
     /\ \/ /\ \E view \in Views : IsOpen(view)
           /\ Becomes(r, Passes(run[r])) /\ UNCHANGED sent
        \/ /\ \E view \in Views : ~IsOpen(view)
           /\ \E node \in Views :
                \/ /\ Error(tx, node) = "ok" /\ Sends(tx)
                   /\ Becomes(r, Proceeds(run[r], <<"opening">> \o Tail(run[r].todo)))
                \/ /\ Error(tx, node) # "ok" /\ UNCHANGED sent
                   /\ Becomes(r, Ends(run[r], Error(tx, node)))
     /\ UNCHANGED <<setting, chain, final, file>>

\* Opened, by itself or by another; or its own transaction failed or got lost, or it is
\* not to be seen yet.
Opening(r) ==
  /\ At(r, "opening")
  /\ \E view \in Views :
       Becomes(r, IF IsOpen(view) THEN Passes(run[r]) ELSE Ends(run[r], "UNKNOWN"))
  /\ UNCHANGED <<setting, chain, final, sent, file>>

\* The payment: refused by the node that simulates it, or sent. A wallet does not wait
\* for it.
Settle(r) ==
  LET tx == Tx(r, "settle")
      waiting == IF setting.kind[r] = "wallet" THEN <<>> ELSE <<"confirm">>
  IN /\ At(r, "settle")
     /\ \E node \in Views :
          \/ /\ Error(tx, node) # "ok" /\ UNCHANGED sent
             /\ Becomes(r, Ends(run[r], Error(tx, node)))
          \/ /\ Error(tx, node) = "ok" /\ Sends(tx)
             /\ Becomes(r, Proceeds(run[r], waiting \o Tail(run[r].todo)))
     /\ UNCHANGED <<setting, chain, final, file>>

\* sendAndConfirmTransaction: in a block, or the blockhash expired.
Confirm(r) ==
  LET entries == EntriesOf(Tx(r, "settle"))
  IN /\ At(r, "confirm")
     /\ \/ \E k \in entries :
             Becomes(r, IF chain[k].error = "ok" THEN Passes(run[r]) ELSE Ends(run[r], "FAILED"))
        \/ Becomes(r, Ends(run[r], "UNKNOWN"))
     /\ UNCHANGED <<setting, chain, final, sent, file>>

\* assertLedgerCluster: token.ts and App.tsx call it first, every reconciliation does.
Cluster(r) ==
  /\ At(r, "cluster")
  /\ Becomes(r, IF setting.cluster = "devnet" THEN Passes(run[r]) ELSE Ends(run[r], "CLUSTER_MISMATCH"))
  /\ UNCHANGED <<setting, chain, final, sent, file>>

-----------------------------------------------------------------------------
(* reconcileSettlementN and reconcileTokenSettlementN                      *)

Smaller(a, b) == IF a < b THEN a ELSE b
Larger(a, b) == IF a > b THEN a ELSE b

\* Faulty variant of Evidence: what is only confirmed is read too.
EvidenceConfirmed(r) == EntriesOf(Tx(r, "settle"))

\* getParsedTransaction at FINALIZED_PARSED.
Evidence(r) == {k \in EntriesOf(Tx(r, "settle")) : k <= final}

\* A provider that lags answers null for what is final already.
Read(r) ==
  LET delay == Smaller(Poll, Larger(0, Timeout - run[r].elapsed))
  IN /\ At(r, "read")
     /\ \/ \E k \in Evidence(r) :
             Becomes(r, Ends(run[r], IF chain[k].error = "ok" THEN "MATCH" ELSE "TX_FAILED"))
        \/ Becomes(r, Proceeds([run[r] EXCEPT !.left = delay, !.heard = run[r].elapsed], <<"delay">>))
     /\ UNCHANGED <<setting, chain, final, sent, file>>

\* Faulty variant of Resume: the deadline starts again with every read.
ResumeAnew(r) ==
  /\ At(r, "delay") /\ run[r].left = 0
  /\ Becomes(r, Proceeds([run[r] EXCEPT !.elapsed = 0], <<"read">>))
  /\ UNCHANGED <<setting, chain, final, sent, file>>

Resume(r) ==
  /\ At(r, "delay") /\ run[r].left = 0
  /\ Becomes(r, IF run[r].elapsed < Timeout THEN Proceeds(run[r], <<"read">>)
                ELSE Ends(run[r], "TX_NOT_FOUND"))
  /\ UNCHANGED <<setting, chain, final, sent, file>>

\* Time passes, in a delay or before an answer.
Tick(r) ==
  /\ \/ At(r, "delay") /\ run[r].left > 0
     \/ At(r, "read") /\ run[r].elapsed < MaxElapsed
  /\ Becomes(r, [run[r] EXCEPT !.elapsed = @ + 1, !.left = Larger(0, @ - 1)])
  /\ UNCHANGED <<setting, chain, final, sent, file>>

\* The process dies, or a call to the provider throws.
Stop(r) ==
  /\ run[r].result = "running"
  /\ Becomes(r, [Ends(run[r], "stopped") EXCEPT !.checked = 0, !.elapsed = 0, !.left = 0, !.heard = 0])
  /\ UNCHANGED <<setting, chain, final, sent, file>>

Step(r) ==
  \/ Load(r) \/ Truncate(r) \/ Write(r)
  \/ Funds(r) \/ Airdrop(r) \/ Await(r) \/ Recheck(r) \/ Tokens(r)
  \/ Look(r) \/ Open(r) \/ Opening(r) \/ Settle(r) \/ Confirm(r)
  \/ Cluster(r) \/ Read(r) \/ Resume(r) \/ Tick(r)

Next ==
  \/ \E r \in Runs : Step(r) \/ Stop(r)
  \/ \E tx \in sent : Land(tx)
  \/ Finalize \/ Fork

Fairness == \A r \in Runs : WF_vars(Step(r))

Spec == Init /\ [][Next]_vars /\ Fairness

-----------------------------------------------------------------------------
(* Properties                                                              *)

FinalError(r) == {chain[k].error : k \in {k \in EntriesOf(Tx(r, "settle")) : k <= final}}

\* What a run says at its end stays true whatever happens to the last blocks. A match
\* means that its own payment, to the recipients it resolved, is final. TX_NOT_FOUND
\* means that the whole timeout passed, no more than the last answer took past it, and
\* that the last answer came within one poll interval of the deadline.
VerdictsAreTrue ==
  \A r \in Runs :
    /\ run[r].result = "MATCH" => FinalError(r) = {"ok"}
    /\ run[r].result = "TX_FAILED" => FinalError(r) \notin {{}, {"ok"}}
    /\ run[r].result = "TX_NOT_FOUND" =>
         /\ run[r].heard >= Timeout - Poll
         /\ run[r].elapsed = Larger(Timeout, run[r].heard)

\* What run r paid among the first n entries.
Own(r, n) == {k \in 1..n : chain[k].tx.run = r /\ chain[k].tx.op # "airdrop"}

OwnCost(r, n) == SumOver([k \in Own(r, n) |-> chain[k].cost])

\* The highest rent rate at which 2,800,000 lamports pay for both accounts of a first run,
\* its fees and the payer's own minimum.
COVERED_RATE == 5334

\* A first run: it opened the namespace itself.
OpenedItself(r, n) == \E k \in Own(r, n) : chain[k].tx.op = "open" /\ chain[k].error = "ok"

\* After n entries the payer has less than the funding check saw, beyond what the run paid
\* itself: another spent meanwhile, or an airdrop that the check saw is not among them. Or
\* it is a demo's first run, at a rate like the default one, and the check left the payer
\* less than its own minimum.
Explained(r, n) ==
  \/ Lamports(n) < run[r].checked - OwnCost(r, n)
  \/ /\ setting.kind[r] \in {"three", "nway"} /\ setting.mode[r] = "program"
     /\ setting.rate > COVERED_RATE /\ OpenedItself(r, n)
     /\ run[r].checked < Needed(r) + WalletMinimum

Ended(r, result) == run[r].result = "running" /\ run'[r].result = result

\* shared.ts:196, "Lamports to keep on top of the settlement itself": a node refuses a run
\* that passed its funding check for lamports only if the payer was spent from meanwhile,
\* or the node is behind the one that was asked for the balance (or see Explained); a run
\* is refused for tokens only if another took them; and a run that meets the wrong
\* cluster has paid only if it is nway.ts.
RefusalsExplained ==
  [][\A r \in Runs :
       /\ Ended(r, "LAMPORTS") =>
            \A node \in Views :
              Error(Tx(r, Head(run[r].todo)), node) = "LAMPORTS" => Explained(r, node)
       /\ Ended(r, "TOKENS") => TokenSettlements(Tip) # {}
       /\ Ended(r, "FAILED") =>
            \A k \in EntriesOf(Tx(r, "settle")) :
              chain[k].error = "LAMPORTS" => Explained(r, k - 1)
       /\ Ended(r, "CLUSTER_MISMATCH") =>
            setting.kind[r] = "nway" \/ Tx(r, "settle") \notin sent]_vars

\* Whether run r leaves the wallet of a role to the file, and got one.
Leaves(r, role) == role \in DOMAIN run[r].wallets /\ ~Overridden(r, role)

\* Whether run r resolved a role that the file it read did not have.
BeganWithout(r, role) == role \in DOMAIN run[r].wallets \ DOMAIN run[r].seen

\* shared.ts:101, "generated once and reused across runs": what was stored stays in
\* use whatever runs ran in between, overridden ones included; and runs that left a
\* wallet to the file use different ones only if two of the runs began without it.
WalletsReused ==
  \A r \in Runs : \A role \in Roles :
    Leaves(r, role) =>
      /\ role \in DOMAIN setting.file.wallets =>
           run[r].wallets[role] = setting.file.wallets[role]
      /\ \A s \in Runs :
           Leaves(s, role) /\ run[r].wallets[role] # run[s].wallets[role]
             => \E p, q \in Runs : p # q /\ BeganWithout(p, role) /\ BeganWithout(q, role)

\* Every run ends: an airdrop, a confirmation or evidence that never comes is given up.
EveryRunEnds == \A r \in Runs : <>(run[r].result # "running")
=============================================================================
