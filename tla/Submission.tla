----------------------------- MODULE Submission -----------------------------
(***************************************************************************)
(* The SDK's ways to settle a request (client.ts) and the demos that use   *)
(* them: options are checked, a transaction of several instructions is     *)
(* built, signed and sent, and the caller learns what became of it, or     *)
(* does not and calls again, with the same request or another one for the  *)
(* event.  Options are whatever plain JavaScript can pass.                 *)
(*                                                                         *)
(* A transaction's identity is its content and its blockhash.  Fees, rent  *)
(* and the labels of shares are in SettlementProgram and PayoutLedger.     *)
(***************************************************************************)
EXTENDS Split, SequencesExt

CONSTANTS
  Callers, Wallets,
  Payer,            \* the wallet of each caller
  Ids, DemoId,      \* namespace ids, and the wallet demo's
  None,             \* an option that is not given; nobody
  Events, Keys,     \* what a request may name: an event, and who a share is for
  Scenarios,        \* how it starts: [opened, asks], each namespace's authority, or None,
                    \* and what each caller may ask: [flow, options, request]
  MaxUnits,         \* U64_MAX
  MaxSize,          \* PACKET_DATA_SIZE, in keys
  Frozen,           \* wallets whose token account takes no payment
  Blockhashes, MaxCalls, MaxRotations

Namespaces == Wallets \X Ids

\* The wallet demo makes up an event for each click.
ClickEvents == Callers \X Nat

Flows == {"submit", "submitN", "token", "built", "wallet"}

OptionSets ==
  [program : BOOLEAN, namespace : Namespaces \cup {None}, authority : Wallets \cup {None},
   create : Ids \cup {None}, accounts : BOOLEAN]

Requests ==
  [event : Events \cup ClickEvents \cup {None}, asset : {"SOL", "USDC"}, amount : Nat,
   scale : Nat, shares : Seq([to : Keys, bps : Nat]), memo : Nat]

Asks == [flow : Flows, options : OptionSets, request : Requests]

ASSUME SubmissionAssumption ==
  /\ Payer \in [Callers -> Wallets] /\ DemoId \in Ids /\ Frozen \subseteq Wallets
  /\ None \notin Wallets \cup Ids \cup Namespaces
  /\ \A e \in Events : e \notin ClickEvents /\ e # None
  /\ {MaxUnits, MaxSize, MaxCalls, MaxRotations} \subseteq Nat
  /\ \A s \in Scenarios :
       /\ s.opened \in [Namespaces -> Wallets \cup {None}]
       /\ s.asks \in [Callers -> SUBSET Asks]
       /\ \A c \in Callers : \A a \in s.asks[c] :
            /\ a.request.event \notin ClickEvents
            /\ a.flow = "token" => a.options.program /\ a.options.namespace # None
            /\ a.flow = "submit" => Len(a.request.shares) = 3

VARIABLES
  asks,      \* what each caller may ask
  history,   \* each namespace's authorities so far
  records,   \* the settled events, by namespace
  accounts,  \* wallets that have a token account
  sent,      \* transactions the cluster was given, and what was asked
  landed,    \* those in blocks, and what became of them
  behind,    \* earlier states of all this, which a node that lags may still show
  call       \* the last call of each caller

vars == <<asks, history, records, accounts, sent, landed, behind, call>>

NoOptions == [program |-> FALSE, namespace |-> None, authority |-> None,
              create |-> None, accounts |-> TRUE]
NoRequest == [event |-> None, asset |-> "SOL", amount |-> 0, scale |-> 1, shares |-> <<>>,
              memo |-> 0]
NoAsk == [flow |-> "none", options |-> NoOptions, request |-> NoRequest]

\* A call read its namespace's authority at view; simulated is where in its history the
\* node was that refused the transaction, if one did.
Idle == [phase |-> "returned", number |-> 0, ask |-> NoAsk, view |-> 1, simulated |-> 0,
         tx |-> <<>>, result |-> "none"]

Init ==
  /\ \E s \in Scenarios : /\ asks = s.asks
                           /\ history = [n \in Namespaces |-> <<s.opened[n]>>]
  /\ records = {} /\ accounts = {} /\ sent = {} /\ landed = {} /\ behind = {}
  /\ call = [c \in Callers |-> Idle]

-----------------------------------------------------------------------------
(* Checks before anything is built                                         *)

Scaled(request) == request.amount * request.scale
Bps(request) == [k \in DOMAIN request.shares |-> request.shares[k].bps]

NamesProgramOptions(options) ==
  options.namespace # None \/ options.authority # None \/ options.create # None

\* The namespace createNamespaceId derives for the payer.
Derived(payer, options) == <<payer, options.create>>

\* Faulty variant of Elsewhere: only that a namespace is given.
ElsewhereIfNone(payer, options) ==
  options.program /\ options.create # None /\ options.namespace = None

Elsewhere(payer, options) ==
  options.program /\ options.create # None /\ options.namespace # Derived(payer, options)

Parses(request) == \A k \in DOMAIN request.shares : request.shares[k].to \in Wallets

AuthorityOf(payer, options) == IF options.authority = None THEN payer ELSE options.authority

\* What a token settlement names besides wallets and token accounts.
TokenKeys(options) ==
  {"namespace", "record", "mint", "system", "token", "memo", "settlement"}
    \cup (IF options.accounts THEN {"accounts"} ELSE {})

\* In keys: each account once, recipients' wallets if their token accounts may have to
\* be created, two for each signature, the blockhash, and the memo. The bytes that say
\* where things start are left out.
TokenSize(payer, options, request) ==
  LET recipients == {request.shares[k].to : k \in DOMAIN request.shares}
      signers == {payer, AuthorityOf(payer, options)}
  IN Cardinality(TokenKeys(options))
       + Cardinality(signers \cup (IF options.accounts THEN recipients ELSE {}))
       + Cardinality(recipients \cup {payer})
       + 2 * Cardinality(signers) + 1 + request.memo

Fails(check, payer, options, request) ==
  CASE check = "ASSET_MODE"          -> request.asset # "SOL"
    [] check = "TOKEN_ASSET"         -> request.asset # "USDC"
    [] check = "SCALE_RANGE"         -> request.scale = 0
    [] check = "AMOUNT_U64"          -> Scaled(request) > MaxUnits
    [] check = "SPLIT"               -> SplitVerdict(request.amount, Bps(request)) # "ok"
    [] check = "RECIPIENT_PUBKEY"    -> ~Parses(request)
    [] check = "PROGRAM_ID_REQUIRED" -> ~options.program /\ NamesProgramOptions(options)
    [] check = "NAMESPACE_REQUIRED"  -> options.program /\ options.namespace = None
    [] check = "NAMESPACE_ADDRESS"   -> Elsewhere(payer, options)
    [] check = "TRANSACTION_TOO_LARGE" -> TokenSize(payer, options, request) > MaxSize

\* Faulty variant of SubmitNChecks: the program id is left to the builder, which gets
\* no options when there is none.
SubmitNChecksNamespace ==
  <<"NAMESPACE_REQUIRED", "ASSET_MODE", "SCALE_RANGE", "AMOUNT_U64", "SPLIT", "RECIPIENT_PUBKEY">>

\* submitSettlementN gives the builder the options one by one, so it checks them first.
SubmitNChecks ==
  <<"PROGRAM_ID_REQUIRED", "NAMESPACE_REQUIRED",
    "ASSET_MODE", "SCALE_RANGE", "AMOUNT_U64", "SPLIT", "RECIPIENT_PUBKEY">>

\* The checks of each function, in its order.
Checks(flow) ==
  CASE flow = "submit" ->
         <<"ASSET_MODE", "SCALE_RANGE", "AMOUNT_U64", "SPLIT", "RECIPIENT_PUBKEY",
           "PROGRAM_ID_REQUIRED", "NAMESPACE_REQUIRED">>
    [] flow = "submitN" -> SubmitNChecks
    [] flow = "token" ->
         <<"TOKEN_ASSET", "SPLIT", "SCALE_RANGE", "AMOUNT_U64", "RECIPIENT_PUBKEY",
           "TRANSACTION_TOO_LARGE">>
    [] OTHER ->
         <<"ASSET_MODE", "SCALE_RANGE", "AMOUNT_U64", "SPLIT", "RECIPIENT_PUBKEY",
           "PROGRAM_ID_REQUIRED", "NAMESPACE_ADDRESS", "NAMESPACE_REQUIRED">>

\* The checks that refuse a call, by their place; the caller hears of the first.
Refusals(payer, ask) ==
  {k \in DOMAIN Checks(ask.flow) : Fails(Checks(ask.flow)[k], payer, ask.options, ask.request)}

FirstRefusal(payer, ask) == Checks(ask.flow)[Min(Refusals(payer, ask))]

-----------------------------------------------------------------------------
(* The transaction                                                         *)

\* The builder alone opens the namespace first; the submit functions drop the id.
Opens(ask) == ask.flow \in {"built", "wallet"} /\ ask.options.create # None

Open(payer, ask) ==
  [op |-> "open", namespace |-> Derived(payer, ask.options),
   authority |-> AuthorityOf(payer, ask.options)]

\* Faulty variant of Transfers: every share is split first and scaled after.
TransfersScaledLast(request) ==
  [k \in DOMAIN request.shares |->
     [op |-> "transfer", to |-> request.shares[k].to,
      amount |-> request.scale * Payouts(request.amount, Bps(request))[k]]]

\* addTransfers: one for each share that is not nothing.
Transfers(request) ==
  LET amounts == Payouts(Scaled(request), Bps(request))
      paid == {k \in DOMAIN request.shares : amounts[k] > 0}
      Paid(n) == CHOOSE k \in paid : Cardinality({j \in paid : j <= k}) = n
  IN [n \in 1..Cardinality(paid) |->
        [op |-> "transfer", to |-> request.shares[Paid(n)].to, amount |-> amounts[Paid(n)]]]

Recipients(request) == [k \in DOMAIN request.shares |-> request.shares[k].to]

\* Recipients' token accounts, each once, created if they do not exist.
TokenAccounts(ask) ==
  [op |-> "accounts", wallets |-> {Recipients(ask.request)[k] : k \in DOMAIN ask.request.shares}]

\* eventIdSeed: the event id and nothing else of the request.
Seed(request) == request.event

Settle(payer, ask) ==
  [op |-> "settle", from |-> payer, token |-> ask.flow = "token", namespace |-> ask.options.namespace,
   authority |-> AuthorityOf(payer, ask.options), event |-> Seed(ask.request),
   amount |-> Scaled(ask.request), bps |-> Bps(ask.request), to |-> Recipients(ask.request)]

\* The memo names the event and the amount; it makes transactions differ.
Memo(request) == [op |-> "memo", event |-> request.event, amount |-> Scaled(request)]

Instructions(payer, ask) ==
  IF ~ask.options.program THEN <<Memo(ask.request)>> \o Transfers(ask.request)
  ELSE IF Opens(ask)
    THEN <<Open(payer, ask), Memo(ask.request), Settle(payer, ask)>>
  ELSE IF ask.flow = "token" /\ ask.options.accounts
    THEN <<Memo(ask.request), TokenAccounts(ask), Settle(payer, ask)>>
  ELSE <<Memo(ask.request), Settle(payer, ask)>>

Required(tx) ==
  {tx.payer} \cup {tx.instructions[k].authority :
                     k \in {k \in DOMAIN tx.instructions : tx.instructions[k].op = "settle"}}

\* A wallet signs for its own key; who builds a transaction collects what it needs;
\* send signs with the payer, and in program mode with the authority given.
Signers(payer, ask, tx) ==
  CASE ask.flow = "wallet" -> {payer}
    [] ask.flow = "built"  -> Required(tx)
    [] OTHER -> {payer} \cup (IF ask.options.program /\ ask.options.authority # None
                              THEN {ask.options.authority} ELSE {})

-----------------------------------------------------------------------------
(* The cluster                                                             *)

\* The state the next block is built on, and that of a node that does not lag.
Newest == [history |-> history, records |-> records, accounts |-> accounts, landed |-> landed]

Latest(node, n) == Last(node.history[n])

\* The instructions of a transaction of one kind, before one of them.
Earlier(tx, k, op) ==
  {tx.instructions[j] : j \in {j \in DOMAIN tx.instructions : j < k /\ tx.instructions[j].op = op}}

\* What the first k - 1 instructions leave on a node, if none of them fails.
BankAt(node, tx, k) ==
  LET opened == Earlier(tx, k, "open")
  IN [authority |-> [n \in Namespaces |->
                       IF \E i \in opened : i.namespace = n
                       THEN (CHOOSE i \in opened : i.namespace = n).authority
                       ELSE Latest(node, n)],
      records |-> node.records \cup {<<i.namespace, i.event>> : i \in Earlier(tx, k, "settle")},
      accounts |-> node.accounts \cup UNION {i.wallets : i \in Earlier(tx, k, "accounts")}]

\* A token settlement's accounts: they exist, and none is the one that pays.
TokenRecipients(bank, i) == \A k \in DOMAIN i.to : i.to[k] \in bank.accounts /\ i.to[k] # i.from

PaysFrozen(i) == \E k \in DOMAIN i.to : i.to[k] \in Frozen /\ Payouts(i.amount, i.bps)[k] > 0

\* The program's answer, and that of the token program it invokes, in their order.
SettleVerdict(bank, i) ==
  IF bank.authority[i.namespace] # i.authority            THEN "AUTHORITY"
  ELSE IF i.token /\ ~TokenRecipients(bank, i)            THEN "ACCOUNT"
  ELSE IF <<i.namespace, i.event>> \in bank.records       THEN "SETTLED"
  ELSE IF i.token /\ PaysFrozen(i)                        THEN "FROZEN"
  ELSE "ok"

Verdict(bank, i) ==
  CASE i.op = "open"   -> IF bank.authority[i.namespace] # None THEN "OPENED" ELSE "ok"
    [] i.op = "settle" -> SettleVerdict(bank, i)
    [] OTHER           -> "ok"

Failing(node, tx) ==
  {k \in DOMAIN tx.instructions : Verdict(BankAt(node, tx, k), tx.instructions[k]) # "ok"}

\* One instruction after the other, and nothing if one of them fails.
Outcome(node, tx) ==
  IF Failing(node, tx) = {} THEN "ok"
  ELSE LET k == Min(Failing(node, tx)) IN Verdict(BankAt(node, tx, k), tx.instructions[k])

HasLanded(node, tx) == \E l \in node.landed : l.tx = tx

Land(s) ==
  LET bank == BankAt(Newest, s.tx, Len(s.tx.instructions) + 1)
      outcome == Outcome(Newest, s.tx)
  IN /\ ~HasLanded(Newest, s.tx)
     /\ landed' = landed \cup {[tx |-> s.tx, outcome |-> outcome]}
     /\ \/ /\ outcome = "ok"
           /\ records' = bank.records /\ accounts' = bank.accounts
           /\ history' = [n \in Namespaces |->
                            IF bank.authority[n] = Latest(Newest, n) THEN history[n]
                            ELSE Append(history[n], bank.authority[n])]
        \/ outcome # "ok" /\ UNCHANGED <<history, records, accounts>>
     /\ behind' = behind \cup {Newest}
     /\ UNCHANGED <<asks, sent, call>>

Rotate(n, authority) ==
  /\ Latest(Newest, n) \notin {None, authority} /\ Len(history[n]) < 2 + MaxRotations
  /\ history' = [history EXCEPT ![n] = Append(@, authority)]
  /\ behind' = behind \cup {Newest}
  /\ UNCHANGED <<asks, records, accounts, sent, landed, call>>

-----------------------------------------------------------------------------
(* Callers                                                                 *)

Returns(c, result) == call' = [call EXCEPT ![c].phase = "returned", ![c].result = result]

\* A call of one of the functions: refused before anything is sent, or prepared.
Prepare(c, ask) ==
  LET begun == [Idle EXCEPT !.number = call[c].number + 1]
  IN /\ call[c].phase = "returned" /\ call[c].number < MaxCalls /\ ask.flow # "wallet"
     /\ call' = [call EXCEPT ![c] =
                   IF Refusals(Payer[c], ask) = {} THEN [begun EXCEPT !.phase = "send", !.ask = ask]
                   ELSE [begun EXCEPT !.result = FirstRefusal(Payer[c], ask)]]
     /\ UNCHANGED <<asks, history, records, accounts, sent, landed, behind>>

\* The wallet demo: a new event each time, in the wallet's own namespace.
Click(c, ask) ==
  /\ call[c].phase = "returned" /\ call[c].number < MaxCalls /\ ask.flow = "wallet"
  /\ call' = [call EXCEPT ![c] =
                [Idle EXCEPT !.phase = "read", !.number = call[c].number + 1,
                             !.ask = [ask EXCEPT !.request.event = <<c, call[c].number + 1>>]]]
  /\ UNCHANGED <<asks, history, records, accounts, sent, landed, behind>>

DemoNamespace(c) == <<Payer[c], DemoId>>

\* Faulty variant of DemoOptions: the namespace is always opened.
DemoOptionsOpening(c, authority) ==
  [NoOptions EXCEPT !.program = TRUE, !.namespace = DemoNamespace(c), !.create = DemoId]

\* createNamespaceId goes with a namespace that was not found.
DemoOptions(c, authority) ==
  [NoOptions EXCEPT !.program = TRUE, !.namespace = DemoNamespace(c),
                    !.create = IF authority = None THEN DemoId ELSE None]

\* fetchNamespace may answer from an earlier block; the wallet may hold too little.
Read(c) ==
  \E view \in DOMAIN history[DemoNamespace(c)] :
    LET authority == history[DemoNamespace(c)][view]
        ask == [call[c].ask EXCEPT !.options = DemoOptions(c, authority)]
        refused == Refusals(Payer[c], ask) # {}
    IN /\ call[c].phase = "read"
       /\ \/ authority \notin {None, Payer[c]} /\ Returns(c, "NOT_OURS")
          \/ authority \in {None, Payer[c]} /\ refused /\ Returns(c, FirstRefusal(Payer[c], ask))
          \/ authority \in {None, Payer[c]} /\ ~refused /\ Returns(c, "FUNDS")
          \/ /\ authority \in {None, Payer[c]} /\ ~refused
             /\ call' = [call EXCEPT ![c].phase = "send", ![c].ask = ask, ![c].view = view]
       /\ UNCHANGED <<asks, history, records, accounts, sent, landed, behind>>

\* Why a transaction is not sent: it lacks a signature or has one it has no place for,
\* the node it is given to has it in a block already, or it fails when simulated there.
NotSent(node, signers, tx) ==
  IF signers # Required(tx) THEN "SIGNATURE"
  ELSE IF HasLanded(node, tx) THEN "PROCESSED"
  ELSE Outcome(node, tx)

\* The node may be behind, and behind the one that answered before.
Send(c, blockhash) ==
  LET ask == call[c].ask
      tx == [payer |-> Payer[c], instructions |-> Instructions(Payer[c], ask), blockhash |-> blockhash]
  IN /\ call[c].phase = "send"
     /\ \E node \in behind \cup {Newest} :
          LET failure == NotSent(node, Signers(Payer[c], ask, tx), tx)
          IN \/ /\ failure # "ok" /\ UNCHANGED sent
                /\ call' = [call EXCEPT ![c].phase = "returned", ![c].result = failure,
                                        ![c].simulated = Len(node.history[DemoNamespace(c)])]
             \/ /\ failure = "ok"
                /\ sent' = sent \cup {[tx |-> tx, ask |-> ask]}
                /\ call' = [call EXCEPT ![c].phase = "confirm", ![c].tx = tx]
     /\ UNCHANGED <<asks, history, records, accounts, landed, behind>>

\* sendAndConfirmTransaction returns the signature, or throws what the cluster answered.
Confirm(c) ==
  /\ call[c].phase = "confirm"
  /\ \E l \in landed : l.tx = call[c].tx /\ Returns(c, l.outcome)
  /\ UNCHANGED <<asks, history, records, accounts, sent, landed, behind>>

\* The provider fails, the confirmation times out, or the caller dies: nobody knows.
Fault(c) ==
  /\ call[c].phase # "returned"
  /\ Returns(c, "unknown")
  /\ UNCHANGED <<asks, history, records, accounts, sent, landed, behind>>

Next ==
  \/ \E c \in Callers : \E ask \in asks[c] : Prepare(c, ask) \/ Click(c, ask)
  \/ \E c \in Callers : Read(c) \/ Confirm(c) \/ Fault(c)
  \/ \E c \in Callers, blockhash \in Blockhashes : Send(c, blockhash)
  \/ \E s \in sent : Land(s)
  \/ \E n \in Namespaces, a \in Wallets : Rotate(n, a)

Spec == Init /\ [][Next]_vars

-----------------------------------------------------------------------------
(* Properties                                                              *)

HasPaid(tx) == [tx |-> tx, outcome |-> "ok"] \in landed

\* Callers who give one namespace for an event pay it once, whoever they are, however
\* often they retry, with whichever request and through whichever function, and
\* whatever other option got lost: the program id missing (client.ts:857-879), another
\* asset, another authority. Without a namespace a retry pays again.
PaidOnce ==
  \A s, t \in sent :
    /\ s.ask.request.event = t.ask.request.event
    /\ s.ask.options.namespace = t.ask.options.namespace
    /\ s.ask.options.namespace # None
    /\ HasPaid(s.tx) /\ HasPaid(t.tx)
    => s.tx = t.tx

SumOver(f) == FoldFunction(LAMBDA x, y : x + y, 0, f)

\* What a split pays wallet w, whose shares name wallets `to`.
PaidTo(amount, bps, to, w) ==
  SumOver([k \in {k \in DOMAIN to : to[k] = w} |-> Payouts(amount, bps)[k]])

Owed(request, w) == PaidTo(Scaled(request), Bps(request), Recipients(request), w)

ReceivedFrom(i, w) ==
  CASE i.op = "transfer" -> IF i.to = w THEN i.amount ELSE 0
    [] i.op = "settle"   -> PaidTo(i.amount, i.bps, i.to, w)

\* With the program or by plain transfers, scaled or not, with shares of nothing and
\* wallets named twice, what a transaction that succeeds pays each wallet is what the
\* SDK reports to its caller (client.ts:504-512, 595-630).
PaysTheRequest ==
  \A s \in sent : HasPaid(s.tx) =>
    LET instructions == s.tx.instructions
        paying == {k \in DOMAIN instructions : instructions[k].op \in {"transfer", "settle"}}
    IN \A w \in Wallets :
         SumOver([k \in paying |-> ReceivedFrom(instructions[k], w)]) = Owed(s.ask.request, w)

\* A first settlement opens the namespace it settles in, or none: no option leaves an
\* open namespace without a settled event behind (client.ts:575-594).
NoEmptyNamespace ==
  \A n \in Namespaces : history[n][1] = None /\ Last(history[n]) # None => \E r \in records : r[1] = n

\* What a caller is told is explained by what happened after it looked, or by a node
\* that lags.  The demo's transaction is refused only if its namespace was opened or
\* handed over since, or the node that refused it was behind, where the wallet did not
\* have it yet, and never as a duplicate; a settlement refused as a duplicate was paid by
\* another transaction, perhaps the caller's own; and the submit functions sign with
\* exactly the keys their transaction needs (App.tsx:143-186, client.ts:891-905,
\* security-model.md:183).
FailuresExplained ==
  \A c \in Callers :
    LET n == DemoNamespace(c)
        later == (call[c].view + 1)..Len(history[n])
        asked == call[c].ask
    IN call[c].phase = "returned" =>
         /\ asked.flow = "wallet" =>
              /\ call[c].result \notin {"SETTLED", "SIGNATURE", "ACCOUNT"}
              /\ call[c].result = "OPENED" => history[n][call[c].view] = None /\ later # {}
              /\ call[c].result = "AUTHORITY" =>
                   \E k \in (later \cup {call[c].simulated}) \ {0} : history[n][k] # Payer[c]
         /\ asked.flow \in {"submit", "submitN", "token"} => call[c].result # "SIGNATURE"
         /\ call[c].result = "SETTLED" =>
              \E s \in sent : /\ HasPaid(s.tx) /\ s.tx # call[c].tx
                             /\ s.ask.request.event = asked.request.event
                             /\ s.ask.options.namespace = asked.options.namespace
=============================================================================
