-------------------------- MODULE SubmissionProofs --------------------------
(***************************************************************************)
(* What the SDK's ways to settle a request guarantee, for any number of    *)
(* callers, calls, requests and blockhashes: an event is paid once in each *)
(* namespace, every wallet gets what the request asks for it and nobody    *)
(* anything else, no namespace is opened in vain, and what a caller is     *)
(* told is explained by what happened.                                     *)
(***************************************************************************)
EXTENDS Submission, ArithmeticProofs, TLAPS

-----------------------------------------------------------------------------
(* The checks                                                              *)

CheckNames ==
  {"ASSET_MODE", "TOKEN_ASSET", "SCALE_RANGE", "AMOUNT_U64", "SPLIT", "RECIPIENT_PUBKEY",
   "PROGRAM_ID_REQUIRED", "NAMESPACE_REQUIRED", "NAMESPACE_ADDRESS", "TRANSACTION_TOO_LARGE"}

LEMMA ChecksNamed ==
  ASSUME NEW flow
  PROVE  /\ DOMAIN Checks(flow) \subseteq 1..8
         /\ \A k \in DOMAIN Checks(flow) : Checks(flow)[k] \in CheckNames
<1> DEFINE checks == Checks(flow)
<1>1. CASE flow = "submit"
  <2>1. checks = <<"ASSET_MODE", "SCALE_RANGE", "AMOUNT_U64", "SPLIT", "RECIPIENT_PUBKEY",
                   "PROGRAM_ID_REQUIRED", "NAMESPACE_REQUIRED">>
    BY <1>1 DEF Checks
  <2> QED
    BY <2>1 DEF CheckNames
<1>2. CASE flow = "submitN"
  <2>1. checks = SubmitNChecks
    BY <1>2 DEF Checks
  <2> QED
    BY <2>1 DEF CheckNames, SubmitNChecks
<1>3. CASE flow = "token"
  <2>1. checks = <<"TOKEN_ASSET", "SPLIT", "SCALE_RANGE", "AMOUNT_U64", "RECIPIENT_PUBKEY",
                   "TRANSACTION_TOO_LARGE">>
    BY <1>3 DEF Checks
  <2> QED
    BY <2>1 DEF CheckNames
<1>4. CASE flow \notin {"submit", "submitN", "token"}
  <2>1. checks = <<"ASSET_MODE", "SCALE_RANGE", "AMOUNT_U64", "SPLIT", "RECIPIENT_PUBKEY",
                   "PROGRAM_ID_REQUIRED", "NAMESPACE_ADDRESS", "NAMESPACE_REQUIRED">>
    BY <1>4 DEF Checks
  <2> QED
    BY <2>1 DEF CheckNames
<1> QED
  BY <1>1, <1>2, <1>3, <1>4

\* A few numbers have a smallest one.
LEMMA Smallest ==
  ASSUME NEW S, S \subseteq 1..8, S # {}
  PROVE  Min(S) \in S
<1>1. ASSUME NEW n \in 1..8, n \in S, \A m \in 1..8 : m < n => m \notin S
      PROVE  \E x \in S : \A y \in S : x <= y
  BY <1>1
<1>2. ASSUME \A n \in 1..8 : n \in S => \E m \in 1..8 : m < n /\ m \in S
      PROVE  FALSE
  <2>1. 1 \notin S
    BY <1>2
  <2>2. 2 \notin S
    BY <1>2, <2>1
  <2>3. 3 \notin S
    BY <1>2, <2>1, <2>2
  <2>4. 4 \notin S
    BY <1>2, <2>1, <2>2, <2>3
  <2>5. 5 \notin S
    BY <1>2, <2>1, <2>2, <2>3, <2>4
  <2>6. 6 \notin S
    BY <1>2, <2>1, <2>2, <2>3, <2>4, <2>5
  <2>7. 7 \notin S
    BY <1>2, <2>1, <2>2, <2>3, <2>4, <2>5, <2>6
  <2>8. PICK z \in S : TRUE
    OBVIOUS
  <2> QED
    BY <1>2, <2>1, <2>2, <2>3, <2>4, <2>5, <2>6, <2>7, <2>8
<1>3. \E x \in S : \A y \in S : x <= y
  BY <1>1, <1>2
<1> QED
  BY <1>3 DEF Min

\* What refuses a call is one of the checks.
LEMMA FirstRefusalNamed ==
  ASSUME NEW payer, NEW ask, Refusals(payer, ask) # {}
  PROVE  FirstRefusal(payer, ask) \in CheckNames
<1>1. Refusals(payer, ask) \subseteq DOMAIN Checks(ask.flow)
  BY DEF Refusals
<1>2. Min(Refusals(payer, ask)) \in Refusals(payer, ask)
  BY <1>1, Smallest, ChecksNamed
<1> QED
  BY <1>1, <1>2, ChecksNamed DEF FirstRefusal

\* A token settlement is given the program and a namespace: they are not options there.
TokenNamed(ask) ==
  ask.flow = "token" => ask.options.program /\ ask.options.namespace # None

\* What a call that passes its checks is known to ask: a namespace goes with the
\* program and the program with a namespace, and the namespace that is opened is the
\* one that is settled in (client.ts:526-533, 575-587, 857-889).
LEMMA Accepted ==
  ASSUME NEW payer, NEW ask, ask.flow \in Flows, TokenNamed(ask), Refusals(payer, ask) = {}
  PROVE  /\ ask.options.namespace # None <=> ask.options.program
         /\ Opens(ask) /\ ask.options.program =>
              ask.options.namespace = Derived(payer, ask.options)
<1> DEFINE Passed(check) == ~Fails(check, payer, ask.options, ask.request)
<1>1. \A k \in DOMAIN Checks(ask.flow) : Passed(Checks(ask.flow)[k])
  BY DEF Refusals
<1>2. CASE ask.flow = "token"
  BY <1>2 DEF TokenNamed, Opens
<1>3. CASE ask.flow = "submit"
  <2>1. Checks(ask.flow) =
          <<"ASSET_MODE", "SCALE_RANGE", "AMOUNT_U64", "SPLIT", "RECIPIENT_PUBKEY",
            "PROGRAM_ID_REQUIRED", "NAMESPACE_REQUIRED">>
    BY <1>3 DEF Checks
  <2>2. Passed("PROGRAM_ID_REQUIRED") /\ Passed("NAMESPACE_REQUIRED")
    <3> HIDE DEF Passed
    <3> QED
      BY <1>1, <2>1
  <2> QED
    BY <1>3, <2>2 DEF Fails, NamesProgramOptions, Opens
<1>4. CASE ask.flow = "submitN"
  <2>1. Checks(ask.flow) = SubmitNChecks
    BY <1>4 DEF Checks
  <2>2. Passed("PROGRAM_ID_REQUIRED") /\ Passed("NAMESPACE_REQUIRED")
    <3> HIDE DEF Passed
    <3> QED
      BY <1>1, <2>1 DEF SubmitNChecks
  <2> QED
    BY <1>4, <2>2 DEF Fails, NamesProgramOptions, Opens
<1>5. CASE ask.flow \in {"built", "wallet"}
  <2>1. Checks(ask.flow) =
          <<"ASSET_MODE", "SCALE_RANGE", "AMOUNT_U64", "SPLIT", "RECIPIENT_PUBKEY",
            "PROGRAM_ID_REQUIRED", "NAMESPACE_ADDRESS", "NAMESPACE_REQUIRED">>
    BY <1>5 DEF Checks
  <2>2. Passed("PROGRAM_ID_REQUIRED") /\ Passed("NAMESPACE_ADDRESS") /\ Passed("NAMESPACE_REQUIRED")
    <3> HIDE DEF Passed
    <3> QED
      BY <1>1, <2>1
  <2>3. ~Elsewhere(payer, ask.options)
    BY <2>2 DEF Fails
  <2> QED
    BY <1>5, <2>2, <2>3 DEF Fails, NamesProgramOptions, Opens, Elsewhere
<1> QED
  BY <1>2, <1>3, <1>4, <1>5 DEF Flows

-----------------------------------------------------------------------------
(* The transaction                                                         *)

\* The transaction of a call.
Carries(tx, payer, ask) ==
  tx.payer = payer /\ tx.instructions = Instructions(payer, ask)

LEMMA TransfersTyped ==
  ASSUME NEW request \in Requests
  PROVE  /\ Transfers(request) \in Seq({Transfers(request)[k] : k \in DOMAIN Transfers(request)})
         /\ \A k \in DOMAIN Transfers(request) : Transfers(request)[k].op = "transfer"
<1> DEFINE amounts == Payouts(Scaled(request), Bps(request))
           paid == {k \in DOMAIN request.shares : amounts[k] > 0}
           Paid(n) == CHOOSE k \in paid : Cardinality({j \in paid : j <= k}) = n
<1>1. Transfers(request) =
        [n \in 1..Cardinality(paid) |->
           [op |-> "transfer", to |-> request.shares[Paid(n)].to, amount |-> amounts[Paid(n)]]]
  BY DEF Transfers
<1>2. Cardinality(paid) \in Nat
  <2>1. request.shares \in Seq([to : Keys, bps : Nat])
    BY DEF Requests
  <2>2. DOMAIN request.shares = 1..Len(request.shares) /\ Len(request.shares) \in Nat
    BY <2>1
  <2>3. IsFiniteSet(1..Len(request.shares))
    BY <2>2, FS_Interval
  <2>4. paid \subseteq 1..Len(request.shares)
    BY <2>2
  <2>5. IsFiniteSet(paid)
    BY <2>3, <2>4, FS_Subset
  <2> QED
    BY <2>5, FS_CardinalityType
<1> HIDE DEF paid, Paid, amounts
<1> QED
  BY <1>1, <1>2

\* Plain mode sends a memo and transfers, nothing else.
LEMMA PlainInstructions ==
  ASSUME NEW payer, NEW ask \in Asks, ~ask.options.program
  PROVE  \A k \in DOMAIN Instructions(payer, ask) :
           Instructions(payer, ask)[k].op \in {"memo", "transfer"}
<1> DEFINE transfers == Transfers(ask.request)
<1>1. ask.request \in Requests
  BY DEF Asks
<1>2. Instructions(payer, ask) = <<Memo(ask.request)>> \o transfers
  BY DEF Instructions
<1>3. Memo(ask.request).op = "memo"
  BY DEF Memo
<1>4. transfers \in Seq({transfers[k] : k \in DOMAIN transfers})
  BY <1>1, TransfersTyped
<1>5. \A k \in DOMAIN transfers : transfers[k].op = "transfer"
  BY <1>1, TransfersTyped
<1> HIDE DEF transfers
<1> QED
  BY <1>2, <1>3, <1>4, <1>5

\* Program mode settles once, last; it opens a namespace first, or not at all.
LEMMA ProgramInstructions ==
  ASSUME NEW payer, NEW ask, ask.options.program
  PROVE  LET instructions == Instructions(payer, ask)
             last == Len(instructions)
         IN /\ last \in {2, 3} /\ DOMAIN instructions = 1..last
            /\ instructions[last] = Settle(payer, ask)
            /\ Opens(ask) => last = 3 /\ instructions[1] = Open(payer, ask)
            /\ \A k \in 1..last :
                 /\ instructions[k].op = "settle" <=> k = last
                 /\ instructions[k].op = "open" <=> Opens(ask) /\ k = 1
                 /\ instructions[k].op \in {"open", "memo", "accounts", "settle"}
<1> DEFINE instructions == Instructions(payer, ask)
<1>1. /\ Open(payer, ask).op = "open" /\ Memo(ask.request).op = "memo"
      /\ TokenAccounts(ask).op = "accounts" /\ Settle(payer, ask).op = "settle"
  BY DEF Open, Memo, TokenAccounts, Settle
<1>2. CASE Opens(ask)
  <2>1. instructions = <<Open(payer, ask), Memo(ask.request), Settle(payer, ask)>>
    BY <1>2 DEF Instructions
  <2> QED
    BY <1>1, <1>2, <2>1
<1>3. CASE ~Opens(ask) /\ ask.flow = "token" /\ ask.options.accounts
  <2>1. instructions = <<Memo(ask.request), TokenAccounts(ask), Settle(payer, ask)>>
    BY <1>3 DEF Instructions
  <2> QED
    BY <1>1, <1>3, <2>1
<1>4. CASE ~Opens(ask) /\ ~(ask.flow = "token" /\ ask.options.accounts)
  <2>1. instructions = <<Memo(ask.request), Settle(payer, ask)>>
    BY <1>4 DEF Instructions
  <2> QED
    BY <1>1, <1>4, <2>1
<1> QED
  BY <1>2, <1>3, <1>4

\* Who must sign.
LEMMA RequiredSigners ==
  ASSUME NEW tx, NEW payer, NEW ask \in Asks, Carries(tx, payer, ask)
  PROVE  Required(tx) = IF ask.options.program THEN {payer, AuthorityOf(payer, ask.options)}
                        ELSE {payer}
<1>1. CASE ask.options.program
  <2> DEFINE last == Len(tx.instructions)
  <2>1. /\ DOMAIN tx.instructions = 1..last /\ last \in {2, 3}
        /\ tx.instructions[last] = Settle(payer, ask)
        /\ \A k \in 1..last : tx.instructions[k].op = "settle" <=> k = last
    BY <1>1, ProgramInstructions DEF Carries
  <2> HIDE DEF last
  <2>2. {k \in DOMAIN tx.instructions : tx.instructions[k].op = "settle"} = {last}
    BY <2>1
  <2>3. Settle(payer, ask).authority = AuthorityOf(payer, ask.options)
    BY DEF Settle
  <2>4. Required(tx) = {payer} \cup {tx.instructions[k].authority : k \in {last}}
    BY <2>2 DEF Required, Carries
  <2> QED
    BY <1>1, <2>1, <2>3, <2>4
<1>2. CASE ~ask.options.program
  <2>1. {k \in DOMAIN tx.instructions : tx.instructions[k].op = "settle"} = {}
    BY <1>2, PlainInstructions DEF Carries
  <2> QED
    BY <1>2, <2>1 DEF Required, Carries
<1> QED
  BY <1>1, <1>2

\* The submit functions sign for exactly the keys their transaction needs, and so does
\* the demo's wallet, which is its own authority (client.ts:891-905, App.tsx:160-180).
LEMMA RightSigners ==
  ASSUME NEW tx, NEW payer, NEW ask \in Asks, Carries(tx, payer, ask),
         ask.flow = "wallet" => ask.options.authority = None
  PROVE  Signers(payer, ask, tx) = Required(tx)
<1>1. ask.options.authority = None => AuthorityOf(payer, ask.options) = payer
  BY DEF AuthorityOf
<1>2. ask.options.authority # None => AuthorityOf(payer, ask.options) = ask.options.authority
  BY DEF AuthorityOf
<1> QED
  BY <1>1, <1>2, RequiredSigners DEF Signers

-----------------------------------------------------------------------------
(* The cluster                                                             *)

\* Where a call settles: its namespace and its event.
Place(ask) == <<ask.options.namespace, ask.request.event>>

\* The bank a program-mode transaction meets, instruction after instruction: nothing of
\* its own is settled before its settlement, and its namespace is open from the first.
Meets(node, tx, payer, ask) ==
  LET last == Len(tx.instructions)
  IN /\ \A k \in 1..last : BankAt(node, tx, k).records = node.records
     /\ BankAt(node, tx, last + 1).records = node.records \cup {Place(ask)}
     /\ \A n \in Namespaces :
          /\ BankAt(node, tx, 1).authority[n] = Latest(node, n)
          /\ \A k \in {last, last + 1} :
               BankAt(node, tx, k).authority[n] =
                 IF Opens(ask) /\ n = Derived(payer, ask.options)
                 THEN AuthorityOf(payer, ask.options) ELSE Latest(node, n)

LEMMA ProgramBank ==
  ASSUME NEW node, NEW tx, NEW payer, NEW ask, Carries(tx, payer, ask), ask.options.program
  PROVE  Meets(node, tx, payer, ask)
<1> DEFINE is == tx.instructions
           last == Len(tx.instructions)
<1>1. /\ last \in {2, 3} /\ DOMAIN is = 1..last
      /\ is[last] = Settle(payer, ask)
      /\ Opens(ask) => last = 3 /\ is[1] = Open(payer, ask)
      /\ \A k \in 1..last : /\ is[k].op = "settle" <=> k = last
                            /\ is[k].op = "open" <=> Opens(ask) /\ k = 1
  BY ProgramInstructions DEF Carries
<1>2. /\ Settle(payer, ask).namespace = ask.options.namespace
      /\ Settle(payer, ask).event = ask.request.event
  BY DEF Settle, Seed
<1>3. /\ Open(payer, ask).namespace = Derived(payer, ask.options)
      /\ Open(payer, ask).authority = AuthorityOf(payer, ask.options)
  BY DEF Open
<1> HIDE DEF is, last
<1>4. ASSUME NEW k \in 1..last
      PROVE  Earlier(tx, k, "settle") = {}
  <2>1. {j \in DOMAIN is : j < k /\ is[j].op = "settle"} = {}
    BY <1>1
  <2> QED
    BY <2>1 DEF Earlier, is
<1>5. Earlier(tx, last + 1, "settle") = {Settle(payer, ask)}
  <2>1. {j \in DOMAIN is : j < last + 1 /\ is[j].op = "settle"} = {last}
    BY <1>1
  <2>2. Earlier(tx, last + 1, "settle") = {is[j] : j \in {last}}
    BY <2>1 DEF Earlier, is
  <2> QED
    BY <1>1, <2>2
<1>6. Earlier(tx, 1, "open") = {}
  <2>1. {j \in DOMAIN is : j < 1 /\ is[j].op = "open"} = {}
    BY <1>1
  <2> QED
    BY <2>1 DEF Earlier, is
<1>7. ASSUME NEW k \in {last, last + 1}
      PROVE  Earlier(tx, k, "open") = IF Opens(ask) THEN {Open(payer, ask)} ELSE {}
  <2>1. {j \in DOMAIN is : j < k /\ is[j].op = "open"} = IF Opens(ask) THEN {1} ELSE {}
    BY <1>1
  <2>2. Earlier(tx, k, "open") = {is[j] : j \in IF Opens(ask) THEN {1} ELSE {}}
    BY <2>1 DEF Earlier, is
  <2> QED
    BY <1>1, <2>2
<1>8. ASSUME NEW k \in 1..last
      PROVE  BankAt(node, tx, k).records = node.records
  BY <1>4 DEF BankAt
<1>9. BankAt(node, tx, last + 1).records = node.records \cup {Place(ask)}
  BY <1>2, <1>5 DEF BankAt, Place
<1>10. ASSUME NEW n \in Namespaces
       PROVE  BankAt(node, tx, 1).authority[n] = Latest(node, n)
  BY <1>6 DEF BankAt
<1>11. ASSUME NEW n \in Namespaces, NEW k \in {last, last + 1}
       PROVE  BankAt(node, tx, k).authority[n] =
                IF Opens(ask) /\ n = Derived(payer, ask.options)
                THEN AuthorityOf(payer, ask.options) ELSE Latest(node, n)
  <2> DEFINE opened == Earlier(tx, k, "open")
  <2>1. BankAt(node, tx, k).authority[n] =
          IF \E i \in opened : i.namespace = n
          THEN (CHOOSE i \in opened : i.namespace = n).authority ELSE Latest(node, n)
    BY DEF BankAt
  <2>2. opened = IF Opens(ask) THEN {Open(payer, ask)} ELSE {}
    BY <1>7
  <2> HIDE DEF opened
  <2>3. CASE Opens(ask) /\ n = Derived(payer, ask.options)
    <3>1. (CHOOSE i \in opened : i.namespace = n) = Open(payer, ask)
      BY <1>3, <2>2, <2>3
    <3> QED
      BY <1>3, <2>1, <2>2, <2>3, <3>1
  <2>4. CASE ~(Opens(ask) /\ n = Derived(payer, ask.options))
    BY <1>3, <2>1, <2>2, <2>4
  <2> QED
    BY <2>3, <2>4
<1> QED
  BY <1>8, <1>9, <1>10, <1>11 DEF Meets, last

\* Plain transfers never fail, and touch no namespace, no record and no account.
LEMMA PlainLands ==
  ASSUME NEW node, NEW tx, NEW payer, NEW ask \in Asks, Carries(tx, payer, ask), ~ask.options.program
  PROVE  /\ Outcome(node, tx) = "ok"
         /\ \A k : /\ BankAt(node, tx, k).records = node.records
                   /\ \A n \in Namespaces : BankAt(node, tx, k).authority[n] = Latest(node, n)
<1>1. \A k \in DOMAIN tx.instructions : tx.instructions[k].op \in {"memo", "transfer"}
  BY PlainInstructions DEF Carries
<1>2. Failing(node, tx) = {}
  BY <1>1 DEF Failing, Verdict
<1>3. ASSUME NEW k, NEW op \in {"open", "settle"}
      PROVE  Earlier(tx, k, op) = {}
  BY <1>1 DEF Earlier
<1> QED
  BY <1>2, <1>3 DEF Outcome, BankAt

\* What a program-mode transaction comes to, and why.
LEMMA ProgramOutcome ==
  ASSUME NEW node, NEW tx, NEW payer, NEW ask, Carries(tx, payer, ask), ask.options.program,
         ask.options.namespace \in Namespaces,
         Opens(ask) => ask.options.namespace = Derived(payer, ask.options)
  PROVE  /\ Outcome(node, tx) \in {"ok", "OPENED", "AUTHORITY", "ACCOUNT", "SETTLED", "FROZEN"}
         /\ Outcome(node, tx) = "ok" => Place(ask) \notin node.records
         /\ Outcome(node, tx) = "SETTLED" => Place(ask) \in node.records
         /\ Outcome(node, tx) = "ACCOUNT" => ask.flow = "token"
         /\ Outcome(node, tx) = "OPENED" => Opens(ask) /\ Latest(node, ask.options.namespace) # None
         /\ Outcome(node, tx) = "AUTHORITY" =>
              ~Opens(ask) /\ Latest(node, ask.options.namespace) # AuthorityOf(payer, ask.options)
<1> DEFINE is == tx.instructions
           last == Len(tx.instructions)
<1>1. /\ last \in {2, 3} /\ DOMAIN is = 1..last
      /\ is[last] = Settle(payer, ask)
      /\ Opens(ask) => is[1] = Open(payer, ask)
      /\ \A k \in 1..last : /\ is[k].op = "settle" <=> k = last
                            /\ is[k].op = "open" <=> Opens(ask) /\ k = 1
                            /\ is[k].op \in {"open", "memo", "accounts", "settle"}
  BY ProgramInstructions DEF Carries
<1>2. /\ BankAt(node, tx, last).records = node.records
      /\ BankAt(node, tx, 1).authority[ask.options.namespace] = Latest(node, ask.options.namespace)
      /\ BankAt(node, tx, last).authority[ask.options.namespace] =
           IF Opens(ask) THEN AuthorityOf(payer, ask.options) ELSE Latest(node, ask.options.namespace)
  <2> HIDE DEF is, last
  <2>1. last \in 1..last
    BY <1>1
  <2>2. Meets(node, tx, payer, ask)
    BY ProgramBank
  <2> HIDE DEF last
  <2> QED
    BY <2>1, <2>2 DEF Meets, last
<1>3. /\ Settle(payer, ask).op = "settle"
      /\ Settle(payer, ask).namespace = ask.options.namespace
      /\ Settle(payer, ask).event = ask.request.event
      /\ Settle(payer, ask).authority = AuthorityOf(payer, ask.options)
      /\ Settle(payer, ask).token <=> ask.flow = "token"
  BY DEF Settle, Seed
<1>4. /\ Open(payer, ask).op = "open"
      /\ Open(payer, ask).namespace = Derived(payer, ask.options)
  BY DEF Open
<1> DEFINE Answer(k) == Verdict(BankAt(node, tx, k), is[k])
<1>5. ASSUME NEW k \in 1..last, is[k].op \in {"memo", "accounts"}
      PROVE  Answer(k) = "ok"
  BY <1>5 DEF Verdict
<1>6. ASSUME NEW k \in 1..last, is[k].op = "open"
      PROVE  /\ Answer(k) \in {"ok", "OPENED"}
             /\ Answer(k) = "OPENED" => Opens(ask) /\ Latest(node, ask.options.namespace) # None
  <2>1. k = 1 /\ Opens(ask) /\ is[1] = Open(payer, ask)
    BY <1>1, <1>6
  <2>2. Answer(1) = IF BankAt(node, tx, 1).authority[ask.options.namespace] # None THEN "OPENED" ELSE "ok"
    BY <1>4, <2>1 DEF Verdict
  <2> QED
    BY <1>2, <2>1, <2>2
<1>7. Answer(last) = SettleVerdict(BankAt(node, tx, last), Settle(payer, ask))
  BY <1>1, <1>3 DEF Verdict
<1>8. /\ Answer(last) \in {"ok", "AUTHORITY", "ACCOUNT", "SETTLED", "FROZEN"}
      /\ Answer(last) = "ok" => Place(ask) \notin node.records
      /\ Answer(last) = "SETTLED" => Place(ask) \in node.records
      /\ Answer(last) = "ACCOUNT" => ask.flow = "token"
      /\ Answer(last) = "AUTHORITY" =>
           ~Opens(ask) /\ Latest(node, ask.options.namespace) # AuthorityOf(payer, ask.options)
  <2> HIDE DEF Answer, last
  <2> QED
    BY <1>2, <1>3, <1>7 DEF SettleVerdict, Place
<1>9. /\ Failing(node, tx) = {k \in 1..last : Answer(k) # "ok"}
      /\ Outcome(node, tx) = IF Failing(node, tx) = {} THEN "ok" ELSE Answer(Min(Failing(node, tx)))
  BY <1>1 DEF Failing, Outcome
<1> HIDE DEF Answer, is, last
<1>10. CASE Failing(node, tx) = {}
  <2>1. Outcome(node, tx) = "ok" /\ Answer(last) = "ok"
    BY <1>1, <1>9, <1>10
  <2> QED
    BY <1>8, <2>1
<1>11. CASE Failing(node, tx) # {}
  <2>1. Failing(node, tx) \subseteq 1..8
    BY <1>1, <1>9
  <2>2. PICK k \in 1..last : Outcome(node, tx) = Answer(k) /\ Answer(k) # "ok"
    BY <1>9, <1>11, <2>1, Smallest
  <2>3. CASE k = last
    BY <1>8, <2>2, <2>3
  <2>4. CASE k # last
    <3>1. is[k].op = "open"
      BY <1>1, <1>5, <2>2, <2>4
    <3> QED
      BY <1>6, <2>2, <3>1
  <2> QED
    BY <2>3, <2>4
<1> QED
  BY <1>10, <1>11

-----------------------------------------------------------------------------
(* The inductive invariant                                                 *)

\* A request that passed its checks for a wallet that pays.
Sound(payer, ask) ==
  payer \in Wallets /\ ask \in Asks /\ TokenNamed(ask) /\ Refusals(payer, ask) = {}

Outcomes == {"ok", "OPENED", "AUTHORITY", "ACCOUNT", "SETTLED", "FROZEN"}

Results ==
  CheckNames \cup Outcomes \cup {"none", "unknown", "NOT_OURS", "FUNDS", "SIGNATURE", "PROCESSED"}

Calls ==
  [phase : {"returned", "read", "send", "confirm"}, number : Nat, ask : Asks \cup {NoAsk},
   view : Nat, simulated : Nat, tx : {s.tx : s \in sent} \cup {<<>>}, result : Results]

TypeOK ==
  /\ asks \in [Callers -> SUBSET Asks]
  /\ \A c \in Callers : \A ask \in asks[c] : TokenNamed(ask) /\ ask.request.event \notin ClickEvents
  /\ history \in [Namespaces -> Seq(Wallets \cup {None})]
  /\ \A n \in Namespaces : history[n] # <<>>
  /\ call \in [Callers -> Calls]
  /\ \A c \in Callers : /\ call[c].view \in DOMAIN history[DemoNamespace(c)]
                         /\ call[c].simulated \in {0} \cup DOMAIN history[DemoNamespace(c)]

\* What a node that lags shows was so once: records and blocks are never taken back, and
\* a namespace's authorities are the first of those it has now.
Past(node) ==
  /\ node.records \subseteq records /\ node.landed \subseteq landed
  /\ \A n \in Namespaces :
       /\ node.history[n] \in Seq(Wallets \cup {None}) /\ node.history[n] # <<>>
       /\ Len(node.history[n]) <= Len(history[n])
       /\ \A k \in 1..Len(node.history[n]) : node.history[n][k] = history[n][k]

NodesArePast == \A node \in behind : Past(node)

\* A namespace that was opened stays open.
StaysOpen == \A n \in Namespaces : \A k \in DOMAIN history[n] : k > 1 => history[n][k] # None

\* A transaction that is sent is the one its request builds, and passed the checks.
SentAsAsked ==
  \A s \in sent : /\ Sound(s.tx.payer, s.ask) /\ Carries(s.tx, s.tx.payer, s.ask)
                  /\ s.tx = [payer |-> s.tx.payer, instructions |-> s.tx.instructions,
                             blockhash |-> s.tx.blockhash]

LandedAsSent ==
  \A l \in landed : /\ l = [tx |-> l.tx, outcome |-> l.outcome] /\ l.outcome \in Outcomes
                    /\ \E s \in sent : s.tx = l.tx
                    /\ \A m \in landed : m.tx = l.tx => m = l

\* The records are those of the settlements that were paid, and of no others.
Recorded ==
  \A s \in sent : HasPaid(s.tx) /\ s.ask.options.program => Place(s.ask) \in records

PaidFor ==
  \A r \in records :
    \E s \in sent : HasPaid(s.tx) /\ s.ask.options.program /\ Place(s.ask) = r

\* A duplicate is one of an event that has a record.
DuplicatesRecorded ==
  \A s \in sent : [tx |-> s.tx, outcome |-> "SETTLED"] \in landed =>
    s.ask.options.program /\ Place(s.ask) \in records

\* What a call is about while it runs; a click's event is its own.
Underway(c) ==
  LET ask == call[c].ask
      view == call[c].view
      n == DemoNamespace(c)
  IN /\ call[c].phase # "returned" =>
          /\ ask \in Asks
          /\ IF ask.flow = "wallet" THEN ask.request.event = <<c, call[c].number>>
             ELSE ask.request.event \notin ClickEvents
     /\ call[c].phase = "read" => ask.flow = "wallet"
     /\ call[c].phase \in {"read", "send"} => call[c].tx = <<>>
     /\ call[c].phase \in {"send", "confirm"} =>
          /\ Sound(Payer[c], ask)
          /\ ask.flow = "wallet" =>
               /\ view \in DOMAIN history[n] /\ history[n][view] \in {None, Payer[c]}
               /\ ask.options = DemoOptions(c, history[n][view])
     /\ call[c].phase = "confirm" => Carries(call[c].tx, Payer[c], ask)

\* The event of a click is sent by that click alone.
ClickedOnce ==
  \A s \in sent, c \in Callers, k \in Nat :
    s.ask.request.event = <<c, k>> =>
      /\ k <= call[c].number
      /\ k = call[c].number => /\ call[c].phase \in {"returned", "confirm"}
                               /\ call[c].phase = "confirm" => s.tx = call[c].tx

\* What FailuresExplained says of one result.
Explained(c, ask, view, simulated, tx, result) ==
  LET n == DemoNamespace(c)
      later == (view + 1)..Len(history[n])
  IN /\ ask.flow = "wallet" =>
          /\ result \notin {"SETTLED", "SIGNATURE", "ACCOUNT"}
          /\ result = "OPENED" => history[n][view] = None /\ later # {}
          /\ result = "AUTHORITY" =>
               \E k \in (later \cup {simulated}) \ {0} : history[n][k] # Payer[c]
     /\ ask.flow \in {"submit", "submitN", "token"} => result # "SIGNATURE"
     /\ result = "SETTLED" =>
          \E s \in sent : /\ HasPaid(s.tx) /\ s.tx # tx
                          /\ s.ask.request.event = ask.request.event
                          /\ s.ask.options.namespace = ask.options.namespace

\* What a waiting caller is going to hear.
AnswersExplained ==
  \A c \in Callers :
    call[c].phase = "confirm" =>
      \A l \in landed : l.tx = call[c].tx =>
        Explained(c, call[c].ask, call[c].view, call[c].simulated, call[c].tx, l.outcome)

IInv ==
  /\ TypeOK /\ NodesArePast /\ StaysOpen /\ SentAsAsked /\ LandedAsSent
  /\ Recorded /\ PaidFor /\ DuplicatesRecorded /\ PaidOnce /\ NoEmptyNamespace
  /\ \A c \in Callers : Underway(c)
  /\ ClickedOnce /\ AnswersExplained /\ FailuresExplained

-----------------------------------------------------------------------------
(* Payments                                                                *)

\* The fold of the model is the sum of ArithmeticProofs.
LEMMA SumOverIsSum ==
  ASSUME NEW f
  PROVE  SumOver(f) = SumOf(f)
BY Zenon DEF SumOver, FoldFunction, FoldFunctionOnSet, MapThenFoldSet, SumOf, Sums, AddsUp, First

\* The shares of a request that passed its checks can be split, each to the wallet it
\* names: the checks are those of the split, on the scaled total (client.ts:504-512).
LEMMA SplitAccepted ==
  ASSUME NEW payer, NEW ask, Sound(payer, ask)
  PROVE  /\ Scaled(ask.request) \in Nat /\ Bps(ask.request) \in Seq(Nat)
         /\ DOMAIN Recipients(ask.request) = 1..Len(Bps(ask.request))
         /\ DOMAIN ask.request.shares = 1..Len(Bps(ask.request))
         /\ SplitVerdict(Scaled(ask.request), Bps(ask.request)) = "ok"
<1> DEFINE Passed(check) == ~Fails(check, payer, ask.options, ask.request)
<1>1. PICK request, bps, n :
        /\ request = ask.request /\ bps = Bps(ask.request) /\ n = Len(ask.request.shares)
  OBVIOUS
<1>2. request \in Requests /\ ask.flow \in Flows
  BY <1>1 DEF Sound, Asks
<1>3. request.amount \in Nat /\ request.scale \in Nat
      /\ request.shares \in Seq([to : Keys, bps : Nat])
  BY <1>2 DEF Requests
<1>4. n \in Nat /\ DOMAIN request.shares = 1..n
  BY <1>1, <1>3
<1>5. \A k \in 1..n : request.shares[k].bps \in Nat
  <2>1. PICK shares : shares = request.shares
    OBVIOUS
  <2>2. PICK T : T = [to : Keys, bps : Nat]
    OBVIOUS
  <2>3. shares \in Seq(T) /\ n = Len(shares)
    BY <1>1, <1>3, <2>1, <2>2
  <2>4. \A k \in 1..n : shares[k] \in T
    BY <1>4, <2>3
  <2>5. \A share \in T : share.bps \in Nat
    BY <2>2
  <2> QED
    BY <2>1, <2>4, <2>5
<1>6. bps \in [1..n -> Nat]
  BY <1>1, <1>4, <1>5 DEF Bps
<1>7. bps \in Seq(Nat) /\ Len(bps) = n
  BY <1>4, <1>6
<1>8. DOMAIN Recipients(ask.request) = 1..n
  BY <1>1, <1>4 DEF Recipients
<1>9. \A k \in DOMAIN Checks(ask.flow) : Passed(Checks(ask.flow)[k])
  BY DEF Refusals, Sound
<1>10. Passed("SCALE_RANGE") /\ Passed("SPLIT")
  <2> HIDE DEF Passed
  <2>1. CASE ask.flow = "token"
    <3>1. Checks(ask.flow) =
            <<"TOKEN_ASSET", "SPLIT", "SCALE_RANGE", "AMOUNT_U64", "RECIPIENT_PUBKEY",
              "TRANSACTION_TOO_LARGE">>
      BY <2>1 DEF Checks
    <3> QED
      BY <1>9, <3>1
  <2>2. CASE ask.flow = "submit"
    <3>1. Checks(ask.flow) =
            <<"ASSET_MODE", "SCALE_RANGE", "AMOUNT_U64", "SPLIT", "RECIPIENT_PUBKEY",
              "PROGRAM_ID_REQUIRED", "NAMESPACE_REQUIRED">>
      BY <2>2 DEF Checks
    <3> QED
      BY <1>9, <3>1
  <2>3. CASE ask.flow = "submitN"
    <3>1. Checks(ask.flow) = SubmitNChecks
      BY <2>3 DEF Checks
    <3> QED
      BY <1>9, <3>1 DEF SubmitNChecks
  <2>4. CASE ask.flow \in {"built", "wallet"}
    <3>1. Checks(ask.flow) =
            <<"ASSET_MODE", "SCALE_RANGE", "AMOUNT_U64", "SPLIT", "RECIPIENT_PUBKEY",
              "PROGRAM_ID_REQUIRED", "NAMESPACE_ADDRESS", "NAMESPACE_REQUIRED">>
      BY <2>4 DEF Checks
    <3> QED
      BY <1>9, <3>1
  <2> QED
    BY <1>2, <2>1, <2>2, <2>3, <2>4 DEF Flows
<1>11. request.scale # 0 /\ SplitVerdict(request.amount, bps) = "ok"
  BY <1>1, <1>10 DEF Fails
<1>12. request.amount # 0
  BY <1>11 DEF SplitVerdict
<1>13. PICK scaled : scaled = Scaled(request)
  OBVIOUS
<1>14. scaled \in Nat /\ scaled # 0
  <2>1. PICK a \in Nat, s \in Nat : a = request.amount /\ s = request.scale
    BY <1>3
  <2>2. a # 0 /\ s # 0 => a * s \in Nat /\ a * s # 0
    OBVIOUS
  <2> QED
    BY <1>11, <1>12, <1>13, <2>1, <2>2 DEF Scaled
<1>15. SplitVerdict(scaled, bps) = "ok"
  BY <1>11, <1>14 DEF SplitVerdict
<1> QED
  BY <1>1, <1>4, <1>7, <1>8, <1>13, <1>14, <1>15

\* What wallet w gets of the payouts p, slot by slot.
ToWallet(p, to, w) == [k \in 1..8 |-> IF k \in DOMAIN to /\ to[k] = w THEN p[k] ELSE 0]

LEMMA PaidToIsTotal ==
  ASSUME NEW amount \in Nat, NEW bps \in Seq(Nat), SplitVerdict(amount, bps) = "ok",
         NEW to, DOMAIN to = 1..Len(bps), NEW w
  PROVE  /\ ToWallet(Payouts(amount, bps), to, w) \in [1..8 -> Int]
         /\ PaidTo(amount, bps, to, w) = Total(ToWallet(Payouts(amount, bps), to, w))
<1>1. PICK p, n : p = Payouts(amount, bps) /\ n = Len(bps)
  OBVIOUS
<1>2. n \in 1..8 /\ p \in [1..8 -> Nat]
  BY <1>1, PayoutsWellFormed
<1>3. PICK K : K = {k \in DOMAIN to : to[k] = w}
  OBVIOUS
<1>4. K \in SUBSET (1..8) /\ \A k \in 1..8 : k \in K <=> k \in DOMAIN to /\ to[k] = w
  <2>1. DOMAIN to = 1..n
    BY <1>1
  <2>2. \A k \in 1..n : k \in 1..8
    BY <1>2
  <2> QED
    BY <1>3, <2>1, <2>2
<1>5. PICK f : f = [k \in K |-> p[k]]
  OBVIOUS
<1>6. \A k \in 1..8 : p[k] \in Int
  BY <1>2
<1>7. f \in [K -> Int]
  BY <1>4, <1>5, <1>6
<1>8. PICK a : a = ToWallet(p, to, w)
  OBVIOUS
<1>9. a \in [1..8 -> Int] /\ \A k \in 1..8 : a[k] = IF k \in K THEN p[k] ELSE 0
  BY <1>4, <1>6, <1>8 DEF ToWallet
<1>10. \A k \in 1..8 : a[k] = IF k \in K THEN f[k] ELSE 0
  BY <1>5, <1>9
<1>11. SumOf(f) = Total(a)
  <2>1. K \in SUBSET (1..8) /\ f \in [K -> Int] /\ a \in [1..8 -> Int]
    BY <1>4, <1>7, <1>9
  <2> QED
    BY <1>10, <2>1, SumOfSlots
<1>12. PaidTo(amount, bps, to, w) = SumOver(f)
  BY <1>1, <1>3, <1>5, Zenon DEF PaidTo
<1> QED
  BY <1>1, <1>8, <1>9, <1>11, <1>12, SumOverIsSum

\* The instructions of a transaction that pay, and what they pay wallet w.
Paying(tx) ==
  {k \in DOMAIN tx.instructions : tx.instructions[k].op \in {"transfer", "settle"}}

Received(tx, w) == [k \in Paying(tx) |-> ReceivedFrom(tx.instructions[k], w)]

\* The program pays in one instruction, the split of the request.
LEMMA ProgramPays ==
  ASSUME NEW tx, NEW payer, NEW ask, NEW w,
         Sound(payer, ask), Carries(tx, payer, ask), ask.options.program
  PROVE  SumOver(Received(tx, w)) = Owed(ask.request, w)
<1>1. PICK last : last = Len(tx.instructions)
  OBVIOUS
<1>2. /\ last \in 2..3 /\ DOMAIN tx.instructions = 1..last
      /\ tx.instructions[last] = Settle(payer, ask)
      /\ \A k \in 1..last : /\ tx.instructions[k].op = "settle" <=> k = last
                            /\ tx.instructions[k].op \in {"open", "memo", "accounts", "settle"}
  <2>1. PICK all, pay : all = Instructions(payer, ask) /\ pay = Settle(payer, ask)
    OBVIOUS
  <2>2. tx.instructions = all
    BY <2>1 DEF Carries
  <2>3. PICK n : n = Len(all)
    OBVIOUS
  <2>4. /\ n \in {2, 3} /\ DOMAIN all = 1..n /\ all[n] = pay
        /\ \A k \in 1..n : /\ all[k].op = "settle" <=> k = n
                           /\ all[k].op \in {"open", "memo", "accounts", "settle"}
    <3>1. /\ DOMAIN Instructions(payer, ask) = 1..Len(Instructions(payer, ask))
          /\ Len(Instructions(payer, ask)) \in {2, 3}
          /\ Instructions(payer, ask)[Len(Instructions(payer, ask))] = Settle(payer, ask)
      BY ProgramInstructions
    <3>2. \A k \in 1..Len(Instructions(payer, ask)) :
            /\ Instructions(payer, ask)[k].op = "settle" <=> k = Len(Instructions(payer, ask))
            /\ Instructions(payer, ask)[k].op \in {"open", "memo", "accounts", "settle"}
      BY ProgramInstructions
    <3> QED
      BY <2>1, <2>3, <3>1, <3>2
  <2>5. n \in 2..3 /\ last = n
    BY <1>1, <2>2, <2>3, <2>4
  <2> QED
    BY <2>1, <2>2, <2>4, <2>5, Zenon
<1>3. Paying(tx) = {last}
  BY <1>2 DEF Paying
<1>4. PICK i, f, v : /\ i = Settle(payer, ask) /\ f = Received(tx, w)
                     /\ v = Owed(ask.request, w)
  OBVIOUS
<1>5. /\ i.op = "settle" /\ i.amount = Scaled(ask.request) /\ i.bps = Bps(ask.request)
      /\ i.to = Recipients(ask.request)
  BY <1>4 DEF Settle
<1>6. ReceivedFrom(i, w) = v
  BY <1>4, <1>5 DEF ReceivedFrom, Owed
<1>7. f = [k \in {last} |-> v]
  BY <1>2, <1>3, <1>4, <1>6 DEF Received
<1>8. v \in Int
  <2>1. PICK a : a = ToWallet(Payouts(Scaled(ask.request), Bps(ask.request)),
                              Recipients(ask.request), w)
    OBVIOUS
  <2>2. a \in [1..8 -> Int] /\ v = Total(a)
    BY <1>4, <2>1, SplitAccepted, PaidToIsTotal DEF Owed
  <2> QED
    BY <2>2 DEF Total
<1>9. PICK D : D = {last}
  OBVIOUS
<1>10. IsFiniteSet(D) /\ last \in D /\ f \in [D -> Int]
       /\ \A x \in D : f[x] = IF x = last THEN v ELSE 0
  BY <1>7, <1>8, <1>9, FS_Singleton
<1>11. SumOf(f) = v
  BY <1>8, <1>10, SumPoint
<1> QED
  BY <1>4, <1>11, SumOverIsSum

\* Plain transfers: the one at a place is for the share that has this place among those
\* that are not nothing.
Paid(request) ==
  {k \in DOMAIN request.shares : Payouts(Scaled(request), Bps(request))[k] > 0}

LEMMA TransferOfShare ==
  ASSUME NEW payer, NEW ask, Sound(payer, ask), NEW k \in Paid(ask.request)
  PROVE  LET n == UpToPlace(Paid(ask.request), k)
         IN /\ n \in DOMAIN Transfers(ask.request)
            /\ Transfers(ask.request)[n] =
                 [op |-> "transfer", to |-> ask.request.shares[k].to,
                  amount |-> Payouts(Scaled(ask.request), Bps(ask.request))[k]]
<1>1. PICK request, S, p :
        /\ request = ask.request /\ S = Paid(ask.request)
        /\ p = Payouts(Scaled(ask.request), Bps(ask.request))
  OBVIOUS
<1>2. S \in SUBSET (1..8)
  <2>1. PICK bps : bps = Bps(ask.request)
    OBVIOUS
  <2>2. PICK n : n = Len(bps)
    OBVIOUS
  <2>3. n \in 1..8 /\ DOMAIN request.shares = 1..n
    BY <1>1, <2>1, <2>2, SplitAccepted, PayoutsWellFormed
  <2>4. \A j \in S : j \in 1..n
    BY <1>1, <2>3 DEF Paid
  <2>5. \A j \in 1..n : j \in 1..8
    BY <2>3
  <2> QED
    BY <2>4, <2>5
<1>3. PICK n : n = UpToPlace(S, k)
  OBVIOUS
<1>4. n \in 1..Cardinality(S)
  BY <1>1, <1>2, <1>3, EachHasAPlace
<1> DEFINE Share(m) == CHOOSE j \in S : UpToPlace(S, j) = m
<1>5. Transfers(request) =
        [m \in 1..Cardinality(S) |->
           [op |-> "transfer", to |-> request.shares[Share(m)].to, amount |-> p[Share(m)]]]
  BY <1>1, Zenon DEF Transfers, Paid, UpToPlace
<1>6. Share(n) = k
  BY <1>1, <1>2, <1>3, EachHasAPlace
<1> HIDE DEF Share
<1> QED
  BY <1>1, <1>3, <1>4, <1>5, <1>6

\* Every transfer is a share's.
LEMMA TransferHasShare ==
  ASSUME NEW payer, NEW ask, Sound(payer, ask), NEW n \in DOMAIN Transfers(ask.request)
  PROVE  \E k \in Paid(ask.request) : n = UpToPlace(Paid(ask.request), k)
<1>1. PICK S, bps, slots : /\ S = Paid(ask.request) /\ bps = Bps(ask.request)
                           /\ slots = Len(bps)
  OBVIOUS
<1>2. S \in SUBSET (1..8)
  <2>1. slots \in 1..8 /\ DOMAIN ask.request.shares = 1..slots
    BY <1>1, SplitAccepted, PayoutsWellFormed
  <2>2. \A j \in S : j \in 1..slots
    BY <1>1, <2>1 DEF Paid
  <2>3. \A j \in 1..slots : j \in 1..8
    BY <2>1
  <2> QED
    BY <2>2, <2>3
<1>3. DOMAIN Transfers(ask.request) = 1..Cardinality(S)
  BY <1>1, Zenon DEF Transfers, Paid
<1> QED
  BY <1>1, <1>2, <1>3, EachHasAPlace

\* Plain transfers pay the request as well: the memo is followed by one transfer for
\* each share that is not nothing, and the wallets of several shares get several.
LEMMA PlainPays ==
  ASSUME NEW tx, NEW payer, NEW ask, NEW w,
         Sound(payer, ask), Carries(tx, payer, ask), ~ask.options.program
  PROVE  SumOver(Received(tx, w)) = Owed(ask.request, w)
<1>1. PICK S, p, to, n : /\ S = Paid(ask.request) /\ to = Recipients(ask.request)
                         /\ p = Payouts(Scaled(ask.request), Bps(ask.request))
                         /\ n = Len(Bps(ask.request))
  OBVIOUS
<1>2. PICK request, transfers : request = ask.request /\ transfers = Transfers(request)
  OBVIOUS
<1>3. n \in 1..8 /\ p \in [1..8 -> Nat]
  BY <1>1, SplitAccepted, PayoutsWellFormed
<1>4. DOMAIN request.shares = 1..n /\ DOMAIN to = 1..n
  BY <1>1, <1>2, SplitAccepted
<1>5. \A k \in 1..n : to[k] = request.shares[k].to
  BY <1>1, <1>2, <1>4 DEF Recipients
<1>6. \A k \in 1..n : k \in 1..8
  BY <1>3
<1>7. \A k \in 1..8 : k \in S <=> k \in 1..n /\ p[k] > 0
  BY <1>1, <1>2, <1>4 DEF Paid
<1>8. S \in SUBSET (1..8)
  BY <1>1, <1>2, <1>4, <1>6 DEF Paid
\* where each share's transfer is
<1>9. PICK m : m = Cardinality(S)
  OBVIOUS
<1>10. m \in 0..8 /\ DOMAIN transfers = 1..m
  <2>1. DOMAIN transfers = 1..m
    BY <1>1, <1>2, <1>9, Zenon DEF Transfers, Paid
  <2> QED
    BY <1>8, <1>9, <2>1, EachHasAPlace
<1>11. ask \in Asks /\ request \in Requests
  BY <1>2 DEF Sound, Asks
<1>12. PICK is : is = tx.instructions
  OBVIOUS
<1>13. /\ DOMAIN is = 1..(m + 1) /\ is[1].op = "memo"
       /\ \A j \in 1..m : is[j + 1] = transfers[j]
  <2>1. is = <<Memo(request)>> \o transfers
    BY <1>2, <1>12 DEF Carries, Instructions
  <2>2. transfers \in Seq({transfers[k] : k \in DOMAIN transfers})
    BY <1>2, <1>11, TransfersTyped
  <2>3. Len(transfers) = m
    BY <1>10, <2>2
  <2>4. Memo(request).op = "memo"
    BY DEF Memo
  <2> QED
    BY <1>10, <2>1, <2>2, <2>3, <2>4
<1>14. PICK key : key = [k \in S |-> UpToPlace(S, k) + 1]
  OBVIOUS
<1>15. ASSUME NEW k \in S
       PROVE  /\ key[k] \in 1..(m + 1) /\ is[key[k]].op = "transfer"
              /\ is[key[k]].to = to[k] /\ is[key[k]].amount = p[k]
  <2>1. PICK place : place = UpToPlace(S, k)
    OBVIOUS
  <2>2. /\ place \in 1..m
        /\ transfers[place] = [op |-> "transfer", to |-> request.shares[k].to, amount |-> p[k]]
    BY <1>1, <1>2, <1>10, <2>1, TransferOfShare
  <2>3. key[k] = place + 1
    BY <1>14, <2>1
  <2>4. to[k] = request.shares[k].to
    BY <1>5, <1>7, <1>8
  <2>5. place + 1 \in 1..(m + 1) /\ is[place + 1] = transfers[place]
    BY <1>10, <1>13, <2>2
  <2> QED
    BY <2>2, <2>3, <2>4, <2>5
<1>16. \A j, k \in S : key[j] = key[k] => j = k
  <2>1. ASSUME NEW j \in S, NEW k \in S, key[j] = key[k] PROVE j = k
    <3>1. PICK x, y : x = UpToPlace(S, j) /\ y = UpToPlace(S, k)
      OBVIOUS
    <3>2. x \in 1..m /\ y \in 1..m
      BY <1>8, <1>9, <3>1, EachHasAPlace
    <3>3. x + 1 = y + 1
      BY <1>14, <2>1, <3>1
    <3>4. x = y
      BY <1>10, <3>2, <3>3
    <3> QED
      BY <1>8, <3>1, <3>4, EachHasAPlace
  <2> QED
    BY <2>1
<1>17. PICK D : D = Paying(tx)
  OBVIOUS
<1>18. D = {key[k] : k \in S}
  <2>1. ASSUME NEW j \in D PROVE \E k \in S : j = key[k]
    <3>1. j \in 1..(m + 1) /\ is[j].op \in {"transfer", "settle"}
      BY <1>12, <1>13, <1>17 DEF Paying
    <3>2. j # 1
      BY <1>13, <3>1
    <3>3. PICK place \in 1..m : j = place + 1
      BY <1>10, <3>1, <3>2
    <3>4. PICK k \in S : place = UpToPlace(S, k)
      BY <1>1, <1>2, <1>10, TransferHasShare
    <3> QED
      BY <1>14, <3>3, <3>4
  <2>2. ASSUME NEW k \in S PROVE key[k] \in D
    BY <1>12, <1>13, <1>15, <1>17 DEF Paying
  <2> QED
    BY <2>1, <2>2
<1>19. PICK f, a : f = Received(tx, w) /\ a = ToWallet(p, to, w)
  OBVIOUS
<1>20. ASSUME NEW k \in S PROVE f[key[k]] = IF to[k] = w THEN p[k] ELSE 0
  <2>1. key[k] \in D
    BY <1>18
  <2>2. PICK i : i = is[key[k]]
    OBVIOUS
  <2>3. i.op = "transfer" /\ i.to = to[k] /\ i.amount = p[k]
    BY <1>15, <2>2
  <2>4. f[key[k]] = ReceivedFrom(i, w)
    BY <1>12, <1>17, <1>19, <2>1, <2>2 DEF Received
  <2> QED
    BY <2>3, <2>4 DEF ReceivedFrom
<1>21. \A k \in 1..8 : p[k] \in Nat
  BY <1>3
<1>22. f \in [D -> Int]
  <2>1. \A k \in S : f[key[k]] \in Int
    BY <1>8, <1>20, <1>21
  <2>2. f = [x \in D |-> f[x]]
    BY <1>17, <1>19 DEF Received
  <2>3. \A x \in D : f[x] \in Int
    BY <1>18, <2>1
  <2> QED
    BY <2>2, <2>3
<1>23. a \in [1..8 -> Int] /\ Owed(request, w) = Total(a)
  BY <1>1, <1>2, <1>19, SplitAccepted, PaidToIsTotal DEF Owed
<1>24. \A k \in 1..8 : a[k] = IF k \in S THEN f[key[k]] ELSE 0
  <2>1. \A k \in 1..8 : a[k] = IF k \in 1..n /\ to[k] = w THEN p[k] ELSE 0
    BY <1>4, <1>19 DEF ToWallet
  <2> QED
    BY <1>7, <1>20, <1>21, <2>1
<1>25. SumOf(f) = Total(a)
  BY <1>8, <1>16, <1>18, <1>22, <1>23, <1>24, SumOfKeyed
<1> QED
  BY <1>2, <1>19, <1>23, <1>25, SumOverIsSum

-----------------------------------------------------------------------------
(* Calls                                                                   *)

LEMMA NewestShows ==
  /\ Newest.records = records /\ Newest.landed = landed /\ Newest.history = history
  /\ \A n : Latest(Newest, n) = Last(history[n])
BY DEF Newest, Latest

LEMMA NewestIsPast ==
  ASSUME TypeOK
  PROVE  Past(Newest)
<1>1. /\ Newest.records = records /\ Newest.landed = landed
      /\ Newest.history = history
  BY NewestShows
<1>2. ASSUME NEW n \in Namespaces
      PROVE  history[n] \in Seq(Wallets \cup {None}) /\ history[n] # <<>>
             /\ Len(history[n]) <= Len(history[n])
  <2>1. history[n] \in Seq(Wallets \cup {None}) /\ history[n] # <<>>
    BY DEF TypeOK
  <2> QED
    BY <2>1
<1> QED
  BY <1>1, <1>2 DEF Past

\* A call that ends keeps everything but its phase and result.
LEMMA Ended ==
  ASSUME NEW c \in Callers, NEW result \in Results, call \in [Callers -> Calls],
         Returns(c, result)
  PROVE  /\ call' \in [Callers -> Calls]
         /\ call'[c].phase = "returned" /\ call'[c].result = result
         /\ call'[c].number = call[c].number /\ call'[c].ask = call[c].ask
         /\ call'[c].view = call[c].view /\ call'[c].simulated = call[c].simulated
         /\ call'[c].tx = call[c].tx
         /\ \A d \in Callers \ {c} : call'[d] = call[d]
<1>1. call' = [call EXCEPT ![c] = [call[c] EXCEPT !.phase = "returned", !.result = result]]
  BY DEF Returns
<1>2. call[c] \in Calls
  OBVIOUS
<1> DEFINE ended == [call[c] EXCEPT !.phase = "returned", !.result = result]
<1>3. /\ ended \in Calls /\ ended.phase = "returned" /\ ended.result = result
      /\ ended.number = call[c].number /\ ended.ask = call[c].ask
      /\ ended.view = call[c].view /\ ended.simulated = call[c].simulated
      /\ ended.tx = call[c].tx
  BY <1>2 DEF Calls
<1> HIDE DEF ended
<1>4. call' = [call EXCEPT ![c] = ended]
  BY <1>1 DEF ended
<1> QED
  BY <1>3, <1>4

\* A call that begins, with or without an answer.
LEMMA PrepareEffect ==
  ASSUME NEW c \in Callers, NEW ask \in asks[c], TypeOK, Prepare(c, ask)
  PROVE  /\ call' \in [Callers -> Calls] /\ \A d \in Callers \ {c} : call'[d] = call[d]
         /\ call[c].phase = "returned" /\ call'[c].number = call[c].number + 1
         /\ call'[c].tx = <<>> /\ call'[c].view = 1 /\ call'[c].simulated = 0
         /\ \/ /\ call'[c].phase = "send" /\ call'[c].ask = ask /\ ask.flow # "wallet"
               /\ Refusals(Payer[c], ask) = {}
            \/ /\ call'[c].phase = "returned" /\ call'[c].ask = NoAsk
               /\ call'[c].result \in CheckNames
<1> DEFINE begun == [Idle EXCEPT !.number = call[c].number + 1]
           accepted == [begun EXCEPT !.phase = "send", !.ask = ask]
           refused == [begun EXCEPT !.result = FirstRefusal(Payer[c], ask)]
<1>1. call[c].number \in Nat /\ ask \in Asks /\ call \in [Callers -> Calls]
  BY DEF TypeOK, Calls
<1>2. Idle \in Calls /\ Idle.phase = "returned" /\ Idle.ask = NoAsk
      /\ Idle.tx = <<>> /\ Idle.view = 1 /\ Idle.simulated = 0
  BY DEF Idle, Calls, Results
<1>3. begun \in Calls /\ begun.phase = "returned" /\ begun.ask = NoAsk
      /\ begun.number = call[c].number + 1 /\ begun.tx = <<>> /\ begun.view = 1
      /\ begun.simulated = 0
  BY <1>1, <1>2 DEF Calls
<1>4. call[c].phase = "returned" /\ ask.flow # "wallet"
  BY DEF Prepare
<1> HIDE DEF begun
<1>5. CASE Refusals(Payer[c], ask) = {}
  <2>1. call' = [call EXCEPT ![c] = accepted]
    BY <1>5 DEF Prepare, begun
  <2>2. accepted \in Calls /\ accepted.phase = "send" /\ accepted.ask = ask
        /\ accepted.number = call[c].number + 1 /\ accepted.tx = <<>> /\ accepted.view = 1
        /\ accepted.simulated = 0
    BY <1>1, <1>3 DEF Calls
  <2> HIDE DEF accepted
  <2> QED
    BY <1>1, <1>4, <1>5, <2>1, <2>2
<1>6. CASE Refusals(Payer[c], ask) # {}
  <2>1. call' = [call EXCEPT ![c] = refused]
    BY <1>6 DEF Prepare, begun
  <2>2. FirstRefusal(Payer[c], ask) \in CheckNames
    BY <1>6, FirstRefusalNamed
  <2>3. refused \in Calls /\ refused.phase = "returned" /\ refused.ask = NoAsk
        /\ refused.result = FirstRefusal(Payer[c], ask) /\ refused.number = call[c].number + 1
        /\ refused.tx = <<>> /\ refused.view = 1 /\ refused.simulated = 0
    BY <1>3, <2>2 DEF Calls, Results
  <2> HIDE DEF refused
  <2> QED
    BY <1>1, <1>4, <2>1, <2>2, <2>3
<1> QED
  BY <1>5, <1>6

\* A click asks for a new event.
LEMMA ClickEffect ==
  ASSUME NEW c \in Callers, NEW ask \in asks[c], TypeOK, Click(c, ask)
  PROVE  /\ call' \in [Callers -> Calls] /\ \A d \in Callers \ {c} : call'[d] = call[d]
         /\ call[c].phase = "returned" /\ call'[c].number = call[c].number + 1
         /\ call'[c].tx = <<>> /\ call'[c].view = 1 /\ call'[c].simulated = 0
         /\ call'[c].phase = "read" /\ call'[c].ask \in Asks /\ call'[c].ask.flow = "wallet"
         /\ call'[c].ask.request.event = <<c, call'[c].number>>
<1> DEFINE next == call[c].number + 1
           request == [ask.request EXCEPT !.event = <<c, next>>]
           clicked == [ask EXCEPT !.request = request]
           begun == [Idle EXCEPT !.phase = "read", !.number = next, !.ask = clicked]
<1>1. call[c].number \in Nat /\ next \in Nat /\ ask \in Asks /\ call \in [Callers -> Calls]
  BY DEF TypeOK, Calls
<1>2. request \in Requests /\ request.event = <<c, next>>
  <2>1. ask.request \in Requests /\ <<c, next>> \in ClickEvents
    BY <1>1 DEF Asks, ClickEvents
  <2> QED
    BY <2>1 DEF Requests
<1>3. ask.flow = "wallet" /\ call[c].phase = "returned"
  BY DEF Click
<1>4. clicked \in Asks /\ clicked.flow = "wallet" /\ clicked.request = request
  <2> HIDE DEF request
  <2> QED
    BY <1>1, <1>2, <1>3 DEF Asks
<1>5. call' = [call EXCEPT ![c] = begun]
  BY DEF Click
<1>6. Idle \in Calls /\ Idle.tx = <<>> /\ Idle.view = 1 /\ Idle.simulated = 0
  BY DEF Idle, Calls, Results
<1> HIDE DEF clicked, next, request
<1>7. begun \in Calls /\ begun.phase = "read" /\ begun.number = next /\ begun.ask = clicked
      /\ begun.tx = <<>> /\ begun.view = 1 /\ begun.simulated = 0
  BY <1>1, <1>4, <1>6 DEF Calls
<1> HIDE DEF begun
<1> QED
  BY <1>1, <1>2, <1>3, <1>4, <1>5, <1>7 DEF next

LEMMA SoundProgram ==
  ASSUME NEW payer, NEW ask, Sound(payer, ask)
  PROVE  /\ ask.options.namespace # None <=> ask.options.program
         /\ ask.options.program => ask.options.namespace \in Namespaces
         /\ Opens(ask) /\ ask.options.program =>
              ask.options.namespace = Derived(payer, ask.options)
<1>1. ask.flow \in Flows /\ ask.options.namespace \in Namespaces \cup {None}
  BY DEF Sound, Asks, OptionSets
<1> QED
  BY <1>1, Accepted DEF Sound

LEMMA OutcomeNamed ==
  ASSUME NEW node, NEW tx, NEW payer, NEW ask, Sound(payer, ask), Carries(tx, payer, ask)
  PROVE  Outcome(node, tx) \in Outcomes
<1>1. CASE ask.options.program
  BY <1>1, SoundProgram, ProgramOutcome DEF Outcomes
<1>2. CASE ~ask.options.program
  BY <1>2, PlainLands DEF Outcomes, Sound
<1> QED
  BY <1>1, <1>2

LEMMA DemoAsks ==
  ASSUME NEW c \in Callers, NEW authority
  PROVE  /\ Payer[c] \in Wallets /\ DemoNamespace(c) \in Namespaces
         /\ DemoOptions(c, authority) \in OptionSets
         /\ DemoOptions(c, authority).program
         /\ DemoOptions(c, authority).namespace = DemoNamespace(c)
         /\ DemoOptions(c, authority).authority = None
         /\ DemoOptions(c, authority).create # None <=> authority = None
         /\ Derived(Payer[c], DemoOptions(c, authority)) = DemoNamespace(c) \/ authority # None
<1>1. Payer[c] \in Wallets /\ DemoId \in Ids /\ None \notin Ids
  BY SubmissionAssumption
<1>2. DemoNamespace(c) \in Namespaces
  BY <1>1 DEF DemoNamespace, Namespaces
<1>3. NoOptions \in OptionSets /\ NoOptions.authority = None
  BY DEF NoOptions, OptionSets
<1> DEFINE options == DemoOptions(c, authority)
<1>4. /\ options \in OptionSets /\ options.program /\ options.namespace = DemoNamespace(c)
      /\ options.authority = None /\ options.create = IF authority = None THEN DemoId ELSE None
  BY <1>1, <1>2, <1>3 DEF DemoOptions, OptionSets
<1> HIDE DEF options
<1>5. authority = None => Derived(Payer[c], options) = DemoNamespace(c)
  BY <1>4 DEF Derived, DemoNamespace
<1> QED
  BY <1>1, <1>2, <1>4, <1>5 DEF options

\* The demo looks at its namespace: it gives up, or settles the click.
LEMMA ReadEffect ==
  ASSUME NEW c \in Callers, TypeOK, Underway(c), Read(c)
  PROVE  /\ call' \in [Callers -> Calls] /\ \A d \in Callers \ {c} : call'[d] = call[d]
         /\ call[c].phase = "read" /\ call'[c].number = call[c].number
         /\ call'[c].ask.flow = "wallet" /\ call'[c].ask.request = call[c].ask.request
         /\ call'[c].tx = call[c].tx /\ call'[c].simulated = call[c].simulated
         /\ call'[c].view = call[c].view \/ call'[c].view \in DOMAIN history[DemoNamespace(c)]
         /\ \/ /\ call'[c].phase = "returned"
               /\ call'[c].result \in CheckNames \cup {"NOT_OURS", "FUNDS"}
            \/ /\ call'[c].phase = "send" /\ Sound(Payer[c], call'[c].ask)
               /\ LET n == DemoNamespace(c)
                      view == call'[c].view
                  IN /\ view \in DOMAIN history[n] /\ history[n][view] \in {None, Payer[c]}
                     /\ call'[c].ask.options = DemoOptions(c, history[n][view])
<1> DEFINE n == DemoNamespace(c)
<1>1. PICK view \in DOMAIN history[n] :
        LET authority == history[n][view]
            ask == [call[c].ask EXCEPT !.options = DemoOptions(c, authority)]
            refused == Refusals(Payer[c], ask) # {}
        IN /\ call[c].phase = "read"
           /\ \/ authority \notin {None, Payer[c]} /\ Returns(c, "NOT_OURS")
              \/ authority \in {None, Payer[c]} /\ refused /\ Returns(c, FirstRefusal(Payer[c], ask))
              \/ authority \in {None, Payer[c]} /\ ~refused /\ Returns(c, "FUNDS")
              \/ /\ authority \in {None, Payer[c]} /\ ~refused
                 /\ call' = [call EXCEPT ![c].phase = "send", ![c].ask = ask, ![c].view = view]
  BY DEF Read
<1> DEFINE authority == history[n][view]
           ask == [call[c].ask EXCEPT !.options = DemoOptions(c, authority)]
<1>2. /\ call \in [Callers -> Calls] /\ call[c] \in Calls /\ call[c].phase = "read"
      /\ call[c].ask \in Asks /\ call[c].ask.flow = "wallet"
  BY <1>1 DEF TypeOK, Underway
<1>3. /\ ask \in Asks /\ ask.flow = "wallet" /\ ask.request = call[c].ask.request
      /\ ask.options = DemoOptions(c, authority)
  <2> HIDE DEF authority
  <2> QED
    BY <1>2, DemoAsks DEF Asks
<1>4. view \in Nat
  <2>1. history[n] \in Seq(Wallets \cup {None})
    BY DemoAsks DEF TypeOK
  <2> HIDE DEF n
  <2> QED
    BY <1>1, <2>1
<1>5. ASSUME NEW result \in CheckNames \cup {"NOT_OURS", "FUNDS"}, Returns(c, result)
      PROVE  /\ call' \in [Callers -> Calls] /\ \A d \in Callers \ {c} : call'[d] = call[d]
             /\ call'[c].number = call[c].number /\ call'[c].ask = call[c].ask
             /\ call'[c].phase = "returned" /\ call'[c].result = result
             /\ call'[c].tx = call[c].tx /\ call'[c].view = call[c].view
             /\ call'[c].simulated = call[c].simulated
  <2>1. result \in Results
    BY DEF Results
  <2> QED
    BY <1>2, <1>5, <2>1, Ended
<1>6. CASE Returns(c, "NOT_OURS") \/ Returns(c, "FUNDS")
  BY <1>2, <1>5, <1>6
<1>7. CASE Refusals(Payer[c], ask) # {} /\ Returns(c, FirstRefusal(Payer[c], ask))
  <2>1. FirstRefusal(Payer[c], ask) \in CheckNames
    BY <1>7, FirstRefusalNamed
  <2> QED
    BY <1>2, <1>5, <1>7, <2>1
<1>8. CASE /\ authority \in {None, Payer[c]} /\ Refusals(Payer[c], ask) = {}
           /\ call' = [call EXCEPT ![c].phase = "send", ![c].ask = ask, ![c].view = view]
  <2> DEFINE next == [call[c] EXCEPT !.phase = "send", !.ask = ask, !.view = view]
  <2>1. call' = [call EXCEPT ![c] = next]
    BY <1>8
  <2> HIDE DEF ask, n
  <2>2. /\ next \in Calls /\ next.phase = "send" /\ next.number = call[c].number
        /\ next.ask = ask /\ next.view = view /\ next.tx = call[c].tx
        /\ next.simulated = call[c].simulated
    BY <1>2, <1>3, <1>4 DEF Calls
  <2> HIDE DEF next
  <2>3. /\ call' \in [Callers -> Calls] /\ call'[c] = next
        /\ \A d \in Callers \ {c} : call'[d] = call[d]
    BY <1>2, <2>1, <2>2
  <2>4. Sound(Payer[c], ask)
    BY <1>3, <1>8, DemoAsks DEF Sound, TokenNamed
  <2> QED
    BY <1>1, <1>2, <1>3, <1>8, <2>2, <2>3, <2>4 DEF n
<1> QED
  BY <1>1, <1>6, <1>7, <1>8

\* The transaction a call sends.
TxOf(c, blockhash) ==
  [payer |-> Payer[c], instructions |-> Instructions(Payer[c], call[c].ask),
   blockhash |-> blockhash]

\* A transaction that a node refuses is answered; another is sent, in a block or not.
LEMMA SendEffect ==
  ASSUME NEW c \in Callers, NEW blockhash, TypeOK, NodesArePast, Underway(c),
         Send(c, blockhash)
  PROVE  LET ask == call[c].ask
             tx == TxOf(c, blockhash)
         IN /\ call[c].phase = "send" /\ Sound(Payer[c], ask) /\ Carries(tx, Payer[c], ask)
            /\ call' \in [Callers -> Calls]' /\ \A d \in Callers \ {c} : call'[d] = call[d]
            /\ call'[c].number = call[c].number /\ call'[c].ask = ask
            /\ call'[c].view = call[c].view
            /\ call'[c].simulated = call[c].simulated
                 \/ call'[c].simulated \in DOMAIN history[DemoNamespace(c)]
            /\ \/ /\ call'[c].phase = "returned" /\ call'[c].tx = call[c].tx /\ sent' = sent
                  /\ \E node : /\ Past(node)
                               /\ call'[c].simulated = Len(node.history[DemoNamespace(c)])
                               /\ call'[c].result = NotSent(node, Signers(Payer[c], ask, tx), tx)
               \/ /\ call'[c].phase = "confirm" /\ call'[c].tx = tx
                  /\ sent' = sent \cup {[tx |-> tx, ask |-> ask]}
<1> DEFINE ask == call[c].ask
           tx == TxOf(c, blockhash)
           Failure(node) == NotSent(node, Signers(Payer[c], ask, tx), tx)
           At(node) == Len(node.history[DemoNamespace(c)])
<1>1. /\ call \in [Callers -> Calls] /\ call[c] \in Calls /\ call[c].phase = "send"
      /\ Sound(Payer[c], ask)
  BY DEF TypeOK, Underway, Send
<1>2. Carries(tx, Payer[c], ask)
  BY DEF Carries, TxOf
<1>3. PICK node \in behind \cup {Newest} :
        \/ /\ Failure(node) # "ok" /\ sent' = sent
           /\ call' = [call EXCEPT ![c].phase = "returned", ![c].result = Failure(node),
                                   ![c].simulated = At(node)]
        \/ /\ Failure(node) = "ok" /\ sent' = sent \cup {[tx |-> tx, ask |-> ask]}
           /\ call' = [call EXCEPT ![c].phase = "confirm", ![c].tx = tx]
  BY DEF Send, TxOf
<1>4. PICK failure, at : failure = Failure(node) /\ at = At(node)
  OBVIOUS
<1>5. failure \in Results
  BY <1>1, <1>2, <1>4, OutcomeNamed DEF NotSent, Results
<1>6. Past(node)
  BY <1>3, NewestIsPast DEF NodesArePast
<1>7. at \in Nat /\ at \in DOMAIN history[DemoNamespace(c)]
  <2>1. PICK n \in Namespaces : n = DemoNamespace(c)
    BY DemoAsks
  <2>2. PICK shown : shown = node.history[n]
    OBVIOUS
  <2>3. /\ shown \in Seq(Wallets \cup {None}) /\ shown # <<>>
        /\ Len(shown) <= Len(history[n]) /\ history[n] \in Seq(Wallets \cup {None})
    BY <1>6, <2>2 DEF Past, TypeOK
  <2>4. Len(shown) \in 1..Len(history[n])
    BY <2>3
  <2> QED
    BY <1>4, <2>1, <2>2, <2>3, <2>4
<1>8. CASE /\ failure # "ok" /\ sent' = sent
           /\ call' = [call EXCEPT ![c].phase = "returned", ![c].result = failure,
                                   ![c].simulated = at]
  <2> DEFINE next == [call[c] EXCEPT !.phase = "returned", !.result = failure, !.simulated = at]
  <2>1. Calls' = Calls
    BY <1>8 DEF Calls
  <2>2. call' = [call EXCEPT ![c] = next]
    BY <1>8
  <2>3. /\ next \in Calls /\ next.phase = "returned" /\ next.result = failure
        /\ next.simulated = at /\ next.number = call[c].number /\ next.ask = call[c].ask
        /\ next.view = call[c].view /\ next.tx = call[c].tx
    BY <1>1, <1>5, <1>7 DEF Calls
  <2> HIDE DEF next
  <2>4. /\ call' \in [Callers -> Calls] /\ call'[c] = next
        /\ \A d \in Callers \ {c} : call'[d] = call[d]
    BY <1>1, <2>2, <2>3
  <2> QED
    BY <1>1, <1>2, <1>4, <1>6, <1>7, <1>8, <2>1, <2>3, <2>4
<1>9. CASE /\ sent' = sent \cup {[tx |-> tx, ask |-> ask]}
           /\ call' = [call EXCEPT ![c].phase = "confirm", ![c].tx = tx]
  <2> DEFINE next == [call[c] EXCEPT !.phase = "confirm", !.tx = tx]
             txs == {s.tx : s \in sent}
  <2> HIDE DEF tx, ask, Failure, At
  <2>1. call' = [call EXCEPT ![c] = next]
    BY <1>9
  <2>2. txs' = txs \cup {tx}
    <3> DEFINE new == [tx |-> tx, ask |-> ask]
    <3>1. new.tx = tx /\ sent' = sent \cup {new}
      BY <1>9
    <3>2. txs' = {s.tx : s \in sent'}
      OBVIOUS
    <3> HIDE DEF new
    <3> QED
      BY <3>1, <3>2
  <2> HIDE DEF txs
  <2>3. Calls' = [phase : {"returned", "read", "send", "confirm"}, number : Nat,
                  ask : Asks \cup {NoAsk}, view : Nat, simulated : Nat,
                  tx : txs \cup {tx} \cup {<<>>}, result : Results]
    BY <2>2 DEF Calls, txs
  <2>4. Calls = [phase : {"returned", "read", "send", "confirm"}, number : Nat,
                 ask : Asks \cup {NoAsk}, view : Nat, simulated : Nat,
                 tx : txs \cup {<<>>}, result : Results]
    BY DEF Calls, txs
  <2>5. /\ next \in Calls' /\ next.phase = "confirm" /\ next.tx = tx
        /\ next.number = call[c].number /\ next.ask = call[c].ask /\ next.view = call[c].view
        /\ next.simulated = call[c].simulated
    BY <1>1, <2>3, <2>4
  <2>6. \A d \in Callers : call[d] \in Calls'
    BY <1>1, <2>3, <2>4
  <2> HIDE DEF next
  <2>7. /\ call' \in [Callers -> Calls]' /\ call'[c] = next
        /\ \A d \in Callers \ {c} : call'[d] = call[d]
    BY <1>1, <2>1, <2>5, <2>6
  <2> QED
    BY <1>1, <1>2, <1>9, <2>5, <2>7 DEF tx, ask
<1> QED
  BY <1>3, <1>4, <1>8, <1>9

\* The caller hears what the cluster made of its transaction.
LEMMA ConfirmEffect ==
  ASSUME NEW c \in Callers, TypeOK, LandedAsSent, Confirm(c)
  PROVE  /\ call' \in [Callers -> Calls] /\ \A d \in Callers \ {c} : call'[d] = call[d]
         /\ call[c].phase = "confirm" /\ call'[c].phase = "returned"
         /\ call'[c].number = call[c].number /\ call'[c].ask = call[c].ask
         /\ call'[c].view = call[c].view /\ call'[c].simulated = call[c].simulated
         /\ call'[c].tx = call[c].tx
         /\ \E l \in landed : l.tx = call[c].tx /\ call'[c].result = l.outcome
<1>1. PICK l \in landed : l.tx = call[c].tx /\ Returns(c, l.outcome)
  BY DEF Confirm
<1>2. l.outcome \in Results
  BY DEF LandedAsSent, Results
<1>3. call \in [Callers -> Calls] /\ call[c].phase = "confirm"
  BY DEF TypeOK, Confirm
<1> QED
  BY <1>1, <1>2, <1>3, Ended

LEMMA FaultEffect ==
  ASSUME NEW c \in Callers, TypeOK, Fault(c)
  PROVE  /\ call' \in [Callers -> Calls] /\ \A d \in Callers \ {c} : call'[d] = call[d]
         /\ call[c].phase # "returned" /\ call'[c].phase = "returned"
         /\ call'[c].number = call[c].number /\ call'[c].ask = call[c].ask
         /\ call'[c].view = call[c].view /\ call'[c].simulated = call[c].simulated
         /\ call'[c].tx = call[c].tx
         /\ call'[c].result = "unknown"
<1>1. "unknown" \in Results /\ call \in [Callers -> Calls]
  BY DEF Results, TypeOK
<1> QED
  BY <1>1, Ended DEF Fault

-----------------------------------------------------------------------------
(* Blocks                                                                  *)

\* A namespace's authorities stay, or one is added.
HistoryStep(n) ==
  history'[n] = history[n] \/ \E a \in Wallets : history'[n] = Append(history[n], a)

\* A transaction in a block settles its event and opens its own namespace, or does
\* neither.
LEMMA LandEffect ==
  ASSUME NEW s \in sent, TypeOK, SentAsAsked, Land(s)
  PROVE  LET settles == Outcome(Newest, s.tx) = "ok" /\ s.ask.options.program
         IN /\ ~HasLanded(Newest, s.tx) /\ Outcome(Newest, s.tx) \in Outcomes
            /\ landed' = landed \cup {[tx |-> s.tx, outcome |-> Outcome(Newest, s.tx)]}
            /\ history' \in [Namespaces -> Seq(Wallets \cup {None})]
            /\ \A n \in Namespaces :
                 history'[n] = history[n]
                   \/ (settles /\ n = s.ask.options.namespace /\ HistoryStep(n))
            /\ settles => Place(s.ask) \notin records /\ records' = records \cup {Place(s.ask)}
            /\ ~settles => records' = records /\ history' = history
            /\ behind' = behind \cup {Newest} /\ UNCHANGED <<asks, sent, call>>
<1> DEFINE settles == Outcome(Newest, s.tx) = "ok" /\ s.ask.options.program
           ask == s.ask
           payer == s.tx.payer
           bank == BankAt(Newest, s.tx, Len(s.tx.instructions) + 1)
<1>1. Sound(payer, ask) /\ Carries(s.tx, payer, ask) /\ ask \in Asks
  BY DEF SentAsAsked, Sound
<1> DEFINE Chain == /\ history' \in [Namespaces -> Seq(Wallets \cup {None})]
                    /\ \A n \in Namespaces :
                         history'[n] = history[n]
                           \/ (settles /\ n = ask.options.namespace /\ HistoryStep(n))
                    /\ settles =>
                         Place(ask) \notin records /\ records' = records \cup {Place(ask)}
                    /\ ~settles => records' = records /\ history' = history
<1>2. Outcome(Newest, s.tx) \in Outcomes
  BY <1>1, OutcomeNamed
<1>3. /\ ~HasLanded(Newest, s.tx)
      /\ landed' = landed \cup {[tx |-> s.tx, outcome |-> Outcome(Newest, s.tx)]}
      /\ behind' = behind \cup {Newest} /\ UNCHANGED <<asks, sent, call>>
  BY DEF Land
<1>4. history \in [Namespaces -> Seq(Wallets \cup {None})]
  BY DEF TypeOK
<1>5. \/ /\ Outcome(Newest, s.tx) = "ok" /\ records' = bank.records
         /\ history' = [n \in Namespaces |->
                          IF bank.authority[n] = Latest(Newest, n) THEN history[n]
                          ELSE Append(history[n], bank.authority[n])]
      \/ Outcome(Newest, s.tx) # "ok" /\ records' = records /\ history' = history
  BY DEF Land
<1>6. CASE Outcome(Newest, s.tx) # "ok"
  <2>1. Chain
    BY <1>4, <1>5, <1>6
  <2> QED
    BY <1>2, <1>3, <2>1
<1>7. CASE Outcome(Newest, s.tx) = "ok" /\ ~ask.options.program
  <2>1. bank.records = records /\ \A n \in Namespaces : bank.authority[n] = Latest(Newest, n)
    BY <1>1, <1>7, PlainLands, NewestShows
  <2> HIDE DEF bank
  <2>2. records' = records /\ history' = history
    BY <1>4, <1>5, <1>7, <2>1
  <2>3. Chain
    BY <1>4, <1>7, <2>2
  <2> QED
    BY <1>2, <1>3, <2>3
<1>8. CASE Outcome(Newest, s.tx) = "ok" /\ ask.options.program
  <2>1. /\ ask.options.namespace \in Namespaces
        /\ Opens(ask) => ask.options.namespace = Derived(payer, ask.options)
    BY <1>1, <1>8, SoundProgram
  <2>2. /\ bank.records = records \cup {Place(ask)}
        /\ \A n \in Namespaces :
             bank.authority[n] = IF Opens(ask) /\ n = Derived(payer, ask.options)
                                 THEN AuthorityOf(payer, ask.options) ELSE Latest(Newest, n)
    <3> DEFINE last == Len(s.tx.instructions)
    <3>1. last + 1 \in {last, last + 1}
      OBVIOUS
    <3>2. bank = BankAt(Newest, s.tx, last + 1)
      OBVIOUS
    <3> HIDE DEF bank, ask, payer
    <3>3. Meets(Newest, s.tx, payer, ask)
      BY <1>1, <1>8, ProgramBank
    <3> HIDE DEF last
    <3> QED
      BY <3>1, <3>2, <3>3, NewestShows DEF Meets, last
  <2>3. AuthorityOf(payer, ask.options) \in Wallets
    BY <1>1 DEF Sound, AuthorityOf, Asks, OptionSets
  <2>4. Place(ask) \notin records
    BY <1>1, <1>8, <2>1, ProgramOutcome, NewestShows
  <2> HIDE DEF bank, payer, ask
  <2>5. ASSUME NEW n \in Namespaces
        PROVE  /\ history'[n] \in Seq(Wallets \cup {None})
               /\ history'[n] = history[n] \/ (n = ask.options.namespace /\ HistoryStep(n))
    <3>1. history'[n] = IF bank.authority[n] = Latest(Newest, n) THEN history[n]
                        ELSE Append(history[n], bank.authority[n])
      BY <1>5, <1>8
    <3>2. CASE bank.authority[n] = Latest(Newest, n)
      BY <1>4, <3>1, <3>2
    <3>3. CASE bank.authority[n] # Latest(Newest, n)
      <4>1. n = ask.options.namespace /\ bank.authority[n] \in Wallets
        BY <2>1, <2>2, <2>3, <3>3
      <4>2. history[n] \in Seq(Wallets \cup {None})
        BY <1>4
      <4>3. history'[n] = Append(history[n], bank.authority[n])
        BY <3>1, <3>3
      <4>4. Append(history[n], bank.authority[n]) \in Seq(Wallets \cup {None})
        BY <4>1, <4>2
      <4> QED
        BY <4>1, <4>3, <4>4 DEF HistoryStep
    <3> QED
      BY <3>2, <3>3
  <2>6. history' \in [Namespaces -> Seq(Wallets \cup {None})]
    <3>1. /\ DOMAIN history' = Namespaces
          /\ history' = [n \in Namespaces |-> history'[n]]
      BY <1>5, <1>8
    <3> QED
      BY <2>5, <3>1
  <2>7. records' = records \cup {Place(ask)}
    BY <1>5, <1>8, <2>2
  <2>8. Chain
    BY <1>8, <2>4, <2>5, <2>6, <2>7 DEF ask
  <2> QED
    BY <1>2, <1>3, <2>8 DEF ask
<1> QED
  BY <1>6, <1>7, <1>8

LEMMA RotateEffect ==
  ASSUME NEW n \in Namespaces, NEW authority \in Wallets, TypeOK, Rotate(n, authority)
  PROVE  /\ history' \in [Namespaces -> Seq(Wallets \cup {None})]
         /\ \A m \in Namespaces : HistoryStep(m)
         /\ \A m \in Namespaces : history'[m] = history[m] \/ Last(history[m]) # None
         /\ behind' = behind \cup {Newest} /\ UNCHANGED <<asks, records, sent, landed, call>>
<1>1. history \in [Namespaces -> Seq(Wallets \cup {None})]
  BY DEF TypeOK
<1>2. history' = [history EXCEPT ![n] = Append(history[n], authority)]
      /\ Last(history[n]) # None
      /\ behind' = behind \cup {Newest} /\ UNCHANGED <<asks, records, sent, landed, call>>
  BY NewestShows DEF Rotate
<1>3. Append(history[n], authority) \in Seq(Wallets \cup {None})
  BY <1>1
<1> QED
  BY <1>1, <1>2, <1>3 DEF HistoryStep

\* What is in the chain stays there.
LEMMA Kept ==
  ASSUME NEW n \in Namespaces, TypeOK, HistoryStep(n)
  PROVE  /\ Len(history[n]) \in Nat \ {0} /\ Len(history'[n]) \in Nat
         /\ Len(history[n]) <= Len(history'[n])
         /\ DOMAIN history[n] = 1..Len(history[n]) /\ DOMAIN history'[n] = 1..Len(history'[n])
         /\ \A k \in DOMAIN history[n] : history'[n][k] = history[n][k]
         /\ Last(history[n]) = history[n][Len(history[n])]
         /\ history'[n] # <<>>
         /\ history'[n] # history[n] => history'[n][Len(history'[n])] \in Wallets
<1>1. history[n] \in Seq(Wallets \cup {None}) /\ history[n] # <<>>
  BY DEF TypeOK
<1>2. Last(history[n]) = history[n][Len(history[n])]
  BY DEF Last
<1>3. CASE history'[n] = history[n]
  BY <1>1, <1>2, <1>3
<1>4. CASE \E a \in Wallets : history'[n] = Append(history[n], a)
  <2>1. PICK a \in Wallets : history'[n] = Append(history[n], a)
    BY <1>4
  <2> QED
    BY <1>1, <1>2, <2>1
<1> QED
  BY <1>3, <1>4 DEF HistoryStep

-----------------------------------------------------------------------------
(* Steps                                                                   *)

\* The calls and the cluster, apart.
CallerStep ==
  \/ \E c \in Callers : \E ask \in asks[c] : Prepare(c, ask) \/ Click(c, ask)
  \/ \E c \in Callers : Read(c) \/ Confirm(c) \/ Fault(c)
  \/ \E c \in Callers, blockhash \in Blockhashes : Send(c, blockhash)

ClusterStep ==
  \/ \E s \in sent : Land(s)
  \/ \E n \in Namespaces, a \in Wallets : Rotate(n, a)

LEMMA StepsApart ==
  ASSUME Next
  PROVE  CallerStep \/ ClusterStep
BY DEF Next, CallerStep, ClusterStep

\* Calls leave the chain alone; the cluster leaves the calls alone.
LEMMA CallersEffect ==
  ASSUME CallerStep
  PROVE  /\ UNCHANGED <<asks, history, records, landed, behind>>
         /\ sent' = sent \/ \E c \in Callers, blockhash \in Blockhashes : Send(c, blockhash)
<1>1. ASSUME NEW c \in Callers, NEW ask \in asks[c], Prepare(c, ask) \/ Click(c, ask)
      PROVE  UNCHANGED <<asks, history, records, landed, behind, sent>>
  BY <1>1 DEF Prepare, Click
<1>2. ASSUME NEW c \in Callers, Read(c) \/ Confirm(c) \/ Fault(c)
      PROVE  UNCHANGED <<asks, history, records, landed, behind, sent>>
  BY <1>2 DEF Read, Confirm, Fault
<1>3. ASSUME NEW c \in Callers, NEW blockhash \in Blockhashes, Send(c, blockhash)
      PROVE  UNCHANGED <<asks, history, records, landed, behind>>
  BY <1>3 DEF Send
<1> QED
  BY <1>1, <1>2, <1>3 DEF CallerStep

LEMMA ClusterEffect ==
  ASSUME TypeOK, SentAsAsked, ClusterStep
  PROVE  /\ UNCHANGED <<asks, sent, call>>
         /\ history' \in [Namespaces -> Seq(Wallets \cup {None})]
         /\ \A n \in Namespaces : HistoryStep(n)
         /\ landed \subseteq landed' /\ records \subseteq records'
         /\ behind' = behind \cup {Newest}
<1>1. ASSUME NEW s \in sent, Land(s)
      PROVE  /\ UNCHANGED <<asks, sent, call>>
             /\ history' \in [Namespaces -> Seq(Wallets \cup {None})]
             /\ \A n \in Namespaces : HistoryStep(n)
             /\ landed \subseteq landed' /\ records \subseteq records'
             /\ behind' = behind \cup {Newest}
  BY <1>1, LandEffect DEF HistoryStep
<1>2. ASSUME NEW n \in Namespaces, NEW a \in Wallets, Rotate(n, a)
      PROVE  /\ UNCHANGED <<asks, sent, call, landed, records>>
             /\ history' \in [Namespaces -> Seq(Wallets \cup {None})]
             /\ \A m \in Namespaces : HistoryStep(m)
             /\ behind' = behind \cup {Newest}
  BY <1>2, RotateEffect
<1> QED
  BY <1>1, <1>2 DEF ClusterStep

\* The chain only grows.
LEMMA ChainGrows ==
  ASSUME TypeOK, SentAsAsked, Next
  PROVE  /\ \A n \in Namespaces : HistoryStep(n)
         /\ sent \subseteq sent' /\ landed \subseteq landed' /\ records \subseteq records'
<1>1. CASE CallerStep
  <2>1. UNCHANGED <<history, records, landed>> /\ \A n \in Namespaces : HistoryStep(n)
    BY <1>1, CallersEffect DEF HistoryStep
  <2>2. sent \subseteq sent'
    <3>1. CASE sent' = sent
      BY <3>1
    <3>2. CASE \E c \in Callers, blockhash \in Blockhashes : Send(c, blockhash)
      BY <3>2 DEF Send
    <3> QED
      BY <1>1, <3>1, <3>2, CallersEffect
  <2> QED
    BY <2>1, <2>2
<1>2. CASE ClusterStep
  BY <1>2, ClusterEffect
<1> QED
  BY <1>1, <1>2, StepsApart

LEMMA TypeStep ==
  ASSUME TypeOK, NodesArePast, SentAsAsked, LandedAsSent, \A c \in Callers : Underway(c), Next
  PROVE  TypeOK'
<1>1. CASE CallerStep
  <2>1. UNCHANGED <<asks, history>>
    BY <1>1, CallersEffect
  <2>2. call' \in [Callers -> Calls]'
    <3>1. ASSUME NEW c \in Callers, NEW ask \in asks[c], Prepare(c, ask) \/ Click(c, ask)
          PROVE  call' \in [Callers -> Calls] /\ sent' = sent
      <4>1. sent' = sent
        BY <3>1 DEF Prepare, Click
      <4> QED
        BY <3>1, <4>1, PrepareEffect, ClickEffect
    <3>2. ASSUME NEW c \in Callers, Read(c) \/ Confirm(c) \/ Fault(c)
          PROVE  call' \in [Callers -> Calls] /\ sent' = sent
      <4>1. sent' = sent
        BY <3>2 DEF Read, Confirm, Fault
      <4> QED
        BY <3>2, <4>1, ReadEffect, ConfirmEffect, FaultEffect
    <3>3. ASSUME NEW c \in Callers, NEW blockhash \in Blockhashes, Send(c, blockhash)
          PROVE  call' \in [Callers -> Calls]'
      BY <3>3, SendEffect
    <3>4. sent' = sent => Calls' = Calls
      BY DEF Calls
    <3> QED
      BY <1>1, <3>1, <3>2, <3>3, <3>4 DEF CallerStep
  <2>3. ASSUME NEW c \in Callers
        PROVE  /\ call'[c].view \in DOMAIN history[DemoNamespace(c)]
               /\ call'[c].simulated \in {0} \cup DOMAIN history[DemoNamespace(c)]
    <3> DEFINE past == DOMAIN history[DemoNamespace(c)]
    <3>1. 1 \in past
      <4>1. /\ history[DemoNamespace(c)] \in Seq(Wallets \cup {None})
            /\ history[DemoNamespace(c)] # <<>>
        BY DemoAsks DEF TypeOK
      <4> QED
        BY <4>1
    <3>2. call[c].view \in past /\ call[c].simulated \in {0} \cup past
      BY DEF TypeOK
    <3> HIDE DEF past
    <3>3. ASSUME NEW d \in Callers, NEW ask \in asks[d], Prepare(d, ask) \/ Click(d, ask)
          PROVE  (call'[c].view = 1 /\ call'[c].simulated = 0) \/ call'[c] = call[c]
      BY <3>3, PrepareEffect, ClickEffect
    <3>4. ASSUME NEW d \in Callers, Confirm(d) \/ Fault(d)
          PROVE  call'[c].view = call[c].view /\ call'[c].simulated = call[c].simulated
      BY <3>4, ConfirmEffect, FaultEffect
    <3>5. ASSUME NEW d \in Callers, Read(d)
          PROVE  /\ call'[c].view = call[c].view \/ call'[c].view \in past
                 /\ call'[c].simulated = call[c].simulated
      BY <3>5, ReadEffect DEF past
    <3>6. ASSUME NEW d \in Callers, NEW blockhash \in Blockhashes, Send(d, blockhash)
          PROVE  /\ call'[c].view = call[c].view
                 /\ call'[c].simulated = call[c].simulated \/ call'[c].simulated \in past
      <4>1. CASE c = d
        BY <3>6, <4>1, SendEffect DEF past
      <4>2. CASE c # d
        BY <3>6, <4>2, SendEffect
      <4> QED
        BY <4>1, <4>2
    <3> QED
      BY <1>1, <3>1, <3>2, <3>3, <3>4, <3>5, <3>6 DEF CallerStep, past
  <2> QED
    BY <2>1, <2>2, <2>3 DEF TypeOK, DemoNamespace
<1>2. CASE ClusterStep
  <2>1. /\ UNCHANGED <<asks, sent, call>>
        /\ history' \in [Namespaces -> Seq(Wallets \cup {None})]
        /\ \A n \in Namespaces : HistoryStep(n)
    BY <1>2, ClusterEffect
  <2>2. \A n \in Namespaces : history'[n] # <<>>
    BY <2>1, Kept
  <2>3. Calls' = Calls
    BY <2>1 DEF Calls
  <2>4. ASSUME NEW c \in Callers
        PROVE  /\ call[c].view \in DOMAIN history'[DemoNamespace(c)]
               /\ call[c].simulated \in {0} \cup DOMAIN history'[DemoNamespace(c)]
    <3> DEFINE n == DemoNamespace(c)
    <3>1. /\ n \in Namespaces /\ call[c].view \in DOMAIN history[n]
          /\ call[c].simulated \in {0} \cup DOMAIN history[n]
      BY DemoAsks DEF TypeOK
    <3> HIDE DEF n
    <3>2. /\ DOMAIN history[n] = 1..Len(history[n]) /\ DOMAIN history'[n] = 1..Len(history'[n])
          /\ Len(history[n]) \in Nat /\ Len(history'[n]) \in Nat
          /\ Len(history[n]) <= Len(history'[n])
      BY <2>1, <3>1, Kept
    <3> QED
      BY <3>1, <3>2 DEF n
  <2> QED
    BY <2>1, <2>2, <2>3, <2>4 DEF TypeOK, DemoNamespace
<1> QED
  BY <1>1, <1>2, StepsApart

\* A node that is behind stays so: its state was the newest once, and the chain grows.
LEMMA PastKept ==
  ASSUME NEW node, TypeOK, Past(node), \A n \in Namespaces : HistoryStep(n),
         landed \subseteq landed', records \subseteq records'
  PROVE  Past(node)'
<1>1. ASSUME NEW n \in Namespaces
      PROVE  /\ Len(node.history[n]) <= Len(history'[n])
             /\ \A k \in 1..Len(node.history[n]) : node.history[n][k] = history'[n][k]
  <2>1. PICK shown : shown = node.history[n]
    OBVIOUS
  <2>2. /\ shown \in Seq(Wallets \cup {None}) /\ Len(shown) <= Len(history[n])
        /\ \A k \in 1..Len(shown) : shown[k] = history[n][k]
    BY <2>1 DEF Past
  <2>3. /\ Len(history[n]) \in Nat /\ Len(history'[n]) \in Nat
        /\ Len(history[n]) <= Len(history'[n])
        /\ \A k \in 1..Len(history[n]) : history'[n][k] = history[n][k]
    BY Kept
  <2>4. Len(shown) \in Nat
    BY <2>2
  <2> QED
    BY <2>1, <2>2, <2>3, <2>4
<1> QED
  BY <1>1 DEF Past

LEMMA PastStep ==
  ASSUME TypeOK, NodesArePast, StaysOpen, SentAsAsked, Next
  PROVE  NodesArePast' /\ StaysOpen'
<1>1. /\ \A n \in Namespaces : HistoryStep(n)
      /\ landed \subseteq landed' /\ records \subseteq records'
  BY ChainGrows
<1>2. behind' \subseteq behind \cup {Newest}
  BY StepsApart, CallersEffect, ClusterEffect
<1>3. ASSUME NEW node \in behind'
      PROVE  Past(node)'
  <2>1. Past(node)
    BY <1>2, NewestIsPast DEF NodesArePast
  <2> QED
    BY <1>1, <2>1, PastKept
<1>4. ASSUME NEW n \in Namespaces, NEW k \in DOMAIN history'[n], k > 1
      PROVE  history'[n][k] # None
  <2>1. history[n] \in Seq(Wallets \cup {None}) /\ None \notin Wallets
    BY SubmissionAssumption DEF TypeOK
  <2>2. \A j \in DOMAIN history[n] : j > 1 => history[n][j] # None
    BY DEF StaysOpen
  <2>3. CASE history'[n] = history[n]
    BY <1>4, <2>2, <2>3
  <2>4. ASSUME NEW a \in Wallets, history'[n] = Append(history[n], a)
        PROVE  history'[n][k] # None
    BY <1>4, <2>1, <2>2, <2>4
  <2> QED
    BY <1>1, <2>3, <2>4 DEF HistoryStep
<1> QED
  BY <1>3, <1>4 DEF NodesArePast, StaysOpen

LEMMA SentStep ==
  ASSUME TypeOK, NodesArePast, SentAsAsked, LandedAsSent, \A c \in Callers : Underway(c), Next
  PROVE  SentAsAsked' /\ LandedAsSent'
<1>1. SentAsAsked'
  <2>1. CASE sent' = sent
    BY <2>1 DEF SentAsAsked
  <2>2. ASSUME NEW c \in Callers, NEW blockhash \in Blockhashes, Send(c, blockhash)
        PROVE  SentAsAsked'
    <3> DEFINE tx == TxOf(c, blockhash)
               new == [tx |-> tx, ask |-> call[c].ask]
    <3>1. /\ Sound(Payer[c], call[c].ask) /\ Carries(tx, Payer[c], call[c].ask)
          /\ sent' = sent \/ sent' = sent \cup {new}
      BY <2>2, SendEffect
    <3>2. /\ new.tx = tx /\ new.ask = call[c].ask /\ tx.payer = Payer[c]
          /\ tx = [payer |-> tx.payer, instructions |-> tx.instructions, blockhash |-> tx.blockhash]
      BY DEF TxOf
    <3> HIDE DEF new, tx
    <3>3. ASSUME NEW s \in sent'
          PROVE  /\ Sound(s.tx.payer, s.ask) /\ Carries(s.tx, s.tx.payer, s.ask)
                 /\ s.tx = [payer |-> s.tx.payer, instructions |-> s.tx.instructions,
                            blockhash |-> s.tx.blockhash]
      BY <3>1, <3>2 DEF SentAsAsked
    <3> QED
      BY <3>3 DEF SentAsAsked
  <2>3. CASE ClusterStep
    BY <2>1, <2>3, ClusterEffect
  <2> QED
    BY <2>1, <2>2, <2>3, StepsApart, CallersEffect
<1>2. LandedAsSent'
  <2>1. sent \subseteq sent'
    BY ChainGrows
  <2>2. CASE landed' = landed
    BY <2>1, <2>2 DEF LandedAsSent
  <2>3. ASSUME NEW s \in sent, Land(s)
        PROVE  LandedAsSent'
    <3>1. PICK outcome, new : /\ outcome = Outcome(Newest, s.tx)
                              /\ new = [tx |-> s.tx, outcome |-> outcome]
      OBVIOUS
    <3>2. /\ landed' = landed \cup {new} /\ outcome \in Outcomes /\ sent' = sent
          /\ \A l \in landed : l.tx # s.tx
      BY <2>3, <3>1, LandEffect, NewestShows DEF HasLanded
    <3>3. new.tx = s.tx /\ new.outcome = outcome /\ new = [tx |-> new.tx, outcome |-> new.outcome]
      BY <3>1
    <3>4. ASSUME NEW l \in landed'
          PROVE  /\ l = [tx |-> l.tx, outcome |-> l.outcome] /\ l.outcome \in Outcomes
                 /\ \E t \in sent : t.tx = l.tx
                 /\ \A m \in landed' : m.tx = l.tx => m = l
      BY <3>2, <3>3 DEF LandedAsSent
    <3> QED
      BY <3>2, <3>4 DEF LandedAsSent
  <2>4. CASE CallerStep
    BY <2>2, <2>4, CallersEffect
  <2>5. ASSUME NEW n \in Namespaces, NEW a \in Wallets, Rotate(n, a)
        PROVE  LandedAsSent'
    BY <2>2, <2>5 DEF Rotate
  <2> QED
    BY <2>3, <2>4, <2>5, StepsApart DEF ClusterStep
<1> QED
  BY <1>1, <1>2

-----------------------------------------------------------------------------
(* Payments                                                                *)

\* Requests that make the same transaction settle the same event in the same place.
LEMMA SamePlace ==
  ASSUME NEW tx, NEW payer, NEW ask, NEW other, Sound(payer, ask), Sound(payer, other),
         Carries(tx, payer, ask), Carries(tx, payer, other)
  PROVE  /\ ask.options.program <=> other.options.program
         /\ ask.options.program => Place(ask) = Place(other)
<1>1. ASSUME NEW a \in Asks, NEW b \in Asks, a.options.program,
             Carries(tx, payer, a), Carries(tx, payer, b)
      PROVE  b.options.program /\ Settle(payer, a) = Settle(payer, b)
  <2>1. PICK is, last : is = tx.instructions /\ last = Len(is)
    OBVIOUS
  <2>2. is = Instructions(payer, a) /\ is = Instructions(payer, b)
    BY <1>1, <2>1 DEF Carries
  <2>3. ASSUME NEW c \in Asks, c.options.program, is = Instructions(payer, c)
        PROVE  last \in DOMAIN is /\ is[last] = Settle(payer, c)
    <3>1. /\ Len(Instructions(payer, c)) \in {2, 3}
          /\ DOMAIN Instructions(payer, c) = 1..Len(Instructions(payer, c))
          /\ Instructions(payer, c)[Len(Instructions(payer, c))] = Settle(payer, c)
      BY <2>3, ProgramInstructions
    <3>2. last \in {2, 3} /\ DOMAIN is = 1..last /\ is[last] = Settle(payer, c)
      BY <2>1, <2>3, <3>1
    <3> QED
      BY <3>2
  <2>4. b.options.program
    <3>1. Settle(payer, a).op = "settle"
      BY DEF Settle
    <3>2. ASSUME ~b.options.program
          PROVE  \A k \in DOMAIN is : is[k].op \in {"memo", "transfer"}
      BY <2>2, <3>2, PlainInstructions
    <3>3. last \in DOMAIN is /\ is[last].op = "settle"
      BY <1>1, <2>2, <2>3, <3>1
    <3> QED
      BY <3>2, <3>3
  <2> QED
    BY <1>1, <2>2, <2>3, <2>4
<1>2. ask \in Asks /\ other \in Asks
  BY DEF Sound
<1>3. ask.options.program <=> other.options.program
  BY <1>1, <1>2
<1>4. ASSUME ask.options.program
      PROVE  Place(ask) = Place(other)
  <2>1. PICK a, b : a = Settle(payer, ask) /\ b = Settle(payer, other)
    OBVIOUS
  <2>2. a = b
    BY <1>1, <1>2, <1>4, <2>1
  <2>3. /\ a.namespace = ask.options.namespace /\ a.event = ask.request.event
        /\ b.namespace = other.options.namespace /\ b.event = other.request.event
    BY <2>1 DEF Settle, Seed
  <2> QED
    BY <2>2, <2>3 DEF Place
<1> QED
  BY <1>3, <1>4

\* A call may send what is in a block already, to a node that lags: whatever is in a
\* block was sent before, and for the same event.
LEMMA LandedBefore ==
  ASSUME TypeOK, SentAsAsked, LandedAsSent, NEW tx, NEW payer, NEW ask,
         Sound(payer, ask), Carries(tx, payer, ask), NEW l \in landed, l.tx = tx
  PROVE  \E t \in sent : /\ t.tx = tx /\ (t.ask.options.program <=> ask.options.program)
                         /\ ask.options.program => Place(t.ask) = Place(ask)
<1>1. PICK t \in sent : t.tx = tx
  BY DEF LandedAsSent
<1>2. Sound(t.tx.payer, t.ask) /\ Carries(t.tx, t.tx.payer, t.ask)
  BY DEF SentAsAsked
<1>3. t.tx.payer = payer
  BY <1>1 DEF Carries
<1> QED
  BY <1>1, <1>2, <1>3, SamePlace

LEMMA NothingPaidByCalls ==
  ASSUME TypeOK, NodesArePast, SentAsAsked, LandedAsSent, \A c \in Callers : Underway(c),
         CallerStep
  PROVE  /\ UNCHANGED <<history, records, landed>> /\ sent \subseteq sent'
         /\ \A s \in sent' : \A l \in landed : l.tx = s.tx =>
              \E t \in sent : /\ t.tx = s.tx /\ (t.ask.options.program <=> s.ask.options.program)
                              /\ s.ask.options.program => Place(t.ask) = Place(s.ask)
<1>1. UNCHANGED <<history, records, landed>>
  BY CallersEffect
<1>2. CASE sent' = sent
  BY <1>1, <1>2
<1>3. ASSUME NEW c \in Callers, NEW blockhash \in Blockhashes, Send(c, blockhash)
      PROVE  /\ sent \subseteq sent'
             /\ \A s \in sent' : \A l \in landed : l.tx = s.tx =>
                  \E t \in sent : /\ t.tx = s.tx
                                  /\ t.ask.options.program <=> s.ask.options.program
                                  /\ s.ask.options.program => Place(t.ask) = Place(s.ask)
  <2>1. PICK tx, new : tx = TxOf(c, blockhash) /\ new = [tx |-> tx, ask |-> call[c].ask]
    OBVIOUS
  <2>2. /\ Sound(Payer[c], call[c].ask) /\ Carries(tx, Payer[c], call[c].ask)
        /\ sent' = sent \/ sent' = sent \cup {new}
    BY <1>3, <2>1, SendEffect
  <2>3. new.tx = tx /\ new.ask = call[c].ask
    BY <2>1
  <2>4. ASSUME NEW l \in landed, l.tx = new.tx
        PROVE  \E t \in sent : /\ t.tx = new.tx
                               /\ t.ask.options.program <=> new.ask.options.program
                               /\ new.ask.options.program => Place(t.ask) = Place(new.ask)
    BY <2>2, <2>3, <2>4, LandedBefore
  <2> QED
    BY <2>2, <2>4
<1> QED
  BY <1>1, <1>2, <1>3, CallersEffect

LEMMA PaymentsByCalls ==
  ASSUME TypeOK, NodesArePast, SentAsAsked, LandedAsSent, \A c \in Callers : Underway(c),
         SentAsAsked', Recorded, PaidFor, DuplicatesRecorded, PaidOnce, CallerStep
  PROVE  Recorded' /\ PaidFor' /\ DuplicatesRecorded' /\ PaidOnce'
<1>1. UNCHANGED <<records, landed>> /\ sent \subseteq sent'
  BY NothingPaidByCalls
<1>2. \A tx : HasPaid(tx)' <=> HasPaid(tx)
  BY <1>1 DEF HasPaid
<1>3. ASSUME NEW s \in sent', NEW l \in landed, l.tx = s.tx
      PROVE  \E t \in sent : /\ t.tx = s.tx /\ (t.ask.options.program <=> s.ask.options.program)
                             /\ s.ask.options.program => Place(t.ask) = Place(s.ask)
  BY <1>3, NothingPaidByCalls
<1>4. ASSUME NEW s \in sent', HasPaid(s.tx)
      PROVE  \E t \in sent : /\ t.tx = s.tx /\ (t.ask.options.program <=> s.ask.options.program)
                             /\ s.ask.options.program => Place(t.ask) = Place(s.ask)
  <2>1. PICK l \in landed : l = [tx |-> s.tx, outcome |-> "ok"]
    BY <1>4 DEF HasPaid
  <2> QED
    BY <1>3, <2>1
<1>5. Recorded'
  <2>1. ASSUME NEW s \in sent', HasPaid(s.tx), s.ask.options.program
        PROVE  Place(s.ask) \in records
    BY <1>4, <2>1 DEF Recorded
  <2> QED
    BY <1>1, <1>2, <2>1 DEF Recorded
<1>6. PaidFor'
  BY <1>1, <1>2 DEF PaidFor
<1>7. DuplicatesRecorded'
  <2>1. ASSUME NEW s \in sent', [tx |-> s.tx, outcome |-> "SETTLED"] \in landed
        PROVE  s.ask.options.program /\ Place(s.ask) \in records
    <3>1. PICK l \in landed : l = [tx |-> s.tx, outcome |-> "SETTLED"]
      BY <2>1
    <3>2. PICK t \in sent : /\ t.tx = s.tx /\ (t.ask.options.program <=> s.ask.options.program)
                            /\ s.ask.options.program => Place(t.ask) = Place(s.ask)
      BY <1>3, <3>1
    <3> QED
      BY <2>1, <3>2 DEF DuplicatesRecorded
  <2> QED
    BY <1>1, <2>1 DEF DuplicatesRecorded
<1>8. PaidOnce'
  <2>1. ASSUME NEW s \in sent', NEW t \in sent',
               s.ask.request.event = t.ask.request.event,
               s.ask.options.namespace = t.ask.options.namespace,
               s.ask.options.namespace # None, HasPaid(s.tx), HasPaid(t.tx)
        PROVE  s.tx = t.tx
    <3>1. s.ask.options.program /\ t.ask.options.program
      <4>1. Sound(s.tx.payer, s.ask) /\ Sound(t.tx.payer, t.ask)
        BY DEF SentAsAsked
      <4> QED
        BY <2>1, <4>1, SoundProgram
    <3>2. PICK x \in sent : x.tx = s.tx /\ Place(x.ask) = Place(s.ask)
      BY <1>4, <2>1, <3>1
    <3>3. PICK y \in sent : y.tx = t.tx /\ Place(y.ask) = Place(t.ask)
      BY <1>4, <2>1, <3>1
    <3>4. /\ x.ask.request.event = y.ask.request.event
          /\ x.ask.options.namespace = y.ask.options.namespace
          /\ x.ask.options.namespace # None
      BY <2>1, <3>2, <3>3 DEF Place
    <3> QED
      BY <2>1, <3>2, <3>3, <3>4 DEF PaidOnce
  <2> QED
    BY <1>2, <2>1 DEF PaidOnce
<1> QED
  BY <1>5, <1>6, <1>7, <1>8

\* The payments after a block.
LEMMA PaidAfterBlock ==
  ASSUME NEW s \in sent, NEW outcome,
         landed' = landed \cup {[tx |-> s.tx, outcome |-> outcome]}
  PROVE  \A tx : HasPaid(tx)' <=> HasPaid(tx) \/ (outcome = "ok" /\ tx = s.tx)
BY DEF HasPaid

LEMMA PaymentStep ==
  ASSUME TypeOK, SentAsAsked, LandedAsSent, \A c \in Callers : Underway(c),
         NodesArePast, Recorded, PaidFor, DuplicatesRecorded, PaidOnce, Next
  PROVE  Recorded' /\ PaidFor' /\ DuplicatesRecorded' /\ PaidOnce'
<1>1. CASE CallerStep
  BY <1>1, SentStep, PaymentsByCalls
<1>2. ASSUME NEW n \in Namespaces, NEW a \in Wallets, Rotate(n, a)
      PROVE  Recorded' /\ PaidFor' /\ DuplicatesRecorded' /\ PaidOnce'
  <2>1. UNCHANGED <<records, sent, landed>>
    BY <1>2, RotateEffect
  <2> QED
    BY <2>1 DEF Recorded, PaidFor, DuplicatesRecorded, PaidOnce, HasPaid
<1>3. ASSUME NEW s \in sent, Land(s)
      PROVE  Recorded' /\ PaidFor' /\ DuplicatesRecorded' /\ PaidOnce'
  <2> DEFINE ok == Outcome(Newest, s.tx) = "ok"
  <2>1. /\ landed' = landed \cup {[tx |-> s.tx, outcome |-> Outcome(Newest, s.tx)]} /\ sent' = sent
        /\ ok /\ s.ask.options.program => records' = records \cup {Place(s.ask)}
        /\ ~(ok /\ s.ask.options.program) => records' = records
    BY <1>3, LandEffect
  <2>2. \A tx : HasPaid(tx)' <=> HasPaid(tx) \/ (ok /\ tx = s.tx)
    BY <2>1, PaidAfterBlock
  \* Whoever asked for it, a transaction that settles now settles a new event.
  <2>3. ASSUME NEW t \in sent, t.tx = s.tx, ok, t.ask.options.program
        PROVE  Place(t.ask) \notin records /\ Place(t.ask) \in records'
    <3>1. Sound(t.tx.payer, t.ask) /\ Carries(t.tx, t.tx.payer, t.ask)
      BY DEF SentAsAsked
    <3>2. Place(t.ask) \notin records
      BY <2>3, <3>1, SoundProgram, ProgramOutcome, NewestShows
    <3>3. BankAt(Newest, s.tx, Len(s.tx.instructions) + 1).records = records \cup {Place(t.ask)}
      <4>1. Meets(Newest, t.tx, t.tx.payer, t.ask)
        BY <2>3, <3>1, ProgramBank
      <4> QED
        BY <2>3, <4>1, NewestShows DEF Meets
    <3>4. records' = BankAt(Newest, s.tx, Len(s.tx.instructions) + 1).records
      BY <1>3, <2>3 DEF Land
    <3> QED
      BY <3>2, <3>3, <3>4
  <2> HIDE DEF ok
  <2>4. Recorded'
    <3>1. ASSUME NEW t \in sent, HasPaid(t.tx)', t.ask.options.program
          PROVE  Place(t.ask) \in records'
      BY <2>1, <2>2, <2>3, <3>1 DEF Recorded
    <3> QED
      BY <2>1, <3>1 DEF Recorded
  <2>5. PaidFor'
    <3>1. ASSUME NEW r \in records'
          PROVE  \E t \in sent : HasPaid(t.tx)' /\ t.ask.options.program /\ Place(t.ask) = r
      BY <2>1, <2>2 DEF PaidFor
    <3> QED
      BY <2>1, <3>1 DEF PaidFor
  <2>6. PaidOnce'
    <3>1. ASSUME NEW t \in sent, NEW u \in sent,
                 t.ask.request.event = u.ask.request.event,
                 t.ask.options.namespace = u.ask.options.namespace,
                 t.ask.options.namespace # None, HasPaid(t.tx)', HasPaid(u.tx)'
          PROVE  t.tx = u.tx
      <4>1. /\ t.ask.options.program /\ u.ask.options.program
            /\ Place(t.ask) = Place(u.ask)
        <5>1. Sound(t.tx.payer, t.ask) /\ Sound(u.tx.payer, u.ask)
          BY DEF SentAsAsked
        <5> QED
          BY <3>1, <5>1, SoundProgram DEF Place
      <4>2. CASE HasPaid(t.tx) /\ HasPaid(u.tx)
        BY <3>1, <4>2 DEF PaidOnce
      <4>3. CASE HasPaid(t.tx) /\ ok /\ u.tx = s.tx
        BY <2>3, <4>1, <4>3 DEF Recorded
      <4>4. CASE HasPaid(u.tx) /\ ok /\ t.tx = s.tx
        BY <2>3, <4>1, <4>4 DEF Recorded
      <4> QED
        BY <2>2, <3>1, <4>2, <4>3, <4>4
    <3> QED
      BY <2>1, <3>1 DEF PaidOnce
  <2>7. DuplicatesRecorded'
    <3>1. ASSUME NEW t \in sent, [tx |-> t.tx, outcome |-> "SETTLED"] \in landed'
          PROVE  t.ask.options.program /\ Place(t.ask) \in records'
      <4>1. CASE [tx |-> t.tx, outcome |-> "SETTLED"] \in landed
        BY <2>1, <4>1 DEF DuplicatesRecorded
      <4>2. CASE t.tx = s.tx /\ Outcome(Newest, t.tx) = "SETTLED"
        <5>1. Sound(t.tx.payer, t.ask) /\ Carries(t.tx, t.tx.payer, t.ask) /\ t.ask \in Asks
          BY DEF SentAsAsked, Sound
        <5>2. t.ask.options.program
          BY <4>2, <5>1, PlainLands
        <5>3. Place(t.ask) \in records
          BY <4>2, <5>1, <5>2, SoundProgram, ProgramOutcome, NewestShows
        <5> QED
          BY <2>1, <5>2, <5>3
      <4> QED
        BY <2>1, <3>1, <4>1, <4>2
    <3> QED
      BY <2>1, <3>1 DEF DuplicatesRecorded
  <2> QED
    BY <2>4, <2>5, <2>6, <2>7
<1> QED
  BY <1>1, <1>2, <1>3, StepsApart DEF ClusterStep

\* A namespace that opens does so with a settlement in it.
LEMMA NamespaceStep ==
  ASSUME TypeOK, SentAsAsked, NoEmptyNamespace, Next
  PROVE  NoEmptyNamespace'
<1> SUFFICES ASSUME NEW n \in Namespaces, history'[n][1] = None, Last(history'[n]) # None
             PROVE  \E r \in records' : r[1] = n
  BY DEF NoEmptyNamespace
<1>1. HistoryStep(n) /\ records \subseteq records'
  BY ChainGrows
<1>2. history[n][1] = None
  BY <1>1, Kept
<1>3. CASE Last(history[n]) # None
  BY <1>1, <1>2, <1>3 DEF NoEmptyNamespace
<1>4. CASE Last(history[n]) = None
  <2>1. history'[n] # history[n]
    BY <1>4
  <2>2. CASE CallerStep
    BY <2>1, <2>2, CallersEffect
  <2>3. ASSUME NEW m \in Namespaces, NEW a \in Wallets, Rotate(m, a)
        PROVE  FALSE
    BY <1>4, <2>1, <2>3, RotateEffect
  <2>4. ASSUME NEW s \in sent, Land(s)
        PROVE  \E r \in records' : r[1] = n
    <3>1. n = s.ask.options.namespace /\ records' = records \cup {Place(s.ask)}
      BY <2>1, <2>4, LandEffect
    <3>2. Place(s.ask)[1] = s.ask.options.namespace
      BY DEF Place
    <3> QED
      BY <3>1, <3>2
  <2> QED
    BY <2>2, <2>3, <2>4, StepsApart DEF ClusterStep
<1> QED
  BY <1>3, <1>4

-----------------------------------------------------------------------------
(* What callers are told                                                   *)

\* What is said of a call depends on it and on its namespace's past, which stays.
LEMMA UnderwayKept ==
  ASSUME NEW c \in Callers, TypeOK, Underway(c), HistoryStep(DemoNamespace(c)),
         call'[c] = call[c]
  PROVE  Underway(c)'
<1> DEFINE n == DemoNamespace(c)
<1>1. /\ DOMAIN history[n] \subseteq DOMAIN history'[n]
      /\ \A k \in DOMAIN history[n] : history'[n][k] = history[n][k]
  <2>1. n \in Namespaces
    BY DemoAsks
  <2>2. HistoryStep(n)
    OBVIOUS
  <2> HIDE DEF n
  <2> QED
    BY <2>1, <2>2, Kept
<1>2. \A authority : DemoOptions(c, authority)' = DemoOptions(c, authority)
  BY DEF DemoOptions, DemoNamespace
<1>3. DemoNamespace(c)' = DemoNamespace(c)
  BY DEF DemoNamespace
<1> QED
  BY <1>1, <1>3 DEF Underway

LEMMA UnderwayStep ==
  ASSUME TypeOK, NodesArePast, SentAsAsked, LandedAsSent, \A c \in Callers : Underway(c), Next
  PROVE  \A c \in Callers : Underway(c)'
<1>1. \A c \in Callers : HistoryStep(DemoNamespace(c))
  BY ChainGrows, DemoAsks
<1>2. \A c \in Callers : call'[c] = call[c] => Underway(c)'
  BY <1>1, UnderwayKept
<1>3. ASSUME NEW c \in Callers, NEW ask \in asks[c], Prepare(c, ask)
      PROVE  \A d \in Callers : Underway(d)'
  <2>1. ask \in Asks /\ TokenNamed(ask) /\ ask.request.event \notin ClickEvents
        /\ Payer[c] \in Wallets
    BY SubmissionAssumption DEF TypeOK
  <2>2. Underway(c)'
    BY <1>3, <2>1, PrepareEffect DEF Underway, Sound
  <2> QED
    BY <1>2, <1>3, <2>2, PrepareEffect
<1>4. ASSUME NEW c \in Callers, NEW ask \in asks[c], Click(c, ask)
      PROVE  \A d \in Callers : Underway(d)'
  <2>1. Underway(c)'
    BY <1>4, ClickEffect DEF Underway
  <2> QED
    BY <1>2, <1>4, <2>1, ClickEffect
<1>5. ASSUME NEW c \in Callers, Read(c)
      PROVE  \A d \in Callers : Underway(d)'
  <2>1. history' = history
    BY <1>5 DEF Read
  <2>2. call[c].phase = "read" /\ call[c].ask.request.event = <<c, call[c].number>>
    BY <1>5, ReadEffect DEF Underway
  <2>3. Underway(c)'
    BY <1>5, <2>1, <2>2, ReadEffect DEF Underway, Sound, DemoNamespace
  <2> QED
    BY <1>2, <1>5, <2>3, ReadEffect
<1>6. ASSUME NEW c \in Callers, Confirm(c) \/ Fault(c)
      PROVE  \A d \in Callers : Underway(d)'
  <2>1. Underway(c)'
    BY <1>6, ConfirmEffect, FaultEffect DEF Underway
  <2> QED
    BY <1>2, <1>6, <2>1, ConfirmEffect, FaultEffect
<1>7. ASSUME NEW c \in Callers, NEW blockhash \in Blockhashes, Send(c, blockhash)
      PROVE  \A d \in Callers : Underway(d)'
  <2>1. history' = history
    BY <1>7 DEF Send
  <2>2. /\ call[c].phase = "send" /\ Sound(Payer[c], call[c].ask)
        /\ call'[c].number = call[c].number /\ call'[c].ask = call[c].ask
        /\ call'[c].view = call[c].view
        /\ \/ call'[c].phase = "returned"
           \/ call'[c].phase = "confirm" /\ Carries(call'[c].tx, Payer[c], call[c].ask)
        /\ \A d \in Callers \ {c} : call'[d] = call[d]
    BY <1>7, SendEffect
  <2>3. Underway(c)'
    BY <2>1, <2>2 DEF Underway, DemoNamespace
  <2> QED
    BY <1>2, <2>2, <2>3
<1>8. CASE ClusterStep
  BY <1>2, <1>8, ClusterEffect
<1> QED
  BY <1>3, <1>4, <1>5, <1>6, <1>7, <1>8, StepsApart DEF CallerStep

\* No two transactions are sent for one click, and none before its call says so.
LEMMA ClickedStep ==
  ASSUME TypeOK, NodesArePast, SentAsAsked, LandedAsSent, \A c \in Callers : Underway(c),
         ClickedOnce, Next
  PROVE  ClickedOnce'
<1> DEFINE Clicked(s, c) ==
             \A k \in Nat : s.ask.request.event = <<c, k>> =>
               /\ k <= call[c].number
               /\ k = call[c].number => /\ call[c].phase \in {"returned", "confirm"}
                                        /\ call[c].phase = "confirm" => s.tx = call[c].tx
<1>1. \A s \in sent, c \in Callers : Clicked(s, c)
  BY DEF ClickedOnce
<1>2. \A c \in Callers : call[c].number \in Nat
  BY DEF TypeOK, Calls
<1>3. ASSUME NEW c \in Callers, sent' = sent, \A d \in Callers \ {c} : call'[d] = call[d],
             \A s \in sent : Clicked(s, c)'
      PROVE  ClickedOnce'
  <2>1. ASSUME NEW s \in sent, NEW d \in Callers
        PROVE  Clicked(s, d)'
    BY <1>1, <1>3
  <2> HIDE DEF Clicked
  <2>2. \A s \in sent', d \in Callers : Clicked(s, d)'
    BY <1>3, <2>1
  <2> QED
    BY <2>2 DEF ClickedOnce, Clicked
<1>4. ASSUME NEW c \in Callers, NEW ask \in asks[c], Prepare(c, ask) \/ Click(c, ask)
      PROVE  ClickedOnce'
  <2>1. /\ call'[c].number = call[c].number + 1 /\ \A d \in Callers \ {c} : call'[d] = call[d]
    BY <1>4, PrepareEffect, ClickEffect
  <2>2. sent' = sent
    BY <1>4 DEF Prepare, Click
  <2>3. \A s \in sent : Clicked(s, c)'
    BY <1>1, <1>2, <2>1
  <2> QED
    BY <1>3, <2>1, <2>2, <2>3
<1>5. ASSUME NEW c \in Callers, Read(c) \/ Confirm(c) \/ Fault(c)
      PROVE  ClickedOnce'
  <2>1. /\ call'[c].number = call[c].number /\ \A d \in Callers \ {c} : call'[d] = call[d]
        /\ \/ call'[c].phase = "returned"
           \/ call'[c].phase = "send" /\ call[c].phase = "read"
    BY <1>5, ReadEffect, ConfirmEffect, FaultEffect
  <2>2. sent' = sent
    BY <1>5 DEF Read, Confirm, Fault
  <2>3. \A s \in sent : Clicked(s, c)'
    BY <1>1, <1>2, <2>1
  <2> QED
    BY <1>3, <2>1, <2>2, <2>3
<1>6. ASSUME NEW c \in Callers, NEW blockhash \in Blockhashes, Send(c, blockhash)
      PROVE  ClickedOnce'
  <2>1. PICK tx, new : tx = TxOf(c, blockhash) /\ new = [tx |-> tx, ask |-> call[c].ask]
    OBVIOUS
  <2>2. /\ call'[c].number = call[c].number /\ \A d \in Callers \ {c} : call'[d] = call[d]
        /\ call[c].phase = "send"
        /\ \/ call'[c].phase = "returned" /\ sent' = sent
           \/ call'[c].phase = "confirm" /\ call'[c].tx = tx /\ sent' = sent \cup {new}
    BY <1>6, <2>1, SendEffect
  <2>3. new.tx = tx /\ new.ask = call[c].ask
    BY <2>1
  <2>4. \/ call[c].ask.request.event = <<c, call[c].number>>
        \/ call[c].ask.request.event \notin ClickEvents
    BY <2>2 DEF Underway
  <2>5. \A s \in sent : Clicked(s, c)'
    BY <1>1, <1>2, <2>2
  <2>6. ASSUME sent' = sent \cup {new}, call'[c].phase = "confirm", call'[c].tx = tx,
               NEW d \in Callers
        PROVE  Clicked(new, d)'
    <3>1. ASSUME NEW k \in Nat, call[c].ask.request.event = <<d, k>>
          PROVE  d = c /\ k = call[c].number
      <4>1. <<d, k>> \in ClickEvents
        BY DEF ClickEvents
      <4> QED
        BY <2>4, <3>1, <4>1
    <3> QED
      BY <1>2, <2>3, <2>2, <2>6, <3>1
  <2>7. \A s \in sent, d \in Callers : Clicked(s, d)'
    BY <1>1, <2>2, <2>5
  <2> HIDE DEF Clicked
  <2>8. \A s \in sent', d \in Callers : Clicked(s, d)'
    BY <2>2, <2>6, <2>7
  <2> QED
    BY <2>8 DEF ClickedOnce, Clicked
<1>7. CASE ClusterStep
  BY <1>7, ClusterEffect DEF ClickedOnce
<1> QED
  BY <1>4, <1>5, <1>6, <1>7, StepsApart DEF CallerStep

\* Most answers need no explanation.
LEMMA Unremarkable ==
  ASSUME NEW c, NEW ask, NEW view, NEW simulated, NEW tx, NEW result,
         result \notin {"SETTLED", "SIGNATURE", "ACCOUNT", "OPENED", "AUTHORITY"}
  PROVE  Explained(c, ask, view, simulated, tx, result)
BY DEF Explained

\* An explanation stays one.
LEMMA ExplainedKept ==
  ASSUME NEW c \in Callers, NEW ask, NEW tx, NEW result,
         NEW view \in DOMAIN history[DemoNamespace(c)],
         NEW simulated \in {0} \cup DOMAIN history[DemoNamespace(c)], TypeOK,
         HistoryStep(DemoNamespace(c)), sent \subseteq sent', landed \subseteq landed',
         Explained(c, ask, view, simulated, tx, result)
  PROVE  Explained(c, ask, view, simulated, tx, result)'
<1>1. PICK n \in Namespaces : n = DemoNamespace(c)
  BY DemoAsks
<1>2. /\ Len(history[n]) \in Nat /\ Len(history'[n]) \in Nat
      /\ Len(history[n]) <= Len(history'[n]) /\ view \in 1..Len(history[n])
      /\ simulated \in {0} \cup 1..Len(history[n])
      /\ \A k \in 1..Len(history[n]) : history'[n][k] = history[n][k]
  BY <1>1, Kept
<1>3. ASSUME NEW k \in (view + 1)..Len(history[n])
      PROVE  k \in (view + 1)..Len(history'[n]) /\ history'[n][k] = history[n][k]
  BY <1>2
<1>4. DemoNamespace(c)' = DemoNamespace(c) /\ history'[n][view] = history[n][view]
  BY <1>2 DEF DemoNamespace
<1>5. \A t : HasPaid(t) => HasPaid(t)'
  BY DEF HasPaid
<1>6. ask.flow = "wallet" =>
        /\ result \notin {"SETTLED", "SIGNATURE", "ACCOUNT"}
        /\ result = "OPENED" =>
             history'[n][view] = None /\ (view + 1)..Len(history'[n]) # {}
        /\ result = "AUTHORITY" =>
             \E k \in ((view + 1)..Len(history'[n]) \cup {simulated}) \ {0} :
               history'[n][k] # Payer[c]
  <2>1. (view + 1)..Len(history[n]) # {} => (view + 1)..Len(history'[n]) # {}
    BY <1>3
  <2>2. ASSUME NEW k \in ((view + 1)..Len(history[n]) \cup {simulated}) \ {0},
               history[n][k] # Payer[c]
        PROVE  \E j \in ((view + 1)..Len(history'[n]) \cup {simulated}) \ {0} :
                 history'[n][j] # Payer[c]
    <3>1. k \in ((view + 1)..Len(history'[n]) \cup {simulated}) \ {0}
      BY <1>3, <2>2
    <3>2. history'[n][k] = history[n][k]
      BY <1>2, <1>3, <2>2
    <3> QED
      BY <2>2, <3>1, <3>2
  <2> QED
    BY <1>1, <1>4, <2>1, <2>2 DEF Explained
<1>7. result = "SETTLED" =>
        \E s \in sent' : /\ HasPaid(s.tx)' /\ s.tx # tx
                         /\ s.ask.request.event = ask.request.event
                         /\ s.ask.options.namespace = ask.options.namespace
  BY <1>5 DEF Explained
<1>8. ask.flow \in {"submit", "submitN", "token"} => result # "SIGNATURE"
  BY DEF Explained
<1> QED
  BY <1>1, <1>4, <1>6, <1>7, <1>8 DEF Explained

\* An event with a record was paid, by another transaction than one that was not.
LEMMA PaidElsewhere ==
  ASSUME NEW ask, NEW told, PaidFor, Place(ask) \in records, ~HasPaid(told)
  PROVE  \E s \in sent : /\ HasPaid(s.tx) /\ s.tx # told
                         /\ s.ask.request.event = ask.request.event
                         /\ s.ask.options.namespace = ask.options.namespace
<1>1. PICK s \in sent : HasPaid(s.tx) /\ Place(s.ask) = Place(ask)
  BY DEF PaidFor
<1>2. /\ s.ask.request.event = ask.request.event
      /\ s.ask.options.namespace = ask.options.namespace
  BY <1>1 DEF Place
<1> QED
  BY <1>1, <1>2

\* What a node answers to a call whose transaction has not paid: it was behind, and said
\* where, or it was not.
LEMMA ExplainedNow ==
  ASSUME NEW c \in Callers, NEW node, NEW simulated, NEW tx, NEW told, TypeOK, StaysOpen,
         PaidFor, Past(node), Underway(c), call[c].phase \in {"send", "confirm"},
         \/ simulated = Len(node.history[DemoNamespace(c)])
         \/ node.history = history,
         Carries(tx, Payer[c], call[c].ask), ~HasPaid(told),
         call[c].ask.flow = "wallet" =>
           \A s \in sent : s.ask.request.event = call[c].ask.request.event => ~HasPaid(s.tx)
  PROVE  Explained(c, call[c].ask, call[c].view, simulated, told, Outcome(node, tx))
<1> DEFINE ask == call[c].ask
           view == call[c].view
<1>1. Sound(Payer[c], ask)
  BY DEF Underway
<1>2. CASE ~ask.options.program
  <2>1. Outcome(node, tx) = "ok"
    BY <1>1, <1>2, PlainLands DEF Sound
  <2> QED
    BY <2>1, Unremarkable
<1>3. CASE ask.options.program
  <2>1. PICK outcome : outcome = Outcome(node, tx)
    OBVIOUS
  <2>2. /\ outcome \in {"ok", "OPENED", "AUTHORITY", "ACCOUNT", "SETTLED", "FROZEN"}
        /\ outcome = "SETTLED" => Place(ask) \in node.records
        /\ outcome = "ACCOUNT" => ask.flow = "token"
        /\ outcome = "OPENED" => Opens(ask) /\ Latest(node, ask.options.namespace) # None
        /\ outcome = "AUTHORITY" =>
             /\ ~Opens(ask)
             /\ Latest(node, ask.options.namespace) # AuthorityOf(Payer[c], ask.options)
    BY <1>1, <1>3, <2>1, SoundProgram, ProgramOutcome
  <2>3. outcome = "SETTLED" => Place(ask) \in records
    BY <2>2 DEF Past
  <2>4. outcome = "SETTLED" =>
          \E s \in sent : /\ HasPaid(s.tx) /\ s.tx # told
                          /\ s.ask.request.event = ask.request.event
                          /\ s.ask.options.namespace = ask.options.namespace
    BY <2>3, PaidElsewhere
  <2>5. ASSUME ask.flow = "wallet"
        PROVE  LET n == DemoNamespace(c)
                   later == (view + 1)..Len(history[n])
               IN /\ outcome \notin {"SETTLED", "SIGNATURE", "ACCOUNT"}
                  /\ outcome = "OPENED" => history[n][view] = None /\ later # {}
                  /\ outcome = "AUTHORITY" =>
                       \E k \in (later \cup {simulated}) \ {0} : history[n][k] # Payer[c]
    <3>1. PICK n \in Namespaces : n = DemoNamespace(c)
      BY DemoAsks
    <3>2. /\ view \in DOMAIN history[n] /\ history[n][view] \in {None, Payer[c]}
          /\ ask.options.namespace = n /\ ask.options.authority = None
          /\ ask.options.create # None <=> history[n][view] = None
      BY <2>5, <3>1, DemoAsks DEF Underway
    <3>3. /\ history[n] \in Seq(Wallets \cup {None}) /\ history[n] # <<>>
          /\ None \notin Wallets
      BY SubmissionAssumption DEF TypeOK
    <3>4. Len(history[n]) \in Nat /\ view \in 1..Len(history[n])
      BY <3>2, <3>3
    <3>5. PICK shown, at : shown = node.history[n] /\ at = Len(shown)
      OBVIOUS
    <3>6. /\ shown \in Seq(Wallets \cup {None}) /\ shown # <<>>
          /\ Len(shown) <= Len(history[n])
          /\ \A k \in 1..Len(shown) : shown[k] = history[n][k]
          /\ Latest(node, n) = shown[Len(shown)]
      BY <3>5 DEF Past, Latest, Last
    <3>7. /\ at \in 1..Len(history[n])
          /\ Latest(node, n) = history[n][at]
      BY <3>4, <3>5, <3>6
    <3>8. simulated = at \/ at = Len(history[n])
      BY <3>1, <3>5
    <3>9. Opens(ask) <=> history[n][view] = None
      BY <2>5, <3>2 DEF Opens
    <3>10. AuthorityOf(Payer[c], ask.options) = Payer[c]
      BY <3>2 DEF AuthorityOf
    <3>11. outcome # "SETTLED"
      BY <2>4, <2>5
    <3> HIDE DEF ask, view
    <3>12. outcome = "OPENED" => history[n][view] = None /\ (view + 1)..Len(history[n]) # {}
      <4>1. SUFFICES ASSUME outcome = "OPENED"
                     PROVE  history[n][view] = None /\ (view + 1)..Len(history[n]) # {}
        OBVIOUS
      <4>2. history[n][view] = None /\ history[n][at] # None
        BY <2>2, <3>2, <3>7, <3>9, <4>1
      <4>3. view = 1
        BY <3>1, <3>2, <3>4, <4>2 DEF StaysOpen
      <4>4. at \in (view + 1)..Len(history[n])
        BY <3>7, <4>2, <4>3
      <4> QED
        BY <4>2, <4>4
    <3>13. outcome = "AUTHORITY" =>
             \E k \in ((view + 1)..Len(history[n]) \cup {simulated}) \ {0} :
               history[n][k] # Payer[c]
      <4>1. SUFFICES ASSUME outcome = "AUTHORITY"
                     PROVE  at \in ((view + 1)..Len(history[n]) \cup {simulated}) \ {0}
                              /\ history[n][at] # Payer[c]
        OBVIOUS
      <4>2. history[n][view] = Payer[c] /\ history[n][at] # Payer[c]
        BY <2>2, <3>2, <3>7, <3>9, <3>10, <4>1
      <4> QED
        BY <3>4, <3>7, <3>8, <4>2
    <3> QED
      BY <2>2, <2>5, <3>1, <3>11, <3>12, <3>13
  <2> QED
    BY <2>1, <2>2, <2>4, <2>5 DEF Explained
<1> QED
  BY <1>2, <1>3

\* What a caller has been told: FailuresExplained, call by call.
Told(c) ==
  call[c].phase = "returned" =>
    Explained(c, call[c].ask, call[c].view, call[c].simulated, call[c].tx, call[c].result)

\* What a waiting caller is going to hear: AnswersExplained, call by call.
Awaited(c) ==
  call[c].phase = "confirm" =>
    \A l \in landed : l.tx = call[c].tx =>
      Explained(c, call[c].ask, call[c].view, call[c].simulated, call[c].tx, l.outcome)

LEMMA CallByCall ==
  /\ FailuresExplained <=> \A c \in Callers : Told(c)
  /\ AnswersExplained <=> \A c \in Callers : Awaited(c)
BY DEF FailuresExplained, AnswersExplained, Told, Awaited, Explained

\* What is said of a call, with whatever it has sent, stays said.
LEMMA SaidBefore ==
  ASSUME NEW c \in Callers, NEW ask, NEW view, NEW simulated, TypeOK, SentAsAsked, Next,
         view = call[c].view, simulated = call[c].simulated
  PROVE  \A tx, result : Explained(c, ask, view, simulated, tx, result)
                           => Explained(c, ask, view, simulated, tx, result)'
<1>1. HistoryStep(DemoNamespace(c)) /\ sent \subseteq sent' /\ landed \subseteq landed'
  BY ChainGrows, DemoAsks
<1>2. /\ view \in DOMAIN history[DemoNamespace(c)]
      /\ simulated \in {0} \cup DOMAIN history[DemoNamespace(c)]
  BY DEF TypeOK
<1> QED
  BY <1>1, <1>2, ExplainedKept

\* A call that does not step, in a chain that grows.
LEMMA OthersExplained ==
  ASSUME NEW c \in Callers, TypeOK, SentAsAsked, Next, Told(c), Awaited(c),
         call'[c] = call[c], landed' = landed
  PROVE  Told(c)' /\ Awaited(c)'
<1>1. PICK ask, view, simulated, tx, told :
        /\ ask = call[c].ask /\ view = call[c].view /\ simulated = call[c].simulated
        /\ tx = call[c].tx /\ told = call[c].result
  OBVIOUS
<1>2. \A result : Explained(c, ask, view, simulated, tx, result)
                    => Explained(c, ask, view, simulated, tx, result)'
  BY <1>1, SaidBefore
<1>3. Told(c)'
  BY <1>1, <1>2 DEF Told
<1>4. Awaited(c)'
  BY <1>1, <1>2 DEF Awaited
<1> QED
  BY <1>3, <1>4

LEMMA ExplanationStep ==
  ASSUME TypeOK, NodesArePast, StaysOpen, SentAsAsked, LandedAsSent, PaidFor,
         DuplicatesRecorded, \A c \in Callers : Underway(c),
         ClickedOnce, \A c \in Callers : Told(c) /\ Awaited(c), Next
  PROVE  \A c \in Callers : Told(c)' /\ Awaited(c)'
<1>1. ASSUME NEW c \in Callers, landed' = landed, \A d \in Callers \ {c} : call'[d] = call[d],
             Told(c)', Awaited(c)'
      PROVE  \A d \in Callers : Told(d)' /\ Awaited(d)'
  BY <1>1, OthersExplained
<1>2. ASSUME NEW c \in Callers, NEW ask \in asks[c], Prepare(c, ask) \/ Click(c, ask)
      PROVE  \A d \in Callers : Told(d)' /\ Awaited(d)'
  <2>1. landed' = landed
    BY <1>2 DEF Prepare, Click
  <2>2. /\ \A d \in Callers \ {c} : call'[d] = call[d]
        /\ \/ call'[c].phase \in {"read", "send"}
           \/ call'[c].phase = "returned" /\ call'[c].result \in CheckNames
    BY <1>2, PrepareEffect, ClickEffect
  <2>3. Told(c)' /\ Awaited(c)'
    <3>1. call'[c].phase \in {"read", "send"} => Told(c)' /\ Awaited(c)'
      BY DEF Told, Awaited
    <3>2. call'[c].phase = "returned" /\ call'[c].result \in CheckNames => Told(c)' /\ Awaited(c)'
      BY Unremarkable DEF Told, Awaited, CheckNames, Explained
    <3> QED
      BY <2>2, <3>1, <3>2
  <2> QED
    BY <1>1, <2>1, <2>2, <2>3
<1>3. ASSUME NEW c \in Callers, Read(c) \/ Fault(c)
      PROVE  \A d \in Callers : Told(d)' /\ Awaited(d)'
  <2>1. landed' = landed
    BY <1>3 DEF Read, Fault
  <2>2. /\ \A d \in Callers \ {c} : call'[d] = call[d]
        /\ \/ call'[c].phase = "send"
           \/ /\ call'[c].phase = "returned"
              /\ call'[c].result \in CheckNames \cup {"NOT_OURS", "FUNDS", "unknown"}
    BY <1>3, ReadEffect, FaultEffect
  <2>3. Told(c)' /\ Awaited(c)'
    BY <2>2 DEF Told, Awaited, CheckNames, Explained
  <2> QED
    BY <1>1, <2>1, <2>2, <2>3
<1>4. ASSUME NEW c \in Callers, Confirm(c)
      PROVE  \A d \in Callers : Told(d)' /\ Awaited(d)'
  <2>1. landed' = landed
    BY <1>4 DEF Confirm
  <2>2. PICK l \in landed : l.tx = call[c].tx /\ call'[c].result = l.outcome
    BY <1>4, ConfirmEffect
  <2>3. PICK ask, view, simulated, tx :
          /\ ask = call[c].ask /\ view = call[c].view /\ simulated = call[c].simulated
          /\ tx = call[c].tx
    OBVIOUS
  <2>4. Explained(c, ask, view, simulated, tx, l.outcome)
    BY <1>4, <2>2, <2>3 DEF Awaited, Confirm
  <2>5. Explained(c, ask, view, simulated, tx, l.outcome)'
    BY <2>3, <2>4, SaidBefore
  <2>6. /\ call'[c].phase = "returned" /\ call'[c].ask = ask /\ call'[c].view = view
        /\ call'[c].simulated = simulated
        /\ call'[c].tx = tx /\ \A d \in Callers \ {c} : call'[d] = call[d]
    BY <1>4, <2>3, ConfirmEffect
  <2>7. Told(c)' /\ Awaited(c)'
    BY <2>2, <2>5, <2>6 DEF Told, Awaited
  <2> QED
    BY <1>1, <2>1, <2>6, <2>7
<1>5. ASSUME NEW c \in Callers, NEW blockhash \in Blockhashes, Send(c, blockhash)
      PROVE  \A d \in Callers : Told(d)' /\ Awaited(d)'
  <2>1. PICK ask, view, tx, told :
          /\ ask = call[c].ask /\ view = call[c].view /\ tx = TxOf(c, blockhash)
          /\ told = call[c].tx
    OBVIOUS
  <2>2. /\ call[c].phase = "send" /\ Sound(Payer[c], ask) /\ Carries(tx, Payer[c], ask)
        /\ \A d \in Callers \ {c} : call'[d] = call[d]
        /\ call'[c].ask = ask /\ call'[c].view = view
        /\ \/ /\ call'[c].phase = "returned" /\ call'[c].tx = told
              /\ \E node : /\ Past(node)
                           /\ call'[c].simulated = Len(node.history[DemoNamespace(c)])
                           /\ call'[c].result = NotSent(node, Signers(Payer[c], ask, tx), tx)
           \/ call'[c].phase = "confirm" /\ call'[c].tx = tx
    BY <1>5, <2>1, SendEffect
  <2>3. landed' = landed
    BY <1>5 DEF Send
  \* A click's event is sent by that click alone, and it has sent nothing yet.
  <2>4. ask.flow = "wallet" => \A s \in sent : s.ask.request.event # ask.request.event
    <3>1. ASSUME ask.flow = "wallet", NEW s \in sent,
                 s.ask.request.event = ask.request.event
          PROVE  FALSE
      <4>1. ask.request.event = <<c, call[c].number>> /\ call[c].number \in Nat
        BY <2>1, <2>2, <3>1 DEF Underway, TypeOK, Calls
      <4> QED
        BY <2>2, <3>1, <4>1 DEF ClickedOnce
    <3> QED
      BY <3>1
  <2>5. HistoryStep(DemoNamespace(c)) /\ sent \subseteq sent' /\ landed \subseteq landed'
    BY ChainGrows, DemoAsks
  <2>6. /\ view \in DOMAIN history[DemoNamespace(c)]
        /\ call'[c].simulated \in {0} \cup DOMAIN history[DemoNamespace(c)]
    BY <1>5, <2>1, SendEffect DEF TypeOK
  <2>7. CASE call'[c].phase = "confirm" /\ call'[c].tx = tx
    <3>1. ASSUME NEW l \in landed, l.tx = tx
          PROVE  \A simulated : Explained(c, ask, view, simulated, tx, l.outcome)
      <4>1. PICK t \in sent : /\ t.tx = tx
                              /\ t.ask.options.program <=> ask.options.program
                              /\ ask.options.program => Place(t.ask) = Place(ask)
        BY <2>2, <3>1, LandedBefore
      <4>2. ask.flow # "wallet"
        <5>1. SUFFICES ASSUME ask.flow = "wallet"
                       PROVE  FALSE
          OBVIOUS
        <5>2. ask.options.program
          BY <2>1, <2>2, <5>1, DemoAsks DEF Underway
        <5> QED
          BY <2>4, <4>1, <5>1, <5>2 DEF Place
      <4>3. l.outcome \in Outcomes /\ l = [tx |-> tx, outcome |-> l.outcome]
            /\ \A m \in landed : m.tx = tx => m = l
        BY <3>1 DEF LandedAsSent
      <4>4. ASSUME l.outcome = "SETTLED"
            PROVE  \E s \in sent : /\ HasPaid(s.tx) /\ s.tx # tx
                                   /\ s.ask.request.event = ask.request.event
                                   /\ s.ask.options.namespace = ask.options.namespace
        <5>1. Place(ask) \in records
          BY <4>1, <4>3, <4>4 DEF DuplicatesRecorded
        <5>2. ~HasPaid(tx)
          <6>1. PICK paid : paid = [tx |-> tx, outcome |-> "ok"]
            OBVIOUS
          <6>2. paid.tx = tx /\ paid.outcome # l.outcome
            BY <4>4, <6>1
          <6> QED
            BY <4>3, <6>1, <6>2 DEF HasPaid
        <5> QED
          BY <5>1, <5>2, PaidElsewhere
      <4> QED
        BY <4>2, <4>3, <4>4 DEF Explained, Outcomes
    <3>2. PICK simulated : simulated = call'[c].simulated
      OBVIOUS
    <3>3. ASSUME NEW l \in landed, l.tx = tx
          PROVE  Explained(c, ask, view, simulated, tx, l.outcome)'
      BY <2>5, <2>6, <3>1, <3>2, <3>3, ExplainedKept
    <3>4. Told(c)' /\ Awaited(c)'
      BY <2>2, <2>3, <2>7, <3>2, <3>3 DEF Told, Awaited
    <3> QED
      BY <1>1, <2>2, <2>3, <3>4
  <2>8. CASE /\ call'[c].phase = "returned" /\ call'[c].tx = told
             /\ \E node : /\ Past(node)
                          /\ call'[c].simulated = Len(node.history[DemoNamespace(c)])
                          /\ call'[c].result = NotSent(node, Signers(Payer[c], ask, tx), tx)
    <3>1. PICK node : /\ Past(node)
                      /\ call'[c].simulated = Len(node.history[DemoNamespace(c)])
                      /\ call'[c].result = NotSent(node, Signers(Payer[c], ask, tx), tx)
      BY <2>8
    <3>2. ask.flow = "wallet" => ask.options.authority = None
      BY <2>1, <2>2, DemoAsks DEF Underway
    <3>3. Signers(Payer[c], ask, tx) = Required(tx)
      BY <2>2, <3>2, RightSigners DEF Sound
    <3>4. call'[c].result \in {"PROCESSED", Outcome(node, tx)}
      BY <3>1, <3>3 DEF NotSent
    <3>5. told = <<>>
      BY <2>1, <2>2 DEF Underway
    <3>6. ~HasPaid(told)
      <4>1. ASSUME NEW l \in landed
            PROVE  l.tx # <<>>
        <5>1. PICK s \in sent : s.tx = l.tx
          BY DEF LandedAsSent
        <5>2. l.tx = [payer |-> s.tx.payer, instructions |-> s.tx.instructions,
                      blockhash |-> s.tx.blockhash]
          BY <5>1 DEF SentAsAsked
        <5>3. "payer" \in DOMAIN l.tx /\ DOMAIN <<>> = {}
          BY <5>2
        <5> QED
          BY <5>3
      <4> QED
        BY <3>5, <4>1 DEF HasPaid
    <3>7. PICK simulated, result : simulated = call'[c].simulated /\ result = call'[c].result
      OBVIOUS
    <3>8. Explained(c, ask, view, simulated, told, Outcome(node, tx))
      BY <2>1, <2>2, <2>4, <3>1, <3>6, <3>7, ExplainedNow
    <3>9. Explained(c, ask, view, simulated, told, "PROCESSED")
      BY Unremarkable
    <3>10. Explained(c, ask, view, simulated, told, result)
      BY <3>4, <3>7, <3>8, <3>9
    <3>11. Explained(c, ask, view, simulated, told, result)'
      BY <2>5, <2>6, <3>7, <3>10, ExplainedKept
    <3>12. Told(c)' /\ Awaited(c)'
      BY <2>2, <2>8, <3>7, <3>11 DEF Told, Awaited
    <3> QED
      BY <1>1, <2>2, <2>3, <3>12
  <2> QED
    BY <2>2, <2>7, <2>8
<1>6. ASSUME NEW n \in Namespaces, NEW a \in Wallets, Rotate(n, a)
      PROVE  \A d \in Callers : Told(d)' /\ Awaited(d)'
  <2>1. landed' = landed /\ call' = call
    BY <1>6, RotateEffect
  <2> QED
    BY <2>1, OthersExplained
<1>7. ASSUME NEW s \in sent, Land(s), NEW c \in Callers
      PROVE  Told(c)' /\ Awaited(c)'
  <2>1. PICK ask, view, simulated, tx, told, outcome, new :
          /\ ask = call[c].ask /\ view = call[c].view /\ simulated = call[c].simulated
          /\ tx = call[c].tx /\ told = call[c].result
          /\ outcome = Outcome(Newest, s.tx) /\ new = [tx |-> s.tx, outcome |-> outcome]
    OBVIOUS
  <2>2. /\ landed' = landed \cup {new} /\ call' = call
        /\ \A l \in landed : l.tx # s.tx
    BY <1>7, <2>1, LandEffect, NewestShows DEF HasLanded
  <2>3. \A result : Explained(c, ask, view, simulated, tx, result)
                      => Explained(c, ask, view, simulated, tx, result)'
    BY <2>1, SaidBefore
  <2>4. Told(c)'
    BY <2>1, <2>2, <2>3 DEF Told
  <2>5. ASSUME call[c].phase = "confirm", tx = s.tx
        PROVE  Explained(c, ask, view, simulated, tx, outcome)
    <3>1. Carries(tx, Payer[c], ask)
      BY <2>1, <2>5 DEF Underway
    <3>2. ~HasPaid(tx)
      BY <2>2, <2>5 DEF HasPaid
    <3>3. ASSUME ask.flow = "wallet", NEW t \in sent,
                 t.ask.request.event = ask.request.event
          PROVE  ~HasPaid(t.tx)
      <4>1. ask.request.event = <<c, call[c].number>> /\ call[c].number \in Nat
        BY <2>1, <2>5, <3>3 DEF Underway, TypeOK, Calls
      <4>2. t.tx = tx
        BY <2>1, <2>5, <3>3, <4>1 DEF ClickedOnce
      <4> QED
        BY <3>2, <4>2
    <3>4. Past(Newest) /\ Newest.history = history
      BY NewestIsPast, NewestShows
    <3>5. Explained(c, ask, view, simulated, tx, Outcome(Newest, tx))
      BY <2>1, <2>5, <3>1, <3>2, <3>3, <3>4, ExplainedNow
    <3> QED
      BY <2>1, <2>5, <3>5
  <2>6. new.tx = s.tx /\ new.outcome = outcome
    BY <2>1
  <2>7. ASSUME call[c].phase = "confirm", NEW l \in landed', l.tx = tx
        PROVE  Explained(c, ask, view, simulated, tx, l.outcome)'
    BY <2>1, <2>2, <2>3, <2>5, <2>6, <2>7 DEF Awaited
  <2>8. Awaited(c)'
    BY <2>1, <2>2, <2>7 DEF Awaited
  <2> QED
    BY <2>4, <2>8
<1> QED
  BY <1>2, <1>3, <1>4, <1>5, <1>6, <1>7, StepsApart DEF CallerStep, ClusterStep

-----------------------------------------------------------------------------
(* Theorems                                                                *)

LEMMA InitEstablishes ==
  ASSUME Init
  PROVE  IInv
<1>1. /\ records = {} /\ sent = {} /\ landed = {} /\ behind = {} /\ call = [c \in Callers |-> Idle]
  BY DEF Init
<1>2. PICK s \in Scenarios : asks = s.asks /\ history = [n \in Namespaces |-> <<s.opened[n]>>]
  BY DEF Init
<1>3. /\ s.opened \in [Namespaces -> Wallets \cup {None}] /\ s.asks \in [Callers -> SUBSET Asks]
      /\ \A c \in Callers : \A ask \in s.asks[c] :
           ask.request.event \notin ClickEvents /\ TokenNamed(ask)
  BY SubmissionAssumption DEF TokenNamed
<1>4. \A n \in Namespaces : /\ history[n] = <<s.opened[n]>>
                            /\ history[n] \in Seq(Wallets \cup {None}) /\ history[n] # <<>>
                            /\ DOMAIN history[n] = {1} /\ Last(history[n]) = history[n][1]
  BY <1>2, <1>3 DEF Last
<1>5. Idle \in Calls /\ Idle.phase = "returned" /\ Idle.view = 1 /\ Idle.result = "none"
      /\ Idle.simulated = 0
  BY DEF Idle, Calls, Results
<1>6. TypeOK
  <2>1. asks \in [Callers -> SUBSET Asks]
        /\ \A c \in Callers : \A ask \in asks[c] :
             TokenNamed(ask) /\ ask.request.event \notin ClickEvents
    BY <1>2, <1>3
  <2>2. history \in [Namespaces -> Seq(Wallets \cup {None})]
    BY <1>2, <1>4
  <2>3. call \in [Callers -> Calls]
    BY <1>1, <1>5
  <2>4. \A c \in Callers : /\ call[c].view \in DOMAIN history[DemoNamespace(c)]
                            /\ call[c].simulated \in {0} \cup DOMAIN history[DemoNamespace(c)]
    <3>1. \A c \in Callers : DemoNamespace(c) \in Namespaces
      BY DemoAsks
    <3> QED
      BY <1>1, <1>4, <1>5, <3>1
  <2> QED
    BY <1>4, <2>1, <2>2, <2>3, <2>4 DEF TypeOK
<1>7. /\ NodesArePast /\ SentAsAsked /\ LandedAsSent /\ Recorded /\ PaidFor
      /\ DuplicatesRecorded /\ PaidOnce /\ ClickedOnce
  BY <1>1 DEF NodesArePast, SentAsAsked, LandedAsSent, Recorded, PaidFor, DuplicatesRecorded,
              PaidOnce, ClickedOnce
<1>8. NoEmptyNamespace /\ StaysOpen
  BY <1>4 DEF NoEmptyNamespace, StaysOpen
<1>9. \A c \in Callers : Underway(c)
  BY <1>1, <1>5 DEF Underway
<1>10. \A c \in Callers : Told(c) /\ Awaited(c)
  BY <1>1, <1>5, Unremarkable DEF Told, Awaited
<1> QED
  BY <1>6, <1>7, <1>8, <1>9, <1>10, CallByCall DEF IInv

LEMMA StepPreserves ==
  ASSUME IInv, [Next]_vars
  PROVE  IInv'
<1>1. CASE Next
  <2>1. /\ TypeOK /\ NodesArePast /\ StaysOpen /\ SentAsAsked /\ LandedAsSent
        /\ Recorded /\ PaidFor /\ DuplicatesRecorded /\ PaidOnce /\ NoEmptyNamespace /\ ClickedOnce /\ \A c \in Callers : Underway(c)
        /\ \A c \in Callers : Told(c) /\ Awaited(c)
    BY CallByCall DEF IInv
  <2>2. TypeOK' /\ NodesArePast' /\ StaysOpen' /\ SentAsAsked' /\ LandedAsSent'
    BY <1>1, <2>1, TypeStep, PastStep, SentStep
  <2>3. Recorded' /\ PaidFor' /\ DuplicatesRecorded' /\ PaidOnce' /\ NoEmptyNamespace'
    BY <1>1, <2>1, PaymentStep, NamespaceStep
  <2>4. (\A c \in Callers : Underway(c))' /\ ClickedOnce'
    BY <1>1, <2>1, UnderwayStep, ClickedStep
  <2>5. \A c \in Callers : Told(c)' /\ Awaited(c)'
    BY <1>1, <2>1, ExplanationStep
  <2>6. FailuresExplained' /\ AnswersExplained'
    BY <2>5 DEF FailuresExplained, AnswersExplained, Told, Awaited, Explained
  <2> QED
    BY <2>2, <2>3, <2>4, <2>6 DEF IInv
<1>2. CASE UNCHANGED vars
  <2>1. UNCHANGED <<asks, history, records, sent, landed, behind, call>>
    BY <1>2 DEF vars
  <2>2. TypeOK'
    BY <2>1 DEF IInv, TypeOK, Calls, DemoNamespace
  <2>3. SentAsAsked' /\ LandedAsSent' /\ ClickedOnce'
    BY <2>1 DEF IInv, SentAsAsked, LandedAsSent, ClickedOnce
  <2>4. Recorded' /\ PaidFor' /\ DuplicatesRecorded' /\ PaidOnce'
    BY <2>1 DEF IInv, Recorded, PaidFor, DuplicatesRecorded, PaidOnce, HasPaid
  <2>5. NoEmptyNamespace' /\ NodesArePast' /\ StaysOpen'
    BY <2>1 DEF IInv, NoEmptyNamespace, NodesArePast, Past, StaysOpen
  <2>6. (\A c \in Callers : Underway(c))'
    BY <2>1 DEF IInv, Underway, DemoNamespace, DemoOptions
  <2>7. FailuresExplained'
    <3>1. ASSUME NEW c \in Callers, call[c].phase = "returned"
          PROVE  Explained(c, call[c].ask, call[c].view, call[c].simulated, call[c].tx, call[c].result)'
      <4>1. Explained(c, call[c].ask, call[c].view, call[c].simulated, call[c].tx, call[c].result)
        BY <3>1, CallByCall DEF IInv, Told
      <4> QED
        BY <2>1, <4>1 DEF Explained, DemoNamespace, HasPaid
    <3> QED
      BY <2>1, <3>1 DEF FailuresExplained, Explained
  <2>8. AnswersExplained'
    <3>1. ASSUME NEW c \in Callers, call[c].phase = "confirm",
                 NEW l \in landed, l.tx = call[c].tx
          PROVE  Explained(c, call[c].ask, call[c].view, call[c].simulated, call[c].tx, l.outcome)'
      <4>1. Explained(c, call[c].ask, call[c].view, call[c].simulated, call[c].tx, l.outcome)
        BY <3>1 DEF IInv, AnswersExplained
      <4> QED
        BY <2>1, <4>1 DEF Explained, DemoNamespace, HasPaid
    <3> QED
      BY <2>1, <3>1 DEF AnswersExplained
  <2> QED
    BY <2>2, <2>3, <2>4, <2>5, <2>6, <2>7, <2>8 DEF IInv
<1> QED
  BY <1>1, <1>2

THEOREM Invariant == Spec => []IInv
BY InitEstablishes, StepPreserves, PTL DEF Spec

\* However often a request is retried, with whichever options and through whichever
\* function, an event is paid by one transaction in each namespace that is given for it
\* (client.ts:526-533, 857-889).
THEOREM EventsArePaidOnce == Spec => []PaidOnce
<1>1. IInv => PaidOnce
  BY DEF IInv
<1> QED
  BY <1>1, Invariant, PTL

\* With the program or by plain transfers, for any shares, scale and asset, what a
\* transaction that succeeds pays each wallet is what the split of its scaled request
\* says (client.ts:504-512, 595-630).
THEOREM PaymentsAreAsAsked == Spec => []PaysTheRequest
<1>1. SentAsAsked => PaysTheRequest
  <2> SUFFICES ASSUME SentAsAsked, NEW s \in sent, NEW w \in Wallets
               PROVE  SumOver(Received(s.tx, w)) = Owed(s.ask.request, w)
    BY DEF PaysTheRequest, Received, Paying
  <2>1. Sound(s.tx.payer, s.ask) /\ Carries(s.tx, s.tx.payer, s.ask)
    BY DEF SentAsAsked
  <2> QED
    BY <2>1, ProgramPays, PlainPays
<1>2. IInv => PaysTheRequest
  BY <1>1 DEF IInv
<1> QED
  BY <1>2, Invariant, PTL

\* Every namespace that a call opened has a settlement in it: the namespace that is
\* opened is the one that is settled in, and both happen or neither (client.ts:575-594).
THEOREM NoNamespaceInVain == Spec => []NoEmptyNamespace
<1>1. IInv => NoEmptyNamespace
  BY DEF IInv
<1> QED
  BY <1>1, Invariant, PTL

\* What a caller is told is explained by what happened after it looked or by how far the
\* node that refused it was behind, however the calls, the blocks, the changes of
\* authority and the nodes' delays interleave (client.ts:891-905, App.tsx:143-186,
\* security-model.md:183).
THEOREM AnswersAreTrue == Spec => []FailuresExplained
<1>1. IInv => FailuresExplained
  BY DEF IInv
<1> QED
  BY <1>1, Invariant, PTL
=============================================================================
