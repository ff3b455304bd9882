# Synxed settlement: TLA+ specifications

These modules specify the Synxed settlement protocol: the on-chain settlement program, the
split arithmetic it shares with its SDK, the studio worker that settles events through it
and keeps a payout ledger, and the demos that pay through it once. TLC checks them on small
instances; TLAPS proves for every value of the constants every safety property of the passing
runs: those of the arithmetic and the codec, the program, the worker, the submissions,
the opening of namespaces, the readers of a record's history, the ledger, and the demos.

Paths below are relative to the repository's root.

## 1. The system

| Part | Source | State | Operations |
| --- | --- | --- | --- |
| Split arithmetic | `programs/synxed-settlement/src/split.rs`, mirrored by `sdk/typescript/src/split.ts` | none | `split_shares` and its three-way wrapper |
| Settlement program | `processor.rs`, `state.rs`, `lib.rs` | namespaces (creator, id, authority) and settlement records, each an account at an address derived from its seeds | create a namespace, rotate its authority, settle natively, settle in tokens |
| Instruction codec | `instruction.rs`, `sdk/typescript/src/instruction.ts` | none | pack, unpack, derive addresses |
| SDK client | `sdk/typescript/src/client.ts` | none of its own; reads and sends through an RPC provider | open a namespace; check options, build, sign and submit settlements with the program or without; read records |
| SDK ledger | `sdk/typescript/src/ledger.ts` | none of its own | find the transaction that created a record, compare it with a request, turn it into ledger rows, allocate a pool |
| Studio store | `examples/studio-backend/src/store.ts` | SQLite: events, attempts, settlements, ledger entries, pool payouts | one SQL transaction per write |
| Studio worker | `examples/studio-backend/src/worker.ts` | what it holds between two `await`s | run, settle, resolve, recheck |
| Studio CLI | `cli.ts`, `config.ts`, `events.ts` | none | enqueue, run, resolve, status, ledger |
| Demos | `examples/gaming-payment-demo`, `examples/wallet-connect-demo` | a file of demo recipients; what one run holds between two `await`s | resolve recipients, see to the funds, open the namespace, pay once, wait for evidence |
| Cluster and RPC providers | external | accounts, blocks, what is confirmed and finalized | run transactions, answer reads late, in part or not at all |

How they interact. The CLI enqueues events in the store and starts the worker.
The worker stores an attempt, signs a settlement transaction built by the SDK,
stores its signature and bytes, sends it, and from then on decides only from the
chain: signature statuses and the block height, the settlement record read
through one or two providers, and the finalized transaction that created the
record, compared with every request stored for the event. The program on the
cluster is the last word: it creates a record per namespace and event, once.

What is hard in it, and what makes each part correct:

- **Split.** Floors in bounded integers, the rest to the last share; the program
  and the SDK must agree on every verdict. Correct: an accepted split pays the
  amount exactly, each share within a unit of its part, the last subtraction
  never underflows.
- **Program.** Every account is the caller's choice; lamports can be sent to any
  address beforehand; a recipient may appear twice, be the payer, or be a record
  about to be created. Correct: an event is settled at most once per namespace,
  only by the authority of the moment; records are permanent and rent-exempt;
  nobody pays without signing; nobody can make an event impossible to settle.
- **Worker.** It may die between any two awaits; the send may fail after the
  cluster has the transaction; providers lag, disagree and fail; blockhashes
  expire; the operator may restart it with other settings or start a second one.
  Correct: no two attempts that can both land, no retry of what landed, no
  verdict the chain contradicts, and every event decided in the end.
- **SDK readers.** A record's history is paged, may be pruned, and contains
  decoys; a record's account may be read where it does not exist yet. Correct:
  the creating transaction or an error, never another one.
- **Namespace opening.** Two processes may open the same namespace, and an answer
  may come from before the other's transaction.
- **Submission.** Options get lost on the way from one function to the next, a
  send may fail after the cluster has the transaction, and the caller calls again
  with another blockhash, another request or another function. Correct: callers
  who name a namespace pay an event once, each wallet gets what the SDK reports,
  no namespace is opened for nothing, and a refusal has its reason.
- **Evidence, ledger entries and pools.** A settlement's transfers are found in
  the inner instructions of a transaction that may hold more; rows are inserted
  under deterministic ids, and a second insertion is ignored; a pool is shared
  out as the caller says, if the shares are positive, exact and of different
  beneficiaries. Correct: the program's own settlement always reconciles, another
  one never does, and the rows credit exactly what the chain moved.
- **Demos.** Runs share a payer, its namespace and a file that is rewritten in place;
  funds are checked before they are spent; a confirmed payment may still be undone.
  Correct: a verdict about a payment stays true, wallets of one run are not replaced by
  another's overrides, a funded run is not refused for lamports, and every run ends.
- **Codec.** Byte layouts are written by hand in Rust and twice in TypeScript.
  Correct: the three agree on every byte string, and on where accounts stand.

## 2. Modules

| Module | Kind | Models |
| --- | --- | --- |
| `Split` | operators | what a split is: the reference definition, also the SDK's |
| `SplitShares` | specification | the loops of `split_shares`, one iteration a step, at the program's widths |
| `SettlementBook` | abstract specification | what the program promises: pages opened, handed over and used by the keys entitled to |
| `SettlementProgram` | specification | the processor's instructions on the accounts of a bank; refines `SettlementBook` |
| `PaymentPromise` | abstract specification | what the worker promises a reader of its database |
| `StudioWorker` | specification | worker, store, cluster and providers; refines `PaymentPromise` |
| `RecordHistory` | specification | `findSettlementTransaction`: paging through a record's history, decoys, pruned history |
| `NamespaceOpening` | specification | `ensureNamespace` by several processes over one cluster |
| `Submission` | specification | the submit functions, the builders and the wallet demo, over a bank that runs their transactions |
| `PayoutLedger` | specification | from a settlement on chain to the rows of the ledger: evidence, entries, pools |
| `PaymentDemo` | specification | the demos' runs from end to end, with the wait for finalized evidence, over a cluster whose last blocks may be undone |
| `InstructionCodec` | specification of byte strings | instructions, account lists and account layouts, on both sides |
| `MC...` | model checking | the finite instances |
| `SettlementProgramProofs`, `NamespaceOpeningProofs`, `SubmissionProofs`, `PaymentDemoProofs` | proofs | the theorems of section 6 |
| `LockstepProofs` | proofs | those about what program and SDK compute alike: `SplitShares` and `InstructionCodec` |
| `LedgerProofs` | proofs | those about evidence and what is written from it: `RecordHistory` and `PayoutLedger` |
| `StudioWorkerProofs` | proofs | those about the worker: for any number of workers, for one, and for one with a provider to rely on |
| `ArithmeticProofs` | proofs | what a split pays, sums over finite sets and over the keys of some slots: the arithmetic the others rest on |

Definitions named "Faulty variant of X" are X with one plausible mistake. They are
used by no specification: each property of the passing runs was seen to fail when
a definition of the code is replaced by such a variant.

### Split and SplitShares

`Split` gives the verdict and the payouts of a split as two closed definitions.
`SplitShares` runs the code's two loops: `Validate` and `SumShare` are the checks
in their order, `FloorShare` a share of the second loop with its saturating u128
product and u64 cast, `LastShare` the checked subtraction. The variables `sums` and
`allocs` keep the successive values of the code's two accumulators, so that
invariants can speak of them. The TypeScript mirror computes the reference
definition on `bigint`s, without widths.

### SettlementProgram

State: for each address the owner program, the decoded data and the lamports; the
balance of each token account; and two history variables, the keys that signed the
last transaction and the record it created. An address derived from seeds is the
tuple of the seeds: the model assumes that derivations do not collide and, as the
runtime does, that only the program signs for them.

An action is one transaction. The accounts and the arguments are anything a caller may
pass; the guard is every check of the processor and of the System and Token programs
it invokes, with the bank's rule that a changed account stays rent-exempt; a
transaction that fails changes nothing and is not a step.

| Action | Code |
| --- | --- |
| `CreateNamespace` | `create_namespace`, `create_program_account` |
| `SetNamespaceAuthority` | `set_namespace_authority`, `load_namespace` |
| `SettleN` | `process_settle_n` and `settle` (the three-way instruction is its special case) |
| `SettleTokenN` | `process_settle_token_n`, `token_mint_and_owner` |
| `FirstSettlement` | the two-instruction transaction of the wallet demo (`buildSettlementNTransaction` with `createNamespaceId`) |
| `Deposit` | external: a plain transfer to any address |

`load_namespace` is `Authorized`; the top-up of a prefunded address is `Shortfall` and
`ToppedUp`; the transfers one after the other are `Affordable` (each finds its amount at
its turn) and `Transferred`.

### StudioWorker

State: the cluster (confirmed height, finalized height, transactions it was given,
transactions in blocks, settlement records), each provider's last height, the three
tables of the store, and what each worker holds in memory (`work`: a program counter,
the event, the attempt rows it read, the row it is at).

A worker step runs from one `await` to the next. Writes of one step that are not one SQL
transaction are steps of their own, so that a crash can fall between them. A step that
throws is contained by `run`'s try/catch and leaves the event as it was: like a crash.

| Actions | Code |
| --- | --- |
| `Select`, `GiveUp`, `NoBlockhash`, `BeginAttempt`, `CannotBuild`, `Abandon`, `RecordSigned`, `Send`, `SendRefused` | `settle`, `Store.beginAttempt`, `Store.recordSigned` |
| `Resolve`, `Conclude` | `resolve` |
| `SkipRow`, `ReadStatus`, `ReadHeight`, `EndScan` | `#mayStillLand` |
| `RecordFound`, `RecordMissing`, `RecordMissingOnSecond`, `SecondDisagrees`, `NoAttemptLanded` | the record reads of `settle` and `resolve` |
| `FindCreator`, `CreatorUnclear`, `Matches`, `ConfirmMatch`, `Mismatches`, `ConfirmIncident`, `RecordPaid`, `EvidenceMissing` | `#resolveRecord`, `#reconcile`, `Store.recordPaid` |
| `Recheck`, `Crash`, `Reconfigure`, `Enqueue` | the CLI's commands, and a process that dies |
| `Land`, `ForeignSettle`, `Tick`, `Finalize` | external: the cluster |

A provider answers from a height: the current one (`current`), one that never goes back
(`monotone`), or any (`erratic`, as behind a load balancer); how the two lag is chosen
once, at the start. A transaction's identity is
its event, its configuration and its last valid block, as the same bytes have the same
signature. A record's content is one of the rates a request may have been made at,
`"otherwise"` (a settlement that pays something else) or `"inner"` (created by an inner
instruction, which the SDK refuses to compare).

### RecordHistory

State: the finalized history of a record's address, oldest entry first; the oldest entry
the provider still has; and the reader's page, batch position, cursor, counts and matches.
The reader of retired records is the same algorithm with another predicate, so one model
serves both. An entry is a plain transfer, a settlement of the event that has another record
but lists this address (`elsewhere`), a settlement the program refused, one whose refusal the
invoking program ignored (`decoy`: listed as successful), or the one that created the
record, directly or inside another instruction. `AddEntry` and `Prune` are the chain's and
the provider's; `ReadPage`, `ReadBatch`, `Unreadable` and `EndPage` are one `await` each
of `findCreatingTransaction`. The page size, the batch size and the cap are parameters. A
batch may be answered in part, in any order; the code then asks for what is missing one by
one. Its specification is `HistorySpec`: `LedgerProofs` extends it beside `PayoutLedger`.

### NamespaceOpening

State: the namespace's authorities so far, whether somebody sent lamports to its address,
the opening transactions the cluster has and what became of them, and the last call of
each process. `Begin` to `RereadFault` are the awaits of `ensureNamespace`, with the fault
of each. A transaction is its authority and its blockhash: two processes with one creator
key, one wanted authority and one blockhash send the very same transaction, and each is
told that it opened the namespace. `current` says whether providers answer from the last
confirmed block or from any earlier one.

### Submission

State: namespaces' authorities, settled events, token accounts, the transactions sent and
landed, and each caller's last call. A transaction is the sequence of its instructions
with its blockhash, executed all or nothing (`Outcome`).

| Actions | Code |
| --- | --- |
| `Prepare` | the checks of `submitSettlement`, `submitSettlementN`, `submitTokenSettlementN` and `buildSettlementNTransaction`, each in its own order; options are any a JavaScript caller can pass |
| `Click`, `Read` | the wallet demo: a new event each time, the namespace read, opened with the settlement if it was not found |
| `Send`, `Confirm`, `Fault` | `send`: signing, the provider's simulation, the confirmation, and an outcome nobody learns |
| `Land`, `Rotate` | external, with the program's verdicts in their order |

The limit on a token settlement's size is counted in keys (`TokenSize`): what is named, once;
two for a signature; the memo. `MaxSize` is chosen so that the requests are at
the limit, just over it or under it: a second signer, another recipient or a longer memo
decides. Fees, rent and labels are left to the other modules.

`behind` holds the earlier states of the cluster. `Read` answers from one of them or the
newest, and so does the simulation in `Send` (`NotSent`), whichever answered before: the
demo may find its namespace on one node and be refused by another that does not have it
yet. What is executed is always judged by the newest state.

### PayoutLedger

State: the settlements in finalized blocks, each event's request, and the tables of the
ledger with the entries a caller's pool allocation adds. `Land` executes any request in
any of the given ways: another namespace or scale, a record funded before, the creation
of a namespace or another settlement beside it, no memo, two, or one that names another
event or amount, and, of tokens, another mint, other decimals or accounts that are not the
wallets' associated ones. `Readable` is what makes the SDK's observation throw. `RecordPaid`
compares the transaction with the request (`Reconciles`, the steps of
`reconcileObservedSettlementN` and of its token counterpart, which compare the same
things) and inserts the rows as `Store.recordPaid` does. `AllocatePool` is
`allocatePoolPayout`. Token accounts stand for the wallets they belong to; the hash that
makes entry ids is taken to be without collisions.

`LedgerFollowsChain` speaks of requests whose `RolesApart`: none has a share labelled
`synxed` and one labelled `platform` for one pool or one beneficiary. Where one has, it does
not hold, as finding 1 shows.

### PaymentDemo

State: the session (which script each run is, in which mode, with which overrides; the
payer's lamports and tokens, the file, the cluster and its rent rate), the executed
transactions in order and how many of them are final, what the cluster was given, the file
of recipients, and each run's program counter with what it read.

A run is the list of what it still has to do: `Script` gives the list of each of the four
programs, and each action takes its head.

| Actions | Code |
| --- | --- |
| `Load`, `Truncate`, `Write` | `loadRecipients`: the file read, then emptied and written, if a wallet was made |
| `Funds`, `Airdrop`, `Await`, `Recheck` | `ensureFunds`; the wallet demo's own check, which refuses instead |
| `Tokens`, `Look`, `Open`, `Opening` | `token.ts`'s balance, the wallet demo's `fetchNamespace`, `demoNamespace` |
| `Settle`, `Confirm` | the payment: simulated, sent, confirmed (a wallet does not wait for that) |
| `Cluster`, `Read`, `Resume`, `Tick` | `assertLedgerCluster`; `reconcileSettlementN` and `reconcileTokenSettlementN`, which wait alike |
| `Stop` | the process dies, or a call throws |
| `Land`, `Finalize`, `Fork` | external: the cluster; a block that is not final may be abandoned |

Balances, the namespace and simulations are answered from one of `Views`, each time another:
a node that has all that is final and some of what came after. `Error` is the bank's verdict
on a transaction after the first entries, in the bank's order: the namespace, the
tokens, then what the payer must keep. `Tx` is a run's payment to the recipients it
resolved, so that two runs never send the same one. The details of `ensureNamespace` and
of the program's checks are in `NamespaceOpening`, `Submission` and `SettlementProgram`.

### InstructionCodec

The only variable of `CodecSpec` is a byte string, which grows byte by byte: every state is a
string to read. `Unpack` and `Pack` are the program's; `Encode`, with an operator per
instruction, `DecodeSettlement` and the key lists are the SDK's; `ProgramReads` has the positions
where the processor takes its accounts. The number of values of a byte and the widths of keys,
amounts and parts are parameters; `Largest` is the largest number of some bytes, as `U64_MAX`
is of eight.

## 3. Runs

| Run | What it shows | Instance and why it is enough |
| --- | --- | --- |
| `split_shares` | an accepted split pays the amount, never underflows, rounds by less than a unit, and equals the reference | a whole of 6 parts, amounts 0 to 15, all vectors of up to 3 shares with parts 0 to 7, and longer ones up to 9: 15 × 6 = 90 is the product the widths just hold, and every order of the checks occurs |
| `settle` | lamports are conserved, and tokens per mint; accounts stay rent-exempt and permanent, no deposit blocks an event, no payout goes to an account of the program, no account is debited unless its holder signed, and the steps are those of `SettlementBook` | two keys, one namespace id, two events, a look-alike namespace owned by another program; rents 1, 2, 3 and deposits of 1, so that a deposit is less than, equal to or more than what is missing; three token accounts of two holders and two mints, right and wrong decimals |
| `worker` | no attempt is unaccounted for, no event is tried again or given up while an attempt may land, decisions stand, the ledger is the chain's, and the worker implements `PaymentPromise`; every event is decided and every payment recorded once faults stop | one event (events share only the height and the worker's turn), two attempts, a blockhash valid for one block; the providers either monotone and erratic, or erratic and current |
| `worker_reconfigured` | restarts with another rate or namespace: no second payment, no payment of its own taken for an incident, no attempt given up but those of another namespace | three configurations, two attempts, a single current provider, one other party that settles at one of the rates |
| `two_workers_race` | finding 2 | two workers, one attempt |
| `instruction_codec` | program, SDK encoders and SDK evidence readers agree | all strings of up to 9 bytes of 4 values, all tags 0 to 7: both settlement forms with up to 2 shares fit, and so does each length one too many |
| `record_history` | the answer is that of the moment the first page was read, and a top-level answer is the creation | pages of 3, batches of 2, a cap of 4, histories of up to 5: a full page, a full last page, a cap in the middle of a page and one exactly at the end all occur |
| `namespace_opening` | an answer tells what was the case while the call ran; who opened it is told so; losing a race is harmless | three processes, two of them alike, one call each with `create` or without, two blockhashes, one rotation; providers current or lagging |
| `submission` | an event is paid once per namespace, each wallet gets what is reported, no empty namespace, failures have reasons | one caller with every combination of options; or two with one wallet and the flows that race, where one uses the demo, which opens the namespace if it finds none, and the other opens it through the SDK; two calls each, two blockhashes, one rotation, and nodes that lag by any number of blocks |
| `payout_ledger` | own settlements reconcile and only they do; rows follow the chain; pools are exact | eight awkward requests (shares of nothing, repeated wallets, labels and beneficiaries, the payer or the record as recipient, a pool, a token, labels that become one role, apart or not) settled in every way in the ledger's namespace and plainly in another, beside a second event |
| `payment_demo` | verdicts on a payment stay true whatever the last blocks do; stored wallets are reused; a run that passed its funding check is refused only with a reason; every run ends | two runs; sessions that pay with balances that are exactly what a check asks for, or what one run leaves the other, each pair of scripts that share something, first runs and later ones, rent rates below and above the one the overhead covers, the wrong cluster; sessions that resolve recipients with every override of a direct wallet and of the pool's, and every state of the file. A timeout of 3, a poll of 2 and waits of up to 4: the last delay is cut by the deadline, and an answer may come after it |
| `payout_one_role` | finding 1 | one event, two requests |

Symmetry is used where processes, callers and blockhashes are interchangeable, and only
in runs of invariants. `CHECK_DEADLOCK FALSE` is set everywhere: the inputs are bounded
(calls, attempts, events, entries), and a system that has used them up may stop. The
bounds are the constants named `Max...`, `Longest` and `ValidFor`, and the guard of `Tick`.

The worker's height is bounded by the guard of `Tick`: blocks are told apart only as long
as some blockhash is valid, since after that no read depends on the height. With a
blockhash valid for a single block, an attempt can land in the block it was signed for or
never; the safety properties were also seen to hold with two blocks.

## 4. Fairness

`FairSpec` assumes that each worker's steps (`WorkerStep`), `Tick`, `Finalize` and
`CalmDown` are taken if they stay enabled. The first is the scheduler of
`docs/studio-integration.md`, section 5 ("Run it from a scheduler (cron, a queue consumer)
as often as you like"); blocks keep coming and being finalized because the cluster runs;
and `CalmDown` says that faults, crashes, restarts and rechecks stop at some point, after
which providers answer from the current height. Nothing is assumed of landing: a
transaction may be lost for ever. Without calm the worker promises nothing, and rightly:
with providers that never answer it must wait.

`PaymentDemo` assumes that each run's own steps are taken if one stays enabled. An `await`
of an airdrop or of a confirmation may always be given up, because the library gives up
when the blockhash expires; a run's clock is its own and passes. Nothing is assumed of the
cluster, and nobody has to stop a run.

## 5. Findings

1. **Two labels, one entry** (`payout_one_role`, `sdk/typescript/src/ledger.ts:1474`).
   A request may have a share labelled `synxed` and one labelled `platform`. Both labels
   become the role `platform`, and entry ids are made of signature, role and beneficiary:
   two such shares of one beneficiary have one id, and the second is dropped by
   `INSERT OR IGNORE`. `docs/studio-integration.md:164` promises one entry per direct share.
2. **A paid event goes back to the queue** (`two_workers_race`,
   `examples/studio-backend/src/worker.ts:215`). With two workers, which the documentation
   advises against, it says that a paid event may at worst read as in flight for a while
   (`docs/studio-integration.md:154-156`). A worker that listed the event as pending and
   then fails to read a blockhash writes `pending` over `paid`, and the next run starts
   another attempt or, without attempts left, marks the event `needs_attention`. The
   program refuses a second payment in the same namespace.

## 6. Proofs

| Module | Proved |
| --- | --- |
| `ArithmeticProofs` | floors, products and totals; `PayoutsWellFormed`: the payouts of a legal split are naturals that add up to the amount; induction over finite sets and over counts; sums of functions that differ at one or two arguments, and sums over the keys of some slots, slot by slot |
| `LockstepProofs`, splits | `TypeCorrect`, `Underflow`, `PaysExactly`, `Rounding`, `LoopsMatchReference`, for every denominator, amount and vector, and all widths with `MAX_U64 * BPS_DENOMINATOR <= MAX_U128` |
| `LockstepProofs`, codec | `ProgramAndSdkReadAlike`, `ProgramAndSdkWriteAlike`, `AccountsAlwaysAgree`, for byte strings of any length, any base, any width of keys, amounts and parts, and any number of shares up to eight |
| `SettlementProgramProofs` | `TypeCorrect`, `AccountsWellFormed`, `RentForEver`, `Permanence`, `SignedSpending`, `Refinement`, `UntouchedInvariance`, `AlwaysSettleable`, `NoPayoutIsLost`, `NothingMadeNothingLost`, for every set of keys, ids, events, token accounts, amounts, splits and rents |
| `NamespaceOpeningProofs` | `Invariance`, `TrueAnswers`, `HarmlessRace`, for every set of processes, authorities and blockhashes, and any number of calls, faults and rotations |
| `SubmissionProofs` | `Invariant`, `EventsArePaidOnce`, `PaymentsAreAsAsked`, `NoNamespaceInVain`, `AnswersAreTrue`, for all callers, keys, namespaces, requests and options, and any number of calls, blockhashes and rotations |
| `LedgerProofs`, history | `ReaderHoldsMatches`, `PagingIsASnapshot`, `CreationsAreFound`, for every page size, batch size and cap, histories of any length, and providers that prune |
| `LedgerProofs`, ledger | `PaysAsAsked`, `OwnSettlementsReconcile`, `RowsFollowChain`, `PoolsSharedOut`, for every set of events, requests and ways to settle them, and every allocation |
| `PaymentDemoProofs` | `Invariant`, `VerdictsStayTrue`, `WalletsAreReused`, `RefusalsAreExplained`, for any number of runs, in any session, over a cluster that forks |
| `StudioWorkerProofs`, any number of workers | `LedgerFollowsTheChain`, for any number of events, configurations and attempts, with providers that lag in any way |
| `StudioWorkerProofs`, one worker | `WellFormed`, `NothingIsForgotten`, `DecisionsAreKept` and `PromiseIsKept`, in the same generality |
| `StudioWorkerProofs`, one worker and a provider to rely on | `RetriesAreSafe`, `EventsAreSettledOnce` |

Assumptions: `DenominatorAssumption`, `WidthAssumption` and the two `InputAssumption`s
(arguments are of the types the instructions decode to), `AddressAssumption` (addresses
derived from seeds are different from keys and from each other), `FiniteAssumption` (an
address is 32 bytes: there are finitely many), `CodecAssumption` (a byte has a value, a
field a byte; the SDK takes no more shares than the program splits), `OpeningAssumption`
(nobody's authority is no authority), `WorkerAssumption` (attempts and blockhashes last for
some time; the primary is a provider), `DemoAssumption` (a wait has a limit, and looks again
before it), `SettingsAssumption` (what a session may start from; its rent rate is at most the
default one, 6,960 lamports per byte, to which the demos' fixed buffers are cut),
`HistoryAssumption` (pages, batches and the cap are not empty),
`LedgerAssumption` (requests and settlements are of the SDK's types) and
`SubmissionAssumption` (each caller asks for requests and options of the SDK's types;
`submitSettlement` takes three shares, a token settlement names its program and namespace;
the wallet demo draws events nobody else uses). All are evaluated in the runs.

The theorems of `StudioWorkerProofs` but the first have hypotheses besides. `OneWorker`, in all
of those, says that no two workers share the database, which `docs/studio-integration.md`,
section 5, asks of whoever deploys one. It is needed: with two workers TLC finds `TypeOK` (more
attempts than allowed), `NothingUnaccounted`, `DecisionsStand`, `RetryIsSafe` and
`ImplementsPromise` violated (see finding 2), and only `LedgerMatchesChain` is left.
`Reliable`, in the last two, says of each way the providers may lag that the primary never goes
back to an older block, or that there is a second one that is current. It is needed too: with a
primary that goes back, and no second or a second that lags, TLC finds `RetryIsSafe` violated
(an event back in the queue although it is settled), and `SettledOnce` when the worker is
started with another namespace; the second provider is "strongly recommended"
(`docs/studio-integration.md:72`). The instances of the runs `worker` and `worker_reconfigured`
satisfy both hypotheses.

*SplitShares.* The invariant says, at each point of the loops, that `sums` and `allocs` hold
the prefix sums computed so far (`SumsTo`, `AllocsTo`), that the parts add up to the whole
when payouts start, and that nothing has left its width. That the product does not
saturate follows from the width assumption; that the last share does not underflow, from
the floors being at most the exact parts, whose sum is the amount.

*SettlementProgram.* The inductive invariant is `IInv`, the conjunction of `TypeOK`,
`ProgramAccounts` and `RentExempt`. None is inductive alone: a record's address is free to
be created only because what the program owns is exactly its namespaces and records, and a
balance stays a natural number only because each transfer of a split finds its amount at
its turn and the payouts are naturals (`PayoutsWellFormed`). The action properties follow
from it step by step. For the refinement each action is shown to be a step of
`SettlementBook` or a stutter: the record is a new page because the address was free, and
the authority is the book's because `Authorized` reads an account that only the program
can own.

*Always settleable.* What the program owns does not say that an address it does not own is still
usable. `Untouched` does: such a derived address, and every wallet, belongs to the System
Program and holds no data, because a step changes owner or data only of accounts that are,
or become, the program's (`OthersKept`). With it the checks of a settlement to one wallet
hold one by one, and the balances it leaves are rent-exempt, also when payer and recipient
are one.

*Payouts and sums.* `NoPayoutIsLost` follows an action's payouts back: an account of the
program that is not new is none of the recipients, since `RecipientsOk` tested the owner of
each, nor the one topped up; the new ones hold what their creation left there (`ToppedUpTo`),
because no recipient is the record. `NothingMadeNothingLost` needs sums over all accounts. The
library's induction theorems take an operator, which the provers here cannot instantiate;
`PartInduction` has a set in the place of the predicate, and is proved by taking a
counterexample of least size (`WFMin`) apart. What a fold adds up is then fixed by its own
definition. The lemmas about it are those a ledger needs: an amount moved from one argument to
another leaves the sum alone (`MoveKeepsSum`), and eight credits add their total, whoever gets
them (`SumAllAdded`): a repeated recipient and a payer among the recipients are no special
cases. For tokens this is done mint by mint.

*NamespaceOpening.* The invariant says of the cluster that the history of authorities starts
with nobody and never returns there, that its second entry is what `opening` wrote, and
that a transaction fails only once the namespace is open; and of each call what it knows:
a transaction waited for is its own and, with a current provider, was signed before
anybody opened; a call that reads again has met a fault of its own, a lagging provider or
an open namespace. The two properties are what is left of it in the calls that returned.

*Submission.* The lemmas say what the SDK's checks are good for. In a call they let through, a
namespace goes with the program and the program with a namespace, and the one that is opened is
the one that is settled in (`Accepted`); so a transaction of program mode settles once, last,
and opens a namespace first or not at all (`ProgramInstructions`), and the bank's verdict on it
is known (`ProgramOutcome`). The invariant says of the cluster that what was sent was asked for
(`SentAsAsked`), that what landed was sent (`LandedAsSent`), and that the records are the
settlements that landed, in both directions (`Recorded`, `PaidFor`); of a running call what it
knows (`Underway`) and that an event the wallet demo drew is sent by that click alone
(`ClickedOnce`); and of the answer a caller has had, or would get for a transaction it waits
for, that it is explained by an authority, a record or a call of its own (`AnswersExplained`).
It survives the steps of others because records and histories only grow (`HistoryStep`). Of a
node that lags it says that what it shows was so (`NodesArePast`): it has no more records, and
of each namespace a beginning of the history. A namespace once open stays open (`StaysOpen`),
so the demo is refused for a wrong authority only by a later entry of that history, or by the
entry where the refusing node was, which the call keeps as `simulated`. What lands or is
refused as a duplicate has its record for good (`DuplicatesRecorded`), and that record is
another transaction's.

`PaymentsAreAsAsked` follows from that without more invariant: what landed was sent, what
was sent passed its checks, so the split is legal (`SplitAccepted`) and each share has its
payout. What remains is a sum: a wallet that stands at several shares is credited by several
transfers, or by none if its shares come to nothing. `EachHasAPlace` gives every transfer
its share, and `SumOfKeyed` sums by places instead of by transfers.

*Codec.* That strings are well formed (`WellFormed`: the bytes after the tag are bytes) is
all there is to an invariant; the rest is about the operators. Numbers are the values of
recursive functions over the bytes, so their recursion equations have to be proved first: a
function that goes on step by step exists for every length (`StepsExist`, by
`CountInduction`), and the one the definition chooses is such a function (`LittleEndianIs`,
`ToBytesIs`). Hence the bytes of the number that bytes stand for are those bytes
(`BytesBack`), and no number of `m` bytes is more than `Largest(m)`. Fields that lie side by
side join to one slice (`Joined`), and parts of one length, found by quotient and remainder,
put together are the string they were cut from (`FlattenedIs`). `SettlementAt` says where
the fields of a settlement lie; that the program (`UnpackIs`) and the reader of evidence
(`DecodeSettlementIs`) both read it there is the first theorem, that its fields written one
after the other, by `Pack` or byte by byte by the encoders, are the string again, the
second. For the third, the lists of accounts are computed for every number of shares
(`SettleNList`, `SettleTokenNList`), and each position looked up.

*PaymentDemo.* Each step of a run is first shown to be one of seven kinds (`Moves`): it goes on
with its script, ends without a verdict, reads the file, finds evidence or misses it, resumes
or lets time pass. `RunOk` says of a run what it has left to do before and after it read the
file, that its wallets are those the file it saw and its overrides give (`Recipients`), and, in
a wait, that the time passed and the time left add up to the deadline it set itself. Of the
cluster, `ChainOk` says that a transaction has one entry, and `VerdictOk` that a verdict has its
entry among the final ones, which no fork removes (`ChainGrows`). For the wallets, `Holds` says
that a file, and what a run saw in it, has every wallet of the file at the start, and other
wallets only from a run that did not find the role (`Origin`); `Write` keeps it because
`ToStore` prefers what was stored (`StoredHolds`), although the file may have changed since
the run read it. The second half of `WalletsReused` speaks of two runs that began without the
role, not of the two that differ: with three runs one may read what the first of two writers
wrote, and another what the second did.

`RefusalsExplained` compares what a run saw at its funding check with what the bank finds when
it pays, several awaits, transactions and forks later, on whichever node it is simulated: it is
proved of every node that would have refused, not only of the one that did. Its invariant is
`Refusable`. `PlansOk` says what is left of a run's script: nothing comes after a step that may
not (`Later`), and a run that may still open or pay and has no check before it saw at least
what it needs (`Informed`). `SentOk` says that a run pays once, with the transaction it would
make now, and opens the namespace once. `PaidOk` bounds what entries of the chain cost, and
says that one refused for lamports met a balance below the most it could take (`MostCost`) and
the payer's minimum; it survives forks because the balance before an entry depends on what is
before it only (`LamportsKept`). At a refusal a run spent at most the opening, and only the fee
of one if that failed (`OwnCostBound`, `OpenedItself`). The check covers the opening, the
payment and the minimum (`CheckCovers`), but for the two scripts in program mode that opened
the namespace themselves at rates above `COVERED_RATE`: the second case of `Explained`. A later
run is covered at every rate, up to the default one. `Script` asks for the kind of a run before
its mode with `IF`, since TLA+ does not say which arm of a `CASE` is taken when two guards
hold.

*RecordHistory.* `HistoryInv`, on any provider: what was listed as a match is a candidate of
the history at its place (`MatchesOk`), whose entries never change; the reader is below its
cap while it reads, and found something only if it listed one match (`ReadOk`). `WholeInv`
is for a provider that keeps the whole history: at each await the matches are exactly the
candidates among the entries newer than the cursor and no newer than those the first page
saw (`Scanned`), in descending order and hence each once; the batch in progress adds what
was fetched of it, in whatever order it was answered. `Concluded` is what is left at the
end. It is inductive because `Top`, the newest entry still to be read, moves with the cursor
whatever is added in front.

*PayoutLedger.* The invariant `Inv` says of the chain that what landed was accepted and an
event is settled once in a namespace (`LandedOk`); of a recorded event that it was recorded
from its settlement, which reconciles with the request stored (`PaidOk`); of the tables that
rows have their event in their key (`EntryIdsOk`, `PoolKeysOk`), that the rows of an event
are exactly those the SDK makes of that settlement, none before it is recorded (`RowsOk`),
and that what was accrued names a pool there is (`AccruedOk`). `RowsOk` is what a second
insertion, ignored row by row, has to keep. `RowsFollowChain` then compares sums of three
kinds, over entries, over pools and over transfers. Each is brought to the same eight slots,
one per share: an entry stands for the shares with its id, a transfer for a share with a
payout, and slot by slot they agree because of `RolesApart`. `OwnSettlementsReconcile` needs
that the list of the transfers that a transaction made is the list the request asks for,
with nothing left out but zeros and the rent top-up, which goes to the record.

*StudioWorker, any number of workers.* `IInv` is `TypeInv` and `LedgerMatchesChain`.
`LedgerMatchesChain` alone is not inductive: the row that `RecordPaid` writes comes from what
a worker read several awaits before. `TypeInv` says what a worker still knows of it: the
rows it holds are a prefix of those in the store, with the same configurations, signed since
but never differently (`RowsOk`), and in `confirm` and `rows` the record it found has a
content some request asked for (`WorkOk`). Both survive the steps of other workers because
every step lets the chain and the rows only grow (`ChainGrows`, `RowsGrow`), which is proved
of each action first. Type correctness is proved there in a weaker form, since two workers do
break `TypeOK`: both may begin an attempt, and more are made than allowed.

*StudioWorker, one worker.* `BookInv` ties three parties together. `ChainOk`: a
transaction lands once, makes the record it settles, and a block makes one record.
`EventOk`: each transaction of an event that was sent is one of the rows; what may still
land is the one row marked `signed`; an event that waits has no such row. `AloneOk`: what the
worker knows at each await, in particular that the rows a scan has passed are over
(`OverUpTo`) unless it remembers that one may land (`waiting`). An attempt is then signed
only when all earlier ones are over, which is what `EventOk` needs after `RecordSigned`. The
refinement maps each action to a step of `PaymentPromise` or a stutter: `RecordPaid` and
`Mismatches` are its verdicts because what the worker found is the finalized record.

*StudioWorker, a provider to rely on.* `RetryIsSafe` has two parts. An event that waits, or is
given up by the worker for want of attempts, has no row marked `signed`, which is `BookInv`'s;
and an event without such a row, paid ones apart, is `Quiet` (`UnsignedQuiet`): what is not a
signed row cannot land, and did not, which needs a provider to rely on. `PaidOk` says that a
settled event is not up for an attempt, and that what settled it is the one row still signed
until the ledger has it. A scan ends with the record read; that its answer counts is `KnowsOk`:
with a primary that only goes forward, every landing among the rows that were looked at is in a
block the provider is known to have (`SeenUpTo`), so that the record it does not find is not
there; with one that goes back, the current second one says so. `SettledOnce` follows because
two landings of an event would be two rows signed at once. That these invariants are inductive
was first seen with TLC, as invariants of the runs' instances.

What is proved of the worker holds for the specification with fairness too.

Checked by TLC only: the two findings, and all liveness, which is out of the prover's reach.

## 7. Not modelled, and limits

Not modelled: reading the environment, the events file and command-line arguments; React state
and what the demos print; packaging, deployment scripts, CI and the program's own tests (one
process over a scratch directory, no behaviour of the system); comparing a retired settlement
with a request, and memos of the legacy form; the shapes of parsed JSON; hash collisions; a
transaction that is answered without its `meta`, which the reader of a record's history passes
over without a word (`ledger.ts:1143`; a finalized one has it); a blank beneficiary of a pool,
which is refused. In `RecordHistory` a transaction is the one whose signature was asked for,
however the batch was answered (`TransactionFor`): the code matches answers by the signatures
they carry. A fork is modelled for the demos only, and no provider stays on the abandoned side
of one: in `StudioWorker` a block may not be final yet, but is never undone.

What the code does, as the models show it, and a user should know:

- A payout to the record address of an event that is not settled yet is accepted, and the
  money is locked when that event is settled.
- Without the program, or without a namespace, a retry with a fresh blockhash pays again
  (documented as a limit of direct transfers).
- A token settlement whose payer is among the recipients is built by the SDK and refused by
  the program.
- With two workers on a database, `recordSigned` may update no row, and the bytes are sent
  though they are not stored.
- After a restart with another namespace an open attempt of the first one is left for a person
  (`needs_attention`) although it may still land, or has landed: the exception in
  `RetryIsSafe`.
- A node that is behind may refuse a transaction the cluster would take: the wallet demo then
  fails with the program's error though the namespace is its own, a demo for want of
  lamports that an airdrop already brought. `FailuresExplained` and `RefusalsExplained` name
  these cases.
- Before a record's creation is final, a decoy can be the only candidate in its history; it is
  reported as not top-level, and the worker leaves the event in flight.
- On its first run in program mode with a balance that is exactly what `ensureFunds` asks
  for, at the default rent rate, the demo opens its namespace and is then refused the
  settlement: 2,800,000 lamports pay for both accounts and the fees (`shared.ts:199`), but
  what is left is less than the payer's own rent-exempt minimum, which the bank requires
  (the wallet demo counts it, `App.tsx:162`). It may happen at every rate above 5,334
  lamports per byte. `Explained` names this case.
- The comment at `shared.ts:137` says that overrides are never stored. An override of a
  direct share is, when the file has no wallet for it and another wallet is generated: it
  becomes the demo wallet of later runs.
- A run that dies while it writes the file of recipients leaves one that is no JSON: later
  runs throw until somebody removes it.
- `nway.ts` learns that its endpoint is not devnet after it paid there, and `index.ts` never;
  `token.ts` and the wallet demo check first.
- The wait for evidence ends with a delay: a transaction that becomes final in the last poll
  interval is reported as not found.
- Amounts of parsed system transfers must be safe integers (below 2^53); larger ones are
  refused as evidence.
- A transaction that failed in a block may be recorded as expired, not failed, when its status is
  no longer served; both end the attempt.

## 8. Plan

What is left: the worker over the evidence of `PayoutLedger` instead of record contents, with
two events.
