---------------------------- MODULE StudioWorker ----------------------------
(***************************************************************************)
(* The settlement worker of the studio backend (worker.ts), its SQLite     *)
(* store (store.ts), and the cluster as the RPC providers show it.         *)
(*                                                                         *)
(* A worker step runs from one `await` to the next: it ends with the       *)
(* answer of a read or of a send and what the code does with it; the store *)
(* writes of one step that are not one SQL transaction are steps of their  *)
(* own where the process could die, or another process write, between      *)
(* them. A throw is contained and leaves the event as it was, like a crash.*)
(*                                                                         *)
(* The cluster confirms one block per transaction that matters. A provider *)
(* answers from a height its discipline allows. What is confirmed is never *)
(* rolled back.                                                            *)
(***************************************************************************)
EXTENDS Naturals, Sequences

CONSTANTS
  Workers, Events,
  Configs,       \* the [namespace, rate] a worker may be started with
  MaxAttempts,   \* attempts before a person must look
  ValidFor,      \* blocks for which a blockhash is valid
  Foreign,       \* the [namespace, content] others who hold the authority's key settle with
  Disciplines    \* how the providers, "primary" and maybe "second", may lag

Providers == UNION {DOMAIN d : d \in Disciplines}
HasSecond == "second" \in Providers
Namespaces == {c.namespace : c \in Configs}
Rates == {c.rate : c \in Configs}

\* What a settlement record was created by: a settlement at a rate as the
\* request asks, one that pays something else, or an inner instruction of
\* another program.
Contents == Rates \cup {"otherwise", "inner"}

ASSUME WorkerAssumption ==
  /\ MaxAttempts \in Nat \ {0} /\ ValidFor \in Nat \ {0}
  /\ Foreign \subseteq [namespace : Namespaces, content : Contents]
  /\ "primary" \in Providers
  /\ Disciplines \subseteq [Providers -> {"current", "monotone", "erratic"}]

NoRecord == [content |-> "none"]

VARIABLES
  \* the cluster
  height,      \* the last confirmed block
  finalized,   \* the last finalized block
  sent,        \* transactions that reached the cluster, to land or be lost
  landed,      \* those in a block: [tx, height, ok]
  record,      \* the settlement record of each event in each namespace
  served,      \* how each provider lags, and, if monotone, its last answer's height
  calm,        \* from now on providers answer, are current, and nothing crashes
  \* the store
  status,      \* events.status
  attempts,    \* the rows of attempts, by event
  settlement,  \* the row of settlements of each event, if there is one
  \* the processes
  work,        \* what each worker holds in memory
  config       \* what the workers are started with

cluster == <<height, finalized, sent, landed, record>>
store == <<status, attempts, settlement>>
vars == <<cluster, served, calm, store, work, config>>

Idle == [pc |-> "idle", event |-> "none", count |-> 0, rows |-> <<>>,
         at |-> 0, tip |-> 0, waiting |-> FALSE, valid |-> 0]

Init ==
  /\ height = 1 /\ finalized = 1
  /\ sent = {} /\ landed = {}
  /\ record = [n \in Namespaces |-> [e \in Events |-> NoRecord]]
  /\ \E d \in Disciplines : served = [p \in Providers |-> [lag |-> d[p], height |-> 1]]
  /\ calm = FALSE
  /\ status = [e \in Events |-> "absent"]
  /\ attempts = [e \in Events |-> <<>>]
  /\ settlement = [e \in Events |-> <<>>]
  /\ work = [w \in Workers |-> Idle]
  /\ config \in Configs

-----------------------------------------------------------------------------
(* The cluster. A transaction is its event, its configuration and the last *)
(* block it is valid in: the same bytes have the same signature.           *)

Tx(e, row) == [event |-> e, config |-> row.config, valid |-> row.valid]

HasLanded(tx) == \E l \in landed : l.tx = tx

CanLand(tx) == tx \in sent /\ ~HasLanded(tx) /\ height < tx.valid

\* A transaction executes in the next block; the program refuses it if the
\* record exists, and other failures (no funds) are possible.
Land(tx) ==
  LET n == tx.config.namespace
  IN /\ CanLand(tx)
     /\ height' = height + 1
     /\ \/ /\ record[n][tx.event] = NoRecord
           /\ record' = [record EXCEPT ![n][tx.event] =
                           [content |-> tx.config.rate, height |-> height + 1, by |-> {tx}]]
           /\ landed' = landed \cup {[tx |-> tx, height |-> height + 1, ok |-> TRUE]}
        \/ /\ landed' = landed \cup {[tx |-> tx, height |-> height + 1, ok |-> FALSE]}
           /\ UNCHANGED record
     /\ UNCHANGED <<finalized, sent, served, calm, store, work, config>>

\* Somebody else with the namespace's authority settles the event.
ForeignSettle(n, e, c) ==
  /\ record[n][e] = NoRecord
  /\ record' = [record EXCEPT ![n][e] =
                  [content |-> c, height |-> height + 1, by |-> {}]]
  /\ height' = height + 1
  /\ UNCHANGED <<finalized, sent, landed, served, calm, store, work, config>>

\* Blocks without a transaction that matters are told apart only while some
\* blockhash the workers use is valid: this bounds the height.
Tick ==
  /\ \/ \E e \in Events : \E k \in 1..Len(attempts[e]) : attempts[e][k].valid >= height
     \/ \E w \in Workers : work[w].valid >= height
  /\ height' = height + 1
  /\ UNCHANGED <<finalized, sent, landed, record, served, calm, store, work, config>>

Finalize ==
  /\ finalized < height
  /\ finalized' = finalized + 1
  /\ UNCHANGED <<height, sent, landed, record, served, calm, store, work, config>>

\* Used by the liveness properties only: after this step there are no faults.
CalmDown ==
  /\ ~calm
  /\ calm' = TRUE
  /\ UNCHANGED <<cluster, served, store, work, config>>

\* The heights provider p may answer from, and the answer it gives.
Views(p) ==
  IF calm THEN {height}
  ELSE CASE served[p].lag = "current"  -> {height}
         [] served[p].lag = "monotone" -> served[p].height..height
         [] served[p].lag = "erratic"  -> 1..height

Answers(p, v) ==
  /\ v \in Views(p)
  /\ served' = [served EXCEPT ![p].height = IF served[p].lag = "monotone" THEN v ELSE 1]

Shows(v, n, e) == record[n][e] # NoRecord /\ record[n][e].height <= v

ShowsFinal(v, n, e) == Shows(v, n, e) /\ record[n][e].height <= finalized

-----------------------------------------------------------------------------
(* Store writes                                                            *)

Set(e, s) == status' = [status EXCEPT ![e] = s]

SetAttempt(e, k, s) == attempts' = [attempts EXCEPT ![e][k].status = s]

Goto(w, pc) == work' = [work EXCEPT ![w].pc = pc]
Rest(w) == work' = [work EXCEPT ![w] = Idle]

Enqueue(e) ==
  /\ status[e] = "absent"
  /\ Set(e, "pending")
  /\ UNCHANGED <<cluster, served, calm, attempts, settlement, work, config>>

-----------------------------------------------------------------------------
(* settle: one attempt for a pending event                                 *)

\* run lists the pending events; what it read of them may get old.
Select(w, e) ==
  /\ work[w].pc = "idle"
  /\ status[e] = "pending"
  /\ work' = [work EXCEPT ![w].pc = "settle", ![w].event = e,
                          ![w].count = Len(attempts[e])]
  /\ UNCHANGED <<cluster, served, calm, store, config>>

\* Faulty variant of OutOfAttempts: one more is allowed.
OneAttemptLeft(w) == work[w].count > MaxAttempts

OutOfAttempts(w) == work[w].count >= MaxAttempts

GiveUp(w) ==
  /\ work[w].pc = "settle" /\ OutOfAttempts(w)
  /\ Set(work[w].event, "needs_attention")
  /\ Rest(w)
  /\ UNCHANGED <<cluster, served, calm, attempts, settlement, config>>

NoBlockhash(w) ==
  /\ work[w].pc = "settle" /\ ~OutOfAttempts(w)
  /\ ~calm
  /\ Set(work[w].event, "pending")
  /\ Rest(w)
  /\ UNCHANGED <<cluster, served, calm, attempts, settlement, config>>

\* The blockhash is read, and then store.beginAttempt throws or takes the event.
BeginAttempt(w) ==
  LET e == work[w].event
  IN /\ work[w].pc = "settle" /\ ~OutOfAttempts(w)
     /\ \E v \in Views("primary") :
          /\ Answers("primary", v)
          /\ \/ status[e] # "pending" /\ Rest(w) /\ UNCHANGED <<status, attempts>>
             \/ /\ status[e] = "pending"
                /\ Set(e, "in_flight")
                /\ attempts' = [attempts EXCEPT ![e] =
                     Append(@, [status |-> "prepared", config |-> config, valid |-> 0])]
                /\ work' = [work EXCEPT ![w].pc = "sign", ![w].valid = v + ValidFor,
                                        ![w].at = Len(attempts[e]) + 1]
     /\ UNCHANGED <<cluster, calm, settlement, config>>

\* The request cannot be built, or not signed.
CannotBuild(w) ==
  /\ work[w].pc = "sign"
  /\ SetAttempt(work[w].event, work[w].at, "failed")
  /\ Goto(w, "abandon")
  /\ UNCHANGED <<cluster, served, calm, status, settlement, config>>

Abandon(w) ==
  /\ work[w].pc = "abandon"
  /\ Set(work[w].event, "needs_attention")
  /\ Rest(w)
  /\ UNCHANGED <<cluster, served, calm, attempts, settlement, config>>

\* Faulty variant of RecordSigned: the signature is not stored before the send.
SignOnly(w) ==
  /\ work[w].pc = "sign"
  /\ Goto(w, "send")
  /\ UNCHANGED <<cluster, served, calm, store, config>>

\* store.recordSigned updates no row unless the attempt is still prepared.
RecordSigned(w) ==
  LET e == work[w].event
      k == work[w].at
  IN /\ work[w].pc = "sign"
     /\ attempts' = IF attempts[e][k].status = "prepared"
                    THEN [attempts EXCEPT ![e][k].status = "signed",
                                          ![e][k].valid = work[w].valid]
                    ELSE attempts
     /\ Goto(w, "send")
     /\ UNCHANGED <<cluster, served, calm, status, settlement, config>>

OwnTx(w) == [event |-> work[w].event, valid |-> work[w].valid,
             config |-> attempts[work[w].event][work[w].at].config]

\* Accepted, or failed in a way that does not say whether the cluster has it.
Send(w) ==
  /\ work[w].pc = "send"
  /\ sent' \in {sent, sent \cup {OwnTx(w)}}
  /\ Goto(w, "resolve")
  /\ UNCHANGED <<height, finalized, landed, record, served, calm, store, config>>

\* The simulation failed: the node did not forward the transaction.
SendRefused(w) ==
  /\ work[w].pc = "send"
  /\ SetAttempt(work[w].event, work[w].at, "failed")
  /\ Goto(w, "refused")
  /\ UNCHANGED <<cluster, served, calm, status, settlement, config>>

-----------------------------------------------------------------------------
(* resolve: the chain decides an event in flight                           *)

\* Faulty variant of Elsewhere: attempts of other namespaces are not told apart.
ElsewhereIgnored(e) == FALSE

\* An attempt was made in a namespace this worker does not read.
Elsewhere(e) ==
  \E k \in 1..Len(attempts[e]) : attempts[e][k].config.namespace # config.namespace

\* Faulty variant of Resolve: an event without attempts left is given up before
\* the chain is read.
ResolveUnlessOver(w, e) ==
  /\ \/ work[w].pc = "idle" /\ status[e] = "in_flight"
     \/ work[w].pc = "resolve" /\ work[w].event = e
  /\ \/ status[e] # "in_flight" /\ Rest(w) /\ UNCHANGED status
     \/ /\ status[e] = "in_flight" /\ (Elsewhere(e) \/ Len(attempts[e]) >= MaxAttempts)
        /\ Set(e, "needs_attention") /\ Rest(w)
     \/ /\ status[e] = "in_flight" /\ ~Elsewhere(e) /\ Len(attempts[e]) < MaxAttempts
        /\ work' = [work EXCEPT ![w] = [Idle EXCEPT !.pc = "scan", !.event = e,
                      !.count = Len(attempts[e]), !.rows = attempts[e], !.at = 1]]
        /\ UNCHANGED status
  /\ UNCHANGED <<cluster, served, calm, attempts, settlement, config>>

\* From run's list or a person's recheck (idle), or after a send.
Resolve(w, e) ==
  /\ \/ work[w].pc = "idle" /\ status[e] = "in_flight"
     \/ work[w].pc = "resolve" /\ work[w].event = e
  /\ \/ status[e] # "in_flight" /\ Rest(w) /\ UNCHANGED status
     \/ /\ status[e] = "in_flight" /\ Elsewhere(e)
        /\ Set(e, "needs_attention") /\ Rest(w)
     \/ /\ status[e] = "in_flight" /\ ~Elsewhere(e)
        /\ work' = [work EXCEPT ![w] = [Idle EXCEPT !.pc = "scan", !.event = e,
                      !.count = Len(attempts[e]), !.rows = attempts[e], !.at = 1]]
        /\ UNCHANGED status
  /\ UNCHANGED <<cluster, served, calm, attempts, settlement, config>>

Row(w) == work[w].rows[work[w].at]

NextRow(w, wait) ==
  work' = [work EXCEPT ![w].pc = "scan", ![w].at = @ + 1,
                       ![w].waiting = @ \/ wait]

\* mayStillLand skips what was never signed, or is over.
SkipRow(w) ==
  /\ work[w].pc = "scan" /\ work[w].at <= Len(work[w].rows)
  /\ Row(w).status # "signed"
  /\ IF Row(w).status = "prepared"
     THEN SetAttempt(work[w].event, work[w].at, "failed")
     ELSE UNCHANGED attempts
  /\ NextRow(w, FALSE)
  /\ UNCHANGED <<cluster, served, calm, status, settlement, config>>

\* The signature's status. A landing not known to be final is waited for if it
\* failed; so is one only processed yet.
ReadStatus(w) ==
  LET tx == Tx(work[w].event, Row(w))
  IN /\ work[w].pc = "scan" /\ work[w].at <= Len(work[w].rows)
     /\ Row(w).status = "signed"
     /\ \E v \in Views("primary") :
          /\ Answers("primary", v)
          /\ \/ /\ \E l \in landed : l.tx = tx /\ l.height <= v /\ l.ok
                /\ NextRow(w, FALSE)
                /\ UNCHANGED attempts
             \/ /\ \E l \in landed :
                     l.tx = tx /\ l.height <= v /\ ~l.ok /\ l.height <= finalized
                /\ SetAttempt(work[w].event, work[w].at, "failed")
                /\ NextRow(w, FALSE)
             \/ /\ \/ (CanLand(tx) \/ \E l \in landed : l.tx = tx /\ l.height > v) /\ ~calm
                   \/ \E l \in landed : /\ l.tx = tx /\ l.height <= v /\ ~l.ok
                                        /\ l.height > finalized \/ ~calm
                /\ NextRow(w, TRUE)
                /\ UNCHANGED attempts
             \/ /\ ~\E l \in landed : l.tx = tx /\ l.height <= v
                /\ Goto(w, "height")
                /\ UNCHANGED attempts
     /\ UNCHANGED <<cluster, calm, status, settlement, config>>

StillValid(tip, valid) == tip <= valid

\* The cluster has not seen it: the height, read once for all attempts, tells
\* whether it is over or is sent again.
ReadHeight(w) ==
  /\ work[w].pc = "height"
  /\ \E v \in IF work[w].tip = 0 THEN Views("primary") ELSE {work[w].tip} :
       /\ IF work[w].tip = 0 THEN Answers("primary", v) ELSE UNCHANGED served
       /\ work' = [work EXCEPT ![w].pc = "scan", ![w].at = @ + 1, ![w].tip = v,
                               ![w].waiting = @ \/ StillValid(v, Row(w).valid)]
       /\ IF StillValid(v, Row(w).valid)
          THEN sent' \in {sent, sent \cup {Tx(work[w].event, Row(w))}}
          ELSE UNCHANGED sent
  /\ UNCHANGED <<height, finalized, landed, record, calm, store, config>>

EndScan(w) ==
  /\ work[w].pc = "scan" /\ work[w].at > Len(work[w].rows)
  /\ \/ work[w].waiting /\ Rest(w)
     \/ ~work[w].waiting /\ Goto(w, "record")
  /\ UNCHANGED <<cluster, served, calm, store, config>>

\* The record of the event, after a refused send and after a scan.
RecordFound(w) ==
  LET e == work[w].event
  IN /\ work[w].pc \in {"refused", "record"}
     /\ \E v \in Views("primary") :
          Answers("primary", v) /\ Shows(v, config.namespace, e)
     /\ \/ work[w].pc = "refused" /\ Goto(w, "resolve")
        \/ /\ work[w].pc = "record"
           /\ work' = [work EXCEPT ![w].pc = "find", ![w].rows = attempts[e]]
     /\ UNCHANGED <<cluster, calm, store, config>>

\* No attempt landed: after a refusal the event waits for another attempt; after
\* a scan the signed attempts, read again, are over first.
NoAttemptLanded(w) ==
  LET e == work[w].event
  IN \/ /\ work[w].pc \in {"refused", "refused2"}
        /\ Set(e, "pending")
        /\ Rest(w)
        /\ UNCHANGED attempts
     \/ /\ work[w].pc \in {"record", "record2"}
        /\ attempts' = [attempts EXCEPT ![e] = [k \in 1..Len(@) |->
             IF @[k].status = "signed" THEN [@[k] EXCEPT !.status = "expired"] ELSE @[k]]]
        /\ Goto(w, "conclude")
        /\ UNCHANGED status

\* Faulty variant of RecordMissing: the second provider is not asked.
RecordMissingOnOne(w) ==
  /\ work[w].pc \in {"refused", "record"}
  /\ \E v \in Views("primary") :
       Answers("primary", v) /\ ~Shows(v, config.namespace, work[w].event)
  /\ NoAttemptLanded(w)
  /\ UNCHANGED <<cluster, calm, settlement, config>>

RecordMissing(w) ==
  /\ work[w].pc \in {"refused", "record"}
  /\ \E v \in Views("primary") :
       Answers("primary", v) /\ ~Shows(v, config.namespace, work[w].event)
  /\ \/ ~HasSecond /\ NoAttemptLanded(w)
     \/ /\ HasSecond
        /\ Goto(w, IF work[w].pc = "refused" THEN "refused2" ELSE "record2")
        /\ UNCHANGED <<status, attempts>>
  /\ UNCHANGED <<cluster, calm, settlement, config>>

RecordMissingOnSecond(w) ==
  /\ work[w].pc \in {"refused2", "record2"}
  /\ \E v \in Views("second") :
       Answers("second", v) /\ ~Shows(v, config.namespace, work[w].event)
  /\ NoAttemptLanded(w)
  /\ UNCHANGED <<cluster, calm, settlement, config>>

Conclude(w) ==
  /\ work[w].pc = "conclude"
  /\ Set(work[w].event,
         IF OutOfAttempts(w) THEN "needs_attention" ELSE "pending")
  /\ Rest(w)
  /\ UNCHANGED <<cluster, served, calm, attempts, settlement, config>>

\* A read failed, or the providers disagree: the event stays in flight.
Unresolved(w) ==
  /\ Set(work[w].event, "in_flight")
  /\ Rest(w)
  /\ UNCHANGED <<cluster, calm, attempts, settlement, config>>

ReadFails(w) ==
  /\ work[w].pc \in {"scan", "height", "refused", "refused2", "record", "record2",
                     "find", "reconcile", "confirm", "compare", "rows"}
  /\ ~calm
  /\ Unresolved(w)
  /\ UNCHANGED served

SecondDisagrees(w) ==
  /\ work[w].pc \in {"refused2", "record2"}
  /\ \E v \in Views("second") :
       Answers("second", v) /\ Shows(v, config.namespace, work[w].event)
  /\ Unresolved(w)

-----------------------------------------------------------------------------
(* resolveRecord: the transaction that created the record, against every   *)
(* request stored for the event                                            *)

Creation(w) == record[config.namespace][work[w].event]

\* Faulty variant of CreatorSeen: a confirmed transaction is evidence enough.
CreatorConfirmed(p, w) ==
  \E v \in Views(p) : Answers(p, v) /\ Shows(v, config.namespace, work[w].event)

\* Provider p shows the finalized transaction that created the record.
CreatorSeen(p, w) ==
  \E v \in Views(p) : Answers(p, v) /\ ShowsFinal(v, config.namespace, work[w].event)

FindCreator(w) ==
  /\ work[w].pc = "find"
  /\ CreatorSeen("primary", w)
  /\ Creation(w).content # "inner"
  /\ Goto(w, "reconcile")
  /\ UNCHANGED <<cluster, calm, store, config>>

CreatorUnclear(w) ==
  /\ work[w].pc = "find"
  /\ \/ CreatorSeen("primary", w) /\ Creation(w).content = "inner"
     \/ /\ \E v \in Views("primary") :
             Answers("primary", v) /\ ~ShowsFinal(v, config.namespace, work[w].event)
  /\ Unresolved(w)

\* Faulty variant of Requests: only the request of the last attempt is compared.
RequestOfLast(w) ==
  IF work[w].rows = <<>> THEN {config.rate}
  ELSE {work[w].rows[Len(work[w].rows)].config.rate}

\* The rates the stored requests were made at; without attempts, today's.
Requests(w) ==
  IF work[w].rows = <<>> THEN {config.rate}
  ELSE {work[w].rows[k].config.rate : k \in 1..Len(work[w].rows)}

\* Faulty variant of Matches: the record is not compared with the requests.
MatchesUncompared(w) ==
  /\ work[w].pc = "reconcile"
  /\ CreatorSeen("primary", w)
  /\ Goto(w, IF HasSecond THEN "confirm" ELSE "rows")
  /\ UNCHANGED <<cluster, calm, store, config>>

Matches(w) ==
  /\ work[w].pc = "reconcile"
  /\ Creation(w).content \in Requests(w)
  /\ CreatorSeen("primary", w)
  /\ Goto(w, IF HasSecond THEN "confirm" ELSE "rows")
  /\ UNCHANGED <<cluster, calm, store, config>>

ConfirmMatch(w) ==
  /\ work[w].pc = "confirm"
  /\ CreatorSeen("second", w)
  /\ Goto(w, "rows")
  /\ UNCHANGED <<cluster, calm, store, config>>

\* No stored request asked for it. The second provider must say so too.
Mismatches(w) ==
  /\ work[w].pc = "reconcile"
  /\ Creation(w).content \notin Requests(w)
  /\ CreatorSeen("primary", w)
  /\ \/ HasSecond /\ Goto(w, "compare") /\ UNCHANGED status
     \/ ~HasSecond /\ Set(work[w].event, "incident") /\ Rest(w)
  /\ UNCHANGED <<cluster, calm, attempts, settlement, config>>

ConfirmIncident(w) ==
  /\ work[w].pc = "compare"
  /\ CreatorSeen("second", w)
  /\ Set(work[w].event, "incident")
  /\ Rest(w)
  /\ UNCHANGED <<cluster, calm, attempts, settlement, config>>

\* recordPaid: the ledger rows, the attempt that landed and the status, at once.
RecordPaid(w) ==
  LET e == work[w].event
      rows == work[w].rows
      own == {k \in 1..Len(rows) : Tx(e, rows[k]) \in Creation(w).by}
  IN /\ work[w].pc = "rows"
     /\ CreatorSeen("primary", w)
     /\ settlement' = [settlement EXCEPT ![e] = IF @ = <<>> THEN <<Creation(w)>> ELSE @]
     /\ \/ own = {} /\ UNCHANGED attempts
        \/ \E k \in own : (\A j \in own : j <= k) /\ SetAttempt(e, k, "landed")
     /\ Set(e, "paid")
     /\ Rest(w)
     /\ UNCHANGED <<cluster, calm, config>>

\* The evidence is not there any more, on whichever provider is asked.
EvidenceMissing(w) ==
  /\ \E p \in Providers :
       /\ work[w].pc \in (IF p = "primary" THEN {"reconcile", "rows"}
                                           ELSE {"confirm", "compare"})
       /\ \E v \in Views(p) :
            Answers(p, v) /\ ~ShowsFinal(v, config.namespace, work[w].event)
  /\ Unresolved(w)

-----------------------------------------------------------------------------
(* The operator, and crashes                                               *)

\* Faulty variant of Recheck: a paid event is looked at again too.
RecheckAny(w, e) ==
  /\ ~calm
  /\ work[w].pc = "idle"
  /\ status[e] # "absent"
  /\ Set(e, "in_flight")
  /\ work' = [work EXCEPT ![w].pc = "resolve", ![w].event = e]
  /\ UNCHANGED <<cluster, served, calm, attempts, settlement, config>>

\* recheck: a person asks to look again at an event that is not paid.
Recheck(w, e) ==
  /\ ~calm
  /\ work[w].pc = "idle"
  /\ status[e] \notin {"absent", "paid"}
  /\ Set(e, "in_flight")
  /\ work' = [work EXCEPT ![w].pc = "resolve", ![w].event = e]
  /\ UNCHANGED <<cluster, served, calm, attempts, settlement, config>>

\* A process that dies, or a step that throws, keeps nothing but the store.
Crash(w) ==
  /\ ~calm
  /\ work[w].pc # "idle"
  /\ Rest(w)
  /\ UNCHANGED <<cluster, served, calm, store, config>>

Reconfigure(c) ==
  /\ ~calm
  /\ c # config
  /\ \A w \in Workers : work[w].pc = "idle"
  /\ config' = c
  /\ UNCHANGED <<cluster, served, calm, store, work>>

-----------------------------------------------------------------------------

SettleStep(w) ==
  \/ \E e \in Events : Select(w, e)
  \/ GiveUp(w) \/ NoBlockhash(w) \/ BeginAttempt(w)
  \/ CannotBuild(w) \/ Abandon(w) \/ RecordSigned(w)
  \/ Send(w) \/ SendRefused(w)

ResolveStep(w) ==
  \/ \E e \in Events : Resolve(w, e)
  \/ SkipRow(w) \/ ReadStatus(w) \/ ReadHeight(w) \/ EndScan(w)
  \/ RecordFound(w) \/ RecordMissing(w) \/ RecordMissingOnSecond(w)
  \/ Conclude(w) \/ ReadFails(w) \/ SecondDisagrees(w)

RecordStep(w) ==
  \/ FindCreator(w) \/ CreatorUnclear(w)
  \/ Matches(w) \/ ConfirmMatch(w) \/ RecordPaid(w)
  \/ Mismatches(w) \/ ConfirmIncident(w) \/ EvidenceMissing(w)

WorkerStep(w) == SettleStep(w) \/ ResolveStep(w) \/ RecordStep(w)

ClusterStep ==
  \/ \E tx \in sent : Land(tx)
  \/ \E e \in Events, f \in Foreign : ForeignSettle(f.namespace, e, f.content)
  \/ Tick \/ Finalize

OperatorStep ==
  \/ \E e \in Events : Enqueue(e)
  \/ \E w \in Workers : Crash(w) \/ \E e \in Events : Recheck(w, e)
  \/ \E c \in Configs : Reconfigure(c)

Next ==
  \/ \E w \in Workers : WorkerStep(w)
  \/ ClusterStep
  \/ OperatorStep

Spec == Init /\ [][Next]_vars

\* The scheduler runs the worker for ever, blocks keep coming and are finalized,
\* and faults, crashes and interventions stop long enough.
FairSpec ==
  /\ Init /\ [][Next \/ CalmDown]_vars
  /\ \A w \in Workers : WF_vars(WorkerStep(w))
  /\ WF_vars(Tick) /\ WF_vars(Finalize) /\ WF_vars(CalmDown)

-----------------------------------------------------------------------------
(* Properties                                                              *)

Decided == {"paid", "incident", "needs_attention"}
AttemptStatuses == {"prepared", "signed", "failed", "expired", "landed"}

AttemptRow == [status : AttemptStatuses, config : Configs, valid : Nat]

\* Every row and every transaction is well formed, and an attempt is unsigned
\* exactly as long as it is prepared, or failed before it was signed.
TypeOK ==
  /\ height \in Nat /\ finalized \in 1..height
  /\ sent \subseteq [event : Events, config : Configs, valid : Nat]
  /\ \A l \in landed : l.tx \in sent /\ l.height \in 1..height /\ l.height <= l.tx.valid
  /\ \A n \in Namespaces, e \in Events :
       record[n][e] # NoRecord => /\ record[n][e].content \in Contents
                                  /\ record[n][e].height \in 1..height
  /\ \E d \in Disciplines : \A p \in Providers :
       served[p].lag = d[p] /\ served[p].height \in 1..height
  /\ status \in [Events -> Decided \cup {"absent", "pending", "in_flight"}]
  /\ \A e \in Events : attempts[e] \in Seq(AttemptRow)
  /\ \A e \in Events : Len(attempts[e]) <= MaxAttempts
  /\ \A e \in Events : \A k \in 1..Len(attempts[e]) :
       LET row == attempts[e][k]
       IN /\ row.valid = 0 => row.status \in {"prepared", "failed"}
          /\ row.valid # 0 => row.status # "prepared"
  /\ \A w \in Workers : work[w] = Idle \/ work[w].event \in Events
  /\ config \in Configs

\* worker.ts:3-5, 198-202: a crash at any point leaves enough to resolve the event
\* from the chain. The bytes of a transaction the cluster may have are stored, and
\* while it can land, the event does not wait for another attempt.
NothingUnaccounted ==
  \A tx \in sent :
    /\ \E k \in 1..Len(attempts[tx.event]) : Tx(tx.event, attempts[tx.event][k]) = tx
    /\ CanLand(tx) => status[tx.event] # "pending"

\* No attempt of the event can land any more, and none settled it.
Quiet(e) ==
  /\ \A tx \in sent : tx.event = e => ~CanLand(tx)
  /\ \A l \in landed : l.tx.event = e => ~l.ok

\* worker.ts:67-72: an event waits for another attempt, or is given up, only when none
\* of its attempts can land and none settled it. An event with an attempt in another
\* namespace than the worker reads is the exception: it is given up unread (worker.ts:307-315).
RetryIsSafe ==
  [][\A e \in Events :
       /\ status'[e] = "pending" => Quiet(e)'
       /\ status'[e] = "needs_attention" /\ status[e] # "needs_attention"
            => Quiet(e)' \/ Elsewhere(e)]_vars

\* The worker's own transactions settle an event at most once, in one namespace,
\* whatever namespaces it was started with.
SettledOnce ==
  \A l, m \in landed : l.ok /\ m.ok /\ l.tx.event = m.tx.event => l = m

\* docs/studio-integration.md, section 7: no fault changes a decision. Only a
\* person's recheck does, and never for an event that is paid.
DecisionsStand ==
  [][\A e \in Events : status[e] \in Decided /\ status'[e] # status[e] =>
       status[e] # "paid" /\ \E w \in Workers : Recheck(w, e)]_vars

\* store.ts:329-333: what the ledger was written from is, for ever, the event's
\* finalized settlement, and one that pays what some request asked for.
LedgerMatchesChain ==
  \A e \in Events : settlement[e] # <<>> =>
    \E n \in Namespaces :
      /\ settlement[e] = <<record[n][e]>>
      /\ record[n][e].content \in Rates
      /\ record[n][e].height <= finalized

\* The verdicts are those PaymentPromise allows.
Promise == INSTANCE PaymentPromise WITH
  Unclear <- {"inner"},
  Faithful <- Rates,
  NotSettled <- "none",
  content <- [n \in Namespaces |-> [e \in Events |->
                IF record[n][e] # NoRecord /\ record[n][e].height <= finalized
                THEN record[n][e].content ELSE "none"]],
  asked <- [e \in Events |->
              {attempts[e][k].config.rate : k \in 1..Len(attempts[e])}],
  verdict <- [e \in Events |-> IF status[e] \in Decided THEN status[e] ELSE "open"]

ImplementsPromise == Promise!Spec

\* Once faults stop, the books are complete, whatever crashed, was lost or was refused
\* meanwhile: a requested event the worker paid is paid in the ledger, and any other is decided,
\* unless another program settled it: that one is left in flight for a person to compare.
EventuallySettled ==
  \A e \in Events :
    []<>IF \E l \in landed : l.tx.event = e /\ l.ok THEN status[e] = "paid"
        ELSE \/ status[e] \in Decided \cup {"absent"}
             \/ \E n \in Namespaces : record[n][e].content = "inner"

\* docs/studio-integration.md, section 5, of a second worker on the database:
\* "a paid event may briefly read as in flight until the next run reconciles it".
PaidAtWorstInFlight ==
  [][\A e \in Events :
       status[e] = "paid" => status'[e] \in {"paid", "in_flight"}]_vars
=============================================================================
