------------------------- MODULE StudioWorkerProofs -------------------------
(***************************************************************************)
(* What the settlement worker guarantees.                                  *)
(*                                                                         *)
(* First, for any number of workers on one database, whatever the          *)
(* providers do: the ledger is written from the chain, and what a worker   *)
(* holds in memory only gets old in ways its next steps allow for.         *)
(*                                                                         *)
(* Then, when it has the database to itself, as the documentation asks     *)
(* (docs/studio-integration.md, section 5): nothing the cluster may have   *)
(* is forgotten, decisions stand, and the verdicts are those               *)
(* PaymentPromise allows. When one provider's answers about a record can   *)
(* be relied on, the event is also never paid twice.                       *)
(***************************************************************************)
EXTENDS StudioWorker, SequenceTheorems, TLAPS

Txs == [event : Events, config : Configs, valid : Nat]

Settlements == [content : Contents, height : Nat, by : SUBSET Txs]

Statuses == Decided \cup {"absent", "pending", "in_flight"}

Settling == {"settle", "sign", "abandon", "send", "refused", "refused2"}
Scanning == {"scan", "height", "record", "record2", "conclude"}
Recording == {"find", "reconcile", "confirm", "compare", "rows"}
Steps == {"idle", "resolve"} \cup Settling \cup Scanning \cup Recording

Works == [pc : Steps, event : Events \cup {"none"}, count : Nat, rows : Seq(AttemptRow),
          at : Nat, tip : Nat, waiting : BOOLEAN, valid : Nat]

-----------------------------------------------------------------------------
(* The invariant                                                           *)

ClusterOk ==
  /\ height \in Nat /\ finalized \in Nat /\ 1 <= finalized /\ finalized <= height
  /\ calm \in BOOLEAN /\ config \in Configs
  /\ sent \subseteq Txs
  /\ landed \subseteq [tx : Txs, height : Nat, ok : BOOLEAN]
  /\ \A l \in landed : l.tx \in sent /\ 1 <= l.height /\ l.height <= height /\ l.height <= l.tx.valid

RecordsOk ==
  /\ record \in [Namespaces -> [Events -> {NoRecord} \cup Settlements]]
  /\ \A n \in Namespaces, e \in Events : record[n][e] # NoRecord =>
       /\ record[n][e] \in Settlements
       /\ 1 <= record[n][e].height /\ record[n][e].height <= height
       /\ \A tx \in record[n][e].by : tx.valid > 0

ServedOk ==
  /\ served \in [Providers -> [lag : {"current", "monotone", "erratic"}, height : Nat]]
  /\ \A p \in Providers : 1 <= served[p].height /\ served[p].height <= height
  /\ \E d \in Disciplines : \A p \in Providers : served[p].lag = d[p]

\* An attempt has a blockhash as soon as it is signed.
RowOk(row) ==
  /\ row.valid = 0 => row.status \in {"prepared", "failed"}
  /\ row.valid # 0 => row.status # "prepared"

AttemptsOk ==
  /\ attempts \in [Events -> Seq(AttemptRow)]
  /\ \A e \in Events : \A k \in 1..Len(attempts[e]) : RowOk(attempts[e][k])

StoreOk ==
  /\ status \in [Events -> Statuses]
  /\ settlement \in [Events -> Seq(Settlements)]
  /\ AttemptsOk

\* The rows a worker holds were read: since then some were signed, and none was
\* made by another configuration.
RowsOk(w) ==
  LET rows == work[w].rows
      now == attempts[work[w].event]
  IN /\ Len(rows) <= Len(now)
     /\ \A k \in 1..Len(rows) :
          /\ RowOk(rows[k])
          /\ rows[k].config = now[k].config
          /\ rows[k].valid # 0 => now[k].valid = rows[k].valid

WorkOk(w) ==
  /\ work[w].pc = "idle" => work[w] = Idle
  /\ work[w].pc # "idle" => work[w].event \in Events /\ RowsOk(w)
  /\ work[w].pc \in Settling \ {"settle"} =>
       work[w].at \in 1..Len(attempts[work[w].event]) /\ work[w].valid > 0
  /\ work[w].pc \in {"scan", "height"} => work[w].at > 0
  /\ work[w].pc = "height" =>
       work[w].at <= Len(work[w].rows) /\ work[w].rows[work[w].at].status = "signed"
  /\ work[w].pc \in Recording \ {"find"} => Creation(w) # NoRecord
  /\ work[w].pc \in {"confirm", "rows"} => Creation(w).content \in Rates
  /\ work[w].pc \in {"reconcile", "compare"} => Creation(w).content # "inner"

TypeInv ==
  /\ ClusterOk /\ RecordsOk /\ ServedOk /\ StoreOk
  /\ work \in [Workers -> Works] /\ \A w \in Workers : WorkOk(w)

IInv == TypeInv /\ LedgerMatchesChain

-----------------------------------------------------------------------------
(* What every step does                                                    *)

\* The chain only grows; what settled an event did so for good.
ChainGrows ==
  /\ height' >= height /\ finalized' >= finalized
  /\ sent \subseteq sent' /\ landed \subseteq landed'
  /\ \A n \in Namespaces, e \in Events :
       record[n][e] # NoRecord => record'[n][e] = record[n][e]

\* Attempts are added, and keep what they were made by.
RowsGrow ==
  \A e \in Events :
    /\ Len(attempts'[e]) >= Len(attempts[e])
    /\ \A k \in 1..Len(attempts[e]) :
         /\ attempts'[e][k].config = attempts[e][k].config
         /\ attempts[e][k].valid # 0 => attempts'[e][k].valid = attempts[e][k].valid

\* A step is in order.
Kept == ChainGrows /\ RowsGrow /\ IInv'

\* A settlement is not the absence of one.
LEMMA SettlementsAreRecords == NoRecord \notin Settlements
<1> SUFFICES ASSUME NoRecord \in Settlements PROVE FALSE
  OBVIOUS
<1>1. DOMAIN NoRecord = {"content", "height", "by"}
  BY DEF Settlements
<1>2. DOMAIN NoRecord = {"content"}
  BY DEF NoRecord
<1> QED
  BY <1>1, <1>2

\* Lengths are numbers.
LEMMA Lengths ==
  ASSUME StoreOk, NEW e \in Events
  PROVE  /\ attempts[e] \in Seq(AttemptRow) /\ Len(attempts[e]) \in Nat
         /\ \A k \in 1..Len(attempts[e]) : attempts[e][k] \in AttemptRow /\ RowOk(attempts[e][k])
<1>1. attempts[e] \in Seq(AttemptRow)
  BY DEF StoreOk, AttemptsOk
<1>2. Len(attempts[e]) \in Nat /\ \A k \in 1..Len(attempts[e]) : attempts[e][k] \in AttemptRow
  BY <1>1
<1> QED
  BY <1>1, <1>2 DEF StoreOk, AttemptsOk

LEMMA RowLengths ==
  ASSUME NEW w \in Workers, work \in [Workers -> Works]
  PROVE  /\ work[w].rows \in Seq(AttemptRow) /\ Len(work[w].rows) \in Nat
         /\ work[w].at \in Nat /\ work[w].count \in Nat /\ work[w].tip \in Nat /\ work[w].valid \in Nat
         /\ work[w].pc \in Steps /\ work[w].waiting \in BOOLEAN /\ work[w].event \in Events \cup {"none"}
         /\ \A k \in 1..Len(work[w].rows) : work[w].rows[k] \in AttemptRow
<1>1. work[w] \in Works
  OBVIOUS
<1>2. work[w].rows \in Seq(AttemptRow)
  BY <1>1 DEF Works
<1>3. Len(work[w].rows) \in Nat /\ \A k \in 1..Len(work[w].rows) : work[w].rows[k] \in AttemptRow
  BY <1>2
<1> QED
  BY <1>1, <1>2, <1>3 DEF Works

\* Where nothing of the chain changes, it is as it was.
LEMMA ChainKept ==
  ASSUME ClusterOk, RecordsOk, UNCHANGED <<cluster, calm, config>>
  PROVE  ClusterOk' /\ RecordsOk' /\ ChainGrows
<1>1. UNCHANGED <<height, finalized, sent, landed, record>>
  BY DEF cluster
<1>2. ClusterOk'
  BY <1>1 DEF ClusterOk
<1>3. RecordsOk'
  BY <1>1 DEF RecordsOk
<1>4. ChainGrows
  BY <1>1 DEF ChainGrows, ClusterOk
<1> QED
  BY <1>2, <1>3, <1>4

\* Nor do the rows.
LEMMA RowsKept ==
  ASSUME StoreOk, UNCHANGED attempts
  PROVE  RowsGrow
<1>1. \A e \in Events : Len(attempts[e]) \in Nat
  BY Lengths
<1> QED
  BY <1>1 DEF RowsGrow

\* A transaction is given to the cluster.
LEMMA SentGrows ==
  ASSUME ClusterOk, RecordsOk, NEW tx \in Txs, sent' \in {sent, sent \cup {tx}},
         UNCHANGED <<height, finalized, landed, record, calm, config>>
  PROVE  ClusterOk' /\ RecordsOk' /\ ChainGrows
<1>1. sent' \subseteq Txs /\ sent \subseteq sent'
  BY DEF ClusterOk
<1>2. ClusterOk'
  BY <1>1 DEF ClusterOk
<1>3. RecordsOk'
  BY DEF RecordsOk
<1>4. ChainGrows
  BY <1>1 DEF ChainGrows, ClusterOk
<1> QED
  BY <1>2, <1>3, <1>4

\* Whatever a provider answers, it is a provider.
LEMMA ServedKept ==
  ASSUME ServedOk, UNCHANGED <<served, height>>
  PROVE  ServedOk'
  BY DEF ServedOk

LEMMA ViewsInHeight ==
  ASSUME ServedOk, ClusterOk, NEW p \in Providers, NEW v \in Views(p)
  PROVE  v \in Nat /\ 1 <= v /\ v <= height
<1>1. served[p].height \in Nat /\ 1 <= served[p].height /\ height \in Nat /\ 1 <= height
      /\ served[p].lag \in {"current", "monotone", "erratic"}
  BY DEF ServedOk, ClusterOk
<1>2. CASE calm
  BY <1>1, <1>2 DEF Views
<1>3. CASE ~calm
  <2>1. v = height \/ v \in served[p].height..height \/ v \in 1..height
    BY <1>1, <1>3 DEF Views
  <2> QED
    BY <1>1, <2>1
<1> QED
  BY <1>2, <1>3

LEMMA AnswersServed ==
  ASSUME ServedOk, ClusterOk, NEW p \in Providers, NEW v, Answers(p, v), UNCHANGED height
  PROVE  ServedOk' /\ v \in Nat /\ 1 <= v /\ v <= height
<1>1. v \in Views(p)
  BY DEF Answers
<1>2. v \in Nat /\ 1 <= v /\ v <= height
  BY <1>1, ViewsInHeight
<1>3. PICK h \in Nat : /\ h = IF served[p].lag = "monotone" THEN v ELSE 1
                       /\ 1 <= h /\ h <= height
  BY <1>2 DEF ClusterOk
<1>4. served' = [served EXCEPT ![p].height = h]
  BY <1>3 DEF Answers
<1>5. /\ served' \in [Providers -> [lag : {"current", "monotone", "erratic"}, height : Nat]]
      /\ \A q \in Providers : served'[q].lag = served[q].lag
      /\ \A q \in Providers : served'[q].height = IF q = p THEN h ELSE served[q].height
  BY <1>4 DEF ServedOk
<1> QED
  BY <1>2, <1>3, <1>5 DEF ServedOk

LEMMA AnyAnswerServed ==
  ASSUME ServedOk, ClusterOk, NEW p, NEW v, Answers(p, v), UNCHANGED height
  PROVE  ServedOk'
<1>1. CASE p \in Providers
  BY <1>1, AnswersServed
<1>2. CASE p \notin Providers
  BY <1>2, ServedKept DEF Answers, ServedOk
<1> QED
  BY <1>1, <1>2

LEMMA PrimaryIsProvider == "primary" \in Providers /\ (HasSecond => "second" \in Providers)
  BY WorkerAssumption DEF HasSecond

\* An event's status is written.
LEMMA StatusSet ==
  ASSUME StoreOk, NEW e \in Events, NEW s \in Statuses, Set(e, s), UNCHANGED <<attempts, settlement>>
  PROVE  StoreOk' /\ RowsGrow
<1>1. status' \in [Events -> Statuses]
  BY DEF Set, StoreOk
<1>2. StoreOk'
  BY <1>1 DEF StoreOk, AttemptsOk
<1> QED
  BY <1>2, RowsKept

LEMMA StoreKept ==
  ASSUME StoreOk, UNCHANGED store
  PROVE  StoreOk' /\ RowsGrow
<1>1. UNCHANGED <<status, attempts, settlement>>
  BY DEF store
<1> QED
  BY <1>1, RowsKept DEF StoreOk, AttemptsOk

\* One row of one event is rewritten.
LEMMA RowRewritten ==
  ASSUME StoreOk, NEW e \in Events, NEW k \in 1..Len(attempts[e]), NEW row \in AttemptRow,
         RowOk(row), row.config = attempts[e][k].config,
         attempts[e][k].valid # 0 => row.valid = attempts[e][k].valid,
         attempts' = [attempts EXCEPT ![e] = [attempts[e] EXCEPT ![k] = row]]
  PROVE  /\ AttemptsOk' /\ RowsGrow
         /\ \A f \in Events : f # e => attempts'[f] = attempts[f]
         /\ Len(attempts'[e]) = Len(attempts[e])
         /\ \A j \in 1..Len(attempts[e]) : attempts'[e][j] = IF j = k THEN row ELSE attempts[e][j]
<1>1. /\ attempts[e] \in Seq(AttemptRow) /\ Len(attempts[e]) \in Nat
      /\ \A f \in Events : Len(attempts[f]) \in Nat
  BY Lengths
<1>2. PICK new : new = [attempts[e] EXCEPT ![k] = row]
  OBVIOUS
<1>3. /\ new \in Seq(AttemptRow) /\ Len(new) = Len(attempts[e])
      /\ \A j \in 1..Len(attempts[e]) : new[j] = IF j = k THEN row ELSE attempts[e][j]
  BY <1>1, <1>2, ExceptSeq
<1>4. /\ attempts' \in [Events -> Seq(AttemptRow)]
      /\ attempts'[e] = new /\ \A f \in Events : f # e => attempts'[f] = attempts[f]
  BY <1>2, <1>3 DEF StoreOk, AttemptsOk
<1>5. \A f \in Events : \A j \in 1..Len(attempts'[f]) : RowOk(attempts'[f][j])
  BY <1>3, <1>4 DEF StoreOk, AttemptsOk
<1>6. AttemptsOk'
  BY <1>4, <1>5 DEF AttemptsOk
<1>7. RowsGrow
  BY <1>1, <1>3, <1>4 DEF RowsGrow
<1> QED
  BY <1>3, <1>4, <1>6, <1>7

\* Its status is.
LEMMA AttemptSet ==
  ASSUME StoreOk, NEW e \in Events, NEW k \in 1..Len(attempts[e]), NEW s \in AttemptStatuses,
         SetAttempt(e, k, s),
         s = "failed" \/ (s # "prepared" /\ attempts[e][k].valid # 0)
  PROVE  /\ AttemptsOk' /\ RowsGrow
         /\ \A f \in Events : f # e => attempts'[f] = attempts[f]
         /\ Len(attempts'[e]) = Len(attempts[e])
         /\ attempts'[e][k].status = s /\ attempts'[e][k].config = attempts[e][k].config
         /\ attempts'[e][k].valid = attempts[e][k].valid
         /\ \A j \in 1..Len(attempts[e]) : j # k => attempts'[e][j] = attempts[e][j]
<1>1. attempts[e][k] \in AttemptRow /\ RowOk(attempts[e][k])
  BY Lengths
<1>2. PICK row : row = [attempts[e][k] EXCEPT !.status = s]
  OBVIOUS
<1>3. row \in AttemptRow /\ row.config = attempts[e][k].config /\ row.valid = attempts[e][k].valid
      /\ row.status = s
  BY <1>1, <1>2 DEF AttemptRow
<1>4. RowOk(row)
  BY <1>1, <1>3 DEF RowOk
<1>5. attempts' = [attempts EXCEPT ![e] = [attempts[e] EXCEPT ![k] = row]]
  BY <1>2 DEF SetAttempt
<1>6. /\ AttemptsOk' /\ RowsGrow
      /\ \A f \in Events : f # e => attempts'[f] = attempts[f]
      /\ Len(attempts'[e]) = Len(attempts[e])
      /\ \A j \in 1..Len(attempts[e]) : attempts'[e][j] = IF j = k THEN row ELSE attempts[e][j]
  BY <1>3, <1>4, <1>5, RowRewritten
<1> QED
  BY <1>3, <1>6

\* A row is signed, if it was prepared.
SignRow(e, k, n) == attempts' = [attempts EXCEPT ![e][k].status = "signed", ![e][k].valid = n]

LEMMA RowSigned ==
  ASSUME StoreOk, NEW e \in Events, NEW k \in 1..Len(attempts[e]), NEW n \in Nat \ {0},
         attempts[e][k].status = "prepared",
         SignRow(e, k, n)
  PROVE  /\ AttemptsOk' /\ RowsGrow
         /\ \A f \in Events : f # e => attempts'[f] = attempts[f]
         /\ Len(attempts'[e]) = Len(attempts[e])
         /\ attempts'[e][k].status = "signed" /\ attempts'[e][k].config = attempts[e][k].config
         /\ attempts'[e][k].valid = n
         /\ \A j \in 1..Len(attempts[e]) : j # k => attempts'[e][j] = attempts[e][j]
<1>1. attempts[e][k] \in AttemptRow /\ RowOk(attempts[e][k])
  BY Lengths
<1>2. PICK row : row = [attempts[e][k] EXCEPT !.status = "signed", !.valid = n]
  OBVIOUS
<1>3. /\ row \in AttemptRow /\ row.config = attempts[e][k].config
      /\ row.valid = n /\ row.status = "signed"
  BY <1>1, <1>2 DEF AttemptRow, AttemptStatuses
<1>4. RowOk(row) /\ attempts[e][k].valid = 0
  BY <1>1, <1>3 DEF RowOk
<1>5. attempts' = [attempts EXCEPT ![e] = [attempts[e] EXCEPT ![k] = row]]
  BY <1>2 DEF SignRow
<1>6. attempts[e][k].valid # 0 => row.valid = attempts[e][k].valid
  BY <1>4
<1>7. /\ AttemptsOk' /\ RowsGrow
      /\ \A f \in Events : f # e => attempts'[f] = attempts[f]
      /\ Len(attempts'[e]) = Len(attempts[e])
      /\ \A j \in 1..Len(attempts[e]) : attempts'[e][j] = IF j = k THEN row ELSE attempts[e][j]
  BY <1>3, <1>4, <1>5, <1>6, RowRewritten, ZenonT(60)
<1> QED
  BY <1>3, <1>7

\* A row is added: prepared, for the configuration of today.
AddRow(e, row) == attempts' = [attempts EXCEPT ![e] = Append(@, row)]

LEMMA RowAdded ==
  ASSUME StoreOk, ClusterOk, NEW e \in Events, NEW row,
         row = [status |-> "prepared", config |-> config, valid |-> 0],
         AddRow(e, row)
  PROVE  /\ AttemptsOk' /\ RowsGrow
         /\ \A f \in Events : f # e => attempts'[f] = attempts[f]
         /\ Len(attempts'[e]) = Len(attempts[e]) + 1
         /\ attempts'[e][Len(attempts[e]) + 1] = row
         /\ \A j \in 1..Len(attempts[e]) : attempts'[e][j] = attempts[e][j]
<1>1. /\ attempts[e] \in Seq(AttemptRow) /\ Len(attempts[e]) \in Nat
      /\ \A f \in Events : Len(attempts[f]) \in Nat
  BY Lengths
<1>2. row \in AttemptRow /\ RowOk(row)
  BY DEF AttemptRow, AttemptStatuses, RowOk, ClusterOk
<1>3. PICK new : new = Append(attempts[e], row)
  OBVIOUS
<1>4. /\ new \in Seq(AttemptRow) /\ Len(new) = Len(attempts[e]) + 1
      /\ \A j \in 1..Len(attempts[e]) : new[j] = attempts[e][j]
      /\ new[Len(attempts[e]) + 1] = row
  BY <1>1, <1>2, <1>3, AppendProperties
<1>5. /\ attempts' \in [Events -> Seq(AttemptRow)]
      /\ attempts'[e] = new /\ \A f \in Events : f # e => attempts'[f] = attempts[f]
  BY <1>3, <1>4 DEF StoreOk, AttemptsOk, AddRow
<1>6. \A f \in Events : \A j \in 1..Len(attempts'[f]) : RowOk(attempts'[f][j])
  <2> TAKE f \in Events
  <2>1. CASE f # e
    BY <1>5, <2>1 DEF StoreOk, AttemptsOk
  <2>2. CASE f = e
    <3> SUFFICES ASSUME NEW j \in 1..Len(new) PROVE RowOk(new[j])
      BY <1>5, <2>2
    <3>1. j \in 1..Len(attempts[e]) \/ j = Len(attempts[e]) + 1
      BY <1>1, <1>4
    <3> QED
      BY <1>2, <1>4, <3>1 DEF StoreOk, AttemptsOk
  <2> QED
    BY <2>1, <2>2
<1>7. AttemptsOk'
  BY <1>5, <1>6 DEF AttemptsOk
<1>8. RowsGrow
  <2> SUFFICES ASSUME NEW f \in Events
               PROVE  /\ Len(attempts'[f]) >= Len(attempts[f])
                      /\ \A k \in 1..Len(attempts[f]) :
                           /\ attempts'[f][k].config = attempts[f][k].config
                           /\ attempts[f][k].valid # 0 => attempts'[f][k].valid = attempts[f][k].valid
    BY DEF RowsGrow
  <2>1. CASE f = e
    BY <1>1, <1>4, <1>5, <2>1
  <2>2. CASE f # e
    BY <1>1, <1>5, <2>2
  <2> QED
    BY <2>1, <2>2
<1> QED
  BY <1>4, <1>5, <1>7, <1>8

\* The signed rows expire.
LEMMA RowsExpired ==
  ASSUME StoreOk, NEW e \in Events,
         attempts' = [attempts EXCEPT ![e] = [k \in 1..Len(@) |->
             IF @[k].status = "signed" THEN [@[k] EXCEPT !.status = "expired"] ELSE @[k]]]
  PROVE  /\ AttemptsOk' /\ RowsGrow
         /\ \A f \in Events : f # e => attempts'[f] = attempts[f]
         /\ Len(attempts'[e]) = Len(attempts[e])
         /\ \A j \in 1..Len(attempts[e]) :
              /\ attempts'[e][j].status # "signed"
              /\ attempts'[e][j].config = attempts[e][j].config
              /\ attempts'[e][j].valid = attempts[e][j].valid
<1> DEFINE Expire(row) == IF row.status = "signed" THEN [row EXCEPT !.status = "expired"] ELSE row
<1>1. /\ attempts[e] \in Seq(AttemptRow) /\ Len(attempts[e]) \in Nat
      /\ \A f \in Events : Len(attempts[f]) \in Nat
      /\ \A k \in 1..Len(attempts[e]) : attempts[e][k] \in AttemptRow /\ RowOk(attempts[e][k])
  BY Lengths
<1>2. \A row \in AttemptRow : /\ Expire(row) \in AttemptRow /\ Expire(row).status # "signed"
                              /\ Expire(row).config = row.config /\ Expire(row).valid = row.valid
                              /\ RowOk(row) => RowOk(Expire(row))
  BY DEF AttemptRow, AttemptStatuses, RowOk
<1> HIDE DEF Expire
<1>3. PICK new : new = [k \in 1..Len(attempts[e]) |-> Expire(attempts[e][k])]
  OBVIOUS
<1>4. new \in Seq(AttemptRow) /\ Len(new) = Len(attempts[e])
  BY <1>1, <1>2, <1>3
<1>5. \A j \in 1..Len(attempts[e]) :
        /\ RowOk(new[j]) /\ new[j].status # "signed"
        /\ new[j].config = attempts[e][j].config /\ new[j].valid = attempts[e][j].valid
  BY <1>1, <1>2, <1>3
<1>6. attempts' = [attempts EXCEPT ![e] = new]
  BY <1>3 DEF Expire
<1>7. /\ attempts' \in [Events -> Seq(AttemptRow)]
      /\ attempts'[e] = new /\ \A f \in Events : f # e => attempts'[f] = attempts[f]
  BY <1>4, <1>6 DEF StoreOk, AttemptsOk
<1>8. AttemptsOk'
  BY <1>4, <1>5, <1>7 DEF StoreOk, AttemptsOk
<1>9. RowsGrow
  BY <1>1, <1>4, <1>5, <1>7 DEF RowsGrow
<1> QED
  BY <1>4, <1>5, <1>7, <1>8, <1>9

LEMMA WorkSet ==
  ASSUME work \in [Workers -> Works], NEW w \in Workers, NEW new \in Works,
         work' = [work EXCEPT ![w] = new]
  PROVE  /\ work' \in [Workers -> Works] /\ \A u \in Workers : u # w => work'[u] = work[u]
         /\ work'[w] = new
  OBVIOUS

\* A worker goes on, with what it holds.
LEMMA GotoWork ==
  ASSUME work \in [Workers -> Works], NEW w \in Workers, NEW pc \in Steps, Goto(w, pc)
  PROVE  /\ work' \in [Workers -> Works] /\ \A u \in Workers : u # w => work'[u] = work[u]
         /\ work'[w].pc = pc /\ work'[w].event = work[w].event /\ work'[w].count = work[w].count
         /\ work'[w].rows = work[w].rows /\ work'[w].at = work[w].at /\ work'[w].tip = work[w].tip
         /\ work'[w].waiting = work[w].waiting /\ work'[w].valid = work[w].valid
<1>1. work[w] \in Works
  OBVIOUS
<1>2. PICK new : new = [work[w] EXCEPT !.pc = pc]
  OBVIOUS
<1>3. /\ new \in Works
      /\ new.pc = pc /\ new.event = work[w].event /\ new.count = work[w].count
      /\ new.rows = work[w].rows /\ new.at = work[w].at /\ new.tip = work[w].tip
      /\ new.waiting = work[w].waiting /\ new.valid = work[w].valid
  BY <1>1, <1>2 DEF Works
<1>4. work' = [work EXCEPT ![w] = new]
  BY <1>2 DEF Goto
<1> QED
  BY <1>3, <1>4

LEMMA IdleIsWork == Idle \in Works
<1>1. <<>> \in Seq(AttemptRow)
  OBVIOUS
<1> QED
  BY <1>1 DEF Idle, Works, Steps

\* Or forgets everything.
LEMMA RestWork ==
  ASSUME work \in [Workers -> Works], NEW w \in Workers, Rest(w)
  PROVE  /\ work' \in [Workers -> Works] /\ \A u \in Workers : u # w => work'[u] = work[u]
         /\ work'[w] = Idle /\ WorkOk(w)'
<1>1. work' \in [Workers -> Works] /\ work'[w] = Idle /\ \A u \in Workers : u # w => work'[u] = work[u]
  BY IdleIsWork DEF Rest
<1>2. Idle.pc = "idle"
  BY DEF Idle
<1>3. WorkOk(w)'
  BY <1>1, <1>2 DEF WorkOk, Settling, Recording
<1> QED
  BY <1>1, <1>3

\* What another worker holds has got older, and no worse.
LEMMA WorkStays ==
  ASSUME TypeInv, ChainGrows, RowsGrow, NEW u \in Workers, work'[u] = work[u],
         config' = config \/ work[u].pc = "idle"
  PROVE  WorkOk(u)'
<1>1. WorkOk(u) /\ StoreOk /\ config \in Configs
  BY DEF TypeInv, ClusterOk
<1>2. CASE work[u].pc = "idle"
  BY <1>1, <1>2 DEF WorkOk, Settling, Recording
<1>3. CASE work[u].pc # "idle"
  <2> DEFINE e == work[u].event
  <2>1. e \in Events /\ RowsOk(u) /\ config' = config
    BY <1>1, <1>3 DEF WorkOk
  <2>2. Len(attempts[e]) \in Nat /\ Len(work[u].rows) \in Nat
    BY <1>1, <2>1, Lengths, RowLengths DEF TypeInv
  <2>3. /\ Len(attempts'[e]) >= Len(attempts[e])
        /\ \A k \in 1..Len(attempts[e]) :
             /\ attempts'[e][k].config = attempts[e][k].config
             /\ attempts[e][k].valid # 0 => attempts'[e][k].valid = attempts[e][k].valid
    BY <2>1 DEF RowsGrow
  <2>4. RowsOk(u)'
    <3>1. Len(work[u].rows) <= Len(attempts'[e])
      BY <2>1, <2>2, <2>3 DEF RowsOk
    <3>2. ASSUME NEW k \in 1..Len(work[u].rows)
          PROVE  /\ RowOk(work[u].rows[k]) /\ work[u].rows[k].config = attempts'[e][k].config
                 /\ work[u].rows[k].valid # 0 => attempts'[e][k].valid = work[u].rows[k].valid
      <4>1. k \in 1..Len(attempts[e])
        BY <2>1, <2>2 DEF RowsOk
      <4> QED
        BY <2>1, <2>3, <4>1 DEF RowsOk
    <3> QED
      BY <3>1, <3>2 DEF RowsOk, RowOk
  <2>5. work[u].pc \in Settling \ {"settle"} => work[u].at \in 1..Len(attempts'[e])
    BY <1>1, <2>2, <2>3 DEF WorkOk
  <2>6. Creation(u) # NoRecord => Creation(u)' = Creation(u)
    BY <1>1, <2>1 DEF ChainGrows, Creation, Namespaces
  <2> QED
    BY <1>1, <1>3, <2>1, <2>4, <2>5, <2>6 DEF WorkOk, Recording
<1> QED
  BY <1>2, <1>3

LEMMA OthersStay ==
  ASSUME TypeInv, ChainGrows, RowsGrow, config' = config, NEW w \in Workers,
         \A u \in Workers : u # w => work'[u] = work[u], WorkOk(w)'
  PROVE  \A u \in Workers : WorkOk(u)'
<1> TAKE u \in Workers
<1>1. CASE u = w
  BY <1>1
<1>2. CASE u # w
  BY <1>2, WorkStays
<1> QED
  BY <1>1, <1>2

LEMMA AllStay ==
  ASSUME TypeInv, ChainGrows, RowsGrow, UNCHANGED <<work, config>>
  PROVE  work' \in [Workers -> Works] /\ \A u \in Workers : WorkOk(u)'
  BY WorkStays DEF TypeInv

LEMMA OneRests ==
  ASSUME TypeInv, ChainGrows, RowsGrow, config' = config, NEW w \in Workers, Rest(w)
  PROVE  work' \in [Workers -> Works] /\ \A u \in Workers : WorkOk(u)'
<1>1. work \in [Workers -> Works]
  BY DEF TypeInv
<1>2. work' \in [Workers -> Works] /\ (\A u \in Workers : u # w => work'[u] = work[u]) /\ WorkOk(w)'
  BY <1>1, RestWork
<1> QED
  BY <1>2, OthersStay

\* A worker that keeps its event, its rows and its place.
LEMMA Holds ==
  ASSUME TypeInv, ChainGrows, RowsGrow, config' = config, NEW w \in Workers,
         work[w].pc # "idle", work'[w].event = work[w].event, work'[w].rows = work[w].rows
  PROVE  /\ work'[w].event \in Events /\ RowsOk(w)'
         /\ Creation(w) # NoRecord => Creation(w)' = Creation(w)
         /\ work[w].pc \in Settling \ {"settle"} => work[w].at \in 1..Len(attempts'[work[w].event])
<1> DEFINE e == work[w].event
<1>1. WorkOk(w) /\ StoreOk /\ config \in Configs
  BY DEF TypeInv, ClusterOk
<1>2. e \in Events /\ RowsOk(w)
  BY <1>1 DEF WorkOk
<1>3. Len(attempts[e]) \in Nat /\ Len(work[w].rows) \in Nat
  BY <1>1, <1>2, Lengths, RowLengths DEF TypeInv
<1>4. /\ Len(attempts'[e]) >= Len(attempts[e])
      /\ \A k \in 1..Len(attempts[e]) :
           /\ attempts'[e][k].config = attempts[e][k].config
           /\ attempts[e][k].valid # 0 => attempts'[e][k].valid = attempts[e][k].valid
  BY <1>2 DEF RowsGrow
<1>5. \A k \in 1..Len(work[w].rows) : k \in 1..Len(attempts[e])
  BY <1>2, <1>3 DEF RowsOk
<1>6. Len(work[w].rows) <= Len(attempts'[e])
  BY <1>2, <1>3, <1>4 DEF RowsOk
<1>7. RowsOk(w)'
  <2>1. ASSUME NEW k \in 1..Len(work[w].rows)
        PROVE  LET row == work[w].rows[k]
               IN /\ row.valid = 0 => row.status \in {"prepared", "failed"}
                  /\ row.valid # 0 => row.status # "prepared"
                  /\ row.config = attempts'[e][k].config
                  /\ row.valid # 0 => attempts'[e][k].valid = row.valid
    BY <1>2, <1>4, <1>5 DEF RowsOk, RowOk
  <2> QED
    BY <1>6, <2>1 DEF RowsOk, RowOk
<1>8. Creation(w) # NoRecord => Creation(w)' = Creation(w)
  BY <1>1, <1>2 DEF ChainGrows, Creation, Namespaces
<1>9. work[w].pc \in Settling \ {"settle"} => work[w].at \in 1..Len(attempts'[e])
  BY <1>1, <1>3, <1>4, SMTT(30) DEF WorkOk
<1> QED
  BY <1>2, <1>7, <1>8, <1>9

\* A worker that goes on to its next await.
LEMMA OneMoves ==
  ASSUME TypeInv, ChainGrows, RowsGrow, config' = config, NEW w \in Workers,
         NEW pc \in Steps \ {"idle", "scan", "height"}, Goto(w, pc), work[w].pc # "idle",
         pc \in Settling => pc # "settle" /\ work[w].pc \in Settling \ {"settle"},
         pc \in Recording \ {"find"} => Creation(w) # NoRecord,
         pc \in {"confirm", "rows"} => Creation(w).content \in Rates,
         pc \in {"reconcile", "compare"} => Creation(w).content # "inner"
  PROVE  work' \in [Workers -> Works] /\ \A u \in Workers : WorkOk(u)'
<1>1. work \in [Workers -> Works] /\ WorkOk(w)
  BY DEF TypeInv
<1>2. /\ work' \in [Workers -> Works] /\ (\A u \in Workers : u # w => work'[u] = work[u])
      /\ work'[w].pc = pc /\ work'[w].event = work[w].event /\ work'[w].rows = work[w].rows
      /\ work'[w].at = work[w].at /\ work'[w].valid = work[w].valid
  BY <1>1, GotoWork
<1>3. /\ work'[w].event \in Events /\ RowsOk(w)'
      /\ Creation(w) # NoRecord => Creation(w)' = Creation(w)
      /\ work[w].pc \in Settling \ {"settle"} => work[w].at \in 1..Len(attempts'[work[w].event])
  BY <1>2, Holds
<1>4. pc \in Settling \ {"settle"} => work[w].valid > 0
  BY <1>1 DEF WorkOk
<1>5. WorkOk(w)'
  BY <1>2, <1>3, <1>4 DEF WorkOk, Recording
<1> QED
  BY <1>2, <1>5, OthersStay

\* A worker that goes on to its next row.
LEMMA OneScans ==
  ASSUME TypeInv, ChainGrows, RowsGrow, config' = config, NEW w \in Workers,
         work[w].pc \in {"scan", "height"}, NEW t \in Nat, NEW b \in BOOLEAN,
         work' = [work EXCEPT ![w].pc = "scan", ![w].at = @ + 1, ![w].tip = t, ![w].waiting = b]
  PROVE  work' \in [Workers -> Works] /\ \A u \in Workers : WorkOk(u)'
<1>1. work[w] \in Works /\ work \in [Workers -> Works] /\ WorkOk(w)
  BY DEF TypeInv
<1>2. PICK new : new = [work[w] EXCEPT !.pc = "scan", !.at = @ + 1, !.tip = t, !.waiting = b]
  OBVIOUS
<1>3. /\ new \in Works /\ new.pc = "scan" /\ new.event = work[w].event /\ new.rows = work[w].rows
      /\ new.at = work[w].at + 1
  BY <1>1, <1>2 DEF Works, Steps, Scanning
<1>4. work' = [work EXCEPT ![w] = new]
  BY <1>2
<1>5. /\ work' \in [Workers -> Works] /\ (\A u \in Workers : u # w => work'[u] = work[u])
      /\ work'[w] = new
  BY <1>1, <1>3, <1>4, WorkSet
<1>6. work'[w].event \in Events /\ RowsOk(w)'
  BY <1>3, <1>5, Holds
<1>7. work'[w].at > 0
  BY <1>1, <1>3, <1>5 DEF Works
<1>8. WorkOk(w)'
  BY <1>3, <1>5, <1>6, <1>7 DEF WorkOk, Settling, Recording
<1> QED
  BY <1>5, <1>8, OthersStay

LEMMA NextRowScans ==
  ASSUME TypeInv, ChainGrows, RowsGrow, config' = config, NEW w \in Workers,
         work[w].pc = "scan", NEW wait \in BOOLEAN, NextRow(w, wait)
  PROVE  work' \in [Workers -> Works] /\ \A u \in Workers : WorkOk(u)'
<1>1. work[w] \in Works
  BY DEF TypeInv
<1>2. PICK b \in BOOLEAN : b = (work[w].waiting \/ wait)
  OBVIOUS
<1>3. work[w].tip \in Nat
  BY <1>1 DEF Works
<1>4. [work[w] EXCEPT !.pc = "scan", !.at = @ + 1, !.waiting = @ \/ wait]
      = [work[w] EXCEPT !.pc = "scan", !.at = @ + 1, !.tip = work[w].tip, !.waiting = b]
  BY <1>1, <1>2 DEF Works
<1>5. work' = [work EXCEPT ![w].pc = "scan", ![w].at = @ + 1, ![w].tip = work[w].tip, ![w].waiting = b]
  BY <1>4 DEF NextRow
<1> QED
  BY <1>3, <1>5, OneScans

\* The ledger keeps what it was written from.
LEMMA LedgerStays ==
  ASSUME LedgerMatchesChain, StoreOk, RecordsOk, ClusterOk, ClusterOk', ChainGrows,
         UNCHANGED settlement
  PROVE  LedgerMatchesChain'
<1> SUFFICES ASSUME NEW e \in Events, settlement[e] # <<>>
             PROVE  \E n \in Namespaces : /\ settlement[e] = <<record'[n][e]>>
                                          /\ record'[n][e].content \in Rates
                                          /\ record'[n][e].height <= finalized'
  BY DEF LedgerMatchesChain
<1>1. PICK n \in Namespaces : /\ settlement[e] = <<record[n][e]>> /\ record[n][e].content \in Rates
                              /\ record[n][e].height <= finalized
  BY DEF LedgerMatchesChain
<1>2. record[n][e] # NoRecord
  <2>1. settlement[e] \in Seq(Settlements) /\ settlement[e] = <<record[n][e]>>
    BY <1>1 DEF StoreOk
  <2>2. 1 \in 1..Len(settlement[e]) /\ settlement[e][1] = record[n][e]
    BY <2>1
  <2>3. record[n][e] \in Settlements
    BY <2>1, <2>2, ElementOfSeq
  <2> QED
    BY <2>3, SettlementsAreRecords
<1>3. record'[n][e] = record[n][e] /\ record[n][e].height \in Nat
  BY <1>2 DEF ChainGrows, RecordsOk, Settlements
<1>4. record[n][e].height <= finalized'
  BY <1>1, <1>3 DEF ChainGrows, ClusterOk
<1> QED
  BY <1>1, <1>3, <1>4

-----------------------------------------------------------------------------
(* The steps of a worker                                                   *)

\* A step that leaves the chain alone keeps the invariant if the store is well formed
\* and the worker knows what it must.
LEMMA StepKeeps ==
  ASSUME IInv, UNCHANGED <<cluster, calm, config, settlement>>, ServedOk', StoreOk', RowsGrow,
         work' \in [Workers -> Works], \A u \in Workers : WorkOk(u)'
  PROVE  Kept
<1>1. ClusterOk' /\ RecordsOk' /\ ChainGrows
  BY ChainKept DEF IInv, TypeInv
<1>2. LedgerMatchesChain'
  BY <1>1, LedgerStays DEF IInv, TypeInv
<1> QED
  BY <1>1, <1>2 DEF IInv, TypeInv, Kept

\* A step that reads nothing, writes a status and rests.
LEMMA SetAndRest ==
  ASSUME IInv, NEW w \in Workers, NEW e \in Events, NEW s \in Statuses, Set(e, s), Rest(w),
         UNCHANGED <<cluster, calm, config, attempts, settlement>>, ServedOk'
  PROVE  Kept
<1>1. TypeInv /\ ChainGrows
  BY ChainKept DEF IInv, TypeInv
<1>2. StoreOk' /\ RowsGrow
  BY <1>1, StatusSet DEF TypeInv
<1>3. work' \in [Workers -> Works] /\ \A u \in Workers : WorkOk(u)'
  BY <1>1, <1>2, OneRests
<1> QED
  BY <1>2, <1>3, StepKeeps

\* A worker's event, when it has one.
LEMMA OwnEvent ==
  ASSUME TypeInv, NEW w \in Workers, work[w].pc # "idle"
  PROVE  work[w].event \in Events /\ WorkOk(w) /\ StoreOk /\ ServedOk /\ ClusterOk /\ RecordsOk
         /\ work \in [Workers -> Works]
  BY DEF TypeInv, WorkOk

\* A step that only reads, and goes on.
LEMMA ReadAndGo ==
  ASSUME IInv, NEW w \in Workers, UNCHANGED <<cluster, calm, config, store>>, ServedOk',
         NEW pc \in Steps \ {"idle", "scan", "height"}, Goto(w, pc), work[w].pc # "idle",
         pc \in Settling => pc # "settle" /\ work[w].pc \in Settling \ {"settle"},
         pc \in Recording \ {"find"} => Creation(w) # NoRecord,
         pc \in {"confirm", "rows"} => Creation(w).content \in Rates,
         pc \in {"reconcile", "compare"} => Creation(w).content # "inner"
  PROVE  Kept
<1>1. TypeInv /\ ChainGrows
  BY ChainKept DEF IInv, TypeInv
<1>2. StoreOk' /\ RowsGrow /\ UNCHANGED settlement
  BY <1>1, StoreKept DEF TypeInv, store
<1>3. work' \in [Workers -> Works] /\ \A u \in Workers : WorkOk(u)'
  BY <1>1, <1>2, OneMoves
<1> QED
  BY <1>2, <1>3, StepKeeps

LEMMA SettleKeeps ==
  ASSUME IInv, NEW w \in Workers, SettleStep(w)
  PROVE  Kept
<1>1. TypeInv /\ StoreOk /\ ServedOk /\ ClusterOk /\ RecordsOk /\ work \in [Workers -> Works]
      /\ work[w] \in Works
  BY DEF IInv, TypeInv
<1>2. UNCHANGED <<cluster, calm, config>> => ChainGrows
  BY <1>1, ChainKept
<1>3. ServedOk' \/ ~UNCHANGED <<served, cluster>>
  BY <1>1, ServedKept DEF cluster
<1>4. "in_flight" \in Statuses /\ "pending" \in Statuses /\ "needs_attention" \in Statuses
  BY DEF Statuses, Decided
<1>5. "failed" \in AttemptStatuses
  BY DEF AttemptStatuses
<1>6. ASSUME NEW e \in Events, Select(w, e)
      PROVE  Kept
  <2>1. UNCHANGED <<cluster, served, calm, config>> /\ UNCHANGED store
    BY <1>6 DEF Select
  <2>2. StoreOk' /\ RowsGrow /\ UNCHANGED settlement
    BY <1>1, <2>1, StoreKept DEF store
  <2>3. PICK new : new = [work[w] EXCEPT !.pc = "settle", !.event = e, !.count = Len(attempts[e])]
    OBVIOUS
  <2>4. work[w] = Idle /\ Len(attempts[e]) \in Nat
    BY <1>1, <1>6, Lengths DEF Select, TypeInv, WorkOk
  <2>5. new \in Works /\ new.pc = "settle" /\ new.event = e /\ new.rows = <<>>
    <3>1. work[w] \in Works /\ work[w].rows = <<>> /\ Len(attempts[e]) \in Nat
      BY <1>1, <2>4 DEF Idle
    <3>2. "settle" \in Steps
      BY DEF Steps, Settling
    <3> QED
      BY <2>3, <3>1, <3>2 DEF Works
  <2>6. work' = [work EXCEPT ![w] = new]
    BY <1>6, <2>3 DEF Select
  <2>7. /\ work' \in [Workers -> Works] /\ work'[w] = new
        /\ \A u \in Workers : u # w => work'[u] = work[u]
    BY <1>1, <2>5, <2>6, WorkSet
  <2>8. WorkOk(w)'
    <3>1. RowsOk(w)'
      BY <1>1, <2>2, <2>4, <2>5, <2>7, Lengths DEF RowsOk, RowsGrow
    <3> QED
      BY <2>5, <2>7, <3>1 DEF WorkOk, Settling, Recording
  <2>9. \A u \in Workers : WorkOk(u)'
    BY <1>1, <1>2, <2>1, <2>2, <2>7, <2>8, OthersStay
  <2> QED
    BY <1>3, <2>1, <2>2, <2>7, <2>9, StepKeeps
<1>7. CASE GiveUp(w) \/ NoBlockhash(w) \/ Abandon(w)
  <2>1. /\ work[w].pc # "idle" /\ Rest(w)
        /\ UNCHANGED <<cluster, served, calm, attempts, settlement, config>>
    BY <1>7 DEF GiveUp, NoBlockhash, Abandon
  <2>2. PICK s \in Statuses : Set(work[w].event, s)
    BY <1>4, <1>7 DEF GiveUp, NoBlockhash, Abandon
  <2>3. work[w].event \in Events
    BY <1>1, <2>1, OwnEvent
  <2> QED
    BY <1>3, <2>1, <2>2, <2>3, SetAndRest
<1>8. CASE BeginAttempt(w)
  <2> DEFINE e == work[w].event
  <2>1. work[w].pc = "settle" /\ UNCHANGED <<cluster, calm, config, settlement>>
    BY <1>8 DEF BeginAttempt
  <2>2. PICK v \in Views("primary") :
          /\ Answers("primary", v)
          /\ \/ Rest(w) /\ UNCHANGED <<status, attempts>>
             \/ /\ Set(e, "in_flight")
                /\ attempts' = [attempts EXCEPT ![e] =
                     Append(@, [status |-> "prepared", config |-> config, valid |-> 0])]
                /\ work' = [work EXCEPT ![w].pc = "sign", ![w].valid = v + ValidFor,
                                        ![w].at = Len(attempts[e]) + 1]
    BY <1>8 DEF BeginAttempt
  <2>3. ServedOk' /\ v \in Nat /\ v >= 1
    BY <1>1, <2>1, <2>2, AnswersServed, PrimaryIsProvider DEF cluster
  <2>4. e \in Events
    BY <1>1, <2>1, OwnEvent
  <2>5. CASE Rest(w) /\ UNCHANGED <<status, attempts>>
    <3>1. StoreOk' /\ RowsGrow
      BY <1>1, <2>1, <2>5, StoreKept DEF store
    <3>2. work' \in [Workers -> Works] /\ \A u \in Workers : WorkOk(u)'
      BY <1>1, <1>2, <2>1, <2>5, <3>1, OneRests
    <3> QED
      BY <2>1, <2>3, <3>1, <3>2, StepKeeps
  <2>6. CASE /\ Set(e, "in_flight")
             /\ attempts' = [attempts EXCEPT ![e] =
                  Append(@, [status |-> "prepared", config |-> config, valid |-> 0])]
             /\ work' = [work EXCEPT ![w].pc = "sign", ![w].valid = v + ValidFor,
                                     ![w].at = Len(attempts[e]) + 1]
    <3>1. PICK row : row = [status |-> "prepared", config |-> config, valid |-> 0]
      OBVIOUS
    <3>2. AddRow(e, row)
      BY <2>6, <3>1 DEF AddRow
    <3>3. AttemptsOk' /\ RowsGrow /\ Len(attempts'[e]) = Len(attempts[e]) + 1
      BY <1>1, <2>4, <3>1, <3>2, RowAdded
    <3>4. StoreOk'
      BY <1>1, <1>4, <2>1, <2>6, <3>3 DEF StoreOk, Set
    <3>5. PICK new : new = [work[w] EXCEPT !.pc = "sign", !.valid = v + ValidFor,
                                           !.at = Len(attempts[e]) + 1]
      OBVIOUS
    <3>6. Len(attempts[e]) \in Nat /\ v + ValidFor \in Nat /\ v + ValidFor > 0
      BY <1>1, <2>3, <2>4, Lengths, WorkerAssumption
    <3>7. /\ new \in Works /\ new.pc = "sign" /\ new.event = e /\ new.rows = work[w].rows
          /\ new.at = Len(attempts[e]) + 1 /\ new.valid = v + ValidFor
      <4>1. work[w] \in Works /\ Len(attempts[e]) + 1 \in Nat
        BY <1>1, <3>6
      <4>2. "sign" \in Steps
        BY DEF Steps, Settling
      <4> QED
        BY <3>5, <3>6, <4>1, <4>2 DEF Works
    <3>8. work' = [work EXCEPT ![w] = new]
      BY <2>6, <3>5
    <3>9. /\ work' \in [Workers -> Works] /\ work'[w] = new
          /\ \A u \in Workers : u # w => work'[u] = work[u]
      BY <1>1, <3>7, <3>8, WorkSet
    <3>10. work'[w].event \in Events /\ RowsOk(w)'
      BY <1>1, <1>2, <2>1, <3>3, <3>7, <3>9, Holds
    <3>11. WorkOk(w)'
      BY <3>3, <3>6, <3>7, <3>9, <3>10 DEF WorkOk, Settling, Recording
    <3>12. \A u \in Workers : WorkOk(u)'
      BY <1>1, <1>2, <2>1, <3>3, <3>9, <3>11, OthersStay
    <3> QED
      BY <2>1, <2>3, <3>3, <3>4, <3>9, <3>12, StepKeeps
  <2> QED
    BY <2>2, <2>5, <2>6
<1>9. CASE CannotBuild(w) \/ SendRefused(w)
  <2> DEFINE e == work[w].event
  <2>1. /\ work[w].pc \in {"sign", "send"} /\ UNCHANGED <<cluster, served, calm, status, settlement, config>>
        /\ SetAttempt(e, work[w].at, "failed")
    BY <1>9 DEF CannotBuild, SendRefused
  <2>2. PICK pc \in {"abandon", "refused"} : Goto(w, pc)
    BY <1>9 DEF CannotBuild, SendRefused
  <2>3. e \in Events /\ work[w].at \in 1..Len(attempts[e])
    BY <1>1, <2>1, OwnEvent DEF WorkOk, Settling
  <2>4. AttemptsOk' /\ RowsGrow
    BY <1>1, <1>5, <2>1, <2>3, AttemptSet
  <2>5. StoreOk'
    BY <1>1, <2>1, <2>4 DEF StoreOk
  <2>6. work' \in [Workers -> Works] /\ \A u \in Workers : WorkOk(u)'
    BY <1>1, <1>2, <2>1, <2>2, <2>4, OneMoves DEF Steps, Settling, Recording
  <2> QED
    BY <1>3, <2>1, <2>4, <2>5, <2>6, StepKeeps
<1>10. CASE RecordSigned(w)
  <2> DEFINE e == work[w].event
             k == work[w].at
  <2>1. /\ work[w].pc = "sign" /\ UNCHANGED <<cluster, served, calm, status, settlement, config>>
        /\ Goto(w, "send")
    BY <1>10 DEF RecordSigned
  <2>2. e \in Events /\ k \in 1..Len(attempts[e]) /\ work[w].valid \in Nat \ {0}
    BY <1>1, <2>1, OwnEvent DEF WorkOk, Settling, Works
  <2>3. \/ attempts[e][k].status = "prepared" /\ SignRow(e, k, work[w].valid)
        \/ UNCHANGED attempts
    BY <1>10 DEF RecordSigned, SignRow
  <2>4. AttemptsOk' /\ RowsGrow
    <3>1. CASE attempts[e][k].status = "prepared" /\ SignRow(e, k, work[w].valid)
      BY <1>1, <2>2, <3>1, RowSigned
    <3>2. CASE UNCHANGED attempts
      BY <1>1, <3>2, RowsKept DEF StoreOk, AttemptsOk
    <3> QED
      BY <2>3, <3>1, <3>2
  <2>5. StoreOk'
    BY <1>1, <2>1, <2>4 DEF StoreOk
  <2>6. work' \in [Workers -> Works] /\ \A u \in Workers : WorkOk(u)'
    BY <1>1, <1>2, <2>1, <2>4, OneMoves DEF Steps, Settling, Recording
  <2> QED
    BY <1>3, <2>1, <2>4, <2>5, <2>6, StepKeeps
<1>11. CASE Send(w)
  <2>1. /\ work[w].pc = "send" /\ Goto(w, "resolve") /\ sent' \in {sent, sent \cup {OwnTx(w)}}
        /\ UNCHANGED <<height, finalized, landed, record, served, calm, config>> /\ UNCHANGED store
    BY <1>11 DEF Send
  <2>2. /\ work[w].event \in Events /\ work[w].at \in 1..Len(attempts[work[w].event])
        /\ work[w].valid \in Nat
    BY <1>1, <2>1, OwnEvent DEF WorkOk, Settling, Works
  <2>3. OwnTx(w) \in Txs
    BY <1>1, <2>2, Lengths DEF OwnTx, Txs, AttemptRow
  <2>4. ClusterOk' /\ RecordsOk' /\ ChainGrows
    BY <1>1, <2>1, <2>3, SentGrows
  <2>5. StoreOk' /\ RowsGrow /\ UNCHANGED settlement
    BY <1>1, <2>1, StoreKept DEF store
  <2>6. work' \in [Workers -> Works] /\ \A u \in Workers : WorkOk(u)'
    BY <1>1, <2>1, <2>4, <2>5, OneMoves DEF Steps, Settling, Recording
  <2>7. ServedOk'
    BY <1>1, <2>1, ServedKept
  <2>8. LedgerMatchesChain'
    BY <1>1, <2>4, <2>5, LedgerStays DEF IInv
  <2> QED
    BY <2>4, <2>5, <2>6, <2>7, <2>8 DEF IInv, TypeInv, Kept
<1> QED
  BY <1>6, <1>7, <1>8, <1>9, <1>10, <1>11 DEF SettleStep

\* A read failed or did not help: the event stays in flight.
LEMMA UnresolvedKeeps ==
  ASSUME IInv, NEW w \in Workers, Unresolved(w), work[w].pc # "idle", ServedOk'
  PROVE  Kept
<1>1. work[w].event \in Events
  BY OwnEvent DEF IInv
<1>2. "in_flight" \in Statuses
  BY DEF Statuses
<1>3. /\ Set(work[w].event, "in_flight") /\ Rest(w)
      /\ UNCHANGED <<cluster, calm, attempts, settlement, config>>
  BY DEF Unresolved
<1> QED
  BY <1>1, <1>2, <1>3, SetAndRest

LEMMA NoAttemptLandedKeeps ==
  ASSUME IInv, NEW w \in Workers, NoAttemptLanded(w), ServedOk',
         UNCHANGED <<cluster, calm, settlement, config>>
  PROVE  Kept
<1> DEFINE e == work[w].event
<1>1. TypeInv /\ StoreOk /\ ChainGrows
  BY ChainKept DEF IInv, TypeInv
<1>2. CASE Set(e, "pending") /\ Rest(w) /\ UNCHANGED attempts
  <2>1. work[w].pc # "idle"
    BY DEF NoAttemptLanded
  <2>2. "pending" \in Statuses /\ e \in Events
    BY <1>1, <2>1, OwnEvent DEF Statuses
  <2> QED
    BY <1>2, <2>2, SetAndRest
<1>3. CASE /\ work[w].pc \in {"record", "record2"} /\ Goto(w, "conclude") /\ UNCHANGED status
           /\ attempts' = [attempts EXCEPT ![e] = [k \in 1..Len(@) |->
                IF @[k].status = "signed" THEN [@[k] EXCEPT !.status = "expired"] ELSE @[k]]]
  <2>1. e \in Events
    BY <1>1, <1>3, OwnEvent
  <2>2. AttemptsOk' /\ RowsGrow
    BY <1>1, <1>3, <2>1, RowsExpired
  <2>3. StoreOk'
    BY <1>1, <1>3, <2>2 DEF StoreOk
  <2>4. work' \in [Workers -> Works] /\ \A u \in Workers : WorkOk(u)'
    BY <1>1, <1>3, <2>2, OneMoves DEF Steps, Settling, Recording, Scanning
  <2> QED
    BY <2>2, <2>3, <2>4, StepKeeps
<1> QED
  BY <1>2, <1>3 DEF NoAttemptLanded

LEMMA ResolveKeeps ==
  ASSUME IInv, NEW w \in Workers, ResolveStep(w)
  PROVE  Kept
<1>1. TypeInv /\ StoreOk /\ ServedOk /\ ClusterOk /\ RecordsOk /\ work \in [Workers -> Works]
      /\ work[w] \in Works /\ WorkOk(w)
  BY DEF IInv, TypeInv
<1>2. UNCHANGED <<cluster, calm, config>> => ChainGrows
  BY <1>1, ChainKept
<1>3. UNCHANGED <<served, cluster>> => ServedOk'
  BY <1>1, ServedKept DEF cluster
<1>4. \A p \in Providers : \A v : Answers(p, v) /\ UNCHANGED cluster =>
        ServedOk' /\ v \in Nat /\ 1 <= v /\ v <= height
  BY <1>1, AnswersServed DEF cluster
<1>5. "failed" \in AttemptStatuses
  BY DEF AttemptStatuses
<1>6. ASSUME NEW e \in Events, Resolve(w, e)
      PROVE  Kept
  <2>1. UNCHANGED <<cluster, served, calm, attempts, settlement, config>>
    BY <1>6 DEF Resolve
  <2>2. ServedOk' /\ ChainGrows
    BY <1>2, <1>3, <2>1
  <2>3. CASE Rest(w) /\ UNCHANGED status
    <3>1. StoreOk' /\ RowsGrow
      BY <1>1, <2>1, <2>3, StoreKept DEF store
    <3>2. work' \in [Workers -> Works] /\ \A u \in Workers : WorkOk(u)'
      BY <1>1, <2>1, <2>2, <2>3, <3>1, OneRests
    <3> QED
      BY <2>1, <2>2, <3>1, <3>2, StepKeeps
  <2>4. CASE Set(e, "needs_attention") /\ Rest(w)
    BY <2>1, <2>2, <2>4, SetAndRest DEF Statuses, Decided
  <2>5. CASE /\ work' = [work EXCEPT ![w] = [Idle EXCEPT !.pc = "scan", !.event = e,
                            !.count = Len(attempts[e]), !.rows = attempts[e], !.at = 1]]
             /\ UNCHANGED status
    <3>1. StoreOk' /\ RowsGrow
      BY <1>1, <2>1, <2>5, StoreKept DEF store
    <3>2. PICK new : new = [Idle EXCEPT !.pc = "scan", !.event = e,
                            !.count = Len(attempts[e]), !.rows = attempts[e], !.at = 1]
      OBVIOUS
    <3>3. /\ attempts[e] \in Seq(AttemptRow) /\ Len(attempts[e]) \in Nat
          /\ \A k \in 1..Len(attempts[e]) : RowOk(attempts[e][k])
      BY <1>1, Lengths
    <3>4. /\ new \in Works /\ new.pc = "scan" /\ new.event = e /\ new.at = 1
          /\ new.rows = attempts[e]
      <4>1. "scan" \in Steps
        BY DEF Steps, Scanning
      <4> QED
        BY <3>2, <3>3, <4>1, IdleIsWork DEF Works
    <3>5. work' = [work EXCEPT ![w] = new]
      BY <2>5, <3>2
    <3>6. /\ work' \in [Workers -> Works] /\ work'[w] = new
          /\ \A u \in Workers : u # w => work'[u] = work[u]
      BY <1>1, <3>4, <3>5, WorkSet
    <3>7. RowsOk(w)'
      BY <2>1, <3>3, <3>4, <3>6 DEF RowsOk
    <3>8. WorkOk(w)'
      BY <3>4, <3>6, <3>7 DEF WorkOk, Settling, Recording
    <3>9. \A u \in Workers : WorkOk(u)'
      BY <1>1, <2>1, <2>2, <3>1, <3>6, <3>8, OthersStay
    <3> QED
      BY <2>1, <2>2, <3>1, <3>6, <3>9, StepKeeps
  <2> QED
    BY <1>6, <2>3, <2>4, <2>5 DEF Resolve
<1>7. CASE SkipRow(w)
  <2> DEFINE e == work[w].event
             k == work[w].at
  <2>1. /\ work[w].pc = "scan" /\ k <= Len(work[w].rows) /\ NextRow(w, FALSE)
        /\ UNCHANGED <<cluster, served, calm, status, settlement, config>>
        /\ SetAttempt(e, k, "failed") \/ UNCHANGED attempts
    BY <1>7 DEF SkipRow
  <2>2. e \in Events /\ k \in 1..Len(attempts[e])
    <3>1. e \in Events /\ RowsOk(w) /\ k > 0
      BY <1>1, <2>1 DEF WorkOk
    <3> QED
      BY <1>1, <2>1, <3>1, RowLengths, Lengths DEF RowsOk
  <2>3. AttemptsOk' /\ RowsGrow
    <3>1. CASE SetAttempt(e, k, "failed")
      BY <1>1, <1>5, <2>2, <3>1, AttemptSet
    <3>2. CASE UNCHANGED attempts
      BY <1>1, <3>2, RowsKept DEF StoreOk, AttemptsOk
    <3> QED
      BY <2>1, <3>1, <3>2
  <2>4. StoreOk'
    BY <1>1, <2>1, <2>3 DEF StoreOk
  <2>5. work' \in [Workers -> Works] /\ \A u \in Workers : WorkOk(u)'
    BY <1>1, <1>2, <2>1, <2>3, NextRowScans
  <2> QED
    BY <1>3, <2>1, <2>3, <2>4, <2>5, StepKeeps
<1>8. CASE ReadStatus(w)
  <2> DEFINE e == work[w].event
             k == work[w].at
  <2>1. /\ work[w].pc = "scan" /\ k <= Len(work[w].rows) /\ Row(w).status = "signed"
        /\ UNCHANGED <<cluster, calm, status, settlement, config>>
    BY <1>8 DEF ReadStatus
  <2>2. PICK v \in Views("primary") :
          /\ Answers("primary", v)
          /\ \/ NextRow(w, FALSE) /\ UNCHANGED attempts
             \/ NextRow(w, FALSE) /\ SetAttempt(e, k, "failed")
             \/ NextRow(w, TRUE) /\ UNCHANGED attempts
             \/ Goto(w, "height") /\ UNCHANGED attempts
    BY <1>8 DEF ReadStatus
  <2>3. ServedOk'
    BY <1>4, <2>1, <2>2, PrimaryIsProvider
  <2>4. e \in Events /\ k \in 1..Len(attempts[e])
    <3>1. e \in Events /\ RowsOk(w) /\ k > 0
      BY <1>1, <2>1 DEF WorkOk
    <3> QED
      BY <1>1, <2>1, <3>1, RowLengths, Lengths DEF RowsOk
  <2>5. AttemptsOk' /\ RowsGrow
    <3>1. CASE SetAttempt(e, k, "failed")
      BY <1>1, <1>5, <2>4, <3>1, AttemptSet
    <3>2. CASE UNCHANGED attempts
      BY <1>1, <3>2, RowsKept DEF StoreOk, AttemptsOk
    <3> QED
      BY <2>2, <3>1, <3>2
  <2>6. StoreOk'
    BY <1>1, <2>1, <2>5 DEF StoreOk
  <2>7. work' \in [Workers -> Works] /\ \A u \in Workers : WorkOk(u)'
    <3>1. CASE \E b \in BOOLEAN : NextRow(w, b)
      BY <1>1, <1>2, <2>1, <2>5, <3>1, NextRowScans
    <3>2. CASE Goto(w, "height")
      <4>1. "height" \in Steps
        BY DEF Steps, Scanning
      <4>2. /\ work' \in [Workers -> Works] /\ (\A u \in Workers : u # w => work'[u] = work[u])
            /\ work'[w].pc = "height" /\ work'[w].event = work[w].event /\ work'[w].rows = work[w].rows
            /\ work'[w].at = work[w].at
        BY <1>1, <3>2, <4>1, GotoWork
      <4>3. work'[w].event \in Events /\ RowsOk(w)'
        BY <1>1, <1>2, <2>1, <2>5, <4>2, Holds
      <4>4. k > 0
        BY <1>1, <2>1 DEF WorkOk
      <4>5. WorkOk(w)'
        BY <2>1, <4>2, <4>3, <4>4 DEF WorkOk, Settling, Recording, Row
      <4> QED
        BY <1>1, <1>2, <2>1, <2>5, <4>2, <4>5, OthersStay
    <3> QED
      BY <2>2, <3>1, <3>2
  <2> QED
    BY <2>1, <2>3, <2>5, <2>6, <2>7, StepKeeps
<1>9. CASE ReadHeight(w)
  <2>1. /\ work[w].pc = "height"
        /\ UNCHANGED <<height, finalized, landed, record, calm, config>> /\ UNCHANGED store
    BY <1>9 DEF ReadHeight
  <2>2. PICK v \in IF work[w].tip = 0 THEN Views("primary") ELSE {work[w].tip} :
       /\ IF work[w].tip = 0 THEN Answers("primary", v) ELSE UNCHANGED served
       /\ work' = [work EXCEPT ![w].pc = "scan", ![w].at = @ + 1, ![w].tip = v,
                               ![w].waiting = @ \/ StillValid(v, Row(w).valid)]
       /\ sent' \in {sent, sent \cup {Tx(work[w].event, Row(w))}}
    BY <1>9 DEF ReadHeight
  <2>3. ServedOk' /\ v \in Nat
    <3>1. CASE work[w].tip = 0
      BY <1>1, <2>1, <2>2, <3>1, AnswersServed, PrimaryIsProvider
    <3>2. CASE work[w].tip # 0
      BY <1>1, <2>1, <2>2, <3>2, ServedKept, RowLengths
    <3> QED
      BY <3>1, <3>2
  <2>4. Tx(work[w].event, Row(w)) \in Txs
    <3>1. work[w].event \in Events /\ work[w].at \in 1..Len(work[w].rows)
      BY <1>1, <2>1, RowLengths DEF WorkOk
    <3>2. Row(w) \in AttemptRow
      BY <1>1, <3>1, RowLengths DEF Row
    <3> QED
      BY <3>1, <3>2 DEF Tx, Txs, AttemptRow
  <2>5. ClusterOk' /\ RecordsOk' /\ ChainGrows
    BY <1>1, <2>1, <2>2, <2>4, SentGrows
  <2>6. StoreOk' /\ RowsGrow /\ UNCHANGED settlement
    BY <1>1, <2>1, StoreKept DEF store
  <2>7. PICK b \in BOOLEAN : b = (work[w].waiting \/ StillValid(v, Row(w).valid))
    OBVIOUS
  <2>8. [work[w] EXCEPT !.pc = "scan", !.at = @ + 1, !.tip = v,
                        !.waiting = @ \/ StillValid(v, Row(w).valid)]
        = [work[w] EXCEPT !.pc = "scan", !.at = @ + 1, !.tip = v, !.waiting = b]
    BY <1>1, <2>7 DEF Works
  <2>9. work' = [work EXCEPT ![w].pc = "scan", ![w].at = @ + 1, ![w].tip = v, ![w].waiting = b]
    BY <2>2, <2>8
  <2>10. work' \in [Workers -> Works] /\ \A u \in Workers : WorkOk(u)'
    BY <1>1, <2>1, <2>3, <2>5, <2>6, <2>9, OneScans
  <2>11. LedgerMatchesChain'
    BY <1>1, <2>5, <2>6, LedgerStays DEF IInv
  <2> QED
    BY <2>3, <2>5, <2>6, <2>10, <2>11 DEF IInv, TypeInv, Kept
<1>10. CASE EndScan(w)
  <2>1. /\ work[w].pc = "scan" /\ UNCHANGED <<cluster, served, calm, config>> /\ UNCHANGED store
        /\ Rest(w) \/ Goto(w, "record")
    BY <1>10 DEF EndScan
  <2>2. StoreOk' /\ RowsGrow /\ UNCHANGED settlement
    BY <1>1, <2>1, StoreKept DEF store
  <2>3. work' \in [Workers -> Works] /\ \A u \in Workers : WorkOk(u)'
    <3>1. CASE Rest(w)
      BY <1>1, <1>2, <2>1, <2>2, <3>1, OneRests
    <3>2. CASE Goto(w, "record")
      BY <1>1, <1>2, <2>1, <2>2, <3>2, OneMoves DEF Steps, Settling, Recording, Scanning
    <3> QED
      BY <2>1, <3>1, <3>2
  <2> QED
    BY <1>3, <2>1, <2>2, <2>3, StepKeeps
<1>11. CASE RecordFound(w)
  <2> DEFINE e == work[w].event
  <2>1. /\ work[w].pc \in {"refused", "record"} /\ UNCHANGED <<cluster, calm, config>> /\ UNCHANGED store
        /\ \E v \in Views("primary") : Answers("primary", v)
    BY <1>11 DEF RecordFound
  <2>2. ServedOk'
    BY <1>4, <2>1, PrimaryIsProvider
  <2>3. StoreOk' /\ RowsGrow /\ UNCHANGED settlement
    BY <1>1, <2>1, StoreKept DEF store
  <2>4. CASE Goto(w, "resolve")
    <3>1. work' \in [Workers -> Works] /\ \A u \in Workers : WorkOk(u)'
      BY <1>1, <1>2, <2>1, <2>3, <2>4, OneMoves DEF Steps, Settling, Recording
    <3> QED
      BY <2>1, <2>2, <2>3, <3>1, StepKeeps
  <2>5. CASE work' = [work EXCEPT ![w].pc = "find", ![w].rows = attempts[e]]
    <3>1. e \in Events
      BY <1>1, <2>1, OwnEvent
    <3>2. /\ attempts[e] \in Seq(AttemptRow) /\ Len(attempts[e]) \in Nat
          /\ \A k \in 1..Len(attempts[e]) : RowOk(attempts[e][k])
      BY <1>1, <3>1, Lengths
    <3>3. PICK new : new = [work[w] EXCEPT !.pc = "find", !.rows = attempts[e]]
      OBVIOUS
    <3>4. /\ new \in Works /\ new.pc = "find" /\ new.event = e
          /\ new.rows = attempts[e]
      <4>1. "find" \in Steps /\ work[w] \in Works
        BY <1>1 DEF Steps, Recording
      <4> QED
        BY <3>2, <3>3, <4>1 DEF Works
    <3>5. work' = [work EXCEPT ![w] = new]
      BY <2>5, <3>3
    <3>6. /\ work' \in [Workers -> Works] /\ work'[w] = new
          /\ \A u \in Workers : u # w => work'[u] = work[u]
      BY <1>1, <3>4, <3>5, WorkSet
    <3>7. RowsOk(w)'
      BY <2>1, <3>2, <3>4, <3>6 DEF RowsOk, store
    <3>8. WorkOk(w)'
      BY <3>1, <3>4, <3>6, <3>7 DEF WorkOk, Settling, Recording
    <3>9. \A u \in Workers : WorkOk(u)'
      BY <1>1, <1>2, <2>1, <2>3, <3>6, <3>8, OthersStay
    <3> QED
      BY <2>1, <2>2, <2>3, <3>6, <3>9, StepKeeps
  <2> QED
    BY <1>11, <2>4, <2>5 DEF RecordFound
<1>12. CASE RecordMissing(w)
  <2>1. /\ work[w].pc \in {"refused", "record"} /\ UNCHANGED <<cluster, calm, settlement, config>>
        /\ \E v \in Views("primary") : Answers("primary", v)
    BY <1>12 DEF RecordMissing
  <2>2. ServedOk'
    BY <1>4, <2>1, PrimaryIsProvider
  <2>3. CASE NoAttemptLanded(w)
    BY <2>1, <2>2, <2>3, NoAttemptLandedKeeps
  <2>4. CASE /\ Goto(w, IF work[w].pc = "refused" THEN "refused2" ELSE "record2")
             /\ UNCHANGED <<status, attempts>>
    <3>1. PICK pc : pc = IF work[w].pc = "refused" THEN "refused2" ELSE "record2"
      OBVIOUS
    <3>2. Goto(w, pc) /\ UNCHANGED store
      BY <2>1, <2>4, <3>1 DEF store
    <3> QED
      BY <2>1, <2>2, <3>1, <3>2, ReadAndGo DEF Steps, Settling, Recording, Scanning
  <2> QED
    BY <1>12, <2>3, <2>4 DEF RecordMissing
<1>13. CASE RecordMissingOnSecond(w)
  <2>1. /\ work[w].pc \in {"refused2", "record2"} /\ UNCHANGED <<cluster, calm, settlement, config>>
        /\ NoAttemptLanded(w)
    BY <1>13 DEF RecordMissingOnSecond
  <2>2. PICK v \in Views("second") : Answers("second", v)
    BY <1>13 DEF RecordMissingOnSecond
  <2>3. ServedOk'
    BY <1>1, <2>1, <2>2, AnyAnswerServed DEF cluster
  <2> QED
    BY <2>1, <2>3, NoAttemptLandedKeeps
<1>14. CASE Conclude(w)
  <2>1. /\ work[w].pc = "conclude" /\ Rest(w)
        /\ UNCHANGED <<cluster, served, calm, attempts, settlement, config>>
    BY <1>14 DEF Conclude
  <2>2. PICK s \in Statuses : Set(work[w].event, s)
    <3>1. PICK s \in Statuses : s = IF OutOfAttempts(w) THEN "needs_attention" ELSE "pending"
      BY DEF Statuses, Decided
    <3> QED
      BY <1>14, <3>1 DEF Conclude
  <2>3. work[w].event \in Events
    BY <1>1, <2>1, OwnEvent
  <2> QED
    BY <1>3, <2>1, <2>2, <2>3, SetAndRest
<1>15. CASE ReadFails(w)
  <2>1. Unresolved(w) /\ UNCHANGED <<cluster, served>> /\ work[w].pc # "idle"
    BY <1>15 DEF ReadFails, Unresolved
  <2> QED
    BY <1>3, <2>1, UnresolvedKeeps
<1>16. CASE SecondDisagrees(w)
  <2>1. Unresolved(w) /\ UNCHANGED cluster /\ work[w].pc # "idle"
    BY <1>16 DEF SecondDisagrees, Unresolved
  <2>2. PICK v \in Views("second") : Answers("second", v)
    BY <1>16 DEF SecondDisagrees
  <2>3. ServedOk'
    BY <1>1, <2>1, <2>2, AnyAnswerServed DEF cluster
  <2> QED
    BY <2>1, <2>3, UnresolvedKeeps
<1> QED
  BY <1>6, <1>7, <1>8, <1>9, <1>10, <1>11, <1>12, <1>13, <1>14, <1>15, <1>16 DEF ResolveStep

\* What the evidence shows exists.
LEMMA CreatorExists ==
  ASSUME IInv, NEW w \in Workers, NEW p, CreatorSeen(p, w), UNCHANGED cluster
  PROVE  ServedOk' /\ Creation(w) # NoRecord /\ Creation(w).height <= finalized
<1>1. ServedOk /\ ClusterOk
  BY DEF IInv, TypeInv
<1>2. PICK v \in Views(p) : Answers(p, v) /\ ShowsFinal(v, config.namespace, work[w].event)
  BY DEF CreatorSeen
<1>3. ServedOk'
  BY <1>1, <1>2, AnyAnswerServed DEF cluster
<1> QED
  BY <1>2, <1>3 DEF ShowsFinal, Shows, Creation

\* The stored requests asked for rates of the configurations.
LEMMA RequestsAreRates ==
  ASSUME TypeInv, NEW w \in Workers
  PROVE  Requests(w) \subseteq Rates
<1>1. config \in Configs /\ \A k \in 1..Len(work[w].rows) : work[w].rows[k] \in AttemptRow
  BY RowLengths DEF TypeInv, ClusterOk
<1> QED
  BY <1>1 DEF Requests, Rates, AttemptRow

LEMMA RecordPaidKeeps ==
  ASSUME IInv, NEW w \in Workers, RecordPaid(w)
  PROVE  Kept
<1> DEFINE e == work[w].event
           rows == work[w].rows
           own == {k \in 1..Len(rows) : Tx(e, rows[k]) \in Creation(w).by}
<1>1. /\ work[w].pc = "rows" /\ CreatorSeen("primary", w)
      /\ settlement' = [settlement EXCEPT ![e] = IF @ = <<>> THEN <<Creation(w)>> ELSE @]
      /\ Set(e, "paid") /\ Rest(w) /\ UNCHANGED <<cluster, calm, config>>
  BY DEF RecordPaid
<1>2. UNCHANGED attempts \/ \E k \in own : SetAttempt(e, k, "landed")
  BY DEF RecordPaid
<1>3. TypeInv /\ e \in Events /\ WorkOk(w) /\ StoreOk /\ ClusterOk /\ RecordsOk /\ config \in Configs
  BY <1>1, OwnEvent DEF IInv, TypeInv, ClusterOk
<1>4. config.namespace \in Namespaces
  BY <1>3 DEF Namespaces
<1>5. ServedOk' /\ Creation(w) # NoRecord /\ Creation(w).height <= finalized
  BY <1>1, CreatorExists
<1>6. Creation(w).content \in Rates
  BY <1>1, <1>3 DEF WorkOk
<1>7. Creation(w) \in Settlements /\ \A tx \in Creation(w).by : tx.valid > 0
  BY <1>3, <1>4, <1>5 DEF RecordsOk, Creation
<1>8. AttemptsOk' /\ RowsGrow
  <2>1. CASE UNCHANGED attempts
    BY <1>3, <2>1, RowsKept DEF StoreOk, AttemptsOk
  <2>2. ASSUME NEW k \in own, SetAttempt(e, k, "landed")
        PROVE  AttemptsOk' /\ RowsGrow
    <3>1. k \in 1..Len(rows) /\ Tx(e, rows[k]).valid > 0
      BY <1>7
    <3>2. k \in 1..Len(attempts[e])
      BY <1>1, <1>3, <3>1, RowLengths, Lengths DEF WorkOk, RowsOk, TypeInv
    <3>3. rows[k].valid # 0
      BY <3>1 DEF Tx
    <3>4. attempts[e][k].valid # 0
      BY <1>1, <1>3, <3>1, <3>3 DEF WorkOk, RowsOk
    <3>5. "landed" \in AttemptStatuses /\ "landed" # "prepared"
      BY DEF AttemptStatuses
    <3> QED
      BY <1>3, <2>2, <3>2, <3>4, <3>5, AttemptSet
  <2> QED
    BY <1>2, <2>1, <2>2
<1>9. settlement' \in [Events -> Seq(Settlements)]
  <2>1. <<Creation(w)>> \in Seq(Settlements)
    BY <1>7
  <2> QED
    BY <1>1, <1>3, <2>1 DEF StoreOk
<1>10. StoreOk'
  BY <1>1, <1>3, <1>8, <1>9 DEF StoreOk, Set, Statuses, Decided
<1>11. ClusterOk' /\ RecordsOk' /\ ChainGrows
  BY <1>1, <1>3, ChainKept
<1>12. work' \in [Workers -> Works] /\ \A u \in Workers : WorkOk(u)'
  BY <1>1, <1>3, <1>8, <1>11, OneRests
<1>13. LedgerMatchesChain'
  <2> SUFFICES ASSUME NEW f \in Events, settlement'[f] # <<>>
               PROVE  \E n \in Namespaces : /\ settlement'[f] = <<record[n][f]>>
                                            /\ record[n][f].content \in Rates
                                            /\ record[n][f].height <= finalized
    BY <1>1 DEF LedgerMatchesChain, cluster
  <2>1. CASE settlement'[f] = settlement[f]
    BY <2>1 DEF IInv, LedgerMatchesChain
  <2>2. CASE settlement'[f] # settlement[f]
    <3>1. f = e /\ settlement'[f] = <<Creation(w)>>
      BY <1>1, <1>3, <2>2 DEF StoreOk
    <3> QED
      BY <1>4, <1>5, <1>6, <3>1 DEF Creation
  <2> QED
    BY <2>1, <2>2
<1> QED
  BY <1>5, <1>8, <1>10, <1>11, <1>12, <1>13 DEF IInv, TypeInv, Kept

LEMMA RecordKeeps ==
  ASSUME IInv, NEW w \in Workers, RecordStep(w)
  PROVE  Kept
<1>1. TypeInv /\ ServedOk /\ ClusterOk
  BY DEF IInv, TypeInv
<1>2. "incident" \in Statuses
  BY DEF Statuses, Decided
<1>3. CASE FindCreator(w)
  <2>1. /\ work[w].pc = "find" /\ CreatorSeen("primary", w) /\ Creation(w).content # "inner"
        /\ Goto(w, "reconcile") /\ UNCHANGED <<cluster, calm, store, config>>
    BY <1>3 DEF FindCreator
  <2> QED
    BY <2>1, CreatorExists, ReadAndGo DEF Steps, Recording, Settling
<1>4. CASE CreatorUnclear(w)
  <2>1. work[w].pc = "find" /\ Unresolved(w) /\ UNCHANGED cluster
    BY <1>4 DEF CreatorUnclear, Unresolved
  <2>2. \E v : Answers("primary", v)
    BY <1>4 DEF CreatorUnclear, CreatorSeen
  <2> QED
    BY <1>1, <2>1, <2>2, AnyAnswerServed, UnresolvedKeeps DEF cluster
<1>5. CASE Matches(w)
  <2>1. /\ work[w].pc = "reconcile" /\ CreatorSeen("primary", w) /\ Creation(w).content \in Requests(w)
        /\ UNCHANGED <<cluster, calm, store, config>>
    BY <1>5 DEF Matches
  <2>2. PICK pc \in {"confirm", "rows"} : Goto(w, pc)
    BY <1>5 DEF Matches
  <2>3. Creation(w).content \in Rates
    BY <1>1, <2>1, RequestsAreRates
  <2> QED
    BY <2>1, <2>2, <2>3, CreatorExists, ReadAndGo DEF Steps, Recording, Settling
<1>6. CASE ConfirmMatch(w)
  <2>1. /\ work[w].pc = "confirm" /\ CreatorSeen("second", w) /\ Goto(w, "rows")
        /\ UNCHANGED <<cluster, calm, store, config>>
    BY <1>6 DEF ConfirmMatch
  <2>2. Creation(w).content \in Rates
    BY <1>1, <2>1 DEF TypeInv, WorkOk
  <2> QED
    BY <2>1, <2>2, CreatorExists, ReadAndGo DEF Steps, Recording, Settling
<1>7. CASE RecordPaid(w)
  BY <1>7, RecordPaidKeeps
<1>8. CASE Mismatches(w)
  <2>1. /\ work[w].pc = "reconcile" /\ CreatorSeen("primary", w)
        /\ UNCHANGED <<cluster, calm, attempts, settlement, config>>
    BY <1>8 DEF Mismatches
  <2>2. CASE Goto(w, "compare") /\ UNCHANGED status
    <3>1. Creation(w).content # "inner"
      BY <1>1, <2>1 DEF TypeInv, WorkOk
    <3> QED
      BY <2>1, <2>2, <3>1, CreatorExists, ReadAndGo DEF Steps, Recording, Settling, store
  <2>3. CASE Set(work[w].event, "incident") /\ Rest(w)
    BY <1>1, <1>2, <2>1, <2>3, CreatorExists, OwnEvent, SetAndRest
  <2> QED
    BY <1>8, <2>2, <2>3 DEF Mismatches
<1>9. CASE ConfirmIncident(w)
  <2>1. /\ work[w].pc = "compare" /\ CreatorSeen("second", w)
        /\ UNCHANGED <<cluster, calm, attempts, settlement, config>>
        /\ Set(work[w].event, "incident") /\ Rest(w)
    BY <1>9 DEF ConfirmIncident
  <2> QED
    BY <1>1, <1>2, <2>1, CreatorExists, OwnEvent, SetAndRest
<1>10. CASE EvidenceMissing(w)
  <2>1. Unresolved(w) /\ UNCHANGED cluster
    BY <1>10 DEF EvidenceMissing, Unresolved
  <2>2. work[w].pc # "idle" /\ \E p \in Providers : \E v : Answers(p, v)
    BY <1>10 DEF EvidenceMissing
  <2> QED
    BY <1>1, <2>1, <2>2, AnyAnswerServed, UnresolvedKeeps DEF cluster
<1> QED
  BY <1>3, <1>4, <1>5, <1>6, <1>7, <1>8, <1>9, <1>10 DEF RecordStep

-----------------------------------------------------------------------------
(* The cluster, the operator, and the whole                                *)

\* A block is confirmed, and no provider went back.
LEMMA ServedGrows ==
  ASSUME ServedOk, ClusterOk, UNCHANGED served, height' = height + 1
  PROVE  ServedOk'
  BY DEF ServedOk, ClusterOk

\* A step of the chain keeps the invariant if the chain is well formed and grows.
LEMMA ChainStepKeeps ==
  ASSUME IInv, ClusterOk', RecordsOk', ServedOk', ChainGrows, UNCHANGED <<store, work, config>>
  PROVE  Kept
<1>1. TypeInv /\ StoreOk' /\ RowsGrow /\ UNCHANGED settlement
  BY StoreKept DEF IInv, TypeInv, store
<1>2. work' \in [Workers -> Works] /\ \A u \in Workers : WorkOk(u)'
  BY <1>1, AllStay
<1>3. LedgerMatchesChain'
  BY <1>1, LedgerStays DEF IInv, TypeInv
<1> QED
  BY <1>1, <1>2, <1>3 DEF IInv, TypeInv, Kept

\* The next block makes a record.
LEMMA RecordMade ==
  ASSUME RecordsOk, ClusterOk, height' = height + 1, NEW n \in Namespaces, NEW e \in Events,
         record[n][e] = NoRecord, NEW r \in Settlements, r.height = height + 1,
         \A tx \in r.by : tx.valid > 0, record' = [record EXCEPT ![n][e] = r]
  PROVE  /\ RecordsOk'
         /\ record'[n][e] = r
         /\ \A m \in Namespaces, f \in Events : <<m, f>> # <<n, e>> => record'[m][f] = record[m][f]
<1>1. /\ record' \in [Namespaces -> [Events -> {NoRecord} \cup Settlements]]
      /\ \A m \in Namespaces, f \in Events :
           record'[m][f] = IF m = n /\ f = e THEN r ELSE record[m][f]
  BY DEF RecordsOk
<1>2. \A m \in Namespaces, f \in Events : record'[m][f] # NoRecord =>
        /\ record'[m][f] \in Settlements
        /\ 1 <= record'[m][f].height /\ record'[m][f].height <= height'
        /\ \A tx \in record'[m][f].by : tx.valid > 0
  <2> TAKE m \in Namespaces, f \in Events
  <2>1. CASE m = n /\ f = e
    BY <1>1, <2>1 DEF ClusterOk
  <2>2. CASE ~(m = n /\ f = e)
    <3>1. record'[m][f] = record[m][f]
      BY <1>1, <2>2
    <3>2. record[m][f] \in Settlements => record[m][f].height \in Nat
      BY DEF Settlements
    <3> QED
      BY <3>1, <3>2 DEF RecordsOk, ClusterOk
  <2> QED
    BY <2>1, <2>2
<1>3. RecordsOk'
  BY <1>1, <1>2 DEF RecordsOk
<1> QED
  BY <1>1, <1>3

LEMMA RecordsStay ==
  ASSUME RecordsOk, ClusterOk, height' = height + 1, UNCHANGED record
  PROVE  RecordsOk'
<1>1. \A n \in Namespaces, e \in Events : record[n][e] # NoRecord => record[n][e].height \in Nat
  BY DEF RecordsOk, Settlements
<1> QED
  BY <1>1 DEF RecordsOk, ClusterOk

LEMMA ClusterKeeps ==
  ASSUME IInv, ClusterStep
  PROVE  Kept
<1>1. TypeInv /\ ClusterOk /\ RecordsOk /\ ServedOk /\ height \in Nat /\ finalized \in Nat
  BY DEF IInv, TypeInv, ClusterOk
<1>2. ASSUME NEW tx \in sent, Land(tx)
      PROVE  Kept
  <2> DEFINE n == tx.config.namespace
             New(ok) == [tx |-> tx, height |-> height + 1, ok |-> ok]
  <2>1. /\ CanLand(tx) /\ height' = height + 1
        /\ UNCHANGED <<finalized, sent, served, calm, work, config>> /\ UNCHANGED store
    BY <1>2 DEF Land
  <2>2. \E ok \in BOOLEAN : landed' = landed \cup {New(ok)}
    BY <1>2 DEF Land
  <2>3. \/ /\ record[n][tx.event] = NoRecord
           /\ record' = [record EXCEPT ![n][tx.event] =
                           [content |-> tx.config.rate, height |-> height + 1, by |-> {tx}]]
        \/ UNCHANGED record
    BY <1>2 DEF Land
  <2>4. tx \in Txs /\ tx.config \in Configs /\ tx.event \in Events /\ tx.valid \in Nat
        /\ height < tx.valid
    BY <1>1, <2>1 DEF ClusterOk, Txs, CanLand
  <2>5. \A ok \in BOOLEAN : New(ok) \in [tx : Txs, height : Nat, ok : BOOLEAN]
    BY <1>1, <2>4
  <2>6. ClusterOk'
    <3>1. landed' \subseteq [tx : Txs, height : Nat, ok : BOOLEAN]
      BY <1>1, <2>2, <2>5 DEF ClusterOk
    <3>2. \A l \in landed : l.tx \in sent /\ 1 <= l.height /\ l.height <= height /\ l.height <= l.tx.valid
          /\ l.height \in Nat
      BY <1>1 DEF ClusterOk
    <3>3. \A l \in landed' : l.tx \in sent' /\ 1 <= l.height /\ l.height <= height' /\ l.height <= l.tx.valid
      <4> TAKE l \in landed'
      <4>1. CASE l \in landed
        BY <1>1, <2>1, <3>2, <4>1
      <4>2. ASSUME NEW ok \in BOOLEAN, l = New(ok) PROVE l.tx \in sent' /\ 1 <= l.height /\ l.height <= height' /\ l.height <= l.tx.valid
        BY <1>1, <2>1, <2>4, <4>2
      <4> QED
        BY <2>2, <4>1, <4>2
    <3> QED
      BY <1>1, <2>1, <3>1, <3>3 DEF ClusterOk
  <2>7. RecordsOk' /\ \A m \in Namespaces, f \in Events :
          record[m][f] # NoRecord => record'[m][f] = record[m][f]
    <3>1. CASE UNCHANGED record
      BY <1>1, <2>1, <3>1, RecordsStay
    <3>2. CASE /\ record[n][tx.event] = NoRecord
               /\ record' = [record EXCEPT ![n][tx.event] =
                               [content |-> tx.config.rate, height |-> height + 1, by |-> {tx}]]
      <4>1. n \in Namespaces /\ tx.config.rate \in Contents
        BY <2>4 DEF Namespaces, Contents, Rates
      <4>2. PICK r : r = [content |-> tx.config.rate, height |-> height + 1, by |-> {tx}]
        OBVIOUS
      <4>3. r \in Settlements /\ r.height = height + 1 /\ \A t \in r.by : t.valid > 0
        BY <1>1, <2>4, <4>1, <4>2 DEF Settlements
      <4>4. record' = [record EXCEPT ![n][tx.event] = r]
        BY <3>2, <4>2
      <4>5. RecordsOk' /\ \A m \in Namespaces, f \in Events :
              <<m, f>> # <<n, tx.event>> => record'[m][f] = record[m][f]
        BY <1>1, <2>1, <2>4, <3>2, <4>1, <4>3, <4>4, RecordMade, ZenonT(60)
      <4> QED
        BY <3>2, <4>5
    <3> QED
      BY <2>3, <3>1, <3>2
  <2>8. ChainGrows
    BY <1>1, <2>1, <2>2, <2>7 DEF ChainGrows
  <2>9. ServedOk'
    BY <1>1, <2>1, ServedGrows
  <2> QED
    BY <2>1, <2>6, <2>7, <2>8, <2>9, ChainStepKeeps
<1>3. ASSUME NEW e \in Events, NEW f \in Foreign, ForeignSettle(f.namespace, e, f.content)
      PROVE  Kept
  <2> DEFINE n == f.namespace
  <2>1. f.namespace \in Namespaces /\ f.content \in Contents
    BY WorkerAssumption
  <2>2. PICK r : r = [content |-> f.content, height |-> height + 1, by |-> {}]
    OBVIOUS
  <2>3. r \in Settlements /\ r.height = height + 1 /\ \A t \in r.by : t.valid > 0
    BY <1>1, <2>1, <2>2 DEF Settlements
  <2>4. /\ record[f.namespace][e] = NoRecord /\ height' = height + 1
        /\ record' = [record EXCEPT ![f.namespace][e] = r]
        /\ UNCHANGED <<finalized, sent, landed, served, calm, work, config>> /\ UNCHANGED store
    BY <1>3, <2>2 DEF ForeignSettle
  <2>5. RecordsOk' /\ \A m \in Namespaces, g \in Events :
          <<m, g>> # <<n, e>> => record'[m][g] = record[m][g]
    <3>1. n \in Namespaces /\ record[n][e] = NoRecord /\ record' = [record EXCEPT ![n][e] = r]
      BY <2>1, <2>4
    <3> HIDE DEF n
    <3> QED
      BY <1>1, <2>3, <2>4, <3>1, RecordMade, ZenonT(60)
  <2>6. ClusterOk'
    BY <1>1, <2>4 DEF ClusterOk
  <2>7. ChainGrows
    BY <1>1, <2>4, <2>5 DEF ChainGrows
  <2>8. ServedOk'
    BY <1>1, <2>4, ServedGrows
  <2> QED
    BY <2>4, <2>5, <2>6, <2>7, <2>8, ChainStepKeeps
<1>4. CASE Tick
  <2>1. /\ height' = height + 1
        /\ UNCHANGED <<finalized, sent, landed, record, served, calm, work, config>> /\ UNCHANGED store
    BY <1>4 DEF Tick
  <2>2. ClusterOk' /\ ChainGrows
    BY <1>1, <2>1 DEF ClusterOk, ChainGrows
  <2>3. RecordsOk' /\ ServedOk'
    BY <1>1, <2>1, RecordsStay, ServedGrows
  <2> QED
    BY <2>1, <2>2, <2>3, ChainStepKeeps
<1>5. CASE Finalize
  <2>1. /\ finalized < height /\ finalized' = finalized + 1
        /\ UNCHANGED <<height, sent, landed, record, served, calm, work, config>> /\ UNCHANGED store
    BY <1>5 DEF Finalize
  <2>2. ClusterOk' /\ ChainGrows
    BY <1>1, <2>1 DEF ClusterOk, ChainGrows
  <2>3. RecordsOk' /\ ServedOk'
    BY <1>1, <2>1, ServedKept DEF RecordsOk
  <2> QED
    BY <2>1, <2>2, <2>3, ChainStepKeeps
<1> QED
  BY <1>2, <1>3, <1>4, <1>5 DEF ClusterStep

LEMMA OperatorKeeps ==
  ASSUME IInv, OperatorStep
  PROVE  Kept
<1>1. TypeInv /\ StoreOk /\ ServedOk /\ ClusterOk /\ RecordsOk /\ work \in [Workers -> Works]
  BY DEF IInv, TypeInv
<1>2. UNCHANGED <<cluster, calm, config>> => ChainGrows
  BY <1>1, ChainKept
<1>3. UNCHANGED <<served, cluster>> => ServedOk'
  BY <1>1, ServedKept DEF cluster
<1>4. ASSUME NEW e \in Events, Enqueue(e)
      PROVE  Kept
  <2>1. /\ Set(e, "pending")
        /\ UNCHANGED <<cluster, served, calm, attempts, settlement, work, config>>
    BY <1>4 DEF Enqueue
  <2>2. StoreOk' /\ RowsGrow
    BY <1>1, <2>1, StatusSet DEF Statuses
  <2>3. work' \in [Workers -> Works] /\ \A u \in Workers : WorkOk(u)'
    BY <1>1, <1>2, <2>1, <2>2, AllStay
  <2> QED
    BY <1>3, <2>1, <2>2, <2>3, StepKeeps
<1>5. ASSUME NEW w \in Workers, Crash(w)
      PROVE  Kept
  <2>1. Rest(w) /\ UNCHANGED <<cluster, served, calm, config>> /\ UNCHANGED store
    BY <1>5 DEF Crash
  <2>2. StoreOk' /\ RowsGrow /\ UNCHANGED settlement
    BY <1>1, <2>1, StoreKept DEF store
  <2>3. work' \in [Workers -> Works] /\ \A u \in Workers : WorkOk(u)'
    BY <1>1, <1>2, <2>1, <2>2, OneRests
  <2> QED
    BY <1>3, <2>1, <2>2, <2>3, StepKeeps
<1>6. ASSUME NEW w \in Workers, NEW e \in Events, Recheck(w, e)
      PROVE  Kept
  <2>1. /\ work[w].pc = "idle" /\ Set(e, "in_flight")
        /\ UNCHANGED <<cluster, served, calm, attempts, settlement, config>>
    BY <1>6 DEF Recheck
  <2>2. StoreOk' /\ RowsGrow
    BY <1>1, <2>1, StatusSet DEF Statuses
  <2>3. PICK new : new = [work[w] EXCEPT !.pc = "resolve", !.event = e]
    OBVIOUS
  <2>4. work[w] = Idle /\ work[w] \in Works
    BY <1>1, <2>1 DEF TypeInv, WorkOk
  <2>5. new \in Works /\ new.pc = "resolve" /\ new.event = e /\ new.rows = <<>>
    <3>1. work[w].rows = <<>> /\ "resolve" \in Steps
      BY <2>4 DEF Idle, Steps
    <3> QED
      BY <2>3, <2>4, <3>1 DEF Works
  <2>6. work' = [work EXCEPT ![w] = new]
    BY <1>6, <2>3 DEF Recheck
  <2>7. /\ work' \in [Workers -> Works] /\ work'[w] = new
        /\ \A u \in Workers : u # w => work'[u] = work[u]
    BY <1>1, <2>5, <2>6, WorkSet
  <2>8. WorkOk(w)'
    <3>1. RowsOk(w)'
      BY <1>1, <2>2, <2>5, <2>7, Lengths DEF RowsOk, RowsGrow
    <3> QED
      BY <2>5, <2>7, <3>1 DEF WorkOk, Settling, Recording
  <2>9. \A u \in Workers : WorkOk(u)'
    BY <1>1, <1>2, <2>1, <2>2, <2>7, <2>8, OthersStay
  <2> QED
    BY <1>3, <2>1, <2>2, <2>7, <2>9, StepKeeps
<1>7. ASSUME NEW c \in Configs, Reconfigure(c)
      PROVE  Kept
  <2>1. /\ config' = c /\ UNCHANGED <<cluster, served, calm, work>> /\ UNCHANGED store
        /\ \A w \in Workers : work[w].pc = "idle"
    BY <1>7 DEF Reconfigure
  <2>2. UNCHANGED <<height, finalized, sent, landed, record>>
    BY <2>1 DEF cluster
  <2>3. ClusterOk' /\ ChainGrows
    BY <1>1, <2>1, <2>2 DEF ClusterOk, ChainGrows
  <2>4. RecordsOk' /\ ServedOk'
    BY <1>1, <2>1, <2>2, ServedKept DEF RecordsOk
  <2>5. StoreOk' /\ RowsGrow /\ UNCHANGED settlement
    BY <1>1, <2>1, StoreKept DEF store
  <2>6. \A u \in Workers : WorkOk(u)'
    BY <1>1, <2>1, <2>3, <2>5, WorkStays
  <2>7. LedgerMatchesChain'
    BY <1>1, <2>3, <2>5, LedgerStays DEF IInv
  <2> QED
    BY <1>1, <2>1, <2>3, <2>4, <2>5, <2>6, <2>7 DEF IInv, TypeInv, Kept
<1> QED
  BY <1>4, <1>5, <1>6, <1>7 DEF OperatorStep

\* The faults stop: the providers are current from now on.
LEMMA CalmKeeps ==
  ASSUME IInv, CalmDown
  PROVE  Kept
<1>1. UNCHANGED <<height, finalized, sent, landed, record, served, work, config>> /\ calm' = TRUE
      /\ UNCHANGED store
  BY DEF CalmDown, cluster
<1>2. TypeInv /\ ClusterOk /\ RecordsOk /\ ServedOk
  BY DEF IInv, TypeInv
<1>3. ClusterOk' /\ ChainGrows
  BY <1>1, <1>2 DEF ClusterOk, ChainGrows
<1>4. RecordsOk' /\ ServedOk'
  BY <1>1, <1>2, ServedKept DEF RecordsOk
<1> QED
  BY <1>1, <1>3, <1>4, ChainStepKeeps

LEMMA StutterKeeps ==
  ASSUME IInv, UNCHANGED vars
  PROVE  Kept
<1>1. UNCHANGED <<height, finalized, sent, landed, record, served, calm, work, config>>
      /\ UNCHANGED store /\ UNCHANGED cluster
  BY DEF vars, cluster
<1>2. TypeInv /\ ClusterOk /\ RecordsOk /\ ServedOk
  BY DEF IInv, TypeInv
<1>3. ClusterOk' /\ RecordsOk' /\ ChainGrows
  BY <1>1, <1>2, ChainKept
<1>4. ServedOk'
  BY <1>1, <1>2, ServedKept
<1> QED
  BY <1>1, <1>3, <1>4, ChainStepKeeps

LEMMA InitInv == Init => IInv
<1> SUFFICES ASSUME Init PROVE IInv
  OBVIOUS
<1>1. ClusterOk
  <2>1. height = 1 /\ finalized = 1 /\ sent = {} /\ landed = {} /\ calm = FALSE /\ config \in Configs
    BY DEF Init
  <2>2. sent \subseteq Txs /\ landed \subseteq [tx : Txs, height : Nat, ok : BOOLEAN]
    BY <2>1
  <2>3. \A l \in landed : l.tx \in sent /\ 1 <= l.height /\ l.height <= height /\ l.height <= l.tx.valid
    BY <2>1
  <2>4. height \in Nat /\ finalized \in Nat /\ 1 <= finalized /\ finalized <= height
    BY <2>1
  <2>5. calm \in BOOLEAN
    BY <2>1
  <2> QED
    BY <2>1, <2>2, <2>3, <2>4, <2>5 DEF ClusterOk
<1>2. RecordsOk
  BY DEF Init, RecordsOk
<1>3. ServedOk
  <2>1. PICK d \in Disciplines : served = [p \in Providers |-> [lag |-> d[p], height |-> 1]]
    BY DEF Init
  <2>2. d \in [Providers -> {"current", "monotone", "erratic"}] /\ height = 1
    BY WorkerAssumption DEF Init
  <2>3. \A p \in Providers : served[p] = [lag |-> d[p], height |-> 1]
    BY <2>1
  <2>4. served \in [Providers -> [lag : {"current", "monotone", "erratic"}, height : Nat]]
    BY <2>1, <2>2
  <2> QED
    BY <2>2, <2>3, <2>4 DEF ServedOk
<1>4. StoreOk
  <2>1. <<>> \in Seq(AttemptRow) /\ <<>> \in Seq(Settlements) /\ Len(<<>>) = 0
    OBVIOUS
  <2> QED
    BY <2>1 DEF Init, StoreOk, AttemptsOk, Statuses, Decided
<1>5. work \in [Workers -> Works] /\ \A w \in Workers : WorkOk(w)
  BY IdleIsWork DEF Init, WorkOk, Idle, Settling, Recording
<1>6. LedgerMatchesChain
  BY DEF Init, LedgerMatchesChain
<1> QED
  BY <1>1, <1>2, <1>3, <1>4, <1>5, <1>6 DEF IInv, TypeInv

LEMMA NextKeeps == IInv /\ [Next \/ CalmDown]_vars => Kept
<1> SUFFICES ASSUME IInv, [Next \/ CalmDown]_vars PROVE Kept
  OBVIOUS
<1>1. ASSUME NEW w \in Workers, WorkerStep(w) PROVE Kept
  BY <1>1, SettleKeeps, ResolveKeeps, RecordKeeps DEF WorkerStep
<1> QED
  BY <1>1, ClusterKeeps, OperatorKeeps, CalmKeeps, StutterKeeps DEF Next

LEMMA Invariance == Spec => []IInv
<1>1. IInv /\ [Next]_vars => IInv'
  BY NextKeeps DEF Kept
<1> QED
  BY InitInv, <1>1, PTL DEF Spec

\* worker.ts, store.ts:329-333: however many workers run on one database, and whatever the
\* providers answer, what the ledger was written from is the event's finalized
\* settlement for ever, and one that pays what some configuration asked for.
THEOREM LedgerFollowsTheChain == Spec => []LedgerMatchesChain
<1>1. IInv => LedgerMatchesChain
  BY DEF IInv
<1> QED
  BY Invariance, <1>1, PTL

\* The same where the faults stop one day, as the runs with fairness have it.
THEOREM LedgerFollowsTheCalmChain == FairSpec => []LedgerMatchesChain
<1>1. IInv => LedgerMatchesChain
  BY DEF IInv
<1>2. IInv /\ [Next \/ CalmDown]_vars => IInv'
  BY NextKeeps DEF Kept
<1> QED
  BY InitInv, <1>1, <1>2, PTL DEF FairSpec

-----------------------------------------------------------------------------
(* One worker                                                              *)

\* One worker on the database.
OneWorker == \A u, v \in Workers : u = v

-----------------------------------------------------------------------------
(* The invariant of a worker alone                                         *)

\* What can land no more, whatever is sent again.
Over(tx) == HasLanded(tx) \/ height >= tx.valid

Signed(e) == {k \in 1..Len(attempts[e]) : attempts[e][k].status = "signed"}

AllOver(e) == \A tx \in sent : tx.event = e => Over(tx)

\* Of an event: what was sent is stored; what may land is the one attempt that is
\* signed; none is while the event waits.
EventOk(e) ==
  /\ Len(attempts[e]) <= MaxAttempts
  /\ \A tx \in sent : tx.event = e =>
       /\ tx.valid > 0
       /\ \E k \in 1..Len(attempts[e]) : Tx(e, attempts[e][k]) = tx
       /\ ~Over(tx) => \E k \in Signed(e) : Tx(e, attempts[e][k]) = tx
  /\ \A j, k \in Signed(e) : j = k
  /\ status[e] \in {"absent", "pending"} => Signed(e) = {}

\* The attempts a scan has looked at are over.
OverUpTo(w, n) ==
  \A k \in 1..n : work[w].rows[k].status = "signed" => Over(Tx(work[w].event, work[w].rows[k]))

SettlingOk(w) ==
  LET e == work[w].event
      pc == work[w].pc
  IN /\ pc = "settle" => status[e] = "pending" /\ work[w].count = Len(attempts[e])
     /\ pc \in {"sign", "abandon", "refused", "refused2"} => Signed(e) = {}
     /\ pc = "sign" => attempts[e][work[w].at].status = "prepared"
     /\ pc = "send" => /\ attempts[e][work[w].at].status = "signed"
                       /\ attempts[e][work[w].at].valid = work[w].valid
                       /\ AllOver(e)

ScanningOk(w) ==
  LET e == work[w].event
      at == work[w].at
      pc == work[w].pc
      rows == work[w].rows
  IN /\ pc \in Scanning =>
          /\ Len(rows) = Len(attempts[e])
          /\ \A k \in 1..Len(attempts[e]) :
               /\ attempts[e][k].config.namespace = config.namespace
               /\ attempts[e][k].status = "signed" => rows[k].status = "signed"
     /\ pc \in {"scan", "height"} =>
          /\ \A k \in 1..Len(attempts[e]) : k >= at => rows[k] = attempts[e][k]
          /\ work[w].tip <= height
          /\ at <= Len(rows) + 1
          /\ ~work[w].waiting => OverUpTo(w, at - 1)
     /\ pc \in {"record", "record2"} => OverUpTo(w, Len(rows))
     /\ pc = "conclude" => Signed(e) = {}

RecordingOk(w) ==
  /\ work[w].pc \in Recording => Len(work[w].rows) = Len(attempts[work[w].event])
  /\ work[w].pc = "compare" => Creation(w).content \notin Requests(w)

\* Of the worker: what it knows at each of its awaits.
AloneOk(w) ==
  /\ work[w].pc \notin {"idle", "settle"} => status[work[w].event] = "in_flight"
  /\ SettlingOk(w) /\ ScanningOk(w) /\ RecordingOk(w)

\* Of the chain: a transaction lands once, one that settles makes the record, which
\* nothing but a landing makes here, and a block makes one.
ChainOk ==
  /\ \A l, m \in landed : l.tx = m.tx => l = m
  /\ \A l \in landed : l.ok =>
       LET r == record[l.tx.config.namespace][l.tx.event]
       IN r # NoRecord /\ r.height = l.height
  /\ \A n \in Namespaces, e \in Events :
       record[n][e] # NoRecord => \A tx \in record[n][e].by : HasLanded(tx)
  /\ \A n, m \in Namespaces, e, f \in Events :
       record[n][e] # NoRecord /\ record[m][f] # NoRecord /\ record[n][e].height = record[m][f].height
         => n = m /\ e = f

BookInv == ChainOk /\ (\A e \in Events : EventOk(e)) /\ (\A w \in Workers : AloneOk(w))

-----------------------------------------------------------------------------
(* What every step keeps                                                   *)

\* What is over stays over.
LEMMA OverStays ==
  ASSUME ClusterOk, ClusterOk', ChainGrows, NEW tx \in Txs, Over(tx)
  PROVE  Over(tx)'
<1>1. height \in Nat /\ height' \in Nat /\ height' >= height /\ tx.valid \in Nat
  BY DEF ClusterOk, ChainGrows, Txs
<1>2. HasLanded(tx) => HasLanded(tx)'
  BY DEF HasLanded, ChainGrows
<1> QED
  BY <1>1, <1>2 DEF Over

LEMMA RowTxs ==
  ASSUME TypeInv, NEW e \in Events, NEW k \in 1..Len(attempts[e])
  PROVE  Tx(e, attempts[e][k]) \in Txs
<1>1. attempts[e][k] \in AttemptRow
  BY Lengths DEF TypeInv
<1> QED
  BY <1>1 DEF Tx, Txs, AttemptRow

\* A signed attempt is, in the store, the transaction it is for the worker.
LEMMA RowsAreRead ==
  ASSUME TypeInv, NEW w \in Workers, work[w].pc # "idle", NEW k \in 1..Len(work[w].rows)
  PROVE  /\ work[w].event \in Events /\ k \in 1..Len(attempts[work[w].event])
         /\ Tx(work[w].event, work[w].rows[k]) \in Txs
         /\ work[w].rows[k].config = attempts[work[w].event][k].config
         /\ work[w].rows[k].status = "signed" =>
               Tx(work[w].event, work[w].rows[k]) = Tx(work[w].event, attempts[work[w].event][k])
<1> DEFINE e == work[w].event
<1>1. WorkOk(w) /\ StoreOk /\ work \in [Workers -> Works]
  BY DEF TypeInv
<1>2. e \in Events /\ RowsOk(w)
  BY <1>1 DEF WorkOk
<1>3. work[w].rows[k] \in AttemptRow
  BY <1>1, RowLengths
<1>4. k \in 1..Len(attempts[e])
  BY <1>1, <1>2, RowLengths, Lengths DEF RowsOk
<1>5. work[w].rows[k].status = "signed" => work[w].rows[k].valid # 0
  BY <1>2 DEF RowsOk, RowOk
<1>6. /\ work[w].rows[k].config = attempts[e][k].config
      /\ work[w].rows[k].valid # 0 => attempts[e][k].valid = work[w].rows[k].valid
  BY <1>2 DEF RowsOk
<1> QED
  BY <1>2, <1>3, <1>4, <1>5, <1>6 DEF Tx, Txs, AttemptRow

\* An event whose attempts and transactions a step adds to, in order.
LEMMA EventMoves ==
  ASSUME TypeInv, TypeInv', RowsGrow, ChainGrows, NEW e \in Events, EventOk(e),
         Len(attempts'[e]) <= MaxAttempts,
         \A tx \in sent' : tx.event = e /\ tx \notin sent =>
           tx.valid > 0 /\ \E k \in Signed(e)' : Tx(e, attempts'[e][k]) = tx,
         \A tx \in sent : tx.event = e /\ ~Over(tx)' =>
           \E k \in Signed(e)' : Tx(e, attempts'[e][k]) = tx,
         \A j, k \in Signed(e)' : j = k,
         status'[e] \in {"absent", "pending"} => Signed(e)' = {}
  PROVE  EventOk(e)'
<1>1. Len(attempts[e]) \in Nat /\ Len(attempts'[e]) \in Nat
  BY Lengths DEF TypeInv, StoreOk, AttemptsOk
<1>2. ASSUME NEW tx \in sent', tx.event = e
      PROVE  /\ tx.valid > 0
             /\ \E k \in 1..Len(attempts'[e]) : Tx(e, attempts'[e][k]) = tx
             /\ ~Over(tx)' => \E k \in Signed(e)' : Tx(e, attempts'[e][k]) = tx
  <2>1. CASE tx \notin sent
    BY <1>2, <2>1 DEF Signed
  <2>2. CASE tx \in sent
    <3>1. PICK k \in 1..Len(attempts[e]) : Tx(e, attempts[e][k]) = tx
      BY <1>2, <2>2 DEF EventOk
    <3>2. tx.valid > 0
      BY <1>2, <2>2 DEF EventOk
    <3>3. attempts[e][k].valid # 0
      BY <3>1, <3>2 DEF Tx
    <3>4. Tx(e, attempts'[e][k]) = tx /\ k \in 1..Len(attempts'[e])
      BY <1>1, <3>1, <3>3 DEF RowsGrow, Tx
    <3> QED
      BY <1>2, <2>2, <3>2, <3>4
  <2> QED
    BY <2>1, <2>2
<1> QED
  BY <1>2 DEF EventOk

\* An event whose attempts a step leaves alone.
LEMMA EventStays ==
  ASSUME TypeInv, TypeInv', RowsGrow, ChainGrows, NEW e \in Events, EventOk(e),
         attempts'[e] = attempts[e],
         \A tx \in sent' : tx.event = e /\ tx \notin sent =>
           \E k \in Signed(e) : Tx(e, attempts[e][k]) = tx,
         \/ status'[e] = status[e]
         \/ status'[e] \notin {"absent", "pending"}
         \/ Signed(e) = {}
  PROVE  EventOk(e)'
<1>1. Signed(e)' = Signed(e)
  BY DEF Signed
<1>2. ASSUME NEW tx \in sent', tx.event = e, tx \notin sent
      PROVE  tx.valid > 0 /\ \E k \in Signed(e)' : Tx(e, attempts'[e][k]) = tx
  <2>1. PICK k \in Signed(e) : Tx(e, attempts[e][k]) = tx
    BY <1>2
  <2>2. attempts[e][k] \in AttemptRow /\ RowOk(attempts[e][k])
    BY Lengths DEF TypeInv, Signed
  <2>3. tx.valid > 0
    BY <2>1, <2>2 DEF Tx, RowOk, AttemptRow, Signed
  <2> QED
    BY <1>1, <2>1, <2>3
<1>3. ASSUME NEW tx \in sent, tx.event = e, ~Over(tx)'
      PROVE  \E k \in Signed(e)' : Tx(e, attempts'[e][k]) = tx
  <2>1. tx \in Txs
    BY DEF TypeInv, ClusterOk
  <2>2. ~Over(tx)
    BY <1>3, <2>1, OverStays DEF TypeInv
  <2> QED
    BY <1>1, <1>3, <2>2 DEF EventOk
<1>4. Len(attempts'[e]) <= MaxAttempts /\ (\A j, k \in Signed(e)' : j = k)
      /\ (status'[e] \in {"absent", "pending"} => Signed(e)' = {})
  BY <1>1 DEF EventOk
<1> QED
  BY <1>2, <1>3, <1>4, EventMoves

\* A worker that rests knows nothing.
LEMMA IdleAlone ==
  ASSUME NEW w \in Workers, work[w].pc = "idle"
  PROVE  AloneOk(w)
  BY DEF AloneOk, SettlingOk, ScanningOk, RecordingOk, Scanning, Recording

\* What a scan has found over stays so.
LEMMA OverUpToStays ==
  ASSUME TypeInv, TypeInv', ChainGrows, NEW w \in Workers, work[w].pc # "idle",
         work'[w].event = work[w].event, work'[w].rows = work[w].rows,
         NEW n \in Nat, n <= Len(work[w].rows), OverUpTo(w, n)
  PROVE  OverUpTo(w, n)'
<1> PICK e : e = work[w].event
  OBVIOUS
<1> SUFFICES ASSUME NEW k \in 1..n, work[w].rows[k].status = "signed"
             PROVE  Over(Tx(e, work[w].rows[k]))'
  BY DEF OverUpTo, Tx
<1>1. k \in 1..Len(work[w].rows)
  BY RowLengths DEF TypeInv
<1>2. Tx(e, work[w].rows[k]) \in Txs /\ Over(Tx(e, work[w].rows[k]))
  BY <1>1, RowsAreRead DEF OverUpTo
<1>3. PICK tx \in Txs : tx = Tx(e, work[w].rows[k])
  BY <1>2
<1>4. Over(tx)'
  BY <1>2, <1>3, OverStays DEF TypeInv
<1> QED
  BY <1>3, <1>4 DEF Tx

\* A worker whose event a step leaves alone knows what it knew.
LEMMA AloneStays ==
  ASSUME TypeInv, TypeInv', ChainGrows, NEW w \in Workers, AloneOk(w), work[w].pc # "idle",
         work'[w] = work[w], config' = config,
         attempts'[work[w].event] = attempts[work[w].event],
         status'[work[w].event] = status[work[w].event],
         \A tx \in sent' : tx.event = work[w].event => tx \in sent
  PROVE  AloneOk(w)'
<1> DEFINE e == work[w].event
<1>1. e \in Events /\ WorkOk(w) /\ config \in Configs
  BY DEF TypeInv, WorkOk, ClusterOk
<1>2. Signed(e)' = Signed(e)
  BY DEF Signed
<1>3. AllOver(e) => AllOver(e)'
  <2> SUFFICES ASSUME AllOver(e), NEW tx \in sent', tx.event = e PROVE Over(tx)'
    BY DEF AllOver
  <2>1. tx \in sent /\ tx \in Txs /\ Over(tx)
    BY DEF AllOver, TypeInv, ClusterOk
  <2> QED
    BY <2>1, OverStays DEF TypeInv
<1>4. SettlingOk(w)'
  BY <1>2, <1>3 DEF AloneOk, SettlingOk
<1>5. ASSUME NEW n \in Nat, n <= Len(work[w].rows), OverUpTo(w, n)
      PROVE  OverUpTo(w, n)'
  BY <1>5, OverUpToStays
<1>6. ScanningOk(w)'
  <2>1. Len(work[w].rows) \in Nat /\ work[w].at \in Nat /\ work[w].tip \in Nat
        /\ height \in Nat /\ height' \in Nat /\ height' >= height
    BY RowLengths DEF TypeInv, ChainGrows, ClusterOk
  <2>2. work[w].pc \in {"scan", "height"} /\ ~work[w].waiting => OverUpTo(w, work[w].at - 1)'
    <3>1. work[w].pc \in {"scan", "height"} => work[w].at > 0 /\ work[w].at <= Len(work[w].rows) + 1
      BY <1>1 DEF AloneOk, ScanningOk, WorkOk
    <3> QED
      BY <1>5, <2>1, <3>1 DEF AloneOk, ScanningOk
  <2>3. work[w].pc \in {"record", "record2"} => OverUpTo(w, Len(work[w].rows))'
    BY <1>5, <2>1 DEF AloneOk, ScanningOk
  <2> QED
    BY <1>2, <2>1, <2>2, <2>3 DEF AloneOk, ScanningOk
<1>7. RecordingOk(w)'
  <2>1. work[w].pc = "compare" => Creation(w)' = Creation(w)
    BY <1>1 DEF WorkOk, Recording, ChainGrows, Creation, Namespaces
  <2> QED
    BY <2>1 DEF AloneOk, RecordingOk, Requests
<1> QED
  BY <1>4, <1>6, <1>7 DEF AloneOk

\* What a step of the one worker, or of the operator, on one event must show.
LEMMA BookStep ==
  ASSUME OneWorker, IInv, BookInv, Kept, UNCHANGED <<landed, record>>, NEW e \in Events,
         \A f \in Events : f # e => attempts'[f] = attempts[f] /\ status'[f] = status[f],
         \A tx \in sent' : tx.event # e => tx \in sent,
         EventOk(e)', \A w \in Workers : AloneOk(w)'
  PROVE  BookInv'
<1>1. TypeInv /\ TypeInv' /\ RowsGrow /\ ChainGrows
  BY DEF IInv, Kept
<1>2. \A f \in Events : EventOk(f)'
  <2> TAKE f \in Events
  <2>1. CASE f = e
    BY <2>1
  <2>2. CASE f # e
    BY <1>1, <2>2, EventStays DEF BookInv
  <2> QED
    BY <2>1, <2>2
<1>3. ChainOk'
  BY DEF BookInv, ChainOk, HasLanded
<1> QED
  BY <1>2, <1>3 DEF BookInv

LEMMA TheWorker ==
  ASSUME OneWorker, NEW w \in Workers, AloneOk(w)'
  PROVE  \A u \in Workers : AloneOk(u)'
<1> TAKE u \in Workers
<1>1. u = w
  BY DEF OneWorker
<1> QED
  BY <1>1

\* Where nothing is signed, all is over.
LEMMA NothingSigned ==
  ASSUME NEW e \in Events, EventOk(e), Signed(e) = {}
  PROVE  AllOver(e)
  BY DEF EventOk, AllOver

\* An event whose attempts are all over when none is signed any more.
LEMMA EventCleared ==
  ASSUME TypeInv, TypeInv', RowsGrow, ChainGrows, NEW e \in Events, EventOk(e), AllOver(e),
         sent' = sent, Len(attempts'[e]) <= MaxAttempts, Signed(e)' = {}
  PROVE  EventOk(e)'
<1>1. \A tx \in sent : tx.event = e => Over(tx)'
  <2> SUFFICES ASSUME NEW tx \in sent, tx.event = e PROVE Over(tx)'
    OBVIOUS
  <2>1. tx \in Txs /\ Over(tx)
    BY DEF AllOver, TypeInv, ClusterOk
  <2> QED
    BY <2>1, OverStays DEF TypeInv
<1> QED
  BY <1>1, EventMoves

\* A worker that passes a verdict, or puts the event back, and rests.
LEMMA RestBook ==
  ASSUME OneWorker, IInv, BookInv, Kept, NEW w \in Workers, Rest(w), work[w].pc # "idle",
         UNCHANGED <<cluster, attempts>>, NEW s, Set(work[w].event, s),
         s \notin {"absent", "pending"} \/ Signed(work[w].event) = {}
  PROVE  BookInv'
<1> PICK e : e = work[w].event
  OBVIOUS
<1>1. TypeInv /\ TypeInv' /\ RowsGrow /\ ChainGrows /\ work \in [Workers -> Works] /\ e \in Events
      /\ status \in [Events -> Statuses]
  BY OwnEvent DEF IInv, Kept, TypeInv, StoreOk
<1>2. status'[e] = s /\ \A f \in Events : f # e => status'[f] = status[f]
  BY <1>1 DEF Set
<1>3. UNCHANGED <<height, finalized, sent, landed, record>>
  BY DEF cluster
<1>4. EventOk(e)'
  BY <1>1, <1>2, <1>3, EventStays DEF BookInv
<1>5. work'[w].pc = "idle"
  BY <1>1, RestWork DEF Idle
<1>6. AloneOk(w)'
  BY <1>5 DEF AloneOk, SettlingOk, ScanningOk, RecordingOk, Scanning, Recording
<1> QED
  BY <1>1, <1>2, <1>3, <1>4, <1>6, TheWorker, BookStep

\* A worker that reads and goes on, or rests.
LEMMA ReadBook ==
  ASSUME OneWorker, IInv, BookInv, Kept, NEW w \in Workers, UNCHANGED <<cluster, status, attempts>>,
         AloneOk(w)'
  PROVE  BookInv'
<1>1. TypeInv /\ TypeInv' /\ RowsGrow /\ ChainGrows
  BY DEF IInv, Kept
<1>2. UNCHANGED <<height, finalized, sent, landed, record>>
  BY DEF cluster
<1>3. CASE Events = {}
  BY <1>2, <1>3, TheWorker DEF BookInv, ChainOk, HasLanded
<1>4. ASSUME NEW e \in Events PROVE BookInv'
  <2>1. EventOk(e)'
    BY <1>1, <1>2, EventStays DEF BookInv
  <2> QED
    BY <1>2, <2>1, TheWorker, BookStep
<1> QED
  BY <1>3, <1>4

-----------------------------------------------------------------------------
(* An attempt                                                              *)

LEMMA SettleBook ==
  ASSUME OneWorker, IInv, BookInv, Kept, NEW w \in Workers, SettleStep(w)
  PROVE  BookInv'
<1> PICK e : e = work[w].event
  OBVIOUS
<1> PICK k : k = work[w].at
  OBVIOUS
<1>1. /\ TypeInv /\ TypeInv' /\ RowsGrow /\ ChainGrows /\ StoreOk /\ work \in [Workers -> Works]
      /\ AloneOk(w) /\ WorkOk(w) /\ status \in [Events -> Statuses]
  BY DEF IInv, Kept, TypeInv, BookInv, StoreOk
<1>2. work[w].pc # "idle" => e \in Events /\ EventOk(e) /\ Len(attempts[e]) \in Nat
  BY <1>1, OwnEvent, Lengths DEF BookInv
<1>3. ASSUME NEW f \in Events, Select(w, f)
      PROVE  BookInv'
  <2>1. UNCHANGED <<cluster, status, attempts>> /\ status[f] = "pending"
    BY <1>3 DEF Select, store
  <2>2. work'[w].pc = "settle" /\ work'[w].event = f /\ work'[w].count = Len(attempts[f])
    BY <1>1, <1>3 DEF Select, Works
  <2>3. AloneOk(w)'
    BY <2>1, <2>2 DEF AloneOk, SettlingOk, ScanningOk, RecordingOk, Scanning, Recording
  <2> QED
    BY <2>1, <2>3, ReadBook
<1>4. CASE GiveUp(w) \/ Abandon(w)
  <2>1. /\ work[w].pc # "idle" /\ Rest(w) /\ Set(e, "needs_attention")
        /\ UNCHANGED <<cluster, attempts>>
    BY <1>4 DEF GiveUp, Abandon
  <2> QED
    BY <2>1, RestBook
<1>5. CASE NoBlockhash(w)
  <2>1. /\ work[w].pc = "settle" /\ Rest(w) /\ Set(e, "pending") /\ UNCHANGED <<cluster, attempts>>
    BY <1>5 DEF NoBlockhash
  <2>2. Signed(e) = {}
    BY <1>1, <1>2, <2>1 DEF AloneOk, SettlingOk, EventOk
  <2> QED
    BY <2>1, <2>2, RestBook
<1>6. CASE BeginAttempt(w)
  <2>1. /\ work[w].pc = "settle" /\ ~OutOfAttempts(w) /\ UNCHANGED cluster
    BY <1>6 DEF BeginAttempt
  <2>2. PICK v \in Views("primary") :
          \/ Rest(w) /\ UNCHANGED <<status, attempts>>
          \/ /\ Set(e, "in_flight")
             /\ attempts' = [attempts EXCEPT ![e] =
                  Append(@, [status |-> "prepared", config |-> config, valid |-> 0])]
             /\ work' = [work EXCEPT ![w].pc = "sign", ![w].valid = v + ValidFor,
                                     ![w].at = Len(attempts[e]) + 1]
    BY <1>6 DEF BeginAttempt
  <2>3. CASE Rest(w) /\ UNCHANGED <<status, attempts>>
    <3>1. work'[w].pc = "idle"
      BY <1>1, <2>3, RestWork DEF Idle
    <3>2. AloneOk(w)'
      BY <3>1 DEF AloneOk, SettlingOk, ScanningOk, RecordingOk, Scanning, Recording
    <3> QED
      BY <2>1, <2>3, <3>2, ReadBook
  <2>4. CASE /\ Set(e, "in_flight")
             /\ attempts' = [attempts EXCEPT ![e] =
                  Append(@, [status |-> "prepared", config |-> config, valid |-> 0])]
             /\ work' = [work EXCEPT ![w].pc = "sign", ![w].valid = v + ValidFor,
                                     ![w].at = Len(attempts[e]) + 1]
    <3>1. status[e] = "pending" /\ work[w].count = Len(attempts[e]) /\ Signed(e) = {} /\ e \in Events
      BY <1>1, <1>2, <2>1 DEF AloneOk, SettlingOk, EventOk
    <3>2. PICK row : row = [status |-> "prepared", config |-> config, valid |-> 0]
      OBVIOUS
    <3>3. AddRow(e, row)
      BY <2>4, <3>2 DEF AddRow
    <3>4. /\ \A f \in Events : f # e => attempts'[f] = attempts[f]
          /\ Len(attempts'[e]) = Len(attempts[e]) + 1
          /\ attempts'[e][Len(attempts[e]) + 1] = row
          /\ \A j \in 1..Len(attempts[e]) : attempts'[e][j] = attempts[e][j]
      <4>1. StoreOk /\ ClusterOk
        BY <1>1 DEF TypeInv
      <4> QED
        BY <4>1, <3>1, <3>2, <3>3, RowAdded
    <3>5. Signed(e)' = {}
      <4> SUFFICES ASSUME NEW j \in 1..Len(attempts'[e]), attempts'[e][j].status = "signed" PROVE FALSE
        BY DEF Signed
      <4>1. j \in 1..Len(attempts[e]) \/ j = Len(attempts[e]) + 1
        BY <1>2, <2>1, <3>4
      <4>2. row.status = "prepared"
        BY <3>2
      <4>3. CASE j \in 1..Len(attempts[e])
        BY <3>1, <3>4, <4>3 DEF Signed
      <4>4. CASE j = Len(attempts[e]) + 1
        BY <3>4, <4>2, <4>4
      <4> QED
        BY <4>1, <4>3, <4>4
    <3>6. Len(attempts'[e]) <= MaxAttempts
      BY <1>2, <2>1, <3>1, <3>4, WorkerAssumption DEF OutOfAttempts
    <3>7. UNCHANGED <<height, finalized, sent, landed, record>>
      BY <2>1 DEF cluster
    <3>8. EventOk(e)'
      BY <1>1, <1>2, <2>1, <3>1, <3>5, <3>6, <3>7, NothingSigned, EventCleared
    <3>9. status'[e] = "in_flight" /\ \A f \in Events : f # e => status'[f] = status[f]
      BY <1>1, <2>4, <3>1 DEF Set
    <3>10. work'[w].pc = "sign" /\ work'[w].event = e /\ work'[w].at = Len(attempts[e]) + 1
      BY <1>1, <2>4 DEF Works
    <3>11. AloneOk(w)'
      BY <3>2, <3>4, <3>5, <3>9, <3>10
         DEF AloneOk, SettlingOk, ScanningOk, RecordingOk, Scanning, Recording
    <3> QED
      BY <3>1, <3>4, <3>7, <3>8, <3>9, <3>11, TheWorker, BookStep
  <2> QED
    BY <2>2, <2>3, <2>4
<1>7. CASE CannotBuild(w) \/ SendRefused(w)
  <2>1. /\ work[w].pc \in {"sign", "send"} /\ UNCHANGED <<cluster, status>>
        /\ SetAttempt(e, k, "failed")
    BY <1>7 DEF CannotBuild, SendRefused
  <2>2. PICK pc \in {"abandon", "refused"} : Goto(w, pc)
    BY <1>7 DEF CannotBuild, SendRefused
  <2>3. e \in Events /\ k \in 1..Len(attempts[e]) /\ EventOk(e)
    BY <1>1, <1>2, <2>1 DEF WorkOk, Settling
  <2>4. /\ \A f \in Events : f # e => attempts'[f] = attempts[f]
        /\ Len(attempts'[e]) = Len(attempts[e]) /\ attempts'[e][k].status = "failed"
        /\ \A j \in 1..Len(attempts[e]) : j # k => attempts'[e][j] = attempts[e][j]
    BY <1>1, <2>1, <2>3, AttemptSet DEF AttemptStatuses
  <2>5. AllOver(e) /\ \A j \in Signed(e) : j = k
    <3>1. CASE work[w].pc = "sign"
      BY <1>1, <2>3, <3>1, NothingSigned DEF AloneOk, SettlingOk
    <3>2. CASE work[w].pc = "send"
      <4>1. k \in Signed(e)
        BY <1>1, <2>3, <3>2 DEF AloneOk, SettlingOk, Signed
      <4> QED
        BY <1>1, <2>3, <3>2, <4>1 DEF AloneOk, SettlingOk, EventOk
    <3> QED
      BY <2>1, <3>1, <3>2
  <2>6. Signed(e)' = {}
    BY <2>4, <2>5 DEF Signed
  <2>7. UNCHANGED <<height, finalized, sent, landed, record>>
    BY <2>1 DEF cluster
  <2>8. EventOk(e)'
    BY <1>1, <2>3, <2>4, <2>5, <2>6, <2>7, EventCleared DEF EventOk
  <2>9. work'[w].pc = pc /\ work'[w].event = e
    BY <1>1, <2>2, GotoWork DEF Steps, Settling
  <2>10. AloneOk(w)'
    BY <1>1, <2>1, <2>6, <2>9 DEF AloneOk, SettlingOk, ScanningOk, RecordingOk, Scanning, Recording
  <2> QED
    BY <2>1, <2>3, <2>4, <2>7, <2>8, <2>10, TheWorker, BookStep
<1>8. CASE RecordSigned(w)
  <2>1. /\ work[w].pc = "sign" /\ UNCHANGED <<cluster, status>> /\ Goto(w, "send")
    BY <1>8 DEF RecordSigned
  <2>2. /\ e \in Events /\ k \in 1..Len(attempts[e]) /\ work[w].valid \in Nat \ {0}
        /\ EventOk(e) /\ Signed(e) = {} /\ attempts[e][k].status = "prepared"
    BY <1>1, <1>2, <2>1 DEF WorkOk, Settling, Works, AloneOk, SettlingOk
  <2>3. SignRow(e, k, work[w].valid)
    BY <1>8, <2>2 DEF RecordSigned, SignRow
  <2>4. /\ \A f \in Events : f # e => attempts'[f] = attempts[f]
        /\ Len(attempts'[e]) = Len(attempts[e])
        /\ attempts'[e][k].status = "signed" /\ attempts'[e][k].valid = work[w].valid
        /\ \A j \in 1..Len(attempts[e]) : j # k => attempts'[e][j] = attempts[e][j]
    BY <1>1, <2>2, <2>3, RowSigned
  <2>5. UNCHANGED <<height, finalized, sent, landed, record>>
    BY <2>1 DEF cluster
  <2>6. Signed(e)' \subseteq {k}
    BY <2>2, <2>4 DEF Signed
  <2>7. \A tx \in sent : tx.event = e => Over(tx)'
    <3> SUFFICES ASSUME NEW tx \in sent, tx.event = e PROVE Over(tx)'
      OBVIOUS
    <3>1. tx \in Txs /\ Over(tx)
      BY <1>1, <2>2, NothingSigned DEF AllOver, TypeInv, ClusterOk
    <3> QED
      BY <1>1, <3>1, OverStays DEF TypeInv
  <2>8. status'[e] = "in_flight"
    BY <1>1, <2>1 DEF AloneOk
  <2>9. EventOk(e)'
    BY <1>1, <2>2, <2>4, <2>5, <2>6, <2>7, <2>8, EventMoves, SMTT(60) DEF EventOk
  <2>10. work'[w].pc = "send" /\ work'[w].event = e /\ work'[w].at = k /\ work'[w].valid = work[w].valid
    BY <1>1, <2>1, GotoWork DEF Steps, Settling
  <2>12. AloneOk(w)'
    BY <2>4, <2>5, <2>7, <2>8, <2>10
       DEF AloneOk, SettlingOk, ScanningOk, RecordingOk, Scanning, Recording, AllOver
  <2> QED
    BY <2>1, <2>2, <2>4, <2>5, <2>9, <2>12, TheWorker, BookStep
<1>9. CASE Send(w)
  <2>1. /\ work[w].pc = "send" /\ Goto(w, "resolve") /\ sent' \in {sent, sent \cup {OwnTx(w)}}
        /\ UNCHANGED <<landed, record, status, attempts>>
    BY <1>9 DEF Send, store
  <2>2. e \in Events /\ k \in Signed(e) /\ OwnTx(w) = Tx(e, attempts[e][k])
    BY <1>1, <2>1 DEF WorkOk, Settling, AloneOk, SettlingOk, Signed, OwnTx, Tx
  <2>3. EventOk(e)'
    BY <1>1, <1>2, <2>1, <2>2, EventStays
  <2>4. work'[w].pc = "resolve" /\ work'[w].event = e
    BY <1>1, <2>1, GotoWork DEF Steps
  <2>5. AloneOk(w)'
    BY <1>1, <2>1, <2>4 DEF AloneOk, SettlingOk, ScanningOk, RecordingOk, Scanning, Recording
  <2>6. OwnTx(w).event = e
    BY DEF OwnTx
  <2> QED
    BY <2>1, <2>2, <2>3, <2>5, <2>6, TheWorker, BookStep
<1> QED
  BY <1>3, <1>4, <1>5, <1>6, <1>7, <1>8, <1>9 DEF SettleStep

-----------------------------------------------------------------------------
(* A scan of the chain                                                     *)

\* A worker that has looked at one more attempt.
ScanTo(w, t, b) ==
  work' = [work EXCEPT ![w].pc = "scan", ![w].at = @ + 1, ![w].tip = t, ![w].waiting = b]

LEMMA ScanGoesOn ==
  ASSUME TypeInv, TypeInv', ChainGrows, NEW w \in Workers, AloneOk(w), config' = config,
         work[w].pc \in {"scan", "height"}, work[w].at <= Len(work[w].rows),
         NEW e, e = work[w].event, NEW k, k = work[w].at, NEW t \in Nat, NEW b \in BOOLEAN,
         ScanTo(w, t, b), status'[e] = status[e], Len(attempts'[e]) = Len(attempts[e]),
         \A j \in 1..Len(attempts[e]) : j # k => attempts'[e][j] = attempts[e][j],
         attempts'[e][k].config = attempts[e][k].config,
         attempts'[e][k].status = "signed" => attempts[e][k].status = "signed",
         t <= height',
         NEW tx, tx = Tx(e, work[w].rows[k]),
         ~b => ~work[w].waiting /\ (work[w].rows[k].status = "signed" => Over(tx)')
  PROVE  AloneOk(w)'
<1>1. /\ work[w] \in Works /\ work \in [Workers -> Works] /\ StoreOk /\ WorkOk(w)
      /\ e \in Events
  BY OwnEvent DEF TypeInv
<1>2. /\ work'[w].pc = "scan" /\ work'[w].event = e /\ work'[w].rows = work[w].rows
      /\ work'[w].at = k + 1 /\ work'[w].tip = t /\ work'[w].waiting = b
  BY <1>1 DEF Works, ScanTo
<1>3. /\ Len(attempts[e]) \in Nat /\ Len(work[w].rows) = Len(attempts[e])
      /\ k \in 1..Len(attempts[e]) /\ k \in Nat
  <2>1. Len(attempts[e]) \in Nat /\ work[w].at \in Nat
    BY <1>1, Lengths, RowLengths
  <2>2. Len(work[w].rows) = Len(attempts[e])
    BY DEF AloneOk, ScanningOk, Scanning
  <2>3. work[w].at > 0
    BY <1>1 DEF WorkOk
  <2> QED
    BY <2>1, <2>2, <2>3
<1>4. \A j \in 1..Len(attempts[e]) :
        /\ attempts'[e][j].config.namespace = config.namespace
        /\ attempts'[e][j].status = "signed" => work[w].rows[j].status = "signed"
  <2> TAKE j \in 1..Len(attempts[e])
  <2>1. /\ attempts[e][j].config.namespace = config.namespace
        /\ attempts[e][j].status = "signed" => work[w].rows[j].status = "signed"
    BY DEF AloneOk, ScanningOk, Scanning
  <2>2. CASE j = k
    BY <2>1, <2>2
  <2>3. CASE j # k
    BY <2>1, <2>3
  <2> QED
    BY <2>2, <2>3
<1>5. \A j \in 1..Len(attempts[e]) : j >= k + 1 => work[w].rows[j] = attempts'[e][j]
  <2> TAKE j \in 1..Len(attempts[e])
  <2>1. j >= k => work[w].rows[j] = attempts[e][j]
    BY DEF AloneOk, ScanningOk
  <2>2. j >= k + 1 => j >= k /\ j # k
    BY <1>3
  <2> QED
    BY <2>1, <2>2
<1>6. ~b => OverUpTo(w, k)'
  <2> SUFFICES ASSUME ~b, NEW j \in 1..k, work[w].rows[j].status = "signed"
               PROVE  Over(Tx(e, work[w].rows[j]))'
    BY <1>2 DEF OverUpTo, Tx
  <2>1. CASE j = k
    <3>1. Over(tx)'
      BY <2>1
    <3> QED
      BY <1>2, <2>1, <3>1 DEF Tx
  <2>2. CASE j # k
    <3>1. k - 1 \in Nat /\ k - 1 <= Len(work[w].rows) /\ j \in 1..(k - 1)
      BY <1>3, <2>2, SMTT(60)
    <3>2. OverUpTo(w, k - 1)
      BY DEF AloneOk, ScanningOk
    <3>3. PICK n \in Nat : n = k - 1
      BY <3>1
    <3>4. OverUpTo(w, n)'
      BY <1>2, <3>1, <3>2, <3>3, OverUpToStays
    <3> QED
      BY <1>2, <3>1, <3>3, <3>4 DEF OverUpTo, Tx
  <2> QED
    BY <2>1, <2>2
<1>7. k + 1 - 1 = k /\ k + 1 <= Len(work[w].rows) + 1
  BY <1>3
<1>8. (~work[w].waiting => OverUpTo(w, work[w].at - 1))'
  <2>1. work'[w].at - 1 = k
    <3>1. k \in Nat /\ work'[w].at = k + 1
      BY <1>2, <1>3
    <3> QED
      BY <3>1
  <2>2. work'[w].waiting \/ OverUpTo(w, k)'
    BY <1>2, <1>6, Zenon
  <2> QED
    BY <2>1, <2>2 DEF OverUpTo
<1>9. ScanningOk(w)'
  <2>1. /\ Len(work'[w].rows) = Len(attempts'[e]) /\ work'[w].event = e /\ work'[w].pc = "scan"
        /\ work'[w].tip <= height' /\ work'[w].at <= Len(work'[w].rows) + 1
    BY <1>2, <1>3, <1>7
  <2>2. \A j \in 1..Len(attempts'[e]) :
          /\ attempts'[e][j].config.namespace = config'.namespace
          /\ attempts'[e][j].status = "signed" => work'[w].rows[j].status = "signed"
    BY <1>2, <1>4
  <2>3. \A j \in 1..Len(attempts'[e]) : j >= work'[w].at => work'[w].rows[j] = attempts'[e][j]
    BY <1>2, <1>5
  <2> QED
    BY <1>8, <2>1, <2>2, <2>3 DEF ScanningOk, OverUpTo
<1>10. status'[e] = "in_flight"
  BY DEF AloneOk
<1> QED
  BY <1>2, <1>9, <1>10 DEF AloneOk, SettlingOk, RecordingOk, Recording

\* When a scan has found all attempts over, no transaction of the event can land.
LEMMA AllRowsOver ==
  ASSUME TypeInv, BookInv, NEW w \in Workers, work[w].pc \in {"record", "record2"}
  PROVE  AllOver(work[w].event)
<1> PICK e : e = work[w].event
  OBVIOUS
<1>1. AloneOk(w) /\ e \in Events /\ EventOk(e)
  BY OwnEvent DEF BookInv
<1>2. Len(work[w].rows) = Len(attempts[e]) /\ OverUpTo(w, Len(work[w].rows))
  BY <1>1 DEF AloneOk, ScanningOk, Scanning
<1> SUFFICES ASSUME NEW tx \in sent, tx.event = e, ~Over(tx) PROVE FALSE
  BY DEF AllOver
<1>3. PICK k \in Signed(e) : Tx(e, attempts[e][k]) = tx
  BY <1>1 DEF EventOk
<1>4. k \in 1..Len(work[w].rows) /\ work[w].rows[k].status = "signed"
  BY <1>1, <1>2, <1>3 DEF Signed, AloneOk, ScanningOk, Scanning
<1>5. Tx(e, work[w].rows[k]) = tx /\ Over(Tx(e, work[w].rows[k]))
  BY <1>2, <1>3, <1>4, RowsAreRead DEF OverUpTo
<1> QED
  BY <1>5

LEMMA NoAttemptLandedBook ==
  ASSUME OneWorker, IInv, BookInv, Kept, NEW w \in Workers, NoAttemptLanded(w),
         UNCHANGED <<cluster, config>>
  PROVE  BookInv'
<1> PICK e : e = work[w].event
  OBVIOUS
<1>1. /\ TypeInv /\ TypeInv' /\ RowsGrow /\ ChainGrows /\ StoreOk /\ work \in [Workers -> Works]
      /\ AloneOk(w)
  BY DEF IInv, Kept, TypeInv, BookInv
<1>2. work[w].pc # "idle"
  BY DEF NoAttemptLanded
<1>3. e \in Events /\ EventOk(e) /\ Len(attempts[e]) \in Nat
  BY <1>1, <1>2, OwnEvent, Lengths DEF BookInv
<1>4. CASE work[w].pc \in {"refused", "refused2"} /\ Set(e, "pending") /\ Rest(w) /\ UNCHANGED attempts
  <2>1. Signed(e) = {}
    BY <1>1, <1>4 DEF AloneOk, SettlingOk
  <2> QED
    BY <1>2, <1>4, <2>1, RestBook
<1>5. CASE /\ work[w].pc \in {"record", "record2"} /\ Goto(w, "conclude") /\ UNCHANGED status
           /\ attempts' = [attempts EXCEPT ![e] = [k \in 1..Len(@) |->
                IF @[k].status = "signed" THEN [@[k] EXCEPT !.status = "expired"] ELSE @[k]]]
  <2>1. AllOver(e)
    BY <1>1, <1>5, AllRowsOver
  <2>2. /\ \A f \in Events : f # e => attempts'[f] = attempts[f]
        /\ Len(attempts'[e]) = Len(attempts[e])
        /\ \A j \in 1..Len(attempts[e]) :
              /\ attempts'[e][j].status # "signed"
              /\ attempts'[e][j].config = attempts[e][j].config
    BY <1>1, <1>3, <1>5, RowsExpired
  <2>3. Signed(e)' = {}
    BY <2>2 DEF Signed
  <2>4. UNCHANGED <<height, finalized, sent, landed, record>>
    BY DEF cluster
  <2>5. EventOk(e)'
    BY <1>1, <1>3, <2>1, <2>2, <2>3, <2>4, EventCleared DEF EventOk
  <2>6. work'[w].pc = "conclude" /\ work'[w].event = e /\ work'[w].rows = work[w].rows
    BY <1>1, <1>5, GotoWork DEF Steps, Scanning
  <2>7. ScanningOk(w)'
    <3>1. /\ Len(work[w].rows) = Len(attempts[e])
          /\ \A k \in 1..Len(attempts[e]) : attempts[e][k].config.namespace = config.namespace
      BY <1>1, <1>5 DEF AloneOk, ScanningOk, Scanning
    <3> QED
      BY <2>2, <2>3, <2>6, <3>1 DEF ScanningOk
  <2>8. AloneOk(w)'
    BY <1>1, <1>5, <2>6, <2>7 DEF AloneOk, SettlingOk, RecordingOk, Recording
  <2> QED
    BY <1>3, <1>5, <2>2, <2>4, <2>5, <2>8, TheWorker, BookStep
<1> QED
  BY <1>4, <1>5 DEF NoAttemptLanded

LEMMA UnresolvedBook ==
  ASSUME OneWorker, IInv, BookInv, Kept, NEW w \in Workers, Unresolved(w), work[w].pc # "idle"
  PROVE  BookInv'
<1>1. Rest(w) /\ Set(work[w].event, "in_flight") /\ UNCHANGED <<cluster, attempts>>
  BY DEF Unresolved
<1> QED
  BY <1>1, RestBook

\* A worker that starts to scan has read the attempts of the event.
LEMMA ResolveBook ==
  ASSUME OneWorker, IInv, BookInv, Kept, NEW w \in Workers, NEW e \in Events, Resolve(w, e)
  PROVE  BookInv'
<1>1. /\ TypeInv /\ TypeInv' /\ RowsGrow /\ ChainGrows /\ StoreOk /\ work \in [Workers -> Works]
      /\ AloneOk(w) /\ EventOk(e) /\ status \in [Events -> Statuses]
  BY DEF IInv, Kept, TypeInv, BookInv, StoreOk
<1>2. /\ UNCHANGED <<cluster, attempts, config>>
      /\ UNCHANGED <<height, finalized, sent, landed, record>>
  BY DEF Resolve, cluster
<1>3. CASE Rest(w)
  <2>1. work'[w].pc = "idle"
    BY <1>1, <1>3, RestWork DEF Idle
  <2>2. AloneOk(w)'
    BY <2>1 DEF AloneOk, SettlingOk, ScanningOk, RecordingOk, Scanning, Recording
  <2>3. UNCHANGED status \/ Set(e, "needs_attention") \/ Idle.pc = "scan"
    BY <1>3 DEF Resolve
  <2>4. \A f \in Events : f # e => attempts'[f] = attempts[f] /\ status'[f] = status[f]
    BY <1>1, <1>2, <2>3 DEF Set, Idle
  <2>5. status'[e] = status[e] \/ status'[e] = "needs_attention"
    BY <1>1, <2>3 DEF Set, Idle
  <2>6. EventOk(e)'
    BY <1>1, <1>2, <2>5, EventStays
  <2> QED
    BY <1>2, <2>2, <2>4, <2>6, TheWorker, BookStep
<1>4. CASE /\ status[e] = "in_flight" /\ ~Elsewhere(e) /\ UNCHANGED status
           /\ work' = [work EXCEPT ![w] = [Idle EXCEPT !.pc = "scan", !.event = e,
                      !.count = Len(attempts[e]), !.rows = attempts[e], !.at = 1]]
  <2>1. /\ work'[w].pc = "scan" /\ work'[w].event = e /\ work'[w].rows = attempts[e]
        /\ work'[w].at = 1 /\ work'[w].tip = 0
    BY <1>1, <1>4 DEF Idle
  <2>2. Len(attempts[e]) \in Nat /\ height \in Nat
    BY <1>1, Lengths DEF TypeInv, ClusterOk
  <2>3. \A k \in 1..Len(attempts[e]) : attempts[e][k].config.namespace = config.namespace
    BY <1>4 DEF Elsewhere
  <2>4. \A n : n = work'[w].at - 1 => 1..n = {}
    BY <2>1
  <2>5. ScanningOk(w)'
    BY <1>2, <2>1, <2>2, <2>3, <2>4 DEF ScanningOk, OverUpTo
  <2>6. AloneOk(w)'
    BY <1>4, <2>1, <2>5 DEF AloneOk, SettlingOk, RecordingOk, Recording
  <2> QED
    BY <1>2, <1>4, <2>6, ReadBook
<1> QED
  BY <1>3, <1>4 DEF Resolve

LEMMA ScanBook ==
  ASSUME OneWorker, IInv, BookInv, Kept, NEW w \in Workers,
         SkipRow(w) \/ ReadStatus(w) \/ ReadHeight(w) \/ EndScan(w)
  PROVE  BookInv'
<1> PICK e : e = work[w].event
  OBVIOUS
<1> PICK k : k = work[w].at
  OBVIOUS
<1>1. /\ TypeInv /\ TypeInv' /\ RowsGrow /\ ChainGrows /\ StoreOk /\ work \in [Workers -> Works]
      /\ AloneOk(w) /\ WorkOk(w) /\ work[w] \in Works /\ ServedOk /\ ClusterOk
  BY DEF IInv, Kept, TypeInv, BookInv
<1>2. work[w].pc \in {"scan", "height"}
  BY DEF SkipRow, ReadStatus, ReadHeight, EndScan
<1>3. /\ e \in Events /\ EventOk(e) /\ Len(attempts[e]) \in Nat /\ k \in Nat /\ k > 0
      /\ Len(work[w].rows) = Len(attempts[e]) /\ status[e] = "in_flight"
      /\ work[w].tip \in Nat /\ work[w].tip <= height /\ height \in Nat /\ height' \in Nat
      /\ height' >= height /\ work[w].waiting \in BOOLEAN
  BY <1>1, <1>2, OwnEvent, Lengths, RowLengths
     DEF BookInv, WorkOk, AloneOk, ScanningOk, Scanning, TypeInv, ClusterOk, ChainGrows
<1>4. k <= Len(work[w].rows) =>
        k \in 1..Len(attempts[e]) /\ work[w].rows[k] = attempts[e][k] /\ Row(w) = attempts[e][k]
  <2>1. k <= Len(work[w].rows) => k \in 1..Len(attempts[e])
    BY <1>3
  <2>2. k \in 1..Len(attempts[e]) => work[w].rows[k] = attempts[e][k]
    BY <1>1, <1>2, <1>3 DEF AloneOk, ScanningOk
  <2> QED
    BY <2>1, <2>2 DEF Row
<1>5. ASSUME NEW b \in BOOLEAN, NextRow(w, b)
      PROVE  \E c \in BOOLEAN : (~c => ~work[w].waiting /\ ~b) /\ ScanTo(w, work[w].tip, c)
  <2>1. PICK c \in BOOLEAN : c = (work[w].waiting \/ b)
    OBVIOUS
  <2>2. ~c => ~work[w].waiting /\ ~b
    BY <2>1
  <2>3. [work[w] EXCEPT !.pc = "scan", !.at = @ + 1, !.waiting = @ \/ b]
        = [work[w] EXCEPT !.pc = "scan", !.at = @ + 1, !.tip = work[w].tip, !.waiting = c]
    BY <1>1, <2>1 DEF Works
  <2>4. ScanTo(w, work[w].tip, c)
    BY <1>5, <2>3 DEF NextRow, ScanTo
  <2> QED
    BY <2>2, <2>4
<1>6. CASE SkipRow(w)
  <2>1. /\ work[w].pc = "scan" /\ k <= Len(work[w].rows) /\ NextRow(w, FALSE)
        /\ Row(w).status # "signed" /\ UNCHANGED <<cluster, status, config>>
        /\ SetAttempt(e, k, "failed") \/ UNCHANGED attempts
    BY <1>6 DEF SkipRow
  <2>2. k \in 1..Len(attempts[e]) /\ attempts[e][k].status # "signed" /\ work[w].rows[k] = attempts[e][k]
    BY <1>4, <2>1
  <2>3. /\ \A f \in Events : f # e => attempts'[f] = attempts[f]
        /\ Len(attempts'[e]) = Len(attempts[e]) /\ attempts'[e][k].status # "signed"
        /\ attempts'[e][k].config = attempts[e][k].config
        /\ \A j \in 1..Len(attempts[e]) : j # k => attempts'[e][j] = attempts[e][j]
    <3>1. CASE UNCHANGED attempts
      BY <2>2, <3>1
    <3>2. CASE SetAttempt(e, k, "failed")
      BY <1>1, <1>3, <2>2, <3>2, AttemptSet DEF AttemptStatuses
    <3> QED
      BY <2>1, <3>1, <3>2
  <2>4. UNCHANGED <<height, finalized, sent, landed, record>>
    BY <2>1 DEF cluster
  <2>5. Signed(e)' = Signed(e) /\ \A j \in Signed(e) : attempts'[e][j] = attempts[e][j]
    <3>1. \A j \in 1..Len(attempts[e]) : attempts'[e][j].status = "signed" <=> attempts[e][j].status = "signed"
      BY <2>2, <2>3
    <3>2. k \notin Signed(e) /\ Signed(e) \subseteq 1..Len(attempts[e])
      BY <2>2 DEF Signed
    <3>3. Signed(e)' = Signed(e)
      BY <2>3, <3>1 DEF Signed
    <3> QED
      BY <2>3, <3>2, <3>3
  <2>6. EventOk(e)'
    <3>1. \A tx \in sent : tx.event = e /\ ~Over(tx)' =>
            \E j \in Signed(e)' : Tx(e, attempts'[e][j]) = tx
      <4> SUFFICES ASSUME NEW tx \in sent, tx.event = e, ~Over(tx)'
                   PROVE  \E j \in Signed(e)' : Tx(e, attempts'[e][j]) = tx
        OBVIOUS
      <4>1. ~Over(tx)
        BY <2>4 DEF Over, HasLanded
      <4> QED
        BY <1>3, <2>5, <4>1 DEF EventOk
    <3> QED
      BY <1>1, <1>3, <2>1, <2>3, <2>4, <2>5, <3>1, EventMoves, SMTT(60) DEF EventOk
  <2>7. PICK c \in BOOLEAN : (~c => ~work[w].waiting) /\ ScanTo(w, work[w].tip, c)
    BY <1>5, <2>1
  <2>8. PICK tx : tx = Tx(e, work[w].rows[k])
    OBVIOUS
  <2>9. work[w].rows[k].status # "signed" /\ work[w].tip <= height' /\ config' = config /\ UNCHANGED status
    BY <1>3, <2>1, <2>2, <2>4
  <2>10. AloneOk(w)'
    BY <1>1, <1>2, <1>3, <2>1, <2>3, <2>7, <2>8, <2>9, ScanGoesOn, SMTT(60)
  <2> QED
    BY <1>3, <2>1, <2>3, <2>4, <2>6, <2>10, TheWorker, BookStep
<1>7. CASE ReadStatus(w)
  <2> PICK tx : tx = Tx(e, Row(w))
    OBVIOUS
  <2>1. /\ work[w].pc = "scan" /\ k <= Len(work[w].rows)
        /\ Row(w).status = "signed" /\ UNCHANGED <<cluster, status, config>>
    BY <1>7 DEF ReadStatus
  <2>2. PICK v \in Views("primary") :
          \/ HasLanded(tx) /\ NextRow(w, FALSE) /\ UNCHANGED attempts
          \/ HasLanded(tx) /\ NextRow(w, FALSE) /\ SetAttempt(e, k, "failed")
          \/ NextRow(w, TRUE) /\ UNCHANGED attempts
          \/ Goto(w, "height") /\ UNCHANGED attempts
    BY <1>7 DEF ReadStatus, HasLanded
  <2>3. k \in 1..Len(attempts[e]) /\ attempts[e][k].status = "signed" /\ work[w].rows[k] = attempts[e][k]
        /\ tx = Tx(e, attempts[e][k]) /\ tx \in Txs
    BY <1>1, <1>3, <1>4, <2>1, RowTxs
  <2>4. UNCHANGED <<height, finalized, sent, landed, record>>
    BY <2>1 DEF cluster
  <2>5. ASSUME NEW b \in BOOLEAN, NextRow(w, b), b \/ HasLanded(tx), UNCHANGED attempts
        PROVE  BookInv'
    <3>1. PICK c \in BOOLEAN : (~c => ~work[w].waiting /\ ~b) /\ ScanTo(w, work[w].tip, c)
      BY <1>5, <2>5
    <3>2. ~c => Over(tx)'
      BY <2>4, <2>5, <3>1 DEF Over, HasLanded
    <3>3. AloneOk(w)'
      BY <1>1, <1>2, <1>3, <2>1, <2>3, <2>4, <2>5, <3>1, <3>2, ScanGoesOn, SMTT(60)
    <3> QED
      BY <2>1, <2>5, <3>3, ReadBook
  <2>6. CASE HasLanded(tx) /\ NextRow(w, FALSE) /\ SetAttempt(e, k, "failed")
    <3>1. /\ \A f \in Events : f # e => attempts'[f] = attempts[f]
          /\ Len(attempts'[e]) = Len(attempts[e]) /\ attempts'[e][k].status = "failed"
          /\ attempts'[e][k].config = attempts[e][k].config
          /\ \A j \in 1..Len(attempts[e]) : j # k => attempts'[e][j] = attempts[e][j]
      BY <1>1, <1>3, <2>3, <2>6, AttemptSet DEF AttemptStatuses
    <3>2. k \in Signed(e)
      BY <2>3 DEF Signed
    <3>3. Signed(e)' = {}
      <4>1. \A j \in Signed(e) : j = k
        BY <1>3, <3>2 DEF EventOk
      <4> QED
        BY <3>1, <4>1 DEF Signed
    <3>4. AllOver(e)
      BY <1>3, <2>3, <2>6, <3>2 DEF EventOk, AllOver, Over
    <3>5. EventOk(e)'
      BY <1>1, <1>3, <2>4, <3>1, <3>3, <3>4, EventCleared DEF EventOk
    <3>6. PICK c \in BOOLEAN : (~c => ~work[w].waiting) /\ ScanTo(w, work[w].tip, c)
      BY <1>5, <2>6
    <3>7. Over(tx)'
      BY <2>4, <2>6 DEF Over, HasLanded
    <3>8. /\ tx = Tx(e, work[w].rows[k]) /\ work[w].tip <= height' /\ config' = config /\ UNCHANGED status
          /\ attempts'[e][k].status # "signed"
      BY <1>3, <2>1, <2>3, <2>4, <3>1
    <3>9. AloneOk(w)'
      BY <1>1, <1>2, <1>3, <2>1, <3>1, <3>6, <3>7, <3>8, ScanGoesOn, SMTT(60)
    <3> QED
      BY <1>3, <2>1, <2>4, <3>1, <3>5, <3>9, TheWorker, BookStep
  <2>7. CASE Goto(w, "height") /\ UNCHANGED attempts
    <3>1. /\ work'[w].pc = "height" /\ work'[w].event = e /\ work'[w].rows = work[w].rows
          /\ work'[w].at = k /\ work'[w].tip = work[w].tip /\ work'[w].waiting = work[w].waiting
      BY <1>1, <2>7, GotoWork DEF Steps, Scanning
    <3>2. PICK n : n = k - 1
      OBVIOUS
    <3>3. n \in Nat /\ n <= Len(work[w].rows)
      BY <1>3, <2>1, <3>2
    <3>4. ~work[w].waiting => OverUpTo(w, n)
      BY <1>1, <1>2, <3>2 DEF AloneOk, ScanningOk
    <3>5. ~work[w].waiting => OverUpTo(w, n)'
      BY <1>1, <2>1, <3>1, <3>3, <3>4, OverUpToStays
    <3>6. (~work[w].waiting => OverUpTo(w, work[w].at - 1))'
      BY <3>1, <3>2, <3>5 DEF OverUpTo
    <3>7. ScanningOk(w)'
      BY <1>1, <1>2, <2>1, <2>4, <2>7, <3>1, <3>6 DEF AloneOk, ScanningOk, Scanning
    <3>8. AloneOk(w)'
      BY <1>3, <2>1, <3>1, <3>7 DEF AloneOk, SettlingOk, RecordingOk, Recording
    <3> QED
      BY <2>1, <2>7, <3>8, ReadBook
  <2> QED
    BY <2>2, <2>5, <2>6, <2>7
<1>8. CASE ReadHeight(w)
  <2>1. /\ work[w].pc = "height" /\ UNCHANGED <<height, finalized, landed, record, config>>
        /\ UNCHANGED <<status, attempts>>
    BY <1>8 DEF ReadHeight, store
  <2>2. k <= Len(work[w].rows) /\ work[w].rows[k].status = "signed"
    BY <1>1, <2>1 DEF WorkOk
  <2>3. k \in Signed(e) /\ work[w].rows[k] = attempts[e][k] /\ Row(w) = attempts[e][k]
        /\ Tx(e, attempts[e][k]) \in Txs
    BY <1>1, <1>3, <1>4, <2>2, RowTxs DEF Signed
  <2>4. PICK v \in IF work[w].tip = 0 THEN Views("primary") ELSE {work[w].tip} :
       /\ work' = [work EXCEPT ![w].pc = "scan", ![w].at = @ + 1, ![w].tip = v,
                               ![w].waiting = @ \/ StillValid(v, Row(w).valid)]
       /\ sent' \in {sent, sent \cup {Tx(e, Row(w))}}
    BY <1>8 DEF ReadHeight
  <2>5. v \in Nat /\ v <= height
    BY <1>1, <1>3, <2>4, ViewsInHeight, PrimaryIsProvider
  <2>6. EventOk(e)'
    BY <1>1, <1>3, <2>1, <2>3, <2>4, EventStays
  <2>7. PICK c \in BOOLEAN : c = (work[w].waiting \/ StillValid(v, Row(w).valid))
    OBVIOUS
  <2>8. [work[w] EXCEPT !.pc = "scan", !.at = @ + 1, !.tip = v,
                        !.waiting = @ \/ StillValid(v, Row(w).valid)]
        = [work[w] EXCEPT !.pc = "scan", !.at = @ + 1, !.tip = v, !.waiting = c]
    BY <1>1, <2>7 DEF Works
  <2>9. ScanTo(w, v, c)
    BY <2>4, <2>8 DEF ScanTo
  <2>10. PICK tx \in Txs : tx = Tx(e, work[w].rows[k]) /\ tx.valid = Row(w).valid
    BY <2>3 DEF Tx
  <2>11. ~c => ~work[w].waiting /\ Over(tx)'
    <3> SUFFICES ASSUME ~c PROVE ~work[w].waiting /\ Over(tx)'
      OBVIOUS
    <3>1. ~work[w].waiting /\ ~(v <= tx.valid)
      BY <2>7, <2>10 DEF StillValid
    <3>2. tx.valid \in Nat
      BY DEF Txs
    <3>3. height' >= tx.valid
      BY <1>3, <2>5, <3>1, <3>2
    <3> QED
      BY <3>1, <3>3 DEF Over
  <2>12. v <= height'
    BY <2>1, <2>5
  <2>13. AloneOk(w)'
    BY <1>1, <1>2, <1>3, <2>1, <2>2, <2>3, <2>5, <2>9, <2>10, <2>11, <2>12, ScanGoesOn
  <2>14. \A t \in sent' : t.event # e => t \in sent
    BY <2>4 DEF Tx
  <2> QED
    BY <1>3, <2>1, <2>6, <2>13, <2>14, TheWorker, BookStep
<1>9. CASE EndScan(w)
  <2>1. /\ work[w].pc = "scan" /\ k > Len(work[w].rows)
        /\ UNCHANGED <<cluster, status, attempts, config>>
        /\ Rest(w) \/ (~work[w].waiting /\ Goto(w, "record"))
    BY <1>9 DEF EndScan, store
  <2>2. CASE Rest(w)
    <3>1. work'[w].pc = "idle"
      BY <1>1, <2>2, RestWork DEF Idle
    <3>2. AloneOk(w)'
      BY <3>1 DEF AloneOk, SettlingOk, ScanningOk, RecordingOk, Scanning, Recording
    <3> QED
      BY <2>1, <3>2, ReadBook
  <2>3. CASE ~work[w].waiting /\ Goto(w, "record")
    <3>1. work'[w].pc = "record" /\ work'[w].event = e /\ work'[w].rows = work[w].rows
      BY <1>1, <2>3, GotoWork DEF Steps, Scanning
    <3>2. k <= Len(work[w].rows) + 1 /\ OverUpTo(w, k - 1)
      BY <1>1, <2>1, <2>3 DEF AloneOk, ScanningOk
    <3>3. PICK n \in Nat : n = Len(work[w].rows) /\ k - 1 = n
      BY <1>3, <2>1, <3>2
    <3>4. OverUpTo(w, n)'
      BY <1>1, <2>1, <3>1, <3>2, <3>3, OverUpToStays
    <3>5. OverUpTo(w, Len(work[w].rows))'
      BY <3>1, <3>3, <3>4 DEF OverUpTo
    <3>6. ScanningOk(w)'
      BY <1>1, <2>1, <3>1, <3>5 DEF AloneOk, ScanningOk, Scanning
    <3>7. AloneOk(w)'
      BY <1>3, <2>1, <3>1, <3>6 DEF AloneOk, SettlingOk, RecordingOk, Recording
    <3> QED
      BY <2>1, <3>7, ReadBook
  <2> QED
    BY <2>1, <2>2, <2>3
<1> QED
  BY <1>6, <1>7, <1>8, <1>9

LEMMA DecideBook ==
  ASSUME OneWorker, IInv, BookInv, Kept, NEW w \in Workers,
         \/ RecordFound(w) \/ RecordMissing(w) \/ RecordMissingOnSecond(w)
         \/ Conclude(w) \/ ReadFails(w) \/ SecondDisagrees(w)
  PROVE  BookInv'
<1> PICK e : e = work[w].event
  OBVIOUS
<1>1. /\ TypeInv /\ TypeInv' /\ RowsGrow /\ ChainGrows /\ StoreOk /\ work \in [Workers -> Works]
      /\ AloneOk(w) /\ WorkOk(w) /\ work[w] \in Works
  BY DEF IInv, Kept, TypeInv, BookInv
<1>2. CASE RecordFound(w)
  <2>1. /\ work[w].pc \in {"refused", "record"} /\ UNCHANGED <<cluster, status, attempts, config>>
        /\ \/ Goto(w, "resolve")
           \/ work' = [work EXCEPT ![w].pc = "find", ![w].rows = attempts[e]]
    BY <1>2 DEF RecordFound, store
  <2>2. /\ work'[w].pc = "resolve" \/ (work'[w].pc = "find" /\ work'[w].rows = attempts[e])
        /\ work'[w].event = e
    <3>1. CASE Goto(w, "resolve")
      BY <1>1, <3>1, GotoWork DEF Steps
    <3>2. CASE work' = [work EXCEPT ![w].pc = "find", ![w].rows = attempts[e]]
      BY <1>1, <3>2 DEF Works
    <3> QED
      BY <2>1, <3>1, <3>2
  <2>3. status[e] = "in_flight"
    BY <1>1, <2>1 DEF AloneOk
  <2>4. status'[work'[w].event] = "in_flight"
    BY <2>1, <2>2, <2>3
  <2>5. work'[w].pc \in Recording => Len(work'[w].rows) = Len(attempts'[work'[w].event])
    BY <2>1, <2>2 DEF Recording
  <2>6. work'[w].pc # "compare"
    BY <2>2
  <2>7. RecordingOk(w)'
    BY <2>5, <2>6 DEF RecordingOk
  <2>8. SettlingOk(w)' /\ ScanningOk(w)'
    BY <2>2 DEF SettlingOk, ScanningOk, Scanning
  <2>9. AloneOk(w)'
    BY <2>4, <2>7, <2>8 DEF AloneOk
  <2> QED
    BY <2>1, <2>9, ReadBook
<1>3. CASE RecordMissing(w)
  <2>1. /\ work[w].pc \in {"refused", "record"} /\ UNCHANGED <<cluster, config>>
    BY <1>3 DEF RecordMissing
  <2>2. CASE NoAttemptLanded(w)
    BY <2>1, <2>2, NoAttemptLandedBook
  <2>3. CASE /\ Goto(w, IF work[w].pc = "refused" THEN "refused2" ELSE "record2")
             /\ UNCHANGED <<status, attempts>>
    <3>1. PICK pc : pc = IF work[w].pc = "refused" THEN "refused2" ELSE "record2"
      OBVIOUS
    <3>2. pc \in Steps /\ Goto(w, pc)
      BY <2>3, <3>1 DEF Steps, Settling, Scanning
    <3>3. work'[w].pc = pc /\ work'[w].event = e /\ work'[w].rows = work[w].rows
      BY <1>1, <3>2, GotoWork
    <3>4. \/ work[w].pc = "refused" /\ pc = "refused2"
          \/ work[w].pc = "record" /\ pc = "record2"
      BY <2>1, <3>1
    <3>5. UNCHANGED <<height, finalized, sent, landed, record>>
      BY <2>1 DEF cluster
    <3>6. OverUpTo(w, Len(work[w].rows)) => OverUpTo(w, Len(work[w].rows))'
      BY <3>3, <3>5 DEF OverUpTo, Over, HasLanded, Tx
    <3>7. SettlingOk(w)' /\ RecordingOk(w)'
      BY <1>1, <2>3, <3>3, <3>4 DEF AloneOk, SettlingOk, RecordingOk, Signed, Recording
    <3>8. ScanningOk(w)'
      BY <1>1, <2>1, <2>3, <3>3, <3>4, <3>6 DEF AloneOk, ScanningOk, Scanning
    <3>9. status[e] = "in_flight"
      BY <1>1, <2>1 DEF AloneOk
    <3>10. status'[work'[w].event] = "in_flight"
      BY <2>3, <3>3, <3>9
    <3>11. AloneOk(w)'
      BY <3>7, <3>8, <3>10 DEF AloneOk
    <3> QED
      BY <2>1, <2>3, <3>11, ReadBook
  <2> QED
    BY <1>3, <2>2, <2>3 DEF RecordMissing
<1>4. CASE RecordMissingOnSecond(w)
  BY <1>4, NoAttemptLandedBook DEF RecordMissingOnSecond
<1>5. CASE Conclude(w)
  <2>1. /\ work[w].pc = "conclude" /\ Rest(w) /\ UNCHANGED <<cluster, attempts>>
    BY <1>5 DEF Conclude
  <2>2. PICK s : Set(e, s)
    BY <1>5 DEF Conclude
  <2>3. Signed(e) = {}
    BY <1>1, <2>1 DEF AloneOk, ScanningOk
  <2> QED
    BY <2>1, <2>2, <2>3, RestBook
<1>6. CASE ReadFails(w) \/ SecondDisagrees(w)
  BY <1>6, UnresolvedBook DEF ReadFails, SecondDisagrees
<1> QED
  BY <1>2, <1>3, <1>4, <1>5, <1>6

-----------------------------------------------------------------------------
(* The evidence                                                            *)

LEMMA RecordPaidBook ==
  ASSUME OneWorker, IInv, BookInv, Kept, NEW w \in Workers, RecordPaid(w)
  PROVE  BookInv'
<1> PICK e : e = work[w].event
  OBVIOUS
<1>1. /\ TypeInv /\ TypeInv' /\ RowsGrow /\ ChainGrows /\ StoreOk /\ work \in [Workers -> Works]
      /\ AloneOk(w) /\ WorkOk(w) /\ status \in [Events -> Statuses] /\ RecordsOk /\ ClusterOk
  BY DEF IInv, Kept, TypeInv, BookInv, StoreOk
<1>2. /\ work[w].pc = "rows" /\ Rest(w) /\ Set(e, "paid") /\ UNCHANGED <<cluster, config>>
      /\ UNCHANGED <<height, finalized, sent, landed, record>>
  BY DEF RecordPaid, cluster
<1>3. \/ UNCHANGED attempts
      \/ \E k \in 1..Len(work[w].rows) : Tx(e, work[w].rows[k]) \in Creation(w).by /\ SetAttempt(e, k, "landed")
  BY DEF RecordPaid
<1>4. e \in Events /\ EventOk(e) /\ Creation(w) # NoRecord
  BY <1>1, <1>2, OwnEvent DEF BookInv, WorkOk, Recording
<1>5. CASE UNCHANGED attempts
  BY <1>2, <1>5, RestBook
<1>6. ASSUME NEW k \in 1..Len(work[w].rows), Tx(e, work[w].rows[k]) \in Creation(w).by,
             SetAttempt(e, k, "landed")
      PROVE  BookInv'
  <2>1. PICK tx : tx = Tx(e, work[w].rows[k])
    OBVIOUS
  <2>2. config.namespace \in Namespaces
    BY <1>1 DEF ClusterOk, Namespaces
  <2>3. HasLanded(tx) /\ tx.valid > 0
    BY <1>1, <1>4, <1>6, <2>1, <2>2 DEF BookInv, ChainOk, RecordsOk, Creation
  <2>4. k \in 1..Len(attempts[e]) /\ work[w].rows[k].valid # 0 /\ work[w].rows[k].config = attempts[e][k].config
    <3>1. work[w].rows[k].valid # 0
      BY <2>1, <2>3 DEF Tx
    <3>2. work[w].pc # "idle"
      BY <1>2
    <3> QED
      BY <1>1, <3>1, <3>2, RowsAreRead
  <2>5. attempts[e][k].valid = work[w].rows[k].valid
    BY <1>1, <1>2, <2>4 DEF WorkOk, RowsOk
  <2>6. Tx(e, attempts[e][k]) = tx /\ attempts[e][k].valid # 0
    BY <2>1, <2>4, <2>5 DEF Tx
  <2>7. /\ \A f \in Events : f # e => attempts'[f] = attempts[f]
        /\ Len(attempts'[e]) = Len(attempts[e]) /\ attempts'[e][k].status = "landed"
        /\ \A j \in 1..Len(attempts[e]) : j # k => attempts'[e][j] = attempts[e][j]
    BY <1>1, <1>4, <1>6, <2>4, <2>6, AttemptSet DEF AttemptStatuses
  <2>8. Signed(e)' \subseteq Signed(e) \ {k} /\ \A j \in Signed(e) : j # k => j \in Signed(e)'
    BY <2>7 DEF Signed
  <2>9. \A t \in sent : t.event = e /\ ~Over(t)' => \E j \in Signed(e)' : Tx(e, attempts'[e][j]) = t
    <3> SUFFICES ASSUME NEW t \in sent, t.event = e, ~Over(t)'
                 PROVE  \E j \in Signed(e)' : Tx(e, attempts'[e][j]) = t
      OBVIOUS
    <3>1. ~Over(t)
      BY <1>2 DEF Over, HasLanded
    <3>2. PICK j \in Signed(e) : Tx(e, attempts[e][j]) = t
      BY <1>4, <3>1 DEF EventOk
    <3>3. j # k
      BY <2>3, <2>6, <3>1, <3>2 DEF Over
    <3>4. attempts'[e][j] = attempts[e][j]
      BY <2>7, <3>3 DEF Signed
    <3> QED
      BY <2>8, <3>2, <3>3, <3>4
  <2>10. status'[e] = "paid" /\ \A f \in Events : f # e => status'[f] = status[f]
    BY <1>1, <1>2, <1>4 DEF Set
  <2>11. EventOk(e)'
    BY <1>1, <1>2, <1>4, <2>7, <2>8, <2>9, <2>10, EventMoves DEF EventOk
  <2>12. work'[w].pc = "idle"
    BY <1>1, <1>2, RestWork DEF Idle
  <2>13. AloneOk(w)'
    BY <2>12 DEF AloneOk, SettlingOk, ScanningOk, RecordingOk, Scanning, Recording
  <2> QED
    BY <1>2, <1>4, <2>7, <2>10, <2>11, <2>13, TheWorker, BookStep
<1> QED
  BY <1>3, <1>5, <1>6

LEMMA RecordBook ==
  ASSUME OneWorker, IInv, BookInv, Kept, NEW w \in Workers, RecordStep(w)
  PROVE  BookInv'
<1> PICK e : e = work[w].event
  OBVIOUS
<1>1. /\ TypeInv /\ TypeInv' /\ RowsGrow /\ ChainGrows /\ StoreOk /\ work \in [Workers -> Works]
      /\ AloneOk(w) /\ WorkOk(w) /\ work[w] \in Works
  BY DEF IInv, Kept, TypeInv, BookInv
<1>2. ASSUME work[w].pc \in Recording, UNCHANGED <<cluster, status, attempts, config>>,
             NEW pc \in {"reconcile", "confirm", "compare", "rows"}, Goto(w, pc),
             pc = "compare" => Creation(w).content \notin Requests(w)
      PROVE  BookInv'
  <2>1. work'[w].pc = pc /\ work'[w].event = e /\ work'[w].rows = work[w].rows
    BY <1>1, <1>2, GotoWork DEF Steps, Recording
  <2>2. UNCHANGED <<height, finalized, sent, landed, record>>
    BY <1>2 DEF cluster
  <2>3. AloneOk(w)'
    BY <1>1, <1>2, <2>1, <2>2
       DEF AloneOk, SettlingOk, ScanningOk, RecordingOk, Scanning, Recording, Creation, Requests
  <2> QED
    BY <1>2, <2>3, ReadBook
<1>3. CASE FindCreator(w)
  BY <1>2, <1>3 DEF FindCreator, Recording, store
<1>4. CASE CreatorUnclear(w)
  BY <1>4, UnresolvedBook DEF CreatorUnclear
<1>5. CASE Matches(w)
  BY <1>2, <1>5 DEF Matches, Recording, store
<1>6. CASE ConfirmMatch(w)
  BY <1>2, <1>6 DEF ConfirmMatch, Recording, store
<1>7. CASE RecordPaid(w)
  BY <1>7, RecordPaidBook
<1>8. CASE Mismatches(w)
  <2>1. CASE Goto(w, "compare") /\ UNCHANGED status
    BY <1>2, <1>8, <2>1 DEF Mismatches, Recording
  <2>2. CASE Set(e, "incident") /\ Rest(w)
    BY <1>8, <2>2, RestBook DEF Mismatches
  <2> QED
    BY <1>8, <2>1, <2>2 DEF Mismatches
<1>9. CASE ConfirmIncident(w)
  BY <1>9, RestBook DEF ConfirmIncident
<1>10. CASE EvidenceMissing(w)
  <2>1. Unresolved(w) /\ work[w].pc # "idle"
    BY <1>10 DEF EvidenceMissing
  <2> QED
    BY <2>1, UnresolvedBook
<1> QED
  BY <1>3, <1>4, <1>5, <1>6, <1>7, <1>8, <1>9, <1>10 DEF RecordStep

-----------------------------------------------------------------------------
(* The cluster, the operator, and the whole                                *)

\* What neither writes the store nor moves the worker leaves only the chain to look at.
LEMMA ChainBook ==
  ASSUME IInv, BookInv, Kept, UNCHANGED <<sent, store, work, config>>, ChainOk'
  PROVE  BookInv'
<1>1. /\ TypeInv /\ TypeInv' /\ RowsGrow /\ ChainGrows /\ UNCHANGED <<status, attempts>>
  BY DEF IInv, Kept, store
<1>2. \A e \in Events : EventOk(e)'
  BY <1>1, EventStays DEF BookInv
<1>3. \A w \in Workers : AloneOk(w)'
  <2> TAKE w \in Workers
  <2>1. CASE work[w].pc = "idle"
    <3>1. work'[w].pc = "idle"
      BY <2>1
    <3> QED
      BY <3>1 DEF AloneOk, SettlingOk, ScanningOk, RecordingOk, Scanning, Recording
  <2>2. CASE work[w].pc # "idle"
    BY <1>1, <2>2, AloneStays DEF BookInv
  <2> QED
    BY <2>1, <2>2
<1> QED
  BY <1>2, <1>3 DEF BookInv

\* The next block's record is the only one of its height.
LEMMA RecordNew ==
  ASSUME RecordsOk, ClusterOk, ChainOk, NEW n \in Namespaces, NEW e \in Events, record[n][e] = NoRecord,
         \A m \in Namespaces, f \in Events : <<m, f>> # <<n, e>> => record'[m][f] = record[m][f],
         record'[n][e].height = height + 1
  PROVE  \A p, q \in Namespaces, f, g \in Events :
           record'[p][f] # NoRecord /\ record'[q][g] # NoRecord /\ record'[p][f].height = record'[q][g].height
             => p = q /\ f = g
<1>1. \A m \in Namespaces, f \in Events : <<m, f>> # <<n, e>> /\ record'[m][f] # NoRecord =>
        record'[m][f] = record[m][f] /\ record'[m][f].height \in Nat /\ record'[m][f].height <= height
  BY DEF RecordsOk, Settlements
<1>2. height \in Nat
  BY DEF ClusterOk
<1> SUFFICES ASSUME NEW p \in Namespaces, NEW q \in Namespaces, NEW f \in Events, NEW g \in Events,
                    record'[p][f] # NoRecord, record'[q][g] # NoRecord,
                    record'[p][f].height = record'[q][g].height
             PROVE  p = q /\ f = g
  OBVIOUS
<1>3. CASE <<p, f>> = <<n, e>> /\ <<q, g>> = <<n, e>>
  BY <1>3
<1>4. CASE <<p, f>> # <<n, e>> /\ <<q, g>> # <<n, e>>
  BY <1>1, <1>4 DEF ChainOk
<1>5. CASE <<p, f>> = <<n, e>> /\ <<q, g>> # <<n, e>>
  BY <1>1, <1>2, <1>5
<1>6. CASE <<p, f>> # <<n, e>> /\ <<q, g>> = <<n, e>>
  BY <1>1, <1>2, <1>6
<1> QED
  BY <1>3, <1>4, <1>5, <1>6

LEMMA LandBook ==
  ASSUME IInv, BookInv, Kept, NEW tx \in sent, Land(tx)
  PROVE  ChainOk'
<1> DEFINE n == tx.config.namespace
           e == tx.event
           New(ok) == [tx |-> tx, height |-> height + 1, ok |-> ok]
<1>1. /\ TypeInv /\ ChainGrows /\ ChainOk /\ ClusterOk /\ RecordsOk
  BY DEF IInv, Kept, BookInv, TypeInv
<1>2. n \in Namespaces /\ e \in Events /\ tx.config \in Configs
  BY <1>1 DEF ClusterOk, Txs, Namespaces
<1>3. ~HasLanded(tx)
  BY DEF Land, CanLand
<1>4. \/ /\ record[n][e] = NoRecord
         /\ record' = [record EXCEPT ![n][e] = [content |-> tx.config.rate, height |-> height + 1, by |-> {tx}]]
         /\ landed' = landed \cup {New(TRUE)}
      \/ landed' = landed \cup {New(FALSE)} /\ UNCHANGED record
  BY DEF Land
<1>5. PICK ok \in BOOLEAN : landed' = landed \cup {New(ok)}
  BY <1>4
<1>6. \A l, m \in landed' : l.tx = m.tx => l = m
  BY <1>1, <1>3, <1>5 DEF HasLanded, ChainOk
<1>7. \A t : HasLanded(t) => HasLanded(t)'
  BY <1>5 DEF HasLanded
<1>8. CASE UNCHANGED record /\ landed' = landed \cup {New(FALSE)}
  BY <1>1, <1>6, <1>7, <1>8 DEF ChainOk
<1>9. CASE /\ record[n][e] = NoRecord
           /\ record' = [record EXCEPT ![n][e] = [content |-> tx.config.rate, height |-> height + 1, by |-> {tx}]]
           /\ landed' = landed \cup {New(TRUE)}
  <2>1. PICK r : r = [content |-> tx.config.rate, height |-> height + 1, by |-> {tx}]
    OBVIOUS
  <2>2. /\ record'[n][e] = r
        /\ \A m \in Namespaces, f \in Events : <<m, f>> # <<n, e>> => record'[m][f] = record[m][f]
    <3>1. record' = [record EXCEPT ![n][e] = r]
      BY <1>9, <2>1
    <3> HIDE DEF n, e
    <3> QED
      BY <1>1, <1>2, <3>1 DEF RecordsOk
  <2>3. r # NoRecord /\ r.height = height + 1 /\ r.by = {tx}
    <3>1. DOMAIN r = {"content", "height", "by"} /\ DOMAIN NoRecord = {"content"}
      BY <2>1 DEF NoRecord
    <3> QED
      BY <2>1, <3>1
  <2>4. \A l \in landed' : l.ok =>
          LET q == record'[l.tx.config.namespace][l.tx.event]
          IN q # NoRecord /\ q.height = l.height
    <3> TAKE l \in landed'
    <3>1. CASE l \in landed
      <4>1. l.tx.config.namespace \in Namespaces /\ l.tx.event \in Events
        BY <1>1, <3>1 DEF ClusterOk, Txs, Namespaces
      <4>2. l.ok => record[l.tx.config.namespace][l.tx.event] # NoRecord
        BY <1>1, <3>1 DEF ChainOk
      <4> QED
        BY <1>1, <1>9, <2>2, <3>1, <4>1, <4>2 DEF ChainOk, ChainGrows
    <3>2. CASE l = New(TRUE)
      BY <2>2, <2>3, <3>2
    <3> QED
      BY <1>9, <3>1, <3>2
  <2>5. \A m \in Namespaces, f \in Events :
          record'[m][f] # NoRecord => \A t \in record'[m][f].by : HasLanded(t)'
    <3> TAKE m \in Namespaces, f \in Events
    <3>1. CASE <<m, f>> = <<n, e>>
      <4>1. New(TRUE) \in landed' /\ New(TRUE).tx = tx
        BY <1>9
      <4>2. PICK l : l = New(TRUE)
        OBVIOUS
      <4>3. l \in landed' /\ l.tx = tx
        BY <4>1, <4>2
      <4>4. HasLanded(tx)'
        <5> HIDE DEF New, n, e
        <5> QED
          BY <4>3 DEF HasLanded
      <4> QED
        BY <2>2, <2>3, <3>1, <4>4
    <3>2. CASE <<m, f>> # <<n, e>>
      BY <1>1, <1>7, <2>2, <3>2 DEF ChainOk
    <3> QED
      BY <3>1, <3>2
  <2>6. \A p, q \in Namespaces, f, g \in Events :
           record'[p][f] # NoRecord /\ record'[q][g] # NoRecord /\ record'[p][f].height = record'[q][g].height
             => p = q /\ f = g
    <3>1. record'[n][e].height = height + 1
      BY <2>2, <2>3
    <3> HIDE DEF n, e
    <3> QED
      BY <1>1, <1>2, <1>9, <2>2, <3>1, RecordNew
  <2> QED
    BY <1>6, <2>4, <2>5, <2>6 DEF ChainOk
<1> QED
  BY <1>4, <1>8, <1>9

LEMMA ClusterBook ==
  ASSUME IInv, BookInv, Kept, ClusterStep
  PROVE  BookInv'
<1>1. /\ TypeInv /\ ChainGrows /\ ChainOk /\ ClusterOk /\ RecordsOk
  BY DEF IInv, Kept, BookInv, TypeInv
<1>2. UNCHANGED <<sent, store, work, config>>
  BY DEF ClusterStep, Land, ForeignSettle, Tick, Finalize
<1>3. ASSUME NEW tx \in sent, Land(tx)
      PROVE  BookInv'
  BY <1>2, <1>3, LandBook, ChainBook
<1>4. ASSUME NEW e \in Events, NEW c \in Foreign, ForeignSettle(c.namespace, e, c.content)
      PROVE  BookInv'
  <2>1. PICK n \in Namespaces : n = c.namespace
    BY WorkerAssumption
  <2>2. PICK r : r = [content |-> c.content, height |-> height + 1, by |-> {}]
    OBVIOUS
  <2>3. record[n][e] = NoRecord /\ record' = [record EXCEPT ![n][e] = r] /\ UNCHANGED landed
    BY <1>4, <2>1, <2>2 DEF ForeignSettle
  <2>4. /\ record'[n][e] = r /\ r.by = {} /\ r.height = height + 1
        /\ \A m \in Namespaces, f \in Events : <<m, f>> # <<n, e>> => record'[m][f] = record[m][f]
    BY <1>1, <2>2, <2>3 DEF RecordsOk
  <2>5. \A p, q \in Namespaces, f, g \in Events :
           record'[p][f] # NoRecord /\ record'[q][g] # NoRecord /\ record'[p][f].height = record'[q][g].height
             => p = q /\ f = g
    BY <1>1, <2>3, <2>4, RecordNew
  <2>6. \A m \in Namespaces, f \in Events :
          record'[m][f] # NoRecord => \A t \in record'[m][f].by : HasLanded(t)'
    <3> TAKE m \in Namespaces, f \in Events
    <3>1. CASE <<m, f>> = <<n, e>>
      BY <2>4, <3>1
    <3>2. CASE <<m, f>> # <<n, e>>
      BY <1>1, <2>3, <2>4, <3>2 DEF ChainOk, HasLanded
    <3> QED
      BY <3>1, <3>2
  <2>7. \A l \in landed' : l.ok =>
          LET q == record'[l.tx.config.namespace][l.tx.event]
          IN q # NoRecord /\ q.height = l.height
    <3> TAKE l \in landed'
    <3>1. l \in landed /\ l.tx.config.namespace \in Namespaces /\ l.tx.event \in Events
      BY <1>1, <2>3 DEF ClusterOk, Txs, Namespaces
    <3>2. l.ok => /\ record[l.tx.config.namespace][l.tx.event] # NoRecord
                  /\ record[l.tx.config.namespace][l.tx.event].height = l.height
      BY <1>1, <3>1 DEF ChainOk
    <3> QED
      BY <1>1, <3>1, <3>2 DEF ChainGrows
  <2>8. ChainOk'
    BY <1>1, <2>3, <2>5, <2>6, <2>7 DEF ChainOk
  <2> QED
    BY <1>2, <2>8, ChainBook
<1>5. CASE Tick \/ Finalize
  <2>1. UNCHANGED <<landed, record>>
    BY <1>5 DEF Tick, Finalize
  <2>2. ChainOk'
    BY <1>1, <2>1 DEF ChainOk, HasLanded
  <2> QED
    BY <1>2, <2>2, ChainBook
<1> QED
  BY <1>3, <1>4, <1>5 DEF ClusterStep

LEMMA OperatorBook ==
  ASSUME OneWorker, IInv, BookInv, Kept, OperatorStep
  PROVE  BookInv'
<1>1. /\ TypeInv /\ TypeInv' /\ RowsGrow /\ ChainGrows /\ ChainOk /\ status \in [Events -> Statuses]
      /\ work \in [Workers -> Works]
  BY DEF IInv, Kept, BookInv, TypeInv, StoreOk
<1>2. ASSUME NEW e \in Events, Enqueue(e)
      PROVE  BookInv'
  <2>1. /\ status[e] = "absent" /\ UNCHANGED <<cluster, attempts, work, config>>
        /\ status'[e] = "pending" /\ \A f \in Events : f # e => status'[f] = status[f]
    BY <1>1, <1>2 DEF Enqueue, Set
  <2>2. UNCHANGED <<height, finalized, sent, landed, record>>
    BY <2>1 DEF cluster
  <2>3. EventOk(e) /\ Signed(e) = {}
    BY <2>1 DEF BookInv, EventOk
  <2>4. EventOk(e)'
    BY <1>1, <2>1, <2>2, <2>3, EventStays
  <2>5. \A w \in Workers : AloneOk(w)'
    <3> TAKE w \in Workers
    <3>1. CASE work[w].pc = "idle"
      <4>1. work'[w].pc = "idle"
        BY <2>1, <3>1
      <4> QED
        BY <4>1 DEF AloneOk, SettlingOk, ScanningOk, RecordingOk, Scanning, Recording
    <3>2. CASE work[w].pc # "idle"
      <4>1. AloneOk(w) /\ work[w].event \in Events
        BY <1>1, <3>2, OwnEvent DEF BookInv
      <4>2. work[w].event # e
        BY <2>1, <3>2, <4>1 DEF AloneOk, SettlingOk
      <4> QED
        BY <1>1, <2>1, <2>2, <3>2, <4>1, <4>2, AloneStays
    <3> QED
      BY <3>1, <3>2
  <2> QED
    BY <2>1, <2>2, <2>4, <2>5, BookStep
<1>3. ASSUME NEW w \in Workers, Crash(w)
      PROVE  BookInv'
  <2>1. Rest(w) /\ UNCHANGED <<cluster, status, attempts>>
    BY <1>3 DEF Crash, store
  <2>2. work'[w].pc = "idle"
    BY <1>1, <2>1, RestWork DEF Idle
  <2>3. AloneOk(w)'
    BY <2>2 DEF AloneOk, SettlingOk, ScanningOk, RecordingOk, Scanning, Recording
  <2> QED
    BY <2>1, <2>3, ReadBook
<1>4. ASSUME NEW w \in Workers, NEW e \in Events, Recheck(w, e)
      PROVE  BookInv'
  <2>1. /\ UNCHANGED <<cluster, attempts>>
        /\ status'[e] = "in_flight" /\ \A f \in Events : f # e => status'[f] = status[f]
    BY <1>1, <1>4 DEF Recheck, Set
  <2>2. UNCHANGED <<height, finalized, sent, landed, record>>
    BY <2>1 DEF cluster
  <2>3. EventOk(e)'
    BY <1>1, <2>1, <2>2, EventStays DEF BookInv
  <2>4. work'[w].pc = "resolve" /\ work'[w].event = e
    BY <1>1, <1>4 DEF Recheck, Works
  <2>5. AloneOk(w)'
    BY <2>1, <2>4 DEF AloneOk, SettlingOk, ScanningOk, RecordingOk, Scanning, Recording
  <2> QED
    BY <2>1, <2>2, <2>3, <2>5, TheWorker, BookStep
<1>5. ASSUME NEW c \in Configs, Reconfigure(c)
      PROVE  BookInv'
  <2>1. /\ UNCHANGED <<cluster, status, attempts, work>> /\ \A w \in Workers : work[w].pc = "idle"
    BY <1>5 DEF Reconfigure, store
  <2>2. UNCHANGED <<height, finalized, sent, landed, record>>
    BY <2>1 DEF cluster
  <2>3. \A e \in Events : EventOk(e)'
    BY <1>1, <2>1, <2>2, EventStays DEF BookInv
  <2>4. \A w \in Workers : work'[w].pc = "idle"
    BY <2>1
  <2>5. \A w \in Workers : AloneOk(w)'
    BY <2>4 DEF AloneOk, SettlingOk, ScanningOk, RecordingOk, Scanning, Recording
  <2>6. ChainOk'
    BY <1>1, <2>2 DEF ChainOk, HasLanded
  <2> QED
    BY <2>3, <2>5, <2>6 DEF BookInv
<1> QED
  BY <1>2, <1>3, <1>4, <1>5 DEF OperatorStep

LEMMA BookInit == Init => BookInv
<1> SUFFICES ASSUME Init PROVE BookInv
  OBVIOUS
<1>1. ChainOk
  BY DEF Init, ChainOk
<1>2. ASSUME NEW e \in Events PROVE EventOk(e)
  <2>1. attempts[e] = <<>> /\ Len(attempts[e]) = 0 /\ sent = {}
    BY DEF Init
  <2>2. Signed(e) = {}
    BY <2>1 DEF Signed
  <2> QED
    BY <2>1, <2>2, WorkerAssumption DEF EventOk
<1>3. ASSUME NEW w \in Workers PROVE AloneOk(w)
  BY IdleAlone DEF Init, Idle
<1> QED
  BY <1>1, <1>2, <1>3 DEF BookInv

LEMMA BookNext ==
  ASSUME OneWorker, IInv, BookInv, [Next \/ CalmDown]_vars
  PROVE  Kept /\ BookInv'
<1>1. Kept
  BY NextKeeps
<1>2. ASSUME NEW w \in Workers, WorkerStep(w)
      PROVE  BookInv'
  <2>1. CASE SettleStep(w)
    BY <1>1, <2>1, SettleBook
  <2>2. CASE ResolveStep(w)
    BY <1>1, <2>2, ResolveBook, ScanBook, DecideBook DEF ResolveStep
  <2>3. CASE RecordStep(w)
    BY <1>1, <2>3, RecordBook
  <2> QED
    BY <1>2, <2>1, <2>2, <2>3 DEF WorkerStep
<1>3. ASSUME CalmDown \/ UNCHANGED vars
      PROVE  BookInv'
  <2>1. UNCHANGED <<cluster, store, work, config>>
    BY <1>3 DEF CalmDown, vars
  <2>2. UNCHANGED <<height, finalized, sent, landed, record>>
    BY <2>1 DEF cluster
  <2>3. ChainOk'
    BY <2>2 DEF BookInv, ChainOk, HasLanded
  <2> QED
    BY <1>1, <2>1, <2>2, <2>3, ChainBook
<1>4. CASE ClusterStep
  BY <1>1, <1>4, ClusterBook
<1>5. CASE OperatorStep
  BY <1>1, <1>5, OperatorBook
<1> QED
  BY <1>1, <1>2, <1>3, <1>4, <1>5 DEF Next

LEMMA AloneInvariance ==
  ASSUME OneWorker
  PROVE  Init /\ [][Next \/ CalmDown]_vars => [](IInv /\ BookInv)
<1>1. Init => IInv /\ BookInv
  BY InitInv, BookInit
<1>2. IInv /\ BookInv /\ [Next \/ CalmDown]_vars => IInv' /\ BookInv'
  BY BookNext DEF Kept
<1> QED
  BY <1>1, <1>2, PTL

\* The runs in which the faults stop one day are among those, and so are the others.
LEMMA AloneAlways ==
  ASSUME OneWorker
  PROVE  /\ Spec => [](IInv /\ BookInv)
         /\ FairSpec => [](IInv /\ BookInv)
<1>1. [Next]_vars => [Next \/ CalmDown]_vars
  OBVIOUS
<1>2. Spec => Init /\ [][Next \/ CalmDown]_vars
  BY <1>1, PTL DEF Spec
<1>3. FairSpec => Init /\ [][Next \/ CalmDown]_vars
  BY PTL DEF FairSpec
<1> QED
  BY <1>2, <1>3, AloneInvariance, PTL

-----------------------------------------------------------------------------
(* Nothing is forgotten                                                    *)

LEMMA BookedTypes ==
  ASSUME TypeInv, BookInv
  PROVE  TypeOK
<1>1. ClusterOk /\ RecordsOk /\ ServedOk /\ StoreOk /\ \A w \in Workers : WorkOk(w)
  BY DEF TypeInv
<1>2. /\ height \in Nat /\ finalized \in 1..height /\ config \in Configs
      /\ sent \subseteq [event : Events, config : Configs, valid : Nat]
      /\ \A l \in landed : l.tx \in sent /\ l.height \in 1..height /\ l.height <= l.tx.valid
  BY <1>1 DEF ClusterOk, Txs
<1>3. \A n \in Namespaces, e \in Events : record[n][e] # NoRecord =>
        record[n][e].content \in Contents /\ record[n][e].height \in 1..height
  <2>1. \A n \in Namespaces, e \in Events : record[n][e] # NoRecord =>
          /\ record[n][e].content \in Contents /\ record[n][e].height \in Nat
          /\ 1 <= record[n][e].height /\ record[n][e].height <= height
    BY <1>1 DEF RecordsOk, Settlements
  <2> QED
    BY <1>2, <2>1
<1>4. \E d \in Disciplines : \A p \in Providers :
        served[p].lag = d[p] /\ served[p].height \in 1..height
  <2>1. PICK d \in Disciplines : \A p \in Providers : served[p].lag = d[p]
    BY <1>1 DEF ServedOk
  <2>2. \A p \in Providers : served[p].height \in 1..height
    BY <1>1, <1>2 DEF ServedOk
  <2> QED
    BY <2>1, <2>2
<1>5. /\ status \in [Events -> Decided \cup {"absent", "pending", "in_flight"}]
      /\ \A e \in Events : attempts[e] \in Seq(AttemptRow)
  BY <1>1 DEF StoreOk, AttemptsOk, Statuses
<1>6. \A e \in Events : Len(attempts[e]) <= MaxAttempts
  BY DEF BookInv, EventOk
<1>7. \A e \in Events : \A k \in 1..Len(attempts[e]) :
        LET row == attempts[e][k]
        IN /\ row.valid = 0 => row.status \in {"prepared", "failed"}
           /\ row.valid # 0 => row.status # "prepared"
  BY <1>1 DEF StoreOk, AttemptsOk, RowOk
<1>8. \A w \in Workers : work[w] = Idle \/ work[w].event \in Events
  BY <1>1 DEF WorkOk
<1> QED
  BY <1>2, <1>3, <1>4, <1>5, <1>6, <1>7, <1>8 DEF TypeOK

\* worker.ts, store.ts: one worker alone keeps every row well formed, never makes more
\* attempts than it may (worker.ts: maxAttempts is compared with what was read before
\* the event was taken), and signs an attempt once.
THEOREM WellFormed ==
  ASSUME OneWorker
  PROVE  (Spec => []TypeOK) /\ (FairSpec => []TypeOK)
<1>1. IInv /\ BookInv => TypeOK
  BY BookedTypes DEF IInv
<1> QED
  BY <1>1, AloneAlways, PTL

LEMMA BookedTransactions ==
  ASSUME TypeInv, BookInv
  PROVE  NothingUnaccounted
<1> SUFFICES ASSUME NEW tx \in sent
             PROVE  /\ \E k \in 1..Len(attempts[tx.event]) : Tx(tx.event, attempts[tx.event][k]) = tx
                    /\ CanLand(tx) => status[tx.event] # "pending"
  BY DEF NothingUnaccounted
<1>1. PICK e \in Events : e = tx.event
  BY DEF TypeInv, ClusterOk, Txs
<1>2. /\ \E k \in 1..Len(attempts[e]) : Tx(e, attempts[e][k]) = tx
      /\ ~Over(tx) => Signed(e) # {}
      /\ status[e] = "pending" => Signed(e) = {}
  BY <1>1 DEF BookInv, EventOk
<1>3. CanLand(tx) => ~Over(tx)
  BY DEF CanLand, Over, TypeInv, ClusterOk, Txs
<1> QED
  BY <1>1, <1>2, <1>3

\* worker.ts:3-5, 198-202: wherever the process died and whatever was lost, the bytes
\* of every transaction the cluster may have are in the store, and while one of an
\* event can land, the event is not up for another attempt.
THEOREM NothingIsForgotten ==
  ASSUME OneWorker
  PROVE  (Spec => []NothingUnaccounted) /\ (FairSpec => []NothingUnaccounted)
<1>1. IInv /\ BookInv => NothingUnaccounted
  BY BookedTransactions DEF IInv
<1> QED
  BY <1>1, AloneAlways, PTL

-----------------------------------------------------------------------------
(* Verdicts                                                                *)

\* What PaymentPromise sees: the finalized settlements, the requests and the verdicts.
Settled == [n \in Namespaces |-> [e \in Events |->
              IF record[n][e] # NoRecord /\ record[n][e].height <= finalized
              THEN record[n][e].content ELSE "none"]]

Asked == [e \in Events |-> {attempts[e][k].config.rate : k \in 1..Len(attempts[e])}]

Verdict == [e \in Events |-> IF status[e] \in Decided THEN status[e] ELSE "open"]

\* The worker writes the status of an open event, with what it knows of the chain.
Passes(e, s) ==
  /\ status[e] \in {"pending", "in_flight"} /\ Set(e, s)
  /\ s \in {"pending", "in_flight", "needs_attention", "incident", "paid"}
  /\ s = "incident" =>
       \E n \in Namespaces : Settled[n][e] \in Contents \ (Asked[e] \cup {"inner"})
  /\ s = "paid" => \E n \in Namespaces : Settled[n][e] \in Rates

\* The evidence a provider showed, as the chain has it.
LEMMA EvidenceSettles ==
  ASSUME TypeInv, NEW w \in Workers, work[w].pc # "idle", NEW p, CreatorSeen(p, w)
  PROVE  /\ config.namespace \in Namespaces
         /\ Settled[config.namespace][work[w].event] = Creation(w).content
         /\ Creation(w).content \in Contents
<1>1. work[w].event \in Events /\ config.namespace \in Namespaces /\ RecordsOk
  BY OwnEvent DEF TypeInv, ClusterOk, Namespaces
<1>2. Creation(w) # NoRecord /\ Creation(w).height <= finalized
  BY DEF CreatorSeen, ShowsFinal, Shows, Creation
<1>3. Creation(w).content \in Contents
  BY <1>1, <1>2 DEF RecordsOk, Settlements, Creation
<1> QED
  BY <1>1, <1>2, <1>3 DEF Settled, Creation

\* What a worker compares the evidence with is all that was asked for.
LEMMA AllIsCompared ==
  ASSUME TypeInv, BookInv, NEW w \in Workers, work[w].pc \in Recording
  PROVE  Asked[work[w].event] \subseteq Requests(w)
<1> PICK e \in Events : e = work[w].event
  BY OwnEvent DEF Recording
<1>1. Len(work[w].rows) = Len(attempts[e]) /\ RowsOk(w) /\ Len(attempts[e]) \in Nat
      /\ work[w].rows \in Seq(AttemptRow)
  BY Lengths, RowLengths DEF BookInv, AloneOk, RecordingOk, TypeInv, WorkOk, Recording
<1>2. \A k \in 1..Len(attempts[e]) : work[w].rows[k].config = attempts[e][k].config
  BY <1>1 DEF RowsOk
<1>3. Asked[e] = {work[w].rows[k].config.rate : k \in 1..Len(work[w].rows)}
  BY <1>1, <1>2 DEF Asked
<1>4. CASE work[w].rows = <<>>
  BY <1>3, <1>4
<1>5. CASE work[w].rows # <<>>
  BY <1>3, <1>5 DEF Requests
<1> QED
  BY <1>4, <1>5

\* A step of the worker writes the status of an event it holds, or of none.
LEMMA WorkerPasses ==
  ASSUME OneWorker, IInv, BookInv, NEW w \in Workers, WorkerStep(w)
  PROVE  UNCHANGED status \/ \E e \in Events, s \in Statuses : Passes(e, s)
<1>1. TypeInv /\ StoreOk /\ ClusterOk /\ AloneOk(w)
  BY DEF IInv, TypeInv, BookInv
<1>2. work[w].pc # "idle" => work[w].event \in Events /\ status[work[w].event] \in {"pending", "in_flight"}
  BY <1>1, OwnEvent DEF AloneOk, SettlingOk
<1>3. ASSUME work[w].pc # "idle", NEW s \in {"pending", "in_flight", "needs_attention"},
             Set(work[w].event, s)
      PROVE  \E e \in Events, t \in Statuses : Passes(e, t)
  BY <1>2, <1>3 DEF Passes, Statuses, Decided
<1>4. CASE SettleStep(w)
  BY <1>3, <1>4 DEF SettleStep, Select, GiveUp, NoBlockhash, BeginAttempt, CannotBuild, Abandon,
     RecordSigned, Send, SendRefused, store
<1>5. CASE \E e \in Events : Resolve(w, e)
  <2>1. PICK e \in Events : Resolve(w, e)
    BY <1>5
  <2>2. UNCHANGED status \/ (status[e] = "in_flight" /\ Set(e, "needs_attention"))
    BY <2>1 DEF Resolve
  <2> QED
    BY <2>2 DEF Passes, Statuses, Decided
<1>6. CASE SkipRow(w) \/ ReadStatus(w) \/ ReadHeight(w) \/ EndScan(w) \/ RecordFound(w)
  BY <1>6 DEF SkipRow, ReadStatus, ReadHeight, EndScan, RecordFound, store
<1>7. CASE RecordMissing(w) \/ RecordMissingOnSecond(w) \/ Conclude(w)
  BY <1>3, <1>7 DEF RecordMissing, RecordMissingOnSecond, Conclude, NoAttemptLanded
<1>8. ASSUME Unresolved(w), work[w].pc # "idle"
      PROVE  \E e \in Events, t \in Statuses : Passes(e, t)
  BY <1>3, <1>8 DEF Unresolved
<1>9. CASE ReadFails(w) \/ SecondDisagrees(w) \/ CreatorUnclear(w) \/ EvidenceMissing(w)
  <2>1. Unresolved(w) /\ work[w].pc # "idle"
    BY <1>9 DEF ReadFails, SecondDisagrees, CreatorUnclear, EvidenceMissing
  <2> QED
    BY <1>8, <2>1
<1>10. CASE FindCreator(w) \/ Matches(w) \/ ConfirmMatch(w)
  BY <1>10 DEF FindCreator, Matches, ConfirmMatch, store
<1>11. CASE Mismatches(w) \/ ConfirmIncident(w)
  <2>1. UNCHANGED status \/ Set(work[w].event, "incident")
    BY <1>11 DEF Mismatches, ConfirmIncident
  <2>2. ASSUME Set(work[w].event, "incident")
        PROVE  Passes(work[w].event, "incident")
    <3>1. work[w].pc \in Recording /\ work[w].pc # "idle" /\ (\E p : CreatorSeen(p, w))
          /\ Creation(w).content \notin Requests(w) /\ Creation(w).content # "inner"
      <4>1. CASE Mismatches(w)
        BY <1>1, <4>1, OwnEvent DEF Mismatches, Recording, WorkOk
      <4>2. CASE ConfirmIncident(w)
        <5>1. work[w].pc = "compare" /\ CreatorSeen("second", w)
          BY <4>2 DEF ConfirmIncident
        <5> QED
          BY <1>1, <5>1, OwnEvent DEF Recording, WorkOk, AloneOk, RecordingOk
      <4> QED
        BY <1>11, <4>1, <4>2
    <3>2. Asked[work[w].event] \subseteq Requests(w)
      BY <1>1, <3>1, AllIsCompared DEF IInv
    <3>3. \E n \in Namespaces : Settled[n][work[w].event] \in Contents \ (Asked[work[w].event] \cup {"inner"})
      BY <1>1, <3>1, <3>2, EvidenceSettles
    <3> QED
      BY <1>2, <2>2, <3>1, <3>3 DEF Passes
  <2> QED
    BY <1>2, <1>11, <2>1, <2>2 DEF Statuses, Decided, Mismatches, ConfirmIncident
<1>12. CASE RecordPaid(w)
  <2>1. work[w].pc = "rows" /\ CreatorSeen("primary", w) /\ Set(work[w].event, "paid")
    BY <1>12 DEF RecordPaid
  <2>2. Creation(w).content \in Rates
    BY <1>1, <2>1, OwnEvent DEF WorkOk
  <2>3. \E n \in Namespaces : Settled[n][work[w].event] \in Rates
    BY <1>1, <2>1, <2>2, EvidenceSettles
  <2> QED
    BY <1>2, <2>1, <2>3 DEF Passes, Statuses, Decided
<1> QED
  BY <1>4, <1>5, <1>6, <1>7, <1>9, <1>10, <1>11, <1>12 DEF WorkerStep, ResolveStep, RecordStep

\* docs/studio-integration.md, section 7: no fault, crash, retry or new configuration
\* changes a decision; a person's recheck may, and not the decision that an event is paid.
THEOREM DecisionsAreKept ==
  ASSUME OneWorker
  PROVE  (Spec => DecisionsStand) /\ (FairSpec => DecisionsStand)
<1>1. ASSUME IInv, BookInv, [Next \/ CalmDown]_vars, NEW e \in Events,
             status[e] \in Decided, status'[e] # status[e]
      PROVE  status[e] # "paid" /\ \E w \in Workers : Recheck(w, e)
  <2>1. status \in [Events -> Statuses]
    BY <1>1 DEF IInv, TypeInv, StoreOk
  <2>2. ASSUME NEW w \in Workers, WorkerStep(w) PROVE FALSE
    <3>1. PICK f \in Events, s \in Statuses : Passes(f, s)
      BY <1>1, <2>2, WorkerPasses
    <3>2. f = e /\ status[f] \in {"pending", "in_flight"}
      BY <1>1, <2>1, <3>1 DEF Passes, Set
    <3> QED
      BY <1>1, <3>2 DEF Decided
  <2>3. ~ClusterStep /\ ~CalmDown /\ ~UNCHANGED vars
    BY <1>1 DEF ClusterStep, Land, ForeignSettle, Tick, Finalize, CalmDown, store, vars
  <2>4. ASSUME NEW f \in Events, Enqueue(f) PROVE FALSE
    BY <1>1, <2>1, <2>4 DEF Enqueue, Set, Decided
  <2>5. (\A w \in Workers : ~Crash(w)) /\ (\A c \in Configs : ~Reconfigure(c))
    BY <1>1 DEF Crash, Reconfigure, store
  <2>6. PICK w \in Workers, f \in Events : Recheck(w, f)
    <3>1. OperatorStep
      BY <1>1, <2>2, <2>3 DEF Next
    <3> QED
      BY <2>4, <2>5, <3>1 DEF OperatorStep
  <2>7. f = e
    BY <1>1, <2>1, <2>6 DEF Recheck, Set
  <2> QED
    BY <2>6, <2>7 DEF Recheck
<1>2. IInv /\ BookInv /\ [Next \/ CalmDown]_vars =>
        [\A e \in Events : status[e] \in Decided /\ status'[e] # status[e] =>
           status[e] # "paid" /\ \E w \in Workers : Recheck(w, e)]_vars
  BY <1>1
<1>3. [Next]_vars => [Next \/ CalmDown]_vars
  OBVIOUS
<1>4. Spec => DecisionsStand
  BY <1>2, <1>3, AloneAlways, PTL DEF Spec, DecisionsStand
<1>5. FairSpec => DecisionsStand
  BY <1>2, AloneAlways, PTL DEF FairSpec, DecisionsStand
<1> QED
  BY <1>4, <1>5

-----------------------------------------------------------------------------
(* The promise                                                             *)

\* An attempt is written, and no attempt is added.
LEMMA SameNumber ==
  ASSUME StoreOk, NEW e \in Events, NEW k \in 1..Len(attempts[e]), NEW s, SetAttempt(e, k, s)
  PROVE  \A f \in Events : Len(attempts'[f]) = Len(attempts[f])
<1>1. attempts[e] \in Seq(AttemptRow) /\ attempts \in [Events -> Seq(AttemptRow)]
  BY DEF StoreOk, AttemptsOk
<1>2. PICK new : new = [attempts[e] EXCEPT ![k].status = s]
  OBVIOUS
<1>3. attempts'[e] = new /\ \A f \in Events : f # e => attempts'[f] = attempts[f]
  BY <1>1, <1>2 DEF SetAttempt
<1>4. Len(new) = Len(attempts[e])
  BY <1>1, <1>2
<1> QED
  BY <1>3, <1>4

\* The worker adds an attempt of an open event, and nothing else of what was asked for.
LEMMA WorkerAsks ==
  ASSUME IInv, BookInv, NEW w \in Workers, WorkerStep(w)
  PROVE  \/ \A f \in Events : Len(attempts'[f]) = Len(attempts[f])
         \/ /\ \A f \in Events : f # work[w].event => attempts'[f] = attempts[f]
            /\ BeginAttempt(w)
<1>1. TypeInv /\ StoreOk /\ ClusterOk /\ work \in [Workers -> Works] /\ WorkOk(w)
  BY DEF IInv, TypeInv
<1>2. UNCHANGED attempts => \A f \in Events : Len(attempts'[f]) = Len(attempts[f])
  OBVIOUS
<1>3. ASSUME work[w].pc # "idle", NEW k \in 1..Len(attempts[work[w].event]), NEW s,
             SetAttempt(work[w].event, k, s)
      PROVE  \A f \in Events : Len(attempts'[f]) = Len(attempts[f])
  BY <1>1, <1>3, OwnEvent, SameNumber
<1>4. CASE CannotBuild(w) \/ SendRefused(w)
  <2>1. work[w].pc # "idle" /\ work[w].at \in 1..Len(attempts[work[w].event])
    BY <1>1, <1>4 DEF CannotBuild, SendRefused, WorkOk, Settling
  <2> QED
    BY <1>3, <1>4, <2>1 DEF CannotBuild, SendRefused
<1>5. CASE RecordSigned(w)
  <2>1. PICK e : e = work[w].event
    OBVIOUS
  <2>2. PICK k : k = work[w].at
    OBVIOUS
  <2>3. e \in Events /\ k \in 1..Len(attempts[e]) /\ work[w].valid \in Nat \ {0}
    BY <1>1, <1>5, <2>1, <2>2, OwnEvent, RowLengths DEF RecordSigned, WorkOk, Settling
  <2>4. \/ attempts[e][k].status = "prepared" /\ SignRow(e, k, work[w].valid)
        \/ UNCHANGED attempts
    BY <1>5, <2>1, <2>2 DEF RecordSigned, SignRow
  <2>5. CASE attempts[e][k].status = "prepared" /\ SignRow(e, k, work[w].valid)
    BY <1>1, <2>3, <2>5, RowSigned
  <2> QED
    BY <1>2, <2>4, <2>5
<1>6. CASE SkipRow(w) \/ ReadStatus(w)
  <2>1. /\ work[w].pc = "scan" /\ work[w].at <= Len(work[w].rows)
        /\ \/ UNCHANGED attempts
           \/ SetAttempt(work[w].event, work[w].at, "failed")
    BY <1>6 DEF SkipRow, ReadStatus
  <2>2. work[w].at \in 1..Len(work[w].rows)
    BY <1>1, <2>1, RowLengths DEF WorkOk
  <2>3. work[w].at \in 1..Len(attempts[work[w].event])
    BY <1>1, <2>1, <2>2, RowsAreRead
  <2> QED
    BY <1>2, <1>3, <2>1, <2>3
<1>7. CASE RecordMissing(w) \/ RecordMissingOnSecond(w)
  <2> PICK e : e = work[w].event
    OBVIOUS
  <2>1. e \in Events
    BY <1>1, <1>7, OwnEvent DEF RecordMissing, RecordMissingOnSecond
  <2>2. \/ UNCHANGED attempts
        \/ attempts' = [attempts EXCEPT ![e] = [k \in 1..Len(@) |->
             IF @[k].status = "signed" THEN [@[k] EXCEPT !.status = "expired"] ELSE @[k]]]
    BY <1>7 DEF RecordMissing, RecordMissingOnSecond, NoAttemptLanded
  <2> QED
    BY <1>1, <1>2, <2>1, <2>2, RowsExpired
<1>8. CASE RecordPaid(w)
  <2>1. work[w].pc # "idle"
    BY <1>8 DEF RecordPaid
  <2>2. \/ UNCHANGED attempts
        \/ \E k \in 1..Len(work[w].rows) : SetAttempt(work[w].event, k, "landed")
    BY <1>8 DEF RecordPaid
  <2>3. \A k \in 1..Len(work[w].rows) : k \in 1..Len(attempts[work[w].event])
    BY <1>1, <2>1, RowsAreRead
  <2> QED
    BY <1>2, <1>3, <2>1, <2>2, <2>3
<1>9. CASE BeginAttempt(w)
  BY <1>1, <1>9 DEF BeginAttempt, StoreOk, AttemptsOk
<1>10. CASE UNCHANGED attempts
  BY <1>2, <1>10
<1> QED
  BY <1>4, <1>5, <1>6, <1>7, <1>8, <1>9, <1>10
  DEF WorkerStep, SettleStep, ResolveStep, RecordStep, Select, GiveUp, NoBlockhash, Abandon, Send,
      Resolve, ReadHeight, EndScan, RecordFound, Conclude, ReadFails, SecondDisagrees, Unresolved,
      FindCreator, CreatorUnclear, Matches, ConfirmMatch, Mismatches, ConfirmIncident,
      EvidenceMissing, store

\* PaymentPromise's steps, of what it sees.
Settles(n, e, c) ==
  /\ Settled[n][e] = "none" /\ Settled' = [Settled EXCEPT ![n][e] = c]
  /\ UNCHANGED <<Asked, Verdict>>

Asks(e, c) ==
  /\ Verdict[e] = "open" /\ Asked' = [Asked EXCEPT ![e] = @ \cup {c}]
  /\ UNCHANGED <<Settled, Verdict>>

Decides(e, v) ==
  /\ Verdict[e] = "open" /\ Verdict' = [Verdict EXCEPT ![e] = v]
  /\ v = "paid" => \E n \in Namespaces : Settled[n][e] \in Rates
  /\ v = "incident" =>
       \E n \in Namespaces : Settled[n][e] \in Contents \ (Asked[e] \cup {"inner"})
  /\ UNCHANGED <<Settled, Asked>>

Reopens(e) ==
  /\ Verdict[e] \in {"incident", "needs_attention"}
  /\ Verdict' = [Verdict EXCEPT ![e] = "open"]
  /\ UNCHANGED <<Settled, Asked>>

LEMMA PromiseSteps ==
  ASSUME NEW e \in Events
  PROVE  /\ \A n \in Namespaces, c \in Contents : Settles(n, e, c) => Promise!Next
         /\ \A c \in Rates : Asks(e, c) => Promise!Next
         /\ \A v \in {"paid", "incident", "needs_attention"} : Decides(e, v) => Promise!Next
         /\ Reopens(e) => Promise!Next
<1>1. ASSUME NEW n \in Namespaces, NEW c \in Contents, Settles(n, e, c)
      PROVE  Promise!Next
  <2>1. Promise!Settle(n, e, c)
    BY <1>1 DEF Promise!Settle, Settles, Settled, Asked, Verdict
  <2> QED
    BY <2>1 DEF Promise!Next
<1>2. ASSUME NEW c \in Rates, Asks(e, c)
      PROVE  Promise!Next
  <2>1. Promise!Ask(e, c)
    BY <1>2 DEF Promise!Ask, Asks, Settled, Asked, Verdict
  <2> QED
    BY <2>1 DEF Promise!Next
<1>3. ASSUME NEW v \in {"paid", "incident", "needs_attention"}, Decides(e, v)
      PROVE  Promise!Next
  <2>1. Promise!Pass(e, v)
    BY <1>3 DEF Promise!Pass, Decides, Settled, Asked, Verdict
  <2> QED
    BY <2>1 DEF Promise!Next
<1>4. ASSUME Reopens(e)
      PROVE  Promise!Next
  <2>1. Promise!Reopen(e)
    BY <1>4 DEF Promise!Reopen, Reopens, Settled, Asked, Verdict
  <2> QED
    BY <2>1 DEF Promise!Next
<1> QED
  BY <1>1, <1>2, <1>3, <1>4

LEMMA PromiseStutters ==
  ASSUME UNCHANGED <<Settled, Asked, Verdict>>
  PROVE  UNCHANGED Promise!vars
  BY DEF Promise!vars, Settled, Asked, Verdict

\* A record is made in a block that is not final yet.
LEMMA SettledStays ==
  ASSUME ClusterOk, ChainGrows, UNCHANGED finalized,
         \A n \in Namespaces, e \in Events : record[n][e] = NoRecord =>
           record'[n][e] = NoRecord \/ record'[n][e].height = height + 1
  PROVE  UNCHANGED Settled
<1>1. height \in Nat /\ finalized \in Nat /\ finalized <= height
  BY DEF ClusterOk
<1>2. ASSUME NEW n \in Namespaces, NEW e \in Events
      PROVE  (record'[n][e] # NoRecord /\ record'[n][e].height <= finalized')
               <=> (record[n][e] # NoRecord /\ record[n][e].height <= finalized)
  <2>1. CASE record[n][e] # NoRecord
    BY <2>1 DEF ChainGrows
  <2>2. CASE record[n][e] = NoRecord /\ record'[n][e] # NoRecord
    <3>1. ~(record'[n][e].height <= finalized)
      BY <1>1, <2>2
    <3> QED
      BY <2>2, <3>1
  <2> QED
    BY <2>1, <2>2
<1>3. \A n \in Namespaces, e \in Events : record[n][e] # NoRecord => record'[n][e] = record[n][e]
  BY DEF ChainGrows
<1> QED
  BY <1>2, <1>3 DEF Settled

LEMMA AskedStays ==
  ASSUME StoreOk, RowsGrow, \A f \in Events : Len(attempts'[f]) = Len(attempts[f])
  PROVE  UNCHANGED Asked
<1>1. \A f \in Events : \A k \in 1..Len(attempts[f]) : attempts'[f][k].config = attempts[f][k].config
  BY DEF RowsGrow
<1>2. \A f \in Events : {attempts'[f][k].config.rate : k \in 1..Len(attempts'[f])}
                        = {attempts[f][k].config.rate : k \in 1..Len(attempts[f])}
  BY <1>1
<1> QED
  BY <1>2 DEF Asked

\* A status that is written is a verdict, or leaves the event open.
LEMMA VerdictSet ==
  ASSUME StoreOk, NEW e \in Events, NEW s, Set(e, s)
  PROVE  /\ s \in Decided => Verdict' = [Verdict EXCEPT ![e] = s]
         /\ s \notin Decided => Verdict' = [Verdict EXCEPT ![e] = "open"]
         /\ status[e] \notin Decided => Verdict[e] = "open"
         /\ status[e] \in Decided => Verdict[e] = status[e]
         /\ s \notin Decided /\ status[e] \notin Decided => UNCHANGED Verdict
<1>1. status \in [Events -> Statuses] /\ status' = [status EXCEPT ![e] = s]
  BY DEF StoreOk, Set
<1>2. s \in Decided => Verdict' = [Verdict EXCEPT ![e] = s]
  BY <1>1 DEF Verdict
<1>3. s \notin Decided => Verdict' = [Verdict EXCEPT ![e] = "open"]
  BY <1>1 DEF Verdict
<1>4. s \notin Decided /\ status[e] \notin Decided => UNCHANGED Verdict
  BY <1>1 DEF Verdict
<1> QED
  BY <1>2, <1>3, <1>4 DEF Verdict

LEMMA WorkerKeepsPromise ==
  ASSUME OneWorker, IInv, BookInv, Kept, NEW w \in Workers, WorkerStep(w)
  PROVE  Promise!Next \/ UNCHANGED Promise!vars
<1>1. TypeInv /\ StoreOk /\ ClusterOk /\ ChainGrows /\ RowsGrow
  BY DEF IInv, TypeInv, Kept
<1>2. UNCHANGED Settled
  <2>1. UNCHANGED <<record, finalized>>
    BY DEF WorkerStep, SettleStep, ResolveStep, RecordStep, Select, GiveUp, NoBlockhash,
       BeginAttempt, CannotBuild, Abandon, RecordSigned, Send, SendRefused, Resolve, SkipRow,
       ReadStatus, ReadHeight, EndScan, RecordFound, RecordMissing, RecordMissingOnSecond,
       Conclude, ReadFails, SecondDisagrees, Unresolved, FindCreator, CreatorUnclear, Matches,
       ConfirmMatch, RecordPaid, Mismatches, ConfirmIncident, EvidenceMissing, cluster
  <2> QED
    BY <1>1, <2>1, SettledStays
<1>3. CASE BeginAttempt(w) /\ ~UNCHANGED attempts
  <2> PICK e \in Events : e = work[w].event
    BY <1>1, <1>3, OwnEvent DEF BeginAttempt
  <2>1. /\ status[e] = "pending" /\ Set(e, "in_flight")
        /\ attempts' = [attempts EXCEPT ![e] =
             Append(@, [status |-> "prepared", config |-> config, valid |-> 0])]
    BY <1>3 DEF BeginAttempt
  <2>2. PICK row : row = [status |-> "prepared", config |-> config, valid |-> 0]
    OBVIOUS
  <2>3. AddRow(e, row)
    BY <2>1, <2>2 DEF AddRow
  <2>4. /\ \A f \in Events : f # e => attempts'[f] = attempts[f]
        /\ Len(attempts'[e]) = Len(attempts[e]) + 1
        /\ attempts'[e][Len(attempts[e]) + 1] = row
        /\ \A j \in 1..Len(attempts[e]) : attempts'[e][j] = attempts[e][j]
    BY <1>1, <2>2, <2>3, RowAdded
  <2>5. Len(attempts[e]) \in Nat /\ row.config = config /\ config.rate \in Rates
    BY <1>1, <2>2, Lengths DEF ClusterOk, Rates
  <2>6. Asked'[e] = Asked[e] \cup {config.rate}
    <3>1. \A k : k \in 1..Len(attempts'[e]) <=> k \in 1..Len(attempts[e]) \/ k = Len(attempts[e]) + 1
      BY <2>4, <2>5
    <3>2. {attempts'[e][k].config.rate : k \in 1..Len(attempts'[e])}
          = {attempts[e][k].config.rate : k \in 1..Len(attempts[e])} \cup {config.rate}
      <4>1. attempts'[e][Len(attempts[e]) + 1].config.rate = config.rate
        BY <2>4, <2>5
      <4>2. \A k \in 1..Len(attempts[e]) : attempts'[e][k].config.rate = attempts[e][k].config.rate
        BY <2>4
      <4> DEFINE new == {attempts'[e][k].config.rate : k \in 1..Len(attempts'[e])}
                 old == {attempts[e][k].config.rate : k \in 1..Len(attempts[e])}
      <4>3. config.rate \in new
        BY <2>5, <3>1, <4>1
      <4>4. \A k \in 1..Len(attempts[e]) : attempts[e][k].config.rate \in new
        BY <3>1, <4>2
      <4>5. ASSUME NEW k \in 1..Len(attempts'[e])
            PROVE  attempts'[e][k].config.rate \in old \cup {config.rate}
        BY <3>1, <4>1, <4>2
      <4>6. new \subseteq old \cup {config.rate} /\ old \subseteq new
        BY <4>4, <4>5, ZenonT(60)
      <4> QED
        BY <4>3, <4>6
    <3> QED
      BY <3>2 DEF Asked
  <2>7. Asked' = [Asked EXCEPT ![e] = @ \cup {config.rate}]
    <3>1. \A f \in Events : f # e => Asked'[f] = Asked[f]
      BY <2>4 DEF Asked
    <3>2. Asked = [f \in Events |-> Asked[f]] /\ Asked' = [f \in Events |-> Asked'[f]]
      BY DEF Asked
    <3> QED
      BY <2>6, <3>1, <3>2
  <2>8. Verdict[e] = "open" /\ UNCHANGED Verdict
    BY <1>1, <2>1, VerdictSet DEF Decided
  <2> QED
    BY <1>2, <2>5, <2>7, <2>8, PromiseSteps DEF Asks
<1>4. CASE \A f \in Events : Len(attempts'[f]) = Len(attempts[f])
  <2>1. UNCHANGED Asked
    BY <1>1, <1>4, AskedStays
  <2>2. CASE UNCHANGED status
    BY <1>2, <2>1, <2>2, PromiseStutters DEF Verdict
  <2>3. ASSUME NEW e \in Events, NEW s \in Statuses, Passes(e, s)
        PROVE  Promise!Next \/ UNCHANGED Promise!vars
    <3>1. Set(e, s) /\ status[e] \notin Decided
          /\ s \in {"pending", "in_flight", "needs_attention", "incident", "paid"}
      BY <2>3 DEF Passes, Decided
    <3>2. CASE s \in Decided
      <4>1. Verdict[e] = "open" /\ Verdict' = [Verdict EXCEPT ![e] = s]
        BY <1>1, <3>1, <3>2, VerdictSet
      <4>2. /\ s = "paid" => \E n \in Namespaces : Settled[n][e] \in Rates
            /\ s = "incident" =>
                 \E n \in Namespaces : Settled[n][e] \in Contents \ (Asked[e] \cup {"inner"})
        BY <2>3 DEF Passes
      <4> QED
        BY <1>2, <2>1, <3>2, <4>1, <4>2, PromiseSteps DEF Decides, Decided
    <3>3. CASE s \notin Decided
      BY <1>1, <1>2, <2>1, <3>1, <3>3, VerdictSet, PromiseStutters
    <3> QED
      BY <3>2, <3>3
  <2> QED
    BY <2>2, <2>3, WorkerPasses
<1> QED
  BY <1>3, <1>4, WorkerAsks

\* The cluster settles, and finalizes one record at a time.
LEMMA ClusterKeepsPromise ==
  ASSUME IInv, BookInv, Kept, ClusterStep
  PROVE  Promise!Next \/ UNCHANGED Promise!vars
<1>1. TypeInv /\ ClusterOk /\ RecordsOk /\ ChainGrows /\ ChainOk
  BY DEF IInv, TypeInv, Kept, BookInv
<1>2. UNCHANGED <<status, attempts>>
  BY DEF ClusterStep, Land, ForeignSettle, Tick, Finalize, store
<1>3. UNCHANGED <<Asked, Verdict>>
  BY <1>2 DEF Asked, Verdict
<1>4. CASE UNCHANGED finalized
  <2>1. ASSUME NEW n \in Namespaces, NEW e \in Events, record[n][e] = NoRecord
        PROVE  record'[n][e] = NoRecord \/ record'[n][e].height = height + 1
    <3>1. CASE UNCHANGED record
      BY <2>1, <3>1
    <3>2. ASSUME NEW m, NEW f, NEW r, r.height = height + 1, record' = [record EXCEPT ![m][f] = r]
          PROVE  record'[n][e] = NoRecord \/ record'[n][e].height = height + 1
      BY <1>1, <2>1, <3>2 DEF RecordsOk
    <3>3. UNCHANGED record \/ \E m, f, r : r.height = height + 1 /\ record' = [record EXCEPT ![m][f] = r]
      <4>1. CASE \E tx \in sent : Land(tx)
        BY <4>1 DEF Land
      <4>2. CASE \E f \in Events, c \in Foreign : ForeignSettle(c.namespace, f, c.content)
        BY <4>2 DEF ForeignSettle
      <4> QED
        BY <4>1, <4>2 DEF ClusterStep, Tick, Finalize
    <3> QED
      BY <3>1, <3>2, <3>3
  <2>2. UNCHANGED Settled
    BY <1>1, <1>4, <2>1, SettledStays
  <2> QED
    BY <1>3, <2>2, PromiseStutters
<1>5. CASE ~UNCHANGED finalized
  <2>1. Finalize /\ finalized' = finalized + 1 /\ UNCHANGED record /\ finalized \in Nat
    BY <1>1, <1>5 DEF ClusterStep, Land, ForeignSettle, Tick, Finalize, ClusterOk
  <2>2. \A n \in Namespaces, e \in Events : record[n][e] # NoRecord =>
          record[n][e].height \in Nat /\ record[n][e].content \in Contents
    BY <1>1 DEF RecordsOk, Settlements
  <2>3. CASE \E n \in Namespaces, e \in Events :
               record[n][e] # NoRecord /\ record[n][e].height = finalized + 1
    <3>1. PICK n \in Namespaces, e \in Events :
                 record[n][e] # NoRecord /\ record[n][e].height = finalized + 1
      BY <2>3
    <3>2. ASSUME NEW m \in Namespaces, NEW f \in Events, m # n \/ f # e
          PROVE  (record[m][f] # NoRecord /\ record[m][f].height <= finalized + 1)
                   <=> (record[m][f] # NoRecord /\ record[m][f].height <= finalized)
      <4>1. record[m][f] # NoRecord => record[m][f].height # finalized + 1
        BY <1>1, <3>1, <3>2 DEF ChainOk
      <4> QED
        BY <2>1, <2>2, <4>1
    <3>3. \A m \in Namespaces, f \in Events : m # n \/ f # e => Settled'[m][f] = Settled[m][f]
      BY <2>1, <3>2 DEF Settled
    <3>4. Settled[n][e] = "none" /\ Settled'[n][e] = record[n][e].content
      BY <2>1, <3>1 DEF Settled
    <3>5. /\ Settled = [m \in Namespaces |-> [f \in Events |-> Settled[m][f]]]
          /\ Settled' = [m \in Namespaces |-> [f \in Events |-> Settled'[m][f]]]
      BY DEF Settled
    <3>6. Settled' = [Settled EXCEPT ![n][e] = record[n][e].content]
      BY <3>3, <3>4, <3>5
    <3> QED
      BY <1>3, <2>2, <3>1, <3>4, <3>6, PromiseSteps DEF Settles
  <2>4. CASE ~\E n \in Namespaces, e \in Events :
               record[n][e] # NoRecord /\ record[n][e].height = finalized + 1
    <3>1. ASSUME NEW m \in Namespaces, NEW f \in Events
          PROVE  (record[m][f] # NoRecord /\ record[m][f].height <= finalized + 1)
                   <=> (record[m][f] # NoRecord /\ record[m][f].height <= finalized)
      BY <2>1, <2>2, <2>4
    <3>2. UNCHANGED Settled
      BY <2>1, <3>1 DEF Settled
    <3> QED
      BY <1>3, <3>2, PromiseStutters
  <2> QED
    BY <2>3, <2>4
<1> QED
  BY <1>4, <1>5

LEMMA OperatorKeepsPromise ==
  ASSUME IInv, Kept, OperatorStep \/ CalmDown \/ UNCHANGED vars
  PROVE  Promise!Next \/ UNCHANGED Promise!vars
<1>1. TypeInv /\ StoreOk /\ ClusterOk /\ ChainGrows
  BY DEF IInv, TypeInv, Kept
<1>2. UNCHANGED <<record, finalized, attempts>>
  BY DEF OperatorStep, Enqueue, Crash, Recheck, Reconfigure, CalmDown, vars, cluster, store
<1>3. UNCHANGED <<Settled, Asked>>
  BY <1>2 DEF Settled, Asked
<1>4. CASE UNCHANGED status
  BY <1>3, <1>4, PromiseStutters DEF Verdict
<1>5. ASSUME NEW e \in Events, Enqueue(e)
      PROVE  UNCHANGED Promise!vars
  <2>1. UNCHANGED Verdict
    BY <1>1, <1>5, VerdictSet DEF Enqueue, Decided
  <2> QED
    BY <1>3, <2>1, PromiseStutters
<1>6. ASSUME NEW w \in Workers, NEW e \in Events, Recheck(w, e)
      PROVE  Promise!Next \/ UNCHANGED Promise!vars
  <2>1. Set(e, "in_flight") /\ status[e] # "paid" /\ "in_flight" \notin Decided
    BY <1>6 DEF Recheck, Decided
  <2>2. CASE status[e] \in Decided
    <3>1. Verdict' = [Verdict EXCEPT ![e] = "open"] /\ Verdict[e] \in {"incident", "needs_attention"}
      BY <1>1, <2>1, <2>2, VerdictSet DEF Decided
    <3> QED
      BY <1>3, <3>1, PromiseSteps DEF Reopens
  <2>3. CASE status[e] \notin Decided
    BY <1>1, <1>3, <2>1, <2>3, VerdictSet, PromiseStutters
  <2> QED
    BY <2>2, <2>3
<1>7. UNCHANGED status \/ (\E e \in Events : Enqueue(e)) \/ \E w \in Workers, e \in Events : Recheck(w, e)
  BY DEF OperatorStep, Crash, Reconfigure, CalmDown, vars, store
<1> QED
  BY <1>4, <1>5, <1>6, <1>7

\* worker.ts: whatever crashes, is lost, lags or is asked again, the worker's verdicts are
\* those PaymentPromise allows: "paid" only on a finalized settlement some request asked
\* for, and for good; "incident" only on one that no request of the event asked for.
THEOREM PromiseIsKept ==
  ASSUME OneWorker
  PROVE  (Spec => ImplementsPromise) /\ (FairSpec => ImplementsPromise)
<1>1. Init => Promise!Init
  <2> SUFFICES ASSUME Init PROVE Promise!Init
    OBVIOUS
  <2>1. Settled = [n \in Namespaces |-> [e \in Events |-> "none"]]
    BY DEF Init, Settled
  <2>2. Asked = [e \in Events |-> {}]
    BY DEF Init, Asked
  <2>3. Verdict = [e \in Events |-> "open"]
    BY DEF Init, Verdict, Decided
  <2> QED
    BY <2>1, <2>2, <2>3 DEF Promise!Init, Settled, Asked, Verdict
<1>2. IInv /\ BookInv /\ [Next \/ CalmDown]_vars => [Promise!Next]_(Promise!vars)
  <2> SUFFICES ASSUME IInv, BookInv, [Next \/ CalmDown]_vars
               PROVE  Promise!Next \/ UNCHANGED Promise!vars
    OBVIOUS
  <2>1. Kept
    BY NextKeeps
  <2> QED
    BY <2>1, WorkerKeepsPromise, ClusterKeepsPromise, OperatorKeepsPromise DEF Next
<1>3. [Next]_vars => [Next \/ CalmDown]_vars
  OBVIOUS
<1>4. Spec => ImplementsPromise
  BY <1>1, <1>2, <1>3, AloneAlways, PTL DEF Spec, ImplementsPromise, Promise!Spec
<1>5. FairSpec => ImplementsPromise
  BY <1>1, <1>2, AloneAlways, PTL DEF FairSpec, ImplementsPromise, Promise!Spec
<1> QED
  BY <1>4, <1>5

-----------------------------------------------------------------------------
(***************************************************************************)
(* What one worker guarantees when the answers of a provider can be relied *)
(* on: the primary never goes back to an older block, or there is a second *)
(* one that is current. An event is then put back in the queue only when   *)
(* none of its attempts landed, and paid once.                             *)
(***************************************************************************)
\* In every way the providers may lag, one of them can be relied on.
Reliable ==
  \A d \in Disciplines : d["primary"] # "erratic" \/ (HasSecond /\ d["second"] = "current")

-----------------------------------------------------------------------------
(* The invariant with a provider to rely on                                *)

OnlyForward(p) == served[p].lag # "erratic"

\* No answer of a provider that only goes forward is from before this block.
Known(p) ==
  IF calm \/ served[p].lag = "current" THEN height
  ELSE IF served[p].lag = "monotone" THEN served[p].height
  ELSE 1

Paid(e) == {l \in landed : l.tx.event = e /\ l.ok}

\* Of an event: it is not up for an attempt when it is settled; what settled it is
\* the one attempt that is still signed, until the event is paid in the ledger.
PaidOk(e) ==
  /\ status[e] \in {"absent", "pending"} => Paid(e) = {}
  /\ \A l, m \in Paid(e) : l = m
  /\ \A l \in Paid(e) :
       /\ \A k \in Signed(e) : Tx(e, attempts[e][k]) = l.tx
       /\ status[e] # "paid" => Signed(e) # {}

\* The landings of the attempts a scan has looked at are in blocks that no later
\* answer is from before of.
SeenUpTo(w, n) ==
  \A k \in 1..n : work[w].rows[k].status = "signed" =>
    \A l \in landed : l.tx = Tx(work[w].event, work[w].rows[k]) => l.height <= Known("primary")

KnowsOk(w) ==
  LET pc == work[w].pc
  IN /\ pc \in Settling \cup {"conclude"} => Paid(work[w].event) = {}
     /\ OnlyForward("primary") =>
          /\ pc \in {"scan", "height"} =>
               /\ work[w].tip <= Known("primary")
               /\ ~work[w].waiting => SeenUpTo(w, work[w].at - 1)
          /\ pc \in {"record", "record2"} => SeenUpTo(w, Len(work[w].rows))
          /\ pc = "record2" => Paid(work[w].event) = {}

PaidInv == (\A e \in Events : PaidOk(e)) /\ (\A w \in Workers : KnowsOk(w))

-----------------------------------------------------------------------------
(* What a provider is known to have                                        *)

LEMMA KnownInHeight ==
  ASSUME TypeInv
  PROVE  Known("primary") \in Nat /\ 1 <= Known("primary") /\ Known("primary") <= height
<1>1. /\ served["primary"].height \in Nat /\ 1 <= served["primary"].height
      /\ served["primary"].height <= height /\ height \in Nat /\ 1 <= height
  BY PrimaryIsProvider DEF TypeInv, ServedOk, ClusterOk
<1> QED
  BY <1>1 DEF Known

\* It has no less while blocks are added and nothing is asked.
LEMMA KnownStays ==
  ASSUME TypeInv, TypeInv', UNCHANGED served, height' >= height, calm => calm'
  PROVE  Known("primary")' >= Known("primary") /\ (OnlyForward("primary")' <=> OnlyForward("primary"))
<1>1. /\ served["primary"].height \in Nat /\ served["primary"].height <= height
      /\ height \in Nat /\ height' \in Nat /\ 1 <= height /\ 1 <= served["primary"].height
  BY PrimaryIsProvider DEF TypeInv, ServedOk, ClusterOk
<1>2. Known("primary")' >= Known("primary")
  <2>1. CASE calm'
    BY <1>1, <2>1 DEF Known
  <2>2. CASE ~calm' /\ ~calm
    BY <1>1, <2>2 DEF Known
  <2> QED
    BY <2>1, <2>2
<1> QED
  BY <1>2 DEF OnlyForward

\* An answer is from what it is known to have, or later, and then it is known to have that.
LEMMA KnownAnswers ==
  ASSUME TypeInv, NEW v, Answers("primary", v), UNCHANGED <<height, calm>>
  PROVE  /\ OnlyForward("primary")' <=> OnlyForward("primary")
         /\ OnlyForward("primary") =>
              v \in Nat /\ Known("primary") <= v /\ Known("primary")' = v /\ v <= height
<1> DEFINE lag == served["primary"].lag
<1>1. /\ "primary" \in Providers /\ ServedOk /\ ClusterOk
      /\ lag \in {"current", "monotone", "erratic"}
      /\ served["primary"].height \in Nat /\ height \in Nat
  BY PrimaryIsProvider DEF TypeInv, ServedOk, ClusterOk
<1>2. v \in Views("primary")
  BY DEF Answers
<1>3. v \in Nat /\ 1 <= v /\ v <= height
  BY <1>1, <1>2, ViewsInHeight
<1>4. PICK h : h = IF lag = "monotone" THEN v ELSE 1
  OBVIOUS
<1>5. served' = [served EXCEPT !["primary"].height = h]
  BY <1>4 DEF Answers
<1>6. served'["primary"].lag = lag /\ served'["primary"].height = h
  BY <1>1, <1>5 DEF ServedOk
<1>7. ASSUME OnlyForward("primary")
      PROVE  Known("primary") <= v /\ Known("primary")' = v
  <2>1. CASE calm
    BY <1>1, <1>2, <1>3, <2>1 DEF Views, Known
  <2>2. CASE ~calm /\ lag = "current"
    <3>1. v = height
      BY <1>2, <2>2 DEF Views
    <3> QED
      BY <1>1, <1>6, <2>2, <3>1 DEF Known
  <2>3. CASE ~calm /\ lag = "monotone"
    <3>1. v \in served["primary"].height..height
      BY <1>2, <2>3 DEF Views
    <3> QED
      BY <1>1, <1>3, <1>4, <1>6, <2>3, <3>1 DEF Known
  <2> QED
    BY <1>1, <1>7, <2>1, <2>2, <2>3 DEF OnlyForward
<1> QED
  BY <1>3, <1>6, <1>7 DEF OnlyForward

LEMMA OneIsReliable ==
  ASSUME TypeInv, Reliable
  PROVE  OnlyForward("primary") \/ (HasSecond /\ served["second"].lag = "current")
<1>1. PICK d \in Disciplines : \A p \in Providers : served[p].lag = d[p]
  BY DEF TypeInv, ServedOk
<1> QED
  BY <1>1, PrimaryIsProvider DEF Reliable, OnlyForward

-----------------------------------------------------------------------------
(* What every step keeps                                                   *)

\* Where nothing has landed for an event, nothing has in the next state.
LEMMA UnpaidStays ==
  ASSUME UNCHANGED landed, NEW e
  PROVE  /\ Paid(e)' = Paid(e)
         /\ Paid(e) = {} => PaidOk(e)'
  BY DEF Paid, PaidOk

LEMMA EventUntouched ==
  ASSUME UNCHANGED landed, NEW e, PaidOk(e), attempts'[e] = attempts[e], status'[e] = status[e]
  PROVE  PaidOk(e)'
  BY DEF Paid, PaidOk, Signed

\* An event whose signed attempts stay, or that is paid.
LEMMA EventPaid ==
  ASSUME TypeInv, RowsGrow, UNCHANGED landed, NEW e \in Events, PaidOk(e),
         Signed(e)' \subseteq Signed(e),
         status'[e] = "paid" \/ (Signed(e)' = Signed(e) /\ status[e] # "paid"),
         status'[e] \notin {"absent", "pending"}
  PROVE  PaidOk(e)'
<1>1. \A k \in Signed(e) : k \in 1..Len(attempts[e]) /\ attempts[e][k].valid # 0
  <2>1. \A k \in 1..Len(attempts[e]) : RowOk(attempts[e][k])
    BY DEF TypeInv, StoreOk, AttemptsOk
  <2> QED
    BY <2>1 DEF Signed, RowOk
<1>2. \A k \in Signed(e)' : Tx(e, attempts'[e][k]) = Tx(e, attempts[e][k])
  BY <1>1 DEF RowsGrow, Tx
<1>3. Paid(e)' = Paid(e)
  BY DEF Paid
<1>4. \A l \in Paid(e) : \A k \in Signed(e)' : Tx(e, attempts'[e][k]) = l.tx
  BY <1>2 DEF PaidOk
<1>5. \A l \in Paid(e) : status'[e] # "paid" => Signed(e)' # {}
  BY DEF PaidOk
<1>6. \A l, m \in Paid(e) : l = m
  BY DEF PaidOk
<1> QED
  BY <1>3, <1>4, <1>5, <1>6 DEF PaidOk

\* What was seen was seen.
LEMMA SeenStays ==
  ASSUME TypeInv, TypeInv', NEW w \in Workers, NEW n, SeenUpTo(w, n), UNCHANGED landed,
         work'[w].rows = work[w].rows, work'[w].event = work[w].event,
         Known("primary")' >= Known("primary")
  PROVE  SeenUpTo(w, n)'
<1>1. Known("primary") \in Nat /\ Known("primary")' \in Nat
  <2>1. served'["primary"].height \in Nat /\ height' \in Nat
    BY PrimaryIsProvider DEF TypeInv, ServedOk, ClusterOk
  <2>2. Known("primary")' \in Nat
    BY <2>1 DEF Known
  <2> QED
    BY <2>2, KnownInHeight
<1>2. \A l \in landed : l.height \in Nat
  BY DEF TypeInv, ClusterOk
<1> QED
  BY <1>1, <1>2 DEF SeenUpTo, Tx

LEMMA PaidStep ==
  ASSUME OneWorker, PaidInv, UNCHANGED landed, NEW e,
         \A f \in Events : f # e => attempts'[f] = attempts[f] /\ status'[f] = status[f],
         e \in Events => PaidOk(e)', NEW w \in Workers, KnowsOk(w)'
  PROVE  PaidInv'
<1>1. \A f \in Events : PaidOk(f)'
  <2> TAKE f \in Events
  <2>1. CASE f = e
    BY <2>1
  <2>2. CASE f # e
    BY <2>2, EventUntouched DEF PaidInv
  <2> QED
    BY <2>1, <2>2
<1>2. \A u \in Workers : u = w
  BY DEF OneWorker
<1>3. \A u \in Workers : KnowsOk(u)'
  BY <1>2
<1> QED
  BY <1>1, <1>3 DEF PaidInv

\* The steps of a worker write its event, and the chain is not theirs to write.
LEMMA OwnEventOnly ==
  ASSUME IInv, NEW w \in Workers, WorkerStep(w), work[w].pc # "idle"
  PROVE  /\ UNCHANGED <<height, finalized, landed, record, calm>>
         /\ \A f \in Events : f # work[w].event => attempts'[f] = attempts[f] /\ status'[f] = status[f]
<1> PICK e \in Events : e = work[w].event
  BY OwnEvent DEF IInv
<1>1. status \in [Events -> Statuses] /\ attempts \in [Events -> Seq(AttemptRow)]
  BY DEF IInv, TypeInv, StoreOk, AttemptsOk
<1>2. \A k, s : SetAttempt(e, k, s) => \A f \in Events : f # e => attempts'[f] = attempts[f]
  BY <1>1 DEF SetAttempt
<1>3. \A s : Set(e, s) => \A f \in Events : f # e => status'[f] = status[f]
  BY <1>1 DEF Set
<1>4. CASE SettleStep(w)
  <2>1. UNCHANGED <<height, finalized, landed, record, calm>>
    BY <1>4 DEF SettleStep, Select, GiveUp, NoBlockhash, BeginAttempt, CannotBuild, Abandon,
       RecordSigned, Send, SendRefused, cluster
  <2>2. CASE BeginAttempt(w)
    BY <1>1, <2>1, <2>2 DEF BeginAttempt, Set
  <2>3. CASE RecordSigned(w)
    BY <1>1, <2>1, <2>3 DEF RecordSigned
  <2> QED
    BY <1>2, <1>3, <1>4, <2>1, <2>2, <2>3
    DEF SettleStep, Select, GiveUp, NoBlockhash, CannotBuild, Abandon, Send, SendRefused, store
<1>5. CASE ResolveStep(w)
  <2>1. UNCHANGED <<height, finalized, landed, record, calm>>
    BY <1>5 DEF ResolveStep, Resolve, SkipRow, ReadStatus, ReadHeight, EndScan, RecordFound,
       RecordMissing, RecordMissingOnSecond, Conclude, ReadFails, SecondDisagrees, Unresolved, cluster
  <2>2. CASE \E f \in Events : Resolve(w, f)
    BY <1>3, <2>1, <2>2 DEF Resolve
  <2>3. NoAttemptLanded(w) => \A f \in Events : f # e => attempts'[f] = attempts[f] /\ status'[f] = status[f]
    BY <1>1, <1>3 DEF NoAttemptLanded
  <2>4. CASE SkipRow(w) \/ ReadStatus(w) \/ ReadHeight(w) \/ EndScan(w) \/ RecordFound(w)
    BY <1>2, <2>1, <2>4 DEF SkipRow, ReadStatus, ReadHeight, EndScan, RecordFound, store
  <2>5. CASE RecordMissing(w) \/ RecordMissingOnSecond(w)
    BY <2>1, <2>3, <2>5 DEF RecordMissing, RecordMissingOnSecond
  <2>6. CASE Conclude(w) \/ ReadFails(w) \/ SecondDisagrees(w)
    BY <1>3, <2>1, <2>6 DEF Conclude, ReadFails, SecondDisagrees, Unresolved
  <2> QED
    BY <1>5, <2>2, <2>4, <2>5, <2>6 DEF ResolveStep
<1>6. CASE RecordStep(w)
  <2>1. UNCHANGED <<height, finalized, landed, record, calm>>
    BY <1>6 DEF RecordStep, FindCreator, CreatorUnclear, Matches, ConfirmMatch, RecordPaid,
       Mismatches, ConfirmIncident, EvidenceMissing, Unresolved, cluster
  <2> QED
    BY <1>2, <1>3, <1>6, <2>1
    DEF RecordStep, FindCreator, CreatorUnclear, Matches, ConfirmMatch, RecordPaid,
        Mismatches, ConfirmIncident, EvidenceMissing, Unresolved, store
<1> QED
  BY <1>4, <1>5, <1>6 DEF WorkerStep

-----------------------------------------------------------------------------
(* Steps that find nothing landed for the event                            *)

\* While the worker makes an attempt, or after it has found that none landed.
LEMMA UnpaidPaid ==
  ASSUME OneWorker, IInv, BookInv, PaidInv, NEW w \in Workers, WorkerStep(w),
         work[w].pc \in Settling \cup {"conclude"}
  PROVE  PaidInv'
<1> PICK e : e = work[w].event
  OBVIOUS
<1>1. work \in [Workers -> Works] /\ work[w].pc # "idle" /\ Paid(e) = {}
  BY DEF IInv, TypeInv, PaidInv, KnowsOk, Settling
<1>2. \/ work'[w].pc = "idle"
      \/ work'[w].pc \in Settling \cup {"resolve"} /\ work'[w].event = e
  <2>1. Rest(w) => work'[w].pc = "idle"
    BY <1>1, RestWork DEF Idle
  <2>2. \A pc \in Settling \cup {"resolve"} : Goto(w, pc) => work'[w].pc = pc /\ work'[w].event = e
    BY <1>1, GotoWork DEF Steps
  <2>3. CASE SettleStep(w)
    <3>1. CASE BeginAttempt(w)
      <4>1. work[w] \in Works
        BY <1>1
      <4>2. \/ Rest(w)
            \/ work' = [work EXCEPT ![w].pc = "sign", ![w].valid = work'[w].valid,
                                    ![w].at = Len(attempts[e]) + 1]
        <5>1. \A v \in Views("primary") :
                work' = [work EXCEPT ![w].pc = "sign", ![w].valid = v + ValidFor,
                                     ![w].at = Len(attempts[e]) + 1]
                  => work'[w].valid = v + ValidFor
          BY <1>1, <4>1 DEF Works
        <5> QED
          BY <3>1, <5>1 DEF BeginAttempt
      <4>3. CASE work' = [work EXCEPT ![w].pc = "sign", ![w].valid = work'[w].valid,
                                      ![w].at = Len(attempts[e]) + 1]
        <5>1. PICK v : v = work'[w].valid
          OBVIOUS
        <5>2. PICK n : n = Len(attempts[e]) + 1
          OBVIOUS
        <5>3. work' = [work EXCEPT ![w].pc = "sign", ![w].valid = v, ![w].at = n]
          BY <4>3, <5>1, <5>2
        <5>4. work'[w].pc = "sign" /\ work'[w].event = e
          BY <1>1, <4>1, <5>3 DEF Works
        <5> QED
          BY <5>4 DEF Settling
      <4> QED
        BY <2>1, <4>2, <4>3
    <3>2. ~\E f \in Events : Select(w, f)
      BY <1>1 DEF Select
    <3> QED
      BY <2>1, <2>2, <2>3, <3>1, <3>2
      DEF SettleStep, GiveUp, NoBlockhash, CannotBuild, Abandon, RecordSigned, Send, SendRefused, Settling
  <2>4. CASE ResolveStep(w)
    <3>1. ~\E f \in Events : Resolve(w, f)
      BY <1>1 DEF Resolve, Settling
    <3>2. ~(SkipRow(w) \/ ReadStatus(w) \/ ReadHeight(w) \/ EndScan(w))
      BY DEF SkipRow, ReadStatus, ReadHeight, EndScan, Settling
    <3>3. CASE RecordFound(w)
      BY <2>2, <3>3 DEF RecordFound, Settling
    <3>4. CASE RecordMissing(w)
      <4>1. work[w].pc = "refused"
        BY <3>4 DEF RecordMissing, Settling
      <4>2. Rest(w) \/ Goto(w, "refused2")
        BY <3>4, <4>1 DEF RecordMissing, NoAttemptLanded
      <4> QED
        BY <2>1, <2>2, <4>2 DEF Settling
    <3>5. CASE RecordMissingOnSecond(w)
      BY <2>1, <3>5 DEF RecordMissingOnSecond, NoAttemptLanded, Settling
    <3> QED
      BY <2>1, <2>4, <3>1, <3>2, <3>3, <3>4, <3>5
      DEF ResolveStep, Conclude, ReadFails, SecondDisagrees, Unresolved
  <2>5. ~RecordStep(w)
    BY DEF RecordStep, FindCreator, CreatorUnclear, Matches, ConfirmMatch, RecordPaid, Mismatches,
       ConfirmIncident, EvidenceMissing, Settling
  <2> QED
    BY <2>3, <2>4, <2>5 DEF WorkerStep
<1>3. UNCHANGED landed /\ \A f \in Events : f # e => attempts'[f] = attempts[f] /\ status'[f] = status[f]
  BY <1>1, OwnEventOnly
<1>4. PaidOk(e)' /\ Paid(e)' = {}
  BY <1>1, <1>3, UnpaidStays
<1>5. CASE work'[w].pc = "idle"
  <2>1. KnowsOk(w)'
    BY <1>5 DEF KnowsOk, Settling
  <2> QED
    BY <1>3, <1>4, <2>1, PaidStep
<1>6. CASE work'[w].pc \in Settling \cup {"resolve"} /\ work'[w].event = e
  <2>1. (Paid(work[w].event) = {})'
    BY <1>4, <1>6 DEF Paid
  <2>2. KnowsOk(w)'
    BY <1>6, <2>1 DEF KnowsOk, Settling
  <2> QED
    BY <1>3, <1>4, <2>2, PaidStep
<1> QED
  BY <1>2, <1>5, <1>6

LEMMA SelectPaid ==
  ASSUME OneWorker, IInv, PaidInv, NEW w \in Workers, NEW e \in Events, Select(w, e)
  PROVE  PaidInv'
<1>1. work[w] \in Works /\ work \in [Workers -> Works]
  BY DEF IInv, TypeInv
<1>2. UNCHANGED <<landed, status, attempts>> /\ status[e] = "pending"
  BY DEF Select, cluster, store
<1>3. work'[w].pc = "settle" /\ work'[w].event = e
  <2>1. PICK n : n = Len(attempts[e])
    OBVIOUS
  <2>2. work' = [work EXCEPT ![w].pc = "settle", ![w].event = e, ![w].count = n]
    BY <2>1 DEF Select
  <2> QED
    BY <1>1, <2>2 DEF Works
<1>4. Paid(e)' = {} /\ PaidOk(e)'
  BY <1>2, UnpaidStays DEF PaidInv, PaidOk
<1>5. KnowsOk(w)'
  BY <1>3, <1>4 DEF KnowsOk
<1> QED
  BY <1>2, <1>4, <1>5, PaidStep

-----------------------------------------------------------------------------
(* The scan                                                                *)

LEMMA ResolvePaid ==
  ASSUME OneWorker, IInv, PaidInv, Kept, NEW w \in Workers, NEW e \in Events, Resolve(w, e)
  PROVE  PaidInv'
<1>1. TypeInv /\ TypeInv' /\ RowsGrow /\ work \in [Workers -> Works] /\ status \in [Events -> Statuses]
      /\ 0 <= Known("primary")'
  <2>1. Known("primary")' >= Known("primary") /\ Known("primary") >= 1 /\ Known("primary") \in Nat
    BY KnownInHeight, KnownStays DEF IInv, TypeInv, Kept, Resolve, cluster, ClusterOk
  <2>2. served'["primary"].height \in Nat /\ height' \in Nat
    BY PrimaryIsProvider DEF Kept, IInv, TypeInv, ServedOk, ClusterOk
  <2>3. Known("primary")' \in Nat
    BY <2>2 DEF Known
  <2> QED
    BY <2>3 DEF Kept, IInv, TypeInv, StoreOk
<1>2. UNCHANGED <<landed, attempts>>
  BY DEF Resolve, cluster
<1>3. (\A f \in Events : f # e => status'[f] = status[f]) /\ PaidOk(e)'
  <2>1. CASE UNCHANGED status
    BY <1>2, <2>1, EventUntouched DEF PaidInv
  <2>2. CASE status[e] = "in_flight" /\ Set(e, "needs_attention")
    <3>1. status'[e] = "needs_attention" /\ \A f \in Events : f # e => status'[f] = status[f]
      BY <1>1, <2>2 DEF Set
    <3>2. Signed(e)' = Signed(e)
      BY <1>2 DEF Signed
    <3> QED
      BY <1>1, <1>2, <2>2, <3>1, <3>2, EventPaid DEF PaidInv
  <2> QED
    BY <2>1, <2>2 DEF Resolve
<1>4. KnowsOk(w)'
  <2>1. CASE Rest(w)
    BY <1>1, <2>1, RestWork DEF KnowsOk, Idle, Settling
  <2>2. ASSUME NEW new, new = [Idle EXCEPT !.pc = "scan", !.event = e, !.count = Len(attempts[e]),
                                           !.rows = attempts[e], !.at = 1],
               work' = [work EXCEPT ![w] = new]
        PROVE  KnowsOk(w)'
    <3>1. work'[w].pc = "scan" /\ work'[w].at = 1 /\ work'[w].tip = 0
      BY <1>1, <2>2 DEF Idle
    <3>2. SeenUpTo(w, 0)'
      BY DEF SeenUpTo
    <3> QED
      BY <1>1, <3>1, <3>2 DEF KnowsOk, Settling
  <2> QED
    BY <2>1, <2>2 DEF Resolve
<1> QED
  BY <1>2, <1>3, <1>4, PaidStep

\* A row is looked at.
LEMMA ScanKnows ==
  ASSUME TypeInv, TypeInv', NEW w \in Workers, KnowsOk(w), work[w].pc \in {"scan", "height"},
         work'[w].pc = "scan", work'[w].at = work[w].at + 1, work'[w].rows = work[w].rows,
         work'[w].event = work[w].event, UNCHANGED landed,
         OnlyForward("primary")' <=> OnlyForward("primary"),
         OnlyForward("primary") =>
           /\ Known("primary")' >= Known("primary") /\ work'[w].tip <= Known("primary")'
           /\ ~work'[w].waiting => ~work[w].waiting
           /\ ~work'[w].waiting /\ Row(w).status = "signed" =>
                \A l \in landed : l.tx = Tx(work[w].event, Row(w)) => l.height <= Known("primary")'
  PROVE  KnowsOk(w)'
<1> PICK n \in Nat : n = work[w].at
  BY RowLengths DEF TypeInv
<1>1. work'[w].at - 1 = n
  OBVIOUS
<1>2. ASSUME OnlyForward("primary"), ~work'[w].waiting
      PROVE  SeenUpTo(w, n)'
  <2>1. PICK m : m = n - 1
    OBVIOUS
  <2>2. SeenUpTo(w, m)
    BY <1>2, <2>1 DEF KnowsOk
  <2>3. SeenUpTo(w, m)'
    BY <1>2, <2>2, SeenStays
  <2>4. Row(w).status = "signed" =>
          \A l \in landed : l.tx = Tx(work[w].event, Row(w)) => l.height <= Known("primary")'
    BY <1>2
  <2> SUFFICES ASSUME NEW k \in 1..n, work'[w].rows[k].status = "signed", NEW l \in landed',
                      l.tx = Tx(work'[w].event, work'[w].rows[k])
               PROVE  l.height <= Known("primary")'
    BY DEF SeenUpTo, Tx
  <2>5. CASE k = n
    BY <2>4, <2>5 DEF Row
  <2>6. CASE k \in 1..m
    BY <2>3, <2>6 DEF SeenUpTo, Tx
  <2> QED
    BY <2>1, <2>5, <2>6
<1>3. (OnlyForward("primary") /\ ~work[w].waiting => SeenUpTo(w, work[w].at - 1))'
  BY <1>1, <1>2 DEF SeenUpTo
<1>4. (OnlyForward("primary") => work[w].tip <= Known("primary"))'
  OBVIOUS
<1> QED
  BY <1>3, <1>4 DEF KnowsOk, Settling

LEMMA NextRowKnows ==
  ASSUME TypeInv, NEW w \in Workers, NEW b \in BOOLEAN, NextRow(w, b)
  PROVE  /\ work'[w].pc = "scan" /\ work'[w].at = work[w].at + 1 /\ work'[w].rows = work[w].rows
         /\ work'[w].event = work[w].event /\ work'[w].tip = work[w].tip
         /\ ~work'[w].waiting => ~work[w].waiting /\ ~b
<1>1. work \in [Workers -> Works] /\ work[w] \in Works
  BY DEF TypeInv
<1>2. PICK c : c = (work[w].waiting \/ b)
  OBVIOUS
<1>3. work' = [work EXCEPT ![w].pc = "scan", ![w].at = @ + 1, ![w].waiting = c]
  BY <1>2 DEF NextRow
<1>4. /\ work'[w].pc = "scan" /\ work'[w].at = work[w].at + 1 /\ work'[w].rows = work[w].rows
      /\ work'[w].event = work[w].event /\ work'[w].tip = work[w].tip /\ work'[w].waiting = c
  BY <1>1, <1>3 DEF Works
<1> QED
  BY <1>2, <1>4

LEMMA SkipPaid ==
  ASSUME OneWorker, IInv, BookInv, PaidInv, Kept, NEW w \in Workers, SkipRow(w)
  PROVE  PaidInv'
<1> PICK e \in Events : e = work[w].event
  BY OwnEvent DEF IInv, SkipRow
<1> PICK k : k = work[w].at
  OBVIOUS
<1>1. /\ TypeInv /\ TypeInv' /\ RowsGrow /\ StoreOk /\ AloneOk(w) /\ KnowsOk(w) /\ PaidOk(e) /\ WorkOk(w)
  BY DEF IInv, Kept, TypeInv, BookInv, PaidInv
<1>2. /\ work[w].pc = "scan" /\ k <= Len(work[w].rows) /\ Row(w).status # "signed"
      /\ UNCHANGED <<cluster, served, calm, status>> /\ NextRow(w, FALSE)
      /\ (Row(w).status = "prepared" /\ SetAttempt(e, k, "failed")) \/ UNCHANGED attempts
  BY DEF SkipRow
<1>3. UNCHANGED <<height, landed>>
  BY <1>2 DEF cluster
<1>4. /\ Len(work[w].rows) = Len(attempts[e]) /\ Len(attempts[e]) \in Nat /\ k \in Nat /\ k > 0
      /\ status[e] = "in_flight"
  BY <1>1, <1>2, Lengths, RowLengths DEF AloneOk, ScanningOk, Scanning, WorkOk, TypeInv
<1>5. k \in 1..Len(attempts[e]) /\ attempts[e][k].status # "signed"
  <2>1. k \in 1..Len(attempts[e])
    BY <1>2, <1>4
  <2>2. \A j \in 1..Len(attempts[e]) : j >= k => work[w].rows[j] = attempts[e][j]
    <3>1. ScanningOk(w)
      BY <1>1 DEF AloneOk
    <3> QED
      BY <1>2, <3>1 DEF ScanningOk
  <2>3. work[w].rows[k] = attempts[e][k]
    BY <1>4, <2>1, <2>2
  <2> QED
    BY <1>2, <2>1, <2>3 DEF Row
<1>6. /\ \A f \in Events : f # e => attempts'[f] = attempts[f]
      /\ Signed(e)' = Signed(e)
  <2>1. CASE UNCHANGED attempts
    BY <2>1 DEF Signed
  <2>2. CASE SetAttempt(e, k, "failed")
    <3>1. /\ \A f \in Events : f # e => attempts'[f] = attempts[f]
          /\ Len(attempts'[e]) = Len(attempts[e]) /\ attempts'[e][k].status = "failed"
          /\ \A j \in 1..Len(attempts[e]) : j # k => attempts'[e][j] = attempts[e][j]
      BY <1>1, <1>5, <2>2, AttemptSet DEF AttemptStatuses
    <3> QED
      BY <1>5, <3>1, SMTT(30) DEF Signed
  <2> QED
    BY <1>2, <2>1, <2>2
<1>7. PaidOk(e)'
  BY <1>1, <1>2, <1>3, <1>4, <1>6, EventPaid
<1>8. /\ Known("primary")' >= Known("primary") /\ (OnlyForward("primary")' <=> OnlyForward("primary"))
      /\ UNCHANGED Known("primary")
  <2>1. height' >= height
    BY <1>1, <1>3 DEF TypeInv, ClusterOk
  <2>2. UNCHANGED Known("primary")
    BY <1>2, <1>3 DEF Known
  <2> QED
    BY <1>1, <1>2, <2>1, <2>2, KnownStays
<1>9. KnowsOk(w)'
  <2>1. /\ work'[w].pc = "scan" /\ work'[w].at = work[w].at + 1 /\ work'[w].rows = work[w].rows
        /\ work'[w].event = work[w].event /\ work'[w].tip = work[w].tip
        /\ ~work'[w].waiting => ~work[w].waiting
    BY <1>1, <1>2, NextRowKnows
  <2>2. OnlyForward("primary") => work'[w].tip <= Known("primary")'
    BY <1>1, <1>2, <1>8, <2>1 DEF KnowsOk
  <2> QED
    BY <1>1, <1>2, <1>3, <1>8, <2>1, <2>2, ScanKnows
<1> QED
  BY <1>2, <1>3, <1>6, <1>7, <1>9, PaidStep

LEMMA StatusPaid ==
  ASSUME OneWorker, IInv, BookInv, PaidInv, Kept, NEW w \in Workers, ReadStatus(w)
  PROVE  PaidInv'
<1> PICK e \in Events : e = work[w].event
  BY OwnEvent DEF IInv, ReadStatus
<1> PICK k : k = work[w].at
  OBVIOUS
<1> PICK tx : tx = Tx(e, Row(w))
  OBVIOUS
<1>1. /\ TypeInv /\ TypeInv' /\ RowsGrow /\ StoreOk /\ AloneOk(w) /\ KnowsOk(w) /\ PaidOk(e) /\ WorkOk(w)
      /\ ChainOk /\ ClusterOk /\ work \in [Workers -> Works]
  BY DEF IInv, Kept, TypeInv, BookInv, PaidInv
<1>2. /\ work[w].pc = "scan" /\ k <= Len(work[w].rows) /\ Row(w).status = "signed"
      /\ UNCHANGED <<cluster, calm, status>>
  BY DEF ReadStatus
<1>3. UNCHANGED <<height, landed>>
  BY <1>2 DEF cluster
<1>4. PICK v \in Views("primary") :
          /\ Answers("primary", v)
          /\ \/ /\ \E l \in landed : l.tx = tx /\ l.height <= v
                /\ NextRow(w, FALSE) /\ UNCHANGED attempts
             \/ /\ \E l \in landed : l.tx = tx /\ l.height <= v /\ ~l.ok
                /\ SetAttempt(e, k, "failed") /\ NextRow(w, FALSE)
             \/ NextRow(w, TRUE) /\ UNCHANGED attempts
             \/ Goto(w, "height") /\ UNCHANGED attempts
  BY DEF ReadStatus
<1>5. /\ OnlyForward("primary")' <=> OnlyForward("primary")
      /\ OnlyForward("primary") => /\ v \in Nat /\ Known("primary") <= v /\ Known("primary")' = v
                                   /\ Known("primary")' >= Known("primary")
  <2>1. Known("primary") \in Nat
    BY <1>1, KnownInHeight
  <2>2. /\ OnlyForward("primary")' <=> OnlyForward("primary")
        /\ OnlyForward("primary") => v \in Nat /\ Known("primary") <= v /\ Known("primary")' = v
    BY <1>1, <1>2, <1>3, <1>4, KnownAnswers
  <2> QED
    BY <2>1, <2>2
<1>6. OnlyForward("primary") => work[w].tip <= Known("primary")'
  <2>1. work[w].tip \in Nat /\ Known("primary") \in Nat
    BY <1>1, RowLengths, KnownInHeight
  <2>2. OnlyForward("primary") => work[w].tip <= Known("primary")
    BY <1>1, <1>2 DEF KnowsOk
  <2> QED
    BY <1>5, <2>1, <2>2
<1>7. ASSUME NEW b \in BOOLEAN, NextRow(w, b), b \/ \E l \in landed : l.tx = tx /\ l.height <= v
      PROVE  KnowsOk(w)'
  <2>1. /\ work'[w].pc = "scan" /\ work'[w].at = work[w].at + 1 /\ work'[w].rows = work[w].rows
        /\ work'[w].event = work[w].event /\ work'[w].tip = work[w].tip
        /\ ~work'[w].waiting => ~work[w].waiting /\ ~b
    BY <1>1, <1>7, NextRowKnows
  <2>2. OnlyForward("primary") /\ ~work'[w].waiting =>
          \A l \in landed : l.tx = Tx(work[w].event, Row(w)) => l.height <= Known("primary")'
    <3> SUFFICES ASSUME OnlyForward("primary"), ~work'[w].waiting, NEW l \in landed, l.tx = tx
                 PROVE  l.height <= Known("primary")'
      OBVIOUS
    <3>1. PICK m \in landed : m.tx = tx /\ m.height <= v
      BY <1>7, <2>1
    <3>2. m = l
      BY <1>1, <3>1 DEF ChainOk
    <3> QED
      BY <1>5, <3>1, <3>2
  <2> QED
    BY <1>1, <1>2, <1>3, <1>5, <1>6, <2>1, <2>2, ScanKnows
<1>8. CASE /\ UNCHANGED attempts
           /\ \/ NextRow(w, FALSE) /\ \E l \in landed : l.tx = tx /\ l.height <= v
              \/ NextRow(w, TRUE)
  <2>1. KnowsOk(w)'
    BY <1>7, <1>8
  <2>2. PaidOk(e)'
    BY <1>1, <1>2, <1>3, <1>8, EventUntouched
  <2> QED
    BY <1>2, <1>3, <1>8, <2>1, <2>2, PaidStep
<1>9. CASE /\ \E l \in landed : l.tx = tx /\ l.height <= v /\ ~l.ok
           /\ SetAttempt(e, k, "failed") /\ NextRow(w, FALSE)
  <2>1. PICK l \in landed : l.tx = tx /\ ~l.ok
    BY <1>9
  <2>2. k \in 1..Len(attempts[e])
    <3>1. Len(work[w].rows) = Len(attempts[e]) /\ Len(attempts[e]) \in Nat /\ k \in Nat /\ k > 0
      BY <1>1, <1>2, Lengths, RowLengths DEF AloneOk, ScanningOk, Scanning, WorkOk
    <3> QED
      BY <1>2, <3>1
  <2>3. work[w].rows[k] = attempts[e][k]
    BY <1>1, <1>2, <2>2, Lengths DEF AloneOk, ScanningOk
  <2>4. k \in Signed(e) /\ Tx(e, attempts[e][k]) = tx
    BY <1>2, <2>2, <2>3 DEF Signed, Row
  <2>5. Paid(e) = {}
    <3> SUFFICES ASSUME NEW m \in Paid(e) PROVE FALSE
      OBVIOUS
    <3>1. m.tx = tx /\ m \in landed /\ m.ok
      BY <1>1, <2>4 DEF PaidOk, Paid
    <3> QED
      BY <1>1, <2>1, <3>1 DEF ChainOk
  <2>6. PaidOk(e)'
    BY <1>3, <2>5, UnpaidStays
  <2>7. \A f \in Events : f # e => attempts'[f] = attempts[f]
    BY <1>1, <1>9 DEF SetAttempt, StoreOk, AttemptsOk
  <2>8. KnowsOk(w)'
    BY <1>7, <1>9
  <2> QED
    BY <1>2, <1>3, <2>6, <2>7, <2>8, PaidStep
<1>10. CASE Goto(w, "height") /\ UNCHANGED attempts
  <2>1. /\ work'[w].pc = "height" /\ work'[w].event = work[w].event /\ work'[w].rows = work[w].rows
        /\ work'[w].at = k /\ work'[w].tip = work[w].tip /\ work'[w].waiting = work[w].waiting
    BY <1>1, <1>10, GotoWork DEF Steps, Scanning
  <2>2. PICK n : n = k - 1
    OBVIOUS
  <2>3. OnlyForward("primary") /\ ~work[w].waiting => SeenUpTo(w, n)'
    <3> SUFFICES ASSUME OnlyForward("primary"), ~work[w].waiting PROVE SeenUpTo(w, n)'
      OBVIOUS
    <3>1. SeenUpTo(w, n)
      BY <1>1, <1>2, <2>2 DEF KnowsOk
    <3> QED
      BY <1>1, <1>3, <1>5, <2>1, <3>1, SeenStays
  <2>4. (OnlyForward("primary") /\ ~work[w].waiting => SeenUpTo(w, work[w].at - 1))'
    BY <1>5, <2>1, <2>2, <2>3 DEF SeenUpTo
  <2>5. (OnlyForward("primary") => work[w].tip <= Known("primary"))'
    BY <1>5, <1>6, <2>1
  <2>6. KnowsOk(w)'
    BY <2>1, <2>4, <2>5 DEF KnowsOk, Settling
  <2>7. PaidOk(e)'
    BY <1>1, <1>2, <1>3, <1>10, EventUntouched
  <2> QED
    BY <1>2, <1>3, <1>10, <2>6, <2>7, PaidStep
<1> QED
  BY <1>4, <1>8, <1>9, <1>10

LEMMA HeightPaid ==
  ASSUME OneWorker, IInv, BookInv, PaidInv, Kept, NEW w \in Workers, ReadHeight(w)
  PROVE  PaidInv'
<1> PICK e \in Events : e = work[w].event
  BY OwnEvent DEF IInv, ReadHeight
<1>1. /\ TypeInv /\ TypeInv' /\ KnowsOk(w) /\ PaidOk(e) /\ ClusterOk /\ WorkOk(w)
      /\ work \in [Workers -> Works] /\ work[w] \in Works
  BY DEF IInv, Kept, TypeInv, PaidInv
<1>2. work[w].pc = "height" /\ UNCHANGED <<height, landed, calm, status, attempts>>
  BY DEF ReadHeight, store
<1>3. PICK v \in IF work[w].tip = 0 THEN Views("primary") ELSE {work[w].tip} :
        /\ IF work[w].tip = 0 THEN Answers("primary", v) ELSE UNCHANGED served
        /\ work' = [work EXCEPT ![w].pc = "scan", ![w].at = @ + 1, ![w].tip = v,
                                ![w].waiting = @ \/ StillValid(v, Row(w).valid)]
  BY DEF ReadHeight
<1>4. /\ work'[w].pc = "scan" /\ work'[w].at = work[w].at + 1 /\ work'[w].rows = work[w].rows
      /\ work'[w].event = work[w].event /\ work'[w].tip = v
      /\ ~work'[w].waiting => ~work[w].waiting /\ ~StillValid(v, Row(w).valid)
  <2>1. PICK c : c = (work[w].waiting \/ StillValid(v, Row(w).valid))
    OBVIOUS
  <2>2. work' = [work EXCEPT ![w].pc = "scan", ![w].at = @ + 1, ![w].tip = v, ![w].waiting = c]
    BY <1>3, <2>1
  <2>3. /\ work'[w].pc = "scan" /\ work'[w].at = work[w].at + 1 /\ work'[w].rows = work[w].rows
        /\ work'[w].event = work[w].event /\ work'[w].tip = v /\ work'[w].waiting = c
    BY <1>1, <2>2 DEF Works
  <2> QED
    BY <2>1, <2>3
<1>5. Known("primary") \in Nat /\ height \in Nat /\ work[w].tip \in Nat
  BY <1>1, KnownInHeight, RowLengths DEF ClusterOk
<1>6. /\ OnlyForward("primary")' <=> OnlyForward("primary")
      /\ OnlyForward("primary") => /\ v \in Nat /\ v <= Known("primary")'
                                   /\ Known("primary")' >= Known("primary")
                                   /\ Known("primary")' \in Nat
  <2>1. CASE work[w].tip = 0
    <3>1. Answers("primary", v)
      BY <1>3, <2>1
    <3>2. /\ OnlyForward("primary")' <=> OnlyForward("primary")
          /\ OnlyForward("primary") => v \in Nat /\ Known("primary") <= v /\ Known("primary")' = v
      BY <1>1, <1>2, <3>1, KnownAnswers
    <3> QED
      BY <1>5, <3>2
  <2>2. CASE work[w].tip # 0
    <3>1. UNCHANGED served /\ v = work[w].tip
      BY <1>3, <2>2
    <3>2. UNCHANGED Known("primary") /\ (OnlyForward("primary")' <=> OnlyForward("primary"))
      BY <1>2, <3>1 DEF Known, OnlyForward
    <3>3. OnlyForward("primary") => work[w].tip <= Known("primary")
      BY <1>1, <1>2 DEF KnowsOk
    <3> QED
      BY <1>5, <3>1, <3>2, <3>3
  <2> QED
    BY <2>1, <2>2
<1>7. OnlyForward("primary") /\ ~work'[w].waiting =>
        \A l \in landed : l.tx = Tx(work[w].event, Row(w)) => l.height <= Known("primary")'
  <2> SUFFICES ASSUME OnlyForward("primary"), ~work'[w].waiting,
                      NEW l \in landed, l.tx = Tx(work[w].event, Row(w))
               PROVE  l.height <= Known("primary")'
    OBVIOUS
  <2>1. PICK n : n = Row(w).valid
    OBVIOUS
  <2>2. l.height <= n /\ l.height \in Nat /\ n \in Nat
    <3>1. l.tx.valid = n /\ l.tx \in Txs
      BY <1>1, <2>1 DEF Tx, ClusterOk
    <3> QED
      BY <1>1, <3>1 DEF ClusterOk, Txs
  <2>3. ~(v <= n)
    BY <1>4, <2>1 DEF StillValid
  <2> QED
    BY <1>6, <2>2, <2>3
<1>8. KnowsOk(w)'
  BY <1>1, <1>2, <1>4, <1>6, <1>7, ScanKnows
<1>9. PaidOk(e)'
  BY <1>1, <1>2, EventUntouched
<1> QED
  BY <1>2, <1>8, <1>9, PaidStep

\* The worker forgets the event, whose attempts stay.
LEMMA RestPaid ==
  ASSUME OneWorker, IInv, BookInv, PaidInv, Kept, NEW w \in Workers, WorkerStep(w),
         work[w].pc \notin {"idle", "settle"}, UNCHANGED attempts, work'[w].pc \in {"idle"} \cup Recording,
         status'[work[w].event] \notin {"absent", "pending"}
  PROVE  PaidInv'
<1> PICK e \in Events : e = work[w].event
  BY OwnEvent DEF IInv
<1>1. TypeInv /\ RowsGrow /\ PaidOk(e) /\ status[e] = "in_flight"
  BY DEF IInv, Kept, PaidInv, BookInv, AloneOk
<1>2. UNCHANGED landed /\ \A f \in Events : f # e => attempts'[f] = attempts[f] /\ status'[f] = status[f]
  BY OwnEventOnly
<1>3. Signed(e)' = Signed(e)
  BY DEF Signed
<1>4. PaidOk(e)'
  BY <1>1, <1>2, <1>3, EventPaid
<1>5. KnowsOk(w)'
  BY DEF KnowsOk, Settling, Recording
<1> QED
  BY <1>2, <1>4, <1>5, PaidStep

LEMMA EndPaid ==
  ASSUME OneWorker, IInv, BookInv, PaidInv, Kept, NEW w \in Workers, EndScan(w)
  PROVE  PaidInv'
<1> PICK e \in Events : e = work[w].event
  BY OwnEvent DEF IInv, EndScan
<1> PICK k : k = work[w].at
  OBVIOUS
<1>1. /\ TypeInv /\ TypeInv' /\ KnowsOk(w) /\ PaidOk(e) /\ WorkOk(w) /\ AloneOk(w)
      /\ work \in [Workers -> Works]
  BY DEF IInv, Kept, TypeInv, PaidInv, BookInv
<1>2. /\ work[w].pc = "scan" /\ k > Len(work[w].rows)
      /\ UNCHANGED <<height, landed, served, calm, status, attempts>>
      /\ Rest(w) \/ (~work[w].waiting /\ Goto(w, "record"))
  BY DEF EndScan, store, cluster
<1>3. CASE Rest(w)
  <2>1. KnowsOk(w)'
    BY <1>1, <1>3, RestWork DEF KnowsOk, Settling, Idle
  <2>2. PaidOk(e)'
    BY <1>1, <1>2, EventUntouched
  <2> QED
    BY <1>2, <2>1, <2>2, PaidStep
<1>4. CASE ~work[w].waiting /\ Goto(w, "record")
  <2>1. work'[w].pc = "record" /\ work'[w].event = e /\ work'[w].rows = work[w].rows
    BY <1>1, <1>4, GotoWork DEF Steps, Scanning
  <2>2. k - 1 = Len(work[w].rows)
    <3>1. k \in Nat /\ Len(work[w].rows) \in Nat /\ k <= Len(work[w].rows) + 1
      BY <1>1, <1>2, RowLengths DEF AloneOk, ScanningOk
    <3> QED
      BY <1>2, <3>1
  <2>3. PICK n : n = k - 1 /\ n = Len(work[w].rows)
    BY <2>2
  <2>4. UNCHANGED Known("primary") /\ (OnlyForward("primary")' <=> OnlyForward("primary"))
        /\ Known("primary") \in Nat
    BY <1>1, <1>2, KnownInHeight DEF Known, OnlyForward
  <2>5. OnlyForward("primary") => SeenUpTo(w, n)'
    <3> SUFFICES ASSUME OnlyForward("primary") PROVE SeenUpTo(w, n)'
      OBVIOUS
    <3>1. SeenUpTo(w, n)
      BY <1>1, <1>2, <1>4, <2>3 DEF KnowsOk
    <3> QED
      BY <1>1, <1>2, <2>1, <2>4, <3>1, SeenStays
  <2>6. (OnlyForward("primary") => SeenUpTo(w, Len(work[w].rows)))'
    BY <2>1, <2>3, <2>4, <2>5 DEF SeenUpTo
  <2>7. KnowsOk(w)'
    BY <2>1, <2>6 DEF KnowsOk, Settling
  <2>8. PaidOk(e)'
    BY <1>1, <1>2, EventUntouched
  <2> QED
    BY <1>2, <2>7, <2>8, PaidStep
<1> QED
  BY <1>2, <1>3, <1>4

-----------------------------------------------------------------------------
(* The decision                                                            *)

\* After a scan, an answer without the record that is recent enough shows that no
\* attempt landed.
LEMMA NoneLanded ==
  ASSUME IInv, BookInv, PaidInv, NEW w \in Workers, work[w].pc \in {"record", "record2"},
         NEW v \in Nat, ~Shows(v, config.namespace, work[w].event),
         v = height \/ (OnlyForward("primary") /\ Known("primary") <= v)
  PROVE  Paid(work[w].event) = {}
<1> PICK e \in Events : e = work[w].event
  BY OwnEvent DEF IInv
<1>1. /\ TypeInv /\ ClusterOk /\ AloneOk(w) /\ KnowsOk(w) /\ PaidOk(e) /\ ChainOk
      /\ work \in [Workers -> Works]
  BY DEF IInv, TypeInv, PaidInv, BookInv
<1> SUFFICES ASSUME NEW l \in Paid(e) PROVE FALSE
  OBVIOUS
<1>2. l \in landed /\ l.ok /\ l.tx.event = e
  BY DEF Paid
<1>3. PICK k \in Signed(e) : Tx(e, attempts[e][k]) = l.tx
  <2>1. status[e] = "in_flight"
    BY <1>1 DEF AloneOk
  <2>2. Signed(e) # {} /\ \A k \in Signed(e) : Tx(e, attempts[e][k]) = l.tx
    BY <1>1, <2>1 DEF PaidOk
  <2> QED
    BY <2>2
<1>4. k \in 1..Len(work[w].rows) /\ work[w].rows[k].status = "signed"
      /\ attempts[e][k].config.namespace = config.namespace
  <2>1. k \in 1..Len(attempts[e])
    BY <1>3 DEF Signed
  <2>2. attempts[e][k].status = "signed"
    BY <1>3 DEF Signed
  <2> QED
    BY <1>1, <2>1, <2>2 DEF AloneOk, ScanningOk, Scanning
<1>5. Tx(e, work[w].rows[k]) = l.tx
  BY <1>1, <1>3, <1>4, RowsAreRead
<1>6. l.tx.config.namespace = config.namespace
  BY <1>3, <1>4 DEF Tx
<1>7. record[config.namespace][e] # NoRecord /\ record[config.namespace][e].height = l.height
  BY <1>1, <1>2, <1>6 DEF ChainOk
<1>8. l.height <= v
  <2>1. l.height \in Nat /\ l.height <= height
    BY <1>1, <1>2 DEF ClusterOk
  <2>2. CASE OnlyForward("primary") /\ Known("primary") <= v
    <3>1. l.height <= Known("primary")
      BY <1>1, <1>2, <1>4, <1>5, <2>2 DEF KnowsOk, SeenUpTo
    <3> QED
      BY <1>1, <2>1, <2>2, <3>1, KnownInHeight
  <2> QED
    BY <2>1, <2>2
<1> QED
  BY <1>7, <1>8 DEF Shows

LEMMA DecidePaid ==
  ASSUME OneWorker, Reliable, IInv, BookInv, PaidInv, Kept, NEW w \in Workers, WorkerStep(w),
         work[w].pc \in {"record", "record2"},
         RecordFound(w) \/ RecordMissing(w) \/ RecordMissingOnSecond(w)
  PROVE  PaidInv'
<1> PICK e \in Events : e = work[w].event
  BY OwnEvent DEF IInv
<1>1. /\ TypeInv /\ TypeInv' /\ ClusterOk /\ ServedOk /\ KnowsOk(w) /\ PaidOk(e) /\ AloneOk(w)
      /\ work \in [Workers -> Works] /\ work[w] \in Works
  BY DEF IInv, Kept, TypeInv, PaidInv, BookInv
<1>2. /\ UNCHANGED <<height, landed, calm>>
      /\ \A f \in Events : f # e => attempts'[f] = attempts[f] /\ status'[f] = status[f]
  BY OwnEventOnly
<1>3. CASE RecordFound(w)
  <2>1. /\ UNCHANGED <<status, attempts>>
        /\ Goto(w, "resolve") \/ work' = [work EXCEPT ![w].pc = "find", ![w].rows = attempts[e]]
    BY <1>3 DEF RecordFound, store
  <2>2. work'[w].pc \in {"resolve", "find"}
    <3>1. CASE Goto(w, "resolve")
      BY <1>1, <3>1, GotoWork DEF Steps
    <3>2. CASE work' = [work EXCEPT ![w].pc = "find", ![w].rows = attempts[e]]
      BY <1>1, <3>2 DEF Works
    <3> QED
      BY <2>1, <3>1, <3>2
  <2>3. KnowsOk(w)'
    BY <2>2 DEF KnowsOk, Settling
  <2>4. PaidOk(e)'
    BY <1>1, <1>2, <2>1, EventUntouched
  <2> QED
    BY <1>2, <2>3, <2>4, PaidStep
<1>4. ASSUME NoAttemptLanded(w), Paid(e) = {}
      PROVE  PaidInv'
  <2>1. Goto(w, "conclude")
    BY <1>4 DEF NoAttemptLanded
  <2>2. work'[w].pc = "conclude" /\ work'[w].event = e
    BY <1>1, <2>1, GotoWork DEF Steps, Scanning
  <2>3. PaidOk(e)' /\ Paid(e)' = {}
    BY <1>2, <1>4, UnpaidStays
  <2>4. (Paid(work[w].event) = {})'
    BY <2>2, <2>3 DEF Paid
  <2>5. KnowsOk(w)'
    BY <2>2, <2>4 DEF KnowsOk
  <2> QED
    BY <1>2, <2>3, <2>5, PaidStep
<1>5. ASSUME NEW v, Answers("primary", v), ~Shows(v, config.namespace, e), OnlyForward("primary")
      PROVE  Paid(e) = {} /\ Known("primary")' >= Known("primary")
  <2>1. v \in Nat /\ Known("primary") <= v /\ Known("primary")' = v
    BY <1>1, <1>2, <1>5, KnownAnswers
  <2> QED
    BY <1>1, <1>5, <2>1, NoneLanded, KnownInHeight
<1>6. CASE RecordMissing(w)
  <2>1. PICK v \in Views("primary") : Answers("primary", v) /\ ~Shows(v, config.namespace, e)
    BY <1>6 DEF RecordMissing
  <2>2. CASE ~HasSecond /\ NoAttemptLanded(w)
    <3>1. OnlyForward("primary")
      BY <1>1, <2>2, OneIsReliable
    <3> QED
      BY <1>4, <1>5, <2>1, <2>2, <3>1
  <2>3. CASE Goto(w, "record2") /\ UNCHANGED <<status, attempts>>
    <3>1. work'[w].pc = "record2" /\ work'[w].event = e /\ work'[w].rows = work[w].rows
      BY <1>1, <2>3, GotoWork DEF Steps, Scanning
    <3>2. OnlyForward("primary")' <=> OnlyForward("primary")
      BY <1>1, <1>2, <2>1, KnownAnswers
    <3>3. (OnlyForward("primary") => Paid(work[w].event) = {})'
      BY <1>2, <1>5, <2>1, <3>1, <3>2 DEF Paid
    <3>4. PICK n : n = Len(work[w].rows)
      OBVIOUS
    <3>5. OnlyForward("primary") => SeenUpTo(w, n)'
      BY <1>1, <1>2, <1>5, <2>1, <3>1, <3>4, SeenStays DEF KnowsOk
    <3>6. (OnlyForward("primary") => SeenUpTo(w, Len(work[w].rows)))'
      BY <3>1, <3>2, <3>4, <3>5 DEF SeenUpTo
    <3>7. KnowsOk(w)'
      BY <3>1, <3>3, <3>6 DEF KnowsOk, Settling
    <3>8. PaidOk(e)'
      BY <1>1, <1>2, <2>3, EventUntouched
    <3> QED
      BY <1>2, <3>7, <3>8, PaidStep
  <2>4. work[w].pc = "record"
    BY <1>6 DEF RecordMissing
  <2> QED
    BY <1>6, <2>2, <2>3, <2>4 DEF RecordMissing
<1>7. CASE RecordMissingOnSecond(w)
  <2>1. PICK v \in Views("second") : Answers("second", v) /\ ~Shows(v, config.namespace, e)
    BY <1>7 DEF RecordMissingOnSecond
  <2>2. NoAttemptLanded(w) /\ work[w].pc = "record2"
    BY <1>7 DEF RecordMissingOnSecond
  <2>3. CASE OnlyForward("primary")
    BY <1>1, <1>4, <2>2, <2>3 DEF KnowsOk
  <2>4. CASE served["second"].lag = "current"
    <3>1. v = height /\ height \in Nat
      BY <1>1, <2>1, <2>4 DEF Views, ClusterOk
    <3> QED
      BY <1>4, <2>1, <2>2, <3>1, NoneLanded
  <2> QED
    BY <1>1, <2>3, <2>4, OneIsReliable
<1> QED
  BY <1>3, <1>6, <1>7

LEMMA RecordPaidPaid ==
  ASSUME OneWorker, IInv, BookInv, PaidInv, Kept, NEW w \in Workers, WorkerStep(w), RecordPaid(w)
  PROVE  PaidInv'
<1> PICK e \in Events : e = work[w].event
  BY OwnEvent DEF IInv, RecordPaid
<1>1. /\ TypeInv /\ RowsGrow /\ PaidOk(e) /\ StoreOk /\ work \in [Workers -> Works]
      /\ status \in [Events -> Statuses] /\ work[w].pc = "rows"
  BY DEF IInv, Kept, TypeInv, PaidInv, StoreOk, RecordPaid
<1>2. /\ UNCHANGED landed
      /\ \A f \in Events : f # e => attempts'[f] = attempts[f] /\ status'[f] = status[f]
  BY <1>1, OwnEventOnly
<1>3. status'[e] = "paid"
  BY <1>1 DEF RecordPaid, Set
<1>4. KnowsOk(w)'
  BY <1>1, RestWork DEF RecordPaid, KnowsOk, Settling, Idle
<1>5. Signed(e)' \subseteq Signed(e)
  <2>1. CASE UNCHANGED attempts
    BY <2>1 DEF Signed
  <2>2. ASSUME NEW k \in 1..Len(work[w].rows), SetAttempt(e, k, "landed")
        PROVE  Signed(e)' \subseteq Signed(e)
    <3>1. k \in 1..Len(attempts[e])
      BY <1>1, RowsAreRead
    <3>2. PICK row : row = [attempts[e][k] EXCEPT !.status = "landed"]
      OBVIOUS
    <3>3. row.status = "landed"
      <4>1. attempts[e][k] \in AttemptRow
        BY <1>1, <3>1, Lengths
      <4> QED
        BY <3>2, <4>1 DEF AttemptRow
    <3>4. attempts'[e] = [attempts[e] EXCEPT ![k] = row]
      BY <1>1, <2>2, <3>2 DEF SetAttempt, StoreOk, AttemptsOk
    <3>5. attempts[e] \in Seq(AttemptRow)
      BY <1>1, Lengths
    <3>6. Len(attempts'[e]) = Len(attempts[e]) /\ attempts'[e][k] = row
          /\ \A j \in 1..Len(attempts[e]) : j # k => attempts'[e][j] = attempts[e][j]
      BY <3>1, <3>4, <3>5
    <3> QED
      BY <3>1, <3>3, <3>6 DEF Signed
  <2> QED
    BY <2>1, <2>2 DEF RecordPaid
<1>6. PaidOk(e)'
  BY <1>1, <1>2, <1>3, <1>5, EventPaid
<1> QED
  BY <1>2, <1>4, <1>6, PaidStep

LEMMA WorkerPaid ==
  ASSUME OneWorker, Reliable, IInv, BookInv, PaidInv, Kept, NEW w \in Workers, WorkerStep(w)
  PROVE  PaidInv'
<1>1. TypeInv /\ work \in [Workers -> Works] /\ status \in [Events -> Statuses]
  BY DEF IInv, TypeInv, StoreOk
<1>2. Rest(w) => work'[w].pc = "idle"
  BY <1>1, RestWork DEF Idle
<1>3. \A s : Set(work[w].event, s) /\ work[w].pc # "idle" => status'[work[w].event] = s
  BY <1>1, OwnEvent DEF Set
<1>4. CASE work[w].pc \in Settling \cup {"conclude"}
  BY <1>4, UnpaidPaid
<1>5. CASE SettleStep(w) /\ work[w].pc \notin Settling
  <2>1. \E e \in Events : Select(w, e)
    BY <1>5 DEF SettleStep, GiveUp, NoBlockhash, BeginAttempt, CannotBuild, Abandon, RecordSigned,
       Send, SendRefused, Settling
  <2> QED
    BY <2>1, SelectPaid
<1>6. ASSUME Unresolved(w), UNCHANGED attempts, work[w].pc \notin {"idle", "settle"}
      PROVE  PaidInv'
  <2>1. status'[work[w].event] = "in_flight"
    BY <1>3, <1>6 DEF Unresolved
  <2>2. work'[w].pc = "idle"
    BY <1>2, <1>6 DEF Unresolved
  <2> QED
    BY <1>6, <2>1, <2>2, RestPaid
<1>7. CASE ResolveStep(w) /\ work[w].pc \notin Settling \cup {"conclude"}
  <2>1. CASE RecordFound(w) \/ RecordMissing(w) \/ RecordMissingOnSecond(w)
    <3>1. work[w].pc \in {"record", "record2"}
      BY <1>7, <2>1 DEF RecordFound, RecordMissing, RecordMissingOnSecond, Settling
    <3> QED
      BY <2>1, <3>1, DecidePaid
  <2>2. CASE ReadFails(w) \/ SecondDisagrees(w)
    BY <1>6, <2>2 DEF ReadFails, SecondDisagrees, Unresolved
  <2>3. CASE \E e \in Events : Resolve(w, e)
    BY <2>3, ResolvePaid
  <2>4. ~Conclude(w)
    BY <1>7 DEF Conclude
  <2> QED
    BY <1>7, <2>1, <2>2, <2>3, <2>4, SkipPaid, StatusPaid, HeightPaid, EndPaid DEF ResolveStep
<1>8. CASE RecordStep(w)
  <2>1. CASE CreatorUnclear(w) \/ EvidenceMissing(w)
    BY <1>6, <2>1 DEF CreatorUnclear, EvidenceMissing, Unresolved
  <2>2. CASE RecordPaid(w)
    BY <2>2, RecordPaidPaid
  <2>3. ASSUME NEW pc \in Recording, Goto(w, pc), UNCHANGED <<status, attempts>>,
               work[w].pc \in Recording
        PROVE  PaidInv'
    <3>1. work'[w].pc = pc
      BY <1>1, <2>3, GotoWork DEF Steps
    <3>2. status'[work[w].event] = "in_flight"
      BY <2>3 DEF BookInv, AloneOk, Recording
    <3> QED
      BY <2>3, <3>1, <3>2, RestPaid DEF Recording
  <2>4. CASE FindCreator(w) \/ Matches(w) \/ ConfirmMatch(w)
    <3>1. \E pc \in Recording : Goto(w, pc)
      BY <2>4 DEF FindCreator, Matches, ConfirmMatch, Recording
    <3> QED
      BY <2>3, <2>4, <3>1 DEF FindCreator, Matches, ConfirmMatch, Recording, store
  <2>5. CASE Mismatches(w) \/ ConfirmIncident(w)
    <3>1. work[w].pc \in Recording /\ work[w].pc \notin {"idle", "settle"} /\ UNCHANGED attempts
          /\ \/ Goto(w, "compare") /\ UNCHANGED status
             \/ Set(work[w].event, "incident") /\ Rest(w)
      BY <2>5 DEF Mismatches, ConfirmIncident, Recording
    <3>2. CASE Goto(w, "compare") /\ UNCHANGED status
      BY <2>3, <3>1, <3>2 DEF Recording
    <3>3. CASE Set(work[w].event, "incident") /\ Rest(w)
      BY <1>2, <1>3, <3>1, <3>3, RestPaid
    <3> QED
      BY <3>1, <3>2, <3>3
  <2> QED
    BY <1>8, <2>1, <2>2, <2>4, <2>5 DEF RecordStep
<1> QED
  BY <1>4, <1>5, <1>7, <1>8 DEF WorkerStep

-----------------------------------------------------------------------------
(* The cluster and the operator                                            *)

\* What the worker knows while nothing lands.
LEMMA KnowsStays ==
  ASSUME TypeInv, TypeInv', NEW w \in Workers, KnowsOk(w), work'[w] = work[w],
         UNCHANGED <<landed, served>>, height' >= height, calm => calm'
  PROVE  KnowsOk(w)'
<1>1. Known("primary")' >= Known("primary") /\ (OnlyForward("primary")' <=> OnlyForward("primary"))
  BY KnownStays
<1>2. Known("primary") \in Nat /\ Known("primary")' \in Nat /\ work[w].tip \in Nat
  <2>1. served'["primary"].height \in Nat /\ height' \in Nat
    BY PrimaryIsProvider DEF TypeInv, ServedOk, ClusterOk
  <2>2. Known("primary")' \in Nat
    BY <2>1 DEF Known
  <2> QED
    BY <2>2, KnownInHeight, RowLengths DEF TypeInv
<1>3. (work[w].pc \in Settling \cup {"conclude"} => Paid(work[w].event) = {})'
  BY DEF KnowsOk, Paid
<1> PICK at : at = work[w].at - 1
  OBVIOUS
<1> PICK n : n = Len(work[w].rows)
  OBVIOUS
<1> PICK pc : pc = work[w].pc
  OBVIOUS
<1>4. ASSUME OnlyForward("primary")
      PROVE  /\ pc \in {"scan", "height"} => (work[w].tip <= Known("primary"))'
             /\ pc \in {"scan", "height"} /\ ~work[w].waiting => SeenUpTo(w, at)'
             /\ pc \in {"record", "record2"} => SeenUpTo(w, n)'
             /\ pc = "record2" => (Paid(work[w].event) = {})'
  <2>1. /\ pc \in {"scan", "height"} => work[w].tip <= Known("primary")
        /\ pc \in {"scan", "height"} /\ ~work[w].waiting => SeenUpTo(w, at)
        /\ pc \in {"record", "record2"} => SeenUpTo(w, n)
        /\ pc = "record2" => Paid(work[w].event) = {}
    BY <1>4 DEF KnowsOk
  <2>2. pc \in {"scan", "height"} => (work[w].tip <= Known("primary"))'
    BY <1>1, <1>2, <2>1
  <2>3. /\ pc \in {"scan", "height"} /\ ~work[w].waiting => SeenUpTo(w, at)'
        /\ pc \in {"record", "record2"} => SeenUpTo(w, n)'
    BY <1>1, <2>1, SeenStays
  <2>4. pc = "record2" => (Paid(work[w].event) = {})'
    BY <2>1 DEF Paid
  <2> QED
    BY <2>2, <2>3, <2>4
<1>5. (OnlyForward("primary") =>
         /\ work[w].pc \in {"scan", "height"} =>
              /\ work[w].tip <= Known("primary")
              /\ ~work[w].waiting => SeenUpTo(w, work[w].at - 1)
         /\ work[w].pc \in {"record", "record2"} => SeenUpTo(w, Len(work[w].rows))
         /\ work[w].pc = "record2" => Paid(work[w].event) = {})'
  BY <1>1, <1>4 DEF SeenUpTo
<1> QED
  BY <1>3, <1>5 DEF KnowsOk

LEMMA QuietPaid ==
  ASSUME TypeInv, TypeInv', PaidInv, UNCHANGED <<landed, served, status, attempts, work>>,
         height' >= height, calm => calm'
  PROVE  PaidInv'
<1>1. \A e \in Events : PaidOk(e)'
  BY EventUntouched DEF PaidInv
<1>2. \A w \in Workers : KnowsOk(w)'
  BY KnowsStays DEF PaidInv
<1> QED
  BY <1>1, <1>2 DEF PaidInv

\* What can land is not what the worker has found over.
LEMMA LandSeen ==
  ASSUME TypeInv, TypeInv', BookInv, PaidInv, NEW w \in Workers, NEW tx \in sent, ~Over(tx),
         NEW new, new.tx = tx, landed' = landed \cup {new}, height' >= height,
         UNCHANGED <<served, calm, work, attempts>>,
         \A e \in Events : e # tx.event => Paid(e)' = Paid(e)
  PROVE  KnowsOk(w)'
<1>1. KnowsOk(w) /\ AloneOk(w) /\ work \in [Workers -> Works] /\ WorkOk(w)
  BY DEF PaidInv, BookInv, TypeInv
<1>2. Known("primary")' >= Known("primary") /\ (OnlyForward("primary")' <=> OnlyForward("primary"))
  BY KnownStays
<1>3. Known("primary") \in Nat /\ Known("primary")' \in Nat /\ work[w].tip \in Nat
  <2>1. served'["primary"].height \in Nat /\ height' \in Nat
    BY PrimaryIsProvider DEF TypeInv, ServedOk, ClusterOk
  <2>2. Known("primary")' \in Nat
    BY <2>1 DEF Known
  <2> QED
    BY <2>2, <1>1, KnownInHeight, RowLengths
<1>4. \A n : OverUpTo(w, n) /\ SeenUpTo(w, n) => SeenUpTo(w, n)'
  <2> SUFFICES ASSUME NEW n, OverUpTo(w, n), SeenUpTo(w, n), NEW k \in 1..n,
                      work[w].rows[k].status = "signed", NEW l \in landed',
                      l.tx = Tx(work[w].event, work[w].rows[k])
               PROVE  l.height <= Known("primary")'
    BY DEF SeenUpTo, Tx
  <2>1. l # new
    BY DEF OverUpTo
  <2>2. l \in landed /\ l.height <= Known("primary")
    BY <2>1 DEF SeenUpTo
  <2>3. l.height \in Nat
    BY <2>2 DEF TypeInv, ClusterOk
  <2> QED
    BY <1>2, <1>3, <2>2, <2>3
<1>5. ASSUME work[w].pc \in Settling \cup {"conclude", "record2"}
      PROVE  work[w].event \in Events /\ Paid(work[w].event)' = Paid(work[w].event)
  <2> PICK e \in Events : e = work[w].event
    BY <1>5, OwnEvent DEF Settling
  <2>1. CASE e = tx.event
    <3>1. PICK k \in Signed(e) : Tx(e, attempts[e][k]) = tx
      BY <2>1 DEF BookInv, EventOk
    <3>2. EventOk(e)
      BY DEF BookInv
    <3>3. CASE work[w].pc \in {"settle", "sign", "abandon", "refused", "refused2", "conclude"}
      <4>1. Signed(e) = {}
        BY <1>1, <3>2, <3>3 DEF AloneOk, SettlingOk, ScanningOk, EventOk
      <4> QED
        BY <3>1, <4>1
    <3>4. CASE work[w].pc = "send"
      BY <1>1, <2>1, <3>4 DEF AloneOk, SettlingOk, AllOver
    <3>5. CASE work[w].pc = "record2"
      <4>1. k \in 1..Len(work[w].rows) /\ work[w].rows[k].status = "signed"
        BY <1>1, <3>1, <3>5 DEF AloneOk, ScanningOk, Scanning, Signed
      <4>2. Tx(e, work[w].rows[k]) = tx
        BY <3>1, <3>5, <4>1, RowsAreRead
      <4> QED
        BY <1>1, <3>5, <4>1, <4>2 DEF AloneOk, ScanningOk, OverUpTo
    <3> QED
      BY <1>5, <3>3, <3>4, <3>5 DEF Settling
  <2> QED
    BY <2>1
<1>6. (work[w].pc \in Settling \cup {"conclude"} => Paid(work[w].event) = {})'
  <2>1. work[w].pc \in Settling \cup {"conclude"} => Paid(work[w].event)' = {}
    BY <1>1, <1>5 DEF KnowsOk
  <2> QED
    BY <2>1 DEF Paid
<1> PICK at : at = work[w].at - 1
  OBVIOUS
<1> PICK n : n = Len(work[w].rows)
  OBVIOUS
<1> PICK pc : pc = work[w].pc
  OBVIOUS
<1>7. ASSUME OnlyForward("primary")
      PROVE  /\ pc \in {"scan", "height"} => (work[w].tip <= Known("primary"))'
             /\ pc \in {"scan", "height"} /\ ~work[w].waiting => SeenUpTo(w, at)'
             /\ pc \in {"record", "record2"} => SeenUpTo(w, n)'
             /\ pc = "record2" => Paid(work[w].event)' = {}
  <2>1. /\ pc \in {"scan", "height"} => work[w].tip <= Known("primary")
        /\ pc \in {"scan", "height"} /\ ~work[w].waiting => SeenUpTo(w, at)
        /\ pc \in {"record", "record2"} => SeenUpTo(w, n)
        /\ pc = "record2" => Paid(work[w].event) = {}
    BY <1>1, <1>7 DEF KnowsOk
  <2>2. /\ pc \in {"scan", "height"} /\ ~work[w].waiting => OverUpTo(w, at)
        /\ pc \in {"record", "record2"} => OverUpTo(w, n)
    BY <1>1 DEF AloneOk, ScanningOk
  <2>3. pc \in {"scan", "height"} => (work[w].tip <= Known("primary"))'
    BY <1>2, <1>3, <2>1
  <2>4. /\ pc \in {"scan", "height"} /\ ~work[w].waiting => SeenUpTo(w, at)'
        /\ pc \in {"record", "record2"} => SeenUpTo(w, n)'
    BY <1>4, <2>1, <2>2
  <2>5. pc = "record2" => Paid(work[w].event)' = {}
    BY <1>5, <2>1
  <2> QED
    BY <2>3, <2>4, <2>5
<1>8. (OnlyForward("primary") =>
         /\ work[w].pc \in {"scan", "height"} =>
              /\ work[w].tip <= Known("primary")
              /\ ~work[w].waiting => SeenUpTo(w, work[w].at - 1)
         /\ work[w].pc \in {"record", "record2"} => SeenUpTo(w, Len(work[w].rows))
         /\ work[w].pc = "record2" => Paid(work[w].event) = {})'
  BY <1>2, <1>7 DEF SeenUpTo, Paid
<1> QED
  BY <1>6, <1>8 DEF KnowsOk

LEMMA LandPaid ==
  ASSUME IInv, BookInv, PaidInv, Kept, NEW tx \in sent, Land(tx)
  PROVE  PaidInv'
<1> PICK e \in Events : e = tx.event
  BY DEF IInv, TypeInv, ClusterOk, Txs
<1>1. TypeInv /\ TypeInv' /\ ClusterOk /\ EventOk(e) /\ PaidOk(e)
  BY DEF IInv, Kept, TypeInv, BookInv, PaidInv
<1>2. /\ height' = height + 1 /\ ~HasLanded(tx) /\ height < tx.valid
      /\ UNCHANGED <<served, calm, status, attempts, work>>
  BY DEF Land, CanLand, store
<1>3. PICK new : landed' = landed \cup {new} /\ new.tx = tx
  <2>1. \/ landed' = landed \cup {[tx |-> tx, height |-> height + 1, ok |-> TRUE]}
        \/ landed' = landed \cup {[tx |-> tx, height |-> height + 1, ok |-> FALSE]}
    BY DEF Land
  <2>2. \A b \in BOOLEAN : [tx |-> tx, height |-> height + 1, ok |-> b].tx = tx
    OBVIOUS
  <2>3. CASE landed' = landed \cup {[tx |-> tx, height |-> height + 1, ok |-> TRUE]}
    BY <2>2, <2>3
  <2>4. CASE landed' = landed \cup {[tx |-> tx, height |-> height + 1, ok |-> FALSE]}
    BY <2>2, <2>4
  <2> QED
    BY <2>1, <2>3, <2>4
<1>4. height \in Nat /\ tx.valid \in Nat
  BY <1>1 DEF ClusterOk, Txs
<1>5. ~Over(tx) /\ height' >= height
  BY <1>2, <1>4 DEF Over
<1>6. PICK k \in Signed(e) : Tx(e, attempts[e][k]) = tx /\ \A j \in Signed(e) : j = k
  BY <1>1, <1>5 DEF EventOk
<1>7. Paid(e) = {}
  <2> SUFFICES ASSUME NEW l \in Paid(e) PROVE FALSE
    OBVIOUS
  <2>1. l.tx = tx /\ l \in landed
    BY <1>1, <1>6 DEF PaidOk, Paid
  <2> QED
    BY <1>2, <2>1 DEF HasLanded
<1>8. Paid(e)' \subseteq {new} /\ Signed(e)' = Signed(e)
  BY <1>2, <1>3, <1>7 DEF Paid, Signed
<1>9. \A f : f # e => Paid(f)' = Paid(f)
  BY <1>3 DEF Paid
<1>10. \A f \in Events : PaidOk(f)'
  <2> TAKE f \in Events
  <2>1. CASE f # e
    <3>1. Signed(f)' = Signed(f)
      BY <1>2 DEF Signed
    <3> QED
      BY <1>2, <1>9, <2>1, <3>1 DEF PaidInv, PaidOk
  <2>2. CASE f = e
    <3>1. status[e] \notin {"absent", "pending"}
      BY <1>1, <1>6 DEF EventOk
    <3> QED
      BY <1>2, <1>3, <1>6, <1>8, <2>2, <3>1 DEF PaidOk
  <2> QED
    BY <2>1, <2>2
<1>11. \A w \in Workers : KnowsOk(w)'
  BY <1>1, <1>2, <1>3, <1>5, <1>9, LandSeen
<1> QED
  BY <1>10, <1>11 DEF PaidInv

LEMMA ClusterPaid ==
  ASSUME IInv, BookInv, PaidInv, Kept, ClusterStep \/ CalmDown \/ UNCHANGED vars
  PROVE  PaidInv'
<1>1. CASE \E tx \in sent : Land(tx)
  BY <1>1, LandPaid
<1>2. CASE ~\E tx \in sent : Land(tx)
  <2>1. UNCHANGED <<landed, served, status, attempts, work>> /\ (calm => calm')
    <3>1. CASE \E e \in Events, f \in Foreign : ForeignSettle(f.namespace, e, f.content)
      BY <3>1 DEF ForeignSettle, store
    <3>2. CASE Tick \/ Finalize
      BY <3>2 DEF Tick, Finalize, store
    <3>3. CASE CalmDown \/ UNCHANGED vars
      BY <3>3 DEF CalmDown, vars, cluster, store
    <3> QED
      BY <1>2, <3>1, <3>2, <3>3 DEF ClusterStep
  <2>2. height' >= height
    BY DEF Kept, ChainGrows
  <2> QED
    BY <2>1, <2>2, QuietPaid DEF IInv, Kept
<1> QED
  BY <1>1, <1>2

LEMMA OperatorPaid ==
  ASSUME OneWorker, IInv, BookInv, PaidInv, Kept, OperatorStep
  PROVE  PaidInv'
<1>1. TypeInv /\ TypeInv' /\ RowsGrow /\ status \in [Events -> Statuses] /\ work \in [Workers -> Works]
  BY DEF IInv, Kept, TypeInv, StoreOk
<1>2. UNCHANGED <<landed, served, calm, attempts>> /\ height' >= height
  <2>1. height' >= height
    BY DEF Kept, ChainGrows
  <2>2. UNCHANGED <<cluster, served, calm, attempts>>
    BY DEF OperatorStep, Enqueue, Crash, Recheck, Reconfigure, store
  <2> QED
    BY <2>1, <2>2 DEF cluster
<1>3. ASSUME NEW e \in Events, Enqueue(e) PROVE PaidInv'
  <2>1. status[e] = "absent" /\ UNCHANGED work /\ \A f \in Events : f # e => status'[f] = status[f]
    BY <1>1, <1>3 DEF Enqueue, Set
  <2>2. PaidOk(e)'
    BY <1>2, <2>1, UnpaidStays DEF PaidInv, PaidOk
  <2>3. \A f \in Events : PaidOk(f)'
    <3> TAKE f \in Events
    <3>1. CASE f # e
      BY <1>2, <2>1, <3>1, EventUntouched DEF PaidInv
    <3> QED
      BY <2>2, <3>1
  <2>4. \A w \in Workers : KnowsOk(w)'
    BY <1>1, <1>2, <2>1, KnowsStays DEF PaidInv
  <2> QED
    BY <2>3, <2>4 DEF PaidInv
<1>4. ASSUME NEW w \in Workers, Crash(w) PROVE PaidInv'
  <2>1. UNCHANGED status /\ Rest(w)
    BY <1>4 DEF Crash, store
  <2>2. KnowsOk(w)'
    BY <1>1, <2>1, RestWork DEF KnowsOk, Settling, Idle
  <2>3. PICK e : e \notin Events
    BY NoSetContainsEverything
  <2> QED
    BY <1>2, <2>1, <2>2, <2>3, PaidStep
<1>5. ASSUME NEW w \in Workers, NEW e \in Events, Recheck(w, e) PROVE PaidInv'
  <2>1. /\ status[e] \notin {"absent", "paid"} /\ status'[e] = "in_flight"
        /\ \A f \in Events : f # e => status'[f] = status[f]
    BY <1>1, <1>5 DEF Recheck, Set
  <2>2. Signed(e)' = Signed(e)
    BY <1>2 DEF Signed
  <2>3. PaidOk(e)'
    BY <1>1, <1>2, <2>1, <2>2, EventPaid DEF PaidInv
  <2>4. work' = [work EXCEPT ![w].pc = "resolve", ![w].event = e] /\ work[w] \in Works
    BY <1>1, <1>5 DEF Recheck
  <2>5. work'[w].pc = "resolve"
    BY <1>1, <2>4 DEF Works
  <2>6. KnowsOk(w)'
    BY <2>5 DEF KnowsOk, Settling
  <2> QED
    BY <1>2, <2>1, <2>3, <2>6, PaidStep
<1>6. ASSUME NEW c \in Configs, Reconfigure(c) PROVE PaidInv'
  <2>1. UNCHANGED <<status, work>>
    BY <1>6 DEF Reconfigure, store
  <2> QED
    BY <1>1, <1>2, <2>1, QuietPaid
<1> QED
  BY <1>3, <1>4, <1>5, <1>6 DEF OperatorStep

LEMMA PaidInit == Init => PaidInv
<1> SUFFICES ASSUME Init PROVE PaidInv
  OBVIOUS
<1>1. \A e \in Events : PaidOk(e)
  BY DEF Init, PaidOk, Paid
<1>2. \A w \in Workers : KnowsOk(w)
  BY DEF Init, KnowsOk, Settling, Idle
<1> QED
  BY <1>1, <1>2 DEF PaidInv

LEMMA PaidAlways ==
  ASSUME OneWorker, Reliable
  PROVE  /\ Spec => [](IInv /\ BookInv /\ PaidInv)
         /\ FairSpec => [](IInv /\ BookInv /\ PaidInv)
<1>1. Init => IInv /\ BookInv /\ PaidInv
  BY InitInv, BookInit, PaidInit
<1>2. IInv /\ BookInv /\ PaidInv /\ [Next \/ CalmDown]_vars => IInv' /\ BookInv' /\ PaidInv'
  <2> SUFFICES ASSUME IInv, BookInv, PaidInv, [Next \/ CalmDown]_vars
               PROVE  IInv' /\ BookInv' /\ PaidInv'
    OBVIOUS
  <2>1. Kept /\ BookInv'
    BY BookNext
  <2>2. PaidInv'
    BY <2>1, WorkerPaid, ClusterPaid, OperatorPaid DEF Next
  <2> QED
    BY <2>1, <2>2 DEF Kept
<1>3. [Next]_vars => [Next \/ CalmDown]_vars
  OBVIOUS
<1>4. Spec => [](IInv /\ BookInv /\ PaidInv)
  BY <1>1, <1>2, <1>3, PTL DEF Spec
<1>5. FairSpec => [](IInv /\ BookInv /\ PaidInv)
  BY <1>1, <1>2, PTL DEF FairSpec
<1> QED
  BY <1>4, <1>5

-----------------------------------------------------------------------------
(* The theorems                                                            *)

\* No attempt of an event can land or landed if none is signed, and the event is not paid.
UnsignedQuiet == \A e \in Events : Signed(e) = {} /\ status[e] # "paid" => Quiet(e)

LEMMA UnsignedIsQuiet == IInv /\ BookInv /\ PaidInv => UnsignedQuiet
<1> SUFFICES ASSUME TypeInv, BookInv, PaidInv, NEW e \in Events, Signed(e) = {}, status[e] # "paid"
             PROVE  Quiet(e)
  BY DEF UnsignedQuiet, IInv
<1>1. \A tx \in sent : tx.event = e => Over(tx)
  BY DEF BookInv, EventOk
<1>2. \A tx \in sent : tx.event = e => ~CanLand(tx)
  BY <1>1 DEF CanLand, Over, TypeInv, ClusterOk, Txs
<1>3. Paid(e) = {}
  BY DEF PaidInv, PaidOk
<1> QED
  BY <1>2, <1>3 DEF Quiet, Paid

\* The steps that may give up an event.
LEMMA OthersDoNotGiveUp ==
  ASSUME NEW w \in Workers, WorkerStep(w)
  PROVE  \/ GiveUp(w) \/ Abandon(w) \/ Conclude(w) \/ \E f \in Events : Resolve(w, f)
         \/ UNCHANGED status
         \/ \E s \in {"pending", "in_flight", "paid", "incident"} : Set(work[w].event, s)
<1>1. CASE SettleStep(w)
  <2>1. \/ GiveUp(w) \/ Abandon(w) \/ UNCHANGED status
        \/ Set(work[w].event, "pending") \/ Set(work[w].event, "in_flight")
    BY <1>1, ZenonT(30) DEF SettleStep, Select, NoBlockhash, BeginAttempt, CannotBuild,
       RecordSigned, Send, SendRefused, store
  <2> QED
    BY <2>1
<1>2. CASE SkipRow(w) \/ ReadStatus(w) \/ ReadHeight(w) \/ EndScan(w) \/ RecordFound(w)
  <2>1. SkipRow(w) => UNCHANGED status
    BY DEF SkipRow
  <2>2. ReadStatus(w) => UNCHANGED status
    BY Zenon DEF ReadStatus
  <2>3. ReadHeight(w) => UNCHANGED store
    BY DEF ReadHeight
  <2>4. EndScan(w) => UNCHANGED store
    BY DEF EndScan
  <2>5. RecordFound(w) => UNCHANGED store
    BY Zenon DEF RecordFound
  <2> QED
    BY <1>2, <2>1, <2>2, <2>3, <2>4, <2>5 DEF store
<1>3. CASE RecordMissing(w) \/ RecordMissingOnSecond(w)
  BY <1>3 DEF RecordMissing, RecordMissingOnSecond, NoAttemptLanded
<1>4. CASE ReadFails(w) \/ SecondDisagrees(w)
  BY <1>4 DEF ReadFails, SecondDisagrees, Unresolved
<1>5. CASE RecordStep(w)
  BY <1>5 DEF RecordStep, FindCreator, CreatorUnclear, Matches, ConfirmMatch, RecordPaid,
              Mismatches, ConfirmIncident, EvidenceMissing, Unresolved, store
<1> QED
  BY <1>1, <1>2, <1>3, <1>4, <1>5 DEF WorkerStep, ResolveStep

\* A worker gives up an event when none of its attempts is signed, or unread.
LEMMA GivenUp ==
  ASSUME IInv, BookInv, Next \/ CalmDown \/ UNCHANGED vars, NEW e \in Events,
         status'[e] = "needs_attention", status[e] # "needs_attention"
  PROVE  (Signed(e) = {} /\ UNCHANGED attempts) \/ Elsewhere(e)
<1>1. status \in [Events -> Statuses]
  BY DEF IInv, TypeInv, StoreOk
<1>2. PICK w \in Workers : WorkerStep(w)
  <2>1. ~ClusterStep /\ ~CalmDown /\ ~UNCHANGED vars
    BY DEF ClusterStep, Land, ForeignSettle, Tick, Finalize, CalmDown, store, vars
  <2>2. ~OperatorStep
    BY <1>1 DEF OperatorStep, Enqueue, Crash, Recheck, Reconfigure, Set, store
  <2> QED
    BY <2>1, <2>2 DEF Next
<1>3. AloneOk(w)
  BY DEF BookInv
<1>4. ~UNCHANGED status
  OBVIOUS
<1>5. ASSUME NEW s \in {"pending", "in_flight", "paid", "incident"}
      PROVE  ~Set(work[w].event, s)
  BY <1>1 DEF Set
<1>6. GiveUp(w) \/ Abandon(w) \/ Conclude(w) \/ \E f \in Events : Resolve(w, f)
  BY <1>2, <1>4, <1>5, OthersDoNotGiveUp
<1>7. CASE GiveUp(w) \/ Abandon(w) \/ Conclude(w)
  <2>1. work[w].event = e /\ UNCHANGED attempts
    BY <1>1, <1>7 DEF GiveUp, Abandon, Conclude, Set
  <2>2. work[w].pc \in {"settle", "abandon", "conclude"}
    BY <1>7 DEF GiveUp, Abandon, Conclude
  <2> QED
    BY <1>3, <2>1, <2>2 DEF AloneOk, SettlingOk, ScanningOk, BookInv, EventOk
<1>8. ASSUME NEW f \in Events, Resolve(w, f) PROVE Elsewhere(e)
  BY <1>1, <1>8 DEF Resolve, Set
<1> QED
  BY <1>6, <1>7, <1>8

\* worker.ts:67-72: with a provider to rely on, an event is up for another attempt, or is
\* given up, only when none of its attempts can land and none settled it, not after a crash,
\* a refused send, a lost answer or a lagging provider either. The exception is an event with
\* an attempt in a namespace that the worker, started with another one, does not read.
THEOREM RetriesAreSafe ==
  ASSUME OneWorker, Reliable
  PROVE  (Spec => RetryIsSafe) /\ (FairSpec => RetryIsSafe)
<1>1. ASSUME IInv, BookInv, BookInv', UnsignedQuiet', [Next \/ CalmDown]_vars, NEW e \in Events
      PROVE  /\ status'[e] = "pending" => Quiet(e)'
             /\ status'[e] = "needs_attention" /\ status[e] # "needs_attention"
                  => Quiet(e)' \/ Elsewhere(e)
  <2>1. Next \/ CalmDown \/ UNCHANGED vars
    BY <1>1
  <2>2. Signed(e)' = {} /\ status'[e] # "paid" => Quiet(e)'
    BY <1>1 DEF UnsignedQuiet
  <2>3. ASSUME status'[e] = "pending" PROVE Quiet(e)'
    <3>1. Signed(e)' = {}
      BY <1>1, <2>3 DEF BookInv, EventOk
    <3> QED
      BY <2>2, <2>3, <3>1
  <2>4. ASSUME status'[e] = "needs_attention", status[e] # "needs_attention", ~Elsewhere(e)
        PROVE  Quiet(e)'
    <3>1. Signed(e) = {} /\ UNCHANGED attempts
      BY <1>1, <2>1, <2>4, GivenUp
    <3>2. Signed(e)' = {}
      BY <3>1 DEF Signed
    <3> QED
      BY <2>2, <2>4, <3>2
  <2> QED
    BY <2>3, <2>4
<1>2. IInv /\ BookInv /\ BookInv' /\ UnsignedQuiet' /\ [Next \/ CalmDown]_vars
      => [\A e \in Events :
            /\ status'[e] = "pending" => Quiet(e)'
            /\ status'[e] = "needs_attention" /\ status[e] # "needs_attention"
                 => Quiet(e)' \/ Elsewhere(e)]_vars
  BY <1>1
<1>3. [Next]_vars => [Next \/ CalmDown]_vars
  OBVIOUS
<1>4. Spec => RetryIsSafe
  BY <1>2, <1>3, UnsignedIsQuiet, PaidAlways, PTL DEF Spec, RetryIsSafe
<1>5. FairSpec => RetryIsSafe
  BY <1>2, UnsignedIsQuiet, PaidAlways, PTL DEF FairSpec, RetryIsSafe
<1> QED
  BY <1>4, <1>5

\* The transactions of the worker settle an event at most once, in one namespace,
\* whatever namespaces it was started with and however often it is started again.
THEOREM EventsAreSettledOnce ==
  ASSUME OneWorker, Reliable
  PROVE  (Spec => []SettledOnce) /\ (FairSpec => []SettledOnce)
<1>1. IInv /\ BookInv /\ PaidInv => SettledOnce
  <2> SUFFICES ASSUME IInv, PaidInv, NEW l \in landed, NEW m \in landed, l.ok, m.ok,
                      l.tx.event = m.tx.event
               PROVE  l = m
    BY DEF SettledOnce
  <2>1. PICK e \in Events : e = l.tx.event
    BY DEF IInv, TypeInv, ClusterOk, Txs
  <2>2. l \in Paid(e) /\ m \in Paid(e)
    BY <2>1 DEF Paid
  <2> QED
    BY <2>2 DEF PaidInv, PaidOk
<1> QED
  BY <1>1, PaidAlways, PTL
=============================================================================
