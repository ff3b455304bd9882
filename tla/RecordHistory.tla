--------------------------- MODULE RecordHistory ---------------------------
(***************************************************************************)
(* findSettlementTransaction and findLegacySettlementTransaction: which    *)
(* transaction created a settlement record, from the signature history of  *)
(* the record's address, read page by page from the newest entry back      *)
(* while others are added in front.                                        *)
(*                                                                         *)
(* A signature is its position in the finalized history, oldest first.     *)
(***************************************************************************)
EXTENDS Naturals, Sequences, FiniteSets

CONSTANTS PageSize,       \* 1000 in the code
          BatchSize,      \* 100
          MaxSignatures,  \* the caller's cap, 5000 by default
          Longest         \* bound on the length of a history

ASSUME HistoryAssumption ==
  {PageSize, BatchSize, MaxSignatures, Longest} \subseteq Nat \ {0}

\* What a transaction that names the record's address is: a transfer, a settlement
\* of the event that has another record (in another namespace, or not retired), a
\* settlement the program refused, one whose refusal the invoking program ignored,
\* and the one that created the record, directly or inside another.
Kinds == {"transfer", "elsewhere", "refused", "decoy", "created", "createdInside"}
Creators == {"created", "createdInside"}

Succeeds(kind) == kind # "refused"

\* What its instruction of the program names.
Names(kind) ==
  CASE kind = "transfer"  -> {}
    [] kind = "elsewhere" -> {"event"}
    [] OTHER              -> {"event", "record"}

\* settlementIn: a matching instruction, top-level or inner. The namespace and the
\* event name a record; a retired instruction lists it.
Settles(kind) == {"event", "record"} \subseteq Names(kind)

TopLevel(kind) == kind \in {"elsewhere", "refused", "created"}

VARIABLES history,   \* the finalized entries
          archival,  \* whether the provider keeps them all
          kept,      \* the oldest entry the provider still has
          pc, before, read, limit,
          page,      \* the signatures of the page, newest first
          start,     \* where its next batch starts
          matches, result,
          snapshot   \* the length of the history when the first page was read

reader == <<pc, before, read, limit, page, start, matches, result, snapshot>>
historyVars == <<history, archival, kept, reader>>

Unanswered == 0

Least(a, b) == IF a <= b THEN a ELSE b

HistoryInit ==
  /\ history = <<>> /\ archival \in BOOLEAN /\ kept = 1
  /\ pc = "page" /\ before = 0 /\ read = 0 /\ limit = 0
  /\ page = <<>> /\ start = 1 /\ matches = <<>> /\ result = "none" /\ snapshot = 0

\* Anyone can add entries; the program creates a record once and never closes it.
AddEntry(kind) ==
  /\ Len(history) < Longest
  /\ kind \in Creators => \A p \in 1..Len(history) : history[p] \notin Creators
  /\ history' = Append(history, kind)
  /\ UNCHANGED <<archival, kept, reader>>

Prune ==
  /\ ~archival /\ kept <= Len(history)
  /\ kept' = kept + 1
  /\ UNCHANGED <<history, archival, reader>>

\* getSignaturesForAddress: at most n entries the provider has, from position
\* `last` back.
NewestFrom(last, n) ==
  [k \in 1..(IF last < kept THEN 0 ELSE Least(n, last - kept + 1)) |-> last - k + 1]

Limit == Least(PageSize, MaxSignatures - read)

ReadPage ==
  LET last == IF before = 0 THEN Len(history) ELSE before - 1
  IN /\ pc = "page"
     /\ limit' = Limit
     /\ page' = NewestFrom(last, Limit)
     /\ start' = 1
     /\ snapshot' = IF before = 0 THEN Len(history) ELSE snapshot
     /\ pc' = "batch"
     /\ UNCHANGED <<history, archival, kept, before, read, matches, result>>

\* The entries of s at the positions in K, in their order.
Only(s, K) ==
  LET only[n \in 0..Len(s)] ==
        IF n = 0 THEN <<>>
        ELSE IF n \in K THEN Append(only[n - 1], s[n]) ELSE only[n - 1]
  IN only[Len(s)]

Succeeded == Only(page, {k \in 1..Len(page) : Succeeds(history[page[k]])})

\* The endpoint may answer a batch in any order and in part.
BatchAnswers(signatures) ==
  {answer \in [1..Len(signatures) -> {signatures[k] : k \in 1..Len(signatures)} \cup {Unanswered}] :
     \A j, k \in 1..Len(signatures) : answer[j] = answer[k] => j = k \/ answer[j] = Unanswered}

\* Faulty variant of TransactionFor: answers are matched by their position.
TransactionAt(signatures, answer, k) ==
  IF answer[k] = Unanswered THEN signatures[k] ELSE answer[k]

\* Answers are matched by the signatures they carry, and what the batch did not
\* answer is fetched on its own: either way, the transaction asked for.
TransactionFor(signatures, answer, k) == signatures[k]

\* Every answer has its meta, as a finalized transaction does; the code passes over one
\* without it (ledger.ts:1143).
MatchesIn(signatures, answer) ==
  LET transactions == [k \in 1..Len(signatures) |->
                         [signature |-> signatures[k],
                          kind |-> history[TransactionFor(signatures, answer, k)]]]
  IN Only(transactions, {k \in 1..Len(signatures) : /\ Succeeds(transactions[k].kind)
                                                    /\ Settles(transactions[k].kind)})

ReadBatch ==
  LET signatures == SubSeq(Succeeded, start, Least(start + BatchSize - 1, Len(Succeeded)))
  IN /\ pc = "batch" /\ start <= Len(Succeeded)
     /\ \E answer \in BatchAnswers(signatures) :
          matches' = matches \o MatchesIn(signatures, answer)
     /\ start' = start + BatchSize
     /\ UNCHANGED <<history, archival, kept, pc, before, read, limit, page, result, snapshot>>

Finish(r) == pc' = "done" /\ result' = r

\* A page could not be read, or a transaction of it is throttled or missing.
Unreadable ==
  /\ pc = "page" \/ (pc = "batch" /\ start <= Len(Succeeded))
  /\ Finish("unreadable")
  /\ UNCHANGED <<history, archival, kept, before, read, limit, page, start, matches, snapshot>>

LastPage == Len(page) < limit

\* A history of exactly MaxSignatures entries cannot be told from a longer one.
Cap(total) == ~LastPage /\ total >= MaxSignatures

\* Faulty variant of Cursor: the next page starts at the last entry read.
CursorInclusive == page[Len(page)] + 1

Cursor == page[Len(page)]

EndPage ==
  LET total == read + Len(page)
  IN /\ pc = "batch" /\ start > Len(Succeeded)
     /\ read' = total
     /\ \/ Cap(total) /\ Finish("capped") /\ UNCHANGED before
        \/ LastPage /\ ~Cap(total) /\ UNCHANGED before
             /\ Finish(IF Len(matches) = 1 THEN "found" ELSE "ambiguous")
        \/ ~LastPage /\ ~Cap(total)
             /\ before' = Cursor /\ pc' = "page" /\ UNCHANGED result
     /\ UNCHANGED <<history, archival, kept, limit, page, start, matches, snapshot>>

HistoryNext ==
  \/ \E kind \in Kinds : AddEntry(kind)
  \/ Prune
  \/ ReadPage \/ ReadBatch \/ Unreadable \/ EndPage

HistorySpec == HistoryInit /\ [][HistoryNext]_historyVars

-----------------------------------------------------------------------------
(* Properties *)

\* The signatures of the successful settlements among the first n entries.
Candidates(n) == {p \in 1..n : Succeeds(history[p]) /\ Settles(history[p])}

\* Paging is a read of one moment: with the whole history kept, the answer is
\* that of the entries there when the first page was read, each looked at once,
\* whatever is added while later pages are read (ledger.ts:1122-1165).
SnapshotRead ==
  archival =>
    /\ result = "found" => Candidates(snapshot) = {matches[1].signature}
    /\ result = "ambiguous" => Cardinality(Candidates(snapshot)) # 1
    /\ result \in {"found", "ambiguous"} => snapshot < MaxSignatures
    /\ result = "capped" => snapshot >= MaxSignatures

\* ledger.ts:999-1014: a top-level settlement that is found created the record,
\* on whichever provider, pruned or not; any settlement does when the whole
\* history is kept and the creation was final before the read.
FoundIsCreator ==
  result = "found" =>
    LET p == matches[1].signature
    IN /\ matches[1].kind = history[p]
       /\ TopLevel(history[p]) => history[p] \in Creators
       /\ archival /\ (\E q \in 1..snapshot : history[q] \in Creators)
            => history[p] \in Creators
=============================================================================
