--------------------------- MODULE SettlementBook ---------------------------
(***************************************************************************)
(* What the settlement program promises, without accounts, lamports or     *)
(* instructions: a book with one page per namespace. A page is opened once *)
(* by its creator; its authority alone hands it over, to a key that agrees *)
(* to take it; its authority alone settles events in it, each at most      *)
(* once and for an amount that is never revised.                           *)
(***************************************************************************)
EXTENDS Naturals

CONSTANTS Namespaces, Events, Keys, Amounts,
          Creator,     \* the only key that may open each namespace
          Nobody,      \* the authority of a namespace not opened yet
          Authorities  \* what may be named as an authority, Nobody excepted

VARIABLES authority,   \* who controls each namespace
          settled,     \* the amount each event was settled for, 0 if it is not
          paying,      \* the events the last transaction paid for
          signed       \* the keys that signed the last transaction

vars == <<authority, settled, paying, signed>>

Init ==
  /\ authority = [n \in Namespaces |-> Nobody]
  /\ settled = [n \in Namespaces |-> [e \in Events |-> 0]]
  /\ paying = {}
  /\ signed = {}

Open(n, k) ==
  /\ authority[n] = Nobody
  /\ Creator[n] \in signed'
  /\ authority' = [authority EXCEPT ![n] = k]

Rotate(n, k) ==
  /\ authority[n] \in signed'
  /\ k \in signed'
  /\ authority' = [authority EXCEPT ![n] = k]
  /\ UNCHANGED settled

\* Also the transaction that opens a namespace and settles in it at once: the
\* authority is the one the transaction leaves.
Settle(n, e, amount) ==
  /\ authority'[n] \in signed'
  /\ settled[n][e] = 0
  /\ settled' = [settled EXCEPT ![n][e] = amount]
  /\ paying' = {<<n, e>>}

\* A transaction the book has nothing to do with.
Pass == paying' = {} /\ UNCHANGED <<authority, settled>>

Next ==
  /\ signed' \in SUBSET Keys
  /\ \/ \E n \in Namespaces, k \in Authorities :
          Open(n, k) /\ paying' = {} /\ UNCHANGED settled
     \/ \E n \in Namespaces, k \in Keys : Rotate(n, k) /\ paying' = {}
     \/ \E n \in Namespaces, e \in Events, amount \in Amounts \ {0} :
          Settle(n, e, amount) /\ UNCHANGED authority
     \/ \E n \in Namespaces, k \in Authorities, e \in Events, amount \in Amounts \ {0} :
          Open(n, k) /\ Settle(n, e, amount)
     \/ Pass

Spec == Init /\ [][Next]_vars
=============================================================================
